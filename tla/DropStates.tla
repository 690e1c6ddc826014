----------------------------- MODULE DropStates -----------------------------
(***************************************************************************)
(* The two state enumerations every DROP carries (ddap_protocol.py): the   *)
(* status of a DROP, and the execution status an AppDROP has besides it.   *)
(***************************************************************************)

DROPStates ==
  {"INITIALIZED", "WRITING", "COMPLETED", "ERROR",
   "EXPIRED", "DELETED", "CANCELLED", "SKIPPED"}

AppDROPStates ==
  {"NOT_RUN", "RUNNING", "FINISHED", "ERROR", "CANCELLED", "SKIPPED"}

\* The states in which a DROP still waits for its data; setCompleted, skip,
\* cancel and write all test for exactly these two.
Pending == {"INITIALIZED", "WRITING"}
=============================================================================
