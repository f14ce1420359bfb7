-------------------------- MODULE MCWorkerRuntime --------------------------
(***************************************************************************)
(* Small instances of WorkerRuntime: two or three workers, one or two      *)
(* connections.  The liveness properties forbid symmetry in connections.   *)
(***************************************************************************)
EXTENDS WorkerRuntime

\* Everything that can fail for good.
AllFaults == PermanentFaults
=============================================================================
