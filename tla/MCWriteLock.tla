---------------------------- MODULE MCWriteLock ----------------------------
(* Small instances of WriteLock: invocations 1, 2 and 3. *)
EXTENDS WriteLock

DistinctPids == [p \in Procs |-> 100 + p]

\* The second invocation gets the pid of the first, when that has ended.
ReusedPid    == [p \in Procs |-> IF p = 2 THEN 101 ELSE 100 + p]

OneHost == [p \in Procs |-> "here"]
=============================================================================
