------------------------------ MODULE WriteLock ------------------------------
(***************************************************************************)
(* The write guard of planledger, .ledger/planledger/write.lock, that       *)
(* `init', `migrate apply' and `storage recover' hold around their writes:  *)
(* acquire_planledger_write_lock, and require_planledger_quiescent which    *)
(* the migration calls inside it.                                          *)
(*                                                                         *)
(* The lock is a file that is made with open(..., "x") and then filled with *)
(* the pid and the host of its maker.  Looking at it, asking the system     *)
(* whether that pid is alive, checking the pid once more and unlinking are  *)
(* separate steps; unlink removes whatever file has the name by then.       *)
(***************************************************************************)
EXTENDS Integers, FiniteSets, Functions

CONSTANTS
  Procs,      \* invocations that take the lock, each once
  Pid,        \* their process ids; an id may be given again after its end
  Host,       \* the machines they run on, which share the directory
  MaxCrashes, \* bound: invocations that are killed
  Nil

ASSUME PidAssumption   == DOMAIN Pid = Procs /\ DOMAIN Host = Procs
ASSUME CrashAssumption == MaxCrashes \in Nat

LockFile == [by : Procs, written : BOOLEAN]

ASSUME NilAssumption == Nil \notin Procs /\ Nil \notin LockFile

VARIABLES
  lock,     \* Nil, or who made the file, and whether it is filled in yet
  pc,       \* where each invocation is
  holder,   \* whose pid and host it read in the lock file
  met,      \* whether another invocation was alive while it ran
  result,   \* how it ended
  crashes

vars == <<lock, pc, holder, met, result, crashes>>

Stopped    == {"new", "ended"}
Acquiring  == {"look", "read", "probe", "check_stale", "unlink_stale", "open"}
Retrying   == {"look_again", "read_again", "probe_again", "check_mine", "unlink_mine", "open_again"}
Owning     == {"write", "body", "release", "unlink"}
Labels     == Stopped \cup Acquiring \cup Retrying \cup Owning \cup {"reentered"}

Results == {"none", "ok", "active_writer", "lock_invalid", "file_exists", "crashed"}

TypeOK ==
  /\ lock \in LockFile \cup {Nil}
  /\ pc \in [Procs -> Labels]
  /\ holder \in [Procs -> Procs \cup {Nil}]
  /\ met \in [Procs -> BOOLEAN]
  /\ result \in [Procs -> Results]
  /\ crashes \in 0 .. MaxCrashes

Alive(p) == pc[p] \notin Stopped

Filled == lock # Nil /\ lock.written

\* os.kill(pid, 0) asks the machine p runs on, whatever host the file names.
PidAlive(p, q) == \E r \in Procs : Alive(r) /\ Host[r] = Host[p] /\ Pid[r] = Pid[q]

IsSelf(p, q) == Pid[q] = Pid[p] /\ Host[q] = Host[p]

Init ==
  /\ lock = Nil
  /\ pc = [p \in Procs |-> "new"]
  /\ holder = [p \in Procs |-> Nil]
  /\ met = [p \in Procs |-> FALSE]
  /\ result = [p \in Procs |-> "none"]
  /\ crashes = 0

Goto(p, label) == pc' = [pc EXCEPT ![p] = label]

End(p, outcome) == Goto(p, "ended") /\ result' = [result EXCEPT ![p] = outcome]

\* The system gives out no pid that is in use on the machine.
Start(p) ==
  /\ pc[p] = "new" /\ ~PidAlive(p, p)
  /\ Goto(p, "look")
  /\ met' = [q \in Procs |-> IF q = p THEN \E r \in Procs : Alive(r)
                             ELSE met[q] \/ Alive(q)]
  /\ UNCHANGED <<lock, holder, result, crashes>>

-----------------------------------------------------------------------------
(* inspect_write_lock, at the beginning and again after FileExistsError *)

Look(p) ==
  /\ pc[p] \in {"look", "look_again"}
  /\ Goto(p, IF pc[p] = "look"
               THEN IF lock = Nil THEN "open" ELSE "read"
               ELSE IF lock = Nil THEN "check_mine" ELSE "read_again")
  /\ UNCHANGED <<lock, holder, met, result, crashes>>

Reading(p) == pc[p] \in {"read", "read_again"}

\* The file is gone, or is still empty.
ReadFails(p) ==
  /\ Reading(p) /\ ~Filled
  /\ End(p, "lock_invalid")
  /\ UNCHANGED <<lock, holder, met, crashes>>

Read(p) ==
  /\ Reading(p) /\ Filled
  /\ holder' = [holder EXCEPT ![p] = lock.by]
  /\ Goto(p, IF pc[p] = "read" THEN "probe" ELSE "probe_again")
  /\ UNCHANGED <<lock, met, result, crashes>>

\* The pid in the file is this process's own: the lock counts as held.
Reenter(p) ==
  /\ pc[p] = "probe" /\ IsSelf(p, holder[p])
  /\ Goto(p, "reentered")
  /\ UNCHANGED <<lock, holder, met, result, crashes>>

RefuseActive(p) ==
  /\ pc[p] \in {"probe", "probe_again"}
  /\ PidAlive(p, holder[p]) /\ ~IsSelf(p, holder[p])
  /\ End(p, "active_writer")
  /\ UNCHANGED <<lock, holder, met, crashes>>

\* Mistake: a holder is taken for dead without asking the system.
FoundStaleAlways(p) ==
  /\ \/ pc[p] = "probe" /\ ~IsSelf(p, holder[p]) /\ Goto(p, "check_stale")
     \/ /\ pc[p] = "probe_again" /\ (IsSelf(p, holder[p]) \/ ~PidAlive(p, holder[p]))
        /\ Goto(p, "check_mine")
  /\ UNCHANGED <<lock, holder, met, result, crashes>>

FoundStale(p) ==
  /\ \/ /\ pc[p] = "probe" /\ ~IsSelf(p, holder[p]) /\ ~PidAlive(p, holder[p])
        /\ Goto(p, "check_stale")
     \/ /\ pc[p] = "probe_again" /\ (IsSelf(p, holder[p]) \/ ~PidAlive(p, holder[p]))
        /\ Goto(p, "check_mine")
  /\ UNCHANGED <<lock, holder, met, result, crashes>>

-----------------------------------------------------------------------------
(* unlink_write_lock: the file's pid is checked, then the name is unlinked *)

\* Mistake: only an own lock is ever unlinked.
RequiredPidOwn(p) == Pid[p]

\* The pid each caller requires: the dead holder's, or its own.
RequiredPid(p) == IF pc[p] = "check_stale" THEN Pid[holder[p]] ELSE Pid[p]

\* Mistake: the pid in the file is not compared.
UnlinkableAnyPid(p) == Filled

Unlinkable(p) == Filled /\ Pid[lock.by] = RequiredPid(p)

\* Where each caller goes when it may unlink, and when it may not or has done.
Unlinker == [check_stale |-> "unlink_stale", check_mine |-> "unlink_mine", release |-> "unlink"]
Onwards  == [check_stale |-> "open", check_mine |-> "open_again", release |-> "ended",
             unlink_stale |-> "open", unlink_mine |-> "open_again", unlink |-> "ended"]

MayUnlink(p) ==
  /\ pc[p] \in DOMAIN Unlinker /\ Unlinkable(p)
  /\ Goto(p, Unlinker[pc[p]])
  /\ UNCHANGED <<lock, holder, met, result, crashes>>

MayNotUnlink(p) ==
  /\ pc[p] \in DOMAIN Unlinker /\ ~Unlinkable(p)
  /\ Goto(p, Onwards[pc[p]])
  /\ UNCHANGED <<lock, holder, met, result, crashes>>

Unlink(p) ==
  /\ pc[p] \in Range(Unlinker)
  /\ Goto(p, Onwards[pc[p]])
  /\ lock' = Nil
  /\ UNCHANGED <<holder, met, result, crashes>>

-----------------------------------------------------------------------------
(* open(path, "x"), filling the file, the body *)

Create(p) ==
  /\ pc[p] \in {"open", "open_again"} /\ lock = Nil
  /\ lock' = [by |-> p, written |-> FALSE]
  /\ Goto(p, "write")
  /\ UNCHANGED <<holder, met, result, crashes>>

FileExists(p) ==
  /\ lock # Nil
  /\ \/ pc[p] = "open" /\ Goto(p, "look_again") /\ UNCHANGED result
     \/ pc[p] = "open_again" /\ End(p, "file_exists")
  /\ UNCHANGED <<lock, holder, met, crashes>>

\* The handle stays with the file that was made, even if its name is gone.
Write(p) ==
  /\ pc[p] = "write"
  /\ lock' = IF lock # Nil /\ lock.by = p THEN [lock EXCEPT !.written = TRUE] ELSE lock
  /\ Goto(p, "body")
  /\ UNCHANGED <<holder, met, result, crashes>>

\* require_planledger_quiescent, which the migration calls before it copies and
\* before it activates, finds another live writer or an empty file.
NotQuiescent(p) ==
  /\ pc[p] = "body" /\ lock # Nil
  /\ \/ /\ lock.written /\ PidAlive(p, lock.by) /\ ~IsSelf(p, lock.by)
        /\ result' = [result EXCEPT ![p] = "active_writer"]
     \/ ~lock.written /\ result' = [result EXCEPT ![p] = "lock_invalid"]
  /\ Goto(p, "release")
  /\ UNCHANGED <<lock, holder, met, crashes>>

\* Those who are between acquiring and releasing the lock.
Inside(p) == pc[p] \in {"body", "reentered"}

\* Mistake: the lock is not released on the way out.
LeaveUnreleased(p) ==
  /\ result' = [result EXCEPT ![p] = "ok"]
  /\ Inside(p) /\ Goto(p, "ended")
  /\ UNCHANGED <<lock, holder, met, crashes>>

\* The body of the lock ends; who entered it on a lock already there leaves
\* without a release.
Leave(p) ==
  /\ result' = [result EXCEPT ![p] = "ok"]
  /\ \/ pc[p] = "body" /\ Goto(p, "release")
     \/ pc[p] = "reentered" /\ Goto(p, "ended")
  /\ UNCHANGED <<lock, holder, met, crashes>>

Crash(p) ==
  /\ Alive(p) /\ crashes < MaxCrashes
  /\ End(p, "crashed")
  /\ crashes' = crashes + 1
  /\ UNCHANGED <<lock, holder, met>>

Step(p) ==
  \/ Look(p) \/ ReadFails(p) \/ Read(p) \/ Reenter(p) \/ RefuseActive(p) \/ FoundStale(p)
  \/ MayUnlink(p) \/ MayNotUnlink(p) \/ Unlink(p)
  \/ Create(p) \/ FileExists(p) \/ Write(p) \/ NotQuiescent(p) \/ Leave(p)

Next == \E p \in Procs : Start(p) \/ Step(p) \/ Crash(p)

Spec == Init /\ [][Next]_vars

-----------------------------------------------------------------------------
(* Properties *)

\* At most one invocation is in the body of the lock.
MutualExclusion == \A p, q \in Procs : Inside(p) /\ Inside(q) => p = q

\* The lock of an invocation that is alive is removed by nobody but itself.
LockNotStolen ==
  [][\A p \in Procs : lock # Nil /\ lock.by = p /\ Alive(p) /\ lock' = Nil =>
       pc[p] = "unlink" /\ pc'[p] = "ended"]_vars

AllEnded == \A p \in Procs : pc[p] = "ended"

\* However many compete, one of them gets the lock, and the file is gone when
\* all are done.
SomeoneGetsIn == AllEnded => lock = Nil /\ \E p \in Procs : result[p] = "ok"

\* An invocation that runs alone is refused only by an empty lock file whose
\* maker died: a filled lock left by a crash is recovered.
LonerGetsIn ==
  \A p \in Procs :
    pc[p] = "ended" /\ result[p] \notin {"ok", "crashed"} /\ ~met[p] =>
      result[p] = "lock_invalid" /\ crashes > 0

=============================================================================
