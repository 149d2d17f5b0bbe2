---------------------------- MODULE WriteLockProofs ----------------------------
(***************************************************************************)
(* For any number of invocations on one machine that all have their own pid *)
(* and are never killed, the write lock excludes and somebody gets it; and   *)
(* whoever runs alone recovers a lock a killed invocation left, pids given   *)
(* out again included.  Whatever happens, each step of an invocation takes it *)
(* nearer its end.                                                         *)
(***************************************************************************)
EXTENDS WriteLock, TLAPS

\* No pid is given out twice, everybody runs on one machine, nobody is killed.
\* Each is needed: a holder on another host counts as dead; of two invocations
\* that recover the lock of a dead one the slower removes the faster one's; and a
\* pid that was given out again makes the lock of its new owner look like the one
\* a slow reader means to remove.
CleanSetting ==
  /\ \A p, q \in Procs : Pid[p] = Pid[q] => p = q
  /\ \A p, q \in Procs : Host[p] = Host[q]
  /\ MaxCrashes = 0

\* The lock file, while there is one, is its maker's, who is alive and past
\* open(); and whoever is there has its own file.
FileOfOwner ==
  /\ lock # Nil => /\ pc[lock.by] \in Owning
                   /\ lock.written <=> pc[lock.by] # "write"
  /\ \A p \in Procs : pc[p] \in Owning => lock # Nil /\ lock.by = p

\* Who has read the lock file has read another's pid, and finds it dead only
\* when that invocation has ended; nobody gets as far as unlinking for it.
Readers ==
  /\ \A p \in Procs : pc[p] \in {"probe", "probe_again", "check_stale"} =>
       holder[p] \in Procs \ {p}
  /\ \A p \in Procs : pc[p] = "check_stale" => pc[holder[p]] = "ended"
  /\ \A p \in Procs : pc[p] \in {"probe", "probe_again"} => pc[holder[p]] # "new"
  /\ \A p \in Procs : pc[p] \notin {"unlink_stale", "unlink_mine", "reentered"}

LockInv == TypeOK /\ FileOfOwner /\ Readers

LEMMA LockInvInit == Init => LockInv
BY CrashAssumption
   DEF Init, LockInv, TypeOK, FileOfOwner, Readers, Labels, Stopped, Owning, Results

LEMMA StepTypeOK ==
  ASSUME TypeOK, NEW p \in Procs, Start(p) \/ Step(p) \/ Crash(p)
  PROVE  TypeOK'
<1>1. CASE Start(p)
  BY <1>1 DEF TypeOK, Start, Goto, Labels, Acquiring
<1>2. CASE Crash(p)
  BY <1>2, CrashAssumption DEF TypeOK, Crash, End, Goto, Labels, Stopped, Results
<1>3. CASE Look(p) \/ ReadFails(p) \/ Read(p) \/ Reenter(p) \/ RefuseActive(p) \/ FoundStale(p)
  BY <1>3 DEF TypeOK, Look, ReadFails, Read, Filled, LockFile, Reenter, RefuseActive, FoundStale,
              End, Goto, Labels, Stopped, Acquiring, Retrying, Results
<1>4. CASE MayUnlink(p)
  BY <1>4 DEF TypeOK, MayUnlink, Unlinker, Goto, Labels, Stopped, Acquiring, Retrying, Owning
<1>5. CASE MayNotUnlink(p) \/ Unlink(p)
  <2>1. pc[p] \in {"check_stale", "check_mine", "release",
                   "unlink_stale", "unlink_mine", "unlink"}
    BY <1>5 DEF MayNotUnlink, Unlink, Unlinker, Range
  <2>2. Onwards[pc[p]] \in {"open", "open_again", "ended"}
    BY <2>1 DEF Onwards
  <2>. QED
    BY <1>5, <2>2 DEF TypeOK, MayNotUnlink, Unlink, Goto, Labels, Stopped, Acquiring, Retrying
<1>6. CASE Create(p)
  BY <1>6 DEF TypeOK, Create, Goto, LockFile, Labels, Owning
<1>7. CASE FileExists(p)
  BY <1>7 DEF TypeOK, FileExists, End, Goto, Labels, Stopped, Retrying, Results
<1>8. CASE Write(p) \/ NotQuiescent(p) \/ Leave(p)
  BY <1>8 DEF TypeOK, Write, NotQuiescent, Leave, Goto, LockFile,
              Labels, Stopped, Owning, Results
<1>. QED
  BY <1>1, <1>3, <1>4, <1>5, <1>6, <1>8, <1>2, <1>7 DEF Step

\* The lock file, the process table and every variable of every invocation keep
\* their types, also where pids are given out again, on several hosts and with
\* invocations killed anywhere (acquire_planledger_write_lock).
THEOREM TypeCorrect == Spec => []TypeOK
<1>1. Init => TypeOK
  BY LockInvInit DEF LockInv
<1>2. TypeOK /\ [Next]_vars => TypeOK'
  <2>1. TypeOK /\ Next => TypeOK'
    BY StepTypeOK DEF Next
  <2>2. TypeOK /\ UNCHANGED vars => TypeOK'
    BY DEF vars, TypeOK
  <2>. QED
    BY <2>1, <2>2
<1>. QED
  BY <1>1, <1>2, PTL DEF Spec

\* Who owns no lock file before and after a step that leaves the file alone.
LEMMA OwnersKept ==
  ASSUME TypeOK, FileOfOwner, NEW p \in Procs, lock' = lock,
         pc[p] \notin Owning, pc'[p] \notin Owning, \A q \in Procs : q # p => pc'[q] = pc[q]
  PROVE  FileOfOwner'
<1>1. lock # Nil => lock.by \in Procs /\ lock.by # p
  BY DEF TypeOK, LockFile, FileOfOwner
<1>. QED
  BY <1>1 DEF FileOfOwner

\* Every step of an invocation keeps the invariant, and takes the lock file
\* away only from under its maker, who is just leaving.
LEMMA LockStep ==
  ASSUME CleanSetting, LockInv, NEW p \in Procs, Start(p) \/ Step(p) \/ Crash(p)
  PROVE  /\ LockInv'
         /\ lock # Nil /\ lock' = Nil => lock.by = p /\ pc[p] = "unlink" /\ pc'[p] = "ended"
<1>0. TypeOK /\ TypeOK' /\ FileOfOwner /\ Readers /\ (lock # Nil => lock \in LockFile)
  BY StepTypeOK DEF LockInv, TypeOK
<1>. SUFFICES /\ FileOfOwner' /\ Readers'
              /\ lock # Nil /\ lock' = Nil => lock.by = p /\ pc[p] = "unlink" /\ pc'[p] = "ended"
  BY <1>0 DEF LockInv
<1>1. CASE Start(p)
  BY <1>0, <1>1 DEF Start, Goto, TypeOK, FileOfOwner, Readers, Owning
<1>2. CASE Look(p)
  BY <1>0, <1>2 DEF Look, Goto, TypeOK, FileOfOwner, Readers, Owning
<1>3. CASE ReadFails(p)
  BY <1>0, <1>3 DEF ReadFails, Reading, End, Goto, TypeOK, FileOfOwner, Readers, Owning
<1>4. CASE Read(p)
  <2>1. lock.by \in Procs \ {p} /\ pc[lock.by] \in Owning
    BY <1>0, <1>4 DEF Read, Reading, Filled, FileOfOwner, LockFile, Owning
  <2>. QED
    BY <1>0, <1>4, <2>1 DEF Read, Reading, Goto, TypeOK, FileOfOwner, Readers, Owning
<1>5. CASE Reenter(p)
  BY <1>0, <1>5 DEF Reenter, IsSelf, CleanSetting, Readers
<1>6. CASE RefuseActive(p)
  BY <1>0, <1>6 DEF RefuseActive, End, Goto, TypeOK, FileOfOwner, Readers, Owning
<1>7. CASE FoundStale(p)
  <2>1. pc[p] \in {"probe", "probe_again"} /\ holder[p] \in Procs \ {p} /\ lock' = lock
    BY <1>0, <1>7 DEF FoundStale, Readers
  <2>2. ~IsSelf(p, holder[p])
    BY <2>1 DEF IsSelf, CleanSetting
  <2>3. ~PidAlive(p, holder[p])
    BY <1>7, <2>2 DEF FoundStale
  <2>4. pc[holder[p]] = "ended"
    BY <1>0, <2>1, <2>3 DEF PidAlive, Alive, Stopped, CleanSetting, Readers
  <2>5. /\ pc[p] = "probe" => pc' = [pc EXCEPT ![p] = "check_stale"]
        /\ pc[p] = "probe_again" => pc' = [pc EXCEPT ![p] = "check_mine"]
        /\ holder' = holder
    BY <1>7 DEF FoundStale, Goto
  <2>6. FileOfOwner'
    <3>1. /\ pc[p] \notin Owning /\ pc'[p] \notin Owning
          /\ \A q \in Procs : q # p => pc'[q] = pc[q]
      BY <1>0, <2>1, <2>5 DEF TypeOK, Owning
    <3>. QED
      BY <1>0, <2>1, <3>1, OwnersKept
  <2>7. Readers'
    BY <1>0, <2>1, <2>4, <2>5 DEF TypeOK, Readers
  <2>. QED
    BY <2>1, <2>6, <2>7
<1>8. CASE MayUnlink(p)
  <2>1. pc[p] \in {"check_stale", "check_mine", "release"}
    BY <1>8 DEF MayUnlink, Unlinker
  <2>2. lock # Nil /\ lock.by \in Procs /\ pc[lock.by] \in Owning /\ Pid[lock.by] = RequiredPid(p)
    BY <1>0, <1>8 DEF MayUnlink, Unlinkable, Filled, FileOfOwner, LockFile
  <2>3. pc[p] # "check_stale"
    BY <1>0, <2>1, <2>2 DEF RequiredPid, CleanSetting, Readers, Owning
  <2>4. pc[p] # "check_mine"
    BY <1>0, <2>1, <2>2 DEF RequiredPid, CleanSetting, Owning
  <2>5. pc[p] = "release" /\ pc' = [pc EXCEPT ![p] = "unlink"] /\ UNCHANGED <<lock, holder>>
    <3>1. Unlinker["release"] = "unlink"
      BY DEF Unlinker
    <3>. QED
      BY <1>8, <2>1, <2>3, <2>4, <3>1 DEF MayUnlink, Goto
  <2>. QED
    BY <1>0, <2>5 DEF TypeOK, FileOfOwner, Readers, Owning
<1>9. CASE MayNotUnlink(p)
  <2>1. pc[p] \in {"check_stale", "check_mine", "release"} /\ UNCHANGED <<lock, holder>>
    BY <1>9 DEF MayNotUnlink, Unlinker
  <2>2. pc[p] # "release"
    BY <1>0, <1>9, <2>1
       DEF MayNotUnlink, Unlinkable, Filled, RequiredPid, FileOfOwner, Owning
  <2>3. Onwards[pc[p]] \in {"open", "open_again"}
    BY <2>1, <2>2 DEF Onwards
  <2>4. pc' = [pc EXCEPT ![p] = Onwards[pc[p]]]
    BY <1>9 DEF MayNotUnlink, Goto
  <2>. QED
    BY <1>0, <2>1, <2>2, <2>3, <2>4 DEF TypeOK, FileOfOwner, Readers, Owning
<1>10. CASE Unlink(p)
  <2>1. pc[p] = "unlink" /\ pc' = [pc EXCEPT ![p] = "ended"] /\ lock' = Nil /\ holder' = holder
    <3>1. pc[p] \in {"unlink_stale", "unlink_mine", "unlink"}
      BY <1>10 DEF Unlink, Range, Unlinker
    <3>2. pc[p] = "unlink" /\ Onwards["unlink"] = "ended"
      BY <1>0, <3>1 DEF Readers, Onwards
    <3>. QED
      BY <1>10, <3>2 DEF Unlink, Goto
  <2>2. lock # Nil /\ lock.by = p
    BY <1>0, <2>1 DEF FileOfOwner, Owning
  <2>3. \A q \in Procs : q # p => pc[q] \notin Owning
    BY <1>0, <2>2 DEF FileOfOwner
  <2>. QED
    BY <1>0, <2>1, <2>2, <2>3 DEF TypeOK, FileOfOwner, Readers, Owning
<1>11. CASE Create(p)
  <2>1. /\ pc[p] \in {"open", "open_again"} /\ lock = Nil /\ lock' = [by |-> p, written |-> FALSE]
        /\ pc' = [pc EXCEPT ![p] = "write"] /\ holder' = holder
    BY <1>11 DEF Create, Goto
  <2>2. \A q \in Procs : pc[q] \notin Owning
    BY <1>0, <2>1 DEF FileOfOwner
  <2>3. lock' # Nil /\ lock'.by = p /\ lock'.written = FALSE
    <3>1. [by |-> p, written |-> FALSE] \in LockFile
      BY DEF LockFile
    <3>. QED
      BY <2>1, <3>1, NilAssumption
  <2>4. FileOfOwner'
    BY <1>0, <2>1, <2>2, <2>3 DEF TypeOK, FileOfOwner, Owning
  <2>5. Readers'
    BY <1>0, <2>1 DEF TypeOK, Readers
  <2>. QED
    BY <2>1, <2>4, <2>5
<1>12. CASE FileExists(p)
  <2>1. /\ UNCHANGED <<lock, holder>> /\ pc[p] \in {"open", "open_again"}
        /\ \/ pc' = [pc EXCEPT ![p] = "look_again"]
           \/ pc' = [pc EXCEPT ![p] = "ended"]
    BY <1>12 DEF FileExists, End, Goto
  <2>2. FileOfOwner'
    <3>1. /\ pc[p] \notin Owning /\ pc'[p] \notin Owning
          /\ \A q \in Procs : q # p => pc'[q] = pc[q]
      BY <1>0, <2>1 DEF TypeOK, Owning
    <3>. QED
      BY <1>0, <2>1, <3>1, OwnersKept
  <2>3. Readers'
    BY <1>0, <2>1 DEF TypeOK, Readers
  <2>. QED
    BY <2>1, <2>2, <2>3
<1>13. CASE Write(p)
  <2>1. lock # Nil /\ lock.by = p
    BY <1>0, <1>13 DEF Write, FileOfOwner, Owning
  <2>2. /\ pc[p] = "write" /\ lock' = [lock EXCEPT !.written = TRUE]
        /\ pc' = [pc EXCEPT ![p] = "body"] /\ holder' = holder
    BY <1>13, <2>1 DEF Write, Goto
  <2>3. lock' # Nil /\ lock'.by = p /\ lock'.written = TRUE
    BY <1>0, <2>1, <2>2, NilAssumption DEF LockFile, TypeOK
  <2>. QED
    BY <1>0, <2>1, <2>2, <2>3 DEF TypeOK, FileOfOwner, Readers, Owning
<1>14. CASE NotQuiescent(p)
  BY <1>0, <1>14 DEF NotQuiescent, Goto, TypeOK, FileOfOwner, Readers, Owning
<1>15. CASE Leave(p)
  BY <1>0, <1>15 DEF Leave, Goto, TypeOK, FileOfOwner, Readers, Owning
<1>16. CASE Crash(p)
  BY <1>0, <1>16 DEF Crash, CleanSetting, TypeOK
<1>. QED
  BY <1>1, <1>2, <1>3, <1>4, <1>5, <1>6, <1>7, <1>8, <1>9, <1>10, <1>11, <1>12, <1>13,
     <1>14, <1>15, <1>16 DEF Step

LEMMA LockInvNext == CleanSetting /\ LockInv /\ [Next]_vars => LockInv'
<1> SUFFICES ASSUME CleanSetting, LockInv, [Next]_vars PROVE LockInv'
  OBVIOUS
<1>1. CASE Next
  BY <1>1, LockStep DEF Next
<1>2. CASE UNCHANGED vars
  BY <1>2 DEF vars, LockInv, TypeOK, FileOfOwner, Readers
<1>. QED
  BY <1>1, <1>2

\* acquire_planledger_write_lock: of any number of invocations at most one is in
\* the body of the lock, on one machine, with pids of their own, nobody killed.
THEOREM LockExcludes ==
  ASSUME CleanSetting PROVE Spec => []MutualExclusion
<1>1. LockInv => MutualExclusion
  BY DEF LockInv, FileOfOwner, Readers, MutualExclusion, Inside, Owning
<1>2. LockInv /\ [Next]_vars => LockInv'
  BY LockInvNext
<1>. QED
  BY <1>1, <1>2, LockInvInit, PTL DEF Spec

\* In the same setting the lock of an invocation that is alive is unlinked by
\* nobody else: a pid that was found dead never names the lock that is there
\* when unlink_write_lock checks it again.
THEOREM LockKept ==
  ASSUME CleanSetting PROVE Spec => LockNotStolen
<1>1. LockInv /\ [Next]_vars =>
        [\A p \in Procs : lock # Nil /\ lock.by = p /\ Alive(p) /\ lock' = Nil =>
           pc[p] = "unlink" /\ pc'[p] = "ended"]_vars
  BY LockStep DEF Next
<1>2. LockInv /\ [Next]_vars => LockInv'
  BY LockInvNext
<1>. QED
  BY <1>1, <1>2, LockInvInit, PTL DEF Spec, LockNotStolen

-----------------------------------------------------------------------------
(* Somebody gets in *)

\* Somebody is on the way into the body, or has been through it.
SomeoneIn == \E q \in Procs : pc[q] \in {"write", "body"} \/ result[q] = "ok"

\* Whoever was held up met a lock file, and so somebody who made it; who made
\* one leaves with "ok" and nothing else.
Progress ==
  /\ \A p \in Procs : pc[p] \notin {"new", "look", "open"} => SomeoneIn
  /\ \A p \in Procs : pc[p] \in {"release", "unlink"} => result[p] = "ok"
  /\ \A p \in Procs : result[p] = "ok" => pc[p] \in {"release", "unlink", "ended"}

LEMMA ProgressStep ==
  ASSUME CleanSetting, LockInv, Progress, NEW p \in Procs, Start(p) \/ Step(p) \/ Crash(p)
  PROVE  Progress'
<1>0. TypeOK /\ FileOfOwner /\ Readers
  BY DEF LockInv
<1>1. lock # Nil => SomeoneIn
  <2>1. lock # Nil => lock.by \in Procs /\ pc[lock.by] \in Owning
    BY <1>0 DEF TypeOK, LockFile, FileOfOwner
  <2>. QED
    BY <2>1 DEF SomeoneIn, Progress, Owning
\* A step that takes nobody out of the body.
<1>2. ASSUME \A q \in Procs : q # p => pc'[q] = pc[q] /\ result'[q] = result[q],
             pc[p] \in {"write", "body"} => pc'[p] \in {"write", "body"} \/ result'[p] = "ok",
             result[p] = "ok" => result'[p] = "ok"
      PROVE  SomeoneIn => SomeoneIn'
  BY <1>2 DEF SomeoneIn
<1>3. ASSUME \A q \in Procs : q # p => pc'[q] = pc[q] /\ result'[q] = result[q],
             pc[p] \notin Owning \cup {"ended"}, result'[p] # "ok",
             pc'[p] \notin {"release", "unlink"},
             pc'[p] \notin {"new", "look", "open"} =>
               lock # Nil \/ pc[p] \notin {"new", "look", "open"}
      PROVE  Progress'
  <2>1. result[p] = "ok" => pc[p] = "ended"
    BY <1>3 DEF Progress, Owning
  <2>2. SomeoneIn => SomeoneIn'
    BY <1>2, <1>3, <2>1 DEF Owning
  <2>3. pc'[p] \notin {"new", "look", "open"} => SomeoneIn
    BY <1>1, <1>3 DEF Progress
  <2>. QED
    BY <1>3, <2>2, <2>3 DEF Progress
<1>4. CASE Start(p)
  <2>1. pc' = [pc EXCEPT ![p] = "look"] /\ result' = result /\ pc[p] = "new"
    BY <1>4 DEF Start, Goto
  <2>. QED
    BY <1>0, <1>3, <2>1 DEF TypeOK, Progress, Owning
<1>5. CASE Look(p)
  BY <1>0, <1>3, <1>5 DEF Look, Goto, TypeOK, Progress, Owning
<1>6. CASE ReadFails(p) \/ RefuseActive(p)
  BY <1>0, <1>3, <1>6 DEF ReadFails, Reading, RefuseActive, End, Goto, TypeOK, Owning
<1>7. CASE Read(p) \/ FoundStale(p)
  BY <1>0, <1>3, <1>7 DEF Read, Reading, FoundStale, Goto, TypeOK, Progress, Owning
<1>8. CASE Reenter(p)
  BY <1>0, <1>8 DEF Reenter, IsSelf, CleanSetting, Readers
<1>9. CASE FileExists(p)
  BY <1>0, <1>3, <1>9 DEF FileExists, End, Goto, TypeOK, Progress, Owning
<1>10. CASE MayUnlink(p) \/ MayNotUnlink(p)
  <2>1. pc[p] \in {"check_stale", "check_mine", "release"} /\ result' = result
    BY <1>10 DEF MayUnlink, MayNotUnlink, Unlinker
  <2>2. CASE pc[p] = "release"
    <3>1. pc' = [pc EXCEPT ![p] = "unlink"] \/ pc' = [pc EXCEPT ![p] = "ended"]
      BY <1>10, <2>2 DEF MayUnlink, MayNotUnlink, Unlinker, Onwards, Goto
    <3>2. result[p] = "ok"
      BY <2>2 DEF Progress
    <3>3. SomeoneIn'
      BY <2>1, <3>2 DEF SomeoneIn
    <3>. QED
      BY <1>0, <2>1, <3>1, <3>2, <3>3 DEF TypeOK, Progress
  <2>3. CASE pc[p] # "release"
    <3>1. pc'[p] \notin {"release", "unlink", "new", "look"}
      BY <1>0, <1>10, <2>1, <2>3 DEF TypeOK, MayUnlink, MayNotUnlink, Unlinker, Onwards, Goto
    <3>2. \A q \in Procs : q # p => pc'[q] = pc[q]
      BY <1>0, <1>10 DEF TypeOK, MayUnlink, MayNotUnlink, Goto
    <3>3. result[p] # "ok"
      BY <2>1, <2>3 DEF Progress
    <3>. QED
      BY <1>3, <2>1, <2>3, <3>1, <3>2, <3>3 DEF Owning
  <2>. QED
    BY <2>2, <2>3
<1>11. CASE Unlink(p)
  <2>1. pc[p] = "unlink" /\ pc' = [pc EXCEPT ![p] = "ended"] /\ result' = result
    <3>1. pc[p] \in {"unlink_stale", "unlink_mine", "unlink"}
      BY <1>11 DEF Unlink, Range, Unlinker
    <3>2. pc[p] = "unlink" /\ Onwards["unlink"] = "ended"
      BY <1>0, <3>1 DEF Readers, Onwards
    <3>. QED
      BY <1>11, <3>2 DEF Unlink, Goto
  <2>2. result[p] = "ok"
    BY <2>1 DEF Progress
  <2>3. SomeoneIn'
    BY <2>1, <2>2 DEF SomeoneIn
  <2>. QED
    BY <1>0, <2>1, <2>2, <2>3 DEF TypeOK, Progress
<1>12. CASE Create(p)
  <2>1. /\ pc[p] \in {"open", "open_again"} /\ pc' = [pc EXCEPT ![p] = "write"]
        /\ result' = result
    BY <1>12 DEF Create, Goto
  <2>2. SomeoneIn'
    BY <1>0, <2>1 DEF SomeoneIn, TypeOK
  <2>. QED
    BY <1>0, <2>1, <2>2 DEF TypeOK, Progress
<1>13. CASE Write(p)
  <2>1. pc[p] = "write" /\ pc' = [pc EXCEPT ![p] = "body"] /\ result' = result
    BY <1>13 DEF Write, Goto
  <2>2. SomeoneIn'
    BY <1>0, <2>1 DEF SomeoneIn, TypeOK
  <2>. QED
    BY <1>0, <2>1, <2>2 DEF TypeOK, Progress
<1>14. CASE NotQuiescent(p)
  <2>1. pc[p] = "body" /\ lock # Nil /\ lock.by = p /\ lock.written
    BY <1>0, <1>14 DEF NotQuiescent, FileOfOwner, Owning
  <2>. QED
    BY <1>14, <2>1 DEF NotQuiescent, IsSelf
<1>15. CASE Leave(p)
  <2>1. /\ pc[p] = "body" /\ pc' = [pc EXCEPT ![p] = "release"]
        /\ result' = [result EXCEPT ![p] = "ok"]
    BY <1>0, <1>15 DEF Leave, Goto, Readers
  <2>2. SomeoneIn'
    BY <1>0, <2>1 DEF SomeoneIn, TypeOK
  <2>. QED
    BY <1>0, <2>1, <2>2 DEF TypeOK, Progress
<1>16. CASE Crash(p)
  BY <1>0, <1>16 DEF Crash, CleanSetting, TypeOK
<1>. QED
  BY <1>4, <1>5, <1>6, <1>7, <1>8, <1>9, <1>10, <1>11, <1>12, <1>13, <1>14, <1>15, <1>16
     DEF Step

\* However many compete on one machine, with pids of their own and nobody killed:
\* when all have ended the lock file is gone and at least one of them got in.
\* They never all refuse each other.
THEOREM SomeoneAlwaysGetsIn ==
  ASSUME CleanSetting, Procs # {} PROVE Spec => []SomeoneGetsIn
<1>1. Init => LockInv /\ Progress
  BY LockInvInit DEF Init, Progress
<1>2. LockInv /\ Progress /\ [Next]_vars => (LockInv /\ Progress)'
  <2> SUFFICES ASSUME LockInv, Progress, [Next]_vars PROVE (LockInv /\ Progress)'
    OBVIOUS
  <2>1. LockInv'
    BY LockInvNext
  <2>2. CASE Next
    BY <2>1, <2>2, ProgressStep DEF Next
  <2>3. CASE UNCHANGED vars
    BY <2>1, <2>3 DEF vars, Progress, SomeoneIn
  <2>. QED
    BY <2>2, <2>3
<1>3. LockInv /\ Progress => SomeoneGetsIn
  <2> SUFFICES ASSUME LockInv, Progress, AllEnded
               PROVE  lock = Nil /\ \E p \in Procs : result[p] = "ok"
    BY DEF SomeoneGetsIn
  <2>1. lock = Nil
    BY DEF LockInv, TypeOK, FileOfOwner, LockFile, AllEnded, Owning
  <2>2. SomeoneIn
    BY DEF Progress, AllEnded
  <2>. QED
    BY <2>1, <2>2 DEF SomeoneIn, AllEnded
<1>. QED
  BY <1>1, <1>2, <1>3, PTL DEF Spec

-----------------------------------------------------------------------------
(* Who runs alone, after any number of crashes *)

\* No pid was given out on two machines: it is so on one machine, where pids may
\* be given out again and invocations may be killed anywhere.  It is needed: a
\* lock left by a dead invocation on another host counts as active while the pid
\* of whoever looks is the same.
PidsTellTheHost == \A p, q \in Procs : Pid[p] = Pid[q] => Host[p] = Host[q]

\* p runs and has met nobody.
Alone(p) == Alive(p) /\ ~met[p]

\* What it sees of the lock file is what is there.
SeesTheFile(p) ==
  /\ \A q \in Procs : Alive(q) => q = p
  /\ pc[p] \notin Retrying
  /\ pc[p] = "open" => lock = Nil
  /\ pc[p] = "read" => lock # Nil
  /\ pc[p] \in {"probe", "check_stale"} => Filled /\ holder[p] = lock.by
  /\ pc[p] = "write" => lock # Nil /\ lock.by = p
  /\ pc[p] = "body" => Filled /\ lock.by = p
  /\ pc[p] \in {"release", "unlink"} => result[p] = "ok"

\* Only a maker that is about to fill it, or was killed before, leaves an empty file.
EmptyFile == lock # Nil /\ ~lock.written => pc[lock.by] = "write" \/ crashes > 0

LonerInv ==
  TypeOK /\ (\A p \in Procs : Alone(p) => SeesTheFile(p)) /\ EmptyFile /\ LonerGetsIn

\* Of an invocation that ended nothing is forgotten.
LonersEnd(p) ==
  pc[p] = "ended" /\ result[p] \notin {"ok", "crashed"} /\ ~met[p] =>
    result[p] = "lock_invalid" /\ crashes > 0

LEMMA LonerStep ==
  ASSUME PidsTellTheHost, LonerInv, NEW p \in Procs, Step(p) \/ Crash(p)
  PROVE  LonerInv'
<1>0. /\ TypeOK /\ TypeOK' /\ Alive(p) /\ met' = met /\ crashes \in Nat /\ crashes' \in Nat
      /\ crashes <= crashes'
      /\ \A q \in Procs : q # p => pc'[q] = pc[q] /\ result'[q] = result[q]
  <2>1. TypeOK /\ TypeOK' /\ crashes \in Nat /\ crashes' \in Nat
    BY StepTypeOK, CrashAssumption DEF LonerInv, TypeOK
  <2>2. CASE \/ Look(p) \/ ReadFails(p) \/ Read(p) \/ Reenter(p) \/ RefuseActive(p)
             \/ FoundStale(p)
    BY <2>1, <2>2 DEF TypeOK, Look, ReadFails, Read, Reading, Reenter, RefuseActive, FoundStale,
                      Alive, Stopped, Goto, End
  <2>3. CASE MayUnlink(p) \/ MayNotUnlink(p) \/ Unlink(p)
    <3>1. pc[p] \notin Stopped
      BY <2>3 DEF MayUnlink, MayNotUnlink, Unlink, Unlinker, Range, Stopped
    <3>. QED
      BY <2>1, <2>3, <3>1 DEF TypeOK, MayUnlink, MayNotUnlink, Unlink, Goto, Alive
  <2>4. CASE Create(p) \/ FileExists(p) \/ Write(p) \/ NotQuiescent(p) \/ Leave(p) \/ Crash(p)
    BY <2>1, <2>4 DEF TypeOK, Create, FileExists, Write, NotQuiescent, Leave, Crash,
                      Alive, Stopped, Goto, End
  <2>. QED
    BY <2>1, <2>2, <2>3, <2>4 DEF Step
<1>1. lock # Nil => lock \in LockFile /\ lock.by \in Procs /\ lock.written \in BOOLEAN
  BY <1>0 DEF TypeOK, LockFile
\* Nobody else is alone while p runs, and who has ended has ended.
<1>2. ASSUME EmptyFile', Alone(p) => (Alive(p)' => SeesTheFile(p)'),
             Alone(p) => LonersEnd(p)'
      PROVE  LonerInv'
  <2>1. ASSUME NEW q \in Procs, Alone(q)' PROVE SeesTheFile(q)'
    <3>1. q = p
      BY <1>0, <2>1 DEF Alone, Alive, LonerInv, SeesTheFile
    <3>. QED
      BY <1>0, <1>2, <2>1, <3>1 DEF Alone
  <2>2. ASSUME NEW q \in Procs PROVE LonersEnd(q)'
    <3>1. CASE q = p
      BY <1>0, <1>2, <3>1 DEF Alone, LonersEnd
    <3>2. CASE q # p
      <4>1. LonersEnd(q)
        BY DEF LonerInv, LonerGetsIn, LonersEnd
      <4>. QED
        BY <1>0, <3>2, <4>1 DEF LonersEnd
    <3>. QED
      BY <3>1, <3>2
  <2>3. LonerGetsIn'
    BY <2>2 DEF LonerGetsIn, LonersEnd
  <2>. QED
    BY <1>0, <1>2, <2>1, <2>3 DEF LonerInv
<1>3. ASSUME Alone(p), \A q \in Procs : q # p => pc'[q] = pc[q] PROVE \A q \in Procs : Alive(q)' => q = p
  BY <1>3 DEF LonerInv, SeesTheFile, Alive
<1>4. ASSUME lock' = lock, pc[p] = "write" => crashes' > 0 PROVE EmptyFile'
  BY <1>0, <1>1, <1>4 DEF LonerInv, EmptyFile
<1>5. Alone(p) => SeesTheFile(p)
  BY DEF LonerInv
<1>6. CASE Look(p)
  <2>1. Alone(p) => (pc' = [pc EXCEPT ![p] = IF lock = Nil THEN "open" ELSE "read"])
    BY <1>5, <1>6 DEF Look, Goto, SeesTheFile, Retrying
  <2>2. pc[p] # "write" /\ lock' = lock
    BY <1>6 DEF Look
  <2>. QED
    BY <1>0, <1>2, <1>3, <1>4, <2>1, <2>2 DEF SeesTheFile, LonersEnd, Retrying, TypeOK
<1>7. CASE ReadFails(p)
  <2>1. /\ pc[p] \in {"read", "read_again"} /\ ~Filled /\ lock' = lock
        /\ pc' = [pc EXCEPT ![p] = "ended"] /\ result' = [result EXCEPT ![p] = "lock_invalid"]
        /\ crashes' = crashes
    BY <1>7 DEF ReadFails, Reading, End, Goto
  <2>2. Alone(p) => crashes > 0
    <3> SUFFICES ASSUME Alone(p) PROVE crashes > 0
      OBVIOUS
    <3>1. lock # Nil /\ ~lock.written
      BY <1>1, <1>5, <2>1 DEF SeesTheFile, Filled, Retrying
    <3>2. pc[lock.by] # "write"
      BY <1>1, <1>5, <2>1, <3>1 DEF SeesTheFile, Alive, Stopped
    <3>. QED
      BY <3>1, <3>2 DEF LonerInv, EmptyFile
  <2>3. EmptyFile'
    BY <1>4, <2>1
  <2>4. ~Alive(p)'
    BY <1>0, <2>1 DEF TypeOK, Alive, Stopped
  <2>5. Alone(p) => LonersEnd(p)'
    BY <1>0, <2>1, <2>2 DEF TypeOK, LonersEnd
  <2>. QED
    BY <1>2, <2>3, <2>4, <2>5
<1>8. CASE Read(p)
  <2>1. /\ pc[p] \in {"read", "read_again"} /\ Filled /\ lock' = lock
        /\ holder' = [holder EXCEPT ![p] = lock.by]
        /\ Alone(p) => pc' = [pc EXCEPT ![p] = "probe"]
    BY <1>5, <1>8 DEF Read, Reading, Goto, SeesTheFile, Retrying
  <2>. QED
    BY <1>0, <1>2, <1>3, <1>4, <2>1 DEF SeesTheFile, LonersEnd, Retrying, TypeOK, Filled
<1>9. CASE Reenter(p)
  <2>1. pc[p] = "probe" /\ lock' = lock /\ pc' = [pc EXCEPT ![p] = "reentered"]
    BY <1>9 DEF Reenter, Goto
  <2>. QED
    BY <1>0, <1>2, <1>3, <1>4, <2>1 DEF SeesTheFile, LonersEnd, Retrying, TypeOK
<1>10. CASE RefuseActive(p)
  <2>1. /\ pc[p] \in {"probe", "probe_again"} /\ lock' = lock
        /\ pc' = [pc EXCEPT ![p] = "ended"]
        /\ PidAlive(p, holder[p]) /\ ~IsSelf(p, holder[p])
    BY <1>10 DEF RefuseActive, End, Goto
  <2>2. ~Alone(p)
    <3> SUFFICES ASSUME Alone(p) PROVE FALSE
      OBVIOUS
    <3>1. Filled /\ holder[p] = lock.by
      BY <1>5, <2>1 DEF SeesTheFile, Retrying
    <3>2. holder[p] \in Procs
      BY <1>1, <3>1 DEF Filled
    <3>. QED
      BY <1>5, <2>1, <3>2 DEF SeesTheFile, PidAlive, IsSelf, PidsTellTheHost
  <2>. QED
    BY <1>2, <1>4, <2>1, <2>2
<1>11. CASE FoundStale(p)
  <2>1. /\ pc[p] \in {"probe", "probe_again"} /\ lock' = lock /\ holder' = holder
        /\ Alone(p) => pc[p] = "probe" /\ pc' = [pc EXCEPT ![p] = "check_stale"]
    BY <1>5, <1>11 DEF FoundStale, Goto, SeesTheFile, Retrying
  <2>. QED
    BY <1>0, <1>2, <1>3, <1>4, <1>5, <2>1 DEF SeesTheFile, LonersEnd, Retrying, TypeOK, Filled
<1>12. CASE MayUnlink(p)
  <2>1. /\ pc[p] \in {"check_stale", "check_mine", "release"} /\ lock' = lock
        /\ UNCHANGED <<holder, result>>
    BY <1>12 DEF MayUnlink, Unlinker
  <2>2. Alone(p) => \/ pc[p] = "check_stale" /\ pc' = [pc EXCEPT ![p] = "unlink_stale"]
                    \/ pc[p] = "release" /\ pc' = [pc EXCEPT ![p] = "unlink"]
    <3>1. Unlinker["check_stale"] = "unlink_stale" /\ Unlinker["release"] = "unlink"
      BY DEF Unlinker
    <3>2. pc' = [pc EXCEPT ![p] = Unlinker[pc[p]]]
      BY <1>12 DEF MayUnlink, Goto
    <3>3. Alone(p) => pc[p] \in {"check_stale", "release"}
      BY <1>5, <2>1 DEF SeesTheFile, Retrying
    <3>. QED
      BY <3>1, <3>2, <3>3
  <2>. QED
    BY <1>0, <1>2, <1>3, <1>4, <1>5, <2>1, <2>2 DEF SeesTheFile, LonersEnd, Retrying, TypeOK
<1>13. CASE MayNotUnlink(p)
  <2>1. /\ pc[p] \in {"check_stale", "check_mine", "release"} /\ lock' = lock
        /\ UNCHANGED <<holder, result>> /\ ~Unlinkable(p)
    BY <1>13 DEF MayNotUnlink, Unlinker
  <2>2. Alone(p) => pc[p] # "check_stale"
    BY <1>5, <2>1 DEF Unlinkable, RequiredPid, SeesTheFile
  <2>3. Alone(p) => pc[p] = "release" /\ pc' = [pc EXCEPT ![p] = "ended"] /\ result[p] = "ok"
    <3>1. Onwards["release"] = "ended"
      BY DEF Onwards
    <3>2. pc' = [pc EXCEPT ![p] = Onwards[pc[p]]]
      BY <1>13 DEF MayNotUnlink, Goto
    <3>3. Alone(p) => pc[p] = "release" /\ result[p] = "ok"
      BY <1>5, <2>1, <2>2 DEF SeesTheFile, Retrying
    <3>4. pc[p] = "release" => pc' = [pc EXCEPT ![p] = "ended"]
      BY <3>1, <3>2
    <3>. QED
      BY <3>3, <3>4
  <2>. QED
    BY <1>0, <1>2, <1>4, <2>1, <2>3 DEF LonersEnd, TypeOK, Alive, Stopped
<1>14. CASE Unlink(p)
  <2>1. pc[p] \in {"unlink_stale", "unlink_mine", "unlink"} /\ lock' = Nil /\ result' = result
    BY <1>14 DEF Unlink, Range, Unlinker
  <2>2. EmptyFile'
    BY <2>1 DEF EmptyFile
  <2>3. Alone(p) => \/ pc[p] = "unlink_stale" /\ pc' = [pc EXCEPT ![p] = "open"]
                    \/ /\ pc[p] = "unlink" /\ result[p] = "ok"
                       /\ pc' = [pc EXCEPT ![p] = "ended"]
    <3>1. Onwards["unlink_stale"] = "open" /\ Onwards["unlink"] = "ended"
      BY DEF Onwards
    <3>. QED
      BY <1>5, <1>14, <2>1, <3>1 DEF Unlink, Goto, SeesTheFile, Retrying
  <2>. QED
    BY <1>0, <1>2, <1>3, <2>1, <2>2, <2>3
       DEF SeesTheFile, LonersEnd, Retrying, TypeOK, Alive, Stopped
<1>15. CASE Create(p)
  <2>1. /\ pc' = [pc EXCEPT ![p] = "write"] /\ lock' = [by |-> p, written |-> FALSE]
    BY <1>15 DEF Create, Goto
  <2>2. lock' # Nil /\ lock'.by = p
    <3>1. [by |-> p, written |-> FALSE] \in LockFile
      BY DEF LockFile
    <3>. QED
      BY <2>1, <3>1, NilAssumption
  <2>3. pc'[p] = "write"
    BY <1>0, <2>1 DEF TypeOK
  <2>4. EmptyFile'
    BY <2>2, <2>3 DEF EmptyFile
  <2>. QED
    BY <1>0, <1>2, <1>3, <2>2, <2>3, <2>4 DEF SeesTheFile, LonersEnd, Retrying
<1>16. CASE FileExists(p)
  <2>1. pc[p] \in {"open", "open_again"} /\ lock # Nil /\ lock' = lock
    BY <1>16 DEF FileExists
  <2>2. ~Alone(p)
    BY <1>5, <2>1 DEF SeesTheFile, Retrying
  <2>. QED
    BY <1>2, <1>4, <2>1, <2>2
<1>17. CASE Write(p)
  <2>1. /\ pc[p] = "write" /\ pc' = [pc EXCEPT ![p] = "body"] /\ crashes' = crashes
        /\ lock' = IF lock # Nil /\ lock.by = p THEN [lock EXCEPT !.written = TRUE] ELSE lock
    BY <1>17 DEF Write, Goto
  <2>2. pc'[p] = "body" /\ \A q \in Procs : q # p => pc'[q] = pc[q]
    BY <1>0, <2>1 DEF TypeOK
  <2>3. CASE lock # Nil /\ lock.by = p
    <3>1. lock' = [lock EXCEPT !.written = TRUE]
      BY <2>1, <2>3
    <3>2. lock'.written = TRUE /\ lock'.by = p /\ lock' # Nil
      BY <1>1, <2>3, <3>1, NilAssumption DEF LockFile
    <3>3. EmptyFile'
      BY <3>2 DEF EmptyFile
    <3>. QED
      BY <1>0, <1>2, <1>3, <2>2, <3>2, <3>3 DEF SeesTheFile, LonersEnd, Retrying, Filled
  <2>4. CASE ~(lock # Nil /\ lock.by = p)
    <3>1. lock' = lock /\ ~Alone(p)
      BY <1>5, <2>1, <2>4 DEF SeesTheFile
    <3>2. EmptyFile'
      BY <1>1, <2>1, <2>2, <2>4, <3>1 DEF LonerInv, EmptyFile
    <3>. QED
      BY <1>2, <3>1, <3>2
  <2>. QED
    BY <2>3, <2>4
<1>18. CASE NotQuiescent(p)
  <2>1. pc[p] = "body" /\ lock' = lock
    BY <1>18 DEF NotQuiescent
  <2>2. ~Alone(p)
    BY <1>5, <1>18, <2>1 DEF NotQuiescent, SeesTheFile, Filled, IsSelf
  <2>. QED
    BY <1>2, <1>4, <2>1, <2>2
<1>19. CASE Leave(p)
  <2>1. /\ pc[p] \in {"body", "reentered"} /\ lock' = lock
        /\ result' = [result EXCEPT ![p] = "ok"]
        /\ \/ pc' = [pc EXCEPT ![p] = "release"]
           \/ pc' = [pc EXCEPT ![p] = "ended"]
    BY <1>19 DEF Leave, Goto
  <2>. QED
    BY <1>0, <1>2, <1>3, <1>4, <2>1 DEF SeesTheFile, LonersEnd, Retrying, TypeOK
<1>20. CASE Crash(p)
  <2>1. /\ lock' = lock /\ crashes' = crashes + 1 /\ pc' = [pc EXCEPT ![p] = "ended"]
        /\ result' = [result EXCEPT ![p] = "crashed"]
    BY <1>20 DEF Crash, End, Goto
  <2>2. crashes' > 0
    BY <1>0, <2>1
  <2>. QED
    BY <1>0, <1>2, <1>4, <2>1, <2>2 DEF LonersEnd, TypeOK, Alive, Stopped
<1>. QED
  BY <1>6, <1>7, <1>8, <1>9, <1>10, <1>11, <1>12, <1>13, <1>14, <1>15, <1>16, <1>17, <1>18,
     <1>19, <1>20 DEF Step

LEMMA LonerStart ==
  ASSUME LonerInv, NEW p \in Procs, Start(p)
  PROVE  LonerInv'
<1>0. TypeOK /\ TypeOK'
  BY StepTypeOK DEF LonerInv
<1>1. /\ pc[p] = "new" /\ pc' = [pc EXCEPT ![p] = "look"]
      /\ met' = [q \in Procs |-> IF q = p THEN \E r \in Procs : Alive(r)
                                 ELSE met[q] \/ Alive(q)]
      /\ UNCHANGED <<lock, holder, result, crashes>>
  BY DEF Start, Goto
<1>2. pc'[p] = "look" /\ \A q \in Procs : q # p => pc'[q] = pc[q]
  BY <1>0, <1>1 DEF TypeOK
<1>3. /\ met'[p] = \E r \in Procs : Alive(r)
      /\ \A q \in Procs : q # p => met'[q] = (met[q] \/ Alive(q))
  BY <1>1
<1>4. EmptyFile'
  BY <1>0, <1>1, <1>2 DEF LonerInv, EmptyFile, TypeOK, LockFile
<1>5. ASSUME NEW q \in Procs, Alone(q)' PROVE SeesTheFile(q)'
  <2>1. q = p
    BY <1>2, <1>3, <1>5 DEF Alone, Alive
  <2>2. \A r \in Procs : Alive(r)' => r = p
    BY <1>2, <1>3, <1>5, <2>1 DEF Alone, Alive
  <2>. QED
    BY <1>2, <2>1, <2>2 DEF SeesTheFile, Retrying
<1>6. LonerGetsIn'
  <2> SUFFICES ASSUME NEW q \in Procs, pc'[q] = "ended", ~met'[q],
                      result'[q] \notin {"ok", "crashed"}
               PROVE  result'[q] = "lock_invalid" /\ crashes' > 0
    BY DEF LonerGetsIn
  <2>1. q # p
    BY <1>2
  <2>2. pc[q] = "ended" /\ ~met[q]
    BY <1>2, <1>3, <2>1
  <2>. QED
    BY <1>1, <2>2 DEF LonerInv, LonerGetsIn
<1>. QED
  BY <1>0, <1>4, <1>5, <1>6 DEF LonerInv

\* On one machine, whatever invocations were killed before and whatever pids were
\* given out again: one that runs while no other does gets in, and is refused
\* only by a lock file whose maker was killed before filling it.
THEOREM LonerAlwaysGetsIn ==
  ASSUME PidsTellTheHost PROVE Spec => []LonerGetsIn
<1>1. Init => LonerInv
  BY LockInvInit DEF LockInv, Init, LonerInv, Alone, Alive, Stopped, EmptyFile, LonerGetsIn
<1>2. LonerInv /\ [Next]_vars => LonerInv'
  <2> SUFFICES ASSUME LonerInv, [Next]_vars PROVE LonerInv'
    OBVIOUS
  <2>1. CASE Next
    BY <2>1, LonerStep, LonerStart DEF Next
  <2>2. CASE UNCHANGED vars
    BY <2>2 DEF vars, LonerInv, TypeOK, Alone, Alive, SeesTheFile, Filled, EmptyFile, LonerGetsIn
  <2>. QED
    BY <2>1, <2>2
<1>3. LonerInv => LonerGetsIn
  BY DEF LonerInv
<1>. QED
  BY <1>1, <1>2, <1>3, PTL DEF Spec

-----------------------------------------------------------------------------
(* Every invocation ends *)

\* The steps an invocation has before it at most, the two rounds of looking at the
\* lock file and removing it included.
StepsLeft ==
  [new         |-> 18, look       |-> 17, read         |-> 16, probe       |-> 15,
   check_stale |-> 14, unlink_stale |-> 13, open       |-> 12,
   look_again  |-> 11, read_again |-> 10, probe_again  |-> 9,
   check_mine  |-> 8, unlink_mine |-> 7, open_again    |-> 6,
   write       |-> 5, body        |-> 4, release       |-> 3, unlink |-> 2,
   reentered   |-> 1, ended       |-> 0]

LEMMA StepsLeftValues ==
  /\ StepsLeft["new"] = 18 /\ StepsLeft["look"] = 17 /\ StepsLeft["read"] = 16
  /\ StepsLeft["probe"] = 15 /\ StepsLeft["check_stale"] = 14
  /\ StepsLeft["unlink_stale"] = 13 /\ StepsLeft["open"] = 12
  /\ StepsLeft["look_again"] = 11 /\ StepsLeft["read_again"] = 10
  /\ StepsLeft["probe_again"] = 9 /\ StepsLeft["check_mine"] = 8
  /\ StepsLeft["unlink_mine"] = 7 /\ StepsLeft["open_again"] = 6
  /\ StepsLeft["write"] = 5 /\ StepsLeft["body"] = 4 /\ StepsLeft["release"] = 3
  /\ StepsLeft["unlink"] = 2 /\ StepsLeft["reentered"] = 1 /\ StepsLeft["ended"] = 0
BY DEF StepsLeft

LEMMA UnlinkerValues ==
  /\ Unlinker["check_stale"] = "unlink_stale" /\ Unlinker["check_mine"] = "unlink_mine"
  /\ Unlinker["release"] = "unlink"
  /\ Onwards["check_stale"] = "open" /\ Onwards["check_mine"] = "open_again"
  /\ Onwards["release"] = "ended" /\ Onwards["unlink_stale"] = "open"
  /\ Onwards["unlink_mine"] = "open_again" /\ Onwards["unlink"] = "ended"
BY DEF Unlinker, Onwards

\* Where each step goes.
LEMMA StepGoes ==
  ASSUME TypeOK, NEW p \in Procs, Step(p)
  PROVE  /\ StepsLeft[pc'[p]] < StepsLeft[pc[p]] /\ StepsLeft[pc'[p]] \in Nat
         /\ \A q \in Procs \ {p} : pc'[q] = pc[q]
<1>0. pc \in [Procs -> Labels]
  BY DEF TypeOK
<1>1. CASE Look(p) \/ Read(p) \/ FoundStale(p)
  BY <1>0, <1>1, StepsLeftValues DEF Look, Read, Reading, FoundStale, Goto
<1>2. CASE ReadFails(p) \/ Reenter(p) \/ RefuseActive(p)
  BY <1>0, <1>2, StepsLeftValues DEF ReadFails, Reading, Reenter, RefuseActive, End, Goto
<1>3. CASE MayUnlink(p) \/ MayNotUnlink(p) \/ Unlink(p)
  <2>1. /\ pc[p] \in {"check_stale", "check_mine", "release"}
             /\ pc' = [pc EXCEPT ![p] = Unlinker[pc[p]]]
        \/ /\ pc[p] \in {"check_stale", "check_mine", "release",
                         "unlink_stale", "unlink_mine", "unlink"}
           /\ pc' = [pc EXCEPT ![p] = Onwards[pc[p]]]
    BY <1>3 DEF MayUnlink, MayNotUnlink, Unlink, Unlinker, Range, Goto
  <2>. QED
    BY <1>0, <2>1, UnlinkerValues, StepsLeftValues
<1>4. CASE Create(p) \/ FileExists(p) \/ Write(p)
  BY <1>0, <1>4, StepsLeftValues DEF Create, FileExists, Write, End, Goto
<1>5. CASE NotQuiescent(p) \/ Leave(p)
  BY <1>0, <1>5, StepsLeftValues DEF NotQuiescent, Leave, Goto
<1>. QED
  BY <1>1, <1>2, <1>3, <1>4, <1>5 DEF Step

\* Nobody goes round in circles: on any machines, with any pids and whoever is
\* killed, each step of an invocation leaves it fewer of the eighteen it has at
\* most and nobody gives it more, however often the others make and remove the
\* file: acquire_planledger_write_lock tries twice and gives up.
THEOREM LockMovesOn ==
  Spec => [][\A p \in Procs :
               /\ Start(p) \/ Step(p) => StepsLeft[pc'[p]] < StepsLeft[pc[p]]
               /\ StepsLeft[pc'[p]] <= StepsLeft[pc[p]]]_vars
<1>1. ASSUME TypeOK, [Next]_vars, NEW p \in Procs
      PROVE  /\ Start(p) \/ Step(p) => StepsLeft[pc'[p]] < StepsLeft[pc[p]]
             /\ StepsLeft[pc'[p]] <= StepsLeft[pc[p]]
  <2>0. pc \in [Procs -> Labels]
    BY <1>1 DEF TypeOK
  <2>1. StepsLeft[pc[p]] \in 0 .. 18
    <3>1. pc[p] \in Labels
      BY <2>0
    <3>. QED
      BY <3>1, StepsLeftValues DEF Labels, Stopped, Acquiring, Retrying, Owning
  <2>2. CASE Start(p)
    BY <2>0, <2>2, StepsLeftValues DEF Start, Goto
  <2>3. CASE Step(p)
    BY <1>1, <2>1, <2>3, StepGoes
  <2>4. CASE ~Start(p) /\ ~Step(p)
    <3>1. pc'[p] \in {pc[p], "ended"}
      <4>1. ASSUME NEW q \in Procs, q # p, Start(q) PROVE pc'[p] = pc[p]
        BY <2>0, <4>1 DEF Start, Goto
      <4>2. ASSUME NEW q \in Procs, q # p, Step(q) PROVE pc'[p] = pc[p]
        BY <1>1, <4>2, StepGoes
      <4>3. ASSUME NEW q \in Procs, Crash(q) PROVE pc'[p] \in {pc[p], "ended"}
        BY <2>0, <4>3 DEF Crash, End, Goto
      <4>4. CASE UNCHANGED vars
        BY <4>4 DEF vars
      <4>. QED
        BY <1>1, <2>4, <4>1, <4>2, <4>3, <4>4 DEF Next
    <3>. QED
      BY <2>1, <2>4, <3>1, StepsLeftValues
  <2>. QED
    BY <2>1, <2>2, <2>3, <2>4
<1>2. TypeOK /\ [Next]_vars =>
        [\A p \in Procs :
           /\ Start(p) \/ Step(p) => StepsLeft[pc'[p]] < StepsLeft[pc[p]]
           /\ StepsLeft[pc'[p]] <= StepsLeft[pc[p]]]_vars
  BY <1>1
<1>. QED
  BY <1>2, TypeCorrect, PTL DEF Spec

=============================================================================
