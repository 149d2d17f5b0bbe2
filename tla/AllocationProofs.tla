--------------------------- MODULE AllocationProofs ---------------------------
(***************************************************************************)
(* What holds of the allocation of numbers for any number of invocations,   *)
(* attempts, crashes, imported records and tombstones.                      *)
(***************************************************************************)
EXTENDS Allocation, FiniteSetTheorems, TLAPS

\* A step of p that changes nothing on the disk and reserves nothing.
Quiet(p) ==
  /\ UNCHANGED disk
  /\ \A q \in Procs \ {p} : pc'[q] = pc[q] /\ own'[q] = own[q]
  /\ pc'[p] # "reserved"

LEMMA FreshType == Fresh \in Locals
  BY AttemptsAssumption DEF Fresh, Locals, Kinds, Ids

LEMMA EndType ==
  ASSUME TypeOK, NEW p \in Procs, End(p)
  PROVE  own' \in [Procs -> Locals] /\ pc' \in [Procs -> Labels]
<1>1. own' = [own EXCEPT ![p] = Fresh] /\ own \in [Procs -> Locals]
  BY DEF End, TypeOK
<1>2. own' \in [Procs -> Locals]
  BY <1>1, FreshType
<1>3. pc' \in [Procs -> Labels]
  BY DEF End, Goto, TypeOK, Labels
<1>4. QED BY <1>2, <1>3

\* The types of what the actions read of the variables of an invocation.
LEMMA OwnTypes ==
  ASSUME TypeOK, NEW p \in Procs
  PROVE  /\ own[p] \in Locals
         /\ Kind(p) \in Kinds /\ Num(p) \in Nat /\ Listed(p) \subseteq Ids
         /\ own[p].lost \in 0 .. MaxAttempts - 1
         /\ own[p].read \in [Kinds -> Nat]
         /\ \A m \in Found(p) : m \in Nat
         /\ MaxAttempts \in Nat /\ MaxAttempts > 0 /\ MaxCrashes \in Nat
<1>1. own[p] \in Locals
  BY DEF TypeOK
<1>2. /\ Kind(p) \in Kinds /\ Num(p) \in Nat /\ Listed(p) \subseteq Ids
      /\ own[p].lost \in 0 .. MaxAttempts - 1
      /\ own[p].read \in [Kinds -> Nat]
  BY <1>1 DEF Locals, Kind, Num, Listed
<1>3. \A m \in Found(p) : m \in Nat
  BY <1>2, NumbersAssumption DEF Found, Ids
<1>4. QED BY <1>1, <1>2, <1>3, AttemptsAssumption DEF Ids

\* Every step keeps the types; a mkdir makes no directory numbered 0 because
\* of NumberInv.
LEMMA StepType ==
  ASSUME TypeOK, \A p \in Procs : Local(p), [Next]_vars
  PROVE  TypeOK'
<1> USE DEF Goto, Labels, disk
<1>1. own \in [Procs -> Locals]
  BY DEF TypeOK
<1>2. ASSUME NEW p \in Procs, End(p), UNCHANGED <<disk, crashes>> PROVE TypeOK'
  BY <1>2, EndType DEF TypeOK
<1>3. ASSUME NEW p \in Procs, Begin(p) PROVE TypeOK'
  <2>1. CASE BeginInfo(p)
    BY <2>1 DEF TypeOK, BeginInfo
  <2>2. ASSUME NEW k \in Kinds, BeginCreate(p, k) PROVE TypeOK'
    <3>1. dirs[k] \in SUBSET Ids
      BY DEF TypeOK
    <3>2. PICK sound \in BOOLEAN :
            own' = [own EXCEPT ![p].kind = k, ![p].sound = sound, ![p].before = dirs[k]]
      BY <2>2 DEF BeginCreate
    <3>3. [own EXCEPT ![p].kind = k, ![p].sound = sound] \in [Procs -> Locals]
      BY <1>1 DEF Locals
    <3>4. ASSUME NEW o \in [Procs -> Locals]
          PROVE  [o EXCEPT ![p].before = dirs[k]] \in [Procs -> Locals]
      BY <3>1 DEF Locals
    <3>5. own' = [[own EXCEPT ![p].kind = k, ![p].sound = sound] EXCEPT ![p].before = dirs[k]]
      BY <3>2
    <3>6. own' \in [Procs -> Locals]
      BY <3>3, <3>4, <3>5
    <3>7. QED BY <2>2, <3>6 DEF TypeOK, BeginCreate
  <2>3. ASSUME NEW k \in Kinds, BeginActivate(p, k) PROVE TypeOK'
    <3>1. PICK n \in 1 .. MaxId[k] : own' = [own EXCEPT ![p].kind = k, ![p].num = n]
      BY <2>3 DEF BeginActivate
    <3>2. n \in Nat
      BY NumbersAssumption
    <3>3. own' \in [Procs -> Locals]
      BY <1>1, <3>1, <3>2 DEF Locals
    <3>4. QED BY <2>3, <3>3 DEF TypeOK, BeginActivate
  <2>4. QED BY <1>3, <2>1, <2>2, <2>3 DEF Begin
<1>4. ASSUME NEW p \in Procs, Reserve(p) PROVE TypeOK'
  <2>1. CASE List(p)
    <3>1. dirs[Kind(p)] \in SUBSET Ids
      BY OwnTypes DEF TypeOK
    <3>2. own' \in [Procs -> Locals]
      BY <1>1, <2>1, <3>1 DEF List, Locals
    <3>3. QED BY <2>1, <3>2 DEF TypeOK, List
  <2>2. CASE Verify(p)
    <3>1. PICK m \in Found(p) : own' = [own EXCEPT ![p].num = m + 1]
      BY <2>2 DEF Verify
    <3>2. m + 1 \in Nat
      BY <3>1, OwnTypes
    <3>3. own' \in [Procs -> Locals]
      BY <1>1, <3>1, <3>2 DEF Locals
    <3>4. QED BY <2>2, <3>3 DEF TypeOK, Verify
  <2>3. CASE VerifyFails(p) \/ GiveUp(p)
    BY <1>2, <2>3 DEF VerifyFails, GiveUp
  <2>4. CASE Mkdir(p)
    <3>1. Num(p) \in Ids
      BY <2>4 DEF Mkdir, Local, NumberInv
    <3>2. QED BY <2>4, <3>1 DEF TypeOK, Mkdir
  <2>5. CASE Retry(p)
    <3>1. own[p].lost + 1 \in 0 .. MaxAttempts - 1
      BY <2>5, OwnTypes DEF Retry
    <3>2. own' \in [Procs -> Locals]
      BY <1>1, <2>5, <3>1 DEF Retry, Locals
    <3>3. QED BY <2>5, <3>2 DEF TypeOK, Retry
  <2>6. QED BY <1>4, <2>1, <2>2, <2>3, <2>4, <2>5 DEF Reserve
<1>5. ASSUME NEW p \in Procs, Finish(p) PROVE TypeOK'
  <2>1. CASE RefuseGate(p) \/ LookupFails(p) \/ Info(p) \/ InfoFails(p)
    BY <1>2, <2>1 DEF RefuseGate, LookupFails, Info, InfoFails
  <2>2. CASE WriteRecord(p)
    <3>1. Num(p) \in Ids
      <4>1. dirs[Kind(p)] \subseteq Ids
        BY OwnTypes DEF TypeOK
      <4>2. QED BY <2>2, <4>1 DEF WriteRecord, Local
    <3>2. QED BY <2>2, <3>1 DEF TypeOK, WriteRecord
  <2>3. CASE Lookup(p)
    BY <2>3 DEF TypeOK, Lookup
  <2>4. CASE LoadStorage(p)
    <3>1. active \in [Kinds -> Nat]
      BY DEF TypeOK
    <3>2. own' \in [Procs -> Locals]
      BY <1>1, <2>4, <3>1 DEF LoadStorage, Locals
    <3>3. QED BY <2>4, <3>2 DEF TypeOK, LoadStorage
  <2>5. CASE SaveStorage(p)
    BY <2>5, EndType, OwnTypes DEF TypeOK, SaveStorage
  <2>6. QED BY <1>5, <2>1, <2>2, <2>3, <2>4, <2>5 DEF Finish
<1>6. ASSUME NEW p \in Procs, Crash(p) PROVE TypeOK'
  <2>1. crashes' \in 0 .. MaxCrashes
    BY <1>6, OwnTypes DEF Crash, TypeOK
  <2>2. QED BY <1>6, <2>1, EndType DEF TypeOK, Crash
<1>7. CASE UNCHANGED vars
  BY <1>7 DEF TypeOK, vars
<1>8. QED BY <1>3, <1>4, <1>5, <1>6, <1>7 DEF Next

-------------------------------------------------------------------------------
(* The invariant.                                                           *)

\* A step that neither changes the disk nor reserves anything has only the
\* variables of its invocation to answer for.
LEMMA QuietStep ==
  ASSUME AllocationInv, NEW p \in Procs, Quiet(p), Local(p)'
  PROVE  AllocationInv'
<1>1. \A q \in Procs \ {p} : Local(q)'
  BY DEF Quiet, AllocationInv, Local, ScanInv, NumberInv, Loadable, IsNext, Found,
         Kind, Num, Listed, disk
<1>2. OneReservation'
  BY DEF Quiet, AllocationInv, OneReservation, Kind
<1>3. QED BY <1>1, <1>2 DEF Quiet, AllocationInv, ActiveExists, OneOrphan, disk

\* A directory is made only when every number in use or retired is lower, and
\* every directory of the kind complete.
LEMMA MkdirAbove ==
  ASSUME TypeOK, AllocationInv, NEW p \in Procs, Mkdir(p)
  PROVE  /\ Num(p) \in Ids
         /\ Num(p) - 1 \in dirs[Kind(p)] \cup Tombstones[Kind(p)] \cup {0}
         /\ \A m \in dirs[Kind(p)] \cup Tombstones[Kind(p)] \cup {0} : m < Num(p)
         /\ dirs[Kind(p)] \subseteq records[Kind(p)]
<1>1. NumberInv(p) /\ Num(p) \notin dirs[Kind(p)]
  BY DEF AllocationInv, Local, Mkdir
<1>2. dirs[Kind(p)] \subseteq Ids
  BY OwnTypes DEF TypeOK
<1>3. \A m \in dirs[Kind(p)] : m < Num(p)
  BY <1>1, <1>2 DEF NumberInv, Ids
<1>4. QED BY <1>1, <1>3 DEF NumberInv, Ids

\* What the other invocations know stays true when p makes a directory.
LEMMA MkdirLocal ==
  ASSUME TypeOK, AllocationInv, NEW p \in Procs, Mkdir(p), NEW q \in Procs, q # p
  PROVE  Local(q)'
<1> DEFINE K == Kind(q)
           x == Num(p)
<1>1. /\ pc'[q] = pc[q] /\ own' = own /\ records' = records
      /\ dirs'[K] = IF Kind(p) = K THEN dirs[K] \cup {x} ELSE dirs[K]
  BY OwnTypes DEF Mkdir, Goto, TypeOK
<1>2. /\ dirs[K] \subseteq Ids /\ Tombstones[K] \subseteq Ids /\ Listed(q) \subseteq Ids
      /\ Num(q) \in Nat /\ x \in Nat
  BY OwnTypes, NumbersAssumption DEF TypeOK
<1>3. CASE Kind(p) # K
  BY <1>1, <1>3 DEF AllocationInv, Local, ScanInv, NumberInv, Loadable, IsNext, Found,
                    Kind, Num, Listed
<1>4. CASE Kind(p) = K
  <2>1. /\ x - 1 \in dirs[K] \cup Tombstones[K] \cup {0}
        /\ \A m \in dirs[K] \cup Tombstones[K] \cup {0} : m < x
        /\ dirs'[K] = dirs[K] \cup {x}
    BY <1>1, <1>4, MkdirAbove
  <2>2. Found(q)' = Found(q) /\ Listed(q)' = Listed(q) /\ Num(q)' = Num(q) /\ Kind(q)' = K
    BY <1>1 DEF Found, Listed, Num, Kind
  <2>3. ASSUME ScanInv(q) PROVE ScanInv(q)'
    <3>1. Listed(q) \subseteq dirs[K]
      BY <2>3 DEF ScanInv
    <3>2. \A m \in dirs'[K] \ Listed(q) : \A n \in Found(q) : n < m
      BY <2>1, <2>3, <3>1 DEF ScanInv, Found
    <3>3. ASSUME NEW m \in Found(q), IsNext(q, m + 1) PROVE m + 1 \in dirs'[K]
      <4>1. CASE dirs[K] # Listed(q)
        BY <2>1, <2>3, <3>3, <4>1 DEF ScanInv
      <4>2. CASE dirs[K] = Listed(q)
        <5>1. m \in Nat /\ Found(q) = dirs[K] \cup Tombstones[K] \cup {0}
          BY <3>3, <4>2, OwnTypes DEF Found
        <5>2. x - 1 < m + 1 /\ m < x
          BY <2>1, <3>3, <5>1 DEF IsNext
        <5>3. x = m + 1
          BY <1>2, <5>1, <5>2
        <5>4. QED BY <2>1, <5>3
      <4>3. QED BY <4>1, <4>2
    <3>4. \A m \in Found(q)' : IsNext(q, m + 1)' <=> IsNext(q, m + 1)
      BY <2>2 DEF IsNext
    <3>5. QED BY <2>1, <2>2, <3>1, <3>2, <3>3, <3>4 DEF ScanInv
  <2>4. ASSUME NumberInv(q) PROVE NumberInv(q)'
    <3>1. Num(q) - 1 \in dirs[K] \cup Tombstones[K] \cup {0} /\ Num(q) \in Ids
      BY <2>4 DEF NumberInv
    <3>2. x >= Num(q)
      BY <1>2, <2>1, <3>1 DEF Ids
    <3>3. \A m \in dirs'[K] : m < Num(q) => m \in records[K]
      BY <1>2, <2>1, <2>4, <3>2 DEF NumberInv
    <3>4. Num(q) \in dirs'[K]
      <4>1. CASE \E m \in dirs[K] : m >= Num(q)
        BY <2>1, <2>4, <4>1 DEF NumberInv
      <4>2. CASE \A m \in dirs[K] : m < Num(q)
        <5>1. x - 1 < Num(q)
          BY <1>2, <2>1, <2>4, <4>2 DEF NumberInv, Ids
        <5>2. x = Num(q)
          BY <1>2, <3>2, <5>1
        <5>3. QED BY <2>1, <5>2
      <4>3. QED BY <1>2, <4>1, <4>2 DEF Ids
    <3>5. QED BY <1>1, <2>1, <2>2, <2>4, <3>1, <3>3, <3>4 DEF NumberInv
  <2>5. QED
    BY <1>1, <2>1, <2>2, <2>3, <2>4 DEF AllocationInv, Local, Loadable
<1>5. QED BY <1>3, <1>4

LEMMA InvInit ==
  ASSUME Init
  PROVE  TypeOK /\ AllocationInv
<1>1. TypeOK
  BY FreshType, NumbersAssumption, AttemptsAssumption DEF Init, TypeOK, Labels, Ids
<1>2. AllocationInv
  BY DEF Init, AllocationInv, ActiveExists, OneOrphan, OneReservation, Local
<1>3. QED BY <1>1, <1>2

LEMMA EndQuiet ==
  ASSUME NEW p \in Procs, TypeOK, End(p), UNCHANGED disk
  PROVE  Quiet(p) /\ Local(p)'
  BY DEF End, Goto, Quiet, TypeOK, Local

LEMMA InvNext ==
  ASSUME TypeOK, AllocationInv, [Next]_vars
  PROVE  AllocationInv'
<1>1. ASSUME NEW p \in Procs, End(p), UNCHANGED disk PROVE AllocationInv'
  BY <1>1, EndQuiet, QuietStep
<1>2. ASSUME NEW p \in Procs, Begin(p) PROVE AllocationInv'
  <2>1. Quiet(p) /\ Local(p)'
    <3>1. CASE BeginInfo(p)
      BY <3>1 DEF BeginInfo, Goto, Quiet, TypeOK, Local
    <3>2. ASSUME NEW k \in Kinds, BeginCreate(p, k) PROVE Quiet(p) /\ Local(p)'
      BY <3>2 DEF BeginCreate, Goto, Quiet, TypeOK, Local
    <3>3. ASSUME NEW k \in Kinds, BeginActivate(p, k) PROVE Quiet(p) /\ Local(p)'
      BY <3>3 DEF BeginActivate, Goto, Quiet, TypeOK, Local
    <3>4. QED BY <1>2, <3>1, <3>2, <3>3 DEF Begin
  <2>2. QED BY <2>1, QuietStep
<1>3. ASSUME NEW p \in Procs, List(p) PROVE AllocationInv'
  <2>1. /\ Kind(p)' = Kind(p) /\ Listed(p)' = dirs[Kind(p)]
        /\ pc'[p] = "verify" /\ UNCHANGED disk
    BY <1>3, OwnTypes DEF List, Goto, Kind, Listed, TypeOK, Locals
  <2>2. Local(p)'
    BY <2>1 DEF Local, ScanInv, disk
  <2>3. Quiet(p)
    BY <1>3 DEF List, Goto, Quiet, TypeOK
  <2>4. QED BY <2>2, <2>3, QuietStep
<1>4. ASSUME NEW p \in Procs, Verify(p) PROVE AllocationInv'
  <2>1. PICK h \in Found(p) : IsNext(p, h + 1) /\ own' = [own EXCEPT ![p].num = h + 1]
    BY <1>4 DEF Verify
  <2>2. /\ Kind(p)' = Kind(p) /\ Num(p)' = h + 1
        /\ pc'[p] = "mkdir" /\ UNCHANGED disk
    BY <1>4, <2>1, OwnTypes DEF Verify, Goto, Kind, Num, TypeOK, Locals
  <2>3. ScanInv(p) /\ Listed(p) \subseteq records[Kind(p)]
    BY <1>4 DEF Verify, Verified, AllocationInv, Local
  <2>4. h \in Nat /\ \A m \in Found(p) : m \in Nat /\ m < h + 1
    BY <2>1, OwnTypes DEF IsNext
  <2>5. dirs[Kind(p)] \subseteq Ids
    BY OwnTypes DEF TypeOK
  <2>6. h \in dirs[Kind(p)] \cup Tombstones[Kind(p)] \cup {0}
    BY <2>3 DEF ScanInv, Found
  <2>7. ASSUME NEW m \in dirs[Kind(p)], m < h + 1 PROVE m \in records[Kind(p)]
    <3>1. m \in Listed(p)
      BY <2>3, <2>4, <2>5, <2>7 DEF ScanInv, Ids
    <3>2. QED BY <2>3, <3>1
  <2>8. ASSUME NEW m \in dirs[Kind(p)], m >= h + 1 PROVE h + 1 \in dirs[Kind(p)]
    <3>1. m \notin Listed(p)
      BY <2>4, <2>5, <2>8 DEF Found, Ids
    <3>2. QED BY <2>1, <2>3, <3>1 DEF ScanInv
  <2>9. NumberInv(p)'
    <3>1. h + 1 \in Ids /\ (h + 1) - 1 = h
      BY <2>4 DEF Ids
    <3>2. \A m \in Tombstones[Kind(p)] : m < h + 1
      BY <2>4 DEF Found
    <3>3. QED BY <2>2, <2>6, <2>7, <2>8, <3>1, <3>2 DEF NumberInv, disk
  <2>10. Local(p)'
    BY <2>2, <2>9 DEF Local
  <2>11. Quiet(p)
    BY <1>4 DEF Verify, Goto, Quiet, TypeOK
  <2>12. QED BY <2>10, <2>11, QuietStep
<1>5. ASSUME NEW p \in Procs, Mkdir(p) PROVE AllocationInv'
  <2>1. /\ Num(p)' = Num(p) /\ Kind(p)' = Kind(p) /\ UNCHANGED <<records, active, own>>
        /\ dirs' = [dirs EXCEPT ![Kind(p)] = @ \cup {Num(p)}]
        /\ pc' = [pc EXCEPT ![p] = "reserved"]
        /\ Num(p) \notin dirs[Kind(p)]
    BY <1>5 DEF Mkdir, Goto, Num, Kind
  <2>2. \A k \in Kinds : records[k] \subseteq dirs[k]
    BY DEF AllocationInv
  <2>3. dirs[Kind(p)] \subseteq records[Kind(p)] /\ Kind(p) \in Kinds
    BY <1>5, MkdirAbove, OwnTypes
  <2>4. \A k \in Kinds : records'[k] \subseteq dirs'[k]
    BY <2>1, <2>2 DEF TypeOK
  <2>5. OneOrphan'
    BY <2>1, <2>3 DEF AllocationInv, OneOrphan, TypeOK
  <2>6. OneReservation'
    BY <2>1, <2>3 DEF AllocationInv, OneReservation, Local, TypeOK, Kind
  <2>7. Local(p)'
    BY <2>1, <2>2, <2>3 DEF Local, TypeOK
  <2>8. QED BY <1>5, <2>1, <2>4, <2>5, <2>6, <2>7, MkdirLocal DEF AllocationInv, ActiveExists
<1>6. ASSUME NEW p \in Procs, Retry(p) PROVE AllocationInv'
  <2>1. Quiet(p) /\ Local(p)'
    BY <1>6 DEF Retry, Goto, Quiet, TypeOK, Local
  <2>2. QED BY <2>1, QuietStep
<1>7. ASSUME NEW p \in Procs, WriteRecord(p) PROVE AllocationInv'
  <2>1. /\ UNCHANGED <<dirs, active, own>>
        /\ records' = [records EXCEPT ![Kind(p)] = @ \cup {Num(p)}]
        /\ pc' = [pc EXCEPT ![p] = "load"]
        /\ pc[p] = "reserved"
    BY <1>7 DEF WriteRecord, Goto
  <2>2. \A k \in Kinds : records[k] \subseteq records'[k]
    BY <2>1 DEF TypeOK
  <2>3. Num(p) \in dirs[Kind(p)] /\ Kind(p) \in Kinds
    BY <2>1, OwnTypes DEF AllocationInv, Local
  <2>4. \A k \in Kinds : records'[k] \subseteq dirs'[k]
    BY <2>1, <2>3 DEF TypeOK, AllocationInv
  <2>5. ActiveExists' /\ OneOrphan'
    BY <2>1, <2>2 DEF AllocationInv, ActiveExists, OneOrphan
  <2>6. OneReservation'
    BY <2>1 DEF AllocationInv, OneReservation, TypeOK, Kind
  <2>7. Local(p)'
    BY <2>1, <2>3 DEF Local, Loadable, Kind, Num, TypeOK
  <2>8. ASSUME NEW q \in Procs, q # p PROVE Local(q)'
    <3>1. pc'[q] = pc[q] /\ Kind(q) \in Kinds
      BY <2>1, <2>8, OwnTypes DEF TypeOK
    <3>2. Local(q) /\ (pc[q] = "reserved" => Kind(q) # Kind(p))
      BY <2>1, <2>8 DEF AllocationInv, OneReservation
    <3>3. pc[q] = "mkdir" => NumberInv(q)'
      BY <2>1, <2>2, <3>1, <3>2 DEF Local, NumberInv, Num, Kind
    <3>4. pc[q] = "verify" => ScanInv(q)'
      BY <2>1, <3>1, <3>2 DEF Local, ScanInv, Found, Listed, IsNext, Kind
    <3>5. pc[q] = "reserved" => (Num(q) \in dirs[Kind(q)] \ records[Kind(q)])'
      BY <2>1, <3>1, <3>2 DEF Local, Num, Kind, TypeOK
    <3>6. /\ pc[q] \in {"load", "save"} => Loadable(q)'
          /\ pc[q] = "save" => (\A k \in Kinds : own[q].read[k] \in records[k] \cup {0})'
      BY <2>1, <2>2, <3>1, <3>2 DEF Local, Loadable, Num, Kind
    <3>7. QED BY <3>1, <3>3, <3>4, <3>5, <3>6 DEF Local
  <2>9. QED BY <2>4, <2>5, <2>6, <2>7, <2>8 DEF AllocationInv
<1>8. ASSUME NEW p \in Procs, Lookup(p) PROVE AllocationInv'
  <2>1. Quiet(p) /\ Local(p)'
    BY <1>8 DEF Lookup, Goto, Quiet, TypeOK, Local, Loadable, Num, Kind, disk
  <2>2. QED BY <2>1, QuietStep
<1>9. ASSUME NEW p \in Procs, LoadStorage(p) PROVE AllocationInv'
  <2>1. /\ Kind(p)' = Kind(p) /\ Num(p)' = Num(p) /\ own'[p].read = active
        /\ pc[p] = "load" /\ pc'[p] = "save" /\ UNCHANGED disk
    BY <1>9, OwnTypes DEF LoadStorage, Goto, Kind, Num, TypeOK, Locals
  <2>2. Loadable(p) /\ ActiveExists
    BY <2>1 DEF AllocationInv, Local
  <2>3. Local(p)'
    BY <2>1, <2>2 DEF Local, Loadable, ActiveExists, disk
  <2>4. Quiet(p)
    BY <1>9, <2>1 DEF LoadStorage, Goto, Quiet, TypeOK
  <2>5. QED BY <2>3, <2>4, QuietStep
<1>10. ASSUME NEW p \in Procs, SaveStorage(p) PROVE AllocationInv'
  <2>1. /\ Loadable(p) /\ \A k \in Kinds : own[p].read[k] \in records[k] \cup {0}
        /\ own[p].read \in [Kinds -> Nat]
    BY <1>10, OwnTypes DEF SaveStorage, AllocationInv, Local
  <2>2. active' = [own[p].read EXCEPT ![Kind(p)] = Num(p)] /\ UNCHANGED <<dirs, records>>
    BY <1>10 DEF SaveStorage
  <2>3. ActiveExists'
    BY <2>1, <2>2 DEF ActiveExists, Loadable
  <2>4. /\ pc' = [pc EXCEPT ![p] = "idle"]
        /\ \A q \in Procs \ {p} : own'[q] = own[q]
    BY <1>10 DEF SaveStorage, End, Goto, TypeOK
  <2>5. OneReservation'
    BY <2>4 DEF AllocationInv, OneReservation, TypeOK, Kind
  <2>6. Local(p)'
    BY <2>4 DEF Local, TypeOK
  <2>7. \A q \in Procs \ {p} : Local(q)'
    BY <2>2, <2>4 DEF AllocationInv, Local, ScanInv, NumberInv, Loadable, IsNext, Found,
                      Kind, Num, Listed, TypeOK
  <2>8. QED BY <2>2, <2>3, <2>5, <2>6, <2>7 DEF AllocationInv, OneOrphan
<1>11. CASE UNCHANGED vars
  BY <1>11 DEF vars, AllocationInv, ActiveExists, OneOrphan, OneReservation, Local,
               ScanInv, NumberInv, Loadable, IsNext, Found, Kind, Num, Listed
<1>12. QED
  BY <1>1, <1>2, <1>3, <1>4, <1>5, <1>6, <1>7, <1>8, <1>9, <1>10, <1>11
  DEF Next, Reserve, Finish, VerifyFails, GiveUp, RefuseGate, LookupFails, Info, InfoFails, Crash

-------------------------------------------------------------------------------
(* The theorems.                                                            *)

LEMMA InvAlways == Spec => [](TypeOK /\ AllocationInv)
<1>1. ASSUME TypeOK, AllocationInv, [Next]_vars PROVE TypeOK' /\ AllocationInv'
  BY <1>1, StepType, InvNext DEF AllocationInv
<1>2. QED BY <1>1, InvInit, PTL DEF Spec

\* The variables have their types, the numbers of directories are positive.
THEOREM TypeCorrect == Spec => []TypeOK
  BY InvAlways, PTL

\* However many invocations create records at once, no two of them ever fill
\* a directory of the same kind.
THEOREM ReservationExclusive == Spec => []OneReservation
<1>1. AllocationInv => OneReservation
  BY DEF AllocationInv
<1>2. QED BY <1>1, InvAlways, PTL

\* However many creations are refused or killed, there is one directory to
\* repair for each kind at the most.
THEOREM OrphanUnique == Spec => []OneOrphan
<1>1. AllocationInv => OneOrphan
  BY DEF AllocationInv
<1>2. QED BY <1>1, InvAlways, PTL

\* The active pointers name records that can be loaded, whatever storage.yaml
\* a slow invocation writes back.
THEOREM PointersLoadable == Spec => []ActiveExists
<1>1. AllocationInv => ActiveExists
  BY DEF AllocationInv
<1>2. QED BY <1>1, InvAlways, PTL

\* A step that makes a directory of kind k is a mkdir for that kind.
LEMMA DirsStep ==
  ASSUME TypeOK, [Next]_vars, NEW k \in Kinds, dirs'[k] # dirs[k]
  PROVE  \E p \in Procs : /\ Mkdir(p) /\ Kind(p) = k
                          /\ dirs'[k] = dirs[k] \cup {Num(p)}
<1>1. PICK p \in Procs : Mkdir(p)
  BY DEF Next, Begin, Reserve, Finish, BeginInfo, BeginCreate, BeginActivate, List, Verify,
         VerifyFails, Retry, GiveUp, RefuseGate, WriteRecord, Lookup, LookupFails,
         LoadStorage, SaveStorage, Info, InfoFails, Crash, vars, disk
<1>2. QED BY <1>1, OwnTypes DEF Mkdir, TypeOK

\* Numbers only ever go up: past every directory and every tombstone.
THEOREM NumbersIncrease == Spec => IdsIncrease
<1>1. TypeOK /\ AllocationInv /\ [Next]_vars =>
        [\A k \in Kinds : \A n \in dirs'[k] \ dirs[k] :
           \A m \in dirs[k] \cup Tombstones[k] : m < n]_vars
  <2>1. SUFFICES ASSUME TypeOK, AllocationInv, [Next]_vars,
                        NEW k \in Kinds, NEW n \in dirs'[k] \ dirs[k],
                        NEW m \in dirs[k] \cup Tombstones[k]
                 PROVE  m < n
    OBVIOUS
  <2>2. PICK p \in Procs : Mkdir(p) /\ Kind(p) = k /\ dirs'[k] = dirs[k] \cup {Num(p)}
    BY <2>1, DirsStep
  <2>3. QED BY <2>1, <2>2, MkdirAbove
<1>2. QED BY <1>1, InvAlways, PTL DEF Spec, IdsIncrease

\* A reservation that nobody works on stays, and no other follows it.
THEOREM AbandonedForever == Spec => AbandonedBlocks
<1>1. TypeOK /\ AllocationInv /\ [Next]_vars =>
        [\A k \in Kinds : \A n \in dirs[k] :
           Abandoned(k, n) => dirs'[k] = dirs[k] /\ n \notin records'[k]]_vars
  <2>1. SUFFICES ASSUME TypeOK, AllocationInv, [Next]_vars,
                        NEW k \in Kinds, NEW n \in dirs[k], Abandoned(k, n)
                 PROVE  dirs'[k] = dirs[k] /\ n \notin records'[k]
    OBVIOUS
  <2>2. dirs'[k] = dirs[k]
    <3>1. SUFFICES ASSUME dirs'[k] # dirs[k] PROVE FALSE
      OBVIOUS
    <3>2. PICK p \in Procs : Mkdir(p) /\ Kind(p) = k
      BY <2>1, <3>1, DirsStep
    <3>3. QED BY <2>1, <3>2, MkdirAbove DEF Abandoned
  <2>3. ASSUME n \in records'[k] PROVE FALSE
    <3>1. n \notin records[k]
      BY <2>1 DEF Abandoned
    <3>2. PICK p \in Procs : WriteRecord(p)
      BY <2>1, <2>3, <3>1
      DEF Next, Begin, Reserve, Finish, BeginInfo, BeginCreate, BeginActivate, List, Verify,
          VerifyFails, Mkdir, Retry, GiveUp, RefuseGate, Lookup, LookupFails,
          LoadStorage, SaveStorage, Info, InfoFails, Crash, vars, disk
    <3>3. QED BY <2>1, <2>3, <3>1, <3>2 DEF WriteRecord, Abandoned, TypeOK
  <2>4. QED BY <2>2, <2>3
<1>2. QED BY <1>1, InvAlways, PTL DEF Spec, AbandonedBlocks

-------------------------------------------------------------------------------
(* Who gives up.                                                            *)

\* Each attempt that p lost, another invocation won: of the directories there are,
\* or were found by its last scan, so many were not there when it began.  The
\* number it is about to take is none of those it found.
RivalInv(p) ==
  /\ pc[p] = "idle" => own[p].lost = 0
  /\ pc[p] = "list" => /\ own[p].before \subseteq dirs[Kind(p)]
                       /\ Cardinality(dirs[Kind(p)] \ own[p].before) >= own[p].lost
  /\ pc[p] \in {"verify", "mkdir"} =>
       /\ own[p].before \subseteq Listed(p) /\ Listed(p) \subseteq dirs[Kind(p)]
       /\ Cardinality(Listed(p) \ own[p].before) >= own[p].lost
  /\ pc[p] = "mkdir" => Num(p) \notin Listed(p)

DirsFinite == \A k \in Kinds : IsFiniteSet(dirs[k])

RivalsInv == DirsFinite /\ \A p \in Procs : RivalInv(p)

LEMMA AtLeast ==
  ASSUME NEW S, NEW T, NEW n \in Nat, IsFiniteSet(T), S \subseteq T, Cardinality(S) >= n
  PROVE  Cardinality(T) >= n
<1>1. IsFiniteSet(S) /\ Cardinality(S) <= Cardinality(T)
  BY FS_Subset
<1>2. Cardinality(S) \in Nat /\ Cardinality(T) \in Nat
  BY <1>1, FS_CardinalityType
<1>3. QED BY <1>1, <1>2

\* Who finds its number taken has one more rival than it had.
LEMMA OneMoreRival ==
  ASSUME TypeOK, RivalsInv, NEW p \in Procs, LostRace(p)
  PROVE  /\ own[p].before \subseteq dirs[Kind(p)]
         /\ Cardinality(dirs[Kind(p)] \ own[p].before) >= own[p].lost + 1
<1> DEFINE new == Listed(p) \ own[p].before
<1>1. /\ own[p].before \subseteq Listed(p) /\ Listed(p) \subseteq dirs[Kind(p)]
      /\ Cardinality(new) >= own[p].lost
      /\ Num(p) \notin Listed(p) /\ Num(p) \in dirs[Kind(p)]
  BY DEF RivalsInv, RivalInv, LostRace
<1>2. IsFiniteSet(dirs[Kind(p)]) /\ own[p].lost \in Nat
  BY OwnTypes DEF RivalsInv, DirsFinite
<1>3. IsFiniteSet(new)
  BY <1>1, <1>2, FS_Subset
<1>4. IsFiniteSet(new \cup {Num(p)}) /\ Cardinality(new \cup {Num(p)}) = Cardinality(new) + 1
  BY <1>1, <1>3, FS_AddElement
<1>5. Cardinality(new) \in Nat
  BY <1>3, FS_CardinalityType
<1>6. IsFiniteSet(dirs[Kind(p)] \ own[p].before)
  BY <1>2, FS_Subset
<1>7. new \cup {Num(p)} \subseteq dirs[Kind(p)] \ own[p].before
  BY <1>1
<1>8. Cardinality(new \cup {Num(p)}) >= own[p].lost + 1
  BY <1>1, <1>2, <1>4, <1>5
<1> HIDE DEF new
<1>9. QED BY <1>1, <1>2, <1>6, <1>7, <1>8, AtLeast

LEMMA RivalsInit == Init => RivalsInv
<1>1. SUFFICES ASSUME Init PROVE RivalsInv
  OBVIOUS
<1>2. DirsFinite
  BY <1>1, NumbersAssumption DEF Init, DirsFinite
<1>3. QED BY <1>1, <1>2 DEF Init, RivalsInv, RivalInv, Fresh

LEMMA RivalsNext ==
  ASSUME TypeOK, RivalsInv, [Next]_vars
  PROVE  RivalsInv'
<1>0. \A p \in Procs : RivalInv(p)
  BY DEF RivalsInv
<1>1. ASSUME NEW k \in Kinds PROVE dirs[k] \subseteq dirs'[k] /\ IsFiniteSet(dirs'[k])
  <2>1. IsFiniteSet(dirs[k])
    BY DEF RivalsInv, DirsFinite
  <2>2. CASE dirs'[k] = dirs[k]
    BY <2>1, <2>2
  <2>3. CASE dirs'[k] # dirs[k]
    <3>1. PICK p \in Procs : dirs'[k] = dirs[k] \cup {Num(p)}
      BY <2>3, DirsStep
    <3>2. QED BY <2>1, <3>1, FS_AddElement
  <2>4. QED BY <2>2, <2>3
\* What the others make only adds to the rivals of who waits.
<1>2. ASSUME NEW q \in Procs, pc'[q] = pc[q], own'[q] = own[q] PROVE RivalInv(q)'
  <2>1. Kind(q) \in Kinds /\ own[q].lost \in Nat
    BY OwnTypes
  <2>2. dirs[Kind(q)] \subseteq dirs'[Kind(q)] /\ IsFiniteSet(dirs'[Kind(q)])
    BY <1>1, <2>1
  <2>3. IsFiniteSet(dirs'[Kind(q)] \ own[q].before)
    BY <2>2, FS_Subset
  <2>4. Cardinality(dirs[Kind(q)] \ own[q].before) >= own[q].lost =>
          Cardinality(dirs'[Kind(q)] \ own[q].before) >= own[q].lost
    <3>1. dirs[Kind(q)] \ own[q].before \subseteq dirs'[Kind(q)] \ own[q].before
      BY <2>2
    <3>2. QED BY <2>1, <2>3, <3>1, AtLeast
  <2>5. Kind(q)' = Kind(q) /\ Listed(q)' = Listed(q) /\ Num(q)' = Num(q)
    BY <1>2 DEF Kind, Listed, Num
  <2>6. QED BY <1>0, <1>2, <2>2, <2>4, <2>5 DEF RivalInv
<1>3. ASSUME NEW p \in Procs, Begin(p) \/ Reserve(p) \/ Finish(p) \/ Crash(p)
      PROVE  \A q \in Procs : RivalInv(q)'
  <2>0. own \in [Procs -> Locals] /\ pc \in [Procs -> Labels]
    BY DEF TypeOK
  <2>1. ASSUME NEW q \in Procs, q # p PROVE pc'[q] = pc[q] /\ own'[q] = own[q]
    BY <1>3, <2>0, <2>1
    DEF Begin, Reserve, Finish, BeginInfo, BeginCreate, BeginActivate, List, Verify,
        VerifyFails, Mkdir, Retry, GiveUp, RefuseGate, WriteRecord, Lookup, LookupFails,
        LoadStorage, SaveStorage, Info, InfoFails, Crash, End, Goto
  <2>2. SUFFICES RivalInv(p)'
    BY <1>2, <2>1
  <2>3. own[p] \in Locals /\ Kind(p) \in Kinds /\ own[p].lost \in Nat
    BY OwnTypes
  <2>4. CASE End(p)
    <3>1. pc'[p] = "idle" /\ own'[p].lost = 0
      BY <2>0, <2>4 DEF End, Goto, Fresh
    <3>2. QED BY <3>1 DEF RivalInv
  <2>5. ASSUME NEW k \in Kinds, BeginCreate(p, k) PROVE RivalInv(p)'
    <3>1. PICK sound \in BOOLEAN :
            own' = [own EXCEPT ![p].kind = k, ![p].sound = sound, ![p].before = dirs[k]]
      BY <2>5 DEF BeginCreate
    <3>2. own'[p] = [own[p] EXCEPT !.kind = k, !.sound = sound, !.before = dirs[k]]
      BY <2>0, <3>1
    <3>3. own'[p].kind = k /\ own'[p].before = dirs[k] /\ own'[p].lost = own[p].lost
      BY <2>3, <3>2 DEF Locals
    <3>4. own[p].lost = 0 /\ pc'[p] = "list" /\ dirs' = dirs
      BY <1>0, <2>0, <2>5 DEF BeginCreate, RivalInv, Goto, disk
    <3>5. dirs[k] \ dirs[k] = {} /\ Cardinality({}) = 0
      BY FS_EmptySet
    <3>6. Cardinality(dirs'[k] \ own'[p].before) >= 0
      BY <3>3, <3>4, <3>5
    <3>7. QED BY <3>3, <3>4, <3>6 DEF RivalInv, Kind
  <2>6. CASE List(p)
    <3>1. own'[p] = [own[p] EXCEPT !.listed = dirs[Kind(p)]] /\ dirs' = dirs
      BY <2>0, <2>6 DEF List, disk
    <3>2. /\ own'[p].kind = own[p].kind /\ own'[p].before = own[p].before
          /\ own'[p].lost = own[p].lost /\ own'[p].listed = dirs[Kind(p)]
      BY <2>3, <3>1 DEF Locals
    <3>3. pc[p] = "list" /\ pc'[p] = "verify"
      BY <2>0, <2>6 DEF List, Goto
    <3>4. QED BY <1>0, <3>1, <3>2, <3>3 DEF RivalInv, Kind, Listed
  <2>7. CASE Verify(p)
    <3>1. PICK n \in {m + 1 : m \in Found(p)} :
            IsNext(p, n) /\ own' = [own EXCEPT ![p].num = n]
      BY <2>7 DEF Verify
    <3>2. own'[p] = [own[p] EXCEPT !.num = n] /\ dirs' = dirs
      BY <2>0, <2>7, <3>1 DEF Verify, disk
    <3>3. /\ own'[p].kind = own[p].kind /\ own'[p].before = own[p].before
          /\ own'[p].lost = own[p].lost /\ own'[p].listed = own[p].listed
          /\ own'[p].num = n
      BY <2>3, <3>2 DEF Locals
    <3>4. n \notin Listed(p)
      <4>1. \A m \in Found(p) : m \in Nat /\ m < n
        BY <3>1, OwnTypes DEF IsNext
      <4>2. QED BY <4>1 DEF Found
    <3>5. pc[p] = "verify" /\ pc'[p] = "mkdir"
      BY <2>0, <2>7 DEF Verify, Goto
    <3>6. QED BY <1>0, <3>2, <3>3, <3>4, <3>5 DEF RivalInv, Kind, Listed, Num
  <2>8. CASE Retry(p)
    <3>1. own'[p] = [own[p] EXCEPT !.lost = own[p].lost + 1] /\ dirs' = dirs
      BY <2>0, <2>8 DEF Retry, disk
    <3>2. /\ own'[p].kind = own[p].kind /\ own'[p].before = own[p].before
          /\ own'[p].lost = own[p].lost + 1
      BY <2>3, <3>1 DEF Locals
    <3>3. pc'[p] = "list" /\ LostRace(p)
      BY <2>0, <2>8 DEF Retry, Goto
    <3>4. QED BY <3>1, <3>2, <3>3, OneMoreRival DEF RivalInv, Kind
  <2>9. CASE \/ BeginInfo(p) \/ (\E k \in Kinds : BeginActivate(p, k)) \/ Mkdir(p)
             \/ WriteRecord(p) \/ Lookup(p) \/ LoadStorage(p)
    <3>1. pc'[p] \in {"info", "lookup", "reserved", "load", "save"}
      BY <2>0, <2>9 DEF BeginInfo, BeginActivate, Mkdir, WriteRecord, Lookup, LoadStorage, Goto
    <3>2. QED BY <3>1 DEF RivalInv
  <2>10. QED
    BY <1>3, <2>4, <2>5, <2>6, <2>7, <2>8, <2>9
    DEF Begin, Reserve, Finish, VerifyFails, GiveUp, RefuseGate, LookupFails, SaveStorage,
        Info, InfoFails, Crash
<1>4. CASE Next
  BY <1>1, <1>3, <1>4 DEF Next, RivalsInv, DirsFinite
<1>5. CASE UNCHANGED vars
  BY <1>1, <1>2, <1>5 DEF vars, RivalsInv, DirsFinite
<1>6. QED BY <1>4, <1>5

\* However many invocations compete and whatever they do: nobody gives up a
\* reservation before as many others as it made attempts have each made a
\* directory of the kind while it ran.
THEOREM ContentionIsReal == Spec => ContentionNeedsRivals
<1>1. TypeOK /\ RivalsInv /\ [Next]_vars => RivalsInv'
  BY RivalsNext
<1>2. TypeOK /\ RivalsInv =>
        [\A p \in Procs :
           GiveUp(p) => Cardinality(dirs[Kind(p)] \ own[p].before) >= MaxAttempts]_vars
  <2>1. SUFFICES ASSUME TypeOK, RivalsInv, NEW p \in Procs, GiveUp(p)
                 PROVE  Cardinality(dirs[Kind(p)] \ own[p].before) >= MaxAttempts
    OBVIOUS
  <2>2. LostRace(p) /\ own[p].lost + 1 >= MaxAttempts
    BY <2>1 DEF GiveUp
  <2>3. Cardinality(dirs[Kind(p)] \ own[p].before) >= own[p].lost + 1
    BY <2>1, <2>2, OneMoreRival
  <2>4. Cardinality(dirs[Kind(p)] \ own[p].before) \in Nat
    <3>1. IsFiniteSet(dirs[Kind(p)])
      BY <2>1, OwnTypes DEF RivalsInv, DirsFinite
    <3>2. QED BY <3>1, FS_Subset, FS_CardinalityType
  <2>5. own[p].lost \in Nat /\ MaxAttempts \in Nat
    BY <2>1, OwnTypes
  <2>6. QED BY <2>2, <2>3, <2>4, <2>5
<1>3. QED BY <1>1, <1>2, InvAlways, RivalsInit, PTL DEF Spec, ContentionNeedsRivals

===============================================================================
