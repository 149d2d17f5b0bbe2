------------------------------ MODULE Allocation ------------------------------
(***************************************************************************)
(* How planledger gives numbers to its plans and workshops, and which of    *)
(* them is the active one.  The counter is not stored: a new record scans   *)
(* the record directories and the tombstones, adds one to the highest       *)
(* number, and reserves it with an exclusive mkdir.  Nobody holds the write *)
(* lock meanwhile, so any number of `plan create', `workshop create',       *)
(* `plan activate' and `info' run at once, and any of them may be killed.   *)
(*                                                                         *)
(* Records are never removed and never lose their metadata, so a scan that  *)
(* reads the metadata files one by one sees what one that reads all of them *)
(* at its last step would.                                                 *)
(***************************************************************************)
EXTENDS Integers, FiniteSets

CONSTANTS
  Procs,       \* invocations of the program; one that ended may begin again
  Imported,    \* numbers of the records a migration brought, by kind
  Tombstones,  \* numbers it retired without a record, by kind
  MaxAttempts, \* of one reservation, 32 in the code
  MaxId,       \* bound: the highest number given, by kind
  MaxCrashes   \* bound: invocations that are killed

Kinds == {"plan", "workshop"}
Ids   == Nat \ {0}

ASSUME NumbersAssumption ==
  \A k \in Kinds :
    /\ Imported[k] \subseteq Ids /\ IsFiniteSet(Imported[k])
    /\ Tombstones[k] \subseteq Ids /\ IsFiniteSet(Tombstones[k])
    /\ Imported[k] \cap Tombstones[k] = {}
    /\ MaxId[k] \in Nat
ASSUME AttemptsAssumption == MaxAttempts \in Ids /\ MaxCrashes \in Nat

VARIABLES
  dirs,     \* the record directories of each kind
  records,  \* those of them with plan.yaml or workshop.yaml
  active,   \* the two pointers of storage.yaml, 0 for none
  pc,
  own,      \* the variables of each invocation, see Locals
  crashes

vars == <<dirs, records, active, pc, own, crashes>>

disk == <<dirs, records, active>>

Labels == {"idle", "list", "verify", "mkdir", "reserved", "lookup", "load", "save", "info"}

\* kind and sound: what it works on, and whether the contents it was given
\* pass the gate of the status it asks for.  lost: attempts at a reservation
\* that lost the race.  before: the directories there were when it began.
\* listed: those its last scan found.  num: the number it computed, or was
\* given.  read: storage.yaml as it read it.
Locals ==
  [kind : Kinds, sound : BOOLEAN, lost : 0 .. MaxAttempts - 1, before : SUBSET Ids,
   listed : SUBSET Ids, num : Nat, read : [Kinds -> Nat]]

Fresh ==
  [kind |-> "plan", sound |-> TRUE, lost |-> 0, before |-> {},
   listed |-> {}, num |-> 0, read |-> [k \in Kinds |-> 0]]

TypeOK ==
  /\ dirs \in [Kinds -> SUBSET Ids]
  /\ records \in [Kinds -> SUBSET Ids]
  /\ active \in [Kinds -> Nat]
  /\ pc \in [Procs -> Labels]
  /\ own \in [Procs -> Locals]
  /\ crashes \in 0 .. MaxCrashes

Kind(p)   == own[p].kind
Num(p)    == own[p].num
Listed(p) == own[p].listed

Init ==
  /\ dirs = [k \in Kinds |-> Imported[k]]
  /\ records = [k \in Kinds |-> Imported[k]]
  /\ active = [k \in Kinds |-> 0]
  /\ pc = [p \in Procs |-> "idle"]
  /\ own = [p \in Procs |-> Fresh]
  /\ crashes = 0

Goto(p, label) == pc' = [pc EXCEPT ![p] = label]

\* The invocation is over, its variables with it.
End(p) == Goto(p, "idle") /\ own' = [own EXCEPT ![p] = Fresh]

-------------------------------------------------------------------------------
(* The commands.                                                            *)

Creating(k) == {p \in Procs : Kind(p) = k /\ pc[p] \in {"list", "verify", "mkdir"}}

\* The bound: every creation that began finds a number up to MaxId.
Room(k) == \A n \in dirs[k] \cup Tombstones[k] \cup {0} :
             n + Cardinality(Creating(k)) < MaxId[k]

\* `plan create' and `workshop create', after the checks of the arguments.
BeginCreate(p, k) ==
  /\ pc[p] = "idle" /\ Room(k)
  /\ Goto(p, "list")
  /\ \E sound \in BOOLEAN :
       own' = [own EXCEPT ![p].kind = k, ![p].sound = sound, ![p].before = dirs[k]]
  /\ UNCHANGED <<disk, crashes>>

\* `plan activate' and `workshop activate', of an id somebody typed.
BeginActivate(p, k) ==
  /\ pc[p] = "idle"
  /\ Goto(p, "lookup")
  /\ \E n \in 1 .. MaxId[k] : own' = [own EXCEPT ![p].kind = k, ![p].num = n]
  /\ UNCHANGED <<disk, crashes>>

BeginInfo(p) ==
  /\ pc[p] = "idle"
  /\ Goto(p, "info")
  /\ UNCHANGED <<disk, own, crashes>>

-------------------------------------------------------------------------------
(* The reservation: at most MaxAttempts times, scan and mkdir.              *)

List(p) ==
  /\ pc[p] = "list"
  /\ own' = [own EXCEPT ![p].listed = dirs[Kind(p)]]
  /\ Goto(p, "verify")
  /\ UNCHANGED <<disk, crashes>>

\* Mistaken variants, here and below, are what a property must tell from the
\* code; the mutation checks put each in the place of what it precedes.
\* Mistake: the tombstones are forgotten.
FoundDirectories(p) == Listed(p) \cup {0}

Found(p) == Listed(p) \cup Tombstones[Kind(p)] \cup {0}

\* The scan's highest number, plus one.
IsNext(p, n) == n - 1 \in Found(p) /\ \A m \in Found(p) : m < n

\* Mistake: a directory is enough.
VerifiedDirectories(p) == Listed(p) \subseteq dirs[Kind(p)]

\* Every directory the scan found must have its metadata.
Verified(p) == Listed(p) \subseteq records[Kind(p)]

Verify(p) ==
  /\ pc[p] = "verify" /\ Verified(p)
  /\ \E n \in {m + 1 : m \in Found(p)} :
       IsNext(p, n) /\ own' = [own EXCEPT ![p].num = n]
  /\ Goto(p, "mkdir")
  /\ UNCHANGED <<disk, crashes>>

\* PLANLEDGER_ALLOCATION_INVALID, which is not retried.
VerifyFails(p) ==
  /\ pc[p] = "verify" /\ ~Verified(p)
  /\ End(p)
  /\ UNCHANGED <<disk, crashes>>

Mkdir(p) ==
  /\ pc[p] = "mkdir" /\ Num(p) \notin dirs[Kind(p)]
  /\ dirs' = [dirs EXCEPT ![Kind(p)] = @ \cup {Num(p)}]
  /\ Goto(p, "reserved")
  /\ UNCHANGED <<records, active, own, crashes>>

LostRace(p) == pc[p] = "mkdir" /\ Num(p) \in dirs[Kind(p)]

\* Mistake: the number is not computed anew.
RetryUnscanned(p) ==
  /\ LostRace(p) /\ own[p].lost + 1 < MaxAttempts
  /\ own' = [own EXCEPT ![p].lost = @ + 1]
  /\ UNCHANGED <<disk, pc, crashes>>

\* The directory was made since the scan: scan again.
Retry(p) ==
  /\ LostRace(p) /\ own[p].lost + 1 < MaxAttempts
  /\ own' = [own EXCEPT ![p].lost = @ + 1]
  /\ Goto(p, "list")
  /\ UNCHANGED <<disk, crashes>>

\* PLANLEDGER_ALLOCATION_CONTENTION.
GiveUp(p) ==
  /\ LostRace(p) /\ own[p].lost + 1 >= MaxAttempts
  /\ End(p)
  /\ UNCHANGED <<disk, crashes>>

-------------------------------------------------------------------------------
(* Filling the reserved directory, and the pointer.                         *)

\* `plan create --status done' and `workshop create --status shaped' check
\* the contents after the reservation, and leave the directory behind.
RefuseGate(p) ==
  /\ pc[p] = "reserved" /\ ~own[p].sound
  /\ End(p)
  /\ UNCHANGED <<disk, crashes>>

\* The component files, then plan.yaml; the snapshot of version 1 after it
\* plays no part here.
WriteRecord(p) ==
  /\ pc[p] = "reserved" /\ own[p].sound
  /\ records' = [records EXCEPT ![Kind(p)] = @ \cup {Num(p)}]
  /\ Goto(p, "load")
  /\ UNCHANGED <<dirs, active, own, crashes>>

\* Mistake: a directory is enough.
LoadableDirectory(p) == Num(p) \in dirs[Kind(p)]

Loadable(p) == Num(p) \in records[Kind(p)]

Lookup(p) ==
  /\ pc[p] = "lookup" /\ Loadable(p)
  /\ Goto(p, "load")
  /\ UNCHANGED <<disk, own, crashes>>

LookupFails(p) ==
  /\ pc[p] = "lookup" /\ ~Loadable(p)
  /\ End(p)
  /\ UNCHANGED <<disk, crashes>>

LoadStorage(p) ==
  /\ pc[p] = "load"
  /\ own' = [own EXCEPT ![p].read = active]
  /\ Goto(p, "save")
  /\ UNCHANGED <<disk, crashes>>

\* storage.yaml is replaced as a whole, the other pointer as it was read.
SaveStorage(p) ==
  /\ pc[p] = "save"
  /\ active' = [own[p].read EXCEPT ![Kind(p)] = Num(p)]
  /\ End(p)
  /\ UNCHANGED <<dirs, records, crashes>>

-------------------------------------------------------------------------------
(* `info' lists the records it can read, and then scans both kinds.         *)

Info(p) ==
  /\ pc[p] = "info" /\ dirs = records
  /\ End(p)
  /\ UNCHANGED <<disk, crashes>>

InfoFails(p) ==
  /\ pc[p] = "info" /\ dirs # records
  /\ End(p)
  /\ UNCHANGED <<disk, crashes>>

\* Killed, or a write failed: nothing is undone.
Crash(p) ==
  /\ pc[p] # "idle" /\ crashes < MaxCrashes
  /\ crashes' = crashes + 1
  /\ End(p)
  /\ UNCHANGED disk

Begin(p) == BeginInfo(p) \/ \E k \in Kinds : BeginCreate(p, k) \/ BeginActivate(p, k)

Reserve(p) == List(p) \/ Verify(p) \/ VerifyFails(p) \/ Mkdir(p) \/ Retry(p) \/ GiveUp(p)

Finish(p) ==
  \/ RefuseGate(p) \/ WriteRecord(p) \/ Lookup(p) \/ LookupFails(p)
  \/ LoadStorage(p) \/ SaveStorage(p) \/ Info(p) \/ InfoFails(p)

Next == \E p \in Procs : Begin(p) \/ Reserve(p) \/ Finish(p) \/ Crash(p)

Spec == Init /\ [][Next]_vars

-------------------------------------------------------------------------------
(* Properties.                                                              *)

\* id_inventory.py promises exclusive reservations: at no time do two
\* invocations fill the same new directory, nor even two of the same kind,
\* because a scan refuses what it finds half made.
OneReservation ==
  \A p, q \in Procs :
    pc[p] = "reserved" /\ pc[q] = "reserved" /\ Kind(p) = Kind(q) => p = q

\* Interrupted and refused creations leave at most one directory without
\* metadata behind for each kind, so that there is one to repair.
OneOrphan ==
  \A k \in Kinds : \A m, n \in dirs[k] \ records[k] : m = n

\* A number is given above every number in use and every tombstone: however
\* late a mkdir comes, it never fills a gap or takes back a retired number.
IdsIncrease ==
  [][\A k \in Kinds : \A n \in dirs'[k] \ dirs[k] :
       \A m \in dirs[k] \cup Tombstones[k] : m < n]_vars

\* The active pointers of storage.yaml name records that can be loaded,
\* whoever saved the file last.
ActiveExists == \A k \in Kinds : active[k] \in records[k] \cup {0}

\* A reservation nobody works on any more, left by a refused or interrupted
\* creation, ends the creation of records of its kind: no later step makes a
\* directory or removes that one.
Abandoned(k, n) ==
  /\ n \in dirs[k] \ records[k]
  /\ \A p \in Procs : ~(pc[p] = "reserved" /\ Kind(p) = k /\ Num(p) = n)

AbandonedBlocks ==
  [][\A k \in Kinds : \A n \in dirs[k] :
       Abandoned(k, n) => dirs'[k] = dirs[k] /\ n \notin records'[k]]_vars

\* An invocation gives up only after as many others as it had attempts have
\* each made a directory of the kind while it ran.
ContentionNeedsRivals ==
  [][\A p \in Procs :
       GiveUp(p) => Cardinality(dirs[Kind(p)] \ own[p].before) >= MaxAttempts]_vars

-------------------------------------------------------------------------------
(* The inductive invariant.                                                 *)

\* What was made since p scanned lies above all it found, and begins with the
\* number p is about to compute.
ScanInv(p) ==
  /\ Listed(p) \subseteq dirs[Kind(p)]
  /\ \A m \in dirs[Kind(p)] \ Listed(p) : \A n \in Found(p) : n < m
  /\ dirs[Kind(p)] # Listed(p) =>
       \A m \in Found(p) : IsNext(p, m + 1) => m + 1 \in dirs[Kind(p)]

\* The number p computed is above every tombstone and next to one in use;
\* what is below it is complete, and it is the first to be taken.
NumberInv(p) ==
  /\ Num(p) \in Ids
  /\ Num(p) - 1 \in dirs[Kind(p)] \cup Tombstones[Kind(p)] \cup {0}
  /\ \A n \in Tombstones[Kind(p)] : n < Num(p)
  /\ \A m \in dirs[Kind(p)] : m < Num(p) => m \in records[Kind(p)]
  /\ \A m \in dirs[Kind(p)] : m >= Num(p) => Num(p) \in dirs[Kind(p)]

Local(p) ==
  /\ pc[p] = "verify" => ScanInv(p)
  /\ pc[p] = "mkdir" => NumberInv(p)
  /\ pc[p] = "reserved" => Num(p) \in dirs[Kind(p)] \ records[Kind(p)]
  /\ pc[p] \in {"load", "save"} => Loadable(p)
  /\ pc[p] = "save" => \A k \in Kinds : own[p].read[k] \in records[k] \cup {0}

AllocationInv ==
  /\ \A k \in Kinds : records[k] \subseteq dirs[k]
  /\ ActiveExists
  /\ OneOrphan
  /\ OneReservation
  /\ \A p \in Procs : Local(p)

=============================================================================
