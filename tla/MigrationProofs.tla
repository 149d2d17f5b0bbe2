--------------------------- MODULE MigrationProofs ---------------------------
(***************************************************************************)
(* Theorems about Migration, for any projects, numbers, invocations and    *)
(* crashes: no number is lost, given out again or made unreadable, and     *)
(* invocations and journals only move on.                                  *)
(***************************************************************************)
EXTENDS Migration, FiniteSetTheorems, TLAPS

-----------------------------------------------------------------------------
(* The inductive invariant *)

(* What is never lost: the numbers that were taken when the project was found, *)
(* of those the ones without a record.                                        *)
Found   == Taken(layout.tree)
Gaps    == CounterGaps(layout.tree)
Retired == layout.tree.tombs \cup Gaps

Listed(tree) == tree.records \cup tree.tombs

\* Every directory, also a stage that is half converted or was left behind.
Loose(tree) ==
  /\ tree.tombs \subseteq Retired /\ tree.records \cap Retired = {}
  /\ tree.records \subseteq used
  /\ \A receipt \in tree.receipts : receipt \subseteq Gaps

\* Data is as it was found or converted.
Sound(tree) ==
  /\ Loose(tree)
  /\ tree.schema = 3 =>
       /\ layout.tree.schema = 3
       /\ tree.counter = layout.tree.counter
       /\ tree.records = layout.tree.records /\ tree.tombs = layout.tree.tombs
  /\ tree.schema = 4 => tree.counter = 0 /\ Gaps \subseteq tree.tombs

\* What the first tree has and may not be missed is in the second.
Kept(numbers, tree) == numbers \ late \subseteq Taken(tree)

PlacesInv ==
  /\ ~layout.canonical => override = Nil /\ manifest \in {Nil, "new"}
  /\ layout.canonical =>
       /\ manifest # Nil /\ override \in {Nil, "new"}
       /\ override = Nil => manifest = "old"
  /\ Current = "new" =>
       \E j \in DOMAIN journals : journals[j].phase = "complete" /\ journals[j].before = Nil

Home == IF Canonical THEN Current ELSE "old"

NumbersInv ==
  /\ Found \subseteq used /\ late \subseteq used /\ late \cap Found = {}
  /\ Kept(used, data[Home])

DataInv ==
  /\ data["old"] # Nil
  /\ data["old"].schema = 3 => data["old"].receipts = {}
  /\ ~layout.canonical =>
       /\ data["old"] = layout.tree
       /\ data["new"] # Nil => data["new"].schema = 4
  /\ \A place \in Places : data[place] # Nil => Sound(data[place])

StageInv ==
  /\ \A place \in Places : stage[place] # Nil => Loose(stage[place])
  /\ stage["old"] # Nil => Kept(Listed(stage["old"]), data["old"])

Pending(journal)    == journal.phase \in {"begun", "published"}
InPlace(journal) == journal.phase \in {"published", "complete"}

JournalInv(journal) ==
  /\ Sound(journal.image)
  /\ InPlace(journal) => data[journal.to] # Nil
  /\ journal.before = Nil =>
       /\ journal.to = "new" /\ journal.local = layout.canonical
       /\ ~layout.canonical => journal.image.schema = 4
       /\ Pending(journal) => Kept(used, journal.image)
       /\ journal.phase = "published" => Kept(used, data["new"])
  /\ journal.before # Nil =>
       /\ layout.canonical /\ ~journal.local
       /\ journal.to = "new" => Current = "new"
       /\ Sound(journal.before) /\ journal.image.schema = 4
       /\ journal.to = "old" /\ journal.before.schema = 3 => journal.before.receipts = {}
       /\ Pending(journal) => /\ Kept(Taken(journal.before), journal.image)
                           /\ Kept(Taken(journal.image), journal.before)

JournalsInv ==
  /\ \A j \in DOMAIN journals : JournalInv(journals[j])
  /\ \A j, k \in DOMAIN journals :
       /\ journals[j].before = Nil /\ InPlace(journals[j])
       /\ journals[k].before = Nil /\ InPlace(journals[k])
       => j = k

DiskInv == PlacesInv /\ NumbersInv /\ DataInv /\ StageInv /\ JournalsInv

\* On the way to the lock.
Outside == {"lock", "unlink", "open"}

\* A plan to migrate, and how it lies in time.
PlanInv(planned) ==
  /\ planned.domain = IF planned.convert THEN Gaps ELSE {}
  /\ planned.moved =>
       layout.canonical /\ planned.from = "old" /\ planned.to = "new"
  /\ ~planned.moved =>
       /\ planned.convert
       /\ planned.from = planned.to =>
            layout.canonical /\ (planned.to = "new" => Current = "new")
       /\ planned.from # planned.to =>
            ~layout.canonical /\ planned.from = "old" /\ planned.to = "new"
  /\ planned.convert => layout.tree.schema = 3

StagedInv(planned) ==
  /\ stage[planned.to] # Nil
  /\ Taken(data[planned.from]) \ late \subseteq Listed(stage[planned.to]) \cup Gaps

ConvertedInv(planned) ==
  ~planned.moved =>
    /\ stage[planned.to] # Nil
    /\ Sound(stage[planned.to]) /\ stage[planned.to].schema = 4
    /\ Kept(Taken(data[planned.from]), stage[planned.to])
    /\ planned.from = planned.to => Kept(Taken(stage[planned.to]), data[planned.to])

ProcInv(p) ==
  /\ plan[p] = Nil <=> pc[p] \in {"idle", "release"}
  /\ plan[p] # Nil =>
       IF plan[p].policy = "none"
       THEN /\ pc[p] # "recover"
            /\ PlanInv(plan[p])
            /\ pc[p] \in {"copy", "convert", "clean"} => plan[p].convert
            /\ pc[p] \in Outside \cup {"copy", "convert"} => plan[p].before = Nil
            /\ pc[p] = "begin" /\ plan[p].from # plan[p].to => plan[p].before = Nil
       ELSE IF plan[p].policy = "init"
       THEN pc[p] \in Outside
       ELSE /\ pc[p] \in Outside \cup {"recover", "publish", "configure"}
            /\ plan[p].journal \in DOMAIN journals
  /\ pc[p] = "convert" => StagedInv(plan[p])
  /\ pc[p] = "begin" => ConvertedInv(plan[p])
  /\ pc[p] \in {"publish", "configure", "receipt"} =>
       /\ plan[p].journal \in DOMAIN journals
       /\ journals[plan[p].journal].phase =
            CASE pc[p] = "publish"   -> "begun"
              [] pc[p] = "configure" -> "published"
              [] pc[p] = "receipt"   -> "complete"
       /\ plan[p].policy = "none" =>
            /\ journals[plan[p].journal].to = plan[p].to
            /\ pc[p] \in {"configure", "receipt"} /\ plan[p].to = "old" => data["old"].schema = 4

MigrationInv == TypeOK /\ DiskInv /\ \A p \in Procs : ProcInv(p)

-----------------------------------------------------------------------------
(* Numbers and trees *)

LEMMA TreeFields ==
  ASSUME NEW tree \in Tree
  PROVE  /\ tree.schema \in {3, 4} /\ tree.counter \in Int
         /\ tree.records \subseteq Numbers /\ tree.tombs \subseteq Numbers
         /\ tree.receipts \subseteq SUBSET Numbers
         /\ tree # Nil
BY NilAssumption, BoundsAssumption DEF Tree, Numbers

LEMMA FoundFacts ==
  ASSUME TypeOK
  PROVE  /\ layout \in Layout /\ layout.tree \in Tree /\ layout.canonical \in BOOLEAN
         /\ Retired \subseteq Found /\ Found \subseteq Numbers
         /\ layout.tree.records \cap Retired = {} /\ layout.tree.records \subseteq Found
         /\ layout.tree.receipts = {}
         /\ layout.tree.schema = 4 => layout.tree.counter = 0 /\ layout.canonical
         /\ layout.tree.schema = 4 => Gaps = {}
         /\ Gaps \subseteq Numbers /\ Found \cap Gaps = Gaps
<1>1. layout \in Layout /\ layout.tree \in Tree /\ layout.canonical \in BOOLEAN
  BY LayoutsAssumption DEF TypeOK, Layout
<1>2. /\ layout.tree.records \cap layout.tree.tombs = {} /\ layout.tree.receipts = {}
      /\ layout.tree.schema = 4 => layout.tree.counter = 0 /\ layout.canonical
  BY LayoutsAssumption DEF TypeOK
<1>3. /\ layout.tree.records \subseteq Numbers /\ layout.tree.tombs \subseteq Numbers
      /\ layout.tree.counter \in Int
  BY <1>1, TreeFields
<1>4. layout.tree.schema = 4 => Gaps = {}
  BY <1>2, BoundsAssumption DEF Gaps, CounterGaps, Numbers
<1> QED
  BY <1>1, <1>2, <1>3, <1>4 DEF Retired, Found, Gaps, CounterGaps, Taken

\* What is in a sound tree was given out.
LEMMA SoundTaken ==
  ASSUME TypeOK, NumbersInv, NEW tree \in Tree, Sound(tree)
  PROVE  /\ Taken(tree) \subseteq used
         /\ tree.schema = 3 => Taken(tree) = Found
         /\ tree.schema = 4 => Taken(tree) = Listed(tree)
         /\ Found \ late = Found
         /\ Gaps \subseteq Taken(tree)
         /\ Listed(tree) \subseteq Taken(tree) /\ Taken(tree) \subseteq Listed(tree) \cup Gaps
<1>1. /\ tree.records \subseteq Numbers /\ tree.tombs \subseteq Numbers
      /\ tree.schema \in {3, 4}
  BY TreeFields
<1>2. tree.schema = 3 => Taken(tree) = Found
  BY DEF Sound, Taken, Found
<1>3. tree.schema = 4 => Taken(tree) = Listed(tree)
  BY BoundsAssumption DEF Sound, Taken, Listed, Numbers
<1>4. Retired \subseteq used /\ Found \subseteq used /\ Found \ late = Found
  BY FoundFacts DEF NumbersInv
<1>5. Listed(tree) \subseteq used
  BY <1>4 DEF Sound, Loose, Listed
<1>6. Gaps \subseteq Taken(tree)
  <2>1. Gaps \subseteq Found
    BY FoundFacts
  <2> QED
    BY <1>1, <1>2, <1>3, <2>1 DEF Sound, Listed
<1>7. Found \subseteq layout.tree.records \cup layout.tree.tombs \cup Gaps
  BY DEF Found, Taken, Gaps, CounterGaps
<1>8. /\ Listed(tree) \subseteq Taken(tree)
      /\ Taken(tree) \subseteq Listed(tree) \cup Gaps
  BY <1>1, <1>2, <1>3, <1>7 DEF Sound, Listed, Taken
<1> QED
  BY <1>1, <1>2, <1>3, <1>4, <1>5, <1>6, <1>8

\* CopyToStage lays what it copies over what is left.
LEMMA Overlaid ==
  ASSUME NEW former \in Tree \cup {Nil}, NEW tree \in Tree,
         former # Nil => Loose(former), Loose(tree)
  PROVE  /\ Overlay(former, tree) \in Tree /\ Loose(Overlay(former, tree))
         /\ Listed(tree) \subseteq Listed(Overlay(former, tree))
         /\ Listed(Overlay(former, tree))
              = Listed(tree) \cup (IF former = Nil THEN {} ELSE Listed(former))
         /\ Overlay(former, tree).counter = tree.counter
<1>1. CASE former = Nil
  BY <1>1 DEF Overlay
<1>2. CASE former # Nil
  <2>1. /\ tree.schema \in {3, 4} /\ tree.counter \in 0 .. MaxNumber + 1
        /\ tree.records \subseteq Numbers /\ tree.tombs \subseteq Numbers
        /\ tree.receipts \subseteq SUBSET Numbers
    BY DEF Tree
  <2>2. /\ former.records \subseteq Numbers /\ former.tombs \subseteq Numbers
        /\ former.receipts \subseteq SUBSET Numbers
    BY <1>2, TreeFields
  <2>3. Overlay(former, tree) =
          [schema   |-> tree.schema, counter |-> tree.counter,
           records  |-> tree.records \cup former.records,
           tombs    |-> tree.tombs \cup former.tombs,
           receipts |-> tree.receipts \cup former.receipts]
    BY <1>2 DEF Overlay, Tree
  <2>4. Overlay(former, tree) \in Tree
    BY <2>1, <2>2, <2>3 DEF Tree
  <2>5. Loose(Overlay(former, tree))
    BY <1>2, <2>3 DEF Loose
  <2> QED
    BY <1>2, <2>3, <2>4, <2>5 DEF Listed
<1> QED
  BY <1>1, <1>2

\* ConvertStage makes sound data of a stage.
LEMMA ConvertedIsSound ==
  ASSUME TypeOK, NEW tree \in Tree, Loose(tree), layout.tree.schema = 3
  PROVE  /\ Converted(tree, Gaps) \in Tree
         /\ Sound(Converted(tree, Gaps)) /\ Converted(tree, Gaps).schema = 4
         /\ Taken(Converted(tree, Gaps)) = Listed(tree) \cup Gaps
<1>1. /\ tree.records \subseteq Numbers /\ tree.tombs \subseteq Numbers
      /\ tree.receipts \subseteq SUBSET Numbers
  BY TreeFields
<1>2. Gaps \subseteq Numbers /\ Gaps \subseteq Retired
  BY FoundFacts DEF Retired
<1>3. /\ Converted(tree, Gaps).schema = 4 /\ Converted(tree, Gaps).counter = 0
      /\ Converted(tree, Gaps).records = tree.records
      /\ Converted(tree, Gaps).tombs = tree.tombs \cup Gaps
      /\ Converted(tree, Gaps).receipts = tree.receipts
  BY DEF Converted, Tree
<1>4. Converted(tree, Gaps) \in Tree
  <2>1. [tree EXCEPT !.schema = 4] \in Tree
    BY DEF Tree
  <2>2. \A t \in Tree : [t EXCEPT !.counter = 0] \in Tree
    BY BoundsAssumption DEF Tree
  <2>3. \A t \in Tree : t.tombs \cup Gaps \subseteq Numbers
    BY <1>2 DEF Tree
  <2>4. \A t \in Tree : [t EXCEPT !.tombs = @ \cup Gaps] \in Tree
    BY <2>3 DEF Tree
  <2>5. Converted(tree, Gaps)
          = [[[tree EXCEPT !.schema = 4] EXCEPT !.counter = 0] EXCEPT !.tombs = @ \cup Gaps]
    BY DEF Converted
  <2> QED
    BY <2>1, <2>2, <2>4, <2>5
<1>5. Sound(Converted(tree, Gaps))
  BY <1>2, <1>3 DEF Sound, Loose
<1>6. {n \in Numbers : n < 0} = {}
  BY DEF Numbers
<1> QED
  BY <1>3, <1>4, <1>5, <1>6 DEF Taken, Listed

-----------------------------------------------------------------------------
(* What a step leaves alone *)

disk == <<layout, manifest, override, data, stage, journals, used, late>>

LEMMA DataSame ==
  ASSUME DiskInv, UNCHANGED <<layout, manifest, override, data, journals, used, late>>
  PROVE  PlacesInv' /\ NumbersInv' /\ DataInv' /\ JournalsInv'
<1>1. PlacesInv'
  BY DEF DiskInv, PlacesInv, Current
<1>2. NumbersInv'
  BY DEF DiskInv, NumbersInv, Home, Current, Canonical, Found, Kept, Taken
<1>3. DataInv'
  BY DEF DiskInv, DataInv, Sound, Loose, Retired, Gaps, CounterGaps
<1>4. JournalsInv'
  BY DEF DiskInv, JournalsInv, JournalInv, Pending, InPlace, Sound, Loose, Retired, Gaps,
     CounterGaps, Kept, Taken, Current
<1> QED
  BY <1>1, <1>2, <1>3, <1>4

LEMMA DiskSame ==
  ASSUME DiskInv, UNCHANGED disk
  PROVE  DiskInv'
<1>1. StageInv'
  BY DEF DiskInv, disk, StageInv, Loose, Retired, Gaps, CounterGaps, Kept, Listed, Taken
<1> QED
  BY <1>1, DataSame DEF DiskInv, disk

\* An invocation at rest, or that has left.
LEMMA Ended ==
  ASSUME NEW p \in Procs, pc'[p] = "idle", plan'[p] = Nil
  PROVE  ProcInv(p)'
BY DEF ProcInv

\* One that does nothing while nothing of the data changes.
LEMMA ProcSame ==
  ASSUME NEW q \in Procs, ProcInv(q), UNCHANGED disk, pc'[q] = pc[q],
         plan'[q] = plan[q]
  PROVE  ProcInv(q)'
<1>1. /\ Gaps' = Gaps /\ Current' = Current
      /\ \A tree : Taken(tree)' = Taken(tree) /\ Sound(tree)' = Sound(tree)
                   /\ Listed(tree)' = Listed(tree)
      /\ \A numbers, tree : Kept(numbers, tree)' = Kept(numbers, tree)
  BY DEF disk, Gaps, Current, Taken, Sound, Loose, Retired, CounterGaps, Kept, Listed
<1> QED
  BY <1>1 DEF ProcInv, disk, PlanInv, StagedInv, ConvertedInv

\* One that waits for the lock, or rests, while another changes the data.
LEMMA Waiting ==
  ASSUME NEW q \in Procs, ProcInv(q), pc[q] \notin Working, pc'[q] = pc[q],
         plan'[q] = plan[q], layout' = layout, Current = "new" => Current' = "new",
         DOMAIN journals \subseteq DOMAIN journals'
  PROVE  ProcInv(q)'
<1>1. Gaps' = Gaps
  BY DEF Gaps, CounterGaps
<1> QED
  BY <1>1 DEF ProcInv, PlanInv, Working

-----------------------------------------------------------------------------
(* The initial states *)

LEMMA MigrationInvInit == Init => MigrationInv
<1> SUFFICES ASSUME Init PROVE MigrationInv
  OBVIOUS
<1>1. /\ layout \in Layouts /\ layout \in Layout /\ layout.tree \in Tree
      /\ layout.canonical \in BOOLEAN /\ layout.tree # Nil
  BY LayoutsAssumption, NilAssumption DEF Init, Layout
<1>2. used = Found /\ used \subseteq Numbers
  BY <1>1 DEF Init, Found, Taken, Tree
<1>3. TypeOK
  <2>1. data \in [Places -> Tree \cup {Nil}] /\ stage \in [Places -> Tree \cup {Nil}]
    BY <1>1 DEF Init, Places
  <2>2. manifest \in Places \cup {Nil} /\ override \in Places \cup {Nil}
    BY DEF Init, Places
  <2>3. pc \in [Procs -> Labels] /\ plan \in [Procs -> Plan \cup {Nil}]
    BY DEF Init, Labels, Working
  <2>4. journals \in Seq(Journal) /\ touched \in BOOLEAN /\ crashes \in 0 .. MaxCrashes
    BY <1>1, BoundsAssumption DEF Init
  <2> QED
    BY <1>1, <1>2, <2>1, <2>2, <2>3, <2>4 DEF Init, TypeOK
<1>4. Sound(layout.tree)
  BY <1>1, <1>2, <1>3, FoundFacts, TreeFields DEF Sound, Loose, Retired
<1>5. data["old"] = layout.tree /\ data["new"] = Nil /\ stage["old"] = Nil /\ stage["new"] = Nil
  BY DEF Init, Places
<1>6. PlacesInv
  BY <1>1, NilAssumption DEF Init, PlacesInv, Current, Places
<1>7. NumbersInv
  BY <1>1, <1>2, <1>5, NilAssumption
  DEF Init, NumbersInv, Home, Current, Canonical, Kept, Found, Places
<1>8. DataInv
  BY <1>1, <1>4, <1>5, <1>3, FoundFacts DEF DataInv, Places
<1>9. StageInv
  BY <1>5 DEF StageInv, Places
<1>10. JournalsInv
  BY DEF Init, JournalsInv
<1>11. \A p \in Procs : ProcInv(p)
  BY NilAssumption DEF Init, ProcInv
<1> QED
  BY <1>3, <1>6, <1>7, <1>8, <1>9, <1>10, <1>11 DEF MigrationInv, DiskInv

-----------------------------------------------------------------------------
(* Steps that leave the data alone *)

\* What one invocation does with its plan and the lock, whoever else is inside.
LEMMA QuietStep ==
  ASSUME MigrationInv, NEW p \in Procs, UNCHANGED disk, TypeOK', ProcInv(p)',
         \A q \in Procs \ {p} : pc'[q] = pc[q] /\ plan'[q] = plan[q]
  PROVE  MigrationInv'
<1>1. DiskInv'
  BY DiskSame DEF MigrationInv
<1>2. ASSUME NEW q \in Procs PROVE ProcInv(q)'
  <2>1. CASE q = p
    BY <2>1
  <2>2. CASE q # p
    BY <2>2, ProcSame DEF MigrationInv
  <2> QED
    BY <2>1, <2>2
<1> QED
  BY <1>1, <1>2 DEF MigrationInv

\* A command that ends, whoever holds the lock then.
LEMMA QuietEnd ==
  ASSUME MigrationInv, NEW p \in Procs, End(p), UNCHANGED disk,
         touched' \in BOOLEAN, lock' \in Procs \cup {Nil, Stale}, crashes' \in 0 .. MaxCrashes
  PROVE  MigrationInv'
<1>1. pc'[p] = "idle" /\ plan'[p] = Nil
  BY DEF End, Goto, MigrationInv, TypeOK
<1>2. TypeOK'
  BY DEF MigrationInv, TypeOK, End, Goto, Labels, Working, disk
<1>3. \A q \in Procs \ {p} : pc'[q] = pc[q] /\ plan'[q] = plan[q]
  BY DEF MigrationInv, TypeOK, End, Goto
<1>4. ProcInv(p)'
  BY <1>1, Ended
<1> QED
  BY <1>2, <1>3, <1>4, QuietStep

LEMMA RefuseKeeps ==
  ASSUME MigrationInv, NEW p \in Procs, Refuse(p)
  PROVE  MigrationInv'
BY QuietEnd DEF Refuse, disk, MigrationInv, TypeOK

\* The body of the lock is left, with or without a lock file of its own.
LEMMA Leaving ==
  ASSUME TypeOK, NEW p \in Procs, ToRelease(p)
  PROVE  /\ pc'[p] \in {"release", "idle"} /\ plan'[p] = Nil
         /\ pc' \in [Procs -> Labels] /\ plan' \in [Procs -> Plan \cup {Nil}]
         /\ \A q \in Procs \ {p} : pc'[q] = pc[q] /\ plan'[q] = plan[q]
         /\ ProcInv(p)'
<1>1. /\ pc'[p] \in {"release", "idle"} /\ plan'[p] = Nil
      /\ pc' \in [Procs -> Labels] /\ plan' \in [Procs -> Plan \cup {Nil}]
      /\ \A q \in Procs \ {p} : pc'[q] = pc[q] /\ plan'[q] = plan[q]
  BY DEF ToRelease, Goto, TypeOK, Labels, Working
<1> QED
  BY <1>1 DEF ProcInv

LEMMA FailKeeps ==
  ASSUME MigrationInv, NEW p \in Procs, Fail(p)
  PROVE  MigrationInv'
<1>1. UNCHANGED disk /\ ToRelease(p)
  BY DEF Fail, disk
<1>2. TypeOK'
  BY <1>1, Leaving DEF Fail, MigrationInv, TypeOK
<1> QED
  BY <1>1, <1>2, Leaving, QuietStep DEF MigrationInv

\* A plan that is made well is held well.
LEMMA ToLockKeeps ==
  ASSUME MigrationInv, NEW p \in Procs, NEW planned \in Plan, ToLock(p, planned),
         pc[p] = "idle",
         IF planned.policy = "none" THEN PlanInv(planned) /\ planned.before = Nil
         ELSE planned.policy = "init" \/ planned.journal \in DOMAIN journals
  PROVE  MigrationInv'
<1>1. pc'[p] = "lock" /\ plan'[p] = planned /\ UNCHANGED <<lock, disk>>
  BY DEF ToLock, Goto, MigrationInv, TypeOK, disk
<1>2. TypeOK'
  BY DEF MigrationInv, TypeOK, ToLock, Goto, Labels, Working
<1>3. \A q \in Procs \ {p} : pc'[q] = pc[q] /\ plan'[q] = plan[q]
  BY DEF MigrationInv, TypeOK, ToLock, Goto
<1>4. planned # Nil
  BY NilAssumption
<1>5. PlanInv(planned)' = PlanInv(planned)
  BY <1>1 DEF disk, PlanInv, Gaps, CounterGaps, Current
<1>6. ProcInv(p)'
  BY <1>1, <1>4, <1>5 DEF ProcInv, Outside, disk
<1> QED
  BY <1>1, <1>2, <1>3, <1>6, QuietStep

\* The data that is in use is there.
LEMMA HomeData ==
  ASSUME MigrationInv
  PROVE  /\ Home \in Places /\ data[Home] \in Tree /\ data[Home] # Nil /\ Sound(data[Home])
         /\ data["old"] \in Tree /\ data["old"] # Nil
         /\ Canonical => Current = Home
<1>1. Home \in Places /\ (Canonical => Current = Home)
  BY DEF Home, Canonical, Current, MigrationInv, TypeOK, Places
<1>2. data["old"] # Nil
  BY DEF MigrationInv, DiskInv, DataInv
<1>3. CASE Home = "new"
  <2>1. Current = "new"
    BY <1>3 DEF Home
  <2>2. PICK j \in DOMAIN journals : journals[j].phase = "complete" /\ journals[j].before = Nil
    BY <2>1 DEF MigrationInv, DiskInv, PlacesInv
  <2>3. JournalInv(journals[j])
    BY DEF MigrationInv, DiskInv, JournalsInv
  <2>4. data["new"] # Nil
    BY <2>2, <2>3 DEF JournalInv, InPlace
  <2> QED
    BY <1>1, <1>2, <1>3, <2>4 DEF MigrationInv, DiskInv, DataInv, TypeOK, Places
<1>4. CASE Home = "old"
  BY <1>1, <1>2, <1>4 DEF MigrationInv, DiskInv, DataInv, TypeOK, Places
<1> QED
  BY <1>1, <1>2, <1>3, <1>4 DEF MigrationInv, TypeOK, Places

\* What is not converted yet counts what was counted when it was found.
LEMMA SameGaps ==
  ASSUME NEW tree, Sound(tree), tree.schema = 3
  PROVE  CounterGaps(tree) = Gaps /\ layout.tree.schema = 3
BY DEF Sound, Gaps, CounterGaps

LEMMA PlanFromCanonicalKeeps ==
  ASSUME MigrationInv, NEW p \in Procs, NEW to \in Places, PlanFromCanonical(p, to)
  PROVE  MigrationInv'
<1> DEFINE moved   == Current # to
           convert == data[Current].schema < 4
           planned == PlanOf(Current, to, convert, moved)
<1>1. CASE Refuse(p)
  BY <1>1, RefuseKeeps DEF PlanFromCanonical
<1>2. CASE (IF moved THEN data[to] = Nil ELSE convert) /\ ToLock(p, planned)
  <2>1. /\ Current \in Places /\ data[Current] \in Tree /\ Sound(data[Current])
        /\ data[Current].schema \in {3, 4} /\ Current = Home
    BY HomeData, TreeFields DEF PlanFromCanonical
  <2>2. CounterGaps(data[Current]) \subseteq Numbers
    BY DEF CounterGaps
  <2>3. planned \in Plan
    BY <2>1, <2>2 DEF PlanOf, Plan
  <2>4. convert => data[Current].schema = 3
    BY <2>1
  <2>5. convert => CounterGaps(data[Current]) = Gaps /\ layout.tree.schema = 3
    BY <2>1, <2>4, SameGaps
  <2>6. moved => to = "new" /\ Current = "old" /\ layout.canonical
    <3>1. moved => to = "new" /\ Current = "old"
      BY <1>2, <2>1, HomeData DEF Places
    <3> QED
      BY <3>1 DEF PlanFromCanonical, MigrationInv, DiskInv, PlacesInv, Current, Canonical
  <2>7. convert => layout.canonical
    <3> SUFFICES ASSUME convert, ~layout.canonical PROVE FALSE
      BY FoundFacts DEF MigrationInv
    <3>1. Current = "new"
      BY DEF PlanFromCanonical, MigrationInv, DiskInv, PlacesInv, Current, Canonical
    <3>2. data["new"].schema = 4
      BY <3>1, HomeData DEF PlanFromCanonical, MigrationInv, DiskInv, DataInv
    <3> QED
      BY <2>4, <3>1, <3>2
  <2>8. PlanInv(planned) /\ planned.before = Nil /\ planned.policy = "none"
    BY <1>2, <2>5, <2>6, <2>7 DEF PlanInv, PlanOf
  <2> HIDE DEF planned
  <2> QED
    BY <1>2, <2>3, <2>8, ToLockKeeps DEF PlanFromCanonical
<1> QED
  BY <1>1, <1>2 DEF PlanFromCanonical

LEMMA PlanFromLegacyKeeps ==
  ASSUME MigrationInv, NEW p \in Procs, PlanFromLegacy(p)
  PROVE  MigrationInv'
<1> DEFINE planned == PlanOf("old", "new", TRUE, FALSE)
<1>1. CASE Refuse(p)
  BY <1>1, RefuseKeeps DEF PlanFromLegacy
<1>2. CASE ToLock(p, planned)
  <2>1. ~layout.canonical
    BY DEF PlanFromLegacy, MigrationInv, DiskInv, PlacesInv, Canonical
  <2>2. data["old"] = layout.tree /\ layout.tree.schema = 3
    BY <2>1, FoundFacts, TreeFields DEF MigrationInv, DiskInv, DataInv
  <2>3. planned \in Plan
    BY DEF PlanOf, Plan, Places, CounterGaps
  <2>4. PlanInv(planned) /\ planned.before = Nil /\ planned.policy = "none"
    BY <2>1, <2>2 DEF PlanInv, PlanOf, Gaps
  <2> HIDE DEF planned
  <2> QED
    BY <1>2, <2>3, <2>4, ToLockKeeps DEF PlanFromLegacy
<1> QED
  BY <1>1, <1>2 DEF PlanFromLegacy

LEMMA PlanRecoveryKeeps ==
  ASSUME MigrationInv, NEW p \in Procs, NEW given \in Nat, NEW policy \in Policies,
         PlanRecovery(p, given, policy)
  PROVE  MigrationInv'
<1>1. CASE Refuse(p)
  BY <1>1, RefuseKeeps DEF PlanRecovery
<1>2. CASE \E j \in Selectable(given) :
             ToLock(p, [from |-> journals[j].to, to |-> journals[j].to,
                        convert |-> FALSE, moved |-> FALSE, domain |-> {},
                        source |-> Nil, before |-> Nil,
                        journal |-> j, policy |-> policy])
  <2>1. PICK j \in Selectable(given) :
             ToLock(p, [from |-> journals[j].to, to |-> journals[j].to,
                        convert |-> FALSE, moved |-> FALSE, domain |-> {},
                        source |-> Nil, before |-> Nil,
                        journal |-> j, policy |-> policy])
    BY <1>2
  <2> DEFINE planned == [from |-> journals[j].to, to |-> journals[j].to,
                         convert |-> FALSE, moved |-> FALSE, domain |-> {},
                         source |-> Nil, before |-> Nil,
                         journal |-> j, policy |-> policy]
  <2>2. j \in DOMAIN journals
    BY <2>1 DEF Selectable, Incomplete, PlanRecovery
  <2>3. journals[j].to \in Places /\ j \in Nat
    <3>1. journals \in Seq(Journal)
      BY DEF MigrationInv, TypeOK
    <3>2. journals[j] \in Journal /\ j \in Nat
      BY <2>2, <3>1
    <3> QED
      BY <3>2 DEF Journal
  <2>4. planned \in Plan
    BY <2>3 DEF Plan, Policies
  <2>5. planned.policy # "none" /\ planned.journal \in DOMAIN journals
    BY <2>2 DEF Policies
  <2>6. ToLock(p, planned)
    BY <2>1
  <2> HIDE DEF planned
  <2> QED
    BY <2>4, <2>5, <2>6, ToLockKeeps DEF PlanRecovery
<1> QED
  BY <1>1, <1>2 DEF PlanRecovery

LEMMA InitLegacyKeeps ==
  ASSUME MigrationInv, NEW p \in Procs, InitLegacy(p)
  PROVE  MigrationInv'
<1> DEFINE planned == [from |-> "old", to |-> "old", convert |-> FALSE, moved |-> FALSE,
                       domain |-> {}, source |-> Nil, before |-> Nil,
                       journal |-> 0, policy |-> "init"]
<1>1. planned \in Plan /\ planned.policy = "init"
  BY DEF Plan, Places
<1>2. ToLock(p, planned) /\ pc[p] = "idle"
  BY DEF InitLegacy
<1> HIDE DEF planned
<1> QED
  BY <1>1, <1>2, ToLockKeeps

LEMMA CrashKeeps ==
  ASSUME MigrationInv, NEW p \in Procs, Crash(p)
  PROVE  MigrationInv'
<1>1. Stale \notin Procs /\ lock \in Procs \cup {Nil, Stale} /\ touched \in BOOLEAN
  BY NilAssumption DEF MigrationInv, TypeOK
<1>2. crashes' \in 0 .. MaxCrashes
  BY BoundsAssumption DEF Crash, MigrationInv, TypeOK
<1> QED
  BY <1>1, <1>2, QuietEnd DEF Crash, disk

LEMMA LookKeeps ==
  ASSUME MigrationInv, NEW p \in Procs, Look(p)
  PROVE  MigrationInv'
<1>1. CASE Refuse(p)
  BY <1>1, RefuseKeeps
<1>2. CASE Goto(p, "unlink") /\ UNCHANGED plan
  <2>1. UNCHANGED disk /\ pc[p] = "lock"
    BY DEF Look, disk
  <2>2. /\ pc'[p] = "unlink" /\ plan'[p] = plan[p]
        /\ \A q \in Procs \ {p} : pc'[q] = pc[q] /\ plan'[q] = plan[q]
    BY <1>2 DEF Goto, MigrationInv, TypeOK
  <2>3. TypeOK'
    BY <1>2 DEF Look, MigrationInv, TypeOK, Goto, Labels, Working
  <2>4. PlanInv(plan[p])' = PlanInv(plan[p])
    BY <2>1, <2>2 DEF disk, PlanInv, Gaps, CounterGaps, Current
  <2>5. ProcInv(p)'
    BY <2>1, <2>2, <2>4 DEF MigrationInv, ProcInv, Outside, disk
  <2> QED
    BY <2>1, <2>2, <2>3, <2>5, QuietStep
<1> QED
  BY <1>1, <1>2 DEF Look

LEMMA UnlinkKeeps ==
  ASSUME MigrationInv, NEW p \in Procs, Unlink(p)
  PROVE  MigrationInv'
<1>1. UNCHANGED disk /\ lock' = Nil /\ UNCHANGED <<touched, crashes>>
  BY DEF Unlink, disk
<1>2. CASE End(p)
  BY <1>1, <1>2, QuietEnd DEF MigrationInv, TypeOK
<1>3. CASE pc[p] = "unlink" /\ Goto(p, "open") /\ UNCHANGED plan
  <2>1. /\ pc'[p] = "open" /\ plan'[p] = plan[p]
        /\ \A q \in Procs \ {p} : pc'[q] = pc[q] /\ plan'[q] = plan[q]
    BY <1>3 DEF Goto, MigrationInv, TypeOK
  <2>2. TypeOK'
    BY <1>1, <1>3 DEF MigrationInv, TypeOK, Goto, Labels, Working, disk
  <2>3. PlanInv(plan[p])' = PlanInv(plan[p])
    BY <1>1, <2>1 DEF disk, PlanInv, Gaps, CounterGaps, Current
  <2>4. ProcInv(p)'
    BY <1>1, <1>3, <2>1, <2>3 DEF MigrationInv, ProcInv, Outside, disk
  <2> QED
    BY <1>1, <2>1, <2>2, <2>4, QuietStep
<1> QED
  BY <1>2, <1>3 DEF Unlink

\* Where the work begins, and for whom.
LEMMA EntryValues ==
  ASSUME MigrationInv, NEW p \in Procs, pc[p] \in {"lock", "open"}
  PROVE  /\ plan[p] # Nil /\ plan[p] \in Plan
         /\ plan[p].policy = "none" =>
              Entry(plan[p]) = IF plan[p].convert THEN "copy" ELSE "begin"
         /\ plan[p].policy = "init" => Entry(plan[p]) = "release"
         /\ plan[p].policy \notin {"none", "init"} =>
              Entry(plan[p]) = "recover" /\ plan[p].journal \in DOMAIN journals
<1>1. plan[p] # Nil /\ plan[p] \in Plan
  BY DEF MigrationInv, ProcInv, TypeOK
<1> QED
  BY <1>1 DEF Entry, MigrationInv, ProcInv

LEMMA OpenKeeps ==
  ASSUME MigrationInv, NEW p \in Procs, Open(p)
  PROVE  MigrationInv'
<1>1. CASE Refuse(p)
  BY <1>1, RefuseKeeps
<1>2. CASE /\ pc[p] \in {"lock", "open"} /\ lock = Nil
           /\ lock' = p
           /\ touched' = TRUE
           /\ Goto(p, Entry(plan[p]))
           /\ plan' = IF Entry(plan[p]) = "release" THEN [plan EXCEPT ![p] = Nil] ELSE plan
           /\ UNCHANGED <<layout, manifest, override, data, stage, journals, used, late, crashes>>
  <2>1. UNCHANGED disk
    BY <1>2 DEF disk
  <2>2. /\ Entry(plan[p]) \in {"copy", "begin", "release", "recover"}
        /\ Entry(plan[p]) = "release" <=> plan[p].policy = "init"
    BY <1>2, EntryValues
  <2>3. /\ pc'[p] = Entry(plan[p])
        /\ plan'[p] = IF Entry(plan[p]) = "release" THEN Nil ELSE plan[p]
        /\ \A q \in Procs \ {p} : pc'[q] = pc[q] /\ plan'[q] = plan[q]
    BY <1>2 DEF Goto, MigrationInv, TypeOK
  <2>4. TypeOK'
    <3>1. pc' \in [Procs -> Labels] /\ plan' \in [Procs -> Plan \cup {Nil}]
      BY <1>2, <2>2 DEF MigrationInv, TypeOK, Goto, Labels, Working
    <3> QED
      BY <1>2, <3>1 DEF MigrationInv, TypeOK
  <2>5. CASE plan[p].policy = "init"
    <3>1. ProcInv(p)'
      BY <2>2, <2>3, <2>5 DEF ProcInv
    <3> QED
      BY <2>1, <2>3, <2>4, <3>1, QuietStep
  <2>6. CASE plan[p].policy = "none"
    <3>1. /\ PlanInv(plan[p])' = PlanInv(plan[p])
          /\ ConvertedInv(plan[p])' = ConvertedInv(plan[p])
      BY <2>1, <2>2, <2>3, <2>6 DEF disk, PlanInv, Gaps, CounterGaps, Current, ConvertedInv,
         Sound, Loose, Retired, Kept, Taken
    <3>2. PlanInv(plan[p]) /\ plan[p].before = Nil
      BY <1>2, <2>6, EntryValues DEF MigrationInv, ProcInv, Outside
    <3>3. ~plan[p].convert => ConvertedInv(plan[p])
      BY <3>2 DEF PlanInv, ConvertedInv
    <3>4. ProcInv(p)'
      BY <1>2, <2>2, <2>3, <2>6, <3>1, <3>2, <3>3, EntryValues DEF ProcInv
    <3> QED
      BY <2>1, <2>3, <2>4, <3>4, QuietStep
  <2>7. CASE plan[p].policy \notin {"none", "init"}
    <3>1. ProcInv(p)'
      BY <1>2, <2>2, <2>3, <2>7, EntryValues DEF ProcInv
    <3> QED
      BY <2>1, <2>3, <2>4, <3>1, QuietStep
  <2> QED
    BY <2>5, <2>6, <2>7
<1> QED
  BY <1>1, <1>2 DEF Open

LEMMA ResumeKeeps ==
  ASSUME MigrationInv, NEW p \in Procs, pc[p] = "recover", Resume(p)
  PROVE  MigrationInv'
<1>1. /\ ProcInv(p) /\ plan[p] # Nil /\ plan[p] \in Plan /\ plan[p].policy # "none"
      /\ plan[p].journal \in DOMAIN journals
  BY DEF MigrationInv, ProcInv, TypeOK, Outside
<1>2. /\ plan'[p] = [plan[p] EXCEPT !.policy = "auto"]
      /\ pc'[p] = IF JournalOf(p).phase = "begun" THEN "publish" ELSE "configure"
      /\ \A q \in Procs \ {p} : pc'[q] = pc[q] /\ plan'[q] = plan[q]
      /\ UNCHANGED <<disk, lock, touched, crashes>>
  BY DEF Resume, Goto, MigrationInv, TypeOK, disk
<1>3. plan'[p] \in Plan /\ plan'[p].policy = "auto" /\ plan'[p].journal = plan[p].journal
  BY <1>1, <1>2 DEF Plan
<1>4. TypeOK'
  BY <1>2, <1>3 DEF MigrationInv, TypeOK, Resume, Goto, Labels, Working, disk
<1>5. JournalOf(p).phase \in {"begun", "published"}
  BY DEF Resume, Resumable
<1>6. plan'[p] # Nil
  BY <1>3, NilAssumption
<1>7. ProcInv(p)'
  BY <1>1, <1>2, <1>3, <1>5, <1>6 DEF ProcInv, disk, JournalOf
<1> QED
  BY <1>2, <1>4, <1>7, QuietStep

-----------------------------------------------------------------------------
(* Steps inside the lock *)

\* The others wait while one is at work.
LEMMA InsideStep ==
  ASSUME MigrationInv, ~Overlap, NEW p \in Procs, pc[p] \in Working,
         TypeOK', DiskInv', ProcInv(p)', layout' = layout, Current = "new" => Current' = "new",
         DOMAIN journals \subseteq DOMAIN journals',
         \A q \in Procs \ {p} : pc'[q] = pc[q] /\ plan'[q] = plan[q]
  PROVE  MigrationInv'
<1>1. ASSUME NEW q \in Procs PROVE ProcInv(q)'
  <2>1. CASE q = p
    BY <2>1
  <2>2. CASE q # p
    <3>1. ProcInv(q) /\ pc'[q] = pc[q] /\ plan'[q] = plan[q] /\ pc[q] \notin Working
      BY <2>2 DEF MigrationInv, Overlap
    <3> QED
      BY <3>1, Waiting
  <2> QED
    BY <2>1, <2>2
<1> QED
  BY <1>1 DEF MigrationInv

\* The invariant's words mean the same when no number is given out.
LEMMA SameMeaning ==
  ASSUME UNCHANGED <<layout, used, late>>
  PROVE  /\ Gaps' = Gaps /\ Found' = Found
         /\ \A tree : /\ Loose(tree)' = Loose(tree) /\ Sound(tree)' = Sound(tree)
                      /\ Taken(tree)' = Taken(tree) /\ Listed(tree)' = Listed(tree)
         /\ \A numbers, tree : Kept(numbers, tree)' = Kept(numbers, tree)
BY DEF Gaps, Found, Loose, Sound, Retired, CounterGaps, Kept, Taken, Listed

\* Where a migration takes its data from.
LEMMA SourceData ==
  ASSUME MigrationInv, NEW p \in Procs, plan[p] # Nil, plan[p].policy = "none"
  PROVE  /\ plan[p] \in Plan /\ PlanInv(plan[p])
         /\ plan[p].from \in Places /\ plan[p].to \in Places
         /\ data[plan[p].from] \in Tree /\ data[plan[p].from] # Nil
         /\ Sound(data[plan[p].from])
         /\ plan[p].to = "old" => plan[p].from = "old"
         /\ plan[p].from = "new" => Home = "new"
<1>1. plan[p] \in Plan /\ PlanInv(plan[p])
  BY DEF MigrationInv, TypeOK, ProcInv
<1>2. plan[p].from \in Places /\ plan[p].to \in Places
  BY <1>1 DEF Plan
<1>3. /\ plan[p].to = "old" => plan[p].from = "old"
      /\ plan[p].from = "new" => Current = "new"
  BY <1>1, <1>2 DEF PlanInv, Places
<1>4. Current = "new" => Home = "new"
  BY NilAssumption DEF Home, Canonical, Current, MigrationInv, DiskInv, PlacesInv, Places
<1> QED
  BY <1>1, <1>2, <1>3, <1>4, HomeData DEF Places, MigrationInv, DiskInv, DataInv

LEMMA CopyToStageKeeps ==
  ASSUME MigrationInv, ~Overlap, NEW p \in Procs, CopyToStage(p)
  PROVE  MigrationInv'
<1> DEFINE to   == plan[p].to
           from == plan[p].from
           copy == Overlay(stage[to], data[from])
<1>1. /\ pc[p] = "copy" /\ ProcInv(p) /\ plan[p] # Nil /\ plan[p].policy = "none"
      /\ plan[p].convert /\ plan[p].before = Nil
  BY DEF CopyToStage, MigrationInv, ProcInv, Outside, Working
<1>2. /\ from \in Places /\ to \in Places /\ data[from] \in Tree
      /\ Sound(data[from]) /\ (to = "old" => from = "old") /\ PlanInv(plan[p])
  BY <1>1, SourceData
<1>3. /\ pc' = [pc EXCEPT ![p] = "convert"]
      /\ stage' = [stage EXCEPT ![to] = copy]
      /\ UNCHANGED <<layout, manifest, override, data, journals, touched, lock, plan, used, late, crashes>>
  BY DEF CopyToStage, Goto
<1>4. stage[to] \in Tree \cup {Nil} /\ (stage[to] # Nil => Loose(stage[to]))
  BY <1>2 DEF MigrationInv, TypeOK, DiskInv, StageInv
<1>5. /\ copy \in Tree /\ Loose(copy)
      /\ Listed(copy) = Listed(data[from]) \cup (IF stage[to] = Nil THEN {} ELSE Listed(stage[to]))
      /\ copy # Nil
  BY <1>2, <1>4, Overlaid, NilAssumption DEF Sound
<1>6. /\ Listed(data[from]) \subseteq Taken(data[from])
      /\ Taken(data[from]) \subseteq Listed(data[from]) \cup Gaps
  BY <1>2, SoundTaken DEF MigrationInv, DiskInv
<1> HIDE DEF copy
<1>7. stage'[to] = copy /\ \A place \in Places : place # to => stage'[place] = stage[place]
  BY <1>2, <1>3 DEF MigrationInv, TypeOK
<1>8. TypeOK'
  BY <1>3, <1>5 DEF MigrationInv, TypeOK, Labels, Working
<1>9. StageInv'
  <2>1. ASSUME NEW place \in Places, stage'[place] # Nil PROVE Loose(stage'[place])
    BY <1>5, <1>7, <2>1 DEF MigrationInv, DiskInv, StageInv
  <2>2. ASSUME stage'["old"] # Nil PROVE Kept(Listed(stage'["old"]), data["old"])
    <3>1. CASE to = "old"
      <4>1. stage["old"] # Nil => Kept(Listed(stage["old"]), data["old"])
        BY DEF MigrationInv, DiskInv, StageInv
      <4> QED
        BY <3>1, <4>1, <1>2, <1>5, <1>6, <1>7 DEF Kept
    <3>2. CASE to # "old"
      BY <3>2, <2>2, <1>7 DEF MigrationInv, DiskInv, StageInv, Places
    <3> QED
      BY <3>1, <3>2
  <2> QED
    BY <2>1, <2>2, <1>3, SameMeaning DEF StageInv, Kept, Listed, Taken
<1>10. DiskInv'
  BY <1>3, <1>9, DataSame DEF MigrationInv, DiskInv
<1>11. ProcInv(p)'
  <2>1. pc'[p] = "convert" /\ plan'[p] = plan[p]
    BY <1>1, <1>3 DEF MigrationInv, TypeOK
  <2>2. PlanInv(plan[p])'
    BY <1>2, <1>3 DEF PlanInv, Gaps, CounterGaps, Current
  <2>3. StagedInv(plan[p])'
    BY <1>3, <1>5, <1>6, <1>7, SameMeaning DEF StagedInv, Listed, Taken
  <2> QED
    BY <1>1, <1>3, <2>1, <2>2, <2>3 DEF ProcInv, Working
<1>12. \A q \in Procs \ {p} : pc'[q] = pc[q] /\ plan'[q] = plan[q]
  BY <1>3 DEF MigrationInv, TypeOK
<1>13. pc[p] \in Working /\ Current' = Current
  BY <1>1, <1>3 DEF Working, Current
<1> QED
  BY <1>3, <1>8, <1>10, <1>11, <1>12, <1>13, InsideStep

LEMMA RemoveStageKeeps ==
  ASSUME MigrationInv, ~Overlap, NEW p \in Procs, RemoveStage(p)
  PROVE  MigrationInv'
<1>1. pc[p] = "clean" /\ plan[p] # Nil /\ plan[p].policy = "none"
  BY DEF RemoveStage, MigrationInv, ProcInv, Outside, Working
<1>2. plan[p].to \in Places
  BY <1>1, SourceData
<1>3. /\ ToRelease(p)
      /\ stage' = [stage EXCEPT ![plan[p].to] = Nil]
      /\ UNCHANGED <<layout, manifest, override, data, journals, touched, lock, used, late, crashes>>
  BY DEF RemoveStage
<1>4. TypeOK'
  BY <1>3, Leaving DEF MigrationInv, TypeOK
<1>5. \A place \in Places : stage'[place] # Nil => stage'[place] = stage[place]
  BY <1>2, <1>3 DEF MigrationInv, TypeOK
<1>6. StageInv'
  <2>1. \A place \in Places : stage'[place] # Nil => Loose(stage'[place])
    BY <1>5 DEF MigrationInv, DiskInv, StageInv
  <2>2. stage'["old"] # Nil => Kept(Listed(stage'["old"]), data["old"])
    BY <1>5 DEF MigrationInv, DiskInv, StageInv, Places
  <2> QED
    BY <2>1, <2>2, <1>3, SameMeaning DEF StageInv, Kept, Listed, Taken
<1>7. DiskInv'
  BY <1>3, <1>6, DataSame DEF MigrationInv, DiskInv
<1>8. ProcInv(p)' /\ \A q \in Procs \ {p} : pc'[q] = pc[q] /\ plan'[q] = plan[q]
  BY <1>3, Leaving DEF MigrationInv
<1>9. pc[p] \in Working /\ Current' = Current
  BY <1>1, <1>3 DEF Working, Current
<1> QED
  BY <1>3, <1>4, <1>7, <1>8, <1>9, InsideStep

LEMMA ConvertStageKeeps ==
  ASSUME MigrationInv, ~Overlap, NEW p \in Procs, ConvertStage(p)
  PROVE  MigrationInv'
<1> DEFINE to     == plan[p].to
           from   == plan[p].from
           staged == Converted(stage[to], Gaps)
<1>1. /\ pc[p] = "convert" /\ ProcInv(p) /\ plan[p] # Nil /\ plan[p].policy = "none"
      /\ plan[p].convert /\ plan[p].before = Nil /\ StagedInv(plan[p])
  BY DEF ConvertStage, MigrationInv, ProcInv, Outside, Working
<1>2. /\ from \in Places /\ to \in Places /\ plan[p] \in Plan /\ PlanInv(plan[p])
      /\ (from = "new" => Home = "new")
  BY <1>1, SourceData
<1>3. plan[p].domain = Gaps /\ layout.tree.schema = 3
  BY <1>1, <1>2 DEF PlanInv
<1>4. /\ pc' = [pc EXCEPT ![p] = "begin"]
      /\ stage' = [stage EXCEPT ![to] = staged]
      /\ UNCHANGED <<layout, manifest, override, data, journals, touched, lock, used, late, crashes>>
      /\ plan' = IF plan[p].moved THEN plan
                 ELSE [plan EXCEPT ![p].source = staged,
                                   ![p].before = IF from = to THEN data[to] ELSE Nil]
  BY <1>3 DEF ConvertStage, Goto
<1>5. stage[to] \in Tree /\ Loose(stage[to])
  BY <1>1, <1>2 DEF MigrationInv, TypeOK, DiskInv, StageInv, StagedInv
<1>6. /\ staged \in Tree /\ Sound(staged) /\ staged.schema = 4 /\ staged # Nil
      /\ Taken(staged) = Listed(stage[to]) \cup Gaps
  BY <1>3, <1>5, ConvertedIsSound, NilAssumption DEF MigrationInv
<1>7. Taken(staged) \subseteq used /\ Listed(staged) \subseteq Taken(staged)
  BY <1>6, SoundTaken DEF MigrationInv, DiskInv
<1> HIDE DEF staged
<1>8. stage'[to] = staged /\ \A place \in Places : place # to => stage'[place] = stage[place]
  BY <1>2, <1>4 DEF MigrationInv, TypeOK
<1>9. plan'[p] = IF plan[p].moved THEN plan[p]
                 ELSE [plan[p] EXCEPT !.source = staged,
                                      !.before = IF from = to THEN data[to] ELSE Nil]
  BY <1>4 DEF MigrationInv, TypeOK
<1>10. \A q \in Procs \ {p} : pc'[q] = pc[q] /\ plan'[q] = plan[q]
  BY <1>4 DEF MigrationInv, TypeOK
<1>11. /\ plan'[p] \in Plan /\ plan'[p] # Nil
       /\ plan'[p].from = from /\ plan'[p].to = to /\ plan'[p].convert = plan[p].convert
       /\ plan'[p].moved = plan[p].moved /\ plan'[p].domain = plan[p].domain
       /\ plan'[p].policy = plan[p].policy
       /\ plan'[p].before = IF plan[p].moved THEN plan[p].before
                            ELSE IF from = to THEN data[to] ELSE Nil
  <2>1. data[to] \in Tree \cup {Nil}
    BY <1>2 DEF MigrationInv, TypeOK
  <2>2. [plan[p] EXCEPT !.source = staged] \in Plan
    BY <1>2, <1>6 DEF Plan
  <2>3. \A planned \in Plan, tree \in Tree \cup {Nil} : [planned EXCEPT !.before = tree] \in Plan
    BY DEF Plan
  <2>4. [plan[p] EXCEPT !.source = staged, !.before = IF from = to THEN data[to] ELSE Nil] \in Plan
    BY <2>1, <2>2, <2>3
  <2>5. plan'[p] \in Plan
    BY <1>2, <1>9, <2>4
  <2> QED
    BY <1>2, <1>9, <2>5, NilAssumption DEF Plan
<1>12. TypeOK'
  <2>1. plan' \in [Procs -> Plan \cup {Nil}]
    <3>1. plan \in [Procs -> Plan \cup {Nil}]
      BY DEF MigrationInv, TypeOK
    <3>2. DOMAIN plan' = Procs /\ plan' = [q \in Procs |-> plan'[q]]
      BY <1>4, <3>1
    <3> QED
      BY <1>10, <1>11, <3>1, <3>2
  <2> QED
    BY <1>4, <1>6, <2>1 DEF MigrationInv, TypeOK, Labels, Working
<1>13. to = "old" => Kept(Taken(staged), data["old"])
  <2>1. ASSUME to = "old" PROVE Kept(Listed(stage[to]), data["old"]) /\ Gaps \subseteq Taken(data["old"])
    <3>1. Sound(data["old"]) /\ data["old"] \in Tree
      BY HomeData DEF MigrationInv, DiskInv, DataInv, Places
    <3>2. Gaps \subseteq Taken(data["old"])
      BY <3>1, SoundTaken DEF MigrationInv, DiskInv
    <3> QED
      BY <2>1, <3>2, <1>1 DEF MigrationInv, DiskInv, StageInv, StagedInv
  <2> QED
    BY <2>1, <1>6 DEF Kept
<1>14. StageInv'
  <2>1. ASSUME NEW place \in Places, stage'[place] # Nil PROVE Loose(stage'[place])
    BY <1>6, <1>8, <2>1 DEF MigrationInv, DiskInv, StageInv, Sound
  <2>2. ASSUME stage'["old"] # Nil PROVE Kept(Listed(stage'["old"]), data["old"])
    <3>1. CASE to = "old"
      BY <3>1, <1>7, <1>8, <1>13 DEF Kept
    <3>2. CASE to # "old"
      BY <3>2, <2>2, <1>8 DEF MigrationInv, DiskInv, StageInv, Places
    <3> QED
      BY <3>1, <3>2
  <2> QED
    BY <2>1, <2>2, <1>4, SameMeaning DEF StageInv, Kept, Listed, Taken
<1>15. DiskInv'
  BY <1>4, <1>14, DataSame DEF MigrationInv, DiskInv
<1>16. PlanInv(plan[p])'
  BY <1>2, <1>4, <1>11 DEF PlanInv, Gaps, CounterGaps, Current
<1>17. /\ Kept(Taken(data[from]), staged)
       /\ from = to => Kept(Taken(staged), data[to])
  <2>1. Kept(Taken(data[from]), staged)
    BY <1>1, <1>6 DEF StagedInv, Kept
  <2>2. ASSUME from = to, to = "new" PROVE Kept(Taken(staged), data[to])
    <3>1. Kept(used, data["new"])
      BY <1>2, <2>2 DEF MigrationInv, DiskInv, NumbersInv
    <3> QED
      BY <1>7, <2>2, <3>1 DEF Kept
  <2> QED
    BY <1>2, <1>13, <2>1, <2>2 DEF Places
<1>18. ProcInv(p)'
  <2>1. pc'[p] = "begin"
    BY <1>1, <1>4 DEF MigrationInv, TypeOK
  <2>2. ConvertedInv(plan[p])'
    <3>1. /\ stage'[plan'[p].to] = staged
          /\ data'[plan'[p].from] = data[from] /\ data'[plan'[p].to] = data[to]
          /\ layout' = layout /\ used' = used /\ late' = late
      BY <1>4, <1>8, <1>11
    <3>2. Sound(stage[plan[p].to])'
      BY <1>6, <3>1 DEF Sound, Loose, Retired, Gaps, CounterGaps
    <3>3. Kept(Taken(data[plan[p].from]), stage[plan[p].to])'
      BY <1>17, <3>1 DEF Kept, Taken
    <3>4. from = to => Kept(Taken(stage[plan[p].to]), data[plan[p].to])'
      BY <1>17, <3>1 DEF Kept, Taken
    <3> QED
      BY <1>6, <1>11, <3>1, <3>2, <3>3, <3>4 DEF ConvertedInv
  <2> QED
    BY <1>1, <1>11, <1>16, <2>1, <2>2 DEF ProcInv, Outside, Working
<1>19. pc[p] \in Working /\ Current' = Current
  BY <1>1, <1>4 DEF Working, Current
<1> QED
  BY <1>4, <1>10, <1>12, <1>15, <1>18, <1>19, InsideStep

-----------------------------------------------------------------------------
(* Steps of the journal *)

\* A journal that a step does not touch, while the data may change.
LEMMA JournalStays ==
  ASSUME NEW k \in DOMAIN journals, JournalInv(journals[k]), journals'[k] = journals[k],
         UNCHANGED <<layout, used, late>>, Current = "new" => Current' = "new",
         InPlace(journals[k]) => data'[journals[k].to] # Nil,
         journals[k].phase = "published" /\ journals[k].before = Nil =>
           Kept(used, data'["new"])
  PROVE  JournalInv(journals[k])'
<1>1. InPlace(journals[k])' = InPlace(journals[k]) /\ Pending(journals[k])' = Pending(journals[k])
  BY DEF InPlace, Pending
<1>2. /\ Sound(journals[k].image)' = Sound(journals[k].image)
      /\ Sound(journals[k].before)' = Sound(journals[k].before)
  BY DEF Sound, Loose, Retired, Gaps, CounterGaps
<1>3. /\ Kept(used, journals[k].image)' = Kept(used, journals[k].image)
      /\ Kept(Taken(journals[k].before), journals[k].image)'
           = Kept(Taken(journals[k].before), journals[k].image)
      /\ Kept(Taken(journals[k].image), journals[k].before)'
           = Kept(Taken(journals[k].image), journals[k].before)
  BY DEF Kept, Taken
<1>4. journals[k].phase = "published" /\ journals[k].before = Nil => Kept(used, data["new"])'
  BY DEF Kept, Taken
<1> QED
  BY <1>1, <1>2, <1>3, <1>4 DEF JournalInv

\* SetPhase changes the phase of one journal.
LEMMA PhaseSet ==
  ASSUME TypeOK, NEW j \in DOMAIN journals,
         NEW phase \in {"begun", "published", "complete", "undone"},
         journals' = [journals EXCEPT ![j].phase = phase]
  PROVE  /\ journals' \in Seq(Journal) /\ DOMAIN journals' = DOMAIN journals
         /\ journals[j] \in Journal
         /\ journals'[j].phase = phase
         /\ journals'[j].to = journals[j].to /\ journals'[j].local = journals[j].local
         /\ journals'[j].image = journals[j].image /\ journals'[j].before = journals[j].before
         /\ \A k \in DOMAIN journals : k # j => journals'[k] = journals[k]
<1>1. journals \in Seq(Journal)
  BY DEF TypeOK
<1>2. journals[j] \in Journal
  BY <1>1
<1>3. [journals[j] EXCEPT !.phase = phase] \in Journal
  BY <1>2 DEF Journal
<1>4. journals' = [journals EXCEPT ![j] = [journals[j] EXCEPT !.phase = phase]]
  BY <1>1
<1>5. journals' \in Seq(Journal) /\ DOMAIN journals' = DOMAIN journals
  BY <1>1, <1>3, <1>4
<1>6. journals'[j] = [journals[j] EXCEPT !.phase = phase]
  BY <1>1, <1>4
<1>7. \A k \in DOMAIN journals : k # j => journals'[k] = journals[k]
  BY <1>1, <1>4
<1> QED
  BY <1>2, <1>5, <1>6, <1>7 DEF Journal

\* The journal an invocation inside the lock works on.
LEMMA JournalFacts ==
  ASSUME MigrationInv, NEW j \in DOMAIN journals
  PROVE  /\ JournalInv(journals[j]) /\ journals[j] \in Journal
         /\ journals[j].to \in Places /\ journals[j].image \in Tree
         /\ journals[j].before \in Tree \cup {Nil} /\ journals[j].image # Nil
         /\ journals[j].phase \in {"begun", "published", "complete", "undone"}
<1>1. journals \in Seq(Journal)
  BY DEF MigrationInv, TypeOK
<1>2. journals[j] \in Journal
  BY <1>1
<1> QED
  BY <1>2, NilAssumption DEF MigrationInv, DiskInv, JournalsInv, Journal

LEMMA BeginKeeps ==
  ASSUME MigrationInv, ~Overlap, NEW p \in Procs, Begin(p)
  PROVE  MigrationInv'
<1> DEFINE to   == plan[p].to
           from == plan[p].from
           image == ToCopy(p)
           new == [phase |-> "begun", to |-> to, local |-> plan[p].moved,
                   image |-> image, before |-> plan[p].before]
           last == Len(journals) + 1
<1>1. /\ pc[p] = "begin" /\ ProcInv(p) /\ plan[p] # Nil /\ plan[p].policy = "none"
      /\ ConvertedInv(plan[p]) /\ pc[p] \in Working
      /\ from # to => plan[p].before = Nil
  BY DEF Begin, MigrationInv, ProcInv, Outside, Working
<1>2. /\ from \in Places /\ to \in Places /\ plan[p] \in Plan /\ PlanInv(plan[p])
      /\ data[from] \in Tree /\ data[from] # Nil /\ Sound(data[from])
      /\ (to = "old" => from = "old") /\ (from = "new" => Home = "new")
  BY <1>1, SourceData
<1>3. CASE Fail(p)
  BY <1>3, FailKeeps
<1>4. CASE ToCopy(p) = plan[p].source /\ data[to] = plan[p].before
           /\ journals' = Append(journals, new)
           /\ plan' = [plan EXCEPT ![p].journal = last]
           /\ Goto(p, "publish")
           /\ UNCHANGED <<layout, manifest, override, data, stage, touched, lock, used, late, crashes>>
  <2>1. image \in Tree /\ Sound(image)
    BY <1>1, <1>2 DEF ToCopy, ConvertedInv, MigrationInv, TypeOK
  <2>2. new \in Journal
    <3>1. plan[p].moved \in BOOLEAN /\ plan[p].before \in Tree \cup {Nil}
      BY <1>2 DEF Plan
    <3> QED
      BY <1>2, <2>1, <3>1 DEF Journal
  <2>3. /\ journals \in Seq(Journal) /\ last \in Nat
        /\ journals' \in Seq(Journal) /\ DOMAIN journals' = DOMAIN journals \cup {last}
        /\ journals'[last] = new /\ last \notin DOMAIN journals
        /\ \A k \in DOMAIN journals : journals'[k] = journals[k]
    <3>1. journals \in Seq(Journal)
      BY DEF MigrationInv, TypeOK
    <3> HIDE DEF new
    <3> QED
      BY <1>4, <2>2, <3>1
  <2>4. /\ plan'[p] = [plan[p] EXCEPT !.journal = last] /\ pc'[p] = "publish"
        /\ \A q \in Procs \ {p} : pc'[q] = pc[q] /\ plan'[q] = plan[q]
    BY <1>4 DEF Goto, MigrationInv, TypeOK
  <2>5. /\ plan'[p] \in Plan /\ plan'[p] # Nil /\ plan'[p].from = from /\ plan'[p].to = to
        /\ plan'[p].convert = plan[p].convert /\ plan'[p].moved = plan[p].moved
        /\ plan'[p].domain = plan[p].domain /\ plan'[p].policy = "none"
        /\ plan'[p].journal = last /\ plan'[p].before = plan[p].before
    <3>1. \A planned \in Plan, n \in Nat : [planned EXCEPT !.journal = n] \in Plan
      BY DEF Plan
    <3>2. plan'[p] \in Plan
      BY <1>2, <2>3, <2>4, <3>1
    <3> QED
      BY <1>1, <1>2, <2>3, <2>4, <3>2, NilAssumption DEF Plan
  <2>6. TypeOK'
    <3>1. plan' \in [Procs -> Plan \cup {Nil}]
      BY <1>4, <2>5 DEF MigrationInv, TypeOK
    <3> QED
      BY <1>4, <2>3, <3>1 DEF MigrationInv, TypeOK, Goto, Labels, Working
  <2>7. ASSUME plan[p].before = Nil
        PROVE  /\ to = "new" /\ plan[p].moved = layout.canonical
               /\ ~layout.canonical => image.schema = 4
               /\ Kept(used, image)
    <3>1. from # to
      BY <1>2, <1>4, <2>7
    <3>2. from = "old" /\ to = "new"
      BY <1>2, <3>1 DEF Places
    <3>3. plan[p].moved \in BOOLEAN /\ layout.canonical \in BOOLEAN
      BY <1>2, FoundFacts DEF Plan, MigrationInv
    <3>4. plan[p].moved = layout.canonical
      BY <1>2, <3>1, <3>3 DEF PlanInv
    <3>5. ~layout.canonical => image.schema = 4
      BY <1>1, <3>4 DEF ConvertedInv, ToCopy
    <3>6. Home = "old"
      <4>1. data["new"] = Nil
        BY <1>4, <2>7, <3>2
      <4> QED
        BY <4>1, HomeData DEF Places
    <3>7. Kept(used, data["old"])
      BY <3>6 DEF MigrationInv, DiskInv, NumbersInv
    <3>8. ~plan[p].moved => Kept(Taken(data["old"]), image)
      BY <1>1, <3>2 DEF ConvertedInv, ToCopy
    <3>9. plan[p].moved => image = data["old"]
      BY <3>2 DEF ToCopy
    <3> QED
      BY <3>2, <3>4, <3>5, <3>7, <3>8, <3>9 DEF Kept
  <2>8. ASSUME plan[p].before # Nil
        PROVE  /\ layout.canonical /\ ~plan[p].moved
               /\ to = "new" => Current = "new"
               /\ Sound(plan[p].before) /\ image.schema = 4
               /\ to = "old" /\ plan[p].before.schema = 3 => plan[p].before.receipts = {}
               /\ Kept(Taken(plan[p].before), image) /\ Kept(Taken(image), plan[p].before)
    <3>1. from = to /\ ~plan[p].moved
      BY <1>1, <1>2, <2>8 DEF PlanInv
    <3>2. plan[p].before = data[from] /\ image = stage[to]
      BY <1>4, <3>1 DEF ToCopy
    <3> QED
      BY <1>1, <1>2, <3>1, <3>2 DEF PlanInv, ConvertedInv, MigrationInv, DiskInv, DataInv
  <2>9. ASSUME NEW j \in DOMAIN journals' PROVE JournalInv(journals[j])'
    <3>1. CASE j \in DOMAIN journals
      <4>1. JournalInv(journals[j]) /\ journals'[j] = journals[j]
        BY <2>3, <3>1, JournalFacts
      <4>2. Current' = Current /\ Kept(used, data["new"]) = Kept(used, data'["new"])
        BY <1>4 DEF Current
      <4> QED
        BY <1>4, <3>1, <4>1, <4>2, JournalStays DEF JournalInv
    <3>2. CASE j = last
      <4>1. /\ journals'[j].phase = "begun" /\ journals'[j].to = to
            /\ journals'[j].local = plan[p].moved /\ journals'[j].image = image
            /\ journals'[j].before = plan[p].before
        BY <2>3, <3>2
      <4>2. Sound(journals[j].image)'
        BY <1>4, <2>1, <4>1 DEF Sound, Loose, Retired, Gaps, CounterGaps
      <4>3. plan[p].before = Nil => Kept(used, journals[j].image)'
        BY <1>4, <2>7, <4>1 DEF Kept, Taken
      <4>4. plan[p].before # Nil =>
              /\ Sound(journals[j].before)'
              /\ Kept(Taken(journals[j].before), journals[j].image)'
              /\ Kept(Taken(journals[j].image), journals[j].before)'
        <5>1. plan[p].before # Nil => Sound(journals[j].before)'
          BY <1>4, <2>8, <4>1 DEF Sound, Loose, Retired, Gaps, CounterGaps
        <5>2. plan[p].before # Nil =>
                /\ Kept(Taken(journals[j].before), journals[j].image)'
                /\ Kept(Taken(journals[j].image), journals[j].before)'
          BY <1>4, <2>8, <4>1 DEF Kept, Taken
        <5> QED
          BY <5>1, <5>2
      <4>5. Current' = Current /\ layout' = layout
        BY <1>4 DEF Current
      <4> HIDE DEF new, image, to
      <4> QED
        BY <2>7, <2>8, <4>1, <4>2, <4>3, <4>4, <4>5 DEF JournalInv, Pending, InPlace
    <3> QED
      BY <2>3, <3>1, <3>2
  <2>10. JournalsInv'
    <3>1. ASSUME NEW j \in DOMAIN journals', InPlace(journals[j])'
          PROVE  j \in DOMAIN journals /\ journals'[j] = journals[j]
      BY <2>3, <3>1 DEF InPlace
    <3> QED
      BY <2>9, <3>1 DEF JournalsInv, InPlace, MigrationInv, DiskInv
  <2>11. PlacesInv'
    BY <1>4, <2>3 DEF PlacesInv, Current, MigrationInv, DiskInv
  <2>12. NumbersInv' /\ DataInv' /\ StageInv'
    BY <1>4 DEF NumbersInv, DataInv, StageInv, Home, Current, Canonical, Found, Kept, Taken,
       Listed, Sound, Loose, Retired, Gaps, CounterGaps, MigrationInv, DiskInv
  <2>13. ProcInv(p)'
    <3>1. PlanInv(plan[p])'
      BY <1>2, <1>4, <2>5 DEF PlanInv, Gaps, CounterGaps, Current
    <3> QED
      BY <2>3, <2>4, <2>5, <3>1 DEF ProcInv, Outside, Working
  <2>14. Current' = Current /\ layout' = layout
    BY <1>4 DEF Current
  <2>15. DOMAIN journals \subseteq DOMAIN journals' /\ DiskInv'
    BY <2>3, <2>10, <2>11, <2>12 DEF DiskInv
  <2> QED
    BY <1>1, <2>4, <2>6, <2>13, <2>14, <2>15, InsideStep
<1> QED
  BY <1>3, <1>4 DEF Begin

-----------------------------------------------------------------------------
(* Steps that change data *)

\* A directory is replaced by one that has all that was taken in it.
LEMMA Replaced ==
  ASSUME MigrationInv, NEW to \in Places, NEW tree \in Tree, data' = [data EXCEPT ![to] = tree],
         UNCHANGED <<layout, manifest, override, stage, used, late>>,
         Sound(tree), data[to] # Nil => Kept(Taken(data[to]), tree),
         to = "old" => layout.canonical /\ (tree.schema = 3 => tree.receipts = {}),
         ~layout.canonical => tree.schema = 4
  PROVE  /\ NumbersInv' /\ DataInv' /\ StageInv'
         /\ data' \in [Places -> Tree \cup {Nil}] /\ data'[to] = tree /\ tree # Nil
         /\ \A place \in Places : place # to => data'[place] = data[place]
<1>1. data \in [Places -> Tree \cup {Nil}] /\ "old" \in Places /\ "new" \in Places
  BY DEF MigrationInv, TypeOK, Places
<1>2. /\ data' \in [Places -> Tree \cup {Nil}] /\ data'[to] = tree /\ tree # Nil
      /\ \A place \in Places : place # to => data'[place] = data[place]
  BY <1>1, NilAssumption
<1>3. NumbersInv'
  <2>1. Home' = Home /\ Home \in Places /\ data[Home] # Nil
    BY HomeData DEF Home, Current, Canonical
  <2>2. Kept(used, data[Home])
    BY DEF MigrationInv, DiskInv, NumbersInv
  <2>3. Kept(used, data'[Home])
    BY <1>2, <2>1, <2>2 DEF Kept
  <2>4. Kept(used, data[Home])'
    BY <2>1, <2>3 DEF Kept, Taken
  <2> QED
    BY <2>4, SameMeaning DEF MigrationInv, DiskInv, NumbersInv
<1>4. DataInv'
  <2>1. data'["old"] # Nil /\ (data'["old"].schema = 3 => data'["old"].receipts = {})
    BY <1>1, <1>2 DEF MigrationInv, DiskInv, DataInv
  <2>2. ~layout.canonical => /\ data'["old"] = layout.tree
                             /\ data'["new"] # Nil => data'["new"].schema = 4
    BY <1>1, <1>2 DEF MigrationInv, DiskInv, DataInv
  <2>3. ASSUME NEW place \in Places, data'[place] # Nil PROVE Sound(data'[place])
    BY <1>2, <2>3 DEF MigrationInv, DiskInv, DataInv
  <2>4. ASSUME NEW place \in Places, data'[place] # Nil PROVE Sound(data[place])'
    BY <2>3, <2>4 DEF Sound, Loose, Retired, Gaps, CounterGaps
  <2> QED
    BY <2>1, <2>2, <2>4 DEF DataInv
<1>5. StageInv'
  <2>1. stage["old"] # Nil => Kept(Listed(stage["old"]), data'["old"])
    BY <1>1, <1>2 DEF MigrationInv, DiskInv, StageInv, DataInv, Kept
  <2>2. stage'["old"] # Nil => Kept(Listed(stage["old"]), data["old"])'
    BY <2>1 DEF Kept, Listed, Taken
  <2>3. ASSUME NEW place \in Places, stage'[place] # Nil PROVE Loose(stage[place])'
    BY <2>3 DEF MigrationInv, DiskInv, StageInv, Loose, Retired, Gaps, CounterGaps
  <2> QED
    BY <2>2, <2>3 DEF StageInv
<1> QED
  BY <1>2, <1>3, <1>4, <1>5

\* The journal of a step that has the phase it needs.
LEMMA JournalPhase ==
  ASSUME MigrationInv, NEW p \in Procs, pc[p] \in {"publish", "configure", "receipt"}
  PROVE  /\ plan[p] # Nil /\ plan[p] \in Plan /\ plan[p].journal \in DOMAIN journals
         /\ ProcInv(p) /\ pc[p] \in Working
         /\ JournalOf(p).phase = CASE pc[p] = "publish"   -> "begun"
                                   [] pc[p] = "configure" -> "published"
                                   [] pc[p] = "receipt"   -> "complete"
<1>1. ProcInv(p)
  BY DEF MigrationInv
<1>2. pc[p] \in Working /\ pc[p] \notin {"idle", "release"}
  BY DEF Working
<1>3. plan[p] # Nil
  BY <1>1, <1>2 DEF ProcInv
<1> QED
  BY <1>1, <1>2, <1>3 DEF ProcInv, JournalOf, MigrationInv, TypeOK

LEMMA PublishKeeps ==
  ASSUME MigrationInv, ~Overlap, NEW p \in Procs, Publish(p)
  PROVE  MigrationInv'
<1> DEFINE j     == plan[p].journal
           to    == journals[j].to
           image == journals[j].image
<1>1. /\ pc[p] = "publish" /\ plan[p] # Nil /\ plan[p] \in Plan /\ j \in DOMAIN journals
      /\ ProcInv(p) /\ pc[p] \in Working /\ journals[j].phase = "begun"
  BY JournalPhase DEF Publish, JournalOf
<1>2. /\ JournalInv(journals[j]) /\ to \in Places /\ image \in Tree
  BY <1>1, JournalFacts
<1>3. CASE Fail(p)
  BY <1>3, FailKeeps
<1>4. CASE /\ data[to] = journals[j].before
           /\ data' = [data EXCEPT ![to] = image]
           /\ SetPhase(p, "published")
           /\ Goto(p, "configure")
           /\ UNCHANGED <<layout, manifest, override, stage, touched, lock, plan, used, late, crashes>>
  <2>1. /\ journals' \in Seq(Journal) /\ DOMAIN journals' = DOMAIN journals
        /\ journals'[j].phase = "published" /\ journals'[j].to = to
        /\ journals'[j].local = journals[j].local
        /\ journals'[j].image = image /\ journals'[j].before = journals[j].before
        /\ \A k \in DOMAIN journals : k # j => journals'[k] = journals[k]
    BY <1>1, <1>4, PhaseSet DEF SetPhase, MigrationInv
  <2>2. /\ Sound(image)
        /\ data[to] # Nil => Kept(Taken(data[to]), image) /\ layout.canonical /\ image.schema = 4
        /\ data[to] = Nil => /\ to = "new" /\ Kept(used, image)
                             /\ ~layout.canonical => image.schema = 4
    BY <1>1, <1>2, <1>4 DEF JournalInv, Pending
  <2>3. to = "old" => data[to] # Nil
    BY HomeData
  <2>4. /\ NumbersInv' /\ DataInv' /\ StageInv'
        /\ data' \in [Places -> Tree \cup {Nil}] /\ data'[to] = image /\ image # Nil
        /\ \A place \in Places : place # to => data'[place] = data[place]
    <3>1. /\ data' = [data EXCEPT ![to] = image]
          /\ UNCHANGED <<layout, manifest, override, stage, used, late>>
      BY <1>4
    <3>2. data[to] # Nil => Kept(Taken(data[to]), image)
      BY <2>2
    <3>3. /\ to = "old" => layout.canonical /\ (image.schema = 3 => image.receipts = {})
          /\ ~layout.canonical => image.schema = 4
      BY <2>2, <2>3
    <3> HIDE DEF to, image
    <3> QED
      BY <1>2, <2>2, <3>1, <3>2, <3>3, Replaced
  <2>5. TypeOK'
    BY <1>4, <2>1, <2>4 DEF MigrationInv, TypeOK, Goto, Labels, Working
  <2>6. Current' = Current /\ "new" \in Places
    BY <1>4 DEF Current, Places
  <2>7. PlacesInv'
    <3>1. \A k \in DOMAIN journals : journals[k].phase = "complete" => journals'[k] = journals[k]
      BY <1>1, <2>1
    <3> QED
      BY <1>4, <2>1, <2>6, <3>1 DEF MigrationInv, DiskInv, PlacesInv
  <2>8. ASSUME NEW k \in DOMAIN journals, k # j, journals[k].before = Nil, InPlace(journals[k])
        PROVE  data[to] # Nil
    <3>1. JournalInv(journals[k])
      BY JournalFacts
    <3>2. data["new"] # Nil
      BY <2>8, <3>1 DEF JournalInv
    <3> QED
      BY <3>2, <2>2
  <2>9. ASSUME NEW k \in DOMAIN journals, k # j PROVE JournalInv(journals[k])'
    <3>1. JournalInv(journals[k]) /\ journals'[k] = journals[k] /\ journals[k].to \in Places
      BY <2>1, <2>9, JournalFacts
    <3>2. InPlace(journals[k]) => data'[journals[k].to] # Nil
      BY <2>4, <3>1 DEF JournalInv
    <3>3. ASSUME journals[k].phase = "published", journals[k].before = Nil
          PROVE  Kept(used, data'["new"])
      <4>1. Kept(used, data["new"])
        BY <3>1, <3>3 DEF JournalInv
      <4>2. to = "new" => data[to] # Nil
        BY <2>8, <2>9, <3>3 DEF InPlace
      <4> QED
        BY <2>2, <2>4, <2>6, <4>1, <4>2 DEF Kept
    <3>4. Current = "new" => Current' = "new"
      BY <2>6
    <3> QED
      BY <1>4, <3>1, <3>2, <3>3, <3>4, JournalStays
  <2>10. JournalInv(journals[j])'
    <3>1. Sound(journals[j].image)'
      BY <1>4, <2>1, <2>2 DEF Sound, Loose, Retired, Gaps, CounterGaps
    <3>2. data'[journals'[j].to] # Nil
      BY <2>1, <2>4
    <3>3. ASSUME journals[j].before = Nil
          PROVE  /\ to = "new" /\ journals[j].local = layout.canonical
                 /\ ~layout.canonical => image.schema = 4
                 /\ Kept(used, journals[j].image)' /\ Kept(used, data["new"])'
      <4>1. to = "new" /\ Kept(used, image) /\ journals[j].local = layout.canonical
        BY <1>2, <1>4, <2>2, <3>3 DEF JournalInv
      <4>2. data'["new"] = image
        BY <2>4, <4>1
      <4> QED
        BY <1>4, <2>1, <2>2, <3>3, <4>1, <4>2 DEF Kept, Taken
    <3>4. ASSUME journals[j].before # Nil
          PROVE  /\ layout.canonical /\ ~journals[j].local
                 /\ to = "new" => Current' = "new"
                 /\ Sound(journals[j].before)' /\ image.schema = 4
                 /\ to = "old" /\ journals[j].before.schema = 3 =>
                      journals[j].before.receipts = {}
                 /\ Kept(Taken(journals[j].before), journals[j].image)'
                 /\ Kept(Taken(journals[j].image), journals[j].before)'
      <4>1. /\ layout.canonical /\ ~journals[j].local
            /\ to = "new" => Current = "new"
            /\ Sound(journals[j].before) /\ image.schema = 4
            /\ to = "old" /\ journals[j].before.schema = 3 => journals[j].before.receipts = {}
            /\ Kept(Taken(journals[j].before), image) /\ Kept(Taken(image), journals[j].before)
        BY <1>1, <1>2, <3>4 DEF JournalInv, Pending
      <4>2. Sound(journals[j].before)'
        BY <1>4, <2>1, <4>1 DEF Sound, Loose, Retired, Gaps, CounterGaps
      <4>3. /\ Kept(Taken(journals[j].before), journals[j].image)'
            /\ Kept(Taken(journals[j].image), journals[j].before)'
        BY <1>4, <2>1, <4>1 DEF Kept, Taken
      <4> QED
        BY <2>6, <4>1, <4>2, <4>3
    <3>5. j' = j /\ layout' = layout
      BY <1>4
    <3> QED
      BY <2>1, <3>1, <3>2, <3>3, <3>4, <3>5 DEF JournalInv, Pending, InPlace
  <2>11. JournalsInv'
    <3>1. \A k \in DOMAIN journals' : JournalInv(journals[k])'
      <4>1. ASSUME NEW k \in DOMAIN journals' PROVE JournalInv(journals[k])'
        <5>1. CASE k = j
          BY <5>1, <1>4, <2>10
        <5>2. CASE k # j
          BY <5>2, <2>1, <2>9
        <5> QED
          BY <5>1, <5>2
      <4> QED
        BY <4>1
    <3>2. ASSUME NEW k \in DOMAIN journals', NEW l \in DOMAIN journals',
                 journals'[k].before = Nil, InPlace(journals[k])',
                 journals'[l].before = Nil, InPlace(journals[l])'
          PROVE  k = l
      <4>1. \A i \in DOMAIN journals : i # j /\ InPlace(journals[i])' =>
               InPlace(journals[i]) /\ journals[i].before = journals'[i].before
        BY <2>1 DEF InPlace
      <4>2. journals'[j].before = Nil =>
              \A i \in DOMAIN journals : i # j /\ journals'[i].before = Nil => ~InPlace(journals[i])'
        BY <1>4, <2>1, <2>8, <4>1
      <4>3. k = j \/ l = j => k = l
        BY <2>1, <3>2, <4>2
      <4>4. k # j /\ l # j => k = l
        BY <2>1, <3>2, <4>1 DEF MigrationInv, DiskInv, JournalsInv
      <4> QED
        BY <4>3, <4>4
    <3> QED
      BY <3>1, <3>2 DEF JournalsInv
  <2>12. ProcInv(p)'
    <3>1. pc'[p] = "configure" /\ plan' = plan /\ plan'[p] = plan[p]
      BY <1>1, <1>4 DEF Goto, MigrationInv, TypeOK
    <3>2. PlanInv(plan[p])' = PlanInv(plan[p])
      BY <1>4, <2>6 DEF PlanInv, Gaps, CounterGaps
    <3>3. to = "old" => data'["old"].schema = 4
      BY <2>2, <2>3, <2>4
    <3> QED
      BY <1>1, <2>1, <3>1, <3>2, <3>3 DEF ProcInv, Outside, Working
  <2>13. DiskInv'
    BY <2>4, <2>7, <2>11 DEF DiskInv
  <2>14. \A q \in Procs \ {p} : pc'[q] = pc[q] /\ plan'[q] = plan[q]
    BY <1>4 DEF Goto, MigrationInv, TypeOK
  <2>15. /\ layout' = layout /\ DOMAIN journals \subseteq DOMAIN journals'
         /\ Current = "new" => Current' = "new"
    BY <1>4, <2>1, <2>6
  <2> QED
    BY <1>1, <2>5, <2>12, <2>13, <2>14, <2>15, InsideStep
<1> QED
  BY <1>3, <1>4 DEF Publish, JournalOf

LEMMA ConfigureKeeps ==
  ASSUME MigrationInv, ~Overlap, NEW p \in Procs, Configure(p)
  PROVE  MigrationInv'
<1> DEFINE j  == plan[p].journal
           to == journals[j].to
<1>1. /\ pc[p] = "configure" /\ plan[p] # Nil /\ plan[p] \in Plan /\ j \in DOMAIN journals
      /\ ProcInv(p) /\ pc[p] \in Working /\ journals[j].phase = "published"
  BY JournalPhase DEF Configure, JournalOf
<1>2. /\ JournalInv(journals[j]) /\ to \in Places
  BY <1>1, JournalFacts
<1>3. /\ IF journals[j].local THEN override' = to /\ manifest' = manifest
         ELSE manifest' = to /\ override' = override
      /\ SetPhase(p, "complete")
      /\ IF plan[p].policy = "none"
         THEN pc' = [pc EXCEPT ![p] = "receipt"] /\ plan' = plan
         ELSE ToRelease(p)
      /\ UNCHANGED <<layout, data, stage, touched, lock, used, late, crashes>>
  BY DEF Configure, JournalOf, Goto
<1>4. /\ journals' \in Seq(Journal) /\ DOMAIN journals' = DOMAIN journals
      /\ journals'[j].phase = "complete" /\ journals'[j].to = to
      /\ journals'[j].local = journals[j].local
      /\ journals'[j].image = journals[j].image /\ journals'[j].before = journals[j].before
      /\ \A k \in DOMAIN journals : k # j => journals'[k] = journals[k]
  BY <1>1, <1>3, PhaseSet DEF SetPhase, MigrationInv
<1>5. TypeOK'
  <2>1. manifest' \in Places \cup {Nil} /\ override' \in Places \cup {Nil}
    BY <1>2, <1>3 DEF MigrationInv, TypeOK
  <2>2. plan' \in [Procs -> Plan \cup {Nil}] /\ pc' \in [Procs -> Labels]
    BY <1>3, Leaving DEF MigrationInv, TypeOK, Labels, Working
  <2> QED
    BY <1>3, <1>4, <2>1, <2>2 DEF MigrationInv, TypeOK
<1>6. layout.canonical \in BOOLEAN /\ manifest \in Places \cup {Nil} /\ "new" # Nil /\ "old" # Nil
  BY FoundFacts, NilAssumption DEF MigrationInv, TypeOK, Places
<1>7. PlacesInv /\ NumbersInv /\ Home \in Places
  BY HomeData DEF MigrationInv, DiskInv
<1>10. PlacesInv' /\ (Current = "new" => Current' = "new") /\ Kept(used, data[Home'])
  <2>1. CASE journals[j].before = Nil
    <3>1. to = "new" /\ journals[j].local = layout.canonical /\ Kept(used, data["new"])
      BY <1>1, <1>2, <2>1 DEF JournalInv
    <3>2. /\ Current' = "new" /\ Home' = "new"
          /\ ~layout.canonical => override' = Nil /\ manifest' = "new"
          /\ layout.canonical => manifest' # Nil /\ override' = "new"
      BY <1>3, <1>6, <1>7, <3>1 DEF PlacesInv, Current, Home, Canonical
    <3>3. PlacesInv'
      BY <1>1, <1>3, <1>4, <1>6, <2>1, <3>2 DEF PlacesInv
    <3> QED
      BY <3>1, <3>2, <3>3
  <2>2. CASE journals[j].before # Nil
    <3>1. layout.canonical /\ ~journals[j].local /\ (to = "new" => Current = "new")
      BY <1>2, <2>2 DEF JournalInv
    <3>2. /\ Current' = Current /\ Home' = Home
          /\ manifest' # Nil /\ override' \in {Nil, "new"}
          /\ override' = Nil => manifest' = "old"
      BY <1>2, <1>3, <1>6, <1>7, <3>1 DEF PlacesInv, Current, Home, Canonical, Places
    <3>3. \A k \in DOMAIN journals : journals[k].phase = "complete" => journals'[k] = journals[k]
      BY <1>1, <1>4
    <3>4. PlacesInv'
      BY <1>3, <1>4, <1>7, <3>1, <3>2, <3>3 DEF PlacesInv
    <3> QED
      BY <1>7, <3>2, <3>4 DEF NumbersInv
  <2> QED
    BY <2>1, <2>2
<1>11. NumbersInv' /\ DataInv' /\ StageInv'
  <2>1. Kept(used, data[Home])'
    BY <1>3, <1>10 DEF Kept, Taken
  <2>2. NumbersInv'
    BY <1>3, <1>7, <2>1, SameMeaning DEF NumbersInv
  <2>3. DataInv'
    BY <1>3 DEF MigrationInv, DiskInv, DataInv, Sound, Loose, Retired, Gaps, CounterGaps
  <2>4. StageInv'
    BY <1>3 DEF MigrationInv, DiskInv, StageInv, Loose, Retired, Gaps, CounterGaps, Kept,
      Listed, Taken
  <2> QED
    BY <2>2, <2>3, <2>4
<1>12. ASSUME NEW k \in DOMAIN journals', k # j PROVE JournalInv(journals[k])'
  <2>1. JournalInv(journals[k]) /\ journals'[k] = journals[k]
    BY <1>4, <1>12, JournalFacts
  <2>2. /\ InPlace(journals[k]) => data'[journals[k].to] # Nil
        /\ journals[k].phase = "published" /\ journals[k].before = Nil =>
             Kept(used, data'["new"])
    BY <1>3, <2>1 DEF JournalInv
  <2> QED
    BY <1>3, <1>4, <1>10, <2>1, <2>2, JournalStays
<1>13. ASSUME NEW k \in DOMAIN journals', k = j PROVE JournalInv(journals[k])'
  <2>1. /\ journals'[k].phase = "complete" /\ journals'[k].to = to
        /\ journals'[k].local = journals[j].local
        /\ journals'[k].image = journals[j].image /\ journals'[k].before = journals[j].before
    BY <1>4, <1>13
  <2>2. Sound(journals[k].image)'
    BY <1>2, <1>3, <2>1 DEF JournalInv, Sound, Loose, Retired, Gaps, CounterGaps
  <2>3. journals[j].before # Nil => Sound(journals[k].before)'
    BY <1>2, <1>3, <2>1 DEF JournalInv, Sound, Loose, Retired, Gaps, CounterGaps
  <2>4. data'[to] # Nil
    BY <1>1, <1>2, <1>3 DEF JournalInv, InPlace
  <2>5. ~Pending(journals[k])' /\ journals'[k].phase # "published"
    BY <2>1 DEF Pending
  <2> QED
    BY <1>2, <1>3, <1>10, <2>1, <2>2, <2>3, <2>4, <2>5 DEF JournalInv
<1>14. JournalsInv'
  <2>1. \A k \in DOMAIN journals' : JournalInv(journals[k])'
    BY <1>12, <1>13
  <2>2. \A k \in DOMAIN journals : /\ InPlace(journals[k])' = InPlace(journals[k])
                                   /\ journals'[k].before = journals[k].before
    BY <1>1, <1>4 DEF InPlace
  <2> QED
    BY <1>4, <2>1, <2>2 DEF JournalsInv, MigrationInv, DiskInv
<1>15. ProcInv(p)'
  <2>1. CASE plan[p].policy # "none"
    BY <1>3, <2>1, Leaving DEF MigrationInv
  <2>2. CASE plan[p].policy = "none"
    <3>1. pc'[p] = "receipt" /\ plan'[p] = plan[p]
      BY <1>3, <2>2 DEF MigrationInv, TypeOK
    <3>2. PlanInv(plan[p])'
      BY <1>1, <1>3, <1>10, <2>2, <3>1 DEF ProcInv, PlanInv, Gaps, CounterGaps
    <3>3. to = plan[p].to /\ (plan[p].to = "old" => data'["old"].schema = 4)
      BY <1>1, <1>3, <2>2 DEF ProcInv
    <3> QED
      BY <1>1, <1>4, <2>2, <3>1, <3>2, <3>3 DEF ProcInv, Outside
  <2> QED
    BY <2>1, <2>2
<1>16. \A q \in Procs \ {p} : pc'[q] = pc[q] /\ plan'[q] = plan[q]
  BY <1>3, Leaving DEF MigrationInv, TypeOK
<1>17. DiskInv' /\ layout' = layout /\ DOMAIN journals \subseteq DOMAIN journals'
  BY <1>3, <1>4, <1>10, <1>11, <1>14 DEF DiskInv
<1> QED
  BY <1>1, <1>5, <1>10, <1>15, <1>16, <1>17, InsideStep

LEMMA WriteReceiptKeeps ==
  ASSUME MigrationInv, ~Overlap, NEW p \in Procs, WriteReceipt(p)
  PROVE  MigrationInv'
<1> DEFINE j    == plan[p].journal
           to   == plan[p].to
           tree == [data[to] EXCEPT !.receipts = @ \cup {plan[p].domain}]
<1>1. /\ pc[p] = "receipt" /\ plan[p] # Nil /\ plan[p] \in Plan /\ j \in DOMAIN journals
      /\ ProcInv(p) /\ pc[p] \in Working /\ journals[j].phase = "complete"
      /\ plan[p].policy = "none"
  <2>1. pc[p] = "receipt"
    BY DEF WriteReceipt
  <2>2. /\ plan[p] # Nil /\ plan[p] \in Plan /\ j \in DOMAIN journals
        /\ ProcInv(p) /\ pc[p] \in Working /\ journals[j].phase = "complete"
    BY <2>1, JournalPhase DEF JournalOf
  <2>3. plan[p].policy = "none"
    BY <2>1, <2>2 DEF ProcInv, Outside
  <2> QED
    BY <2>1, <2>2, <2>3
<1>2. /\ to \in Places /\ PlanInv(plan[p]) /\ journals[j].to = to
      /\ to = "old" => data["old"].schema = 4
  BY <1>1, SourceData DEF ProcInv
<1>3. data[to] # Nil /\ data[to] \in Tree /\ Sound(data[to])
  <2>1. JournalInv(journals[j])
    BY <1>1, JournalFacts
  <2>2. data[to] # Nil
    BY <1>1, <1>2, <2>1 DEF JournalInv, InPlace
  <2> QED
    BY <1>2, <2>2 DEF MigrationInv, TypeOK, DiskInv, DataInv
<1>4. /\ data' = [data EXCEPT ![to] = tree]
      /\ IF plan[p].convert
         THEN pc' = [pc EXCEPT ![p] = "clean"] /\ plan' = plan
         ELSE ToRelease(p)
      /\ UNCHANGED <<layout, manifest, override, stage, journals, touched, lock, used, late, crashes>>
  BY DEF WriteReceipt, Goto
<1>5. plan[p].domain \subseteq Gaps /\ plan[p].domain \subseteq Numbers
  BY <1>2, FoundFacts DEF PlanInv, MigrationInv
<1>6. /\ tree \in Tree /\ tree.schema = data[to].schema /\ tree.counter = data[to].counter
      /\ tree.records = data[to].records /\ tree.tombs = data[to].tombs
      /\ tree.receipts = data[to].receipts \cup {plan[p].domain}
  <2>1. data[to].receipts \cup {plan[p].domain} \subseteq SUBSET Numbers
    BY <1>3, <1>5, TreeFields
  <2> QED
    BY <1>3, <2>1 DEF Tree
<1> HIDE DEF tree
<1>7. Sound(tree) /\ Kept(Taken(data[to]), tree)
  BY <1>3, <1>5, <1>6 DEF Sound, Loose, Kept, Taken
<1>8. /\ to = "old" => layout.canonical /\ (tree.schema = 3 => tree.receipts = {})
      /\ ~layout.canonical => tree.schema = 4
  <2>1. layout.canonical \/ to = "new"
    BY <1>2 DEF PlanInv, Places
  <2> QED
    BY <1>2, <1>3, <1>6, <2>1 DEF MigrationInv, DiskInv, DataInv, Places
<1>9. /\ NumbersInv' /\ DataInv' /\ StageInv'
      /\ data' \in [Places -> Tree \cup {Nil}] /\ data'[to] = tree /\ tree # Nil
      /\ \A place \in Places : place # to => data'[place] = data[place]
  <2>1. UNCHANGED <<layout, manifest, override, stage, used, late>>
    BY <1>4
  <2>2. data' = [data EXCEPT ![to] = tree]
    BY <1>4
  <2> HIDE DEF to
  <2> QED
    BY <1>2, <1>6, <1>7, <1>8, <2>1, <2>2, Replaced
<1>10. TypeOK'
  <2>1. plan' \in [Procs -> Plan \cup {Nil}] /\ pc' \in [Procs -> Labels]
    BY <1>4, Leaving DEF MigrationInv, TypeOK, Labels, Working
  <2> QED
    BY <1>4, <1>9, <2>1 DEF MigrationInv, TypeOK
<1>11. PlacesInv' /\ Current' = Current
  BY <1>4 DEF PlacesInv, Current, MigrationInv, DiskInv
<1>12. JournalsInv'
  <2>1. ASSUME NEW k \in DOMAIN journals PROVE JournalInv(journals[k])'
    <3>1. JournalInv(journals[k]) /\ journals[k].to \in Places
      BY JournalFacts
    <3>2. InPlace(journals[k]) => data'[journals[k].to] # Nil
      BY <1>9, <3>1 DEF JournalInv
    <3>3. Kept(used, data["new"]) => Kept(used, data'["new"])
      BY <1>7, <1>9 DEF Kept, Places
    <3> QED
      BY <1>4, <1>11, <3>1, <3>2, <3>3, JournalStays DEF JournalInv
  <2> QED
    BY <1>4, <2>1 DEF JournalsInv, InPlace, MigrationInv, DiskInv
<1>13. ProcInv(p)'
  <2>1. CASE plan[p].convert
    <3>1. pc'[p] = "clean" /\ plan'[p] = plan[p]
      BY <1>4, <2>1 DEF MigrationInv, TypeOK
    <3>2. PlanInv(plan[p])'
      BY <1>2, <1>4, <1>11, <2>1, <3>1 DEF PlanInv, Gaps, CounterGaps
    <3> QED
      BY <1>1, <2>1, <3>1, <3>2 DEF ProcInv, Outside
  <2>2. CASE ~plan[p].convert
    BY <1>4, <2>2, Leaving DEF MigrationInv
  <2> QED
    BY <2>1, <2>2
<1>14. \A q \in Procs \ {p} : pc'[q] = pc[q] /\ plan'[q] = plan[q]
  BY <1>4, Leaving DEF MigrationInv, TypeOK
<1>15. DiskInv' /\ layout' = layout /\ DOMAIN journals \subseteq DOMAIN journals'
  BY <1>4, <1>9, <1>11, <1>12 DEF DiskInv
<1> QED
  BY <1>1, <1>10, <1>11, <1>13, <1>14, <1>15, InsideStep

\* A journal that is undone promises nothing but what it holds.
LEMMA JournalUndone ==
  ASSUME NEW j \in DOMAIN journals, JournalInv(journals[j]),
         UNCHANGED <<layout, used, late>>, Current' = Current,
         journals'[j].phase = "undone", journals'[j].to = journals[j].to,
         journals'[j].local = journals[j].local,
         journals'[j].image = journals[j].image, journals'[j].before = journals[j].before
  PROVE  JournalInv(journals[j])'
<1>1. ~Pending(journals[j])' /\ ~InPlace(journals[j])' /\ journals'[j].phase # "published"
  BY DEF Pending, InPlace
<1>2. /\ Sound(journals[j].image)' = Sound(journals[j].image)
      /\ Sound(journals[j].before)' = Sound(journals[j].before)
  BY DEF Sound, Loose, Retired, Gaps, CounterGaps
<1> QED
  BY <1>1, <1>2 DEF JournalInv

LEMMA UndoKeeps ==
  ASSUME MigrationInv, ~Overlap, NEW p \in Procs, pc[p] = "recover", Undo(p)
  PROVE  MigrationInv'
<1> DEFINE j      == plan[p].journal
           to     == journals[j].to
           before == journals[j].before
<1>1. /\ ProcInv(p) /\ plan[p] # Nil /\ j \in DOMAIN journals /\ pc[p] \in Working
  BY DEF MigrationInv, ProcInv, Outside, Working
<1>2. /\ JournalInv(journals[j]) /\ to \in Places /\ before \in Tree \cup {Nil}
      /\ journals[j].phase \in {"begun", "published"}
      /\ journals[j].phase = "published" => data[to] = journals[j].image
      /\ journals[j].image # Nil
  BY <1>1, JournalFacts DEF Undo, Undoable, JournalOf
<1>3. /\ data' = IF journals[j].phase = "begun" THEN data ELSE [data EXCEPT ![to] = before]
      /\ SetPhase(p, "undone")
      /\ ToRelease(p)
      /\ UNCHANGED <<layout, manifest, override, stage, touched, lock, used, late, crashes>>
  BY DEF Undo, JournalOf
<1>4. /\ journals' \in Seq(Journal) /\ DOMAIN journals' = DOMAIN journals
      /\ journals'[j].phase = "undone" /\ journals'[j].to = to
      /\ journals'[j].local = journals[j].local
      /\ journals'[j].image = journals[j].image /\ journals'[j].before = before
      /\ \A k \in DOMAIN journals : k # j => journals'[k] = journals[k]
  BY <1>1, <1>3, PhaseSet DEF SetPhase, MigrationInv
<1>5. Current' = Current /\ Home' = Home /\ "new" \in Places /\ "old" \in Places
  BY <1>3 DEF Current, Home, Canonical, Places
<1>6. PlacesInv'
  <2>1. \A k \in DOMAIN journals : journals[k].phase = "complete" => journals'[k] = journals[k]
    BY <1>2, <1>4
  <2> QED
    BY <1>3, <1>4, <1>5, <2>1 DEF PlacesInv, MigrationInv, DiskInv
\* Nobody else relies on a copy that is taken back to nothing.
<1>7. ASSUME journals[j].phase = "published", before = Nil
      PROVE  /\ to = "new" /\ Current # "new" /\ Home = "old"
             /\ \A k \in DOMAIN journals : k # j =>
                  /\ InPlace(journals[k]) => journals[k].to = "old"
                  /\ ~(journals[k].phase = "published" /\ journals[k].before = Nil)
  <2>1. to = "new" /\ InPlace(journals[j])
    BY <1>2, <1>7 DEF JournalInv, InPlace
  <2>2. \A k \in DOMAIN journals : k # j => ~(journals[k].before = Nil /\ InPlace(journals[k]))
    BY <1>1, <1>7, <2>1 DEF MigrationInv, DiskInv, JournalsInv
  <2>3. Current # "new"
    BY <1>1, <1>7, <2>2 DEF MigrationInv, DiskInv, PlacesInv, InPlace
  <2>4. Home = "old"
    BY <2>3, HomeData DEF Home, Places
  <2>5. ASSUME NEW k \in DOMAIN journals, k # j, InPlace(journals[k]) PROVE journals[k].to = "old"
    BY <2>2, <2>3, <2>5, JournalFacts DEF JournalInv, Places
  <2> QED
    BY <2>1, <2>2, <2>3, <2>4, <2>5 DEF InPlace
<1>8. ASSUME journals[j].phase = "published", before # Nil
      PROVE  /\ layout.canonical /\ Sound(before) /\ Kept(Taken(data[to]), before)
             /\ to = "old" /\ before.schema = 3 => before.receipts = {}
  BY <1>2, <1>8 DEF JournalInv, Pending
<1>9. /\ NumbersInv' /\ DataInv' /\ StageInv' /\ data' \in [Places -> Tree \cup {Nil}]
      /\ \A k \in DOMAIN journals : k # j =>
           /\ InPlace(journals[k]) => data'[journals[k].to] # Nil
           /\ journals[k].phase = "published" /\ journals[k].before = Nil =>
                Kept(used, data'["new"])
  <2>1. ASSUME NEW k \in DOMAIN journals
        PROVE  /\ journals[k].to \in Places
               /\ InPlace(journals[k]) => data[journals[k].to] # Nil
               /\ journals[k].phase = "published" /\ journals[k].before = Nil =>
                    Kept(used, data["new"])
    BY JournalFacts DEF JournalInv
  <2>2. CASE journals[j].phase = "begun"
    <3>1. data' = data
      BY <1>3, <2>2
    <3>2. NumbersInv' /\ DataInv' /\ StageInv'
      <4>1. NumbersInv'
        BY <1>3, <1>5, <3>1 DEF NumbersInv, Found, Kept, Taken, MigrationInv, DiskInv
      <4>2. DataInv'
        BY <1>3, <3>1 DEF DataInv, Sound, Loose, Retired, Gaps, CounterGaps, MigrationInv, DiskInv
      <4>3. StageInv'
        BY <1>3, <3>1 DEF StageInv, Kept, Taken, Listed, Loose, Retired, Gaps, CounterGaps,
          MigrationInv, DiskInv
      <4> QED
        BY <4>1, <4>2, <4>3
    <3> QED
      BY <2>1, <3>1, <3>2 DEF MigrationInv, TypeOK
  <2>3. CASE journals[j].phase = "published" /\ before = Nil
    <3>1. /\ data' \in [Places -> Tree \cup {Nil}] /\ data'["new"] = Nil
          /\ data'["old"] = data["old"]
      BY <1>3, <1>7, <2>3 DEF MigrationInv, TypeOK, Places
    <3>2. NumbersInv'
      BY <1>3, <1>5, <1>7, <2>3, <3>1 DEF NumbersInv, Found, Kept, Taken, MigrationInv, DiskInv
    <3>3. DataInv'
      <4>1. ASSUME NEW place \in Places, data'[place] # Nil PROVE Sound(data[place])'
        <5>1. data'[place] = data[place] /\ Sound(data[place])
          BY <3>1, <4>1 DEF MigrationInv, DiskInv, DataInv, Places
        <5> QED
          BY <1>3, <5>1 DEF Sound, Loose, Retired, Gaps, CounterGaps
      <4> QED
        BY <1>3, <3>1, <4>1 DEF DataInv, MigrationInv, DiskInv
    <3>4. StageInv'
      BY <1>3, <3>1 DEF StageInv, Kept, Taken, Listed, Loose, Retired, Gaps, CounterGaps,
        MigrationInv, DiskInv
    <3>5. ASSUME NEW k \in DOMAIN journals, k # j
          PROVE  /\ InPlace(journals[k]) => data'[journals[k].to] # Nil
                 /\ ~(journals[k].phase = "published" /\ journals[k].before = Nil)
      BY <1>7, <2>1, <2>3, <3>1, <3>5, HomeData
    <3> QED
      BY <3>1, <3>2, <3>3, <3>4, <3>5
  <2>4. CASE journals[j].phase = "published" /\ before # Nil
    <3>1. /\ data' = [data EXCEPT ![to] = before]
          /\ UNCHANGED <<layout, manifest, override, stage, used, late>>
      BY <1>3, <2>4
    <3>2. /\ before \in Tree /\ Sound(before) /\ Kept(Taken(data[to]), before)
          /\ data[to] # Nil
          /\ to = "old" => layout.canonical /\ (before.schema = 3 => before.receipts = {})
          /\ ~layout.canonical => before.schema = 4
      BY <1>2, <1>8, <2>4
    <3>3. /\ NumbersInv' /\ DataInv' /\ StageInv'
          /\ data' \in [Places -> Tree \cup {Nil}] /\ data'[to] = before
          /\ \A place \in Places : place # to => data'[place] = data[place]
      <4> HIDE DEF to, before
      <4> QED
        BY <1>2, <3>1, <3>2, Replaced
    <3>4. ASSUME NEW k \in DOMAIN journals
          PROVE  /\ InPlace(journals[k]) => data'[journals[k].to] # Nil
                 /\ journals[k].phase = "published" /\ journals[k].before = Nil =>
                      Kept(used, data'["new"])
      <4>1. InPlace(journals[k]) => data'[journals[k].to] # Nil
        BY <2>1, <2>4, <3>3
      <4>2. Kept(used, data["new"]) => Kept(used, data'["new"])
        BY <1>5, <3>2, <3>3 DEF Kept
      <4> QED
        BY <2>1, <4>1, <4>2
    <3> QED
      BY <3>3, <3>4
  <2> QED
    BY <1>2, <2>2, <2>3, <2>4
<1>10. TypeOK'
  <2>1. plan' \in [Procs -> Plan \cup {Nil}] /\ pc' \in [Procs -> Labels]
    BY <1>3, Leaving DEF MigrationInv
  <2> QED
    BY <1>3, <1>4, <1>9, <2>1 DEF MigrationInv, TypeOK
<1>11. ASSUME NEW k \in DOMAIN journals PROVE JournalInv(journals[k])'
  <2>1. CASE k = j
    <3>1. /\ journals'[k].phase = "undone" /\ journals'[k].to = journals[k].to
          /\ journals'[k].local = journals[k].local
          /\ journals'[k].image = journals[k].image /\ journals'[k].before = journals[k].before
      BY <1>4, <2>1
    <3>2. JournalInv(journals[k])
      BY <1>2, <2>1
    <3> QED
      BY <1>3, <1>5, <3>1, <3>2, JournalUndone
  <2>2. CASE k # j
    <3>1. JournalInv(journals[k]) /\ journals'[k] = journals[k]
      BY <1>4, <2>2, JournalFacts
    <3>2. Current = "new" => Current' = "new"
      BY <1>5
    <3> QED
      BY <1>3, <1>9, <2>2, <3>1, <3>2, JournalStays
  <2> QED
    BY <2>1, <2>2
<1>12. JournalsInv'
  <2>1. \A k \in DOMAIN journals' : InPlace(journals[k])' => journals'[k] = journals[k]
    BY <1>4 DEF InPlace
  <2> QED
    BY <1>4, <1>11, <2>1 DEF JournalsInv, InPlace, MigrationInv, DiskInv
<1>13. ProcInv(p)'
  BY <1>3, Leaving DEF MigrationInv
<1>14. \A q \in Procs \ {p} : pc'[q] = pc[q] /\ plan'[q] = plan[q]
  BY <1>3, Leaving DEF MigrationInv
<1>15. /\ DiskInv' /\ layout' = layout
       /\ DOMAIN journals \subseteq DOMAIN journals' /\ (Current = "new" => Current' = "new")
  BY <1>3, <1>4, <1>5, <1>6, <1>9, <1>12 DEF DiskInv
<1> QED
  BY <1>1, <1>10, <1>13, <1>14, <1>15, InsideStep

LEMMA RecoverKeeps ==
  ASSUME MigrationInv, ~Overlap, NEW p \in Procs, Recover(p)
  PROVE  MigrationInv'
<1>1. pc[p] = "recover"
  BY DEF Recover
<1>2. CASE Resume(p)
  BY <1>1, <1>2, ResumeKeeps
<1>3. CASE Undo(p)
  BY <1>1, <1>3, UndoKeeps
<1>4. CASE Fail(p)
  BY <1>4, FailKeeps
<1> QED
  BY <1>2, <1>3, <1>4 DEF Recover

-----------------------------------------------------------------------------
(* A plan is created by a command that takes no lock *)

LEMMA CreatePlanKeeps ==
  ASSUME MigrationInv, CreatePlan
  PROVE  MigrationInv'
<1>1. PICK n \in Numbers :
        /\ \A m \in Taken(data[Current]) : m < n
        /\ data' = [data EXCEPT ![Current].records = @ \cup {n}]
        /\ used' = used \cup {n}
        /\ late' = IF Copying THEN late \cup {n} ELSE late
  BY DEF CreatePlan
<1>2. /\ UNCHANGED <<layout, manifest, override, stage, journals, touched, lock, pc, plan, crashes>>
      /\ Canonical /\ data[Current].schema = 4
  BY DEF CreatePlan
<1>3. /\ Current \in Places /\ Current = Home /\ data[Current] \in Tree /\ Sound(data[Current])
      /\ data[Current] # Nil
  BY <1>2, HomeData
<1> DEFINE grown == [data[Current] EXCEPT !.records = @ \cup {n}]
<1>4. n \notin Taken(data[Current]) /\ n \in Int
  BY <1>1 DEF Numbers
<1>5. n \notin Found /\ n \notin Retired
  <2>1. Found \subseteq Taken(data[Current])
    BY <1>3 DEF MigrationInv, DiskInv, NumbersInv, Kept
  <2> QED
    BY <1>4, <2>1, FoundFacts DEF MigrationInv
<1>6. /\ grown \in Tree /\ grown.schema = 4 /\ grown.counter = data[Current].counter
      /\ grown.records = data[Current].records \cup {n} /\ grown.tombs = data[Current].tombs
      /\ grown.receipts = data[Current].receipts /\ grown # Nil
  <2>1. data[Current].records \cup {n} \subseteq Numbers
    BY <1>3, TreeFields
  <2> QED
    BY <1>2, <1>3, <2>1, NilAssumption DEF Tree
<1> HIDE DEF grown
<1>7. data \in [Places -> Tree \cup {Nil}] /\ used \subseteq Numbers /\ late \subseteq Numbers
  BY DEF MigrationInv, TypeOK
<1>8. /\ data' \in [Places -> Tree \cup {Nil}] /\ data'[Current] = grown
      /\ \A place \in Places : place # Current => data'[place] = data[place]
  <2>1. data' = [data EXCEPT ![Current] = grown]
    BY <1>1 DEF grown
  <2> QED
    BY <1>3, <1>6, <1>7, <2>1
<1>9. /\ \A place \in Places : (data'[place] = Nil) <=> (data[place] = Nil)
      /\ \A place \in Places : /\ Taken(data[place]) \subseteq Taken(data'[place])
                               /\ Taken(data'[place]) \subseteq Taken(data[place]) \cup {n}
                               /\ data[place] # Nil => data'[place].schema = data[place].schema
                               /\ data'[place].receipts = data[place].receipts
      /\ n \in Taken(data'[Current])
  BY <1>2, <1>3, <1>6, <1>8 DEF Taken
<1>10. Current' = Current /\ Home' = Home /\ Found' = Found /\ Gaps' = Gaps /\ Retired' = Retired
  BY <1>2 DEF Current, Home, Canonical, Found, Gaps, Taken, CounterGaps, Retired
<1>11. late \subseteq late' /\ late' \subseteq late \cup {n} /\ (Copying => n \in late')
  BY <1>1
<1>14. TypeOK'
  BY <1>1, <1>2, <1>7, <1>8, <1>11 DEF MigrationInv, TypeOK
<1>15. PlacesInv'
  BY <1>2, <1>10 DEF PlacesInv, MigrationInv, DiskInv
<1>16. NumbersInv'
  <2>1. Kept(used, data[Home])
    BY DEF MigrationInv, DiskInv, NumbersInv
  <2>2. used' \ late' \subseteq Taken(data'[Home])
    BY <1>1, <1>3, <1>9, <1>11, <2>1 DEF Kept
  <2>3. Kept(used, data[Home])'
    BY <1>10, <2>2 DEF Kept, Taken
  <2> QED
    BY <1>1, <1>5, <1>10, <1>11, <2>3 DEF MigrationInv, DiskInv, NumbersInv
<1>17. DataInv'
  <2>1. ASSUME NEW place \in Places, data'[place] # Nil PROVE Sound(data[place])'
    <3>1. CASE place = Current
      <4>1. /\ data'[place].tombs \subseteq Retired /\ data'[place].records \cap Retired = {}
            /\ data'[place].records \subseteq used'
            /\ \A receipt \in data'[place].receipts : receipt \subseteq Gaps
            /\ data'[place].schema = 4 /\ data'[place].counter = 0
            /\ Gaps \subseteq data'[place].tombs
        BY <1>1, <1>2, <1>3, <1>5, <1>6, <1>8, <3>1 DEF Sound, Loose
      <4> QED
        BY <1>10, <4>1 DEF Sound, Loose
    <3>2. CASE place # Current
      <4>1. Sound(data[place]) /\ data'[place] = data[place]
        BY <1>8, <2>1, <3>2 DEF MigrationInv, DiskInv, DataInv
      <4> QED
        BY <1>1, <1>2, <1>10, <4>1 DEF Sound, Loose
    <3> QED
      BY <3>1, <3>2
  <2>2. ~layout.canonical => Current = "new"
    BY <1>2 DEF PlacesInv, Current, Canonical, MigrationInv, DiskInv
  <2>3. "old" \in Places /\ "new" \in Places
    BY DEF Places
  <2>4. ~layout.canonical => data'["old"] = layout.tree
    BY <1>8, <2>2, <2>3 DEF DataInv, MigrationInv, DiskInv
  <2>5. /\ data'["old"] # Nil
        /\ data'["old"].schema = 3 => data'["old"].receipts = {}
        /\ ~layout.canonical /\ data'["new"] # Nil => data'["new"].schema = 4
    BY <1>9, <2>3 DEF DataInv, MigrationInv, DiskInv
  <2> QED
    BY <1>2, <2>1, <2>4, <2>5 DEF DataInv
<1>18. StageInv'
  <2>1. ASSUME NEW place \in Places, stage'[place] # Nil PROVE Loose(stage[place])'
    <3>1. Loose(stage[place])
      BY <1>2, <2>1 DEF StageInv, MigrationInv, DiskInv
    <3> QED
      BY <1>1, <1>2, <1>10, <3>1 DEF Loose
  <2>2. stage["old"] # Nil => Listed(stage["old"]) \ late' \subseteq Taken(data'["old"])
    <3>1. "old" \in Places
      BY DEF Places
    <3> QED
      BY <1>9, <1>11, <3>1 DEF StageInv, Kept, MigrationInv, DiskInv
  <2>3. stage'["old"] # Nil => Kept(Listed(stage["old"]), data["old"])'
    BY <1>2, <2>2 DEF Kept, Listed, Taken
  <2> QED
    BY <2>1, <2>3 DEF StageInv
<1>19. JournalsInv'
  <2>1. ASSUME NEW k \in DOMAIN journals PROVE JournalInv(journals[k])'
    <3>1. JournalInv(journals[k]) /\ journals[k].to \in Places /\ journals'[k] = journals[k]
      BY <1>2, JournalFacts
    <3>2. Pending(journals[k]) => Copying
      BY DEF Pending, Copying, Incomplete
    <3>3. InPlace(journals[k])' = InPlace(journals[k]) /\ Pending(journals[k])' = Pending(journals[k])
      BY <3>1 DEF InPlace, Pending
    <3>4. /\ Sound(journals[k].image) => Sound(journals[k].image)'
          /\ Sound(journals[k].before) => Sound(journals[k].before)'
      BY <1>1, <1>2, <1>10 DEF Sound, Loose
    <3>5. /\ Kept(Taken(journals[k].before), journals[k].image) =>
               Kept(Taken(journals[k].before), journals[k].image)'
          /\ Kept(Taken(journals[k].image), journals[k].before) =>
               Kept(Taken(journals[k].image), journals[k].before)'
      BY <1>2, <1>11 DEF Kept, Taken
    <3>6. Pending(journals[k]) /\ Kept(used, journals[k].image) => Kept(used, journals[k].image)'
      BY <1>1, <1>2, <1>11, <3>2 DEF Kept, Taken
    <3>7. Pending(journals[k]) /\ Kept(used, data["new"]) => Kept(used, data["new"])'
      <4>1. "new" \in Places
        BY DEF Places
      <4>2. Pending(journals[k]) /\ Kept(used, data["new"]) => used' \ late' \subseteq Taken(data'["new"])
        BY <1>1, <1>9, <1>11, <3>2, <4>1 DEF Kept
      <4> QED
        BY <4>2 DEF Kept, Taken
    <3>8. InPlace(journals[k]) => data'[journals[k].to] # Nil
      BY <1>9, <3>1 DEF JournalInv
    <3>9. journals[k].phase = "published" => Pending(journals[k])
      BY DEF Pending
    <3> QED
      BY <1>2, <1>10, <3>1, <3>3, <3>4, <3>5, <3>6, <3>7, <3>8, <3>9 DEF JournalInv
  <2> QED
    BY <1>2, <2>1 DEF JournalsInv, InPlace, MigrationInv, DiskInv
<1>20. ASSUME NEW q \in Procs PROVE ProcInv(q)'
  <2>1. ProcInv(q) /\ pc'[q] = pc[q] /\ plan'[q] = plan[q]
    BY <1>2 DEF MigrationInv
  <2>2. PlanInv(plan[q])' = PlanInv(plan[q])
    BY <1>2, <1>10 DEF PlanInv
  <2>3. ASSUME pc[q] \in {"convert", "begin"}
        PROVE  /\ Copying /\ plan[q].policy = "none"
               /\ plan[q].from \in Places /\ plan[q].to \in Places
    BY <2>1, <2>3, SourceData DEF ProcInv, Outside, Copying
  <2>4. pc[q] = "convert" => StagedInv(plan[q])'
    <3>1. ASSUME pc[q] = "convert"
          PROVE  /\ stage[plan[q].to] # Nil
                 /\ Taken(data'[plan[q].from]) \ late' \subseteq Listed(stage[plan[q].to]) \cup Gaps
      BY <1>9, <1>11, <2>1, <2>3, <3>1 DEF ProcInv, StagedInv
    <3> QED
      BY <1>2, <1>10, <3>1 DEF StagedInv, Taken, Listed
  <2>5. pc[q] = "begin" => ConvertedInv(plan[q])'
    <3>1. ASSUME pc[q] = "begin", ~plan[q].moved
          PROVE  /\ stage[plan[q].to] # Nil /\ stage[plan[q].to].schema = 4
                 /\ Sound(stage[plan[q].to])
                 /\ Taken(data'[plan[q].from]) \ late' \subseteq Taken(stage[plan[q].to])
                 /\ plan[q].from = plan[q].to =>
                      Taken(stage[plan[q].to]) \ late' \subseteq Taken(data'[plan[q].to])
      BY <1>9, <1>11, <2>1, <2>3, <3>1 DEF ProcInv, ConvertedInv, Kept
    <3>2. Sound(stage[plan[q].to]) => Sound(stage[plan[q].to])'
      BY <1>1, <1>2, <1>10 DEF Sound, Loose
    <3>3. ASSUME pc[q] = "begin", ~plan[q].moved
          PROVE  /\ Kept(Taken(data[plan[q].from]), stage[plan[q].to])'
                 /\ plan[q].from = plan[q].to =>
                      Kept(Taken(stage[plan[q].to]), data[plan[q].to])'
      BY <1>2, <3>1, <3>3 DEF Kept, Taken
    <3> QED
      BY <1>2, <3>1, <3>2, <3>3 DEF ConvertedInv
  <2>6. data["old"].schema = 4 => data'["old"].schema = 4
    <3>1. "old" \in Places /\ data["old"] # Nil
      BY HomeData DEF Places
    <3> QED
      BY <1>9, <3>1
  <2> QED
    BY <1>2, <2>1, <2>2, <2>4, <2>5, <2>6 DEF ProcInv, Working
<1> QED
  BY <1>14, <1>15, <1>16, <1>17, <1>18, <1>19, <1>20 DEF MigrationInv, DiskInv

-----------------------------------------------------------------------------
(* The theorems *)

LEMMA MigrationInvKept == MigrationInv /\ [Next]_vars => MigrationInv'
<1> SUFFICES ASSUME MigrationInv, [Next]_vars PROVE MigrationInv'
  OBVIOUS
<1>1. ASSUME NEW p \in Procs, Command(p) PROVE MigrationInv'
  <2>1. ASSUME NEW to \in Places, PlanFromCanonical(p, to) PROVE MigrationInv'
    BY <2>1, PlanFromCanonicalKeeps
  <2>2. CASE PlanFromLegacy(p)
    BY <2>2, PlanFromLegacyKeeps
  <2>3. ASSUME NEW given \in 0 .. Len(journals), NEW policy \in Policies,
               PlanRecovery(p, given, policy)
        PROVE  MigrationInv'
    <3>1. given \in Nat
      OBVIOUS
    <3> QED
      BY <2>3, <3>1, PlanRecoveryKeeps
  <2>4. CASE InitLegacy(p)
    BY <2>4, InitLegacyKeeps
  <2> QED
    BY <1>1, <2>1, <2>2, <2>3, <2>4 DEF Command
<1>2. ASSUME NEW p \in Procs, Advance(p), ~Overlap PROVE MigrationInv'
  <2>1. CASE Look(p) \/ Unlink(p) \/ Open(p)
    BY <2>1, LookKeeps, UnlinkKeeps, OpenKeeps
  <2>2. CASE CopyToStage(p)
    BY <1>2, <2>2, CopyToStageKeeps
  <2>3. CASE ConvertStage(p)
    BY <1>2, <2>3, ConvertStageKeeps
  <2>4. CASE Begin(p)
    BY <1>2, <2>4, BeginKeeps
  <2>5. CASE Publish(p)
    BY <1>2, <2>5, PublishKeeps
  <2>6. CASE Configure(p)
    BY <1>2, <2>6, ConfigureKeeps
  <2>7. CASE WriteReceipt(p)
    BY <1>2, <2>7, WriteReceiptKeeps
  <2>8. CASE RemoveStage(p)
    BY <1>2, <2>8, RemoveStageKeeps
  <2>9. CASE Recover(p)
    BY <1>2, <2>9, RecoverKeeps
  <2>10. CASE NotQuiescent(p)
    BY <2>10, FailKeeps DEF NotQuiescent
  <2> QED
    BY <1>2, <2>1, <2>2, <2>3, <2>4, <2>5, <2>6, <2>7, <2>8, <2>9, <2>10 DEF Advance
<1>3. ASSUME NEW p \in Procs, Crash(p) PROVE MigrationInv'
  BY <1>3, CrashKeeps
<1>4. CASE CreatePlan
  BY <1>4, CreatePlanKeeps
<1>5. CASE UNCHANGED vars
  <2>1. UNCHANGED disk /\ UNCHANGED vars
    BY <1>5 DEF vars, disk
  <2>2. DiskInv'
    BY <2>1, DiskSame DEF MigrationInv
  <2>3. TypeOK'
    BY <2>1 DEF MigrationInv, TypeOK, vars
  <2>4. ASSUME NEW q \in Procs PROVE ProcInv(q)'
    <3>1. ProcInv(q) /\ pc'[q] = pc[q] /\ plan'[q] = plan[q]
      BY <2>1 DEF MigrationInv, vars
    <3> QED
      BY <2>1, <3>1, ProcSame
  <2> QED
    BY <2>2, <2>3, <2>4 DEF MigrationInv
<1> QED
  BY <1>1, <1>2, <1>3, <1>4, <1>5 DEF Next

LEMMA MigrationInvHolds == Spec => []MigrationInv
BY MigrationInvInit, MigrationInvKept, PTL DEF Spec

\* Every variable keeps to its type: a plan that is carried out was made, and a
\* journal is one that this code can read.
THEOREM TypeCorrect == Spec => []TypeOK
<1>1. MigrationInv => TypeOK
  BY DEF MigrationInv
<1> QED
  BY <1>1, MigrationInvHolds, PTL

\* No number that was given out is free in the data that is used, but those given
\* out while a copy was already taken: whatever migrations were planned, refused,
\* killed, resumed or undone, in whatever order.
THEOREM NumbersAlwaysFollow == Spec => []NumbersFollow
<1>1. MigrationInv => NumbersFollow
  <2> SUFFICES ASSUME MigrationInv, Canonical PROVE used \ late \subseteq Taken(data[Current])
    BY DEF NumbersFollow
  <2> QED
    BY HomeData DEF MigrationInv, DiskInv, NumbersInv, Kept
<1> QED
  BY <1>1, MigrationInvHolds, PTL

\* The data a project uses can always be read by the inventory, which refuses a
\* number that is a record and a tombstone.
THEOREM ActiveAlwaysUsable == Spec => []ActiveUsable
<1>1. MigrationInv => ActiveUsable
  <2> SUFFICES ASSUME MigrationInv, Canonical
               PROVE  /\ data[Current] # Nil
                      /\ ~layout.canonical => data[Current].schema = 4
                      /\ data[Current].records \cap data[Current].tombs = {}
    BY DEF ActiveUsable
  <2>1. data[Current] # Nil /\ Sound(data[Current])
    BY HomeData
  <2>2. data[Current].records \cap data[Current].tombs = {}
    BY <2>1 DEF Sound, Loose
  <2>3. ~layout.canonical => Current = "new"
    BY DEF PlacesInv, Current, Canonical, MigrationInv, DiskInv
  <2>4. ~layout.canonical => data[Current].schema = 4
    BY <2>1, <2>3 DEF DataInv, MigrationInv, DiskInv
  <2> QED
    BY <2>1, <2>2, <2>4
<1> QED
  BY <1>1, MigrationInvHolds, PTL

\* A receipt never claims a conversion that did not take place.
THEOREM ReceiptAlwaysTrue == Spec => []ReceiptTrue
<1>1. MigrationInv => ReceiptTrue
  <2> SUFFICES ASSUME MigrationInv, NEW place \in Places,
                      data[place] # Nil, data[place].receipts # {}, ~MovedUnconverted(place)
               PROVE  data[place].schema = 4 /\ UNION data[place].receipts \subseteq data[place].tombs
    BY DEF ReceiptTrue
  <2>1. Sound(data[place]) /\ data[place] \in Tree
    BY DEF MigrationInv, DiskInv, DataInv, TypeOK
  <2>2. data[place].schema \in {3, 4} /\ layout.tree.schema \in {3, 4} /\ layout.canonical \in BOOLEAN
    BY <2>1, TreeFields, FoundFacts DEF MigrationInv
  <2>3. data[place].schema = 4
    <3>1. CASE place = "old"
      BY <2>2, <3>1 DEF MigrationInv, DiskInv, DataInv
    <3>2. CASE place = "new" /\ ~layout.canonical
      BY <3>2 DEF MigrationInv, DiskInv, DataInv
    <3>3. CASE place = "new" /\ layout.canonical
      <4>1. data[place].schema = 3 => layout.tree.schema = 3
        BY <2>1 DEF Sound
      <4> QED
        BY <2>2, <3>3, <4>1 DEF MovedUnconverted
    <3> QED
      BY <2>2, <3>1, <3>2, <3>3 DEF Places
  <2>4. \A receipt \in data[place].receipts : receipt \subseteq data[place].tombs
    BY <2>1, <2>3 DEF Sound, Loose
  <2> QED
    BY <2>3, <2>4
<1> QED
  BY <1>1, MigrationInvHolds, PTL

\* What becomes of a place, whichever step is taken.
LEMMA DataSteps ==
  ASSUME MigrationInv, [Next]_vars
  PROVE  \/ data' = data
         \/ \E n \in Numbers : data' = [data EXCEPT ![Current].records = @ \cup {n}] /\ Canonical
         \/ \E p \in Procs :
              /\ UNCHANGED <<layout, manifest, override, used, late>>
              /\ Publish(p) \/ WriteReceipt(p) \/ (pc[p] = "recover" /\ Undo(p))
<1>1. ASSUME NEW p \in Procs, Command(p) \/ Crash(p) PROVE data' = data
  BY <1>1 DEF Command, Crash, PlanFromCanonical, PlanFromLegacy, PlanRecovery, InitLegacy,
     ToLock, Refuse
<1>2. ASSUME NEW p \in Procs, Advance(p)
      PROVE  \/ data' = data
             \/ /\ UNCHANGED <<layout, manifest, override, used, late>>
                /\ Publish(p) \/ WriteReceipt(p) \/ (pc[p] = "recover" /\ Undo(p))
  <2>1. CASE Look(p) \/ Unlink(p) \/ Open(p) \/ CopyToStage(p) \/ ConvertStage(p)
             \/ Begin(p) \/ Configure(p) \/ RemoveStage(p) \/ NotQuiescent(p)
    BY <2>1 DEF Look, Unlink, Open, Refuse, CopyToStage, ConvertStage, Begin, Fail, Configure,
       RemoveStage, NotQuiescent
  <2>2. CASE Publish(p) \/ WriteReceipt(p)
    BY <2>2 DEF Publish, WriteReceipt, Fail
  <2>3. CASE Recover(p)
    BY <2>3 DEF Recover, Resume, Undo, Fail
  <2> QED
    BY <1>2, <2>1, <2>2, <2>3 DEF Advance
<1>3. CASE CreatePlan
  BY <1>3 DEF CreatePlan
<1>4. CASE UNCHANGED vars
  BY <1>4 DEF vars
<1> QED
  BY <1>1, <1>2, <1>3, <1>4 DEF Next

\* Taken back or put in place, the data a project was found with is kept.
LEMMA OldKept ==
  ASSUME MigrationInv, MigrationInv', NEW p \in Procs,
         Publish(p) \/ WriteReceipt(p) \/ (pc[p] = "recover" /\ Undo(p))
  PROVE  Kept(Taken(data["old"]), data'["old"])
<1>1. /\ data \in [Places -> Tree \cup {Nil}] /\ "old" \in Places /\ data["old"] # Nil
      /\ plan[p] # Nil
  <2>1. pc[p] \in Working /\ pc[p] # "release"
    BY DEF Publish, WriteReceipt, Working
  <2> QED
    BY <2>1, HomeData DEF MigrationInv, TypeOK, Places, ProcInv, Working
<1> DEFINE j == plan[p].journal
<1>2. CASE Publish(p)
  <2>1. j \in DOMAIN journals /\ journals[j].phase = "begun"
    BY <1>2, JournalPhase DEF Publish, JournalOf
  <2>2. JournalInv(journals[j]) /\ journals[j].to \in Places
    BY <2>1, JournalFacts
  <2>3. CASE data' = data
    BY <2>3 DEF Kept
  <2>4. CASE /\ data[journals[j].to] = journals[j].before
             /\ data' = [data EXCEPT ![journals[j].to] = journals[j].image]
    <3>1. CASE journals[j].to = "old"
      <4>1. journals[j].before # Nil /\ data'["old"] = journals[j].image
        BY <1>1, <2>4, <3>1
      <4>2. Kept(Taken(journals[j].before), journals[j].image)
        BY <2>1, <2>2, <4>1 DEF JournalInv, Pending
      <4> QED
        BY <2>4, <3>1, <4>1, <4>2
    <3>2. CASE journals[j].to # "old"
      BY <1>1, <2>4, <3>2 DEF Kept
    <3> QED
      BY <3>1, <3>2
  <2> QED
    BY <1>2, <2>3, <2>4 DEF Publish, Fail, JournalOf
<1>3. CASE WriteReceipt(p)
  <2>1. data' = [data EXCEPT ![plan[p].to].receipts = @ \cup {plan[p].domain}]
    BY <1>3 DEF WriteReceipt
  <2>2. plan[p].to \in Places
    BY <1>1 DEF MigrationInv, TypeOK, Plan
  <2>3. data["old"] \in Tree
    BY <1>1
  <2>4. /\ data'["old"].records = data["old"].records /\ data'["old"].tombs = data["old"].tombs
        /\ data'["old"].counter = data["old"].counter
    BY <1>1, <2>1, <2>2, <2>3 DEF Tree
  <2> QED
    BY <2>4 DEF Kept, Taken
<1>4. CASE pc[p] = "recover" /\ Undo(p)
  <2>1. j \in DOMAIN journals
    BY <1>1, <1>4 DEF MigrationInv, ProcInv, Outside
  <2>2. JournalInv(journals[j]) /\ journals[j].to \in Places
    BY <2>1, JournalFacts
  <2>3. CASE journals[j].phase = "begun"
    BY <1>4, <2>3 DEF Undo, JournalOf, Kept
  <2>4. CASE journals[j].phase # "begun"
    <3>1. /\ journals[j].phase = "published" /\ data[journals[j].to] = journals[j].image
          /\ data' = [data EXCEPT ![journals[j].to] = journals[j].before]
      BY <1>4, <2>4 DEF Undo, Undoable, JournalOf
    <3>2. CASE journals[j].to = "old"
      <4>1. data'["old"] = journals[j].before
        BY <1>1, <3>1, <3>2
      <4>2. journals[j].before # Nil
        BY <2>2, <3>2 DEF JournalInv
      <4>3. Kept(Taken(journals[j].image), journals[j].before)
        BY <2>2, <3>1, <4>2 DEF JournalInv, Pending
      <4> QED
        BY <3>1, <3>2, <4>1, <4>3
    <3>3. CASE journals[j].to # "old"
      BY <1>1, <3>1, <3>3 DEF Kept
    <3> QED
      BY <3>2, <3>3
  <2> QED
    BY <2>3, <2>4
<1> QED
  BY <1>2, <1>3, <1>4

\* Neither the data a project was found with nor the data it uses ever loses a
\* number, in any step of a migration, a recovery, a refusal or a crash.
THEOREM SourceAlwaysPreserved == Spec => SourcePreserved
<1>1. MigrationInv => Home \in Places /\ data[Home] # Nil /\ Kept(used, data[Home])
  BY HomeData DEF MigrationInv, DiskInv, NumbersInv
<1>2. (MigrationInv => Home \in Places /\ data[Home] # Nil /\ Kept(used, data[Home]))'
  BY <1>1, PTL
<1>3. MigrationInv' => (Home \in Places /\ data[Home] # Nil /\ Kept(used, data[Home]))'
  BY <1>2
<1>4. ASSUME MigrationInv, MigrationInv', [Next]_vars
      PROVE  [\A place \in {"old", Current} \ {Nil} :
                /\ data'[place] # Nil
                /\ Taken(data[place]) \ late \subseteq Taken(data'[place])]_vars
  <2> SUFFICES ASSUME NEW place \in {"old", Current} \ {Nil}
               PROVE  data'[place] # Nil /\ Kept(Taken(data[place]), data'[place])
    BY DEF Kept
  <2>1. data[place] # Nil /\ data[place] \in Tree /\ (place = "old" \/ place = Home)
    BY <1>4, HomeData DEF Home, Canonical, Current, MigrationInv, DiskInv, PlacesInv
  <2>2. data \in [Places -> Tree \cup {Nil}] /\ Home \in Places /\ "old" \in Places
    BY <1>4, HomeData DEF MigrationInv, TypeOK, Places
  <2>3. CASE data' = data
    BY <2>1, <2>3 DEF Kept
  <2>4. ASSUME NEW n \in Numbers, Canonical, data' = [data EXCEPT ![Current].records = @ \cup {n}]
        PROVE  data'[place] # Nil /\ Kept(Taken(data[place]), data'[place])
    <3>1. MigrationInv'
      BY <1>4
    <3>2. Current \in Places /\ data[Current] \in Tree /\ place \in Places
      BY <1>4, <2>1, <2>2, <2>4, HomeData
    <3>3. /\ data'[place].tombs = data[place].tombs /\ data'[place].counter = data[place].counter
          /\ data[place].records \subseteq data'[place].records
      BY <2>1, <2>2, <2>4, <3>2 DEF Tree
    <3>4. data'[place] # Nil
      <4>1. [data[Current] EXCEPT !.records = @ \cup {n}] \in Tree
        BY <3>2 DEF Tree
      <4> QED
        BY <2>1, <2>2, <2>4, <3>2, <4>1, NilAssumption
    <3> QED
      BY <3>3, <3>4 DEF Kept, Taken
  <2>5. ASSUME NEW p \in Procs, UNCHANGED <<layout, manifest, override, used, late>>,
               Publish(p) \/ WriteReceipt(p) \/ (pc[p] = "recover" /\ Undo(p))
        PROVE  data'[place] # Nil /\ Kept(Taken(data[place]), data'[place])
    <3>1. CASE place = "old"
      <4>1. data'["old"] # Nil
        BY <1>4 DEF MigrationInv, DiskInv, DataInv
      <4> QED
        BY <1>4, <2>5, <3>1, <4>1, OldKept
    <3>2. CASE place = Home
      <4>1. Home' = Home
        BY <2>5 DEF Home, Canonical, Current
      <4>2. (Home \in Places /\ data[Home] # Nil /\ Kept(used, data[Home]))'
        BY <1>4, <1>3
      <4>3. Taken(data[Home]) \subseteq used
        BY <1>4, HomeData, SoundTaken DEF MigrationInv, DiskInv
      <4> QED
        BY <2>5, <3>2, <4>1, <4>2, <4>3 DEF Kept, Taken
    <3> QED
      BY <2>1, <3>1, <3>2
  <2> QED
    BY <1>4, <2>3, <2>4, <2>5, DataSteps
<1> QED
  BY <1>4, MigrationInvHolds, PTL DEF Spec, SourcePreserved

-----------------------------------------------------------------------------
(***************************************************************************)
(* The lock.  It is lost where two invocations have seen the file of the same *)
(* dead process before one of them removes it: the second then removes what   *)
(* the first has made.  That is the only way.                               *)
(***************************************************************************)

\* Whoever is about to remove a lock file that it found stale is alone in that.
OneRecovers == \A p, q \in Procs : pc[p] = "unlink" /\ pc[q] = "unlink" => p = q

\* Who is inside has the file, and what is about to be removed is still stale.
LockInv ==
  /\ \A p \in Procs : lock = p <=> pc[p] \in Working \cup {"release"}
  /\ \A p \in Procs : pc[p] = "unlink" => lock = Stale
  /\ crashes = 0 => lock # Stale

LEMMA LockInvInit == Init => LockInv
<1> SUFFICES ASSUME Init PROVE LockInv
  OBVIOUS
<1>1. /\ lock = Nil /\ crashes = 0 /\ \A p \in Procs : pc[p] = "idle" /\ p # Nil
      /\ Stale # Nil
  BY NilAssumption DEF Init
<1> QED
  BY <1>1 DEF LockInv, Working

\* Steps of p after which the lock file is whose it was.
LEMMA LockSame ==
  ASSUME TypeOK, LockInv, NEW p \in Procs, lock' = lock, crashes' = crashes,
         \A q \in Procs \ {p} : pc'[q] = pc[q],
         pc'[p] \in Working \cup {"release"} <=> pc[p] \in Working \cup {"release"},
         pc'[p] = "unlink" => lock = Stale
  PROVE  LockInv'
BY DEF LockInv

LEMMA LockInvKept ==
  ASSUME TypeOK, MigrationInv, LockInv, OneRecovers, [Next]_vars
  PROVE  LockInv'
<1>1. /\ pc \in [Procs -> Labels] /\ plan \in [Procs -> Plan \cup {Nil}]
      /\ Stale \notin Procs /\ Nil \notin Procs /\ Stale # Nil
  BY NilAssumption DEF TypeOK
<1>2. ASSUME NEW p \in Procs, Refuse(p), pc[p] \in {"idle", "lock", "open"} PROVE LockInv'
  <2>1. /\ lock' = lock /\ crashes' = crashes /\ pc' = [pc EXCEPT ![p] = "idle"]
    BY <1>2 DEF Refuse, End, Goto
  <2> QED
    BY <1>1, <1>2, <2>1, LockSame DEF Working
<1>3. ASSUME NEW p \in Procs, NEW planned, ToLock(p, planned), pc[p] = "idle" PROVE LockInv'
  <2>1. /\ lock' = lock /\ crashes' = crashes /\ pc' = [pc EXCEPT ![p] = "lock"]
    BY <1>3 DEF ToLock, Goto
  <2> QED
    BY <1>1, <1>3, <2>1, LockSame DEF Working
<1>4. ASSUME NEW p \in Procs, Command(p) PROVE LockInv'
  BY <1>2, <1>3, <1>4 DEF Command, PlanFromCanonical, PlanFromLegacy, PlanRecovery, InitLegacy
<1>5. ASSUME NEW p \in Procs, Look(p) PROVE LockInv'
  <2>1. CASE Refuse(p)
    BY <1>2, <1>5, <2>1 DEF Look
  <2>2. CASE lock = Stale /\ Goto(p, "unlink")
    <3>1. /\ lock' = lock /\ crashes' = crashes /\ pc' = [pc EXCEPT ![p] = "unlink"]
          /\ pc[p] = "lock"
      BY <1>5, <2>2 DEF Look, Goto
    <3> QED
      BY <1>1, <2>2, <3>1, LockSame DEF Working
  <2> QED
    BY <1>5, <2>1, <2>2 DEF Look
<1>6. ASSUME NEW p \in Procs, Unlink(p) PROVE LockInv'
  <2>1. /\ lock' = Nil /\ crashes' = crashes
        /\ \A q \in Procs \ {p} : pc'[q] = pc[q]
        /\ pc'[p] \in {"open", "idle"} /\ pc[p] \in {"unlink", "release"}
    BY <1>1, <1>6 DEF Unlink, End, Goto
  <2>2. \A q \in Procs \ {p} : pc[q] \notin Working \cup {"release", "unlink"}
    <3>1. CASE pc[p] = "unlink"
      BY <1>1, <3>1 DEF LockInv, OneRecovers
    <3>2. CASE pc[p] = "release"
      BY <1>1, <3>2 DEF LockInv
    <3> QED
      BY <2>1, <3>1, <3>2
  <2> QED
    BY <1>1, <2>1, <2>2 DEF LockInv, Working
<1>7. ASSUME NEW p \in Procs, Open(p) PROVE LockInv'
  <2>1. CASE pc[p] = "open" /\ Refuse(p)
    BY <1>2, <2>1
  <2>2. CASE /\ pc[p] \in {"lock", "open"} /\ lock = Nil /\ lock' = p
             /\ Goto(p, Entry(plan[p])) /\ crashes' = crashes
    <3>1. Entry(plan[p]) \in {"copy", "begin", "release", "recover"}
      BY <2>2, EntryValues
    <3>2. pc'[p] = Entry(plan[p]) /\ \A q \in Procs \ {p} : pc'[q] = pc[q]
      BY <1>1, <2>2 DEF Goto
    <3>3. \A q \in Procs \ {p} : pc[q] \notin Working \cup {"release", "unlink"}
      BY <1>1, <2>2 DEF LockInv
    <3> QED
      BY <1>1, <2>2, <3>1, <3>2, <3>3 DEF LockInv, Working
  <2> QED
    BY <1>7, <2>1, <2>2 DEF Open
\* At work, an invocation has the file and only leaves it after the work.
<1>8. ASSUME NEW p \in Procs, pc[p] \in Working, lock' = lock, crashes' = crashes,
             ToRelease(p) \/ \E label \in Working : Goto(p, label)
      PROVE  LockInv'
  <2>1. lock = p
    BY <1>8 DEF LockInv
  <2>2. /\ pc'[p] \in Working \cup {"release"} /\ \A q \in Procs \ {p} : pc'[q] = pc[q]
    BY <1>1, <1>8, <2>1 DEF ToRelease, Goto
  <2> QED
    BY <1>8, <2>2, LockSame DEF Working
<1>9. ASSUME NEW p \in Procs, Advance(p) PROVE LockInv'
  <2>1. CASE CopyToStage(p) \/ ConvertStage(p)
    BY <1>8, <2>1 DEF CopyToStage, ConvertStage, Working
  <2>2. CASE Begin(p) \/ Publish(p) \/ NotQuiescent(p)
    BY <1>8, <2>2 DEF Begin, Publish, NotQuiescent, Fail, Working
  <2>3. CASE Configure(p) \/ WriteReceipt(p) \/ RemoveStage(p)
    BY <1>8, <2>3 DEF Configure, WriteReceipt, RemoveStage, Working
  <2>4. CASE Recover(p)
    BY <1>8, <2>4 DEF Recover, Resume, Undo, Fail, Working
  <2> QED
    BY <1>5, <1>6, <1>7, <1>9, <2>1, <2>2, <2>3, <2>4 DEF Advance
<1>10. ASSUME NEW p \in Procs, Crash(p) PROVE LockInv'
  <2>1. /\ lock' = IF lock = p THEN Stale ELSE lock
        /\ crashes' = crashes + 1 /\ crashes \in 0 .. MaxCrashes
        /\ pc'[p] = "idle" /\ \A q \in Procs \ {p} : pc'[q] = pc[q]
    BY <1>1, <1>10 DEF Crash, End, Goto, TypeOK
  <2>2. crashes' # 0
    BY <2>1, BoundsAssumption
  <2> QED
    BY <1>1, <2>1, <2>2 DEF LockInv, Working
<1>11. CASE CreatePlan \/ UNCHANGED vars
  BY <1>11 DEF CreatePlan, vars, LockInv
<1> QED
  BY <1>4, <1>9, <1>10, <1>11 DEF Next

\* Two are never at work at once, however many have died, unless two have found
\* the same stale lock file before either has removed it; so never when nothing
\* has died.
THEOREM OneAtATime ==
  /\ Spec /\ []OneRecovers => []~Overlap
  /\ Spec => [](crashes = 0 => ~Overlap)
<1>1. LockInv => ~Overlap
  BY DEF LockInv, Overlap
<1>2. MigrationInv /\ LockInv /\ OneRecovers /\ [Next]_vars => LockInv'
  BY LockInvKept DEF MigrationInv
<1>3. Spec /\ []OneRecovers => []~Overlap
  BY <1>1, <1>2, LockInvInit, MigrationInvHolds, PTL DEF Spec
<1>4. MigrationInv /\ (crashes = 0 => LockInv) /\ [Next]_vars => (crashes = 0 => LockInv)'
  <2> SUFFICES ASSUME MigrationInv, crashes = 0 => LockInv, [Next]_vars, crashes' = 0
               PROVE  LockInv'
    OBVIOUS
  <2>1. crashes = 0
    <3>1. ASSUME NEW p \in Procs, Crash(p) PROVE FALSE
      <4>1. crashes \in 0 .. MaxCrashes /\ crashes' = crashes + 1
        BY <3>1 DEF Crash, MigrationInv, TypeOK
      <4> QED
        BY <4>1, BoundsAssumption
    <3>2. ASSUME NEW p \in Procs, Command(p) PROVE crashes' = crashes
      BY <3>2 DEF Command, PlanFromCanonical, PlanFromLegacy, PlanRecovery, InitLegacy,
         Refuse, ToLock
    <3>3. ASSUME NEW p \in Procs, Advance(p) PROVE crashes' = crashes
      BY <3>3 DEF Advance, Look, Unlink, Open, Refuse, CopyToStage, ConvertStage, Begin,
         Publish, Fail, Configure, WriteReceipt, RemoveStage, Recover, Resume, Undo,
         NotQuiescent
    <3>4. CASE CreatePlan \/ UNCHANGED vars
      BY <3>4 DEF CreatePlan, vars
    <3> QED
      BY <3>1, <3>2, <3>3, <3>4 DEF Next
  <2>2. LockInv /\ OneRecovers
    BY <2>1 DEF LockInv, OneRecovers
  <2> QED
    BY <2>2, LockInvKept DEF MigrationInv
<1>5. Spec => [](crashes = 0 => ~Overlap)
  BY <1>1, <1>4, LockInvInit, MigrationInvHolds, PTL DEF Spec
<1> QED
  BY <1>3, <1>5

-----------------------------------------------------------------------------
(***************************************************************************)
(* What Recovered says of recoveries that are repeated, step by step and     *)
(* without the fairness that TLC needs for it: every invocation comes to an   *)
(* end, journals only go on, and a recovery that ends has decided its         *)
(* journal.                                                                *)
(***************************************************************************)

\* The steps an invocation has before it at most.
StepsLeft ==
  [idle |-> 0, release |-> 1, clean |-> 2, receipt |-> 3, configure |-> 4, publish |-> 5,
   begin |-> 6, recover |-> 6, convert |-> 7, copy |-> 8, open |-> 9, unlink |-> 10,
   lock |-> 11]

LEMMA StepsLeftValues ==
  /\ StepsLeft["idle"] = 0 /\ StepsLeft["release"] = 1 /\ StepsLeft["clean"] = 2
  /\ StepsLeft["receipt"] = 3 /\ StepsLeft["configure"] = 4 /\ StepsLeft["publish"] = 5
  /\ StepsLeft["begin"] = 6 /\ StepsLeft["recover"] = 6 /\ StepsLeft["convert"] = 7
  /\ StepsLeft["copy"] = 8 /\ StepsLeft["open"] = 9 /\ StepsLeft["unlink"] = 10
  /\ StepsLeft["lock"] = 11
BY DEF StepsLeft

\* Where an invocation can be after a step of its own.
LEMMA AdvanceGoes ==
  ASSUME MigrationInv, NEW p \in Procs, Advance(p)
  PROVE  /\ \A q \in Procs \ {p} : pc'[q] = pc[q]
         /\ \/ /\ pc[p] = "lock"
               /\ pc'[p] \in {"idle", "unlink", "recover", "copy", "begin", "release"}
            \/ pc[p] = "unlink" /\ pc'[p] = "open"
            \/ pc[p] = "open" /\ pc'[p] \in {"idle", "recover", "copy", "begin", "release"}
            \/ pc[p] = "copy" /\ pc'[p] = "convert"
            \/ pc[p] = "convert" /\ pc'[p] = "begin"
            \/ pc[p] = "begin" /\ pc'[p] \in {"idle", "release", "publish"}
            \/ pc[p] = "publish" /\ pc'[p] \in {"idle", "release", "configure"}
            \/ pc[p] = "configure" /\ pc'[p] \in {"idle", "release", "receipt"}
            \/ pc[p] = "receipt" /\ pc'[p] \in {"idle", "release", "clean"}
            \/ pc[p] = "clean" /\ pc'[p] \in {"idle", "release"}
            \/ pc[p] = "release" /\ pc'[p] = "idle"
            \/ pc[p] = "recover" /\ pc'[p] \in {"idle", "release", "publish", "configure"}
<1>1. pc \in [Procs -> Labels]
  BY DEF MigrationInv, TypeOK
<1>2. CASE Look(p) \/ Unlink(p)
  BY <1>1, <1>2 DEF Look, Unlink, Refuse, End, Goto
<1>3. CASE Open(p)
  <2>1. pc[p] \in {"lock", "open"} /\ Entry(plan[p]) \in {"recover", "copy", "begin", "release"}
    BY <1>3, EntryValues DEF Open
  <2> QED
    BY <1>1, <1>3, <2>1 DEF Open, Refuse, End, Goto
<1>4. CASE CopyToStage(p) \/ ConvertStage(p)
  BY <1>1, <1>4 DEF CopyToStage, ConvertStage, Goto
<1>5. CASE Begin(p) \/ Publish(p) \/ NotQuiescent(p)
  BY <1>1, <1>5 DEF Begin, Publish, NotQuiescent, Fail, ToRelease, Goto
<1>6. CASE Configure(p) \/ WriteReceipt(p) \/ RemoveStage(p)
  BY <1>1, <1>6 DEF Configure, WriteReceipt, RemoveStage, ToRelease, Goto
<1>7. CASE Recover(p)
  BY <1>1, <1>7 DEF Recover, Resume, Undo, Fail, ToRelease, Goto
<1> QED
  BY <1>2, <1>3, <1>4, <1>5, <1>6, <1>7 DEF Advance

\* What the other steps do to an invocation that runs: they leave it or kill it.
LEMMA OthersLeave ==
  ASSUME MigrationInv, NEW p \in Procs, pc[p] # "idle", [Next]_vars, ~Advance(p)
  PROVE  pc'[p] \in {pc[p], "idle"}
<1>1. pc \in [Procs -> Labels]
  BY DEF MigrationInv, TypeOK
<1>2. CASE \E q \in Procs : Command(q)
  <2>1. PICK q \in Procs : Command(q)
    BY <1>2
  <2>2. q # p /\ \E label \in Labels : pc' = [pc EXCEPT ![q] = label]
    BY <1>1, <2>1 DEF Command, PlanFromCanonical, PlanFromLegacy, PlanRecovery, InitLegacy,
       Refuse, End, ToLock, Goto, Labels, Working
  <2> QED
    BY <1>1, <2>2
<1>3. CASE \E q \in Procs : Advance(q)
  BY <1>3, AdvanceGoes
<1>4. CASE \E q \in Procs : Crash(q)
  BY <1>1, <1>4 DEF Crash, End, Goto
<1>5. CASE CreatePlan \/ UNCHANGED vars
  BY <1>5 DEF CreatePlan, vars
<1> QED
  BY <1>2, <1>3, <1>4, <1>5 DEF Next

\* Every step of an invocation leaves it fewer of the eleven it has at most, and no
\* other step gives it more: an invocation that is not killed ends, and with it
\* its time in the lock.
THEOREM InvocationMovesOn ==
  Spec => [][\A p \in Procs :
               /\ Advance(p) => StepsLeft[pc'[p]] < StepsLeft[pc[p]]
               /\ pc[p] # "idle" => StepsLeft[pc'[p]] <= StepsLeft[pc[p]]]_vars
<1>1. ASSUME MigrationInv, NEW p \in Procs, Advance(p)
      PROVE  StepsLeft[pc'[p]] < StepsLeft[pc[p]]
  BY <1>1, AdvanceGoes, StepsLeftValues
<1>2. ASSUME MigrationInv, [Next]_vars, NEW p \in Procs, pc[p] # "idle"
      PROVE  StepsLeft[pc'[p]] <= StepsLeft[pc[p]]
  <2>1. StepsLeft[pc[p]] \in 0 .. 11
    <3>1. pc[p] \in Labels
      BY <1>2 DEF MigrationInv, TypeOK
    <3> QED
      BY <3>1, StepsLeftValues DEF Labels, Working
  <2>2. CASE Advance(p)
    BY <1>2, <2>2, AdvanceGoes, StepsLeftValues
  <2>3. CASE ~Advance(p)
    BY <1>2, <2>1, <2>3, OthersLeave, StepsLeftValues
  <2> QED
    BY <2>2, <2>3
<1>3. MigrationInv /\ [Next]_vars =>
        [\A p \in Procs :
           /\ Advance(p) => StepsLeft[pc'[p]] < StepsLeft[pc[p]]
           /\ pc[p] # "idle" => StepsLeft[pc'[p]] <= StepsLeft[pc[p]]]_vars
  BY <1>1, <1>2
<1> QED
  BY <1>3, MigrationInvHolds, PTL DEF Spec

\* The phases a journal can be in after it was in another.
Later == [begun     |-> {"begun", "published", "undone"},
          published |-> {"published", "complete", "undone"},
          complete  |-> {"complete"},
          undone    |-> {"undone"}]

\* A journal goes on or stays, and says the same about the copy.
MovesOn(j) ==
  /\ j \in DOMAIN journals'
  /\ journals'[j].phase \in Later[journals[j].phase]
  /\ journals'[j].to = journals[j].to /\ journals'[j].local = journals[j].local
  /\ journals'[j].image = journals[j].image /\ journals'[j].before = journals[j].before

\* The steps that touch a journal.
LEMMA JournalSteps ==
  ASSUME MigrationInv, [Next]_vars
  PROVE  \/ UNCHANGED journals
         \/ \E journal : journals' = Append(journals, journal)
         \/ \E p \in Procs :
              /\ plan[p].journal \in DOMAIN journals
              /\ \/ JournalOf(p).phase = "begun" /\ SetPhase(p, "published")
                 \/ JournalOf(p).phase = "published" /\ SetPhase(p, "complete")
                 \/ JournalOf(p).phase \in {"begun", "published"} /\ SetPhase(p, "undone")
<1>1. CASE CreatePlan \/ UNCHANGED vars
  BY <1>1 DEF CreatePlan, vars
<1>2. ASSUME NEW p \in Procs, Command(p) \/ Crash(p)
      PROVE  UNCHANGED journals
  BY <1>2 DEF Command, PlanFromCanonical, PlanFromLegacy, PlanRecovery, InitLegacy, Refuse,
     ToLock, Crash
<1>3. ASSUME NEW p \in Procs, Advance(p), ~UNCHANGED journals
      PROVE  \/ \E journal : journals' = Append(journals, journal)
             \/ /\ plan[p].journal \in DOMAIN journals
                /\ \/ JournalOf(p).phase = "begun" /\ SetPhase(p, "published")
                   \/ JournalOf(p).phase = "published" /\ SetPhase(p, "complete")
                   \/ JournalOf(p).phase \in {"begun", "published"} /\ SetPhase(p, "undone")
  <2>1. CASE Look(p) \/ Unlink(p) \/ Open(p) \/ CopyToStage(p) \/ ConvertStage(p)
             \/ WriteReceipt(p) \/ RemoveStage(p) \/ NotQuiescent(p)
    BY <1>3, <2>1 DEF Look, Unlink, Open, Refuse, CopyToStage, ConvertStage, WriteReceipt,
       RemoveStage, NotQuiescent, Fail
  <2>2. CASE Begin(p)
    BY <1>3, <2>2 DEF Begin, Fail
  <2>3. CASE Publish(p)
    BY <1>3, <2>3, JournalPhase DEF Publish, Fail
  <2>4. CASE Configure(p)
    BY <2>4, JournalPhase DEF Configure
  <2>5. CASE Recover(p)
    <3>1. Undo(p)
      BY <1>3, <2>5 DEF Recover, Resume, Fail
    <3>2. plan[p].journal \in DOMAIN journals
      BY <2>5 DEF Recover, MigrationInv, ProcInv, Outside
    <3> QED
      BY <3>1, <3>2 DEF Undo, Undoable
  <2> QED
    BY <1>3, <2>1, <2>2, <2>3, <2>4, <2>5 DEF Advance
<1> QED
  BY <1>1, <1>2, <1>3 DEF Next

\* A journal is never lost, never goes back and never changes what it says of the
\* copy, and one that is complete or undone stays so: whoever resumes, undoes or
\* is overtaken, with what each had read before it took the lock.
THEOREM JournalsMoveOn == Spec => [][\A j \in DOMAIN journals : MovesOn(j)]_vars
<1>1. ASSUME MigrationInv, [Next]_vars, NEW j \in DOMAIN journals
      PROVE  MovesOn(j)
  <2>1. journals[j].phase \in Later[journals[j].phase]
    BY <1>1, JournalFacts DEF Later
  <2>2. CASE UNCHANGED journals
    BY <2>1, <2>2 DEF MovesOn
  <2>3. CASE \E journal : journals' = Append(journals, journal)
    <3>1. journals \in Seq(Journal)
      BY <1>1 DEF MigrationInv, TypeOK
    <3>2. j \in DOMAIN journals' /\ journals'[j] = journals[j]
      BY <2>3, <3>1
    <3> QED
      BY <2>1, <3>2 DEF MovesOn
  <2>4. ASSUME NEW p \in Procs, plan[p].journal \in DOMAIN journals,
               NEW phase \in {"published", "complete", "undone"}, SetPhase(p, phase),
               phase \in Later[JournalOf(p).phase]
        PROVE  MovesOn(j)
    <3> DEFINE k == plan[p].journal
    <3>1. /\ DOMAIN journals' = DOMAIN journals
          /\ journals'[k].phase = phase
          /\ journals'[k].to = journals[k].to /\ journals'[k].local = journals[k].local
          /\ journals'[k].image = journals[k].image /\ journals'[k].before = journals[k].before
          /\ \A i \in DOMAIN journals : i # k => journals'[i] = journals[i]
      BY <1>1, <2>4, PhaseSet DEF SetPhase, MigrationInv
    <3> QED
      BY <2>1, <2>4, <3>1 DEF MovesOn, JournalOf
  <2>5. /\ "published" \in Later["begun"] /\ "undone" \in Later["begun"]
        /\ "complete" \in Later["published"] /\ "undone" \in Later["published"]
    BY DEF Later
  <2> QED
    BY <1>1, <2>2, <2>3, <2>4, <2>5, JournalSteps
<1>2. MigrationInv /\ [Next]_vars => [\A j \in DOMAIN journals : MovesOn(j)]_vars
  BY <1>1
<1> QED
  BY <1>2, MigrationInvHolds, PTL DEF Spec

\* A plan was made in the target between the look at the journal and the copy.
Overtaken(p) == pc[p] = "publish" /\ data[JournalOf(p).to] # JournalOf(p).before

\* A recovery without options that ends at work has decided its journal, unless
\* it was overtaken or has lost the lock to another: Recover finds every journal
\* that is not complete either resumable or undoable, and what it resumes it
\* completes.
THEOREM RecoveryDecides ==
  Spec => [][\A p \in Procs :
               Advance(p) /\ pc[p] \in Working /\ plan[p] # Nil /\ plan[p].policy = "auto"
                 /\ plan'[p] = Nil
               => \/ journals'[plan[p].journal].phase \in {"complete", "undone"}
                  \/ Overtaken(p)
                  \/ lock \in Procs \ {p}]_vars
<1>1. ASSUME MigrationInv, NEW p \in Procs, Advance(p), pc[p] \in Working, plan[p] # Nil,
             plan[p].policy = "auto", plan'[p] = Nil, ~Overtaken(p),
             lock \notin Procs \ {p}
      PROVE  journals'[plan[p].journal].phase \in {"complete", "undone"}
  <2>1. /\ pc[p] \in {"recover", "publish", "configure"}
        /\ plan[p].journal \in DOMAIN journals /\ plan[p] \in Plan
    BY <1>1 DEF MigrationInv, ProcInv, TypeOK, Outside, Working
  <2>2. Publish(p) \/ Configure(p) \/ Recover(p)
    BY <1>1, <2>1 DEF Advance, Look, Unlink, Open, CopyToStage, ConvertStage, Begin,
       WriteReceipt, RemoveStage, NotQuiescent
  <2>3. ~Publish(p)
    BY <1>1 DEF Publish, Overtaken
  <2>4. ASSUME NEW phase \in {"complete", "undone"}, SetPhase(p, phase)
        PROVE  journals'[plan[p].journal].phase \in {"complete", "undone"}
    BY <1>1, <2>1, <2>4, PhaseSet DEF SetPhase, MigrationInv
  <2>5. CASE Configure(p)
    BY <2>4, <2>5 DEF Configure
  <2>6. CASE Recover(p)
    <3>1. ~Resume(p)
      <4>1. [plan[p] EXCEPT !.policy = "auto"] \in Plan
        BY <2>1 DEF Plan
      <4> QED
        BY <1>1, <4>1, NilAssumption DEF Resume, MigrationInv, TypeOK
    <3>2. CASE Undo(p)
      BY <2>4, <3>2 DEF Undo
    <3>3. CASE ~Undo(p)
      <4>1. UNCHANGED journals /\ ~Resumable(JournalOf(p)) /\ ~Undoable(JournalOf(p))
        BY <1>1, <2>6, <3>1, <3>3 DEF Recover, Fail
      <4>2. JournalOf(p).phase \notin {"begun", "published"}
        BY <4>1 DEF Resumable, Undoable
      <4> QED
        BY <1>1, <2>1, <4>1, <4>2, JournalFacts DEF JournalOf
    <3> QED
      BY <3>2, <3>3
  <2> QED
    BY <2>2, <2>3, <2>5, <2>6
<1>2. MigrationInv /\ [Next]_vars =>
        [\A p \in Procs :
           Advance(p) /\ pc[p] \in Working /\ plan[p] # Nil /\ plan[p].policy = "auto"
             /\ plan'[p] = Nil
           => \/ journals'[plan[p].journal].phase \in {"complete", "undone"}
              \/ Overtaken(p)
              \/ lock \in Procs \ {p}]_vars
  BY <1>1
<1> QED
  BY <1>2, MigrationInvHolds, PTL DEF Spec

=============================================================================
