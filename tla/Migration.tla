------------------------------ MODULE Migration ------------------------------
(***************************************************************************)
(* `planledger migrate apply' and `planledger storage recover': a project's *)
(* data is converted to storage schema 4 in a stage beside the target, and   *)
(* Ledgercore copies the stage, or the data itself, to the target and then   *)
(* points the manifest at it.  The plan of a migration is made before the    *)
(* write lock is taken and carried out from that plan inside the lock; the   *)
(* commands that create plans take no lock at all.  A command may die        *)
(* between any two of its writes, and of several that then recover its lock  *)
(* one may get in beside another.  What two at work do to each other's files *)
(* is not modelled: a behaviour ends where that begins.                     *)
(*                                                                         *)
(* Ledgercore is a library outside this repository.  It is modelled from the *)
(* plans this code hands to it and the journals it reads back: an execution  *)
(* checks the fingerprints of the plan, journals, puts the copy in place and *)
(* then writes the manifest, and a recovery goes on from the journal or takes *)
(* the copy back, where the target is still what the journal says it was.    *)
(***************************************************************************)
EXTENDS Integers, Sequences, FiniteSets

CONSTANTS
  Procs,        \* invocations, each one command after the other
  Layouts,      \* the projects that may be found
  MaxNumber,    \* bound: the highest plan number that is given out
  MaxJournals,  \* bound: migrations that are begun
  MaxCrashes,   \* bound: invocations that are killed
  MaxEvents,    \* bound: migrations and kills together
  Stale,        \* the lock file of an invocation that died
  Nil

Numbers == 1 .. MaxNumber

\* Where data can be: where it was found, and one other place to move it to.
Places == {"old", "new"}

\* A data directory.  One kind of record stands for plans and workshops, which
\* are handled alike.  Schema 3 counts the numbers, schema 4 does not.
Tree == [schema   : {3, 4},
         counter  : 0 .. MaxNumber + 1,
         records  : SUBSET Numbers,
         tombs    : SUBSET Numbers,
         receipts : SUBSET SUBSET Numbers]

\* canonical: the manifest has schema 3 and registers the data; sources: how
\* many candidates the discovery finds otherwise.
Layout == [canonical : BOOLEAN, sources : {1, 2}, uuid : BOOLEAN, tree : Tree]

\* local: the configuration to write is the local override, not the manifest.
Journal == [phase  : {"begun", "published", "complete", "undone"},
            to     : Places,
            local  : BOOLEAN,
            image  : Tree,
            before : Tree \cup {Nil}]

Plan == [from    : Places,
         to      : Places,
         convert : BOOLEAN,
         domain  : SUBSET Numbers,
         source  : Tree \cup {Nil},
         before  : Tree \cup {Nil},
         moved   : BOOLEAN,
         journal : Nat,
         policy  : {"none", "auto", "resume", "rollback", "init"}]

\* As the program leaves its data: no number is a record and a tombstone, schema 4
\* counts nothing, and only a registered project has it.
ASSUME LayoutsAssumption ==
  /\ Layouts \subseteq Layout
  /\ \A found \in Layouts :
       LET tree == found.tree
       IN  /\ tree.records \cap tree.tombs = {} /\ tree.receipts = {}
           /\ tree.schema = 4 => tree.counter = 0 /\ found.canonical
ASSUME BoundsAssumption ==
  MaxNumber \in Nat /\ MaxJournals \in Nat /\ MaxCrashes \in Nat /\ MaxEvents \in Nat
ASSUME NilAssumption ==
  /\ Nil \notin Tree /\ Nil \notin Procs /\ Nil \notin Places
  /\ Nil \notin Plan
  /\ Stale \notin Procs /\ Stale # Nil

VARIABLES
  layout,    \* the project as it was found
  manifest,  \* where the schema-3 manifest says the data is, or Nil
  override,  \* where ledger.local.toml says it is instead, or Nil
  data,      \* the data directory at each place, or Nil
  stage,     \* the directory <target>.staged of each target, or Nil
  journals,  \* the files under .ledger/migrations
  touched,   \* whether the directory of the lock, .ledger/planledger, exists
  lock,      \* who made the lock file, Stale, or Nil
  pc,        \* where each invocation is
  plan,      \* what it planned before it took the lock
  used,      \* every number that has been given to a record
  late,      \* the numbers given out while a copy was already taken
  crashes

vars == <<layout, manifest, override, data, stage, journals, touched, lock, pc, plan,
          used, late, crashes>>

\* In the body of the lock, where the data is changed.
Working == {"copy", "convert", "begin", "publish", "configure", "receipt", "clean", "recover"}

Labels == Working \cup {"idle", "lock", "unlink", "open", "release"}

TypeOK ==
  /\ layout \in Layouts
  /\ manifest \in Places \cup {Nil}
  /\ override \in Places \cup {Nil}
  /\ data \in [Places -> Tree \cup {Nil}]
  /\ stage \in [Places -> Tree \cup {Nil}]
  /\ journals \in Seq(Journal)
  /\ touched \in BOOLEAN
  /\ lock \in Procs \cup {Nil, Stale}
  /\ pc \in [Procs -> Labels]
  /\ plan \in [Procs -> Plan \cup {Nil}]
  /\ used \in SUBSET Numbers
  /\ late \in SUBSET Numbers
  /\ crashes \in 0 .. MaxCrashes

\* The numbers a tree does not give out again; below a counter all are taken.
Taken(tree) == tree.records \cup tree.tombs \cup {n \in Numbers : n < tree.counter}

Init ==
  /\ layout \in Layouts
  /\ manifest = IF layout.canonical THEN "old" ELSE Nil
  /\ override = Nil
  /\ data = [place \in Places |-> IF place = "old" THEN layout.tree ELSE Nil]
  /\ stage = [place \in Places |-> Nil]
  /\ journals = <<>>
  /\ touched = layout.canonical
  /\ lock = Nil
  /\ pc = [p \in Procs |-> "idle"]
  /\ plan = [p \in Procs |-> Nil]
  /\ used = Taken(layout.tree)
  /\ late = {}
  /\ crashes = 0

-----------------------------------------------------------------------------
Goto(p, label) == pc' = [pc EXCEPT ![p] = label]

\* A command ends, and with it what it knew.
End(p) ==
  /\ Goto(p, "idle")
  /\ plan' = [plan EXCEPT ![p] = Nil]

\* The with-block is left, and nothing that was planned matters any more.  The
\* lock file goes next if it is the own one; it never becomes that again.
ToRelease(p) ==
  /\ Goto(p, IF lock = p THEN "release" ELSE "idle")
  /\ plan' = [plan EXCEPT ![p] = Nil]

\* A refusal before the lock is taken touches nothing.
Refuse(p) ==
  /\ End(p)
  /\ UNCHANGED <<layout, manifest, override, data, stage, journals, touched, lock, used, late, crashes>>

\* An exception in the with-block.
Fail(p) ==
  /\ ToRelease(p)
  /\ UNCHANGED <<layout, manifest, override, data, stage, journals, touched, lock, used, late, crashes>>

ToLock(p, planned) ==
  /\ Goto(p, "lock")
  /\ plan' = [plan EXCEPT ![p] = planned]
  /\ UNCHANGED <<layout, manifest, override, data, stage, journals, touched, lock,
                 used, late, crashes>>

\* Mistake: the records that exist are not looked at.
CounterGapsUnread(tree) == {n \in Numbers : n < tree.counter} \ tree.tombs

\* Numbers below the legacy counter that neither a record nor a tombstone holds.
CounterGaps(tree) ==
  {n \in Numbers : n < tree.counter} \ (tree.records \cup tree.tombs)

\* The directory of the lock file looks like one more place data could be in,
\* unless the manifest says where the data is.
Sources == IF touched THEN layout.sources + 1 ELSE layout.sources

Canonical == manifest # Nil

\* The place the registration resolves to; the local override wins.
Current == IF override # Nil THEN override ELSE manifest

PlanOf(from, to, convert, moved) ==
  [from |-> from, to |-> to, convert |-> convert, moved |-> moved,
   domain |-> IF convert THEN CounterGaps(data[from]) ELSE {},
   source |-> IF moved THEN data[from] ELSE Nil, before |-> Nil,
   journal |-> 0, policy |-> "none"]

\* Bound: a migration counts from when it is planned, so that none is planned
\* that could not be journalled.
Planned == {p \in Procs : plan[p] # Nil /\ plan[p].policy = "none" /\ plan[p].journal = 0}

Begun == Len(journals) + Cardinality(Planned)

Room == Begun < MaxJournals /\ Begun + crashes < MaxEvents

\* `migrate apply' of a registered project: old data is converted, data that is
\* somewhere else is moved, and the target of a move must not exist.
PlanFromCanonical(p, to) ==
  LET moved   == Current # to
      convert == data[Current].schema < 4
  IN /\ pc[p] = "idle" /\ Canonical
     /\ \/ /\ moved /\ data[to] # Nil
           /\ Refuse(p)
        \/ /\ ~moved /\ ~convert
           /\ Refuse(p)
        \/ /\ IF moved THEN data[to] = Nil ELSE convert
           /\ Room
           /\ ToLock(p, PlanOf(Current, to, convert, moved))

\* `migrate apply' of a project that is not: exactly one source must be found.
PlanFromLegacy(p) ==
  /\ pc[p] = "idle" /\ ~Canonical
  /\ \/ /\ Sources > 1
        /\ Refuse(p)
     \/ /\ Sources = 1 /\ ~layout.uuid
        /\ Refuse(p)
     \/ /\ Sources = 1 /\ layout.uuid /\ Room
        /\ ToLock(p, PlanOf("old", "new", TRUE, FALSE))

Incomplete == {j \in DOMAIN journals : journals[j].phase \in {"begun", "published"}}

\* Mistake: the newest journal is taken, complete or not.
SelectableNewest(given) ==
  IF given # 0 THEN {given}
  ELSE {j \in DOMAIN journals : journals[j].phase # "undone"
                                /\ \A k \in DOMAIN journals : k > j => journals[k].phase = "undone"}

\* The journal a recovery takes: the one it was given, else the only one that is
\* not complete, else the newest.
Selectable(given) ==
  IF given # 0 THEN {given}
  ELSE IF Incomplete # {} THEN Incomplete
  ELSE {j \in DOMAIN journals : journals[j].phase # "undone"
                                /\ \A k \in DOMAIN journals : k > j => journals[k].phase = "undone"}

\* `storage recover'; the journal is chosen before the lock is taken.  With a
\* journal given, auto does what one of the other two policies does.
PlanRecovery(p, given, policy) ==
  /\ pc[p] = "idle"
  /\ given # 0 => policy # "auto"
  /\ given = 0 \/ given \in {j \in DOMAIN journals : journals[j].phase # "undone"}
  /\ \/ /\ Selectable(given) = {}
        /\ Refuse(p)
     \/ /\ Cardinality(Selectable(given)) > 1
        /\ Refuse(p)
     \/ \E j \in Selectable(given) :
          /\ Selectable(given) = {j}
          /\ ToLock(p, [from |-> journals[j].to, to |-> journals[j].to,
                        convert |-> FALSE, moved |-> FALSE, domain |-> {},
                        source |-> Nil, before |-> Nil,
                        journal |-> j, policy |-> policy])

\* `planledger init' of a project that must be migrated takes the lock as well,
\* and then refuses.
InitLegacy(p) ==
  /\ pc[p] = "idle" /\ ~Canonical
  /\ ToLock(p, [from |-> "old", to |-> "old", convert |-> FALSE, moved |-> FALSE,
                domain |-> {}, source |-> Nil, before |-> Nil,
                journal |-> 0, policy |-> "init"])

-----------------------------------------------------------------------------
(* The write lock: acquire_planledger_write_lock and unlink_write_lock, whose *)
(* steps WriteLock takes further apart.  Making the file and filling it is one. *)

\* The lock of a live process is respected, that of a dead one is to be removed.
Look(p) ==
  /\ pc[p] = "lock"
  /\ \/ lock \in Procs /\ Refuse(p)
     \/ lock = Stale /\ Goto(p, "unlink") /\ UNCHANGED plan
  /\ UNCHANGED <<layout, manifest, override, data, stage, journals, touched, lock,
                 used, late, crashes>>

\* What has the name of the file by now is removed, although the pid in it was
\* compared before: that of the dead process, or at the end the own one.
Unlink(p) ==
  /\ \/ pc[p] = "unlink" /\ Goto(p, "open") /\ UNCHANGED plan
     \/ pc[p] = "release" /\ End(p)
  /\ lock' = Nil
  /\ UNCHANGED <<layout, manifest, override, data, stage, journals, touched, used, late, crashes>>

\* Where the work begins.
Entry(planned) ==
  CASE planned.policy = "none"  -> IF planned.convert THEN "copy" ELSE "begin"
    [] planned.policy = "init"  -> "release"
    [] OTHER                    -> "recover"

\* open(path, "x"): the directory is made with the file.  One that is there again
\* is not recovered any more, whosever it is.
Open(p) ==
  \/ /\ pc[p] = "open" /\ lock # Nil
     /\ Refuse(p)
  \/ /\ pc[p] \in {"lock", "open"} /\ lock = Nil
     /\ lock' = p
     /\ touched' = TRUE
     /\ Goto(p, Entry(plan[p]))
     /\ plan' = IF Entry(plan[p]) = "release" THEN [plan EXCEPT ![p] = Nil] ELSE plan
     /\ UNCHANGED <<layout, manifest, override, data, stage, journals, used, late, crashes>>

-----------------------------------------------------------------------------
\* copytree(dirs_exist_ok) over what an earlier attempt may have left.
Overlay(former, tree) ==
  IF former = Nil THEN tree
  ELSE [tree EXCEPT !.records = @ \cup former.records,
                    !.tombs = @ \cup former.tombs,
                    !.receipts = @ \cup former.receipts]

CopyToStage(p) ==
  LET to == plan[p].to
  IN /\ pc[p] = "copy"
     /\ stage' = [stage EXCEPT ![to] = Overlay(stage[to], data[plan[p].from])]
     /\ Goto(p, "convert")
     /\ UNCHANGED <<layout, manifest, override, data, journals, touched, lock, plan, used, late, crashes>>

\* Mistake: the tombstones are left to a later run.
ConvertedBarely(tree, gaps) == [tree EXCEPT !.schema = 4, !.counter = 0]

Converted(tree, gaps) ==
  [tree EXCEPT !.schema = 4, !.counter = 0, !.tombs = @ \cup gaps]

\* storage.yaml and the tombstones of the plan; then, unless Ledgercore has a
\* plan of its own, the stage becomes what is copied.  A target that is the
\* source is replaced if it is still what it is now, any other must be absent.
ConvertStage(p) ==
  LET to     == plan[p].to
      staged == Converted(stage[to], plan[p].domain)
  IN /\ pc[p] = "convert"
     /\ stage' = [stage EXCEPT ![to] = staged]
     /\ plan' = IF plan[p].moved THEN plan
                ELSE [plan EXCEPT ![p].source = staged,
                                  ![p].before = IF plan[p].from = to THEN data[to] ELSE Nil]
     /\ Goto(p, "begin")
     /\ UNCHANGED <<layout, manifest, override, data, journals, touched, lock, used, late, crashes>>

\* require_planledger_quiescent, which Ledgercore is given to call before it
\* copies and before it activates.  A lock that somebody took after the own one
\* was removed stops the work, unless it was taken after the check.
NotQuiescent(p) ==
  /\ pc[p] \in {"begin", "configure", "recover"}
  /\ lock \in Procs \ {p}
  /\ Fail(p)

\* What Ledgercore is asked to copy.
ToCopy(p) == IF plan[p].moved THEN data[plan[p].from] ELSE stage[plan[p].to]

\* The plan still fits the disk, or the execution is refused and leaves the stage.
Begin(p) ==
  LET fits == ToCopy(p) = plan[p].source /\ data[plan[p].to] = plan[p].before
  IN /\ pc[p] = "begin"
     /\ \/ ~fits /\ Fail(p)
        \/ /\ fits
           /\ journals' = Append(journals, [phase |-> "begun", to |-> plan[p].to,
                                            local |-> plan[p].moved,
                                            image |-> ToCopy(p), before |-> plan[p].before])
           /\ plan' = [plan EXCEPT ![p].journal = Len(journals) + 1]
           /\ Goto(p, "publish")
           /\ UNCHANGED <<layout, manifest, override, data, stage, touched, lock, used, late, crashes>>

JournalOf(p) == journals[plan[p].journal]

SetPhase(p, phase) ==
  journals' = [journals EXCEPT ![plan[p].journal].phase = phase]

\* Ledgercore puts the copy in place.
Publish(p) ==
  LET to == JournalOf(p).to
  IN /\ pc[p] = "publish"
     /\ \/ data[to] # JournalOf(p).before /\ Fail(p)
        \/ /\ data[to] = JournalOf(p).before
           /\ data' = [data EXCEPT ![to] = JournalOf(p).image]
           /\ SetPhase(p, "published")
           /\ Goto(p, "configure")
           /\ UNCHANGED <<layout, manifest, override, stage, touched, lock, plan, used, late, crashes>>

\* Mistake: a conversion in place sets the override as a move does.
ConfigureLocally(p) ==
  /\ pc[p] = "configure"
  /\ override' = JournalOf(p).to
  /\ manifest' = IF Canonical THEN manifest ELSE JournalOf(p).to
  /\ SetPhase(p, "complete")
  /\ IF plan[p].policy = "none"
     THEN Goto(p, "receipt") /\ UNCHANGED plan
     ELSE ToRelease(p)
  /\ UNCHANGED <<layout, data, stage, touched, lock, used, late, crashes>>

\* Ledgercore writes the configuration and completes the journal: a move is
\* written to the local override, anything else to the manifest.
Configure(p) ==
  /\ pc[p] = "configure"
  /\ IF JournalOf(p).local
     THEN override' = JournalOf(p).to /\ UNCHANGED manifest
     ELSE manifest' = JournalOf(p).to /\ UNCHANGED override
  /\ SetPhase(p, "complete")
  /\ IF plan[p].policy = "none"
     THEN Goto(p, "receipt") /\ UNCHANGED plan
     ELSE ToRelease(p)
  /\ UNCHANGED <<layout, data, stage, touched, lock, used, late, crashes>>

WriteReceipt(p) ==
  /\ pc[p] = "receipt"
  /\ data' = [data EXCEPT ![plan[p].to].receipts = @ \cup {plan[p].domain}]
  /\ IF plan[p].convert
     THEN Goto(p, "clean") /\ UNCHANGED plan
     ELSE ToRelease(p)
  /\ UNCHANGED <<layout, manifest, override, stage, journals, touched, lock, used, late, crashes>>

\* Mistake: the source is cleaned up with the stage.
RemoveStageAndSource(p) ==
  /\ pc[p] = "clean"
  /\ stage' = [stage EXCEPT ![plan[p].to] = Nil]
  /\ data' = [data EXCEPT ![plan[p].from] = IF plan[p].from = plan[p].to THEN @ ELSE Nil]
  /\ ToRelease(p)
  /\ UNCHANGED <<layout, manifest, override, journals, touched, lock, used, late, crashes>>

RemoveStage(p) ==
  /\ pc[p] = "clean"
  /\ stage' = [stage EXCEPT ![plan[p].to] = Nil]
  /\ ToRelease(p)
  /\ UNCHANGED <<layout, manifest, override, data, journals, touched, lock, used, late, crashes>>

-----------------------------------------------------------------------------
Resumable(journal) ==
  journal.phase = "published" \/ (journal.phase = "begun" /\ data[journal.to] = journal.before)

Undoable(journal) ==
  journal.phase = "begun" \/ (journal.phase = "published" /\ data[journal.to] = journal.image)

\* The library's recovery: on from the phase of the journal, or back.
Resume(p) ==
  /\ Resumable(JournalOf(p))
  /\ Goto(p, IF JournalOf(p).phase = "begun" THEN "publish" ELSE "configure")
  /\ plan' = [plan EXCEPT ![p].policy = "auto"]
  /\ UNCHANGED <<layout, manifest, override, data, stage, journals, touched, lock, used, late, crashes>>

Undo(p) ==
  /\ Undoable(JournalOf(p))
  /\ data' = IF JournalOf(p).phase = "begun" THEN data
             ELSE [data EXCEPT ![JournalOf(p).to] = JournalOf(p).before]
  /\ SetPhase(p, "undone")
  /\ ToRelease(p)
  /\ UNCHANGED <<layout, manifest, override, stage, touched, lock, used, late, crashes>>

Recover(p) ==
  LET policy  == plan[p].policy
      forward == policy \in {"auto", "resume"} /\ Resumable(JournalOf(p))
      back    == Undoable(JournalOf(p))
                 /\ (policy = "rollback" \/ (policy = "auto" /\ ~Resumable(JournalOf(p))))
  IN /\ pc[p] = "recover"
     /\ \/ forward /\ Resume(p)
        \/ back /\ Undo(p)
        \/ ~forward /\ ~back /\ Fail(p)

-----------------------------------------------------------------------------
\* A copy of what is current may exist that is not current yet.
Copying ==
  \/ Incomplete # {}
  \/ \E p \in Procs : pc[p] \in {"convert", "begin", "publish", "configure"}

\* `plan create' takes no lock and refuses any schema but 4.
CreatePlan ==
  /\ Canonical
  /\ data[Current].schema = 4
  /\ data[Current].records \cap data[Current].tombs = {}
  /\ \E n \in Numbers :
       /\ \A m \in Taken(data[Current]) : m < n
       /\ n = 1 \/ n - 1 \in Taken(data[Current])
       /\ data' = [data EXCEPT ![Current].records = @ \cup {n}]
       /\ used' = used \cup {n}
       /\ late' = IF Copying THEN late \cup {n} ELSE late
  /\ UNCHANGED <<layout, manifest, override, stage, journals, touched, lock, pc, plan, crashes>>

Crash(p) ==
  /\ crashes < MaxCrashes /\ Begun + crashes < MaxEvents
  /\ pc[p] # "idle"
  /\ crashes' = crashes + 1
  /\ lock' = IF lock = p THEN Stale ELSE lock
  /\ End(p)
  /\ UNCHANGED <<layout, manifest, override, data, stage, journals, touched, used, late>>

Policies == {"auto", "resume", "rollback"}

Command(p) ==
  \/ \E to \in Places : PlanFromCanonical(p, to)
  \/ PlanFromLegacy(p)
  \/ \E given \in 0 .. Len(journals), policy \in Policies : PlanRecovery(p, given, policy)
  \/ InitLegacy(p)

Advance(p) ==
  \/ Look(p) \/ Unlink(p) \/ Open(p)
  \/ CopyToStage(p) \/ ConvertStage(p)
  \/ Begin(p) \/ Publish(p) \/ Configure(p)
  \/ WriteReceipt(p) \/ RemoveStage(p)
  \/ Recover(p)
  \/ NotQuiescent(p)

\* Two are at work at once: the lock has failed, and the model ends.
Overlap == \E p, q \in Procs : p # q /\ pc[p] \in Working /\ pc[q] \in Working

Next ==
  \/ /\ ~Overlap
     /\ \/ \E p \in Procs : Command(p) \/ Advance(p) \/ Crash(p)
        \/ CreatePlan
  \/ Overlap /\ UNCHANGED vars

\* A command that runs goes on, and whoever is idle while a migration is
\* incomplete gives `storage recover'.
Fairness ==
  \A p \in Procs : /\ WF_vars(~Overlap /\ Advance(p))
                   /\ WF_vars(~Overlap /\ PlanRecovery(p, 0, "auto") /\ plan'[p] # Nil)

Spec == Init /\ [][Next]_vars /\ Fairness

-----------------------------------------------------------------------------
\* A project that the migration registered is in schema 4, and no number is a
\* record and a tombstone at once, which the inventory refuses to read
\* (id_inventory.py): after a crash, with plans that are out of date, with a
\* stage that holds what an earlier attempt left.
ActiveUsable ==
  Canonical =>
    /\ data[Current] # Nil
    /\ ~layout.canonical => data[Current].schema = 4
    /\ data[Current].schema = 4 => data[Current].records \cap data[Current].tombs = {}

\* A number that was ever given to a record, or that the legacy counter had
\* passed, is not free in the data the project uses (docs/storage.md: legacy
\* high-water marks are preserved as tombstones), whatever migrations were
\* planned, refused, killed, resumed or undone.  What the commands that take no
\* lock create while a copy is already taken is all that can be missed.
NumbersFollow == Canonical => used \ late \subseteq Taken(data[Current])

\* A migration to another place is carried out on the data as it is even when it
\* also had to be converted: the converted stage is thrown away.
MovedUnconverted(place) ==
  layout.canonical /\ layout.tree.schema < 4 /\ data[place].schema < 4 /\ place = "new"

\* A receipt beside the data says that the data is in schema 4 and that the
\* tombstones it counts are there, although it repeats a plan made before the
\* lock was taken.
ReceiptTrue ==
  \A place \in Places :
    data[place] # Nil /\ data[place].receipts # {} /\ ~MovedUnconverted(place) =>
      data[place].schema = 4 /\ UNION data[place].receipts \subseteq data[place].tombs

\* Copy-only: neither the data a project was found with nor the data it uses
\* ever loses a number that was in it, in any step of a migration or recovery.
SourcePreserved ==
  [][\A place \in {"old", Current} \ {Nil} :
       /\ data'[place] # Nil
       /\ Taken(data[place]) \ late \subseteq Taken(data'[place])]_vars

\* When in the end `storage recover' without options is all that is still given,
\* an incomplete migration is completed or undone, however often the recovery
\* itself is killed and by however many it is repeated, unless a second migration
\* is incomplete too, or two of them get at the lock of a dead one at once.
OnlyRecoveries == \A p \in Procs : plan[p] # Nil => plan[p].policy = "auto"

Recovered ==
  <>[]OnlyRecoveries =>
    (Incomplete # {} ~> (Incomplete = {} \/ Cardinality(Incomplete) > 1 \/ Overlap))

\* A project whose data was found in one place is not refused later for being
\* found in several, nothing having been migrated (docs/agent-workflow.md: for
\* legacy layouts, run `planledger migrate' first).
Retryable == ~Canonical /\ lock \notin Procs /\ layout.sources = 1 => Sources = 1
==============================================================================
