# A TLA+ model of planledger

planledger is a command line program that keeps implementation plans and
planning workshops as files below `.ledger/`, for people and coding agents that
work on them in turn.  It has no server: every command is a process of its own
that reads some files, decides, and writes some files.  What can go wrong lies
between those accesses: two commands at once, a command that dies, a
sequence of legal commands that ends somewhere illegal.

This directory models those accesses one by one, checks the models with TLC on
small instances, and proves the most important invariants with TLAPS for all
instances.  Line numbers refer to `src/planledger/` unless a path is given.

## Inventory

| Component | State it keeps | Operations | Must hold |
| --- | --- | --- | --- |
| Plan store (`storage.py` 340-870) | `plan.yaml`: status, version, history, hashes, last build; `components/*.md`; `versions/vNNNN/` | component set and append, status, cancel, update bundle | history is only extended and is a chain of allowed transitions; every version has a snapshot of exactly its texts; a done plan passes the guardrails |
| Guardrails (`guardrails.py`), prompt profiles (`prompt_profiles.py`) | none; a profile is a file | validate contents, count resolved questions | what is accepted as done is ready for handoff, at the gate and later |
| Rendering (`render.py`) | `rendered/ID-vNNNN.md`, `latest.md` | build, export | the handoff of a version shows that version |
| Allocation (`id_inventory.py`), active pointers (`storage.py`) | record directories, tombstones, `storage.yaml` | create, activate, scan, reserve | a number is given once and only upwards; the pointers name loadable records |
| Write lock (`write_lock.py`, `cli_writes.py`) | `write.lock` | acquire, recover, release, require quiescence | one holder; a live holder keeps it; a dead one's lock is recovered |
| Workshops (`storage.py` 1350-1946) | like plans, and `linked_plans` | mutations, `plan create --from-workshop` | as for plans; every plan made from a workshop is linked by it; a link resolves |
| Bundles (`bundle.py`) | none | validate, dry run, apply | what a dry run accepts, apply does |
| Next action (`next_action.py`, `storage.py` 1039-1347) | none | suggest the next command | who follows the suggestions comes to an end |
| Initialization (`initialization.py`) | configuration, binding, storage directory | init and its recovery | an interrupted init can be repeated |
| Migration (`migration.py`, `domain_migration.py`, `legacy_layout.py`) | staged copy, receipts, tombstones | plan, apply, recover | no record is lost, numbers are kept, an interrupted migration can be repeated |
| Discovery and storage selection (`project_context.py`, `project_binding.py`, `ledgercore_backend.py`, `identity.py`) | manifest, binding, local overrides | locate, validate, `storage set` | the same records are found by every command |
| Reports (`diagnostics.py`, `inventory.py`) | none | status, doctor, info | never raise on what the program itself can leave behind |
| Plumbing (`persistence.py`, `plan_store.py`, `record_store.py`, `workshop_store.py`, `errors.py`, `launcher.py`) | none | re-exports and entry points | |

How they interact: the command line calls the plan store or the workshop store,
which call the guardrails, the allocation and, last, the rendering, all on the
same files and in one process.  Processes interact through the files only.
`init` and the migration hold the write lock; **the commands on plans and
workshops do not**, contrary to the docstring of `cli_writes.py`, and most of
the hazards in `PROJECT.json` follow from that, or from a command that spans
several files and may die between two of them.

## Modules

| Module | What it is |
| --- | --- |
| `VersionedPlan` | what planledger promises of one plan: a log of versions, abstractly |
| `PlanStore` | the commands that change one plan, one file access per step |
| `MCPlanStore` | instances of it |
| `PlanStoreProofs` | its theorems for any number of commands at once, and the history of a single writer |
| `PlanStoreWriterProofs` | its theorems for a single writer: snapshots, handoffs, the promise of `VersionedPlan` |
| `WriteLock`, `MCWriteLock`, `WriteLockProofs` | the write guard |
| `Allocation`, `MCAllocation`, `AllocationProofs` | numbers, reservations, active pointers |
| `Workshop`, `MCWorkshop`, `WorkshopProofs` | one workshop and the plans made from it |
| `Guidance`, `MCGuidance`, `GuidanceProofs` | `next-action`, and an agent that does what it says |
| `Migration`, `MCMigration`, `MigrationProofs` | `migrate apply` and `storage recover`, with `plan create` beside them |
| `Location`, `MCLocation`, `LocationProofs` | `init`, `storage set`, and where the data is |

The modules share no variables: each takes of its neighbours what its own
questions need.  `Workshop` has `create_plan` as the one step that `Allocation`
takes apart; `Guidance` has each command of the stores as one step with the
guards that `PlanStore` and `Workshop` have; `Migration` and `Location` let
`plan create` come at any time, since it takes no lock.  `Migration` takes and
recovers the lock in steps of its own, fewer than those of `WriteLock`;
`Location` takes for granted that one `init` runs at a time, which the lock
gives as long as no two invocations recover the same stale lock file at once.

Definitions whose comment begins with `Mistake:` are not the code: each is what
a plausible bug would make of the definition after it.  Every property was seen
to fail when that definition is replaced by its mistake.

### PlanStore

| Variable | Stands for |
| --- | --- |
| `meta` | `plan.yaml`; a hash in it is the text it was taken of |
| `content` | the component files |
| `snaps` | `versions/vNNNN/`: copied plan.yaml, copied tree, manifest |
| `rendered`, `latest` | the rendered handoffs; `Torn` when their write was cut short |
| `pc`, `cmd`, `plan`, `seen`, `todo` | where each process is, its command, its Plan object, the texts it read or is about to write, the files left |
| `result`, `crashes` | outcome of the last command; crashes so far |

A mutating command is `apply_plan_mutations` and then `build_plan`:

    BeginMutation/RefuseCancelled      load_plan and the cancelled guard
    ReadText ...                       one component file each
    RefuseTransition/RefuseDone        the transition table, the done gate
    SkipMutation                       nothing differs: only the build follows
    AcceptMutation, WriteComponent ... the changed files, in the user's order
    WriteMetadata                      plan.yaml with version + 1
    ResetSnapshot .. WriteManifest     snapshot_version: rmtree, copy2, copytree, manifest
    LoadForBuild, ReadText ...         build_plan reads all again and validates
    StartRender, ReadText ...          and reads the rendered texts once more
    WriteVersioned, WriteLatest        both handoffs, written in place
    SaveRendered                       plan.yaml with last_rendered

`CopyFails` is the OSError of copytree when another process is at work on the
same snapshot directory.  `Crash` ends a process before any step, whether it
was killed or a write raised.

Abstractions.  A text is a sequence of lines, and a line is one of the four
things the validators look for (evidence, placeholder, open question, answered
question).  Guardrail messages, titles, reasons and times are dropped; an entry
of the history keeps who made it, which tells two commits apart as their time
and reason do.  `rmtree` and `mkdir` are one step, copytree stops at the first
file it cannot copy.  The optional sections of a handoff, `--out` and the
`generated_at` line are left out.  The validation an update bundle adds around
`apply_plan_mutations` refuses what the build refuses a step later.  The
profile is its one number, the minimum of resolved questions.

### WriteLock

The lock is a file made by `open(..., "x")` and filled afterwards.  Looking for
it, reading it, probing the pid, comparing the pid once more, unlinking the
name, creating it and filling it are separate steps, at the first attempt and,
under labels that end in `again` or `mine`, after FileExistsError.  `Reenter`
is the branch that takes a lock with the process's own pid for its own and
does not release it.  Pids and hosts are constants, so an instance can give two
invocations one pid (never at the same time) or several machines.
In `NotQuiescent` the read and the probe are one step.

### Allocation

`dirs`, `records` and `active` are the record directories, those of them with
metadata, and `storage.yaml`; `own` has the local variables of each
invocation.  `List`, `Verify` and `Mkdir` are the three moments of one attempt
at a reservation; `Retry` and `GiveUp` its loss; `RefuseGate` the gate of
`--status done` (for a workshop `--status shaped`) that is checked only after
the directory was made; `LoadStorage` and `SaveStorage` the read-modify-write
of `storage.yaml`.  Reading the metadata of the listed records one by one is one
step, which changes nothing because records are never removed.  An invocation
that ends may begin again.  Names and files that no command makes (symbolic
links, malformed names, damaged YAML) are left out.

### Workshop

| Variable | Stands for |
| --- | --- |
| `meta`, `content`, `snaps` | `workshop.yaml` with its links, the component files, `versions/vNNNN/` |
| `plans` | of each plan made from the workshop: not there, made, made and naming its source |
| `pc`, `cmd`, `held`, `seen`, `todo`, `made` | each process: where it is, its command, its Workshop object, its texts, the files left, the plan it made |

A mutation is `apply_workshop_mutations` (`BeginMutation`, `ReadTexts`,
the refusals, `WriteComponent` ..., `WriteMetadata`, the snapshot's four steps)
and, except for `workshop cancel`, `build_workshop` (`LoadForBuild` to
`SaveRendered`).  `plan create --from-workshop` is `BeginPlan`, the refusals of
a workshop that is not shaped, `MakePlan`, `NameSource` (the plan is saved
again with its source), `Link` (`workshop.yaml` as it was read at the start,
with the link), and then a whole mutation to `planned` with a fresh look at the
workshop (`MarkPlanned`).  Unlike plans, a workshop is edited past the
cancelled guard with `--force`, but no transition leads out of `cancelled`.

### Guidance

The state is what `compute_next_action` looks at: whether there is a workspace,
the parsed profile, the active workshop, the plans (unfilled sections, open and
answered questions with their tags, soundness, status), the active plan, and
the plan an agent names with `--plan`.  `NextItem` is the function; `Follow`
does what it says, one action per item, through the same guarded commands that
users have in `Meddle`.  Users may meddle a bounded number of times.
`ParseProfile` is the parsing of the profile table with its defaults.

### Migration

| Variable | Stands for |
| --- | --- |
| `manifest`, `override` | where `ledger.toml` and `ledger.local.toml` put the data |
| `data`, `stage` | the data at each of two places, `<target>.staged` |
| `journals` | `.ledger/migrations`, with Ledgercore's phases |
| `touched`, `lock` | whether the lock's directory exists; the lock file |
| `plan` | the `MigrationPlan` or the chosen journal of each invocation |
| `used`, `late` | every number given out; those given out while a copy was taken |

`PlanFromCanonical`, `PlanFromLegacy` and `PlanRecovery` happen before the lock.
`Look` reads the lock file: a live holder is a refusal, a dead one's file is
removed by `Unlink` and made again by `Open`, which refuses when the file is
there again.  `Unlink` removes what has the name by then: the pid was compared
before.  So of two that find the same stale file the slower removes the lock of
the faster and both get in; a third (an `init`, say) may take the lock under one
at work, which `NotQuiescent` may stop.  The first read of `Look` and the
comparison in `unlink_write_lock` are one step here and two in `WriteLock`, and
the file is made and filled in one.  What two at work do to each other's stage and
copy is the library's matter as much as this code's and is not modelled: where
that begins (`Overlap`) a behaviour ends.

`CopyToStage`, `ConvertStage`, `Begin` to `Configure` (Ledgercore's execution),
`WriteReceipt` and `RemoveStage` come inside the lock.  A conversion is registered
in the manifest, a move in the local override, which wins: this is why a conversion
whose plan is out of date does not bring back the data a project has left
(`NumbersFollow` fails at once when the conversion sets the override too).
`CreatePlan` comes at any time.  Of Ledgercore is assumed that an execution
checks the plan's fingerprints of source and target when it begins, that it
publishes or recovers only where the target is still as journalled, that an
undone journal is no longer found, and that an execution looks at no other
journal.

### Location

`manifest`, `override`, `config` (with its binding), `dir` (the data
directories: bound, with storage.yaml, records) and `store` (the marker of each
external root) are the files; `init` and `pc` the one init that runs.  `Onward`
is the order of the writes on the two paths of `initialize_project`: the fresh
one, and `_recover_workspace`.  `raced` notes that the configuration was
changed under a running init, which the lock does not prevent because `storage
set` does not take it; the properties exempt that case, and RecordsInSight also
exempts `clear-override`.

The two commands without a lock that read before they write are two steps each.
`CheckSet` loads the layout and looks for records (`cli.py:462-483`); `WriteSet`
validates the root, loads the configuration again and writes it
(`cli.py:509-527`), whatever has happened since.  `setting` holds the requests in
between, with what they saw.  `LoadProject` is what `plan create` loads, and
`CreatePlan` puts its record there, also where the configuration has moved on.
`RecordsInSight` says that a `storage set` points away from nothing that it
could have seen: the records it loses (`Overtaken`) are newer than its check, or
the configuration was changed after it.

Of Ledgercore is assumed that validation refuses a
missing marker, binding or data directory with a code that init recovers from,
that binding creates a missing directory, and that loading fails otherwise
where there is no manifest.  `project` stands for `user-data` too; retired TOML
files are left out.

## Runs

| Run | Instance | Shows |
| --- | --- | --- |
| `PlanStore_one` | one user, all commands, two components, versions up to 3 | without crashes every version is snapshotted, done is ready, the handoff is that of the newest version, and `VersionedPlan` is implemented |
| `PlanStore_crash` | one user, six commands, two crashes | the history and finished snapshots survive crashes anywhere; a crash costs one snapshot at most; no handoff says done over texts that are not ready |
| `PlanStore_race` | two users interleaving at every file access | the history stays a numbered chain of allowed transitions |
| `WriteLock_alive` | three invocations of one machine | exclusion, nobody's lock removed, somebody gets in |
| `WriteLock_recover` | three, two crashes, a reused pid | who runs alone gets in, unless the lock file was left empty |
| `Allocation` | three invocations, plans and workshops, a tombstone, a crash | rising numbers, one orphan per kind, which blocks; pointers can be loaded; contention takes rivals |
| `Workshop_crash` | one user, two components, two plans, a crash | shaped is shaped, links resolve, a crash costs one plan its link, snapshots continue each other, cancelled is final |
| `Guidance` | an agent, two commands of users, four profiles, fresh and migrated stores | every suggestion is accepted, shaped workshops are planned, the loop ends |
| `Migration` | two invocations, five projects, three migrations and crashes together | numbers follow the data, the source stays, receipts are true, recovery ends |
| `Location` | one init at a time, two other commands, two plans, two crashes, two roots, any leftovers | records stay in sight but for what a `storage set` could not have seen, data is bound first, success is usable, init completes |

`CHECK_DEADLOCK FALSE` is set where every process may have ended
(`WriteLock_*`), where two writers reach the bound on versions together
(`PlanStore_race`), and where the agent has arrived (`Guidance`).

Two runs show where the program does not do what its text says; the
`findings` in `PROJECT.json` quote the text:

| Run | The code does this |
| --- | --- |
| `PlanStore_lost_commit` | two commands at once: a commit disappears from the history |
| `Migration_retry` | `init` refuses a legacy project and tells its user to migrate; the directory it made for the lock then counts as a second source, and every migration is refused as ambiguous |

### What the properties except, and why

A property with an exception names a behaviour of the code that the model has.
The exceptions are definitions of their own:

- `DoneIsReady`, `ShapedIsShaped`: until a process dies.  A crash between the
  component files and the metadata leaves `done` or `shaped` over drafts, and
  the same command given again finds nothing to change (`storage.py:754`), so
  that no version ever records the text.
- `MutualExclusion`, `LockNotStolen`: in `WriteLock_alive`, where nobody dies.
  Of two invocations that recover one stale lock the slower may unlink the
  faster one's new lock (`write_lock.py:267`), and a live holder on another
  machine counts as dead (`write_lock.py:152`).
- `DeadEnd` (`Guidance`): `next-action` goes on about an active plan or
  workshop that is cancelled, on which every command is refused.  `OpenEnded`:
  with a profile that is always active the agent asks about a workshop until a
  user shapes it.  `Unanswerable`: a configured topic with capitals, or one no
  tag can be, is never seen to be answered.
- `late` (`Migration`): a plan created while a copy was already taken stays
  behind, because `plan create` takes no lock.  `MovedUnconverted`: when old
  data is moved, the data is copied as it is and the converted stage is thrown
  away; the receipt, and its tombstones, are wrong until the next `migrate
  apply` converts the copy.  `Recovered` ends where two migrations are
  incomplete, which `storage recover` refuses to choose from, and at `Overlap`,
  where two that recovered one stale lock are at work (`write_lock.py:267`).
  The other properties and theorems of `Migration` speak of what comes before
  that as well: what two at work do is outside the model.
- `Overtaken` (`Location`): `storage set` looks for records and writes later; a
  plan created in between, and what came into sight by a change of the
  configuration in between, goes out of sight (`cli.py:462-527`).
- `ConfigAlone` (`Location`): an init that dies between `config.toml` and the
  manifest leaves what every later init refuses.  `OtherRoot`: `storage set
  external --root X` names `init --create-external-store` as the next command,
  which marks the default root and not X.  `ForeignData`: data that nothing is
  bound to is never taken over.  `storage clear-override` points away from
  records where `storage set` refuses to; an init without
  `--create-external-store` writes the manifest before it refuses the root.

Seen in the definitions and in no run: a build that overlaps a cancellation
saves the old status; `info` and the inventory fail on a directory that a
refused creation left without metadata; activating a plan can take a workshop's
activation back; a lock just being made reads as invalid; `workshop cancel` and
the planning of a workshop do not render it again.
`docs/plan-lifecycle.md:21` lets any plan be cancelled, `ValidTransitions` does
not allow it for a done one; `docs/plan-lifecycle.md:43` forbids placeholders in
every required component, `PlaceholderChecked` leaves the request out.

### Fairness

Three specifications are fair, each only to what goes on by itself:

- `Guidance`: `WF_vars(Follow)`, an agent that keeps doing what it is told and
  users who answer.  Nothing that users do on their own is fair.
- `Migration`: `WF_vars` of the steps of a command that runs, and of `storage
  recover` without options by whoever is idle.  A process that is running goes
  on, it waits for nothing (a lock that is held is a refusal); without the
  second nothing would ever recover.  `Recovered` says what follows once
  recoveries are all that is still given; killed recoveries are bounded by
  `MaxCrashes`.
- `Location`: `WF_vars(Advance)`, as above, and `WF_vars(InitAgain)`: the user
  repeats `init --create-external-store`, as its error messages advise.

The other specifications state no fairness and make no liveness claim; of the
lock, `LockMovesOn` proves that nobody goes round in circles for it.

### Bounds

- `MaxVersion` 3: a version, one that follows it and one after that; the steps
  depend on the version only through being the newest, and two commits are
  enough for one to overwrite another.
- Components: two whose validators look for different lines (open questions,
  TODO items), so that one may be good and the other not, and so that a step
  may come between the two files of one command.  The two-user runs take one
  component because their question is the order of accesses to plan.yaml.
- Inputs: the empty text, a good one and a draft with a placeholder; appending
  yields more.
- Processes: two for the plan, since lost updates and torn reads are between a
  pair; three for the lock and the reservation, since one can change what a
  second has seen while a third competes with it.
- Crashes: one for each question about a single repair, two where a crash may
  hit the repair itself.
- `Workshop`: `MaxPlans` 2, a plan that lost its link and a retry;
  `MaxVersion` 3 as for plans; one user, since two users lose each other's
  commits as `PlanStore_lost_commit` shows and what holds for any number of them
  is proved.
- `Guidance`: two unfilled sections, so that one is left when the first is
  filled; counts up to 2, the largest number of questions any of the profiles
  wants; four plans, two that were there and the two the guidance may call for
  (one for the plan that is missing, one for the workshop); two commands of users in between, enough to undo what was done
  twice or to change profile and plan.
- `Migration`: one record and one number that was given out and is gone, room
  for one more plan; `MaxEvents` 3 lets a migration meet two crashes (its own and
  that of its recovery), two migrations one crash, or three migrations each
  other (a stale plan, the migration that makes it stale and one more).  Two
  invocations are enough for both to find one stale lock.  Two places: where the data is and where it goes.
- `Location`: two roots, the default and another; two commands, for instance an
  override and a `storage set`, or two `storage set` that have both passed their
  checks; two plans, one before a check and one after it; two crashes, an init
  and its repetition.
- `MaxAttempts` 2 instead of 32: one retry and one defeat.  `MaxId` leaves room
  for three new plans, enough for two rivals to defeat a third.

## Proofs

| Theorem | Assumes | For every value of |
| --- | --- | --- |
| `PlanStoreProofs!TypeCorrect` | | processes, components, inputs, commands, versions, crashes |
| `PlanStoreProofs!HistoryAlwaysWellFormed` | | the same |
| `PlanStoreProofs!SingleWriterAppendOnly` | one process | the same |
| `PlanStoreWriterProofs!SnapshotsAlwaysConsistent`, `SingleWriterSnapshotsImmutable`, `CrashesBoundTheGaps`, `SingleWriterHandoffSound`, `SuccessLeavesLatest`, `DoneSnapshotsAlwaysReady` | one process | components, inputs, commands, versions, crashes |
| `PlanStoreWriterProofs!UncrashedVersionsComplete`, `UncrashedDoneIsReady`, `UncrashedHandoffMatches` | one process | the same; they speak of the time before the first crash |
| `PlanStoreWriterProofs!WriterKeepsPromise`, `EveryVersionCounts` | one process, no crash | components, inputs, commands, versions |
| `WriteLockProofs!TypeCorrect`, `LockMovesOn` | | processes, pids, hosts, crashes |
| `WriteLockProofs!LockExcludes`, `LockKept` | distinct pids, one host, no crash | processes |
| `WriteLockProofs!SomeoneAlwaysGetsIn` | distinct pids, one host, no crash, at least one process | processes |
| `WriteLockProofs!LonerAlwaysGetsIn` | no pid given out on two machines (`PidsTellTheHost`) | processes, pids (reused ones, too), hosts, crashes |
| `AllocationProofs!TypeCorrect`, `ReservationExclusive`, `OrphanUnique`, `PointersLoadable`, `NumbersIncrease`, `AbandonedForever`, `ContentionIsReal` | | processes, imported records, tombstones, attempts, crashes |
| `WorkshopProofs!TypeCorrect`, `HistoryAlwaysWellFormed`, `LinksAlwaysResolve` | | processes, components, inputs, commands, plans, versions, crashes |
| `WorkshopProofs!SingleWriterKeepsRecord`, `SingleWriterStaysCancelled`, `SingleWriterPlansReady`, `SingleWriterShaped`, `SingleWriterLinks`, `SingleWriterSnapshotsNested` | one process | the same |
| `GuidanceProofs!GuidanceTyped`, `GuidanceAgreesWithGates`, `GuidanceMovesOn`, `NearnessWellFounded`, `ShapedIsPlannedNext` | | profiles, counts, topics, plans, commands |
| `LocationProofs!TypeCorrect`, `BoundBeforeWritten`, `SuccessIsUsable`, `RecordsStayInSight`, `InitMovesOn`, `OneInitSuffices`, `StaysUsable` | | roots, plans, commands, crashes |
| `MigrationProofs!TypeCorrect`, `NumbersAlwaysFollow`, `ActiveAlwaysUsable`, `ReceiptAlwaysTrue`, `SourceAlwaysPreserved`, `OneAtATime`, `InvocationMovesOn`, `JournalsMoveOn`, `RecoveryDecides` | projects as the program leaves them (`LayoutsAssumption`) | projects, numbers, invocations, migrations, crashes |

That the variables keep their types, that a reservation is exclusive and that a
workshop's history is well formed is checked here only: the runs spend no
property on what is proved for every instance and a stronger property of the
run depends on.

**History of a plan.**  That plan.yaml is well formed is not inductive: a
process writes what it read long ago.  `HistoryInv` says in addition that every
Plan object in memory is as well formed as the file (`PlanHeld`), that a command
being carried out was begun below the version bound (`CommandHeld`), and that
whoever is writing has an allowed transition from the Plan object it holds
(`AllowedHeld`).  It needs nothing of the other processes, which is why any
number of them, lost updates included, keep the history well formed.
`SingleWriterAppendOnly` adds that the one process's Plan object is plan.yaml
itself whenever it is about to write (`Synced`).

**Snapshots of a plan.**  That a finished snapshot is of its version needs to
know what the process that makes it holds.  `SnapInv` says that from the commit
to the end of the command the Plan object is plan.yaml (`PlanIsMeta`), that
nothing numbered above the current version is finished (`NoneAhead`), and how
far the snapshot under way has come (`SnapshotUnderWay`): it is not finished
until the last step, and the plan.yaml copied into it is the current one.  Hence
no step writes into a finished one.  `GapInv` counts the versions without a
snapshot apart from the one under way; only a crash takes that exception away.
All of this needs one writer: two of them snapshot the same version number.

**Handoffs of a plan.**  `HandoffInv` adds what a build relies on: the texts it
has read are those on disk (`TextsRead`), whoever renders was let through by the
gate for what is on disk (`BuildGate`), and what it has written so far, and what
it leaves when it succeeds, is of the plan as it is (`HandoffUnderWay`).  A
handoff shows fewer components than were validated, so the gate of the whole
implies what `HandoffSound` says of the part (`FewerComponents`).

**Done versions after a crash.**  `DoneIsReady` is run without crashes: one
between the component files and plan.yaml leaves a done plan over drafts.  The
finished snapshots are not touched by that.  `ReadyInv` says that a mutation has
written exactly the texts its gate let through, as far as it has come
(`TextsWritten`), and that from the commit to the end of the snapshot a done
plan lies over such texts (`GatePassed`), so the copies hold them:
`DoneSnapshotsReady`, with any number of crashes, unlike `UncrashedDoneIsReady`.

**Before the first crash.**  After a crash the newest version may lack its
snapshot, the hashes may be of other texts and a done plan may be unfinished, so
three properties are run without crashes.  The theorems say it without
`MaxCrashes = 0`: `UncrashedInv` has `Clean` as long as `crashes = 0`, namely
that every older version is finished (`OlderComplete`), that the newest
snapshot holds the texts on disk, as far as it has been copied (`TextsSaved`),
that the recorded hashes, and the guardrails of a done plan, agree with the texts
unless these are being written (`MetaAgrees`), what the commit will be and which
texts it still has to write (`CommitPending`), and that no version is rendered
before its snapshot is finished (`RenderedLater`).

**The promise.**  `WriterKeepsPromise` takes the steps one by one under the same
invariant.  The write of plan.yaml appends one entry to `VersionLog`
(`LogCommitted`): the entries before it are read off finished snapshots, and the
new one off the component files, which are those the snapshot is then made of.
Every other step leaves the log as it is (`LogKept`).  `EveryVersionCounts` draws
from the promise what it means for a reader of the versions: all of them are
sound, none is a repetition of the one before, none is ever rewritten.

**Lock.**  `LockInv` says that whoever is between creating and releasing the
lock made the file that is there (`FileOfOwner`), that a pid somebody read is
another's, found dead only when that invocation has ended and so has removed
its file, and that therefore nobody gets as far as unlinking for another
(`Readers`).  With a crash, a reused pid or a second host this is false, so the
two theorems assume none of them (`CleanSetting`).  `Progress` gives that not
all of them are refused: whoever is past its attempt to create the file has met
somebody who is inside or succeeded, and whoever is inside succeeds.

`LonerInv` needs none of that.  As long as an invocation has met nobody, nobody
else is running, so the lock file it looks at, opens and reads is the one that
is there (`SeesTheFile`); and an empty file has a maker that is either about to
write it or was killed (`EmptyFile`).  That no pid was given out on two machines
is needed: a lock left by the dead of another host counts as active while the pid
of whoever looks is the same.

`LockMovesOn` assumes nothing at all: the second look at the lock file, after
`open` found one, comes with no third, so each step leaves an invocation fewer
steps, whatever the others do to the file.

**Allocation.**  `AllocationInv` describes what a delayed `mkdir` can rely on.
Since its scan (`ScanInv`), everything made lies above all it found and begins
with the number it is about to compute.  Once it has computed that number
(`NumberInv`), every lower directory is complete, every tombstone is lower, the
number's predecessor is in use, and if anything at or above it exists then so
does the number itself.  So a `mkdir` that succeeds finds every number lower
and every record complete (`MkdirAbove`), from which the theorems follow.
`RivalInv` counts: of the directories there now, or found by the last scan, as
many as the attempts lost were not there when the invocation began, and the
number it tries next is none of them, so that a further defeat is a further
directory.

**Workshop.**  `WorkshopInv` is the argument for plans with the links in it:
every Workshop object that is held is as sound as the file, and the plan that
is about to be linked names its source already.  With one writer (`SoleInv`)
the object held is `workshop.yaml` itself up to the component hashes, the texts
read are those on disk, no file is written that makes a shaped workshop worse,
and a plan is only made from a ready workshop.  `LinkInv` counts: the plans
without a link, apart from the one under way, are no more than the crashes, for
only a crash ends a command between `MakePlan` and `Link`.  `NestInv` says of
every finished snapshot that its workshop.yaml is one the current file continues
(`SnapFits`) and of the one under way that it is of the file as it is
(`SnapUnderWay`); so a finished one continues all before it.

**Next action.**  Everything the guidance says is computed from what is there,
so the question is which states are reachable.  `GuidanceInv` says that done and
shaped are reached through the gates only: a done plan has nothing unfilled, no
placeholder and no open question (`DoneIsSound`), a shaped workshop passes its
guardrails (`ShapedIsShapely`).  What may go out of date is the number of answers
a profile wants, which the configuration can change under a done plan, and that
is why the guidance can ask to rework it.  `RoomLeft` says that the bound on
plans never refuses a plan the guidance asks for.  `Accepted` is
`SuggestionAccepted` with ENABLED written out as the guards of the command
that follows the suggestion; `ChecksOfCommands` relates these guards to the
actions that have them.

That following leads in no circle is `GuidanceMovesOn`.  What is left is a pair:
`Stage`, how far project, workshop and the choice of a plan are, and `WorkLeft`,
what the plan in hand still wants, namely texts to write and correct, topics and
plain questions to ask, questions to answer and the approval.  `MeasureInv` adds
to `GuidanceInv` that the profile in use wants no more answers than are counted
(`CountsInBounds`), that a plan has finitely many open questions
(`FewQuestions`) and that a workshop has a project (`WorkshopInProject`).
Each suggestion lowers the pair: `FollowWorkshopNearer` lowers the stage,
`FollowPlanNearer` the work in the same stage or the stage itself.  The order is
well founded (`NearnessWellFounded`).  With `GuidanceAgreesWithGates`, that
something can always be done, this is all of `HandoffReached` but the fairness
and ENABLED, and of its exceptions `OpenEnded` and `Unanswerable` are those
the measure needs.  That `Say(name)` is never `Nil` is an assumption on the
model value only (`NilIsNoItem`).

**Location.**  `LocInv` says what a running init may rely on at each step: on
the fresh path nothing has been written that is not its own (`PathInv`), and
unless the configuration was changed under it the directory it loaded is still
the one the configuration names (`UnracedInv`).  Together with `BoundFirst` this
gives the success reports, and that no step of an init loses a visible
record.  For `storage set` it takes `UnlockedInv`, about the commands that are
between reading and writing: what a `plan create` has loaded is still bound
(`CreatingInv`), and where a `storage set` that redirects the configuration saw
it point to there are only records newer than its check (`SettingInv`).  When it
writes, the configuration either is what it saw, and the records it hides are
those newer ones, or has been changed since.

`InitCompletes` has two halves.  `InitMovesOn`: `Left` counts the steps an init
has before it, at most eleven, and every step lowers it, also under
interference.  `OneInitSuffices`: the last of them leaves a usable project, or
`ConfigAlone`, `OtherRoot` or `ForeignData`.  It needs `SetUpInv`, which says
that before there is a manifest nothing is at an external root (`RootsUnused`),
so that a first init never finds the default one occupied, and that what an init
has written, the marker, its empty directory, the binding and the manifest, is
still there when it goes on (`SetUp`).  And `StaysUsable` keeps what was reached.

**Migration.**  `MigrationInv` separates what lies on the disk from what the
invocations know.  Every directory, also a stage that is half converted or was
left behind, is `Loose`: its tombstones are numbers that were retired when the
project was found, and none of its records is.  Data is `Sound` besides: still
as found, or in schema 4 with a tombstone for every gap (`DataInv`).  A journal
(`JournalInv`) holds sound trees only; what it replaces nothing with has every
number that is not late, so that it may become the data in use, and what it
replaces data with has the same numbers that are not late, so that going on and
going back are both harmless.  Only one journal that replaced nothing is in
place, so that an undoing never takes away the data in use.  `ProcInv` says
what a plan made before the lock may rely on inside it: the numbers it took,
not where the data in use is.  It does not mention the lock.  As long as there
is no `Overlap` one plan is at work, and beyond that the model does not go;
whoever waits relies on nothing that another can change, and `plan create`,
which takes no lock, adds only numbers above all that are known, which are late
if a copy is under way.

How far the lock itself keeps two from being at work is `OneAtATime`: whoever and
however many have died, only two that have found the same stale lock file, before
either removed it, can both get in.  `LockInv` says that those inside, and only
they, have made the file, and that what is about to be removed is still stale.
It is kept by every step, `Unlink` included, from states in which at most one is
about to remove a stale file (`OneRecovers`); before the first death there is
none.

The same invariant gives the halves of `Recovered` that are not fairness.  Each
invocation has at most eleven steps
(`InvocationMovesOn`), journals only go on (`JournalsMoveOn`), and a recovery
without options finds each incomplete journal resumable or undoable and completes
what it resumes, so that it ends with its journal decided (`RecoveryDecides`).
The exceptions are a plan made in the target between its look at the journal and
the copy (`Overtaken`), where the next recovery undoes that journal, and a
recovery that has lost its lock to another, which is refused.

Only model-checked: what the prover cannot reach.  That is liveness under
fairness (`HandoffReached`, `ShapedIsPlanned`, `Recovered`, `InitCompletes`),
ENABLED (`SuggestionAccepted`, whose guards `GuidanceAgreesWithGates` proves to
hold instead), and induction over data; the modules with theorems
declare no RECURSIVE operator.  What each of the four liveness properties says of
single steps is proved, as above; that the steps are taken is what the fairness
of the specification gives and TLC checks.  The bound of a recorded version or
number is a guard of the model, not of the program, and the theorems hold for
every value of it.  The new invariants of this kind were model-checked on the
instances of the runs before they were proved.

## Plan

Done: all modules above, with the proofs listed; every safety property and
every action property of a passing run is a theorem, but for
`SuggestionAccepted`, and of every liveness property the part that is about
single steps.  Worth adding next: the promise of `VersionedPlan` after a crash,
once the next command has succeeded; what several writers still keep of the
snapshots; `user-data` as a place of its own in `Location`.

## Not modelled

Path discovery, the Markdown layout of plans, workshops and handoffs, and the
wording of errors are computations on strings without state.  The validation of
a bundle and its dry run look at one text in one process; what they could get
wrong is a comparison of two validators on strings.  `status`, `doctor`, `info`
and the migration's read-only report change nothing.  The ledgercore library is
modelled only as far as the code here depends on it.  The files with
re-exports, the error class and the entry point have no state.
