------------------------------ MODULE PlanStore ------------------------------
(***************************************************************************)
(* One plan of planledger and the commands that change it: `plan component *)
(* set' and `append', `plan status', `plan cancel', `plan apply' with an   *)
(* update bundle, and `plan build'.  Every command is a process of its own *)
(* over the same directory:                                                *)
(*                                                                         *)
(*    plan.yaml                 meta       status, version, history, hashes *)
(*    components/NN-*.md        content    one text per component          *)
(*    versions/vNNNN/           snaps      a copy made after every commit  *)
(*    rendered/ID-vNNNN.md      rendered   the handoff of a version        *)
(*    rendered/latest.md        latest     the handoff last built          *)
(*                                                                         *)
(* Each file is replaced atomically, nothing spans two files and none of   *)
(* these commands takes the write lock, so the steps below are the single  *)
(* file reads and writes, in the order of the code.                        *)
(***************************************************************************)
EXTENDS Integers, Sequences, FiniteSets, Functions

CONSTANTS
  Procs,        \* planledger invocations that may run at the same time
  Components,   \* the components modelled, named by their `order'
  Inputs,       \* texts a user supplies, non-empty sequences of lines
  Commands,     \* the commands users give (a subset of AllCommands)
  MinResolved,  \* min_resolved_required_questions_before_done
  MaxVersion,   \* bound: a command is begun only below this version
  MaxCrashes,   \* bound: processes that die, or fail on a write, half way
  Nil,          \* a file or value that is absent
  Torn          \* a rendered file whose write was cut short

-----------------------------------------------------------------------------
(* Components and texts *)

\* COMPONENT_DEFINITIONS: request 0, summary 10, context 20, open_questions 30,
\* assumptions 40, approach 50, todo_items 60, target_files 70, validation 80,
\* risks 90, rollback 95, notes 99.
ComponentOrders == {0, 10, 20, 30, 40, 50, 60, 70, 80, 90, 95, 99}
Required        == {0, 10, 20, 50, 60, 70, 80, 90}
Request         == 0
OpenQuestions   == 30

\* The components the handoff validator searches for placeholders, and those
\* in which it wants a TODO block, a file reference or a command.
PlaceholderChecked == {10, 20, 50, 60, 70, 80, 90}
EvidenceBearing    == {60, 70, 80}

\* A text is a sequence of lines; a line matters by what the validators see in
\* it: evidence (a complete TODO block, a file reference, a command, prose),
\* a placeholder, an open or an answered REQUIRED question.
Lines == {"fact", "tbd", "ask", "answered"}
Texts == Seq(Lines)
Empty == <<>>

\* An addition to an empty text replaces it, an empty addition changes nothing.
AppendText(current, addition) == current \o addition

Contents == [Components -> Texts]

\* A handoff leaves the request out unless --include-request is given.
RenderedComponents == Components \ {Request}

Statuses == {"new", "in_progress", "rework", "done", "cancelled"}

\* Mistaken variants, here and below, are what a property must tell from the
\* code: the mutation checks put each in the place of the definition it precedes.
AnyStatusCancels ==
  [new         |-> {"in_progress", "rework", "cancelled", "done"},
   in_progress |-> {"rework", "cancelled", "done"},
   rework      |-> {"in_progress", "cancelled", "done"},
   done        |-> {"rework", "cancelled"},
   cancelled   |-> {}]

ValidTransitions ==
  [new         |-> {"in_progress", "rework", "cancelled", "done"},
   in_progress |-> {"rework", "cancelled", "done"},
   rework      |-> {"in_progress", "cancelled", "done"},
   done        |-> {"rework"},
   cancelled   |-> {}]

\* _validate_transition: the same status is always accepted.
AllowedStep(current, next) == next = current \/ next \in ValidTransitions[current]

HasLine(text, line) == line \in Range(text)

RequiredFilled(contents) == \A c \in DOMAIN contents \cap Required : contents[c] # Empty

HandoffReady(contents) ==
  /\ \A c \in DOMAIN contents \cap PlaceholderChecked : ~HasLine(contents[c], "tbd")
  /\ \A c \in DOMAIN contents \cap EvidenceBearing : HasLine(contents[c], "fact")
  /\ OpenQuestions \in DOMAIN contents => ~HasLine(contents[OpenQuestions], "ask")

ResolvedQuestions(contents) ==
  IF OpenQuestions \in DOMAIN contents
    THEN Cardinality({i \in DOMAIN contents[OpenQuestions] :
                        contents[OpenQuestions][i] = "answered"})
    ELSE 0

ProfileSatisfied(contents) == ResolvedQuestions(contents) >= MinResolved

\* The gate of apply_plan_mutations and create_plan.
DoneAllowed(contents) ==
  RequiredFilled(contents) /\ HandoffReady(contents) /\ ProfileSatisfied(contents)

\* The gate of build_plan: validate_plan is called without the workspace, so
\* the prompt profile is not consulted.
BuildAllowed(status, contents) ==
  status = "done" => RequiredFilled(contents) /\ HandoffReady(contents)

-----------------------------------------------------------------------------
(* Commands *)

Build == [kind |-> "build", updates |-> <<>>, append |-> FALSE,
          status |-> Nil, force |-> FALSE]

Mutate(updates, append, status, force) ==
  [kind |-> "mutate", updates |-> updates, append |-> append,
   status |-> status, force |-> force]

Edit(key, text, append, force) == Mutate([c \in {key} |-> text], append, Nil, force)

ChangeStatus(status) == Mutate(<<>>, FALSE, status, FALSE)

Bundle(updates, status, force) == Mutate(updates, FALSE, status, force)

SetCommands ==
  {Edit(key, text, append, force) :
     key \in Components, text \in Inputs \cup {Empty}, append \in BOOLEAN, force \in BOOLEAN}

StatusCommands == {ChangeStatus(status) : status \in Statuses}

Updates == UNION {[K -> Inputs \cup {Empty}] : K \in (SUBSET Components) \ {{}}}

BundleCommands ==
  {Bundle(updates, status, force) :
     updates \in Updates, status \in Statuses \cup {Nil}, force \in BOOLEAN}

AllCommands == {Build} \cup SetCommands \cup StatusCommands \cup BundleCommands

ASSUME ProcsAssumption == Procs # {}
ASSUME ComponentsAssumption == Components \subseteq ComponentOrders
ASSUME InputsAssumption == Inputs \subseteq Texts \ {Empty}
ASSUME CommandsAssumption == Commands \subseteq AllCommands
ASSUME BoundsAssumption == MinResolved \in Nat /\ MaxVersion \in Nat \ {0} /\ MaxCrashes \in Nat

-----------------------------------------------------------------------------
VARIABLES
  meta, content, snaps, rendered, latest,   \* the plan's directory
  pc, cmd, plan, seen, todo,                \* each process: where it is, its
                                            \* command, its Plan object, the
                                            \* texts it holds, files left to do
  result,                                   \* how its last command ended
  crashes                                   \* crashes so far

disk  == <<meta, content, snaps, rendered, latest>>
local == <<pc, cmd, plan, seen, todo>>
vars  == <<meta, content, snaps, rendered, latest, pc, cmd, plan, seen, todo, result, crashes>>

Versions == 1 .. MaxVersion

\* plan.yaml.  `sha' holds the text a recorded hash is the hash of; `by' stands
\* for an entry's created_at and reason, which tell two commits apart.
Entry == [version : Versions, status : Statuses, by : Procs \cup {Nil}]
Meta  == [version : Versions, status : Statuses, sha : Contents,
          history : Seq(Entry), rendered : Versions \cup {0}]

\* versions/vNNNN: plan.yaml's copy, the components' copies (`tree' once the
\* directory exists) and manifest.yaml, which is written last.
Manifest == [version : Versions, status : Statuses, sha : Contents]
NoSnap   == [meta |-> Nil, tree |-> FALSE, files |-> [c \in Components |-> Nil],
             manifest |-> Nil]
Snapshot == [meta : Meta \cup {Nil}, tree : BOOLEAN,
             files : [Components -> Texts \cup {Nil}], manifest : Manifest \cup {Nil}]

Complete(snap) == snap.manifest # Nil

\* A rendered handoff.
Doc  == [version : Versions, status : Statuses, contents : [RenderedComponents -> Texts]]

\* An absent file or value is none of those that are there.
ASSUME NilAssumption ==
  /\ Nil \notin Statuses /\ Nil \notin Texts
  /\ Nil \notin Meta /\ Nil \notin Manifest

Idle    == "idle"
NoTexts == [c \in Components |-> Empty]

Mutating == {"read", "write", "snapshot", "copy_meta", "copy_tree", "copy_files"}
Building == {"load", "validate", "render", "latest", "save"}
Results  == {"none", "ok", "cancelled_plan", "invalid_status_transition",
             "invalid_plan", "os_error", "crashed"}

TypeOK ==
  /\ meta \in Meta
  /\ content \in Contents
  /\ snaps \in [Versions -> Snapshot]
  /\ rendered \in [Versions -> Doc \cup {Nil, Torn}]
  /\ latest \in Doc \cup {Nil, Torn}
  /\ pc \in [Procs -> {Idle} \cup Mutating \cup Building]
  /\ cmd \in [Procs -> Commands \cup {Build, Nil}]
  /\ plan \in [Procs -> Meta \cup {Nil}]
  /\ seen \in [Procs -> Contents]
  /\ todo \in [Procs -> SUBSET Components]
  /\ result \in [Procs -> Results]
  /\ crashes \in 0 .. MaxCrashes

-----------------------------------------------------------------------------
(* The plan a finished `plan create' leaves behind: version 1, its snapshot   *)
(* (taken before the build recorded last_rendered) and its rendered handoff.  *)

FirstMeta(status, contents, build) ==
  [version |-> 1, status |-> status, sha |-> contents,
   history |-> <<[version |-> 1, status |-> status, by |-> Nil]>>,
   rendered |-> build]

FullSnap(m, contents) ==
  [meta |-> m, tree |-> TRUE, files |-> contents,
   manifest |-> [version |-> m.version, status |-> m.status, sha |-> m.sha]]

DocOf(m, contents) ==
  [version |-> m.version, status |-> m.status,
   contents |-> Restrict(contents, RenderedComponents)]

InitialContents == {k \in [Components -> Inputs \cup {Empty}] :
                      Request \in Components => k[Request] # Empty}

Init ==
  \E s \in Statuses, k \in InitialContents :
    /\ s = "done" => DoneAllowed(k)
    /\ meta = FirstMeta(s, k, 1)
    /\ content = k
    /\ snaps = [v \in Versions |-> IF v = 1 THEN FullSnap(FirstMeta(s, k, 0), k) ELSE NoSnap]
    /\ rendered = [v \in Versions |-> IF v = 1 THEN DocOf(FirstMeta(s, k, 1), k) ELSE Nil]
    /\ latest = DocOf(FirstMeta(s, k, 1), k)
    /\ pc = [p \in Procs |-> Idle]
    /\ cmd = [p \in Procs |-> Nil]
    /\ plan = [p \in Procs |-> Nil]
    /\ seen = [p \in Procs |-> NoTexts]
    /\ todo = [p \in Procs |-> {}]
    /\ result = [p \in Procs |-> "none"]
    /\ crashes = 0

-----------------------------------------------------------------------------
(* A command ends: the process keeps nothing, its outcome is what it printed. *)

Finish(p, outcome) ==
  /\ pc' = [pc EXCEPT ![p] = Idle]
  /\ cmd' = [cmd EXCEPT ![p] = Nil]
  /\ plan' = [plan EXCEPT ![p] = Nil]
  /\ seen' = [seen EXCEPT ![p] = NoTexts]
  /\ todo' = [todo EXCEPT ![p] = {}]
  /\ result' = [result EXCEPT ![p] = outcome]

Goto(p, label) == pc' = [pc EXCEPT ![p] = label]

-----------------------------------------------------------------------------
(* apply_plan_mutations *)

\* A cancelled plan refuses edits and status changes unless forced.
Protected(c) ==
  meta.status = "cancelled" /\ (DOMAIN c.updates # {} \/ c.status # Nil) /\ ~c.force

RefuseCancelled(p) ==
  /\ pc[p] = Idle
  /\ \E c \in Commands \ {Build} : Protected(c)
  /\ Finish(p, "cancelled_plan")
  /\ UNCHANGED <<disk, crashes>>

\* load_plan: plan.yaml is read once; every later decision uses this copy.
BeginMutation(p) ==
  /\ pc[p] = Idle
  /\ meta.version < MaxVersion
  /\ \E c \in Commands \ {Build} : ~Protected(c) /\ cmd' = [cmd EXCEPT ![p] = c]
  /\ Goto(p, "read")
  /\ plan' = [plan EXCEPT ![p] = meta]
  /\ todo' = [todo EXCEPT ![p] = Components]
  /\ result' = [result EXCEPT ![p] = "none"]
  /\ UNCHANGED <<disk, seen, crashes>>

\* load_component_contents and render_plan_markdown read the component files
\* one by one, by order.
ReadText(p) ==
  /\ pc[p] \in {"read", "validate", "render"}
  /\ \E c \in todo[p] :
       /\ \A d \in todo[p] : c <= d
       /\ seen' = [seen EXCEPT ![p][c] = content[c]]
       /\ todo' = [todo EXCEPT ![p] = @ \ {c}]
  /\ UNCHANGED <<disk, pc, cmd, plan, result, crashes>>

NextText(p, c) ==
  LET updates == cmd[p].updates
  IN  IF c \notin DOMAIN updates THEN seen[p][c]
      ELSE IF cmd[p].append THEN AppendText(seen[p][c], updates[c])
      ELSE updates[c]

NextContents(p) == [c \in Components |-> NextText(p, c)]
NextStatus(p)   == IF cmd[p].status = Nil THEN plan[p].status ELSE cmd[p].status
Changed(p)      == {c \in Components : NextContents(p)[c] # seen[p][c]}

Decided(p) == pc[p] = "read" /\ todo[p] = {}

\* Mistake: --force also overrides the transition table.
TransitionForced(p) == cmd[p].force \/ AllowedStep(plan[p].status, NextStatus(p))

TransitionAllowed(p) == AllowedStep(plan[p].status, NextStatus(p))
\* Mistake: the gate is checked only when done is asked for.
GateWhenRequested(p) == cmd[p].status = "done" => DoneAllowed(NextContents(p))

GateOpen(p) == NextStatus(p) = "done" => DoneAllowed(NextContents(p))
Noop(p)     == Changed(p) = {} /\ NextStatus(p) = plan[p].status

RefuseTransition(p) ==
  /\ Decided(p) /\ ~TransitionAllowed(p)
  /\ Finish(p, "invalid_status_transition")
  /\ UNCHANGED <<disk, crashes>>

RefuseDone(p) ==
  /\ Decided(p) /\ TransitionAllowed(p) /\ ~GateOpen(p)
  /\ Finish(p, "invalid_plan")
  /\ UNCHANGED <<disk, crashes>>

\* Nothing differs from what was read: no version, only the build follows.
SkipMutation(p) ==
  /\ Decided(p) /\ TransitionAllowed(p) /\ GateOpen(p) /\ Noop(p)
  /\ Goto(p, "load")
  /\ cmd' = [cmd EXCEPT ![p] = Build]
  /\ UNCHANGED <<disk, plan, seen, todo, result, crashes>>

AcceptMutation(p) ==
  /\ Decided(p) /\ TransitionAllowed(p) /\ GateOpen(p) /\ ~Noop(p)
  /\ Goto(p, "write")
  /\ seen' = [seen EXCEPT ![p] = NextContents(p)]
  /\ todo' = [todo EXCEPT ![p] = Changed(p)]
  /\ UNCHANGED <<disk, cmd, plan, result, crashes>>

\* Mistake: a changed text keeps the hash of the old one.
WriteComponentUnhashed(p) ==
  /\ pc[p] = "write"
  /\ \E c \in todo[p] :
       /\ content' = [content EXCEPT ![c] = seen[p][c]]
       /\ todo' = [todo EXCEPT ![p] = @ \ {c}]
  /\ UNCHANGED <<meta, snaps, rendered, latest, pc, cmd, plan, seen, result, crashes>>

\* The changed files are written in the order the user gave them.
WriteComponent(p) ==
  /\ pc[p] = "write"
  /\ \E c \in todo[p] :
       /\ content' = [content EXCEPT ![c] = seen[p][c]]
       /\ plan' = [plan EXCEPT ![p].sha[c] = seen[p][c]]
       /\ todo' = [todo EXCEPT ![p] = @ \ {c}]
  /\ UNCHANGED <<meta, snaps, rendered, latest, pc, cmd, seen, result, crashes>>

\* Mistake: a commit that keeps the status replaces the last entry.
BumpCoalescing(m, status, p) ==
  LET entry == [version |-> m.version + 1, status |-> status, by |-> p]
  IN  [m EXCEPT !.status = status,
                !.version = m.version + 1,
                !.history = IF status = m.status
                              THEN [m.history EXCEPT ![m.version] = entry]
                              ELSE Append(m.history, entry)]

\* Mistake: a change of status makes no new version.
BumpEditsOnly(m, status, p) ==
  IF status # m.status THEN [m EXCEPT !.status = status]
  ELSE [m EXCEPT !.version = m.version + 1,
                 !.history = Append(m.history,
                   [version |-> m.version + 1, status |-> status, by |-> p])]

\* The Plan object with one version more, and its entry in the history.
Bump(m, status, p) ==
  [m EXCEPT !.status = status,
            !.version = m.version + 1,
            !.history = Append(m.history,
                          [version |-> m.version + 1, status |-> status, by |-> p])]

\* Mistake: the Plan object the snapshot is named after keeps the old version.
WriteMetadataStale(p) ==
  /\ pc[p] = "write" /\ todo[p] = {}
  /\ meta' = Bump(plan[p], NextStatus(p), p)
  /\ cmd' = [cmd EXCEPT ![p] = Build]
  /\ Goto(p, "snapshot")
  /\ UNCHANGED <<content, snaps, rendered, latest, plan, seen, todo, result, crashes>>

\* Mistake: a change of status is not snapshotted.
WriteMetadataUnsaved(p) ==
  /\ pc[p] = "write" /\ todo[p] = {}
  /\ plan' = [plan EXCEPT ![p] = Bump(plan[p], NextStatus(p), p)]
  /\ meta' = Bump(plan[p], NextStatus(p), p)
  /\ cmd' = [cmd EXCEPT ![p] = Build]
  /\ Goto(p, IF NextStatus(p) = plan[p].status THEN "snapshot" ELSE "load")
  /\ UNCHANGED <<content, snaps, rendered, latest, seen, todo, result, crashes>>

\* plan.yaml is replaced by the whole Plan object read at the start.
WriteMetadata(p) ==
  /\ pc[p] = "write" /\ todo[p] = {}
  /\ plan' = [plan EXCEPT ![p] = Bump(plan[p], NextStatus(p), p)]
  /\ meta' = Bump(plan[p], NextStatus(p), p)
  /\ cmd' = [cmd EXCEPT ![p] = Build]
  /\ Goto(p, "snapshot")
  /\ UNCHANGED <<content, snaps, rendered, latest, seen, todo, result, crashes>>

-----------------------------------------------------------------------------
(* snapshot_version, called with the Plan object just written *)

\* An existing directory of that version is removed, then made anew.
ResetSnapshot(p) ==
  /\ pc[p] = "snapshot"
  /\ snaps' = [snaps EXCEPT ![plan[p].version] = NoSnap]
  /\ Goto(p, "copy_meta")
  /\ UNCHANGED <<meta, content, rendered, latest, cmd, plan, seen, todo, result, crashes>>

\* shutil.copy2 copies whatever plan.yaml is by now.
CopyMetadata(p) ==
  /\ pc[p] = "copy_meta"
  /\ snaps' = [snaps EXCEPT ![plan[p].version].meta = meta]
  /\ Goto(p, "copy_tree")
  /\ UNCHANGED <<meta, content, rendered, latest, cmd, plan, seen, todo, result, crashes>>

\* Mistake: only the required components are copied.
MakeRequiredTree(p) ==
  /\ pc[p] = "copy_tree" /\ ~snaps[plan[p].version].tree
  /\ snaps' = [snaps EXCEPT ![plan[p].version].tree = TRUE]
  /\ Goto(p, "copy_files")
  /\ todo' = [todo EXCEPT ![p] = Components \cap Required]
  /\ UNCHANGED <<meta, content, rendered, latest, cmd, plan, seen, result, crashes>>

\* shutil.copytree makes the directory first and fails when it is there.
MakeTree(p) ==
  /\ pc[p] = "copy_tree" /\ ~snaps[plan[p].version].tree
  /\ snaps' = [snaps EXCEPT ![plan[p].version].tree = TRUE]
  /\ Goto(p, "copy_files")
  /\ todo' = [todo EXCEPT ![p] = Components]
  /\ UNCHANGED <<meta, content, rendered, latest, cmd, plan, seen, result, crashes>>

\* The directory appeared, or vanished, under the copy: another process is at
\* work on the same version and this command ends with an OSError.
CopyFails(p) ==
  /\ \/ pc[p] = "copy_tree" /\ snaps[plan[p].version].tree
     \/ pc[p] = "copy_files" /\ todo[p] # {} /\ ~snaps[plan[p].version].tree
  /\ Finish(p, "os_error")
  /\ UNCHANGED <<disk, crashes>>

\* Directory order is arbitrary.
CopyFile(p) ==
  /\ pc[p] = "copy_files" /\ snaps[plan[p].version].tree
  /\ \E c \in todo[p] :
       /\ snaps' = [snaps EXCEPT ![plan[p].version].files[c] = content[c]]
       /\ todo' = [todo EXCEPT ![p] = @ \ {c}]
  /\ UNCHANGED <<meta, content, rendered, latest, pc, cmd, plan, seen, result, crashes>>

WriteManifest(p) ==
  /\ pc[p] = "copy_files" /\ todo[p] = {}
  /\ snaps' = [snaps EXCEPT ![plan[p].version].manifest =
                 [version |-> plan[p].version, status |-> plan[p].status,
                  sha |-> plan[p].sha]]
  /\ Goto(p, "load")
  /\ UNCHANGED <<meta, content, rendered, latest, cmd, plan, seen, todo, result, crashes>>

-----------------------------------------------------------------------------
(* build_plan, which every mutating command calls last *)

BeginBuild(p) ==
  /\ pc[p] = Idle
  /\ Build \in Commands
  /\ cmd' = [cmd EXCEPT ![p] = Build]
  /\ Goto(p, "load")
  /\ result' = [result EXCEPT ![p] = "none"]
  /\ UNCHANGED <<disk, plan, seen, todo, crashes>>

LoadForBuild(p) ==
  /\ pc[p] = "load"
  /\ plan' = [plan EXCEPT ![p] = meta]
  /\ seen' = [seen EXCEPT ![p] = NoTexts]
  /\ todo' = [todo EXCEPT ![p] = Components]
  /\ Goto(p, "validate")
  /\ UNCHANGED <<disk, cmd, result, crashes>>

Validated(p) == pc[p] = "validate" /\ todo[p] = {}

RefuseBuild(p) ==
  /\ Validated(p) /\ ~BuildAllowed(plan[p].status, seen[p])
  /\ Finish(p, "invalid_plan")
  /\ UNCHANGED <<disk, crashes>>

\* Mistake: the build does not look at what the validation found.
StartRenderUnchecked(p) ==
  /\ Validated(p)
  /\ Goto(p, "render")
  /\ seen' = [seen EXCEPT ![p] = NoTexts]
  /\ todo' = [todo EXCEPT ![p] = RenderedComponents]
  /\ UNCHANGED <<disk, cmd, plan, result, crashes>>

\* The texts that were validated are dropped and read a second time.
StartRender(p) ==
  /\ Validated(p) /\ BuildAllowed(plan[p].status, seen[p])
  /\ Goto(p, "render")
  /\ seen' = [seen EXCEPT ![p] = NoTexts]
  /\ todo' = [todo EXCEPT ![p] = RenderedComponents]
  /\ UNCHANGED <<disk, cmd, plan, result, crashes>>

WriteVersioned(p) ==
  /\ pc[p] = "render" /\ todo[p] = {}
  /\ rendered' = [rendered EXCEPT ![plan[p].version] = DocOf(plan[p], seen[p])]
  /\ Goto(p, "latest")
  /\ UNCHANGED <<meta, content, snaps, latest, cmd, plan, seen, todo, result, crashes>>

\* Mistake: latest.md is written only when it is missing.
WriteLatestOnce(p) ==
  /\ pc[p] = "latest"
  /\ latest' = IF latest = Nil THEN DocOf(plan[p], seen[p]) ELSE latest
  /\ Goto(p, "save")
  /\ UNCHANGED <<meta, content, snaps, rendered, cmd, plan, seen, todo, result, crashes>>

WriteLatest(p) ==
  /\ pc[p] = "latest"
  /\ latest' = DocOf(plan[p], seen[p])
  /\ Goto(p, "save")
  /\ UNCHANGED <<meta, content, snaps, rendered, cmd, plan, seen, todo, result, crashes>>

\* plan.yaml is replaced once more by the Plan object the build loaded.
SaveRendered(p) ==
  /\ pc[p] = "save"
  /\ meta' = [plan[p] EXCEPT !.rendered = plan[p].version]
  /\ Finish(p, "ok")
  /\ UNCHANGED <<content, snaps, rendered, latest, crashes>>

-----------------------------------------------------------------------------
(* A process dies, or a write raises, between two steps.  The rendered files  *)
(* are written in place, so they may also be cut short.                      *)

Crash(p) ==
  /\ pc[p] # Idle
  /\ crashes < MaxCrashes
  /\ crashes' = crashes + 1
  /\ Finish(p, "crashed")
  /\ \/ UNCHANGED <<rendered, latest>>
     \/ /\ pc[p] = "render" /\ todo[p] = {}
        /\ rendered' = [rendered EXCEPT ![plan[p].version] = Torn]
        /\ UNCHANGED latest
     \/ /\ pc[p] = "latest"
        /\ latest' = Torn
        /\ UNCHANGED rendered
  /\ UNCHANGED <<meta, content, snaps>>

Begin(p) == RefuseCancelled(p) \/ BeginMutation(p) \/ BeginBuild(p)

Step(p) ==
  \/ ReadText(p)
  \/ RefuseTransition(p) \/ RefuseDone(p) \/ SkipMutation(p) \/ AcceptMutation(p)
  \/ WriteComponent(p) \/ WriteMetadata(p)
  \/ ResetSnapshot(p) \/ CopyMetadata(p) \/ MakeTree(p) \/ CopyFails(p)
  \/ CopyFile(p) \/ WriteManifest(p)
  \/ LoadForBuild(p) \/ RefuseBuild(p) \/ StartRender(p)
  \/ WriteVersioned(p) \/ WriteLatest(p) \/ SaveRendered(p)

Next == \E p \in Procs : Begin(p) \/ Step(p) \/ Crash(p)

Spec == Init /\ [][Next]_vars

-----------------------------------------------------------------------------
(* Properties of the history, whoever writes and whoever crashes *)

\* The history in a plan.yaml numbers its entries 1, 2, 3, ..., ends with the
\* current version and status, and every two neighbours are a transition that
\* VALID_TRANSITIONS allows (apply_plan_mutations).
WellFormed(m) ==
  /\ Len(m.history) = m.version
  /\ \A i \in 1 .. m.version : m.history[i].version = i
  /\ m.history[m.version].status = m.status
  /\ \A i \in 1 .. m.version - 1 :
       AllowedStep(m.history[i].status, m.history[i + 1].status)

HistoryWellFormed == WellFormed(meta)

\* A plan.yaml, once written, is only ever extended: a commit that was made is
\* never taken back by a later write of plan.yaml (apply_plan_mutations and
\* build_plan both replace the whole file by what they read earlier).
Extends(m, old) ==
  /\ old.version <= m.version
  /\ \A i \in 1 .. old.version : m.history[i] = old.history[i]

HistoryAppendOnly == [][Extends(meta', meta)]_vars

-----------------------------------------------------------------------------
(* The inductive invariant behind TypeOK and HistoryWellFormed: what a process *)
(* holds in memory between its reads and its writes is as sound as plan.yaml. *)

Holds(p) == pc[p] \notin {Idle, "load"}

PlanHeld    == \A p \in Procs : Holds(p) => plan[p] \in Meta /\ WellFormed(plan[p])
CommandHeld == \A p \in Procs : pc[p] \in {"read", "write"} =>
                 cmd[p] \in Commands \ {Build} /\ plan[p].version < MaxVersion
AllowedHeld == \A p \in Procs : pc[p] = "write" => TransitionAllowed(p)

HistoryInv == TypeOK /\ PlanHeld /\ CommandHeld /\ AllowedHeld /\ HistoryWellFormed

-----------------------------------------------------------------------------
(* Properties of the snapshots *)

\* A finished snapshot is of its own version: its plan.yaml, its manifest and
\* the entry of the history tell the same version, status and hashes.
SnapshotConsistent ==
  \A v \in Versions : LET s == snaps[v] IN Complete(s) =>
    /\ s.meta # Nil /\ s.meta.version = v
    /\ s.manifest = [version |-> v, status |-> s.meta.status, sha |-> s.meta.sha]
    /\ Extends(meta, s.meta)

\* A finished snapshot is never touched again.
SnapshotsImmutable ==
  [][\A v \in Versions : Complete(snaps[v]) => snaps'[v] = snaps[v]]_vars

Quiescent == \A p \in Procs : pc[p] = Idle

\* Between two commands every version has its snapshot, and the component
\* files are what the newest snapshot and the recorded hashes say.
VersionsComplete ==
  Quiescent =>
    /\ \A v \in 1 .. meta.version : Complete(snaps[v])
    /\ snaps[meta.version].files = content
    /\ meta.sha = content

\* Each crash can cost at most one version its snapshot.
MissingSnapshots == {v \in 1 .. meta.version : ~Complete(snaps[v])}
OneGapPerCrash == Quiescent => Cardinality(MissingSnapshots) <= crashes

-----------------------------------------------------------------------------
(* Properties of `done' and of the handoff *)

\* Between two commands a plan that says done passes every done guardrail.
DoneIsReady == Quiescent /\ meta.status = "done" => DoneAllowed(content)

\* A handoff that says done holds texts the handoff validator accepts.
HandoffSound ==
  \A d \in (Range(rendered) \cup {latest}) \ {Nil, Torn} :
    BuildAllowed(d.status, d.contents)

\* The handoff of a version shows the texts of that version's snapshot.
HandoffMatchesSnapshot ==
  \A v \in Versions :
    Complete(snaps[v]) /\ rendered[v] # Nil =>
      rendered[v].contents = Restrict(snaps[v].files, RenderedComponents)

\* After a command that succeeded, latest.md is the current version's handoff.
LatestIsCurrent ==
  (Quiescent /\ "ok" \in Range(result)) =>
    latest = DocOf(meta, content) /\ latest = rendered[meta.version]

-----------------------------------------------------------------------------
(* The abstract specification: the log of versions is read off the history    *)
(* and the snapshots; the newest version, until its snapshot is finished, is  *)
(* what the component files hold.                                            *)

VersionLog ==
  [v \in 1 .. meta.version |->
     [status   |-> meta.history[v].status,
      contents |-> IF Complete(snaps[v]) THEN snaps[v].files ELSE content]]

Promise == INSTANCE VersionedPlan WITH log <- VersionLog, Ready <- DoneAllowed

\* A single writer that does not crash implements the promise of VersionedPlan.
ImplementsVersionedPlan == Promise!Spec
=============================================================================
