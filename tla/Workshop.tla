------------------------------- MODULE Workshop -------------------------------
(***************************************************************************)
(* One planning workshop, the commands that change it, and the plans made  *)
(* from it by `plan create --from-workshop'.  Every command is a process   *)
(* of its own over the same files and takes no lock:                       *)
(*                                                                         *)
(*    workshop.yaml          meta      status, version, history, the plans *)
(*                                     linked, the version last rendered   *)
(*    components/*.md        content   one text per component              *)
(*    versions/vNNNN/        snaps     a copy made after every commit      *)
(*    the plan records       plans     which exist, which name their source *)
(*                                                                         *)
(* A step is the writing of one file.  The component files are read, and   *)
(* copied, in one step: PlanStore has the same loops file by file, and the *)
(* rendered files, which nothing here reads back.                          *)
(***************************************************************************)
EXTENDS Integers, Sequences, FiniteSets, Functions

CONSTANTS
  Procs,        \* planledger invocations that may run at the same time
  Components,   \* the components modelled, named by their `order'
  Inputs,       \* texts a user supplies, non-empty sequences of lines
  Commands,     \* the commands users give (a subset of AllCommands)
  MaxPlans,     \* bound: plans made from the workshop
  MaxVersion,   \* bound: a command is begun only below this version
  MaxCrashes,   \* bound: processes that die, or fail on a write, half way
  Nil           \* a file or value that is absent

-----------------------------------------------------------------------------
(* Components and texts *)

\* request 0, story 10, context 20, examples 30, rules 40, open_questions 50,
\* decisions 60, scope 70, acceptance_scenarios 80, plan_hints 90, risks 100,
\* notes 110.
ComponentOrders == {0, 10, 20, 30, 40, 50, 60, 70, 80, 90, 100, 110}

\* What the workshop validator wants of them.
FilledIn      == {10, 30, 60, 70, 80}   \* more than a placeholder
BlockBearing  == {30, 80}               \* EXAMPLE-n and SCENARIO-n blocks
Scope         == 70                     \* an In scope and an Out of scope section
OpenQuestions == 50

\* A text is a sequence of lines; a line matters by what the validator sees in
\* it: a heading with all of Given, When and Then under it, one without, a
\* scope section, a placeholder, an open REQUIRED question, anything else.
Lines == {"block", "stub", "in_scope", "out_of_scope", "tbd", "ask", "prose"}
Texts == Seq(Lines)
Empty == <<>>

AppendText(current, addition) == current \o addition

Contents == [Components -> Texts]

HasLine(text, line) == line \in Range(text)

PlaceholderOnly(text) == text \in {Empty, <<"tbd">>}

\* validate_workshop_contents finds nothing to complain of.
Shaped(contents) ==
  /\ \A c \in Components \cap FilledIn : ~PlaceholderOnly(contents[c])
  /\ \A c \in Components \cap BlockBearing :
       HasLine(contents[c], "block") /\ ~HasLine(contents[c], "stub")
  /\ Scope \in Components =>
       HasLine(contents[Scope], "in_scope") /\ HasLine(contents[Scope], "out_of_scope")
  /\ OpenQuestions \in Components => ~HasLine(contents[OpenQuestions], "ask")

Statuses == {"new", "exploring", "shaped", "planned", "cancelled"}

\* Mistake: a cancelled workshop can be taken up again.
ReopenedTransitions ==
  [new       |-> {"exploring", "shaped", "cancelled"},
   exploring |-> {"shaped", "cancelled"},
   shaped    |-> {"exploring", "planned", "cancelled"},
   planned   |-> {"exploring", "cancelled"},
   cancelled |-> {"exploring"}]

ValidTransitions ==
  [new       |-> {"exploring", "shaped", "cancelled"},
   exploring |-> {"shaped", "cancelled"},
   shaped    |-> {"exploring", "planned", "cancelled"},
   planned   |-> {"exploring", "cancelled"},
   cancelled |-> {}]

AllowedStep(current, next) == next = current \/ next \in ValidTransitions[current]

-----------------------------------------------------------------------------
(* Commands *)

Build == [kind |-> "build"]

\* `builds': build_workshop follows, which `workshop cancel' leaves out.
Mutate(updates, append, status, force, builds) ==
  [kind |-> "mutate", updates |-> updates, append |-> append, status |-> status,
   force |-> force, builds |-> builds]

SetCommands ==
  {Mutate([c \in {key} |-> text], append, Nil, force, TRUE) :
     key \in Components, text \in Inputs \cup {Empty}, append \in BOOLEAN, force \in BOOLEAN}

StatusCommands ==
  {Mutate(<<>>, FALSE, status, force, TRUE) : status \in Statuses, force \in BOOLEAN}

Cancel == Mutate(<<>>, FALSE, "cancelled", FALSE, FALSE)

Updates == UNION {[K -> Inputs \cup {Empty}] : K \in (SUBSET Components) \ {{}}}

BundleCommands ==
  {Mutate(updates, FALSE, status, force, TRUE) :
     updates \in Updates, status \in Statuses \cup {Nil}, force \in BOOLEAN}

Mutations == SetCommands \cup StatusCommands \cup {Cancel} \cup BundleCommands

\* --allow-unshaped, and not --no-workshop-status-update.
PlanCommands == [kind : {"plan"}, allow : BOOLEAN, mark : BOOLEAN]

\* What create_plan_from_workshop does last, with a fresh look at the workshop.
MarkPlanned == Mutate(<<>>, FALSE, "planned", FALSE, FALSE)

AllCommands == {Build} \cup Mutations \cup PlanCommands

ASSUME ProcsAssumption == Procs # {}
ASSUME ComponentsAssumption == Components \subseteq ComponentOrders
ASSUME InputsAssumption == Inputs \subseteq Texts \ {Empty}
ASSUME CommandsAssumption == Commands \subseteq AllCommands
ASSUME BoundsAssumption == MaxPlans \in Nat /\ MaxVersion \in Nat \ {0} /\ MaxCrashes \in Nat
ASSUME NilAssumption == Nil \notin Statuses /\ Nil \notin Texts

-----------------------------------------------------------------------------
VARIABLES
  meta, content, snaps,                     \* the workshop's directory
  plans,                                    \* the plans made from it
  pc, cmd, held, seen, todo, made,          \* each process: where it is, its
                                            \* command, its Workshop object, the
                                            \* texts it read or will write, the
                                            \* files left, the plan it made
  result, crashes

disk  == <<meta, content, snaps, plans>>
vars  == <<meta, content, snaps, plans,
           pc, cmd, held, seen, todo, made, result, crashes>>

Versions == 1 .. MaxVersion
PlanIds  == 1 .. MaxPlans

\* workshop.yaml.  `sha' holds the text a recorded hash is the hash of; `by'
\* stands for an entry's time and reason, which tell two commits apart.
Entry == [version : Versions, status : Statuses, by : Procs \cup {Nil}]
Meta  == [version : Versions, status : Statuses, sha : Contents, history : Seq(Entry),
          links : Seq(PlanIds), rendered : Versions \cup {0}]

Manifest == [version : Versions, status : Statuses, sha : Contents]
NoSnap   == [meta |-> Nil, files |-> Nil, manifest |-> Nil]
Snapshot == [meta : Meta \cup {Nil}, files : Contents \cup {Nil}, manifest : Manifest \cup {Nil}]

Complete(snap) == snap.manifest # Nil

Idle    == "idle"
NoTexts == [c \in Components |-> Empty]

Results == {"none", "ok", "cancelled_workshop", "invalid_status_transition",
            "invalid_workshop", "unshaped_workshop", "os_error", "crashed"}

TypeOK ==
  /\ meta \in Meta
  /\ content \in Contents
  /\ snaps \in [Versions -> Snapshot]
  /\ plans \in [PlanIds -> {"none", "made", "sourced"}]
  /\ pc \in [Procs -> {Idle, "read", "decide", "write", "snapshot", "copy_meta", "copy_tree",
                       "manifest", "load", "render", "save",
                       "consider", "make", "source", "link", "mark"}]
  /\ cmd \in [Procs -> Commands \cup {Build, MarkPlanned, Nil}]
  /\ held \in [Procs -> Meta \cup {Nil}]
  /\ seen \in [Procs -> Contents]
  /\ todo \in [Procs -> SUBSET Components]
  /\ made \in [Procs -> PlanIds \cup {0}]
  /\ result \in [Procs -> Results]
  /\ crashes \in 0 .. MaxCrashes

-----------------------------------------------------------------------------
(* The workshop a finished `workshop create' leaves behind, in any status;    *)
(* only `shaped' is validated.                                                *)

FirstMeta(status, contents, build) ==
  [version |-> 1, status |-> status, sha |-> contents,
   history |-> <<[version |-> 1, status |-> status, by |-> Nil]>>,
   links |-> <<>>, rendered |-> build]

FullSnap(m, contents) ==
  [meta |-> m, files |-> contents,
   manifest |-> [version |-> m.version, status |-> m.status, sha |-> m.sha]]

Init ==
  \E s \in Statuses, k \in [Components -> Inputs \cup {Empty}] :
    /\ s = "shaped" => Shaped(k)
    /\ meta = FirstMeta(s, k, 1)
    /\ content = k
    /\ snaps = [v \in Versions |-> IF v = 1 THEN FullSnap(FirstMeta(s, k, 0), k) ELSE NoSnap]
    /\ plans = [n \in PlanIds |-> "none"]
    /\ pc = [p \in Procs |-> Idle]
    /\ cmd = [p \in Procs |-> Nil]
    /\ held = [p \in Procs |-> Nil]
    /\ seen = [p \in Procs |-> NoTexts]
    /\ todo = [p \in Procs |-> {}]
    /\ made = [p \in Procs |-> 0]
    /\ result = [p \in Procs |-> "none"]
    /\ crashes = 0

-----------------------------------------------------------------------------
(* A command ends: the process keeps nothing, its outcome is what it printed. *)

Finish(p, outcome) ==
  /\ pc' = [pc EXCEPT ![p] = Idle]
  /\ cmd' = [cmd EXCEPT ![p] = Nil]
  /\ held' = [held EXCEPT ![p] = Nil]
  /\ seen' = [seen EXCEPT ![p] = NoTexts]
  /\ todo' = [todo EXCEPT ![p] = {}]
  /\ made' = [made EXCEPT ![p] = 0]
  /\ result' = [result EXCEPT ![p] = outcome]

Goto(p, label) == pc' = [pc EXCEPT ![p] = label]

Requested(c) == Commands \cap c

-----------------------------------------------------------------------------
(* apply_workshop_mutations *)

Protected(c) ==
  meta.status = "cancelled" /\ (DOMAIN c.updates # {} \/ c.status # Nil) /\ ~c.force

RefuseCancelled(p) ==
  /\ \/ pc[p] = Idle /\ \E c \in Requested(Mutations) : Protected(c)
     \/ pc[p] = "mark" /\ Protected(cmd[p])
  /\ Finish(p, "cancelled_workshop")
  /\ UNCHANGED <<disk, crashes>>

\* load_workshop: every later decision uses this copy of workshop.yaml.
BeginMutation(p) ==
  /\ meta.version < MaxVersion
  /\ \/ pc[p] = Idle /\ \E c \in Requested(Mutations) :
                          ~Protected(c) /\ cmd' = [cmd EXCEPT ![p] = c]
     \/ pc[p] = "mark" /\ ~Protected(cmd[p]) /\ UNCHANGED cmd
  /\ Goto(p, "read")
  /\ held' = [held EXCEPT ![p] = meta]
  /\ result' = [result EXCEPT ![p] = "none"]
  /\ UNCHANGED <<disk, seen, todo, made, crashes>>

ReadTexts(p) ==
  /\ pc[p] = "read"
  /\ seen' = [seen EXCEPT ![p] = content]
  /\ Goto(p, "decide")
  /\ UNCHANGED <<disk, cmd, held, todo, made, result, crashes>>

NextText(p, c) ==
  LET updates == cmd[p].updates
  IN  IF c \notin DOMAIN updates THEN seen[p][c]
      ELSE IF cmd[p].append THEN AppendText(seen[p][c], updates[c])
      ELSE updates[c]

NextContents(p) == [c \in Components |-> NextText(p, c)]
NextStatus(p)   == IF cmd[p].status = Nil THEN held[p].status ELSE cmd[p].status
Changed(p)      == {c \in Components : NextContents(p)[c] # seen[p][c]}

TransitionAllowed(p) == AllowedStep(held[p].status, NextStatus(p))

\* Mistake: the contents are looked at only when `shaped' is asked for.
GateWhenRequested(p) == cmd[p].status = "shaped" => Shaped(NextContents(p))

\* Every edit of a shaped workshop has to leave it shaped.
GateOpen(p) == NextStatus(p) = "shaped" => Shaped(NextContents(p))

Noop(p) == Changed(p) = {} /\ NextStatus(p) = held[p].status

RefuseTransition(p) ==
  /\ pc[p] = "decide" /\ ~TransitionAllowed(p)
  /\ Finish(p, "invalid_status_transition")
  /\ UNCHANGED <<disk, crashes>>

RefuseShaped(p) ==
  /\ pc[p] = "decide" /\ TransitionAllowed(p) /\ ~GateOpen(p)
  /\ Finish(p, "invalid_workshop")
  /\ UNCHANGED <<disk, crashes>>

\* What follows the mutation: the build, or the end of the command.
AfterMutation(p) ==
  IF cmd[p].builds
    THEN Goto(p, "load") /\ UNCHANGED <<cmd, held, seen, todo, made, result>>
    ELSE Finish(p, "ok")

SkipMutation(p) ==
  /\ pc[p] = "decide" /\ TransitionAllowed(p) /\ GateOpen(p) /\ Noop(p)
  /\ AfterMutation(p)
  /\ UNCHANGED <<disk, crashes>>

AcceptMutation(p) ==
  /\ pc[p] = "decide" /\ TransitionAllowed(p) /\ GateOpen(p) /\ ~Noop(p)
  /\ Goto(p, "write")
  /\ seen' = [seen EXCEPT ![p] = NextContents(p)]
  /\ todo' = [todo EXCEPT ![p] = Changed(p)]
  /\ UNCHANGED <<disk, cmd, held, made, result, crashes>>

WriteComponent(p) ==
  /\ pc[p] = "write"
  /\ \E c \in todo[p] :
       /\ content' = [content EXCEPT ![c] = seen[p][c]]
       /\ held' = [held EXCEPT ![p].sha[c] = seen[p][c]]
       /\ todo' = [todo EXCEPT ![p] = @ \ {c}]
  /\ UNCHANGED <<meta, snaps, plans, pc, cmd, seen, made, result, crashes>>

\* Mistake: workshop.yaml is put together anew and loses the links.
BumpUnlinked(m, status, p) ==
  [m EXCEPT !.status = status,
            !.version = m.version + 1,
            !.links = <<>>,
            !.history = Append(m.history,
                          [version |-> m.version + 1, status |-> status, by |-> p])]

\* The Workshop object with one version more, and its entry in the history.
Bump(m, status, p) ==
  [m EXCEPT !.status = status,
            !.version = m.version + 1,
            !.history = Append(m.history,
                          [version |-> m.version + 1, status |-> status, by |-> p])]

\* Mistake: the object the snapshot is named after keeps the old version.
WriteMetadataStale(p) ==
  /\ pc[p] = "write" /\ todo[p] = {}
  /\ meta' = Bump(held[p], NextStatus(p), p)
  /\ Goto(p, "snapshot")
  /\ UNCHANGED <<content, snaps, plans, cmd, held, seen, todo, made, result, crashes>>

WriteMetadata(p) ==
  /\ pc[p] = "write" /\ todo[p] = {}
  /\ held' = [held EXCEPT ![p] = Bump(held[p], NextStatus(p), p)]
  /\ meta' = Bump(held[p], NextStatus(p), p)
  /\ Goto(p, "snapshot")
  /\ UNCHANGED <<content, snaps, plans, cmd, seen, todo, made, result, crashes>>

-----------------------------------------------------------------------------
(* snapshot_workshop_version, called with the Workshop object just written.   *)
(* copytree fails where the directory it makes is there already.              *)

ResetSnapshot(p) ==
  /\ pc[p] = "snapshot"
  /\ snaps' = [snaps EXCEPT ![held[p].version] = NoSnap]
  /\ Goto(p, "copy_meta")
  /\ UNCHANGED <<meta, content, plans, cmd, held, seen, todo, made, result, crashes>>

CopyMetadata(p) ==
  /\ pc[p] = "copy_meta"
  /\ snaps' = [snaps EXCEPT ![held[p].version].meta = meta]
  /\ Goto(p, "copy_tree")
  /\ UNCHANGED <<meta, content, plans, cmd, held, seen, todo, made, result, crashes>>

CopyTree(p) ==
  /\ pc[p] = "copy_tree"
  /\ IF snaps[held[p].version].files = Nil
       THEN /\ snaps' = [snaps EXCEPT ![held[p].version].files = content]
            /\ Goto(p, "manifest")
            /\ UNCHANGED <<cmd, held, seen, todo, made, result>>
       ELSE Finish(p, "os_error") /\ UNCHANGED snaps
  /\ UNCHANGED <<meta, content, plans, crashes>>

WriteManifest(p) ==
  /\ pc[p] = "manifest"
  /\ snaps' = [snaps EXCEPT ![held[p].version].manifest =
                 [version |-> held[p].version, status |-> held[p].status, sha |-> held[p].sha]]
  /\ AfterMutation(p)
  /\ UNCHANGED <<meta, content, plans, crashes>>

-----------------------------------------------------------------------------
(* build_workshop, which every mutation except a cancellation calls last *)

BeginBuild(p) ==
  /\ pc[p] = Idle
  /\ Build \in Commands
  /\ cmd' = [cmd EXCEPT ![p] = Build]
  /\ Goto(p, "load")
  /\ result' = [result EXCEPT ![p] = "none"]
  /\ UNCHANGED <<disk, held, seen, todo, made, crashes>>

LoadForBuild(p) ==
  /\ pc[p] = "load"
  /\ held' = [held EXCEPT ![p] = meta]
  /\ Goto(p, "render")
  /\ UNCHANGED <<disk, cmd, seen, todo, made, result, crashes>>

BuildAllowed(p) == held[p].status = "shaped" => Shaped(content)

RefuseBuild(p) ==
  /\ pc[p] = "render" /\ ~BuildAllowed(p)
  /\ Finish(p, "invalid_workshop")
  /\ UNCHANGED <<disk, crashes>>

\* The texts are validated and rendered, and both rendered files written.
Render(p) ==
  /\ pc[p] = "render" /\ BuildAllowed(p)
  /\ Goto(p, "save")
  /\ UNCHANGED <<disk, cmd, held, seen, todo, made, result, crashes>>

\* workshop.yaml is replaced once more, by what the build loaded.
SaveRendered(p) ==
  /\ pc[p] = "save"
  /\ meta' = [held[p] EXCEPT !.rendered = held[p].version]
  /\ Finish(p, "ok")
  /\ UNCHANGED <<content, snaps, plans, crashes>>

-----------------------------------------------------------------------------
(* create_plan_from_workshop *)

BeginPlan(p) ==
  /\ pc[p] = Idle
  /\ meta.version < MaxVersion /\ \E n \in PlanIds : plans[n] = "none"
  /\ \E c \in Requested(PlanCommands) : cmd' = [cmd EXCEPT ![p] = c]
  /\ held' = [held EXCEPT ![p] = meta]
  /\ Goto(p, "consider")
  /\ result' = [result EXCEPT ![p] = "none"]
  /\ UNCHANGED <<disk, seen, todo, made, crashes>>

RefuseUnshaped(p) ==
  /\ pc[p] = "consider"
  /\ held[p].status # "shaped" /\ ~cmd[p].allow
  /\ Finish(p, "unshaped_workshop")
  /\ UNCHANGED <<disk, crashes>>

\* Mistake: the status is believed, the texts are not looked at.
PlannableByStatus(p) == cmd[p].allow \/ held[p].status = "shaped"

Plannable(p) == cmd[p].allow \/ (held[p].status = "shaped" /\ Shaped(content))

RefuseInvalid(p) ==
  /\ pc[p] = "consider"
  /\ held[p].status = "shaped" /\ ~Plannable(p)
  /\ Finish(p, "invalid_workshop")
  /\ UNCHANGED <<disk, crashes>>

AcceptPlan(p) ==
  /\ pc[p] = "consider" /\ Plannable(p)
  /\ Goto(p, "make")
  /\ UNCHANGED <<disk, cmd, held, seen, todo, made, result, crashes>>

\* create_plan, whose own steps are in Allocation: a record that does not yet
\* say where it comes from.
MakePlan(p) ==
  /\ pc[p] = "make"
  /\ \E n \in PlanIds :
       /\ plans[n] = "none" /\ \A k \in 1 .. n - 1 : plans[k] # "none"
       /\ plans' = [plans EXCEPT ![n] = "made"]
       /\ made' = [made EXCEPT ![p] = n]
  /\ Goto(p, "source")
  /\ UNCHANGED <<meta, content, snaps, cmd, held, seen, todo, result, crashes>>

\* Mistake: the plan is linked first and told afterwards where it comes from.
NameSourceLater(p) ==
  /\ pc[p] = "source"
  /\ Goto(p, "link")
  /\ UNCHANGED <<disk, cmd, held, seen, todo, made, result, crashes>>

\* The plan is saved a second time, with source_workshop_id.
NameSource(p) ==
  /\ pc[p] = "source"
  /\ plans' = [plans EXCEPT ![made[p]] = "sourced"]
  /\ Goto(p, "link")
  /\ UNCHANGED <<meta, content, snaps, cmd, held, seen, todo, made, result, crashes>>

\* Mistake: a plan is linked only where its workshop becomes planned.
LinkedMarked(p) ==
  IF cmd[p].mark THEN [held[p] EXCEPT !.links = Append(@, made[p])] ELSE held[p]

Linked(p) == [held[p] EXCEPT !.links = Append(@, made[p])]

\* workshop.yaml is replaced by the copy read at the start, with the link and
\* no new version.  Only a workshop that was shaped then becomes planned.
Link(p) ==
  /\ pc[p] = "link"
  /\ meta' = Linked(p)
  /\ IF cmd[p].mark /\ held[p].status = "shaped"
       THEN /\ Goto(p, "mark")
            /\ cmd' = [cmd EXCEPT ![p] = MarkPlanned]
            /\ held' = [held EXCEPT ![p] = Nil]
            /\ made' = [made EXCEPT ![p] = 0]
            /\ UNCHANGED <<seen, todo, result>>
       ELSE Finish(p, "ok")
  /\ UNCHANGED <<content, snaps, plans, crashes>>

-----------------------------------------------------------------------------
(* A process dies, or a write raises, between two steps. *)

Crash(p) ==
  /\ pc[p] # Idle
  /\ crashes < MaxCrashes
  /\ crashes' = crashes + 1
  /\ Finish(p, "crashed")
  /\ UNCHANGED disk

Begin(p) == BeginBuild(p) \/ BeginPlan(p)

Step(p) ==
  \/ RefuseCancelled(p) \/ BeginMutation(p)
  \/ ReadTexts(p) \/ RefuseTransition(p) \/ RefuseShaped(p)
  \/ SkipMutation(p) \/ AcceptMutation(p) \/ WriteComponent(p) \/ WriteMetadata(p)
  \/ ResetSnapshot(p) \/ CopyMetadata(p) \/ CopyTree(p) \/ WriteManifest(p)
  \/ LoadForBuild(p) \/ RefuseBuild(p) \/ Render(p) \/ SaveRendered(p)
  \/ RefuseUnshaped(p) \/ RefuseInvalid(p) \/ AcceptPlan(p)
  \/ MakePlan(p) \/ NameSource(p) \/ Link(p)

Next == \E p \in Procs : Begin(p) \/ Step(p) \/ Crash(p)

Spec == Init /\ [][Next]_vars

-----------------------------------------------------------------------------
(* Properties, whoever writes and whoever crashes *)

\* The history in a workshop.yaml numbers its entries 1, 2, 3, ..., ends with
\* the current version and status, and every two neighbours are a transition
\* that VALID_WORKSHOP_TRANSITIONS allows (apply_workshop_mutations).
WellFormed(m) ==
  /\ Len(m.history) = m.version
  /\ \A i \in 1 .. m.version : m.history[i].version = i
  /\ m.history[m.version].status = m.status
  /\ \A i \in 1 .. m.version - 1 :
       AllowedStep(m.history[i].status, m.history[i + 1].status)

HistoryWellFormed == WellFormed(meta)

\* Every plan that a workshop.yaml links exists and names the workshop as its
\* source: the link is written last (create_plan_from_workshop).
Resolved(m) == \A n \in Range(m.links) : plans[n] = "sourced"

LinksResolve == Resolved(meta)

-----------------------------------------------------------------------------
(* Properties where one process at a time is at work *)

Quiescent == \A p \in Procs : pc[p] = Idle

\* Until a process dies, a workshop that says shaped passes the workshop
\* guardrails, whatever was edited since (apply_workshop_mutations).
ShapedIsShaped ==
  Quiescent /\ crashes = 0 /\ meta.status = "shaped" => Shaped(content)

\* A plan made from the workshop is linked by it, once; a crash in the middle
\* of create_plan_from_workshop costs one plan its link and no more.
Unlinked == {n \in PlanIds : plans[n] # "none" /\ n \notin Range(meta.links)}

OrphansPerCrash ==
  /\ Quiescent => Cardinality(Unlinked) <= crashes
  /\ \A i, j \in DOMAIN meta.links : meta.links[i] = meta.links[j] => i = j

\* A workshop.yaml, once written, is only ever extended: neither a commit nor
\* the link to a plan is taken back (all of apply_workshop_mutations,
\* build_workshop and create_plan_from_workshop replace the whole file).
Begins(s, t) == Len(s) <= Len(t) /\ \A i \in DOMAIN s : s[i] = t[i]

Continues(m, old) == Begins(old.history, m.history) /\ Begins(old.links, m.links)

RecordKept == [][Continues(meta', meta)]_vars

\* Each finished snapshot is of its own version, agrees with its manifest and
\* continues those before it, links included (snapshot_workshop_version).
SnapshotsNested ==
  \A v \in Versions : Complete(snaps[v]) =>
    /\ snaps[v].meta.version = v /\ snaps[v].manifest.sha = snaps[v].meta.sha
    /\ \A w \in 1 .. v : Complete(snaps[w]) => Continues(snaps[v].meta, snaps[w].meta)

\* Nothing takes a cancelled workshop up again: not a forced edit, not a plan
\* made from it with --allow-unshaped (VALID_WORKSHOP_TRANSITIONS).
CancelledStays == [][meta.status = "cancelled" => meta'.status = "cancelled"]_vars

\* A plan that was not asked for with --allow-unshaped is made from a workshop
\* that is shaped and passes the guardrails at that moment, even where a crash
\* left `shaped' over other texts (create_plan_from_workshop).
PlanFromReady ==
  [][\A p \in Procs : made[p] = 0 /\ made'[p] # 0 /\ ~cmd[p].allow =>
       meta.status = "shaped" /\ Shaped(content)]_vars
=============================================================================
