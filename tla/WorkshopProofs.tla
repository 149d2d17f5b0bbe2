---------------------------- MODULE WorkshopProofs ----------------------------
(***************************************************************************)
(* What holds of Workshop for any number of components, texts, commands,   *)
(* plans and crashes: its history and its links for any number of          *)
(* processes, the rest where one process at a time is at work.             *)
(***************************************************************************)
EXTENDS Workshop, FiniteSetTheorems, TLAPS

-----------------------------------------------------------------------------
(* The inductive invariant, whoever writes *)

\* Where a process is that goes on with the Workshop object it has loaded.
Holds(p) == pc[p] \notin {Idle, "load", "mark"}

\* Every Workshop object in memory is as sound as the file was when it was read:
\* a file is replaced by what some process holds, however old.
HeldSound(p) ==
  Holds(p) => held[p] \in Meta /\ WellFormed(held[p]) /\ Resolved(held[p])

\* A command that changes the texts or the status: it names components there
\* are, and asks for a status there is or for none.
Mutation(c) ==
  /\ DOMAIN c.updates \subseteq Components
  /\ \A k \in DOMAIN c.updates : c.updates[k] \in Texts
  /\ c.status \in Statuses \cup {Nil}

\* A mutation under way was begun below the version bound, and whoever writes
\* has an allowed transition from the object it holds.
MutationHeld(p) ==
  /\ pc[p] \in {"read", "decide", "write"} =>
       Mutation(cmd[p]) /\ held[p].version < MaxVersion
  /\ pc[p] = "write" => TransitionAllowed(p)
  /\ pc[p] = "mark" => cmd[p] = MarkPlanned

\* The plan that is about to be linked exists, and says where it comes from.
PlanHeld(p) ==
  /\ pc[p] \in {"source", "link"} => made[p] \in PlanIds
  /\ pc[p] = "source" => plans[made[p]] # "none"
  /\ pc[p] = "link" => plans[made[p]] = "sourced"

ProcSound(p) == HeldSound(p) /\ MutationHeld(p) /\ PlanHeld(p)

WorkshopInv ==
  TypeOK /\ HistoryWellFormed /\ LinksResolve /\ \A p \in Procs : ProcSound(p)

-----------------------------------------------------------------------------
(* The inductive invariant where there is one process *)

\* What the one process goes on with is what workshop.yaml says, but for the
\* hashes of the texts that it is just writing.
Synced(p) ==
  Holds(p) => /\ held[p].history = meta.history /\ held[p].links = meta.links
              /\ held[p].version = meta.version /\ held[p].status = meta.status

\* The texts it has read are there; those it has written are those it will record.
TextsKept(p) ==
  /\ pc[p] = "decide" => seen[p] = content
  /\ pc[p] = "write" => /\ \A c \in Components \ todo[p] : content[c] = seen[p][c]
                        /\ NextStatus(p) = "shaped" => Shaped(seen[p])

\* Only while component files are being written may they not fit the status.
ShapedUnlessWriting(p) ==
  crashes = 0 /\ pc[p] # "write" /\ meta.status = "shaped" => Shaped(content)

\* What was found when the plan was accepted still holds when it is made.
ReadyToMake(p) ==
  pc[p] = "make" /\ ~cmd[p].allow => meta.status = "shaped" /\ Shaped(content)

SoleInv(p) ==
  WorkshopInv /\ Synced(p) /\ TextsKept(p) /\ ShapedUnlessWriting(p) /\ ReadyToMake(p)

\* The plan that this process has made and not linked yet is the only one that
\* no crash accounts for.
UnderWay(p) == IF pc[p] \in {"source", "link"} THEN {made[p]} ELSE {}

LinkInv(p) ==
  /\ Cardinality(Unlinked \ UnderWay(p)) <= crashes
  /\ \A i, j \in DOMAIN meta.links : meta.links[i] = meta.links[j] => i = j
  /\ pc[p] \in {"source", "link"} => made[p] \in Unlinked

-----------------------------------------------------------------------------
(* Operators *)

LEMMA TextTypes == Empty \in Texts /\ NoTexts \in Contents
<1>1. Empty \in Seq(Lines)
  BY DEF Empty
<1>. QED
  BY <1>1 DEF Texts, NoTexts, Contents

\* What a user may ask for, and what create_plan_from_workshop asks for last.
LEMMA MutationType ==
  ASSUME NEW c, c \in Mutations \/ c = MarkPlanned
  PROVE  Mutation(c)
<1>0. Inputs \cup {Empty} \subseteq Texts
  BY TextTypes, InputsAssumption
<1>1. CASE c \in SetCommands
  <2>1. PICK key \in Components, text \in Inputs \cup {Empty},
             append \in BOOLEAN, force \in BOOLEAN :
          c = Mutate([k \in {key} |-> text], append, Nil, force, TRUE)
    BY <1>1 DEF SetCommands, Mutate
  <2>. QED
    BY <1>0, <2>1 DEF Mutate, Mutation
<1>2. CASE c \in StatusCommands
  <2>1. PICK s \in Statuses, force \in BOOLEAN : c = Mutate(<<>>, FALSE, s, force, TRUE)
    BY <1>2 DEF StatusCommands, Mutate
  <2>. QED
    BY <2>1 DEF Mutate, Mutation
<1>3. CASE c = Cancel \/ c = MarkPlanned
  BY <1>3 DEF Cancel, MarkPlanned, Mutate, Mutation, Statuses
<1>4. CASE c \in BundleCommands
  <2>1. PICK u \in Updates, s \in Statuses \cup {Nil}, force \in BOOLEAN :
          c = Mutate(u, FALSE, s, force, TRUE)
    BY <1>4 DEF BundleCommands, Mutate
  <2>2. PICK K \in (SUBSET Components) \ {{}} : u \in [K -> Inputs \cup {Empty}]
    BY DEF Updates
  <2>. QED
    BY <1>0, <2>1, <2>2 DEF Mutate, Mutation
<1>. QED
  BY <1>1, <1>2, <1>3, <1>4 DEF Mutations

\* The texts a mutation would leave are texts, the status is one.
LEMMA NextTypes ==
  ASSUME TypeOK, NEW p \in Procs, ProcSound(p), pc[p] \in {"read", "decide", "write"}
  PROVE  NextContents(p) \in Contents /\ NextStatus(p) \in Statuses
<1>1. Mutation(cmd[p]) /\ held[p] \in Meta /\ seen[p] \in Contents
  BY DEF TypeOK, ProcSound, MutationHeld, HeldSound, Holds, Idle
<1>2. ASSUME NEW c \in Components PROVE NextText(p, c) \in Texts
  <2>1. seen[p][c] \in Texts
    BY <1>1 DEF Contents
  <2>2. ASSUME NEW a \in Texts, NEW b \in Texts PROVE AppendText(a, b) \in Texts
    BY DEF AppendText, Texts
  <2>. QED
    BY <1>1, <2>1, <2>2 DEF NextText, Mutation
<1>. QED
  BY <1>1, <1>2 DEF NextContents, Contents, NextStatus, Mutation, Meta

\* One version more, by a status that may follow, keeps an object typed, its
\* history well formed and its links.
LEMMA BumpSound ==
  ASSUME NEW m \in Meta, WellFormed(m), m.version < MaxVersion,
         NEW s \in Statuses, AllowedStep(m.status, s), NEW p \in Procs
  PROVE  LET b == Bump(m, s, p)
         IN  /\ b \in Meta /\ WellFormed(b)
             /\ b.links = m.links /\ b.status = s /\ b.version = m.version + 1
             /\ \E e \in Entry : b.history = Append(m.history, e)
<1> DEFINE e == [version |-> m.version + 1, status |-> s, by |-> p]
<1> DEFINE b == Bump(m, s, p)
<1>1. /\ m.version \in Versions /\ m.history \in Seq(Entry) /\ m.status \in Statuses
      /\ m.sha \in Contents /\ m.rendered \in Versions \cup {0} /\ m.links \in Seq(PlanIds)
  BY DEF Meta
<1>2. m.version + 1 \in Versions
  BY <1>1, BoundsAssumption DEF Versions
<1>3. e \in Entry
  BY <1>2 DEF Entry
<1>4. Append(m.history, e) \in Seq(Entry)
  BY <1>1, <1>3
<1>5. b = [m EXCEPT !.status = s, !.version = m.version + 1, !.history = Append(m.history, e)]
  BY DEF Bump
<1>6. /\ b.version = m.version + 1 /\ b.status = s /\ b.history = Append(m.history, e)
      /\ b.links = m.links
  BY <1>5 DEF Meta
<1>7. e.version = m.version + 1 /\ e.status = s
  OBVIOUS
<1> HIDE DEF e, b
<1>8. b \in Meta
  BY <1>1, <1>2, <1>4, <1>5 DEF Meta
<1>9. Len(m.history) = m.version
  BY DEF WellFormed
<1>10. /\ Len(b.history) = m.version + 1
       /\ b.history[m.version + 1] = e
       /\ \A i \in 1 .. m.version : b.history[i] = m.history[i]
  BY <1>1, <1>3, <1>6, <1>9
<1>11. \A i \in 1 .. b.version : b.history[i].version = i
  BY <1>1, <1>6, <1>7, <1>10 DEF WellFormed, Versions
<1>12. ASSUME NEW i \in 1 .. b.version - 1
       PROVE  AllowedStep(b.history[i].status, b.history[i + 1].status)
  <2>1. CASE i = m.version
    <3>1. m.version \in 1 .. m.version /\ i + 1 = m.version + 1
      BY <1>1, <2>1 DEF Versions
    <3>2. b.history[i].status = m.status
      BY <1>10, <2>1, <3>1 DEF WellFormed
    <3>. QED
      BY <1>7, <1>10, <3>1, <3>2
  <2>2. CASE i # m.version
    <3>1. i \in 1 .. m.version - 1 /\ i + 1 \in 1 .. m.version
      BY <1>1, <1>6, <2>2 DEF Versions
    <3>2. b.history[i] = m.history[i] /\ b.history[i + 1] = m.history[i + 1]
      BY <1>1, <1>10, <3>1 DEF Versions
    <3>. QED
      BY <3>1, <3>2 DEF WellFormed
  <2>. QED
    BY <2>1, <2>2
<1>13. WellFormed(b)
  BY <1>6, <1>7, <1>10, <1>11, <1>12 DEF WellFormed
<1>. QED
  BY <1>3, <1>6, <1>8, <1>13 DEF b

LEMMA NewMetaSound ==
  ASSUME NEW s \in Statuses, NEW k \in Contents, NEW r \in Versions \cup {0}
  PROVE  LET m == FirstMeta(s, k, r)
         IN  m \in Meta /\ WellFormed(m) /\ m.links = <<>> /\ m.status = s
<1> DEFINE e == [version |-> 1, status |-> s, by |-> Nil]
<1>1. 1 \in Versions
  BY BoundsAssumption DEF Versions
<1>2. e \in Entry /\ e.version = 1 /\ e.status = s
  BY <1>1 DEF Entry
<1> HIDE DEF e
<1>3. <<e>> \in Seq(Entry) /\ Len(<<e>>) = 1 /\ <<e>>[1] = e
  BY <1>2
<1>4. FirstMeta(s, k, r) = [version |-> 1, status |-> s, sha |-> k, history |-> <<e>>,
                            links |-> <<>>, rendered |-> r]
  BY DEF FirstMeta, e
<1>5. <<>> \in Seq(PlanIds)
  OBVIOUS
<1>6. FirstMeta(s, k, r) \in Meta
  BY <1>1, <1>3, <1>4, <1>5 DEF Meta
<1>7. WellFormed(FirstMeta(s, k, r))
  BY <1>2, <1>3, <1>4 DEF WellFormed
<1>. QED
  BY <1>4, <1>6, <1>7

LEMMA SnapshotTypes ==
  /\ NoSnap \in Snapshot
  /\ \A m \in Meta : [version |-> m.version, status |-> m.status, sha |-> m.sha] \in Manifest
  /\ \A m \in Meta, k \in Contents : FullSnap(m, k) \in Snapshot
<1>1. NoSnap \in Snapshot
  BY DEF NoSnap, Snapshot
<1>2. ASSUME NEW m \in Meta
      PROVE  [version |-> m.version, status |-> m.status, sha |-> m.sha] \in Manifest
  BY DEF Meta, Manifest
<1>. QED
  BY <1>1, <1>2 DEF FullSnap, Snapshot

LEMMA WorkshopInvInit == Init => WorkshopInv
<1> SUFFICES ASSUME Init PROVE WorkshopInv
  OBVIOUS
<1>1. PICK s \in Statuses, k \in [Components -> Inputs \cup {Empty}] :
        /\ meta = FirstMeta(s, k, 1)
        /\ content = k
        /\ snaps = [v \in Versions |-> IF v = 1 THEN FullSnap(FirstMeta(s, k, 0), k) ELSE NoSnap]
  BY DEF Init
<1>2. k \in Contents
  BY TextTypes, InputsAssumption DEF Contents
<1>3. 1 \in Versions
  BY BoundsAssumption DEF Versions
<1>4. meta \in Meta /\ WellFormed(meta) /\ meta.links = <<>> /\ FirstMeta(s, k, 0) \in Meta
  BY <1>1, <1>2, <1>3, NewMetaSound
<1>5. snaps \in [Versions -> Snapshot]
  BY <1>1, <1>2, <1>4, SnapshotTypes
<1>6. /\ plans = [n \in PlanIds |-> "none"]
      /\ pc = [p \in Procs |-> Idle] /\ cmd = [p \in Procs |-> Nil]
      /\ held = [p \in Procs |-> Nil] /\ seen = [p \in Procs |-> NoTexts]
      /\ todo = [p \in Procs |-> {}] /\ made = [p \in Procs |-> 0]
      /\ result = [p \in Procs |-> "none"] /\ crashes = 0
  BY DEF Init
<1>7. TypeOK
  BY <1>1, <1>2, <1>4, <1>5, <1>6, TextTypes, BoundsAssumption DEF TypeOK, Results
<1>8. \A p \in Procs : ProcSound(p)
  BY <1>6 DEF ProcSound, HeldSound, MutationHeld, PlanHeld, Holds, Idle
<1>9. LinksResolve
  BY <1>4 DEF LinksResolve, Resolved, Range
<1>. QED
  BY <1>4, <1>7, <1>8, <1>9 DEF WorkshopInv, HistoryWellFormed

-----------------------------------------------------------------------------
(* Every step keeps the invariant *)

\* Plans are made, and told where they come from, and that is never undone.
PlansGrow ==
  \A n \in PlanIds : /\ plans[n] = "sourced" => plans'[n] = "sourced"
                     /\ plans[n] # "none" => plans'[n] # "none"

LEMMA ResolvedKept ==
  ASSUME PlansGrow, NEW m \in Meta, Resolved(m)
  PROVE  \A n \in Range(m.links) : plans'[n] = "sourced"
<1>1. Range(m.links) \subseteq PlanIds
  BY DEF Meta, Range
<1>. QED
  BY <1>1 DEF Resolved, PlansGrow

\* A step of p leaves the other processes' objects as sound as they were.
LEMMA FrameKeeps ==
  ASSUME WorkshopInv, TypeOK', HistoryWellFormed', LinksResolve', PlansGrow,
         NEW p \in Procs, ProcSound(p)',
         \A q \in Procs : q # p => /\ pc'[q] = pc[q] /\ cmd'[q] = cmd[q]
                                   /\ held'[q] = held[q] /\ made'[q] = made[q]
  PROVE  WorkshopInv'
<1>1. ASSUME NEW q \in Procs, q # p PROVE ProcSound(q)'
  <2>1. ProcSound(q) /\ held[q] \in Meta \cup {Nil}
    BY DEF WorkshopInv, TypeOK
  <2>2. /\ pc'[q] = pc[q] /\ cmd'[q] = cmd[q] /\ held'[q] = held[q] /\ made'[q] = made[q]
    BY <1>1
  <2>3. HeldSound(q)'
    <3>1. Holds(q) => \A n \in Range(held[q].links) : plans'[n] = "sourced"
      BY <2>1, ResolvedKept DEF ProcSound, HeldSound
    <3>. QED
      BY <2>1, <2>2, <3>1 DEF ProcSound, HeldSound, Holds, Resolved, WellFormed
  <2>4. MutationHeld(q)'
    BY <2>1, <2>2 DEF ProcSound, MutationHeld, TransitionAllowed, NextStatus
  <2>5. PlanHeld(q)'
    BY <2>1, <2>2 DEF ProcSound, PlanHeld, PlansGrow
  <2>. QED
    BY <2>3, <2>4, <2>5 DEF ProcSound
<1>. QED
  BY <1>1 DEF WorkshopInv

\* A process that ends leaves nothing in memory that could be unsound.
LEMMA FinishKeeps ==
  ASSUME WorkshopInv, NEW p \in Procs, NEW o \in Results, Finish(p, o), plans' = plans,
         meta' \in Meta, WellFormed(meta'), Resolved(meta'),
         content' \in Contents, snaps' \in [Versions -> Snapshot], crashes' \in 0 .. MaxCrashes
  PROVE  WorkshopInv'
<1>1. TypeOK'
  BY TextTypes DEF WorkshopInv, TypeOK, Finish
<1>2. /\ pc'[p] = Idle /\ held'[p] = Nil
      /\ \A q \in Procs : q # p => /\ pc'[q] = pc[q] /\ cmd'[q] = cmd[q]
                                   /\ held'[q] = held[q] /\ made'[q] = made[q]
  BY DEF WorkshopInv, TypeOK, Finish
<1>3. ProcSound(p)'
  BY <1>2 DEF ProcSound, HeldSound, MutationHeld, PlanHeld, Holds, Idle
<1>4. HistoryWellFormed' /\ LinksResolve'
  BY DEF HistoryWellFormed, LinksResolve, WellFormed, Resolved
<1>. QED
  BY <1>1, <1>2, <1>3, <1>4, FrameKeeps DEF PlansGrow

\* Refusals, the end of a command with the disk as it is, and crashes.
LEMMA QuietFinish ==
  ASSUME WorkshopInv, NEW p \in Procs, NEW o \in Results, Finish(p, o),
         UNCHANGED disk, crashes' \in 0 .. MaxCrashes
  PROVE  WorkshopInv'
<1>1. /\ meta \in Meta /\ WellFormed(meta) /\ Resolved(meta)
      /\ content \in Contents /\ snaps \in [Versions -> Snapshot]
  BY DEF WorkshopInv, TypeOK, HistoryWellFormed, LinksResolve
<1>. QED
  BY <1>1, FinishKeeps DEF disk

LEMMA Refusals ==
  ASSUME WorkshopInv, NEW p \in Procs,
         \/ RefuseCancelled(p) \/ RefuseTransition(p) \/ RefuseShaped(p)
         \/ RefuseBuild(p) \/ RefuseUnshaped(p) \/ RefuseInvalid(p) \/ Crash(p)
  PROVE  WorkshopInv'
<1>1. crashes \in 0 .. MaxCrashes
  BY DEF WorkshopInv, TypeOK
<1>2. UNCHANGED disk /\ crashes' \in 0 .. MaxCrashes
  BY <1>1, BoundsAssumption DEF RefuseCancelled, RefuseTransition, RefuseShaped,
     RefuseBuild, RefuseUnshaped, RefuseInvalid, Crash
<1>3. \E o \in Results : Finish(p, o)
  BY DEF RefuseCancelled, RefuseTransition, RefuseShaped, RefuseBuild,
         RefuseUnshaped, RefuseInvalid, Crash, Results
<1>. QED
  BY <1>2, <1>3, QuietFinish

\* A step that leaves workshop.yaml, the plans and what p holds alone.
LEMMA MoveKeeps ==
  ASSUME WorkshopInv, NEW p \in Procs, TypeOK', UNCHANGED <<meta, plans, cmd, made>>,
         ProcSound(p)',
         \A q \in Procs : q # p => pc'[q] = pc[q] /\ held'[q] = held[q]
  PROVE  WorkshopInv'
<1>1. HistoryWellFormed' /\ LinksResolve' /\ PlansGrow
  BY DEF WorkshopInv, HistoryWellFormed, LinksResolve, WellFormed, Resolved, PlansGrow
<1>. QED
  BY <1>1, FrameKeeps

LEMMA SoundNow ==
  ASSUME WorkshopInv, NEW p \in Procs
  PROVE  /\ TypeOK /\ ProcSound(p) /\ WellFormed(meta) /\ Resolved(meta) /\ meta \in Meta
         /\ Holds(p) => held[p] \in Meta /\ WellFormed(held[p]) /\ Resolved(held[p])
BY DEF WorkshopInv, TypeOK, HistoryWellFormed, LinksResolve, ProcSound, HeldSound

\* A command is begun, and holds what it has just read.
LEMMA BeginSteps ==
  ASSUME WorkshopInv, NEW p \in Procs,
         BeginMutation(p) \/ BeginBuild(p) \/ BeginPlan(p) \/ LoadForBuild(p)
  PROVE  WorkshopInv'
<1>0. TypeOK /\ ProcSound(p) /\ WellFormed(meta) /\ Resolved(meta) /\ meta \in Meta
  BY SoundNow
<1>1. HistoryWellFormed' /\ LinksResolve' /\ PlansGrow
  <2>1. UNCHANGED <<meta, plans>>
    BY DEF BeginMutation, BeginBuild, BeginPlan, LoadForBuild, disk
  <2>. QED
    BY <1>0, <2>1 DEF HistoryWellFormed, LinksResolve, WellFormed, Resolved, PlansGrow
<1>2. CASE BeginMutation(p)
  <2>1. /\ pc' = [pc EXCEPT ![p] = "read"] /\ held' = [held EXCEPT ![p] = meta]
        /\ UNCHANGED <<meta, content, snaps, plans, seen, todo, made, crashes>>
        /\ result' = [result EXCEPT ![p] = "none"] /\ meta.version < MaxVersion
    BY <1>2 DEF BeginMutation, Goto, disk
  <2>2. \/ \E c \in Commands \cap Mutations : cmd' = [cmd EXCEPT ![p] = c]
        \/ pc[p] = "mark" /\ cmd' = cmd
    BY <1>2 DEF BeginMutation, Requested
  <2>3. /\ cmd' \in [Procs -> Commands \cup {Build, MarkPlanned, Nil}]
        /\ cmd'[p] \in Mutations \cup {MarkPlanned}
        /\ \A q \in Procs : q # p => cmd'[q] = cmd[q]
    BY <1>0, <2>2 DEF TypeOK, ProcSound, MutationHeld
  <2>4. Mutation(cmd'[p])
    BY <2>3, MutationType
  <2>5. TypeOK'
    BY <1>0, <2>1, <2>3 DEF TypeOK, Results
  <2>6. ProcSound(p)'
    BY <1>0, <2>1, <2>4
       DEF TypeOK, ProcSound, HeldSound, MutationHeld, PlanHeld, Holds, Resolved, WellFormed
  <2>. QED
    BY <1>0, <1>1, <2>1, <2>3, <2>5, <2>6, FrameKeeps DEF TypeOK
<1>3. CASE BeginBuild(p)
  <2>1. /\ pc' = [pc EXCEPT ![p] = "load"] /\ cmd' = [cmd EXCEPT ![p] = Build]
        /\ result' = [result EXCEPT ![p] = "none"]
        /\ UNCHANGED <<meta, content, snaps, plans, held, seen, todo, made, crashes>>
    BY <1>3 DEF BeginBuild, Goto, disk
  <2>2. TypeOK'
    BY <1>0, <2>1 DEF TypeOK, Results
  <2>3. ProcSound(p)'
    BY <1>0, <2>1
       DEF TypeOK, ProcSound, HeldSound, MutationHeld, PlanHeld, Holds, Resolved, WellFormed
  <2>. QED
    BY <1>0, <1>1, <2>1, <2>2, <2>3, FrameKeeps DEF TypeOK
<1>4. CASE BeginPlan(p)
  <2>1. /\ pc' = [pc EXCEPT ![p] = "consider"] /\ held' = [held EXCEPT ![p] = meta]
        /\ result' = [result EXCEPT ![p] = "none"]
        /\ \E c \in Commands : cmd' = [cmd EXCEPT ![p] = c]
        /\ UNCHANGED <<meta, content, snaps, plans, seen, todo, made, crashes>>
    BY <1>4 DEF BeginPlan, Goto, disk, Requested
  <2>2. TypeOK'
    BY <1>0, <2>1 DEF TypeOK, Results
  <2>3. ProcSound(p)'
    BY <1>0, <2>1
       DEF TypeOK, ProcSound, HeldSound, MutationHeld, PlanHeld, Holds, Resolved, WellFormed
  <2>. QED
    BY <1>0, <1>1, <2>1, <2>2, <2>3, FrameKeeps DEF TypeOK
<1>5. CASE LoadForBuild(p)
  <2>1. /\ pc' = [pc EXCEPT ![p] = "render"] /\ held' = [held EXCEPT ![p] = meta]
        /\ UNCHANGED <<meta, content, snaps, plans, cmd, seen, todo, made, result, crashes>>
    BY <1>5 DEF LoadForBuild, Goto, disk
  <2>2. TypeOK'
    BY <1>0, <2>1 DEF TypeOK
  <2>3. ProcSound(p)'
    BY <1>0, <2>1
       DEF TypeOK, ProcSound, HeldSound, MutationHeld, PlanHeld, Holds, Resolved, WellFormed
  <2>. QED
    BY <1>0, <1>1, <2>1, <2>2, <2>3, FrameKeeps DEF TypeOK
<1>. QED
  BY <1>2, <1>3, <1>4, <1>5

\* A step that changes no more than where p is, what it read and what is left.
LEMMA MemorySteps ==
  ASSUME WorkshopInv, NEW p \in Procs,
         \/ ReadTexts(p) \/ AcceptMutation(p) \/ SkipMutation(p) \/ Render(p) \/ AcceptPlan(p)
  PROVE  WorkshopInv'
<1>0. TypeOK /\ ProcSound(p) /\ crashes \in 0 .. MaxCrashes
  BY SoundNow DEF TypeOK
<1>1. CASE ReadTexts(p)
  <2>1. /\ pc[p] = "read" /\ pc' = [pc EXCEPT ![p] = "decide"]
        /\ seen' = [seen EXCEPT ![p] = content]
        /\ UNCHANGED <<meta, content, snaps, plans, cmd, held, todo, made, result, crashes>>
    BY <1>1 DEF ReadTexts, Goto, disk
  <2>2. TypeOK'
    BY <1>0, <2>1 DEF TypeOK
  <2>3. ProcSound(p)'
    BY <1>0, <2>1
       DEF TypeOK, ProcSound, HeldSound, MutationHeld, PlanHeld, Holds, Resolved, WellFormed, Idle
  <2>. QED
    BY <1>0, <2>1, <2>2, <2>3, MoveKeeps DEF TypeOK
<1>2. CASE AcceptMutation(p)
  <2>1. /\ pc[p] = "decide" /\ pc' = [pc EXCEPT ![p] = "write"]
        /\ seen' = [seen EXCEPT ![p] = NextContents(p)]
        /\ todo' = [todo EXCEPT ![p] = Changed(p)]
        /\ UNCHANGED <<meta, content, snaps, plans, cmd, held, made, result, crashes>>
        /\ TransitionAllowed(p)
    BY <1>2 DEF AcceptMutation, Goto, disk
  <2>2. NextContents(p) \in Contents /\ Changed(p) \subseteq Components
    BY <1>0, <2>1, NextTypes DEF Changed
  <2>3. TypeOK'
    BY <1>0, <2>1, <2>2 DEF TypeOK
  <2>4. TransitionAllowed(p)'
    BY <2>1 DEF TransitionAllowed, NextStatus
  <2>5. ProcSound(p)'
    BY <1>0, <2>1, <2>4
       DEF TypeOK, ProcSound, HeldSound, MutationHeld, PlanHeld, Holds, Resolved, WellFormed, Idle
  <2>. QED
    BY <1>0, <2>1, <2>3, <2>5, MoveKeeps DEF TypeOK
<1>3. CASE SkipMutation(p)
  <2>1. CASE cmd[p].builds
    <3>1. /\ pc' = [pc EXCEPT ![p] = "load"]
          /\ UNCHANGED <<meta, content, snaps, plans, cmd, held, seen, todo, made, result, crashes>>
      BY <1>3, <2>1 DEF SkipMutation, AfterMutation, Goto, disk
    <3>2. TypeOK'
      BY <1>0, <3>1 DEF TypeOK
    <3>3. ProcSound(p)'
      BY <1>0, <3>1 DEF TypeOK, ProcSound, HeldSound, MutationHeld, PlanHeld, Holds
    <3>. QED
      BY <1>0, <3>1, <3>2, <3>3, MoveKeeps DEF TypeOK
  <2>2. CASE ~cmd[p].builds
    <3>1. Finish(p, "ok") /\ UNCHANGED <<disk, crashes>>
      BY <1>3, <2>2 DEF SkipMutation, AfterMutation
    <3>. QED
      BY <1>0, <3>1, QuietFinish DEF Results
  <2>. QED
    BY <2>1, <2>2
<1>4. CASE Render(p) \/ AcceptPlan(p)
  <2>1. /\ Holds(p)
        /\ pc' = [pc EXCEPT ![p] = "save"] \/ pc' = [pc EXCEPT ![p] = "make"]
        /\ UNCHANGED <<meta, content, snaps, plans, cmd, held, seen, todo, made, result, crashes>>
    BY <1>4 DEF Render, AcceptPlan, Goto, disk, Holds, Idle
  <2>2. TypeOK'
    BY <1>0, <2>1 DEF TypeOK
  <2>3. ProcSound(p)'
    BY <1>0, <2>1
       DEF TypeOK, ProcSound, HeldSound, MutationHeld, PlanHeld, Holds, Resolved, WellFormed
  <2>. QED
    BY <1>0, <2>1, <2>2, <2>3, MoveKeeps DEF TypeOK
<1>. QED
  BY <1>1, <1>2, <1>3, <1>4

LEMMA WritingSteps ==
  ASSUME WorkshopInv, NEW p \in Procs, WriteComponent(p) \/ WriteMetadata(p)
  PROVE  WorkshopInv'
<1>0. /\ TypeOK /\ ProcSound(p) /\ pc[p] = "write"
      /\ held[p] \in Meta /\ WellFormed(held[p]) /\ Resolved(held[p])
  BY SoundNow DEF WriteComponent, WriteMetadata, Holds, Idle
<1>1. CASE WriteComponent(p)
  <2>1. PICK c \in todo[p] :
          /\ content' = [content EXCEPT ![c] = seen[p][c]]
          /\ held' = [held EXCEPT ![p].sha[c] = seen[p][c]]
          /\ todo' = [todo EXCEPT ![p] = @ \ {c}]
          /\ UNCHANGED <<meta, snaps, plans, pc, cmd, seen, made, result, crashes>>
    BY <1>1 DEF WriteComponent
  <2>2. c \in Components /\ seen[p][c] \in Texts
    BY <1>0 DEF TypeOK, Contents
  <2>3. held'[p] = [held[p] EXCEPT !.sha = [held[p].sha EXCEPT ![c] = seen[p][c]]]
    BY <1>0, <2>1 DEF TypeOK
  <2>4. held'[p] \in Meta
    <3>1. [held[p].sha EXCEPT ![c] = seen[p][c]] \in Contents
      BY <1>0, <2>2 DEF Meta, Contents
    <3>. QED
      BY <1>0, <2>3, <3>1 DEF Meta
  <2>5. /\ held'[p].history = held[p].history /\ held'[p].links = held[p].links
        /\ held'[p].version = held[p].version /\ held'[p].status = held[p].status
    BY <1>0, <2>3 DEF Meta
  <2>6. TypeOK'
    <3>1. content' \in Contents
      BY <1>0, <2>1, <2>2 DEF TypeOK, Contents
    <3>2. held' \in [Procs -> Meta \cup {Nil}]
      BY <1>0, <2>1, <2>4 DEF TypeOK
    <3>. QED
      BY <1>0, <2>1, <3>1, <3>2 DEF TypeOK
  <2>7. ProcSound(p)'
    <3>1. HeldSound(p)'
      <4>1. WellFormed(held'[p])
        BY <1>0, <2>5 DEF WellFormed
      <4>2. Resolved(held[p])'
        BY <1>0, <2>1, <2>5 DEF Resolved
      <4>. QED
        BY <2>4, <4>1, <4>2 DEF HeldSound, WellFormed
    <3>2. MutationHeld(p)'
      <4>1. cmd' = cmd /\ pc' = pc
        BY <2>1
      <4>2. NextStatus(p)' = NextStatus(p)
        BY <2>5, <4>1 DEF NextStatus
      <4>3. TransitionAllowed(p)'
        BY <1>0, <2>5, <4>2 DEF TransitionAllowed, ProcSound, MutationHeld
      <4>. QED
        BY <1>0, <2>5, <4>1, <4>3 DEF ProcSound, MutationHeld
    <3>3. PlanHeld(p)'
      BY <1>0, <2>1 DEF PlanHeld
    <3>. QED
      BY <3>1, <3>2, <3>3 DEF ProcSound
  <2>. QED
    BY <1>0, <2>1, <2>6, <2>7, MoveKeeps DEF TypeOK
<1>2. CASE WriteMetadata(p)
  <2> DEFINE b == Bump(held[p], NextStatus(p), p)
  <2>1. /\ meta' = b /\ held' = [held EXCEPT ![p] = b] /\ pc' = [pc EXCEPT ![p] = "snapshot"]
        /\ UNCHANGED <<content, snaps, plans, cmd, seen, todo, made, result, crashes>>
    BY <1>2 DEF WriteMetadata, Goto
  <2>2. NextStatus(p) \in Statuses /\ TransitionAllowed(p) /\ held[p].version < MaxVersion
    BY <1>0, NextTypes DEF ProcSound, MutationHeld
  <2>3. b \in Meta /\ WellFormed(b) /\ b.links = held[p].links
    BY <1>0, <2>2, BumpSound DEF TransitionAllowed
  <2> HIDE DEF b
  <2>4. meta' \in Meta /\ WellFormed(meta)' /\ Resolved(meta)'
    BY <1>0, <2>1, <2>3 DEF Resolved, WellFormed
  <2>5. TypeOK'
    BY <1>0, <2>1, <2>3 DEF TypeOK
  <2>6. HistoryWellFormed' /\ LinksResolve'
    BY <2>4 DEF HistoryWellFormed, LinksResolve
  <2>7. held'[p] = meta' /\ pc'[p] = "snapshot"
    BY <1>0, <2>1 DEF TypeOK
  <2>8. ProcSound(p)'
    BY <2>4, <2>7
       DEF ProcSound, HeldSound, MutationHeld, PlanHeld, Holds, Resolved, WellFormed
  <2>. QED
    BY <1>0, <2>1, <2>5, <2>6, <2>8, FrameKeeps DEF TypeOK, PlansGrow
<1>. QED
  BY <1>1, <1>2

\* The snapshot's files keep their types, and nothing else is touched.
LEMMA SnapshotSteps ==
  ASSUME WorkshopInv, NEW p \in Procs,
         ResetSnapshot(p) \/ CopyMetadata(p) \/ CopyTree(p) \/ WriteManifest(p)
  PROVE  WorkshopInv'
<1>0. /\ TypeOK /\ ProcSound(p) /\ WellFormed(meta) /\ Resolved(meta) /\ meta \in Meta
      /\ held[p] \in Meta /\ held[p].version \in Versions /\ Holds(p)
      /\ content \in Contents /\ crashes \in 0 .. MaxCrashes /\ snaps \in [Versions -> Snapshot]
  BY SoundNow
     DEF ResetSnapshot, CopyMetadata, CopyTree, WriteManifest, Holds, Idle, Meta, TypeOK
<1>1. snaps' \in [Versions -> Snapshot]
  <2>1. CASE ResetSnapshot(p)
    BY <1>0, <2>1, SnapshotTypes DEF ResetSnapshot
  <2>2. CASE CopyMetadata(p)
    BY <1>0, <2>2 DEF CopyMetadata, Snapshot
  <2>3. CASE CopyTree(p)
    BY <1>0, <2>3 DEF CopyTree, Snapshot
  <2>4. CASE WriteManifest(p)
    <3> DEFINE m == [version |-> held[p].version, status |-> held[p].status, sha |-> held[p].sha]
    <3>1. m \in Manifest
      BY <1>0, SnapshotTypes
    <3>2. snaps' = [snaps EXCEPT ![held[p].version].manifest = m]
      BY <2>4 DEF WriteManifest
    <3> HIDE DEF m
    <3>. QED
      BY <1>0, <3>1, <3>2 DEF Snapshot
  <2>. QED
    BY <2>1, <2>2, <2>3, <2>4
<1>2. UNCHANGED <<meta, content, plans, crashes>>
  BY DEF ResetSnapshot, CopyMetadata, CopyTree, WriteManifest
<1>3. ASSUME UNCHANGED <<cmd, held, seen, todo, made, result>>,
             NEW label \in {"copy_meta", "copy_tree", "manifest", "load"},
             pc' = [pc EXCEPT ![p] = label]
      PROVE  WorkshopInv'
  <2>1. TypeOK'
    BY <1>0, <1>1, <1>2, <1>3 DEF TypeOK
  <2>2. ProcSound(p)'
    BY <1>0, <1>2, <1>3
       DEF TypeOK, ProcSound, HeldSound, MutationHeld, PlanHeld, Resolved, WellFormed
  <2>. QED
    BY <1>0, <1>2, <1>3, <2>1, <2>2, MoveKeeps DEF TypeOK
<1>4. ASSUME NEW o \in Results, Finish(p, o) PROVE WorkshopInv'
  BY <1>0, <1>1, <1>2, <1>4, FinishKeeps DEF Resolved, WellFormed
<1>5. CASE ResetSnapshot(p) \/ CopyMetadata(p)
  BY <1>3, <1>5 DEF ResetSnapshot, CopyMetadata, Goto
<1>6. CASE CopyTree(p)
  BY <1>3, <1>4, <1>6 DEF CopyTree, Goto, Results
<1>7. CASE WriteManifest(p)
  BY <1>3, <1>4, <1>7 DEF WriteManifest, AfterMutation, Goto, Results
<1>. QED
  BY <1>5, <1>6, <1>7

LEMMA SavingStep ==
  ASSUME WorkshopInv, NEW p \in Procs, SaveRendered(p)
  PROVE  WorkshopInv'
<1>0. TypeOK /\ held[p] \in Meta /\ WellFormed(held[p]) /\ Resolved(held[p])
  BY SoundNow DEF SaveRendered, Holds, Idle
<1>1. /\ meta' = [held[p] EXCEPT !.rendered = held[p].version]
      /\ UNCHANGED <<content, snaps, plans, crashes>> /\ Finish(p, "ok")
  BY DEF SaveRendered
<1>2. /\ meta' \in Meta
      /\ meta'.version = held[p].version /\ meta'.status = held[p].status
      /\ meta'.history = held[p].history /\ meta'.links = held[p].links
  BY <1>0, <1>1 DEF Meta
<1>3. WellFormed(meta') /\ Resolved(meta')
  BY <1>0, <1>1, <1>2 DEF WellFormed, Resolved
<1>. QED
  BY <1>0, <1>1, <1>2, <1>3, FinishKeeps DEF TypeOK, Results

\* A plan is made, told where it comes from, and linked.
LEMMA PlanSteps ==
  ASSUME WorkshopInv, NEW p \in Procs, MakePlan(p) \/ NameSource(p) \/ Link(p)
  PROVE  WorkshopInv'
<1>0. /\ TypeOK /\ ProcSound(p) /\ HistoryWellFormed /\ LinksResolve
      /\ meta \in Meta /\ WellFormed(meta) /\ Resolved(meta)
      /\ held[p] \in Meta /\ WellFormed(held[p]) /\ Resolved(held[p])
  BY SoundNow DEF MakePlan, NameSource, Link, Holds, Idle, WorkshopInv
<1>1. CASE MakePlan(p)
  <2>1. PICK n \in PlanIds :
          /\ plans[n] = "none"
          /\ plans' = [plans EXCEPT ![n] = "made"] /\ made' = [made EXCEPT ![p] = n]
    BY <1>1 DEF MakePlan
  <2>2. /\ pc' = [pc EXCEPT ![p] = "source"]
        /\ UNCHANGED <<meta, content, snaps, cmd, held, seen, todo, result, crashes>>
    BY <1>1 DEF MakePlan, Goto
  <2>3. TypeOK'
    BY <1>0, <2>1, <2>2 DEF TypeOK
  <2>4. PlansGrow
    BY <1>0, <2>1 DEF TypeOK, PlansGrow
  <2>5. Resolved(meta)' /\ Resolved(held[p])'
    BY <1>0, <2>2, <2>4, ResolvedKept DEF Resolved
  <2>6. ProcSound(p)'
    <3>1. pc'[p] = "source" /\ made'[p] = n /\ plans'[n] = "made" /\ held'[p] = held[p]
      BY <1>0, <2>1, <2>2 DEF TypeOK
    <3>. QED
      BY <1>0, <2>5, <3>1 DEF ProcSound, HeldSound, MutationHeld, PlanHeld, WellFormed
  <2>. QED
    BY <1>0, <2>1, <2>2, <2>3, <2>4, <2>5, <2>6, FrameKeeps
       DEF TypeOK, HistoryWellFormed, LinksResolve, WellFormed
<1>2. CASE NameSource(p)
  <2>1. /\ pc[p] = "source" /\ plans' = [plans EXCEPT ![made[p]] = "sourced"]
        /\ pc' = [pc EXCEPT ![p] = "link"]
        /\ UNCHANGED <<meta, content, snaps, cmd, held, seen, todo, made, result, crashes>>
    BY <1>2 DEF NameSource, Goto
  <2>2. made[p] \in PlanIds
    BY <1>0, <2>1 DEF ProcSound, PlanHeld
  <2>3. TypeOK'
    BY <1>0, <2>1, <2>2 DEF TypeOK
  <2>4. PlansGrow
    BY <1>0, <2>1 DEF TypeOK, PlansGrow
  <2>5. Resolved(meta)' /\ Resolved(held[p])'
    BY <1>0, <2>1, <2>4, ResolvedKept DEF Resolved
  <2>6. ProcSound(p)'
    <3>1. pc'[p] = "link" /\ plans'[made[p]] = "sourced"
      BY <1>0, <2>1, <2>2 DEF TypeOK
    <3>. QED
      BY <1>0, <2>1, <2>2, <2>5, <3>1
         DEF ProcSound, HeldSound, MutationHeld, PlanHeld, WellFormed
  <2>. QED
    BY <1>0, <2>1, <2>3, <2>4, <2>5, <2>6, FrameKeeps
       DEF TypeOK, HistoryWellFormed, LinksResolve, WellFormed
<1>3. CASE Link(p)
  <2>1. /\ pc[p] = "link" /\ meta' = [held[p] EXCEPT !.links = Append(@, made[p])]
        /\ UNCHANGED <<content, snaps, plans, crashes>>
    BY <1>3 DEF Link, Linked
  <2>2. made[p] \in PlanIds /\ plans[made[p]] = "sourced"
    BY <1>0, <2>1 DEF ProcSound, PlanHeld
  <2>3. /\ meta' \in Meta /\ meta'.links = Append(held[p].links, made[p])
        /\ meta'.version = held[p].version /\ meta'.status = held[p].status
        /\ meta'.history = held[p].history
    <3>1. Append(held[p].links, made[p]) \in Seq(PlanIds)
      BY <1>0, <2>2 DEF Meta
    <3>2. meta' = [held[p] EXCEPT !.links = Append(held[p].links, made[p])]
      BY <2>1
    <3>. QED
      BY <1>0, <3>1, <3>2 DEF Meta
  <2>4. WellFormed(meta')
    BY <1>0, <2>3 DEF WellFormed
  <2>5. Range(meta'.links) = Range(held[p].links) \cup {made[p]}
    <3>1. held[p].links \in Seq(PlanIds)
      BY <1>0 DEF Meta
    <3>. QED
      BY <2>2, <2>3, <3>1 DEF Range
  <2>6. Resolved(meta')
    BY <1>0, <2>1, <2>2, <2>5 DEF Resolved
  <2>7. CASE Finish(p, "ok")
    BY <1>0, <2>1, <2>3, <2>4, <2>6, <2>7, FinishKeeps DEF TypeOK, Results
  <2>8. CASE ~Finish(p, "ok")
    <3>1. /\ pc' = [pc EXCEPT ![p] = "mark"] /\ cmd' = [cmd EXCEPT ![p] = MarkPlanned]
          /\ held' = [held EXCEPT ![p] = Nil] /\ made' = [made EXCEPT ![p] = 0]
          /\ UNCHANGED <<seen, todo, result>>
      BY <1>3, <2>8 DEF Link, Goto
    <3>2. TypeOK'
      BY <1>0, <2>1, <2>3, <3>1 DEF TypeOK
    <3>3. ProcSound(p)'
      BY <1>0, <3>1 DEF TypeOK, ProcSound, HeldSound, MutationHeld, PlanHeld, Holds
    <3>4. HistoryWellFormed' /\ LinksResolve' /\ PlansGrow
      BY <2>1, <2>4, <2>6 DEF HistoryWellFormed, LinksResolve, WellFormed, Resolved, PlansGrow
    <3>. QED
      BY <1>0, <3>1, <3>2, <3>3, <3>4, FrameKeeps DEF TypeOK
  <2>. QED
    BY <2>7, <2>8
<1>. QED
  BY <1>1, <1>2, <1>3

LEMMA WorkshopInvNext == WorkshopInv /\ [Next]_vars => WorkshopInv'
<1> SUFFICES ASSUME WorkshopInv, [Next]_vars PROVE WorkshopInv'
  OBVIOUS
<1>1. CASE Next
  BY <1>1, Refusals, BeginSteps, MemorySteps, WritingSteps, SnapshotSteps, SavingStep, PlanSteps
     DEF Next, Begin, Step
<1>2. CASE UNCHANGED vars
  BY <1>2 DEF vars, WorkshopInv, TypeOK, HistoryWellFormed, LinksResolve, WellFormed, Resolved,
     ProcSound, HeldSound, MutationHeld, PlanHeld, Holds, TransitionAllowed, NextStatus
<1>. QED
  BY <1>1, <1>2

LEMMA Inductive == Spec => []WorkshopInv
<1>1. WorkshopInv /\ [Next]_vars => WorkshopInv'
  BY WorkshopInvNext
<1>. QED
  BY <1>1, WorkshopInvInit, PTL DEF Spec

\* The files of the workshop and every variable of every command keep their
\* types, and no version is recorded beyond the bound.
THEOREM TypeCorrect == Spec => []TypeOK
<1>1. WorkshopInv => TypeOK
  BY DEF WorkshopInv
<1>. QED
  BY <1>1, Inductive, PTL

\* However many commands on the workshop interleave, overwrite each other and
\* die, the history in workshop.yaml is a numbered chain of transitions that
\* VALID_WORKSHOP_TRANSITIONS allows (apply_workshop_mutations).
THEOREM HistoryAlwaysWellFormed == Spec => []HistoryWellFormed
<1>1. WorkshopInv => HistoryWellFormed
  BY DEF WorkshopInv
<1>. QED
  BY <1>1, Inductive, PTL

\* However many do, every plan that workshop.yaml links exists and names the
\* workshop as its source (create_plan_from_workshop writes the link last).
THEOREM LinksAlwaysResolve == Spec => []LinksResolve
<1>1. WorkshopInv => LinksResolve
  BY DEF WorkshopInv
<1>. QED
  BY <1>1, Inductive, PTL

-----------------------------------------------------------------------------
(* One process *)

LEMMA SoleInit == ASSUME NEW p \in Procs PROVE Init => SoleInv(p)
<1> SUFFICES ASSUME Init PROVE SoleInv(p)
  OBVIOUS
<1>1. PICK s \in Statuses, k \in [Components -> Inputs \cup {Empty}] :
        /\ s = "shaped" => Shaped(k)
        /\ meta = FirstMeta(s, k, 1) /\ content = k
  BY DEF Init
<1>2. k \in Contents /\ 1 \in Versions
  BY TextTypes, InputsAssumption, BoundsAssumption DEF Contents, Versions
<1>3. meta.status = s
  BY <1>1, <1>2, NewMetaSound
<1>4. pc[p] = Idle
  BY DEF Init
<1>. QED
  BY <1>1, <1>3, <1>4, WorkshopInvInit
     DEF SoleInv, Synced, TextsKept, ShapedUnlessWriting, ReadyToMake, Holds, Idle

\* What a step of the one process may do to workshop.yaml and to the plans.
Orderly(p) ==
  /\ Continues(meta', meta)
  /\ meta.status = "cancelled" => meta'.status = "cancelled"
  /\ made[p] = 0 /\ made'[p] # 0 /\ ~cmd[p].allow => meta.status = "shaped" /\ Shaped(content)

LEMMA ContinuesSelf == ASSUME NEW m \in Meta PROVE Continues(m, m)
BY DEF Meta, Continues, Begins

\* The command ends, the component files as they are.
LEMMA SoleFinish ==
  ASSUME NEW p \in Procs, SoleInv(p), NEW o, Finish(p, o), content' = content,
         WorkshopInv', meta'.status = meta.status, pc[p] # "write" \/ crashes' # 0,
         crashes' = 0 => crashes = 0, Continues(meta', meta)
  PROVE  SoleInv(p)' /\ Orderly(p)
<1>1. pc'[p] = Idle /\ made'[p] = 0
  BY DEF Finish, SoleInv, WorkshopInv, TypeOK
<1>2. crashes' = 0 /\ meta'.status = "shaped" => Shaped(content')
  BY DEF SoleInv, ShapedUnlessWriting
<1>3. Synced(p)' /\ TextsKept(p)' /\ ShapedUnlessWriting(p)' /\ ReadyToMake(p)'
  BY <1>1, <1>2 DEF Synced, TextsKept, ShapedUnlessWriting, ReadyToMake, Holds, Idle, Shaped
<1>. QED
  BY <1>1, <1>3 DEF SoleInv, Orderly

LEMMA SoleRefusals ==
  ASSUME NEW p \in Procs, SoleInv(p), WorkshopInv',
         \/ RefuseCancelled(p) \/ RefuseTransition(p) \/ RefuseShaped(p)
         \/ RefuseBuild(p) \/ RefuseUnshaped(p) \/ RefuseInvalid(p) \/ Crash(p)
  PROVE  SoleInv(p)' /\ Orderly(p)
<1>1. crashes \in Nat /\ Continues(meta, meta)
  BY ContinuesSelf DEF SoleInv, WorkshopInv, TypeOK
<1>2. UNCHANGED <<meta, content>>
  BY DEF RefuseCancelled, RefuseTransition, RefuseShaped, RefuseBuild, RefuseUnshaped,
         RefuseInvalid, Crash, disk
<1>3. CASE Crash(p)
  BY <1>1, <1>2, <1>3, SoleFinish DEF Crash
<1>4. CASE ~Crash(p)
  <2>1. crashes' = crashes /\ pc[p] # "write" /\ \E o : Finish(p, o)
    BY <1>4 DEF RefuseCancelled, RefuseTransition, RefuseShaped, RefuseBuild, RefuseUnshaped,
                RefuseInvalid, Idle
  <2>. QED
    BY <1>1, <1>2, <2>1, SoleFinish
<1>. QED
  BY <1>3, <1>4

\* A step from one label to another that leaves the files and the made plan as
\* they are.
LEMMA SoleMove ==
  ASSUME NEW p \in Procs, SoleInv(p), WorkshopInv', UNCHANGED <<meta, content, crashes>>,
         made'[p] = made[p], pc[p] # "write", Synced(p)', TextsKept(p)',
         pc'[p] = "make" /\ ~cmd'[p].allow => meta.status = "shaped" /\ Shaped(content)
  PROVE  SoleInv(p)' /\ Orderly(p)
<1>1. Continues(meta', meta)
  BY ContinuesSelf DEF SoleInv, WorkshopInv, TypeOK
<1>2. ShapedUnlessWriting(p)' /\ ReadyToMake(p)'
  BY DEF SoleInv, ShapedUnlessWriting, ReadyToMake, Shaped
<1>. QED
  BY <1>1, <1>2 DEF SoleInv, Orderly

LEMMA SoleBegins ==
  ASSUME NEW p \in Procs, SoleInv(p), WorkshopInv',
         BeginMutation(p) \/ BeginBuild(p) \/ BeginPlan(p) \/ LoadForBuild(p)
  PROVE  SoleInv(p)' /\ Orderly(p)
<1>1. /\ UNCHANGED <<meta, content, crashes, made>> /\ pc[p] # "write"
      /\ \/ pc' = [pc EXCEPT ![p] = "load"]
         \/ held' = [held EXCEPT ![p] = meta]
            /\ \E l \in {"read", "consider", "render"} : pc' = [pc EXCEPT ![p] = l]
  BY DEF BeginMutation, BeginBuild, BeginPlan, LoadForBuild, Goto, disk, Idle
<1>2. TypeOK
  BY DEF SoleInv, WorkshopInv
<1>3. \/ pc'[p] = "load"
      \/ held'[p] = meta /\ pc'[p] \in {"read", "consider", "render"}
  BY <1>1, <1>2 DEF TypeOK
<1>4. Synced(p)' /\ TextsKept(p)' /\ pc'[p] # "make"
  BY <1>1, <1>3 DEF Synced, TextsKept, Holds
<1>. QED
  BY <1>1, <1>4, SoleMove

LEMMA SoleMemory ==
  ASSUME NEW p \in Procs, SoleInv(p), WorkshopInv',
         \/ ReadTexts(p) \/ AcceptMutation(p) \/ SkipMutation(p) \/ Render(p) \/ AcceptPlan(p)
  PROVE  SoleInv(p)' /\ Orderly(p)
<1>1. TypeOK /\ WorkshopInv /\ Synced(p) /\ TextsKept(p) /\ ProcSound(p)
  BY DEF SoleInv, WorkshopInv
<1>2. UNCHANGED <<meta, content, crashes>> /\ pc[p] # "write"
  BY DEF ReadTexts, AcceptMutation, SkipMutation, Render, AcceptPlan, disk
<1>3. CASE ReadTexts(p)
  <2>1. /\ pc[p] = "read" /\ pc'[p] = "decide" /\ seen'[p] = content
        /\ UNCHANGED <<held, made, cmd>>
    BY <1>1, <1>3 DEF ReadTexts, Goto, TypeOK
  <2>2. Synced(p)' /\ TextsKept(p)'
    BY <1>1, <1>2, <2>1 DEF Synced, TextsKept, Holds, Idle
  <2>. QED
    BY <1>2, <2>1, <2>2, SoleMove
<1>4. CASE AcceptMutation(p)
  <2>1. /\ pc[p] = "decide" /\ pc'[p] = "write"
        /\ seen'[p] = NextContents(p) /\ todo'[p] = Changed(p)
        /\ UNCHANGED <<held, made, cmd>> /\ GateOpen(p)
    BY <1>1, <1>4 DEF AcceptMutation, Goto, TypeOK
  <2>2. seen[p] = content
    BY <1>1, <2>1 DEF TextsKept
  <2>3. \A c \in Components \ todo'[p] : content'[c] = seen'[p][c]
    <3>1. ASSUME NEW c \in Components, c \notin Changed(p)
          PROVE  NextContents(p)[c] = seen[p][c]
      BY <3>1 DEF Changed
    <3>. QED
      BY <1>2, <2>1, <2>2, <3>1
  <2>4. NextStatus(p)' = "shaped" => Shaped(seen'[p])
    <3>1. NextStatus(p)' = NextStatus(p)
      BY <2>1 DEF NextStatus
    <3>. QED
      BY <2>1, <3>1 DEF GateOpen
  <2>5. TextsKept(p)'
    BY <2>1, <2>3, <2>4 DEF TextsKept, Shaped
  <2>6. Synced(p)'
    BY <1>1, <1>2, <2>1 DEF Synced, Holds, Idle
  <2>. QED
    BY <1>2, <2>1, <2>5, <2>6, SoleMove
<1>5. CASE SkipMutation(p)
  <2>1. CASE cmd[p].builds
    <3>1. pc'[p] = "load" /\ made' = made
      BY <1>1, <1>5, <2>1 DEF SkipMutation, AfterMutation, Goto, TypeOK
    <3>2. Synced(p)' /\ TextsKept(p)'
      BY <3>1 DEF Synced, TextsKept, Holds
    <3>. QED
      BY <1>2, <3>1, <3>2, SoleMove
  <2>2. CASE ~cmd[p].builds
    <3>1. Finish(p, "ok")
      BY <1>5, <2>2 DEF SkipMutation, AfterMutation
    <3>2. Continues(meta', meta)
      BY <1>1, <1>2, ContinuesSelf DEF TypeOK
    <3>. QED
      BY <1>2, <3>1, <3>2, SoleFinish
  <2>. QED
    BY <2>1, <2>2
<1>6. CASE Render(p)
  <2>1. pc[p] = "render" /\ pc'[p] = "save" /\ UNCHANGED <<held, made, cmd>>
    BY <1>1, <1>6 DEF Render, Goto, TypeOK
  <2>2. Synced(p)' /\ TextsKept(p)'
    BY <1>1, <1>2, <2>1 DEF Synced, TextsKept, Holds, Idle
  <2>. QED
    BY <1>2, <2>1, <2>2, SoleMove
<1>7. CASE AcceptPlan(p)
  <2>1. /\ pc[p] = "consider" /\ pc'[p] = "make" /\ UNCHANGED <<held, made, cmd>>
        /\ Plannable(p)
    BY <1>1, <1>7 DEF AcceptPlan, Goto, TypeOK
  <2>2. Synced(p)' /\ TextsKept(p)'
    BY <1>1, <1>2, <2>1 DEF Synced, TextsKept, Holds, Idle
  <2>3. ~cmd[p].allow => meta.status = "shaped" /\ Shaped(content)
    BY <1>1, <2>1 DEF Plannable, Synced, Holds, Idle
  <2>. QED
    BY <1>2, <2>1, <2>2, <2>3, SoleMove
<1>. QED
  BY <1>3, <1>4, <1>5, <1>6, <1>7

LEMMA SoleWrites ==
  ASSUME NEW p \in Procs, SoleInv(p), WorkshopInv', WriteComponent(p) \/ WriteMetadata(p)
  PROVE  SoleInv(p)' /\ Orderly(p)
<1>1. /\ TypeOK /\ Synced(p) /\ TextsKept(p) /\ ProcSound(p) /\ pc[p] = "write"
      /\ held[p] \in Meta /\ WellFormed(held[p]) /\ meta \in Meta
  BY SoundNow DEF SoleInv, WorkshopInv, WriteComponent, WriteMetadata, Holds, Idle
<1>2. CASE WriteComponent(p)
  <2>1. PICK c \in todo[p] :
          /\ content' = [content EXCEPT ![c] = seen[p][c]]
          /\ held' = [held EXCEPT ![p].sha[c] = seen[p][c]]
          /\ todo' = [todo EXCEPT ![p] = @ \ {c}]
          /\ UNCHANGED <<meta, snaps, plans, pc, cmd, seen, made, result, crashes>>
    BY <1>2 DEF WriteComponent
  <2>2. held'[p] = [held[p] EXCEPT !.sha = [held[p].sha EXCEPT ![c] = seen[p][c]]]
    BY <1>1, <2>1 DEF TypeOK
  <2>3. /\ held'[p].history = held[p].history /\ held'[p].links = held[p].links
        /\ held'[p].version = held[p].version /\ held'[p].status = held[p].status
    BY <1>1, <2>2 DEF Meta
  <2>4. Synced(p)'
    BY <1>1, <2>1, <2>3 DEF Synced, Holds, Idle
  <2>5. \A d \in Components \ todo'[p] : content'[d] = seen'[p][d]
    BY <1>1, <2>1 DEF TypeOK, TextsKept, Contents
  <2>6. NextStatus(p)' = NextStatus(p)
    BY <2>1, <2>3 DEF NextStatus
  <2>7. TextsKept(p)'
    BY <1>1, <2>1, <2>5, <2>6 DEF TextsKept, Shaped
  <2>8. ShapedUnlessWriting(p)' /\ ReadyToMake(p)'
    BY <1>1, <2>1 DEF ShapedUnlessWriting, ReadyToMake
  <2>9. Continues(meta', meta)
    BY <1>1, <2>1, ContinuesSelf
  <2>. QED
    BY <2>1, <2>4, <2>7, <2>8, <2>9 DEF SoleInv, Orderly
<1>3. CASE WriteMetadata(p)
  <2> DEFINE b == Bump(held[p], NextStatus(p), p)
  <2>1. /\ meta' = b /\ held' = [held EXCEPT ![p] = b] /\ pc' = [pc EXCEPT ![p] = "snapshot"]
        /\ UNCHANGED <<content, snaps, plans, cmd, seen, todo, made, result, crashes>>
        /\ todo[p] = {}
    BY <1>3 DEF WriteMetadata, Goto
  <2>2. NextStatus(p) \in Statuses /\ TransitionAllowed(p) /\ held[p].version < MaxVersion
    BY <1>1, NextTypes DEF ProcSound, MutationHeld
  <2>3. /\ b.links = held[p].links /\ b.status = NextStatus(p)
        /\ \E e \in Entry : b.history = Append(held[p].history, e)
    BY <1>1, <2>2, BumpSound DEF TransitionAllowed
  <2> HIDE DEF b
  <2>4. held'[p] = meta' /\ pc'[p] = "snapshot"
    BY <1>1, <2>1 DEF TypeOK
  <2>5. Continues(meta', meta)
    <3>1. /\ held[p].history = meta.history /\ held[p].links = meta.links
          /\ meta.history \in Seq(Entry) /\ meta.links \in Seq(PlanIds)
      BY <1>1 DEF Synced, Holds, Idle, Meta
    <3>2. Begins(meta.links, meta'.links)
      BY <2>1, <2>3, <3>1 DEF Begins
    <3>3. Begins(meta.history, meta'.history)
      BY <2>1, <2>3, <3>1 DEF Begins
    <3>. QED
      BY <3>2, <3>3 DEF Continues
  <2>6. content = seen[p]
    BY <1>1, <2>1 DEF TypeOK, TextsKept, Contents
  <2>7. meta'.status = "shaped" => Shaped(content')
    BY <1>1, <2>1, <2>3, <2>6 DEF TextsKept
  <2>8. meta.status = "cancelled" => meta'.status = "cancelled"
    BY <1>1, <2>1, <2>2, <2>3
       DEF Synced, Holds, Idle, TransitionAllowed, AllowedStep, ValidTransitions
  <2>9. Synced(p)' /\ TextsKept(p)' /\ ShapedUnlessWriting(p)' /\ ReadyToMake(p)'
    BY <2>4, <2>7 DEF Synced, TextsKept, ShapedUnlessWriting, ReadyToMake, Shaped
  <2>. QED
    BY <2>1, <2>5, <2>8, <2>9 DEF SoleInv, Orderly
<1>. QED
  BY <1>2, <1>3

LEMMA SoleSnapshots ==
  ASSUME NEW p \in Procs, SoleInv(p), WorkshopInv',
         ResetSnapshot(p) \/ CopyMetadata(p) \/ CopyTree(p) \/ WriteManifest(p)
  PROVE  SoleInv(p)' /\ Orderly(p)
<1>1. TypeOK /\ WorkshopInv /\ Synced(p) /\ Continues(meta, meta)
  BY ContinuesSelf DEF SoleInv, WorkshopInv, TypeOK
<1>2. UNCHANGED <<meta, content, crashes>> /\ pc[p] # "write" /\ Holds(p)
  BY DEF ResetSnapshot, CopyMetadata, CopyTree, WriteManifest, Holds, Idle
<1>3. ASSUME UNCHANGED <<cmd, held, seen, todo, made, result>>,
             NEW label \in {"copy_meta", "copy_tree", "manifest", "load"},
             pc' = [pc EXCEPT ![p] = label]
      PROVE  SoleInv(p)' /\ Orderly(p)
  <2>1. pc'[p] = label
    BY <1>1, <1>3 DEF TypeOK
  <2>2. Synced(p)' /\ TextsKept(p)'
    BY <1>1, <1>2, <1>3, <2>1 DEF Synced, TextsKept
  <2>. QED
    BY <1>2, <1>3, <2>1, <2>2, SoleMove
<1>4. ASSUME NEW o, Finish(p, o) PROVE SoleInv(p)' /\ Orderly(p)
  BY <1>1, <1>2, <1>4, SoleFinish
<1>5. CASE ResetSnapshot(p) \/ CopyMetadata(p)
  BY <1>3, <1>5 DEF ResetSnapshot, CopyMetadata, Goto
<1>6. CASE CopyTree(p)
  BY <1>3, <1>4, <1>6 DEF CopyTree, Goto
<1>7. CASE WriteManifest(p)
  BY <1>3, <1>4, <1>7 DEF WriteManifest, AfterMutation, Goto
<1>. QED
  BY <1>5, <1>6, <1>7

LEMMA SoleSaves ==
  ASSUME NEW p \in Procs, SoleInv(p), WorkshopInv', SaveRendered(p)
  PROVE  SoleInv(p)' /\ Orderly(p)
<1>1. /\ Synced(p) /\ held[p] \in Meta /\ meta \in Meta /\ pc[p] = "save" /\ Holds(p)
  BY SoundNow DEF SoleInv, SaveRendered, Holds, Idle
<1>2. /\ meta' = [held[p] EXCEPT !.rendered = held[p].version]
      /\ UNCHANGED <<content, snaps, plans, crashes>> /\ Finish(p, "ok")
  BY DEF SaveRendered
<1>3. /\ meta'.status = meta.status
      /\ meta'.history = meta.history /\ meta'.links = meta.links
  BY <1>1, <1>2 DEF Meta, Synced
<1>4. Continues(meta', meta)
  BY <1>1, <1>3 DEF Meta, Continues, Begins
<1>. QED
  BY <1>1, <1>2, <1>3, <1>4, SoleFinish

LEMMA SolePlans ==
  ASSUME NEW p \in Procs, SoleInv(p), WorkshopInv', MakePlan(p) \/ NameSource(p) \/ Link(p)
  PROVE  SoleInv(p)' /\ Orderly(p)
<1>1. /\ TypeOK /\ Synced(p) /\ ProcSound(p) /\ held[p] \in Meta /\ meta \in Meta
      /\ WorkshopInv /\ Continues(meta, meta)
  BY SoundNow, ContinuesSelf DEF SoleInv, MakePlan, NameSource, Link, Holds, Idle
<1>2. CASE MakePlan(p)
  <2>1. /\ pc[p] = "make" /\ pc' = [pc EXCEPT ![p] = "source"]
        /\ UNCHANGED <<meta, content, crashes, cmd, held>>
    BY <1>2 DEF MakePlan, Goto
  <2>2. pc'[p] = "source"
    BY <1>1, <2>1 DEF TypeOK
  <2>3. Synced(p)' /\ TextsKept(p)' /\ ShapedUnlessWriting(p)' /\ ReadyToMake(p)'
    BY <1>1, <2>1, <2>2
       DEF SoleInv, Synced, TextsKept, ShapedUnlessWriting, ReadyToMake, Holds, Idle, Shaped
  <2>4. Orderly(p)
    BY <1>1, <2>1 DEF Orderly, SoleInv, ReadyToMake
  <2>. QED
    BY <2>3, <2>4 DEF SoleInv
<1>3. CASE NameSource(p)
  <2>1. /\ pc[p] = "source" /\ pc' = [pc EXCEPT ![p] = "link"]
        /\ UNCHANGED <<meta, content, crashes, cmd, held, made>>
    BY <1>3 DEF NameSource, Goto
  <2>2. pc'[p] = "link"
    BY <1>1, <2>1 DEF TypeOK
  <2>3. Synced(p)' /\ TextsKept(p)'
    BY <1>1, <2>1, <2>2 DEF Synced, TextsKept, Holds, Idle
  <2>. QED
    BY <2>1, <2>2, <2>3, SoleMove
<1>4. CASE Link(p)
  <2>1. /\ pc[p] = "link" /\ meta' = Linked(p) /\ UNCHANGED <<content, snaps, plans, crashes>>
    BY <1>4 DEF Link
  <2>2. made[p] \in PlanIds
    BY <1>1, <2>1 DEF ProcSound, PlanHeld
  <2>3. meta' = [held[p] EXCEPT !.links = Append(held[p].links, made[p])]
    BY <2>1 DEF Linked
  <2>4. /\ meta'.links = Append(meta.links, made[p])
        /\ meta'.history = meta.history /\ meta'.status = meta.status
    BY <1>1, <2>1, <2>3 DEF Synced, Holds, Idle, Meta
  <2>5. Continues(meta', meta)
    <3>1. meta.history \in Seq(Entry) /\ meta.links \in Seq(PlanIds)
      BY <1>1 DEF Meta
    <3>2. Begins(meta.links, meta'.links)
      BY <2>2, <2>4, <3>1 DEF Begins
    <3>3. Begins(meta.history, meta'.history)
      BY <2>4, <3>1 DEF Begins
    <3>. QED
      BY <3>2, <3>3 DEF Continues
  <2>6. CASE Finish(p, "ok")
    BY <2>1, <2>4, <2>5, <2>6, SoleFinish
  <2>7. CASE ~Finish(p, "ok")
    <3>1. pc' = [pc EXCEPT ![p] = "mark"] /\ made' = [made EXCEPT ![p] = 0]
      BY <1>4, <2>7 DEF Link, Goto
    <3>2. pc'[p] = "mark" /\ made'[p] = 0
      BY <1>1, <3>1 DEF TypeOK
    <3>3. Synced(p)' /\ TextsKept(p)' /\ ShapedUnlessWriting(p)' /\ ReadyToMake(p)'
      BY <2>1, <2>4, <3>2
         DEF SoleInv, Synced, TextsKept, ShapedUnlessWriting, ReadyToMake, Holds, Shaped
    <3>. QED
      BY <2>4, <2>5, <3>2, <3>3 DEF SoleInv, Orderly
  <2>. QED
    BY <2>6, <2>7
<1>. QED
  BY <1>2, <1>3, <1>4

SingleWriter == \A p, q \in Procs : p = q

SoleStore == \A p \in Procs : SoleInv(p)

LEMMA SoleStep ==
  ASSUME SingleWriter, SoleStore, Next
  PROVE  SoleStore' /\ \E p \in Procs : Procs = {p} /\ Orderly(p)
<1>1. PICK p \in Procs : Begin(p) \/ Step(p) \/ Crash(p)
  BY DEF Next
<1>2. Procs = {p} /\ SoleInv(p)
  BY DEF SingleWriter, SoleStore
<1>3. WorkshopInv'
  BY <1>2, WorkshopInvNext DEF SoleInv
<1>4. SoleInv(p)' /\ Orderly(p)
  BY <1>1, <1>2, <1>3, SoleRefusals, SoleBegins, SoleMemory, SoleWrites, SoleSnapshots,
     SoleSaves, SolePlans
     DEF Begin, Step
<1>. QED
  BY <1>2, <1>4 DEF SoleStore

LEMMA SoleInductive == ASSUME SingleWriter PROVE Spec => []SoleStore
<1>1. Init => SoleStore
  BY SoleInit DEF SoleStore
<1>2. SoleStore /\ [Next]_vars => SoleStore'
  <2>1. SoleStore /\ Next => SoleStore'
    BY SoleStep
  <2>2. ASSUME SoleStore, UNCHANGED vars PROVE SoleStore'
    <3>1. ASSUME NEW p \in Procs PROVE SoleInv(p)'
      <4>1. SoleInv(p) /\ WorkshopInv'
        BY <2>2, WorkshopInvNext DEF SoleStore, SoleInv
      <4>. QED
        BY <2>2, <4>1 DEF vars, SoleInv, Synced, TextsKept, ShapedUnlessWriting, ReadyToMake,
           Holds, NextStatus, Shaped
    <3>. QED
      BY <3>1 DEF SoleStore
  <2>. QED
    BY <2>1, <2>2
<1>. QED
  BY <1>1, <1>2, PTL DEF Spec

\* Where one process is at work, and whatever crashes, no write of workshop.yaml
\* takes a commit or the link to a plan back.
THEOREM SingleWriterKeepsRecord ==
  ASSUME SingleWriter PROVE Spec => RecordKept
<1>1. SoleStore /\ [Next]_vars => [Continues(meta', meta)]_vars
  BY SoleStep DEF Orderly
<1>. QED
  BY <1>1, SoleInductive, PTL DEF Spec, RecordKept

\* A cancelled workshop is never taken up again, not by a forced edit and not by
\* a plan made from it with --allow-unshaped.
THEOREM SingleWriterStaysCancelled ==
  ASSUME SingleWriter PROVE Spec => CancelledStays
<1>1. SoleStore /\ [Next]_vars =>
        [meta.status = "cancelled" => meta'.status = "cancelled"]_vars
  BY SoleStep DEF Orderly
<1>. QED
  BY <1>1, SoleInductive, PTL DEF Spec, CancelledStays

\* A plan not asked for with --allow-unshaped is made from a workshop that is
\* shaped and passes the guardrails, crashes or not (create_plan_from_workshop).
THEOREM SingleWriterPlansReady ==
  ASSUME SingleWriter PROVE Spec => PlanFromReady
<1>1. SoleStore /\ [Next]_vars =>
        [\A p \in Procs : made[p] = 0 /\ made'[p] # 0 /\ ~cmd[p].allow =>
           meta.status = "shaped" /\ Shaped(content)]_vars
  BY SoleStep DEF Orderly
<1>. QED
  BY <1>1, SoleInductive, PTL DEF Spec, PlanFromReady

\* Until a process dies, a workshop that says shaped passes the guardrails,
\* however it was edited (apply_workshop_mutations).
THEOREM SingleWriterShaped ==
  ASSUME SingleWriter PROVE Spec => []ShapedIsShaped
<1>1. SoleStore => ShapedIsShaped
  BY ProcsAssumption
     DEF SoleStore, SoleInv, ShapedUnlessWriting, ShapedIsShaped, Quiescent, Idle
<1>. QED
  BY <1>1, SoleInductive, PTL

-----------------------------------------------------------------------------
(* One process: the links *)

LEMMA UnlinkedFinite == IsFiniteSet(Unlinked)
<1>1. IsFiniteSet(PlanIds)
  BY FS_Interval, BoundsAssumption DEF PlanIds
<1>. QED
  BY <1>1, FS_Subset DEF Unlinked

\* All other steps leave alone which plans there are and which are linked.
LEMMA LinksAlone ==
  ASSUME NEW p \in Procs, SoleInv(p), Begin(p) \/ Step(p),
         ~(MakePlan(p) \/ NameSource(p) \/ Link(p))
  PROVE  /\ meta'.links = meta.links /\ plans' = plans /\ crashes' = crashes
         /\ pc[p] \notin {"source", "link"} /\ pc'[p] \notin {"source", "link"}
<1>0. TypeOK /\ Synced(p) /\ ProcSound(p) /\ meta \in Meta
  BY DEF SoleInv, WorkshopInv, TypeOK
<1>1. CASE WriteMetadata(p)
  <2>1. /\ held[p] \in Meta /\ WellFormed(held[p]) /\ pc[p] = "write" /\ Holds(p)
        /\ meta' = Bump(held[p], NextStatus(p), p) /\ pc' = [pc EXCEPT ![p] = "snapshot"]
        /\ plans' = plans /\ crashes' = crashes
    BY <1>0, <1>1 DEF WriteMetadata, Goto, ProcSound, HeldSound, Holds, Idle
  <2>2. NextStatus(p) \in Statuses /\ TransitionAllowed(p) /\ held[p].version < MaxVersion
    BY <1>0, <2>1, NextTypes DEF ProcSound, MutationHeld
  <2>3. meta'.links = held[p].links
    BY <2>1, <2>2, BumpSound DEF TransitionAllowed
  <2>. QED
    BY <1>0, <2>1, <2>3 DEF TypeOK, Synced
<1>2. CASE SaveRendered(p)
  <2>1. /\ held[p] \in Meta /\ pc[p] = "save" /\ Holds(p) /\ pc' = [pc EXCEPT ![p] = Idle]
        /\ meta' = [held[p] EXCEPT !.rendered = held[p].version]
        /\ plans' = plans /\ crashes' = crashes
    BY <1>0, <1>2 DEF SaveRendered, Finish, ProcSound, HeldSound, Holds, Idle
  <2>. QED
    BY <1>0, <2>1 DEF TypeOK, Meta, Synced, Idle
<1>3. CASE /\ UNCHANGED <<meta, plans, crashes>> /\ pc[p] \notin {"source", "link"}
           /\ \E label \in {Idle, "read", "decide", "write", "copy_meta", "copy_tree", "manifest",
                            "load", "render", "save", "consider", "make"} :
                pc' = [pc EXCEPT ![p] = label]
  BY <1>0, <1>3 DEF TypeOK, Idle
<1>4. CASE Begin(p) \/ RefuseCancelled(p) \/ BeginMutation(p)
  BY <1>3, <1>4 DEF Begin, BeginBuild, BeginPlan, RefuseCancelled, BeginMutation,
                    Finish, Goto, disk, Idle
<1>5. CASE ReadTexts(p) \/ RefuseTransition(p) \/ RefuseShaped(p) \/ SkipMutation(p)
  BY <1>3, <1>5 DEF ReadTexts, RefuseTransition, RefuseShaped, SkipMutation, AfterMutation,
                    Finish, Goto, disk, Idle
<1>6. CASE AcceptMutation(p) \/ ResetSnapshot(p) \/ CopyMetadata(p)
  BY <1>3, <1>6 DEF AcceptMutation, ResetSnapshot, CopyMetadata, Goto, disk, Idle
<1>7. CASE CopyTree(p) \/ WriteManifest(p) \/ LoadForBuild(p)
  BY <1>3, <1>7 DEF CopyTree, WriteManifest, AfterMutation, LoadForBuild, Finish, Goto, disk, Idle
<1>8. CASE RefuseBuild(p) \/ Render(p) \/ RefuseUnshaped(p) \/ RefuseInvalid(p) \/ AcceptPlan(p)
  BY <1>3, <1>8 DEF RefuseBuild, Render, RefuseUnshaped, RefuseInvalid, AcceptPlan,
                    Finish, Goto, disk, Idle
<1>9. CASE WriteComponent(p)
  <2>1. UNCHANGED <<meta, plans, crashes, pc>> /\ pc[p] = "write"
    BY <1>9 DEF WriteComponent
  <2>. QED
    BY <2>1
<1>. QED
  BY <1>1, <1>2, <1>4, <1>5, <1>6, <1>7, <1>8, <1>9 DEF Step

LEMMA LinkInvStep ==
  ASSUME NEW p \in Procs, SoleInv(p), LinkInv(p), Begin(p) \/ Step(p) \/ Crash(p)
  PROVE  LinkInv(p)'
<1>0. /\ TypeOK /\ Synced(p) /\ ProcSound(p) /\ meta \in Meta /\ meta.links \in Seq(PlanIds)
      /\ crashes \in Nat /\ IsFiniteSet(Unlinked) /\ Resolved(meta)
  BY UnlinkedFinite, SoundNow DEF SoleInv, WorkshopInv, TypeOK, Meta
<1>1. Cardinality(Unlinked \ UnderWay(p)) \in Nat /\ IsFiniteSet(Unlinked \ UnderWay(p))
  BY <1>0, FS_Subset, FS_CardinalityType
<1>2. CASE Crash(p)
  <2>1. /\ crashes' = crashes + 1 /\ pc'[p] = Idle /\ meta' = meta /\ plans' = plans
    BY <1>0, <1>2 DEF Crash, Finish, disk, TypeOK
  <2>2. Unlinked' = Unlinked /\ UnderWay(p)' = {}
    BY <2>1 DEF Unlinked, UnderWay, Idle
  <2>3. Cardinality(Unlinked) <= Cardinality(Unlinked \ UnderWay(p)) + 1
    <3>1. CASE UnderWay(p) = {}
      <4>1. Unlinked \ UnderWay(p) = Unlinked
        BY <3>1
      <4>. QED
        BY <1>1, <4>1
    <3>2. CASE UnderWay(p) = {made[p]}
      <4>1. Cardinality(Unlinked \ {made[p]}) =
              IF made[p] \in Unlinked THEN Cardinality(Unlinked) - 1 ELSE Cardinality(Unlinked)
        BY <1>0, FS_RemoveElement
      <4>2. Cardinality(Unlinked) \in Nat
        BY <1>0, FS_CardinalityType
      <4>. QED
        BY <3>2, <4>1, <4>2
    <3>. QED
      BY <3>1, <3>2 DEF UnderWay
  <2>4. Cardinality(Unlinked) \in Nat
    BY <1>0, FS_CardinalityType
  <2>5. Cardinality(Unlinked) <= crashes + 1
    BY <1>0, <1>1, <2>3, <2>4 DEF LinkInv
  <2>6. Unlinked' \ UnderWay(p)' = Unlinked
    BY <2>2
  <2>7. Cardinality(Unlinked' \ UnderWay(p)') <= crashes'
    BY <2>1, <2>5, <2>6
  <2>. QED
    BY <2>1, <2>7 DEF LinkInv, Idle
<1>3. CASE MakePlan(p)
  <2>1. PICK n \in PlanIds :
          /\ plans[n] = "none"
          /\ plans' = [plans EXCEPT ![n] = "made"] /\ made' = [made EXCEPT ![p] = n]
    BY <1>3 DEF MakePlan
  <2>2. /\ pc[p] = "make" /\ pc'[p] = "source" /\ made'[p] = n
        /\ meta' = meta /\ crashes' = crashes
    BY <1>0, <1>3, <2>1 DEF MakePlan, Goto, TypeOK
  <2>3. n \notin Unlinked /\ n \notin Range(meta.links)
    BY <1>0, <2>1 DEF Unlinked, Resolved
  <2>4. Unlinked' = Unlinked \cup {n}
    BY <1>0, <2>1, <2>2, <2>3 DEF Unlinked, TypeOK
  <2>5. UnderWay(p) = {} /\ UnderWay(p)' = {n}
    BY <2>2 DEF UnderWay
  <2>6. Unlinked' \ UnderWay(p)' = Unlinked \ UnderWay(p)
    BY <2>3, <2>4, <2>5
  <2>. QED
    BY <2>2, <2>4, <2>6 DEF LinkInv
<1>4. CASE NameSource(p)
  <2>1. /\ pc[p] = "source" /\ plans' = [plans EXCEPT ![made[p]] = "sourced"]
        /\ pc'[p] = "link" /\ meta' = meta /\ made' = made /\ crashes' = crashes
    BY <1>0, <1>4 DEF NameSource, Goto, TypeOK
  <2>2. made[p] \in PlanIds /\ plans[made[p]] # "none"
    BY <1>0, <2>1 DEF ProcSound, PlanHeld
  <2>3. Unlinked' = Unlinked
    BY <1>0, <2>1, <2>2 DEF Unlinked, TypeOK
  <2>4. UnderWay(p)' = UnderWay(p)
    BY <2>1 DEF UnderWay
  <2>. QED
    BY <2>1, <2>3, <2>4 DEF LinkInv
<1>5. CASE Link(p)
  <2>1. /\ pc[p] = "link" /\ meta' = Linked(p) /\ plans' = plans /\ crashes' = crashes
        /\ pc'[p] \notin {"source", "link"}
    BY <1>0, <1>5 DEF Link, Finish, Goto, TypeOK, Idle
  <2>2. made[p] \in Unlinked /\ made[p] \in PlanIds
    BY <2>1 DEF LinkInv, Unlinked
  <2>3. held[p] \in Meta /\ held[p].links = meta.links
    BY <1>0, <2>1 DEF ProcSound, HeldSound, Synced, Holds, Idle
  <2>4. meta'.links = Append(meta.links, made[p])
    BY <2>1, <2>3 DEF Linked, Meta
  <2>5. Range(meta'.links) = Range(meta.links) \cup {made[p]}
    BY <1>0, <2>2, <2>4 DEF Range
  <2>6. Unlinked' = Unlinked \ {made[p]}
    BY <2>1, <2>5 DEF Unlinked
  <2>7. Unlinked' \ UnderWay(p)' = Unlinked \ UnderWay(p)
    BY <2>1, <2>6 DEF UnderWay
  <2>8. \A i, j \in DOMAIN meta'.links : meta'.links[i] = meta'.links[j] => i = j
    <3>1. \A i \in DOMAIN meta.links : meta.links[i] # made[p]
      BY <2>2 DEF Unlinked, Range
    <3>2. \A i, j \in DOMAIN meta.links : meta.links[i] = meta.links[j] => i = j
      BY DEF LinkInv
    <3>3. Len(meta.links) \in Nat /\ DOMAIN meta.links = 1 .. Len(meta.links)
      BY <1>0
    <3>4. DOMAIN meta'.links = 1 .. Len(meta.links) + 1
      BY <1>0, <2>2, <2>4
    <3>5. \A i \in DOMAIN meta'.links :
            IF i = Len(meta.links) + 1 THEN meta'.links[i] = made[p]
            ELSE i \in DOMAIN meta.links /\ meta'.links[i] = meta.links[i]
      BY <1>0, <2>2, <2>4, <3>3, <3>4
    <3>. QED
      BY <3>1, <3>2, <3>5
  <2>. QED
    BY <2>1, <2>7, <2>8 DEF LinkInv
<1>6. CASE (Begin(p) \/ Step(p)) /\ ~(MakePlan(p) \/ NameSource(p) \/ Link(p))
  <2>1. /\ meta'.links = meta.links /\ plans' = plans /\ crashes' = crashes
        /\ pc[p] \notin {"source", "link"} /\ pc'[p] \notin {"source", "link"}
    BY <1>6, LinksAlone
  <2>2. Unlinked' = Unlinked /\ UnderWay(p)' = UnderWay(p)
    BY <2>1 DEF Unlinked, UnderWay
  <2>. QED
    BY <2>1, <2>2 DEF LinkInv
<1>. QED
  BY <1>2, <1>3, <1>4, <1>5, <1>6

LinkStore == \A p \in Procs : LinkInv(p)

LEMMA LinkInductive == ASSUME SingleWriter PROVE Spec => []LinkStore
<1>1. Init => LinkStore
  <2> SUFFICES ASSUME Init, NEW p \in Procs PROVE LinkInv(p)
    BY DEF LinkStore
  <2>1. meta.links = <<>>
    <3>1. \E s, k, r : meta = FirstMeta(s, k, r)
      BY DEF Init
    <3>. QED
      BY <3>1 DEF FirstMeta
  <2>2. /\ plans = [n \in PlanIds |-> "none"] /\ pc[p] = Idle /\ crashes = 0
    BY DEF Init
  <2>3. Unlinked = {}
    BY <2>2 DEF Unlinked
  <2>. QED
    BY <2>1, <2>2, <2>3, FS_EmptySet DEF LinkInv, Idle
<1>2. SoleStore /\ LinkStore /\ [Next]_vars => LinkStore'
  <2>1. ASSUME SoleStore, LinkStore, Next PROVE LinkStore'
    <3>1. PICK p \in Procs : Begin(p) \/ Step(p) \/ Crash(p)
      BY <2>1 DEF Next
    <3>2. SoleInv(p) /\ LinkInv(p) /\ Procs = {p}
      BY <2>1 DEF SoleStore, LinkStore, SingleWriter
    <3>3. LinkInv(p)'
      BY <3>1, <3>2, LinkInvStep
    <3>. QED
      BY <3>2, <3>3 DEF LinkStore
  <2>2. LinkStore /\ UNCHANGED vars => LinkStore'
    BY DEF vars, LinkStore, LinkInv, Unlinked, UnderWay
  <2>. QED
    BY <2>1, <2>2
<1>. QED
  BY <1>1, <1>2, SoleInductive, PTL DEF Spec

\* A plan made from the workshop is linked by it, once: with any number of plans
\* made, each crash in the middle of create_plan_from_workshop costs one plan its
\* link and nothing else does.
THEOREM SingleWriterLinks ==
  ASSUME SingleWriter PROVE Spec => []OrphansPerCrash
<1>1. LinkStore => OrphansPerCrash
  <2> SUFFICES ASSUME LinkStore PROVE OrphansPerCrash
    OBVIOUS
  <2>1. PICK p \in Procs : TRUE
    BY ProcsAssumption
  <2>2. Quiescent => Unlinked \ UnderWay(p) = Unlinked
    BY DEF Quiescent, UnderWay, Idle
  <2>. QED
    BY <2>2 DEF LinkStore, LinkInv, OrphansPerCrash
<1>. QED
  BY <1>1, LinkInductive, PTL

-----------------------------------------------------------------------------
(* One process: the snapshots *)

Snapshotting == {"snapshot", "copy_meta", "copy_tree", "manifest"}

\* A finished snapshot is of a version that was committed, and what is in it was
\* workshop.yaml then: workshop.yaml has only been extended since.
SnapFits(v) ==
  Complete(snaps[v]) =>
    /\ v <= meta.version
    /\ snaps[v].meta \in Meta /\ snaps[v].meta.version = v
    /\ snaps[v].manifest.sha = snaps[v].meta.sha
    /\ Continues(meta, snaps[v].meta)

Chain ==
  \A v \in Versions : \A w \in 1 .. v :
    Complete(snaps[v]) /\ Complete(snaps[w]) => Continues(snaps[v].meta, snaps[w].meta)

\* Who makes a snapshot makes it of the file as it is, and finishes it last.
SnapUnderWay(p) ==
  /\ pc[p] \in Snapshotting => held[p] = meta
  /\ pc[p] \in Snapshotting \ {"snapshot"} => ~Complete(snaps[meta.version])
  /\ pc[p] \in {"copy_tree", "manifest"} => snaps[meta.version].meta = meta

SnapsFit == \A v \in Versions : SnapFits(v)

NestInv(p) == SnapsFit /\ Chain /\ SnapUnderWay(p)

LEMMA ContinuesTrans ==
  ASSUME NEW a \in Meta, NEW b \in Meta, NEW c \in Meta, Continues(a, b), Continues(b, c)
  PROVE  Continues(a, c)
<1>1. ASSUME NEW S, NEW s \in Seq(S), NEW t \in Seq(S), NEW u \in Seq(S),
             Begins(s, t), Begins(t, u)
      PROVE  Begins(s, u)
  BY <1>1 DEF Begins
<1>2. /\ a.history \in Seq(Entry) /\ b.history \in Seq(Entry) /\ c.history \in Seq(Entry)
      /\ a.links \in Seq(PlanIds) /\ b.links \in Seq(PlanIds) /\ c.links \in Seq(PlanIds)
  BY DEF Meta
<1>. QED
  BY <1>1, <1>2 DEF Continues

LEMMA NestInit == ASSUME NEW p \in Procs PROVE Init => NestInv(p)
<1> SUFFICES ASSUME Init PROVE NestInv(p)
  OBVIOUS
<1>1. PICK s \in Statuses, k \in [Components -> Inputs \cup {Empty}] :
        /\ meta = FirstMeta(s, k, 1)
        /\ snaps = [v \in Versions |-> IF v = 1 THEN FullSnap(FirstMeta(s, k, 0), k) ELSE NoSnap]
  BY DEF Init
<1>2. k \in Contents /\ 1 \in Versions
  BY TextTypes, InputsAssumption, BoundsAssumption DEF Contents, Versions
<1> DEFINE f == FirstMeta(s, k, 0)
<1>3. /\ f \in Meta /\ f.version = 1 /\ meta \in Meta /\ meta.version = 1
      /\ meta.history = f.history /\ meta.links = f.links
  BY <1>1, <1>2, NewMetaSound DEF FirstMeta
<1>4. snaps[1].meta = f /\ snaps[1].manifest.sha = f.sha
  BY <1>1, <1>2 DEF FullSnap
<1>5. \A v \in Versions : v # 1 => ~Complete(snaps[v])
  BY <1>1 DEF Complete, NoSnap
<1> HIDE DEF f
<1>6. Continues(f, f) /\ Continues(meta, f)
  BY <1>3, ContinuesSelf DEF Continues
<1>7. SnapsFit
  BY <1>3, <1>4, <1>5, <1>6 DEF SnapsFit, SnapFits
<1>8. Chain
  BY <1>4, <1>5, <1>6 DEF Chain, Versions
<1>9. SnapUnderWay(p)
  BY DEF Init, SnapUnderWay, Snapshotting, Idle
<1>. QED
  BY <1>7, <1>8, <1>9 DEF NestInv

\* The snapshots stay as they are while workshop.yaml is extended.
LEMMA NestKept ==
  ASSUME NEW p \in Procs, SoleInv(p), NestInv(p), SoleInv(p)', Orderly(p),
         snaps' = snaps, SnapUnderWay(p)'
  PROVE  NestInv(p)'
<1>1. /\ meta \in Meta /\ meta' \in Meta /\ WellFormed(meta) /\ WellFormed(meta')
      /\ Continues(meta', meta)
  BY DEF SoleInv, WorkshopInv, TypeOK, HistoryWellFormed, WellFormed, Orderly
<1>2. meta.version <= meta'.version /\ meta.version \in Int /\ meta'.version \in Int
  BY <1>1 DEF Continues, Begins, WellFormed, Meta, Versions
<1>3. ASSUME NEW v \in Versions PROVE SnapFits(v)'
  <2> SUFFICES ASSUME Complete(snaps[v])
               PROVE  /\ v <= meta'.version
                      /\ snaps[v].meta \in Meta /\ snaps[v].meta.version = v
                      /\ snaps[v].manifest.sha = snaps[v].meta.sha
                      /\ Continues(meta', snaps[v].meta)
    BY DEF SnapFits, Complete
  <2>1. SnapFits(v)
    BY DEF NestInv, SnapsFit
  <2>2. /\ v <= meta.version /\ snaps[v].meta \in Meta /\ snaps[v].meta.version = v
        /\ snaps[v].manifest.sha = snaps[v].meta.sha /\ Continues(meta, snaps[v].meta)
    BY <2>1 DEF SnapFits
  <2>3. Continues(meta', snaps[v].meta)
    BY <1>1, <2>2, ContinuesTrans
  <2>. QED
    BY <1>2, <2>2, <2>3 DEF Versions
<1>4. Chain'
  BY DEF NestInv, Chain, Complete
<1>. QED
  BY <1>3, <1>4 DEF NestInv, SnapsFit

\* The snapshot of the current version is written to, and finished only as a copy
\* of workshop.yaml.
LEMMA NestWritten ==
  ASSUME NEW p \in Procs, SoleInv(p), NestInv(p), meta' = meta, SnapUnderWay(p)',
         \A v \in Versions : v # meta.version => snaps'[v] = snaps[v],
         Complete(snaps'[meta.version]) =>
           /\ snaps'[meta.version].meta = meta
           /\ snaps'[meta.version].manifest.sha = meta.sha
  PROVE  NestInv(p)'
<1> DEFINE n == meta.version
<1>1. meta \in Meta /\ n \in Versions /\ Continues(meta, meta)
  BY ContinuesSelf DEF SoleInv, WorkshopInv, TypeOK, Meta
<1> HIDE DEF n
<1>2. ASSUME NEW v \in Versions, Complete(snaps'[v])
      PROVE  /\ v <= meta.version
             /\ snaps'[v].meta \in Meta /\ snaps'[v].meta.version = v
             /\ snaps'[v].manifest.sha = snaps'[v].meta.sha
             /\ Continues(meta, snaps'[v].meta)
  <2>1. CASE v = n
    BY <1>1, <1>2, <2>1 DEF n, Versions
  <2>2. CASE v # n
    <3>1. snaps'[v] = snaps[v] /\ SnapFits(v)
      BY <2>2 DEF n, NestInv, SnapsFit
    <3>. QED
      BY <1>2, <3>1 DEF SnapFits
  <2>. QED
    BY <2>1, <2>2
<1>3. SnapsFit'
  BY <1>2 DEF SnapsFit, SnapFits
<1>4. ASSUME NEW v \in Versions, NEW w \in 1 .. v, Complete(snaps'[v]), Complete(snaps'[w])
      PROVE  Continues(snaps'[v].meta, snaps'[w].meta)
  <2>1. w \in Versions
    BY BoundsAssumption DEF Versions
  <2>2. CASE v = n
    BY <1>2, <1>4, <2>1, <2>2 DEF n
  <2>3. CASE v # n
    <3>1. v <= n
      BY <1>2, <1>4 DEF n
    <3>2. w # n
      BY <1>1, <2>3, <3>1 DEF Versions
    <3>3. snaps'[v] = snaps[v] /\ snaps'[w] = snaps[w]
      BY <2>1, <2>3, <3>2 DEF n
    <3>. QED
      BY <1>4, <3>3 DEF NestInv, Chain
  <2>. QED
    BY <2>2, <2>3
<1>5. Chain'
  BY <1>4 DEF Chain
<1>. QED
  BY <1>3, <1>5 DEF NestInv

LEMMA NestSnapshots ==
  ASSUME NEW p \in Procs, SoleInv(p), NestInv(p),
         ResetSnapshot(p) \/ CopyMetadata(p) \/ CopyTree(p) \/ WriteManifest(p)
  PROVE  NestInv(p)'
<1> DEFINE n == meta.version
<1>1. /\ TypeOK /\ meta \in Meta /\ n \in Versions /\ SnapUnderWay(p)
      /\ snaps \in [Versions -> Snapshot] /\ meta' = meta
  BY DEF SoleInv, WorkshopInv, TypeOK, Meta, NestInv,
         ResetSnapshot, CopyMetadata, CopyTree, WriteManifest
<1>2. held[p] = meta /\ snaps[n] \in Snapshot
  BY <1>1 DEF SnapUnderWay, Snapshotting, ResetSnapshot, CopyMetadata, CopyTree, WriteManifest
<1> HIDE DEF n
<1>3. CASE ResetSnapshot(p)
  <2>1. /\ snaps' = [snaps EXCEPT ![n] = NoSnap] /\ pc' = [pc EXCEPT ![p] = "copy_meta"]
        /\ held' = held
    BY <1>2, <1>3 DEF ResetSnapshot, Goto, n
  <2>2. /\ pc'[p] = "copy_meta" /\ ~Complete(snaps'[n])
        /\ \A v \in Versions : v # n => snaps'[v] = snaps[v]
    BY <1>1, <2>1 DEF TypeOK, Complete, NoSnap
  <2>3. SnapUnderWay(p)'
    BY <1>1, <1>2, <2>1, <2>2 DEF SnapUnderWay, Complete, n
  <2>. QED
    BY <1>1, <2>2, <2>3, NestWritten DEF n
<1>4. CASE CopyMetadata(p)
  <2>1. /\ snaps' = [snaps EXCEPT ![n].meta = meta] /\ pc' = [pc EXCEPT ![p] = "copy_tree"]
        /\ held' = held /\ pc[p] = "copy_meta"
    BY <1>2, <1>4 DEF CopyMetadata, Goto, n
  <2>2. /\ pc'[p] = "copy_tree"
        /\ snaps'[n].manifest = snaps[n].manifest /\ snaps'[n].meta = meta
        /\ \A v \in Versions : v # n => snaps'[v] = snaps[v]
    BY <1>1, <1>2, <2>1 DEF TypeOK, Snapshot
  <2>3. ~Complete(snaps'[n])
    BY <1>1, <2>1, <2>2 DEF SnapUnderWay, Snapshotting, Complete, n
  <2>4. SnapUnderWay(p)'
    BY <1>1, <1>2, <2>1, <2>2, <2>3 DEF SnapUnderWay, Complete, n
  <2>. QED
    BY <1>1, <2>2, <2>3, <2>4, NestWritten DEF n
<1>5. CASE CopyTree(p)
  <2>1. pc[p] = "copy_tree"
    BY <1>5 DEF CopyTree
  <2>2. ~Complete(snaps[n]) /\ snaps[n].meta = meta
    BY <1>1, <2>1 DEF SnapUnderWay, Snapshotting, n
  <2>3. CASE snaps[n].files = Nil
    <3>1. /\ snaps' = [snaps EXCEPT ![n].files = content] /\ pc' = [pc EXCEPT ![p] = "manifest"]
          /\ held' = held
      BY <1>2, <1>5, <2>3 DEF CopyTree, Goto, n
    <3>2. /\ pc'[p] = "manifest"
          /\ snaps'[n].manifest = snaps[n].manifest /\ snaps'[n].meta = snaps[n].meta
          /\ \A v \in Versions : v # n => snaps'[v] = snaps[v]
      BY <1>1, <1>2, <3>1 DEF TypeOK, Snapshot
    <3>3. ~Complete(snaps'[n]) /\ SnapUnderWay(p)'
      BY <1>1, <1>2, <2>2, <3>1, <3>2 DEF SnapUnderWay, Complete, n
    <3>. QED
      BY <1>1, <3>2, <3>3, NestWritten DEF n
  <2>4. CASE snaps[n].files # Nil
    <3>1. snaps' = snaps /\ Finish(p, "os_error")
      BY <1>2, <1>5, <2>4 DEF CopyTree, n
    <3>2. SnapUnderWay(p)'
      BY <1>1, <3>1 DEF Finish, TypeOK, SnapUnderWay, Snapshotting, Idle
    <3>. QED
      BY <1>1, <2>2, <3>1, <3>2, NestWritten DEF n
  <2>. QED
    BY <2>3, <2>4
<1>6. CASE WriteManifest(p)
  <2> DEFINE m == [version |-> meta.version, status |-> meta.status, sha |-> meta.sha]
  <2>1. /\ pc[p] = "manifest" /\ snaps' = [snaps EXCEPT ![n].manifest = m] /\ AfterMutation(p)
    BY <1>2, <1>6 DEF WriteManifest, n
  <2>2. snaps[n].meta = meta
    BY <1>1, <2>1 DEF SnapUnderWay, n
  <2>3. m.sha = meta.sha
    OBVIOUS
  <2> HIDE DEF m
  <2>4. /\ snaps'[n].manifest = m /\ snaps'[n].meta = snaps[n].meta
        /\ \A v \in Versions : v # n => snaps'[v] = snaps[v]
    BY <1>1, <1>2, <2>1 DEF Snapshot
  <2>5. SnapUnderWay(p)'
    BY <1>1, <2>1 DEF AfterMutation, Goto, Finish, TypeOK, SnapUnderWay, Snapshotting, Idle
  <2>. QED
    BY <1>1, <2>2, <2>3, <2>4, <2>5, NestWritten DEF n
<1>. QED
  BY <1>3, <1>4, <1>5, <1>6

\* No other step touches a snapshot, and only the commit leads to one.
LEMMA NestOthers ==
  ASSUME NEW p \in Procs, SoleInv(p), Begin(p) \/ Step(p) \/ Crash(p),
         ~(ResetSnapshot(p) \/ CopyMetadata(p) \/ CopyTree(p) \/ WriteManifest(p))
  PROVE  snaps' = snaps /\ SnapUnderWay(p)'
<1>0. TypeOK
  BY DEF SoleInv, WorkshopInv
<1>1. SUFFICES snaps' = snaps
               /\ (pc'[p] \notin Snapshotting \/ (pc'[p] = "snapshot" /\ held'[p] = meta'))
  BY DEF SnapUnderWay, Snapshotting
<1>2. CASE Begin(p) \/ BeginMutation(p) \/ LoadForBuild(p)
  BY <1>0, <1>2 DEF TypeOK, Begin, BeginBuild, BeginPlan, BeginMutation, LoadForBuild,
                    Goto, disk, Snapshotting
<1>3. CASE \/ RefuseCancelled(p) \/ RefuseTransition(p) \/ RefuseShaped(p)
           \/ RefuseBuild(p) \/ RefuseUnshaped(p) \/ RefuseInvalid(p) \/ Crash(p) \/ SaveRendered(p)
  BY <1>0, <1>3 DEF TypeOK, RefuseCancelled, RefuseTransition, RefuseShaped, RefuseBuild,
     RefuseUnshaped, RefuseInvalid, Crash, SaveRendered, Finish, disk, Idle, Snapshotting
<1>4. CASE ReadTexts(p) \/ AcceptMutation(p) \/ SkipMutation(p) \/ Render(p) \/ AcceptPlan(p)
  BY <1>0, <1>4 DEF TypeOK, ReadTexts, AcceptMutation, SkipMutation, Render, AcceptPlan,
     AfterMutation, Finish, Goto, disk, Idle, Snapshotting
<1>5. CASE WriteComponent(p)
  BY <1>0, <1>5 DEF TypeOK, WriteComponent, Snapshotting
<1>6. CASE WriteMetadata(p)
  BY <1>0, <1>6 DEF TypeOK, WriteMetadata, Goto, Snapshotting
<1>7. CASE MakePlan(p) \/ NameSource(p) \/ Link(p)
  BY <1>0, <1>7 DEF TypeOK, MakePlan, NameSource, Link, Goto, Finish, Idle, Snapshotting
<1>. QED
  BY <1>2, <1>3, <1>4, <1>5, <1>6, <1>7 DEF Step

NestStore == \A p \in Procs : SoleInv(p) /\ NestInv(p)

LEMMA NestInductive == ASSUME SingleWriter PROVE Spec => []NestStore
<1>1. Init => NestStore
  BY SoleInit, NestInit DEF NestStore
<1>2. NestStore /\ Next => NestStore'
  <2> SUFFICES ASSUME NestStore, Next PROVE NestStore'
    OBVIOUS
  <2>1. SoleStore
    BY DEF NestStore, SoleStore
  <2>2. SoleStore'
    BY <2>1, SoleStep
  <2>3. PICK p \in Procs : Procs = {p} /\ Orderly(p)
    BY <2>1, SoleStep
  <2>4. /\ Begin(p) \/ Step(p) \/ Crash(p)
        /\ SoleInv(p) /\ NestInv(p) /\ SoleInv(p)'
    BY <2>2, <2>3 DEF Next, NestStore, SoleStore
  <2>5. NestInv(p)'
    <3>1. CASE ResetSnapshot(p) \/ CopyMetadata(p) \/ CopyTree(p) \/ WriteManifest(p)
      BY <2>4, <3>1, NestSnapshots
    <3>2. CASE ~(ResetSnapshot(p) \/ CopyMetadata(p) \/ CopyTree(p) \/ WriteManifest(p))
      <4>1. snaps' = snaps /\ SnapUnderWay(p)'
        BY <2>4, <3>2, NestOthers
      <4>. QED
        BY <2>3, <2>4, <4>1, NestKept
    <3>. QED
      BY <3>1, <3>2
  <2>. QED
    BY <2>3, <2>4, <2>5 DEF NestStore
<1>3. NestStore /\ UNCHANGED vars => NestStore'
  <2> SUFFICES ASSUME NestStore, UNCHANGED vars PROVE NestStore'
    OBVIOUS
  <2>1. ASSUME NEW p \in Procs PROVE SoleInv(p)' /\ NestInv(p)'
    <3>1. SoleInv(p) /\ NestInv(p)
      BY DEF NestStore
    <3>2. WorkshopInv'
      BY <3>1, WorkshopInvNext DEF SoleInv
    <3>3. SoleInv(p)'
      BY <3>1, <3>2 DEF vars, SoleInv, Synced, TextsKept, ShapedUnlessWriting, ReadyToMake,
         Holds, NextStatus, Shaped
    <3>4. NestInv(p)'
      BY <3>1 DEF vars, NestInv, SnapsFit, SnapFits, Chain, SnapUnderWay, Complete
    <3>. QED
      BY <3>3, <3>4
  <2>. QED
    BY <2>1 DEF NestStore
<1>. QED
  BY <1>1, <1>2, <1>3, PTL DEF Spec

\* Where one process is at work, and whatever crashes: each finished snapshot is
\* of its own version, agrees with its manifest, and holds a workshop.yaml that
\* continues those in the snapshots before it (snapshot_workshop_version).
THEOREM SingleWriterSnapshotsNested ==
  ASSUME SingleWriter PROVE Spec => []SnapshotsNested
<1>1. NestStore => SnapshotsNested
  <2> SUFFICES ASSUME NestStore PROVE SnapshotsNested
    OBVIOUS
  <2>1. PICK p \in Procs : NestInv(p)
    BY ProcsAssumption DEF NestStore
  <2>. QED
    BY <2>1 DEF NestInv, SnapsFit, SnapFits, Chain, SnapshotsNested
<1>. QED
  BY <1>1, NestInductive, PTL

=============================================================================
