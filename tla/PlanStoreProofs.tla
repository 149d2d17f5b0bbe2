---------------------------- MODULE PlanStoreProofs ----------------------------
(***************************************************************************)
(* What holds of PlanStore for any number of processes, components, texts  *)
(* and crashes.                                                            *)
(***************************************************************************)
EXTENDS PlanStore, TLAPS

-----------------------------------------------------------------------------
(* Operators *)

\* A user's command changes components there are, to texts, and asks for a
\* status there is or for none.
LEMMA CommandType ==
  ASSUME NEW c \in Commands \ {Build}
  PROVE  /\ DOMAIN c.updates \subseteq Components
         /\ \A k \in DOMAIN c.updates : c.updates[k] \in Texts
         /\ c.append \in BOOLEAN
         /\ c.status \in Statuses \cup {Nil}
<1>0. Empty \in Texts /\ Inputs \cup {Empty} \subseteq Texts
  <2>1. Empty \in Seq(Lines)
    BY DEF Empty
  <2>. QED
    BY <2>1, InputsAssumption DEF Texts
<1>1. c \in SetCommands \cup StatusCommands \cup BundleCommands
  BY CommandsAssumption DEF AllCommands
<1>2. CASE c \in SetCommands
  <2>1. PICK key \in Components, text \in Inputs \cup {Empty},
             append \in BOOLEAN, force \in BOOLEAN : c = Edit(key, text, append, force)
    BY <1>2 DEF SetCommands
  <2>. QED
    BY <1>0, <2>1 DEF Edit, Mutate
<1>3. CASE c \in StatusCommands
  <2>1. PICK s \in Statuses : c = ChangeStatus(s)
    BY <1>3 DEF StatusCommands
  <2>. QED
    BY <2>1 DEF ChangeStatus, Mutate
<1>4. CASE c \in BundleCommands
  <2>1. PICK u \in Updates, s \in Statuses \cup {Nil}, force \in BOOLEAN :
          c = Bundle(u, s, force)
    BY <1>4 DEF BundleCommands
  <2>2. PICK K \in (SUBSET Components) \ {{}} : u \in [K -> Inputs \cup {Empty}]
    BY DEF Updates
  <2>. QED
    BY <1>0, <2>1, <2>2 DEF Bundle, Mutate
<1>. QED
  BY <1>1, <1>2, <1>3, <1>4

LEMMA AppendTextType ==
  ASSUME NEW a \in Texts, NEW b \in Texts
  PROVE  AppendText(a, b) \in Texts
BY DEF AppendText, Texts

\* One version more, by a status that may follow, keeps a Plan object typed
\* and its history well formed.
LEMMA BumpWellFormed ==
  ASSUME NEW m \in Meta, WellFormed(m), m.version < MaxVersion,
         NEW s \in Statuses, AllowedStep(m.status, s), NEW p \in Procs
  PROVE  Bump(m, s, p) \in Meta /\ WellFormed(Bump(m, s, p))
<1> DEFINE e == [version |-> m.version + 1, status |-> s, by |-> p]
<1> DEFINE b == Bump(m, s, p)
<1>1. /\ m.version \in Versions /\ m.history \in Seq(Entry) /\ m.status \in Statuses
      /\ m.sha \in Contents /\ m.rendered \in Versions \cup {0}
  BY DEF Meta
<1>2. m.version + 1 \in Versions
  BY <1>1, BoundsAssumption DEF Versions
<1>3. e \in Entry
  BY <1>2 DEF Entry
<1>4. Append(m.history, e) \in Seq(Entry)
  BY <1>1, <1>3
<1>5. b = [m EXCEPT !.status = s, !.version = m.version + 1, !.history = Append(m.history, e)]
  BY DEF Bump
<1>6. b.version = m.version + 1 /\ b.status = s /\ b.history = Append(m.history, e)
  BY <1>5 DEF Meta
<1>7. e.version = m.version + 1 /\ e.status = s
  OBVIOUS
<1> HIDE DEF e, b
<1>8. b \in Meta
  BY <1>1, <1>2, <1>4, <1>5 DEF Meta
<1>9. Len(m.history) = m.version
  BY DEF WellFormed
<1>10. /\ Len(b.history) = m.version + 1
      /\ b.history[m.version + 1] = e
      /\ \A i \in 1 .. m.version : b.history[i] = m.history[i]
  BY <1>1, <1>3, <1>6, <1>9
<1>11. \A i \in 1 .. b.version : b.history[i].version = i
  BY <1>1, <1>6, <1>7, <1>10 DEF WellFormed, Versions
<1>12. ASSUME NEW i \in 1 .. b.version - 1
       PROVE  AllowedStep(b.history[i].status, b.history[i + 1].status)
  <2>1. CASE i = m.version
    <3>1. m.version \in 1 .. m.version /\ i + 1 = m.version + 1
      BY <1>1, <2>1 DEF Versions
    <3>2. b.history[i].status = m.status
      BY <1>10, <2>1, <3>1 DEF WellFormed
    <3>3. b.history[i + 1].status = s
      BY <1>7, <1>10, <3>1
    <3>. QED
      BY <3>2, <3>3
  <2>2. CASE i # m.version
    <3>1. i \in 1 .. m.version - 1 /\ i + 1 \in 1 .. m.version
      BY <1>1, <1>6, <2>2 DEF Versions
    <3>2. b.history[i] = m.history[i] /\ b.history[i + 1] = m.history[i + 1]
      BY <1>1, <1>10, <3>1 DEF Versions
    <3>3. AllowedStep(m.history[i].status, m.history[i + 1].status)
      BY <3>1 DEF WellFormed
    <3>. QED
      BY <3>2, <3>3
  <2>. QED
    BY <2>1, <2>2
<1>13. WellFormed(b)
  BY <1>6, <1>7, <1>10, <1>11, <1>12 DEF WellFormed
<1>. QED
  BY <1>13, <1>8 DEF b

-----------------------------------------------------------------------------
(* The inductive invariant holds in the beginning *)

LEMMA NewMetaSound ==
  ASSUME NEW s \in Statuses, NEW k \in Contents, NEW r \in Versions \cup {0}
  PROVE  FirstMeta(s, k, r) \in Meta /\ WellFormed(FirstMeta(s, k, r))
<1> DEFINE e == [version |-> 1, status |-> s, by |-> Nil]
<1>1. 1 \in Versions
  BY BoundsAssumption DEF Versions
<1>2. e \in Entry /\ e.version = 1 /\ e.status = s
  BY <1>1 DEF Entry
<1> HIDE DEF e
<1>3. <<e>> \in Seq(Entry) /\ Len(<<e>>) = 1 /\ <<e>>[1] = e
  BY <1>2
<1>4. FirstMeta(s, k, r) = [version |-> 1, status |-> s, sha |-> k, history |-> <<e>>,
                            rendered |-> r]
  BY DEF FirstMeta, e
<1>5. FirstMeta(s, k, r) \in Meta
  BY <1>1, <1>3, <1>4 DEF Meta
<1>6. WellFormed(FirstMeta(s, k, r))
  BY <1>2, <1>3, <1>4 DEF WellFormed
<1>. QED
  BY <1>5, <1>6

LEMMA SnapshotTypes ==
  /\ NoSnap \in Snapshot
  /\ \A m \in Meta, k \in Contents : FullSnap(m, k) \in Snapshot
  /\ \A m \in Meta, k \in Contents : DocOf(m, k) \in Doc
<1>1. NoSnap \in Snapshot
  BY DEF NoSnap, Snapshot
<1>2. ASSUME NEW m \in Meta, NEW k \in Contents
      PROVE  FullSnap(m, k) \in Snapshot
  <2>1. [version |-> m.version, status |-> m.status, sha |-> m.sha] \in Manifest
    BY DEF Meta, Manifest
  <2>2. k \in [Components -> Texts \cup {Nil}]
    BY DEF Contents
  <2>. QED
    BY <2>1, <2>2 DEF FullSnap, Snapshot
<1>3. ASSUME NEW m \in Meta, NEW k \in Contents
      PROVE  DocOf(m, k) \in Doc
  <2>1. Restrict(k, RenderedComponents) \in [RenderedComponents -> Texts]
    BY DEF Restrict, RenderedComponents, Contents
  <2>. QED
    BY <2>1 DEF DocOf, Doc, Meta
<1>. QED
  BY <1>1, <1>2, <1>3

LEMMA HistoryInvInit == Init => HistoryInv
<1> SUFFICES ASSUME Init PROVE HistoryInv
  OBVIOUS
<1>1. PICK s \in Statuses, k \in InitialContents :
        /\ meta = FirstMeta(s, k, 1)
        /\ content = k
        /\ snaps = [v \in Versions |-> IF v = 1 THEN FullSnap(FirstMeta(s, k, 0), k) ELSE NoSnap]
        /\ rendered = [v \in Versions |-> IF v = 1 THEN DocOf(FirstMeta(s, k, 1), k) ELSE Nil]
        /\ latest = DocOf(FirstMeta(s, k, 1), k)
  BY DEF Init
<1>2. k \in Contents
  <2>1. Empty \in Seq(Lines)
    BY DEF Empty
  <2>. QED
    BY <2>1, InputsAssumption DEF InitialContents, Contents, Texts
<1>3. 1 \in Versions
  BY BoundsAssumption DEF Versions
<1>4. meta \in Meta /\ WellFormed(meta) /\ FirstMeta(s, k, 0) \in Meta
  BY <1>1, <1>2, <1>3, NewMetaSound
<1>5. /\ snaps \in [Versions -> Snapshot]
      /\ rendered \in [Versions -> Doc \cup {Nil, Torn}]
      /\ latest \in Doc \cup {Nil, Torn}
  BY <1>1, <1>2, <1>4, SnapshotTypes
<1>6. NoTexts \in Contents
  <2>1. Empty \in Seq(Lines)
    BY DEF Empty
  <2>. QED
    BY <2>1 DEF NoTexts, Contents, Texts
<1>7. /\ pc = [p \in Procs |-> Idle] /\ cmd = [p \in Procs |-> Nil]
      /\ plan = [p \in Procs |-> Nil] /\ seen = [p \in Procs |-> NoTexts]
      /\ todo = [p \in Procs |-> {}] /\ result = [p \in Procs |-> "none"]
      /\ crashes = 0
  BY DEF Init
<1>8. TypeOK
  BY <1>1, <1>2, <1>4, <1>5, <1>6, <1>7, BoundsAssumption DEF TypeOK, Results
<1>9. PlanHeld /\ CommandHeld /\ AllowedHeld
  BY <1>7 DEF PlanHeld, CommandHeld, AllowedHeld, Holds, Idle
<1>. QED
  BY <1>4, <1>8, <1>9 DEF HistoryInv, HistoryWellFormed

-----------------------------------------------------------------------------
(* Every step keeps the inductive invariant *)

\* The files of the plan hold what their types say.
DiskOK ==
  /\ meta \in Meta
  /\ content \in Contents
  /\ snaps \in [Versions -> Snapshot]
  /\ rendered \in [Versions -> Doc \cup {Nil, Torn}]
  /\ latest \in Doc \cup {Nil, Torn}

LEMMA NoTextsType == NoTexts \in Contents
<1>1. Empty \in Seq(Lines)
  BY DEF Empty
<1>. QED
  BY <1>1 DEF NoTexts, Contents, Texts

\* A process that ends leaves nothing in memory that could be unsound.
LEMMA FinishKeeps ==
  ASSUME HistoryInv, NEW p \in Procs, NEW o \in Results, Finish(p, o),
         DiskOK', WellFormed(meta)', crashes' \in 0 .. MaxCrashes
  PROVE  HistoryInv'
<1>1. TypeOK'
  BY NoTextsType DEF HistoryInv, TypeOK, DiskOK, Finish
<1>2. \A q \in Procs : q # p => pc'[q] = pc[q] /\ cmd'[q] = cmd[q] /\ plan'[q] = plan[q]
  BY DEF Finish, HistoryInv, TypeOK
<1>3. pc'[p] = Idle
  BY DEF Finish, HistoryInv, TypeOK
<1>4. PlanHeld'
  BY <1>2, <1>3 DEF HistoryInv, PlanHeld, Holds, WellFormed
<1>5. CommandHeld' /\ AllowedHeld'
  BY <1>2, <1>3 DEF HistoryInv, CommandHeld, AllowedHeld, TransitionAllowed, NextStatus, Idle
<1>. QED
  BY <1>1, <1>4, <1>5 DEF HistoryInv, HistoryWellFormed

\* A step that leaves plan.yaml, the commands and the Plan objects alone.
LEMMA MetaKept ==
  ASSUME HistoryInv, TypeOK', NEW p \in Procs, UNCHANGED <<meta, cmd, plan>>,
         \A q \in Procs : q # p => pc'[q] = pc[q],
         Holds(p), pc'[p] \in {"read", "write"} => pc'[p] = pc[p]
  PROVE  HistoryInv'
<1>1. PlanHeld'
  BY DEF HistoryInv, PlanHeld, Holds, WellFormed
<1>2. CommandHeld' /\ AllowedHeld'
  BY DEF HistoryInv, CommandHeld, AllowedHeld, TransitionAllowed, NextStatus
<1>3. HistoryWellFormed'
  BY DEF HistoryInv, HistoryWellFormed, WellFormed
<1>. QED
  BY <1>1, <1>2, <1>3 DEF HistoryInv

\* The texts a process is about to write are texts.
LEMMA NextContentsType ==
  ASSUME HistoryInv, NEW p \in Procs, pc[p] \in {"read", "write"}
  PROVE  NextContents(p) \in Contents /\ NextStatus(p) \in Statuses
<1>1. cmd[p] \in Commands \ {Build} /\ plan[p] \in Meta /\ seen[p] \in Contents
  BY DEF HistoryInv, CommandHeld, PlanHeld, Holds, TypeOK, Idle
<1>2. ASSUME NEW c \in Components PROVE NextText(p, c) \in Texts
  <2>1. seen[p][c] \in Texts
    BY <1>1 DEF Contents
  <2>2. CASE c \notin DOMAIN cmd[p].updates
    BY <2>1, <2>2 DEF NextText
  <2>3. CASE c \in DOMAIN cmd[p].updates
    <3>1. cmd[p].updates[c] \in Texts
      BY <1>1, <2>3, CommandType
    <3>2. AppendText(seen[p][c], cmd[p].updates[c]) \in Texts
      BY <2>1, <3>1, AppendTextType
    <3>. QED
      BY <2>3, <3>1, <3>2 DEF NextText
  <2>. QED
    BY <2>2, <2>3
<1>3. NextStatus(p) \in Statuses
  BY <1>1, CommandType DEF NextStatus, Meta
<1>. QED
  BY <1>2, <1>3 DEF NextContents, Contents

LEMMA FinishingSteps ==
  ASSUME HistoryInv, NEW p \in Procs,
         \/ RefuseCancelled(p) \/ RefuseTransition(p) \/ RefuseDone(p)
         \/ CopyFails(p) \/ RefuseBuild(p) \/ SaveRendered(p) \/ Crash(p)
  PROVE  HistoryInv'
<1>1. DiskOK /\ WellFormed(meta) /\ crashes \in 0 .. MaxCrashes
  BY DEF HistoryInv, HistoryWellFormed, TypeOK, DiskOK
<1>2. ASSUME UNCHANGED <<disk, crashes>>, NEW o \in Results, Finish(p, o)
      PROVE  HistoryInv'
  <2>1. DiskOK' /\ WellFormed(meta)' /\ crashes' \in 0 .. MaxCrashes
    BY <1>1, <1>2 DEF disk, DiskOK, WellFormed
  <2>. QED
    BY <1>2, <2>1, FinishKeeps
<1>3. CASE \/ RefuseCancelled(p) \/ RefuseTransition(p) \/ RefuseDone(p)
           \/ CopyFails(p) \/ RefuseBuild(p)
  BY <1>2, <1>3
     DEF RefuseCancelled, RefuseTransition, RefuseDone, CopyFails, RefuseBuild, Results
<1>4. CASE SaveRendered(p)
  <2>1. plan[p] \in Meta /\ WellFormed(plan[p])
    BY <1>4 DEF SaveRendered, HistoryInv, PlanHeld, Holds, Idle
  <2>2. meta' = [plan[p] EXCEPT !.rendered = plan[p].version]
    BY <1>4 DEF SaveRendered
  <2>3. meta' \in Meta
    BY <2>1, <2>2 DEF Meta
  <2>4. /\ meta'.version = plan[p].version /\ meta'.status = plan[p].status
        /\ meta'.history = plan[p].history
    BY <2>1, <2>2 DEF Meta
  <2>5. WellFormed(meta)'
    BY <2>1, <2>4 DEF WellFormed
  <2>6. DiskOK' /\ crashes' \in 0 .. MaxCrashes /\ Finish(p, "ok")
    BY <1>1, <1>4, <2>3 DEF SaveRendered, DiskOK
  <2>. QED
    BY <2>5, <2>6, FinishKeeps DEF Results
<1>5. CASE Crash(p)
  <2>1. /\ meta' = meta /\ content' = content /\ snaps' = snaps
        /\ crashes' \in 0 .. MaxCrashes /\ Finish(p, "crashed")
    BY <1>1, <1>5, BoundsAssumption DEF Crash
  <2>2. rendered' \in [Versions -> Doc \cup {Nil, Torn}] /\ latest' \in Doc \cup {Nil, Torn}
    BY <1>1, <1>5 DEF Crash, DiskOK
  <2>3. DiskOK' /\ WellFormed(meta)'
    BY <1>1, <2>1, <2>2 DEF DiskOK, WellFormed
  <2>. QED
    BY <2>1, <2>3, FinishKeeps DEF Results
<1>. QED
  BY <1>3, <1>4, <1>5

LEMMA SnapshotSteps ==
  ASSUME HistoryInv, NEW p \in Procs,
         \/ ResetSnapshot(p) \/ CopyMetadata(p) \/ MakeTree(p)
         \/ CopyFile(p) \/ WriteManifest(p)
  PROVE  HistoryInv'
<1>1. TypeOK /\ plan[p] \in Meta /\ plan[p].version \in Versions
  BY DEF HistoryInv, PlanHeld, Holds, Idle, Meta,
         ResetSnapshot, CopyMetadata, MakeTree, CopyFile, WriteManifest
<1>2. /\ Holds(p) /\ pc[p] \notin {"read", "write"}
      /\ \A q \in Procs : q # p => pc'[q] = pc[q]
      /\ pc' \in [Procs -> {Idle} \cup Mutating \cup Building]
      /\ pc'[p] \notin {"read", "write"}
      /\ UNCHANGED <<meta, content, rendered, latest, cmd, plan, seen, result, crashes>>
      /\ todo' \in [Procs -> SUBSET Components]
  <2>1. CASE ResetSnapshot(p)
    BY <1>1, <2>1 DEF TypeOK, Holds, Idle, Goto, Mutating, ResetSnapshot
  <2>2. CASE CopyMetadata(p)
    BY <1>1, <2>2 DEF TypeOK, Holds, Idle, Goto, Mutating, CopyMetadata
  <2>3. CASE MakeTree(p)
    BY <1>1, <2>3 DEF TypeOK, Holds, Idle, Goto, Mutating, MakeTree
  <2>4. CASE CopyFile(p)
    BY <1>1, <2>4 DEF TypeOK, Holds, Idle, CopyFile
  <2>5. CASE WriteManifest(p)
    BY <1>1, <2>5 DEF TypeOK, Holds, Idle, Goto, Building, WriteManifest
  <2>. QED
    BY <2>1, <2>2, <2>3, <2>4, <2>5
<1> DEFINE v == plan[p].version
<1>3. snaps[v] \in Snapshot
  BY <1>1 DEF TypeOK
<1>4. snaps' \in [Versions -> Snapshot]
  <2>1. CASE ResetSnapshot(p)
    BY <1>1, <2>1, SnapshotTypes DEF ResetSnapshot, TypeOK
  <2>2. CASE CopyMetadata(p)
    <3>1. [snaps[v] EXCEPT !.meta = meta] \in Snapshot
      BY <1>1, <1>3 DEF TypeOK, Snapshot
    <3>. QED
      BY <1>1, <2>2, <3>1 DEF CopyMetadata, TypeOK
  <2>3. CASE MakeTree(p)
    <3>1. [snaps[v] EXCEPT !.tree = TRUE] \in Snapshot
      BY <1>1, <1>3 DEF TypeOK, Snapshot
    <3>. QED
      BY <1>1, <2>3, <3>1 DEF MakeTree, TypeOK
  <2>4. CASE CopyFile(p)
    <3>1. PICK c \in Components : snaps' = [snaps EXCEPT ![v].files[c] = content[c]]
      BY <1>1, <2>4 DEF CopyFile, TypeOK
    <3>2. content[c] \in Texts
      BY <1>1 DEF TypeOK, Contents
    <3>3. [snaps[v] EXCEPT !.files[c] = content[c]] \in Snapshot
      BY <1>3, <3>2 DEF Snapshot
    <3>. QED
      BY <1>1, <3>1, <3>3 DEF TypeOK
  <2>5. CASE WriteManifest(p)
    <3>1. [version |-> v, status |-> plan[p].status, sha |-> plan[p].sha] \in Manifest
      BY <1>1 DEF Meta, Manifest
    <3>2. [snaps[v] EXCEPT !.manifest = [version |-> v, status |-> plan[p].status,
                                         sha |-> plan[p].sha]] \in Snapshot
      BY <1>3, <3>1 DEF Snapshot
    <3>. QED
      BY <1>1, <2>5, <3>2 DEF WriteManifest, TypeOK
  <2>. QED
    BY <2>1, <2>2, <2>3, <2>4, <2>5
<1>5. TypeOK'
  BY <1>1, <1>2, <1>4 DEF TypeOK
<1>. QED
  BY <1>2, <1>5, MetaKept

LEMMA BuildSteps ==
  ASSUME HistoryInv, NEW p \in Procs,
         \/ ReadText(p) \/ StartRender(p) \/ WriteVersioned(p) \/ WriteLatest(p)
  PROVE  HistoryInv'
<1>1. TypeOK /\ plan[p] \in Meta /\ plan[p].version \in Versions /\ seen[p] \in Contents
  BY DEF HistoryInv, TypeOK, PlanHeld, Holds, Idle, Meta, Validated,
         ReadText, StartRender, WriteVersioned, WriteLatest
<1>2. /\ Holds(p)
      /\ \A q \in Procs : q # p => pc'[q] = pc[q]
      /\ pc' \in [Procs -> {Idle} \cup Mutating \cup Building]
      /\ pc'[p] \in {"read", "write"} => pc'[p] = pc[p]
      /\ UNCHANGED <<meta, content, snaps, cmd, plan, result, crashes>>
  <2>1. CASE ReadText(p)
    BY <1>1, <2>1 DEF TypeOK, Holds, Idle, disk, ReadText
  <2>2. CASE StartRender(p)
    BY <1>1, <2>2 DEF TypeOK, Holds, Idle, Goto, Building, Validated, disk, StartRender
  <2>3. CASE WriteVersioned(p)
    BY <1>1, <2>3 DEF TypeOK, Holds, Idle, Goto, Building, WriteVersioned
  <2>4. CASE WriteLatest(p)
    BY <1>1, <2>4 DEF TypeOK, Holds, Idle, Goto, Building, WriteLatest
  <2>. QED
    BY <2>1, <2>2, <2>3, <2>4
<1>3. DocOf(plan[p], seen[p]) \in Doc
  BY <1>1, SnapshotTypes
<1>4. rendered' \in [Versions -> Doc \cup {Nil, Torn}] /\ latest' \in Doc \cup {Nil, Torn}
  BY <1>1, <1>3 DEF TypeOK, disk, ReadText, StartRender, WriteVersioned, WriteLatest
<1>5. seen' \in [Procs -> Contents] /\ todo' \in [Procs -> SUBSET Components]
  <2>1. CASE ReadText(p)
    <3>1. PICK c \in todo[p] : /\ seen' = [seen EXCEPT ![p][c] = content[c]]
                               /\ todo' = [todo EXCEPT ![p] = @ \ {c}]
      BY <2>1 DEF ReadText
    <3>2. c \in Components /\ content[c] \in Texts
      BY <1>1, <3>1 DEF TypeOK, Contents
    <3>3. [seen[p] EXCEPT ![c] = content[c]] \in Contents
      BY <1>1, <3>2 DEF Contents
    <3>. QED
      BY <1>1, <3>1, <3>3 DEF TypeOK
  <2>2. CASE ~ReadText(p)
    BY <1>1, <2>2, NoTextsType
       DEF TypeOK, StartRender, WriteVersioned, WriteLatest, RenderedComponents
  <2>. QED
    BY <2>1, <2>2
<1>6. TypeOK'
  BY <1>1, <1>2, <1>4, <1>5 DEF TypeOK
<1>. QED
  BY <1>2, <1>6, MetaKept

\* The steps that take or change the Plan object, or what is asked of it.
LEMMA MutationSteps ==
  ASSUME HistoryInv, NEW p \in Procs,
         \/ BeginMutation(p) \/ AcceptMutation(p) \/ WriteComponent(p) \/ WriteMetadata(p)
  PROVE  HistoryInv'
<1>0. TypeOK /\ WellFormed(meta)
  BY DEF HistoryInv, HistoryWellFormed
<1>1. CASE BeginMutation(p)
  <2>1. PICK c \in Commands \ {Build} : cmd' = [cmd EXCEPT ![p] = c]
    BY <1>1 DEF BeginMutation
  <2>2. TypeOK'
    BY <1>0, <1>1, <2>1 DEF BeginMutation, TypeOK, disk, Goto, Mutating, Results
  <2>3. /\ pc'[p] = "read" /\ plan'[p] = meta /\ meta' = meta /\ cmd'[p] = c
        /\ meta.version < MaxVersion
        /\ \A q \in Procs : q # p =>
             pc'[q] = pc[q] /\ plan'[q] = plan[q] /\ cmd'[q] = cmd[q]
    BY <1>0, <1>1, <2>1 DEF BeginMutation, TypeOK, disk, Goto
  <2>4. PlanHeld'
    BY <1>0, <2>3 DEF HistoryInv, PlanHeld, Holds, WellFormed, TypeOK
  <2>5. CommandHeld' /\ AllowedHeld'
    BY <2>3 DEF HistoryInv, CommandHeld, AllowedHeld, TransitionAllowed, NextStatus
  <2>. QED
    BY <1>0, <2>2, <2>3, <2>4, <2>5 DEF HistoryInv, HistoryWellFormed, WellFormed
<1>2. CASE AcceptMutation(p)
  <2>1. /\ pc[p] = "read" /\ pc'[p] = "write" /\ TransitionAllowed(p)
        /\ UNCHANGED <<meta, cmd, plan>>
        /\ \A q \in Procs : q # p => pc'[q] = pc[q]
    BY <1>0, <1>2 DEF AcceptMutation, Decided, Goto, TypeOK, disk
  <2>2. NextContents(p) \in Contents /\ Changed(p) \in SUBSET Components
    BY <2>1, NextContentsType DEF Changed
  <2>3. TypeOK'
    BY <1>0, <1>2, <2>2 DEF AcceptMutation, TypeOK, disk, Goto, Mutating
  <2>4. PlanHeld'
    BY <2>1 DEF HistoryInv, PlanHeld, Holds, WellFormed, Idle
  <2>5. CommandHeld' /\ AllowedHeld'
    BY <2>1 DEF HistoryInv, CommandHeld, AllowedHeld, TransitionAllowed, NextStatus
  <2>. QED
    BY <1>0, <2>1, <2>3, <2>4, <2>5 DEF HistoryInv, HistoryWellFormed, WellFormed
<1>3. CASE WriteComponent(p)
  <2>1. PICK c \in todo[p] :
          /\ content' = [content EXCEPT ![c] = seen[p][c]]
          /\ plan' = [plan EXCEPT ![p].sha[c] = seen[p][c]]
          /\ todo' = [todo EXCEPT ![p] = @ \ {c}]
    BY <1>3 DEF WriteComponent
  <2>2. /\ pc[p] = "write" /\ UNCHANGED <<meta, snaps, rendered, latest, pc, cmd, seen, result, crashes>>
    BY <1>3 DEF WriteComponent
  <2>3. plan[p] \in Meta /\ WellFormed(plan[p])
    BY <2>2 DEF HistoryInv, PlanHeld, Holds, Idle
  <2>4. c \in Components /\ seen[p][c] \in Texts
    BY <1>0, <2>1 DEF TypeOK, Contents
  <2> DEFINE n == [plan[p] EXCEPT !.sha[c] = seen[p][c]]
  <2>5. n \in Meta
    <3>1. [plan[p].sha EXCEPT ![c] = seen[p][c]] \in Contents
      BY <2>3, <2>4 DEF Meta, Contents
    <3>. QED
      BY <2>3, <3>1 DEF Meta
  <2>6. n.version = plan[p].version /\ n.status = plan[p].status /\ n.history = plan[p].history
    BY <2>3 DEF Meta
  <2>7. plan' = [plan EXCEPT ![p] = n]
    BY <2>1
  <2> HIDE DEF n
  <2>8. WellFormed(n)
    BY <2>3, <2>6 DEF WellFormed
  <2>9. plan'[p] = n /\ \A q \in Procs : q # p => plan'[q] = plan[q]
    BY <1>0, <2>7 DEF TypeOK
  <2>10. TypeOK'
    BY <1>0, <2>1, <2>2, <2>4, <2>5, <2>7 DEF TypeOK, Contents
  <2>11. PlanHeld'
    BY <2>2, <2>5, <2>8, <2>9 DEF HistoryInv, PlanHeld, Holds, WellFormed
  <2>12. CommandHeld' /\ AllowedHeld'
    BY <2>2, <2>6, <2>9 DEF HistoryInv, CommandHeld, AllowedHeld, TransitionAllowed, NextStatus
  <2>. QED
    BY <1>0, <2>2, <2>10, <2>11, <2>12 DEF HistoryInv, HistoryWellFormed, WellFormed
<1>4. CASE WriteMetadata(p)
  <2> DEFINE b == Bump(plan[p], NextStatus(p), p)
  <2>1. /\ pc[p] = "write" /\ plan' = [plan EXCEPT ![p] = b] /\ meta' = b
        /\ cmd' = [cmd EXCEPT ![p] = Build] /\ pc' = [pc EXCEPT ![p] = "snapshot"]
        /\ UNCHANGED <<content, snaps, rendered, latest, seen, todo, result, crashes>>
    BY <1>4 DEF WriteMetadata, Goto
  <2>2. /\ plan[p] \in Meta /\ WellFormed(plan[p]) /\ plan[p].version < MaxVersion
        /\ AllowedStep(plan[p].status, NextStatus(p))
    BY <2>1 DEF HistoryInv, PlanHeld, Holds, Idle, CommandHeld, AllowedHeld, TransitionAllowed
  <2>3. b \in Meta /\ WellFormed(b)
    BY <2>1, <2>2, NextContentsType, BumpWellFormed
  <2> HIDE DEF b
  <2>4. cmd' \in [Procs -> Commands \cup {Build, Nil}]
    BY <1>0, <2>1 DEF TypeOK
  <2>5. TypeOK'
    BY <1>0, <2>1, <2>3, <2>4 DEF TypeOK, Mutating
  <2>6. /\ pc'[p] = "snapshot" /\ plan'[p] = b
        /\ \A q \in Procs : q # p =>
             pc'[q] = pc[q] /\ plan'[q] = plan[q] /\ cmd'[q] = cmd[q]
    BY <1>0, <2>1 DEF TypeOK
  <2>7. PlanHeld'
    BY <2>3, <2>6 DEF HistoryInv, PlanHeld, Holds, WellFormed
  <2>8. CommandHeld' /\ AllowedHeld'
    BY <2>6 DEF HistoryInv, CommandHeld, AllowedHeld, TransitionAllowed, NextStatus
  <2>. QED
    BY <2>1, <2>3, <2>5, <2>7, <2>8 DEF HistoryInv, HistoryWellFormed, WellFormed
<1>. QED
  BY <1>1, <1>2, <1>3, <1>4

\* The steps around the load of a build: no Plan object is held there.
LEMMA LoadingSteps ==
  ASSUME HistoryInv, NEW p \in Procs,
         \/ BeginBuild(p) \/ SkipMutation(p) \/ LoadForBuild(p)
  PROVE  HistoryInv'
<1>0. TypeOK /\ WellFormed(meta)
  BY DEF HistoryInv, HistoryWellFormed
<1>1. TypeOK'
  BY <1>0, NoTextsType
     DEF TypeOK, disk, Goto, Building, Results, BeginBuild, SkipMutation, LoadForBuild
<1>2. /\ meta' = meta
      /\ \A q \in Procs : q # p =>
           pc'[q] = pc[q] /\ plan'[q] = plan[q] /\ cmd'[q] = cmd[q]
      /\ \/ pc'[p] = "load"
         \/ pc'[p] = "validate" /\ plan'[p] = meta
  BY <1>0 DEF TypeOK, disk, Goto, BeginBuild, SkipMutation, LoadForBuild
<1>3. PlanHeld'
  BY <1>0, <1>2 DEF HistoryInv, PlanHeld, Holds, WellFormed, TypeOK
<1>4. CommandHeld' /\ AllowedHeld'
  BY <1>2 DEF HistoryInv, CommandHeld, AllowedHeld, TransitionAllowed, NextStatus
<1>. QED
  BY <1>0, <1>1, <1>2, <1>3, <1>4 DEF HistoryInv, HistoryWellFormed, WellFormed

LEMMA HistoryInvNext == HistoryInv /\ [Next]_vars => HistoryInv'
<1> SUFFICES ASSUME HistoryInv, [Next]_vars PROVE HistoryInv'
  OBVIOUS
<1>1. ASSUME NEW p \in Procs, Begin(p) PROVE HistoryInv'
  BY <1>1, FinishingSteps, MutationSteps, LoadingSteps DEF Begin
<1>2. ASSUME NEW p \in Procs, Step(p) PROVE HistoryInv'
  BY <1>2, FinishingSteps, MutationSteps, LoadingSteps, SnapshotSteps, BuildSteps DEF Step
<1>3. ASSUME NEW p \in Procs, Crash(p) PROVE HistoryInv'
  BY <1>3, FinishingSteps
<1>4. CASE UNCHANGED vars
  BY <1>4 DEF vars, HistoryInv, TypeOK, PlanHeld, Holds, CommandHeld, AllowedHeld,
              TransitionAllowed, NextStatus, HistoryWellFormed, WellFormed
<1>. QED
  BY <1>1, <1>2, <1>3, <1>4 DEF Next

\* Whoever runs, in whatever order and with however many crashes, every value
\* in memory and on disk has its type.
THEOREM TypeCorrect == Spec => []TypeOK
<1>1. HistoryInv => TypeOK
  BY DEF HistoryInv
<1>. QED
  BY <1>1, HistoryInvInit, HistoryInvNext, PTL DEF Spec

\* Lost updates and crashes can cost commits, but the history in plan.yaml is
\* always numbered 1, 2, 3, ..., made of allowed transitions, and ends with the
\* current version and status: apply_plan_mutations checks the transition on the
\* very copy it extends and saves.
THEOREM HistoryAlwaysWellFormed == Spec => []HistoryWellFormed
<1>1. HistoryInv => HistoryWellFormed
  BY DEF HistoryInv
<1>. QED
  BY <1>1, HistoryInvInit, HistoryInvNext, PTL DEF Spec

-----------------------------------------------------------------------------
(* A single writer *)

SingleWriter == \A p, q \in Procs : p = q

\* What the only process holds is the newest history.
Synced == \A p \in Procs : Holds(p) =>
            plan[p].version = meta.version /\ plan[p].history = meta.history

AppendInv == HistoryInv /\ Synced

LEMMA AppendExtends ==
  ASSUME NEW m, NEW old, NEW e, old.version \in Nat, old.history \in Seq(Entry),
         Len(old.history) = old.version,
         m.version = old.version + 1, m.history = Append(old.history, e)
  PROVE  Extends(m, old)
<1>1. \A i \in 1 .. old.version : Append(old.history, e)[i] = old.history[i]
  OBVIOUS
<1>. QED
  BY <1>1 DEF Extends

\* Every step of a single writer keeps the history it holds the one on disk,
\* and either leaves the history alone or adds one entry.
LEMMA AppendStep ==
  ASSUME SingleWriter, AppendInv, [Next]_vars
  PROVE  Synced' /\ Extends(meta', meta)
<1>0. TypeOK /\ meta \in Meta /\ meta.version \in Nat
  BY DEF AppendInv, HistoryInv, TypeOK, Meta, Versions
<1>1. ASSUME meta' = meta PROVE Extends(meta', meta)
  BY <1>0, <1>1 DEF Extends
<1>2. ASSUME NEW p \in Procs, Holds(p)
      PROVE  /\ plan[p] \in Meta /\ WellFormed(plan[p])
             /\ plan[p].version = meta.version /\ plan[p].history = meta.history
  BY <1>2 DEF AppendInv, HistoryInv, PlanHeld, Synced
<1>3. ASSUME NEW p \in Procs, ~Holds(p)', meta' = meta PROVE Synced' /\ Extends(meta', meta)
  BY <1>1, <1>3 DEF SingleWriter, Synced
<1>4. ASSUME NEW p \in Procs, Holds(p), plan' = plan, meta' = meta
      PROVE  Synced' /\ Extends(meta', meta)
  BY <1>1, <1>2, <1>4 DEF SingleWriter, Synced
<1>5. ASSUME NEW p \in Procs, plan'[p] = meta, meta' = meta PROVE Synced' /\ Extends(meta', meta)
  BY <1>1, <1>5 DEF SingleWriter, Synced
<1>6. ASSUME NEW p \in Procs,
             \/ RefuseCancelled(p) \/ RefuseTransition(p) \/ RefuseDone(p)
             \/ CopyFails(p) \/ RefuseBuild(p) \/ Crash(p)
             \/ BeginBuild(p) \/ SkipMutation(p)
      PROVE  ~Holds(p)' /\ meta' = meta
  BY <1>0, <1>6 DEF TypeOK, Holds, Finish, Goto, disk, RefuseCancelled, RefuseTransition,
       RefuseDone, CopyFails, RefuseBuild, Crash, BeginBuild, SkipMutation
<1>7. ASSUME NEW p \in Procs, BeginMutation(p) \/ LoadForBuild(p)
      PROVE  plan'[p] = meta /\ meta' = meta
  BY <1>0, <1>7 DEF TypeOK, disk, BeginMutation, LoadForBuild
<1>8. ASSUME NEW p \in Procs,
             \/ AcceptMutation(p) \/ ReadText(p) \/ StartRender(p) \/ WriteVersioned(p)
             \/ WriteLatest(p) \/ ResetSnapshot(p) \/ CopyMetadata(p) \/ MakeTree(p)
             \/ CopyFile(p) \/ WriteManifest(p)
      PROVE  Holds(p) /\ plan' = plan /\ meta' = meta
  BY <1>8 DEF Holds, Idle, disk, Decided, Validated, AcceptMutation, ReadText, StartRender,
       WriteVersioned, WriteLatest, ResetSnapshot, CopyMetadata, MakeTree, CopyFile, WriteManifest
<1>9. ASSUME NEW p \in Procs, WriteComponent(p) PROVE Synced' /\ Extends(meta', meta)
  <2>1. Holds(p) /\ meta' = meta /\ pc' = pc
    BY <1>9 DEF WriteComponent, Holds, Idle
  <2>2. PICK c : plan' = [plan EXCEPT ![p].sha[c] = seen[p][c]]
    BY <1>9 DEF WriteComponent
  <2>3. plan'[p].version = plan[p].version /\ plan'[p].history = plan[p].history
    BY <1>0, <1>2, <2>1, <2>2 DEF TypeOK, Meta
  <2>. QED
    BY <1>1, <1>2, <2>1, <2>3 DEF SingleWriter, Synced
<1>10. ASSUME NEW p \in Procs, SaveRendered(p) PROVE Synced' /\ Extends(meta', meta)
  <2>1. Holds(p) /\ ~Holds(p)' /\ meta' = [plan[p] EXCEPT !.rendered = plan[p].version]
    BY <1>0, <1>10 DEF SaveRendered, Finish, Holds, Idle, TypeOK
  <2>2. meta'.version = meta.version /\ meta'.history = meta.history
    BY <1>2, <2>1 DEF Meta
  <2>. QED
    BY <1>0, <2>1, <2>2 DEF SingleWriter, Synced, Extends
<1>11. ASSUME NEW p \in Procs, WriteMetadata(p) PROVE Synced' /\ Extends(meta', meta)
  <2> DEFINE e == [version |-> plan[p].version + 1, status |-> NextStatus(p), by |-> p]
  <2>1. Holds(p) /\ plan'[p] = meta' /\ meta' = Bump(plan[p], NextStatus(p), p)
    BY <1>0, <1>11 DEF WriteMetadata, Holds, Idle, TypeOK
  <2>2. meta'.version = plan[p].version + 1 /\ meta'.history = Append(plan[p].history, e)
    BY <1>2, <2>1 DEF Bump, Meta
  <2> HIDE DEF e
  <2>3. /\ meta.history \in Seq(Entry) /\ Len(meta.history) = meta.version
        /\ meta.version \in Nat
    BY <1>0 DEF AppendInv, HistoryInv, HistoryWellFormed, WellFormed, Meta
  <2>4. Extends(meta', meta)
    <3>1. plan[p].version = meta.version /\ plan[p].history = meta.history
      BY <1>2, <2>1
    <3>2. meta'.version = meta.version + 1 /\ meta'.history = Append(meta.history, e)
      BY <2>2, <3>1
    <3>. QED
      BY <2>3, <3>2, AppendExtends
  <2>5. Synced'
    BY <2>1 DEF SingleWriter, Synced
  <2>. QED
    BY <2>4, <2>5
<1>12. ASSUME UNCHANGED vars PROVE Synced' /\ Extends(meta', meta)
  BY <1>1, <1>12 DEF AppendInv, Synced, Holds, vars
<1>13. ASSUME NEW p \in Procs, Begin(p) \/ Step(p) \/ Crash(p)
       PROVE  Synced' /\ Extends(meta', meta)
  BY <1>3, <1>4, <1>5, <1>6, <1>7, <1>8, <1>9, <1>10, <1>11, <1>13 DEF Begin, Step
<1>. QED
  BY <1>12, <1>13 DEF Next

\* With one writer at a time, however often it crashes, a commit is never taken
\* back: plan.yaml only ever gains history entries.  (With two writers it is not
\* so, see PlanStore_lost_commit.)
THEOREM SingleWriterAppendOnly ==
  ASSUME SingleWriter PROVE Spec => HistoryAppendOnly
<1>1. Init => AppendInv
  BY HistoryInvInit DEF AppendInv, Synced, Holds, Init
<1>2. AppendInv /\ [Next]_vars => AppendInv'
  BY HistoryInvNext, AppendStep DEF AppendInv
<1>3. AppendInv /\ [Next]_vars => [Extends(meta', meta)]_vars
  BY AppendStep
<1>. QED
  BY <1>1, <1>2, <1>3, PTL DEF Spec, HistoryAppendOnly

=============================================================================
