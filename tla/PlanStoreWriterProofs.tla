------------------------- MODULE PlanStoreWriterProofs -------------------------
(***************************************************************************)
(* What a single writer makes of a plan, for any number of components,     *)
(* texts, versions and crashes: its snapshots and its handoffs, and, when  *)
(* it does not crash, the promise of VersionedPlan.                        *)
(***************************************************************************)
EXTENDS PlanStoreProofs, FiniteSetTheorems

-----------------------------------------------------------------------------
(* Labels *)

\* snapshot_version is at work; the Plan object is plan.yaml as it is.
Snapping == {"snapshot", "copy_meta", "copy_tree", "copy_files"}
Settled  == Snapping \cup {"validate", "render", "latest", "save"}

-----------------------------------------------------------------------------
(* The inductive invariant of the snapshots *)

\* From the commit, or from the load of a build, the process holds plan.yaml.
PlanIsMeta == \A p \in Procs : pc[p] \in Settled => plan[p] = meta

\* No version beyond the current one has a finished snapshot, nor has the
\* current one while its snapshot is being made.
NoneAhead == \A v \in Versions : v > meta.version => ~Complete(snaps[v])

SnapshotUnderWay ==
  \A p \in Procs : LET s == snaps[meta.version] IN
    /\ pc[p] \in Snapping => ~Complete(s)
    /\ pc[p] \in {"copy_meta", "copy_tree"} => ~s.tree
    /\ pc[p] = "copy_files" => s.tree
    /\ pc[p] \in {"copy_tree", "copy_files"} => s.meta = meta

SnapInv == AppendInv /\ PlanIsMeta /\ NoneAhead /\ SnapshotUnderWay /\ SnapshotConsistent

Immutable == \A v \in Versions : Complete(snaps[v]) => snaps'[v] = snaps[v]

SnapStep == PlanIsMeta' /\ NoneAhead' /\ SnapshotUnderWay' /\ SnapshotConsistent' /\ Immutable

LEMMA ExtendsTransitive ==
  ASSUME NEW a, NEW b, NEW c, a.version \in Nat, b.version \in Nat, c.version \in Nat,
         Extends(a, b), Extends(b, c)
  PROVE  Extends(a, c)
<1>1. c.version <= b.version /\ b.version <= a.version
  BY DEF Extends
<1>2. ASSUME NEW i \in 1 .. c.version PROVE a.history[i] = c.history[i]
  <2>1. i \in 1 .. b.version
    BY <1>1
  <2>2. a.history[i] = b.history[i]
    BY <2>1 DEF Extends
  <2>3. b.history[i] = c.history[i]
    BY DEF Extends
  <2>. QED
    BY <2>2, <2>3
<1>. QED
  BY <1>1, <1>2 DEF Extends

LEMMA SnapInvInit == Init => SnapInv
<1> SUFFICES ASSUME Init PROVE SnapInv
  OBVIOUS
<1>1. AppendInv
  BY HistoryInvInit DEF AppendInv, Synced, Holds, Init
<1>2. PICK s \in Statuses, k \in InitialContents :
        /\ meta = FirstMeta(s, k, 1)
        /\ snaps = [v \in Versions |-> IF v = 1 THEN FullSnap(FirstMeta(s, k, 0), k) ELSE NoSnap]
        /\ pc = [p \in Procs |-> Idle]
  BY DEF Init
<1>3. meta \in Meta /\ meta.version = 1 /\ WellFormed(meta)
  BY <1>1, <1>2 DEF AppendInv, HistoryInv, TypeOK, FirstMeta, HistoryWellFormed
<1>4. ~Complete(NoSnap)
  BY DEF Complete, NoSnap
<1>5. PlanIsMeta /\ SnapshotUnderWay
  BY <1>2 DEF PlanIsMeta, SnapshotUnderWay, Settled, Snapping, Idle
<1>6. NoneAhead
  BY <1>2, <1>3, <1>4 DEF NoneAhead
<1>7. SnapshotConsistent
  <2> SUFFICES ASSUME NEW v \in Versions, Complete(snaps[v])
               PROVE  /\ snaps[v].meta # Nil /\ snaps[v].meta.version = v
                      /\ snaps[v].manifest = [version |-> v, status |-> snaps[v].meta.status,
                                              sha |-> snaps[v].meta.sha]
                      /\ Extends(meta, snaps[v].meta)
    BY DEF SnapshotConsistent
  <2>1. v = 1 /\ snaps[v] = FullSnap(FirstMeta(s, k, 0), k)
    BY <1>2, <1>4
  <2>2. k \in Contents
    BY <1>1, <1>2 DEF AppendInv, HistoryInv, TypeOK, FirstMeta, Meta
  <2>3. FirstMeta(s, k, 0) \in Meta
    BY <2>2, NewMetaSound
  <2>4. /\ FirstMeta(s, k, 0).version = 1
        /\ FirstMeta(s, k, 0).history = meta.history
    BY <1>2 DEF FirstMeta
  <2>5. /\ snaps[v].meta = FirstMeta(s, k, 0)
        /\ snaps[v].manifest = [version |-> FirstMeta(s, k, 0).version,
                                status |-> FirstMeta(s, k, 0).status,
                                sha |-> FirstMeta(s, k, 0).sha]
    BY <2>1 DEF FullSnap
  <2>6. Extends(meta, FirstMeta(s, k, 0))
    BY <1>3, <2>4 DEF Extends
  <2>. QED
    BY <2>1, <2>3, <2>4, <2>5, <2>6, NilAssumption
<1>. QED
  BY <1>1, <1>5, <1>6, <1>7 DEF SnapInv

\* A step that touches neither plan.yaml nor the snapshots.
LEMMA SnapshotsKept ==
  ASSUME SingleWriter, SnapInv, NEW p \in Procs, meta' = meta, snaps' = snaps,
         pc'[p] \in Settled => plan'[p] = meta,
         pc'[p] \in Snapping => pc'[p] = pc[p]
  PROVE  SnapStep
<1>1. PlanIsMeta'
  BY DEF SingleWriter, PlanIsMeta
<1>2. NoneAhead' /\ SnapshotConsistent' /\ Immutable
  BY DEF SnapInv, NoneAhead, Complete, SnapshotConsistent, Extends, Immutable
<1>3. SnapshotUnderWay'
  BY DEF SingleWriter, SnapInv, SnapshotUnderWay, Complete, Snapping
<1>. QED
  BY <1>1, <1>2, <1>3 DEF SnapStep

\* A step of snapshot_version on the snapshot it is making.
LEMMA SnapshotWorkedOn ==
  ASSUME SingleWriter, SnapInv, NEW p \in Procs, NEW s, pc[p] \in Snapping,
         meta' = meta, plan' = plan, snaps' = [snaps EXCEPT ![meta.version] = s],
         ~Complete(s)
  PROVE  PlanIsMeta' /\ NoneAhead' /\ SnapshotConsistent' /\ Immutable
<1>1. snaps \in [Versions -> Snapshot] /\ meta.version \in Versions
  BY DEF SnapInv, AppendInv, HistoryInv, TypeOK, Meta
<1>2. ~Complete(snaps[meta.version]) /\ plan[p] = meta
  BY DEF SnapInv, SnapshotUnderWay, PlanIsMeta, Settled
<1>3. PlanIsMeta'
  BY <1>2 DEF SingleWriter, PlanIsMeta
<1>4. \A v \in Versions : Complete(snaps'[v]) => Complete(snaps[v]) /\ snaps'[v] = snaps[v]
  BY <1>1
<1>5. \A v \in Versions : Complete(snaps[v]) => snaps'[v] = snaps[v]
  BY <1>1, <1>2
<1>6. NoneAhead' /\ Immutable
  BY <1>4, <1>5 DEF SnapInv, NoneAhead, Complete, Immutable
<1>7. SnapshotConsistent'
  BY <1>4 DEF SnapInv, SnapshotConsistent, Complete, Extends
<1>. QED
  BY <1>3, <1>6, <1>7

LEMMA CopyingSteps ==
  ASSUME SingleWriter, SnapInv, NEW p \in Procs,
         \/ ResetSnapshot(p) \/ CopyMetadata(p) \/ MakeTree(p) \/ CopyFile(p)
  PROVE  SnapStep
<1>0. /\ TypeOK /\ snaps \in [Versions -> Snapshot] /\ meta \in Meta
      /\ meta.version \in Versions /\ pc \in [Procs -> {Idle} \cup Mutating \cup Building]
  BY DEF SnapInv, AppendInv, HistoryInv, TypeOK, Meta
<1>1. /\ pc[p] \in Snapping /\ meta' = meta /\ plan' = plan /\ plan[p] = meta
      /\ ~Complete(snaps[meta.version])
  BY DEF ResetSnapshot, CopyMetadata, MakeTree, CopyFile, Snapping, Settled, SnapInv,
         PlanIsMeta, SnapshotUnderWay
<1> DEFINE old == snaps[meta.version]
<1>2. old \in Snapshot
  BY <1>0
<1>3. ASSUME NEW s, snaps' = [snaps EXCEPT ![meta.version] = s], ~Complete(s),
             pc'[p] \in {"copy_meta", "copy_tree"} => ~s.tree,
             pc'[p] = "copy_files" => s.tree,
             pc'[p] \in {"copy_tree", "copy_files"} => s.meta = meta
      PROVE  SnapStep
  <2>1. snaps'[meta.version] = s
    BY <1>0, <1>3
  <2>2. SnapshotUnderWay'
    BY <1>1, <1>3, <2>1 DEF SingleWriter, SnapshotUnderWay, Complete
  <2>. QED
    BY <1>1, <1>3, <2>2, SnapshotWorkedOn DEF SnapStep
<1>4. CASE ResetSnapshot(p)
  <2>1. snaps' = [snaps EXCEPT ![meta.version] = NoSnap] /\ pc'[p] = "copy_meta"
    BY <1>0, <1>1, <1>4 DEF ResetSnapshot, Goto
  <2>2. ~Complete(NoSnap) /\ ~NoSnap.tree
    BY DEF Complete, NoSnap
  <2>. QED
    BY <1>3, <2>1, <2>2
<1>5. CASE CopyMetadata(p)
  <2> DEFINE s == [old EXCEPT !.meta = meta]
  <2>1. snaps' = [snaps EXCEPT ![meta.version] = s] /\ pc'[p] = "copy_tree"
    BY <1>0, <1>1, <1>5 DEF CopyMetadata, Goto
  <2>2. s.meta = meta /\ s.tree = old.tree /\ s.manifest = old.manifest
    BY <1>2 DEF Snapshot
  <2>3. ~old.tree
    BY <1>5 DEF CopyMetadata, SnapInv, SnapshotUnderWay
  <2>4. ~Complete(s)
    BY <1>1, <2>2 DEF Complete
  <2> HIDE DEF s
  <2>. QED
    BY <1>3, <2>1, <2>2, <2>3, <2>4
<1>6. CASE MakeTree(p)
  <2> DEFINE s == [old EXCEPT !.tree = TRUE]
  <2>1. snaps' = [snaps EXCEPT ![meta.version] = s] /\ pc'[p] = "copy_files"
    BY <1>0, <1>1, <1>6 DEF MakeTree, Goto
  <2>2. s.meta = old.meta /\ s.tree = TRUE /\ s.manifest = old.manifest
    BY <1>2 DEF Snapshot
  <2>3. old.meta = meta
    BY <1>6 DEF MakeTree, SnapInv, SnapshotUnderWay
  <2>4. ~Complete(s)
    BY <1>1, <2>2 DEF Complete
  <2> HIDE DEF s
  <2>. QED
    BY <1>3, <2>1, <2>2, <2>3, <2>4
<1>7. CASE CopyFile(p)
  <2>1. PICK c \in todo[p] : snaps' = [snaps EXCEPT ![meta.version].files[c] = content[c]]
    BY <1>1, <1>7 DEF CopyFile
  <2> DEFINE s == [old EXCEPT !.files[c] = content[c]]
  <2>2. snaps' = [snaps EXCEPT ![meta.version] = s] /\ pc'[p] = "copy_files"
    BY <1>0, <1>1, <1>7, <2>1 DEF CopyFile
  <2>3. s.meta = old.meta /\ s.tree = old.tree /\ s.manifest = old.manifest
    BY <1>2 DEF Snapshot
  <2>4. old.meta = meta /\ old.tree
    BY <1>7 DEF CopyFile, SnapInv, SnapshotUnderWay
  <2>5. ~Complete(s)
    BY <1>1, <2>3 DEF Complete
  <2> HIDE DEF s
  <2>. QED
    BY <1>3, <2>2, <2>3, <2>4, <2>5
<1>. QED
  BY <1>4, <1>5, <1>6, <1>7

\* The last step of snapshot_version makes the snapshot count.
LEMMA ManifestStep ==
  ASSUME SingleWriter, SnapInv, NEW p \in Procs, WriteManifest(p)
  PROVE  SnapStep
<1>0. /\ TypeOK /\ snaps \in [Versions -> Snapshot] /\ meta \in Meta
      /\ meta.version \in Versions /\ pc \in [Procs -> {Idle} \cup Mutating \cup Building]
  BY DEF SnapInv, AppendInv, HistoryInv, TypeOK, Meta
<1>1. /\ pc[p] = "copy_files" /\ meta' = meta /\ plan' = plan /\ plan[p] = meta
      /\ pc'[p] = "load"
  BY <1>0 DEF WriteManifest, Goto, Snapping, Settled, SnapInv, PlanIsMeta
<1>2. ~Complete(snaps[meta.version]) /\ snaps[meta.version].meta = meta
  BY <1>1 DEF SnapInv, SnapshotUnderWay, Snapping
<1> DEFINE old == snaps[meta.version]
           m   == [version |-> meta.version, status |-> meta.status, sha |-> meta.sha]
           s   == [old EXCEPT !.manifest = m]
<1>3. snaps' = [snaps EXCEPT ![meta.version] = s]
  BY <1>0, <1>1 DEF WriteManifest
<1>4. s.meta = meta /\ s.manifest = m
  BY <1>0, <1>2 DEF Snapshot
<1> HIDE DEF s
<1>5. snaps'[meta.version] = s /\ \A v \in Versions \ {meta.version} : snaps'[v] = snaps[v]
  BY <1>0, <1>3
<1>6. PlanIsMeta' /\ SnapshotUnderWay'
  BY <1>1 DEF SingleWriter, PlanIsMeta, SnapshotUnderWay, Settled, Snapping
<1>7. NoneAhead' /\ Immutable
  BY <1>0, <1>1, <1>2, <1>5 DEF SnapInv, NoneAhead, Immutable, Complete, Versions
<1>8. SnapshotConsistent'
  <2>1. meta # Nil /\ Extends(meta, meta)
    BY <1>0, NilAssumption DEF Extends, Versions
  <2>2. \A v \in Versions \ {meta.version} : Complete(snaps'[v]) => Complete(snaps[v])
    BY <1>5
  <2>. QED
    BY <1>1, <1>4, <1>5, <2>1, <2>2 DEF SnapInv, SnapshotConsistent, Complete, Extends
<1>. QED
  BY <1>6, <1>7, <1>8 DEF SnapStep

\* plan.yaml moves on: what was true of the older versions' snapshots stays true.
LEMMA CommitSteps ==
  ASSUME SingleWriter, SnapInv, [Next]_vars, NEW p \in Procs, WriteMetadata(p) \/ SaveRendered(p)
  PROVE  SnapStep
<1>0. /\ TypeOK /\ snaps \in [Versions -> Snapshot] /\ meta \in Meta
      /\ meta.version \in Versions /\ pc \in [Procs -> {Idle} \cup Mutating \cup Building]
      /\ plan \in [Procs -> Meta \cup {Nil}]
  BY DEF SnapInv, AppendInv, HistoryInv, TypeOK, Meta
<1>1. snaps' = snaps /\ plan[p] \in Meta /\ plan[p].version = meta.version
  BY DEF WriteMetadata, SaveRendered, SnapInv, AppendInv, HistoryInv, PlanHeld, Synced, Holds, Idle
<1>2. meta' \in Meta /\ meta'.version \in Versions /\ Extends(meta', meta)
  BY AppendStep, HistoryInvNext DEF SnapInv, AppendInv, HistoryInv, TypeOK, Meta
<1>3. Immutable
  BY <1>1 DEF Immutable
<1>4. SnapshotConsistent'
  <2>1. ASSUME NEW v \in Versions, Complete(snaps[v])
        PROVE  Extends(meta', snaps[v].meta)
    <3>1. snaps[v].meta # Nil /\ Extends(meta, snaps[v].meta)
      BY <2>1 DEF SnapInv, SnapshotConsistent
    <3>2. snaps[v].meta.version \in Nat
      BY <1>0, <3>1 DEF Snapshot, Meta, Versions
    <3>. QED
      BY <1>0, <1>2, <3>1, <3>2, ExtendsTransitive DEF Versions
  <2>. QED
    BY <1>1, <2>1 DEF SnapInv, SnapshotConsistent, Complete, Extends
<1>5. CASE WriteMetadata(p)
  <2>1. plan'[p] = meta' /\ pc'[p] = "snapshot" /\ meta'.version = meta.version + 1
    BY <1>0, <1>1, <1>5 DEF WriteMetadata, Goto, Bump, Meta
  <2>2. PlanIsMeta'
    BY <2>1 DEF SingleWriter, PlanIsMeta
  <2>3. NoneAhead'
    BY <1>0, <1>1, <2>1 DEF SnapInv, NoneAhead, Complete, Versions
  <2>4. ~Complete(snaps'[meta'.version])
    BY <1>0, <1>1, <1>2, <2>1 DEF SnapInv, NoneAhead, Versions
  <2>5. SnapshotUnderWay'
    BY <2>1, <2>4 DEF SingleWriter, SnapshotUnderWay, Complete, Snapping
  <2>. QED
    BY <1>3, <1>4, <2>2, <2>3, <2>5 DEF SnapStep
<1>6. CASE SaveRendered(p)
  <2>1. pc'[p] = Idle /\ meta'.version = meta.version
    BY <1>0, <1>1, <1>6 DEF SaveRendered, Finish, Meta
  <2>2. PlanIsMeta' /\ SnapshotUnderWay'
    BY <2>1 DEF SingleWriter, PlanIsMeta, SnapshotUnderWay, Settled, Snapping, Idle
  <2>3. NoneAhead'
    BY <1>1, <2>1 DEF SnapInv, NoneAhead, Complete
  <2>. QED
    BY <1>3, <1>4, <2>2, <2>3 DEF SnapStep
<1>. QED
  BY <1>5, <1>6

LEMMA SnapInvStep == ASSUME SingleWriter, SnapInv, [Next]_vars PROVE SnapInv' /\ Immutable
<1>0. /\ TypeOK /\ pc \in [Procs -> {Idle} \cup Mutating \cup Building]
      /\ plan \in [Procs -> Meta \cup {Nil}]
  BY DEF SnapInv, AppendInv, HistoryInv, TypeOK
<1>1. ASSUME NEW p \in Procs,
             \/ RefuseCancelled(p) \/ RefuseTransition(p) \/ RefuseDone(p)
             \/ CopyFails(p) \/ RefuseBuild(p) \/ Crash(p)
      PROVE  SnapStep
  <2>1. meta' = meta /\ snaps' = snaps /\ pc'[p] = Idle
    BY <1>0, <1>1 DEF Finish, disk, RefuseCancelled, RefuseTransition, RefuseDone, CopyFails,
                      RefuseBuild, Crash
  <2>. QED
    BY <2>1, SnapshotsKept DEF Settled, Snapping, Idle
<1>2. ASSUME NEW p \in Procs,
             \/ BeginMutation(p) \/ AcceptMutation(p) \/ WriteComponent(p)
             \/ BeginBuild(p) \/ SkipMutation(p)
      PROVE  SnapStep
  <2>1. meta' = meta /\ snaps' = snaps /\ pc'[p] \in {"read", "write", "load"}
    BY <1>0, <1>2 DEF Goto, disk, BeginMutation, AcceptMutation, WriteComponent, BeginBuild,
                      SkipMutation
  <2>. QED
    BY <2>1, SnapshotsKept DEF Settled, Snapping
<1>3. ASSUME NEW p \in Procs, LoadForBuild(p) PROVE SnapStep
  <2>1. meta' = meta /\ snaps' = snaps /\ pc'[p] = "validate" /\ plan'[p] = meta
    BY <1>0, <1>3 DEF Goto, disk, LoadForBuild
  <2>. QED
    BY <2>1, SnapshotsKept DEF Settled, Snapping
<1>4. ASSUME NEW p \in Procs,
             ReadText(p) \/ StartRender(p) \/ WriteVersioned(p) \/ WriteLatest(p)
      PROVE  SnapStep
  <2>1. /\ meta' = meta /\ snaps' = snaps /\ plan' = plan
        /\ pc'[p] \in {"render", "latest", "save"} \/ pc' = pc
        /\ pc[p] \in {"read", "validate", "render", "latest"}
        /\ pc'[p] \in Settled => pc[p] \in Settled
    BY <1>0, <1>4 DEF Goto, disk, Validated, ReadText, StartRender, WriteVersioned, WriteLatest,
                      Settled
  <2>2. pc'[p] \in Settled => plan'[p] = meta
    BY <2>1 DEF SnapInv, PlanIsMeta
  <2>. QED
    BY <2>1, <2>2, SnapshotsKept DEF Snapping
<1>5. ASSUME UNCHANGED vars PROVE SnapStep
  BY <1>5 DEF vars, SnapStep, SnapInv, PlanIsMeta, NoneAhead, SnapshotUnderWay,
              SnapshotConsistent, Complete, Extends, Immutable
<1>6. ASSUME NEW p \in Procs, Begin(p) \/ Step(p) \/ Crash(p) PROVE SnapStep
  BY <1>1, <1>2, <1>3, <1>4, <1>6, CopyingSteps, ManifestStep, CommitSteps DEF Begin, Step
<1>7. SnapStep
  BY <1>5, <1>6 DEF Next
<1>8. AppendInv'
  BY HistoryInvNext, AppendStep DEF SnapInv, AppendInv
<1>. QED
  BY <1>7, <1>8 DEF SnapInv, SnapStep

\* With one writer at a time, however often it crashes, a snapshot that has its
\* manifest is a snapshot of the version it is named after: snapshot_version
\* copies plan.yaml between the write of that version and any later one.
THEOREM SnapshotsAlwaysConsistent ==
  ASSUME SingleWriter PROVE Spec => []SnapshotConsistent
<1>1. SnapInv => SnapshotConsistent
  BY DEF SnapInv
<1>2. SnapInv /\ [Next]_vars => SnapInv'
  BY SnapInvStep
<1>. QED
  BY <1>1, <1>2, SnapInvInit, PTL DEF Spec

\* With one writer at a time, however often it crashes, a finished snapshot is
\* never removed or overwritten: a version is committed once, so the rmtree of
\* snapshot_version only ever meets what a crash left behind.
THEOREM SingleWriterSnapshotsImmutable ==
  ASSUME SingleWriter PROVE Spec => SnapshotsImmutable
<1>1. SnapInv /\ [Next]_vars => SnapInv'
  BY SnapInvStep
<1>2. SnapInv /\ [Next]_vars => [\A v \in Versions : Complete(snaps[v]) => snaps'[v] = snaps[v]]_vars
  BY SnapInvStep DEF Immutable
<1>. QED
  BY <1>1, <1>2, SnapInvInit, PTL DEF Spec, SnapshotsImmutable

-----------------------------------------------------------------------------
(* Every crash costs at most one version its snapshot *)

\* The version whose snapshot is being made, which is not lost yet.
UnderWay == IF \E p \in Procs : pc[p] \in Snapping THEN {meta.version} ELSE {}

GapsCounted == Cardinality(MissingSnapshots \ UnderWay) <= crashes

GapInv == SnapInv /\ GapsCounted

LEMMA VersionsFinite ==
  ASSUME NEW n \in Versions, NEW S \in SUBSET (1 .. n)
  PROVE  IsFiniteSet(S) /\ Cardinality(S) \in Nat
<1>1. IsFiniteSet(1 .. n)
  BY FS_Interval DEF Versions
<1>. QED
  BY <1>1, FS_Subset, FS_CardinalityType

LEMMA OneMore ==
  ASSUME NEW S, NEW x, IsFiniteSet(S)
  PROVE  /\ IsFiniteSet(S \cup {x})
         /\ Cardinality(S \cup {x}) \in Nat
         /\ Cardinality(S \cup {x}) <= Cardinality(S) + 1
<1>1. /\ IsFiniteSet(S \cup {x})
      /\ Cardinality(S \cup {x}) = IF x \in S THEN Cardinality(S) ELSE Cardinality(S) + 1
  BY FS_AddElement
<1>2. Cardinality(S) \in Nat /\ Cardinality(S \cup {x}) \in Nat
  BY <1>1, FS_CardinalityType
<1>. QED
  BY <1>1, <1>2

LEMMA GapInvInit == Init => GapInv
<1> SUFFICES ASSUME Init PROVE GapInv
  OBVIOUS
<1>1. SnapInv /\ TypeOK
  BY SnapInvInit DEF SnapInv, AppendInv, HistoryInv
<1>2. PICK s \in Statuses, k \in InitialContents :
        /\ meta = FirstMeta(s, k, 1)
        /\ snaps = [v \in Versions |-> IF v = 1 THEN FullSnap(FirstMeta(s, k, 0), k) ELSE NoSnap]
        /\ crashes = 0
  BY DEF Init
<1>3. meta.version = 1 /\ 1 \in Versions /\ k \in Contents
  BY <1>1, <1>2, BoundsAssumption DEF FirstMeta, Versions, TypeOK, Meta
<1>4. FullSnap(FirstMeta(s, k, 0), k).manifest = [version |-> 1, status |-> s, sha |-> k]
  BY DEF FullSnap, FirstMeta
<1>5. [version |-> 1, status |-> s, sha |-> k] \in Manifest
  BY <1>3 DEF Manifest
<1>6. Complete(snaps[1])
  BY <1>2, <1>3, <1>4, <1>5, NilAssumption DEF Complete
<1>7. MissingSnapshots \ UnderWay = {}
  BY <1>3, <1>6 DEF MissingSnapshots
<1>. QED
  BY <1>1, <1>2, <1>7, FS_EmptySet DEF GapInv, GapsCounted

LEMMA GapStep ==
  ASSUME SingleWriter, GapInv, [Next]_vars PROVE GapsCounted'
<1>0. /\ TypeOK /\ meta.version \in Versions /\ meta \in Meta /\ crashes \in Nat
      /\ plan \in [Procs -> Meta \cup {Nil}] /\ snaps \in [Versions -> Snapshot]
      /\ pc \in [Procs -> {Idle} \cup Mutating \cup Building]
      /\ Cardinality(MissingSnapshots \ UnderWay) <= crashes
  BY BoundsAssumption
     DEF GapInv, GapsCounted, SnapInv, AppendInv, HistoryInv, TypeOK, Meta
<1>1. meta'.version \in Versions /\ crashes' \in Nat
  BY SnapInvStep, BoundsAssumption DEF GapInv, SnapInv, AppendInv, HistoryInv, TypeOK, Meta
<1>2. /\ IsFiniteSet(MissingSnapshots \ UnderWay)
      /\ Cardinality(MissingSnapshots \ UnderWay) \in Nat
      /\ IsFiniteSet((MissingSnapshots \ UnderWay)')
      /\ Cardinality((MissingSnapshots \ UnderWay)') \in Nat
  <2>1. MissingSnapshots \ UnderWay \in SUBSET (1 .. meta.version)
    BY DEF MissingSnapshots
  <2>2. (MissingSnapshots \ UnderWay)' \in SUBSET (1 .. meta'.version)
    BY DEF MissingSnapshots
  <2>. QED
    BY <1>0, <1>1, <2>1, <2>2, VersionsFinite
<1>3. ASSUME crashes' >= crashes,
             (MissingSnapshots \ UnderWay)' \subseteq MissingSnapshots \ UnderWay
      PROVE  GapsCounted'
  BY <1>0, <1>1, <1>2, <1>3, FS_Subset DEF GapsCounted
<1>4. ASSUME NEW p \in Procs, Crash(p) PROVE GapsCounted'
  <2>1. crashes' = crashes + 1 /\ MissingSnapshots' = MissingSnapshots
    BY <1>4 DEF Crash, MissingSnapshots, Complete
  <2>2. (MissingSnapshots \ UnderWay)' \subseteq (MissingSnapshots \ UnderWay) \cup {meta.version}
    BY <2>1 DEF UnderWay
  <2>3. /\ IsFiniteSet((MissingSnapshots \ UnderWay) \cup {meta.version})
        /\ Cardinality((MissingSnapshots \ UnderWay) \cup {meta.version})
             <= Cardinality(MissingSnapshots \ UnderWay) + 1
    BY <1>2, OneMore
  <2>4. /\ Cardinality((MissingSnapshots \ UnderWay) \cup {meta.version}) \in Nat
        /\ Cardinality((MissingSnapshots \ UnderWay)')
            <= Cardinality((MissingSnapshots \ UnderWay) \cup {meta.version})
    BY <1>2, <2>2, <2>3, OneMore, FS_Subset
  <2>. QED
    BY <1>0, <1>2, <2>1, <2>3, <2>4 DEF GapsCounted
<1>5. ASSUME NEW p \in Procs, WriteMetadata(p) PROVE GapsCounted'
  <2>1. /\ pc[p] = "write" /\ pc'[p] = "snapshot" /\ snaps' = snaps /\ crashes' = crashes
        /\ meta' = Bump(plan[p], NextStatus(p), p)
    BY <1>0, <1>5 DEF WriteMetadata, Goto
  <2>2. plan[p] \in Meta /\ plan[p].version = meta.version
    BY <2>1 DEF GapInv, SnapInv, AppendInv, HistoryInv, PlanHeld, Synced, Holds, Idle
  <2>3. meta'.version = meta.version + 1
    BY <2>1, <2>2 DEF Bump, Meta
  <2>4. UnderWay' = {meta'.version} /\ UnderWay = {}
    BY <2>1 DEF SingleWriter, UnderWay, Snapping
  <2>5. MissingSnapshots' \subseteq MissingSnapshots \cup {meta'.version}
    BY <1>0, <2>1, <2>3 DEF MissingSnapshots, Complete, Versions
  <2>. QED
    BY <1>0, <1>3, <2>1, <2>4, <2>5
<1>6. ASSUME NEW p \in Procs, WriteManifest(p) PROVE GapsCounted'
  <2>1. /\ pc[p] = "copy_files" /\ plan[p] = meta /\ meta' = meta /\ crashes' = crashes
        /\ plan[p].version \in Versions
    BY <1>0, <1>6 DEF WriteManifest, GapInv, SnapInv, PlanIsMeta, Settled, Snapping
  <2>2. UnderWay = {meta.version}
    BY <2>1 DEF UnderWay, Snapping
  <2> DEFINE m == [version |-> meta.version, status |-> meta.status, sha |-> meta.sha]
             s == [snaps[meta.version] EXCEPT !.manifest = m]
  <2>3. snaps' = [snaps EXCEPT ![meta.version] = s]
    BY <1>6, <2>1 DEF WriteManifest
  <2>4. m \in Manifest
    BY <1>0 DEF Meta, Manifest
  <2>5. s.manifest = m
    BY <1>0 DEF Snapshot
  <2> HIDE DEF m, s
  <2>6. snaps'[meta.version] = s /\ \A v \in Versions \ {meta.version} : snaps'[v] = snaps[v]
    BY <1>0, <2>3
  <2>7. Complete(snaps'[meta.version])
    BY <2>4, <2>5, <2>6, NilAssumption DEF Complete
  <2>8. MissingSnapshots' \subseteq MissingSnapshots \ {meta.version}
    <3> SUFFICES ASSUME NEW v \in 1 .. meta.version, ~Complete(snaps'[v])
                 PROVE  v # meta.version /\ ~Complete(snaps[v])
      BY <2>1 DEF MissingSnapshots, Complete
    <3>1. v \in Versions
      BY <1>0, BoundsAssumption DEF Versions
    <3>. QED
      BY <2>6, <2>7, <3>1
  <2>. QED
    BY <1>0, <1>3, <2>1, <2>2, <2>8
<1>7. ASSUME NEW p \in Procs,
             \/ ResetSnapshot(p) \/ CopyMetadata(p) \/ MakeTree(p) \/ CopyFile(p)
      PROVE  GapsCounted'
  <2>1. /\ pc[p] \in Snapping /\ pc'[p] \in Snapping /\ meta' = meta /\ crashes' = crashes
        /\ plan[p] = meta
    BY <1>0, <1>7 DEF Goto, ResetSnapshot, CopyMetadata, MakeTree, CopyFile, Snapping, Settled,
                      GapInv, SnapInv, PlanIsMeta
  <2>2. UnderWay' = {meta.version} /\ UnderWay = {meta.version}
    BY <2>1 DEF UnderWay
  <2>3. \A v \in Versions \ {meta.version} : snaps'[v] = snaps[v]
    BY <1>0, <1>7, <2>1 DEF ResetSnapshot, CopyMetadata, MakeTree, CopyFile
  <2>4. MissingSnapshots' \subseteq MissingSnapshots \cup {meta.version}
    <3> SUFFICES ASSUME NEW v \in 1 .. meta.version, v # meta.version, ~Complete(snaps'[v])
                 PROVE  ~Complete(snaps[v])
      BY <2>1 DEF MissingSnapshots, Complete
    <3>1. v \in Versions
      BY <1>0, BoundsAssumption DEF Versions
    <3>. QED
      BY <2>3, <3>1
  <2>. QED
    BY <1>0, <1>3, <2>1, <2>2, <2>4
<1>8. ASSUME NEW p \in Procs, CopyFails(p) PROVE FALSE
  <2>1. pc[p] \in {"copy_tree", "copy_files"} /\ plan[p] = meta
    BY <1>8 DEF CopyFails, GapInv, SnapInv, PlanIsMeta, Settled, Snapping
  <2>. QED
    BY <1>8, <2>1 DEF CopyFails, GapInv, SnapInv, SnapshotUnderWay
<1>9. ASSUME meta'.version = meta.version, snaps' = snaps, crashes' = crashes,
             (\E p \in Procs : pc[p] \in Snapping) => (\E p \in Procs : pc'[p] \in Snapping)
      PROVE  GapsCounted'
  <2>1. MissingSnapshots' = MissingSnapshots
    BY <1>9 DEF MissingSnapshots, Complete
  <2>2. UnderWay \subseteq UnderWay'
    BY <1>9 DEF UnderWay
  <2>. QED
    BY <1>0, <1>3, <1>9, <2>1, <2>2
<1>10. ASSUME NEW p \in Procs,
              \/ RefuseCancelled(p) \/ BeginMutation(p) \/ BeginBuild(p) \/ ReadText(p)
              \/ RefuseTransition(p) \/ RefuseDone(p) \/ SkipMutation(p) \/ AcceptMutation(p)
              \/ WriteComponent(p) \/ LoadForBuild(p) \/ RefuseBuild(p) \/ StartRender(p)
              \/ WriteVersioned(p) \/ WriteLatest(p)
       PROVE  GapsCounted'
  <2>1. meta' = meta /\ snaps' = snaps /\ crashes' = crashes /\ pc[p] \notin Snapping
    BY <1>10 DEF disk, Decided, Validated, Snapping, Idle, RefuseCancelled, BeginMutation,
         BeginBuild, ReadText, RefuseTransition, RefuseDone, SkipMutation, AcceptMutation,
         WriteComponent, LoadForBuild, RefuseBuild, StartRender, WriteVersioned, WriteLatest
  <2>. QED
    BY <1>9, <2>1 DEF SingleWriter
<1>11. ASSUME NEW p \in Procs, SaveRendered(p) PROVE GapsCounted'
  <2>1. pc[p] = "save" /\ plan[p] = meta /\ snaps' = snaps /\ crashes' = crashes
        /\ meta' = [plan[p] EXCEPT !.rendered = plan[p].version]
    BY <1>11 DEF SaveRendered, GapInv, SnapInv, PlanIsMeta, Settled
  <2>2. meta'.version = meta.version
    BY <1>0, <2>1 DEF Meta
  <2>. QED
    BY <1>9, <2>1, <2>2 DEF SingleWriter, Snapping
<1>12. ASSUME UNCHANGED vars PROVE GapsCounted'
  BY <1>9, <1>12 DEF vars
<1>13. ASSUME NEW p \in Procs, Begin(p) \/ Step(p) \/ Crash(p) PROVE GapsCounted'
  BY <1>4, <1>5, <1>6, <1>7, <1>8, <1>10, <1>11, <1>13 DEF Begin, Step
<1>. QED
  BY <1>12, <1>13 DEF Next

\* With one writer at a time, when no command is running, there are at most as
\* many versions without a finished snapshot as there were crashes: nothing but a
\* crash between the write of plan.yaml and that of manifest.yaml loses one.
THEOREM CrashesBoundTheGaps ==
  ASSUME SingleWriter PROVE Spec => []OneGapPerCrash
<1>1. GapInv /\ [Next]_vars => GapInv'
  BY SnapInvStep, GapStep DEF GapInv
<1>2. GapInv => OneGapPerCrash
  <2> SUFFICES ASSUME GapInv, Quiescent PROVE Cardinality(MissingSnapshots) <= crashes
    BY DEF OneGapPerCrash
  <2>1. UnderWay = {}
    BY DEF UnderWay, Quiescent, Snapping, Idle
  <2>2. MissingSnapshots \ UnderWay = MissingSnapshots
    BY <2>1
  <2>. QED
    BY <2>2 DEF GapInv, GapsCounted
<1>. QED
  BY <1>1, <1>2, GapInvInit, PTL DEF Spec

-----------------------------------------------------------------------------
(* The handoffs *)

\* What has been read is what is on disk: nobody else writes.
TextsRead == \A p \in Procs :
  /\ pc[p] \in {"read", "validate"} =>
       \A c \in Components \ todo[p] : seen[p][c] = content[c]
  /\ pc[p] \in {"render", "latest", "save"} =>
       \A c \in RenderedComponents \ todo[p] : seen[p][c] = content[c]
  /\ pc[p] \in {"latest", "save"} => todo[p] = {}

\* The texts that were validated are still those on disk.
BuildGate == \A p \in Procs :
  pc[p] \in {"render", "latest", "save"} => BuildAllowed(meta.status, content)

\* The files a build has written, until the next command, are of the plan as it is.
HandoffUnderWay == \A p \in Procs :
  LET done == pc[p] = Idle /\ result[p] = "ok"
  IN  /\ pc[p] \in {"latest", "save"} \/ done => rendered[meta.version] = DocOf(meta, content)
      /\ pc[p] = "save" \/ done => latest = DocOf(meta, content)

HandoffInv == SnapInv /\ TextsRead /\ BuildGate /\ HandoffSound /\ HandoffUnderWay

HandoffStep == TextsRead' /\ BuildGate' /\ HandoffSound' /\ HandoffUnderWay'

\* A handoff shows fewer components than were validated.
LEMMA FewerComponents ==
  ASSUME NEW k \in Contents, NEW s, BuildAllowed(s, k)
  PROVE  BuildAllowed(s, Restrict(k, RenderedComponents))
<1> DEFINE r == Restrict(k, RenderedComponents)
<1>1. DOMAIN k = Components /\ DOMAIN r = RenderedComponents
  BY DEF Contents, Restrict
<1>2. \A c \in RenderedComponents : c \in Components /\ r[c] = k[c]
  BY DEF Restrict, RenderedComponents
<1> HIDE DEF r
<1>3. RequiredFilled(k) => RequiredFilled(r)
  BY <1>1, <1>2 DEF RequiredFilled
<1>4. HandoffReady(k) => HandoffReady(r)
  BY <1>1, <1>2 DEF HandoffReady, HasLine
<1>5. BuildAllowed(s, r)
  BY <1>3, <1>4 DEF BuildAllowed
<1>. QED
  BY <1>5 DEF r

LEMMA CurrentDoc ==
  ASSUME HandoffInv, NEW p \in Procs, pc[p] \in {"render", "latest", "save"}, todo[p] = {}
  PROVE  /\ DocOf(plan[p], seen[p]) = DocOf(meta, content)
         /\ BuildAllowed(DocOf(meta, content).status, DocOf(meta, content).contents)
<1>1. plan[p] = meta
  BY DEF HandoffInv, SnapInv, PlanIsMeta, Settled
<1>2. \A c \in RenderedComponents : seen[p][c] = content[c]
  BY DEF HandoffInv, TextsRead
<1>3. Restrict(seen[p], RenderedComponents) = Restrict(content, RenderedComponents)
  BY <1>2 DEF Restrict
<1>4. BuildAllowed(meta.status, content) /\ content \in Contents
  BY DEF HandoffInv, BuildGate, SnapInv, AppendInv, HistoryInv, TypeOK
<1>5. BuildAllowed(meta.status, Restrict(content, RenderedComponents))
  BY <1>4, FewerComponents
<1>. QED
  BY <1>1, <1>3, <1>5 DEF DocOf

\* Sound is what the handoff validator would accept, or no handoff at all.
SoundFile(d) == d \in {Nil, Torn} \/ BuildAllowed(d.status, d.contents)

LEMMA SoundFiles ==
  ASSUME TypeOK
  PROVE  HandoffSound <=> (\A v \in Versions : SoundFile(rendered[v])) /\ SoundFile(latest)
<1>1. Range(rendered) = {rendered[v] : v \in Versions}
  BY DEF TypeOK, Range
<1>. QED
  BY <1>1 DEF HandoffSound, SoundFile

LEMMA FilesStaySound ==
  ASSUME HandoffInv, TypeOK', NEW d, SoundFile(d),
         \A v \in Versions : rendered'[v] = rendered[v] \/ rendered'[v] = d,
         latest' = latest \/ latest' = d
  PROVE  HandoffSound'
<1>1. (\A v \in Versions : SoundFile(rendered[v])) /\ SoundFile(latest)
  BY SoundFiles DEF HandoffInv, SnapInv, AppendInv, HistoryInv
<1>2. (\A v \in Versions : SoundFile(rendered'[v])) /\ SoundFile(latest')
  BY <1>1
<1>3. Range(rendered') = {rendered'[v] : v \in Versions}
  BY DEF TypeOK, Range
<1>. QED
  BY <1>2, <1>3 DEF HandoffSound, SoundFile

LEMMA HandoffInvInit == Init => HandoffInv
<1> SUFFICES ASSUME Init PROVE HandoffInv
  OBVIOUS
<1>1. SnapInv /\ TypeOK
  BY SnapInvInit DEF SnapInv, AppendInv, HistoryInv
<1>2. PICK s \in Statuses, k \in InitialContents :
        /\ s = "done" => DoneAllowed(k)
        /\ meta = FirstMeta(s, k, 1)
        /\ content = k
        /\ rendered = [v \in Versions |-> IF v = 1 THEN DocOf(FirstMeta(s, k, 1), k) ELSE Nil]
        /\ latest = DocOf(FirstMeta(s, k, 1), k)
        /\ pc = [p \in Procs |-> Idle]
        /\ result = [p \in Procs |-> "none"]
  BY DEF Init
<1>3. TextsRead /\ BuildGate /\ HandoffUnderWay
  BY <1>2 DEF TextsRead, BuildGate, HandoffUnderWay, Idle
<1>4. BuildAllowed(s, k) /\ k \in Contents
  BY <1>1, <1>2 DEF DoneAllowed, BuildAllowed, TypeOK
<1>5. BuildAllowed(s, Restrict(k, RenderedComponents))
  BY <1>4, FewerComponents
<1>6. SoundFile(DocOf(FirstMeta(s, k, 1), k)) /\ SoundFile(Nil)
  BY <1>5 DEF SoundFile, DocOf, FirstMeta
<1>7. HandoffSound
  BY <1>1, <1>2, <1>6, SoundFiles
<1>. QED
  BY <1>1, <1>3, <1>7 DEF HandoffInv

LEMMA HandoffStepKept == ASSUME SingleWriter, HandoffInv, [Next]_vars PROVE HandoffStep
<1>0. /\ TypeOK /\ TypeOK' /\ meta \in Meta /\ meta.version \in Versions
      /\ pc \in [Procs -> {Idle} \cup Mutating \cup Building]
      /\ result \in [Procs -> Results] /\ todo \in [Procs -> SUBSET Components]
      /\ rendered \in [Versions -> Doc \cup {Nil, Torn}] /\ seen \in [Procs -> Contents]
  BY HistoryInvNext DEF HandoffInv, SnapInv, AppendInv, HistoryInv, TypeOK, Meta
<1>1. ASSUME rendered' = rendered, latest' = latest PROVE HandoffSound'
  BY <1>1 DEF HandoffInv, HandoffSound
\* Between commands, and on the way to a build, nothing is promised.
<1>2. ASSUME NEW p \in Procs,
             \/ pc'[p] = Idle /\ result'[p] # "ok"
             \/ pc'[p] \in {"write", "load"} \cup Snapping
             \/ pc'[p] \in {"read", "validate"} /\ todo'[p] = Components
      PROVE  TextsRead' /\ BuildGate' /\ HandoffUnderWay'
  BY <1>2 DEF SingleWriter, TextsRead, BuildGate, HandoffUnderWay, Snapping, Idle
<1>3. ASSUME NEW p \in Procs,
             \/ RefuseCancelled(p) \/ RefuseTransition(p) \/ RefuseDone(p)
             \/ CopyFails(p) \/ RefuseBuild(p)
      PROVE  HandoffStep
  <2>1. rendered' = rendered /\ latest' = latest /\ pc'[p] = Idle /\ result'[p] # "ok"
    BY <1>0, <1>3 DEF Finish, disk, RefuseCancelled, RefuseTransition, RefuseDone, CopyFails,
                      RefuseBuild
  <2>. QED
    BY <1>1, <1>2, <2>1 DEF HandoffStep
<1>4. ASSUME NEW p \in Procs, Crash(p) PROVE HandoffStep
  <2>1. pc'[p] = Idle /\ result'[p] # "ok"
    BY <1>0, <1>4 DEF Finish, Crash
  <2>2. /\ \A v \in Versions : rendered'[v] = rendered[v] \/ rendered'[v] = Torn
        /\ latest' = latest \/ latest' = Torn
    BY <1>0, <1>4 DEF Crash
  <2>3. HandoffSound'
    BY <1>0, <2>2, FilesStaySound DEF SoundFile
  <2>. QED
    BY <1>2, <2>1, <2>3 DEF HandoffStep
<1>5. ASSUME NEW p \in Procs,
             \/ BeginMutation(p) \/ BeginBuild(p) \/ SkipMutation(p) \/ AcceptMutation(p)
             \/ WriteComponent(p) \/ WriteMetadata(p) \/ LoadForBuild(p)
      PROVE  HandoffStep
  <2>1. /\ rendered' = rendered /\ latest' = latest
        /\ \/ pc'[p] \in {"write", "load", "snapshot"}
           \/ pc'[p] \in {"read", "validate"} /\ todo'[p] = Components
    BY <1>0, <1>5 DEF Goto, disk, BeginMutation, BeginBuild, SkipMutation, AcceptMutation,
                      WriteComponent, WriteMetadata, LoadForBuild
  <2>. QED
    BY <1>1, <1>2, <2>1 DEF HandoffStep, Snapping
<1>6. ASSUME NEW p \in Procs,
             \/ ResetSnapshot(p) \/ CopyMetadata(p) \/ MakeTree(p) \/ CopyFile(p)
             \/ WriteManifest(p)
      PROVE  HandoffStep
  <2>1. rendered' = rendered /\ latest' = latest /\ pc'[p] \in Snapping \cup {"load"}
    BY <1>0, <1>6 DEF Goto, ResetSnapshot, CopyMetadata, MakeTree, CopyFile, WriteManifest,
                      Snapping
  <2>. QED
    BY <1>1, <1>2, <2>1 DEF HandoffStep
<1>7. ASSUME NEW p \in Procs, ReadText(p) PROVE HandoffStep
  <2>1. PICK c \in todo[p] : /\ seen' = [seen EXCEPT ![p][c] = content[c]]
                             /\ todo' = [todo EXCEPT ![p] = @ \ {c}]
    BY <1>7 DEF ReadText
  <2>2. /\ pc[p] \in {"read", "validate", "render"} /\ pc' = pc /\ meta' = meta
        /\ content' = content /\ rendered' = rendered /\ latest' = latest /\ result' = result
    BY <1>7 DEF ReadText, disk
  <2>3. /\ todo'[p] = todo[p] \ {c}
        /\ \A d \in Components : seen'[p][d] = IF d = c THEN content[c] ELSE seen[p][d]
    BY <1>0, <2>1 DEF Contents
  <2>4. TextsRead'
    <3>1. ASSUME pc[p] \in {"read", "validate"}, NEW d \in Components \ todo'[p]
          PROVE  seen'[p][d] = content'[d]
      BY <2>2, <2>3, <3>1 DEF HandoffInv, TextsRead
    <3>2. ASSUME pc[p] = "render", NEW d \in RenderedComponents \ todo'[p]
          PROVE  seen'[p][d] = content'[d]
      BY <2>2, <2>3, <3>2 DEF HandoffInv, TextsRead, RenderedComponents
    <3>. QED
      BY <2>2, <3>1, <3>2 DEF SingleWriter, TextsRead
  <2>5. BuildGate' /\ HandoffUnderWay'
    BY <2>2 DEF HandoffInv, BuildGate, HandoffUnderWay
  <2>. QED
    BY <1>1, <2>2, <2>4, <2>5 DEF HandoffStep
<1>8. ASSUME NEW p \in Procs, StartRender(p) PROVE HandoffStep
  <2>1. /\ pc[p] = "validate" /\ todo[p] = {} /\ BuildAllowed(plan[p].status, seen[p])
        /\ pc'[p] = "render" /\ todo'[p] = RenderedComponents /\ meta' = meta
        /\ content' = content /\ rendered' = rendered /\ latest' = latest
    BY <1>0, <1>8 DEF StartRender, Validated, Goto, disk
  <2>2. seen[p] \in Contents /\ content \in Contents
    BY <1>0 DEF TypeOK
  <2>3. \A c \in Components : seen[p][c] = content[c]
    BY <2>1 DEF HandoffInv, TextsRead
  <2>4. seen[p] = content
    BY <2>2, <2>3 DEF Contents
  <2>5. plan[p] = meta
    BY <2>1 DEF HandoffInv, SnapInv, PlanIsMeta, Settled
  <2>6. TextsRead' /\ BuildGate' /\ HandoffUnderWay'
    BY <2>1, <2>4, <2>5 DEF SingleWriter, TextsRead, BuildGate, HandoffUnderWay, Idle
  <2>. QED
    BY <1>1, <2>1, <2>6 DEF HandoffStep
<1>9. ASSUME NEW p \in Procs, WriteVersioned(p) \/ WriteLatest(p) PROVE HandoffStep
  <2> DEFINE d == DocOf(meta, content)
  <2>1. /\ pc[p] \in {"render", "latest"} /\ todo[p] = {} /\ pc'[p] \in {"latest", "save"}
        /\ UNCHANGED <<meta, content, seen, todo>>
    BY <1>0, <1>9 DEF WriteVersioned, WriteLatest, Goto, HandoffInv, TextsRead
  <2>2. /\ DocOf(plan[p], seen[p]) = d /\ SoundFile(d) /\ plan[p] = meta
    BY <2>1, CurrentDoc DEF SoundFile, HandoffInv, SnapInv, PlanIsMeta, Settled
  <2>3. TextsRead'
    BY <2>1 DEF SingleWriter, HandoffInv, TextsRead
  <2>4. BuildGate'
    BY <2>1 DEF SingleWriter, HandoffInv, BuildGate
  <2>5. CASE WriteVersioned(p)
    <3>1. rendered' = [rendered EXCEPT ![meta.version] = d] /\ latest' = latest /\ pc'[p] = "latest"
      BY <1>0, <2>2, <2>5 DEF WriteVersioned, Goto
    <3> HIDE DEF d
    <3>2. HandoffSound'
      BY <1>0, <2>2, <3>1, FilesStaySound
    <3>3. rendered'[meta.version] = d
      BY <1>0, <3>1
    <3>4. HandoffUnderWay'
      BY <2>1, <3>1, <3>3 DEF SingleWriter, HandoffUnderWay, Idle, d
    <3>. QED
      BY <2>3, <2>4, <3>2, <3>4 DEF HandoffStep
  <2>6. CASE WriteLatest(p)
    <3>1. rendered' = rendered /\ latest' = d /\ pc[p] = "latest" /\ pc'[p] = "save"
      BY <1>0, <2>2, <2>6 DEF WriteLatest, Goto
    <3> HIDE DEF d
    <3>2. HandoffSound'
      BY <1>0, <2>2, <3>1, FilesStaySound
    <3>3. rendered[meta.version] = d
      BY <3>1 DEF HandoffInv, HandoffUnderWay, d
    <3>4. HandoffUnderWay'
      BY <2>1, <3>1, <3>3 DEF SingleWriter, HandoffUnderWay, Idle, d
    <3>. QED
      BY <2>3, <2>4, <3>2, <3>4 DEF HandoffStep
  <2>. QED
    BY <1>9, <2>5, <2>6
<1>10. ASSUME NEW p \in Procs, SaveRendered(p) PROVE HandoffStep
  <2>1. /\ pc[p] = "save" /\ pc'[p] = Idle /\ rendered' = rendered /\ latest' = latest
        /\ content' = content /\ plan[p] = meta
        /\ meta' = [plan[p] EXCEPT !.rendered = plan[p].version]
    BY <1>0, <1>10 DEF SaveRendered, Finish, HandoffInv, SnapInv, PlanIsMeta, Settled
  <2>2. meta'.version = meta.version /\ meta'.status = meta.status
    BY <1>0, <2>1 DEF Meta
  <2>3. DocOf(meta', content') = DocOf(meta, content)
    BY <2>1, <2>2 DEF DocOf
  <2>4. rendered[meta.version] = DocOf(meta, content) /\ latest = DocOf(meta, content)
    BY <2>1 DEF HandoffInv, HandoffUnderWay
  <2>5. TextsRead' /\ BuildGate' /\ HandoffUnderWay'
    BY <2>1, <2>2, <2>3, <2>4 DEF SingleWriter, TextsRead, BuildGate, HandoffUnderWay, Idle
  <2>. QED
    BY <1>1, <2>1, <2>5 DEF HandoffStep
<1>11. ASSUME UNCHANGED vars PROVE HandoffStep
  BY <1>11 DEF vars, HandoffStep, HandoffInv, TextsRead, BuildGate, HandoffSound, HandoffUnderWay
<1>12. ASSUME NEW p \in Procs, Begin(p) \/ Step(p) \/ Crash(p) PROVE HandoffStep
  BY <1>3, <1>4, <1>5, <1>6, <1>7, <1>8, <1>9, <1>10, <1>12 DEF Begin, Step
<1>. QED
  BY <1>11, <1>12 DEF Next

LEMMA HandoffInvNext == ASSUME SingleWriter PROVE HandoffInv /\ [Next]_vars => HandoffInv'
BY SnapInvStep, HandoffStepKept DEF HandoffInv, HandoffStep

\* With one writer at a time, however often it crashes, a rendered handoff that
\* says done holds texts the handoff validator accepts: build_plan reads the
\* components again after validating them, and finds what it validated.
THEOREM SingleWriterHandoffSound ==
  ASSUME SingleWriter PROVE Spec => []HandoffSound
<1>1. HandoffInv => HandoffSound
  BY DEF HandoffInv
<1>. QED
  BY <1>1, HandoffInvInit, HandoffInvNext, PTL DEF Spec

\* With one writer at a time, however often it crashed before, a command that
\* succeeded leaves the current plan in the handoff of its version and in latest.md.
THEOREM SuccessLeavesLatest ==
  ASSUME SingleWriter PROVE Spec => []LatestIsCurrent
<1>1. HandoffInv => LatestIsCurrent
  <2> SUFFICES ASSUME HandoffInv, Quiescent, "ok" \in Range(result)
               PROVE  latest = DocOf(meta, content) /\ latest = rendered[meta.version]
    BY DEF LatestIsCurrent
  <2>1. PICK p \in Procs : result[p] = "ok"
    BY DEF HandoffInv, SnapInv, AppendInv, HistoryInv, TypeOK, Range
  <2>. QED
    BY <2>1 DEF Quiescent, HandoffInv, HandoffUnderWay
<1>. QED
  BY <1>1, HandoffInvInit, HandoffInvNext, PTL DEF Spec

-----------------------------------------------------------------------------
(* The finished snapshots of done versions, wherever the writer crashed *)

\* A version whose snapshot says done passed every done guardrail with the very
\* texts the snapshot holds.
DoneSnapshotsReady ==
  \A v \in Versions :
    Complete(snaps[v]) /\ snaps[v].meta.status = "done" => DoneAllowed(snaps[v].files)

\* What is written so far of the texts that were accepted, and copied so far of
\* those that were committed.
TextsWritten == \A p \in Procs :
  /\ pc[p] = "write" => \A c \in Components \ todo[p] : content[c] = seen[p][c]
  /\ pc[p] = "copy_files" =>
       \A c \in Components \ todo[p] : snaps[meta.version].files[c] = content[c]

\* From the check of a mutation to the end of its snapshot, done is what the gate
\* let through.  (Between commands it need not be: a crash may leave new texts
\* under an old plan.yaml.)
GatePassed == \A p \in Procs :
  /\ pc[p] = "write" /\ NextStatus(p) = "done" => DoneAllowed(seen[p])
  /\ pc[p] \in Snapping /\ meta.status = "done" => DoneAllowed(content)

ReadyInv == HandoffInv /\ TextsWritten /\ GatePassed /\ DoneSnapshotsReady

ReadyStep == TextsWritten' /\ GatePassed' /\ DoneSnapshotsReady'

LEMMA ReadyFacts ==
  ASSUME ReadyInv
  PROVE  /\ TypeOK /\ meta \in Meta /\ meta.version \in Versions /\ content \in Contents
         /\ snaps \in [Versions -> Snapshot] /\ HistoryInv
         /\ pc \in [Procs -> {Idle} \cup Mutating \cup Building]
         /\ plan \in [Procs -> Meta \cup {Nil}]
         /\ seen \in [Procs -> Contents] /\ todo \in [Procs -> SUBSET Components]
BY DEF ReadyInv, HandoffInv, SnapInv, AppendInv, HistoryInv, TypeOK, Meta

LEMMA ReadyInvInit == Init => ReadyInv
<1> SUFFICES ASSUME Init PROVE ReadyInv
  OBVIOUS
<1>1. HandoffInv
  BY HandoffInvInit
<1>2. PICK s \in Statuses, k \in InitialContents :
        /\ s = "done" => DoneAllowed(k)
        /\ snaps = [v \in Versions |-> IF v = 1 THEN FullSnap(FirstMeta(s, k, 0), k) ELSE NoSnap]
        /\ pc = [p \in Procs |-> Idle]
  BY DEF Init
<1>3. TextsWritten /\ GatePassed
  BY <1>2 DEF TextsWritten, GatePassed, Snapping, Idle
<1>4. DoneSnapshotsReady
  <2>1. FullSnap(FirstMeta(s, k, 0), k).meta.status = s /\ FullSnap(FirstMeta(s, k, 0), k).files = k
    BY DEF FullSnap, FirstMeta
  <2>2. ~Complete(NoSnap)
    BY DEF Complete, NoSnap
  <2>. QED
    BY <1>2, <2>1, <2>2 DEF DoneSnapshotsReady
<1>. QED
  BY <1>1, <1>3, <1>4 DEF ReadyInv

\* The gate is passed, and what it let through is written, text by text.
LEMMA ReadyAccept ==
  ASSUME SingleWriter, ReadyInv, NEW p \in Procs, AcceptMutation(p)
  PROVE  ReadyStep
<1>1. /\ pc[p] = "read" /\ todo[p] = {} /\ GateOpen(p)
      /\ pc'[p] = "write" /\ seen'[p] = NextContents(p) /\ todo'[p] = Changed(p)
      /\ UNCHANGED <<meta, content, snaps, cmd, plan>>
  BY ReadyFacts DEF AcceptMutation, Decided, Goto, disk
<1>2. \A c \in Components : seen[p][c] = content[c]
  BY <1>1 DEF ReadyInv, HandoffInv, TextsRead
<1>3. \A c \in Components \ Changed(p) : content[c] = NextContents(p)[c]
  BY <1>2 DEF Changed
<1>4. NextStatus(p)' = NextStatus(p) /\ (NextStatus(p) = "done" => DoneAllowed(NextContents(p)))
  BY <1>1 DEF NextStatus, GateOpen
<1>5. TextsWritten' /\ GatePassed'
  BY <1>1, <1>3, <1>4 DEF SingleWriter, TextsWritten, GatePassed, Snapping
<1>6. DoneSnapshotsReady'
  BY <1>1 DEF ReadyInv, DoneSnapshotsReady, Complete
<1>. QED
  BY <1>5, <1>6 DEF ReadyStep

LEMMA ReadyWrite ==
  ASSUME SingleWriter, ReadyInv, NEW p \in Procs, WriteComponent(p)
  PROVE  ReadyStep
<1>0. /\ content \in Contents /\ seen \in [Procs -> Contents] /\ HistoryInv
      /\ todo \in [Procs -> SUBSET Components] /\ plan \in [Procs -> Meta \cup {Nil}]
  BY ReadyFacts
<1>1. PICK c \in todo[p] :
        /\ content' = [content EXCEPT ![c] = seen[p][c]]
        /\ plan' = [plan EXCEPT ![p].sha[c] = seen[p][c]]
        /\ todo' = [todo EXCEPT ![p] = @ \ {c}]
  BY DEF WriteComponent
<1>2. pc[p] = "write" /\ pc' = pc /\ UNCHANGED <<meta, snaps, cmd, seen>>
  BY DEF WriteComponent
<1>3. plan[p] \in Meta
  BY <1>0, <1>2 DEF HistoryInv, PlanHeld, Holds, Idle
<1>4. NextStatus(p)' = NextStatus(p)
  <2>1. plan'[p].status = plan[p].status
    BY <1>0, <1>1, <1>3 DEF Meta
  <2>. QED
    BY <1>2, <2>1 DEF NextStatus
<1>5. todo'[p] = todo[p] \ {c} /\ \A d \in Components :
        content'[d] = IF d = c THEN seen[p][c] ELSE content[d]
  BY <1>0, <1>1 DEF Contents
<1>6. \A d \in Components \ todo'[p] : content'[d] = seen'[p][d]
  BY <1>2, <1>5 DEF ReadyInv, TextsWritten
<1>7. TextsWritten'
  BY <1>2, <1>6 DEF SingleWriter, TextsWritten
<1>8. GatePassed'
  BY <1>2, <1>4 DEF SingleWriter, ReadyInv, GatePassed, Snapping
<1>9. DoneSnapshotsReady'
  BY <1>2 DEF ReadyInv, DoneSnapshotsReady, Complete
<1>. QED
  BY <1>7, <1>8, <1>9 DEF ReadyStep

LEMMA ReadyCommit ==
  ASSUME SingleWriter, ReadyInv, NEW p \in Procs, WriteMetadata(p)
  PROVE  ReadyStep
<1>0. /\ content \in Contents /\ seen \in [Procs -> Contents] /\ HistoryInv
      /\ pc \in [Procs -> {Idle} \cup Mutating \cup Building]
  BY ReadyFacts
<1>1. /\ pc[p] = "write" /\ todo[p] = {} /\ pc'[p] = "snapshot"
      /\ UNCHANGED <<content, snaps>> /\ meta' = Bump(plan[p], NextStatus(p), p)
  BY <1>0 DEF WriteMetadata, Goto
<1>2. plan[p] \in Meta
  BY <1>0, <1>1 DEF HistoryInv, PlanHeld, Holds, Idle
<1>3. meta'.status = NextStatus(p)
  BY <1>1, <1>2 DEF Bump, Meta
<1>4. content = seen[p]
  <2>1. \A c \in Components : content[c] = seen[p][c]
    BY <1>1 DEF ReadyInv, TextsWritten
  <2>. QED
    BY <1>0, <2>1 DEF Contents
<1>5. meta'.status = "done" => DoneAllowed(content)
  BY <1>1, <1>3, <1>4 DEF ReadyInv, GatePassed
<1>6. GatePassed' /\ TextsWritten'
  BY <1>1, <1>5 DEF SingleWriter, GatePassed, TextsWritten
<1>7. DoneSnapshotsReady'
  BY <1>1 DEF ReadyInv, DoneSnapshotsReady, Complete
<1>. QED
  BY <1>6, <1>7 DEF ReadyStep

\* Only the unfinished snapshot changes; the copy begins with every component.
LEMMA ReadyCopy ==
  ASSUME SingleWriter, ReadyInv, SnapStep, NEW p \in Procs,
         \/ ResetSnapshot(p) \/ CopyMetadata(p) \/ MakeTree(p) \/ CopyFile(p)
  PROVE  ReadyStep
<1>0. /\ meta.version \in Versions /\ content \in Contents
      /\ snaps \in [Versions -> Snapshot] /\ todo \in [Procs -> SUBSET Components]
      /\ pc \in [Procs -> {Idle} \cup Mutating \cup Building]
  BY ReadyFacts
<1>1. /\ pc[p] \in Snapping /\ pc'[p] \in Snapping /\ plan[p] = meta
      /\ UNCHANGED <<meta, content>>
  BY <1>0 DEF Goto, ResetSnapshot, CopyMetadata, MakeTree, CopyFile, Snapping, Settled,
              ReadyInv, HandoffInv, SnapInv, PlanIsMeta
<1>2. \A v \in Versions \ {meta.version} : snaps'[v] = snaps[v]
  BY <1>0, <1>1 DEF ResetSnapshot, CopyMetadata, MakeTree, CopyFile
<1>3. ~Complete(snaps'[meta.version])
  BY <1>1 DEF SnapStep, SnapshotUnderWay, Complete
<1>4. GatePassed'
  BY <1>1 DEF SingleWriter, ReadyInv, GatePassed, Snapping
<1>5. DoneSnapshotsReady'
  BY <1>1, <1>2, <1>3 DEF ReadyInv, DoneSnapshotsReady, Complete
<1>6. TextsWritten'
  <2>1. CASE ~CopyFile(p)
    <3>1. pc'[p] = "copy_files" => todo'[p] = Components
      BY <1>0, <2>1 DEF Goto, ResetSnapshot, CopyMetadata, MakeTree
    <3>. QED
      BY <1>1, <3>1 DEF SingleWriter, TextsWritten, Snapping
  <2>2. CASE CopyFile(p)
    <3>1. PICK c \in todo[p] :
            /\ snaps' = [snaps EXCEPT ![meta.version].files[c] = content[c]]
            /\ todo' = [todo EXCEPT ![p] = @ \ {c}]
      BY <1>1, <2>2 DEF CopyFile
    <3>2. c \in Components /\ pc[p] = "copy_files" /\ snaps[meta.version] \in Snapshot
      BY <1>0, <2>2, <3>1 DEF CopyFile
    <3> DEFINE s == [snaps[meta.version] EXCEPT !.files[c] = content[c]]
    <3>3. snaps'[meta.version] = s
      BY <1>0, <3>1
    <3>4. \A d \in Components :
            s.files[d] = IF d = c THEN content[c] ELSE snaps[meta.version].files[d]
      BY <3>2 DEF Snapshot
    <3> HIDE DEF s
    <3>5. todo'[p] = todo[p] \ {c}
      BY <1>0, <3>1
    <3>6. \A d \in Components \ todo'[p] : snaps'[meta.version].files[d] = content[d]
      BY <3>2, <3>3, <3>4, <3>5 DEF ReadyInv, TextsWritten
    <3>. QED
      BY <1>1, <3>6 DEF SingleWriter, TextsWritten, Snapping
  <2>. QED
    BY <2>1, <2>2
<1>. QED
  BY <1>4, <1>5, <1>6 DEF ReadyStep

\* The snapshot counts: it is of plan.yaml and of the texts the gate let through.
LEMMA ReadyManifest ==
  ASSUME SingleWriter, ReadyInv, NEW p \in Procs, WriteManifest(p)
  PROVE  ReadyStep
<1>0. /\ meta.version \in Versions /\ content \in Contents
      /\ snaps \in [Versions -> Snapshot]
      /\ pc \in [Procs -> {Idle} \cup Mutating \cup Building]
  BY ReadyFacts
<1>1. /\ pc[p] = "copy_files" /\ todo[p] = {} /\ pc'[p] = "load" /\ plan[p] = meta
      /\ UNCHANGED <<meta, content>>
  BY <1>0 DEF Goto, WriteManifest, Snapping, Settled, ReadyInv, HandoffInv, SnapInv, PlanIsMeta
<1> DEFINE m == [version |-> meta.version, status |-> meta.status, sha |-> meta.sha]
           s == [snaps[meta.version] EXCEPT !.manifest = m]
<1>2. snaps' = [snaps EXCEPT ![meta.version] = s]
  BY <1>1 DEF WriteManifest
<1>3. /\ s.files = snaps[meta.version].files /\ s.meta = snaps[meta.version].meta
      /\ s.files \in [Components -> Texts \cup {Nil}]
  <2>1. snaps[meta.version] \in Snapshot
    BY <1>0
  <2>. QED
    BY <2>1 DEF Snapshot
<1> HIDE DEF m, s
<1>4. snaps'[meta.version] = s /\ \A v \in Versions \ {meta.version} : snaps'[v] = snaps[v]
  BY <1>0, <1>2
<1>5. s.files = content
  <2>1. \A c \in Components : s.files[c] = content[c]
    BY <1>1, <1>3 DEF ReadyInv, TextsWritten
  <2>. QED
    BY <1>0, <1>3, <2>1 DEF Contents
<1>6. s.meta = meta
  BY <1>1, <1>3 DEF ReadyInv, HandoffInv, SnapInv, SnapshotUnderWay
<1>7. meta.status = "done" => DoneAllowed(content)
  BY <1>1 DEF ReadyInv, GatePassed, Snapping
<1>8. DoneSnapshotsReady'
  BY <1>4, <1>5, <1>6, <1>7 DEF ReadyInv, DoneSnapshotsReady, Complete
<1>9. TextsWritten' /\ GatePassed'
  BY <1>1 DEF SingleWriter, TextsWritten, GatePassed, Snapping
<1>. QED
  BY <1>8, <1>9 DEF ReadyStep

LEMMA ReadyStepKept == ASSUME SingleWriter, ReadyInv, [Next]_vars PROVE ReadyStep
<1>0. pc \in [Procs -> {Idle} \cup Mutating \cup Building]
  BY ReadyFacts
<1>1. ASSUME NEW p \in Procs, snaps' = snaps, pc'[p] \notin Snapping \cup {"write"}
      PROVE  ReadyStep
  BY <1>1 DEF SingleWriter, ReadyInv, ReadyStep, TextsWritten, GatePassed, DoneSnapshotsReady,
              Complete, Snapping
<1>2. ASSUME NEW p \in Procs,
             \/ RefuseCancelled(p) \/ RefuseTransition(p) \/ RefuseDone(p)
             \/ CopyFails(p) \/ RefuseBuild(p) \/ SaveRendered(p) \/ Crash(p)
      PROVE  ReadyStep
  <2>1. snaps' = snaps /\ pc'[p] = Idle
    BY <1>0, <1>2 DEF Finish, disk, RefuseCancelled, RefuseTransition, RefuseDone, CopyFails,
                      RefuseBuild, SaveRendered, Crash
  <2>. QED
    BY <1>1, <2>1 DEF Snapping, Idle
<1>3. ASSUME NEW p \in Procs,
             \/ BeginMutation(p) \/ SkipMutation(p) \/ BeginBuild(p) \/ LoadForBuild(p)
             \/ StartRender(p) \/ WriteVersioned(p) \/ WriteLatest(p) \/ ReadText(p)
      PROVE  ReadyStep
  <2>1. snaps' = snaps /\ pc'[p] \in {"read", "load", "validate", "render", "latest", "save"}
    BY <1>0, <1>3 DEF Goto, disk, Validated, BeginMutation, SkipMutation, BeginBuild,
                      LoadForBuild, StartRender, WriteVersioned, WriteLatest, ReadText
  <2>. QED
    BY <1>1, <2>1 DEF Snapping
<1>4. SnapStep
  BY SnapInvStep DEF ReadyInv, HandoffInv, SnapInv, SnapStep
<1>5. ASSUME UNCHANGED vars PROVE ReadyStep
  BY <1>5 DEF vars, ReadyInv, ReadyStep, TextsWritten, GatePassed, DoneSnapshotsReady, Complete,
              NextStatus
<1>6. ASSUME NEW p \in Procs, Begin(p) \/ Step(p) \/ Crash(p) PROVE ReadyStep
  BY <1>2, <1>3, <1>4, <1>6, ReadyAccept, ReadyWrite, ReadyCommit, ReadyCopy, ReadyManifest
     DEF Begin, Step
<1>. QED
  BY <1>5, <1>6 DEF Next

\* With one writer at a time, wherever it crashes, the snapshot of a done version
\* holds texts that pass every done guardrail, the questions of the profile included:
\* what a killed mutation left in the components, the gate of the next one sees.
THEOREM DoneSnapshotsAlwaysReady ==
  ASSUME SingleWriter PROVE Spec => []DoneSnapshotsReady
<1>1. ReadyInv => DoneSnapshotsReady
  BY DEF ReadyInv
<1>2. ReadyInv /\ [Next]_vars => ReadyInv'
  BY HandoffInvNext, ReadyStepKept DEF ReadyInv, ReadyStep
<1>. QED
  BY <1>1, <1>2, ReadyInvInit, PTL DEF Spec

-----------------------------------------------------------------------------
(* Before the first crash *)

\* Labels between the first write of a component and the manifest.
Saving == Snapping \cup {"write"}

\* Every version has its snapshot, or the newest is being made.
OlderComplete == \A p \in Procs :
  /\ pc[p] \notin Snapping => \A v \in 1 .. meta.version : Complete(snaps[v])
  /\ pc[p] \in Snapping    => \A v \in 1 .. meta.version - 1 : Complete(snaps[v])

\* The newest snapshot holds the texts of the components.
TextsSaved == \A p \in Procs :
  /\ pc[p] \notin Saving => snaps[meta.version].files = content
  /\ pc[p] = "copy_files" =>
       \A c \in Components \ todo[p] : snaps[meta.version].files[c] = content[c]

\* plan.yaml agrees with the components, unless they are being written.
MetaAgrees == \A p \in Procs : pc[p] # "write" =>
  /\ meta.sha = content
  /\ meta.status = "done" => DoneAllowed(content)

\* The Plan object a mutation holds, the texts it has still to write, and what
\* its commit will be: ready when it says done, and not the current version again.
CommitPending == \A p \in Procs :
  /\ pc[p] = "read" => plan[p] = meta
  /\ pc[p] = "write" =>
       /\ plan[p].sha = content /\ plan[p].status = meta.status
       /\ \A c \in Components \ todo[p] : content[c] = seen[p][c]
       /\ NextStatus(p) = "done" => DoneAllowed(seen[p])
       /\ seen[p] # snaps[meta.version].files \/ NextStatus(p) # meta.status

\* A version is rendered after its snapshot is finished.
RenderedLater ==
  /\ \A v \in Versions : v > meta.version => rendered[v] = Nil
  /\ \A p \in Procs : pc[p] \in Snapping => rendered[meta.version] = Nil

Clean ==
  /\ OlderComplete /\ TextsSaved /\ MetaAgrees /\ CommitPending
  /\ RenderedLater /\ HandoffMatchesSnapshot

CleanInv == HandoffInv /\ Clean

\* What is known of the process that takes a step.
LEMMA CleanFacts ==
  ASSUME CleanInv
  PROVE  /\ TypeOK /\ meta \in Meta /\ meta.version \in Versions /\ content \in Contents
         /\ snaps \in [Versions -> Snapshot] /\ rendered \in [Versions -> Doc \cup {Nil, Torn}]
         /\ pc \in [Procs -> {Idle} \cup Mutating \cup Building]
         /\ plan \in [Procs -> Meta \cup {Nil}] /\ cmd \in [Procs -> Commands \cup {Build, Nil}]
         /\ seen \in [Procs -> Contents] /\ todo \in [Procs -> SUBSET Components]
         /\ \A v \in 1 .. meta.version : v \in Versions
BY BoundsAssumption
   DEF CleanInv, HandoffInv, SnapInv, AppendInv, HistoryInv, TypeOK, Meta, Versions

LEMMA CleanInvInit == Init => CleanInv
<1> SUFFICES ASSUME Init PROVE CleanInv
  OBVIOUS
<1>1. HandoffInv /\ TypeOK
  BY HandoffInvInit DEF HandoffInv, SnapInv, AppendInv, HistoryInv
<1>2. PICK s \in Statuses, k \in InitialContents :
        /\ s = "done" => DoneAllowed(k)
        /\ meta = FirstMeta(s, k, 1)
        /\ content = k
        /\ snaps = [v \in Versions |-> IF v = 1 THEN FullSnap(FirstMeta(s, k, 0), k) ELSE NoSnap]
        /\ rendered = [v \in Versions |-> IF v = 1 THEN DocOf(FirstMeta(s, k, 1), k) ELSE Nil]
        /\ pc = [p \in Procs |-> Idle]
  BY DEF Init
<1>3. /\ meta.version = 1 /\ meta.status = s /\ meta.sha = k /\ 1 \in Versions
      /\ k \in Contents
  BY <1>1, <1>2, BoundsAssumption DEF FirstMeta, Versions, TypeOK
<1>4. /\ snaps[1].files = k
      /\ snaps[1].manifest = [version |-> 1, status |-> s, sha |-> k]
  BY <1>2, <1>3 DEF FullSnap, FirstMeta
<1>5. [version |-> 1, status |-> s, sha |-> k] \in Manifest
  BY <1>3 DEF Manifest
<1>6. Complete(snaps[1])
  BY <1>4, <1>5, NilAssumption DEF Complete
<1>7. OlderComplete /\ TextsSaved /\ MetaAgrees /\ CommitPending
  BY <1>2, <1>3, <1>4, <1>6
     DEF OlderComplete, TextsSaved, MetaAgrees, CommitPending, Saving, Snapping, Idle
<1>8. RenderedLater
  BY <1>2, <1>3 DEF RenderedLater, Snapping, Idle
<1>9. HandoffMatchesSnapshot
  <2>1. rendered[1].contents = Restrict(k, RenderedComponents)
    BY <1>2, <1>3 DEF DocOf
  <2>2. \A v \in Versions : v # 1 => rendered[v] = Nil
    BY <1>2
  <2>. QED
    BY <1>4, <2>1, <2>2 DEF HandoffMatchesSnapshot
<1>. QED
  BY <1>1, <1>7, <1>8, <1>9 DEF CleanInv, Clean

\* A step outside of the commit and the snapshot that leaves the plan's files
\* alone; only a mutation that begins takes the Plan object.
LEMMA CleanKept ==
  ASSUME SingleWriter, CleanInv, NEW p \in Procs, UNCHANGED <<meta, content, snaps, rendered>>,
         pc[p] \notin Saving, pc'[p] \notin Saving, pc'[p] = "read" => plan'[p] = meta
  PROVE  Clean'
<1>1. OlderComplete' /\ TextsSaved'
  BY DEF SingleWriter, CleanInv, Clean, OlderComplete, TextsSaved, Saving, Snapping, Complete
<1>2. MetaAgrees' /\ CommitPending'
  BY DEF SingleWriter, CleanInv, Clean, MetaAgrees, CommitPending, Saving
<1>3. RenderedLater' /\ HandoffMatchesSnapshot'
  BY DEF SingleWriter, CleanInv, Clean, RenderedLater, HandoffMatchesSnapshot, Saving, Complete
<1>. QED
  BY <1>1, <1>2, <1>3 DEF Clean

\* A mutation that was accepted has work to do, and may say done only of texts
\* that are ready.
LEMMA CleanAccept ==
  ASSUME SingleWriter, CleanInv, NEW p \in Procs, AcceptMutation(p)
  PROVE  Clean'
<1>0. /\ TypeOK /\ pc \in [Procs -> {Idle} \cup Mutating \cup Building]
      /\ content \in Contents /\ seen \in [Procs -> Contents]
      /\ todo \in [Procs -> SUBSET Components]
  BY CleanFacts
<1>1. /\ pc[p] = "read" /\ todo[p] = {} /\ GateOpen(p) /\ ~Noop(p)
      /\ pc'[p] = "write" /\ seen'[p] = NextContents(p) /\ todo'[p] = Changed(p)
      /\ UNCHANGED <<meta, content, snaps, rendered, cmd, plan>>
  BY <1>0 DEF AcceptMutation, Decided, Goto, disk
<1>2. plan[p] = meta /\ meta.sha = content /\ snaps[meta.version].files = content
  BY <1>1 DEF CleanInv, Clean, CommitPending, MetaAgrees, TextsSaved, Saving, Snapping
<1>3. \A c \in Components : seen[p][c] = content[c]
  BY <1>1 DEF CleanInv, HandoffInv, TextsRead
<1>4. NextStatus(p)' = NextStatus(p)
  BY <1>1 DEF NextStatus
<1>5. \A c \in Components \ Changed(p) : content[c] = NextContents(p)[c]
  BY <1>3 DEF Changed
<1>6. NextContents(p) # content \/ NextStatus(p) # meta.status
  BY <1>1, <1>2, <1>3 DEF Noop, Changed
<1>7. NextStatus(p) = "done" => DoneAllowed(NextContents(p))
  BY <1>1 DEF GateOpen
<1>8. CommitPending'
  BY <1>1, <1>2, <1>4, <1>5, <1>6, <1>7 DEF SingleWriter, CommitPending
<1>9. OlderComplete' /\ TextsSaved' /\ MetaAgrees'
  BY <1>1 DEF SingleWriter, CleanInv, Clean, OlderComplete, TextsSaved, MetaAgrees, Saving,
              Snapping, Complete
<1>10. RenderedLater' /\ HandoffMatchesSnapshot'
  BY <1>1 DEF SingleWriter, CleanInv, Clean, RenderedLater, HandoffMatchesSnapshot, Snapping,
              Complete
<1>. QED
  BY <1>8, <1>9, <1>10 DEF Clean

LEMMA CleanWrite ==
  ASSUME SingleWriter, CleanInv, NEW p \in Procs, WriteComponent(p)
  PROVE  Clean'
<1>0. /\ TypeOK /\ content \in Contents /\ seen \in [Procs -> Contents]
      /\ todo \in [Procs -> SUBSET Components] /\ plan \in [Procs -> Meta \cup {Nil}]
  BY CleanFacts
<1>1. PICK c \in todo[p] :
        /\ content' = [content EXCEPT ![c] = seen[p][c]]
        /\ plan' = [plan EXCEPT ![p].sha[c] = seen[p][c]]
        /\ todo' = [todo EXCEPT ![p] = @ \ {c}]
  BY DEF WriteComponent
<1>2. /\ pc[p] = "write" /\ pc' = pc /\ UNCHANGED <<meta, snaps, rendered, cmd, seen>>
  BY DEF WriteComponent
<1>3. plan[p] \in Meta /\ plan[p].sha = content /\ plan[p].status = meta.status
  BY <1>2 DEF CleanInv, Clean, CommitPending, HandoffInv, SnapInv, AppendInv, HistoryInv,
              PlanHeld, Holds, Idle
<1>4. plan'[p].sha = content' /\ plan'[p].status = plan[p].status
  BY <1>0, <1>1, <1>3 DEF Meta
<1>5. NextStatus(p)' = NextStatus(p)
  BY <1>2, <1>4 DEF NextStatus
<1>6. todo'[p] = todo[p] \ {c} /\ \A d \in Components :
        content'[d] = IF d = c THEN seen[p][c] ELSE content[d]
  BY <1>0, <1>1 DEF Contents
<1>7. \A d \in Components \ todo'[p] : content'[d] = seen'[p][d]
  BY <1>2, <1>6 DEF CleanInv, Clean, CommitPending
<1>8. CommitPending'
  BY <1>2, <1>3, <1>4, <1>5, <1>7 DEF SingleWriter, CleanInv, Clean, CommitPending
<1>9. OlderComplete' /\ TextsSaved' /\ MetaAgrees'
  BY <1>2 DEF SingleWriter, CleanInv, Clean, OlderComplete, TextsSaved, MetaAgrees, Saving,
              Snapping, Complete
<1>10. RenderedLater' /\ HandoffMatchesSnapshot'
  BY <1>2 DEF SingleWriter, CleanInv, Clean, RenderedLater, HandoffMatchesSnapshot, Complete
<1>. QED
  BY <1>8, <1>9, <1>10 DEF Clean

\* What the commit of plan.yaml finds and makes.
LEMMA CommitFacts ==
  ASSUME CleanInv, NEW p \in Procs, WriteMetadata(p)
  PROVE  /\ pc[p] = "write" /\ pc'[p] = "snapshot"
         /\ UNCHANGED <<content, snaps, rendered>>
         /\ meta'.version = meta.version + 1 /\ meta'.status = NextStatus(p)
         /\ meta'.sha = content
         /\ \E e \in Entry : e.status = NextStatus(p) /\ meta'.history = Append(meta.history, e)
         /\ content = seen[p]
         /\ NextStatus(p) = "done" => DoneAllowed(content)
         /\ content # snaps[meta.version].files \/ NextStatus(p) # meta.status
         /\ AllowedStep(meta.status, NextStatus(p)) /\ NextStatus(p) \in Statuses
<1>0. /\ TypeOK /\ content \in Contents /\ seen \in [Procs -> Contents]
      /\ pc \in [Procs -> {Idle} \cup Mutating \cup Building] /\ HistoryInv
      /\ meta \in Meta /\ meta.version \in Versions
  BY CleanFacts DEF CleanInv, HandoffInv, SnapInv, AppendInv
<1>1. /\ pc[p] = "write" /\ todo[p] = {} /\ pc'[p] = "snapshot"
      /\ UNCHANGED <<content, snaps, rendered>> /\ meta' = Bump(plan[p], NextStatus(p), p)
  BY <1>0 DEF WriteMetadata, Goto
<1>2. /\ plan[p] \in Meta /\ plan[p].version = meta.version /\ plan[p].history = meta.history
      /\ plan[p].version < MaxVersion /\ AllowedStep(plan[p].status, NextStatus(p))
  BY <1>1 DEF CleanInv, HandoffInv, SnapInv, AppendInv, HistoryInv, PlanHeld, CommandHeld,
              AllowedHeld, TransitionAllowed, Synced, Holds, Idle
<1>3. /\ plan[p].sha = content /\ plan[p].status = meta.status
      /\ \A c \in Components : content[c] = seen[p][c]
      /\ NextStatus(p) = "done" => DoneAllowed(seen[p])
      /\ seen[p] # snaps[meta.version].files \/ NextStatus(p) # meta.status
  BY <1>1 DEF CleanInv, Clean, CommitPending
<1>4. content = seen[p]
  BY <1>0, <1>3 DEF Contents
<1>5. NextStatus(p) \in Statuses
  BY <1>0, <1>1, NextContentsType
<1> DEFINE e == [version |-> plan[p].version + 1, status |-> NextStatus(p), by |-> p]
<1>6. /\ meta'.version = plan[p].version + 1 /\ meta'.status = NextStatus(p)
      /\ meta'.sha = plan[p].sha /\ meta'.history = Append(plan[p].history, e)
  BY <1>1, <1>2 DEF Bump, Meta
<1>7. e \in Entry /\ e.status = NextStatus(p)
  BY <1>0, <1>2, <1>5, BoundsAssumption DEF Entry, Versions
<1> HIDE DEF e
<1>. QED
  BY <1>1, <1>2, <1>3, <1>4, <1>5, <1>6, <1>7

LEMMA CleanCommit ==
  ASSUME SingleWriter, CleanInv, HandoffInv', NEW p \in Procs, WriteMetadata(p)
  PROVE  Clean'
<1>0. /\ meta.version \in Versions /\ meta'.version \in Versions
  BY CleanFacts DEF HandoffInv, SnapInv, AppendInv, HistoryInv, TypeOK, Meta
<1>1. /\ pc[p] = "write" /\ pc'[p] = "snapshot" /\ UNCHANGED <<content, snaps, rendered>>
      /\ meta'.version = meta.version + 1 /\ meta'.status = NextStatus(p)
      /\ meta'.sha = content
      /\ NextStatus(p) = "done" => DoneAllowed(content)
  BY CommitFacts
<1>2. OlderComplete'
  BY <1>0, <1>1 DEF SingleWriter, CleanInv, Clean, OlderComplete, Snapping, Complete, Versions
<1>3. TextsSaved' /\ CommitPending'
  BY <1>1 DEF SingleWriter, TextsSaved, CommitPending, Saving, Snapping
<1>4. MetaAgrees'
  BY <1>1 DEF SingleWriter, MetaAgrees
<1>5. RenderedLater'
  BY <1>0, <1>1 DEF CleanInv, Clean, RenderedLater, Versions
<1>6. HandoffMatchesSnapshot'
  BY <1>1 DEF CleanInv, Clean, HandoffMatchesSnapshot, Complete
<1>. QED
  BY <1>2, <1>3, <1>4, <1>5, <1>6 DEF Clean

\* snapshot_version before its last step: only the unfinished snapshot changes.
LEMMA CleanCopy ==
  ASSUME SingleWriter, CleanInv, HandoffInv', NEW p \in Procs,
         \/ ResetSnapshot(p) \/ CopyMetadata(p) \/ MakeTree(p) \/ CopyFile(p)
  PROVE  Clean'
<1>0. /\ TypeOK /\ meta.version \in Versions /\ content \in Contents
      /\ snaps \in [Versions -> Snapshot] /\ todo \in [Procs -> SUBSET Components]
      /\ pc \in [Procs -> {Idle} \cup Mutating \cup Building]
      /\ \A v \in 1 .. meta.version : v \in Versions
  BY CleanFacts
<1>1. /\ pc[p] \in Snapping /\ pc'[p] \in Snapping /\ plan[p] = meta
      /\ UNCHANGED <<meta, content, rendered>>
  BY <1>0 DEF Goto, ResetSnapshot, CopyMetadata, MakeTree, CopyFile, Snapping, Settled,
              CleanInv, HandoffInv, SnapInv, PlanIsMeta
<1>2. \A v \in Versions \ {meta.version} : snaps'[v] = snaps[v]
  BY <1>0, <1>1 DEF ResetSnapshot, CopyMetadata, MakeTree, CopyFile
<1>3. ~Complete(snaps'[meta.version])
  BY <1>1 DEF HandoffInv, SnapInv, SnapshotUnderWay, Complete
<1>4. OlderComplete'
  <2>1. \A v \in 1 .. meta.version - 1 : Complete(snaps[v])
    BY <1>1 DEF CleanInv, Clean, OlderComplete
  <2>2. \A v \in 1 .. meta.version - 1 : v \in Versions \ {meta.version}
    BY <1>0 DEF Versions
  <2>3. \A v \in 1 .. meta.version - 1 : Complete(snaps'[v])
    BY <1>2, <2>1, <2>2
  <2>. QED
    BY <1>1, <2>3 DEF SingleWriter, OlderComplete, Complete
<1>5. MetaAgrees' /\ CommitPending'
  BY <1>1 DEF SingleWriter, CleanInv, Clean, MetaAgrees, CommitPending, Snapping
<1>6. RenderedLater'
  BY <1>1 DEF SingleWriter, CleanInv, Clean, RenderedLater
<1>7. HandoffMatchesSnapshot'
  BY <1>1, <1>2, <1>3 DEF CleanInv, Clean, HandoffMatchesSnapshot, Complete
<1>8. TextsSaved'
  <2>1. CASE ~CopyFile(p)
    <3>1. pc'[p] = "copy_files" => todo'[p] = Components
      BY <1>0, <2>1 DEF Goto, ResetSnapshot, CopyMetadata, MakeTree
    <3>. QED
      BY <1>1, <3>1 DEF SingleWriter, TextsSaved, Saving
  <2>2. CASE CopyFile(p)
    <3>1. PICK c \in todo[p] :
            /\ snaps' = [snaps EXCEPT ![meta.version].files[c] = content[c]]
            /\ todo' = [todo EXCEPT ![p] = @ \ {c}]
      BY <1>1, <2>2 DEF CopyFile
    <3>2. c \in Components /\ pc[p] = "copy_files"
      BY <1>0, <2>2, <3>1 DEF CopyFile
    <3>3. snaps[meta.version] \in Snapshot
      BY <1>0
    <3> DEFINE s == [snaps[meta.version] EXCEPT !.files[c] = content[c]]
    <3>4. snaps'[meta.version] = s
      BY <1>0, <3>1
    <3>5. \A d \in Components :
            s.files[d] = IF d = c THEN content[c] ELSE snaps[meta.version].files[d]
      BY <3>2, <3>3 DEF Snapshot
    <3> HIDE DEF s
    <3>6. todo'[p] = todo[p] \ {c}
      BY <1>0, <3>1
    <3>7. \A d \in Components \ todo'[p] : snaps'[meta.version].files[d] = content[d]
      BY <3>2, <3>4, <3>5, <3>6 DEF CleanInv, Clean, TextsSaved
    <3>. QED
      BY <1>1, <3>7 DEF SingleWriter, TextsSaved, Saving
  <2>. QED
    BY <2>1, <2>2
<1>. QED
  BY <1>4, <1>5, <1>6, <1>7, <1>8 DEF Clean

\* The last step of snapshot_version: all the texts are in place.
LEMMA ManifestFacts ==
  ASSUME CleanInv, NEW p \in Procs, WriteManifest(p)
  PROVE  /\ pc[p] = "copy_files" /\ pc'[p] = "load"
         /\ UNCHANGED <<meta, content, rendered>>
         /\ \A v \in Versions \ {meta.version} : snaps'[v] = snaps[v]
         /\ Complete(snaps'[meta.version]) /\ snaps'[meta.version].files = content
         /\ ~Complete(snaps[meta.version])
<1>0. /\ TypeOK /\ meta \in Meta /\ meta.version \in Versions /\ content \in Contents
      /\ snaps \in [Versions -> Snapshot]
      /\ pc \in [Procs -> {Idle} \cup Mutating \cup Building]
  BY CleanFacts
<1>1. /\ pc[p] = "copy_files" /\ todo[p] = {} /\ pc'[p] = "load" /\ plan[p] = meta
      /\ UNCHANGED <<meta, content, rendered>>
  BY <1>0 DEF Goto, WriteManifest, Snapping, Settled, CleanInv, HandoffInv, SnapInv, PlanIsMeta
<1> DEFINE m == [version |-> meta.version, status |-> meta.status, sha |-> meta.sha]
           s == [snaps[meta.version] EXCEPT !.manifest = m]
<1>2. snaps' = [snaps EXCEPT ![meta.version] = s]
  BY <1>1 DEF WriteManifest
<1>3. m \in Manifest
  BY <1>0 DEF Meta, Manifest
<1>4. snaps[meta.version] \in Snapshot
  BY <1>0
<1>5. s.manifest = m /\ s.files = snaps[meta.version].files
  BY <1>4 DEF Snapshot
<1>6. s.files \in [Components -> Texts \cup {Nil}]
  BY <1>4, <1>5 DEF Snapshot
<1> HIDE DEF m, s
<1>7. snaps'[meta.version] = s /\ \A v \in Versions \ {meta.version} : snaps'[v] = snaps[v]
  BY <1>0, <1>2
<1>8. Complete(s)
  BY <1>3, <1>5, NilAssumption DEF Complete
<1>9. \A c \in Components : s.files[c] = content[c]
  BY <1>1, <1>5 DEF CleanInv, Clean, TextsSaved
<1>10. s.files = content
  BY <1>0, <1>6, <1>9 DEF Contents
<1>11. ~Complete(snaps[meta.version])
  BY <1>1 DEF CleanInv, HandoffInv, SnapInv, SnapshotUnderWay, Snapping
<1>. QED
  BY <1>1, <1>7, <1>8, <1>10, <1>11

LEMMA CleanManifest ==
  ASSUME SingleWriter, CleanInv, NEW p \in Procs, WriteManifest(p)
  PROVE  Clean'
<1>0. meta.version \in Versions /\ \A v \in 1 .. meta.version : v \in Versions
  BY CleanFacts
<1>1. /\ pc[p] = "copy_files" /\ pc'[p] = "load" /\ UNCHANGED <<meta, content, rendered>>
      /\ \A v \in Versions \ {meta.version} : snaps'[v] = snaps[v]
      /\ Complete(snaps'[meta.version]) /\ snaps'[meta.version].files = content
  BY ManifestFacts
<1>2. \A v \in 1 .. meta.version : Complete(snaps'[v])
  <2> SUFFICES ASSUME NEW v \in 1 .. meta.version, v # meta.version PROVE Complete(snaps'[v])
    BY <1>1
  <2>1. v \in 1 .. meta.version - 1 /\ v \in Versions \ {meta.version}
    BY <1>0 DEF Versions
  <2>2. Complete(snaps[v])
    BY <1>1, <2>1 DEF CleanInv, Clean, OlderComplete, Snapping
  <2>. QED
    BY <1>1, <2>1, <2>2
<1>3. OlderComplete'
  BY <1>1, <1>2 DEF SingleWriter, OlderComplete, Snapping, Complete
<1>4. TextsSaved'
  BY <1>1 DEF SingleWriter, TextsSaved
<1>5. MetaAgrees' /\ CommitPending'
  BY <1>1 DEF SingleWriter, CleanInv, Clean, MetaAgrees, CommitPending
<1>6. rendered[meta.version] = Nil
  BY <1>1 DEF CleanInv, Clean, RenderedLater, Snapping
<1>7. RenderedLater'
  BY <1>1 DEF SingleWriter, CleanInv, Clean, RenderedLater, Snapping
<1>8. HandoffMatchesSnapshot'
  BY <1>1, <1>6 DEF CleanInv, Clean, HandoffMatchesSnapshot, Complete
<1>. QED
  BY <1>3, <1>4, <1>5, <1>7, <1>8 DEF Clean

LEMMA CleanRender ==
  ASSUME SingleWriter, CleanInv, NEW p \in Procs, WriteVersioned(p)
  PROVE  Clean'
<1>0. /\ TypeOK /\ meta.version \in Versions
      /\ rendered \in [Versions -> Doc \cup {Nil, Torn}]
      /\ pc \in [Procs -> {Idle} \cup Mutating \cup Building]
  BY CleanFacts
<1>1. /\ pc[p] = "render" /\ todo[p] = {} /\ pc'[p] = "latest"
      /\ UNCHANGED <<meta, content, snaps>>
  BY <1>0 DEF WriteVersioned, Goto
<1>2. DocOf(plan[p], seen[p]) = DocOf(meta, content) /\ plan[p] = meta
  BY <1>1, CurrentDoc DEF CleanInv, HandoffInv, SnapInv, PlanIsMeta, Settled
<1> DEFINE d == DocOf(meta, content)
<1>3. rendered' = [rendered EXCEPT ![meta.version] = d]
  BY <1>2 DEF WriteVersioned
<1>4. d.contents = Restrict(content, RenderedComponents)
  BY DEF DocOf
<1> HIDE DEF d
<1>5. rendered'[meta.version] = d
      /\ \A v \in Versions \ {meta.version} : rendered'[v] = rendered[v]
  BY <1>0, <1>3
<1>6. snaps[meta.version].files = content
  BY <1>1 DEF CleanInv, Clean, TextsSaved, Saving, Snapping
<1>7. OlderComplete' /\ TextsSaved'
  BY <1>1 DEF SingleWriter, CleanInv, Clean, OlderComplete, TextsSaved, Saving, Snapping, Complete
<1>8. MetaAgrees' /\ CommitPending'
  BY <1>1 DEF SingleWriter, CleanInv, Clean, MetaAgrees, CommitPending
<1>9. RenderedLater'
  BY <1>0, <1>1, <1>5 DEF SingleWriter, CleanInv, Clean, RenderedLater, Snapping, Versions
<1>10. HandoffMatchesSnapshot'
  BY <1>1, <1>4, <1>5, <1>6 DEF CleanInv, Clean, HandoffMatchesSnapshot, Complete
<1>. QED
  BY <1>7, <1>8, <1>9, <1>10 DEF Clean

LEMMA CleanSave ==
  ASSUME SingleWriter, CleanInv, NEW p \in Procs, SaveRendered(p)
  PROVE  /\ Clean' /\ UNCHANGED <<content, snaps>>
         /\ meta'.version = meta.version /\ meta'.history = meta.history
<1>0. /\ TypeOK /\ meta \in Meta /\ pc \in [Procs -> {Idle} \cup Mutating \cup Building]
  BY CleanFacts
<1>1. /\ pc[p] = "save" /\ pc'[p] = Idle /\ plan[p] = meta
      /\ UNCHANGED <<content, snaps, rendered>>
      /\ meta' = [meta EXCEPT !.rendered = meta.version]
  BY <1>0 DEF SaveRendered, Finish, CleanInv, HandoffInv, SnapInv, PlanIsMeta, Settled
<1>2. /\ meta'.version = meta.version /\ meta'.status = meta.status
      /\ meta'.sha = meta.sha /\ meta'.history = meta.history
  BY <1>0, <1>1 DEF Meta
<1>3. OlderComplete' /\ TextsSaved'
  BY <1>1, <1>2
     DEF SingleWriter, CleanInv, Clean, OlderComplete, TextsSaved, Saving, Snapping, Complete, Idle
<1>4. MetaAgrees' /\ CommitPending'
  BY <1>1, <1>2 DEF SingleWriter, CleanInv, Clean, MetaAgrees, CommitPending, Idle
<1>5. RenderedLater' /\ HandoffMatchesSnapshot'
  BY <1>1, <1>2
     DEF SingleWriter, CleanInv, Clean, RenderedLater, HandoffMatchesSnapshot, Snapping, Complete,
         Idle
<1>. QED
  BY <1>1, <1>2, <1>3, <1>4, <1>5 DEF Clean

\* The steps that leave the plan's files alone.
LEMMA CleanQuiet ==
  ASSUME SingleWriter, CleanInv, NEW p \in Procs,
         \/ Begin(p) \/ ReadText(p) \/ RefuseTransition(p) \/ RefuseDone(p) \/ SkipMutation(p)
         \/ LoadForBuild(p) \/ RefuseBuild(p) \/ StartRender(p) \/ WriteLatest(p)
  PROVE  Clean' /\ UNCHANGED <<meta, content, snaps>>
<1>0. /\ TypeOK /\ pc \in [Procs -> {Idle} \cup Mutating \cup Building]
      /\ plan \in [Procs -> Meta \cup {Nil}]
  BY CleanFacts
<1>1. /\ UNCHANGED <<meta, content, snaps, rendered>>
      /\ pc[p] \notin Saving /\ pc'[p] \notin Saving
      /\ pc'[p] = "read" => plan'[p] = meta \/ (pc[p] = "read" /\ plan' = plan)
  BY <1>0 DEF Begin, Finish, Goto, disk, Decided, Validated, Saving, Snapping, Idle,
       RefuseCancelled, BeginMutation, BeginBuild, ReadText, RefuseTransition, RefuseDone,
       SkipMutation, LoadForBuild, RefuseBuild, StartRender, WriteLatest
<1>2. pc'[p] = "read" => plan'[p] = meta
  BY <1>1 DEF CleanInv, Clean, CommitPending
<1>. QED
  BY <1>1, <1>2, CleanKept

\* A writer alone never meets another's snapshot, and a crash is counted.
LEMMA NoFailure ==
  ASSUME CleanInv, crashes' = 0, NEW p \in Procs
  PROVE  ~CopyFails(p) /\ ~Crash(p)
<1>1. ~Crash(p)
  BY BoundsAssumption DEF Crash, CleanInv, HandoffInv, SnapInv, AppendInv, HistoryInv, TypeOK
<1>2. SUFFICES ASSUME CopyFails(p) PROVE FALSE
  BY <1>1
<1>3. pc[p] \in {"copy_tree", "copy_files"} /\ plan[p] = meta
  BY <1>2 DEF CopyFails, CleanInv, HandoffInv, SnapInv, PlanIsMeta, Settled, Snapping
<1>. QED
  BY <1>2, <1>3 DEF CopyFails, CleanInv, HandoffInv, SnapInv, SnapshotUnderWay

LEMMA CleanNext ==
  ASSUME SingleWriter, CleanInv, [Next]_vars, crashes' = 0 PROVE Clean'
<1>1. HandoffInv'
  BY HandoffInvNext DEF CleanInv
<1>2. ASSUME NEW p \in Procs, Begin(p) \/ Step(p) \/ Crash(p) PROVE Clean'
  BY <1>1, <1>2, CleanQuiet, CleanAccept, CleanWrite, CleanCommit, CleanCopy, CleanManifest,
     CleanRender, CleanSave, NoFailure DEF Step
<1>3. ASSUME UNCHANGED vars PROVE Clean'
  BY <1>3 DEF vars, CleanInv, Clean, OlderComplete, TextsSaved, MetaAgrees, CommitPending,
              NextStatus, RenderedLater, HandoffMatchesSnapshot, Complete
<1>. QED
  BY <1>2, <1>3 DEF Next

LEMMA CrashesCounted ==
  ASSUME [Next]_vars PROVE crashes' = crashes \/ crashes' = crashes + 1
<1>1. ASSUME NEW p \in Procs, Begin(p) PROVE crashes' = crashes
  BY <1>1 DEF Begin, RefuseCancelled, BeginMutation, BeginBuild
<1>2. ASSUME NEW p \in Procs, Step(p) PROVE crashes' = crashes
  BY <1>2 DEF Step, ReadText, RefuseTransition, RefuseDone, SkipMutation, AcceptMutation,
       WriteComponent, WriteMetadata, ResetSnapshot, CopyMetadata, MakeTree, CopyFails,
       CopyFile, WriteManifest, LoadForBuild, RefuseBuild, StartRender, WriteVersioned,
       WriteLatest, SaveRendered
<1>3. ASSUME NEW p \in Procs, Crash(p) PROVE crashes' = crashes + 1
  BY <1>3 DEF Crash
<1>4. ASSUME UNCHANGED vars PROVE crashes' = crashes
  BY <1>4 DEF vars
<1>. QED
  BY <1>1, <1>2, <1>3, <1>4 DEF Next

UncrashedInv == HandoffInv /\ (crashes = 0 => Clean)

LEMMA UncrashedInvNext ==
  ASSUME SingleWriter PROVE UncrashedInv /\ [Next]_vars => UncrashedInv'
<1> SUFFICES ASSUME UncrashedInv, [Next]_vars PROVE UncrashedInv'
  OBVIOUS
<1>1. HandoffInv'
  BY HandoffInvNext DEF UncrashedInv
<1>2. ASSUME crashes' = 0 PROVE Clean'
  <2>1. crashes \in Nat
    BY BoundsAssumption DEF UncrashedInv, HandoffInv, SnapInv, AppendInv, HistoryInv, TypeOK
  <2>2. crashes = 0
    BY <1>2, <2>1, CrashesCounted
  <2>3. CleanInv
    BY <2>2 DEF UncrashedInv, CleanInv
  <2>. QED
    BY <1>2, <2>3, CleanNext
<1>. QED
  BY <1>1, <1>2 DEF UncrashedInv

LEMMA UncrashedInvInit == Init => UncrashedInv
BY CleanInvInit DEF CleanInv, UncrashedInv

\* As long as the only writer has not crashed, between two commands every version
\* has its snapshot, the newest snapshot holds the texts of the component files,
\* and so do the hashes of plan.yaml.
THEOREM UncrashedVersionsComplete ==
  ASSUME SingleWriter PROVE Spec => [](crashes = 0 => VersionsComplete)
<1>1. UncrashedInv => (crashes = 0 => VersionsComplete)
  <2> SUFFICES ASSUME Clean, Quiescent
               PROVE  /\ \A v \in 1 .. meta.version : Complete(snaps[v])
                      /\ snaps[meta.version].files = content
                      /\ meta.sha = content
    BY DEF UncrashedInv, VersionsComplete
  <2>1. PICK p \in Procs : pc[p] = Idle
    BY ProcsAssumption DEF Quiescent
  <2>. QED
    BY <2>1 DEF Clean, OlderComplete, TextsSaved, MetaAgrees, Saving, Snapping, Idle
<1>. QED
  BY <1>1, UncrashedInvInit, UncrashedInvNext, PTL DEF Spec

\* As long as the only writer has not crashed, between two commands a plan that
\* says done passes every guardrail: the gate looked at the very texts that the
\* command then wrote.
THEOREM UncrashedDoneIsReady ==
  ASSUME SingleWriter PROVE Spec => [](crashes = 0 => DoneIsReady)
<1>1. UncrashedInv => (crashes = 0 => DoneIsReady)
  <2> SUFFICES ASSUME Clean, Quiescent, meta.status = "done" PROVE DoneAllowed(content)
    BY DEF UncrashedInv, DoneIsReady
  <2>1. PICK p \in Procs : pc[p] = Idle
    BY ProcsAssumption DEF Quiescent
  <2>. QED
    BY <2>1 DEF Clean, MetaAgrees, Idle
<1>. QED
  BY <1>1, UncrashedInvInit, UncrashedInvNext, PTL DEF Spec

\* As long as the only writer has not crashed, the handoff rendered for a version
\* shows the texts in that version's finished snapshot.
THEOREM UncrashedHandoffMatches ==
  ASSUME SingleWriter PROVE Spec => [](crashes = 0 => HandoffMatchesSnapshot)
<1>1. UncrashedInv => (crashes = 0 => HandoffMatchesSnapshot)
  BY DEF UncrashedInv, Clean
<1>. QED
  BY <1>1, UncrashedInvInit, UncrashedInvNext, PTL DEF Spec

-----------------------------------------------------------------------------
(* The promise of VersionedPlan *)

LEMMA OneLonger ==
  ASSUME NEW S, NEW n \in Nat, NEW s \in [1 .. n -> S], NEW t \in [1 .. n + 1 -> S],
         \A i \in 1 .. n : t[i] = s[i]
  PROVE  Len(s) = n /\ Len(t) = n + 1 /\ t = Append(s, t[n + 1])
<1>1. s \in Seq(S) /\ Len(s) = n
  OBVIOUS
<1>2. t \in Seq(S) /\ Len(t) = n + 1
  OBVIOUS
<1> DEFINE a == Append(s, t[n + 1])
<1>3. t[n + 1] \in S
  OBVIOUS
<1>4. a \in Seq(S) /\ Len(a) = n + 1
  BY <1>1, <1>3
<1>5. \A i \in 1 .. n : a[i] = s[i]
  BY <1>1, <1>3
<1>6. a[n + 1] = t[n + 1]
  BY <1>1, <1>3
<1> HIDE DEF a
<1>7. \A i \in 1 .. n + 1 : a[i] = t[i]
  BY <1>5, <1>6
<1>8. a = t
  BY <1>2, <1>4, <1>7
<1>. QED
  BY <1>1, <1>2, <1>8 DEF a

\* ValidTransitions allows nothing that the promise forbids.
LEMMA TransitionsKeepPromise ==
  ASSUME NEW current \in Statuses, NEW next \in Statuses, AllowedStep(current, next)
  PROVE  Promise!MayFollow(next, current)
BY DEF Promise!MayFollow, AllowedStep, ValidTransitions, Statuses

\* Version v of the log, from the history and the texts.
LogEntry(v) ==
  [status   |-> meta.history[v].status,
   contents |-> IF Complete(snaps[v]) THEN snaps[v].files ELSE content]

LEMMA LogEntries == VersionLog = [v \in 1 .. meta.version |-> LogEntry(v)]
BY DEF VersionLog, LogEntry

\* The same number of versions, each with the same texts: the same log.
LEMMA SameLog ==
  ASSUME meta'.version = meta.version, meta'.history = meta.history,
         \A v \in 1 .. meta.version : LogEntry(v)'.contents = LogEntry(v).contents
  PROVE  VersionLog' = VersionLog
<1>1. \A v \in 1 .. meta.version : LogEntry(v)' = LogEntry(v)
  BY DEF LogEntry
<1>2. VersionLog' = [v \in 1 .. meta'.version |-> LogEntry(v)']
  BY DEF VersionLog, LogEntry
<1>. QED
  BY <1>1, <1>2, LogEntries

\* Only the write of plan.yaml makes a version: the other steps leave the log alone.
LEMMA LogKept ==
  ASSUME CleanInv, NEW p \in Procs, Begin(p) \/ Step(p), ~WriteMetadata(p), ~CopyFails(p),
         SingleWriter
  PROVE  VersionLog' = VersionLog
<1>0. /\ TypeOK /\ meta.version \in Versions /\ snaps \in [Versions -> Snapshot]
      /\ pc \in [Procs -> {Idle} \cup Mutating \cup Building]
      /\ \A v \in 1 .. meta.version : v \in Versions
  BY CleanFacts
<1>1. ASSUME UNCHANGED <<meta, content, snaps>> PROVE VersionLog' = VersionLog
  BY <1>1 DEF VersionLog, Complete
<1>2. CASE \/ Begin(p) \/ ReadText(p) \/ RefuseTransition(p) \/ RefuseDone(p) \/ SkipMutation(p)
           \/ LoadForBuild(p) \/ RefuseBuild(p) \/ StartRender(p) \/ WriteLatest(p)
  BY <1>1, <1>2, CleanQuiet
<1>3. CASE AcceptMutation(p) \/ WriteVersioned(p)
  BY <1>1, <1>3 DEF AcceptMutation, WriteVersioned, disk
<1>4. CASE WriteComponent(p)
  <2>1. pc[p] = "write" /\ meta' = meta /\ snaps' = snaps
    BY <1>4 DEF WriteComponent
  <2>2. \A v \in 1 .. meta.version : Complete(snaps[v])
    BY <2>1 DEF CleanInv, Clean, OlderComplete, Snapping
  <2>3. \A v \in 1 .. meta.version : LogEntry(v)'.contents = LogEntry(v).contents
    BY <2>1, <2>2 DEF LogEntry, Complete
  <2>. QED
    BY <2>1, <2>3, SameLog
<1>5. CASE ResetSnapshot(p) \/ CopyMetadata(p) \/ MakeTree(p) \/ CopyFile(p)
  <2>1. /\ pc[p] \in Snapping /\ pc'[p] \in Snapping /\ plan[p] = meta
        /\ UNCHANGED <<meta, content>>
    BY <1>0, <1>5 DEF Goto, ResetSnapshot, CopyMetadata, MakeTree, CopyFile, Snapping, Settled,
                      CleanInv, HandoffInv, SnapInv, PlanIsMeta
  <2>2. \A v \in Versions \ {meta.version} : snaps'[v] = snaps[v]
    BY <1>0, <1>5, <2>1 DEF ResetSnapshot, CopyMetadata, MakeTree, CopyFile
  <2>3. [Next]_vars
    BY DEF Next
  <2>4. SnapInv'
    BY <2>3, SnapInvStep DEF CleanInv, HandoffInv
  <2>5. ~Complete(snaps[meta.version]) /\ ~Complete(snaps'[meta.version])
    BY <2>1, <2>4 DEF CleanInv, HandoffInv, SnapInv, SnapshotUnderWay, Complete
  <2>6. \A v \in 1 .. meta.version : LogEntry(v)'.contents = LogEntry(v).contents
    BY <1>0, <2>1, <2>2, <2>5 DEF LogEntry, Complete
  <2>. QED
    BY <2>1, <2>6, SameLog
<1>6. CASE WriteManifest(p)
  <2>1. /\ UNCHANGED <<meta, content>>
        /\ \A v \in Versions \ {meta.version} : snaps'[v] = snaps[v]
        /\ Complete(snaps'[meta.version]) /\ snaps'[meta.version].files = content
        /\ ~Complete(snaps[meta.version])
    BY <1>6, ManifestFacts
  <2>2. \A v \in 1 .. meta.version : LogEntry(v)'.contents = LogEntry(v).contents
    BY <1>0, <2>1 DEF LogEntry, Complete
  <2>. QED
    BY <2>1, <2>2, SameLog
<1>7. CASE SaveRendered(p)
  <2>1. UNCHANGED <<content, snaps>> /\ meta'.version = meta.version /\ meta'.history = meta.history
    BY <1>7, CleanSave
  <2>2. \A v \in 1 .. meta.version : LogEntry(v)'.contents = LogEntry(v).contents
    BY <2>1 DEF LogEntry, Complete
  <2>. QED
    BY <2>1, <2>2, SameLog
<1>. QED
  BY <1>2, <1>3, <1>4, <1>5, <1>6, <1>7 DEF Step

\* The write of plan.yaml is the commit of the promise.
LEMMA LogCommitted ==
  ASSUME CleanInv, CleanInv', NEW p \in Procs, WriteMetadata(p)
  PROVE  Promise!Commit
<1>0. /\ meta.version \in Versions /\ content \in Contents /\ meta \in Meta
      /\ meta.version \in Nat /\ WellFormed(meta)
  BY CleanFacts DEF CleanInv, HandoffInv, SnapInv, AppendInv, HistoryInv, HistoryWellFormed, Versions
<1>1. /\ pc[p] = "write" /\ pc'[p] = "snapshot" /\ UNCHANGED <<content, snaps, rendered>>
      /\ meta'.version = meta.version + 1
      /\ NextStatus(p) = "done" => DoneAllowed(content)
      /\ content # snaps[meta.version].files \/ NextStatus(p) # meta.status
      /\ AllowedStep(meta.status, NextStatus(p)) /\ NextStatus(p) \in Statuses
  BY CommitFacts
<1> DEFINE n == meta.version
<1>2. PICK e \in Entry : e.status = NextStatus(p) /\ meta'.history = Append(meta.history, e)
  BY CommitFacts
<1>3. meta.history \in Seq(Entry) /\ Len(meta.history) = n
  BY <1>0 DEF WellFormed, Meta
<1>4. /\ meta'.history[n + 1] = e
      /\ \A v \in 1 .. n : meta'.history[v] = meta.history[v]
  BY <1>0, <1>2, <1>3
<1>5. \A v \in 1 .. n : LogEntry(v)' = LogEntry(v)
  <2>1. \A v \in 1 .. n : Complete(snaps[v])
    BY <1>1 DEF CleanInv, Clean, OlderComplete, Snapping
  <2>. QED
    BY <1>1, <1>4, <2>1 DEF LogEntry, Complete
<1>6. /\ LogEntry(n).status = meta.status
      /\ LogEntry(n).contents = snaps[n].files
  <2>1. n \in 1 .. n
    BY <1>0 DEF Versions
  <2>2. Complete(snaps[n])
    BY <1>1, <2>1 DEF CleanInv, Clean, OlderComplete, Snapping
  <2>3. meta.history[n].status = meta.status
    BY <1>0 DEF WellFormed
  <2>. QED
    BY <2>2, <2>3 DEF LogEntry
<1> DEFINE new == [status |-> NextStatus(p), contents |-> content]
<1>7. [v \in 1 .. n + 1 |-> LogEntry(v)'][n + 1] = new
  <2>1. ~Complete(snaps'[n + 1])
    BY <1>0, <1>1 DEF CleanInv, HandoffInv, SnapInv, SnapshotUnderWay, Snapping
  <2>2. \A v \in 1 .. n + 1 : v = n + 1 => LogEntry(v)' = new
    BY <1>1, <1>2, <1>4, <2>1 DEF LogEntry, Complete
  <2>3. n + 1 \in 1 .. n + 1
    BY <1>0
  <2>. QED
    BY <2>2, <2>3
<1>8. /\ VersionLog = [v \in 1 .. n |-> LogEntry(v)]
      /\ VersionLog' = [v \in 1 .. n + 1 |-> LogEntry(v)']
  BY <1>1 DEF VersionLog, LogEntry
<1>9. VersionLog'[n + 1] = new /\ VersionLog[n] = LogEntry(n)
  <2>1. n \in 1 .. n
    BY <1>0 DEF Versions
  <2>. QED
    BY <1>7, <1>8, <2>1
<1>10. \A v \in 1 .. n : VersionLog'[v] = VersionLog[v]
  BY <1>0, <1>5, <1>8
<1> DEFINE S == {VersionLog'[v] : v \in 1 .. n + 1}
<1>11. VersionLog' \in [1 .. n + 1 -> S] /\ VersionLog \in [1 .. n -> S]
  <2>1. VersionLog' = [v \in 1 .. n + 1 |-> VersionLog'[v]]
    BY <1>8
  <2>2. VersionLog = [v \in 1 .. n |-> VersionLog[v]]
    BY <1>8
  <2>. QED
    BY <1>0, <1>10, <2>1, <2>2
<1> HIDE DEF S, n, new
<1>12. /\ Len(VersionLog) = n /\ Len(VersionLog') = n + 1
       /\ VersionLog' = Append(VersionLog, VersionLog'[n + 1])
  BY <1>0, <1>10, <1>11, OneLonger DEF n
<1>13. new # VersionLog[n] /\ VersionLog[n].status = meta.status
  BY <1>1, <1>6, <1>9 DEF new, n
<1>14. new.status = NextStatus(p) /\ new.contents = content
  BY DEF new
<1>15. Promise!MayFollow(new.status, VersionLog[n].status)
  <2>1. meta.status \in Statuses
    BY <1>0 DEF Meta
  <2>. QED
    BY <1>1, <1>13, <1>14, <2>1, TransitionsKeepPromise
<1>16. Promise!Sound(new)
  BY <1>0, <1>1 DEF Promise!Sound, Promise!Version, Promise!Statuses, Statuses, Contents, new
<1>. QED
  BY <1>9, <1>12, <1>13, <1>15, <1>16 DEF Promise!Commit

\* The plan a creation leaves is a log of one version.
LEMMA LogBegins == Init => Promise!Init
<1> SUFFICES ASSUME Init PROVE Promise!Init
  OBVIOUS
<1>1. CleanInv /\ TypeOK
  BY CleanInvInit, CleanFacts
<1>2. PICK s \in Statuses, k \in InitialContents :
        /\ s = "done" => DoneAllowed(k)
        /\ meta = FirstMeta(s, k, 1)
        /\ content = k
        /\ snaps = [v \in Versions |-> IF v = 1 THEN FullSnap(FirstMeta(s, k, 0), k) ELSE NoSnap]
  BY DEF Init
<1>3. meta.version = 1 /\ 1 \in Versions /\ k \in Contents /\ meta.history[1].status = s
  BY <1>1, <1>2, BoundsAssumption DEF FirstMeta, Versions, TypeOK
<1>4. snaps[1].files = k
  BY <1>2, <1>3 DEF FullSnap
<1>5. VersionLog = [v \in 1 .. 1 |-> LogEntry(v)] /\ LogEntry(1) = [status |-> s, contents |-> k]
  BY <1>2, <1>3, <1>4, LogEntries DEF LogEntry
<1>6. VersionLog[1] = [status |-> s, contents |-> k] /\ Len(VersionLog) = 1
  BY <1>5
<1>7. Promise!Sound(VersionLog[1])
  BY <1>2, <1>3, <1>6 DEF Promise!Sound, Promise!Version, Promise!Statuses, Statuses, Contents
<1>. QED
  BY <1>6, <1>7 DEF Promise!Init

\* Under a single writer that does not crash, a step commits a version or leaves
\* the log alone.
LEMMA WriterCommits ==
  ASSUME SingleWriter, MaxCrashes = 0, UncrashedInv, UncrashedInv', [Next]_vars
  PROVE  [Promise!Commit]_VersionLog
<1>1. CleanInv /\ CleanInv' /\ crashes' = 0
  BY DEF UncrashedInv, CleanInv, HandoffInv, SnapInv, AppendInv, HistoryInv, TypeOK
<1>2. ASSUME NEW p \in Procs, Begin(p) \/ Step(p) \/ Crash(p)
      PROVE  Promise!Commit \/ VersionLog' = VersionLog
  BY <1>1, <1>2, NoFailure, LogCommitted, LogKept
<1>3. ASSUME UNCHANGED vars PROVE VersionLog' = VersionLog
  BY <1>3 DEF vars, VersionLog, Complete
<1>. QED
  BY <1>2, <1>3 DEF Next

\* A single writer that does not crash implements VersionedPlan: the write of
\* plan.yaml by apply_plan_mutations is the commit of a version, and no other step,
\* the many of snapshot_version and build_plan included, changes the log.
THEOREM WriterKeepsPromise ==
  ASSUME SingleWriter, MaxCrashes = 0 PROVE Spec => ImplementsVersionedPlan
<1>1. UncrashedInv /\ [Next]_vars => UncrashedInv'
  BY UncrashedInvNext
<1>2. UncrashedInv /\ UncrashedInv' /\ [Next]_vars => [Promise!Commit]_VersionLog
  BY WriterCommits
<1>. QED
  BY <1>1, <1>2, LogBegins, UncrashedInvInit, PTL DEF Spec, ImplementsVersionedPlan, Promise!Spec

\* What the promise comes to for a reader of the versions: each says done only
\* with texts that are ready, and each differs from the one before, in the texts
\* or in a status that may follow.
Chained(log) ==
  /\ \A v \in 1 .. Len(log) : Promise!Sound(log[v])
  /\ \A v \in 2 .. Len(log) :
       log[v] # log[v - 1] /\ Promise!MayFollow(log[v].status, log[v - 1].status)

LogInv == VersionLog \in Seq(Promise!Version) /\ VersionLog # <<>> /\ Chained(VersionLog)

LEMMA OneElement ==
  ASSUME NEW S, NEW log \in [1 .. 1 -> S]
  PROVE  log \in Seq(S)
<1>1. PICK n \in Nat : n = 1
  OBVIOUS
<1>2. log \in [1 .. n -> S]
  BY <1>1
<1>3. [1 .. n -> S] \subseteq Seq(S)
  OBVIOUS
<1>. QED
  BY <1>2, <1>3

LEMMA LogInvInit == Init => LogInv
<1> SUFFICES ASSUME Init PROVE LogInv
  OBVIOUS
<1>1. Len(VersionLog) = 1 /\ Promise!Sound(VersionLog[1])
  BY LogBegins DEF Promise!Init
<1>2. meta.version = 1
  BY DEF Init, FirstMeta
<1>3. VersionLog = [v \in 1 .. 1 |-> VersionLog[v]]
  BY <1>2, LogEntries
<1>4. VersionLog[1] \in Promise!Version
  BY <1>1 DEF Promise!Sound
<1>5. VersionLog \in [1 .. 1 -> Promise!Version]
  BY <1>3, <1>4
<1>6. VersionLog \in Seq(Promise!Version)
  BY <1>5, OneElement
<1>. QED
  BY <1>1, <1>6 DEF LogInv, Chained

LEMMA LogInvNext == LogInv /\ [Promise!Commit]_VersionLog => LogInv'
<1> SUFFICES ASSUME LogInv, [Promise!Commit]_VersionLog PROVE LogInv'
  OBVIOUS
<1>1. CASE VersionLog' = VersionLog
  BY <1>1 DEF LogInv, Chained, Promise!Sound, Promise!Version, Promise!MayFollow, Promise!Statuses
<1>2. CASE Promise!Commit
  <2> DEFINE log == VersionLog
             n   == Len(log)
             new == log'[Len(log')]
  <2>1. /\ log' = Append(log, new) /\ Promise!Sound(new)
        /\ new # log[n] /\ Promise!MayFollow(new.status, log[n].status)
    BY <1>2 DEF Promise!Commit
  <2>2. log \in Seq(Promise!Version) /\ new \in Promise!Version /\ n \in Nat \ {0}
    BY <2>1 DEF LogInv, Promise!Sound
  <2>. HIDE DEF new, log
  <2>3. /\ log' \in Seq(Promise!Version) /\ Len(log') = n + 1 /\ log'[n + 1] = new
        /\ \A v \in 1 .. n : log'[v] = log[v]
    BY <2>1, <2>2
  <2>4. \A v \in 1 .. n + 1 : v \in 1 .. n \/ v = n + 1
    BY <2>2
  <2>5. \A v \in 2 .. n + 1 : /\ v \in 2 .. n \/ v = n + 1
                              /\ v - 1 \in 1 .. n
    BY <2>2
  <2>6. \A v \in 1 .. n : Promise!Sound(log[v])
    BY DEF LogInv, Chained, log
  <2>7. \A v \in 2 .. n :
          log[v] # log[v - 1] /\ Promise!MayFollow(log[v].status, log[v - 1].status)
    BY DEF LogInv, Chained, log
  <2>8. \A v \in 1 .. n + 1 : Promise!Sound(log'[v])
    BY <2>1, <2>3, <2>4, <2>6
  <2>9. \A v \in 2 .. n + 1 :
          log'[v] # log'[v - 1] /\ Promise!MayFollow(log'[v].status, log'[v - 1].status)
    BY <2>1, <2>2, <2>3, <2>5, <2>7
  <2>10. Chained(log')
    BY <2>3, <2>8, <2>9 DEF Chained
  <2>. QED
    BY <2>2, <2>3, <2>10
       DEF LogInv, log, Chained, Promise!Sound, Promise!Version, Promise!MayFollow,
           Promise!Statuses
<1>. QED
  BY <1>1, <1>2

\* Every version that apply_plan_mutations ever wrote is sound and differs from the
\* one before, so that none was made for nothing, and what was written once is
\* still in the log.
THEOREM EveryVersionCounts ==
  ASSUME SingleWriter, MaxCrashes = 0
  PROVE  Spec => /\ []Chained(VersionLog)
                 /\ [][\A v \in 1 .. Len(VersionLog) : VersionLog'[v] = VersionLog[v]]_VersionLog
<1>1. UncrashedInv /\ [Next]_vars => UncrashedInv'
  BY UncrashedInvNext
<1>2. UncrashedInv /\ UncrashedInv' /\ [Next]_vars => [Promise!Commit]_VersionLog
  BY WriterCommits
<1>3. LogInv => Chained(VersionLog)
  BY DEF LogInv
<1>4. LogInv /\ [Promise!Commit]_VersionLog =>
        [\A v \in 1 .. Len(VersionLog) : VersionLog'[v] = VersionLog[v]]_VersionLog
  <2> SUFFICES ASSUME LogInv, Promise!Commit
               PROVE  \A v \in 1 .. Len(VersionLog) : VersionLog'[v] = VersionLog[v]
    OBVIOUS
  <2>1. /\ VersionLog' = Append(VersionLog, VersionLog'[Len(VersionLog')])
        /\ VersionLog \in Seq(Promise!Version)
    BY DEF Promise!Commit, LogInv
  <2>. QED
    BY <2>1
<1>. QED
  BY <1>1, <1>2, <1>3, <1>4, LogInvInit, LogInvNext, UncrashedInvInit, PTL DEF Spec

=============================================================================
