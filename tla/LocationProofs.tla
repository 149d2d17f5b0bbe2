---------------------------- MODULE LocationProofs ----------------------------
(***************************************************************************)
(* For any roots, and however many inits, deaths, settings and plans there   *)
(* are: what an init knows of the configuration stays true until a command   *)
(* changes the configuration under it, and from that follow the types, the   *)
(* order of binding and data, and that records stay in sight.  With what an  *)
(* init has written so far it follows too that every init comes to an end,   *)
(* and that one that ends leaves a project that plans can be made in.        *)
(***************************************************************************)
EXTENDS Location, TLAPS

\* What a first init has still to write, and what comes after the manifest.
Before == {"store", "mkdir", "config", "manifest"}
Behind == {"bind_config", "bind_data", "storage", "verify"}

\* The paths of the two kinds of init, and how far each has come: what is
\* registered and made stays so, whoever interferes.
PathInv ==
  /\ manifest = "absent" => override = Nil
  /\ init # Nil =>
       /\ init.path = "fresh" =>
            /\ pc \in Before \cup Behind
            /\ pc \in Before => manifest = "absent"
            /\ pc \in Behind => manifest \in Places
            /\ pc \notin {"store", "mkdir"} => dir[init.target] # Nil
       /\ init.path = "recover" =>
            /\ pc \in {"load", "mend", "reload", "manifest", "config", "store"} \cup Behind
            /\ pc = "manifest" => manifest # "absent"
            /\ pc \in {"config", "store"} \cup Behind => manifest \in Places
       /\ pc \in {"bind_data", "storage", "verify", "mend", "reload"} => init.at \in Places
       /\ pc \in {"storage", "verify", "mend", "reload"} =>
            dir[init.at] # Nil /\ dir[init.at].bound

\* Nobody having changed the configuration: the directory the init loaded is the
\* one that is configured, a first init has configured its own, an init that
\* registers anew found a project that does not load, and one that is about to
\* report success has seen to storage.yaml.
UnracedInv ==
  ~raced /\ init # Nil =>
    /\ pc \in {"bind_data", "storage", "verify", "mend", "reload"} => init.at = Resolved
    /\ init.path = "fresh" /\ pc \in Behind => manifest = init.target /\ override = Nil
    /\ init.path = "recover" /\ pc = "manifest" => ~Valid
    /\ pc \in {"mend", "reload"} => Valid
    /\ pc \in {"reload", "verify"} => dir[Resolved].storage

LocInv == TypeOK /\ PathInv /\ UnracedInv /\ BoundFirst

\* What a `plan create' has loaded stays fit to be written to, wherever the
\* configuration points by then.
CreatingInv ==
  /\ creating # {} => manifest # "absent"
  /\ \A place \in creating : dir[place] # Nil /\ dir[place].bound

\* Where a `storage set' that is to redirect the configuration saw it point to,
\* there were no records, and the ones that are there now are newer.
Seen(request) == Target(request.override, request.manifest)

Redirecting(request) ==
  /\ request.manifest \in Places
  /\ Seen(request) # IF request.local THEN Target(request.place, request.manifest)
                     ELSE Target(request.override, request.place)

SettingInv ==
  \A request \in setting :
    /\ manifest # "absent" /\ request.made <= made
    /\ Redirecting(request) /\ dir[Seen(request)] # Nil =>
         \A plan \in dir[Seen(request)].records : plan > request.made

UnlockedInv == CreatingInv /\ SettingInv

\* The order of the writes, spelled out.
LEMMA OnwardValues ==
  /\ Onward["fresh"]["store"] = "mkdir" /\ Onward["fresh"]["mkdir"] = "config"
  /\ Onward["fresh"]["config"] = "manifest" /\ Onward["fresh"]["manifest"] = "bind_config"
  /\ Onward["fresh"]["bind_config"] = "bind_data" /\ Onward["fresh"]["bind_data"] = "storage"
  /\ Onward["fresh"]["storage"] = "verify"
  /\ Onward["recover"]["manifest"] = "config" /\ Onward["recover"]["config"] = "store"
  /\ Onward["recover"]["store"] = "bind_config"
  /\ Onward["recover"]["bind_config"] = "bind_data" /\ Onward["recover"]["bind_data"] = "storage"
  /\ Onward["recover"]["storage"] = "verify" /\ Onward["recover"]["mend"] = "reload"
BY DEF Onward

\* Where the configuration points to is a place once the manifest registers one.
LEMMA ResolvedType ==
  ASSUME TypeOK, manifest \in Places
  PROVE  Resolved \in Places
BY NilAssumption DEF TypeOK, Resolved, Target

LEMMA LocInvInit == Init => LocInv
<1> SUFFICES ASSUME Init PROVE LocInv
  OBVIOUS
<1>1. PICK leftover \in {Nil, [Empty EXCEPT !.storage = TRUE]} :
        dir = [place \in Places |-> IF place = "project" THEN leftover ELSE Nil]
  BY DEF Init
<1>2. leftover = Nil \/ (leftover \in Data /\ leftover.records = {})
  BY <1>1 DEF Data, Empty
<1>3. TypeOK
  <2>1. dir \in [Places -> Data \cup {Nil}]
    BY <1>1, <1>2
  <2>2. 0 \in 0 .. MaxPlans /\ 0 \in 0 .. MaxCommands /\ 0 \in 0 .. MaxCrashes
    BY BoundsAssumption
  <2>. QED
    BY <2>1, <2>2 DEF Init, TypeOK, Labels
<1>4. PathInv /\ UnracedInv
  BY DEF Init, PathInv, UnracedInv
<1>5. BoundFirst
  BY <1>1, <1>2, NilAssumption DEF BoundFirst
<1>. QED
  BY <1>3, <1>4, <1>5 DEF LocInv

\* An init is over: nothing it knew matters any more.
LEMMA Over ==
  ASSUME LocInv, Leave, UNCHANGED <<disk, creating, setting, made, raced>>,
         commands' \in 0 .. MaxCommands, crashes' \in 0 .. MaxCrashes
  PROVE  LocInv' /\ Visible' = Visible /\ Usable' = Usable
<1>1. TypeOK'
  BY DEF LocInv, TypeOK, Leave, disk, Labels
<1>2. PathInv' /\ UnracedInv'
  BY DEF LocInv, PathInv, UnracedInv, Leave, disk
<1>3. BoundFirst' /\ Visible' = Visible /\ Usable' = Usable
  BY DEF LocInv, BoundFirst, disk, Visible, Usable, Valid, Resolved, Target, Marked
<1>. QED
  BY <1>1, <1>2, <1>3 DEF LocInv

\* What is the same when an init takes a step that touches no file.
LEMMA DiskKept ==
  ASSUME TypeOK, BoundFirst, UNCHANGED <<disk, creating, setting, made, raced>>
  PROVE  /\ BoundFirst' /\ Visible' = Visible /\ Resolved' = Resolved
         /\ Valid' = Valid /\ Usable' = Usable
BY DEF BoundFirst, disk, Visible, Usable, Valid, Resolved, Target, Marked

LEMMA StartStep ==
  ASSUME LocInv, NEW target \in Places, NEW create \in BOOLEAN, StartInit(target, create),
         commands' \in 0 .. MaxCommands
  PROVE  LocInv' /\ Visible' = Visible /\ Usable' = Usable
<1> DEFINE fresh == manifest = "absent" /\ config = "absent"
           run   == [path |-> IF fresh THEN "fresh" ELSE "recover", target |-> target,
                     create |-> create, at |-> Nil]
<1>1. /\ pc' = IF fresh THEN "store" ELSE "load"
      /\ init' = run /\ UNCHANGED <<disk, creating, setting, made, raced, crashes>>
  BY DEF StartInit
<1>2. run \in Run /\ run # Nil
  BY NilAssumption DEF Run
<1>3. run.path = (IF fresh THEN "fresh" ELSE "recover") /\ run.target = target
  OBVIOUS
<1>. HIDE DEF run
<1>4. TypeOK'
  BY <1>1, <1>2 DEF LocInv, TypeOK, disk, Labels
<1>5. PathInv' /\ UnracedInv'
  BY <1>1, <1>2, <1>3 DEF LocInv, PathInv, UnracedInv, disk, Before, Behind
<1>. QED
  BY <1>1, <1>4, <1>5, DiskKept DEF LocInv

\* What does not load is registered anew, by an init that saw it not load.
LEMMA ReregisterStep ==
  ASSUME LocInv, init # Nil, init.path = "recover", ~Valid, Reregister, Quiet, UNCHANGED disk
  PROVE  LocInv' /\ Visible' = Visible /\ Usable' = Usable
<1>1. CASE manifest = "absent"
  BY <1>1, Over DEF LocInv, TypeOK, Reregister, Quiet
<1>2. CASE manifest # "absent"
  <2>1. pc' = "manifest" /\ init' = init /\ UNCHANGED <<disk, creating, setting, made, raced, commands, crashes>>
    BY <1>2 DEF Reregister, Quiet
  <2>2. TypeOK'
    BY <2>1 DEF LocInv, TypeOK, disk, Labels
  <2>3. ~Valid'
    BY <2>1, DiskKept DEF LocInv
  <2>4. PathInv' /\ UnracedInv'
    BY <1>2, <2>1, <2>3 DEF LocInv, PathInv, UnracedInv, disk, Before, Behind
  <2>. QED
    BY <2>1, <2>2, <2>4, DiskKept DEF LocInv
<1>. QED
  BY <1>1, <1>2

LEMMA LoadStep ==
  ASSUME LocInv, Load
  PROVE  LocInv' /\ Visible' = Visible /\ Usable' = Usable
<1>1. init # Nil /\ init \in Run /\ pc = "load"
  BY DEF LocInv, TypeOK, Load
<1>2. init.path = "recover"
  BY <1>1 DEF LocInv, PathInv, Run, Before, Behind
<1>3. CASE ~Valid
  BY <1>1, <1>2, <1>3, ReregisterStep DEF Load
<1>4. CASE Valid
  <2>1. /\ pc' = IF Usable THEN "reload" ELSE "mend"
        /\ init' = [init EXCEPT !.at = Resolved]
        /\ UNCHANGED <<disk, creating, setting, made, raced, commands, crashes>>
    BY <1>4 DEF Load, Quiet
  <2>2. Resolved \in Places
    BY <1>4, ResolvedType DEF LocInv, Valid
  <2>3. init' \in Run /\ init'.at = Resolved /\ init'.path = "recover" /\ init' # Nil
    BY <1>1, <1>2, <2>1, <2>2, NilAssumption DEF Run
  <2>4. TypeOK'
    BY <2>1, <2>3 DEF LocInv, TypeOK, disk, Labels
  <2>5. PathInv'
    BY <1>4, <2>1, <2>2, <2>3 DEF LocInv, PathInv, disk, Before, Behind, Valid
  <2>6. Resolved' = Resolved /\ Valid' /\ Usable' = Usable
    BY <1>4, <2>1, DiskKept DEF LocInv
  <2>7. UnracedInv'
    BY <2>1, <2>3, <2>6 DEF UnracedInv, Usable, Behind
  <2>. QED
    BY <2>1, <2>4, <2>5, <2>7, DiskKept DEF LocInv
<1>. QED
  BY <1>3, <1>4

LEMMA ReloadStep ==
  ASSUME LocInv, Reload
  PROVE  LocInv' /\ Visible' = Visible /\ Usable' = Usable
<1>1. init # Nil /\ init \in Run /\ pc = "reload"
  BY DEF LocInv, TypeOK, Reload
<1>2. init.path = "recover"
  BY <1>1 DEF LocInv, PathInv, Run, Before, Behind
<1>3. CASE Valid
  BY <1>3, Over DEF Reload, Quiet, LocInv, TypeOK
<1>4. CASE ~Valid
  BY <1>1, <1>2, <1>4, ReregisterStep DEF Reload
<1>. QED
  BY <1>3, <1>4

\* What is known of the init that runs.
LEMMA Running ==
  ASSUME LocInv, pc # "idle"
  PROVE  /\ init # Nil /\ init \in Run /\ init.target \in Places
         /\ \/ init.path = "fresh" /\ pc \in Before \cup Behind
            \/ /\ init.path = "recover"
               /\ pc \in {"load", "mend", "reload", "manifest", "config", "store"} \cup Behind
BY DEF LocInv, TypeOK, PathInv, Run

LEMMA PrepareStep ==
  ASSUME LocInv, PrepareStore
  PROVE  LocInv' /\ Visible \subseteq Visible' /\ (Usable => Usable')
<1>1. pc = "store" /\ init # Nil /\ init \in Run /\ init.target \in Places
  BY Running DEF PrepareStore
<1>2. CASE Leave /\ UNCHANGED store
  BY <1>2, Over DEF PrepareStore, Quiet, LocInv, TypeOK, disk
<1>3. CASE ~Leave \/ store' # store
  <2>1. /\ init' = init /\ UNCHANGED <<manifest, override, config, dir, creating, setting, made, raced, commands, crashes>>
        /\ \/ pc' = pc
           \/ init.path = "fresh" /\ pc' = "mkdir"
           \/ init.path = "recover" /\ pc' = "bind_config"
        /\ store' \in [Roots -> {"absent", "empty", "foreign", "marked"}]
    BY <1>1, <1>3, Running, OnwardValues
       DEF PrepareStore, GoOn, Quiet, Leave, LocInv, TypeOK, Before, Behind
  <2>2. \A root \in Roots : store[root] = "marked" => store'[root] = "marked"
    BY <1>1 DEF PrepareStore, LocInv, TypeOK
  <2>3. TypeOK'
    BY <1>1, <2>1 DEF LocInv, TypeOK, Labels
  <2>4. PathInv'
    BY <1>1, <2>1, Running DEF LocInv, PathInv, Before, Behind
  <2>5. UnracedInv'
    BY <1>1, <2>1, Running
       DEF LocInv, PathInv, UnracedInv, Before, Behind, Resolved, Target
  <2>6. Usable => Usable'
    BY <2>1, <2>2 DEF Usable, Valid, Resolved, Target, Marked
  <2>7. Visible \subseteq Visible'
    BY <2>1, <2>6 DEF Visible, Resolved, Target
  <2>8. BoundFirst'
    BY <2>1 DEF LocInv, BoundFirst
  <2>. QED
    BY <2>3, <2>4, <2>5, <2>6, <2>7, <2>8 DEF LocInv
<1>. QED
  BY <1>2, <1>3

LEMMA EmptyType ==
  /\ Empty \in Data /\ Empty # Nil
  /\ Empty.bound = FALSE /\ Empty.storage = FALSE /\ Empty.records = {}
<1>1. Empty \in Data
  BY DEF Empty, Data
<1>. QED
  BY <1>1, NilAssumption DEF Empty

LEMMA MakeDataStep ==
  ASSUME LocInv, MakeData
  PROVE  LocInv' /\ Visible \subseteq Visible' /\ (Usable => Usable')
<1>1. pc = "mkdir" /\ init # Nil /\ init \in Run /\ init.target \in Places /\ init.path = "fresh"
  BY Running DEF MakeData, Behind
<1>2. CASE Abort
  BY <1>2, Over DEF Abort, Quiet, LocInv, TypeOK, disk
<1>3. CASE ~Abort
  <2>1. /\ dir[init.target] \in {Nil, Empty}
        /\ dir' = [dir EXCEPT ![init.target] = Empty]
        /\ pc' = "config" /\ init' = init
        /\ UNCHANGED <<manifest, override, config, store, creating, setting, made, raced, commands, crashes>>
    BY <1>1, <1>3, OnwardValues DEF MakeData, GoOn, Quiet
  <2>2. /\ Empty \in Data /\ Empty # Nil
        /\ Empty.bound = FALSE /\ Empty.storage = FALSE /\ Empty.records = {}
    BY EmptyType
  <2>3. /\ dir' \in [Places -> Data \cup {Nil}] /\ dir'[init.target] = Empty
        /\ \A place \in Places : place # init.target => dir'[place] = dir[place]
    BY <1>1, <2>1, <2>2 DEF LocInv, TypeOK
  <2>4. TypeOK'
    BY <1>1, <2>1, <2>3 DEF LocInv, TypeOK, Labels
  <2>5. manifest = "absent" /\ manifest \notin Places
    BY <1>1, NamesAssumption DEF LocInv, PathInv, Before, Places
  <2>6. PathInv'
    BY <1>1, <2>1, <2>2, <2>3, <2>5 DEF LocInv, PathInv, Before, Behind
  <2>7. UnracedInv'
    BY <1>1, <2>1, <2>3 DEF UnracedInv, Before, Behind
  <2>8. BoundFirst'
    BY <2>1, <2>2, <2>3 DEF LocInv, BoundFirst
  <2>9. ~Usable /\ Visible = {}
    BY <2>5 DEF Visible, Usable, Valid
  <2>. QED
    BY <2>4, <2>6, <2>7, <2>8, <2>9 DEF LocInv
<1>. QED
  BY <1>2, <1>3

LEMMA WriteConfigStep ==
  ASSUME LocInv, WriteConfig
  PROVE  LocInv' /\ Visible \subseteq Visible' /\ (Usable => Usable')
<1>1. pc = "config" /\ init # Nil /\ init \in Run
  BY Running DEF WriteConfig
<1>2. /\ init' = init
      /\ \/ init.path = "fresh" /\ pc' = "manifest"
         \/ init.path = "recover" /\ pc' = "store"
      /\ config' = IF config = "absent" THEN "unbound" ELSE config
      /\ UNCHANGED <<manifest, override, dir, store, creating, setting, made, raced, commands, crashes>>
  BY <1>1, OnwardValues DEF WriteConfig, GoOn, Quiet, Run
<1>3. TypeOK'
  BY <1>1, <1>2 DEF LocInv, TypeOK, Labels
<1>4. PathInv'
  BY <1>1, <1>2 DEF LocInv, PathInv, Before, Behind
<1>5. UnracedInv'
  BY <1>1, <1>2 DEF LocInv, UnracedInv, Before, Behind
<1>6. BoundFirst'
  BY <1>2 DEF LocInv, BoundFirst
<1>7. Visible \subseteq Visible' /\ (Usable => Usable')
  BY <1>2 DEF Visible, Usable, Valid, Resolved, Target, Marked
<1>. QED
  BY <1>3, <1>4, <1>5, <1>6, <1>7 DEF LocInv

\* The one write of an init that changes where the configuration points to: it
\* did not load, or there was no manifest.
LEMMA WriteManifestStep ==
  ASSUME LocInv, WriteManifest
  PROVE  LocInv' /\ ((Visible \subseteq Visible' /\ (Usable => Usable')) \/ raced')
<1>1. pc = "manifest" /\ init # Nil /\ init \in Run /\ init.target \in Places
  BY Running DEF WriteManifest
<1>2. /\ init' = init /\ manifest' = init.target
      /\ \/ init.path = "fresh" /\ pc' = "bind_config"
         \/ init.path = "recover" /\ pc' = "config"
      /\ UNCHANGED <<override, config, dir, store, creating, setting, made, raced, commands, crashes>>
  BY <1>1, OnwardValues DEF WriteManifest, GoOn, Quiet, Run
<1>3. manifest' # "absent"
  BY <1>1, <1>2, NamesAssumption DEF Places
<1>4. TypeOK'
  BY <1>1, <1>2 DEF LocInv, TypeOK, Labels
<1>5. PathInv'
  BY <1>1, <1>2, <1>3 DEF LocInv, PathInv, Before, Behind
<1>6. UnracedInv'
  BY <1>1, <1>2 DEF LocInv, PathInv, UnracedInv, Before, Behind
<1>7. BoundFirst'
  BY <1>2 DEF LocInv, BoundFirst
<1>8. ~raced => ~Valid
  <2>1. CASE init.path = "fresh"
    BY <1>1, <2>1, NamesAssumption DEF LocInv, PathInv, Before, Valid, Places
  <2>2. CASE init.path = "recover"
    BY <1>1, <2>2 DEF LocInv, UnracedInv
  <2>. QED
    BY <1>1, <2>1, <2>2 DEF Run
<1>9. (Visible \subseteq Visible' /\ (Usable => Usable')) \/ raced'
  BY <1>2, <1>8 DEF Visible, Usable
<1>. QED
  BY <1>4, <1>5, <1>6, <1>7, <1>9 DEF LocInv

LEMMA BindConfigStep ==
  ASSUME LocInv, BindConfig
  PROVE  LocInv' /\ Visible \subseteq Visible' /\ (Usable => Usable')
<1>1. pc = "bind_config" /\ init # Nil /\ init \in Run /\ manifest \in Places
  BY Running DEF BindConfig, LocInv, PathInv, Before, Behind
<1>2. /\ pc' = "bind_data" /\ config' = "bound"
      /\ init' = [init EXCEPT !.at = Resolved]
      /\ UNCHANGED <<manifest, override, dir, store, creating, setting, made, raced, commands, crashes>>
  BY <1>1, OnwardValues DEF BindConfig, Quiet, Run
<1>3. Resolved \in Places /\ Resolved' = Resolved
  BY <1>1, <1>2, ResolvedType DEF LocInv, Resolved, Target
<1>4. init' \in Run
  BY <1>1, <1>2, <1>3 DEF Run
<1>5. /\ init' # Nil /\ init'.at = Resolved
      /\ init'.path = init.path /\ init'.target = init.target
  BY <1>1, <1>2, <1>3, <1>4, NilAssumption DEF Run
<1>6. TypeOK'
  BY <1>2, <1>4, <1>5 DEF LocInv, TypeOK, Labels
<1>7. PathInv'
  BY <1>1, <1>2, <1>3, <1>5 DEF LocInv, PathInv, Before, Behind
<1>8. UnracedInv'
  BY <1>1, <1>2, <1>3, <1>5 DEF LocInv, UnracedInv, Before, Behind
<1>9. BoundFirst'
  BY <1>2 DEF LocInv, BoundFirst
<1>10. Visible \subseteq Visible' /\ (Usable => Usable')
  BY <1>2, <1>3 DEF Visible, Usable, Valid, Marked
<1>. QED
  BY <1>6, <1>7, <1>8, <1>9, <1>10 DEF LocInv

LEMMA BindDataStep ==
  ASSUME LocInv, BindData
  PROVE  LocInv' /\ Visible \subseteq Visible' /\ (Usable => Usable')
<1> DEFINE data == dir[init.at]
           held == data # Nil /\ data.bound /\ init.path = "recover"
<1>1. pc = "bind_data" /\ init # Nil /\ init \in Run /\ init.at \in Places
  BY Running DEF BindData, LocInv, PathInv
<1>2. CASE Abort
  BY <1>2, Over DEF Abort, Quiet, LocInv, TypeOK, disk
<1>3. CASE ~Abort
  <2> DEFINE bound == IF held THEN data ELSE [Empty EXCEPT !.bound = TRUE]
  <2>1. /\ held \/ data \in {Nil, Empty}
        /\ dir' = [dir EXCEPT ![init.at] = bound]
        /\ pc' = "storage" /\ init' = init
        /\ UNCHANGED <<manifest, override, config, store, creating, setting, made, raced, commands, crashes>>
    BY <1>1, <1>3, OnwardValues DEF BindData, GoOn, Quiet, Run
  <2>2. data = Nil \/ data \in Data
    BY <1>1 DEF LocInv, TypeOK
  <2>3. /\ bound \in Data /\ bound.bound = TRUE
        /\ ~held => bound.storage = FALSE /\ bound.records = {}
    BY <2>2, EmptyType DEF Empty, Data
  <2>4. bound # Nil
    BY <2>3, NilAssumption
  <2>5. ~held => data = Nil \/ data.bound = FALSE
    BY <2>1, EmptyType
  <2>6. held => bound = data
    OBVIOUS
  <2>. HIDE DEF bound, held
  <2>7. /\ dir' \in [Places -> Data \cup {Nil}] /\ dir'[init.at] = bound
        /\ \A place \in Places : place # init.at => dir'[place] = dir[place]
    BY <1>1, <2>1, <2>3 DEF LocInv, TypeOK
  <2>8. TypeOK'
    BY <1>1, <2>1, <2>7 DEF LocInv, TypeOK, Labels
  <2>9. PathInv'
    BY <1>1, <2>1, <2>3, <2>4, <2>7 DEF LocInv, PathInv, Before, Behind, TypeOK, Run
  <2>10. UnracedInv'
    BY <1>1, <2>1 DEF LocInv, UnracedInv, Before, Behind, Resolved, Target
  <2>11. BoundFirst'
    BY <2>1, <2>3, <2>7 DEF LocInv, BoundFirst
  <2>12. ASSUME Usable PROVE Visible \subseteq Visible' /\ Usable'
    <3>1. Resolved \in Places /\ Resolved' = Resolved
      BY <2>1, <2>12, ResolvedType DEF LocInv, Usable, Valid, Resolved, Target
    <3>2. dir'[Resolved] = dir[Resolved]
      BY <2>5, <2>6, <2>7, <2>12, <3>1 DEF Usable, Valid
    <3>. QED
      BY <2>1, <2>12, <3>1, <3>2 DEF Visible, Usable, Valid, Marked
  <2>13. Visible \subseteq Visible' /\ (Usable => Usable')
    BY <2>12 DEF Visible
  <2>. QED
    BY <2>8, <2>9, <2>10, <2>11, <2>13 DEF LocInv
<1>. QED
  BY <1>2, <1>3

LEMMA WriteStorageStep ==
  ASSUME LocInv, WriteStorage
  PROVE  LocInv' /\ Visible \subseteq Visible' /\ (Usable => Usable')
<1> DEFINE place == IF init.path = "fresh" THEN init.target ELSE init.at
<1>1. pc \in {"storage", "mend"} /\ init # Nil /\ init \in Run /\ init.at \in Places
  BY Running DEF WriteStorage, LocInv, PathInv
<1>2. place \in Places /\ dir[place] # Nil /\ dir[place] \in Data
  BY <1>1 DEF LocInv, PathInv, TypeOK, Run
<1>3. /\ dir' = [dir EXCEPT ![place].storage = TRUE]
      /\ init' = init
      /\ \/ pc = "storage" /\ pc' = "verify"
         \/ pc = "mend" /\ pc' = "reload"
      /\ UNCHANGED <<manifest, override, config, store, creating, setting, made, raced, commands, crashes>>
  BY <1>1, OnwardValues, Running DEF WriteStorage, GoOn, Quiet, Run, Before, Behind
<1>4. ~raced => place = init.at /\ init.at = Resolved
  <2>1. ~raced => init.at = Resolved
    BY <1>1 DEF LocInv, UnracedInv
  <2>2. init.path = "fresh" => pc \in Behind
    BY <1>1 DEF LocInv, PathInv, Before
  <2>3. ~raced /\ init.path = "fresh" => Resolved = init.target
    BY <1>1, <2>2 DEF LocInv, UnracedInv, Resolved, Target
  <2>. QED
    BY <2>1, <2>3
<1>5. init.path = "recover" => dir[place].bound
  BY <1>1 DEF LocInv, PathInv
<1>6. ~raced => dir[place].bound
  BY <1>1, <1>4 DEF LocInv, PathInv
<1>. HIDE DEF place
<1>7. /\ dir' \in [Places -> Data \cup {Nil}]
      /\ dir'[place] = [dir[place] EXCEPT !.storage = TRUE]
      /\ \A other \in Places : other # place => dir'[other] = dir[other]
  BY <1>2, <1>3 DEF LocInv, TypeOK, Data
<1>8. /\ dir'[place] \in Data /\ dir'[place].storage = TRUE
      /\ dir'[place].bound = dir[place].bound /\ dir'[place].records = dir[place].records
  BY <1>2, <1>7 DEF Data
<1>9. /\ dir'[place] # Nil
      /\ \A other \in Places : dir[other] # Nil =>
           dir'[other] # Nil /\ dir'[other].bound = dir[other].bound
  BY <1>7, <1>8, NilAssumption
<1>10. TypeOK'
  BY <1>3, <1>7 DEF LocInv, TypeOK, Labels
<1>11. PathInv'
  BY <1>1, <1>3, <1>9 DEF LocInv, PathInv, Before, Behind, TypeOK, Run
<1>12. Resolved' = Resolved
  BY <1>3 DEF Resolved, Target
<1>13. Usable => Usable'
  <2>1. Usable => Resolved \in Places
    BY ResolvedType DEF LocInv, Usable, Valid
  <2>. QED
    BY <1>3, <1>7, <1>8, <1>9, <1>12, <2>1 DEF Usable, Valid, Marked
<1>14. Valid => Valid'
  <2>1. Valid => Resolved \in Places
    BY ResolvedType DEF LocInv, Valid
  <2>. QED
    BY <1>3, <1>9, <1>12, <2>1 DEF Valid, Marked
<1>15. UnracedInv'
  BY <1>1, <1>3, <1>4, <1>8, <1>12, <1>14 DEF LocInv, UnracedInv, Before, Behind
<1>16. BoundFirst'
  BY <1>3, <1>6, <1>7, <1>8 DEF LocInv, BoundFirst
<1>17. Visible \subseteq Visible'
  <2>1. Usable => Resolved \in Places
    BY ResolvedType DEF LocInv, Usable, Valid
  <2>. QED
    BY <1>7, <1>8, <1>12, <1>13, <2>1 DEF Visible
<1>. QED
  BY <1>10, <1>11, <1>13, <1>15, <1>16, <1>17 DEF LocInv

LEMMA AdvanceStep ==
  ASSUME LocInv, Advance
  PROVE  LocInv' /\ ((Visible \subseteq Visible' /\ (Usable => Usable')) \/ raced')
<1>1. CASE Verify
  <2>1. Leave /\ UNCHANGED <<disk, creating, setting, made, raced, commands, crashes>>
    BY <1>1 DEF Verify, Abort, Quiet
  <2>. QED
    BY <2>1, Over DEF LocInv, TypeOK
<1>. QED
  BY <1>1, LoadStep, ReloadStep, PrepareStep, MakeDataStep, WriteConfigStep, WriteManifestStep,
     BindConfigStep, BindDataStep, WriteStorageStep DEF Advance

\* A command without a lock that writes the configuration leaves the data alone,
\* and an init that runs meanwhile knows nothing for certain.
LEMMA ReconfigureStep ==
  ASSUME LocInv, Reconfigure, manifest # "absent", setting' \subseteq setting,
         commands' \in 0 .. MaxCommands,
         manifest' \in Places \cup {"shared"}, manifest \in Places => manifest' \in Places,
         override' \in Places \cup {Nil}
  PROVE  LocInv'
<1>1. /\ UNCHANGED <<config, dir, store, pc, init, creating, made, crashes>>
      /\ raced' = (raced \/ pc # "idle")
  BY DEF Reconfigure
<1>2. manifest' # "absent" /\ raced' \in BOOLEAN
  BY <1>1, NamesAssumption DEF Places, LocInv, TypeOK
<1>3. TypeOK'
  BY <1>1, <1>2 DEF LocInv, TypeOK
<1>4. PathInv'
  BY <1>1, <1>2 DEF LocInv, PathInv
<1>5. UnracedInv'
  BY <1>1 DEF LocInv, TypeOK, UnracedInv
<1>6. BoundFirst'
  BY <1>1 DEF LocInv, BoundFirst
<1>. QED
  BY <1>3, <1>4, <1>5, <1>6 DEF LocInv

LEMMA CommandCounted ==
  ASSUME LocInv, Command
  PROVE  commands' \in 0 .. MaxCommands
BY BoundsAssumption DEF Command, LocInv, TypeOK

\* A step of a command without a lock that writes nothing.
LEMMA UnlockedQuiet ==
  ASSUME LocInv, UNCHANGED <<disk, pc, init, made, raced, crashes>>,
         commands' \in 0 .. MaxCommands, creating' \subseteq Places, setting' \subseteq Request
  PROVE  LocInv' /\ Visible' = Visible /\ Usable' = Usable
<1>1. TypeOK'
  BY DEF LocInv, TypeOK, disk
<1>2. /\ Visible' = Visible /\ Usable' = Usable /\ Valid' = Valid /\ Resolved' = Resolved
  BY DEF disk, Visible, Usable, Valid, Resolved, Target, Marked
<1>3. PathInv' /\ UnracedInv' /\ BoundFirst'
  BY <1>2 DEF LocInv, PathInv, UnracedInv, BoundFirst, disk
<1>. QED
  BY <1>1, <1>2, <1>3 DEF LocInv

LEMMA CheckSetStep ==
  ASSUME LocInv, NEW place \in Places, NEW local \in BOOLEAN, CheckSet(place, local)
  PROVE  LocInv' /\ Visible' = Visible /\ Usable' = Usable
<1> DEFINE request == [place |-> place, local |-> local, made |-> made,
                       manifest |-> manifest, override |-> override]
<1>1. manifest \in Places \cup {"shared"}
  BY DEF CheckSet, LocInv, TypeOK
<1>2. request \in Request
  BY <1>1 DEF LocInv, TypeOK, Request
<1>3. setting' = setting \cup {request} /\ creating' = creating
  BY DEF CheckSet
<1>4. setting' \subseteq Request /\ creating' \subseteq Places
  BY <1>2, <1>3 DEF LocInv, TypeOK
<1>. QED
  BY <1>4, UnlockedQuiet, CommandCounted DEF CheckSet

LEMMA WriteSetStep ==
  ASSUME LocInv, UnlockedInv, NEW request \in setting, WriteSet(request)
  PROVE  LocInv' /\ \A plan \in Visible : plan \in Visible' \/ Overtaken(plan)
<1>1. request \in Request /\ setting' = setting \ {request} /\ commands' = commands
  BY DEF WriteSet, LocInv, TypeOK
<1>2. CASE ~Writable(request)
  <2>1. UNCHANGED <<disk, pc, init, creating, made, raced, crashes>>
    BY <1>2 DEF WriteSet
  <2>2. /\ setting' \subseteq Request /\ creating' \subseteq Places
        /\ commands' \in 0 .. MaxCommands
    BY <1>1, <2>1 DEF LocInv, TypeOK
  <2>. QED
    BY <2>1, <2>2, UnlockedQuiet
<1>3. CASE Writable(request)
  <2>1. /\ Reconfigure
        /\ manifest' = (IF request.local THEN manifest ELSE request.place)
        /\ override' = (IF request.local THEN request.place ELSE override)
        /\ request.local => manifest # "shared"
    BY <1>3 DEF WriteSet, Writable, NewManifest, NewOverride
  <2>2. request.place \in Places /\ request.local \in BOOLEAN
    BY <1>1 DEF Request
  <2>3. manifest # "absent"
    BY DEF UnlockedInv, SettingInv
  <2>4. LocInv'
    BY <1>1, <2>1, <2>2, <2>3, ReconfigureStep DEF LocInv, TypeOK
  <2>5. ASSUME Usable, NEW plan \in Visible, ~Overtaken(plan) PROVE plan \in Visible'
    <3>1. manifest \in Places /\ manifest' \in Places /\ Resolved \in Places
      BY <2>1, <2>2, <2>5, ResolvedType DEF LocInv, Usable, Valid
    <3>2. /\ ~(plan > request.made)
          /\ request.manifest = manifest /\ request.override = override
      BY <1>1, <2>5 DEF Overtaken
    <3>3. Seen(request) = Resolved /\ plan \in dir[Resolved].records /\ dir[Resolved] # Nil
      BY <2>5, <3>2 DEF Seen, Resolved, Visible, Usable, Valid
    <3>4. ~Redirecting(request)
      BY <3>2, <3>3 DEF UnlockedInv, SettingInv
    <3>5. Resolved' = Resolved
      BY <2>1, <3>1, <3>2, <3>3, <3>4 DEF Redirecting, Resolved, Target
    <3>. QED
      BY <2>1, <2>5, <3>1, <3>5 DEF Reconfigure, Visible, Usable, Valid, Marked
  <2>. QED
    BY <2>4, <2>5 DEF Visible
<1>. QED
  BY <1>2, <1>3

LEMMA LoadProjectStep ==
  ASSUME LocInv, LoadProject
  PROVE  LocInv' /\ Visible' = Visible /\ Usable' = Usable
<1>1. Resolved \in Places
  BY ResolvedType DEF LoadProject, Usable, Valid, LocInv
<1>2. /\ creating' \subseteq Places /\ setting' \subseteq Request
      /\ commands' \in 0 .. MaxCommands
  BY <1>1 DEF LoadProject, LocInv, TypeOK
<1>. QED
  BY <1>2, UnlockedQuiet DEF LoadProject

\* What a plan that is created makes of the data it was shown.
LEMMA PlanWritten ==
  ASSUME LocInv, UnlockedInv, NEW place \in creating, CreatePlan(place)
  PROVE  /\ place \in Places /\ dir[place] \in Data /\ dir'[place] \in Data
         /\ dir[place] # Nil /\ dir'[place] # Nil /\ dir[place].bound /\ dir'[place].bound
         /\ dir'[place].storage = dir[place].storage
         /\ dir'[place].records = dir[place].records \cup {made + 1}
         /\ \A other \in Places : other # place => dir'[other] = dir[other]
         /\ dir' \in [Places -> Data \cup {Nil}]
         /\ made' = made + 1 /\ made' \in 0 .. MaxPlans
<1> DEFINE data == dir[place]
<1>1. place \in Places /\ data \in Data /\ data # Nil /\ data.bound
  BY DEF LocInv, TypeOK, UnlockedInv, CreatingInv
<1>2. made' = made + 1 /\ made' \in 0 .. MaxPlans /\ made' \in Plans
  BY BoundsAssumption DEF CreatePlan, LocInv, TypeOK, Plans
<1>3. dir' = [dir EXCEPT ![place].records = @ \cup {made'}]
  BY DEF CreatePlan
<1>. HIDE DEF data
<1>4. /\ dir'[place] = [data EXCEPT !.records = @ \cup {made'}]
      /\ \A other \in Places : other # place => dir'[other] = dir[other]
      /\ dir' \in [Places -> Data \cup {Nil}]
  BY <1>1, <1>2, <1>3 DEF LocInv, TypeOK, Data, data
<1>5. /\ dir'[place] \in Data /\ dir'[place].bound
      /\ dir'[place].storage = data.storage
      /\ dir'[place].records = data.records \cup {made'}
  BY <1>1, <1>2, <1>4 DEF Data
<1>. QED
  BY <1>1, <1>2, <1>4, <1>5, NilAssumption DEF data

LEMMA CreatePlanStep ==
  ASSUME LocInv, UnlockedInv, NEW place \in creating, CreatePlan(place)
  PROVE  LocInv' /\ Visible \subseteq Visible' /\ (Usable => Usable')
<1>1. /\ creating' = creating \ {place}
      /\ UNCHANGED <<manifest, override, config, store, pc, init, setting, raced, commands, crashes>>
  BY DEF CreatePlan
<1>2. /\ place \in Places /\ dir'[place] # Nil /\ dir'[place].bound /\ dir[place].bound
      /\ dir[place] # Nil /\ dir'[place].storage = dir[place].storage
      /\ dir[place].records \subseteq dir'[place].records
      /\ \A other \in Places : other # place => dir'[other] = dir[other]
      /\ dir' \in [Places -> Data \cup {Nil}] /\ made' \in 0 .. MaxPlans
  BY PlanWritten
<1>3. TypeOK'
  BY <1>1, <1>2 DEF LocInv, TypeOK
<1>4. PathInv'
  BY <1>1, <1>2 DEF LocInv, PathInv, TypeOK, Run
<1>5. Resolved' = Resolved
  BY <1>1 DEF Resolved, Target
<1>6. (Valid <=> Valid') /\ (Usable => Usable')
  <2>1. manifest \in Places => Resolved \in Places
    BY ResolvedType DEF LocInv
  <2>. QED
    BY <1>1, <1>2, <1>5, <2>1 DEF Usable, Valid, Marked
<1>7. UnracedInv'
  <2>1. init # Nil /\ pc \in {"reload", "verify"} /\ ~raced => Resolved \in Places
    BY DEF LocInv, UnracedInv, PathInv
  <2>. QED
    BY <1>1, <1>2, <1>5, <1>6, <2>1 DEF LocInv, UnracedInv
<1>8. BoundFirst'
  BY <1>1, <1>2 DEF LocInv, BoundFirst
<1>9. Visible \subseteq Visible'
  <2>1. Usable => Resolved \in Places
    BY ResolvedType DEF LocInv, Usable, Valid
  <2>. QED
    BY <1>2, <1>5, <1>6, <2>1 DEF Visible
<1>. QED
  BY <1>3, <1>4, <1>6, <1>7, <1>8, <1>9 DEF LocInv

\* Losing sight of a plan, and what explains it.
Explained(plan) == Overtaken(plan) \/ (override # Nil /\ override' = Nil) \/ raced'

LEMMA LocStep ==
  ASSUME LocInv, UnlockedInv, Next
  PROVE  LocInv' /\ \A plan \in Visible : plan \in Visible' \/ Explained(plan)
<1>1. CASE InitAgain
  BY <1>1, StartStep, DefaultAssumption DEF InitAgain, Places, LocInv, TypeOK
<1>2. CASE \E target \in Places, create \in BOOLEAN : InitAs(target, create)
  <2>1. PICK target \in Places, create \in BOOLEAN : InitAs(target, create)
    BY <1>2
  <2>2. commands' \in 0 .. MaxCommands
    BY <2>1, BoundsAssumption DEF InitAs, LocInv, TypeOK
  <2>. QED
    BY <2>1, <2>2, StartStep DEF InitAs
<1>3. CASE Advance
  BY <1>3, AdvanceStep DEF Explained
<1>4. CASE Crash
  <2>1. crashes' \in 0 .. MaxCrashes
    BY <1>4, BoundsAssumption DEF Crash, LocInv, TypeOK
  <2>. QED
    BY <1>4, <2>1, Over DEF Crash, LocInv, TypeOK
<1>5. CASE \E place \in Places, local \in BOOLEAN : CheckSet(place, local)
  BY <1>5, CheckSetStep
<1>6. CASE \E request \in setting : WriteSet(request)
  BY <1>6, WriteSetStep DEF Explained
<1>7. CASE ClearOverride
  <2>1. /\ manifest # "absent" /\ UNCHANGED <<manifest, setting>>
        /\ override # Nil /\ override' = Nil /\ Reconfigure /\ Command
    BY <1>7 DEF ClearOverride, LocInv, PathInv
  <2>. QED
    BY <2>1, ReconfigureStep, CommandCounted DEF LocInv, TypeOK, Explained
<1>8. CASE LoadProject
  BY <1>8, LoadProjectStep
<1>9. CASE \E place \in creating : CreatePlan(place)
  BY <1>9, CreatePlanStep
<1>. QED
  BY <1>1, <1>2, <1>3, <1>4, <1>5, <1>6, <1>7, <1>8, <1>9 DEF Next

-----------------------------------------------------------------------------
(* What the commands without a lock have read *)

\* A data directory that is bound stays, and gets no records but new plans.
DataGrows ==
  \A place \in Places :
    /\ dir[place] # Nil /\ dir[place].bound => dir'[place] # Nil /\ dir'[place].bound
    /\ dir'[place] # Nil =>
         \A plan \in dir'[place].records :
           \/ dir[place] # Nil /\ plan \in dir[place].records
           \/ made' > made /\ plan > made

LEMMA AdvanceGrows ==
  ASSUME LocInv, Advance
  PROVE  DataGrows
<1>1. CASE UNCHANGED dir
  BY <1>1 DEF DataGrows
<1>2. CASE MakeData /\ ~Abort
  <2>1. /\ dir[init.target] \in {Nil, Empty} /\ init.target \in Places
        /\ dir' = [dir EXCEPT ![init.target] = Empty]
    BY <1>2, Running DEF MakeData
  <2>2. /\ dir'[init.target] = Empty
        /\ \A place \in Places : place # init.target => dir'[place] = dir[place]
    BY <2>1 DEF LocInv, TypeOK
  <2>. QED
    BY <2>1, <2>2, EmptyType DEF DataGrows
<1>3. CASE BindData /\ ~Abort
  <2>1. /\ init # Nil /\ init \in Run /\ init.at \in Places
        /\ \/ dir' = [dir EXCEPT ![init.at] = @]
           \/ /\ dir[init.at] \in {Nil, Empty}
              /\ dir' = [dir EXCEPT ![init.at] = [Empty EXCEPT !.bound = TRUE]]
    BY <1>3, Running DEF BindData, LocInv, PathInv
  <2>2. CASE dir' = [dir EXCEPT ![init.at] = @]
    BY <2>1, <2>2 DEF DataGrows, LocInv, TypeOK
  <2>3. CASE dir' = [dir EXCEPT ![init.at] = [Empty EXCEPT !.bound = TRUE]]
                /\ dir[init.at] \in {Nil, Empty}
    <3>1. /\ dir'[init.at] = [Empty EXCEPT !.bound = TRUE]
          /\ \A place \in Places : place # init.at => dir'[place] = dir[place]
      BY <2>1, <2>3 DEF LocInv, TypeOK
    <3>2. dir'[init.at].records = {}
      BY <3>1 DEF Empty
    <3>. QED
      BY <2>3, <3>1, <3>2, EmptyType DEF DataGrows
  <2>. QED
    BY <2>1, <2>2, <2>3
<1>4. CASE WriteStorage
  <2> DEFINE place == IF init.path = "fresh" THEN init.target ELSE init.at
  <2>1. place \in Places /\ dir[place] # Nil /\ dir[place] \in Data
    BY <1>4, Running DEF WriteStorage, LocInv, PathInv, TypeOK, Run
  <2>2. dir' = [dir EXCEPT ![place].storage = TRUE]
    BY <1>4 DEF WriteStorage
  <2>. HIDE DEF place
  <2>3. /\ dir'[place] = [dir[place] EXCEPT !.storage = TRUE]
        /\ \A other \in Places : other # place => dir'[other] = dir[other]
    BY <2>1, <2>2 DEF LocInv, TypeOK
  <2>4. /\ dir'[place] \in Data /\ dir'[place].bound = dir[place].bound
        /\ dir'[place].records = dir[place].records
    BY <2>1, <2>3 DEF Data
  <2>. QED
    BY <2>1, <2>3, <2>4, NilAssumption DEF DataGrows
<1>. QED
  BY <1>1, <1>2, <1>3, <1>4
     DEF Advance, Load, Reload, Reregister, PrepareStore, MakeData, WriteConfig, WriteManifest,
         BindConfig, BindData, Verify, Abort, disk

LEMMA NextGrows ==
  ASSUME LocInv, UnlockedInv, [Next]_vars
  PROVE  /\ DataGrows /\ made' >= made
         /\ manifest # "absent" => manifest' # "absent"
<1>1. CASE Advance
  <2>1. made' = made
    BY <1>1 DEF Advance, Load, Reload, PrepareStore, MakeData, WriteConfig, WriteManifest,
       BindConfig, BindData, WriteStorage, Verify, Abort, Quiet
  <2>2. manifest' = manifest \/ manifest' \in Places
    BY <1>1, Running DEF Advance, Load, Reload, PrepareStore, MakeData, WriteConfig, WriteManifest,
       BindConfig, BindData, WriteStorage, Verify, Abort, disk
  <2>. QED
    BY <1>1, <2>1, <2>2, AdvanceGrows, NamesAssumption DEF LocInv, TypeOK, Places
<1>2. CASE \E place \in creating : CreatePlan(place)
  <2>1. PICK place \in creating : CreatePlan(place)
    BY <1>2
  <2>2. DataGrows /\ made' >= made
    BY <2>1, PlanWritten DEF DataGrows, LocInv, TypeOK
  <2>. QED
    BY <2>1, <2>2 DEF CreatePlan
<1>3. CASE \E request \in setting : WriteSet(request)
  <2>1. PICK request \in setting : WriteSet(request)
    BY <1>3
  <2>2. request.place \in Places /\ UNCHANGED <<dir, made>>
    BY <2>1 DEF WriteSet, Reconfigure, disk, LocInv, TypeOK, Request
  <2>3. manifest' = manifest \/ manifest' = request.place
    BY <2>1 DEF WriteSet, NewManifest, disk
  <2>. QED
    BY <2>2, <2>3, NamesAssumption DEF DataGrows, LocInv, TypeOK, Places
<1>4. CASE UNCHANGED <<dir, made, manifest>>
  BY <1>4 DEF DataGrows, LocInv, TypeOK
<1>. QED
  BY <1>1, <1>2, <1>3, <1>4
     DEF Next, InitAgain, InitAs, StartInit, Crash, CheckSet, ClearOverride, Reconfigure,
         LoadProject, disk, vars

\* What was read before stays true of what is there later.
LEMMA UnlockedKept ==
  ASSUME LocInv, LocInv', UnlockedInv, DataGrows, made' >= made, made' \in Nat,
         manifest # "absent" => manifest' # "absent",
         creating' \subseteq creating, setting' \subseteq setting
  PROVE  UnlockedInv'
<1>1. CreatingInv'
  BY DEF UnlockedInv, CreatingInv, DataGrows, LocInv, TypeOK
<1>2. ASSUME NEW request \in setting'
      PROVE  /\ manifest' # "absent" /\ request.made <= made'
             /\ Redirecting(request) /\ dir'[Seen(request)] # Nil =>
                  \A plan \in dir'[Seen(request)].records : plan > request.made
  <2>1. /\ request \in setting /\ request \in Request
        /\ request.made \in Nat /\ request.made <= made /\ made \in Nat
    BY <1>2, BoundsAssumption DEF UnlockedInv, SettingInv, LocInv, TypeOK, Request
  <2>2. Redirecting(request) => Seen(request) \in Places
    BY <2>1 DEF Redirecting, Seen, Target, Request
  <2>3. ASSUME Redirecting(request), dir'[Seen(request)] # Nil,
               NEW plan \in dir'[Seen(request)].records
        PROVE  plan > request.made
    <3>1. CASE dir[Seen(request)] # Nil /\ plan \in dir[Seen(request)].records
      BY <2>1, <2>3, <3>1 DEF UnlockedInv, SettingInv
    <3>2. CASE plan > made
      <4>1. plan \in Nat
        BY <2>2, <2>3, BoundsAssumption DEF LocInv, TypeOK, Data, Plans
      <4>. QED
        BY <2>1, <3>2, <4>1
    <3>. QED
      BY <2>2, <2>3, <3>1, <3>2 DEF DataGrows
  <2>. QED
    BY <2>1, <2>3 DEF UnlockedInv, SettingInv
<1>3. SettingInv'
  BY <1>2 DEF SettingInv, Redirecting, Seen, Target
<1>. QED
  BY <1>1, <1>3 DEF UnlockedInv

LEMMA UnlockedNext ==
  ASSUME LocInv, UnlockedInv, [Next]_vars, LocInv'
  PROVE  UnlockedInv'
<1>1. /\ DataGrows /\ made' >= made /\ made' \in Nat
      /\ manifest # "absent" => manifest' # "absent"
  BY NextGrows DEF LocInv, TypeOK
<1>2. CASE creating' \subseteq creating /\ setting' \subseteq setting
  BY <1>1, <1>2, UnlockedKept
<1>3. CASE LoadProject
  <2>1. CreatingInv'
    BY <1>3, NamesAssumption
       DEF LoadProject, UnlockedInv, CreatingInv, disk, Usable, Valid, Places
  <2>2. SettingInv'
    BY <1>3 DEF LoadProject, UnlockedInv, SettingInv, disk, Redirecting, Seen, Target
  <2>. QED
    BY <2>1, <2>2 DEF UnlockedInv
<1>4. ASSUME NEW place \in Places, NEW local \in BOOLEAN, CheckSet(place, local)
      PROVE  UnlockedInv'
  <2> DEFINE request == [place |-> place, local |-> local, made |-> made,
                         manifest |-> manifest, override |-> override]
  <2>1. /\ manifest # "absent" /\ ~Redirects(place, local)
        /\ setting' = setting \cup {request}
        /\ UNCHANGED <<manifest, override, dir, creating, made>>
    BY <1>4 DEF CheckSet, disk
  <2>2. CreatingInv'
    BY <2>1 DEF UnlockedInv, CreatingInv
  <2>3. Seen(request) = Resolved
    BY DEF Seen, Resolved
  <2>4. Redirecting(request) /\ dir[Resolved] # Nil => dir[Resolved].records = {}
    BY <2>1, <2>3 DEF Redirecting, Redirects, Resolved, NewOverride, NewManifest, Populated
  <2>5. request.made <= made
    BY DEF LocInv, TypeOK
  <2>. HIDE DEF request
  <2>6. SettingInv'
    BY <2>1, <2>3, <2>4, <2>5 DEF UnlockedInv, SettingInv, Redirecting, Seen, Target
  <2>. QED
    BY <2>2, <2>6 DEF UnlockedInv
<1>5. \/ creating' \subseteq creating /\ setting' \subseteq setting
      \/ LoadProject
      \/ \E place \in Places, local \in BOOLEAN : CheckSet(place, local)
  BY DEF Next, vars, InitAgain, InitAs, StartInit, Crash, WriteSet, ClearOverride, Reconfigure,
         CreatePlan, Advance, Load, Reload, PrepareStore, MakeData, WriteConfig, WriteManifest,
         BindConfig, BindData, WriteStorage, Verify, Abort, Quiet
<1>. QED
  BY <1>2, <1>3, <1>4, <1>5

LEMMA LocInvNext == LocInv /\ UnlockedInv /\ [Next]_vars => LocInv' /\ UnlockedInv'
<1> SUFFICES ASSUME LocInv, UnlockedInv, [Next]_vars PROVE LocInv' /\ UnlockedInv'
  OBVIOUS
<1>1. CASE Next
  BY <1>1, LocStep, UnlockedNext
<1>2. CASE UNCHANGED vars
  <2>1. LocInv'
    BY <1>2 DEF vars, LocInv, TypeOK, PathInv, UnracedInv, BoundFirst, Valid, Resolved,
                Target, Marked
  <2>. QED
    BY <2>1, UnlockedNext
<1>. QED
  BY <1>1, <1>2

LEMMA UnlockedInit == Init => UnlockedInv
BY DEF Init, UnlockedInv, CreatingInv, SettingInv

LEMMA BothAlways == Spec => [](LocInv /\ UnlockedInv)
BY LocInvInit, UnlockedInit, LocInvNext, PTL DEF Spec

LEMMA LocInvAlways == Spec => []LocInv
BY BothAlways, PTL

\* The files and what the running init knows keep their types.
THEOREM TypeCorrect == Spec => []TypeOK
<1>1. LocInv => TypeOK
  BY DEF LocInv
<1>. QED
  BY <1>1, LocInvAlways, PTL

\* initialize_planledger_locations comes before storage.yaml: whatever dies and
\* whatever is repeated, data that is not bound was there from the beginning.
THEOREM BoundBeforeWritten == Spec => []BoundFirst
<1>1. LocInv => BoundFirst
  BY DEF LocInv
<1>. QED
  BY <1>1, LocInvAlways, PTL

\* _recover_workspace and initialize_project return a workspace that plans can
\* be made in, whatever an earlier init had left.
THEOREM SuccessIsUsable == Spec => []ReportTrue
<1>1. LocInv => ReportTrue
  BY DEF LocInv, TypeOK, UnracedInv, ReportTrue, Usable
<1>. QED
  BY <1>1, LocInvAlways, PTL

\* Neither an init nor a `storage set' points a project away from records that
\* it could have seen, for any roots and any number of commands and deaths, also
\* where plans are created and the configuration changes between its check and
\* its write.
THEOREM RecordsStayInSight == Spec => RecordsInSight
<1>1. LocInv /\ UnlockedInv /\ [Next]_vars =>
        [\A plan \in Visible : \/ plan \in Visible'
                              \/ Overtaken(plan)
                              \/ (override # Nil /\ override' = Nil)
                              \/ raced']_vars
  BY LocStep DEF Explained
<1>. QED
  BY <1>1, BothAlways, PTL DEF Spec, RecordsInSight

-----------------------------------------------------------------------------
(***************************************************************************)
(* An init comes to an end, and one that ends completes the project: what     *)
(* InitCompletes says, step by step and without the fairness that TLC needs   *)
(* for it.  For that, more has to be known of a project that is set up.       *)
(***************************************************************************)

\* Nothing is at an external root before the project has a manifest.
RootsUnused == manifest = "absent" => \A root \in Roots : dir[root] \in {Nil, Empty}

\* What an init has written stays until it has gone on: its root is a store, its
\* directory is as empty as it was made, config.toml is bound and, if nobody
\* interfered, the manifest registers what was asked for.
SetUp ==
  init # Nil =>
    /\ init.path = "fresh" =>
         /\ pc \in {"config", "manifest", "bind_config", "bind_data"} => dir[init.target] = Empty
         /\ pc # "store" => Marked(init.target)
    /\ init.path = "recover" =>
         /\ pc \in Behind => Marked(init.target)
         /\ manifest = "absent" => config # "absent"
         /\ ~raced /\ pc \in {"config", "store"} \cup Behind => manifest = init.target
    /\ pc \in {"bind_data", "storage", "verify"} => config = "bound"

SetUpInv == RootsUnused /\ SetUp

\* The steps an init has before it at most, and the directory of its store.
StepsLeft ==
  [fresh   |-> [store |-> 8, mkdir |-> 7, config |-> 6, manifest |-> 5, bind_config |-> 4,
                bind_data |-> 3, storage |-> 2, verify |-> 1],
   recover |-> [load |-> 11, mend |-> 10, reload |-> 9, manifest |-> 8, config |-> 7,
                store |-> 5, bind_config |-> 4, bind_data |-> 3, storage |-> 2, verify |-> 1]]

ToMake(run) ==
  IF pc = "store" /\ run.target \in Roots /\ store[run.target] = "absent" THEN 1 ELSE 0

Left == IF init = Nil THEN 0 ELSE StepsLeft[init.path][pc] + ToMake(init)

LEMMA StepsLeftValues ==
  /\ StepsLeft["fresh"]["store"] = 8 /\ StepsLeft["fresh"]["mkdir"] = 7
  /\ StepsLeft["fresh"]["config"] = 6 /\ StepsLeft["fresh"]["manifest"] = 5
  /\ StepsLeft["fresh"]["bind_config"] = 4 /\ StepsLeft["fresh"]["bind_data"] = 3
  /\ StepsLeft["fresh"]["storage"] = 2 /\ StepsLeft["fresh"]["verify"] = 1
  /\ StepsLeft["recover"]["load"] = 11 /\ StepsLeft["recover"]["mend"] = 10
  /\ StepsLeft["recover"]["reload"] = 9 /\ StepsLeft["recover"]["manifest"] = 8
  /\ StepsLeft["recover"]["config"] = 7 /\ StepsLeft["recover"]["store"] = 5
  /\ StepsLeft["recover"]["bind_config"] = 4 /\ StepsLeft["recover"]["bind_data"] = 3
  /\ StepsLeft["recover"]["storage"] = 2 /\ StepsLeft["recover"]["verify"] = 1
BY DEF StepsLeft

\* An init that runs has a step before it.
LEMMA LeftRunning ==
  ASSUME LocInv, init # Nil
  PROVE  Left \in 1 .. 11
<1>1. \/ init.path = "fresh" /\ pc \in Before \cup Behind
      \/ /\ init.path = "recover"
         /\ pc \in {"load", "mend", "reload", "manifest", "config", "store"} \cup Behind
  BY Running DEF LocInv, TypeOK
<1>2. ToMake(init) \in {0, 1} /\ (pc # "store" => ToMake(init) = 0)
  BY DEF ToMake
<1>. HIDE DEF ToMake
<1>. QED
  BY <1>1, <1>2, StepsLeftValues DEF Left, Before, Behind

\* So the steps before it are a number.
LEMMA LeftType == LocInv => Left \in 0 .. 11
BY LeftRunning DEF Left

\* Every step of an init leaves it fewer of them.
LEMMA AdvanceNearer ==
  ASSUME LocInv, Advance
  PROVE  Left' \in 0 .. 11 /\ Left' < Left
<1>1. pc # "idle" /\ init # Nil /\ init \in Run /\ Left \in 1 .. 11
  BY LeftRunning DEF Advance, Load, Reload, PrepareStore, MakeData, WriteConfig, WriteManifest,
     BindConfig, BindData, WriteStorage, Verify, LocInv, TypeOK
<1>2. CASE init' = Nil
  BY <1>1, <1>2 DEF Left
<1>3. CASE init' # Nil
  <2> DEFINE steps == StepsLeft[init.path][pc]
             make  == ToMake(init)
  <2>1. /\ Left = steps + make /\ make \in {0, 1}
        /\ Left' = StepsLeft[init'.path][pc'] + make' /\ make' \in {0, 1}
        /\ pc # "store" => make = 0
        /\ pc' # "store" => make' = 0
    BY <1>1, <1>3 DEF Left, ToMake
  <2>2. \/ init.path = "fresh" /\ pc \in Before \cup Behind
        \/ /\ init.path = "recover"
           /\ pc \in {"load", "mend", "reload", "manifest", "config", "store"} \cup Behind
    BY <1>1, Running
  <2>3. init'.path = init.path
    BY <1>1, <1>3 DEF Advance, Load, Reload, Reregister, PrepareStore, MakeData, WriteConfig,
       WriteManifest, BindConfig, BindData, WriteStorage, Verify, Abort, GoOn, Leave, Run
  <2>. HIDE DEF make
  <2>4. CASE Load \/ Reload
    <3>1. init.path = "recover"
      BY <2>2, <2>4 DEF Load, Reload, Before, Behind
    <3>2. \/ pc = "load" /\ pc' \in {"reload", "mend", "manifest"}
          \/ pc = "reload" /\ pc' = "manifest"
      BY <1>3, <2>4 DEF Load, Reload, Reregister, Leave
    <3>. QED
      BY <2>1, <2>3, <3>1, <3>2, StepsLeftValues
  <2>5. CASE PrepareStore /\ pc' = "store"
    <3>1. /\ init.target \in Roots /\ store[init.target] = "absent" /\ init' = init
          /\ store' = [store EXCEPT ![init.target] = "empty"]
      BY <1>3, <2>2, <2>5, OnwardValues
         DEF PrepareStore, GoOn, Leave, Before, Behind
    <3>2. store'[init.target] = "empty"
      BY <1>1, <3>1 DEF LocInv, TypeOK
    <3>3. make = 1 /\ make' = 0 /\ pc = "store"
      BY <2>5, <3>1, <3>2 DEF make, ToMake, PrepareStore
    <3>. QED
      BY <2>1, <2>2, <2>3, <2>5, <3>3, StepsLeftValues
  <2>6. CASE PrepareStore /\ pc' # "store"
    <3>1. pc = "store" /\ pc' = Onward[init.path][pc]
      BY <1>3, <2>6 DEF PrepareStore, GoOn, Leave
    <3>. QED
      BY <2>1, <2>2, <2>3, <3>1, StepsLeftValues, OnwardValues DEF Before, Behind
  <2>7. CASE MakeData \/ WriteConfig \/ WriteManifest
    <3>1. pc \in {"mkdir", "config", "manifest"} /\ pc' = Onward[init.path][pc]
      BY <1>3, <2>7 DEF MakeData, WriteConfig, WriteManifest, Abort, GoOn, Leave
    <3>. QED
      BY <2>1, <2>2, <2>3, <3>1, StepsLeftValues, OnwardValues DEF Before, Behind
  <2>8. CASE BindConfig \/ BindData \/ WriteStorage
    <3>1. /\ pc \in {"bind_config", "bind_data", "storage", "mend"}
          /\ pc' = Onward[init.path][pc]
      BY <1>3, <2>8 DEF BindConfig, BindData, WriteStorage, Abort, GoOn, Leave
    <3>. QED
      BY <2>1, <2>2, <2>3, <3>1, StepsLeftValues, OnwardValues DEF Before, Behind
  <2>9. ~Verify
    BY <1>3 DEF Verify, Abort, Leave
  <2>. QED
    BY <2>4, <2>5, <2>6, <2>7, <2>8, <2>9 DEF Advance
<1>. QED
  BY <1>2, <1>3

\* Nor does anybody else put it back.
LEMMA NeverFarther ==
  ASSUME LocInv, [Next]_vars, init # Nil
  PROVE  Left' <= Left
<1>1. Left \in 1 .. 11 /\ pc # "idle"
  BY LeftRunning DEF LocInv, TypeOK
<1>2. CASE Advance
  BY <1>1, <1>2, AdvanceNearer
<1>3. CASE Crash
  BY <1>1, <1>3 DEF Crash, Leave, Left
<1>4. CASE UNCHANGED <<pc, init, store>>
  BY <1>1, <1>4 DEF Left, ToMake
<1>5. InitAgain \/ (\E target \in Places, create \in BOOLEAN : InitAs(target, create)) => FALSE
  BY <1>1 DEF InitAgain, InitAs, StartInit
<1>. QED
  BY <1>2, <1>3, <1>4, <1>5
     DEF Next, CheckSet, WriteSet, ClearOverride, Reconfigure, LoadProject, CreatePlan, disk, vars

-----------------------------------------------------------------------------
(* What is known of a project that is being set up *)

LEMMA SetUpInit == Init => SetUpInv
<1> SUFFICES ASSUME Init PROVE SetUpInv
  OBVIOUS
<1>1. \A root \in Roots : dir[root] = Nil
  BY NamesAssumption DEF Init, Places
<1>. QED
  BY <1>1 DEF Init, SetUpInv, RootsUnused, SetUp

LEMMA SetUpOver ==
  ASSUME SetUpInv, Leave, UNCHANGED disk
  PROVE  SetUpInv'
BY DEF SetUpInv, RootsUnused, SetUp, Leave, disk

LEMMA SetUpStart ==
  ASSUME SetUpInv, NEW target \in Places, NEW create \in BOOLEAN, StartInit(target, create)
  PROVE  SetUpInv'
<1>1. /\ pc' = IF manifest = "absent" /\ config = "absent" THEN "store" ELSE "load"
      /\ init'.path = IF manifest = "absent" /\ config = "absent" THEN "fresh" ELSE "recover"
      /\ UNCHANGED disk
  BY DEF StartInit
<1>. QED
  BY <1>1 DEF SetUpInv, RootsUnused, SetUp, disk, Behind

\* An init that loads has not written anything yet.
LEMMA SetUpLoad ==
  ASSUME LocInv, SetUpInv, Load \/ Reload
  PROVE  SetUpInv'
<1>1. CASE Leave
  BY <1>1, SetUpOver DEF Load, Reload
<1>2. CASE ~Leave
  <2>1. init # Nil /\ init \in Run /\ init.path = "recover"
    BY Running DEF Load, Reload, Before, Behind
  <2>2. pc' \in {"reload", "mend", "manifest"} /\ init'.path = "recover" /\ UNCHANGED disk
    BY <1>2, <2>1 DEF Load, Reload, Reregister, Run
  <2>. QED
    BY <2>1, <2>2 DEF SetUpInv, RootsUnused, SetUp, disk, Behind
<1>. QED
  BY <1>1, <1>2

LEMMA SetUpPrepare ==
  ASSUME LocInv, SetUpInv, PrepareStore
  PROVE  SetUpInv'
<1>1. /\ pc = "store" /\ init # Nil /\ init \in Run /\ init.target \in Places
      /\ init.path \in {"fresh", "recover"}
  BY Running DEF PrepareStore, Run
<1>2. CASE Leave /\ UNCHANGED store
  BY <1>2, SetUpOver DEF PrepareStore, disk
<1>3. CASE ~(Leave /\ UNCHANGED store)
  <2>1. init' = init /\ UNCHANGED <<manifest, config, dir, raced>>
    BY <1>3 DEF PrepareStore, GoOn, Quiet
  <2>2. \/ pc' = "store"
        \/ /\ Marked(init.target)'
           /\ \/ init.path = "fresh" /\ pc' = "mkdir"
              \/ init.path = "recover" /\ pc' = "bind_config"
    BY <1>1, <1>3, <2>1, OnwardValues
       DEF PrepareStore, GoOn, Marked, LocInv, TypeOK
  <2>. QED
    BY <1>1, <2>1, <2>2 DEF SetUpInv, RootsUnused, SetUp, Behind
<1>. QED
  BY <1>2, <1>3

LEMMA SetUpMakeData ==
  ASSUME LocInv, SetUpInv, MakeData
  PROVE  SetUpInv'
<1>1. pc = "mkdir" /\ init # Nil /\ init.target \in Places /\ init.path = "fresh"
  BY Running DEF MakeData, Behind
<1>2. CASE Abort
  BY <1>2, SetUpOver DEF Abort
<1>3. CASE ~Abort
  <2>1. /\ dir' = [dir EXCEPT ![init.target] = Empty]
        /\ pc' = "config" /\ init' = init /\ UNCHANGED <<manifest, config, store, raced>>
    BY <1>1, <1>3, OnwardValues DEF MakeData, GoOn, Quiet
  <2>2. /\ dir'[init.target] = Empty
        /\ \A place \in Places : dir'[place] \in {dir[place], Empty}
    BY <1>1, <2>1 DEF LocInv, TypeOK
  <2>3. \A root \in Roots : dir'[root] \in {dir[root], Empty}
    BY <2>2 DEF Places
  <2>4. RootsUnused'
    BY <2>1, <2>3 DEF SetUpInv, RootsUnused
  <2>5. SetUp'
    BY <1>1, <2>1, <2>2 DEF SetUpInv, SetUp, Marked
  <2>. QED
    BY <2>4, <2>5 DEF SetUpInv
<1>. QED
  BY <1>2, <1>3

LEMMA SetUpConfig ==
  ASSUME LocInv, SetUpInv, WriteConfig
  PROVE  SetUpInv'
<1>1. /\ pc = "config" /\ init # Nil /\ init' = init
      /\ \/ init.path = "fresh" /\ pc' = "manifest"
         \/ init.path = "recover" /\ pc' = "store"
      /\ config' = (IF config = "absent" THEN "unbound" ELSE config)
      /\ UNCHANGED <<manifest, dir, store, raced>>
  BY Running, OnwardValues DEF WriteConfig, GoOn, Quiet, Run
<1>. QED
  BY <1>1 DEF SetUpInv, RootsUnused, SetUp, Marked, Behind

LEMMA SetUpManifest ==
  ASSUME LocInv, SetUpInv, WriteManifest
  PROVE  SetUpInv'
<1>1. /\ pc = "manifest" /\ init # Nil /\ init' = init /\ manifest' = init.target
      /\ \/ init.path = "fresh" /\ pc' = "bind_config"
         \/ init.path = "recover" /\ pc' = "config"
      /\ UNCHANGED <<config, dir, store, raced>>
  BY Running, OnwardValues DEF WriteManifest, GoOn, Quiet, Run
<1>2. manifest' # "absent"
  BY <1>1, Running, NamesAssumption DEF Places
<1>. QED
  BY <1>1, <1>2 DEF SetUpInv, RootsUnused, SetUp, Marked, Behind

LEMMA SetUpBindConfig ==
  ASSUME LocInv, SetUpInv, BindConfig
  PROVE  SetUpInv'
<1>1. /\ pc = "bind_config" /\ init # Nil /\ init \in Run /\ pc' = "bind_data"
      /\ config' = "bound" /\ init' = [init EXCEPT !.at = Resolved]
      /\ UNCHANGED <<manifest, dir, store, raced>>
  BY Running, OnwardValues DEF BindConfig, Quiet, Run
<1>2. init'.path = init.path /\ init'.target = init.target
  BY <1>1 DEF Run
<1>. QED
  BY <1>1, <1>2 DEF SetUpInv, RootsUnused, SetUp, Marked, Behind

LEMMA SetUpBindData ==
  ASSUME LocInv, SetUpInv, BindData
  PROVE  SetUpInv'
<1>1. pc = "bind_data" /\ init # Nil /\ manifest \in Places
  BY Running DEF BindData, LocInv, PathInv, Before, Behind
<1>2. CASE Abort
  BY <1>2, SetUpOver DEF Abort
<1>3. CASE ~Abort
  <2>1. pc' = "storage" /\ init' = init /\ UNCHANGED <<manifest, config, store, raced>>
    BY <1>1, <1>3, Running, OnwardValues DEF BindData, GoOn, Quiet, Run
  <2>2. manifest' # "absent"
    BY <1>1, <2>1, NamesAssumption DEF Places
  <2>. QED
    BY <1>1, <2>1, <2>2 DEF SetUpInv, RootsUnused, SetUp, Marked, Behind
<1>. QED
  BY <1>2, <1>3

LEMMA SetUpStorage ==
  ASSUME LocInv, SetUpInv, WriteStorage
  PROVE  SetUpInv'
<1>1. /\ pc \in {"storage", "mend"} /\ init # Nil /\ init' = init
      /\ \/ pc = "storage" /\ pc' = "verify"
         \/ pc = "mend" /\ pc' = "reload" /\ init.path = "recover"
      /\ UNCHANGED <<manifest, config, store, raced>>
  BY Running, OnwardValues DEF WriteStorage, GoOn, Quiet, Run, Before, Behind
<1>2. SetUp'
  BY <1>1 DEF SetUpInv, SetUp, Marked, Behind
<1>3. CASE pc = "storage"
  <2>1. manifest' # "absent"
    BY <1>1, <1>3, Running, NamesAssumption DEF LocInv, PathInv, Behind, Places
  <2>. QED
    BY <1>2, <2>1 DEF SetUpInv, RootsUnused
<1>4. CASE pc = "mend"
  <2>1. /\ dir' = [dir EXCEPT ![init.at].storage = TRUE] /\ init.at \in Places
        /\ dir[init.at] # Nil /\ dir[init.at].bound
    BY <1>1, <1>4 DEF WriteStorage, LocInv, PathInv, Before, Behind
  <2>2. \A place \in Places : place # init.at => dir'[place] = dir[place]
    BY <2>1 DEF LocInv, TypeOK
  <2>3. manifest = "absent" => init.at \notin Roots
    BY <2>1, EmptyType DEF SetUpInv, RootsUnused
  <2>4. RootsUnused'
    BY <1>1, <2>2, <2>3 DEF SetUpInv, RootsUnused, Places
  <2>. QED
    BY <1>2, <2>4 DEF SetUpInv
<1>. QED
  BY <1>1, <1>3, <1>4

\* The commands without a lock: none touches a store or config.toml, and the one
\* that writes records writes none into a directory that is not bound.
LEMMA SetUpReconfigure ==
  ASSUME LocInv, UnlockedInv, SetUpInv, Reconfigure,
         (\E request \in setting : WriteSet(request)) \/ ClearOverride
  PROVE  SetUpInv'
<1>1. /\ UNCHANGED <<config, dir, store, pc, init>> /\ manifest # "absent"
      /\ raced' = (raced \/ pc # "idle")
  BY DEF Reconfigure, ClearOverride, LocInv, PathInv, UnlockedInv, SettingInv
<1>2. manifest' = manifest \/ manifest' \in Places
  BY DEF WriteSet, NewManifest, ClearOverride, disk, LocInv, TypeOK, Request
<1>3. manifest' # "absent"
  BY <1>1, <1>2, NamesAssumption DEF Places
<1>4. init # Nil => raced'
  BY <1>1 DEF LocInv, TypeOK
<1>. QED
  BY <1>1, <1>3, <1>4 DEF SetUpInv, RootsUnused, SetUp, Marked, Behind

LEMMA SetUpCreatePlan ==
  ASSUME LocInv, UnlockedInv, SetUpInv, NEW place \in creating, CreatePlan(place)
  PROVE  SetUpInv'
<1>1. UNCHANGED <<manifest, config, store, pc, init, raced>> /\ manifest # "absent"
  BY DEF CreatePlan, UnlockedInv, CreatingInv
<1>2. /\ dir[place].bound
      /\ \A other \in Places : other # place => dir'[other] = dir[other]
  BY PlanWritten
<1>3. init # Nil => init.target \in Places
  BY Running DEF LocInv, TypeOK
<1>4. ASSUME init # Nil, dir[init.target] = Empty PROVE dir'[init.target] = Empty
  BY <1>2, <1>3, <1>4, EmptyType
<1>. QED
  BY <1>1, <1>4 DEF SetUpInv, RootsUnused, SetUp, Marked

\* The other steps write nothing.
LEMMA SetUpQuiet ==
  ASSUME SetUpInv, UNCHANGED <<disk, pc, init, raced>>
  PROVE  SetUpInv'
BY DEF SetUpInv, RootsUnused, SetUp, Marked, disk

LEMMA SetUpNext == LocInv /\ UnlockedInv /\ SetUpInv /\ [Next]_vars => SetUpInv'
<1> SUFFICES ASSUME LocInv, UnlockedInv, SetUpInv, [Next]_vars PROVE SetUpInv'
  OBVIOUS
<1>1. CASE InitAgain \/ \E target \in Places, create \in BOOLEAN : InitAs(target, create)
  BY <1>1, SetUpStart, DefaultAssumption DEF InitAgain, InitAs, Places
<1>2. CASE Advance
  <2>1. CASE Verify
    BY <2>1, SetUpOver DEF Verify, Abort
  <2>. QED
    BY <1>2, <2>1, SetUpLoad, SetUpPrepare, SetUpMakeData, SetUpConfig, SetUpManifest,
       SetUpBindConfig, SetUpBindData, SetUpStorage DEF Advance
<1>3. CASE Crash
  BY <1>3, SetUpOver DEF Crash
<1>4. CASE UNCHANGED <<disk, pc, init, raced>>
  BY <1>4, SetUpQuiet
<1>5. CASE (\E request \in setting : WriteSet(request)) \/ ClearOverride
  BY <1>4, <1>5, SetUpReconfigure DEF WriteSet, ClearOverride
<1>6. CASE \E place \in creating : CreatePlan(place)
  BY <1>6, SetUpCreatePlan
<1>. QED
  BY <1>1, <1>2, <1>3, <1>4, <1>5, <1>6 DEF Next, CheckSet, LoadProject, disk, vars

LEMMA SetUpAlways == Spec => [](LocInv /\ SetUpInv)
BY LocInvInit, UnlockedInit, LocInvNext, SetUpInit, SetUpNext, PTL DEF Spec

-----------------------------------------------------------------------------
(* An init that is done *)

\* What an init leaves: a project that plans can be made in, or one of the three
\* places that InitCompletes excepts.
Settled == Usable \/ ConfigAlone \/ OtherRoot \/ ForeignData

\* The init that can be given again and again, under which nobody changed the
\* configuration.
Undisturbed == init # Nil /\ init.create /\ init.target = Default /\ ~raced

LEMMA SettledKept ==
  ASSUME Settled, UNCHANGED disk
  PROVE  Settled'
BY DEF Settled, disk, Usable, Valid, Marked, Resolved, Target, ConfigAlone, OtherRoot, ForeignData

\* The last load: the binding, the directory and storage.yaml are there, and only
\* a root that the override names may still be no store.
LEMMA SettledVerify ==
  ASSUME LocInv, SetUpInv, Undisturbed, pc = "verify"
  PROVE  Settled
<1>1. /\ init \in Run /\ pc \in Behind
      /\ manifest \in Places /\ config = "bound" /\ init.at = Resolved
      /\ dir[Resolved] # Nil /\ dir[Resolved].bound /\ dir[Resolved].storage
  BY Running DEF Undisturbed, LocInv, PathInv, UnracedInv, SetUpInv, SetUp, Before, Behind
<1>2. Marked(Default) /\ manifest = Default
  BY <1>1 DEF Undisturbed, LocInv, UnracedInv, SetUpInv, SetUp, Run
<1>3. CASE Marked(Resolved)
  BY <1>1, <1>3 DEF Settled, Usable, Valid
<1>4. CASE ~Marked(Resolved)
  <2>1. Resolved \in Roots /\ Resolved # Default
    BY <1>2, <1>4 DEF Marked
  <2>2. override = Resolved
    BY <1>2, <2>1 DEF Resolved, Target
  <2>. QED
    BY <1>4, <2>1, <2>2 DEF Settled, OtherRoot
<1>. QED
  BY <1>3, <1>4

\* Data that is not bound and does not look like a directory just made.
LEMMA NotEmpty ==
  ASSUME NEW data \in Data, ~data.bound, data # Empty
  PROVE  data.storage \/ data.records # {}
<1>1. data = [bound |-> data.bound, storage |-> data.storage, records |-> data.records]
  BY DEF Data
<1>2. data.bound = FALSE /\ data.storage \in BOOLEAN
  BY DEF Data
<1>. QED
  BY <1>1, <1>2 DEF Empty

\* An init gives up on its directory only where the project's own data is in the way.
LEMMA SettledAbort ==
  ASSUME LocInv, SetUpInv, Undisturbed, BindData, Abort
  PROVE  Settled
<1>1. /\ pc = "bind_data" /\ init \in Run /\ init.at = Resolved /\ init.at \in Places
      /\ dir[Resolved] # Nil /\ dir[Resolved] # Empty
      /\ ~(dir[Resolved].bound /\ init.path = "recover")
  BY Running, NilAssumption
     DEF Undisturbed, BindData, Abort, GoOn, Leave, LocInv, PathInv, UnracedInv
<1>2. init.path = "recover"
  <2>1. init.path = "fresh" => Resolved = init.target /\ dir[init.target] = Empty
    BY <1>1 DEF Undisturbed, LocInv, UnracedInv, SetUpInv, SetUp, Behind, Resolved, Target
  <2>. QED
    BY <1>1, <2>1 DEF Run
<1>3. dir[Resolved].storage \/ dir[Resolved].records # {}
  BY <1>1, <1>2, NotEmpty DEF LocInv, TypeOK
<1>4. Resolved = "project"
  BY <1>1, <1>2, <1>3 DEF Undisturbed, LocInv, BoundFirst
<1>. QED
  BY <1>1, <1>2, <1>4 DEF Settled, ForeignData

LEMMA SettledWhenDone ==
  ASSUME LocInv, SetUpInv, Undisturbed, Advance, init' = Nil
  PROVE  Settled'
<1>1. init # Nil /\ init \in Run
  BY DEF Undisturbed, LocInv, TypeOK
<1>2. init' # init /\ ~GoOn
  BY <1>1 DEF GoOn
<1>3. ~WriteConfig /\ ~WriteManifest /\ ~WriteStorage
  BY <1>2 DEF WriteConfig, WriteManifest, WriteStorage
<1>4. ~BindConfig
  <2>1. BindConfig => [init EXCEPT !.at = Resolved] \in Run
    BY <1>1, ResolvedType, Running DEF BindConfig, LocInv, PathInv, Before, Behind, Run
  <2>. QED
    BY <2>1, NilAssumption DEF BindConfig
<1>5. CASE Load
  <2>1. ~Valid /\ manifest = "absent" /\ UNCHANGED disk
    <3>1. Valid => [init EXCEPT !.at = Resolved] \in Run
      BY <1>1, ResolvedType DEF LocInv, Valid, Run
    <3>. QED
      BY <1>2, <1>5, <3>1, NilAssumption DEF Load, Reregister
  <2>2. init.path = "recover" /\ config # "absent"
    BY <1>5, <2>1, Running DEF Load, SetUpInv, SetUp, Before, Behind
  <2>. QED
    BY <2>1, <2>2, SettledKept DEF Settled, ConfigAlone
<1>6. CASE Reload
  <2>1. Usable /\ UNCHANGED disk
    BY <1>1, <1>6 DEF Reload, Undisturbed, LocInv, UnracedInv, Usable
  <2>. QED
    BY <2>1, SettledKept DEF Settled
<1>7. ~PrepareStore
  BY <1>2 DEF PrepareStore, Refused, Undisturbed
<1>8. ~MakeData
  <2>1. MakeData => pc = "mkdir" /\ dir[init.target] \notin {Nil, Empty}
    BY <1>2 DEF MakeData
  <2>2. pc = "mkdir" => manifest = "absent"
    BY Running DEF LocInv, PathInv, Before, Behind
  <2>3. pc = "mkdir" => dir[init.target] \in {Nil, Empty}
    BY <2>2, DefaultAssumption DEF SetUpInv, RootsUnused, Undisturbed
  <2>. QED
    BY <2>1, <2>3
<1>9. CASE BindData
  BY <1>2, <1>9, SettledAbort, SettledKept DEF BindData, Abort
<1>10. CASE Verify
  BY <1>10, SettledVerify, SettledKept DEF Verify, Abort
<1>. QED
  BY <1>3, <1>4, <1>5, <1>6, <1>7, <1>8, <1>9, <1>10 DEF Advance

\* Every step of an init, of any kind and under any interference, leaves it fewer
\* of the eleven steps it has at most, and nobody gives it more: an init that is
\* not killed ends.
THEOREM InitMovesOn ==
  Spec => /\ [](Left \in 0 .. 11)
          /\ [][(Advance => Left' < Left) /\ (init # Nil => Left' <= Left)]_vars
<1>1. LocInv => Left \in 0 .. 11
  BY LeftType
<1>2. LocInv /\ [Next]_vars =>
        [(Advance => Left' < Left) /\ (init # Nil => Left' <= Left)]_vars
  BY AdvanceNearer, NeverFarther
<1>. QED
  BY <1>1, <1>2, LocInvAlways, PTL DEF Spec

\* The init that ends by itself, having been asked to make the store and nobody
\* having changed the configuration under it, leaves a project that plans can be
\* made in, or one of the three places that init does not get away from: one such
\* init is enough, whatever was set, killed or refused before.
THEOREM OneInitSuffices ==
  Spec => [][Undisturbed /\ Advance /\ init' = Nil => Settled']_vars
<1>1. LocInv /\ SetUpInv /\ [Next]_vars =>
        [Undisturbed /\ Advance /\ init' = Nil => Settled']_vars
  BY SettledWhenDone
<1>. QED
  BY <1>1, SetUpAlways, PTL DEF Spec

\* And a project that plans can be made in stays one: no init, wherever it is
\* killed, and no plan takes that away, only another command that writes the
\* configuration or an init under which one did.
THEOREM StaysUsable ==
  Spec => [][Usable => \/ Usable' \/ raced'
                       \/ ClearOverride \/ \E request \in setting : WriteSet(request)]_vars
<1> DEFINE Kept == Usable => \/ Usable' \/ raced'
                             \/ ClearOverride \/ \E request \in setting : WriteSet(request)
<1>1. ASSUME LocInv, UnlockedInv, Next PROVE Kept
  <2>1. CASE InitAgain
    BY <1>1, <2>1, StartStep, DefaultAssumption DEF InitAgain, Places, LocInv, TypeOK
  <2>2. CASE Advance
    BY <1>1, <2>2, AdvanceStep
  <2>3. CASE UNCHANGED disk
    BY <2>3 DEF disk, Usable, Valid, Marked, Resolved, Target
  <2>4. CASE \E place \in creating : CreatePlan(place)
    BY <1>1, <2>4, CreatePlanStep
  <2>. QED
    BY <1>1, <2>1, <2>2, <2>3, <2>4
       DEF Next, InitAs, StartInit, Crash, CheckSet, LoadProject
<1>2. LocInv /\ UnlockedInv /\ [Next]_vars => [Kept]_vars
  BY <1>1
<1>. QED
  BY <1>2, BothAlways, PTL DEF Spec

=============================================================================
