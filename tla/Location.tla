------------------------------ MODULE Location ------------------------------
(***************************************************************************)
(* Where a project keeps its data: `planledger init', which sets a project   *)
(* up or takes up a set-up that was not finished, `storage set' and          *)
(* `storage clear-override', which change what the configuration names, and  *)
(* `plan create', which puts records where the configuration points.  init   *)
(* holds the write lock, so one runs at a time; it may die between any two   *)
(* of its writes.  The other commands take no lock and may come anywhere,    *)
(* also between the check of a `storage set' and its write, or between what  *)
(* a `plan create' loads and what it writes.                                *)
(*                                                                         *)
(* The files are .ledger/ledger.toml (the manifest), ledger.local.toml (the  *)
(* override), planledger/config.toml, the marker of an external store and    *)
(* the data directory with its binding and storage.yaml.  Reading and        *)
(* validating them is Ledgercore's, a library outside this repository.       *)
(***************************************************************************)
EXTENDS Naturals, FiniteSets

CONSTANTS
  Roots,        \* the external roots that can be named
  Default,      \* the one `init' takes by itself, ../ledger
  MaxPlans,     \* bound: plans that are created
  MaxCommands,  \* bound: commands other than `init --create-external-store'
  MaxCrashes,   \* bound: inits that are killed
  Nil

\* `project' stands for user-data too: neither has a store with a marker.
Places == Roots \cup {"project"}

Plans == 1 .. MaxPlans

\* A data directory.  The directories for the records are made with storage.yaml.
Data == [bound : BOOLEAN, storage : BOOLEAN, records : SUBSET Plans]

Empty == [bound |-> FALSE, storage |-> FALSE, records |-> {}]

\* One `init': whether it found nothing, what it was asked for, and the
\* directory the configuration named when it loaded it.
Run == [path : {"fresh", "recover"}, target : Places, create : BOOLEAN, at : Places \cup {Nil}]

ASSUME DefaultAssumption == Default \in Roots
ASSUME BoundsAssumption  == MaxPlans \in Nat /\ MaxCommands \in Nat /\ MaxCrashes \in Nat
ASSUME NilAssumption ==
  Nil \notin Places /\ Nil \notin Data /\ Nil \notin Run
ASSUME NamesAssumption == {"absent", "shared", "project"} \cap Roots = {}

\* One `storage set' that has passed its check: what it will write, and of what it
\* read how many plans there were and what the configuration was.
Request == [place : Places, local : BOOLEAN, made : 0 .. MaxPlans,
            manifest : Places \cup {"shared"}, override : Places \cup {Nil}]

VARIABLES
  manifest,  \* "absent", "shared" with other tools only, or the place it registers
  override,  \* the place the override names, or Nil
  config,    \* config.toml: "absent", "unbound" or "bound"
  dir,       \* the data directory at each place, or Nil
  store,     \* each external root: "absent", "empty", "foreign" or "marked"
  pc,        \* where the running init is
  init,      \* the running init, or Nil
  creating,  \* where the `plan create' that run have found the data
  setting,   \* the `storage set' that have passed their checks
  made,      \* how many plans were created
  raced,     \* whether the configuration was changed under a running init
  commands,
  crashes

vars == <<manifest, override, config, dir, store, pc, init, creating, setting, made,
          raced, commands, crashes>>

disk == <<manifest, override, config, dir, store>>

Labels == {"idle", "load", "store", "mkdir", "config", "manifest", "bind_config",
           "bind_data", "storage", "mend", "reload", "verify"}

TypeOK ==
  /\ manifest \in Places \cup {"absent", "shared"}
  /\ override \in Places \cup {Nil}
  /\ config \in {"absent", "unbound", "bound"}
  /\ dir \in [Places -> Data \cup {Nil}]
  /\ store \in [Roots -> {"absent", "empty", "foreign", "marked"}]
  /\ pc \in Labels
  /\ init \in Run \cup {Nil}
  /\ pc = "idle" <=> init = Nil
  /\ creating \subseteq Places
  /\ setting \subseteq Request
  /\ made \in 0 .. MaxPlans
  /\ raced \in BOOLEAN
  /\ commands \in 0 .. MaxCommands
  /\ crashes \in 0 .. MaxCrashes

\* Other tools may have a manifest already, a root may hold anything, and the
\* project may still have data that no configuration speaks of.
Init ==
  /\ manifest \in {"absent", "shared"}
  /\ override = Nil
  /\ config = "absent"
  /\ \E leftover \in {Nil, [Empty EXCEPT !.storage = TRUE]} :
       dir = [place \in Places |-> IF place = "project" THEN leftover ELSE Nil]
  /\ store \in [Roots -> {"absent", "empty", "foreign", "marked"}]
  /\ pc = "idle" /\ init = Nil /\ creating = {} /\ setting = {}
  /\ made = 0 /\ raced = FALSE /\ commands = 0 /\ crashes = 0

-----------------------------------------------------------------------------
(* What the configuration says *)

\* Where a configuration with this override and this manifest points to.
Target(local, registered) == IF local # Nil THEN local ELSE registered

Resolved == Target(override, manifest)

Marked(place) == place \in Roots => store[place] = "marked"

\* load_canonical_workspace(require_initialized=False) accepts it.
Valid ==
  /\ manifest \in Places
  /\ config = "bound"
  /\ Marked(Resolved)
  /\ dir[Resolved] # Nil /\ dir[Resolved].bound

\* The commands on plans work.
Usable == Valid /\ dir[Resolved].storage

Visible == IF Usable THEN dir[Resolved].records ELSE {}

Populated(place) == dir[place] # Nil /\ dir[place].records # {}

-----------------------------------------------------------------------------
(* init *)

\* The writes of the two paths, in their order.
Onward == [fresh   |-> [store |-> "mkdir", mkdir |-> "config", config |-> "manifest",
                        manifest |-> "bind_config", bind_config |-> "bind_data",
                        bind_data |-> "storage", storage |-> "verify"],
           recover |-> [manifest |-> "config", config |-> "store", store |-> "bind_config",
                        bind_config |-> "bind_data", bind_data |-> "storage",
                        storage |-> "verify", mend |-> "reload"]]

GoOn == pc' = Onward[init.path][pc] /\ UNCHANGED init

Leave == pc' = "idle" /\ init' = Nil

Quiet == UNCHANGED <<creating, setting, made, raced, commands, crashes>>

\* init refuses; what it wrote before stays.
Abort == Leave /\ Quiet /\ UNCHANGED disk

StartInit(target, create) ==
  LET fresh == manifest = "absent" /\ config = "absent"
  IN /\ pc = "idle"
     /\ pc' = IF fresh THEN "store" ELSE "load"
     /\ init' = [path |-> IF fresh THEN "fresh" ELSE "recover", target |-> target,
                 create |-> create, at |-> Nil]
     /\ UNCHANGED <<disk, creating, setting, made, raced, crashes>>

\* The init that can be given again and again.
InitAgain == StartInit(Default, TRUE) /\ UNCHANGED commands

InitAs(target, create) ==
  /\ commands < MaxCommands
  /\ create => target \in Roots \ {Default}
  /\ StartInit(target, create)
  /\ commands' = commands + 1

\* What does not load is registered once more, as this init was asked to, but not
\* where the manifest is missing: that is not one of _RECOVERABLE_INIT_CODES.
Reregister ==
  IF manifest = "absent" THEN Leave ELSE pc' = "manifest" /\ UNCHANGED init

\* Mistake: a configuration that loads is taken for a project that is complete.
LoadTrusting ==
  /\ pc = "load"
  /\ \/ Valid /\ pc' = "reload" /\ init' = [init EXCEPT !.at = Resolved]
     \/ ~Valid /\ Reregister
  /\ Quiet /\ UNCHANGED disk

\* An init of a project with a configuration loads it first.
Load ==
  /\ pc = "load"
  /\ \/ /\ Valid
        /\ pc' = IF Usable THEN "reload" ELSE "mend"
        /\ init' = [init EXCEPT !.at = Resolved]
     \/ ~Valid /\ Reregister
  /\ Quiet /\ UNCHANGED disk

\* It loads it again before it reports success, and takes an error as before.
Reload ==
  /\ pc = "reload"
  /\ IF Valid THEN Leave ELSE Reregister
  /\ Quiet /\ UNCHANGED disk

\* Roots that hold something else, or nothing, are made stores if asked to.
Refused(root) == store[root] \in {"absent", "foreign"} /\ ~init.create

PrepareStore ==
  LET root == init.target
  IN /\ pc = "store"
     /\ \/ root \notin Roots /\ GoOn /\ UNCHANGED store
        \/ /\ root \in Roots
           /\ \/ store[root] = "marked" /\ GoOn /\ UNCHANGED store
              \/ Refused(root) /\ Leave /\ UNCHANGED store
              \/ /\ store[root] = "absent" /\ ~Refused(root)
                 /\ store' = [store EXCEPT ![root] = "empty"]
                 /\ UNCHANGED <<pc, init>>
              \/ /\ store[root] \in {"empty", "foreign"} /\ ~Refused(root)
                 /\ store' = [store EXCEPT ![root] = "marked"]
                 /\ GoOn
     /\ Quiet /\ UNCHANGED <<manifest, override, config, dir>>

\* A first init makes its data directory, and wants it empty.
MakeData ==
  /\ pc = "mkdir"
  /\ \/ /\ dir[init.target] \notin {Nil, Empty}
        /\ Abort
     \/ /\ dir[init.target] \in {Nil, Empty}
        /\ dir' = [dir EXCEPT ![init.target] = Empty]
        /\ GoOn /\ Quiet /\ UNCHANGED <<manifest, override, config, store>>

WriteConfig ==
  /\ pc = "config"
  /\ config' = IF config = "absent" THEN "unbound" ELSE config
  /\ GoOn /\ Quiet /\ UNCHANGED <<manifest, override, dir, store>>

\* Mistake: a mount that is registered already is kept.
WriteManifestKept ==
  /\ pc = "manifest"
  /\ manifest' = IF manifest \in Places THEN manifest ELSE init.target
  /\ GoOn /\ Quiet /\ UNCHANGED <<override, config, dir, store>>

\* ensure_planledger_registration: the mount is the one asked for, whatever it was.
WriteManifest ==
  /\ pc = "manifest"
  /\ manifest' = init.target
  /\ GoOn /\ Quiet /\ UNCHANGED <<override, config, dir, store>>

\* The layout is loaded, override and all, and the binding of config.toml written.
BindConfig ==
  /\ pc = "bind_config"
  /\ config' = "bound"
  /\ init' = [init EXCEPT !.at = Resolved]
  /\ pc' = Onward[init.path][pc]
  /\ Quiet /\ UNCHANGED <<manifest, override, dir, store>>

\* Mistake: the binding is left to the end.
BindDataLater ==
  /\ pc = "bind_data"
  /\ dir' = [dir EXCEPT ![init.at] = IF @ = Nil THEN Empty ELSE @]
  /\ GoOn /\ Quiet /\ UNCHANGED <<manifest, override, config, store>>

\* initialize_storage_binding(require_empty=True), in a recovery only where there
\* is no binding yet.
BindData ==
  LET data == dir[init.at]
      held == data # Nil /\ data.bound /\ init.path = "recover"
  IN /\ pc = "bind_data"
     /\ \/ /\ ~held /\ data \notin {Nil, Empty}
           /\ Abort
        \/ /\ held \/ data \in {Nil, Empty}
           /\ dir' = [dir EXCEPT ![init.at] = IF held THEN @ ELSE [Empty EXCEPT !.bound = TRUE]]
           /\ GoOn /\ Quiet /\ UNCHANGED <<manifest, override, config, store>>

\* storage.yaml: a first init writes it where it was asked to, a recovery where
\* the configuration points.
WriteStorage ==
  LET place == IF init.path = "fresh" THEN init.target ELSE init.at
  IN /\ pc \in {"storage", "mend"}
     /\ dir' = [dir EXCEPT ![place].storage = TRUE]
     /\ GoOn /\ Quiet /\ UNCHANGED <<manifest, override, config, store>>

\* The project is loaded at last: success if it is Valid, an error otherwise.
Verify == pc = "verify" /\ Abort

Crash ==
  /\ pc # "idle" /\ crashes < MaxCrashes
  /\ crashes' = crashes + 1
  /\ Leave
  /\ UNCHANGED <<disk, creating, setting, made, raced, commands>>

Advance ==
  \/ Load \/ Reload \/ PrepareStore \/ MakeData \/ WriteConfig \/ WriteManifest
  \/ BindConfig \/ BindData \/ WriteStorage \/ Verify

-----------------------------------------------------------------------------
(* The commands without a lock *)

Command == commands < MaxCommands /\ commands' = commands + 1

\* The configuration is written, whoever is running.
Reconfigure ==
  /\ raced' = (raced \/ pc # "idle")
  /\ UNCHANGED <<config, dir, store, pc, init, creating, made, crashes>>

\* What a `storage set' is to make of the override and of the manifest.
NewOverride(place, local) == IF local THEN place ELSE override
NewManifest(place, local) == IF local THEN manifest ELSE place

\* Mistake: the records are looked for where the data is to be.
RedirectsTarget(place, local) ==
  LET target == Target(NewOverride(place, local), NewManifest(place, local))
  IN  manifest \in Places /\ target # Resolved /\ Populated(target)

\* It would point away from records.
Redirects(place, local) ==
  /\ manifest \in Places
  /\ Target(NewOverride(place, local), NewManifest(place, local)) # Resolved
  /\ Populated(Resolved)

\* `storage set' checks first that it does not, where something is registered.
CheckSet(place, local) ==
  /\ manifest # "absent" /\ ~Redirects(place, local)
  /\ setting' = setting \cup {[place |-> place, local |-> local, made |-> made,
                               manifest |-> manifest, override |-> override]}
  /\ Command
  /\ UNCHANGED <<disk, pc, init, creating, made, raced, crashes>>

\* Later it loads the configuration again and writes it.  A root that is not empty
\* must be a store; one that is may be set up later.  Only what is registered can
\* be overridden.
Writable(request) ==
  /\ request.place \in Roots => store[request.place] # "foreign"
  /\ request.local => manifest # "shared"

WriteSet(request) ==
  /\ request \in setting
  /\ setting' = setting \ {request}
  /\ \/ /\ Writable(request)
        /\ override' = NewOverride(request.place, request.local)
        /\ manifest' = NewManifest(request.place, request.local)
        /\ Reconfigure
     \/ /\ ~Writable(request)
        /\ UNCHANGED <<disk, pc, init, creating, made, raced, crashes>>
  /\ UNCHANGED commands

ClearOverride ==
  /\ override # Nil
  /\ override' = Nil
  /\ Reconfigure /\ Command /\ UNCHANGED <<manifest, setting>>

\* `plan create' loads the project, and later writes its record into the data it
\* was shown then.
LoadProject ==
  /\ Usable /\ made < MaxPlans
  /\ creating' = creating \cup {Resolved}
  /\ UNCHANGED <<disk, pc, init, setting, made, raced, commands, crashes>>

CreatePlan(place) ==
  /\ place \in creating /\ made < MaxPlans
  /\ creating' = creating \ {place}
  /\ made' = made + 1
  /\ dir' = [dir EXCEPT ![place].records = @ \cup {made'}]
  /\ UNCHANGED <<manifest, override, config, store, pc, init, setting, raced, commands, crashes>>

Next ==
  \/ InitAgain
  \/ \E target \in Places, create \in BOOLEAN : InitAs(target, create)
  \/ Advance \/ Crash
  \/ \E place \in Places, local \in BOOLEAN : CheckSet(place, local)
  \/ \E request \in setting : WriteSet(request)
  \/ ClearOverride
  \/ LoadProject
  \/ \E place \in creating : CreatePlan(place)

\* An init that runs goes on, and `init --create-external-store' is given again
\* for as long as there is time.
Fairness == WF_vars(Advance) /\ WF_vars(InitAgain)

Spec == Init /\ [][Next]_vars /\ Fairness

-----------------------------------------------------------------------------
(* Properties *)

\* What a `storage set' that is carried out in this step did not see when it
\* looked: the plan, or that the configuration points where it does.
Overtaken(plan) ==
  \E request \in setting \ setting' :
    \/ plan > request.made
    \/ <<request.manifest, request.override>> # <<manifest, override>>

\* Records do not go out of sight: no init, however it was asked for, killed or
\* repeated, and no `storage set' points a project away from records that were
\* there when it looked (PLANLEDGER_STORAGE_MIGRATION_REQUIRED, cli.py), however
\* much later it writes.  It does from those that came in between, which is all
\* that can be lost to it unless the configuration was changed in between.
\* `storage clear-override' does, and so does an init under which the
\* configuration was changed.
RecordsInSight ==
  [][\A plan \in Visible : \/ plan \in Visible'
                          \/ Overtaken(plan)
                          \/ (override # Nil /\ override' = Nil)
                          \/ raced']_vars

\* Nothing is in a data directory that was not bound to the project first, save
\* what was found there: an init that dies leaves no data it will not take up.
BoundFirst ==
  \A place \in Places :
    dir[place] # Nil /\ (dir[place].storage \/ dir[place].records # {}) /\ ~dir[place].bound =>
      raced \/ (place = "project" /\ dir[place].records = {})

\* An init that reports success leaves a project that plans can be made in, also
\* when it only went on with what a killed one had left.
ReportTrue == pc \in {"reload", "verify"} /\ Valid => Usable \/ raced

\* The three places from which `init' does not get anywhere by being repeated.
ConfigAlone   == manifest = "absent" /\ config # "absent"
OtherRoot     == override \in Roots \ {Default} /\ ~Marked(override)
ForeignData   == Resolved = "project" /\ dir["project"] # Nil /\ ~dir["project"].bound

\* Whatever was set, killed or refused before, `init' given again completes the
\* project.  It does not where a first init died between config.toml and the
\* manifest, where the override names a root that is no store yet, which init
\* does not look at, and where it names data that nothing is bound to.
InitCompletes == <>[](Usable \/ ConfigAlone \/ OtherRoot \/ ForeignData \/ raced)

=============================================================================
