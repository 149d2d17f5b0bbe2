------------------------------ MODULE Guidance ------------------------------
(***************************************************************************)
(* `planledger next-action', and an agent that does what it says, asks     *)
(* again, and so on, until there is a handoff.  compute_next_action only    *)
(* reads; the agent answers it with the commands that write, of which each  *)
(* is one step here, with the checks that may refuse it.  Users give        *)
(* commands of their own in between, MaxMeddling times.                     *)
(*                                                                         *)
(* There is one workshop at most, and it is the active one.                 *)
(***************************************************************************)
EXTENDS Integers, Sequences, FiniteSets, FiniteSetsExt, Functions

CONSTANTS
  Topics,       \* names a project may configure as question topics
  Lowered,      \* the lower-case spelling of each
  Taggable,     \* those a REQUIRED(...) line can carry: letters, digits, _ and -
  Phrases,      \* trigger phrases, and what a request may contain of them
  Configs,      \* what may stand under prompt_profiles.planning_workshop
  DefaultMax,   \* DEFAULT_MAX_REQUIRED_QUESTIONS, 20 in the code
  OldStatuses,  \* the statuses of the plans a migrated store begins with
  Sections,     \* required components that are empty in a fresh plan
  MaxCount,     \* answered questions are counted up to here
  MaxPlans,     \* bound: plans in the store
  MaxMeddling,  \* bound: commands of users who do not follow the guidance
  Invalid,      \* a configured value of the wrong type
  Untagged,     \* the tag of a plain REQUIRED: line
  Nil

ASSUME TopicsAssumption == /\ Lowered \in [Topics -> Topics]
                           /\ Taggable \subseteq Topics
                           /\ Untagged \notin Topics
-----------------------------------------------------------------------------
(* The prompt profile *)

Profile == [enabled : BOOLEAN, always : BOOLEAN, phrases : SUBSET Phrases,
            topics : Seq(Topics), max : Nat \ {0}, min : Nat]

Disabled == [enabled |-> FALSE, always |-> TRUE, phrases |-> {},
             topics |-> <<>>, max |-> DefaultMax, min |-> 0]

\* A value that does not fit is replaced by its default.
ParseProfile(raw) ==
  IF raw = Nil THEN Disabled
  ELSE [enabled |-> raw.enabled = TRUE,
        always  |-> raw.activation # "triggered",
        phrases |-> IF raw.phrases = Invalid THEN {} ELSE raw.phrases,
        topics  |-> IF raw.topics = Invalid THEN <<>> ELSE raw.topics,
        max     |-> IF raw.max = Invalid \/ raw.max <= 0 THEN DefaultMax ELSE raw.max,
        min     |-> IF raw.min = Invalid \/ raw.min < 0 THEN 0 ELSE raw.min]

ASSUME ConfigsAssumption ==
  \A raw \in Configs : /\ ParseProfile(raw) \in Profile
                       /\ ParseProfile(raw).max <= MaxCount
                       /\ ParseProfile(raw).min <= MaxCount

Active(profile, request) ==
  profile.enabled /\ (profile.always \/ profile.phrases \cap request # {})

-----------------------------------------------------------------------------
(* Plans and workshops, by what the guidance and the gates see of them *)

PlanStatuses == {"new", "in_progress", "rework", "done", "cancelled"}

PlanTransitions ==
  [new         |-> {"in_progress", "rework", "cancelled", "done"},
   in_progress |-> {"rework", "cancelled", "done"},
   rework      |-> {"in_progress", "cancelled", "done"},
   done        |-> {"rework"},
   cancelled   |-> {}]

\* gaps: required components without text; sound: validate_handoff_contents
\* has no complaint but open questions; open: the tags of the unanswered
\* REQUIRED lines; tags, answered: the tags of the answered ones and how many.
Plan == [status : PlanStatuses, request : SUBSET Phrases, gaps : 0 .. Sections,
         sound : BOOLEAN, open : SUBSET (Topics \cup {Untagged}),
         tags : SUBSET Topics, answered : 0 .. MaxCount]

Fresh(request, gaps) ==
  [status |-> "new", request |-> request, gaps |-> gaps, sound |-> FALSE,
   open |-> {}, tags |-> {}, answered |-> 0]

\* The minimum holds for an enabled profile, active or not.
Sated(profile, plan) == profile.enabled => plan.answered >= profile.min

\* validate_plan for done: what both `done' and the guidance ask.
Ready(profile, plan) ==
  plan.gaps = 0 /\ plan.sound /\ plan.open = {} /\ Sated(profile, plan)

WorkshopStatuses == {"new", "exploring", "shaped", "planned", "cancelled"}

WorkshopTransitions ==
  [new       |-> {"exploring", "shaped", "cancelled"},
   exploring |-> {"shaped", "cancelled"},
   shaped    |-> {"exploring", "planned", "cancelled"},
   planned   |-> {"exploring", "cancelled"},
   cancelled |-> {}]

\* examples: there is text; sound: nothing else is missing or malformed; open: a
\* REQUIRED question has no answer.
Workshop == [status : WorkshopStatuses, examples : BOOLEAN, sound : BOOLEAN,
             open : BOOLEAN, linked : BOOLEAN]

Shapely(w) == w.examples /\ w.sound /\ ~w.open

ASSUME BoundsAssumption ==
  /\ OldStatuses \subseteq PlanStatuses
  /\ DefaultMax \in Nat \ {0} /\ Sections \in Nat \ {0}
  /\ MaxCount \in Nat /\ MaxMeddling \in Nat
  /\ MaxPlans \in Nat /\ MaxPlans >= 4  \* the two old ones, two to be suggested

ASSUME NilAssumption == Nil \notin Workshop

-----------------------------------------------------------------------------
VARIABLES
  initialized,  \* whether there is a workspace
  profile,      \* the parsed profile of its configuration
  workshop,     \* the active workshop, or Nil
  plans,        \* the plans, in the order of their numbers
  active,       \* the active plan, 0 for none
  focus,        \* the plan the agent names with --plan, 0 for none
  meddling      \* commands users gave on their own

vars  == <<initialized, profile, workshop, plans, active, focus, meddling>>
store == <<initialized, profile, workshop, plans, active>>

TypeOK ==
  /\ initialized \in BOOLEAN
  /\ profile \in Profile
  /\ workshop \in Workshop \cup {Nil}
  /\ plans \in Seq(Plan) /\ Len(plans) <= MaxPlans
  /\ active \in 0 .. Len(plans)
  /\ focus \in 0 .. Len(plans)
  /\ meddling \in 0 .. MaxMeddling

Numbers == 1 .. Len(plans)

-----------------------------------------------------------------------------
(* compute_next_action *)

Item(name, plan, topic) == [name |-> name, plan |-> plan, topic |-> topic]
Say(name) == Item(name, 0, Nil)

\* What may be said about the workshop.
WorkshopNames == {"answer_required_workshop_question", "ask_workshop_question",
                  "add_concrete_example", "mark_workshop_shaped", "create_plan_from_workshop"}

ASSUME NilIsNoItem == \A name \in WorkshopNames : Say(name) # Nil

\* Mistake: a workshop is sent to planning once it has a plan.
AwaitsPlanLinked(w) == w.status = "shaped" /\ w.linked

AwaitsPlan(w) == w.status = "shaped" /\ ~w.linked

\* The request is not looked at, so a triggered profile is never active here.
Interviewing(w) ==
  Active(profile, {}) /\ w.status \notin {"shaped", "planned", "cancelled"}

\* _compute_active_workshop_next_action; Nil when the workshop has no say.
WorkshopItem(w) ==
  IF w.open THEN Say("answer_required_workshop_question")
  ELSE IF Interviewing(w) THEN Say("ask_workshop_question")
  ELSE IF ~w.examples THEN Say("add_concrete_example")
  ELSE IF Shapely(w) /\ w.status = "exploring" THEN Say("mark_workshop_shaped")
  ELSE IF AwaitsPlan(w) THEN Say("create_plan_from_workshop")
  ELSE Nil

\* Mistake: the answered topics stay in the queue.
UnaskedTopics(plan) == {i \in DOMAIN profile.topics : profile.topics[i] \notin plan.open}

\* By their places in the profile.  Answered tags are compared in lower case, the
\* configured topics as they are.
RemainingTopics(plan) ==
  {i \in DOMAIN profile.topics : profile.topics[i] \notin plan.tags \cup plan.open}

AllTopicsAnswered(plan) ==
  profile.topics # <<>> /\ Range(profile.topics) \subseteq plan.tags

Queueing(plan) ==
  Active(profile, plan.request) /\ plan.status \notin {"done", "cancelled"}

\* Mistake: the profile's minimum is left to the gate.
BlockedByContents(plan) == ~(plan.gaps = 0 /\ plan.sound /\ plan.open = {})

Blocked(plan) == ~Ready(profile, plan)

PlanItem(n) ==
  LET plan == plans[n]
      remaining == RemainingTopics(plan)
  IN  IF plan.gaps > 0 THEN Item("fill_component", n, Nil)
      ELSE IF plan.open # {} THEN Item("answer_required_question", n, Nil)
      ELSE IF Queueing(plan) /\ remaining # {}
             THEN Item("ask_plan_question", n, profile.topics[Min(remaining)])
      ELSE IF /\ Queueing(plan) /\ ~AllTopicsAnswered(plan)
              /\ plan.answered < profile.max
             THEN Item("ask_plan_question", n, Untagged)
      ELSE IF Blocked(plan) THEN Item("fix_validation", n, Nil)
      ELSE IF plan.status = "done" THEN Item("handoff_ready", n, Nil)
      ELSE Item("mark_done_after_human_approval", n, Nil)

Live   == {n \in Numbers : plans[n].status # "cancelled"}
Undone == {n \in Live : plans[n].status # "done"}
Only(S) == CHOOSE n \in S : TRUE

UnnamedPlanItem ==
  IF active # 0 THEN PlanItem(active)
  ELSE IF Cardinality(Live) = 1 THEN PlanItem(Only(Live))
  ELSE IF Cardinality(Undone) = 1 THEN PlanItem(Only(Undone))
  ELSE IF Cardinality(Undone) > 1 THEN Say("specify_plan")
  ELSE Say("create_plan")

NextItem ==
  IF ~initialized THEN Say("init")
  ELSE IF focus # 0 THEN PlanItem(focus)
  ELSE IF workshop # Nil /\ WorkshopItem(workshop) # Nil THEN WorkshopItem(workshop)
  ELSE UnnamedPlanItem

Told(name) == NextItem.name = name

-----------------------------------------------------------------------------
(* The commands that write, and what they refuse *)

\* apply_plan_mutations with texts: `plan component set', `append', `plan apply'.
EditPlan(n, plan) ==
  /\ plans[n].status # "cancelled"
  /\ plan.status = "done" => Ready(profile, plan)
  /\ plans' = [plans EXCEPT ![n] = plan]
  /\ UNCHANGED <<initialized, profile, workshop, active>>

\* apply_plan_mutations with a status: `plan status', `plan cancel'.
SetPlanStatus(n, status) ==
  /\ plans[n].status # "cancelled"
  /\ status = plans[n].status \/ status \in PlanTransitions[plans[n].status]
  /\ status = "done" => Ready(profile, plans[n])
  /\ plans' = [plans EXCEPT ![n].status = status]
  /\ UNCHANGED <<initialized, profile, workshop, active>>

AddPlan(plan) ==
  /\ Len(plans) < MaxPlans
  /\ plans' = Append(plans, plan)
  /\ active' = Len(plans) + 1

\* `plan create'
CreatePlan(request) ==
  /\ initialized
  /\ AddPlan(Fresh(request, Sections))
  /\ UNCHANGED <<initialized, profile, workshop>>

\* `plan create --from-workshop': the texts it derives leave fewer gaps.
CreatePlanFromWorkshop ==
  /\ workshop.status = "shaped" /\ Shapely(workshop)
  /\ \E request \in SUBSET Phrases : AddPlan(Fresh(request, 1))
  /\ workshop' = [workshop EXCEPT !.linked = TRUE, !.status = "planned"]
  /\ UNCHANGED <<initialized, profile>>

\* apply_workshop_mutations, with texts and with a status.
EditWorkshop(w) ==
  /\ workshop.status # "cancelled"
  /\ w.status = "shaped" => Shapely(w)
  /\ workshop' = w
  /\ UNCHANGED <<initialized, profile, plans, active>>

SetWorkshopStatus(status) ==
  /\ status = workshop.status \/ status \in WorkshopTransitions[workshop.status]
  /\ EditWorkshop([workshop EXCEPT !.status = status])

-----------------------------------------------------------------------------
(* The agent does as it is told: one action for each item *)

Recorded(plan, tag) ==
  [plan EXCEPT !.open = IF tag \in Taggable \cup {Untagged} THEN @ \cup {tag} ELSE @]

\* Mistake: a plain question is answered under a tag.
AnsweredTagging(plan, tag) ==
  [plan EXCEPT !.open = @ \ {tag}, !.tags = @ \cup {tag},
               !.answered = IF @ < MaxCount THEN @ + 1 ELSE @]

Answered(plan, tag) ==
  [plan EXCEPT !.open = @ \ {tag},
               !.tags = IF tag = Untagged THEN @ ELSE @ \cup {Lowered[tag]},
               !.answered = IF @ < MaxCount THEN @ + 1 ELSE @]

InitProject ==
  /\ Told("init")
  /\ initialized' = TRUE
  /\ UNCHANGED <<profile, workshop, plans, active>>

AnswerWorkshopQuestion ==
  /\ Told("answer_required_workshop_question")
  /\ EditWorkshop([workshop EXCEPT !.open = FALSE])

AskWorkshopQuestion ==
  /\ Told("ask_workshop_question")
  /\ EditWorkshop([workshop EXCEPT !.open = TRUE])

\* The example may lack its steps.
AddConcreteExample ==
  /\ Told("add_concrete_example")
  /\ \E complete \in BOOLEAN :
       EditWorkshop([workshop EXCEPT !.examples = TRUE, !.sound = @ /\ complete])

MarkWorkshopShaped ==
  Told("mark_workshop_shaped") /\ SetWorkshopStatus("shaped")

PlanTheWorkshop ==
  Told("create_plan_from_workshop") /\ CreatePlanFromWorkshop

CreateFirstPlan ==
  /\ Told("create_plan")
  /\ \E request \in SUBSET Phrases : CreatePlan(request)

\* What is filled in may not pass the guardrails.
FillComponent ==
  /\ Told("fill_component")
  /\ LET n == NextItem.plan
     IN  \E sound \in BOOLEAN :
           EditPlan(n, [plans[n] EXCEPT !.gaps = @ - 1, !.sound = sound])

AnswerRequiredQuestion ==
  /\ Told("answer_required_question")
  /\ LET n == NextItem.plan
     IN  \E tag \in plans[n].open : EditPlan(n, Answered(plans[n], tag))

AskPlanQuestion ==
  /\ Told("ask_plan_question")
  /\ LET n == NextItem.plan
     IN  EditPlan(n, Recorded(plans[n], NextItem.topic))

\* A done plan is reopened; else one blocker goes: an unsound text is corrected,
\* a question that is missing for the minimum is asked.
FixValidation ==
  /\ Told("fix_validation")
  /\ LET n == NextItem.plan
     IN  \/ plans[n].status = "done" /\ SetPlanStatus(n, "rework")
         \/ /\ plans[n].status # "done" /\ ~plans[n].sound
            /\ EditPlan(n, [plans[n] EXCEPT !.sound = TRUE])
         \/ /\ plans[n].status # "done" /\ ~Sated(profile, plans[n])
            /\ EditPlan(n, Recorded(plans[n], Untagged))

MarkDone ==
  Told("mark_done_after_human_approval") /\ SetPlanStatus(NextItem.plan, "done")

SpecifyPlan ==
  /\ Told("specify_plan")
  /\ focus' \in Undone
  /\ UNCHANGED store

Follow ==
  /\ \/ SpecifyPlan
     \/ /\ \/ InitProject
           \/ AnswerWorkshopQuestion \/ AskWorkshopQuestion \/ AddConcreteExample
           \/ MarkWorkshopShaped \/ PlanTheWorkshop
           \/ CreateFirstPlan \/ FillComponent
           \/ AnswerRequiredQuestion \/ AskPlanQuestion
           \/ FixValidation \/ MarkDone
        /\ UNCHANGED focus
  /\ UNCHANGED meddling

-----------------------------------------------------------------------------
(* What users do on their own *)

CreateWorkshop(status) ==
  /\ initialized /\ workshop = Nil
  /\ workshop' = [status |-> status, examples |-> FALSE, sound |-> FALSE,
                  open |-> FALSE, linked |-> FALSE]
  /\ UNCHANGED <<initialized, profile, plans, active>>

ReviseWorkshop ==
  /\ workshop # Nil
  /\ \E examples, sound, open \in BOOLEAN :
       EditWorkshop([workshop EXCEPT !.examples = examples, !.sound = sound, !.open = open])

ChangeWorkshopStatus ==
  workshop # Nil /\ \E status \in WorkshopStatuses : SetWorkshopStatus(status)

\* Two numbers are left for the plans the guidance may call for.
CreateAnotherPlan ==
  Len(plans) + 2 < MaxPlans /\ CreatePlan({})

ActivatePlan(n) ==
  /\ active' = n
  /\ UNCHANGED <<initialized, profile, workshop, plans>>

ChangePlanStatus(n) == \E status \in PlanStatuses : SetPlanStatus(n, status)

\* A required component is emptied, a text spoilt, or a question recorded.
RevisePlan(n) ==
  \/ plans[n].gaps < Sections /\ EditPlan(n, [plans[n] EXCEPT !.gaps = @ + 1])
  \/ EditPlan(n, [plans[n] EXCEPT !.sound = FALSE])
  \/ \E tag \in Taggable \cup {Untagged} : EditPlan(n, Recorded(plans[n], tag))

ChangeProfile ==
  /\ \E raw \in Configs : profile' = ParseProfile(raw)
  /\ UNCHANGED <<initialized, workshop, plans, active>>

\* The agent is asked about a plan by its number, or about the workspace.
NameAPlan ==
  focus' \in {0} \cup Numbers /\ UNCHANGED store

Meddle ==
  /\ meddling < MaxMeddling
  /\ meddling' = meddling + 1
  /\ \/ NameAPlan
     \/ /\ \/ \E status \in {"new", "exploring"} : CreateWorkshop(status)
           \/ ReviseWorkshop \/ ChangeWorkshopStatus
           \/ CreateAnotherPlan
           \/ \E n \in Numbers : ActivatePlan(n) \/ ChangePlanStatus(n) \/ RevisePlan(n)
           \/ ChangeProfile
        /\ UNCHANGED focus

-----------------------------------------------------------------------------
(* A fresh project, or a migrated store whose active pointer was not kept. *)

Old(status) ==
  [Fresh({}, 0) EXCEPT !.status = status, !.sound = TRUE]

Init ==
  /\ profile \in {ParseProfile(raw) : raw \in Configs}
  /\ \/ initialized = FALSE /\ plans = <<>>
     \/ /\ initialized = TRUE
        /\ \E s1, s2 \in OldStatuses : plans = <<Old(s1), Old(s2)>>
  /\ workshop = Nil /\ active = 0 /\ focus = 0 /\ meddling = 0

Next == Follow \/ Meddle

\* An agent goes on as long as the guidance tells it something it can do, and
\* users answer what they are asked; nobody need do anything on their own.
Spec == Init /\ [][Next]_vars /\ WF_vars(Follow)

-----------------------------------------------------------------------------
(* Properties *)

\* The suggestion is about a record that is cancelled, and every command on it
\* is refused (compute_next_action does not look whether the active plan or
\* workshop is cancelled).
DeadEnd ==
  \/ NextItem.plan # 0 /\ plans[NextItem.plan].status = "cancelled"
  \/ /\ workshop # Nil /\ NextItem = WorkshopItem(workshop)
     /\ workshop.status = "cancelled"

\* An always-active profile asks about the workshop until a user shapes it.
OpenEnded ==
  initialized /\ focus = 0 /\ workshop # Nil /\ Interviewing(workshop)

\* A configured topic that is not spelt as a tag is never seen to be answered
\* (resolved_required_question_topics lowers and filters what it compares).
Unanswerable ==
  \E t \in Range(profile.topics) : t \notin Taggable \/ Lowered[t] # t

\* Once users leave the agent alone, doing what next-action says leads to a
\* finished handoff, but for the three cases above.
HandoffReached ==
  <>[](Told("handoff_ready") \/ DeadEnd \/ OpenEnded \/ Unanswerable)

\* A shaped workshop gets its plan, or is taken back by a user
\* (create_plan_from_workshop is suggested until there is a linked plan).
Waiting == workshop # Nil /\ workshop.status = "shaped" /\ ~workshop.linked

ShapedIsPlanned == Waiting /\ focus = 0 ~> ~Waiting \/ focus # 0

\* What next-action suggests, the commands accept: its view of a record and the
\* checks of apply_plan_mutations, apply_workshop_mutations and
\* create_plan_from_workshop agree, on every record that is not cancelled.
SuggestionAccepted ==
  Told("handoff_ready") \/ DeadEnd \/ ENABLED Follow

=============================================================================
