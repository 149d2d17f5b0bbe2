---------------------------- MODULE GuidanceProofs ----------------------------
(***************************************************************************)
(* For any profiles, topics, plans and number of commands that users give on *)
(* their own: the guidance and the gates of the commands agree.  What is     *)
(* suggested about a record that is not cancelled, no check refuses.         *)
(***************************************************************************)
EXTENDS Guidance, FiniteSetTheorems, WellFoundedInduction, TLAPS

-----------------------------------------------------------------------------
(* The inductive invariant *)

\* A plan becomes done only through the gate and stays so only through it; what
\* can go out of date in it is the minimum of a profile that was changed since.
DoneIsSound ==
  \A n \in Numbers : plans[n].status = "done" =>
    plans[n].gaps = 0 /\ plans[n].sound /\ plans[n].open = {}

\* Likewise a shaped workshop, of which nothing goes out of date.
ShapedIsShapely == workshop # Nil /\ workshop.status = "shaped" => Shapely(workshop)

\* The guidance asks for a plan for the workshop at most once, and for a plan
\* only as long as none is active: there are numbers left for both.
ToBeLinked == workshop = Nil \/ ~workshop.linked

RoomLeft ==
  /\ ToBeLinked /\ active = 0 => Len(plans) + 2 <= MaxPlans
  /\ ToBeLinked \/ active = 0 => Len(plans) < MaxPlans

GuidanceInv == TypeOK /\ DoneIsSound /\ ShapedIsShapely /\ RoomLeft

-----------------------------------------------------------------------------
(* What the checks of the commands accept, without what they then do *)

MayEditPlan(n, plan) ==
  plans[n].status # "cancelled" /\ (plan.status = "done" => Ready(profile, plan))

MaySetStatus(n, status) ==
  /\ plans[n].status # "cancelled"
  /\ status = plans[n].status \/ status \in PlanTransitions[plans[n].status]
  /\ status = "done" => Ready(profile, plans[n])

MayEditWorkshop(w) ==
  workshop # Nil /\ workshop.status # "cancelled" /\ (w.status = "shaped" => Shapely(w))

MayAddPlan == initialized /\ Len(plans) < MaxPlans

WorkshopAccepts ==
  \/ /\ Told("answer_required_workshop_question")
     /\ MayEditWorkshop([workshop EXCEPT !.open = FALSE])
  \/ /\ Told("ask_workshop_question")
     /\ MayEditWorkshop([workshop EXCEPT !.open = TRUE])
  \/ /\ Told("add_concrete_example")
     /\ \A complete \in BOOLEAN :
          MayEditWorkshop([workshop EXCEPT !.examples = TRUE, !.sound = @ /\ complete])
  \/ /\ Told("mark_workshop_shaped")
     /\ "shaped" \in WorkshopTransitions[workshop.status]
     /\ MayEditWorkshop([workshop EXCEPT !.status = "shaped"])
  \/ /\ Told("create_plan_from_workshop")
     /\ workshop # Nil /\ workshop.status = "shaped" /\ Shapely(workshop) /\ MayAddPlan

PlanAccepts(n) ==
  \/ /\ Told("fill_component")
     /\ \A sound \in BOOLEAN :
          MayEditPlan(n, [plans[n] EXCEPT !.gaps = @ - 1, !.sound = sound])
  \/ /\ Told("answer_required_question") /\ plans[n].open # {}
     /\ \A tag \in plans[n].open : MayEditPlan(n, Answered(plans[n], tag))
  \/ /\ Told("ask_plan_question")
     /\ MayEditPlan(n, Recorded(plans[n], NextItem.topic))
  \/ /\ Told("fix_validation") /\ plans[n].status = "done"
     /\ MaySetStatus(n, "rework")
  \/ /\ Told("fix_validation") /\ plans[n].status # "done" /\ ~plans[n].sound
     /\ MayEditPlan(n, [plans[n] EXCEPT !.sound = TRUE])
  \/ /\ Told("fix_validation") /\ plans[n].status # "done" /\ ~Sated(profile, plans[n])
     /\ MayEditPlan(n, Recorded(plans[n], Untagged))
  \/ /\ Told("mark_done_after_human_approval")
     /\ MaySetStatus(n, "done")

\* Whatever it is that is suggested, there is a way to do it, and where the
\* answer is open (a text that may be malformed, one of several questions) any
\* answer passes.
Accepted ==
  \/ Told("init")
  \/ Told("create_plan") /\ MayAddPlan
  \/ Told("specify_plan") /\ Undone # {}
  \/ WorkshopAccepts
  \/ NextItem.plan \in Numbers /\ PlanAccepts(NextItem.plan)

\* These are the checks of the commands, and all of them: a command that passes
\* is the replacement of one record.
LEMMA ChecksOfCommands ==
  /\ \A n, plan : EditPlan(n, plan) <=>
       MayEditPlan(n, plan) /\ plans' = [plans EXCEPT ![n] = plan]
       /\ UNCHANGED <<initialized, profile, workshop, active>>
  /\ \A n, s : SetPlanStatus(n, s) <=>
       MaySetStatus(n, s) /\ plans' = [plans EXCEPT ![n].status = s]
       /\ UNCHANGED <<initialized, profile, workshop, active>>
  /\ \A w : workshop # Nil =>
       (EditWorkshop(w) <=> MayEditWorkshop(w) /\ workshop' = w
                            /\ UNCHANGED <<initialized, profile, plans, active>>)
BY DEF EditPlan, MayEditPlan, SetPlanStatus, MaySetStatus, EditWorkshop, MayEditWorkshop

-----------------------------------------------------------------------------
(* What is told, and when *)

\* Each suggestion about the workshop, with what was found of it.
LEMMA WorkshopTold ==
  ASSUME NEW w, WorkshopItem(w) # Nil
  PROVE  LET name == WorkshopItem(w).name
         IN  \/ name = "answer_required_workshop_question" /\ w.open
             \/ /\ name = "ask_workshop_question"
                /\ w.status \notin {"shaped", "planned", "cancelled"}
             \/ name = "add_concrete_example" /\ ~w.examples
             \/ name = "mark_workshop_shaped" /\ Shapely(w) /\ w.status = "exploring"
             \/ /\ name = "create_plan_from_workshop" /\ w.status = "shaped" /\ ~w.linked
BY DEF WorkshopItem, Say, Item, Interviewing, AwaitsPlan

\* Each suggestion about a plan, with what was found of it.
LEMMA PlanTold ==
  ASSUME NEW n
  PROVE  LET name == PlanItem(n).name
             plan == plans[n]
         IN  /\ PlanItem(n).plan = n
             /\ \/ name = "fill_component" /\ plan.gaps > 0
                \/ name = "answer_required_question" /\ plan.open # {}
                \/ name = "ask_plan_question" /\ plan.status \notin {"done", "cancelled"}
                \/ name = "fix_validation" /\ ~(plan.gaps > 0) /\ plan.open = {} /\ Blocked(plan)
                \/ name = "handoff_ready"
                \/ /\ name = "mark_done_after_human_approval"
                   /\ ~Blocked(plan) /\ plan.status # "done"
BY DEF PlanItem, Item, Queueing

LEMMA OnlyOne == ASSUME NEW S, Cardinality(S) = 1 PROVE Only(S) \in S
<1>1. S # {}
  BY FS_EmptySet
<1>. QED
  BY <1>1 DEF Only

\* Of what the suggestion is.
LEMMA Subject ==
  ASSUME TypeOK
  PROVE  \/ NextItem = Say("init")
         \/ NextItem = Say("specify_plan") /\ Undone # {}
         \/ NextItem = Say("create_plan") /\ initialized /\ active = 0
         \/ /\ initialized /\ workshop # Nil
            /\ NextItem = WorkshopItem(workshop) /\ WorkshopItem(workshop) # Nil
         \/ \E n \in Numbers : NextItem = PlanItem(n)
<1>1. Len(plans) \in Nat /\ active \in 0 .. Len(plans) /\ focus \in 0 .. Len(plans)
  BY DEF TypeOK
<1>2. active # 0 => active \in Numbers
  BY <1>1 DEF Numbers
<1>3. focus # 0 => focus \in Numbers
  BY <1>1 DEF Numbers
<1>4. Live \subseteq Numbers /\ Undone \subseteq Numbers
  BY DEF Live, Undone
<1>5. \/ active # 0 /\ UnnamedPlanItem = PlanItem(active)
      \/ UnnamedPlanItem = PlanItem(Only(Live)) /\ Cardinality(Live) = 1
      \/ UnnamedPlanItem = PlanItem(Only(Undone)) /\ Cardinality(Undone) = 1
      \/ UnnamedPlanItem = Say("specify_plan") /\ Cardinality(Undone) > 1
      \/ UnnamedPlanItem = Say("create_plan") /\ active = 0
  BY DEF UnnamedPlanItem
<1>6. Cardinality(Undone) > 1 => Undone # {}
  BY FS_EmptySet
<1>7. \/ \E n \in Numbers : UnnamedPlanItem = PlanItem(n)
      \/ UnnamedPlanItem = Say("specify_plan") /\ Undone # {}
      \/ UnnamedPlanItem = Say("create_plan") /\ active = 0
  BY <1>2, <1>4, <1>5, <1>6, OnlyOne
<1>8. \/ NextItem = Say("init")
      \/ focus # 0 /\ NextItem = PlanItem(focus)
      \/ /\ initialized /\ workshop # Nil
         /\ NextItem = WorkshopItem(workshop) /\ WorkshopItem(workshop) # Nil
      \/ initialized /\ NextItem = UnnamedPlanItem
  BY DEF NextItem
<1>. QED
  BY <1>3, <1>7, <1>8

PlanNames == {"fill_component", "answer_required_question", "ask_plan_question",
              "fix_validation", "mark_done_after_human_approval", "handoff_ready"}

\* A suggestion about a plan names one there is.
LEMMA PlanSubject ==
  ASSUME TypeOK, NextItem.name \in PlanNames
  PROVE  NextItem.plan \in Numbers /\ NextItem = PlanItem(NextItem.plan)
<1>1. ~(\/ NextItem = Say("init") \/ NextItem = Say("specify_plan")
        \/ NextItem = Say("create_plan"))
  BY DEF Say, Item, PlanNames
<1>2. ~(NextItem = WorkshopItem(workshop) /\ WorkshopItem(workshop) # Nil)
  BY WorkshopTold DEF PlanNames
<1>3. PICK n \in Numbers : NextItem = PlanItem(n)
  BY <1>1, <1>2, Subject
<1>. QED
  BY <1>3, PlanTold

\* A suggestion about a workshop is given only where there is one.
LEMMA WorkshopSubject ==
  ASSUME TypeOK, NextItem.name \in WorkshopNames
  PROVE  /\ initialized /\ workshop \in Workshop
         /\ NextItem = WorkshopItem(workshop) /\ WorkshopItem(workshop) # Nil
<1>1. ~(\/ NextItem = Say("init") \/ NextItem = Say("specify_plan")
        \/ NextItem = Say("create_plan"))
  BY DEF Say, Item, WorkshopNames
<1>2. ~\E n \in Numbers : NextItem = PlanItem(n)
  BY PlanTold DEF WorkshopNames
<1>. QED
  BY <1>1, <1>2, Subject DEF TypeOK

-----------------------------------------------------------------------------
(* Records *)

LEMMA PlanTypes ==
  ASSUME NEW plan \in Plan
  PROVE  /\ \A s \in PlanStatuses : [plan EXCEPT !.status = s] \in Plan
         /\ \A b \in BOOLEAN : [plan EXCEPT !.sound = b] \in Plan
         /\ \A tag : Recorded(plan, tag) \in Plan
         /\ \A tag \in plan.open : Answered(plan, tag) \in Plan
<1>1. /\ plan.status \in PlanStatuses /\ plan.request \in SUBSET Phrases
      /\ plan.gaps \in 0 .. Sections /\ plan.sound \in BOOLEAN
      /\ plan.open \in SUBSET (Topics \cup {Untagged}) /\ plan.tags \in SUBSET Topics
      /\ plan.answered \in 0 .. MaxCount
  BY DEF Plan
<1>2. ASSUME NEW s \in PlanStatuses PROVE [plan EXCEPT !.status = s] \in Plan
  BY DEF Plan
<1>3. ASSUME NEW b \in BOOLEAN PROVE [plan EXCEPT !.sound = b] \in Plan
  BY DEF Plan
<1>4. ASSUME NEW tag PROVE Recorded(plan, tag) \in Plan
  <2> DEFINE open == IF tag \in Taggable \cup {Untagged} THEN plan.open \cup {tag} ELSE plan.open
  <2>1. open \in SUBSET (Topics \cup {Untagged})
    BY <1>1, TopicsAssumption
  <2>2. Recorded(plan, tag) = [plan EXCEPT !.open = open]
    BY DEF Recorded
  <2> HIDE DEF open
  <2>. QED
    BY <2>1, <2>2 DEF Plan
<1>5. ASSUME NEW tag \in plan.open PROVE Answered(plan, tag) \in Plan
  <2> DEFINE open == plan.open \ {tag}
             tags == IF tag = Untagged THEN plan.tags ELSE plan.tags \cup {Lowered[tag]}
             answered == IF plan.answered < MaxCount THEN plan.answered + 1 ELSE plan.answered
  <2>1. open \in SUBSET (Topics \cup {Untagged})
    BY <1>1
  <2>2. tags \in SUBSET Topics
    BY <1>1, TopicsAssumption
  <2>3. answered \in 0 .. MaxCount
    BY <1>1, BoundsAssumption
  <2>4. Answered(plan, tag) = [plan EXCEPT !.open = open, !.tags = tags, !.answered = answered]
    BY DEF Answered
  <2> HIDE DEF open, tags, answered
  <2>. QED
    BY <2>1, <2>2, <2>3, <2>4 DEF Plan
<1>. QED
  BY <1>2, <1>3, <1>4, <1>5

LEMMA FreshType ==
  ASSUME NEW request \in SUBSET Phrases, NEW gaps \in 0 .. Sections
  PROVE  Fresh(request, gaps) \in Plan /\ Fresh(request, gaps).status = "new"
<1>1. 0 \in 0 .. MaxCount /\ "new" \in PlanStatuses
  BY BoundsAssumption DEF PlanStatuses
<1>. QED
  BY <1>1 DEF Fresh, Plan

\* A plan of a migrated store is sound, whatever its status.
LEMMA OldType ==
  ASSUME NEW s \in OldStatuses
  PROVE  /\ Old(s) \in Plan
         /\ Old(s).gaps = 0 /\ Old(s).sound /\ Old(s).open = {}
<1>1. 0 \in 0 .. Sections /\ {} \in SUBSET Phrases /\ s \in PlanStatuses
  BY BoundsAssumption
<1>2. Fresh({}, 0) \in Plan
  BY <1>1, FreshType
<1>3. Fresh({}, 0).gaps = 0 /\ Fresh({}, 0).open = {}
  BY DEF Fresh
<1>4. Old(s) = [Fresh({}, 0) EXCEPT !.status = s, !.sound = TRUE]
  BY DEF Old
<1>. QED
  BY <1>1, <1>2, <1>3, <1>4 DEF Plan

-----------------------------------------------------------------------------
(* Every command keeps the invariant *)

\* Some plan is replaced by one that is not done, or is done and sound.
LEMMA PlanReplaced ==
  ASSUME GuidanceInv, NEW n \in Numbers, NEW plan \in Plan,
         plan.status = "done" => plan.gaps = 0 /\ plan.sound /\ plan.open = {},
         plans' = [plans EXCEPT ![n] = plan],
         UNCHANGED <<initialized, profile, workshop, active, focus>>,
         meddling' \in 0 .. MaxMeddling
  PROVE  GuidanceInv'
<1>1. TypeOK /\ plans \in Seq(Plan) /\ n \in 1 .. Len(plans)
  BY DEF GuidanceInv, TypeOK, Numbers
<1>2. /\ plans' \in Seq(Plan) /\ Len(plans') = Len(plans)
      /\ \A k \in 1 .. Len(plans) : plans'[k] = IF k = n THEN plan ELSE plans[k]
  BY <1>1
<1>3. TypeOK'
  BY <1>1, <1>2 DEF TypeOK
<1>4. DoneIsSound'
  BY <1>2 DEF GuidanceInv, DoneIsSound, Numbers
<1>5. ShapedIsShapely' /\ RoomLeft'
  BY <1>2 DEF GuidanceInv, ShapedIsShapely, Shapely, RoomLeft, ToBeLinked
<1>. QED
  BY <1>3, <1>4, <1>5 DEF GuidanceInv

LEMMA EditPlanKeeps ==
  ASSUME GuidanceInv, NEW n \in Numbers, NEW plan \in Plan, EditPlan(n, plan),
         focus' = focus, meddling' \in 0 .. MaxMeddling
  PROVE  GuidanceInv'
BY PlanReplaced DEF EditPlan, Ready

LEMMA PlanOf ==
  ASSUME TypeOK, NEW n \in Numbers PROVE plans[n] \in Plan
BY DEF TypeOK, Numbers

LEMMA SetPlanStatusKeeps ==
  ASSUME GuidanceInv, NEW n \in Numbers, NEW s \in PlanStatuses, SetPlanStatus(n, s),
         focus' = focus, meddling' \in 0 .. MaxMeddling
  PROVE  GuidanceInv'
<1> DEFINE plan == [plans[n] EXCEPT !.status = s]
<1>1. plans[n] \in Plan /\ plan \in Plan
  BY PlanOf, PlanTypes DEF GuidanceInv
<1>2. /\ plan.status = s /\ plan.gaps = plans[n].gaps /\ plan.sound = plans[n].sound
      /\ plan.open = plans[n].open
  BY <1>1 DEF Plan
<1>3. plan.status = "done" => plan.gaps = 0 /\ plan.sound /\ plan.open = {}
  BY <1>2 DEF SetPlanStatus, Ready
<1>4. plans' = [plans EXCEPT ![n] = plan]
  BY DEF SetPlanStatus
<1> HIDE DEF plan
<1>. QED
  BY <1>1, <1>3, <1>4, PlanReplaced DEF SetPlanStatus

\* A plan is added, and activated; the workshop may get its link to it.
LEMMA AddPlanKeeps ==
  ASSUME GuidanceInv, NEW plan \in Plan, plan.status # "done", AddPlan(plan),
         UNCHANGED <<initialized, profile, focus>>,
         workshop' \in Workshop \cup {Nil}, ShapedIsShapely',
         \/ workshop' = workshop /\ (active = 0 \/ Len(plans) + 2 < MaxPlans)
         \/ ToBeLinked /\ ~ToBeLinked',
         meddling' \in 0 .. MaxMeddling
  PROVE  GuidanceInv'
<1>1. TypeOK /\ plans \in Seq(Plan) /\ Len(plans) \in Nat
  BY DEF GuidanceInv, TypeOK
<1>2. /\ plans' = Append(plans, plan) /\ active' = Len(plans) + 1 /\ Len(plans) < MaxPlans
      /\ MaxPlans \in Nat
  BY BoundsAssumption DEF AddPlan
<1>3. /\ plans' \in Seq(Plan) /\ Len(plans') = Len(plans) + 1
      /\ \A k \in 1 .. Len(plans) : plans'[k] = plans[k]
      /\ plans'[Len(plans) + 1] = plan
  BY <1>1, <1>2
<1>4. TypeOK'
  <2>1. Len(plans') <= MaxPlans /\ active' \in 0 .. Len(plans') /\ focus' \in 0 .. Len(plans')
    BY <1>1, <1>2, <1>3 DEF TypeOK
  <2>. QED
    BY <1>1, <1>3, <2>1 DEF TypeOK
<1>5. DoneIsSound'
  <2> SUFFICES ASSUME NEW k \in 1 .. Len(plans) + 1, plans'[k].status = "done"
               PROVE  plans'[k].gaps = 0 /\ plans'[k].sound /\ plans'[k].open = {}
    BY <1>3 DEF DoneIsSound, Numbers
  <2>1. k \in 1 .. Len(plans) /\ plans'[k] = plans[k]
    BY <1>1, <1>3
  <2>. QED
    BY <2>1 DEF GuidanceInv, DoneIsSound, Numbers
<1>6. RoomLeft'
  <2>1. active' # 0
    BY <1>1, <1>2
  <2>2. CASE ToBeLinked /\ ~ToBeLinked'
    BY <2>1, <2>2 DEF RoomLeft
  <2>3. CASE workshop' = workshop
    <3>1. ToBeLinked' => Len(plans) + 2 <= MaxPlans
      BY <1>1, <1>2, <2>3 DEF GuidanceInv, RoomLeft, ToBeLinked
    <3>. QED
      BY <1>1, <1>2, <1>3, <2>1, <3>1 DEF RoomLeft
  <2>. QED
    BY <2>2, <2>3
<1>. QED
  BY <1>4, <1>5, <1>6 DEF GuidanceInv

LEMMA EditWorkshopKeeps ==
  ASSUME GuidanceInv, workshop # Nil, NEW w \in Workshop, w.linked = workshop.linked,
         EditWorkshop(w), focus' = focus, meddling' \in 0 .. MaxMeddling
  PROVE  GuidanceInv'
<1>1. workshop' = w /\ UNCHANGED <<initialized, profile, plans, active>> /\ w # Nil
  BY NilAssumption DEF EditWorkshop
<1>2. TypeOK'
  BY <1>1 DEF GuidanceInv, TypeOK
<1>3. ShapedIsShapely'
  BY <1>1 DEF EditWorkshop, ShapedIsShapely, Shapely
<1>4. DoneIsSound' /\ RoomLeft'
  BY <1>1 DEF GuidanceInv, DoneIsSound, Numbers, RoomLeft, ToBeLinked
<1>. QED
  BY <1>2, <1>3, <1>4 DEF GuidanceInv

LEMMA WorkshopTypes ==
  ASSUME NEW w \in Workshop
  PROVE  /\ \A s \in WorkshopStatuses : /\ [w EXCEPT !.status = s] \in Workshop
                                        /\ [w EXCEPT !.status = s].linked = w.linked
         /\ \A b \in BOOLEAN : /\ [w EXCEPT !.open = b] \in Workshop
                               /\ [w EXCEPT !.open = b].linked = w.linked
         /\ \A a, b \in BOOLEAN :
              /\ [w EXCEPT !.examples = a, !.sound = b] \in Workshop
              /\ [w EXCEPT !.examples = a, !.sound = b].linked = w.linked
         /\ \A a, b, c \in BOOLEAN :
              /\ [w EXCEPT !.examples = a, !.sound = b, !.open = c] \in Workshop
              /\ [w EXCEPT !.examples = a, !.sound = b, !.open = c].linked = w.linked
BY DEF Workshop

LEMMA SetWorkshopStatusKeeps ==
  ASSUME GuidanceInv, workshop # Nil, NEW s \in WorkshopStatuses, SetWorkshopStatus(s),
         focus' = focus, meddling' \in 0 .. MaxMeddling
  PROVE  GuidanceInv'
<1>1. workshop \in Workshop
  BY DEF GuidanceInv, TypeOK
<1>. QED
  BY <1>1, WorkshopTypes, EditWorkshopKeeps DEF SetWorkshopStatus

\* None of the records is touched.
LEMMA RecordsKept ==
  ASSUME GuidanceInv, UNCHANGED <<workshop, plans>>, TypeOK', active' = active
  PROVE  GuidanceInv'
BY DEF GuidanceInv, DoneIsSound, Numbers, ShapedIsShapely, Shapely, RoomLeft, ToBeLinked

LEMMA GuidanceInit == Init => GuidanceInv
<1> SUFFICES ASSUME Init PROVE GuidanceInv
  OBVIOUS
<1>1. /\ profile \in Profile /\ initialized \in BOOLEAN
      /\ workshop = Nil /\ active = 0 /\ focus = 0 /\ meddling = 0
  BY ConfigsAssumption DEF Init
<1>2. /\ plans \in Seq(Plan) /\ Len(plans) \in {0, 2}
      /\ \A n \in 1 .. Len(plans) : plans[n].gaps = 0 /\ plans[n].sound /\ plans[n].open = {}
  <2>1. CASE plans = <<>>
    BY <2>1
  <2>2. CASE plans # <<>>
    <3>1. PICK s1, s2 \in OldStatuses : plans = <<Old(s1), Old(s2)>>
      BY <2>2 DEF Init
    <3>2. Old(s1) \in Plan /\ Old(s2) \in Plan
      BY OldType
    <3>3. plans \in Seq(Plan) /\ Len(plans) = 2 /\ plans[1] = Old(s1) /\ plans[2] = Old(s2)
      BY <3>1, <3>2
    <3>4. \A n \in 1 .. 2 : n = 1 \/ n = 2
      OBVIOUS
    <3>. QED
      BY <3>3, <3>4, OldType
  <2>. QED
    BY <2>1, <2>2
<1>3. TypeOK
  BY <1>1, <1>2, BoundsAssumption DEF TypeOK
<1>. QED
  BY <1>1, <1>2, <1>3, BoundsAssumption
     DEF GuidanceInv, DoneIsSound, Numbers, ShapedIsShapely, RoomLeft

\* The agent does what it was told about the workshop.
LEMMA FollowWorkshop ==
  ASSUME GuidanceInv, focus' = focus, meddling' = meddling,
         \/ AnswerWorkshopQuestion \/ AskWorkshopQuestion \/ AddConcreteExample
         \/ MarkWorkshopShaped \/ PlanTheWorkshop
  PROVE  GuidanceInv'
<1>1. TypeOK /\ meddling' \in 0 .. MaxMeddling
  BY DEF GuidanceInv, TypeOK
<1>2. workshop \in Workshop /\ workshop # Nil
  <2>1. NextItem.name \in WorkshopNames
    BY DEF AnswerWorkshopQuestion, AskWorkshopQuestion, AddConcreteExample, MarkWorkshopShaped,
           PlanTheWorkshop, Told, WorkshopNames
  <2>. QED
    BY <1>1, <2>1, WorkshopSubject, NilAssumption
<1>3. CASE AnswerWorkshopQuestion \/ AskWorkshopQuestion
  BY <1>1, <1>2, <1>3, WorkshopTypes, EditWorkshopKeeps
     DEF AnswerWorkshopQuestion, AskWorkshopQuestion
<1>4. CASE AddConcreteExample
  <2>1. PICK complete \in BOOLEAN :
          EditWorkshop([workshop EXCEPT !.examples = TRUE, !.sound = workshop.sound /\ complete])
    BY <1>4 DEF AddConcreteExample
  <2>2. (workshop.sound /\ complete) \in BOOLEAN
    BY <1>2 DEF Workshop
  <2>. QED
    BY <1>1, <1>2, <2>1, <2>2, WorkshopTypes, EditWorkshopKeeps
<1>5. CASE MarkWorkshopShaped
  BY <1>1, <1>2, <1>5, SetWorkshopStatusKeeps DEF MarkWorkshopShaped, WorkshopStatuses
<1>6. CASE PlanTheWorkshop
  <2>1. PICK request \in SUBSET Phrases : AddPlan(Fresh(request, 1))
    BY <1>6 DEF PlanTheWorkshop, CreatePlanFromWorkshop
  <2>2. /\ workshop' = [workshop EXCEPT !.linked = TRUE, !.status = "planned"]
        /\ UNCHANGED <<initialized, profile>>
    BY <1>6 DEF PlanTheWorkshop, CreatePlanFromWorkshop
  <2>3. /\ workshop' \in Workshop /\ workshop'.linked = TRUE /\ workshop'.status = "planned"
        /\ workshop' # Nil
    BY <1>2, <2>2, NilAssumption DEF Workshop, WorkshopStatuses
  <2>4. ~workshop.linked
    <3>1. NextItem.name = "create_plan_from_workshop"
      BY <1>6 DEF PlanTheWorkshop, Told
    <3>2. NextItem = WorkshopItem(workshop) /\ WorkshopItem(workshop) # Nil
      BY <1>1, <3>1, WorkshopSubject DEF WorkshopNames
    <3>. QED
      BY <3>1, <3>2, WorkshopTold
  <2>5. ToBeLinked /\ ~ToBeLinked' /\ ShapedIsShapely'
    BY <2>3, <2>4 DEF ToBeLinked, ShapedIsShapely
  <2>6. Fresh(request, 1) \in Plan /\ Fresh(request, 1).status # "done"
    BY FreshType, BoundsAssumption
  <2>. QED
    BY <1>1, <2>1, <2>2, <2>3, <2>5, <2>6, AddPlanKeeps
<1>. QED
  BY <1>3, <1>4, <1>5, <1>6

\* The agent does what it was told about a plan.
LEMMA FollowPlan ==
  ASSUME GuidanceInv, focus' = focus, meddling' = meddling,
         \/ FillComponent \/ AnswerRequiredQuestion \/ AskPlanQuestion
         \/ FixValidation \/ MarkDone
  PROVE  GuidanceInv'
<1> DEFINE n == NextItem.plan
<1>1. TypeOK /\ meddling' \in 0 .. MaxMeddling
  BY DEF GuidanceInv, TypeOK
<1>2. n \in Numbers /\ NextItem = PlanItem(n)
  <2>1. NextItem.name \in PlanNames
    BY DEF FillComponent, AnswerRequiredQuestion, AskPlanQuestion, FixValidation, MarkDone, Told,
           PlanNames
  <2>. QED
    BY <1>1, <2>1, PlanSubject
<1>3. plans[n] \in Plan
  BY <1>1, <1>2, PlanOf
<1>4. CASE FillComponent
  <2>1. PICK sound \in BOOLEAN :
          EditPlan(n, [plans[n] EXCEPT !.gaps = plans[n].gaps - 1, !.sound = sound])
    BY <1>4 DEF FillComponent
  <2>2. plans[n].gaps > 0
    BY <1>2, <1>4, PlanTold DEF FillComponent, Told
  <2>3. plans[n].gaps - 1 \in 0 .. Sections
    BY <1>3, <2>2, BoundsAssumption DEF Plan
  <2>4. [plans[n] EXCEPT !.gaps = plans[n].gaps - 1, !.sound = sound] \in Plan
    BY <1>3, <2>3 DEF Plan
  <2>. QED
    BY <1>1, <1>2, <2>1, <2>4, EditPlanKeeps
<1>5. CASE AnswerRequiredQuestion
  <2>1. PICK tag \in plans[n].open : EditPlan(n, Answered(plans[n], tag))
    BY <1>5 DEF AnswerRequiredQuestion
  <2>2. Answered(plans[n], tag) \in Plan
    BY <1>3, PlanTypes
  <2>. QED
    BY <1>1, <1>2, <2>1, <2>2, EditPlanKeeps
<1>6. CASE AskPlanQuestion
  <2>1. EditPlan(n, Recorded(plans[n], NextItem.topic)) /\ Recorded(plans[n], NextItem.topic) \in Plan
    BY <1>3, <1>6, PlanTypes DEF AskPlanQuestion
  <2>. QED
    BY <1>1, <1>2, <2>1, EditPlanKeeps
<1>7. CASE FixValidation
  <2>1. CASE SetPlanStatus(n, "rework")
    BY <1>1, <1>2, <2>1, SetPlanStatusKeeps DEF PlanStatuses
  <2>2. CASE EditPlan(n, [plans[n] EXCEPT !.sound = TRUE])
    <3>1. [plans[n] EXCEPT !.sound = TRUE] \in Plan
      BY <1>3, PlanTypes
    <3>. QED
      BY <1>1, <1>2, <2>2, <3>1, EditPlanKeeps
  <2>3. CASE EditPlan(n, Recorded(plans[n], Untagged))
    <3>1. Recorded(plans[n], Untagged) \in Plan
      BY <1>3, PlanTypes
    <3>. QED
      BY <1>1, <1>2, <2>3, <3>1, EditPlanKeeps
  <2>. QED
    BY <1>7, <2>1, <2>2, <2>3 DEF FixValidation
<1>8. CASE MarkDone
  BY <1>1, <1>2, <1>8, SetPlanStatusKeeps DEF MarkDone, PlanStatuses
<1>. QED
  BY <1>4, <1>5, <1>6, <1>7, <1>8

LEMMA CreatePlanKeeps ==
  ASSUME GuidanceInv, NEW request \in SUBSET Phrases, CreatePlan(request), focus' = focus,
         active = 0 \/ Len(plans) + 2 < MaxPlans, meddling' \in 0 .. MaxMeddling
  PROVE  GuidanceInv'
<1>1. AddPlan(Fresh(request, Sections)) /\ UNCHANGED <<initialized, profile, workshop>>
  BY DEF CreatePlan
<1>2. Fresh(request, Sections) \in Plan /\ Fresh(request, Sections).status # "done"
  BY FreshType, BoundsAssumption
<1>3. workshop' \in Workshop \cup {Nil} /\ ShapedIsShapely'
  BY <1>1 DEF GuidanceInv, TypeOK, ShapedIsShapely, Shapely
<1>. QED
  BY <1>1, <1>2, <1>3, AddPlanKeeps

LEMMA FollowKeeps == GuidanceInv /\ Follow => GuidanceInv'
<1> SUFFICES ASSUME GuidanceInv, Follow PROVE GuidanceInv'
  OBVIOUS
<1>1. TypeOK /\ meddling' = meddling /\ meddling' \in 0 .. MaxMeddling
  BY DEF GuidanceInv, TypeOK, Follow
<1>2. CASE SpecifyPlan
  <2>1. focus' \in 0 .. Len(plans) /\ UNCHANGED store
    BY <1>1, <1>2 DEF SpecifyPlan, Undone, Live, Numbers, TypeOK
  <2>2. TypeOK' /\ active' = active /\ UNCHANGED <<workshop, plans>>
    BY <1>1, <2>1 DEF TypeOK, store
  <2>. QED
    BY <2>2, RecordsKept
<1>3. CASE InitProject /\ focus' = focus
  <2>1. TypeOK' /\ active' = active /\ UNCHANGED <<workshop, plans>>
    BY <1>1, <1>3 DEF InitProject, TypeOK
  <2>. QED
    BY <2>1, RecordsKept
<1>4. CASE CreateFirstPlan /\ focus' = focus
  <2>1. PICK request \in SUBSET Phrases : CreatePlan(request)
    BY <1>4 DEF CreateFirstPlan
  <2>2. active = 0
    <3>1. NextItem.name = "create_plan"
      BY <1>4 DEF CreateFirstPlan, Told
    <3>2. NextItem.name \notin WorkshopNames /\ NextItem.name \notin PlanNames
      BY <3>1 DEF WorkshopNames, PlanNames
    <3>3. ~(NextItem = WorkshopItem(workshop) /\ WorkshopItem(workshop) # Nil)
      BY <3>1, WorkshopTold
    <3>4. ~\E n \in Numbers : NextItem = PlanItem(n)
      BY <3>1, PlanTold
    <3>. QED
      BY <1>1, <3>1, <3>3, <3>4, Subject DEF Say, Item
  <2>. QED
    BY <1>1, <1>4, <2>1, <2>2, CreatePlanKeeps
<1>. QED
  BY <1>1, <1>2, <1>3, <1>4, FollowWorkshop, FollowPlan DEF Follow

LEMMA MeddleKeeps == GuidanceInv /\ Meddle => GuidanceInv'
<1> SUFFICES ASSUME GuidanceInv, Meddle PROVE GuidanceInv'
  OBVIOUS
<1>1. TypeOK /\ meddling' \in 0 .. MaxMeddling
  BY BoundsAssumption DEF GuidanceInv, TypeOK, Meddle
<1>2. CASE NameAPlan
  <2>1. focus' \in 0 .. Len(plans) /\ UNCHANGED store
    BY <1>1, <1>2 DEF NameAPlan, Numbers, TypeOK
  <2>2. TypeOK' /\ active' = active /\ UNCHANGED <<workshop, plans>>
    BY <1>1, <2>1 DEF TypeOK, store
  <2>. QED
    BY <2>2, RecordsKept
<1>3. ASSUME NEW status \in {"new", "exploring"}, CreateWorkshop(status), focus' = focus
      PROVE  GuidanceInv'
  <2>1. /\ workshop = Nil /\ UNCHANGED <<initialized, profile, plans, active>>
        /\ workshop' \in Workshop /\ workshop'.status # "shaped" /\ ~workshop'.linked
    BY <1>3 DEF CreateWorkshop, Workshop, WorkshopStatuses
  <2>2. TypeOK'
    BY <1>1, <1>3, <2>1 DEF TypeOK
  <2>3. DoneIsSound' /\ ShapedIsShapely' /\ RoomLeft'
    BY <2>1 DEF GuidanceInv, DoneIsSound, Numbers, ShapedIsShapely, RoomLeft, ToBeLinked
  <2>. QED
    BY <2>2, <2>3 DEF GuidanceInv
<1>4. CASE ReviseWorkshop /\ focus' = focus
  <2>1. PICK examples, sound, open \in BOOLEAN :
          EditWorkshop([workshop EXCEPT !.examples = examples, !.sound = sound, !.open = open])
    BY <1>4 DEF ReviseWorkshop
  <2>2. workshop \in Workshop /\ workshop # Nil
    BY <1>1, <1>4 DEF TypeOK, ReviseWorkshop
  <2>3. LET w == [workshop EXCEPT !.examples = examples, !.sound = sound, !.open = open]
        IN  w \in Workshop /\ w.linked = workshop.linked
    BY <2>2, WorkshopTypes
  <2>. QED
    BY <1>1, <1>4, <2>1, <2>2, <2>3, EditWorkshopKeeps
<1>5. CASE ChangeWorkshopStatus /\ focus' = focus
  BY <1>1, <1>5, SetWorkshopStatusKeeps DEF ChangeWorkshopStatus
<1>6. CASE CreateAnotherPlan /\ focus' = focus
  BY <1>1, <1>6, CreatePlanKeeps DEF CreateAnotherPlan
<1>7. ASSUME NEW n \in Numbers, ActivatePlan(n), focus' = focus PROVE GuidanceInv'
  <2>1. TypeOK' /\ active' # 0 /\ UNCHANGED <<workshop, plans>>
    BY <1>1, <1>7 DEF TypeOK, ActivatePlan, Numbers
  <2>. QED
    BY <2>1 DEF GuidanceInv, DoneIsSound, Numbers, ShapedIsShapely, Shapely, RoomLeft, ToBeLinked
<1>8. ASSUME NEW n \in Numbers, ChangePlanStatus(n), focus' = focus PROVE GuidanceInv'
  BY <1>1, <1>8, SetPlanStatusKeeps DEF ChangePlanStatus
<1>9. ASSUME NEW n \in Numbers, RevisePlan(n), focus' = focus PROVE GuidanceInv'
  <2>0. plans[n] \in Plan
    BY <1>1, PlanOf
  <2>1. CASE plans[n].gaps < Sections /\ EditPlan(n, [plans[n] EXCEPT !.gaps = plans[n].gaps + 1])
    <3>1. plans[n].gaps + 1 \in 0 .. Sections
      BY <2>0, <2>1, BoundsAssumption DEF Plan
    <3>2. [plans[n] EXCEPT !.gaps = plans[n].gaps + 1] \in Plan
      BY <2>0, <3>1 DEF Plan
    <3>. QED
      BY <1>1, <1>9, <2>1, <3>2, EditPlanKeeps
  <2>2. CASE EditPlan(n, [plans[n] EXCEPT !.sound = FALSE])
    <3>1. [plans[n] EXCEPT !.sound = FALSE] \in Plan
      BY <2>0, PlanTypes
    <3>. QED
      BY <1>1, <1>9, <2>2, <3>1, EditPlanKeeps
  <2>3. ASSUME NEW tag, EditPlan(n, Recorded(plans[n], tag)) PROVE GuidanceInv'
    <3>1. Recorded(plans[n], tag) \in Plan
      BY <2>0, PlanTypes
    <3>. QED
      BY <1>1, <1>9, <2>3, <3>1, EditPlanKeeps
  <2>. QED
    BY <1>9, <2>1, <2>2, <2>3 DEF RevisePlan
<1>10. CASE ChangeProfile /\ focus' = focus
  <2>1. TypeOK' /\ active' = active /\ UNCHANGED <<workshop, plans>>
    BY <1>1, <1>10, ConfigsAssumption DEF ChangeProfile, TypeOK
  <2>. QED
    BY <2>1, RecordsKept
<1>. QED
  BY <1>2, <1>3, <1>4, <1>5, <1>6, <1>7, <1>8, <1>9, <1>10 DEF Meddle

LEMMA GuidanceInductive == Spec => []GuidanceInv
<1>1. GuidanceInv /\ [Next]_vars => GuidanceInv'
  <2> SUFFICES ASSUME GuidanceInv, [Next]_vars PROVE GuidanceInv'
    OBVIOUS
  <2>1. CASE Next
    BY <2>1, FollowKeeps, MeddleKeeps DEF Next
  <2>2. CASE UNCHANGED vars
    BY <2>2 DEF vars, GuidanceInv, TypeOK, DoneIsSound, Numbers, ShapedIsShapely, Shapely,
       RoomLeft, ToBeLinked
  <2>. QED
    BY <2>1, <2>2
<1>. QED
  BY <1>1, GuidanceInit, PTL DEF Spec

\* What the guidance reads and the commands write keeps its type: no record has
\* a gap less than none, and no pointer leads to a plan there is not.
THEOREM GuidanceTyped == Spec => []TypeOK
<1>1. GuidanceInv => TypeOK
  BY DEF GuidanceInv
<1>. QED
  BY <1>1, GuidanceInductive, PTL

-----------------------------------------------------------------------------
(* What is told is accepted *)

LEMMA WorkshopAgrees ==
  ASSUME GuidanceInv, NextItem.name \in WorkshopNames, ~DeadEnd
  PROVE  WorkshopAccepts
<1>1. /\ TypeOK /\ initialized /\ workshop \in Workshop /\ workshop # Nil
      /\ NextItem = WorkshopItem(workshop) /\ WorkshopItem(workshop) # Nil
  BY WorkshopSubject, NilAssumption DEF GuidanceInv
<1>2. workshop.status # "cancelled"
  BY <1>1 DEF DeadEnd
<1>3. workshop.status = "shaped" => Shapely(workshop)
  BY <1>1 DEF GuidanceInv, ShapedIsShapely
<1>4. CASE Told("answer_required_workshop_question")
  <2>1. workshop.open
    BY <1>1, <1>4, WorkshopTold DEF Told
  <2>2. workshop.status # "shaped"
    BY <1>3, <2>1 DEF Shapely
  <2>3. [workshop EXCEPT !.open = FALSE].status = workshop.status
    BY <1>1 DEF Workshop
  <2>. QED
    BY <1>1, <1>2, <1>4, <2>2, <2>3 DEF MayEditWorkshop, WorkshopAccepts
<1>5. CASE Told("ask_workshop_question")
  <2>1. workshop.status # "shaped"
    BY <1>1, <1>5, WorkshopTold DEF Told
  <2>2. [workshop EXCEPT !.open = TRUE].status = workshop.status
    BY <1>1 DEF Workshop
  <2>. QED
    BY <1>1, <1>2, <1>5, <2>1, <2>2 DEF MayEditWorkshop, WorkshopAccepts
<1>6. CASE Told("add_concrete_example")
  <2>1. ~workshop.examples
    BY <1>1, <1>6, WorkshopTold DEF Told
  <2>2. workshop.status # "shaped"
    BY <1>3, <2>1 DEF Shapely
  <2>3. ASSUME NEW complete \in BOOLEAN
        PROVE  MayEditWorkshop([workshop EXCEPT !.examples = TRUE,
                                                !.sound = workshop.sound /\ complete])
    BY <1>1, <1>2, <2>2 DEF MayEditWorkshop, Workshop
  <2>. QED
    BY <1>6, <2>3 DEF WorkshopAccepts
<1>7. CASE Told("mark_workshop_shaped")
  <2>1. Shapely(workshop) /\ workshop.status = "exploring"
    BY <1>1, <1>7, WorkshopTold DEF Told
  <2>2. "shaped" \in WorkshopTransitions[workshop.status]
    BY <2>1 DEF WorkshopTransitions
  <2>3. Shapely([workshop EXCEPT !.status = "shaped"])
    BY <1>1, <2>1 DEF Workshop, Shapely
  <2>. QED
    BY <1>1, <1>2, <1>7, <2>2, <2>3 DEF MayEditWorkshop, WorkshopAccepts
<1>8. CASE Told("create_plan_from_workshop")
  <2>1. workshop.status = "shaped" /\ ~workshop.linked
    BY <1>1, <1>8, WorkshopTold DEF Told
  <2>2. MayAddPlan
    BY <1>1, <2>1 DEF GuidanceInv, RoomLeft, ToBeLinked, MayAddPlan
  <2>. QED
    BY <1>1, <1>3, <1>8, <2>1, <2>2 DEF WorkshopAccepts
<1>. QED
  BY <1>4, <1>5, <1>6, <1>7, <1>8 DEF Told, WorkshopNames

LEMMA PlanAgrees ==
  ASSUME GuidanceInv, NextItem.name \in PlanNames, ~Told("handoff_ready"), ~DeadEnd
  PROVE  NextItem.plan \in Numbers /\ PlanAccepts(NextItem.plan)
<1> DEFINE n == NextItem.plan
<1>1. TypeOK /\ n \in Numbers /\ NextItem = PlanItem(n)
  BY PlanSubject DEF GuidanceInv
<1>2. plans[n] \in Plan
  BY <1>1, PlanOf
<1>3. plans[n].status # "cancelled"
  BY <1>1 DEF DeadEnd, Numbers, TypeOK
<1>4. plans[n].status = "done" => plans[n].gaps = 0 /\ plans[n].sound /\ plans[n].open = {}
  BY <1>1 DEF GuidanceInv, DoneIsSound
\* An edit passes that leaves the status alone, of a plan that is not done.
<1>5. ASSUME NEW plan, plan.status = plans[n].status, plans[n].status # "done"
      PROVE  MayEditPlan(n, plan)
  BY <1>3, <1>5 DEF MayEditPlan
<1>6. /\ \A tag : Recorded(plans[n], tag).status = plans[n].status
      /\ \A tag : Answered(plans[n], tag).status = plans[n].status
  BY <1>2 DEF Recorded, Answered, Plan
<1> HIDE DEF n
<1>7. CASE Told("fill_component")
  <2>1. plans[n].gaps > 0
    BY <1>1, <1>7, PlanTold DEF Told
  <2>2. plans[n].status # "done"
    BY <1>4, <2>1
  <2>3. ASSUME NEW sound \in BOOLEAN
        PROVE  MayEditPlan(n, [plans[n] EXCEPT !.gaps = plans[n].gaps - 1, !.sound = sound])
    <3>1. [plans[n] EXCEPT !.gaps = plans[n].gaps - 1, !.sound = sound].status = plans[n].status
      BY <1>2 DEF Plan
    <3>. QED
      BY <1>5, <2>2, <3>1
  <2>. QED
    BY <1>1, <1>7, <2>3 DEF PlanAccepts, n
<1>8. CASE Told("answer_required_question")
  <2>1. plans[n].open # {}
    BY <1>1, <1>8, PlanTold DEF Told
  <2>2. \A tag \in plans[n].open : MayEditPlan(n, Answered(plans[n], tag))
    BY <1>4, <1>5, <1>6, <2>1
  <2>. QED
    BY <1>1, <1>8, <2>1, <2>2 DEF PlanAccepts, n
<1>9. CASE Told("ask_plan_question")
  <2>1. plans[n].status # "done"
    BY <1>1, <1>9, PlanTold DEF Told
  <2>2. MayEditPlan(n, Recorded(plans[n], NextItem.topic))
    BY <1>5, <1>6, <2>1
  <2>. QED
    BY <1>1, <1>9, <2>2 DEF PlanAccepts, n
<1>10. CASE Told("fix_validation")
  <2>1. ~(plans[n].gaps > 0) /\ plans[n].open = {} /\ Blocked(plans[n])
    BY <1>1, <1>10, PlanTold DEF Told
  <2>2. plans[n].gaps = 0
    BY <1>2, <2>1, BoundsAssumption DEF Plan
  <2>3. ~plans[n].sound \/ ~Sated(profile, plans[n])
    BY <2>1, <2>2 DEF Blocked, Ready
  <2>4. CASE plans[n].status = "done"
    <3>1. MaySetStatus(n, "rework")
      BY <2>4 DEF MaySetStatus, PlanTransitions
    <3>. QED
      BY <1>1, <1>10, <2>4, <3>1 DEF PlanAccepts, n
  <2>5. CASE plans[n].status # "done"
    <3>1. MayEditPlan(n, Recorded(plans[n], Untagged))
      BY <1>5, <1>6, <2>5
    <3>2. [plans[n] EXCEPT !.sound = TRUE].status = plans[n].status
      BY <1>2 DEF Plan
    <3>3. MayEditPlan(n, [plans[n] EXCEPT !.sound = TRUE])
      BY <1>5, <2>5, <3>2
    <3>. QED
      BY <1>1, <1>10, <2>3, <2>5, <3>1, <3>3 DEF PlanAccepts, n
  <2>. QED
    BY <2>4, <2>5
<1>11. CASE Told("mark_done_after_human_approval")
  <2>1. Ready(profile, plans[n]) /\ plans[n].status # "done"
    BY <1>1, <1>11, PlanTold DEF Told, Blocked
  <2>2. plans[n].status \in {"new", "in_progress", "rework"}
    BY <1>2, <1>3, <2>1 DEF Plan, PlanStatuses
  <2>3. MaySetStatus(n, "done")
    BY <1>3, <2>1, <2>2 DEF MaySetStatus, PlanTransitions
  <2>. QED
    BY <1>1, <1>11, <2>3 DEF PlanAccepts, n
<1>. QED
  BY <1>1, <1>7, <1>8, <1>9, <1>10, <1>11 DEF Told, PlanNames, n

\* Whatever users did on their own, and however the profile was changed under the
\* plans: what next-action suggests passes every check of the command that does
\* it, but for a record that is cancelled.  The guidance asks no one to do what
\* apply_plan_mutations, apply_workshop_mutations, create_plan and
\* create_plan_from_workshop would refuse.
THEOREM GuidanceAgreesWithGates ==
  Spec => [](Told("handoff_ready") \/ DeadEnd \/ Accepted)
<1>1. GuidanceInv => Told("handoff_ready") \/ DeadEnd \/ Accepted
  <2> SUFFICES ASSUME GuidanceInv, ~Told("handoff_ready"), ~DeadEnd PROVE Accepted
    OBVIOUS
  <2>1. CASE NextItem.name \in PlanNames
    BY <2>1, PlanAgrees DEF Accepted
  <2>2. CASE NextItem.name \in WorkshopNames
    BY <2>2, WorkshopAgrees DEF Accepted
  <2>3. CASE NextItem.name \notin PlanNames \cup WorkshopNames
    <3>1. ~\E n \in Numbers : NextItem = PlanItem(n)
      BY <2>3, PlanTold DEF PlanNames
    <3>2. ~(NextItem = WorkshopItem(workshop) /\ WorkshopItem(workshop) # Nil)
      BY <2>3, WorkshopTold DEF WorkshopNames
    <3>3. \/ NextItem = Say("init")
          \/ NextItem = Say("specify_plan") /\ Undone # {}
          \/ NextItem = Say("create_plan") /\ initialized /\ active = 0
      BY <3>1, <3>2, Subject DEF GuidanceInv
    <3>4. active = 0 => Len(plans) < MaxPlans
      BY DEF GuidanceInv, RoomLeft
    <3>. QED
      BY <3>3, <3>4 DEF Accepted, Told, Say, Item, MayAddPlan
  <2>. QED
    BY <2>1, <2>2, <2>3
<1>. QED
  BY <1>1, GuidanceInductive, PTL

-----------------------------------------------------------------------------
(* Following the guidance comes to an end.  What is left to do is measured by *)
(* a stage, which counts the projects to set up, the steps of the workshop and *)
(* the plans still to be chosen or made, and by the work on the plan in hand:  *)
(* texts to write, questions to ask and answer, the approval.                  *)

Toll(b) == IF b THEN 1 ELSE 0

WorkshopStage(w) ==
  IF w = Nil THEN 0
  ELSE Toll(w.open) + Toll(~w.examples)
       + (IF w.status = "exploring" THEN 2 ELSE Toll(w.status = "shaped" /\ ~w.linked))

PlanStage(named, current, live, undone) ==
  IF named # 0 \/ current # 0 THEN 0
  ELSE 1 + Toll(Cardinality(live) # 1 /\ Cardinality(undone) = 1)

Stage ==
  Toll(~initialized) + WorkshopStage(workshop) + PlanStage(focus, active, Live, Undone)

\* The plan the guidance speaks of once the workshop has no say.
InHand(named, current, live, undone) ==
  IF named # 0 THEN named
  ELSE IF current # 0 THEN current
  ELSE IF Cardinality(live) = 1 THEN Only(live)
  ELSE IF Cardinality(undone) = 1 THEN Only(undone)
  ELSE 0

Current == InHand(focus, active, Live, Undone)

\* A text that is filled in may have to be corrected.
Writing(plan) == 2 * plan.gaps + Toll(~plan.sound)

\* The topics without a question, and the plain questions that may be wanted: each
\* is asked, and then it is open.
TopicsLeft(topics, plan) == {i \in DOMAIN topics : topics[i] \notin plan.tags \cup plan.open}

QuestionsLeft(plan) ==
  MaxCount - plan.answered - Toll(Untagged \in plan.open /\ plan.answered < MaxCount)

Asking(topics, plan) ==
  2 * Cardinality(TopicsLeft(topics, plan)) + Cardinality(plan.open) + 2 * QuestionsLeft(plan)

\* A done plan that wants more answers is reopened and approved again.
Approving(p, plan) == IF plan.status # "done" THEN 1 ELSE 2 * Toll(~Ready(p, plan))

Work(p, plan) == Writing(plan) + Asking(p.topics, plan) + Approving(p, plan)

WorkLeft == IF Current = 0 THEN 0 ELSE Work(profile, plans[Current])

Below == {pair \in Nat \X Nat : pair[1] < pair[2]}

\* A stage less, or less work in the same stage.
Nearness == LexPairOrdering(Below, Below, Nat, Nat)

Nearer == << <<Stage, WorkLeft>>', <<Stage, WorkLeft>> >> \in Nearness

LEMMA BelowWellFounded == IsWellFoundedOn(Below, Nat)
BY NatLessThanWellFounded DEF OpToRel, Below

\* Nobody comes nearer for ever: it is a well-founded order.
THEOREM NearnessWellFounded == IsWellFoundedOn(Nearness, Nat \X Nat)
BY BelowWellFounded, WFLexPairOrdering DEF Nearness

LEMMA LeastNumber ==
  ASSUME NEW S \in SUBSET Nat, S # {}
  PROVE  Min(S) \in S
<1>1. PICK m \in S : \A n \in S : <<n, m>> \notin Below
  BY BelowWellFounded, WFMin
<1>2. ASSUME NEW n \in S PROVE m <= n
  <2>1. n \in Nat /\ m \in Nat
    OBVIOUS
  <2>2. n < m => <<n, m>> \in Below
    BY <2>1 DEF Below
  <2>. QED
    BY <1>1, <2>1, <2>2
<1>. QED
  BY <1>2 DEF Min

\* The lexicographic order, by its two cases.
LEMMA NearerBy ==
  ASSUME Stage \in Nat, Stage' \in Nat, WorkLeft \in Nat, WorkLeft' \in Nat,
         Stage' < Stage \/ (Stage' = Stage /\ WorkLeft' < WorkLeft)
  PROVE  Nearer
<1> DEFINE new == <<Stage', WorkLeft'>>
           old == <<Stage, WorkLeft>>
<1>1. /\ new \in Nat \X Nat /\ old \in Nat \X Nat
      /\ new[1] = Stage' /\ new[2] = WorkLeft' /\ old[1] = Stage /\ old[2] = WorkLeft
  OBVIOUS
<1>2. \A m, n \in Nat : m < n => <<m, n>> \in Below
  BY DEF Below
<1>3. <<new[1], old[1]>> \in Below \/ (new[1] = old[1] /\ <<new[2], old[2]>> \in Below)
  BY <1>1, <1>2
<1>4. << new, old >> \in Nearness
  BY <1>1, <1>3 DEF Nearness, LexPairOrdering
<1>. QED
  BY <1>4 DEF Nearer

\* What the measure needs of the state: counts do not go beyond the bound, there
\* are finitely many questions, and the workshop is in a project.
CountsInBounds == profile.max <= MaxCount /\ profile.min <= MaxCount

FewQuestions == \A n \in Numbers : IsFiniteSet(plans[n].open)

WorkshopInProject == workshop # Nil => initialized

MeasureInv == GuidanceInv /\ CountsInBounds /\ FewQuestions /\ WorkshopInProject

LEMMA WorkTypes ==
  ASSUME NEW p \in Profile, NEW plan \in Plan, IsFiniteSet(plan.open)
  PROVE  /\ Writing(plan) \in Nat
         /\ IsFiniteSet(TopicsLeft(p.topics, plan))
         /\ Cardinality(TopicsLeft(p.topics, plan)) \in Nat
         /\ Cardinality(plan.open) \in Nat /\ QuestionsLeft(plan) \in Nat
         /\ Asking(p.topics, plan) \in Nat
         /\ Approving(p, plan) \in Nat
         /\ Work(p, plan) \in Nat
<1>1. /\ p.topics \in Seq(Topics) /\ plan.gaps \in 0 .. Sections /\ plan.sound \in BOOLEAN
      /\ plan.answered \in 0 .. MaxCount /\ MaxCount \in Nat /\ Sections \in Nat
  BY BoundsAssumption DEF Profile, Plan
<1>2. Writing(plan) \in Nat
  BY <1>1 DEF Writing, Toll
<1>3. IsFiniteSet(TopicsLeft(p.topics, plan))
  <2>1. Len(p.topics) \in Int /\ DOMAIN p.topics = 1 .. Len(p.topics)
    BY <1>1
  <2>2. IsFiniteSet(1 .. Len(p.topics))
    BY <2>1, FS_Interval
  <2>. QED
    BY <2>1, <2>2, FS_Subset DEF TopicsLeft
<1>4. Cardinality(TopicsLeft(p.topics, plan)) \in Nat /\ Cardinality(plan.open) \in Nat
  BY <1>3, FS_CardinalityType
<1>5. QuestionsLeft(plan) \in Nat
  BY <1>1 DEF QuestionsLeft, Toll
<1>6. Approving(p, plan) \in Nat
  BY DEF Approving, Toll
<1>7. Asking(p.topics, plan) \in Nat
  BY <1>4, <1>5 DEF Asking
<1>. QED
  BY <1>2, <1>3, <1>4, <1>5, <1>6, <1>7 DEF Work

LEMMA MeasureTypes ==
  ASSUME MeasureInv PROVE Stage \in Nat /\ WorkLeft \in Nat
<1>1. TypeOK
  BY DEF MeasureInv, GuidanceInv
<1>2. Stage \in Nat
  BY DEF Stage, Toll, WorkshopStage, PlanStage
<1>3. Current # 0 => Current \in Numbers
  <2>1. Live \subseteq Numbers /\ Undone \subseteq Numbers
    BY DEF Live, Undone
  <2>2. (focus # 0 => focus \in Numbers) /\ (active # 0 => active \in Numbers)
    BY <1>1 DEF TypeOK, Numbers
  <2>. QED
    BY <2>1, <2>2, OnlyOne DEF Current, InHand
<1>4. ASSUME NEW n \in Numbers PROVE Work(profile, plans[n]) \in Nat
  <2>1. plans[n] \in Plan /\ profile \in Profile /\ IsFiniteSet(plans[n].open)
    BY <1>1, PlanOf DEF MeasureInv, FewQuestions, TypeOK
  <2>. QED
    BY <2>1, WorkTypes
<1>. QED
  BY <1>2, <1>3, <1>4 DEF WorkLeft

LEMMA FiniteOpen ==
  ASSUME NEW plan \in Plan, IsFiniteSet(plan.open)
  PROVE  /\ \A tag : IsFiniteSet(Recorded(plan, tag).open)
         /\ \A tag : IsFiniteSet(Answered(plan, tag).open)
         /\ \A s : [plan EXCEPT !.status = s].open = plan.open
         /\ \A b : [plan EXCEPT !.sound = b].open = plan.open
         /\ \A g, b : [plan EXCEPT !.gaps = g, !.sound = b].open = plan.open
         /\ \A g : [plan EXCEPT !.gaps = g].open = plan.open
<1>1. ASSUME NEW tag PROVE IsFiniteSet(Recorded(plan, tag).open)
  <2>1. Recorded(plan, tag).open \in {plan.open, plan.open \cup {tag}}
    BY DEF Recorded, Plan
  <2>. QED
    BY <2>1, FS_AddElement
<1>2. ASSUME NEW tag PROVE IsFiniteSet(Answered(plan, tag).open)
  <2>1. Answered(plan, tag).open = plan.open \ {tag}
    BY DEF Answered, Plan
  <2>. QED
    BY <2>1, FS_Subset
<1>. QED
  BY <1>1, <1>2 DEF Plan

\* What a step may do to the plans.
LEMMA QuestionsReplaced ==
  ASSUME TypeOK, FewQuestions, NEW n \in Numbers, NEW plan, IsFiniteSet(plan.open),
         plans' = [plans EXCEPT ![n] = plan]
  PROVE  FewQuestions'
<1>1. plans \in Seq(Plan) /\ n \in 1 .. Len(plans)
  BY DEF TypeOK, Numbers
<1>2. /\ Len(plans') = Len(plans)
      /\ \A k \in 1 .. Len(plans) : plans'[k] = IF k = n THEN plan ELSE plans[k]
  BY <1>1
<1>. QED
  BY <1>2 DEF FewQuestions, Numbers

LEMMA QuestionsAdded ==
  ASSUME TypeOK, FewQuestions, NEW request, NEW gaps, AddPlan(Fresh(request, gaps))
  PROVE  FewQuestions'
<1>1. plans \in Seq(Plan) /\ plans' = Append(plans, Fresh(request, gaps))
  BY DEF TypeOK, AddPlan
<1>2. /\ Len(plans') = Len(plans) + 1 /\ plans'[Len(plans) + 1] = Fresh(request, gaps)
      /\ \A k \in 1 .. Len(plans) : plans'[k] = plans[k]
  BY <1>1
<1>3. IsFiniteSet(Fresh(request, gaps).open)
  BY FS_EmptySet DEF Fresh
<1>. QED
  BY <1>1, <1>2, <1>3 DEF FewQuestions, Numbers

LEMMA FollowQuestions == GuidanceInv /\ FewQuestions /\ Follow => FewQuestions'
<1> SUFFICES ASSUME GuidanceInv, FewQuestions, Follow PROVE FewQuestions'
  OBVIOUS
<1> DEFINE n == NextItem.plan
<1>1. TypeOK
  BY DEF GuidanceInv
<1>2. CASE plans' = plans
  BY <1>2 DEF FewQuestions, Numbers
<1>3. ASSUME NextItem.name \in PlanNames
      PROVE  n \in Numbers /\ plans[n] \in Plan /\ IsFiniteSet(plans[n].open)
  BY <1>1, <1>3, PlanSubject, PlanOf DEF FewQuestions
<1>4. ASSUME NEW plan, NextItem.name \in PlanNames, IsFiniteSet(plan.open), EditPlan(n, plan)
      PROVE  FewQuestions'
  BY <1>1, <1>3, <1>4, QuestionsReplaced DEF EditPlan
<1>5. ASSUME NEW s, NextItem.name \in PlanNames, SetPlanStatus(n, s) PROVE FewQuestions'
  <2>1. plans' = [plans EXCEPT ![n] = [plans[n] EXCEPT !.status = s]]
    BY <1>5 DEF SetPlanStatus
  <2>2. IsFiniteSet([plans[n] EXCEPT !.status = s].open)
    BY <1>3, <1>5, FiniteOpen
  <2>. QED
    BY <1>1, <1>3, <1>5, <2>1, <2>2, QuestionsReplaced
<1> HIDE DEF n
<1>6. CASE FillComponent
  <2>1. NextItem.name \in PlanNames
    BY <1>6 DEF FillComponent, Told, PlanNames
  <2>2. PICK sound \in BOOLEAN :
          EditPlan(n, [plans[n] EXCEPT !.gaps = plans[n].gaps - 1, !.sound = sound])
    BY <1>6 DEF FillComponent, n
  <2>3. IsFiniteSet([plans[n] EXCEPT !.gaps = plans[n].gaps - 1, !.sound = sound].open)
    BY <1>3, <2>1, FiniteOpen
  <2>. QED
    BY <1>4, <2>1, <2>2, <2>3
<1>7. CASE AnswerRequiredQuestion
  <2>1. NextItem.name \in PlanNames
    BY <1>7 DEF AnswerRequiredQuestion, Told, PlanNames
  <2>2. PICK tag \in plans[n].open : EditPlan(n, Answered(plans[n], tag))
    BY <1>7 DEF AnswerRequiredQuestion, n
  <2>. QED
    BY <1>3, <1>4, <2>1, <2>2, FiniteOpen
<1>8. CASE AskPlanQuestion
  <2>1. NextItem.name \in PlanNames
    BY <1>8 DEF AskPlanQuestion, Told, PlanNames
  <2>2. EditPlan(n, Recorded(plans[n], NextItem.topic))
    BY <1>8 DEF AskPlanQuestion, n
  <2>3. IsFiniteSet(Recorded(plans[n], NextItem.topic).open)
    BY <1>3, <2>1, FiniteOpen
  <2>. QED
    BY <1>4, <2>1, <2>2, <2>3
<1>9. CASE FixValidation
  <2>1. NextItem.name \in PlanNames
    BY <1>9 DEF FixValidation, Told, PlanNames
  <2>2. \/ SetPlanStatus(n, "rework")
        \/ EditPlan(n, [plans[n] EXCEPT !.sound = TRUE])
        \/ EditPlan(n, Recorded(plans[n], Untagged))
    BY <1>9 DEF FixValidation, n
  <2>3. ASSUME EditPlan(n, [plans[n] EXCEPT !.sound = TRUE]) PROVE FewQuestions'
    BY <1>3, <1>4, <2>1, <2>3, FiniteOpen
  <2>4. ASSUME EditPlan(n, Recorded(plans[n], Untagged)) PROVE FewQuestions'
    BY <1>3, <1>4, <2>1, <2>4, FiniteOpen
  <2>. QED
    BY <1>5, <2>1, <2>2, <2>3, <2>4
<1>10. CASE MarkDone
  <2>1. NextItem.name \in PlanNames /\ SetPlanStatus(n, "done")
    BY <1>10 DEF MarkDone, Told, PlanNames, n
  <2>. QED
    BY <1>5, <2>1
<1>11. CASE PlanTheWorkshop \/ CreateFirstPlan
  BY <1>1, <1>11, QuestionsAdded
     DEF PlanTheWorkshop, CreatePlanFromWorkshop, CreateFirstPlan, CreatePlan
<1>12. SpecifyPlan \/ InitProject \/ AnswerWorkshopQuestion \/ AskWorkshopQuestion
       \/ AddConcreteExample \/ MarkWorkshopShaped => plans' = plans
  BY DEF SpecifyPlan, store, InitProject, AnswerWorkshopQuestion, AskWorkshopQuestion,
         AddConcreteExample, MarkWorkshopShaped, SetWorkshopStatus, EditWorkshop
<1>. QED
  BY <1>2, <1>6, <1>7, <1>8, <1>9, <1>10, <1>11, <1>12 DEF Follow

LEMMA MeddleQuestions == GuidanceInv /\ FewQuestions /\ Meddle => FewQuestions'
<1> SUFFICES ASSUME GuidanceInv, FewQuestions, Meddle PROVE FewQuestions'
  OBVIOUS
<1>1. TypeOK
  BY DEF GuidanceInv
<1>2. CASE plans' = plans
  BY <1>2 DEF FewQuestions, Numbers
<1>3. ASSUME NEW n \in Numbers PROVE plans[n] \in Plan /\ IsFiniteSet(plans[n].open)
  BY <1>1, PlanOf DEF FewQuestions
<1>4. ASSUME NEW n \in Numbers, ChangePlanStatus(n) PROVE FewQuestions'
  <2>1. PICK s \in PlanStatuses : plans' = [plans EXCEPT ![n] = [plans[n] EXCEPT !.status = s]]
    BY <1>4 DEF ChangePlanStatus, SetPlanStatus
  <2>2. IsFiniteSet([plans[n] EXCEPT !.status = s].open)
    BY <1>3, FiniteOpen
  <2>. QED
    BY <1>1, <2>1, <2>2, QuestionsReplaced
<1>5. ASSUME NEW n \in Numbers, RevisePlan(n) PROVE FewQuestions'
  <2>1. ASSUME NEW plan, EditPlan(n, plan), IsFiniteSet(plan.open) PROVE FewQuestions'
    BY <1>1, <2>1, QuestionsReplaced DEF EditPlan
  <2>2. \/ EditPlan(n, [plans[n] EXCEPT !.gaps = plans[n].gaps + 1])
        \/ EditPlan(n, [plans[n] EXCEPT !.sound = FALSE])
        \/ \E tag : EditPlan(n, Recorded(plans[n], tag))
    BY <1>5 DEF RevisePlan
  <2>3. /\ IsFiniteSet([plans[n] EXCEPT !.gaps = plans[n].gaps + 1].open)
        /\ IsFiniteSet([plans[n] EXCEPT !.sound = FALSE].open)
        /\ \A tag : IsFiniteSet(Recorded(plans[n], tag).open)
    BY <1>3, FiniteOpen
  <2>. QED
    BY <2>1, <2>2, <2>3
<1>6. CASE CreateAnotherPlan
  BY <1>1, <1>6, QuestionsAdded DEF CreateAnotherPlan, CreatePlan
<1>7. NameAPlan \/ (\E s \in {"new", "exploring"} : CreateWorkshop(s))
      \/ ReviseWorkshop \/ ChangeWorkshopStatus \/ (\E n \in Numbers : ActivatePlan(n))
      \/ ChangeProfile => plans' = plans
  BY DEF NameAPlan, store, CreateWorkshop, ReviseWorkshop, ChangeWorkshopStatus,
         SetWorkshopStatus, EditWorkshop, ActivatePlan, ChangeProfile
<1>. QED
  BY <1>2, <1>4, <1>5, <1>6, <1>7 DEF Meddle

LEMMA MeasureInductive == Spec => []MeasureInv
<1> DEFINE Rest == CountsInBounds /\ FewQuestions /\ WorkshopInProject
<1>1. Init => Rest
  <2> SUFFICES ASSUME Init PROVE Rest
    OBVIOUS
  <2>1. CountsInBounds /\ WorkshopInProject
    BY ConfigsAssumption DEF Init, CountsInBounds, WorkshopInProject
  <2>2. FewQuestions
    <3>1. CASE plans = <<>>
      BY <3>1 DEF FewQuestions, Numbers
    <3>2. CASE plans # <<>>
      <4>1. PICK s1, s2 \in OldStatuses : plans = <<Old(s1), Old(s2)>>
        BY <3>2 DEF Init
      <4>2. Len(plans) = 2 /\ plans[1] = Old(s1) /\ plans[2] = Old(s2)
        BY <4>1
      <4>3. \A n \in 1 .. 2 : n = 1 \/ n = 2
        OBVIOUS
      <4>4. \A n \in Numbers : plans[n].open = {}
        BY <4>2, <4>3, OldType DEF Numbers
      <4>. QED
        BY <4>4, FS_EmptySet DEF FewQuestions
    <3>. QED
      BY <3>1, <3>2
  <2>. QED
    BY <2>1, <2>2
<1>2. GuidanceInv /\ Rest /\ [Next]_vars => Rest'
  <2> SUFFICES ASSUME GuidanceInv, Rest, [Next]_vars PROVE Rest'
    OBVIOUS
  <2>1. CASE UNCHANGED vars
    BY <2>1 DEF vars, CountsInBounds, FewQuestions, Numbers, WorkshopInProject
  <2>2. CASE Follow \/ Meddle
    <3>1. FewQuestions'
      BY <2>2, FollowQuestions, MeddleQuestions
    <3>2. profile' = profile \/ \E raw \in Configs : profile' = ParseProfile(raw)
      BY <2>2 DEF Follow, Meddle, SpecifyPlan, store, InitProject, AnswerWorkshopQuestion,
         AskWorkshopQuestion, AddConcreteExample, MarkWorkshopShaped, SetWorkshopStatus,
         EditWorkshop, PlanTheWorkshop, CreatePlanFromWorkshop, CreateFirstPlan, CreatePlan,
         FillComponent, AnswerRequiredQuestion, AskPlanQuestion, FixValidation, MarkDone,
         EditPlan, SetPlanStatus, NameAPlan, CreateWorkshop, ReviseWorkshop,
         ChangeWorkshopStatus, CreateAnotherPlan, ActivatePlan, ChangePlanStatus, RevisePlan,
         ChangeProfile
    <3>3. CountsInBounds'
      BY <3>2, ConfigsAssumption DEF CountsInBounds
    <3>4. /\ initialized => initialized'
          /\ workshop' = Nil \/ workshop # Nil \/ initialized
      <4>1. PlanTheWorkshop => workshop # Nil
        <5>1. ASSUME PlanTheWorkshop PROVE NextItem.name \in WorkshopNames
          BY <5>1 DEF PlanTheWorkshop, Told, WorkshopNames
        <5>. QED
          BY <5>1, WorkshopSubject, NilAssumption DEF GuidanceInv
      <4>2. AnswerWorkshopQuestion \/ AskWorkshopQuestion \/ AddConcreteExample
            \/ MarkWorkshopShaped => workshop # Nil
        <5>1. ASSUME AnswerWorkshopQuestion \/ AskWorkshopQuestion \/ AddConcreteExample
                     \/ MarkWorkshopShaped
              PROVE  NextItem.name \in WorkshopNames
          BY <5>1 DEF AnswerWorkshopQuestion, AskWorkshopQuestion, AddConcreteExample,
             MarkWorkshopShaped, Told, WorkshopNames
        <5>. QED
          BY <5>1, WorkshopSubject, NilAssumption DEF GuidanceInv
      <4>3. /\ SpecifyPlan \/ CreateFirstPlan \/ NameAPlan \/ CreateAnotherPlan
               \/ (\E n \in Numbers : ActivatePlan(n)) \/ ChangeProfile
               => UNCHANGED <<initialized, workshop>>
            /\ InitProject => initialized' /\ workshop' = workshop
        BY DEF SpecifyPlan, store, CreateFirstPlan, CreatePlan, NameAPlan, CreateAnotherPlan,
           ActivatePlan, ChangeProfile, InitProject
      <4>4. /\ \A n, plan : EditPlan(n, plan) => UNCHANGED <<initialized, workshop>>
            /\ \A n, s : SetPlanStatus(n, s) => UNCHANGED <<initialized, workshop>>
        BY DEF EditPlan, SetPlanStatus
      <4>5. FillComponent \/ AnswerRequiredQuestion \/ AskPlanQuestion \/ FixValidation
            \/ MarkDone \/ (\E n \in Numbers : ChangePlanStatus(n) \/ RevisePlan(n))
            => UNCHANGED <<initialized, workshop>>
        BY <4>4 DEF FillComponent, AnswerRequiredQuestion, AskPlanQuestion, FixValidation,
           MarkDone, ChangePlanStatus, RevisePlan
      <4>6. /\ AnswerWorkshopQuestion \/ AskWorkshopQuestion \/ AddConcreteExample
               \/ MarkWorkshopShaped \/ PlanTheWorkshop => initialized' = initialized
            /\ ReviseWorkshop \/ ChangeWorkshopStatus
               => workshop # Nil /\ initialized' = initialized
            /\ \A s : CreateWorkshop(s) => initialized /\ initialized' = initialized
        BY DEF AnswerWorkshopQuestion, AskWorkshopQuestion, AddConcreteExample,
           MarkWorkshopShaped, SetWorkshopStatus, EditWorkshop, PlanTheWorkshop,
           CreatePlanFromWorkshop, ReviseWorkshop, ChangeWorkshopStatus, CreateWorkshop
      <4>7. CASE Follow
        BY <4>1, <4>2, <4>3, <4>5, <4>6, <4>7 DEF Follow
      <4>8. CASE Meddle
        BY <4>3, <4>5, <4>6, <4>8 DEF Meddle
      <4>. QED
        BY <2>2, <4>7, <4>8
    <3>5. WorkshopInProject'
      BY <3>4 DEF WorkshopInProject
    <3>. QED
      BY <3>1, <3>3, <3>5
  <2>. QED
    BY <2>1, <2>2 DEF Next
<1> HIDE DEF Rest
<1>3. GuidanceInv /\ Rest => MeasureInv
  BY DEF MeasureInv, Rest
<1>4. Spec => []Rest
  BY <1>1, <1>2, GuidanceInductive, PTL DEF Spec
<1>. QED
  BY <1>3, <1>4, GuidanceInductive, PTL

-----------------------------------------------------------------------------
(* Each thing the agent is told to do leaves less to do. *)

\* Of a plan that is not done, texts and questions are the work.
LEMMA LessWriting ==
  ASSUME NEW p \in Profile, NEW old \in Plan, NEW new \in Plan,
         IsFiniteSet(old.open), new.status = old.status, old.status # "done",
         new.open = old.open, new.tags = old.tags, new.answered = old.answered,
         Writing(new) < Writing(old)
  PROVE  Work(p, new) < Work(p, old)
<1>1. Asking(p.topics, new) = Asking(p.topics, old)
  BY DEF Asking, TopicsLeft, QuestionsLeft
<1>2. Approving(p, new) = 1 /\ Approving(p, old) = 1
  BY DEF Approving
<1>3. Writing(new) \in Nat /\ Writing(old) \in Nat /\ Asking(p.topics, old) \in Nat
  BY WorkTypes
<1>. QED
  BY <1>1, <1>2, <1>3 DEF Work

LEMMA LessAsking ==
  ASSUME NEW p \in Profile, NEW old \in Plan, NEW new \in Plan,
         IsFiniteSet(old.open), IsFiniteSet(new.open),
         new.status = old.status, old.status # "done",
         new.gaps = old.gaps, new.sound = old.sound,
         Asking(p.topics, new) < Asking(p.topics, old)
  PROVE  Work(p, new) < Work(p, old)
<1>1. Writing(new) = Writing(old)
  BY DEF Writing
<1>2. Approving(p, new) = 1 /\ Approving(p, old) = 1
  BY DEF Approving
<1>3. Writing(old) \in Nat /\ Asking(p.topics, new) \in Nat /\ Asking(p.topics, old) \in Nat
  BY WorkTypes
<1>. QED
  BY <1>1, <1>2, <1>3 DEF Work

\* A text is filled in, be it soundly or not; an unsound one is corrected.
LEMMA FillingIsLess ==
  ASSUME NEW p \in Profile, NEW plan \in Plan, IsFiniteSet(plan.open),
         plan.status # "done", plan.gaps > 0, NEW sound \in BOOLEAN
  PROVE  Work(p, [plan EXCEPT !.gaps = plan.gaps - 1, !.sound = sound]) < Work(p, plan)
<1> DEFINE new == [plan EXCEPT !.gaps = plan.gaps - 1, !.sound = sound]
<1>1. plan.gaps \in 0 .. Sections /\ plan.sound \in BOOLEAN /\ Sections \in Nat
  BY BoundsAssumption DEF Plan
<1>2. plan.gaps - 1 \in 0 .. Sections
  BY <1>1
<1>3. /\ new \in Plan /\ new.status = plan.status /\ new.open = plan.open
      /\ new.tags = plan.tags /\ new.answered = plan.answered
      /\ new.gaps = plan.gaps - 1 /\ new.sound = sound
  BY <1>2 DEF Plan
<1> HIDE DEF new
<1>4. Writing(new) < Writing(plan)
  BY <1>1, <1>3 DEF Writing, Toll
<1>5. Work(p, new) < Work(p, plan)
  BY <1>3, <1>4, LessWriting
<1>. QED
  BY <1>5 DEF new

LEMMA CorrectingIsLess ==
  ASSUME NEW p \in Profile, NEW plan \in Plan, IsFiniteSet(plan.open),
         plan.status # "done", ~plan.sound
  PROVE  Work(p, [plan EXCEPT !.sound = TRUE]) < Work(p, plan)
<1> DEFINE new == [plan EXCEPT !.sound = TRUE]
<1>1. plan.gaps \in 0 .. Sections /\ Sections \in Nat
  BY BoundsAssumption DEF Plan
<1>2. /\ new \in Plan /\ new.status = plan.status /\ new.open = plan.open
      /\ new.tags = plan.tags /\ new.answered = plan.answered
      /\ new.gaps = plan.gaps /\ new.sound = TRUE
  BY DEF Plan
<1> HIDE DEF new
<1>3. Writing(new) < Writing(plan)
  BY <1>1, <1>2 DEF Writing, Toll
<1>4. Work(p, new) < Work(p, plan)
  BY <1>2, <1>3, LessWriting
<1>. QED
  BY <1>4 DEF new

Answerable(topics) == \A t \in Range(topics) : t \in Taggable /\ Lowered[t] = t

LEMMA TopicOfProfile ==
  ASSUME NEW p \in Profile, NEW i \in DOMAIN p.topics
  PROVE  /\ p.topics[i] \in Topics /\ p.topics[i] # Untagged
         /\ p.topics[i] \in Range(p.topics)
BY TopicsAssumption DEF Profile, Range

\* A question is answered: its topic does not come back into the queue.
LEMMA AnsweringIsLess ==
  ASSUME NEW p \in Profile, NEW plan \in Plan, IsFiniteSet(plan.open),
         plan.status # "done", NEW tag \in plan.open, Answerable(p.topics)
  PROVE  Work(p, Answered(plan, tag)) < Work(p, plan)
<1> DEFINE new == Answered(plan, tag)
<1>1. /\ plan.open \in SUBSET (Topics \cup {Untagged}) /\ plan.answered \in 0 .. MaxCount
      /\ MaxCount \in Nat
  BY BoundsAssumption DEF Plan
<1>2. /\ new \in Plan /\ new.status = plan.status
      /\ new.gaps = plan.gaps /\ new.sound = plan.sound
      /\ new.open = plan.open \ {tag}
      /\ new.tags = IF tag = Untagged THEN plan.tags ELSE plan.tags \cup {Lowered[tag]}
      /\ new.answered = IF plan.answered < MaxCount THEN plan.answered + 1 ELSE plan.answered
  BY PlanTypes DEF Answered, Plan
<1> HIDE DEF new
<1>3. TopicsLeft(p.topics, new) \subseteq TopicsLeft(p.topics, plan)
  <2> SUFFICES ASSUME NEW i \in DOMAIN p.topics, p.topics[i] \notin new.tags \cup new.open
               PROVE  p.topics[i] \notin plan.tags \cup plan.open
    BY DEF TopicsLeft
  <2>1. p.topics[i] # Untagged /\ Lowered[p.topics[i]] = p.topics[i]
    BY TopicOfProfile DEF Answerable
  <2>. QED
    BY <1>2, <2>1
<1>4. IsFiniteSet(new.open) /\ Cardinality(new.open) = Cardinality(plan.open) - 1
  BY <1>2, FS_RemoveElement
<1>5. QuestionsLeft(new) <= QuestionsLeft(plan)
  BY <1>1, <1>2 DEF QuestionsLeft, Toll
<1>6. /\ Cardinality(TopicsLeft(p.topics, new)) <= Cardinality(TopicsLeft(p.topics, plan))
      /\ Cardinality(TopicsLeft(p.topics, new)) \in Nat
      /\ Cardinality(TopicsLeft(p.topics, plan)) \in Nat
      /\ Cardinality(plan.open) \in Nat
      /\ QuestionsLeft(new) \in Nat /\ QuestionsLeft(plan) \in Nat
  BY <1>2, <1>3, <1>4, WorkTypes, FS_Subset
<1>7. Asking(p.topics, new) < Asking(p.topics, plan)
  BY <1>4, <1>5, <1>6 DEF Asking
<1>8. Work(p, new) < Work(p, plan)
  BY <1>2, <1>4, <1>7, LessAsking
<1>. QED
  BY <1>8 DEF new

\* A topic of the queue is asked about.
LEMMA AskingTopicIsLess ==
  ASSUME NEW p \in Profile, NEW plan \in Plan, IsFiniteSet(plan.open),
         plan.status # "done", NEW i \in TopicsLeft(p.topics, plan), Answerable(p.topics),
         NEW tag, tag = p.topics[i]
  PROVE  Work(p, Recorded(plan, tag)) < Work(p, plan)
<1> DEFINE new == Recorded(plan, tag)
<1>1. /\ i \in DOMAIN p.topics /\ tag \notin plan.tags \cup plan.open
      /\ tag \in Taggable /\ tag # Untagged
  <2>1. i \in DOMAIN p.topics /\ tag \notin plan.tags \cup plan.open
    BY DEF TopicsLeft
  <2>. QED
    BY <2>1, TopicOfProfile DEF Answerable
<1>2. /\ new \in Plan /\ new.status = plan.status
      /\ new.gaps = plan.gaps /\ new.sound = plan.sound
      /\ new.open = plan.open \cup {tag} /\ new.tags = plan.tags /\ new.answered = plan.answered
  BY <1>1, PlanTypes DEF Recorded, Plan
<1> HIDE DEF new
<1>3. TopicsLeft(p.topics, new) \subseteq TopicsLeft(p.topics, plan) \ {i}
  BY <1>2 DEF TopicsLeft
<1>4. IsFiniteSet(new.open) /\ Cardinality(new.open) = Cardinality(plan.open) + 1
  <2>1. tag \notin plan.open
    BY <1>1
  <2>2. /\ IsFiniteSet(plan.open \cup {tag})
        /\ Cardinality(plan.open \cup {tag}) = Cardinality(plan.open) + 1
    BY <2>1, FS_AddElement
  <2>. QED
    BY <1>2, <2>2
<1>5. QuestionsLeft(new) = QuestionsLeft(plan)
  BY <1>1, <1>2 DEF QuestionsLeft
<1>6. Cardinality(TopicsLeft(p.topics, new)) < Cardinality(TopicsLeft(p.topics, plan))
  <2>1. IsFiniteSet(TopicsLeft(p.topics, plan))
    BY WorkTypes
  <2>2. /\ IsFiniteSet(TopicsLeft(p.topics, plan) \ {i})
        /\ Cardinality(TopicsLeft(p.topics, plan) \ {i})
             = Cardinality(TopicsLeft(p.topics, plan)) - 1
    BY <2>1, FS_RemoveElement
  <2>3. Cardinality(TopicsLeft(p.topics, new)) <= Cardinality(TopicsLeft(p.topics, plan) \ {i})
    BY <1>3, <2>2, FS_Subset
  <2>4. /\ Cardinality(TopicsLeft(p.topics, new)) \in Nat
        /\ Cardinality(TopicsLeft(p.topics, plan)) \in Nat
    BY <1>2, <1>4, WorkTypes
  <2>. QED
    BY <2>2, <2>3, <2>4
<1>7. Asking(p.topics, new) < Asking(p.topics, plan)
  <2>1. /\ Cardinality(TopicsLeft(p.topics, new)) \in Nat
        /\ Cardinality(TopicsLeft(p.topics, plan)) \in Nat
        /\ Cardinality(plan.open) \in Nat /\ QuestionsLeft(plan) \in Nat
    BY <1>2, <1>4, WorkTypes
  <2>. QED
    BY <1>4, <1>5, <1>6, <2>1 DEF Asking
<1>8. Work(p, new) < Work(p, plan)
  BY <1>2, <1>4, <1>7, LessAsking
<1>. QED
  BY <1>8 DEF new

\* A plain question is asked, of which some are still wanted.
LEMMA AskingPlainIsLess ==
  ASSUME NEW p \in Profile, NEW plan \in Plan, IsFiniteSet(plan.open),
         plan.status # "done", Untagged \notin plan.open, plan.answered < MaxCount
  PROVE  Work(p, Recorded(plan, Untagged)) < Work(p, plan)
<1> DEFINE new == Recorded(plan, Untagged)
<1>1. /\ new \in Plan /\ new.status = plan.status
      /\ new.gaps = plan.gaps /\ new.sound = plan.sound
      /\ new.open = plan.open \cup {Untagged}
      /\ new.tags = plan.tags /\ new.answered = plan.answered
  BY PlanTypes DEF Recorded, Plan
<1> HIDE DEF new
<1>2. TopicsLeft(p.topics, new) = TopicsLeft(p.topics, plan)
  BY <1>1, TopicOfProfile DEF TopicsLeft
<1>3. IsFiniteSet(new.open) /\ Cardinality(new.open) = Cardinality(plan.open) + 1
  BY <1>1, FS_AddElement
<1>4. QuestionsLeft(new) = QuestionsLeft(plan) - 1
  <2>1. plan.answered \in 0 .. MaxCount /\ MaxCount \in Nat
    BY BoundsAssumption DEF Plan
  <2>. QED
    BY <1>1, <2>1 DEF QuestionsLeft, Toll
<1>5. Asking(p.topics, new) < Asking(p.topics, plan)
  BY <1>1, <1>2, <1>3, <1>4, WorkTypes DEF Asking
<1>6. Work(p, new) < Work(p, plan)
  BY <1>1, <1>3, <1>5, LessAsking
<1>. QED
  BY <1>6 DEF new

\* A plan is approved, or a done one that is not ready is reopened.
LEMMA StatusIsLess ==
  ASSUME NEW p \in Profile, NEW plan \in Plan, IsFiniteSet(plan.open), NEW s \in PlanStatuses,
         \/ plan.status # "done" /\ s = "done" /\ Ready(p, plan)
         \/ plan.status = "done" /\ s # "done" /\ ~Ready(p, plan)
  PROVE  Work(p, [plan EXCEPT !.status = s]) < Work(p, plan)
<1> DEFINE new == [plan EXCEPT !.status = s]
<1>1. /\ new \in Plan /\ new.status = s /\ new.gaps = plan.gaps /\ new.sound = plan.sound
      /\ new.open = plan.open /\ new.tags = plan.tags /\ new.answered = plan.answered
  BY DEF Plan
<1> HIDE DEF new
<1>2. Ready(p, new) <=> Ready(p, plan)
  BY <1>1 DEF Ready, Sated
<1>3. /\ Writing(new) = Writing(plan)
      /\ Asking(p.topics, new) = Asking(p.topics, plan)
  BY <1>1 DEF Writing, Asking, TopicsLeft, QuestionsLeft
<1>4. Approving(p, new) < Approving(p, plan)
  BY <1>1, <1>2 DEF Approving, Toll
<1>5. /\ Writing(plan) \in Nat /\ Asking(p.topics, plan) \in Nat
      /\ Approving(p, plan) \in Nat /\ Approving(p, new) \in Nat
  BY <1>1, WorkTypes
<1>6. Work(p, new) < Work(p, plan)
  BY <1>3, <1>4, <1>5 DEF Work
<1>. QED
  BY <1>6 DEF new

-----------------------------------------------------------------------------
(* A step of the agent, and what it does to the measure *)

LEMMA PlanInHand ==
  ASSUME TypeOK, NextItem.name \in PlanNames
  PROVE  Current \in Numbers /\ Current # 0 /\ NextItem = PlanItem(Current)
         /\ NextItem.plan = Current
<1>1. /\ focus # 0 => focus \in Numbers
      /\ active # 0 => active \in Numbers
      /\ Live \subseteq Numbers /\ Undone \subseteq Numbers /\ 0 \notin Numbers
  BY DEF TypeOK, Numbers, Live, Undone
<1>2. /\ NextItem # Say("init") /\ NextItem # Say("specify_plan") /\ NextItem # Say("create_plan")
      /\ ~(NextItem = WorkshopItem(workshop) /\ WorkshopItem(workshop) # Nil)
  BY WorkshopTold DEF Say, Item, PlanNames
<1>3. /\ focus # 0 => NextItem = PlanItem(focus)
      /\ focus = 0 => NextItem = UnnamedPlanItem
  BY <1>2 DEF NextItem
<1>4. CASE focus # 0
  BY <1>1, <1>3, <1>4, PlanTold DEF Current, InHand
<1>5. CASE focus = 0
  <2>1. \/ active # 0 /\ NextItem = PlanItem(active)
        \/ active = 0 /\ Cardinality(Live) = 1 /\ NextItem = PlanItem(Only(Live))
        \/ /\ active = 0 /\ Cardinality(Live) # 1 /\ Cardinality(Undone) = 1
           /\ NextItem = PlanItem(Only(Undone))
    BY <1>2, <1>3, <1>5 DEF UnnamedPlanItem
  <2>2. Current \in Numbers /\ NextItem = PlanItem(Current)
    BY <1>1, <1>5, <2>1, OnlyOne DEF Current, InHand
  <2>. QED
    BY <1>1, <2>2, PlanTold
<1>. QED
  BY <1>4, <1>5

\* Nothing is named or active when the guidance looks for a plan to speak of.
LEMMA NothingNamed ==
  ASSUME NextItem.name \in WorkshopNames \cup {"specify_plan", "create_plan"}
  PROVE  /\ initialized /\ focus = 0
         /\ NextItem.name \notin WorkshopNames => active = 0
<1>1. NextItem # Say("init") /\ ~\E n : NextItem = PlanItem(n)
  BY PlanTold DEF Say, Item, WorkshopNames
<1>2. initialized /\ focus = 0
  <2>1. (~initialized => NextItem = Say("init")) /\ (initialized /\ focus # 0 => NextItem = PlanItem(focus))
    BY DEF NextItem
  <2>. QED
    BY <1>1, <2>1
<1>3. ASSUME NextItem.name \notin WorkshopNames PROVE active = 0
  <2>1. ~(NextItem = WorkshopItem(workshop) /\ WorkshopItem(workshop) # Nil)
    BY <1>3, WorkshopTold DEF WorkshopNames
  <2>2. NextItem = UnnamedPlanItem
    BY <1>2, <2>1 DEF NextItem
  <2>. QED
    BY <1>1, <2>2 DEF UnnamedPlanItem
<1>. QED
  BY <1>2, <1>3

\* The plan in hand is replaced by one with less work.
LEMMA PlanStep ==
  ASSUME MeasureInv, NextItem.name \in PlanNames, NEW n, n = Current,
         NEW plan, plan.status # "cancelled", plans[n].status # "cancelled",
         Work(profile, plan) < Work(profile, plans[n]),
         plans' = [plans EXCEPT ![n] = plan],
         UNCHANGED <<initialized, profile, workshop, active, focus>>
  PROVE  Stage' < Stage \/ (Stage' = Stage /\ WorkLeft' < WorkLeft)
<1>1. TypeOK /\ n \in 1 .. Len(plans) /\ plans \in Seq(Plan) /\ Len(plans) \in Nat
  BY PlanInHand DEF MeasureInv, GuidanceInv, TypeOK, Numbers
<1>2. /\ Numbers' = Numbers /\ Numbers = 1 .. Len(plans) /\ plans'[n] = plan
      /\ \A k \in Numbers : k # n => plans'[k] = plans[k]
  BY <1>1 DEF Numbers
<1>3. Live' = Live
  BY <1>1, <1>2 DEF Live
<1>4. Toll(~initialized)' = Toll(~initialized) /\ WorkshopStage(workshop)' = WorkshopStage(workshop)
  BY DEF Toll, WorkshopStage
<1>5. Stage \in Nat
  BY MeasureTypes
<1>6. n # 0 /\ WorkLeft = Work(profile, plans[n])
  BY <1>1 DEF WorkLeft
<1>7. ASSUME PlanStage(focus, active, Live, Undone)' = PlanStage(focus, active, Live, Undone),
             Current' = n
      PROVE  Stage' = Stage /\ WorkLeft' < WorkLeft
  <2>1. Stage' = Stage
    BY <1>4, <1>7 DEF Stage
  <2>2. WorkLeft' = Work(profile, plan)
    BY <1>2, <1>6, <1>7 DEF WorkLeft
  <2>. QED
    BY <1>6, <2>1, <2>2
<1>8. CASE focus # 0 \/ active # 0
  BY <1>7, <1>8 DEF PlanStage, Current, InHand
<1>9. CASE focus = 0 /\ active = 0 /\ Cardinality(Live) = 1
  BY <1>3, <1>7, <1>9 DEF PlanStage, Current, InHand, Toll
<1>10. CASE focus = 0 /\ active = 0 /\ Cardinality(Live) # 1
  <2>1. Cardinality(Undone) = 1 /\ n = Only(Undone) /\ n \in Undone
    BY <1>6, <1>10, OnlyOne DEF Current, InHand
  <2>2. plans[n].status # "done"
    BY <2>1 DEF Undone
  <2>3. CASE plan.status # "done"
    <3>1. Undone' = Undone
      BY <1>2, <1>3, <2>2, <2>3 DEF Undone
    <3>. QED
      BY <1>3, <1>7, <3>1 DEF PlanStage, Current, InHand
  <2>4. CASE plan.status = "done"
    <3>1. IsFiniteSet(Undone)
      <4>1. IsFiniteSet(1 .. Len(plans))
        BY <1>1, FS_Interval
      <4>2. Undone \subseteq 1 .. Len(plans)
        BY <1>2 DEF Undone, Live
      <4>. QED
        BY <4>1, <4>2, FS_Subset
    <3>2. Undone' = Undone \ {n}
      BY <1>2, <1>3, <2>2, <2>4 DEF Undone, Live
    <3>3. Cardinality(Undone') = 0
      <4>1. Cardinality(Undone \ {n}) = Cardinality(Undone) - 1
        BY <2>1, <3>1, FS_RemoveElement
      <4>. QED
        BY <2>1, <3>2, <4>1
    <3>4. /\ PlanStage(focus, active, Live, Undone)' = 1
          /\ PlanStage(focus, active, Live, Undone) = 2
      BY <1>3, <1>10, <2>1, <3>3 DEF PlanStage, Toll
    <3>. QED
      BY <1>4, <1>5, <3>4 DEF Stage, Toll, WorkshopStage
  <2>. QED
    BY <2>3, <2>4
<1>. QED
  BY <1>7, <1>8, <1>9, <1>10

\* A step of the workshop brings its plan nearer.
LEMMA WorkshopStep ==
  ASSUME MeasureInv, WorkshopStage(workshop') < WorkshopStage(workshop),
         \/ UNCHANGED <<plans, active>>
         \/ active' # 0,
         UNCHANGED <<initialized, focus>>
  PROVE  Stage' < Stage
<1>1. PlanStage(focus, active, Live, Undone)' <= PlanStage(focus, active, Live, Undone)
  <2>1. CASE UNCHANGED <<plans, active>>
    BY <2>1 DEF PlanStage, Live, Undone, Numbers, Toll
  <2>2. CASE active' # 0
    BY <2>2 DEF PlanStage, Toll
  <2>. QED
    BY <2>1, <2>2
<1>2. /\ Toll(~initialized)' = Toll(~initialized) /\ Toll(~initialized) \in Nat
      /\ PlanStage(focus, active, Live, Undone) \in Nat
      /\ PlanStage(focus, active, Live, Undone)' \in Nat
      /\ WorkshopStage(workshop) \in Nat /\ WorkshopStage(workshop)' \in Nat
      /\ WorkshopStage(workshop)' = WorkshopStage(workshop')
  BY DEF PlanStage, Toll, WorkshopStage
<1>. QED
  BY <1>1, <1>2 DEF Stage

LEMMA FollowPlanNearer ==
  ASSUME MeasureInv, ~Unanswerable, UNCHANGED focus,
         \/ FillComponent \/ AnswerRequiredQuestion \/ AskPlanQuestion
         \/ FixValidation \/ MarkDone
  PROVE  Stage' < Stage \/ (Stage' = Stage /\ WorkLeft' < WorkLeft)
<1> DEFINE n == Current
           plan == plans[n]
           Goal == Stage' < Stage \/ (Stage' = Stage /\ WorkLeft' < WorkLeft)
<1>1. NextItem.name \in PlanNames
  BY DEF FillComponent, AnswerRequiredQuestion, AskPlanQuestion, FixValidation, MarkDone, Told,
     PlanNames
<1>2. /\ n \in Numbers /\ n # 0 /\ NextItem = PlanItem(n) /\ NextItem.plan = n
      /\ TypeOK /\ DoneIsSound
  BY <1>1, PlanInHand DEF MeasureInv, GuidanceInv
<1>3. /\ plan \in Plan /\ IsFiniteSet(plan.open) /\ profile \in Profile
      /\ profile.max \in Nat /\ profile.min \in Nat /\ plan.answered \in Nat
      /\ MaxCount \in Nat /\ profile.max <= MaxCount /\ profile.min <= MaxCount
  <2>1. plan \in Plan /\ IsFiniteSet(plan.open) /\ profile \in Profile
    BY <1>2, PlanOf DEF MeasureInv, FewQuestions, TypeOK
  <2>. QED
    BY <2>1, BoundsAssumption DEF Plan, Profile, MeasureInv, CountsInBounds
<1>4. Answerable(profile.topics)
  BY DEF Unanswerable, Answerable
<1>5. plan.status = "done" => plan.gaps = 0 /\ plan.sound /\ plan.open = {}
  BY <1>2 DEF DoneIsSound
<1>6. ASSUME NEW new, EditPlan(n, new), new.status = plan.status, Work(profile, new) < Work(profile, plan)
      PROVE  Goal
  <2>1. /\ plans' = [plans EXCEPT ![n] = new] /\ plan.status # "cancelled"
        /\ UNCHANGED <<initialized, profile, workshop, active>>
    BY <1>6 DEF EditPlan
  <2>. HIDE DEF n
  <2>. QED
    BY <1>1, <1>6, <2>1, PlanStep DEF n
<1>7. ASSUME NEW s, s # "cancelled", SetPlanStatus(n, s),
             Work(profile, [plan EXCEPT !.status = s]) < Work(profile, plan)
      PROVE  Goal
  <2>1. /\ plans' = [plans EXCEPT ![n] = [plan EXCEPT !.status = s]] /\ plan.status # "cancelled"
        /\ UNCHANGED <<initialized, profile, workshop, active>>
    BY <1>7 DEF SetPlanStatus
  <2>2. [plan EXCEPT !.status = s].status # "cancelled"
    BY <1>3, <1>7 DEF Plan
  <2>. HIDE DEF n
  <2>. QED
    BY <1>1, <1>7, <2>1, <2>2, PlanStep DEF n
<1>8. /\ \A tag : Recorded(plan, tag).status = plan.status
      /\ \A tag : Answered(plan, tag).status = plan.status
      /\ [plan EXCEPT !.sound = TRUE].status = plan.status
      /\ \A g, b : [plan EXCEPT !.gaps = g, !.sound = b].status = plan.status
  BY <1>3 DEF Recorded, Answered, Plan
<1> HIDE DEF n
<1>9. CASE FillComponent
  <2>1. plan.gaps > 0
    BY <1>2, <1>9, PlanTold DEF FillComponent, Told
  <2>2. PICK sound \in BOOLEAN : EditPlan(n, [plan EXCEPT !.gaps = plan.gaps - 1, !.sound = sound])
    BY <1>2, <1>9 DEF FillComponent
  <2>3. plan.status # "done"
    BY <1>5, <2>1
  <2>4. Work(profile, [plan EXCEPT !.gaps = plan.gaps - 1, !.sound = sound]) < Work(profile, plan)
    BY <1>3, <2>1, <2>3, FillingIsLess
  <2>. QED
    BY <1>6, <1>8, <2>2, <2>4
<1>10. CASE AnswerRequiredQuestion
  <2>1. PICK tag \in plan.open : EditPlan(n, Answered(plan, tag))
    BY <1>2, <1>10 DEF AnswerRequiredQuestion
  <2>2. plan.status # "done"
    BY <1>5, <2>1
  <2>3. Work(profile, Answered(plan, tag)) < Work(profile, plan)
    BY <1>3, <1>4, <2>2, AnsweringIsLess
  <2>. QED
    BY <1>6, <1>8, <2>1, <2>3
<1>11. CASE AskPlanQuestion
  <2> DEFINE tag == NextItem.topic
  <2>1. EditPlan(n, Recorded(plan, tag)) /\ NextItem.name = "ask_plan_question"
    BY <1>2, <1>11 DEF AskPlanQuestion, Told
  <2>2. /\ plan.open = {} /\ Queueing(plan)
        /\ \/ /\ RemainingTopics(plan) # {}
              /\ tag = profile.topics[Min(RemainingTopics(plan))]
           \/ /\ tag = Untagged /\ plan.answered < profile.max
    BY <1>2, <2>1 DEF PlanItem, Item
  <2>3. plan.status # "done"
    BY <2>2 DEF Queueing
  <2> HIDE DEF tag
  <2>4. Work(profile, Recorded(plan, tag)) < Work(profile, plan)
    <3>1. CASE tag = Untagged /\ plan.answered < profile.max
      BY <1>3, <2>2, <2>3, <3>1, AskingPlainIsLess
    <3>2. CASE /\ RemainingTopics(plan) # {}
               /\ tag = profile.topics[Min(RemainingTopics(plan))]
      <4>1. RemainingTopics(plan) = TopicsLeft(profile.topics, plan)
        BY DEF RemainingTopics, TopicsLeft
      <4>2. RemainingTopics(plan) \subseteq Nat
        BY <1>3 DEF RemainingTopics, Profile
      <4>3. Min(RemainingTopics(plan)) \in TopicsLeft(profile.topics, plan)
        BY <3>2, <4>1, <4>2, LeastNumber
      <4>. QED
        BY <1>3, <1>4, <2>3, <3>2, <4>3, AskingTopicIsLess
    <3>. QED
      BY <2>2, <3>1, <3>2
  <2>. QED
    BY <1>6, <1>8, <2>1, <2>4
<1>12. CASE FixValidation
  <2>1. /\ plan.open = {} /\ ~Ready(profile, plan)
    BY <1>2, <1>12, PlanTold DEF FixValidation, Told, Blocked
  <2>2. CASE plan.status = "done" /\ SetPlanStatus(n, "rework")
    <3>1. Work(profile, [plan EXCEPT !.status = "rework"]) < Work(profile, plan)
      BY <1>3, <2>1, <2>2, StatusIsLess DEF PlanStatuses
    <3>. QED
      BY <1>7, <2>2, <3>1
  <2>3. CASE plan.status # "done" /\ ~plan.sound /\ EditPlan(n, [plan EXCEPT !.sound = TRUE])
    <3>1. Work(profile, [plan EXCEPT !.sound = TRUE]) < Work(profile, plan)
      BY <1>3, <2>3, CorrectingIsLess
    <3>. QED
      BY <1>6, <1>8, <2>3, <3>1
  <2>4. CASE /\ plan.status # "done" /\ ~Sated(profile, plan)
             /\ EditPlan(n, Recorded(plan, Untagged))
    <3>1. plan.answered < MaxCount
      BY <1>3, <2>4 DEF Sated
    <3>2. Work(profile, Recorded(plan, Untagged)) < Work(profile, plan)
      BY <1>3, <2>1, <2>4, <3>1, AskingPlainIsLess
    <3>. QED
      BY <1>6, <1>8, <2>4, <3>2
  <2>. QED
    BY <1>2, <1>12, <2>2, <2>3, <2>4 DEF FixValidation
<1>13. CASE MarkDone
  <2>1. Ready(profile, plan) /\ plan.status # "done" /\ SetPlanStatus(n, "done")
    BY <1>2, <1>13, PlanTold DEF MarkDone, Told, Blocked
  <2>2. Work(profile, [plan EXCEPT !.status = "done"]) < Work(profile, plan)
    BY <1>3, <2>1, StatusIsLess DEF PlanStatuses
  <2>. QED
    BY <1>7, <2>1, <2>2
<1>. QED
  BY <1>9, <1>10, <1>11, <1>12, <1>13

LEMMA FollowWorkshopNearer ==
  ASSUME MeasureInv, ~OpenEnded, UNCHANGED focus,
         \/ AnswerWorkshopQuestion \/ AskWorkshopQuestion \/ AddConcreteExample
         \/ MarkWorkshopShaped \/ PlanTheWorkshop
  PROVE  Stage' < Stage
<1>1. NextItem.name \in WorkshopNames
  BY DEF AnswerWorkshopQuestion, AskWorkshopQuestion, AddConcreteExample, MarkWorkshopShaped,
     PlanTheWorkshop, Told, WorkshopNames
<1>2. /\ initialized /\ focus = 0 /\ workshop \in Workshop /\ workshop # Nil
      /\ NextItem = WorkshopItem(workshop) /\ WorkshopItem(workshop) # Nil
  BY <1>1, WorkshopSubject, NothingNamed, NilAssumption DEF MeasureInv, GuidanceInv
<1>3. ~Interviewing(workshop)
  BY <1>2 DEF OpenEnded
<1>4. WorkshopItem(workshop).name # "ask_workshop_question"
  BY <1>2, <1>3 DEF WorkshopItem, Say, Item
<1>5. ASSUME NEW w \in Workshop, EditWorkshop(w), WorkshopStage(w) < WorkshopStage(workshop)
      PROVE  Stage' < Stage
  BY <1>5, WorkshopStep DEF EditWorkshop
<1>6. CASE AnswerWorkshopQuestion
  <2> DEFINE w == [workshop EXCEPT !.open = FALSE]
  <2>1. EditWorkshop(w) /\ workshop.open
    BY <1>2, <1>6, WorkshopTold DEF AnswerWorkshopQuestion, Told
  <2>2. /\ w \in Workshop /\ w # Nil /\ w.open = FALSE /\ w.examples = workshop.examples
        /\ w.status = workshop.status /\ w.linked = workshop.linked
    BY <1>2, NilAssumption DEF Workshop
  <2> HIDE DEF w
  <2>3. WorkshopStage(w) < WorkshopStage(workshop)
    BY <1>2, <2>1, <2>2 DEF WorkshopStage, Toll
  <2>. QED
    BY <1>5, <2>1, <2>2, <2>3
<1>7. CASE AddConcreteExample
  <2>1. PICK complete \in BOOLEAN :
          EditWorkshop([workshop EXCEPT !.examples = TRUE, !.sound = workshop.sound /\ complete])
    BY <1>7 DEF AddConcreteExample
  <2> DEFINE w == [workshop EXCEPT !.examples = TRUE, !.sound = workshop.sound /\ complete]
  <2>2. ~workshop.examples
    BY <1>2, <1>7, WorkshopTold DEF AddConcreteExample, Told
  <2>3. (workshop.sound /\ complete) \in BOOLEAN
    BY <1>2 DEF Workshop
  <2>4. /\ w \in Workshop /\ w # Nil /\ w.open = workshop.open /\ w.examples = TRUE
        /\ w.status = workshop.status /\ w.linked = workshop.linked
    BY <1>2, <2>3, NilAssumption DEF Workshop
  <2>5. EditWorkshop(w)
    BY <2>1
  <2> HIDE DEF w
  <2>6. WorkshopStage(w) < WorkshopStage(workshop)
    BY <1>2, <2>2, <2>4 DEF WorkshopStage, Toll
  <2>. QED
    BY <1>5, <2>4, <2>5, <2>6
<1>8. CASE MarkWorkshopShaped
  <2> DEFINE w == [workshop EXCEPT !.status = "shaped"]
  <2>1. EditWorkshop(w) /\ workshop.status = "exploring"
    BY <1>2, <1>8, WorkshopTold DEF MarkWorkshopShaped, SetWorkshopStatus, Told
  <2>2. /\ w \in Workshop /\ w # Nil /\ w.open = workshop.open /\ w.examples = workshop.examples
        /\ w.status = "shaped" /\ w.linked = workshop.linked
    BY <1>2, NilAssumption DEF Workshop, WorkshopStatuses
  <2> HIDE DEF w
  <2>3. WorkshopStage(w) < WorkshopStage(workshop)
    BY <1>2, <2>1, <2>2 DEF WorkshopStage, Toll
  <2>. QED
    BY <1>5, <2>1, <2>2, <2>3
<1>9. CASE PlanTheWorkshop
  <2>1. /\ workshop' = [workshop EXCEPT !.linked = TRUE, !.status = "planned"]
        /\ active' = Len(plans) + 1 /\ UNCHANGED <<initialized, profile>>
    BY <1>9 DEF PlanTheWorkshop, CreatePlanFromWorkshop, AddPlan
  <2>2. active' # 0
    BY <2>1 DEF MeasureInv, GuidanceInv, TypeOK
  <2>3. workshop.status = "shaped" /\ ~workshop.linked
    BY <1>2, <1>9, WorkshopTold DEF PlanTheWorkshop, Told
  <2>4. /\ workshop' # Nil /\ workshop'.open = workshop.open
        /\ workshop'.examples = workshop.examples /\ workshop'.status = "planned"
        /\ workshop'.linked = TRUE
    BY <1>2, <2>1, NilAssumption DEF Workshop, WorkshopStatuses
  <2>5. WorkshopStage(workshop') < WorkshopStage(workshop)
    BY <1>2, <2>3, <2>4 DEF WorkshopStage, Toll
  <2>. QED
    BY <2>1, <2>2, <2>5, WorkshopStep
<1>. QED
  BY <1>2, <1>4, <1>6, <1>7, <1>8, <1>9 DEF AskWorkshopQuestion, Told

LEMMA FollowNearer ==
  MeasureInv /\ Follow /\ ~OpenEnded /\ ~Unanswerable
    => (Stage' < Stage \/ (Stage' = Stage /\ WorkLeft' < WorkLeft))
<1> SUFFICES ASSUME MeasureInv, Follow, ~OpenEnded, ~Unanswerable
             PROVE  Stage' < Stage \/ (Stage' = Stage /\ WorkLeft' < WorkLeft)
  OBVIOUS
<1> DEFINE PS == PlanStage(focus, active, Live, Undone)
<1>1. /\ Toll(~initialized) \in Nat /\ WorkshopStage(workshop) \in Nat /\ PS \in Nat
      /\ Toll(~initialized)' \in Nat
  BY DEF PlanStage, Toll, WorkshopStage
<1>2. CASE SpecifyPlan
  <2>1. focus = 0 /\ active = 0
    <3>1. NextItem.name = "specify_plan"
      BY <1>2 DEF SpecifyPlan, Told
    <3>. QED
      BY <3>1, NothingNamed DEF WorkshopNames
  <2>2. focus' # 0 /\ UNCHANGED <<initialized, workshop>>
    BY <1>2 DEF SpecifyPlan, store, Undone, Live, Numbers
  <2>3. PS' = 0 /\ PS > 0
    BY <2>1, <2>2 DEF PlanStage, Toll
  <2>4. Toll(~initialized)' = Toll(~initialized) /\ WorkshopStage(workshop)' = WorkshopStage(workshop)
    BY <2>2 DEF Toll, WorkshopStage
  <2> HIDE DEF PS
  <2>. QED
    BY <1>1, <2>3, <2>4 DEF Stage, PS
<1>3. CASE InitProject /\ UNCHANGED focus
  <2>1. ~initialized
    <3>1. NextItem.name = "init"
      BY <1>3 DEF InitProject, Told
    <3>2. TypeOK /\ NextItem.name \notin PlanNames
      BY <3>1 DEF MeasureInv, GuidanceInv, PlanNames
    <3>3. ~\E n : NextItem = PlanItem(n)
      BY <3>1, PlanTold
    <3>4. ~(NextItem = WorkshopItem(workshop) /\ WorkshopItem(workshop) # Nil)
      BY <3>1, WorkshopTold
    <3>5. initialized => NextItem = UnnamedPlanItem
      BY <3>3, <3>4 DEF NextItem
    <3>6. UnnamedPlanItem.name # "init"
      BY <3>1, PlanTold DEF UnnamedPlanItem, Say, Item
    <3>. QED
      BY <3>1, <3>5, <3>6
  <2>2. initialized' = TRUE /\ UNCHANGED <<workshop, plans, active, focus>>
    BY <1>3 DEF InitProject
  <2>3. PS' = PS /\ WorkshopStage(workshop)' = WorkshopStage(workshop)
    BY <2>2 DEF PlanStage, Live, Undone, Numbers, Toll, WorkshopStage
  <2>4. Toll(~initialized)' < Toll(~initialized)
    BY <2>1, <2>2 DEF Toll
  <2> HIDE DEF PS
  <2>. QED
    BY <1>1, <2>3, <2>4 DEF Stage, PS
<1>4. CASE CreateFirstPlan /\ UNCHANGED focus
  <2>1. focus = 0 /\ active = 0
    <3>1. NextItem.name = "create_plan"
      BY <1>4 DEF CreateFirstPlan, Told
    <3>. QED
      BY <3>1, NothingNamed DEF WorkshopNames
  <2>2. active' # 0 /\ UNCHANGED <<initialized, workshop>>
    BY <1>4 DEF CreateFirstPlan, CreatePlan, AddPlan, MeasureInv, GuidanceInv, TypeOK
  <2>3. PS' = 0 /\ PS > 0
    BY <2>1, <2>2 DEF PlanStage, Toll
  <2>4. Toll(~initialized)' = Toll(~initialized) /\ WorkshopStage(workshop)' = WorkshopStage(workshop)
    BY <2>2 DEF Toll, WorkshopStage
  <2> HIDE DEF PS
  <2>. QED
    BY <1>1, <2>3, <2>4 DEF Stage, PS
<1>. QED
  BY <1>2, <1>3, <1>4, FollowPlanNearer, FollowWorkshopNearer DEF Follow

\* The guidance does not lead in a circle: each thing that is done because
\* compute_next_action says so takes a project to set up, a step of the workshop or
\* a choice away for good, or leaves less work on the same plan, whatever the
\* profile, the topics and the number of answers it wants; but for an interview a
\* user has to end, and a topic that is never seen to be answered.
THEOREM GuidanceMovesOn ==
  Spec => [][Follow /\ ~OpenEnded /\ ~Unanswerable => Nearer]_vars
<1> DEFINE Measured == Stage \in Nat /\ WorkLeft \in Nat
<1>1. MeasureInv => Measured
  BY MeasureTypes
<1>2. MeasureInv /\ Measured /\ Measured'
        => (Follow /\ ~OpenEnded /\ ~Unanswerable => Nearer)
  BY FollowNearer, NearerBy
<1> HIDE DEF Measured
<1>. QED
  BY <1>1, <1>2, MeasureInductive, PTL DEF Spec

\* A shaped workshop is the next thing the guidance turns to, and what it then
\* asks for is its plan: no other suggestion comes between.
THEOREM ShapedIsPlannedNext ==
  Spec => [][Waiting /\ focus = 0 /\ Follow => ~Waiting']_vars
<1>1. MeasureInv => (Waiting /\ focus = 0 /\ Follow => ~Waiting')
  <2> SUFFICES ASSUME MeasureInv, Waiting, focus = 0, Follow PROVE ~Waiting'
    OBVIOUS
  <2>1. /\ workshop \in Workshop /\ workshop # Nil /\ workshop.status = "shaped"
        /\ ~workshop.linked /\ Shapely(workshop) /\ initialized
    BY DEF MeasureInv, GuidanceInv, TypeOK, ShapedIsShapely, WorkshopInProject, Waiting
  <2>2. WorkshopItem(workshop) = Say("create_plan_from_workshop")
    BY <2>1 DEF WorkshopItem, Shapely, Interviewing, AwaitsPlan
  <2>3. Say("create_plan_from_workshop").name = "create_plan_from_workshop"
    BY DEF Say, Item
  <2>4. WorkshopItem(workshop) # Nil
    BY <2>2, NilIsNoItem DEF WorkshopNames
  <2>5. NextItem = WorkshopItem(workshop)
    BY <2>1, <2>4 DEF NextItem
  <2>6. NextItem.name = "create_plan_from_workshop"
    BY <2>2, <2>3, <2>5
  <2>7. CASE PlanTheWorkshop
    <3>1. workshop' = [workshop EXCEPT !.linked = TRUE, !.status = "planned"]
      BY <2>7 DEF PlanTheWorkshop, CreatePlanFromWorkshop
    <3>2. workshop'.linked = TRUE
      BY <2>1, <3>1 DEF Workshop
    <3>. QED
      BY <3>2 DEF Waiting
  <2>8. ~(\/ SpecifyPlan \/ InitProject \/ AnswerWorkshopQuestion \/ AskWorkshopQuestion
          \/ AddConcreteExample \/ MarkWorkshopShaped \/ CreateFirstPlan \/ FillComponent
          \/ AnswerRequiredQuestion \/ AskPlanQuestion \/ FixValidation \/ MarkDone)
    BY <2>6 DEF Told, SpecifyPlan, InitProject, AnswerWorkshopQuestion, AskWorkshopQuestion,
       AddConcreteExample, MarkWorkshopShaped, CreateFirstPlan, FillComponent,
       AnswerRequiredQuestion, AskPlanQuestion, FixValidation, MarkDone
  <2>. QED
    BY <2>7, <2>8 DEF Follow
<1>. QED
  BY <1>1, MeasureInductive, PTL DEF Spec

=============================================================================
