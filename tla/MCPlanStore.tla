----------------------------- MODULE MCPlanStore -----------------------------
(* Small instances of PlanStore. *)
EXTENDS PlanStore, TLC

\* open_questions and todo_items: the validators look for different lines.
QuestionsAndTodos == {30, 60}
TodosOnly         == {60}

\* A good text (evidence, and an answered question for the profile) and a
\* draft with a placeholder.
Good   == <<"fact", "answered">>
Draft  == <<"tbd">>
GoodAndDraft == {Good, Draft}
GoodOnly     == {Good}

\* Everything a single user can type.
EveryCommand == AllCommands

\* A single user who sets one component at a time, changes the status, or
\* reworks a plan and edits two components in one bundle.
CrashCommands ==
  {Build} \cup {c \in StatusCommands : c.status \in {"done", "cancelled"}}
  \cup {Edit(60, text, FALSE, FALSE) : text \in GoodAndDraft}
  \cup {Bundle([k \in QuestionsAndTodos |-> Draft], "rework", FALSE)}

\* Two users: a cancellation, and a forced bundle that edits and reopens.
RaceCommands ==
  {ChangeStatus("cancelled"), Bundle([k \in Components |-> Good], "in_progress", TRUE)}

Writers == Permutations(Procs)
=============================================================================
