------------------------------ MODULE MCWorkshop ------------------------------
(* A small instance of Workshop. *)
EXTENDS Workshop

\* examples and open_questions: the validator looks for different lines.
ExamplesAndQuestions == {30, 50}

\* An example with its steps, which is as good an answer to a question, and an
\* open question, which is no example.
Good == <<"block">>
Bad  == <<"ask">>
GoodAndBad == {Good, Bad}

\* One user who edits, forced or not, changes the status, reworks a workshop
\* with one bundle, and makes plans from it.
UserCommands ==
  {Build, Cancel} \cup PlanCommands
  \cup {c \in StatusCommands : c.status \in {"exploring", "shaped"} /\ ~c.force}
  \cup {Mutate([c \in {50} |-> Bad], FALSE, Nil, force, TRUE) : force \in BOOLEAN}
  \cup {Mutate([c \in Components |-> text], FALSE, "exploring", TRUE, TRUE) :
          text \in GoodAndBad}
=============================================================================
