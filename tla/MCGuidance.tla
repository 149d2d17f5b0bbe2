----------------------------- MODULE MCGuidance -----------------------------
(* A small instance of Guidance. *)
EXTENDS Guidance

\* Risks is read back as risks, which nobody configured.
TopicNames == {"scope", "Risks", "risks"}
LowerCase  == [t \in TopicNames |-> IF t = "Risks" THEN "risks" ELSE t]

Raw(activation, topics, max, min) ==
  [enabled |-> TRUE, activation |-> activation, phrases |-> {"shape"},
   topics |-> topics, max |-> max, min |-> min]

\* No profile, an interview with topics, one without that starts on a trigger
\* phrase and wants two answers, and one with a topic that is not a tag.
Tables ==
  {Nil, Raw("always", <<"scope">>, Invalid, -1), Raw("triggered", <<>>, 1, 2),
   Raw(Invalid, <<"Risks">>, 0, 0)}
=============================================================================
