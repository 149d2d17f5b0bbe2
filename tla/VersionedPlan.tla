---------------------------- MODULE VersionedPlan ----------------------------
(***************************************************************************)
(* What planledger promises of one plan, without files or processes: a log *)
(* of versions that only grows.  Each version holds the plan's status and  *)
(* all its texts; it differs from the one before, its status may follow    *)
(* the one before, and a version that says done is ready for handoff.      *)
(***************************************************************************)
EXTENDS Integers, Sequences

CONSTANTS
  Components,   \* the components of a plan
  Texts,        \* the texts a component may hold
  Ready(_)      \* the texts of a plan that pass every done guardrail

VARIABLE log    \* log[v] is version v

Statuses == {"new", "in_progress", "rework", "done", "cancelled"}
Version  == [status : Statuses, contents : [Components -> Texts]]

\* A cancelled plan stays cancelled, a done plan can only be reworked, and no
\* plan becomes new again.
MayFollow(next, current) ==
  \/ next = current
  \/ /\ current # "cancelled" /\ next # "new"
     /\ current = "done" => next = "rework"

Sound(version) ==
  version \in Version /\ (version.status = "done" => Ready(version.contents))

Init == Len(log) = 1 /\ Sound(log[1])

Commit ==
  LET old == log[Len(log)]
      new == log'[Len(log')]
  IN  /\ log' = Append(log, new)
      /\ Sound(new)
      /\ new # old
      /\ MayFollow(new.status, old.status)

Spec == Init /\ [][Commit]_log
=============================================================================
