----------------------------- MODULE MCAllocation -----------------------------
(* An instance of Allocation. *)
EXTENDS Allocation, TLC

\* A migration brought workshop-0001 and retired plan-0001.
ImportedWorkshop == [k \in Kinds |-> IF k = "plan" THEN {} ELSE {1}]
RetiredPlan      == [k \in Kinds |-> IF k = "plan" THEN {1} ELSE {}]

\* Room for three plans beside the workshop.
ThreePlans == [k \in Kinds |-> IF k = "plan" THEN 4 ELSE 1]

Alike == Permutations(Procs)

=============================================================================
