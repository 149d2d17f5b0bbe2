----------------------------- MODULE MCLocation -----------------------------
(* Small instances of Location: ../ledger and one other root. *)
EXTENDS Location

TwoRoots == {"near", "far"}
=============================================================================
