----------------------------- MODULE MCMigration -----------------------------
EXTENDS Migration

TreeOf(schema, counter, records, tombs) ==
  [schema |-> schema, counter |-> counter, records |-> records, tombs |-> tombs,
   receipts |-> {}]

LegacyOf(sources, uuid) ==
  [canonical |-> FALSE, sources |-> sources, uuid |-> uuid,
   tree |-> TreeOf(3, 3, {1}, {})]

CanonicalOf(tree) == [canonical |-> TRUE, sources |-> 1, uuid |-> TRUE, tree |-> tree]

\* Plan 2 was numbered and is gone; in the last, it has its tombstone already.
EveryLayout ==
  {LegacyOf(1, TRUE), LegacyOf(1, FALSE), LegacyOf(2, TRUE),
   CanonicalOf(TreeOf(3, 3, {1}, {})), CanonicalOf(TreeOf(4, 0, {1}, {2}))}

OneSource == {LegacyOf(1, TRUE)}
=============================================================================
