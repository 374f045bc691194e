--------------------------- MODULE MCOutboxRelay ---------------------------
(* Small instances of OutboxRelay for TLC. *)
EXTENDS OutboxRelay, TLC

MCEntries == {1, 2}

\* The code, and the code with a ClaimBatch that reads released rows.
AsIs == {[hasDLQ |-> TRUE, scanNull |-> FALSE]}
Repaired == [hasDLQ : BOOLEAN, scanNull : {TRUE}]
MCSetups == AsIs \cup Repaired

\* Without a DLQ store.
NoDLQ == {[hasDLQ |-> FALSE, scanNull |-> TRUE]}
WithDLQ == {[hasDLQ |-> TRUE, scanNull |-> TRUE]}

Symmetry == Permutations(Workers)

=============================================================================
