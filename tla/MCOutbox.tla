------------------------------ MODULE MCOutbox ------------------------------
(***************************************************************************)
(* Outbox with small sets of calls and documents.                          *)
(***************************************************************************)
EXTENDS Outbox, TLC

Symmetry == Permutations(Calls) \cup Permutations(Docs)

\* A bound: a crash or a flush, not both in one behaviour.
OneFault == crashes + flushes <= 1
=============================================================================
