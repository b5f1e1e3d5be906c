---------------------------- MODULE MC_Payments ----------------------------
(***************************************************************************)
(* Payments for TLC: the model values that are interchangeable.            *)
(***************************************************************************)
EXTENDS Payments, TLC

\* Payment ids, event ids and request slots are interchangeable.
Symmetry ==
    Permutations(PaymentIds) \cup Permutations(Events) \cup Permutations(Requests)

=============================================================================
