----------------------------- MODULE MCInvoices -----------------------------
(* Sessions of 10 coins and a fee of 10%: a session nets 9, a top-up takes 6. *)
EXTENDS Invoices, TLC

MCCost   == [s \in Sessions |-> 10]
MCAmount == [t \in Topups |-> 6]

\* Sessions cost the same, top-ups are of one amount, and issuers are alike.
Symmetry == Permutations(Sessions) \cup Permutations(Issuers) \cup Permutations(Topups)
=============================================================================
