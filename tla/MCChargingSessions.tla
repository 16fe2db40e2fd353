------------------------- MODULE MCChargingSessions -------------------------
(* Small instances of ChargingSessions for TLC. *)
EXTENDS ChargingSessions, TLC

\* Every plug draws the same current.
MCPlugCap == [p \in Plugs |-> 1]

\* Plugs are interchangeable within the circuit, and outside of it.
Symmetry ==
    Permutations(Users) \cup Permutations(Sessions)
        \cup Permutations(Circuit) \cup Permutations(Plugs \ Circuit)
=============================================================================
