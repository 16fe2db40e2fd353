----------------------------- MODULE MCAccounts -----------------------------
(* Accounts on a small instance. *)
EXTENDS Accounts, TLC

CONSTANTS w1, w2, p1, p2

MCAdminRequests ==
    {[role |-> "cpo", disabled |-> "keep"], [role |-> "driver", disabled |-> "keep"],
     [role |-> "keep", disabled |-> "yes"], [role |-> "keep", disabled |-> "no"]}

Symmetry == Permutations({w1, w2}) \cup Permutations({p1, p2})

=============================================================================
