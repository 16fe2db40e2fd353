----------------------------- MODULE MCPayments -----------------------------
(* One driver, one payment of 2 coins and two partial refunds of it, or two *)
(* payments; see the configurations.                                        *)
EXTENDS Payments

CONSTANTS u1, pay1, pay2, rfnd1, rfnd2

MCPayer    == [p \in Payments |-> u1]
MCPaid     == [p \in Payments |-> 2]
MCRefundOf == [r \in Refunds |-> pay1]
MCReturned == [r \in Refunds |-> 1]

=============================================================================
