--------------------------- MODULE InvoiceRegister ---------------------------
(***************************************************************************)
(* What the invoice numbering of one tenant promises: a register in which  *)
(* a billed session is entered at most once, at the next number.  Nothing  *)
(* is ever removed, renumbered or skipped.                                 *)
(***************************************************************************)
EXTENDS Sequences, Naturals

CONSTANT Sessions   \* the tenant's charging sessions

VARIABLE register   \* the session of each invoice number, from 1

Init == register = <<>>

Issue(s) ==
    /\ \A n \in DOMAIN register : register[n] # s
    /\ register' = Append(register, s)

Next == \E s \in Sessions : Issue(s)

Spec == Init /\ [][Next]_register
==============================================================================
