------------------------------ MODULE Invoices ------------------------------
(***************************************************************************)
(* GST invoices (services/invoices.py) composed with the tenant's payouts  *)
(* and disputes: an invoice is issued on the first request for it, takes   *)
(* its number from a counter in the tenant row under that row's lock, and  *)
(* is reduced by the disputes approved after it was issued, in the         *)
(* transaction that approves them.                                         *)
(***************************************************************************)
EXTENDS Payouts

CONSTANTS
    Issuers,     \* concurrent GET /api/sessions/{id}/invoice requests
    NoSession    \* an idle issuer

ASSUME InvoicesAssumption == NoSession \notin Sessions

VARIABLES
    seq,      \* Tenant.next_invoice_seq
    invoice,  \* each session's invoice: number (0 without one), amount, and
              \* what had been refunded when it was issued
    issuer    \* each request: its session, its step and the number it read

ivars == <<seq, invoice, issuer>>

Idle == [session |-> NoSession, at |-> "idle", number |-> 0]
NoInvoice == [number |-> 0, amount |-> 0, refunded |-> 0]
Invoiced(s) == invoice[s].number # 0

InvoicesInit ==
    /\ Init
    /\ seq = 1
    /\ invoice = [s \in Sessions |-> NoInvoice]
    /\ issuer = [i \in Issuers |-> Idle]

TenantFree == \A i \in Issuers : issuer[i].at # "locked"

\* issue_invoice_for_session, the pre-check: no invoice yet, the session is
\* finished and cost something.
IssueCheck(i, s) ==
    /\ issuer[i] = Idle
    /\ ~Invoiced(s)
    /\ s \in finished /\ Cost[s] > 0
    /\ issuer' = [issuer EXCEPT ![i] = [session |-> s, at |-> "checked", number |-> 0]]
    /\ UNCHANGED <<vars, seq, invoice>>

\* Mutant: the counter is read without FOR UPDATE.
IssueReadUnlocked(i) ==
    /\ issuer[i].at = "checked"
    /\ issuer' = [issuer EXCEPT ![i].at = "locked", ![i].number = seq]
    /\ UNCHANGED <<vars, seq, invoice>>

\* SELECT next_invoice_seq ... FOR UPDATE of the tenant row.
IssueLock(i) ==
    /\ issuer[i].at = "checked"
    /\ TenantFree /\ LockTenant
    /\ issuer' = [issuer EXCEPT ![i].at = "locked", ![i].number = seq]
    /\ UNCHANGED <<vars, seq, invoice>>

\* Mutant: a finished request still carries its session.
IssueCommitKeeping(i) ==
    LET s == issuer[i].session IN
    /\ issuer[i].at = "locked"
    /\ issuer' = [issuer EXCEPT ![i].at = "idle"]
    /\ IF Invoiced(s) THEN UNCHANGED <<seq, invoice>>
       ELSE /\ seq' = seq + 1
            /\ invoice' = [invoice EXCEPT ![s] =
                 [number |-> issuer[i].number, amount |-> Cost[s], refunded |-> RefundedOf(s)]]
    /\ UNCHANGED vars

\* The counter and the row commit together; when another request has invoiced
\* the session meanwhile, its UNIQUE session_id rolls both back.
IssueCommit(i) ==
    LET s == issuer[i].session IN
    /\ issuer[i].at = "locked"
    /\ issuer' = [issuer EXCEPT ![i] = Idle]
    /\ IF Invoiced(s) THEN UNCHANGED <<seq, invoice>>
       ELSE /\ seq' = seq + 1
            /\ invoice' = [invoice EXCEPT ![s] =
                 [number |-> issuer[i].number, amount |-> Cost[s], refunded |-> RefundedOf(s)]]
    /\ UNCHANGED vars

\* Mutant: an invoice is reduced by the last refund alone.
AdjustInvoiceByLast(s, c) ==
    invoice' = [invoice EXCEPT ![s].amount = IF Invoiced(s) THEN AtLeastZero(Cost[s] - c) ELSE @]

\* adjust_invoice_for_session_refund: derived from the session's cost and all
\* of its approved refunds, this one of c coins included; nothing without an
\* invoice.
AdjustInvoice(s, c) ==
    invoice' = [invoice EXCEPT ![s].amount =
                    IF Invoiced(s) THEN AtLeastZero(Cost[s] - RefundedOf(s) - c) ELSE @]

\* The transactions that lock the tenant row wait for an issuer that holds it.
TenantStep ==
    /\ TenantFree
    /\ \/ /\ RequestPayout \/ \E s \in Sessions : RejectDispute(s)
                           \/ \E t \in Topups : TopupLock(t)
          /\ UNCHANGED invoice
       \/ \E s \in Sessions, c \in RefundCoins : ApproveDispute(s, c) /\ AdjustInvoice(s, c)
    /\ UNCHANGED <<seq, issuer>>

OtherStep ==
    /\ \/ \E s \in Sessions : Finish(s) \/ FileDispute(s)
       \/ \E i \in Ids : MarkPaid(i) \/ CancelPayout(i)
       \/ \E t \in Topups : TopupBegin(t) \/ TopupReread(t) \/ TopupIssue(t)
    /\ UNCHANGED ivars

InvoicesNext ==
    \/ TenantStep
    \/ OtherStep
    \/ \E i \in Issuers : (\E s \in Sessions : IssueCheck(i, s)) \/ IssueLock(i) \/ IssueCommit(i)

InvoicesSpec == InvoicesInit /\ [][InvoicesNext]_<<vars, ivars>>
-----------------------------------------------------------------------------
(* Properties. *)

\* The counter is positive, and a request carries a session exactly while it
\* is under way.
InvoicesTypeOK ==
    /\ seq \in Nat \ {0}
    /\ invoice \in [Sessions -> [number : Nat, amount : Nat, refunded : Nat]]
    /\ \A i \in Issuers :
        /\ issuer[i].at \in {"idle", "checked", "locked"} /\ issuer[i].number \in Nat
        /\ issuer[i].session \in (IF issuer[i].at = "idle" THEN {NoSession} ELSE Sessions)

\* The session that has number n, if one has.
Numbered(n) ==
    IF \E s \in Sessions : invoice[s].number = n
    THEN CHOOSE s \in Sessions : invoice[s].number = n ELSE NoSession

Register == INSTANCE InvoiceRegister WITH
    register <- [n \in 1 .. Cardinality({s \in Sessions : Invoiced(s)}) |-> Numbered(n)]

\* Concurrent first requests implement the tenant's register: one invoice per
\* session, numbers without gap or repetition, nothing renumbered, and no
\* number burnt by a request that lost the race.
RegisterSpec == Register!Spec

\* An invoice states what the operator kept: the session's cost less all of
\* its approved refunds, unless every one of them preceded the invoice ("out
\* of scope" for the code, which then states the full cost).
InvoiceStatesRetained ==
    \A s \in Sessions : Invoiced(s) =>
        invoice[s].amount = IF RefundedOf(s) = invoice[s].refunded THEN Cost[s]
                            ELSE Cost[s] - RefundedOf(s)

\* Disputes and invoices of one session agree with its cost, whichever of them
\* commits first (adjust_invoice_for_session_refund).
InvoicesConsistent ==
    TypeOK /\ InvoicesTypeOK /\ RefundsWithinCost /\ InvoiceStatesRetained
=============================================================================
