SPECIFICATION FairSpec
CONSTANTS
    u1 = u1
    pay1 = pay1
    pay2 = pay2
    rfnd1 = rfnd1
    rfnd2 = rfnd2
    Users = {u1}
    Payments = {pay1, pay2}
    Refunds = {rfnd1, rfnd2}
    Payer <- MCPayer
    Paid <- MCPaid
    RefundOf <- MCRefundOf
    Returned <- MCReturned
    Tasks = {t1, t2}
    MaxCrashes = 1
INVARIANTS
    MovedOnce
    LedgerSound
PROPERTIES
    EventsTakeEffect
