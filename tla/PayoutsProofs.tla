---------------------------- MODULE PayoutsProofs ----------------------------
(***************************************************************************)
(* Payouts for every tenant, clock, fee and overlap of requests: also when *)
(* a top-up is overtaken by a payout or a cancellation commits between two *)
(* of its reads.  Then Invoices, for every set of sessions, concurrent     *)
(* requests and disputes.                                                  *)
(*                                                                         *)
(* Cancelling the pending payout moves the watermark back.  That it moves  *)
(* back to the start of the cancelled window, so that the next payout      *)
(* covers the window again, needs all of Core at once: the pending payout  *)
(* is the newest live one, and its window started at the watermark of the  *)
(* ones before.  Stamped adds what closes a window: stamps lie in the      *)
(* past, and a top-up that holds the tenant row has read a watermark that  *)
(* no live window is beyond.  From these a payout foots for good, and the  *)
(* windows, with what is covered in each, add up to what was drawn.        *)
(*                                                                         *)
(* The composition with invoices implements Payouts, so the theorems about *)
(* payouts hold of it.  Its own part rests on Numbering: the numbers given *)
(* out are 1 to seq - 1, each to one session, and at most one request      *)
(* holds the counter with the number it read still the next one.           *)
(***************************************************************************)
EXTENDS Invoices, SequenceTheorems, SumTheorems

PayoutRows == payouts \in Seq(Payout)

Shape ==
    /\ clock \in Nat \ {0}
    /\ finished \subseteq Sessions /\ settled \in [Sessions -> Nat]
    /\ PayoutRows

\* m is the end of the last live window among the first n payouts, or the epoch.
IsMark(m, n) ==
    /\ m \in Nat
    /\ m = 0 \/ \E k \in 1 .. n : Live(k) /\ m = payouts[k].end
    /\ \A k \in 1 .. n : Live(k) => payouts[k].end <= m

\* WindowsTile with the maximum made explicit.
Tiled ==
    \A i \in Ids : Live(i) =>
        /\ payouts[i].start < payouts[i].end /\ payouts[i].end < clock
        /\ IsMark(payouts[i].start, i - 1)

\* There is a watermark at all.
Marked == \E w \in Nat : w < clock /\ IsMark(w, Len(payouts))

Core == Shape /\ ClaimsAreLive /\ OnePending /\ Tiled /\ Marked

\* The ends of the live windows among the first n payouts, and the epoch
\* (tenant_settlement_watermark).
LiveEnds(n) == {payouts[j].end : j \in {k \in 1 .. n : Live(k)}} \cup {0}

\* The rows are indexed from 1 and are records of natural bounds.
LEMMA RowFacts ==
    ASSUME PayoutRows
    PROVE  /\ Len(payouts) \in Nat /\ Ids = 1 .. Len(payouts)
           /\ \A i \in Ids : /\ payouts[i].status \in Status
                             /\ payouts[i].start \in Nat /\ payouts[i].end \in Nat
                             /\ payouts[i].net \in Nat
  <1>1. Len(payouts) \in Nat /\ Ids = 1 .. Len(payouts)
    BY DEF PayoutRows, Ids
  <1>2. \A i \in Ids : payouts[i] \in Payout
    BY <1>1, ElementOfSeq DEF PayoutRows
  <1>3. QED
    BY <1>1, <1>2 DEF Payout

\* An explicit mark is the maximum that the code's MAX query computes.
LEMMA MarkIsMax ==
    ASSUME PayoutRows, NEW n \in 0 .. Len(payouts), NEW m, IsMark(m, n)
    PROVE  Max(LiveEnds(n)) = m
  <1>1. LiveEnds(n) \subseteq Nat
    BY RowFacts DEF LiveEnds
  <1>2. m \in LiveEnds(n) /\ \A y \in LiveEnds(n) : m >= y
    BY RowFacts DEF IsMark, LiveEnds
  <1>3. \A x \in LiveEnds(n) : (\A y \in LiveEnds(n) : x >= y) => x = m
    BY <1>1, <1>2
  <1>4. QED
    BY <1>2, <1>3 DEF Max

\* tenant_settlement_watermark is the mark of all payouts.
LEMMA WatermarkIsMark ==
    ASSUME PayoutRows, NEW w, IsMark(w, Len(payouts))
    PROVE  Watermark = w
  <1>1. Watermark = Max(LiveEnds(Len(payouts)))
    BY RowFacts DEF Watermark, LiveEnds
  <1>2. QED
    BY <1>1, MarkIsMax, RowFacts

\* At first there are no payouts.
LEMMA InitCore == Init => Core
  <1>1. SUFFICES ASSUME Init PROVE Core
    OBVIOUS
  <1>2. payouts = <<>>
    BY <1>1 DEF Init
  <1>3. PayoutRows
    BY <1>2 DEF PayoutRows
  <1>4. Ids = {} /\ Len(payouts) = 0
    BY <1>2 DEF Ids
  <1>5. Shape
    BY <1>1, <1>3 DEF Init, Shape
  <1>6. ClaimsAreLive /\ OnePending /\ Tiled
    BY <1>1, <1>4 DEF Init, ClaimsAreLive, OnePending, Tiled
  <1>7. Marked
    BY <1>1, <1>4 DEF Init, Marked, IsMark
  <1>8. QED
    BY <1>5, <1>6, <1>7 DEF Core

\* A step that leaves the payouts and the claims alone keeps the invariant.
LEMMA QuietStep ==
    ASSUME Core, UNCHANGED <<settled, payouts>>, clock' \in Nat, clock' >= clock,
           finished \subseteq finished', finished' \subseteq Sessions
    PROVE  Core'
  <1>0. PayoutRows'
    BY DEF Core, Shape, PayoutRows
  <1>1. Shape'
    BY <1>0 DEF Core, Shape
  <1>2. ClaimsAreLive' /\ OnePending'
    BY DEF Core, ClaimsAreLive, OnePending, Ids, Live
  <1>3. Tiled'
    BY RowFacts DEF Core, Shape, Tiled, IsMark, Ids, Live
  <1>4. Marked'
    BY DEF Core, Shape, Marked, IsMark, Live
  <1>5. QED
    BY <1>1, <1>2, <1>3, <1>4 DEF Core

\* cpo_request_payout: the new window starts at the watermark and ends now.
LEMMA RequestStep == ASSUME Core, Payable \in Nat, RequestPayout PROVE Core'
  <1>1. PICK w \in Nat : w < clock /\ IsMark(w, Len(payouts))
    BY DEF Core, Marked
  <1>2. Watermark = w
    BY <1>1, WatermarkIsMark DEF Core, Shape
  <1>n. PICK n : n = Len(payouts) + 1
    OBVIOUS
  <1>4. NewPayout \in Payout /\ NewPayout.status = "REQUESTED"
        /\ NewPayout.start = w /\ NewPayout.end = clock
    BY <1>1, <1>2 DEF NewPayout, Payout, Status, Core, Shape
  <1>5. payouts \in Seq(Payout)
    BY DEF Core, Shape, PayoutRows
  <1>6. payouts' = Append(payouts, NewPayout) /\ clock' = clock + 1
        /\ settled' = [s \in Sessions |-> IF s \in Unsettled THEN n ELSE settled[s]]
        /\ UNCHANGED finished
        /\ \A i \in Ids : payouts[i].status # "REQUESTED"
    BY <1>n DEF RequestPayout, Tick
  <1>7. payouts' \in Seq(Payout) /\ Len(payouts') = n /\ payouts'[n] = NewPayout
        /\ \A i \in 1 .. Len(payouts) : payouts'[i] = payouts[i]
    BY <1>n, <1>4, <1>5, <1>6, AppendProperties
  <1>8. Len(payouts) \in Nat /\ Ids = 1 .. Len(payouts) /\ Ids' = 1 .. n
        /\ \A i \in Ids : payouts[i].end \in Nat
    BY <1>n, <1>7, RowFacts DEF Core, Shape, Ids
  <1>9. PayoutRows'
    BY <1>7 DEF PayoutRows
  <1>10. Live(n)' /\ \A i \in Ids : Live(i)' = Live(i)
    BY <1>n, <1>4, <1>7, <1>8 DEF Live
  <1>11. Shape'
    BY <1>n, <1>6, <1>8, <1>9 DEF Core, Shape
  <1>12. ClaimsAreLive'
    BY <1>n, <1>6, <1>8, <1>10 DEF Core, Shape, ClaimsAreLive, Unsettled
  <1>13. OnePending'
    BY <1>n, <1>6, <1>7, <1>8, <1>10 DEF Core, OnePending
  <1>14. Tiled'
    <2>1. ASSUME NEW i \in Ids, Live(i)
          PROVE  /\ payouts'[i].start < payouts'[i].end /\ payouts'[i].end < clock'
                 /\ IsMark(payouts[i].start, i - 1)'
      <3>1. PICK m : m = payouts[i].start
        OBVIOUS
      <3>2. i \in 1 .. Len(payouts) /\ m < payouts[i].end /\ payouts[i].end < clock
            /\ IsMark(m, i - 1)
        BY <1>8, <2>1, <3>1 DEF Core, Tiled
      <3>3. IsMark(m, i - 1)'
        BY <1>7, <1>8, <1>10, <3>2 DEF IsMark
      <3>4. QED
        BY <1>6, <1>7, <1>8, <3>1, <3>2, <3>3 DEF Core, Shape
    <2>2. /\ payouts'[n].start < payouts'[n].end /\ payouts'[n].end < clock'
          /\ payouts'[n].start = w /\ IsMark(w, n - 1)'
      BY <1>n, <1>1, <1>4, <1>6, <1>7, <1>8, <1>10 DEF Core, Shape, IsMark
    <2>3. QED
      BY <1>n, <1>7, <1>8, <1>10, <2>1, <2>2 DEF Tiled
  <1>15. Marked'
    <2>1. PICK c : c = clock
      OBVIOUS
    <2>2. c \in Nat /\ c < clock' /\ IsMark(c, n)'
      BY <1>n, <1>1, <1>4, <1>6, <1>7, <1>8, <1>10, <2>1 DEF Core, Shape, IsMark
    <2>3. QED
      BY <1>7, <2>2 DEF Marked
  <1>16. QED
    BY <1>11, <1>12, <1>13, <1>14, <1>15 DEF Core

\* Row i has a new status; the rows, their number and their windows are kept.
NewStatus(i, st) ==
    /\ PayoutRows' /\ Len(payouts') = Len(payouts) /\ Ids' = Ids
    /\ payouts'[i].status = st
    /\ \A j \in Ids : /\ payouts'[j].start = payouts[j].start
                      /\ payouts'[j].end = payouts[j].end
                      /\ payouts'[j].net = payouts[j].net
                      /\ j # i => payouts'[j] = payouts[j]

\* A change of status keeps the rows, their number and their windows.
LEMMA StatusFrame ==
    ASSUME PayoutRows, NEW i \in Ids, NEW st \in Status,
           payouts' = [payouts EXCEPT ![i].status = st]
    PROVE  NewStatus(i, st)
  <1> DEFINE row == [payouts[i] EXCEPT !.status = st]
  <1>1. payouts \in Seq(Payout)
    BY DEF PayoutRows
  <1>2. Ids = 1 .. Len(payouts) /\ Len(payouts) \in Nat
    BY RowFacts
  <1>3. \A j \in Ids : payouts[j] \in Payout
    BY <1>1, <1>2, ElementOfSeq
  <1>4. row \in Payout /\ row.start = payouts[i].start /\ row.end = payouts[i].end
        /\ row.net = payouts[i].net /\ row.status = st
    BY <1>3 DEF Payout
  <1>5. payouts' = [payouts EXCEPT ![i] = row]
    OBVIOUS
  <1> HIDE DEF row
  <1>6. payouts' \in Seq(Payout) /\ Len(payouts') = Len(payouts)
    BY <1>1, <1>2, <1>4, <1>5, ExceptSeq
  <1>7. PayoutRows' /\ Ids' = Ids
    BY <1>2, <1>6 DEF PayoutRows, Ids
  <1>8. payouts'[i] = row /\ \A j \in Ids : j # i => payouts'[j] = payouts[j]
    BY <1>5 DEF Ids
  <1>9. QED
    BY <1>4, <1>6, <1>7, <1>8 DEF NewStatus

LEMMA PaidFrame == ASSUME PayoutRows, NEW i \in Ids, MarkPaid(i) PROVE NewStatus(i, "PAID")
  BY StatusFrame DEF MarkPaid, Status

LEMMA CancelFrame ==
    ASSUME PayoutRows, NEW i \in Ids, CancelPayout(i) PROVE NewStatus(i, "CANCELLED")
  BY StatusFrame DEF CancelPayout, Status

\* cpo_mark_payout_paid: PAID is as live as REQUESTED.
LEMMA PaidStep == ASSUME Core, NEW i \in Ids, MarkPaid(i) PROVE Core'
  <1>1. payouts' = [payouts EXCEPT ![i].status = "PAID"] /\ payouts[i].status = "REQUESTED"
        /\ UNCHANGED <<clock, finished, settled>>
    BY DEF MarkPaid
  <1>2. NewStatus(i, "PAID")
    BY PaidFrame DEF Core, Shape
  <1>3. PayoutRows' /\ Len(payouts') = Len(payouts) /\ Ids' = Ids
        /\ payouts'[i].status = "PAID"
        /\ \A j \in Ids : /\ payouts'[j].start = payouts[j].start
                          /\ payouts'[j].end = payouts[j].end
                          /\ j # i => payouts'[j] = payouts[j]
    BY <1>2 DEF NewStatus
  <1>4. Ids = 1 .. Len(payouts) /\ Len(payouts) \in Nat
    BY RowFacts DEF Core, Shape
  <1>5. \A j \in Ids : Live(j)' = Live(j)
    BY <1>1, <1>3 DEF Live
  <1>6. Shape'
    BY <1>1, <1>3 DEF Core, Shape
  <1>7. ClaimsAreLive'
    BY <1>1, <1>3, <1>5 DEF Core, ClaimsAreLive
  <1>8. OnePending'
    BY <1>1, <1>3, <1>5 DEF Core, OnePending
  <1>9. Tiled'
    BY <1>1, <1>3, <1>4, <1>5 DEF Core, Tiled, IsMark
  <1>10. Marked'
    BY <1>1, <1>3, <1>4, <1>5 DEF Core, Marked, IsMark
  <1>11. QED
    BY <1>6, <1>7, <1>8, <1>9, <1>10 DEF Core

\* cpo_cancel_payout: the pending payout is the newest live one, and the
\* watermark falls back to where its window began.
LEMMA CancelStep == ASSUME Core, NEW i \in Ids, CancelPayout(i) PROVE Core'
  <1>1. payouts' = [payouts EXCEPT ![i].status = "CANCELLED"] /\ payouts[i].status = "REQUESTED"
        /\ settled' = [s \in Sessions |-> IF settled[s] = i THEN 0 ELSE settled[s]]
        /\ UNCHANGED <<clock, finished>>
    BY DEF CancelPayout
  <1>2. NewStatus(i, "CANCELLED")
    BY CancelFrame DEF Core, Shape
  <1>3. PayoutRows' /\ Len(payouts') = Len(payouts) /\ Ids' = Ids
        /\ payouts'[i].status = "CANCELLED"
        /\ \A j \in Ids : /\ payouts'[j].start = payouts[j].start
                          /\ payouts'[j].end = payouts[j].end
                          /\ j # i => payouts'[j] = payouts[j]
    BY <1>2 DEF NewStatus
  <1>4. Ids = 1 .. Len(payouts) /\ Len(payouts) \in Nat
        /\ \A j \in Ids : payouts[j].start \in Nat /\ payouts[j].end \in Nat
    BY RowFacts DEF Core, Shape
  <1>5. Live(i) /\ ~Live(i)' /\ \A j \in Ids : j # i => Live(j)' = Live(j)
    BY <1>1, <1>3 DEF Live
  <1>6. \A j \in Ids : j > i => ~Live(j)
    BY <1>1, <1>4 DEF Core, OnePending
  <1>7. Shape'
    BY <1>1, <1>3 DEF Core, Shape
  <1>8. ClaimsAreLive'
    BY <1>1, <1>3, <1>5 DEF Core, Shape, ClaimsAreLive
  <1>9. OnePending'
    BY <1>1, <1>3, <1>5 DEF Core, OnePending
  <1>10. Tiled'
    BY <1>1, <1>3, <1>4, <1>5, <1>6 DEF Core, Shape, Tiled, IsMark
  <1>11. Marked'
    <2>1. PICK m : m = payouts[i].start
      OBVIOUS
    <2>2. m \in Nat /\ m < clock /\ IsMark(m, i - 1)
      BY <1>4, <1>5, <2>1 DEF Core, Shape, Tiled
    <2>3. IsMark(m, Len(payouts))'
      <3>1. \A k \in Ids : Live(k)' => k \in 1 .. i - 1 /\ Live(k)
        BY <1>4, <1>5, <1>6
      <3>2. \A k \in Ids : Live(k)' => payouts'[k].end <= m
        BY <1>3, <2>2, <3>1 DEF IsMark
      <3>3. m = 0 \/ \E k \in Ids : Live(k)' /\ m = payouts'[k].end
        BY <1>3, <1>4, <1>5, <2>2 DEF IsMark
      <3>4. QED
        BY <1>3, <1>4, <2>2, <3>2, <3>3 DEF IsMark
    <2>4. QED
      BY <1>1, <2>2, <2>3 DEF Marked
  <1>12. QED
    BY <1>7, <1>8, <1>9, <1>10, <1>11 DEF Core
-----------------------------------------------------------------------------
(* Amounts *)

\* Refunds granted are a number of coins.
LEMMA CoinsNat ==
    ASSUME NEW D, IsFiniteSet(D), \A r \in D : r.coins \in Nat
    PROVE  Coins(D) \in Nat
<1> DEFINE f == [r \in D |-> r.coins]
<1>1. Coins(D) = SumFunctionOnSet(f, D)
  BY DEF Coins, SumFunction
<1>2. \A r \in D : f[r] \in Nat
  OBVIOUS
<1> HIDE DEF f
<1> QED
  BY <1>1, <1>2, SumNat

\* One more refund adds its coins.
LEMMA CoinsAdd ==
    ASSUME NEW D, IsFiniteSet(D), \A r \in D : r.coins \in Nat,
           NEW q, q \notin D, q.coins \in Nat
    PROVE  Coins(D \cup {q}) = Coins(D) + q.coins
<1> DEFINE f == [r \in D |-> r.coins]
           g == [r \in D \cup {q} |-> r.coins]
<1>1. Coins(D) = SumFunctionOnSet(f, D) /\ Coins(D) \in Nat
  BY CoinsNat DEF Coins, SumFunction
<1>2. Coins(D \cup {q}) = SumFunctionOnSet(g, D \cup {q})
  BY DEF Coins, SumFunction
<1>3. g[q] = q.coins /\ g[q] \in Int
  OBVIOUS
<1>4. \A r \in D : g[r] = f[r] /\ g[r] \in Int
  OBVIOUS
<1> HIDE DEF f, g
<1>5. SumFunctionOnSet(g, D \cup {q}) = g[q] + SumFunctionOnSet(g, D)
  BY <1>3, <1>4, SumAdd
<1>6. SumFunctionOnSet(g, D) = SumFunctionOnSet(f, D)
  BY <1>4, SumSame
<1> QED
  BY <1>1, <1>2, <1>3, <1>5, <1>6

\* Top-ups and sessions are worth a number of coins.
LEMMA AmountsNat ==
    ASSUME NEW T \in SUBSET Topups
    PROVE  IsFiniteSet(T) /\ SumFunctionOnSet(Amount, T) \in Nat
<1>1. IsFiniteSet(T) /\ \A t \in T : Amount[t] \in Nat
  BY PayoutsAssumption, FS_Subset
<1> QED
  BY <1>1, SumNat

LEMMA CostsNat ==
    ASSUME NEW S \in SUBSET Sessions
    PROVE  IsFiniteSet(S) /\ SumCost(S) \in Nat
<1>1. IsFiniteSet(S) /\ \A s \in S : Cost[s] \in Nat
  BY PayoutsAssumption, FS_Subset
<1> QED
  BY <1>1, SumNat DEF SumCost

\* compute_fee_and_net: the fee is never negative, and none is taken of nothing.
LEMMA NetBounds ==
    ASSUME NEW g \in Nat
    PROVE  Net(g) \in Int /\ Net(g) <= g /\ Net(0) = 0 /\ Net(-g) <= 0
<1>1. FeePct \in Nat /\ 100 - FeePct \in Nat
  BY PayoutsAssumption
<1> DEFINE a == g * FeePct
           b == g * (100 - FeePct)
<1>2. a \in Nat /\ b \in Nat /\ 0 * FeePct = 0
  BY <1>1
<1>3. (-g) * FeePct = -a /\ a + b = g * 100
  BY <1>1
<1>4. Net(g) = g - (a + 50) \div 100 /\ Net(0) = 0 - (0 + 50) \div 100
  BY <1>2 DEF Net
<1>5. Net(-g) = -g - (-a + 50) \div 100
  BY <1>3 DEF Net
<1> HIDE DEF a, b
<1>6. (a + 50) \div 100 \in Nat /\ (0 + 50) \div 100 = 0
  BY <1>2
<1>7. (-a + 50) \div 100 >= -g /\ (-a + 50) \div 100 \in Int
  BY <1>2, <1>3
<1> QED
  BY <1>4, <1>5, <1>6, <1>7
-----------------------------------------------------------------------------
(* Times: what is stamped is stamped in the past, and a top-up that holds    *)
(* the tenant row has read a watermark that no live window is beyond.        *)

Stamped ==
    /\ open \subseteq Sessions
    /\ refunds \subseteq Refund /\ IsFiniteSet(refunds)
    /\ topup \in [Topups -> TopupState]
    /\ \A r \in refunds : r.at < clock
    /\ \A t \in Topups : topup[t].created < clock /\ topup[t].w1 < clock
    /\ \A t \in Topups : HoldsTenant(t) =>
           \A i \in Ids : Live(i) => payouts[i].end <= topup[t].w1

Inv == Core /\ Stamped

\* The refunds of a period are a number of coins.
LEMMA RefundsNat ==
    ASSUME Stamped, NEW D \in SUBSET refunds
    PROVE  IsFiniteSet(D) /\ Coins(D) \in Nat
<1>1. IsFiniteSet(D) /\ \A r \in D : r.coins \in Nat
  BY FS_Subset DEF Stamped, Refund
<1> QED
  BY <1>1, CoinsNat

\* The figures of a payout request are numbers, and the watermark is in the past.
LEMMA Figures ==
    ASSUME Inv
    PROVE  /\ Watermark \in Nat /\ Watermark < clock /\ IsMark(Watermark, Len(payouts))
           /\ Unsettled \subseteq Sessions /\ SumCost(Unsettled) \in Nat
           /\ \A a, b : RefundsIn(a, b) \in Nat /\ TopupsIn(a, b) \in Nat
           /\ Payable \in Nat
           /\ Payable > 0 =>
                 Payable = Net(SumCost(Unsettled) - RefundsIn(Watermark, clock))
                               - TopupsIn(Watermark, clock)
<1>1. PICK w \in Nat : w < clock /\ IsMark(w, Len(payouts))
  BY DEF Inv, Core, Marked
<1>2. Watermark = w
  BY <1>1, WatermarkIsMark DEF Inv, Core, Shape
<1>3. Unsettled \in SUBSET Sessions
  BY DEF Unsettled, Inv, Core, Shape
<1>4. SumCost(Unsettled) \in Nat
  BY <1>3, CostsNat
<1>5. ASSUME NEW a, NEW b PROVE RefundsIn(a, b) \in Nat /\ TopupsIn(a, b) \in Nat
  <2>1. {r \in refunds : Within(r.at, a, b)} \in SUBSET refunds
        /\ IssuedIn(a, b) \in SUBSET Topups
    BY DEF IssuedIn
  <2> QED
    BY <2>1, RefundsNat, AmountsNat DEF RefundsIn, TopupsIn, Inv
<1> DEFINE x == SumCost(Unsettled) - RefundsIn(Watermark, clock)
           b == TopupsIn(Watermark, clock)
<1>6. x \in Int /\ b \in Nat
  BY <1>4, <1>5
<1>7. Payable = AtLeastZero(Net(AtLeastZero(x)) - b)
  BY DEF Payable
<1> HIDE DEF x, b
<1>8. AtLeastZero(x) \in Nat
  BY <1>6 DEF AtLeastZero
<1>9. Net(AtLeastZero(x)) \in Int /\ Net(0) = 0
  BY <1>8, NetBounds
<1>10. Payable \in Nat /\ (Payable > 0 => Payable = Net(x) - b)
  BY <1>6, <1>7, <1>9 DEF AtLeastZero
<1> QED
  BY <1>1, <1>2, <1>3, <1>4, <1>5, <1>10 DEF x, b

\* The initial state satisfies the invariant.
LEMMA InitInv == Init => Inv
<1> SUFFICES ASSUME Init PROVE Stamped
  BY InitCore DEF Inv
<1>1. refunds = {} /\ open = {} /\ clock = 1
  BY DEF Init
<1>2. \A t \in Topups : topup[t] = [at |-> "new", created |-> 0, w1 |-> 0, w2 |-> 0,
                                     stale |-> FALSE]
  BY DEF Init
<1>3. topup \in [Topups -> TopupState]
  BY DEF Init, TopupState
<1> QED
  BY <1>1, <1>2, <1>3, FS_EmptySet DEF Stamped, HoldsTenant

\* Every step keeps the payouts, the claims and the windows in order.
LEMMA CoreStep == Inv /\ [Next]_vars => Core'
<1> SUFFICES ASSUME Inv, [Next]_vars PROVE Core'
  OBVIOUS
<1>1. Core /\ clock \in Nat /\ finished \subseteq Sessions
  BY DEF Inv, Core, Shape
<1>2. ASSUME NEW s \in Sessions, Finish(s) \/ FileDispute(s) \/ RejectDispute(s) PROVE Core'
  BY <1>1, <1>2, QuietStep DEF Finish, FileDispute, RejectDispute
<1>3. ASSUME NEW s \in Sessions, NEW c \in RefundCoins, ApproveDispute(s, c) PROVE Core'
  BY <1>1, <1>3, QuietStep DEF ApproveDispute, Tick
<1>4. CASE RequestPayout
  BY <1>1, <1>4, RequestStep, Figures
<1>5. ASSUME NEW i \in Ids, MarkPaid(i) \/ CancelPayout(i) PROVE Core'
  BY <1>1, <1>5, PaidStep, CancelStep
<1>6. ASSUME NEW t \in Topups,
             TopupBegin(t) \/ TopupLock(t) \/ TopupReread(t) \/ TopupIssue(t)
      PROVE Core'
  BY <1>1, <1>6, QuietStep DEF TopupBegin, TopupLock, TopupReread, TopupIssue, Tick
<1>7. CASE UNCHANGED vars
  BY <1>1, <1>7, QuietStep DEF vars
<1> QED
  BY <1>2, <1>3, <1>4, <1>5, <1>6, <1>7 DEF Next

\* A top-up step keeps every request but its own, whose record stays typed.
LEMMA TopupRecord ==
    ASSUME Inv, NEW t \in Topups, NEW new \in TopupState,
           topup' = [topup EXCEPT ![t] = new], clock' \in Nat, clock' >= clock,
           new.created < clock', new.w1 < clock',
           new.at \in {"locked", "read"} =>
               \A i \in Ids : Live(i) => payouts[i].end <= new.w1,
           UNCHANGED <<open, refunds, payouts>>
    PROVE  Stamped'
<1>1. topup' \in [Topups -> TopupState]
  BY DEF Inv, Stamped
<1>2. \A o \in Topups : topup'[o] = IF o = t THEN new ELSE topup[o]
  BY DEF Inv, Stamped
<1>3. clock \in Nat /\ \A r \in refunds : r.at \in Nat
  BY DEF Inv, Core, Shape, Stamped, Refund
<1>4. \A o \in Topups : topup[o].created \in Nat /\ topup[o].w1 \in Nat
  BY DEF Inv, Stamped, TopupState
<1>5. \A o \in Topups : topup'[o].created < clock' /\ topup'[o].w1 < clock'
  BY <1>2, <1>3, <1>4 DEF Inv, Stamped
<1>6. \A o \in Topups : HoldsTenant(o)' =>
          \A i \in Ids' : Live(i)' => payouts'[i].end <= topup'[o].w1
  BY <1>2 DEF Inv, Stamped, HoldsTenant, Live, Ids
<1>7. open' \subseteq Sessions /\ refunds' \subseteq Refund /\ IsFiniteSet(refunds')
      /\ \A r \in refunds' : r.at < clock'
  BY <1>3 DEF Inv, Stamped
<1> QED
  BY <1>1, <1>5, <1>6, <1>7 DEF Stamped

\* Every step keeps the stamps in order.
LEMMA StampedStep == Inv /\ [Next]_vars => Stamped'
<1> SUFFICES ASSUME Inv, [Next]_vars PROVE Stamped'
  OBVIOUS
<1>1. clock \in Nat /\ finished \subseteq Sessions
  BY DEF Inv, Core, Shape
<1>2. \A r \in refunds : r.at \in Nat
  BY DEF Inv, Stamped, Refund
<1>3. \A t \in Topups : topup[t] \in TopupState /\ topup[t].created \in Nat /\ topup[t].w1 \in Nat
                        /\ topup[t].created < clock /\ topup[t].w1 < clock
  BY DEF Inv, Stamped, TopupState
<1>4. ASSUME NEW s \in Sessions, Finish(s) \/ FileDispute(s) \/ RejectDispute(s)
      PROVE  Stamped'
  BY <1>4 DEF Inv, Stamped, HoldsTenant, Live, Ids, Finish, FileDispute, RejectDispute
<1>5. ASSUME NEW s \in Sessions, NEW c \in RefundCoins, ApproveDispute(s, c)
      PROVE  Stamped'
  <2> DEFINE q == [session |-> s, coins |-> c, at |-> clock]
  <2>1. /\ refunds' = refunds \cup {q} /\ clock' = clock + 1 /\ open' = open \ {s}
        /\ UNCHANGED <<topup, payouts>>
    BY <1>5 DEF ApproveDispute, Tick
  <2>2. q \in Refund /\ q.at = clock
    BY <1>1, PayoutsAssumption DEF Refund
  <2> HIDE DEF q
  <2>3. refunds' \subseteq Refund /\ IsFiniteSet(refunds')
    BY <2>1, <2>2, FS_AddElement DEF Inv, Stamped
  <2>4. \A r \in refunds' : r.at < clock'
    BY <1>1, <1>2, <2>1, <2>2 DEF Inv, Stamped
  <2>5. \A t \in Topups : topup'[t].created < clock' /\ topup'[t].w1 < clock'
    BY <1>1, <1>3, <2>1
  <2> QED
    BY <2>1, <2>3, <2>4, <2>5 DEF Inv, Stamped, HoldsTenant, Live, Ids
<1>6. CASE RequestPayout
  <2>1. /\ clock' = clock + 1 /\ UNCHANGED <<open, refunds, topup>>
        /\ \A t \in Topups : ~HoldsTenant(t)
    BY <1>6 DEF RequestPayout, Tick, LockTenant
  <2>2. \A r \in refunds' : r.at < clock'
    BY <1>1, <1>2, <2>1 DEF Inv, Stamped
  <2>3. \A t \in Topups : topup'[t].created < clock' /\ topup'[t].w1 < clock'
    BY <1>1, <1>3, <2>1
  <2>4. \A t \in Topups : ~HoldsTenant(t)'
    BY <2>1 DEF HoldsTenant
  <2> QED
    BY <2>1, <2>2, <2>3, <2>4 DEF Inv, Stamped
<1>7. ASSUME NEW i \in Ids, NEW st, NewStatus(i, st), Live(i), UNCHANGED <<clock, open, refunds, topup>>
      PROVE  Stamped'
  <2>1. Ids' = Ids /\ \A j \in Ids : payouts'[j].end = payouts[j].end
    BY <1>7 DEF NewStatus
  <2>2. \A j \in Ids : Live(j)' => Live(j)
    BY <1>7 DEF NewStatus, Live
  <2> QED
    BY <1>7, <2>1, <2>2 DEF Inv, Stamped, HoldsTenant
<1>8. ASSUME NEW i \in Ids, MarkPaid(i) \/ CancelPayout(i) PROVE Stamped'
  <2>1. NewStatus(i, "PAID") \/ NewStatus(i, "CANCELLED")
    BY <1>8, PaidFrame, CancelFrame DEF Inv, Core, Shape
  <2>2. Live(i) /\ UNCHANGED <<clock, open, refunds, topup>>
    BY <1>8 DEF MarkPaid, CancelPayout, Live
  <2> QED
    BY <1>7, <2>1, <2>2
<1>9. ASSUME NEW t \in Topups, TopupBegin(t) PROVE Stamped'
  <2> DEFINE new == [topup[t] EXCEPT !.at = "begun", !.created = clock]
  <2>1. topup' = [topup EXCEPT ![t] = new] /\ clock' = clock + 1
        /\ UNCHANGED <<open, refunds, payouts>>
    BY <1>9 DEF TopupBegin, Tick
  <2>2. new \in TopupState /\ new.at = "begun" /\ new.created = clock /\ new.w1 = topup[t].w1
    BY <1>1, <1>3 DEF TopupState
  <2> HIDE DEF new
  <2>4. /\ clock' \in Nat /\ clock' >= clock /\ new.created < clock' /\ new.w1 < clock'
        /\ new.at \in {"locked", "read"} =>
               \A i \in Ids : Live(i) => payouts[i].end <= new.w1
    BY <1>1, <1>3, <2>1, <2>2
  <2>5. new \in TopupState /\ topup' = [topup EXCEPT ![t] = new]
         /\ UNCHANGED <<open, refunds, payouts>>
    BY <2>1, <2>2
  <2> QED
    BY <2>4, <2>5, TopupRecord
<1>10. ASSUME NEW t \in Topups, TopupLock(t) PROVE Stamped'
  <2> DEFINE new == [topup[t] EXCEPT !.at = "locked", !.w1 = Watermark]
  <2>1. topup' = [topup EXCEPT ![t] = new] /\ UNCHANGED <<clock, open, refunds, payouts>>
    BY <1>10 DEF TopupLock
  <2>2. new \in TopupState /\ new.created = topup[t].created /\ new.w1 = Watermark
    BY <1>3, Figures DEF TopupState
  <2>3. \A i \in Ids : Live(i) => payouts[i].end <= Watermark
    BY Figures, RowFacts DEF IsMark, Inv, Core, Shape
  <2> HIDE DEF new
  <2>4. /\ clock' \in Nat /\ clock' >= clock /\ new.created < clock' /\ new.w1 < clock'
        /\ new.at \in {"locked", "read"} =>
               \A i \in Ids : Live(i) => payouts[i].end <= new.w1
    BY <1>1, <1>3, <2>1, <2>2, <2>3, Figures
  <2>5. new \in TopupState /\ topup' = [topup EXCEPT ![t] = new]
         /\ UNCHANGED <<open, refunds, payouts>>
    BY <2>1, <2>2
  <2> QED
    BY <2>4, <2>5, TopupRecord
<1>11. ASSUME NEW t \in Topups, TopupReread(t) PROVE Stamped'
  <2> DEFINE new == [topup[t] EXCEPT !.at = "read", !.w2 = Watermark]
  <2>1. topup' = [topup EXCEPT ![t] = new] /\ UNCHANGED <<clock, open, refunds, payouts>>
        /\ HoldsTenant(t)
    BY <1>11 DEF TopupReread, HoldsTenant
  <2>2. new \in TopupState /\ new.created = topup[t].created /\ new.w1 = topup[t].w1
    BY <1>3, Figures DEF TopupState
  <2>3. \A i \in Ids : Live(i) => payouts[i].end <= topup[t].w1
    BY <2>1 DEF Inv, Stamped
  <2> HIDE DEF new
  <2>4. /\ clock' \in Nat /\ clock' >= clock /\ new.created < clock' /\ new.w1 < clock'
        /\ new.at \in {"locked", "read"} =>
               \A i \in Ids : Live(i) => payouts[i].end <= new.w1
    BY <1>1, <1>3, <2>1, <2>2, <2>3
  <2>5. new \in TopupState /\ topup' = [topup EXCEPT ![t] = new]
         /\ UNCHANGED <<open, refunds, payouts>>
    BY <2>1, <2>2
  <2> QED
    BY <2>4, <2>5, TopupRecord
<1>12. ASSUME NEW t \in Topups, TopupIssue(t) PROVE Stamped'
  <2>1. PICK a \in {"issued", "refused"}, b \in BOOLEAN :
            topup' = [topup EXCEPT ![t] = [[topup[t] EXCEPT !.at = a] EXCEPT !.stale = b]]
    <3>1. (topup[t].w1 # Watermark) \in BOOLEAN
      OBVIOUS
    <3> QED
      BY <1>12, <3>1 DEF TopupIssue
  <2> DEFINE new == [[topup[t] EXCEPT !.at = a] EXCEPT !.stale = b]
  <2>2. topup' = [topup EXCEPT ![t] = new] /\ UNCHANGED <<clock, open, refunds, payouts>>
    BY <1>12, <2>1 DEF TopupIssue
  <2>3. new \in TopupState /\ new.created = topup[t].created /\ new.w1 = topup[t].w1
        /\ new.at \notin {"locked", "read"}
    BY <1>3 DEF TopupState
  <2> HIDE DEF new
  <2>4. /\ clock' \in Nat /\ clock' >= clock /\ new.created < clock' /\ new.w1 < clock'
        /\ new.at \in {"locked", "read"} =>
               \A i \in Ids : Live(i) => payouts[i].end <= new.w1
    BY <1>1, <1>3, <2>2, <2>3
  <2>5. new \in TopupState /\ topup' = [topup EXCEPT ![t] = new]
         /\ UNCHANGED <<open, refunds, payouts>>
    BY <2>2, <2>3
  <2> QED
    BY <2>4, <2>5, TopupRecord
<1>13. CASE UNCHANGED vars
  BY <1>13 DEF vars, Inv, Stamped, HoldsTenant, Live, Ids
<1> QED
  BY <1>4, <1>5, <1>6, <1>8, <1>9, <1>10, <1>11, <1>12, <1>13 DEF Next

\* The inductive invariant holds throughout.
LEMMA NextInv == Inv /\ [Next]_vars => Inv'
  BY CoreStep, StampedStep DEF Inv

LEMMA SpecInv == Spec => []Inv
  BY InitInv, NextInv, PTL DEF Spec

\* mark_unsettled_sessions_and_sum_gross and cpo_cancel_payout: a claim always
\* belongs to a payout that exists and was not cancelled.
THEOREM ClaimsAreLiveHolds == Spec => []ClaimsAreLive
  <1>1. Inv => ClaimsAreLive
    BY DEF Inv, Core
  <1>2. QED
    BY <1>1, SpecInv, PTL

\* cpo_request_payout: one payout is pending at most, and none is newer.
THEOREM OnePendingHolds == Spec => []OnePending
  <1>1. Inv => OnePending
    BY DEF Inv, Core
  <1>2. QED
    BY <1>1, SpecInv, PTL

\* The windows of the live payouts tile the time from the epoch, also after
\* cancellations, so no refund or top-up stamped in them is skipped or counted
\* for two payouts.
THEOREM WindowsTileHolds == Spec => []WindowsTile
  <1>1. Inv => WindowsTile
    <2>1. SUFFICES ASSUME Inv, NEW i \in Ids, Live(i)
                   PROVE  /\ payouts[i].start < payouts[i].end /\ payouts[i].end < clock
                          /\ payouts[i].start = Max(LiveEnds(i - 1))
      BY DEF WindowsTile, LiveEnds
    <2>2. i - 1 \in 0 .. Len(payouts) /\ PayoutRows
      BY <2>1, RowFacts DEF Inv, Core, Shape
    <2>3. IsMark(payouts[i].start, i - 1)
      BY <2>1 DEF Inv, Core, Tiled
    <2>4. Max(LiveEnds(i - 1)) = payouts[i].start
      BY <2>2, <2>3, MarkIsMax
    <2>5. QED
      BY <2>1, <2>4 DEF Inv, Core, Tiled
  <1>2. QED
    BY <1>1, SpecInv, PTL

\* The books of a tenant stay whole under every overlap of requests,
\* cancellations, payments and top-ups.
THEOREM PayoutsConsistentHolds == Spec => []PayoutsConsistent
  <1>1. ClaimsAreLive /\ OnePending /\ WindowsTile => PayoutsConsistent
    BY DEF PayoutsConsistent
  <1>2. QED
    BY <1>1, ClaimsAreLiveHolds, OnePendingHolds, WindowsTileHolds, PTL

\* The state stays in the columns' domains; in particular no payout is of a
\* negative amount (compute_fee_and_net and the check of cpo_request_payout).
THEOREM PayoutsTypeCorrect == Spec => []TypeOK
<1>1. Inv => TypeOK
  BY DEF Inv, Core, Shape, PayoutRows, Stamped, TypeOK
<1> QED
  BY <1>1, SpecInv, PTL
-----------------------------------------------------------------------------
(* Refunds *)

\* A new refund is none of the earlier ones, whatever its session and coins: it
\* is stamped with a time none of them has.
LEMMA RefundedGrows ==
    ASSUME Inv, NEW s \in Sessions, NEW c \in RefundCoins, ApproveDispute(s, c)
    PROVE  /\ RefundedOf(s)' = RefundedOf(s) + c
           /\ \A o \in Sessions : o # s => RefundedOf(o)' = RefundedOf(o)
<1> DEFINE q == [session |-> s, coins |-> c, at |-> clock]
           D == {r \in refunds : r.session = s}
<1>1. refunds' = refunds \cup {q}
  BY DEF ApproveDispute
<1>2. q.session = s /\ q.coins = c /\ q.at = clock /\ c \in Nat
  BY PayoutsAssumption
<1>3. q \notin refunds
  <2>1. clock \in Nat /\ \A r \in refunds : r.at < clock
    BY DEF Inv, Core, Shape, Stamped
  <2> QED
    BY <1>2, <2>1
<1> HIDE DEF q
<1>4. IsFiniteSet(D) /\ \A r \in D : r.coins \in Nat
  BY RefundsNat DEF Inv, Stamped, Refund
<1>5. Coins(D \cup {q}) = Coins(D) + c
  <2>1. q \notin D /\ q.coins \in Nat
    BY <1>2, <1>3
  <2> HIDE DEF D
  <2> QED
    BY <1>2, <1>4, <2>1, CoinsAdd
<1>6. RefundedOf(s)' = Coins(D \cup {q})
  <2>1. {r \in refunds' : r.session = s} = D \cup {q}
    BY <1>1, <1>2
  <2> QED
    BY <2>1 DEF RefundedOf, Coins
<1>7. ASSUME NEW o \in Sessions, o # s PROVE RefundedOf(o)' = RefundedOf(o)
  <2>1. {r \in refunds' : r.session = o} = {r \in refunds : r.session = o}
    BY <1>1, <1>2, <1>7
  <2> QED
    BY <2>1 DEF RefundedOf, Coins
<1> QED
  BY <1>5, <1>6, <1>7 DEF RefundedOf

\* cpo_resolve_dispute alone grants refunds.
LEMMA OnlyApprovals ==
    ASSUME [Next]_vars
    PROVE  \/ UNCHANGED refunds
           \/ \E s \in Sessions, c \in RefundCoins : ApproveDispute(s, c)
  BY DEF Next, vars, Finish, FileDispute, RejectDispute, RequestPayout, MarkPaid,
     CancelPayout, TopupBegin, TopupLock, TopupReread, TopupIssue

\* cpo_resolve_dispute, with the sum over the session's earlier disputes: however
\* often a session is disputed, its refunds stay within what it cost.
THEOREM RefundsWithinCostHolds == Spec => []RefundsWithinCost
<1>1. Init => RefundsWithinCost
  <2> SUFFICES ASSUME Init, NEW s \in Sessions PROVE RefundedOf(s) <= Cost[s]
    BY DEF RefundsWithinCost
  <2>1. {r \in refunds : r.session = s} = {}
    BY DEF Init
  <2>2. RefundedOf(s) = 0
    BY <2>1, SumEmpty DEF RefundedOf, Coins, SumFunction
  <2> QED
    BY <2>2, PayoutsAssumption
<1>2. Inv /\ RefundsWithinCost /\ [Next]_vars => RefundsWithinCost'
  <2> SUFFICES ASSUME Inv, RefundsWithinCost, [Next]_vars, NEW s \in Sessions
               PROVE  RefundedOf(s)' <= Cost[s]
    BY DEF RefundsWithinCost
  <2>1. CASE UNCHANGED refunds
    BY <2>1 DEF RefundsWithinCost, RefundedOf, Coins
  <2>2. ASSUME NEW o \in Sessions, NEW c \in RefundCoins, ApproveDispute(o, c)
        PROVE  RefundedOf(s)' <= Cost[s]
    BY <2>2, RefundedGrows DEF RefundsWithinCost, ApproveDispute
  <2> QED
    BY <2>1, <2>2, OnlyApprovals
<1> QED
  BY <1>1, <1>2, InitInv, NextInv, PTL DEF Spec
-----------------------------------------------------------------------------
(* What a payout pays *)

RefundsDuring(i) == {r \in refunds : Within(r.at, payouts[i].start, payouts[i].end)}
SeenBy(i) == {t \in IssuedIn(payouts[i].start, payouts[i].end) : ~Behind(t, payouts[i].end)}

Foots(i) ==
    /\ payouts[i].net > 0
    /\ payouts[i].net = Net(SumCost(ClaimedBy(i)) - Coins(RefundsDuring(i)))
                          - SumFunctionOnSet(Amount, SeenBy(i))

LEMMA FootsAll == PayoutsFoot <=> \A i \in Ids : Live(i) => Foots(i)
  BY DEF PayoutsFoot, Foots, RefundsIn, RefundsDuring, SeenBy

\* A payout foots as long as nothing enters or leaves its window.
LEMMA FootKept ==
    ASSUME NEW i, Foots(i),
           payouts'[i].start = payouts[i].start, payouts'[i].end = payouts[i].end,
           payouts'[i].net = payouts[i].net,
           ClaimedBy(i)' = ClaimedBy(i), RefundsDuring(i)' = RefundsDuring(i),
           SeenBy(i)' = SeenBy(i)
    PROVE  Foots(i)'
  BY DEF Foots, SumCost, Coins

\* The window of a live payout is closed: what is stamped from now on is later,
\* and a top-up that is issued from now on has read a watermark beyond it.
LEMMA WindowClosed ==
    ASSUME Inv, [Next]_vars, NEW i \in Ids, Live(i),
           payouts'[i].start = payouts[i].start, payouts'[i].end = payouts[i].end
    PROVE  RefundsDuring(i)' = RefundsDuring(i) /\ SeenBy(i)' = SeenBy(i)
<1> DEFINE a == payouts[i].start
           b == payouts[i].end
<1>1. a \in Nat /\ b \in Nat /\ a < b /\ b < clock /\ clock \in Nat
  BY RowFacts DEF Inv, Core, Shape, Tiled
<1>2. RefundsDuring(i)' = {r \in refunds' : Within(r.at, a, b)}
  BY DEF RefundsDuring, Within
<1>3. SeenBy(i)' = {t \in Topups : /\ topup'[t].at = "issued" /\ Within(topup'[t].created, a, b)
                                   /\ ~(topup'[t].w1 >= b)}
  BY DEF SeenBy, IssuedIn, Within, Behind
<1>4. SeenBy(i) = {t \in Topups : /\ topup[t].at = "issued" /\ Within(topup[t].created, a, b)
                                  /\ ~(topup[t].w1 >= b)}
  BY DEF SeenBy, IssuedIn, Behind
<1>5. RefundsDuring(i) = {r \in refunds : Within(r.at, a, b)}
  BY DEF RefundsDuring
<1> HIDE DEF a, b
<1>6. RefundsDuring(i)' = RefundsDuring(i)
  <2>1. CASE UNCHANGED refunds
    BY <1>2, <1>5, <2>1
  <2>2. ASSUME NEW s \in Sessions, NEW c \in RefundCoins, ApproveDispute(s, c)
        PROVE  RefundsDuring(i)' = RefundsDuring(i)
    <3> DEFINE q == [session |-> s, coins |-> c, at |-> clock]
    <3>1. refunds' = refunds \cup {q} /\ q.at = clock
      BY <2>2 DEF ApproveDispute
    <3> HIDE DEF q
    <3>2. ~Within(q.at, a, b)
      BY <1>1, <3>1 DEF Within
    <3> QED
      BY <1>2, <1>5, <3>1, <3>2
  <2> QED
    BY <2>1, <2>2, OnlyApprovals
<1>7. SeenBy(i)' = SeenBy(i)
  <2>1. CASE UNCHANGED topup
    BY <1>3, <1>4, <2>1
  <2>2. ASSUME NEW t \in Topups, NEW new, topup' = [topup EXCEPT ![t] = new],
               topup[t].at # "issued", new.at = "issued" => new.w1 >= b
        PROVE  SeenBy(i)' = SeenBy(i)
    <3>1. \A o \in Topups : topup'[o] = IF o = t THEN new ELSE topup[o]
      BY <2>2 DEF Inv, Stamped
    <3> QED
      BY <1>3, <1>4, <2>2, <3>1
  <2>3. ASSUME NEW t \in Topups, TopupBegin(t) PROVE SeenBy(i)' = SeenBy(i)
    <3>1. [topup[t] EXCEPT !.at = "begun", !.created = clock].at # "issued"
      BY DEF Inv, Stamped, TopupState
    <3> QED
      BY <2>2, <2>3, <3>1 DEF TopupBegin
  <2>4. ASSUME NEW t \in Topups, TopupLock(t) PROVE SeenBy(i)' = SeenBy(i)
    <3>1. [topup[t] EXCEPT !.at = "locked", !.w1 = Watermark].at # "issued"
      BY DEF Inv, Stamped, TopupState
    <3> QED
      BY <2>2, <2>4, <3>1 DEF TopupLock
  <2>5. ASSUME NEW t \in Topups, TopupReread(t) PROVE SeenBy(i)' = SeenBy(i)
    <3>1. [topup[t] EXCEPT !.at = "read", !.w2 = Watermark].at # "issued"
      BY DEF Inv, Stamped, TopupState
    <3> QED
      BY <2>2, <2>5, <3>1 DEF TopupReread
  <2>6. ASSUME NEW t \in Topups, TopupIssue(t) PROVE SeenBy(i)' = SeenBy(i)
    <3>1. PICK new : topup' = [topup EXCEPT ![t] = new] /\ new.w1 = topup[t].w1
      <4>1. PICK x, y :
                topup' = [topup EXCEPT ![t] = [[topup[t] EXCEPT !.at = x] EXCEPT !.stale = y]]
        BY <2>6 DEF TopupIssue
      <4>2. [[topup[t] EXCEPT !.at = x] EXCEPT !.stale = y].w1 = topup[t].w1
        BY DEF Inv, Stamped, TopupState
      <4> QED
        BY <4>1, <4>2
    <3>2. HoldsTenant(t) /\ topup[t].at # "issued"
      BY <2>6 DEF TopupIssue, HoldsTenant
    <3>3. topup[t].w1 >= b
      BY <1>1, <3>2 DEF Inv, Stamped, TopupState, b
    <3> QED
      BY <2>2, <3>1, <3>2, <3>3
  <2> QED
    BY <2>1, <2>3, <2>4, <2>5, <2>6
    DEF Next, vars, Finish, FileDispute, RejectDispute, ApproveDispute, RequestPayout,
        MarkPaid, CancelPayout
<1> QED
  BY <1>6, <1>7

\* What cpo_request_payout writes.
LEMMA Requested ==
    ASSUME Inv, RequestPayout, NEW n, n = Len(payouts) + 1
    PROVE  /\ n \in Nat /\ n \notin Ids /\ n # 0
           /\ Ids = 1 .. Len(payouts) /\ Len(payouts) \in Nat
           /\ Ids' = Ids \cup {n} /\ Len(payouts') = n
           /\ payouts'[n] = NewPayout /\ \A i \in Ids : payouts'[i] = payouts[i]
           /\ ClaimedBy(n)' = Unsettled
           /\ \A i \in Ids : ClaimedBy(i)' = ClaimedBy(i)
<1>1. Len(payouts) \in Nat /\ Ids = 1 .. Len(payouts)
  BY RowFacts DEF Inv, Core, Shape
<1>2. NewPayout \in Payout
  BY Figures DEF NewPayout, Payout, Status, Inv, Core, Shape
<1>3. /\ payouts' \in Seq(Payout) /\ Len(payouts') = n /\ payouts'[n] = NewPayout
      /\ \A i \in 1 .. Len(payouts) : payouts'[i] = payouts[i]
  BY <1>2, AppendProperties DEF RequestPayout, Inv, Core, Shape, PayoutRows
<1>4. n \in Nat /\ n \notin Ids /\ n # 0 /\ Ids' = Ids \cup {n}
  BY <1>1, <1>3 DEF Ids
<1>5. settled' = [s \in Sessions |-> IF s \in Unsettled THEN n ELSE settled[s]]
  BY DEF RequestPayout
<1>6. \A s \in Sessions : settled[s] = 0 \/ settled[s] \in Ids
  BY DEF Inv, Core, ClaimsAreLive
<1>7. Unsettled \subseteq Sessions /\ \A s \in Unsettled : settled[s] = 0
  BY DEF Unsettled, Inv, Core, Shape
<1>8. ClaimedBy(n)' = Unsettled
  BY <1>4, <1>5, <1>6, <1>7 DEF ClaimedBy
<1>9. \A i \in Ids : i # 0 /\ i # n
  BY <1>1, <1>4
<1>10. \A i \in Ids : ClaimedBy(i)' = ClaimedBy(i)
  BY <1>5, <1>7, <1>9 DEF ClaimedBy
<1> QED
  BY <1>1, <1>3, <1>4, <1>8, <1>10

\* A payout foots when it is requested: a request with something to pay clamped
\* neither the refunds nor the net.
LEMMA NewFoots ==
    ASSUME Inv, RequestPayout, NEW n, n = Len(payouts) + 1
    PROVE  Foots(n)'
<1>1. payouts'[n] = NewPayout /\ ClaimedBy(n)' = Unsettled
  BY Requested
<1>2. /\ payouts'[n].start = Watermark /\ payouts'[n].end = clock
      /\ payouts'[n].net = Payable /\ Payable > 0
      /\ UNCHANGED <<refunds, topup>>
  BY <1>1 DEF NewPayout, RequestPayout
<1>3. Payable = Net(SumCost(Unsettled) - RefundsIn(Watermark, clock)) - TopupsIn(Watermark, clock)
  BY <1>2, Figures
<1>4. Coins(RefundsDuring(n)') = RefundsIn(Watermark, clock)
  BY <1>2 DEF RefundsDuring, RefundsIn, Within
<1>5. SeenBy(n)' = IssuedIn(Watermark, clock)
  <2>1. \A t \in Topups : topup[t].w1 \in Nat /\ topup[t].w1 < clock /\ clock \in Nat
    BY DEF Inv, Core, Shape, Stamped, TopupState
  <2>2. \A t \in Topups : ~(topup'[t].w1 >= payouts'[n].end)
    BY <1>2, <2>1
  <2> QED
    BY <1>2, <2>2 DEF SeenBy, IssuedIn, Behind, Within
<1> QED
  BY <1>1, <1>2, <1>3, <1>4, <1>5 DEF Foots, TopupsIn, SumCost, Coins

\* Every step leaves every live payout footing.
LEMMA FootStep == Inv /\ PayoutsFoot /\ [Next]_vars => PayoutsFoot'
<1> SUFFICES ASSUME Inv, PayoutsFoot, [Next]_vars, NEW i \in Ids', Live(i)' PROVE Foots(i)'
  BY DEF PayoutsFoot, Foots, RefundsIn, RefundsDuring, SeenBy
<1>1. \A j \in Ids : Live(j) => Foots(j)
  BY FootsAll
<1>2. ASSUME UNCHANGED <<settled, payouts>> PROVE Foots(i)'
  <2>1. i \in Ids /\ Live(i) /\ ClaimedBy(i)' = ClaimedBy(i)
    BY <1>2 DEF Ids, Live, ClaimedBy
  <2> QED
    BY <1>1, <1>2, <2>1, WindowClosed, FootKept
<1>3. CASE RequestPayout
  <2>1. PICK n : n = Len(payouts) + 1
    OBVIOUS
  <2>2. /\ Ids' = Ids \cup {n} /\ \A j \in Ids : payouts'[j] = payouts[j]
        /\ \A j \in Ids : ClaimedBy(j)' = ClaimedBy(j)
    BY <1>3, <2>1, Requested
  <2>3. CASE i = n
    BY <1>3, <2>1, <2>3, NewFoots
  <2>4. CASE i \in Ids
    <3>1. Live(i)
      BY <2>2, <2>4 DEF Live
    <3> QED
      BY <1>1, <2>2, <2>4, <3>1, WindowClosed, FootKept
  <2> QED
    BY <2>2, <2>3, <2>4
<1>4. ASSUME NEW k \in Ids, MarkPaid(k) \/ CancelPayout(k) PROVE Foots(i)'
  <2>1. PICK st : NewStatus(k, st) /\ (CancelPayout(k) => st = "CANCELLED")
    <3>1. CASE CancelPayout(k)
      BY <3>1, CancelFrame DEF Inv, Core, Shape
    <3>2. CASE ~CancelPayout(k)
      BY <1>4, <3>2, PaidFrame DEF Inv, Core, Shape
    <3> QED
      BY <3>1, <3>2
  <2>2. /\ Ids' = Ids /\ payouts'[i].start = payouts[i].start
        /\ payouts'[i].end = payouts[i].end /\ payouts'[i].net = payouts[i].net
        /\ payouts'[k].status = st
        /\ i # k => payouts'[i] = payouts[i]
    BY <2>1 DEF NewStatus
  <2>3. Live(i)
    <3>1. Live(k)
      BY <1>4 DEF MarkPaid, CancelPayout, Live
    <3> QED
      BY <2>2, <3>1 DEF Live
  <2>4. ClaimedBy(i)' = ClaimedBy(i)
    <3>1. CASE MarkPaid(k)
      BY <3>1 DEF MarkPaid, ClaimedBy
    <3>2. CASE CancelPayout(k)
      <4>1. i # k
        BY <2>1, <2>2, <3>2 DEF Live
      <4>2. i # 0
        BY <2>2, RowFacts DEF Inv, Core, Shape
      <4> QED
        BY <3>2, <4>1, <4>2 DEF CancelPayout, ClaimedBy
    <3> QED
      BY <1>4, <3>1, <3>2
  <2> QED
    BY <1>1, <2>2, <2>3, <2>4, WindowClosed, FootKept
<1> QED
  BY <1>2, <1>3, <1>4
  DEF Next, vars, Finish, FileDispute, RejectDispute, ApproveDispute, TopupBegin, TopupLock,
      TopupReread, TopupIssue

\* compute_fee_and_net over mark_unsettled_sessions_and_sum_gross: a payout pays
\* its sessions less the refunds and top-ups of its window, to the coin, also
\* after refunds, top-ups and cancellations that were committed later, for every
\* fee and every set of sessions, disputes and top-ups.
THEOREM PayoutsFootHolds == Spec => []PayoutsFoot
<1>1. Init => PayoutsFoot
  BY FootsAll DEF Init, Ids
<1> QED
  BY <1>1, InitInv, NextInv, FootStep, PTL DEF Spec
-----------------------------------------------------------------------------
(* What is drawn out in all *)

\* No issued top-up is misplaced.
Placed == \A t \in IssuedIn(0, clock) : ~Misplaced(t)

\* The current window: the top-ups issued since the watermark are covered by the
\* sessions that no payout owns.
PoolCovered == Placed => TopupsIn(Watermark, clock) <= SumCost(Unsettled)

MarkFacts ==
    /\ Watermark \in Nat /\ Watermark < clock /\ IsMark(Watermark, Len(payouts))
    /\ clock \in Nat /\ Len(payouts) \in Nat /\ Ids = 1 .. Len(payouts)

LEMMA MarkFactsHold == Inv => MarkFacts
  BY Figures, RowFacts DEF MarkFacts, Inv, Core, Shape

\* All issued top-ups lie before the present.
LEMMA IssuedSoFar ==
    ASSUME Inv, NEW a \in Nat
    PROVE  /\ IssuedIn(a, clock) = {t \in Topups : topup[t].at = "issued" /\ topup[t].created >= a}
           /\ \A t \in Topups : topup[t].created \in Nat /\ topup[t].w1 \in Nat
<1>1. clock \in Nat /\ \A t \in Topups : /\ topup[t].created \in Nat /\ topup[t].w1 \in Nat
                                         /\ topup[t].created < clock
  BY DEF Inv, Core, Shape, Stamped, TopupState
<1> QED
  BY <1>1 DEF IssuedIn, Within

\* A period is two periods.
LEMMA TopupsSplit ==
    ASSUME Inv, NEW a \in Nat, NEW b \in Nat, NEW c \in Nat, a <= b, b <= c
    PROVE  TopupsIn(a, c) = TopupsIn(a, b) + TopupsIn(b, c)
<1> DEFINE S == IssuedIn(a, b)
           T == IssuedIn(b, c)
<1>1. S \in SUBSET Topups /\ T \in SUBSET Topups
  BY DEF IssuedIn
<1>2. IssuedIn(a, c) = S \cup T /\ S \cap T = {}
  BY IssuedSoFar DEF IssuedIn, Within
<1>3. IsFiniteSet(S) /\ IsFiniteSet(T)
  BY <1>1, AmountsNat
<1>4. \A t \in S \cup T : Amount[t] \in Int
  BY <1>1, PayoutsAssumption
<1> HIDE DEF S, T
<1>5. SumFunctionOnSet(Amount, S \cup T)
        = SumFunctionOnSet(Amount, S) + SumFunctionOnSet(Amount, T)
  BY <1>2, <1>3, <1>4, SumUnion
<1> QED
  BY <1>2, <1>5 DEF TopupsIn, S, T

\* A live payout and the top-ups of its window are covered by its own sessions.
LEMMA OwnCovered ==
    ASSUME Inv, PayoutsFoot, Placed, NEW i \in Ids, Live(i)
    PROVE  payouts[i].net + TopupsIn(payouts[i].start, payouts[i].end) <= SumCost(ClaimedBy(i))
<1> DEFINE a == payouts[i].start
           b == payouts[i].end
           m == payouts[i].net
           g == SumCost(ClaimedBy(i))
           d == Coins(RefundsDuring(i))
<1>1. a \in Nat /\ b \in Nat /\ m \in Nat /\ b < clock /\ clock \in Nat
  BY RowFacts DEF Inv, Core, Shape, Tiled
<1>2. g \in Nat
  BY CostsNat DEF ClaimedBy
<1>3. d \in Nat
  BY RefundsNat DEF RefundsDuring, Inv
<1>4. SeenBy(i) = IssuedIn(a, b)
  <2>1. ASSUME NEW t \in IssuedIn(a, b) PROVE ~Behind(t, b)
    <3>1. t \in IssuedIn(0, clock) /\ topup[t].created < b
      BY <1>1, <2>1, IssuedSoFar DEF IssuedIn, Within
    <3>2. ~(topup[t].w1 >= topup[t].created + 1)
      BY <3>1 DEF Placed, Misplaced, Behind
    <3>3. topup[t].w1 \in Nat /\ topup[t].created \in Nat
      BY <3>1, IssuedSoFar DEF IssuedIn
    <3> QED
      BY <1>1, <3>1, <3>2, <3>3 DEF Behind
  <2> QED
    BY <2>1 DEF SeenBy
<1>5. m > 0 /\ m = Net(g - d) - TopupsIn(a, b)
  BY <1>4, FootsAll DEF Foots, TopupsIn
<1>6. TopupsIn(a, b) \in Nat
  BY Figures
<1> HIDE DEF a, b, m, g, d
<1>7. Net(g - d) \in Int /\ Net(g - d) <= g
  <2>1. CASE g - d >= 0
    BY <1>2, <1>3, <2>1, NetBounds
  <2>2. CASE g - d < 0
    <3>1. d - g \in Nat /\ g - d = -(d - g)
      BY <1>2, <1>3, <2>2
    <3>2. Net(-(d - g)) <= 0
      BY <3>1, NetBounds
    <3>3. Net(-(d - g)) \in Int
      BY <3>1, PayoutsAssumption DEF Net
    <3> QED
      BY <1>2, <3>1, <3>2, <3>3
  <2> QED
    BY <1>2, <1>3, <2>1, <2>2
<1>8. m + TopupsIn(a, b) <= g
  BY <1>1, <1>2, <1>5, <1>6, <1>7
<1> QED
  BY <1>8 DEF a, b, m, g

\* A top-up once issued is never touched again.
LEMMA IssuedKept ==
    ASSUME Inv, [Next]_vars, NEW t \in Topups, topup[t].at = "issued"
    PROVE  topup'[t] = topup[t]
<1>1. ASSUME NEW o \in Topups, NEW new, topup' = [topup EXCEPT ![o] = new],
             topup[o].at # "issued"
      PROVE  topup'[t] = topup[t]
  BY <1>1 DEF Inv, Stamped
<1>2. ASSUME NEW o \in Topups, TopupBegin(o) \/ TopupLock(o) \/ TopupReread(o)
      PROVE  topup'[t] = topup[t]
  BY <1>1, <1>2 DEF TopupBegin, TopupLock, TopupReread
<1>3. ASSUME NEW o \in Topups, TopupIssue(o) PROVE topup'[t] = topup[t]
  <2>1. \E new : topup' = [topup EXCEPT ![o] = new]
    BY <1>3 DEF TopupIssue
  <2> QED
    BY <1>1, <1>3, <2>1 DEF TopupIssue
<1> QED
  BY <1>2, <1>3
  DEF Next, vars, Finish, FileDispute, RejectDispute, ApproveDispute, RequestPayout,
      MarkPaid, CancelPayout

\* So a misplaced one stays misplaced.
LEMMA PlacedBefore ==
    ASSUME Inv, Inv', [Next]_vars, Placed'
    PROVE  Placed
<1>1. clock \in Nat /\ clock' \in Nat
      /\ \A t \in Topups : topup'[t].created \in Nat /\ topup'[t].created < clock'
  BY DEF Inv, Core, Shape, Stamped, TopupState
<1> SUFFICES ASSUME NEW t \in IssuedIn(0, clock) PROVE ~Misplaced(t)
  BY DEF Placed
<1>2. t \in Topups /\ topup[t].at = "issued"
  BY DEF IssuedIn
<1>3. topup'[t] = topup[t]
  BY <1>2, IssuedKept
<1>4. t \in IssuedIn(0, clock)'
  BY <1>1, <1>2, <1>3 DEF IssuedIn, Within
<1>5. ~Misplaced(t)'
  BY <1>4 DEF Placed
<1> QED
  BY <1>3, <1>5 DEF Misplaced, Behind

\* Two marks of the same live windows are the same.
LEMMA MarkUnique ==
    ASSUME NEW a, NEW b, NEW n \in Nat, IsMark(a, n), IsMark(b, n)
    PROVE  a = b
  BY DEF IsMark

\* The top-ups since a mark, when no top-up is issued: time passing adds none.
LEMMA TopupsSince ==
    ASSUME Inv, Inv', [Next]_vars, NEW a \in Nat,
           \A t \in Topups : topup'[t].at = "issued" => topup[t].at = "issued"
    PROVE  TopupsIn(a, clock)' = TopupsIn(a, clock)
<1>1. clock' \in Nat /\ \A t \in Topups : topup'[t].created \in Nat /\ topup'[t].created < clock'
  BY DEF Inv, Core, Shape, Stamped, TopupState
<1>2. \A t \in Topups : topup[t].at = "issued" => topup'[t] = topup[t]
  BY IssuedKept
<1>3. IssuedIn(a, clock)' = IssuedIn(a, clock)
  <2>1. IssuedIn(a, clock)' =
            {t \in Topups : topup'[t].at = "issued" /\ topup'[t].created >= a}
    BY <1>1 DEF IssuedIn, Within
  <2> QED
    BY <1>2, <2>1, IssuedSoFar
<1> QED
  BY <1>3 DEF TopupsIn

\* cpo_create_topup, not overtaken: what it issues is what the pool still held.
LEMMA IssueCovered ==
    ASSUME Inv, Inv', PoolCovered, Placed, Placed', NEW t \in Topups, TopupIssue(t),
           topup'[t].at = "issued"
    PROVE  TopupsIn(Watermark, clock)' <= SumCost(Unsettled)'
<1>1. UNCHANGED <<clock, finished, settled, refunds, payouts>>
  BY DEF TopupIssue
<1>2. Watermark' = Watermark /\ Unsettled' = Unsettled
  BY <1>1 DEF Watermark, Unsettled, Live, Ids
<1> DEFINE W == Watermark
           c == clock
           old == IssuedIn(W, c)
           x == SumCost(Unsettled)
           d == RefundsIn(topup[t].w2, c)
<1>3. W \in Nat /\ x \in Nat /\ d \in Nat /\ TopupsIn(W, c) \in Nat /\ c \in Nat
  BY Figures DEF Inv, Core, Shape
<1>4. topup[t].w1 = W
  <2>1. t \in IssuedIn(0, clock)'
    <3>1. clock' \in Nat /\ topup'[t].created \in Nat /\ topup'[t].created < clock'
      BY DEF Inv, Core, Shape, Stamped, TopupState
    <3> QED
      BY <3>1 DEF IssuedIn, Within
  <2>2. ~topup'[t].stale
    BY <2>1 DEF Placed, Misplaced
  <2>3. topup'[t].stale = (topup[t].w1 # Watermark)
    BY DEF TopupIssue, Inv, Stamped, TopupState
  <2> QED
    BY <2>2, <2>3
<1>5. Amount[t] <= AvailablePool(W, topup[t].w2) /\ topup[t].at # "issued"
  BY <1>4 DEF TopupIssue, Inv, Stamped, TopupState
<1>6. Amount[t] \in Nat /\ Amount[t] > 0
  BY PayoutsAssumption
<1>7. AvailablePool(W, topup[t].w2) = AtLeastZero(Net(AtLeastZero(x - d)) - TopupsIn(W, c))
  BY DEF AvailablePool
<1>8. Amount[t] + TopupsIn(W, c) <= x
  <2> DEFINE b == TopupsIn(W, c)
             amount == Amount[t]
             y == AtLeastZero(x - d)
  <2>1. y \in Nat /\ y <= x
    <3> HIDE DEF x, d
    <3> QED
      BY <1>3 DEF AtLeastZero
  <2>2. amount <= AtLeastZero(Net(y) - b) /\ b \in Nat /\ amount \in Nat /\ amount > 0 /\ x \in Nat
    BY <1>3, <1>5, <1>6, <1>7
  <2> HIDE DEF x, b, amount, y
  <2>3. Net(y) \in Int /\ Net(y) <= y
    BY <2>1, NetBounds
  <2>4. amount + b <= x
    BY <2>1, <2>2, <2>3 DEF AtLeastZero
  <2> QED
    BY <2>4 DEF x, b, amount
<1>9. IssuedIn(W, c)' \subseteq old \cup {t} /\ old \in SUBSET Topups /\ t \notin old
  <2>1. \A o \in Topups : o # t => topup'[o] = topup[o]
    BY DEF TopupIssue, Inv, Stamped
  <2>2. IssuedIn(Watermark, clock)' \subseteq IssuedIn(Watermark, clock) \cup {t}
    BY <1>1, <1>2, <2>1 DEF IssuedIn, Within
  <2> QED
    BY <1>5, <2>2 DEF IssuedIn
<1>10. TopupsIn(Watermark, clock)' = SumFunctionOnSet(Amount, IssuedIn(W, c)')
  BY DEF TopupsIn
<1>11. TopupsIn(W, c) = SumFunctionOnSet(Amount, old)
  BY DEF TopupsIn
<1> DEFINE new == IssuedIn(W, c)'
<1> HIDE DEF new, old
<1>12. SumFunctionOnSet(Amount, old \cup {t}) = Amount[t] + SumFunctionOnSet(Amount, old)
  <2>1. IsFiniteSet(old) /\ \A o \in old : Amount[o] \in Int
    BY <1>9, AmountsNat, PayoutsAssumption
  <2> QED
    BY <1>6, <1>9, <2>1, SumAdd
<1>13. SumFunctionOnSet(Amount, new) <= SumFunctionOnSet(Amount, old \cup {t})
  <2>1. IsFiniteSet(old \cup {t}) /\ \A o \in old \cup {t} : Amount[o] \in Nat
    BY <1>9, AmountsNat, PayoutsAssumption
  <2>2. new \in SUBSET (old \cup {t})
    BY <1>9 DEF new
  <2> QED
    BY <2>1, <2>2, SumSubset
<1>14. SumFunctionOnSet(Amount, new) \in Nat
  <2>1. new \in SUBSET Topups
    BY DEF new, IssuedIn
  <2> QED
    BY <2>1, AmountsNat
<1>15. SumCost(Unsettled)' = x
  BY <1>2 DEF SumCost
<1> QED
  BY <1>3, <1>6, <1>8, <1>10, <1>11, <1>12, <1>13, <1>14, <1>15 DEF new

\* cpo_cancel_payout: the window reopens with its top-ups, and so do the sessions
\* that covered them.
LEMMA CancelCovered ==
    ASSUME Inv, Inv', PayoutsFoot, PoolCovered, Placed, NEW i \in Ids, CancelPayout(i)
    PROVE  TopupsIn(Watermark, clock)' <= SumCost(Unsettled)'
<1> DEFINE a == payouts[i].start
           b == payouts[i].end
<1>1. MarkFacts /\ MarkFacts'
  BY MarkFactsHold, PTL
<1>2. /\ payouts[i].status = "REQUESTED" /\ payouts' = [payouts EXCEPT ![i].status = "CANCELLED"]
      /\ settled' = [s \in Sessions |-> IF settled[s] = i THEN 0 ELSE settled[s]]
      /\ UNCHANGED <<clock, finished, topup>>
  BY DEF CancelPayout
<1>3. /\ Ids' = Ids /\ Len(payouts') = Len(payouts) /\ payouts'[i].status = "CANCELLED"
      /\ \A j \in Ids : payouts'[j].end = payouts[j].end /\ (j # i => payouts'[j] = payouts[j])
  <2>1. NewStatus(i, "CANCELLED")
    BY CancelFrame DEF Inv, Core, Shape
  <2> QED
    BY <2>1 DEF NewStatus
<1>4. Live(i) /\ ~Live(i)' /\ \A j \in Ids : j # i => Live(j)' = Live(j)
  BY <1>2, <1>3 DEF Live
<1>5. /\ i \in Nat /\ i # 0 /\ a \in Nat /\ b \in Nat /\ a < b /\ b < clock
      /\ IsMark(a, i - 1)
      /\ \A j \in Ids : payouts[j].end \in Nat
  BY <1>1, <1>4, RowFacts DEF MarkFacts, Inv, Core, Shape, Tiled
<1>6. \A j \in Ids : j > i => ~Live(j)
  BY <1>1, <1>2 DEF MarkFacts, Inv, Core, OnePending
<1>7. Watermark = b
  <2>1. IsMark(b, Len(payouts))
    <3>1. \A k \in 1 .. i - 1 : Live(k) => payouts[k].end <= a
      BY <1>5 DEF IsMark
    <3>2. \A k \in Ids : Live(k) => k = i \/ k \in 1 .. i - 1
      BY <1>1, <1>5, <1>6 DEF MarkFacts
    <3>3. ASSUME NEW k \in Ids, Live(k) PROVE payouts[k].end <= b
      <4>1. CASE k = i
        BY <1>5, <4>1
      <4>2. CASE k \in 1 .. i - 1
        <5>1. payouts[k].end <= a /\ payouts[k].end \in Nat
          BY <1>5, <3>1, <3>3, <4>2
        <5>2. a \in Nat /\ b \in Nat /\ a < b
          BY <1>5
        <5> HIDE DEF a, b
        <5> QED
          BY <5>1, <5>2
      <4> QED
        BY <3>2, <3>3, <4>1, <4>2
    <3>4. i \in 1 .. Len(payouts) /\ Ids = 1 .. Len(payouts)
      BY <1>1 DEF MarkFacts
    <3> QED
      BY <1>4, <1>5, <3>3, <3>4 DEF IsMark
  <2> QED
    BY <1>1, <2>1, MarkUnique DEF MarkFacts
<1>8. Watermark' = a
  <2>1. /\ Watermark' \in Nat
        /\ Watermark' = 0 \/ \E k \in Ids : Live(k)' /\ Watermark' = payouts'[k].end
        /\ \A k \in Ids : Live(k)' => payouts'[k].end <= Watermark'
    BY <1>1, <1>3 DEF MarkFacts, IsMark
  <2>2. ASSUME NEW k \in Ids PROVE Live(k)' <=> k \in 1 .. i - 1 /\ Live(k)
    <3>1. k \in Nat /\ k >= 1 /\ (k \in 1 .. i - 1 \/ k = i \/ k > i) /\ i \notin 1 .. i - 1
      BY <1>1, <1>5 DEF MarkFacts
    <3>2. CASE k = i
      BY <1>4, <3>1, <3>2
    <3>3. CASE k \in 1 .. i - 1
      BY <1>4, <3>1, <3>3
    <3>4. CASE k > i
      <4>1. k # i /\ k \notin 1 .. i - 1
        BY <1>5, <3>1, <3>4
      <4> QED
        BY <1>4, <1>6, <3>4, <4>1
    <3> QED
      BY <3>1, <3>2, <3>3, <3>4
  <2>3. \A k \in 1 .. i - 1 : k \in Ids
    BY <1>1, <1>5 DEF MarkFacts
  <2>4. /\ Watermark' = 0 \/ \E k \in 1 .. i - 1 : Live(k) /\ Watermark' = payouts[k].end
        /\ \A k \in 1 .. i - 1 : Live(k) => payouts[k].end <= Watermark'
    BY <1>3, <2>1, <2>2, <2>3
  <2>5. /\ a = 0 \/ \E k \in 1 .. i - 1 : Live(k) /\ a = payouts[k].end
        /\ \A k \in 1 .. i - 1 : Live(k) => payouts[k].end <= a
    BY <1>5 DEF IsMark
  <2> QED
    BY <1>5, <2>1, <2>3, <2>4, <2>5
<1>9. TopupsIn(Watermark, clock)' = TopupsIn(a, clock)
  BY <1>2, <1>8 DEF TopupsIn, IssuedIn, Within
<1>10. TopupsIn(a, clock) = TopupsIn(a, b) + TopupsIn(b, clock)
  <2>1. a <= b /\ b <= clock /\ clock \in Nat
    BY <1>1, <1>5 DEF MarkFacts
  <2> QED
    BY <1>5, <2>1, TopupsSplit
<1>11. Unsettled' = Unsettled \cup ClaimedBy(i) /\ Unsettled \cap ClaimedBy(i) = {}
  <2>1. \A s \in Sessions : settled[s] = i => s \in finished
    BY <1>5 DEF Inv, Core, ClaimsAreLive
  <2>2. finished \subseteq Sessions
    BY DEF Inv, Core, Shape
  <2> QED
    BY <1>2, <1>5, <2>1, <2>2 DEF Unsettled, ClaimedBy
<1>12. SumCost(Unsettled') = SumCost(Unsettled) + SumCost(ClaimedBy(i))
  <2> DEFINE S == Unsettled
             T == ClaimedBy(i)
  <2>1. S \in SUBSET Sessions /\ T \in SUBSET Sessions
    BY Figures DEF ClaimedBy
  <2>2. IsFiniteSet(S) /\ IsFiniteSet(T) /\ \A s \in S \cup T : Cost[s] \in Int
    BY <2>1, CostsNat, PayoutsAssumption
  <2>3. S \cap T = {} /\ Unsettled' = S \cup T
    BY <1>11
  <2> HIDE DEF S, T
  <2>4. SumFunctionOnSet(Cost, S \cup T) = SumFunctionOnSet(Cost, S) + SumFunctionOnSet(Cost, T)
    BY <2>2, <2>3, SumUnion
  <2> QED
    BY <2>3, <2>4 DEF SumCost, S, T
<1>13. payouts[i].net + TopupsIn(a, b) <= SumCost(ClaimedBy(i)) /\ payouts[i].net \in Nat
  BY <1>4, OwnCovered, RowFacts DEF Inv, Core, Shape
<1>14. TopupsIn(b, clock) <= SumCost(Unsettled)
  BY <1>7 DEF PoolCovered
<1>15. /\ TopupsIn(a, b) \in Nat /\ TopupsIn(b, clock) \in Nat /\ SumCost(Unsettled) \in Nat
       /\ SumCost(ClaimedBy(i)) \in Nat
  BY Figures, CostsNat DEF ClaimedBy
<1>16. SumCost(Unsettled)' = SumCost(Unsettled')
  BY DEF SumCost
<1> QED
  BY <1>9, <1>10, <1>12, <1>13, <1>14, <1>15, <1>16

\* Every step leaves the current window covered.
LEMMA PoolStep ==
    Inv /\ Inv' /\ PayoutsFoot /\ PoolCovered /\ [Next]_vars => PoolCovered'
<1> SUFFICES ASSUME Inv, Inv', PayoutsFoot, PoolCovered, [Next]_vars, Placed'
             PROVE  TopupsIn(Watermark, clock)' <= SumCost(Unsettled)'
  BY DEF PoolCovered
<1>1. Placed
  BY PlacedBefore
<1>2. MarkFacts /\ MarkFacts'
  BY MarkFactsHold, PTL
<1>3. SumCost(Unsettled) \in Nat /\ TopupsIn(Watermark, clock) \in Nat
  BY Figures
<1>4. ASSUME Watermark' = Watermark, Unsettled \subseteq Unsettled', Unsettled' \subseteq Sessions,
             \A t \in Topups : topup'[t].at = "issued" => topup[t].at = "issued"
      PROVE  TopupsIn(Watermark, clock)' <= SumCost(Unsettled)'
  <2>1. TopupsIn(Watermark, clock)' = TopupsIn(Watermark, clock)
    <3>1. PICK w : w = Watermark /\ w \in Nat
      BY <1>2 DEF MarkFacts
    <3>2. TopupsIn(w, clock)' = TopupsIn(w, clock)
      BY <1>4, <3>1, TopupsSince
    <3> QED
      BY <1>4, <3>1, <3>2 DEF TopupsIn, IssuedIn
  <2>2. SumCost(Unsettled) <= SumCost(Unsettled') /\ SumCost(Unsettled') \in Nat
    <3> DEFINE U == Unsettled
               V == Unsettled'
    <3>1. IsFiniteSet(V) /\ (\A s \in V : Cost[s] \in Nat) /\ U \in SUBSET V
      BY <1>4, CostsNat, PayoutsAssumption
    <3>2. SumCost(V) \in Nat
      BY <1>4, CostsNat
    <3> HIDE DEF U, V
    <3>3. SumFunctionOnSet(Cost, U) <= SumFunctionOnSet(Cost, V)
      BY <3>1, SumSubset
    <3> QED
      BY <3>2, <3>3 DEF SumCost, U, V
  <2>3. SumCost(Unsettled)' = SumCost(Unsettled')
    BY DEF SumCost
  <2> QED
    BY <1>1, <1>3, <2>1, <2>2, <2>3 DEF PoolCovered
<1>5. ASSUME UNCHANGED <<settled, payouts>>, finished \subseteq finished', finished' \subseteq Sessions,
             \A t \in Topups : topup'[t].at = "issued" => topup[t].at = "issued"
      PROVE  TopupsIn(Watermark, clock)' <= SumCost(Unsettled)'
  <2>1. Watermark' = Watermark
    BY <1>5 DEF Watermark, Live, Ids
  <2>2. Unsettled \subseteq Unsettled' /\ Unsettled' \subseteq Sessions
    BY <1>5 DEF Unsettled
  <2> QED
    BY <1>4, <1>5, <2>1, <2>2
<1>6. finished \subseteq Sessions /\ topup \in [Topups -> TopupState]
  BY DEF Inv, Core, Shape, Stamped
<1>7. ASSUME NEW s \in Sessions, Finish(s) \/ FileDispute(s) \/ RejectDispute(s)
      PROVE  TopupsIn(Watermark, clock)' <= SumCost(Unsettled)'
  BY <1>5, <1>6, <1>7 DEF Finish, FileDispute, RejectDispute
<1>8. ASSUME NEW s \in Sessions, NEW c \in RefundCoins, ApproveDispute(s, c)
      PROVE  TopupsIn(Watermark, clock)' <= SumCost(Unsettled)'
  BY <1>5, <1>6, <1>8 DEF ApproveDispute
<1>9. CASE RequestPayout
  <2>1. PICK n : n = Len(payouts) + 1
    OBVIOUS
  <2>2. Ids' = Ids \cup {n} /\ Len(payouts') = n /\ payouts'[n] = NewPayout
        /\ clock' = clock + 1 /\ UNCHANGED topup
    BY <1>9, <2>1, Requested DEF RequestPayout, Tick
  <2>3. payouts'[n].end = clock /\ Live(n)'
    BY <2>2 DEF NewPayout, Live
  <2>4. Watermark' >= clock /\ Watermark' \in Nat
    BY <1>2, <2>2, <2>3 DEF MarkFacts, IsMark
  <2>5. IssuedIn(Watermark, clock)' = {}
    <3>1. \A t \in Topups : topup[t].created \in Nat /\ topup[t].created < clock /\ clock \in Nat
      BY DEF Inv, Core, Shape, Stamped, TopupState
    <3>2. \A t \in Topups : ~(Watermark' <= topup'[t].created)
      BY <2>2, <2>4, <3>1
    <3> QED
      BY <3>2 DEF IssuedIn, Within
  <2>6. TopupsIn(Watermark, clock)' = 0
    BY <2>5, SumEmpty DEF TopupsIn
  <2>7. SumCost(Unsettled)' \in Nat
    <3>1. Unsettled' \in SUBSET Sessions
      BY DEF Unsettled, Inv, Core, Shape
    <3>2. SumCost(Unsettled') \in Nat
      BY <3>1, CostsNat
    <3> QED
      BY <3>2 DEF SumCost
  <2> QED
    BY <2>6, <2>7
<1>10. ASSUME NEW i \in Ids, MarkPaid(i) PROVE TopupsIn(Watermark, clock)' <= SumCost(Unsettled)'
  <2>1. /\ payouts[i].status = "REQUESTED" /\ payouts' = [payouts EXCEPT ![i].status = "PAID"]
        /\ UNCHANGED <<clock, finished, settled, topup>>
    BY <1>10 DEF MarkPaid
  <2>2. /\ Ids' = Ids /\ Len(payouts') = Len(payouts) /\ payouts'[i].status = "PAID"
        /\ \A j \in Ids : payouts'[j].end = payouts[j].end /\ (j # i => payouts'[j] = payouts[j])
    <3>1. NewStatus(i, "PAID")
      BY <1>10, PaidFrame DEF Inv, Core, Shape
    <3> QED
      BY <3>1 DEF NewStatus
  <2>3. \A j \in Ids : Live(j)' = Live(j)
    BY <2>1, <2>2 DEF Live
  <2>4. IsMark(Watermark', Len(payouts))
    BY <1>2, <2>2, <2>3 DEF MarkFacts, IsMark
  <2>5. Watermark' = Watermark
    BY <1>2, <2>4, MarkUnique DEF MarkFacts
  <2>6. Unsettled' = Unsettled
    BY <2>1 DEF Unsettled
  <2> QED
    BY <1>4, <2>1, <2>5, <2>6, Figures
<1>11. ASSUME NEW i \in Ids, CancelPayout(i) PROVE TopupsIn(Watermark, clock)' <= SumCost(Unsettled)'
  BY <1>1, <1>11, CancelCovered
<1>12. ASSUME NEW t \in Topups, TopupBegin(t) \/ TopupLock(t) \/ TopupReread(t)
       PROVE  TopupsIn(Watermark, clock)' <= SumCost(Unsettled)'
  <2>1. \A o \in Topups : o # t => topup'[o] = topup[o]
    BY <1>6, <1>12 DEF TopupBegin, TopupLock, TopupReread
  <2>2. \A o \in Topups : topup'[o].at = "issued" => topup[o].at = "issued"
    <3>1. CASE TopupBegin(t)
      BY <1>6, <2>1, <3>1 DEF TopupBegin, TopupState
    <3>2. CASE TopupLock(t)
      BY <1>6, <2>1, <3>2 DEF TopupLock, TopupState
    <3>3. CASE TopupReread(t)
      BY <1>6, <2>1, <3>3 DEF TopupReread, TopupState
    <3> QED
      BY <1>12, <3>1, <3>2, <3>3
  <2> QED
    BY <1>5, <1>6, <1>12, <2>2 DEF TopupBegin, TopupLock, TopupReread
<1>13. ASSUME NEW t \in Topups, TopupIssue(t)
       PROVE  TopupsIn(Watermark, clock)' <= SumCost(Unsettled)'
  <2>1. CASE topup'[t].at = "issued"
    BY <1>1, <1>13, <2>1, IssueCovered
  <2>2. CASE topup'[t].at # "issued"
    <3>1. \A o \in Topups : topup'[o].at = "issued" => topup[o].at = "issued"
      BY <1>6, <1>13, <2>2 DEF TopupIssue
    <3> QED
      BY <1>5, <1>6, <1>13, <3>1 DEF TopupIssue
  <2> QED
    BY <2>1, <2>2
<1>14. CASE UNCHANGED vars
  BY <1>5, <1>6, <1>14 DEF vars
<1> QED
  BY <1>7, <1>8, <1>9, <1>10, <1>11, <1>12, <1>13, <1>14 DEF Next

\* The amounts of the payouts, and the live ones among the first n.
NetOf == [i \in Ids |-> payouts[i].net]
LiveUpTo(n) == {j \in 1 .. n : Live(j)}
OwnedUpTo(n) == {s \in Sessions : settled[s] \in 1 .. n}

\* What the first n payouts and the top-ups of their windows draw is covered by
\* the sessions they own.
UpToCovered(n) ==
    \A m : IsMark(m, n) =>
        SumFunctionOnSet(NetOf, LiveUpTo(n)) + TopupsIn(0, m) <= SumCost(OwnedUpTo(n))

\* The windows of the live payouts, added up one by one.
LEMMA WindowsAddUp ==
    ASSUME Inv, PayoutsFoot, Placed, NEW n \in Nat, n <= Len(payouts)
    PROVE  UpToCovered(n)
<1>1. Len(payouts) \in Nat /\ Ids = 1 .. Len(payouts)
      /\ \A i \in Ids : NetOf[i] = payouts[i].net /\ NetOf[i] \in Nat
  BY RowFacts DEF Inv, Core, Shape, NetOf
<1> DEFINE bad == {k \in Nat : k <= Len(payouts) /\ ~UpToCovered(k)}
<1>2. SUFFICES ASSUME bad # {} PROVE FALSE
  OBVIOUS
<1>3. PICK k \in bad : \A j \in bad : k <= j
  <2>1. bad \in SUBSET Nat
    OBVIOUS
  <2> HIDE DEF bad
  <2> QED
    BY <1>2, <2>1, LeastNumber
<1>4. k \in Nat /\ k <= Len(payouts) /\ ~UpToCovered(k)
  OBVIOUS
<1>5. PICK m : IsMark(m, k) /\ ~(SumFunctionOnSet(NetOf, LiveUpTo(k)) + TopupsIn(0, m)
                                  <= SumCost(OwnedUpTo(k)))
  BY <1>4 DEF UpToCovered
<1>6. k # 0
  <2> SUFFICES ASSUME k = 0 PROVE FALSE
    OBVIOUS
  <2>1. LiveUpTo(k) = {} /\ m = 0
    BY <1>5 DEF LiveUpTo, IsMark
  <2>2. SumFunctionOnSet(NetOf, LiveUpTo(k)) = 0
    BY <2>1, SumEmpty
  <2>3. IssuedIn(0, m) = {}
    BY <2>1, IssuedSoFar DEF IssuedIn, Within
  <2>4. TopupsIn(0, m) = 0
    BY <2>3, SumEmpty DEF TopupsIn
  <2>5. SumCost(OwnedUpTo(k)) \in Nat
    BY CostsNat DEF OwnedUpTo
  <2> QED
    BY <1>5, <2>2, <2>4, <2>5
<1>7. k - 1 \in Nat /\ k - 1 <= Len(payouts) /\ k \in Ids /\ UpToCovered(k - 1)
  <2>1. k - 1 \in Nat /\ k - 1 <= Len(payouts) /\ k \in Ids
    BY <1>1, <1>4, <1>6
  <2> QED
    BY <1>3, <1>4, <2>1
<1>8. CASE ~Live(k)
  <2>1. LiveUpTo(k) = LiveUpTo(k - 1)
    BY <1>4, <1>6, <1>8 DEF LiveUpTo
  <2>2. OwnedUpTo(k) = OwnedUpTo(k - 1)
    BY <1>4, <1>6, <1>8 DEF OwnedUpTo, Inv, Core, ClaimsAreLive
  <2>3. IsMark(m, k - 1)
    BY <1>4, <1>5, <1>6, <1>8 DEF IsMark
  <2> QED
    BY <1>5, <1>7, <2>1, <2>2, <2>3 DEF UpToCovered
<1>9. CASE Live(k)
  <2> DEFINE a == payouts[k].start
             b == payouts[k].end
             L == LiveUpTo(k - 1)
             S == OwnedUpTo(k - 1)
             C == ClaimedBy(k)
  <2>1. a \in Nat /\ b \in Nat /\ a < b /\ IsMark(a, k - 1)
    BY <1>7, <1>9, RowFacts DEF Inv, Core, Shape, Tiled
  <2>2. m = b
    <3>1. \A j \in 1 .. k - 1 : Live(j) => payouts[j].end <= a
      BY <2>1 DEF IsMark
    <3>2. m \in Nat /\ b <= m /\ (m = 0 \/ \E j \in 1 .. k : Live(j) /\ m = payouts[j].end)
      BY <1>4, <1>5, <1>6, <1>9 DEF IsMark
    <3>3. \A j \in 1 .. k : j = k \/ j \in 1 .. k - 1
      BY <1>4, <1>6
    <3> QED
      BY <2>1, <3>1, <3>2, <3>3
  <2>3. SumFunctionOnSet(NetOf, L) + TopupsIn(0, a) <= SumCost(S)
    BY <1>7, <2>1 DEF UpToCovered
  <2>4. TopupsIn(0, b) = TopupsIn(0, a) + TopupsIn(a, b)
    <3>1. 0 <= a /\ a <= b /\ 0 \in Nat
      BY <2>1
    <3> QED
      BY <2>1, <3>1, TopupsSplit
  <2>5. NetOf[k] + TopupsIn(a, b) <= SumCost(C) /\ NetOf[k] \in Nat
    BY <1>1, <1>7, <1>9, OwnCovered
  <2>6. LiveUpTo(k) = L \cup {k} /\ k \notin L /\ IsFiniteSet(L) /\ \A j \in L : NetOf[j] \in Int
    <3>1. LiveUpTo(k) = L \cup {k} /\ k \notin L
      BY <1>4, <1>6, <1>9 DEF LiveUpTo
    <3>2. IsFiniteSet(1 .. k - 1)
      BY <1>7, FS_Interval
    <3>3. IsFiniteSet(L)
      BY <3>2, FS_Subset DEF LiveUpTo
    <3>4. \A j \in L : NetOf[j] \in Int
      BY <1>1, <1>7 DEF LiveUpTo
    <3> QED
      BY <3>1, <3>3, <3>4
  <2>7. OwnedUpTo(k) = S \cup C /\ S \cap C = {} /\ S \in SUBSET Sessions /\ C \in SUBSET Sessions
    BY <1>4, <1>6 DEF OwnedUpTo, ClaimedBy
  <2>8. TopupsIn(0, a) \in Nat /\ TopupsIn(a, b) \in Nat
    BY Figures
  <2> HIDE DEF L, S, C, a, b
  <2>9. SumFunctionOnSet(NetOf, L \cup {k}) = NetOf[k] + SumFunctionOnSet(NetOf, L)
        /\ SumFunctionOnSet(NetOf, L) \in Int
    <3>1. NetOf[k] \in Int
      BY <2>5
    <3> QED
      BY <2>6, <3>1, SumAdd, SumInt
  <2>10. SumCost(S \cup C) = SumCost(S) + SumCost(C) /\ SumCost(S) \in Nat /\ SumCost(C) \in Nat
    <3>1. IsFiniteSet(S) /\ IsFiniteSet(C) /\ \A s \in S \cup C : Cost[s] \in Int
      BY <2>7, CostsNat, PayoutsAssumption
    <3> QED
      BY <2>7, <3>1, SumUnion, CostsNat DEF SumCost
  <2> QED
    BY <1>5, <2>2, <2>3, <2>4, <2>5, <2>6, <2>7, <2>8, <2>9, <2>10
<1> QED
  BY <1>8, <1>9

\* The live payouts, the current window and the sessions together.
LEMMA DrawnCovered == Inv /\ PayoutsFoot /\ PoolCovered => NeverDrawnTwice
<1> SUFFICES ASSUME Inv, PayoutsFoot, PoolCovered, Placed
             PROVE  SumFunction([i \in {j \in Ids : Live(j)} |-> payouts[i].net])
                        + TopupsIn(0, clock) <= SumCost(finished)
  BY DEF NeverDrawnTwice, Placed, DrawnWithinEarnings
<1>1. MarkFacts
  BY MarkFactsHold
<1> DEFINE n == Len(payouts)
           W == Watermark
           L == LiveUpTo(n)
           f == [i \in {j \in Ids : Live(j)} |-> payouts[i].net]
           S == OwnedUpTo(n)
           U == Unsettled
<1>2. n \in Nat /\ Ids = 1 .. n /\ W \in Nat /\ W < clock /\ clock \in Nat /\ IsMark(W, n)
  BY <1>1 DEF MarkFacts
<1>3. SumFunctionOnSet(NetOf, L) + TopupsIn(0, W) <= SumCost(S)
  <2>1. UpToCovered(n)
    BY <1>2, WindowsAddUp
  <2> QED
    BY <1>2, <2>1 DEF UpToCovered
<1>4. TopupsIn(W, clock) <= SumCost(U)
  BY DEF PoolCovered
<1>5. TopupsIn(0, clock) = TopupsIn(0, W) + TopupsIn(W, clock)
  <2>1. 0 <= W /\ W <= clock /\ 0 \in Nat
    BY <1>2
  <2> QED
    BY <1>2, <2>1, TopupsSplit
<1>6. SumFunction(f) = SumFunctionOnSet(NetOf, L) /\ SumFunctionOnSet(NetOf, L) \in Int
  <2>1. DOMAIN f = L /\ IsFiniteSet(L)
    <3>1. IsFiniteSet(1 .. n)
      BY <1>2, FS_Interval
    <3>2. IsFiniteSet(L)
      BY <3>1, FS_Subset DEF LiveUpTo
    <3> QED
      BY <1>2, <3>2 DEF LiveUpTo
  <2>2. \A i \in L : f[i] = NetOf[i] /\ NetOf[i] \in Int
    BY <1>2, RowFacts DEF NetOf, LiveUpTo, Inv, Core, Shape
  <2>3. SumFunction(f) = SumFunctionOnSet(f, L)
    BY <2>1 DEF SumFunction
  <2> HIDE DEF f, L
  <2> QED
    BY <2>1, <2>2, <2>3, SumSame, SumInt
<1>7. finished = S \cup U /\ S \cap U = {} /\ S \in SUBSET Sessions /\ U \in SUBSET Sessions
  <2>1. finished \subseteq Sessions /\ settled \in [Sessions -> Nat]
        /\ \A s \in Sessions : settled[s] # 0 => settled[s] \in Ids /\ s \in finished
    BY DEF Inv, Core, Shape, ClaimsAreLive
  <2> QED
    BY <1>2, <2>1 DEF OwnedUpTo, Unsettled
<1>8. TopupsIn(0, W) \in Nat /\ TopupsIn(W, clock) \in Nat
  BY Figures
<1> HIDE DEF n, W, L, f, S, U
<1>9. SumCost(S \cup U) = SumCost(S) + SumCost(U) /\ SumCost(S) \in Nat /\ SumCost(U) \in Nat
  <2>1. IsFiniteSet(S) /\ IsFiniteSet(U) /\ \A s \in S \cup U : Cost[s] \in Int
    BY <1>7, CostsNat, PayoutsAssumption
  <2> QED
    BY <1>7, <2>1, SumUnion, CostsNat DEF SumCost
<1>10. SumFunction(f) + TopupsIn(0, clock) <= SumCost(finished)
  BY <1>3, <1>4, <1>5, <1>6, <1>7, <1>8, <1>9
<1> QED
  BY <1>10 DEF f

\* "A CPO can never draw the same earnings out twice" (services/payouts.py),
\* with its exact condition: as long as no top-up was overtaken on its way to
\* the tenant row by a payout, or at its reads by a cancellation, what was drawn
\* at the bank and as wallet credit is covered by finished sessions.
THEOREM NeverDrawnTwiceHolds == Spec => []NeverDrawnTwice
<1>1. Init => PoolCovered
  <2> SUFFICES ASSUME Init PROVE TopupsIn(Watermark, clock) <= SumCost(Unsettled)
    BY DEF PoolCovered
  <2>1. IssuedIn(Watermark, clock) = {}
    BY DEF Init, IssuedIn
  <2>2. TopupsIn(Watermark, clock) = 0
    BY <2>1, SumEmpty DEF TopupsIn
  <2> QED
    BY <2>2, InitInv, Figures
<1>2. Init => PayoutsFoot
  BY FootsAll DEF Init, Ids
<1> QED
  BY <1>1, <1>2, InitInv, NextInv, FootStep, PoolStep, DrawnCovered, PTL DEF Spec
-----------------------------------------------------------------------------
(* The payouts of the composition *)

\* A step of the composition is a step of the payouts, or leaves them alone.
LEMMA PayoutsSimulated == [InvoicesNext]_<<vars, ivars>> => [Next]_vars
<1> SUFFICES ASSUME [InvoicesNext]_<<vars, ivars>> PROVE [Next]_vars
  OBVIOUS
<1>1. CASE TenantStep
  BY <1>1 DEF TenantStep, Next
<1>2. CASE OtherStep
  BY <1>2 DEF OtherStep, Next
<1>3. ASSUME NEW i \in Issuers,
             (\E s \in Sessions : IssueCheck(i, s)) \/ IssueLock(i) \/ IssueCommit(i)
      PROVE  UNCHANGED vars
  BY <1>3 DEF IssueCheck, IssueLock, IssueCommit
<1> QED
  BY <1>1, <1>2, <1>3 DEF InvoicesNext

\* Invoices take the tenant lock away from payouts for a while, and change
\* nothing about them: every behaviour of the composition is one of Payouts.
THEOREM ImplementsPayouts == InvoicesSpec => Spec
<1>1. InvoicesInit => Init
  BY DEF InvoicesInit
<1> QED
  BY <1>1, PayoutsSimulated, PTL DEF InvoicesSpec, Spec

\* The books of a tenant that also issues invoices.
THEOREM InvoicedPayouts ==
    InvoicesSpec => [](PayoutsConsistent /\ PayoutsFoot /\ NeverDrawnTwice)
BY ImplementsPayouts, PayoutsConsistentHolds, PayoutsFootHolds, NeverDrawnTwiceHolds, PTL
-----------------------------------------------------------------------------
(* The kinds of steps *)

\* A step that grants no refund and touches no invoice.
QuietInvoices == UNCHANGED <<refunds, seq, invoice, issuer>>

Approval(s, c) == /\ ApproveDispute(s, c) /\ AdjustInvoice(s, c)
                  /\ UNCHANGED <<seq, issuer>>

\* A step of a request that numbers nothing.
Approach(i) == (\E s \in Sessions : IssueCheck(i, s)) \/ IssueLock(i)

LEMMA StepKinds ==
    ASSUME [InvoicesNext]_<<vars, ivars>>
    PROVE  \/ QuietInvoices
           \/ \E s \in Sessions, c \in RefundCoins : Approval(s, c)
           \/ \E i \in Issuers : Approach(i) \/ IssueCommit(i)
<1>1. CASE TenantStep
  BY <1>1 DEF TenantStep, QuietInvoices, Approval, RequestPayout, RejectDispute, TopupLock
<1>2. CASE OtherStep
  BY <1>2 DEF OtherStep, QuietInvoices, ivars, Finish, FileDispute, MarkPaid, CancelPayout,
     TopupBegin, TopupReread, TopupIssue
<1>3. CASE UNCHANGED <<vars, ivars>>
  BY <1>3 DEF QuietInvoices, vars, ivars
<1> QED
  BY <1>1, <1>2, <1>3 DEF InvoicesNext, Approach
-----------------------------------------------------------------------------
(* Invoices and refunds *)

IssuerState == [session : Sessions \cup {NoSession}, at : {"idle", "checked", "locked"},
                number : Nat]

InvoiceShape ==
    /\ seq \in Nat \ {0}
    /\ invoice \in [Sessions -> [number : Nat, amount : Nat, refunded : Nat]]
    /\ issuer \in [Issuers -> IssuerState]
    /\ \A i \in Issuers :
           issuer[i].session \in (IF issuer[i].at = "idle" THEN {NoSession} ELSE Sessions)

\* What had been refunded when an invoice was issued is part of what has been.
RefundsGrow == \A s \in Sessions : invoice[s].refunded <= RefundedOf(s)

RefundFacts ==
    \A s \in Sessions : RefundedOf(s) \in Nat /\ RefundedOf(s) <= Cost[s] /\ Cost[s] \in Nat

Retained == InvoiceShape /\ RefundsGrow /\ InvoiceStatesRetained

LEMMA RefundFactsHold == Inv /\ RefundsWithinCost => RefundFacts
<1> SUFFICES ASSUME Inv, RefundsWithinCost, NEW s \in Sessions
             PROVE  RefundedOf(s) \in Nat /\ RefundedOf(s) <= Cost[s] /\ Cost[s] \in Nat
  BY DEF RefundFacts
<1>1. {r \in refunds : r.session = s} \in SUBSET refunds
  OBVIOUS
<1> QED
  BY <1>1, RefundsNat, PayoutsAssumption DEF RefundedOf, RefundsWithinCost, Inv

LEMMA InitRetained == InvoicesInit => Retained
<1> SUFFICES ASSUME InvoicesInit PROVE Retained
  OBVIOUS
<1>1. seq = 1 /\ invoice = [s \in Sessions |-> NoInvoice] /\ issuer = [i \in Issuers |-> Idle]
  BY DEF InvoicesInit
<1>2. InvoiceShape
  BY <1>1 DEF InvoiceShape, NoInvoice, Idle, IssuerState
<1>3. ASSUME NEW s \in Sessions PROVE invoice[s].number = 0 /\ invoice[s].refunded <= RefundedOf(s)
  <2>1. {r \in refunds : r.session = s} = {}
    BY DEF InvoicesInit, Init
  <2>2. RefundedOf(s) = 0
    BY <2>1, SumEmpty DEF RefundedOf, Coins, SumFunction
  <2> QED
    BY <1>1, <2>2 DEF NoInvoice
<1> QED
  BY <1>2, <1>3 DEF Retained, RefundsGrow, InvoiceStatesRetained, Invoiced

\* Without an approval the refunds of every session stand.
LEMMA RefundsStand ==
    ASSUME UNCHANGED refunds
    PROVE  \A s \in Sessions : RefundedOf(s)' = RefundedOf(s)
BY DEF RefundedOf, Coins

\* An approval moves the invoice and the refunds of its session together.
LEMMA ApprovalKeeps ==
    ASSUME Inv, RefundFacts, Retained, NEW s \in Sessions, NEW c \in RefundCoins, Approval(s, c)
    PROVE  Retained'
<1>1. /\ RefundedOf(s)' = RefundedOf(s) + c
      /\ \A o \in Sessions : o # s => RefundedOf(o)' = RefundedOf(o)
  BY RefundedGrows DEF Approval
<1>2. c \in Nat /\ c > 0 /\ RefundedOf(s) + c <= Cost[s]
  BY PayoutsAssumption DEF Approval, ApproveDispute
<1>3. /\ invoice' = [invoice EXCEPT ![s].amount =
                        IF Invoiced(s) THEN AtLeastZero(Cost[s] - RefundedOf(s) - c) ELSE @]
      /\ UNCHANGED <<seq, issuer>>
  BY DEF Approval, AdjustInvoice
<1>4. \A o \in Sessions : RefundedOf(o) \in Nat /\ Cost[o] \in Nat
  BY DEF RefundFacts
<1>5. AtLeastZero(Cost[s] - RefundedOf(s) - c) = Cost[s] - (RefundedOf(s) + c)
  BY <1>2, <1>4 DEF AtLeastZero
<1>6. InvoiceShape'
  BY <1>2, <1>3, <1>4, <1>5 DEF Retained, InvoiceShape
<1>7. \A o \in Sessions : /\ invoice'[o].number = invoice[o].number
                          /\ invoice'[o].refunded = invoice[o].refunded
                          /\ o # s => invoice'[o].amount = invoice[o].amount
  BY <1>3 DEF Retained, InvoiceShape
<1>8. Invoiced(s) => invoice'[s].amount = Cost[s] - (RefundedOf(s) + c)
  BY <1>3, <1>5 DEF Retained, InvoiceShape
<1>9. invoice[s].refunded \in Nat /\ invoice[s].refunded <= RefundedOf(s)
  BY DEF Retained, InvoiceShape, RefundsGrow
<1>10. RefundsGrow'
  <2> SUFFICES ASSUME NEW o \in Sessions PROVE invoice'[o].refunded <= RefundedOf(o)'
    BY DEF RefundsGrow
  <2>1. invoice[o].refunded \in Nat /\ invoice[o].refunded <= RefundedOf(o)
    BY DEF Retained, InvoiceShape, RefundsGrow
  <2> QED
    BY <1>1, <1>2, <1>4, <1>7, <2>1
<1>11. InvoiceStatesRetained'
  <2> SUFFICES ASSUME NEW o \in Sessions, Invoiced(o)'
               PROVE  invoice'[o].amount = IF RefundedOf(o)' = invoice'[o].refunded
                                           THEN Cost[o] ELSE Cost[o] - RefundedOf(o)'
    BY DEF InvoiceStatesRetained
  <2>1. Invoiced(o)
    BY <1>7 DEF Invoiced
  <2>2. CASE o = s
    BY <1>1, <1>2, <1>4, <1>7, <1>8, <1>9, <2>1, <2>2
  <2>3. CASE o # s
    BY <1>1, <1>7, <2>1, <2>3 DEF Retained, InvoiceStatesRetained
  <2> QED
    BY <2>2, <2>3
<1> QED
  BY <1>6, <1>10, <1>11 DEF Retained

\* A commit states the full cost, with the refunds granted by then behind it.
LEMMA CommitKeeps ==
    ASSUME RefundFacts, Retained, NEW i \in Issuers, IssueCommit(i)
    PROVE  Retained'
<1> DEFINE s == issuer[i].session
           new == [number |-> issuer[i].number, amount |-> Cost[s], refunded |-> RefundedOf(s)]
<1>1. UNCHANGED refunds /\ issuer' = [issuer EXCEPT ![i] = Idle]
  BY DEF IssueCommit, vars
<1>2. s \in Sessions /\ issuer[i].number \in Nat
  BY DEF IssueCommit, Retained, InvoiceShape, IssuerState
<1>3. \/ UNCHANGED <<seq, invoice>>
      \/ seq' = seq + 1 /\ invoice' = [invoice EXCEPT ![s] = new]
  BY DEF IssueCommit
<1>4. RefundedOf(s) \in Nat /\ Cost[s] \in Nat
  BY <1>2 DEF RefundFacts
<1>5. /\ new \in [number : Nat, amount : Nat, refunded : Nat]
      /\ new.amount = Cost[s] /\ new.refunded = RefundedOf(s)
  BY <1>2, <1>4
<1> HIDE DEF s, new
<1>6. InvoiceShape'
  BY <1>1, <1>2, <1>3, <1>5 DEF Retained, InvoiceShape, Idle, IssuerState
<1>7. \A o \in Sessions : RefundedOf(o)' = RefundedOf(o)
  BY <1>1, RefundsStand
<1>8. \A o \in Sessions : invoice'[o] = invoice[o] \/ (o = s /\ invoice'[o] = new)
  BY <1>3 DEF Retained, InvoiceShape
<1>9. RefundsGrow'
  BY <1>4, <1>5, <1>7, <1>8 DEF RefundsGrow, Retained
<1>10. InvoiceStatesRetained'
  BY <1>5, <1>7, <1>8 DEF InvoiceStatesRetained, Invoiced, Retained
<1> QED
  BY <1>6, <1>9, <1>10 DEF Retained

\* A request moves from its check to the lock, and changes its own record only.
LEMMA ApproachMoves ==
    ASSUME InvoiceShape, NEW i \in Issuers, Approach(i)
    PROVE  /\ UNCHANGED <<refunds, invoice, seq>>
           /\ issuer' \in [Issuers -> IssuerState] /\ issuer'[i].session \in Sessions
           /\ \A j \in Issuers : j # i => issuer'[j] = issuer[j]
           /\ \/ issuer'[i].at = "checked"
              \/ issuer'[i].at = "locked" /\ issuer'[i].number = seq /\ TenantFree
<1>1. CASE \E s \in Sessions : IssueCheck(i, s)
  BY <1>1 DEF IssueCheck, InvoiceShape, IssuerState, vars
<1>2. CASE IssueLock(i)
  <2>1. issuer[i] \in IssuerState /\ issuer[i].at = "checked" /\ seq \in Nat
        /\ issuer[i].session \in Sessions
    BY <1>2 DEF IssueLock, InvoiceShape
  <2>2. issuer' = [issuer EXCEPT ![i].at = "locked", ![i].number = seq]
        /\ UNCHANGED <<refunds, invoice, seq>> /\ TenantFree
    BY <1>2 DEF IssueLock, vars
  <2> QED
    BY <2>1, <2>2 DEF InvoiceShape, IssuerState
<1> QED
  BY <1>1, <1>2 DEF Approach

LEMMA RetainedStep ==
    Inv /\ RefundFacts /\ Retained /\ [InvoicesNext]_<<vars, ivars>> => Retained'
<1> SUFFICES ASSUME Inv, RefundFacts, Retained, [InvoicesNext]_<<vars, ivars>>
             PROVE  Retained'
  OBVIOUS
<1>1. ASSUME UNCHANGED <<refunds, invoice>>, InvoiceShape' PROVE Retained'
  BY <1>1, RefundsStand DEF Retained, RefundsGrow, InvoiceStatesRetained, Invoiced
<1>2. CASE QuietInvoices
  BY <1>1, <1>2 DEF QuietInvoices, Retained, InvoiceShape
<1>3. ASSUME NEW i \in Issuers, Approach(i) PROVE Retained'
  <2>1. UNCHANGED <<refunds, invoice, seq>>
    BY <1>3 DEF Approach, IssueCheck, IssueLock, vars
  <2>2. InvoiceShape'
    BY <1>3, <2>1, ApproachMoves DEF Retained, InvoiceShape
  <2> QED
    BY <1>1, <2>1, <2>2
<1> QED
  BY <1>2, <1>3, StepKinds, ApprovalKeeps, CommitKeeps

LEMMA RetainedHolds == InvoicesSpec => []Retained
<1>1. InvoicesSpec => [](Inv /\ RefundsWithinCost)
  BY ImplementsPayouts, SpecInv, RefundsWithinCostHolds, PTL
<1> QED
  BY <1>1, RefundFactsHold, InitRetained, RetainedStep, PTL DEF InvoicesSpec

\* adjust_invoice_for_session_refund, in the transaction that approves a dispute:
\* for every order of issuing and refunding, an invoice states the cost less all
\* the refunds, unless every one of them preceded it.
THEOREM InvoicesConsistentHolds == InvoicesSpec => []InvoicesConsistent
<1>1. InvoicesSpec => [](TypeOK /\ RefundsWithinCost)
  BY ImplementsPayouts, PayoutsTypeCorrect, RefundsWithinCostHolds, PTL
<1>2. InvoicesSpec => []Retained
  BY RetainedHolds
<1>3. TypeOK /\ RefundsWithinCost /\ Retained => InvoicesConsistent
  BY DEF Retained, InvoiceShape, IssuerState, InvoicesConsistent, InvoicesTypeOK
<1> QED
  BY <1>1, <1>2, <1>3, PTL
-----------------------------------------------------------------------------
(* Numbers *)

InvoicedSessions == {s \in Sessions : Invoiced(s)}

Numbering ==
    /\ Cardinality(InvoicedSessions) = seq - 1
    /\ \A n \in 1 .. seq - 1 : \E s \in Sessions : invoice[s].number = n
    /\ \A s \in Sessions : invoice[s].number < seq
    /\ \A s, o \in Sessions : Invoiced(s) /\ invoice[s].number = invoice[o].number => s = o
    /\ \A i \in Issuers : issuer[i].at = "locked" => issuer[i].number = seq
    /\ \A i, j \in Issuers : issuer[i].at = "locked" /\ issuer[j].at = "locked" => i = j

LEMMA InitNumbering == InvoicesInit => Numbering
<1> SUFFICES ASSUME InvoicesInit PROVE Numbering
  OBVIOUS
<1>1. /\ seq = 1 /\ \A i \in Issuers : issuer[i].at = "idle"
      /\ \A s \in Sessions : invoice[s].number = 0
  BY DEF InvoicesInit, NoInvoice, Idle
<1>2. InvoicedSessions = {}
  BY <1>1 DEF InvoicedSessions, Invoiced
<1>3. Cardinality(InvoicedSessions) = 0
  BY <1>2, FS_EmptySet
<1> QED
  BY <1>1, <1>3 DEF Numbering, Invoiced

\* The commit of a request that finds its session without an invoice.
NewNumber(i) == IssueCommit(i) /\ ~Invoiced(issuer[i].session)

LEMMA NewNumberFacts ==
    ASSUME InvoiceShape, Numbering, NEW i \in Issuers, NewNumber(i)
    PROVE  /\ issuer[i].session \in Sessions /\ issuer[i].number = seq
           /\ invoice[issuer[i].session].number = 0
           /\ seq' = seq + 1 /\ issuer' = [issuer EXCEPT ![i] = Idle]
           /\ \A o \in Sessions : invoice'[o].number =
                  IF o = issuer[i].session THEN seq ELSE invoice[o].number
<1>1. issuer[i].session \in Sessions /\ issuer[i].at = "locked" /\ issuer[i].number = seq
  BY DEF NewNumber, IssueCommit, InvoiceShape, Numbering
<1> QED
  BY <1>1 DEF NewNumber, IssueCommit, Invoiced, InvoiceShape

\* Every other step leaves the numbers alone.
LEMMA NumbersStand ==
    ASSUME InvoiceShape, [InvoicesNext]_<<vars, ivars>>, ~(\E i \in Issuers : NewNumber(i))
    PROVE  UNCHANGED seq /\ \A s \in Sessions : invoice'[s].number = invoice[s].number
<1>1. CASE QuietInvoices
  BY <1>1 DEF QuietInvoices
<1>2. ASSUME NEW s \in Sessions, NEW c \in RefundCoins, Approval(s, c)
      PROVE  UNCHANGED seq /\ \A o \in Sessions : invoice'[o].number = invoice[o].number
  BY <1>2 DEF Approval, AdjustInvoice, InvoiceShape
<1>3. ASSUME NEW i \in Issuers, Approach(i) \/ IssueCommit(i)
      PROVE  UNCHANGED seq /\ \A o \in Sessions : invoice'[o].number = invoice[o].number
  BY <1>3, ApproachMoves DEF NewNumber, IssueCommit
<1> QED
  BY <1>1, <1>2, <1>3, StepKinds

\* FOR UPDATE of the tenant row: a request reads the counter only when no other
\* holds it, and a commit that loses the race leaves it where it was.
LEMMA NumberingStep ==
    InvoiceShape /\ Numbering /\ [InvoicesNext]_<<vars, ivars>> => Numbering'
<1> SUFFICES ASSUME InvoiceShape, Numbering, [InvoicesNext]_<<vars, ivars>>
             PROVE  Numbering'
  OBVIOUS
<1>1. ASSUME NEW i \in Issuers, NewNumber(i) PROVE Numbering'
  <2> DEFINE s == issuer[i].session
  <2>1. /\ s \in Sessions /\ invoice[s].number = 0
        /\ seq' = seq + 1 /\ issuer' = [issuer EXCEPT ![i] = Idle]
        /\ \A o \in Sessions : invoice'[o].number = IF o = s THEN seq ELSE invoice[o].number
    BY <1>1, NewNumberFacts
  <2>2. seq \in Nat \ {0} /\ issuer[i].at = "locked"
    BY <1>1 DEF InvoiceShape, NewNumber, IssueCommit
  <2>3. IsFiniteSet(InvoicedSessions)
    BY PayoutsAssumption, FS_Subset DEF InvoicedSessions
  <2> HIDE DEF s
  <2>4. InvoicedSessions' = InvoicedSessions \cup {s} /\ s \notin InvoicedSessions
    BY <2>1, <2>2 DEF InvoicedSessions, Invoiced
  <2>5. Cardinality(InvoicedSessions') = Cardinality(InvoicedSessions) + 1
    BY <2>3, <2>4, FS_AddElement
  <2>6. Cardinality(InvoicedSessions)' = seq' - 1
    BY <2>1, <2>2, <2>5 DEF Numbering
  <2>7. \A n \in 1 .. seq' - 1 : \E o \in Sessions : invoice'[o].number = n
    <3> SUFFICES ASSUME NEW n \in 1 .. seq' - 1
                 PROVE  \E o \in Sessions : invoice'[o].number = n
      OBVIOUS
    <3>1. CASE n = seq
      BY <2>1, <3>1
    <3>2. CASE n # seq
      <4>1. n \in 1 .. seq - 1
        BY <2>1, <2>2, <3>2
      <4>2. PICK o \in Sessions : invoice[o].number = n
        BY <4>1 DEF Numbering
      <4> QED
        BY <2>1, <4>1, <4>2
    <3> QED
      BY <3>1, <3>2
  <2>8. /\ \A o \in Sessions : invoice'[o].number < seq'
        /\ \A o, q \in Sessions : Invoiced(o)' /\ invoice'[o].number = invoice'[q].number => o = q
    <3>1. \A o \in Sessions : invoice[o].number \in Nat /\ invoice[o].number < seq
      BY DEF InvoiceShape, Numbering
    <3> QED
      BY <2>1, <2>2, <3>1 DEF Numbering, Invoiced
  <2>9. \A j \in Issuers : issuer'[j].at # "locked"
    BY <2>1, <2>2 DEF Numbering, Idle, InvoiceShape
  <2> QED
    BY <2>6, <2>7, <2>8, <2>9 DEF Numbering
<1>2. CASE ~(\E i \in Issuers : NewNumber(i))
  <2>1. UNCHANGED seq /\ \A s \in Sessions : invoice'[s].number = invoice[s].number
    BY <1>2, NumbersStand
  <2>2. InvoicedSessions' = InvoicedSessions
    BY <2>1 DEF InvoicedSessions, Invoiced
  <2>3. \/ UNCHANGED issuer
        \/ \E i \in Issuers : \/ issuer' = [issuer EXCEPT ![i] = Idle]
                              \/ Approach(i)
    BY StepKinds DEF QuietInvoices, Approval, IssueCommit
  <2> DEFINE Held == /\ \A i \in Issuers : issuer[i].at = "locked" => issuer[i].number = seq
                     /\ \A i, j \in Issuers :
                            issuer[i].at = "locked" /\ issuer[j].at = "locked" => i = j
  <2>4. Held'
    <3>1. CASE UNCHANGED issuer
      BY <2>1, <3>1 DEF Numbering
    <3>2. ASSUME NEW k \in Issuers, issuer' = [issuer EXCEPT ![k] = Idle] PROVE Held'
      BY <2>1, <3>2 DEF Numbering, Idle, InvoiceShape
    <3>3. ASSUME NEW k \in Issuers, Approach(k) PROVE Held'
      BY <3>3, ApproachMoves DEF Numbering, TenantFree, InvoiceShape
    <3> QED
      BY <2>3, <3>1, <3>2, <3>3
  <2> QED
    BY <2>1, <2>2, <2>4 DEF Numbering, Invoiced
<1> QED
  BY <1>1, <1>2

LEMMA NumbersHold == InvoicesSpec => [](InvoiceShape /\ Numbering)
<1>1. InvoicesSpec => []Retained
  BY RetainedHolds
<1>2. Retained => InvoiceShape
  BY DEF Retained
<1> QED
  BY <1>1, <1>2, InitNumbering, NumberingStep, PTL DEF InvoicesSpec
-----------------------------------------------------------------------------
(* The register *)

Entries == [n \in 1 .. Cardinality({s \in Sessions : Invoiced(s)}) |-> Numbered(n)]

EntriesFacts ==
    /\ Entries \in [1 .. seq - 1 -> Sessions] /\ seq \in Nat \ {0}
    /\ \A n \in 1 .. seq - 1, s \in Sessions : Entries[n] = s <=> invoice[s].number = n

\* The session of each number is the one that has it.
LEMMA EntriesFactsHold == InvoiceShape /\ Numbering => EntriesFacts
<1> SUFFICES ASSUME InvoiceShape, Numbering PROVE EntriesFacts
  OBVIOUS
<1>1. Entries = [n \in 1 .. seq - 1 |-> Numbered(n)] /\ seq \in Nat \ {0}
  BY DEF Entries, Numbering, InvoicedSessions, InvoiceShape
<1>2. ASSUME NEW n \in 1 .. seq - 1
      PROVE  Numbered(n) \in Sessions /\ invoice[Numbered(n)].number = n
  <2>1. \E s \in Sessions : invoice[s].number = n
    BY DEF Numbering
  <2> QED
    BY <2>1 DEF Numbered
<1>3. ASSUME NEW n \in 1 .. seq - 1, NEW s \in Sessions, invoice[s].number = n
      PROVE  Numbered(n) = s
  <2>1. n # 0
    BY <1>1
  <2> QED
    BY <1>2, <1>3, <2>1 DEF Numbering, Invoiced
<1> QED
  BY <1>1, <1>2, <1>3 DEF EntriesFacts

\* A step of the composition enters one session at the next number, or none.
LEMMA EntriesStep ==
    /\ EntriesFacts /\ EntriesFacts' /\ InvoiceShape /\ Numbering
    /\ [InvoicesNext]_<<vars, ivars>>
    => [Register!Next]_Entries
<1> SUFFICES ASSUME EntriesFacts, EntriesFacts', InvoiceShape, Numbering,
                    [InvoicesNext]_<<vars, ivars>>
             PROVE  [Register!Next]_Entries
  OBVIOUS
<1>1. /\ Entries \in [1 .. seq - 1 -> Sessions] /\ seq \in Nat \ {0}
      /\ \A n \in 1 .. seq - 1, s \in Sessions : Entries[n] = s <=> invoice[s].number = n
  BY DEF EntriesFacts
<1>2. /\ Entries' \in [1 .. seq' - 1 -> Sessions] /\ seq' \in Nat \ {0}
      /\ \A n \in 1 .. seq' - 1, s \in Sessions : Entries'[n] = s <=> invoice'[s].number = n
  BY DEF EntriesFacts
<1>3. CASE ~(\E i \in Issuers : NewNumber(i))
  <2>1. UNCHANGED seq /\ \A s \in Sessions : invoice'[s].number = invoice[s].number
    BY <1>3, NumbersStand
  <2>2. \A n \in 1 .. seq - 1 : Entries'[n] = Entries[n]
    BY <1>1, <1>2, <2>1
  <2>3. Entries' = Entries
    BY <1>1, <1>2, <2>1, <2>2
  <2> QED
    BY <2>3
<1>4. ASSUME NEW i \in Issuers, NewNumber(i) PROVE Register!Next
  <2> DEFINE s == issuer[i].session
  <2>1. /\ s \in Sessions /\ invoice[s].number = 0 /\ seq' = seq + 1
        /\ \A o \in Sessions : invoice'[o].number = IF o = s THEN seq ELSE invoice[o].number
    BY <1>4, NewNumberFacts
  <2> HIDE DEF s
  <2>2. \A n \in DOMAIN Entries : Entries[n] # s
    BY <1>1, <2>1
  <2>3. /\ DOMAIN Entries' = 1 .. seq /\ Entries'[seq] = s
        /\ \A n \in 1 .. seq - 1 : Entries'[n] = Entries[n]
    <3>1. seq' - 1 = seq
      BY <1>1, <2>1
    <3>2. Entries'[seq] = s
      BY <1>1, <1>2, <2>1, <3>1
    <3>3. ASSUME NEW n \in 1 .. seq - 1 PROVE Entries'[n] = Entries[n]
      <4>1. Entries[n] \in Sessions /\ invoice[Entries[n]].number = n /\ n # 0 /\ n # seq
        BY <1>1
      <4>2. invoice'[Entries[n]].number = n /\ n \in 1 .. seq' - 1
        BY <1>1, <2>1, <4>1
      <4> QED
        BY <1>2, <4>1, <4>2
    <3> QED
      BY <1>2, <3>1, <3>2, <3>3
  <2>4. Entries \in Seq(Sessions) /\ Len(Entries) = seq - 1
    BY <1>1, LenProperties, SeqDef
  <2>5. Entries' \in Seq(Sessions) /\ Len(Entries') = seq
    <3>1. seq' - 1 = seq
      BY <1>1, <2>1
    <3>2. Entries' \in [1 .. seq -> Sessions] /\ seq \in Nat
      BY <1>1, <1>2, <3>1
    <3> QED
      BY <3>2, LenProperties, SeqDef
  <2>6. Entries' = Append(Entries, s)
    BY <1>1, <2>1, <2>3, <2>4, <2>5, AppendProperties, SeqEqual
  <2> QED
    BY <2>1, <2>2, <2>6 DEF Register!Next, Register!Issue, Entries
<1> QED
  BY <1>3, <1>4

\* issue_invoice_for_session implements the tenant's register, however many first
\* requests for however many sessions race: each invoiced session has one number,
\* the numbers run from 1 without a gap, and none is ever changed.
THEOREM RegisterSpecHolds == InvoicesSpec => RegisterSpec
<1>1. InvoicesInit => Register!Init
  <2> SUFFICES ASSUME InvoicesInit PROVE Entries = <<>>
    BY DEF Register!Init, Entries
  <2>1. InvoicedSessions = {}
    BY DEF InvoicesInit, InvoicedSessions, Invoiced, NoInvoice
  <2>2. Cardinality({s \in Sessions : Invoiced(s)}) = 0
    BY <2>1, FS_EmptySet DEF InvoicedSessions
  <2>3. Entries = [n \in 1 .. 0 |-> Numbered(n)]
    BY <2>2 DEF Entries
  <2> HIDE DEF Entries
  <2>4. DOMAIN Entries = 1 .. 0 /\ Entries \in [1 .. 0 -> Sessions]
    BY <2>3
  <2>5. Entries \in Seq(Sessions) /\ Len(Entries) = 0
    BY <2>4, LenProperties, SeqDef
  <2> QED
    BY <2>5, EmptySeq
<1>2. [Register!Next]_Entries
      => [Register!Next]_([n \in 1 .. Cardinality({s \in Sessions : Invoiced(s)}) |-> Numbered(n)])
  BY DEF Entries
<1> QED
  BY <1>1, <1>2, NumbersHold, EntriesFactsHold, EntriesStep, PTL
     DEF InvoicesSpec, RegisterSpec, Register!Spec
=============================================================================
