------------------------ MODULE AccountsNoticesProofs ------------------------
(***************************************************************************)
(* Accounts and Notices, which share no state, for any number of rows,     *)
(* links, codes, requests in flight and restarts.                          *)
(*                                                                         *)
(* A JWT is never stored, so the argument is about what a row may become   *)
(* (Onward): a proved address stays proved, and the epoch rises with the   *)
(* password and when a role is lost, but for a row whose Google take-over  *)
(* crossed another change.  A JWT, a JWT under a code, one that a sign-in  *)
(* is about to hand out, and what a Google sign-in read of a row, are each *)
(* sound when made and stay so.                                            *)
(*                                                                         *)
(* The limiter's budget rests on Counted: whatever prefix of the deque     *)
(* lies outside a window, the failures in the window are at most the rest. *)
(*                                                                         *)
(* A watch or a capacity request is in the hand of one fan-out at most     *)
(* (OneHand), is told by it once (ToldLeaves), and stays in that hand as   *)
(* long as it is armed (ToldInHand), so that no later fan-out reads it     *)
(* again: unless two fan-outs read it at once, or its delete failed or was *)
(* lost, which the model notes in doubled.                                 *)
(***************************************************************************)
EXTENDS Accounts, Notices, SequenceTheorems, SumTheorems

User == [state : {"none", "live", "closed"}, verified : BOOLEAN,
         disabled : BOOLEAN, password : Passwords \cup {NoPassword},
         tv : 0 .. MaxEpoch, google : BOOLEAN,
         role : {"driver", "cpo"}, tenant : BOOLEAN]
Link == [state : {"none", "live", "used", "gone"}, kind : {"none", "verify", "reset"},
         user : 0 .. MaxUsers, due : 0 .. MaxTime + LinkTtl]
Token == [user : Users, tv : 0 .. MaxEpoch, role : {"driver", "cpo"},
          password : Passwords \cup {NoPassword}]
Ops == {"idle", "register", "issue", "issued", "verify", "verified", "reset",
        "login", "google", "signed", "logout", "setup", "close", "admin"}

Tables ==
    /\ row \in [Users -> User] /\ link \in [Links -> Link]
    /\ now \in Times /\ crossed \in SUBSET Users

\* Ids are given out from 1.
RowsFilled == \E n \in 0 .. MaxUsers : \A u \in Users : row[u].state # "none" <=> u <= n
LinksFilled == \E n \in 0 .. MaxLinks : \A l \in Links : link[l].state # "none" <=> l <= n

OneLive == \A u, v \in Users : row[u].state = "live" /\ row[v].state = "live" => u = v

\* The address of the row was proved, or the row is a tombstone.
ProvedRow(r) == r.state = "closed" \/ (r.state = "live" /\ r.verified)
Proved(u) == ProvedRow(row[u])

GoogleProved == \A u \in Users : row[u].google => Proved(u)

Rows == RowsFilled /\ OneLive /\ GoogleProved

\* What was read of a row is not ahead of it.
Behind(u, tv, role) ==
    u \notin crossed =>
        tv <= row[u].tv /\ (tv = row[u].tv /\ role = "cpo" => row[u].role = "cpo")

Sound(t) ==
    /\ Proved(t.user) /\ Behind(t.user, t.tv, t.role)
    /\ t.user \notin crossed /\ t.tv = row[t.user].tv /\ t.password # NoPassword
          => t.password = row[t.user].password

\* What a Google sign-in has read.
Seen(s) ==
    /\ s.user \in Users /\ s.row \in User /\ row[s.user].state # "none"
    /\ Behind(s.user, s.row.tv, s.row.role)
    /\ s.row.google \/ s.row.verified => Proved(s.user)

Known(u) == u \in Users /\ row[u].state # "none"
Issued(l) == l \in Links /\ link[l].state # "none"

\* What a request knows.
Valid(r) ==
    /\ r.op \in Ops
    /\ r.op \in {"register", "reset"} => r.password \in Passwords
    /\ r.op \in {"issue", "issued"} => r.kind \in {"verify", "reset"} /\ Known(r.user)
    /\ r.op = "issued" => \A l \in r.voids :
          Issued(l) /\ link[l].kind = r.kind /\ link[l].user = r.user
    /\ r.op \in {"verify", "reset"} => Issued(r.link)
    /\ r.op \in {"verified", "signed"} => Known(r.user) /\ Proved(r.user)
    /\ r.op = "login" => r.right \in BOOLEAN /\ r.jwts \in SUBSET Token /\ \A t \in r.jwts : Sound(t)
    /\ r.op = "google" => \A s \in r.seen : Seen(s)
    /\ r.op \in {"logout", "setup", "close", "admin"} => Known(r.user)
    /\ r.op = "admin" => r.req \in AdminRequests /\ r.seen \in User

Held == jwt \in SUBSET Token /\ \A t \in jwt : Sound(t)
Stashed ==
    /\ code \in [Codes -> [jwt : SUBSET Token, due : Int]]
    /\ \A c \in Codes : \A t \in code[c].jwt : Sound(t)
Serving == work = [w \in Workers |-> work[w]] /\ \A w \in Workers : Valid(work[w])

Credentials == Held /\ Stashed /\ Serving

Owned ==
    \A l \in Links :
        /\ link[l].state = "none" => link[l].kind = "none"
        /\ link[l].state # "none" => link[l].kind \in {"verify", "reset"} /\ Known(link[l].user)
Untaken == \A l \in Links : link[l].state \in {"none", "live"} => taken[l] = 0

Mail ==
    /\ taken \in [Links -> Nat]
    /\ Owned /\ Untaken
    /\ LinksSingleUse /\ NewestLinkLives

\* The failures after x are at most the deque without a prefix up to x.
Counted ==
    \A x \in Int : x >= now - Window =>
        \A k \in 0 .. Len(hits) :
            (\A i \in 1 .. k : hits[i] <= x) => Tried(x, MaxTime) <= Len(hits) - k

Limiter ==
    /\ tries \in [Times -> Nat] /\ hits \in Seq(Nat) /\ Len(hits) <= Budget
    /\ Counted /\ FailureBudget

AccountsInv == Tables /\ Rows /\ LinksFilled /\ Credentials /\ Mail /\ Limiter
-----------------------------------------------------------------------------
(* The constants, ids and the limiter *)

LEMMA Bounds ==
    /\ MaxUsers \in Nat \ {0} /\ MaxLinks \in Nat /\ MaxCodes \in Nat /\ MaxEpoch \in Nat \ {0}
    /\ MaxTime \in Nat /\ LinkTtl \in Nat \ {0} /\ CodeTtl \in Nat \ {0}
    /\ Budget \in Nat \ {0} /\ Window \in Nat \ {0} /\ NoPassword \notin Passwords
  BY AccountsAssumption

LEMMA FirstNumbers ==
    ASSUME NEW n \in Nat
    PROVE  IsFiniteSet(1 .. n) /\ Cardinality(1 .. n) = n
  BY FS_Interval

\* The members of 1 .. m up to n are as many as n.
LEMMA InitialSegment ==
    ASSUME NEW m \in Nat, NEW n \in 0 .. m, NEW S, S = {u \in 1 .. m : u <= n}
    PROVE  Cardinality(S) = n
<1>1. S = 1 .. n
  OBVIOUS
<1>2. Cardinality(1 .. n) = n
  BY FirstNumbers
<1> QED
  BY <1>1, <1>2

\* The next id of a row is one that no row has yet.
LEMMA NextUserFree ==
    ASSUME RowsFilled
    PROVE  \E n \in 0 .. MaxUsers :
              NextUser = n + 1 /\ \A u \in Users : row[u].state # "none" <=> u <= n
<1>1. PICK n \in 0 .. MaxUsers : \A u \in Users : row[u].state # "none" <=> u <= n
  BY DEF RowsFilled
<1>2. {u \in Users : row[u].state # "none"} = {u \in 1 .. MaxUsers : u <= n}
  BY <1>1 DEF Users
<1>3. Cardinality({u \in Users : row[u].state # "none"}) = n
  BY <1>2, Bounds, InitialSegment
<1> QED
  BY <1>1, <1>3 DEF NextUser

LEMMA NextLinkFree ==
    ASSUME LinksFilled
    PROVE  \E n \in 0 .. MaxLinks :
              NextLink = n + 1 /\ \A l \in Links : link[l].state # "none" <=> l <= n
<1>1. PICK n \in 0 .. MaxLinks : \A l \in Links : link[l].state # "none" <=> l <= n
  BY DEF LinksFilled
<1>2. {l \in Links : link[l].state # "none"} = {l \in 1 .. MaxLinks : l <= n}
  BY <1>1 DEF Links
<1>3. Cardinality({l \in Links : link[l].state # "none"}) = n
  BY <1>2, Bounds, InitialSegment
<1> QED
  BY <1>1, <1>3 DEF NextLink

\* What is left of a sequence after its first d members.
LEMMA Suffix ==
    ASSUME NEW q \in Seq(Nat), NEW d \in Nat, d <= Len(q)
    PROVE  /\ SubSeq(q, d + 1, Len(q)) \in Seq(Nat)
           /\ Len(SubSeq(q, d + 1, Len(q))) = Len(q) - d
           /\ \A i \in 1 .. Len(q) - d : SubSeq(q, d + 1, Len(q))[i] = q[d + i]
<1>1. PICK n : n = Len(q)
  OBVIOUS
<1>2. n \in Nat /\ \A i \in 1 .. n : q[i] \in Nat
  BY <1>1, ElementOfSeq
<1>3. PICK m : m = d + 1
  OBVIOUS
<1>4. m \in Int /\ n \in Int /\ \A i \in m .. n : i \in 1 .. n
  BY <1>2, <1>3
<1>5. /\ SubSeq(q, m, n) \in Seq(Nat)
      /\ Len(SubSeq(q, m, n)) = IF m <= n THEN n - m + 1 ELSE 0
      /\ \A i \in 1 .. n - m + 1 : SubSeq(q, m, n)[i] = q[m + i - 1]
  <2>1. \A i \in m .. n : q[i] \in Nat
    BY <1>2, <1>4
  <2> QED
    BY <1>4, <2>1, SubSeqProperties
<1>6. n - m + 1 = n - d /\ (IF m <= n THEN n - m + 1 ELSE 0) = n - d
  <2>1. d <= n
    BY <1>1
  <2> QED
    BY <1>2, <1>3, <2>1
<1>7. ASSUME NEW i \in 1 .. n - d PROVE SubSeq(q, m, n)[i] = q[d + i]
  <2>1. m + i - 1 = d + i /\ i \in 1 .. n - m + 1
    BY <1>2, <1>3, <1>6
  <2> QED
    BY <1>5, <2>1
<1> QED
  BY <1>1, <1>3, <1>5, <1>6, <1>7

\* check pops a prefix of the deque, all of it outside the window.
Popped(dq, d) ==
    /\ d \in 0 .. Len(dq) /\ \A i \in 1 .. d : dq[i] <= now - Window
    /\ Recent(dq) \in Seq(Nat) /\ Len(Recent(dq)) = Len(dq) - d
    /\ \A i \in 1 .. Len(dq) - d : Recent(dq)[i] = dq[d + i]

LEMMA Pops == ASSUME NEW dq \in Seq(Nat) PROVE \E d : Popped(dq, d)
<1> DEFINE S == Stale(dq)
<1>0. PICK d : d = Cardinality(S)
  OBVIOUS
<1>1. Len(dq) \in Nat /\ DOMAIN dq = 1 .. Len(dq) /\ \A i \in 1 .. Len(dq) : dq[i] \in Nat
  BY ElementOfSeq
<1>2. /\ S \in SUBSET (1 .. Len(dq))
      /\ \A n \in S : \A i \in 1 .. n : dq[i] <= now - Window
      /\ \A n \in S : 1 .. n \in SUBSET S
  <2>1. S \in SUBSET (1 .. Len(dq)) /\ \A n \in S : \A i \in 1 .. n : dq[i] <= now - Window
    BY <1>1 DEF Stale
  <2>2. ASSUME NEW n \in S, NEW m \in 1 .. n PROVE m \in S
    <3>1. m \in DOMAIN dq
      BY <1>1, <2>1
    <3>2. \A i \in 1 .. m : i \in 1 .. n
      BY <1>1, <2>1
    <3> QED
      BY <2>1, <3>1, <3>2 DEF Stale
  <2> QED
    BY <2>1, <2>2
<1> HIDE DEF S
<1>3. IsFiniteSet(1 .. Len(dq)) /\ Cardinality(1 .. Len(dq)) = Len(dq)
  BY <1>1, FirstNumbers
<1>4. d \in Nat /\ d <= Len(dq)
  <2>1. IsFiniteSet(S) /\ Cardinality(S) <= Cardinality(1 .. Len(dq))
    BY <1>2, <1>3, FS_Subset
  <2>2. Cardinality(S) \in Nat
    BY <2>1, FS_CardinalityType
  <2> QED
    BY <1>0, <1>3, <2>1, <2>2
<1>5. S = 1 .. d
  <2>1. ASSUME NEW n \in S PROVE n \in 1 .. d
    <3>1. n \in Nat /\ n >= 1 /\ Cardinality(1 .. n) = n
      BY <1>1, <1>2, FS_Interval
    <3>2. Cardinality(1 .. n) <= d
      BY <1>0, <1>2, <1>3, FS_Subset
    <3> QED
      BY <1>4, <3>1, <3>2
  <2>2. IsFiniteSet(1 .. d) /\ Cardinality(1 .. d) = d
    BY <1>4, FS_Interval
  <2>3. S \in SUBSET (1 .. d)
    BY <2>1
  <2> QED
    BY <1>0, <2>2, <2>3, FS_Subset
<1>6. \A i \in 1 .. d : dq[i] <= now - Window
  <2>1. CASE d = 0
    BY <2>1
  <2>2. CASE d # 0
    <3>1. d \in S
      BY <1>4, <1>5, <2>2
    <3> QED
      BY <1>2, <3>1
  <2> QED
    BY <2>1, <2>2
<1>7. Recent(dq) = SubSeq(dq, d + 1, Len(dq))
  BY <1>0 DEF Recent, S
<1>8. /\ Recent(dq) \in Seq(Nat) /\ Len(Recent(dq)) = Len(dq) - d
      /\ \A i \in 1 .. Len(dq) - d : Recent(dq)[i] = dq[d + i]
  <2>1. PICK q : q = SubSeq(dq, d + 1, Len(dq))
    OBVIOUS
  <2>2. q \in Seq(Nat) /\ Len(q) = Len(dq) - d /\ \A i \in 1 .. Len(dq) - d : q[i] = dq[d + i]
    BY <1>4, <2>1, Suffix
  <2> QED
    BY <1>7, <2>1, <2>2
<1>9. d \in 0 .. Len(dq)
  BY <1>1, <1>4
<1>10. Popped(dq, d)
  BY <1>6, <1>8, <1>9 DEF Popped
<1> QED
  BY <1>10

\* Tried, Counted and FailureBudget of a history f and a deque dq at time n.
Span(x, y) == {t \in Times : x < t /\ t <= y}
TriedIn(f, x, y) == SumFunctionOnSet(f, Span(x, y))
CountedIn(f, dq, n) ==
    \A x \in Int : x >= n - Window =>
        \A k \in 0 .. Len(dq) :
            (\A i \in 1 .. k : dq[i] <= x) => TriedIn(f, x, MaxTime) <= Len(dq) - k
BudgetIn(f) == \A t \in Times : TriedIn(f, t - Window, t) <= Budget
LimiterIn(f, dq, n) ==
    /\ f \in [Times -> Nat] /\ dq \in Seq(Nat) /\ Len(dq) <= Budget
    /\ CountedIn(f, dq, n) /\ BudgetIn(f)

Again(f, g, n) == g = [f EXCEPT ![n] = @ + 1]

LEMMA CountedAt ==
    ASSUME NEW f, NEW dq, NEW n, CountedIn(f, dq, n), NEW x \in Int, x >= n - Window,
           NEW k \in 0 .. Len(dq), \A i \in 1 .. k : dq[i] <= x
    PROVE  TriedIn(f, x, MaxTime) <= Len(dq) - k
  BY DEF CountedIn

LEMMA LimiterSays == Limiter <=> LimiterIn(tries, hits, now)
  BY DEF Limiter, LimiterIn, Counted, CountedIn, FailureBudget, BudgetIn, Tried, TriedIn, Span

LEMMA LimiterSaysNext == Limiter' <=> LimiterIn(tries', hits', now')
  BY DEF Limiter, LimiterIn, Counted, CountedIn, FailureBudget, BudgetIn, Tried, TriedIn, Span

LEMMA SpanFinite == \A x, y : IsFiniteSet(Span(x, y))
<1>1. IsFiniteSet(Times)
  BY Bounds, FS_Interval DEF Times
<1>2. \A x, y : Span(x, y) \in SUBSET Times
  BY DEF Span
<1> QED
  BY <1>1, <1>2, FS_Subset

LEMMA TriedNat ==
    ASSUME NEW f \in [Times -> Nat], NEW x, NEW y
    PROVE  TriedIn(f, x, y) \in Nat
<1>1. \A t \in Span(x, y) : f[t] \in Nat
  BY DEF Span
<1> QED
  BY <1>1, SpanFinite, SumNat DEF TriedIn

\* A window that ends earlier holds no more.
LEMMA TriedUpTo ==
    ASSUME NEW f \in [Times -> Nat], NEW x \in Int, NEW y \in Int
    PROVE  TriedIn(f, x, y) <= TriedIn(f, x, MaxTime)
<1>1. \A t \in Span(x, MaxTime) : f[t] \in Nat
  BY DEF Span
<1>2. Span(x, y) \in SUBSET Span(x, MaxTime)
  BY Bounds DEF Span, Times
<1> QED
  BY <1>1, <1>2, SpanFinite, SumSubset DEF TriedIn

\* One more failure at n is counted by the windows that n lies in.
LEMMA TriedAgain ==
    ASSUME NEW f \in [Times -> Nat], NEW n \in Times, NEW g, Again(f, g, n),
           NEW x \in Int, NEW y \in Int
    PROVE  /\ x < n /\ n <= y => TriedIn(g, x, y) = TriedIn(f, x, y) + 1
           /\ ~(x < n /\ n <= y) => TriedIn(g, x, y) = TriedIn(f, x, y)
<1>0. n \in Int /\ f[n] \in Nat
  BY Bounds DEF Times
<1>1. \A t \in Span(x, y) : f[t] \in Int /\ t \in Times
  BY DEF Span
<1>2. g[n] = f[n] + 1 /\ \A t \in Times : t # n => g[t] = f[t]
  BY DEF Again
<1>3. ASSUME x < n, n <= y PROVE TriedIn(g, x, y) = TriedIn(f, x, y) + 1
  <2>1. n \in Span(x, y)
    BY <1>3 DEF Span
  <2>2. \A t \in Span(x, y) \ {n} : g[t] = f[t]
    BY <1>1, <1>2
  <2>3. g[n] \in Int /\ \A t \in Span(x, y) : f[t] \in Int
    BY <1>0, <1>1, <1>2
  <2>4. SumFunctionOnSet(g, Span(x, y)) = SumFunctionOnSet(f, Span(x, y)) - f[n] + g[n]
    <3>1. PICK S : S = Span(x, y)
      OBVIOUS
    <3>2. IsFiniteSet(S) /\ n \in S /\ g[n] \in Int
      BY <2>1, <2>3, <3>1, SpanFinite
    <3>3. \A t \in S : f[t] \in Int
      BY <2>3, <3>1
    <3>4. \A t \in S \ {n} : g[t] = f[t]
      BY <2>2, <3>1
    <3>5. SumFunctionOnSet(g, S) = SumFunctionOnSet(f, S) - f[n] + g[n]
      BY <3>2, <3>3, <3>4, SumChange
    <3> QED
      BY <3>1, <3>5
  <2>5. TriedIn(f, x, y) \in Nat
    BY TriedNat
  <2> QED
    BY <1>0, <1>2, <2>4, <2>5 DEF TriedIn
<1>4. ASSUME ~(x < n /\ n <= y) PROVE TriedIn(g, x, y) = TriedIn(f, x, y)
  <2>1. n \notin Span(x, y)
    BY <1>4 DEF Span
  <2>2. \A t \in Span(x, y) : g[t] = f[t]
    BY <1>1, <1>2, <2>1
  <2> QED
    BY <2>2, SpanFinite, SumSame DEF TriedIn
<1> QED
  BY <1>3, <1>4

\* After a success or a restart there is nothing to count.
LEMMA LimiterReset ==
    ASSUME NEW n \in Times
    PROVE  LimiterIn([t \in Times |-> 0], <<>>, n)
<1> DEFINE f == [t \in Times |-> 0]
<1>1. f \in [Times -> Nat] /\ <<>> \in Seq(Nat) /\ Len(<<>>) = 0
  OBVIOUS
<1>2. ASSUME NEW x, NEW y PROVE TriedIn(f, x, y) = 0
  <2>1. \A t \in Span(x, y) : f[t] = 0
    BY DEF Span
  <2> HIDE DEF f
  <2> QED
    BY <2>1, SpanFinite, SumZero DEF TriedIn
<1> HIDE DEF f
<1>3. CountedIn(f, <<>>, n)
  BY <1>1, <1>2 DEF CountedIn
<1>4. BudgetIn(f)
  BY <1>2, Bounds DEF BudgetIn
<1>5. LimiterIn(f, <<>>, n)
  BY <1>1, <1>3, <1>4, Bounds DEF LimiterIn
<1> QED
  BY <1>5 DEF f

\* Time only narrows what is counted.
LEMMA LimiterTick ==
    ASSUME NEW f, NEW dq, NEW n \in Int, LimiterIn(f, dq, n), NEW m \in Int, m = n + 1
    PROVE  LimiterIn(f, dq, m)
<1>1. \A x \in Int : x >= m - Window => x >= n - Window
  BY Bounds
<1>2. CountedIn(f, dq, m)
  <2>1. SUFFICES ASSUME NEW x \in Int, x >= m - Window, NEW k \in 0 .. Len(dq),
                        \A i \in 1 .. k : dq[i] <= x
                 PROVE  TriedIn(f, x, MaxTime) <= Len(dq) - k
    BY DEF CountedIn
  <2>2. x >= n - Window
    BY <1>1, <2>1
  <2>3. CountedIn(f, dq, n)
    BY DEF LimiterIn
  <2> QED
    BY <2>1, <2>2, <2>3, CountedAt
<1> QED
  BY <1>2 DEF LimiterIn

\* Popping what left the window keeps the count.
LEMMA LimiterPop ==
    ASSUME NEW f, LimiterIn(f, hits, now), now \in Times
    PROVE  LimiterIn(f, Recent(hits), now)
<1>1. hits \in Seq(Nat)
  BY DEF LimiterIn
<1>2. PICK d : Popped(hits, d)
  BY <1>1, Pops
<1>3. PICK q, n : q = Recent(hits) /\ n = Len(hits)
  OBVIOUS
<1>4. /\ n \in Nat /\ d \in 0 .. n /\ now \in Int
      /\ \A i \in 1 .. d : hits[i] <= now - Window
      /\ q \in Seq(Nat) /\ Len(q) = n - d
      /\ \A i \in 1 .. n - d : q[i] = hits[d + i]
  BY <1>1, <1>2, <1>3, LenProperties, Bounds DEF Popped, Times
<1>5. \A i \in 1 .. n : hits[i] \in Nat
  BY <1>1, <1>3, ElementOfSeq
<1>6. n <= Budget
  BY <1>3 DEF LimiterIn
<1>7. Len(q) <= Budget
  BY <1>4, <1>6, Bounds
<1>8. CountedIn(f, q, now)
  <2>1. SUFFICES ASSUME NEW x \in Int, x >= now - Window, NEW k \in 0 .. Len(q),
                        \A i \in 1 .. k : q[i] <= x
                 PROVE  TriedIn(f, x, MaxTime) <= Len(q) - k
    BY DEF CountedIn
  <2>2. d + k \in 0 .. n /\ Len(q) - k = n - (d + k)
    BY <1>4
  <2>3. ASSUME NEW i \in 1 .. d + k PROVE hits[i] <= x
    <3>0. i \in 1 .. n /\ hits[i] \in Nat
      BY <1>4, <1>5, <2>2
    <3>1. CASE i <= d
      <4>1. hits[i] <= now - Window
        BY <1>4, <3>1
      <4> QED
        BY <1>4, <2>1, <3>0, <4>1, Bounds
    <3>2. CASE ~(i <= d)
      <4>1. i - d \in 1 .. k /\ i - d \in 1 .. n - d /\ d + (i - d) = i
        BY <1>4, <2>2, <3>2
      <4>2. q[i - d] = hits[i] /\ q[i - d] <= x
        BY <1>4, <2>1, <4>1
      <4> QED
        BY <4>2
    <3> QED
      BY <3>1, <3>2
  <2>4. TriedIn(f, x, MaxTime) <= n - (d + k)
    BY <1>3, <2>1, <2>2, <2>3 DEF LimiterIn, CountedIn
  <2> QED
    BY <2>2, <2>4
<1> QED
  BY <1>3, <1>4, <1>7, <1>8 DEF LimiterIn

\* A failure within the budget is appended and counted.
LEMMA LimiterAppend ==
    ASSUME NEW f, NEW q, NEW n \in Times, NEW g,
           LimiterIn(f, q, n), Len(q) < Budget, Again(f, g, n)
    PROVE  LimiterIn(g, Append(q, n), n)
<1>1. f \in [Times -> Nat] /\ q \in Seq(Nat) /\ n \in Nat /\ MaxTime \in Nat /\ n <= MaxTime
  BY Bounds DEF LimiterIn, Times
<1>2. PICK p, m : p = Append(q, n) /\ m = Len(q)
  OBVIOUS
<1>3. /\ p \in Seq(Nat) /\ Len(p) = m + 1 /\ m \in Nat
      /\ \A i \in 1 .. m : p[i] = q[i]
      /\ p[m + 1] = n
  BY <1>1, <1>2, AppendProperties, LenProperties
<1>4. Len(p) <= Budget
  BY <1>2, <1>3, Bounds
<1>5. g \in [Times -> Nat]
  BY <1>1 DEF Again
<1>6. CountedIn(g, p, n)
  <2>1. SUFFICES ASSUME NEW x \in Int, x >= n - Window, NEW k \in 0 .. Len(p),
                        \A i \in 1 .. k : p[i] <= x
                 PROVE  TriedIn(g, x, MaxTime) <= Len(p) - k
    BY DEF CountedIn
  <2>2. ASSUME NEW c \in 0 .. m, c <= k PROVE TriedIn(f, x, MaxTime) <= m - c
    <3>1. ASSUME NEW i \in 1 .. c PROVE q[i] <= x
      <4>1. i \in 1 .. k /\ i \in 1 .. m
        BY <1>3, <2>2
      <4>2. p[i] = q[i] /\ p[i] <= x
        BY <1>3, <2>1, <4>1
      <4> QED
        BY <4>2
    <3>2. CountedIn(f, q, n) /\ c \in 0 .. Len(q)
      BY <1>2 DEF LimiterIn
    <3> QED
      BY <1>2, <2>1, <3>1, <3>2, CountedAt
  <2>3. TriedIn(f, x, MaxTime) \in Nat
    BY <1>1, TriedNat
  <2>4. CASE x < n
    <3>1. k <= m
      <4>1. ASSUME k = m + 1 PROVE FALSE
        <5>1. m + 1 \in 1 .. k
          BY <1>3, <4>1
        <5>2. n <= x
          BY <1>3, <2>1, <5>1
        <5> QED
          BY <1>1, <2>4, <5>2
      <4> QED
        BY <1>3, <4>1
    <3>2. TriedIn(f, x, MaxTime) <= m - k
      BY <1>3, <2>2, <3>1
    <3>3. TriedIn(g, x, MaxTime) = TriedIn(f, x, MaxTime) + 1
      BY <1>1, <2>4, TriedAgain
    <3> QED
      BY <1>3, <2>3, <3>2, <3>3
  <2>5. CASE ~(x < n)
    <3>1. TriedIn(g, x, MaxTime) = TriedIn(f, x, MaxTime)
      BY <1>1, <2>5, TriedAgain
    <3>2. PICK c \in 0 .. m : c <= k /\ m - c <= Len(p) - k
      <4>1. CASE k <= m
        <5>1. k \in 0 .. m /\ k <= k /\ m - k <= Len(p) - k
          BY <1>3, <4>1
        <5> QED
          BY <5>1
      <4>2. CASE ~(k <= m)
        <5>1. m \in 0 .. m /\ m <= k /\ m - m <= Len(p) - k
          BY <1>3, <4>2
        <5> QED
          BY <5>1
      <4> QED
        BY <4>1, <4>2
    <3>3. TriedIn(f, x, MaxTime) <= m - c
      BY <2>2, <3>2
    <3> QED
      BY <1>3, <2>3, <3>1, <3>2, <3>3
  <2> QED
    BY <2>4, <2>5
<1>7. BudgetIn(g)
  <2>1. SUFFICES ASSUME NEW t \in Times PROVE TriedIn(g, t - Window, t) <= Budget
    BY DEF BudgetIn
  <2>2. t \in Int /\ t - Window \in Int
    BY Bounds DEF Times
  <2>3. TriedIn(g, t - Window, t) \in Nat /\ TriedIn(g, t - Window, MaxTime) \in Nat
    BY <1>5, TriedNat
  <2>4. CASE t < n
    <3>1. TriedIn(g, t - Window, t) = TriedIn(f, t - Window, t)
      <4>1. ~(t - Window < n /\ n <= t)
        BY <1>1, <2>2, <2>4
      <4> QED
        BY <1>1, <2>2, <4>1, TriedAgain
    <3> QED
      BY <3>1 DEF LimiterIn, BudgetIn
  <2>5. CASE ~(t < n)
    <3>1. t - Window >= n - Window /\ 0 \in 0 .. Len(p)
      BY <1>1, <1>3, <2>2, <2>5, Bounds
    <3>2. TriedIn(g, t - Window, MaxTime) <= Len(p) - 0
      <4>1. \A i \in 1 .. 0 : p[i] <= t - Window
        OBVIOUS
      <4> QED
        BY <1>6, <2>2, <3>1, <4>1, CountedAt
    <3>3. TriedIn(g, t - Window, t) <= TriedIn(g, t - Window, MaxTime)
      BY <1>5, <2>2, TriedUpTo
    <3> QED
      BY <1>3, <1>4, <2>3, <3>2, <3>3, Bounds
  <2> QED
    BY <2>4, <2>5
<1>8. LimiterIn(g, p, n)
  BY <1>3, <1>4, <1>5, <1>6, <1>7 DEF LimiterIn
<1> QED
  BY <1>2, <1>8

LEMMA LimiterFail ==
    ASSUME now \in Times, Limiter, NEW w, LoginFail(w)
    PROVE  Limiter'
<1>1. LimiterIn(tries, Recent(hits), now)
  BY LimiterSays, LimiterPop
<1>2. now' = now
  BY DEF LoginFail
<1>3. CASE OverBudget(Recent(hits))
  <2>1. hits' = Recent(hits) /\ tries' = tries
    BY <1>3 DEF LoginFail
  <2> QED
    BY <1>1, <1>2, <2>1, LimiterSaysNext
<1>4. CASE ~OverBudget(Recent(hits))
  <2>1. hits' = Append(Recent(hits), now) /\ Again(tries, tries', now)
    BY <1>4 DEF LoginFail, Again
  <2>2. Len(Recent(hits)) < Budget
    <3>1. Len(Recent(hits)) \in Nat
      BY <1>1, LenProperties DEF LimiterIn
    <3> QED
      BY <1>4, <3>1, Bounds DEF OverBudget
  <2>3. LimiterIn(tries', Append(Recent(hits), now), now)
    <3>1. PICK f, g, q : f = tries /\ g = tries' /\ q = Recent(hits)
      OBVIOUS
    <3>2. LimiterIn(f, q, now) /\ Len(q) < Budget /\ Again(f, g, now)
      BY <1>1, <2>1, <2>2, <3>1
    <3>3. LimiterIn(g, Append(q, now), now)
      BY <3>2, LimiterAppend
    <3> QED
      BY <3>1, <3>3
  <2> QED
    BY <1>2, <2>1, <2>3, LimiterSaysNext
<1> QED
  BY <1>3, <1>4

\* The kinds of step: a request that reads, one that writes rows, one that
\* leaves rows alone.
Reads(w) ==
    \/ \E p \in Passwords : RegisterRead(w, p) \/ LoginRead(w, p)
    \/ ResendRead(w) \/ ForgotRead(w) \/ GoogleRead(w)
    \/ \E l \in Links : VerifyRead(w, l) \/ \E p \in Passwords : ResetRead(w, l, p)
    \/ \E j \in jwt : LogoutAuth(w, j) \/ SetupAuth(w, j) \/ \E p \in Passwords : CloseAuth(w, j, p)
    \/ \E u \in Users, req \in AdminRequests : AdminRead(w, u, req)
Writes(w) ==
    \/ RegisterInsert(w) \/ VerifyConsume(w) \/ ResetConsume(w) \/ GoogleCreate(w)
    \/ GoogleLink(w) \/ Logout(w) \/ CpoSetup(w) \/ CloseAccount(w) \/ AdminUpdateUser(w)
Leaves(w) == IssueVoid(w) \/ IssueCommit(w) \/ VerifyMint(w) \/ GoogleKnown(w) \/ GoogleMint(w)
Cases ==
    \/ \E w \in Workers : Reads(w) \/ Writes(w) \/ Leaves(w) \/ LoginFail(w) \/ LoginPass(w)
    \/ \E c \in Codes, h \in BOOLEAN : GoogleExchange(c, h)
    \/ Tick \/ Restart

LEMMA NextCases == Next => Cases
  BY Zenon DEF Next, Cases, Reads, Writes, Leaves

LEMMA ReadsOnly == ASSUME NEW w, Reads(w) PROVE \E r : Begin(w, r)
<1>1. ASSUME NEW p, RegisterRead(w, p) PROVE \E r : Begin(w, r)
  BY <1>1 DEF RegisterRead
<1>2. ASSUME NEW p, LoginRead(w, p) PROVE \E r : Begin(w, r)
  BY <1>2 DEF LoginRead
<1>3. ASSUME ResendRead(w) \/ ForgotRead(w) \/ GoogleRead(w) PROVE \E r : Begin(w, r)
  BY <1>3 DEF ResendRead, ForgotRead, GoogleRead
<1>4. ASSUME NEW l, NEW p, VerifyRead(w, l) \/ ResetRead(w, l, p) PROVE \E r : Begin(w, r)
  BY <1>4 DEF VerifyRead, ResetRead, LinkRead
<1>5. ASSUME NEW j, NEW p, LogoutAuth(w, j) \/ SetupAuth(w, j) \/ CloseAuth(w, j, p)
      PROVE \E r : Begin(w, r)
  BY <1>5 DEF LogoutAuth, SetupAuth, CloseAuth, Authenticate
<1>6. ASSUME NEW u, NEW req, AdminRead(w, u, req) PROVE \E r : Begin(w, r)
  BY <1>6 DEF AdminRead
<1> QED
  BY <1>1, <1>2, <1>3, <1>4, <1>5, <1>6, Zenon DEF Reads

LEMMA LimiterKept ==
    ASSUME now \in Times, Limiter, Next
    PROVE  Limiter'
<1>1. ASSUME NEW w \in Workers, LoginFail(w) PROVE Limiter'
  BY <1>1, LimiterFail
<1>2. ASSUME tries' = [t \in Times |-> 0], hits' = <<>>, UNCHANGED now PROVE Limiter'
  <2>1. LimiterIn([t \in Times |-> 0], <<>>, now)
    BY LimiterReset
  <2> QED
    BY <1>2, <2>1, LimiterSaysNext
<1>3. ASSUME Tick PROVE Limiter'
  <2>1. now \in Int /\ now' \in Int /\ now' = now + 1 /\ tries' = tries /\ hits' = hits
    BY <1>3, Bounds DEF Tick, Times
  <2>2. LimiterIn(tries, hits, now')
    BY <2>1, LimiterSays, LimiterTick
  <2> QED
    BY <2>1, <2>2, LimiterSaysNext
<1>4. ASSUME UNCHANGED <<hits, tries, now>> PROVE Limiter'
  BY <1>4, LimiterSays, LimiterSaysNext
<1>5. ASSUME NEW w \in Workers, Reads(w) PROVE Limiter'
  BY <1>4, <1>5, ReadsOnly DEF Begin
<1>6. ASSUME NEW w \in Workers, Writes(w) PROVE Limiter'
  <2>1. UNCHANGED <<hits, tries, now>>
    <3>1. ASSUME RegisterInsert(w) \/ GoogleCreate(w) \/ GoogleLink(w)
          PROVE  UNCHANGED <<hits, tries, now>>
      BY <3>1, Zenon DEF RegisterInsert, GoogleCreate, GoogleLink
    <3>2. ASSUME VerifyConsume(w) \/ ResetConsume(w) \/ CloseAccount(w)
          PROVE  UNCHANGED <<hits, tries, now>>
      BY <3>2, Zenon DEF VerifyConsume, ResetConsume, CloseAccount
    <3>3. ASSUME Logout(w) \/ CpoSetup(w) \/ AdminUpdateUser(w)
          PROVE  UNCHANGED <<hits, tries, now>>
      BY <3>3, Zenon DEF Logout, CpoSetup, AdminUpdateUser
    <3> QED
      BY <1>6, <3>1, <3>2, <3>3 DEF Writes
  <2> QED
    BY <1>4, <2>1
<1>7. ASSUME NEW w \in Workers, Leaves(w) PROVE Limiter'
  <2>1. UNCHANGED <<hits, tries, now>>
    BY <1>7 DEF Leaves, IssueVoid, IssueCommit, VerifyMint, GoogleKnown, GoogleMint
  <2> QED
    BY <1>4, <2>1
<1>8. ASSUME NEW c, NEW h, GoogleExchange(c, h) PROVE Limiter'
  BY <1>4, <1>8 DEF GoogleExchange
<1>9. ASSUME NEW w \in Workers, LoginPass(w) PROVE Limiter'
  BY <1>2, <1>9 DEF LoginPass
<1>10. ASSUME Restart PROVE Limiter'
  BY <1>2, <1>10 DEF Restart
<1> QED
  BY <1>1, <1>3, <1>5, <1>6, <1>7, <1>8, <1>9, <1>10, NextCases DEF Cases
-----------------------------------------------------------------------------
(* Rows *)

\* What a request may make of a row; x says that a take-over crossed it.
Evolves(r, q, x) ==
    /\ q.state = r.state \/ q.state = "closed"
    /\ ProvedRow(r) => ProvedRow(q)
    /\ q.google => ProvedRow(q)
    /\ x \/ /\ r.tv <= q.tv
            /\ q.tv = r.tv => q.password = r.password /\ (r.role = "cpo" => q.role = "cpo")

Updates(u) ==
    /\ Known(u) /\ row'[u] \in User /\ row' = [row EXCEPT ![u] = row'[u]]
    /\ Evolves(row[u], row'[u], u \in crossed')
    /\ crossed' \in {crossed, crossed \cup {u}}

Inserts ==
    /\ NextUser \in Users /\ Found = {} /\ crossed' = crossed
    /\ row'[NextUser] \in User /\ row' = [row EXCEPT ![NextUser] = row'[NextUser]]
    /\ row'[NextUser].state = "live" /\ (row'[NextUser].google => row'[NextUser].verified)

RowStep == UNCHANGED <<row, crossed>> \/ Inserts \/ \E u : Updates(u)

\* How a known row has moved on.
Onward ==
    /\ crossed \in SUBSET crossed'
    /\ \A u \in Users : row[u].state # "none" =>
          /\ row'[u].state # "none"
          /\ Proved(u) => Proved(u)'
          /\ u \in crossed' \/
                /\ row[u].tv <= row'[u].tv
                /\ row'[u].tv = row[u].tv =>
                     row'[u].password = row[u].password
                     /\ (row[u].role = "cpo" => row'[u].role = "cpo")

LEMMA InsertsGo ==
    ASSUME Tables, RowsFilled, Inserts
    PROVE  /\ row[NextUser].state = "none"
           /\ \A v \in Users : v # NextUser => row'[v] = row[v]
           /\ \E n \in 0 .. MaxUsers : NextUser = n + 1 /\ \A u \in Users : row[u].state # "none" <=> u <= n
<1>1. PICK n \in 0 .. MaxUsers : NextUser = n + 1 /\ \A u \in Users : row[u].state # "none" <=> u <= n
  BY NextUserFree
<1>2. row[NextUser].state = "none"
  BY <1>1, Bounds DEF Inserts, Users
<1>3. \A v \in Users : v # NextUser => row'[v] = row[v]
  BY DEF Inserts, Tables
<1> QED
  BY <1>1, <1>2, <1>3

LEMMA UpdatesGo ==
    ASSUME Tables, NEW u, Updates(u)
    PROVE  \A v \in Users : v # u => row'[v] = row[v]
  BY DEF Updates, Tables

LEMMA RowsOnward ==
    ASSUME Tables, RowsFilled, RowStep
    PROVE  Onward
<1>0. \A u \in Users : row[u].tv <= row[u].tv
  BY Bounds DEF Tables, User
<1>1. CASE UNCHANGED <<row, crossed>>
  BY <1>0, <1>1 DEF Onward, Proved
<1>2. CASE Inserts
  <2>1. crossed' = crossed /\ \A v \in Users : row[v].state # "none" => row'[v] = row[v]
    BY <1>2, InsertsGo DEF Inserts
  <2> QED
    BY <1>0, <2>1 DEF Onward, Proved
<1>3. ASSUME NEW u, Updates(u) PROVE Onward
  <2>1. crossed \in SUBSET crossed'
    BY <1>3 DEF Updates
  <2>2. \A v \in Users : v # u => row'[v] = row[v]
    BY <1>3, UpdatesGo
  <2>3. Evolves(row[u], row'[u], u \in crossed')
    BY <1>3 DEF Updates
  <2>4. ASSUME NEW v \in Users, row[v].state # "none"
        PROVE  /\ row'[v].state # "none"
               /\ Proved(v) => Proved(v)'
               /\ v \in crossed' \/
                    /\ row[v].tv <= row'[v].tv
                    /\ row'[v].tv = row[v].tv =>
                         row'[v].password = row[v].password
                         /\ (row[v].role = "cpo" => row'[v].role = "cpo")
    <3>1. CASE v = u
      BY <2>3, <2>4, <3>1 DEF Evolves, Proved
    <3>2. CASE v # u
      BY <1>0, <2>2, <2>4, <3>2 DEF Proved
    <3> QED
      BY <3>1, <3>2
  <2> QED
    BY <2>1, <2>4 DEF Onward
<1> QED
  BY <1>1, <1>2, <1>3 DEF RowStep

LEMMA RowsKept ==
    ASSUME Tables, Rows, RowStep
    PROVE  /\ row' \in [Users -> User] /\ crossed' \in SUBSET Users
           /\ Rows'
<1>0. row \in [Users -> User] /\ crossed \in SUBSET Users /\ RowsFilled /\ OneLive /\ GoogleProved
  BY DEF Tables, Rows
<1>1. CASE UNCHANGED <<row, crossed>>
  <2>1. RowsFilled' /\ OneLive' /\ GoogleProved'
    BY <1>0, <1>1 DEF RowsFilled, OneLive, GoogleProved, Proved
  <2> QED
    BY <1>0, <1>1, <2>1 DEF Rows
<1>2. CASE Inserts
  <2>1. PICK n \in 0 .. MaxUsers : NextUser = n + 1 /\ \A u \in Users : row[u].state # "none" <=> u <= n
    BY <1>0, <1>2, InsertsGo
  <2>2. PICK k : k = NextUser
    OBVIOUS
  <2>3. /\ k \in Users /\ k = n + 1 /\ row'[k] \in User /\ row' = [row EXCEPT ![k] = row'[k]]
        /\ row'[k].state = "live" /\ (row'[k].google => row'[k].verified)
        /\ crossed' = crossed /\ Found = {}
    BY <1>2, <2>1, <2>2 DEF Inserts
  <2>4. \A v \in Users : v # k => row'[v] = row[v]
    BY <1>0, <2>3
  <2>5. row' \in [Users -> User]
    BY <1>0, <2>3
  <2>6. RowsFilled'
    <3>1. k \in 0 .. MaxUsers
      BY <2>1, <2>3, Bounds DEF Users
    <3>2. ASSUME NEW u \in Users PROVE row'[u].state # "none" <=> u <= k
      <4>1. CASE u = k
        BY <2>3, <4>1, Bounds DEF Users
      <4>2. CASE u # k
        <5>1. u <= n <=> u <= k
          BY <2>1, <2>3, <4>2, Bounds DEF Users
        <5> QED
          BY <2>1, <2>4, <4>2, <5>1
      <4> QED
        BY <4>1, <4>2
    <3> QED
      BY <3>1, <3>2 DEF RowsFilled
  <2>7. OneLive'
    <3>1. \A u \in Users : row'[u].state = "live" => u = k
      BY <2>3, <2>4 DEF Found
    <3> QED
      BY <3>1 DEF OneLive
  <2>8. GoogleProved'
    <3>1. ASSUME NEW u \in Users, row'[u].google PROVE ProvedRow(row'[u])
      <4>1. CASE u = k
        BY <2>3, <3>1, <4>1 DEF ProvedRow
      <4>2. CASE u # k
        BY <1>0, <2>4, <3>1, <4>2 DEF GoogleProved, Proved
      <4> QED
        BY <4>1, <4>2
    <3> QED
      BY <3>1 DEF GoogleProved, Proved
  <2> QED
    BY <1>0, <2>3, <2>5, <2>6, <2>7, <2>8 DEF Rows
<1>3. ASSUME NEW u, Updates(u)
      PROVE  row' \in [Users -> User] /\ crossed' \in SUBSET Users /\ Rows'
  <2>1. /\ u \in Users /\ row[u].state # "none" /\ row'[u] \in User
        /\ row' = [row EXCEPT ![u] = row'[u]] /\ crossed' \in {crossed, crossed \cup {u}}
        /\ Evolves(row[u], row'[u], u \in crossed')
    BY <1>3 DEF Updates, Known
  <2>2. \A v \in Users : v # u => row'[v] = row[v]
    BY <1>3, UpdatesGo
  <2>3. row' \in [Users -> User] /\ crossed' \in SUBSET Users
    BY <1>0, <2>1
  <2>4. /\ row'[u].state # "none" /\ (row'[u].state = "live" => row[u].state = "live")
        /\ (row'[u].google => ProvedRow(row'[u]))
    BY <2>1 DEF Evolves
  <2>5. RowsFilled'
    <3>1. \A v \in Users : row'[v].state # "none" <=> row[v].state # "none"
      BY <2>1, <2>2, <2>4
    <3> QED
      BY <1>0, <3>1 DEF RowsFilled
  <2>6. OneLive'
    <3>1. \A v \in Users : row'[v].state = "live" => row[v].state = "live"
      BY <2>2, <2>4
    <3> QED
      BY <1>0, <3>1 DEF OneLive
  <2>7. GoogleProved'
    <3>1. ASSUME NEW v \in Users, row'[v].google PROVE ProvedRow(row'[v])
      <4>1. CASE v = u
        BY <2>4, <3>1, <4>1
      <4>2. CASE v # u
        BY <1>0, <2>2, <3>1, <4>2 DEF GoogleProved, Proved
      <4> QED
        BY <4>1, <4>2
    <3> QED
      BY <3>1 DEF GoogleProved, Proved
  <2> QED
    BY <2>3, <2>5, <2>6, <2>7 DEF Rows
<1> QED
  BY <1>1, <1>2, <1>3 DEF RowStep

\* An update of one row by name.
LEMMA UpdateStep ==
    ASSUME Tables, NEW u, Known(u), NEW r \in User, row' = [row EXCEPT ![u] = r],
           Evolves(row[u], r, u \in crossed'), crossed' \in {crossed, crossed \cup {u}}
    PROVE  RowStep
<1>1. row'[u] = r
  BY DEF Tables, Known
<1>2. Updates(u)
  BY <1>1 DEF Updates
<1> QED
  BY <1>2 DEF RowStep

LEMMA InsertStep ==
    ASSUME Tables, NextUser \in Users, Found = {}, NEW r \in User, row' = [row EXCEPT ![NextUser] = r],
           r.state = "live", r.google => r.verified, crossed' = crossed
    PROVE  RowStep
<1>1. row'[NextUser] = r
  BY DEF Tables
<1>2. Inserts
  BY <1>1 DEF Inserts
<1> QED
  BY <1>2 DEF RowStep

LEMMA NoUserIsUser == NoUser \in User /\ ~NoUser.google
  BY Bounds DEF NoUser, User

LEMMA InsertRows ==
    ASSUME Tables, Rows, NEW w \in Workers, Valid(work[w]), RegisterInsert(w) \/ GoogleCreate(w)
    PROVE  RowStep
<1>1. CASE RegisterInsert(w)
  <2>1. CASE Found # {}
    BY <1>1, <2>1, Zenon DEF RegisterInsert, RowStep
  <2>2. CASE Found = {}
    <3>1. work[w].password \in Passwords
      BY <1>1 DEF RegisterInsert, At, Valid
    <3>2. PICK r : r = [NoUser EXCEPT !.state = "live", !.password = work[w].password]
      OBVIOUS
    <3>3. r \in User /\ r.state = "live" /\ (r.google => r.verified)
      <4>1. r \in User /\ r.state = "live" /\ r.google = NoUser.google
        BY <3>1, <3>2, NoUserIsUser DEF User
      <4> QED
        BY <4>1, NoUserIsUser
    <3>4. NextUser \in Users /\ row' = [row EXCEPT ![NextUser] = r] /\ crossed' = crossed
      BY <1>1, <2>2, <3>2, Zenon DEF RegisterInsert
    <3>5. Found = {}
      BY <2>2
    <3> QED
      BY <3>3, <3>4, <3>5, InsertStep, Zenon
  <2> QED
    BY <2>1, <2>2
<1>2. CASE GoogleCreate(w)
  <2>1. CASE Found # {} \/ SubTaken
    BY <1>2, <2>1, Zenon DEF GoogleCreate, RowStep
  <2>2. CASE ~(Found # {} \/ SubTaken)
    <3>2. PICK r : r = [NoUser EXCEPT !.state = "live", !.verified = TRUE, !.google = TRUE]
      OBVIOUS
    <3>3. r \in User /\ r.state = "live" /\ (r.google => r.verified)
      BY <3>2, NoUserIsUser DEF User
    <3>4. NextUser \in Users /\ row' = [row EXCEPT ![NextUser] = r] /\ crossed' = crossed
      BY <1>2, <2>2, <3>2, Zenon DEF GoogleCreate
    <3>5. Found = {}
      BY <2>2
    <3> QED
      BY <3>3, <3>4, <3>5, InsertStep, Zenon
  <2> QED
    BY <2>1, <2>2
<1> QED
  BY <1>1, <1>2

\* An epoch below the bound can rise.
LEMMA NextEpoch ==
    ASSUME NEW r \in User, r.tv < MaxEpoch
    PROVE  r.tv \in Nat /\ r.tv + 1 \in 0 .. MaxEpoch
  BY Bounds DEF User

\* A row whose epoch rises may change its password and its role.
LEMMA Raised ==
    ASSUME NEW r \in User, NEW q, NEW x, q.tv = r.tv + 1, q.state = r.state \/ q.state = "closed",
           ProvedRow(r) => ProvedRow(q), q.google => ProvedRow(q)
    PROVE  Evolves(r, q, x)
<1>1. r.tv \in Nat
  BY Bounds DEF User
<1>2. r.tv <= q.tv /\ q.tv # r.tv
  BY <1>1
<1> QED
  BY <1>2 DEF Evolves

LEMMA VerifiedRow ==
    ASSUME NEW r \in User, r.tv < MaxEpoch, r.state # "none", r.google => ProvedRow(r), NEW q, NEW x,
           q = [r EXCEPT !.verified = TRUE, !.tv = @ + 1]
    PROVE  q \in User /\ Evolves(r, q, x) /\ ProvedRow(q)
<1>1. PICK t \in 0 .. MaxEpoch : t = r.tv + 1
  BY NextEpoch
<1>2. q = [r EXCEPT !.verified = TRUE, !.tv = t]
  BY <1>1
<1>3. q \in User /\ q.tv = t /\ q.state = r.state /\ q.verified
  BY <1>2 DEF User
<1>4. ProvedRow(q)
  BY <1>3 DEF ProvedRow, User
<1>5. Evolves(r, q, x)
  BY <1>1, <1>3, <1>4, Raised
<1> QED
  BY <1>3, <1>4, <1>5

LEMMA RekeyedRow ==
    ASSUME NEW r \in User, r.tv < MaxEpoch, r.google => ProvedRow(r), NEW p \in Passwords, NEW q, NEW x,
           q = [r EXCEPT !.password = p, !.tv = @ + 1]
    PROVE  q \in User /\ Evolves(r, q, x)
<1>1. PICK t \in 0 .. MaxEpoch : t = r.tv + 1
  BY NextEpoch
<1>2. q = [r EXCEPT !.password = p, !.tv = t]
  BY <1>1
<1>3. q \in User /\ q.tv = t /\ q.state = r.state /\ q.verified = r.verified /\ q.google = r.google
  BY <1>2 DEF User
<1>4. (ProvedRow(r) => ProvedRow(q)) /\ (q.google => ProvedRow(q))
  BY <1>3 DEF ProvedRow
<1>5. Evolves(r, q, x)
  BY <1>1, <1>3, <1>4, Raised
<1> QED
  BY <1>3, <1>5

LEMMA LoggedOutRow ==
    ASSUME NEW r \in User, r.tv < MaxEpoch, r.google => ProvedRow(r), NEW q, NEW x,
           q = [r EXCEPT !.tv = @ + 1]
    PROVE  q \in User /\ Evolves(r, q, x)
<1>1. PICK t \in 0 .. MaxEpoch : t = r.tv + 1
  BY NextEpoch
<1>2. q = [r EXCEPT !.tv = t]
  BY <1>1
<1>3. q \in User /\ q.tv = t /\ q.state = r.state /\ q.verified = r.verified /\ q.google = r.google
  BY <1>2 DEF User
<1>4. (ProvedRow(r) => ProvedRow(q)) /\ (q.google => ProvedRow(q))
  BY <1>3 DEF ProvedRow
<1>5. Evolves(r, q, x)
  BY <1>1, <1>3, <1>4, Raised
<1> QED
  BY <1>3, <1>5

LEMMA ClosedRow ==
    ASSUME NEW r \in User, r.tv < MaxEpoch, NEW q, NEW x,
           q = [r EXCEPT !.state = "closed", !.verified = FALSE, !.disabled = TRUE,
                         !.password = NoPassword, !.google = FALSE, !.tv = @ + 1]
    PROVE  q \in User /\ Evolves(r, q, x)
<1>1. PICK t \in 0 .. MaxEpoch : t = r.tv + 1
  BY NextEpoch
<1>2. PICK s : s = [r EXCEPT !.state = "closed", !.password = NoPassword, !.tv = t]
  OBVIOUS
<1>3. s \in User /\ s.tv = t /\ s.state = "closed"
  BY <1>2 DEF User
<1>4. q = [s EXCEPT !.verified = FALSE, !.disabled = TRUE, !.google = FALSE]
  BY <1>1, <1>2 DEF User
<1>5. q \in User /\ q.tv = t /\ q.state = "closed"
  BY <1>3, <1>4 DEF User
<1>6. ProvedRow(q)
  BY <1>5 DEF ProvedRow
<1>7. Evolves(r, q, x)
  BY <1>1, <1>5, <1>6, Raised
<1> QED
  BY <1>5, <1>7

LEMMA SetupRow ==
    ASSUME NEW r \in User, r.google => ProvedRow(r), NEW q, NEW x,
           q = [r EXCEPT !.role = "cpo", !.tenant = TRUE]
    PROVE  q \in User /\ Evolves(r, q, x)
<1>1. /\ q \in User /\ q.tv = r.tv /\ q.state = r.state /\ q.verified = r.verified
      /\ q.google = r.google /\ q.password = r.password /\ q.role = "cpo"
  BY DEF User
<1>2. r.tv <= q.tv
  BY <1>1, Bounds DEF User
<1> QED
  BY <1>1, <1>2 DEF Evolves, ProvedRow

\* The take-over is proof of the address; the epoch rises unless it crossed.
LEMMA TakenOverRow ==
    ASSUME NEW r \in User, r.state # "none", NEW seen \in User, seen.tv < MaxEpoch,
           seen.verified => ProvedRow(r), NEW q, NEW x, r.tv = seen.tv \/ x,
           q = [r EXCEPT !.google = TRUE, !.password = NoPassword,
                         !.verified = @ \/ ~seen.verified, !.tv = seen.tv + 1]
    PROVE  q \in User /\ Evolves(r, q, x) /\ ProvedRow(q)
<1>1. PICK t \in 0 .. MaxEpoch : t = seen.tv + 1
  BY NextEpoch
<1>2. q = [r EXCEPT !.google = TRUE, !.password = NoPassword,
                    !.verified = @ \/ ~seen.verified, !.tv = t]
  BY <1>1
<1>3. q \in User /\ q.tv = t /\ q.state = r.state /\ (q.verified <=> r.verified \/ ~seen.verified)
  BY <1>2 DEF User
<1>4. ProvedRow(q)
  BY <1>3 DEF ProvedRow, User
<1>5. Evolves(r, q, x)
  <2>1. CASE x
    BY <1>3, <1>4, <2>1 DEF Evolves
  <2>2. CASE r.tv = seen.tv
    BY <1>1, <1>3, <1>4, <2>2, Raised
  <2> QED
    BY <2>1, <2>2
<1> QED
  BY <1>3, <1>4, <1>5

\* An administrator's update raises the epoch when it changes the role.
LEMMA AdministeredRow ==
    ASSUME NEW r \in User, r.google => ProvedRow(r), NEW a, a.req \in AdminRequests, a.seen \in User,
           Revokes(a) => r.tv < MaxEpoch, NEW q, NEW x,
           q = [r EXCEPT !.role = IF RoleChanged(a) THEN a.req.role ELSE @,
                         !.disabled = IF DisabledChanged(a) THEN a.req.disabled = "yes" ELSE @,
                         !.tv = IF Revokes(a) THEN @ + 1 ELSE @]
    PROVE  q \in User /\ Evolves(r, q, x)
<1>0. r.tv \in 0 .. MaxEpoch /\ r.tv \in Nat /\ r.disabled \in BOOLEAN /\ r.role \in {"driver", "cpo"}
  BY Bounds DEF User
<1>1. PICK role \in {"driver", "cpo"} : role = IF RoleChanged(a) THEN a.req.role ELSE r.role
  BY <1>0, AccountsAssumption DEF RoleChanged
<1>2. PICK b : b = IF DisabledChanged(a) THEN a.req.disabled = "yes" ELSE r.disabled
  OBVIOUS
<1>3. b \in BOOLEAN
  BY <1>0, <1>2
<1>4. PICK t \in 0 .. MaxEpoch : t = IF Revokes(a) THEN r.tv + 1 ELSE r.tv
  BY <1>0, NextEpoch
<1>5. q = [r EXCEPT !.role = role, !.disabled = b, !.tv = t]
  <2>1. q = [r EXCEPT !.role = IF RoleChanged(a) THEN a.req.role ELSE r.role,
                      !.disabled = IF DisabledChanged(a) THEN a.req.disabled = "yes" ELSE r.disabled,
                      !.tv = IF Revokes(a) THEN r.tv + 1 ELSE r.tv]
    BY DEF User
  <2> QED
    BY <1>1, <1>2, <1>4, <2>1
<1>6. /\ q \in User /\ q.state = r.state /\ q.verified = r.verified /\ q.google = r.google
      /\ q.password = r.password /\ q.role = role /\ q.tv = t
  BY <1>3, <1>5 DEF User
<1>7. (ProvedRow(r) => ProvedRow(q)) /\ (q.google => ProvedRow(q))
  BY <1>6 DEF ProvedRow
<1>8. CASE Revokes(a)
  <2>1. q.tv = r.tv + 1
    BY <1>4, <1>6, <1>8
  <2>2. Evolves(r, q, x)
    BY <1>6, <1>7, <2>1, Raised
  <2> QED
    BY <1>6, <2>2
<1>9. CASE ~Revokes(a)
  <2>1. ~RoleChanged(a)
    BY <1>9 DEF Revokes
  <2>2. q.tv = r.tv /\ q.role = r.role /\ r.tv <= q.tv
    BY <1>0, <1>1, <1>4, <1>6, <1>9, <2>1
  <2> QED
    BY <1>6, <1>7, <2>2 DEF Evolves
<1> QED
  BY <1>8, <1>9

\* What a known row is.
LEMMA KnownRow ==
    ASSUME Tables, GoogleProved, NEW u, Known(u)
    PROVE  /\ u \in Users /\ row[u] \in User /\ row[u].state # "none"
           /\ row[u].google => ProvedRow(row[u])
  BY DEF Tables, Known, GoogleProved, Proved

\* An issued link belongs to a known row.
LEMMA LinkOwner ==
    ASSUME Mail, NEW l, Issued(l)
    PROVE  Known(link[l].user) /\ link[l].kind \in {"verify", "reset"}
<1>1. Owned
  BY Zenon DEF Mail
<1> QED
  BY <1>1 DEF Owned, Issued

LEMMA VerifyRows ==
    ASSUME Tables, GoogleProved, Mail, NEW w \in Workers, Valid(work[w]), VerifyConsume(w)
    PROVE  /\ RowStep
           /\ ~Refused(w, work[w].link) =>
                LET u == link[work[w].link].user IN Known(u) /\ ProvedRow(row'[u])
<1>0. PICK l : l = work[w].link
  OBVIOUS
<1>1. PICK u : u = link[l].user
  OBVIOUS
<1>2. Issued(l) /\ Known(u) /\ crossed' = crossed
  <2>1. Issued(l)
    BY <1>0 DEF VerifyConsume, At, Valid
  <2>2. Known(link[l].user)
    BY <2>1, LinkOwner
  <2>3. crossed' = crossed
    BY Zenon DEF VerifyConsume
  <2> QED
    BY <1>1, <2>1, <2>2, <2>3
<1>3. CASE Refused(w, l)
  <2>1. row' = row
    BY <1>3 DEF Refused
  <2> QED
    BY <1>0, <1>2, <1>3, <2>1 DEF RowStep
<1>4. ASSUME row[u].tv < MaxEpoch, row' = [row EXCEPT ![u].verified = TRUE, ![u].tv = @ + 1]
      PROVE  RowStep /\ ProvedRow(row'[u])
  <2>1. u \in Users /\ row[u] \in User /\ row[u].state # "none" /\ (row[u].google => ProvedRow(row[u]))
    BY <1>2, KnownRow
  <2>2. PICK q : q = [row[u] EXCEPT !.verified = TRUE, !.tv = @ + 1]
    OBVIOUS
  <2>3. row' = [row EXCEPT ![u] = q]
    BY <1>4, <2>1, <2>2 DEF Tables
  <2>4. q \in User /\ Evolves(row[u], q, u \in crossed') /\ ProvedRow(q)
    BY <1>4, <2>1, <2>2, VerifiedRow
  <2>5. RowStep
    BY <1>2, <2>3, <2>4, UpdateStep
  <2> QED
    BY <2>1, <2>3, <2>4, <2>5 DEF Tables
<1>5. Refused(w, l) \/ (row[u].tv < MaxEpoch /\ row' = [row EXCEPT ![u].verified = TRUE, ![u].tv = @ + 1])
  BY <1>0, <1>1, Zenon DEF VerifyConsume
<1> QED
  BY <1>0, <1>1, <1>2, <1>3, <1>4, <1>5

LEMMA ResetRows ==
    ASSUME Tables, GoogleProved, Mail, NEW w \in Workers, Valid(work[w]), ResetConsume(w)
    PROVE  RowStep
<1>0. PICK l : l = work[w].link
  OBVIOUS
<1>1. PICK u, p : l = work[w].link /\ u = link[l].user /\ p = work[w].password
  BY <1>0
<1>2. Known(u) /\ crossed' = crossed /\ p \in Passwords
  <2>1. Issued(l) /\ p \in Passwords
    BY <1>1 DEF ResetConsume, At, Valid
  <2>2. Known(link[l].user)
    BY <2>1, LinkOwner
  <2>3. crossed' = crossed
    BY Zenon DEF ResetConsume
  <2> QED
    BY <1>1, <2>1, <2>2, <2>3
<1>3. CASE Refused(w, l)
  <2>1. row' = row
    BY <1>3 DEF Refused
  <2> QED
    BY <1>2, <2>1 DEF RowStep
<1>4. ASSUME row[u].tv < MaxEpoch, row' = Rekeyed(u, p)
      PROVE  RowStep
  <2>1. u \in Users /\ row[u] \in User /\ (row[u].google => ProvedRow(row[u]))
    BY <1>2, KnownRow
  <2>2. PICK q : q = [row[u] EXCEPT !.password = p, !.tv = @ + 1]
    OBVIOUS
  <2>3. row' = [row EXCEPT ![u] = q]
    BY <1>4, <2>1, <2>2 DEF Tables, Rekeyed
  <2>4. q \in User /\ Evolves(row[u], q, u \in crossed')
    BY <1>2, <1>4, <2>1, <2>2, RekeyedRow
  <2> QED
    BY <1>2, <2>3, <2>4, UpdateStep
<1>5. Refused(w, l) \/ (row[u].tv < MaxEpoch /\ row' = Rekeyed(u, p))
  BY <1>1, Zenon DEF ResetConsume
<1> QED
  BY <1>3, <1>4, <1>5

LEMMA LogoutRows ==
    ASSUME Tables, GoogleProved, NEW w \in Workers, Valid(work[w]), Logout(w)
    PROVE  RowStep
<1>1. PICK u : u = work[w].user
  OBVIOUS
<1>2. Known(u)
  BY <1>1 DEF Logout, At, Valid
<1>3. u \in Users /\ row[u] \in User /\ (row[u].google => ProvedRow(row[u]))
  BY <1>2, KnownRow
<1>4. row[u].tv < MaxEpoch /\ row' = [row EXCEPT ![u].tv = @ + 1] /\ crossed' = crossed
  BY <1>1, Zenon DEF Logout
<1>5. PICK q : q = [row[u] EXCEPT !.tv = @ + 1]
  OBVIOUS
<1>6. row' = [row EXCEPT ![u] = q]
  BY <1>3, <1>4, <1>5 DEF Tables
<1>7. q \in User /\ Evolves(row[u], q, u \in crossed')
  BY <1>3, <1>4, <1>5, LoggedOutRow
<1> QED
  BY <1>2, <1>4, <1>6, <1>7, UpdateStep

LEMMA SetupRows ==
    ASSUME Tables, GoogleProved, NEW w \in Workers, Valid(work[w]), CpoSetup(w)
    PROVE  RowStep
<1>1. PICK u : u = work[w].user
  OBVIOUS
<1>2. Known(u)
  BY <1>1 DEF CpoSetup, At, Valid
<1>3. u \in Users /\ row[u] \in User /\ (row[u].google => ProvedRow(row[u]))
  BY <1>2, KnownRow
<1>4. row' = [row EXCEPT ![u].role = "cpo", ![u].tenant = TRUE] /\ crossed' = crossed
  BY <1>1, Zenon DEF CpoSetup
<1>5. PICK q : q = [row[u] EXCEPT !.role = "cpo", !.tenant = TRUE]
  OBVIOUS
<1>6. row' = [row EXCEPT ![u] = q]
  BY <1>3, <1>4, <1>5 DEF Tables
<1>7. q \in User /\ Evolves(row[u], q, u \in crossed')
  BY <1>3, <1>5, SetupRow
<1> QED
  BY <1>2, <1>4, <1>6, <1>7, UpdateStep

LEMMA CloseRows ==
    ASSUME Tables, GoogleProved, NEW w \in Workers, Valid(work[w]), CloseAccount(w)
    PROVE  RowStep
<1>1. PICK u : u = work[w].user
  OBVIOUS
<1>2. Known(u)
  BY <1>1 DEF CloseAccount, At, Valid
<1>3. u \in Users /\ row[u] \in User
  BY <1>2, KnownRow
<1>4. /\ row[u].tv < MaxEpoch /\ crossed' = crossed
      /\ row' = [row EXCEPT ![u].state = "closed", ![u].verified = FALSE,
                            ![u].disabled = TRUE, ![u].password = NoPassword,
                            ![u].google = FALSE, ![u].tv = @ + 1]
  BY <1>1, Zenon DEF CloseAccount
<1>5. PICK q : q = [row[u] EXCEPT !.state = "closed", !.verified = FALSE, !.disabled = TRUE,
                                  !.password = NoPassword, !.google = FALSE, !.tv = @ + 1]
  OBVIOUS
<1>6. row' = [row EXCEPT ![u] = q]
  BY <1>3, <1>4, <1>5 DEF Tables
<1>7. q \in User /\ Evolves(row[u], q, u \in crossed')
  BY <1>3, <1>4, <1>5, ClosedRow
<1> QED
  BY <1>2, <1>4, <1>6, <1>7, UpdateStep

LEMMA AdminRows ==
    ASSUME Tables, GoogleProved, NEW w \in Workers, Valid(work[w]), AdminUpdateUser(w)
    PROVE  RowStep
<1>0. PICK a : a = work[w]
  OBVIOUS
<1>1. PICK u : a = work[w] /\ u = a.user
  BY <1>0
<1>2. Known(u) /\ a.req \in AdminRequests /\ a.seen \in User
  BY <1>1 DEF AdminUpdateUser, At, Valid
<1>3. u \in Users /\ row[u] \in User /\ (row[u].google => ProvedRow(row[u]))
  BY <1>2, KnownRow
<1>4. /\ Revokes(a) => row[u].tv < MaxEpoch
      /\ row' = [row EXCEPT
               ![u].role = IF RoleChanged(a) THEN a.req.role ELSE @,
               ![u].disabled = IF DisabledChanged(a) THEN a.req.disabled = "yes" ELSE @,
               ![u].tv = IF Revokes(a) THEN @ + 1 ELSE @]
      /\ crossed' = crossed
  BY <1>1, Zenon DEF AdminUpdateUser
<1>5. PICK q : q = [row[u] EXCEPT !.role = IF RoleChanged(a) THEN a.req.role ELSE @,
                         !.disabled = IF DisabledChanged(a) THEN a.req.disabled = "yes" ELSE @,
                         !.tv = IF Revokes(a) THEN @ + 1 ELSE @]
  OBVIOUS
<1>6. row' = [row EXCEPT ![u] = q]
  BY <1>3, <1>4, <1>5 DEF Tables
<1>7. q \in User /\ Evolves(row[u], q, u \in crossed')
  BY <1>2, <1>3, <1>4, <1>5, AdministeredRow
<1> QED
  BY <1>2, <1>4, <1>6, <1>7, UpdateStep

\* Google proves the address: the linked row is proved.
LEMMA GoogleLinkRows ==
    ASSUME Tables, GoogleProved, NEW w \in Workers, Valid(work[w]), GoogleLink(w)
    PROVE  /\ RowStep
           /\ \/ Done(w)
              \/ \E u : Known(u) /\ ProvedRow(row'[u]) /\ Serve(w, [op |-> "signed", user |-> u])
<1>1. PICK s \in work[w].seen :
         /\ ~s.row.google
         /\ s.row.tv < MaxEpoch
         /\ IF \E v \in Users \ {s.user} : row[v].google
            THEN Done(w) /\ UNCHANGED <<row, crossed>>
            ELSE /\ row' = TakenOver(s.user, s.row)
                 /\ crossed' = IF row[s.user].tv = s.row.tv THEN crossed
                               ELSE crossed \cup {s.user}
                 /\ Serve(w, [op |-> "signed", user |-> s.user])
  BY Zenon DEF GoogleLink
<1>2. PICK u, seen : u = s.user /\ seen = s.row
  OBVIOUS
<1>3. Known(u) /\ seen \in User /\ (seen.verified => ProvedRow(row[u]))
  <2>1. Seen(s)
    BY DEF GoogleLink, At, Valid
  <2> QED
    BY <1>2, <2>1 DEF Seen, Known, Proved
<1>4. CASE \E v \in Users \ {s.user} : row[v].google
  BY <1>1, <1>4, Zenon DEF RowStep
<1>5. CASE ~\E v \in Users \ {s.user} : row[v].google
  <2>1. u \in Users /\ row[u] \in User /\ row[u].state # "none"
    BY <1>3, KnownRow
  <2>2. PICK q : q = [row[u] EXCEPT !.google = TRUE, !.password = NoPassword,
                         !.verified = @ \/ ~seen.verified, !.tv = seen.tv + 1]
    OBVIOUS
  <2>3. row' = [row EXCEPT ![u] = q]
    <3>1. row' = TakenOver(u, seen)
      BY <1>1, <1>2, <1>5
    <3>2. row' = [row EXCEPT ![u] = [row[u] EXCEPT !.google = TRUE, !.password = NoPassword,
                         !.verified = @ \/ ~seen.verified, !.tv = seen.tv + 1]]
      BY <3>1, Zenon DEF TakenOver
    <3> QED
      BY <2>2, <3>2, Zenon
  <2>4. crossed' \in {crossed, crossed \cup {u}} /\ (row[u].tv = seen.tv \/ u \in crossed')
    BY <1>1, <1>2, <1>5
  <2>5. seen.tv < MaxEpoch
    BY <1>1, <1>2
  <2>6. q \in User /\ Evolves(row[u], q, u \in crossed') /\ ProvedRow(q)
    BY <1>3, <2>1, <2>2, <2>4, <2>5, TakenOverRow
  <2>7. RowStep
    BY <1>3, <2>3, <2>4, <2>6, UpdateStep
  <2>8. row'[u] = q
    BY <2>1, <2>3 DEF Tables
  <2>9. Serve(w, [op |-> "signed", user |-> u])
    BY <1>1, <1>2, <1>5
  <2> QED
    BY <1>3, <2>6, <2>7, <2>8, <2>9
<1> QED
  BY <1>4, <1>5

\* No step changes rows otherwise.
LEMMA NextRows ==
    ASSUME Tables, Rows, Mail, Credentials, Next
    PROVE  RowStep
<1>0. GoogleProved /\ \A w \in Workers : Valid(work[w])
  BY DEF Rows, Credentials, Serving
<1>1. ASSUME NEW w \in Workers, Reads(w) PROVE RowStep
  BY <1>1, ReadsOnly DEF Begin, RowStep
<1>2. ASSUME NEW w \in Workers, Writes(w) PROVE RowStep
  BY <1>0, <1>2, InsertRows, VerifyRows, ResetRows, GoogleLinkRows, LogoutRows, SetupRows,
     CloseRows, AdminRows, Zenon DEF Writes
<1>3. ASSUME NEW w \in Workers, Leaves(w) \/ LoginFail(w) \/ LoginPass(w) PROVE RowStep
  BY <1>3, Zenon DEF Leaves, IssueVoid, IssueCommit, VerifyMint, GoogleKnown, GoogleMint,
                     LoginFail, LoginPass, RowStep
<1>4. ASSUME NEW c, NEW h, GoogleExchange(c, h) PROVE RowStep
  BY <1>4, Zenon DEF GoogleExchange, RowStep
<1>5. ASSUME Tick \/ Restart PROVE RowStep
  BY <1>5, Zenon DEF Tick, Restart, RowStep
<1> QED
  BY <1>1, <1>2, <1>3, <1>4, <1>5, NextCases, Zenon DEF Cases

LEMMA KnownStays ==
    ASSUME Onward, NEW u, Known(u)
    PROVE  Known(u)'
  BY DEF Onward, Known
-----------------------------------------------------------------------------
(* Links *)

\* An issued link keeps its kind and its owner.
LinksOnward ==
    \A l \in Links : link[l].state # "none" =>
        link'[l].state # "none" /\ link'[l].kind = link[l].kind /\ link'[l].user = link[l].user

LinksGo == link' \in [Links -> Link] /\ LinksFilled' /\ LinksOnward /\ Mail'

LEMMA MarkedLink ==
    ASSUME NEW r \in Link, NEW s \in {"used", "gone"}, NEW q, q = [r EXCEPT !.state = s]
    PROVE  q \in Link /\ q.state = s /\ q.kind = r.kind /\ q.user = r.user
  BY DEF Link

LEMMA LinksStand ==
    ASSUME Tables, LinksFilled, Mail, Onward, UNCHANGED <<link, taken>>
    PROVE  LinksGo
<1>1. link' \in [Links -> Link] /\ LinksFilled' /\ LinksOnward
  BY DEF Tables, LinksFilled, LinksOnward
<1>2. Owned /\ Untaken /\ LinksSingleUse /\ NewestLinkLives /\ taken \in [Links -> Nat]
  BY DEF Mail
<1>3. Owned'
  BY <1>2, KnownStays DEF Owned
<1>4. Untaken' /\ LinksSingleUse' /\ NewestLinkLives' /\ taken' \in [Links -> Nat]
  BY <1>2 DEF Untaken, LinksSingleUse, NewestLinkLives
<1> QED
  BY <1>1, <1>3, <1>4 DEF LinksGo, Mail

LEMMA ConsumeGo ==
    ASSUME Tables, LinksFilled, Mail, Onward, NEW w, NEW l \in Links, Consume(w, l)
    PROVE  LinksGo
<1>0. Owned /\ Untaken /\ LinksSingleUse /\ NewestLinkLives /\ taken \in [Links -> Nat] /\ link \in [Links -> Link]
  BY DEF Mail, Tables
<1>1. /\ link[l].state = "live"
      /\ link' = [link EXCEPT ![l].state = "used"] /\ taken' = [taken EXCEPT ![l] = @ + 1]
  BY DEF Consume, Consumable
<1>2. taken[l] = 0 /\ taken'[l] = 1 /\ \A k \in Links : k # l => taken'[k] = taken[k]
  BY <1>0, <1>1 DEF Untaken
<1>3. /\ link'[l].state = "used" /\ \A k \in Links : k # l => link'[k] = link[k]
      /\ \A k \in Links : link'[k].kind = link[k].kind /\ link'[k].user = link[k].user
  BY <1>0, <1>1 DEF Link
<1>4. \A k \in Links : link'[k].state # "none" <=> link[k].state # "none"
  BY <1>1, <1>3
<1>5. link' \in [Links -> Link] /\ taken' \in [Links -> Nat]
  BY <1>0, <1>1 DEF Link
<1>6. LinksFilled'
  BY <1>4 DEF LinksFilled
<1>7. LinksOnward
  BY <1>3, <1>4 DEF LinksOnward
<1>8. Owned'
  BY <1>0, <1>3, <1>4, KnownStays DEF Owned
<1>9. Untaken' /\ LinksSingleUse'
  BY <1>0, <1>2, <1>3 DEF Untaken, LinksSingleUse
<1>10. NewestLinkLives'
  <2>1. ASSUME NEW k \in Links, link'[k].state = "used", taken'[k] = 0
        PROVE  \E m \in Links : m > k /\ link'[m].kind = link'[k].kind /\ link'[m].user = link'[k].user
    <3>1. k # l
      BY <1>2, <2>1
    <3>2. PICK m \in Links : m > k /\ link[m].kind = link[k].kind /\ link[m].user = link[k].user
      BY <1>0, <1>2, <1>3, <2>1, <3>1 DEF NewestLinkLives
    <3> QED
      BY <1>3, <3>2
  <2> QED
    BY <2>1 DEF NewestLinkLives
<1> QED
  BY <1>5, <1>6, <1>7, <1>8, <1>9, <1>10 DEF LinksGo, Mail

LEMMA CloseGo ==
    ASSUME Tables, LinksFilled, Mail, Onward, NEW w \in Workers, CloseAccount(w)
    PROVE  LinksGo
<1>0. Owned /\ Untaken /\ LinksSingleUse /\ NewestLinkLives /\ taken \in [Links -> Nat] /\ link \in [Links -> Link]
  BY DEF Mail, Tables
<1>1. PICK mine : mine = {l \in Links : link[l].state # "none" /\ link[l].user = work[w].user}
  OBVIOUS
<1>2. /\ link' = [l \in Links |-> IF l \in mine THEN [link[l] EXCEPT !.state = "gone"] ELSE link[l]]
      /\ taken' = taken
  BY <1>1, Zenon DEF CloseAccount
<1>3. \A l \in mine : link'[l] = [link[l] EXCEPT !.state = "gone"] /\ link[l] \in Link /\ link[l].state # "none"
  BY <1>0, <1>1, <1>2
<1>4. \A l \in Links \ mine : link'[l] = link[l]
  BY <1>2
<1>5. \A l \in mine : link'[l] \in Link /\ link'[l].state = "gone" /\ link'[l].kind = link[l].kind /\ link'[l].user = link[l].user
  BY <1>3, MarkedLink
<1>6. \A l \in Links : link'[l].kind = link[l].kind /\ link'[l].user = link[l].user
  BY <1>4, <1>5
<1>7. \A l \in Links : link'[l].state # "none" <=> link[l].state # "none"
  BY <1>3, <1>4, <1>5
<1>8. link' \in [Links -> Link]
  <2>1. \A l \in Links : link'[l] \in Link
    BY <1>0, <1>4, <1>5
  <2> QED
    BY <1>2, <2>1
<1>9. LinksFilled'
  BY <1>7 DEF LinksFilled
<1>10. LinksOnward
  BY <1>6, <1>7 DEF LinksOnward
<1>11. Owned'
  BY <1>0, <1>6, <1>7, KnownStays DEF Owned
<1>12. \A l \in Links : link'[l].state \in {"none", "live", "used"} => link'[l] = link[l]
  BY <1>4, <1>5
<1>13. Untaken' /\ LinksSingleUse' /\ taken' \in [Links -> Nat]
  BY <1>0, <1>2, <1>12 DEF Untaken, LinksSingleUse
<1>14. NewestLinkLives'
  <2>1. ASSUME NEW k \in Links, link'[k].state = "used", taken'[k] = 0
        PROVE  \E m \in Links : m > k /\ link'[m].kind = link'[k].kind /\ link'[m].user = link'[k].user
    <3>1. link'[k] = link[k]
      BY <1>12, <2>1
    <3>2. PICK m \in Links : m > k /\ link[m].kind = link[k].kind /\ link[m].user = link[k].user
      BY <1>0, <1>2, <2>1, <3>1 DEF NewestLinkLives
    <3> QED
      BY <1>6, <3>2
  <2> QED
    BY <2>1 DEF NewestLinkLives
<1> QED
  BY <1>8, <1>9, <1>10, <1>11, <1>13, <1>14 DEF LinksGo, Mail

LEMMA IssueGo ==
    ASSUME Tables, LinksFilled, Mail, Onward, NEW w \in Workers, Valid(work[w]), IssueCommit(w)
    PROVE  LinksGo
<1>0. Owned /\ Untaken /\ LinksSingleUse /\ NewestLinkLives /\ taken \in [Links -> Nat] /\ link \in [Links -> Link]
  BY DEF Mail, Tables
<1>1. PICK n \in 0 .. MaxLinks : NextLink = n + 1 /\ \A l \in Links : link[l].state # "none" <=> l <= n
  BY NextLinkFree
<1>2. PICK k, kind, u, voids :
         k = NextLink /\ kind = work[w].kind /\ u = work[w].user /\ voids = work[w].voids
  OBVIOUS
<1>3. /\ kind \in {"verify", "reset"} /\ Known(u)
      /\ \A l \in voids : Issued(l) /\ link[l].kind = kind /\ link[l].user = u
  BY <1>2 DEF IssueCommit, At, Valid
<1>4. PICK fresh : fresh = [state |-> "live", kind |-> kind, user |-> u, due |-> now + LinkTtl]
  OBVIOUS
<1>5. /\ k \in Links /\ taken' = taken
      /\ link' = [l \in Links |-> CASE l = k -> fresh
                                    [] l \in voids -> [link[l] EXCEPT !.state = "used"]
                                    [] OTHER -> link[l]]
  BY <1>2, <1>4 DEF IssueCommit
<1>6. k = n + 1 /\ link[k].state = "none" /\ k \notin voids
  BY <1>1, <1>2, <1>3, <1>5, Bounds DEF Links, Issued
<1>7. /\ link'[k] = fresh
      /\ \A l \in voids : link'[l] = [link[l] EXCEPT !.state = "used"] /\ link[l] \in Link /\ l \in Links
      /\ \A l \in Links : l # k /\ l \notin voids => link'[l] = link[l]
  BY <1>0, <1>3, <1>5, <1>6 DEF Issued
<1>8. fresh \in Link /\ fresh.state = "live" /\ fresh.kind = kind /\ fresh.user = u
  <2>1. u \in 0 .. MaxUsers /\ now + LinkTtl \in 0 .. MaxTime + LinkTtl
    <3>1. u \in Users /\ now \in Times
      BY <1>3 DEF Known, Tables
    <3> QED
      BY <3>1, Bounds DEF Users, Times
  <2> QED
    BY <1>3, <1>4, <2>1 DEF Link
<1>9. \A l \in voids : /\ link'[l] \in Link /\ link'[l].state = "used"
                       /\ link'[l].kind = link[l].kind /\ link'[l].user = link[l].user
  <2>1. ASSUME NEW l \in voids
        PROVE  /\ link'[l] \in Link /\ link'[l].state = "used"
               /\ link'[l].kind = link[l].kind /\ link'[l].user = link[l].user
    <3>1. PICK r, q : r = link[l] /\ q = link'[l]
      OBVIOUS
    <3>2. r \in Link /\ q = [r EXCEPT !.state = "used"]
      BY <1>7, <3>1
    <3>3. q \in Link /\ q.state = "used" /\ q.kind = r.kind /\ q.user = r.user
      BY <3>2, MarkedLink
    <3> QED
      BY <3>1, <3>3
  <2> QED
    BY <2>1
<1>10. ASSUME NEW l \in Links, l # k
       PROVE  link'[l].kind = link[l].kind /\ link'[l].user = link[l].user
  <2>1. CASE l \in voids
    BY <1>9, <2>1
  <2>2. CASE l \notin voids
    BY <1>7, <1>10, <2>2
  <2> QED
    BY <2>1, <2>2
<1>11. link' \in [Links -> Link]
  <2>1. \A l \in Links : link'[l] \in Link
    BY <1>0, <1>7, <1>8, <1>9
  <2> QED
    BY <1>5, <2>1
<1>12. \A l \in Links : l # k => (link'[l].state # "none" <=> link[l].state # "none")
  BY <1>3, <1>7, <1>9 DEF Issued
<1>13. LinksFilled'
  <2>1. k \in 0 .. MaxLinks
    BY <1>5, Bounds DEF Links
  <2>2. ASSUME NEW l \in Links PROVE link'[l].state # "none" <=> l <= k
    <3>1. CASE l = k
      BY <1>7, <1>8, <3>1, <2>1
    <3>2. CASE l # k
      <4>1. l <= n <=> l <= k
        BY <1>1, <1>6, <3>2, Bounds DEF Links
      <4> QED
        BY <1>1, <1>12, <3>2, <4>1
    <3> QED
      BY <3>1, <3>2
  <2> QED
    BY <2>1, <2>2 DEF LinksFilled
<1>14. LinksOnward
  BY <1>6, <1>10, <1>12 DEF LinksOnward
<1>15. Owned'
  <2>1. ASSUME NEW l \in Links
        PROVE  /\ link'[l].state = "none" => link'[l].kind = "none"
               /\ link'[l].state # "none" => link'[l].kind \in {"verify", "reset"} /\ Known(link[l].user)'
    <3>1. CASE l = k
      <4>1. Known(u)'
        BY <1>3, KnownStays
      <4> QED
        BY <1>3, <1>7, <1>8, <3>1, <4>1
    <3>2. CASE l # k
      BY <1>0, <1>10, <1>12, <3>2, KnownStays DEF Owned
    <3> QED
      BY <3>1, <3>2
  <2> QED
    BY <2>1 DEF Owned
<1>16. Untaken'
  <2>1. \A l \in Links : link'[l].state \in {"none", "live"} => link[l].state \in {"none", "live"}
    BY <1>6, <1>7, <1>9
  <2> QED
    BY <1>0, <1>5, <2>1 DEF Untaken
<1>17. LinksSingleUse' /\ taken' \in [Links -> Nat]
  BY <1>0, <1>5 DEF LinksSingleUse
<1>18. NewestLinkLives'
  <2>1. ASSUME NEW l \in Links, link'[l].state = "used", taken'[l] = 0
        PROVE  \E m \in Links : m > l /\ link'[m].kind = link'[l].kind /\ link'[m].user = link'[l].user
    <3>1. CASE l \in voids
      <4>1. k > l
        <5>1. l <= n
          BY <1>1, <1>3, <3>1 DEF Issued
        <5> QED
          BY <1>1, <1>6, <5>1, Bounds DEF Links
      <4>2. link'[k].kind = link'[l].kind /\ link'[k].user = link'[l].user
        BY <1>3, <1>7, <1>8, <1>9, <3>1
      <4> QED
        BY <1>5, <4>1, <4>2
    <3>2. CASE l \notin voids
      <4>1. l # k /\ link'[l] = link[l]
        BY <1>7, <1>8, <2>1, <3>2
      <4>2. PICK m \in Links : m > l /\ link[m].kind = link[l].kind /\ link[m].user = link[l].user
        BY <1>0, <1>5, <2>1, <4>1 DEF NewestLinkLives
      <4>3. link[l].kind \in {"verify", "reset"} /\ link[k].kind = "none"
        BY <1>0, <1>5, <1>6, <2>1, <4>1 DEF Owned
      <4>4. m # k
        BY <4>2, <4>3
      <4> QED
        BY <1>10, <4>1, <4>2, <4>4
    <3> QED
      BY <3>1, <3>2
  <2> QED
    BY <2>1 DEF NewestLinkLives
<1> QED
  BY <1>11, <1>13, <1>14, <1>15, <1>16, <1>17, <1>18 DEF LinksGo, Mail

\* No step changes links otherwise.
LEMMA NextLinks ==
    ASSUME Tables, LinksFilled, Mail, Onward, \A w \in Workers : Valid(work[w]), Next
    PROVE  LinksGo
<1>1. ASSUME UNCHANGED <<link, taken>> PROVE LinksGo
  BY <1>1, LinksStand
<1>2. ASSUME NEW w \in Workers, Reads(w) PROVE LinksGo
  BY <1>1, <1>2, ReadsOnly DEF Begin
<1>3. ASSUME NEW w \in Workers, VerifyConsume(w) \/ ResetConsume(w) PROVE LinksGo
  <2>1. work[w].link \in Links
    BY <1>3 DEF VerifyConsume, ResetConsume, At, Valid, Issued
  <2>2. Consume(w, work[w].link) \/ Refused(w, work[w].link)
    BY <1>3, Zenon DEF VerifyConsume, ResetConsume
  <2>3. CASE Consume(w, work[w].link)
    BY <2>1, <2>3, ConsumeGo
  <2>4. CASE Refused(w, work[w].link)
    BY <1>1, <2>4, Zenon DEF Refused
  <2> QED
    BY <2>2, <2>3, <2>4, Zenon
<1>4. ASSUME NEW w \in Workers, Writes(w) PROVE LinksGo
  <2>1. ASSUME RegisterInsert(w) \/ GoogleCreate(w) \/ GoogleLink(w) \/ Logout(w) \/ CpoSetup(w) \/ AdminUpdateUser(w)
        PROVE  LinksGo
    BY <1>1, <2>1, Zenon DEF RegisterInsert, GoogleCreate, GoogleLink, Logout, CpoSetup, AdminUpdateUser
  <2> QED
    BY <1>3, <1>4, <2>1, CloseGo DEF Writes
<1>5. ASSUME NEW w \in Workers, IssueCommit(w) PROVE LinksGo
  BY <1>5, IssueGo
<1>6. ASSUME NEW w \in Workers, Leaves(w) \/ LoginFail(w) \/ LoginPass(w) PROVE LinksGo
  BY <1>1, <1>5, <1>6, Zenon DEF Leaves, IssueVoid, VerifyMint, GoogleKnown, GoogleMint, LoginFail, LoginPass
<1>7. ASSUME NEW c, NEW h, GoogleExchange(c, h) PROVE LinksGo
  BY <1>1, <1>7, Zenon DEF GoogleExchange
<1>8. ASSUME Tick \/ Restart PROVE LinksGo
  BY <1>1, <1>8, Zenon DEF Tick, Restart
<1> QED
  BY <1>2, <1>4, <1>6, <1>7, <1>8, NextCases, Zenon DEF Cases
-----------------------------------------------------------------------------
(* Credentials and requests *)

\* What every step does to the tables, as far as requests are concerned.
Moves == row \in [Users -> User] /\ row' \in [Users -> User] /\ Onward /\ LinksOnward

\* How the row of a known user moved.
LEMMA Moved ==
    ASSUME Moves, NEW u \in Users, row[u].state # "none"
    PROVE  /\ row'[u].state # "none" /\ (Proved(u) => Proved(u)')
           /\ row[u].tv \in Nat /\ row'[u].tv \in Nat
           /\ u \notin crossed' =>
                /\ u \notin crossed /\ row[u].tv <= row'[u].tv
                /\ row'[u].tv = row[u].tv =>
                     row'[u].password = row[u].password /\ (row[u].role = "cpo" => row'[u].role = "cpo")
<1>1. row[u].tv \in Nat /\ row'[u].tv \in Nat
  BY Bounds DEF Moves, User
<1> QED
  BY <1>1 DEF Moves, Onward

LEMMA BehindStays ==
    ASSUME Moves, NEW u \in Users, row[u].state # "none", NEW tv \in Int, NEW role, Behind(u, tv, role)
    PROVE  Behind(u, tv, role)'
<1>1. SUFFICES ASSUME u \notin crossed'
               PROVE  tv <= row'[u].tv /\ (tv = row'[u].tv /\ role = "cpo" => row'[u].role = "cpo")
  BY DEF Behind
<1>2. /\ u \notin crossed /\ row[u].tv <= row'[u].tv /\ row[u].tv \in Nat /\ row'[u].tv \in Nat
      /\ row'[u].tv = row[u].tv => (row[u].role = "cpo" => row'[u].role = "cpo")
  BY <1>1, Moved
<1>3. tv <= row[u].tv /\ (tv = row[u].tv /\ role = "cpo" => row[u].role = "cpo")
  BY <1>2 DEF Behind
<1> QED
  BY <1>2, <1>3

LEMMA SoundStays ==
    ASSUME Moves, NEW t \in Token, Sound(t)
    PROVE  Sound(t)'
<1>1. PICK u, tv : u = t.user /\ tv = t.tv
  OBVIOUS
<1>2. u \in Users /\ tv \in Nat
  BY <1>1, Bounds DEF Token
<1>3. Proved(u) /\ Behind(u, tv, t.role)
  BY <1>1 DEF Sound
<1>4. row[u].state # "none"
  BY <1>3 DEF Proved, ProvedRow
<1>5. Proved(u)'
  BY <1>2, <1>3, <1>4, Moved
<1>6. Behind(u, tv, t.role)'
  BY <1>2, <1>3, <1>4, BehindStays
<1>7. ASSUME u \notin crossed', tv = row'[u].tv, t.password # NoPassword
      PROVE  t.password = row'[u].password
  <2>1. /\ u \notin crossed /\ row[u].tv <= row'[u].tv /\ row[u].tv \in Nat /\ row'[u].tv \in Nat
        /\ row'[u].tv = row[u].tv => row'[u].password = row[u].password
    BY <1>2, <1>4, <1>7, Moved
  <2>2. tv <= row[u].tv
    BY <1>3, <2>1 DEF Behind
  <2>3. tv = row[u].tv
    BY <1>2, <1>7, <2>1, <2>2
  <2>4. t.password = row[u].password
    BY <1>1, <1>7, <2>1, <2>3 DEF Sound
  <2> QED
    BY <1>7, <2>1, <2>3, <2>4
<1> QED
  BY <1>1, <1>5, <1>6, <1>7 DEF Sound

LEMMA SeenStays ==
    ASSUME Moves, NEW s, Seen(s)
    PROVE  Seen(s)'
<1>1. PICK u, r : u = s.user /\ r = s.row
  OBVIOUS
<1>2. u \in Users /\ r \in User /\ row[u].state # "none" /\ Behind(u, r.tv, r.role)
  BY <1>1 DEF Seen
<1>3. r.tv \in Int
  BY <1>2 DEF User
<1>4. row'[u].state # "none" /\ (Proved(u) => Proved(u)')
  BY <1>2, Moved
<1>5. Behind(u, r.tv, r.role)'
  BY <1>2, <1>3, BehindStays
<1>6. r.google \/ r.verified => Proved(u)
  BY <1>1 DEF Seen
<1> QED
  BY <1>1, <1>2, <1>4, <1>5, <1>6 DEF Seen

LEMMA ValidStays ==
    ASSUME Moves, NEW r, Valid(r)
    PROVE  Valid(r)'
<1>1. \A u : Known(u) => Known(u)' /\ (Proved(u) => Proved(u)')
  BY Moved DEF Known
<1>2. \A l : Issued(l) => Issued(l)' /\ link'[l].kind = link[l].kind /\ link'[l].user = link[l].user
  BY DEF Moves, LinksOnward, Issued
<1>3. r.op = "issued" => \A l \in r.voids : Issued(l)' /\ link'[l].kind = r.kind /\ link'[l].user = r.user
  BY <1>2 DEF Valid
<1>4. r.op = "login" => \A t \in r.jwts : Sound(t)'
  BY SoundStays DEF Valid
<1>5. r.op = "google" => \A s \in r.seen : Seen(s)'
  BY SeenStays DEF Valid
<1>6. /\ r.op \in {"issue", "issued"} => Known(r.user)'
      /\ r.op \in {"verified", "signed"} => Known(r.user)' /\ Proved(r.user)'
      /\ r.op \in {"logout", "setup", "close", "admin"} => Known(r.user)'
      /\ r.op \in {"verify", "reset"} => Issued(r.link)'
  BY <1>1, <1>2 DEF Valid
<1>7. /\ r.op \in Ops
      /\ r.op \in {"register", "reset"} => r.password \in Passwords
      /\ r.op \in {"issue", "issued"} => r.kind \in {"verify", "reset"}
      /\ r.op = "login" => r.right \in BOOLEAN /\ r.jwts \in SUBSET Token
      /\ r.op = "admin" => r.req \in AdminRequests /\ r.seen \in User
  BY Zenon DEF Valid
<1> QED
  BY <1>3, <1>4, <1>5, <1>6, <1>7, Zenon DEF Valid

LEMMA HeldStays == ASSUME Moves, Held, UNCHANGED jwt PROVE Held'
  BY SoundStays DEF Held

LEMMA StashedStays == ASSUME Moves, Stashed, UNCHANGED code PROVE Stashed'
<1>1. ASSUME NEW c \in Codes, NEW t \in code[c].jwt PROVE Sound(t)'
  BY <1>1, SoundStays DEF Stashed
<1> QED
  BY <1>1 DEF Stashed

LEMMA ServingStays == ASSUME Moves, Serving, UNCHANGED work PROVE Serving'
  BY ValidStays DEF Serving

\* A worker that takes a valid request leaves the others valid.
LEMMA Served ==
    ASSUME Moves, Serving, NEW w \in Workers, NEW r, work' = [work EXCEPT ![w] = r], Valid(r)'
    PROVE  Serving'
<1>1. work' = [v \in Workers |-> work'[v]] /\ work'[w] = r
  BY DEF Serving
<1>2. ASSUME NEW v \in Workers PROVE Valid(work[v])'
  <2>1. CASE v = w
    BY <1>1, <2>1
  <2>2. CASE v # w
    <3>1. PICK q : q = work[v]
      OBVIOUS
    <3>2. work'[v] = q
      BY <2>2, <3>1 DEF Serving
    <3>3. Valid(q)'
      BY <3>1, ValidStays DEF Serving
    <3> QED
      BY <3>2, <3>3
  <2> QED
    BY <2>1, <2>2
<1> QED
  BY <1>1, <1>2 DEF Serving

LEMMA DoneServed == ASSUME Moves, Serving, NEW w \in Workers, Done(w) PROVE Serving'
<1>1. Valid(Idle)'
  BY DEF Valid, Idle, Ops
<1> QED
  BY <1>1, Served DEF Done, Serve

\* A JWT's account is known.
LEMMA HolderKnown ==
    ASSUME Held, NEW j \in jwt
    PROVE  j \in Token /\ Known(j.user) /\ Proved(j.user)
<1>1. j \in Token /\ j.user \in Users /\ Proved(j.user)
  BY DEF Held, Sound, Token
<1> QED
  BY <1>1 DEF Known, Proved, ProvedRow

\* The account a sign-in found.
LEMMA FoundKnown ==
    ASSUME Tables, NEW u \in Found
    PROVE  Known(u) /\ u \in Users /\ row[u] \in User /\ row[u].state = "live"
  BY DEF Tables, Found, Known

\* A JWT made from a proved row is sound.
LEMMA MintSound ==
    ASSUME row \in [Users -> User], NEW u, Known(u), Proved(u), NEW p \in Passwords \cup {NoPassword},
           p # NoPassword => p = row[u].password
    PROVE  Jwt(u, p) \in Token /\ Sound(Jwt(u, p))
<1>1. u \in Users /\ row[u].tv \in 0 .. MaxEpoch /\ row[u].role \in {"driver", "cpo"} /\ row[u].tv \in Nat
  BY Bounds DEF Known, User
<1>2. PICK t : t = Jwt(u, p)
  OBVIOUS
<1>3. t \in Token /\ t.user = u /\ t.tv = row[u].tv /\ t.role = row[u].role /\ t.password = p
  BY <1>1, <1>2 DEF Jwt, Token
<1>4. Behind(u, t.tv, t.role)
  BY <1>1, <1>3 DEF Behind
<1>5. Sound(t)
  BY <1>3, <1>4 DEF Sound
<1> QED
  BY <1>2, <1>3, <1>5

LEMMA LoginValid ==
    ASSUME Tables, NEW w, NEW p \in Passwords, LoginRead(w, p)
    PROVE  \E r : Begin(w, r) /\ Valid(r)
<1>1. PICK right : right = {u \in Found : row[u].password = p}
  OBVIOUS
<1>2. PICK jwts : jwts = {Jwt(u, p) : u \in {v \in right : MaySignIn(v)}}
  OBVIOUS
<1>3. PICK b : b = (right # {})
  OBVIOUS
<1>4. Begin(w, [op |-> "login", right |-> b, jwts |-> jwts])
  BY <1>1, <1>2, <1>3 DEF LoginRead
<1>5. ASSUME NEW u \in {v \in right : MaySignIn(v)} PROVE Jwt(u, p) \in Token /\ Sound(Jwt(u, p))
  <2>1. u \in Found /\ row[u].password = p /\ row[u].verified
    BY <1>1 DEF MaySignIn
  <2>2. Known(u) /\ row[u].state = "live"
    BY <2>1, FoundKnown
  <2>3. Proved(u)
    BY <2>1, <2>2 DEF Proved, ProvedRow
  <2> QED
    BY <2>1, <2>2, <2>3, MintSound DEF Tables
<1>6. jwts \in SUBSET Token /\ \A t \in jwts : Sound(t)
  BY <1>2, <1>5
<1>7. b \in BOOLEAN
  BY <1>3
<1>8. Valid([op |-> "login", right |-> b, jwts |-> jwts])
  BY <1>6, <1>7 DEF Valid, Ops
<1> QED
  BY <1>4, <1>8

LEMMA GoogleValid ==
    ASSUME Tables, GoogleProved, NEW w, GoogleRead(w)
    PROVE  \E r : Begin(w, r) /\ Valid(r)
<1>1. PICK seen : seen = {[user |-> u, row |-> row[u]] : u \in Found}
  OBVIOUS
<1>2. Begin(w, [op |-> "google", seen |-> seen])
  BY <1>1 DEF GoogleRead
<1>3. ASSUME NEW u \in Found PROVE Seen([user |-> u, row |-> row[u]])
  <2>1. u \in Users /\ row[u] \in User /\ row[u].state = "live"
    BY FoundKnown
  <2>2. PICK s : s = [user |-> u, row |-> row[u]]
    OBVIOUS
  <2>3. s.user = u /\ s.row = row[u]
    BY <2>2
  <2>4. Behind(u, row[u].tv, row[u].role)
    <3>1. row[u].tv \in Nat
      BY <2>1, Bounds DEF User
    <3> QED
      BY <3>1 DEF Behind
  <2>5. row[u].google \/ row[u].verified => Proved(u)
    BY <2>1 DEF GoogleProved, Proved, ProvedRow
  <2>6. Seen(s)
    BY <2>1, <2>3, <2>4, <2>5 DEF Seen
  <2> QED
    BY <2>2, <2>6
<1>4. \A s \in seen : Seen(s)
  BY <1>1, <1>3
<1>5. Valid([op |-> "google", seen |-> seen])
  BY <1>4 DEF Valid, Ops
<1> QED
  BY <1>2, <1>5

\* What a request has read is valid.
LEMMA ReadsValid ==
    ASSUME Tables, GoogleProved, Held, NEW w, Reads(w)
    PROVE  \E r : Begin(w, r) /\ Valid(r)
<1>1. ASSUME NEW p \in Passwords, RegisterRead(w, p) PROVE \E r : Begin(w, r) /\ Valid(r)
  <2>1. Valid([op |-> "register", password |-> p])
    BY DEF Valid, Ops
  <2> QED
    BY <1>1, <2>1 DEF RegisterRead
<1>2. ASSUME ResendRead(w) \/ ForgotRead(w) PROVE \E r : Begin(w, r) /\ Valid(r)
  <2>1. PICK u \in Found, kind \in {"verify", "reset"} : Begin(w, [op |-> "issue", kind |-> kind, user |-> u])
    BY <1>2 DEF ResendRead, ForgotRead
  <2>2. Known(u)
    BY FoundKnown
  <2>3. Valid([op |-> "issue", kind |-> kind, user |-> u])
    BY <2>2 DEF Valid, Ops
  <2> QED
    BY <2>1, <2>3
<1>3. ASSUME NEW l \in Links, VerifyRead(w, l) PROVE \E r : Begin(w, r) /\ Valid(r)
  <2>1. Issued(l) /\ Begin(w, [op |-> "verify", link |-> l])
    BY <1>3 DEF VerifyRead, LinkRead, Issued
  <2>2. Valid([op |-> "verify", link |-> l])
    BY <2>1 DEF Valid, Ops
  <2> QED
    BY <2>1, <2>2
<1>4. ASSUME NEW l \in Links, NEW p \in Passwords, ResetRead(w, l, p) PROVE \E r : Begin(w, r) /\ Valid(r)
  <2>1. Issued(l) /\ Begin(w, [op |-> "reset", link |-> l, password |-> p])
    BY <1>4 DEF ResetRead, LinkRead, Issued
  <2>2. Valid([op |-> "reset", link |-> l, password |-> p])
    BY <2>1 DEF Valid, Ops
  <2> QED
    BY <2>1, <2>2
<1>5. ASSUME NEW j \in jwt, NEW p, LogoutAuth(w, j) \/ SetupAuth(w, j) \/ CloseAuth(w, j, p)
      PROVE  \E r : Begin(w, r) /\ Valid(r)
  <2>1. PICK op \in {"logout", "setup", "close"} : Begin(w, [op |-> op, user |-> j.user])
    BY <1>5 DEF LogoutAuth, SetupAuth, CloseAuth, Authenticate
  <2>2. Known(j.user)
    BY HolderKnown
  <2>3. Valid([op |-> op, user |-> j.user])
    BY <2>2 DEF Valid, Ops
  <2> QED
    BY <2>1, <2>3
<1>6. ASSUME NEW u \in Users, NEW req \in AdminRequests, AdminRead(w, u, req)
      PROVE  \E r : Begin(w, r) /\ Valid(r)
  <2>1. Known(u) /\ row[u] \in User /\ Begin(w, [op |-> "admin", user |-> u, req |-> req, seen |-> row[u]])
    BY <1>6 DEF AdminRead, Known, Tables
  <2>2. Valid([op |-> "admin", user |-> u, req |-> req, seen |-> row[u]])
    BY <2>1 DEF Valid, Ops
  <2> QED
    BY <2>1, <2>2
<1>7. ASSUME NEW p \in Passwords, LoginRead(w, p) PROVE \E r : Begin(w, r) /\ Valid(r)
  BY <1>7, LoginValid
<1>8. ASSUME GoogleRead(w) PROVE \E r : Begin(w, r) /\ Valid(r)
  BY <1>8, GoogleValid
<1>9. \A p \in Passwords : RegisterRead(w, p) \/ LoginRead(w, p) => \E r : Begin(w, r) /\ Valid(r)
  BY <1>1, <1>7
<1>10. \A l \in Links : VerifyRead(w, l) \/ (\E p \in Passwords : ResetRead(w, l, p)) => \E r : Begin(w, r) /\ Valid(r)
  BY <1>3, <1>4
<1>11. \A j \in jwt : LogoutAuth(w, j) \/ SetupAuth(w, j) \/ (\E p \in Passwords : CloseAuth(w, j, p))
          => \E r : Begin(w, r) /\ Valid(r)
  BY <1>5, Zenon
<1> QED
  BY <1>2, <1>6, <1>8, <1>9, <1>10, <1>11, Zenon DEF Reads

LEMMA StoredGo ==
    ASSUME Moves, Stashed, now \in Times, NEW j \in Token, Sound(j), code' = Stored(j)
    PROVE  Stashed'
<1>1. PICK d : d = CHOOSE c \in Codes : code[c].jwt = {} \/ code[c].due <= now
  OBVIOUS
<1>2. PICK e : e = [jwt |-> {j}, due |-> now + CodeTtl]
  OBVIOUS
<1>3. code' = [c \in Codes |-> IF c = d THEN e ELSE IF code[c].due <= now THEN NoCode ELSE code[c]]
  BY <1>1, <1>2 DEF Stored
<1>4. e \in [jwt : SUBSET Token, due : Int] /\ e.jwt = {j}
  <2>1. now + CodeTtl \in Int
    BY Bounds DEF Times
  <2> QED
    BY <1>2, <2>1
<1>5. NoCode \in [jwt : SUBSET Token, due : Int] /\ NoCode.jwt = {}
  BY DEF NoCode
<1>6. ASSUME NEW c \in Codes PROVE code'[c] \in [jwt : SUBSET Token, due : Int] /\ \A t \in code'[c].jwt : Sound(t)'
  <2>1. CASE code'[c] = e
    BY <1>4, <2>1, SoundStays
  <2>2. CASE code'[c] = NoCode
    BY <1>5, <2>2
  <2>3. CASE code'[c] = code[c]
    <3>1. code[c] \in [jwt : SUBSET Token, due : Int] /\ \A t \in code[c].jwt : t \in Token /\ Sound(t)
      BY DEF Stashed
    <3> QED
      BY <2>3, <3>1, SoundStays
  <2> QED
    BY <1>3, <2>1, <2>2, <2>3
<1>7. code' \in [Codes -> [jwt : SUBSET Token, due : Int]]
  BY <1>3, <1>6
<1> QED
  BY <1>6, <1>7 DEF Stashed

LEMMA HeldMore ==
    ASSUME Moves, Held, NEW T \in SUBSET Token, \A t \in T : Sound(t), jwt' \in {jwt, jwt \cup T}
    PROVE  Held'
<1>1. jwt' \in SUBSET Token /\ \A t \in jwt' : Sound(t)
  BY DEF Held
<1> QED
  BY <1>1, SoundStays DEF Held

\* A request that goes on with a proved account.
LEMMA GoesOn ==
    ASSUME Moves, Serving, NEW w \in Workers, NEW op \in {"verified", "signed"}, NEW u, Known(u)', Proved(u)',
           Serve(w, [op |-> op, user |-> u])
    PROVE  Serving'
<1>1. Valid([op |-> op, user |-> u])'
  BY DEF Valid, Ops
<1> QED
  BY <1>1, Served DEF Serve

LEMMA InsertsServe ==
    ASSUME Tables, Rows, Moves, Serving, NEW w \in Workers, RegisterInsert(w) \/ GoogleCreate(w)
    PROVE  Serving'
<1>1. CASE RegisterInsert(w) /\ Found = {}
  <2>1. PICK k, r : k = NextUser /\ r = [NoUser EXCEPT !.state = "live", !.password = work[w].password]
    OBVIOUS
  <2>2. k \in Users /\ row' = [row EXCEPT ![k] = r] /\ Serve(w, [op |-> "issue", kind |-> "verify", user |-> k])
    BY <1>1, <2>1, Zenon DEF RegisterInsert
  <2>3. r.state = "live"
    BY <2>1, NoUserIsUser DEF User
  <2>4. Known(k)'
    BY <2>2, <2>3 DEF Known, Tables
  <2>5. Valid([op |-> "issue", kind |-> "verify", user |-> k])'
    BY <2>4 DEF Valid, Ops
  <2> QED
    BY <2>2, <2>5, Served DEF Serve
<1>2. CASE GoogleCreate(w) /\ ~(Found # {} \/ SubTaken)
  <2>1. PICK k, r : k = NextUser /\ r = [NoUser EXCEPT !.state = "live", !.verified = TRUE, !.google = TRUE]
    OBVIOUS
  <2>2. k \in Users /\ row' = [row EXCEPT ![k] = r] /\ Serve(w, [op |-> "signed", user |-> k])
    BY <1>2, <2>1, Zenon DEF GoogleCreate
  <2>3. r.state = "live" /\ r.verified
    BY <2>1, NoUserIsUser DEF User
  <2>4. row'[k] = r
    BY <2>2 DEF Tables
  <2>5. Known(k)' /\ Proved(k)'
    BY <2>2, <2>3, <2>4 DEF Known, Proved, ProvedRow
  <2> QED
    BY <2>2, <2>5, GoesOn
<1>3. CASE ~(RegisterInsert(w) /\ Found = {}) /\ ~(GoogleCreate(w) /\ ~(Found # {} \/ SubTaken))
  <2>1. Done(w)
    BY <1>3, Zenon DEF RegisterInsert, GoogleCreate
  <2> QED
    BY <2>1, DoneServed
<1> QED
  BY <1>1, <1>2, <1>3

LEMMA VerifyServe ==
    ASSUME Tables, GoogleProved, Mail, Moves, Serving, NEW w \in Workers, VerifyConsume(w)
    PROVE  Serving'
<1>1. PICK u : u = link[work[w].link].user
  OBVIOUS
<1>2. Valid(work[w])
  BY DEF Serving
<1>3. CASE Refused(w, work[w].link)
  BY <1>3, DoneServed DEF Refused
<1>4. CASE ~Refused(w, work[w].link)
  <2>1. Known(u) /\ ProvedRow(row'[u])
    BY <1>1, <1>2, <1>4, VerifyRows
  <2>2. Known(u)' /\ Proved(u)'
    <3>1. Known(u)'
      BY <2>1, KnownStays DEF Moves
    <3> QED
      BY <2>1, <3>1 DEF Proved
  <2>3. Serve(w, [op |-> "verified", user |-> u])
    BY <1>1, <1>4, Zenon DEF VerifyConsume
  <2> QED
    BY <2>2, <2>3, GoesOn
<1> QED
  BY <1>3, <1>4

LEMMA GoogleLinkServe ==
    ASSUME Tables, GoogleProved, Moves, Serving, NEW w \in Workers, GoogleLink(w)
    PROVE  Serving'
<1>1. Valid(work[w])
  BY DEF Serving
<1>2. CASE Done(w)
  BY <1>2, DoneServed
<1>3. ASSUME NEW u, Known(u), ProvedRow(row'[u]), Serve(w, [op |-> "signed", user |-> u]) PROVE Serving'
  <2>1. Known(u)'
    BY <1>3, KnownStays DEF Moves
  <2>2. Proved(u)'
    BY <1>3 DEF Proved
  <2> QED
    BY <1>3, <2>1, <2>2, GoesOn
<1>4. Done(w) \/ \E u : Known(u) /\ ProvedRow(row'[u]) /\ Serve(w, [op |-> "signed", user |-> u])
  BY <1>1, GoogleLinkRows
<1> QED
  BY <1>2, <1>3, <1>4

LEMMA WritesKeep ==
    ASSUME Tables, Rows, Mail, Credentials, Moves, NEW w \in Workers, Writes(w)
    PROVE  Credentials'
<1>0. GoogleProved /\ Held /\ Stashed /\ Serving
  BY DEF Rows, Credentials
<1>1. UNCHANGED <<jwt, code>>
  <2>1. ASSUME RegisterInsert(w) \/ GoogleCreate(w) \/ GoogleLink(w) PROVE UNCHANGED <<jwt, code>>
    BY <2>1, Zenon DEF RegisterInsert, GoogleCreate, GoogleLink
  <2>2. ASSUME VerifyConsume(w) \/ ResetConsume(w) \/ CloseAccount(w) PROVE UNCHANGED <<jwt, code>>
    BY <2>2, Zenon DEF VerifyConsume, ResetConsume, CloseAccount
  <2>3. ASSUME Logout(w) \/ CpoSetup(w) \/ AdminUpdateUser(w) PROVE UNCHANGED <<jwt, code>>
    BY <2>3, Zenon DEF Logout, CpoSetup, AdminUpdateUser
  <2> QED
    BY <2>1, <2>2, <2>3, Zenon DEF Writes
<1>2. Held' /\ Stashed'
  BY <1>0, <1>1, HeldStays, StashedStays
<1>3. Serving'
  <2>1. ASSUME RegisterInsert(w) \/ GoogleCreate(w) PROVE Serving'
    BY <1>0, <2>1, InsertsServe
  <2>2. ASSUME VerifyConsume(w) PROVE Serving'
    BY <1>0, <2>2, VerifyServe
  <2>3. ASSUME GoogleLink(w) PROVE Serving'
    BY <1>0, <2>3, GoogleLinkServe
  <2>4. ASSUME ResetConsume(w) PROVE Serving'
    <3>1. Done(w)
      BY <2>4, Zenon DEF ResetConsume, Refused
    <3> QED
      BY <1>0, <3>1, DoneServed
  <2>5. ASSUME Logout(w) \/ CpoSetup(w) \/ CloseAccount(w) \/ AdminUpdateUser(w) PROVE Serving'
    <3>1. Done(w)
      BY <2>5, Zenon DEF Logout, CpoSetup, CloseAccount, AdminUpdateUser
    <3> QED
      BY <1>0, <3>1, DoneServed
  <2> QED
    BY <2>1, <2>2, <2>3, <2>4, <2>5, Zenon DEF Writes
<1> QED
  BY <1>2, <1>3 DEF Credentials

LEMMA IssueVoidServe ==
    ASSUME Moves, Serving, NEW w \in Workers, IssueVoid(w)
    PROVE  Serving'
<1>1. PICK kind, u : kind = work[w].kind /\ u = work[w].user
  OBVIOUS
<1>2. PICK voids : voids = Outstanding(kind, u)
  OBVIOUS
<1>3. Serve(w, [op |-> "issued", kind |-> kind, user |-> u, voids |-> voids])
  BY <1>1, <1>2, Zenon DEF IssueVoid
<1>4. kind \in {"verify", "reset"} /\ Known(u)
  BY <1>1 DEF IssueVoid, At, Serving, Valid
<1>5. \A l \in voids : Issued(l) /\ link[l].kind = kind /\ link[l].user = u
  BY <1>2 DEF Outstanding, Issued
<1>6. PICK r : r = [op |-> "issued", kind |-> kind, user |-> u, voids |-> voids]
  OBVIOUS
<1>7. Valid(r)
  <2>1. r.op = "issued" /\ r.kind = kind /\ r.user = u /\ r.voids = voids
    BY <1>6
  <2> QED
    BY <1>4, <1>5, <2>1 DEF Valid, Ops
<1>8. Valid(r)'
  BY <1>7, ValidStays
<1> QED
  BY <1>3, <1>6, <1>8, Served DEF Serve

\* The JWT of a known Google account carries what was read.
LEMMA KnownSound ==
    ASSUME NEW s, Seen(s), s.row.google, NEW t,
           t = [user |-> s.user, tv |-> s.row.tv, role |-> s.row.role, password |-> NoPassword]
    PROVE  t \in Token /\ Sound(t)
<1>1. PICK u, r : u = s.user /\ r = s.row
  OBVIOUS
<1>2. u \in Users /\ r \in User /\ Behind(u, r.tv, r.role) /\ Proved(u)
  BY <1>1 DEF Seen
<1>3. r.tv \in 0 .. MaxEpoch /\ r.role \in {"driver", "cpo"}
  BY <1>2 DEF User
<1>4. t \in Token /\ t.user = u /\ t.tv = r.tv /\ t.role = r.role /\ t.password = NoPassword
  BY <1>1, <1>2, <1>3 DEF Token
<1> QED
  BY <1>2, <1>4 DEF Sound

LEMMA LeavesKeep ==
    ASSUME Tables, Credentials, Moves, NEW w \in Workers, Leaves(w)
    PROVE  Credentials'
<1>0. Held /\ Stashed /\ Serving /\ Valid(work[w]) /\ row \in [Users -> User] /\ now \in Times
  BY DEF Credentials, Serving, Tables
<1>1. CASE IssueVoid(w)
  <2>1. UNCHANGED <<jwt, code>>
    BY <1>1, Zenon DEF IssueVoid
  <2> QED
    BY <1>0, <1>1, <2>1, HeldStays, StashedStays, IssueVoidServe DEF Credentials
<1>2. CASE IssueCommit(w)
  <2>1. UNCHANGED <<jwt, code>> /\ Done(w)
    BY <1>2, Zenon DEF IssueCommit
  <2> QED
    BY <1>0, <2>1, HeldStays, StashedStays, DoneServed DEF Credentials
<1>3. CASE VerifyMint(w)
  <2>1. PICK u : u = work[w].user
    OBVIOUS
  <2>2. UNCHANGED code /\ Done(w) /\ jwt' = jwt \cup {Jwt(u, NoPassword)}
    BY <1>3, <2>1, Zenon DEF VerifyMint
  <2>3. Known(u) /\ Proved(u)
    BY <1>0, <1>3, <2>1 DEF VerifyMint, At, Valid
  <2>4. Jwt(u, NoPassword) \in Token /\ Sound(Jwt(u, NoPassword))
    BY <1>0, <2>3, MintSound
  <2>5. Held'
    <3>1. PICK T : T = {Jwt(u, NoPassword)}
      OBVIOUS
    <3>2. T \in SUBSET Token /\ (\A t \in T : Sound(t)) /\ jwt' \in {jwt, jwt \cup T}
      BY <2>2, <2>4, <3>1
    <3> QED
      BY <1>0, <3>2, HeldMore
  <2> QED
    BY <1>0, <2>2, <2>5, StashedStays, DoneServed DEF Credentials
<1>4. CASE GoogleKnown(w)
  <2>1. UNCHANGED jwt /\ Done(w)
    BY <1>4, Zenon DEF GoogleKnown
  <2>2. PICK s \in work[w].seen :
           /\ s.row.google
           /\ code' = IF s.row.disabled THEN code
                      ELSE Stored([user |-> s.user, tv |-> s.row.tv, role |-> s.row.role,
                                   password |-> NoPassword])
    BY <1>4, Zenon DEF GoogleKnown
  <2>3. PICK t : t = [user |-> s.user, tv |-> s.row.tv, role |-> s.row.role, password |-> NoPassword]
    OBVIOUS
  <2>4. Seen(s)
    BY <1>0, <1>4 DEF GoogleKnown, At, Valid
  <2>5. t \in Token /\ Sound(t)
    BY <2>2, <2>3, <2>4, KnownSound
  <2>6. code' = code \/ code' = Stored(t)
    BY <2>2, <2>3
  <2>7. Stashed'
    BY <1>0, <2>5, <2>6, StashedStays, StoredGo
  <2> QED
    BY <1>0, <2>1, <2>7, HeldStays, DoneServed DEF Credentials
<1>5. CASE GoogleMint(w)
  <2>1. PICK u : u = work[w].user
    OBVIOUS
  <2>2. UNCHANGED jwt /\ Done(w) /\ (code' = code \/ code' = Stored(Jwt(u, NoPassword)))
    BY <1>5, <2>1, Zenon DEF GoogleMint
  <2>3. Known(u) /\ Proved(u)
    BY <1>0, <1>5, <2>1 DEF GoogleMint, At, Valid
  <2>4. Jwt(u, NoPassword) \in Token /\ Sound(Jwt(u, NoPassword))
    BY <1>0, <2>3, MintSound
  <2>5. Stashed'
    BY <1>0, <2>2, <2>4, StashedStays, StoredGo
  <2> QED
    BY <1>0, <2>2, <2>5, HeldStays, DoneServed DEF Credentials
<1> QED
  BY <1>1, <1>2, <1>3, <1>4, <1>5 DEF Leaves

LEMMA LoginKeeps ==
    ASSUME Credentials, Moves, NEW w \in Workers, LoginFail(w) \/ LoginPass(w)
    PROVE  Credentials'
<1>0. Held /\ Stashed /\ Serving /\ Valid(work[w])
  BY DEF Credentials, Serving
<1>1. UNCHANGED code /\ Done(w)
  BY Zenon DEF LoginFail, LoginPass
<1>2. Stashed' /\ Serving'
  BY <1>0, <1>1, StashedStays, DoneServed
<1>3. CASE LoginFail(w)
  <2>1. UNCHANGED jwt
    BY <1>3, Zenon DEF LoginFail
  <2> QED
    BY <1>0, <1>2, <2>1, HeldStays DEF Credentials
<1>4. CASE LoginPass(w)
  <2>1. PICK T : T = work[w].jwts
    OBVIOUS
  <2>2. jwt' = jwt \cup T
    BY <1>4, <2>1 DEF LoginPass
  <2>3. T \in SUBSET Token /\ \A t \in T : Sound(t)
    BY <1>0, <1>4, <2>1 DEF LoginPass, At, Valid
  <2>4. Held'
    BY <1>0, <2>2, <2>3, HeldMore
  <2> QED
    BY <1>2, <2>4 DEF Credentials
<1> QED
  BY <1>3, <1>4

LEMMA ExchangeKeeps ==
    ASSUME Credentials, Moves, NEW c \in Codes, NEW h \in BOOLEAN, GoogleExchange(c, h)
    PROVE  Credentials'
<1>0. Held /\ Stashed /\ Serving
  BY DEF Credentials
<1>1. PICK T : T = code[c].jwt
  OBVIOUS
<1>2. UNCHANGED work /\ code' = [code EXCEPT ![c] = NoCode] /\ jwt' \in {jwt, jwt \cup T}
  BY <1>1 DEF GoogleExchange
<1>3. T \in SUBSET Token /\ \A t \in T : Sound(t)
  BY <1>0, <1>1 DEF Stashed
<1>4. Held'
  BY <1>0, <1>2, <1>3, HeldMore
<1>5. NoCode \in [jwt : SUBSET Token, due : Int] /\ NoCode.jwt = {}
  BY DEF NoCode
<1>6. Stashed'
  <2>1. code' \in [Codes -> [jwt : SUBSET Token, due : Int]] /\ code'[c] = NoCode
        /\ \A d \in Codes : d # c => code'[d] = code[d]
    BY <1>0, <1>2, <1>5 DEF Stashed
  <2>2. ASSUME NEW d \in Codes, NEW t \in code'[d].jwt PROVE Sound(t)'
    <3>1. d # c /\ t \in code[d].jwt
      BY <1>5, <2>1, <2>2
    <3>2. t \in Token /\ Sound(t)
      BY <1>0, <3>1 DEF Stashed
    <3> QED
      BY <3>2, SoundStays
  <2> QED
    BY <2>1, <2>2 DEF Stashed
<1> QED
  BY <1>0, <1>2, <1>4, <1>6, ServingStays DEF Credentials

LEMMA RestartKeeps ==
    ASSUME Credentials, Moves, Restart
    PROVE  Credentials'
<1>0. Held /\ Stashed /\ Serving
  BY DEF Credentials
<1>1. /\ UNCHANGED jwt /\ work' = [w \in Workers |-> Idle]
      /\ code' = [c \in Codes |-> NoCode]
  BY Zenon DEF Restart
<1>2. Serving'
  <2>1. Valid(Idle)'
    BY DEF Valid, Idle, Ops
  <2> QED
    BY <1>1, <2>1 DEF Serving
<1>3. NoCode \in [jwt : SUBSET Token, due : Int] /\ NoCode.jwt = {}
  BY DEF NoCode
<1>4. Stashed'
  BY <1>1, <1>3 DEF Stashed
<1> QED
  BY <1>0, <1>1, <1>2, <1>4, HeldStays DEF Credentials

\* Every step keeps what is held, stashed and known sound.
LEMMA CredentialsKept ==
    ASSUME Tables, Rows, Mail, Credentials, Moves, Next
    PROVE  Credentials'
<1>0. Held /\ Stashed /\ Serving /\ GoogleProved
  BY DEF Credentials, Rows
<1>1. ASSUME NEW w \in Workers, Reads(w) PROVE Credentials'
  <2>1. PICK r : Begin(w, r) /\ Valid(r)
    BY <1>0, <1>1, ReadsValid
  <2>2. UNCHANGED <<jwt, code>> /\ work' = [work EXCEPT ![w] = r]
    BY <2>1 DEF Begin
  <2>3. Serving'
    BY <1>0, <2>1, <2>2, ValidStays, Served
  <2> QED
    BY <1>0, <2>2, <2>3, HeldStays, StashedStays DEF Credentials
<1>2. ASSUME Tick PROVE Credentials'
  <2>1. UNCHANGED <<jwt, code, work>>
    BY <1>2, Zenon DEF Tick
  <2> QED
    BY <1>0, <2>1, HeldStays, StashedStays, ServingStays DEF Credentials
<1>3. ASSUME NEW w \in Workers, Writes(w) \/ Leaves(w) \/ LoginFail(w) \/ LoginPass(w) PROVE Credentials'
  BY <1>3, WritesKeep, LeavesKeep, LoginKeeps
<1> QED
  BY <1>1, <1>2, <1>3, NextCases, ExchangeKeeps, RestartKeeps, Zenon DEF Cases
-----------------------------------------------------------------------------
(* The invariant *)

LEMMA NextKeeps ==
    ASSUME AccountsInv, Next
    PROVE  AccountsInv' /\ Onward
<1>0. Tables /\ Rows /\ LinksFilled /\ Credentials /\ Mail /\ Limiter
  BY DEF AccountsInv
<1>1. RowStep
  BY <1>0, NextRows
<1>2. Onward
  BY <1>0, <1>1, RowsOnward DEF Rows
<1>3. row' \in [Users -> User] /\ crossed' \in SUBSET Users /\ Rows'
  BY <1>0, <1>1, RowsKept
<1>4. LinksGo
  <2>1. \A w \in Workers : Valid(work[w])
    BY <1>0 DEF Credentials, Serving
  <2> QED
    BY <1>0, <1>2, <2>1, NextLinks
<1>5. link' \in [Links -> Link] /\ LinksFilled' /\ LinksOnward /\ Mail'
  BY <1>4 DEF LinksGo
<1>6. Moves
  BY <1>0, <1>2, <1>3, <1>5 DEF Moves, Tables
<1>7. Credentials'
  BY <1>0, <1>6, CredentialsKept
<1>8. now' \in Times
  <2>0. now \in Times
    BY <1>0 DEF Tables
  <2>1. ASSUME NEW w \in Workers, Reads(w) PROVE UNCHANGED now
    BY <2>1, ReadsOnly DEF Begin
  <2>2. ASSUME NEW w \in Workers, Writes(w) PROVE UNCHANGED now
    <3>1. ASSUME RegisterInsert(w) \/ GoogleCreate(w) \/ GoogleLink(w) PROVE UNCHANGED now
      BY <3>1, Zenon DEF RegisterInsert, GoogleCreate, GoogleLink
    <3>2. ASSUME VerifyConsume(w) \/ ResetConsume(w) \/ CloseAccount(w) PROVE UNCHANGED now
      BY <3>2, Zenon DEF VerifyConsume, ResetConsume, CloseAccount
    <3>3. ASSUME Logout(w) \/ CpoSetup(w) \/ AdminUpdateUser(w) PROVE UNCHANGED now
      BY <3>3, Zenon DEF Logout, CpoSetup, AdminUpdateUser
    <3> QED
      BY <2>2, <3>1, <3>2, <3>3, Zenon DEF Writes
  <2>3. ASSUME NEW w \in Workers, Leaves(w) \/ LoginFail(w) \/ LoginPass(w) PROVE UNCHANGED now
    BY <2>3, Zenon DEF Leaves, IssueVoid, IssueCommit, VerifyMint, GoogleKnown, GoogleMint, LoginFail, LoginPass
  <2>4. ASSUME NEW c, NEW h, GoogleExchange(c, h) PROVE UNCHANGED now
    BY <2>4, Zenon DEF GoogleExchange
  <2>5. ASSUME Restart PROVE UNCHANGED now
    BY <2>5, Zenon DEF Restart
  <2>6. ASSUME Tick PROVE now' \in Times
    BY <2>0, <2>6, Bounds DEF Tick, Times
  <2>7. CASE UNCHANGED now
    BY <2>0, <2>7
  <2> QED
    BY <2>1, <2>2, <2>3, <2>4, <2>5, <2>6, <2>7, NextCases, Zenon DEF Cases
<1>9. Limiter'
  BY <1>0, LimiterKept DEF Tables
<1>10. Tables'
  BY <1>3, <1>5, <1>8 DEF Tables
<1> QED
  BY <1>2, <1>3, <1>5, <1>7, <1>9, <1>10 DEF AccountsInv

LEMMA StutterKeeps ==
    ASSUME AccountsInv, UNCHANGED vars
    PROVE  AccountsInv'
<1>0. Tables /\ Rows /\ LinksFilled /\ Credentials /\ Mail /\ Limiter
  BY DEF AccountsInv
<1>1. UNCHANGED row /\ UNCHANGED link /\ UNCHANGED jwt /\ UNCHANGED code /\ UNCHANGED work /\ UNCHANGED now
      /\ UNCHANGED crossed /\ UNCHANGED taken /\ UNCHANGED hits /\ UNCHANGED tries
  BY DEF vars
<1>2. RowStep
  BY <1>1 DEF RowStep
<1>3. Onward /\ Rows'
  BY <1>0, <1>2, RowsOnward, RowsKept DEF Rows
<1>4. LinksGo
  BY <1>0, <1>1, <1>3, LinksStand
<1>5. LinksFilled' /\ LinksOnward /\ Mail'
  BY <1>4 DEF LinksGo
<1>6. Tables' /\ Moves
  BY <1>0, <1>1, <1>3, <1>5 DEF Moves, Tables
<1>7. Credentials'
  BY <1>0, <1>1, <1>6, HeldStays, StashedStays, ServingStays DEF Credentials
<1>8. Limiter'
  BY <1>0, <1>1, LimiterSays, LimiterSaysNext
<1> QED
  BY <1>3, <1>5, <1>6, <1>7, <1>8 DEF AccountsInv

\* What both first states share.
LEMMA InitShared ==
    ASSUME Init
    PROVE  /\ Stashed /\ Serving /\ Limiter /\ now \in Times /\ crossed = {}
           /\ taken = [l \in Links |-> IF link[l].state = "used" THEN 1 ELSE 0]
<1>1. /\ code = [c \in Codes |-> NoCode] /\ work = [w \in Workers |-> Idle]
      /\ hits = <<>> /\ now = 0 /\ tries = [t \in Times |-> 0] /\ crossed = {}
      /\ taken = [l \in Links |-> IF link[l].state = "used" THEN 1 ELSE 0]
  BY Zenon DEF Init
<1>2. NoCode \in [jwt : SUBSET Token, due : Int] /\ NoCode.jwt = {}
  BY DEF NoCode
<1>3. Stashed
  BY <1>1, <1>2 DEF Stashed
<1>4. Serving
  <2>1. Valid(Idle)
    BY DEF Valid, Idle, Ops
  <2> QED
    BY <1>1, <2>1 DEF Serving
<1>5. now \in Times
  BY <1>1, Bounds DEF Times
<1>6. Limiter
  BY <1>1, <1>5, LimiterReset, LimiterSays
<1> QED
  BY <1>1, <1>3, <1>4, <1>5, <1>6

LEMMA NoLinkIsLink == NoLink \in Link /\ NoLink.state = "none" /\ NoLink.kind = "none"
  BY Bounds DEF NoLink, Link

LEMMA NoUserSays == NoUser.state = "none"
  BY DEF NoUser

LEMMA InitFree ==
    ASSUME Init, row = [u \in Users |-> NoUser], link = [l \in Links |-> NoLink], jwt = {}
    PROVE  AccountsInv
<1>0. \A u \in Users : row[u] = NoUser /\ ~(u <= 0)
  BY Bounds DEF Users
<1>1. \A l \in Links : link[l] = NoLink /\ ~(l <= 0)
  BY Bounds DEF Links
<1>2. Tables
  BY <1>0, <1>1, InitShared, NoUserIsUser, NoLinkIsLink DEF Tables
<1>3. Rows
  <2>1. RowsFilled
    <3>1. 0 \in 0 .. MaxUsers
      BY Bounds
    <3> QED
      BY <1>0, <3>1, NoUserSays DEF RowsFilled
  <2>2. OneLive /\ GoogleProved
    BY <1>0, NoUserIsUser, NoUserSays DEF OneLive, GoogleProved
  <2> QED
    BY <2>1, <2>2 DEF Rows
<1>4. LinksFilled
  <2>1. 0 \in 0 .. MaxLinks
    BY Bounds
  <2> QED
    BY <1>1, <2>1, NoLinkIsLink DEF LinksFilled
<1>5. Held
  BY DEF Held
<1>6. Mail
  <2>1. taken \in [Links -> Nat] /\ \A l \in Links : taken[l] = 0
    BY <1>1, InitShared, NoLinkIsLink
  <2> QED
    BY <1>1, <2>1, NoLinkIsLink DEF Mail, Owned, Untaken, LinksSingleUse, NewestLinkLives
<1> QED
  BY <1>2, <1>3, <1>4, <1>5, <1>6, InitShared DEF AccountsInv, Credentials

\* The address has one row, whose first link is live or was used.
LEMMA InitKnown ==
    ASSUME Init, NEW p \in Passwords, NEW verified \in BOOLEAN,
           row = [u \in Users |->
                      IF u # 1 THEN NoUser
                      ELSE [NoUser EXCEPT !.state = "live", !.password = p,
                                          !.verified = verified,
                                          !.tv = IF verified THEN 1 ELSE 0]],
           link = [l \in Links |->
                       IF l # 1 THEN NoLink
                       ELSE [state |-> IF verified THEN "used" ELSE "live",
                             kind |-> "verify", user |-> 1, due |-> LinkTtl]],
           jwt = IF verified
                 THEN {[user |-> 1, tv |-> 1, role |-> "driver", password |-> NoPassword]}
                 ELSE {}
    PROVE  AccountsInv
<1>1. PICK t \in 0 .. MaxEpoch : t = IF verified THEN 1 ELSE 0
  BY Bounds
<1>2. PICK r : r = [NoUser EXCEPT !.state = "live", !.password = p, !.verified = verified, !.tv = t]
  OBVIOUS
<1>3. /\ r \in User /\ r.state = "live" /\ r.password = p /\ (r.verified <=> verified) /\ r.tv = t
      /\ r.role = NoUser.role /\ r.google = NoUser.google
  BY <1>2, NoUserIsUser DEF User
<1>4. r.role = "driver" /\ ~r.google
  <2>1. NoUser.role = "driver"
    BY DEF NoUser
  <2> QED
    BY <1>3, <2>1, NoUserIsUser
<1>5. 1 \in Users /\ row[1] = r /\ \A u \in Users : u # 1 => row[u] = NoUser
  <2>1. 1 \in Users
    BY Bounds DEF Users
  <2>2. row = [u \in Users |-> IF u # 1 THEN NoUser ELSE r]
    BY <1>1, <1>2
  <2> QED
    BY <2>1, <2>2
<1>6. PICK s \in {"used", "live"} : s = IF verified THEN "used" ELSE "live"
  OBVIOUS
<1>7. PICK e : e = [state |-> s, kind |-> "verify", user |-> 1, due |-> LinkTtl]
  OBVIOUS
<1>8. e \in Link /\ e.state = s /\ e.kind = "verify" /\ e.user = 1
  <2>1. 1 \in 0 .. MaxUsers /\ LinkTtl \in 0 .. MaxTime + LinkTtl
    BY Bounds
  <2> QED
    BY <1>7, <2>1 DEF Link
<1>9. link = [l \in Links |-> IF l # 1 THEN NoLink ELSE e]
  BY <1>6, <1>7
<1>10. Tables
  <2>1. row \in [Users -> User]
    <3>1. row = [u \in Users |-> row[u]] /\ \A u \in Users : row[u] \in User
      BY <1>3, <1>5, NoUserIsUser
    <3> QED
      BY <3>1
  <2>2. link \in [Links -> Link]
    BY <1>8, <1>9, NoLinkIsLink
  <2> QED
    BY <2>1, <2>2, InitShared DEF Tables
<1>11. Rows
  <2>1. \A u \in Users : row[u].state # "none" <=> u <= 1
    <3>1. \A u \in Users : u <= 1 <=> u = 1
      BY Bounds DEF Users
    <3> QED
      BY <1>3, <1>5, <3>1, NoUserSays
  <2>2. RowsFilled
    <3>1. 1 \in 0 .. MaxUsers
      BY Bounds
    <3> QED
      BY <2>1, <3>1 DEF RowsFilled
  <2>3. OneLive
    <3>1. \A u \in Users : row[u].state = "live" => u = 1
      BY <1>5, NoUserSays
    <3> QED
      BY <3>1 DEF OneLive
  <2>4. GoogleProved
    <3>1. \A u \in Users : ~row[u].google
      BY <1>4, <1>5, NoUserIsUser
    <3> QED
      BY <3>1 DEF GoogleProved
  <2> QED
    BY <2>2, <2>3, <2>4 DEF Rows
<1>12. LinksFilled
  <2>1. PICK n \in 0 .. MaxLinks : \A l \in Links : l <= n <=> l = 1
    <3>1. CASE MaxLinks = 0
      <4>1. 0 \in 0 .. MaxLinks /\ \A l \in Links : l <= 0 <=> l = 1
        BY <3>1, Bounds DEF Links
      <4> QED
        BY <4>1
    <3>2. CASE MaxLinks # 0
      <4>1. 1 \in 0 .. MaxLinks /\ \A l \in Links : l <= 1 <=> l = 1
        BY <3>2, Bounds DEF Links
      <4> QED
        BY <4>1
    <3> QED
      BY <3>1, <3>2
  <2>2. \A l \in Links : link[l].state # "none" <=> l = 1
    BY <1>8, <1>9, NoLinkIsLink
  <2> QED
    BY <2>1, <2>2 DEF LinksFilled
<1>13. Held
  <2>1. CASE ~verified
    BY <2>1 DEF Held
  <2>2. CASE verified
    <3>1. PICK j : j = [user |-> 1, tv |-> 1, role |-> "driver", password |-> NoPassword]
      OBVIOUS
    <3>2. j \in Token /\ j.user = 1 /\ j.tv = 1 /\ j.password = NoPassword /\ j.role = "driver"
      <4>1. 1 \in 0 .. MaxEpoch
        BY Bounds
      <4> QED
        BY <1>5, <3>1, <4>1 DEF Token
    <3>3. Proved(1) /\ row[1].tv = 1
      BY <1>1, <1>3, <1>5, <2>2 DEF Proved, ProvedRow
    <3>4. Behind(1, 1, "driver")
      BY <3>3 DEF Behind
    <3>5. Sound(j)
      BY <3>2, <3>3, <3>4 DEF Sound
    <3>6. jwt = {j}
      BY <2>2, <3>1
    <3> QED
      BY <3>2, <3>5, <3>6 DEF Held
  <2> QED
    BY <2>1, <2>2
<1>14. Mail
  <2>0. \A l \in Links : taken[l] = IF link[l].state = "used" THEN 1 ELSE 0
    BY InitShared
  <2>1. taken \in [Links -> Nat]
    BY InitShared
  <2>2. Owned
    <3>1. Known(1)
      BY <1>3, <1>5 DEF Known
    <3> QED
      BY <1>8, <1>9, <3>1, NoLinkIsLink DEF Owned
  <2>3. Untaken
    BY <2>0 DEF Untaken
  <2>4. LinksSingleUse /\ NewestLinkLives
    BY <2>0 DEF LinksSingleUse, NewestLinkLives
  <2> QED
    BY <2>1, <2>2, <2>3, <2>4 DEF Mail
<1> QED
  BY <1>10, <1>11, <1>12, <1>13, <1>14, InitShared DEF AccountsInv, Credentials

LEMMA InitInv == ASSUME Init PROVE AccountsInv
  BY InitFree, InitKnown, Zenon DEF Init

\* The invariant holds in every reachable state.
THEOREM AccountsInvariant == Spec => []AccountsInv
<1>1. Init => AccountsInv
  BY InitInv
<1>2. AccountsInv /\ [Next]_vars => AccountsInv'
  BY NextKeeps, StutterKeeps
<1> QED
  BY <1>1, <1>2, PTL DEF Spec

-----------------------------------------------------------------------------
(* The results *)

\* A JWT that get_current_user accepts never says more than its account does:
\* a sign-in with a password ends with that password, an account that is not
\* verified holds no usable JWT, and an operator role that was lost is not
\* claimed; however the requests that read, revoke, take over and mint overlap.
THEOREM CredentialsCurrentHolds == Spec => []CredentialsCurrent
<1>1. ASSUME AccountsInv PROVE CredentialsCurrent
  <2>1. \A j \in jwt : Sound(j)
    BY <1>1 DEF AccountsInv, Credentials, Held
  <2>2. PasswordStillCurrent
    BY <2>1 DEF PasswordStillCurrent, Accepted, Sound
  <2>3. AcceptedIsVerified
    BY <2>1 DEF AcceptedIsVerified, Sound, Proved, ProvedRow
  <2>4. ClaimedRoleHeld
    BY <2>1 DEF ClaimedRoleHeld, Accepted, Sound, Behind
  <2> QED
    BY <2>2, <2>3, <2>4 DEF CredentialsCurrent
<1> QED
  BY <1>1, AccountsInvariant, PTL

\* At most one row answers to the address.
LEMMA FoundOnce == ASSUME OneLive PROVE Cardinality(Found) <= 1
<1>1. CASE Found = {}
  BY <1>1, FS_EmptySet
<1>2. CASE Found # {}
  <2>1. PICK u \in Found : TRUE
    BY <1>2
  <2>2. Found = {u}
    BY <2>1 DEF Found, OneLive
  <2>3. Cardinality({u}) = 1
    BY FS_Singleton
  <2> QED
    BY <2>2, <2>3
<1> QED
  BY <1>1, <1>2

\* An e-mailed link takes effect at most once and the newest stays alive,
\* whatever issues and uses overlap, the address has one open account, and no
\* window of the login limiter holds more wrong passwords than the budget.
THEOREM LinksAndBudgetHolds == Spec => []LinksAndBudgetHold
<1>1. ASSUME AccountsInv PROVE LinksAndBudgetHold
  <2>0. Tables /\ Rows /\ Credentials /\ Mail /\ Limiter
    BY <1>1 DEF AccountsInv
  <2>1. TypeOK
    <3>1. row \in [Users -> User] /\ link \in [Links -> Link] /\ jwt \in SUBSET Token
      BY <2>0 DEF Tables, Credentials, Held
    <3>2. \A w \in Workers : work[w].op \in Ops
      BY <2>0 DEF Credentials, Serving, Valid
    <3>3. Cardinality(Found) <= 1 /\ Len(hits) <= Budget
      BY <2>0, FoundOnce DEF Rows, Limiter
    <3> QED
      BY <3>1, <3>2, <3>3 DEF TypeOK, User, Link, Token, Ops
  <2>2. LinksSingleUse /\ NewestLinkLives
    BY <2>0 DEF Mail
  <2>3. FailureBudget
    BY <2>0 DEF Limiter
  <2> QED
    BY <2>1, <2>2, <2>3 DEF LinksAndBudgetHold
<1> QED
  BY <1>1, AccountsInvariant, PTL

\* A JWT that was revoked is never accepted again: the epoch of a row only
\* rises, but where a Google take-over wrote back an older one.
THEOREM RevokedStaysRevokedHolds == Spec => RevokedStaysRevoked
<1> DEFINE Revoked == \A j \in jwt :
          (row[j.user].tv > j.tv /\ j.user \notin crossed') => ~Accepted(j)'
<1>1. ASSUME AccountsInv, Next PROVE Revoked
  <2>1. Tables /\ Held /\ AccountsInv' /\ Onward
    BY <1>1, NextKeeps DEF AccountsInv, Credentials
  <2>2. SUFFICES ASSUME NEW j \in jwt, row[j.user].tv > j.tv, j.user \notin crossed'
                 PROVE  row'[j.user].tv # j.tv
    BY DEF Accepted
  <2>3. PICK u, tv : u = j.user /\ tv = j.tv
    OBVIOUS
  <2>4. u \in Users /\ row[u].state # "none" /\ tv \in Nat
    <3>1. j \in Token /\ Known(j.user)
      BY <2>1, HolderKnown
    <3> QED
      BY <2>3, <3>1, Bounds DEF Known, Token
  <2>5. row[u].tv <= row'[u].tv
    BY <2>1, <2>2, <2>3, <2>4 DEF Onward
  <2>6. row[u].tv \in Nat /\ row'[u].tv \in Nat
    <3>1. row[u] \in User /\ row'[u] \in User
      BY <2>1, <2>4 DEF Tables, AccountsInv
    <3> QED
      BY <3>1, Bounds DEF User
  <2> QED
    BY <2>2, <2>3, <2>4, <2>5, <2>6
<1>2. AccountsInv /\ [Next]_vars => [Revoked]_vars
  BY <1>1
<1> QED
  BY <1>2, AccountsInvariant, PTL DEF Spec, RevokedStaysRevoked

-----------------------------------------------------------------------------
(* Notices.                                                                *)

Kinds == {"watch", "favorite", "capacity"}
NoticeRow == [state : {"none", "armed", "fired", "dropped"}, kind : Kinds,
              user : Drivers \cup {Nobody}, plug : Plugs \cup {Nobody}]
Request == [op : {"watch", "capacity"}, user : Drivers, plug : Plugs]
Join == [op : {"join"}, user : Drivers]

\* The stages of a fan-out.
ToWatchers == [op : {"watchers"}, plug : Plugs, skip : Drivers \cup {Nobody},
               circuit : BOOLEAN]
ToCircuit == [op : {"requests"}, skip : Drivers \cup {Nobody}]
ToLoad == [op : {"load"}, read : SUBSET Ids, cap : Nat]
Telling == [op : {"notify"}, read : SUBSET Ids, left : SUBSET Ids,
            then : ToCircuit \cup {Resting}]
Pushing == [op : {"push"}, subs : SUBSET Endpoints, then : Telling]
Stage == {Resting} \cup ToWatchers \cup ToCircuit \cup ToLoad \cup Telling \cup Pushing

NoticesShape ==
    /\ status \in [Plugs -> {"available", "occupied", "maintenance"}]
    /\ driver \in [Plugs -> Drivers \cup {Nobody}]
    /\ group \in {"public", "private", "deleted"}
    /\ cap \in Caps \cup {0}
    /\ member \in [Drivers -> Nat]
    /\ asked \in [Callers -> Request \cup Join \cup {Resting}]
    /\ task \in [Tasks -> Stage]

RowsShape ==
    /\ rows \in [Ids -> NoticeRow]
    /\ told \in [Ids -> Nat]
    /\ failed \in SUBSET Ids /\ doubled \in SUBSET Ids

\* The rows a fan-out has read and not yet deleted, and those of them it has
\* still to tell, by its stage.
HandIn(r) ==
    CASE r.op \in {"load", "notify"} -> r.read
      [] r.op = "push" -> r.then.read
      [] OTHER -> {}
LeftIn(r) ==
    CASE r.op = "load" -> r.read
      [] r.op = "notify" -> r.left
      [] r.op = "push" -> r.then.left
      [] OTHER -> {}
Hand == [t \in Tasks |-> HandIn(task[t])]
Left == [t \in Tasks |-> LeftIn(task[t])]

\* Rows are given out from 1 and never given out again.
Filled == \E n \in 0 .. MaxRows : \A i \in Ids : rows[i].state # "none" <=> i <= n

\* UNIQUE(user_id, plug_id)
OneEach ==
    \A i, j \in Ids : /\ rows[i].state = "armed" /\ rows[j].state = "armed"
                      /\ rows[i].kind = rows[j].kind
                      /\ rows[i].user = rows[j].user /\ rows[i].plug = rows[j].plug
                      => i = j

\* What a fan-out has in hand are watches and requests that were armed; those
\* it is done with were told or could not be.
HandsIn == \A t \in Tasks : Hand[t] \in SUBSET Ids /\ Left[t] \in SUBSET Hand[t]
HandsWaited ==
    \A t \in Tasks, i \in Ids :
       i \in Hand[t] => rows[i].state # "none" /\ rows[i].kind # "favorite"
HandsDone ==
    \A t \in Tasks, i \in Ids :
       i \in Hand[t] /\ i \notin Left[t] => told[i] > 0 \/ i \in failed
HandsSound == HandsIn /\ HandsWaited /\ HandsDone

ToldExists == \A i \in Ids : told[i] > 0 => rows[i].state # "none"

\* A row not counted as doubled is in one hand at most, is told by it once,
\* and stays in that hand as long as it is armed.
OneHand == \A i \in Ids \ doubled, s, t \in Tasks : i \in Hand[s] /\ i \in Hand[t] => s = t
ToldLeaves == \A i \in Ids \ doubled, t \in Tasks : told[i] > 0 => i \notin Left[t]
ToldInHand ==
    \A i \in Ids \ doubled :
       told[i] > 0 /\ rows[i].state = "armed" => \E t \in Tasks : i \in Hand[t]

RowsInv ==
    /\ RowsShape /\ Filled /\ OneEach /\ HandsSound /\ ToldExists
    /\ OneHand /\ ToldLeaves /\ ToldInHand
    /\ FiredWasTold /\ ToldOnce

NoticesInv == NoticesShape /\ RowsInv

-----------------------------------------------------------------------------
(* What a step does to the rows and to the hands.                          *)

ApartFrom(S) == \A s \in Tasks \ S : Hand'[s] = Hand[s] /\ Left'[s] = Left[s]
HistoryKept == UNCHANGED <<told, failed, doubled>>

Quiet == UNCHANGED rows /\ HistoryKept /\ ApartFrom({})

Arming ==
    /\ HistoryKept /\ ApartFrom({})
    /\ \E n \in Ids, r \in NoticeRow :
         /\ rows' = [rows EXCEPT ![n] = r]
         /\ r.state = "armed"
         /\ \A i \in Ids : rows[i].state # "none" <=> i < n
         /\ \A i \in Ids : ~ /\ rows[i].state = "armed" /\ rows[i].kind = r.kind
                             /\ rows[i].user = r.user /\ rows[i].plug = r.plug

Dropped(i) == rows[i].state = "armed" /\ rows'[i] = [rows[i] EXCEPT !.state = "dropped"]
Dropping ==
    /\ HistoryKept /\ ApartFrom({})
    /\ rows' \in [Ids -> NoticeRow]
    /\ \A i \in Ids : rows'[i] = rows[i] \/ Dropped(i)

Taking(t) ==
    /\ UNCHANGED <<rows, told, failed>> /\ ApartFrom({t})
    /\ Hand[t] = {}
    /\ \E read \in SUBSET Ids :
         /\ Hand'[t] = read /\ Left'[t] = read
         /\ \A i \in read : rows[i].state = "armed" /\ rows[i].kind # "favorite"
         /\ doubled' = doubled \cup {i \in read : \E s \in Tasks \ {t} : i \in Hand[s]}

GivingUp(t) ==
    /\ UNCHANGED rows /\ HistoryKept /\ ApartFrom({t})
    /\ Left[t] = Hand[t]
    /\ Left'[t] = Hand'[t]
    /\ Hand'[t] \in {Hand[t], {}}

TellsRow(t, i) ==
    /\ UNCHANGED <<rows, doubled>> /\ ApartFrom({t})
    /\ i \in Left[t]
    /\ Hand'[t] = Hand[t] /\ Left'[t] = Left[t] \ {i}
    /\ \/ told' = [told EXCEPT ![i] = @ + 1] /\ UNCHANGED failed
       \/ failed' = failed \cup {i} /\ UNCHANGED told

Clearing(t) ==
    /\ HistoryKept /\ ApartFrom({t})
    /\ Left[t] = {} /\ Hand'[t] = {} /\ Left'[t] = {}
    /\ rows' = [i \in Ids |->
                  IF i \in Hand[t] /\ rows[i].state = "armed"
                  THEN [rows[i] EXCEPT !.state = "fired"] ELSE rows[i]]

Abandoning(S) ==
    /\ UNCHANGED <<rows, told, failed>> /\ ApartFrom(S)
    /\ \A s \in S : Hand'[s] = {} /\ Left'[s] = {}
    /\ doubled' = doubled \cup {i \in Ids : told[i] > 0 /\ \E s \in S : i \in Hand[s]}

NoticesMoved ==
    \/ Quiet \/ Arming \/ Dropping
    \/ \E t \in Tasks : \/ Taking(t) \/ GivingUp(t) \/ Clearing(t)
                        \/ \E i \in Ids : TellsRow(t, i)
    \/ \E S \in SUBSET Tasks : Abandoning(S)

-----------------------------------------------------------------------------
(* Every kind of step preserves the invariant.                             *)

LEMMA QuietKeeps ==
    ASSUME RowsInv, Quiet PROVE RowsInv'
<1>1. RowsShape' /\ Filled' /\ OneEach' /\ ToldExists' /\ FiredWasTold' /\ ToldOnce'
  BY DEF RowsInv, Quiet, HistoryKept, RowsShape, Filled, OneEach, ToldExists,
         FiredWasTold, ToldOnce
<1>2. HandsSound' /\ OneHand' /\ ToldLeaves' /\ ToldInHand'
  BY DEF RowsInv, Quiet, HistoryKept, ApartFrom, HandsSound, HandsIn, HandsWaited,
         HandsDone, OneHand, ToldLeaves,
         ToldInHand
<1> QED BY <1>1, <1>2 DEF RowsInv

LEMMA ArmingKeeps ==
    ASSUME RowsInv, Arming PROVE RowsInv'
<1>1. PICK n \in Ids, r \in NoticeRow :
         /\ rows' = [rows EXCEPT ![n] = r]
         /\ r.state = "armed"
         /\ \A i \in Ids : rows[i].state # "none" <=> i < n
         /\ \A i \in Ids : ~ /\ rows[i].state = "armed" /\ rows[i].kind = r.kind
                             /\ rows[i].user = r.user /\ rows[i].plug = r.plug
  BY DEF Arming
<1>2. /\ told' = told /\ failed' = failed /\ doubled' = doubled
      /\ \A t \in Tasks : Hand'[t] = Hand[t] /\ Left'[t] = Left[t]
  BY DEF Arming, HistoryKept, ApartFrom
<1>3. rows \in [Ids -> NoticeRow] /\ RowsShape'
  BY <1>1, <1>2 DEF RowsInv, RowsShape
<1>4. rows'[n] = r /\ \A i \in Ids \ {n} : rows'[i] = rows[i]
  BY <1>1, <1>3
<1>5. rows[n].state = "none" /\ n \in Nat
  BY <1>1 DEF Ids
<1>6. Filled'
  <2>1. n \in 0 .. MaxRows
    BY DEF Ids
  <2>2. \A i \in Ids : rows'[i].state # "none" <=> i <= n
    BY <1>1, <1>4, <1>5 DEF Ids
  <2> QED BY <2>1, <2>2 DEF Filled
<1>7. OneEach'
  BY <1>1, <1>4 DEF RowsInv, OneEach
<1>8. ToldExists' /\ ToldOnce' /\ FiredWasTold'
  BY <1>1, <1>2, <1>4 DEF RowsInv, ToldExists, ToldOnce, FiredWasTold
<1>9. HandsSound'
  <2>1. HandsIn'
    BY <1>2, <1>4, <1>5 DEF RowsInv, HandsSound, HandsIn
  <2>2. HandsWaited'
    BY <1>2, <1>4, <1>5 DEF RowsInv, HandsSound, HandsWaited
  <2>3. HandsDone'
    BY <1>2, <1>4, <1>5 DEF RowsInv, HandsSound, HandsDone
  <2> QED BY <2>1, <2>2, <2>3 DEF HandsSound
<1>10. OneHand' /\ ToldLeaves'
  BY <1>2 DEF RowsInv, OneHand, ToldLeaves
<1>11. ToldInHand'
  BY <1>2, <1>4, <1>5 DEF RowsInv, ToldInHand, ToldExists
<1> QED BY <1>3, <1>6, <1>7, <1>8, <1>9, <1>10, <1>11 DEF RowsInv

LEMMA DroppingKeeps ==
    ASSUME RowsInv, Dropping PROVE RowsInv'
<1>1. /\ told' = told /\ failed' = failed /\ doubled' = doubled
      /\ \A t \in Tasks : Hand'[t] = Hand[t] /\ Left'[t] = Left[t]
  BY DEF Dropping, HistoryKept, ApartFrom
<1>2. rows \in [Ids -> NoticeRow] /\ RowsShape'
  BY <1>1 DEF RowsInv, RowsShape, Dropping
<1>3. ASSUME NEW i \in Ids
      PROVE  /\ rows'[i].kind = rows[i].kind /\ rows'[i].user = rows[i].user
             /\ rows'[i].plug = rows[i].plug
             /\ rows'[i].state = "none" <=> rows[i].state = "none"
             /\ rows'[i].state = "armed" => rows[i].state = "armed"
             /\ rows'[i].state = "fired" => rows[i].state = "fired"
  <2>1. rows[i] \in NoticeRow
    BY <1>2
  <2>2. CASE rows'[i] = rows[i]
    BY <2>2
  <2>3. CASE Dropped(i)
    BY <2>1, <2>3 DEF Dropped, NoticeRow
  <2> QED BY <2>2, <2>3 DEF Dropping
<1>4. Filled' /\ OneEach'
  BY <1>3 DEF RowsInv, Filled, OneEach
<1>5. ToldExists' /\ ToldOnce' /\ FiredWasTold'
  BY <1>1, <1>3 DEF RowsInv, ToldExists, ToldOnce, FiredWasTold
<1>6. HandsSound'
  <2>1. HandsIn'
    BY <1>1, <1>3 DEF RowsInv, HandsSound, HandsIn
  <2>2. HandsWaited'
    BY <1>1, <1>3 DEF RowsInv, HandsSound, HandsWaited
  <2>3. HandsDone'
    BY <1>1, <1>3 DEF RowsInv, HandsSound, HandsDone
  <2> QED BY <2>1, <2>2, <2>3 DEF HandsSound
<1>7. OneHand' /\ ToldLeaves' /\ ToldInHand'
  BY <1>1, <1>3 DEF RowsInv, OneHand, ToldLeaves, ToldInHand
<1> QED BY <1>2, <1>4, <1>5, <1>6, <1>7 DEF RowsInv

LEMMA TakingKeeps ==
    ASSUME RowsInv, NEW t \in Tasks, Taking(t) PROVE RowsInv'
<1>1. PICK read \in SUBSET Ids :
         /\ Hand'[t] = read /\ Left'[t] = read
         /\ \A i \in read : rows[i].state = "armed" /\ rows[i].kind # "favorite"
         /\ doubled' = doubled \cup {i \in read : \E s \in Tasks \ {t} : i \in Hand[s]}
  BY DEF Taking
<1>2. /\ rows' = rows /\ told' = told /\ failed' = failed /\ Hand[t] = {}
      /\ \A s \in Tasks \ {t} : Hand'[s] = Hand[s] /\ Left'[s] = Left[s]
  BY DEF Taking, ApartFrom
<1>3. RowsShape' /\ Filled' /\ OneEach' /\ ToldExists' /\ FiredWasTold' /\ ToldOnce'
  BY <1>1, <1>2 DEF RowsInv, RowsShape, Filled, OneEach, ToldExists, FiredWasTold,
                    ToldOnce
<1>4. HandsSound'
  <2>1. HandsIn'
    BY <1>1, <1>2 DEF RowsInv, HandsSound, HandsIn
  <2>2. HandsWaited'
    BY <1>1, <1>2 DEF RowsInv, HandsSound, HandsWaited
  <2>3. HandsDone'
    BY <1>1, <1>2 DEF RowsInv, HandsSound, HandsDone
  <2> QED BY <2>1, <2>2, <2>3 DEF HandsSound
<1>5. OneHand'
  BY <1>1, <1>2 DEF RowsInv, OneHand
<1>6. ToldLeaves'
  <2> SUFFICES ASSUME NEW i \in Ids \ doubled', NEW s \in Tasks, told'[i] > 0
               PROVE  i \notin Left'[s]
    BY DEF ToldLeaves
  <2>1. CASE s # t
    BY <1>1, <1>2, <2>1 DEF RowsInv, ToldLeaves
  <2>2. CASE s = t /\ i \in read
    <3>1. PICK h \in Tasks : i \in Hand[h]
      BY <1>1, <1>2, <2>2 DEF RowsInv, ToldInHand
    <3> QED BY <1>1, <1>2, <2>2, <3>1
  <2> QED BY <1>1, <2>1, <2>2
<1>7. ToldInHand'
  BY <1>1, <1>2 DEF RowsInv, ToldInHand
<1> QED BY <1>3, <1>4, <1>5, <1>6, <1>7 DEF RowsInv

LEMMA GivingUpKeeps ==
    ASSUME RowsInv, NEW t \in Tasks, GivingUp(t) PROVE RowsInv'
<1>1. /\ rows' = rows /\ told' = told /\ failed' = failed /\ doubled' = doubled
      /\ \A s \in Tasks \ {t} : Hand'[s] = Hand[s] /\ Left'[s] = Left[s]
      /\ Left[t] = Hand[t] /\ Left'[t] = Hand'[t]
      /\ Hand'[t] = Hand[t] \/ Hand'[t] = {}
  BY DEF GivingUp, HistoryKept, ApartFrom
<1>2. RowsShape' /\ Filled' /\ OneEach' /\ ToldExists' /\ FiredWasTold' /\ ToldOnce'
  BY <1>1 DEF RowsInv, RowsShape, Filled, OneEach, ToldExists, FiredWasTold, ToldOnce
<1>3. HandsSound'
  <2>1. HandsIn'
    BY <1>1 DEF RowsInv, HandsSound, HandsIn
  <2>2. HandsWaited'
    BY <1>1 DEF RowsInv, HandsSound, HandsWaited
  <2>3. HandsDone'
    BY <1>1 DEF RowsInv, HandsSound, HandsDone
  <2> QED BY <2>1, <2>2, <2>3 DEF HandsSound
<1>4. OneHand' /\ ToldLeaves'
  BY <1>1 DEF RowsInv, OneHand, ToldLeaves
<1>5. ToldInHand'
  BY <1>1 DEF RowsInv, ToldInHand, ToldLeaves
<1> QED BY <1>2, <1>3, <1>4, <1>5 DEF RowsInv

LEMMA TellingKeeps ==
    ASSUME RowsInv, NEW t \in Tasks, NEW i \in Ids, TellsRow(t, i) PROVE RowsInv'
<1>1. /\ rows' = rows /\ doubled' = doubled
      /\ i \in Left[t] /\ Hand'[t] = Hand[t] /\ Left'[t] = Left[t] \ {i}
      /\ \A s \in Tasks \ {t} : Hand'[s] = Hand[s] /\ Left'[s] = Left[s]
  BY DEF TellsRow, ApartFrom
<1>2. /\ told \in [Ids -> Nat] /\ told' \in [Ids -> Nat]
      /\ failed \in SUBSET Ids /\ failed' \in SUBSET Ids
      /\ told'[i] > 0 \/ i \in failed'
      /\ \A j \in Ids \ {i} : told'[j] = told[j] /\ (j \in failed' <=> j \in failed)
      /\ told'[i] \in {told[i], told[i] + 1}
      /\ i \in failed => i \in failed'
  BY DEF TellsRow, RowsInv, RowsShape
<1>3. RowsShape' /\ Filled' /\ OneEach'
  BY <1>1, <1>2 DEF RowsInv, RowsShape, Filled, OneEach
<1>4. i \in Hand[t] /\ rows[i].state # "none"
  BY <1>1 DEF RowsInv, HandsSound, HandsIn, HandsWaited
<1>5. ToldExists'
  BY <1>1, <1>2, <1>4 DEF RowsInv, ToldExists
<1>6. FiredWasTold'
  BY <1>1, <1>2 DEF RowsInv, FiredWasTold
<1>7. \A s \in Tasks : Hand'[s] = Hand[s] /\ Left'[s] \in SUBSET Left[s]
  BY <1>1
<1>8. i \notin doubled => told[i] = 0
  BY <1>1, <1>2 DEF RowsInv, ToldLeaves
<1>9. ToldOnce'
  BY <1>1, <1>2, <1>8 DEF RowsInv, ToldOnce
<1>10. HandsSound'
  <2>1. HandsIn'
    BY <1>1, <1>2, <1>7 DEF RowsInv, HandsSound, HandsIn
  <2>2. HandsWaited'
    BY <1>1, <1>2, <1>7 DEF RowsInv, HandsSound, HandsWaited
  <2>3. HandsDone'
    BY <1>1, <1>2, <1>7 DEF RowsInv, HandsSound, HandsDone
  <2> QED BY <2>1, <2>2, <2>3 DEF HandsSound
<1>11. OneHand'
  BY <1>1, <1>7 DEF RowsInv, OneHand
<1>12. ToldLeaves'
  <2> SUFFICES ASSUME NEW j \in Ids \ doubled, NEW s \in Tasks, told'[j] > 0
               PROVE  j \notin Left'[s]
    BY <1>1 DEF ToldLeaves
  <2>1. CASE j # i
    BY <1>2, <1>7, <2>1 DEF RowsInv, ToldLeaves
  <2>2. CASE j = i /\ s = t
    BY <1>1, <2>2
  <2>3. CASE j = i /\ s # t
    BY <1>1, <1>4, <2>3 DEF RowsInv, OneHand, HandsSound, HandsIn
  <2> QED BY <2>1, <2>2, <2>3
<1>13. ToldInHand'
  BY <1>1, <1>2, <1>4, <1>7 DEF RowsInv, ToldInHand
<1> QED BY <1>3, <1>5, <1>6, <1>9, <1>10, <1>11, <1>12, <1>13 DEF RowsInv

LEMMA ClearingKeeps ==
    ASSUME RowsInv, NEW t \in Tasks, Clearing(t) PROVE RowsInv'
<1>1. /\ told' = told /\ failed' = failed /\ doubled' = doubled
      /\ Left[t] = {} /\ Hand'[t] = {} /\ Left'[t] = {}
      /\ \A s \in Tasks \ {t} : Hand'[s] = Hand[s] /\ Left'[s] = Left[s]
  BY DEF Clearing, HistoryKept, ApartFrom
<1>2. rows \in [Ids -> NoticeRow]
  BY DEF RowsInv, RowsShape
<1>3. ASSUME NEW i \in Ids
      PROVE  /\ rows'[i] \in NoticeRow
             /\ rows'[i].kind = rows[i].kind /\ rows'[i].user = rows[i].user
             /\ rows'[i].plug = rows[i].plug
             /\ rows'[i].state = "none" <=> rows[i].state = "none"
             /\ rows'[i].state = "armed" => rows[i].state = "armed" /\ i \notin Hand[t]
             /\ rows'[i].state = "fired" => rows[i].state = "fired" \/ i \in Hand[t]
  <2>1. rows[i] \in NoticeRow
    BY <1>2
  <2>2. CASE i \in Hand[t] /\ rows[i].state = "armed"
    <3>1. rows'[i] = [rows[i] EXCEPT !.state = "fired"]
      BY <2>2 DEF Clearing
    <3> QED BY <2>1, <2>2, <3>1 DEF NoticeRow
  <2>3. CASE ~(i \in Hand[t] /\ rows[i].state = "armed")
    <3>1. rows'[i] = rows[i]
      BY <2>3 DEF Clearing
    <3> QED BY <2>1, <2>3, <3>1
  <2> QED BY <2>2, <2>3
<1>4. RowsShape'
  <2>1. rows' \in [Ids -> NoticeRow]
    BY <1>3 DEF Clearing
  <2> QED BY <1>1, <2>1 DEF RowsInv, RowsShape
<1>5. Filled' /\ OneEach'
  BY <1>3 DEF RowsInv, Filled, OneEach
<1>6. ToldExists' /\ ToldOnce'
  BY <1>1, <1>3 DEF RowsInv, ToldExists, ToldOnce
<1>7. FiredWasTold'
  <2>1. \A i \in Hand[t] : rows[i].kind # "favorite" /\ (told[i] > 0 \/ i \in failed)
    BY <1>1 DEF RowsInv, HandsSound, HandsIn, HandsWaited, HandsDone
  <2> QED BY <1>1, <1>3, <2>1 DEF RowsInv, FiredWasTold
<1>8. HandsSound'
  <2>1. HandsIn'
    BY <1>1, <1>3 DEF RowsInv, HandsSound, HandsIn
  <2>2. HandsWaited'
    BY <1>1, <1>3 DEF RowsInv, HandsSound, HandsWaited
  <2>3. HandsDone'
    BY <1>1, <1>3 DEF RowsInv, HandsSound, HandsDone
  <2> QED BY <2>1, <2>2, <2>3 DEF HandsSound
<1>9. OneHand' /\ ToldLeaves'
  BY <1>1 DEF RowsInv, OneHand, ToldLeaves
<1>10. ToldInHand'
  BY <1>1, <1>3 DEF RowsInv, ToldInHand
<1> QED BY <1>4, <1>5, <1>6, <1>7, <1>8, <1>9, <1>10 DEF RowsInv

LEMMA AbandoningKeeps ==
    ASSUME RowsInv, NEW S \in SUBSET Tasks, Abandoning(S) PROVE RowsInv'
<1>1. /\ rows' = rows /\ told' = told /\ failed' = failed
      /\ \A s \in Tasks \ S : Hand'[s] = Hand[s] /\ Left'[s] = Left[s]
      /\ \A s \in S : Hand'[s] = {} /\ Left'[s] = {}
      /\ doubled' = doubled \cup {i \in Ids : told[i] > 0 /\ \E s \in S : i \in Hand[s]}
  BY DEF Abandoning, ApartFrom
<1>2. RowsShape' /\ Filled' /\ OneEach' /\ ToldExists' /\ FiredWasTold' /\ ToldOnce'
  BY <1>1 DEF RowsInv, RowsShape, Filled, OneEach, ToldExists, FiredWasTold, ToldOnce
<1>3. HandsSound'
  <2>1. HandsIn'
    BY <1>1 DEF RowsInv, HandsSound, HandsIn
  <2>2. HandsWaited'
    BY <1>1 DEF RowsInv, HandsSound, HandsWaited
  <2>3. HandsDone'
    BY <1>1 DEF RowsInv, HandsSound, HandsDone
  <2> QED BY <2>1, <2>2, <2>3 DEF HandsSound
<1>4. OneHand' /\ ToldLeaves'
  BY <1>1 DEF RowsInv, OneHand, ToldLeaves
<1>5. ToldInHand'
  BY <1>1 DEF RowsInv, ToldInHand
<1> QED BY <1>2, <1>3, <1>4, <1>5 DEF RowsInv

LEMMA MovedKeeps ==
    ASSUME RowsInv, NoticesMoved PROVE RowsInv'
BY QuietKeeps, ArmingKeeps, DroppingKeeps, TakingKeeps, GivingUpKeeps, ClearingKeeps,
   TellingKeeps, AbandoningKeeps DEF NoticesMoved

-----------------------------------------------------------------------------
(* The stages of a fan-out.                                                *)

LEMMA Stages ==
    ASSUME NEW r \in Stage
    PROVE  /\ r.op = "watchers" => r \in ToWatchers
           /\ r.op = "requests" => r \in ToCircuit
           /\ r.op = "load" => r \in ToLoad
           /\ r.op = "notify" => r \in Telling
           /\ r.op = "push" => r \in Pushing
           /\ r.op = "idle" => r = Resting
           /\ r.op \in {"idle", "watchers", "requests", "load", "notify", "push"}
BY DEF Stage, Resting, ToWatchers, ToCircuit, ToLoad, Telling, Pushing

LEMMA BareHands ==
    ASSUME NEW r \in {Resting} \cup ToWatchers \cup ToCircuit
    PROVE  HandIn(r) = {} /\ LeftIn(r) = {}
<1>1. r.op \in {"idle", "watchers", "requests"}
  BY DEF Resting, ToWatchers, ToCircuit
<1> QED BY <1>1 DEF HandIn, LeftIn

LEMMA LoadHands ==
    ASSUME NEW r \in ToLoad
    PROVE  r.read \in SUBSET Ids /\ HandIn(r) = r.read /\ LeftIn(r) = r.read
<1>1. r.op = "load" /\ r.read \in SUBSET Ids
  BY DEF ToLoad
<1> QED BY <1>1 DEF HandIn, LeftIn

LEMMA TellingHands ==
    ASSUME NEW r \in Telling
    PROVE  /\ r.read \in SUBSET Ids /\ r.left \in SUBSET Ids
           /\ r.then \in ToCircuit \cup {Resting}
           /\ HandIn(r) = r.read /\ LeftIn(r) = r.left
<1>1. /\ r.op = "notify" /\ r.read \in SUBSET Ids /\ r.left \in SUBSET Ids
      /\ r.then \in ToCircuit \cup {Resting}
  BY DEF Telling
<1> QED BY <1>1 DEF HandIn, LeftIn

LEMMA PushingHands ==
    ASSUME NEW r \in Pushing
    PROVE  /\ r.then \in Telling /\ r.subs \in SUBSET Endpoints
           /\ HandIn(r) = r.then.read /\ LeftIn(r) = r.then.left
<1>1. r.op = "push" /\ r.then \in Telling /\ r.subs \in SUBSET Endpoints
  BY DEF Pushing
<1> QED BY <1>1 DEF HandIn, LeftIn

LEMMA HandOf ==
    ASSUME NEW t \in Tasks
    PROVE  /\ Hand[t] = HandIn(task[t]) /\ Left[t] = LeftIn(task[t])
           /\ InHand(t) = HandIn(task[t])
BY DEF Hand, Left, InHand, HandIn

\* A task that goes on to another stage changes its own hand only.
LEMMA Continues ==
    ASSUME task \in [Tasks -> Stage], NEW t \in Tasks, NEW r \in Stage,
           task' = [task EXCEPT ![t] = r]
    PROVE  /\ task' \in [Tasks -> Stage] /\ ApartFrom({t})
           /\ Hand'[t] = HandIn(r) /\ Left'[t] = LeftIn(r)
<1>1. task' \in [Tasks -> Stage] /\ task'[t] = r
  OBVIOUS
<1>2. \A s \in Tasks \ {t} : task'[s] = task[s]
  OBVIOUS
<1>3. \A s \in Tasks : Hand'[s] = HandIn(task'[s]) /\ Left'[s] = LeftIn(task'[s])
  BY DEF Hand, Left
<1>4. \A s \in Tasks : Hand[s] = HandIn(task[s]) /\ Left[s] = LeftIn(task[s])
  BY HandOf
<1> QED BY <1>1, <1>2, <1>3, <1>4 DEF ApartFrom

\* From one stage without rows to another.
LEMMA StartsBare ==
    ASSUME task \in [Tasks -> Stage], NEW t \in Tasks,
           task[t] \in {Resting} \cup ToWatchers \cup ToCircuit,
           NEW r \in {Resting} \cup ToWatchers \cup ToCircuit,
           task' = [task EXCEPT ![t] = r]
    PROVE  task' \in [Tasks -> Stage] /\ ApartFrom({})
<1>1. r \in Stage
  BY DEF Stage
<1>2. /\ task' \in [Tasks -> Stage] /\ ApartFrom({t})
      /\ Hand'[t] = HandIn(r) /\ Left'[t] = LeftIn(r)
  BY <1>1, Continues
<1>3. Hand[t] = HandIn(task[t]) /\ Left[t] = LeftIn(task[t])
  BY HandOf
<1>4. HandIn(r) = {} /\ LeftIn(r) = {} /\ HandIn(task[t]) = {} /\ LeftIn(task[t]) = {}
  BY BareHands
<1> QED BY <1>2, <1>3, <1>4 DEF ApartFrom

LEMMA SameTasks ==
    ASSUME task' = task PROVE ApartFrom({})
BY Zenon DEF ApartFrom, Hand, Left

-----------------------------------------------------------------------------
(* Every action is one of those kinds.                                     *)

\* Steps of the site and of the drivers' settings.
LEMMA SiteMoves ==
    ASSUME NoticesShape, UNCHANGED <<rows, task, told, failed, doubled>>,
           NoticesShape'
    PROVE  NoticesMoved
BY SameTasks DEF NoticesMoved, Quiet, HistoryKept

LEMMA RequestsShape ==
    ASSUME NoticesShape, NEW r \in Callers, NEW u \in Drivers,
           \/ JoinGroup(r, u)
           \/ \E p \in Plugs : WatchPlug(r, u, p) \/ RequestCapacity(r, u, p)
    PROVE  NoticesShape' /\ UNCHANGED <<rows, task, told, failed, doubled>>
<1>1. PICK q \in Request \cup Join : Ask(r, q)
  <2>1. ASSUME NEW p \in Plugs, NEW k \in {"watch", "capacity"}
        PROVE  [op |-> k, user |-> u, plug |-> p] \in Request
    BY DEF Request
  <2>2. CASE JoinGroup(r, u)
    BY <2>2 DEF JoinGroup, Join
  <2>3. ASSUME NEW p \in Plugs, WatchPlug(r, u, p) \/ RequestCapacity(r, u, p)
        PROVE  \E q \in Request : Ask(r, q)
    BY <2>1, <2>3 DEF WatchPlug, RequestCapacity
  <2> QED BY <2>2, <2>3
<1>2. asked' = [asked EXCEPT ![r] = q] /\ UNCHANGED <<site, rows, task, history>>
  BY <1>1 DEF Ask
<1> QED BY <1>2 DEF NoticesShape, site, history

LEMMA SettingsShape ==
    ASSUME NoticesShape, NEW u \in Drivers,
           \/ MarkRead(u) \/ MarkAllRead(u)
           \/ \E e \in Endpoints : PushSubscribe(u, e) \/ PushUnsubscribe(u, e)
    PROVE  NoticesShape' /\ UNCHANGED <<rows, task, told, failed, doubled>>
<1>1. UNCHANGED <<site, asked, rows, task, history>>
  BY DEF MarkRead, MarkAllRead, PushSubscribe, PushUnsubscribe
<1> QED BY <1>1 DEF NoticesShape, site, history

LEMMA EndpointShape ==
    ASSUME NoticesShape, NEW e \in Endpoints, EndpointDies(e)
    PROVE  NoticesShape' /\ UNCHANGED <<rows, task, told, failed, doubled>>
<1>1. UNCHANGED <<site, asked, rows, task, history>>
  BY DEF EndpointDies
<1> QED BY <1>1 DEF NoticesShape, site, history

LEMMA SiteShape ==
    ASSUME NoticesAssumption, NoticesShape,
           \/ \E u \in Drivers, p \in Plugs : StartSession(u, p)
           \/ \E p \in Plugs : MaintenanceEnter(p)
           \/ \E u \in Drivers : LeaveGroup(u) \/ RemoveGroupMember(u)
           \/ \E r \in Callers : JoinInsert(r)
           \/ UpdateGroup \/ GatewayFlaps
    PROVE  NoticesShape' /\ UNCHANGED <<rows, task, told, failed, doubled>>
<1>1. ASSUME NEW u \in Drivers, NEW p \in Plugs, StartSession(u, p)
      PROVE  NoticesShape' /\ UNCHANGED <<rows, task, told, failed, doubled>>
  BY <1>1 DEF StartSession, NoticesShape, people, history
<1>2. ASSUME NEW p \in Plugs, MaintenanceEnter(p)
      PROVE  NoticesShape' /\ UNCHANGED <<rows, task, told, failed, doubled>>
  BY <1>2 DEF MaintenanceEnter, NoticesShape, people, history
<1>3. ASSUME NEW u \in Drivers, LeaveGroup(u)
      PROVE  NoticesShape' /\ UNCHANGED <<rows, task, told, failed, doubled>>
  BY <1>3 DEF LeaveGroup, NoticesShape, people, history
<1>4. ASSUME NEW r \in Callers, JoinInsert(r)
      PROVE  NoticesShape' /\ UNCHANGED <<rows, task, told, failed, doubled>>
  <2>1. asked[r] \in Join
    <3>1. asked[r] \in Request \cup Join \cup {Resting} /\ asked[r].op = "join"
      BY <1>4 DEF JoinInsert, NoticesShape
    <3> QED BY <3>1 DEF Request, Resting
  <2>2. asked[r].user \in Drivers
    BY <2>1 DEF Join
  <2>3. asked' \in [Callers -> Request \cup Join \cup {Resting}]
    BY <1>4 DEF JoinInsert, NoticesShape
  <2>4. member' \in [Drivers -> Nat]
    BY <1>4, <2>2 DEF JoinInsert, NoticesShape
  <2> QED BY <1>4, <2>3, <2>4 DEF JoinInsert, NoticesShape, history
<1>5. ASSUME UpdateGroup \/ GatewayFlaps
      PROVE  NoticesShape' /\ UNCHANGED <<rows, task, told, failed, doubled>>
  BY <1>5 DEF UpdateGroup, GatewayFlaps, NoticesShape, people, history
<1> QED BY <1>1, <1>2, <1>3, <1>4, <1>5 DEF RemoveGroupMember
\* The id of the next row is one more than the number of rows.
LEMMA NextRow ==
    ASSUME NoticesAssumption, Filled
    PROVE  LET n == Cardinality({i \in Ids : rows[i].state # "none"}) + 1
           IN  n \in Ids => \A i \in Ids : rows[i].state # "none" <=> i < n
<1>1. PICK n \in 0 .. MaxRows : \A i \in Ids : rows[i].state # "none" <=> i <= n
  BY DEF Filled
<1>2. {i \in Ids : rows[i].state # "none"} = 1 .. n
  BY <1>1 DEF Ids, NoticesAssumption
<1>3. Cardinality(1 .. n) = n
  <2>1. Cardinality(1 .. n) = IF 1 > n THEN 0 ELSE n - 1 + 1
    BY FS_Interval
  <2> QED BY <2>1
<1>4. Cardinality({i \in Ids : rows[i].state # "none"}) = n
  BY <1>2, <1>3
<1>5. \A i \in Ids : rows[i].state # "none" <=> i < n + 1
  BY <1>1 DEF Ids
<1> QED BY <1>4, <1>5, Zenon

LEMMA ArmMoves ==
    ASSUME NoticesAssumption, RowsShape, Filled, NEW k \in Kinds, NEW u \in Drivers,
           NEW p \in Plugs, Arm(k, u, p), HistoryKept, task' = task
    PROVE  NoticesMoved
<1>1. ApartFrom({})
  BY SameTasks
<1>2. CASE Mine(k, u, p) # {}
  BY <1>1, <1>2 DEF Arm, NoticesMoved, Quiet
<1>3. CASE Mine(k, u, p) = {}
  <2> DEFINE n == Cardinality({i \in Ids : rows[i].state # "none"}) + 1
             r == [state |-> "armed", kind |-> k, user |-> u, plug |-> p]
  <2>1. n \in Ids /\ rows' = [rows EXCEPT ![n] = r]
    BY <1>3 DEF Arm
  <2>2. \A i \in Ids : rows[i].state # "none" <=> i < n
    BY <2>1, NextRow
  <2>3. r \in NoticeRow
    BY DEF NoticeRow
  <2>4. \A i \in Ids : ~ /\ rows[i].state = "armed" /\ rows[i].kind = r.kind
                         /\ rows[i].user = r.user /\ rows[i].plug = r.plug
    BY <1>3 DEF Mine, Armed
  <2>5. r.state = "armed"
    OBVIOUS
  <2> HIDE DEF n, r
  <2>6. Arming
    BY <1>1, <2>1, <2>2, <2>3, <2>4, <2>5 DEF Arming
  <2> QED BY <2>6 DEF NoticesMoved
<1> QED BY <1>2, <1>3

LEMMA InsertMoves ==
    ASSUME NoticesAssumption, NoticesShape, RowsShape, Filled, NEW r \in Callers,
           Insert(r)
    PROVE  NoticesShape' /\ NoticesMoved
<1>1. asked[r] \in Request
  <2>1. asked[r] \in Request \cup Join \cup {Resting} /\ asked[r].op \in {"watch", "capacity"}
    BY DEF Insert, NoticesShape
  <2> QED BY <2>1 DEF Join, Resting
<1>2. asked[r].op \in Kinds /\ asked[r].user \in Drivers /\ asked[r].plug \in Plugs
  BY <1>1 DEF Request, Kinds
<1>3. UNCHANGED <<status, driver, group, cap, member, task, told, failed, doubled>>
  BY DEF Insert, site, history
<1>4. asked' \in [Callers -> Request \cup Join \cup {Resting}]
  BY DEF Insert, NoticesShape
<1>5. NoticesShape'
  BY <1>3, <1>4 DEF NoticesShape
<1>6. HistoryKept /\ task' = task
  BY <1>3 DEF HistoryKept
<1>7. CASE UNCHANGED rows
  BY <1>5, <1>6, <1>7, SameTasks DEF NoticesMoved, Quiet
<1>8. CASE Arm(asked[r].op, asked[r].user, asked[r].plug)
  BY <1>2, <1>5, <1>6, <1>8, ArmMoves
<1> QED BY <1>5, <1>7, <1>8 DEF Insert

LEMMA FavoriteMoves ==
    ASSUME NoticesAssumption, NoticesShape, RowsShape, Filled, NEW u \in Drivers,
           NEW p \in Plugs, FavoritePlug(u, p)
    PROVE  NoticesShape' /\ NoticesMoved
<1>1. UNCHANGED <<status, driver, group, cap, member, asked, task, told, failed, doubled>>
  BY DEF FavoritePlug, site, history, people
<1>2. NoticesShape'
  BY <1>1 DEF NoticesShape
<1>3. HistoryKept /\ task' = task
  BY <1>1 DEF HistoryKept
<1>4. Arm("favorite", u, p) /\ "favorite" \in Kinds
  BY DEF FavoritePlug, Kinds
<1> QED BY <1>2, <1>3, <1>4, ArmMoves

\* Armed rows of a set S are dropped.
LEMMA DropMoves ==
    ASSUME RowsShape, NEW S \in SUBSET Ids, \A i \in S : rows[i].state = "armed",
           rows' = [i \in Ids |-> IF i \in S THEN [rows[i] EXCEPT !.state = "dropped"]
                                  ELSE rows[i]],
           HistoryKept, task' = task
    PROVE  NoticesMoved
<1>1. ASSUME NEW i \in Ids
      PROVE  rows'[i] \in NoticeRow /\ (rows'[i] = rows[i] \/ Dropped(i))
  <2>1. rows[i] \in NoticeRow
    BY DEF RowsShape
  <2>2. CASE i \in S
    <3>1. rows'[i] = [rows[i] EXCEPT !.state = "dropped"]
      BY <2>2
    <3> QED BY <2>1, <2>2, <3>1 DEF NoticeRow, Dropped
  <2>3. CASE i \notin S
    BY <2>1, <2>3
  <2> QED BY <2>2, <2>3
<1>2. rows' \in [Ids -> NoticeRow]
  BY <1>1
<1>3. Dropping
  BY <1>1, <1>2, SameTasks DEF Dropping
<1> QED BY <1>3 DEF NoticesMoved

LEMMA DisarmMoves ==
    ASSUME NoticesShape, RowsShape, NEW u, NEW p, NEW k, Disarm(u, p, k)
    PROVE  NoticesShape' /\ NoticesMoved
<1>1. UNCHANGED <<status, driver, group, cap, member, asked, task, told, failed, doubled>>
  BY DEF Disarm, site, history, people
<1>2. NoticesShape'
  BY <1>1 DEF NoticesShape
<1>3. Mine(k, u, p) \in SUBSET Ids /\ \A i \in Mine(k, u, p) : rows[i].state = "armed"
  BY DEF Mine, Armed
<1>4. rows' = [i \in Ids |->
                 IF i \in Mine(k, u, p) THEN [rows[i] EXCEPT !.state = "dropped"]
                 ELSE rows[i]]
  BY DEF Disarm
<1>5. HistoryKept
  BY <1>1 DEF HistoryKept
<1> QED BY <1>1, <1>2, <1>3, <1>4, <1>5, DropMoves

LEMMA DeleteMoves ==
    ASSUME NoticesShape, RowsShape, DeleteGroup
    PROVE  NoticesShape' /\ NoticesMoved
<1>1. UNCHANGED <<status, driver, asked, task, told, failed, doubled>>
  BY DEF DeleteGroup, history, people
<1>2. NoticesShape'
  BY <1>1 DEF NoticesShape, DeleteGroup
<1>3. Armed("capacity") \in SUBSET Ids /\ \A i \in Armed("capacity") : rows[i].state = "armed"
  BY DEF Armed
<1>4. rows' = [i \in Ids |->
                 IF i \in Armed("capacity") THEN [rows[i] EXCEPT !.state = "dropped"]
                 ELSE rows[i]]
  BY DEF DeleteGroup
<1>5. HistoryKept
  BY <1>1 DEF HistoryKept
<1> QED BY <1>1, <1>2, <1>3, <1>4, <1>5, DropMoves
\* A session ended, maintenance cleared or the cap raised: a fan-out begins.
LEMMA BeginMoves ==
    ASSUME NoticesShape, NEW t \in Tasks,
           \/ \E p \in Plugs : FinalizeSession(t, p) \/ MaintenanceClear(t, p)
           \/ \E c \in Caps : UpdateCap(t, c)
    PROVE  NoticesShape' /\ NoticesMoved
<1>1. /\ UNCHANGED <<group, member, asked, rows, told, failed, doubled>>
      /\ task[t] = Resting
      /\ status' \in [Plugs -> {"available", "occupied", "maintenance"}]
      /\ driver' \in [Plugs -> Drivers \cup {Nobody}]
      /\ cap' \in Caps \cup {0}
  BY DEF FinalizeSession, MaintenanceClear, UpdateCap, NoticesShape, people, history
<1>2. PICK r \in ToWatchers \cup ToCircuit : task' = [task EXCEPT ![t] = r]
  <2>1. ASSUME NEW p \in Plugs, FinalizeSession(t, p)
        PROVE  \E r \in ToWatchers \cup ToCircuit : task' = [task EXCEPT ![t] = r]
    <3>1. [op |-> "watchers", plug |-> p, skip |-> driver[p], circuit |-> TRUE] \in ToWatchers
      BY DEF ToWatchers, NoticesShape
    <3> QED BY <2>1, <3>1 DEF FinalizeSession
  <2>2. ASSUME NEW p \in Plugs, MaintenanceClear(t, p)
        PROVE  \E r \in ToWatchers \cup ToCircuit : task' = [task EXCEPT ![t] = r]
    <3>1. [op |-> "watchers", plug |-> p, skip |-> Nobody, circuit |-> FALSE] \in ToWatchers
      BY DEF ToWatchers
    <3> QED BY <2>2, <3>1 DEF MaintenanceClear
  <2>3. ASSUME NEW c \in Caps, UpdateCap(t, c)
        PROVE  \E r \in ToWatchers \cup ToCircuit : task' = [task EXCEPT ![t] = r]
    <3>1. [op |-> "requests", skip |-> Nobody] \in ToCircuit
      BY DEF ToCircuit
    <3> QED BY <2>3, <3>1 DEF UpdateCap
  <2> QED BY <2>1, <2>2, <2>3
<1>3. task' \in [Tasks -> Stage] /\ ApartFrom({})
  <2>1. /\ task \in [Tasks -> Stage]
        /\ r \in {Resting} \cup ToWatchers \cup ToCircuit
        /\ task[t] \in {Resting} \cup ToWatchers \cup ToCircuit
    BY <1>1 DEF NoticesShape
  <2> QED BY <1>2, <2>1, StartsBare
<1>4. NoticesShape'
  BY <1>1, <1>3 DEF NoticesShape
<1> QED BY <1>1, <1>3, <1>4 DEF NoticesMoved, Quiet, HistoryKept

LEMMA NextStage ==
    ASSUME NEW t \in Tasks, task[t] \in ToWatchers
    PROVE  AfterWatchers(t) \in ToCircuit \cup {Resting}
<1>1. task[t].skip \in Drivers \cup {Nobody}
  BY DEF ToWatchers
<1>2. [op |-> "requests", skip |-> task[t].skip] \in ToCircuit
  BY <1>1 DEF ToCircuit
<1> QED BY <1>2 DEF AfterWatchers

\* A fan-out writes nothing of the site and leaves every request alone.
FanOutKeepsSite == UNCHANGED <<site, asked>>

LEMMA FanOutShape ==
    ASSUME NoticesShape, FanOutKeepsSite, task' \in [Tasks -> Stage]
    PROVE  NoticesShape'
BY DEF NoticesShape, FanOutKeepsSite, site

\* The rows a fan-out reads.
WaitingRows(t, read) ==
    /\ read \in SUBSET Ids
    /\ \A i \in read : rows[i].state = "armed" /\ rows[i].kind # "favorite"

LEMMA TakeMoves ==
    ASSUME task \in [Tasks -> Stage], NEW t \in Tasks, NEW read, NEW r \in Stage,
           task[t] \in ToWatchers \cup ToCircuit, WaitingRows(t, read),
           task' = [task EXCEPT ![t] = r], HandIn(r) = read, LeftIn(r) = read,
           Reading(t, read), UNCHANGED <<rows, told, failed>>
    PROVE  task' \in [Tasks -> Stage] /\ NoticesMoved
<1>1. /\ task' \in [Tasks -> Stage] /\ ApartFrom({t})
      /\ Hand'[t] = read /\ Left'[t] = read
  BY Continues
<1>2. Hand[t] = {}
  BY HandOf, BareHands
<1>3. \A s \in Tasks : InHand(s) = Hand[s]
  BY HandOf
<1>4. doubled' = doubled \cup {i \in read : \E s \in Tasks \ {t} : i \in Hand[s]}
  <2>1. read \cap UNION {InHand(s) : s \in Tasks \ {t}}
           = {i \in read : \E s \in Tasks \ {t} : i \in Hand[s]}
    BY <1>3
  <2> QED BY <2>1 DEF Reading
<1>5. Taking(t)
  BY <1>1, <1>2, <1>4 DEF Taking, WaitingRows
<1> QED BY <1>1, <1>5 DEF NoticesMoved

LEMMA WatchersReadMoves ==
    ASSUME NoticesShape, RowsShape, NEW t \in Tasks, WatchersRead(t)
    PROVE  NoticesShape' /\ NoticesMoved
<1> DEFINE read == Watchers(t)
           r == [op |-> "notify", read |-> read, left |-> read, then |-> AfterWatchers(t)]
<1>1. /\ UNCHANGED <<rows, told, failed>> /\ FanOutKeepsSite /\ Reading(t, read)
      /\ task' = [task EXCEPT ![t] = IF read = {} THEN AfterWatchers(t) ELSE r]
  BY DEF WatchersRead, FanOutKeepsSite, people, Continue
<1>2. task \in [Tasks -> Stage] /\ task[t] \in ToWatchers
  BY Stages DEF NoticesShape, WatchersRead
<1>3. WaitingRows(t, read)
  BY DEF WaitingRows, Watchers, Armed
<1>4. AfterWatchers(t) \in ToCircuit \cup {Resting}
  BY <1>2, NextStage
<1>5. r \in Telling /\ r.read = read /\ r.left = read
  BY <1>3, <1>4 DEF Telling, WaitingRows
<1> HIDE DEF read, r
<1>6. CASE read = {}
  <2>1. /\ task' = [task EXCEPT ![t] = AfterWatchers(t)]
        /\ AfterWatchers(t) \in Stage
        /\ HandIn(AfterWatchers(t)) = read /\ LeftIn(AfterWatchers(t)) = read
    BY <1>1, <1>4, <1>6, BareHands DEF Stage
  <2>2. task' \in [Tasks -> Stage] /\ NoticesMoved
    BY <1>1, <1>2, <1>3, <2>1, TakeMoves
  <2> QED BY <1>1, <2>2, FanOutShape
<1>7. CASE read # {}
  <2>1. task' = [task EXCEPT ![t] = r] /\ r \in Stage /\ HandIn(r) = read /\ LeftIn(r) = read
    BY <1>1, <1>5, <1>7, TellingHands DEF Stage
  <2>2. task' \in [Tasks -> Stage] /\ NoticesMoved
    BY <1>1, <1>2, <1>3, <2>1, TakeMoves
  <2> QED BY <1>1, <2>2, FanOutShape
<1> QED BY <1>6, <1>7

LEMMA RequestsReadMoves ==
    ASSUME NoticesAssumption, NoticesShape, RowsShape, NEW t \in Tasks, RequestsRead(t)
    PROVE  NoticesShape' /\ NoticesMoved
<1> DEFINE read == Requests(t)
           r == [op |-> "load", read |-> read, cap |-> cap]
<1>1. /\ UNCHANGED <<rows, told, failed>> /\ FanOutKeepsSite
      /\ \/ task' = [task EXCEPT ![t] = Resting] /\ UNCHANGED doubled
         \/ task' = [task EXCEPT ![t] = r] /\ Reading(t, read)
  BY DEF RequestsRead, FanOutKeepsSite, people, Continue
<1>2. task \in [Tasks -> Stage] /\ task[t] \in ToCircuit
  BY Stages DEF NoticesShape, RequestsRead
<1>3. WaitingRows(t, read)
  BY DEF WaitingRows, Requests, Armed
<1>4. cap \in Nat
  BY DEF NoticesShape, NoticesAssumption
<1>5. r \in ToLoad /\ r.read = read
  BY <1>3, <1>4 DEF ToLoad, WaitingRows
<1> HIDE DEF read, r
<1>6. CASE task' = [task EXCEPT ![t] = Resting] /\ UNCHANGED doubled
  <2>1. task' \in [Tasks -> Stage] /\ ApartFrom({})
    BY <1>2, <1>6, StartsBare
  <2>2. NoticesMoved
    BY <1>1, <1>6, <2>1 DEF NoticesMoved, Quiet, HistoryKept
  <2> QED BY <1>1, <2>1, <2>2, FanOutShape
<1>7. CASE task' = [task EXCEPT ![t] = r] /\ Reading(t, read)
  <2>1. r \in Stage /\ HandIn(r) = read /\ LeftIn(r) = read
    BY <1>5, LoadHands DEF Stage
  <2>2. task' \in [Tasks -> Stage] /\ NoticesMoved
    BY <1>1, <1>2, <1>3, <1>7, <2>1, TakeMoves
  <2> QED BY <1>1, <2>2, FanOutShape
<1> QED BY <1>1, <1>6, <1>7

LEMMA LoadReadMoves ==
    ASSUME NoticesShape, NEW t \in Tasks, LoadRead(t)
    PROVE  NoticesShape' /\ NoticesMoved
<1>1. task \in [Tasks -> Stage] /\ task[t] \in ToLoad
  BY Stages DEF NoticesShape, LoadRead
<1>2. /\ task[t].read \in SUBSET Ids
      /\ Hand[t] = task[t].read /\ Left[t] = task[t].read
  BY <1>1, HandOf, LoadHands
<1>3. UNCHANGED rows /\ HistoryKept /\ FanOutKeepsSite
  BY DEF LoadRead, FanOutKeepsSite, people, HistoryKept, history
<1>4. PICK r \in Stage : /\ task' = [task EXCEPT ![t] = r]
                         /\ HandIn(r) = LeftIn(r) /\ HandIn(r) \in {Hand[t], {}}
  <2>1. CASE task' = [task EXCEPT ![t] = Resting]
    BY <2>1, BareHands DEF Stage
  <2>2. CASE task' = [task EXCEPT ![t] = [op |-> "notify", read |-> task[t].read,
                                          left |-> task[t].read, then |-> Resting]]
    <3> DEFINE r == [op |-> "notify", read |-> task[t].read,
                     left |-> task[t].read, then |-> Resting]
    <3>1. r \in Telling /\ r.read = Hand[t] /\ r.left = Hand[t]
      BY <1>2 DEF Telling
    <3>2. task' = [task EXCEPT ![t] = r]
      BY <2>2
    <3> HIDE DEF r
    <3>3. r \in Stage /\ HandIn(r) = Hand[t] /\ LeftIn(r) = Hand[t]
      BY <3>1, TellingHands DEF Stage
    <3> QED BY <3>2, <3>3
  <2> QED BY <2>1, <2>2 DEF LoadRead, Continue
<1>5. /\ task' \in [Tasks -> Stage] /\ ApartFrom({t})
      /\ Hand'[t] = HandIn(r) /\ Left'[t] = LeftIn(r)
  BY <1>1, <1>4, Continues
<1>6. GivingUp(t)
  BY <1>2, <1>3, <1>4, <1>5 DEF GivingUp
<1>7. NoticesMoved
  BY <1>6 DEF NoticesMoved
<1> QED BY <1>3, <1>5, <1>7, FanOutShape
LEMMA NotifyMoves ==
    ASSUME NoticesShape, NEW t \in Tasks, NEW i \in Ids, NEW persisted \in BOOLEAN,
           Notify(t, i, persisted)
    PROVE  NoticesShape' /\ NoticesMoved
<1> DEFINE subs == IF persisted THEN {e \in Endpoints : sub[e] = rows[i].user} ELSE {}
           then == [task[t] EXCEPT !.left = task[t].left \ {i}]
           r == [op |-> "push", subs |-> subs, then |-> then]
<1>1. task \in [Tasks -> Stage] /\ task[t] \in Telling
  BY Stages DEF NoticesShape, Notify
<1>2. /\ task[t].left \in SUBSET Ids /\ i \in task[t].left
      /\ Hand[t] = task[t].read /\ Left[t] = task[t].left
  BY <1>1, HandOf, TellingHands DEF Notify
<1>3. /\ UNCHANGED <<rows, doubled>> /\ FanOutKeepsSite
      /\ \/ told' = [told EXCEPT ![i] = @ + 1] /\ UNCHANGED failed
         \/ failed' = failed \cup {i} /\ UNCHANGED told
  BY DEF Notify, FanOutKeepsSite
<1>4. task' = [task EXCEPT ![t] = r]
  BY DEF Notify, Continue
<1>5. then \in Telling /\ then.read = task[t].read /\ then.left = task[t].left \ {i}
  BY <1>1, <1>2 DEF Telling
<1>6. r \in Pushing /\ r.then = then
  BY <1>5 DEF Pushing
<1> HIDE DEF then, r
<1>7. r \in Stage /\ HandIn(r) = Hand[t] /\ LeftIn(r) = Left[t] \ {i}
  BY <1>2, <1>5, <1>6, PushingHands DEF Stage
<1>8. /\ task' \in [Tasks -> Stage] /\ ApartFrom({t})
      /\ Hand'[t] = Hand[t] /\ Left'[t] = Left[t] \ {i}
  BY <1>1, <1>4, <1>7, Continues
<1>9. TellsRow(t, i)
  BY <1>2, <1>3, <1>8 DEF TellsRow
<1>10. NoticesMoved
  BY <1>9 DEF NoticesMoved
<1> QED BY <1>3, <1>8, <1>10, FanOutShape

LEMMA PushMoves ==
    ASSUME NoticesShape, NEW t \in Tasks, Push(t)
    PROVE  NoticesShape' /\ NoticesMoved
<1>1. task \in [Tasks -> Stage] /\ task[t] \in Pushing
  BY Stages DEF NoticesShape, Push
<1>2. /\ task[t].then \in Telling
      /\ Hand[t] = task[t].then.read /\ Left[t] = task[t].then.left
  BY <1>1, HandOf, PushingHands
<1>3. UNCHANGED rows /\ HistoryKept /\ FanOutKeepsSite
  BY DEF Push, FanOutKeepsSite, HistoryKept, history
<1>4. /\ task' = [task EXCEPT ![t] = task[t].then] /\ task[t].then \in Stage
      /\ HandIn(task[t].then) = Hand[t] /\ LeftIn(task[t].then) = Left[t]
  BY <1>2, TellingHands DEF Push, Continue, Stage
<1>5. /\ task' \in [Tasks -> Stage] /\ ApartFrom({t})
      /\ Hand'[t] = Hand[t] /\ Left'[t] = Left[t]
  BY <1>1, <1>4, Continues
<1>6. ApartFrom({})
  BY <1>5 DEF ApartFrom
<1>7. NoticesMoved
  BY <1>3, <1>6 DEF NoticesMoved, Quiet
<1> QED BY <1>3, <1>5, <1>7, FanOutShape

LEMMA FanOutClearMoves ==
    ASSUME NoticesShape, NEW t \in Tasks, FanOutClear(t)
    PROVE  NoticesShape' /\ NoticesMoved
<1>1. task \in [Tasks -> Stage] /\ task[t] \in Telling
  BY Stages DEF NoticesShape, FanOutClear
<1>2. /\ task[t].then \in ToCircuit \cup {Resting} /\ task[t].left = {}
      /\ Hand[t] = task[t].read /\ Left[t] = {}
  BY <1>1, HandOf, TellingHands DEF FanOutClear
<1>3. HistoryKept /\ FanOutKeepsSite
  BY DEF FanOutClear, FanOutKeepsSite, HistoryKept, history, people
<1>4. /\ task' = [task EXCEPT ![t] = task[t].then] /\ task[t].then \in Stage
      /\ HandIn(task[t].then) = {} /\ LeftIn(task[t].then) = {}
  BY <1>2, BareHands DEF FanOutClear, Continue, Stage
<1>5. /\ task' \in [Tasks -> Stage] /\ ApartFrom({t})
      /\ Hand'[t] = {} /\ Left'[t] = {}
  BY <1>1, <1>4, Continues
<1>6. Clearing(t)
  BY <1>2, <1>3, <1>5 DEF Clearing, FanOutClear, Cleared
<1>7. NoticesMoved
  BY <1>6 DEF NoticesMoved
<1> QED BY <1>3, <1>5, <1>7, FanOutShape

LEMMA FanOutFailsMoves ==
    ASSUME NoticesShape, RowsShape, NEW t \in Tasks, FanOutFails(t)
    PROVE  NoticesShape' /\ NoticesMoved
<1>1. task \in [Tasks -> Stage] /\ task[t] \in Stage
  BY DEF NoticesShape
<1>2. /\ UNCHANGED <<rows, told, failed>> /\ FanOutKeepsSite
      /\ doubled' = doubled \cup {i \in InHand(t) : told[i] > 0}
  BY DEF FanOutFails, FanOutKeepsSite, people
<1>3. PICK r \in {Resting} \cup ToCircuit : task' = [task EXCEPT ![t] = r]
  <2>1. CASE task[t].op = "watchers" /\ Continue(t, AfterWatchers(t))
    BY <1>1, <2>1, Stages, NextStage DEF Continue
  <2>2. CASE Continue(t, Resting)
    BY <2>2 DEF Continue
  <2>3. CASE task[t].op = "notify" /\ Continue(t, task[t].then)
    BY <1>1, <2>3, Stages, TellingHands DEF Continue
  <2> QED BY <2>1, <2>2, <2>3 DEF FanOutFails
<1>4. r \in Stage /\ HandIn(r) = {} /\ LeftIn(r) = {}
  BY BareHands DEF Stage
<1>5. /\ task' \in [Tasks -> Stage] /\ ApartFrom({t})
      /\ Hand'[t] = {} /\ Left'[t] = {}
  BY <1>1, <1>3, <1>4, Continues
<1>6. InHand(t) = Hand[t] /\ Hand[t] \in SUBSET Ids
  <2>1. InHand(t) = Hand[t] /\ Hand[t] = HandIn(task[t])
    BY HandOf
  <2>2. CASE task[t] \in {Resting} \cup ToWatchers \cup ToCircuit
    BY <2>1, <2>2, BareHands
  <2>3. CASE task[t] \in ToLoad
    BY <2>1, <2>3, LoadHands
  <2>4. CASE task[t] \in Telling
    BY <2>1, <2>4, TellingHands
  <2>5. CASE task[t] \in Pushing
    BY <2>1, <2>5, PushingHands, TellingHands
  <2> QED BY <1>1, <2>1, <2>2, <2>3, <2>4, <2>5 DEF Stage
<1>7. doubled' = doubled \cup {i \in Ids : told[i] > 0 /\ \E s \in {t} : i \in Hand[s]}
  BY <1>2, <1>6
<1>8. Abandoning({t})
  BY <1>2, <1>5, <1>7 DEF Abandoning
<1>9. NoticesMoved
  BY <1>8 DEF NoticesMoved
<1> QED BY <1>2, <1>5, <1>9, FanOutShape

LEMMA RestartMoves ==
    ASSUME NoticesShape, HandsSound, BackendRestarts
    PROVE  NoticesShape' /\ NoticesMoved
<1>1. /\ UNCHANGED <<status, driver, group, cap, member, rows, told, failed>>
      /\ task' = [t \in Tasks |-> Resting]
      /\ asked' = [r \in Callers |-> Resting]
      /\ doubled' = doubled \cup {i \in UNION {InHand(t) : t \in Tasks} : told[i] > 0}
  BY DEF BackendRestarts, site
<1>2. NoticesShape'
  BY <1>1 DEF NoticesShape, Stage
<1>3. HandIn(Resting) = {} /\ LeftIn(Resting) = {}
  BY BareHands
<1>4. \A s \in Tasks : Hand'[s] = {} /\ Left'[s] = {}
  BY <1>1, <1>3 DEF Hand, Left
<1>5. doubled' = doubled \cup {i \in Ids : told[i] > 0 /\ \E s \in Tasks : i \in Hand[s]}
  <2>1. \A s \in Tasks : InHand(s) = Hand[s] /\ Hand[s] \in SUBSET Ids
    BY HandOf DEF HandsSound, HandsIn
  <2>2. {i \in UNION {InHand(t) : t \in Tasks} : told[i] > 0}
           = {i \in Ids : told[i] > 0 /\ \E s \in Tasks : i \in Hand[s]}
    BY <2>1
  <2> QED BY <1>1, <2>2
<1>6. Abandoning(Tasks)
  BY <1>1, <1>4, <1>5 DEF Abandoning, ApartFrom
<1>7. NoticesMoved
  BY <1>6 DEF NoticesMoved
<1> QED BY <1>2, <1>7

-----------------------------------------------------------------------------
(* The theorems.                                                           *)

LEMMA NoticesStart ==
    ASSUME NoticesAssumption, NoticesInit PROVE NoticesInv
<1>1. NoticesShape
  BY DEF NoticesInit, NoticesShape, Stage
<1>2. RowsShape
  BY DEF NoticesInit, RowsShape, NoRow, NoticeRow, Kinds
<1>3. \A i \in Ids : rows[i].state = "none" /\ told[i] = 0
  BY DEF NoticesInit, NoRow
<1>4. Filled
  <2>1. 0 \in 0 .. MaxRows /\ \A i \in Ids : ~(i <= 0)
    BY DEF NoticesAssumption, Ids
  <2> QED BY <1>3, <2>1 DEF Filled
<1>5. OneEach /\ ToldExists /\ ToldLeaves /\ ToldInHand /\ FiredWasTold /\ ToldOnce
  BY <1>3 DEF OneEach, ToldExists, ToldLeaves, ToldInHand, FiredWasTold, ToldOnce
<1>6. \A t \in Tasks : Hand[t] = {} /\ Left[t] = {}
  <2>1. HandIn(Resting) = {} /\ LeftIn(Resting) = {}
    BY BareHands
  <2> QED BY <2>1 DEF NoticesInit, Hand, Left
<1>7. HandsSound /\ OneHand
  BY <1>6 DEF HandsSound, HandsIn, HandsWaited, HandsDone, OneHand
<1> QED BY <1>1, <1>2, <1>4, <1>5, <1>7 DEF NoticesInv, RowsInv

LEMMA NoticesStep ==
    ASSUME NoticesAssumption, NoticesInv, NoticesNext PROVE NoticesInv'
<1>1. NoticesShape /\ RowsInv /\ RowsShape /\ Filled /\ HandsSound
  BY DEF NoticesInv, RowsInv
<1> SUFFICES NoticesShape' /\ NoticesMoved
  BY <1>1, MovedKeeps DEF NoticesInv
<1>2. CASE \E t \in Tasks : FanOut(t)
  BY <1>1, <1>2, WatchersReadMoves, RequestsReadMoves, LoadReadMoves, NotifyMoves,
     PushMoves, FanOutClearMoves DEF FanOut
<1>3. CASE \E t \in Tasks : FanOutFails(t)
  BY <1>1, <1>3, FanOutFailsMoves
<1>4. CASE \E t \in Tasks : \/ \E p \in Plugs : FinalizeSession(t, p) \/ MaintenanceClear(t, p)
                            \/ \E c \in Caps : UpdateCap(t, c)
  BY <1>1, <1>4, BeginMoves
<1>5. ASSUME NEW u \in Drivers, Driver(u) PROVE NoticesShape' /\ NoticesMoved
  <2>1. CASE \E r \in Callers : \/ JoinGroup(r, u)
                                \/ \E p \in Plugs : WatchPlug(r, u, p) \/ RequestCapacity(r, u, p)
    BY <1>1, <2>1, RequestsShape, SiteMoves
  <2>2. CASE \E p \in Plugs : StartSession(u, p)
    BY <1>1, <2>2, SiteShape, SiteMoves
  <2>3. CASE \E p \in Plugs : FavoritePlug(u, p)
    BY <1>1, <2>3, FavoriteMoves
  <2>4. CASE \E p \in Plugs : UnwatchPlug(u, p) \/ UnfavoritePlug(u, p)
    BY <1>1, <2>4, DisarmMoves DEF UnwatchPlug, UnfavoritePlug
  <2>5. CASE LeaveGroup(u)
    BY <1>1, <2>5, SiteShape, SiteMoves
  <2>6. CASE \/ MarkRead(u) \/ MarkAllRead(u)
             \/ \E e \in Endpoints : PushSubscribe(u, e) \/ PushUnsubscribe(u, e)
    BY <1>1, <2>6, SettingsShape, SiteMoves
  <2> QED BY <1>5, <2>1, <2>2, <2>3, <2>4, <2>5, <2>6 DEF Driver
<1>6. CASE \E r \in Callers : Insert(r)
  BY <1>1, <1>6, InsertMoves
<1>7. CASE \E e \in Endpoints : EndpointDies(e)
  BY <1>1, <1>7, EndpointShape, SiteMoves
<1>8. CASE \/ \E u \in Drivers : RemoveGroupMember(u)
           \/ \E r \in Callers : JoinInsert(r)
           \/ \E p \in Plugs : MaintenanceEnter(p)
           \/ UpdateGroup \/ GatewayFlaps
  BY <1>1, <1>8, SiteShape, SiteMoves
<1>9. CASE DeleteGroup
  BY <1>1, <1>9, DeleteMoves
<1>10. CASE BackendRestarts
  BY <1>1, <1>10, RestartMoves
<1> QED BY <1>2, <1>3, <1>4, <1>5, <1>6, <1>7, <1>8, <1>9, <1>10 DEF NoticesNext

LEMMA NoticesStutter ==
    ASSUME NoticesInv, UNCHANGED noticesVars PROVE NoticesInv'
<1>1. UNCHANGED <<status, driver, group, cap, member, asked, rows, task, told, failed, doubled>>
  BY DEF noticesVars, site, people, history
<1>2. NoticesShape'
  BY <1>1 DEF NoticesInv, NoticesShape
<1>3. Quiet
  BY <1>1, SameTasks DEF Quiet, HistoryKept
<1>4. RowsInv'
  BY <1>3, QuietKeeps DEF NoticesInv
<1> QED BY <1>2, <1>4 DEF NoticesInv

\* What the fan-outs rest on holds throughout: a row not counted as doubled is
\* in the hands of one fan-out at most, is told by it once, and stays in its
\* hands until it is deleted or dropped (plug_watch.py, capacity.py).
THEOREM NoticesInvariant == NoticesSpec => []NoticesInv
<1>1. NoticesInit => NoticesInv
  BY NoticesStart, NoticesAssumption
<1>2. NoticesInv /\ [NoticesNext]_noticesVars => NoticesInv'
  BY NoticesStep, NoticesStutter, NoticesAssumption
<1> QED BY <1>1, <1>2, PTL DEF NoticesSpec

LEMMA OneRowEach ==
    ASSUME OneEach, NEW k, NEW u, NEW p PROVE Cardinality(Mine(k, u, p)) <= 1
<1>1. \A i, j \in Mine(k, u, p) : i = j
  BY DEF OneEach, Mine, Armed
<1>2. CASE Mine(k, u, p) = {}
  BY <1>2, FS_EmptySet
<1>3. CASE Mine(k, u, p) # {}
  <2>1. PICK i : i \in Mine(k, u, p)
    BY <1>3
  <2>2. Mine(k, u, p) = {i}
    BY <1>1, <2>1
  <2>3. Cardinality({i}) = 1
    BY FS_Singleton
  <2> QED BY <2>2, <2>3
<1> QED BY <1>2, <1>3

\* Whatever the fan-outs of overlapping session ends, failed statements and
\* restarts do, every row they take away was answered, and a driver hears twice
\* only of a row that a second fan-out read before the first had deleted it, or
\* whose delete failed or was lost in a crash (notify_watchers_plug_available,
\* notify_capacity_available).
THEOREM AnsweredOnceHolds == NoticesSpec => []AnsweredOnce
<1>1. NoticesInv => AnsweredOnce
  <2> SUFFICES ASSUME NoticesInv PROVE AnsweredOnce
    OBVIOUS
  <2>1. \A i \in Ids : rows[i].state \in {"none", "armed", "fired", "dropped"}
    BY DEF NoticesInv, RowsInv, RowsShape, NoticeRow
  <2>2. \A t \in Tasks :
           task[t].op \in {"idle", "watchers", "requests", "load", "notify", "push"}
    BY Stages DEF NoticesInv, NoticesShape
  <2>3. \A u \in Drivers, p \in Plugs, k \in Kinds : Cardinality(Mine(k, u, p)) <= 1
    BY OneRowEach DEF NoticesInv, RowsInv
  <2>4. NoticesTypeOK
    BY <2>1, <2>2, <2>3 DEF NoticesInv, NoticesShape, NoticesTypeOK, Kinds
  <2> QED BY <2>4 DEF NoticesInv, RowsInv, AnsweredOnce
<1> QED BY <1>1, NoticesInvariant, PTL
=============================================================================
