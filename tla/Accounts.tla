------------------------------ MODULE Accounts ------------------------------
(***************************************************************************)
(* Sign-in to one e-mail address: registration, the e-mailed verification  *)
(* and reset links, password and Google sign-in, the JWTs they hand out,   *)
(* and everything that revokes those JWTs (routers/auth.py,                *)
(* services/auth.py, services/rate_limit.py, admin_update_user,            *)
(* cpo_setup, close_account).                                              *)
(*                                                                         *)
(* Each request runs in a worker.  A handler is cut where it awaits the    *)
(* database: what it read before the cut is its snapshot, and other        *)
(* requests commit in between.  A JWT is the record of its claims; it is   *)
(* never stored, so it stays in the hands of a client for ever.            *)
(*                                                                         *)
(* All rows share one address.  Closing an account turns its row into a    *)
(* tombstone, after which the address can be registered again.             *)
(***************************************************************************)
EXTENDS Integers, Sequences, FiniteSets, Functions

CONSTANTS
    Workers,        \* requests in flight at once
    Passwords,      \* passwords people type
    NoPassword,     \* the unusable random hash
    AdminRequests,  \* bodies of PATCH /api/admin/users
    MaxUsers, MaxLinks, MaxCodes, MaxEpoch, MaxJwts, MaxTime, MaxRequests, \* bounds
    LinkTtl, CodeTtl,      \* lifetimes, in ticks
    Budget, Window         \* LOGIN_ACCOUNT_RATE_LIMIT

ASSUME AccountsAssumption ==
    /\ NoPassword \notin Passwords
    /\ AdminRequests \subseteq
         [role : {"keep", "driver", "cpo"}, disabled : {"keep", "yes", "no"}]
    /\ {MaxLinks, MaxCodes, MaxJwts, MaxTime, MaxRequests} \subseteq Nat
    /\ {MaxUsers, MaxEpoch} \subseteq Nat \ {0}
    /\ {LinkTtl, CodeTtl, Budget, Window} \subseteq Nat \ {0}

VARIABLES
    row,    \* users: [Users -> User]
    link,   \* both token tables: [Links -> Link]
    jwt,    \* the JWTs handed to clients
    code,   \* _google_exchange_store: [Codes -> entry]
    work,   \* [Workers -> the request a worker is serving and what it has read]
    hits,   \* the login limiter's deque for this address
    now,
    begun,  \* requests so far, bounded by MaxRequests
    \* History, read by no action:
    taken,  \* how often each link took effect
    tries,  \* wrong passwords answered 401 at each time since the last success
    crossed \* rows whose Google link overwrote a newer token_version

vars == <<row, link, jwt, code, work, hits, now, begun, taken, tries, crossed>>

Users == 1 .. MaxUsers
Links == 1 .. MaxLinks
Codes == 1 .. MaxCodes
Times == 0 .. MaxTime

NoUser == [state |-> "none", verified |-> FALSE, disabled |-> FALSE,
           password |-> NoPassword, tv |-> 0, google |-> FALSE,
           role |-> "driver", tenant |-> FALSE]
NoLink == [state |-> "none", kind |-> "none", user |-> 0, due |-> 0]
Jwt(u, password) ==
    [user |-> u, tv |-> row[u].tv, role |-> row[u].role, password |-> password]
NoCode == [jwt |-> {}, due |-> 0]
Idle == [op |-> "idle"]

\* The row the address resolves to: select(User).where(lower(email) == email).
Found == {u \in Users : row[u].state = "live"}

\* get_current_user, and the same two checks of the socket layer.
Accepted(j) == row[j.user].tv = j.tv /\ ~row[j.user].disabled

At(w, op) == work[w].op = op
Serve(w, request) == work' = [work EXCEPT ![w] = request] /\ UNCHANGED begun
Done(w) == Serve(w, Idle)

\* A request that has only read: it changes nothing but its worker.  The
\* limiters in front of a route only refuse it.
Begin(w, request) ==
    /\ At(w, "idle")
    /\ begun < MaxRequests
    /\ begun' = begun + 1
    /\ work' = [work EXCEPT ![w] = request]
    /\ UNCHANGED <<row, link, jwt, code, hits, now, taken, tries, crossed>>

\* An UPDATE of link rows waits for the transaction that voided them.
Locked(w) == UNION {work[v].voids : v \in {x \in Workers \ {w} : At(x, "issued")}}

NextUser == Cardinality({u \in Users : row[u].state # "none"}) + 1
NextLink == Cardinality({l \in Links : link[l].state # "none"}) + 1

-----------------------------------------------------------------------------
(* Registration and the issue of links.                                    *)

RegisterRead(w, p) ==
    Found = {} /\ Begin(w, [op |-> "register", password |-> p])

\* Mutant: no unique index behind the check.
RegisterInsertTwice(w) ==
    /\ At(w, "register")
    /\ NextUser \in Users
    /\ row' = [row EXCEPT ![NextUser] =
                 [NoUser EXCEPT !.state = "live", !.password = work[w].password]]
    /\ Serve(w, [op |-> "issue", kind |-> "verify", user |-> NextUser])
    /\ UNCHANGED <<link, jwt, code, hits, now, taken, tries, crossed>>

\* The unique index on email decides between concurrent registrations.
RegisterInsert(w) ==
    /\ At(w, "register")
    /\ IF Found # {}
       THEN Done(w) /\ UNCHANGED row
       ELSE /\ NextUser \in Users
            /\ row' = [row EXCEPT ![NextUser] =
                         [NoUser EXCEPT !.state = "live", !.password = work[w].password]]
            /\ Serve(w, [op |-> "issue", kind |-> "verify", user |-> NextUser])
    /\ UNCHANGED <<link, jwt, code, hits, now, taken, tries, crossed>>

ResendRead(w) ==
    \E u \in Found :
       ~row[u].verified /\ Begin(w, [op |-> "issue", kind |-> "verify", user |-> u])

ForgotRead(w) ==
    \E u \in Found : Begin(w, [op |-> "issue", kind |-> "reset", user |-> u])

\* UPDATE ... SET used_at WHERE user_id = u AND used_at IS NULL, uncommitted.
Outstanding(kind, u) ==
    {l \in Links : link[l].state = "live" /\ link[l].kind = kind /\ link[l].user = u}

IssueVoid(w) ==
    /\ At(w, "issue")
    /\ LET voids == Outstanding(work[w].kind, work[w].user) IN
         /\ voids \cap Locked(w) = {}
         /\ Serve(w, [op |-> "issued", kind |-> work[w].kind,
                      user |-> work[w].user, voids |-> voids])
    /\ UNCHANGED <<row, link, jwt, code, hits, now, taken, tries, crossed>>

\* Mutant: the new link is inserted before the outstanding ones are voided.
IssueCommitVoidingAll(w) ==
    /\ At(w, "issued")
    /\ NextLink \in Links
    /\ link' = [l \in Links |->
          IF l = NextLink \/ l \in work[w].voids
          THEN [state |-> "used", kind |-> work[w].kind,
                user |-> work[w].user, due |-> now + LinkTtl]
          ELSE link[l]]
    /\ Done(w)
    /\ UNCHANGED <<row, jwt, code, hits, now, taken, tries, crossed>>

IssueCommit(w) ==
    /\ At(w, "issued")
    /\ NextLink \in Links
    /\ link' = [l \in Links |->
          CASE l = NextLink ->
                 [state |-> "live", kind |-> work[w].kind,
                  user |-> work[w].user, due |-> now + LinkTtl]
            [] l \in work[w].voids -> [link[l] EXCEPT !.state = "used"]
            [] OTHER -> link[l]]
    /\ Done(w)
    /\ UNCHANGED <<row, jwt, code, hits, now, taken, tries, crossed>>

-----------------------------------------------------------------------------
(* The links take effect.                                                  *)

\* The SELECT both handlers begin with: expiry is tested only here.
LinkRead(w, l, request) ==
    link[l].state = "live" /\ link[l].due > now /\ Begin(w, request)

VerifyRead(w, l) ==
    link[l].kind = "verify" /\ LinkRead(w, l, [op |-> "verify", link |-> l])

ResetRead(w, l, p) ==
    link[l].kind = "reset" /\ LinkRead(w, l, [op |-> "reset", link |-> l, password |-> p])

\* Mutant: the UPDATE matches the row by id alone.
ConsumableById(l) == link[l].state # "gone"

\* The conditional UPDATE wins the row only while used_at IS NULL.
Consumable(l) == link[l].state = "live"

Consume(w, l) ==
    /\ l \notin Locked(w)
    /\ Consumable(l)
    /\ link' = [link EXCEPT ![l].state = "used"]
    /\ taken' = [taken EXCEPT ![l] = @ + 1]

Refused(w, l) ==
    /\ l \notin Locked(w)
    /\ ~Consumable(l)
    /\ Done(w)
    /\ UNCHANGED <<row, link, taken>>

VerifyConsume(w) ==
    /\ At(w, "verify")
    /\ LET l == work[w].link
           u == link[l].user IN
         \/ /\ Consume(w, l)
            /\ row[u].tv < MaxEpoch
            /\ row' = [row EXCEPT ![u].verified = TRUE, ![u].tv = @ + 1]
            /\ Serve(w, [op |-> "verified", user |-> u])
         \/ Refused(w, l)
    /\ UNCHANGED <<jwt, code, hits, now, tries, crossed>>

\* The reload after the commit: the JWT carries the epoch of that moment.
VerifyMint(w) ==
    /\ At(w, "verified")
    /\ Cardinality(jwt) < MaxJwts
    /\ jwt' = jwt \cup {Jwt(work[w].user, NoPassword)}
    /\ Done(w)
    /\ UNCHANGED <<row, link, code, hits, now, taken, tries, crossed>>

\* Mutant: the reset stores the password and revokes nothing.
RekeyedQuietly(u, p) == [row EXCEPT ![u].password = p]

Rekeyed(u, p) == [row EXCEPT ![u].password = p, ![u].tv = @ + 1]

ResetConsume(w) ==
    /\ At(w, "reset")
    /\ LET l == work[w].link
           u == link[l].user IN
         \/ /\ Consume(w, l)
            /\ row[u].tv < MaxEpoch
            /\ row' = Rekeyed(u, work[w].password)
            /\ Done(w)
         \/ Refused(w, l)
    /\ UNCHANGED <<jwt, code, hits, now, tries, crossed>>

-----------------------------------------------------------------------------
(* Password sign-in and its limiter.                                       *)

\* Mutant: login ignores email_verified.
MaySignInUnverified(u) == ~row[u].disabled

MaySignIn(u) == row[u].verified /\ ~row[u].disabled

LoginRead(w, p) ==
    LET right == {u \in Found : row[u].password = p} IN
    Begin(w, [op |-> "login", right |-> right # {},
              jwts |-> {Jwt(u, p) : u \in {v \in right : MaySignIn(v)}}])

\* SlidingWindowRateLimiter.check: pop from the front what left the window,
\* then count.
Stale(dq) == {n \in DOMAIN dq : \A i \in 1 .. n : dq[i] <= now - Window}
Recent(dq) == SubSeq(dq, Cardinality(Stale(dq)) + 1, Len(dq))

\* Mutant: one failure too many.
OverBudgetByOne(dq) == Len(dq) > Budget

OverBudget(dq) == Len(dq) >= Budget

LoginFail(w) ==
    /\ At(w, "login")
    /\ ~work[w].right
    /\ LET dq == Recent(hits) IN
         IF OverBudget(dq)
         THEN hits' = dq /\ UNCHANGED tries
         ELSE hits' = Append(dq, now) /\ tries' = [tries EXCEPT ![now] = @ + 1]
    /\ Done(w)
    /\ UNCHANGED <<row, link, jwt, code, now, taken, crossed>>

\* The password was right: the bucket is cleared, then the row as it was read
\* decides, and the JWT carries the epoch that was read.
LoginPass(w) ==
    /\ At(w, "login")
    /\ work[w].right
    /\ hits' = <<>>
    /\ tries' = [t \in Times |-> 0]
    /\ jwt' = jwt \cup work[w].jwts
    /\ Cardinality(jwt') <= MaxJwts
    /\ Done(w)
    /\ UNCHANGED <<row, link, code, now, taken, crossed>>

-----------------------------------------------------------------------------
(* Google sign-in.                                                         *)

\* The state cookie, the code exchange and the ID token are checked; the
\* handler then looks the address up.
GoogleRead(w) ==
    Begin(w, [op |-> "google", seen |-> {[user |-> u, row |-> row[u]] : u \in Found}])

SubTaken == \E u \in Users : row[u].google

GoogleCreate(w) ==
    /\ At(w, "google")
    /\ work[w].seen = {}
    /\ IF Found # {} \/ SubTaken
       THEN Done(w) /\ UNCHANGED row
       ELSE /\ NextUser \in Users
            /\ row' = [row EXCEPT ![NextUser] =
                         [NoUser EXCEPT !.state = "live", !.verified = TRUE, !.google = TRUE]]
            /\ Serve(w, [op |-> "signed", user |-> NextUser])
    /\ UNCHANGED <<link, jwt, code, hits, now, taken, tries, crossed>>

\* The take-over of a password account writes the epoch that was READ plus
\* one, where every other revocation increments in the database; the ORM
\* writes only the columns that differ from the loaded instance.
TakenOver(u, seen) ==
    [row EXCEPT ![u] = [row[u] EXCEPT !.google = TRUE, !.password = NoPassword,
                                      !.verified = @ \/ ~seen.verified, !.tv = seen.tv + 1]]

GoogleLink(w) ==
    /\ At(w, "google")
    /\ \E s \in work[w].seen :
         /\ ~s.row.google
         /\ s.row.tv < MaxEpoch
         /\ IF \E v \in Users \ {s.user} : row[v].google
            THEN Done(w) /\ UNCHANGED <<row, crossed>>
            ELSE /\ row' = TakenOver(s.user, s.row)
                 /\ crossed' = IF row[s.user].tv = s.row.tv THEN crossed
                               ELSE crossed \cup {s.user}
                 /\ Serve(w, [op |-> "signed", user |-> s.user])
    /\ UNCHANGED <<link, jwt, code, hits, now, taken, tries>>

\* _prune_expired_exchange_codes, then the JWT is stashed under a fresh code.
Stored(j) ==
    [c \in Codes |->
        IF c = CHOOSE d \in Codes : code[d].jwt = {} \/ code[d].due <= now
        THEN [jwt |-> {j}, due |-> now + CodeTtl]
        ELSE IF code[c].due <= now THEN NoCode ELSE code[c]]

Room == \E c \in Codes : code[c].jwt = {} \/ code[c].due <= now

\* A known account: the snapshot is what decides and what the JWT carries.
GoogleKnown(w) ==
    /\ At(w, "google")
    /\ Room
    /\ \E s \in work[w].seen :
         /\ s.row.google
         /\ code' = IF s.row.disabled THEN code
                    ELSE Stored([user |-> s.user, tv |-> s.row.tv, role |-> s.row.role,
                                 password |-> NoPassword])
    /\ Done(w)
    /\ UNCHANGED <<row, link, jwt, hits, now, taken, tries, crossed>>

\* After a sign-up or a take-over the row is refreshed first.
GoogleMint(w) ==
    /\ At(w, "signed")
    /\ Room
    /\ code' = IF row[work[w].user].disabled THEN code
               ELSE Stored(Jwt(work[w].user, NoPassword))
    /\ Done(w)
    /\ UNCHANGED <<row, link, jwt, hits, now, taken, tries, crossed>>

\* _consume_exchange_code pops the entry whatever happens; only the browser
\* that holds the nonce, in time, gets the JWT.
GoogleExchange(c, holdsNonce) ==
    /\ code[c].jwt # {}
    /\ Cardinality(jwt) < MaxJwts
    /\ code' = [code EXCEPT ![c] = NoCode]
    /\ jwt' = IF holdsNonce /\ now <= code[c].due THEN jwt \cup code[c].jwt ELSE jwt
    /\ UNCHANGED <<row, link, work, hits, now, begun, taken, tries, crossed>>

-----------------------------------------------------------------------------
(* What a signed-in user and an administrator change.                      *)

\* get_current_user loads the row; the handler acts on it later.
Authenticate(w, j, request) == Accepted(j) /\ Begin(w, request)

LogoutAuth(w, j) == Authenticate(w, j, [op |-> "logout", user |-> j.user])

Logout(w) ==
    /\ At(w, "logout")
    /\ row[work[w].user].tv < MaxEpoch
    /\ row' = [row EXCEPT ![work[w].user].tv = @ + 1]
    /\ Done(w)
    /\ UNCHANGED <<link, jwt, code, hits, now, taken, tries, crossed>>

SetupAuth(w, j) ==
    /\ ~row[j.user].tenant
    /\ Authenticate(w, j, [op |-> "setup", user |-> j.user])

\* A promotion revokes nothing: the old JWT only claims less.
CpoSetup(w) ==
    /\ At(w, "setup")
    /\ row' = [row EXCEPT ![work[w].user].role = "cpo", ![work[w].user].tenant = TRUE]
    /\ Done(w)
    /\ UNCHANGED <<link, jwt, code, hits, now, taken, tries, crossed>>

\* A Google account re-authenticates by its token alone.
CloseAuth(w, j, p) ==
    /\ row[j.user].google \/ row[j.user].password = p
    /\ Authenticate(w, j, [op |-> "close", user |-> j.user])

\* close_account: the links are deleted and the row becomes a tombstone.
CloseAccount(w) ==
    /\ At(w, "close")
    /\ LET u == work[w].user
           mine == {l \in Links : link[l].state # "none" /\ link[l].user = u} IN
         /\ mine \cap Locked(w) = {}
         /\ row[u].tv < MaxEpoch
         /\ row' = [row EXCEPT ![u].state = "closed", ![u].verified = FALSE,
                               ![u].disabled = TRUE, ![u].password = NoPassword,
                               ![u].google = FALSE, ![u].tv = @ + 1]
         /\ link' = [l \in Links |->
                       IF l \in mine THEN [link[l] EXCEPT !.state = "gone"] ELSE link[l]]
    /\ Done(w)
    /\ UNCHANGED <<jwt, code, hits, now, taken, tries, crossed>>

AdminRead(w, u, req) ==
    /\ row[u].state # "none"
    /\ Begin(w, [op |-> "admin", user |-> u, req |-> req, seen |-> row[u]])

RoleChanged(a) == a.req.role \notin {"keep", a.seen.role}
DisabledChanged(a) ==
    a.req.disabled # "keep" /\ (a.req.disabled = "yes") # a.seen.disabled

\* Mutant: only disabling revokes.
RevokesOnDisable(a) == DisabledChanged(a) /\ a.req.disabled = "yes"

Revokes(a) == RoleChanged(a) \/ (DisabledChanged(a) /\ a.req.disabled = "yes")

\* Mutant: the epoch is incremented on the loaded instance.
AdminUpdateUserStale(w) ==
    /\ At(w, "admin")
    /\ LET a == work[w]
           u == a.user IN
         /\ a.seen.tv < MaxEpoch
         /\ row' = [row EXCEPT
               ![u].role = IF RoleChanged(a) THEN a.req.role ELSE @,
               ![u].disabled = IF DisabledChanged(a) THEN a.req.disabled = "yes" ELSE @,
               ![u].tv = IF Revokes(a) THEN a.seen.tv + 1 ELSE @]
    /\ Done(w)
    /\ UNCHANGED <<link, jwt, code, hits, now, taken, tries, crossed>>

AdminUpdateUser(w) ==
    /\ At(w, "admin")
    /\ LET a == work[w]
           u == a.user IN
         /\ Revokes(a) => row[u].tv < MaxEpoch
         /\ row' = [row EXCEPT
               ![u].role = IF RoleChanged(a) THEN a.req.role ELSE @,
               ![u].disabled = IF DisabledChanged(a) THEN a.req.disabled = "yes" ELSE @,
               ![u].tv = IF Revokes(a) THEN @ + 1 ELSE @]
    /\ Done(w)
    /\ UNCHANGED <<link, jwt, code, hits, now, taken, tries, crossed>>

-----------------------------------------------------------------------------
Tick ==
    /\ now < MaxTime
    /\ now' = now + 1
    /\ UNCHANGED <<row, link, jwt, code, work, hits, begun, taken, tries, crossed>>

\* The process dies: open transactions roll back, memory is empty.
Restart ==
    /\ \E w \in Workers : ~At(w, "idle")
    /\ work' = [w \in Workers |-> Idle]
    /\ code' = [c \in Codes |-> NoCode]
    /\ hits' = <<>>
    /\ tries' = [t \in Times |-> 0]
    /\ UNCHANGED <<row, link, jwt, now, begun, taken, crossed>>

\* The address is free, or its owner registered and has the first link in the
\* mailbox, or verified it and is signed in.
Init ==
    /\ \/ /\ row = [u \in Users |-> NoUser]
          /\ link = [l \in Links |-> NoLink]
          /\ jwt = {}
       \/ \E p \in Passwords, verified \in BOOLEAN :
          /\ row = [u \in Users |->
                      IF u # 1 THEN NoUser
                      ELSE [NoUser EXCEPT !.state = "live", !.password = p,
                                          !.verified = verified,
                                          !.tv = IF verified THEN 1 ELSE 0]]
          /\ link = [l \in Links |->
                       IF l # 1 THEN NoLink
                       ELSE [state |-> IF verified THEN "used" ELSE "live",
                             kind |-> "verify", user |-> 1, due |-> LinkTtl]]
          /\ jwt = IF verified
                   THEN {[user |-> 1, tv |-> 1, role |-> "driver", password |-> NoPassword]}
                   ELSE {}
    /\ code = [c \in Codes |-> NoCode]
    /\ work = [w \in Workers |-> Idle]
    /\ hits = <<>>
    /\ now = 0
    /\ begun = 0
    /\ taken = [l \in Links |-> IF link[l].state = "used" THEN 1 ELSE 0]
    /\ tries = [t \in Times |-> 0]
    /\ crossed = {}

Next ==
    \/ \E w \in Workers :
         \/ \E p \in Passwords : RegisterRead(w, p) \/ LoginRead(w, p)
         \/ RegisterInsert(w) \/ ResendRead(w) \/ ForgotRead(w)
         \/ IssueVoid(w) \/ IssueCommit(w)
         \/ \E l \in Links :
              VerifyRead(w, l) \/ \E p \in Passwords : ResetRead(w, l, p)
         \/ VerifyConsume(w) \/ VerifyMint(w) \/ ResetConsume(w)
         \/ LoginFail(w) \/ LoginPass(w)
         \/ GoogleRead(w) \/ GoogleCreate(w) \/ GoogleLink(w)
         \/ GoogleKnown(w) \/ GoogleMint(w)
         \/ \E j \in jwt :
              \/ LogoutAuth(w, j) \/ SetupAuth(w, j)
              \/ \E p \in Passwords : CloseAuth(w, j, p)
         \/ Logout(w) \/ CpoSetup(w) \/ CloseAccount(w)
         \/ \E u \in Users, req \in AdminRequests : AdminRead(w, u, req)
         \/ AdminUpdateUser(w)
    \/ \E c \in Codes, holdsNonce \in BOOLEAN : GoogleExchange(c, holdsNonce)
    \/ Tick
    \/ Restart

Spec == Init /\ [][Next]_vars

-----------------------------------------------------------------------------
(* Properties                                                              *)

\* Type invariant of the rows, the links, the JWTs and the request states.
TypeOK ==
    /\ row \in [Users -> [state : {"none", "live", "closed"}, verified : BOOLEAN,
                          disabled : BOOLEAN, password : Passwords \cup {NoPassword},
                          tv : 0 .. MaxEpoch, google : BOOLEAN,
                          role : {"driver", "cpo"}, tenant : BOOLEAN]]
    /\ link \in [Links -> [state : {"none", "live", "used", "gone"},
                           kind : {"none", "verify", "reset"},
                           user : 0 .. MaxUsers, due : 0 .. MaxTime + LinkTtl]]
    /\ jwt \subseteq [user : Users, tv : 0 .. MaxEpoch, role : {"driver", "cpo"},
                      password : Passwords \cup {NoPassword}]
    /\ \A w \in Workers : work[w].op \in
         {"idle", "register", "issue", "issued", "verify", "verified", "reset",
          "login", "google", "signed", "logout", "setup", "close", "admin"}
    /\ Cardinality(Found) <= 1
    /\ Len(hits) <= Budget

\* An e-mailed link takes effect at most once, however many copies of the
\* request are in flight (the conditional UPDATE of verify_email and
\* reset_password).
LinksSingleUse == \A l \in Links : taken[l] <= 1

\* A JWT revoked by logout, reset, disabling, a role change or closure is never
\* accepted again, whatever was in flight when it was revoked.  Rows whose
\* Google take-over overwrote a newer epoch are the exception the code has.
RevokedStaysRevoked ==
    [][\A j \in jwt :
          (row[j.user].tv > j.tv /\ j.user \notin crossed') => ~Accepted(j)']_vars

\* Whoever signed in with a password is let in only while it is still the
\* account's password: a reset, a take-over or a closure ends every sign-in
\* made with the old one, a login that was being answered included.
PasswordStillCurrent ==
    \A j \in jwt :
       (Accepted(j) /\ j.password # NoPassword /\ j.user \notin crossed)
          => j.password = row[j.user].password

\* A JWT that is accepted for an open account belongs to a verified address:
\* an unverified sign-up holds no usable credential.
AcceptedIsVerified ==
    \A j \in jwt :
       (Accepted(j) /\ row[j.user].state = "live") => row[j.user].verified

\* An accepted JWT never claims an operator role its account has lost
\* (admin_update_user revokes on a role change).
ClaimedRoleHeld ==
    \A j \in jwt :
       (Accepted(j) /\ j.role = "cpo" /\ j.user \notin crossed) => row[j.user].role = "cpo"

\* The link that was issued last is alive until it is used or the account is
\* closed: neither its own issue nor an overlapping one voids it.
NewestLinkLives ==
    \A l \in Links :
       (link[l].state = "used" /\ taken[l] = 0)
          => \E m \in Links :
                m > l /\ link[m].kind = link[l].kind /\ link[m].user = link[l].user

\* No window of LOGIN_ACCOUNT_RATE_LIMIT holds more wrong passwords answered
\* 401 than the budget, counted since the last successful sign-in or restart.
Tried(after, upto) == SumFunctionOnSet(tries, {t \in Times : after < t /\ t <= upto})
FailureBudget == \A t \in Times : Tried(t - Window, t) <= Budget

\* Links and the login limiter keep their promises under concurrent requests,
\* expiry and restarts: one effect per link, the newest link alive, the budget.
LinksAndBudgetHold == TypeOK /\ LinksSingleUse /\ NewestLinkLives /\ FailureBudget

\* An accepted JWT never says more than the account does: its password, its
\* verified address and its role (get_current_user, require_role).
CredentialsCurrent == PasswordStillCurrent /\ AcceptedIsVerified /\ ClaimedRoleHeld
=============================================================================
