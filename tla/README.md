# AmpHive: a TLA+ verification project

AmpHive is a prepaid EV-charging platform. Drivers keep a coin wallet, start a
session on a smart plug, a gateway reports the metered energy over MQTT, and the
backend settles the session against the wallet. Operators (tenants, "CPOs") earn
what their plugs sold, and draw it out. This directory models the parts of the
program in which money, power and access can go wrong, checks them with TLC and proves
every checked property but the liveness ones with TLAPS.

    tlc -workers 2 -config MCSettlement.cfg MCChargingSessions
    tlapm ChargingSessionsProofs.tla

`PROJECT.json` lists the components, the runs, the source lines behind every
definition, the mutants that show each property can be broken, the hazards and the
theorems.

## 1. Inventory

The system has four planes: the React application, the FastAPI backend on
PostgreSQL (one asyncio process), a Mosquitto broker, and ESP32 gateways that drive
Tapo plugs on the local network. Nearly all state is in PostgreSQL rows; the
backend's handlers interleave at every `await`, and are serialised only where they
take a row lock (`SELECT ... FOR UPDATE`). A handler that reads without a lock, or
goes on after a commit, acts on what may no longer be true. That is where the hard
behaviour is, and what decides how the models cut handlers into actions.

| component | state | operations | interacts with | hard behaviour | what makes it correct |
|---|---|---|---|---|---|
| session start and stop (`services/session_start.py`, `session_lifecycle.py`, `routers/sessions.py`) | `charging_sessions`, `plugs.status` | start, stop, limits, finalize | wallet, caps, MQTT commands, telemetry, reaper | many finalizers of one session; a publish that fails after the commit | settled once, within hold and cost; one session per plug |
| wallet (`services/wallet.py`) | `users.coin_balance`, `ledger_transactions` | credit, clamped debit, available balance | sessions, payments, top-ups | debits that meet an emptier wallet than expected | balance = sum of the ledger, never negative; coins held once |
| telemetry ingest (`services/mqtt/telemetry.py`) | energy, reset offset, last raw reading | persist a frame, decide auto-stops | gateway, finalize, pricing | late, replayed and reordered frames; counters that fall back | never overbilled, billed in full, bill frozen after settlement, due stops happen |
| session reaper (`services/session_reaper.py`) | none of its own | sweep stale and overdue sessions, open bookings, start queued charges, reprice | sessions, bookings, queue, pricing | decides on an older read; restarts between two commits | a silent session is ended; each row is served once |
| safety alarms and maintenance (`services/mqtt/alarms.py`, `routers/cpo/_plugs.py`) | `plugs.status` | cut-off, automatic and manual maintenance | finalize, start | two transactions with a startable plug in between | a plug out of service stays out of service |
| circuit caps (`services/caps.py`) | none (sum over sessions) | admission | start | concurrent starts on one circuit | load within the line's capacity |
| account closure (`services/account_closure.py`) | `users.deleted_at` | check, forfeit, tombstone | start, wallet, tokens | unlocked check | the wallet stays reconciled, tokens die |
| payments (`services/payments.py`, `routers/payments.py`) | ledger rows with a UNIQUE gateway id | verify, webhook, refund webhook | Razorpay (external), wallet | the same event by two routes, repeated, out of order; crashes | credited once, clawed back once, nothing lost |
| payouts, disputes, offline top-ups (`services/payouts.py`, `routers/cpo/_payouts.py`, `_disputes.py`, `_topups.py`) | `payouts`, `settled_payout_id`, disputes, `offline_topups` | request, cancel, mark paid, approve, reject, top up | sessions, wallet, invoices | ownership for earnings, time windows for the rest; one endpoint without the tenant lock | payouts foot; nothing drawn twice |
| invoices (`services/invoices.py`) | number series in the tenant row, invoices | issue on first request, adjust | disputes, payouts | concurrent first requests; a dispute while one is issued | gap-free numbering, amount = what was kept |
| gateway metering (`firmware/main`) | integrator and its NVS copy, offline ring | poll, disconnect, reconnect and drain, reboot | broker, telemetry ingest | QoS 0, ring overflow, set-back after a reboot, below the session's baseline too | with ingest: the bill equals what the readings show, and these miss little |
| reservations (`services/reservations.py`, `routers/reservations.py`) | `reservations` | book, cancel, expire, gate, fulfil, open | start, reaper, listings | gate, commit and undo in three transactions | no collision, holder served, terminal states final |
| queued charges (`routers/sessions.py`, `session_reaper.py`) | `queued_charges` | queue, cancel, expire, start | start, power columns | the sweep releases its lock before it marks the row | one start per row, cancel sticks, every row ends |
| gateway link (`services/mqtt/status.py`, `commands.py`, `connection.py`) | `gateways.status`, pending notice | online, offline, notice, OFF sweep | sessions, queue, relay | coroutines of one gateway overlap; snapshots used after an `await` | status follows, told once and truly, orphans off, sessions spared |
| pricing (`services/pricing.py`, `billing.py`, `routers/cpo/_tariffs.py`) | tariffs, slots, assignments, rate segments | resolve, reprice, edit, show | start, telemetry, reaper | slot edges, gaps, edits during a start, two repricers | the price in force, past energy untouched, hold suffices, shown = charged |
| watches, capacity requests, groups, feed (`services/plug_watch.py`, `capacity.py`, `notifications.py`, `routers/groups.py`) | `plug_watches`, `capacity_requests`, memberships, notifications, push subscriptions | arm, drop, fan out, join, leave, read | finalize, maintenance, caps | fan-outs cut by `await` overlap each other and the arming | who waits is told, once |
| accounts (`routers/auth.py`, `services/auth.py`, `rate_limit.py`, `routers/admin.py`) | users, links, token epochs, exchange codes, limiter windows | register, verify, reset, sign in, log out, close, administer | closure, operator setup | handlers decide on rows read before an `await` | single use, revoked stays revoked, credentials current |
| everything else | | | | | listed as `not_modelled` in `PROJECT.json` with the reason |

The hazards behind this table are listed one by one, at their lines, in
`PROJECT.json`.

## 2. The modules

| module | models | theorems |
|---|---|---|
| `ChargingSessions` | wallet, start, publish and its undo, telemetry, limits, stops, finalize, reaper, alarms, maintenance, caps, closure | `ChargingSessionsProofs` |
| `Payments` | gateway events, `/verify`, webhook, refund claw-back, crashes | `PaymentsPricingProofs` |
| `Payouts` | sessions' earnings, disputes, payouts, offline top-ups of one tenant | `PayoutsProofs` |
| `Invoices` | `Payouts` composed with the issue and adjustment of invoices | `PayoutsProofs` |
| `InvoiceRegister` | abstract: the numbering `Invoices` implements | `PayoutsProofs` |
| `Metering` | gateway meter, offline ring, topic, counter-reset logic of one session | `GatewayProofs` |
| `Reservations` | bookings, starts they gate, the window-opening sweep, one plug | `ReservationsProofs` |
| `QueuedCharges` | queued charges and the sweep that starts them | `QueuedChargesProofs` |
| `GatewayLink` | status, telemetry, offline notice and OFF commands of one gateway | `GatewayProofs` |
| `Pricing` | tariffs, slots, repricing and displayed prices of one plug | `PaymentsPricingProofs` |
| `Accounts` | sign-in, links, tokens and their revocation for one address | `AccountsNoticesProofs` |
| `Notices` | watches, capacity requests, fan-outs, groups, feed and push | `AccountsNoticesProofs` |
| `SumTheorems` | no code: lemmas about sums over finite sets, for the proofs | `SumTheorems` |
| `MC...` | small instances of the above for TLC | |

A proof module may hold the proofs of two components that share no state; the two parts
are then independent of each other, and each has its own inductive invariant.

The modules meet at the wallet, at the session and at the plug. `ChargingSessions`
turns metered energy into a debit (`Metering` says how the energy gets there, `Pricing`
what a unit of it costs), `Payments` fills the wallet, `Payouts` draws out what finished
sessions paid, `Reservations` and `QueuedCharges` say who may start and when, `Notices`
what the end of a session sets off, `GatewayLink` whether the relay follows. Each
abstracts its neighbours to one action: `Credit` and `ClawBack` stand in
`ChargingSessions` for `Payments`, `Spend` in `Payments` for a settlement, `Finish`
in `Payouts` for the commit of `finalize_charging_session`, `StartSession` and
`FinalizeSession` in `Notices` for a session.

**Granularity.** An action is one database transaction, or one step of a handler
between two awaits. Where the code holds a row lock from its first read to the
commit the transaction is one action. Otherwise the handler is split, and what it
carries over is state.

**Exceptions in properties.** Where the code is known to lose a race (section 4), the
property names the exact circumstance with a history variable and is checked for
everything else: a row marked `restored`, `contended`, `torn`, `crossed`, `doubled`,
`mixed`, `lost`, `shared` or `stale` is excepted, nothing more. History variables are read by no guard.

**Mutants.** An operator under a comment "Mutant" is a plausible bug in the definition
that follows it; no specification uses it. A conjunction has a mutant for each of its
parts.

### ChargingSessions

| state | code |
|---|---|
| `balance`, `net` | `users.coin_balance`; the sum of the user's ledger rows |
| `closing`, `closed` | `close_account` past `assert_closable`; `deleted_at` |
| `plugStatus` | `plugs.status` |
| `clearing` | maintenance clear that has counted no ACTIVE session |
| `cutoff` | the alarm handler: session to finalize, then `_auto_enter_maintenance` |
| `sess`, `debits` | `charging_sessions` rows; their SESSION_DEBIT ledger rows |
| `publishing` | committed ACTIVE, ON publish in flight |
| `silent`, `overdue`, `doomed` | stale telemetry; past the duration limit; chosen by a handler for a finalize it has not locked yet |

`StartSession` is `start_charging_session` with `begin_active_session` up to the
commit, `PublishSucceeds` and `PublishFails` what follows the publish.
`TelemetryFrame` is `_persist_telemetry` with the decisions of
`_maybe_auto_stop_on_exhaustion` and `_maybe_auto_stop_on_limits`; `AutoStop`,
`StopSession`, `CutoffSettle` and the reaper all end in `Finalize`, the whole of
`finalize_charging_session`: cost, hold and wallet cap, debit, ledger row, status, plug
freed. `Events` selects what the environment does, so that a run can ask about one
hazard at a time.

### Payments

A handler is in one of the steps check, write, answer; the steps between are where
another handler may commit. `Insert` is the UNIQUE constraint. The gateway (external)
repeats an event until it is answered and may repeat it after that. `Crash` ends a
handler between two steps.

### Payouts, Invoices, InvoiceRegister

Requests, resolutions and top-ups lock the tenant; `CancelPayout` and `MarkPaid` lock
the payout row only. All but the top-up are one action. The top-up is four: its
transaction begins (which is what `created_at` records), it locks the tenant and
reads the watermark, reads it again, and issues; whatever takes no lock, or waits for
it, may commit in between. One clock is read by all; every stamp is distinct.

`Invoices` adds the first request for an invoice as check, lock and commit, and the
adjustment that `cpo_resolve_dispute` makes in the approval's own transaction
(`TenantStep` conjoins it to the step of `Payouts`). `InvoiceRegister` is what the
numbering promises: a sequence of sessions that only grows, by one entry, with no session
twice. `Invoices` implements it under the mapping that reads the register off the
invoice rows: entry n is the session whose invoice has number n.

### Metering

One session. `meter` is the plug's lifetime meter less the baseline that the ON handler
took from it. The gateway saves it every `PersistEvery` units, but not at ON, and a reboot
returns to the save, so it may fall below 0; the session's reading is clamped there
(`SessionKwh`). Readings go to the topic or, without a connection, into a ring
of `RingSize` that overwrites its oldest. `mqtt_connected` is set before the ring is
drained, so live and replayed frames mix. Frames get lost, and their handlers overtake
each other. `Persist` is the counter-reset logic under the session's row lock. Energy
comes in units larger than `ENERGY_COUNTER_RESET_DROP_KWH`. History: `delivered` is what
the integrator accrued, `counted` by how much the readings rose; `mixed` and `masked` mark
the cases of section 4.

### Reservations

A start is gate, commit, publish: `StartGate` reads the clock and the covering booking
under the user and plug locks, `StartCommit` claims the plug and fulfils the booking by
its id, `PublishFails` undoes both with no lock held. A cancellation locks the
reservation only. Lapsed bookings expire when somebody reads them, so every listing is
an action. The sweep stamps an opened window, stops a stranger's session, and nudges the
holder, each in a step of its own; `Restart` loses whatever is in flight.

### QueuedCharges

A queue request counts, then inserts. The sweep takes the rows it has scanned one by
one: it re-reads a row under its lock and skips, expires, fails or begins it; the commit
of the session releases the lock, and marking the row comes after the publish. Power of a
plug is dark, fresh (in the debounce) or steady.

### GatewayLink

`wire` delivers in order; each status message starts a coroutine, which reads the row,
writes it, arms or cancels the notice, and sweeps, interleaved with the others. A frame
starts one for its session, and one that writes the row only if none did in the last
minute (`window`, `_should_bump_gateway_seen`). Retained
messages are replayed to a backend that reconnects; a restart loses the coroutines and
the notice. A command reaches the relay if the link is up and is lost otherwise.
Telemetry repeats the relay's state, which is how a lost OFF is noticed (`Reconcile`).

### Pricing

Slot resolution, inheritance (plug, group, tenant default), the highest rate over a
window and the displayed price are operators; edits, starts, frames, the reaper and
restarts are actions. A day has `DayLen` minutes and a week `WeekLen` days. `owed` is the
reference: each unit of energy at the rate the session had when it was metered. Starting
is resolve, then commit, so an edit can come between. A frame carries the raw reading:
`LiveCost` prices that, with the default rate when the plug is not tracked, and `Metered`
banks a drop and never lowers the billed energy. A frame commits, and its handler tells
the live-cost mirror later (`push`, `TellMirror`); `skew` notes why a mirror need not be
the session's.

### Accounts

Every request runs in a worker; a handler is cut at its awaits and decides on the row it
read. `tv` is `token_version`, `jwt` the tokens ever handed out, `link` both e-mailed
token tables, `hits` the failed-login limiter. The password a token was obtained with is
recorded in it as history.

### Notices

A request is cut between its checks and its insert. A fan-out reads the waiting rows
(and the load), notifies, pushes and deletes in steps; two may overlap, statements fail,
and the process restarts. `owed` marks the rows a committed change should answer.

## 3. The runs

Times are for two workers.

| run | configuration | states | properties |
|---|---|---|---|
| `settlement` | `MCSettlement` | 1.4 M, 50 s | `TypeOK`, `ChargedOnceWithinHold`, `ActiveCap`, `WalletReconciled`, `BillFrozen`, `LimitsNeverForgive` |
| `sharing` | `MCSharing` | 0.72 M, 30 s | `PlugExclusive`, `CircuitWithinCapacity`, `StartCovered` |
| `session_liveness` | `MCSessionLiveness` | 106 k, 46 s | `DueSessionsEnd` |
| `payments` | `MCPayments` | 180 k, 97 s | `MovedOnce`, `LedgerSound`, `EventsTakeEffect` |
| `payouts` | `MCInvoices` | 2.2 M, 81 s | `PayoutsConsistent`, `PayoutsFoot`, `NeverDrawnTwice`, `InvoicesConsistent`, `RegisterSpec` |
| `metering` | `MCMetering` | 4.2 M, 90 s | `MeteredWithinEnergy`, `BilledInFull` |
| `reservations` | `MCReservations` | 5.4 M, 125 s | `BookingsConsistent`, `ReadyMeansFree`, `SettlesOnce` |
| `queued_charges` | `MCQueuedCharges` | 0.85 M, 110 s | `QueueConsistent`, `CancelSticks`, `QueueDrains` |
| `gateway_link` | `MCGatewayLink` | 0.82 M, 90 s | `LinkConsistent`, `ToldOnceTruly`, `SparesRunning`, `OrphanSwitchedOff` |
| `pricing` | `MCPricing` | 0.56 M, 75 s | `ChargesThePrice`, `SegmentsBilledWithinHold`, `DisplayIsTrue`, `LiveCostFollows` |
| `accounts` | `MCAccounts` | 2.0 M, 65 s | `LinksAndBudgetHold`, `CredentialsCurrent`, `RevokedStaysRevoked` |
| `notices` | `MCNotices` | 1.3 M, 135 s | `AnsweredOnce`, `OwedIsPaid` |

All runs pass. `RegisterSpec` is the refinement of `InvoiceRegister`;
`DueSessionsEnd`, `EventsTakeEffect`, `QueueDrains`, `OrphanSwitchedOff` and `OwedIsPaid`
are liveness properties; `BillFrozen`, `LimitsNeverForgive`, `StartCovered`,
`SettlesOnce`, `CancelSticks`, `ToldOnceTruly`, `SparesRunning` and
`RevokedStaysRevoked` say what a step may never do.

**Bounds, and why they are enough.**
`MCSettlement` has one driver, one plug and two sessions one after the other, since a
settlement can only be disturbed by another handler of the same session, the same
wallet or the next session on the plug; amounts of 1 and 2 coins against energy up to
2 let a hold be short, exact and generous. Its events leave out the cutoff alarms, which
`MCSharing` has; the theorems about its properties hold with all of them. `MCSharing` has two drivers of two sessions,
a circuit of two plugs that admits one, and a plug outside, so every pair of starts
that can compete does. `MCPayments` has two payments, two partial refunds of one of
them, two concurrent handlers and one crash: the lookup-then-insert race needs two.
`MCInvoices` has two sessions, two top-ups, two payouts and two issuers, enough to
request, cancel and request again with a refund and a top-up on either side, for one
top-up to be counted against the pool of the next, and for two first requests to race; a fee of 10 % of 10 coins makes rounding visible. `MCMetering` lets the
ring (2) overflow, the meter be set back, above and below the baseline, and three frames
be in flight, two of them in either order. `MCReservations` offers windows that abut, overlap and contain each other
to two drivers with a cap of one. It has two sessions, too few for two strangers on one
plug and the holder besides (`shared`, section 4); the proof has any number. `MCQueuedCharges` has one driver with two requests in
flight and two plugs, a cap of one on the queue and on sessions, and one restart.
`MCGatewayLink` has two coroutines, the smallest number that can overlap (a frame outside
the window takes both), and two environment events beyond the retained replay. `MCPricing` has days of two minutes,
weeks of two days, and slots that overlap, leave gaps and end before they start; the clock
reaches the second day, and `DisplayIsTrue` looks a day further. Its constraint
(`OneOrTheOther`) takes one session of up to 2 kWh and an edit at any point, or two sessions
of 1 kWh, one after the other, and no edit, as slots change the rate; each has a frame in
flight, which the reaper or the next session can overtake. The proof has any number. `MCAccounts` serves five requests, two at a time, on
two rows of one address. `MCNotices` has two drivers, two plugs on a circuit for one, any
initial occupancy, two overlapping fan-outs and four events. Deadlock checking is off
where a clock, an energy or an event budget reaches its bound and the model stops.

**Symmetry** is used in safety runs only: drivers, sessions and plugs in
`ChargingSessions`, drivers in `Reservations`, sessions and issuers in `Invoices`, workers
and passwords in `Accounts`.

**Fairness.** In `ChargingSessions`, weak fairness of: the reaper's sweep (a loop with
a sleep), the return of a publish (it has a timeout), an auto-stop that was scheduled,
and, for a running session, either a frame or the passing of the stale cutoff, one of
which time brings about. In `Payments`, weak fairness of a handler's next step and strong
fairness of the redelivery of an unanswered event: the gateway keeps retrying, and the
number of handlers at once is a bound of the model and not of the server. In
`QueuedCharges`, weak fairness of the reaper's sweep and of the passing of `expires_at`.
In `GatewayLink`, weak fairness of the event loop (delivery and every coroutine's next
step), and strong fairness of a connected gateway's reports, which the firmware sends
every few seconds. In `Notices`, weak fairness of a fan-out's next step, so that
each await returns; the web push call is the one without a timeout of its own
(`services/notifications.py:250`), and `OwedIsPaid` relies on the push service answering or
the connection failing. Nothing is
assumed of drivers, operators, power or the network.

## 4. Races the models show and the code accepts or overlooks

Each of these is reachable in the models. The properties of the passing runs except
exactly the case described; everything around it is checked. Where a comment of the code
promises that the case cannot happen, it is quoted.

Sessions and plugs
- The undo of a failed ON publish (`services/session_start.py:249`) writes rows it no
  longer holds locked: if the session was stopped and the plug claimed again meanwhile,
  the plug is freed under the new session. `PlugExclusive` is therefore checked and proved
  without failing publishes and operator status writes; billing stays right with them.
- A cut-off settles the session and takes the plug out of service in two transactions
  (`services/mqtt/alarms.py:411`). A session started in between keeps running and frees the
  plug when it ends, although the comment at line 397 says the flip "can't be
  raced/overwritten". `PlugExclusive` holds all the same: nobody else gets on the plug.
- `assert_closable` counts ACTIVE sessions before any lock
  (`services/account_closure.py:105`), so a closed account can be left charging.
- `StartCovered` is about starts on purpose. A later limits edit floors the hold at the
  accrued cost, which can lift a driver's holds together above the balance, although
  `services/wallet.py:102` says that "two sessions can never reserve the same coins".

Bookings and queue
- A booking cancelled between the gate and the commit of the start it covers is
  overwritten with FULFILLED (`services/session_start.py:215`); `routers/reservations.py:329`
  says a cancel racing a start "settles exactly once".
- A failed publish gives a window back that was bookable while the command was in flight:
  two bookings overlap, or the driver is past the cap.
- The same undo frees the plug while another session is on it, so that two strangers can
  be charging when a window opens. The sweep selects one of them
  (`services/session_reaper.py:430`, `.limit(1)`); the other keeps the plug.
- The start's gate reads the clock before the commit: a walk-up start that passed the gate
  before the window opened and commits after the sweep claimed it is seen by no sweep. This
  is the late commit that `ReadyMeansFree` excepts; a walk-up that was charging when the
  sweep claimed the window is not excepted.
- The sweep stamps a booking before it stops the walk-up and nudges the holder
  (`services/session_reaper.py:422`); no later sweep takes a stamped row. A restart in
  between leaves the holder untold and the walk-up charging, although line 360 says that
  each fires "exactly once [...] across a restart".
- A cancellation accepted while the sweep publishes the start of a queued charge is
  overwritten (`services/session_reaper.py:772`), although `routers/sessions.py:921` promises a 409, and a
  restart in that window starts the
  charge twice. The queue's cap is counted without a lock (`routers/sessions.py:800`).

Money
- A refund event handled before its payment's credit has committed is acknowledged as
  unknown and never seen again (`routers/payments.py:411`); the coins stay.
- `refund.created` is clawed back, and no handler gives the coins back if the refund then
  fails at the gateway.
- A top-up is stamped when its transaction begins, before it waits for the tenant lock
  (`database/models.py:1076`). If a payout is requested meanwhile, the stamp is in a closed
  window and the top-up is never deducted. A cancellation, which does not lock the tenant,
  can commit between the two reads of a top-up's pool (`services/payouts.py:419`): the
  pool is then summed from a watermark that no longer holds. Only after one of the two
  can the same earnings be drawn out twice, although `services/payouts.py:142` says that a
  CPO "can never draw the same earnings out twice".

Metering and prices
- A reading buffered before a reboot and replayed after the first live frame of the new
  boot is added to an offset that already contains it (`services/mqtt/telemetry.py:564`).
  Two live frames persisted in the other order look like a reset. These are `mixed`: a
  reboot with readings in the ring, and a frame persisted before a live one, or one of
  another boot, that was published earlier.
- The backend sees a set-back only as a drop between two live readings. What the reading
  rose by after the last live one before a reboot, or before the first live one after it,
  is not in the drop and is not billed. This is `masked`; `NeverOverbilled` holds all the same.
- A reboot before the first save of a session sets the meter back below the baseline, and
  what flows until it is back there is reported as 0 (`firmware/main/main.c:2083`).
  `CrashLossBounded` is what `firmware/main/tapo_protocol.c:66` promises of it: less than
  the threshold, for each reboot.
- An edit that commits while a session is starting misses it, and a re-assignment of a
  tariff does not mark running sessions.
- The live-cost mirror is left behind by a reprice of the reaper, by a late
  `start_session` and by a frame's handler that tells it after a newer one or after the end
  of its session; it stays behind until a frame changes the rate. A restart, or
  `end_session` of the plug's previous session, empties it, and the next frame is streamed
  at `COINS_PER_KWH`. After a counter reset the stream shows less than the bill, which has
  the banked offset. The bill is computed from the row in every case.

Gateway link
- The OFF sweep awaits the queued-charge query between its snapshot and the publishes
  (`services/mqtt/status.py:420`), although line 443 says there is no await; a session
  started meanwhile is switched off.
- Status handlers read the row without a lock; an offline and an online message within a
  moment of each other can lose one update until the next status message, or the next frame
  outside the 60-second window, is handled alone (`torn`). Up to a minute long, frames that
  prove the gateway alive leave it stored OFFLINE.
- Status messages do not stamp `last_seen_at`, and the silence sweep
  (`services/session_reaper.py:804`) reports a silent gateway once; one that reconnects
  without telemetry is pushed as reachable and not reported again. (Read from the code;
  the sweep is not modelled.)

Accounts and notices
- Two overlapping forgot-password requests leave two live links.
- The Google take-over writes the `token_version` it read plus one
  (`routers/auth.py:901`); a bump committed in between is lost.
- A membership has no unique key: a join sent twice lists the plugs and makes every
  single-plug lookup raise.
- Overlapping fan-outs, a failed delete or a crash tell a driver twice; a watch armed
  between the availability check and the fan-out waits for the next change; clearing a
  circuit's capacity, and setting a plug AVAILABLE by `cpo_update_plug`, tell nobody.
- A driver told by a fan-out who watches the plug again before that fan-out has deleted its
  rows is answered "watching" and keeps the old row, which is then deleted, although
  `services/plug_watch.py:70` says that a watch armed meanwhile survives. `AnsweredOnce` is
  about rows and does not see it.

## 5. What is proved

Every theorem holds for all values of the constants, under the assumptions named in the
modules (`ConstantsAssumption` in `ChargingSessions`, `<Module>Assumption` in the others):
finite sets, natural amounts and bounds, well-typed maps, distinct markers for "none",
and where a choice must exist a set that is not empty. TLC evaluates them on every run. The proofs use no bound of a run: any number of drivers,
plugs, sessions, bookings, handlers and restarts.

A safety property is proved from an inductive invariant: the initial states satisfy
it, every step preserves it, it implies the property. Where a module has many actions, the proof first sorts the steps
into a few kinds by what they write (`Kinds`, `RowsMove`, `SessionsMove`), one case per
action, and then shows that each kind preserves each conjunct.

**SumTheorems.** The models compute every total with the library's sum over a finite set,
a recursive function. The lemmas (a new member adds its value, a changed value changes the
sum by the difference, larger values have a larger sum, disjoint sets add up) are shown by
taking a least counterexample (`LeastNumber`, `LeastSubset`), which needs no induction
over an operator.

**ChargingSessions.** `TypeCorrect` needs `PublishingHasRow` besides `TypeOK`: the undo
of a publish writes into a row, so there must be one. `ChargedOnceWithinHoldHolds`
combines `SettledOnceHolds` and `NeverOverchargedHolds`, which rest on one inductive
invariant that ties the debit rows of a session to its status: no row while it is ACTIVE,
one row of the amount on the receipt once it is COMPLETED; `Finalize` re-reads the status
under the lock and can therefore not add a second. From it follow `BillFrozenHolds` and
`LimitsNeverForgiveHolds`, which are action properties. `WalletReconciledHolds` needs only
that every writer of a balance writes its ledger row in the same transaction.
`ActiveCapHolds` counts ACTIVE rows with the cardinality theorems: a start adds one under
the user lock, nothing else adds any. `StartCoveredHolds`: at every start the balance
covers the sum of the driver's holds, the new one included. `PlugExclusiveHolds` and
`CircuitWithinCapacityHolds` are stated for environments without failing publishes and without operator status writes (`Undisturbed`); section 4
says why. The second follows the sum of the loads through starts and stops: at most one
session is on a plug, so a stop takes off what that start put on.

**Payments.** `MovedOnceHolds`, from `CreditedOnceHolds` and `ClawedBackOnceHolds`.
Neither is inductive: a handler about to write must be known to write for a captured
payment, or for a refund whose payment is in the ledger (`TasksJustified`).
`LedgerSoundHolds`: a balance is what its ledger rows post, through every order of
credits, claw-backs and crashes.

**Payouts.** `PayoutsConsistentHolds`, from `ClaimsAreLiveHolds`, `OnePendingHolds` and
`WindowsTileHolds`, with every overlap allowed: the ones that break the money properties do
not break these. The three need each other when a payout is cancelled: the pending one is
the newest live one (`OnePending`), its window began at the mark of those before it
(`Tiled`), so the watermark falls back to exactly that point. The maximum that the code's
MAX query computes is replaced by an explicit mark (`IsMark`), because the existence of a
maximum is itself part of the induction. `PayoutsFootHolds` adds the clock (`Stamped`):
whatever is stamped later lies outside a closed window, so the amounts a payout was
computed from stay what they were. `NeverDrawnTwiceHolds` adds up the live windows one by
one (`UpToCovered`): unless a top-up was overtaken as section 4 describes, bank payouts
and top-ups together stay within what the sessions earned. `RefundsWithinCostHolds` says
that the disputes of a session never refund more than it cost.

**Invoices.** `ImplementsPayouts`: every behaviour of the composition is one of `Payouts`,
so the theorems about payouts hold of it (`InvoicedPayouts`). `InvoicesConsistentHolds`
from `Retained`: the amount retained on an invoice follows the refunds because an approval
writes both. `RegisterSpecHolds` is the refinement of `InvoiceRegister`; it rests on
`Numbering`: the numbers given out are 1 to `seq - 1`, each to one session, and at most one
request holds the counter, with the number it read still the next.

**Reservations.** `BookingsConsistentHolds`, `ReadyMeansFreeHolds` and
`SettlesOnceHolds`. `Links` ties a start in flight to the session and the booking it will
write, `Gated` says what the gate's read of the clock implies later, `Marked` that of two
ACTIVE sessions the later one is marked `shared`, and `Cleared` that once the sweep has
called a window ready no stranger is left on the plug but a late commit; while it is about
to stop one, the only stranger there is its victim (`ClaimFindsStranger`).

**QueuedCharges.** `QueueConsistentHolds` and `CancelSticksHolds`. `Links` says that rows,
sessions and the sweep point at each other: the session being published belongs to the row
the sweep will mark. `CapCounted` says that a request in flight has seen room for its row
among those that were not contended; `StartsCounted` that a row has one session more than
there were restarts, at most, and not even that while it waits.

**GatewayLink.** `LinkConsistentHolds`, `ToldOnceTrulyHolds` and `SparesRunningHolds`, for
any number of overlapping coroutines. `Chain` is the broker's promise the rest needs: a
frame never follows an offline message without an online one in between, and the last
status message on the way is what the gateway is. `Chain` is also why a frame inside the
window may leave the row alone: it repeats what the message before it said. `Alone` says
what the row is while a single handler runs, `Pending` what an armed notice means, and
`Snapshots` that an OFF sweep's snapshot misses only the sessions begun after it.

**Metering.** `MeteredWithinEnergyHolds` and `BilledInFullHolds`, for any ring size, any
number of frames in flight, losses and reboots. What makes them hard is that neither the
offset nor the last raw reading says which boot a frame came from. `MeterInv` supplies it:
there is a lag for every boot, by how much its readings fall short of the energy counted,
and a boot the backend has heard of last. A reading plus the lag of its boot is a total;
the totals of live readings never fall and none exceeds the energy counted (`Ordered`),
which bounds the bill. While nothing is lost or masked, a boot begins with the total at
which the one before it ended (`Continuous`), so the drop that the backend banks is the
difference of two lags, and the bill is complete. A reboot extends the lags by one: the lag
before it plus what the reading was set back by. `LossBounded` adds to the energy that no
reading showed the depth of the meter below the baseline: a poll keeps the sum, and a
reboot adds less than the threshold, because a save is never further below.

**Pricing.** `ChargesThePriceHolds`, `SegmentsBilledWithinHoldHolds` and
`DisplayIsTrueHolds` and `LiveCostFollowsHolds`, for every set of slots, every price and
every length of the day and the week. The first half is about the operators. `DivUnique`, `Within` and `WeekRound`
give the calendar; `SlotsSteady` shows that the rate is the same from an instant up to the
boundary `_slot_rate_and_bound` returns for it, in a slot, in a gap, in a gap before the
next slot-bearing day and with no slot at all, overlapping slots included; `HoldCovers`
that `max_rate_over_window` is exceeded nowhere in the window. The second half is the
inductive invariant `PricingInv`. A row that is not `lost` charges the rate of every
instant from now until it falls due (`Ahead`): this survives time, a reprice, and the
reaper's reprice at an instant captured earlier, because the window found there reaches
past now or has fallen due again. `Balanced` says that closed segments and the open one
add up to what was metered at the rates of the time. `HeldFrom` says that no rate of the
session's window exceeds the hold's, also from the reaper's instant on. `Carried` says that
what a frame's handler carries is the segment of the row or has been overtaken, and
`Mirrored` that a mirror not noted as lost, left behind or overwritten late is the segment
of the session, unless the handler that changed the rate has yet to tell it. The streamed
cost then differs from the bill by the energy alone: the reading never exceeds the billed
energy, and is it while the offset is 0. The displayed price
follows from `SlotsSteady`, and the three ways of resolving it agree because no link
dangles (`PickIs`).

**Accounts.** `CredentialsCurrentHolds`, `LinksAndBudgetHolds` and
`RevokedStaysRevokedHolds`. A JWT is stored nowhere, so `AccountsInv` is about what is
known of a row and cannot be undone: a row only moves `Onward` (a proved address stays
proved, the epoch rises with every change of the password and when a role is lost), but
for a row that is `crossed`. A JWT already handed out, one under an exchange code, one a
worker is about to hand out, and what a Google sign-in read of a row are each sound when
made, and stay so under `Onward`. An issued link keeps its owner (`Owned`, `LinksOnward`)
and is taken under its row lock. The limiter drops expired stamps from the front of its
deque only; `Counted` says that whichever prefix of it lies outside a window, the failures
inside are at most the rest, for every window that has not closed.

**Notices.** `AnsweredOnceHolds`. The rows a fan-out has in hand and
the rows it has still to tell are read off its stage (`Hand`, `Left`), whether it is
notifying or in the middle of a push. A row not marked `doubled` is in one hand at most
(`OneHand`), leaves `Left` when it is told (`ToldLeaves`) and stays in that hand while it
is armed (`ToldInHand`), so no second fan-out can pick it up; and a fan-out deletes what
it told, because its hand holds the rows it read and no others (`HandsSound`). Every
step is one of a few kinds by what it does to hands and rows (`NoticesMoved`).

**Only model-checked.** The liveness properties `DueSessionsEnd`, `EventsTakeEffect`,
`QueueDrains`, `OrphanSwitchedOff` and `OwedIsPaid`: fairness and ENABLED are out of the
prover's reach. Every other property of a run is also a theorem.

## 6. Simplifications

- Plugs start AVAILABLE; commissioning is left out. In `ChargingSessions` the circuit's
  capacity and membership are constant.
- A session has one rate in `ChargingSessions`; `Pricing` has the segments.
- In `ChargingSessions`, bookings and gateway liveness can only refuse a start and are left
  out of its guard; `Reservations` and `QueuedCharges` have them.
- Coins and energy are integers; `to_money`'s rounding is modelled where it matters, in
  the platform fee.
- Outside `Notices`, notifications, audit rows, emails and Socket.io events follow commits,
  swallow their errors and change nothing that is modelled.
- In `GatewayLink`, connecting is one step: the firmware sets `mqtt_connected` right before
  it publishes `online`, and a frame of another task would have to come in between. An
  offline notice always waits; with a delay of 0 (`services/mqtt/status.py:158`) it would go
  out with the status. That the ON of a queued charge is published to a gateway stored
  OFFLINE is modelled; the driver's own start is then refused by `gateway_is_live`.
- In `Accounts`, a request for a link that waited for another's row lock voids the other's
  new link; under PostgreSQL the waiting UPDATE works on the rows of its snapshot
  (`routers/auth.py:1077`) and leaves that one live too, the case of section 4. `CpoSetup`
  writes the role although the ORM writes a changed column only
  (`routers/cpo/_profile.py:71`). No property depends on either.
- In `Notices`, the feed and the push subscriptions are kept because the fan-out's steps
  write them and can fail there; no property is about their contents.
- Passwords, tokens and codes are model values; a hash check succeeds for the value the
  hash was made from and for no other.

## 7. Not modelled

- The Socket.io rooms and streams, telemetry history and analytics: display data; nothing
  is billed or switched from it.
- The silent-gateway sweep and reminder notices of the reaper: they only notify.
- Firmware releases and OTA, KLAP, Wi-Fi and provisioning: device I/O whose outcome depends
  on the bootloader and the network stack.
- The order in which transactions take several row locks, and so PostgreSQL deadlocks: a
  transaction is one action here. The code documents one order (tenant, dispute, session,
  user) at `routers/cpo/_disputes.py`.
- The web application, the site agent, migrations and tools.

## 8. Plan

1. A lock-order argument that no two transactions deadlock.
2. The silent-gateway sweep in `GatewayLink`, with `last_seen_at`.
3. The circuit's capacity and membership as variables of `ChargingSessions`, which
   `Notices` already changes.
