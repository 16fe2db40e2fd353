------------------------------ MODULE Pricing ------------------------------
(***************************************************************************)
(* Tariffs with time-of-day slots and the billing of sessions that run     *)
(* across price changes: services/pricing.py, services/billing.py,         *)
(* routers/cpo/_tariffs.py, the reprice hooks of the telemetry handler and *)
(* of the reaper, and the live-cost mirror of services/telemetry.py.       *)
(*                                                                         *)
(* One plug of one tenant.  Time is local wall-clock minutes since a       *)
(* Monday midnight; a day has DayLen minutes and a week WeekLen days.      *)
(* Energy is whole kWh and prices are whole coins.                         *)
(***************************************************************************)
EXTENDS Integers, Sequences, FiniteSets, FiniteSetsExt

CONSTANTS
    Tariffs,       \* tariff ids
    NoTariff,      \* an unassigned tariff link
    MaxSessions,   \* bound: sessions, one after the other on the plug
    Prices,        \* coins per kWh an operator may enter
    DefaultRate,   \* COINS_PER_KWH
    Offered,       \* the slots an operator may enter
    DayLen,        \* minutes of a day: 1440
    WeekLen,       \* days of a week: 7
    Durations,     \* max_duration of a start, in minutes; 0 for none
    MaxSlots,      \* bound: slots of a tariff
    MaxEdits,      \* bound: pricing edits
    MaxTime,       \* bound: the clock
    MaxInFlight,   \* bound: committed frames that have not yet told the mirror
    MaxEnergy      \* bound: kWh of a session

ASSUME PricingAssumption ==
    /\ DayLen \in Nat \ {0} /\ WeekLen \in Nat \ {0}
    /\ Prices \subseteq Nat /\ DefaultRate \in Nat /\ Durations \subseteq Nat
    /\ Offered \subseteq [from : 0 .. DayLen, to : 0 .. DayLen,
                        days : SUBSET (0 .. WeekLen - 1), price : Prices]
    /\ NoTariff \notin Tariffs /\ Tariffs # {}
    /\ MaxSessions \in Nat /\ MaxEdits \in Nat /\ MaxTime \in Nat /\ MaxEnergy \in Nat

VARIABLES
    now,       \* the wall clock
    price,     \* Tariff.price_per_kwh; Absent without the row
    slots,     \* the TariffSlot rows of each tariff
    link,      \* tariff_id of the plug, of its group, and the tenant's default
    checked,   \* slot requests that passed _validate_slot_window
    sess,      \* the session rows and what their handlers carry
    live,      \* TelemetryStore's segment mirror of the plug
    skew,      \* model's note: the mirror was left behind, or a session lost it
    scan,      \* the reaper's captured now, and the ids it found due
    edits      \* pricing edits made

pricingVars == <<now, price, slots, link, checked, sess, live, skew, scan, edits>>

Absent == -1        \* no row
Never == -1         \* rate_valid_until IS NULL
NotTracked == [rate |-> Absent, settled |-> 0, from |-> 0]
Sessions == 1 .. MaxSessions
Levels == {"plug", "group", "tenant"}

----------------------------------------------------------------------------
(* Resolution, services/pricing.py. *)

\* slot_overlaps: a common weekday and intersecting half-open windows.
Overlaps(a, b) ==
    a.days \cap b.days # {} /\ a.from < b.to /\ b.from < a.to

Weekday(t) == (t \div DayLen) % WeekLen
Midnight(t) == t - (t % DayLen)

\* The slot with the least (start_min, end_min).
Earliest(S) ==
    CHOOSE s \in S : \A r \in S :
        s.from < r.from \/ (s.from = r.from /\ s.to <= r.to)

\* Mutant: an end-of-day gap has no boundary.
SlotRateAndBoundToday(S, t) ==
    LET todays == {s \in S : Weekday(t) \in s.days}
        minute == t % DayLen
        covering == {s \in todays : s.from <= minute /\ minute < s.to}
        upcoming == {s \in todays : s.from > minute}
    IN  IF covering # {}
        THEN [rate |-> Earliest(covering).price, bound |-> Midnight(t) + Earliest(covering).to]
        ELSE [rate |-> Absent, bound |-> IF upcoming = {} THEN Never
                                         ELSE Midnight(t) + Min({s.from : s \in upcoming})]

\* _slot_rate_and_bound: the covering slot's price (Absent in a gap), and the
\* next instant at which the rate could change (Never when there is no slot).
SlotRateAndBound(S, t) ==
    LET on(d) == {s \in S : d \in s.days}
        minute == t % DayLen
        covering == {s \in on(Weekday(t)) : s.from <= minute /\ minute < s.to}
        upcoming == {s \in on(Weekday(t)) : s.from > minute}
        bearing == {d \in 1 .. WeekLen : on(Weekday(t + d * DayLen)) # {}}
        firstOf(D) == Min({s.from : s \in D})
    IN  IF covering # {}
        THEN [rate |-> Earliest(covering).price,
              bound |-> Midnight(t) + Earliest(covering).to]
        ELSE [rate |-> Absent, bound |->
              IF upcoming # {} THEN Midnight(t) + firstOf(upcoming)
              ELSE IF bearing = {} THEN Never
              ELSE LET d == Min(bearing)
                   IN Midnight(t) + d * DayLen + firstOf(on(Weekday(t + d * DayLen)))]

\* _resolve_tariff_and_tz: the first link of the chain that is set.
Effective ==
    IF link["plug"] # NoTariff THEN link["plug"]
    ELSE IF link["group"] # NoTariff THEN link["group"]
    ELSE link["tenant"]

\* resolve_rate_window: a slot's price wins over the flat price, also at 0.
RateWindow(t) ==
    IF Effective = NoTariff THEN [rate |-> DefaultRate, bound |-> Never]
    ELSE LET w == SlotRateAndBound(slots[Effective], t)
         IN  [w EXCEPT !.rate = IF @ = Absent THEN price[Effective] ELSE @]

\* Mutant: the hold is sized at the rate of the start.
MaxRateOverStart(t, dur) == RateWindow(t).rate

\* max_rate_over_window: the dearest rate of [t, t + dur), taken over every
\* slot when the window spans a day (also when there is no duration limit).
MaxRateOver(t, dur) ==
    LET span == IF dur = 0 THEN DayLen ELSE dur
        S == slots[Effective]
        touched == {d \in 0 .. (t + span) \div DayLen : d >= t \div DayLen}
        meets(s) == \E d \in touched :
            /\ (d % WeekLen) \in s.days
            /\ d * DayLen + s.from < t + span
            /\ d * DayLen + s.to > t
    IN  IF Effective = NoTariff THEN DefaultRate
        ELSE Max({price[Effective]} \cup
                 {s.price : s \in {r \in S : span >= DayLen \/ meets(r)}})

\* Mutant: a boundary of a later day is shown too.
PriceDisplayAnyDay(t) ==
    LET w == RateWindow(t)
    IN  [rate |-> w.rate, bound |-> w.bound,
         next |-> IF w.bound = Never THEN Absent ELSE RateWindow(w.bound).rate]

\* resolve_price_display: the rate shown now, and the next price when
\* it changes later the same day.
PriceDisplay(t) ==
    LET w == RateWindow(t)
        next == RateWindow(w.bound).rate
        quiet == [rate |-> w.rate, bound |-> Never, next |-> Absent]
    IN  IF w.bound = Never \/ Midnight(w.bound) # Midnight(t) THEN quiet
        ELSE IF next = w.rate THEN quiet
        ELSE [rate |-> w.rate, bound |-> w.bound, next |-> next]

\* _pick_tariff: the first candidate of the chain whose row is loaded.
PickTariff ==
    LET loaded(t) == t # NoTariff /\ price[t] # Absent
    IN  IF loaded(link["plug"]) THEN link["plug"]
        ELSE IF loaded(link["group"]) THEN link["group"]
        ELSE IF loaded(link["tenant"]) THEN link["tenant"]
        ELSE NoTariff

\* resolve_price_display_batch: the listing's own chain over tariffs and slots
\* loaded for the whole list, then _price_display_from_slots.
PriceDisplayBatch(t) ==
    LET x == PickTariff
        at(u) == IF x = NoTariff THEN [rate |-> DefaultRate, bound |-> Never]
                 ELSE LET w == SlotRateAndBound(slots[x], u)
                      IN  [w EXCEPT !.rate = IF @ = Absent THEN price[x] ELSE @]
        seen == at(t)
        hides == seen.bound = Never \/ Midnight(seen.bound) # Midnight(t)
                 \/ at(seen.bound).rate = seen.rate
    IN  IF hides THEN [rate |-> seen.rate, bound |-> Never, next |-> Absent]
        ELSE [rate |-> seen.rate, bound |-> seen.bound, next |-> at(seen.bound).rate]

\* get_plug_tariff_preview: the base price, the price now, and the slots.
TariffPreview(t) ==
    LET x == Effective
        s == SlotRateAndBound(slots[x], t).rate
    IN  IF x = NoTariff THEN [base |-> DefaultRate, now |-> DefaultRate, slots |-> {}]
        ELSE [base |-> price[x], now |-> IF s = Absent THEN price[x] ELSE s, slots |-> slots[x]]

----------------------------------------------------------------------------
(* The cost of a session, services/billing.py. *)

Segment(r) == [rate |-> r.rate, settled |-> r.settled, from |-> r.from]

\* session_cost: closed segments plus the open one.
SessionCost(r) == r.settled + Max({0, r.energy - r.from}) * r.rate

\* Mutant: the open segment keeps its start.
CloseOutSameStart(r, w) ==
    [r EXCEPT !.settled = @ + Max({0, r.energy - r.from}) * r.rate,
              !.rate = w.rate, !.until = w.bound]

\* TelemetryStore.update: the cost streamed for a frame that reads k kWh, at
\* COINS_PER_KWH when the plug is not tracked.
LiveCost(k) ==
    live.settled + Max({0, k - live.from})
                   * (IF live = NotTracked THEN DefaultRate ELSE live.rate)

\* The row after a frame that reads k kWh: a live reading below the last one
\* banks the drop as an offset, and the billed energy never falls.
Metered(r, k, offline) ==
    LET drop == IF ~offline /\ k < r.last THEN r.last - k ELSE 0
        e == Max({r.energy, r.offset + drop + k})
    IN  [r EXCEPT !.energy = e, !.offset = r.offset + drop,
                  !.last = IF offline THEN r.last ELSE k,
                  !.owed = r.owed + (e - r.energy) * r.rate]

\* close_out_segment: freeze what was metered, go on at the new rate.
CloseOut(r, w) ==
    [r EXCEPT !.settled = @ + Max({0, r.energy - r.from}) * r.rate,
              !.from = r.energy, !.rate = w.rate, !.until = w.bound]

Due(r, at) == r.until # Never /\ at >= r.until

\* reprice_session_if_due at the instant `at`; lost is the model's own note
\* of a price change the session was not marked for.
Reprice(r, at) ==
    LET w == RateWindow(at)
        told == [r EXCEPT !.lost = FALSE]
    IN  IF ~Due(r, at) THEN r
        ELSE IF w.rate # r.rate THEN CloseOut(told, w)
        ELSE [told EXCEPT !.until = w.bound]

----------------------------------------------------------------------------
Unborn ==
    [st |-> "none", todo |-> {}, push |-> {}, energy |-> 0, offset |-> 0, last |-> 0, rate |-> 0, first |-> 0, settled |-> 0,
     from |-> 0, until |-> Never, maxRate |-> 0, ends |-> Never, owed |-> 0,
     lost |-> FALSE, edited |-> FALSE]

\* Before the first session the tenant has no tariff, or a default one priced
\* like the environment's default, with at most two slots; these may overlap,
\* as two requests that validate before either writes both store theirs.
PricingInit ==
    /\ now = 0
    /\ \E T \in {{}, {CHOOSE x \in Tariffs : TRUE}},
          S \in SUBSET {s \in Offered : s.from < s.to} :
        /\ IsFiniteSet(S) /\ Cardinality(S) <= 2
        /\ T = {} => S = {}
        /\ price = [x \in Tariffs |-> IF x \in T THEN DefaultRate ELSE Absent]
        /\ slots = [x \in Tariffs |-> IF x \in T THEN S ELSE {}]
        /\ link = [l \in Levels |-> IF l = "tenant" /\ T # {} THEN CHOOSE x \in T : TRUE
                                    ELSE NoTariff]
    /\ checked = {}
    /\ sess = [s \in Sessions |-> Unborn]
    /\ live = NotTracked /\ skew = FALSE
    /\ scan = [at |-> Never, ids |-> {}]
    /\ edits = 0

Active(s) == sess[s].st = "active"

Tick ==
    /\ now < MaxTime
    /\ now' = now + 1
    /\ UNCHANGED <<price, slots, link, checked, sess, live, skew, scan, edits>>

----------------------------------------------------------------------------
(* The operator's pricing, routers/cpo/_tariffs.py. *)

\* mark_tenant_sessions_for_reprice: ACTIVE sessions fall due now; a start
\* that has resolved its rate and not yet committed is not marked.
MarkForReprice ==
    sess' = [s \in Sessions |->
        [sess[s] EXCEPT !.until = IF Active(s) THEN now ELSE @,
                        !.lost = @ \/ sess[s].st = "resolved",
                        !.edited = TRUE]]

\* A change of pricing that marks nobody.
Unmarked ==
    sess' = [s \in Sessions |->
        [sess[s] EXCEPT !.lost = @ \/ sess[s].st \in {"resolved", "active"},
                        !.edited = TRUE]]

Edit == edits < MaxEdits /\ edits' = edits + 1

CreateTariff(t, p) ==
    /\ Edit
    /\ price[t] = Absent
    /\ price' = [price EXCEPT ![t] = p]
    /\ UNCHANGED <<now, slots, link, checked, sess, live, skew, scan>>

UpdateTariff(t, p) ==
    /\ Edit
    /\ price[t] \notin {Absent, p}
    /\ price' = [price EXCEPT ![t] = p]
    /\ MarkForReprice
    /\ UNCHANGED <<now, slots, link, checked, live, skew, scan>>

\* Mutant: the links to a deleted tariff stay.
DeleteTariffDangling(t) ==
    /\ Edit
    /\ price[t] # Absent
    /\ price' = [price EXCEPT ![t] = Absent]
    /\ slots' = [slots EXCEPT ![t] = {}]
    /\ MarkForReprice
    /\ UNCHANGED <<now, link, checked, live, skew, scan>>

\* The foreign keys are ON DELETE SET NULL, the slots ON DELETE CASCADE.
DeleteTariff(t) ==
    /\ Edit
    /\ price[t] # Absent
    /\ price' = [price EXCEPT ![t] = Absent]
    /\ slots' = [slots EXCEPT ![t] = {}]
    /\ link' = [l \in Levels |-> IF link[l] = t THEN NoTariff ELSE link[l]]
    /\ MarkForReprice
    /\ UNCHANGED <<now, checked, live, skew, scan>>

\* The plug's, the group's or the tenant's tariff; running sessions keep
\* their rate.
Assign(l, t) ==
    /\ Edit
    /\ t # NoTariff => price[t] # Absent
    /\ link[l] # t
    /\ link' = [link EXCEPT ![l] = t]
    /\ Unmarked
    /\ UNCHANGED <<now, price, slots, checked, live, skew, scan>>

\* _validate_slot_window, for a create (old = {}) or an update (old = {slot}).
ValidateSlot(t, old, new) ==
    /\ edits + Cardinality(checked) < MaxEdits
    /\ price[t] # Absent
    /\ old \subseteq slots[t]
    /\ Cardinality(slots[t] \ old) < MaxSlots
    /\ new.from < new.to
    /\ \A s \in slots[t] \ old : ~Overlaps(s, new)
    /\ checked' = checked \cup {[tariff |-> t, old |-> old, new |-> new]}
    /\ UNCHANGED <<now, price, slots, link, sess, live, skew, scan, edits>>

\* The write of a validated slot; it fails when the row or the tariff is gone.
WriteSlot(c) ==
    /\ checked' = checked \ {c}
    /\ \/ /\ price[c.tariff] # Absent /\ c.old \subseteq slots[c.tariff]
          /\ slots' = [slots EXCEPT ![c.tariff] = (@ \ c.old) \cup {c.new}]
          /\ Edit
          /\ MarkForReprice
       \/ /\ price[c.tariff] = Absent \/ ~(c.old \subseteq slots[c.tariff])
          /\ UNCHANGED <<slots, sess, edits>>
    /\ UNCHANGED <<now, price, link, live, skew, scan>>

DeleteSlot(t, s) ==
    /\ Edit
    /\ s \in slots[t]
    /\ slots' = [slots EXCEPT ![t] = @ \ {s}]
    /\ MarkForReprice
    /\ UNCHANGED <<now, price, link, checked, live, skew, scan>>

----------------------------------------------------------------------------
(* The sessions of the plug. *)

Busy == \E s \in Sessions : sess[s].st \in {"resolved", "active"}

\* begin_active_session, under the plug lock: resolve the rate and size the
\* hold at the dearest rate of the session's own window.
ResolveStart(s, dur) ==
    /\ ~Busy
    /\ sess[s].st = "none" /\ \A r \in 1 .. s - 1 : sess[r].st # "none"
    /\ sess' = [sess EXCEPT ![s] = [Unborn EXCEPT
            !.st = "resolved",
            !.rate = RateWindow(now).rate, !.first = RateWindow(now).rate,
            !.until = RateWindow(now).bound,
            !.maxRate = MaxRateOver(now, dur),
            !.ends = IF dur = 0 THEN Never ELSE now + dur]]
    /\ UNCHANGED <<now, price, slots, link, checked, live, skew, scan, edits>>

CommitStart(s) ==
    /\ sess[s].st = "resolved"
    /\ sess' = [sess EXCEPT ![s].st = "active", ![s].todo = {"start"}]
    /\ UNCHANGED <<now, price, slots, link, checked, live, skew, scan, edits>>

\* TelemetryStore.start_session, once the ON has been published: the mirror
\* is reset to the rate the start resolved, whatever happened meanwhile.
StartMirror(s) ==
    /\ "start" \in sess[s].todo
    /\ live' = [rate |-> sess[s].first, settled |-> 0, from |-> 0]
    /\ skew' = ~(Active(s) /\ Segment(sess[s]) = live')
    /\ sess' = [sess EXCEPT ![s].todo = @ \ {"start"}, ![s].first = 0]
    /\ UNCHANGED <<now, price, slots, link, checked, scan, edits>>

\* What the handlers carry for the mirror is late once the rate has changed.
Overtaken(r, after) ==
    IF after.rate = r.rate THEN r.push ELSE {[p EXCEPT !.late = TRUE] : p \in r.push}

\* Mutant: what the handler carries is not marked as a new segment.
FrameUnpushed(s, k, offline) ==
    LET m == Metered(sess[s], k, offline)
        after == Reprice(m, now)
    IN  /\ Active(s)
        /\ m.offset + k <= MaxEnergy
        /\ Cardinality(sess[s].push) < MaxInFlight
        /\ sess' = [sess EXCEPT ![s] = [after EXCEPT !.push = Overtaken(m, after)
                        \cup {[seg |-> Segment(after), new |-> FALSE, late |-> FALSE]}]]
        /\ UNCHANGED <<now, price, slots, link, checked, live, skew, scan, edits>>

\* _persist_telemetry, to its commit: the metered energy first, then the
\* reprice.  The handler goes on with the segment it has read and whether the
\* rate changed.
Frame(s, k, offline) ==
    LET m == Metered(sess[s], k, offline)
        after == Reprice(m, now)
        carried == [seg |-> Segment(after), new |-> after.rate # m.rate, late |-> FALSE]
    IN  /\ Active(s)
        /\ m.offset + k <= MaxEnergy
        /\ Cardinality(sess[s].push) < MaxInFlight
        /\ sess' = [sess EXCEPT ![s] =
                      [after EXCEPT !.push = Overtaken(m, after) \cup {carried}]]
        /\ UNCHANGED <<now, price, slots, link, checked, live, skew, scan, edits>>

\* After the commit, hydrate_session fills an untracked mirror and
\* set_segment_state overwrites it when the rate changed; by then the session
\* may have been repriced again, or have ended.
TellMirror(s, p) ==
    LET tells == live = NotTracked \/ p.new
    IN  /\ p \in sess[s].push
        /\ live' = IF tells THEN p.seg ELSE live
        /\ skew' = IF tells THEN p.late \/ ~Active(s) ELSE skew
        /\ sess' = [sess EXCEPT ![s].push = @ \ {p}]
        /\ UNCHANGED <<now, price, slots, link, checked, scan, edits>>

\* finalize_charging_session bills session_cost; then end_session clears the
\* plug's mirror, after several awaits.  The row's rate state is not read
\* again, and the model forgets it.
Stop(s) ==
    /\ Active(s)
    /\ sess' = [sess EXCEPT ![s] = [Unborn EXCEPT
            !.st = "done", !.first = sess[s].first,
            !.todo = sess[s].todo \cup {"end"}, !.push = sess[s].push]]
    /\ UNCHANGED <<now, price, slots, link, checked, live, skew, scan, edits>>

EndMirror(s) ==
    /\ "end" \in sess[s].todo
    /\ live' = NotTracked
    /\ skew' = \E r \in Sessions : Active(r)
    /\ sess' = [sess EXCEPT ![s].todo = @ \ {"end"}]
    /\ UNCHANGED <<now, price, slots, link, checked, scan, edits>>

\* reap_reprice_once: now is captured, the overdue ids are read ...
ReaperScan ==
    LET due == {s \in Sessions : Active(s) /\ Due(sess[s], now) /\ sess[s].until # now}
    IN  /\ scan.ids = {} /\ due # {}
        /\ scan' = [at |-> now, ids |-> due]
        /\ UNCHANGED <<now, price, slots, link, checked, sess, live, skew, edits>>

\* ... and each is repriced under its lock at the captured instant, if it is
\* still ACTIVE.  The mirror is not told.
ReaperReprice(s) ==
    LET after == Reprice(sess[s], scan.at)
    IN  /\ s \in scan.ids
        /\ scan' = [at |-> IF scan.ids = {s} THEN Never ELSE scan.at, ids |-> scan.ids \ {s}]
        /\ sess' = IF Active(s)
                   THEN [sess EXCEPT ![s] = [after EXCEPT !.push = Overtaken(sess[s], after)]]
                   ELSE sess
        /\ skew' = (skew \/ (Active(s) /\ after.rate # sess[s].rate))
        /\ UNCHANGED <<now, price, slots, link, checked, live, edits>>

\* The backend restarts: the mirror, a start that has not committed, and what
\* its coroutines carried are gone.
Restart ==
    /\ live' = NotTracked
    /\ skew' = \E s \in Sessions : Active(s)
    /\ scan' = [at |-> Never, ids |-> {}]
    /\ sess' = [s \in Sessions |->
        IF sess[s].st = "resolved" THEN Unborn ELSE [sess[s] EXCEPT !.todo = {}, !.push = {}]]
    /\ checked' = {}
    /\ UNCHANGED <<now, price, slots, link, edits>>

Pricing ==
    \/ \E t \in Tariffs, p \in Prices : CreateTariff(t, p) \/ UpdateTariff(t, p)
    \/ \E t \in Tariffs : DeleteTariff(t)
    \/ \E l \in Levels, t \in Tariffs \cup {NoTariff} : Assign(l, t)
    \/ \E t \in Tariffs, new \in Offered :
        \/ ValidateSlot(t, {}, new)
        \/ \E s \in slots[t] : ValidateSlot(t, {s}, new)
    \/ \E c \in checked : WriteSlot(c)
    \/ \E t \in Tariffs : \E s \in slots[t] : DeleteSlot(t, s)

Charging ==
    \E s \in Sessions :
        \/ \E dur \in Durations : ResolveStart(s, dur)
        \/ CommitStart(s)
        \/ StartMirror(s)
        \/ \E k \in 0 .. MaxEnergy, offline \in BOOLEAN : Frame(s, k, offline)
        \/ \E p \in sess[s].push : TellMirror(s, p)
        \/ Stop(s)
        \/ EndMirror(s)
        \/ ReaperReprice(s)

PricingNext == Tick \/ Pricing \/ Charging \/ ReaperScan \/ Restart

PricingSpec == PricingInit /\ [][PricingNext]_pricingVars

----------------------------------------------------------------------------
(* Properties. *)

Push == [seg : [rate : Nat, settled : Nat, from : 0 .. MaxEnergy],
         new : BOOLEAN, late : BOOLEAN]

Row == [st : {"none", "resolved", "active", "done"}, todo : SUBSET {"start", "end"},
        push : SUBSET Push, energy : 0 .. MaxEnergy, offset : 0 .. MaxEnergy,
        last : 0 .. MaxEnergy, rate : Nat, first : Nat, settled : Nat,
        from : 0 .. MaxEnergy, until : Nat \cup {Never}, maxRate : Nat,
        ends : Nat \cup {Never}, owed : Nat, lost : BOOLEAN, edited : BOOLEAN]

\* The rows hold the values their columns allow, and a tariff link (a foreign
\* key with ON DELETE SET NULL) never dangles.
PricingTypeOK ==
    /\ now \in 0 .. MaxTime /\ edits \in 0 .. MaxEdits /\ skew \in BOOLEAN
    /\ price \in [Tariffs -> Prices \cup {DefaultRate, Absent}]
    /\ slots \in [Tariffs -> SUBSET Offered]
    /\ link \in [Levels -> Tariffs \cup {NoTariff}]
    /\ \A l \in Levels : link[l] # NoTariff => price[link[l]] # Absent
    /\ \A t \in Tariffs : price[t] = Absent => slots[t] = {}
    /\ sess \in [Sessions -> Row]
    /\ live \in [rate : Nat \cup {Absent}, settled : Nat, from : 0 .. MaxEnergy]
    /\ scan \in [at : (0 .. MaxTime) \cup {Never}, ids : SUBSET Sessions]

\* A session that is not due for a reprice charges the rate in force at this
\* instant: no slot boundary is skipped (gaps, slot-less days, zero prices and
\* overlapping slots included) and no pricing edit is missed, but for an edit
\* that ran while the session was starting and for a re-assignment.
RateIsCurrent ==
    \A s \in Sessions :
        Active(s) /\ ~sess[s].lost /\ ~Due(sess[s], now)
            => sess[s].rate = RateWindow(now).rate

\* session_cost is what the frames metered, each kWh at the rate the session
\* had when it was metered: no reprice, by whichever path and however often,
\* re-prices past energy or bills it twice.
PastEnergyKeepsItsPrice ==
    \A s \in Sessions : SessionCost(sess[s]) = sess[s].owed

\* The rate the hold was sized with is never exceeded within the session's own
\* window, whatever slots it runs through, unless the operator edits prices:
\* finalize's clamp to the hold forgives nothing.
HoldCoversSlots ==
    \A s \in Sessions :
        Active(s) /\ ~sess[s].edited /\ (sess[s].ends = Never \/ now < sess[s].ends)
            => sess[s].rate <= sess[s].maxRate

\* A next price shown to a driver is the price that will be charged from the
\* instant shown, the same day, and the price until then does not change; the
\* plug list and the preview, which resolve it their own way, show the same.
DisplayIsTrue ==
    /\ PriceDisplayBatch(now) = PriceDisplay(now)
    /\ TariffPreview(now).now = PriceDisplay(now).rate
    /\ \A t \in {now, now + DayLen} :
        LET d == PriceDisplay(t)
        IN  d.bound # Never =>
                /\ t < d.bound /\ d.bound < Midnight(t) + DayLen
                /\ \A x \in t .. d.bound - 1 : RateWindow(x).rate = d.rate
                /\ RateWindow(d.bound).rate = d.next /\ d.next # d.rate

\* The cost streamed for the next reading never exceeds what the session will
\* then cost, and is that cost while the counter has never been set back and
\* the reading is not behind.
CostsAgree(s) ==
    \A k \in 0 .. MaxEnergy + 1, offline \in BOOLEAN :
        LET bill == SessionCost(Metered(sess[s], k, offline))
        IN  /\ LiveCost(k) <= bill
            /\ sess[s].offset = 0 /\ sess[s].energy <= k => LiveCost(k) = bill

\* The handler of the frame that changed the rate has not told the mirror yet.
PushPending(s) == \E p \in sess[s].push : p.new /\ ~p.late

\* Once started, a session streams its own cost, not the default rate's nor
\* another segment's, unless the mirror was lost (a restart, end_session of
\* the plug's previous session), left behind (a reprice by the reaper) or
\* overwritten by a start_session or by a frame's handler that came late; the
\* next frame to fill a lost mirror, or to reprice, puts it right.
LiveCostFollows ==
    \A s \in Sessions :
        Active(s) /\ sess[s].todo = {} /\ ~skew /\ ~PushPending(s)
            => live # NotTracked /\ CostsAgree(s)

\* Whatever the operator edits and whoever reprices, a running session charges
\* the price in force (resolve_rate_window, reprice_session_if_due).
ChargesThePrice == PricingTypeOK /\ RateIsCurrent

\* Crossing slots neither re-prices what was delivered nor outgrows the hold
\* (close_out_segment, max_rate_over_window).
SegmentsBilledWithinHold == PastEnergyKeepsItsPrice /\ HoldCoversSlots
=============================================================================
