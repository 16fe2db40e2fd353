------------------------------ MODULE Metering ------------------------------
(***************************************************************************)
(* How the energy of one running session reaches its row: the gateway's    *)
(* lifetime meter, which a reboot sets back to its last save, even to one  *)
(* from before the session; the ring of readings taken while MQTT is down; *)
(* the telemetry topic, where nothing is acknowledged; and the backend,    *)
(* which turns a counter that may fall into a total that may not.          *)
(*                                                                         *)
(* Energy is counted in units larger than ENERGY_COUNTER_RESET_DROP_KWH,   *)
(* so a reading that is lower at all is lower by more than the tolerance.  *)
(***************************************************************************)
EXTENDS Integers, Sequences, SequencesExt

CONSTANTS
    PersistEvery,  \* ENERGY_PERSIST_THRESHOLD_WH
    RingSize,      \* OFFLINE_LOG_MAX_ENTRIES
    MaxEnergy,     \* bound: energy of the session
    MaxTopic,       \* bound: frames on their way
    MaxReboots     \* bound

ASSUME MeteringAssumption ==
    /\ PersistEvery \in Nat \ {0} /\ RingSize \in Nat \ {0}
    /\ MaxEnergy \in Nat /\ MaxTopic \in Nat /\ MaxReboots \in Nat

VARIABLES
    delivered,  \* history: what the integrator has accrued in the session, all told
    counted,    \* history: by how much the session's readings have risen, all told
    meter,      \* the plug's lifetime meter less the baseline taken at ON
    saved,      \* the value of meter that is in NVS
    booting,    \* no power sample since the boot
    fresh,      \* history: no reading published live since the boot
    connected,  \* mqtt_connected
    draining,   \* resync_offline_logs is running in the event handler
    ring,       \* offline_log: buffered readings, oldest first
    topic,      \* frames on their way or waiting in the backend, oldest first
    lost,       \* history: a frame has been lost
    hidden,     \* history: the reading has risen since it was last published live
    mixed,      \* history: readings of two boots, or live ones, may be out of order
    masked,     \* history: a reading rose where no live frame before and after shows it
    reboots,
    billed,     \* charging_sessions.energy_kwh
    offset,     \* energy_reset_offset_kwh
    lastRaw     \* energy_counter_last_raw_kwh, -1 for NULL

gatewayVars == <<delivered, counted, meter, saved, booting, fresh, connected, draining, ring, reboots>>
sessionVars == <<billed, offset, lastRaw>>
meteringVars == <<gatewayVars, topic, lost, hidden, mixed, masked, sessionVars>>

\* boot is history: the boot in which the reading was taken.
Frame == [raw : Nat, live : BOOLEAN, boot : Nat]

\* The ON handler takes the meter as the session's baseline, but does not save
\* it: NVS holds a value from before the session.
MeteringInit ==
    /\ delivered = 0 /\ counted = 0 /\ meter = 0 /\ saved \in 1 - PersistEvery .. 0
    /\ booting = FALSE /\ fresh = FALSE
    /\ connected = TRUE /\ draining = FALSE /\ ring = <<>> /\ reboots = 0
    /\ topic = <<>> /\ lost = FALSE /\ hidden = FALSE /\ mixed = FALSE /\ masked = FALSE
    /\ billed = 0 /\ offset = 0 /\ lastRaw = -1
-----------------------------------------------------------------------------
(* The gateway *)

\* Mutants: the ring grows without bound; a full ring refuses the new reading.
AppendUnbounded(entry) == Append(ring, entry)
AppendUnlessFull(entry) == IF Len(ring) < RingSize THEN Append(ring, entry) ELSE ring

\* offline_log_append: a full ring overwrites its oldest entry.
OfflineLogAppend(entry) ==
    Append(IF Len(ring) < RingSize THEN ring ELSE Tail(ring), entry)

\* The meter that is in NVS after a poll that read m.
PersistedAfter(m) == IF m - saved >= PersistEvery THEN m ELSE saved

\* Mutant: what a meter below the baseline has lost is reported as energy.
SessionKwhUnsigned(m) == IF m < 0 THEN -m ELSE m

\* session_kwh: the reading of a meter, clamped at the baseline.
SessionKwh(m) == IF m < 0 THEN 0 ELSE m

\* By how much the reading rises when the meter does by accrued.
Rise(accrued) == SessionKwh(meter + accrued) - SessionKwh(meter)

\* One round of telemetry_task: the first power sample after a boot only seeds
\* the integrator; the reading goes out, or into the ring.
Poll(accrued) ==
    /\ delivered + accrued <= MaxEnergy /\ Len(topic) < MaxTopic
    /\ accrued = 0 \/ ~booting
    /\ delivered' = delivered + accrued /\ counted' = counted + Rise(accrued)
    /\ meter' = meter + accrued
    /\ saved' = PersistedAfter(meter')
    /\ booting' = FALSE /\ fresh' = (fresh /\ ~connected)
    /\ hidden' = (~connected /\ (hidden \/ Rise(accrued) > 0))
    /\ masked' = (masked \/ (fresh /\ Rise(accrued) > 0))
    /\ \/ /\ connected
          /\ topic' = Append(topic, [raw |-> SessionKwh(meter'), live |-> TRUE, boot |-> reboots])
          /\ UNCHANGED ring
       \/ /\ ~connected
          /\ ring' = OfflineLogAppend(SessionKwh(meter'))
          /\ UNCHANGED topic
    /\ UNCHANGED <<connected, draining, reboots, lost, mixed, sessionVars>>

\* MQTT_EVENT_DISCONNECTED.  It is raised in the task that drains the ring, so
\* never in the middle of that.
MqttDisconnected ==
    /\ connected /\ ~draining
    /\ connected' = FALSE
    /\ UNCHANGED <<delivered, counted, meter, saved, booting, fresh, draining, ring, reboots>>
    /\ UNCHANGED <<topic, lost, hidden, mixed, masked, sessionVars>>

\* MQTT_EVENT_CONNECTED: the flag is set first, so the telemetry task publishes
\* while the handler is still draining.
MqttConnected ==
    /\ ~connected
    /\ connected' = TRUE /\ draining' = (ring # <<>>)
    /\ UNCHANGED <<delivered, counted, meter, saved, booting, fresh, ring, reboots>>
    /\ UNCHANGED <<topic, lost, hidden, mixed, masked, sessionVars>>

\* resync_offline_logs, one entry.
Resync ==
    /\ draining /\ Len(topic) < MaxTopic
    /\ ring' = Tail(ring)
    /\ draining' = (Len(ring) > 1)
    /\ topic' = Append(topic, [raw |-> Head(ring), live |-> FALSE, boot |-> reboots])
    /\ UNCHANGED <<delivered, counted, meter, saved, booting, fresh, connected, reboots>>
    /\ UNCHANGED <<lost, hidden, mixed, masked, sessionVars>>

\* The gateway restarts and resumes the session from NVS, with the baseline it
\* took at ON; the ring survives.
Reboot ==
    /\ reboots < MaxReboots
    /\ reboots' = reboots + 1
    /\ meter' = saved /\ booting' = TRUE /\ fresh' = TRUE
    /\ connected' = FALSE /\ draining' = FALSE
    /\ mixed' = (mixed \/ ring # <<>>)
    /\ masked' = (masked \/ hidden)
    /\ UNCHANGED <<delivered, counted, saved, ring, topic, lost, hidden, sessionVars>>

\* Telemetry is published with QoS 0.
Lose(i) ==
    /\ topic' = RemoveAt(topic, i)
    /\ lost' = TRUE
    /\ UNCHANGED <<gatewayVars, hidden, mixed, masked, sessionVars>>
-----------------------------------------------------------------------------
(* The backend *)

\* Mutant: the whole last reading is banked.
BankedWhole(f) == IF f.live /\ lastRaw >= 0 /\ f.raw < lastRaw THEN lastRaw ELSE 0

\* The drop of a live reading below the last one.
Banked(f) == IF f.live /\ lastRaw >= 0 /\ f.raw < lastRaw THEN lastRaw - f.raw ELSE 0

\* A frame overtakes a live one, or one of another boot.
Overtakes(i) == \E j \in 1 .. i - 1 : topic[j].live \/ topic[j].boot # topic[i].boot

\* _persist_telemetry under the session row lock.  Frames arrive in order, but
\* each gets a task of its own, and the row lock does not say which is first.
Persist(i) ==
    LET f == topic[i] IN
    /\ topic' = RemoveAt(topic, i)
    /\ offset' = offset + Banked(f)
    /\ lastRaw' = IF f.live THEN f.raw ELSE lastRaw
    /\ billed' = IF offset' + f.raw > billed THEN offset' + f.raw ELSE billed
    /\ mixed' = (mixed \/ Overtakes(i))
    /\ UNCHANGED <<gatewayVars, lost, hidden, masked>>

MeteringNext ==
    \/ \E accrued \in {0, 1} : Poll(accrued)
    \/ MqttDisconnected \/ MqttConnected \/ Resync \/ Reboot
    \/ \E i \in DOMAIN topic : Lose(i) \/ Persist(i)

MeteringSpec == MeteringInit /\ [][MeteringNext]_meteringVars
-----------------------------------------------------------------------------
MeteringTypeOK ==
    /\ delivered \in Nat /\ counted \in Nat /\ meter \in Int /\ saved \in Int
    /\ booting \in BOOLEAN /\ fresh \in BOOLEAN /\ connected \in BOOLEAN /\ draining \in BOOLEAN
    /\ ring \in Seq(Nat) /\ Len(ring) <= RingSize
    /\ topic \in Seq(Frame) /\ lost \in BOOLEAN /\ hidden \in BOOLEAN
    /\ mixed \in BOOLEAN /\ masked \in BOOLEAN
    /\ reboots \in Nat
    /\ billed \in Nat /\ offset \in Nat /\ lastRaw \in Nat \cup {-1}

\* A driver is never billed for more energy than the gateway measured, across
\* outages with their replays, reboots that set the meter back and lost frames
\* (ENERGY_COUNTER_RESET_DROP_KWH, energy_reset_offset_kwh), as long as no
\* reading of one boot is replayed in the next and live frames stay in order.
NeverOverbilled == mixed \/ billed <= delivered

\* The same with the ring within its size (offline_log_append).
MeteredWithinEnergy == MeteringTypeOK /\ NeverOverbilled

\* Once everything measured has arrived, and nothing was lost on the way, the
\* bill is what the readings have risen by: neither an overflowing ring nor a
\* reading that fell leaves a slice unbilled, unless it was masked.
ReadingsBilled ==
    connected /\ ring = <<>> /\ topic = <<>> /\ ~lost => mixed \/ masked \/ billed = counted

\* "capping the worst-case crash energy loss to <threshold" (ENERGY_PERSIST_-
\* THRESHOLD_WH, tapo_protocol.c): what the readings never show, because a
\* reboot set the meter back below the baseline, is less than one threshold
\* for each reboot.
CrashLossBounded == delivered - counted <= reboots * (PersistEvery - 1)

\* So the bill falls short of the energy delivered by less than that.
BilledInFull == ReadingsBilled /\ CrashLossBounded
=============================================================================
