----------------------------- MODULE MCMetering -----------------------------
(* The meter is saved every 2 units and the ring holds 2 readings.          *)
EXTENDS Metering
=============================================================================
