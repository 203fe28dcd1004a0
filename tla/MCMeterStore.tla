----------------------------- MODULE MCMeterStore -----------------------------
(* Instances of MeterStore for TLC. *)
EXTENDS MeterStore

CONSTANTS ct1, ct2, gas

MCSensors == {ct1, ct2, gas}
MCCtSensors == {ct1, ct2}
MCChannels == {1, 2}
===============================================================================
