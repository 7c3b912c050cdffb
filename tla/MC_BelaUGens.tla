---------------------------- MODULE MC_BelaUGens ----------------------------
(***************************************************************************)
(* Instances of BelaUGens for TLC: graphs of one or two units on a small  *)
(* Bela context (two analog inputs, two analog outputs, two digital pins,  *)
(* two multiplexer channels, blocks of two samples).                       *)
(***************************************************************************)
EXTENDS BelaUGens

CONSTANTS u1, u2

(* The rates each class may be given: only inputs its calc selection      *)
(* reads can vary (DigitalIn's pin and DigitalOut's pin and write mode    *)
(* are read once by the constructor).                                     *)
AllRates ==
    [k \in {"MultiplexAnalogIn", "AnalogIn", "AnalogOut", "DigitalIn", "DigitalOut", "DigitalIO"} |->
        CASE k = "MultiplexAnalogIn" -> RateRecords(2)
          [] k = "AnalogIn"          -> RateRecords(1)
          [] k = "AnalogOut"         -> RateRecords(2)
          [] k = "DigitalIn"         -> RateRecords(0)
          [] k = "DigitalOut"        -> {r \in RateRecords(2) : r.in[1] = "k"}
          [] k = "DigitalIO"         -> RateRecords(3)]

(* Every rate combination except the one that selects DigitalIO_next_akka_once. *)
RatesNoAkka ==
    [AllRates EXCEPT !["DigitalIO"] =
        {r \in @ : ~(r.calc = "a" /\ r.in = <<"k", "k", "a">>)}]

OneUnit == {u1}

(* Pin inputs: in range, negative, and one past the last channel.          *)
Pins == {-1, 0, 1, 2}
AnyPins == [k \in DOMAIN AllRates |-> Pins]

(* The same, except that DigitalOut is given only pins in range (its      *)
(* constructor's handling of the others is checked on its own) and        *)
(* DigitalIO one pin in range and one past each end.                      *)
CheckedPins == [AnyPins EXCEPT !["DigitalOut"] = {0, 1}, !["DigitalIO"] = {-1, 0, 2}]

(* The classes whose pin handling is at fault in some rate or input.     *)
FaultyKinds == u1 :> {"MultiplexAnalogIn", "DigitalOut", "DigitalIO"}
DigitalIOKind == u1 :> {"DigitalIO"}

(* A unit of any class but the multiplexer beside a DigitalIn reading the *)
(* pins it may write.                                                     *)
TwoUnits == {u1, u2}
PairKinds == (u1 :> {"AnalogIn", "AnalogOut", "DigitalIO", "DigitalOut"}) @@ (u2 :> {"DigitalIn"})

====
