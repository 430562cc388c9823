----------------------------- MODULE Indicators -----------------------------
(***************************************************************************)
(* IndicatorManager (src/src/indicators): the RX, TX and ERROR LEDs, each  *)
(* lit for a fixed time after an event, and the RUN LED, which blinks at a *)
(* rate given by the run mode.  millis() and every time derived from it    *)
(* are unsigned longs, 32 bits on the ESP32: MillisWord is the number of   *)
(* their values.  The operators take and return the state; the components  *)
(* that call the indicators keep it in a variable.                         *)
(***************************************************************************)
EXTENDS Integers

CONSTANTS MillisWord,   \* number of values of an unsigned long, 2^32
          PulseMillis,  \* 50, RX and TX pulses
          ErrorMillis   \* 250, ERROR pulses

ASSUME IndicatorsAssumption ==
    /\ MillisWord \in Nat \ {0}
    /\ PulseMillis \in 0..(MillisWord - 1) /\ ErrorMillis \in 0..(MillisWord - 1)

Millis == 0..(MillisWord - 1)
Led == {"rx", "tx", "error"}

\* _rxActive and the pin, _rxUntil; the same for tx and error
Pulses == [Led -> [active : BOOLEAN, until : Millis]]
AllDark == [l \in Led |-> [active |-> FALSE, until |-> 0]]

pulse(leds, led, now, length) ==
    [leds EXCEPT ![led] = [active |-> TRUE, until |-> (now + length) % MillisWord]]

requestReceived(leds, now) == pulse(leds, "rx", now, PulseMillis)
responseSent(leds, now) == pulse(leds, "tx", now, PulseMillis)
error(leds, now) == pulse(leds, "error", now, ErrorMillis)

\* The part of process() that ends the pulses that are over.
endPulses(leds, now) ==
    [l \in Led |->
        IF leds[l].active /\ now >= leds[l].until
        THEN [leds[l] EXCEPT !.active = FALSE]
        ELSE leds[l]]
=============================================================================
