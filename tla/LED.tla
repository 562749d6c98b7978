--------------------------------- MODULE LED ---------------------------------
(***************************************************************************)
(* The LED thread (src/led.c).  It has the highest priority: an event is   *)
(* served before the thread that signalled it goes on.  The thread is the  *)
(* record [state, pending, i, lit, steady]: the event it shows, those not  *)
(* yet served, the passes it has made, the pin, and whether it waits for   *)
(* an event alone.                                                         *)
(***************************************************************************)
EXTENDS Naturals, FiniteSetsExt

CONSTANTS
    LED_MEDIUM_BLINKS, LED_FAST_BLINKS  \* blinks of the temporary modes: 3 and 8

ASSUME LEDAssumption == {LED_MEDIUM_BLINKS, LED_FAST_BLINKS} \subseteq 1..8

\* The events, by the number of their bit.
OFF == 0
ON == 1
FAST_BLINK == 2
MEDIUM_BLINK_OFF == 3
SLOW_BLINK == 4
FAST_BLINK_SLOW == 5
LONG_BLINK == 6
Event == OFF..LONG_BLINK

CONFIG == SLOW_BLINK
IDENTIFY == FAST_BLINK_SLOW
NEGOTIATING == FAST_BLINK
OUTPUT_ON == MEDIUM_BLINK_OFF
OUTPUT_OFF == ON
OUTPUT_OFF_NO_TYPEC == LONG_BLINK

LEDInit == [state |-> OFF, pending |-> {}, i |-> 0, lit |-> FALSE, steady |-> TRUE]

\* The passes after which the temporary modes end.
Last(s) == CASE s = MEDIUM_BLINK_OFF -> 2 * LED_MEDIUM_BLINKS - 1
             [] s = FAST_BLINK_SLOW -> 2 * LED_FAST_BLINKS
             [] s = LONG_BLINK -> 16
             [] OTHER -> 1
Ended(l) == l.state \in {MEDIUM_BLINK_OFF, FAST_BLINK_SLOW} /\ l.i >= Last(l.state)

\* Mutant: the last pass toggles like the others.
EndsToggling(l) ==
    CASE l.state = OFF -> FALSE
      [] l.state = ON -> TRUE
      [] l.state = LONG_BLINK -> l.i % 16 # 0
      [] OTHER -> l.i = 0 \/ ~l.lit

\* What this pass makes of the pin.
Pin(l) ==
    CASE l.state = OFF \/ Ended(l) -> FALSE
      [] l.state = ON -> TRUE
      [] l.state = LONG_BLINK -> l.i % 16 # 0
      [] OTHER -> l.i = 0 \/ ~l.lit

\* Mutant: identify ends dark, and nothing tells that setup mode goes on.
NoMore(l) == l.pending

\* The end of identify signals the thread itself.
ToServe(l) == IF l.state = FAST_BLINK_SLOW /\ Ended(l)
              THEN l.pending \cup {SLOW_BLINK} ELSE l.pending

\* The whole pass. The counter counts on to no effect; here it stops, or begins
\* again.
Pass(l) ==
    [l EXCEPT !.lit = Pin(l),
              !.steady = l.state \in {OFF, ON} \/ Ended(l),
              !.pending = ToServe(l),
              !.i = IF @ < Last(l.state) THEN @ + 1
                    ELSE IF l.state = LONG_BLINK THEN 1 ELSE @]

\* Mutant: only the event served is cleared.
ServeKeepsOthers(l) ==
    LET new == l.pending \ {l.state} IN
    IF new = {} THEN l
    ELSE Pass([l EXCEPT !.state = Min(new), !.pending = @ \ {Min(new)}, !.i = 0])

\* The wait returns the lowest event that is not the one shown, if any; the
\* other events are forgotten.
Serve(l) ==
    LET new == l.pending \ {l.state} IN
    IF new = {} THEN l ELSE Pass([l EXCEPT !.state = Min(new), !.pending = {}, !.i = 0])

\* chEvtSignal(pdbs_led_thread, e)
Signalled(l, e) == Serve([l EXCEPT !.pending = @ \cup {e}])

\* The timeout of a blinking mode.
Ticked(l) == Serve(Pass(l))
=============================================================================
