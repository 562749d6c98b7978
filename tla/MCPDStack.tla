------------------------------ MODULE MCPDStack ------------------------------
(***************************************************************************)
(* Constants for the model-checking runs of PDStack.                       *)
(***************************************************************************)
EXTENDS PDStack

Fixed(mv, ca) == [kind |-> "fixed", lo |-> mv, hi |-> mv, ca |-> ca]
Pps(lo, hi, ca) == [kind |-> "pps", lo |-> lo, hi |-> hi, ca |-> ca]

\* A 5 V source, one that also has a PPS APDO (of revision 3.0; the first press
\* of the button asks for 15 V and so gets it), and one whose second
\* Source_Capabilities have lost 15 V.
FiveVolts == << <<Fixed(5000, 300)>> >>
WithPps == << <<Fixed(5000, 300), Pps(3300, 11000, 300)>> >>
Shrinking == << <<Fixed(5000, 300), Fixed(15000, 300)>>, <<Fixed(5000, 300)>> >>

OneHigh == << <<Fixed(5000, 300), Fixed(15000, 300)>> >>

NineVolts == [valid |-> TRUE, v |-> 9000, vmin |-> 5000, vmax |-> 9000,
              defn |-> "I", x |-> 100, giveback |-> TRUE, hvPreferred |-> FALSE]
FiveOrNine == << <<Fixed(5000, 300), Fixed(9000, 300)>> >>
HighRange == [NineVolts EXCEPT !.v = 5000, !.hvPreferred = TRUE]
NoGiveback == [NineVolts EXCEPT !.giveback = FALSE]

MCJunk == [type |-> "Unknown", id |-> 0, obj |-> 0]

\* Budgets: how many events of each kind a behaviour has.  Two events of
\* different kinds meet in every order; which two is a choice of each behaviour.
Kind == {"start", "loss", "fail", "hard", "press", "timeout", "temp", "query", "pps",
         "refuse"}
Budget(kinds) == [k \in Kind |-> IF k \in kinds THEN 1 ELSE 0]
Timeouts(n) == [Budget({}) EXCEPT !.timeout = n]
\* The third press stores state 4.
Presses(n) == [Budget({}) EXCEPT !.press = n]

Contract == {Budget({"start", "press", "fail"}), Budget({"refuse", "timeout"}),
             Timeouts(4)}
Messages == {Budget({"start", "query"}), Budget({"start", "temp"})}
Collisions == {Budget({"start", "hard"}), Budget({"loss", "hard"}), Presses(4)}
Live == {Budget({"press", "fail", "pps"})}
OneTimeout == {Timeouts(1)}
OneStart == {Budget({"start"})}
OnePress == {Budget({"press"})}
HardTimeout == {Budget({"hard", "timeout"})}
=============================================================================
