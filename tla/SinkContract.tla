---------------------------- MODULE SinkContract ----------------------------
(***************************************************************************)
(* What the Policy Engine and the device policy manager promise the load:  *)
(* how a power contract comes about and ends, and in which of these steps  *)
(* the power output may be switched.  No messages, threads, buffers or     *)
(* timers; PDStack is shown to implement this.                             *)
(***************************************************************************)
EXTENDS Naturals

VARIABLES
    enabled,    \* the output may be turned on at all
    phase,      \* where the sink is between two contracts
    contract,   \* there is an explicit contract
    reduced,    \* the source owes the sink the power it asked for
    supply      \* the voltages asked for and present, whether what was asked
                \* for is enough, and the output

terms == <<phase, contract, reduced, supply>>
vars == <<enabled, terms>>

Phase == {"waiting", "offered", "asked", "moving", "ready", "resetting", "typec"}

\* The voltage asked for is now present, and the output is switched.
Switched(s, on) == [s EXCEPT !.present = s.requested, !.output = on /\ enabled]
Off(s) == [s EXCEPT !.output = FALSE]
Defaulted(s) == Switched([s EXCEPT !.requested = 5000], FALSE)
Measured(s, enough) == [s EXCEPT !.requested = 5000, !.match = enough]

Init == /\ enabled \in BOOLEAN
        /\ phase = "resetting"
        /\ contract = FALSE
        /\ reduced = FALSE
        /\ supply = [requested |-> 0, present |-> 5000, match |-> FALSE, output |-> FALSE]

Go(from, to) == phase \in from /\ phase' = to
SameTerms == UNCHANGED <<contract, reduced>>

\* The sink looks at what the source offers, for the first time or again, ...
Offer == /\ Go({"waiting", "ready"}, "offered")
         /\ SameTerms /\ UNCHANGED supply

\* ... decides what to ask for, ...
Decide(mv, enough) == /\ Go({"offered"}, "asked")
                      /\ supply' = [supply EXCEPT !.requested = mv, !.match = enough]
                      /\ SameTerms
Evaluate == Decide(supply'.requested, supply'.match)

\* ... or asks once more for what it asked for last.
Repeat == /\ Go({"ready"}, "asked")
          /\ SameTerms /\ UNCHANGED supply

\* The source agrees: the load may have to be disconnected.
Accept == /\ Go({"asked"}, "moving")
          /\ reduced' = FALSE
          /\ supply' \in {supply, Off(supply)}
          /\ UNCHANGED contract

\* It refuses: only a contract there was before holds, less power if "wait".
Refuse == /\ IF contract THEN Go({"asked"}, "ready") /\ reduced' \in BOOLEAN
                         ELSE Go({"asked"}, "waiting") /\ UNCHANGED reduced
          /\ UNCHANGED <<contract, supply>>

\* It takes the power back: the load is disconnected.
Minimum == /\ Go({"ready"}, "moving")
           /\ reduced' = TRUE
           /\ supply' = Switched(supply, FALSE)
           /\ UNCHANGED contract

\* Its supply is ready. Only here is the load connected under a contract, and
\* not if power was taken back.
Complete == /\ Go({"moving"}, "ready")
            /\ contract' = TRUE
            /\ supply' = IF reduced THEN supply ELSE Switched(supply, supply.match)
            /\ UNCHANGED reduced

\* A soft reset of either side: offers are awaited anew, the power stays.
SoftReset == /\ Go({"asked", "ready"}, "waiting")
             /\ SameTerms /\ UNCHANGED supply

\* Something went wrong. If VBUS was about to move the load is disconnected,
\* unless the reset is about to do that.
Fail == /\ Go(Phase \ {"offered", "typec"}, "resetting")
        /\ supply' = supply \/ (phase = "moving" /\ supply' = Defaulted(supply))
        /\ SameTerms

\* The hard reset: the load is disconnected before anything else happens.
Default == /\ Go({"resetting"}, "resetting")
           /\ contract' = FALSE
           /\ supply' = Defaulted(supply)
           /\ UNCHANGED reduced

Start == /\ Go({"resetting"}, "waiting")
         /\ contract' = FALSE
         /\ UNCHANGED <<reduced, supply>>

\* After its last hard reset the sink takes the partner for one without PD.
GiveUp == /\ Go({"resetting"}, "typec")
          /\ SameTerms /\ UNCHANGED supply

\* The current it offers is measured; twice the same, and it is used or not.
Measure(enough) ==
    /\ Go({"typec"}, "typec")
    /\ LET s == Measured(supply, enough) IN supply' \in {s, Switched(s, enough)}
    /\ SameTerms
TypeC == \E m \in BOOLEAN : Measure(m)

\* Nobody but the user of the setup shell says whether the output may be on.
Enable == enabled' \in BOOLEAN /\ UNCHANGED terms

Negotiate == \/ Offer \/ Evaluate \/ Repeat \/ Accept \/ Refuse \/ Minimum
             \/ Complete \/ SoftReset \/ Fail \/ Default \/ Start \/ GiveUp \/ TypeC

Next == \/ Negotiate /\ UNCHANGED enabled
        \/ Enable

Spec == Init /\ [][Next]_vars
=============================================================================
