---------------------------- MODULE DeviceProofs ----------------------------
(***************************************************************************)
(* What the user sees is what the load gets, for every configuration,      *)
(* every source and every number of blinks: the LED, the output and the    *)
(* listing of get_source_cap.                                              *)
(***************************************************************************)
EXTENDS Device, SequenceTheorems, TLAPS

LEDType == [state: Event, pending: SUBSET Event, i: Nat, lit: BOOLEAN, steady: BOOLEAN]
SupplyType == [requested: Nat, present: Nat, match: BOOLEAN, output: BOOLEAN]
SeenType == [read: BOOLEAN, cfg: Configs \cup {NoConfig}, on: BOOLEAN, btn: 0..4]
DeviceType ==
    [mode: {"sink", "setup"}, main: {"boot", "idle", "held", "list"},
     i: Nat, n: Nat, cfg: Configs \cup {NoConfig}, offer: Offers \cup {<<>>},
     state: 0..4, cnt: 0..3, asks: BOOLEAN, open: BOOLEAN, back: BOOLEAN,
     stale: BOOLEAN, seen: SeenType, old: -1..1]

TypeOK == /\ enabled \in BOOLEAN /\ phase \in Phase
          /\ contract \in BOOLEAN /\ reduced \in BOOLEAN
          /\ supply \in SupplyType /\ led \in LEDType /\ dev \in DeviceType

\* The LED thread between two steps of the others: it has served every event,
\* identify is not one of them, and a temporary mode that has ended is dark.
Served(l) == /\ l \in LEDType
             /\ l.pending \subseteq {l.state}
             /\ l.state # IDENTIFY
             /\ l.steady => l.state \in {OFF, ON} \/ ~l.lit

\* A sink asked for what it will have, or has.
Bargain == {"asked", "moving", "ready"}

\* No input of the evaluation has changed without a NEW_POWER pending.
Told == dev.main \in {"boot", "idle", "list"} /\ ~dev.asks

\* In the sink loop the output is never disabled.
SinkLoop == dev.mode = "sink" => enabled /\ dev.main \in {"boot", "idle", "held"}

\* The LED tells the output, and of an output that is on that Sink Standby,
\* which leaves the LED alone, will not turn it off.
Shown ==
    dev.mode = "sink" =>
       /\ led.state = OUTPUT_ON =>
            supply.output /\ (phase # "typec" => supply.requested = supply.present)
       /\ led.state \in {OUTPUT_OFF, OUTPUT_OFF_NO_TYPEC} => ~supply.output
       /\ phase \in Bargain /\ ~dev.open => led.state \in {OUTPUT_ON, OUTPUT_OFF}

\* What is asked for is what the evaluation of the inputs says.
Considered ==
    phase \in Bargain /\ Told /\ ~dev.stale =>
        supply.requested = Evaluated.mv /\ supply.match = Evaluated.match

\* Once PS_RDY has come the output is that of the last evaluation.
Switching ==
    phase \in Bargain /\ Told /\ ~dev.open =>
        /\ supply.output => supply.match /\ enabled
        /\ phase # "moving" /\ ~dev.back => supply.output = (supply.match /\ enabled)

\* What an evaluation has read is what there is, or NEW_POWER is still to come.
Reading ==
    dev.seen.read =>
        /\ phase = "offered"
        /\ dev.mode = "sink" => led.state = NEGOTIATING
        /\ Told /\ ~dev.stale => /\ dev.seen.cfg = dev.cfg
                                /\ dev.seen.on = enabled
                                /\ dev.seen.btn = dev.state

DInv == /\ TypeOK /\ Served(led) /\ SinkLoop
        /\ Shown /\ Considered /\ Switching /\ Reading

-----------------------------------------------------------------------------
(* The LED thread.                                                         *)
LEMMA Passes ==
    ASSUME NEW l \in LEDType
    PROVE  /\ Pass(l) \in LEDType
           /\ Pass(l).state = l.state
           /\ Pass(l).pending = ToServe(l)
           /\ Pass(l).steady /\ l.state # FAST_BLINK_SLOW =>
                l.state \in {OFF, ON} \/ ~Pass(l).lit
<1>0. Last(l.state) \in Nat
  <2>1. LED_MEDIUM_BLINKS \in 1..8 /\ LED_FAST_BLINKS \in 1..8 BY LEDAssumption
  <2>2. l.state \in 0..6 BY DEF LEDType, Event, OFF, LONG_BLINK
  <2>3. CASE l.state = 3 BY <2>1, <2>3 DEF Last, MEDIUM_BLINK_OFF
  <2>4. CASE l.state = 5
    BY <2>1, <2>4 DEF Last, MEDIUM_BLINK_OFF, FAST_BLINK_SLOW, LONG_BLINK
  <2>5. CASE l.state = 6
    BY <2>5 DEF Last, MEDIUM_BLINK_OFF, FAST_BLINK_SLOW, LONG_BLINK
  <2>6. CASE l.state \notin {3, 5, 6}
    BY <2>6 DEF Last, MEDIUM_BLINK_OFF, FAST_BLINK_SLOW, LONG_BLINK
  <2>7. QED BY <2>3, <2>4, <2>5, <2>6
<1>1. Ended(l) \in BOOLEAN /\ Pin(l) \in BOOLEAN
  <2>1. Ended(l) \in BOOLEAN BY DEF Ended
  <2>2. CASE l.state = OFF \/ Ended(l)
    BY <2>2 DEF Pin, Ended, OFF, ON, LONG_BLINK, MEDIUM_BLINK_OFF, FAST_BLINK_SLOW
  <2>3. l.state = ON /\ ~Ended(l) => Pin(l) = TRUE BY DEF Pin, OFF, ON, LONG_BLINK
  <2>4. l.state = LONG_BLINK /\ ~Ended(l) => Pin(l) = (l.i % 16 # 0)
    BY DEF Pin, OFF, ON, LONG_BLINK
  <2>5. l.state \notin {OFF, ON, LONG_BLINK} /\ ~Ended(l) =>
          Pin(l) = (l.i = 0 \/ ~l.lit)
    BY DEF Pin
  <2>6. QED BY <2>1, <2>2, <2>3, <2>4, <2>5
<1>2. ToServe(l) \in SUBSET Event
  BY DEF LEDType, ToServe, Event, OFF, LONG_BLINK, SLOW_BLINK
<1>3. /\ Pass(l) \in LEDType /\ Pass(l).state = l.state
      /\ Pass(l).pending = ToServe(l) /\ Pass(l).lit = Pin(l)
      /\ Pass(l).steady = (l.state \in {OFF, ON} \/ Ended(l))
  <2> DEFINE st == l.state \in {OFF, ON} \/ Ended(l)
             n == IF l.i < Last(l.state) THEN l.i + 1
                  ELSE IF l.state = LONG_BLINK THEN 1 ELSE l.i
  <2>1. st \in BOOLEAN BY <1>1
  <2>2. n \in Nat BY DEF LEDType
  <2>3. Pass(l) = [l EXCEPT !.lit = Pin(l), !.steady = st, !.pending = ToServe(l), !.i = n]
    BY DEF Pass
  <2>4. Pass(l).steady = st BY <2>3 DEF LEDType
  <2> HIDE DEF st, n
  <2>5. /\ Pass(l) \in LEDType /\ Pass(l).state = l.state
        /\ Pass(l).pending = ToServe(l) /\ Pass(l).lit = Pin(l)
    BY <1>1, <1>2, <2>1, <2>2, <2>3 DEF LEDType
  <2>6. QED BY <2>4, <2>5 DEF st
<1>4. Ended(l) => ~Pin(l)
  BY DEF Pin, Ended, OFF, ON, LONG_BLINK, MEDIUM_BLINK_OFF, FAST_BLINK_SLOW
<1>5. QED BY <1>3, <1>4

\* A pass that begins a mode is not its last.
LEMMA Begins ==
    ASSUME NEW l \in LEDType, l.i = 0, l.pending = {} PROVE ToServe(l) = {}
<1>1. CASE l.state = FAST_BLINK_SLOW
  BY <1>1, LEDAssumption
     DEF ToServe, Ended, Last, FAST_BLINK_SLOW, MEDIUM_BLINK_OFF, LONG_BLINK
<1>2. QED BY <1>1 DEF ToServe

LEMMA MinOne == ASSUME NEW e \in Int PROVE Min({e}) = e
BY DEF Min

\* The event signalled last is the one shown.
LEMMA SignalShows ==
    ASSUME NEW l, Served(l), NEW e \in Event, e # IDENTIFY
    PROVE  Served(Signalled(l, e)) /\ Signalled(l, e).state = e
<1> DEFINE q == [l EXCEPT !.pending = @ \cup {e}]
           new == q.pending \ {q.state}
           r == [q EXCEPT !.state = e, !.pending = {}, !.i = 0]
<1>1. q \in LEDType /\ q.state = l.state /\ new = {e} \ {l.state}
      /\ q.steady = l.steady /\ q.lit = l.lit /\ q.pending = l.pending \cup {e}
  BY DEF Served, LEDType
<1>2. CASE e = l.state
  <2>1. Signalled(l, e) = q BY <1>1, <1>2 DEF Signalled, Serve
  <2>2. QED BY <1>1, <1>2, <2>1 DEF Served
<1>3. CASE e # l.state
  <2>1. new = {e} BY <1>1, <1>3
  <2>2. Min(new) = e BY <2>1, MinOne DEF Event, OFF, LONG_BLINK
  <2>3. Signalled(l, e) = Pass(r) BY <2>1, <2>2 DEF Signalled, Serve
  <2>4. r \in LEDType /\ r.state = e /\ r.pending = {} /\ r.i = 0
    BY <1>1 DEF LEDType
  <2> HIDE DEF r
  <2>5. Pass(r).pending = {} BY <2>4, Passes, Begins
  <2>6. QED BY <2>3, <2>4, <2>5, Passes DEF Served, IDENTIFY
<1>4. QED BY <1>2, <1>3

\* A timeout of the LED thread changes no mode.
LEMMA TickShows ==
    ASSUME NEW l, Served(l)
    PROVE  Served(Ticked(l)) /\ Ticked(l).state = l.state
<1>1. l \in LEDType /\ l.state # FAST_BLINK_SLOW BY DEF Served, IDENTIFY
<1>2. ToServe(l) = l.pending BY <1>1 DEF ToServe
<1>3. Ticked(l) = Pass(l) BY <1>1, <1>2, Passes DEF Ticked, Serve, Served
<1>4. QED BY <1>1, <1>2, <1>3, Passes DEF Served

-----------------------------------------------------------------------------
(* The evaluation.                                                         *)

\* A non-empty set of positions of PDOs has a first and a last one.
LEMMA Extremes ==
    ASSUME NEW S \in SUBSET (1..7), S # {}
    PROVE  SetMin(S) \in S /\ SetMax(S) \in S
<1>1. \E i \in S : \A j \in S : i <= j
  <2>1. \A i \in 1..7 : (i \in S /\ \A j \in 1..7 : j < i => j \notin S) =>
          \A j \in S : i <= j
    OBVIOUS
  <2>2. CASE 1 \in S BY <2>2
  <2>3. CASE 1 \notin S /\ 2 \in S BY <2>1, <2>3
  <2>4. CASE {1, 2} \cap S = {} /\ 3 \in S BY <2>1, <2>4
  <2>5. CASE {1, 2, 3} \cap S = {} /\ 4 \in S BY <2>1, <2>5
  <2>6. CASE {1, 2, 3, 4} \cap S = {} /\ 5 \in S BY <2>1, <2>6
  <2>7. CASE {1, 2, 3, 4, 5} \cap S = {} /\ 6 \in S BY <2>1, <2>7
  <2>8. CASE {1, 2, 3, 4, 5, 6} \cap S = {}
    <3>1. \A j \in S : j \in 1..7 /\ j \notin {1, 2, 3, 4, 5, 6} BY <2>8
    <3>2. \A j \in S : j = 7 BY <3>1
    <3>3. PICK k \in S : TRUE OBVIOUS
    <3>4. QED BY <3>2, <3>3
  <2>9. QED BY <2>2, <2>3, <2>4, <2>5, <2>6, <2>7, <2>8
<1>2. \E i \in S : \A j \in S : i >= j
  <2>0. CASE {7, 6, 5, 4, 3, 2} \cap S = {}
    <3>1. \A j \in S : j \in 1..7 /\ j \notin {7, 6, 5, 4, 3, 2} BY <2>0
    <3>2. \A j \in S : j = 1 BY <3>1
    <3>3. PICK k \in S : TRUE OBVIOUS
    <3>4. QED BY <3>2, <3>3
  <2>1. CASE {7, 6, 5, 4, 3} \cap S = {} /\ 2 \in S BY <2>1
  <2>2. CASE 7 \in S BY <2>2
  <2>3. CASE 7 \notin S /\ 6 \in S BY <2>3
  <2>4. CASE {7, 6} \cap S = {} /\ 5 \in S BY <2>4
  <2>5. CASE {7, 6, 5} \cap S = {} /\ 4 \in S BY <2>5
  <2>6. CASE {7, 6, 5, 4} \cap S = {} /\ 3 \in S BY <2>6
  <2>7. QED BY <2>0, <2>1, <2>2, <2>3, <2>4, <2>5, <2>6
<1>3. QED BY <1>1, <1>2, Zenon DEF SetMin, SetMax

\* A conversion of millivolts and back keeps the type.
LEMMA Rounds == \A mv \in Nat : Round(mv, 50) \in Nat /\ Round(mv, 20) \in Nat
BY DEF Round

LEMMA Positions == \A n \in 0..7 : \A i \in 1..n : i \in 1..7
OBVIOUS

\* What is asked for is a voltage, whatever is in flash and on offer.
LEMMA Evaluates ==
    ASSUME NEW scfg \in Configuration \cup {NoConfig}, NEW on \in BOOLEAN,
           NEW still \in BOOLEAN, NEW o \in Seq(PDO), Len(o) \in 0..7, NEW state
    PROVE  LET e == EvaluationWhile(scfg, on, still, o, state) IN
           e.mv \in Nat /\ e.match \in BOOLEAN /\ e.pos \in 1..Len(o) \cup {1}
<1> DEFINE E == EvaluationWhile(scfg, on, still, o, state)
<1>0. \A S \in SUBSET (1..Len(o)) : S \in SUBSET (1..7) BY Positions
<1>1. CASE scfg.valid /\ on /\ Preferred(scfg, o, state) # {}
  <2> DEFINE i == SetMin(Preferred(scfg, o, state))
             mv == Round(scfg.v, IF o[i].kind = "fixed" THEN 50 ELSE 20)
  <2>1. Preferred(scfg, o, state) \in SUBSET (1..Len(o)) BY DEF Preferred
  <2>2. i \in 1..Len(o) BY <1>0, <1>1, <2>1, Extremes
  <2>3. mv \in Nat
    <3>1. scfg.v \in Nat BY DEF Configuration, NoConfig
    <3>2. Round(scfg.v, 50) \in Nat /\ Round(scfg.v, 20) \in Nat BY <3>1, Rounds
    <3>3. CASE o[i].kind = "fixed" BY <3>2, <3>3
    <3>4. CASE o[i].kind # "fixed" BY <3>2, <3>4
    <3>5. QED BY <3>3, <3>4
  <2> HIDE DEF i, mv
  <2>4. E = [pos |-> i, match |-> TRUE, ca |-> 0, mv |-> mv]
    BY <1>1 DEF EvaluationWhile, i, mv
  <2>5. QED BY <2>2, <2>3, <2>4
<1>2. CASE /\ ~(scfg.valid /\ on /\ Preferred(scfg, o, state) # {})
           /\ scfg.valid /\ on /\ InRange(scfg, o) # {}
  <2> DEFINE i == dpm_get_range_fixed_pdo_index(scfg, o)
  <2>1. InRange(scfg, o) \in SUBSET (1..Len(o)) BY DEF InRange
  <2>2. i \in 1..Len(o)
    BY <1>0, <1>2, <2>1, Extremes DEF dpm_get_range_fixed_pdo_index
  <2> HIDE DEF i
  <2>3. o[i].lo \in Nat
    <3>1. o[i] \in PDO BY <2>2
    <3>2. QED BY <3>1 DEF PDO
  <2>4. E = [pos |-> i, match |-> TRUE, mv |-> o[i].lo,
             ca |-> Field(dpm_get_current(scfg, o[i].lo), 10)]
    BY <1>2 DEF EvaluationWhile, i
  <2>5. QED BY <2>2, <2>3, <2>4
<1>3. CASE /\ ~(scfg.valid /\ on /\ Preferred(scfg, o, state) # {})
           /\ ~(scfg.valid /\ on /\ InRange(scfg, o) # {})
  <2>1. E = [pos |-> 1, match |-> ~still, mv |-> 5000, ca |-> DPM_MIN_CURRENT]
    BY <1>3 DEF EvaluationWhile
  <2>2. QED BY <2>1
<1>4. QED BY <1>1, <1>2, <1>3

-----------------------------------------------------------------------------
(* The Policy Engine's steps.                                              *)

\* Showing an event shows it, in the sink loop.
LEMMA Shows ==
    ASSUME DInv, NEW e \in {NEGOTIATING, OUTPUT_ON, OUTPUT_OFF, OUTPUT_OFF_NO_TYPEC},
           Show(e)
    PROVE  /\ Served(led')
           /\ dev.mode = "sink" => led'.state = e
<1>1. e \in Event /\ e # IDENTIFY
  BY DEF NEGOTIATING, OUTPUT_ON, OUTPUT_OFF, OUTPUT_OFF_NO_TYPEC, Event, OFF, ON,
         FAST_BLINK, MEDIUM_BLINK_OFF, SLOW_BLINK, FAST_BLINK_SLOW, LONG_BLINK, IDENTIFY
<1>2. Served(led) BY DEF DInv
<1>3. QED BY <1>1, <1>2, SignalShows DEF Show

LEMMA ShowsOutput ==
    ASSUME DInv, NEW on \in BOOLEAN, ShowOutput(on)
    PROVE  /\ Served(led')
           /\ dev.mode = "sink" =>
                led'.state = IF on /\ enabled THEN OUTPUT_ON ELSE OUTPUT_OFF
<1>1. CASE on /\ enabled BY <1>1, Shows DEF ShowOutput
<1>2. CASE ~(on /\ enabled) BY <1>2, Shows DEF ShowOutput
<1>3. QED BY <1>1, <1>2

\* The events of the LED differ.
LEMMA Codes ==
    /\ OUTPUT_ON = 3 /\ OUTPUT_OFF = 1 /\ OUTPUT_OFF_NO_TYPEC = 6 /\ NEGOTIATING = 2
    /\ CONFIG = 4 /\ IDENTIFY = 5 /\ OFF = 0 /\ ON = 1
BY DEF NEGOTIATING, OUTPUT_ON, OUTPUT_OFF, OUTPUT_OFF_NO_TYPEC, OFF, ON, CONFIG,
       FAST_BLINK, MEDIUM_BLINK_OFF, SLOW_BLINK, FAST_BLINK_SLOW, LONG_BLINK, IDENTIFY

\* The evaluation of the same inputs.
LEMMA SameEvaluation ==
    ASSUME dev'.cfg = dev.cfg, dev'.offer = dev.offer, dev'.state = dev.state,
           enabled' = enabled
    PROVE  Evaluated' = Evaluated
BY DEF Evaluated, Button

\* Nothing but the end of the evaluation comes between its two halves.
LEMMA NotReading ==
    ASSUME DInv, phase # "offered", dev'.seen = dev.seen PROVE Reading'
BY DEF DInv, Reading

\* A step that changes neither LED nor device, but in the end.
LEMMA QuietKeeps ==
    ASSUME DInv, Quiet, supply' \in SupplyType, phase' \in Phase,
           contract' \in BOOLEAN, reduced' \in BOOLEAN
    PROVE  /\ TypeOK' /\ Served(led') /\ SinkLoop'
           /\ Evaluated' = Evaluated /\ Told' = Told
<1>1. enabled' = enabled /\ dev' = dev /\ led' = led
  BY DEF Quiet, SameDevice
<1>2. QED BY <1>1, SameEvaluation DEF DInv, TypeOK, SinkLoop, Told

LEMMA AgainKeeps == ASSUME DInv, Again PROVE DInv'
<1>1. /\ Quiet /\ supply' = supply /\ phase = "ready" /\ phase' = "asked"
      /\ contract' = contract /\ reduced' = reduced
  BY DEF Again, Repeat, Go, SameTerms
<1>2. TypeOK' /\ Served(led') /\ SinkLoop' /\ Evaluated' = Evaluated /\ Told' = Told
  BY <1>1, QuietKeeps DEF DInv, TypeOK, Phase
<1>3. enabled' = enabled /\ dev' = dev /\ led' = led BY <1>1 DEF Quiet, SameDevice
<1>4. Shown' BY <1>1, <1>3, Codes DEF DInv, Shown, Bargain
<1>5. Considered' BY <1>1, <1>2, <1>3 DEF DInv, Considered, Bargain
<1>6. Switching' BY <1>1, <1>2, <1>3 DEF DInv, Switching, Bargain
<1>7. Reading' BY <1>1, <1>3, NotReading
<1>8. QED BY <1>2, <1>4, <1>5, <1>6, <1>7 DEF DInv

LEMMA AgreedKeeps == ASSUME DInv, Agreed PROVE DInv'
<1>1. /\ Quiet /\ phase = "asked" /\ phase' = "moving"
      /\ contract' = contract /\ reduced' = FALSE
  BY DEF Agreed, Accept, Go
<1>2. /\ supply' \in SupplyType /\ supply'.requested = supply.requested
      /\ supply'.present = supply.present /\ supply'.match = supply.match
      /\ supply'.output = (supply.output /\ supply.requested = supply.present)
  BY DEF Agreed, DInv, TypeOK, SupplyType, Off
<1>3. TypeOK' /\ Served(led') /\ SinkLoop' /\ Evaluated' = Evaluated /\ Told' = Told
  BY <1>1, <1>2, QuietKeeps DEF DInv, TypeOK, Phase
<1>4. enabled' = enabled /\ dev' = dev /\ led' = led BY <1>1 DEF Quiet, SameDevice
<1>5. Shown' BY <1>1, <1>2, <1>4, Codes DEF DInv, Shown, Bargain
<1>6. Considered' BY <1>1, <1>2, <1>3, <1>4 DEF DInv, Considered, Bargain
<1>7. Switching' BY <1>1, <1>2, <1>3, <1>4 DEF DInv, Switching, Bargain
<1>8. Reading' BY <1>1, <1>4, NotReading
<1>9. QED BY <1>3, <1>5, <1>6, <1>7, <1>8 DEF DInv

LEMMA RefusedKeeps == ASSUME DInv, Refused PROVE DInv'
<1>1. /\ Quiet /\ phase = "asked" /\ phase' \in {"ready", "waiting"}
      /\ contract' = contract /\ reduced' \in BOOLEAN /\ supply' = supply
  BY DEF Refused, Refuse, Go, DInv, TypeOK
<1>2. TypeOK' /\ Served(led') /\ SinkLoop' /\ Evaluated' = Evaluated /\ Told' = Told
  BY <1>1, QuietKeeps DEF DInv, TypeOK, Phase
<1>3. enabled' = enabled /\ dev' = dev /\ led' = led BY <1>1 DEF Quiet, SameDevice
<1>4. Shown' BY <1>1, <1>3, Codes DEF DInv, Shown, Bargain
<1>5. Considered' BY <1>1, <1>2, <1>3 DEF DInv, Considered, Bargain
<1>6. Switching' BY <1>1, <1>2, <1>3 DEF DInv, Switching, Bargain
<1>7. Reading' BY <1>1, <1>3, NotReading
<1>8. QED BY <1>2, <1>4, <1>5, <1>6, <1>7 DEF DInv

LEMMA SoftlyKeeps == ASSUME DInv, Softly PROVE DInv'
<1>1. /\ Quiet /\ phase \in {"asked", "ready"} /\ phase' = "waiting" /\ supply' = supply
      /\ contract' = contract /\ reduced' = reduced
  BY DEF Softly, SoftReset, Go, SameTerms
<1>2. TypeOK' /\ Served(led') /\ SinkLoop' BY <1>1, QuietKeeps DEF DInv, TypeOK, Phase
<1>3. enabled' = enabled /\ dev' = dev /\ led' = led BY <1>1 DEF Quiet, SameDevice
<1>4. Shown' BY <1>1, <1>3 DEF DInv, Shown, Bargain
<1>5. Considered' /\ Switching' BY <1>1 DEF Considered, Switching, Bargain
<1>6. Reading' BY <1>1, <1>3, NotReading
<1>7. QED BY <1>2, <1>4, <1>5, <1>6 DEF DInv

LEMMA GivenUpKeeps == ASSUME DInv, GivenUp PROVE DInv'
<1>1. /\ Quiet /\ phase = "resetting" /\ phase' = "typec" /\ supply' = supply
      /\ contract' = contract /\ reduced' = reduced
  BY DEF GivenUp, GiveUp, Go, SameTerms
<1>2. TypeOK' /\ Served(led') /\ SinkLoop' BY <1>1, QuietKeeps DEF DInv, TypeOK, Phase
<1>3. enabled' = enabled /\ dev' = dev /\ led' = led BY <1>1 DEF Quiet, SameDevice
<1>4. Shown' BY <1>1, <1>3 DEF DInv, Shown, Bargain
<1>5. Considered' /\ Switching' BY <1>1 DEF Considered, Switching, Bargain
<1>6. Reading' BY <1>1, <1>3, NotReading
<1>7. QED BY <1>2, <1>4, <1>5, <1>6 DEF DInv

\* New capabilities, or the old ones once more.
LEMMA OffersKeep == ASSUME DInv, Offered \/ Reconsider PROVE DInv'
<1>1. /\ phase \in {"waiting", "ready"} /\ phase' = "offered" /\ supply' = supply
      /\ contract' = contract /\ reduced' = reduced /\ enabled' = enabled /\ led' = led
  BY DEF Offered, Reconsider, Offer, Go, SameTerms
<1>2. dev' \in DeviceType /\ dev'.mode = dev.mode /\ dev'.main = dev.main
      /\ dev'.seen = dev.seen
  <2>1. CASE Reconsider BY <2>1 DEF Reconsider, DInv, TypeOK, DeviceType
  <2>2. CASE Offered
    <3>1. PICK o \in Offers : dev' = [dev EXCEPT !.offer = o] BY <2>2 DEF Offered
    <3>2. QED BY <3>1 DEF DInv, TypeOK, DeviceType
  <2>3. QED BY <2>1, <2>2
<1>3. TypeOK' BY <1>1, <1>2 DEF DInv, TypeOK, Phase
<1>4. Served(led') /\ SinkLoop' BY <1>1, <1>2 DEF DInv, SinkLoop
<1>5. Shown' BY <1>1, <1>2 DEF DInv, Shown, Bargain
<1>6. Considered' /\ Switching' BY <1>1 DEF Considered, Switching, Bargain
<1>7. Reading' BY <1>1, <1>2, NotReading
<1>8. QED BY <1>3, <1>4, <1>5, <1>6, <1>7 DEF DInv

\* An offer there may be.
LEMMA OfferNow == ASSUME DInv PROVE dev.offer \in Seq(PDO) /\ Len(dev.offer) \in 0..7
<1>1. CASE dev.offer = <<>>
  <2>1. <<>> \in Seq(PDO) /\ Len(<<>>) = 0 OBVIOUS
  <2>2. QED BY <1>1, <2>1
<1>2. CASE dev.offer \in Offers
  <2>1. dev.offer \in Seq(PDO) BY <1>2, DeviceAssumption
  <2>2. Len(dev.offer) \in 1..7 BY <1>2, DeviceAssumption
  <2>3. QED BY <2>1, <2>2
<1>3. QED BY <1>1, <1>2 DEF DInv, TypeOK, DeviceType

\* What the evaluation under way will come to.
TooFar == dev.seen.btn > 3
Outcome == EvaluationWhile(dev.seen.cfg, dev.seen.on, enabled, dev.offer,
                           IF TooFar THEN 0 ELSE dev.seen.btn)

LEMMA EvaluatedNow ==
    ASSUME DInv PROVE Outcome.mv \in Nat /\ Outcome.match \in BOOLEAN
<1>1. /\ dev.seen.cfg \in Configuration \cup {NoConfig}
      /\ dev.seen.on \in BOOLEAN /\ enabled \in BOOLEAN
  BY DeviceAssumption DEF DInv, TypeOK, DeviceType, SeenType
<1>2. QED BY <1>1, OfferNow, Evaluates DEF Outcome

\* The first half reads what there is.
LEMMA ReadInputsKeeps == ASSUME DInv, ReadInputs PROVE DInv'
<1> DEFINE new == [read |-> TRUE, cfg |-> dev.cfg, on |-> enabled, btn |-> dev.state]
<1>1. /\ phase = "offered" /\ UNCHANGED vars /\ Show(NEGOTIATING)
      /\ dev' = [dev EXCEPT !.stale = FALSE, !.seen = new]
  BY DEF ReadInputs
<1>2. new \in SeenType BY DEF DInv, TypeOK, DeviceType, SeenType
<1>3. /\ new.read = TRUE /\ new.cfg = dev.cfg /\ new.on = enabled
      /\ new.btn = dev.state
  OBVIOUS
<1> HIDE DEF new
<1>4. /\ dev' \in DeviceType /\ dev'.mode = dev.mode /\ dev'.main = dev.main
      /\ dev'.cfg = dev.cfg /\ dev'.state = dev.state /\ dev'.seen = new
  BY <1>1, <1>2 DEF DInv, TypeOK, DeviceType
<1>5. /\ enabled' = enabled /\ phase' = "offered" /\ supply' = supply
      /\ contract' = contract /\ reduced' = reduced
  BY <1>1 DEF vars, terms
<1>6. Served(led') /\ (dev.mode = "sink" => led'.state = NEGOTIATING)
  BY <1>1, Shows
<1>7. TypeOK' BY <1>4, <1>5, <1>6 DEF DInv, TypeOK, Phase, Served
<1>8. SinkLoop' BY <1>4, <1>5 DEF DInv, SinkLoop
<1>9. Shown' BY <1>4, <1>5, <1>6, Codes DEF Shown, Bargain
<1>10. Considered' /\ Switching' BY <1>5 DEF Considered, Switching, Bargain
<1>11. Reading' BY <1>3, <1>4, <1>5, <1>6 DEF Reading
<1>12. QED BY <1>6, <1>7, <1>8, <1>9, <1>10, <1>11 DEF DInv

LEMMA evaluate_capabilityKeeps == ASSUME DInv, evaluate_capability PROVE DInv'
<1> DEFINE E == Outcome
           next == IF TooFar THEN 0 ELSE dev.state
<1>1. /\ dev.seen.read /\ phase = "offered" /\ phase' = "asked" /\ led' = led
      /\ supply' = [supply EXCEPT !.requested = E.mv, !.match = E.match]
      /\ dev' = [dev EXCEPT !.state = next, !.open = TRUE, !.seen = Unread]
      /\ contract' = contract /\ reduced' = reduced /\ enabled' = enabled
  BY DEF evaluate_capability, Decide, Go, SameTerms, Outcome, TooFar
<1>2. E.mv \in Nat /\ E.match \in BOOLEAN BY EvaluatedNow
<1>3. next \in 0..4 /\ (Unread \in SeenType /\ ~Unread.read)
  BY DEF DInv, TypeOK, DeviceType, SeenType, Unread
<1> HIDE DEF next
<1>4. /\ dev' \in DeviceType /\ dev'.mode = dev.mode /\ dev'.main = dev.main
      /\ dev'.open = TRUE /\ dev'.state = next /\ dev'.cfg = dev.cfg
      /\ dev'.offer = dev.offer /\ dev'.asks = dev.asks /\ dev'.stale = dev.stale
      /\ dev'.seen = Unread
  BY <1>1, <1>3 DEF DInv, TypeOK, DeviceType
<1>5. Told' /\ ~dev'.stale => Evaluated' = E
  <2>1. SUFFICES ASSUME Told', ~dev'.stale PROVE Evaluated' = E OBVIOUS
  <2>2. /\ dev.seen.cfg = dev.cfg /\ dev.seen.on = enabled
        /\ dev.seen.btn = dev.state
    BY <1>1, <1>4, <2>1 DEF DInv, Reading, Told
  <2>3. dev.state \in 0..4 BY DEF DInv, TypeOK, DeviceType
  <2>4. Button' = IF TooFar THEN 0 ELSE dev.seen.btn
    BY <1>4, <2>2, <2>3 DEF Button, TooFar, next
  <2>5. QED BY <1>1, <1>4, <2>2, <2>4 DEF Evaluated, Evaluation, Outcome
<1> HIDE DEF E
<1>6. supply' \in SupplyType /\ supply'.requested = E.mv /\ supply'.match = E.match
  BY <1>1, <1>2 DEF DInv, TypeOK, SupplyType
<1>7. TypeOK' /\ Served(led') BY <1>1, <1>4, <1>6 DEF DInv, TypeOK, Phase
<1>8. SinkLoop' BY <1>1, <1>4 DEF DInv, SinkLoop
<1>9. Shown'
  <2>1. dev.mode = "sink" => led.state = NEGOTIATING BY <1>1 DEF DInv, Reading
  <2>2. QED BY <1>1, <1>4, <2>1, Codes DEF Shown
<1>10. Considered' BY <1>5, <1>6 DEF Considered
<1>11. Switching' BY <1>4 DEF Switching
<1>12. Reading' BY <1>3, <1>4 DEF Reading
<1>13. QED BY <1>7, <1>8, <1>9, <1>10, <1>11, <1>12 DEF DInv

\* GotoMin: the output goes off, and the LED with it.
LEMMA TakeBackKeeps == ASSUME DInv, TakeBack PROVE DInv'
<1>1. /\ phase = "ready" /\ phase' = "moving" /\ reduced' = TRUE
      /\ contract' = contract /\ enabled' = enabled /\ ~dev.asks
      /\ supply' = Switched(supply, FALSE) /\ ShowOutput(FALSE)
      /\ dev' = [dev EXCEPT !.back = TRUE]
  BY DEF TakeBack, Minimum, Go
<1>2. /\ supply' \in SupplyType /\ supply'.requested = supply.requested
      /\ supply'.match = supply.match /\ supply'.output = FALSE
  BY <1>1 DEF DInv, TypeOK, SupplyType, Switched
<1>3. /\ dev' \in DeviceType /\ dev'.mode = dev.mode /\ dev'.main = dev.main
      /\ dev'.open = dev.open /\ dev'.back = TRUE /\ dev'.state = dev.state
      /\ dev'.cfg = dev.cfg /\ dev'.offer = dev.offer /\ dev'.asks = dev.asks
      /\ dev'.stale = dev.stale /\ dev'.seen = dev.seen
  BY <1>1 DEF DInv, TypeOK, DeviceType
<1>4. Evaluated' = Evaluated BY <1>1, <1>3, SameEvaluation
<1>5. Served(led') /\ (dev.mode = "sink" => led'.state = OUTPUT_OFF)
  BY <1>1, ShowsOutput
<1>6. TypeOK' BY <1>1, <1>2, <1>3, <1>5 DEF DInv, TypeOK, Phase, Served
<1>7. SinkLoop' BY <1>1, <1>3 DEF DInv, SinkLoop
<1>8. Shown' BY <1>2, <1>3, <1>5, Codes DEF Shown
<1>9. Considered' BY <1>1, <1>2, <1>3, <1>4 DEF DInv, Considered, Bargain, Told
<1>10. Switching' BY <1>1, <1>2 DEF Switching
<1>11. Reading' BY <1>1, <1>3, NotReading
<1>12. QED BY <1>5, <1>6, <1>7, <1>8, <1>9, <1>10, <1>11 DEF DInv

\* PS_RDY: the output becomes what the evaluation said, unless the source took
\* its power back.
LEMMA PoweredKeeps == ASSUME DInv, Powered PROVE DInv'
<1>1. /\ phase = "moving" /\ phase' = "ready" /\ reduced' = reduced
      /\ contract' = TRUE /\ enabled' = enabled
      /\ dev' = [dev EXCEPT !.open = reduced /\ @, !.back = reduced]
  BY DEF Powered, Complete, Go
<1>2. /\ dev' \in DeviceType /\ dev'.mode = dev.mode /\ dev'.main = dev.main
      /\ dev'.open = (reduced /\ dev.open) /\ dev'.back = reduced
      /\ dev'.state = dev.state /\ dev'.cfg = dev.cfg /\ dev'.offer = dev.offer
      /\ dev'.asks = dev.asks /\ dev'.stale = dev.stale
      /\ dev'.seen = dev.seen
  BY <1>1 DEF DInv, TypeOK, DeviceType
<1>3. Evaluated' = Evaluated BY <1>1, <1>2, SameEvaluation
<1>4. SinkLoop' BY <1>1, <1>2 DEF DInv, SinkLoop
<1>8. Reading' BY <1>1, <1>2, NotReading
<1>5. CASE reduced
  <2>1. supply' = supply /\ led' = led BY <1>5 DEF Powered, Complete
  <2>2. TypeOK' /\ Served(led') BY <1>1, <1>2, <2>1 DEF DInv, TypeOK, Phase
  <2>3. Shown' BY <1>1, <1>2, <1>5, <2>1, Codes DEF DInv, Shown, Bargain
  <2>4. Considered' BY <1>1, <1>2, <1>3, <2>1 DEF DInv, Considered, Bargain, Told
  <2>5. Switching'
    BY <1>1, <1>2, <1>5, <2>1 DEF DInv, Switching, Bargain, Told
  <2>6. QED BY <1>4, <1>8, <2>2, <2>3, <2>4, <2>5 DEF DInv
<1>6. CASE ~reduced
  <2>1. supply' = Switched(supply, supply.match) /\ ShowOutput(supply.match)
    BY <1>6 DEF Powered, Complete
  <2>2. /\ supply' \in SupplyType /\ supply'.requested = supply.requested
        /\ supply'.present = supply.requested /\ supply'.match = supply.match
        /\ supply'.output = (supply.match /\ enabled) /\ supply.match \in BOOLEAN
    BY <2>1 DEF DInv, TypeOK, SupplyType, Switched
  <2>3. /\ Served(led')
        /\ dev.mode = "sink" =>
             led'.state = IF supply.match /\ enabled THEN OUTPUT_ON ELSE OUTPUT_OFF
    BY <2>1, <2>2, ShowsOutput
  <2>4. TypeOK' BY <1>1, <1>2, <2>2, <2>3 DEF DInv, TypeOK, Phase, Served
  <2>5. Shown'
    <3>1. CASE supply.match /\ enabled
      <4>1. supply'.output BY <2>2, <3>1
      <4>2. dev.mode = "sink" => led'.state = OUTPUT_ON BY <2>3, <3>1
      <4>3. QED BY <1>2, <2>2, <4>1, <4>2, Codes DEF Shown
    <3>2. CASE ~(supply.match /\ enabled)
      <4>1. ~supply'.output BY <2>2, <3>2
      <4>2. dev.mode = "sink" => led'.state = OUTPUT_OFF BY <2>3, <3>2
      <4>3. QED BY <1>2, <4>1, <4>2, Codes DEF Shown
    <3>3. QED BY <3>1, <3>2
  <2>6. Considered' BY <1>1, <1>2, <1>3, <2>2 DEF DInv, Considered, Bargain, Told
  <2>7. Switching' BY <1>1, <2>2 DEF Switching
  <2>8. QED BY <1>4, <1>8, <2>3, <2>4, <2>5, <2>6, <2>7 DEF DInv
<1>7. QED BY <1>5, <1>6 DEF DInv, TypeOK

\* On the way through a hard reset nothing is said of the evaluation.
LEMMA Resetting ==
    ASSUME phase' \notin Bargain PROVE Considered' /\ Switching'
BY DEF Considered, Switching

\* The output is off, at 5 V, and the LED says so.
LEMMA DefaultedKeeps ==
    ASSUME DInv, supply' = Defaulted(supply), ShowOutput(FALSE), SameDevice,
           phase # "offered", phase' = "resetting", contract' \in BOOLEAN, reduced' \in BOOLEAN
    PROVE  DInv'
<1>1. supply' \in SupplyType /\ supply'.output = FALSE
  <2> DEFINE r == [supply EXCEPT !.requested = 5000]
  <2>1. r \in SupplyType BY DEF DInv, TypeOK, SupplyType
  <2>2. supply' = Switched(r, FALSE) BY DEF Defaulted
  <2> HIDE DEF r
  <2>3. QED BY <2>1, <2>2 DEF SupplyType, Switched
<1>2. dev' = dev /\ enabled' = enabled BY DEF SameDevice
<1>3. Served(led') /\ (dev.mode = "sink" => led'.state = OUTPUT_OFF)
  BY ShowsOutput
<1>4. TypeOK' BY <1>1, <1>2, <1>3 DEF DInv, TypeOK, Phase, Served
<1>5. SinkLoop' BY <1>2 DEF DInv, SinkLoop
<1>6. Shown' BY <1>1, <1>2, <1>3, Codes DEF Shown
<1>7. Reading' BY <1>2, NotReading
<1>8. QED BY <1>7, <1>3, <1>4, <1>5, <1>6, Resetting DEF DInv, Bargain

LEMMA BrokenKeeps == ASSUME DInv, Broken PROVE DInv'
<1>1. /\ phase \notin {"offered", "typec"} /\ phase' = "resetting"
      /\ contract' = contract /\ reduced' = reduced
  BY DEF Broken, Fail, Go, SameTerms
<1>2. CASE supply' = Defaulted(supply) /\ ShowOutput(FALSE) /\ SameDevice
  BY <1>1, <1>2, DefaultedKeeps DEF DInv, TypeOK
<1>3. CASE /\ supply' = supply /\ enabled' = enabled /\ led' = led
           /\ dev' \in {dev, [dev EXCEPT !.asks = FALSE]}
  <2>1. dev' \in DeviceType /\ dev'.mode = dev.mode /\ dev'.main = dev.main
      /\ dev'.seen = dev.seen
    BY <1>3 DEF DInv, TypeOK, DeviceType
  <2>2. TypeOK' /\ Served(led') BY <1>1, <1>3, <2>1 DEF DInv, TypeOK, Phase
  <2>3. SinkLoop' BY <1>3, <2>1 DEF DInv, SinkLoop
  <2>4. Shown' BY <1>1, <1>3, <2>1 DEF DInv, Shown, Bargain
  <2>6. Reading' BY <1>1, <2>1, NotReading
  <2>5. QED BY <1>1, <2>6, <2>2, <2>3, <2>4, Resetting DEF DInv, Bargain
<1>4. QED BY <1>2, <1>3 DEF Broken

LEMMA ToDefaultKeeps == ASSUME DInv, ToDefault PROVE DInv'
BY DefaultedKeeps DEF ToDefault, Default, Go, DInv, TypeOK

LEMMA pd_startKeeps == ASSUME DInv, pd_start PROVE DInv'
<1>1. /\ phase = "resetting" /\ phase' = "waiting" /\ supply' = supply /\ contract' = FALSE
      /\ reduced' = reduced /\ dev' = dev /\ enabled' = enabled /\ Show(NEGOTIATING)
  BY DEF pd_start, Start, Go, SameDevice
<1>2. Served(led') /\ (dev.mode = "sink" => led'.state = NEGOTIATING) BY <1>1, Shows
<1>3. TypeOK' BY <1>1, <1>2 DEF DInv, TypeOK, Phase, Served
<1>4. SinkLoop' BY <1>1 DEF DInv, SinkLoop
<1>5. Shown' BY <1>1, <1>2, Codes DEF Shown, Bargain
<1>6. Reading' BY <1>1, NotReading
<1>7. QED BY <1>6, <1>1, <1>2, <1>3, <1>4, <1>5, Resetting DEF DInv, Bargain

LEMMA Measures ==
    ASSUME supply \in SupplyType, NEW b \in BOOLEAN
    PROVE  Measured(supply, b) \in SupplyType
           /\ Measured(supply, b).output = supply.output
<1> DEFINE r == [supply EXCEPT !.requested = 5000]
<1>1. r \in SupplyType /\ r.output = supply.output BY DEF SupplyType
<1> DEFINE q == [r EXCEPT !.match = b]
<1>3. Measured(supply, b) = q BY DEF Measured
<1> HIDE DEF r
<1>2. q \in SupplyType /\ q.output = r.output
  <2>1. CASE b = TRUE BY <1>1, <2>1 DEF SupplyType
  <2>2. CASE b = FALSE BY <1>1, <2>2 DEF SupplyType
  <2>3. QED BY <2>1, <2>2
<1>4. QED BY <1>1, <1>2, <1>3

\* Without PD the LED and the output change together, or not at all.
LEMMA UnresponsiveKeeps == ASSUME DInv, Unresponsive PROVE DInv'
<1> DEFINE Enough(tcc) == TypeCMatch(dev.cfg, tcc)
           Once(tcc) == Measured(supply, Enough(tcc))
           Mark(tcc) == IF Enough(tcc) THEN 1 ELSE 0
<1>1. PICK tcc \in {"none", "default", "1.5A", "3.0A"} :
        /\ Measure(Enough(tcc))
        /\ supply' = IF dev.old = Mark(tcc) THEN Switched(Once(tcc), Enough(tcc))
                     ELSE Once(tcc)
        /\ IF dev.old # Mark(tcc) THEN UNCHANGED led
           ELSE IF tcc = "default" THEN Show(OUTPUT_OFF_NO_TYPEC)
           ELSE ShowOutput(Enough(tcc))
        /\ dev' = [dev EXCEPT !.old = Mark(tcc)]
        /\ UNCHANGED <<enabled, said>>
  BY DEF Unresponsive
<1>2. Enough(tcc) \in BOOLEAN /\ (tcc = "default" => ~Enough(tcc))
  BY DEF TypeCMatch, DInv, TypeOK, DeviceType
<1> DEFINE m == Enough(tcc)
           once == Once(tcc)
           k == Mark(tcc)
<1>3. m \in BOOLEAN /\ k \in -1..1 BY <1>2
<1>4. /\ once \in SupplyType /\ once.output = supply.output
  BY <1>3, Measures DEF DInv, TypeOK
<1>5. /\ phase = "typec" /\ phase' = "typec" /\ contract' = contract
      /\ reduced' = reduced /\ enabled' = enabled
  BY <1>1 DEF Measure, Go, SameTerms
<1>6. dev' = [dev EXCEPT !.old = k] BY <1>1
<1>10. Reading'
  <2>1. dev'.seen = dev.seen BY <1>6 DEF DInv, TypeOK, DeviceType
  <2>2. QED BY <1>5, <2>1, NotReading
<1>7. CASE dev.old # k
  <2>1. supply' = once /\ led' = led BY <1>1, <1>7
  <2> HIDE DEF m, once, k, Enough, Once, Mark
  <2>2. dev' \in DeviceType /\ dev'.mode = dev.mode /\ dev'.main = dev.main
    BY <1>3, <1>6 DEF DInv, TypeOK, DeviceType
  <2>3. TypeOK' BY <1>4, <1>5, <2>1, <2>2 DEF DInv, TypeOK
  <2>4. Served(led') /\ SinkLoop' BY <1>5, <2>1, <2>2 DEF DInv, SinkLoop
  <2>5. Shown' BY <1>4, <1>5, <2>1, <2>2 DEF DInv, Shown, Bargain
  <2>6. QED BY <1>5, <1>10, <2>3, <2>4, <2>5, Resetting DEF DInv, Bargain
<1>8. CASE dev.old = k
  <2>1. /\ supply' = Switched(once, m)
        /\ IF tcc = "default" THEN Show(OUTPUT_OFF_NO_TYPEC) ELSE ShowOutput(m)
    BY <1>1, <1>8
  <2>0. tcc = "default" => ~m BY <1>2
  <2> HIDE DEF m, once, k, Enough, Once, Mark
  <2>2. dev' \in DeviceType /\ dev'.mode = dev.mode /\ dev'.main = dev.main
    BY <1>3, <1>6 DEF DInv, TypeOK, DeviceType
  <2>3. /\ supply' \in SupplyType /\ supply'.output = (m /\ enabled)
    BY <1>3, <1>4, <2>1 DEF SupplyType, Switched, DInv, TypeOK
  <2>4. /\ Served(led')
        /\ dev.mode = "sink" => \/ m /\ enabled /\ led'.state = OUTPUT_ON
                                \/ ~(m /\ enabled) /\ led'.state \in
                                     {OUTPUT_OFF, OUTPUT_OFF_NO_TYPEC}
    <3>1. CASE tcc = "default" BY <2>0, <2>1, <3>1, Shows
    <3>2. CASE tcc # "default" BY <1>3, <2>1, <3>2, ShowsOutput
    <3>3. QED BY <3>1, <3>2
  <2>5. TypeOK' BY <1>5, <2>2, <2>3, <2>4 DEF DInv, TypeOK, Served
  <2>6. SinkLoop' BY <1>5, <2>2 DEF DInv, SinkLoop
  <2>7. Shown'
    <3>1. CASE m /\ enabled
      <4>1. supply'.output BY <2>3, <3>1
      <4>2. dev.mode = "sink" => led'.state = OUTPUT_ON BY <2>4, <3>1
      <4>3. QED BY <1>5, <2>2, <4>1, <4>2, Codes DEF Shown, Bargain
    <3>2. CASE ~(m /\ enabled)
      <4>1. ~supply'.output BY <2>3, <3>2
      <4>2. dev.mode = "sink" => led'.state \in {OUTPUT_OFF, OUTPUT_OFF_NO_TYPEC}
        BY <2>4, <3>2
      <4>3. QED BY <1>5, <2>2, <4>1, <4>2, Codes DEF Shown, Bargain
    <3>3. QED BY <3>1, <3>2
  <2>8. QED BY <1>5, <1>10, <2>4, <2>5, <2>6, <2>7, Resetting DEF DInv, Bargain
<1>9. QED BY <1>7, <1>8

-----------------------------------------------------------------------------
(* The main thread's steps.                                                *)

\* Where the main thread's steps leave contract, supply, output switch and mode
\* alone, the LED still shows what it showed.
LEMMA StillShown ==
    ASSUME DInv, UNCHANGED terms, dev'.mode = dev.mode, dev'.open = dev.open,
           dev.mode = "sink" => led'.state = led.state
    PROVE  Shown'
BY DEF DInv, Shown, terms, Bargain

\* After a command or a press that changes an input, NEW_POWER is still to come.
LEMMA Untold ==
    ASSUME DInv, dev'.main = "held" \/ dev'.asks,
           phase' = phase, dev'.seen = dev.seen, dev'.mode = dev.mode,
           dev.mode = "sink" => led'.state = led.state
    PROVE  Considered' /\ Switching' /\ Reading'
BY DEF DInv, Considered, Switching, Reading, Told

\* A step that changes none of them.
LEMMA StillTold ==
    ASSUME DInv, UNCHANGED vars, dev'.open = dev.open, dev'.back = dev.back,
           dev'.cfg = dev.cfg \/ dev'.stale, dev'.offer = dev.offer,
           dev'.state = dev.state, dev'.asks = dev.asks,
           dev'.stale = dev.stale \/ dev'.stale, dev'.seen = dev.seen,
           dev'.mode = dev.mode, dev.mode = "sink" => led'.state = led.state,
           Told' => Told
    PROVE  Considered' /\ Switching' /\ Reading'
<1>1. enabled' = enabled /\ phase' = phase /\ supply' = supply BY DEF vars, terms
<1>2. Switching' BY <1>1 DEF DInv, Switching
<1>3. Considered'
  <2>1. CASE dev'.stale BY <2>1 DEF Considered
  <2>2. CASE ~dev'.stale
    <3>1. Evaluated' = Evaluated BY <1>1, <2>2, SameEvaluation
    <3>2. QED BY <1>1, <2>2, <3>1 DEF DInv, Considered
  <2>3. QED BY <2>1, <2>2
<1>4. Reading' BY <1>1 DEF DInv, Reading
<1>5. QED BY <1>2, <1>3, <1>4

LEMMA PressKeeps == ASSUME DInv, Press PROVE DInv'
<1> DEFINE c == dev.cnt + 1
<1>1. /\ dev.mode = "sink" /\ enabled' = enabled /\ phase' = phase /\ supply' = supply
      /\ contract' = contract /\ reduced' = reduced
      /\ led' = [led EXCEPT !.lit = FALSE]
      /\ dev' = [dev EXCEPT !.main = "held", !.state = c,
                            !.cnt = IF c > 3 THEN 0 ELSE c]
  BY DEF Press, At, vars, terms
<1>2. c \in 0..4 /\ (IF c > 3 THEN 0 ELSE c) \in 0..3
  BY DEF DInv, TypeOK, DeviceType
<1>3. /\ dev' \in DeviceType /\ dev'.mode = dev.mode /\ dev'.main = "held"
      /\ dev'.open = dev.open /\ dev'.seen = dev.seen
  BY <1>1, <1>2 DEF DInv, TypeOK, DeviceType
<1>4. Served(led') /\ led'.state = led.state BY <1>1 DEF DInv, Served, LEDType
<1>5. TypeOK' BY <1>1, <1>3, <1>4 DEF DInv, TypeOK, Served
<1>6. SinkLoop' BY <1>1, <1>3 DEF DInv, SinkLoop
<1>7. Shown' BY <1>1, <1>3, <1>4, StillShown DEF terms
<1>8. QED BY <1>1, <1>3, <1>4, <1>5, <1>6, <1>7, Untold DEF DInv

\* NEW_POWER is signalled: at the start of the sink loop, and when the button is
\* released.
LEMMA TellsKeep == ASSUME DInv, SinkBoot \/ Release PROVE DInv'
<1>1. /\ enabled' = enabled /\ phase' = phase /\ supply' = supply
      /\ contract' = contract /\ reduced' = reduced /\ led' = led
  BY DEF SinkBoot, Release, vars, terms
<1>2. /\ dev' \in DeviceType /\ dev'.mode = dev.mode /\ dev'.main = "idle"
      /\ dev'.open = dev.open /\ dev'.asks /\ dev'.seen = dev.seen
  <2>1. CASE SinkBoot
    <3>1. dev' = [dev EXCEPT !.main = "idle", !.state = 0, !.asks = TRUE]
      BY <2>1 DEF SinkBoot
    <3>2. dev \in DeviceType BY DEF DInv, TypeOK
    <3>3. dev' \in DeviceType
      <4> DEFINE r == [dev EXCEPT !.main = "idle", !.asks = TRUE]
      <4>1. r \in DeviceType BY <3>2 DEF DeviceType
      <4>2. dev' = [r EXCEPT !.state = 0] BY <3>1, <3>2 DEF DeviceType
      <4> HIDE DEF r
      <4>3. QED BY <4>1, <4>2 DEF DeviceType
    <3>4. /\ dev'.mode = dev.mode /\ dev'.main = "idle"
          /\ dev'.open = dev.open /\ dev'.asks /\ dev'.seen = dev.seen
      BY <3>1, <3>2 DEF DeviceType
    <3>5. QED BY <3>3, <3>4
  <2>2. CASE Release BY <2>2 DEF Release, DInv, TypeOK, DeviceType
  <2>3. QED BY <2>1, <2>2
<1>3. TypeOK' /\ Served(led') BY <1>1, <1>2 DEF DInv, TypeOK
<1>4. SinkLoop' BY <1>1, <1>2 DEF DInv, SinkLoop
<1>5. Shown' BY <1>1, <1>2, StillShown DEF terms
<1>6. QED BY <1>1, <1>2, <1>3, <1>4, <1>5, Untold DEF DInv

\* The commands that change the output switch or the configuration.
LEMMA CommandsKeep ==
    ASSUME DInv, \/ \E on \in BOOLEAN : cmd_output(on)
                 \/ \E c \in Configs : cmd_write(c)
    PROVE  DInv'
<1>1. /\ dev.mode = "setup" /\ enabled' \in BOOLEAN /\ phase' = phase
      /\ supply' = supply /\ contract' = contract /\ reduced' = reduced /\ led' = led
  BY DEF cmd_output, cmd_write, At, vars, terms, DInv, TypeOK
<1>2. /\ dev' \in DeviceType /\ dev'.mode = dev.mode /\ dev'.main = dev.main
      /\ dev'.open = dev.open /\ dev'.asks /\ dev'.seen = dev.seen
  <2>1. CASE \E on \in BOOLEAN : cmd_output(on)
    BY <2>1 DEF cmd_output, DInv, TypeOK, DeviceType
  <2>2. CASE \E c \in Configs : cmd_write(c)
    <3>1. PICK c \in Configs : dev' = [dev EXCEPT !.cfg = c, !.asks = TRUE]
      BY <2>2 DEF cmd_write
    <3>2. QED BY <3>1 DEF DInv, TypeOK, DeviceType
  <2>3. QED BY <2>1, <2>2
<1>3. TypeOK' /\ Served(led') BY <1>1, <1>2 DEF DInv, TypeOK
<1>4. SinkLoop' BY <1>1, <1>2 DEF SinkLoop
<1>5. Shown' BY <1>1, <1>2, StillShown DEF terms
<1>6. QED BY <1>1, <1>2, <1>3, <1>4, <1>5, Untold DEF DInv

\* An erasure, and the steps of get_source_cap.
LEMMA OthersKeep ==
    ASSUME DInv, cmd_erase \/ cmd_get_source_cap \/ PrintPDO \/ Listed
    PROVE  DInv'
<1>1. UNCHANGED vars /\ led' = led /\ dev.mode = "setup" /\ dev.main \in {"idle", "list"}
  BY DEF cmd_erase, cmd_get_source_cap, PrintPDO, Listed, At
<1>2. /\ dev' \in DeviceType /\ dev'.mode = dev.mode
      /\ dev'.main \in {"idle", "list"} /\ dev'.open = dev.open /\ dev'.back = dev.back
      /\ dev'.cfg = dev.cfg \/ dev'.stale
      /\ dev'.offer = dev.offer /\ dev'.state = dev.state /\ dev'.asks = dev.asks
      /\ dev'.stale = dev.stale \/ dev'.stale
      /\ dev'.seen = dev.seen
  <2>1. CASE cmd_erase BY <2>1 DEF cmd_erase, At, DInv, TypeOK, DeviceType
  <2>2. CASE cmd_get_source_cap
    <3>1. Len(dev.offer) \in Nat
      <4>1. CASE dev.offer \in Offers BY <4>1, DeviceAssumption
      <4>2. CASE dev.offer = <<>> BY <4>2
      <4>3. QED BY <4>1, <4>2 DEF DInv, TypeOK, DeviceType
    <3>2. QED BY <2>2, <3>1 DEF cmd_get_source_cap, DInv, TypeOK, DeviceType
  <2>3. CASE PrintPDO BY <2>3 DEF PrintPDO, At, DInv, TypeOK, DeviceType
  <2>4. CASE Listed BY <2>4 DEF Listed, DInv, TypeOK, DeviceType
  <2>5. QED BY <2>1, <2>2, <2>3, <2>4
<1>3. TypeOK' /\ Served(led') BY <1>1, <1>2 DEF DInv, TypeOK, vars, terms
<1>4. SinkLoop' BY <1>1, <1>2 DEF SinkLoop
<1>5. Shown' BY <1>1, <1>2, StillShown DEF vars
<1>6. Told' => Told BY <1>1, <1>2 DEF Told
<1>7. QED BY <1>1, <1>2, <1>3, <1>4, <1>5, <1>6, StillTold DEF DInv

LEMMA SetupBootKeeps == ASSUME DInv, SetupBoot PROVE DInv'
<1>1. /\ UNCHANGED vars /\ led' = Signalled(led, CONFIG)
      /\ dev.mode = "setup" /\ dev.main = "boot" /\ dev' = [dev EXCEPT !.main = "idle"]
  BY DEF SetupBoot, At
<1>2. /\ dev' \in DeviceType /\ dev'.mode = dev.mode /\ dev'.main = "idle"
      /\ dev'.open = dev.open /\ dev'.back = dev.back /\ dev'.cfg = dev.cfg
      /\ dev'.offer = dev.offer /\ dev'.state = dev.state /\ dev'.asks = dev.asks
      /\ dev'.stale = dev.stale /\ dev'.seen = dev.seen
  BY <1>1 DEF DInv, TypeOK, DeviceType
<1>3. Served(led')
  <2>1. CONFIG \in Event /\ CONFIG # IDENTIFY
    BY DEF CONFIG, IDENTIFY, SLOW_BLINK, FAST_BLINK_SLOW, Event, OFF, LONG_BLINK
  <2>2. QED BY <1>1, <2>1, SignalShows DEF DInv
<1>4. TypeOK' BY <1>1, <1>2, <1>3 DEF DInv, TypeOK, vars, terms, Served
<1>5. SinkLoop' BY <1>1, <1>2 DEF SinkLoop
<1>6. Shown' BY <1>1, <1>2, StillShown DEF vars
<1>7. Told' => Told BY <1>1, <1>2 DEF Told
<1>8. QED BY <1>1, <1>2, <1>3, <1>4, <1>5, <1>6, <1>7, StillTold DEF DInv

LEMMA TickKeeps == ASSUME DInv, Tick PROVE DInv'
<1>1. UNCHANGED vars /\ dev' = dev /\ led' = Ticked(led) BY DEF Tick
<1>2. Served(led') /\ led'.state = led.state BY <1>1, TickShows DEF DInv
<1>3. TypeOK' BY <1>1, <1>2 DEF DInv, TypeOK, vars, terms, Served
<1>4. SinkLoop' BY <1>1 DEF DInv, SinkLoop, vars
<1>5. Shown' BY <1>1, <1>2, StillShown DEF vars
<1>6. Told' => Told BY <1>1 DEF Told
<1>7. Considered' /\ Switching' /\ Reading' BY <1>1, <1>2, <1>6, StillTold
<1>8. QED BY <1>2, <1>3, <1>4, <1>5, <1>7 DEF DInv

LEMMA StutterKeeps == ASSUME DInv, UNCHANGED devVars PROVE DInv'
<1>1. UNCHANGED vars /\ dev' = dev /\ led' = led BY DEF devVars
<1>2. TypeOK' /\ Served(led') /\ SinkLoop'
  BY <1>1 DEF DInv, TypeOK, SinkLoop, vars, terms
<1>3. Shown' BY <1>1, StillShown DEF vars
<1>4. Told' => Told BY <1>1 DEF Told
<1>5. Considered' /\ Switching' /\ Reading' BY <1>1, <1>4, StillTold
<1>6. QED BY <1>2, <1>3, <1>5 DEF DInv

-----------------------------------------------------------------------------
LEMMA BeginsRight == ASSUME Begin PROVE DInv
<1>1. PICK m \in Modes, c \in Configs \cup {NoConfig} :
        /\ enabled = (m = "sink")
        /\ dev = [mode |-> m, main |-> "boot", i |-> 0, n |-> 0, cfg |-> c,
                  offer |-> <<>>, state |-> 0, cnt |-> 1, asks |-> FALSE,
                  open |-> FALSE, back |-> FALSE, stale |-> FALSE, seen |-> Unread,
                  old |-> -1]
  BY DEF Begin
<1>2. /\ phase = "resetting" /\ contract = FALSE /\ reduced = FALSE
      /\ supply = [requested |-> 0, present |-> 5000, match |-> FALSE, output |-> FALSE]
      /\ led = LEDInit /\ enabled \in BOOLEAN
  BY DEF Begin, Init
<1>3. dev \in DeviceType BY <1>1, DeviceAssumption DEF DeviceType, SeenType, Unread
<1>4. Served(led)
  BY <1>2 DEF Served, LEDInit, LEDType, Event, OFF, ON, LONG_BLINK, IDENTIFY,
              FAST_BLINK_SLOW
<1>10. supply \in SupplyType BY <1>2 DEF SupplyType
<1>5. TypeOK BY <1>2, <1>3, <1>4, <1>10 DEF TypeOK, Phase, Served
<1>6. SinkLoop BY <1>1 DEF SinkLoop
<1>7. Shown BY <1>1, <1>2, Codes DEF Shown, Bargain, LEDInit
<1>8. Considered /\ Switching BY <1>2 DEF Considered, Switching, Bargain
<1>11. Reading BY <1>1 DEF Reading, Unread
<1>9. QED BY <1>11, <1>4, <1>5, <1>6, <1>7, <1>8 DEF DInv

LEMMA StepKeeps == ASSUME DInv, [Step]_devVars PROVE DInv'
<1>1. CASE PolicyEngineSteps
  BY <1>1, OffersKeep, ReadInputsKeeps, evaluate_capabilityKeeps, AgainKeeps, AgreedKeeps, RefusedKeeps,
     TakeBackKeeps, PoweredKeeps, SoftlyKeeps, BrokenKeeps, ToDefaultKeeps, pd_startKeeps,
     GivenUpKeeps, UnresponsiveKeeps DEF PolicyEngineSteps
<1>2. CASE MainThread
  BY <1>2, TellsKeep, PressKeeps, SetupBootKeeps, CommandsKeep, OthersKeep DEF MainThread
<1>3. CASE Tick BY <1>3, TickKeeps
<1>4. CASE UNCHANGED devVars BY <1>4, StutterKeeps
<1>5. QED BY <1>1, <1>2, <1>3, <1>4 DEF Step

LEMMA Always == DeviceSpec => []DInv
<1>1. Begin => DInv BY BeginsRight
<1>2. DInv /\ [Step]_devVars => DInv' BY StepKeeps
<1>3. QED BY <1>1, <1>2, PTL DEF DeviceSpec

\* The LED says that the output is on or off only when it is, and says which
\* once PS_RDY has followed the last evaluation: whatever is signalled while
\* something else is shown (led.c, main.c), for any source and configuration.
THEOREM LedTellsOutput == DeviceSpec => []LedFollows
<1>1. DInv => LedFollows BY DEF DInv, Shown, LedFollows, Bargain
<1>2. QED BY <1>1, Always, PTL

\* However many times it blinks and whenever the button clears the pin under it
\* (main.c:164), the indication that the output is on ends dark (led.c).
THEOREM EndsDark == DeviceSpec => []DarkWhenDone
<1>1. DInv => DarkWhenDone
  BY Codes DEF DInv, Served, DarkWhenDone
<1>2. QED BY <1>1, Always, PTL

\* No press and no command is lost: once the Policy Engine is ready and nothing
\* is pending, what was asked for is what the configuration, the button and the
\* switch want of the present offer (device_policy_manager.c), and the output is
\* on if and only if that is enough and allowed.
THEOREM PowerIsAsAsked == DeviceSpec => []OutputMeansPower
<1>1. DInv => OutputMeansPower
  <2>1. SUFFICES ASSUME DInv, phase = "ready", dev.main = "idle", ~dev.asks,
                        ~dev.open, ~dev.stale
                 PROVE  /\ supply.requested = Evaluated.mv
                        /\ supply.output => Evaluated.match /\ enabled
                        /\ ~dev.back => supply.output = (Evaluated.match /\ enabled)
    BY DEF OutputMeansPower
  <2>2. supply.requested = Evaluated.mv /\ supply.match = Evaluated.match
    BY <2>1 DEF DInv, Considered, Bargain, Told
  <2>3. /\ supply.output => supply.match /\ enabled
        /\ ~dev.back => supply.output = (supply.match /\ enabled)
    BY <2>1 DEF DInv, Switching, Bargain, Told
  <2>4. QED BY <2>2, <2>3
<1>2. QED BY <1>1, Always, PTL

-----------------------------------------------------------------------------
(* The listing.                                                            *)

\* PDOs are counted from 1.
Counting == dev.main = "list" => dev.i # 0

\* The Policy Engine's steps do not touch the main thread.
LEMMA MainUntouched ==
    ASSUME DInv, PolicyEngineSteps
    PROVE  dev'.main = dev.main /\ dev'.i = dev.i /\ said' = said
<1>1. dev \in DeviceType BY DEF DInv, TypeOK
<1>2. CASE \/ Again \/ Agreed \/ Refused \/ Softly \/ ToDefault \/ pd_start \/ GivenUp
  <2>1. dev' = dev /\ said' = said
    BY <1>2 DEF Again, Agreed, Refused, Softly, ToDefault, pd_start, GivenUp, Quiet,
                SameDevice
  <2>2. QED BY <2>1
<1>3. CASE Offered BY <1>1, <1>3 DEF Offered, DeviceType
<1>4. CASE Reconsider BY <1>1, <1>4 DEF Reconsider, DeviceType
<1>5. CASE ReadInputs \/ evaluate_capability
  BY <1>1, <1>5 DEF ReadInputs, evaluate_capability, DeviceType
<1>6. CASE TakeBack BY <1>1, <1>6 DEF TakeBack, DeviceType
<1>7. CASE Powered BY <1>1, <1>7 DEF Powered, DeviceType
<1>8. CASE Broken BY <1>1, <1>8 DEF Broken, SameDevice, DeviceType
<1>9. CASE Unresponsive
  <2>1. said' = said /\ \E k : dev' = [dev EXCEPT !.old = k] BY <1>9 DEF Unresponsive
  <2>2. QED BY <1>1, <2>1 DEF DeviceType
<1>10. QED
  BY <1>2, <1>3, <1>4, <1>5, <1>6, <1>7, <1>8, <1>9 DEF PolicyEngineSteps

LEMMA CountingKept == ASSUME DInv, Counting, [Step]_devVars PROVE Counting'
<1>1. dev \in DeviceType BY DEF DInv, TypeOK
<1>2. CASE PolicyEngineSteps BY <1>2, MainUntouched DEF Counting
<1>3. CASE cmd_get_source_cap
  BY <1>1, <1>3 DEF cmd_get_source_cap, DeviceType, Counting
<1>4. CASE PrintPDO
  <2>1. dev.i \in Nat /\ dev'.i = dev.i + 1 BY <1>1, <1>4 DEF PrintPDO, DeviceType
  <2>2. QED BY <2>1 DEF Counting
<1>5. CASE \/ SinkBoot \/ Press \/ Release \/ SetupBoot \/ cmd_erase \/ Listed
           \/ (\E on \in BOOLEAN : cmd_output(on))
           \/ (\E c \in Configs : cmd_write(c))
  <2>1. CASE SinkBoot \/ Release \/ SetupBoot \/ Listed
    BY <1>1, <2>1 DEF SinkBoot, Release, SetupBoot, Listed, DeviceType, Counting
  <2>2. CASE Press BY <1>1, <2>2 DEF Press, DeviceType, Counting
  <2>3. CASE cmd_erase BY <1>1, <2>3 DEF cmd_erase, At, DeviceType, Counting
  <2>4. CASE \E on \in BOOLEAN : cmd_output(on)
    BY <1>1, <2>4 DEF cmd_output, DeviceType, Counting
  <2>5. CASE \E c \in Configs : cmd_write(c)
    BY <1>1, <2>5 DEF cmd_write, DeviceType, Counting
  <2>6. QED BY <1>5, <2>1, <2>2, <2>3, <2>4, <2>5
<1>6. CASE Tick \/ UNCHANGED devVars BY <1>6 DEF Tick, devVars, Counting
<1>7. QED BY <1>2, <1>3, <1>4, <1>5, <1>6 DEF Step, MainThread

\* A number in units of a twentieth, or of a tenth, is its whole units and its
\* hundredths.
LEMMA Hundredths ==
    ASSUME NEW n \in Nat
    PROVE  /\ 100 * (n \div 20) + 5 * (n % 20) = 5 * n
           /\ 100 * (n \div 10) + 10 * (n % 10) = 10 * n
           /\ 100 * (n \div 100) + (n % 100) = n
OBVIOUS

\* What is printed of a PDO.
LEMMA PrintsFixed ==
    ASSUME NEW pdo \in PDO, pdo.kind = "fixed", NEW index
    PROVE  LET s == print_src_pdo(pdo, index) IN
           /\ s.index = index /\ s.kind = "fixed"
           /\ 10 * Centi(s.v) = Round(pdo.lo, 50) /\ Centi(s.i) = pdo.ca
<1>1. pdo.lo \in Nat /\ pdo.ca \in Nat BY DEF PDO
<1>2. pdo.lo \div 50 \in Nat BY <1>1
<1>3. Centi(PdvDecimal(pdo.lo \div 50)) = 5 * (pdo.lo \div 50)
  BY <1>2, Hundredths DEF Centi, PdvDecimal
<1>4. Centi(Decimal(pdo.ca)) = pdo.ca BY <1>1, Hundredths DEF Centi, Decimal
<1>5. print_src_pdo(pdo, index) =
        [index |-> index, kind |-> "fixed", v |-> PdvDecimal(pdo.lo \div 50),
         i |-> Decimal(pdo.ca)]
  BY DEF print_src_pdo, PD_MV2PDV
<1>6. 10 * (5 * (pdo.lo \div 50)) = Round(pdo.lo, 50) BY <1>2 DEF Round
<1>7. QED BY <1>3, <1>4, <1>5, <1>6

LEMMA PrintsPps ==
    ASSUME NEW pdo \in PDO, pdo.kind # "fixed", NEW index
    PROVE  LET s == print_src_pdo(pdo, index) IN
           /\ s.index = index /\ s.kind = pdo.kind
           /\ 10 * Centi(s.vmin) = Round(pdo.lo, 100)
           /\ 10 * Centi(s.vmax) = Round(pdo.hi, 100)
           /\ Centi(s.i) \in pdo.ca..(pdo.ca + 4)
<1>1. pdo.lo \in Nat /\ pdo.hi \in Nat /\ pdo.ca \in Nat /\ pdo.kind = "pps"
  BY DEF PDO
<1> DEFINE lo == pdo.lo \div 100
           hi == pdo.hi \div 100
           ca == (pdo.ca + 4) \div 5
<1>2. lo \in Nat /\ hi \in Nat /\ ca \in Nat BY <1>1
<1>3. print_src_pdo(pdo, index) =
        [index |-> index, kind |-> "pps", vmin |-> PavDecimal(lo),
         vmax |-> PavDecimal(hi), i |-> PaiDecimal(ca)]
  BY DEF print_src_pdo, PD_MV2PAV, PD_CA2PAI
<1>4. 10 * (10 * lo) = Round(pdo.lo, 100) /\ 10 * (10 * hi) = Round(pdo.hi, 100)
  BY <1>2 DEF Round
<1>5. 5 * ca \in pdo.ca..(pdo.ca + 4) BY <1>1
<1> HIDE DEF lo, hi, ca
<1>6. Centi(PavDecimal(lo)) = 10 * lo /\ Centi(PavDecimal(hi)) = 10 * hi
  BY <1>2, Hundredths DEF Centi, PavDecimal
<1>7. Centi(PaiDecimal(ca)) = 5 * ca BY <1>2, Hundredths DEF Centi, PaiDecimal
<1>8. QED BY <1>1, <1>3, <1>4, <1>5, <1>6, <1>7

\* get_source_cap prints the capabilities there are, to the resolution of their
\* fields and whatever the source sends meanwhile (shell.c).
THEOREM ListsWhatIsOffered == DeviceSpec => ListingTrue
<1> DEFINE Exact ==
      said' \notin {said, None} =>
         LET pdo == dev.offer[said'.index] IN
         /\ said'.kind = pdo.kind
         /\ IF pdo.kind = "fixed"
            THEN /\ 10 * Centi(said'.v) = Round(pdo.lo, 50)
                 /\ Centi(said'.i) = pdo.ca
            ELSE /\ 10 * Centi(said'.vmin) = Round(pdo.lo, 100)
                 /\ 10 * Centi(said'.vmax) = Round(pdo.hi, 100)
                 /\ Centi(said'.i) \in pdo.ca..(pdo.ca + 4)
<1>1. Begin => DInv /\ Counting
  <2>1. Begin => dev.main = "boot" BY DEF Begin
  <2>2. QED BY <2>1, BeginsRight DEF Counting
<1>2. DInv /\ Counting /\ [Step]_devVars => (DInv /\ Counting)'
  BY StepKeeps, CountingKept
<1>3. DInv /\ Counting /\ [Step]_devVars => Exact
  <2>1. SUFFICES ASSUME DInv, Counting, [Step]_devVars, said' \notin {said, None}
                 PROVE  Exact
    OBVIOUS
  <2>2. PrintPDO
    <3>1. ~PolicyEngineSteps BY <2>1, MainUntouched
    <3>2. QED
      BY <2>1, <3>1 DEF Step, MainThread, SinkBoot, Press, Release, SetupBoot,
         cmd_erase, cmd_get_source_cap, Listed, cmd_output, cmd_write, Tick, devVars
  <2> DEFINE pdo == dev.offer[dev.i]
  <2>3. /\ dev.offer \in Seq(PDO) /\ dev.i \in 1..Len(dev.offer)
        /\ said' = print_src_pdo(pdo, dev.i)
    <3>1. dev.i <= Len(dev.offer) /\ said' = print_src_pdo(pdo, dev.i)
      BY <2>1, <2>2 DEF PrintPDO
    <3>2. dev.i \in Nat \ {0} BY <2>1, <2>2 DEF PrintPDO, At, Counting, DInv, TypeOK, DeviceType
    <3>3. dev.offer \in Seq(PDO)
      <4>1. <<>> \in Seq(PDO) OBVIOUS
      <4>2. QED BY <2>1, <4>1, DeviceAssumption DEF DInv, TypeOK, DeviceType
    <3>4. QED BY <3>1, <3>2, <3>3
  <2>4. pdo \in PDO BY <2>3
  <2> HIDE DEF pdo
  <2>5. CASE pdo.kind = "fixed" BY <2>3, <2>4, <2>5, PrintsFixed DEF pdo
  <2>6. CASE pdo.kind # "fixed" BY <2>3, <2>4, <2>6, PrintsPps DEF pdo
  <2>7. QED BY <2>5, <2>6
<1>4. QED BY <1>1, <1>2, <1>3, PTL DEF DeviceSpec, ListingTrue

-----------------------------------------------------------------------------
(* The contract.                                                           *)

LEMMA Negotiated == ASSUME Negotiate, enabled' = enabled PROVE Next
BY DEF Next

LEMMA NegotiatesByContract == ASSUME DInv, PolicyEngineSteps PROVE [Next]_vars
<1>1. enabled' = enabled
  <2>1. CASE \/ Again \/ Agreed \/ Refused \/ Softly \/ ToDefault \/ pd_start \/ GivenUp
    BY <2>1 DEF Again, Agreed, Refused, Softly, ToDefault, pd_start, GivenUp, Quiet,
                SameDevice
  <2>2. CASE Offered \/ Reconsider \/ evaluate_capability \/ TakeBack \/ Powered
    BY <2>2 DEF Offered, Reconsider, evaluate_capability, TakeBack, Powered
  <2>5. CASE ReadInputs BY <2>5 DEF ReadInputs, vars
  <2>3. CASE Broken \/ Unresponsive
    BY <2>3 DEF Broken, SameDevice, Unresponsive
  <2>4. QED BY <2>1, <2>2, <2>3, <2>5 DEF PolicyEngineSteps
<1>7. CASE ReadInputs BY <1>7 DEF ReadInputs
<1>2. CASE evaluate_capability
  <2> DEFINE E == Outcome
  <2>1. Decide(E.mv, E.match) BY <1>2 DEF evaluate_capability, Outcome, TooFar
  <2>2. E.mv \in Nat /\ E.match \in BOOLEAN BY EvaluatedNow
  <2> HIDE DEF E
  <2>3. supply'.requested = E.mv /\ supply'.match = E.match
    BY <2>1, <2>2 DEF Decide, DInv, TypeOK, SupplyType
  <2>4. Evaluate BY <2>1, <2>3 DEF Evaluate, Decide
  <2>5. QED BY <1>1, <2>4, Negotiated DEF Negotiate
<1>3. CASE Unresponsive
  <2>1. \E tcc : Measure(TypeCMatch(dev.cfg, tcc)) BY <1>3 DEF Unresponsive
  <2>2. \A tcc : TypeCMatch(dev.cfg, tcc) \in BOOLEAN
    BY DEF TypeCMatch, DInv, TypeOK, DeviceType
  <2>3. TypeC BY <2>1, <2>2 DEF TypeC
  <2>4. QED BY <1>1, <2>3, Negotiated DEF Negotiate
<1>4. CASE Broken BY <1>1, <1>4, Negotiated DEF Broken, Negotiate
<1>5. CASE \/ Offered \/ Reconsider \/ Again \/ Agreed \/ Refused \/ TakeBack
           \/ Powered \/ Softly \/ ToDefault \/ pd_start \/ GivenUp
  <2>1. Negotiate
    BY <1>5 DEF Offered, Reconsider, Again, Agreed, Refused, TakeBack, Powered, Softly,
                ToDefault, pd_start, GivenUp, Negotiate
  <2>2. QED BY <1>1, <2>1, Negotiated
<1>6. QED BY <1>2, <1>3, <1>4, <1>5, <1>7 DEF PolicyEngineSteps

\* What the device does with the load is what SinkContract allows, and what the
\* threads implement (ContractProofs): the evaluation, the button and the shell
\* restrict the contract and never go beyond it.
THEOREM DeviceKeepsContract == DeviceSpec => Spec
<1>1. Begin => Init BY DEF Begin
<1>2. DInv /\ [Step]_devVars => [Next]_vars
  <2>1. SUFFICES ASSUME DInv, [Step]_devVars PROVE [Next]_vars OBVIOUS
  <2>2. CASE PolicyEngineSteps BY <2>1, <2>2, NegotiatesByContract
  <2>3. CASE \E on \in BOOLEAN : cmd_output(on)
    <3>1. Enable BY <2>3 DEF cmd_output, Enable
    <3>2. QED BY <3>1 DEF Next
  <2>4. CASE MainThread /\ ~(\E on \in BOOLEAN : cmd_output(on))
    <3>1. UNCHANGED vars
      BY <2>4 DEF MainThread, SinkBoot, Press, Release, SetupBoot, cmd_erase,
                  cmd_get_source_cap, PrintPDO, Listed, cmd_write
    <3>2. QED BY <3>1
  <2>5. CASE Tick \/ UNCHANGED devVars
    <3>1. UNCHANGED vars BY <2>5 DEF Tick, devVars
    <3>2. QED BY <3>1
  <2>6. QED BY <2>1, <2>2, <2>3, <2>4, <2>5 DEF Step
<1>3. QED BY <1>1, <1>2, Always, PTL DEF DeviceSpec, Spec

-----------------------------------------------------------------------------
(* Sink_Capabilities.                                                      *)

\* A source offers voltages of the fields' ten bits, and vSafe5V only first, as
\* USB Power Delivery has it; the shell stores voltages up to PD_MV_MAX.
LegalOffers ==
    \A o \in Offers : \A i \in 2..Len(o) :
       o[i].kind = "fixed" =>
         o[i].lo < 51200 /\ PD_MV2PDV(o[i].lo) # PD_MV2PDV(5000)
StoredVoltages == \A c \in Configs : c.v <= 21000

WellFormed(caps) ==
    /\ caps[1].lo = 5000
    /\ \A i, j \in 2..Len(caps) : i < j => caps[i].lo < caps[j].lo
    /\ \A i \in 2..Len(caps) : caps[i].lo # 5000

LEMMA OneCap == ASSUME NEW caps, NEW a, caps = <<a>>, a.lo = 5000
                PROVE  WellFormed(caps)
BY DEF WellFormed

LEMMA TwoCaps ==
    ASSUME NEW caps, NEW a, NEW b, caps = <<a, b>>,
           a.lo = 5000, b.lo \in Nat, b.lo # 5000
    PROVE  WellFormed(caps)
<1>1. Len(caps) = 2 /\ caps[1] = a /\ caps[2] = b OBVIOUS
<1>2. \A i \in 2..Len(caps) : i = 2 BY <1>1
<1>3. QED BY <1>1, <1>2 DEF WellFormed

LEMMA ThreeCaps ==
    ASSUME NEW caps, NEW a, NEW b, NEW c, caps = <<a, b, c>>, a.lo = 5000,
           b.lo \in Nat, b.lo # 5000, c.lo \in Nat, c.lo # 5000, b.lo < c.lo
    PROVE  WellFormed(caps)
<1>1. Len(caps) = 3 /\ caps[1] = a /\ caps[2] = b /\ caps[3] = c OBVIOUS
<1>2. \A i, j \in 2..Len(caps) : i < j => i = 2 /\ j = 3 BY <1>1
<1>3. \A i \in 2..Len(caps) : i = 2 \/ i = 3 BY <1>1
<1>4. QED BY <1>1, <1>2, <1>3 DEF WellFormed

\* Short sequences.
LEMMA Nothing ==
    ASSUME NEW a, NEW b, NEW c
    PROVE  /\ <<>> \o <<a>> = <<a>> /\ <<a>> \o <<>> = <<a>>
           /\ <<a, b>> \o <<>> = <<a, b>> /\ <<a, b, c>> \o <<>> = <<a, b, c>>
<1> DEFINE S == {a, b, c}
<1>0. <<a>> \in Seq(S) /\ <<a, b>> \in Seq(S) /\ <<a, b, c>> \in Seq(S) OBVIOUS
<1>1. QED BY <1>0, ConcatEmptySeq

LEMMA Pair ==
    ASSUME NEW s, NEW a, NEW b,
           s \in Seq({a, b}), Len(s) = 2, s[1] = a, s[2] = b
    PROVE  s = <<a, b>>
<1> DEFINE t == <<a, b>>
<1>1. t \in Seq({a, b}) /\ Len(t) = 2 /\ t[1] = a /\ t[2] = b OBVIOUS
<1> HIDE DEF t
<1>2. \A i \in 1..Len(s) : s[i] = t[i] BY <1>1
<1>3. s = t BY <1>1, <1>2, SeqEqual
<1>4. QED BY <1>3 DEF t

LEMMA Joined == ASSUME NEW a, NEW b PROVE <<a>> \o <<b>> = <<a, b>>
<1>1. <<a>> \in Seq({a, b}) /\ <<b>> \in Seq({a, b}) OBVIOUS
<1> DEFINE s == <<a>> \o <<b>>
<1>2. s \in Seq({a, b}) /\ Len(s) = 2 /\ s[1] = a /\ s[2] = b
  BY <1>1, ConcatProperties
<1> HIDE DEF s
<1>3. s = <<a, b>> BY <1>2, Pair
<1>4. QED BY <1>3 DEF s

LEMMA Second == ASSUME NEW a, NEW b PROVE Append(<<a>>, b) = <<a, b>>
<1>1. <<a>> \in Seq({a, b}) OBVIOUS
<1> DEFINE s == Append(<<a>>, b)
<1>2. s \in Seq({a, b}) /\ Len(s) = 2 /\ s[1] = a /\ s[2] = b
  BY <1>1, AppendProperties
<1> HIDE DEF s
<1>3. s = <<a, b>> BY <1>2, Pair
<1>4. QED BY <1>3 DEF s

LEMMA Third == ASSUME NEW a, NEW b, NEW c PROVE Append(<<a, b>>, c) = <<a, b, c>>
<1> DEFINE S == {a, b, c}
           s == Append(<<a, b>>, c)
           t == <<a, b, c>>
<1>0. <<a, b>> \in Seq(S) OBVIOUS
<1>1. s \in Seq(S) /\ Len(s) = 3 /\ s[1] = a /\ s[2] = b /\ s[3] = c
  BY <1>0, AppendProperties
<1>2. t \in Seq(S) /\ Len(t) = 3 /\ t[1] = a /\ t[2] = b /\ t[3] = c OBVIOUS
<1> HIDE DEF s, t
<1>3. \A i \in 1..Len(s) : s[i] = t[i] BY <1>1, <1>2
<1>4. s = t BY <1>1, <1>2, <1>3, SeqEqual
<1>5. QED BY <1>4 DEF s, t

\* Another current in the first of them.
LEMMA FirstCurrent ==
    ASSUME NEW a, NEW b, NEW k
    PROVE  /\ [<<a>> EXCEPT ![1].ca = k] = <<[a EXCEPT !.ca = k]>>
           /\ [<<a, b>> EXCEPT ![1].ca = k] = <<[a EXCEPT !.ca = k], b>>
<1>1. [<<a>> EXCEPT ![1].ca = k] = <<[a EXCEPT !.ca = k]>> OBVIOUS
<1>2. [<<a, b>> EXCEPT ![1].ca = k] = <<[a EXCEPT !.ca = k], b>> OBVIOUS
<1>3. QED BY <1>1, <1>2

\* The voltage of a sink PDO is that of its argument, in steps of 50 mV.
LEMMA SinkVoltage ==
    ASSUME NEW mv \in Nat, mv < 51200, NEW ca
    PROVE  SinkFixed(mv, ca).lo = 50 * (mv \div 50)
<1>1. mv \div 50 \in 0..1023 OBVIOUS
<1>2. Field(mv \div 50, 10) = mv \div 50 BY <1>1 DEF Field
<1>3. QED BY <1>2 DEF SinkFixed, PD_MV2PDV

LEMMA CapsWellFormed ==
    ASSUME NEW scfg \in Configuration \cup {NoConfig}, scfg.v <= 21000,
           NEW o \in Seq(PDO), Len(o) \in 0..7,
           \A i \in 2..Len(o) : o[i].kind = "fixed" =>
              o[i].lo < 51200 /\ PD_MV2PDV(o[i].lo) # PD_MV2PDV(5000)
    PROVE  WellFormed(get_sink_capability(scfg, o))
<1> DEFINE ca == dpm_get_current(scfg, scfg.v)
           five == SinkFixed(5000, DPM_MIN_CURRENT)
           own == SinkFixed(scfg.v, ca)
           other == ~scfg.valid \/ PD_MV2PDV(scfg.v) # PD_MV2PDV(5000)
           safe == IF other THEN <<five>> ELSE <<>>
           wanted == safe \o <<own>>
           found == InRange(scfg, o) # {}
           i == dpm_get_range_fixed_pdo_index(scfg, o)
           extra == SinkFixed(o[i].lo, o[i].ca)
           caps == get_sink_capability(scfg, o)
<1>1. scfg.v \in Nat /\ scfg.v < 51200 BY DEF Configuration, NoConfig
<1>2. five.lo = 5000
  <2>1. 50 * (5000 \div 50) = 5000 OBVIOUS
  <2>2. QED BY <2>1, SinkVoltage
<1>3. own.lo = 50 * (scfg.v \div 50) BY <1>1, SinkVoltage
<1>4. /\ own.lo \in Nat
      /\ PD_MV2PDV(scfg.v) = PD_MV2PDV(5000) <=> own.lo = 5000
  BY <1>1, <1>3 DEF PD_MV2PDV
<1> DEFINE none == IF NullHeaderRevision >= PD_SPECREV_3_0
                   THEN <<SinkPps(scfg.v, ca)>> ELSE <<>>
<1>5. caps = IF ~scfg.valid THEN safe
             ELSE IF found /\ i = 1 THEN [wanted EXCEPT ![1].ca = Field(ca, 10)] \o none
             ELSE IF found /\ PD_MV2PDV(o[i].lo) # PD_MV2PDV(scfg.v)
             THEN LastTwoSorted(Append(wanted, extra)) \o none
             ELSE wanted \o none
  BY DEF get_sink_capability
<1>6. none = <<>> BY DEF NullHeaderRevision, PD_SPECREV_3_0
<1>8. safe = IF other THEN <<five>> ELSE <<>> OBVIOUS
<1>7. wanted = IF other THEN <<five, own>> ELSE <<own>>
  <2>0. wanted = safe \o <<own>> OBVIOUS
  <2> HIDE DEF five, own, other, safe, wanted
  <2>1. <<five>> \o <<own>> = <<five, own>> BY Joined
  <2>2. <<>> \o <<own>> = <<own>> BY Nothing
  <2>3. CASE other
    <3>1. safe = <<five>> BY <1>8, <2>3
    <3>2. wanted = <<five>> \o <<own>> BY <2>0, <3>1
    <3>3. wanted = <<five, own>> BY <2>1, <3>2
    <3>4. QED BY <2>3, <3>3
  <2>4. CASE ~other
    <3>1. safe = <<>> BY <1>8, <2>4
    <3>2. wanted = <<own>> BY <2>0, <2>2, <3>1
    <3>3. QED BY <2>4, <3>2
  <2>5. QED BY <2>3, <2>4
<1>9. /\ ~scfg.valid => other
      /\ scfg.valid => other = (own.lo # 5000)
  BY <1>4
<1>10. other /\ scfg.valid => own.lo # 5000 BY <1>9
<1>11. ~other => own.lo = 5000 BY <1>9
<1>12. found /\ i # 1 /\ PD_MV2PDV(o[i].lo) # PD_MV2PDV(scfg.v) =>
         extra.lo \in Nat /\ extra.lo # 5000 /\ extra.lo # own.lo
  <2>1. SUFFICES ASSUME found, i # 1, PD_MV2PDV(o[i].lo) # PD_MV2PDV(scfg.v)
                 PROVE  extra.lo \in Nat /\ extra.lo # 5000 /\ extra.lo # own.lo
    OBVIOUS
  <2>2. InRange(scfg, o) \in SUBSET (1..7) BY Positions DEF InRange
  <2>3. i \in InRange(scfg, o) BY <2>1, <2>2, Extremes DEF dpm_get_range_fixed_pdo_index
  <2> HIDE DEF i
  <2>4. i \in 1..Len(o) /\ o[i].kind = "fixed" BY <2>3 DEF InRange
  <2>5. i \in 2..Len(o) /\ o[i] \in PDO BY <2>1, <2>4
  <2>6. o[i].lo \in Nat /\ o[i].lo < 51200 /\ PD_MV2PDV(o[i].lo) # PD_MV2PDV(5000)
    BY <2>4, <2>5 DEF PDO
  <2>7. extra.lo = 50 * (o[i].lo \div 50) BY <2>6, SinkVoltage
  <2>8. QED BY <1>1, <1>3, <2>1, <2>6, <2>7 DEF PD_MV2PDV
<1>13. \A k : [five EXCEPT !.ca = k].lo = five.lo /\ [own EXCEPT !.ca = k].lo = own.lo
  BY DEF SinkFixed
<1>14. caps = get_sink_capability(scfg, o) OBVIOUS
<1> HIDE DEF ca, five, own, other, safe, wanted, found, i, extra, caps, none
<1>15. SUFFICES WellFormed(caps) BY <1>14
<1>16. CASE ~scfg.valid
  <2>1. caps = <<five>> BY <1>5, <1>8, <1>9, <1>16
  <2>2. QED BY <1>2, <2>1, OneCap
<1>17. CASE scfg.valid /\ found /\ i = 1
  <2> DEFINE k == Field(ca, 10)
             first == [five EXCEPT !.ca = k]
             sole == [own EXCEPT !.ca = k]
  <2>1. first.lo = 5000 /\ sole.lo = own.lo BY <1>2, <1>13
  <2>2. caps = [wanted EXCEPT ![1].ca = k] \o <<>> BY <1>5, <1>6, <1>17
  <2>3. [<<five, own>> EXCEPT ![1].ca = k] = <<first, own>> BY FirstCurrent
  <2>4. [<<own>> EXCEPT ![1].ca = k] = <<sole>> BY FirstCurrent
  <2> HIDE DEF first, sole, k
  <2>5. CASE other
    <3>1. caps = <<first, own>> \o <<>> BY <1>7, <2>2, <2>3, <2>5
    <3>2. caps = <<first, own>> BY <3>1, Nothing
    <3>3. QED BY <1>4, <1>10, <1>17, <2>1, <2>5, <3>2, TwoCaps
  <2>6. CASE ~other
    <3>1. caps = <<sole>> \o <<>> BY <1>7, <2>2, <2>4, <2>6
    <3>2. caps = <<sole>> BY <3>1, Nothing
    <3>3. QED BY <1>11, <2>1, <2>6, <3>2, OneCap
  <2>7. QED BY <2>5, <2>6
<1>18. CASE /\ scfg.valid /\ ~(found /\ i = 1) /\ found
            /\ PD_MV2PDV(o[i].lo) # PD_MV2PDV(scfg.v)
  <2>1. extra.lo \in Nat /\ extra.lo # 5000 /\ extra.lo # own.lo BY <1>12, <1>18
  <2>2. caps = LastTwoSorted(Append(wanted, extra)) \o <<>> BY <1>5, <1>6, <1>18
  <2>3. CASE other
    <3> DEFINE all == <<five, own, extra>>
    <3>1. Append(wanted, extra) = all
      <4>1. Append(<<five, own>>, extra) = all BY Third
      <4>2. QED BY <1>7, <2>3, <4>1
    <3>2. Len(all) = 3 /\ all[1] = five /\ all[2] = own /\ all[3] = extra OBVIOUS
    <3> HIDE DEF all
    <3>3. LastTwoSorted(all) = IF own.lo > extra.lo THEN <<five, extra, own>> ELSE all
      BY <3>2 DEF LastTwoSorted
    <3>4. own.lo \in Nat /\ own.lo # 5000 BY <1>4, <1>10, <1>18, <2>3
    <3>5. CASE own.lo > extra.lo
      <4>1. caps = <<five, extra, own>> \o <<>> BY <2>2, <3>1, <3>3, <3>5
      <4>2. caps = <<five, extra, own>> BY <4>1, Nothing
      <4>3. QED BY <1>2, <2>1, <3>4, <3>5, <4>2, ThreeCaps
    <3>6. CASE ~(own.lo > extra.lo)
      <4>1. caps = <<five, own, extra>> \o <<>> BY <2>2, <3>1, <3>3, <3>6 DEF all
      <4>2. caps = <<five, own, extra>> BY <4>1, Nothing
      <4>3. own.lo < extra.lo BY <2>1, <3>4, <3>6
      <4>4. QED BY <1>2, <2>1, <3>4, <4>2, <4>3, ThreeCaps
    <3>7. QED BY <3>5, <3>6
  <2>4. CASE ~other
    <3> DEFINE all == <<own, extra>>
    <3>1. Append(wanted, extra) = all
      <4>1. Append(<<own>>, extra) = all BY Second
      <4>2. QED BY <1>7, <2>4, <4>1
    <3>2. Len(all) = 2 OBVIOUS
    <3> HIDE DEF all
    <3>3. LastTwoSorted(all) = all BY <3>2 DEF LastTwoSorted
    <3>4. caps = <<own, extra>> \o <<>> BY <2>2, <3>1, <3>3 DEF all
    <3>5. caps = <<own, extra>> BY <3>4, Nothing
    <3>6. QED BY <1>11, <2>1, <2>4, <3>5, TwoCaps
  <2>5. QED BY <2>3, <2>4
<1>19. CASE /\ scfg.valid /\ ~(found /\ i = 1)
            /\ ~(found /\ PD_MV2PDV(o[i].lo) # PD_MV2PDV(scfg.v))
  <2>1. caps = wanted \o <<>> BY <1>5, <1>6, <1>19
  <2>2. CASE other
    <3>1. caps = <<five, own>> BY <1>7, <2>1, <2>2, Nothing
    <3>2. QED BY <1>2, <1>4, <1>10, <1>19, <2>2, <3>1, TwoCaps
  <2>3. CASE ~other
    <3>1. caps = <<own>> BY <1>7, <2>1, <2>3, Nothing
    <3>2. QED BY <1>11, <2>3, <3>1, OneCap
  <2>4. QED BY <2>2, <2>3
<1>20. QED BY <1>16, <1>17, <1>18, <1>19

\* What the sink says of itself is well formed, for every configuration that the
\* shell can store and every source that offers what it may
\* (device_policy_manager.c, "Make sure the last two are sorted by voltage").
THEOREM SinkCapsWellFormed ==
    LegalOffers /\ StoredVoltages => (DeviceSpec => []SinkCapsSound)
<1>1. SUFFICES ASSUME LegalOffers, StoredVoltages PROVE DeviceSpec => []SinkCapsSound
  OBVIOUS
<1>2. DInv => SinkCapsSound
  <2>1. SUFFICES ASSUME DInv, dev.offer # <<>>
                 PROVE  WellFormed(get_sink_capability(dev.cfg, dev.offer))
    BY DEF SinkCapsSound, WellFormed
  <2>2. dev.offer \in Offers /\ dev.cfg \in Configs \cup {NoConfig}
    BY <2>1 DEF DInv, TypeOK, DeviceType
  <2>3. dev.offer \in Seq(PDO) BY <2>2, DeviceAssumption
  <2>4. Len(dev.offer) \in 1..7 BY <2>2, DeviceAssumption
  <2>5. Len(dev.offer) \in 0..7 BY <2>4
  <2>6. dev.cfg \in Configuration \cup {NoConfig} BY <2>2, DeviceAssumption
  <2>7. dev.cfg.v <= 21000
    <3>1. NoConfig.v = 0 /\ 0 <= 21000 BY DEF NoConfig
    <3>2. QED BY <1>1, <2>2, <3>1 DEF StoredVoltages
  <2>8. QED BY <1>1, <2>2, <2>3, <2>5, <2>6, <2>7, CapsWellFormed DEF LegalOffers
<1>3. QED BY <1>2, Always, PTL

=============================================================================
