-------------------------------- MODULE Device --------------------------------
(***************************************************************************)
(* The device as its user sees it: the contract (SinkContract, which the   *)
(* threads of PDStack implement), what the device policy manager asks for  *)
(* (Capability), the LED, and the main thread, which runs either the sink  *)
(* loop with its button or the commands of the setup shell that concern PD *)
(* (Console has the shell itself, and identify).                           *)
(*                                                                         *)
(* main and its shell have a higher priority than the Policy Engine        *)
(* (NORMALPRIO, lib/src/priorities.h): a press or a command may come in    *)
(* the middle of an evaluation, and is itself interrupted only where it    *)
(* blocks, on the output of the shell.                                     *)
(***************************************************************************)
EXTENDS SinkContract, Capability, LED

CONSTANTS
    Modes,      \* what main may run: "sink", "setup"
    Configs,    \* the configurations that may be in flash
    Offers      \* the capabilities the source may send

NoConfig == [valid |-> FALSE, v |-> 0, vmin |-> 0, vmax |-> 0, defn |-> "I",
             x |-> 1, giveback |-> FALSE, hvPreferred |-> FALSE]

ASSUME DeviceAssumption ==
    /\ Modes \subseteq {"sink", "setup"}
    /\ Configs \subseteq Configuration
    /\ \A o \in Offers : o \in Seq(PDO) /\ Len(o) \in 1..7

VARIABLES
    led,    \* the LED thread
    dev,    \* the rest: see Begin
    said    \* what get_source_cap has just printed

devVars == <<vars, led, dev, said>>

None == [kind |-> "none"]

\* No evaluation is under way.
Unread == [read |-> FALSE, cfg |-> NoConfig, on |-> FALSE, btn |-> 0]

Begin ==
    /\ Init
    /\ led = LEDInit
    /\ said = None
    /\ \E m \in Modes, c \in Configs \cup {NoConfig} :
         /\ enabled = (m = "sink")
         /\ dev = [mode |-> m,
                   main |-> "boot",     \* what the main thread does
                   i |-> 0, n |-> 0,    \* the PDO it prints, of how many
                   cfg |-> c,           \* in flash
                   offer |-> <<>>,      \* dpm_data->capabilities
                   state |-> 0,         \* pdb_config.state
                   cnt |-> 1,           \* _cnt
                   asks |-> FALSE,      \* NEW_POWER is pending
                   open |-> FALSE,      \* no PS_RDY since the last evaluation
                   back |-> FALSE,      \* power taken back, and not given again
                   stale |-> FALSE,     \* erased since an evaluation read flash
                   seen |-> Unread,     \* what an evaluation has read
                   old |-> -1]          \* pe._old_tcc_match

-----------------------------------------------------------------------------
(* The LED says what PD does only if led_pd_status, in the sink loop.      *)
Show(e) == led' = IF dev.mode = "sink" THEN Signalled(led, e) ELSE led
ShowOutput(on) == Show(IF on /\ enabled THEN OUTPUT_ON ELSE OUTPUT_OFF)

Button == IF dev.state <= 3 THEN dev.state ELSE 0
Evaluated == Evaluation(dev.cfg, enabled, dev.offer, Button)

SameDevice == UNCHANGED <<enabled, dev, said>>
Quiet == SameDevice /\ UNCHANGED led

\* Source_Capabilities arrive. A NEW_POWER that is pending is more urgent.
Offered == /\ Offer
           /\ phase = "ready" => ~dev.asks
           /\ \E o \in Offers : dev' = [dev EXCEPT !.offer = o]
           /\ UNCHANGED <<enabled, led, said>>

\* NEW_POWER: the sink evaluates again what the source offered last.
Reconsider == /\ Offer
              /\ phase = "ready" /\ dev.asks
              /\ dev' = [dev EXCEPT !.asks = FALSE]
              /\ UNCHANGED <<enabled, led, said>>

\* The first half of an evaluation: it finds the configuration, tests the
\* button's state and reads the output switch.  That main may run between the
\* three reads makes no difference: it changes one of them at a time, and the
\* three in any order.
ReadInputs ==
    /\ phase = "offered" /\ ~dev.seen.read
    /\ Show(NEGOTIATING)
    /\ dev' = [dev EXCEPT !.stale = FALSE,
                   !.seen = [read |-> TRUE, cfg |-> dev.cfg, on |-> enabled,
                             btn |-> dev.state]]
    /\ UNCHANGED <<vars, said>>

\* The second half, after whatever main has done meanwhile.  A state of 4 has
\* been tested and 0 is stored: over the state of a press in between, too.  A
\* configuration that has been replaced keeps its fields.  (Should the page
\* have been erased they read as 1s: left out.)
evaluate_capability ==
    LET seen == dev.seen
        tooFar == seen.btn > 3
        e == EvaluationWhile(seen.cfg, seen.on, enabled, dev.offer,
                             IF tooFar THEN 0 ELSE seen.btn) IN
    /\ seen.read
    /\ Decide(e.mv, e.match)
    /\ dev' = [dev EXCEPT !.state = IF tooFar THEN 0 ELSE @, !.open = TRUE,
                          !.seen = Unread]
    /\ UNCHANGED <<enabled, led, said>>

\* The timers of Wait and PPS: pending flags come first.
Again == Repeat /\ ~dev.asks /\ Quiet

\* Sink Standby leaves the LED alone.
Agreed == /\ Accept
          /\ supply' = IF supply.requested # supply.present THEN Off(supply) ELSE supply
          /\ Quiet
Refused == Refuse /\ Quiet

TakeBack == /\ Minimum
            /\ dev.cfg.giveback /\ ~dev.asks
            /\ ShowOutput(FALSE)
            /\ dev' = [dev EXCEPT !.back = TRUE]
            /\ UNCHANGED <<enabled, said>>

\* PS_RDY.
Powered == /\ Complete
           /\ IF reduced THEN UNCHANGED led ELSE ShowOutput(supply.match)
           /\ dev' = [dev EXCEPT !.open = reduced /\ @, !.back = reduced]
           /\ UNCHANGED <<enabled, said>>

Softly == SoftReset /\ Quiet

\* A wake-up for reset signaling or heat drops a NEW_POWER, an error in one of
\* the states Ready starts does not. The second case is a message in place of
\* PS_RDY: transition_default before the hard reset.
Broken ==
    \/ /\ Fail /\ supply' = supply
       /\ dev' \in {dev} \cup
            (IF phase = "ready" THEN {[dev EXCEPT !.asks = FALSE]} ELSE {})
       /\ UNCHANGED <<enabled, led, said>>
    \/ /\ Fail /\ phase = "moving" /\ supply' = Defaulted(supply)
       /\ ShowOutput(FALSE)
       /\ SameDevice

ToDefault == Default /\ ShowOutput(FALSE) /\ SameDevice
pd_start == Start /\ Show(NEGOTIATING) /\ SameDevice
GivenUp == GiveUp /\ Quiet

\* PE_SNK_Source_Unresponsive, each time round.
Unresponsive ==
    \E tcc \in {"none", "default", "1.5A", "3.0A"} :
       LET enough == TypeCMatch(dev.cfg, tcc)
           m == IF enough THEN 1 ELSE 0
           s == Measured(supply, enough) IN
       /\ Measure(enough)
       /\ supply' = IF dev.old = m THEN Switched(s, enough) ELSE s
       /\ IF dev.old # m THEN UNCHANGED led
          ELSE IF tcc = "default" THEN Show(OUTPUT_OFF_NO_TYPEC)
          ELSE ShowOutput(enough)
       /\ dev' = [dev EXCEPT !.old = m]
       /\ UNCHANGED <<enabled, said>>

PolicyEngineSteps ==
    \/ Offered \/ Reconsider \/ ReadInputs \/ evaluate_capability \/ Again
    \/ Agreed \/ Refused \/ TakeBack \/ Powered \/ Softly \/ Broken \/ ToDefault \/ pd_start
    \/ GivenUp \/ Unresponsive

-----------------------------------------------------------------------------
(* The main thread.                                                        *)
At(m, at) == dev.mode = m /\ dev.main = at

\* sink(): NEW_POWER 110 ms after the start, ...
SinkBoot == /\ At("sink", "boot")
            /\ dev' = [dev EXCEPT !.main = "idle", !.state = 0, !.asks = TRUE]
            /\ UNCHANGED <<vars, led, said>>

\* ... and with every press of the button, when it is released.
Press == /\ At("sink", "idle")
         /\ LET c == dev.cnt + 1 IN
            dev' = [dev EXCEPT !.main = "held", !.state = c,
                               !.cnt = IF c > 3 THEN 0 ELSE c]
         /\ led' = [led EXCEPT !.lit = FALSE]
         /\ UNCHANGED <<vars, said>>

Release == /\ At("sink", "held")
           /\ dev' = [dev EXCEPT !.main = "idle", !.asks = TRUE]
           /\ UNCHANGED <<vars, led, said>>

\* setup(): the LED says so.
SetupBoot == /\ At("setup", "boot")
             /\ dev' = [dev EXCEPT !.main = "idle"]
             /\ led' = Signalled(led, CONFIG)
             /\ UNCHANGED <<vars, said>>

\* Mutant: the Policy Engine is not told.
output_silent(on) ==
    /\ At("setup", "idle")
    /\ enabled' = on
    /\ UNCHANGED <<terms, dev, led, said>>

\* The Policy Engine does not run until it has been told what has changed.
cmd_output(on) ==
    /\ At("setup", "idle")
    /\ enabled' = on
    /\ dev' = [dev EXCEPT !.asks = TRUE]
    /\ UNCHANGED <<terms, led, said>>

cmd_write(c) ==
    /\ At("setup", "idle")
    /\ dev' = [dev EXCEPT !.cfg = c, !.asks = TRUE]
    /\ UNCHANGED <<vars, led, said>>

\* An erasure is not announced.
cmd_erase ==
    /\ At("setup", "idle")
    /\ dev' = [dev EXCEPT !.cfg = NoConfig, !.stale = TRUE]
    /\ UNCHANGED <<vars, led, said>>

\* get_source_cap takes the number of PDOs first, and prints one at a time.
\* It blocks when its output does, and the Policy Engine runs meanwhile.
\* Without capabilities it prints the Type-C Current, which is left out.
cmd_get_source_cap ==
    /\ At("setup", "idle")
    /\ dev.offer # <<>>
    /\ dev' = [dev EXCEPT !.main = "list", !.i = 1, !.n = Len(dev.offer)]
    /\ UNCHANGED <<vars, led, said>>

PrintPDO ==
    /\ At("setup", "list")
    /\ dev.i <= dev.n
    /\ dev' = [dev EXCEPT !.i = @ + 1]
    /\ said' = IF dev.i <= Len(dev.offer) THEN print_src_pdo(dev.offer[dev.i], dev.i)
               ELSE None        \* what the buffer held before
    /\ UNCHANGED <<vars, led>>

Listed == /\ At("setup", "list")
          /\ dev.i > dev.n
          /\ dev' = [dev EXCEPT !.main = "idle", !.i = 0, !.n = 0]
          /\ said' = None
          /\ UNCHANGED <<vars, led>>

MainThread ==
    \/ SinkBoot \/ Press \/ Release
    \/ SetupBoot \/ cmd_erase
    \/ cmd_get_source_cap \/ PrintPDO \/ Listed
    \/ \E on \in BOOLEAN : cmd_output(on)
    \/ \E c \in Configs : cmd_write(c)

Tick == /\ ~led.steady
        /\ led' = Ticked(led)
        /\ UNCHANGED <<vars, dev, said>>

Step == PolicyEngineSteps \/ MainThread \/ Tick

DeviceSpec == Begin /\ [][Step]_devVars

-----------------------------------------------------------------------------
(* Safety.                                                                 *)

\* In the sink loop the LED never says that the output is on when it is off, or
\* off when it is on, whatever events came while another was shown (led.c:62,
\* "to make sure we don't get an unexpected state change"); and it says which
\* once the power asked for last is there.
LedFollows ==
    dev.mode = "sink" =>
        /\ led.state = OUTPUT_ON => supply.output
        /\ led.state \in {OUTPUT_OFF, OUTPUT_OFF_NO_TYPEC} => ~supply.output
        /\ phase = "ready" /\ ~dev.open => led.state \in {OUTPUT_ON, OUTPUT_OFF}

\* The three blinks of "output on" end dark, although the button's handler
\* clears the pin in the middle of them (main.c:164) and the blinks toggle it.
DarkWhenDone == led.state = OUTPUT_ON /\ led.steady => ~led.lit

\* With a contract, and no request of its user pending, the sink has what its
\* configuration, the button and the output switch ask of the present offer,
\* and the output is on if and only if that is enough and allowed: neither a press
\* nor a command that arrives while the Policy Engine is busy is lost. An
\* erasure is not announced, a refusal leaves the old contract, and after GotoMin
\* the output is off until a request is accepted.
OutputMeansPower ==
    phase = "ready" /\ dev.main = "idle" /\ ~dev.asks /\ ~dev.open /\ ~dev.stale =>
        /\ supply.requested = Evaluated.mv
        /\ supply.output => Evaluated.match /\ enabled
        /\ ~dev.back => supply.output = (Evaluated.match /\ enabled)

\* What the sink says of itself in Sink_Capabilities is well formed: vSafe5V
\* first, then rising voltages, none of them twice.
SinkCapsSound ==
    dev.offer # <<>> =>
        LET caps == get_sink_capability(dev.cfg, dev.offer) IN
        /\ caps[1].lo = 5000
        /\ \A i, j \in 2..Len(caps) : i < j => caps[i].lo < caps[j].lo
        /\ \A i \in 2..Len(caps) : caps[i].lo # 5000

-----------------------------------------------------------------------------
(* Steps.                                                                  *)

Centi(d) == 100 * d.units + d.hundredths

\* What get_source_cap prints of a PDO is the PDO, to the resolution of its
\* fields: hundredths of volts and amperes that a field counts in units of its
\* own keep their place (shell.c:107-112).
ListingTrue ==
    [][said' \notin {said, None} =>
         LET pdo == dev.offer[said'.index] IN
         /\ said'.kind = pdo.kind
         /\ IF pdo.kind = "fixed"
            THEN /\ 10 * Centi(said'.v) = Round(pdo.lo, 50)
                 /\ Centi(said'.i) = pdo.ca
            ELSE /\ 10 * Centi(said'.vmin) = Round(pdo.lo, 100)
                 /\ 10 * Centi(said'.vmax) = Round(pdo.hi, 100)
                 /\ Centi(said'.i) \in pdo.ca..(pdo.ca + 4)]_devVars
=============================================================================
