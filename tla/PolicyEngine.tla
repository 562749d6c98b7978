---------------------------- MODULE PolicyEngine ----------------------------
(***************************************************************************)
(* The Policy Engine thread (lib/src/policy_engine.c).  Nothing of the     *)
(* library preempts it, so that what it does from one wait to the next is  *)
(* one run; an action is one state handler, or the part of one between two *)
(* waits, named for the handler.  A wait with a timeout may time out at    *)
(* any moment at which none of its flags is pending.                       *)
(*                                                                         *)
(* main does preempt it, for the button.  It signals a flag, which waits   *)
(* for the end of the run, and stores cfg->state, which only the           *)
(* evaluation of capabilities uses: see EvalCap.                           *)
(***************************************************************************)
EXTENDS DPM

CONSTANT SrcRev     \* the specification revision of the partner: 2 or 3

ASSUME RevAssumption == SrcRev \in {2, 3}

NoPps == 8          \* "greater than the maximum possible"
N_HARD_RESET_COUNT == 2

peUnchanged == UNCHANGED <<rx, tx, hr, phy, status>>

PEType == [state: PEState, message: Buf \cup {NoBuf}, request: Buf \cup {NoBuf},
           sending: Buf \cup {NoBuf}, contract: BOOLEAN, minPower: BOOLEAN,
           resets: 0..(N_HARD_RESET_COUNT + 1), rev: {1, 2, 3},
           ppsIndex: 1..NoPps, lastPps: Nat, ppsTimer: BOOLEAN,
           oldMatch: {-1, 0, 1}]

PEInit ==
    pe = [state |-> "PESinkStartup", message |-> NoBuf, request |-> NoBuf,
          sending |-> NoBuf, contract |-> FALSE, minPower |-> FALSE,
          resets |-> 0, rev |-> 1, ppsIndex |-> NoPps, lastPps |-> NoPps,
          ppsTimer |-> FALSE, oldMatch |-> -1]

-----------------------------------------------------------------------------
(* Waking up.                                                              *)
At(s) == fault = "none" /\ pe.state = s

\* The wait of state s returned: it clears every flag of its mask.
Awake(s) == /\ At(s)
            /\ evt.PE \cap WaitMask[s] # {}
            /\ evt' = [evt EXCEPT !.PE = @ \ WaitMask[s]]

Goto(s) == pe' = [pe EXCEPT !.state = s]

\* Reset signaling wins over every other flag of the wait of state s.
OnReset(s) ==
    /\ Awake(s)
    /\ "RESET" \in evt.PE
    /\ Goto("PESinkTransitionDefault")
    /\ peUnchanged /\ UNCHANGED <<sched, box, pool, mem, fault, dpm, partnerVars>>

TimesOut(s, next) ==
    /\ At(s)
    /\ evt.PE \cap WaitMask[s] = {}
    /\ Spend("timeout")
    /\ Goto(next)
    /\ peUnchanged
    /\ UNCHANGED <<kernelVars, dpm, src, button>>

\* The wait of s returned for a message and nothing more urgent: fetch b.
\* The flag implies a message in the mailbox (FlagMeansMail, PDStack).
Fetch(s, urgent, b) ==
    /\ Awake(s)
    /\ "MSG_RX" \in evt.PE
    /\ evt.PE \cap urgent = {}
    /\ box.PE # <<>>
    /\ b = Head(box.PE)
    /\ box' = [box EXCEPT !.PE = Tail(@)]
    /\ UNCHANGED <<sched, fault, partnerVars>>
    /\ peUnchanged

\* Fetch a message of one of the types, free it, and go on with pe record p
\* in state next.
Consume(s, urgent, types, next, p) ==
    \E b \in Buf :
        /\ Fetch(s, urgent, b)
        /\ mem[b].type \in types
        /\ Freed(b)
        /\ pe' = [p EXCEPT !.state = next, !.message = NoBuf]

-----------------------------------------------------------------------------
(* Sending: post the message, signal the TX thread, await the outcome.     *)
Transmit(b) == /\ box' = Posted("TX", b)
               /\ Signal("TX", {"MSG_TX"})

\* Allocate a message of the given type, send it and wait in state wait.
SendNew(s, type, wait) ==
    /\ At(s)
    /\ IF pool = <<>> THEN Fault("nullAlloc")
       ELSE LET b == Head(pool) IN
            /\ pool' = Tail(pool)
            /\ mem' = [mem EXCEPT ![b] = Message(type, 0)]
            /\ Transmit(b)
            /\ pe' = [pe EXCEPT !.state = wait, !.sending = b]
            /\ UNCHANGED <<fault, dpm, partnerVars>>
            /\ peUnchanged

\* The outcome is in: free the message first, then look at the flags.
Sent(s, outcome, next) ==
    /\ Awake(s)
    /\ outcome
    /\ Freed(pe.sending)
    /\ pe' = [pe EXCEPT !.state = next, !.sending = NoBuf]
    /\ UNCHANGED <<sched, box, fault, dpm, partnerVars>>
    /\ peUnchanged

GotReset == "RESET" \in evt.PE
GotDone == ~GotReset /\ "TX_DONE" \in evt.PE
GotError == ~GotReset /\ "TX_DONE" \notin evt.PE

SentOr(s, done, failed) == \/ Sent(s, GotReset, "PESinkTransitionDefault")
                           \/ Sent(s, GotDone, done)
                           \/ Sent(s, GotError, failed)

-----------------------------------------------------------------------------
Startup ==
    /\ At("PESinkStartup")
    /\ pe' = [pe EXCEPT !.state = "PESinkDiscovery", !.contract = FALSE]
    /\ peUnchanged /\ UNCHANGED <<kernelVars, dpm, partnerVars>>

Discovery ==
    /\ At("PESinkDiscovery")
    /\ Goto("PESinkWaitCap")
    /\ peUnchanged /\ UNCHANGED <<kernelVars, dpm, partnerVars>>

WaitCap ==
    LET s == "PESinkWaitCap"
        urgent == {"RESET", "I_OVRTEMP"} IN
    \/ TimesOut(s, "PESinkHardReset")
    \/ OnReset(s)
    \/ /\ Awake(s)                                          \* too hot
       /\ "RESET" \notin evt.PE /\ "I_OVRTEMP" \in evt.PE
       /\ UNCHANGED <<sched, box, pool, mem, fault, pe, dpm, partnerVars>>
       /\ peUnchanged
    \/ \E b \in Buf :
         /\ Fetch(s, urgent, b)
         /\ mem[b].type = "SourceCap"
         /\ pe' = [pe EXCEPT !.state = "PESinkEvalCap", !.message = b,
                             !.rev = IF @ = 1 THEN SrcRev ELSE @]
         /\ UNCHANGED <<pool, mem, dpm>>
    \/ /\ Consume(s, urgent, {"SoftReset"}, "PESinkSoftReset", pe)
       /\ UNCHANGED dpm
    \/ \E b \in Buf :                        \* pe.message is left dangling
         /\ Fetch(s, urgent, b)
         /\ mem[b].type \notin {"SourceCap", "SoftReset"}
         /\ Freed(b)
         /\ pe' = [pe EXCEPT !.state = "PESinkHardReset", !.message = b]
         /\ UNCHANGED dpm

\* The PDOs of message m; what is not a Source_Capabilities offers nothing.
OfferIn(m) == IF m.type = "SourceCap" THEN Offers[m.obj] ELSE <<>>

\* The position of the first PPS APDO of offer o, or NoPps.
FirstPps(o) ==
    LET P == {i \in 1..Len(o) : o[i].kind = "pps"} IN
    IF P = {} THEN NoPps ELSE SetMin(P)

\* The state selected is tested once and used; a press that comes before the
\* test or after it is one before or after the run.  But a state of 4 is
\* replaced by 0 after the test: a press in between is overwritten.
ButtonEvaluated(cfgState) ==
    \/ button' = [button EXCEPT !.state = cfgState] /\ UNCHANGED budget
    \/ /\ button.state > 3 /\ button.phase = "up"
       /\ Spend("press")
       /\ button' = [Pressed EXCEPT !.state = 0]

EvalCap ==
    /\ At("PESinkEvalCap")
    /\ IF pe.request = NoBuf /\ pool = <<>> THEN Fault("nullAlloc")
       ELSE IF pe.message = NoBuf /\ dpm.caps = NoBuf THEN Fault("nullMessage")
       ELSE
       LET new == pe.message # NoBuf
           caps == IF new THEN pe.message ELSE dpm.caps
           req == IF pe.request = NoBuf THEN Head(pool) ELSE pe.request
           rest == IF pe.request = NoBuf THEN Tail(pool) ELSE pool
           offer == OfferIn(mem[caps])
           first == IF new THEN FirstPps(offer) ELSE pe.ppsIndex
           last == IF pe.request = NoBuf THEN IF new THEN NoPps ELSE pe.lastPps
                   ELSE IF mem[pe.request].obj >= first THEN mem[pe.request].obj
                   ELSE NoPps
           cfgState == IF button.state <= 3 THEN button.state ELSE 0
           e == Evaluation(Scfg, OutputEnabled, offer, cfgState)
           old == new /\ dpm.caps # NoBuf       \* capabilities to free
       IN
       /\ pool' = IF old THEN <<dpm.caps>> \o rest ELSE rest
       /\ mem' = [b \in Buf |-> IF b = req THEN Message("Request", e.pos)
                                ELSE IF old /\ b = dpm.caps THEN Junk ELSE mem[b]]
       /\ dpm' = [dpm EXCEPT !.caps = caps, !.requested = e.mv, !.match = e.match]
       /\ ButtonEvaluated(cfgState)
       /\ pe' = [pe EXCEPT !.state = "PESinkSelectCap", !.message = NoBuf,
                           !.request = req, !.ppsIndex = first, !.lastPps = last]
       /\ UNCHANGED <<evt, sched, box, fault, src>>
       /\ peUnchanged

SelectCapSend ==
    /\ At("PESinkSelectCap")
    /\ Transmit(pe.request)
    /\ Goto("PESinkSelectCapTx")
    /\ UNCHANGED <<pool, mem, fault, dpm, partnerVars>>
    /\ peUnchanged

\* Mutant: the Request is freed like every other message that has been sent.
SelectCapSentFrees ==
    /\ Awake("PESinkSelectCapTx")
    /\ ~GotReset
    /\ Goto(IF GotDone THEN "PESinkSelectCapRx" ELSE "PESinkHardReset")
    /\ Freed(pe.request)
    /\ UNCHANGED <<sched, box, fault, dpm, partnerVars>>
    /\ peUnchanged

\* The Request stays allocated; a PPS contract has to be renewed.
SelectCapSent ==
    /\ Awake("PESinkSelectCapTx")
    /\ ~GotReset
    /\ pe' = [pe EXCEPT
         !.state = IF GotDone THEN "PESinkSelectCapRx" ELSE "PESinkHardReset",
         !.ppsTimer = IF GotDone /\ pe.rev = 3
                      THEN mem[pe.request].obj >= pe.ppsIndex ELSE @]
    /\ UNCHANGED <<sched, box, pool, mem, fault, dpm, partnerVars>>
    /\ peUnchanged

SelectCapAnswer ==
    LET s == "PESinkSelectCapRx"
        reset == {"RESET"} IN
    \/ /\ Consume(s, reset, {"Accept"}, "PESinkTransitionSink",
                  [pe EXCEPT !.minPower = FALSE])
       /\ dpm' = IF mem[pe.request].obj # pe.lastPps
                 THEN transition_standby ELSE dpm
    \/ /\ UNCHANGED dpm
       /\ \/ Consume(s, reset, {"SoftReset"}, "PESinkSoftReset", pe)
          \/ /\ ~pe.contract
             /\ Consume(s, reset, {"Reject", "Wait"}, "PESinkWaitCap", pe)
          \/ /\ pe.contract
             /\ \E t \in {"Reject", "Wait"} :
                  Consume(s, reset, {t}, "PESinkReady",
                          [pe EXCEPT !.minPower = (t = "Wait")])
          \/ Consume(s, reset,
                     MsgType \ {"Accept", "SoftReset", "Reject", "Wait"},
                     "PESinkSendSoftReset", pe)

SelectCap == \/ SelectCapSend
             \/ OnReset("PESinkSelectCapTx") \/ SelectCapSent
             \/ OnReset("PESinkSelectCapRx") \/ SelectCapAnswer
             \/ TimesOut("PESinkSelectCapRx", "PESinkHardReset")

TransitionSink ==
    LET s == "PESinkTransitionSink"
        reset == {"RESET"} IN
    \/ OnReset(s)
    \/ TimesOut(s, "PESinkHardReset")
    \/ /\ Consume(s, reset, {"PsRdy"}, "PESinkReady",
                  [pe EXCEPT !.contract = TRUE])
       /\ dpm' = IF pe.minPower THEN dpm ELSE transition_requested
    \/ /\ Consume(s, reset, MsgType \ {"PsRdy"}, "PESinkHardReset", pe)
       /\ dpm' = transition_default

-----------------------------------------------------------------------------
(* PE_SNK_Ready: the flags of one wake-up are served in the order of the   *)
(* handler's tests; the ones below the first that is set are dropped.      *)
ReadyWakes(flag, above) == /\ Awake("PESinkReady")
                           /\ flag \in evt.PE
                           /\ evt.PE \cap above = {}

\* A flag that makes the Policy Engine start an AMS of its own.  The TX
\* thread never waits for START_AMS, so that signalling it wakes nobody.
ReadyStarts(flag, above, next) ==
    /\ At("PESinkReady")
    /\ flag \in evt.PE
    /\ evt.PE \cap above = {}
    /\ evt' = [evt EXCEPT !.PE = @ \ WaitMask["PESinkReady"],
                          !.TX = @ \cup {"START_AMS"}]
    /\ pe' = [pe EXCEPT !.state = next, !.message =
                IF flag = "NEW_POWER" THEN NoBuf ELSE @]
    /\ IF flag = "NEW_POWER" /\ pe.message # NoBuf
       THEN Freed(pe.message) ELSE UNCHANGED <<pool, mem>>
    /\ UNCHANGED <<sched, box, fault, dpm, partnerVars>>
    /\ peUnchanged

ReadyUrgent == WaitMask["PESinkReady"] \ {"MSG_RX"}

\* A message that the Ready state frees before it goes on in state next.
ReadyFrees(types, next) ==
    Consume("PESinkReady", ReadyUrgent, types, next, pe) /\ UNCHANGED dpm

UnknownIn2 == {"Chunked", "NotSupported"}
Unsupported == {"Swap", "GetSourceCap", "Request", "SinkCap"}
Unknown == MsgType \ (UnknownIn2 \cup Unsupported \cup
    {"VDM", "Ping", "GotoMin", "SourceCap", "GetSinkCap", "SoftReset"})

Ready ==
    LET s == "PESinkReady" IN
    \/ OnReset(s)
    \/ pe.minPower /\ TimesOut(s, "PESinkSelectCap")
    \/ /\ ReadyWakes("I_OVRTEMP", {"RESET"})
       /\ Goto("PESinkHardReset")
       /\ UNCHANGED <<sched, box, pool, mem, fault, dpm, partnerVars>>
       /\ peUnchanged
    \/ ReadyStarts("GET_SOURCE_CAP", {"RESET", "I_OVRTEMP"}, "PESinkGetSourceCap")
    \/ ReadyStarts("NEW_POWER", {"RESET", "I_OVRTEMP", "GET_SOURCE_CAP"},
                   "PESinkEvalCap")
    \/ ReadyStarts("PPS_REQUEST", {"RESET", "I_OVRTEMP", "GET_SOURCE_CAP",
                                   "NEW_POWER"}, "PESinkSelectCap")
    \/ ReadyFrees({"VDM", "Ping"}, s)
    \/ ReadyFrees(Unsupported, "PESinkSendNotSupported")
    \/ ~Scfg.giveback /\ ReadyFrees({"GotoMin"}, "PESinkSendNotSupported")
    \/ /\ Scfg.giveback
       /\ Consume(s, ReadyUrgent, {"GotoMin"}, "PESinkTransitionSink",
                  [pe EXCEPT !.minPower = TRUE])
       /\ dpm' = transition_min
    \/ \E b \in Buf :
         /\ Fetch(s, ReadyUrgent, b)
         /\ mem[b].type = "SourceCap"
         /\ pe' = [pe EXCEPT !.state = "PESinkEvalCap", !.message = b]
         /\ UNCHANGED <<pool, mem, dpm>>
    \/ ReadyFrees({"GetSinkCap"}, "PESinkGiveSinkCap")
    \/ ReadyFrees({"SoftReset"}, "PESinkSoftReset")
    \/ pe.rev = 3 /\ ReadyFrees({"Chunked"}, "PESinkChunkReceived")
    \/ pe.rev = 3 /\ ReadyFrees({"NotSupported"}, "PESinkNotSupportedReceived")
    \/ ReadyFrees(Unknown \cup (IF pe.rev = 3 THEN {} ELSE UnknownIn2),
                  "PESinkSendSoftReset")

-----------------------------------------------------------------------------
GetSourceCap ==
    \/ SendNew("PESinkGetSourceCap", "GetSourceCap", "PESinkGetSourceCapTx")
    \/ SentOr("PESinkGetSourceCapTx", "PESinkReady", "PESinkHardReset")

GiveSinkCap ==
    \/ SendNew("PESinkGiveSinkCap", "SinkCap", "PESinkGiveSinkCapTx")
    \/ SentOr("PESinkGiveSinkCapTx", "PESinkReady", "PESinkHardReset")

HardReset ==
    \/ /\ At("PESinkHardReset")
       /\ pe.resets > N_HARD_RESET_COUNT
       /\ Goto("PESinkSourceUnresponsive")
       /\ UNCHANGED <<kernelVars, dpm, partnerVars>>
       /\ peUnchanged
    \/ /\ At("PESinkHardReset")
       /\ pe.resets <= N_HARD_RESET_COUNT
       /\ Signal("HR", {"RESET"})
       /\ Goto("PESinkHardResetSent")
       /\ UNCHANGED <<box, pool, mem, fault, dpm, partnerVars>>
       /\ peUnchanged
    \/ /\ Awake("PESinkHardResetSent")
       /\ pe' = [pe EXCEPT !.state = "PESinkTransitionDefault",
                           !.resets = @ + 1]
       /\ UNCHANGED <<sched, box, pool, mem, fault, dpm, partnerVars>>
       /\ peUnchanged

\* Mutant: the Hard Reset thread is not told DONE.
TransitionDefaultSilent ==
    /\ At("PESinkTransitionDefault")
    /\ pe' = [pe EXCEPT !.state = "PESinkStartup", !.contract = FALSE]
    /\ dpm' = transition_default
    /\ UNCHANGED <<kernelVars, partnerVars>>
    /\ peUnchanged

TransitionDefault ==
    /\ At("PESinkTransitionDefault")
    /\ pe' = [pe EXCEPT !.state = "PESinkStartup", !.contract = FALSE]
    /\ dpm' = transition_default
    /\ Signal("HR", {"DONE"})
    /\ UNCHANGED <<box, pool, mem, fault, partnerVars>>
    /\ peUnchanged

\* Mutant: back to Ready, whether or not there was a contract.
SoftResetReady ==
    \/ SendNew("PESinkSoftReset", "Accept", "PESinkSoftResetTx")
    \/ SentOr("PESinkSoftResetTx", "PESinkReady", "PESinkHardReset")

SoftReset ==
    \/ SendNew("PESinkSoftReset", "Accept", "PESinkSoftResetTx")
    \/ SentOr("PESinkSoftResetTx", "PESinkWaitCap", "PESinkHardReset")

SendSoftReset ==
    LET rxs == "PESinkSendSoftResetRx"
        reset == {"RESET"} IN
    \/ SendNew("PESinkSendSoftReset", "SoftReset", "PESinkSendSoftResetTx")
    \/ SentOr("PESinkSendSoftResetTx", rxs, "PESinkHardReset")
    \/ OnReset(rxs)
    \/ TimesOut(rxs, "PESinkHardReset")
    \/ /\ UNCHANGED dpm
       /\ \/ Consume(rxs, reset, {"Accept"}, "PESinkWaitCap", pe)
          \/ Consume(rxs, reset, {"SoftReset"}, "PESinkSoftReset", pe)
          \/ Consume(rxs, reset, MsgType \ {"Accept", "SoftReset"},
                     "PESinkHardReset", pe)

SendNotSupported ==
    \/ SendNew("PESinkSendNotSupported",
               IF pe.rev = 3 THEN "NotSupported" ELSE "Reject",
               "PESinkSendNotSupportedTx")
    \/ SentOr("PESinkSendNotSupportedTx", "PESinkReady", "PESinkSendSoftReset")

ChunkReceived ==
    \/ OnReset("PESinkChunkReceived")
    \/ TimesOut("PESinkChunkReceived", "PESinkSendNotSupported")

NotSupportedReceived ==
    /\ At("PESinkNotSupportedReceived")
    /\ Goto("PESinkReady")
    /\ UNCHANGED <<kernelVars, dpm, partnerVars>>
    /\ peUnchanged

\* No wait for any event here: only a measurement every tPDDebounce.
SourceUnresponsive ==
    /\ At("PESinkSourceUnresponsive")
    /\ \E tcc \in {"none", "default", "1.5A", "3.0A"} :
         LET d == evaluate_typec_current(tcc)
             m == IF d.match THEN 1 ELSE 0 IN
         /\ dpm' = IF pe.oldMatch = m THEN transition_typec(d) ELSE d
         /\ pe' = [pe EXCEPT !.oldMatch = m]
    /\ UNCHANGED <<kernelVars, partnerVars>>
    /\ peUnchanged

\* pe_sink_pps_periodic_timer_cb: the one-shot timer SelectCap set.
PpsTimer ==
    /\ fault = "none" /\ ~PERunnable
    /\ pe.ppsTimer
    /\ Spend("pps")
    /\ pe' = [pe EXCEPT !.ppsTimer = FALSE]
    /\ evt' = [evt EXCEPT !.PE = @ \cup {"PPS_REQUEST"}]
    /\ UNCHANGED <<sched, box, pool, mem, fault, dpm, src, button>>
    /\ peUnchanged

PENext ==
    \/ Startup \/ Discovery \/ WaitCap \/ EvalCap \/ SelectCap
    \/ TransitionSink \/ Ready \/ GetSourceCap \/ GiveSinkCap \/ HardReset
    \/ TransitionDefault \/ SoftReset \/ SendSoftReset \/ SendNotSupported
    \/ ChunkReceived \/ NotSupportedReceived \/ SourceUnresponsive
    \/ PpsTimer
=============================================================================
