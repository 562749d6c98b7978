---------------------------- MODULE ContractProofs ----------------------------
(***************************************************************************)
(* Proof that PDStack implements SinkContract, for every value of the      *)
(* constants: each step of the Policy Engine is one of the abstract steps  *)
(* or changes nothing the abstract specification sees, and nobody else     *)
(* changes what it sees.  Then what the abstraction leaves out: that one   *)
(* decision of the DPM stands behind the contract and behind the output.   *)
(***************************************************************************)
EXTENDS OwnershipProofs

ReadyStates == Settled
WaitingStates == {"PESinkDiscovery", "PESinkWaitCap", "PESinkSoftReset",
                  "PESinkSoftResetTx", "PESinkSendSoftReset",
                  "PESinkSendSoftResetTx", "PESinkSendSoftResetRx"}
AskedStates == {"PESinkSelectCap", "PESinkSelectCapTx", "PESinkSelectCapRx"}
ResetStates == {"PESinkStartup", "PESinkHardReset", "PESinkHardResetSent",
                "PESinkTransitionDefault"}

\* The phases of the states.
LEMMA Phases ==
    /\ \A s \in WaitingStates : PhaseOf(s) = "waiting"
    /\ \A s \in AskedStates : PhaseOf(s) = "asked"
    /\ \A s \in ReadyStates : PhaseOf(s) = "ready"
    /\ \A s \in ResetStates : PhaseOf(s) = "resetting"
    /\ PhaseOf("PESinkEvalCap") = "offered"
    /\ PhaseOf("PESinkTransitionSink") = "moving"
    /\ PhaseOf("PESinkSourceUnresponsive") = "typec"
<1>1. \A s \in WaitingStates : PhaseOf(s) = "waiting"
  BY DEF PhaseOf, WaitingStates
<1>2. \A s \in AskedStates : PhaseOf(s) = "asked"
  BY DEF PhaseOf, AskedStates
<1>3. \A s \in ReadyStates : PhaseOf(s) = "ready"
  BY DEF PhaseOf, ReadyStates, Settled
<1>4. \A s \in ResetStates : PhaseOf(s) = "resetting"
  BY DEF PhaseOf, ResetStates
<1>5. /\ PhaseOf("PESinkEvalCap") = "offered"
      /\ PhaseOf("PESinkTransitionSink") = "moving"
      /\ PhaseOf("PESinkSourceUnresponsive") = "typec"
  BY DEF PhaseOf
<1>6. QED BY <1>1, <1>2, <1>3, <1>4, <1>5

Allowed == [Sink!Next]_(Sink!vars)

\* A step of the Policy Engine from one state to another that leaves the terms
\* of the contract and the supply alone.
Quiet(from, to) == /\ pe.state = from /\ pe'.state = to
                   /\ pe'.contract = pe.contract /\ pe'.minPower = pe.minPower
                   /\ dpm' = dpm

LEMMA SupplyKept == ASSUME dpm' = dpm PROVE Supply' = Supply
BY DEF Supply

\* Supplies are records of four fields.
SupplyType == [requested: Nat, present: Nat, match: BOOLEAN, output: BOOLEAN]

LEMMA SupplyTyped ==
    /\ dpm \in DPMType => Supply \in SupplyType
    /\ dpm' \in DPMType => Supply' \in SupplyType
BY DEF DPMType, SupplyType, Supply

LEMMA SameSupply ==
    ASSUME NEW r \in SupplyType, NEW q \in SupplyType,
           r.requested = q.requested, r.present = q.present,
           r.match = q.match, r.output = q.output
    PROVE  r = q
BY DEF SupplyType

LEMMA Unchanged == ASSUME UNCHANGED <<pe, dpm>> PROVE Allowed
BY DEF Allowed, Sink!vars, Sink!terms, Supply

\* Within a phase a quiet step is a stuttering step.
LEMMA SamePhase ==
    ASSUME NEW from, NEW to, Quiet(from, to), PhaseOf(from) = PhaseOf(to)
    PROVE  Allowed
BY SupplyKept DEF Allowed, Quiet, Sink!vars, Sink!terms

\* The quiet steps between two phases.
LEMMA ToResetting ==
    ASSUME NEW from, NEW to \in ResetStates, Quiet(from, to),
           PhaseOf(from) \in {"waiting", "asked", "moving", "ready", "resetting"}
    PROVE  Allowed
<1>1. Sink!Fail
  BY Phases, SupplyKept DEF Quiet, Sink!Fail, Sink!Go, Sink!Phase, Sink!SameTerms
<1>2. QED BY <1>1 DEF Allowed, Sink!Next, Sink!Negotiate

LEMMA ToWaiting ==
    ASSUME NEW from, NEW to \in WaitingStates, Quiet(from, to),
           PhaseOf(from) \in {"asked", "ready"}
    PROVE  Allowed
<1>1. Sink!SoftReset
  BY Phases, SupplyKept DEF Quiet, Sink!SoftReset, Sink!Go, Sink!SameTerms
<1>2. QED BY <1>1 DEF Allowed, Sink!Next, Sink!Negotiate

LEMMA ToOffered ==
    ASSUME NEW from, Quiet(from, "PESinkEvalCap"),
           PhaseOf(from) \in {"waiting", "ready"}
    PROVE  Allowed
<1>1. Sink!Offer
  BY Phases, SupplyKept DEF Quiet, Sink!Offer, Sink!Go, Sink!SameTerms
<1>2. QED BY <1>1 DEF Allowed, Sink!Next, Sink!Negotiate

LEMMA ToAsked ==
    ASSUME NEW from \in ReadyStates, NEW to \in AskedStates, Quiet(from, to)
    PROVE  Allowed
<1>1. Sink!Repeat
  BY Phases, SupplyKept DEF Quiet, Sink!Repeat, Sink!Go, Sink!SameTerms
<1>2. QED BY <1>1 DEF Allowed, Sink!Next, Sink!Negotiate

-----------------------------------------------------------------------------
(* The services of the handlers make quiet steps.                          *)
LEMMA OnResetQuiet ==
    ASSUME IInv, NEW s, OnReset(s) PROVE Quiet(s, "PESinkTransitionDefault")
BY DEF OnReset, Awake, At, Goto, Quiet, IInv, Policy, PEType

LEMMA TimesOutQuiet ==
    ASSUME IInv, NEW s, NEW next, TimesOut(s, next) PROVE Quiet(s, next)
BY DEF TimesOut, At, Goto, Quiet, IInv, Policy, PEType

LEMMA ConsumeFacts ==
    ASSUME NEW s, NEW urgent, NEW types, NEW next, NEW p,
           Consume(s, urgent, types, next, p)
    PROVE  pe.state = s /\ pe' = [p EXCEPT !.state = next, !.message = NoBuf]
BY DEF Consume, Fetch, Awake, At

LEMMA ConsumeTerms ==
    ASSUME NEW s, NEW urgent, NEW types, NEW next, NEW p \in PEType,
           Consume(s, urgent, types, next, p)
    PROVE  /\ pe.state = s /\ pe'.state = next
           /\ pe'.contract = p.contract /\ pe'.minPower = p.minPower
<1>1. pe.state = s /\ pe' = [p EXCEPT !.state = next, !.message = NoBuf]
  BY ConsumeFacts
<1>2. QED BY <1>1 DEF PEType

LEMMA ConsumeQuiet ==
    ASSUME IInv, NEW s, NEW urgent, NEW types, NEW next,
           Consume(s, urgent, types, next, pe), dpm' = dpm
    PROVE  Quiet(s, next)
BY ConsumeTerms DEF Quiet, IInv, Policy

LEMMA SendNewAllowed ==
    ASSUME IInv, NEW s, NEW type, NEW wait, SendNew(s, type, wait),
           PhaseOf(s) = PhaseOf(wait)
    PROVE  Allowed
<1>1. CASE pool = <<>>
  BY <1>1, Unchanged DEF SendNew, Fault
<1>2. CASE pool # <<>>
  <2>1. Quiet(s, wait)
    BY <1>2 DEF SendNew, At, Quiet, IInv, Policy, PEType
  <2>2. QED BY <2>1, SamePhase
<1>3. QED BY <1>1, <1>2

LEMMA SentQuiet ==
    ASSUME IInv, NEW s, NEW outcome, NEW next, Sent(s, outcome, next)
    PROVE  Quiet(s, next)
BY DEF Sent, Awake, At, Quiet, IInv, Policy, PEType

\* The outcome of a transmission: back to the phase it was made in, or a reset.
LEMMA SentOrAllowed ==
    ASSUME IInv, NEW s \in ReadyStates \cup WaitingStates, NEW done,
           NEW failed \in ResetStates \cup WaitingStates,
           SentOr(s, done, failed), PhaseOf(done) = PhaseOf(s)
    PROVE  Allowed
<1>1. CASE Sent(s, GotReset, "PESinkTransitionDefault")
  <2>1. Quiet(s, "PESinkTransitionDefault") /\ "PESinkTransitionDefault" \in ResetStates
    BY <1>1, SentQuiet DEF ResetStates
  <2>2. QED BY <2>1, Phases, ToResetting
<1>2. CASE Sent(s, GotDone, done)
  BY <1>2, SentQuiet, SamePhase
<1>3. CASE Sent(s, GotError, failed)
  <2>1. Quiet(s, failed)
    BY <1>3, SentQuiet
  <2>2. CASE failed \in ResetStates
    BY <2>1, <2>2, Phases, ToResetting
  <2>3. CASE failed \in WaitingStates
    BY <2>1, <2>3, Phases, ToWaiting, SamePhase
  <2>4. QED BY <2>2, <2>3
<1>4. QED BY <1>1, <1>2, <1>3 DEF SentOr
-----------------------------------------------------------------------------
(* The handlers.                                                           *)
LEMMA StartupAllowed == ASSUME IInv, Startup PROVE Allowed
<1>1. /\ pe.state = "PESinkStartup" /\ pe'.state = "PESinkDiscovery"
      /\ pe'.contract = FALSE /\ pe'.minPower = pe.minPower /\ dpm' = dpm
  BY DEF Startup, At, IInv, Policy, PEType
<1>2. Sink!Start
  BY <1>1, Phases, SupplyKept DEF Sink!Start, Sink!Go, ResetStates, WaitingStates
<1>3. QED BY <1>2 DEF Allowed, Sink!Next, Sink!Negotiate

LEMMA DiscoveryAllowed == ASSUME IInv, Discovery PROVE Allowed
<1>1. Quiet("PESinkDiscovery", "PESinkWaitCap")
  BY DEF Discovery, At, Goto, Quiet, IInv, Policy, PEType
<1>2. QED BY <1>1, Phases, SamePhase DEF WaitingStates

LEMMA WaitCapAllowed == ASSUME IInv, WaitCap PROVE Allowed
<1> DEFINE s == "PESinkWaitCap"
           urgent == {"RESET", "I_OVRTEMP"}
<1>0. s \in WaitingStates /\ PhaseOf(s) = "waiting"
  BY Phases DEF WaitingStates
<1>1. CASE TimesOut(s, "PESinkHardReset")
  BY <1>0, <1>1, TimesOutQuiet, ToResetting DEF ResetStates
<1>2. CASE OnReset(s)
  BY <1>0, <1>2, OnResetQuiet, ToResetting DEF ResetStates
<1>3. CASE UNCHANGED <<pe, dpm>>
  BY <1>3, Unchanged
<1>4. CASE \E b \in Buf :
             /\ Fetch(s, urgent, b)
             /\ mem[b].type = "SourceCap"
             /\ pe' = [pe EXCEPT !.state = "PESinkEvalCap", !.message = b,
                                 !.rev = IF @ = 1 THEN SrcRev ELSE @]
             /\ UNCHANGED <<pool, mem, dpm>>
  <2>1. Quiet(s, "PESinkEvalCap")
    BY <1>4 DEF Fetch, Awake, At, Quiet, IInv, Policy, PEType
  <2>2. QED BY <1>0, <2>1, ToOffered
<1>5. CASE Consume(s, urgent, {"SoftReset"}, "PESinkSoftReset", pe) /\ UNCHANGED dpm
  <2>1. Quiet(s, "PESinkSoftReset")
    BY <1>5, ConsumeQuiet
  <2>2. PhaseOf("PESinkSoftReset") = "waiting"
    BY Phases DEF WaitingStates
  <2>3. QED BY <1>0, <2>1, <2>2, SamePhase
<1>6. CASE \E b \in Buf :
             /\ Fetch(s, urgent, b)
             /\ mem[b].type \notin {"SourceCap", "SoftReset"}
             /\ Freed(b)
             /\ pe' = [pe EXCEPT !.state = "PESinkHardReset", !.message = b]
             /\ UNCHANGED dpm
  <2>1. Quiet(s, "PESinkHardReset")
    BY <1>6 DEF Fetch, Awake, At, Quiet, IInv, Policy, PEType
  <2>2. QED BY <1>0, <2>1, ToResetting DEF ResetStates
<1>7. QED BY <1>1, <1>2, <1>3, <1>4, <1>5, <1>6 DEF WaitCap

\* evaluate_capability changes the voltage and the match it remembers.
LEMMA EvalCapAllowed == ASSUME IInv, EvalCap PROVE Allowed
<1> DEFINE new == pe.message # NoBuf
           caps == IF new THEN pe.message ELSE dpm.caps
           req == IF pe.request = NoBuf THEN Head(pool) ELSE pe.request
           offer == OfferIn(mem[caps])
           first == IF new THEN FirstPps(offer) ELSE pe.ppsIndex
           last == IF pe.request = NoBuf THEN IF new THEN NoPps ELSE pe.lastPps
                   ELSE IF mem[pe.request].obj >= first THEN mem[pe.request].obj
                   ELSE NoPps
           cfgState == IF button.state <= 3 THEN button.state ELSE 0
           e == Evaluation(Scfg, OutputEnabled, offer, cfgState)
<1>1. CASE \E why \in {"nullAlloc", "nullMessage"} : Fault(why)
  BY <1>1, Unchanged DEF Fault
<1>2. CASE ~ \E why \in {"nullAlloc", "nullMessage"} : Fault(why)
  <2>1. /\ ~(pe.request = NoBuf /\ pool = <<>>)
        /\ ~(pe.message = NoBuf /\ dpm.caps = NoBuf)
    BY <1>2, SMT DEF EvalCap
  <2>2. /\ dpm' = [dpm EXCEPT !.caps = caps, !.requested = e.mv, !.match = e.match]
        /\ pe' = [pe EXCEPT !.state = "PESinkSelectCap", !.message = NoBuf,
                            !.request = req, !.ppsIndex = first, !.lastPps = last]
        /\ pe.state = "PESinkEvalCap"
    BY <2>1, Zenon DEF EvalCap, At
  <2> HIDE DEF new, caps, req, offer, first, last, cfgState, e
  <2>3. /\ pe'.state = "PESinkSelectCap"
        /\ pe'.contract = pe.contract /\ pe'.minPower = pe.minPower
        /\ dpm'.present = dpm.present /\ dpm'.output = dpm.output
    BY <2>2 DEF IInv, Policy, PEType, DPMType
  <2>4. Supply' = [Supply EXCEPT !.requested = Supply'.requested,
                                 !.match = Supply'.match]
    <3>1. Supply \in SupplyType /\ Supply' \in SupplyType
      BY EvalCapStep, SupplyTyped DEF IInv, Policy
    <3>2. Supply'.present = Supply.present /\ Supply'.output = Supply.output
      BY <2>3 DEF Supply
    <3>3. QED BY <3>1, <3>2 DEF SupplyType
  <2>5. PhaseOf(pe.state) = "offered" /\ PhaseOf(pe'.state) = "asked"
    BY <2>2, <2>3, Phases DEF AskedStates
  <2>6. Sink!Evaluate
    BY <2>3, <2>4, <2>5 DEF Sink!Evaluate, Sink!Decide, Sink!Go, Sink!SameTerms
  <2>7. QED BY <2>6 DEF Allowed, Sink!Next, Sink!Negotiate
<1>3. QED BY <1>1, <1>2

\* The output may be turned off, and nothing else, when the source accepts.
LEMMA StandbyFacts ==
    ASSUME dpm \in DPMType, dpm' \in {dpm, transition_standby}
    PROVE  Supply' \in {Supply, Sink!Off(Supply)}
<1>1. CASE dpm' = dpm
  BY <1>1, SupplyKept
<1>2. CASE dpm' = [dpm EXCEPT !.output = FALSE]
  <2>1. /\ dpm'.requested = dpm.requested /\ dpm'.present = dpm.present
        /\ dpm'.match = dpm.match /\ dpm'.output = FALSE
    BY <1>2 DEF DPMType
  <2>2. /\ Supply'.requested = Supply.requested /\ Supply'.present = Supply.present
        /\ Supply'.match = Supply.match /\ Supply'.output = FALSE
    BY <2>1 DEF Supply
  <2>3. dpm' \in DPMType
    BY <1>2 DEF DPMType
  <2>4. QED BY <2>2, <2>3, SupplyTyped DEF SupplyType, Sink!Off
<1>3. QED BY <1>1, <1>2 DEF transition_standby

LEMMA SelectCapAllowed == ASSUME IInv, SelectCap PROVE Allowed
<1> DEFINE s == "PESinkSelectCapRx"
           reset == {"RESET"}
<1>0. /\ PhaseOf("PESinkSelectCap") = "asked" /\ PhaseOf("PESinkSelectCapTx") = "asked"
      /\ PhaseOf(s) = "asked"
  BY Phases DEF AskedStates
<1>1. CASE SelectCapSend
  <2>1. Quiet("PESinkSelectCap", "PESinkSelectCapTx")
    BY <1>1 DEF SelectCapSend, At, Goto, Quiet, IInv, Policy, PEType
  <2>2. QED BY <1>0, <2>1, SamePhase
<1>2. CASE OnReset("PESinkSelectCapTx") \/ OnReset(s)
  BY <1>0, <1>2, OnResetQuiet, ToResetting DEF ResetStates
<1>3. CASE SelectCapSent
  <2>1. Quiet("PESinkSelectCapTx", s) \/ Quiet("PESinkSelectCapTx", "PESinkHardReset")
    BY <1>3 DEF SelectCapSent, Awake, At, Quiet, IInv, Policy, PEType
  <2>2. QED BY <1>0, <2>1, SamePhase, ToResetting DEF ResetStates
<1>4. CASE TimesOut(s, "PESinkHardReset")
  BY <1>0, <1>4, TimesOutQuiet, ToResetting DEF ResetStates
<1>5. CASE SelectCapAnswer
  <2>0. pe \in PEType /\ dpm \in DPMType
    BY DEF IInv, Policy
  <2>1. CASE /\ Consume(s, reset, {"Accept"}, "PESinkTransitionSink",
                         [pe EXCEPT !.minPower = FALSE])
             /\ dpm' = IF mem[pe.request].obj # pe.lastPps
                       THEN transition_standby ELSE dpm
    <3> DEFINE p == [pe EXCEPT !.minPower = FALSE]
    <3>0. /\ p \in PEType /\ p.contract = pe.contract /\ p.minPower = FALSE
          /\ Consume(s, reset, {"Accept"}, "PESinkTransitionSink", p)
      BY <2>0, <2>1 DEF PEType
    <3> HIDE DEF p
    <3>1. /\ pe.state = s /\ pe'.state = "PESinkTransitionSink"
          /\ pe'.contract = pe.contract /\ pe'.minPower = FALSE
      BY <3>0, ConsumeTerms
    <3>2. Supply' \in {Supply, Sink!Off(Supply)}
      BY <2>0, <2>1, StandbyFacts
    <3>3. Sink!Accept
      BY <1>0, <3>1, <3>2, Phases DEF Sink!Accept, Sink!Go
    <3>4. QED BY <3>3 DEF Allowed, Sink!Next, Sink!Negotiate
  <2>2. CASE Consume(s, reset, {"SoftReset"}, "PESinkSoftReset", pe) /\ dpm' = dpm
    <3>1. Quiet(s, "PESinkSoftReset")
      BY <2>2, ConsumeQuiet
    <3>2. QED BY <1>0, <3>1, ToWaiting DEF WaitingStates
  <2>3. CASE /\ ~pe.contract /\ dpm' = dpm
             /\ Consume(s, reset, {"Reject", "Wait"}, "PESinkWaitCap", pe)
    <3>1. Quiet(s, "PESinkWaitCap")
      BY <2>3, ConsumeQuiet
    <3>2. QED BY <1>0, <3>1, ToWaiting DEF WaitingStates
  <2>4. CASE /\ pe.contract /\ dpm' = dpm
             /\ \E t \in {"Reject", "Wait"} :
                  Consume(s, reset, {t}, "PESinkReady",
                          [pe EXCEPT !.minPower = (t = "Wait")])
    <3>1. PICK t \in {"Reject", "Wait"} :
              Consume(s, reset, {t}, "PESinkReady", [pe EXCEPT !.minPower = (t = "Wait")])
      BY <2>4, Zenon
    <3> DEFINE p == [pe EXCEPT !.minPower = (t = "Wait")]
    <3>2. /\ p \in PEType /\ p.contract = pe.contract
          /\ Consume(s, reset, {t}, "PESinkReady", p)
      BY <2>0, <3>1 DEF PEType
    <3> HIDE DEF p
    <3>3. /\ pe.state = s /\ pe'.state = "PESinkReady"
          /\ pe'.contract = pe.contract /\ pe'.minPower \in BOOLEAN
      BY <3>2, ConsumeTerms DEF PEType
    <3>4. PhaseOf("PESinkReady") = "ready"
      BY Phases DEF ReadyStates, Settled
    <3>5. Sink!Refuse
      BY <1>0, <2>4, <3>3, <3>4, SupplyKept DEF Sink!Refuse, Sink!Go
    <3>6. QED BY <3>5 DEF Allowed, Sink!Next, Sink!Negotiate
  <2>5. CASE /\ Consume(s, reset, MsgType \ {"Accept", "SoftReset", "Reject", "Wait"},
                         "PESinkSendSoftReset", pe)
             /\ dpm' = dpm
    <3>1. Quiet(s, "PESinkSendSoftReset")
      BY <2>5, ConsumeQuiet
    <3>2. QED BY <1>0, <3>1, ToWaiting DEF WaitingStates
  <2>6. QED BY <1>5, <2>1, <2>2, <2>3, <2>4, <2>5 DEF SelectCapAnswer
<1>6. QED BY <1>1, <1>2, <1>3, <1>4, <1>5 DEF SelectCap

-----------------------------------------------------------------------------
(* The handlers that switch the output.                                    *)

\* dpm_output_set is Switched, on a supply s that says what d says.
LEMMA OutputSetSwitches ==
    ASSUME NEW d \in DPMType, NEW s \in SupplyType, NEW on \in BOOLEAN,
           s.requested = d.requested, s.match = d.match, dpm' = OutputSet(d, on)
    PROVE  Supply' = Sink!Switched(s, on)
<1> DEFINE out == on /\ OutputEnabled
<1>1. out \in BOOLEAN
  BY DPMAssumption
<1>2. /\ dpm' = [d EXCEPT !.present = d.requested, !.output = out]
      /\ Sink!Switched(s, on) = [s EXCEPT !.present = s.requested, !.output = out]
  BY DEF OutputSet, Sink!Switched
<1> HIDE DEF out
<1>3. /\ dpm' \in DPMType /\ Sink!Switched(s, on) \in SupplyType
      /\ dpm'.requested = d.requested /\ dpm'.present = d.requested
      /\ dpm'.match = d.match /\ dpm'.output = out
  BY <1>1, <1>2 DEF DPMType, SupplyType
<1>4. /\ Supply' \in SupplyType /\ Supply'.requested = dpm'.requested
      /\ Supply'.present = dpm'.present /\ Supply'.match = dpm'.match
      /\ Supply'.output = dpm'.output
  BY <1>3, SupplyTyped DEF Supply
<1>5. LET q == Sink!Switched(s, on) IN
      /\ q.requested = s.requested /\ q.present = s.requested
      /\ q.match = s.match /\ q.output = out
  BY <1>1, <1>2 DEF SupplyType
<1> HIDE DEF Sink!Switched
<1>6. QED BY <1>1, <1>3, <1>4, <1>5, SameSupply

\* What the supply says of dpm.
LEMMA SupplyFields ==
    /\ Supply.requested = dpm.requested /\ Supply.present = dpm.present
    /\ Supply.match = dpm.match /\ Supply.output = dpm.output
BY DEF Supply

\* pdbs_dpm_transition_default.
LEMMA DefaultFacts ==
    ASSUME dpm \in DPMType, dpm' = transition_default
    PROVE  Supply' = Sink!Defaulted(Supply)
<1> DEFINE d == [dpm EXCEPT !.requested = 5000]
           s == [Supply EXCEPT !.requested = 5000]
<1>1. d \in DPMType /\ d.requested = 5000 /\ d.match = dpm.match
  BY DEF DPMType
<1>2. s \in SupplyType /\ s.requested = 5000 /\ s.match = dpm.match
  BY SupplyTyped, SupplyFields DEF SupplyType
<1>3. dpm' = OutputSet(d, FALSE) /\ Sink!Defaulted(Supply) = Sink!Switched(s, FALSE)
  BY DEF transition_default, Sink!Defaulted
<1>4. PICK n \in Nat : n = 5000
  OBVIOUS
<1>5. /\ d \in DPMType /\ d.requested = n /\ d.match = dpm.match
      /\ s \in SupplyType /\ s.requested = n /\ s.match = dpm.match
  BY <1>1, <1>2, <1>4
<1> HIDE DEF d, s
<1>6. s.requested = d.requested /\ s.match = d.match
  BY <1>5
<1>7. Supply' = Sink!Switched(s, FALSE)
  BY <1>3, <1>5, <1>6, OutputSetSwitches
<1>8. QED BY <1>3, <1>7

LEMMA TransitionSinkAllowed == ASSUME IInv, TransitionSink PROVE Allowed
<1> DEFINE s == "PESinkTransitionSink"
           reset == {"RESET"}
<1>0. PhaseOf(s) = "moving" /\ pe \in PEType /\ dpm \in DPMType
  BY Phases DEF IInv, Policy
<1>1. CASE OnReset(s)
  BY <1>0, <1>1, OnResetQuiet, ToResetting DEF ResetStates
<1>2. CASE TimesOut(s, "PESinkHardReset")
  BY <1>0, <1>2, TimesOutQuiet, ToResetting DEF ResetStates
<1>3. ASSUME Consume(s, reset, {"PsRdy"}, "PESinkReady", [pe EXCEPT !.contract = TRUE]),
             dpm' = IF pe.minPower THEN dpm ELSE transition_requested
      PROVE  Allowed
  <2> DEFINE p == [pe EXCEPT !.contract = TRUE]
  <2>1. /\ p \in PEType /\ p.contract = TRUE /\ p.minPower = pe.minPower
        /\ Consume(s, reset, {"PsRdy"}, "PESinkReady", p)
    BY <1>0, <1>3 DEF PEType
  <2> HIDE DEF p
  <2>2. /\ pe.state = s /\ pe'.state = "PESinkReady"
        /\ pe'.contract = TRUE /\ pe'.minPower = pe.minPower
    BY <2>1, ConsumeTerms
  <2>3. pe.minPower => Supply' = Supply
    BY <1>3, SupplyKept
  <2>4. ~pe.minPower => Supply' = Sink!Switched(Supply, Supply.match)
    BY <1>0, <1>3, OutputSetSwitches, SupplyTyped, SupplyFields
       DEF transition_requested, DPMType
  <2>5. PhaseOf("PESinkReady") = "ready"
    BY Phases DEF ReadyStates, Settled
  <2>6. Sink!Complete
    BY <1>0, <2>2, <2>3, <2>4, <2>5 DEF Sink!Complete, Sink!Go
  <2>7. QED BY <2>6 DEF Allowed, Sink!Next, Sink!Negotiate
<1>4. ASSUME Consume(s, reset, MsgType \ {"PsRdy"}, "PESinkHardReset", pe),
             dpm' = transition_default
      PROVE  Allowed
  <2>1. /\ pe.state = s /\ pe'.state = "PESinkHardReset"
        /\ pe'.contract = pe.contract /\ pe'.minPower = pe.minPower
    BY <1>0, <1>4, ConsumeTerms
  <2>2. Supply' = Sink!Defaulted(Supply)
    BY <1>0, <1>4, DefaultFacts
  <2>3. PhaseOf("PESinkHardReset") = "resetting"
    BY Phases DEF ResetStates
  <2>4. Sink!Fail
    BY <1>0, <2>1, <2>2, <2>3
       DEF Sink!Fail, Sink!Go, Sink!Phase, Sink!SameTerms
  <2>5. QED BY <2>4 DEF Allowed, Sink!Next, Sink!Negotiate
<1>5. QED BY <1>1, <1>2, <1>3, <1>4 DEF TransitionSink

LEMMA TransitionDefaultAllowed == ASSUME IInv, TransitionDefault PROVE Allowed
<1>1. /\ pe.state = "PESinkTransitionDefault" /\ pe'.state = "PESinkStartup"
      /\ pe'.contract = FALSE /\ pe'.minPower = pe.minPower
  BY DEF TransitionDefault, At, IInv, Policy, PEType
<1>2. Supply' = Sink!Defaulted(Supply)
  BY DefaultFacts DEF TransitionDefault, IInv, Policy
<1>3. Sink!Default
  BY <1>1, <1>2, Phases DEF Sink!Default, Sink!Go, ResetStates
<1>4. QED BY <1>3 DEF Allowed, Sink!Next, Sink!Negotiate

LEMMA SourceUnresponsiveAllowed == ASSUME IInv, SourceUnresponsive PROVE Allowed
<1>0. dpm \in DPMType /\ pe \in PEType /\ pe.state = "PESinkSourceUnresponsive"
  BY DEF SourceUnresponsive, At, IInv, Policy
<1>1. PICK tcc : LET d == evaluate_typec_current(tcc)
                     m == IF d.match THEN 1 ELSE 0 IN
                 /\ dpm' = IF pe.oldMatch = m THEN transition_typec(d) ELSE d
                 /\ pe' = [pe EXCEPT !.oldMatch = m]
  BY DEF SourceUnresponsive
<1>a. TypeCMatch(Scfg, tcc) \in BOOLEAN
  BY DEF TypeCMatch
<1>2. PICK m \in BOOLEAN : m = TypeCMatch(Scfg, tcc)
  BY <1>a
<1>b. PICK n \in Nat : n = 5000
  OBVIOUS
<1> DEFINE d == evaluate_typec_current(tcc)
           s == [Supply EXCEPT !.requested = n, !.match = m]
<1>3. d = [dpm EXCEPT !.requested = n, !.match = m]
  BY <1>2, <1>b DEF evaluate_typec_current
<1>4. dpm' \in {d, OutputSet(d, d.match)}
  BY <1>1 DEF transition_typec
<1>5. /\ pe'.state = "PESinkSourceUnresponsive"
      /\ pe'.contract = pe.contract /\ pe'.minPower = pe.minPower
  BY <1>0, <1>1 DEF PEType
<1> HIDE DEF d
<1>6. /\ d \in DPMType /\ d.requested = n /\ d.match = m
      /\ d.present = dpm.present /\ d.output = dpm.output
  BY <1>0, <1>2, <1>3 DEF DPMType
<1>7. /\ s \in SupplyType /\ s.requested = n /\ s.match = m
      /\ s.present = dpm.present /\ s.output = dpm.output
  BY <1>0, <1>2, SupplyTyped, SupplyFields DEF SupplyType
<1> HIDE DEF s
<1>8. ASSUME dpm' = d PROVE Supply' = s
  <2>2. Supply' \in SupplyType /\ Supply'.requested = n /\ Supply'.match = m
        /\ Supply'.present = dpm.present /\ Supply'.output = dpm.output
    BY <1>6, <1>8, SupplyTyped DEF Supply
  <2>3. QED BY <1>7, <2>2, SameSupply
<1>9. ASSUME dpm' = OutputSet(d, d.match) PROVE Supply' = Sink!Switched(s, m)
  <2>1. dpm' = OutputSet(d, m) /\ s.requested = d.requested /\ s.match = d.match
    BY <1>6, <1>7, <1>9
  <2>2. QED BY <1>2, <1>6, <1>7, <2>1, OutputSetSwitches
<1>10. Supply' \in {s, Sink!Switched(s, m)}
  BY <1>4, <1>8, <1>9
<1>11. s = Sink!Measured(Supply, m)
  BY <1>b DEF s, Sink!Measured
<1>12. Sink!TypeC
  <2>1. Sink!Go({"typec"}, "typec") /\ Sink!SameTerms
    BY <1>0, <1>5, Phases DEF Sink!Go, Sink!SameTerms
  <2>2. Sink!Measure(m)
    BY <1>10, <1>11, <2>1 DEF Sink!Measure
  <2>3. QED BY <1>2, <2>2 DEF Sink!TypeC
<1>13. QED BY <1>12 DEF Allowed, Sink!Next, Sink!Negotiate

-----------------------------------------------------------------------------
(* The Ready state and what it starts.                                     *)
LEMMA ReadyIn ==
    /\ PhaseOf("PESinkReady") = "ready" /\ "PESinkReady" \in ReadyStates
    /\ \A s \in {"PESinkSendNotSupported", "PESinkGiveSinkCap", "PESinkGetSourceCap",
                 "PESinkChunkReceived", "PESinkNotSupportedReceived"} :
          s \in ReadyStates
BY Phases DEF ReadyStates, Settled

LEMMA ReadyStartsQuiet ==
    ASSUME IInv, NEW flag, NEW above, NEW next, ReadyStarts(flag, above, next)
    PROVE  Quiet("PESinkReady", next)
BY DEF ReadyStarts, At, Quiet, IInv, Policy, PEType

LEMMA ReadyFreesAllowed ==
    ASSUME IInv, NEW types, NEW next \in ReadyStates \cup WaitingStates,
           ReadyFrees(types, next)
    PROVE  Allowed
<1>1. Quiet("PESinkReady", next)
  BY ConsumeQuiet DEF ReadyFrees
<1>2. QED BY <1>1, Phases, ReadyIn, SamePhase, ToWaiting

\* A GotoMin the configuration lets the sink obey.
LEMMA GotoMinAllowed ==
    ASSUME IInv, dpm' = transition_min,
           Consume("PESinkReady", ReadyUrgent, {"GotoMin"}, "PESinkTransitionSink",
                   [pe EXCEPT !.minPower = TRUE])
    PROVE  Allowed
<1> DEFINE p == [pe EXCEPT !.minPower = TRUE]
<1>0. pe \in PEType /\ dpm \in DPMType
  BY DEF IInv, Policy
<1>1. /\ p \in PEType /\ p.contract = pe.contract /\ p.minPower = TRUE
      /\ Consume("PESinkReady", ReadyUrgent, {"GotoMin"}, "PESinkTransitionSink", p)
  BY <1>0 DEF PEType
<1> HIDE DEF p
<1>2. /\ pe.state = "PESinkReady" /\ pe'.state = "PESinkTransitionSink"
      /\ pe'.contract = pe.contract /\ pe'.minPower = TRUE
  BY <1>1, ConsumeTerms
<1>3. Supply' = Sink!Switched(Supply, FALSE)
  BY <1>0, OutputSetSwitches, SupplyTyped, SupplyFields DEF transition_min
<1>4. Sink!Minimum
  BY <1>2, <1>3, Phases, ReadyIn DEF Sink!Minimum, Sink!Go
<1>5. QED BY <1>4 DEF Allowed, Sink!Next, Sink!Negotiate

LEMMA ReadyAllowed == ASSUME IInv, Ready PROVE Allowed
<1> DEFINE s == "PESinkReady"
<1>0. PhaseOf(s) = "ready" /\ s \in ReadyStates
  BY ReadyIn
<1>1. CASE OnReset(s)
  BY <1>0, <1>1, OnResetQuiet, ToResetting DEF ResetStates
<1>2. CASE TimesOut(s, "PESinkSelectCap")
  BY <1>0, <1>2, TimesOutQuiet, ToAsked DEF AskedStates
<1>3. CASE ReadyWakes("I_OVRTEMP", {"RESET"}) /\ Goto("PESinkHardReset") /\ dpm' = dpm
  <2>1. Quiet(s, "PESinkHardReset")
    BY <1>3 DEF ReadyWakes, Awake, At, Goto, Quiet, IInv, Policy, PEType
  <2>2. QED BY <1>0, <2>1, ToResetting DEF ResetStates
<1>4. CASE ReadyStarts("GET_SOURCE_CAP", {"RESET", "I_OVRTEMP"}, "PESinkGetSourceCap")
  BY <1>4, ReadyStartsQuiet, ReadyIn, Phases, SamePhase
<1>5. CASE ReadyStarts("NEW_POWER", {"RESET", "I_OVRTEMP", "GET_SOURCE_CAP"},
                       "PESinkEvalCap")
  BY <1>0, <1>5, ReadyStartsQuiet, ToOffered
<1>6. CASE ReadyStarts("PPS_REQUEST", {"RESET", "I_OVRTEMP", "GET_SOURCE_CAP",
                                       "NEW_POWER"}, "PESinkSelectCap")
  BY <1>0, <1>6, ReadyStartsQuiet, ToAsked DEF AskedStates
<1>8. CASE \/ ReadyFrees({"VDM", "Ping"}, s)
           \/ ReadyFrees(Unsupported, "PESinkSendNotSupported")
           \/ ReadyFrees({"GotoMin"}, "PESinkSendNotSupported")
           \/ ReadyFrees({"GetSinkCap"}, "PESinkGiveSinkCap")
           \/ ReadyFrees({"Chunked"}, "PESinkChunkReceived")
           \/ ReadyFrees({"NotSupported"}, "PESinkNotSupportedReceived")
  BY <1>0, <1>8, ReadyIn, ReadyFreesAllowed
<1>9. CASE \/ ReadyFrees({"SoftReset"}, "PESinkSoftReset")
           \/ ReadyFrees(Unknown \cup (IF pe.rev = 3 THEN {} ELSE UnknownIn2),
                         "PESinkSendSoftReset")
  BY <1>9, ReadyFreesAllowed DEF WaitingStates
<1>10. CASE /\ Consume(s, ReadyUrgent, {"GotoMin"}, "PESinkTransitionSink",
                       [pe EXCEPT !.minPower = TRUE])
            /\ dpm' = transition_min
  BY <1>10, GotoMinAllowed
<1>11. CASE \E b \in Buf :
              /\ Fetch(s, ReadyUrgent, b)
              /\ mem[b].type = "SourceCap"
              /\ pe' = [pe EXCEPT !.state = "PESinkEvalCap", !.message = b]
              /\ UNCHANGED <<pool, mem, dpm>>
  <2>1. Quiet(s, "PESinkEvalCap")
    BY <1>11 DEF Fetch, Awake, At, Quiet, IInv, Policy, PEType
  <2>2. QED BY <1>0, <2>1, ToOffered
<1>12. QED BY <1>1, <1>2, <1>3, <1>4, <1>5, <1>6, <1>8, <1>9, <1>10, <1>11
           DEF Ready

LEMMA QueriesAllowed ==
    ASSUME IInv, GetSourceCap \/ GiveSinkCap \/ SendNotSupported PROVE Allowed
<1>1. \A s \in {"PESinkGetSourceCap", "PESinkGetSourceCapTx", "PESinkGiveSinkCap",
                "PESinkGiveSinkCapTx", "PESinkSendNotSupported",
                "PESinkSendNotSupportedTx"} : s \in ReadyStates /\ PhaseOf(s) = "ready"
  BY Phases DEF ReadyStates, Settled
<1>2. CASE GetSourceCap
  BY <1>1, <1>2, ReadyIn, SendNewAllowed, SentOrAllowed DEF GetSourceCap, ResetStates
<1>3. CASE GiveSinkCap
  BY <1>1, <1>3, ReadyIn, SendNewAllowed, SentOrAllowed DEF GiveSinkCap, ResetStates
<1>4. CASE SendNotSupported
  BY <1>1, <1>4, ReadyIn, SendNewAllowed, SentOrAllowed
     DEF SendNotSupported, WaitingStates
<1>5. QED BY <1>2, <1>3, <1>4

LEMMA SoftResetsAllowed ==
    ASSUME IInv, SoftReset \/ SendSoftReset PROVE Allowed
<1> DEFINE rxs == "PESinkSendSoftResetRx"
           reset == {"RESET"}
<1>1. \A s \in {"PESinkSoftReset", "PESinkSoftResetTx", "PESinkSendSoftReset",
                "PESinkSendSoftResetTx", rxs, "PESinkWaitCap"} :
         s \in WaitingStates /\ PhaseOf(s) = "waiting"
  BY Phases DEF WaitingStates
<1>2. CASE SoftReset
  BY <1>1, <1>2, SendNewAllowed, SentOrAllowed DEF SoftReset, ResetStates
<1>3. CASE \/ SendNew("PESinkSendSoftReset", "SoftReset", "PESinkSendSoftResetTx")
           \/ SentOr("PESinkSendSoftResetTx", rxs, "PESinkHardReset")
  BY <1>1, <1>3, SendNewAllowed, SentOrAllowed DEF ResetStates
<1>4. CASE OnReset(rxs) \/ TimesOut(rxs, "PESinkHardReset")
  BY <1>1, <1>4, OnResetQuiet, TimesOutQuiet, ToResetting DEF ResetStates
<1>5. CASE /\ UNCHANGED dpm
           /\ \/ Consume(rxs, reset, {"Accept"}, "PESinkWaitCap", pe)
              \/ Consume(rxs, reset, {"SoftReset"}, "PESinkSoftReset", pe)
  BY <1>1, <1>5, ConsumeQuiet, SamePhase
<1>6. CASE /\ UNCHANGED dpm
           /\ Consume(rxs, reset, MsgType \ {"Accept", "SoftReset"},
                      "PESinkHardReset", pe)
  BY <1>1, <1>6, ConsumeQuiet, ToResetting DEF ResetStates
<1>7. QED BY <1>2, <1>3, <1>4, <1>5, <1>6 DEF SendSoftReset

LEMMA ChunksAllowed ==
    ASSUME IInv, ChunkReceived \/ NotSupportedReceived PROVE Allowed
<1>1. CASE OnReset("PESinkChunkReceived")
  BY <1>1, OnResetQuiet, ReadyIn, Phases, ToResetting DEF ResetStates
<1>2. CASE TimesOut("PESinkChunkReceived", "PESinkSendNotSupported")
  BY <1>2, TimesOutQuiet, ReadyIn, Phases, SamePhase
<1>3. CASE NotSupportedReceived
  <2>1. Quiet("PESinkNotSupportedReceived", "PESinkReady")
    BY <1>3 DEF NotSupportedReceived, At, Goto, Quiet, IInv, Policy, PEType
  <2>2. QED BY <2>1, ReadyIn, Phases, SamePhase
<1>4. QED BY <1>1, <1>2, <1>3 DEF ChunkReceived

LEMMA HardResetAllowed == ASSUME IInv, HardReset PROVE Allowed
<1>1. CASE Quiet("PESinkHardReset", "PESinkSourceUnresponsive")
  <2>1. Sink!GiveUp
    BY <1>1, Phases, SupplyKept
       DEF Quiet, Sink!GiveUp, Sink!Go, Sink!SameTerms, ResetStates
  <2>2. QED BY <2>1 DEF Allowed, Sink!Next, Sink!Negotiate
<1>2. CASE \/ Quiet("PESinkHardReset", "PESinkHardResetSent")
           \/ Quiet("PESinkHardResetSent", "PESinkTransitionDefault")
  BY <1>2, Phases, SamePhase DEF ResetStates
<1>3. QED BY <1>1, <1>2 DEF HardReset, Awake, At, Goto, Quiet, IInv, Policy, PEType

LEMMA PpsTimerAllowed == ASSUME IInv, PpsTimer PROVE Allowed
<1>1. Quiet(pe.state, pe.state)
  BY DEF PpsTimer, Quiet, IInv, Policy, PEType
<1>2. QED BY <1>1, SamePhase

LEMMA PEAllowed == ASSUME IInv, PENext PROVE Allowed
BY StartupAllowed, DiscoveryAllowed, WaitCapAllowed, EvalCapAllowed, SelectCapAllowed,
   TransitionSinkAllowed, ReadyAllowed, QueriesAllowed, SoftResetsAllowed,
   ChunksAllowed, HardResetAllowed, TransitionDefaultAllowed,
   SourceUnresponsiveAllowed, PpsTimerAllowed DEF PENext

-----------------------------------------------------------------------------
(* The other threads, the port and the application.                        *)
LEMMA RXLeaves == ASSUME RXNext PROVE UNCHANGED <<pe, dpm>>
BY DEF RXNext, RxWaitPHY, RxRead, RxReset, RxResetYielded, RxDrop, RxCheckMessageID,
       RxStoreMessageID, RxStoreYielded, rxUnchanged, Fault

LEMMA TXLeaves == ASSUME TXNext PROVE UNCHANGED <<pe, dpm>>
<1>1. CASE TxPHYReset \/ TxWaitMessage \/ TxReset \/ TxConstructMessage
  BY <1>1 DEF TxPHYReset, TxWaitMessage, TxReset, TxConstructMessage, txUnchanged, Fault
<1>2. CASE \/ TxSinkTx \/ TxSend \/ TxWaitResponse \/ TxMatchMessageID
           \/ TxTransmissionError \/ TxMessageSent \/ TxDiscardMessage
  BY <1>2 DEF TxSinkTx, TxSend, TxWaitResponse, TxMatchMessageID, TxTransmissionError,
              TxMessageSent, TxDiscardMessage, TxOver, txUnchanged
<1>3. QED BY <1>1, <1>2 DEF TXNext

LEMMA HRLeaves == ASSUME HRNext PROVE UNCHANGED <<pe, dpm>>
BY DEF HRNext, HrResetLayer, HrResetYielded, HrIndicateHardReset, HrRequestHardReset,
       HrWaitPHY, HrTimeout, HrHardResetRequested, HrTellPE, HrWaitPE, hrUnchanged

LEMMA PortLeaves ==
    ASSUME I2CDone \/ IntN \/ Source \/ Transceiver \/ Application
    PROVE  UNCHANGED <<pe, dpm>>
<1>1. CASE I2CDone
  BY <1>1 DEF I2CDone
<1>2. CASE IntN
  BY <1>2 DEF IntN, IntNPoll, IntNTellRX, IntNTellTX, IntNTellHR, IntNTellPE, IntNTell,
              threadsUnchanged
<1>3. CASE Source
  <2>1. SrcSend => portUnchanged
    BY DEF SrcSend
  <2>2. SrcTransition => portUnchanged
    BY DEF SrcTransition
  <2>3. SrcStart => portUnchanged
    BY DEF SrcStart
  <2>4. SrcSoftReset \/ SrcHardReset \/ SrcRecover => portUnchanged
    BY DEF SrcSoftReset, SrcHardReset, SrcRecover
  <2>5. QED BY <1>3, <2>1, <2>2, <2>3, <2>4
            DEF Source, portUnchanged, threadsUnchanged
<1>4. CASE Transceiver
  BY <1>4 DEF Transceiver, PhySent, PhyRetryFail, PhyHardSent, Overheat,
              portUnchanged, threadsUnchanged
<1>5. CASE Application
  BY <1>5 DEF Application, MainBoot, ButtonPress, ButtonRelease, AskSourceCap,
              TellPE, threadsUnchanged
<1>6. QED BY <1>1, <1>2, <1>3, <1>4, <1>5

-----------------------------------------------------------------------------
LEMMA InitAllowed == Init => Sink!Init
<1>1. PhaseOf("PESinkStartup") = "resetting"
  BY Phases DEF ResetStates
<1>2. QED BY <1>1, DPMAssumption DEF Init, PEInit, DPMInit, Supply, Sink!Init

LEMMA StepAllowed == IInv /\ [Next]_vars => [Sink!Next]_(Sink!vars)
<1>1. CASE UNCHANGED vars
  BY <1>1, Unchanged DEF vars, kernelVars, Allowed
<1>2. ASSUME IInv, Next PROVE [Sink!Next]_(Sink!vars)
  BY <1>2, PEAllowed, RXLeaves, TXLeaves, HRLeaves, PortLeaves, Unchanged
     DEF Next, Allowed
<1>3. QED BY <1>1, <1>2

\* The threads implement SinkContract: for every source of the modelled kind,
\* configuration, pool and choice of lost messages and timeouts, the terms of
\* the contract and the output change only in the steps SinkContract has.
THEOREM ImplementsSinkContract == Spec => ImplementsContract
<1>1. Init /\ [][Next]_vars /\ []IInv => Sink!Init /\ [][Sink!Next]_(Sink!vars)
  BY InitAllowed, StepAllowed, PTL
<1>2. QED BY <1>1, IInvHolds, PTL DEF Spec, ImplementsContract, Sink!Spec

-----------------------------------------------------------------------------
(* The decision the sink holds on to.                                      *)

\* The settings of the button, one more than there are voltages: the fifth is
\* taken for the first.
ButtonType == button \in [state: 0..4, cnt: 0..3, phase: {"boot", "up", "down"}]

\* A press counts on from 0 to 3 and starts again.
LEMMA PressedType ==
    ASSUME ButtonType PROVE Pressed.state \in 0..4 /\ Pressed.cnt \in 0..3
<1>1. button.cnt \in 0..3
  BY DEF ButtonType
<1>2. QED BY <1>1 DEF Pressed

LEMMA ButtonStep == ASSUME ButtonType, [Next]_vars PROVE ButtonType'
<1>1. ASSUME button' = button PROVE ButtonType'
  BY <1>1 DEF ButtonType
<1>2. CASE PENext
  <2>1. CASE EvalCap
    <3>1. \/ button' = button
          \/ ButtonEvaluated(IF button.state <= 3 THEN button.state ELSE 0)
      BY <2>1, Zenon DEF EvalCap, Fault, partnerVars
    <3>2. CASE button' = [Pressed EXCEPT !.state = 0]
      <4>1. button' = [state |-> 0, cnt |-> Pressed.cnt, phase |-> "down"]
        BY <3>2 DEF Pressed
      <4>2. QED BY <4>1, PressedType DEF ButtonType
    <3>3. QED BY <3>1, <3>2 DEF ButtonType, ButtonEvaluated
  <2>2. CASE ~EvalCap
    <3>1. button' = button
      <4> USE DEF partnerVars, OnReset, TimesOut, Consume, Fetch, SendNew, Fault, SentOr, Sent
      <4>1. CASE Startup \/ Discovery \/ HardReset \/ TransitionDefault
                 \/ NotSupportedReceived \/ SourceUnresponsive \/ PpsTimer
        BY <4>1 DEF Startup, Discovery, HardReset, TransitionDefault,
           NotSupportedReceived, SourceUnresponsive, PpsTimer
      <4>2. CASE WaitCap
        BY <4>2, Zenon DEF WaitCap
      <4>3. CASE SelectCap \/ TransitionSink \/ ChunkReceived
        BY <4>3 DEF SelectCap, SelectCapSend, SelectCapSent, SelectCapAnswer,
           TransitionSink, ChunkReceived
      <4>4. CASE Ready
        BY <4>4, Zenon DEF Ready, ReadyWakes, ReadyStarts, ReadyFrees
      <4>5. CASE GetSourceCap \/ GiveSinkCap \/ SoftReset \/ SendNotSupported
                 \/ SendSoftReset
        BY <4>5 DEF GetSourceCap, GiveSinkCap, SoftReset, SendNotSupported, SendSoftReset
      <4>6. QED BY <1>2, <2>2, <4>1, <4>2, <4>3, <4>4, <4>5 DEF PENext
    <3>2. QED BY <1>1, <3>1
  <2>3. QED BY <2>1, <2>2
<1>3. CASE RXNext
  BY <1>1, <1>3 DEF RXNext, RxWaitPHY, RxRead, RxReset, RxResetYielded, RxCheckMessageID,
     RxStoreMessageID, RxStoreYielded, rxUnchanged, Fault, partnerVars
<1>4. CASE TXNext
  BY <1>1, <1>4 DEF TXNext, TxPHYReset, TxWaitMessage, TxReset, TxConstructMessage, TxSinkTx,
     TxSend, TxWaitResponse, TxMatchMessageID, TxTransmissionError, TxMessageSent,
     TxOver, TxDiscardMessage, txUnchanged, Fault, partnerVars
<1>5. CASE HRNext
  BY <1>1, <1>5 DEF HRNext, HrResetLayer, HrResetYielded, HrIndicateHardReset, HrTellPE,
     HrRequestHardReset, HrWaitPHY, HrTimeout, HrHardResetRequested, HrWaitPE,
     hrUnchanged, partnerVars
<1>6. CASE I2CDone \/ IntN \/ Transceiver
  BY <1>1, <1>6 DEF I2CDone, IntN, IntNPoll, IntNTellRX, IntNTellTX, IntNTellHR, IntNTell,
     IntNTellPE, Transceiver, PhySent, PhyRetryFail, PhyHardSent, Overheat, partnerVars
<1>7. CASE Source
  <2>1. SrcSend \/ SrcStart => button' = button
    BY Zenon DEF SrcSend, SrcStart
  <2>2. QED BY <1>1, <1>7, <2>1 DEF Source, SrcTransition, SrcSoftReset, SrcHardReset,
           SrcRecover
<1>8. CASE Application
  <2>1. CASE AskSourceCap
    BY <1>1, <2>1 DEF AskSourceCap
  <2>2. CASE MainBoot \/ ButtonRelease
    <3>1. \/ button' = [button EXCEPT !.state = 0, !.phase = "up"]
          \/ button' = [button EXCEPT !.phase = "up"]
      BY <2>2 DEF MainBoot, ButtonRelease
    <3>2. CASE button' = [button EXCEPT !.state = 0, !.phase = "up"]
      <4> DEFINE up == [button EXCEPT !.phase = "up"]
      <4>1. up \in [state: 0..4, cnt: 0..3, phase: {"boot", "up", "down"}]
        BY DEF ButtonType
      <4>2. button' = [up EXCEPT !.state = 0]
        BY <3>2 DEF ButtonType
      <4> HIDE DEF up
      <4>3. QED BY <4>1, <4>2 DEF ButtonType
    <3>3. CASE button' = [button EXCEPT !.phase = "up"]
      BY <3>3 DEF ButtonType
    <3>4. QED BY <3>1, <3>2, <3>3
  <2>3. CASE ButtonPress
    <3>1. button' = [state |-> Pressed.state, cnt |-> Pressed.cnt, phase |-> "down"]
      BY <2>3 DEF ButtonPress, Pressed
    <3>2. QED BY <3>1, PressedType DEF ButtonType
  <2>4. QED BY <1>8, <2>1, <2>2, <2>3 DEF Application
<1>9. CASE UNCHANGED vars
  BY <1>1, <1>9 DEF vars, partnerVars
<1>10. QED BY <1>2, <1>3, <1>4, <1>5, <1>6, <1>7, <1>8, <1>9 DEF Next

\* What a buffer holds is written anew only by whoever takes it from the free
\* list, puts it back there or receives a message into it.
LEMMA Written ==
    ASSUME IInv, Next, ~EvalCap, NEW b \in Buf
    PROVE  \/ mem'[b].obj = mem[b].obj
           \/ In(pool, b) \/ In(pool', b)
           \/ rx.state # "PRLRxWaitPHY" /\ b = rx.message
<1>0. pool \in Seq(Buf) /\ mem \in MemType
  BY DEF IInv, Kernel
<1>1. ASSUME NEW c \in Buf, Freed(c)
      PROVE  mem'[b] = mem[b] \/ In(pool', b)
  <2>1. b # c => mem'[b] = mem[b]
    BY <1>0, <1>1 DEF Freed, MemType
  <2>2. In(pool', c)
    <3>1. Len(pool') \in Nat /\ Len(pool') >= 1 /\ pool'[1] = c
      BY <1>0, <1>1 DEF Freed
    <3>2. QED BY <3>1 DEF In
  <2>3. QED BY <2>1, <2>2
<1>2. ASSUME NEW s, NEW type, NEW wait, SendNew(s, type, wait)
      PROVE  mem'[b] = mem[b] \/ In(pool, b)
  <2>1. CASE pool = <<>>
    BY <1>2, <2>1 DEF SendNew, Fault
  <2>2. CASE pool # <<>>
    <3>1. mem' = [mem EXCEPT ![Head(pool)] = Message(type, 0)]
      BY <1>2, <2>2 DEF SendNew
    <3>2. In(pool, Head(pool))
      <4>1. Len(pool) \in Nat /\ Len(pool) >= 1 /\ pool[1] = Head(pool)
        BY <1>0, <2>2
      <4>2. QED BY <4>1 DEF In
    <3>3. QED BY <1>0, <3>1, <3>2 DEF MemType
  <2>3. QED BY <2>1, <2>2
<1>3. ASSUME NEW s \in Sending, NEW done, NEW failed, SentOr(s, done, failed)
      PROVE  mem'[b] = mem[b] \/ In(pool', b)
  <2>1. pe.sending \in Buf /\ Freed(pe.sending)
    BY <1>3 DEF SentOr, Sent, Awake, At, IInv, Policy, PEType
  <2>2. QED BY <1>1, <2>1
<1>4. ASSUME NEW s, NEW urgent, NEW types, NEW next, NEW p,
             Consume(s, urgent, types, next, p)
      PROVE  mem'[b] = mem[b] \/ In(pool', b)
  <2>1. PICK c \in Buf : Freed(c)
    BY <1>4, Zenon DEF Consume
  <2>2. QED BY <1>1, <2>1
<1>5. CASE PENext
  <2>1. CASE Startup \/ Discovery \/ HardReset \/ TransitionDefault \/ ChunkReceived
             \/ NotSupportedReceived \/ SourceUnresponsive \/ PpsTimer
    BY <2>1 DEF Startup, Discovery, HardReset, TransitionDefault, ChunkReceived,
       NotSupportedReceived, SourceUnresponsive, PpsTimer, OnReset, TimesOut, kernelVars
  <2>2. CASE WaitCap
    <3>1. (\E c \in Buf : Freed(c)) \/ mem' = mem
      BY <2>2, Zenon DEF WaitCap, OnReset, TimesOut, Consume, kernelVars
    <3>2. QED BY <1>1, <3>1
  <2>3. CASE SelectCap \/ TransitionSink
    <3>1. (\E c \in Buf : Freed(c)) \/ mem' = mem
      BY <2>3, Zenon DEF SelectCap, SelectCapSend, SelectCapSent, SelectCapAnswer,
         TransitionSink, OnReset, TimesOut, Consume, kernelVars
    <3>2. QED BY <1>1, <3>1
  <2>4. CASE Ready
    <3>1. \/ \E c \in Buf : Freed(c)
          \/ mem' = mem
          \/ pe.message # NoBuf /\ Freed(pe.message)
      BY <2>4, Zenon DEF Ready, ReadyWakes, ReadyStarts, ReadyFrees, OnReset, TimesOut,
         Consume, kernelVars
    <3>2. pe.message # NoBuf => pe.message \in Buf
      BY DEF IInv, Policy, PEType
    <3>3. QED BY <1>1, <3>1, <3>2
  <2>5. CASE GetSourceCap \/ GiveSinkCap \/ SoftReset \/ SendNotSupported
    BY <1>2, <1>3, <2>5 DEF GetSourceCap, GiveSinkCap, SoftReset, SendNotSupported, Sending
  <2>6. CASE SendSoftReset
    <3>1. OnReset("PESinkSendSoftResetRx") \/ TimesOut("PESinkSendSoftResetRx", "PESinkHardReset")
          => mem' = mem
      BY DEF OnReset, TimesOut, kernelVars
    <3>2. QED BY <1>2, <1>3, <1>4, <2>6, <3>1 DEF SendSoftReset, Sending
  <2>7. QED BY <1>5, <2>1, <2>2, <2>3, <2>4, <2>5, <2>6 DEF PENext
<1>6. CASE RXNext
  <2>1. CASE RxRead
    <3>1. rx.state # "PRLRxWaitPHY"
      BY <2>1 DEF RxRead, RXAt
    <3>2. b # rx.message => mem'[b] = mem[b]
      BY <1>0, <2>1 DEF RxRead, MemType
    <3>3. QED BY <3>1, <3>2
  <2>2. CASE RxResetYielded \/ RxCheckMessageID
    <3>1. mem' = mem \/ Freed(rx.message)
      BY <2>2 DEF RxResetYielded, RxCheckMessageID, RxDrop
    <3>2. rx.message \in Buf
      BY <2>2 DEF RxResetYielded, RxCheckMessageID, RXAt, IInv, Link, RXType
    <3>3. QED BY <1>1, <3>1, <3>2
  <2>3. CASE RxWaitPHY \/ RxReset \/ RxStoreMessageID \/ RxStoreYielded
    BY <2>3 DEF RxWaitPHY, RxReset, RxStoreMessageID, RxStoreYielded, Fault
  <2>4. QED BY <1>6, <2>1, <2>2, <2>3 DEF RXNext
<1>7. CASE TXNext
  <2>1. mem' = mem \/ mem' = [mem EXCEPT ![tx.message].id = tx.counter]
    BY <1>7 DEF TXNext, TxPHYReset, TxWaitMessage, TxReset, TxConstructMessage, TxSinkTx,
       TxSend, TxWaitResponse, TxMatchMessageID, TxTransmissionError,
       TxMessageSent, TxOver, TxDiscardMessage, txUnchanged, Fault, partnerVars
  <2>2. QED BY <1>0, <2>1 DEF MemType, Msg
<1>8. CASE HRNext
  BY <1>8 DEF HRNext, HrResetLayer, HrResetYielded, HrIndicateHardReset, HrTellPE,
     HrRequestHardReset, HrWaitPHY, HrTimeout, HrHardResetRequested, HrWaitPE, hrUnchanged
<1>9. CASE I2CDone \/ IntN \/ Application
  BY <1>9 DEF I2CDone, IntN, IntNPoll, IntNTellRX, IntNTellTX, IntNTellHR, IntNTell,
     IntNTellPE, Application, MainBoot, ButtonPress, ButtonRelease, AskSourceCap,
     TellPE, threadsUnchanged
<1>10. CASE Source \/ Transceiver
  <2>1. SrcSend \/ SrcStart => portUnchanged
    BY Zenon DEF SrcSend, SrcStart
  <2>2. QED BY <1>10, <2>1 DEF Source, SrcTransition, SrcSoftReset, SrcHardReset,
           SrcRecover, Transceiver, PhySent, PhyRetryFail, PhyHardSent, Overheat,
           portUnchanged, threadsUnchanged
<1>11. QED BY <1>5, <1>6, <1>7, <1>8, <1>9, <1>10 DEF Next

LEMMA EvalCapNext ==
    ASSUME IInv, EvalCap PROVE pe' = pe \/ pe'.state = "PESinkSelectCap"
<1> DEFINE new == pe.message # NoBuf
           caps == IF new THEN pe.message ELSE dpm.caps
           req == IF pe.request = NoBuf THEN Head(pool) ELSE pe.request
           offer == OfferIn(mem[caps])
           first == IF new THEN FirstPps(offer) ELSE pe.ppsIndex
           last == IF pe.request = NoBuf THEN IF new THEN NoPps ELSE pe.lastPps
                   ELSE IF mem[pe.request].obj >= first THEN mem[pe.request].obj
                   ELSE NoPps
<1>1. CASE \E why \in {"nullAlloc", "nullMessage"} : Fault(why)
  BY <1>1 DEF Fault
<1>2. CASE ~ \E why \in {"nullAlloc", "nullMessage"} : Fault(why)
  <2>1. /\ ~(pe.request = NoBuf /\ pool = <<>>)
        /\ ~(pe.message = NoBuf /\ dpm.caps = NoBuf)
    BY <1>2, SMT DEF EvalCap
  <2>2. pe' = [pe EXCEPT !.state = "PESinkSelectCap", !.message = NoBuf,
                         !.request = req, !.ppsIndex = first, !.lastPps = last]
    BY <2>1, Zenon DEF EvalCap, At
  <2> HIDE DEF new, caps, req, offer, first, last
  <2>3. QED BY <2>2 DEF IInv, Policy, PEType
<1>3. QED BY <1>1, <1>2

\* Nobody but EvalCap changes which buffers the Request and the capabilities
\* are in, ...
LEMMA SameBuffers ==
    ASSUME IInv, Next, ~EvalCap
    PROVE  pe'.request = pe.request /\ dpm'.caps = dpm.caps
<1>0. pe \in PEType /\ dpm \in DPMType
  BY DEF IInv, Policy
<1>1. ASSUME UNCHANGED <<pe, dpm>> PROVE pe'.request = pe.request /\ dpm'.caps = dpm.caps
  BY <1>1
<1>2. ASSUME PENext PROVE dpm'.caps = dpm.caps
  <2>1. \A d \in DPMType : \A on : OutputSet(d, on).caps = d.caps
    BY DEF OutputSet, DPMType
  <2>2. /\ transition_default.caps = dpm.caps
        /\ transition_min.caps = dpm.caps
        /\ transition_standby.caps = dpm.caps
        /\ transition_requested.caps = dpm.caps
    BY <1>0 DEF transition_default, transition_min, transition_standby,
                transition_requested, OutputSet, DPMType
  <2>3. CASE SourceUnresponsive
    <3>1. PICK tcc \in {"none", "default", "1.5A", "3.0A"} :
             LET d == evaluate_typec_current(tcc) IN dpm' \in {d, transition_typec(d)}
      BY <2>3 DEF SourceUnresponsive
    <3> DEFINE d == evaluate_typec_current(tcc)
    <3>2. dpm' = d \/ dpm' = OutputSet(d, d.match)
      BY <3>1 DEF transition_typec
    <3>3. TypeCMatch(Scfg, tcc) \in BOOLEAN
      BY DEF TypeCMatch
    <3>4. PICK m \in BOOLEAN, n \in Nat : m = TypeCMatch(Scfg, tcc) /\ n = 5000
      BY <3>3
    <3>5. d = [dpm EXCEPT !.requested = n, !.match = m]
      BY <3>4 DEF evaluate_typec_current
    <3> HIDE DEF d
    <3>6. d \in DPMType /\ d.caps = dpm.caps
      BY <1>0, <3>5 DEF DPMType
    <3>7. QED BY <2>1, <3>2, <3>6
  <2>4. CASE WaitCap
    BY <2>4, Zenon DEF WaitCap, OnReset, TimesOut
  <2>5. CASE SelectCap
    BY <2>2, <2>5, Zenon DEF SelectCap, SelectCapSend, SelectCapSent, SelectCapAnswer, OnReset,
       TimesOut
  <2>6. CASE TransitionSink \/ TransitionDefault
    BY <2>2, <2>6, Zenon DEF TransitionSink, TransitionDefault, OnReset, TimesOut
  <2>7. CASE Ready
    BY <2>2, <2>7, Zenon DEF Ready, ReadyWakes, ReadyStarts, ReadyFrees, OnReset, TimesOut
  <2>8. CASE GetSourceCap \/ GiveSinkCap \/ SoftReset \/ SendNotSupported \/ SendSoftReset
    BY <2>8 DEF GetSourceCap, GiveSinkCap, SoftReset, SendNotSupported, SendSoftReset,
       SendNew, SentOr, Sent, Fault, OnReset, TimesOut
  <2>9. CASE Startup \/ Discovery \/ HardReset \/ ChunkReceived \/ NotSupportedReceived \/ PpsTimer
    BY <2>9 DEF Startup, Discovery, HardReset, ChunkReceived, NotSupportedReceived, PpsTimer,
       OnReset, TimesOut
  <2>10. QED BY <1>2, <2>3, <2>4, <2>5, <2>6, <2>7, <2>8, <2>9 DEF PENext
<1>3. ASSUME PENext PROVE pe'.request = pe.request
  <2> USE <1>0 DEF PEType, Goto
  <2>1. ASSUME NEW s, NEW urgent, NEW types, NEW next, NEW p \in PEType, p.request = pe.request,
               Consume(s, urgent, types, next, p)
        PROVE  pe'.request = pe.request
    <3>1. pe' = [p EXCEPT !.state = next, !.message = NoBuf]
      BY <2>1, Zenon DEF Consume
    <3>2. QED BY <2>1, <3>1
  <2>2. ASSUME NEW s, NEW next, OnReset(s) \/ TimesOut(s, next) PROVE pe'.request = pe.request
    BY <2>2 DEF OnReset, TimesOut
  <2>3. ASSUME NEW s, NEW type, NEW wait, SendNew(s, type, wait) PROVE pe'.request = pe.request
    BY <2>3 DEF SendNew, Fault
  <2>4. ASSUME NEW s, NEW done, NEW failed, SentOr(s, done, failed)
        PROVE pe'.request = pe.request
    BY <2>4 DEF SentOr, Sent
  <2>5. CASE Startup \/ Discovery \/ HardReset \/ TransitionDefault \/ NotSupportedReceived
             \/ SourceUnresponsive \/ PpsTimer \/ ChunkReceived
    BY <2>2, <2>5 DEF Startup, Discovery, HardReset, TransitionDefault, NotSupportedReceived,
       SourceUnresponsive, PpsTimer, ChunkReceived
  <2>6. CASE WaitCap
    <3>1. \/ pe'.request = pe.request
          \/ pe' = pe
          \/ \E b \in Buf : pe' = [pe EXCEPT !.state = "PESinkEvalCap", !.message = b,
                                             !.rev = IF @ = 1 THEN SrcRev ELSE @]
          \/ \E b \in Buf : pe' = [pe EXCEPT !.state = "PESinkHardReset", !.message = b]
      BY <2>1, <2>2, <2>6, Zenon DEF WaitCap
    <3>2. ASSUME NEW b, NEW r, pe' = [pe EXCEPT !.state = "PESinkEvalCap", !.message = b, !.rev = r]
          PROVE  pe'.request = pe.request
      BY <3>2
    <3>3. QED BY <3>1, <3>2
  <2>7. CASE SelectCap
    <3>1. /\ [pe EXCEPT !.minPower = FALSE] \in PEType
          /\ [pe EXCEPT !.minPower = FALSE].request = pe.request
          /\ \A t : [pe EXCEPT !.minPower = (t = "Wait")] \in PEType
          /\ \A t : [pe EXCEPT !.minPower = (t = "Wait")].request = pe.request
      OBVIOUS
    <3>2. SelectCapSend \/ SelectCapSent => pe'.request = pe.request
      BY DEF SelectCapSend, SelectCapSent
    <3>3. SelectCapAnswer => pe'.request = pe.request
      <4>1. CASE \E t \in {"Reject", "Wait"} :
                   Consume("PESinkSelectCapRx", {"RESET"}, {t}, "PESinkReady",
                           [pe EXCEPT !.minPower = (t = "Wait")])
        <5>1. PICK t : Consume("PESinkSelectCapRx", {"RESET"}, {t}, "PESinkReady",
                               [pe EXCEPT !.minPower = (t = "Wait")])
          BY <4>1
        <5> DEFINE q == [pe EXCEPT !.minPower = (t = "Wait")]
        <5>2. q \in PEType /\ q.request = pe.request
          BY <3>1
        <5>3. Consume("PESinkSelectCapRx", {"RESET"}, {t}, "PESinkReady", q)
          BY <5>1
        <5> HIDE DEF q
        <5>4. QED BY <2>1, <5>2, <5>3
      <4>2. CASE \/ Consume("PESinkSelectCapRx", {"RESET"}, {"Accept"}, "PESinkTransitionSink",
                            [pe EXCEPT !.minPower = FALSE])
                 \/ Consume("PESinkSelectCapRx", {"RESET"}, {"SoftReset"}, "PESinkSoftReset", pe)
                 \/ Consume("PESinkSelectCapRx", {"RESET"}, {"Reject", "Wait"},
                            "PESinkWaitCap", pe)
                 \/ Consume("PESinkSelectCapRx", {"RESET"},
                            MsgType \ {"Accept", "SoftReset", "Reject", "Wait"},
                            "PESinkSendSoftReset", pe)
        BY <2>1, <3>1, <4>2, Zenon
      <4>3. QED BY <4>1, <4>2, Zenon DEF SelectCapAnswer
    <3>4. QED BY <2>2, <2>7, <3>2, <3>3 DEF SelectCap
  <2>8. CASE TransitionSink
    <3>1. /\ [pe EXCEPT !.contract = TRUE] \in PEType
          /\ [pe EXCEPT !.contract = TRUE].request = pe.request
      OBVIOUS
    <3>2. QED BY <2>1, <2>2, <2>8, <3>1, Zenon DEF TransitionSink
  <2>9. CASE Ready
    <3>1. /\ [pe EXCEPT !.minPower = TRUE] \in PEType
          /\ [pe EXCEPT !.minPower = TRUE].request = pe.request
      OBVIOUS
    <3>2. ASSUME NEW flag, NEW above, NEW next, ReadyStarts(flag, above, next)
          PROVE  pe'.request = pe.request
      BY <3>2 DEF ReadyStarts
    <3>3. \/ pe'.request = pe.request
          \/ pe' = [pe EXCEPT !.state = "PESinkHardReset"]
          \/ \E b \in Buf : pe' = [pe EXCEPT !.state = "PESinkEvalCap", !.message = b]
      BY <2>1, <2>2, <2>9, <3>1, <3>2, Zenon DEF Ready, ReadyFrees
    <3>4. QED BY <3>3
  <2>10. CASE GetSourceCap \/ GiveSinkCap \/ SoftReset \/ SendNotSupported \/ SendSoftReset
    BY <2>1, <2>2, <2>3, <2>4, <2>10
       DEF GetSourceCap, GiveSinkCap, SoftReset, SendNotSupported, SendSoftReset
  <2>11. QED BY <1>3, <2>5, <2>6, <2>7, <2>8, <2>9, <2>10 DEF PENext
<1>4. QED BY <1>1, <1>2, <1>3, RXLeaves, TXLeaves, HRLeaves, PortLeaves DEF Next

\* ... so that what these hold stays as it is.
LEMMA SameContents ==
    ASSUME IInv, OInv, Next, ~EvalCap, pe.request # NoBuf, dpm.caps # NoBuf
    PROVE  /\ mem'[pe'.request].obj = mem[pe.request].obj
           /\ OfferIn(mem'[dpm'.caps]) = OfferIn(mem[dpm.caps])
<1>1. IInv' /\ OInv' /\ UNCHANGED <<pe.request, dpm.caps>>
  BY StepIInv, StepOInv, SameBuffers
<1>2. ASSUME NEW b \in Buf, NEW s \in Slot, s # "rx", Held[s] = b, Held'[s] = b
      PROVE  mem'[b].obj = mem[b].obj
  <2>1. ~In(pool, b)
    BY <1>2, NoBufOutside DEF OInv, Buffers, Owned
  <2>2. ~In(pool', b)
    BY <1>1, <1>2, NoBufOutside DEF OInv, Buffers, Owned
  <2>3. rx.state # "PRLRxWaitPHY" => b # rx.message
    <3>1. Held["rx"] # b
      BY <1>2, NoBufOutside DEF OInv, Buffers, Owned, Slot
    <3>2. QED BY <3>1, HeldFacts
  <2>4. QED BY <2>1, <2>2, <2>3, Written
<1>3. /\ Held["request"] = pe.request /\ Held'["request"] = pe.request
      /\ Held["caps"] = dpm.caps /\ Held'["caps"] = dpm.caps
  <2>1. Held'["request"] = pe'.request /\ Held'["caps"] = dpm'.caps
    BY DEF Held, Pointer, Slot
  <2>2. QED BY <1>1, <2>1, HeldFacts
<1>4. pe.request \in Buf /\ dpm.caps \in Buf /\ "request" \in Slot /\ "caps" \in Slot
  BY DEF IInv, Policy, PEType, DPMType, Slot
<1>5. mem'[pe.request].obj = mem[pe.request].obj /\ mem'[dpm.caps].obj = mem[dpm.caps].obj
  BY <1>2, <1>3, <1>4
<1>6. mem[dpm.caps].type = "SourceCap" /\ mem'[dpm.caps].type = "SourceCap"
  BY <1>1 DEF OInv, Contents
<1>7. QED BY <1>1, <1>5, <1>6 DEF OfferIn

\* In PESinkEvalCap nobody else runs.
LEMMA OnlyEvaluated ==
    ASSUME Next, ~EvalCap, pe.state = "PESinkEvalCap" PROVE pe' = pe
<1>1. PERunnable
  BY DEF PERunnable, Waiting, WaitMask
<1>2. ~(ChunkReceived \/ NotSupportedReceived \/ SourceUnresponsive \/ PpsTimer
        \/ Startup \/ Discovery \/ HardReset \/ TransitionDefault)
  BY <1>1 DEF Startup, Discovery, HardReset, TransitionDefault, ChunkReceived, At, Awake,
     NotSupportedReceived, SourceUnresponsive, PpsTimer, OnReset, TimesOut
<1>3. ~WaitCap /\ ~Ready
  BY Zenon DEF WaitCap, Ready, ReadyWakes, ReadyStarts, ReadyFrees, OnReset, TimesOut, Consume,
     Fetch, Awake, At
<1>4. ~SelectCap /\ ~TransitionSink
  BY DEF SelectCap, SelectCapSend, SelectCapSent, SelectCapAnswer, TransitionSink, OnReset,
     TimesOut, Consume, Fetch, Awake, At
<1>5. ~(GetSourceCap \/ GiveSinkCap \/ SoftReset \/ SendNotSupported \/ SendSoftReset)
  BY DEF GetSourceCap, GiveSinkCap, SoftReset, SendNotSupported, SendSoftReset, SendNew,
     SentOr, Sent, OnReset, TimesOut, Consume, Fetch, Awake, At
<1>6. ~PENext
  BY <1>2, <1>3, <1>4, <1>5 DEF PENext
<1>7. QED BY <1>6, RXLeaves, TXLeaves, HRLeaves, PortLeaves DEF Next

Bound == {"asked", "moving", "ready"}

\* It holds the two buffers.
LEMMA BoundHolds ==
    ASSUME IInv, PhaseOf(pe.state) \in Bound
    PROVE  pe.state \in Asking /\ pe.request # NoBuf /\ dpm.caps # NoBuf
<1>1. pe.state \in PEState
  BY DEF IInv, Policy, PEType
<1>2. PEState = WaitingStates \cup {"PESinkEvalCap", "PESinkSourceUnresponsive"}
                \cup Asking \cup ResetStates
  BY DEF PEState, WaitingStates, Asking, Settled, ResetStates
<1>3. pe.state \in Asking
  BY <1>1, <1>2, Phases DEF Bound
<1>4. QED BY <1>3 DEF IInv, Policy

\* A negotiation that goes on, goes on with the same voltage and match.
LEMMA SameDecision ==
    ASSUME IInv, Next, ~EvalCap, PhaseOf(pe'.state) \in Bound
    PROVE  /\ PhaseOf(pe.state) \in Bound
           /\ dpm'.requested = dpm.requested /\ dpm'.match = dpm.match
<1>1. [Sink!Next]_(Sink!vars)
  BY StepAllowed
<1>2. PhaseOf(pe.state) # "offered"
  <2>1. pe.state # "PESinkEvalCap"
    BY OnlyEvaluated, Phases DEF Bound
  <2>2. QED BY <2>1 DEF PhaseOf
<1>3. CASE UNCHANGED Sink!vars
  BY <1>3 DEF Sink!vars, Sink!terms, Supply
<1>4. CASE Sink!Next /\ ~UNCHANGED Sink!vars
  <2>0. Supply.requested = dpm.requested /\ Supply'.requested = dpm'.requested
        /\ Supply.match = dpm.match /\ Supply'.match = dpm'.match /\ Supply \in SupplyType
    BY SupplyTyped DEF Supply, IInv, Policy
  <2>1. Sink!Negotiate
    BY <1>4 DEF Sink!Next, Sink!Enable, Sink!vars, Sink!terms
  <2>2. \A on : Sink!Switched(Supply, on).requested = Supply.requested
                /\ Sink!Switched(Supply, on).match = Supply.match
    BY <2>0 DEF Sink!Switched, SupplyType
  <2>3. Sink!Off(Supply).requested = Supply.requested
        /\ Sink!Off(Supply).match = Supply.match
    BY <2>0 DEF Sink!Off, SupplyType
  <2>4. CASE Sink!Repeat \/ Sink!Accept \/ Sink!Refuse \/ Sink!Minimum \/ Sink!Complete
    BY <2>0, <2>2, <2>3, <2>4
       DEF Sink!Repeat, Sink!Accept, Sink!Refuse, Sink!Minimum, Sink!Complete, Sink!Go, Bound
  <2>5. QED BY <1>2, <2>1, <2>4
        DEF Sink!Negotiate, Sink!Offer, Sink!Evaluate, Sink!Decide, Sink!SoftReset, Sink!Fail,
            Sink!Default, Sink!Start, Sink!GiveUp, Sink!TypeC, Sink!Measure, Sink!Go, Bound
<1>5. QED BY <1>1, <1>3, <1>4

\* evaluate_capability picks a position the capabilities have.
LEMMA Positioned ==
    ASSUME NEW o \in Seq(PDO), Len(o) \in 1..7, NEW st
    PROVE  Evaluation(Scfg, OutputEnabled, o, st).pos \in 1..Len(o)
<1> DEFINE P == Preferred(Scfg, o, st)
           R == InRange(Scfg, o)
<1>1. P \subseteq 1..Len(o) /\ R \subseteq 1..Len(o) /\ P \subseteq 1..7 /\ R \subseteq 1..7
  BY DEF Preferred, InRange
<1>2. CASE Scfg.valid /\ OutputEnabled /\ P # {}
  <2>1. SetMin(P) \in 1..Len(o)
    BY <1>1, <1>2, SetMinIn
  <2>2. QED BY <1>2, <2>1 DEF Evaluation, EvaluationWhile
<1>3. CASE ~(Scfg.valid /\ OutputEnabled /\ P # {}) /\ Scfg.valid /\ OutputEnabled /\ R # {}
  <2>1. dpm_get_range_fixed_pdo_index(Scfg, o) \in 1..Len(o)
    BY <1>1, <1>3, SetMinIn, SetMaxIn DEF dpm_get_range_fixed_pdo_index
  <2>2. QED BY <1>3, <2>1 DEF Evaluation, EvaluationWhile
<1>4. CASE ~(Scfg.valid /\ OutputEnabled /\ P # {}) /\ ~(Scfg.valid /\ OutputEnabled /\ R # {})
  <2>1. Evaluation(Scfg, OutputEnabled, o, st)
        = [pos |-> 1, match |-> ~OutputEnabled, mv |-> 5000, ca |-> DPM_MIN_CURRENT]
    BY <1>4, Zenon DEF Evaluation, EvaluationWhile
  <2>2. QED BY <2>1
<1>5. QED BY <1>2, <1>3, <1>4

\* A capabilities message offers at least 5 V.
LEMMA OfferHeld ==
    ASSUME NEW m \in Msg, m.type = "SourceCap"
    PROVE  OfferIn(m) \in Seq(PDO) /\ Len(OfferIn(m)) \in 1..7
BY DPMAssumption DEF OfferIn, Msg

\* PE_SNK_Evaluate_Capability writes the Request and dpm_data as one decision
\* on the capabilities that it leaves behind.
LEMMA EvaluatedTogether == ASSUME IInv, OInv, ButtonType, EvalCap PROVE DecisionHeld'
<1> DEFINE new == pe.message # NoBuf
           caps == IF new THEN pe.message ELSE dpm.caps
           req == IF pe.request = NoBuf THEN Head(pool) ELSE pe.request
           rest == IF pe.request = NoBuf THEN Tail(pool) ELSE pool
           offer == OfferIn(mem[caps])
           first == IF new THEN FirstPps(offer) ELSE pe.ppsIndex
           last == IF pe.request = NoBuf THEN IF new THEN NoPps ELSE pe.lastPps
                   ELSE IF mem[pe.request].obj >= first THEN mem[pe.request].obj
                   ELSE NoPps
           cfgState == IF button.state <= 3 THEN button.state ELSE 0
           e == Evaluation(Scfg, OutputEnabled, offer, cfgState)
           old == new /\ dpm.caps # NoBuf
<1>1. pe.state = "PESinkEvalCap" /\ ~(pe.message = NoBuf /\ dpm.caps = NoBuf)
  BY DEF EvalCap, At, OInv, Handlers
<1>2. CASE pe.request = NoBuf /\ pool = <<>>
  <2>1. pe' = pe
    BY <1>2, Zenon DEF EvalCap, Fault
  <2>2. QED BY <1>1, <2>1, Phases DEF DecisionHeld
<1>3. CASE ~(pe.request = NoBuf /\ pool = <<>>)
  <2>1. /\ mem' = [b \in Buf |-> IF b = req THEN Message("Request", e.pos)
                                 ELSE IF old /\ b = dpm.caps THEN Junk ELSE mem[b]]
        /\ dpm' = [dpm EXCEPT !.caps = caps, !.requested = e.mv, !.match = e.match]
        /\ pe' = [pe EXCEPT !.state = "PESinkSelectCap", !.message = NoBuf,
                            !.request = req, !.ppsIndex = first, !.lastPps = last]
    BY <1>1, <1>3, Zenon DEF EvalCap, At
  <2>2. cfgState \in 0..3
    BY DEF ButtonType
  <2>3. /\ caps \in Buf /\ req \in Buf /\ caps # req
        /\ old => caps # dpm.caps
        /\ mem[caps].type = "SourceCap" /\ mem[caps] \in Msg
    <3>1. /\ Held["request"] = pe.request /\ Held["caps"] = dpm.caps
          /\ Held["message"] = pe.message
          /\ "request" \in Slot /\ "caps" \in Slot /\ "message" \in Slot
      BY <1>1, HeldFacts DEF Slot
    <3>2. caps \in Buf /\ req \in Buf
      BY <1>1, <1>3 DEF IInv, Kernel, Policy, PEType, DPMType
    <3>3. caps # pe.request /\ (old => caps # dpm.caps) /\ ~In(pool, caps)
      BY <1>1, <3>1, Apart
    <3>4. pe.request = NoBuf => In(pool, Head(pool))
      <4>1. pool \in Seq(Buf)
        BY DEF IInv, Kernel
      <4>2. pool # <<>> => Len(pool) \in Nat /\ Len(pool) >= 1 /\ pool[1] = Head(pool)
        BY <4>1
      <4>3. QED BY <1>3, <4>2 DEF In
    <3>5. mem[caps].type = "SourceCap"
      BY <1>1 DEF OInv, Contents
    <3>6. QED BY <3>2, <3>3, <3>4, <3>5 DEF IInv, Kernel, MemType
  <2>4. offer \in Seq(PDO) /\ Len(offer) \in 1..7
    BY <2>3, OfferHeld
  <2>5. e.pos \in 1..Len(offer)
    BY <2>4, Positioned
  <2> HIDE DEF new, req, rest, first, last, cfgState, old, caps
  <2>6. mem'[req].obj = e.pos /\ mem'[caps] = mem[caps]
    <3>1. Message("Request", e.pos).obj = e.pos
      BY DEF Message
    <3>2. QED BY <2>1, <2>3, <3>1
  <2>7. pe'.request = req /\ dpm'.caps = caps /\ dpm'.requested = e.mv /\ dpm'.match = e.match
    BY <2>1 DEF IInv, Policy, PEType, DPMType
  <2>8. /\ mem'[pe'.request].obj = e.pos /\ OfferIn(mem'[dpm'.caps]) = offer
        /\ dpm'.requested = e.mv /\ dpm'.match = e.match
    BY <2>6, <2>7
  <2>9. QED BY <2>2, <2>5, <2>8 DEF DecisionHeld, Decision
<1>4. QED BY <1>2, <1>3

\* The inductive step.
LEMMA DecisionKept ==
    ASSUME IInv, OInv, ButtonType, DecisionHeld, [Next]_vars PROVE DecisionHeld'
<1>1. CASE UNCHANGED vars
  BY <1>1 DEF vars, kernelVars, DecisionHeld, Decision
<1>2. CASE Next /\ EvalCap
  BY <1>2, EvaluatedTogether
<1>3. CASE Next /\ ~EvalCap
  <2> SUFFICES ASSUME PhaseOf(pe'.state) \in Bound PROVE DecisionHeld'
    BY DEF DecisionHeld, Bound
  <2>1. /\ PhaseOf(pe.state) \in Bound
        /\ dpm'.requested = dpm.requested /\ dpm'.match = dpm.match
    BY <1>3, SameDecision
  <2>2. pe.request # NoBuf /\ dpm.caps # NoBuf
    BY <2>1, BoundHolds
  <2>3. /\ mem'[pe'.request].obj = mem[pe.request].obj
        /\ OfferIn(mem'[dpm'.caps]) = OfferIn(mem[dpm.caps])
    BY <1>3, <2>2, SameContents
  <2>4. \A s : Decision(s)' = Decision(s)
    BY <2>3 DEF Decision
  <2>5. QED BY <2>1, <2>3, <2>4 DEF DecisionHeld, Bound
<1>4. QED BY <1>1, <1>2, <1>3

\* The sink holds on to one decision: while it asks, waits and has a contract,
\* the Request in its buffer names the PDO that the DPM has decided on, of the
\* capabilities that it holds, and dpm_data has the voltage and the match of
\* that PDO, for every configuration and every offer, and in every environment.
THEOREM OneDecision == Spec => []DecisionHeld
<1>1. Init => ButtonType /\ DecisionHeld
  <2>1. Init => ButtonType
    BY DEF Init, PhyInit, SrcInit, ButtonType
  <2>2. Init => PhaseOf(pe.state) = "resetting"
    BY Phases DEF Init, PEInit, ResetStates
  <2>3. QED BY <2>1, <2>2 DEF DecisionHeld
<1>2. IInv /\ OInv /\ ButtonType /\ DecisionHeld /\ [Next]_vars
      => ButtonType' /\ DecisionHeld'
  BY ButtonStep, DecisionKept
<1>3. QED BY <1>1, <1>2, Ownership, PTL DEF Spec

\* The output is switched on in two ways: by PS_RDY, at the voltage the sink has
\* decided on for the PDO its Request names, which is enough for it; or for a
\* partner without PD, at 5 V.
OnByDecision ==
    ~dpm.output /\ dpm'.output =>
        \/ /\ pe.state = "PESinkTransitionSink" /\ pe'.state = "PESinkReady"
           /\ \E s \in 0..3 : /\ Decision(s).match
                              /\ mem[pe.request].obj = Decision(s).pos
                              /\ dpm'.present = Decision(s).mv
        \/ pe.state = "PESinkSourceUnresponsive" /\ dpm'.present = 5000

LEMMA SwitchesOn ==
    ASSUME IInv, DecisionHeld, [Next]_vars PROVE OnByDecision
<1> SUFFICES ASSUME ~dpm.output, dpm'.output PROVE OnByDecision
  BY DEF OnByDecision
<1>0. dpm \in DPMType
  BY DEF IInv, Policy
<1>1. PENext /\ Next
  BY RXLeaves, TXLeaves, HRLeaves, PortLeaves DEF Next, vars
<1>2. /\ ~transition_default.output /\ ~transition_min.output /\ ~transition_standby.output
      /\ transition_requested.output => dpm.match
      /\ transition_requested.present = dpm.requested
  BY <1>0 DEF transition_default, transition_min, transition_standby,
              transition_requested, OutputSet, DPMType
<1>3. CASE TransitionSink
  <2>1. dpm' = transition_requested /\ pe.state = "PESinkTransitionSink"
        /\ pe'.state = "PESinkReady"
    <3>1. CASE OnReset("PESinkTransitionSink") \/ TimesOut("PESinkTransitionSink", "PESinkHardReset")
      BY <3>1 DEF OnReset, TimesOut
    <3>2. CASE /\ Consume("PESinkTransitionSink", {"RESET"}, {"PsRdy"}, "PESinkReady",
                          [pe EXCEPT !.contract = TRUE])
               /\ dpm' = IF pe.minPower THEN dpm ELSE transition_requested
      <4> DEFINE q == [pe EXCEPT !.contract = TRUE]
      <4>1. Consume("PESinkTransitionSink", {"RESET"}, {"PsRdy"}, "PESinkReady", q)
        BY <3>2
      <4>2. q \in PEType
        BY DEF IInv, Policy, PEType
      <4> HIDE DEF q
      <4>3. pe.state = "PESinkTransitionSink" /\ pe'.state = "PESinkReady"
        BY <4>1, <4>2, ConsumeTerms
      <4>4. QED BY <3>2, <4>3
    <3>3. QED BY <1>2, <1>3, <3>1, <3>2 DEF TransitionSink
  <2>2. dpm.match /\ dpm'.present = dpm.requested
    BY <1>2, <2>1
  <2>3. PICK s \in 0..3 : /\ mem[pe.request].obj = Decision(s).pos
                          /\ dpm.requested = Decision(s).mv
                          /\ dpm.match = Decision(s).match
    BY <2>1, Phases DEF DecisionHeld
  <2>4. Decision(s).match /\ dpm'.present = Decision(s).mv
    BY <2>2, <2>3
  <2>5. QED BY <2>1, <2>3, <2>4 DEF OnByDecision
<1>4. CASE SourceUnresponsive
  <2>1. PICK tcc \in {"none", "default", "1.5A", "3.0A"} :
           LET d == evaluate_typec_current(tcc) IN dpm' \in {d, transition_typec(d)}
    BY <1>4 DEF SourceUnresponsive
  <2> DEFINE d == evaluate_typec_current(tcc)
  <2>2. dpm' = d \/ dpm' = OutputSet(d, d.match)
    BY <2>1 DEF transition_typec
  <2>3. TypeCMatch(Scfg, tcc) \in BOOLEAN
    BY DEF TypeCMatch
  <2>4. PICK m \in BOOLEAN, n \in Nat : m = TypeCMatch(Scfg, tcc) /\ n = 5000
    BY <2>3
  <2>5. d = [dpm EXCEPT !.requested = n, !.match = m]
    BY <2>4 DEF evaluate_typec_current
  <2> HIDE DEF d
  <2>6. d \in DPMType /\ d.output = dpm.output /\ d.requested = 5000
    <3>1. d \in DPMType /\ d.requested = n
      BY <1>0, <2>5 DEF DPMType
    <3>2. d.output = dpm.output
      BY <1>0, <2>5 DEF DPMType
    <3>3. QED BY <2>4, <3>1, <3>2
  <2>7. OutputSet(d, d.match).present = 5000
    BY <2>6 DEF OutputSet, DPMType
  <2>8. pe.state = "PESinkSourceUnresponsive"
    BY <1>4 DEF SourceUnresponsive, At
  <2>9. QED BY <2>2, <2>6, <2>7, <2>8 DEF OnByDecision
<1>5. CASE WaitCap
  BY <1>5, Zenon DEF WaitCap, OnReset, TimesOut
<1>6. CASE EvalCap
  <2>1. PhaseOf(pe.state) = "offered"
    BY <1>6, Phases DEF EvalCap, At
  <2>2. Sink!Evaluate \/ UNCHANGED Supply
    BY <1>1, <2>1, StepAllowed
       DEF Sink!Next, Sink!Negotiate, Sink!Enable, Sink!vars, Sink!terms, Sink!Offer,
           Sink!Repeat, Sink!Accept, Sink!Refuse, Sink!Minimum, Sink!Complete, Sink!SoftReset,
           Sink!Fail, Sink!Default, Sink!Start, Sink!GiveUp, Sink!TypeC, Sink!Measure, Sink!Go,
           Sink!Phase, Sink!Evaluate
  <2>3. Supply'.output = Supply.output
    BY <1>0, <2>2, SupplyTyped DEF Sink!Evaluate, Sink!Decide, SupplyType
  <2>4. QED BY <2>3 DEF Supply
<1>7. CASE SelectCap
  BY <1>2, <1>7, Zenon DEF SelectCap, SelectCapSend, SelectCapSent, SelectCapAnswer, OnReset,
     TimesOut
<1>8. CASE TransitionDefault
  BY <1>2, <1>8 DEF TransitionDefault
<1>9. CASE Ready
  BY <1>2, <1>9, Zenon DEF Ready, ReadyWakes, ReadyStarts, ReadyFrees, OnReset, TimesOut
<1>10. CASE GetSourceCap \/ GiveSinkCap \/ SoftReset \/ SendNotSupported \/ SendSoftReset
  BY <1>10 DEF GetSourceCap, GiveSinkCap, SoftReset, SendNotSupported, SendSoftReset,
     SendNew, SentOr, Sent, Fault, OnReset, TimesOut
<1>11. CASE Startup \/ Discovery \/ HardReset \/ ChunkReceived \/ NotSupportedReceived \/ PpsTimer
  BY <1>11 DEF Startup, Discovery, HardReset, ChunkReceived, NotSupportedReceived, PpsTimer,
     OnReset, TimesOut
<1>12. QED BY <1>1, <1>3, <1>4, <1>5, <1>6, <1>7, <1>8, <1>9, <1>10, <1>11 DEF PENext

\* No reset, timeout, refusal or message out of turn lets an older decision, or
\* one half of two, decide about the output.
THEOREM OutputOnByDecision == Spec => [][OnByDecision]_vars
<1>1. IInv /\ DecisionHeld /\ [Next]_vars => [OnByDecision]_vars
  BY SwitchesOn
<1>2. QED BY <1>1, IInvHolds, OneDecision, PTL DEF Spec

\* While VBUS moves the output is off, unless it does not move: what is asked
\* for is the voltage present, or the PPS APDO that is in use.
DisconnectedInTransition ==
    pe.state = "PESinkTransitionSink" =>
        ~dpm.output \/ dpm.requested = dpm.present \/ mem[pe.request].obj = pe.lastPps

\* The ways into PESinkTransitionSink and what they do.
LEMMA EntersTransition ==
    ASSUME IInv, Next, ~EvalCap, pe'.state = "PESinkTransitionSink"
    PROVE  /\ pe'.lastPps = pe.lastPps
           /\ \/ pe.state = "PESinkTransitionSink" /\ dpm' = dpm
              \/ dpm' = IF mem[pe.request].obj # pe.lastPps THEN transition_standby ELSE dpm
              \/ dpm' = transition_min
<1>0. pe \in PEType
  BY DEF IInv, Policy
<1>1. CASE ~PENext
  BY <1>1, RXLeaves, TXLeaves, HRLeaves, PortLeaves DEF Next
<1>2. ASSUME NEW s, NEW urgent, NEW types, NEW next, NEW p \in PEType, p.lastPps = pe.lastPps,
             Consume(s, urgent, types, next, p)
      PROVE  pe.state = s /\ pe'.state = next /\ pe'.lastPps = pe.lastPps
  <2>1. pe.state = s /\ pe' = [p EXCEPT !.state = next, !.message = NoBuf]
    BY <1>2, ConsumeFacts
  <2>2. QED BY <1>2, <2>1 DEF PEType
<1>3. ASSUME NEW s, NEW next, next # "PESinkTransitionSink", OnReset(s) \/ TimesOut(s, next)
      PROVE  FALSE
  BY <1>0, <1>3 DEF OnReset, TimesOut, Goto, PEType
<1>4. CASE WaitCap
  <2>1. pe'.state = pe.state \/ pe'.state # "PESinkTransitionSink"
    <3>0. /\ ~TimesOut("PESinkWaitCap", "PESinkHardReset") /\ ~OnReset("PESinkWaitCap")
          /\ ~Consume("PESinkWaitCap", {"RESET", "I_OVRTEMP"}, {"SoftReset"}, "PESinkSoftReset", pe)
      BY <1>0, <1>2, <1>3
    <3>1. \/ \E b \in Buf : pe' = [pe EXCEPT !.state = "PESinkEvalCap", !.message = b,
                                             !.rev = IF @ = 1 THEN SrcRev ELSE @]
          \/ \E b \in Buf : pe' = [pe EXCEPT !.state = "PESinkHardReset", !.message = b]
          \/ pe' = pe
      BY <1>4, <3>0, Zenon DEF WaitCap
    <3>2. ASSUME NEW b, NEW r, pe' = [pe EXCEPT !.state = "PESinkEvalCap", !.message = b, !.rev = r]
          PROVE  pe'.state # "PESinkTransitionSink"
      BY <1>0, <3>2 DEF PEType
    <3>3. ASSUME NEW b, pe' = [pe EXCEPT !.state = "PESinkHardReset", !.message = b]
          PROVE  pe'.state # "PESinkTransitionSink"
      BY <1>0, <3>3 DEF PEType
    <3>4. QED BY <3>1, <3>2, <3>3
  <2>2. pe.state = "PESinkWaitCap"
    BY <1>4, Zenon DEF WaitCap, OnReset, TimesOut, Consume, Fetch, Awake, At
  <2>3. QED BY <2>1, <2>2
<1>5. CASE SelectCap
  <2> DEFINE s == "PESinkSelectCapRx"
             reset == {"RESET"}
             q == [pe EXCEPT !.minPower = FALSE]
  <2>1. ~SelectCapSend /\ ~SelectCapSent
    BY <1>0 DEF SelectCapSend, SelectCapSent, Goto, PEType
  <2>2. SelectCapAnswer
    BY <1>3, <1>5, <2>1 DEF SelectCap
  <2>3. q \in PEType /\ q.lastPps = pe.lastPps
    BY <1>0 DEF PEType
  <2> HIDE DEF q
  <2>4. ASSUME NEW t, Consume(s, reset, {t}, "PESinkReady", [pe EXCEPT !.minPower = (t = "Wait")])
        PROVE  FALSE
    <3> DEFINE r == [pe EXCEPT !.minPower = (t = "Wait")]
    <3>1. r \in PEType /\ r.lastPps = pe.lastPps
      BY <1>0 DEF PEType
    <3>2. Consume(s, reset, {t}, "PESinkReady", r)
      BY <2>4
    <3> HIDE DEF r
    <3>3. QED BY <1>2, <3>1, <3>2
  <2>5. ASSUME NEW types, NEW next, next # "PESinkTransitionSink",
               Consume(s, reset, types, next, pe)
        PROVE  FALSE
    BY <1>0, <1>2, <2>5
  <2>6. /\ Consume(s, reset, {"Accept"}, "PESinkTransitionSink", q)
        /\ dpm' = IF mem[pe.request].obj # pe.lastPps THEN transition_standby ELSE dpm
    BY <2>2, <2>4, <2>5, Zenon DEF SelectCapAnswer, q
  <2>7. QED BY <1>2, <2>3, <2>6
<1>6. CASE TransitionSink
  <2> DEFINE q == [pe EXCEPT !.contract = TRUE]
  <2>1. q \in PEType /\ q.lastPps = pe.lastPps
    BY <1>0 DEF PEType
  <2> HIDE DEF q
  <2>2. /\ ~OnReset("PESinkTransitionSink") /\ ~TimesOut("PESinkTransitionSink", "PESinkHardReset")
        /\ ~Consume("PESinkTransitionSink", {"RESET"}, {"PsRdy"}, "PESinkReady", q)
        /\ ~Consume("PESinkTransitionSink", {"RESET"}, MsgType \ {"PsRdy"}, "PESinkHardReset", pe)
    BY <1>0, <1>2, <1>3, <2>1
  <2>3. QED BY <1>6, <2>2, Zenon DEF TransitionSink, q
<1>7. CASE Ready
  <2> DEFINE q == [pe EXCEPT !.minPower = TRUE]
  <2>1. q \in PEType /\ q.lastPps = pe.lastPps
    BY <1>0 DEF PEType
  <2> HIDE DEF q
  <2>2. ASSUME NEW flag, NEW above, NEW next, next # "PESinkTransitionSink",
               ReadyStarts(flag, above, next)
        PROVE  FALSE
    BY <1>0, <2>2 DEF ReadyStarts, PEType
  <2>3. ASSUME NEW types, NEW next, next # "PESinkTransitionSink", ReadyFrees(types, next)
        PROVE  FALSE
    BY <1>0, <1>2, <2>3 DEF ReadyFrees
  <2>4. ~Goto("PESinkHardReset")
    BY <1>0 DEF Goto, PEType
  <2>5. ASSUME NEW b, pe' = [pe EXCEPT !.state = "PESinkEvalCap", !.message = b] PROVE FALSE
    BY <1>0, <2>5 DEF PEType
  <2>6. /\ Consume("PESinkReady", ReadyUrgent, {"GotoMin"}, "PESinkTransitionSink", q)
        /\ dpm' = transition_min
    BY <1>3, <1>7, <2>2, <2>3, <2>4, <2>5, Zenon DEF Ready, q
  <2>7. QED BY <1>2, <2>1, <2>6
<1>8. CASE GetSourceCap \/ GiveSinkCap \/ SoftReset \/ SendNotSupported \/ SendSoftReset
  <2>1. ASSUME NEW s, NEW type, NEW wait, wait # "PESinkTransitionSink", SendNew(s, type, wait),
               s # "PESinkTransitionSink"
        PROVE  FALSE
    BY <1>0, <2>1 DEF SendNew, At, Fault, PEType
  <2>2. ASSUME NEW s, NEW done, NEW failed, done # "PESinkTransitionSink",
               failed # "PESinkTransitionSink", SentOr(s, done, failed)
        PROVE  FALSE
    BY <1>0, <2>2 DEF SentOr, Sent, PEType
  <2>3. ASSUME NEW s, NEW urgent, NEW types, NEW next, next # "PESinkTransitionSink",
               Consume(s, urgent, types, next, pe)
        PROVE  FALSE
    BY <1>0, <1>2, <2>3
  <2>4. QED BY <1>3, <1>8, <2>1, <2>2, <2>3
        DEF GetSourceCap, GiveSinkCap, SoftReset, SendNotSupported, SendSoftReset
<1>9. CASE Startup \/ Discovery \/ HardReset \/ TransitionDefault \/ ChunkReceived
           \/ NotSupportedReceived
  BY <1>0, <1>3, <1>9 DEF Startup, Discovery, HardReset, TransitionDefault, ChunkReceived,
     NotSupportedReceived, Goto, PEType
<1>10. CASE SourceUnresponsive
  BY <1>0, <1>10 DEF SourceUnresponsive, At, PEType
<1>11. CASE PpsTimer
  BY <1>0, <1>11 DEF PpsTimer, PEType
<1>12. QED BY <1>1, <1>4, <1>5, <1>6, <1>7, <1>8, <1>9, <1>10, <1>11 DEF PENext

LEMMA StaysDisconnected ==
    ASSUME IInv, OInv, DisconnectedInTransition, [Next]_vars PROVE DisconnectedInTransition'
<1>1. CASE UNCHANGED vars
  BY <1>1 DEF vars, kernelVars, DisconnectedInTransition
<1>2. CASE Next
  <2> SUFFICES ASSUME pe'.state = "PESinkTransitionSink" PROVE DisconnectedInTransition'
    BY DEF DisconnectedInTransition
  <2>1. ~EvalCap
    <3>1. EvalCap => pe.state = "PESinkEvalCap"
      BY DEF EvalCap, At
    <3>2. QED BY <3>1, EvalCapNext
  <2>2. PhaseOf(pe'.state) = "moving"
    BY Phases
  <2>3. PhaseOf(pe.state) \in Bound /\ dpm'.requested = dpm.requested
    BY <1>2, <2>1, <2>2, SameDecision DEF Bound
  <2>4. pe.request # NoBuf /\ dpm.caps # NoBuf
    BY <2>3, BoundHolds
  <2>5. mem'[pe'.request].obj = mem[pe.request].obj
    BY <1>2, <2>1, <2>4, SameContents
  <2>6. dpm \in DPMType
    BY DEF IInv, Policy
  <2>7. ~transition_min.output
    BY <2>6 DEF transition_min, OutputSet, DPMType
  <2>8. ~transition_standby.output \/ transition_standby.requested = transition_standby.present
    BY <2>6 DEF transition_standby, DPMType
  <2>9. pe'.lastPps = pe.lastPps
    BY <1>2, <2>1, EntersTransition
  <2>10. CASE pe.state = "PESinkTransitionSink" /\ dpm' = dpm
    BY <2>5, <2>9, <2>10 DEF DisconnectedInTransition
  <2>11. CASE dpm' = IF mem[pe.request].obj # pe.lastPps THEN transition_standby ELSE dpm
    BY <2>5, <2>8, <2>9, <2>11 DEF DisconnectedInTransition
  <2>12. CASE dpm' = transition_min
    BY <2>7, <2>12 DEF DisconnectedInTransition
  <2>13. QED BY <1>2, <2>1, <2>10, <2>11, <2>12, EntersTransition
<1>3. QED BY <1>1, <1>2

\* Whatever comes between the source's Accept and its PS_RDY: from the moment
\* VBUS may move to the moment the sink hears that it is there, the load is
\* disconnected, or what the sink waits for is the voltage it has, or a PPS APDO
\* in which it moves VBUS under the load on purpose. That the voltage the sink
\* believes it has is the one VBUS has is NoChangeUnderOutput.
THEOREM LoadOffInTransition == Spec => []DisconnectedInTransition
<1>1. Init => DisconnectedInTransition
  BY DEF Init, PEInit, DisconnectedInTransition
<1>2. QED BY <1>1, StaysDisconnected, Ownership, PTL DEF Spec
=============================================================================
