--------------------------- MODULE HandshakeProofs ---------------------------
(***************************************************************************)
(* Proofs about how the threads of PDStack wait for one another: no thread *)
(* is queued twice for the processor, in any environment; and as long as   *)
(* the source signals no hard reset of its own, the Policy Engine and the  *)
(* Hard Reset thread never wait for each other, and a message the TX       *)
(* thread has been given stays the Policy Engine's until it is told what   *)
(* became of it.                                                           *)
(***************************************************************************)
EXTENDS OwnershipProofs

-----------------------------------------------------------------------------
(* The ready list.                                                         *)
Thread == {"RX", "TX", "HR"}

\* Thread t waits for one of the flags in x.
Wants(t, x) == StateOf(t) \in DOMAIN WaitMask /\ WaitMask[StateOf(t)] \cap x # {}

\* No thread is in the ready list twice.
OneTurn == Once(sched.ready)

\* chEvtSignal adds the thread it wakes to the ready list, and only then.
LEMMA WokenTurns ==
    ASSUME sched \in SchedType, OneTurn, NEW t \in Thread, NEW x
    PROVE  /\ Woken(t, x) \in Seq(Thread) /\ Once(Woken(t, x))
           /\ \A u : In(Woken(t, x), u) =>
                       In(sched.ready, u) \/ (u = t /\ Wants(t, x))
           /\ \A u : In(sched.ready, u) => In(Woken(t, x), u)
           /\ sched.ready # <<>> =>
                Woken(t, x) # <<>> /\ Head(Woken(t, x)) = Head(sched.ready)
<1>1. sched.ready \in Seq(Thread)
  BY DEF SchedType, Thread
<1>2. CASE Woken(t, x) = sched.ready
  BY <1>1, <1>2 DEF OneTurn
<1>3. CASE /\ Wants(t, x) /\ ~In(sched.ready, t)
           /\ Woken(t, x) = Append(sched.ready, t)
  <2>1. /\ Append(sched.ready, t) \in Seq(Thread) /\ Once(Append(sched.ready, t))
        /\ \A b : In(Append(sched.ready, t), b) <=> b = t \/ In(sched.ready, b)
    BY <1>1, <1>3, AppendOnce DEF OneTurn
  <2>2. sched.ready # <<>> => /\ Append(sched.ready, t) # <<>>
                              /\ Head(Append(sched.ready, t)) = Head(sched.ready)
    BY <1>1
  <2>3. QED BY <1>3, <2>1, <2>2
<1>4. QED BY <1>2, <1>3 DEF Woken, InReadyList, In, Wants

\* chEvtSignal.
LEMMA SignalTurns ==
    ASSUME sched \in SchedType, OneTurn, NEW t \in Thread, NEW x, Signal(t, x)
    PROVE  /\ OneTurn'
           /\ \A u : In(sched'.ready, u) =>
                       In(sched.ready, u) \/ (u = t /\ Wants(t, x))
<1>1. sched'.ready = Woken(t, x)
  BY DEF Signal, SchedType
<1>2. QED BY <1>1, WokenTurns DEF OneTurn

\* chEvtSignal to an equal, then chThdYield by the running thread.
LEMMA YieldTurns ==
    ASSUME sched \in SchedType, OneTurn, NEW me \in Thread, NEW t \in Thread, NEW x,
           sched.ready # <<>>, Head(sched.ready) = me, Yield(me, t, x)
    PROVE  /\ OneTurn'
           /\ \A u : In(sched'.ready, u) =>
                       In(sched.ready, u) \/ (u = t /\ Wants(t, x))
<1> DEFINE w == Woken(t, x)
<1>1. /\ w \in Seq(Thread) /\ Once(w) /\ w # <<>> /\ Head(w) = me
      /\ \A u : In(w, u) => In(sched.ready, u) \/ (u = t /\ Wants(t, x))
  BY WokenTurns
<1>2. sched'.ready = Append(Tail(w), me)
  BY DEF Yield, SchedType
<1> HIDE DEF w
<1>3. /\ Tail(w) \in Seq(Thread) /\ Once(Tail(w)) /\ ~In(Tail(w), me)
      /\ In(w, me) /\ \A b : In(Tail(w), b) => In(w, b)
  BY <1>1, TailOnce
<1>4. /\ Once(Append(Tail(w), me))
      /\ \A b : In(Append(Tail(w), me), b) <=> b = me \/ In(Tail(w), b)
  BY <1>3, AppendOnce
<1>5. QED BY <1>1, <1>2, <1>3, <1>4 DEF OneTurn

\* The running thread enters a state: it stays in the ready list or leaves it.
LEMMA EnterTurns ==
    ASSUME sched \in SchedType, OneTurn, NEW me \in Thread, NEW s,
           sched.ready # <<>>, Head(sched.ready) = me, Enter(me, s)
    PROVE  /\ OneTurn'
           /\ \A u : In(sched'.ready, u) => In(sched.ready, u)
           /\ Waiting(s, evt'[me]) => ~In(sched'.ready, me)
<1>1. sched.ready \in Seq(Thread)
  BY DEF SchedType, Thread
<1>2. /\ Once(Tail(sched.ready)) /\ ~In(Tail(sched.ready), me)
      /\ \A b : In(Tail(sched.ready), b) => In(sched.ready, b)
  BY <1>1, TailOnce DEF OneTurn
<1>3. \/ sched'.ready = Tail(sched.ready)
      \/ sched'.ready = sched.ready /\ ~Waiting(s, evt'[me])
  BY DEF Enter
<1>4. QED BY <1>2, <1>3 DEF OneTurn

\* A thread that is not in the ready list gets in it.
LEMMA RouseTurns ==
    ASSUME sched \in SchedType, OneTurn, NEW t \in Thread, ~InReadyList(t),
           sched' = [sched EXCEPT !.ready = Append(@, t)]
    PROVE  /\ OneTurn'
           /\ \A u : In(sched'.ready, u) => In(sched.ready, u) \/ u = t
<1>1. sched.ready \in Seq(Thread) /\ ~In(sched.ready, t)
  BY DEF SchedType, Thread, InReadyList, In
<1>2. sched'.ready = Append(sched.ready, t)
  BY DEF SchedType
<1>3. /\ Once(Append(sched.ready, t))
      /\ \A b : In(Append(sched.ready, t), b) <=> b = t \/ In(sched.ready, b)
  BY <1>1, AppendOnce DEF OneTurn
<1>4. QED BY <1>2, <1>3 DEF OneTurn

\* A step that does not rouse the Hard Reset thread.
HRSleepsOn == In(sched'.ready, "HR") => In(sched.ready, "HR")

\* The receiving thread queues itself and the TX thread only.
LEMMA RXTurns == ASSUME IInv, OneTurn, RXNext PROVE OneTurn' /\ HRSleepsOn
<1> USE DEF Thread
<1>1. sched \in SchedType /\ sched.ready # <<>> /\ Head(sched.ready) = "RX"
  BY DEF RXNext, RxWaitPHY, RxRead, RxReset, RxResetYielded, RxCheckMessageID,
         RxStoreMessageID, RxStoreYielded, RXAt, Runs, IInv, Kernel
<1>2. \/ \E s \in RXState : Enter("RX", s)
      \/ Yield("RX", "TX", {"RESET"}) \/ Yield("RX", "TX", {"DISCARD"})
      \/ sched' = sched
  <2>1. CASE RxReset \/ RxStoreMessageID
    BY <2>1 DEF RxReset, RxStoreMessageID, SignalAndYield
  <2>2. CASE RxWaitPHY
    BY <2>2 DEF RxWaitPHY, Fault, RXGoto, RXState
  <2>3. CASE RxRead \/ RxResetYielded \/ RxCheckMessageID \/ RxStoreYielded
    BY <2>3 DEF RxRead, RxResetYielded, RxCheckMessageID, RxStoreYielded, RXGoto,
                RxDrop, RXState
  <2>4. QED BY <2>1, <2>2, <2>3 DEF RXNext
<1>3. QED BY <1>1, <1>2, EnterTurns, YieldTurns DEF HRSleepsOn, OneTurn

\* The transmitting thread queues itself and the RX thread only.
LEMMA TXTurns == ASSUME IInv, OneTurn, TXNext PROVE OneTurn' /\ HRSleepsOn
<1> USE DEF Thread
<1>1. sched \in SchedType /\ sched.ready # <<>> /\ Head(sched.ready) = "TX"
  BY DEF TXNext, TxPHYReset, TxWaitMessage, TxReset, TxConstructMessage, TxSinkTx,
         TxSend, TxWaitResponse, TxMatchMessageID, TxTransmissionError,
         TxMessageSent, TxOver, TxDiscardMessage, TXAt, Runs, IInv, Kernel
<1>2. \/ \E s \in TXState : Enter("TX", s)
      \/ Yield("TX", "RX", {"RESET"})
      \/ sched' = sched
  <2>1. CASE TxReset
    BY <2>1 DEF TxReset, SignalAndYield
  <2>2. CASE TxPHYReset \/ TxTransmissionError \/ TxMessageSent \/ TxDiscardMessage
    BY <2>2 DEF TxPHYReset, TxTransmissionError, TxMessageSent, TxDiscardMessage,
                TxOver, TXState
  <2>3. CASE TxWaitMessage
    BY <2>3 DEF TxWaitMessage, TXGoto, TXState
  <2>4. CASE TxConstructMessage
    BY <2>4 DEF TxConstructMessage, Fault, TXGoto, TXState
  <2>5. CASE TxSinkTx \/ TxSend \/ TxWaitResponse \/ TxMatchMessageID
    BY <2>5 DEF TxSinkTx, TxSend, TxWaitResponse, TxMatchMessageID, TXGoto, TXState
  <2>6. QED BY <2>1, <2>2, <2>3, <2>4, <2>5 DEF TXNext
<1>3. QED BY <1>1, <1>2, EnterTurns, YieldTurns DEF HRSleepsOn, OneTurn

\* The Hard Reset thread queues itself, and a thread it tells of the reset.
LEMMA HRTurns == ASSUME IInv, OneTurn, HRNext PROVE OneTurn'
<1> USE DEF Thread
<1>1. sched \in SchedType
  BY DEF IInv, Kernel
<1>2. CASE HrTimeout
  BY <1>1, <1>2, RouseTurns DEF HrTimeout
<1>3. CASE ~HrTimeout
  <2>1. sched.ready # <<>> /\ Head(sched.ready) = "HR"
    BY <1>3 DEF HRNext, HrResetLayer, HrResetYielded, HrIndicateHardReset, HrTellPE,
                HrRequestHardReset, HrWaitPHY, HrHardResetRequested, HrWaitPE, HRAt,
                Runs
  <2>2. \/ \E s \in HRState : Enter("HR", s)
        \/ \E t \in {"RX", "TX"} : Yield("HR", t, {"RESET"})
    <3>1. CASE HrResetLayer \/ HrResetYielded
      BY <3>1 DEF HrResetLayer, HrResetYielded, SignalAndYield
    <3>2. CASE ~(HrResetLayer \/ HrResetYielded)
      BY <1>3, <3>2 DEF HRNext, HrIndicateHardReset, HrTellPE, HrRequestHardReset,
                HrWaitPHY, HrHardResetRequested, HrWaitPE, HRGoto, HRState
    <3>3. QED BY <3>1, <3>2
  <2>3. QED BY <1>1, <2>1, <2>2, EnterTurns, YieldTurns DEF OneTurn
<1>4. QED BY <1>2, <1>3

\* INT_N queues the thread it tells of an interrupt, the end of an I2C
\* transfer the thread that waited for it; the environment nobody.
LEMMA PortTurns ==
    ASSUME IInv, OneTurn, I2CDone \/ IntN \/ Source \/ Transceiver \/ Application
    PROVE  /\ OneTurn'
           /\ ~IntNTellHR => HRSleepsOn
<1> USE DEF Thread
<1>1. sched \in SchedType
  BY DEF IInv, Kernel
<1>2. CASE I2CDone
  <2>1. Head(sched.bus) \in {"RX", "TX"}
    BY <1>1, <1>2 DEF I2CDone, SchedType
  <2>2. QED BY <1>1, <1>2, <2>1, RouseTurns DEF I2CDone, HRSleepsOn
<1>3. CASE IntN
  <2>1. CASE IntNTellRX \/ IntNTellTX \/ IntNTellHR
    BY <1>1, <2>1, SignalTurns
       DEF IntNTellRX, IntNTellTX, IntNTellHR, IntNTell, HRSleepsOn
  <2>2. CASE IntNPoll \/ IntNTellPE
    BY <2>2 DEF IntNPoll, IntNTellPE, HRSleepsOn, OneTurn
  <2>3. QED BY <1>3, <2>1, <2>2 DEF IntN
<1>4. CASE Source \/ Transceiver \/ Application
  <2>1. sched' = sched
    <3>1. CASE Source
      <4>1. portUnchanged
        <5>1. SrcSend => portUnchanged
          BY Zenon DEF SrcSend
        <5>2. SrcStart => portUnchanged
          BY Zenon DEF SrcStart
        <5>3. SrcTransition \/ SrcSoftReset \/ SrcHardReset \/ SrcRecover => portUnchanged
          BY DEF SrcTransition, SrcSoftReset, SrcHardReset, SrcRecover
        <5>4. QED BY <3>1, <5>1, <5>2, <5>3 DEF Source
      <4>2. QED BY <4>1 DEF portUnchanged
    <3>2. CASE Transceiver
      BY <3>2 DEF Transceiver, PhySent, PhyRetryFail, PhyHardSent, Overheat,
                  portUnchanged
    <3>3. CASE Application
      BY <3>3 DEF Application, MainBoot, ButtonPress, ButtonRelease, AskSourceCap,
                  TellPE
    <3>4. QED BY <1>4, <3>1, <3>2, <3>3
  <2>2. QED BY <2>1 DEF HRSleepsOn, OneTurn
<1>5. QED BY <1>2, <1>3, <1>4

-----------------------------------------------------------------------------
(* What the steps of the Policy Engine have to do with the other threads.  *)

\* The states that wait for the outcome of a transmission.
TxWaits == Sending \cup {"PESinkSelectCapTx"}

\* ... and those, with the two of the handshake with the Hard Reset thread.
Engaged == TxWaits \cup {"PESinkHardResetSent", "PESinkTransitionDefault"}

\* The message the TX thread has been given.
InHand == IF pe.state = "PESinkSelectCapTx" THEN pe.request ELSE pe.sending

\* A step that concerns no other thread: it may take flags and messages.
PEGoes == /\ pe.state \notin Engaged /\ pe'.state \notin Engaged
          /\ evt'.PE \subseteq evt.PE /\ evt'.HR = evt.HR
          /\ sched' = sched /\ box'.TX = box.TX
          /\ fault' \in {fault, "nullAlloc", "nullMessage"}

\* The PPS timer sets a flag, whatever the Policy Engine waits for.
PERings == /\ evt'.PE = evt.PE \cup {"PPS_REQUEST"} /\ evt'.HR = evt.HR
           /\ pe'.state = pe.state /\ InHand' = InHand
           /\ sched' = sched /\ box' = box /\ fault' = fault

\* A message is handed to the TX thread.
PESends == /\ pe.state \notin Engaged /\ pe'.state \in TxWaits
           /\ InHand' \in Buf /\ Transmit(InHand')
           /\ fault' = fault

\* The outcome of a transmission is taken.
PELearns == /\ pe.state \in TxWaits /\ pe'.state \notin Engaged
            /\ evt.PE \cap {"TX_DONE", "TX_ERR"} # {}
            /\ evt'.PE = evt.PE \ TxOutcome /\ evt'.HR = evt.HR
            /\ sched' = sched /\ box' = box /\ fault' = fault

PEStepKind == \/ PEGoes \/ PERings \/ PESends \/ PELearns \/ HardReset
              \/ TransitionDefault \/ "RESET" \in evt.PE

LEMMA TxWaitStates == PEInTxWait <=> pe.state \in TxWaits
<1>1. ASSUME NEW s \in DOMAIN WaitMask, "TX_DONE" \in WaitMask[s] PROVE s \in TxWaits
  <2>1. /\ "TX_DONE" \notin WaitMask["PESinkWaitCap"]
        /\ "TX_DONE" \notin WaitMask["PESinkSelectCapRx"]
        /\ "TX_DONE" \notin WaitMask["PESinkTransitionSink"]
        /\ "TX_DONE" \notin WaitMask["PESinkReady"]
        /\ "TX_DONE" \notin WaitMask["PESinkHardResetSent"]
        /\ "TX_DONE" \notin WaitMask["PESinkSendSoftResetRx"]
        /\ "TX_DONE" \notin WaitMask["PESinkChunkReceived"]
        /\ "TX_DONE" \notin WaitMask["PESinkSourceUnresponsive"]
    BY DEF WaitMask
  <2>2. /\ "TX_DONE" \notin WaitMask["PRLRxWaitPHY"]
        /\ "TX_DONE" \notin WaitMask["PRLTxWaitMessage"]
        /\ "TX_DONE" \notin WaitMask["PRLTxWaitResponse"]
        /\ "TX_DONE" \notin WaitMask["PRLHRResetLayer"]
        /\ "TX_DONE" \notin WaitMask["PRLHRWaitPHY"]
        /\ "TX_DONE" \notin WaitMask["PRLHRWaitPE"]
    BY DEF WaitMask, RXEvent
  <2>3. s \in TxWaits \cup
            {"PESinkWaitCap", "PESinkSelectCapRx", "PESinkTransitionSink",
             "PESinkReady", "PESinkHardResetSent", "PESinkSendSoftResetRx",
             "PESinkChunkReceived", "PESinkSourceUnresponsive", "PRLRxWaitPHY",
             "PRLTxWaitMessage", "PRLTxWaitResponse", "PRLHRResetLayer",
             "PRLHRWaitPHY", "PRLHRWaitPE"}
    BY DEF WaitMask, TxWaits, Sending
  <2>4. QED BY <1>1, <2>1, <2>2, <2>3
<1>2. \A s \in TxWaits : s \in DOMAIN WaitMask /\ WaitMask[s] = TxOutcome
  BY DEF WaitMask, TxWaits, Sending
<1>3. "TX_DONE" \in TxOutcome
  BY DEF TxOutcome
<1>4. QED BY <1>1, <1>2, <1>3 DEF PEInTxWait

\* A wait that ends clears flags of the Policy Engine only.
LEMMA AwakeKind ==
    ASSUME IInv, NEW s, Awake(s)
    PROVE  /\ evt'.PE = evt.PE \ WaitMask[s] /\ evt'.HR = evt.HR
           /\ pe.state = s
BY DEF Awake, At, IInv, Kernel, EvtType

\* A wait that ends for its flags or by a timeout.
LEMMA MovesOnKind ==
    ASSUME IInv, NEW s, s \notin Engaged, NEW next, next \notin Engaged,
           \/ TimesOut(s, next)
           \/ /\ Awake(s) /\ UNCHANGED <<sched, box, fault>>
              /\ pe'.state = next
    PROVE  PEGoes
<1>1. CASE TimesOut(s, next)
  BY <1>1 DEF TimesOut, At, Goto, kernelVars, PEGoes, IInv, Policy, PEType
<1>2. CASE Awake(s) /\ UNCHANGED <<sched, box, fault>> /\ pe'.state = next
  BY <1>2, AwakeKind DEF PEGoes
<1>3. QED BY <1>1, <1>2

\* A message is fetched.
LEMMA FetchKind ==
    ASSUME IInv, NEW s, s \notin Engaged, NEW urgent, NEW b, Fetch(s, urgent, b),
           pe'.state \notin Engaged
    PROVE  PEGoes
<1>1. box'.TX = box.TX /\ Awake(s) /\ UNCHANGED <<sched, fault>>
  BY DEF Fetch, IInv, Kernel, BoxType
<1>2. QED BY <1>1, AwakeKind DEF PEGoes

LEMMA ConsumeKind ==
    ASSUME IInv, NEW s, s \notin Engaged, NEW urgent, NEW types, NEW next,
           next \notin Engaged, NEW p \in PEType, Consume(s, urgent, types, next, p)
    PROVE  PEGoes
<1>1. PICK b \in Buf : Fetch(s, urgent, b) /\ pe' = [p EXCEPT !.state = next, !.message = NoBuf]
  BY DEF Consume
<1>2. pe'.state = next
  BY <1>1 DEF PEType
<1>3. QED BY <1>1, <1>2, FetchKind

\* A message is allocated and handed over.
LEMMA SendNewKind ==
    ASSUME IInv, NEW s, s \notin Engaged, NEW type, NEW wait \in Sending,
           SendNew(s, type, wait)
    PROVE  PEGoes \/ PESends
<1>1. CASE pool = <<>>
  BY <1>1 DEF SendNew, Fault, At, PEGoes
<1>2. CASE pool # <<>>
  <2>1. Head(pool) \in Buf
    BY <1>2 DEF IInv, Kernel
  <2>2. pe' = [pe EXCEPT !.state = wait, !.sending = Head(pool)] /\ pe.state = s
        /\ Transmit(Head(pool)) /\ fault' = fault
    BY <1>2 DEF SendNew, At
  <2>3. pe'.state = wait /\ pe'.sending = Head(pool) /\ wait # "PESinkSelectCapTx"
    BY <2>2 DEF IInv, Policy, PEType, Sending
  <2>4. InHand' = Head(pool)
    BY <2>3 DEF InHand
  <2>5. QED BY <2>1, <2>2, <2>3, <2>4 DEF PESends, TxWaits
<1>3. QED BY <1>1, <1>2

\* The outcome of its transmission is in.
LEMMA SentOrKind ==
    ASSUME IInv, NEW s \in Sending, NEW done, NEW failed, done \notin Engaged,
           failed \notin Engaged, SentOr(s, done, failed)
    PROVE  PELearns \/ "RESET" \in evt.PE
<1>1. CASE Sent(s, GotReset, "PESinkTransitionDefault")
  BY <1>1 DEF Sent, GotReset
<1>2. ASSUME NEW outcome, NEW next, next \notin Engaged, Sent(s, outcome, next), ~GotReset
      PROVE  PELearns
  <2>1. evt'.PE = evt.PE \ WaitMask[s] /\ evt'.HR = evt.HR /\ pe.state = s
    BY <1>2, AwakeKind DEF Sent
  <2>2. WaitMask[s] = TxOutcome
    BY DEF Sending, WaitMask
  <2>3. evt.PE \cap {"TX_DONE", "TX_ERR"} # {}
    BY <1>2, <2>2 DEF Sent, Awake, GotReset, TxOutcome
  <2>4. pe'.state = next /\ UNCHANGED <<sched, box, fault>>
    BY <1>2 DEF Sent, IInv, Policy, PEType
  <2>5. QED BY <1>2, <2>1, <2>2, <2>3, <2>4 DEF PELearns, TxWaits
<1>3. QED BY <1>1, <1>2 DEF SentOr, GotReset, GotDone, GotError

\* The handlers one by one.
LEMMA OnResetKind == ASSUME NEW s, OnReset(s) PROVE "RESET" \in evt.PE
BY DEF OnReset

LEMMA WaitCapKind == ASSUME IInv, WaitCap PROVE PEStepKind
<1> USE DEF Engaged, TxWaits, Sending
<1> DEFINE s == "PESinkWaitCap"
           u == {"RESET", "I_OVRTEMP"}
<1>1. CASE TimesOut(s, "PESinkHardReset")
  BY <1>1, MovesOnKind DEF PEStepKind
<1>2. CASE OnReset(s)
  BY <1>2, OnResetKind DEF PEStepKind
<1>3. CASE Awake(s) /\ UNCHANGED <<sched, box, fault, pe>>
  BY <1>3, MovesOnKind, AwakeKind DEF PEStepKind
<1>4. ASSUME NEW b, Fetch(s, u, b),
             \/ pe' = [pe EXCEPT !.state = "PESinkEvalCap", !.message = b,
                                 !.rev = IF @ = 1 THEN SrcRev ELSE @]
             \/ pe' = [pe EXCEPT !.state = "PESinkHardReset", !.message = b]
      PROVE  PEStepKind
  <2>1. pe'.state \in {"PESinkEvalCap", "PESinkHardReset"}
    BY <1>4 DEF IInv, Policy, PEType
  <2>2. QED BY <1>4, <2>1, FetchKind DEF PEStepKind
<1>5. CASE Consume(s, u, {"SoftReset"}, "PESinkSoftReset", pe)
  BY <1>5, ConsumeKind DEF PEStepKind, IInv, Policy
<1>6. QED BY <1>1, <1>2, <1>3, <1>4, <1>5 DEF WaitCap

LEMMA EvalCapKind == ASSUME IInv, EvalCap PROVE PEStepKind
<1> USE DEF Engaged, TxWaits, Sending
<1>1. CASE pe.request = NoBuf /\ pool = <<>>
  <2>1. Fault("nullAlloc") /\ pe.state = "PESinkEvalCap"
    BY <1>1, Zenon DEF EvalCap, At
  <2>2. QED BY <2>1 DEF Fault, PEGoes, PEStepKind
<1>2. CASE ~(pe.request = NoBuf /\ pool = <<>>) /\ pe.message = NoBuf /\ dpm.caps = NoBuf
  <2>1. Fault("nullMessage") /\ pe.state = "PESinkEvalCap"
    BY <1>2, Zenon DEF EvalCap, At
  <2>2. QED BY <2>1 DEF Fault, PEGoes, PEStepKind
<1>3. CASE /\ ~(pe.request = NoBuf /\ pool = <<>>)
           /\ ~(pe.message = NoBuf /\ dpm.caps = NoBuf)
  <2> DEFINE new == pe.message # NoBuf
             caps == IF new THEN pe.message ELSE dpm.caps
             req == IF pe.request = NoBuf THEN Head(pool) ELSE pe.request
             first == IF new THEN FirstPps(OfferIn(mem[caps])) ELSE pe.ppsIndex
             last == IF pe.request = NoBuf THEN IF new THEN NoPps ELSE pe.lastPps
                     ELSE IF mem[pe.request].obj >= first THEN mem[pe.request].obj
                     ELSE NoPps
  <2>1. /\ UNCHANGED <<evt, sched, box, fault>> /\ pe.state = "PESinkEvalCap"
        /\ pe' = [pe EXCEPT !.state = "PESinkSelectCap", !.message = NoBuf,
                            !.request = req, !.ppsIndex = first, !.lastPps = last]
    BY <1>3, Zenon DEF EvalCap, At
  <2> HIDE DEF req, first, last
  <2>2. pe'.state = "PESinkSelectCap"
    BY <2>1 DEF IInv, Policy, PEType
  <2>3. QED BY <2>1, <2>2 DEF PEGoes, PEStepKind
<1>4. QED BY <1>1, <1>2, <1>3

LEMMA SelectCapKind == ASSUME IInv, SelectCap PROVE PEStepKind
<1> USE DEF Engaged, TxWaits, Sending
<1> DEFINE s == "PESinkSelectCapRx"
<1>1. CASE SelectCapSend
  <2>1. /\ pe.state = "PESinkSelectCap" /\ Transmit(pe.request) /\ fault' = fault
        /\ pe' = [pe EXCEPT !.state = "PESinkSelectCapTx"]
    BY <1>1 DEF SelectCapSend, At, Goto
  <2>2. pe.request \in Buf /\ pe'.state = "PESinkSelectCapTx" /\ pe'.request = pe.request
    BY <2>1 DEF IInv, Policy, PEType, Asking
  <2>3. InHand' = pe.request
    BY <2>2 DEF InHand
  <2>4. QED BY <2>1, <2>2, <2>3 DEF PESends, PEStepKind
<1>2. CASE OnReset("PESinkSelectCapTx") \/ OnReset(s)
  BY <1>2, OnResetKind DEF PEStepKind
<1>3. CASE SelectCapSent
  <2>1. /\ evt'.PE = evt.PE \ TxOutcome /\ evt'.HR = evt.HR
        /\ pe.state = "PESinkSelectCapTx" /\ UNCHANGED <<sched, box, fault>>
    BY <1>3, AwakeKind DEF SelectCapSent, WaitMask
  <2>2. evt.PE \cap {"TX_DONE", "TX_ERR"} # {}
    BY <1>3 DEF SelectCapSent, Awake, WaitMask, TxOutcome, GotReset
  <2>3. pe'.state \in {"PESinkSelectCapRx", "PESinkHardReset"}
    BY <1>3 DEF SelectCapSent, IInv, Policy, PEType
  <2>4. QED BY <2>1, <2>2, <2>3 DEF PELearns, PEStepKind
<1>4. CASE TimesOut(s, "PESinkHardReset")
  BY <1>4, MovesOnKind DEF PEStepKind
<1>5. CASE SelectCapAnswer
  <2>1. pe \in PEType /\ [pe EXCEPT !.minPower = FALSE] \in PEType
    BY DEF IInv, Policy, PEType
  <2>2. ASSUME Consume(s, {"RESET"}, {"Accept"}, "PESinkTransitionSink",
                       [pe EXCEPT !.minPower = FALSE])
        PROVE  PEGoes
    BY <2>1, <2>2, ConsumeKind
  <2>3. ASSUME NEW types, NEW next \in {"PESinkSoftReset", "PESinkWaitCap",
                                        "PESinkSendSoftReset"},
               Consume(s, {"RESET"}, types, next, pe)
        PROVE  PEGoes
    BY <2>1, <2>3, ConsumeKind
  <2>4. ASSUME NEW t \in {"Reject", "Wait"},
               Consume(s, {"RESET"}, {t}, "PESinkReady",
                       [pe EXCEPT !.minPower = (t = "Wait")])
        PROVE  PEGoes
    <3> DEFINE q == [pe EXCEPT !.minPower = (t = "Wait")]
    <3>1. q \in PEType
      <4>1. (t = "Wait") \in BOOLEAN
        OBVIOUS
      <4>2. QED BY <2>1, <4>1 DEF PEType
    <3>2. Consume(s, {"RESET"}, {t}, "PESinkReady", q)
      BY <2>4
    <3> HIDE DEF q
    <3>3. QED BY <3>1, <3>2, ConsumeKind
  <2>5. QED BY <1>5, <2>2, <2>3, <2>4 DEF SelectCapAnswer, PEStepKind
<1>6. QED BY <1>1, <1>2, <1>3, <1>4, <1>5 DEF SelectCap

LEMMA TransitionSinkKind == ASSUME IInv, TransitionSink PROVE PEStepKind
<1> USE DEF Engaged, TxWaits, Sending
<1> DEFINE s == "PESinkTransitionSink"
<1>1. pe \in PEType /\ [pe EXCEPT !.contract = TRUE] \in PEType
  BY DEF IInv, Policy, PEType
<1>2. CASE OnReset(s)
  BY <1>2, OnResetKind DEF PEStepKind
<1>3. CASE TimesOut(s, "PESinkHardReset")
  BY <1>3, MovesOnKind DEF PEStepKind
<1>4. ASSUME NEW types, NEW next \in {"PESinkReady", "PESinkHardReset"},
             NEW p \in PEType, Consume(s, {"RESET"}, types, next, p)
      PROVE  PEStepKind
  BY <1>4, ConsumeKind DEF PEStepKind
<1>5. QED BY <1>1, <1>2, <1>3, <1>4 DEF TransitionSink

LEMMA ReadyKind == ASSUME IInv, Ready PROVE PEStepKind
<1> USE DEF Engaged, TxWaits, Sending
<1> DEFINE s == "PESinkReady"
<1>1. pe \in PEType /\ [pe EXCEPT !.minPower = TRUE] \in PEType
  BY DEF IInv, Policy, PEType
<1>2. CASE OnReset(s)
  BY <1>2, OnResetKind DEF PEStepKind
<1>3. CASE TimesOut(s, "PESinkSelectCap")
  BY <1>3, MovesOnKind DEF PEStepKind
<1>4. CASE /\ ReadyWakes("I_OVRTEMP", {"RESET"}) /\ Goto("PESinkHardReset")
           /\ UNCHANGED <<sched, box, fault>>
  <2>1. Awake(s) /\ pe'.state = "PESinkHardReset"
    BY <1>1, <1>4 DEF ReadyWakes, Goto, PEType
  <2>2. QED BY <1>4, <2>1, MovesOnKind DEF PEStepKind
<1>5. ASSUME NEW flag, NEW above,
             NEW next \in {"PESinkGetSourceCap", "PESinkEvalCap", "PESinkSelectCap"},
             ReadyStarts(flag, above, next)
      PROVE  PEStepKind
  <2>1. /\ evt'.PE = evt.PE \ WaitMask[s] /\ evt'.HR = evt.HR
        /\ pe.state = s /\ UNCHANGED <<sched, box, fault>>
    BY <1>5 DEF ReadyStarts, At, IInv, Kernel, EvtType
  <2>2. pe'.state = next
    BY <1>1, <1>5 DEF ReadyStarts, PEType
  <2>3. QED BY <2>1, <2>2 DEF PEGoes, PEStepKind
<1>6. ASSUME NEW types, NEW next, next \notin Engaged, ReadyFrees(types, next)
      PROVE  PEStepKind
  BY <1>1, <1>6, ConsumeKind DEF ReadyFrees, PEStepKind
<1>7. CASE Consume(s, ReadyUrgent, {"GotoMin"}, "PESinkTransitionSink",
                   [pe EXCEPT !.minPower = TRUE])
  BY <1>1, <1>7, ConsumeKind DEF PEStepKind
<1>8. ASSUME NEW b \in Buf, Fetch(s, ReadyUrgent, b),
             pe' = [pe EXCEPT !.state = "PESinkEvalCap", !.message = b]
      PROVE  PEStepKind
  <2>1. pe'.state = "PESinkEvalCap"
    BY <1>1, <1>8 DEF PEType
  <2>2. QED BY <1>8, <2>1, FetchKind DEF PEStepKind
<1>9. QED
  <2>1. CASE \/ ReadyStarts("GET_SOURCE_CAP", {"RESET", "I_OVRTEMP"}, "PESinkGetSourceCap")
             \/ ReadyStarts("NEW_POWER", {"RESET", "I_OVRTEMP", "GET_SOURCE_CAP"},
                            "PESinkEvalCap")
             \/ ReadyStarts("PPS_REQUEST", {"RESET", "I_OVRTEMP", "GET_SOURCE_CAP",
                                            "NEW_POWER"}, "PESinkSelectCap")
    BY <1>5, <2>1
  <2>2. CASE \/ ReadyFrees({"VDM", "Ping"}, s)
             \/ ReadyFrees(Unsupported, "PESinkSendNotSupported")
             \/ ReadyFrees({"GotoMin"}, "PESinkSendNotSupported")
             \/ ReadyFrees({"GetSinkCap"}, "PESinkGiveSinkCap")
             \/ ReadyFrees({"SoftReset"}, "PESinkSoftReset")
             \/ ReadyFrees({"Chunked"}, "PESinkChunkReceived")
             \/ ReadyFrees({"NotSupported"}, "PESinkNotSupportedReceived")
             \/ ReadyFrees(Unknown \cup (IF pe.rev = 3 THEN {} ELSE UnknownIn2),
                           "PESinkSendSoftReset")
    BY <1>6, <2>2
  <2>3. QED BY <1>2, <1>3, <1>4, <1>7, <1>8, <2>1, <2>2 DEF Ready

\* The handlers that send a message of their own.
LEMMA SendersKind ==
    ASSUME IInv, GetSourceCap \/ GiveSinkCap \/ SoftReset \/ SendNotSupported
                 \/ SendSoftReset
    PROVE  PEStepKind
<1> USE DEF Engaged, TxWaits, Sending
<1> DEFINE rxs == "PESinkSendSoftResetRx"
<1>1. ASSUME NEW s, s \notin Engaged, NEW type, NEW wait \in Sending, SendNew(s, type, wait)
      PROVE  PEStepKind
  BY <1>1, SendNewKind DEF PEStepKind
<1>2. ASSUME NEW s \in Sending, NEW done, done \notin Engaged, NEW failed, failed \notin Engaged,
             SentOr(s, done, failed)
      PROVE  PEStepKind
  BY <1>2, SentOrKind DEF PEStepKind
<1>3. CASE GetSourceCap
  BY <1>1, <1>2, <1>3 DEF GetSourceCap
<1>4. CASE GiveSinkCap
  BY <1>1, <1>2, <1>4 DEF GiveSinkCap
<1>5. CASE SoftReset
  BY <1>1, <1>2, <1>5 DEF SoftReset
<1>6. CASE SendNotSupported
  BY <1>1, <1>2, <1>6 DEF SendNotSupported
<1>7. CASE SendSoftReset
  <2>1. CASE OnReset(rxs)
    BY <2>1, OnResetKind DEF PEStepKind
  <2>2. CASE TimesOut(rxs, "PESinkHardReset")
    BY <2>2, MovesOnKind DEF PEStepKind
  <2>3. ASSUME NEW types, NEW next \in {"PESinkWaitCap", "PESinkSoftReset",
                                        "PESinkHardReset"},
               Consume(rxs, {"RESET"}, types, next, pe)
        PROVE  PEStepKind
    BY <2>3, ConsumeKind DEF PEStepKind, IInv, Policy
  <2>4. QED BY <1>1, <1>2, <1>7, <2>1, <2>2, <2>3 DEF SendSoftReset
<1>8. QED BY <1>3, <1>4, <1>5, <1>6, <1>7

\* The handlers that only go on, and the timer.
LEMMA OthersKind ==
    ASSUME IInv, \/ Startup \/ Discovery \/ ChunkReceived \/ NotSupportedReceived
                 \/ SourceUnresponsive \/ PpsTimer
    PROVE  PEStepKind
<1> USE DEF Engaged, TxWaits, Sending
<1>1. pe \in PEType
  BY DEF IInv, Policy
<1>2. CASE Startup \/ Discovery \/ NotSupportedReceived \/ SourceUnresponsive
  <2>1. UNCHANGED kernelVars
    BY <1>2 DEF Startup, Discovery, NotSupportedReceived, SourceUnresponsive
  <2>2. pe.state \notin Engaged /\ pe'.state \notin Engaged
    BY <1>1, <1>2 DEF Startup, Discovery, NotSupportedReceived, SourceUnresponsive, At,
                      Goto, PEType
  <2>3. QED BY <2>1, <2>2 DEF kernelVars, PEGoes, PEStepKind
<1>3. CASE OnReset("PESinkChunkReceived")
  BY <1>3, OnResetKind DEF PEStepKind
<1>4. CASE TimesOut("PESinkChunkReceived", "PESinkSendNotSupported")
  BY <1>4, MovesOnKind DEF PEStepKind
<1>5. CASE PpsTimer
  <2>1. pe'.state = pe.state /\ pe'.request = pe.request /\ pe'.sending = pe.sending
    BY <1>1, <1>5 DEF PpsTimer, PEType
  <2>2. evt'.PE = evt.PE \cup {"PPS_REQUEST"} /\ evt'.HR = evt.HR
    BY <1>5 DEF PpsTimer, IInv, Kernel, EvtType
  <2>3. UNCHANGED <<sched, box, fault>>
    BY <1>5 DEF PpsTimer
  <2>4. QED BY <2>1, <2>2, <2>3 DEF InHand, PERings, PEStepKind
<1>6. QED BY <1>2, <1>3, <1>4, <1>5 DEF ChunkReceived

LEMMA PEKind == ASSUME IInv, PENext PROVE PEStepKind
<1>1. CASE HardReset \/ TransitionDefault
  BY <1>1 DEF PEStepKind
<1>2. CASE ~(HardReset \/ TransitionDefault)
  BY <1>2, WaitCapKind, EvalCapKind, SelectCapKind, TransitionSinkKind, ReadyKind,
     SendersKind, OthersKind DEF PENext
<1>3. QED BY <1>1, <1>2

\* The Policy Engine touches the protocol layer's own state in no step.
LEMMA PELeaves == ASSUME PENext PROVE peUnchanged
<1> USE DEF peUnchanged
<1>1. ASSUME NEW s, NEW urgent, NEW b, Fetch(s, urgent, b) PROVE peUnchanged
  BY <1>1 DEF Fetch
<1>2. ASSUME NEW s, NEW urgent, NEW types, NEW next, NEW p,
             Consume(s, urgent, types, next, p)
      PROVE  peUnchanged
  BY <1>1, <1>2 DEF Consume
<1>3. ASSUME NEW s, NEW next, OnReset(s) \/ TimesOut(s, next) PROVE peUnchanged
  BY <1>3 DEF OnReset, TimesOut
<1>4. ASSUME NEW s, NEW type, NEW wait, SendNew(s, type, wait) PROVE peUnchanged
  BY <1>4 DEF SendNew, Fault
<1>5. ASSUME NEW s, NEW done, NEW failed, SentOr(s, done, failed) PROVE peUnchanged
  BY <1>5 DEF SentOr, Sent
<1>6. CASE WaitCap
  BY <1>1, <1>2, <1>3, <1>6, Zenon DEF WaitCap
<1>7. CASE EvalCap
  <2>1. Fault("nullAlloc") \/ Fault("nullMessage") \/ peUnchanged
    BY <1>7, Zenon DEF EvalCap
  <2>2. QED BY <2>1 DEF Fault
<1>8. CASE SelectCap
  BY <1>2, <1>3, <1>8 DEF SelectCap, SelectCapSend, SelectCapSent, SelectCapAnswer
<1>9. CASE TransitionSink
  BY <1>2, <1>3, <1>9 DEF TransitionSink
<1>10. CASE Ready
  BY <1>1, <1>2, <1>3, <1>10, Zenon DEF Ready, ReadyStarts, ReadyFrees
<1>11. CASE GetSourceCap \/ GiveSinkCap \/ SoftReset \/ SendNotSupported
  BY <1>4, <1>5, <1>11 DEF GetSourceCap, GiveSinkCap, SoftReset, SendNotSupported
<1>12. CASE SendSoftReset
  BY <1>2, <1>3, <1>4, <1>5, <1>12 DEF SendSoftReset
<1>13. CASE ChunkReceived
  BY <1>3, <1>13 DEF ChunkReceived
<1>14. CASE Startup \/ Discovery \/ HardReset \/ TransitionDefault
            \/ NotSupportedReceived \/ SourceUnresponsive \/ PpsTimer
  BY <1>14 DEF Startup, Discovery, HardReset, TransitionDefault, NotSupportedReceived,
               SourceUnresponsive, PpsTimer
<1>15. QED BY <1>6, <1>7, <1>8, <1>9, <1>10, <1>11, <1>12, <1>13, <1>14 DEF PENext

\* It readies the threads it signals, and nobody else.
LEMMA PESched ==
    ASSUME PENext
    PROVE  sched' = sched \/ Signal("TX", {"MSG_TX"}) \/ Signal("HR", {"RESET"})
           \/ Signal("HR", {"DONE"})
<1> DEFINE Goal == \/ sched' = sched \/ Signal("TX", {"MSG_TX"})
                   \/ Signal("HR", {"RESET"}) \/ Signal("HR", {"DONE"})
<1>1. ASSUME NEW s, NEW urgent, NEW b, Fetch(s, urgent, b) PROVE sched' = sched
  BY <1>1 DEF Fetch
<1>2. ASSUME NEW s, NEW urgent, NEW types, NEW next, NEW p,
             Consume(s, urgent, types, next, p)
      PROVE  sched' = sched
  BY <1>1, <1>2 DEF Consume
<1>3. ASSUME NEW s, NEW next, OnReset(s) \/ TimesOut(s, next) PROVE sched' = sched
  BY <1>3 DEF OnReset, TimesOut, kernelVars
<1>4. ASSUME NEW s, NEW type, NEW wait, SendNew(s, type, wait) PROVE Goal
  BY <1>4 DEF SendNew, Fault, Transmit
<1>5. ASSUME NEW s, NEW done, NEW failed, SentOr(s, done, failed) PROVE sched' = sched
  BY <1>5 DEF SentOr, Sent
<1>6. CASE WaitCap
  BY <1>1, <1>2, <1>3, <1>6, Zenon DEF WaitCap
<1>7. CASE EvalCap
  <2>1. Fault("nullAlloc") \/ Fault("nullMessage") \/ sched' = sched
    BY <1>7, Zenon DEF EvalCap
  <2>2. QED BY <2>1 DEF Fault
<1>8. CASE SelectCap
  BY <1>2, <1>3, <1>8
     DEF SelectCap, SelectCapSend, SelectCapSent, SelectCapAnswer, Transmit
<1>9. CASE TransitionSink
  BY <1>2, <1>3, <1>9 DEF TransitionSink
<1>10. CASE Ready
  BY <1>1, <1>2, <1>3, <1>10, Zenon DEF Ready, ReadyStarts, ReadyFrees, ReadyWakes
<1>11. CASE GetSourceCap \/ GiveSinkCap \/ SoftReset \/ SendNotSupported
  BY <1>4, <1>5, <1>11 DEF GetSourceCap, GiveSinkCap, SoftReset, SendNotSupported
<1>12. CASE SendSoftReset
  BY <1>2, <1>3, <1>4, <1>5, <1>12 DEF SendSoftReset
<1>13. CASE ChunkReceived
  BY <1>3, <1>13 DEF ChunkReceived
<1>14. CASE Startup \/ Discovery \/ HardReset \/ TransitionDefault
            \/ NotSupportedReceived \/ SourceUnresponsive \/ PpsTimer
  BY <1>14 DEF Startup, Discovery, HardReset, TransitionDefault, NotSupportedReceived,
               SourceUnresponsive, PpsTimer, kernelVars
<1>15. QED BY <1>6, <1>7, <1>8, <1>9, <1>10, <1>11, <1>12, <1>13, <1>14 DEF PENext

-----------------------------------------------------------------------------
(* The handshake of the Policy Engine and the Hard Reset thread, when all  *)
(* hard resets are the sink's own.                                         *)

\* The source signals no hard reset.
QuietSource == \A b \in InitBudgets : "hard" \in DOMAIN b /\ b["hard"] = 0

NoneLeft == "hard" \in DOMAIN budget /\ budget["hard"] = 0

\* Nobody is told of a hard reset the source has signalled.
Calm == /\ NoneLeft
        /\ "I_HARDRST" \notin phy.irq /\ "I_HARDRST" \notin status
        /\ "I_HARDRST" \notin evt.HR /\ "RESET" \notin evt.PE
        /\ hr.state # "PRLHRIndicateHardReset"
        /\ hr.state = "PRLHRResetYielded" => hr.requested

\* The Hard Reset thread has the flag it has been woken for.
Roused == /\ In(sched.ready, "HR") /\ hr.state = "PRLHRResetLayer" => "RESET" \in evt.HR
          /\ In(sched.ready, "HR") /\ hr.state = "PRLHRWaitPE" => "DONE" \in evt.HR

\* Between the RESET it answers and the HARD_SENT it gives the answer with.
Answering == {"PRLHRResetYielded", "PRLHRRequestHardReset", "PRLHRWaitPHY",
              "PRLHRHardResetRequested"}

\* The flags RESET, HARD_SENT and DONE follow one another: each is taken before
\* the next one is set, but for a RESET that comes before DONE is taken.
Handshake ==
    LET reset == "RESET" \in evt.HR
        sent == "HARD_SENT" \in evt.PE
        done == "DONE" \in evt.HR
        asked == pe.state = "PESinkHardResetSent"
        ends == pe.state = "PESinkTransitionDefault"
    IN  /\ hr.state = "PRLHRResetLayer" =>
              ~sent /\ ~done /\ (asked <=> reset) /\ ~ends
        /\ hr.state \in Answering => ~sent /\ ~done /\ asked /\ ~reset
        /\ hr.state = "PRLHRWaitPE" =>
              \/ asked /\ sent /\ ~done /\ ~reset
              \/ ends /\ ~sent /\ ~done /\ ~reset
              \/ ~ends /\ ~sent /\ done /\ (asked <=> reset)

HInv == OneTurn /\ Calm /\ Roused /\ Handshake

\* Nothing that is spent is a hard reset of the source.
LEMMA SpendKeeps ==
    ASSUME NoneLeft, NEW k, Spend(k) PROVE k # "hard" /\ NoneLeft'
BY DEF NoneLeft, Spend

LEMMA BudgetKept == ASSUME NoneLeft, Next PROVE NoneLeft'
<1>1. ASSUME budget' = budget \/ \E k : Spend(k) PROVE NoneLeft'
  BY <1>1, SpendKeeps DEF NoneLeft
<1> USE DEF partnerVars
<1>2. ASSUME NEW s, NEW urgent, NEW b, Fetch(s, urgent, b) PROVE budget' = budget
  BY <1>2 DEF Fetch
<1>3. ASSUME NEW s, NEW urgent, NEW types, NEW next, NEW p,
             Consume(s, urgent, types, next, p)
      PROVE  budget' = budget
  BY <1>2, <1>3 DEF Consume
<1>4. ASSUME NEW s, NEW next, OnReset(s) \/ TimesOut(s, next)
      PROVE  budget' = budget \/ Spend("timeout")
  BY <1>4 DEF OnReset, TimesOut
<1>5. ASSUME NEW s, NEW type, NEW wait, SendNew(s, type, wait) PROVE budget' = budget
  BY <1>5 DEF SendNew, Fault
<1>6. ASSUME NEW s, NEW done, NEW failed, SentOr(s, done, failed) PROVE budget' = budget
  BY <1>6 DEF SentOr, Sent
<1>7. CASE PENext
  <2>1. budget' = budget \/ \E k \in {"timeout", "pps", "press"} : Spend(k)
    <3>6. CASE WaitCap
      BY <1>2, <1>3, <1>4, <3>6, Zenon DEF WaitCap
    <3>7. CASE EvalCap
      <4>1. \/ Fault("nullAlloc") \/ Fault("nullMessage")
            \/ budget' = budget \/ Spend("press")
        BY <3>7, Zenon DEF EvalCap, ButtonEvaluated
      <4>2. QED BY <4>1 DEF Fault
    <3>8. CASE SelectCap
      BY <1>3, <1>4, <3>8 DEF SelectCap, SelectCapSend, SelectCapSent, SelectCapAnswer
    <3>9. CASE TransitionSink
      BY <1>3, <1>4, <3>9 DEF TransitionSink
    <3>10. CASE Ready
      BY <1>2, <1>3, <1>4, <3>10, Zenon DEF Ready, ReadyStarts, ReadyFrees
    <3>11. CASE GetSourceCap \/ GiveSinkCap \/ SoftReset \/ SendNotSupported
      BY <1>5, <1>6, <3>11 DEF GetSourceCap, GiveSinkCap, SoftReset, SendNotSupported
    <3>12. CASE SendSoftReset
      BY <1>3, <1>4, <1>5, <1>6, <3>12 DEF SendSoftReset
    <3>13. CASE ChunkReceived
      BY <1>4, <3>13 DEF ChunkReceived
    <3>14. CASE Startup \/ Discovery \/ HardReset \/ TransitionDefault
                \/ NotSupportedReceived \/ SourceUnresponsive \/ PpsTimer
      BY <3>14 DEF Startup, Discovery, HardReset, TransitionDefault,
                   NotSupportedReceived, SourceUnresponsive, PpsTimer
    <3>15. QED BY <1>7, <3>6, <3>7, <3>8, <3>9, <3>10, <3>11, <3>12, <3>13, <3>14
               DEF PENext
  <2>2. QED BY <1>1, <2>1
<1>8. CASE RXNext
  BY <1>1, <1>8 DEF RXNext, RxWaitPHY, RxRead, RxReset, RxResetYielded,
     RxCheckMessageID, RxStoreMessageID, RxStoreYielded, rxUnchanged, Fault
<1>9. CASE TXNext
  BY <1>1, <1>9 DEF TXNext, TxPHYReset, TxWaitMessage, TxReset, TxConstructMessage,
     TxSinkTx, TxSend, TxWaitResponse, TxMatchMessageID, TxTransmissionError,
     TxMessageSent, TxOver, TxDiscardMessage, txUnchanged, Fault
<1>10. CASE HRNext
  BY <1>1, <1>10 DEF HRNext, HrResetLayer, HrResetYielded, HrIndicateHardReset,
     HrTellPE, HrRequestHardReset, HrWaitPHY, HrTimeout, HrHardResetRequested,
     HrWaitPE, hrUnchanged
<1>11. CASE I2CDone \/ IntN
  BY <1>1, <1>11 DEF I2CDone, IntN, IntNPoll, IntNTellRX, IntNTellTX, IntNTellHR,
     IntNTell, IntNTellPE
<1>12. CASE Source
  <2>1. SrcSend => budget' = budget \/ Spend("loss")
    BY Zenon DEF SrcSend
  <2>2. SrcStart => Spend("start")
    BY Zenon DEF SrcStart
  <2>3. QED BY <1>1, <1>12, <2>1, <2>2
            DEF Source, SrcTransition, SrcSoftReset, SrcHardReset, SrcRecover
<1>13. CASE Transceiver
  BY <1>1, <1>13 DEF Transceiver, PhySent, SrcHears, PhyRetryFail, PhyHardSent, Overheat
<1>14. CASE Application
  BY <1>1, <1>14 DEF Application, MainBoot, ButtonPress, ButtonRelease, AskSourceCap
<1>15. QED BY <1>7, <1>8, <1>9, <1>10, <1>11, <1>12, <1>13, <1>14 DEF Next

\* A step that takes no part in the handshake.
LEMMA BystanderHand ==
    ASSUME IInv, HInv, OneTurn', HRSleepsOn, NoneLeft', hr' = hr, evt'.HR = evt.HR,
           pe'.state = pe.state \/ (pe.state \notin Engaged /\ pe'.state \notin Engaged)
             \/ (pe.state \in TxWaits /\ pe'.state \notin Engaged)
             \/ (pe.state \notin Engaged /\ pe'.state \in TxWaits),
           "RESET" \in evt'.PE => "RESET" \in evt.PE,
           "HARD_SENT" \in evt'.PE => "HARD_SENT" \in evt.PE,
           pe.state = "PESinkHardResetSent" /\ "HARD_SENT" \in evt.PE
             => "HARD_SENT" \in evt'.PE,
           "I_HARDRST" \in phy'.irq => "I_HARDRST" \in phy.irq,
           "I_HARDRST" \in status' => "I_HARDRST" \in status \cup phy.irq
    PROVE  HInv'
<1>1. Calm' /\ Roused'
  BY DEF HInv, Calm, Roused, HRSleepsOn
<1>2. /\ pe'.state = "PESinkHardResetSent" <=> pe.state = "PESinkHardResetSent"
      /\ pe'.state = "PESinkTransitionDefault" <=> pe.state = "PESinkTransitionDefault"
  BY DEF Engaged, TxWaits, Sending
<1>3. Handshake'
  BY <1>2 DEF HInv, Handshake
<1>4. QED BY <1>1, <1>3 DEF HInv

LEMMA RXHand == ASSUME IInv, HInv, NoneLeft', RXNext PROVE HInv'
<1>1. OneTurn' /\ HRSleepsOn
  BY RXTurns DEF HInv
<1>2. /\ UNCHANGED <<hr, pe, status>> /\ phy'.irq = phy.irq
      /\ evt'.HR = evt.HR /\ evt.PE \subseteq evt'.PE
      /\ evt'.PE \subseteq evt.PE \cup {"MSG_RX"}
  <2>1. UNCHANGED <<hr, pe, status>>
    BY DEF RXNext, RxWaitPHY, RxRead, RxReset, RxResetYielded, RxCheckMessageID,
           RxStoreMessageID, RxStoreYielded, rxUnchanged, Fault
  <2>2. /\ evt'.HR = evt.HR /\ evt.PE \subseteq evt'.PE
        /\ evt'.PE \subseteq evt.PE \cup {"MSG_RX"}
    BY DEF RXNext, RxWaitPHY, RxRead, RxReset, RxResetYielded, RxCheckMessageID,
           RxStoreMessageID, RxStoreYielded, SignalAndYield, Fault, IInv, Kernel, EvtType
  <2>3. phy'.irq = phy.irq
    BY DEF RXNext, RxWaitPHY, RxRead, RxReset, RxResetYielded, RxCheckMessageID,
           RxStoreMessageID, RxStoreYielded, Fault, IInv, Outside, PhyType
  <2>4. QED BY <2>1, <2>2, <2>3
<1>3. QED BY <1>1, <1>2, BystanderHand

LEMMA TXHand == ASSUME IInv, HInv, NoneLeft', TXNext PROVE HInv'
<1>1. OneTurn' /\ HRSleepsOn
  BY TXTurns DEF HInv
<1>2. /\ UNCHANGED <<hr, pe, status>> /\ phy'.irq = phy.irq
      /\ evt'.HR = evt.HR /\ evt.PE \subseteq evt'.PE
      /\ evt'.PE \subseteq evt.PE \cup {"TX_DONE", "TX_ERR"}
  <2>1. UNCHANGED <<hr, pe, status>>
    BY DEF TXNext, TxPHYReset, TxWaitMessage, TxReset, TxConstructMessage,
       TxSinkTx, TxSend, TxWaitResponse, TxMatchMessageID, TxTransmissionError,
       TxMessageSent, TxOver, TxDiscardMessage, txUnchanged, Fault
  <2>2. /\ evt'.HR = evt.HR /\ evt.PE \subseteq evt'.PE
        /\ evt'.PE \subseteq evt.PE \cup {"TX_DONE", "TX_ERR"}
    <3> USE DEF IInv, Kernel, EvtType
    <3>1. CASE TxPHYReset \/ TxReset \/ TxConstructMessage
      BY <3>1 DEF TxPHYReset, TxReset, TxConstructMessage, SignalAndYield, Fault
    <3>2. CASE TxWaitMessage \/ TxWaitResponse
      BY <3>2 DEF TxWaitMessage, TxWaitResponse
    <3>3. CASE TxSinkTx \/ TxSend \/ TxMatchMessageID \/ TxTransmissionError
               \/ TxMessageSent \/ TxDiscardMessage
      BY <3>3 DEF TxSinkTx, TxSend, TxMatchMessageID, TxTransmissionError,
                  TxMessageSent, TxOver, TxDiscardMessage
    <3>4. QED BY <3>1, <3>2, <3>3 DEF TXNext
  <2>3. phy'.irq = phy.irq
    BY DEF TXNext, TxPHYReset, TxWaitMessage, TxReset, TxConstructMessage,
       TxSinkTx, TxSend, TxWaitResponse, TxMatchMessageID, TxTransmissionError,
       TxMessageSent, TxOver, TxDiscardMessage, Fault, IInv, Outside, PhyType
  <2>4. QED BY <2>1, <2>2, <2>3
<1>3. QED BY <1>1, <1>2, BystanderHand

\* The Hard Reset thread's own steps: it has been woken for the flag its wait
\* is for, and there is nothing but the Policy Engine's RESET and DONE.
LEMMA HRHand == ASSUME IInv, HInv, NoneLeft', HRNext PROVE HInv'
<1> USE DEF hrUnchanged
<1>1. OneTurn'
  BY HRTurns DEF HInv
<1>2. UNCHANGED <<pe, status, budget>> /\ phy'.irq = phy.irq /\ hr \in HRType
      /\ sched \in SchedType /\ evt \in EvtType
  BY DEF HRNext, HrResetLayer, HrResetYielded, HrIndicateHardReset, HrTellPE,
         HrRequestHardReset, HrWaitPHY, HrTimeout, HrHardResetRequested, HrWaitPE,
         partnerVars, IInv, Kernel, Link, Outside, PhyType
<1>3. ASSUME NEW s, HRAt(s), hr.state = s PROVE In(sched.ready, "HR") /\ sched.ready # <<>>
             /\ Head(sched.ready) = "HR"
  <2>1. sched.ready # <<>> /\ Head(sched.ready) = "HR"
    BY <1>3 DEF HRAt, Runs
  <2>2. Len(sched.ready) >= 1 /\ sched.ready[1] = "HR"
    BY <1>2, <2>1 DEF SchedType
  <2>3. 1 \in 1..Len(sched.ready)
    BY <1>2, <2>2 DEF SchedType
  <2>4. QED BY <2>1, <2>2, <2>3 DEF In
<1>4. CASE HrResetLayer
  <2>1. hr.state = "PRLHRResetLayer" /\ "RESET" \in evt.HR
    BY <1>3, <1>4 DEF HrResetLayer, HRAt, HInv, Roused
  <2>2. hr' = [state |-> "PRLHRResetYielded", requested |-> TRUE]
    BY <1>4, <2>1 DEF HrResetLayer
  <2>3. evt'.PE = evt.PE /\ evt'.HR = evt.HR \ {"RESET", "I_HARDRST"}
    BY <1>2, <1>4 DEF HrResetLayer, EvtType, WaitMask
  <2>4. QED BY <1>1, <1>2, <2>1, <2>2, <2>3
            DEF HInv, Calm, NoneLeft, Roused, Handshake, Answering
<1>5. ASSUME hr.state \in Answering, hr'.state \in Answering, UNCHANGED evt,
             hr'.state # "PRLHRResetYielded"
      PROVE  HInv'
  BY <1>1, <1>2, <1>5 DEF HInv, Calm, NoneLeft, Roused, Handshake, Answering
<1>6. CASE HrResetYielded
  <2>1. hr.state = "PRLHRResetYielded" /\ hr.requested
    BY <1>6 DEF HrResetYielded, HRAt, HInv, Calm
  <2>2. hr'.state = "PRLHRRequestHardReset"
    BY <1>2, <1>6, <2>1 DEF HrResetYielded, HRType
  <2>3. evt'.PE = evt.PE /\ evt'.HR = evt.HR
    BY <1>2, <1>6 DEF HrResetYielded, SignalAndYield, EvtType
  <2>4. QED BY <1>1, <1>2, <2>1, <2>2, <2>3
            DEF HInv, Calm, NoneLeft, Roused, Handshake, Answering
<1>7. CASE HrIndicateHardReset
  BY <1>7 DEF HrIndicateHardReset, HrTellPE, HRAt, HInv, Calm
<1>8. CASE HrRequestHardReset \/ HrTimeout
  <2>1. hr.state \in Answering /\ hr'.state \in Answering /\ UNCHANGED evt
        /\ hr'.state # "PRLHRResetYielded"
    BY <1>2, <1>8 DEF HrRequestHardReset, HrTimeout, HRAt, HRGoto, HRType, Answering
  <2>2. QED BY <1>5, <2>1
<1>9. CASE HrWaitPHY
  <2>1. hr.state = "PRLHRWaitPHY" /\ hr'.state = "PRLHRHardResetRequested"
    BY <1>2, <1>9 DEF HrWaitPHY, HRAt, HRGoto, HRType
  <2>2. evt'.PE = evt.PE /\ evt'.HR = evt.HR \ {"I_HARDSENT"}
    BY <1>2, <1>9 DEF HrWaitPHY, EvtType
  <2>3. QED BY <1>1, <1>2, <2>1, <2>2
            DEF HInv, Calm, NoneLeft, Roused, Handshake, Answering
<1>10. CASE HrHardResetRequested
  <2>1. hr.state = "PRLHRHardResetRequested" /\ hr'.state = "PRLHRWaitPE"
    BY <1>2, <1>10 DEF HrHardResetRequested, HrTellPE, HRAt, HRGoto, HRType
  <2>2. evt'.PE = evt.PE \cup {"HARD_SENT"} /\ evt'.HR = evt.HR
    BY <1>2, <1>10 DEF HrHardResetRequested, HrTellPE, EvtType
  <2>3. "DONE" \notin evt.HR
    BY <2>1 DEF HInv, Handshake, Answering
  <2>4. Waiting("PRLHRWaitPE", evt'["HR"])
    BY <2>2, <2>3 DEF Waiting, WaitMask
  <2>5. ~In(sched'.ready, "HR")
    <3>1. Enter("HR", "PRLHRWaitPE") /\ sched.ready # <<>> /\ Head(sched.ready) = "HR"
      BY <1>10 DEF HrHardResetRequested, HrTellPE, HRGoto, HRAt, Runs
    <3>2. QED BY <1>2, <2>4, <3>1, EnterTurns DEF Thread, HInv
  <2>6. QED BY <1>1, <1>2, <2>1, <2>2, <2>5
            DEF HInv, Calm, NoneLeft, Roused, Handshake, Answering
<1>11. CASE HrWaitPE
  <2>1. hr.state = "PRLHRWaitPE" /\ hr'.state = "PRLHRResetLayer"
    BY <1>2, <1>11 DEF HrWaitPE, HRAt, HRGoto, HRType
  <2>2. evt'.PE = evt.PE /\ evt'.HR = evt.HR \ {"DONE"} /\ evt'["HR"] = evt'.HR
    BY <1>2, <1>11 DEF HrWaitPE, EvtType
  <2>3. "DONE" \in evt.HR
    BY <1>3, <1>11, <2>1 DEF HrWaitPE, HRAt, HInv, Roused
  <2>4. In(sched'.ready, "HR") => "RESET" \in evt'.HR
    <3>1. Enter("HR", "PRLHRResetLayer") /\ sched.ready # <<>> /\ Head(sched.ready) = "HR"
      BY <1>11 DEF HrWaitPE, HRGoto, HRAt, Runs
    <3>2. Waiting("PRLHRResetLayer", evt'["HR"]) => ~In(sched'.ready, "HR")
      BY <1>2, <3>1, EnterTurns DEF Thread, HInv
    <3>3. "RESET" \notin evt'.HR => Waiting("PRLHRResetLayer", evt'["HR"])
      BY <2>2 DEF Waiting, WaitMask, HInv, Calm
    <3>4. QED BY <3>2, <3>3
  <2>5. QED BY <1>1, <1>2, <2>1, <2>2, <2>3, <2>4
            DEF HInv, Calm, NoneLeft, Roused, Handshake, Answering
<1>12. QED BY <1>4, <1>6, <1>7, <1>8, <1>9, <1>10, <1>11 DEF HRNext

\* The FUSB302B reports that the hard reset has been sent, and INT_N passes it
\* on; the rest of the environment has no part in it.
LEMMA PortHand ==
    ASSUME IInv, HInv, NoneLeft', I2CDone \/ IntN \/ Source \/ Transceiver \/ Application
    PROVE  HInv'
<1>1. OneTurn' /\ (~IntNTellHR => HRSleepsOn)
  BY PortTurns DEF HInv
<1>2. ~SrcHardReset
  BY SpendKeeps DEF SrcHardReset, HInv, Calm
<1>3. CASE IntNTellHR
  <2>1. /\ Signal("HR", status \cap HrFlags) /\ status' = status \ HrFlags
        /\ UNCHANGED <<phy, pe, hr>>
    BY <1>3 DEF IntNTellHR, IntNTell, threadsUnchanged
  <2>2. status \cap HrFlags \subseteq {"I_HARDSENT"}
    BY DEF HrFlags, HInv, Calm
  <2>3. /\ evt'.PE = evt.PE /\ evt.HR \subseteq evt'.HR
        /\ evt'.HR \subseteq evt.HR \cup {"I_HARDSENT"}
    BY <2>1, <2>2 DEF Signal, IInv, Kernel, EvtType
  <2>4. In(sched'.ready, "HR") => In(sched.ready, "HR") \/ hr.state = "PRLHRWaitPHY"
    <3>1. In(sched'.ready, "HR") =>
            In(sched.ready, "HR") \/ Wants("HR", status \cap HrFlags)
      BY <2>1, SignalTurns DEF HInv, IInv, Kernel, Thread
    <3>2. Wants("HR", status \cap HrFlags) /\ hr.state \in HRState
            => hr.state = "PRLHRWaitPHY"
      BY <2>2 DEF Wants, StateOf, WaitMask, HRState
    <3>3. QED BY <3>1, <3>2 DEF IInv, Link, HRType
  <2>5. QED BY <1>1, <2>1, <2>3, <2>4 DEF HInv, Calm, Roused, Handshake
<1>4. CASE ~IntNTellHR
  <2>1. hr' = hr /\ pe' = pe
    <3>1. Source => threadsUnchanged
      <4>1. SrcSend => threadsUnchanged
        BY Zenon DEF SrcSend, portUnchanged
      <4>2. SrcStart => threadsUnchanged
        BY Zenon DEF SrcStart, portUnchanged
      <4>3. SrcTransition \/ SrcSoftReset \/ SrcHardReset \/ SrcRecover
              => threadsUnchanged
        BY DEF SrcTransition, SrcSoftReset, SrcHardReset, SrcRecover, portUnchanged
      <4>4. QED BY <4>1, <4>2, <4>3 DEF Source
    <3>2. Transceiver => threadsUnchanged
      BY DEF Transceiver, PhySent, PhyRetryFail, PhyHardSent, Overheat, portUnchanged
    <3>3. Application => threadsUnchanged
      BY DEF Application, MainBoot, ButtonPress, ButtonRelease, AskSourceCap, TellPE
    <3>4. IntN => threadsUnchanged
      BY DEF IntN, IntNPoll, IntNTellRX, IntNTellTX, IntNTellHR, IntNTell, IntNTellPE
    <3>5. I2CDone => UNCHANGED <<hr, pe>>
      BY DEF I2CDone
    <3>6. QED BY <3>1, <3>2, <3>3, <3>4, <3>5 DEF threadsUnchanged
  <2>2. /\ evt'.HR = evt.HR /\ evt.PE \subseteq evt'.PE
        /\ evt'.PE \subseteq evt.PE \cup {"I_OVRTEMP", "NEW_POWER", "GET_SOURCE_CAP"}
    <3> USE DEF IInv, Kernel, EvtType
    <3>1. CASE IntN
      BY <1>4, <3>1 DEF IntN, IntNPoll, IntNTellRX, IntNTellTX, IntNTell, IntNTellPE,
                        Signal
    <3>2. CASE I2CDone
      BY <3>2 DEF I2CDone
    <3>3. CASE Source
      <4>1. SrcSend => UNCHANGED evt
        BY Zenon DEF SrcSend, portUnchanged
      <4>2. SrcStart => UNCHANGED evt
        BY Zenon DEF SrcStart, portUnchanged
      <4>3. SrcTransition \/ SrcSoftReset \/ SrcHardReset \/ SrcRecover => UNCHANGED evt
        BY DEF SrcTransition, SrcSoftReset, SrcHardReset, SrcRecover, portUnchanged
      <4>4. QED BY <3>3, <4>1, <4>2, <4>3 DEF Source
    <3>4. CASE Transceiver
      BY <3>4 DEF Transceiver, PhySent, PhyRetryFail, PhyHardSent, Overheat,
                  portUnchanged
    <3>5. CASE Application
      BY <3>5 DEF Application, MainBoot, ButtonPress, ButtonRelease, AskSourceCap,
                  TellPE
    <3>6. QED BY <3>1, <3>2, <3>3, <3>4, <3>5
  <2>3. /\ "I_HARDRST" \in phy'.irq => "I_HARDRST" \in phy.irq
        /\ "I_HARDRST" \in status' => "I_HARDRST" \in status \cup phy.irq
    <3> USE DEF IInv, Outside, PhyType
    <3>1. CASE IntN
      BY <3>1 DEF IntN, IntNPoll, IntNTellRX, IntNTellTX, IntNTellHR, IntNTell,
                  IntNTellPE
    <3>2. CASE I2CDone
      BY <3>2 DEF I2CDone
    <3>3. CASE Source
      <4>1. SrcSend => phy'.irq = phy.irq \cup {"I_GCRCSENT"} /\ UNCHANGED status
        <5>1. SrcSend => UNCHANGED status
                  /\ \E m : phy' = [phy EXCEPT !.fifo = Append(@, m),
                                               !.irq = Raise("I_GCRCSENT")]
          BY Zenon DEF SrcSend, portUnchanged
        <5>2. QED BY <5>1 DEF Raise
      <4>2. SrcStart => UNCHANGED <<phy, status>>
        BY Zenon DEF SrcStart, portUnchanged
      <4>3. SrcTransition \/ SrcSoftReset \/ SrcRecover => UNCHANGED <<phy, status>>
        BY DEF SrcTransition, SrcSoftReset, SrcRecover, portUnchanged
      <4>4. QED BY <1>2, <3>3, <4>1, <4>2, <4>3 DEF Source
    <3>4. CASE Transceiver
      <4>1. UNCHANGED status
        BY <3>4 DEF Transceiver, PhySent, PhyRetryFail, PhyHardSent, Overheat,
                    portUnchanged
      <4>2. CASE PhySent
        BY <4>1, <4>2 DEF PhySent, Raise
      <4>3. CASE PhyRetryFail
        BY <4>1, <4>3 DEF PhyRetryFail, Raise
      <4>4. CASE PhyHardSent
        BY <4>1, <4>4 DEF PhyHardSent, Raise
      <4>5. CASE Overheat
        BY <4>1, <4>5 DEF Overheat, Raise
      <4>6. QED BY <3>4, <4>2, <4>3, <4>4, <4>5 DEF Transceiver
    <3>5. CASE Application
      BY <3>5 DEF Application, MainBoot, ButtonPress, ButtonRelease, AskSourceCap,
                  TellPE
    <3>6. QED BY <3>1, <3>2, <3>3, <3>4, <3>5
  <2>4. QED BY <1>1, <1>4, <2>1, <2>2, <2>3, BystanderHand
<1>5. QED BY <1>3, <1>4

\* The Policy Engine's half of it: RESET, HARD_SENT, DONE.
LEMMA PEHand == ASSUME IInv, HInv, NoneLeft', PENext PROVE HInv'
<1>1. UNCHANGED <<rx, tx, hr, phy, status>>
  BY PELeaves DEF peUnchanged
<1>2. "RESET" \notin evt.PE /\ pe \in PEType /\ hr \in HRType /\ sched \in SchedType
      /\ OneTurn
  BY DEF HInv, Calm, IInv, Kernel, Policy, Link
<1>3. ASSUME sched' = sched PROVE OneTurn' /\ HRSleepsOn
  BY <1>2, <1>3 DEF OneTurn, HRSleepsOn
<1>4. CASE PEGoes \/ PERings \/ PELearns
  BY <1>1, <1>2, <1>3, <1>4, BystanderHand
     DEF PEGoes, PERings, PELearns, TxOutcome, Engaged
<1>5. CASE PESends
  <2>1. Signal("TX", {"MSG_TX"})
    BY <1>5 DEF PESends, Transmit
  <2>2. OneTurn' /\ HRSleepsOn
    BY <1>2, <2>1, SignalTurns DEF Thread, HRSleepsOn
  <2>3. evt'.PE = evt.PE /\ evt'.HR = evt.HR
    BY <2>1 DEF Signal, IInv, Kernel, EvtType
  <2>4. QED BY <1>1, <1>5, <2>2, <2>3, BystanderHand DEF PESends, Engaged
<1>6. CASE HardReset
  <2>1. CASE /\ At("PESinkHardReset") /\ Goto("PESinkSourceUnresponsive")
             /\ UNCHANGED kernelVars
    <3>1. pe.state \notin Engaged /\ pe'.state \notin Engaged
      BY <1>2, <2>1 DEF At, Goto, PEType, Engaged, TxWaits, Sending
    <3>2. QED BY <1>1, <1>3, <2>1, <3>1, BystanderHand DEF kernelVars
  <2>2. CASE /\ At("PESinkHardReset") /\ Signal("HR", {"RESET"})
             /\ Goto("PESinkHardResetSent")
    <3>1. /\ pe.state = "PESinkHardReset" /\ pe'.state = "PESinkHardResetSent"
          /\ evt'.PE = evt.PE /\ evt'.HR = evt.HR \cup {"RESET"}
      BY <1>2, <2>2 DEF At, Goto, PEType, Signal, IInv, Kernel, EvtType
    <3>2. /\ OneTurn'
          /\ In(sched'.ready, "HR") => In(sched.ready, "HR") \/ Wants("HR", {"RESET"})
      BY <1>2, <2>2, SignalTurns DEF Thread
    <3>3. Wants("HR", {"RESET"}) => hr.state # "PRLHRWaitPE"
      BY DEF Wants, StateOf, WaitMask
    <3>4. QED BY <1>1, <3>1, <3>2, <3>3 DEF HInv, Calm, Roused, Handshake, Answering
  <2>3. CASE /\ Awake("PESinkHardResetSent") /\ UNCHANGED sched
             /\ pe' = [pe EXCEPT !.state = "PESinkTransitionDefault", !.resets = @ + 1]
    <3>1. /\ pe.state = "PESinkHardResetSent" /\ "HARD_SENT" \in evt.PE
          /\ evt'.PE = evt.PE \ {"HARD_SENT"} /\ evt'.HR = evt.HR
          /\ pe'.state = "PESinkTransitionDefault"
      BY <1>2, <2>3, AwakeKind DEF Awake, WaitMask, PEType
    <3>2. hr.state = "PRLHRWaitPE"
      BY <1>2, <3>1 DEF HInv, Calm, Handshake, Answering, HRType, HRState
    <3>3. QED BY <1>1, <1>3, <2>3, <3>1, <3>2
              DEF HInv, Calm, Roused, Handshake, Answering, HRSleepsOn
  <2>4. QED BY <1>6, <2>1, <2>2, <2>3 DEF HardReset
<1>7. CASE TransitionDefault
  <2>1. /\ pe.state = "PESinkTransitionDefault" /\ Signal("HR", {"DONE"})
        /\ pe'.state = "PESinkStartup"
        /\ evt'.PE = evt.PE /\ evt'.HR = evt.HR \cup {"DONE"}
    BY <1>2, <1>7 DEF TransitionDefault, At, PEType, Signal, IInv, Kernel, EvtType
  <2>2. /\ OneTurn'
        /\ In(sched'.ready, "HR") => In(sched.ready, "HR") \/ Wants("HR", {"DONE"})
    BY <1>2, <2>1, SignalTurns DEF Thread
  <2>3. Wants("HR", {"DONE"}) => hr.state # "PRLHRResetLayer"
    BY DEF Wants, StateOf, WaitMask
  <2>4. hr.state = "PRLHRWaitPE"
    BY <1>2, <2>1 DEF HInv, Calm, Handshake, Answering, HRType, HRState
  <2>5. QED BY <1>1, <2>1, <2>2, <2>3, <2>4
            DEF HInv, Calm, Roused, Handshake, Answering
<1>8. QED BY <1>2, <1>4, <1>5, <1>6, <1>7, PEKind DEF PEStepKind

\* Nothing is on its way and nobody has been woken when the threads start.
LEMMA InitHInv == ASSUME QuietSource, Init PROVE HInv
<1>1. OneTurn /\ ~In(sched.ready, "HR")
  BY DEF Init, OneTurn, Once, In
<1>2. NoneLeft
  BY DEF QuietSource, NoneLeft, Init, SrcInit
<1>3. Calm /\ Roused /\ Handshake
  BY <1>1, <1>2 DEF Init, PEInit, HRInit, PhyInit, Calm, Roused, Handshake, Answering
<1>4. QED BY <1>1, <1>3 DEF HInv

LEMMA StepHInv == ASSUME IInv, HInv, [Next]_vars PROVE HInv'
<1>1. CASE Next
  <2>1. NoneLeft'
    BY <1>1, BudgetKept DEF HInv, Calm
  <2>2. QED BY <1>1, <2>1, PEHand, RXHand, TXHand, HRHand, PortHand DEF Next
<1>2. CASE UNCHANGED vars
  BY <1>2 DEF vars, kernelVars, partnerVars, HInv, OneTurn, Calm, NoneLeft, Roused,
              Handshake
<1>3. QED BY <1>1, <1>2

\* No thread of the protocol layer is in the ready list twice, in any
\* environment: an event and the end of a transfer or a timeout never both
\* make the same thread ready.
THEOREM OneTurnEach == Spec => []OneTurn
<1>1. Init => OneTurn
  BY DEF Init, OneTurn, Once
<1>2. IInv /\ OneTurn /\ [Next]_vars => OneTurn'
  <2> SUFFICES ASSUME IInv, OneTurn, [Next]_vars PROVE OneTurn'
    OBVIOUS
  <2>1. CASE PENext
    <3>1. ASSUME sched' = sched PROVE OneTurn'
      BY <3>1 DEF OneTurn
    <3>2. ASSUME NEW t \in Thread, NEW x, Signal(t, x) PROVE OneTurn'
      BY <3>2, SignalTurns DEF IInv, Kernel
    <3>3. QED BY <2>1, <3>1, <3>2, PESched DEF Thread
  <2>2. CASE UNCHANGED vars
    BY <2>2 DEF vars, kernelVars, OneTurn
  <2>3. QED BY <2>1, <2>2, RXTurns, TXTurns, HRTurns, PortTurns DEF Next
<1>3. QED BY <1>1, <1>2, IInvHolds, PTL DEF Spec

\* The Policy Engine and the Hard Reset thread never wait for one another, if
\* the source signals no hard reset.  (If it does while the Policy Engine asks
\* for one, they do: the run mutual_wait.)
THEOREM NeverStuck == QuietSource => (Spec => []NoMutualWait)
<1> SUFFICES ASSUME QuietSource PROVE Spec => []NoMutualWait
  OBVIOUS
<1>1. Init => HInv
  BY InitHInv
<1>2. IInv /\ HInv /\ [Next]_vars => HInv'
  BY StepHInv
<1>3. HInv => NoMutualWait
  BY DEF HInv, Handshake, NoMutualWait
<1>4. QED BY <1>1, <1>2, <1>3, IInvHolds, PTL DEF Spec

-----------------------------------------------------------------------------
(* The message in the TX thread's hands.                                   *)
Outcome == {"TX_DONE", "TX_ERR"}

\* What is being transmitted is in the mailbox, or in the TX thread's hands, or
\* its outcome is known, and the Policy Engine waits for that and keeps it.
Mail ==
    /\ box.TX = <<>> \/ box.TX = <<InHand>>
    /\ tx.message \in {NoBuf, InHand}
    /\ box.TX # <<>> => tx.message = NoBuf
    /\ box.TX # <<>> \/ tx.message # NoBuf =>
          pe.state \in TxWaits /\ evt.PE \cap Outcome = {}
    /\ evt.PE \cap Outcome # {} => pe.state \in TxWaits
    /\ tx.state = "PRLTxWaitMessage" => tx.message = NoBuf
    /\ tx.state \notin {"PRLTxWaitMessage", "PRLTxPHYReset", "PRLTxDiscardMessage"} =>
          tx.message # NoBuf
    /\ fault # "freedWrite"

\* A step that has nothing to do with a transmission.
LEMMA BystanderMail ==
    ASSUME Mail, pe'.state = pe.state, InHand' = InHand, box'.TX = box.TX,
           tx'.state = tx.state, tx'.message = tx.message,
           evt'.PE \cap Outcome = evt.PE \cap Outcome,
           fault' # "freedWrite"
    PROVE  Mail'
BY DEF Mail

LEMMA RXMail == ASSUME IInv, Mail, RXNext PROVE Mail'
<1>1. UNCHANGED <<pe, status>> /\ fault' \in {fault, "nullAlloc"}
  BY DEF RXNext, RxWaitPHY, RxRead, RxReset, RxResetYielded, RxCheckMessageID,
         RxStoreMessageID, RxStoreYielded, rxUnchanged, Fault
<1>2. evt'.PE \cap Outcome = evt.PE \cap Outcome
  BY DEF RXNext, RxWaitPHY, RxRead, RxReset, RxResetYielded, RxCheckMessageID,
         RxStoreMessageID, RxStoreYielded, SignalAndYield, Fault, IInv, Kernel,
         EvtType, Outcome
<1>3. tx'.state = tx.state /\ tx'.message = tx.message
  BY DEF RXNext, RxWaitPHY, RxRead, RxReset, RxResetYielded, RxCheckMessageID,
         RxStoreMessageID, RxStoreYielded, Fault, IInv, Link, TXType
<1>4. box'.TX = box.TX
  <2>1. CASE RxStoreYielded
    <3>1. rx.message \in Buf
      BY <2>1 DEF RxStoreYielded, RXAt, IInv, Link, RXType
    <3>2. QED BY <2>1, <3>1, PostedType DEF RxStoreYielded, IInv, Kernel
  <2>2. CASE ~RxStoreYielded
    BY <2>2 DEF RXNext, RxWaitPHY, RxRead, RxReset, RxResetYielded, RxCheckMessageID,
                RxStoreMessageID, Fault
  <2>3. QED BY <2>1, <2>2
<1>5. InHand' = InHand
  BY <1>1 DEF InHand
<1>6. QED BY <1>1, <1>2, <1>3, <1>4, <1>5, BystanderMail DEF Mail

LEMMA Single ==
    ASSUME NEW S, NEW x \in S PROVE Head(<<x>>) = x /\ Tail(<<x>>) = <<>>
<1>1. <<x>> \in Seq(S) /\ Len(<<x>>) = 1
  OBVIOUS
<1>2. Tail(<<x>>) \in Seq(S) /\ Len(Tail(<<x>>)) = 0
  BY <1>1
<1>3. Tail(<<x>>) = <<>>
  BY <1>2
<1>4. QED BY <1>3

\* The TX thread takes the message from its mailbox, and forgets it when it
\* tells the Policy Engine what became of it.
LEMMA TXMail == ASSUME IInv, OInv, Mail, TXNext PROVE Mail'
<1>1. /\ UNCHANGED pe /\ tx \in TXType /\ evt \in EvtType /\ box \in BoxType
      /\ InHand' = InHand
  <2>1. UNCHANGED pe
    BY DEF TXNext, TxPHYReset, TxWaitMessage, TxReset, TxConstructMessage,
       TxSinkTx, TxSend, TxWaitResponse, TxMatchMessageID, TxTransmissionError,
       TxMessageSent, TxOver, TxDiscardMessage, txUnchanged, Fault
  <2>2. QED BY <2>1 DEF InHand, IInv, Kernel, Link
\* Going to another state with or without the message.
<1>2. ASSUME NEW s, tx'.state = s, tx'.message = tx.message, box'.TX = box.TX,
             evt'.PE = evt.PE, fault' = fault, s # "PRLTxWaitMessage",
             tx.message # NoBuf \/ s \in {"PRLTxPHYReset", "PRLTxDiscardMessage"}
      PROVE  Mail'
  BY <1>1, <1>2 DEF Mail
<1>3. CASE TxPHYReset
  <2>1. tx'.state = "PRLTxWaitMessage" /\ tx'.message = NoBuf /\ UNCHANGED <<box, fault>>
        /\ evt'.PE = IF tx.message = NoBuf THEN evt.PE ELSE evt.PE \cup {"TX_ERR"}
    BY <1>1, <1>3 DEF TxPHYReset, txUnchanged, TXType, EvtType
  <2>2. QED BY <1>1, <2>1 DEF Mail
<1>4. CASE TxWaitMessage
  <2>1. evt'.PE = evt.PE /\ fault' = fault
    BY <1>1, <1>4 DEF TxWaitMessage, txUnchanged, EvtType
  <2>2. ASSUME NEW s \in {"PRLTxPHYReset", "PRLTxDiscardMessage"}, TXGoto(s), UNCHANGED box
        PROVE  Mail'
    BY <1>1, <1>2, <2>1, <2>2 DEF TXGoto, TXType
  <2>3. ASSUME box.TX # <<>>, box' = [box EXCEPT !.TX = Tail(@)],
               NEW s \in {"PRLTxReset", "PRLTxConstructMessage"},
               tx' = [tx EXCEPT !.state = s, !.message = Head(box.TX)]
        PROVE  Mail'
    <3>1. box.TX = <<InHand>> /\ Head(box.TX) = InHand /\ Tail(box.TX) = <<>>
      BY <2>3, Single DEF Mail
    <3>2. box'.TX = <<>> /\ tx'.state = s /\ tx'.message = InHand
      <4>1. box'.TX = Tail(box.TX) /\ tx'.message = Head(box.TX) /\ tx'.state = s
        BY <1>1, <2>3 DEF BoxType, TXType
      <4>2. QED BY <3>1, <4>1
    <3>3. InHand # NoBuf
      <4>1. Head(box.TX) \in Buf
        BY <1>1, <2>3 DEF BoxType
      <4>2. QED BY <3>1, <4>1, NoBufOutside
    <3>4. QED BY <1>1, <2>1, <2>3, <3>2, <3>3 DEF Mail
  <2>4. QED BY <1>4, <2>2, <2>3 DEF TxWaitMessage
<1>5. CASE TxReset
  <2>1. /\ tx.state = "PRLTxReset" /\ tx'.state = "PRLTxConstructMessage"
        /\ tx'.message = tx.message /\ UNCHANGED <<box, fault>> /\ evt'.PE = evt.PE
    BY <1>1, <1>5 DEF TxReset, TXAt, txUnchanged, SignalAndYield, TXType, EvtType
  <2>2. QED BY <1>2, <2>1 DEF Mail
<1>6. CASE TxConstructMessage
  <2>1. tx.state = "PRLTxConstructMessage" /\ tx.message # NoBuf
    BY <1>6 DEF TxConstructMessage, TXAt, Mail
  \* The message it writes to is still the Policy Engine's, and not free.
  <2>2. ~\E i \in 1..Len(pool) : pool[i] = tx.message
    <3>1. /\ Held["request"] = pe.request /\ Held["sending"] = pe.sending
          /\ "request" \in Slot /\ "sending" \in Slot
      BY HeldFacts DEF Slot
    <3>2. tx.message = InHand
      BY <2>1 DEF Mail
    <3>3. ~In(pool, tx.message)
      BY <2>1, <3>1, <3>2, Apart DEF InHand
    <3>4. QED BY <3>3 DEF In
  <2>3. /\ UNCHANGED <<box, fault>> /\ evt'.PE = evt.PE
        /\ \E s \in {"PRLTxPHYReset", "PRLTxDiscardMessage", "PRLTxSinkTx",
                     "PRLTxSend"} : TXGoto(s)
    BY <1>1, <1>6, <2>2 DEF TxConstructMessage, txUnchanged, EvtType
  <2>4. QED BY <1>1, <1>2, <2>1, <2>3 DEF TXGoto, TXType
<1>7. CASE TxSinkTx \/ TxSend \/ TxWaitResponse \/ TxMatchMessageID
  <2>1. /\ UNCHANGED <<box, fault>> /\ evt'.PE = evt.PE
        /\ tx.state \in {"PRLTxSinkTx", "PRLTxSend", "PRLTxWaitResponse",
                         "PRLTxMatchMessageID"}
    BY <1>1, <1>7 DEF TxSinkTx, TxSend, TxWaitResponse, TxMatchMessageID, TXAt,
                      txUnchanged, EvtType
  <2>2. \E s \in TXState \ {"PRLTxWaitMessage"} : TXGoto(s)
    BY <1>7 DEF TxSinkTx, TxSend, TxWaitResponse, TxMatchMessageID, TXState
  <2>3. QED BY <1>1, <1>2, <2>1, <2>2 DEF TXGoto, TXType, Mail
<1>8. CASE TxTransmissionError \/ TxMessageSent
  <2>1. /\ UNCHANGED <<box, fault>> /\ tx'.state = "PRLTxWaitMessage"
        /\ tx'.message = NoBuf /\ tx.message # NoBuf
        /\ evt'.PE \in {evt.PE \cup {"TX_ERR"}, evt.PE \cup {"TX_DONE"}}
    BY <1>1, <1>8 DEF TxTransmissionError, TxMessageSent, TxOver, TXAt, txUnchanged,
                      EvtType, Mail
  <2>2. QED BY <1>1, <2>1 DEF Mail
<1>9. CASE TxDiscardMessage
  <2>1. /\ UNCHANGED <<box, fault, evt>> /\ tx'.state = "PRLTxPHYReset"
        /\ tx'.message = tx.message
    BY <1>1, <1>9 DEF TxDiscardMessage, txUnchanged, TXType
  <2>2. QED BY <1>2, <2>1
<1>10. QED BY <1>3, <1>4, <1>5, <1>6, <1>7, <1>8, <1>9 DEF TXNext

\* The Hard Reset thread and the environment transmit nothing for the sink.
LEMMA ElseMail ==
    ASSUME IInv, Mail, HRNext \/ I2CDone \/ IntN \/ Source \/ Transceiver \/ Application
    PROVE  Mail'
<1>1. CASE HRNext
  <2>1. /\ UNCHANGED <<pe, box, fault>> /\ tx'.state = tx.state
        /\ tx'.message = tx.message
    BY <1>1 DEF HRNext, HrResetLayer, HrResetYielded, HrIndicateHardReset, HrTellPE,
       HrRequestHardReset, HrWaitPHY, HrTimeout, HrHardResetRequested, HrWaitPE,
       hrUnchanged, IInv, Link, TXType
  <2>2. evt'.PE \cap Outcome = evt.PE \cap Outcome
    BY <1>1 DEF HRNext, HrResetLayer, HrResetYielded, HrIndicateHardReset, HrTellPE,
       HrRequestHardReset, HrWaitPHY, HrTimeout, HrHardResetRequested, HrWaitPE,
       SignalAndYield, IInv, Kernel, EvtType, Outcome
  <2>3. InHand' = InHand
    BY <2>1 DEF InHand
  <2>4. QED BY <2>1, <2>2, <2>3, BystanderMail DEF Mail
<1>2. CASE I2CDone \/ IntN \/ Source \/ Transceiver \/ Application
  <2>1. UNCHANGED <<pe, box, fault, tx>>
    <3>1. Source => threadsUnchanged
      <4>1. SrcSend => threadsUnchanged
        BY Zenon DEF SrcSend, portUnchanged
      <4>2. SrcStart => threadsUnchanged
        BY Zenon DEF SrcStart, portUnchanged
      <4>3. SrcTransition \/ SrcSoftReset \/ SrcHardReset \/ SrcRecover
              => threadsUnchanged
        BY DEF SrcTransition, SrcSoftReset, SrcHardReset, SrcRecover, portUnchanged
      <4>4. QED BY <4>1, <4>2, <4>3 DEF Source
    <3>2. Transceiver \/ Application \/ IntN => threadsUnchanged
      BY DEF Transceiver, PhySent, PhyRetryFail, PhyHardSent, Overheat, portUnchanged,
             Application, MainBoot, ButtonPress, ButtonRelease, AskSourceCap, TellPE,
             IntN, IntNPoll, IntNTellRX, IntNTellTX, IntNTellHR, IntNTell, IntNTellPE
    <3>3. I2CDone => UNCHANGED <<pe, box, fault, tx>>
      BY DEF I2CDone
    <3>4. QED BY <1>2, <3>1, <3>2, <3>3 DEF threadsUnchanged
  <2>2. evt'.PE \cap Outcome = evt.PE \cap Outcome
    <3> USE DEF IInv, Kernel, EvtType, Outcome
    <3>1. CASE IntN
      BY <3>1 DEF IntN, IntNPoll, IntNTellRX, IntNTellTX, IntNTellHR, IntNTell,
                  IntNTellPE, Signal
    <3>2. CASE I2CDone
      BY <3>2 DEF I2CDone
    <3>3. CASE Source
      <4>1. SrcSend => UNCHANGED evt
        BY Zenon DEF SrcSend, portUnchanged
      <4>2. SrcStart => UNCHANGED evt
        BY Zenon DEF SrcStart, portUnchanged
      <4>3. SrcTransition \/ SrcSoftReset \/ SrcHardReset \/ SrcRecover => UNCHANGED evt
        BY DEF SrcTransition, SrcSoftReset, SrcHardReset, SrcRecover, portUnchanged
      <4>4. QED BY <3>3, <4>1, <4>2, <4>3 DEF Source
    <3>4. CASE Transceiver
      BY <3>4 DEF Transceiver, PhySent, PhyRetryFail, PhyHardSent, Overheat,
                  portUnchanged
    <3>5. CASE Application
      BY <3>5 DEF Application, MainBoot, ButtonPress, ButtonRelease, AskSourceCap,
                  TellPE
    <3>6. QED BY <1>2, <3>1, <3>2, <3>3, <3>4, <3>5
  <2>3. InHand' = InHand
    BY <2>1 DEF InHand
  <2>4. QED BY <2>1, <2>2, <2>3, BystanderMail DEF Mail
<1>3. QED BY <1>1, <1>2

\* The Policy Engine leaves a wait for an outcome when it has got one: with
\* reset signaling, which would make it go on at once, out of the way.
LEMMA PEMail == ASSUME IInv, HInv, Mail, PENext PROVE Mail'
<1>1. UNCHANGED tx /\ "RESET" \notin evt.PE /\ pe \in PEType /\ box \in BoxType
  BY PELeaves DEF peUnchanged, HInv, Calm, IInv, Policy, Kernel
<1>2. CASE PEGoes
  <2>1. pe.state \notin TxWaits /\ pe'.state \notin TxWaits
    BY <1>2 DEF PEGoes, Engaged
  <2>2. QED BY <1>1, <1>2, <2>1 DEF PEGoes, Mail
<1>3. CASE PERings
  BY <1>1, <1>3, BystanderMail DEF PERings, Outcome, Mail
<1>4. CASE PESends
  <2>1. /\ pe.state \notin TxWaits /\ pe'.state \in TxWaits
        /\ InHand' \in Buf /\ box' = Posted("TX", InHand') /\ fault' = fault
        /\ evt'.PE = evt.PE
    BY <1>4 DEF PESends, Engaged, Transmit, Signal, IInv, Kernel, EvtType
  <2>2. box.TX = <<>> /\ tx.message = NoBuf /\ evt.PE \cap Outcome = {}
    BY <2>1 DEF Mail
  <2>3. box'.TX = <<InHand'>>
    <3>1. Len(box.TX) < PoolSize
      BY <2>2, PoolAssumption
    <3>2. box'.TX = Append(box.TX, InHand')
      BY <1>1, <2>1, <3>1 DEF Posted, BoxType
    <3>3. QED BY <2>2, <3>2
  <2>4. QED BY <1>1, <2>1, <2>2, <2>3 DEF Mail
<1>5. CASE PELearns
  <2>1. /\ evt.PE \cap Outcome # {} /\ evt'.PE \cap Outcome = {}
        /\ UNCHANGED <<box, fault>>
    BY <1>5 DEF PELearns, Outcome, TxOutcome
  <2>2. box.TX = <<>> /\ tx.message = NoBuf
    BY <2>1 DEF Mail
  <2>3. QED BY <1>1, <2>1, <2>2 DEF Mail
<1>6. CASE HardReset \/ TransitionDefault
  <2>1. /\ pe.state \notin TxWaits /\ pe'.state \notin TxWaits
        /\ UNCHANGED <<box, fault>>
    BY <1>1, <1>6 DEF HardReset, TransitionDefault, At, Awake, Goto, PEType, TxWaits,
                      Sending, kernelVars
  <2>2. evt'.PE \subseteq evt.PE
    BY <1>6 DEF HardReset, TransitionDefault, Awake, Signal, kernelVars, IInv, Kernel,
                EvtType
  <2>3. QED BY <1>1, <2>1, <2>2 DEF Mail
<1>7. QED BY <1>1, <1>2, <1>3, <1>4, <1>5, <1>6, PEKind DEF PEStepKind

LEMMA InitMail == ASSUME Init PROVE Mail
BY DEF Init, PEInit, TXInit, Mail, Outcome

LEMMA StepMail == ASSUME IInv, OInv, HInv, Mail, [Next]_vars PROVE Mail'
<1>1. CASE UNCHANGED vars
  BY <1>1 DEF vars, kernelVars, Mail, InHand
<1>2. QED BY <1>1, PEMail, RXMail, TXMail, ElseMail DEF Next

\* The handshakes hold in every environment without hard resets of the source.
LEMMA Handshakes == QuietSource => (Spec => [](IInv /\ OInv /\ HInv /\ Mail))
<1> SUFFICES ASSUME QuietSource PROVE Spec => [](IInv /\ OInv /\ HInv /\ Mail)
  OBVIOUS
<1>1. Init => HInv /\ Mail
  BY InitHInv, InitMail
<1>2. IInv /\ OInv /\ HInv /\ Mail /\ [Next]_vars => (HInv /\ Mail)'
  BY StepHInv, StepMail
<1>3. QED BY <1>1, <1>2, Ownership, PTL DEF Spec

\* No message stays in the TX mailbox once the Policy Engine has gone on and
\* has freed it, if the source signals no hard reset.  (If it does, the Policy
\* Engine preempts the Hard Reset thread on RESET and frees a message that is
\* still in the mailbox, which protocol_tx.c never empties.)
THEOREM MailLives == QuietSource => (Spec => []TxMailLive)
<1> SUFFICES ASSUME QuietSource PROVE Spec => []TxMailLive
  OBVIOUS
<1>1. IInv /\ Mail => TxMailLive
  <2> SUFFICES ASSUME Mail, NEW i \in 1..Len(box.TX)
               PROVE  PEInTxWait /\ box.TX[i] \in {pe.request, pe.sending}
    BY DEF TxMailLive
  <2>1. box.TX = <<InHand>> /\ pe.state \in TxWaits
    BY DEF Mail
  <2>2. box.TX[i] = InHand
    BY <2>1
  <2>3. QED BY <2>1, <2>2, TxWaitStates DEF InHand
<1>2. QED BY <1>1, Handshakes, PTL

\* The only way out of what C defines is a pool that runs empty, if the source
\* signals no hard reset: no handler reads a null message, and the MessageID is
\* never written into a buffer that has been freed, which breaks the free list.
THEOREM OnlyPoolFaults == QuietSource => (Spec => [](fault \in {"none", "nullAlloc"}))
<1> SUFFICES ASSUME QuietSource PROVE Spec => [](fault \in {"none", "nullAlloc"})
  OBVIOUS
<1>1. IInv /\ OInv /\ Mail => fault \in {"none", "nullAlloc"}
  BY DEF IInv, Kernel, FaultType, OInv, Handlers, Mail
<1>2. QED BY <1>1, Handshakes, PTL

\* And it does not run empty while the Policy Engine keeps up: if the source
\* signals no hard reset, nothing undefined happens unless all but three of the
\* buffers wait in the Policy Engine's mailbox. With a pool of four that is one
\* message, and the run pool_exhausted shows that one is enough.
THEOREM KeepsUpNoFault ==
    QuietSource => (Spec => [](Len(box.PE) + 3 < PoolSize => NoFault))
<1> SUFFICES ASSUME QuietSource PROVE Spec => [](Len(box.PE) + 3 < PoolSize => NoFault)
  OBVIOUS
<1>1. IInv /\ OInv /\ Mail /\ EmptyMeansBehind
      => (Len(box.PE) + 3 < PoolSize => NoFault)
  <2> SUFFICES ASSUME IInv, OInv, Mail, EmptyMeansBehind, Len(box.PE) + 3 < PoolSize
               PROVE  NoFault
    OBVIOUS
  <2>1. fault \in {"none", "nullAlloc"}
    BY DEF IInv, Kernel, FaultType, OInv, Handlers, Mail
  <2>2. box.PE \in Seq(Buf)
    BY DEF IInv, Kernel, BoxType
  <2>3. Len(box.PE) \in Nat /\ PoolSize \in Nat
    BY <2>2, PoolAssumption
  <2>4. fault # "nullAlloc"
    BY <2>3 DEF EmptyMeansBehind
  <2>5. QED BY <2>1, <2>4 DEF NoFault
<1>2. QED BY <1>1, Handshakes, PoolEmptiesBehind, PTL
=============================================================================
