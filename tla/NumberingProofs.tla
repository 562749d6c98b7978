--------------------------- MODULE NumberingProofs ---------------------------
(***************************************************************************)
(* Proofs about the MessageIDs of what the sink sends in PDStack: between  *)
(* the moments at which either partner forgets them, a new message has a   *)
(* new MessageID, however many transmissions fail, are discarded or time   *)
(* out.  The counter is written by three threads and counted by a fourth   *)
(* party, the source, which has heard a failed message or has not.         *)
(***************************************************************************)
EXTENDS HandshakeProofs

\* The environment: a source that starts no reset, soft or hard.  A freed
\* buffer does not read as a Soft_Reset, and there are at least two MessageIDs.
NoResets ==
    /\ QuietSource /\ "SoftReset" \notin SrcStarts
    /\ Junk.type # "SoftReset" /\ IdMod > 1

-----------------------------------------------------------------------------
(* The inductive invariant.                                                *)
\* The FUSB302B sends nothing, or a hard reset ends what it sends.
Hushed == phy.hard \/ phy.air = Nil

\* MessageID n is new to the source; it has heard the current one.
Follows(n) == src.seen = -1 \/ (src.seen + 1) % IdMod = n
Heard == phy.hard \/ src.seen \in {-1, tx.counter}

\* The only Soft_Reset anywhere is the one the Policy Engine is sending.
NoSoftReset ==
    /\ \A i \in 1..Len(src.out) : src.out[i] # "SoftReset"
    /\ \A i \in 1..Len(phy.fifo) : phy.fifo[i].type # "SoftReset"
    /\ rx.state \notin {"PRLRxReset", "PRLRxResetYielded"}
    /\ \A b \in Buf : mem[b].type = "SoftReset" =>
          pe.state = "PESinkSendSoftResetTx" /\ b = pe.sending
    /\ pe.state = "PESinkSendSoftResetTx" => mem[pe.sending].type = "SoftReset"
    /\ tx.state = "PRLTxReset" => pe.state = "PESinkSendSoftResetTx"

\* The Policy Engine knows, or is about to, that the source may or may not have
\* heard the last message, and resets before it sends another one.
Troubled ==
    \/ pe.state \in {"PESinkSendSoftReset", "PESinkHardReset", "PESinkHardResetSent",
                     "PESinkSourceUnresponsive"}
    \/ pe.state = "PESinkSendSoftResetTx" /\ "TX_DONE" \notin evt.PE
    \/ "TX_ERR" \in evt.PE /\ "TX_DONE" \notin evt.PE

\* What is in the air is new to the source, and the TX thread waits for what
\* becomes of it or is about to flush it.
OnAir ==
    /\ Hushed \/ phy.air.type = "SoftReset" \/ phy.air.id # src.seen
    /\ \/ Hushed
       \/ /\ tx.state = "PRLTxWaitResponse" /\ phy.air.id = tx.counter
          /\ Verdict = {}
       \/ tx.state \in {"PRLTxDiscardMessage", "PRLTxPHYReset"} /\ tx.message # NoBuf

\* The message about to be sent has the current MessageID, and one that has
\* been sent has been heard.
Flight ==
    /\ tx.state \in {"PRLTxSinkTx", "PRLTxSend"} => mem[tx.message].id = tx.counter
    /\ tx.state = "PRLTxWaitResponse" /\ "I_TXSENT" \in Verdict => Heard
    /\ tx.state \in {"PRLTxMatchMessageID", "PRLTxMessageSent"} => Heard

\* Before a message is sent the counter is new to the source, unless a reset
\* comes first.
Unsent == \/ tx.message = NoBuf
          \/ tx.state \in {"PRLTxConstructMessage", "PRLTxSinkTx", "PRLTxSend"}
InStep == ~Troubled /\ Unsent => phy.hard \/ Follows(tx.counter)

\* The hard reset of which the Policy Engine is told is sent, or about to be:
\* the source has forgotten, or is about to forget, every MessageID.
Forgotten ==
    /\ pe.state = "PESinkHardResetSent"
    /\ "HARD_SENT" \in evt.PE \/ hr.state \in {"PRLHRWaitPHY", "PRLHRHardResetRequested"}
    => phy.hard \/ src.seen = -1

Counting == OnAir /\ Flight /\ InStep /\ Forgotten
Numbering == NoSoftReset /\ Counting

-----------------------------------------------------------------------------
(* The Policy Engine.                                                      *)

\* Which states a handler acts in.
LEMMA Homes ==
    ASSUME PENext, ~PpsTimer
    PROVE  \/ Startup /\ pe.state = "PESinkStartup"
           \/ Discovery /\ pe.state = "PESinkDiscovery"
           \/ WaitCap /\ pe.state = "PESinkWaitCap"
           \/ EvalCap /\ pe.state = "PESinkEvalCap"
           \/ SelectCap /\ pe.state \in {"PESinkSelectCap", "PESinkSelectCapTx",
                                        "PESinkSelectCapRx"}
           \/ TransitionSink /\ pe.state = "PESinkTransitionSink"
           \/ Ready /\ pe.state = "PESinkReady"
           \/ GetSourceCap /\ pe.state \in {"PESinkGetSourceCap", "PESinkGetSourceCapTx"}
           \/ GiveSinkCap /\ pe.state \in {"PESinkGiveSinkCap", "PESinkGiveSinkCapTx"}
           \/ HardReset /\ pe.state \in {"PESinkHardReset", "PESinkHardResetSent"}
           \/ TransitionDefault /\ pe.state = "PESinkTransitionDefault"
           \/ SoftReset /\ pe.state \in {"PESinkSoftReset", "PESinkSoftResetTx"}
           \/ SendSoftReset /\ pe.state \in {"PESinkSendSoftReset",
                                 "PESinkSendSoftResetTx", "PESinkSendSoftResetRx"}
           \/ SendNotSupported /\ pe.state \in {"PESinkSendNotSupported",
                                                "PESinkSendNotSupportedTx"}
           \/ ChunkReceived /\ pe.state = "PESinkChunkReceived"
           \/ NotSupportedReceived /\ pe.state = "PESinkNotSupportedReceived"
           \/ SourceUnresponsive /\ pe.state = "PESinkSourceUnresponsive"
<1>1. ASSUME NEW s, NEW urgent, NEW b, Fetch(s, urgent, b) PROVE pe.state = s
  BY <1>1 DEF Fetch, Awake, At
<1>2. ASSUME NEW s, NEW urgent, NEW types, NEW next, NEW p,
             Consume(s, urgent, types, next, p)
      PROVE  pe.state = s
  BY <1>1, <1>2 DEF Consume
<1>3. ASSUME NEW s, NEW next, OnReset(s) \/ TimesOut(s, next) PROVE pe.state = s
  BY <1>3 DEF OnReset, TimesOut, Awake, At
<1>4. ASSUME NEW s, NEW type, NEW wait, SendNew(s, type, wait) PROVE pe.state = s
  BY <1>4 DEF SendNew, At
<1>5. ASSUME NEW s, NEW done, NEW failed, SentOr(s, done, failed) PROVE pe.state = s
  BY <1>5 DEF SentOr, Sent, Awake, At
<1>6. WaitCap => pe.state = "PESinkWaitCap"
  BY <1>1, <1>2, <1>3, Zenon DEF WaitCap, Awake, At
<1>7. EvalCap => pe.state = "PESinkEvalCap"
  BY Zenon DEF EvalCap, At
<1>8. SelectCap => pe.state \in {"PESinkSelectCap", "PESinkSelectCapTx", "PESinkSelectCapRx"}
  BY <1>2, <1>3 DEF SelectCap, SelectCapSend, SelectCapSent, SelectCapAnswer, Awake, At
<1>9. TransitionSink => pe.state = "PESinkTransitionSink"
  BY <1>2, <1>3 DEF TransitionSink
<1>10. Ready => pe.state = "PESinkReady"
  BY <1>1, <1>2, <1>3, Zenon DEF Ready, ReadyStarts, ReadyWakes, ReadyFrees, Awake, At
<1>11. /\ GetSourceCap => pe.state \in {"PESinkGetSourceCap", "PESinkGetSourceCapTx"}
       /\ GiveSinkCap => pe.state \in {"PESinkGiveSinkCap", "PESinkGiveSinkCapTx"}
       /\ SoftReset => pe.state \in {"PESinkSoftReset", "PESinkSoftResetTx"}
       /\ SendNotSupported => pe.state \in {"PESinkSendNotSupported",
                                             "PESinkSendNotSupportedTx"}
  BY <1>4, <1>5 DEF GetSourceCap, GiveSinkCap, SoftReset, SendNotSupported
<1>12. SendSoftReset => pe.state \in {"PESinkSendSoftReset", "PESinkSendSoftResetTx",
                                      "PESinkSendSoftResetRx"}
  BY <1>2, <1>3, <1>4, <1>5 DEF SendSoftReset
<1>13. ChunkReceived => pe.state = "PESinkChunkReceived"
  BY <1>3 DEF ChunkReceived
<1>14. HardReset => pe.state \in {"PESinkHardReset", "PESinkHardResetSent"}
  BY DEF HardReset, Awake, At
<1>15. /\ Startup => pe.state = "PESinkStartup"
       /\ Discovery => pe.state = "PESinkDiscovery"
       /\ TransitionDefault => pe.state = "PESinkTransitionDefault"
       /\ NotSupportedReceived => pe.state = "PESinkNotSupportedReceived"
       /\ SourceUnresponsive => pe.state = "PESinkSourceUnresponsive"
  BY DEF Startup, Discovery, TransitionDefault, NotSupportedReceived, SourceUnresponsive, At
<1>16. QED BY <1>6, <1>7, <1>8, <1>9, <1>10, <1>11, <1>12, <1>13, <1>14, <1>15 DEF PENext
\* While the outcome of a transmission is not known, nothing but the PPS timer
\* happens in the Policy Engine.
LEMMA HandsOff ==
    ASSUME PENext, pe.state \in TxWaits, evt.PE \cap TxOutcome = {}
    PROVE  PpsTimer
<1> SUFFICES ASSUME ~PpsTimer PROVE FALSE
  OBVIOUS
<1>1. ~Awake(pe.state)
  BY DEF Awake, TxWaits, Sending, WaitMask
<1>2. ASSUME NEW s, NEW type, NEW wait, SendNew(s, type, wait) PROVE pe.state = s
  BY <1>2 DEF SendNew, At
<1>3. ASSUME NEW s, NEW done, NEW failed, SentOr(s, done, failed)
      PROVE  pe.state = s /\ Awake(s)
  BY <1>3 DEF SentOr, Sent, Awake, At
<1>4. ~SelectCap
  BY <1>1 DEF SelectCap, SelectCapSend, SelectCapSent, SelectCapAnswer, OnReset, TimesOut,
     Consume, Fetch, Awake, At, TxWaits, Sending
<1>5. ~GetSourceCap /\ ~GiveSinkCap /\ ~SoftReset /\ ~SendNotSupported
  BY <1>1, <1>2, <1>3 DEF GetSourceCap, GiveSinkCap, SoftReset, SendNotSupported, TxWaits,
     Sending
<1>6. ~SendSoftReset
  BY <1>1, <1>2, <1>3 DEF SendSoftReset, OnReset, TimesOut, Consume, Fetch, Awake, At,
     TxWaits, Sending
<1>7. QED BY <1>4, <1>5, <1>6, Homes DEF TxWaits, Sending

\* The states in which it is sending no Soft_Reset.
Others == PEState \ {"PESinkSendSoftResetTx"}

\* The steps in which it has to do with a Soft_Reset message.
SendsIt == SendNew("PESinkSendSoftReset", "SoftReset", "PESinkSendSoftResetTx")
LearnsIt == SentOr("PESinkSendSoftResetTx", "PESinkSendSoftResetRx", "PESinkHardReset")

\* Every other step leaves the state alone in which it sends one, and writes
\* no Soft_Reset into a buffer.
NoneSent ==
    /\ pe.state \in Others /\ pe'.state \in Others
    /\ \A b \in Buf : mem'[b].type = "SoftReset" => mem[b].type = "SoftReset"

LEMMA PEWrites ==
    ASSUME NoResets, IInv, PENext
    PROVE  PpsTimer \/ SendsIt \/ LearnsIt \/ NoneSent
<1>0. mem \in MemType /\ pe \in PEType /\ pool \in Seq(Buf)
  BY DEF IInv, Kernel, Policy
<1> DEFINE Kept == \A b \in Buf : mem'[b].type = "SoftReset" => mem[b].type = "SoftReset"
<1>00. /\ {"PESinkStartup", "PESinkDiscovery", "PESinkWaitCap", "PESinkEvalCap",
          "PESinkHardReset", "PESinkSoftReset", "PESinkTransitionDefault"} \subseteq Others
      /\ {"PESinkSelectCap", "PESinkSelectCapTx", "PESinkSelectCapRx", "PESinkReady",
          "PESinkTransitionSink", "PESinkSendSoftReset", "PESinkSendSoftResetRx"}
         \subseteq Others
      /\ {"PESinkGetSourceCap", "PESinkGiveSinkCap", "PESinkSendNotSupported",
          "PESinkChunkReceived", "PESinkNotSupportedReceived"} \subseteq Others
      /\ {"PESinkHardResetSent", "PESinkSourceUnresponsive", "PESinkGetSourceCapTx",
          "PESinkGiveSinkCapTx", "PESinkSoftResetTx", "PESinkSendNotSupportedTx"}
         \subseteq Others
  BY DEF Others, PEState
<1>1. ASSUME NEW c, Freed(c) PROVE Kept
  BY <1>0, <1>1 DEF Freed, MemType, NoResets
<1>2. ASSUME NEW s \in Others, NEW type, type # "SoftReset", NEW wait \in Others,
             SendNew(s, type, wait)
      PROVE  NoneSent
  <2>1. CASE pool = <<>>
    BY <1>2, <2>1 DEF SendNew, Fault, At, NoneSent
  <2>2. CASE pool # <<>>
    <3>1. /\ mem' = [mem EXCEPT ![Head(pool)] = Message(type, 0)]
          /\ pe' = [pe EXCEPT !.state = wait, !.sending = Head(pool)]
          /\ pe.state = s
      BY <1>2, <2>2 DEF SendNew, At
    <3>2. Message(type, 0).type = type
      BY DEF Message
    <3>3. QED BY <1>0, <1>2, <3>1, <3>2 DEF MemType, PEType, NoneSent
  <2>3. QED BY <2>1, <2>2
<1>3. ASSUME NEW s \in Others, NEW done \in Others, NEW failed \in Others,
             SentOr(s, done, failed)
      PROVE  NoneSent
  <2>1. /\ Freed(pe.sending) /\ pe.state = s
        /\ \E next \in {done, failed, "PESinkTransitionDefault"} :
              pe' = [pe EXCEPT !.state = next, !.sending = NoBuf]
    BY <1>3 DEF SentOr, Sent, Awake, At
  <2>2. pe'.state \in Others
    BY <1>0, <1>00, <1>3, <2>1 DEF PEType
  <2>3. QED BY <1>1, <1>3, <2>1, <2>2 DEF NoneSent
<1>4. ASSUME NEW s \in Others, NEW urgent, NEW types, NEW next \in Others,
             NEW p \in PEType, Consume(s, urgent, types, next, p)
      PROVE  NoneSent
  <2>1. PICK c \in Buf : /\ Freed(c) /\ Fetch(s, urgent, c)
                         /\ pe' = [p EXCEPT !.state = next, !.message = NoBuf]
    BY <1>4, Zenon DEF Consume
  <2>2. pe'.state = next
    BY <1>4, <2>1 DEF PEType
  <2>3. QED BY <1>1, <1>4, <2>1, <2>2 DEF NoneSent, Fetch, Awake, At
<1>5. /\ \A s \in Others : OnReset(s) => NoneSent
      /\ \A s, next \in Others : TimesOut(s, next) => NoneSent
  BY <1>0, <1>00 DEF OnReset, TimesOut, Goto, Awake, At, kernelVars, PEType, NoneSent
<1>6. ASSUME mem' = mem, pe.state \in Others, pe'.state \in Others PROVE NoneSent
  BY <1>6 DEF NoneSent
<1>7. CASE Startup \/ Discovery \/ HardReset \/ TransitionDefault \/ NotSupportedReceived
           \/ SourceUnresponsive
  <2>1. /\ mem' = mem
        /\ pe.state \in {"PESinkStartup", "PESinkDiscovery", "PESinkHardReset",
                         "PESinkHardResetSent", "PESinkTransitionDefault",
                         "PESinkNotSupportedReceived", "PESinkSourceUnresponsive"}
    BY <1>7 DEF Startup, Discovery, HardReset, TransitionDefault, NotSupportedReceived,
       SourceUnresponsive, Awake, At, kernelVars
  <2>2. pe'.state \in {"PESinkDiscovery", "PESinkWaitCap", "PESinkSourceUnresponsive", "PESinkStartup",
                       "PESinkHardResetSent", "PESinkTransitionDefault", "PESinkReady"}
    <3>1. SourceUnresponsive => pe'.state = pe.state
      BY <1>0 DEF SourceUnresponsive, PEType
    <3>2. HardReset => pe'.state \in {"PESinkSourceUnresponsive", "PESinkHardResetSent",
                                      "PESinkTransitionDefault"}
      BY <1>0 DEF HardReset, Goto, PEType
    <3>3. SourceUnresponsive => pe.state = "PESinkSourceUnresponsive"
      BY DEF SourceUnresponsive, At
    <3>4. QED BY <1>0, <1>7, <3>1, <3>2, <3>3 DEF Startup, Discovery, TransitionDefault,
              NotSupportedReceived, Goto, PEType
  <2>3. QED BY <1>00, <1>6, <2>1, <2>2
<1>8. CASE WaitCap
  <2>1. \/ NoneSent
        \/ mem' = mem /\ pe' = pe /\ pe.state = "PESinkWaitCap"
        \/ \E b \in Buf : /\ mem' = mem /\ pe.state = "PESinkWaitCap"
                          /\ pe' = [pe EXCEPT !.state = "PESinkEvalCap", !.message = b,
                                              !.rev = IF @ = 1 THEN SrcRev ELSE @]
        \/ \E b \in Buf : /\ Freed(b) /\ pe.state = "PESinkWaitCap"
                          /\ pe' = [pe EXCEPT !.state = "PESinkHardReset", !.message = b]
    BY <1>0, <1>00, <1>4, <1>5, <1>8, Zenon DEF WaitCap, Fetch, Awake, At
  <2>2. ASSUME NEW b, NEW r, pe' = [pe EXCEPT !.state = "PESinkEvalCap", !.message = b, !.rev = r]
        PROVE  pe'.state = "PESinkEvalCap"
    BY <1>0, <2>2 DEF PEType
  <2>3. ASSUME NEW b, pe' = [pe EXCEPT !.state = "PESinkHardReset", !.message = b]
        PROVE  pe'.state = "PESinkHardReset"
    BY <1>0, <2>3 DEF PEType
  <2>4. QED BY <1>00, <1>1, <1>6, <2>1, <2>2, <2>3 DEF NoneSent
<1>9. CASE EvalCap
  <2> DEFINE new == pe.message # NoBuf
             caps == IF new THEN pe.message ELSE dpm.caps
             req == IF pe.request = NoBuf THEN Head(pool) ELSE pe.request
             offer == OfferIn(mem[caps])
             first == IF new THEN FirstPps(offer) ELSE pe.ppsIndex
             last == IF pe.request = NoBuf THEN IF new THEN NoPps ELSE pe.lastPps
                     ELSE IF mem[pe.request].obj >= first THEN mem[pe.request].obj
                     ELSE NoPps
             cfgState == IF button.state <= 3 THEN button.state ELSE 0
             e == Evaluation(Scfg, OutputEnabled, offer, cfgState)
             old == new /\ dpm.caps # NoBuf
  <2>1. pe.state = "PESinkEvalCap"
    BY <1>9, Zenon DEF EvalCap, At
  <2>2. CASE UNCHANGED <<mem, pe>>
    BY <1>00, <1>6, <2>1, <2>2
  <2>3. CASE ~UNCHANGED <<mem, pe>>
    <3>1. /\ ~(pe.request = NoBuf /\ pool = <<>>)
          /\ ~(pe.message = NoBuf /\ dpm.caps = NoBuf)
      <4>1. ~Fault("nullAlloc") /\ ~Fault("nullMessage")
        BY <2>3 DEF Fault
      <4>2. QED BY <1>9, <4>1, SMT DEF EvalCap
    <3>2. /\ mem' = [b \in Buf |-> IF b = req THEN Message("Request", e.pos)
                                   ELSE IF old /\ b = dpm.caps THEN Junk ELSE mem[b]]
          /\ pe' = [pe EXCEPT !.state = "PESinkSelectCap", !.message = NoBuf,
                              !.request = req, !.ppsIndex = first, !.lastPps = last]
      BY <1>9, <3>1, Zenon DEF EvalCap, At
    <3>3. Message("Request", e.pos).type = "Request"
      BY DEF Message
    <3> HIDE DEF new, caps, req, offer, first, last, cfgState, e, old
    <3>4. pe'.state = "PESinkSelectCap"
      BY <1>0, <3>2 DEF PEType
    <3>5. QED BY <1>00, <2>1, <3>2, <3>3, <3>4 DEF NoneSent, NoResets
  <2>4. QED BY <2>2, <2>3
<1>10. CASE SelectCap
  <2>1. /\ [pe EXCEPT !.minPower = FALSE] \in PEType
        /\ \A t : [pe EXCEPT !.minPower = (t = "Wait")] \in PEType
    BY <1>0 DEF PEType
  <2>2. SelectCapSend \/ SelectCapSent => NoneSent
    BY <1>0, <1>00, <1>6 DEF SelectCapSend, SelectCapSent, Goto, Awake, At, PEType
  <2>5. SelectCapAnswer => NoneSent
    <3>1. CASE \E t \in {"Reject", "Wait"} :
                 Consume("PESinkSelectCapRx", {"RESET"}, {t}, "PESinkReady",
                         [pe EXCEPT !.minPower = (t = "Wait")])
      <4>1. PICK t : Consume("PESinkSelectCapRx", {"RESET"}, {t}, "PESinkReady",
                             [pe EXCEPT !.minPower = (t = "Wait")])
        BY <3>1
      <4> DEFINE q == [pe EXCEPT !.minPower = (t = "Wait")]
      <4>2. q \in PEType
        BY <2>1
      <4>3. Consume("PESinkSelectCapRx", {"RESET"}, {t}, "PESinkReady", q)
        BY <4>1
      <4> HIDE DEF q
      <4>4. QED BY <1>00, <1>4, <4>2, <4>3
    <3>2. CASE \/ Consume("PESinkSelectCapRx", {"RESET"}, {"Accept"}, "PESinkTransitionSink",
                          [pe EXCEPT !.minPower = FALSE])
               \/ Consume("PESinkSelectCapRx", {"RESET"}, {"SoftReset"}, "PESinkSoftReset", pe)
               \/ Consume("PESinkSelectCapRx", {"RESET"}, {"Reject", "Wait"}, "PESinkWaitCap", pe)
               \/ Consume("PESinkSelectCapRx", {"RESET"},
                          MsgType \ {"Accept", "SoftReset", "Reject", "Wait"},
                          "PESinkSendSoftReset", pe)
      BY <1>0, <1>00, <1>4, <2>1, <3>2, Zenon
    <3>3. QED BY <3>1, <3>2, Zenon DEF SelectCapAnswer
  <2>6. QED BY <1>00, <1>5, <1>10, <2>2, <2>5 DEF SelectCap
<1>11. CASE TransitionSink
  <2>1. [pe EXCEPT !.contract = TRUE] \in PEType
    BY <1>0 DEF PEType
  <2>2. QED BY <1>0, <1>00, <1>4, <1>5, <1>11, <2>1, Zenon DEF TransitionSink
<1>12. CASE Ready
  <2>1. [pe EXCEPT !.minPower = TRUE] \in PEType
    BY <1>0 DEF PEType
  <2>2. ASSUME NEW flag, NEW above, NEW next \in Others, ReadyStarts(flag, above, next)
        PROVE  NoneSent
    <3>1. (mem' = mem \/ Freed(pe.message)) /\ pe.state \in Others /\ pe'.state = next
      BY <1>0, <1>00, <2>2 DEF ReadyStarts, At, PEType
    <3>2. QED BY <1>1, <2>2, <3>1 DEF NoneSent
  <2>3. \/ NoneSent
        \/ mem' = mem /\ pe.state = "PESinkReady" /\ pe' = [pe EXCEPT !.state = "PESinkHardReset"]
        \/ \E b \in Buf : /\ mem' = mem /\ pe.state = "PESinkReady"
                          /\ pe' = [pe EXCEPT !.state = "PESinkEvalCap", !.message = b]
    BY <1>0, <1>00, <1>4, <1>5, <1>12, <2>1, <2>2, Zenon
       DEF Ready, ReadyFrees, ReadyWakes, Goto, Fetch, Awake, At
  <2>4. ASSUME NEW b, pe' = [pe EXCEPT !.state = "PESinkEvalCap", !.message = b]
        PROVE  pe'.state = "PESinkEvalCap"
    BY <1>0, <2>4 DEF PEType
  <2>5. pe' = [pe EXCEPT !.state = "PESinkHardReset"] => pe'.state = "PESinkHardReset"
    BY <1>0 DEF PEType
  <2>6. QED BY <1>00, <1>6, <2>3, <2>4, <2>5
<1>13. CASE GetSourceCap \/ GiveSinkCap \/ SoftReset \/ SendNotSupported
  BY <1>00, <1>2, <1>3, <1>13 DEF GetSourceCap, GiveSinkCap, SoftReset, SendNotSupported
<1>14. CASE SendSoftReset
  BY <1>0, <1>00, <1>4, <1>5, <1>14 DEF SendSoftReset, SendsIt, LearnsIt
<1>15. CASE ChunkReceived
  BY <1>00, <1>5, <1>15 DEF ChunkReceived
<1>16. QED BY <1>7, <1>8, <1>9, <1>10, <1>11, <1>12, <1>13, <1>14, <1>15 DEF PENext

\* It tells the TX thread of no outcome, and it does not move the source.
LEMMA PEAloof == ASSUME IInv, PENext PROVE src' = src /\ Verdict' = Verdict
<1> DEFINE Same == evt'.TX \cap {"I_TXSENT", "I_RETRYFAIL"} = evt.TX \cap {"I_TXSENT", "I_RETRYFAIL"}
<1> SUFFICES src' = src /\ Same
  BY PELeaves DEF Verdict, peUnchanged
<1>0. evt \in EvtType
  BY DEF IInv, Kernel
<1> USE DEF partnerVars
<1>1. ASSUME NEW s, Awake(s) PROVE Same
  BY <1>0, <1>1 DEF Awake, EvtType
<1>2. ASSUME NEW t, NEW x, t # "TX" \/ x = {"MSG_TX"}, Signal(t, x) PROVE Same
  BY <1>0, <1>2 DEF Signal, EvtType
<1>3. ASSUME NEW s, NEW urgent, NEW b, Fetch(s, urgent, b) PROVE src' = src /\ Same
  BY <1>1, <1>3 DEF Fetch
<1>4. ASSUME NEW s, NEW urgent, NEW types, NEW next, NEW p,
             Consume(s, urgent, types, next, p)
      PROVE  src' = src /\ Same
  <2>1. PICK b \in Buf : Fetch(s, urgent, b)
    BY <1>4, Zenon DEF Consume
  <2>2. QED BY <1>3, <2>1
<1>5. ASSUME NEW s, OnReset(s) PROVE src' = src /\ Same
  BY <1>1, <1>5 DEF OnReset
<1>6. ASSUME NEW s, NEW next, TimesOut(s, next) PROVE src' = src /\ Same
  BY <1>6 DEF TimesOut, kernelVars
<1>7. ASSUME NEW s, NEW type, NEW wait, SendNew(s, type, wait) PROVE src' = src /\ Same
  <2>1. SendNew(s, type, wait) => src' = src /\ (UNCHANGED evt \/ Signal("TX", {"MSG_TX"}))
    BY DEF SendNew, Fault, Transmit
  <2>2. QED BY <1>2, <1>7, <2>1
<1>8. ASSUME NEW s, NEW done, NEW failed, SentOr(s, done, failed) PROVE src' = src /\ Same
  BY <1>1, <1>8 DEF SentOr, Sent
<1>9. CASE WaitCap
  BY <1>1, <1>3, <1>4, <1>5, <1>6, <1>9, Zenon DEF WaitCap
<1>10. CASE EvalCap
  <2>1. UNCHANGED <<evt, src>>
    BY <1>10, Zenon DEF EvalCap, Fault
  <2>2. QED BY <2>1
<1>11. CASE SelectCap
  <2>1. SelectCapSend \/ SelectCapSent => src' = src /\ Same
    BY <1>1, <1>2 DEF SelectCapSend, SelectCapSent, Transmit
  <2>2. SelectCapAnswer => src' = src /\ Same
    BY <1>4, Zenon DEF SelectCapAnswer
  <2>3. QED BY <1>5, <1>6, <1>11, <2>1, <2>2, Zenon DEF SelectCap
<1>12. CASE TransitionSink
  BY <1>4, <1>5, <1>6, <1>12, Zenon DEF TransitionSink
<1>13. CASE Ready
  <2>1. ASSUME NEW flag, NEW above, NEW next, ReadyStarts(flag, above, next)
        PROVE  src' = src /\ Same
    BY <1>0, <2>1 DEF ReadyStarts, EvtType
  <2>2. QED BY <1>1, <1>3, <1>4, <1>5, <1>6, <1>13, <2>1, Zenon
            DEF Ready, ReadyFrees, ReadyWakes
<1>14. CASE GetSourceCap \/ GiveSinkCap \/ SoftReset \/ SendNotSupported
  BY <1>7, <1>8, <1>14 DEF GetSourceCap, GiveSinkCap, SoftReset, SendNotSupported
<1>15. CASE SendSoftReset
  BY <1>4, <1>5, <1>6, <1>7, <1>8, <1>15, Zenon DEF SendSoftReset
<1>16. CASE ChunkReceived
  BY <1>5, <1>6, <1>16 DEF ChunkReceived
<1>17. CASE HardReset \/ TransitionDefault
  BY <1>1, <1>2, <1>17 DEF HardReset, TransitionDefault, kernelVars
<1>18. CASE Startup \/ Discovery \/ NotSupportedReceived \/ SourceUnresponsive
  BY <1>18 DEF Startup, Discovery, NotSupportedReceived, SourceUnresponsive, kernelVars
<1>19. CASE PpsTimer
  BY <1>0, <1>19 DEF PpsTimer, EvtType
<1>20. QED
  BY <1>9, <1>10, <1>11, <1>12, <1>13, <1>14, <1>15, <1>16, <1>17, <1>18, <1>19 DEF PENext

\* A handler that fails resets before it sends anything else: it leaves trouble
\* behind only by the hard reset that ends it.
LEMMA TroubleStays ==
    ASSUME IInv, HInv, Mail, PENext, Troubled
    PROVE  Troubled' \/ (pe.state = "PESinkHardResetSent" /\ "HARD_SENT" \in evt.PE)
<1>0. pe \in PEType /\ evt \in EvtType
  BY DEF IInv, Kernel, Policy
<1>1. CASE PpsTimer
  BY <1>0, <1>1 DEF PpsTimer, Troubled, PEType, EvtType
<1>2. CASE ~PpsTimer /\ pe.state = "PESinkSendSoftReset"
  <2>1. SendNew("PESinkSendSoftReset", "SoftReset", "PESinkSendSoftResetTx")
    BY <1>2, Homes DEF SendSoftReset, SentOr, Sent, OnReset, TimesOut, Consume, Fetch,
       Awake, At
  <2>2. CASE pool = <<>>
    BY <1>2, <2>1, <2>2 DEF SendNew, Fault, Troubled
  <2>3. CASE pool # <<>>
    <3>1. pe'.state = "PESinkSendSoftResetTx" /\ evt'.PE = evt.PE
      BY <1>0, <2>1, <2>3 DEF SendNew, Transmit, Signal, PEType, EvtType
    <3>2. "TX_DONE" \notin evt.PE
      BY <1>2 DEF Mail, Outcome, TxWaits, Sending
    <3>3. QED BY <3>1, <3>2 DEF Troubled
  <2>4. QED BY <2>2, <2>3
<1>3. CASE ~PpsTimer /\ pe.state \in {"PESinkHardReset", "PESinkHardResetSent"}
  <2>1. HardReset
    BY <1>3, Homes
  <2>2. pe.state = "PESinkHardReset" =>
          pe'.state \in {"PESinkSourceUnresponsive", "PESinkHardResetSent"}
    BY <1>0, <2>1 DEF HardReset, Goto, Awake, At, PEType
  <2>3. pe.state = "PESinkHardResetSent" => "HARD_SENT" \in evt.PE
    BY <2>1 DEF HardReset, Awake, At, WaitMask
  <2>4. QED BY <1>3, <2>2, <2>3 DEF Troubled
<1>4. CASE ~PpsTimer /\ pe.state = "PESinkSourceUnresponsive"
  <2>1. SourceUnresponsive
    BY <1>4, Homes
  <2>2. pe'.state = pe.state
    BY <1>0, <2>1 DEF SourceUnresponsive, PEType
  <2>3. QED BY <1>4, <2>2 DEF Troubled
<1>5. CASE /\ ~PpsTimer /\ pe.state \in TxWaits /\ "TX_DONE" \notin evt.PE
  <2>1. "RESET" \notin evt.PE
    BY DEF HInv, Calm
  <2>2. ~GotReset /\ ~GotDone /\ ~ \E s : OnReset(s)
    BY <1>5, <2>1 DEF GotReset, GotDone, OnReset
  <2>3. ASSUME NEW s, NEW done, NEW failed, SentOr(s, done, failed) PROVE pe'.state = failed
    BY <1>0, <2>2, <2>3 DEF SentOr, Sent, PEType
  <2>4. ASSUME NEW s, NEW type, NEW wait, SendNew(s, type, wait) PROVE pe.state = s
    BY <2>4 DEF SendNew, At
  <2>5. pe.state = "PESinkSelectCapTx" => pe'.state = "PESinkHardReset"
    <3>1. pe.state = "PESinkSelectCapTx" => SelectCapSent
      BY <1>5, <2>2, Homes DEF SelectCap, SelectCapSend, SelectCapAnswer, TimesOut, Consume,
         Fetch, Awake, At
    <3>2. SelectCapSent => pe'.state = "PESinkHardReset"
      BY <1>0, <2>2 DEF SelectCapSent, PEType
    <3>3. QED BY <3>1, <3>2
  <2>6. /\ pe.state = "PESinkGetSourceCapTx" => pe'.state = "PESinkHardReset"
        /\ pe.state = "PESinkGiveSinkCapTx" => pe'.state = "PESinkHardReset"
        /\ pe.state = "PESinkSoftResetTx" => pe'.state = "PESinkHardReset"
        /\ pe.state = "PESinkSendNotSupportedTx" => pe'.state = "PESinkSendSoftReset"
    BY <1>5, <2>3, <2>4, Homes DEF GetSourceCap, GiveSinkCap, SoftReset, SendNotSupported
  <2>7. pe.state = "PESinkSendSoftResetTx" => pe'.state = "PESinkHardReset"
    <3>1. pe.state = "PESinkSendSoftResetTx" => LearnsIt
      BY <1>5, <2>2, <2>4, Homes DEF SendSoftReset, LearnsIt, TimesOut, Consume, Fetch, Awake, At
    <3>2. QED BY <2>3, <3>1 DEF LearnsIt
  <2>8. pe'.state \in {"PESinkHardReset", "PESinkSendSoftReset"}
    BY <1>5, <2>5, <2>6, <2>7 DEF TxWaits, Sending
  <2>9. QED BY <2>8 DEF Troubled
<1>6. "TX_ERR" \in evt.PE => pe.state \in TxWaits
  BY DEF Mail, Outcome
<1>7. "PESinkSendSoftResetTx" \in TxWaits
  BY DEF TxWaits, Sending
<1>8. QED BY <1>1, <1>2, <1>3, <1>4, <1>5, <1>6, <1>7 DEF Troubled

-----------------------------------------------------------------------------
(* The steps.                                                              *)
Told == {"TX_DONE", "TX_ERR", "HARD_SENT"}

\* A step that neither sends, counts nor resets anything.
LEMMA BystanderCounts ==
    ASSUME Counting, UNCHANGED tx, hr'.state = hr.state, pe'.state = pe.state,
           phy'.air = phy.air, phy'.hard = phy.hard, src'.seen = src.seen,
           Verdict' = Verdict, evt'.PE \cap Told = evt.PE \cap Told,
           tx.state \in {"PRLTxSinkTx", "PRLTxSend"}
             => mem'[tx.message].id = mem[tx.message].id
    PROVE  Counting'
<1>1. Hushed' = Hushed /\ Heard' = Heard /\ Unsent' = Unsent
      /\ \A n : Follows(n)' = Follows(n)
  BY DEF Hushed, Heard, Unsent, Follows
<1>2. Troubled' = Troubled /\ ("HARD_SENT" \in evt'.PE <=> "HARD_SENT" \in evt.PE)
  BY DEF Troubled, Told
<1>3. OnAir'
  BY <1>1 DEF Counting, OnAir
<1>4. Flight'
  BY <1>1 DEF Counting, Flight
<1>5. InStep'
  BY <1>1, <1>2 DEF Counting, InStep
<1>6. Forgotten'
  BY <1>2 DEF Counting, Forgotten
<1>7. QED BY <1>3, <1>4, <1>5, <1>6 DEF Counting

\* The Policy Engine asks for a hard reset when none is under way.
LEMMA AsksForReset ==
    ASSUME IInv, HInv, PENext, pe'.state = "PESinkHardResetSent"
    PROVE  /\ "HARD_SENT" \in evt'.PE => "HARD_SENT" \in evt.PE
           /\ pe.state \in {"PESinkHardReset", "PESinkHardResetSent"}
<1>1. CASE PEGoes \/ PESends \/ PELearns
  BY <1>1 DEF PEGoes, PESends, PELearns, Engaged, TxWaits, Sending
<1>2. CASE PERings
  BY <1>2 DEF PERings
<1>3. CASE HardReset
  <2>1. CASE Awake("PESinkHardResetSent")
    BY <1>3, <2>1 DEF HardReset, Awake, At, IInv, Kernel, EvtType
  <2>2. CASE ~Awake("PESinkHardResetSent")
    BY <1>3, <2>2 DEF HardReset, At, Signal, kernelVars, IInv, Kernel, EvtType
  <2>3. QED BY <2>1, <2>2
<1>4. CASE TransitionDefault
  BY <1>4 DEF TransitionDefault, IInv, Policy, PEType
<1>5. "RESET" \notin evt.PE
  BY DEF HInv, Calm
<1>6. QED BY <1>1, <1>2, <1>3, <1>4, <1>5, PEKind DEF PEStepKind

LEMMA PENumbers ==
    ASSUME NoResets, IInv, OInv, HInv, Mail, Numbering, PENext PROVE Numbering'
<1>1. /\ UNCHANGED <<rx, tx, hr, phy, status, src>> /\ Verdict' = Verdict
      /\ pe \in PEType /\ evt \in EvtType /\ mem \in MemType
  BY PELeaves, PEAloof DEF peUnchanged, IInv, Kernel, Policy
<1>2. CASE PpsTimer
  <2>1. /\ UNCHANGED mem /\ pe'.state = pe.state /\ pe'.sending = pe.sending
        /\ evt'.PE = evt.PE \cup {"PPS_REQUEST"}
    BY <1>1, <1>2 DEF PpsTimer, PEType, EvtType
  <2>2. Counting'
    BY <1>1, <2>1, BystanderCounts DEF Numbering, Told
  <2>3. NoSoftReset'
    BY <1>1, <2>1 DEF Numbering, NoSoftReset
  <2>4. QED BY <2>2, <2>3 DEF Numbering
<1>3. CASE ~PpsTimer
  <2>1. ~(pe.state \in TxWaits /\ evt.PE \cap Outcome = {})
    BY <1>3, HandsOff DEF HInv, Calm, TxOutcome, Outcome
  <2>2. /\ tx.message = NoBuf
        /\ tx.state \in {"PRLTxWaitMessage", "PRLTxPHYReset", "PRLTxDiscardMessage"}
    BY <2>1 DEF Mail
  <2>3. OnAir' /\ Flight'
    BY <1>1, <2>2 DEF Numbering, Counting, OnAir, Flight, Hushed
  <2>4. InStep'
    <3>1. ~Troubled' => ~Troubled \/ phy.hard \/ src.seen = -1
      BY TroubleStays DEF Numbering, Counting, Forgotten
    <3>2. Unsent' = Unsent /\ Follows(tx.counter)' = Follows(tx.counter)
      BY <1>1 DEF Unsent, Follows
    <3>3. QED BY <1>1, <3>1, <3>2 DEF Numbering, Counting, InStep, Follows
  <2>5. Forgotten'
    <3> SUFFICES ASSUME pe'.state = "PESinkHardResetSent",
                        \/ "HARD_SENT" \in evt'.PE
                        \/ hr.state \in {"PRLHRWaitPHY", "PRLHRHardResetRequested"}
                 PROVE  phy.hard \/ src.seen = -1
      BY <1>1 DEF Forgotten
    <3>1. /\ "HARD_SENT" \in evt.PE
             \/ hr.state \in {"PRLHRWaitPHY", "PRLHRHardResetRequested"}
          /\ pe.state \in {"PESinkHardReset", "PESinkHardResetSent"}
      BY AsksForReset
    <3>2. pe.state = "PESinkHardResetSent"
      BY <3>1 DEF HInv, Calm, Handshake, Answering, IInv, Link, HRType, HRState
    <3>3. QED BY <3>1, <3>2 DEF Numbering, Counting, Forgotten
  <2>6. CASE NoneSent
    <3>1. pe.state # "PESinkSendSoftResetTx" /\ pe'.state # "PESinkSendSoftResetTx"
      BY <2>6 DEF NoneSent, Others
    <3>2. \A b \in Buf : mem'[b].type # "SoftReset"
      BY <2>6, <3>1 DEF NoneSent, Numbering, NoSoftReset
    <3>3. NoSoftReset'
      BY <1>1, <2>2, <3>1, <3>2 DEF Numbering, NoSoftReset
    <3>4. QED BY <2>3, <2>4, <2>5, <3>3 DEF Numbering, Counting
  <2>7. CASE SendsIt
    <3>1. pe.state = "PESinkSendSoftReset"
      BY <2>7 DEF SendsIt, SendNew, At
    <3>2. \A b \in Buf : mem[b].type # "SoftReset"
      BY <3>1 DEF Numbering, NoSoftReset
    <3>3. CASE pool = <<>>
      <4>1. UNCHANGED <<mem, pe>>
        BY <2>7, <3>3 DEF SendsIt, SendNew, Fault
      <4>2. NoSoftReset'
        BY <1>1, <4>1 DEF Numbering, NoSoftReset
      <4>3. QED BY <2>3, <2>4, <2>5, <4>2 DEF Numbering, Counting
    <3>4. CASE pool # <<>>
      <4>1. Head(pool) \in Buf
        BY <3>4 DEF IInv, Kernel
      <4>2. /\ mem' = [mem EXCEPT ![Head(pool)] = Message("SoftReset", 0)]
            /\ pe' = [pe EXCEPT !.state = "PESinkSendSoftResetTx", !.sending = Head(pool)]
        BY <2>7, <3>4 DEF SendsIt, SendNew
      <4>3. pe'.state = "PESinkSendSoftResetTx" /\ pe'.sending = Head(pool)
        BY <1>1, <4>2 DEF PEType
      <4>4. /\ mem'[pe'.sending].type = "SoftReset"
            /\ \A b \in Buf : mem'[b].type = "SoftReset" => b = pe'.sending
        BY <1>1, <3>2, <4>1, <4>2, <4>3 DEF MemType, Message
      <4>5. NoSoftReset'
        BY <1>1, <4>3, <4>4 DEF Numbering, NoSoftReset
      <4>6. QED BY <2>3, <2>4, <2>5, <4>5 DEF Numbering, Counting
    <3>5. QED BY <3>3, <3>4
  <2>8. CASE LearnsIt
    <3>1. pe.state = "PESinkSendSoftResetTx" /\ Freed(pe.sending) /\ pe.sending \in Buf
      BY <2>8 DEF LearnsIt, SentOr, Sent, Awake, At, IInv, Policy, PEType, Sending
    <3>2. pe'.state # "PESinkSendSoftResetTx"
      BY <1>1, <2>8 DEF LearnsIt, SentOr, Sent, PEType
    <3>3. \A b \in Buf : mem'[b].type # "SoftReset"
      BY <1>1, <3>1 DEF Numbering, NoSoftReset, Freed, MemType, NoResets
    <3>4. NoSoftReset'
      BY <1>1, <2>2, <3>2, <3>3 DEF Numbering, NoSoftReset
    <3>5. QED BY <2>3, <2>4, <2>5, <3>4 DEF Numbering, Counting
  <2>9. QED BY <1>3, <2>6, <2>7, <2>8, PEWrites
<1>4. QED BY <1>2, <1>3

\* The TX thread: it numbers a message, and leaves the rest of it as it is.
LEMMA TXNoSoftReset ==
    ASSUME IInv, OInv, Mail, NoSoftReset, TXNext
    PROVE  NoSoftReset' /\ UNCHANGED <<pe, rx, hr, src, status>>
<1>1. UNCHANGED <<pe, rx, hr, src, status>>
  BY DEF TXNext, TxPHYReset, TxWaitMessage, TxReset, TxConstructMessage, TxSinkTx, TxSend,
     TxWaitResponse, TxMatchMessageID, TxTransmissionError, TxMessageSent, TxOver,
     TxDiscardMessage, txUnchanged, partnerVars, Fault
<1>2. \A b \in Buf : mem'[b].type = mem[b].type
  <2>1. CASE TxConstructMessage
    <3>1. mem' = mem \/ mem' = [mem EXCEPT ![tx.message].id = tx.counter]
      BY <2>1 DEF TxConstructMessage, Fault
    <3>2. mem \in MemType /\ \A m \in Msg : [m EXCEPT !.id = tx.counter].type = m.type
      BY DEF IInv, Kernel, Msg
    <3>3. QED BY <3>1, <3>2 DEF MemType
  <2>2. CASE ~TxConstructMessage
    BY <2>2 DEF TXNext, TxPHYReset, TxWaitMessage, TxReset, TxSinkTx, TxSend,
       TxWaitResponse, TxMatchMessageID, TxTransmissionError, TxMessageSent, TxOver,
       TxDiscardMessage
  <2>3. QED BY <2>1, <2>2
<1>3. \A i \in 1..Len(phy'.fifo) : phy'.fifo[i].type # "SoftReset"
  <2>1. phy \in PhyType /\ phy.fifo \in Seq(Msg)
    BY DEF IInv, Outside, PhyType
  <2>2. phy'.fifo \in {phy.fifo, <<>>} \/ (phy.fifo # <<>> /\ phy'.fifo = Tail(phy.fifo))
    BY <2>1 DEF TXNext, TxPHYReset, TxWaitMessage, TxReset, TxConstructMessage, TxSinkTx,
       TxSend, TxWaitResponse, TxMatchMessageID, TxTransmissionError, TxMessageSent,
       TxOver, TxDiscardMessage, PhyType, Fault
  <2>3. CASE phy.fifo # <<>> /\ phy'.fifo = Tail(phy.fifo)
    <3>1. /\ Len(phy'.fifo) = Len(phy.fifo) - 1
          /\ \A i \in 1..Len(phy'.fifo) : phy'.fifo[i] = phy.fifo[i + 1]
      BY <2>1, <2>3
    <3>2. Len(phy.fifo) \in Nat
      BY <2>1
    <3>3. QED BY <3>1, <3>2 DEF NoSoftReset
  <2>4. CASE phy'.fifo \in {phy.fifo, <<>>}
    BY <2>4 DEF NoSoftReset
  <2>5. QED BY <2>2, <2>3, <2>4
<1>4. tx'.state = "PRLTxReset" => pe.state = "PESinkSendSoftResetTx"
  <2>1. CASE TxWaitMessage
    <3>1. tx'.state = "PRLTxReset" =>
            box.TX # <<>> /\ mem[Head(box.TX)].type = "SoftReset"
      BY <2>1 DEF TxWaitMessage, TXGoto, IInv, Link, TXType
    <3>2. box.TX # <<>> => Head(box.TX) \in Buf
      BY DEF IInv, Kernel, BoxType
    <3>3. QED BY <3>1, <3>2 DEF NoSoftReset
  <2>2. CASE ~TxWaitMessage
    <3>1. tx \in TXType
      BY DEF IInv, Link
    <3>2. /\ TxPHYReset \/ TxReset \/ TxDiscardMessage => tx'.state # "PRLTxReset"
          /\ TxTransmissionError \/ TxMessageSent => tx'.state # "PRLTxReset"
      <4>1. TxPHYReset \/ TxDiscardMessage => tx'.state # "PRLTxReset"
        BY <3>1 DEF TxPHYReset, TxDiscardMessage, TXType
      <4>2. TxReset => tx'.state # "PRLTxReset"
        BY <3>1 DEF TxReset, TXType
      <4>3. TxTransmissionError \/ TxMessageSent => tx'.state # "PRLTxReset"
        BY DEF TxTransmissionError, TxMessageSent, TxOver
      <4>4. QED BY <4>1, <4>2, <4>3
    <3>3. TxConstructMessage => tx' = tx \/ tx'.state # "PRLTxReset"
      BY <3>1 DEF TxConstructMessage, TXGoto, Fault, TXType
    <3>4. TxSinkTx \/ TxSend \/ TxWaitResponse \/ TxMatchMessageID => tx'.state # "PRLTxReset"
      BY <3>1 DEF TxSinkTx, TxSend, TxWaitResponse, TxMatchMessageID, TXGoto, TXType
    <3>5. QED BY <2>2, <3>2, <3>3, <3>4 DEF TXNext, NoSoftReset
  <2>3. QED BY <2>1, <2>2
<1>5. pe.state = "PESinkSendSoftResetTx" => pe.sending \in Buf
  BY DEF IInv, Policy, Sending, PEType
<1>6. QED BY <1>1, <1>2, <1>3, <1>4, <1>5 DEF NoSoftReset

\* The next MessageID differs from this one.
LEMMA NextDiffers ==
    ASSUME IdMod > 1, NEW n \in Id PROVE (n + 1) % IdMod # n
<1>1. IdMod \in Nat /\ n \in Nat /\ n < IdMod
  BY IdAssumption DEF Id
<1>2. CASE n + 1 < IdMod
  <2>1. (n + 1) % IdMod = n + 1
    BY <1>1, <1>2
  <2>2. QED BY <1>1, <2>1
<1>3. CASE n + 1 = IdMod
  <2>1. (n + 1) % IdMod = 0
    BY <1>1, <1>3
  <2>2. QED BY <1>1, <1>3, <2>1
<1>4. QED BY <1>1, <1>2, <1>3

\* While a message is in the TX thread's hands that is no Soft_Reset, the Policy
\* Engine is not troubled.
LEMMA Untroubled ==
    ASSUME Mail, NoSoftReset, tx.message # NoBuf, mem[tx.message].type # "SoftReset"
    PROVE  ~Troubled
<1>1. /\ tx.message = InHand /\ pe.state \in TxWaits /\ evt.PE \cap Outcome = {}
  BY DEF Mail
<1>2. pe.state # "PESinkSendSoftResetTx"
  BY <1>1 DEF InHand, NoSoftReset
<1>3. QED BY <1>1, <1>2 DEF Troubled, TxWaits, Sending, Outcome

\* Every error that is told to the Policy Engine is one it has not heard of.
LEMMA TellsError ==
    ASSUME Mail, tx.message # NoBuf, evt'.PE = evt.PE \cup {"TX_ERR"} PROVE Troubled'
BY DEF Mail, Outcome, Troubled

\* What the TX thread leaves to others.
LEMMA TXAloof ==
    ASSUME IInv, TXNext
    PROVE  /\ phy'.hard = phy.hard /\ phy'.irq = phy.irq
           /\ evt'.TX \subseteq evt.TX
           /\ "HARD_SENT" \in evt'.PE <=> "HARD_SENT" \in evt.PE
<1>0. evt \in EvtType /\ phy \in PhyType
  BY DEF IInv, Kernel, Outside
<1>1. CASE TxPHYReset
  BY <1>0, <1>1 DEF TxPHYReset, EvtType, PhyType
<1>2. CASE TxWaitMessage \/ TxWaitResponse
  BY <1>0, <1>2 DEF TxWaitMessage, TxWaitResponse, EvtType
<1>3. CASE TxReset \/ TxConstructMessage
  BY <1>0, <1>3 DEF TxReset, TxConstructMessage, SignalAndYield, Fault, EvtType
<1>4. CASE TxTransmissionError \/ TxMessageSent
  BY <1>0, <1>4 DEF TxTransmissionError, TxMessageSent, TxOver, EvtType
<1>5. CASE TxSinkTx \/ TxSend \/ TxMatchMessageID \/ TxDiscardMessage
  BY <1>0, <1>5 DEF TxSinkTx, TxSend, TxMatchMessageID, TxDiscardMessage, PhyType
<1>6. QED BY <1>1, <1>2, <1>3, <1>4, <1>5 DEF TXNext

\* The TX thread gives every message a MessageID that the source has not heard,
\* and takes the next one when this one may have been.
LEMMA TXCounts ==
    ASSUME NoResets, IInv, OInv, Mail, Numbering, OwnVerdict, TXNext PROVE Counting'
<1>0. /\ tx \in TXType /\ evt \in EvtType /\ phy \in PhyType /\ mem \in MemType
      /\ src.seen \in Id \cup {-1}
  BY DEF IInv, Kernel, Link, Outside, SrcType
<1>1. /\ UNCHANGED <<pe, hr, src, status>> /\ phy'.hard = phy.hard /\ phy'.irq = phy.irq
      /\ evt'.TX \subseteq evt.TX /\ Verdict' \subseteq Verdict
      /\ "HARD_SENT" \in evt'.PE <=> "HARD_SENT" \in evt.PE
  BY TXAloof, TXNoSoftReset DEF Numbering, Verdict
<1>2. Forgotten'
  BY <1>1 DEF Numbering, Counting, Forgotten
<1>3. SUFFICES OnAir' /\ Flight' /\ InStep'
  BY <1>2 DEF Counting
<1>4. ASSUME tx.state \notin {"PRLTxWaitResponse", "PRLTxDiscardMessage", "PRLTxPHYReset"},
             phy'.air = phy.air
      PROVE  Hushed' /\ OnAir'
  BY <1>1, <1>4 DEF Numbering, Counting, OnAir, Hushed
<1>5. ASSUME tx'.message # NoBuf,
             tx'.state \notin {"PRLTxConstructMessage", "PRLTxSinkTx", "PRLTxSend"}
      PROVE  InStep'
  BY <1>5 DEF InStep, Unsent
<1>6. ASSUME Unsent, tx'.counter = tx.counter, evt'.PE = evt.PE PROVE InStep'
  BY <1>1, <1>6 DEF Numbering, Counting, InStep, Troubled, Follows
<1>7. CASE TxPHYReset
  <2>1. /\ phy'.air = Nil /\ tx'.state = "PRLTxWaitMessage" /\ tx'.counter = tx.counter
        /\ evt'.PE = IF tx.message = NoBuf THEN evt.PE ELSE evt.PE \cup {"TX_ERR"}
    BY <1>0, <1>7 DEF TxPHYReset, PhyType, TXType, EvtType
  <2>2. InStep'
    <3>1. CASE tx.message = NoBuf
      BY <1>6, <2>1, <3>1 DEF Unsent
    <3>2. CASE tx.message # NoBuf
      BY <2>1, <3>2, TellsError DEF InStep
    <3>3. QED BY <3>1, <3>2
  <2>3. QED BY <2>1, <2>2 DEF OnAir, Hushed, Flight
<1>8. CASE TxWaitMessage
  <2>1. /\ tx.state = "PRLTxWaitMessage" /\ tx'.counter = tx.counter /\ evt'.PE = evt.PE
        /\ tx'.state \in {"PRLTxPHYReset", "PRLTxDiscardMessage", "PRLTxReset",
                          "PRLTxConstructMessage"}
        /\ phy' = phy
    BY <1>0, <1>8 DEF TxWaitMessage, TXAt, TXGoto, TXType, EvtType
  <2>2. Unsent
    BY <2>1 DEF Mail, Unsent
  <2>3. QED BY <1>4, <1>6, <2>1, <2>2 DEF Flight
<1>9. CASE TxReset
  <2>1. /\ tx.state = "PRLTxReset" /\ tx'.state = "PRLTxConstructMessage"
        /\ evt'.PE = evt.PE /\ phy' = phy
    BY <1>0, <1>9 DEF TxReset, TXAt, SignalAndYield, TXType, EvtType
  <2>2. pe.state = "PESinkSendSoftResetTx" /\ "TX_DONE" \notin evt.PE
    BY <2>1 DEF Numbering, NoSoftReset, Mail, Outcome
  <2>3. InStep'
    BY <1>1, <2>1, <2>2 DEF InStep, Troubled
  <2>4. QED BY <1>4, <2>1, <2>3 DEF Flight
<1>10. CASE TxConstructMessage
  <2>1. tx.state = "PRLTxConstructMessage" /\ tx.message # NoBuf /\ phy' = phy
    BY <1>10 DEF TxConstructMessage, TXAt, Mail, Fault
  <2>2. CASE Fault("freedWrite")
    <3>1. UNCHANGED <<tx, mem, evt, phy, status>>
      BY <2>2 DEF Fault
    <3>2. Verdict' = Verdict
      BY <3>1 DEF Verdict
    <3>3. Counting'
      BY <1>1, <3>1, <3>2, BystanderCounts DEF Numbering
    <3>4. QED BY <3>3 DEF Counting
  <2>3. CASE ~Fault("freedWrite")
    <3>1. /\ evt'.PE = evt.PE
          /\ \E s \in {"PRLTxPHYReset", "PRLTxDiscardMessage", "PRLTxSinkTx", "PRLTxSend"} :
               /\ TXGoto(s)
               /\ s \in {"PRLTxSinkTx", "PRLTxSend"} =>
                     mem' = [mem EXCEPT ![tx.message].id = tx.counter]
      BY <1>0, <1>10, <2>3 DEF TxConstructMessage, EvtType
    <3>2. /\ tx'.state \in {"PRLTxPHYReset", "PRLTxDiscardMessage", "PRLTxSinkTx",
                            "PRLTxSend"}
          /\ tx'.message = tx.message /\ tx'.counter = tx.counter
          /\ tx'.state \in {"PRLTxSinkTx", "PRLTxSend"} =>
                mem' = [mem EXCEPT ![tx.message].id = tx.counter]
      BY <1>0, <3>1 DEF TXGoto, TXType
    <3>3. tx'.state \in {"PRLTxSinkTx", "PRLTxSend"} => mem'[tx'.message].id = tx'.counter
      BY <1>0, <2>1, <3>2 DEF TXType, MemType, Msg
    <3>4. QED BY <1>4, <1>6, <2>1, <3>1, <3>2, <3>3 DEF Flight, Unsent
  <2>4. QED BY <2>2, <2>3
<1>11. CASE TxSinkTx
  <2>1. /\ tx.state = "PRLTxSinkTx" /\ tx'.state \in {"PRLTxSinkTx", "PRLTxSend"}
        /\ tx'.message = tx.message /\ tx'.counter = tx.counter
        /\ UNCHANGED <<evt, mem, phy>>
    BY <1>0, <1>11 DEF TxSinkTx, TXAt, TXGoto, TXType
  <2>2. Flight'
    BY <2>1 DEF Numbering, Counting, Flight
  <2>3. QED BY <1>4, <1>6, <2>1, <2>2 DEF Unsent
<1>12. CASE TxSend
  <2>1. /\ tx.state = "PRLTxSend" /\ tx'.state = "PRLTxWaitResponse"
        /\ tx'.message = tx.message /\ tx'.counter = tx.counter
        /\ phy'.air = mem[tx.message] /\ tx.message # NoBuf
    BY <1>0, <1>12 DEF TxSend, TXAt, TXGoto, TXType, PhyType, Mail
  <2>2. Verdict' = {}
    BY <1>1, <2>1 DEF OwnVerdict
  <2>3. mem[tx.message].id = tx.counter
    BY <2>1 DEF Numbering, Counting, Flight
  <2>4. mem[tx.message].type # "SoftReset" => phy.hard \/ Follows(tx.counter)
    BY <2>1, Untroubled DEF Numbering, Counting, InStep, Unsent
  <2>5. Follows(tx.counter) => tx.counter # src.seen
    <3>1. tx.counter \in Id /\ tx.counter # -1
      BY <1>0, IdAssumption DEF TXType, Id
    <3>2. src.seen \in Id => (src.seen + 1) % IdMod # src.seen
      BY NextDiffers DEF NoResets
    <3>3. QED BY <1>0, <3>1, <3>2 DEF Follows
  <2>6. OnAir'
    BY <1>1, <2>1, <2>2, <2>3, <2>4, <2>5 DEF OnAir, Hushed
  <2>7. QED BY <1>5, <2>1, <2>2, <2>6 DEF Flight
<1>13. CASE TxWaitResponse
  <2>1. /\ tx.state = "PRLTxWaitResponse" /\ tx.message # NoBuf /\ phy' = phy
        /\ tx'.message = tx.message /\ tx'.counter = tx.counter
        /\ \/ tx'.state \in {"PRLTxPHYReset", "PRLTxDiscardMessage"}
           \/ tx'.state = "PRLTxMatchMessageID" /\ "I_TXSENT" \in evt.TX
           \/ tx'.state = "PRLTxTransmissionError" /\ "I_RETRYFAIL" \in evt.TX
    BY <1>0, <1>13 DEF TxWaitResponse, TXAt, TXGoto, TXType, Mail
  <2>2. OnAir'
    BY <1>1, <2>1 DEF Numbering, Counting, OnAir, Hushed, Verdict
  <2>3. Flight'
    BY <1>1, <2>1 DEF Numbering, Counting, Flight, Heard, Verdict
  <2>4. QED BY <1>5, <2>1, <2>2, <2>3
<1>14. CASE TxMatchMessageID
  <2>1. /\ tx.state = "PRLTxMatchMessageID" /\ tx.message # NoBuf /\ phy'.air = phy.air
        /\ tx'.message = tx.message /\ tx'.counter = tx.counter
        /\ tx'.state \in {"PRLTxMessageSent", "PRLTxTransmissionError"}
    BY <1>0, <1>14 DEF TxMatchMessageID, TXAt, TXGoto, TXType, PhyType, Mail
  <2>2. Flight'
    BY <1>1, <2>1 DEF Numbering, Counting, Flight, Heard
  <2>3. QED BY <1>4, <1>5, <2>1, <2>2
<1>15. CASE TxTransmissionError
  <2>1. /\ tx.state = "PRLTxTransmissionError" /\ tx.message # NoBuf /\ phy' = phy
        /\ tx'.state = "PRLTxWaitMessage" /\ evt'.PE = evt.PE \cup {"TX_ERR"}
    BY <1>0, <1>15 DEF TxTransmissionError, TxOver, TXAt, EvtType, Mail
  <2>2. InStep'
    BY <2>1, TellsError DEF InStep
  <2>3. QED BY <1>4, <2>1, <2>2 DEF Flight
<1>16. CASE TxMessageSent
  <2>1. /\ tx.state = "PRLTxMessageSent" /\ phy' = phy
        /\ tx'.state = "PRLTxWaitMessage" /\ tx'.counter = (tx.counter + 1) % IdMod
    BY <1>16 DEF TxMessageSent, TxOver, TXAt, Incremented
  <2>2. Heard
    BY <2>1 DEF Numbering, Counting, Flight
  <2>3. InStep'
    BY <1>1, <2>1, <2>2 DEF Heard, InStep, Follows
  <2>4. QED BY <1>4, <2>1, <2>3 DEF Flight
<1>17. CASE TxDiscardMessage
  <2>1. /\ tx.state = "PRLTxDiscardMessage" /\ tx'.state = "PRLTxPHYReset"
        /\ tx'.message = tx.message /\ UNCHANGED <<evt, phy>>
        /\ tx.message = NoBuf => tx'.counter = tx.counter
    BY <1>0, <1>17 DEF TxDiscardMessage, TXAt, TXType
  <2>2. OnAir'
    BY <1>1, <2>1 DEF Numbering, Counting, OnAir, Hushed
  <2>3. QED BY <1>5, <1>6, <2>1, <2>2 DEF Flight, Unsent
<1>18. QED BY <1>7, <1>8, <1>9, <1>10, <1>11, <1>12, <1>13, <1>14, <1>15, <1>16, <1>17
           DEF TXNext

\* The receiving thread writes to no message that is being sent, and never gets
\* a Soft_Reset.
LEMMA RXNumbers ==
    ASSUME NoResets, IInv, OInv, Mail, Numbering, RXNext PROVE Numbering'
<1>0. /\ rx \in RXType /\ evt \in EvtType /\ phy \in PhyType /\ mem \in MemType
      /\ phy.fifo \in Seq(Msg)
  BY DEF IInv, Kernel, Link, Outside, PhyType
<1>1. rx.state \notin {"PRLRxReset", "PRLRxResetYielded"}
  BY DEF Numbering, NoSoftReset
<1>2. /\ UNCHANGED <<pe, hr, src, status, tx>>
      /\ phy'.air = phy.air /\ phy'.hard = phy.hard /\ phy'.irq = phy.irq
  <2>1. UNCHANGED <<pe, hr, src, status, tx>>
    BY <1>1 DEF RXNext, RxWaitPHY, RxRead, RxReset, RxResetYielded, RxCheckMessageID,
       RxStoreMessageID, RxStoreYielded, rxUnchanged, partnerVars, RXAt, Fault
  <2>2. phy'.air = phy.air /\ phy'.hard = phy.hard /\ phy'.irq = phy.irq
    BY <1>0 DEF RXNext, RxWaitPHY, RxRead, RxReset, RxResetYielded, RxCheckMessageID,
       RxStoreMessageID, RxStoreYielded, Fault, PhyType
  <2>3. QED BY <2>1, <2>2
<1>3. evt'.PE \cap Told = evt.PE \cap Told /\ Verdict' = Verdict
  <2>1. evt'.PE \cap Told = evt.PE \cap Told
    BY <1>0, <1>1 DEF RXNext, RxWaitPHY, RxRead, RxReset, RxResetYielded,
       RxCheckMessageID, RxStoreMessageID, RxStoreYielded, RXAt, SignalAndYield, Fault,
       EvtType, Told
  <2>2. evt'.TX = evt.TX \/ evt'.TX = evt.TX \cup {"DISCARD"}
    BY <1>0, <1>1 DEF RXNext, RxWaitPHY, RxRead, RxReset, RxResetYielded,
       RxCheckMessageID, RxStoreMessageID, RxStoreYielded, RXAt, SignalAndYield, Fault,
       EvtType
  <2>3. QED BY <1>2, <2>1, <2>2 DEF Verdict
\* What it holds and what is being sent are different buffers.
<1>4. rx.state # "PRLRxWaitPHY" =>
         /\ rx.message \in Buf /\ rx.message # pe.sending /\ rx.message # pe.request
  <2>1. /\ Held["request"] = pe.request /\ Held["sending"] = pe.sending
        /\ rx.state # "PRLRxWaitPHY" => Held["rx"] = rx.message
        /\ {"request", "sending", "rx"} \subseteq Slot
    BY HeldFacts DEF Slot
  <2>2. rx.state # "PRLRxWaitPHY" => rx.message # NoBuf
    BY DEF IInv, Link
  <2>3. QED BY <1>0, <2>1, <2>2, Apart DEF RXType, Slot
<1>5. rx.state # "PRLRxWaitPHY" => mem[rx.message].type # "SoftReset"
  BY <1>4 DEF Numbering, NoSoftReset
<1>6. phy.fifo # <<>> => Head(phy.fifo).type # "SoftReset"
  <2>1. phy.fifo # <<>> => 1 \in 1..Len(phy.fifo) /\ Head(phy.fifo) = phy.fifo[1]
    BY <1>0
  <2>2. QED BY <2>1 DEF Numbering, NoSoftReset
<1>7. \A b \in Buf :
         \/ mem'[b] = mem[b]
         \/ rx.state # "PRLRxWaitPHY" /\ b = rx.message /\ mem'[b].type # "SoftReset"
  <2>1. CASE RxRead
    BY <1>0, <1>6, <2>1 DEF RxRead, RXAt, MemType
  <2>2. CASE RxCheckMessageID
    BY <1>0, <2>2 DEF RxCheckMessageID, RxDrop, Freed, RXAt, MemType, NoResets
  <2>3. CASE RxWaitPHY \/ RxStoreMessageID \/ RxStoreYielded
    BY <2>3 DEF RxWaitPHY, RxStoreMessageID, RxStoreYielded, Fault
  <2>4. QED BY <1>1, <2>1, <2>2, <2>3 DEF RXNext, RxReset, RxResetYielded, RXAt
<1>8. rx'.state \notin {"PRLRxReset", "PRLRxResetYielded"}
  <2>1. CASE RxRead
    <3>1. mem'[rx.message].type # "SoftReset"
      BY <1>4, <1>5, <1>7, <2>1 DEF RxRead, RXAt
    <3>2. QED BY <1>0, <2>1, <3>1 DEF RxRead, RXGoto, RXType
  <2>2. CASE ~RxRead
    BY <1>0, <1>1, <2>2 DEF RXNext, RxWaitPHY, RxReset, RxResetYielded, RxCheckMessageID,
       RxStoreMessageID, RxStoreYielded, RXAt, RXGoto, RxDrop, Fault, RXType
  <2>3. QED BY <2>1, <2>2
<1>9. \A i \in 1..Len(phy'.fifo) : phy'.fifo[i].type # "SoftReset"
  <2>1. phy'.fifo = phy.fifo \/ (phy.fifo # <<>> /\ phy'.fifo = Tail(phy.fifo))
    BY <1>0 DEF RXNext, RxWaitPHY, RxRead, RxReset, RxResetYielded, RxCheckMessageID,
       RxStoreMessageID, RxStoreYielded, Fault, PhyType
  <2>2. CASE phy.fifo # <<>> /\ phy'.fifo = Tail(phy.fifo)
    <3>1. /\ Len(phy'.fifo) = Len(phy.fifo) - 1 /\ Len(phy.fifo) \in Nat
          /\ \A i \in 1..Len(phy'.fifo) : phy'.fifo[i] = phy.fifo[i + 1]
      BY <1>0, <2>2
    <3>2. QED BY <3>1 DEF Numbering, NoSoftReset
  <2>3. CASE phy'.fifo = phy.fifo
    BY <2>3 DEF Numbering, NoSoftReset
  <2>4. QED BY <2>1, <2>2, <2>3
<1>10. NoSoftReset'
  <2>1. pe.state = "PESinkSendSoftResetTx" => pe.sending \in Buf
    BY DEF IInv, Policy, Sending, PEType
  <2>2. QED BY <1>2, <1>4, <1>7, <1>8, <1>9, <2>1 DEF Numbering, NoSoftReset
<1>11. tx.state \in {"PRLTxSinkTx", "PRLTxSend"}
          => mem'[tx.message].id = mem[tx.message].id
  <2>1. tx.state \in {"PRLTxSinkTx", "PRLTxSend"} =>
           tx.message \in Buf /\ tx.message \in {pe.sending, pe.request}
    BY DEF Mail, InHand, IInv, Link, TXType
  <2>2. QED BY <1>4, <1>7, <2>1
<1>12. Counting'
  BY <1>2, <1>3, <1>11, BystanderCounts DEF Numbering
<1>13. QED BY <1>10, <1>12 DEF Numbering

\* The Hard Reset thread resets the counter while nothing is being sent, for a
\* Policy Engine that waits for the source to forget every MessageID.
LEMMA HRNumbers ==
    ASSUME NoResets, IInv, HInv, Mail, Numbering, HRNext PROVE Numbering'
<1>0. /\ hr \in HRType /\ tx \in TXType /\ rx \in RXType /\ evt \in EvtType
      /\ phy \in PhyType /\ sched \in SchedType
  BY DEF IInv, Kernel, Link, Outside
<1>1. /\ UNCHANGED <<pe, src, mem, status>> /\ tx'.state = tx.state
      /\ tx'.message = tx.message /\ rx'.state = rx.state
      /\ phy'.air = phy.air /\ phy'.irq = phy.irq /\ phy'.fifo = phy.fifo
      /\ phy.hard => phy'.hard
  <2>1. UNCHANGED <<pe, src, mem, status>>
    BY DEF HRNext, HrResetLayer, HrResetYielded, HrIndicateHardReset, HrTellPE,
       HrRequestHardReset, HrWaitPHY, HrTimeout, HrHardResetRequested, HrWaitPE,
       hrUnchanged, partnerVars
  <2>2. tx'.state = tx.state /\ tx'.message = tx.message /\ rx'.state = rx.state
    BY <1>0 DEF HRNext, HrResetLayer, HrResetYielded, HrIndicateHardReset, HrTellPE,
       HrRequestHardReset, HrWaitPHY, HrTimeout, HrHardResetRequested, HrWaitPE, TXType,
       RXType
  <2>3. /\ phy'.air = phy.air /\ phy'.irq = phy.irq /\ phy'.fifo = phy.fifo
        /\ phy.hard => phy'.hard
    BY <1>0 DEF HRNext, HrResetLayer, HrResetYielded, HrIndicateHardReset, HrTellPE,
       HrRequestHardReset, HrWaitPHY, HrTimeout, HrHardResetRequested, HrWaitPE, PhyType
  <2>4. QED BY <2>1, <2>2, <2>3
<1>2. /\ evt'.TX \in {evt.TX, evt.TX \cup {"RESET"}} /\ Verdict' = Verdict
      /\ evt'.PE \cap Outcome = evt.PE \cap Outcome
  <2>1. /\ evt'.TX \in {evt.TX, evt.TX \cup {"RESET"}}
        /\ evt'.PE \cap Outcome = evt.PE \cap Outcome
    BY <1>0 DEF HRNext, HrResetLayer, HrResetYielded, HrIndicateHardReset, HrTellPE,
       HrRequestHardReset, HrWaitPHY, HrTimeout, HrHardResetRequested, HrWaitPE,
       SignalAndYield, EvtType, Outcome
  <2>2. QED BY <1>1, <2>1 DEF Verdict
<1>3. NoSoftReset'
  BY <1>1 DEF Numbering, NoSoftReset
<1>4. CASE HrResetLayer
  <2>1. hr.state = "PRLHRResetLayer" /\ In(sched.ready, "HR")
    <3>1. hr.state = "PRLHRResetLayer" /\ sched.ready # <<>> /\ Head(sched.ready) = "HR"
      BY <1>4 DEF HrResetLayer, HRAt, Runs
    <3>2. 1 \in 1..Len(sched.ready) /\ sched.ready[1] = "HR"
      BY <1>0, <3>1 DEF SchedType
    <3>3. QED BY <3>1, <3>2 DEF In
  <2>2. pe.state = "PESinkHardResetSent" /\ "HARD_SENT" \notin evt.PE
    BY <2>1 DEF HInv, Roused, Handshake
  <2>3. /\ tx.message = NoBuf
        /\ tx.state \in {"PRLTxWaitMessage", "PRLTxPHYReset", "PRLTxDiscardMessage"}
    BY <2>2 DEF Mail, TxWaits, Sending
  <2>4. /\ phy' = phy /\ hr'.state = "PRLHRResetYielded" /\ evt'.PE = evt.PE
    BY <1>0, <1>4 DEF HrResetLayer, EvtType
  <2>5. Hushed /\ Troubled'
    BY <1>1, <2>2, <2>3 DEF Numbering, Counting, OnAir, Troubled
  <2>6. Counting'
    BY <1>1, <2>2, <2>3, <2>4, <2>5 DEF Counting, OnAir, Hushed, Flight, InStep, Forgotten
  <2>7. QED BY <1>3, <2>6 DEF Numbering
<1>5. CASE ~HrResetLayer
  <2>1. tx' = tx
    BY <1>5 DEF HRNext, HrResetYielded, HrIndicateHardReset, HrTellPE,
       HrRequestHardReset, HrWaitPHY, HrTimeout, HrHardResetRequested, HrWaitPE
  <2>2. CASE phy'.hard
    <3>1. Hushed' /\ Heard'
      BY <2>2 DEF Hushed, Heard
    <3>2. OnAir' /\ Flight'
      BY <1>1, <2>1, <3>1 DEF Numbering, Counting, OnAir, Flight
    <3>3. InStep' /\ Forgotten'
      BY <2>2 DEF InStep, Forgotten
    <3>4. QED BY <1>3, <3>2, <3>3 DEF Numbering, Counting
  <2>3. CASE ~phy'.hard
    <3>1. ~phy.hard
      BY <1>1, <2>3
    <3>2. Troubled' = Troubled
      BY <1>1, <1>2 DEF Troubled, Outcome
    <3>3. OnAir' /\ Flight' /\ InStep'
      BY <1>1, <1>2, <2>1, <2>3, <3>1, <3>2 DEF Numbering, Counting, OnAir, Hushed, Flight, Heard,
         InStep, Follows, Unsent
    <3>4. \/ "HARD_SENT" \in evt'.PE
          \/ hr'.state \in {"PRLHRWaitPHY", "PRLHRHardResetRequested"}
          => \/ "HARD_SENT" \in evt.PE
             \/ hr.state \in {"PRLHRWaitPHY", "PRLHRHardResetRequested"}
      <4>1. CASE HrResetYielded \/ HrWaitPE \/ HrWaitPHY
        BY <1>0, <4>1 DEF HrResetYielded, HrWaitPE, HrWaitPHY, HRAt, HRGoto, SignalAndYield,
           HRType, EvtType
      <4>2. CASE HrTimeout \/ HrHardResetRequested
        BY <1>0, <4>2 DEF HrTimeout, HrHardResetRequested, HrTellPE, HRAt, EvtType
      <4>3. ~HrIndicateHardReset
        BY DEF HrIndicateHardReset, HrTellPE, HRAt, HInv, Calm
      <4>4. ~HrRequestHardReset
        BY <1>0, <2>3 DEF HrRequestHardReset, PhyType
      <4>5. QED BY <1>5, <4>1, <4>2, <4>3, <4>4 DEF HRNext
    <3>5. Forgotten'
      BY <1>1, <3>1, <3>4 DEF Numbering, Counting, Forgotten
    <3>6. QED BY <1>3, <3>3, <3>5 DEF Numbering, Counting
  <2>4. QED BY <2>2, <2>3
<1>6. QED BY <1>4, <1>5

\* The source remembers the MessageID of what it hears, and answers nothing with
\* a Soft_Reset.
LEMMA HeardBy ==
    ASSUME src \in SrcType, \A i \in 1..Len(src.out) : src.out[i] # "SoftReset",
           NEW m, NEW r \in {"Accept", "Reject", "Wait"}
    PROVE  /\ AfterMessage(m, r).seen = m.id
           /\ \A i \in 1..Len(AfterMessage(m, r).out) :
                 AfterMessage(m, r).out[i] # "SoftReset"
<1> DEFINE t == [src EXCEPT !.seen = m.id, !.awaits = "none"]
           valid == m.obj \in 1..Len(Offers[src.offer])
           volts == Voltage(Offers[src.offer][m.obj])
           Quiet(s) == s.seen = m.id /\ \A i \in 1..Len(s.out) : s.out[i] # "SoftReset"
<1>2. Quiet(t) /\ Quiet([src EXCEPT !.seen = m.id])
  BY DEF SrcType
<1>3. \A o \in {<<"Accept", "transition", "PsRdy">>, <<r>>, <<"Reject">>, <<"SourceCap">>,
                <<"Accept", "SourceCap">>} : \A i \in 1..Len(o) : o[i] # "SoftReset"
  OBVIOUS
<1>4. /\ \A o : [t EXCEPT !.out = o].seen = m.id /\ [t EXCEPT !.out = o].out = o
      /\ \A o, p, v : /\ [t EXCEPT !.out = o, !.pos = p, !.next = v].seen = m.id
                      /\ [t EXCEPT !.out = o, !.pos = p, !.next = v].out = o
      /\ \A o : /\ [t EXCEPT !.id = 0, !.out = o].seen = m.id
                /\ [t EXCEPT !.id = 0, !.out = o].out = o
  BY DEF SrcType
<1>5. \/ AfterMessage(m, r) = src /\ m.id = src.seen
      \/ AfterMessage(m, r) = [src EXCEPT !.seen = m.id]
      \/ AfterMessage(m, r) = t
      \/ \E o \in {<<r>>, <<"Reject">>, <<"SourceCap">>} :
            AfterMessage(m, r) = [t EXCEPT !.out = o]
      \/ AfterMessage(m, r) = [t EXCEPT !.out = <<"Accept", "transition", "PsRdy">>,
                                        !.pos = m.obj, !.next = volts]
      \/ AfterMessage(m, r) = [t EXCEPT !.id = 0, !.out = <<"Accept", "SourceCap">>]
  BY DEF AfterMessage
<1> HIDE DEF t, volts
<1>6. /\ m.id = src.seen => Quiet(src)
      /\ \A o \in {<<r>>, <<"Reject">>, <<"SourceCap">>} : Quiet([t EXCEPT !.out = o])
      /\ Quiet([t EXCEPT !.out = <<"Accept", "transition", "PsRdy">>, !.pos = m.obj,
                         !.next = volts])
      /\ Quiet([t EXCEPT !.id = 0, !.out = <<"Accept", "SourceCap">>])
  BY <1>3, <1>4
<1> HIDE DEF Quiet
<1>7. Quiet(AfterMessage(m, r))
  BY <1>2, <1>5, <1>6
<1>8. QED BY <1>7 DEF Quiet

\* The environment leaves what the threads know alone.
LEMMA ElseSilent ==
    ASSUME NoSoftReset, UNCHANGED <<mem, pe, rx, tx>>,
           \A i \in 1..Len(src'.out) : src'.out[i] # "SoftReset",
           \A i \in 1..Len(phy'.fifo) : phy'.fifo[i].type # "SoftReset"
    PROVE  NoSoftReset'
BY DEF NoSoftReset

LEMMA IntNNumbers ==
    ASSUME IInv, Numbering, I2CDone \/ IntN \/ Application PROVE Numbering'
<1>0. evt \in EvtType /\ phy \in PhyType /\ status \in SUBSET Interrupt
  BY DEF IInv, Kernel, Outside
<1>1. UNCHANGED <<mem, pe, rx, tx, hr, src>>
  BY DEF I2CDone, IntN, IntNPoll, IntNTellRX, IntNTellTX, IntNTellHR, IntNTell, IntNTellPE,
     Application, MainBoot, ButtonPress, ButtonRelease, AskSourceCap, TellPE,
     threadsUnchanged, partnerVars
<1>2. /\ phy'.air = phy.air /\ phy'.hard = phy.hard /\ phy'.fifo = phy.fifo
      /\ evt'.PE \cap Told = evt.PE \cap Told /\ Verdict' = Verdict
  <2>1. CASE IntNPoll
    <3>1. /\ status = {} /\ status' = phy.irq /\ evt' = evt
          /\ phy' = [phy EXCEPT !.irq = {}]
      BY <2>1 DEF IntNPoll
    <3>2. phy'.irq = {} /\ phy'.air = phy.air /\ phy'.hard = phy.hard /\ phy'.fifo = phy.fifo
      BY <1>0, <3>1 DEF PhyType
    <3>3. QED BY <3>1, <3>2 DEF Verdict
  <2>2. CASE IntNTellRX \/ IntNTellHR
    <3>1. /\ phy' = phy /\ evt'.PE = evt.PE /\ evt'.TX = evt.TX
          /\ status' = status \ RxFlags \/ status' = status \ HrFlags
      BY <1>0, <2>2 DEF IntNTellRX, IntNTellHR, IntNTell, Signal, EvtType
    <3>2. QED BY <3>1 DEF Verdict, RxFlags, HrFlags
  <2>3. CASE IntNTellTX
    <3>1. /\ phy' = phy /\ evt'.PE = evt.PE /\ evt'.TX = evt.TX \cup (status \cap TxFlags)
          /\ status' = status \ TxFlags
      BY <1>0, <2>3 DEF IntNTellTX, IntNTell, Signal, EvtType
    <3>2. QED BY <3>1 DEF Verdict, TxFlags
  <2>4. CASE IntNTellPE
    <3>1. /\ phy' = phy /\ evt'.PE = evt.PE \cup {"I_OVRTEMP"} /\ evt'.TX = evt.TX
          /\ status = {"I_OVRTEMP"} /\ status' = {}
      BY <1>0, <2>4 DEF IntNTellPE, EvtType
    <3>2. QED BY <3>1 DEF Verdict, Told
  <2>5. CASE I2CDone \/ Application
    <3>1. /\ UNCHANGED <<phy, status>> /\ evt'.TX = evt.TX
          /\ evt'.PE \cap Told = evt.PE \cap Told
      BY <1>0, <2>5 DEF I2CDone, Application, MainBoot, ButtonPress, ButtonRelease,
         AskSourceCap, TellPE, EvtType, Told
    <3>2. QED BY <3>1 DEF Verdict
  <2>6. QED BY <2>1, <2>2, <2>3, <2>4, <2>5 DEF IntN
<1>3. NoSoftReset'
  BY <1>1, <1>2, ElseSilent DEF Numbering, NoSoftReset
<1>4. Counting'
  BY <1>1, <1>2, BystanderCounts DEF Numbering
<1>5. QED BY <1>3, <1>4 DEF Numbering

\* A source that starts no reset goes on with what the sink has asked of it.
LEMMA SourceNumbers ==
    ASSUME NoResets, IInv, HInv, NoneLeft', Numbering, Source PROVE Numbering'
<1>0. evt \in EvtType /\ phy \in PhyType /\ phy.fifo \in Seq(Msg) /\ src \in SrcType
      /\ src.out \in Seq(MsgType \cup {"transition"})
  BY DEF IInv, Kernel, Outside, PhyType, SrcType
<1>1. ~SrcHardReset /\ ~SrcSoftReset
  BY SpendKeeps DEF SrcHardReset, SrcSoftReset, HInv, Calm, NoResets
<1>2. threadsUnchanged /\ UNCHANGED <<evt, status>>
  <2>1. SrcSend => portUnchanged
    BY Zenon DEF SrcSend
  <2>2. SrcStart => portUnchanged
    BY Zenon DEF SrcStart
  <2>3. SrcTransition \/ SrcRecover => portUnchanged
    BY DEF SrcTransition, SrcRecover
  <2>4. QED BY <1>1, <2>1, <2>2, <2>3 DEF Source, portUnchanged
<1>3. UNCHANGED <<mem, pe, rx, tx, hr>>
  BY <1>2 DEF threadsUnchanged
<1>4. src.out # <<>> => /\ Head(src.out) # "SoftReset"
                        /\ \A i \in 1..Len(Tail(src.out)) : Tail(src.out)[i] # "SoftReset"
  <2>1. src.out # <<>> =>
          /\ 1 \in 1..Len(src.out) /\ Head(src.out) = src.out[1]
          /\ Len(Tail(src.out)) = Len(src.out) - 1 /\ Len(src.out) \in Nat
          /\ \A i \in 1..Len(Tail(src.out)) : Tail(src.out)[i] = src.out[i + 1]
    BY <1>0
  <2>2. QED BY <2>1 DEF Numbering, NoSoftReset
\* In every case.
<1>5. ASSUME src'.seen = src.seen, phy'.air = phy.air, phy'.hard = phy.hard,
             phy'.irq \in {phy.irq, phy.irq \cup {"I_GCRCSENT"}},
             \A i \in 1..Len(src'.out) : src'.out[i] # "SoftReset",
             \A i \in 1..Len(phy'.fifo) : phy'.fifo[i].type # "SoftReset"
      PROVE  Numbering'
  <2>1. Verdict' = Verdict
    BY <1>2, <1>5 DEF Verdict
  <2>2. NoSoftReset'
    BY <1>3, <1>5, ElseSilent DEF Numbering
  <2>3. Counting'
    BY <1>2, <1>3, <1>5, <2>1, BystanderCounts DEF Numbering
  <2>4. QED BY <2>2, <2>3 DEF Numbering
<1>6. CASE SrcSend
  <2> DEFINE t == Head(src.out)
             n == IF t = "SoftReset" THEN 0 ELSE src.id
             m == [type |-> t, id |-> n, obj |-> IF t = "SourceCap" THEN src.offer ELSE 0]
             s == [src EXCEPT !.seen = IF t = "SoftReset" THEN -1 ELSE @]
  <2>1. /\ src.out # <<>>
        /\ phy' = [phy EXCEPT !.fifo = Append(@, m), !.irq = Raise("I_GCRCSENT")]
        /\ \/ src' = [s EXCEPT !.out = Tail(@), !.id = (n + 1) % IdMod, !.again = FALSE,
                               !.awaits = IF t \in Answered THEN t ELSE "none"]
           \/ src' = [s EXCEPT !.again = TRUE]
    BY <1>6, Zenon DEF SrcSend
  <2>2. s = src
    BY <1>0, <1>4, <2>1 DEF SrcType
  <2>3. m.type # "SoftReset"
    BY <1>4, <2>1
  <2> HIDE DEF t, n, m, s
  <2>4. /\ phy'.fifo = Append(phy.fifo, m) /\ phy'.irq = phy.irq \cup {"I_GCRCSENT"}
        /\ phy'.air = phy.air /\ phy'.hard = phy.hard
    BY <1>0, <2>1 DEF PhyType, Raise
  <2>5. /\ Len(phy'.fifo) = Len(phy.fifo) + 1 /\ Len(phy.fifo) \in Nat
        /\ \A i \in 1..Len(phy.fifo) : phy'.fifo[i] = phy.fifo[i]
        /\ phy'.fifo[Len(phy.fifo) + 1] = m
    BY <1>0, <2>4
  <2>6. \A i \in 1..Len(phy'.fifo) : phy'.fifo[i].type # "SoftReset"
    BY <2>3, <2>5 DEF Numbering, NoSoftReset
  <2>7. src'.seen = src.seen /\ src'.out \in {src.out, Tail(src.out)}
    BY <1>0, <2>1, <2>2 DEF SrcType
  <2>8. \A i \in 1..Len(src'.out) : src'.out[i] # "SoftReset"
    BY <1>4, <2>1, <2>7 DEF Numbering, NoSoftReset
  <2>9. QED BY <1>5, <2>4, <2>6, <2>7, <2>8
<1>7. CASE SrcStart
  <2>1. PICK y \in SrcStarts \ {"SoftReset"} : \E o :
           src' = [src EXCEPT !.offer = o,
                     !.out = IF y = "GotoMin" THEN <<y, "PsRdy">> ELSE <<y>>]
    BY <1>7, Zenon DEF SrcStart
  <2>2. src'.seen = src.seen /\ src'.out = IF y = "GotoMin" THEN <<y, "PsRdy">> ELSE <<y>>
    BY <1>0, <2>1 DEF SrcType
  <2>3. \A i \in 1..Len(src'.out) : src'.out[i] # "SoftReset"
    BY <2>1, <2>2
  <2>4. phy' = phy
    BY <1>7, Zenon DEF SrcStart
  <2>5. QED BY <1>5, <2>2, <2>3, <2>4 DEF Numbering, NoSoftReset
<1>8. CASE SrcTransition \/ SrcRecover
  <2>1. /\ phy' = phy /\ src'.seen = src.seen
        /\ src'.out = src.out \/ (src.out # <<>> /\ src'.out = Tail(src.out))
    <3>1. CASE SrcTransition
      <4>1. /\ phy' = phy /\ src.out # <<>>
            /\ src' = [src EXCEPT !.out = Tail(@), !.vbus = src.next]
        BY <3>1 DEF SrcTransition
      <4>2. QED BY <1>0, <4>1 DEF SrcType
    <3>2. CASE SrcRecover
      <4>1. phy' = phy /\ src' = [src EXCEPT !.off = FALSE, !.vbus = 5000]
        BY <3>2 DEF SrcRecover
      <4>2. QED BY <1>0, <4>1 DEF SrcType
    <3>3. QED BY <1>8, <3>1, <3>2
  <2>2. \A i \in 1..Len(src'.out) : src'.out[i] # "SoftReset"
    BY <1>4, <2>1 DEF Numbering, NoSoftReset
  <2>3. QED BY <1>5, <2>1, <2>2 DEF Numbering, NoSoftReset
<1>9. QED BY <1>1, <1>6, <1>7, <1>8 DEF Source

\* The FUSB302B sends what is in the air, gives it up, or ends it by sending the
\* hard reset, after which the source has forgotten every MessageID.
LEMMA TransceiverNumbers ==
    ASSUME NoResets, IInv, Mail, Numbering, Transceiver PROVE Numbering'
<1>0. /\ phy \in PhyType /\ phy.fifo \in Seq(Msg) /\ src \in SrcType
  BY DEF IInv, Outside, PhyType
<1>1. threadsUnchanged /\ UNCHANGED <<evt, status>>
  BY DEF Transceiver, PhySent, PhyRetryFail, PhyHardSent, Overheat, portUnchanged
<1>2. UNCHANGED <<mem, pe, rx, tx, hr>>
  BY <1>1 DEF threadsUnchanged
<1>3. Troubled' = Troubled /\ Unsent' = Unsent
  BY <1>1, <1>2 DEF Troubled, Unsent
\* It takes the message out of the air, and says what has become of it.
<1>4. ASSUME phy.air # Nil, ~phy.hard, phy'.air = Nil, ~phy'.hard,
             NEW flag \in {"I_TXSENT", "I_RETRYFAIL"}, phy'.irq = phy.irq \cup {flag},
             flag = "I_TXSENT" => src'.seen = phy.air.id
      PROVE  Counting'
  <2>1. /\ ~Hushed /\ Hushed'
        /\ \/ tx.state = "PRLTxWaitResponse" /\ phy.air.id = tx.counter /\ Verdict = {}
           \/ tx.state \in {"PRLTxDiscardMessage", "PRLTxPHYReset"}
        /\ tx.message # NoBuf
    BY <1>4 DEF Hushed, Numbering, Counting, OnAir, Mail
  <2>2. ~Unsent'
    BY <1>2, <2>1 DEF Unsent
  <2>3. OnAir' /\ InStep'
    BY <2>1, <2>2 DEF OnAir, InStep
  <2>4. Forgotten'
    BY <1>2, <2>1 DEF Forgotten, Mail, TxWaits, Sending
  <2>5. tx.state = "PRLTxWaitResponse" /\ "I_TXSENT" \in Verdict' => Heard'
    <3>1. tx.state = "PRLTxWaitResponse" /\ "I_TXSENT" \in Verdict' => flag = "I_TXSENT"
      BY <1>1, <1>4, <2>1 DEF Verdict
    <3>2. QED BY <1>2, <1>4, <2>1, <3>1 DEF Heard
  <2>6. Flight'
    BY <1>2, <2>1, <2>5 DEF Flight
  <2>7. QED BY <2>3, <2>4, <2>6 DEF Counting
<1>5. CASE PhySent
  <2> DEFINE g == [type |-> "GoodCRC", id |-> phy.air.id, obj |-> 0]
  <2>1. /\ phy.air # Nil /\ ~phy.hard
        /\ phy' = [phy EXCEPT !.fifo = Append(@, g), !.irq = Raise("I_TXSENT"), !.air = Nil]
    BY <1>5 DEF PhySent
  <2>2. g.type = "GoodCRC"
    OBVIOUS
  <2>3. \E r \in {"Accept", "Reject", "Wait"} : src' = AfterMessage(phy.air, r)
    BY <1>5, PortAssumption DEF PhySent, SrcHears
  <2> HIDE DEF g
  <2>4. /\ phy'.fifo = Append(phy.fifo, g) /\ phy'.irq = phy.irq \cup {"I_TXSENT"}
        /\ phy'.air = Nil /\ ~phy'.hard
    BY <1>0, <2>1 DEF PhyType, Raise
  <2>5. /\ Len(phy'.fifo) = Len(phy.fifo) + 1 /\ Len(phy.fifo) \in Nat
        /\ \A i \in 1..Len(phy.fifo) : phy'.fifo[i] = phy.fifo[i]
        /\ phy'.fifo[Len(phy.fifo) + 1] = g
    BY <1>0, <2>4
  <2>6. \A i \in 1..Len(phy'.fifo) : phy'.fifo[i].type # "SoftReset"
    BY <2>2, <2>5 DEF Numbering, NoSoftReset
  <2>7. src'.seen = phy.air.id /\ \A i \in 1..Len(src'.out) : src'.out[i] # "SoftReset"
    <3>1. PICK r \in {"Accept", "Reject", "Wait"} : src' = AfterMessage(phy.air, r)
      BY <2>3
    <3>2. \A i \in 1..Len(src.out) : src.out[i] # "SoftReset"
      BY DEF Numbering, NoSoftReset
    <3>3. QED BY <1>0, <3>1, <3>2, HeardBy
  <2>8. NoSoftReset'
    BY <1>2, <2>6, <2>7, ElseSilent DEF Numbering
  <2>9. Counting'
    BY <1>4, <2>1, <2>4, <2>7
  <2>10. QED BY <2>8, <2>9 DEF Numbering
<1>6. CASE PhyRetryFail
  <2>1. /\ phy.air # Nil /\ ~phy.hard
        /\ phy' = [phy EXCEPT !.irq = Raise("I_RETRYFAIL"), !.air = Nil]
        /\ src' \in {src, AfterMessage(phy.air, "Accept")}
    BY <1>6 DEF PhyRetryFail
  <2>2. /\ phy'.fifo = phy.fifo /\ phy'.irq = phy.irq \cup {"I_RETRYFAIL"}
        /\ phy'.air = Nil /\ ~phy'.hard
    BY <1>0, <2>1 DEF PhyType, Raise
  <2>3. \A i \in 1..Len(src'.out) : src'.out[i] # "SoftReset"
    BY <1>0, <2>1, HeardBy DEF Numbering, NoSoftReset
  <2>4. NoSoftReset'
    BY <1>2, <2>2, <2>3, ElseSilent DEF Numbering, NoSoftReset
  <2>5. Counting'
    BY <1>4, <2>1, <2>2
  <2>6. QED BY <2>4, <2>5 DEF Numbering
<1>7. CASE PhyHardSent
  <2>1. /\ phy' = [phy EXCEPT !.irq = Raise("I_HARDSENT"), !.hard = FALSE, !.air = Nil]
        /\ src' = AfterHardReset
    BY <1>7 DEF PhyHardSent
  <2>2. /\ phy'.fifo = phy.fifo /\ phy'.irq = phy.irq \cup {"I_HARDSENT"}
        /\ phy'.air = Nil /\ src'.seen = -1 /\ src'.out = <<"SourceCap">>
    BY <1>0, <2>1 DEF PhyType, Raise, AfterHardReset, SrcType
  <2>3. Hushed' /\ Heard' /\ \A n : Follows(n)'
    BY <2>2 DEF Hushed, Heard, Follows
  <2>4. \A i \in 1..Len(src'.out) : src'.out[i] # "SoftReset"
    BY <2>2
  <2>5. NoSoftReset'
    BY <1>2, <2>2, <2>4, ElseSilent DEF Numbering, NoSoftReset
  <2>6. OnAir' /\ InStep' /\ Forgotten'
    BY <2>2, <2>3 DEF OnAir, InStep, Forgotten, Follows
  <2>7. Flight'
    BY <1>2, <2>3 DEF Numbering, Counting, Flight
  <2>8. QED BY <2>5, <2>6, <2>7 DEF Numbering, Counting
<1>8. CASE Overheat
  <2>1. /\ phy' = [phy EXCEPT !.irq = Raise("I_OVRTEMP")] /\ src' = src
    BY <1>8 DEF Overheat
  <2>2. /\ phy'.fifo = phy.fifo /\ phy'.irq = phy.irq \cup {"I_OVRTEMP"}
        /\ phy'.air = phy.air /\ phy'.hard = phy.hard
    BY <1>0, <2>1 DEF PhyType, Raise
  <2>3. Verdict' = Verdict
    BY <1>1, <2>2 DEF Verdict
  <2>4. NoSoftReset'
    BY <1>2, <2>1, <2>2, ElseSilent DEF Numbering, NoSoftReset
  <2>5. Counting'
    BY <1>1, <1>2, <2>1, <2>2, <2>3, BystanderCounts DEF Numbering
  <2>6. QED BY <2>4, <2>5 DEF Numbering
<1>9. QED BY <1>5, <1>6, <1>7, <1>8 DEF Transceiver

-----------------------------------------------------------------------------
(* The theorem.                                                            *)
LEMMA InitNumbering == ASSUME NoResets, Init PROVE Numbering
<1>1. /\ src.out = <<"SourceCap">> /\ src.seen = -1 /\ phy.fifo = <<>> /\ phy.air = Nil
      /\ rx.state = "PRLRxWaitPHY" /\ tx.state = "PRLTxPHYReset"
      /\ pe.state = "PESinkStartup" /\ mem = [b \in Buf |-> Junk]
  BY DEF Init, PEInit, RXInit, TXInit, PhyInit, SrcInit
<1>2. NoSoftReset
  <2>1. /\ \A i \in 1..Len(src.out) : src.out[i] # "SoftReset"
        /\ \A i \in 1..Len(phy.fifo) : phy.fifo[i].type # "SoftReset"
    BY <1>1
  <2>2. QED BY <1>1, <2>1 DEF NoSoftReset, NoResets
<1>3. Counting
  BY <1>1 DEF Counting, OnAir, Hushed, Flight, InStep, Follows, Forgotten
<1>4. QED BY <1>2, <1>3 DEF Numbering

LEMMA StepNumbering ==
    ASSUME NoResets, IInv, OInv, HInv, Mail, Numbering, OwnVerdict, [Next]_vars
    PROVE  Numbering'
<1>1. CASE UNCHANGED vars
  BY <1>1 DEF vars, kernelVars, partnerVars, Numbering, NoSoftReset, Counting, OnAir,
     Hushed, Flight, Heard, InStep, Follows, Troubled, Unsent, Forgotten, Verdict
<1>2. CASE Next
  <2>1. TXNext => Numbering'
    BY TXNoSoftReset, TXCounts DEF Numbering
  <2>2. NoneLeft'
    BY <1>2, BudgetKept DEF HInv, Calm
  <2>3. QED BY <1>2, <2>1, <2>2, PENumbers, RXNumbers, HRNumbers, IntNNumbers,
            SourceNumbers, TransceiverNumbers DEF Next
<1>3. QED BY <1>1, <1>2

\* The source hears every new message of the sink: whatever fails, is discarded,
\* times out or is ended by a hard reset of the sink's own, what is sent has not
\* the MessageID of the last message the source heard, so that it takes nothing
\* for a retransmission.  This is so in an environment that starts no reset, and
\* as long as the TX thread sends nothing while the verdict on an earlier message
\* is under way (the run live checks that it does not).
THEOREM NewIdsHeard == NoResets => (Spec /\ []OwnVerdict => SourceHears)
<1> SUFFICES ASSUME NoResets PROVE Spec /\ []OwnVerdict => SourceHears
  OBVIOUS
<1>1. Init => Numbering
  BY InitNumbering
<1>2. IInv /\ OInv /\ HInv /\ Mail /\ OwnVerdict /\ Numbering /\ [Next]_vars => Numbering'
  BY StepNumbering
<1>3. Numbering /\ [Next]_vars =>
        [PhySent /\ pe.resets = 0 =>
           phy.air.type = "SoftReset" \/ phy.air.id # src.seen]_vars
  BY DEF Numbering, Counting, OnAir, Hushed, PhySent
<1>4. Spec => [](IInv /\ OInv /\ HInv /\ Mail)
  BY Handshakes DEF NoResets
<1>5. QED BY <1>1, <1>2, <1>3, <1>4, PTL DEF Spec, SourceHears
=============================================================================
