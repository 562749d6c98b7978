---------------------------- MODULE PDStackProofs ----------------------------
(***************************************************************************)
(* Proofs about PDStack, for every pool size, number of MessageIDs,        *)
(* configuration, offer and environment.                                   *)
(***************************************************************************)
EXTENDS PDStack, TLAPS

-----------------------------------------------------------------------------
(* TypeOK in parts: what the kernel's services keep, and the rest.         *)
EvtType == [PE: SUBSET PEEvent, RX: SUBSET RXEvent, TX: SUBSET TXEvent,
            HR: SUBSET HREvent]
SchedType == [ready: Seq({"RX", "TX", "HR"}), bus: Seq({"RX", "TX"})]
BoxType == [PE: Seq(Buf), TX: Seq(Buf)]
MemType == [Buf -> Msg]
FaultType == {"none", "nullAlloc", "nullMessage", "freedWrite"}

-----------------------------------------------------------------------------
(* The kernel's services keep the types of what they change.               *)

\* chEvtSignal may add its receiver to the ready list, and nothing else.
LEMMA WokenType ==
    ASSUME sched \in SchedType, NEW t \in {"RX", "TX", "HR"}, NEW x
    PROVE  Woken(t, x) \in Seq({"RX", "TX", "HR"})
BY DEF Woken, SchedType

\* chEvtSignal with flags that the receiver has bits for.
LEMMA SignalType ==
    ASSUME sched \in SchedType, evt \in EvtType,
           NEW t \in {"RX", "TX", "HR"}, NEW x, Signal(t, x),
           x \subseteq (IF t = "RX" THEN RXEvent
                        ELSE IF t = "TX" THEN TXEvent ELSE HREvent)
    PROVE  evt' \in EvtType /\ sched' \in SchedType
<1>1. Woken(t, x) \in Seq({"RX", "TX", "HR"})
  BY WokenType
<1>2. sched' \in SchedType
  BY <1>1 DEF Signal, SchedType
<1>3. evt' \in EvtType
  BY DEF Signal, EvtType
<1>4. QED BY <1>2, <1>3

\* chThdYield puts the running thread behind the equals it lets run.
LEMMA YieldType ==
    ASSUME sched \in SchedType, NEW me \in {"RX", "TX", "HR"},
           NEW t \in {"RX", "TX", "HR"}, NEW x, sched.ready # <<>>,
           Yield(me, t, x)
    PROVE  sched' \in SchedType
<1>1. Woken(t, x) \in Seq({"RX", "TX", "HR"}) /\ Woken(t, x) # <<>>
  BY DEF Woken, SchedType
<1>2. Tail(Woken(t, x)) \in Seq({"RX", "TX", "HR"})
  BY <1>1
<1>3. Append(Tail(Woken(t, x)), me) \in Seq({"RX", "TX", "HR"})
  BY <1>2
<1>4. QED BY <1>3 DEF Yield, SchedType

\* A thread that goes to another state blocks, runs on or queues for the bus.
LEMMA EnterType ==
    ASSUME sched \in SchedType, NEW me \in {"RX", "TX", "HR"}, NEW s,
           sched.ready # <<>>, me = "HR" => s \notin I2CState,
           Enter(me, s)
    PROVE  sched' \in SchedType
<1>1. Tail(sched.ready) \in Seq({"RX", "TX", "HR"})
  BY DEF SchedType
<1>2. SubSeq(sched.bus, 2, Len(sched.bus)) \in Seq({"RX", "TX"})
  BY DEF SchedType
<1>3. QED BY <1>1, <1>2 DEF Enter, SchedType

\* chPoolFree.
LEMMA FreedType ==
    ASSUME pool \in Seq(Buf), mem \in MemType, NEW b \in Buf, Freed(b)
    PROVE  pool' \in Seq(Buf) /\ mem' \in MemType
<1>1. <<b>> \o pool \in Seq(Buf)
  OBVIOUS
<1>2. QED BY <1>1, JunkAssumption DEF Freed, MemType

\* A null pointer is no buffer.
LEMMA NoBufOutside == NoBuf \notin Buf
BY DEF NoBuf, Buf

\* The value the MessageID counters are reset to is a MessageID.
LEMMA ZeroIsId == 0 \in Id
BY IdAssumption DEF Id

\* The value that stands for silence on the wire.
LEMMA NilIsMsg == Nil \in Msg
BY ZeroIsId DEF Nil, Message, Msg, MsgType

\* chMBPost: the mailbox is not empty afterwards, and the other is as it was.
LEMMA PostedType ==
    ASSUME box \in BoxType, NEW m \in {"PE", "TX"}, NEW b \in Buf
    PROVE  /\ Posted(m, b) \in BoxType
           /\ Posted(m, b)[m] # <<>>
           /\ \A n \in {"PE", "TX"} : n # m => Posted(m, b)[n] = box[n]
<1>1. box[m] \in Seq(Buf) /\ Append(box[m], b) \in Seq(Buf)
  BY DEF BoxType
<1>2. Append(box[m], b) # <<>> /\ (box[m] = <<>> => Len(box[m]) < PoolSize)
  BY <1>1, PoolAssumption
<1>3. QED BY <1>1, <1>2 DEF Posted, BoxType


-----------------------------------------------------------------------------
(* The inductive invariant.                                                *)
Kernel == /\ evt \in EvtType /\ sched \in SchedType /\ box \in BoxType
          /\ pool \in Seq(Buf) /\ mem \in MemType /\ fault \in FaultType

\* The threads of the protocol layer, and the buffers they hold in a state.
TXHolding == {"PRLTxReset", "PRLTxConstructMessage", "PRLTxSinkTx", "PRLTxSend"}
Link == /\ rx \in RXType /\ tx \in TXType /\ hr \in HRType
        /\ rx.state # "PRLRxWaitPHY" => rx.message # NoBuf
        /\ tx.state \in TXHolding => tx.message # NoBuf

Outside == phy \in PhyType /\ status \in SUBSET Interrupt /\ src \in SrcType

\* The states the Policy Engine is in under a contract, those in which it has
\* asked for one, and those in which it has handed a message to the TX thread.
Settled == {"PESinkReady", "PESinkGetSourceCap", "PESinkGetSourceCapTx",
            "PESinkGiveSinkCap", "PESinkGiveSinkCapTx",
            "PESinkSendNotSupported", "PESinkSendNotSupportedTx",
            "PESinkChunkReceived", "PESinkNotSupportedReceived"}
Asking == Settled \cup {"PESinkSelectCap", "PESinkSelectCapTx",
                        "PESinkSelectCapRx", "PESinkTransitionSink"}
Sending == {"PESinkGetSourceCapTx", "PESinkGiveSinkCapTx", "PESinkSoftResetTx",
            "PESinkSendSoftResetTx", "PESinkSendNotSupportedTx"}

Policy == /\ pe \in PEType /\ dpm \in DPMType
          /\ pe.state \in Asking => /\ pe.request # NoBuf /\ dpm.caps # NoBuf
                                    /\ pe.message = NoBuf
          /\ pe.state \in Settled => pe.contract
          /\ pe.state \in Sending => pe.sending # NoBuf
          /\ pe.state = "PESinkHardResetSent" => pe.resets <= N_HARD_RESET_COUNT
          /\ pe.state = "PESinkStartup" => ~dpm.output
          /\ OutputUnderContract

IInv == Kernel /\ Link /\ Outside /\ Policy /\ FlagMeansMail

-----------------------------------------------------------------------------
(* The receiving thread.                                                   *)

\* No step of the receiving thread breaks the invariant.
LEMMA RXStep == ASSUME IInv, RXNext PROVE IInv'
<1> USE DEF IInv, Kernel, Link, rxUnchanged
<1>1. sched.ready # <<>> /\ UNCHANGED <<pe, dpm, hr, status, src>>
  BY DEF RXNext, RxWaitPHY, RxRead, RxReset, RxResetYielded, RxCheckMessageID,
         RxStoreMessageID, RxStoreYielded, RXAt, Runs, Fault, partnerVars
<1>2. Policy'
  BY <1>1 DEF Policy, OutputUnderContract
<1>3. CASE RxWaitPHY
  <2>1. CASE "RESET" \notin evt.RX /\ pool = <<>>
    BY <1>2, <1>3, <2>1 DEF RxWaitPHY, Fault, FaultType, Outside, FlagMeansMail,
                            partnerVars
  <2>2. CASE ~("RESET" \notin evt.RX /\ pool = <<>>)
    <3>1. evt' \in EvtType /\ FlagMeansMail'
      BY <1>3, <2>2 DEF RxWaitPHY, EvtType, FlagMeansMail
    <3>2. sched' \in SchedType
      BY <1>1, <1>3, <2>2, EnterType DEF RxWaitPHY, RXGoto
    <3>3. rx' \in RXType /\ (rx'.state # "PRLRxWaitPHY" => rx'.message # NoBuf)
          /\ pool' \in Seq(Buf)
      <4>1. CASE "RESET" \in evt.RX
        BY <1>3, <2>2, <4>1 DEF RxWaitPHY, RXGoto, RXAt, RXType, RXState
      <4>2. CASE "RESET" \notin evt.RX
        <5>1. pool # <<>> /\ Head(pool) \in Buf /\ Tail(pool) \in Seq(Buf)
          BY <2>2, <4>2
        <5>2. Head(pool) # NoBuf
          BY <5>1, NoBufOutside
        <5>3. QED BY <1>3, <2>2, <4>2, <5>1, <5>2 DEF RxWaitPHY, RXType, RXState
      <4>3. QED BY <4>1, <4>2
    <3>4. QED BY <1>1, <1>2, <1>3, <2>2, <3>1, <3>2, <3>3 DEF RxWaitPHY, Outside
  <2>3. QED BY <2>1, <2>2
<1>4. CASE RxRead
  <2>1. phy.fifo # <<>> => Head(phy.fifo) \in Msg /\ Tail(phy.fifo) \in Seq(Msg)
    BY DEF Outside, PhyType
  <2>2. phy' \in PhyType /\ mem' \in MemType
    BY <1>4, <2>1 DEF RxRead, Outside, PhyType, MemType
  <2>3. sched' \in SchedType
    BY <1>1, <1>4, EnterType DEF RxRead, RXGoto
  <2>4. rx' \in RXType /\ rx'.message # NoBuf
    BY <1>4 DEF RxRead, RXGoto, RXAt, RXType, RXState
  <2>5. QED BY <1>1, <1>2, <1>4, <2>2, <2>3, <2>4 DEF RxRead, Outside, FlagMeansMail
<1>5. CASE RxReset
  <2>1. evt' \in EvtType /\ sched' \in SchedType /\ FlagMeansMail'
    BY <1>1, <1>5, YieldType
       DEF RxReset, SignalAndYield, EvtType, TXEvent, FlagMeansMail
  <2>2. rx' \in RXType /\ rx'.message # NoBuf
    BY <1>5 DEF RxReset, RXAt, RXType, RXState
  <2>3. tx' \in TXType
    BY <1>5, ZeroIsId DEF RxReset, TXType
  <2>4. tx'.state = tx.state /\ tx'.message = tx.message
    BY <1>5 DEF RxReset, TXType
  <2>5. QED BY <1>1, <1>2, <1>5, <2>1, <2>2, <2>3, <2>4 DEF RxReset, Outside
<1>6. ASSUME RxDrop, rx.message # NoBuf
      PROVE  /\ pool' \in Seq(Buf) /\ mem' \in MemType /\ sched' \in SchedType
             /\ rx' \in RXType /\ rx'.state = "PRLRxWaitPHY"
  <2>1. rx.message \in Buf
    BY <1>6 DEF RXType
  <2>2. pool' \in Seq(Buf) /\ mem' \in MemType
    BY <1>6, <2>1, FreedType DEF RxDrop
  <2>3. sched' \in SchedType
    BY <1>1, <1>6, EnterType DEF RxDrop
  <2>4. QED BY <1>6, <2>2, <2>3 DEF RxDrop, RXType, RXState
<1>7. CASE RxResetYielded
  <2>1. evt' \in EvtType /\ FlagMeansMail' /\ rx.message # NoBuf
    BY <1>7 DEF RxResetYielded, RXAt, EvtType, FlagMeansMail
  <2>2. CASE RxDrop
    BY <1>1, <1>2, <1>6, <1>7, <2>1, <2>2 DEF RxResetYielded, Outside
  <2>3. CASE RXGoto("PRLRxCheckMessageID") /\ UNCHANGED <<pool, mem>>
    <3>1. sched' \in SchedType
      BY <1>1, <2>3, EnterType DEF RXGoto
    <3>2. rx' \in RXType /\ rx'.message # NoBuf
      BY <2>1, <2>3 DEF RXGoto, RXType, RXState
    <3>3. QED BY <1>1, <1>2, <1>7, <2>1, <2>3, <3>1, <3>2
              DEF RxResetYielded, Outside
  <2>4. QED BY <1>7, <2>2, <2>3 DEF RxResetYielded
<1>8. CASE RxCheckMessageID
  <2>1. evt' \in EvtType /\ FlagMeansMail' /\ rx.message # NoBuf
    BY <1>8 DEF RxCheckMessageID, RXAt, EvtType, FlagMeansMail
  <2>2. CASE RxDrop
    BY <1>1, <1>2, <1>6, <1>8, <2>1, <2>2 DEF RxCheckMessageID, Outside
  <2>3. CASE RXGoto("PRLRxStoreMessageID") /\ UNCHANGED <<pool, mem>>
    <3>1. sched' \in SchedType
      BY <1>1, <2>3, EnterType DEF RXGoto
    <3>2. rx' \in RXType /\ rx'.message # NoBuf
      BY <2>1, <2>3 DEF RXGoto, RXType, RXState
    <3>3. QED BY <1>1, <1>2, <1>8, <2>1, <2>3, <3>1, <3>2
              DEF RxCheckMessageID, Outside
  <2>4. QED BY <1>8, <2>2, <2>3 DEF RxCheckMessageID
<1>9. CASE RxStoreMessageID
  <2>1. evt' \in EvtType /\ sched' \in SchedType /\ FlagMeansMail'
    BY <1>1, <1>9, YieldType
       DEF RxStoreMessageID, SignalAndYield, EvtType, TXEvent, FlagMeansMail
  <2>2. rx' \in RXType /\ rx'.message # NoBuf
    BY <1>9 DEF RxStoreMessageID, RXAt, RXType, RXState
  <2>3. QED BY <1>1, <1>2, <1>9, <2>1, <2>2 DEF RxStoreMessageID, Outside
<1>10. CASE RxStoreYielded
  <2>1. rx.message \in Buf
    BY <1>10 DEF RxStoreYielded, RXAt, RXType
  <2>2. box' \in BoxType /\ box'.PE # <<>> /\ box'.TX = box.TX
    BY <1>10, <2>1, PostedType DEF RxStoreYielded
  <2>3. evt' \in EvtType /\ evt'.TX = evt.TX
    BY <1>10 DEF RxStoreYielded, EvtType, PEEvent
  <2>4. sched' \in SchedType
    BY <1>1, <1>10, EnterType DEF RxStoreYielded
  <2>5. mem[rx.message].id \in Id
    BY <2>1 DEF MemType, Msg
  <2>6. rx' \in RXType /\ rx'.state = "PRLRxWaitPHY"
    BY <1>10, <2>5 DEF RxStoreYielded, RXType, RXState
  <2>7. QED BY <1>1, <1>2, <1>10, <2>2, <2>3, <2>4, <2>6
            DEF RxStoreYielded, Outside, FlagMeansMail
<1>11. QED BY <1>3, <1>4, <1>5, <1>7, <1>8, <1>9, <1>10 DEF RXNext


-----------------------------------------------------------------------------
(* The transmitting thread.                                                *)

\* A MessageID counter wraps within its three bits.
LEMMA IncrementedIsId == ASSUME tx \in TXType PROVE Incremented \in Id
BY IdAssumption DEF TXType, Incremented, Id

\* No step of the transmitting thread breaks the invariant.
LEMMA TXStep == ASSUME IInv, TXNext PROVE IInv'
<1> USE DEF IInv, Kernel, Link, txUnchanged
<1>1. sched.ready # <<>> /\ UNCHANGED <<pool, pe, dpm, rx, hr, status, src>>
  BY DEF TXNext, TxPHYReset, TxWaitMessage, TxReset, TxConstructMessage, TxSinkTx,
         TxSend, TxWaitResponse, TxMatchMessageID, TxTransmissionError,
         TxMessageSent, TxOver, TxDiscardMessage, TXAt, Runs, Fault, partnerVars
<1>2. Policy'
  BY <1>1 DEF Policy, OutputUnderContract
\* Going to another state: it keeps the message and its ID.
<1>3. ASSUME NEW s \in TXState, TXGoto(s), s \in TXHolding => tx.message # NoBuf
      PROVE  sched' \in SchedType /\ tx' \in TXType
             /\ (tx'.state \in TXHolding => tx'.message # NoBuf)
  <2>1. sched' \in SchedType
    BY <1>1, <1>3, EnterType DEF TXGoto
  <2>2. QED BY <1>3, <2>1 DEF TXGoto, TXType
<1>4. CASE TxPHYReset
  <2>1. phy' \in PhyType
    <3>1. <<>> \in Seq(Msg)
      OBVIOUS
    <3>2. QED BY <1>4, <3>1, NilIsMsg DEF TxPHYReset, Outside, PhyType
  <2>2. evt' \in EvtType /\ FlagMeansMail'
    BY <1>4 DEF TxPHYReset, EvtType, PEEvent, FlagMeansMail
  <2>3. sched' \in SchedType
    BY <1>1, <1>4, EnterType DEF TxPHYReset
  <2>4. tx' \in TXType /\ tx'.state \notin TXHolding
    BY <1>4 DEF TxPHYReset, TXType, TXState, TXHolding
  <2>5. QED BY <1>1, <1>2, <1>4, <2>1, <2>2, <2>3, <2>4 DEF TxPHYReset, Outside
<1>5. CASE TxWaitMessage
  <2>1. evt' \in EvtType /\ evt'.PE = evt.PE /\ "MSG_TX" \notin evt'.TX
    BY <1>5 DEF TxWaitMessage, EvtType, WaitMask
  <2>2. CASE /\ \/ TXGoto("PRLTxPHYReset") \/ TXGoto("PRLTxDiscardMessage")
             /\ UNCHANGED box
    BY <1>1, <1>2, <1>3, <1>5, <2>1, <2>2
       DEF TxWaitMessage, Outside, FlagMeansMail, TXState, TXHolding
  <2>3. ASSUME box.TX # <<>>, box' = [box EXCEPT !.TX = Tail(@)],
               NEW s \in {"PRLTxReset", "PRLTxConstructMessage"},
               tx' = [tx EXCEPT !.state = s, !.message = Head(box.TX)],
               Enter("TX", s)
        PROVE  IInv'
    <3>1. Head(box.TX) \in Buf /\ box' \in BoxType /\ box'.PE = box.PE
      <4>1. Head(box.TX) \in Buf /\ Tail(box.TX) \in Seq(Buf)
        BY <2>3 DEF BoxType
      <4>2. QED BY <2>3, <4>1 DEF BoxType
    <3>2. sched' \in SchedType
      BY <1>1, <2>3, EnterType
    <3>3. tx' \in TXType /\ tx'.message # NoBuf
      BY <2>3, <3>1, NoBufOutside DEF TXType, TXState
    <3>4. QED BY <1>1, <1>2, <1>5, <2>1, <3>1, <3>2, <3>3
              DEF TxWaitMessage, Outside, FlagMeansMail
  <2>4. QED BY <1>5, <2>2, <2>3 DEF TxWaitMessage
<1>6. CASE TxReset
  <2>1. evt' \in EvtType /\ sched' \in SchedType /\ FlagMeansMail'
    BY <1>1, <1>6, YieldType
       DEF TxReset, SignalAndYield, EvtType, RXEvent, FlagMeansMail
  <2>2. tx' \in TXType /\ tx'.message # NoBuf
    BY <1>6, ZeroIsId DEF TxReset, TXAt, TXType, TXState, TXHolding
  <2>3. QED BY <1>1, <1>2, <1>6, <2>1, <2>2 DEF TxReset, Outside
<1>7. CASE TxConstructMessage
  <2>1. CASE Fault("freedWrite")
    BY <1>2, <2>1 DEF Fault, FaultType, Outside, FlagMeansMail, partnerVars
  <2>2. CASE ~Fault("freedWrite")
    <3>1. evt' \in EvtType /\ evt'.PE = evt.PE /\ evt'.TX \subseteq evt.TX
      BY <1>7, <2>2 DEF TxConstructMessage, EvtType
    <3>2. mem' \in MemType
      BY <1>7, <2>2 DEF TxConstructMessage, MemType, Msg, TXType
    <3>3. \E s \in {"PRLTxPHYReset", "PRLTxDiscardMessage", "PRLTxSinkTx",
                    "PRLTxSend"} : TXGoto(s)
      BY <1>7, <2>2 DEF TxConstructMessage
    <3>4. tx.message # NoBuf
      BY <1>7 DEF TxConstructMessage, TXAt, TXHolding
    <3>5. sched' \in SchedType /\ tx' \in TXType
          /\ (tx'.state \in TXHolding => tx'.message # NoBuf)
      BY <1>3, <3>3, <3>4 DEF TXState
    <3>6. QED BY <1>1, <1>2, <1>7, <2>2, <3>1, <3>2, <3>5
              DEF TxConstructMessage, Outside, FlagMeansMail
  <2>3. QED BY <2>1, <2>2
<1>8. CASE TxSinkTx
  <2>1. tx.message # NoBuf
    BY <1>8 DEF TxSinkTx, TXAt, TXHolding
  <2>2. QED BY <1>1, <1>2, <1>3, <1>8, <2>1
            DEF TxSinkTx, Outside, FlagMeansMail, TXState
<1>9. CASE TxSend
  <2>1. tx.message \in Buf
    BY <1>9 DEF TxSend, TXAt, TXHolding, TXType
  <2>2. phy' \in PhyType
    BY <1>9, <2>1 DEF TxSend, Outside, PhyType, MemType
  <2>3. QED BY <1>1, <1>2, <1>3, <1>9, <2>2
            DEF TxSend, Outside, FlagMeansMail, TXState, TXHolding
<1>10. CASE TxWaitResponse
  <2>1. evt' \in EvtType /\ evt'.PE = evt.PE /\ evt'.TX \subseteq evt.TX
    BY <1>10 DEF TxWaitResponse, EvtType
  <2>2. \E s \in {"PRLTxPHYReset", "PRLTxDiscardMessage",
                  "PRLTxMatchMessageID", "PRLTxTransmissionError"} : TXGoto(s)
    BY <1>10 DEF TxWaitResponse
  <2>3. QED BY <1>1, <1>2, <1>3, <1>10, <2>1, <2>2
            DEF TxWaitResponse, Outside, FlagMeansMail, TXState, TXHolding
<1>11. CASE TxMatchMessageID
  <2>1. phy' \in PhyType
    <3>1. phy.fifo # <<>> => Tail(phy.fifo) \in Seq(Msg)
      BY DEF Outside, PhyType
    <3>2. QED BY <1>11, <3>1 DEF TxMatchMessageID, Outside, PhyType
  <2>2. \E s \in {"PRLTxMessageSent", "PRLTxTransmissionError"} : TXGoto(s)
    BY <1>11 DEF TxMatchMessageID
  <2>3. QED BY <1>1, <1>2, <1>3, <1>11, <2>1, <2>2
            DEF TxMatchMessageID, Outside, FlagMeansMail, TXState, TXHolding
<1>12. ASSUME NEW s, NEW flag \in {"TX_ERR", "TX_DONE"}, TxOver(s, flag)
       PROVE  IInv'
  <2>1. evt' \in EvtType /\ FlagMeansMail'
    BY <1>12 DEF TxOver, EvtType, PEEvent, FlagMeansMail
  <2>2. sched' \in SchedType
    BY <1>1, <1>12, EnterType DEF TxOver
  <2>3. tx' \in TXType /\ tx'.state \notin TXHolding
    BY <1>12, IncrementedIsId DEF TxOver, TXType, TXState, TXHolding
  <2>4. QED BY <1>1, <1>2, <1>12, <2>1, <2>2, <2>3 DEF TxOver, Outside
<1>13. CASE TxDiscardMessage
  <2>1. sched' \in SchedType
    BY <1>1, <1>13, EnterType DEF TxDiscardMessage
  <2>2. tx' \in TXType /\ tx'.state \notin TXHolding
    BY <1>13, IncrementedIsId DEF TxDiscardMessage, TXType, TXState, TXHolding
  <2>3. QED BY <1>1, <1>2, <1>13, <2>1, <2>2
            DEF TxDiscardMessage, Outside, FlagMeansMail
<1>14. QED BY <1>4, <1>5, <1>6, <1>7, <1>8, <1>9, <1>10, <1>11, <1>12, <1>13
           DEF TXNext, TxTransmissionError, TxMessageSent

-----------------------------------------------------------------------------
(* The hard reset thread.                                                  *)

\* No step of the hard reset thread breaks the invariant.
LEMMA HRStep == ASSUME IInv, HRNext PROVE IInv'
<1> USE DEF IInv, Kernel, Link, hrUnchanged
<1>1. UNCHANGED <<box, pool, mem, fault, pe, dpm, status, src>>
  BY DEF HRNext, HrResetLayer, HrResetYielded, HrIndicateHardReset, HrTellPE,
         HrRequestHardReset, HrWaitPHY, HrTimeout, HrHardResetRequested, HrWaitPE,
         partnerVars
<1>2. Policy'
  BY <1>1 DEF Policy, OutputUnderContract
<1>3. ASSUME NEW s \in HRState, sched.ready # <<>>, HRGoto(s)
      PROVE  sched' \in SchedType /\ hr' \in HRType
  <2>1. s \notin I2CState
    BY DEF HRState, I2CState
  <2>2. sched' \in SchedType
    BY <1>3, <2>1, EnterType DEF HRGoto
  <2>3. QED BY <1>3, <2>2 DEF HRGoto, HRType
<1>4. CASE HrResetLayer
  <2>1. evt' \in EvtType /\ evt'.PE = evt.PE /\ evt'.TX = evt.TX
    BY <1>4 DEF HrResetLayer, EvtType, RXEvent
  <2>2. sched' \in SchedType
    BY <1>4, YieldType DEF HrResetLayer, HRAt, Runs
  <2>3. hr' \in HRType
    BY <1>4 DEF HrResetLayer, HRType, HRState
  <2>4. rx' \in RXType /\ tx' \in TXType
    BY <1>4, ZeroIsId DEF HrResetLayer, RXType, TXType
  <2>5. /\ rx'.state = rx.state /\ rx'.message = rx.message
        /\ tx'.state = tx.state /\ tx'.message = tx.message
    BY <1>4 DEF HrResetLayer, RXType, TXType
  <2>6. QED BY <1>1, <1>2, <1>4, <2>1, <2>2, <2>3, <2>4, <2>5
            DEF HrResetLayer, Outside, FlagMeansMail
<1>5. CASE HrResetYielded
  <2>1. /\ evt' \in EvtType /\ evt'.PE = evt.PE /\ sched' \in SchedType
        /\ evt'.TX = evt.TX \cup {"RESET"}
    BY <1>5, YieldType
       DEF HrResetYielded, SignalAndYield, HRAt, Runs, EvtType, TXEvent
  <2>2. hr' \in HRType
    BY <1>5 DEF HrResetYielded, HRType, HRState
  <2>3. QED BY <1>1, <1>2, <1>5, <2>1, <2>2
            DEF HrResetYielded, Outside, FlagMeansMail
<1>6. ASSUME NEW s, NEW flag \in {"RESET", "HARD_SENT"}, HrTellPE(s, flag)
      PROVE  IInv'
  <2>1. evt' \in EvtType /\ FlagMeansMail'
    BY <1>6, <1>1 DEF HrTellPE, EvtType, PEEvent, FlagMeansMail
  <2>2. sched' \in SchedType /\ hr' \in HRType
    BY <1>3, <1>6 DEF HrTellPE, HRAt, Runs, HRState
  <2>3. QED BY <1>1, <1>2, <1>6, <2>1, <2>2 DEF HrTellPE, Outside
<1>7. CASE HrRequestHardReset
  <2>1. sched' \in SchedType /\ hr' \in HRType
    BY <1>3, <1>7 DEF HrRequestHardReset, HRAt, Runs, HRState
  <2>2. phy' \in PhyType
    BY <1>7 DEF HrRequestHardReset, Outside, PhyType
  <2>3. QED BY <1>1, <1>2, <1>7, <2>1, <2>2
            DEF HrRequestHardReset, Outside, FlagMeansMail
<1>8. CASE HrWaitPHY
  <2>1. sched' \in SchedType /\ hr' \in HRType
    BY <1>3, <1>8 DEF HrWaitPHY, HRAt, Runs, HRState
  <2>2. evt' \in EvtType /\ evt'.PE = evt.PE
    BY <1>8 DEF HrWaitPHY, EvtType
  <2>3. QED BY <1>1, <1>2, <1>8, <2>1, <2>2 DEF HrWaitPHY, Outside, FlagMeansMail
<1>9. CASE HrTimeout
  <2>1. sched' \in SchedType
    <3>1. Append(sched.ready, "HR") \in Seq({"RX", "TX", "HR"})
      BY DEF SchedType
    <3>2. QED BY <1>9, <3>1 DEF HrTimeout, SchedType
  <2>2. QED BY <1>1, <1>2, <1>9, <2>1 DEF HrTimeout, Outside, FlagMeansMail
<1>10. CASE HrWaitPE
  <2>1. sched' \in SchedType /\ hr' \in HRType
    BY <1>3, <1>10 DEF HrWaitPE, HRAt, Runs, HRState
  <2>2. evt' \in EvtType /\ evt'.PE = evt.PE
    BY <1>10 DEF HrWaitPE, EvtType
  <2>3. QED BY <1>1, <1>2, <1>10, <2>1, <2>2 DEF HrWaitPE, Outside, FlagMeansMail
<1>11. QED BY <1>4, <1>5, <1>6, <1>7, <1>8, <1>9, <1>10
           DEF HRNext, HrIndicateHardReset, HrHardResetRequested

-----------------------------------------------------------------------------
(* The I2C bus, INT_N, the source, the transceiver and main.               *)

\* The end of a transfer readies a thread.
LEMMA I2CStep == ASSUME IInv, I2CDone PROVE IInv'
<1>1. sched' \in SchedType
  <2>1. Head(sched.bus) \in {"RX", "TX"}
    BY DEF IInv, Kernel, SchedType, I2CDone
  <2>2. Append(sched.ready, Head(sched.bus)) \in Seq({"RX", "TX", "HR"})
    BY <2>1 DEF IInv, Kernel, SchedType
  <2>3. QED BY <2>2 DEF IInv, Kernel, SchedType, I2CDone
<1>2. QED BY <1>1 DEF IInv, I2CDone, Kernel, Link, Outside, Policy, FlagMeansMail,
                      OutputUnderContract, partnerVars

\* INT_N tells each thread flags of its own, and never MSG_RX.
LEMMA IntNStep == ASSUME IInv, IntN PROVE IInv'
<1> USE DEF IInv, threadsUnchanged, partnerVars
<1>1. UNCHANGED <<box, pool, mem, fault, pe, dpm, rx, tx, hr, src>>
  BY DEF IntN, IntNPoll, IntNTellRX, IntNTellTX, IntNTellHR, IntNTell, IntNTellPE
<1>2. Policy' /\ Link'
  BY <1>1 DEF Policy, OutputUnderContract, Link
<1>3. status' \in SUBSET Interrupt /\ phy' \in PhyType
  BY DEF IntN, IntNPoll, IntNTellRX, IntNTellTX, IntNTellHR, IntNTell, IntNTellPE,
         Outside, PhyType
<1>4. /\ evt' \in EvtType /\ sched' \in SchedType
      /\ evt'.PE \subseteq evt.PE \cup {"I_OVRTEMP"}
      /\ evt'.TX \subseteq evt.TX \cup {"I_RETRYFAIL", "I_TXSENT"}
  <2>1. CASE IntNPoll
    BY <2>1 DEF IntNPoll, Kernel
  <2>2. CASE IntNTellRX
    BY <2>2, SignalType DEF IntNTellRX, IntNTell, RxFlags, RXEvent, Kernel,
                            Signal, EvtType
  <2>3. CASE IntNTellTX
    BY <2>3, SignalType DEF IntNTellTX, IntNTell, TxFlags, TXEvent, Kernel,
                            Signal, EvtType
  <2>4. CASE IntNTellHR
    BY <2>4, SignalType DEF IntNTellHR, IntNTell, HrFlags, HREvent, Kernel,
                            Signal, EvtType
  <2>5. CASE IntNTellPE
    BY <2>5 DEF IntNTellPE, Kernel, EvtType, PEEvent
  <2>6. QED BY <2>1, <2>2, <2>3, <2>4, <2>5 DEF IntN
<1>5. QED BY <1>1, <1>2, <1>3, <1>4 DEF Kernel, Outside, FlagMeansMail

\* What the source sends is a message.
LEMMA SrcSendType ==
    ASSUME IInv, SrcSend PROVE phy' \in PhyType /\ src' \in SrcType
<1> DEFINE t == Head(src.out)
           n == IF t = "SoftReset" THEN 0 ELSE src.id
           m == [type |-> t, id |-> n,
                 obj |-> IF t = "SourceCap" THEN src.offer ELSE 0]
<1>1. t \in MsgType /\ Tail(src.out) \in Seq(MsgType \cup {"transition"})
  BY DEF IInv, Outside, SrcType, SrcSend
<1>2. n \in Id /\ (n + 1) % IdMod \in Id
  <2>1. n \in Id
    BY ZeroIsId DEF IInv, Outside, SrcType
  <2>2. QED BY <2>1, IdAssumption DEF Id
<1>3. m \in Msg
  BY <1>1, <1>2 DEF IInv, Outside, SrcType, Msg
<1>4. phy' \in PhyType
  <2>1. phy' = [phy EXCEPT !.fifo = Append(@, m), !.irq = Raise("I_GCRCSENT")]
    BY DEF SrcSend
  <2>2. Append(phy.fifo, m) \in Seq(Msg) /\ Raise("I_GCRCSENT") \in SUBSET Interrupt
    BY <1>3 DEF IInv, Outside, PhyType, Raise, Interrupt
  <2>3. QED BY <2>1, <2>2 DEF IInv, Outside, PhyType
<1>5. src' \in SrcType
  <2> DEFINE s == [src EXCEPT !.seen = IF t = "SoftReset" THEN -1 ELSE @]
  <2>1. s \in SrcType
    BY DEF IInv, Outside, SrcType
  <2>2. \/ src' = [s EXCEPT !.again = TRUE]
        \/ src' = [s EXCEPT !.out = Tail(src.out), !.id = (n + 1) % IdMod,
                             !.again = FALSE,
                             !.awaits = IF t \in Answered THEN t ELSE "none"]
    BY DEF SrcSend, SrcType, IInv, Outside
  <2> HIDE DEF t, n, s
  <2>3. [s EXCEPT !.again = TRUE] \in SrcType
    BY <2>1 DEF SrcType
  <2>4. [s EXCEPT !.out = Tail(src.out), !.id = (n + 1) % IdMod, !.again = FALSE,
                  !.awaits = IF t \in Answered THEN t ELSE "none"] \in SrcType
    BY <1>1, <1>2, <2>1 DEF SrcType
  <2>5. QED BY <2>2, <2>3, <2>4
<1>6. QED BY <1>4, <1>5

\* VBUS has a voltage.
LEMMA VoltageType ==
    ASSUME NEW o \in 1..Len(Offers), NEW i \in 1..Len(Offers[o])
    PROVE  Voltage(Offers[o][i]) \in Nat
<1>1. Offers[o][i] \in PDO
  BY DPMAssumption
<1>2. Round(Scfg.v, 20) \in Nat
  BY DPMAssumption DEF Round, Configuration
<1>3. QED BY <1>1, <1>2 DEF Voltage, PDO

\* The source understands every message of the sink.
LEMMA AfterMessageType ==
    ASSUME src \in SrcType, NEW m \in Msg, NEW r \in SrcRefusals \cup {"Accept"}
    PROVE  AfterMessage(m, r) \in SrcType
<1> DEFINE t == [src EXCEPT !.seen = m.id, !.awaits = "none"]
           valid == m.obj \in 1..Len(Offers[src.offer])
<1>1. t \in SrcType /\ [src EXCEPT !.seen = m.id] \in SrcType
  BY DEF SrcType, Msg
<1>2. \A q \in SrcRefusals \cup {"Accept", "Reject"} : [t EXCEPT !.out = <<q>>] \in SrcType
  <2>1. \A q \in SrcRefusals \cup {"Accept", "Reject"} :
           <<q>> \in Seq(MsgType \cup {"transition"})
    BY PortAssumption DEF MsgType
  <2> HIDE DEF t
  <2>2. QED BY <1>1, <2>1 DEF SrcType
<1>3. valid => [t EXCEPT !.out = <<"Accept", "transition", "PsRdy">>, !.pos = m.obj,
                         !.next = Voltage(Offers[src.offer][m.obj])] \in SrcType
  <2>1. SUFFICES ASSUME valid PROVE m.obj \in 0..7
                   /\ Voltage(Offers[src.offer][m.obj]) \in Nat
                   /\ <<"Accept", "transition", "PsRdy">> \in Seq(MsgType \cup {"transition"})
    BY <1>1 DEF SrcType
  <2>2. src.offer \in 1..Len(Offers)
    BY DEF SrcType
  <2>3. Len(Offers[src.offer]) \in 1..7
    BY <2>2, DPMAssumption
  <2>4. QED BY <2>1, <2>2, <2>3, VoltageType DEF MsgType
<1>4. /\ [t EXCEPT !.id = 0, !.out = <<"Accept", "SourceCap">>] \in SrcType
      /\ [t EXCEPT !.out = <<"SourceCap">>] \in SrcType
  <2>1. /\ <<"Accept", "SourceCap">> \in Seq(MsgType \cup {"transition"})
        /\ <<"SourceCap">> \in Seq(MsgType \cup {"transition"})
    BY DEF MsgType
  <2> HIDE DEF t
  <2>2. QED BY <1>1, <2>1, ZeroIsId DEF SrcType
<1>5. QED BY <1>1, <1>2, <1>3, <1>4 DEF AfterMessage

\* The source after a hard reset.
LEMMA AfterHardResetType == ASSUME src \in SrcType PROVE AfterHardReset \in SrcType
<1>1. <<"SourceCap">> \in Seq(MsgType \cup {"transition"})
  BY DEF MsgType
<1>2. QED BY <1>1, ZeroIsId DEF AfterHardReset, SrcType

\* The source touches only itself and the transceiver.
LEMMA SourceStep == ASSUME IInv, Source PROVE IInv'
<1>1. src \in SrcType /\ phy \in PhyType
  BY DEF IInv, Outside
<1>2. UNCHANGED <<evt, sched, status, box, pool, mem, fault, pe, dpm, rx, tx, hr>>
  <2>1. portUnchanged
    <3>1. SrcSend => portUnchanged
      BY Zenon DEF SrcSend
    <3>2. SrcStart => portUnchanged
      BY Zenon DEF SrcStart
    <3>3. QED BY <3>1, <3>2
              DEF Source, SrcTransition, SrcSoftReset, SrcHardReset, SrcRecover
  <2>2. QED BY <2>1 DEF portUnchanged, threadsUnchanged
<1>3. phy' \in PhyType /\ src' \in SrcType
  <2>1. CASE SrcSend
    BY <2>1, SrcSendType
  <2>2. CASE SrcTransition
    <3>1. Tail(src.out) \in Seq(MsgType \cup {"transition"})
      BY <1>1, <2>2 DEF SrcTransition, SrcType
    <3>2. QED BY <1>1, <2>2, <3>1 DEF SrcTransition, SrcType
  <2>3. CASE SrcStart
    <3> DEFINE ams(ty) == IF ty = "GotoMin" THEN <<ty, "PsRdy">> ELSE <<ty>>
    <3>1. PICK ty \in SrcStarts, o \in 1..Len(Offers) :
            src' = [src EXCEPT !.offer = o, !.out = ams(ty)]
      BY <2>3 DEF SrcStart
    <3>2. ty \in MsgType \cup {"transition"} /\ "PsRdy" \in MsgType \cup {"transition"}
      BY PortAssumption DEF MsgType
    <3>3. ams(ty) \in Seq(MsgType \cup {"transition"})
      <4> HIDE DEF ams
      <4>1. /\ <<ty, "PsRdy">> \in Seq(MsgType \cup {"transition"})
            /\ <<ty>> \in Seq(MsgType \cup {"transition"})
        BY <3>2
      <4>2. QED BY <4>1 DEF ams
    <3> HIDE DEF ams
    <3>4. src' \in SrcType
      BY <1>1, <3>1, <3>3 DEF SrcType
    <3>5. phy' = phy
      BY <2>3 DEF SrcStart
    <3>6. QED BY <1>1, <3>4, <3>5
  <2>4. CASE SrcSoftReset
    <3>1. <<"SoftReset">> \in Seq(MsgType \cup {"transition"})
      BY DEF MsgType
    <3>2. QED BY <1>1, <2>4, <3>1 DEF SrcSoftReset, SrcType
  <2>5. CASE SrcHardReset
    <3>1. Raise("I_HARDRST") \in SUBSET Interrupt
      BY <1>1 DEF PhyType, Raise, Interrupt
    <3>2. phy' \in PhyType
      BY <1>1, <2>5, <3>1, NilIsMsg DEF SrcHardReset, PhyType
    <3>3. QED BY <1>1, <2>5, <3>2, AfterHardResetType DEF SrcHardReset
  <2>6. CASE SrcRecover
    <3>1. src' = [src EXCEPT !.off = FALSE, !.vbus = 5000] /\ phy' = phy
      BY <2>6 DEF SrcRecover
    <3>2. src' \in SrcType
      <4> DEFINE on == [src EXCEPT !.off = FALSE]
      <4>1. on \in SrcType
        BY <1>1 DEF SrcType
      <4>2. src' = [on EXCEPT !.vbus = 5000]
        BY <3>1
      <4> HIDE DEF on
      <4>3. QED BY <4>1, <4>2 DEF SrcType
    <3>3. QED BY <1>1, <3>1, <3>2
  <2>7. QED BY <2>1, <2>2, <2>3, <2>4, <2>5, <2>6 DEF Source
<1>4. QED BY <1>2, <1>3 DEF IInv, Kernel, Link, Outside, Policy, FlagMeansMail,
                            OutputUnderContract

\* So does the transceiver.
LEMMA TransceiverStep == ASSUME IInv, Transceiver PROVE IInv'
<1>1. src \in SrcType /\ phy \in PhyType
  BY DEF IInv, Outside
<1>2. UNCHANGED <<evt, sched, status, box, pool, mem, fault, pe, dpm, rx, tx, hr>>
  BY DEF Transceiver, PhySent, PhyRetryFail, PhyHardSent, Overheat, portUnchanged,
         threadsUnchanged
<1>3. phy.air \in Msg
  BY <1>1 DEF PhyType
<1>4. phy' \in PhyType /\ src' \in SrcType
  <2>1. CASE PhySent
    <3>1. [type |-> "GoodCRC", id |-> phy.air.id, obj |-> 0] \in Msg
      BY <1>3 DEF Msg, MsgType
    <3>2. Append(phy.fifo, [type |-> "GoodCRC", id |-> phy.air.id, obj |-> 0])
            \in Seq(Msg)
      BY <1>1, <3>1 DEF PhyType
    <3>3. phy' \in PhyType
      BY <1>1, <2>1, <3>2, NilIsMsg DEF PhySent, PhyType, Raise, Interrupt
    <3>4. QED BY <1>1, <1>3, <2>1, <3>3, AfterMessageType DEF PhySent, SrcHears
  <2>2. CASE PhyRetryFail
    BY <1>1, <1>3, <2>2, NilIsMsg, AfterMessageType
       DEF PhyRetryFail, PhyType, Raise, Interrupt
  <2>3. CASE PhyHardSent
    BY <1>1, <2>3, AfterHardResetType, NilIsMsg
       DEF PhyHardSent, PhyType, Raise, Interrupt
  <2>4. CASE Overheat
    BY <1>1, <2>4 DEF Overheat, PhyType, Raise, Interrupt
  <2>5. QED BY <2>1, <2>2, <2>3, <2>4 DEF Transceiver
<1>5. QED BY <1>2, <1>4 DEF IInv, Kernel, Link, Outside, Policy, FlagMeansMail,
                            OutputUnderContract

\* Main and the application signal the Policy Engine, and never MSG_RX.
LEMMA ApplicationStep == ASSUME IInv, Application PROVE IInv'
<1>1. UNCHANGED <<sched, status, box, pool, mem, fault, pe, dpm, rx, tx, hr, phy, src>>
  BY DEF Application, MainBoot, ButtonPress, ButtonRelease, AskSourceCap, TellPE,
         threadsUnchanged
<1>2. evt' \in EvtType /\ FlagMeansMail'
  BY <1>1 DEF Application, MainBoot, ButtonPress, ButtonRelease, AskSourceCap,
         TellPE, IInv, Kernel, EvtType, PEEvent, FlagMeansMail
<1>3. QED BY <1>1, <1>2 DEF IInv, Kernel, Link, Outside, Policy,
                            OutputUnderContract

-----------------------------------------------------------------------------
(* The Policy Engine: first what its actions do to everything else.        *)
Frame == Kernel /\ Link /\ Outside /\ FlagMeansMail

\* The flags of a wait are cleared, and MSG_RX is not raised.
LEMMA AwakeStep ==
    ASSUME IInv, NEW s, Awake(s)
    PROVE  /\ evt' \in EvtType /\ evt'.PE = evt.PE \ WaitMask[s]
           /\ evt'.TX = evt.TX
BY DEF Awake, IInv, Kernel, EvtType

\* What the Policy Engine leaves alone keeps its type.
LEMMA OthersStep ==
    ASSUME IInv, peUnchanged, UNCHANGED partnerVars
    PROVE  Link' /\ Outside'
BY DEF IInv, peUnchanged, partnerVars, Link, Outside

\* A handler that changes only pe and dpm.
LEMMA UntouchedStep ==
    ASSUME IInv, peUnchanged, UNCHANGED <<kernelVars, src>>
    PROVE  Frame'
BY DEF IInv, peUnchanged, kernelVars, Frame, Kernel, Link, Outside, FlagMeansMail

\* A handler that only clears the flags of its wait.
LEMMA FlagsStep ==
    ASSUME IInv, NEW s, Awake(s), peUnchanged,
           UNCHANGED <<sched, box, pool, mem, fault, partnerVars>>
    PROVE  Frame'
<1>1. evt' \in EvtType /\ evt'.PE \subseteq evt.PE /\ evt'.TX = evt.TX
  BY AwakeStep
<1>2. QED BY <1>1, OthersStep DEF IInv, Frame, Kernel, FlagMeansMail

\* A wait cut short by reset signaling.
LEMMA OnResetStep ==
    ASSUME IInv, NEW s, OnReset(s)
    PROVE  Frame' /\ pe' = [pe EXCEPT !.state = "PESinkTransitionDefault"] /\ dpm' = dpm
BY FlagsStep DEF OnReset, Goto

\* A wait that times out.
LEMMA TimesOutStep ==
    ASSUME IInv, NEW s, NEW next, TimesOut(s, next)
    PROVE  Frame' /\ pe.state = s /\ pe' = [pe EXCEPT !.state = next] /\ dpm' = dpm
BY UntouchedStep DEF TimesOut, Goto, At

\* Fetching takes the last message with MSG_RX, so that the flag is not left
\* pending over an empty mailbox.
LEMMA FetchStep ==
    ASSUME IInv, NEW s, NEW urgent, NEW b, Fetch(s, urgent, b),
           "MSG_RX" \in WaitMask[s]
    PROVE  /\ evt' \in EvtType /\ box' \in BoxType /\ b \in Buf
           /\ sched' \in SchedType /\ fault' \in FaultType
           /\ FlagMeansMail' /\ Link' /\ Outside' /\ pe.state = s
<1>1. evt' \in EvtType /\ "MSG_RX" \notin evt'.PE /\ evt'.TX = evt.TX
  BY AwakeStep DEF Fetch
<1>2. Head(box.PE) \in Buf /\ Tail(box.PE) \in Seq(Buf)
  BY DEF IInv, Kernel, BoxType, Fetch
<1>3. box' \in BoxType /\ b \in Buf /\ box'.TX = box.TX
  BY <1>2 DEF IInv, Kernel, BoxType, Fetch
<1>4. QED BY <1>1, <1>3, OthersStep
          DEF Fetch, Awake, At, IInv, Kernel, FlagMeansMail

\* Fetching a message and freeing it.
LEMMA ConsumeStep ==
    ASSUME IInv, NEW s, NEW urgent, NEW types, NEW next, NEW p,
           Consume(s, urgent, types, next, p), "MSG_RX" \in WaitMask[s]
    PROVE  Frame' /\ pe.state = s
           /\ pe' = [p EXCEPT !.state = next, !.message = NoBuf]
<1>1. PICK b \in Buf :
        /\ Fetch(s, urgent, b)
        /\ Freed(b)
        /\ pe' = [p EXCEPT !.state = next, !.message = NoBuf]
  BY DEF Consume
<1>2. pool' \in Seq(Buf) /\ mem' \in MemType
  BY <1>1, FreedType DEF IInv, Kernel
<1>3. QED BY <1>1, <1>2, FetchStep DEF Frame, Kernel

\* Handing a buffer to the TX thread.
LEMMA TransmitStep ==
    ASSUME IInv, NEW b \in Buf, Transmit(b)
    PROVE  /\ evt' \in EvtType /\ sched' \in SchedType /\ box' \in BoxType
           /\ FlagMeansMail'
<1>1. box' \in BoxType /\ box'.PE = box.PE /\ box'.TX # <<>>
  BY PostedType DEF Transmit, IInv, Kernel
<1>2. evt' \in EvtType /\ sched' \in SchedType
  BY SignalType DEF Transmit, IInv, Kernel, TXEvent
<1>3. evt'.PE = evt.PE
  BY DEF Transmit, Signal, IInv, Kernel, EvtType
<1>4. QED BY <1>1, <1>2, <1>3 DEF IInv, FlagMeansMail

\* Allocating a message and handing it over: a null buffer stops the model.
LEMMA SendNewStep ==
    ASSUME IInv, NEW s, NEW type \in MsgType \ {"SourceCap"}, NEW wait,
           SendNew(s, type, wait)
    PROVE  Frame' /\ pe.state = s /\ dpm' = dpm
           /\ \/ pe' = pe
              \/ \E b \in Buf : pe' = [pe EXCEPT !.state = wait, !.sending = b]
<1>1. CASE pool = <<>>
  BY <1>1 DEF SendNew, At, Fault, IInv, Frame, Kernel, FaultType, Link, Outside,
              FlagMeansMail, partnerVars
<1>2. CASE pool # <<>>
  <2> DEFINE b == Head(pool)
  <2>1. b \in Buf /\ Tail(pool) \in Seq(Buf)
    BY <1>2 DEF IInv, Kernel
  <2>2. Message(type, 0) \in Msg
    BY ZeroIsId DEF Message, Msg
  <2>3. mem' \in MemType /\ pool' \in Seq(Buf)
    BY <1>2, <2>1, <2>2 DEF SendNew, IInv, Kernel, MemType
  <2>4. QED BY <1>2, <2>1, <2>3, TransmitStep, OthersStep
            DEF SendNew, At, Frame, IInv, Kernel
<1>3. QED BY <1>1, <1>2

\* Freeing what has been sent: pe.sending is a buffer in these states.
LEMMA SentStep ==
    ASSUME IInv, NEW s, NEW outcome, NEW next, Sent(s, outcome, next), s \in Sending
    PROVE  Frame' /\ pe.state = s /\ dpm' = dpm
           /\ pe' = [pe EXCEPT !.state = next, !.sending = NoBuf]
<1>1. pe.sending \in Buf /\ pe.state = s
  BY DEF IInv, Policy, PEType, Sent, Awake, At
<1>2. pool' \in Seq(Buf) /\ mem' \in MemType
  BY <1>1, FreedType DEF Sent, IInv, Kernel
<1>3. evt' \in EvtType /\ evt'.PE \subseteq evt.PE /\ evt'.TX = evt.TX
  BY AwakeStep DEF Sent
<1>4. QED BY <1>1, <1>2, <1>3, OthersStep
          DEF Sent, Frame, IInv, Kernel, FlagMeansMail

-----------------------------------------------------------------------------
(* ... and then what they do to the Policy Engine's own state.             *)
\* The invariant is what the kernel and the other threads keep, and Policy.
LEMMA Together == (Frame /\ Policy <=> IInv) /\ (Frame' /\ Policy' <=> IInv')
BY DEF IInv, Frame

\* Going to another state, with the contract's buffers and flag as they are,
\* and pe.message consumed or untouched.
LEMMA MoveStep ==
    ASSUME Policy, NEW st \in PEState, dpm' = dpm,
           pe' \in {[pe EXCEPT !.state = st],
                    [pe EXCEPT !.state = st, !.message = NoBuf],
                    [pe EXCEPT !.state = st, !.sending = NoBuf]},
           st \in Asking => pe.state \in Asking,
           st \in Settled => pe.state \in Settled,
           st \notin Sending \cup {"PESinkHardResetSent", "PESinkStartup"},
           pe.state # "PESinkSourceUnresponsive"
    PROVE  Policy'
<1>1. pe' \in PEType /\ pe'.state = st
  <2>1. CASE pe' = [pe EXCEPT !.state = st]
    BY <2>1 DEF Policy, PEType
  <2>2. CASE pe' = [pe EXCEPT !.state = st, !.message = NoBuf]
    BY <2>2 DEF Policy, PEType
  <2>3. CASE pe' = [pe EXCEPT !.state = st, !.sending = NoBuf]
    BY <2>3 DEF Policy, PEType
  <2>4. QED BY <2>1, <2>2, <2>3
<1>2. /\ pe'.request = pe.request /\ pe'.contract = pe.contract
      /\ pe'.message \in {pe.message, NoBuf}
  BY DEF Policy, PEType
<1>3. QED BY <1>1, <1>2 DEF Policy, OutputUnderContract

\* PE_SNK_Startup and PE_SNK_Discovery.
LEMMA StartupStep == ASSUME IInv, Startup \/ Discovery PROVE IInv'
<1>1. Frame'
  BY UntouchedStep DEF Startup, Discovery, kernelVars, partnerVars
<1>2. CASE Startup
  <2>1. pe' \in PEType /\ pe'.state = "PESinkDiscovery" /\ ~dpm.output
    BY <1>2 DEF Startup, At, IInv, Policy, PEType, PEState
  <2>2. QED BY <1>1, <1>2, <2>1, Together
            DEF Startup, IInv, Policy, OutputUnderContract, Asking, Settled, Sending
<1>3. CASE Discovery
  <2>1. Policy'
    BY <1>3, MoveStep DEF Discovery, Goto, At, IInv, PEState, Asking, Settled, Sending
  <2>2. QED BY <1>1, <2>1, Together
<1>4. QED BY <1>2, <1>3

\* PE_SNK_Wait_for_Capabilities.
LEMMA WaitCapStep == ASSUME IInv, WaitCap PROVE IInv'
<1> DEFINE s == "PESinkWaitCap"
           urgent == {"RESET", "I_OVRTEMP"}
<1> USE DEF PEState, Asking, Settled, Sending
<1>1. "MSG_RX" \in WaitMask[s] /\ Policy
  BY DEF WaitMask, IInv
<1>2. CASE TimesOut(s, "PESinkHardReset")
  BY <1>1, <1>2, TimesOutStep, MoveStep, Together
<1>3. CASE OnReset(s)
  <2>1. pe.state = s
    BY <1>3 DEF OnReset, Awake, At
  <2>2. QED BY <1>1, <1>3, <2>1, OnResetStep, MoveStep, Together
<1>4. CASE /\ Awake(s)
           /\ UNCHANGED <<sched, box, pool, mem, fault, pe, dpm, partnerVars>>
           /\ peUnchanged
  <2>1. Frame'
    BY <1>4, FlagsStep
  <2>2. QED BY <1>1, <1>4, <2>1, Together DEF Policy, OutputUnderContract
<1>5. ASSUME NEW b \in Buf, Fetch(s, urgent, b), UNCHANGED <<pool, mem, dpm>>,
             pe' = [pe EXCEPT !.state = "PESinkEvalCap", !.message = b,
                              !.rev = IF @ = 1 THEN SrcRev ELSE @]
      PROVE  IInv'
  <2>1. Frame' /\ pe.state = s
    BY <1>1, <1>5, FetchStep DEF Frame, IInv, Kernel
  <2>2. pe' \in PEType /\ pe'.state = "PESinkEvalCap" /\ pe'.contract = pe.contract
    BY <1>1, <1>5, RevAssumption DEF Policy, PEType
  <2>3. QED BY <1>1, <1>5, <2>1, <2>2, Together DEF Policy, OutputUnderContract
<1>6. CASE Consume(s, urgent, {"SoftReset"}, "PESinkSoftReset", pe) /\ UNCHANGED dpm
  <2>1. /\ Frame' /\ pe.state = s
        /\ pe' = [pe EXCEPT !.state = "PESinkSoftReset", !.message = NoBuf]
    BY <1>1, <1>6, ConsumeStep
  <2>2. Policy'
    BY <1>1, <1>6, <2>1, MoveStep
  <2>3. QED BY <2>1, <2>2, Together
<1>7. ASSUME NEW b \in Buf, Fetch(s, urgent, b), Freed(b), UNCHANGED dpm,
             pe' = [pe EXCEPT !.state = "PESinkHardReset", !.message = b]
      PROVE  IInv'
  <2>1. pool' \in Seq(Buf) /\ mem' \in MemType
    BY <1>7, FreedType DEF IInv, Kernel
  <2>2. Frame' /\ pe.state = s
    BY <1>1, <1>7, <2>1, FetchStep DEF Frame, IInv, Kernel
  <2>3. pe' \in PEType /\ pe'.state = "PESinkHardReset" /\ pe'.contract = pe.contract
    BY <1>1, <1>7 DEF Policy, PEType
  <2>4. QED BY <1>1, <1>7, <2>2, <2>3, Together DEF Policy, OutputUnderContract
<1>8. QED BY <1>2, <1>3, <1>4, <1>5, <1>6, <1>7 DEF WaitCap

-----------------------------------------------------------------------------
(* What the DPM asks for is an object position of the offer.               *)
\* The lowest of a set of positions is one of them ...
LEMMA SetMinIn == ASSUME NEW S, S \subseteq 1..7, S # {} PROVE SetMin(S) \in S
<1>1. \E i \in S : \A j \in S : i <= j
  <2>1. SUFFICES ASSUME \A i \in S : \E j \in S : j < i PROVE FALSE
    OBVIOUS
  <2>2. 1 \notin S /\ 2 \notin S
    BY <2>1
  <2>3. 3 \notin S
    BY <2>1, <2>2
  <2>4. 4 \notin S
    BY <2>1, <2>2, <2>3
  <2>5. 5 \notin S
    BY <2>1, <2>2, <2>3, <2>4
  <2>6. 6 \notin S
    BY <2>1, <2>2, <2>3, <2>4, <2>5
  <2>7. 7 \notin S
    BY <2>1, <2>2, <2>3, <2>4, <2>5, <2>6
  <2>8. \A i \in 1..7 : i \in {1, 2, 3, 4, 5, 6, 7}
    OBVIOUS
  <2>9. S = {}
    BY <2>2, <2>3, <2>4, <2>5, <2>6, <2>7, <2>8
  <2>10. QED BY <2>9
<1>2. QED BY <1>1 DEF SetMin

\* ... and the highest of a set of positions.
LEMMA SetMaxIn == ASSUME NEW S, S \subseteq 1..7, S # {} PROVE SetMax(S) \in S
<1>1. \E i \in S : \A j \in S : i >= j
  <2>1. SUFFICES ASSUME \A i \in S : \E j \in S : j > i PROVE FALSE
    OBVIOUS
  <2>2. 7 \notin S /\ 6 \notin S
    BY <2>1
  <2>3. 5 \notin S
    BY <2>1, <2>2
  <2>4. 4 \notin S
    BY <2>1, <2>2, <2>3
  <2>5. 3 \notin S
    BY <2>1, <2>2, <2>3, <2>4
  <2>6. 2 \notin S
    BY <2>1, <2>2, <2>3, <2>4, <2>5
  <2>7. 1 \notin S
    BY <2>1, <2>2, <2>3, <2>4, <2>5, <2>6
  <2>8. \A i \in 1..7 : i \in {1, 2, 3, 4, 5, 6, 7}
    OBVIOUS
  <2>9. S = {}
    BY <2>2, <2>3, <2>4, <2>5, <2>6, <2>7, <2>8
  <2>10. QED BY <2>9
<1>2. QED BY <1>1 DEF SetMax

\* A message has at most seven PDOs.
LEMMA OfferInType ==
    ASSUME NEW m \in Msg
    PROVE  OfferIn(m) \in Seq(PDO) /\ Len(OfferIn(m)) \in 0..7
<1>1. CASE m.type = "SourceCap"
  BY <1>1, DPMAssumption DEF OfferIn, Msg
<1>2. CASE m.type # "SourceCap"
  BY <1>2 DEF OfferIn
<1>3. QED BY <1>1, <1>2

\* evaluate_capability asks for a position a Request has room for.
LEMMA EvaluationType ==
    ASSUME NEW o \in Seq(PDO), Len(o) \in 0..7, NEW st
    PROVE  /\ Evaluation(Scfg, OutputEnabled, o, st).pos \in 1..7
           /\ Evaluation(Scfg, OutputEnabled, o, st).mv \in Nat
           /\ Evaluation(Scfg, OutputEnabled, o, st).match \in BOOLEAN
<1>1. CASE Scfg.valid /\ OutputEnabled /\ Preferred(Scfg, o, st) # {}
  <2>1. SetMin(Preferred(Scfg, o, st)) \in 1..7
    <3>1. Preferred(Scfg, o, st) \subseteq 1..7
      BY DEF Preferred
    <3>2. QED BY <1>1, <3>1, SetMinIn
  <2>2. Round(Scfg.v, 50) \in Nat /\ Round(Scfg.v, 20) \in Nat
    BY DPMAssumption DEF Round, Configuration
  <2>3. QED BY <1>1, <2>1, <2>2 DEF Evaluation, EvaluationWhile
<1>2. CASE /\ ~(Scfg.valid /\ OutputEnabled /\ Preferred(Scfg, o, st) # {})
           /\ Scfg.valid /\ OutputEnabled /\ InRange(Scfg, o) # {}
  <2>1. dpm_get_range_fixed_pdo_index(Scfg, o) \in InRange(Scfg, o)
    <3>1. InRange(Scfg, o) \subseteq 1..7
      BY DEF InRange
    <3>2. QED BY <1>2, <3>1, SetMinIn, SetMaxIn DEF dpm_get_range_fixed_pdo_index
  <2>2. dpm_get_range_fixed_pdo_index(Scfg, o) \in 1..7 /\ o[dpm_get_range_fixed_pdo_index(Scfg, o)] \in PDO
    BY <2>1 DEF InRange
  <2>3. QED BY <1>2, <2>2 DEF Evaluation, EvaluationWhile, PDO
<1>3. CASE /\ ~(Scfg.valid /\ OutputEnabled /\ Preferred(Scfg, o, st) # {})
           /\ ~(Scfg.valid /\ OutputEnabled /\ InRange(Scfg, o) # {})
  <2>1. Evaluation(Scfg, OutputEnabled, o, st) = [pos |-> 1, match |-> ~OutputEnabled, mv |-> 5000, ca |-> DPM_MIN_CURRENT]
    BY <1>3, Zenon DEF Evaluation, EvaluationWhile
  <2>2. (~OutputEnabled) \in BOOLEAN
    BY DPMAssumption
  <2>3. QED BY <2>1, <2>2
<1>4. QED BY <1>1, <1>2, <1>3

\* ppsIndex is an object position or the value above all of them.
LEMMA FirstPpsType ==
    ASSUME NEW o \in Seq(PDO), Len(o) \in 0..7 PROVE FirstPps(o) \in 1..NoPps
<1> DEFINE P == {i \in 1..Len(o) : o[i].kind = "pps"}
<1>1. P \subseteq 1..7
  OBVIOUS
<1>2. FirstPps(o) = IF P = {} THEN NoPps ELSE SetMin(P)
  BY DEF FirstPps
<1> HIDE DEF P
<1>3. P # {} => SetMin(P) \in 1..7
  BY <1>1, SetMinIn
<1>4. QED BY <1>2, <1>3 DEF NoPps

\* PE_SNK_Evaluate_Capability: from here on there is a Request and there are
\* capabilities.
LEMMA EvalCapStep == ASSUME IInv, EvalCap PROVE IInv'
<1> DEFINE new == pe.message # NoBuf
           caps == IF new THEN pe.message ELSE dpm.caps
           req == IF pe.request = NoBuf THEN Head(pool) ELSE pe.request
           rest == IF pe.request = NoBuf THEN Tail(pool) ELSE pool
           offer == OfferIn(mem[caps])
           first == IF new THEN FirstPps(offer) ELSE pe.ppsIndex
           last == IF pe.request = NoBuf THEN IF new THEN NoPps ELSE pe.lastPps
                   ELSE IF mem[pe.request].obj >= first THEN mem[pe.request].obj
                   ELSE NoPps
           cfgState == IF button.state <= 3 THEN button.state ELSE 0
           e == Evaluation(Scfg, OutputEnabled, offer, cfgState)
           old == new /\ dpm.caps # NoBuf
<1>1. CASE \E why \in {"nullAlloc", "nullMessage"} : Fault(why)
  BY <1>1, Together
     DEF Fault, IInv, Frame, Kernel, FaultType, Link, Outside, Policy,
         FlagMeansMail, OutputUnderContract, partnerVars
<1>2. CASE ~ \E why \in {"nullAlloc", "nullMessage"} : Fault(why)
  <2>1. /\ ~(pe.request = NoBuf /\ pool = <<>>)
        /\ ~(pe.message = NoBuf /\ dpm.caps = NoBuf)
    BY <1>2, SMT DEF EvalCap
  <2>2. caps \in Buf /\ req \in Buf /\ rest \in Seq(Buf) /\ (old => dpm.caps \in Buf)
    BY <2>1 DEF IInv, Kernel, Policy, PEType, DPMType
  <2>3. offer \in Seq(PDO) /\ Len(offer) \in 0..7
    BY <2>2, OfferInType DEF IInv, Kernel, MemType
  <2>4. e.pos \in 1..7 /\ e.mv \in Nat /\ e.match \in BOOLEAN
    BY <2>3, EvaluationType
  <2>5. first \in 1..NoPps
    BY <2>3, FirstPpsType DEF IInv, Policy, PEType
  <2>6. last \in Nat
    BY <2>5 DEF IInv, Kernel, Policy, PEType, MemType, Msg, NoPps
  <2>7. /\ pool' = IF old THEN <<dpm.caps>> \o rest ELSE rest
        /\ mem' = [b \in Buf |-> IF b = req THEN Message("Request", e.pos)
                                 ELSE IF old /\ b = dpm.caps THEN Junk ELSE mem[b]]
        /\ dpm' = [dpm EXCEPT !.caps = caps, !.requested = e.mv, !.match = e.match]
        /\ pe' = [pe EXCEPT !.state = "PESinkSelectCap", !.message = NoBuf,
                            !.request = req, !.ppsIndex = first, !.lastPps = last]
        /\ UNCHANGED <<evt, sched, box, fault, src, rx, tx, hr, phy, status>>
        /\ pe.state = "PESinkEvalCap"
    BY <2>1, Zenon DEF EvalCap, At, peUnchanged
  <2> HIDE DEF new, caps, req, rest, offer, first, last, cfgState, e, old
  <2>8. pool' \in Seq(Buf)
    BY <2>2, <2>7
  <2>9. Message("Request", e.pos) \in Msg
    BY <2>4, ZeroIsId DEF Message, Msg, MsgType
  <2>10. mem' \in MemType
    BY <2>7, <2>9, JunkAssumption DEF IInv, Kernel, MemType
  <2>11. dpm' \in DPMType /\ dpm'.caps # NoBuf /\ dpm'.output = dpm.output
    BY <2>2, <2>4, <2>7, NoBufOutside DEF IInv, Policy, DPMType
  <2>12. pe' \in PEType
    BY <2>2, <2>5, <2>6, <2>7 DEF IInv, Policy, PEType, PEState
  <2>13. /\ pe'.state = "PESinkSelectCap" /\ pe'.request # NoBuf
         /\ pe'.message = NoBuf /\ pe'.contract = pe.contract
    BY <2>2, <2>7, NoBufOutside DEF IInv, Policy, PEType
  <2>14. Policy'
    BY <2>7, <2>11, <2>12, <2>13
       DEF IInv, Policy, OutputUnderContract, Settled, Sending
  <2>15. Frame'
    BY <2>7, <2>8, <2>10 DEF IInv, Frame, Kernel, Link, Outside, FlagMeansMail
  <2>16. QED BY <2>14, <2>15, Together
<1>3. QED BY <1>1, <1>2

-----------------------------------------------------------------------------
(* The handlers that negotiate a contract.                                 *)

\* The output switch: what the transitions do to dpm.
LEMMA OutputSetType ==
    ASSUME NEW d \in DPMType, NEW on \in BOOLEAN
    PROVE  /\ OutputSet(d, on) \in DPMType /\ OutputSet(d, on).caps = d.caps
           /\ OutputSet(d, on).output => on
<1>1. (on /\ OutputEnabled) \in BOOLEAN
  BY DPMAssumption
<1> DEFINE out == on /\ OutputEnabled
<1>2. out \in BOOLEAN /\ (out => on)
  BY <1>1
<1>3. OutputSet(d, on) = [d EXCEPT !.present = d.requested, !.output = out]
  BY DEF OutputSet
<1> HIDE DEF out
<1>4. QED BY <1>2, <1>3 DEF DPMType

\* What each callback does to the output and what it keeps.
LEMMA TransitionType ==
    ASSUME dpm \in DPMType
    PROVE  /\ transition_default \in DPMType /\ ~transition_default.output
           /\ transition_default.caps = dpm.caps
           /\ transition_min \in DPMType /\ ~transition_min.output
           /\ transition_min.caps = dpm.caps
           /\ transition_standby \in DPMType
           /\ (transition_standby.output => dpm.output)
           /\ transition_standby.caps = dpm.caps
           /\ transition_requested \in DPMType
           /\ transition_requested.caps = dpm.caps
<1>1. /\ transition_default \in DPMType /\ transition_default.caps = dpm.caps
      /\ ~transition_default.output
  <2> DEFINE d == [dpm EXCEPT !.requested = 5000]
  <2>1. d \in DPMType /\ d.caps = dpm.caps
    BY DEF DPMType
  <2>2. transition_default = OutputSet(d, FALSE)
    BY DEF transition_default
  <2> HIDE DEF d
  <2>3. QED BY <2>1, <2>2, OutputSetType
<1>2. /\ transition_min \in DPMType /\ transition_min.caps = dpm.caps
      /\ ~transition_min.output
  BY OutputSetType DEF transition_min
<1>3. /\ transition_standby \in DPMType /\ transition_standby.caps = dpm.caps
      /\ (transition_standby.output => dpm.output)
  BY DEF transition_standby, DPMType
<1>4. transition_requested \in DPMType /\ transition_requested.caps = dpm.caps
  BY OutputSetType DEF transition_requested, DPMType
<1>5. QED BY <1>1, <1>2, <1>3, <1>4

\* PE_SNK_Select_Capability: Ready is entered with the contract there was.
LEMMA SelectCapStep == ASSUME IInv, SelectCap PROVE IInv'
<1> DEFINE tx0 == "PESinkSelectCapTx"
           rxs == "PESinkSelectCapRx"
<1> USE DEF PEState, Asking, Settled, Sending
<1>1. "MSG_RX" \in WaitMask[rxs] /\ Policy
  BY DEF WaitMask, IInv
<1>2. CASE SelectCapSend
  <2>1. pe.state = "PESinkSelectCap" /\ pe.request \in Buf
    BY <1>1, <1>2 DEF SelectCapSend, At, Policy, PEType
  <2>2. Frame'
    BY <1>2, <2>1, TransmitStep, OthersStep DEF SelectCapSend, Frame, IInv, Kernel
  <2>3. Policy'
    BY <1>1, <1>2, <2>1, MoveStep DEF SelectCapSend, Goto
  <2>4. QED BY <2>2, <2>3, Together
<1>3. CASE OnReset(tx0) \/ OnReset(rxs)
  <2>1. Frame' /\ pe.state \in {tx0, rxs} /\ dpm' = dpm
        /\ pe' = [pe EXCEPT !.state = "PESinkTransitionDefault"]
    BY <1>3, OnResetStep DEF OnReset, Awake, At
  <2>2. Policy'
    BY <1>1, <2>1, MoveStep
  <2>3. QED BY <2>1, <2>2, Together
<1>4. CASE SelectCapSent
  <2>1. Frame'
    BY <1>4, FlagsStep DEF SelectCapSent
  <2>2. pe.state = tx0 /\ pe.request \in Buf
    BY <1>1, <1>4 DEF SelectCapSent, Awake, At, Policy, PEType
  <2>3. (mem[pe.request].obj >= pe.ppsIndex) \in BOOLEAN
    OBVIOUS
  <2>4. \E st \in {rxs, "PESinkHardReset"}, on \in BOOLEAN :
          pe' = [pe EXCEPT !.state = st, !.ppsTimer = on]
    BY <1>1, <1>4, <2>3 DEF SelectCapSent, Policy, PEType
  <2>5. pe' \in PEType /\ pe'.state \in {rxs, "PESinkHardReset"}
        /\ pe'.request = pe.request /\ pe'.message = pe.message
        /\ pe'.contract = pe.contract
    BY <1>1, <2>4 DEF Policy, PEType
  <2>6. dpm' = dpm
    BY <1>4 DEF SelectCapSent
  <2>7. Policy'
    BY <1>1, <2>2, <2>5, <2>6 DEF Policy, OutputUnderContract
  <2>8. QED BY <2>1, <2>7, Together
<1>5. CASE TimesOut(rxs, "PESinkHardReset")
  BY <1>1, <1>5, TimesOutStep, MoveStep, Together
<1>6. CASE SelectCapAnswer
  <2> DEFINE reset == {"RESET"}
             others == MsgType \ {"Accept", "SoftReset", "Reject", "Wait"}
  <2>1. ASSUME Consume(rxs, reset, {"Accept"}, "PESinkTransitionSink",
                       [pe EXCEPT !.minPower = FALSE]),
               dpm' = IF mem[pe.request].obj # pe.lastPps
                      THEN transition_standby ELSE dpm
        PROVE  IInv'
    <3>1. Frame' /\ pe.state = rxs
          /\ pe' = [[pe EXCEPT !.minPower = FALSE]
                      EXCEPT !.state = "PESinkTransitionSink", !.message = NoBuf]
      BY <1>1, <2>1, ConsumeStep
    <3>2. pe' \in PEType /\ pe'.state = "PESinkTransitionSink"
          /\ pe'.request = pe.request /\ pe'.message = NoBuf
          /\ pe'.contract = pe.contract
      BY <1>1, <3>1 DEF Policy, PEType
    <3>3. dpm' \in DPMType /\ dpm'.caps = dpm.caps /\ (dpm'.output => dpm.output)
      BY <1>1, <2>1, TransitionType DEF Policy
    <3>4. Policy'
      BY <1>1, <3>1, <3>2, <3>3 DEF Policy, OutputUnderContract
    <3>5. QED BY <3>1, <3>4, Together
  <2>2. ASSUME NEW types, NEW st \in {"PESinkSoftReset", "PESinkWaitCap",
                                      "PESinkSendSoftReset"},
               Consume(rxs, reset, types, st, pe), dpm' = dpm
        PROVE  IInv'
    <3>1. Frame' /\ pe.state = rxs
          /\ pe' = [pe EXCEPT !.state = st, !.message = NoBuf]
      BY <1>1, <2>2, ConsumeStep
    <3>2. Policy'
      BY <1>1, <2>2, <3>1, MoveStep
    <3>3. QED BY <3>1, <3>2, Together
  <2>3. ASSUME pe.contract, NEW t \in {"Reject", "Wait"},
               Consume(rxs, reset, {t}, "PESinkReady",
                       [pe EXCEPT !.minPower = (t = "Wait")]),
               dpm' = dpm
        PROVE  IInv'
    <3> DEFINE p == [pe EXCEPT !.minPower = (t = "Wait")]
    <3>1. p \in PEType /\ p.contract /\ p.request = pe.request
          /\ Consume(rxs, reset, {t}, "PESinkReady", p)
      BY <1>1, <2>3 DEF Policy, PEType
    <3> HIDE DEF p
    <3>2. Frame' /\ pe.state = rxs
          /\ pe' = [p EXCEPT !.state = "PESinkReady", !.message = NoBuf]
      BY <1>1, <3>1, ConsumeStep
    <3>3. pe' \in PEType /\ pe'.state = "PESinkReady" /\ pe'.contract
          /\ pe'.request = pe.request /\ pe'.message = NoBuf
      BY <3>1, <3>2 DEF PEType
    <3>4. Policy'
      BY <1>1, <2>3, <3>2, <3>3 DEF Policy, OutputUnderContract
    <3>5. QED BY <3>2, <3>4, Together
  <2>4. QED BY <1>6, <2>1, <2>2, <2>3 DEF SelectCapAnswer
<1>7. QED BY <1>2, <1>3, <1>4, <1>5, <1>6 DEF SelectCap

\* PE_SNK_Transition_Sink: the output goes on with the contract.
LEMMA TransitionSinkStep == ASSUME IInv, TransitionSink PROVE IInv'
<1> DEFINE s == "PESinkTransitionSink"
           reset == {"RESET"}
<1> USE DEF PEState, Asking, Settled, Sending
<1>1. "MSG_RX" \in WaitMask[s] /\ Policy
  BY DEF WaitMask, IInv
<1>2. CASE OnReset(s)
  <2>1. Frame' /\ pe.state = s /\ dpm' = dpm
        /\ pe' = [pe EXCEPT !.state = "PESinkTransitionDefault"]
    BY <1>2, OnResetStep DEF OnReset, Awake, At
  <2>2. QED BY <1>1, <2>1, MoveStep, Together
<1>3. CASE TimesOut(s, "PESinkHardReset")
  BY <1>1, <1>3, TimesOutStep, MoveStep, Together
<1>4. ASSUME Consume(s, reset, {"PsRdy"}, "PESinkReady", [pe EXCEPT !.contract = TRUE]),
             dpm' = IF pe.minPower THEN dpm ELSE transition_requested
      PROVE  IInv'
  <2>1. Frame' /\ pe.state = s
        /\ pe' = [[pe EXCEPT !.contract = TRUE]
                    EXCEPT !.state = "PESinkReady", !.message = NoBuf]
    BY <1>1, <1>4, ConsumeStep
  <2>2. pe' \in PEType /\ pe'.state = "PESinkReady" /\ pe'.contract
        /\ pe'.request = pe.request /\ pe'.message = NoBuf
    BY <1>1, <2>1 DEF Policy, PEType
  <2>3. dpm' \in DPMType /\ dpm'.caps = dpm.caps
    BY <1>1, <1>4, TransitionType DEF Policy
  <2>4. Policy'
    BY <1>1, <2>1, <2>2, <2>3 DEF Policy, OutputUnderContract
  <2>5. QED BY <2>1, <2>4, Together
<1>5. ASSUME NEW types, Consume(s, reset, types, "PESinkHardReset", pe),
             dpm' = transition_default
      PROVE  IInv'
  <2>1. Frame' /\ pe.state = s
        /\ pe' = [pe EXCEPT !.state = "PESinkHardReset", !.message = NoBuf]
    BY <1>1, <1>5, ConsumeStep
  <2>2. pe' \in PEType /\ pe'.state = "PESinkHardReset"
    BY <1>1, <2>1 DEF Policy, PEType
  <2>3. dpm' \in DPMType /\ ~dpm'.output
    BY <1>1, <1>5, TransitionType DEF Policy
  <2>4. Policy'
    BY <1>1, <2>2, <2>3 DEF Policy, OutputUnderContract
  <2>5. QED BY <2>1, <2>4, Together
<1>6. QED BY <1>2, <1>3, <1>4, <1>5 DEF TransitionSink

-----------------------------------------------------------------------------
(* PE_SNK_Ready.                                                           *)
\* The AMS the Policy Engine starts itself: no message is left in Ready.
LEMMA ReadyStartsStep ==
    ASSUME IInv, NEW flag, NEW above,
           NEW st \in {"PESinkGetSourceCap", "PESinkEvalCap", "PESinkSelectCap"},
           ReadyStarts(flag, above, st)
    PROVE  IInv'
<1>1. pe.state = "PESinkReady" /\ pe.message = NoBuf /\ Policy
  BY DEF ReadyStarts, At, IInv, Policy, Asking, Settled
<1>2. evt' \in EvtType /\ evt'.PE \subseteq evt.PE
  BY DEF ReadyStarts, IInv, Kernel, EvtType, TXEvent
<1>3. Frame'
  BY <1>1, <1>2, OthersStep DEF ReadyStarts, IInv, Frame, Kernel, FlagMeansMail
<1>4. pe' = [pe EXCEPT !.state = st, !.message = NoBuf]
      \/ pe' = [pe EXCEPT !.state = st]
  BY <1>1 DEF ReadyStarts, Policy, PEType
<1>5. dpm' = dpm
  BY DEF ReadyStarts
<1>6. Policy'
  BY <1>1, <1>4, <1>5, MoveStep DEF PEState, Asking, Settled, Sending
<1>7. QED BY <1>3, <1>6, Together

\* Messages the handler frees at once.
LEMMA ReadyFreesStep ==
    ASSUME IInv, NEW types,
           NEW st \in {"PESinkReady", "PESinkSendNotSupported", "PESinkGiveSinkCap",
                       "PESinkSoftReset", "PESinkChunkReceived",
                       "PESinkNotSupportedReceived", "PESinkSendSoftReset"},
           ReadyFrees(types, st)
    PROVE  IInv'
<1>1. Frame' /\ pe.state = "PESinkReady"
      /\ pe' = [pe EXCEPT !.state = st, !.message = NoBuf]
  BY ConsumeStep DEF ReadyFrees, WaitMask
<1>2. Policy'
  BY <1>1, MoveStep DEF IInv, ReadyFrees, PEState, Asking, Settled, Sending
<1>3. QED BY <1>1, <1>2, Together

\* PE_SNK_Ready as a whole.
LEMMA ReadyStep == ASSUME IInv, Ready PROVE IInv'
<1> DEFINE s == "PESinkReady"
<1> USE DEF PEState, Asking, Settled, Sending
<1>1. "MSG_RX" \in WaitMask[s] /\ Policy
  BY DEF WaitMask, IInv
<1>2. CASE OnReset(s)
  <2>1. Frame' /\ pe.state = s /\ dpm' = dpm
        /\ pe' = [pe EXCEPT !.state = "PESinkTransitionDefault"]
    BY <1>2, OnResetStep DEF OnReset, Awake, At
  <2>2. QED BY <1>1, <2>1, MoveStep, Together
<1>3. CASE TimesOut(s, "PESinkSelectCap")
  BY <1>1, <1>3, TimesOutStep, MoveStep, Together
<1>4. CASE /\ ReadyWakes("I_OVRTEMP", {"RESET"})
           /\ Goto("PESinkHardReset")
           /\ UNCHANGED <<sched, box, pool, mem, fault, dpm, partnerVars>>
           /\ peUnchanged
  <2>1. Frame' /\ pe.state = s
    BY <1>4, FlagsStep DEF ReadyWakes, Awake, At
  <2>2. QED BY <1>1, <1>4, <2>1, MoveStep, Together DEF Goto
<1>5. ASSUME NEW types, dpm' = transition_min,
             Consume(s, ReadyUrgent, types, "PESinkTransitionSink",
                     [pe EXCEPT !.minPower = TRUE])
      PROVE  IInv'
  <2>1. Frame' /\ pe.state = s
        /\ pe' = [[pe EXCEPT !.minPower = TRUE]
                    EXCEPT !.state = "PESinkTransitionSink", !.message = NoBuf]
    BY <1>1, <1>5, ConsumeStep
  <2>2. pe' \in PEType /\ pe'.state = "PESinkTransitionSink"
        /\ pe'.request = pe.request /\ pe'.message = NoBuf
    BY <1>1, <2>1 DEF Policy, PEType
  <2>3. dpm' \in DPMType /\ dpm'.caps = dpm.caps /\ ~dpm'.output
    BY <1>1, <1>5, TransitionType DEF Policy
  <2>4. Policy'
    BY <1>1, <2>1, <2>2, <2>3 DEF Policy, OutputUnderContract
  <2>5. QED BY <2>1, <2>4, Together
<1>6. ASSUME NEW b \in Buf, Fetch(s, ReadyUrgent, b), UNCHANGED <<pool, mem, dpm>>,
             pe' = [pe EXCEPT !.state = "PESinkEvalCap", !.message = b]
      PROVE  IInv'
  <2>1. Frame' /\ pe.state = s
    BY <1>1, <1>6, FetchStep DEF Frame, IInv, Kernel
  <2>2. pe' \in PEType /\ pe'.state = "PESinkEvalCap" /\ pe'.contract = pe.contract
    BY <1>1, <1>6 DEF Policy, PEType
  <2>3. QED BY <1>1, <1>6, <2>1, <2>2, Together DEF Policy, OutputUnderContract
<1>7. QED
  BY <1>2, <1>3, <1>4, <1>5, <1>6, ReadyStartsStep, ReadyFreesStep DEF Ready

-----------------------------------------------------------------------------
(* The handlers that send a message and await its outcome.                 *)

\* Every handler that allocates and sends a message.
LEMMA SendingStep ==
    ASSUME IInv, NEW s, NEW type \in MsgType \ {"SourceCap"},
           NEW wait \in Sending, SendNew(s, type, wait),
           wait \in Settled => s \in Settled,
           s # "PESinkSourceUnresponsive"
    PROVE  IInv'
<1>1. Frame' /\ pe.state = s /\ dpm' = dpm /\ Policy
  BY SendNewStep DEF IInv
<1>2. CASE pe' = pe
  BY <1>1, <1>2, Together DEF Policy, OutputUnderContract
<1>3. ASSUME NEW b \in Buf, pe' = [pe EXCEPT !.state = wait, !.sending = b]
      PROVE  IInv'
  <2>1. /\ pe' \in PEType /\ pe'.state = wait /\ pe'.sending # NoBuf
        /\ pe'.request = pe.request /\ pe'.message = pe.message
        /\ pe'.contract = pe.contract
    BY <1>1, <1>3, NoBufOutside DEF Policy, PEType, PEState, Sending
  <2>2. Policy'
    BY <1>1, <2>1 DEF Policy, OutputUnderContract, Asking, Settled, Sending
  <2>3. QED BY <1>1, <2>2, Together
<1>4. QED BY <1>2, <1>3, SendNewStep

\* Every handler that frees what it sent and looks at the outcome.
LEMMA SentOrStep ==
    ASSUME IInv, NEW s \in Sending, NEW done, NEW failed, SentOr(s, done, failed),
           {done, failed} \subseteq {"PESinkReady", "PESinkHardReset", "PESinkWaitCap",
                                     "PESinkSendSoftReset", "PESinkSendSoftResetRx"},
           "PESinkReady" \in {done, failed} => s \in Settled
    PROVE  IInv'
<1>1. ASSUME NEW outcome, NEW next \in {"PESinkTransitionDefault", done, failed},
             Sent(s, outcome, next)
      PROVE  IInv'
  <2>1. Frame' /\ pe.state = s /\ dpm' = dpm
        /\ pe' = [pe EXCEPT !.state = next, !.sending = NoBuf]
    BY <1>1, SentStep
  <2>2. Policy'
    BY <1>1, <2>1, MoveStep DEF IInv, PEState, Asking, Settled, Sending
  <2>3. QED BY <2>1, <2>2, Together
<1>2. QED BY <1>1 DEF SentOr

\* The four handlers that consist of these two.
LEMMA SendersStep ==
    ASSUME IInv, GetSourceCap \/ GiveSinkCap \/ SoftReset \/ SendNotSupported
    PROVE  IInv'
<1> USE DEF Sending, Settled, MsgType
<1>1. CASE GetSourceCap
  BY <1>1, SendingStep, SentOrStep DEF GetSourceCap
<1>2. CASE GiveSinkCap
  BY <1>2, SendingStep, SentOrStep DEF GiveSinkCap
<1>3. CASE SoftReset
  BY <1>3, SendingStep, SentOrStep DEF SoftReset
<1>4. CASE SendNotSupported
  <2>1. (IF pe.rev = 3 THEN "NotSupported" ELSE "Reject") \in MsgType \ {"SourceCap"}
    OBVIOUS
  <2>2. QED BY <1>4, <2>1, SendingStep, SentOrStep DEF SendNotSupported
<1>5. QED BY <1>1, <1>2, <1>3, <1>4

\* PE_SNK_Send_Soft_Reset.
LEMMA SendSoftResetStep == ASSUME IInv, SendSoftReset PROVE IInv'
<1> DEFINE rxs == "PESinkSendSoftResetRx"
           reset == {"RESET"}
<1> USE DEF PEState, Asking, Settled, Sending
<1>1. "MSG_RX" \in WaitMask[rxs] /\ Policy
  BY DEF WaitMask, IInv
<1>2. CASE SendNew("PESinkSendSoftReset", "SoftReset", "PESinkSendSoftResetTx")
  BY <1>2, SendingStep DEF MsgType
<1>3. CASE SentOr("PESinkSendSoftResetTx", rxs, "PESinkHardReset")
  BY <1>3, SentOrStep
<1>4. CASE OnReset(rxs)
  <2>1. Frame' /\ pe.state = rxs /\ dpm' = dpm
        /\ pe' = [pe EXCEPT !.state = "PESinkTransitionDefault"]
    BY <1>4, OnResetStep DEF OnReset, Awake, At
  <2>2. QED BY <1>1, <2>1, MoveStep, Together
<1>5. CASE TimesOut(rxs, "PESinkHardReset")
  BY <1>1, <1>5, TimesOutStep, MoveStep, Together
<1>6. ASSUME NEW types, NEW st \in {"PESinkWaitCap", "PESinkSoftReset",
                                    "PESinkHardReset"},
             Consume(rxs, reset, types, st, pe), dpm' = dpm
      PROVE  IInv'
  <2>1. Frame' /\ pe.state = rxs
        /\ pe' = [pe EXCEPT !.state = st, !.message = NoBuf]
    BY <1>1, <1>6, ConsumeStep
  <2>2. Policy'
    BY <1>1, <1>6, <2>1, MoveStep
  <2>3. QED BY <2>1, <2>2, Together
<1>7. QED BY <1>2, <1>3, <1>4, <1>5, <1>6 DEF SendSoftReset

\* PE_SNK_Chunk_Received and PE_SNK_Not_Supported_Received.
LEMMA ChunkReceivedStep ==
    ASSUME IInv, ChunkReceived \/ NotSupportedReceived PROVE IInv'
<1> USE DEF PEState, Asking, Settled, Sending
<1>1. CASE OnReset("PESinkChunkReceived")
  <2>1. Frame' /\ pe.state = "PESinkChunkReceived" /\ dpm' = dpm
        /\ pe' = [pe EXCEPT !.state = "PESinkTransitionDefault"]
    BY <1>1, OnResetStep DEF OnReset, Awake, At
  <2>2. QED BY <2>1, MoveStep, Together DEF IInv
<1>2. CASE TimesOut("PESinkChunkReceived", "PESinkSendNotSupported")
  BY <1>2, TimesOutStep, MoveStep, Together DEF IInv
<1>3. CASE NotSupportedReceived
  <2>1. Frame' /\ pe.state = "PESinkNotSupportedReceived"
    BY <1>3, UntouchedStep DEF NotSupportedReceived, At, kernelVars, partnerVars
  <2>2. QED BY <1>3, <2>1, MoveStep, Together DEF NotSupportedReceived, Goto, IInv
<1>4. QED BY <1>1, <1>2, <1>3 DEF ChunkReceived

-----------------------------------------------------------------------------
(* Hard resets and Type-C Current.                                         *)

\* PE_SNK_Hard_Reset: the output stays as it is, and so does the contract.
LEMMA HardResetStep == ASSUME IInv, HardReset PROVE IInv'
<1> USE DEF PEState, Asking, Settled, Sending
<1>1. Policy
  BY DEF IInv
<1>2. CASE /\ At("PESinkHardReset") /\ Goto("PESinkSourceUnresponsive")
           /\ UNCHANGED <<kernelVars, dpm, partnerVars>> /\ peUnchanged
  <2>1. Frame'
    BY <1>2, UntouchedStep DEF partnerVars
  <2>2. Policy'
    BY <1>1, <1>2, MoveStep DEF At, Goto
  <2>3. QED BY <2>1, <2>2, Together
<1>3. CASE /\ At("PESinkHardReset") /\ pe.resets <= N_HARD_RESET_COUNT
           /\ Signal("HR", {"RESET"}) /\ Goto("PESinkHardResetSent")
           /\ UNCHANGED <<box, pool, mem, fault, dpm, partnerVars>> /\ peUnchanged
  <2>1. evt' \in EvtType /\ sched' \in SchedType
    BY <1>3, SignalType DEF IInv, Kernel, HREvent
  <2>2. evt'.PE = evt.PE /\ evt'.TX = evt.TX
    BY <1>3 DEF Signal, IInv, Kernel, EvtType
  <2>3. Frame'
    BY <1>3, <2>1, <2>2, OthersStep DEF IInv, Frame, Kernel, FlagMeansMail
  <2>4. pe' \in PEType /\ pe'.state = "PESinkHardResetSent"
        /\ pe'.resets = pe.resets /\ pe'.contract = pe.contract
    BY <1>1, <1>3 DEF Goto, Policy, PEType
  <2>5. Policy'
    BY <1>1, <1>3, <2>4 DEF Policy, OutputUnderContract, At
  <2>6. QED BY <2>3, <2>5, Together
<1>4. CASE /\ Awake("PESinkHardResetSent")
           /\ pe' = [pe EXCEPT !.state = "PESinkTransitionDefault", !.resets = @ + 1]
           /\ UNCHANGED <<sched, box, pool, mem, fault, dpm, partnerVars>>
           /\ peUnchanged
  <2>1. Frame' /\ pe.state = "PESinkHardResetSent"
    BY <1>4, FlagsStep DEF Awake, At
  <2>2. pe.resets + 1 \in 0..(N_HARD_RESET_COUNT + 1)
    BY <1>1, <2>1 DEF Policy, PEType, N_HARD_RESET_COUNT
  <2>3. pe' \in PEType /\ pe'.state = "PESinkTransitionDefault"
        /\ pe'.contract = pe.contract
    BY <1>1, <1>4, <2>2 DEF Policy, PEType
  <2>4. Policy'
    BY <1>1, <1>4, <2>1, <2>3 DEF Policy, OutputUnderContract
  <2>5. QED BY <2>1, <2>4, Together
<1>5. QED BY <1>2, <1>3, <1>4 DEF HardReset

\* PE_SNK_Transition_to_default: the output is off before Startup drops the
\* contract.
LEMMA TransitionDefaultStep == ASSUME IInv, TransitionDefault PROVE IInv'
<1>1. evt' \in EvtType /\ sched' \in SchedType
  BY SignalType DEF TransitionDefault, IInv, Kernel, HREvent
<1>2. evt'.PE = evt.PE /\ evt'.TX = evt.TX
  BY DEF TransitionDefault, Signal, IInv, Kernel, EvtType
<1>3. Frame'
  BY <1>1, <1>2, OthersStep
     DEF TransitionDefault, IInv, Frame, Kernel, FlagMeansMail
<1>4. pe' \in PEType /\ pe'.state = "PESinkStartup"
  BY DEF TransitionDefault, IInv, Policy, PEType, PEState
<1>5. dpm' \in DPMType /\ ~dpm'.output
  BY TransitionType DEF TransitionDefault, IInv, Policy
<1>6. Policy'
  BY <1>4, <1>5 DEF Policy, OutputUnderContract, Asking, Settled, Sending
<1>7. QED BY <1>3, <1>6, Together

\* PE_SNK_Source_Unresponsive: the output follows the Type-C Current.
LEMMA SourceUnresponsiveStep == ASSUME IInv, SourceUnresponsive PROVE IInv'
<1>1. Frame'
  BY UntouchedStep DEF SourceUnresponsive, partnerVars
<1>2. PICK tcc : LET d == evaluate_typec_current(tcc)
                     m == IF d.match THEN 1 ELSE 0 IN
                 /\ dpm' = IF pe.oldMatch = m THEN transition_typec(d) ELSE d
                 /\ pe' = [pe EXCEPT !.oldMatch = m]
  BY DEF SourceUnresponsive
<1> DEFINE d == evaluate_typec_current(tcc)
<1>3. TypeCMatch(Scfg, tcc) \in BOOLEAN
  BY DEF TypeCMatch
<1>4. d \in DPMType
  <2>1. dpm \in DPMType
    BY DEF IInv, Policy
  <2>2. PICK m \in BOOLEAN, n \in Nat : m = TypeCMatch(Scfg, tcc) /\ n = 5000
    BY <1>3
  <2>3. d = [dpm EXCEPT !.requested = n, !.match = m]
    BY <2>2 DEF evaluate_typec_current
  <2> HIDE DEF d
  <2>4. QED BY <2>1, <2>3 DEF DPMType
<1>5. d.match \in BOOLEAN
  BY <1>4 DEF DPMType
<1>6. transition_typec(d) \in DPMType
  <2> HIDE DEF d
  <2>1. QED BY <1>4, <1>5, OutputSetType DEF transition_typec
<1>7. dpm' \in DPMType
  BY <1>2, <1>4, <1>6
<1>8. pe' \in PEType /\ pe'.state = "PESinkSourceUnresponsive"
  BY <1>2 DEF SourceUnresponsive, At, IInv, Policy, PEType
<1>9. Policy'
  BY <1>7, <1>8 DEF Policy, OutputUnderContract, Asking, Settled, Sending
<1>10. QED BY <1>1, <1>9, Together

\* The PPS timer.
LEMMA PpsTimerStep == ASSUME IInv, PpsTimer PROVE IInv'
<1>1. evt' \in EvtType /\ FlagMeansMail'
  BY DEF PpsTimer, IInv, Kernel, EvtType, PEEvent, FlagMeansMail
<1>2. Link' /\ Outside'
  BY DEF PpsTimer, peUnchanged, IInv, Link, Outside
<1>3. /\ pe' \in PEType /\ pe'.state = pe.state /\ pe'.contract = pe.contract
      /\ pe'.request = pe.request /\ pe'.message = pe.message
      /\ pe'.sending = pe.sending /\ pe'.resets = pe.resets
  BY DEF PpsTimer, IInv, Policy, PEType
<1>4. Policy'
  BY <1>3 DEF PpsTimer, IInv, Policy, OutputUnderContract
<1>5. QED BY <1>1, <1>2, <1>4 DEF PpsTimer, IInv, Kernel

\* No step of the Policy Engine breaks the invariant.
LEMMA PEStep == ASSUME IInv, PENext PROVE IInv'
BY StartupStep, WaitCapStep, EvalCapStep, SelectCapStep, TransitionSinkStep,
   ReadyStep, SendersStep, SendSoftResetStep, ChunkReceivedStep, HardResetStep,
   TransitionDefaultStep, SourceUnresponsiveStep, PpsTimerStep
   DEF PENext

-----------------------------------------------------------------------------
(* The theorems.                                                           *)
\* pdb_init establishes the invariant.
LEMMA InitIInv == Init => IInv
<1> SUFFICES ASSUME Init PROVE IInv
  OBVIOUS
<1>1. Kernel
  <2>1. evt \in EvtType /\ sched \in SchedType /\ box \in BoxType
    BY DEF Init, EvtType, SchedType, BoxType
  <2>2. pool \in Seq(Buf)
    BY PoolAssumption DEF Init, Buf
  <2>3. mem \in MemType /\ fault \in FaultType
    BY JunkAssumption DEF Init, MemType, FaultType
  <2>4. QED BY <2>1, <2>2, <2>3 DEF Kernel
<1>2. Link
  BY ZeroIsId
     DEF Init, RXInit, TXInit, HRInit, Link, RXType, TXType, HRType, RXState,
         TXState, HRState, TXHolding
<1>3. Outside
  <2>1. phy \in PhyType /\ status \in SUBSET Interrupt
    BY NilIsMsg DEF Init, PhyInit, PhyType
  <2>2. 1 \in 1..Len(Offers)
    BY DPMAssumption
  <2>3. src \in SrcType
    BY <2>2, ZeroIsId DEF Init, SrcInit, SrcType, MsgType, Answered
  <2>4. QED BY <2>1, <2>3 DEF Outside
<1>4. Policy
  <2>1. pe \in PEType /\ pe.state = "PESinkStartup"
    BY DEF Init, PEInit, PEType, PEState, NoPps, N_HARD_RESET_COUNT
  <2>2. dpm \in DPMType /\ ~dpm.output
    BY DEF Init, DPMInit, DPMType
  <2>3. QED BY <2>1, <2>2
            DEF Policy, OutputUnderContract, Asking, Settled, Sending
<1>5. FlagMeansMail
  BY DEF Init, FlagMeansMail
<1>6. QED BY <1>1, <1>2, <1>3, <1>4, <1>5 DEF IInv

\* Every step keeps it.
LEMMA StepIInv == IInv /\ [Next]_vars => IInv'
<1> SUFFICES ASSUME IInv, [Next]_vars PROVE IInv'
  OBVIOUS
<1>1. CASE Next
  BY <1>1, PEStep, RXStep, TXStep, HRStep, I2CStep, IntNStep, SourceStep,
     TransceiverStep, ApplicationStep DEF Next
<1>2. CASE UNCHANGED vars
  BY <1>2 DEF vars, kernelVars, partnerVars, IInv, Kernel, Link, Outside, Policy,
              OutputUnderContract, FlagMeansMail
<1>3. QED BY <1>1, <1>2

\* The inductive invariant holds, for every value of the constants.
THEOREM IInvHolds == Spec => []IInv
BY InitIInv, StepIInv, PTL DEF Spec

\* Every variable keeps its type, for every pool size, number of MessageIDs,
\* configuration and source: no thread leaves its enum of states, no flag is
\* signalled that its receiver has no bit for, and every reference a thread
\* holds is to a buffer of the pool or null.
THEOREM TypeCorrect == Spec => []TypeOK
<1>1. IInv => TypeOK
  BY DEF IInv, Kernel, Link, Outside, Policy, TypeOK, EvtType, SchedType, BoxType,
         MemType, FaultType
<1>2. QED BY <1>1, IInvHolds, PTL

\* In PE_SNK_Ready there is an explicit contract, and the Request and the
\* capabilities that renewing it needs are held.
THEOREM ContractInReady == Spec => []ReadyHoldsContract
<1>1. IInv => ReadyHoldsContract
  BY DEF IInv, Policy, Asking, Settled, ReadyHoldsContract
<1>2. QED BY <1>1, IInvHolds, PTL

\* The output is never on without a contract, unless the partner does not
\* speak PD.
THEOREM OutputSafe == Spec => []OutputUnderContract
<1>1. IInv => OutputUnderContract
  BY DEF IInv, Policy
<1>2. QED BY <1>1, IInvHolds, PTL

\* A handler that fetches a message on MSG_RX finds one.
THEOREM MailBehindFlag == Spec => []FlagMeansMail
<1>1. IInv => FlagMeansMail
  BY DEF IInv
<1>2. QED BY <1>1, IInvHolds, PTL
=============================================================================
