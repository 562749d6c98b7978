------------------------------- MODULE PDState -------------------------------
(***************************************************************************)
(* The state the threads of the PD Buddy firmware library share (struct    *)
(* pdb_config, the message pool) and the ChibiOS/RT services they use on   *)
(* it: event flags, mailboxes, the memory pool and the scheduler.          *)
(*                                                                         *)
(* Priorities (lib/src/priorities.h): main preempts the Policy Engine,     *)
(* which preempts the three protocol-layer threads, which are equals, and  *)
(* they preempt INT_N.                                                     *)
(* CH_CFG_TIME_QUANTUM is 0: equals run until they block or yield, in the  *)
(* FIFO order of the ready list, sched.ready.  An I2C transfer holds the   *)
(* bus mutex: they are done one at a time, in the order of sched.bus.      *)
(***************************************************************************)
EXTENDS Integers, Sequences, FiniteSets

CONSTANTS
    PoolSize,       \* PDB_MSG_POOL_SIZE
    IdMod,          \* number of MessageIDs (8 in the code)
    Junk,           \* what a freed buffer reads as: its link word, as a header
    Offers,         \* the Source_Capabilities contents: sequences of PDOs
    InitBudgets     \* how many of each environment event may happen: a choice

ASSUME PoolAssumption == PoolSize \in Nat \ {0}
ASSUME IdAssumption == IdMod \in Nat \ {0}

VARIABLES
    evt,            \* pending event flags of each thread
    sched,          \* the protocol layer's ready list; the queue for the I2C bus
    box,            \* the two mailboxes: pe.mailbox and prl.tx_mailbox
    pool,           \* the free list of pdb_msg_pool, top first
    mem,            \* the contents of the message buffers
    fault,          \* why execution left what C defines, or "none"
    pe,             \* cfg->pe and the Policy Engine's state
    dpm,            \* cfg->dpm_data and the output switch
    rx, tx, hr,     \* the protocol layer: cfg->prl and its threads' states
    phy,            \* the FUSB302B: RX FIFO, interrupt flags, message in the air
    status,         \* interrupt flags INT_N has read and not passed on yet
    src,            \* the port partner
    button,         \* main's sink() loop and cfg->state
    budget          \* what is left of the budget chosen

kernelVars == <<evt, sched, box, pool, mem, fault>>
partnerVars == <<src, button, budget>>
vars == <<kernelVars, pe, dpm, rx, tx, hr, phy, status, partnerVars>>

-----------------------------------------------------------------------------
(* Messages. Two header fields and one datum: the index in Offers of a     *)
(* Source_Capabilities, the object position of a Request, 0 otherwise.     *)
(* DR_Swap, PR_Swap and VCONN_Swap are handled alike: "Swap".              *)
MsgType == {"SourceCap", "Request", "SinkCap", "VDM", "GoodCRC", "GotoMin",
            "Accept", "Reject", "Ping", "PsRdy", "GetSourceCap", "GetSinkCap",
            "Swap", "Wait", "SoftReset", "NotSupported", "Chunked",
            "Unknown"}
Id == 0..(IdMod - 1)
Msg == {m \in [type: MsgType, id: Id, obj: Nat] :
          m.type = "SourceCap" => m.obj \in 1..Len(Offers)}
Message(t, o) == [type |-> t, id |-> 0, obj |-> o]
Nil == Message("Unknown", 0)    \* no message is in the air

\* chPoolFree links a buffer through its first word, where the header is.
ASSUME JunkAssumption == Junk \in Msg

Buf == 1..PoolSize
NoBuf == 0

-----------------------------------------------------------------------------
(* Event flags and waits: chEvtWaitAny(mask) by the state that waits.      *)
PEEvent == {"RESET", "MSG_RX", "TX_DONE", "TX_ERR", "HARD_SENT", "I_OVRTEMP",
            "PPS_REQUEST", "GET_SOURCE_CAP", "NEW_POWER"}
RXEvent == {"RESET", "I_GCRCSENT"}
TXEvent == {"RESET", "I_TXSENT", "I_RETRYFAIL", "DISCARD", "MSG_TX", "START_AMS"}
HREvent == {"RESET", "I_HARDRST", "I_HARDSENT", "DONE"}

TxOutcome == {"TX_DONE", "TX_ERR", "RESET"}

WaitMask ==
   [PESinkWaitCap          |-> {"MSG_RX", "I_OVRTEMP", "RESET"},
    PESinkSelectCapTx      |-> TxOutcome,
    PESinkSelectCapRx      |-> {"MSG_RX", "RESET"},
    PESinkTransitionSink   |-> {"MSG_RX", "RESET"},
    PESinkReady            |-> {"MSG_RX", "RESET", "I_OVRTEMP",
                                "GET_SOURCE_CAP", "NEW_POWER", "PPS_REQUEST"},
    PESinkGetSourceCapTx   |-> TxOutcome,
    PESinkGiveSinkCapTx    |-> TxOutcome,
    PESinkHardResetSent    |-> {"HARD_SENT"},
    PESinkSoftResetTx      |-> TxOutcome,
    PESinkSendSoftResetTx  |-> TxOutcome,
    PESinkSendSoftResetRx  |-> {"MSG_RX", "RESET"},
    PESinkSendNotSupportedTx |-> TxOutcome,
    PESinkChunkReceived    |-> {"RESET"},
    PESinkSourceUnresponsive |-> {},
    PRLRxWaitPHY           |-> RXEvent,
    PRLTxWaitMessage       |-> {"RESET", "DISCARD", "MSG_TX"},
    PRLTxWaitResponse      |-> {"RESET", "DISCARD", "I_TXSENT", "I_RETRYFAIL"},
    PRLHRResetLayer        |-> {"RESET", "I_HARDRST"},
    PRLHRWaitPHY           |-> {"I_HARDSENT"},
    PRLHRWaitPE            |-> {"DONE"}]

\* States in which a protocol-layer thread is blocked in an I2C transfer.
I2CState == {"PRLRxRead", "PRLTxPHYReset", "PRLTxSinkTx", "PRLTxSend",
             "PRLTxMatchMessageID"}

PEState == {"PESinkStartup", "PESinkDiscovery", "PESinkEvalCap",
            "PESinkSelectCap", "PESinkGetSourceCap", "PESinkGiveSinkCap",
            "PESinkHardReset", "PESinkTransitionDefault", "PESinkSoftReset",
            "PESinkSendSoftReset", "PESinkSendNotSupported",
            "PESinkNotSupportedReceived",
            "PESinkWaitCap", "PESinkSelectCapTx", "PESinkSelectCapRx",
            "PESinkTransitionSink", "PESinkReady", "PESinkGetSourceCapTx",
            "PESinkGiveSinkCapTx", "PESinkHardResetSent", "PESinkSoftResetTx",
            "PESinkSendSoftResetTx", "PESinkSendSoftResetRx",
            "PESinkSendNotSupportedTx", "PESinkChunkReceived",
            "PESinkSourceUnresponsive"}
RXState == {"PRLRxWaitPHY", "PRLRxRead", "PRLRxReset", "PRLRxResetYielded",
            "PRLRxCheckMessageID", "PRLRxStoreMessageID", "PRLRxStoreYielded"}
TXState == {"PRLTxPHYReset", "PRLTxWaitMessage", "PRLTxReset",
            "PRLTxConstructMessage", "PRLTxSinkTx", "PRLTxSend",
            "PRLTxWaitResponse", "PRLTxMatchMessageID", "PRLTxTransmissionError",
            "PRLTxMessageSent", "PRLTxDiscardMessage"}
HRState == {"PRLHRResetLayer", "PRLHRResetYielded", "PRLHRRequestHardReset",
            "PRLHRIndicateHardReset", "PRLHRWaitPHY", "PRLHRHardResetRequested",
            "PRLHRWaitPE"}

StateOf(t) == CASE t = "RX" -> rx.state [] t = "TX" -> tx.state [] t = "HR" -> hr.state

-----------------------------------------------------------------------------
(* The scheduler.                                                          *)
InReadyList(t) == \E i \in 1..Len(sched.ready) : sched.ready[i] = t

Waiting(s, pending) == s \in DOMAIN WaitMask /\ WaitMask[s] \cap pending = {}

\* The Policy Engine runs whenever it is not blocked in a wait.
PERunnable == ~Waiting(pe.state, evt.PE)

\* Thread t of the protocol layer has the processor.
Runs(t) == /\ fault = "none"
           /\ ~PERunnable
           /\ sched.ready # <<>>
           /\ Head(sched.ready) = t

\* The processor is idle (or runs only threads of a lower priority).
Idle == fault = "none" /\ ~PERunnable /\ sched.ready = <<>>

\* The ready list once thread t has been sent the flags in x.
Woken(t, x) ==
    IF /\ StateOf(t) \in DOMAIN WaitMask
       /\ WaitMask[StateOf(t)] \cap x # {}
       /\ ~InReadyList(t)
    THEN Append(sched.ready, t) ELSE sched.ready

\* chEvtSignal from a thread that goes on running or has a lower priority.
Signal(t, x) == /\ evt' = [evt EXCEPT ![t] = @ \cup x]
                /\ sched' = [sched EXCEPT !.ready = Woken(t, x)]

\* What chEvtSignal to an equal, then chThdYield, do to the ready list.
Yield(me, t, x) ==
    sched' = [sched EXCEPT !.ready = Append(Tail(Woken(t, x)), me)]

SignalAndYield(me, t, x) == /\ evt' = [evt EXCEPT ![t] = @ \cup x]
                            /\ Yield(me, t, x)

\* The running thread me enters state s: it releases the bus if it had it,
\* and leaves the ready list if it blocks, queueing for the bus if that is why.
Enter(me, s) ==
    LET freed == IF StateOf(me) \in I2CState
                 THEN SubSeq(sched.bus, 2, Len(sched.bus)) ELSE sched.bus
        rest == Tail(sched.ready) IN
    sched' = IF s \in I2CState THEN [ready |-> rest, bus |-> Append(freed, me)]
             ELSE [ready |-> IF Waiting(s, evt'[me]) THEN rest ELSE sched.ready,
                   bus |-> freed]

\* No transfer is under way: a thread that polls sleeps between transfers.
BusFree == sched.bus = <<>> \/ (sched.bus = <<"TX">> /\ tx.state = "PRLTxSinkTx")

\* The transfer of the thread that holds the bus is done.
I2CDone ==
    /\ fault = "none" /\ ~PERunnable
    /\ sched.bus # <<>> /\ ~InReadyList(Head(sched.bus))
    /\ sched' = [sched EXCEPT !.ready = Append(@, Head(sched.bus))]
    /\ UNCHANGED <<evt, box, pool, mem, fault, pe, dpm, rx, tx, hr,
                   phy, status, partnerVars>>

-----------------------------------------------------------------------------
(* The pool, a LIFO, and the mailboxes.                                    *)
Freed(b) == /\ pool' = <<b>> \o pool
            /\ mem' = [mem EXCEPT ![b] = Junk]

\* chMBPostTimeout(..., TIME_IMMEDIATE) fails when the mailbox is full.
Posted(m, b) == IF Len(box[m]) < PoolSize
                THEN [box EXCEPT ![m] = Append(@, b)] ELSE box

Fault(why) == /\ fault' = why
              /\ UNCHANGED <<evt, sched, box, pool, mem, pe, dpm, rx, tx, hr, phy,
                             status, partnerVars>>

\* One of the bounded number of events of kind k happens.
Spend(k) == /\ budget[k] > 0
            /\ budget' = [budget EXCEPT ![k] = @ - 1]

\* The button once it has been pressed.
Pressed == LET n == button.cnt + 1 IN
           [state |-> n, cnt |-> IF n > 3 THEN 0 ELSE n, phase |-> "down"]
=============================================================================
