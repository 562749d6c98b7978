-------------------------------- MODULE Port --------------------------------
(***************************************************************************)
(* What surrounds the library: the FUSB302B transceiver, the INT_N polling *)
(* thread (lib/src/int_n.c), main's sink() loop and the port partner, a    *)
(* source that follows the protocol.                                       *)
(*                                                                         *)
(* The environment acts when the processor is idle.  It only changes the   *)
(* transceiver, which the threads see through I2C transfers, that is, when *)
(* the processor has been idle: what it does during a run of the threads   *)
(* is as if done at the end of that run.  The button and the timers act on *)
(* flags the Policy Engine waits for, and may interrupt a run.             *)
(***************************************************************************)
EXTENDS DPM

CONSTANTS
    SrcStarts,      \* the types of message the source sends of its own accord
    SrcRefusals,    \* its replies to a Request other than Accept
    Paced           \* TRUE: its messages are some milliseconds apart

ASSUME PortAssumption ==
    /\ SrcStarts \subseteq MsgType
    /\ SrcRefusals \subseteq {"Reject", "Wait"}
    /\ Paced \in BOOLEAN

threadsUnchanged == UNCHANGED <<box, pool, mem, fault, pe, dpm, rx, tx, hr>>

Interrupt == {"I_GCRCSENT", "I_TXSENT", "I_RETRYFAIL", "I_HARDRST",
              "I_HARDSENT", "I_OVRTEMP"}

PhyType == [fifo: Seq(Msg), irq: SUBSET Interrupt, air: Msg, hard: BOOLEAN]
PhyInit == /\ phy = [fifo |-> <<>>, irq |-> {}, air |-> Nil, hard |-> FALSE]
           /\ status = {}

-----------------------------------------------------------------------------
(* INT_N: read and clear the interrupt flags, then tell the RX, TX, Hard   *)
(* Reset and Policy Engine threads in this order.  It has the lowest       *)
(* priority: a thread it wakes runs before it goes on.                     *)
IntNPoll ==
    /\ Idle /\ BusFree
    /\ status = {} /\ phy.irq # {}
    /\ status' = phy.irq
    /\ phy' = [phy EXCEPT !.irq = {}]
    /\ UNCHANGED <<evt, sched, partnerVars>>
    /\ threadsUnchanged

IntNTell(t, flags, before) ==
    /\ Idle
    /\ status \cap before = {} /\ status \cap flags # {}
    /\ Signal(t, status \cap flags)
    /\ status' = status \ flags
    /\ UNCHANGED <<phy, partnerVars>>
    /\ threadsUnchanged

RxFlags == {"I_GCRCSENT"}
TxFlagsAndHardSent ==           \* mutant: I_HARDSENT goes to the TX thread
    {"I_RETRYFAIL", "I_TXSENT", "I_HARDSENT"}
TxFlags == {"I_RETRYFAIL", "I_TXSENT"}
HrFlags == {"I_HARDRST", "I_HARDSENT"}

IntNTellRX == IntNTell("RX", RxFlags, {})
IntNTellTX == IntNTell("TX", TxFlags, RxFlags)
IntNTellHR == IntNTell("HR", HrFlags, RxFlags \cup TxFlags)

IntNTellPE ==
    /\ Idle
    /\ status = {"I_OVRTEMP"}
    /\ evt' = [evt EXCEPT !.PE = @ \cup {"I_OVRTEMP"}]
    /\ status' = {}
    /\ UNCHANGED <<sched, phy, partnerVars>>
    /\ threadsUnchanged

IntN == IntNPoll \/ IntNTellRX \/ IntNTellTX \/ IntNTellHR \/ IntNTellPE

-----------------------------------------------------------------------------
(* The source: the messages it has yet to send, its MessageID counter, the *)
(* last MessageID it got, its offer, the position and the voltage it has   *)
(* accepted, what it puts on VBUS, the message it awaits an answer to,     *)
(* whether its first message has been sent and not been acknowledged       *)
(* (again), and whether it is between a hard reset and its first           *)
(* Source_Capabilities (off).                                              *)
SrcInit ==
    /\ src = [out |-> <<"SourceCap">>, id |-> 0, seen |-> -1, pos |-> 0,
              offer |-> 1, next |-> 5000, vbus |-> 5000, awaits |-> "none",
              again |-> FALSE, off |-> FALSE]
    /\ button = [state |-> 0, cnt |-> 1, phase |-> "boot"]
    /\ budget \in InitBudgets

\* Messages of the source that the sink has to answer.
Answered == {"SourceCap", "SoftReset", "GetSinkCap", "Swap", "GetSourceCap",
             "Request", "SinkCap"}

SrcType == [out: Seq(MsgType \cup {"transition"}), id: Id, seen: Id \cup {-1},
            pos: 0..7, offer: 1..Len(Offers), next: Nat, vbus: Nat,
            awaits: Answered \cup {"none"}, again: BOOLEAN, off: BOOLEAN]

portUnchanged == /\ threadsUnchanged
                 /\ UNCHANGED <<evt, sched, status>>

Raise(flag) == phy.irq \cup {flag}

\* The sink has done with all the source has sent.
SinkCaughtUp == /\ phy.fifo = <<>> /\ "I_GCRCSENT" \notin phy.irq \cup status
                /\ rx.state = "PRLRxWaitPHY" /\ BusFree

\* The source transmits the next message and the FUSB302B answers GoodCRC.
\* If that is lost the source sends the same message, same MessageID, again.
SrcSend ==
    /\ Idle
    /\ ~src.off /\ src.out # <<>> /\ Head(src.out) # "transition"
    /\ ~phy.hard
    /\ Paced /\ ~src.again => SinkCaughtUp
    /\ LET t == Head(src.out)
           n == IF t = "SoftReset" THEN 0 ELSE src.id
           m == [type |-> t, id |-> n,
                 obj |-> IF t = "SourceCap" THEN src.offer ELSE 0]
           s == [src EXCEPT !.seen = IF t = "SoftReset" THEN -1 ELSE @] IN
       /\ phy' = [phy EXCEPT !.fifo = Append(@, m), !.irq = Raise("I_GCRCSENT")]
       /\ \/ /\ src' = [s EXCEPT !.out = Tail(@), !.id = (n + 1) % IdMod,
                                 !.again = FALSE,
                                 !.awaits = IF t \in Answered THEN t ELSE "none"]
             /\ UNCHANGED budget
          \/ /\ Spend("loss")
             /\ src' = [s EXCEPT !.again = TRUE]
    /\ UNCHANGED button
    /\ portUnchanged

\* Every thread of the sink waits and nothing is on its way: some
\* milliseconds have passed.
SinkQuiet == /\ Idle
             /\ status = {} /\ phy.irq = {} /\ phy.air = Nil /\ ~phy.hard
             /\ BusFree

\* tSrcTransition after its Accept the source moves VBUS.
SrcTransition ==
    /\ SinkQuiet
    /\ src.out # <<>> /\ Head(src.out) = "transition"
    /\ src' = [src EXCEPT !.out = Tail(@), !.vbus = src.next]
    /\ UNCHANGED <<phy, button, budget>>
    /\ portUnchanged

\* The source starts an AMS: it is in its ready state.
SrcStart ==
    /\ Idle
    /\ src.out = <<>> /\ src.awaits = "none" /\ ~src.off
    /\ \E t \in SrcStarts \ {"SoftReset"} :
         /\ Spend("start")
         /\ \E o \in 1..Len(Offers) :
              /\ t # "SourceCap" => o = src.offer
              /\ src' = [src EXCEPT !.offer = o, !.out =
                           IF t = "GotoMin" THEN <<t, "PsRdy">> ELSE <<t>>]
    /\ UNCHANGED <<phy, button>>
    /\ portUnchanged

SrcSoftReset ==
    /\ Idle
    /\ "SoftReset" \in SrcStarts
    /\ ~src.off /\ ~src.again
    /\ Spend("start")
    /\ src' = [src EXCEPT !.out = <<"SoftReset">>]
    /\ UNCHANGED <<phy, button>>
    /\ portUnchanged

AfterHardReset == [src EXCEPT !.out = <<"SourceCap">>, !.id = 0, !.seen = -1,
                              !.awaits = "none", !.again = FALSE, !.off = TRUE]

\* The source signals a hard reset; it kills what the sink is sending.
SrcHardReset ==
    /\ Idle
    /\ Spend("hard")
    /\ phy' = [phy EXCEPT !.irq = Raise("I_HARDRST"), !.air = Nil]
    /\ src' = AfterHardReset
    /\ UNCHANGED button
    /\ portUnchanged

\* tPSHardReset has passed, VBUS is off and back at vSafe5V.
SrcRecover ==
    /\ SinkQuiet /\ src.off
    /\ src' = [src EXCEPT !.off = FALSE, !.vbus = 5000]
    /\ UNCHANGED <<phy, button, budget>>
    /\ portUnchanged

\* What the source puts on VBUS for a request of this PDO.
Voltage(pdo) == IF pdo.kind = "fixed" THEN pdo.lo ELSE Round(Scfg.v, 20)

\* The state of the source after message m, to which it replies r if it is a
\* Request it can grant: it drops a retransmission, and what is no answer to
\* its Soft_Reset.
AfterMessage(m, r) ==
    LET t == [src EXCEPT !.seen = m.id, !.awaits = "none"]
        valid == m.obj \in 1..Len(Offers[src.offer]) IN
    IF m.id = src.seen /\ m.type # "SoftReset" THEN src
    ELSE IF src.awaits = "SoftReset" /\ m.type \notin {"Accept", "SoftReset"}
    THEN [src EXCEPT !.seen = m.id]
    ELSE CASE m.type = "Request" /\ valid /\ r = "Accept" ->
                [t EXCEPT !.out = <<"Accept", "transition", "PsRdy">>, !.pos = m.obj,
                          !.next = Voltage(Offers[src.offer][m.obj])]
           [] m.type = "Request" /\ valid /\ r # "Accept" -> [t EXCEPT !.out = <<r>>]
           [] m.type = "Request" /\ ~valid -> [t EXCEPT !.out = <<"Reject">>]
           [] m.type = "SoftReset" -> [t EXCEPT !.id = 0, !.out = <<"Accept", "SourceCap">>]
           [] m.type = "GetSourceCap" \/ (m.type = "Accept" /\ src.awaits = "SoftReset") ->
                [t EXCEPT !.out = <<"SourceCap">>]
           [] OTHER -> t

\* The source gets the message in the air. It may refuse a Request.
SrcHears ==
    \/ src' = AfterMessage(phy.air, "Accept") /\ UNCHANGED budget
    \/ /\ phy.air.type = "Request"
       /\ Spend("refuse")
       /\ \E r \in SrcRefusals : src' = AfterMessage(phy.air, r)

\* The FUSB302B has sent the message in the air and got its GoodCRC, ...
PhySent ==
    /\ Idle
    /\ phy.air # Nil /\ ~phy.hard /\ ~src.again
    /\ phy' = [phy EXCEPT
         !.fifo = Append(@, [type |-> "GoodCRC", id |-> phy.air.id, obj |-> 0]),
         !.irq = Raise("I_TXSENT"), !.air = Nil]
    /\ SrcHears
    /\ UNCHANGED button
    /\ portUnchanged

\* ... or given up after its retries, whether or not the source heard it, ...
PhyRetryFail ==
    /\ Idle
    /\ phy.air # Nil /\ ~phy.hard /\ ~src.again
    /\ Spend("fail")
    /\ phy' = [phy EXCEPT !.irq = Raise("I_RETRYFAIL"), !.air = Nil]
    /\ src' \in {src, AfterMessage(phy.air, "Accept")}
    /\ UNCHANGED button
    /\ portUnchanged

\* ... or sent the hard reset.
PhyHardSent ==
    /\ Idle
    /\ phy.hard
    /\ phy' = [phy EXCEPT !.irq = Raise("I_HARDSENT"), !.hard = FALSE, !.air = Nil]
    /\ src' = AfterHardReset
    /\ UNCHANGED <<button, budget>>
    /\ portUnchanged

Overheat ==
    /\ Idle
    /\ Spend("temp")
    /\ phy' = [phy EXCEPT !.irq = Raise("I_OVRTEMP")]
    /\ UNCHANGED <<src, button>>
    /\ portUnchanged

Source == \/ SrcSend \/ SrcTransition \/ SrcStart \/ SrcSoftReset
          \/ SrcHardReset \/ SrcRecover
Transceiver == PhySent \/ PhyRetryFail \/ PhyHardSent \/ Overheat

-----------------------------------------------------------------------------
(* main's loop, and an application that asks for Source_Capabilities.      *)
TellPE(flag) == /\ fault = "none" /\ ~PERunnable
                /\ evt' = [evt EXCEPT !.PE = @ \cup {flag}]
                /\ UNCHANGED <<sched, phy, status, src>>
                /\ threadsUnchanged

\* 110 ms after pdb_init.
MainBoot ==
    /\ button.phase = "boot"
    /\ TellPE("NEW_POWER")
    /\ button' = [button EXCEPT !.state = 0, !.phase = "up"]
    /\ UNCHANGED budget

ButtonPress ==
    /\ fault = "none" /\ ~PERunnable
    /\ button.phase = "up"
    /\ Spend("press")
    /\ button' = Pressed
    /\ UNCHANGED <<evt, sched, phy, status, src>>
    /\ threadsUnchanged

ButtonRelease ==
    /\ button.phase = "down"
    /\ TellPE("NEW_POWER")
    /\ button' = [button EXCEPT !.phase = "up"]
    /\ UNCHANGED budget

AskSourceCap ==
    /\ Spend("query")
    /\ TellPE("GET_SOURCE_CAP")
    /\ UNCHANGED button

Application == MainBoot \/ ButtonPress \/ ButtonRelease \/ AskSourceCap
=============================================================================
