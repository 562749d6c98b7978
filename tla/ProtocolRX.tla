----------------------------- MODULE ProtocolRX -----------------------------
(***************************************************************************)
(* The protocol layer's receiving thread (lib/src/protocol_rx.c).          *)
(***************************************************************************)
EXTENDS PDState

ZeroId == 0         \* mutant: the initial value is a MessageID
NoId == -1          \* no stored MessageID

RXType == [state: RXState, message: Buf \cup {NoBuf}, messageId: Id \cup {NoId}]

RXInit == rx = [state |-> "PRLRxWaitPHY", message |-> NoBuf, messageId |-> NoId]

RXAt(s) == Runs("RX") /\ rx.state = s

rxUnchanged == UNCHANGED <<fault, pe, dpm, hr, status, partnerVars>>

RXGoto(s) == rx' = [rx EXCEPT !.state = s] /\ Enter("RX", s)

\* chEvtWaitAny(ALL_EVENTS): a RESET swallows an I_GCRCSENT.
RxWaitPHY ==
    /\ RXAt("PRLRxWaitPHY")
    /\ IF "RESET" \notin evt.RX /\ pool = <<>> THEN Fault("nullAlloc")
       ELSE /\ evt' = [evt EXCEPT !.RX = {}]
            /\ \/ /\ "RESET" \in evt.RX
                  /\ RXGoto("PRLRxWaitPHY")
                  /\ UNCHANGED pool
               \/ /\ "RESET" \notin evt.RX
                  /\ rx' = [rx EXCEPT !.state = "PRLRxRead", !.message = Head(pool)]
                  /\ Enter("RX", "PRLRxRead")
                  /\ pool' = Tail(pool)
            /\ UNCHANGED <<box, mem, tx, phy>>
            /\ rxUnchanged

\* fusb_read_message; from an empty FIFO it leaves the buffer as it is, and
\* the caller does not look at its result.
RxRead ==
    /\ RXAt("PRLRxRead")
    /\ mem' = IF phy.fifo = <<>> THEN mem
              ELSE [mem EXCEPT ![rx.message] = Head(phy.fifo)]
    /\ phy' = IF phy.fifo = <<>> THEN phy ELSE [phy EXCEPT !.fifo = Tail(@)]
    /\ UNCHANGED <<evt, box, pool, tx>>
    /\ RXGoto(IF mem'[rx.message].type = "SoftReset" THEN "PRLRxReset"
              ELSE "PRLRxCheckMessageID")
    /\ rxUnchanged

RxReset ==
    /\ RXAt("PRLRxReset")
    /\ tx' = [tx EXCEPT !.counter = 0]
    /\ rx' = [rx EXCEPT !.state = "PRLRxResetYielded", !.messageId = NoId]
    /\ SignalAndYield("RX", "TX", {"RESET"})
    /\ UNCHANGED <<box, pool, mem, phy>>
    /\ rxUnchanged

\* Mutant: a dropped message is not freed.
RxDropLeaks ==
    /\ rx' = [rx EXCEPT !.state = "PRLRxWaitPHY", !.message = NoBuf]
    /\ Enter("RX", "PRLRxWaitPHY")
    /\ UNCHANGED <<pool, mem>>

\* Drop the message and wait for the next one.
RxDrop ==
    /\ Freed(rx.message)
    /\ rx' = [rx EXCEPT !.state = "PRLRxWaitPHY", !.message = NoBuf]
    /\ Enter("RX", "PRLRxWaitPHY")

RxResetYielded ==
    /\ RXAt("PRLRxResetYielded")
    /\ evt' = [evt EXCEPT !.RX = @ \ {"RESET"}]
    /\ \/ "RESET" \in evt.RX /\ RxDrop
       \/ /\ "RESET" \notin evt.RX
          /\ RXGoto("PRLRxCheckMessageID")
          /\ UNCHANGED <<pool, mem>>
    /\ UNCHANGED <<box, tx, phy>>
    /\ rxUnchanged

RxCheckMessageID ==
    /\ RXAt("PRLRxCheckMessageID")
    /\ evt' = [evt EXCEPT !.RX = @ \ {"RESET"}]
    /\ \/ /\ "RESET" \in evt.RX \/ mem[rx.message].id = rx.messageId
          /\ RxDrop
       \/ /\ "RESET" \notin evt.RX /\ mem[rx.message].id # rx.messageId
          /\ RXGoto("PRLRxStoreMessageID")
          /\ UNCHANGED <<pool, mem>>
    /\ UNCHANGED <<box, tx, phy>>
    /\ rxUnchanged

\* Mutant: the Policy Engine is told before the message is posted.
RxStoreMessageIDTellsPE ==
    /\ RXAt("PRLRxStoreMessageID")
    /\ evt' = [evt EXCEPT !.TX = @ \cup {"DISCARD"}, !.PE = @ \cup {"MSG_RX"}]
    /\ Yield("RX", "TX", {"DISCARD"})
    /\ rx' = [rx EXCEPT !.state = "PRLRxStoreYielded"]
    /\ UNCHANGED <<box, pool, mem, tx, phy>>
    /\ rxUnchanged

RxStoreMessageID ==
    /\ RXAt("PRLRxStoreMessageID")
    /\ SignalAndYield("RX", "TX", {"DISCARD"})
    /\ rx' = [rx EXCEPT !.state = "PRLRxStoreYielded"]
    /\ UNCHANGED <<box, pool, mem, tx, phy>>
    /\ rxUnchanged

\* "Don't check if we got a RESET because we'd do nothing different."
RxStoreYielded ==
    /\ RXAt("PRLRxStoreYielded")
    /\ evt' = [evt EXCEPT !.PE = @ \cup {"MSG_RX"}]
    /\ box' = Posted("PE", rx.message)
    /\ rx' = [rx EXCEPT !.state = "PRLRxWaitPHY",
                        !.messageId = mem[rx.message].id]
    /\ Enter("RX", "PRLRxWaitPHY")
    /\ UNCHANGED <<pool, mem, tx, phy>>
    /\ rxUnchanged

RXNext == \/ RxWaitPHY \/ RxRead \/ RxReset \/ RxResetYielded
          \/ RxCheckMessageID \/ RxStoreMessageID \/ RxStoreYielded
=============================================================================
