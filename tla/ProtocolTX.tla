----------------------------- MODULE ProtocolTX -----------------------------
(***************************************************************************)
(* The protocol layer's transmitting thread (lib/src/protocol_tx.c).       *)
(***************************************************************************)
EXTENDS PDState

TXType == [state: TXState, message: Buf \cup {NoBuf}, counter: Id]

TXInit == tx = [state |-> "PRLTxPHYReset", message |-> NoBuf, counter |-> 0]

TXAt(s) == Runs("TX") /\ tx.state = s

txUnchanged == UNCHANGED <<pool, fault, pe, dpm, rx, hr, status, partnerVars>>

TXGoto(s) == tx' = [tx EXCEPT !.state = s] /\ Enter("TX", s)

NotIncremented == tx.counter     \* mutant: the MessageID stays the same
Incremented == (tx.counter + 1) % IdMod

\* Mutant: the Policy Engine is told whether or not a message was pending.
TxPHYResetTells ==
    /\ TXAt("PRLTxPHYReset")
    /\ phy' = [phy EXCEPT !.fifo = <<>>, !.air = Nil]
    /\ evt' = [evt EXCEPT !.PE = @ \cup {"TX_ERR"}]
    /\ tx' = [tx EXCEPT !.state = "PRLTxWaitMessage", !.message = NoBuf]
    /\ Enter("TX", "PRLTxWaitMessage")
    /\ UNCHANGED <<box, mem>>
    /\ txUnchanged

\* fusb_reset flushes both FIFOs; then a pending message has failed.
TxPHYReset ==
    /\ TXAt("PRLTxPHYReset")
    /\ phy' = [phy EXCEPT !.fifo = <<>>, !.air = Nil]
    /\ evt' = IF tx.message = NoBuf THEN evt
              ELSE [evt EXCEPT !.PE = @ \cup {"TX_ERR"}]
    /\ tx' = [tx EXCEPT !.state = "PRLTxWaitMessage", !.message = NoBuf]
    /\ Enter("TX", "PRLTxWaitMessage")
    /\ UNCHANGED <<box, mem>>
    /\ txUnchanged

\* One wake-up clears all three flags; RESET and DISCARD win over MSG_TX.  The
\* result of the fetch is ignored: that there is a message to fetch whenever
\* the flag is set is not a guard of the code, but holds (FlagMeansMail).
TxWaitMessage ==
    /\ TXAt("PRLTxWaitMessage")
    /\ evt' = [evt EXCEPT !.TX = @ \ WaitMask["PRLTxWaitMessage"]]
    /\ \/ /\ "RESET" \in evt.TX
          /\ TXGoto("PRLTxPHYReset")
          /\ UNCHANGED box
       \/ /\ "RESET" \notin evt.TX /\ "DISCARD" \in evt.TX
          /\ TXGoto("PRLTxDiscardMessage")
          /\ UNCHANGED box
       \/ /\ evt.TX \cap {"RESET", "DISCARD"} = {} /\ "MSG_TX" \in evt.TX
          /\ box.TX # <<>>
          /\ box' = [box EXCEPT !.TX = Tail(@)]
          /\ LET s == IF mem[Head(box.TX)].type = "SoftReset" THEN "PRLTxReset"
                      ELSE "PRLTxConstructMessage" IN
             /\ tx' = [tx EXCEPT !.state = s, !.message = Head(box.TX)]
             /\ Enter("TX", s)
    /\ UNCHANGED <<mem, phy>>
    /\ txUnchanged

TxReset ==
    /\ TXAt("PRLTxReset")
    /\ tx' = [tx EXCEPT !.state = "PRLTxConstructMessage", !.counter = 0]
    /\ SignalAndYield("TX", "RX", {"RESET"})
    /\ UNCHANGED <<box, mem, phy>>
    /\ txUnchanged

\* The free list runs through the headers of the free buffers: writing the
\* MessageID of a message that has been freed breaks it.
TxConstructMessage ==
    /\ TXAt("PRLTxConstructMessage")
    /\ IF /\ evt.TX \cap {"RESET", "DISCARD"} = {}
          /\ \E i \in 1..Len(pool) : pool[i] = tx.message
       THEN Fault("freedWrite")
       ELSE
       /\ \/ /\ "RESET" \in evt.TX
             /\ evt' = [evt EXCEPT !.TX = @ \ {"RESET", "DISCARD"}]
             /\ TXGoto("PRLTxPHYReset")
             /\ UNCHANGED mem
          \/ /\ "RESET" \notin evt.TX /\ "DISCARD" \in evt.TX
             /\ evt' = [evt EXCEPT !.TX = @ \ {"DISCARD"}]
             /\ TXGoto("PRLTxDiscardMessage")
             /\ UNCHANGED mem
          \/ /\ evt.TX \cap {"RESET", "DISCARD"} = {}
             /\ mem' = [mem EXCEPT ![tx.message].id = tx.counter]
             /\ IF pe.rev = 3 /\ "START_AMS" \in evt.TX
                THEN /\ evt' = [evt EXCEPT !.TX = @ \ {"START_AMS"}]
                     /\ TXGoto("PRLTxSinkTx")
                ELSE UNCHANGED evt /\ TXGoto("PRLTxSend")
       /\ UNCHANGED <<box, phy>>
       /\ txUnchanged

\* A source of revision 3.0 shows SinkTxNG while it has an AMS to go on with.
SinkTxOK == src.out = <<>>

\* Polling fusb_get_typec_current until the source shows SinkTxOK; RESET and
\* DISCARD are not looked at meanwhile.
TxSinkTx ==
    /\ TXAt("PRLTxSinkTx")
    /\ UNCHANGED <<evt, box, mem, phy>>
    /\ TXGoto(IF SinkTxOK THEN "PRLTxSend" ELSE "PRLTxSinkTx")
    /\ txUnchanged

\* fusb_send_message
TxSend ==
    /\ TXAt("PRLTxSend")
    /\ phy' = [phy EXCEPT !.air = mem[tx.message]]
    /\ UNCHANGED <<evt, box, mem>>
    /\ TXGoto("PRLTxWaitResponse")
    /\ txUnchanged

\* Mutant: the wait leaves the flags it has got pending.
TxWaitResponseLeaves ==
    /\ TXAt("PRLTxWaitResponse")
    /\ \/ "RESET" \in evt.TX /\ TXGoto("PRLTxPHYReset")
       \/ /\ "RESET" \notin evt.TX /\ "DISCARD" \in evt.TX
          /\ TXGoto("PRLTxDiscardMessage")
       \/ /\ evt.TX \cap {"RESET", "DISCARD"} = {} /\ "I_TXSENT" \in evt.TX
          /\ TXGoto("PRLTxMatchMessageID")
       \/ /\ evt.TX \cap {"RESET", "DISCARD", "I_TXSENT"} = {}
          /\ "I_RETRYFAIL" \in evt.TX
          /\ TXGoto("PRLTxTransmissionError")
    /\ UNCHANGED <<evt, box, mem, phy>>
    /\ txUnchanged

TxWaitResponse ==
    /\ TXAt("PRLTxWaitResponse")
    /\ evt' = [evt EXCEPT !.TX = @ \ WaitMask["PRLTxWaitResponse"]]
    /\ \/ "RESET" \in evt.TX /\ TXGoto("PRLTxPHYReset")
       \/ /\ "RESET" \notin evt.TX /\ "DISCARD" \in evt.TX
          /\ TXGoto("PRLTxDiscardMessage")
       \/ /\ evt.TX \cap {"RESET", "DISCARD"} = {} /\ "I_TXSENT" \in evt.TX
          /\ TXGoto("PRLTxMatchMessageID")
       \/ /\ evt.TX \cap {"RESET", "DISCARD", "I_TXSENT"} = {}
          /\ "I_RETRYFAIL" \in evt.TX
          /\ TXGoto("PRLTxTransmissionError")
    /\ UNCHANGED <<box, mem, phy>>
    /\ txUnchanged

\* The GoodCRC is read into an uninitialised local: from an empty FIFO the
\* comparison can go either way.
TxMatchMessageID ==
    /\ TXAt("PRLTxMatchMessageID")
    /\ UNCHANGED <<evt, box, mem>>
    /\ \E ok \in BOOLEAN :
         /\ phy.fifo # <<>> =>
              ok = (/\ Head(phy.fifo).type = "GoodCRC"
                    /\ Head(phy.fifo).id = tx.counter)
         /\ TXGoto(IF ok THEN "PRLTxMessageSent" ELSE "PRLTxTransmissionError")
    /\ phy' = IF phy.fifo = <<>> THEN phy ELSE [phy EXCEPT !.fifo = Tail(@)]
    /\ txUnchanged

\* Both outcomes count the message, tell the Policy Engine and forget it.
TxOver(s, flag) ==
    /\ TXAt(s)
    /\ evt' = [evt EXCEPT !.PE = @ \cup {flag}]
    /\ tx' = [state |-> "PRLTxWaitMessage", message |-> NoBuf,
              counter |-> Incremented]
    /\ Enter("TX", "PRLTxWaitMessage")
    /\ UNCHANGED <<box, mem, phy>>
    /\ txUnchanged

\* Mutant: the error is counted and nobody is told.
TxTransmissionErrorSilent ==
    /\ TXAt("PRLTxTransmissionError")
    /\ UNCHANGED <<evt, box, mem, phy>>
    /\ tx' = [state |-> "PRLTxWaitMessage", message |-> NoBuf,
              counter |-> Incremented]
    /\ Enter("TX", "PRLTxWaitMessage")
    /\ txUnchanged

TxTransmissionError == TxOver("PRLTxTransmissionError", "TX_ERR")
TxMessageSent == TxOver("PRLTxMessageSent", "TX_DONE")

TxDiscardMessage ==
    /\ TXAt("PRLTxDiscardMessage")
    /\ tx' = [tx EXCEPT !.state = "PRLTxPHYReset",
                        !.counter = IF tx.message # NoBuf THEN Incremented ELSE @]
    /\ UNCHANGED <<evt, box, mem, phy>>
    /\ Enter("TX", "PRLTxPHYReset")
    /\ txUnchanged

TXNext == \/ TxPHYReset \/ TxWaitMessage \/ TxReset \/ TxConstructMessage
          \/ TxSinkTx \/ TxSend \/ TxWaitResponse \/ TxMatchMessageID
          \/ TxTransmissionError \/ TxMessageSent \/ TxDiscardMessage
=============================================================================
