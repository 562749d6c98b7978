------------------------------- MODULE PDStack -------------------------------
(***************************************************************************)
(* The whole USB Power Delivery stack of the PD Buddy Sink: the Policy     *)
(* Engine, the three protocol-layer threads, the INT_N thread, the DPM and *)
(* main, connected to a FUSB302B and a source.                             *)
(***************************************************************************)
EXTENDS PolicyEngine, ProtocolRX, ProtocolTX, HardReset, Port

\* pdb_msg_pool_init, pdb_init and the start of every thread.  The pool is
\* loaded in array order, so that the last buffer is on top.
Init ==
    /\ evt = [PE |-> {}, RX |-> {}, TX |-> {}, HR |-> {}]
    /\ sched = [ready |-> <<>>, bus |-> <<"TX">>]
    /\ box = [PE |-> <<>>, TX |-> <<>>]
    /\ pool = [i \in 1..PoolSize |-> PoolSize + 1 - i]
    /\ mem = [b \in Buf |-> Junk]
    /\ fault = "none"
    /\ PEInit /\ DPMInit /\ RXInit /\ TXInit /\ HRInit /\ PhyInit /\ SrcInit

Next == PENext \/ RXNext \/ TXNext \/ HRNext \/ I2CDone \/ IntN
        \/ Source \/ Transceiver \/ Application

Spec == Init /\ [][Next]_vars

\* Every thread that can run does, every I2C transfer and every INT_N poll is
\* done, every running timer expires, the FUSB302B reports what became of what
\* it was told to send, and the source goes on with what it has begun.
Fairness ==
    /\ WF_vars(PENext) /\ WF_vars(RXNext) /\ WF_vars(TXNext) /\ WF_vars(HRNext)
    /\ WF_vars(I2CDone) /\ WF_vars(IntN)
    /\ WF_vars(PhySent \/ PhyRetryFail) /\ WF_vars(PhyHardSent)
    /\ WF_vars(SrcSend \/ SrcTransition \/ SrcRecover)
    /\ WF_vars(MainBoot \/ ButtonRelease)

FairSpec == Spec /\ Fairness

-----------------------------------------------------------------------------
(* The phase of a negotiation that a state of the Policy Engine is in.     *)
PhaseOf(s) ==
    CASE s \in {"PESinkDiscovery", "PESinkWaitCap", "PESinkSoftReset",
                "PESinkSoftResetTx", "PESinkSendSoftReset",
                "PESinkSendSoftResetTx", "PESinkSendSoftResetRx"} -> "waiting"
      [] s = "PESinkEvalCap" -> "offered"
      [] s \in {"PESinkSelectCap", "PESinkSelectCapTx", "PESinkSelectCapRx"} -> "asked"
      [] s = "PESinkTransitionSink" -> "moving"
      [] s \in {"PESinkStartup", "PESinkHardReset", "PESinkHardResetSent",
                "PESinkTransitionDefault"} -> "resetting"
      [] s = "PESinkSourceUnresponsive" -> "typec"
      [] OTHER -> "ready"

-----------------------------------------------------------------------------
(* Safety.                                                                 *)

\* Every variable has its type: thread states and event masks of the enums
\* and pdb_*.h masks, buffers of the pool, messages the code can tell apart.
TypeOK ==
    /\ evt \in [PE: SUBSET PEEvent, RX: SUBSET RXEvent,
                TX: SUBSET TXEvent, HR: SUBSET HREvent]
    /\ sched \in [ready: Seq({"RX", "TX", "HR"}), bus: Seq({"RX", "TX"})]
    /\ box \in [PE: Seq(Buf), TX: Seq(Buf)]
    /\ pool \in Seq(Buf)
    /\ mem \in [Buf -> Msg]
    /\ fault \in {"none", "nullAlloc", "nullMessage", "freedWrite"}
    /\ pe \in PEType /\ dpm \in DPMType
    /\ rx \in RXType /\ tx \in TXType /\ hr \in HRType
    /\ phy \in PhyType /\ status \in SUBSET Interrupt
    /\ src \in SrcType

\* Every buffer has one owner: the free list, a mailbox, a thread or the DPM.
\* No buffer leaks and none is freed twice, whatever resets and errors cut a
\* handler short.  (After EvalCap pe.message is no longer a live reference.)
Owners(b) ==
    Cardinality({i \in 1..Len(pool) : pool[i] = b})
    + Cardinality({i \in 1..Len(box.PE) : box.PE[i] = b})
    + Cardinality({r \in {1} : pe.request = b})
    + Cardinality({r \in {1} : pe.sending = b})
    + Cardinality({r \in {1} : dpm.caps = b})
    + Cardinality({r \in {1} : pe.message = b /\ pe.state = "PESinkEvalCap"})
    + Cardinality({r \in {1} : rx.message = b /\ rx.state # "PRLRxWaitPHY"})
BuffersConserved == \A b \in Buf : Owners(b) = 1

\* In PE_SNK_Ready there is an explicit contract, no message is left over, and
\* what a NEW_POWER, a PPS_REQUEST or a Wait will use again is there: the last
\* Request and the capabilities the DPM remembers.
ReadyHoldsContract ==
    pe.state = "PESinkReady" =>
        pe.contract /\ pe.message = NoBuf /\ pe.request # NoBuf /\ dpm.caps # NoBuf

\* ... and nobody has freed these two and used their buffers again.
ReadyKeepsRequest ==
    pe.state = "PESinkReady" =>
        mem[pe.request].type = "Request" /\ mem[dpm.caps].type = "SourceCap"

\* What the DPM decides about the capabilities it holds when the button has
\* selected s: a PDO, its voltage, and whether it is enough.
Decision(s) == Evaluation(Scfg, OutputEnabled, OfferIn(mem[dpm.caps]), s)

\* From the moment it asks until it gives the contract up, the sink holds on to
\* one decision about one offer: the Request it sends, and sends again, names
\* the PDO decided on, which the capabilities held contain, and the voltage and
\* the match with which PS_RDY and the standby test act are those of that PDO.
\* What it takes that voltage from, two buffers and dpm_data, is written at
\* different times, while messages, timers and NEW_POWER come between.
DecisionHeld ==
    PhaseOf(pe.state) \in {"asked", "moving", "ready"} =>
        /\ mem[pe.request].obj \in 1..Len(OfferIn(mem[dpm.caps]))
        /\ \E s \in 0..3 : /\ mem[pe.request].obj = Decision(s).pos
                           /\ dpm.requested = Decision(s).mv
                           /\ dpm.match = Decision(s).match

\* The output is on only under an explicit contract, or when the partner does
\* not speak PD: a hard reset always turns it off before anything else.
OutputUnderContract ==
    dpm.output => pe.contract \/ pe.state = "PESinkSourceUnresponsive"

\* Neither MSG_RX nor MSG_TX outlives the message it announces, although every
\* wait clears it: who fetches after the flag gets a message.  The Policy
\* Engine would take an empty mailbox for an error; protocol_tx.c:87 does not
\* look at the result of the fetch and would go on with the pointer it had.
FlagMeansMail == /\ "MSG_RX" \in evt.PE => box.PE # <<>>
                 /\ "MSG_TX" \in evt.TX => box.TX # <<>>

PEInTxWait == pe.state \in DOMAIN WaitMask /\ WaitMask[pe.state] = TxOutcome

\* No message stays in the TX mailbox once the Policy Engine has gone on, and
\* has freed it.
TxMailLive == \A i \in 1..Len(box.TX) :
    PEInTxWait /\ box.TX[i] \in {pe.request, pe.sending}

\* The Policy Engine and the Hard Reset thread never wait for one another.
NoMutualWait == ~(/\ pe.state = "PESinkHardResetSent" /\ "HARD_SENT" \notin evt.PE
                  /\ hr.state = "PRLHRWaitPE" /\ "DONE" \notin evt.HR)

\* protocol_rx.c: chPoolAlloc is "guaranteed to not fail because we have a big
\* enough pool and are careful".
PoolSuffices == fault # "nullAlloc"

\* No handler uses a null or a freed buffer.
NoFault == fault = "none"

\* The stored MessageID differs from that of the message the source sends
\* next: CheckMessageID drops retransmissions and never a fresh message.
FreshAccepted ==
    /\ SinkQuiet /\ src.out # <<>> /\ ~src.again /\ ~src.off
    /\ Head(src.out) # "SoftReset"
    => rx.messageId # src.id

\* The same as long as the sink has sent no hard reset: across the soft resets
\* of either partner, transmission errors and timeouts.
IdsInStep == pe.resets = 0 => FreshAccepted

\* When both partners are at rest in their ready states, the contract the sink
\* relies on is the one the source has accepted.
Agreement ==
    /\ pe.state = "PESinkReady" /\ SinkQuiet /\ evt.PE = {}
    /\ src.out = <<>> /\ src.awaits = "none"
    => mem[pe.request].obj = src.pos

\* What the FUSB302B has said of a transmission, on its way to the TX thread.
Verdict == (evt.TX \cup status \cup phy.irq) \cap {"I_TXSENT", "I_RETRYFAIL"}

\* No verdict on an earlier message is under way when the next one is sent: the
\* wait for the outcome would take it for the verdict on the new one.
OwnVerdict == tx.state = "PRLTxSend" => Verdict = {}

-----------------------------------------------------------------------------
(* Action properties.                                                      *)

\* VBUS changes its voltage only while the output is off: the load never sees
\* a transition, neither of a new contract nor of a hard reset.
NoChangeUnderOutput == [][src.vbus' # src.vbus => ~dpm.output]_vars

\* The source takes a message of the sink for a retransmission only if it is
\* one: every new message has a new MessageID, whoever resets the counter the
\* RX, TX and Hard Reset threads share.
SourceHears ==
    [][PhySent /\ pe.resets = 0 =>
          phy.air.type = "SoftReset" \/ phy.air.id # src.seen]_vars

-----------------------------------------------------------------------------
(* The abstract specification.                                             *)
Supply == [requested |-> dpm.requested, present |-> dpm.present,
           match |-> dpm.match, output |-> dpm.output]

Sink == INSTANCE SinkContract
        WITH phase <- PhaseOf(pe.state), contract <- pe.contract, reduced <- pe.minPower,
             supply <- Supply, enabled <- OutputEnabled

\* The handlers of the Policy Engine and the DPM callbacks they make, whatever
\* the threads, timers and messages do, negotiate and end contracts and switch
\* the output only in the ways SinkContract allows.
ImplementsContract == Sink!Spec

-----------------------------------------------------------------------------
(* Liveness.                                                               *)

\* Whatever new voltages, renewals of a PPS contract and failed transmissions
\* interrupt it, the Policy Engine gets back to PE_SNK_Ready, unless it gives
\* the contract up and sends a hard reset.
KeepsContract == []<>(pe.state = "PESinkReady" \/ pe.resets > 0)

\* A hard reset that the Hard Reset thread begins is completed: its handshake
\* with the Policy Engine, RESET or HARD_SENT one way and DONE the other, ends.
HardResetCompletes ==
    hr.state # "PRLHRResetLayer" ~> hr.state = "PRLHRResetLayer"

\* A transmission the Policy Engine waits for has an outcome.
TxAnswered == PEInTxWait ~> ~PEInTxWait
=============================================================================
