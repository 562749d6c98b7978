------------------------------ MODULE HardReset ------------------------------
(***************************************************************************)
(* The hard reset thread (lib/src/hard_reset.c).                           *)
(***************************************************************************)
EXTENDS PDState

HRType == [state: HRState, requested: BOOLEAN]

HRInit == hr = [state |-> "PRLHRResetLayer", requested |-> FALSE]

HRAt(s) == Runs("HR") /\ hr.state = s

hrUnchanged == UNCHANGED <<box, pool, mem, fault, pe, dpm, status, partnerVars>>

HRGoto(s) == hr' = [hr EXCEPT !.state = s] /\ Enter("HR", s)

\* hardrst_reset_layer up to its first yield.  The stored MessageID becomes 0
\* here, not "none".
HrResetLayer ==
    /\ HRAt("PRLHRResetLayer")
    /\ hr' = [state |-> "PRLHRResetYielded", requested |-> "RESET" \in evt.HR]
    /\ rx' = [rx EXCEPT !.messageId = 0]
    /\ tx' = [tx EXCEPT !.counter = 0]
    /\ evt' = [evt EXCEPT !.HR = @ \ WaitMask["PRLHRResetLayer"],
                          !.RX = @ \cup {"RESET"}]
    /\ Yield("HR", "RX", {"RESET"})
    /\ UNCHANGED phy
    /\ hrUnchanged

\* ... and from there to its second one.
HrResetYielded ==
    /\ HRAt("PRLHRResetYielded")
    /\ hr' = [hr EXCEPT !.state = IF hr.requested THEN "PRLHRRequestHardReset"
                                  ELSE "PRLHRIndicateHardReset"]
    /\ SignalAndYield("HR", "TX", {"RESET"})
    /\ UNCHANGED <<rx, tx, phy>>
    /\ hrUnchanged

\* Tell the Policy Engine and wait for it.
HrTellPE(s, flag) ==
    /\ HRAt(s)
    /\ evt' = [evt EXCEPT !.PE = @ \cup {flag}]
    /\ HRGoto("PRLHRWaitPE")
    /\ UNCHANGED <<rx, tx, phy>>
    /\ hrUnchanged

HrIndicateHardReset == HrTellPE("PRLHRIndicateHardReset", "RESET")

\* fusb_send_hardrst
HrRequestHardReset ==
    /\ HRAt("PRLHRRequestHardReset")
    /\ phy' = [phy EXCEPT !.hard = TRUE]
    /\ UNCHANGED <<evt, rx, tx>>
    /\ HRGoto("PRLHRWaitPHY")
    /\ hrUnchanged

\* "Move on no matter what made us stop waiting."
HrWaitPHY ==
    /\ HRAt("PRLHRWaitPHY")
    /\ evt' = [evt EXCEPT !.HR = @ \ {"I_HARDSENT"}]
    /\ HRGoto("PRLHRHardResetRequested")
    /\ UNCHANGED <<rx, tx, phy>>
    /\ hrUnchanged

\* tHardResetComplete elapses before I_HARDSENT.
HrTimeout ==
    /\ fault = "none" /\ ~PERunnable
    /\ hr.state = "PRLHRWaitPHY"
    /\ ~InReadyList("HR")
    /\ sched' = [sched EXCEPT !.ready = Append(@, "HR")]
    /\ UNCHANGED <<evt, hr, rx, tx, phy>>
    /\ hrUnchanged

HrHardResetRequested == HrTellPE("PRLHRHardResetRequested", "HARD_SENT")

\* hardrst_wait_pe and hardrst_complete, which does nothing.
HrWaitPE ==
    /\ HRAt("PRLHRWaitPE")
    /\ evt' = [evt EXCEPT !.HR = @ \ {"DONE"}]
    /\ HRGoto("PRLHRResetLayer")
    /\ UNCHANGED <<rx, tx, phy>>
    /\ hrUnchanged

HRNext == \/ HrResetLayer \/ HrResetYielded \/ HrIndicateHardReset
          \/ HrRequestHardReset \/ HrWaitPHY \/ HrTimeout
          \/ HrHardResetRequested \/ HrWaitPE
=============================================================================
