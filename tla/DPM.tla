--------------------------------- MODULE DPM ---------------------------------
(***************************************************************************)
(* The callbacks of the PD Buddy Sink device policy manager that act on    *)
(* dpm_data and the power output switch.  What they request and whether it *)
(* is enough is in Capability.                                             *)
(***************************************************************************)
EXTENDS PDState, Capability

CONSTANTS
    Scfg,           \* the PDBS configuration object found in flash
    OutputEnabled   \* dpm_data.output_enabled

ASSUME DPMAssumption ==
    /\ Scfg \in Configuration
    /\ OutputEnabled \in BOOLEAN
    /\ Offers \in Seq(Seq(PDO)) /\ Offers # <<>>
    /\ \A n \in 1..Len(Offers) : Len(Offers[n]) \in 1..7

-----------------------------------------------------------------------------
(* The callbacks, on dpm = [caps, requested, present, match, output].      *)
DPMType == [caps: Buf \cup {NoBuf}, requested: Nat, present: Nat,
            match: BOOLEAN, output: BOOLEAN]

DPMInit == dpm = [caps |-> NoBuf, requested |-> 0, present |-> 5000,
                  match |-> FALSE, output |-> FALSE]

\* dpm_output_set(state)
OutputSet(d, state) == [d EXCEPT !.present = d.requested,
                                 !.output = state /\ OutputEnabled]

\* Mutant: the output keeps its state.
transition_default_keeps == [dpm EXCEPT !.requested = 5000]

transition_default == OutputSet([dpm EXCEPT !.requested = 5000], FALSE)

\* Mutant: like the default transition.
transition_min_defaults == OutputSet([dpm EXCEPT !.requested = 5000], FALSE)

\* Mutant: the load stays connected after GotoMin.
transition_min_keeps == OutputSet(dpm, dpm.output)

transition_min == OutputSet(dpm, FALSE)

\* Mutant: the comparison is the wrong way round.
transition_standby_inverted ==
    IF dpm.requested = dpm.present THEN [dpm EXCEPT !.output = FALSE] ELSE dpm

transition_standby ==
    IF dpm.requested # dpm.present THEN [dpm EXCEPT !.output = FALSE] ELSE dpm

transition_requested == OutputSet(dpm, dpm.match)

transition_typec(d) == OutputSet(d, d.match)

evaluate_typec_current(tcc) ==
    [dpm EXCEPT !.requested = 5000, !.match = TypeCMatch(Scfg, tcc)]
=============================================================================
