------------------------------ MODULE Capability ------------------------------
(***************************************************************************)
(* The arithmetic of the device policy manager: what it requests of a      *)
(* source, what it says the sink can use, and what the shell prints of     *)
(* them, in the units and field widths of lib/include/pd.h.                *)
(*                                                                         *)
(* A PDO is [kind, lo, hi, ca]: a fixed supply has lo = hi, in millivolts; *)
(* ca is the current in centiamperes.  Currents of the preferred voltage   *)
(* are 0 in this firmware ("lets set it to zero for now"), so that their   *)
(* comparison with the offer is always true and is left out.               *)
(***************************************************************************)
EXTENDS Integers, Sequences, FiniteSets

PDO == [kind: {"fixed", "pps"}, lo: Nat, hi: Nat, ca: Nat]

\* A configuration object of flash, or (valid = FALSE) that there is none.  The
\* current or the power may be 0, the resistance is PD_MO_MIN at least.  An
\* object of which only the status has been written defines no current.
Configuration ==
    {c \in [valid: BOOLEAN, v: Nat, vmin: Nat, vmax: Nat,
            defn: {"I", "P", "R", "none"}, x: Nat,
            giveback: BOOLEAN, hvPreferred: BOOLEAN] : c.defn = "R" => c.x # 0}

Profiles == <<5000, 9000, 15000, 20000>>
DPM_MIN_CURRENT == 3
PD_CA_MAX == 500

SetMin(S) == CHOOSE i \in S : \A j \in S : i <= j
SetMax(S) == CHOOSE i \in S : \A j \in S : i >= j

\* The units of voltage fields: 20 mV (programmable request), 50 mV (fixed
\* supply), 100 mV (PPS APDO).  A conversion rounds down.
PD_MV2PRV(mv) == mv \div 20
PD_MV2PDV(mv) == mv \div 50
PD_MV2PAV(mv) == mv \div 100
PD_CA2PAI(ca) == (ca + 4) \div 5
Round(mv, unit) == unit * (mv \div unit)

\* What a field of n bits holds of x: a PD_..._SET macro masks the rest.
Field(x, n) == x % 2^n

-----------------------------------------------------------------------------
(* Requests.                                                               *)

\* Centiamperes the configuration asks for at mv millivolts (a uint16_t).
dpm_get_current(scfg, mv) ==
    (CASE scfg.defn = "I" -> scfg.x
       [] scfg.defn = "P" -> (scfg.x * 1000 + mv - 1) \div mv
       [] scfg.defn = "R" -> (mv * 10 + scfg.x - 1) \div scfg.x
       [] OTHER -> PD_CA_MAX + 1) % 65536

\* Fixed PDOs that lie in the configured voltage range and carry the current.
InRange(scfg, o) ==
    {i \in 1..Len(o) : /\ o[i].kind = "fixed"
                       /\ o[i].ca >= dpm_get_current(scfg, o[i].lo)
                       /\ PD_MV2PDV(o[i].lo) >= PD_MV2PDV(scfg.vmin)
                       /\ PD_MV2PDV(o[i].lo) <= PD_MV2PDV(scfg.vmax)}

dpm_get_range_fixed_pdo_index(scfg, o) ==
    IF scfg.hvPreferred THEN SetMax(InRange(scfg, o)) ELSE SetMin(InRange(scfg, o))

\* PDOs of the voltage the button selects, and PPS APDOs of the configured one.
Preferred(scfg, o, state) ==
    {i \in 1..Len(o) :
       \/ /\ o[i].kind = "fixed"
          /\ PD_MV2PDV(o[i].lo) = PD_MV2PDV(Profiles[state + 1])
       \/ /\ o[i].kind = "pps"
          /\ PD_MV2PAV(o[i].hi) >= PD_MV2PAV(scfg.v)
          /\ PD_MV2PAV(o[i].lo) <= PD_MV2PAV(scfg.v)}

\* What evaluate_capability requests from offer o when the button selected
\* state: the object position, the current, the voltage it remembers (which
\* is also the one it asks a PPS APDO for), and the match.  It reads the
\* output switch when it begins to search (enabled) and, if it has found
\* nothing, once more at the end (still).
EvaluationWhile(scfg, enabled, still, o, state) ==
    IF scfg.valid /\ enabled /\ Preferred(scfg, o, state) # {}
    THEN LET i == SetMin(Preferred(scfg, o, state)) IN
         [pos |-> i, match |-> TRUE, ca |-> 0,
          mv |-> Round(scfg.v, IF o[i].kind = "fixed" THEN 50 ELSE 20)]
    ELSE IF scfg.valid /\ enabled /\ InRange(scfg, o) # {}
    THEN LET i == dpm_get_range_fixed_pdo_index(scfg, o) IN
         [pos |-> i, match |-> TRUE, mv |-> o[i].lo,
          ca |-> Field(dpm_get_current(scfg, o[i].lo), 10)]
    ELSE [pos |-> 1, match |-> ~still, mv |-> 5000, ca |-> DPM_MIN_CURRENT]

\* Nobody touches the switch meanwhile.
Evaluation(scfg, enabled, o, state) ==
    EvaluationWhile(scfg, enabled, enabled, o, state)

\* Does the Type-C Current tcc satisfy the configuration?
TypeCMatch(scfg, tcc) ==
    /\ scfg.valid
    /\ scfg.v = 5000 \/ (scfg.vmin <= 5000 /\ 5000 <= scfg.vmax)
    /\ \/ tcc = "1.5A" /\ dpm_get_current(scfg, 5000) <= 150
       \/ tcc = "3.0A" /\ dpm_get_current(scfg, 5000) <= 300

-----------------------------------------------------------------------------
(* Sink_Capabilities.                                                      *)
SinkFixed(mv, ca) ==
    LET v == 50 * Field(PD_MV2PDV(mv), 10) IN
    [kind |-> "fixed", lo |-> v, hi |-> v, ca |-> Field(ca, 10)]
SinkPps(mv, ca) ==
    LET v == 100 * Field(PD_MV2PAV(mv), 8) IN
    [kind |-> "pps", lo |-> v, hi |-> v, ca |-> 5 * Field(PD_CA2PAI(ca), 7)]

\* Mutant: in the order they were added.
AsAdded(pdos) == pdos

\* "Make sure the last two are sorted by voltage."
LastTwoSorted(pdos) ==
    IF Len(pdos) = 3 /\ pdos[2].lo > pdos[3].lo
    THEN <<pdos[1], pdos[3], pdos[2]>> ELSE pdos

\* A PPS APDO follows if the header of pe._message says revision 3.0.  The
\* Ready state has freed that message and set the pointer to NULL: what is
\* read is the upper half of the first word of flash, 0x2000 (the initial
\* stack pointer is in RAM), whose revision field is 0.
NullHeaderRevision == 0
PD_SPECREV_3_0 == 2

get_sink_capability(scfg, o) ==
    LET other == ~scfg.valid \/ PD_MV2PDV(scfg.v) # PD_MV2PDV(5000)
        safe == IF other THEN <<SinkFixed(5000, DPM_MIN_CURRENT)>> ELSE <<>>
        ca == dpm_get_current(scfg, scfg.v)
        wanted == safe \o <<SinkFixed(scfg.v, ca)>>
        found == InRange(scfg, o) # {}
        i == dpm_get_range_fixed_pdo_index(scfg, o)
        pps == IF NullHeaderRevision >= PD_SPECREV_3_0
               THEN <<SinkPps(scfg.v, ca)>> ELSE <<>>
    IN IF ~scfg.valid THEN safe
       ELSE IF found /\ i = 1
       THEN [wanted EXCEPT ![1].ca = Field(ca, 10)] \o pps
       ELSE IF found /\ PD_MV2PDV(o[i].lo) # PD_MV2PDV(scfg.v)
       THEN LastTwoSorted(Append(wanted, SinkFixed(o[i].lo, o[i].ca))) \o pps
       ELSE wanted \o pps

-----------------------------------------------------------------------------
(* What the shell prints of a PDO: its index, and volts and amperes as     *)
(* whole units and hundredths.                                             *)
Decimal(x) == [units |-> x \div 100, hundredths |-> x % 100]

\* Mutant: twentieths of a volt printed as hundredths.
PdvTwentieths(pdv) == [units |-> pdv \div 20, hundredths |-> pdv % 20]
PdvDecimal(pdv) == [units |-> pdv \div 20, hundredths |-> 5 * (pdv % 20)]
PavDecimal(pav) == [units |-> pav \div 10, hundredths |-> 10 * (pav % 10)]
PaiDecimal(pai) == [units |-> pai \div 20, hundredths |-> 5 * (pai % 20)]

print_src_pdo(pdo, index) ==
    IF pdo.kind = "fixed"
    THEN [index |-> index, kind |-> "fixed", v |-> PdvDecimal(PD_MV2PDV(pdo.lo)),
          i |-> Decimal(pdo.ca)]
    ELSE [index |-> index, kind |-> "pps", vmin |-> PavDecimal(PD_MV2PAV(pdo.lo)),
          vmax |-> PavDecimal(PD_MV2PAV(pdo.hi)), i |-> PaiDecimal(PD_CA2PAI(pdo.ca))]
=============================================================================
