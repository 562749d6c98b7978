-------------------------------- MODULE Shell --------------------------------
(***************************************************************************)
(* The configuration shell (src/shell.c) over the configuration in flash,  *)
(* with the Policy Engine reading it and losses of power at any point.     *)
(* The shell runs in the main thread, one command at a time.               *)
(***************************************************************************)
EXTENDS ConfigFlash

CONSTANTS
    Toggles,        \* the flag bits of the toggle_* commands
    Volts,          \* arguments of set_v and set_vrange, in millivolts
    Amps,           \* arguments of set_i, in milliamperes
    Watts,          \* arguments of set_p, in milliwatts
    Ohms            \* arguments of set_r, in milliohms

GIVEBACK == 1
VAR_BAT == 2
HV_PREFERRED == 4
Clearable == {GIVEBACK, VAR_BAT, HV_PREFERRED}

PD_MV_MAX == 21000
PD_MA_MAX == 5000
PD_MW_MAX == 100000
PD_MO_MIN == 500
PD_MO_MAX == 655350

\* What the commands accept.
ASSUME InputAssumption ==
    /\ Toggles \subseteq {GIVEBACK, HV_PREFERRED}
    /\ Volts \subseteq 0..PD_MV_MAX
    /\ Amps \subseteq 0..PD_MA_MAX
    /\ Watts \subseteq 0..PD_MW_MAX
    /\ Ohms \subseteq PD_MO_MIN..PD_MO_MAX

-----------------------------------------------------------------------------
(* Half-words as bits.                                                     *)
Bit(x, b) == (x \div b) % 2
ToggledByAdding(x, b) == x + b      \* mutant: set again, a bit carries over
Toggled(x, b) == IF Bit(x, b) = 1 THEN x - b ELSE x + b
Cleared(x, b) == x - b * Bit(x, b)

\* CURRENT_DEFN is a field of two bits: 0 for I, 1 for P, 2 for R.
Defined(x, d) == x - 8 * ((x \div 8) % 4) + 8 * d

-----------------------------------------------------------------------------
(* The commands, at the prompt.                                            *)
Prompt == At("idle")
Edited(d) == tmpcfg' = [tmpcfg EXCEPT !.data = d] /\ UNCHANGED <<flash, locked, config_cur, op>>

cmd_load ==
    /\ config_cur' = pdbs_config_flash_read
    /\ tmpcfg' = IF pdbs_config_flash_read = NULL THEN tmpcfg
                 ELSE flash[pdbs_config_flash_read]
    /\ UNCHANGED <<flash, locked>>

Load == Prompt /\ cmd_load /\ UNCHANGED op

\* cmd_get_cfg, and the device policy manager whenever it looks for the
\* configuration: the thread of the Policy Engine, which the shell preempts,
\* runs while the shell waits for a key.
ReadConfig ==
    /\ Prompt
    /\ config_cur' = pdbs_config_flash_read
    /\ UNCHANGED <<flash, locked, tmpcfg, op>>

cmd_write == UpdateBegin
cmd_erase == EraseBegin

cmd_clear_flags ==
    Prompt /\ Edited([tmpcfg.data EXCEPT !.flags =
                        Cleared(Cleared(Cleared(@, GIVEBACK), VAR_BAT), HV_PREFERRED)])
cmd_toggle(b) == Prompt /\ Edited([tmpcfg.data EXCEPT !.flags = Toggled(@, b)])
cmd_set_v(mv) == Prompt /\ Edited([tmpcfg.data EXCEPT !.v = mv])
cmd_set_vrange(lo, hi) ==
    Prompt /\ lo <= hi /\ Edited([tmpcfg.data EXCEPT !.vmin = lo, !.vmax = hi])
SetCurrent(d, x) ==
    Prompt /\ Edited([tmpcfg.data EXCEPT !.i = x, !.flags = Defined(@, d)])
cmd_set_i(ma) == SetCurrent(0, (ma + 9) \div 10)
cmd_set_p(mw) == SetCurrent(1, mw \div 10)
cmd_set_r(mo) == SetCurrent(2, mo \div 10)

Edit == \/ cmd_clear_flags
        \/ \E b \in Toggles : cmd_toggle(b)
        \/ \E mv \in Volts : cmd_set_v(mv)
        \/ \E lo, hi \in Volts : cmd_set_vrange(lo, hi)
        \/ \E ma \in Amps : cmd_set_i(ma)
        \/ \E mw \in Watts : cmd_set_p(mw)
        \/ \E mo \in Ohms : cmd_set_r(mo)

Update == UpdateInvalidate \/ UpdatePlace \/ UpdateProgram \/ UpdateEnd
Erase == EraseDo \/ EraseEnd

-----------------------------------------------------------------------------
(* Power.                                                                  *)
Zero == [status |-> VALID, data |-> [f \in Field |-> 0]]
Off == [Idle EXCEPT !.at = "off"]

\* RAM is lost and FLASH_CR reset.  A write or an erasure of flash is done
\* or not: what one cut short leaves is not defined by the part.
PowerLoss ==
    /\ op' = Off
    /\ locked' = TRUE
    /\ config_cur' = NULL
    /\ tmpcfg' = Zero
    /\ UNCHANGED flash

\* pdbs_shell loads the configuration before its first prompt.
Start == At("off") /\ cmd_load /\ op' = Idle

Init == /\ flash = [k \in Index |-> Blank]
        /\ locked = TRUE
        /\ config_cur = NULL
        /\ tmpcfg = Zero
        /\ op = Off

Next == \/ Start \/ Load \/ ReadConfig \/ Edit
        \/ cmd_write \/ Update
        \/ cmd_erase \/ Erase
        \/ PowerLoss

Spec == Init /\ [][Next]_flashVars

-----------------------------------------------------------------------------
(* Properties.                                                             *)

\* The variables have their types.
ShellTypeOK ==
    /\ flash \in [Index -> Object]
    /\ locked \in BOOLEAN
    /\ config_cur \in Index \cup {NULL}
    /\ tmpcfg \in Object
    /\ op \in [at: {"off", "idle", "invalidate", "place", "program", "erase", "erased"},
               slot: Index \cup {NULL}, n: 0..6]

\* At any moment, so after any loss of power, at most one object is valid:
\* which one the lookup of pdbs_config_flash_read finds first is no matter.
OneValid == \A j, k \in WithStatus(VALID) : j = k

\* An object whose status says empty is erased to its last half-word, as
\* config.h says ("ready to be written"): what is programmed there will be
\* what is read.
EmptyIsErased == \A k \in WithStatus(EMPTY) : flash[k] = Blank

\* The cached location is the one a full lookup would find, so that the
\* answers of pdbs_config_flash_read do not depend on what was called before;
\* and the shortcut for an empty first object misses nothing.
CacheCoherent ==
    Prompt => /\ config_cur # NULL => config_cur = Lookup
              /\ Lookup = NULL => WithStatus(VALID) = {}

\* Of the configuration c, the first n fields are written.
Begun(c, n) == [f \in Field |-> IF \E j \in 1..n : Order[j] = f THEN c[f] ELSE Erased]

\* What makes the properties above inductive: the page is filled from its first
\* object on; the buffer, and what the cache points to, are valid; and how far
\* an operation has got.
Filled == \A j, k \in Index :
             j < k /\ flash[k].status # EMPTY => flash[j].status # EMPTY

CacheValid == op.at \in {"idle", "invalidate", "erase"} /\ config_cur # NULL =>
                 flash[config_cur].status = VALID

Progress ==
    /\ At("off") => config_cur = NULL
    /\ op.at \in {"invalidate", "place", "program", "erase"} => ~locked
    /\ At("invalidate") => config_cur # NULL
    /\ op.at \in {"place", "erased"} => WithStatus(VALID) = {}
    /\ At("program") => op.slot # NULL
    /\ At("program") /\ op.n = 0 =>
         /\ WithStatus(VALID) = {}
         /\ flash[op.slot].status = EMPTY
         /\ \A j \in Index : j < op.slot => flash[j].status # EMPTY
    /\ At("program") /\ op.n # 0 =>
         /\ flash[op.slot].status = VALID
         /\ flash[op.slot].data = Begun(tmpcfg.data, op.n - 1)

PageInv == /\ ShellTypeOK
           /\ tmpcfg.status = VALID
           /\ OneValid /\ EmptyIsErased /\ Filled /\ CacheValid /\ Progress

\* config.h: the status says "which one is valid".  In what is found valid at
\* the prompt every voltage is one that a command accepts: none is a half-word
\* that was never written.
ValidIsComplete ==
    Prompt /\ Lookup # NULL =>
        \A f \in {"v", "vmin", "vmax"} : flash[Lookup].data[f] <= PD_MV_MAX

-----------------------------------------------------------------------------
(* Refinement.                                                             *)
NoConfig == [status |-> EMPTY]

Stored == IF WithStatus(VALID) = {} THEN NoConfig
          ELSE flash[First(WithStatus(VALID))].data

Doing == CASE At("off") -> "off"
           [] At("idle") -> "nothing"
           [] At("erase") \/ At("erased") -> "erase"
           [] OTHER -> "write"

Store == INSTANCE ConfigStore WITH
    Config <- ConfigData, NoConfig <- NoConfig, Begun <- Begun,
    stored <- Stored, buffer <- tmpcfg.data, doing <- Doing

\* The shell implements the abstract store: a write that returns has stored
\* the buffer, load brings back what was written last, nothing is found after
\* an erasure, and a loss of power leaves the old configuration, none, or the
\* beginning of the new one -- whatever the page held before, full or not.
ImplementsStore == Store!Spec
=============================================================================
