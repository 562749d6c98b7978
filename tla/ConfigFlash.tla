----------------------------- MODULE ConfigFlash -----------------------------
(***************************************************************************)
(* The configuration page in flash (src/config.c): a page of objects, each *)
(* written once, half-word by half-word, until the page is full.           *)
(*                                                                         *)
(* An erased half-word reads 0xFFFF; programming takes effect on an erased *)
(* half-word, or when it writes 0.  An operation runs under chSysLock: no  *)
(* other thread sees its middle, but a loss of power may come between any  *)
(* two of its accesses to the flash.                                       *)
(***************************************************************************)
EXTENDS Integers, FiniteSets

CONSTANT ArrayLen       \* PDBS_CONFIG_ARRAY_LEN

ASSUME ArrayAssumption == ArrayLen \in Nat \ {0}

VARIABLES
    flash,          \* pdbs_config_array, of struct pdbs_config
    locked,         \* FLASH_CR_LOCK
    config_cur,     \* the cached location, or NULL
    tmpcfg,         \* the shell's buffer for unwritten configuration
    op              \* where pdbs_config_flash_update or _erase is

flashVars == <<flash, locked, config_cur, tmpcfg, op>>

-----------------------------------------------------------------------------
(* struct pdbs_config.                                                     *)
Erased == 65535         \* 0xFFFF, the largest half-word
Halfword == 0..Erased

EMPTY == Erased
INVALID == 0
VALID == 48879          \* 0xBEEF

\* The union of i, p and r is i.
Field == {"flags", "v", "i", "vmin", "vmax"}
ConfigData == [Field -> Halfword]
Object == [status: Halfword, data: ConfigData]

\* The order in which pdbs_config_flash_update writes them.
Order == <<"flags", "v", "i", "vmin", "vmax">>

Blank == [status |-> EMPTY, data |-> [f \in Field |-> Erased]]

NULL == 0
Index == 1..ArrayLen
WithStatus(s) == {k \in Index : flash[k].status = s}
First(S) == CHOOSE k \in S : \A j \in S : k <= j

-----------------------------------------------------------------------------
(* Reading.                                                                *)

\* The lookup, whatever is cached.
Lookup == IF flash[1].status = EMPTY \/ WithStatus(VALID) = {} THEN NULL
          ELSE First(WithStatus(VALID))

pdbs_config_flash_read == IF config_cur # NULL THEN config_cur ELSE Lookup

-----------------------------------------------------------------------------
(* Writing.                                                                *)
Programmed(old, x) == IF old = Erased \/ x = 0 THEN x ELSE old

flash_write_status(k, s) ==
    flash' = IF locked THEN flash
             ELSE [flash EXCEPT ![k].status = Programmed(@, s)]
flash_write_field(k, f, x) ==
    flash' = IF locked THEN flash
             ELSE [flash EXCEPT ![k].data[f] = Programmed(@, x)]

flash_erase == flash' = IF locked THEN flash ELSE [k \in Index |-> Blank]

Idle == [at |-> "idle", slot |-> NULL, n |-> 0]
At(pc) == op.at = pc
Goto(pc) == op' = [op EXCEPT !.at = pc]

-----------------------------------------------------------------------------
(* pdbs_config_flash_update, with tmpcfg for cfg.                          *)

UpdateBegin ==
    /\ At("idle")
    /\ locked' = FALSE
    /\ config_cur' = pdbs_config_flash_read
    /\ Goto(IF pdbs_config_flash_read # NULL THEN "invalidate" ELSE "place")
    /\ UNCHANGED <<flash, tmpcfg>>

\* mutant: the old entry is to be free again, which programming cannot do
UpdateInvalidateFrees ==
    /\ At("invalidate")
    /\ flash_write_status(config_cur, EMPTY)
    /\ Goto("place")
    /\ UNCHANGED <<locked, config_cur, tmpcfg>>

UpdateInvalidate ==
    /\ At("invalidate")
    /\ flash_write_status(config_cur, INVALID)
    /\ Goto("place")
    /\ UNCHANGED <<locked, config_cur, tmpcfg>>

\* mutant: a full page is not erased
UpdatePlaceWraps ==
    /\ At("place")
    /\ op' = [at |-> "program", n |-> 0,
              slot |-> IF WithStatus(EMPTY) # {} THEN First(WithStatus(EMPTY)) ELSE 1]
    /\ UNCHANGED <<flash, locked, config_cur, tmpcfg>>

\* The first empty entry, or the first one of an erased page.
UpdatePlace ==
    /\ At("place")
    /\ IF WithStatus(EMPTY) # {}
       THEN /\ op' = [at |-> "program", slot |-> First(WithStatus(EMPTY)), n |-> 0]
            /\ UNCHANGED flash
       ELSE /\ op' = [at |-> "program", slot |-> 1, n |-> 0]
            /\ flash_erase
    /\ UNCHANGED <<locked, config_cur, tmpcfg>>

\* mutant: the status is written when the fields are there
UpdateProgramStatusLast ==
    /\ At("program") /\ op.n <= 5
    /\ IF op.n = 5 THEN flash_write_status(op.slot, tmpcfg.status)
       ELSE flash_write_field(op.slot, Order[op.n + 1], tmpcfg.data[Order[op.n + 1]])
    /\ op' = [op EXCEPT !.n = @ + 1]
    /\ UNCHANGED <<locked, config_cur, tmpcfg>>

\* The status first, then the fields in their order.
UpdateProgram ==
    /\ At("program") /\ op.n <= 5
    /\ IF op.n = 0 THEN flash_write_status(op.slot, tmpcfg.status)
       ELSE flash_write_field(op.slot, Order[op.n], tmpcfg.data[Order[op.n]])
    /\ op' = [op EXCEPT !.n = @ + 1]
    /\ UNCHANGED <<locked, config_cur, tmpcfg>>

UpdateEnd ==
    /\ At("program") /\ op.n = 6
    /\ locked' = TRUE
    /\ config_cur' = op.slot
    /\ op' = Idle
    /\ UNCHANGED <<flash, tmpcfg>>

-----------------------------------------------------------------------------
(* pdbs_config_flash_erase.                                                *)

EraseBegin ==
    /\ At("idle")
    /\ locked' = FALSE
    /\ Goto("erase")
    /\ UNCHANGED <<flash, config_cur, tmpcfg>>

EraseDo ==
    /\ At("erase")
    /\ flash_erase
    /\ Goto("erased")
    /\ UNCHANGED <<locked, config_cur, tmpcfg>>

\* mutant: the location of an erased configuration stays cached
EraseEndKeeps ==
    /\ At("erased")
    /\ locked' = TRUE
    /\ op' = Idle
    /\ UNCHANGED <<flash, tmpcfg, config_cur>>

EraseEnd ==
    /\ At("erased")
    /\ locked' = TRUE
    /\ config_cur' = NULL
    /\ op' = Idle
    /\ UNCHANGED <<flash, tmpcfg>>
=============================================================================
