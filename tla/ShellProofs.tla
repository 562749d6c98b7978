---------------------------- MODULE ShellProofs ----------------------------
(***************************************************************************)
(* Proofs about Shell, for every size of the page and every input.         *)
(***************************************************************************)
EXTENDS Shell, WellFoundedInduction, TLAPS

USE ArrayAssumption DEF NULL

-----------------------------------------------------------------------------
(* The least element of a set of locations.                                *)
LEMMA FirstIn ==
    ASSUME NEW S \in SUBSET Index, S # {}
    PROVE  First(S) \in S /\ \A j \in S : First(S) <= j
<1>1. S \subseteq Nat
  BY DEF Index
<1>2. PICK k \in S : \A j \in S : ~(<<j, k>> \in OpToRel(<, Nat))
  BY <1>1, NatLessThanWellFounded, WFMin
<1>3. ASSUME NEW j \in S, j < k
      PROVE  FALSE
  <2>1. <<j, k>> \in OpToRel(<, Nat)
    BY <1>1, <1>3, Zenon DEF OpToRel
  <2>2. QED BY <2>1, <1>2
<1>4. \E m \in S : \A j \in S : m <= j
  <2>1. \A j \in S : ~(j < k)
    BY <1>3
  <2>2. QED BY <1>1, <2>1
<1>5. QED BY <1>4, Zenon DEF First

-----------------------------------------------------------------------------
(* The commands' arithmetic stays within a half-word.                      *)
LEMMA HalfwordRange == \A x : x \in Halfword <=> x \in Nat /\ x <= Erased
<1>1. Erased \in Nat
  BY DEF Erased
<1>2. QED BY <1>1 DEF Halfword

LEMMA BitRange ==
    ASSUME NEW x \in Nat, x <= Erased, NEW b \in {1, 2, 4}
    PROVE  /\ Bit(x, b) \in {0, 1}
           /\ Bit(x, b) = 1 => b <= x
           /\ Bit(x, b) = 0 => x + b <= Erased
<1>1. CASE b = 1
  BY <1>1, SMTT(20) DEF Bit, Erased
<1>2. CASE b = 2
  BY <1>2, SMTT(20) DEF Bit, Erased
<1>3. CASE b = 4
  BY <1>3, SMTT(20) DEF Bit, Erased
<1>4. QED BY <1>1, <1>2, <1>3

LEMMA ToggledHalfword ==
    ASSUME NEW x \in Halfword, NEW b \in {1, 2, 4}
    PROVE  Toggled(x, b) \in Halfword
<1>1. x \in Nat /\ x <= Erased /\ Erased \in Nat
  BY HalfwordRange DEF Erased
<1>2. CASE Bit(x, b) = 0
  BY <1>1, <1>2, BitRange, HalfwordRange DEF Toggled
<1>3. CASE Bit(x, b) = 1
  BY <1>1, <1>3, BitRange, HalfwordRange DEF Toggled
<1>4. QED BY <1>1, <1>2, <1>3, BitRange

LEMMA ClearedHalfword ==
    ASSUME NEW x \in Halfword, NEW b \in {1, 2, 4}
    PROVE  Cleared(x, b) \in Halfword
<1>1. x \in Nat /\ x <= Erased /\ Erased \in Nat
  BY HalfwordRange DEF Erased
<1>2. CASE Bit(x, b) = 0
  BY <1>1, <1>2 DEF Cleared
<1>3. CASE Bit(x, b) = 1
  BY <1>1, <1>3, BitRange, HalfwordRange DEF Cleared
<1>4. QED BY <1>1, <1>2, <1>3, BitRange

LEMMA DefinedHalfword ==
    ASSUME NEW x \in Halfword, NEW d \in 0..2
    PROVE  Defined(x, d) \in Halfword
<1>1. x \in Nat /\ x <= Erased
  BY HalfwordRange
<1>2. x - 8 * ((x \div 8) % 4) \in Nat /\ x - 8 * ((x \div 8) % 4) + 16 <= Erased
  BY <1>1, SMTT(20) DEF Erased
<1>3. QED BY <1>2, HalfwordRange DEF Defined, Erased

\* The three values of a status are different half-words.
LEMMA StatusValues ==
    /\ {EMPTY, INVALID, VALID} \subseteq Halfword
    /\ EMPTY # INVALID /\ EMPTY # VALID /\ INVALID # VALID
    /\ EMPTY = Erased /\ INVALID = 0
<1>1. Erased \in Nat /\ Erased > 48879
  BY DEF Erased
<1>2. QED BY <1>1, HalfwordRange DEF EMPTY, INVALID, VALID

LEMMA ProgrammedHalfword ==
    ASSUME NEW old \in Halfword, NEW x \in Halfword
    PROVE  /\ Programmed(old, x) \in Halfword
           /\ Programmed(Erased, x) = x
           /\ Programmed(old, 0) = 0
BY DEF Programmed

-----------------------------------------------------------------------------
(* The fields written so far.                                              *)
LEMMA OrderField == \A n \in 1..5 : Order[n] \in Field
BY DEF Order, Field

LEMMA BegunType ==
    ASSUME NEW c \in ConfigData, NEW n \in 0..5
    PROVE  Begun(c, n) \in ConfigData
<1>1. Erased \in Halfword
  BY StatusValues
<1>2. QED BY <1>1 DEF Begun, ConfigData

LEMMA BegunZero ==
    ASSUME NEW c \in ConfigData
    PROVE  Begun(c, 0) = Blank.data
BY DEF Begun, Blank

LEMMA BegunAll ==
    ASSUME NEW c \in ConfigData
    PROVE  Begun(c, 5) = c
<1>1. \A f \in Field : \E j \in 1..5 : Order[j] = f
  BY DEF Field, Order
<1>2. QED BY <1>1 DEF Begun, ConfigData

LEMMA BegunNext ==
    ASSUME NEW c \in ConfigData, NEW n \in 1..5
    PROVE  /\ Begun(c, n - 1)[Order[n]] = Erased
           /\ [Begun(c, n - 1) EXCEPT ![Order[n]] = c[Order[n]]] = Begun(c, n)
<1>1. \A j \in 1..5 : Order[j] = Order[n] => j = n
  BY DEF Order
<1>2. Order[n] \in Field
  BY OrderField
<1>3. Begun(c, n - 1)[Order[n]] = Erased
  BY <1>1, <1>2 DEF Begun
<1>4. ASSUME NEW f \in Field
      PROVE  [Begun(c, n - 1) EXCEPT ![Order[n]] = c[Order[n]]][f] = Begun(c, n)[f]
  <2>1. CASE f = Order[n]
    BY <1>2, <2>1 DEF Begun
  <2>2. CASE f # Order[n]
    <3>1. (\E j \in 1..(n - 1) : Order[j] = f) <=> (\E j \in 1..n : Order[j] = f)
      BY <2>2
    <3>2. QED BY <2>2, <3>1 DEF Begun
  <2>3. QED BY <2>1, <2>2
<1>5. QED BY <1>3, <1>4 DEF Begun

-----------------------------------------------------------------------------
(* A lookup that follows the cache finds what a full one finds.            *)
LEMMA LookupFacts ==
    ASSUME PageInv
    PROVE  /\ Lookup \in Index \cup {NULL}
           /\ Lookup # NULL => flash[Lookup].status = VALID
           /\ Lookup = NULL => WithStatus(VALID) = {}
           /\ \A k \in WithStatus(VALID) : First(WithStatus(VALID)) = k /\ Lookup = k
<1> DEFINE V == WithStatus(VALID)
<1>1. V \in SUBSET Index
  BY DEF WithStatus
<1>2. CASE V = {}
  BY <1>2 DEF Lookup
<1>3. CASE V # {}
  <2>1. First(V) \in V
    BY <1>1, <1>3, FirstIn
  <2>2. First(V) \in Index /\ flash[First(V)].status = VALID
    BY <2>1 DEF WithStatus
  <2>3. flash[1].status # EMPTY
    BY <2>2, StatusValues DEF PageInv, Filled, Index
  <2>4. Lookup = First(V)
    BY <1>3, <2>3 DEF Lookup
  <2>5. \A k \in V : First(V) = k
    BY <2>1 DEF PageInv, OneValid
  <2>6. First(V) # NULL
    BY <2>2 DEF Index
  <2>7. QED BY <2>2, <2>4, <2>5, <2>6, <1>3
<1>4. QED BY <1>2, <1>3

LEMMA ReadFacts ==
    ASSUME PageInv, op.at \in {"idle", "off"}, At("off") => config_cur = NULL
    PROVE  /\ pdbs_config_flash_read \in Index \cup {NULL}
           /\ pdbs_config_flash_read # NULL => flash[pdbs_config_flash_read].status = VALID
           /\ pdbs_config_flash_read = NULL => WithStatus(VALID) = {}
           /\ pdbs_config_flash_read = Lookup
<1>1. CASE config_cur = NULL
  BY <1>1, LookupFacts DEF pdbs_config_flash_read
<1>2. CASE config_cur # NULL
  <2>1. config_cur \in Index
    BY <1>2 DEF PageInv, ShellTypeOK
  <2>2. flash[config_cur].status = VALID
    BY <1>2 DEF PageInv, CacheValid, At
  <2>3. QED BY <1>2, <2>1, <2>2, LookupFacts DEF pdbs_config_flash_read, WithStatus
<1>3. QED BY <1>1, <1>2

-----------------------------------------------------------------------------
(* What an access changes in the page.                                     *)
LEMMA WriteStatus ==
    ASSUME flash \in [Index -> Object], ~locked,
           NEW k \in Index, NEW x \in Halfword, flash_write_status(k, x)
    PROVE  /\ flash' \in [Index -> Object]
           /\ \A j \in Index : flash'[j].data = flash[j].data
           /\ \A j \in Index \ {k} : flash'[j] = flash[j]
           /\ flash'[k].status = Programmed(flash[k].status, x)
<1>1. flash' = [flash EXCEPT ![k].status = Programmed(@, x)]
  BY DEF flash_write_status
<1>2. Programmed(flash[k].status, x) \in Halfword
  BY ProgrammedHalfword DEF Object
<1>3. QED BY <1>1, <1>2 DEF Object

LEMMA WriteField ==
    ASSUME flash \in [Index -> Object], ~locked,
           NEW k \in Index, NEW f \in Field, NEW x \in Halfword,
           flash_write_field(k, f, x)
    PROVE  /\ flash' \in [Index -> Object]
           /\ \A j \in Index : flash'[j].status = flash[j].status
           /\ \A j \in Index \ {k} : flash'[j] = flash[j]
           /\ flash'[k].data =
                [flash[k].data EXCEPT ![f] = Programmed(flash[k].data[f], x)]
<1>1. flash' = [flash EXCEPT ![k].data[f] = Programmed(@, x)]
  BY DEF flash_write_field
<1>2. flash[k].data \in ConfigData
  BY DEF Object
<1>3. Programmed(flash[k].data[f], x) \in Halfword
  BY <1>2, ProgrammedHalfword DEF ConfigData
<1>4. [flash[k].data EXCEPT ![f] = Programmed(flash[k].data[f], x)] \in ConfigData
  BY <1>2, <1>3 DEF ConfigData
<1>5. flash' = [flash EXCEPT ![k] =
                  [flash[k] EXCEPT !.data =
                     [flash[k].data EXCEPT ![f] = Programmed(flash[k].data[f], x)]]]
  BY <1>1
<1>6. QED BY <1>4, <1>5 DEF Object

LEMMA BlankType == Blank \in Object
BY StatusValues DEF Blank, Object, ConfigData

LEMMA ErasePage ==
    ASSUME ~locked, flash_erase
    PROVE  /\ flash' \in [Index -> Object]
           /\ \A j \in Index : flash'[j] = Blank /\ flash'[j].status = EMPTY
<1>1. flash' = [k \in Index |-> Blank]
  BY DEF flash_erase
<1>2. QED BY <1>1, BlankType DEF Blank

-----------------------------------------------------------------------------
(* Steps that leave the page alone.                                        *)

\* The parts of the invariant that speak of the page only.
LEMMA PageKept ==
    ASSUME OneValid, EmptyIsErased, Filled, UNCHANGED flash
    PROVE  OneValid' /\ EmptyIsErased' /\ Filled'
BY DEF OneValid, EmptyIsErased, Filled, WithStatus

LEMMA EditKeeps ==
    ASSUME PageInv, Prompt, NEW d \in ConfigData, Edited(d)
    PROVE  PageInv'
<1>1. ShellTypeOK' /\ tmpcfg'.status = VALID
  BY DEF Edited, PageInv, ShellTypeOK, Object
<1>2. CacheValid' /\ Progress'
  BY DEF Edited, Prompt, At, PageInv, CacheValid, Progress
<1>3. QED BY <1>1, <1>2, PageKept DEF Edited, PageInv

\* What set_i, set_p and set_r compute fits a half-word.
LEMMA ConvertedHalfword ==
    /\ \A ma \in Amps : (ma + 9) \div 10 \in Halfword
    /\ \A mw \in Watts : mw \div 10 \in Halfword
    /\ \A mo \in Ohms : mo \div 10 \in Halfword
    /\ \A mv \in Volts : mv \in Halfword
<1>1. /\ PD_MA_MAX \in Nat /\ PD_MW_MAX \in Nat /\ PD_MO_MAX \in Nat
      /\ PD_MO_MIN \in Nat /\ PD_MV_MAX \in Nat /\ Erased \in Nat
      /\ PD_MV_MAX <= Erased
  BY SMT DEF PD_MA_MAX, PD_MW_MAX, PD_MO_MAX, PD_MO_MIN, PD_MV_MAX, Erased
<1>2. ASSUME NEW x \in Nat
      PROVE  /\ x <= PD_MA_MAX => (x + 9) \div 10 \in Nat /\ (x + 9) \div 10 <= Erased
             /\ x <= PD_MW_MAX => x \div 10 \in Nat /\ x \div 10 <= Erased
             /\ x <= PD_MO_MAX => x \div 10 \in Nat /\ x \div 10 <= Erased
  BY SMTT(20) DEF PD_MA_MAX, PD_MW_MAX, PD_MO_MAX, Erased
<1>3. /\ \A ma \in Amps : ma \in Nat /\ ma <= PD_MA_MAX
      /\ \A mw \in Watts : mw \in Nat /\ mw <= PD_MW_MAX
      /\ \A mo \in Ohms : mo \in Nat /\ mo <= PD_MO_MAX
      /\ \A mv \in Volts : mv \in Nat /\ mv <= PD_MV_MAX
  BY <1>1, InputAssumption, SMT
<1>4. QED BY <1>1, <1>2, <1>3, HalfwordRange

LEMMA EditStep ==
    ASSUME PageInv, Edit
    PROVE  PageInv' /\ Prompt /\ UNCHANGED <<flash, locked, config_cur, op>>
<1> DEFINE D == tmpcfg.data
<1>0. D \in ConfigData /\ Prompt
  BY DEF PageInv, ShellTypeOK, Object, Edit, cmd_clear_flags, cmd_toggle, cmd_set_v,
         cmd_set_vrange, SetCurrent, cmd_set_i, cmd_set_p, cmd_set_r
<1>1. D.flags \in Halfword
  BY <1>0 DEF ConfigData, Field
<1>2. \A x \in Halfword, y \in Halfword :
        /\ [D EXCEPT !.flags = x] \in ConfigData
        /\ [D EXCEPT !.v = x] \in ConfigData
        /\ [D EXCEPT !.vmin = x, !.vmax = y] \in ConfigData
        /\ [D EXCEPT !.i = x, !.flags = y] \in ConfigData
  BY <1>0 DEF ConfigData, Field
<1>3. \E d \in ConfigData : Edited(d)
  <2>1. CASE cmd_clear_flags
    <3>1. Cleared(Cleared(Cleared(D.flags, GIVEBACK), VAR_BAT), HV_PREFERRED) \in Halfword
      BY <1>1, ClearedHalfword DEF GIVEBACK, VAR_BAT, HV_PREFERRED
    <3>2. QED BY <1>2, <2>1, <3>1 DEF cmd_clear_flags
  <2>2. CASE \E b \in Toggles : cmd_toggle(b)
    <3>1. PICK b \in Toggles : cmd_toggle(b)
      BY <2>2
    <3>2. Toggled(D.flags, b) \in Halfword
      BY <1>1, <3>1, ToggledHalfword, InputAssumption DEF GIVEBACK, HV_PREFERRED
    <3>3. QED BY <1>2, <3>1, <3>2 DEF cmd_toggle
  <2>3. Volts \subseteq Halfword
    BY ConvertedHalfword
  <2>4. CASE \E mv \in Volts : cmd_set_v(mv)
    BY <1>2, <2>3, <2>4 DEF cmd_set_v
  <2>5. CASE \E lo, hi \in Volts : cmd_set_vrange(lo, hi)
    BY <1>2, <2>3, <2>5 DEF cmd_set_vrange
  <2>6. ASSUME NEW d \in 0..2, NEW x \in Halfword, SetCurrent(d, x)
        PROVE  \E e \in ConfigData : Edited(e)
    <3>1. Defined(D.flags, d) \in Halfword
      BY <1>1, DefinedHalfword
    <3>2. QED BY <1>2, <2>6, <3>1 DEF SetCurrent
  <2>7. CASE \E ma \in Amps : cmd_set_i(ma)
    BY <2>6, <2>7, ConvertedHalfword DEF cmd_set_i
  <2>8. CASE \E mw \in Watts : cmd_set_p(mw)
    BY <2>6, <2>8, ConvertedHalfword DEF cmd_set_p
  <2>9. CASE \E mo \in Ohms : cmd_set_r(mo)
    BY <2>6, <2>9, ConvertedHalfword DEF cmd_set_r
  <2>10. QED BY <2>1, <2>2, <2>4, <2>5, <2>7, <2>8, <2>9 DEF Edit
<1>4. QED BY <1>0, <1>3, EditKeeps DEF Edited

LEMMA IdleFacts ==
    /\ Idle.at = "idle" /\ Idle.slot = NULL /\ Idle.n = 0
    /\ Off.at = "off" /\ Off.slot = NULL /\ Off.n = 0
    /\ {Idle, Off} \subseteq [at: {"off", "idle", "invalidate", "place", "program",
                                 "erase", "erased"}, slot: Index \cup {NULL}, n: 0..6]
BY DEF Idle, Off

LEMMA LoadStep ==
    ASSUME PageInv, cmd_load, op.at \in {"idle", "off"},
           op' = Idle \/ (op' = op /\ op.at = "idle")
    PROVE  PageInv'
<1>0. At("off") => config_cur = NULL
  BY DEF PageInv, Progress
<1>1. ShellTypeOK' /\ tmpcfg'.status = VALID
  BY <1>0, ReadFacts, IdleFacts DEF cmd_load, PageInv, ShellTypeOK
<1>2. CacheValid' /\ Progress'
  BY <1>0, ReadFacts, IdleFacts DEF cmd_load, CacheValid, Progress, At
<1>3. QED BY <1>1, <1>2, PageKept DEF cmd_load, PageInv

LEMMA ReadStep ==
    ASSUME PageInv, ReadConfig
    PROVE  PageInv'
<1>1. ShellTypeOK' /\ tmpcfg'.status = VALID
  BY ReadFacts DEF ReadConfig, Prompt, At, PageInv, ShellTypeOK
<1>2. CacheValid' /\ Progress'
  BY ReadFacts DEF ReadConfig, Prompt, At, CacheValid, Progress
<1>3. QED BY <1>1, <1>2, PageKept DEF ReadConfig, PageInv

LEMMA UpdateBeginStep ==
    ASSUME PageInv, UpdateBegin
    PROVE  PageInv'
<1>1. /\ pdbs_config_flash_read # NULL => op' = [op EXCEPT !.at = "invalidate"]
      /\ pdbs_config_flash_read = NULL => op' = [op EXCEPT !.at = "place"]
  BY DEF UpdateBegin, Goto
<1>2. ShellTypeOK' /\ tmpcfg'.status = VALID
  BY <1>1, ReadFacts DEF UpdateBegin, At, PageInv, ShellTypeOK
<1>3. WithStatus(VALID)' = WithStatus(VALID)
  BY DEF UpdateBegin, WithStatus
<1>4. CacheValid' /\ Progress'
  BY <1>1, <1>3, ReadFacts DEF UpdateBegin, At, CacheValid, Progress, PageInv, ShellTypeOK
<1>5. QED BY <1>2, <1>4, PageKept DEF UpdateBegin, PageInv

LEMMA UpdateInvalidateStep ==
    ASSUME PageInv, UpdateInvalidate
    PROVE  PageInv'
<1>1. /\ config_cur \in Index /\ ~locked
      /\ flash[config_cur].status = VALID
      /\ flash \in [Index -> Object]
  BY DEF UpdateInvalidate, At, PageInv, ShellTypeOK, Progress, CacheValid
<1>2. /\ flash' \in [Index -> Object]
      /\ \A j \in Index \ {config_cur} : flash'[j] = flash[j]
      /\ flash'[config_cur].status = INVALID
  BY <1>1, WriteStatus, StatusValues, ProgrammedHalfword DEF UpdateInvalidate
<1>3. op' = [op EXCEPT !.at = "place"] /\ UNCHANGED <<locked, config_cur, tmpcfg>>
  BY DEF UpdateInvalidate, Goto
<1>4. ShellTypeOK' /\ tmpcfg'.status = VALID
  BY <1>2, <1>3 DEF PageInv, ShellTypeOK
<1>5. WithStatus(VALID)' = {}
  BY <1>1, <1>2, StatusValues DEF WithStatus, PageInv, OneValid
<1>6. OneValid'
  BY <1>5 DEF OneValid
<1>7. EmptyIsErased' /\ Filled'
  BY <1>1, <1>2, StatusValues DEF PageInv, EmptyIsErased, Filled, WithStatus
<1>8. CacheValid' /\ Progress'
  BY <1>1, <1>3, <1>5 DEF CacheValid, Progress, At, PageInv, ShellTypeOK
<1>9. QED BY <1>4, <1>6, <1>7, <1>8 DEF PageInv

LEMMA UpdatePlaceStep ==
    ASSUME PageInv, UpdatePlace
    PROVE  PageInv'
<1> DEFINE E == WithStatus(EMPTY)
<1>1. /\ WithStatus(VALID) = {} /\ ~locked /\ UNCHANGED <<locked, config_cur, tmpcfg>>
      /\ flash \in [Index -> Object]
  BY DEF UpdatePlace, At, PageInv, ShellTypeOK, Progress
<1>2. CASE E # {}
  <2>1. E \in SUBSET Index
    BY DEF WithStatus
  <2>2. First(E) \in E /\ \A j \in E : First(E) <= j
    BY <1>2, <2>1, FirstIn
  <2>3. /\ First(E) \in Index /\ First(E) # NULL
        /\ flash[First(E)].status = EMPTY
        /\ \A j \in Index : j < First(E) => flash[j].status # EMPTY
    BY <2>2 DEF WithStatus, Index
  <2>4. op' = [at |-> "program", slot |-> First(E), n |-> 0] /\ UNCHANGED flash
    BY <1>2 DEF UpdatePlace
  <2>5. ShellTypeOK' /\ tmpcfg'.status = VALID
    BY <1>1, <2>3, <2>4 DEF PageInv, ShellTypeOK
  <2>6. WithStatus(VALID)' = {}
    BY <1>1, <2>4 DEF WithStatus
  <2>7. CacheValid' /\ Progress'
    BY <1>1, <2>3, <2>4, <2>6 DEF CacheValid, Progress, At
  <2>8. QED BY <2>4, <2>5, <2>7, PageKept DEF PageInv
<1>3. CASE E = {}
  <2>1. /\ op' = [at |-> "program", slot |-> 1, n |-> 0]
        /\ flash_erase
    BY <1>3 DEF UpdatePlace
  <2>2. /\ flash' \in [Index -> Object]
        /\ \A j \in Index : flash'[j] = Blank /\ flash'[j].status = EMPTY
    BY <1>1, <2>1, ErasePage
  <2>3. 1 \in Index /\ 1 # NULL /\ \A j \in Index : ~(j < 1)
    BY DEF Index
  <2>4. ShellTypeOK' /\ tmpcfg'.status = VALID
    BY <1>1, <2>1, <2>2, <2>3 DEF PageInv, ShellTypeOK
  <2>5. WithStatus(VALID)' = {}
    BY <2>2, StatusValues DEF WithStatus
  <2>6. OneValid' /\ EmptyIsErased' /\ Filled'
    BY <2>2, <2>5 DEF OneValid, EmptyIsErased, Filled, WithStatus
  <2>7. CacheValid' /\ Progress'
    BY <1>1, <2>1, <2>2, <2>3, <2>5 DEF CacheValid, Progress, At
  <2>8. QED BY <2>4, <2>6, <2>7 DEF PageInv
<1>4. QED BY <1>2, <1>3

\* The status: the object at op.slot becomes the valid one, all of it erased.
LEMMA ProgramStatusStep ==
    ASSUME PageInv, UpdateProgram, op.n = 0
    PROVE  PageInv'
<1> DEFINE k == op.slot
<1>1. /\ k \in Index /\ ~locked /\ At("program")
      /\ WithStatus(VALID) = {}
      /\ flash[k].status = EMPTY
      /\ \A j \in Index : j < k => flash[j].status # EMPTY
      /\ flash \in [Index -> Object]
      /\ tmpcfg.status = VALID /\ tmpcfg.data \in ConfigData
  BY DEF UpdateProgram, At, PageInv, ShellTypeOK, Progress, Object
<1>2. /\ flash' \in [Index -> Object]
      /\ \A j \in Index : flash'[j].data = flash[j].data
      /\ \A j \in Index \ {k} : flash'[j] = flash[j]
      /\ flash'[k].status = VALID
  BY <1>1, WriteStatus, StatusValues, ProgrammedHalfword DEF UpdateProgram
<1>3. op' = [op EXCEPT !.n = 1] /\ UNCHANGED <<locked, config_cur, tmpcfg>>
  BY DEF UpdateProgram
<1>4. ShellTypeOK' /\ tmpcfg'.status = VALID
  BY <1>2, <1>3 DEF PageInv, ShellTypeOK
<1>5. OneValid'
  BY <1>1, <1>2 DEF OneValid, WithStatus
<1>6. EmptyIsErased'
  BY <1>2, StatusValues DEF PageInv, EmptyIsErased, WithStatus
<1>7. Filled'
  <2>1. ASSUME NEW i \in Index, NEW j \in Index, i < j, flash'[j].status # EMPTY
        PROVE  flash'[i].status # EMPTY
    <3>1. CASE i = k
      BY <1>2, <3>1, StatusValues
    <3>2. CASE i # k /\ j = k
      BY <1>1, <1>2, <2>1, <3>2
    <3>3. CASE i # k /\ j # k
      BY <1>2, <2>1, <3>3 DEF PageInv, Filled
    <3>4. QED BY <3>1, <3>2, <3>3
  <2>2. QED BY <2>1 DEF Filled
<1>8. CacheValid'
  BY <1>1, <1>3 DEF CacheValid, At, PageInv, ShellTypeOK
<1>9. flash'[k].data = Begun(tmpcfg.data, 0)
  BY <1>1, <1>2, BegunZero DEF PageInv, EmptyIsErased, WithStatus
<1>10. Progress'
  BY <1>1, <1>2, <1>3, <1>9 DEF Progress, At, PageInv, ShellTypeOK
<1>11. QED BY <1>4, <1>5, <1>6, <1>7, <1>8, <1>10 DEF PageInv

\* A field: it was erased, so that it takes the value of the buffer.
LEMMA ProgramFieldStep ==
    ASSUME PageInv, UpdateProgram, op.n # 0
    PROVE  PageInv' /\ flash'[op.slot].data = Begun(tmpcfg.data, op.n)
<1> DEFINE k == op.slot
           n == op.n
           c == tmpcfg.data
<1>1. /\ k \in Index /\ n \in 1..5 /\ ~locked /\ At("program")
      /\ flash[k].status = VALID
      /\ flash[k].data = Begun(c, n - 1)
      /\ flash \in [Index -> Object]
      /\ c \in ConfigData
  BY DEF UpdateProgram, At, PageInv, ShellTypeOK, Progress, Object
<1>2. Order[n] \in Field /\ c[Order[n]] \in Halfword
  BY <1>1, OrderField DEF ConfigData
<1>3. flash_write_field(k, Order[n], c[Order[n]])
  BY DEF UpdateProgram
<1>4. /\ flash' \in [Index -> Object]
      /\ \A j \in Index : flash'[j].status = flash[j].status
      /\ \A j \in Index \ {k} : flash'[j] = flash[j]
      /\ flash'[k].data = [flash[k].data EXCEPT ![Order[n]] =
                              Programmed(flash[k].data[Order[n]], c[Order[n]])]
  BY <1>1, <1>2, <1>3, WriteField
<1>5. flash'[k].data = Begun(c, n)
  <2>1. Programmed(flash[k].data[Order[n]], c[Order[n]]) = c[Order[n]]
    BY <1>1, <1>2, BegunNext DEF Programmed
  <2>2. QED BY <1>1, <1>4, <2>1, BegunNext
<1>6. op' = [op EXCEPT !.n = n + 1] /\ UNCHANGED <<locked, config_cur, tmpcfg>>
  BY DEF UpdateProgram
<1>7. ShellTypeOK' /\ tmpcfg'.status = VALID
  BY <1>1, <1>4, <1>6 DEF PageInv, ShellTypeOK
<1>8. OneValid' /\ Filled'
  BY <1>4 DEF PageInv, OneValid, Filled, WithStatus
<1>9. EmptyIsErased'
  BY <1>1, <1>4, StatusValues DEF PageInv, EmptyIsErased, WithStatus
<1>10. CacheValid'
  BY <1>1, <1>6 DEF CacheValid, At, PageInv, ShellTypeOK
<1>11. op'.n # 0 /\ op'.n - 1 = n /\ op'.slot = k /\ op'.at = "program"
  BY <1>1, <1>6 DEF At, PageInv, ShellTypeOK
<1>12. Progress'
  BY <1>1, <1>4, <1>5, <1>6, <1>11 DEF Progress, At, PageInv, ShellTypeOK
<1>13. QED BY <1>5, <1>7, <1>8, <1>9, <1>10, <1>12 DEF PageInv

LEMMA UpdateEndStep ==
    ASSUME PageInv, UpdateEnd
    PROVE  PageInv'
<1>1. op.slot \in Index /\ flash[op.slot].status = VALID
  BY DEF UpdateEnd, At, PageInv, ShellTypeOK, Progress
<1>2. ShellTypeOK' /\ tmpcfg'.status = VALID
  BY <1>1, IdleFacts DEF UpdateEnd, PageInv, ShellTypeOK
<1>3. CacheValid' /\ Progress'
  BY <1>1, IdleFacts DEF UpdateEnd, CacheValid, Progress, At
<1>4. QED BY <1>2, <1>3, PageKept DEF UpdateEnd, PageInv

LEMMA EraseBeginStep ==
    ASSUME PageInv, EraseBegin
    PROVE  PageInv'
<1>1. op' = [op EXCEPT !.at = "erase"]
  BY DEF EraseBegin, Goto
<1>2. ShellTypeOK' /\ tmpcfg'.status = VALID
  BY <1>1 DEF EraseBegin, PageInv, ShellTypeOK
<1>3. CacheValid' /\ Progress'
  BY <1>1 DEF EraseBegin, CacheValid, Progress, At, PageInv, ShellTypeOK
<1>4. QED BY <1>2, <1>3, PageKept DEF EraseBegin, PageInv

LEMMA EraseDoStep ==
    ASSUME PageInv, EraseDo
    PROVE  PageInv'
<1>1. ~locked /\ flash_erase
  BY DEF EraseDo, At, PageInv, Progress
<1>2. /\ flash' \in [Index -> Object]
      /\ \A j \in Index : flash'[j] = Blank /\ flash'[j].status = EMPTY
  BY <1>1, ErasePage
<1>3. op' = [op EXCEPT !.at = "erased"] /\ UNCHANGED <<locked, config_cur, tmpcfg>>
  BY DEF EraseDo, Goto
<1>4. ShellTypeOK' /\ tmpcfg'.status = VALID
  BY <1>2, <1>3 DEF PageInv, ShellTypeOK
<1>5. WithStatus(VALID)' = {}
  BY <1>2, StatusValues DEF WithStatus
<1>6. OneValid' /\ EmptyIsErased' /\ Filled'
  BY <1>2, <1>5 DEF OneValid, EmptyIsErased, Filled, WithStatus
<1>7. CacheValid' /\ Progress'
  BY <1>3, <1>5 DEF CacheValid, Progress, At, PageInv, ShellTypeOK
<1>8. QED BY <1>4, <1>6, <1>7 DEF PageInv

LEMMA EraseEndStep ==
    ASSUME PageInv, EraseEnd
    PROVE  PageInv'
<1>1. ShellTypeOK' /\ tmpcfg'.status = VALID
  BY IdleFacts DEF EraseEnd, PageInv, ShellTypeOK
<1>2. CacheValid' /\ Progress'
  BY IdleFacts DEF EraseEnd, CacheValid, Progress, At
<1>3. QED BY <1>1, <1>2, PageKept DEF EraseEnd, PageInv

LEMMA ZeroType == Zero \in Object /\ Zero.status = VALID /\ Zero.data \in ConfigData
<1>1. 0 \in Halfword /\ VALID \in Halfword
  BY StatusValues
<1>2. QED BY <1>1 DEF Zero, Object, ConfigData

LEMMA PowerLossStep ==
    ASSUME PageInv, PowerLoss
    PROVE  PageInv'
<1>1. ShellTypeOK' /\ tmpcfg'.status = VALID
  BY IdleFacts, ZeroType DEF PowerLoss, PageInv, ShellTypeOK
<1>2. CacheValid' /\ Progress'
  BY IdleFacts DEF PowerLoss, CacheValid, Progress, At
<1>3. QED BY <1>1, <1>2, PageKept DEF PowerLoss, PageInv

-----------------------------------------------------------------------------
(* The invariant.                                                          *)
LEMMA InitPageInv == Init => PageInv
<1> SUFFICES ASSUME Init PROVE PageInv
  OBVIOUS
<1>1. /\ \A k \in Index : flash[k] = Blank /\ flash[k].status = EMPTY
      /\ flash \in [Index -> Object]
  BY BlankType DEF Init, Blank
<1>2. WithStatus(VALID) = {}
  BY <1>1, StatusValues DEF WithStatus
<1>3. ShellTypeOK /\ tmpcfg.status = VALID
  BY <1>1, IdleFacts, ZeroType DEF Init, ShellTypeOK
<1>4. OneValid /\ EmptyIsErased /\ Filled
  BY <1>1, <1>2 DEF OneValid, EmptyIsErased, Filled, WithStatus
<1>5. CacheValid /\ Progress
  BY <1>2, IdleFacts DEF Init, CacheValid, Progress, At
<1>6. QED BY <1>3, <1>4, <1>5 DEF PageInv

LEMMA StepPageInv == PageInv /\ [Next]_flashVars => PageInv'
<1> SUFFICES ASSUME PageInv, [Next]_flashVars PROVE PageInv'
  OBVIOUS
<1>1. CASE Start
  <2>1. config_cur = NULL /\ op.at = "off" /\ cmd_load /\ op' = Idle
    BY <1>1 DEF Start, At, PageInv, Progress
  <2>2. QED BY <2>1, LoadStep
<1>2. CASE Load
  <2>1. op.at = "idle" /\ cmd_load /\ UNCHANGED op
    BY <1>2 DEF Load, Prompt, At
  <2>2. QED BY <2>1, LoadStep
<1>3. CASE ReadConfig
  BY <1>3, ReadStep
<1>4. CASE Edit
  BY <1>4, EditStep
<1>5. CASE cmd_write
  BY <1>5, UpdateBeginStep DEF cmd_write
<1>6. CASE Update
  <2>1. CASE UpdateInvalidate
    BY <2>1, UpdateInvalidateStep
  <2>2. CASE UpdatePlace
    BY <2>2, UpdatePlaceStep
  <2>3. CASE UpdateProgram
    BY <2>3, ProgramStatusStep, ProgramFieldStep
  <2>4. CASE UpdateEnd
    BY <2>4, UpdateEndStep
  <2>5. QED BY <1>6, <2>1, <2>2, <2>3, <2>4 DEF Update
<1>7. CASE cmd_erase
  BY <1>7, EraseBeginStep DEF cmd_erase
<1>8. CASE Erase
  BY <1>8, EraseDoStep, EraseEndStep DEF Erase
<1>9. CASE PowerLoss
  BY <1>9, PowerLossStep
<1>10. CASE UNCHANGED flashVars
  BY <1>10, PageKept DEF flashVars, PageInv, ShellTypeOK, CacheValid, Progress, At, WithStatus
<1>11. QED BY <1>1, <1>2, <1>3, <1>4, <1>5, <1>6, <1>7, <1>8, <1>9, <1>10 DEF Next

\* The page, the cached location and the progress of an update agree at every
\* access to the flash (config.c), whenever the power fails.
THEOREM PageInvHolds == Spec => []PageInv
BY InitPageInv, StepPageInv, PTL DEF Spec

\* Every variable keeps its type: what the commands compute fits a half-word.
THEOREM ShellTypes == Spec => []ShellTypeOK
<1>1. PageInv => ShellTypeOK
  BY DEF PageInv
<1>2. QED BY <1>1, PageInvHolds, PTL

\* pdbs_config_flash_update and _erase never leave two valid objects behind,
\* wherever the power fails.
THEOREM OneIsValid == Spec => []OneValid
<1>1. PageInv => OneValid
  BY DEF PageInv
<1>2. QED BY <1>1, PageInvHolds, PTL

\* An object pdbs_config_flash_update finds empty is erased throughout, so that
\* each of its half-words can be programmed.
THEOREM EmptyErased == Spec => []EmptyIsErased
<1>1. PageInv => EmptyIsErased
  BY DEF PageInv
<1>2. QED BY <1>1, PageInvHolds, PTL

\* What pdbs_config_flash_read answers from config_cur is what a search of the
\* page would find.
THEOREM CacheIsCoherent == Spec => []CacheCoherent
<1>1. PageInv => CacheCoherent
  <2>1. ASSUME PageInv, Prompt
        PROVE  /\ config_cur # NULL => config_cur = Lookup
               /\ Lookup = NULL => WithStatus(VALID) = {}
    <3>1. op.at \in {"idle", "off"} /\ ~At("off")
      BY <2>1 DEF Prompt, At
    <3>2. QED BY <2>1, <3>1, ReadFacts, LookupFacts DEF pdbs_config_flash_read
  <2>2. QED BY <2>1 DEF CacheCoherent
<1>2. QED BY <1>1, PageInvHolds, PTL

-----------------------------------------------------------------------------
(* The refinement.                                                         *)
LEMMA NoConfigIsNone == NoConfig \notin ConfigData
<1>1. \A c \in ConfigData : DOMAIN c = Field
  BY DEF ConfigData
<1>2. DOMAIN NoConfig = {"status"} /\ "flags" \in Field
  BY DEF NoConfig, Field
<1>3. "flags" \notin {"status"}
  OBVIOUS
<1>4. QED BY <1>1, <1>2, <1>3

LEMMA StoredFacts ==
    ASSUME PageInv
    PROVE  /\ WithStatus(VALID) = {} => Stored = NoConfig
           /\ \A k \in Index : flash[k].status = VALID => Stored = flash[k].data
           /\ WithStatus(VALID) # {} => Stored \in ConfigData
<1>1. ASSUME NEW k \in Index, flash[k].status = VALID
      PROVE  Stored = flash[k].data /\ Stored \in ConfigData
  <2>1. k \in WithStatus(VALID)
    BY <1>1 DEF WithStatus
  <2>2. First(WithStatus(VALID)) = k
    BY <2>1, LookupFacts
  <2>3. flash[k].data \in ConfigData
    BY DEF PageInv, ShellTypeOK, Object
  <2>4. QED BY <2>1, <2>2, <2>3 DEF Stored
<1>2. QED BY <1>1 DEF Stored, WithStatus

LEMMA StoredKept ==
    ASSUME UNCHANGED flash
    PROVE  Stored' = Stored
BY DEF Stored, WithStatus

\* What cmd_load puts into the buffer is what the abstract Load does.
LEMMA LoadImplements ==
    ASSUME PageInv, cmd_load, op.at \in {"idle", "off"}
    PROVE  Store!Load
<1> DEFINE r == pdbs_config_flash_read
<1>1. /\ r \in Index \cup {NULL}
      /\ r # NULL => flash[r].status = VALID
      /\ r = NULL => WithStatus(VALID) = {}
  BY ReadFacts DEF PageInv, Progress
<1>2. CASE r = NULL
  <2>1. Stored = NoConfig /\ tmpcfg' = tmpcfg
    BY <1>1, <1>2, StoredFacts DEF cmd_load
  <2>2. QED BY <2>1 DEF Store!Load
<1>3. CASE r # NULL
  <2>1. r \in Index /\ flash[r].status = VALID /\ tmpcfg' = flash[r]
    BY <1>1, <1>3 DEF cmd_load
  <2>2. Stored = flash[r].data /\ Stored # NoConfig
    BY <2>1, StoredFacts, NoConfigIsNone DEF WithStatus
  <2>3. QED BY <2>1, <2>2 DEF Store!Load
<1>4. QED BY <1>2, <1>3

LEMMA InitImplements == Init => Store!Init
<1> SUFFICES ASSUME Init PROVE Store!Init
  OBVIOUS
<1>1. WithStatus(VALID) = {}
  BY StatusValues DEF Init, WithStatus, Blank
<1>2. Doing = "off"
  BY IdleFacts DEF Init, Doing, At
<1>3. QED BY <1>1, <1>2, ZeroType DEF Init, Store!Init, Stored

LEMMA StepImplements ==
    PageInv /\ PageInv' /\ [Next]_flashVars => [Store!Next]_(Store!storeVars)
<1> SUFFICES ASSUME PageInv, PageInv', [Next]_flashVars
             PROVE  Store!Next \/ UNCHANGED Store!storeVars
  OBVIOUS
<1>0. tmpcfg.data \in ConfigData /\ tmpcfg'.data \in ConfigData
  BY DEF PageInv, ShellTypeOK, Object
<1>1. CASE Start
  <2>1. cmd_load /\ op.at = "off" /\ op' = Idle /\ UNCHANGED flash
    BY <1>1 DEF Start, At, cmd_load
  <2>2. Doing = "off" /\ Doing' = "nothing"
    BY <2>1, IdleFacts DEF Doing, At
  <2>3. Store!Start
    BY <2>1, <2>2, LoadImplements, StoredKept DEF Store!Start
  <2>4. QED BY <2>3 DEF Store!Next
<1>2. CASE Load
  <2>1. cmd_load /\ op.at = "idle" /\ UNCHANGED <<op, flash>>
    BY <1>2 DEF Load, Prompt, At, cmd_load
  <2>2. Doing = "nothing" /\ Doing' = "nothing"
    BY <2>1 DEF Doing, At
  <2>3. Store!LoadAgain
    BY <2>1, <2>2, LoadImplements, StoredKept DEF Store!LoadAgain
  <2>4. QED BY <2>3 DEF Store!Next
<1>3. CASE ReadConfig
  <2>1. UNCHANGED <<flash, tmpcfg, op>>
    BY <1>3 DEF ReadConfig
  <2>2. QED BY <2>1, StoredKept DEF Store!storeVars, Doing, At
<1>4. CASE Edit
  <2>1. op.at = "idle" /\ UNCHANGED <<op, flash>>
    BY <1>4, EditStep DEF Prompt, At
  <2>2. Doing = "nothing" /\ Doing' = "nothing"
    BY <2>1 DEF Doing, At
  <2>3. Store!Edit
    BY <1>0, <2>1, <2>2, StoredKept DEF Store!Edit
  <2>4. QED BY <2>3 DEF Store!Next
<1>5. CASE cmd_write
  <2>1. op.at = "idle" /\ op'.at \in {"invalidate", "place"} /\ UNCHANGED <<flash, tmpcfg>>
    BY <1>5 DEF cmd_write, UpdateBegin, At, Goto, PageInv, ShellTypeOK
  <2>2. Doing = "nothing" /\ Doing' = "write"
    BY <2>1 DEF Doing, At
  <2>3. Store!BeginWrite
    BY <2>1, <2>2, StoredKept DEF Store!BeginWrite
  <2>4. QED BY <2>3 DEF Store!Next
<1>6. CASE Update
  <2>1. CASE UpdateInvalidate \/ UpdatePlace
    <3>1. /\ op.at \in {"invalidate", "place"} /\ op'.at \in {"place", "program"}
          /\ op'.at = "program" => op'.n = 0
          /\ UNCHANGED tmpcfg
      BY <2>1 DEF UpdateInvalidate, UpdatePlace, At, Goto, PageInv, ShellTypeOK
    <3>2. WithStatus(VALID)' = {}
      BY <3>1 DEF PageInv, Progress, At
    <3>3. Stored' = NoConfig
      BY <3>2 DEF Stored
    <3>4. Doing = "write" /\ Doing' = "write"
      BY <3>1 DEF Doing, At
    <3>5. Store!Writing
      BY <3>1, <3>3, <3>4 DEF Store!Writing
    <3>6. QED BY <3>5 DEF Store!Next
  <2>2. CASE UpdateProgram
    <3>1. /\ op.at = "program" /\ op'.at = "program" /\ op.n \in 0..5
          /\ op'.n = op.n + 1 /\ op'.slot = op.slot /\ op.slot \in Index
          /\ UNCHANGED tmpcfg
      BY <2>2 DEF UpdateProgram, At, PageInv, ShellTypeOK, Progress
    <3>2. /\ flash'[op.slot].status = VALID
          /\ flash'[op.slot].data = Begun(tmpcfg.data, op.n)
      BY <3>1 DEF PageInv, Progress, At
    <3>3. /\ op.slot \in WithStatus(VALID)'
          /\ \A k \in WithStatus(VALID)' : k = op.slot
      BY <3>1, <3>2 DEF PageInv, OneValid, WithStatus
    <3>4. WithStatus(VALID)' = {op.slot}
      BY <3>3
    <3>5. First({op.slot}) = op.slot
      <4>1. op.slot <= op.slot
        BY <3>1 DEF Index
      <4>2. QED BY <4>1 DEF First
    <3>6. Stored' = Begun(tmpcfg.data, op.n)
      BY <3>2, <3>4, <3>5 DEF Stored
    <3>7. Doing = "write" /\ Doing' = "write"
      BY <3>1 DEF Doing, At
    <3>8. Store!Writing
      BY <3>1, <3>6, <3>7 DEF Store!Writing
    <3>9. QED BY <3>8 DEF Store!Next
  <2>3. CASE UpdateEnd
    <3>1. /\ op.at = "program" /\ op.n = 6 /\ op' = Idle /\ op.slot \in Index
          /\ UNCHANGED <<flash, tmpcfg>>
      BY <2>3 DEF UpdateEnd, At, PageInv, ShellTypeOK, Progress
    <3>2. /\ flash[op.slot].status = VALID
          /\ flash[op.slot].data = Begun(tmpcfg.data, 5)
      BY <3>1 DEF PageInv, Progress, At
    <3>3. Stored = tmpcfg.data
      BY <1>0, <3>1, <3>2, StoredFacts, BegunAll
    <3>4. Doing = "write" /\ Doing' = "nothing"
      BY <3>1, IdleFacts DEF Doing, At
    <3>5. Store!EndWrite
      BY <3>1, <3>3, <3>4, StoredKept DEF Store!EndWrite
    <3>6. QED BY <3>5 DEF Store!Next
  <2>4. QED BY <1>6, <2>1, <2>2, <2>3 DEF Update
<1>7. CASE cmd_erase
  <2>1. op.at = "idle" /\ op'.at = "erase" /\ UNCHANGED <<flash, tmpcfg>>
    BY <1>7 DEF cmd_erase, EraseBegin, At, Goto, PageInv, ShellTypeOK
  <2>2. Doing = "nothing" /\ Doing' = "erase"
    BY <2>1 DEF Doing, At
  <2>3. Store!BeginErase
    BY <2>1, <2>2, StoredKept DEF Store!BeginErase
  <2>4. QED BY <2>3 DEF Store!Next
<1>8. CASE Erase
  <2>1. CASE EraseDo
    <3>1. op.at = "erase" /\ op'.at = "erased" /\ UNCHANGED tmpcfg
      BY <2>1 DEF EraseDo, At, Goto, PageInv, ShellTypeOK
    <3>2. WithStatus(VALID)' = {}
      BY <3>1 DEF PageInv, Progress, At
    <3>3. Stored' = NoConfig
      BY <3>2 DEF Stored
    <3>4. Doing = "erase" /\ Doing' = "erase"
      BY <3>1 DEF Doing, At
    <3>5. Store!Erasing
      BY <3>1, <3>3, <3>4 DEF Store!Erasing
    <3>6. QED BY <3>5 DEF Store!Next
  <2>2. CASE EraseEnd
    <3>1. op.at = "erased" /\ op' = Idle /\ UNCHANGED <<flash, tmpcfg>>
      BY <2>2 DEF EraseEnd, At
    <3>2. WithStatus(VALID) = {}
      BY <3>1 DEF PageInv, Progress, At
    <3>3. Stored = NoConfig
      BY <3>2 DEF Stored
    <3>4. Doing = "erase" /\ Doing' = "nothing"
      BY <3>1, IdleFacts DEF Doing, At
    <3>5. Store!EndErase
      BY <3>1, <3>3, <3>4, StoredKept DEF Store!EndErase
    <3>6. QED BY <3>5 DEF Store!Next
  <2>3. QED BY <1>8, <2>1, <2>2 DEF Erase
<1>9. CASE PowerLoss
  <2>1. op' = Off /\ UNCHANGED flash
    BY <1>9 DEF PowerLoss
  <2>2. Doing' = "off"
    BY <2>1, IdleFacts DEF Doing, At
  <2>3. Store!PowerLoss
    BY <1>0, <2>1, <2>2, StoredKept DEF Store!PowerLoss
  <2>4. QED BY <2>3 DEF Store!Next
<1>10. CASE UNCHANGED flashVars
  <2>1. UNCHANGED <<flash, tmpcfg, op>>
    BY <1>10 DEF flashVars
  <2>2. QED BY <2>1, StoredKept DEF Store!storeVars, Doing, At
<1>11. QED BY <1>1, <1>2, <1>3, <1>4, <1>5, <1>6, <1>7, <1>8, <1>9, <1>10 DEF Next

\* The shell and the flash page implement the abstract store, for pages of any
\* length: writes, loads, erasures and losses of power are the store's.
THEOREM Implementation == Spec => ImplementsStore
<1>1. Init /\ [][Next]_flashVars /\ []PageInv => Store!Init /\ [][Store!Next]_(Store!storeVars)
  BY InitImplements, StepImplements, PTL
<1>2. QED BY <1>1, PageInvHolds, PTL DEF Spec, ImplementsStore, Store!Spec
=============================================================================
