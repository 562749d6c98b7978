# A TLA+ model of the PD Buddy Sink's USB Power Delivery stack

The firmware negotiates a USB Power Delivery contract with a source and switches
its output on when the power it was configured for is there. Nearly all that is
hard in it is in the library under `lib/`: seven threads on one processor, which
talk through event flags, two mailboxes, a pool of four message buffers and
fields of `struct pdb_config` that several of them write, with a transceiver
(FUSB302B) that answers on its own and a partner that resets the link when it
likes. This directory holds a model of that stack as one system, the properties
it should have, TLC runs that check them on small instances, and a proof of its
inductive invariant for every instance.  It is proved to implement an abstract
power contract, `SinkContract`.

Three smaller models stand on it or beside it:

* the *device* as its user sees it: the power contract, what the device policy
  manager asks for, the LED, the button and the commands of the shell that
  concern PD (`Device`);
* the *configuration* in flash and the commands that write it, with losses of
  power, proved to implement an abstract store (`Shell`);
* the shell's *console*: the line, the terminal, the tokenizer (`Console`).

Paths below are relative to the repository; `policy_engine.c` and the other bare
names are under `lib/src/`.

## 1. Inventory

| Component | State | Operations | Interacts through |
|---|---|---|---|
| Policy Engine (`policy_engine.c`) | its state; `pe._message`, `_last_dpm_request`, `_explicit_contract`, `_min_power`, `_hard_reset_counter`, `_pps_index`, `_last_pps`, `_old_tcc_match`, PPS timer | 17 state handlers, one timer callback | fetches from `pe.mailbox`, posts to `tx_mailbox`, signals TX and Hard Reset, calls the DPM |
| Protocol RX (`protocol_rx.c`) | its state, `_rx_message`, `_rx_messageid` | 4 states | reads the transceiver, posts to `pe.mailbox`, signals PE and TX, resets the TX counter |
| Protocol TX (`protocol_tx.c`) | its state, `_tx_message`, `_tx_messageidcounter` | 9 states | fetches from `tx_mailbox`, writes the transceiver, signals PE and RX |
| Hard Reset (`hard_reset.c`) | its state | 7 states | signals RX, TX and PE; waits for DONE; resets both MessageIDs |
| INT_N (`int_n.c`) | the status it read | poll every millisecond | signals RX, TX, Hard Reset, PE |
| Message pool (`messages.c`) | free list of 4 buffers | alloc, free | all of the above and the DPM |
| DPM (`src/device_policy_manager.c`) | stored capabilities, requested and present voltage, match, output | 10 callbacks of the Policy Engine | frees the capabilities it replaces; reads the configuration; signals the LED |
| FUSB302B driver (`fusb302b.c`) | registers, FIFOs | read, send, reset, hard reset, status, Type-C Current | every operation holds the I2C bus |
| Main thread (`src/main.c`) | `cfg->state`, `_cnt` | `sink()`: first NEW_POWER, button; `setup()` | signals PE and LED; clears the LED's pin |
| Configuration (`src/config.c`) | flash page of 128 objects, `config_cur` | read, update, erase | read by the DPM, written by the shell |
| Shell (`src/shell.c`) | line buffer, `tmpcfg` | read a line, cut it into words; load, edit, write, erase, output, get_source_cap, identify | `config.c`; `output_enabled`; reads the DPM's capabilities; signals PE and LED |
| LED (`src/led.c`) | the event it shows, a pass counter, the pin | 7 modes | events of the DPM, the shell and itself |
| Display, USB, bootloader entry, boards | | | |

What each should guarantee: the Policy Engine, that it comes back to
PE_SNK_Ready with a contract the source shares, and never waits for what cannot
come; RX and TX, that a message is delivered once or reported as failed, and
that MessageIDs tell new messages from repeated ones; Hard Reset, that both
sides of the sink finish one; the pool, that every buffer has one owner and is
there when needed; the DPM, that the load sees no voltage it was not promised, and
that the sink describes itself as it is;
the LED, that it shows no state of the output but the present one; the main thread
and the shell, that what their user asks for is done although they preempt the
Policy Engine, in the middle of an evaluation too; the console, that the user sees the
line that will be read; the configuration, that what is found after a start is what was written last.

What makes this hard:

* **Interleaving.** `main` and its shell (NORMALPRIO) preempt the Policy Engine
  (`PDB_PRIO_PE`, NORMALPRIO - 1, `priorities.h:25`), which preempts the protocol layer, whose three
  threads are equals and hand over only where they block or call `chThdYield()`;
  INT_N is below them. Each I2C transfer blocks its caller, and others run.
* **Flags.** `chEvtWaitAny` clears every flag of its mask and returns them
  together; handlers then serve the first one they test. One bit stands for any
  number of events. A flag nobody waits for stays pending.
* **Shared fields.** `_tx_messageidcounter` is written by three threads,
  `_rx_messageid` by two, `hdr_template` is read by a third.
* **Buffers.** They change hands through mailboxes and references, and a freed
  buffer is overwritten by the pool's own link.
* **The user.** The button and the shell change what the Policy Engine reads
  while it is reading it, and the LED's pin has two writers.
* **The link.** Messages are repeated when their GoodCRC is lost, collide, and
  are cut short by resets of either side; every wait for the partner times out.

* **Power.** A sink is unplugged whenever its user likes; the configuration page is
  written half-word by half-word, and a half-word once only.

`PROJECT.json` lists the hazards one by one, each at its line.

## 2. The modules

| Module | Models | Correspondence |
|---|---|---|
| `PDState` | the variables all threads share, messages, flags and their masks; the ChibiOS services used: scheduler, `chEvtSignal`, `chThdYield`, mailboxes, pool | `evt` = pending flags; `sched` = ready list of the protocol layer and queue for the I2C bus; `box` = the two mailboxes; `pool`, `mem` = free list and contents |
| `Capability` | the arithmetic of `src/device_policy_manager.c` and of what `src/shell.c` prints, with the units and field widths of `pd.h` | operators with the functions' names on offers (sequences of PDOs) and a configuration; `Evaluation` is the choice of a PDO |
| `DPM` | the callbacks of `src/device_policy_manager.c` that act on `dpm_data` | operators with their names on the record `dpm` |
| `PolicyEngine` | `policy_engine.c` | `pe` = `cfg->pe` and the state. One action per handler, or per part of it between two waits (`PESinkSelectCapTx` is the wait for the outcome of the Request, `PESinkSelectCapRx` the one for the answer) |
| `ProtocolRX` | `protocol_rx.c` | `rx`; a state is split where it yields or reads a message |
| `ProtocolTX` | `protocol_tx.c` | `tx`; likewise, and for the loop that polls for SinkTxOK |
| `HardReset` | `hard_reset.c` | `hr`; likewise |
| `Port` | `int_n.c`, `sink()` of `main.c`, and what is outside: the transceiver (`phy`, `status`) and the source (`src`) | `IntN*` are the poll and its signals; `Phy*` the transceiver; `Src*` a source that follows the protocol |
| `PDStack` | all of them, connected: `Init`, `Next`, `Spec`, `FairSpec`, and every property | `pdb_init` |
| `SinkContract` | what the Policy Engine and the DPM promise the load: how a contract comes about and ends, and where the output may be switched | `PDStack` instantiates it as `Sink`: a phase for each group of states (`PhaseOf`), `_explicit_contract`, `_min_power`, the supply without the buffers |
| `MCPDStack` | constants of the TLC runs | |
| `PDStackProofs` | the theorems about `PDStack` | |
| `OwnershipProofs` | who owns which message buffer, and when the pool is empty: the theorems about `pool`, `mem` and the pointers | |
| `HandshakeProofs` | the theorems about the hard reset's handshake, the TX mailbox and the ready list | |
| `NumberingProofs` | the MessageIDs of what the sink sends | |
| `ContractProofs` | `PDStack` implements `SinkContract`; the decision about an offer that stands behind a contract, and what it means for the output | |
| `LED` | `src/led.c` | operators on the record of the thread: `Pass` is one turn of its loop, `Serve` its wait |
| `Device` | `SinkContract`, `Capability` and `LED` composed with `sink()` and `setup()` of `src/main.c` and the commands output, write, erase and get_source_cap | every step of the contract with the DPM's events to the LED; `dev.asks` = NEW_POWER pending; `dev.seen` = what an evaluation under way has read; `dev.state`, `dev.cnt` = `cfg->state`, `_cnt` |
| `MCDevice`, `DeviceProofs` | the TLC run and the theorems of `Device` | |
| `Console` | `shellGetLine`, `_strtok`, `pdbs_shell`, `cmdexec` and identify of `src/shell.c`, with `LED` | `line`, `p`, `tokp`, `cmd`, `args` = the variables of those names; a pointer is its offset in the line; `tty` is the terminal |
| `MCConsole`, `ConsoleProofs` | the TLC run and the theorems of `Console` | |
| `ConfigFlash` | `src/config.c` | `flash` = `pdbs_config_array`; `op` = how far an update or an erasure has got. One action per access to the flash |
| `Shell` | the commands of `src/shell.c` that touch the configuration, `ReadConfig` for the DPM, `PowerLoss`, `Start`; the properties | `tmpcfg`; actions with the names of the commands |
| `ConfigStore` | what both promise: a store that is loaded, edited, written and erased | `Shell` instantiates it with the page's valid object for what is stored |
| `MCShell` | the TLC runs of `Shell` | |
| `ShellProofs` | the theorems about `Shell` | |

How it is abstracted:

* *A step is a run without interruption.* The Policy Engine has the highest
  priority of the library, so that a handler runs from one wait to the next
  without a thread of the library seeing the middle. `main` does interrupt it: it
  signals flags, which wait for the end of the run, and changes what
  `pdbs_dpm_evaluate_capability` reads, which is below. A protocol-layer thread runs to its next
  wait, yield, transfer or state. `Runs(t)` says who has the processor:
  no thread of a higher priority can run and `t` heads the ready list, which is
  FIFO (`CH_CFG_TIME_QUANTUM` is 0).
* *Messages* have a type, a MessageID and one datum (which capabilities, which
  object position). The three Swap messages are one type; "Unknown" is any that
  falls through to the last `else`; "Chunked" is an extended message of several
  chunks.
* *A freed buffer* reads as `Junk`. `chPoolFree` links through the first word; in
  this layout the header is its upper half, that of an SRAM address or zero:
  a reserved type with MessageID 0. The RX thread can act on it, since it does
  not look at the result of `fusb_read_message`.
* *Undefined values.* TX reads the GoodCRC into an uninitialised local; if the
  FIFO is empty either outcome of the comparison may follow.
* *Faults.* Reading through NULL or into the free list leaves what C defines;
  the model records which it was in `fault` and stops.
* *Time.* A timed wait may end at any moment none of its flags is pending. The
  partner and the transceiver act when the processor is idle: threads see them
  only by transfers, during which the processor is idle. The button and the PPS
  timer may interrupt a protocol-layer thread.
* *Flash.* `pdbs_config_flash_update` and `_erase` run under `chSysLock`, so that no
  thread sees their middle, but the power may fail between any two of their
  accesses. Writing a half-word, or erasing the page, is done or not: what the
  part leaves of one that is cut short is not defined. Half-words keep their
  width, and programming one that is not erased has no effect unless it writes
  0. The union of current, power and resistance is one field.
* *The contract in `Device`* is the abstract one. That is sound for what the output
  and the requests do, since every step of `PDStack` is a step of it (section 6), and it
  lets the user, the LED and changing offers meet every step of a negotiation.
  `Device` narrows the abstract steps to what the DPM really asks for, and adds the
  one flag that matters, NEW_POWER.
* *Main in the middle of an evaluation.* `Device` has the evaluation in two steps,
  `ReadInputs` (lines 113 to 142: the configuration, the button, the switch) and
  `evaluate_capability` (the choice, with the second and third reading of
  `output_enabled` at lines 240 and 252), and any number of presses and commands
  between them. Within each half the order of main's step and a reading does not matter:
  main changes one input at a time, and a step that comes between two readings is the
  same as one before both or after both. Main itself is not interrupted by the Policy
  Engine between a change and its NEW_POWER, so that `cmd_output` and `cmd_write` are
  one step; it is where it blocks, on the output of get_source_cap and while the button
  is held. State 4 is tested once and 0 is stored afterwards, over a press that has come
  in between; the same is a step of `EvalCap` in `PDStack` (`ButtonEvaluated`), whose
  configuration and switch are constants. That the test reads a smaller state and the
  use a 4, an access outside of `pd_profiles`, would need two loads of `cfg->state`,
  which the compiler makes one. An evaluation goes on with the configuration object
  it found: an object that is replaced keeps its fields; that the page may be erased under it
  is left out.
* *The LED thread* has the highest priority and serves an event before its
  sender goes on; its timeouts come at any moment.
* *The console* has one letter and the blank; the buffer, on the stack, holds
  anything at first.
* *Currents* of the preferred voltage are 0 in this firmware and are left out;
  those of the voltage range are kept with their 16-bit arithmetic.

## 3. Bounds and constants

`PoolSize` is 4 and `IdMod` is 8, as in the code. The only other bounds of the
stack are the *budgets* in `MCPDStack`: how many times each kind of environment event happens
in a behaviour. `start`: an AMS of the source of a kind in `SrcStarts`; `loss`: a
GoodCRC of ours that is lost; `fail`: a transmission of ours that fails after
its retries; `hard`: a hard reset by the source; `press`: the button;
`timeout`: a timer of the Policy Engine that expires early; `temp`: overheating;
`query`: an application asking for Source_Capabilities; `pps`: an expiry of the
PPS timer; `refuse`: a Request answered with one of `SrcRefusals`. What the threads do is never bounded. The first negotiation and the
NEW_POWER that `sink()` signals happen in every behaviour, so that the
budgeted events interrupt every stage of at least two negotiations.

`InitBudgets` is a *set* of budgets; each behaviour has one of them. The events of a
budget happen in every order and at every point; events of different budgets do
not meet, which keeps a run within minutes where their product would
take days. `Contract` has three: {message, press, failed transmission}, {refusal,
timeout} and four timeouts, enough to use up all hard resets. `Messages`: {any
one message, query}, {any one message, overheating}. `Collisions`: {message, hard reset},
{lost GoodCRC, hard reset}, and four presses, of which the third stores state 4 and
the fourth may meet the evaluation that takes it back. `Live`: {press, failed transmission, PPS timer}.
Pairs are what the code's races need: each of the findings about the stack takes two
events at most. `Paced` says
whether the source leaves the sink some milliseconds between its messages.

The run of `Device` has three configurations and none, two offers of two and three PDOs
(one usable by the range, one by PPS alone), both modes, and the real lengths of
the blinks; presses, commands, renewals, refusals and resets are not bounded.
The configurations are chosen at the edges: a
voltage between two units of a field, one whose current is computed from a
power, a range below the preferred voltage, and what a loss of power leaves of an object
whose status alone was written (no current defined, 65535 mV).

The run of `Console` has a line of 6 bytes instead of 256 (room for five characters:
two words with a blank before, between and behind), one argument instead of 10
(two make "too many"), and 2 blinks of identify instead of 8; any number of keys and
lines. Its theorems are about every size.

The runs of `Shell` have a page of two objects instead of 128: enough for an old
and a new configuration side by side, for one that is found behind an
invalid one, and for a page that is full. Nothing else is bounded: any number of
commands and losses of power. Each command has one argument (0, the smallest
resistance, 9 V where a voltage matters), since the page tells values apart only
as erased or not; the theorems are about every argument.

In the runs of `PDStack`, `CHECK_DEADLOCK` is off: when the budgets are used up the system is idle and
waits, as a sink with a contract does. That nobody waits who should not is
stated by `NoMutualWait` and the liveness properties. The other runs check for
deadlock: their users can always do something.

## 4. The runs

| Run | Environment | Checks |
|---|---|---|
| `contract` | rev. 2.0, 5 V / 9 V, voltage range; a press, a Soft_Reset of the source, a failed transmission; or Reject or Wait and a timeout; or four early timeouts | `TypeOK`, `IdsInStep`, `Agreement`, `NoMutualWait`, `NoFault`, `TxMailLive`, `NoChangeUnderOutput`, `SourceHears`, `ImplementsContract` |
| `messages` | rev. 2.0, two different capabilities, no GiveBack; any one message of the source, a query, overheating | `ReadyHoldsContract`, `ReadyKeepsRequest` |
| `collisions` | rev. 3.0 with PPS and GiveBack, source not paced; a message (chunked, Not_Supported, GotoMin), a lost GoodCRC, a hard reset of the source; or four presses | `FlagMeansMail`, `BuffersConserved`, `OutputUnderContract`, `DecisionHeld`, `ImplementsContract` |
| `live` | rev. 3.0 with PPS; a press, a renewal, a failed transmission; fair | `OwnVerdict`, `KeepsContract`, `TxAnswered`, `HardResetCompletes` |
| `device` | any presses, or any commands of the shell; offers and configurations that change; Reject, Wait, GotoMin, resets, Type-C Current | `LedFollows`, `DarkWhenDone`, `OutputMeansPower`, `SinkCapsSound`, `ListingTrue` |
| `console` | any keys, any contents of the buffer | `ScreenShowsLine`, `ParseIsWords`, `IdentifyEnds` |
| `config` | any commands of the shell, losses of power; two objects | `ShellTypeOK`, `OneValid`, `EmptyIsErased`, `CacheCoherent`, `ImplementsStore` |

These pass. What they mean:

* `IdsInStep`: at rest, the MessageID the RX thread has stored is not the one the
  source will use next, so a fresh message is never dropped. `SourceHears` is
  its mirror: the source never takes a new message of ours for a repeated one.
  Both relate a counter of one side to a memory of the other, over resets that
  each side carries out at its own pace.
* `OwnVerdict`: while the source only answers, no verdict on an earlier message is under way when the next
  one is sent. The FUSB302B, INT_N and the TX thread's flags hold it for a time, a
  discarded message leaves it there, and `protocol_tx.c:169` cannot tell whose it is. It is
  false in `contract`, `messages` and `collisions`, where messages of the source
  make the TX thread discard one of ours that has just been sent; what becomes of the
  MessageIDs then is what `SourceHears` checks in `contract`.
* `Agreement`: when both sides are at rest, the Request the sink relies on is
  the one the source accepted last.
* `NoChangeUnderOutput`: VBUS moves only with the output off. It holds where the
  DPM chooses from the configured *range* (see finding 4 for the button).
* `BuffersConserved`: each buffer has exactly one owner.
* `FlagMeansMail`: neither MSG_RX nor MSG_TX has an empty mailbox behind it. The TX
  thread does not look at the result of its fetch (`protocol_tx.c:87`) and need not:
  `TxWaitMessage` has no step for a fetch that fails, and this property is why.
* `ReadyHoldsContract`, `ReadyKeepsRequest`: what Ready needs for a renewal is
  there and has not been freed and reused.
* `OutputUnderContract`: the output is on only under a contract, or when the
  partner is taken not to speak PD.
* `DecisionHeld`: from asking to giving up, the Request that is sent and sent again,
  the capabilities held, and the voltage and match remembered belong to one
  decision of the DPM. They are in two buffers and in `dpm_data`, and no reset,
  GotoMin, refusal or timeout may change one without the others: PS_RDY switches the
  output on by the match alone, and the standby test reads the voltage alone.
* `TxMailLive`, `NoFault`, `NoMutualWait`: no leftover message in the TX
  mailbox, no NULL or freed buffer used, no circular wait, through timeouts
  and the hard resets they lead to.
* `ImplementsContract`: every step of the stack is one of `SinkContract` or
  changes nothing it sees. So the output is switched on in two places
  only (PS_RDY, and Type-C Current measured twice), off whenever the source takes
  power back and before anything else after a hard reset, and a refusal ends in
  the old contract or in none.
* `KeepsContract`, `TxAnswered`, `HardResetCompletes`: liveness, see section 5.
  `KeepsContract` says that the Policy Engine gets back to Ready unless it sends a
  hard reset.
* `OutputMeansPower`: what the user asked for last, by the button, by `write` or by
  `output`, is what the sink asks of the source and whether its output is
  on, once there is a contract and no request is pending. It relates the
  shell's assignment, the flag, the evaluation that may already be running, which
  then has read some inputs before and some after, and PS_RDY. Its premises are the exceptions: before the PS_RDY of the last
  evaluation (a refusal), after `erase`, and after GotoMin.
* `LedFollows`: the LED never claims an output that is off, or the reverse, and after
  PS_RDY says which, although the LED thread forgets events.
  `DarkWhenDone`: it ends dark although the button's handler writes its pin.
* `SinkCapsSound`: Sink_Capabilities, put together from the configuration, the
  offer and vSafe5V, are in order and without repetition.
* `ListingTrue`: what get_source_cap prints of a PDO is the PDO.
* `ScreenShowsLine`, `ParseIsWords`: the terminal shows the line, and the words found
  in it are those typed, although the tokenizer writes into a
  buffer that holds old lines.
* `IdentifyEnds`: liveness of an event the LED thread sends to itself.
* `OneValid`, `EmptyIsErased`: whenever the power fails, one object at most is
  valid, and an object that looks empty can be written.
* `CacheCoherent`: `config_cur`, which survives updates and erasures, points to
  what a search would find; and stopping the search at an empty first object
  overlooks nothing.
* `ImplementsStore`: seen from the prompt, a write stores the buffer, a load
  brings back what was stored last and an erasure removes it, on an empty, a
  full and a half-written page; a loss of power leaves the old configuration,
  none, or the fields of the new one that were written by then.

Five more runs look for the violation of something the sources say, and find it:

1. `mutual_wait` (`NoMutualWait`): `pe_sink_hard_reset` waits for HARD_SENT only
   (`policy_engine.c:574`). If a hard reset of the source has just sent the Hard
   Reset thread to `hardrst_wait_pe`, which "[waits] for the PE to tell us that
   it's done", each waits for the other.
2. `dropped_after_hard_reset` (`FreshAccepted`): `hard_reset.c:51` stores MessageID 0
   where `protocol_rx.c:84` stores -1. 0 is what the source uses first.
3. `pool_exhausted` (`PoolSuffices`): `protocol_rx.c:56` calls the allocation
   "guaranteed to not fail"; it does.
4. `no_standby` (`NoChangeUnderOutput`): `lib/include/pdb_dpm.h:118` wants
   `transition_standby` to notice a voltage change; when the button chose the
   voltage it compares the configured one with itself.
5. `torn_write` (`ValidIsComplete`): `src/config.c:229` writes the status VALID before
   the fields. `src/config.h:32` says that the status tells "which one is valid";
   after a loss of power it may be an object that holds nothing, whose preferred
   voltage the DPM reads as 65.535 V. `ConfigStore` therefore admits the beginning
   of a configuration.

Further disagreements, noted and not run:

* Before a Soft_Reset of ours the TX thread signals RESET to the RX thread, which
  (`protocol_rx.c:51`) goes on waiting and keeps the stored MessageID, although
  `policy_engine.c:630` says the protocol layer "resets itself just before a
  Soft_Reset message is transmitted". `IdsInStep` is violated when that MessageID
  is the one the source, which starts again at 0, uses next. With `loss = 1` in
  the run `contract` TLC finds this way: a retransmission is flushed from the RX
  FIFO after its interrupt was raised, the RX thread delivers what its buffer held
  before (MessageID 0), the Policy Engine answers with a Soft_Reset, and the
  source's Accept, MessageID 0, will be dropped.
* `protocol_tx.c:55` promises to report a message that was pending. RESET or DISCARD
  taken in the same wake-up as MSG_TX leaves the message in the mailbox, and nobody
  reports it: `TxAnswered` fails with a Soft_Reset of the source at that moment.
* A Reject under a contract goes back to Ready without a callback, and the LED goes on
  blinking "Negotiating USB Power Delivery contract" (`README.md:160`).
* A Reject after GotoMin clears `_min_power` (`policy_engine.c:263`): the sink stops
  asking for its power again and stays, under a contract, with the output off.
* `docs/console_config.md:316` says that `output disable` "sets the output to the
  specified state". It asks for 5 V at a low current; if the source refuses that, or until it
  answers, the output stays on.
* `evaluate_capability` tests the button's state (`src/device_policy_manager.c:134`)
  and stores 0 at line 138 if it was 4. A press that preempts it in between
  is overwritten: the LED goes dark and the button's count goes on, but the
  NEW_POWER of the release asks for 5 V.
* After a Reject under a contract the sink's stored Request is the refused one, with
  which a Wait's or a PPS renewal would go on; a press together with a refusal violates
  `Agreement`.
* `erase` does not signal NEW_POWER as `write` does (`src/shell.c:294`).
* `get_source_cap` reads the capabilities anew for each line (`src/shell.c:507`): its
  list may begin with one message and end with another.
* The PPS APDO of our Sink_Capabilities depends on the header of a message that the
  Policy Engine has freed, through a pointer it has set to NULL
  (`src/device_policy_manager.c:315`); what is at address 0 says revision 1.0, and
  the APDO is never added.
* The range of a PPS APDO is compared in its units of 100 mV
  (`src/device_policy_manager.c:179`), so that up to 99 mV more than its
  maximum is requested.
* `policy_engine.c:169` sets again the PPS index that line 161 forgets because of new
  capabilities.

The environments of the passing runs are chosen with these in mind: a run does
not contain the events that lead to one of the findings the property is about.
`TxAnswered` fails with a Soft_Reset of the source or a message
of it that collides with a Request; `HardResetCompletes` with a hard reset of
the source that meets one of ours. After a hard reset `KeepsContract` promises
nothing, because of finding 2. `TypeOK`, `ReadyHoldsContract`, `ReadyKeepsRequest`, `BuffersConserved`,
`OutputUnderContract`, `FlagMeansMail`, `DecisionHeld` and `ImplementsContract` hold
in every environment; all of them are proved (section 6).

`PROJECT.json` names, for each property of a passing run, an operator marked
"mutant" in the modules: a plausible bug in the definition that follows it,
which makes TLC find that property violated.

## 5. Fairness

`FairSpec` adds weak fairness, and only where the code or the hardware gives it:
each thread that can run goes on (`PENext`, `RXNext`, `TXNext`, `HRNext`:
ChibiOS runs the highest-priority ready thread, equals in FIFO order, and a
running timer expires); an I2C transfer ends (`I2CDone`); INT_N polls every
millisecond as soon as the others are idle (`IntN`); the transceiver reports
what became of what it was told to send (`PhySent \/ PhyRetryFail`,
`PhyHardSent`: it retries three times and then raises an interrupt); the source
sends what it has begun (`SrcSend \/ SrcTransition \/ SrcRecover`, required by
the protocol's timers); and `main` signals NEW_POWER after the delay and after
the button is released. Nothing makes the source start anything, the button be
pressed or a transmission fail. Early timeouts are steps of `PENext` that need a budget, so fairness never needs one to be taken where there is none.

`Console` assumes that the LED thread's virtual timer fires (`WF_vars(Tick)`), and
nothing of the user: identify may be repeated while it runs, which restarts nothing
because the event shown is not served again. `Device` and `Shell` state no fairness and
no liveness.

## 6. What is proved

### The stack

`PDStackProofs` proves, with TLAPS,

* `IInvHolds == Spec => []IInv`,
* `TypeCorrect == Spec => []TypeOK`,
* `ContractInReady == Spec => []ReadyHoldsContract`,
* `OutputSafe == Spec => []OutputUnderContract`,
* `MailBehindFlag == Spec => []FlagMeansMail`,

for every pool size, number of MessageIDs, offers, configuration, partner
revision and budget. The assumptions are those on the constants:
`PoolAssumption`, `IdAssumption`, `JunkAssumption` (`PDState`), `DPMAssumption`
(`DPM`), `RevAssumption` (`PolicyEngine`), `PortAssumption` (`Port`); every run
evaluates them. `InitBudget` needs none.

**The invariant.** None of the four is inductive: Ready is entered from a dozen
states and what it needs was established several waits before.
`IInv == Kernel /\ Link /\ Outside /\ Policy /\ FlagMeansMail`:

* `Kernel`: the types of `evt`, `sched`, `box`, `pool`, `mem`, `fault`.
* `Link`: those of RX, TX and Hard Reset; and an RX thread outside
  PRL_Rx_Wait_for_PHY holds a buffer, a TX thread that works on a message
  holds one. Otherwise they could write to buffer 0.
* `Outside`: the types of the transceiver, INT_N and the source.
* `Policy`: the types of `pe` and `dpm`, and what the state of the Policy Engine
  says about its fields: while it asks (from PESinkSelectCap on) it holds a
  Request and capabilities and no message; where a contract is settled,
  `_explicit_contract` is set; while it awaits the outcome of a transmission it
  holds what it sent; when it has sent a hard reset the counter is in range; in
  Startup the output is off; and `OutputUnderContract`.
* `FlagMeansMail` needs `Kernel` alone: only RX sets MSG_RX, just when it posts,
  and only the Policy Engine fetches, when its wait clears the flag; likewise MSG_TX,
  which the Policy Engine sets and the TX thread fetches on. A mailbox
  is as long as the pool, so that a full one is not empty. INT_N and the resets tell
  the TX thread other flags.

**The argument.** Lemmas on the kernel's services (`Signal`, `Yield`, `Enter`,
`Freed`, `Posted`, ...) say once what each preserves. One lemma per Policy
Engine handler and one per other thread says that its steps preserve `IInv`; in it
one step per action, and one per conjunct the action can disturb. `InitIInv` and
`StepIInv` put them together; the theorems follow by temporal logic.

### Who owns a buffer

`OwnershipProofs` proves, under the same assumptions and in every environment,

* `NoLeakNoDoubleFree == Spec => []BuffersConserved`,
* `ReadyKeepsRequestAlways == Spec => []ReadyKeepsRequest`,
* `NoNullMessage == Spec => [](fault # "nullMessage" /\ MailFits)`: capabilities are
  there when they are evaluated, and the RX thread's `chMBPost`, whose result is
  ignored, does not fail.

`BuffersConserved` counts references. The invariant says it with owners:
`OInv == Buffers /\ Contents /\ Handlers`. `Buffers` (`Owned`) is that the free list and the
Policy Engine's mailbox hold no buffer twice, that the five pointers
(`pe._last_dpm_request`, the message in transmission, the DPM's capabilities,
`pe._message` while they are evaluated, the RX thread's) are distinct, that
mailbox, list and pointers are disjoint, and that together they hold every
buffer. What a handler does is then a few moves: allocate into a pointer that
is null, free a pointer, fetch, post, pass on. Each has a lemma (`AllocOwned`, ...)
on `Owned` alone, and the proof of a handler names its moves. `Contents` says what type of
message the pointers that are used again point at; `Handlers` that nothing is
in transmission elsewhere than in the states that wait for its outcome. A mailbox
as long as the pool has room for a buffer that is not in it (`RoomLeft`, by the
pigeonhole principle).

*How big the pool must be.* `PoolSuffices` is false for four buffers
(`pool_exhausted`). What is true of every pool, in every environment, is

* `PoolEmptiesBehind == Spec => []EmptyMeansBehind`: an allocation has failed only if
  all but three of the buffers wait in the Policy Engine's mailbox.

When a thread finds the list empty, the buffers it does not see in the mailbox are
behind pointers. There are five, and two of them are null at any allocation: what
each state holds is `Policy` and `Handlers`, and the RX thread allocates only without
a message. The failing thread stops the model, so that the bound stays true
(`FaultStops`). It is the bound behind the comment of `protocol_rx.c:56`, and it is met:
with four buffers, one message in the mailbox is enough.

The TX mailbox and `tx._tx_message` own nothing: what they point at is the
Policy Engine's. That is why a freed message can be left there, below.

### The handshake of a hard reset

`HandshakeProofs` proves, for every environment,

* `OneTurnEach == Spec => []OneTurn`: no thread is in the ready list twice,

and for every environment in which the source signals no hard reset
(`QuietSource`: each budget has `"hard"` and it is 0)

* `NeverStuck == QuietSource => (Spec => []NoMutualWait)`,
* `MailLives == QuietSource => (Spec => []TxMailLive)`,
* `OnlyPoolFaults == QuietSource => (Spec => [](fault \in {"none", "nullAlloc"}))`: of
  the ways out of C only the pool that runs empty is left,
* `KeepsUpNoFault == QuietSource => (Spec => [](Len(box.PE) + 3 < PoolSize => NoFault))`:
  and that one, too, is closed as long as the Policy Engine's mailbox does not fill up.

The runs `contract`, `messages` and `live` satisfy `QuietSource`. It is needed:
under the constants of `collisions` TLC finds `TxMailLive` violated and then
`fault = "freedWrite"`, and the run `mutual_wait` finds the deadlock. Within it everything
else may happen: lost and unexpected messages, transmission failures, timeouts,
overtemperature, soft resets and hard resets of the sink's own.

The invariant is `HInv == OneTurn /\ Calm /\ Roused /\ Handshake`. `Calm`: nobody has been told of a
hard reset by the source. `Handshake`: RESET to the Hard Reset thread, HARD_SENT
to the Policy Engine and DONE back follow one another, and which of them is
pending is determined by the two threads' states, with the one exception that a Policy
Engine which gives up at once asks again before its DONE has been
taken. `Roused`: the Hard Reset thread in the ready list has the flag it was
woken for. That rests on `OneTurn` (a thread that blocks is nowhere else in the list), and `OneTurn` on
the queue for the I2C bus: a thread is woken by an event or by the end of a
transfer, and never waits for both. `Mail` follows a message from the Policy Engine
through the TX mailbox and the TX thread to its outcome: until the outcome
is known the Policy Engine waits in a state that keeps it.

### The contract

`ContractProofs` proves `ImplementsSinkContract == Spec => ImplementsContract` under the same
assumptions. The mapping: `phase <- PhaseOf(pe.state)`, `contract`
and `reduced` are the Policy Engine's `_explicit_contract` and `_min_power`,
`supply` is the DPM's record without its buffers, `enabled` is the constant
`OutputEnabled`. Nobody but the Policy Engine's thread (and its PPS timer) changes
any of them (`RXLeaves` to `PortLeaves`); each of its handlers has a lemma
(`StartupAllowed`, ..., `QueriesAllowed`) that says which abstract step its wake-ups are.
Most are quiet: they leave contract and supply alone, and only the phases
matter (`SamePhase`, `ToResetting`, `ToWaiting`, `ToOffered`, `ToAsked`). The
invariant `IInv` of the stack is needed for the fields' types, and because a
handler acts on the message it holds: without it a Policy Engine in Ready without
a Request could not repeat it.

*The decision.* The abstract contract says that the output is switched on when
the supply is ready and enough. That "enough" was found out about the PDO that
the source now supplies is a fact about buffers, which the abstraction leaves out:

* `OneDecision == Spec => []DecisionHeld`,
* `OutputOnByDecision == Spec => [][OnByDecision]_vars`: the output goes on only by
  a PS_RDY under a decision with a match, whose PDO is the one requested and
  whose voltage becomes `_present_voltage`; or at 5 V with a partner that speaks no PD,
* `LoadOffInTransition == Spec => []DisconnectedInTransition`: while VBUS may move
  the output is off, or the voltage asked for is the one the DPM takes VBUS to have, or
  a PPS APDO is asked for again. It is what is left of `NoChangeUnderOutput` when
  the source and the voltage of the button are arbitrary (finding 4: what the DPM takes
  VBUS to have may be wrong).

`DecisionHeld` is inductive together with `IInv`, `OInv` and `ButtonType`. One
evaluation writes all three at once (`EvaluatedTogether`, where the phase turns from "offered"
to "asked"). In every other step from a state that is
bound to a decision to one that is, the two pointers stay (`SameBuffers`), and so do
what they point at (`SameContents`: by `Written`, whatever is written to was or becomes
free or is the RX thread's, and these two are owned by others) and the voltage and match of `dpm_data` (`OnlyEvaluated`). That the PDO is
in the offer (`Positioned`, `OfferHeld`) is a fact about `Evaluation` alone. `ButtonType` bounds
the state of the button that the evaluation has read, which is gone afterwards: hence
the quantifier in `DecisionHeld`.

### The MessageIDs

`NumberingProofs` proves

* `NewIdsHeard == NoResets => (Spec /\ []OwnVerdict => SourceHears)`.

`NoResets`: the source starts no reset, hard or soft; a freed buffer does not read as a
Soft_Reset; there are at least two MessageIDs. Failed and discarded transmissions
that the source has or has not heard, timeouts, errors, Soft_Resets and
hard resets of the sink's own may happen any number of times. `OwnVerdict` is a
hypothesis, since what would keep a stale verdict out is the timing of INT_N against
that of the source. The run `live` satisfies both.

The counter is written by the TX and Hard Reset threads and compared by the
source with what it heard last; in between a message is in a buffer, in
the air, or over with nobody knowing whether it was heard. `Numbering` says which of
these it is: `OnAir` (what is in the air is new, and the TX thread waits for it or is
about to flush it), `Flight` (it has the current MessageID; once it is known to be
sent, it was heard), `InStep` (before a message is sent the counter is new to the source,
*unless* the Policy Engine is `Troubled`: it has been, or is about to be, told of
an error, and will reset before it sends another), `Forgotten` (when the Policy Engine
is told that its hard reset was sent, the source has forgotten, or will before it
hears anything) and `NoSoftReset` (the only Soft_Reset anywhere is the one the
Policy Engine is sending). It needs `HInv` and `Mail`: the Hard Reset thread zeroes
the counter only while the Policy Engine waits for it and nothing is being sent.
`TroubleStays` is the Policy Engine's part: every handler that learns of a failure
goes on to a reset. The source's part is `HeardBy`.

### Only model-checked

* `IdsInStep`, `Agreement` and `NoChangeUnderOutput` are true
  in the environment of their run and not in all (the findings and the disagreements
  of section 4 break them): they are no theorems of `Spec`. For the first two a
  theorem would have to exclude every reset of the sink's own after which
  the MessageIDs disagree, which the proofs can do only by bounding the budgets; the run
  does that already.
* `SourceHears` is proved under the two hypotheses above; with a Soft_Reset of the source, which
  makes the RX thread write the counter too, and without `OwnVerdict`, it is
  checked by `contract`. `OwnVerdict` itself is checked by `live`.
* `NoFault` as a whole is no theorem either: a Policy Engine that falls behind by one message
  finds the pool empty (`pool_exhausted`, where the source is paced and sends a single Ping).
  `OnlyPoolFaults` and `KeepsUpNoFault` say what is left of it.
* `NoMutualWait` and `TxMailLive` with a hard reset of the source are false.
* `FreshAccepted`, `PoolSuffices` and `ValidIsComplete` are refuted by runs.
* Liveness (`KeepsContract`, `TxAnswered`, `HardResetCompletes`, `IdentifyEnds`) is out of the
  proof system's reach, as is `ENABLED`.

### The console

`ConsoleProofs` proves, for every size of the buffer, alphabet and command,

* `ScreenIsLine == Spec => []ScreenShowsLine`,
* `StaysInLine == Spec => [](p \in 0..(Size - 1))`: no character is written outside
  the buffer, and there is room for the 0 behind the last.

* `ParsesWords == Spec => []ParseIsWords`: what runs is the words that were typed, for
  every number of arguments and whatever the buffer held before.

The invariant of the first two is `Inv == InLine /\ ScreenShowsLine`; `InLine` has the bounds of the offset and the
row. `DeleteShows` follows the three characters that erase one.

`ParseIsWords` compares two definitions of the words of a line, the tokenizer's
and the reference (`Starts`, `Word`). `ParseInv` has one part for each state of the thread: the
characters read so far; the line as it was entered and the 0 at its end, which no
cut overwrites; no word cut out yet; then `Words`, that the command and the arguments
found so far are the words that begin up to the saved pointer, in their order,
each followed by a 0 (`Parsed`), and that the line from the pointer on is as it was
typed. `Scans` says what one call of `_strtok` does, `OneStart` that exactly one word begins in what it
passes over, `OneMoreParsed` that `Parsed` goes on to the new pointer. `_strtok` has no recursion: the
loop is in the actions, so that no induction over data is needed. `Parsed` also
counts, which shows that the abort comes exactly when there are too many words.

### The device

`DeviceProofs` proves, for every set of offers and configurations, number of blinks (up to 8) and
mode (`DeviceAssumption`, `LEDAssumption`),

* `LedTellsOutput == DeviceSpec => []LedFollows`,
* `EndsDark == DeviceSpec => []DarkWhenDone`,
* `PowerIsAsAsked == DeviceSpec => []OutputMeansPower`,
* `ListsWhatIsOffered == DeviceSpec => ListingTrue`,
* `DeviceKeepsContract == DeviceSpec => Spec`: every step of `Device` is one that `SinkContract` allows, so
  that with `ImplementsSinkContract` the two ends meet in the same contract,
* `SinkCapsWellFormed == LegalOffers /\ StoredVoltages => (DeviceSpec => []SinkCapsSound)`.

The invariant is `DInv == TypeOK /\ Served(led) /\ SinkLoop /\ Shown /\ Considered /\ Switching /\ Reading`. `Served`: the LED thread has taken
every event, so that none hides another, and a mode that has ended is dark.
`Shown`: an LED that says on or off is right, and stays right through Sink Standby,
which leaves it alone. `Considered`: unless a NEW_POWER is pending, what is
asked for is what the evaluation of the present inputs gives. `Switching`: once
PS_RDY has come the output is what that evaluation wants. `Reading`: what an
evaluation under way has read is still so, or a NEW_POWER is pending that will outlive
it (or an erasure was not announced). None of the last
four is inductive without the others: the LED is set from the match, and the
match is right only if every change of an input signalled NEW_POWER.

`SinkCapsWellFormed` has two hypotheses. `StoredVoltages`: a
configured voltage is at most `PD_MV_MAX`, 21 V (`shell.c:355` rejects more); the run
also has an object torn by a loss of power, beyond that.
`LegalOffers`: fixed PDOs after the first are of ten bits, which their field cannot
exceed, and are not 5 V, as USB Power Delivery asks of a source. A source that offers 5 V twice
makes the sink's list repeat it; the sort of the last two does not remove it.

### The configuration

`ShellProofs` proves, for every length of the page and every argument the commands
accept (`ArrayAssumption`, `InputAssumption`; evaluated by both runs),

* `PageInvHolds == Spec => []PageInv`,
* `ShellTypes`, `OneIsValid`, `EmptyErased`, `CacheIsCoherent`: `Spec => []` of
  `ShellTypeOK`, `OneValid`, `EmptyIsErased`, `CacheCoherent`,
* `Implementation == Spec => ImplementsStore`: initial states of `Shell` are initial
  states of `ConfigStore`, and each step is a step of it or leaves it alone.

`OneValid` is not inductive: that the new object is the only valid one rests on the
old one having been found and invalidated, and so on the cached location and on
the search. `PageInv` adds that the page is filled from its first object on
(`Filled`: otherwise an empty first object would hide a valid one), that the
cached location is that of a valid object while it is used (`CacheValid`), and
how far an operation has got (`Progress`: which fields the new object has, that
nothing is valid between invalidating and programming, that flash is unlocked).
`StepPageInv` has one lemma per action. `StepImplements` uses `Progress` again: the
fields written so far are those of `Begun`, and after the fifth they are the
configuration. The commands' arithmetic (`BitRange` to `DefinedHalfword`) is there
because the buffer must stay within half-words.

## 7. What is not modelled

* `fusb_setup` and register contents.
* Of the shell: the texts of license, help, get_cfg and get_tmpcfg, and the Type-C Current
  that get_source_cap prints when there are no capabilities.
* In this build nothing starts the shell: `main()` calls `sink()` alone, `setup()` is
  commented out (`src/main.c:248`). It is modelled because it is the code's
  second mode. `PDStack` has the configuration as a constant and the output
  enabled; `Shell` lets the DPM read it at any time; `Device` lets both change.
* `PDStack` and `Device` are not multiplied: `Device` composes the user's side with
  `SinkContract`, which `PDStack` is proved to implement for a constant `enabled`.
  That the same holds while `output` changes it is not proved; the handlers read
  `output_enabled` in `evaluate_capability` and `dpm_output_set` alone.
* What an interrupted erasure, or a half-word whose programming is cut short,
  leaves behind.
* The display (commented out), USB, the bootloader entry, board files.
* `PDB_EVT_PE_GET_SOURCE_CAP` is signalled by nobody in the repository; it is part of
  the library's interface, and one run lets an application use it.

## 8. Plan

Done: everything above. What is left, in this order:

1. *An abstract link* that delivers each message once or reports a failure, implemented by
   RX, TX and the transceiver where the findings do not forbid it.
2. *`output_enabled` as a variable of `PDStack`*, so that `ImplementsSinkContract` covers setup mode.
3. *DPM*: the choice of a PDO against a reference definition over all small
   offers and configurations, the 16-bit arithmetic included.
4. *A source with timers*, for the SinkTxOK loop and for collisions of revision 3.0.
