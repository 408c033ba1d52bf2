# A TLA+ model of stm32_ad9910

`stm32_ad9910` is firmware for an STM32F746 that turns an AD9910 direct digital synthesizer into
a pulse generator. An operator describes pulses over a UART or over TCP. The timers of the
microcontroller then play them on the control pins of the AD9910, one pulse per external trigger.

This directory holds the specifications, the TLC configurations that check them and the TLAPS
proofs. `PROJECT.json` maps every definition to the lines it models and lists runs, mutants,
hazards and theorems. Paths below are relative to `src/`.

    tlc -workers 2 -config SequencerUart.cfg MCSequencer     # model-check a run
    tlapm SequencerProofs.tla                                # check the proofs of a module

## 1. The system

### Execution contexts

| Context | Where | What runs in it |
|---|---|---|
| init task | `main.c` | `system_init()`, then forever: `deferred_daemon_run_all()`, i.e. UART commands (`parse()`) and `pulse_complete_callback()` |
| server task | `server.c` | listens; accepts one client at a time (backlog 1) |
| client task | `server.c` | reads lines and runs the same commands, at the priority of the init task, time-sliced with it |
| acknowledgement task | `ack.c` | receives multicast packets and pushes ACK events |
| interrupts | `isr.c`, `uart.c`, `timer/` | DMA1_Stream4 (the pulse's stream has ended), TIM2 (trigger captured, counter overflowed), USART3, TIM14 (radar emulator, highest priority), Ethernet |
| hardware | — | armed timers start on the trigger without software; DMA feeds them; the AD9910 takes over its buffers on IO_UPDATE and on a change of profile |

They share, without locks, the sequence of pulse descriptors, the HAL handles of four DMA streams
and two timers, the SPI bus, the snapshot of the AD9910's registers and the profile pins. They
communicate through two queues whose overflow nobody notices: the deferred calls (32) and the events (32).

### Components

| Component | State | Operations | What makes it correct | Module |
|---|---|---|---|---|
| pulse sequencer, `sequencer.c` | sequence, index, timers, DMA handles, AD9910, pins, indicator | `seq` commands, `basic_*`, `rfkill`, `test_tone`, completion callback | handles ready, one live entry everywhere, silent when killed, round robin | `Sequencer`, `PulseTrain` |
| AD9910 registers, `ad9910/` | snapshot, chip's buffers, active registers, RAM | setters, `ad_write_all`, `ad_safety_off`, `ad_write_ram`, IO_UPDATE, profile pins | a pulse plays exactly its entry; silence between | `Registers` |
| logic level generator, `timer/sequencing.c`, `isr.c` | counters, notes, stream, flags, handle | arm, disarm, prime, interrupt | one callback per triggered pulse, not before the emission is over | `LogicBlaster` |
| lowering of logic sequences, `uart_cli.c` | — (pure) | `lower_logic_sequence` | the times asked for; the arrays are filled exactly | `LowerLogic` |
| pulse builders, `uart_cli.c` | descriptors and their memory | `seq pulse`, `basic_pulse`, sweeps, `basic_xmitdata`, `seq json` | the signal asked for at every moment; no block lost | `Commands` |
| JSON queries, `json.c` | three stacks, location | automaton, path matching, `json_query_*` | knows where it is; answers what the text says | `Json` |
| clock, `timer/sequencing.c` | TIM2, overflow count, stamp | capture and overflow interrupts, `logic_blaster_hrtime` | time is exact across overflows | `MasterTimer` |
| DDC follower, `uart_cli.c` `wait`, `events.c`, `ack.c` | event queue, count of unacknowledged triggers | purge, await, run, watch, reset | exact count, starts and stops when it should | `Follow` |
| heap, `freertos_extras/heap_6.c` | blocks and free list | malloc, free, realloc | blocks tile memory, one owner each | `Heap`, `Allocator` |
| UART line editor, `uart.c` | buffer, transfer, pending call | byte, idle, half, full, error, parse; boot of `main.c` | the line as edited is run; reception restarts | `UartRx` |
| TCP line reader, `server.c` | buffer, wire, client task | accept, receive, find line, run, scroll, close | the lines sent are the lines run; room for the next client | `LineReader` |
| radar emulator, `timer/emulator.c` | TIM14, countdown, preloaded period | start, stop, interrupt | exactly as many pulses as asked | `RadarEmulator` |
| words of commands, network interface, LEDs, recorder, syscalls | — | — | — | not modelled (section 8) |

What is hard: a completion callback is queued at one moment and handled at another, after
commands that changed what it works on. Handles and registers keep settings of earlier pulses.
Streams run ahead of the pins they feed. Interrupts of different sources are pending together.
Queues drop silently. Time-sliced tasks preempt each other between the steps of one command.
`PROJECT.json` lists these hazards at their lines, with the properties aimed at them.

## 2. The modules

**`Sequencer`** is the core. A task executes one step of its command per action; its program
counter `pc[t]` names the call of `sequencer.c` it is about to make. `Rfkill` is
`enter_rfkill_mode()` (`TimerStop`, `Park`, `Profile0`), which all commands but `sequencer_add()`
start with. `Callback` is `pulse_complete_callback()`, from `Fetch` over the four starts of
streams, each with its assertion, to `Arm`. `busy` and `burst` are the HAL's states of DMA handles
and timer bursts, `src` is where a stream reads from, `dds` what was last loaded into the AD9910,
`mode` (history) what the last command asked for. Freed memory is modelled: after `Free`, copies
and streams that pointed to an entry hold `"wild"`, and the elements of the vector `"cleared"`.
A failed assertion is a `hung_*` value of `pc`: the firmware prints and spins. On this core a
division by zero gives zero, so with an empty sequence `x % 0` is `x`, and the entry fetched is whatever
lies there. `MCSequencer` gives the constants values.
**`PulseTrain`** is what the sequencer promises: fetch round robin, emit once, stop at any time.
`Sequencer` implements it under `Refines`; the refinement mapping is at the end of `Sequencer`.

**`Registers`** refines `dds` of `Sequencer` by three stages, `shadow` (regmap), `buffer` and
`active`. A command is a script, a sequence of calls; each action makes the first call of `calls`.
`Select` is the rule of the chip that the firmware relies on (comment `ad9910/misc.c:41`): a change
of the selected profile takes the buffers over. `SafetyOff` changes the buffers and not the snapshot.
Only one task runs commands here: the preemption of tasks is the subject of `Sequencer`.

**`LogicBlaster`** looks at one pulse at the grain of a note. At each compare match the loaded note
starts and the stream loads the next one; so the stream is dry when the last note but one starts.
`Enter` is the handler's look at NDTR and `Handle` the HAL's look at the flags, two steps. `Load` takes every entry the
commands make: a list of states ends with two parking notes (`TERMINATOR`, `seq json`), with one (the xmitdata commands), or with none,
if a time of zero has cut it (`Forms`, `Tail`); of the notes before them any may be the last that radiates, or none. So an entry may
have a single note, which the priming (`sequencer.c:220`) takes from the stream.
**`LowerLogic`** is `lower_logic_sequence()` as operators: `Divider` is the tick common to all times,
`Slots` the slots allocated, `Notes` the notes written. It has no state of its own.
**`Commands`** has an action for every command that makes a descriptor (`SeqPulse`, `BasicPulse`, `Sweep`,
`XmitFsk`, ..., `SeqJson`), with its early returns, its assertions (`Halt`) and the memory that it leaves
behind (`GiveUp`). The states of the pins go through `LowerLogic!Lower`. `asked` (history) keeps what was asked for.
The second half of the module is the unit: `SignalAt(e, t)` is the tone that the timer's notes, the profile pins,
the RAM playback and the ramp give at moment `t` after the first compare match, and `AskedAt` is what the command's usage text
promises. A hold time is written to ARR as it is, and the counter takes ARR + 1 ticks (`Ticks`): so `AskedAt` takes the tick of the
timer, and each state lasts one more for each of its notes (`Lasts`); with a tick of 0 it is the times that were asked for.
`zc_psk` drops the low bits of its tuning word (`Coarse`, `uart_cli.c:743`, 61 kHz at most), and `Meets` allows it that. `Slips` names mistakes of operators that the passing run leaves out (section 5).
`MCCommands` gives the operators among the constants.
**`Json`** is the automaton of `json.c`, `Dispatch` with one operator per scope, and the queries that run on it.
The document is written while it is read: each action of `Write` adds one character of a well-formed
text, and `open`, the document's own structure, is what the stacks of the automaton are compared with.
In `Commands` the text of `seq json` is such a text.
**`MasterTimer`** is TIM2 with its overflow and capture flags; its interrupt handler samples the
status and then handles capture and overflow, step by step, while the counter goes on; a task reads
the clock in three steps.
**`Follow`** is `wait_mcast_packet()`: each of its loops is an action on the event queue, whose
producers (trigger capture, READY of the callback, ACK of the acknowledgement task) drop events
when it is full. A `printf()` over TCP fails if the session is closed, and may fail at any time on a full send buffer
(`Printf`, `printf.c:50`). The generator is reduced to its states off, armed, running, done.
**`Heap`** is `heap_6.c`: blocks, an address-ordered free list, first fit, splitting and joining.
`vPortFree()` takes two actions: it clears the allocated bit before it suspends the scheduler.
**`Allocator`** is what a heap promises: blocks that are large enough and apart, wherever they lie. `Heap` implements
it under `Refines`; a reallocation in `Heap` is one step from one block to another.
**`UartRx`** is reception to idle by interrupt: `Receive` puts a byte in the buffer,
`OnEvent` is `HAL_UARTEx_RxEventCallback()` with its backspace and line end, `Parse` runs the
line and restarts reception. `cpu = "booting"` is the time from `init.c:235`, where reception starts, to
`main.c:22`, where the deferred queue is created (`Boot`); a call queued before that asserts in the kernel.
Noise during reception restarts it (`Noise`). While a command is executed, error interrupts are off, and a second byte
(`ReceiveLate`) or a noisy one (`NoiseLate`) leaves its flag up, which `Fault` finds in the middle of the restart.
**`LineReader`** is `client_task()` with `read_lines()`: any split of the lines into segments, the search for
the line end, the execution and the scroll with the length that the code computes; and the life of a client,
which may leave or lose its connection at any moment, and after which the socket has to be closed before the
next is accepted.
**`RadarEmulator`** is TIM14 with its buffered period, the countdown that its interrupt makes, and
start and stop by command.

The modules are composed at their interfaces: the interrupt that `LogicBlaster` shows to come once
per pulse and after the emission is `PulseComplete` of `Sequencer`; `dds` of `Sequencer` is `active` of
`Registers`; the READY event of `Arm` is produced by `PushReady` of `Follow`; `TypeLine` and `ClientLine`
of `Sequencer` stand for `UartRx` and `LineReader`; the entries of `Sequencer` are the descriptors of `Commands`,
whose lists of states end as the `Forms` of `LogicBlaster` do (an entry of a single note queues its callback before any trigger;
those of `Sequencer` have at least two); what `Commands` counts
as `blocks` is what `Allocator` gives. `Commands` contains `LowerLogic` and `Json`.

## 3. The runs

| Run | Shows | Bounds and why they are enough |
|---|---|---|
| `sequencer_uart` | Commands typed at any moment, also in the middle of a pulse or of its callback. Handles are always ready, streams and AD9910 hold one live entry, a killed generator stays silent, a triggered pulse is followed by another. | Two entries (one with an image), sequences of up to two, six commands: enough for basic-reset-basic with a stale callback between any two. The queue holds four calls where the code has 32, so that behaviours in which a call is dropped are among those checked. The theorems drop the bounds. |
| `sequencer_gated` | With a TCP client too, the trigger being silent around commands: no burst is refused, a tone holds, no pulse is cut, `Sequencer` implements `PulseTrain`, and every entry is emitted again and again. | As above. The gate is what the operators must do; section 5 shows what happens otherwise. |
| `registers` | Entries with and without a sweep and an image in any order, tones, stops, `write` and `ram_test`: each pulse plays its entry, nothing is radiated between, a tone is plain. | One entry of each of the four kinds: an entry differs from the one before it in every combination. No other bound. |
| `blaster_pulse` | One callback per triggered pulse and none without, but for an entry of a single note; it comes after the stream has ended and its handle is released, and after the whole emission, if two notes follow it; always another pulse. | Up to six notes before those that park the pins, of which any is the last that radiates, and two, one or none of these: every relation of half and full transfer to the end. The theorems hold for any length. |
| `clock_exact` | Overflow count, pending overflow and counter make up the time; a stamp is exact but for a pending overflow. | Period 3, three periods: every order of edge, overflow and handler. The theorems hold for any period. |
| `commands` | Every command that makes a descriptor with every combination of arguments, and every text of a list: the unit gives the signal asked for at every moment, each state a tick longer for each of its notes, the arrays are filled exactly, no block is lost, the automaton knows where it is and queries answer what the text says. | Units that do not divide each other, as in the code: a timer clock of 3 periods in 2 ns, playback and ramp with 3 ns. Slots of 4 ticks, a divider up to 6: several slots in a state and every coarser tick. 32 tuning words, of which `zc_psk` has every fourth, step rates up to 3, a RAM of 3 words: aliases, fields and images at their limits. Lists of 2 items with a depth of 3, up to 3 symbols: every order of scopes in which a comma or a bracket can come. One descriptor: a command does not look at earlier ones except to free them. The theorems drop the bounds. |
| `follow_tcp` | The count of unacknowledged triggers is exact; it starts on a packet, stops on two unacknowledged triggers and on a closed session. | Queue of 5, up to 3 events between two steps of the follower (it keeps up: `Lossless`). The theorems drop the bounds. |
| `heap` | The heap implements `Allocator`; blocks tile memory and free neighbours are joined. | 12 units, blocks up to 5, two tasks: room for three blocks and every way of joining. |
| `uart_keyboard` | From before the queue exists: `parse()` runs the line as edited; the buffer is not overrun and does not change under `parse()`; the prompt returns unless two bytes, or noise, came during a command. | Buffer of 8, two letters, backspace, line end: a line that nearly fills the buffer and any editing. |
| `line_prompted` | Clients come, leave and break off: the lines run are the lines sent, all are run, and a client that has gone makes room. | Lines of up to 3 letters in segments of any size. The theorems drop the bounds. |
| `radar_series` | A series has exactly the pulses asked for and is given in full. | Series of 1, 2, 3, 5 and endless: below, at and above the point where the countdown starts. |
| `sequencer_stale_tone` | Violation: see section 5. | |

Deadlock is checked except where a stopped system is legitimate: the command budget is spent, an
assertion has failed (`Sequencer`, `UartRx`), time has reached its bound (`MasterTimer`), the session
is closed (`LineReader`), or an assertion has failed or no text is left to write (`Commands`).

`PROJECT.json` names for each property a mutant, a plausible slip in the code under which
TLC finds the property violated. The definitions marked "Mutant" in the modules serve this only.

## 4. Fairness

Weak fairness is assumed of what the firmware and the hardware do by themselves: tasks of equal
priority are time-sliced (`configUSE_PREEMPTION`, and slicing is the default of FreeRTOS), interrupts are taken, counters that run
reach their match, streams end, bytes on the wire arrive, timeouts pass. Nothing is assumed of
operators, triggers, packets or bytes typed. Where a property needs triggers it says so:
`RoundRobin` is conditional on `WF_vars(Trigger)`, and `follow_tcp` checks `TriggeredSpec`, a radar
that keeps triggering whenever the timers run, because a follower whose radar has gone
silent ends by its own timeout instead.

## 5. Where the code departs from what it says

The run `sequencer_stale_tone` is in the list of findings. A completion callback that is already
queued when `test_tone` is executed runs after it, loads the next pulse and hands the pins to timers that
are held in reset: the tone ends, though `sequencer.c:320` promises a continuous signal.

The following are stated as properties that TLC shows violated under the configuration named
(`tlc -config X.cfg M`). They are kept as documentation of the limits of the passing runs.

| Configuration | Module | Property | What happens |
|---|---|---|---|
| `SequencerStaleReset` | `MCSequencer` | `BurstsStart` | A callback queued before a reset runs after it, on an empty sequence or on one just begun: the burst is refused and the assertion of `sequencer.c:198` stops the firmware. |
| `SequencerTcp` | `MCSequencer` | `HandlesReady` | The init task in the callback and a client task in a command start the same streams (assertion at `sequencer.c:194`). |
| `RegistersWrite` | `Registers` | `EmitsAsProgrammed` | `write` during a run puts the static resets, and no RAM playback, back into the buffers of the chip; the next change of profile takes them over and the pulse has no sweep or no image. |
| `BlasterXmit` | `LogicBlaster` | `EmittedAlways` | The xmitdata commands end an entry with one parking note (`uart_cli.c:574`, `648`, `722`); the comment at `uart_cli.c:52-56` explains why two are needed. The callback may cut off the end, and also that of a list which a time of zero has cut. |
| `BlasterOneNote` | `LogicBlaster` | `OnlyTriggered` | An entry of a single note (an offset with a duration of zero, an xmitdata command without data or offset) has ended with the priming (`sequencer.c:220`): its callback is queued without a trigger, and the next entry is loaded at once. |
| `BlasterRace` | `LogicBlaster` | `Continues` | A stream that ends between the look at NDTR (`isr.c:165`) and the look at the flags is acknowledged without a callback: the sequence stops. Needs notes as short as a few instructions. |
| `CommandsPins` | `MCCommands` | `SoundsOnTime` | Hold times are written to ARR as they are (`uart_cli.c:172`, `sequencer.c:194`), so each note lasts a tick more, and ticks are as coarse as the times allow: a pulse, even one without an offset, is up to 10 µs too long for each of its notes, though the comment at `uart_cli.c:74-75` says that its duration is true within 4 ns. The passing run has the same counter, and holds each state to the time it then has. |
| `CommandsZeroHold` | `MCCommands` | `SoundsAsAsked` | A list ends at a time of zero (`uart_cli.c:86`), also at one that a text of `seq json` gives (`uart_cli.c:1002`): what follows is cut off with the parking states, and the pins keep the last state. |
| `CommandsSlowSweep` | `MCCommands` | `SoundsAsAsked` | The interval of a sweep is cut to 16 bits (`tstep`, `ad9910/drg.c`), so a slow sweep is fast. |
| `CommandsFlatSweep` | `MCCommands` | `SoundsAsAsked` | A sweep whose limits coincide is built without complaint and fails the assertion of `ad9910/drg.c:49` in the callback. |
| `CommandsLeak` | `MCCommands` | `BlocksOwned` | `basic_xmitdata` with a frequency of zero returns without freeing what it has built (`uart_cli.c:580`, `654`, `728`, `819`). |
| `CommandsWord` | `MCCommands` | `Answers` | A query compares the word for an index by its number (`json.c:344`), and a name is the number 0: a query for a name finds the first element of an array. |
| `ClockWrap` | `MasterTimer` | `StampsOrdered` | The handler treats the capture before the overflow (`timer/sequencing.c:84`): an edge right after an overflow is stamped a period (20 s) early. |
| `ClockTorn` | `MasterTimer` | `ReadsTrue` | `logic_blaster_hrtime()` reads two words (`timer/sequencing.c:75`) and an overflow may come between. |
| `FollowDropped` | `Follow` | `CountsExact` | A full queue drops events (`events.c:21`) and the count of unacknowledged triggers goes wrong. |
| `FollowUart` | `Follow` | `KeepsUp` | `wait` typed on the UART occupies the init task, so the callback that re-arms the timers is not run (see `Docs/users_manual.md:295`). |
| `FollowClosed` | `Follow` | `CloseStops` | A closed session is noticed by a failing `printf()` only; without triggers nothing is printed. |
| `LinePipelined` | `LineReader` | `RunsWhatWasSent` | The scroll of `server.c:64` moves as many bytes as the executed line had; if more follow it, the rest stays behind and a damaged line is executed. |
| `UartHang` | `UartRx` | `NoAssertionFails` | Two bytes during a command overrun the receiver, or one noisy byte leaves its flag: the interrupt comes as soon as the restart enables it (`stm32f7xx_hal_uart.c:3382`) and restarts reception too, which is busy; the assertion of `uart.c:73` fails. |
| `UartEarly` | `UartRx` | `NoAssertionFails` | A line ended before `main.c:22` is queued in a queue that does not exist (`init.c:235`, `uart.c:174`); the kernel asserts. |
| `UartPaste` | `UartRx` | `StableWhileParsing` | With pasted text the half-transfer event queues `parse()` (`uart.c:170`) while reception goes on. |

Three more of the `Slips` of `Commands` violate `SoundsAsAsked` when they are allowed: a sweep beyond the band of
the unit (`wide sweep`, wraps around), symbols of `ram_psk` longer than the playback's rate (`slow symbols`,
`uart_cli.c:849`), and more symbols than the RAM has words (`long image`, the assertion of `ad9910/ram.c:26`).
`psk` and `zc_psk` send a symbol of 1 with the phase that `ram_psk` gives a 0; nothing says which is meant, and
`AskedAt` takes each as it is.

Read but without effect: `ad_set_secondary_amplitude()` (`ad9910/secondary.c:38`) takes the high
byte as `asf >> 5` where the field's layout suggests 6; the register is not used while
amplitudes come from the profiles, as `ad_init()` selects.

## 6. What is proved

TLAPS checks these for all values of the constants that satisfy the named assumptions of the
modules. Each proof is `Init => Inv`, `Inv /\ [Next]_vars => Inv'`, `Inv => P`, with one step per action.

* **`SequencerProofs!Typing`**: `TypeOK`, any tasks, entries and bounds, with TCP clients.
* **`SequencerProofs!UartReady`**, **`UartCoherent`**, **`UartSilent`**, **`UartLit`**: if there are no clients,
  `HandlesReady`, `Coherent`, `KilledStaysSilent`, and that the indicator is lit while something is radiated
  (`LedWhileRadiating`). None is inductive: `HandlesReady` needs to know at each
  start which handles have been started since `dma_abort()` (`HandlesOurs`) and that the counters stand
  still (`TimersStill`); `Coherent` needs that what was loaded so far is the entry fetched
  (`LoadedOurs`), and that there is a live entry to fetch unless the timers are in reset
  (`SequenceLive`); silence and indicator need what the last command left (`ModeKept`).
  The argument in one sentence: a stale callback can do any harm only to timers that are in reset.
* **`SequencerProofs!GatedBursts`**, **`GatedSafe`**, **`GatedTone`**, **`GatedUncut`**: if commands come one at a time and while the
  trigger is silent (`Gated`), for any number of clients: `BurstsStart`, all that is proved for the UART alone,
  `ToneHolds` and `CutsNothing`. The invariant (`Kept`) is about the one task that is not idle (`Alone`): for each of its steps
  it says where the timers are (`TimersKept`), which handles have been started and with what (`HandlesKept`, `LoadedKept`),
  that the sequence it fetches from is neither freed nor empty (`SequenceKept`), and what the last command
  left (`LeftBehind`). What makes it inductive is that with the gate no callback is pending when a command begins,
  the one thing that section 5 shows to go wrong without it.
* **`SequencerProofs!GatedTrain`**: likewise, `Spec` implies the safety of `Refines`. From `GatedInv` follows what phase and
  position the mapping gives at each step (`Mapped`); then each step is a step of `PulseTrain` or a stutter,
  one lemma for each.
* **`RegistersProofs!Emits`**, **`Silent`**, **`Sounds`**: `EmitsAsProgrammed`, `SilentUnlessAsked` and `ToneSounds` for any set of
  descriptors, if commands that radiate come between pulses (`~Anytime`, which `RegistersWrite` drops). The properties speak of the
  moment of emission only; the invariant says for every call of every script what has been put into the snapshot, what into the
  chip's buffers and what is active (`SwitchingAt`, `PreparingAt`, `Testing`), and between them what an armed pulse will take
  over (`Armed`). Registers a pulse does not set are the reason for it: the lemmas show that what is left over from
  any predecessor (image, ramp, limits) is either overwritten or switched off.
* **`TimersProofs!CallsBack`**: `OneCallPerPulse`, entries of any number of notes and notes however short. The
  exception it names, the entry of a single note, is real (`BlasterOneNote`). The invariant counts callbacks in the queue against the state of the stream and of the handler.
* **`TimersProofs!Released`**: `DmaInert`, from the same invariant: when a callback runs the stream has
  ended and its handle has been released.
* **`TimersProofs!InFull`**: the action property `EmittedInFull` for entries with two notes
  behind the last radiating one, since the stream is exactly one note ahead of the pins (`OneAhead`) and a callback
  implies a stream that is dry (`Queued`).
* **`EventsProofs!KeepsTime`**, **`Stamps`**: `ClockExact` and `StampSound` for every period. The
  invariant relates the time of the last edge to the capture register and its flag (`EdgeKnown`).
* **`EventsProofs!Counts`**: `CountsExact` for a queue of any length with anything in it when the command begins, if no event is
  lost (`Lossless`; `FollowDropped` shows what happens otherwise). The property speaks of the loop that watches; the invariant
  (`Watched`) also says what each step before it has established: after the first packet nothing is counted, and from the second
  purge on the history variable is the count and the unanswered triggers of the queue. The lemmas say what taking an event
  off the queue and pushing one do to that total.
* **`EventsProofs!Starts`**: `StartsOnPacket` for any queue, also one that drops events: while the command waits, a packet
  in the queue is one that came after the purge.
* **`TimersProofs!Exactly`**: `ExactlyAsAsked`, a series of any length. The invariant (`Counted`) is that
  the pulses given, what the countdown still has to do, and what the preloaded period still lets through
  make up the number asked for.
* **`LinesProofs!Bounded`**, **`Stable`**, **`Hangs`**: `InBounds`, `StableWhileParsing` and `OnlyFaultsHang` for a buffer
  of any size above 5, under `Person`: a person at a keyboard, whose lines do not reach the last two bytes of the
  buffer and who ends no line before the queue exists; the line may be noisy at any moment. The invariant: reception and execution take turns (`Alternate`), a
  transfer ends in front of the byte that stays zero (`Placed`), bytes come one at a time but
  behind one typed ahead (`OneByOne`), and what the callback would misread is not in the buffer (`Unsurprising`).
* **`LinesProofs!Typed`**: likewise, `LineAsTyped`. The history of the line is compared with the buffer at every moment: in front of
  the cursor is the line so far, and behind it zeros but for the byte rubbed out last (`Open`); other shapes hold while a byte waits for
  its callback (`Begun`) and while the line waits for `parse()` (`Ended`).
* **`LinesProofs!RunsLines`**: `RunsWhatWasSent`, and that the buffer of the reader is never found full (assertion of
  `server.c:69`), for a client that waits for the prompt (`Prompted`; `LinePipelined` shows what happens otherwise) and lines of any length
  that the buffer takes. The invariant (`Served`): there is one line at a time, its beginning in the buffer and its rest on the wire
  (`Arriving`), or all of it in the buffer (`Arrived`); a client that breaks off takes the rest with it.
* **`HeapProofs!NothingLost`**, **`NothingCut`**, **`Allocates`**: `Tiled`, `Joined` and `Refines` for a heap of any size, any number of tasks and
  blocks of any sizes. `Tiled` alone is not inductive, as an insertion looks for its place in the list. A heap
  is sound (`Sound`) if its blocks tile it, the list is in order of address (`Ordered`) and has all blocks but those in use and
  on their way to the list, and no two blocks of it touch. `malloc()`, `free()` and `realloc()` are then compositions of four
  steps (off the list, split, on the list, joined with the next), each of which keeps a heap sound but for neighbours
  that touch. In the refinement a block is given until the list has it, not until its bit is cleared.
* **`CommandsProofs!Tracking`** and **`CommandsProofs!TracksLists`**: `Tracks`, for documents of any depth and length, alone and
  among all commands. The invariant (`Here`) says for every point of a text what the three stacks hold: two
  scopes for each open container, one step of the path for each item that has begun, one counter for each
  container (`Stacked`, `Pathed`, `Counted`), and a token on top in a name, a string or a number. The lemmas say what each
  call of `json_enter()` and `json_leave()` does to these, then what each character does, then what each step does.
* **`CommandsProofs!Answering`** and **`AnswersLists`**: `Answers`, for documents of any depth and length in which no array is where a
  query asks for a name (`Shaped`; `CommandsWord` shows what happens otherwise). The property compares the numbers and counts a
  query has found with those the document has; that it is inductive takes two more facts. A query has a location only where the
  text has reached (`Located`: `Reached` says of a path whether its item has been begun, by the first container on it that is
  past it), or a path that comes up again could answer twice; and the containers hold what a well-formed text holds
  (`Orderly`: an array counts the items it has, a name that was written is used up). Paths are compared word by word
  (`json.c:332-350`), an index by its number; the lemma about it (`Hits`) takes the outermost word that was matched wrongly and
  finds that it would be a name asked of an array.
* **`CommandsProofs!NothingLeaks`**: `BlocksOwned`, for sequences of any length, as long as no frequency of zero is given (that is
  the leak of section 5). The blocks in use are three for each descriptor and one for each image (`Balance`): each command adds
  what it hands over and gives up what it has built when it refuses; a reset frees what the sequence holds.
* **`SignalsProofs!Fills`**: `ArraysFilled` for all arguments of all commands and every list of a text, without a hypothesis. The invariant is
  that every descriptor is `Filled`. The slots allocated are a sum of quotients and the notes written a recursive function, and it takes
  an induction for each to see that they agree: `Slots(t)` are as many notes as `Notes[t]` has, and the lengths of the parts add up
  to the length of the whole. That lists from JSON have numbers to be lowered is an invariant of its own (`Numbered`).
* **`SignalsProofs!Sounds`**: `SoundsAsAsked` for all arguments, any symbols and any lists of states, under the
  hypotheses of the run: operators make none of the mistakes named in `Slips`, and no
  array is asked for a name (`Shaped`). The counter is the one of the code, ARR + 1 ticks a note, and the tuning word of `zc_psk` is cut. Section 5 shows what each of them keeps out. The invariant
  (`AllRight`) is that each descriptor is `Right`: it can be loaded, and its signal is the one asked for at every moment. The argument has
  three parts. The notes of a state end together when the state does, to the period, because the tick divides every time and each adds one; so the
  state played at a moment is the last whose time has come (`InPulse` for a pulse with a lead, `InSymbols` for
  symbols, and the list as it is for `seq json`). A state gives one signal for all of its moments, that is its profile, or one that
  changes with the playback of an image or with the ramp, where the word or the step reached is a quotient of the time since
  (`SoundsLike`, `Rising`). And this signal is what the command was asked for, a lemma for each command (`SeqPulseRight`,
  `BasicPulseRight`, `SweepRight`, `FskRight`, `PskRight`, `ZcPskRight`, `RamPskRight`, `ListRight`). That a falling sweep is right although it is
  made of mirrored tuning words is part of `SweepRight`; that the list lowered is the one meant is `Answers`.

What folds and recursive functions compute needs induction, and the induction theorems of the library take a predicate as a
parameter, which the installed provers cannot instantiate. `SignalsProofs!Induction` is stated with a set in the place of the
predicate; its proof takes the least counterexample, which the library has for well-founded relations.

Some proofs failed at first for a reason in the model. In `Heap!Place` and in `Commands!AskedAt` the guards of a `CASE` overlapped,
where the code has an `if` with an `else`: TLC takes the first, but the definition allows any. Both are `IF` now.
The buffer of `UartRx` was compared with the line by a definition that builds the text; it now says which byte is where
(`Spells`), which is the same and can be reasoned about. Sums in `LowerLogic` and `Commands` were folds over prefixes and are now one
recursive function (`Sums`), and `Notes` had a bound on times that nothing needed. `Commands` allowed a RAM
of fewer words than the image of `zc_psk` has, which is three (`uart_cli.c:745`); `UnitsAssumption` says so now.

Assumed are only the constants' assumptions (`InitTaskAssumption`, `EntriesAssumption` and so on). TLC evaluates
each of them in the runs.

## 7. What is only model-checked

* Liveness (`Rearms`, `RoundRobin`, `Continues`, `StopsUnacked`, `CloseStops`, `PromptReturns`,
  `EveryLineRuns`, `MakesRoom`, `GivenInFull`): fairness and ENABLED are beyond the prover used.
* The liveness of `PulseTrain` in `Refines` of `Sequencer`; its safety is proved (`GatedTrain`).
* `Heap`: that the free byte count stays within the heap (part of `TypeOK`): it is a sum over all blocks.
* The configurations outside the hypotheses above (pasted text, lines ended early, ungated clients, `Anytime`,
  `Slips`), of which section 5 shows what they violate.

## 8. What is not modelled

* Data the properties do not distinguish: amplitudes and levels, bit layouts, pins other than those that select
  profiles 0 to 3 and DR_CTL, what is printed.
* The words of commands (`run()`, `scanf` formats, units): their parsing has no state.
* Of `seq json`, the values in a profile (frequencies, levels), and RAM profiles: they are filled in where no image
  is given (`uart_cli.c:1033`), and the callback then reads them as tones; what comes of it is the layout of a union.
* `calculate_sweep()` and `search_sweep_step_intervals()` (`algos.c`): no command uses them any more.
  `best_asf_fsc()` and the conversions of levels and units are floating point, which TLC has not.
* Timer B of the generator: its stream is fed with the same hold times as that of timer A.
* The output side of UART and TCP (`send_all()`, the redirection of `printf()`), the echo of what is typed.
* Of the start-up, everything but the order of reception and queue: peripherals are set up once and in a
  fixed order before any other task exists.
* FreeRTOS, FreeRTOS-Plus-TCP and the HAL are vendored. The firmware's use of them is modelled, and where
  the HAL's own states matter (`HAL_DMA_Start`, bursts, `HAL_TIM_IRQHandler`) its lines are mapped.
* `ethernet.c`, `leds.c`, `state.c`, `syscalls.c`, `performance.c`, traps and the idle hook: pure input and
  output or counters. The standalone CLI replaces the hardware by stubs.

## 9. The plan

Done, in this order: `Sequencer` with `PulseTrain`, `LogicBlaster`, `MasterTimer`, `LowerLogic`, `Follow`, `Heap`,
`UartRx`, `LineReader`, `RadarEmulator`, `Registers`; then the start-up in `UartRx`, the life of clients in
`LineReader`, `Json`, `Commands`, `Allocator`, and the proofs of section 6.

Left, proofs: none of what the prover can reach. Every invariant and every action property of the passing runs has a theorem, under
the hypotheses that section 6 names; liveness is out of reach.

Left, models: profiles and RAM profiles of `seq json`, once the loader reads an image; the second timer of
`LogicBlaster`.
