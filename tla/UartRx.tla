------------------------------- MODULE UartRx -------------------------------
(***************************************************************************)
(* The line editor of uart.c.  The UART receives into input_buffer by DMA  *)
(* until the line falls idle; the event callback, in an interrupt, looks   *)
(* at the last byte only: it resumes reception behind it, takes one back,  *)
(* or stops and queues parse(), which runs the line in the init task and   *)
(* starts afresh.  Offsets are into input_buffer.                          *)
(*                                                                         *)
(* It begins with the end of system_init(): reception is on, and the queue *)
(* of deferred calls is created once the network has been initialised.     *)
(***************************************************************************)
EXTENDS Integers, SequencesExt

CONSTANTS
  Size,       (* INPUT_BUFFER_SIZE (1024)                                  *)
  Chars,      (* the bytes that are neither a backspace nor a line end     *)
  Keyboard,   (* bytes come one at a time, the line idle after each        *)
  TypeAhead,  (* bytes come while a command is executed                    *)
  Short,      (* lines end before the last two bytes of the buffer         *)
  Early       (* lines are ended, or fill the buffer, before init_task()   *)
              (* has created the queue                                     *)

ASSUME SizeAssumption == Size \in Nat /\ Size > 4
ASSUME CharsAssumption == Chars \cap {"bs", "end", "nul"} = {}
ASSUME OperatorAssumption == {Keyboard, TypeAhead, Short, Early} \subseteq BOOLEAN

Bytes == Chars \cup {"bs", "end"}

VARIABLES
  buf,      (* input_buffer                                                *)
  start,    (* pRxBuffPtr: where the current transfer writes               *)
  len,      (* RxXferSize: bytes it may write                              *)
  got,      (* bytes it has written                                        *)
  rx,       (* RxState: "off", "on", or "starting" until the UART may use  *)
            (* the DMA stream                                              *)
  idle,     (* the IDLE flag is set, or will be if no byte follows         *)
  half,     (* the half transfer interrupt is yet to be handled            *)
  waiting,  (* the byte in the data register that nobody takes, if any     *)
  errors,   (* error flags: "overrun", and "noise" for the framing error   *)
            (* flag as well                                                *)
  queue,    (* calls of the deferred queue                                 *)
  cpu,      (* the init task: "booting", "free", "parsing", "restarting";  *)
            (* or "overrun", "assert" or "queueless", where it all spins    *)
  typed,    (* history: the line as the operator has edited it             *)
  ahead     (* history: the line starts with a byte that was typed ahead   *)

xfer == <<start, len, got, rx, idle, half>>
hist == <<typed, ahead>>
late == <<waiting, errors>>
vars == <<buf, xfer, late, queue, cpu, hist>>

TypeOK ==
  /\ buf \in [0 .. Size - 1 -> Bytes \cup {"nul"}]
  /\ start \in 0 .. Size - 1 /\ len \in 0 .. Size - 1 /\ got \in 0 .. len
  /\ rx \in {"off", "starting", "on"}
  /\ idle \in BOOLEAN /\ half \in BOOLEAN
  /\ waiting \in {<<>>} \cup {<<b>> : b \in Bytes} /\ errors \subseteq {"overrun", "noise"}
  /\ queue \in Seq({"parse", "overrun"})
  /\ cpu \in {"booting", "free", "parsing", "restarting", "overrun", "assert", "queueless"}
  /\ typed \in Seq(Chars) /\ ahead \in BOOLEAN

Cleared == [i \in 0 .. Size - 1 |-> "nul"]

\* After uart_cli_init(), in system_init().
Init ==
  /\ buf = Cleared /\ start = 0 /\ len = Size - 1 /\ got = 0
  /\ rx = "on" /\ idle = FALSE /\ half = FALSE
  /\ waiting = <<>> /\ errors = {} /\ queue = <<>> /\ cpu = "booting"
  /\ typed = <<>> /\ ahead = FALSE

Alive == cpu \notin {"overrun", "assert", "queueless"}

-----------------------------------------------------------------------------
(* Bytes.                                                                   *)

\* What the operator makes of a key.
Edited(b) == CASE b \in Chars -> Append(typed, b)
               [] b = "bs" /\ typed # <<>> -> Front(typed)
               [] OTHER -> typed

MaySend(b) ==
  /\ Alive
  /\ cpu = "booting" /\ ~Early => b # "end" /\ got + 1 < len
  /\ Keyboard => ~idle /\ ~half
  /\ Short /\ b = "end" => len > 2

\* A byte comes while the stream has room for it.
Receive(b) ==
  /\ MaySend(b) /\ rx = "on" /\ got < len
  /\ buf' = [buf EXCEPT ![start + got] = b]
  /\ got' = got + 1 /\ idle' = TRUE
  /\ half' = (half \/ 2 * got' \in {len, len + 1})
  /\ typed' = Edited(b)
  /\ UNCHANGED <<start, len, rx, late, queue, cpu, ahead>>

\* A byte comes while nothing is being received: a second one is lost.
Wait(b, flags) ==
  /\ rx # "on"
  /\ waiting' = IF waiting = <<>> THEN <<b>> ELSE waiting
  /\ errors' = errors \cup flags \cup (IF waiting = <<>> THEN {} ELSE {"overrun"})
  /\ UNCHANGED <<buf, xfer, queue, cpu, hist>>

\* The operator sends it.
ReceiveLate(b) == TypeAhead /\ MaySend(b) /\ Wait(b, {})

\* It is noise, or a byte that noise has changed.  Error interrupts are off
\* since the end of the line (stm32f7xx_hal_uart.c:2328), and the flag stays.
NoiseLate(b) == Alive /\ Wait(b, {"noise"})

-----------------------------------------------------------------------------
(* Interrupts.                                                              *)

\* HAL_UARTEx_ReceiveToIdle_DMA(): a transfer of n bytes to offset p.
Transfer(p, n) ==
  /\ start' = p /\ len' = n /\ got' = 0
  /\ rx' = "on" /\ idle' = FALSE /\ half' = FALSE

\* restart_rx() in an interrupt.
RestartRx == buf' = Cleared /\ Transfer(0, Size - 1)

last == start + got - 1
Remains == len - got

\* Mutant: reception resumes although the line has ended.
OnEventResumes ==
  IF buf[last] = "bs"
  THEN IF last = 0
       THEN RestartRx
       ELSE buf' = [buf EXCEPT ![last] = "nul"] /\ Transfer(last - 2 + got, Remains + 1)
  ELSE UNCHANGED buf /\ Transfer(start + got, Remains)

\* Mutant: the erased byte stays in the buffer.
OnEventKeeps ==
  IF buf[last] = "bs"
  THEN IF last = 0
       THEN RestartRx
       ELSE buf' = [buf EXCEPT ![last] = "nul"] /\ Transfer(last - 1 + got, Remains + 1)
  ELSE IF buf[last] = "end"
       THEN rx' = "off" /\ idle' = FALSE /\ UNCHANGED <<buf, start, len, got, half>>
       ELSE UNCHANGED buf /\ Transfer(start + got, Remains)

\* Mutant: two bytes are given back where the transfer moves back by one.
OnEventRoomy ==
  IF buf[last] = "bs"
  THEN IF last = 0
       THEN RestartRx
       ELSE buf' = [buf EXCEPT ![last] = "nul"] /\ Transfer(last - 2 + got, Remains + 3)
  ELSE IF buf[last] = "end"
       THEN rx' = "off" /\ idle' = FALSE /\ UNCHANGED <<buf, start, len, got, half>>
       ELSE UNCHANGED buf /\ Transfer(start + got, Remains)

\* HAL_UARTEx_RxEventCallback() when reception has stopped short of the end
\* of the buffer.  A backspace at the start of the buffer restarts it; another
\* one is cleared and reception resumes on the byte in front of it, `got - 1`
\* bytes further if it did not come alone.
OnEvent ==
  IF buf[last] = "bs"
  THEN IF last = 0
       THEN RestartRx
       ELSE buf' = [buf EXCEPT ![last] = "nul"] /\ Transfer(last - 2 + got, Remains + 1)
  ELSE IF buf[last] = "end"
       THEN rx' = "off" /\ idle' = FALSE /\ UNCHANGED <<buf, start, len, got, half>>
       ELSE UNCHANGED buf /\ Transfer(start + got, Remains)

\* run_later() of the callback: before the queue exists, the kernel asserts
\* that it does, and spins with interrupts disabled.
RunLater == cpu' = IF cpu = "booting" THEN "queueless" ELSE cpu

\* The queue after it.
Queued == IF Remains = 0 THEN Append(queue, "overrun")
          ELSE IF buf[last] = "end" THEN Append(queue, "parse")
          ELSE queue

\* The line is idle: HAL_UART_IRQHandler() ends the transfer.
Idle ==
  /\ Alive /\ rx = "on" /\ idle /\ ~half /\ 0 < got /\ got < len
  /\ queue' = Queued
  /\ OnEvent
  /\ IF Queued # queue THEN RunLater ELSE UNCHANGED cpu
  /\ UNCHANGED <<late, hist>>

\* The stream is half way, which does not end the transfer: to resume
\* reception is refused, but a backspace is cleared and parse() queued.
Half ==
  /\ Alive /\ rx = "on" /\ half /\ got < len
  /\ half' = FALSE
  /\ queue' = Queued
  /\ buf' = IF buf[last] = "bs" /\ last # 0 THEN [buf EXCEPT ![last] = "nul"] ELSE buf
  /\ IF Queued # queue THEN RunLater
     ELSE cpu' = IF buf[last] = "bs" /\ last = 0 THEN "assert" ELSE cpu
  /\ UNCHANGED <<start, len, got, rx, idle, late, hist>>

\* The transfer is complete: there is no room for another byte.
Complete ==
  /\ Alive /\ rx = "on" /\ got = len
  /\ rx' = "off" /\ idle' = FALSE /\ half' = FALSE
  /\ queue' = Queued
  /\ RunLater
  /\ UNCHANGED <<buf, start, len, got, late, hist>>

\* Noise on the line during reception: the transfer is aborted,
\* HAL_UART_ErrorCallback() says so and restarts reception with an empty line.
Noise ==
  /\ Alive /\ rx = "on" /\ got < len
  /\ RestartRx
  /\ typed' = <<>> /\ ahead' = FALSE
  /\ UNCHANGED <<late, queue, cpu>>

\* An error flag is up when restart_rx() has claimed the receiver and enabled
\* error interrupts.  The error callback restarts reception as well: if it
\* comes before the UART may use the stream, it finds the receiver busy (a
\* noisy byte) or the stream claimed (an overrun) and its assertion fails; if
\* it comes later, the transfer is aborted first.
Fault ==
  /\ Alive /\ rx = "starting" /\ errors # {}
  /\ \/ cpu' = "assert" /\ UNCHANGED <<buf, xfer, late, hist>>
     \/ cpu' = "free" /\ RestartRx /\ waiting' = <<>> /\ errors' = {}
        /\ typed' = <<>> /\ ahead' = FALSE
  /\ UNCHANGED queue

-----------------------------------------------------------------------------
(* The init task.                                                           *)

\* network_init() is over and init_deferred_daemon() creates the queue.
Boot == cpu = "booting" /\ cpu' = "free" /\ UNCHANGED <<buf, xfer, late, queue, hist>>

\* deferred_daemon_run_all(); input_overrun_error() spins.
RunDeferred ==
  /\ cpu = "free" /\ queue # <<>>
  /\ queue' = Tail(queue)
  /\ cpu' = IF Head(queue) = "parse" THEN "parsing" ELSE "overrun"
  /\ UNCHANGED <<buf, xfer, late, hist>>

\* Mutant: reception is not restarted.
ParseForgets ==
  /\ cpu = "parsing"
  /\ cpu' = "free"
  /\ UNCHANGED <<buf, xfer, late, queue, hist>>

\* parse(): the commands of the buffer have been executed; restart_rx() clears
\* it, and its assertion requires that nothing is being received.
Parse ==
  /\ cpu = "parsing"
  /\ buf' = Cleared
  /\ IF rx # "off"
     THEN cpu' = "assert" /\ UNCHANGED <<xfer, hist>>
     ELSE /\ cpu' = "restarting" /\ rx' = "starting"
          /\ typed' = <<>> /\ ahead' = FALSE
          /\ start' = 0 /\ len' = Size - 1 /\ got' = 0 /\ half' = FALSE /\ UNCHANGED idle
  /\ UNCHANGED <<late, queue>>

\* The UART may use the stream, which takes a byte that waits; the IDLE flag
\* is cleared.
Started ==
  /\ cpu = "restarting" /\ errors = {}
  /\ cpu' = "free" /\ rx' = "on" /\ idle' = FALSE
  /\ IF waiting = <<>>
     THEN UNCHANGED <<buf, got, hist>>
     ELSE /\ buf' = [buf EXCEPT ![0] = waiting[1]] /\ got' = 1
          /\ typed' = Edited(waiting[1]) /\ ahead' = TRUE
  /\ waiting' = <<>>
  /\ UNCHANGED <<start, len, half, errors, queue>>

Task == Boot \/ RunDeferred \/ Parse \/ Started

Next ==
  \/ \E b \in Bytes : Receive(b) \/ ReceiveLate(b) \/ NoiseLate(b)
  \/ Idle \/ Half \/ Complete \/ Noise \/ Fault
  \/ Task

\* Interrupts are taken and the init task runs; nobody promises a byte.
Fairness ==
  /\ WF_vars(Idle) /\ WF_vars(Half) /\ WF_vars(Complete) /\ WF_vars(Fault)
  /\ WF_vars(Task)

Spec == Init /\ [][Next]_vars /\ Fairness

-----------------------------------------------------------------------------
(* Properties.                                                              *)

\* Where the C string in the buffer has its characters, line ends left out.
Text == {k \in 0 .. Size - 1 : buf[k] # "end" /\ \A i \in 0 .. k : buf[i] # "nul"}

\* They are, in order, those of s.
Spells(s) ==
  /\ Len(s) = Cardinality(Text)
  /\ \A k \in Text : s[Cardinality({i \in Text : i <= k})] = buf[k]

\* parse() runs the line as the operator has edited it, whatever was typed and
\* taken back on the way.  A byte typed ahead raises no event of its own: if
\* it is a backspace, or one follows it, it counts as text.
LineAsTyped == cpu = "parsing" /\ ~ahead => Spells(typed)

\* Reception writes to the buffer only, and leaves the zero at its end that
\* ends the string.
InBounds == start + len < Size

\* restart_rx() always finds the receiver at rest (assert of uart.c:73), and
\* run_later() the queue.
NoAssertionFails == cpu \notin {"assert", "queueless"}

\* The one way it does not: an error of the line, an overrun or noise, whose
\* flag was set while a command was executed.  Clean bytes, a backspace, a line
\* end and noise during reception always leave a receiver that can be
\* restarted, and a line that is ended a queue to put it on.  (assert of
\* uart.c:73)
OnlyFaultsHang == NoAssertionFails \/ errors # {}

\* Nothing is received from the end of a line until it has been executed.
\* (uart.c:170 "Ensure that memory will remain unchanged while parsing")
StableWhileParsing == cpu = "parsing" \/ Contains(queue, "parse") => rx = "off"

\* The prompt comes back after a command, unless that assertion has failed.
PromptReturns ==
  (cpu = "parsing") ~> ((rx = "on" /\ cpu = "free") \/ ~NoAssertionFails)
=============================================================================
