----------------------------- MODULE LinesProofs -----------------------------
(***************************************************************************)
(* Proofs about the two readers of lines: the line editor behind the UART  *)
(* (UartRx), and the reader of a TCP client (LineReader), for buffers of   *)
(* any size.                                                               *)
(***************************************************************************)
EXTENDS UartRx, LineReader, SequenceTheorems, FiniteSetTheorems, TLAPS

(***************************************************************************)
(* The line editor.  For a person at a keyboard, and a buffer of any size: *)
(* reception stays in the buffer, nothing is received while a line waits   *)
(* or is executed, no assertion fails unless an overrun or noise has left  *)
(* its flag during a command, and what is executed is the line as it was   *)
(* edited.                                                                 *)
(***************************************************************************)

Person == Keyboard /\ Short /\ ~Early /\ Size > 5

-----------------------------------------------------------------------------
(* The invariant.                                                           *)

Types ==
  /\ start \in Nat /\ len \in Nat /\ got \in Nat
  /\ rx \in {"off", "starting", "on"}
  /\ cpu \in {"booting", "free", "parsing", "restarting", "overrun", "assert", "queueless"}
Flags == idle \in BOOLEAN /\ half \in BOOLEAN
Cells == buf \in [0 .. Size - 1 -> Bytes \cup {"nul"}]
Late == waiting \in {<<>>} \cup {<<b>> : b \in Bytes}

\* Reception and execution take turns: a call is queued only when reception
\* has stopped, and one at most.
Alternate ==
  /\ queue \in {<<>>, <<"parse">>, <<"overrun">>}
  /\ rx # "off" => queue = <<>> /\ cpu # "parsing"
  /\ cpu \in {"parsing", "restarting"} => queue = <<>>
  /\ rx = "starting" => cpu \in {"restarting", "assert"} /\ start = 0 /\ len = Size - 1
  /\ cpu = "restarting" => rx = "starting"

\* A transfer ends in front of the last byte, which stays zero; one that has
\* little room does not start at the beginning of the buffer.
Placed ==
  /\ start + len < Size
  /\ len > 0
  /\ len < 3 => start > 0

\* Bytes come one at a time; a second one only behind one that was typed
\* ahead, in a transfer of the whole buffer.
OneByOne ==
  /\ got <= 2 /\ got <= len
  /\ rx = "on" /\ got = 2 => start = 0 /\ len = Size - 1 /\ idle = TRUE
  /\ rx = "on" /\ got = 1 /\ idle = FALSE => start = 0 /\ len = Size - 1
  /\ half = TRUE => got = 1 /\ len < 3
  /\ rx = "starting" => got = 0

\* What the last byte is not, where it would surprise the event callback: it
\* sees a backspace at half transfer first, and clears it.
Unsurprising ==
  rx = "on" /\ got = 1 /\ len < 3 =>
    /\ buf[start] # "end"
    /\ half = FALSE /\ len = 2 => buf[start] # "bs"

\* Before the queue exists no line is ended and no transfer completed.
Booting ==
  cpu = "booting" =>
    /\ rx = "on" /\ got < len
    /\ got > 0 => buf[start + got - 1] # "end"

\* The only assertion that has failed is that of restart_rx().
Excused == cpu # "queueless" /\ (cpu = "assert" => errors # {})

IInv == Types /\ Flags /\ Cells /\ Late /\ Alternate /\ Placed /\ OneByOne
        /\ Unsurprising /\ Booting /\ Excused

-----------------------------------------------------------------------------
(* What is in the buffer, unless the line began with a byte typed ahead.    *)

\* From offset n it is clear.
Clear(n) == \A i \in n .. Size - 1 : buf[i] = "nul"

\* Its first n bytes are the line.
Spelt(n) == Len(typed) = n /\ \A i \in 0 .. n - 1 : buf[i] = typed[i + 1]

\* The next byte goes behind the line; there may be the one that was rubbed
\* out last, but nothing behind it.
Open == Spelt(start) /\ Clear(start + 1)

\* A byte has come.
Begun ==
  /\ Clear(start + 1) /\ buf[start] \in Bytes
  /\ buf[start] \in Chars => Spelt(start + 1)
  /\ buf[start] = "bs" => IF start = 0 THEN typed = <<>> ELSE Spelt(start - 1)
  /\ buf[start] = "end" => Spelt(start)

\* The line has been ended.
Ended == Clear(start + 1) /\ buf[start] = "end" /\ Spelt(start) /\ start + 1 < Size

\* The line is there as long as there is room for its end.
LineInv ==
  /\ typed \in Seq(Chars) /\ ahead \in BOOLEAN
  /\ rx = "on" /\ (got = 2 \/ (got = 1 /\ idle = FALSE)) => ahead = TRUE
  /\ ahead = FALSE =>
       /\ rx = "starting" \/ (rx = "on" /\ got = 0 /\ len > 2) => Open
       /\ rx = "on" /\ got = 1 /\ len > 2 => Begun
       /\ queue = <<"parse">> \/ cpu = "parsing" => Ended

LEMMA Kinds == "bs" # "end" /\ "nul" \notin Bytes /\ "bs" \in Bytes
BY CharsAssumption DEF Bytes

-----------------------------------------------------------------------------
(* Bytes.                                                                   *)

LEMMA ReceiveKeeps ==
  ASSUME Person, IInv, NEW b \in Bytes, Receive(b)
  PROVE  IInv'
<1>1. idle = FALSE /\ half = FALSE
  BY Zenon DEF Receive, MaySend, Person, IInv, Flags
<1>2. /\ b = "end" => len > 2
      /\ cpu = "booting" => b # "end" /\ got + 1 < len
  BY Zenon DEF Receive, MaySend, Person
<1>3. rx = "on" /\ got < len /\ got' = got + 1
  BY DEF Receive
<1>4. /\ start' = start /\ len' = len /\ rx' = rx /\ waiting' = waiting /\ errors' = errors /\ queue' = queue
      /\ cpu' = cpu /\ buf' = [buf EXCEPT ![start + got] = b]
  BY DEF late, Receive
<1>5. idle' = TRUE
  BY Zenon DEF Receive
<1>6. got = 0 \/ (got = 1 /\ start = 0 /\ len = Size - 1)
  BY <1>1, <1>3 DEF IInv, OneByOne, Types
<1>7. half' \in BOOLEAN
  BY Zenon DEF Receive
<1>8. half' = TRUE => got = 0 /\ len < 3
  <2>1. ~(got = 0 /\ len < 3) => ~(2 * got' \in {len, len + 1})
    BY <1>3, <1>6, SizeAssumption DEF IInv, Types, Person
  <2>2. ~(2 * got' \in {len, len + 1}) => half' = FALSE
    BY <1>1, Zenon DEF Receive
  <2> QED BY <2>1, <2>2
<1>9. got = 0 /\ len = 2 => half' = TRUE
  <2>1. got = 0 /\ len = 2 => 2 * got' \in {len, len + 1}
    BY <1>3
  <2>2. 2 * got' \in {len, len + 1} => half' = TRUE
    BY Zenon DEF Receive
  <2> QED BY <2>1, <2>2
<1>10. start + got \in 0 .. Size - 1
  BY <1>3, SizeAssumption DEF IInv, Types, Placed
<1>11. Types' /\ Flags' /\ Cells' /\ Late'
  <2>1. Cells'
    BY <1>4, <1>10 DEF IInv, Cells
  <2>2. Late'
    BY <1>4 DEF IInv, Late
  <2>3. Flags'
    BY <1>5, <1>7, Zenon DEF Flags
  <2> QED BY <1>3, <1>4, <2>1, <2>2, <2>3 DEF IInv, Types
<1>12. buf'[start + got] = b
  BY <1>4, <1>10 DEF IInv, Cells
<1>13. OneByOne'
  BY <1>3, <1>4, <1>5, <1>6, <1>8 DEF OneByOne, IInv, Types
<1>14. Unsurprising'
  <2>1. SUFFICES ASSUME got' = 1, len' < 3
                 PROVE  buf'[start'] # "end" /\ (half' = FALSE /\ len' = 2 => buf'[start'] # "bs")
    BY DEF Unsurprising
  <2>2. got = 0 /\ len < 3 /\ buf'[start'] = b
    BY <1>3, <1>4, <1>12, <2>1 DEF IInv, Types
  <2> QED BY <1>2, <1>4, <1>9, <2>2 DEF IInv, Types
<1>15. Booting'
  BY <1>2, <1>3, <1>4, <1>12 DEF IInv, Types, Booting
<1>16. Alternate' /\ Placed' /\ Excused'
  BY <1>3, <1>4 DEF IInv, Alternate, Placed, Excused
<1> QED BY <1>11, <1>13, <1>14, <1>15, <1>16 DEF IInv

LEMMA WaitKeeps ==
  ASSUME IInv, NEW b \in Bytes, NEW flags, Alive, Wait(b, flags)
  PROVE  IInv'
<1>1. Late' /\ cpu # "assert"
  BY DEF Wait, Alive, IInv, Late
<1>2. /\ buf' = buf /\ start' = start /\ len' = len /\ got' = got /\ rx' = rx
      /\ idle' = idle /\ half' = half /\ queue' = queue /\ cpu' = cpu
  BY DEF Wait, xfer
<1> QED BY <1>1, <1>2
    DEF IInv, Types, Flags, Cells, Alternate, Placed, OneByOne, Unsurprising, Booting, Excused

-----------------------------------------------------------------------------
(* Interrupts.                                                              *)

\* A transfer of all of a cleared buffer has begun.
Fresh == buf' = Cleared /\ start' = 0 /\ len' = Size - 1 /\ got' = 0 /\ rx' = "on"
         /\ idle' = FALSE /\ half' = FALSE

LEMMA FreshKeeps ==
  ASSUME Person, IInv, Fresh, queue' = queue, queue = <<>>, Late',
         cpu' \in {"free", "booting"}
  PROVE  IInv'
<1>1. Cells'
  BY DEF Fresh, Cleared, Cells
<1>2. Types'
  BY SizeAssumption DEF Fresh, Types
<1>3. Flags'
  BY Zenon DEF Fresh, Flags
<1> QED BY <1>1, <1>2, <1>3, SizeAssumption
    DEF Person, IInv, Fresh, Alternate, Placed, OneByOne, Unsurprising, Booting, Excused

LEMMA IdleKeeps ==
  ASSUME Person, IInv, Idle
  PROVE  IInv'
<1> USE SizeAssumption DEF Person
<1>1. /\ rx = "on" /\ idle = TRUE /\ half = FALSE /\ 0 < got /\ got < len /\ queue = <<>>
      /\ cpu \in {"free", "booting"} /\ waiting' = waiting /\ errors' = errors
  BY DEF late, Idle, Alive, IInv, Types, Flags, Alternate, Excused
<1>2. last \in 0 .. Size - 1 /\ last = start + got - 1 /\ Remains # 0
  BY <1>1 DEF last, Remains, IInv, Types, Placed
<1>3. got = 1 \/ (got = 2 /\ start = 0 /\ len = Size - 1)
  BY <1>1 DEF IInv, OneByOne, Types
<1>4. CASE buf[last] = "bs" /\ last = 0
  <2>1. Queued = queue
    BY <1>2, <1>4, Kinds DEF Queued
  <2>2. Fresh /\ cpu' = cpu /\ queue' = queue
    BY <1>4, <2>1 DEF Idle, OnEvent, RestartRx, Transfer, Fresh
  <2>3. Late'
    BY <1>1 DEF IInv, Late
  <2> QED BY <1>1, <2>2, <2>3, FreshKeeps
<1>5. CASE buf[last] = "bs" /\ last # 0
  <2>1. Queued = queue
    BY <1>2, <1>5, Kinds DEF Queued
  <2>2. /\ buf' = [buf EXCEPT ![last] = "nul"] /\ start' = last - 2 + got /\ len' = len - got + 1
        /\ got' = 0 /\ rx' = "on" /\ idle' = FALSE /\ half' = FALSE
        /\ cpu' = cpu /\ queue' = queue
    BY <1>5, <2>1 DEF Idle, OnEvent, Transfer, Remains
  <2>3. got = 1 => start > 0 /\ start' = start - 1 /\ len' = len /\ len > 2
    BY <1>1, <1>2, <1>5, <2>2 DEF IInv, Types, Unsurprising
  <2>4. got = 2 => start' = 1 /\ len' = Size - 2
    BY <1>2, <1>3, <2>2
  <2>5. Placed' /\ start' \in Nat /\ len' \in Nat
    BY <1>1, <1>3, <2>3, <2>4 DEF IInv, Types, Placed
  <2>6. Types' /\ Flags' /\ Cells' /\ Late'
    <3>1. Types'
      BY <1>1, <2>2, <2>5 DEF IInv, Types
    <3>2. Cells'
      BY <1>2, <2>2 DEF IInv, Cells
    <3>3. Late'
      BY <1>1 DEF IInv, Late
    <3>4. Flags'
      BY <2>2, Zenon DEF Flags
    <3> QED BY <3>1, <3>2, <3>3, <3>4
  <2>7. OneByOne' /\ Unsurprising' /\ Booting'
    BY <1>1, <2>2, <2>5 DEF OneByOne, Unsurprising, Booting, Placed
  <2> QED BY <1>1, <2>2, <2>5, <2>6, <2>7 DEF IInv, Alternate, Excused
<1>6. CASE buf[last] = "end"
  <2>1. cpu = "free"
    BY <1>1, <1>2, <1>6 DEF IInv, Booting
  <2>2. Queued = <<"parse">>
    BY <1>1, <1>2, <1>6 DEF Queued
  <2>3. /\ buf' = buf /\ start' = start /\ len' = len /\ got' = got /\ half' = half
        /\ rx' = "off" /\ idle' = FALSE /\ queue' = <<"parse">> /\ cpu' = cpu
    BY <1>6, <2>1, <2>2, Kinds DEF Idle, OnEvent, RunLater
  <2>4. Types' /\ Flags' /\ Cells' /\ Late'
    <3>1. Flags'
      BY <2>3, Zenon DEF IInv, Flags
    <3> QED BY <1>1, <2>3, <3>1 DEF IInv, Types, Cells, Late
  <2>5. Alternate' /\ Placed' /\ OneByOne'
    BY <1>1, <1>3, <2>1, <2>3 DEF IInv, Alternate, Placed, OneByOne, Types
  <2>6. Unsurprising' /\ Booting' /\ Excused'
    BY <1>1, <2>1, <2>3 DEF IInv, Unsurprising, Booting, Excused
  <2> QED BY <2>4, <2>5, <2>6 DEF IInv
<1>7. CASE buf[last] # "bs" /\ buf[last] # "end"
  <2>1. Queued = queue
    BY <1>2, <1>7 DEF Queued
  <2>2. /\ buf' = buf /\ start' = start + got /\ len' = len - got
        /\ got' = 0 /\ rx' = "on" /\ idle' = FALSE /\ half' = FALSE
        /\ cpu' = cpu /\ queue' = queue
    BY <1>7, <2>1 DEF Idle, OnEvent, Transfer, Remains
  <2>3. Placed' /\ start' \in Nat /\ len' \in Nat
    BY <1>1, <2>2 DEF IInv, Types, Placed
  <2>4. Types' /\ Flags' /\ Cells' /\ Late'
    <3>1. Flags'
      BY <2>2, Zenon DEF Flags
    <3> QED BY <1>1, <2>2, <2>3, <3>1 DEF IInv, Types, Cells, Late
  <2>5. OneByOne' /\ Unsurprising' /\ Booting'
    BY <1>1, <2>2, <2>3 DEF OneByOne, Unsurprising, Booting, Placed
  <2> QED BY <1>1, <2>2, <2>3, <2>4, <2>5 DEF IInv, Alternate, Excused
<1> QED BY <1>4, <1>5, <1>6, <1>7

LEMMA HalfKeeps ==
  ASSUME Person, IInv, Half
  PROVE  IInv'
<1> USE SizeAssumption DEF Person
<1>1. /\ rx = "on" /\ half = TRUE /\ got = 1 /\ 1 < len /\ len < 3 /\ queue = <<>>
      /\ cpu \in {"free", "booting"}
  BY DEF Half, Alive, IInv, Types, Flags, Alternate, OneByOne
<1>2. last = start /\ start \in 1 .. Size - 1 /\ Remains # 0
  BY <1>1 DEF last, Remains, IInv, Types, Placed
<1>3. buf[start] # "end"
  BY <1>1 DEF IInv, Unsurprising
<1>4. Queued = queue
  BY <1>2, <1>3 DEF Queued
<1>5. /\ start' = start /\ len' = len /\ got' = got /\ rx' = rx /\ idle' = idle /\ half' = FALSE
      /\ queue' = queue /\ waiting' = waiting /\ errors' = errors /\ cpu' = cpu
  BY <1>2, <1>4 DEF late, Half
<1>6. buf' = IF buf[start] = "bs" THEN [buf EXCEPT ![start] = "nul"] ELSE buf
  BY <1>2 DEF Half
<1>7. Types' /\ Flags' /\ Cells' /\ Late'
  <2>1. Cells'
    BY <1>2, <1>6 DEF IInv, Cells
  <2>2. Late'
    BY <1>5 DEF IInv, Late
  <2>3. Flags'
    BY <1>5, Zenon DEF IInv, Flags
  <2> QED BY <1>5, <2>1, <2>2, <2>3 DEF IInv, Types
<1>8. buf'[start] \notin {"end", "bs"}
  BY <1>2, <1>3, <1>6, Kinds DEF IInv, Cells
<1>9. Unsurprising' /\ Booting'
  BY <1>1, <1>2, <1>5, <1>8 DEF Unsurprising, Booting
<1>10. Alternate' /\ Placed' /\ OneByOne' /\ Excused'
  BY <1>1, <1>5 DEF IInv, Types, Alternate, Placed, OneByOne, Excused
<1> QED BY <1>7, <1>9, <1>10 DEF IInv

LEMMA CompleteKeeps ==
  ASSUME Person, IInv, Complete
  PROVE  IInv'
<1> USE SizeAssumption DEF Person
<1>1. /\ rx = "on" /\ got = len /\ queue = <<>> /\ Remains = 0 /\ cpu = "free"
  BY DEF Complete, Alive, Remains, IInv, Types, Alternate, Booting
<1>2. got = 1 \/ got = 2
  BY <1>1 DEF IInv, Types, Placed, OneByOne
<1>3. /\ buf' = buf /\ start' = start /\ len' = len /\ got' = got /\ waiting' = waiting /\ errors' = errors
      /\ rx' = "off" /\ idle' = FALSE /\ half' = FALSE /\ queue' = <<"overrun">> /\ cpu' = "free"
  BY <1>1 DEF late, Complete, Queued, RunLater
<1>4. OneByOne'
  BY <1>1, <1>2, <1>3 DEF OneByOne
<1>5. Types' /\ Flags' /\ Cells' /\ Late'
  <2>1. Flags'
    BY <1>3, Zenon DEF Flags
  <2> QED BY <1>3, <2>1 DEF IInv, Types, Cells, Late
<1>6. Alternate' /\ Placed' /\ Unsurprising' /\ Booting' /\ Excused'
  BY <1>1, <1>3 DEF IInv, Types, Alternate, Placed, Unsurprising, Booting, Excused
<1> QED BY <1>4, <1>5, <1>6 DEF IInv

LEMMA NoiseKeeps ==
  ASSUME Person, IInv, Noise
  PROVE  IInv'
<1>1. queue = <<>> /\ cpu \in {"free", "booting"}
  BY DEF Noise, Alive, IInv, Types, Alternate
<1>2. Fresh /\ queue' = queue /\ waiting' = waiting /\ errors' = errors /\ cpu' = cpu
  BY DEF late, Noise, RestartRx, Transfer, Fresh
<1>3. Late'
  BY <1>2 DEF IInv, Late
<1> QED BY <1>1, <1>2, <1>3, FreshKeeps

LEMMA FaultKeeps ==
  ASSUME Person, IInv, Fault
  PROVE  IInv'
<1>1. rx = "starting" /\ queue = <<>> /\ errors # {} /\ queue' = queue
  BY DEF Fault, IInv, Alternate
<1>2. CASE cpu' = "assert" /\ UNCHANGED <<buf, xfer, late, hist>>
  <2>1. /\ buf' = buf /\ start' = start /\ len' = len /\ got' = got /\ rx' = rx
        /\ idle' = idle /\ half' = half /\ waiting' = waiting /\ errors' = errors
    BY <1>2 DEF xfer, late
  <2>2. Flags' /\ Cells' /\ Late'
    BY <2>1 DEF IInv, Flags, Cells, Late
  <2> QED BY <1>1, <1>2, <2>1, <2>2
      DEF IInv, Types, Alternate, Placed, OneByOne, Unsurprising, Booting, Excused
<1>3. CASE cpu' = "free" /\ RestartRx /\ waiting' = <<>>
  <2>1. Fresh
    BY <1>3 DEF RestartRx, Transfer, Fresh
  <2>2. Late'
    BY <1>3 DEF Late
  <2> QED BY <1>1, <1>3, <2>1, <2>2, FreshKeeps
<1> QED BY <1>2, <1>3 DEF Fault

-----------------------------------------------------------------------------
(* The init task.                                                           *)

LEMMA BootKeeps ==
  ASSUME IInv, Boot
  PROVE  IInv'
<1>1. /\ buf' = buf /\ start' = start /\ len' = len /\ got' = got /\ rx' = rx /\ idle' = idle
      /\ half' = half /\ waiting' = waiting /\ errors' = errors /\ queue' = queue /\ cpu = "booting" /\ cpu' = "free"
  BY DEF Boot, xfer, late
<1>2. Flags' /\ Cells' /\ Late'
  BY <1>1 DEF IInv, Flags, Cells, Late
<1> QED BY <1>1, <1>2
    DEF IInv, Types, Alternate, Placed, OneByOne, Unsurprising, Booting, Excused

LEMMA RunDeferredKeeps ==
  ASSUME IInv, RunDeferred
  PROVE  IInv'
<1>1. /\ buf' = buf /\ start' = start /\ len' = len /\ got' = got /\ rx' = rx /\ idle' = idle
      /\ half' = half /\ waiting' = waiting /\ errors' = errors
  BY DEF RunDeferred, xfer, late
<1>2. /\ queue # <<>> /\ rx = "off" /\ queue' = <<>>
      /\ cpu = "free" /\ cpu' \in {"parsing", "overrun"}
  <2>1. queue # <<>> /\ queue \in {<<"parse">>, <<"overrun">>}
    BY DEF RunDeferred, IInv, Alternate
  <2>2. queue' = <<>>
    <3>0. queue' = Tail(queue)
      BY DEF RunDeferred
    <3>1. queue \in Seq({"parse", "overrun"}) /\ Len(queue) = 1 /\ queue' = Tail(queue)
      <4>1. CASE queue = <<"parse">>
        BY <3>0, <4>1
      <4>2. CASE queue = <<"overrun">>
        BY <3>0, <4>2
      <4> QED BY <2>1, <4>1, <4>2
    <3>2. queue' \in Seq({"parse", "overrun"}) /\ Len(queue') = 0
      BY <2>1, <3>1, HeadTailProperties
    <3> QED BY <3>2, EmptySeq
  <2> QED BY <2>1, <2>2 DEF RunDeferred, IInv, Types, Alternate
<1>3. Flags' /\ Cells' /\ Late'
  BY <1>1 DEF IInv, Flags, Cells, Late
<1> QED BY <1>1, <1>2, <1>3
    DEF IInv, Types, Alternate, Placed, OneByOne, Unsurprising, Booting, Excused

\* The line was ended, so that nothing is being received.
LEMMA ParseKeeps ==
  ASSUME Person, IInv, Parse
  PROVE  IInv'
<1> USE SizeAssumption DEF Person
<1>1. rx = "off" /\ queue = <<>> /\ cpu = "parsing"
  BY DEF Parse, IInv, Types, Alternate
<1>2. /\ buf' = Cleared /\ cpu' = "restarting" /\ rx' = "starting" /\ start' = 0
      /\ len' = Size - 1 /\ got' = 0 /\ half' = FALSE /\ idle' = idle
      /\ waiting' = waiting /\ errors' = errors /\ queue' = queue
  BY <1>1 DEF late, Parse
<1>3. Cells' /\ Late'
  <2>1. Cells'
    BY <1>2 DEF Cells, Cleared
  <2>2. Late'
    BY <1>2 DEF IInv, Late
  <2> QED BY <2>1, <2>2
<1>4. Types'
  BY <1>2, SizeAssumption DEF IInv, Types
<1>5. Flags'
  BY <1>2, Zenon DEF IInv, Flags
<1> QED BY <1>1, <1>2, <1>3, <1>4, <1>5
    DEF IInv, Alternate, Placed, OneByOne, Unsurprising, Booting, Excused

LEMMA StartedKeeps ==
  ASSUME Person, IInv, Started
  PROVE  IInv'
<1> USE SizeAssumption DEF Person
<1>1. /\ rx = "starting" /\ queue = <<>> /\ start = 0 /\ len = Size - 1 /\ got = 0
      /\ cpu = "restarting"
  BY DEF Started, IInv, Alternate, OneByOne
<1>2. /\ cpu' = "free" /\ rx' = "on" /\ idle' = FALSE /\ start' = start /\ len' = len
      /\ half' = half /\ queue' = queue /\ waiting' = <<>>
  BY DEF Started
<1>3. got' \in {0, 1} /\ Cells' /\ Late'
  <2>1. Late'
    BY <1>2 DEF Late
  <2>2. CASE waiting = <<>>
    BY <1>1, <2>1, <2>2 DEF Started, IInv, Cells
  <2>3. CASE waiting # <<>>
    <3>1. waiting[1] \in Bytes
      BY <2>3 DEF IInv, Late
    <3>2. got' = 1 /\ buf' = [buf EXCEPT ![0] = waiting[1]]
      BY <2>3, Zenon DEF Started
    <3>3. Cells'
      BY <3>1, <3>2 DEF IInv, Cells
    <3> QED BY <2>1, <3>2, <3>3
  <2> QED BY <2>2, <2>3
<1>4. half = FALSE
  BY <1>1 DEF IInv, Flags, OneByOne
<1>5. Types'
  BY <1>1, <1>2, <1>3 DEF IInv, Types
<1>6. Flags'
  BY <1>2, <1>4, Zenon DEF Flags
<1> QED BY <1>1, <1>2, <1>3, <1>4, <1>5, <1>6
    DEF IInv, Alternate, Placed, OneByOne, Unsurprising, Booting, Excused

-----------------------------------------------------------------------------
(* The line.                                                                *)

LEMMA Adds ==
  ASSUME typed \in Seq(Chars), NEW b \in Chars
  PROVE  /\ Edited(b) \in Seq(Chars) /\ Len(Edited(b)) = Len(typed) + 1
         /\ \A i \in 1 .. Len(typed) : Edited(b)[i] = typed[i]
         /\ Edited(b)[Len(typed) + 1] = b
<1>1. b # "bs"
  BY CharsAssumption
<1>2. Edited(b) = Append(typed, b)
  BY <1>1 DEF Edited
<1> QED BY <1>2, AppendProperties

LEMMA Edits ==
  ASSUME typed \in Seq(Chars), NEW b \in Bytes
  PROVE  /\ Edited(b) \in Seq(Chars)
         /\ b = "bs" /\ typed = <<>> => Edited(b) = <<>>
         /\ b = "bs" /\ typed # <<>> => Len(Edited(b)) = Len(typed) - 1
                           /\ \A i \in 1 .. Len(typed) - 1 : Edited(b)[i] = typed[i]
         /\ b = "end" => Edited(b) = typed
<1>1. "bs" \notin Chars /\ "end" \notin Chars /\ "bs" # "end"
  BY CharsAssumption
<1>2. CASE b \in Chars
  BY <1>1, <1>2, Adds
<1>3. CASE b = "bs" /\ typed # <<>>
  <2>1. Edited(b) = SubSeq(typed, 1, Len(typed) - 1)
    BY <1>1, <1>3 DEF Edited, Front
  <2>2. Len(typed) \in Nat /\ Len(typed) > 0
    BY <1>3, EmptySeq, LenProperties
  <2> DEFINE s == SubSeq(typed, 1, Len(typed) - 1)
  <2>3. /\ s \in Seq(Chars)
        /\ Len(s) = Len(typed) - 1
        /\ \A i \in 1 .. Len(typed) - 1 : s[i] = typed[i]
    <3>1. \A i \in 1 .. Len(typed) - 1 : typed[i] \in Chars
      BY <2>2, ElementOfSeq
    <3> DEFINE k == Len(typed) - 1
    <3>2. k \in Int /\ k >= 0
      BY <2>2
    <3> HIDE DEF k
    <3>3. /\ SubSeq(typed, 1, k) \in Seq(Chars)
          /\ Len(SubSeq(typed, 1, k)) = IF 1 <= k THEN k - 1 + 1 ELSE 0
          /\ \A i \in 1 .. k - 1 + 1 : SubSeq(typed, 1, k)[i] = typed[1 + i - 1]
      BY <3>1, <3>2, SubSeqProperties DEF k
    <3> HIDE DEF s
    <3>4. s = SubSeq(typed, 1, k)
      BY DEF s, k
    <3>5. s \in Seq(Chars) /\ Len(s) = k /\ \A i \in 1 .. k : s[i] = typed[i]
      BY <3>2, <3>3, <3>4
    <3> QED BY <3>5 DEF k
  <2> HIDE DEF s
  <2>4. Edited(b) = s
    BY <2>1 DEF s
  <2> QED BY <1>1, <1>3, <2>3, <2>4, Zenon
<1>4. CASE b = "end" \/ (b = "bs" /\ typed = <<>>)
  <2>1. Edited(b) = typed
    BY <1>1, <1>4 DEF Edited
  <2> QED BY <1>1, <1>4, <2>1
<1> QED BY <1>2, <1>3, <1>4 DEF Bytes

\* A byte comes behind the line.
LEMMA LineReceives ==
  ASSUME Person, IInv, LineInv, NEW b \in Bytes, Receive(b)
  PROVE  LineInv'
<1>1. idle = FALSE
  BY Zenon DEF Receive, MaySend, Person, IInv, Flags
<1>2. rx = "on" /\ got < len /\ got' = got + 1
  BY DEF Receive
<1>3. /\ start' = start /\ len' = len /\ rx' = rx /\ queue' = queue /\ cpu' = cpu
      /\ buf' = [buf EXCEPT ![start + got] = b] /\ typed' = Edited(b)
  BY DEF Receive
<1>4. idle' = TRUE /\ ahead' = ahead
  BY Zenon DEF Receive
<1>5. typed' \in Seq(Chars)
  BY <1>3, Edits DEF LineInv
<1>6. queue = <<>> /\ cpu # "parsing" /\ got \in {0, 1}
  BY <1>1, <1>2, SizeAssumption DEF IInv, Alternate, OneByOne, Types, Person
<1>7. CASE ahead = TRUE
  <2>1. ahead' = TRUE
    BY <1>4, <1>7
  <2> QED BY <1>5, <2>1 DEF LineInv
<1>8. CASE ahead = FALSE
  <2>1. got = 0 /\ got' = 1
    BY <1>1, <1>2, <1>6, <1>8 DEF LineInv
  <2>2. start \in 0 .. Size - 1 /\ buf \in [0 .. Size - 1 -> Bytes \cup {"nul"}] /\ Size \in Nat
    BY <1>2, <2>1, SizeAssumption DEF IInv, Types, Placed, Cells
  <2>3. buf'[start] = b /\ \A i \in 0 .. Size - 1 : i # start => buf'[i] = buf[i]
    BY <1>3, <2>1, <2>2
  <2>4. ASSUME len > 2 PROVE Begun'
    <3>1. Spelt(start) /\ Clear(start + 1)
      BY <1>2, <1>8, <2>1, <2>4 DEF LineInv, Open
    <3>2. Clear(start + 1)'
      BY <1>3, <2>2, <2>3, <3>1 DEF Clear
    <3> DEFINE n == Len(typed)
    <3>3. n = start /\ \A i \in 0 .. start - 1 : buf[i] = typed[i + 1]
      BY <3>1 DEF Spelt
    <3>4. typed \in Seq(Chars)
      BY DEF LineInv
    <3>5. b \in Chars => Spelt(start + 1)'
      <4>1. SUFFICES ASSUME b \in Chars PROVE Spelt(start + 1)'
        OBVIOUS
      <4>2. Len(typed') = n + 1 /\ (\A i \in 1 .. n : typed'[i] = typed[i]) /\ typed'[n + 1] = b
        <5>1. /\ Len(Edited(b)) = Len(typed) + 1
              /\ \A i \in 1 .. Len(typed) : Edited(b)[i] = typed[i]
              /\ Edited(b)[Len(typed) + 1] = b
          BY <3>4, <4>1, Adds
        <5> QED BY <1>3, <5>1
      <4> HIDE DEF n
      <4>3. \A i \in 0 .. start : buf'[i] = typed'[i + 1]
        BY <2>2, <2>3, <3>3, <4>2
      <4>4. Len(typed') = start + 1
        BY <3>3, <4>2
      <4> QED BY <1>3, <2>2, <4>3, <4>4 DEF Spelt
    <3>6. b = "bs" => IF start = 0 THEN typed' = <<>> ELSE Spelt(start - 1)'
      <4>1. SUFFICES ASSUME b = "bs" PROVE IF start = 0 THEN typed' = <<>> ELSE Spelt(start - 1)'
        OBVIOUS
      <4>2. CASE start = 0
        <5>1. typed = <<>>
          BY <3>3, <3>4, <4>2, EmptySeq
        <5> QED BY <1>3, <3>4, <4>1, <4>2, <5>1, Edits
      <4>3. CASE start # 0
        <5>1. typed # <<>>
          <6>1. n # 0
            BY <3>3, <4>3
          <6> QED BY <3>4, <6>1, EmptySeq
        <5>2. Len(typed') = n - 1 /\ \A i \in 1 .. n - 1 : typed'[i] = typed[i]
          BY <1>3, <3>4, <4>1, <5>1, Edits
        <5> HIDE DEF n
        <5>3. Len(typed') = start - 1 /\ \A i \in 0 .. start - 2 : buf'[i] = typed'[i + 1]
          BY <2>2, <2>3, <3>3, <5>2
        <5> QED BY <1>3, <2>2, <4>3, <5>3 DEF Spelt
      <4> QED BY <4>2, <4>3
    <3>7. b = "end" => Spelt(start)'
      <4>1. SUFFICES ASSUME b = "end" PROVE Spelt(start)'
        OBVIOUS
      <4>2. typed' = typed
        BY <1>3, <3>4, <4>1, Edits
      <4> QED BY <1>3, <2>2, <2>3, <3>1, <4>2 DEF Spelt
    <3>8. buf'[start] \in Bytes
      BY <2>3
    <3> QED BY <1>3, <2>3, <3>2, <3>5, <3>6, <3>7, <3>8 DEF Begun
  <2>5. rx' = "on" /\ idle' = TRUE /\ queue' = <<>> /\ cpu' # "parsing" /\ ahead' \in BOOLEAN
    BY <1>2, <1>3, <1>4, <1>6, <1>8
  <2> QED BY <1>3, <1>5, <2>1, <2>4, <2>5 DEF LineInv
<1> QED BY <1>7, <1>8 DEF LineInv

\* Whatever leaves the buffer, the transfer and the line alone.
LEMMA LineStays ==
  ASSUME LineInv, buf' = buf, start' = start, len' = len, got' = got, rx' = rx, idle' = idle,
         typed' = typed, ahead' = ahead,
         queue' = <<"parse">> \/ cpu' = "parsing" => queue = <<"parse">> \/ cpu = "parsing"
  PROVE  LineInv'
<1>1. /\ Open' <=> Open
      /\ Begun' <=> Begun
      /\ Ended' <=> Ended
  BY DEF Open, Begun, Ended, Spelt, Clear
<1> QED BY <1>1 DEF LineInv

\* In a cleared buffer an empty line begins.
LEMMA LineBegins ==
  ASSUME buf' = Cleared, start' = 0, got' = 0, rx' \in {"on", "starting"},
         typed' = <<>>, ahead' \in BOOLEAN, queue' = <<>>, cpu' # "parsing"
  PROVE  LineInv'
<1>1. typed' \in Seq(Chars) /\ Len(typed') = 0
  OBVIOUS
<1>2. Open'
  BY <1>1, SizeAssumption DEF Open, Spelt, Clear, Cleared
<1> QED BY <1>1, <1>2 DEF LineInv

\* Of a line that began with a byte typed ahead, nothing is promised.
LEMMA LineAhead ==
  ASSUME typed' \in Seq(Chars), ahead' = TRUE
  PROVE  LineInv'
BY DEF LineInv

\* The event callback puts the byte where it belongs, takes one back, or ends
\* the line.
LEMMA LineIdles ==
  ASSUME Person, IInv, LineInv, Idle
  PROVE  LineInv'
<1> USE SizeAssumption DEF Person
<1>1. /\ rx = "on" /\ half = FALSE /\ 0 < got /\ got < len /\ queue = <<>> /\ cpu # "parsing"
      /\ typed' = typed /\ ahead' = ahead
  BY DEF Idle, IInv, Types, Flags, Alternate, hist
<1>2. typed' \in Seq(Chars) /\ ahead' \in BOOLEAN
  BY <1>1 DEF LineInv
<1>3. cpu' # "parsing"
  BY <1>1 DEF Idle, RunLater
<1>4. CASE ahead = TRUE
  BY <1>1, <1>2, <1>4, LineAhead
<1>5. CASE ahead = FALSE
  <2>1. got = 1 /\ len > 1
    BY <1>1, <1>5 DEF IInv, Types, OneByOne, LineInv
  <2>2. /\ last = start /\ Remains = len - 1 /\ Remains # 0 /\ start + 1 < Size
        /\ start \in 0 .. Size - 1 /\ buf \in [0 .. Size - 1 -> Bytes \cup {"nul"}]
    BY <1>1, <2>1 DEF last, Remains, IInv, Types, Placed, Cells
  <2>3. len > 2 => Begun
    BY <1>1, <1>5, <2>1 DEF LineInv
  <2>4. CASE buf[start] = "bs" /\ start = 0
    <3>1. len > 2
      BY <1>1, <2>1, <2>4 DEF IInv, Types, Placed
    <3>2. typed = <<>>
      BY <2>3, <2>4, <3>1 DEF Begun
    <3>3. Queued = queue
      BY <2>2, <2>4, Kinds DEF Queued
    <3>4. buf' = Cleared /\ start' = 0 /\ got' = 0 /\ rx' = "on" /\ queue' = <<>>
      BY <1>1, <2>2, <2>4, <3>3 DEF Idle, OnEvent, RestartRx, Transfer
    <3> QED BY <1>1, <1>2, <1>3, <3>2, <3>4, LineBegins
  <2>5. CASE buf[start] = "bs" /\ start # 0
    <3>1. len > 2
      BY <1>1, <2>1, <2>5 DEF IInv, Types, Unsurprising
    <3>2. Queued = queue
      BY <2>2, <2>5, Kinds DEF Queued
    <3>3. /\ buf' = [buf EXCEPT ![start] = "nul"] /\ start' = start - 1 /\ got' = 0
          /\ rx' = "on" /\ queue' = <<>>
      BY <1>1, <2>1, <2>2, <2>5, <3>2 DEF Idle, OnEvent, Transfer
    <3>4. Spelt(start - 1) /\ Clear(start + 1)
      BY <2>3, <2>5, <3>1, Kinds DEF Begun
    <3>5. buf'[start] = "nul" /\ \A i \in 0 .. Size - 1 : i # start => buf'[i] = buf[i]
      BY <2>2, <3>3
    <3>6. \A i \in start .. Size - 1 : buf'[i] = "nul"
      BY <2>2, <3>4, <3>5 DEF Clear
    <3>7. Len(typed') = start - 1 /\ \A i \in 0 .. start - 2 : buf'[i] = typed'[i + 1]
      BY <1>1, <2>2, <3>4, <3>5 DEF Spelt
    <3>8. start' + 1 = start /\ start' - 1 = start - 2
      BY <2>2, <3>3
    <3>9. Open'
      BY <3>3, <3>6, <3>7, <3>8 DEF Open, Clear, Spelt
    <3> QED BY <1>2, <1>3, <3>3, <3>9 DEF LineInv
  <2>6. CASE buf[start] = "end"
    <3>1. len > 2
      BY <1>1, <2>1, <2>6 DEF IInv, Types, Unsurprising
    <3>2. buf' = buf /\ start' = start /\ rx' = "off"
      BY <2>2, <2>6, Kinds DEF Idle, OnEvent
    <3>3. Clear(start + 1) /\ Spelt(start)
      BY <2>3, <2>6, <3>1, Kinds DEF Begun
    <3>4. Ended'
      BY <1>1, <2>2, <2>6, <3>2, <3>3 DEF Ended, Clear, Spelt
    <3> QED BY <1>2, <3>2, <3>4 DEF LineInv
  <2>7. CASE buf[start] # "bs" /\ buf[start] # "end"
    <3>1. Queued = queue
      BY <2>2, <2>7 DEF Queued
    <3>2. buf' = buf /\ start' = start + 1 /\ len' = len - 1 /\ got' = 0 /\ rx' = "on" /\ queue' = <<>>
      BY <1>1, <2>1, <2>2, <2>7, <3>1 DEF Idle, OnEvent, Transfer
    <3>3. len > 2 => Open'
      <4>1. SUFFICES ASSUME len > 2 PROVE Open'
        OBVIOUS
      <4>2. Clear(start + 1) /\ Spelt(start + 1)
        BY <2>3, <2>7, <4>1 DEF Begun, Bytes
      <4> QED BY <1>1, <2>2, <3>2, <4>2 DEF Open, Clear, Spelt
    <3>4. len' > 2 => len > 2
      BY <2>2, <3>2 DEF IInv, Types
    <3> QED BY <1>2, <1>3, <3>2, <3>3, <3>4 DEF LineInv
  <2> QED BY <2>4, <2>5, <2>6, <2>7
<1> QED BY <1>2, <1>4, <1>5, <1>1

LEMMA LineHalves ==
  ASSUME Person, IInv, LineInv, Half
  PROVE  LineInv'
<1>1. half = TRUE /\ rx = "on" /\ got = 1 /\ len < 3 /\ queue = <<>> /\ cpu # "parsing"
  BY DEF Half, IInv, Flags, Alternate, OneByOne
<1>2. last = start /\ (len > 1 => Remains # 0) /\ got < len /\ len \in Nat
  BY <1>1 DEF last, Remains, Half, IInv, Types
<1>3. /\ len' = len /\ got' = got /\ rx' = rx /\ idle' = idle /\ typed' = typed /\ ahead' = ahead
      /\ cpu' # "parsing"
  BY <1>1 DEF Half, hist, RunLater
<1>4. queue' = <<>>
  BY <1>1, <1>2 DEF Half, Queued, IInv, Unsurprising
<1> QED BY <1>1, <1>2, <1>3, <1>4 DEF LineInv

LEMMA LineFills ==
  ASSUME Person, IInv, LineInv, Complete
  PROVE  LineInv'
<1>1. Remains = 0 /\ queue = <<>> /\ cpu # "parsing"
  BY DEF Complete, Remains, IInv, Types, Alternate
<1>2. /\ rx' = "off" /\ queue' = <<"overrun">> /\ cpu' # "parsing"
      /\ typed' = typed /\ ahead' = ahead
  BY <1>1 DEF Complete, Queued, RunLater, hist
<1> QED BY <1>2 DEF LineInv

LEMMA LineRestarts ==
  ASSUME IInv, LineInv, Noise \/ Fault
  PROVE  LineInv'
<1>1. queue' = queue /\ queue = <<>> /\ cpu # "parsing"
  BY DEF Noise, Fault, IInv, Alternate
<1>2. CASE /\ RestartRx /\ typed' = <<>> /\ cpu' # "parsing"
           /\ ahead' \in BOOLEAN
  <2>1. buf' = Cleared /\ start' = 0 /\ got' = 0 /\ rx' = "on"
    BY <1>2 DEF RestartRx, Transfer
  <2> QED BY <1>1, <1>2, <2>1, LineBegins
<1>3. CASE Noise
  <2>1. RestartRx /\ typed' = <<>> /\ cpu' # "parsing" /\ ahead' \in BOOLEAN
    BY <1>1, <1>3 DEF Noise
  <2> QED BY <1>2, <2>1
<1>4. CASE cpu' = "free" /\ RestartRx /\ typed' = <<>> /\ ahead' = FALSE
  BY <1>2, <1>4
<1>5. CASE cpu' = "assert" /\ UNCHANGED <<buf, xfer, late, hist>>
  <2>1. /\ buf' = buf /\ start' = start /\ len' = len /\ got' = got /\ rx' = rx /\ idle' = idle
        /\ typed' = typed /\ ahead' = ahead /\ cpu' # "parsing" /\ queue' = queue
    BY <1>1, <1>5 DEF xfer, hist
  <2> QED BY <2>1, LineStays
<1> QED BY <1>3, <1>4, <1>5 DEF Fault

\* The task takes the line from the queue, and starts afresh when it has been
\* executed.
LEMMA LineRuns ==
  ASSUME Person, IInv, LineInv, Task
  PROVE  LineInv'
<1>1. CASE Boot
  <2>1. /\ buf' = buf /\ start' = start /\ len' = len /\ got' = got /\ rx' = rx /\ idle' = idle
        /\ typed' = typed /\ ahead' = ahead /\ cpu' # "parsing" /\ queue' = queue
    BY <1>1 DEF Boot, xfer, late, hist
  <2> QED BY <2>1, LineStays
<1>2. CASE RunDeferred
  <2>1. /\ buf' = buf /\ start' = start /\ len' = len /\ got' = got /\ rx' = rx /\ idle' = idle
        /\ typed' = typed /\ ahead' = ahead
    BY <1>2 DEF RunDeferred, xfer, late, hist
  <2>2. queue = <<"parse">> \/ (queue = <<"overrun">> /\ cpu' # "parsing" /\ queue' # <<"parse">>)
    BY <1>2 DEF RunDeferred, IInv, Alternate
  <2> QED BY <2>1, <2>2, LineStays
<1>3. CASE Parse
  <2>1. cpu = "parsing" /\ rx = "off" /\ queue = <<>>
    BY <1>3 DEF Parse, IInv, Types, Alternate
  <2>2. /\ buf' = Cleared /\ cpu' # "parsing" /\ rx' \in {"on", "starting"} /\ typed' = <<>>
        /\ ahead' \in BOOLEAN /\ start' = 0 /\ got' = 0 /\ queue' = <<>>
    BY <1>3, <2>1 DEF Parse
  <2> QED BY <2>2, LineBegins
<1>4. CASE Started
  <2>1. rx = "starting" /\ queue = <<>> /\ got = 0
    BY <1>4 DEF Started, IInv, Alternate, OneByOne
  <2>2. rx' = "on" /\ queue' = <<>> /\ cpu' # "parsing" /\ start' = start
    BY <1>4, <2>1 DEF Started
  <2>3. CASE waiting = <<>>
    <3>1. buf' = buf /\ got' = 0 /\ typed' = typed /\ ahead' = ahead
      BY <1>4, <2>1, <2>3 DEF Started, hist
    <3>2. ahead = FALSE => Open'
      BY <2>1, <2>2, <3>1 DEF LineInv, Open, Spelt, Clear
    <3> QED BY <2>2, <3>1, <3>2 DEF LineInv
  <2>4. CASE waiting # <<>>
    <3>1. waiting[1] \in Bytes
      <4>1. PICK b \in Bytes : waiting = <<b>>
        BY <2>4 DEF IInv, Late
      <4> QED BY <4>1
    <3>2. typed' = Edited(waiting[1]) /\ ahead' = TRUE
      BY <1>4, <2>4 DEF Started
    <3>3. typed' \in Seq(Chars)
      BY <3>1, <3>2, Edits DEF LineInv
    <3> QED BY <3>2, <3>3, LineAhead
  <2> QED BY <2>3, <2>4
<1> QED BY <1>1, <1>2, <1>3, <1>4 DEF Task

LEMMA LineStep ==
  ASSUME Person, IInv, LineInv, [Next]_vars
  PROVE  LineInv'
<1>1. ASSUME NEW b \in Bytes, Receive(b) PROVE LineInv'
  BY <1>1, LineReceives
<1>2. ASSUME NEW b \in Bytes, ReceiveLate(b) \/ NoiseLate(b) PROVE LineInv'
  <2>1. /\ buf' = buf /\ start' = start /\ len' = len /\ got' = got /\ rx' = rx /\ idle' = idle
        /\ typed' = typed /\ ahead' = ahead /\ cpu' = cpu /\ queue' = queue
    BY <1>2 DEF ReceiveLate, NoiseLate, Wait, xfer, hist
  <2> QED BY <2>1, LineStays
<1>3. CASE UNCHANGED vars
  <2>1. /\ buf' = buf /\ start' = start /\ len' = len /\ got' = got /\ rx' = rx /\ idle' = idle
        /\ typed' = typed /\ ahead' = ahead /\ cpu' = cpu /\ queue' = queue
    BY <1>3 DEF vars, xfer, late, hist
  <2> QED BY <2>1, LineStays
<1>4. Idle \/ Half \/ Complete \/ Noise \/ Fault => LineInv'
  BY LineIdles, LineHalves, LineFills, LineRestarts
<1>5. Task => LineInv'
  BY LineRuns
<1> QED BY <1>1, <1>2, <1>3, <1>4, <1>5 DEF Next

\* What an ended line spells.
LEMMA Spelling ==
  ASSUME IInv, LineInv, Ended
  PROVE  Spells(typed)
<1>1. start \in 0 .. Size - 1 /\ start + 1 < Size /\ Size \in Nat
  BY SizeAssumption DEF IInv, Types, Ended
<1>2. Len(typed) = start /\ \A i \in 0 .. start - 1 : buf[i] = typed[i + 1]
  BY DEF Ended, Spelt
<1>3. \A i \in 0 .. start - 1 : buf[i] \in Chars
  <2>1. \A i \in 1 .. Len(typed) : typed[i] \in Chars
    BY ElementOfSeq DEF LineInv
  <2> QED BY <1>1, <1>2, <2>1
<1>4. \A c \in Chars : c # "end" /\ c # "nul"
  BY CharsAssumption
<1>5. buf[start] = "end" /\ buf[start + 1] = "nul"
  BY <1>1 DEF Ended, Clear
<1>6. Text = 0 .. start - 1
  <2>1. ASSUME NEW k \in 0 .. start - 1 PROVE k \in Text
    <3>1. \A i \in 0 .. k : buf[i] # "nul"
      BY <1>1, <1>3, <1>4
    <3> QED BY <1>1, <1>3, <1>4, <3>1 DEF Text
  <2>2. ASSUME NEW k \in Text PROVE k \in 0 .. start - 1
    <3>1. k \in 0 .. Size - 1 /\ buf[k] # "end" /\ \A i \in 0 .. k : buf[i] # "nul"
      BY DEF Text
    <3>2. k # start /\ ~(start + 1 \in 0 .. k)
      BY <1>5, <3>1
    <3> QED BY <1>1, <3>1, <3>2
  <2> QED BY <2>1, <2>2
<1>7. Cardinality(Text) = start
  BY <1>1, <1>6, FS_Interval
<1>8. ASSUME NEW k \in Text PROVE typed[Cardinality({i \in Text : i <= k})] = buf[k]
  <2>1. k \in 0 .. start - 1
    BY <1>6
  <2>2. {i \in Text : i <= k} = 0 .. k
    BY <1>1, <1>6, <2>1
  <2>3. Cardinality(0 .. k) = k + 1
    BY <2>1, FS_Interval
  <2> QED BY <1>2, <2>1, <2>2, <2>3
<1> QED BY <1>2, <1>7, <1>8 DEF Spells

-----------------------------------------------------------------------------
(* The theorems.                                                            *)

LEMMA Base == Person /\ Init => IInv
<1> SUFFICES ASSUME Person, Init PROVE IInv
  OBVIOUS
<1>1. Types /\ Late
  BY SizeAssumption DEF Init, Types, Late
<1>2. Cells
  BY DEF Init, Cells, Cleared
<1>3. Flags
  BY Zenon DEF Init, Flags
<1> QED BY <1>1, <1>2, <1>3, SizeAssumption
    DEF Init, Person, IInv, Alternate, Placed, OneByOne, Unsurprising, Booting, Excused

LEMMA Step == Person /\ IInv /\ [Next]_vars => IInv'
<1> SUFFICES ASSUME Person, IInv, [Next]_vars PROVE IInv'
  OBVIOUS
<1>1. ASSUME NEW b \in Bytes, Receive(b) PROVE IInv'
  BY <1>1, ReceiveKeeps
<1>2. ASSUME NEW b \in Bytes, ReceiveLate(b) \/ NoiseLate(b) PROVE IInv'
  BY <1>2, WaitKeeps DEF ReceiveLate, NoiseLate, MaySend
<1>3. Idle \/ Half \/ Complete \/ Noise \/ Fault => IInv'
  BY IdleKeeps, HalfKeeps, CompleteKeeps, NoiseKeeps, FaultKeeps
<1>4. Task => IInv'
  BY BootKeeps, RunDeferredKeeps, ParseKeeps, StartedKeeps DEF Task
<1>5. CASE UNCHANGED vars
  <2>1. /\ buf' = buf /\ start' = start /\ len' = len /\ got' = got /\ rx' = rx /\ idle' = idle
        /\ half' = half /\ waiting' = waiting /\ errors' = errors /\ queue' = queue /\ cpu' = cpu
    BY <1>5 DEF vars, xfer, late
  <2>2. Flags' /\ Cells' /\ Late'
    BY <2>1 DEF IInv, Flags, Cells, Late
  <2> QED BY <2>1, <2>2
      DEF IInv, Types, Alternate, Placed, OneByOne, Unsurprising, Booting, Excused
<1> QED BY <1>1, <1>2, <1>3, <1>4, <1>5 DEF Next

LEMMA Invariant == Person => (Spec => []IInv)
<1> SUFFICES ASSUME Person PROVE Spec => []IInv
  OBVIOUS
<1>1. Init => IInv
  BY Base
<1>2. IInv /\ [Next]_vars => IInv'
  BY Step
<1> QED BY <1>1, <1>2, PTL DEF Spec

\* Whatever is typed and taken back, reception does not leave the buffer, nor
\* touch the zero at its end.
THEOREM Bounded == Person => (Spec => []InBounds)
<1>1. IInv => InBounds
  BY DEF IInv, Placed, InBounds
<1> QED BY <1>1, Invariant, PTL

\* The line that is executed does not change.
THEOREM Stable == Person => (Spec => []StableWhileParsing)
<1>1. IInv => StableWhileParsing
  <2> SUFFICES ASSUME IInv, rx # "off" PROVE ~(cpu = "parsing" \/ Contains(queue, "parse"))
    BY DEF StableWhileParsing
  <2>1. queue = <<>> /\ cpu # "parsing"
    BY DEF IInv, Alternate
  <2> QED BY <2>1 DEF Contains
<1> QED BY <1>1, Invariant, PTL

\* Only an overrun or a noisy byte during a command can hang the firmware.
THEOREM Hangs == Person => (Spec => []OnlyFaultsHang)
<1>1. IInv => OnlyFaultsHang
  BY DEF IInv, Excused, OnlyFaultsHang, NoAssertionFails
<1> QED BY <1>1, Invariant, PTL

LEMMA LineBase == Init => LineInv
<1> SUFFICES ASSUME Init PROVE LineInv
  OBVIOUS
<1>1. typed = <<>> /\ ahead = FALSE /\ start = 0 /\ got = 0 /\ queue = <<>> /\ cpu = "booting"
  BY Zenon DEF Init
<1>2. typed \in Seq(Chars) /\ Len(typed) = 0
  BY <1>1
<1>3. buf = Cleared
  BY DEF Init
<1>4. Open
  BY <1>1, <1>2, <1>3, SizeAssumption DEF Open, Spelt, Clear, Cleared
<1>5. got # 1 /\ got # 2 /\ queue # <<"parse">> /\ cpu # "parsing"
  BY <1>1
<1>6. ahead \in BOOLEAN
  BY <1>1, Zenon
<1> QED BY <1>2, <1>4, <1>5, <1>6, Zenon DEF LineInv

\* What is executed is the line as the person has edited it, whatever was
\* typed and taken back, however long, and in a buffer of any size, as long as
\* nothing was typed ahead.
THEOREM Typed == Person => (Spec => []LineAsTyped)
<1> SUFFICES ASSUME Person PROVE Spec => []LineAsTyped
  OBVIOUS
<1>1. Init => IInv /\ LineInv
  BY Base, LineBase
<1>2. IInv /\ LineInv /\ [Next]_vars => (IInv /\ LineInv)'
  BY Step, LineStep
<1>3. IInv /\ LineInv => LineAsTyped
  BY Spelling DEF LineInv, LineAsTyped
<1> QED BY <1>1, <1>2, <1>3, PTL DEF Spec

(***************************************************************************)
(* The lines of a client that waits for the prompt, as c2.py does: they    *)
(* are executed as they were sent, and the buffer is never found full.     *)
(***************************************************************************)

\* Byte i of line l on the wire.
Byte(l, i) == IF i <= Len(l) THEN l[i] ELSE "nl"

\* The bytes received are the first of line l.
Received(l) == \A i \in 0 .. size - 1 : buffer[i] = Byte(l, i + 1)

\* And the rest of it is on the wire, unless the connection has broken.
Arriving(l) ==
  /\ size <= Len(l) /\ Received(l)
  /\ client # "lost" => /\ Len(wire) = Len(l) + 1 - size
                        /\ \A i \in 1 .. Len(wire) : wire[i] = Byte(l, size + i)

Arrived(l) == size = Len(l) + 1 /\ Received(l) /\ wire = <<>>

\* With a client that waits for the prompt there is one line at a time, on its
\* way or waiting to be run.
Served ==
  /\ step # "assert"
  /\ client = "lost" => wire = <<>>
  /\ step = "none" => wire = <<>> /\ todo = <<>>
  /\ step # "none" => client # "none"
  /\ step = "shut" => wire = <<>> /\ client \in {"left", "lost"} /\ (client = "left" => todo = <<>>)
  /\ step = "recv" => \/ todo = <<>> /\ size = 0 /\ wire = <<>>
                      \/ \E l \in Lines : todo = <<l>> /\ Arriving(l)
  /\ step = "run" => \E l \in Lines : todo = <<l>> /\ Arrived(l)

Serving == ReaderTypeOK /\ Served

LEMMA LineIs ==
  ASSUME NEW l \in Lines
  PROVE  /\ l \in Seq(Letters) /\ Len(l) \in Nat /\ Len(l) + 1 < Capacity
         /\ \A i \in 1 .. Len(l) : Byte(l, i) \in Letters /\ Byte(l, i) # "nl"
         /\ Byte(l, Len(l) + 1) = "nl"
<1>1. PICK n \in 0 .. MaxLine : l \in [1 .. n -> Letters]
  BY DEF Lines
<1>2. n \in Nat /\ n <= MaxLine /\ n + 1 < Capacity
  BY SizesAssumption
<1>3. l \in Seq(Letters) /\ Len(l) = n
  BY <1>1, <1>2
<1> HIDE DEF Lines
<1>4. \A i \in 1 .. n : l[i] \in Letters /\ i <= n
  BY <1>1, <1>2
<1>5. "nl" \notin Letters /\ ~(n + 1 <= n)
  BY <1>2, LettersAssumption
<1> QED BY <1>2, <1>3, <1>4, <1>5 DEF Byte

LEMMA BytesAre ==
  ASSUME NEW l \in Lines, NEW i \in Nat
  PROVE  Byte(l, i + 1) = "nl" <=> i >= Len(l)
<1>1. Len(l) \in Nat /\ (i < Len(l) => i + 1 \in 1 .. Len(l)) /\ (i >= Len(l) => ~(i + 1 <= Len(l)))
  BY LineIs
<1>2. CASE i < Len(l)
  <2>1. Byte(l, i + 1) # "nl"
    BY <1>1, <1>2, LineIs
  <2> QED BY <1>1, <1>2, <2>1
<1>3. CASE i >= Len(l)
  <2>1. Byte(l, i + 1) = "nl"
    BY <1>1, <1>3 DEF Byte
  <2> QED BY <1>3, <2>1
<1> QED BY <1>1, <1>2, <1>3

LEMMA LastOne ==
  \A i, n, k \in Nat : i <= n - 1 /\ n <= k + 1 => (i >= k <=> i = k)
OBVIOUS

\* A line ends where it ends.
LEMMA EndsThere ==
  ASSUME NEW l \in Lines, NEW b, NEW n \in Nat, n <= Len(l) + 1,
         \A i \in 0 .. n - 1 : b[i] = Byte(l, i + 1)
  PROVE  Ends(b, n) = IF n = Len(l) + 1 THEN {Len(l)} ELSE {}
<1>1. Len(l) \in Nat
  BY LineIs
<1>2. \A i \in 0 .. n - 1 : i \in Nat /\ (i = Len(l) <=> b[i] = "nl")
  <2> SUFFICES ASSUME NEW i \in 0 .. n - 1 PROVE i \in Nat /\ (i = Len(l) <=> b[i] = "nl")
    OBVIOUS
  <2>1. i \in Nat /\ (i >= Len(l) => i = Len(l)) /\ (i = Len(l) => i >= Len(l))
    <3>1. i \in Nat /\ i <= n - 1
      OBVIOUS
    <3> QED BY <1>1, <3>1, LastOne
  <2>2. Byte(l, i + 1) = "nl" <=> i >= Len(l)
    BY <2>1, BytesAre
  <2>3. b[i] = "nl" <=> i >= Len(l)
    BY <2>2
  <2> QED BY <2>1, <2>3
<1>3. Len(l) \in 0 .. n - 1 <=> n = Len(l) + 1
  BY <1>1
<1> HIDE DEF Lines
<1> QED BY <1>2, <1>3 DEF Ends

LEMMA ReaderBase == ReaderInit => Serving
<1> SUFFICES ASSUME ReaderInit PROVE Serving
  OBVIOUS
<1>1. buffer \in [Offsets -> Letters \cup {"nl", "nul", "junk"}]
  BY DEF ReaderInit, Uncleared
<1>2. 0 \in 0 .. Capacity
  BY SizesAssumption
<1> QED BY <1>1, <1>2 DEF ReaderInit, Serving, ReaderTypeOK, Served

LEMMA ConnectServes == ASSUME Serving, Connect PROVE Serving'
BY DEF Serving, ReaderTypeOK, Served, Connect, Arriving, Arrived, Received

LEMMA SendServes ==
  ASSUME Prompted, Serving, NEW l \in Lines, SendLine(l)
  PROVE  Serving'
<1>1. l \in Seq(Letters) /\ Len(l) \in Nat /\ client = "open" /\ step # "none"
      /\ todo \in Seq(Lines) /\ Len(todo) < 1
  BY LineIs DEF Serving, ReaderTypeOK, SendLine
<1>2. todo = <<>>
  BY <1>1
<1>3. ASSUME NEW k PROVE todo # <<k>>
  BY <1>2
<1>4. step = "recv" /\ size = 0 /\ wire = <<>>
  BY <1>1, <1>2, <1>3, Zenon DEF Serving, ReaderTypeOK, Served
<1>5. wire' = <<>> \o Append(l, "nl") /\ todo' = <<l>> /\ UNCHANGED <<buffer, size, step, client>>
  BY <1>2, <1>4 DEF SendLine
<1>6. /\ wire' \in Seq(Letters \cup {"nl"}) /\ Len(wire') = Len(l) + 1
      /\ \A i \in 1 .. Len(wire') : wire'[i] = IF i <= Len(l) THEN l[i] ELSE "nl"
  BY <1>1, <1>5
<1>7. ReaderTypeOK'
  BY <1>5, <1>6 DEF Serving, ReaderTypeOK
<1>8. Arriving(l)'
  <2>1. Received(l)'
    BY <1>4, <1>5 DEF Received
  <2>2. size' <= Len(l) /\ Len(wire') = Len(l) + 1 - size'
    BY <1>1, <1>4, <1>5, <1>6
  <2>3. \A i \in 1 .. Len(wire') : wire'[i] = Byte(l, size' + i)
    BY <1>1, <1>4, <1>5, <1>6 DEF Byte
  <2> QED BY <2>1, <2>2, <2>3 DEF Arriving
<1> QED BY <1>1, <1>4, <1>5, <1>7, <1>8 DEF Serving, Served

LEMMA LeaveServes == ASSUME Serving, Leave PROVE Serving'
<1>1. client = "open" /\ client' \in {"left", "lost"} /\ (client' = "lost" => wire' = <<>>)
      /\ (wire' = wire \/ wire' = <<>>) /\ (client' = "left" => wire' = wire)
      /\ UNCHANGED <<buffer, size, step, todo>>
  BY DEF Leave
<1>2. ReaderTypeOK'
  <2>1. wire' \in Seq(Letters \cup {"nl"})
    <3>1. <<>> \in Seq(Letters \cup {"nl"})
      OBVIOUS
    <3> QED BY <1>1, <3>1 DEF Serving, ReaderTypeOK
  <2> QED BY <1>1, <2>1 DEF Serving, ReaderTypeOK
<1>3. ASSUME NEW l, Arriving(l) PROVE Arriving(l)'
  BY <1>1, <1>3 DEF Arriving, Received
<1>4. ASSUME NEW l, Arrived(l) PROVE Arrived(l)'
  BY <1>1, <1>4 DEF Arrived, Received
<1> QED BY <1>1, <1>2, <1>3, <1>4 DEF Serving, Served

LEMMA AcceptServes == ASSUME Serving, Accept PROVE Serving'
<1>1. step = "none" /\ client # "none" /\ size' = 0 /\ step' = "recv"
      /\ UNCHANGED <<client, wire, todo>> /\ wire = <<>> /\ todo = <<>>
  BY DEF Accept, Serving, Served
<1>2. buffer' \in [Offsets -> Letters \cup {"nl", "nul", "junk"}]
  BY DEF Accept, Uncleared, Serving, ReaderTypeOK
<1>3. ReaderTypeOK'
  BY <1>1, <1>2, SizesAssumption DEF Serving, ReaderTypeOK
<1> QED BY <1>1, <1>3 DEF Serving, Served

LEMMA RecvServes ==
  ASSUME Serving, NEW n \in 0 .. Len(wire), Recv(n)
  PROVE  Serving'
<1>1. /\ step = "recv" /\ wire \in Seq(Letters \cup {"nl"}) /\ Len(wire) \in Nat /\ size \in Nat
      /\ n \in Nat /\ size + n <= Capacity /\ n <= Len(wire)
      /\ n = 0 => wire = <<>> /\ Ends(buffer, size) # {}
      /\ size' = size + n /\ UNCHANGED <<client, todo>>
      /\ buffer \in [Offsets -> Letters \cup {"nl", "nul", "junk"}]
  BY SizesAssumption DEF Recv, Serving, ReaderTypeOK
<1>2. PICK l \in Lines : todo = <<l>> /\ Arriving(l)
  <2>1. CASE todo = <<>> /\ size = 0 /\ wire = <<>>
    <3>1. n = 0
      BY <1>1, <2>1
    <3>2. Ends(buffer, 0) = {}
      BY DEF Ends
    <3> QED BY <1>1, <2>1, <3>1, <3>2
  <2> QED BY <1>1, <2>1 DEF Serving, Served
<1>3. Len(l) \in Nat /\ Len(l) + 1 < Capacity
  BY LineIs
<1>4. Ends(buffer, size) = {}
  BY <1>1, <1>2, <1>3, EndsThere DEF Arriving, Received
<1>5. /\ n > 0 /\ client # "lost" /\ Len(wire) = Len(l) + 1 - size
      /\ \A i \in 1 .. Len(wire) : wire[i] = Byte(l, size + i)
  <2>1. n > 0
    BY <1>1, <1>4
  <2>2. wire # <<>>
    BY <1>1, <2>1
  <2>3. client # "lost"
    BY <2>2 DEF Serving, Served
  <2> QED BY <1>2, <2>1, <2>3 DEF Arriving
<1>6. /\ size \in Nat /\ n \in Nat /\ Len(l) \in Nat /\ Capacity \in Nat
      /\ size + n <= Len(l) + 1 /\ Len(l) + 1 < Capacity
  BY <1>1, <1>3, <1>5, SizesAssumption
<1>7. \A i \in 0 .. size' - 1 : buffer'[i] = Byte(l, i + 1)
  <2> SUFFICES ASSUME NEW i \in 0 .. size' - 1 PROVE buffer'[i] = Byte(l, i + 1)
    OBVIOUS
  <2>1. i \in Offsets /\ i \in Nat /\ i < size + n
    <3>1. i \in Nat /\ i < size + n
      BY <1>1, <1>6
    <3> QED BY <1>6, <3>1 DEF Offsets
  <2>2. buffer'[i] = IF size <= i /\ i < size + n THEN wire[i - size + 1] ELSE buffer[i]
    BY <2>1 DEF Recv
  <2>3. CASE i < size
    <3>1. i \in 0 .. size - 1 /\ ~(size <= i)
      BY <1>1, <2>1, <2>3
    <3>2. buffer[i] = Byte(l, i + 1)
      BY <1>2, <3>1 DEF Arriving, Received
    <3> QED BY <2>2, <3>1, <3>2
  <2>4. CASE size <= i
    <3>1. i - size + 1 \in 1 .. Len(wire) /\ size + (i - size + 1) = i + 1 /\ i < size + n
      BY <1>1, <2>1, <2>4
    <3> QED BY <1>5, <2>2, <2>4, <3>1
  <2> QED BY <1>1, <2>1, <2>3, <2>4
<1>8. Ends(buffer', size') = IF size + n = Len(l) + 1 THEN {Len(l)} ELSE {}
  <2>1. size' \in Nat /\ size' <= Len(l) + 1 /\ size' = size + n
    BY <1>1, <1>6
  <2>2. Ends(buffer', size') = IF size' = Len(l) + 1 THEN {Len(l)} ELSE {}
    BY <1>2, <1>7, <2>1, EndsThere, Zenon
  <2> QED BY <2>1, <2>2
<1>9. /\ wire' \in Seq(Letters \cup {"nl"}) /\ Len(wire') = Len(wire) - n
      /\ \A i \in 1 .. Len(wire') : wire'[i] = Byte(l, size' + i)
  <2>1. wire' = SubSeq(wire, n + 1, Len(wire))
    BY DEF Recv
  <2>2. wire' \in Seq(Letters \cup {"nl"}) /\ Len(wire') = Len(wire) - n
        /\ \A i \in 1 .. Len(wire) - n : wire'[i] = wire[n + i]
    BY <1>1, <2>1
  <2>3. ASSUME NEW i \in 1 .. Len(wire') PROVE wire'[i] = Byte(l, size' + i)
    <3>1. n + i \in 1 .. Len(wire) /\ size + (n + i) = size' + i /\ i \in 1 .. Len(wire) - n
      BY <1>1, <2>2, <2>3
    <3> QED BY <1>5, <2>2, <3>1
  <2> QED BY <2>2, <2>3
<1>10. Received(l)'
  BY <1>1, <1>7 DEF Received
<1>11. ReaderTypeOK' /\ step' # "assert"
  <2>1. buffer' \in [Offsets -> Letters \cup {"nl", "nul", "junk"}]
    <3>1. ASSUME NEW i \in Offsets, size <= i, i < size + n
          PROVE  wire[i - size + 1] \in Letters \cup {"nl"}
      <4>1. i - size + 1 \in 1 .. Len(wire)
        BY <1>1, <3>1 DEF Offsets
      <4> QED BY <1>1, <4>1
    <3> QED BY <1>1, <3>1 DEF Recv
  <2>2. size' \in 0 .. Capacity /\ (size' # Len(l) + 1 => size' < Capacity)
    BY <1>1, <1>3, <1>6, SizesAssumption
  <2>3. step' \in {"run", "recv"}
    BY <1>1, <1>8, <2>2 DEF Recv
  <2> QED BY <1>1, <1>9, <2>1, <2>2, <2>3 DEF Serving, ReaderTypeOK
<1>12. CASE size + n = Len(l) + 1
  <2>1. step' = "run"
    BY <1>8, <1>12 DEF Recv
  <2>2. Len(wire') = 0
    BY <1>1, <1>3, <1>5, <1>9, <1>12
  <2>3. wire' = <<>>
    BY <1>9, <2>2
  <2>4. Arrived(l)'
    BY <1>1, <1>10, <1>12, <2>3 DEF Arrived
  <2>5. client' # "none"
    BY <1>1 DEF Serving, Served
  <2> QED BY <1>1, <1>2, <1>11, <2>1, <2>3, <2>4, <2>5 DEF Serving, Served
<1>13. CASE size + n # Len(l) + 1
  <2>1. step' = "recv"
    <3>1. Ends(buffer', size') = {}
      BY <1>8, <1>13
    <3>2. size' < Capacity
      BY <1>1, <1>6
    <3> QED BY <3>1, <3>2 DEF Recv
  <2>2. Len(wire') = Len(l) + 1 - size' /\ size' <= Len(l)
    <3>1. size' = size + n /\ Len(wire') = Len(wire) - n /\ Len(wire) = Len(l) + 1 - size
      BY <1>1, <1>5, <1>9
    <3> QED BY <1>6, <1>13, <3>1
  <2>3. Arriving(l)'
    BY <1>9, <1>10, <2>2 DEF Arriving
  <2>4. client' # "none" /\ client' # "lost"
    BY <1>1, <1>5 DEF Serving, Served
  <2> QED BY <1>1, <1>2, <1>11, <2>1, <2>3, <2>4 DEF Serving, Served
<1> QED BY <1>12, <1>13

\* The line that is run is all there is.
LEMMA RunsAll ==
  ASSUME Serving, step = "run"
  PROVE  \E l \in Lines : /\ todo = <<l>> /\ size = Len(l) + 1 /\ wire = <<>>
                          /\ Loc = Len(l) /\ \A i \in 0 .. size - 1 : buffer[i] = Byte(l, i + 1)
<1>1. PICK l \in Lines : todo = <<l>> /\ Arrived(l)
  BY DEF Serving, Served
<1>2. Len(l) \in Nat
  BY LineIs
<1>3. Ends(buffer, size) = {Len(l)}
  BY <1>1, <1>2, EndsThere DEF Arrived, Received
<1>4. Loc = Len(l)
  BY <1>2, <1>3 DEF Loc, Min
<1> QED BY <1>1, <1>4 DEF Arrived, Received

LEMMA RunServes == ASSUME Serving, Run PROVE Serving'
<1>1. PICK l \in Lines : todo = <<l>> /\ size = Len(l) + 1 /\ wire = <<>> /\ Loc = Len(l)
  BY RunsAll DEF Run
<1>2. Len(l) \in Nat
  BY LineIs
<1>3. step' = "recv" /\ todo' = <<>> /\ size' = 0 /\ UNCHANGED <<client, wire>> /\ step = "run"
  BY <1>1, <1>2 DEF Run, Scroll
<1>4. buffer' \in [Offsets -> Letters \cup {"nl", "nul", "junk"}]
  <2>1. buffer \in [Offsets -> Letters \cup {"nl", "nul", "junk"}] /\ Capacity \in Nat
    BY SizesAssumption DEF Serving, ReaderTypeOK
  <2>2. ASSUME NEW i \in Offsets PROVE Moved(i) \in Letters \cup {"nl", "nul", "junk"}
    <3>1. Loc + 1 + i < Capacity => Loc + 1 + i \in Offsets
      BY <1>1, <1>2, <2>1 DEF Offsets
    <3> QED BY <2>1, <3>1 DEF Moved
  <2> QED BY <2>1, <2>2 DEF Run, Scroll
<1>5. ReaderTypeOK'
  BY <1>3, <1>4, SizesAssumption DEF Serving, ReaderTypeOK
<1> QED BY <1>1, <1>3, <1>5 DEF Serving, Served

LEMMA QuitServes == ASSUME Serving, Quit PROVE Serving'
<1>1. step = "recv" /\ step' = "shut" /\ wire = <<>> /\ client \in {"left", "lost"}
      /\ UNCHANGED <<buffer, size, client, wire, todo>>
  BY DEF Quit
<1>2. ReaderTypeOK'
  BY <1>1 DEF Serving, ReaderTypeOK
<1>3. ASSUME client = "left" PROVE todo = <<>>
  <2>1. ASSUME NEW l \in Lines, Arriving(l) PROVE FALSE
    <3>1. Len(wire) = Len(l) + 1 - size /\ size <= Len(l) /\ Len(l) \in Nat /\ size \in Nat
      BY <1>3, <2>1, LineIs, SizesAssumption DEF Arriving, Serving, ReaderTypeOK
    <3>2. Len(wire) = 0
      BY <1>1
    <3> QED BY <3>1, <3>2
  <2> QED BY <1>1, <2>1 DEF Serving, Served
<1> QED BY <1>1, <1>2, <1>3 DEF Serving, Served

LEMMA CloseServes == ASSUME Serving, CloseSocket PROVE Serving'
<1>1. step = "shut" /\ step' = "none" /\ wire' = <<>> /\ todo' = <<>> /\ client' = "none"
      /\ UNCHANGED <<buffer, size>>
  BY DEF CloseSocket, Serving, Served
<1>2. <<>> \in Seq(Lines) /\ <<>> \in Seq(Letters \cup {"nl"})
  OBVIOUS
<1> QED BY <1>1, <1>2 DEF Serving, ReaderTypeOK, Served

LEMMA ReaderStep == ASSUME Prompted, Serving, [ReaderNext]_reader PROVE Serving'
<1>1. CASE UNCHANGED reader
  BY <1>1 DEF reader, Serving, ReaderTypeOK, Served, Arriving, Arrived, Received
<1> QED
  BY <1>1, ConnectServes, SendServes, LeaveServes, AcceptServes, RecvServes, RunServes,
     QuitServes, CloseServes DEF ReaderNext, ReceiveSome

\* A client that waits for the prompt has the lines run that it has sent, of any
\* length the buffer takes and cut into segments of any size; and its buffer is
\* never found full.  (server.c:35, the assertion of server.c:69)
THEOREM RunsLines ==
  Prompted => (ReaderSpec => [](RunsWhatWasSent /\ step # "assert"))
<1> SUFFICES ASSUME Prompted PROVE ReaderSpec => [](RunsWhatWasSent /\ step # "assert")
  OBVIOUS
<1>1. Serving => RunsWhatWasSent /\ step # "assert"
  <2> SUFFICES ASSUME Serving, step = "run"
               PROVE  todo # <<>> /\ [i \in 1 .. Loc |-> buffer[i - 1]] = Head(todo)
    BY DEF Serving, Served, RunsWhatWasSent
  <2>1. PICK l \in Lines : /\ todo = <<l>> /\ size = Len(l) + 1 /\ Loc = Len(l)
                           /\ \A i \in 0 .. size - 1 : buffer[i] = Byte(l, i + 1)
    BY RunsAll
  <2>2. l \in Seq(Letters) /\ Len(l) \in Nat
    BY LineIs
  <2>3. ASSUME NEW i \in 1 .. Len(l) PROVE buffer[i - 1] = l[i]
    <3>1. i - 1 \in 0 .. size - 1 /\ (i - 1) + 1 = i /\ i <= Len(l)
      BY <2>1, <2>2
    <3> QED BY <2>1, <3>1 DEF Byte
  <2>4. [i \in 1 .. Loc |-> buffer[i - 1]] = l
    BY <2>1, <2>2, <2>3
  <2> QED BY <2>1, <2>4
<1>2. Serving /\ [ReaderNext]_reader => Serving'
  BY ReaderStep
<1> QED BY <1>1, <1>2, ReaderBase, PTL DEF ReaderSpec
=============================================================================
