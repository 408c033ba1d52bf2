----------------------------- MODULE LineReader -----------------------------
(***************************************************************************)
(* read_lines() of server.c: a TCP client task collects what it receives   *)
(* in a buffer, executes the first line in it, and moves what follows the  *)
(* line to the front.  The client, c2.py or a terminal, sends lines.       *)
(*                                                                         *)
(* Clients come one after the other: the socket listens with a backlog of  *)
(* one, and a client counts until its socket is closed.                    *)
(***************************************************************************)
EXTENDS Integers, Sequences, FiniteSetsExt

CONSTANTS
  Letters,    (* what lines are made of                                    *)
  MaxLine,    (* bound: length of a line without its end                   *)
  Capacity,   (* of the buffer (16383)                                     *)
  MaxAhead,   (* bound: lines sent and not yet executed                    *)
  Prompted    (* the client waits for the prompt before it sends a line    *)

ASSUME LettersAssumption == {"nl", "nul", "junk"} \cap Letters = {}
ASSUME SizesAssumption ==
  MaxLine \in Nat /\ MaxAhead \in Nat \ {0} /\ Capacity \in Nat /\ Capacity > MaxLine + 1
ASSUME PromptedAssumption == Prompted \in BOOLEAN

Lines == UNION {[1 .. n -> Letters] : n \in 0 .. MaxLine}
Offsets == 0 .. Capacity - 1

VARIABLES
  buffer,   (* by offset; "junk" is what is read beyond its end            *)
  size,     (* bytes received and not consumed                             *)
  step,     (* "none" without a client_task(), else "recv", "run", "shut", *)
            (* or "assert", where the task spins                           *)
  client,   (* "none", "open", or "left" when it has closed its end; or    *)
            (* "lost" when the connection has broken                       *)
  wire,     (* bytes sent and not yet received                             *)
  todo      (* history: lines sent and not yet executed                    *)

reader == <<buffer, size, step, client, wire, todo>>

ReaderTypeOK ==
  /\ buffer \in [Offsets -> Letters \cup {"nl", "nul", "junk"}]
  /\ size \in 0 .. Capacity
  /\ step \in {"none", "recv", "run", "shut", "assert"}
  /\ client \in {"none", "open", "left", "lost"}
  /\ wire \in Seq(Letters \cup {"nl"})
  /\ todo \in Seq(Lines)

\* malloc() does not clear: what is there may hold line ends.
Uncleared == [Offsets -> {"junk", "nl"}]

ReaderInit ==
  /\ buffer \in Uncleared /\ size = 0
  /\ step = "none" /\ client = "none" /\ wire = <<>> /\ todo = <<>>

-----------------------------------------------------------------------------
(* The client.                                                              *)

\* The stack accepts a connection for a listening socket without a child.
Connect ==
  /\ client = "none" /\ client' = "open"
  /\ UNCHANGED <<buffer, size, step, wire, todo>>

\* The client sends a line, the first one after "Hello!" and a prompt.
SendLine(l) ==
  /\ client = "open" /\ (Prompted => step # "none")
  /\ Len(todo) < (IF Prompted THEN 1 ELSE MaxAhead)
  /\ wire' = wire \o Append(l, "nl")
  /\ todo' = Append(todo, l)
  /\ UNCHANGED <<buffer, size, step, client>>

\* The client closes its end, behind what it has sent; or the connection
\* breaks, with what was under way.
Leave ==
  /\ client = "open"
  /\ \/ client' = "left" /\ UNCHANGED wire
     \/ client' = "lost" /\ wire' = <<>>
  /\ UNCHANGED <<buffer, size, step, todo>>

-----------------------------------------------------------------------------
(* The server.                                                              *)

\* server_task() has accepted the client; its client_task() greets it and
\* enters read_lines(), whose buffer may be that of the client before.
Accept ==
  /\ step = "none" /\ client # "none"
  /\ buffer' \in Uncleared \cup {buffer} /\ size' = 0
  /\ step' = "recv"
  /\ UNCHANGED <<client, wire, todo>>

\* Mutant: the search is not limited to what has been received.
EndsAnywhere(b, n) == {i \in Offsets : b[i] = "nl"}

\* Mutant: the last byte is not looked at.
EndsShort(b, n) == {i \in 0 .. n - 2 : b[i] = "nl"}

\* Where lines end among the first n bytes of b: memmem().
Ends(b, n) == {i \in 0 .. n - 1 : b[i] = "nl"}

\* FreeRTOS_recv() gave n bytes, or none before its timeout; status < 0 is Quit.
Recv(n) ==
  /\ step = "recv" /\ n <= Capacity - size /\ n <= Len(wire)
  /\ n = 0 => wire = <<>> /\ Ends(buffer, size) # {}
  /\ buffer' = [i \in Offsets |-> IF size <= i /\ i < size + n THEN wire[i - size + 1] ELSE buffer[i]]
  /\ size' = size + n
  /\ wire' = SubSeq(wire, n + 1, Len(wire))
  /\ step' = IF Ends(buffer', size') # {} THEN "run"
             ELSE IF size' < Capacity THEN "recv" ELSE "assert"
  /\ UNCHANGED <<client, todo>>

Loc == Min(Ends(buffer, size))

\* Where the byte comes from that the memmove() puts at offset i.
Moved(i) == IF Loc + 1 + i < Capacity THEN buffer[Loc + 1 + i] ELSE "junk"

\* memmove(buffer, loc + 1, loc - buffer + 1): as many bytes are moved as the
\* line had with its end, not as many as follow it.
Scroll ==
  /\ buffer' = [i \in Offsets |-> IF i > Loc THEN buffer[i] ELSE Moved(i)]
  /\ size' = size - (Loc + 1)

\* run() of the first line, the prompt, and the scroll.  The assertion holds:
\* the line has left room.
Run ==
  /\ step = "run"
  /\ Scroll /\ step' = "recv"
  /\ todo' = Tail(todo)
  /\ UNCHANGED <<client, wire>>

\* Mutant: read_lines() tries again when the connection is gone.
QuitNever ==
  /\ step = "recv" /\ client \in {"left", "lost"} /\ wire = <<>>
  /\ UNCHANGED reader

\* Nothing is left to receive from a client that is gone: read_lines() frees
\* the buffer and returns, the socket is shut down.
Quit ==
  /\ step = "recv" /\ client \in {"left", "lost"} /\ wire = <<>>
  /\ step' = "shut"
  /\ UNCHANGED <<buffer, size, client, wire, todo>>

\* After at most two more calls of FreeRTOS_recv() the socket is closed, and
\* the task deletes itself.
CloseSocket ==
  /\ step = "shut" /\ step' = "none" /\ client' = "none"
  /\ todo' = IF client = "lost" THEN <<>> ELSE todo
  /\ UNCHANGED <<buffer, size, wire>>

ReceiveSome == \E n \in 0 .. Len(wire) : Recv(n)

ReaderNext ==
  \/ Connect \/ Leave
  \/ \E l \in Lines : SendLine(l)
  \/ Accept \/ ReceiveSome \/ Run \/ Quit \/ CloseSocket

\* What has been sent arrives, and the tasks are scheduled.
ReaderFairness ==
  /\ WF_reader(Accept) /\ WF_reader(ReceiveSome) /\ WF_reader(Run)
  /\ WF_reader(Quit) /\ WF_reader(CloseSocket)

ReaderSpec == ReaderInit /\ [][ReaderNext]_reader /\ ReaderFairness

-----------------------------------------------------------------------------
(* Properties.                                                              *)

\* The line that is executed is the one the client has sent, in its order and
\* however it was cut into segments; nothing of an earlier client's is
\* executed.  (server.c:35 "receive + run commands")
RunsWhatWasSent ==
  step = "run" => todo # <<>> /\ [i \in 1 .. Loc |-> buffer[i - 1]] = Head(todo)

\* A line that was sent is executed, also when the client leaves behind it,
\* unless the connection breaks.
EveryLineRuns == (todo # <<>>) ~> (todo = <<>> \/ client = "lost")

\* A client that is gone, however it went, makes room for the next one.
\* (server.c:136 "Backlog = 1")
MakesRoom == (client \in {"left", "lost"}) ~> (client = "none")
=============================================================================
