-------------------------------- MODULE Json --------------------------------
(***************************************************************************)
(* json.c: queries into a JSON text that is read once, character by        *)
(* character, by an automaton with three stacks: `stack` of scopes, `path` *)
(* to the value being read, `acc` with how many items every open container *)
(* has had.  json_query_location() stops where a value begins whose path   *)
(* matches, json_query_i32() reads the number there, json_query_count()    *)
(* stops where a container ends whose path matches.                        *)
(*                                                                         *)
(* The text is written while it is read: `open` is the document's own      *)
(* structure, which the automaton never sees.  A name, a number and the    *)
(* inside of a string are one character each.  Names are not empty and are *)
(* unique in their object.                                                 *)
(***************************************************************************)
EXTENDS Integers, Sequences

CONSTANTS
  Names,        (* names of members                                        *)
  Numerals,     (* words of a query that are numbers,                      *)
  Number(_),    (* and which: strtoul(); 0 for a word that is none         *)
  Values,       (* numbers in the document                                 *)
  Queries,      (* the paths asked for, sequences of words                 *)
  Shaped,       (* no array where a query asks for a name                  *)
  MaxDepth,     (* bound: containers inside each other                     *)
  MaxItems      (* bound: items of a container                             *)

NoWord == "unnamed"

ASSUME WordsAssumption ==
  /\ NoWord \notin Names
  /\ \A w \in Numerals : Number(w) \in Nat
  /\ \A q \in Queries : q \in Seq(Names \cup Numerals)
  /\ \A q \in Queries : \A i \in 1 .. Len(q) : q[i] \notin Numerals => Number(q[i]) = 0
ASSUME ValuesAssumption == Values \subseteq Nat
ASSUME ShapedAssumption == Shaped \in BOOLEAN
ASSUME BoundsAssumption == MaxDepth \in Nat /\ MaxItems \in Nat

\* span_t: a name, or the index of an element (sz = 0).
Spans == [word : Names \cup {NoWord}, index : Nat]
Named(w) == [word |-> w, index |-> 0]
Indexed(n) == [word |-> NoWord, index |-> n]

VARIABLES
  open,     (* of each container not closed: kind, items begun, the one    *)
            (* being written, names used                                   *)
  phase,    (* what may be written next                                    *)
  self,     (* json_t: the automaton                                       *)
  loc,      (* of each query: "none", "here" where the text goes on behind *)
            (* the location, "read"                                        *)
  value,    (* what json_query_i32() returns; -1 before or without number  *)
  count,    (* what json_query_count() returns; -1 before                  *)
  meant,    (* history: the number the document has at the query's path    *)
  total     (* history: the items of the container at the query's path     *)

text == <<open, phase>>
results == <<loc, value, count>>
truth == <<meant, total>>
vars == <<text, self, results, truth>>

-----------------------------------------------------------------------------
(* The automaton.                                                           *)

Tail_(vec) == vec[Len(vec)]
Pop(vec) == SubSeq(vec, 1, Len(vec) - 1)

\* json_enter().  `fresh` stands for the location counter that the loop of a
\* query compares.
Enter(x, scope) ==
  [x EXCEPT
    !.stack = Append(@, scope),
    !.acc = IF scope \in {"OBJECT", "ARRAY"} THEN Append(@, 0) ELSE @,
    !.span = IF scope \in {"KEY", "STR", "PRIMITIVE"} THEN NoWord ELSE @,
    !.path = IF scope = "VALUE"
             THEN Append(@, IF Tail_(x.stack) = "OBJECT" THEN Named(x.span) ELSE Indexed(Tail_(x.acc)))
             ELSE @,
    !.fresh = @ \/ scope = "VALUE"]

\* Mutant: a member keeps its place in the path.
LeaveKeeps(x, scope) ==
  [x EXCEPT
    !.failed = @ \/ Tail_(x.stack) # scope,
    !.stack = Pop(@),
    !.acc = IF scope \in {"OBJECT", "ARRAY"} THEN Pop(@) ELSE @,
    !.left = IF scope \in {"OBJECT", "ARRAY"} THEN <<x.path, Tail_(x.acc)>> ELSE @]

\* json_leave(), which asserts that it is in this scope.  `left` is what the
\* callback is called with for a container: path and items.
Leave(x, scope) ==
  [x EXCEPT
    !.failed = @ \/ Tail_(x.stack) # scope,
    !.stack = Pop(@),
    !.acc = IF scope \in {"OBJECT", "ARRAY"} THEN Pop(@) ELSE @,
    !.path = IF scope = "VALUE" THEN Pop(@) ELSE @,
    !.left = IF scope \in {"OBJECT", "ARRAY"} THEN <<x.path, Tail_(x.acc)>> ELSE @]

Tick(x) == [x EXCEPT !.acc[Len(x.acc)] = @ + 1]
Fail(x) == [x EXCEPT !.failed = TRUE]

\* json_root().
Root(x, c) ==
  CASE c = "{" -> Enter(x, "OBJECT")
    [] c = "[" -> Enter(Enter(x, "ARRAY"), "VALUE")
    [] c = "space" -> x
    [] OTHER -> Fail(x)

\* json_object().
Object(x, c) ==
  CASE c = "}" -> Leave(x, "OBJECT")
    [] c = "quote" -> Enter(x, "KEY")
    [] c = ":" -> Enter(x, "VALUE")
    [] c = "space" -> x
    [] OTHER -> Fail(x)

\* json_key(): w is the name.
Key(x, c, w) == IF c = "quote" THEN Leave(x, "KEY") ELSE [x EXCEPT !.span = w]

\* Mutant: objects are not counted.
ValueUncounted(x, c) ==
  CASE c = "number" -> Enter(Tick(x), "PRIMITIVE")
    [] c = "quote" -> Enter(Tick(x), "STR")
    [] c = "{" -> Enter(x, "OBJECT")
    [] c = "[" -> Enter(Enter(Tick(x), "ARRAY"), "VALUE")
    [] c = "," -> LET y == Leave(x, "VALUE")
                  IN IF Tail_(y.stack) = "ARRAY" THEN Enter(y, "VALUE") ELSE y
    [] c = "}" -> Leave(Leave(x, "VALUE"), "OBJECT")
    [] c = "]" -> Leave(Leave(x, "VALUE"), "ARRAY")
    [] OTHER -> x

\* json_value().
Value(x, c) ==
  CASE c = "number" -> Enter(Tick(x), "PRIMITIVE")
    [] c = "quote" -> Enter(Tick(x), "STR")
    [] c = "{" -> Enter(Tick(x), "OBJECT")
    [] c = "[" -> Enter(Enter(Tick(x), "ARRAY"), "VALUE")
    [] c = "," -> LET y == Leave(x, "VALUE")
                  IN IF Tail_(y.stack) = "ARRAY" THEN Enter(y, "VALUE") ELSE y
    [] c = "}" -> Leave(Leave(x, "VALUE"), "OBJECT")
    [] c = "]" -> Leave(Leave(x, "VALUE"), "ARRAY")
    [] OTHER -> x

\* json_primitive(): its end is noticed by the character behind it.
Primitive(x, c) == IF c = "number" THEN x ELSE Value(Leave(x, "PRIMITIVE"), c)

\* json_str().
Str(x, c) == IF c = "quote" THEN Leave(x, "STR") ELSE x

\* json_dispatch().
Dispatch(x0, c, w) ==
  LET x == [x0 EXCEPT !.fresh = FALSE, !.left = <<>>]
      top == Tail_(x.stack)
  IN CASE top = "ROOT" -> Root(x, c)
       [] top = "OBJECT" -> Object(x, c)
       [] top = "KEY" -> Key(x, c, w)
       [] top = "VALUE" -> Value(x, c)
       [] top = "STR" -> Str(x, c)
       [] top = "PRIMITIVE" -> Primitive(x, c)

\* Mutant: a longer path matches.
MatchesBegin(path, q) ==
  /\ Len(path) >= Len(q)
  /\ \A i \in 1 .. Len(q) : IF path[i].word # NoWord THEN q[i] = path[i].word
                            ELSE Number(q[i]) = path[i].index

\* json_match_path(): a name is compared as text; of an index, the word of the
\* query is taken as a number.
Matches(path, q) ==
  /\ Len(path) = Len(q)
  /\ \A i \in 1 .. Len(q) : IF path[i].word # NoWord THEN q[i] = path[i].word
                            ELSE Number(q[i]) = path[i].index

\* A character of the text is read, by all queries: json_query_location(),
\* json_query_i32() and json_query_count() with its callback.
Read(c, w, n) ==
  /\ self' = Dispatch(self, c, w)
  /\ loc' = [q \in Queries |->
       CASE loc[q] = "none" /\ self'.fresh /\ Matches(self'.path, q) -> "here"
         [] loc[q] = "here" /\ c # "space" -> "read"
         [] OTHER -> loc[q]]
  /\ value' = [q \in Queries |->
       IF loc[q] = "here" /\ c = "number" THEN n ELSE value[q]]
  /\ count' = [q \in Queries |->
       IF count[q] = -1 /\ self'.left # <<>> /\ Matches(self'.left[1], q)
       THEN self'.left[2] ELSE count[q]]

-----------------------------------------------------------------------------
(* The document.                                                            *)

Depth == Len(open)
Inner == open[Depth]

\* The path of the value being written or awaited, by the document's structure.
Where == [i \in 1 .. Depth |-> open[i].at]

\* A word of a query means a member of that name or the element of that number.
StepMeant(s, w) ==
  IF s.word # NoWord THEN w = s.word ELSE w \in Numerals /\ Number(w) = s.index
Meant(path, q) == Len(path) = Len(q) /\ \A i \in 1 .. Len(q) : StepMeant(path[i], q[i])

\* No query asks an array at this path for a name.
ArrayFits(path) ==
  \A q \in Queries :
    Len(q) > Len(path) /\ (\A i \in 1 .. Len(path) : StepMeant(path[i], q[i]))
      => q[Len(path) + 1] \in Numerals

Container(kind) ==
  [kind |-> kind, items |-> 0, at |-> Indexed(0), used |-> {}]

\* What stays when an item begins in the innermost container, if there is one.
Begun == IF Depth = 0 THEN open ELSE [open EXCEPT ![Depth].items = @ + 1]

MayBegin ==
  \/ phase = "value"
  \/ phase = "first" /\ Inner.kind = "array"

\* The phase once a value is complete.
Complete(frames) == IF frames = <<>> THEN "end" ELSE "done"

Open(kind, c) ==
  /\ Depth < MaxDepth
  /\ phase = "root" \/ MayBegin
  /\ kind = "array" /\ Shaped => ArrayFits(Where)
  /\ open' = Append(Begun, Container(kind))
  /\ phase' = "first"
  /\ Read(c, NoWord, -1)
  /\ UNCHANGED truth

OpenObject == Open("object", "{")
OpenArray == Open("array", "[")

Close(kind, c) ==
  /\ Depth > 0 /\ Inner.kind = kind
  /\ phase \in {"first", "done", "atom"}
  /\ open' = Pop(open)
  /\ phase' = Complete(open')
  /\ Read(c, NoWord, -1)
  /\ total' = [q \in Queries |->
       IF total[q] = -1 /\ Meant(Pop(Where), q) THEN Inner.items ELSE total[q]]
  /\ UNCHANGED meant

CloseObject == Close("object", "}")
CloseArray == Close("array", "]")

\* A number.
Atom(n) ==
  /\ MayBegin
  /\ open' = Begun /\ phase' = "atom"
  /\ Read("number", NoWord, n)
  /\ meant' = [q \in Queries |-> IF Meant(Where, q) THEN n ELSE meant[q]]
  /\ UNCHANGED total

\* A string begins, and ends after any characters but quotes and escapes.
StringBegins ==
  /\ MayBegin
  /\ open' = Begun /\ phase' = "string"
  /\ Read("quote", NoWord, -1)
  /\ UNCHANGED truth

InString(c) == phase = "string" /\ Read(c, NoWord, -1) /\ UNCHANGED <<text, truth>>

StringEnds ==
  /\ phase = "string" /\ phase' = "done"
  /\ Read("quote", NoWord, -1)
  /\ UNCHANGED <<open, truth>>

\* A member: its name in quotes, and the colon.
NameBegins ==
  /\ Depth > 0 /\ Inner.kind = "object"
  /\ phase \in {"first", "next"} /\ Inner.items < MaxItems
  /\ phase' = "name"
  /\ Read("quote", NoWord, -1)
  /\ UNCHANGED <<open, truth>>

Name(w) ==
  /\ phase = "name" /\ w \notin Inner.used
  /\ open' = [open EXCEPT ![Depth].at = Named(w), ![Depth].used = @ \cup {w}]
  /\ phase' = "named"
  /\ Read("word", w, -1)
  /\ UNCHANGED truth

NameEnds ==
  /\ phase = "named" /\ phase' = "colon"
  /\ Read("quote", NoWord, -1)
  /\ UNCHANGED <<open, truth>>

Colon ==
  /\ phase = "colon" /\ phase' = "value"
  /\ Read(":", NoWord, -1)
  /\ UNCHANGED <<open, truth>>

Comma ==
  /\ phase \in {"done", "atom"} /\ Depth > 0 /\ Inner.items < MaxItems
  /\ IF Inner.kind = "array"
     THEN phase' = "value" /\ open' = [open EXCEPT ![Depth].at = Indexed(Inner.items)]
     ELSE phase' = "next" /\ UNCHANGED open
  /\ Read(",", NoWord, -1)
  /\ UNCHANGED truth

\* White space outside of names and strings ends a number.
Space ==
  /\ phase \notin {"name", "named", "string"}
  /\ phase' = IF phase = "atom" THEN "done" ELSE phase
  /\ Read("space", NoWord, -1)
  /\ UNCHANGED <<open, truth>>

Write ==
  \/ OpenObject \/ OpenArray \/ CloseObject \/ CloseArray
  \/ \E n \in Values : Atom(n)
  \/ StringBegins \/ StringEnds
  \/ \E c \in {"{", "}", "[", "]", ":", ",", "space", "word"} : InString(c)
  \/ NameBegins \/ NameEnds \/ Colon \/ Comma \/ Space
  \/ \E w \in Names : Name(w)

\* Every query starts with an automaton of its own.
Unread == [stack |-> <<"ROOT">>, path |-> <<>>, acc |-> <<>>, span |-> NoWord,
           fresh |-> FALSE, left |-> <<>>, failed |-> FALSE]
Unanswered == [q \in Queries |-> -1]

JsonInit ==
  /\ open = <<>> /\ phase = "root"
  /\ self = Unread
  /\ loc = [q \in Queries |-> "none"] /\ value = Unanswered /\ count = Unanswered
  /\ meant = Unanswered /\ total = Unanswered

JsonSpec == JsonInit /\ [][Write]_vars

-----------------------------------------------------------------------------
(* Properties.                                                              *)

\* The automaton knows where it is in a document of any depth: no assertion
\* fails, its path is the path of the value being written, and its counters are
\* the items of the open containers.  (asserts of json.c:134 and 161)
Tracks ==
  /\ ~self.failed
  /\ self.acc = [i \in 1 .. Depth |-> open[i].items]
  /\ phase \in {"value", "string", "atom", "done"} => self.path = Where

\* Queries answer from the document: a query for a number returns the number at
\* that path and no other, a query for a count the number of items of the
\* container there, once it has ended.  (json.c:408 and 452)
Answers == value = meant /\ count = total
=============================================================================
