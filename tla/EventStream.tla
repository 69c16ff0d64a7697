------------------------------ MODULE EventStream ------------------------------
(***************************************************************************)
(* The server-sent events of an answer, read from a body that arrives in   *)
(* chunks cut anywhere: C7's own parser (the mock provider's, with a limit *)
(* on its buffer), the one OpenAI and OpenRouter share, and Anthropic's.   *)
(*                                                                         *)
(* A body is a sequence of symbols: "n" is a newline, "data" the field's   *)
(* prefix, "ok" a JSON text the parser hands on a chunk for, "done" the    *)
(* [DONE] mark, "delta" and "stop" whole event: lines of Anthropic's       *)
(* (those whose data is handed on, and message_stop); anything else is     *)
(* text.  What is handed on is recorded as its place in the body.          *)
(***************************************************************************)
EXTENDS Naturals, Sequences, FiniteSetsExt, Functions

CONSTANTS Parsers,  \* of "adapter", "openai" and "anthropic"
          Bodies,   \* the answers each may get
          Cap       \* _MAX_BUFFER

ASSUME StreamAssumption ==
  /\ Parsers \subseteq {"adapter", "openai", "anthropic"}
  /\ \A p \in Parsers : \A answer \in Bodies[p] : answer \in Seq(STRING)
  /\ Cap \in Nat

VARIABLES
  parser, body,   \* what is read, and by which parser
  received,       \* symbols of it that have arrived
  buffer,         \* of these, the ones that are not yet dealt with
  given,          \* the payloads handed on
  due,            \* what of an event is still to be, and how to go on then
  status          \* how far the parser is

streamVars == <<parser, body, received, buffer, given, due, status>>

Result(payloads, then) == [payloads |-> payloads, then |-> then]

Nothing == Result({}, "reading")

StreamTypeOK ==
  /\ parser \in Parsers /\ body \in Bodies[parser]
  /\ received \in 0..Len(body)
  /\ Len(buffer) <= received
  /\ parser = "adapter" /\ status # "overflow" => Len(buffer) <= Cap
  /\ given \in Seq(1..received)
  /\ due \in [payloads : SUBSET (1..received), then : {"reading", "returned", "raised"}]
  /\ status \in {"reading", "yielding", "returned", "raised", "ended", "overflow"}
  /\ status = "yielding" <=> due.payloads # {}

StreamInit ==
  /\ parser \in Parsers /\ body \in Bodies[parser]
  /\ received = 0 /\ buffer = <<>> /\ given = <<>>
  /\ due = Nothing
  /\ status = "reading"

-----------------------------------------------------------------------------
(* One event: the text before an empty line                                *)

PairAt(seq, i, pair) == {i, i + 1} \subseteq DOMAIN seq /\ <<seq[i], seq[i + 1]>> = pair

LineStarts(event) ==
  {i \in DOMAIN event : i = 1 \/ event[i - 1] = "n"}

DataLines(event) == {i \in LineStarts(event) : event[i] = "data"}

(* The line at i is a data line with just this text.                       *)
Says(event, i, text) ==
  /\ PairAt(event, i, <<"data", text>>)
  /\ i + 2 \in DOMAIN event => event[i + 2] = "n"

(* _consume_sse looks at the first line only, and skips what is not JSON.  *)
AdapterReads(event) ==
  IF Says(event, 1, "ok") THEN Result({2}, "reading")
  ELSE IF Says(event, 1, "done") THEN Result({}, "returned") ELSE Nothing

(* _consume_openai_sse goes through the data lines up to one that is [DONE]*)
(* or not JSON.                                                            *)
OpenAIReads(event) ==
  LET stops == {i \in DataLines(event) : ~Says(event, i, "ok")}
  IN  Result({i + 1 : i \in {j \in DataLines(event) : \A k \in stops : j < k}},
             IF stops = {} THEN "reading"
             ELSE IF Says(event, Min(stops), "done") THEN "returned" ELSE "raised")

(* _consume_anthropic_sse joins the data lines, and tells events by the    *)
(* last event: line.                                                       *)
AnthropicReads(event) ==
  LET names == {i \in LineStarts(event) : event[i] \in {"delta", "stop"}}
      name  == IF names = {} THEN "" ELSE event[Max(names)]
  IN  IF DataLines(event) = {} THEN Nothing
      ELSE IF \E i \in DataLines(event) : DataLines(event) # {i} \/ ~Says(event, i, "ok")
             THEN Result({}, "raised")
      ELSE IF name = "delta" THEN Result({i + 1 : i \in DataLines(event)}, "reading")
      ELSE IF name = "stop" THEN Result({}, "returned") ELSE Nothing

Reads(event) ==
  CASE parser = "adapter"   -> AdapterReads(event)
    [] parser = "openai"    -> OpenAIReads(event)
    [] parser = "anthropic" -> AnthropicReads(event)

-----------------------------------------------------------------------------
(* Reading the body                                                        *)

(* Where the buffer has an empty line.                                     *)
Terminators == {i \in DOMAIN buffer : PairAt(buffer, i, <<"n", "n">>)}

(* How much of the body has been dealt with.                               *)
Done == received - Len(buffer)

(* A chunk arrives, after all whole events of the ones before were dealt   *)
(* with.  C7's second look at the limit, after an event was taken out,     *)
(* cannot fail: the buffer was within it before.                           *)
Receive(size) ==
  /\ status = "reading" /\ Terminators = {}
  /\ received + size <= Len(body)
  /\ received' = received + size
  /\ buffer' = buffer \o SubSeq(body, received + 1, received + size)
  /\ status' = IF parser = "adapter" /\ Len(buffer') > Cap THEN "overflow" ELSE "reading"
  /\ UNCHANGED <<parser, body, given, due>>

(* The event in hand is dealt with once nothing of it is due.              *)
GoesOn(next) ==
  /\ due' = next
  /\ status' = IF next.payloads = {} THEN next.then ELSE "yielding"

(* Faulty variant: one event a chunk, and the rest of it is dropped.       *)
TakeEventOnly ==
  /\ status = "reading" /\ Terminators # {}
  /\ LET result == Reads(SubSeq(buffer, 1, Min(Terminators) - 1))
     IN  GoesOn(Result({Done + i : i \in result.payloads}, result.then))
  /\ buffer' = <<>>
  /\ UNCHANGED <<parser, body, received, given>>

(* An event is taken from the buffer.                                      *)
TakeEvent ==
  /\ status = "reading" /\ Terminators # {}
  /\ LET sep    == Min(Terminators)
         result == Reads(SubSeq(buffer, 1, sep - 1))
     IN  /\ GoesOn(Result({Done + i : i \in result.payloads}, result.then))
         /\ buffer' = SubSeq(buffer, sep + 2, Len(buffer))
  /\ UNCHANGED <<parser, body, received, given>>

(* The next payload of it is handed on, to a caller that may stop here.    *)
Yield ==
  /\ status = "yielding"
  /\ given' = Append(given, Min(due.payloads))
  /\ GoesOn(Result(due.payloads \ {Min(due.payloads)}, due.then))
  /\ UNCHANGED <<parser, body, received, buffer>>

(* Faulty variant: the events still in the buffer are not looked at.       *)
EndOfBodyUndrained ==
  /\ status = "reading" /\ received = Len(body)
  /\ status' = "ended"
  /\ UNCHANGED <<parser, body, received, buffer, given, due>>

(* The body ends; an event without its empty line is dropped.              *)
EndOfBody ==
  /\ status = "reading" /\ Terminators = {} /\ received = Len(body)
  /\ status' = "ended"
  /\ UNCHANGED <<parser, body, received, buffer, given, due>>

StreamNext ==
  \/ \E size \in 1..Len(body) : Receive(size)
  \/ TakeEvent
  \/ Yield
  \/ EndOfBody

StreamSpec == StreamInit /\ [][StreamNext]_streamVars

-----------------------------------------------------------------------------
(* Correctness                                                             *)

(* The whole body, read at once: an event ends with every second newline   *)
(* of a run of them.                                                       *)
EventEnds ==
  {e \in 1..Len(body) : \E start \in 0..(e - 1) :
     /\ (e - start) % 2 = 0
     /\ \A i \in (start + 1)..e : body[i] = "n"
     /\ start = 0 \/ body[start] # "n"}

Before(e) == Max({0} \union {f \in EventEnds : f < e})

EventAt(e) == SubSeq(body, Before(e) + 1, e - 2)

Stops == {e \in EventEnds : Reads(EventAt(e)).then # "reading"}

Promised(upto) ==
  LET stops == Stops
  IN  UNION {{Before(e) + i : i \in Reads(EventAt(e)).payloads} :
               e \in {f \in EventEnds : f <= upto /\ \A g \in stops : f <= g}}

(* However the body is cut into chunks, what is handed on or due of the    *)
(* events taken is what a reader of the whole body would hand on: every    *)
(* payload up to the one that stops the stream, once, and in the body's    *)
(* order.  (That the buffer keeps to its limit is in the types.)           *)
ExactlyOnce ==
  /\ StreamTypeOK
  /\ Range(given) \union due.payloads = Promised(Done)
  /\ \A i, j \in DOMAIN given : i < j => given[i] < given[j]
  /\ \A i \in DOMAIN given : \A j \in due.payloads : given[i] < j
  /\ status = "ended" => Range(given) = Promised(Len(body))

(* How reading ends is decided by the body, not by its chunks, but for the *)
(* limit of the buffer: by its first [DONE], message_stop or text that is  *)
(* not JSON, and otherwise by its end.                                     *)
EndsAsSent ==
  CASE status = "ended" -> Stops = {}
    [] status \in {"returned", "raised"} ->
         Stops # {} /\ status = Reads(EventAt(Min(Stops))).then /\ Done = Min(Stops)
    [] OTHER -> \A e \in Stops : Done < e \/ (status = "yielding" /\ Done = e)
=============================================================================
