----------------------------- MODULE HttpParser -----------------------------
(***************************************************************************)
(* HttpParser (http/src/parser.ts) over the llhttp wrapper                 *)
(* (http/wasm/http_parser.c, http/src/wasm/bindings.ts), as operators on a *)
(* parser's record, and the framing that serialize.ts writes.  Bytes are   *)
(* abstracted to units: a head, a piece of body, the last chunk.           *)
(***************************************************************************)
EXTENDS Integers, Sequences, SequencesExt

CONSTANTS None,
          Chunked,  \* Transfer-Encoding: chunked
          ToEnd     \* no framing header: a response's body runs to the end of the stream

-----------------------------------------------------------------------------
(* Serializing *)

\* A message: [kind, method or status, body "null", "known" or "stream", the
\* number of its pieces, whether the stream fails after them, and the caller's
\* own Content-Length or None].
\* llhttp's skip-body set lacks 205: such a response without a framing header runs
\* to the end of the stream (llhttp itself is external).
Bodiless == {"204", "304"}
StatusAllowsBody(status) == status \notin Bodiless \cup {"205"}
HasBody(m) == m.body # "null" /\ (m.kind = "response" => StatusAllowsBody(m.line))

\* The framing header that goes out, None without one.
Framing(m) ==
  CASE m.declared # None                  -> m.declared
    [] m.declared = None /\ ~HasBody(m)   -> None
    [] m.declared = None /\ HasBody(m)    -> IF m.body = "known" THEN m.pieces ELSE Chunked

\* Mutant: a body with the caller's Content-Length is chunked as well.
ShouldChunkAlways(m) == HasBody(m)
ShouldChunkBody(m) == HasBody(m) /\ m.body # "known" /\ m.declared = None

\* What pipeBody enqueues; "throw" is controller.error.
PipeBody(m) ==
  IF ~HasBody(m) THEN <<>>
  ELSE [i \in 1 .. m.pieces |-> <<"data", i>>]
       \o IF m.fails THEN << <<"throw", None>> >>
          ELSE IF ShouldChunkBody(m) THEN << <<"last", None>> >> ELSE <<>>

Serialize(m) == << <<"head", [kind |-> m.kind, line |-> m.line, framing |-> Framing(m)]>> >>
                \o PipeBody(m)

-----------------------------------------------------------------------------
(* HttpParser *)

\* A new parser with nextMessage() called once, as fetch and serve do.
NewParser ==
  [closed |-> FALSE,
   due |-> 0,              \* microtasks of freeSoon() still to run
   frees |-> 0,            \* calls of free_http_parser on the handle
   misused |-> FALSE,      \* llhttp ran on a freed wrapper
   at |-> "start",         \* llhttp's state: "start", "body", "closed" or "failed"
   left |-> 0,             \* pieces of body to come, Chunked or ToEnd
   message |-> "pending",  \* the promise of nextMessage()
   line |-> None, body |-> <<>>, end |-> "none"]

Free(p) == IF p.frees > 0 THEN p ELSE [p EXCEPT !.frees = 1]

\* Mutant: the handle is freed inside llhttp's callback.
FreeNow(p) == Free([p EXCEPT !.closed = TRUE])
FreeSoon(p) == [p EXCEPT !.closed = TRUE, !.due = @ + 1]

RunFree(p) == Free([p EXCEPT !.due = @ - 1])

OnHeaders(p, head) ==
  [p EXCEPT !.message = "ready", !.line = head.line, !.end = "open"]

OnBody(p, i) == [p EXCEPT !.body = Append(@, i)]

EndBody(p, how) == IF p.end = "open" THEN [p EXCEPT !.end = how] ELSE p

OnComplete(p) == FreeSoon(EndBody(p, "closed"))

OnError(p) ==
  LET q == EndBody(p, "errored")
  IN FreeSoon(IF q.message = "pending" THEN [q EXCEPT !.message = "rejected"] ELSE q)

-----------------------------------------------------------------------------
(* The wrapper *)

\* llhttp goes on with the wrapper after a callback.
Called(p) == IF p.frees > 0 THEN [p EXCEPT !.misused = TRUE] ELSE p

Failed(p) == Called(OnError([p EXCEPT !.at = "failed"]))

\* With Connection: close nothing may follow a message.
Complete(p) == Called(OnComplete([p EXCEPT !.at = "closed"]))

\* How much body a head announces.
Announced(head) ==
  CASE head.line \in Bodiless -> 0
    [] head.line \notin Bodiless /\ head.framing # None -> head.framing
    [] head.line \notin Bodiless /\ head.framing = None ->
         IF head.kind = "request" THEN 0 ELSE ToEnd

ParseHead(p, head) ==
  LET n == Announced(head)
      q == OnHeaders([p EXCEPT !.at = "body", !.left = n], head)
  IN IF n = 0 THEN Complete(q) ELSE q

\* Without chunked framing every byte that arrives is body.
ParseBody(p, u) ==
  LET q == OnBody(p, u[2])
  IN CASE p.left = ToEnd -> q
       [] p.left = Chunked -> IF u[1] = "last" THEN Complete(p) ELSE q
       [] p.left \notin {Chunked, ToEnd} ->
            IF p.left = 1 THEN Complete([q EXCEPT !.left = 0])
            ELSE [q EXCEPT !.left = @ - 1]

Parse(p, u) ==
  CASE p.at = "failed" -> p
    [] p.at = "start" /\ u[1] = "head" -> ParseHead(p, u[2])
    [] p.at = "body" /\ u[1] # "head" -> ParseBody(p, u)
    [] OTHER -> Failed(p)

\* One chunk of the stream, which may hold several units: llhttp_execute goes
\* on past the end of a message.
Execute(p, units) == FoldLeft(Parse, Called(p), units)

\* llhttp_finish: before the first byte nothing happens and nothing is called;
\* a body that runs to the end completes; any other ends too early.
FinishParser(p) ==
  CASE p.at = "start" -> Called(p)
    [] p.at = "body" /\ p.left = ToEnd -> Complete(p)
    [] OTHER -> Failed(p)

\* Mutant: the end of the stream is not passed on.
FinishNever(p) == p
Finish(p) == IF p.closed THEN p ELSE FinishParser(p)
=============================================================================
