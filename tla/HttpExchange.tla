---------------------------- MODULE HttpExchange ----------------------------
(***************************************************************************)
(* fetch() and serve() (http/src/fetch.ts, http/src/serve.ts) exchanging   *)
(* one request and one response over a connection of the stream transport. *)
(* TCP is abstracted to what the two see of VirtualTcpConnection: units in *)
(* order, cut into chunks anyhow, then a FIN; readable and writable fail   *)
(* with `tcp connection closed' when the connection is closed, with        *)
(* another error when the stack is disposed.                               *)
(***************************************************************************)
EXTENDS HttpParser

CONSTANTS Client, Server,
          MaxPieces  \* bound: pieces in a body

Side == {Client, Server}
Peer(s) == IF s = Client THEN Server ELSE Client

ASSUME HttpConstants == Client # Server /\ MaxPieces \in Nat \ {0}

Message == [kind : {"request"}, line : {"GET", "HEAD"}, body : {"null"}, pieces : {0},
            declared : {None}, fails : {FALSE}]
Upload == [kind : {"request"}, line : {"POST"}, body : {"known", "stream"},
           pieces : 0 .. MaxPieces, declared : {None}, fails : BOOLEAN]
Requests == Message \cup {m \in Upload : m.body = "known" => ~m.fails}

Reply == [kind : {"response"}, line : {"200", "204", "205"}, body : {"null", "stream"},
          pieces : 0 .. MaxPieces, declared : {None} \cup 0 .. MaxPieces + 1, fails : BOOLEAN]
\* The Response constructor refuses a body with a null body status.
Responses == {m \in Reply : /\ ~StatusAllowsBody(m.line) => m.body = "null"
                            /\ m.body = "null" => m.pieces = 0 /\ ~m.fails}

VARIABLES
  \* the connection, by side
  rx,      \* units and the FIN on their way to this side's reader
  fin,     \* this side has sent its FIN
  cut,     \* why its readable failed: "no", "closed" or "failed"
  wr,      \* its writable: "open", "closed" or "errored"
  \* by side
  out,     \* what the serializer has still to hand to the writable
  pipe,    \* pipeTo(): "idle", "on", "done" or "failed"
  parser,  \* its HttpParser or None
  feed,    \* the loop that feeds the parser: "idle", "on", "done" or "failed"
  \* the two ends
  request, response,
  client,  \* fetch() and its caller
  server,  \* handleConnection()
  stopped, \* HttpServer.close() was called
  streaming \* supportsStreamingRequestBodies

connVars == <<rx, fin, cut, wr>>
sideVars == <<out, pipe, parser, feed>>
clientVars == <<request, client>>
serverVars == <<response, server>>
vars == <<connVars, sideVars, clientVars, serverVars, stopped, streaming>>

Init ==
  /\ rx = [s \in Side |-> <<>>]
  /\ fin = [s \in Side |-> FALSE]
  /\ cut = [s \in Side |-> "no"]
  /\ wr = [s \in Side |-> "open"]
  /\ out = [s \in Side |-> <<>>]
  /\ pipe = [s \in Side |-> "idle"]
  /\ parser = [s \in Side |-> None]
  /\ feed = [s \in Side |-> "idle"]
  /\ request = None /\ response = None
  /\ client = "idle" /\ server = "idle"
  /\ stopped = FALSE
  /\ streaming \in BOOLEAN

-----------------------------------------------------------------------------
(* The connection *)

Sent(s, u) == IF cut[Peer(s)] = "no" THEN Append(rx[Peer(s)], u) ELSE rx[Peer(s)]

SentFin(s) == IF fin[s] THEN rx[Peer(s)] ELSE Sent(s, <<"fin", None>>)

\* close(): the FIN, then both streams fail.
CloseConnection(s) ==
  /\ rx' = [rx EXCEPT ![Peer(s)] = SentFin(s), ![s] = <<>>]
  /\ fin' = [fin EXCEPT ![s] = TRUE]
  /\ cut' = [cut EXCEPT ![s] = IF @ = "no" THEN "closed" ELSE @]
  /\ wr' = [wr EXCEPT ![s] = "errored"]

\* #enqueueBuffer: when everything up to the peer's FIN is in the readable's
\* queue the writable fails, whether or not the queue was read.
FinArrives(s) ==
  /\ fin[Peer(s)] /\ cut[s] = "no" /\ wr[s] # "errored"
  /\ wr' = [wr EXCEPT ![s] = "errored"]
  /\ UNCHANGED <<rx, fin, cut, sideVars, clientVars, serverVars, stopped, streaming>>

Broken == \E s \in Side : cut[s] = "failed"

\* The stack of this side is disposed; bound: of one side, once.
Break(s) ==
  /\ client # "idle" /\ ~Broken
  /\ cut' = [cut EXCEPT ![s] = IF @ = "no" THEN "failed" ELSE @]
  /\ wr' = [wr EXCEPT ![s] = "errored"]
  /\ rx' = [rx EXCEPT ![s] = <<>>]
  /\ UNCHANGED <<fin, sideVars, clientVars, serverVars, stopped, streaming>>

\* A peer that does not speak HTTP: something that connects to serve(), or that
\* fetch() connects to; bound: it sends one unit.
Foreign(s) ==
  /\ IF s = Client
       THEN client = "idle" /\ client' = "foreign" /\ UNCHANGED <<request, serverVars>>
       ELSE /\ server = "idle" /\ client = "fetching"
            /\ server' = "foreign" /\ UNCHANGED <<response, clientVars>>
  /\ rx' = [rx EXCEPT ![Peer(s)] = Sent(s, <<"junk", None>>)]
  /\ UNCHANGED <<fin, cut, wr, sideVars, stopped, streaming>>

-----------------------------------------------------------------------------
(* Both ends *)

\* pipeTo() the writable, one chunk of the serializer.
Pipe(s) ==
  /\ pipe[s] = "on" /\ wr[s] = "open" /\ out[s] # <<>>
  /\ IF Head(out[s])[1] = "throw"
       THEN /\ pipe' = [pipe EXCEPT ![s] = "failed"]
            /\ wr' = [wr EXCEPT ![s] = "errored"]
            /\ UNCHANGED <<rx, out>>
       ELSE /\ rx' = [rx EXCEPT ![Peer(s)] = Sent(s, Head(out[s]))]
            /\ out' = [out EXCEPT ![s] = Tail(@)]
            /\ UNCHANGED <<pipe, wr>>
  /\ UNCHANGED <<fin, cut, parser, feed, clientVars, serverVars, stopped, streaming>>

PipeEnds(s) ==
  /\ pipe[s] = "on" /\ (wr[s] # "open" \/ out[s] = <<>>)
  /\ pipe' = [pipe EXCEPT ![s] = IF wr[s] = "open" THEN "done" ELSE "failed"]
  /\ UNCHANGED <<connVars, out, parser, feed, clientVars, serverVars, stopped, streaming>>

\* What a read may return: some of the units that have arrived.
Readable(s) == {n \in 1 .. Len(rx[s]) : \A i \in 1 .. n : rx[s][i][1] # "fin"}

\* parser.write(): fetch goes on reading, serve stops once its parser is closed.
Read(s) ==
  /\ feed[s] = "on" /\ cut[s] = "no"
  /\ \E n \in Readable(s) :
       LET p == parser[s]
           q == IF p.closed THEN p ELSE Execute(p, SubSeq(rx[s], 1, n))
       IN /\ parser' = [parser EXCEPT ![s] = q]
          /\ rx' = [rx EXCEPT ![s] = SubSeq(@, n + 1, Len(@))]
          /\ feed' = [feed EXCEPT ![s] =
               IF p.closed \/ q.at = "failed" THEN "failed"
               ELSE IF s = Server /\ q.closed THEN "done" ELSE "on"]
  /\ UNCHANGED <<fin, cut, wr, out, pipe, clientVars, serverVars, stopped, streaming>>

\* The readable is done, or failed with `tcp connection closed': the parser is
\* told.  After another error it is not.
ReadEnds(s) ==
  /\ feed[s] = "on"
  /\ \/ cut[s] = "no" /\ rx[s] # <<>> /\ Head(rx[s])[1] = "fin"
     \/ cut[s] # "no"
  /\ LET q == IF cut[s] = "failed" THEN parser[s] ELSE Finish(parser[s])
     IN /\ parser' = [parser EXCEPT ![s] = q]
        /\ feed' = [feed EXCEPT ![s] =
             IF cut[s] = "failed" \/ q.at = "failed" THEN "failed" ELSE "done"]
  /\ wr' = [wr EXCEPT ![s] = "errored"]
  /\ UNCHANGED <<rx, fin, cut, out, pipe, clientVars, serverVars, stopped, streaming>>

\* The microtask of freeSoon().
FreeParser(s) ==
  /\ parser[s] # None /\ parser[s].due > 0
  /\ parser' = [parser EXCEPT ![s] = RunFree(@)]
  /\ UNCHANGED <<connVars, out, pipe, feed, clientVars, serverVars, stopped, streaming>>

-----------------------------------------------------------------------------
(* fetch() *)

Fetch(m) ==
  /\ client = "idle"
  /\ client' = "fetching" /\ request' = m
  /\ parser' = [parser EXCEPT ![Client] = NewParser]
  /\ feed' = [feed EXCEPT ![Client] = "on"]
  /\ out' = [out EXCEPT ![Client] = Serialize(m)]
  /\ pipe' = [pipe EXCEPT ![Client] = "on"]
  /\ UNCHANGED <<connVars, serverVars, stopped, streaming>>

\* The request is written out before the response is looked at.
FetchRejects ==
  /\ client = "fetching"
  /\ \/ pipe[Client] = "failed"
     \/ pipe[Client] = "done" /\ parser[Client].message = "rejected"
  /\ client' = "rejected"
  /\ UNCHANGED <<connVars, sideVars, request, serverVars, stopped, streaming>>

CanHaveResponseBody == request.line # "HEAD" /\ StatusAllowsBody(parser[Client].line)

FetchResolves ==
  /\ client = "fetching"
  /\ pipe[Client] = "done" /\ parser[Client].message = "ready"
  /\ IF CanHaveResponseBody
       THEN client' = "reading" /\ UNCHANGED connVars
       ELSE client' = "finished" /\ CloseConnection(Client)
  /\ UNCHANGED <<sideVars, request, serverVars, stopped, streaming>>

\* The caller reads the body to its end; then the connection is closed.
BodyEnds ==
  /\ client = "reading" /\ parser[Client].end = "closed"
  /\ client' = "ended"
  /\ CloseConnection(Client)
  /\ UNCHANGED <<sideVars, request, serverVars, stopped, streaming>>

\* An error of the body drops its queue and leaves the connection as it is.
BodyFails ==
  /\ client = "reading" /\ parser[Client].end = "errored"
  /\ client' = "bodyFailed"
  /\ UNCHANGED <<connVars, sideVars, request, serverVars, stopped, streaming>>

\* Mutant: a cancelled body keeps its connection.
CancelOnly == UNCHANGED connVars
CancelCloses == CloseConnection(Client)

Cancel ==
  /\ client = "reading"
  /\ client' = "cancelled"
  /\ CancelCloses
  /\ UNCHANGED <<sideVars, request, serverVars, stopped, streaming>>

-----------------------------------------------------------------------------
(* serve() *)

Stop ==
  /\ ~stopped /\ stopped' = TRUE
  /\ UNCHANGED <<connVars, sideVars, clientVars, serverVars, streaming>>

\* The loop takes the connection; after close() it is closed unread.
Accept ==
  /\ server = "idle" /\ client # "idle" /\ cut[Server] = "no"
  /\ IF stopped
       THEN /\ server' = "refused" /\ CloseConnection(Server)
            /\ UNCHANGED <<parser, feed>>
       ELSE /\ server' = "waiting"
            /\ parser' = [parser EXCEPT ![Server] = NewParser]
            /\ feed' = [feed EXCEPT ![Server] = "on"]
            /\ UNCHANGED connVars
  /\ UNCHANGED <<out, pipe, clientVars, response, stopped, streaming>>

BodyRead == parser[Server].end = "closed"

\* The request is there: the handler is called with its body as a stream or,
\* where Request bodies cannot be streams, with all of it.
Handle ==
  /\ server = "waiting" /\ parser[Server].message = "ready"
  /\ (parser[Server].line # "POST" \/ streaming \/ BodyRead)
  /\ server' = "handling"
  /\ UNCHANGED <<connVars, sideVars, clientVars, response, stopped, streaming>>

RequestFails ==
  /\ server = "waiting"
  /\ \/ parser[Server].message = "rejected"
     \/ /\ parser[Server].line = "POST" /\ ~streaming
        /\ parser[Server].end = "errored"
  /\ server' = "failed"
  /\ UNCHANGED <<connVars, sideVars, clientVars, response, stopped, streaming>>

Respond(m) ==
  /\ server = "handling"
  /\ server' = "writing" /\ response' = m
  /\ out' = [out EXCEPT ![Server] = Serialize(m)]
  /\ pipe' = [pipe EXCEPT ![Server] = "on"]
  /\ UNCHANGED <<connVars, parser, feed, clientVars, stopped, streaming>>

\* The handler throws, and nobody closes the connection.
HandlerThrows ==
  /\ server = "handling" /\ server' = "failed"
  /\ UNCHANGED <<connVars, sideVars, clientVars, response, stopped, streaming>>

\* writer.close(): a FIN, if the writable still takes one.
CloseWriter ==
  /\ server = "writing" /\ pipe[Server] = "done"
  /\ IF wr[Server] = "open"
       THEN /\ server' = "done"
            /\ rx' = [rx EXCEPT ![Client] = SentFin(Server)]
            /\ fin' = [fin EXCEPT ![Server] = TRUE]
            /\ wr' = [wr EXCEPT ![Server] = "closed"]
       ELSE server' = "failed" /\ UNCHANGED <<rx, fin, wr>>
  /\ UNCHANGED <<cut, sideVars, clientVars, response, stopped, streaming>>

ResponseFails ==
  /\ server = "writing" /\ pipe[Server] = "failed"
  /\ server' = "failed"
  /\ UNCHANGED <<connVars, sideVars, clientVars, response, stopped, streaming>>

-----------------------------------------------------------------------------

\* What the runtime, the network, the handler and a caller that reads get done.
Work ==
  \/ \E s \in Side : FinArrives(s) \/ Pipe(s) \/ PipeEnds(s) \/ Read(s) \/ ReadEnds(s)
                     \/ FreeParser(s)
  \/ FetchRejects \/ FetchResolves \/ BodyEnds \/ BodyFails
  \/ Accept \/ Handle \/ RequestFails \/ HandlerThrows
  \/ \E m \in Responses : Respond(m)
  \/ CloseWriter \/ ResponseFails

Next ==
  \/ Work
  \/ \E m \in Requests : Fetch(m)
  \/ Cancel
  \/ Stop
  \/ \E s \in Side : Break(s) \/ Foreign(s)

Spec == Init /\ [][Next]_vars
FairSpec == Spec /\ WF_vars(Work)

-----------------------------------------------------------------------------
(* Properties *)

\* How many pieces make the body of m whole, by its framing.
Owed(m) ==
  IF m.line \in Bodiless THEN 0
  ELSE IF m.declared # None THEN m.declared
  ELSE IF HasBody(m) THEN m.pieces ELSE 0

Whole(p, m) ==
  /\ p.body = [i \in 1 .. Owed(m) |-> i]
  /\ m.fails => m.declared # None

\* A body that ends, ends whole: however the units are cut into reads, and
\* whatever is closed or fails when, the stream of a request or response closes
\* only when every piece its framing owes arrived, in order and nothing else
\* (parser.ts onBody/onComplete, pipeBody, llhttp_finish on a short body).
BodiesWhole ==
  /\ parser[Server] # None /\ parser[Server].end = "closed" => Whole(parser[Server], request)
  /\ parser[Client] # None /\ parser[Client].end = "closed" => Whole(parser[Client], response)

\* The wrapper of a parser is freed at most once and llhttp never runs on a
\* freed one, although messages end, fail and are finished inside its callbacks
\* (parser.ts freeSoon and #freed).
ParserFreedOnce ==
  \A s \in Side : parser[s] # None => parser[s].frees <= 1 /\ ~parser[s].misused

\* A fetch and the body it returned come to an end, unless the peer gave up
\* without an answer (a handler or a body that throws, a stopped server) or a
\* stack was disposed: those leave it waiting.
FetchSettles ==
  client \in {"fetching", "reading"}
    ~> (client \notin {"fetching", "reading"} \/ Broken \/ server \in {"failed", "refused"})

\* Once the caller has the whole answer, or wants no more of it, both parsers
\* are freed and the server stops writing: neither a parser nor a half-open
\* connection is left behind.
AllReleased ==
  client \in {"ended", "cancelled", "finished"}
    ~> (Broken \/ /\ \A s \in Side : parser[s] # None /\ parser[s].frees = 1
                  /\ fin[Client] /\ wr[Server] # "open")
=============================================================================
