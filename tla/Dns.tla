--------------------------------- MODULE Dns ---------------------------------
(***************************************************************************)
(* DnsClient and DnsServer (dns/src/dns-client.ts, dns/src/dns-server.ts)  *)
(* over a datagram transport that loses, repeats, delays and reorders.     *)
(* Every query opens a socket of its own, which is never closed, and waits *)
(* without a timeout for a message with its id; the server answers         *)
(* requests concurrently.  Everything sent passes DnsWire both ways.       *)
(***************************************************************************)
EXTENDS DnsWire

CONSTANTS Lookup,      \* calls of lookup() and reverse()
          Sockets,     \* how many sockets there are (MEMP_NUM_UDP_PCB)
          IdSpace,     \* the number of message ids (65536)
          HostName,    \* names looked up, as sequences of labels
          Ip,          \* addresses looked up in reverse
          MaxExtra,    \* bound: datagrams that arrive twice or come from elsewhere
          None

Port == 1 .. Sockets

Family == {"4", "6", "any", "reverse"}

ASSUME DnsConstants == IdSpace \in Nat \ {0} /\ Sockets \in Nat /\ MaxExtra \in Nat

VARIABLES
  lookup,     \* [Lookup -> its stage, family, name, the query under way and the result]
  messageId,  \* #messageId
  query,      \* [Port -> the query whose socket has that port, or None]
  net,        \* datagrams in flight: [to, from, what the receiver parses, copy]
  jobs,       \* requests the server's handler works on
  extra,      \* how many datagrams were repeated or strayed in
  unanswered  \* ports whose request or answer was lost or not given

vars == <<lookup, messageId, query, net, jobs, extra, unanswered>>

Server == 0  \* stands for the name server's address and port

Init ==
  /\ lookup = [l \in Lookup |->
                [st |-> "idle", family |-> None, name |-> None, type |-> None, id |-> None,
                 result |-> None]]
  /\ messageId = 0
  /\ query = [p \in Port |-> None]
  /\ net = {} /\ jobs = {}
  /\ extra = 0
  /\ unanswered = {}

-----------------------------------------------------------------------------
(* The network: a datagram sent arrives never, once or twice.              *)

OverTheWire(m) == ParseDnsMessage(SerializeDnsMessage(m))

Datagrams(to, from, m, n) ==
  {[to |-> to, from |-> from, message |-> OverTheWire(m), copy |-> c] : c \in 1 .. n}

Send(to, from, m, port) ==
  \E n \in 0 .. 2 :
    /\ n = 2 => extra < MaxExtra
    /\ extra' = IF n = 2 THEN extra + 1 ELSE extra
    /\ net' = (net \cup Datagrams(to, from, m, n))
    /\ unanswered' = IF n = 0 THEN unanswered \cup {port} ELSE unanswered

-----------------------------------------------------------------------------
(* The client *)

FirstType(family) ==
  CASE family = "4" -> "A" [] family = "6" -> "AAAA" [] family = "any" -> "AAAA"
    [] family = "reverse" -> "PTR"

GetNextMessageId == (messageId + 1) % IdSpace

\* #query builds its message, with the next id, before it opens its socket.
Ask(l, family, name, type) ==
  /\ messageId' = GetNextMessageId
  /\ lookup' = [lookup EXCEPT ![l] =
       [st |-> "opening", family |-> family, name |-> name, type |-> type,
        id |-> GetNextMessageId, result |-> None]]

StartLookup(l) ==
  /\ lookup[l].st = "idle"
  /\ \/ \E family \in Family \ {"reverse"}, name \in HostName :
          Ask(l, family, name, FirstType(family))
     \/ \E ip \in Ip : Ask(l, "reverse", IpToPtrName(ip), "PTR")
  /\ UNCHANGED <<query, net, jobs, extra, unanswered>>

\* A failed AAAA query of an `any' lookup is followed by one for A.
Fail(l) ==
  IF lookup[l].family = "any" /\ lookup[l].type = "AAAA"
    THEN Ask(l, "any", lookup[l].name, "A")
    ELSE /\ lookup' = [lookup EXCEPT ![l].st = "rejected"]
         /\ UNCHANGED messageId

Message(l) ==
  [id |-> lookup[l].id, response |-> FALSE, rcode |-> "NOERROR",
   questions |-> <<[name |-> lookup[l].name, type |-> lookup[l].type]>>, answers |-> <<>>]

Unused == {p \in Port : query[p] = None}

\* open() gives the query the next port, and the request is written.
OpenSocket(l) ==
  /\ lookup[l].st = "opening"
  /\ \E p \in Unused :
       /\ \A free \in Unused : p <= free
       /\ query' = [query EXCEPT ![p] = [of |-> l, id |-> lookup[l].id, open |-> TRUE]]
       /\ Send(Server, p, Message(l), p)
  /\ lookup' = [lookup EXCEPT ![l].st = "waiting"]
  /\ UNCHANGED <<messageId, jobs>>

NoSocket(l) ==
  /\ lookup[l].st = "opening" /\ Unused = {}
  /\ Fail(l)
  /\ UNCHANGED <<query, net, jobs, extra, unanswered>>

\* The datagram that the query was waiting for?
\* Mutant: any message will do.
IsAnswerAny(q, m) == TRUE
IsAnswer(q, m) == m.id = q.id

\* Mutant: an error code is passed over like a foreign id.
PassOverErrors(q, m) == ~IsAnswer(q, m) \/ m.rcode # "NOERROR"
PassOver(q, m) == ~IsAnswer(q, m)

Usable(m, type) ==
  m.rcode = "NOERROR" /\ Len(m.answers) = 1 /\ m.answers[1].type = type

\* One datagram of the query's socket.  A message that cannot be parsed fails
\* the query as an error does; after the query nobody reads the socket.
ClientReceives(d) ==
  /\ d \in net /\ d.to # Server
  /\ net' = net \ {d}
  /\ LET q == query[d.to]
         l == q.of
         m == d.message
     IN IF ~q.open \/ (m # Error /\ PassOver(q, m))
          THEN UNCHANGED <<lookup, messageId, query>>
          ELSE /\ query' = [query EXCEPT ![d.to].open = FALSE]
               /\ IF m # Error /\ Usable(m, lookup[l].type)
                    THEN /\ lookup' = [lookup EXCEPT ![l].st = "resolved",
                                                     ![l].result = m.answers[1].data]
                         /\ UNCHANGED messageId
                    ELSE Fail(l)
  /\ UNCHANGED <<jobs, extra, unanswered>>

\* Something else sends a DNS message with another id to the query's port.
Stray(p) ==
  /\ extra < MaxExtra /\ extra' = extra + 1
  /\ query[p] # None
  /\ \E name \in HostName, type \in {"A", "AAAA"} :
       net' = (net \cup Datagrams(p, Server,
         [id |-> (query[p].id + 1) % IdSpace, response |-> TRUE, rcode |-> "NOERROR",
          questions |-> <<>>, answers |-> <<[name |-> name, type |-> type, data |-> None]>>], 1))
  /\ UNCHANGED <<lookup, messageId, query, jobs, unanswered>>

-----------------------------------------------------------------------------
(* The server *)

\* The handler is called for the one question; a request that does not parse
\* is logged and gets no answer.
ServerReceives(d) ==
  /\ d \in net /\ d.to = Server
  /\ net' = net \ {d}
  /\ LET m == d.message
     IN IF m = Error THEN UNCHANGED jobs
        ELSE jobs' = jobs \cup {[to |-> d.from, message |-> m, copy |-> d.copy]}
  /\ UNCHANGED <<lookup, messageId, query, extra, unanswered>>

\* What the handler of these runs makes of a question: it gives back the name
\* and type it was asked for, or the address that a PTR name stands for.
RecordFor(q) ==
  [type |-> q.type,
   data |-> IF q.type = "PTR" THEN PtrNameToIP(q.name).parts ELSE <<q.name, q.type>>]

Other(type) == [type |-> IF type = "A" THEN "TXT" ELSE "A", data |-> None]

\* Its answer: none, an empty list, one record, one of another type, or two.
Replies(q) == {None, <<>>, <<RecordFor(q)>>, <<Other(q.type)>>, <<RecordFor(q), RecordFor(q)>>}

CreateResponseMessage(m, reply) ==
  LET q == m.questions[1]
  IN [m EXCEPT !.response = TRUE,
               !.rcode = IF reply = None THEN "NXDOMAIN" ELSE "NOERROR",
               !.answers = IF reply = None THEN <<>>
                           ELSE [i \in DOMAIN reply |->
                                   [name |-> q.name, type |-> reply[i].type,
                                    data |-> reply[i].data]]]

\* Handlers finish in any order; the answer goes where its request came from.
Answer(j) ==
  /\ j \in jobs /\ jobs' = jobs \ {j}
  /\ \E reply \in Replies(j.message.questions[1]) :
       Send(j.to, Server, CreateResponseMessage(j.message, reply), j.to)
  /\ UNCHANGED <<lookup, messageId, query>>

HandlerThrows(j) ==
  /\ j \in jobs /\ jobs' = jobs \ {j}
  /\ unanswered' = unanswered \cup {j.to}
  /\ UNCHANGED <<lookup, messageId, query, net, extra>>

-----------------------------------------------------------------------------

Work ==
  \/ \E d \in net : ClientReceives(d) \/ ServerReceives(d)
  \/ \E j \in jobs : HandlerThrows(j) \/ Answer(j)
  \/ \E l \in Lookup : NoSocket(l) \/ OpenSocket(l)

Next ==
  \/ Work
  \/ \E l \in Lookup : StartLookup(l)
  \/ \E p \in Port : Stray(p)

Spec == Init /\ [][Next]_vars
FairSpec == Spec /\ WF_vars(Work)

-----------------------------------------------------------------------------
(* Properties *)

\* A lookup resolves to what the handler answers for its own name and for a
\* type it asks for, among concurrent lookups and late, repeated and stray
\* messages, with message ids that wrap around and through both codecs: a name
\* that does not survive the wire (the trailing dot of "a." makes an empty label)
\* is refused and never taken for another (dns-client.ts id check, dns-server.ts
\* createResponseMessage, wire.ts, util.ts).
AnswerIsOwn ==
  \A l \in Lookup : lookup[l].st = "resolved" =>
    lookup[l].result \in
      CASE lookup[l].family = "any" -> {<<lookup[l].name, t>> : t \in {"A", "AAAA"}}
        [] lookup[l].family = "reverse" ->
             {ip.parts : ip \in {i \in Ip : IpToPtrName(i) = lookup[l].name}}
        [] OTHER -> {<<lookup[l].name, FirstType(lookup[l].family)>>}

HasEmptyLabel(l) ==
  lookup[l].name # None /\ \E i \in DOMAIN lookup[l].name : lookup[l].name[i] = ""

\* A lookup settles, by its answer or an error, unless a datagram was lost, the
\* handler threw, or its name has an empty label: then it waits for ever, as
\* there is no timeout.
LookupSettles ==
  \A l \in Lookup :
    lookup[l].st \in {"opening", "waiting"}
      ~> \/ lookup[l].st \in {"resolved", "rejected"}
         \/ HasEmptyLabel(l)
         \/ \E p \in unanswered : query[p].of = l
=============================================================================
