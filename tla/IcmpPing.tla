------------------------------ MODULE IcmpPing ------------------------------
(***************************************************************************)
(* Ping sessions (bindings/icmp.ts, wasm/icmp.c).  A probe is registered   *)
(* under host:identifier:sequenceNumber with a timer; a reply, the timer,  *)
(* close() and dispose() race to settle it.  Identifiers are drawn at      *)
(* random without looking at the sessions that exist, so two sessions with *)
(* one host may share one.  The network may lose, delay, reorder and       *)
(* repeat replies.                                                         *)
(***************************************************************************)
EXTENDS Integers, Sequences

CONSTANTS Session, Probe, Host,
          Id,        \* the identifiers drawn (65536 in the code)
          SeqSpace,  \* the number of sequence numbers (65536 in the code)
          Payload,
          None

Seqs == 0 .. SeqSpace - 1

ASSUME PingConstants ==
  /\ SeqSpace \in Nat \ {0}
  /\ None \notin Probe \cup Session \cup Host \cup Id \cup Payload \cup Int

VARIABLES
  disposed,
  session,  \* [Session -> its stage, host, identifier and next sequence number]
  probe,    \* [Probe -> its stage, session, number, payload and the request answered]
  pending,  \* #pendingPings: [key -> Probe or None]
  timers,   \* probes whose timer is armed
  tasks,    \* deferred resolutions of answered probes, oldest first
  wire      \* probes whose request was sent: each may be answered any number of times

vars == <<disposed, session, probe, pending, timers, tasks, wire>>

SessionStage == {"none", "resolving", "failed", "open", "closed"}
ProbeStage == {"idle", "waiting", "replying", "replied", "failed"}
Keys == Host \X Id \X Seqs

Init ==
  /\ disposed = FALSE
  /\ session = [s \in Session |-> [st |-> "none", host |-> None, id |-> None, next |-> 0]]
  /\ probe = [p \in Probe |->
               [st |-> "idle", by |-> None, seq |-> None, payload |-> None, from |-> None]]
  /\ pending = [k \in Keys |-> None]
  /\ timers = {}
  /\ tasks = <<>>
  /\ wire = {}

KeyOf(p) == <<session[probe[p].by].host, session[probe[p].by].id, probe[p].seq>>

-----------------------------------------------------------------------------
(* Sessions *)

CreatePingSession(s) ==
  /\ session[s].st = "none"
  /\ session' = [session EXCEPT ![s].st = IF disposed THEN "failed" ELSE "resolving"]
  /\ UNCHANGED <<disposed, probe, pending, timers, tasks, wire>>

\* The host is resolved: disposed meanwhile, no such name, no route, no raw
\* socket left, or a session with a random identifier.
ResolveHost(s) ==
  /\ session[s].st = "resolving"
  /\ \/ session' = [session EXCEPT ![s].st = "failed"]
     \/ /\ ~disposed
        /\ \E h \in Host, id \in Id :
             session' = [session EXCEPT ![s] = [st |-> "open", host |-> h, id |-> id, next |-> 0]]
  /\ UNCHANGED <<disposed, probe, pending, timers, tasks, wire>>

-----------------------------------------------------------------------------
(* Probes *)

NextSequenceNumber(n) == (n + 1) % SeqSpace

\* Mutant: an entry under the same key is replaced.
InUseNever(key) == FALSE
InUse(key) == pending[key] # None

Fail(p) == probe' = [probe EXCEPT ![p].st = "failed"]

\* ping() on an open session: the sequence number is used up in every case.
Send(s, p, payload) ==
  LET key == <<session[s].host, session[s].id, session[s].next>>
  IN  /\ session' = [session EXCEPT ![s].next = NextSequenceNumber(@)]
      /\ \/ \* disposed, payload too long, key in use, or lwIP refused the packet
            Fail(p) /\ UNCHANGED <<pending, timers, wire>>
         \/ /\ ~disposed /\ ~InUse(key)
            /\ probe' = [probe EXCEPT ![p] = [st |-> "waiting", by |-> s, from |-> None,
                                             seq |-> session[s].next, payload |-> payload]]
            /\ pending' = [pending EXCEPT ![key] = p]
            /\ timers' = timers \cup {p}
            /\ wire' = wire \cup {p}

Ping(s, p) ==
  /\ probe[p].st = "idle"
  /\ \/ session[s].st = "open" /\ \E payload \in Payload : Send(s, p, payload)
     \/ session[s].st = "closed" /\ Fail(p) /\ UNCHANGED <<session, pending, timers, wire>>
  /\ UNCHANGED <<disposed, tasks>>

\* Mutant: replies are matched by session only.
MatchBySession(q) ==
  {p \in Probe : /\ probe[p].st = "waiting" /\ probe[p].payload = probe[q].payload
                 /\ session[probe[p].by].host = session[probe[q].by].host
                 /\ session[probe[p].by].id = session[probe[q].by].id}
\* The probe that an answer to q settles.
Match(q) == {p \in Probe : pending[KeyOf(q)] = p /\ probe[p].payload = probe[q].payload}

\* receive_icmp_echo_reply; an answer without a match is left to lwIP.
Reply(q) ==
  /\ ~disposed /\ q \in wire
  /\ \E p \in Match(q) :
       /\ pending' = [pending EXCEPT ![KeyOf(p)] = None]
       /\ timers' = timers \ {p}
       /\ probe' = [probe EXCEPT ![p].st = "replying", ![p].from = q]
       /\ tasks' = Append(tasks, p)
  /\ UNCHANGED <<disposed, session, wire>>

\* Mutant: a probe answered just before dispose() is forgotten.
OutcomeForgotten == IF disposed THEN "replying" ELSE "replied"
Outcome == IF disposed THEN "failed" ELSE "replied"

RunTask ==
  /\ tasks # <<>>
  /\ tasks' = Tail(tasks)
  /\ probe' = [probe EXCEPT ![Head(tasks)].st = Outcome]
  /\ UNCHANGED <<disposed, session, pending, timers, wire>>

Timeout(p) ==
  /\ p \in timers
  /\ timers' = timers \ {p}
  /\ pending' = [pending EXCEPT ![KeyOf(p)] = None]
  /\ Fail(p)
  /\ UNCHANGED <<disposed, session, tasks, wire>>

\* The pending probes ps are rejected and their timers stopped.
RejectAll(ps) ==
  /\ pending' = [k \in Keys |-> IF pending[k] \in ps THEN None ELSE pending[k]]
  /\ timers' = timers \ ps
  /\ probe' = [p \in Probe |-> IF p \in ps THEN [probe[p] EXCEPT !.st = "failed"] ELSE probe[p]]

Registered == {pending[k] : k \in Keys} \ {None}

\* Mutant: only the session's latest probe is rejected.
ClosingLatest(s) == {p \in Registered : probe[p].by = s /\ probe[p].seq + 1 = session[s].next}
\* close() finds the session's probes by host and identifier.
Closing(s) == {p \in Registered : /\ session[probe[p].by].host = session[s].host
                                  /\ session[probe[p].by].id = session[s].id}

Close(s) ==
  /\ session[s].st = "open"
  /\ session' = [session EXCEPT ![s].st = "closed"]
  /\ RejectAll(Closing(s))
  /\ UNCHANGED <<disposed, tasks, wire>>

Dispose ==
  /\ ~disposed
  /\ disposed' = TRUE
  /\ RejectAll(Registered)
  /\ UNCHANGED <<session, tasks, wire>>

Next ==
  \/ \E s \in Session : CreatePingSession(s) \/ ResolveHost(s) \/ Close(s)
  \/ \E s \in Session, p \in Probe : Ping(s, p)
  \/ \E p \in Probe : Reply(p) \/ Timeout(p)
  \/ RunTask
  \/ Dispose

Spec == Init /\ [][Next]_vars

\* Timers fire and microtasks run.
FairSpec == Spec /\ WF_vars(RunTask) /\ \A p \in Probe : WF_vars(Timeout(p))

-----------------------------------------------------------------------------
(* Properties *)

TypeOK ==
  /\ disposed \in BOOLEAN
  /\ session \in [Session -> [st : SessionStage, host : Host \cup {None},
                              id : Id \cup {None}, next : Seqs]]
  /\ probe \in [Probe -> [st : ProbeStage, by : Session \cup {None}, seq : Seqs \cup {None},
                          payload : Payload \cup {None}, from : Probe \cup {None}]]
  /\ pending \in [Keys -> Probe \cup {None}]
  /\ timers \subseteq Probe /\ wire \subseteq Probe
  /\ tasks \in Seq(Probe)

\* Beside the types: a probe waits exactly while #pendingPings holds it under its own key, with
\* its timer armed and its session open: so no timer, reply or close() acts on
\* a key that has come to mean another probe, and close() leaves none behind.
PendingExact ==
  /\ TypeOK
  /\ \A p \in Probe :
       /\ probe[p].st = "waiting" => /\ pending[KeyOf(p)] = p
                                     /\ session[probe[p].by].st = "open"
                                     /\ ~disposed
       /\ p \in timers <=> probe[p].st = "waiting"
       /\ p \in Registered <=> probe[p].st = "waiting"

\* However replies are delayed, reordered or repeated, a probe is settled by
\* an answer to its own request, unless another probe was sent under the same
\* key and with the same payload (numbers wrap, random identifiers collide).
SameRequest(p, q) == KeyOf(p) = KeyOf(q) /\ probe[p].payload = probe[q].payload
ReplyIsOwn ==
  \A p \in Probe : probe[p].from # None =>
    \/ probe[p].from = p
    \/ \E q \in wire \ {p} : SameRequest(p, q)

\* Every ping() settles: with a reply, a timeout, close() or dispose().
ProbeSettles ==
  \A p \in Probe : probe[p].st = "waiting" ~> probe[p].st \in {"replied", "failed"}

=============================================================================
