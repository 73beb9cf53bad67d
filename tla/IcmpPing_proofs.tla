---------------------------- MODULE IcmpPing_proofs -------------------------
(* Proofs of the safety properties of IcmpPing, for any sessions, probes,   *)
(* hosts, identifiers, payloads and any number of sequence numbers.         *)
EXTENDS IcmpPing, TLAPS

\* A session that was opened has a key of its own kind.
SessionsNamed ==
  \A s \in Session : session[s].st \in {"open", "closed"} =>
    session[s].host \in Host /\ session[s].id \in Id

\* A request that was sent keeps its session, its number and so its key.
SentKnown ==
  \A q \in wire : /\ probe[q].st # "idle"
                  /\ probe[q].by \in Session /\ probe[q].seq \in Seqs
                  /\ session[probe[q].by].st \in {"open", "closed"}

\* Only sent probes wait, have a timer or are settled by an answer.
SentOnly ==
  /\ \A p \in Probe : probe[p].st = "waiting" => p \in wire
  /\ \A i \in 1 .. Len(tasks) : tasks[i] \in wire /\ probe[tasks[i]].st # "waiting"

\* #pendingPings holds a probe under its own key only.
OwnKey ==
  \A k \in Keys, p \in Probe : pending[k] = p =>
    probe[p].st = "waiting" /\ KeyOf(p) = k

\* A probe is settled by an answer to a request like its own.
AnswerMatches ==
  \A p \in Probe : probe[p].from # None =>
    p \in wire /\ probe[p].from \in wire /\ SameRequest(p, probe[p].from)

IInv == PendingExact /\ SessionsNamed /\ SentKnown /\ SentOnly /\ OwnKey /\ AnswerMatches

-----------------------------------------------------------------------------

LEMMA SentKey ==
  ASSUME TypeOK, SessionsNamed, SentKnown, NEW q \in wire
  PROVE  KeyOf(q) \in Keys /\ q \in Probe
BY DEF TypeOK, SessionsNamed, SentKnown, KeyOf, Keys

\* A step after which open sessions have the names they had, and sent probes
\* their session, number and payload, keeps the key of every sent probe.
LEMMA KeysFrozen ==
  ASSUME TypeOK, SentKnown,
         \A s \in Session : session[s].st \in {"open", "closed"} =>
            /\ session'[s].host = session[s].host /\ session'[s].id = session[s].id,
         \A q \in wire : /\ probe'[q].by = probe[q].by /\ probe'[q].seq = probe[q].seq
                         /\ probe'[q].payload = probe[q].payload
  PROVE  /\ \A q \in wire : KeyOf(q)' = KeyOf(q)
         /\ \A p, q \in wire : SameRequest(p, q)' <=> SameRequest(p, q)
<1>1. \A q \in wire : KeyOf(q)' = KeyOf(q)
  BY DEF TypeOK, SentKnown, KeyOf
<1> QED BY <1>1 DEF SameRequest

\* A step that only creates or resolves a session.
LEMMA SessionStep ==
  ASSUME IInv, NEW s \in Session, session[s].st \in {"none", "resolving"},
         NEW rec \in [st : SessionStage, host : Host \cup {None},
                      id : Id \cup {None}, next : Seqs],
         rec.st \in {"open", "closed"} => rec.host \in Host /\ rec.id \in Id,
         session' = [session EXCEPT ![s] = rec],
         UNCHANGED <<disposed, probe, pending, timers, tasks, wire>>
  PROVE  IInv'
<1> USE DEF IInv, PendingExact
<1>1. TypeOK' /\ SessionsNamed' /\ SentKnown' /\ SentOnly'
  BY DEF TypeOK, SessionsNamed, SentKnown, SentOnly
<1>2. /\ \A q \in wire : KeyOf(q)' = KeyOf(q)
      /\ \A p, q \in wire : SameRequest(p, q)' <=> SameRequest(p, q)
  <2>1. \A r \in Session : session[r].st \in {"open", "closed"} => session'[r] = session[r]
    BY DEF TypeOK
  <2> QED BY <2>1, KeysFrozen
<1>3. OwnKey'
  BY <1>2 DEF OwnKey, SentOnly, TypeOK
<1>4. AnswerMatches'
  BY <1>2 DEF AnswerMatches
<1>5. Registered' = Registered
  BY DEF Registered
<1>6. ASSUME NEW p \in Probe, probe[p].st = "waiting"
      PROVE  pending'[KeyOf(p)'] = p /\ session'[probe[p].by].st = "open"
  BY <1>2, <1>6 DEF SentOnly, SentKnown, TypeOK
<1> QED BY <1>1, <1>3, <1>4, <1>5, <1>6

\* A step that rejects a part of the probes that #pendingPings holds, and
\* closes no session but of probes that it rejects.
LEMMA RejectStep ==
  ASSUME IInv, NEW ps, ps \subseteq Registered, RejectAll(ps), UNCHANGED <<tasks, wire>>,
         disposed' \in BOOLEAN, disposed' => disposed \/ ps = Registered,
         session' \in [Session -> [st : SessionStage, host : Host \cup {None},
                                   id : Id \cup {None}, next : Seqs]],
         \A s \in Session :
            /\ session'[s].host = session[s].host /\ session'[s].id = session[s].id
            /\ session[s].st \in {"open", "closed"} <=> session'[s].st \in {"open", "closed"},
         \A p \in Registered \ ps : session'[probe[p].by].st = "open"
  PROVE  IInv'
<1> USE DEF IInv, PendingExact
<1>1. ps \subseteq Probe /\ ps \subseteq wire /\ \A p \in ps : probe[p].st = "waiting"
  BY PingConstants DEF Registered, SentOnly, TypeOK
<1>2. \A p \in Probe : probe'[p] = IF p \in ps THEN [probe[p] EXCEPT !.st = "failed"] ELSE probe[p]
  BY DEF RejectAll
<1>3. probe' \in [Probe -> [st : ProbeStage, by : Session \cup {None}, seq : Seqs \cup {None},
                          payload : Payload \cup {None}, from : Probe \cup {None}]]
  BY SMTT(30) DEF RejectAll, TypeOK, ProbeStage
<1>4. \A p \in Probe : /\ probe'[p].st = IF p \in ps THEN "failed" ELSE probe[p].st
                       /\ probe'[p].by = probe[p].by /\ probe'[p].seq = probe[p].seq
                       /\ probe'[p].payload = probe[p].payload
                       /\ probe'[p].from = probe[p].from
  BY <1>2, <1>3 DEF TypeOK
<1>5. TypeOK'
  BY <1>3 DEF TypeOK, RejectAll
<1>6. wire \subseteq Probe /\ wire' = wire /\ tasks' = tasks
  BY DEF TypeOK
<1>7. /\ \A q \in wire : KeyOf(q)' = KeyOf(q)
      /\ \A p, q \in wire : SameRequest(p, q)' <=> SameRequest(p, q)
  BY <1>4, <1>6, KeysFrozen
<1>8. SessionsNamed' /\ SentKnown' /\ SentOnly'
  BY <1>4, <1>6 DEF SessionsNamed, SentKnown, SentOnly
<1>9. AnswerMatches'
  BY <1>4, <1>6, <1>7 DEF AnswerMatches, TypeOK
<1>10. ASSUME NEW k \in Keys
       PROVE  pending'[k] = IF pending[k] \in ps THEN None ELSE pending[k]
  BY DEF RejectAll
<1>11. OwnKey'
  <2> SUFFICES ASSUME NEW k \in Keys, NEW p \in Probe, pending'[k] = p
               PROVE  probe'[p].st = "waiting" /\ KeyOf(p)' = k
    BY DEF OwnKey
  <2>1. pending[k] = p /\ p \notin ps
    BY <1>10, PingConstants
  <2>2. probe[p].st = "waiting" /\ KeyOf(p) = k
    BY <2>1 DEF OwnKey
  <2> QED BY <1>4, <1>7, <2>1, <2>2 DEF SentOnly
<1>12. Registered' = Registered \ ps
  <2>1. None \notin ps
    BY <1>1, PingConstants
  <2> QED BY <1>10, <2>1 DEF Registered
<1>13. ASSUME NEW p \in Probe
       PROVE  /\ p \in timers' <=> probe'[p].st = "waiting"
              /\ p \in Registered' <=> probe'[p].st = "waiting"
  BY <1>1, <1>4, <1>12 DEF RejectAll
<1>14. ASSUME NEW p \in Probe, probe'[p].st = "waiting"
       PROVE  /\ pending'[KeyOf(p)'] = p /\ session'[probe'[p].by].st = "open" /\ ~disposed'
  <2>1. p \in Registered \ ps /\ probe[p].st = "waiting" /\ p \in wire
    BY <1>4, <1>12, <1>13, <1>14 DEF SentOnly
  <2>2. KeyOf(p)' = KeyOf(p) /\ KeyOf(p) \in Keys
    BY <1>7, <2>1, SentKey
  <2>3. pending[KeyOf(p)] = p
    BY <2>1
  <2> QED BY <1>4, <1>10, <2>1, <2>2, <2>3
<1> QED BY <1>5, <1>8, <1>9, <1>11, <1>13, <1>14

\* A step that takes one waiting probe out of #pendingPings and stops its timer.
LEMMA SettleStep ==
  ASSUME IInv, NEW p \in Probe, probe[p].st = "waiting",
         NEW rec \in [st : ProbeStage, by : Session \cup {None}, seq : Seqs \cup {None},
                      payload : Payload \cup {None}, from : Probe \cup {None}],
         rec.st \notin {"idle", "waiting"},
         rec.by = probe[p].by, rec.seq = probe[p].seq, rec.payload = probe[p].payload,
         rec.from # None => rec.from \in wire /\ SameRequest(p, rec.from),
         probe' = [probe EXCEPT ![p] = rec],
         pending' = [pending EXCEPT ![KeyOf(p)] = None],
         timers' = timers \ {p},
         tasks' = tasks \/ tasks' = Append(tasks, p),
         UNCHANGED <<disposed, session, wire>>
  PROVE  IInv'
<1> USE DEF IInv, PendingExact
<1>1. p \in wire /\ KeyOf(p) \in Keys /\ pending[KeyOf(p)] = p
  BY SentKey DEF SentOnly
<1>2. \A q \in Probe : /\ probe'[q].by = probe[q].by /\ probe'[q].seq = probe[q].seq
                       /\ probe'[q].payload = probe[q].payload
                       /\ q # p => probe'[q] = probe[q]
                       /\ q = p => probe'[q] = rec
  BY DEF TypeOK
<1>3. TypeOK'
  <2>1. tasks \in Seq(Probe)
    BY DEF TypeOK
  <2>2. tasks' \in Seq(Probe)
    <3> HIDE DEF IInv, PendingExact
    <3> QED BY <2>1
  <2> QED BY <2>2 DEF TypeOK
<1>4. /\ \A q \in wire : KeyOf(q)' = KeyOf(q)
      /\ \A r, q \in wire : SameRequest(r, q)' <=> SameRequest(r, q)
  BY <1>2, KeysFrozen DEF TypeOK
<1>5. SessionsNamed' /\ SentKnown'
  BY <1>2 DEF SessionsNamed, SentKnown, TypeOK
<1>6. SentOnly'
  <2>1. \A q \in Probe : probe'[q].st = "waiting" => probe[q].st = "waiting"
    BY <1>2
  <2>2. \A i \in 1 .. Len(tasks') : tasks'[i] = p \/ (i \in 1 .. Len(tasks) /\ tasks'[i] = tasks[i])
    <3>1. tasks \in Seq(Probe)
      BY DEF TypeOK
    <3> HIDE DEF IInv, PendingExact
    <3> QED BY <3>1
  <2>3. \A i \in 1 .. Len(tasks) : tasks[i] \in Probe
    BY DEF TypeOK
  <2> QED BY <1>1, <1>2, <2>1, <2>2, <2>3 DEF SentOnly
<1>7. OwnKey'
  <2> SUFFICES ASSUME NEW k \in Keys, NEW q \in Probe, pending'[k] = q
               PROVE  probe'[q].st = "waiting" /\ KeyOf(q)' = k
    BY DEF OwnKey
  <2>1. k # KeyOf(p) /\ pending[k] = q
    BY <1>1, PingConstants DEF TypeOK
  <2>2. probe[q].st = "waiting" /\ KeyOf(q) = k
    BY <2>1 DEF OwnKey
  <2> QED BY <1>2, <1>4, <2>1, <2>2 DEF SentOnly
<1>8. AnswerMatches'
  BY <1>1, <1>2, <1>4 DEF AnswerMatches
<1>9. ASSUME NEW q \in Probe, q # p PROVE q \in Registered' <=> q \in Registered
  BY <1>1, <1>9 DEF Registered, TypeOK
<1>10. p \notin Registered'
  <2>1. \A k \in Keys : pending'[k] = IF k = KeyOf(p) THEN None ELSE pending[k]
    BY DEF TypeOK
  <2>2. \A k \in Keys : pending[k] = p => k = KeyOf(p)
    BY PingConstants DEF OwnKey
  <2> QED BY <2>1, <2>2, PingConstants DEF Registered
<1>11. ASSUME NEW q \in Probe, probe'[q].st = "waiting"
       PROVE  pending'[KeyOf(q)'] = q /\ session'[probe'[q].by].st = "open" /\ ~disposed'
  <2>1. q # p /\ probe[q].st = "waiting" /\ q \in wire /\ KeyOf(q) \in Keys
    BY <1>2, <1>11, SentKey DEF SentOnly
  <2>2. pending[KeyOf(q)] = q
    BY <2>1
  <2> QED BY <1>1, <1>2, <1>4, <2>1, <2>2 DEF TypeOK
<1> QED BY <1>2, <1>3, <1>5, <1>6, <1>7, <1>8, <1>9, <1>10, <1>11

\* A request is sent under a key that no probe waits under.
LEMMA SendStep ==
  ASSUME IInv, NEW s \in Session, NEW p \in Probe, NEW payload \in Payload,
         session[s].st = "open", probe[p].st = "idle", Send(s, p, payload),
         UNCHANGED <<disposed, tasks>>
  PROVE  IInv'
<1> USE DEF IInv, PendingExact
<1> DEFINE key == <<session[s].host, session[s].id, session[s].next>>
<1>1. session[s].next \in Seqs /\ NextSequenceNumber(session[s].next) \in Seqs
  BY PingConstants DEF TypeOK, NextSequenceNumber, Seqs
<1>2. key \in Keys
  BY DEF SessionsNamed, TypeOK, Keys
<1>3. /\ session' \in [Session -> [st : SessionStage, host : Host \cup {None},
                                   id : Id \cup {None}, next : Seqs]]
      /\ \A r \in Session : /\ session'[r].host = session[r].host
                            /\ session'[r].id = session[r].id
                            /\ session'[r].st = session[r].st
  <2>1. session' = [session EXCEPT ![s].next = NextSequenceNumber(session[s].next)]
    BY DEF Send
  <2>2. session \in [Session -> [st : SessionStage, host : Host \cup {None},
                                id : Id \cup {None}, next : Seqs]]
    BY DEF TypeOK
  <2> HIDE DEF IInv, PendingExact
  <2> QED BY <1>1, <2>1, <2>2
<1>4. p \notin wire /\ p \notin timers /\ p \notin Registered /\ probe[p].from = None
  BY DEF SentKnown, AnswerMatches, TypeOK
<1>5. CASE Fail(p) /\ UNCHANGED <<pending, timers, wire>>
  <2>1. /\ \A q \in Probe : /\ q # p => probe'[q] = probe[q]
                            /\ probe'[q].from = probe[q].from
                            /\ probe'[q].st = "waiting" <=> probe[q].st = "waiting"
    BY <1>5 DEF Fail, TypeOK
  <2>2. TypeOK'
    <3>1. probe' \in [Probe -> [st : ProbeStage, by : Session \cup {None}, seq : Seqs \cup {None},
                               payload : Payload \cup {None}, from : Probe \cup {None}]]
      <4>1. probe \in [Probe -> [st : ProbeStage, by : Session \cup {None}, seq : Seqs \cup {None},
                                payload : Payload \cup {None}, from : Probe \cup {None}]]
        BY DEF TypeOK
      <4> HIDE DEF IInv, PendingExact
      <4> QED BY <1>5, <4>1 DEF Fail, ProbeStage
    <3> QED BY <1>3, <1>5, <3>1 DEF TypeOK
  <2>3. /\ \A q \in wire : KeyOf(q)' = KeyOf(q)
        /\ \A r, q \in wire : SameRequest(r, q)' <=> SameRequest(r, q)
    BY <1>3, <1>4, <2>1, KeysFrozen DEF TypeOK
  <2>4. SessionsNamed' /\ SentKnown' /\ SentOnly'
    BY <1>3, <1>4, <1>5, <2>1 DEF SessionsNamed, SentKnown, SentOnly, TypeOK
  <2>5. AnswerMatches'
    BY <1>5, <2>1, <2>3 DEF AnswerMatches
  <2>6. OwnKey'
    BY <1>5, <2>1, <2>3 DEF OwnKey, SentOnly
  <2>7. Registered' = Registered
    BY <1>5 DEF Registered
  <2> QED BY <1>3, <1>5, <2>1, <2>2, <2>3, <2>4, <2>5, <2>6, <2>7 DEF SentOnly, SentKnown, TypeOK
<1>6. ASSUME ~disposed, ~InUse(key),
             probe' = [probe EXCEPT ![p] = [st |-> "waiting", by |-> s, from |-> None,
                                            seq |-> session[s].next, payload |-> payload]],
             pending' = [pending EXCEPT ![key] = p],
             timers' = timers \cup {p}, wire' = wire \cup {p}
      PROVE  IInv'
  <2> HIDE DEF key
  <2>1. pending[key] = None
    BY <1>6 DEF InUse
  <2>2. \A q \in Probe : /\ q # p => probe'[q] = probe[q]
                         /\ probe'[q].from = probe[q].from
    BY <1>4, <1>6 DEF TypeOK
  <2>3. /\ probe'[p].st = "waiting" /\ probe'[p].by = s /\ probe'[p].from = None
        /\ probe'[p].seq = session[s].next /\ probe'[p].payload = payload
    BY <1>6 DEF TypeOK
  <2>4. TypeOK'
    BY <1>1, <1>2, <1>3, <1>6 DEF TypeOK, ProbeStage
  <2>5. /\ \A q \in wire : KeyOf(q)' = KeyOf(q)
        /\ \A r, q \in wire : SameRequest(r, q)' <=> SameRequest(r, q)
    <3>1. p \notin wire
      BY <1>4
    <3>2. \A q \in wire : /\ probe'[q].by = probe[q].by /\ probe'[q].seq = probe[q].seq
                          /\ probe'[q].payload = probe[q].payload
      BY <1>3, <2>2, <3>1 DEF TypeOK
    <3> QED BY <1>3, <1>4, <3>2, KeysFrozen
  <2>6. KeyOf(p)' = key
    BY <1>3, <2>3 DEF KeyOf, key
  <2>7. SessionsNamed' /\ SentKnown' /\ SentOnly'
    BY <1>1, <1>3, <1>4, <1>6, <2>2, <2>3 DEF SessionsNamed, SentKnown, SentOnly, TypeOK
  <2>8. AnswerMatches'
    BY <1>4, <1>6, <2>2, <2>3, <2>5 DEF AnswerMatches
  <2>9. \A k \in Keys : pending'[k] = IF k = key THEN p ELSE pending[k]
    BY <1>2, <1>6 DEF TypeOK
  <2>10. OwnKey'
    <3> SUFFICES ASSUME NEW k \in Keys, NEW q \in Probe, pending'[k] = q
                 PROVE  probe'[q].st = "waiting" /\ KeyOf(q)' = k
      BY DEF OwnKey
    <3>1. CASE k = key
      BY <2>3, <2>6, <2>9, <3>1
    <3>2. CASE k # key
      <4>1. pending[k] = q /\ probe[q].st = "waiting" /\ KeyOf(q) = k
        BY <2>9, <3>2 DEF OwnKey
      <4> QED BY <2>2, <2>5, <4>1 DEF SentOnly
    <3> QED BY <3>1, <3>2
  <2>11. ASSUME NEW q \in Probe
         PROVE  q \in Registered' <=> q = p \/ q \in Registered
    BY <1>2, <2>1, <2>9, PingConstants DEF Registered
  <2>12. ASSUME NEW q \in Probe, probe'[q].st = "waiting"
         PROVE  pending'[KeyOf(q)'] = q /\ session'[probe'[q].by].st = "open" /\ ~disposed'
    <3>1. CASE q = p
      BY <1>2, <1>3, <1>6, <2>3, <2>6, <2>9, <3>1
    <3>2. CASE q # p
      <4>1. q \in wire /\ KeyOf(q) \in Keys /\ pending[KeyOf(q)] = q
        BY <2>2, <2>12, <3>2, SentKey DEF SentOnly
      <4>2. KeyOf(q) # key
        BY <2>1, <4>1, PingConstants
      <4>3. pending'[KeyOf(q)'] = q
        BY <2>5, <2>9, <4>1, <4>2
      <4>4. probe'[q] = probe[q] /\ probe[q].st = "waiting" /\ probe[q].by \in Session
        BY <2>2, <2>12, <3>2, <4>1 DEF SentKnown
      <4> QED BY <1>3, <1>6, <4>3, <4>4
    <3> QED BY <3>1, <3>2
  <2> QED BY <1>6, <2>2, <2>3, <2>4, <2>7, <2>8, <2>10, <2>11, <2>12
<1> QED BY <1>5, <1>6 DEF Send

-----------------------------------------------------------------------------

LEMMA Inductive == IInv /\ [Next]_vars => IInv'
<1> SUFFICES ASSUME IInv, [Next]_vars PROVE IInv'
  OBVIOUS
<1>0. TypeOK
  BY DEF IInv, PendingExact
<1>1. ASSUME NEW s \in Session, CreatePingSession(s) PROVE IInv'
  <2> DEFINE rec == [session[s] EXCEPT !.st = IF disposed THEN "failed" ELSE "resolving"]
  <2>1. /\ rec \in [st : SessionStage, host : Host \cup {None}, id : Id \cup {None}, next : Seqs]
        /\ rec.st \in {"failed", "resolving"} /\ session' = [session EXCEPT ![s] = rec]
    BY <1>0, <1>1 DEF CreatePingSession, TypeOK, SessionStage
  <2> HIDE DEF rec
  <2> QED BY <1>1, <2>1, SessionStep DEF CreatePingSession
<1>2. ASSUME NEW s \in Session, ResolveHost(s) PROVE IInv'
  <2>1. CASE session' = [session EXCEPT ![s].st = "failed"]
    <3> DEFINE rec == [session[s] EXCEPT !.st = "failed"]
    <3>1. /\ rec \in [st : SessionStage, host : Host \cup {None}, id : Id \cup {None}, next : Seqs]
          /\ rec.st = "failed" /\ session' = [session EXCEPT ![s] = rec]
      BY <1>0, <2>1 DEF TypeOK, SessionStage
    <3> HIDE DEF rec
    <3> QED BY <1>2, <3>1, SessionStep DEF ResolveHost
  <2>2. ASSUME NEW h \in Host, NEW id \in Id,
               session' = [session EXCEPT ![s] = [st |-> "open", host |-> h, id |-> id, next |-> 0]]
        PROVE  IInv'
    <3> DEFINE rec == [st |-> "open", host |-> h, id |-> id, next |-> 0]
    <3>1. /\ rec \in [st : SessionStage, host : Host \cup {None}, id : Id \cup {None}, next : Seqs]
          /\ rec.host \in Host /\ rec.id \in Id
      BY PingConstants DEF SessionStage, Seqs
    <3>2. session' = [session EXCEPT ![s] = rec]
      BY <2>2
    <3> HIDE DEF rec
    <3> QED BY <1>2, <3>1, <3>2, SessionStep DEF ResolveHost
  <2> QED BY <1>2, <2>1, <2>2 DEF ResolveHost
<1>3. ASSUME NEW s \in Session, Close(s) PROVE IInv'
  <2>1. /\ session' \in [Session -> [st : SessionStage, host : Host \cup {None},
                                     id : Id \cup {None}, next : Seqs]]
        /\ \A r \in Session : /\ session'[r].host = session[r].host
                              /\ session'[r].id = session[r].id
                              /\ r # s => session'[r].st = session[r].st
                              /\ r = s => session'[r].st = "closed"
    BY <1>0, <1>3 DEF Close, TypeOK, SessionStage
  <2>2. ASSUME NEW p \in Registered \ Closing(s) PROVE session'[probe[p].by].st = "open"
    <3>1. p \in Probe /\ p \in wire /\ probe[p].by \in Session /\ session[probe[p].by].st = "open"
      BY DEF Registered, IInv, PendingExact, TypeOK, SentOnly, SentKnown
    <3>2. probe[p].by # s
      BY <2>2 DEF Closing
    <3>3. \A r \in Session : r # s => session'[r].st = session[r].st
      BY <2>1
    <3> QED BY <3>1, <3>2, <3>3
  <2>3. Closing(s) \subseteq Registered
    BY DEF Closing
  <2> QED BY <1>0, <1>3, <2>1, <2>2, <2>3, RejectStep DEF Close, TypeOK
<1>4. ASSUME NEW s \in Session, NEW p \in Probe, Ping(s, p) PROVE IInv'
  <2>1. CASE session[s].st = "open"
    BY <1>4, <2>1, SendStep DEF Ping
  <2>2. CASE session[s].st = "closed"
    <3>1. Fail(p) /\ UNCHANGED <<session, pending, timers, wire, disposed, tasks>> /\ probe[p].st = "idle"
      BY <1>4, <2>2 DEF Ping
    <3>2. p \notin wire /\ p \notin timers /\ p \notin Registered /\ probe[p].from = None
      BY <3>1 DEF IInv, PendingExact, SentKnown, AnswerMatches
    <3>3. /\ \A q \in Probe : /\ q # p => probe'[q] = probe[q]
                              /\ probe'[q].from = probe[q].from
                              /\ probe'[q].st = "waiting" <=> probe[q].st = "waiting"
      BY <1>0, <3>1 DEF Fail, TypeOK
    <3>4. TypeOK'
      <4>1. probe' \in [Probe -> [st : ProbeStage, by : Session \cup {None}, seq : Seqs \cup {None},
                                 payload : Payload \cup {None}, from : Probe \cup {None}]]
        BY <1>0, <3>1 DEF TypeOK, Fail, ProbeStage
      <4> QED BY <1>0, <3>1, <4>1 DEF TypeOK
    <3>5. /\ \A q \in wire : KeyOf(q)' = KeyOf(q)
          /\ \A r, q \in wire : SameRequest(r, q)' <=> SameRequest(r, q)
      BY <1>0, <3>1, <3>2, <3>3, KeysFrozen DEF TypeOK, IInv
    <3>6. SessionsNamed' /\ SentKnown' /\ SentOnly'
      BY <1>0, <3>1, <3>2, <3>3 DEF IInv, SessionsNamed, SentKnown, SentOnly, TypeOK
    <3>7. AnswerMatches'
      BY <3>1, <3>3, <3>5 DEF IInv, AnswerMatches
    <3>8. OwnKey'
      BY <3>1, <3>3, <3>5 DEF IInv, OwnKey, SentOnly
    <3>9. Registered' = Registered
      BY <3>1 DEF Registered
    <3> QED BY <3>1, <3>2, <3>3, <3>4, <3>5, <3>6, <3>7, <3>8, <3>9
            DEF IInv, PendingExact, SentOnly, SentKnown, TypeOK
  <2> QED BY <1>4, <2>1, <2>2 DEF Ping
<1>5. ASSUME NEW q \in Probe, Reply(q) PROVE IInv'
  <2> PICK p \in Match(q) : /\ pending' = [pending EXCEPT ![KeyOf(p)] = None]
                            /\ timers' = timers \ {p}
                            /\ probe' = [probe EXCEPT ![p].st = "replying", ![p].from = q]
                            /\ tasks' = Append(tasks, p)
    BY <1>5 DEF Reply
  <2> DEFINE rec == [probe[p] EXCEPT !.st = "replying", !.from = q]
  <2>1. p \in Probe /\ pending[KeyOf(q)] = p /\ probe[p].payload = probe[q].payload /\ q \in wire
    BY <1>5 DEF Match, Reply
  <2>2. probe[p].st = "waiting" /\ KeyOf(p) = KeyOf(q)
    BY <1>0, <2>1, SentKey DEF IInv, OwnKey
  <2>3. SameRequest(p, q)
    BY <2>1, <2>2 DEF SameRequest
  <2>4. /\ rec \in [st : ProbeStage, by : Session \cup {None}, seq : Seqs \cup {None},
                    payload : Payload \cup {None}, from : Probe \cup {None}]
        /\ rec.st = "replying" /\ rec.from = q
        /\ rec.by = probe[p].by /\ rec.seq = probe[p].seq /\ rec.payload = probe[p].payload
    <3>1. probe[p] \in [st : ProbeStage, by : Session \cup {None}, seq : Seqs \cup {None},
                       payload : Payload \cup {None}, from : Probe \cup {None}]
      BY <1>0, <2>1 DEF TypeOK
    <3> QED BY <3>1 DEF ProbeStage
  <2>5. probe' = [probe EXCEPT ![p] = rec]
    BY <1>0, <2>1 DEF TypeOK
  <2> HIDE DEF rec
  <2> QED BY <1>5, <2>1, <2>2, <2>3, <2>4, <2>5, SettleStep DEF Reply
<1>6. ASSUME NEW p \in Probe, Timeout(p) PROVE IInv'
  <2> DEFINE rec == [probe[p] EXCEPT !.st = "failed"]
  <2>1. probe[p].st = "waiting"
    BY <1>6 DEF Timeout, IInv, PendingExact
  <2>2. /\ rec \in [st : ProbeStage, by : Session \cup {None}, seq : Seqs \cup {None},
                    payload : Payload \cup {None}, from : Probe \cup {None}]
        /\ rec.st = "failed" /\ rec.from = probe[p].from
        /\ rec.by = probe[p].by /\ rec.seq = probe[p].seq /\ rec.payload = probe[p].payload
    BY <1>0 DEF TypeOK, ProbeStage
  <2>3. probe' = [probe EXCEPT ![p] = rec]
    BY <1>0, <1>6 DEF TypeOK, Timeout, Fail
  <2>4. rec.from # None => rec.from \in wire /\ SameRequest(p, rec.from)
    BY <2>2 DEF IInv, AnswerMatches
  <2> HIDE DEF rec
  <2> QED BY <1>6, <2>1, <2>2, <2>3, <2>4, SettleStep DEF Timeout
<1>7. ASSUME RunTask PROVE IInv'
  <2> DEFINE p == Head(tasks)
  <2>1. p \in wire /\ p \in Probe /\ probe[p].st # "waiting"
        /\ \A i \in 1 .. Len(Tail(tasks)) : i + 1 \in 1 .. Len(tasks) /\ Tail(tasks)[i] = tasks[i + 1]
    <3>1. tasks \in Seq(Probe) /\ tasks # <<>>
      BY <1>0, <1>7 DEF TypeOK, RunTask
    <3>2. 1 \in 1 .. Len(tasks) /\ p = tasks[1]
      BY <3>1
    <3> QED BY <3>1, <3>2 DEF IInv, SentOnly
  <2> HIDE DEF p
  <2>2. Outcome \in {"failed", "replied"} /\ probe' = [probe EXCEPT ![p].st = Outcome]
        /\ tasks' = Tail(tasks)
        /\ UNCHANGED <<disposed, session, pending, timers, wire>>
    BY <1>7 DEF RunTask, Outcome, p
  <2>3. \A q \in Probe : /\ probe'[q].by = probe[q].by /\ probe'[q].seq = probe[q].seq
                         /\ probe'[q].payload = probe[q].payload
                         /\ probe'[q].from = probe[q].from
                         /\ probe'[q].st = "waiting" <=> probe[q].st = "waiting"
                         /\ probe'[q].st = "idle" => probe[q].st = "idle"
    <3>1. probe \in [Probe -> [st : ProbeStage, by : Session \cup {None}, seq : Seqs \cup {None},
                              payload : Payload \cup {None}, from : Probe \cup {None}]]
      BY <1>0 DEF TypeOK
    <3>2. \A q \in Probe : probe'[q] = IF q = p THEN [probe[p] EXCEPT !.st = Outcome] ELSE probe[q]
      BY <2>1, <2>2, <3>1
    <3>3. probe'[p].st = Outcome
      BY <2>1, <3>1, <3>2
    <3>4. \A q \in Probe : probe'[q].st = "waiting" <=> probe[q].st = "waiting"
      BY <2>1, <2>2, <3>2, <3>3
    <3>5. \A q \in Probe : probe'[q].st = "idle" => probe[q].st = "idle"
      BY <2>2, <3>2, <3>3
    <3> QED BY <3>1, <3>2, <3>4, <3>5
  <2>4. TypeOK'
    <3>1. probe' \in [Probe -> [st : ProbeStage, by : Session \cup {None}, seq : Seqs \cup {None},
                               payload : Payload \cup {None}, from : Probe \cup {None}]]
      <4>1. probe \in [Probe -> [st : ProbeStage, by : Session \cup {None}, seq : Seqs \cup {None},
                                payload : Payload \cup {None}, from : Probe \cup {None}]]
        BY <1>0 DEF TypeOK
      <4>2. Outcome \in ProbeStage
        BY <2>2 DEF ProbeStage
      <4> QED BY <2>2, <4>1, <4>2
    <3>2. tasks' \in Seq(Probe)
      <4>1. tasks \in Seq(Probe) /\ tasks # <<>> /\ tasks' = Tail(tasks)
        BY <1>0, <1>7 DEF TypeOK, RunTask
      <4> QED BY <4>1
    <3> QED BY <1>0, <2>2, <3>1, <3>2 DEF TypeOK
  <2>5. /\ \A q \in wire : KeyOf(q)' = KeyOf(q)
        /\ \A r, q \in wire : SameRequest(r, q)' <=> SameRequest(r, q)
    BY <1>0, <2>2, <2>3, KeysFrozen DEF TypeOK, IInv
  <2>6. SessionsNamed' /\ SentKnown'
    BY <1>0, <2>2, <2>3 DEF IInv, SessionsNamed, SentKnown, TypeOK
  <2>7. SentOnly'
    <3>1. \A i \in 1 .. Len(tasks) : tasks[i] \in wire /\ tasks[i] \in Probe
      BY <1>0 DEF TypeOK, IInv, SentOnly
    <3> QED BY <2>1, <2>2, <2>3, <3>1 DEF IInv, SentOnly
  <2>8. AnswerMatches'
    BY <2>2, <2>3, <2>5 DEF IInv, AnswerMatches
  <2>9. OwnKey'
    BY <2>2, <2>3, <2>5 DEF IInv, OwnKey, SentOnly
  <2>10. Registered' = Registered
    BY <2>2 DEF Registered
  <2> QED BY <2>2, <2>3, <2>4, <2>5, <2>6, <2>7, <2>8, <2>9, <2>10
          DEF IInv, PendingExact, SentOnly
<1>8. ASSUME Dispose PROVE IInv'
  BY <1>0, <1>8, RejectStep DEF Dispose, TypeOK
<1>9. ASSUME UNCHANGED vars PROVE IInv'
  BY <1>9 DEF vars, IInv, PendingExact, TypeOK, SessionsNamed, SentKnown, SentOnly, OwnKey,
              AnswerMatches, KeyOf, SameRequest, Registered
<1> QED BY <1>1, <1>2, <1>3, <1>4, <1>5, <1>6, <1>7, <1>8, <1>9 DEF Next

LEMMA Initially == Init => IInv
<1> SUFFICES ASSUME Init PROVE IInv
  OBVIOUS
<1>1. TypeOK
  <2>1. 0 \in Seqs
    BY PingConstants DEF Seqs
  <2>2. disposed \in BOOLEAN /\ timers \subseteq Probe /\ wire \subseteq Probe
    BY DEF Init
  <2>5. tasks \in Seq(Probe)
    BY DEF Init
  <2>6. pending \in [Keys -> Probe \cup {None}]
    BY DEF Init
  <2>3. session \in [Session -> [st : SessionStage, host : Host \cup {None},
                                id : Id \cup {None}, next : Seqs]]
    BY <2>1 DEF Init, SessionStage
  <2>4. probe \in [Probe -> [st : ProbeStage, by : Session \cup {None}, seq : Seqs \cup {None},
                            payload : Payload \cup {None}, from : Probe \cup {None}]]
    BY DEF Init, ProbeStage
  <2> QED BY <2>2, <2>3, <2>4, <2>5, <2>6 DEF TypeOK
<1>2. Registered = {}
  BY DEF Init, Registered
<1>3. OwnKey
  BY PingConstants DEF Init, OwnKey
<1> QED BY <1>1, <1>2, <1>3 DEF Init, IInv, PendingExact, SessionsNamed, SentKnown, SentOnly,
                                AnswerMatches

\* A probe waits exactly while #pendingPings holds it under its own key, with its
\* timer armed and its session open (icmp.ts:143-204, 233-292).
THEOREM PendingIsExact == Spec => []PendingExact
<1>1. IInv => PendingExact
  BY DEF IInv
<1> QED BY <1>1, Initially, Inductive, PTL DEF Spec

\* A probe is settled by an answer to its own request, or to one that was sent
\* under the same key with the same payload (icmp.ts:294-341).
THEOREM RepliesAreOwn == Spec => []ReplyIsOwn
<1>1. IInv => ReplyIsOwn
  BY DEF IInv, AnswerMatches, ReplyIsOwn
<1> QED BY <1>1, Initially, Inductive, PTL DEF Spec

=============================================================================
