--------------------------- MODULE TcpHandles_proofs ------------------------
(* Proofs of the safety properties of TcpHandles, for any handles, calls,   *)
(* iterators and any number of connections.                                 *)
EXTENDS TcpHandles, SequenceTheorems, TLAPS

\* Every block serves a connection of its own, and an attempt that is not
\* answered has no object yet.
Blocks ==
  /\ \A h \in Handle : pcb[h].conn # None => pcb[h].conn \in 1 .. opened
  /\ \A h, j \in Handle : pcb[h].conn # None /\ pcb[h].conn = pcb[j].conn => h = j
  /\ \A h \in Handle : pcb[h].st = "syn" => handleOf[pcb[h].conn] = None
  /\ \A g \in ConnId : handleOf[g] # None => g \in 1 .. opened

\* Where a connection object can be on its way to the application.
Queued(g) == \E i \in 1 .. Len(tasks) : tasks[i].conn = g
GotBy(g) == \E k \in Call : call[k].got = g
Listed == taken \o accepted
IsListed(g) == \E i \in 1 .. Len(Listed) : Listed[i] = g
Held(g) ==
  \/ g \in open \/ Queued(g)
  \/ \E k \in Call : call[k].st = "resolved" /\ call[k].got = g
  \/ \E i \in 1 .. Len(accepted) : accepted[i] = g

\* A connection object is in one of these places at a time.
OnePlace ==
  /\ \A i \in 1 .. Len(tasks) : handleOf[tasks[i].conn] = tasks[i].handle
  /\ \A i, j \in 1 .. Len(tasks) : tasks[i].conn = tasks[j].conn => i = j
  /\ \A g \in ConnId :
       /\ Queued(g) \/ GotBy(g) \/ IsListed(g) => handleOf[g] # None
       /\ ~(Queued(g) /\ GotBy(g)) /\ ~(Queued(g) /\ IsListed(g)) /\ ~(GotBy(g) /\ IsListed(g))
       /\ g \in open => \/ \E k \in Call : call[k].st = "done" /\ call[k].got = g
                        \/ \E i \in 1 .. Len(taken) : taken[i] = g

\* Connections are accepted in the order of their numbers, in the listener's
\* queue and in the deferred halves that are to fill it.
Ordered ==
  /\ AcceptInOrder
  /\ \A i \in 1 .. Len(tasks) : tasks[i].kind = "accept" =>
       /\ \A j \in 1 .. Len(Listed) : Listed[j] < tasks[i].conn
       /\ \A j \in i + 1 .. Len(tasks) : tasks[j].kind = "accept" => tasks[i].conn < tasks[j].conn

\* A connection the application has or will get, and that was not lost, still
\* has its block, open.
OwnBlock ==
  \A g \in ConnId \ (lost \cup Shared) : Held(g) =>
    /\ handleOf[g] \in Handle
    /\ pcb[handleOf[g]].st = "established" /\ pcb[handleOf[g]].conn = g

\* A call waits on the handle of the attempt it made.
Waiters ==
  /\ \A k \in Call, h \in Handle : k \in waiting[h] =>
       /\ call[k].st = "waiting" /\ call[k].asked \in ConnId /\ call[k].got = None /\ ~disposed
       /\ \/ call[k].asked \in lost
          \/ pcb[h].st = "syn" /\ pcb[h].conn = call[k].asked
          \/ \E i \in 1 .. Len(tasks) :
               tasks[i] = [kind |-> "connected", handle |-> h, conn |-> call[k].asked]
  /\ \A k \in Call, h, j \in Handle : k \in waiting[h] /\ k \in waiting[j] => h = j

Calls ==
  /\ \A k \in Call : call[k].st \in {"idle", "resolving"} => call[k].asked = None /\ call[k].got = None
  /\ \A k, l \in Call : call[k].asked = call[l].asked /\ call[k].asked # None => k = l
  /\ \A k \in Call : call[k].asked # None => call[k].asked \in 1 .. opened
  /\ \A k \in Call : call[k].st \in {"resolved", "done"} =>
       \/ call[k].got \in ConnId /\ call[k].got = call[k].asked
       \/ call[k].got \in ConnId /\ {call[k].asked, call[k].got} \cap lost # {}

IInv == TypeOK /\ Blocks /\ OnePlace /\ Ordered /\ OwnBlock /\ Waiters /\ Calls

-----------------------------------------------------------------------------
(* Types *)

Calls0 == [st : Stage, asked : ConnId \cup {None}, got : ConnId \cup {None}]
Tasks == [kind : {"connected", "accept"}, handle : Handle, conn : ConnId]
Block == [st : {"free"}, conn : {None}]
         \cup [st : {"syn", "established", "closing"}, conn : ConnId]

\* An object the application may use was made with a handle.
LEMMA OpenHasHandle ==
  ASSUME TypeOK, OnePlace, NEW g \in open
  PROVE  g \in ConnId /\ handleOf[g] \in Handle
<1>1. g \in ConnId
  BY DEF TypeOK
<1>2. GotBy(g) \/ IsListed(g)
  <2>1. CASE \E k \in Call : call[k].st = "done" /\ call[k].got = g
    BY <2>1 DEF GotBy
  <2>2. CASE \E i \in 1 .. Len(taken) : taken[i] = g
    <3>1. taken \in Seq(ConnId) /\ accepted \in Seq(ConnId)
      BY DEF TypeOK
    <3>2. PICK i \in 1 .. Len(taken) : taken[i] = g
      BY <2>2
    <3>3. i \in 1 .. Len(Listed) /\ Listed[i] = g
      BY <3>1, <3>2 DEF Listed
    <3> QED BY <3>3 DEF IsListed
  <2> QED BY <1>1, <2>1, <2>2 DEF OnePlace
<1> QED BY <1>1, <1>2 DEF OnePlace, TypeOK

\* Making and registering an object keeps the types.
LEMMA RegisterType ==
  ASSUME TypeOK, NEW h \in Handle, NEW g \in ConnId, NEW kind \in {"connected", "accept"},
         Register(h, g, kind)
  PROVE  /\ connections' \in [Handle -> ConnId \cup {None}]
         /\ handleOf' \in [ConnId -> Handle \cup {None}]
         /\ tasks' \in Seq(Tasks)
<1>1. [kind |-> kind, handle |-> h, conn |-> g] \in Tasks
  BY DEF Tasks
<1>2. tasks \in Seq(Tasks)
  BY DEF TypeOK, Tasks
<1>3. tasks' \in Seq(Tasks)
  BY <1>1, <1>2 DEF Register
<1> QED BY <1>3 DEF Register, TypeOK

LEMMA OpenType ==
  ASSUME TypeOK, NEW h \in Handle, NEW st \in {"syn", "established"}, Open(h, st)
  PROVE  /\ pcb' \in [Handle -> Block] /\ opened' \in 0 .. MaxConn
         /\ opened' = opened + 1 /\ opened + 1 \in ConnId /\ opened \in Nat
<1>1. opened' = opened + 1 /\ opened + 1 \in ConnId /\ opened' \in 0 .. MaxConn /\ opened \in Nat
  BY HandleConstants DEF Open, TypeOK, ConnId
<1> QED BY <1>1 DEF Open, TypeOK, Block

LEMMA TypeInductive == IInv /\ [Next]_vars => TypeOK'
<1> SUFFICES ASSUME IInv, [Next]_vars PROVE TypeOK'
  OBVIOUS
<1>0. TypeOK
  BY DEF IInv
<1>1. ASSUME NEW k \in Call, Connect(k) PROVE TypeOK'
  BY <1>0, <1>1, ZenonT(30) DEF Connect, TypeOK, Stage
<1>2. ASSUME NEW k \in Call, ResolveHost(k) PROVE TypeOK'
  <2>1. CASE Reject(k) /\ UNCHANGED <<pcb, opened, waiting>>
    BY <1>0, <1>2, <2>1 DEF ResolveHost, Reject, TypeOK, Stage
  <2>2. CASE Dial(k)
    <3> PICK h \in Handle : /\ Open(h, "syn")
                            /\ waiting' = [waiting EXCEPT ![h] = @ \cup {k}]
                            /\ call' = [call EXCEPT ![k].st = "waiting", ![k].asked = opened + 1]
      BY <2>2 DEF Dial
    <3>1. /\ pcb' \in [Handle -> Block] /\ opened' \in 0 .. MaxConn
          /\ opened + 1 \in ConnId
      BY <1>0, OpenType
    <3>2. call' \in [Call -> [st : Stage, asked : ConnId \cup {None}, got : ConnId \cup {None}]]
      <4>1. call \in [Call -> [st : Stage, asked : ConnId \cup {None}, got : ConnId \cup {None}]]
        BY <1>0 DEF TypeOK
      <4> QED BY <3>1, <4>1 DEF Stage
    <3>3. waiting' \in [Handle -> SUBSET Call]
      BY <1>0 DEF TypeOK
    <3> QED BY <1>0, <1>2, <3>1, <3>2, <3>3 DEF ResolveHost, TypeOK, Block
  <2> QED BY <1>2, <2>1, <2>2 DEF ResolveHost, AfterResolve
<1>3. ASSUME NEW k \in Call, ConnectReturns(k) PROVE TypeOK'
  <2>1. ConnectResult(k) \in Stage /\ call[k].got \in ConnId
    BY <1>3 DEF ConnectResult, Stage, ConnectReturns, IInv, Calls
  <2>2. call' \in [Call -> [st : Stage, asked : ConnId \cup {None}, got : ConnId \cup {None}]]
    <3>1. call \in [Call -> [st : Stage, asked : ConnId \cup {None}, got : ConnId \cup {None}]]
      BY <1>0 DEF TypeOK
    <3>2. call' = [call EXCEPT ![k].st = ConnectResult(k)]
      BY <1>3 DEF ConnectReturns
    <3> HIDE DEF IInv
    <3> QED BY <2>1, <3>1, <3>2
  <2>3. open' \subseteq ConnId
    BY <1>0, <1>3, <2>1 DEF ConnectReturns, TypeOK
  <2> QED BY <1>0, <1>3, <2>2, <2>3 DEF ConnectReturns, TypeOK
<1>4. ASSUME NEW h \in Handle, ConnectedCallback(h) PROVE TypeOK'
  <2>1. pcb[h].conn \in ConnId
    BY <1>0, <1>4 DEF ConnectedCallback, TypeOK
  <2>2. pcb' \in [Handle -> Block]
    BY <1>0, <1>4, <2>1 DEF ConnectedCallback, TypeOK, Block
  <2>3. /\ connections' \in [Handle -> ConnId \cup {None}]
        /\ handleOf' \in [ConnId -> Handle \cup {None}] /\ tasks' \in Seq(Tasks)
    BY <1>0, <1>4, <2>1, RegisterType DEF ConnectedCallback
  <2> QED BY <1>0, <1>4, <2>2, <2>3 DEF ConnectedCallback, TypeOK, Block, Tasks
<1>5. ASSUME NEW h \in Handle, AcceptCallback(h) PROVE TypeOK'
  <2>1. pcb' \in [Handle -> Block] /\ opened' \in 0 .. MaxConn /\ opened + 1 \in ConnId
    BY <1>0, <1>5, OpenType DEF AcceptCallback
  <2>2. /\ connections' \in [Handle -> ConnId \cup {None}]
        /\ handleOf' \in [ConnId -> Handle \cup {None}] /\ tasks' \in Seq(Tasks)
    BY <1>0, <1>5, <2>1, RegisterType DEF AcceptCallback
  <2> QED BY <1>0, <1>5, <2>1, <2>2 DEF AcceptCallback, TypeOK, Block, Tasks
<1>6. ASSUME NEW h \in Handle, Reset(h) \/ Freed(h) PROVE TypeOK'
  <2>1. pcb' \in [Handle -> Block]
    <3>1. [st |-> "free", conn |-> None] \in Block
      BY DEF Block
    <3>2. pcb \in [Handle -> Block]
      BY <1>0 DEF TypeOK, Block
    <3>3. pcb' = [pcb EXCEPT ![h] = [st |-> "free", conn |-> None]]
      BY <1>6 DEF Reset, Freed
    <3> QED BY <3>1, <3>2, <3>3
  <2>2. lost' \subseteq ConnId
    BY <1>0, <1>6 DEF Reset, Freed, TypeOK
  <2> QED BY <1>0, <1>6, <2>1, <2>2 DEF Reset, Freed, TypeOK, Block
<1>7. ASSUME RunTask PROVE TypeOK'
  <2>1. /\ tasks \in Seq(Tasks) /\ tasks # <<>> /\ tasks' = Tail(tasks)
    BY <1>0, <1>7 DEF RunTask, TypeOK, Tasks
  <2>2. Head(tasks) \in Tasks /\ tasks' \in Seq(Tasks)
    BY <2>1
  <2>3. Head(tasks).conn \in ConnId /\ Head(tasks).handle \in Handle
    BY <2>2 DEF Tasks
  <2>4. CASE UNCHANGED <<call, waiting, accepted, iter>>
    BY <1>0, <1>7, <2>2, <2>4 DEF RunTask, TypeOK, Tasks
  <2>5. CASE Connected(Head(tasks))
    <3>1. call' \in [Call -> [st : Stage, asked : ConnId \cup {None}, got : ConnId \cup {None}]]
      <4>1. call \in [Call -> [st : Stage, asked : ConnId \cup {None}, got : ConnId \cup {None}]]
        BY <1>0 DEF TypeOK
      <4>2. ASSUME NEW k \in Call
            PROVE  [call[k] EXCEPT !.st = "resolved", !.got = Head(tasks).conn]
                      \in [st : Stage, asked : ConnId \cup {None}, got : ConnId \cup {None}]
        BY <2>3, <4>1 DEF Stage
      <4> QED BY <2>5, <4>1, <4>2 DEF Connected
    <3>2. waiting' \in [Handle -> SUBSET Call]
      BY <1>0, <2>3, <2>5 DEF Connected, TypeOK
    <3> QED BY <1>0, <1>7, <2>2, <2>5, <3>1, <3>2 DEF RunTask, Connected, TypeOK, Tasks
  <2>6. CASE Accept(Head(tasks))
    <3>1. accepted' \in Seq(ConnId)
      <4>1. accepted \in Seq(ConnId) /\ accepted' = Append(accepted, Head(tasks).conn)
        BY <1>0, <2>6 DEF Accept, TypeOK
      <4> QED BY <2>3, <4>1
    <3>2. iter' \in [Iter -> {"run", "wait", "end"}]
      BY <1>0, <2>6 DEF Accept, TypeOK
    <3> QED BY <1>0, <1>7, <2>2, <2>6, <3>1, <3>2 DEF RunTask, Accept, TypeOK, Tasks
  <2> QED BY <1>7, <2>4, <2>5, <2>6 DEF RunTask
<1>8. ASSUME NEW i \in Iter, Iterate(i) PROVE TypeOK'
  <2>1. CASE UNCHANGED <<accepted, taken, open>>
    BY <1>0, <1>8, <2>1 DEF Iterate, TypeOK
  <2>2. CASE /\ accepted # <<>> /\ taken' = Append(taken, Head(accepted))
             /\ accepted' = Tail(accepted) /\ open' = open \cup {Head(accepted)}
             /\ UNCHANGED iter
    <3>1. accepted \in Seq(ConnId) /\ taken \in Seq(ConnId)
      BY <1>0 DEF TypeOK
    <3>2. Head(accepted) \in ConnId /\ accepted' \in Seq(ConnId) /\ taken' \in Seq(ConnId)
      BY <2>2, <3>1
    <3> QED BY <1>0, <1>8, <2>2, <3>2 DEF Iterate, TypeOK
  <2> QED BY <1>8, <2>1, <2>2 DEF Iterate
<1>9. ASSUME NEW g \in ConnId, Close(g) PROVE TypeOK'
  <2>1. handleOf[g] \in Handle
    BY <1>0, <1>9, OpenHasHandle DEF Close, IInv
  <2>2. pcb' \in [Handle -> Block] /\ lost' \subseteq ConnId
    <3> DEFINE h == handleOf[g]
    <3>1. pcb \in [Handle -> Block] /\ lost \subseteq ConnId
      BY <1>0 DEF TypeOK, Block
    <3>2. CASE /\ pcb[h].st = "established" /\ pcb' = [pcb EXCEPT ![h].st = "closing"]
               /\ lost' = lost \cup ({pcb[h].conn} \ {g})
      <4>1. pcb[h].conn \in ConnId /\ [pcb[h] EXCEPT !.st = "closing"] \in Block
        BY <2>1, <3>1, <3>2 DEF Block
      <4> QED BY <2>1, <3>1, <3>2, <4>1
    <3>3. CASE UNCHANGED <<pcb, lost>>
      BY <3>1, <3>3
    <3> QED BY <1>9, <3>2, <3>3 DEF Close
  <2> QED BY <1>0, <1>9, <2>2 DEF Close, TypeOK, Block
<1>10. ASSUME Dispose PROVE TypeOK'
  <2>1. call' \in [Call -> [st : Stage, asked : ConnId \cup {None}, got : ConnId \cup {None}]]
    BY <1>0, <1>10 DEF Dispose, RejectWaiting, TypeOK, Stage
  <2>2. /\ waiting' \in [Handle -> SUBSET Call]
        /\ iter' \in [Iter -> {"run", "wait", "end"}]
        /\ connections' \in [Handle -> ConnId \cup {None}]
    BY <1>0, <1>10 DEF Dispose, RejectWaiting, TypeOK
  <2>3. accepted' \in Seq(ConnId)
    BY <1>10 DEF Dispose
  <2> QED BY <1>0, <1>10, <2>1, <2>2, <2>3 DEF Dispose, TypeOK
<1>11. ASSUME UNCHANGED vars PROVE TypeOK'
  BY <1>0, <1>11 DEF vars, TypeOK
<1> QED BY <1>1, <1>2, <1>3, <1>4, <1>5, <1>6, <1>7, <1>8, <1>9, <1>10, <1>11 DEF Next, CallStep

-----------------------------------------------------------------------------
(* Frames: what a part of the invariant does not read may change. *)

LEMMA BlocksKept ==
  ASSUME Blocks, UNCHANGED <<pcb, handleOf, opened>>
  PROVE  Blocks'
BY DEF Blocks

LEMMA OnePlaceKept ==
  ASSUME OnePlace, UNCHANGED <<handleOf, tasks>>,
         \A g \in ConnId : GotBy(g)' => GotBy(g),
         \A g \in ConnId : IsListed(g)' => IsListed(g),
         \A g \in open' : \/ \E k \in Call : call'[k].st = "done" /\ call'[k].got = g
                          \/ \E i \in 1 .. Len(taken') : taken'[i] = g
  PROVE  OnePlace'
<1>1. \A g \in ConnId : Queued(g)' <=> Queued(g)
  BY DEF Queued
<1> QED BY <1>1 DEF OnePlace

LEMMA OriginKept ==
  ASSUME OnePlace, open \subseteq ConnId, UNCHANGED <<open, taken>>,
         \A k \in Call : call[k].st = "done" => call'[k] = call[k]
  PROVE  \A g \in open' : \/ \E k \in Call : call'[k].st = "done" /\ call'[k].got = g
                          \/ \E i \in 1 .. Len(taken') : taken'[i] = g
<1> SUFFICES ASSUME NEW g \in open
             PROVE  \/ \E k \in Call : call'[k].st = "done" /\ call'[k].got = g
                    \/ \E i \in 1 .. Len(taken) : taken[i] = g
  OBVIOUS
<1>1. CASE \E k \in Call : call[k].st = "done" /\ call[k].got = g
  <2>1. PICK k \in Call : call[k].st = "done" /\ call[k].got = g
    BY <1>1
  <2>2. call'[k].st = "done" /\ call'[k].got = g
    BY <2>1
  <2> QED BY <2>2
<1>2. CASE \E i \in 1 .. Len(taken) : taken[i] = g
  BY <1>2
<1>3. g \in ConnId
  OBVIOUS
<1> QED BY <1>1, <1>2, <1>3 DEF OnePlace

LEMMA OrderedKept ==
  ASSUME Ordered, UNCHANGED <<tasks, taken, accepted>>
  PROVE  Ordered'
BY DEF Ordered, AcceptInOrder, Listed

LEMMA OwnBlockKept ==
  ASSUME OwnBlock, UNCHANGED <<pcb, handleOf>>, lost \subseteq lost',
         Shared \cap ConnId \subseteq Shared',
         \A g \in ConnId \ (lost' \cup Shared') : Held(g)' => Held(g)
  PROVE  OwnBlock'
BY DEF OwnBlock

LEMMA WaitersKept ==
  ASSUME Waiters, UNCHANGED <<pcb, tasks, waiting, disposed>>, lost \subseteq lost',
         \A k \in Call, h \in Handle : k \in waiting[h] => call'[k] = call[k]
  PROVE  Waiters'
BY DEF Waiters

-----------------------------------------------------------------------------
(* connect() *)

\* A call that neither waits nor has a connection starts, or is rejected.
LEMMA StageStep ==
  ASSUME IInv, TypeOK', NEW k \in Call, NEW st \in {"resolving", "rejected"},
         \/ call[k].st = "idle"
         \/ call[k].st \in {"resolving", "resolved"} /\ st = "rejected",
         call' = [call EXCEPT ![k].st = st],
         UNCHANGED <<disposed, pcb, opened, lost, connections, handleOf, open, waiting,
                     tasks, accepted, iter, taken>>
  PROVE  IInv'
<1>1. TypeOK /\ Blocks /\ OnePlace /\ Ordered /\ OwnBlock /\ Waiters /\ Calls
  BY DEF IInv
<1>2. /\ call'[k].st = st /\ call'[k].asked = call[k].asked /\ call'[k].got = call[k].got
      /\ \A c \in Call : c # k => call'[c] = call[c]
      /\ \A c \in Call : call'[c].asked = call[c].asked /\ call'[c].got = call[c].got
  BY <1>1 DEF TypeOK
<1>3. \A g : GotBy(g)' <=> GotBy(g)
  BY <1>2 DEF GotBy
<1>4. \A g : IsListed(g)' <=> IsListed(g)
  BY DEF IsListed, Listed
<1>5. OnePlace'
  <2>1. \A c \in Call : call[c].st = "done" => call'[c] = call[c]
    BY <1>2
  <2>2. open \subseteq ConnId
    BY <1>1 DEF TypeOK
  <2> QED BY <1>1, <1>3, <1>4, <2>1, <2>2, OnePlaceKept, OriginKept
<1>6. Shared' = Shared
  BY <1>2 DEF Shared
<1>7. \A g : Held(g)' => Held(g)
  BY <1>2 DEF Held, Queued
<1>8. \A c \in Call, h \in Handle : c \in waiting[h] => call'[c] = call[c]
  BY <1>1, <1>2 DEF Waiters
<1>9. Calls'
  BY <1>1, <1>2 DEF Calls
<1> QED BY <1>1, <1>5, <1>6, <1>7, <1>8, <1>9, BlocksKept, OrderedKept, OwnBlockKept,
           WaitersKept DEF IInv

\* What lwIP opens is new: no object, call or queue knows its number.
LEMMA NewConnection ==
  ASSUME IInv, opened + 1 \in ConnId
  PROVE  /\ handleOf[opened + 1] = None /\ ~Held(opened + 1)
         /\ ~GotBy(opened + 1) /\ ~IsListed(opened + 1)
         /\ \A h \in Handle : pcb[h].conn # opened + 1
         /\ \A k \in Call : call[k].asked # opened + 1
<1>1. opened \in Nat /\ opened + 1 \notin 1 .. opened
  BY HandleConstants DEF IInv, TypeOK
<1>2. handleOf[opened + 1] = None
  BY <1>1 DEF IInv, Blocks
<1>3. ~Queued(opened + 1) /\ ~GotBy(opened + 1) /\ ~IsListed(opened + 1)
  BY <1>2 DEF IInv, OnePlace
<1>4. opened + 1 \notin open
  BY <1>2, OpenHasHandle, HandleConstants DEF IInv
<1>5. \A i \in 1 .. Len(accepted) : accepted[i] # opened + 1
  <2>1. taken \in Seq(ConnId) /\ accepted \in Seq(ConnId)
    BY DEF IInv, TypeOK
  <2>2. \A i \in 1 .. Len(accepted) : /\ Len(taken) + i \in 1 .. Len(Listed)
                                      /\ Listed[Len(taken) + i] = accepted[i]
    BY <2>1 DEF Listed
  <2> QED BY <1>3, <2>2 DEF IsListed
<1>6. \A h \in Handle : pcb[h].conn # opened + 1
  <2>1. opened + 1 # None
    BY <1>1, HandleConstants
  <2> QED BY <1>1, <2>1 DEF IInv, Blocks
<1>7. \A k \in Call : call[k].asked # opened + 1
  <2>1. opened + 1 # None
    BY <1>1, HandleConstants
  <2> QED BY <1>1, <2>1 DEF IInv, Calls
<1> QED BY <1>2, <1>3, <1>4, <1>5, <1>6, <1>7 DEF Held, GotBy

LEMMA DialStep ==
  ASSUME IInv, TypeOK', NEW k \in Call, NEW h \in Handle, call[k].st = "resolving", ~disposed,
         Open(h, "syn"), waiting' = [waiting EXCEPT ![h] = @ \cup {k}],
         call' = [call EXCEPT ![k].st = "waiting", ![k].asked = opened + 1],
         UNCHANGED <<disposed, lost, connections, handleOf, open, tasks, accepted, iter, taken>>
  PROVE  IInv'
<1> DEFINE n == opened + 1
<1>1. TypeOK /\ Blocks /\ OnePlace /\ Ordered /\ OwnBlock /\ Waiters /\ Calls
  BY DEF IInv
<1>2. opened' = n /\ n \in ConnId /\ opened \in Nat
  BY <1>1, OpenType
<1>3. /\ handleOf[n] = None /\ ~Held(n) /\ ~GotBy(n) /\ ~IsListed(n)
      /\ \A j \in Handle : pcb[j].conn # n
      /\ \A c \in Call : call[c].asked # n
  BY <1>2, NewConnection
<1> HIDE DEF n
<1>4. /\ pcb[h].st = "free" /\ pcb'[h].st = "syn" /\ pcb'[h].conn = n
      /\ \A j \in Handle : j # h => pcb'[j] = pcb[j]
  BY <1>1 DEF Open, TypeOK, n
<1>5. /\ call'[k].st = "waiting" /\ call'[k].asked = n /\ call'[k].got = None
      /\ call[k].asked = None /\ call[k].got = None
      /\ \A c \in Call : c # k => call'[c] = call[c]
      /\ \A c \in Call : call'[c].got = call[c].got
  BY <1>1 DEF TypeOK, Calls, n
<1>6. Blocks'
  <2>1. \A j \in Handle : pcb'[j].conn # None => pcb'[j].conn \in 1 .. opened'
    BY <1>1, <1>2, <1>4 DEF Blocks, n
  <2>2. \A i, j \in Handle : pcb'[i].conn # None /\ pcb'[i].conn = pcb'[j].conn => i = j
    BY <1>1, <1>3, <1>4 DEF Blocks
  <2>3. \A j \in Handle : pcb'[j].st = "syn" => handleOf'[pcb'[j].conn] = None
    BY <1>1, <1>3, <1>4 DEF Blocks
  <2>4. \A g \in ConnId : handleOf'[g] # None => g \in 1 .. opened'
    BY <1>1, <1>2 DEF Blocks, n
  <2> QED BY <2>1, <2>2, <2>3, <2>4 DEF Blocks
<1>7. \A g : (GotBy(g)' <=> GotBy(g)) /\ (IsListed(g)' <=> IsListed(g))
  BY <1>5 DEF GotBy, IsListed, Listed
<1>8. OnePlace'
  <2>1. \A c \in Call : call[c].st = "done" => call'[c] = call[c]
    BY <1>5
  <2>2. open \subseteq ConnId
    BY <1>1 DEF TypeOK
  <2> QED BY <1>1, <1>7, <2>1, <2>2, OnePlaceKept, OriginKept
<1>9. OwnBlock'
  <2> SUFFICES ASSUME NEW g \in ConnId \ (lost' \cup Shared'), Held(g)'
               PROVE  /\ handleOf'[g] \in Handle
                      /\ pcb'[handleOf'[g]].st = "established" /\ pcb'[handleOf'[g]].conn = g
    BY DEF OwnBlock
  <2>1. Held(g)
    BY <1>5 DEF Held, Queued
  <2>2. g \notin Shared
    <3>1. \A c \in Call : c # k => call'[c] = call[c]
      BY <1>5
    <3> QED BY <1>5, <3>1, HandleConstants, ZenonT(30) DEF Shared, ConnId
  <2>3. /\ handleOf[g] \in Handle
        /\ pcb[handleOf[g]].st = "established" /\ pcb[handleOf[g]].conn = g
    BY <1>1, <2>1, <2>2 DEF OwnBlock
  <2> QED BY <1>4, <2>3
<1>10. Waiters'
  <2>1. \A j \in Handle : waiting'[j] = IF j = h THEN waiting[j] \cup {k} ELSE waiting[j]
    BY <1>1 DEF TypeOK
  <2>2. \A j \in Handle : k \notin waiting[j]
    BY <1>1 DEF Waiters
  <2>3. ASSUME NEW c \in Call, NEW j \in Handle, c \in waiting'[j], c # k
        PROVE  c \in waiting[j] /\ call'[c] = call[c]
    <3>1. call'[c] = call[c]
      BY <1>5, <2>3
    <3> QED BY <2>1, <2>3, <3>1
  <2>4. \A c \in Call, j \in Handle : c \in waiting'[j] =>
          /\ call'[c].st = "waiting" /\ call'[c].asked \in ConnId /\ call'[c].got = None /\ ~disposed'
          /\ \/ call'[c].asked \in lost'
             \/ pcb'[j].st = "syn" /\ pcb'[j].conn = call'[c].asked
             \/ \E i \in 1 .. Len(tasks') :
                  tasks'[i] = [kind |-> "connected", handle |-> j, conn |-> call'[c].asked]
    <3> SUFFICES ASSUME NEW c \in Call, NEW j \in Handle, c \in waiting'[j]
                 PROVE  /\ call'[c].st = "waiting" /\ call'[c].asked \in ConnId
                        /\ call'[c].got = None /\ ~disposed'
                        /\ \/ call'[c].asked \in lost'
                           \/ pcb'[j].st = "syn" /\ pcb'[j].conn = call'[c].asked
                           \/ \E i \in 1 .. Len(tasks') :
                                tasks'[i] = [kind |-> "connected", handle |-> j, conn |-> call'[c].asked]
      OBVIOUS
    <3>1. CASE c = k
      <4>1. j = h
        BY <2>1, <2>2, <3>1
      <4> QED BY <1>2, <1>4, <1>5, <3>1, <4>1
    <3>2. CASE c # k
      <4>1. c \in waiting[j] /\ call'[c] = call[c]
        BY <2>3, <3>2
      <4>2. pcb[j].st = "syn" => pcb'[j] = pcb[j]
        BY <1>4
      <4>3. /\ call[c].st = "waiting" /\ call[c].asked \in ConnId /\ call[c].got = None
            /\ \/ call[c].asked \in lost
               \/ pcb[j].st = "syn" /\ pcb[j].conn = call[c].asked
               \/ \E i \in 1 .. Len(tasks) :
                    tasks[i] = [kind |-> "connected", handle |-> j, conn |-> call[c].asked]
        BY <1>1, <4>1 DEF Waiters
      <4> HIDE DEF IInv
      <4>4. lost' = lost /\ tasks' = tasks /\ ~disposed'
        OBVIOUS
      <4> QED BY <4>1, <4>2, <4>3, <4>4
    <3> QED BY <3>1, <3>2
  <2>5. \A c \in Call, i, j \in Handle : c \in waiting'[i] /\ c \in waiting'[j] => i = j
    BY <1>1, <2>1, <2>2 DEF Waiters
  <2> QED BY <2>4, <2>5 DEF Waiters
<1>11. Calls'
  <2>1. \A c \in Call : call'[c].st \in {"idle", "resolving"} =>
          call'[c].asked = None /\ call'[c].got = None
    BY <1>1, <1>5 DEF Calls
  <2>2. \A c, d \in Call : call'[c].asked = call'[d].asked /\ call'[c].asked # None => c = d
    <3> SUFFICES ASSUME NEW c \in Call, NEW d \in Call, call'[c].asked = call'[d].asked,
                        call'[c].asked # None
                 PROVE  c = d
      OBVIOUS
    <3>1. \A e \in Call : e # k => call'[e].asked = call[e].asked /\ call'[e].asked # n
      BY <1>3, <1>5
    <3> QED BY <1>1, <1>5, <3>1, ZenonT(30) DEF Calls
  <2>3. \A c \in Call : call'[c].asked # None => call'[c].asked \in 1 .. opened'
    <3>1. n \in 1 .. opened' /\ 1 .. opened \subseteq 1 .. opened'
      BY <1>2 DEF n
    <3>2. \A e \in Call : e # k => call'[e].asked = call[e].asked
      BY <1>5
    <3> QED BY <1>1, <1>5, <3>1, <3>2 DEF Calls
  <2>4. \A c \in Call : call'[c].st \in {"resolved", "done"} => call'[c] = call[c]
    BY <1>5
  <2> QED BY <1>1, <2>1, <2>2, <2>3, <2>4 DEF Calls
<1> QED BY <1>1, <1>6, <1>8, <1>9, <1>10, <1>11, OrderedKept DEF IInv

LEMMA ReturnStep ==
  ASSUME IInv, TypeOK', NEW k \in Call, call[k].st = "resolved",
         call' = [call EXCEPT ![k].st = "done"], open' = open \cup {call[k].got},
         UNCHANGED <<disposed, pcb, opened, lost, connections, handleOf, waiting, tasks,
                     accepted, iter, taken>>
  PROVE  IInv'
<1>1. TypeOK /\ Blocks /\ OnePlace /\ Ordered /\ OwnBlock /\ Waiters /\ Calls
  BY DEF IInv
<1>2. /\ call'[k].st = "done" /\ call'[k].asked = call[k].asked /\ call'[k].got = call[k].got
      /\ \A c \in Call : c # k => call'[c] = call[c]
      /\ \A c \in Call : call'[c].asked = call[c].asked /\ call'[c].got = call[c].got
  BY <1>1 DEF TypeOK
<1>3. \A g : (GotBy(g)' <=> GotBy(g)) /\ (IsListed(g)' <=> IsListed(g))
  BY <1>2 DEF GotBy, IsListed, Listed
<1>4. OnePlace'
  <2>1. ASSUME NEW g \in open'
        PROVE  \/ \E c \in Call : call'[c].st = "done" /\ call'[c].got = g
               \/ \E i \in 1 .. Len(taken') : taken'[i] = g
    <3>1. CASE g = call[k].got
      BY <1>2, <3>1
    <3>2. CASE g \in open
      <4>1. g \in ConnId
        BY <1>1, <3>2 DEF TypeOK
      <4>2. CASE \E c \in Call : call[c].st = "done" /\ call[c].got = g
        <5>1. PICK c \in Call : call[c].st = "done" /\ call[c].got = g
          BY <4>2
        <5>2. call'[c].st = "done" /\ call'[c].got = g
          BY <1>2, <5>1
        <5> QED BY <5>2
      <4>3. CASE \E i \in 1 .. Len(taken) : taken[i] = g
        BY <4>3
      <4> QED BY <1>1, <3>2, <4>1, <4>2, <4>3 DEF OnePlace
    <3> QED BY <3>1, <3>2
  <2> QED BY <1>1, <1>3, <2>1, OnePlaceKept
<1>5. Shared' = Shared
  BY <1>2 DEF Shared
<1>6. \A g : Held(g)' => Held(g)
  <2>1. \A c \in Call : call'[c].st = "resolved" => c # k
    BY <1>2
  <2> QED BY <1>2, <2>1 DEF Held, Queued
<1>7. \A c \in Call, h \in Handle : c \in waiting[h] => call'[c] = call[c]
  BY <1>1, <1>2 DEF Waiters
<1>8. Calls'
  BY <1>1, <1>2 DEF Calls
<1> QED BY <1>1, <1>4, <1>5, <1>6, <1>7, <1>8, BlocksKept, OrderedKept, OwnBlockKept,
           WaitersKept DEF IInv

-----------------------------------------------------------------------------
(* lwIP's callbacks *)

\* An object is made for connection g of block h, and its event is queued.
LEMMA RegisterStep ==
  ASSUME IInv, TypeOK', NEW h \in Handle, NEW g \in ConnId, NEW kind \in {"connected", "accept"},
         Register(h, g, kind), handleOf[g] = None,
         pcb'[h].st = "established", pcb'[h].conn = g,
         \A j \in Handle : j # h => pcb'[j] = pcb[j] /\ pcb[j].conn # g,
         \/ pcb[h].st = "syn" /\ pcb[h].conn = g /\ kind = "connected" /\ opened' = opened
         \/ pcb[h].st = "free" /\ kind = "accept" /\ opened' = opened + 1 /\ g = opened + 1,
         UNCHANGED <<disposed, lost, open, waiting, call, accepted, iter, taken>>
  PROVE  IInv'
<1> DEFINE t == [kind |-> kind, handle |-> h, conn |-> g]
<1>1. TypeOK /\ Blocks /\ OnePlace /\ Ordered /\ OwnBlock /\ Waiters /\ Calls
  BY DEF IInv
<1>2. /\ opened \in Nat /\ opened' \in Nat /\ opened <= opened' /\ g \in 1 .. opened'
      /\ g \in Nat /\ g # None /\ h # None
  BY <1>1, HandleConstants DEF TypeOK, Blocks, ConnId
<1>3. /\ tasks \in Seq(Tasks) /\ tasks' = Append(tasks, t) /\ t \in Tasks
      /\ t.kind = kind /\ t.handle = h /\ t.conn = g
  BY <1>1 DEF TypeOK, Tasks, Register
<1> HIDE DEF t
<1>4. /\ Len(tasks') = Len(tasks) + 1 /\ tasks'[Len(tasks) + 1] = t
      /\ \A i \in 1 .. Len(tasks) : tasks'[i] = tasks[i]
      /\ Len(tasks) \in Nat
  BY <1>3
<1>5. \A i \in 1 .. Len(tasks) : tasks[i].conn \in ConnId
  <2>1. \A i \in 1 .. Len(tasks) : tasks[i] \in Tasks
    BY <1>3
  <2> QED BY <2>1 DEF Tasks
<1>6. \A i \in 1 .. Len(tasks) : handleOf[tasks[i].conn] # None
  BY <1>1, <1>5 DEF OnePlace, Queued
<1>7. /\ handleOf'[g] = h /\ \A x \in ConnId : x # g => handleOf'[x] = handleOf[x]
  BY <1>1 DEF Register, TypeOK
<1>8. ~Queued(g) /\ ~GotBy(g) /\ ~IsListed(g) /\ g \notin open
  <2>1. ~Queued(g) /\ ~GotBy(g) /\ ~IsListed(g)
    BY <1>1 DEF OnePlace
  <2>2. g \notin open
    BY <1>1, OpenHasHandle, HandleConstants
  <2> QED BY <2>1, <2>2
<1>9. \A x : /\ Queued(x)' <=> Queued(x) \/ x = g
             /\ GotBy(x)' <=> GotBy(x)
             /\ IsListed(x)' <=> IsListed(x)
  <2>1. \A x : Queued(x)' <=> Queued(x) \/ x = g
    BY <1>3, <1>4 DEF Queued
  <2> QED BY <2>1 DEF GotBy, IsListed, Listed
<1>10. Blocks'
  <2>1. \A j \in Handle : pcb'[j].conn # None => pcb'[j].conn \in 1 .. opened'
    BY <1>1, <1>2 DEF Blocks
  <2>2. \A i, j \in Handle : pcb'[i].conn # None /\ pcb'[i].conn = pcb'[j].conn => i = j
    BY <1>1 DEF Blocks
  <2>3. ASSUME NEW j \in Handle, pcb'[j].st = "syn" PROVE handleOf'[pcb'[j].conn] = None
    <3>1. j # h /\ pcb'[j] = pcb[j] /\ pcb[j].conn # g
      BY <2>3
    <3>2. pcb[j].conn \in ConnId /\ handleOf[pcb[j].conn] = None
      BY <1>1, <2>3, <3>1 DEF Blocks, TypeOK
    <3> QED BY <1>7, <3>1, <3>2
  <2>4. ASSUME NEW x \in ConnId, handleOf'[x] # None PROVE x \in 1 .. opened'
    <3>1. CASE x = g
      BY <1>2, <3>1
    <3>2. CASE x # g
      <4>1. x \in 1 .. opened
        BY <1>1, <1>7, <2>4, <3>2 DEF Blocks
      <4> QED BY <1>2, <4>1
    <3> QED BY <3>1, <3>2
  <2> QED BY <2>1, <2>2, <2>3, <2>4 DEF Blocks
<1>11. OnePlace'
  <2>1. ASSUME NEW i \in 1 .. Len(tasks') PROVE handleOf'[tasks'[i].conn] = tasks'[i].handle
    <3>1. CASE i \in 1 .. Len(tasks)
      <4>1. tasks[i].conn # g
        BY <1>8, <3>1 DEF Queued
      <4> QED BY <1>1, <1>4, <1>5, <1>7, <3>1, <4>1 DEF OnePlace
    <3>2. CASE i = Len(tasks) + 1
      BY <1>3, <1>4, <1>7, <3>2
    <3> QED BY <1>4, <3>1, <3>2
  <2>2. ASSUME NEW i \in 1 .. Len(tasks'), NEW j \in 1 .. Len(tasks'), tasks'[i].conn = tasks'[j].conn
        PROVE  i = j
    <3>1. \A m \in 1 .. Len(tasks) : tasks'[m].conn # g
      BY <1>4, <1>8 DEF Queued
    <3>2. \A m \in 1 .. Len(tasks') : m \in 1 .. Len(tasks) \/ m = Len(tasks) + 1
      BY <1>4
    <3>3. tasks'[Len(tasks) + 1].conn = g
      BY <1>3, <1>4
    <3>4. CASE i \in 1 .. Len(tasks) /\ j \in 1 .. Len(tasks)
      BY <1>1, <1>4, <2>2, <3>4 DEF OnePlace
    <3> QED BY <2>2, <3>1, <3>2, <3>3, <3>4
  <2>3. ASSUME NEW x \in ConnId
        PROVE  /\ Queued(x)' \/ GotBy(x)' \/ IsListed(x)' => handleOf'[x] # None
               /\ ~(Queued(x)' /\ GotBy(x)') /\ ~(Queued(x)' /\ IsListed(x)')
               /\ ~(GotBy(x)' /\ IsListed(x)')
    BY <1>1, <1>2, <1>7, <1>8, <1>9 DEF OnePlace
  <2>4. \A x \in open' : \/ \E c \in Call : call'[c].st = "done" /\ call'[c].got = x
                         \/ \E i \in 1 .. Len(taken') : taken'[i] = x
    BY <1>1, OriginKept DEF TypeOK
  <2> QED BY <2>1, <2>2, <2>3, <2>4 DEF OnePlace
<1>12. Ordered'
  <2>1. Listed' = Listed /\ AcceptInOrder'
    BY <1>1 DEF Listed, Ordered, AcceptInOrder
  <2>2. \A j \in 1 .. Len(Listed) : Listed[j] \in ConnId
    BY <1>1 DEF TypeOK, Listed
  <2>3. \A x \in ConnId : handleOf[x] # None => x \in 1 .. opened
    BY <1>1 DEF Blocks
  <2>4. \A j \in 1 .. Len(Listed) : Listed[j] \in 1 .. opened
    BY <1>1, <2>2, <2>3 DEF OnePlace, IsListed
  <2>5. \A i \in 1 .. Len(tasks) : tasks[i].conn \in 1 .. opened
    BY <1>5, <1>6, <2>3
  <2>6. kind = "accept" => \A x \in 1 .. opened : x < g
    BY <1>2
  <2>7. ASSUME NEW i \in 1 .. Len(tasks'), tasks'[i].kind = "accept"
        PROVE  /\ \A j \in 1 .. Len(Listed') : Listed'[j] < tasks'[i].conn
               /\ \A j \in i + 1 .. Len(tasks') :
                    tasks'[j].kind = "accept" => tasks'[i].conn < tasks'[j].conn
    <3>1. CASE i \in 1 .. Len(tasks)
      <4>1. tasks'[i] = tasks[i] /\ tasks[i].kind = "accept"
        BY <1>4, <2>7, <3>1
      <4>2. \A j \in 1 .. Len(Listed) : Listed[j] < tasks[i].conn
        BY <1>1, <3>1, <4>1 DEF Ordered
      <4>3. ASSUME NEW j \in i + 1 .. Len(tasks'), tasks'[j].kind = "accept"
            PROVE  tasks[i].conn < tasks'[j].conn
        <5>1. CASE j \in 1 .. Len(tasks)
          <6>1. j \in i + 1 .. Len(tasks) /\ tasks'[j] = tasks[j] /\ tasks[j].kind = "accept"
            BY <1>4, <3>1, <4>3, <5>1
          <6> QED BY <1>1, <3>1, <4>1, <6>1 DEF Ordered
        <5>2. CASE j = Len(tasks) + 1
          BY <1>3, <1>4, <2>5, <2>6, <3>1, <4>3, <5>2
        <5> QED BY <1>4, <3>1, <5>1, <5>2
      <4> QED BY <2>1, <4>1, <4>2, <4>3
    <3>2. CASE i = Len(tasks) + 1
      <4>1. tasks'[i].conn = g /\ kind = "accept" /\ i + 1 .. Len(tasks') = {}
        BY <1>3, <1>4, <2>7, <3>2
      <4> QED BY <2>1, <2>4, <2>6, <4>1
    <3> QED BY <1>4, <3>1, <3>2
  <2> QED BY <2>1, <2>7 DEF Ordered
<1>13. OwnBlock'
  <2> SUFFICES ASSUME NEW x \in ConnId \ (lost' \cup Shared'), Held(x)'
               PROVE  /\ handleOf'[x] \in Handle
                      /\ pcb'[handleOf'[x]].st = "established" /\ pcb'[handleOf'[x]].conn = x
    BY DEF OwnBlock
  <2>1. CASE x = g
    BY <1>7, <2>1
  <2>2. CASE x # g
    <3>1. Held(x) /\ x \notin lost \cup Shared
      BY <1>9, <2>2 DEF Held, Shared
    <3>2. handleOf[x] \in Handle /\ pcb[handleOf[x]].st = "established" /\ pcb[handleOf[x]].conn = x
      BY <1>1, <3>1 DEF OwnBlock
    <3>3. handleOf[x] # h
      BY <3>2
    <3> QED BY <1>7, <2>2, <3>2, <3>3
  <2> QED BY <2>1, <2>2
<1>14. Waiters'
  <2>1. ASSUME NEW k \in Call, NEW j \in Handle, k \in waiting[j]
        PROVE  /\ call[k].st = "waiting" /\ call[k].asked \in ConnId /\ call[k].got = None /\ ~disposed
               /\ \/ call[k].asked \in lost
                  \/ pcb'[j].st = "syn" /\ pcb'[j].conn = call[k].asked
                  \/ \E i \in 1 .. Len(tasks') :
                       tasks'[i] = [kind |-> "connected", handle |-> j, conn |-> call[k].asked]
    <3>1. /\ call[k].st = "waiting" /\ call[k].asked \in ConnId /\ call[k].got = None /\ ~disposed
          /\ \/ call[k].asked \in lost
             \/ pcb[j].st = "syn" /\ pcb[j].conn = call[k].asked
             \/ \E i \in 1 .. Len(tasks) :
                  tasks[i] = [kind |-> "connected", handle |-> j, conn |-> call[k].asked]
      BY <1>1, <2>1 DEF Waiters
    <3>2. CASE j = h /\ pcb[j].st = "syn" /\ pcb[j].conn = call[k].asked
      <4>1. t = [kind |-> "connected", handle |-> j, conn |-> call[k].asked]
        BY <3>2 DEF t
      <4>2. Len(tasks) + 1 \in 1 .. Len(tasks')
        BY <1>4
      <4> QED BY <1>4, <3>1, <4>1, <4>2
    <3>3. CASE j # h /\ pcb[j].st = "syn" /\ pcb[j].conn = call[k].asked
      BY <3>1, <3>3
    <3>4. ASSUME NEW i \in 1 .. Len(tasks),
                 tasks[i] = [kind |-> "connected", handle |-> j, conn |-> call[k].asked]
          PROVE  \E m \in 1 .. Len(tasks') :
                   tasks'[m] = [kind |-> "connected", handle |-> j, conn |-> call[k].asked]
      <4>1. i \in 1 .. Len(tasks') /\ tasks'[i] = tasks[i]
        BY <1>4
      <4> QED BY <3>4, <4>1
    <3> QED BY <3>1, <3>2, <3>3, <3>4
  <2> QED BY <1>1, <2>1 DEF Waiters
<1>15. Calls'
  <2>1. 1 .. opened \subseteq 1 .. opened'
    BY <1>2
  <2> QED BY <1>1, <2>1 DEF Calls
<1> QED BY <1>10, <1>11, <1>12, <1>13, <1>14, <1>15 DEF IInv

\* A block is freed: after a reset, or once the closing handshake is over.
LEMMA FreeStep ==
  ASSUME IInv, TypeOK', NEW h \in Handle,
         pcb' = [pcb EXCEPT ![h] = [st |-> "free", conn |-> None]],
         \/ pcb[h].st = "closing" /\ lost' = lost
         \/ lost' = lost \cup {pcb[h].conn},
         UNCHANGED <<disposed, opened, connections, handleOf, open, waiting, call,
                     tasks, accepted, iter, taken>>
  PROVE  IInv'
<1>1. TypeOK /\ Blocks /\ OnePlace /\ Ordered /\ OwnBlock /\ Waiters /\ Calls
  BY DEF IInv
<1>2. /\ pcb'[h].st = "free" /\ pcb'[h].conn = None
      /\ \A j \in Handle : j # h => pcb'[j] = pcb[j]
  BY <1>1 DEF TypeOK
<1>3. lost \subseteq lost' /\ (pcb[h].st # "closing" => pcb[h].conn \in lost')
  OBVIOUS
<1>4. Blocks'
  BY <1>1, <1>2 DEF Blocks
<1>5. \A x : (GotBy(x)' <=> GotBy(x)) /\ (IsListed(x)' <=> IsListed(x)) /\ (Held(x)' <=> Held(x))
  BY DEF GotBy, IsListed, Listed, Held, Queued
<1>6. OnePlace'
  BY <1>1, <1>5, OnePlaceKept, OriginKept DEF TypeOK
<1>7. OwnBlock'
  <2> SUFFICES ASSUME NEW x \in ConnId \ (lost' \cup Shared'), Held(x)'
               PROVE  /\ handleOf'[x] \in Handle
                      /\ pcb'[handleOf'[x]].st = "established" /\ pcb'[handleOf'[x]].conn = x
    BY DEF OwnBlock
  <2>1. Held(x) /\ x \notin lost \cup Shared
    BY <1>3, <1>5 DEF Shared
  <2>2. handleOf[x] \in Handle /\ pcb[handleOf[x]].st = "established" /\ pcb[handleOf[x]].conn = x
    BY <1>1, <2>1 DEF OwnBlock
  <2>3. handleOf[x] # h
    BY <1>3, <2>2
  <2> QED BY <1>2, <2>2, <2>3
<1>8. Waiters'
  <2> HIDE DEF IInv
  <2>1. ASSUME NEW k \in Call, NEW j \in Handle, k \in waiting[j]
        PROVE  /\ call[k].st = "waiting" /\ call[k].asked \in ConnId /\ call[k].got = None /\ ~disposed
               /\ \/ call[k].asked \in lost'
                  \/ pcb'[j].st = "syn" /\ pcb'[j].conn = call[k].asked
                  \/ \E i \in 1 .. Len(tasks) :
                       tasks[i] = [kind |-> "connected", handle |-> j, conn |-> call[k].asked]
    <3>1. /\ call[k].st = "waiting" /\ call[k].asked \in ConnId /\ call[k].got = None /\ ~disposed
          /\ \/ call[k].asked \in lost
             \/ pcb[j].st = "syn" /\ pcb[j].conn = call[k].asked
             \/ \E i \in 1 .. Len(tasks) :
                  tasks[i] = [kind |-> "connected", handle |-> j, conn |-> call[k].asked]
      BY <1>1, <2>1 DEF Waiters
    <3>2. pcb[j].st = "syn" => j # h \/ pcb[j].conn \in lost'
      BY <1>3
    <3> QED BY <1>2, <1>3, <3>1, <3>2
  <2> QED BY <1>1, <2>1 DEF Waiters
<1>9. Calls'
  BY <1>1, <1>3 DEF Calls
<1> QED BY <1>1, <1>4, <1>6, <1>7, <1>8, <1>9, OrderedKept DEF IInv

\* close() of an object of a connection that was not lost, and that no second
\* call shares, closes the block of that connection.
LEMMA CloseStep ==
  ASSUME IInv, TypeOK', NEW g \in ConnId, Close(g)
  PROVE  IInv'
<1> DEFINE h == handleOf[g]
<1>1. TypeOK /\ Blocks /\ OnePlace /\ Ordered /\ OwnBlock /\ Waiters /\ Calls
  BY DEF IInv
<1>2. /\ ~disposed /\ g \in open /\ open' = open \ {g}
      /\ UNCHANGED <<disposed, opened, connections, handleOf, waiting, call, tasks,
                     accepted, iter, taken>>
  BY DEF Close
<1>3. h \in Handle
  BY <1>1, <1>2, OpenHasHandle
<1>4. /\ lost \subseteq lost'
      /\ \A j \in Handle : /\ pcb'[j].conn = pcb[j].conn
                           /\ pcb[j].st = "syn" <=> pcb'[j].st = "syn"
                           /\ pcb'[j].st # pcb[j].st => j = h /\ pcb[h].conn \in lost' \cup {g}
  <2>1. CASE /\ pcb[h].st = "established" /\ pcb' = [pcb EXCEPT ![h].st = "closing"]
             /\ lost' = lost \cup ({pcb[h].conn} \ {g})
    <3>1. /\ pcb'[h].st = "closing" /\ pcb'[h].conn = pcb[h].conn
          /\ \A j \in Handle : j # h => pcb'[j] = pcb[j]
      <4>1. pcb[h] = [st |-> pcb[h].st, conn |-> pcb[h].conn]
        BY <1>1, <1>3 DEF TypeOK
      <4>2. pcb'[h] = [pcb[h] EXCEPT !.st = "closing"]
        BY <1>1, <1>3, <2>1 DEF TypeOK
      <4>3. \A j \in Handle : j # h => pcb'[j] = pcb[j]
        BY <1>1, <2>1 DEF TypeOK
      <4> QED BY <4>1, <4>2, <4>3
    <3> QED BY <1>3, <2>1, <3>1
  <2>2. CASE UNCHANGED <<pcb, lost>>
    BY <2>2
  <2> QED BY <2>1, <2>2 DEF Close
<1> HIDE DEF h
<1>5. Blocks'
  BY <1>1, <1>2, <1>4 DEF Blocks
<1>6. \A x : (GotBy(x)' <=> GotBy(x)) /\ (IsListed(x)' <=> IsListed(x))
  BY <1>2 DEF GotBy, IsListed, Listed
<1>7. OnePlace'
  <2>1. \A x \in open' : \/ \E c \in Call : call'[c].st = "done" /\ call'[c].got = x
                         \/ \E i \in 1 .. Len(taken') : taken'[i] = x
    BY <1>1, <1>2 DEF OnePlace, TypeOK
  <2> QED BY <1>1, <1>2, <1>6, <2>1, OnePlaceKept
<1>8. ASSUME g \notin Shared PROVE ~Held(g)'
  <2>1. g \notin open'
    BY <1>2
  <2>2. CASE \E c \in Call : call[c].st = "done" /\ call[c].got = g
    <3>1. PICK c \in Call : call[c].st = "done" /\ call[c].got = g
      BY <2>2
    <3>2. GotBy(g)
      BY <3>1 DEF GotBy
    <3>3. ~Queued(g) /\ ~IsListed(g)
      BY <1>1, <3>2 DEF OnePlace
    <3>4. ASSUME NEW d \in Call, call[d].st = "resolved", call[d].got = g PROVE FALSE
      <4>1. call[c].asked = g /\ call[d].asked = g /\ g # None
        BY <1>8, <3>1, <3>4, HandleConstants DEF Shared, ConnId
      <4>2. c = d
        BY <1>1, <4>1 DEF Calls
      <4> QED BY <3>1, <3>4, <4>2
    <3>5. ASSUME NEW i \in 1 .. Len(accepted), accepted[i] = g PROVE FALSE
      <4>1. taken \in Seq(ConnId) /\ accepted \in Seq(ConnId)
        BY <1>1 DEF TypeOK
      <4>2. Len(taken) + i \in 1 .. Len(Listed) /\ Listed[Len(taken) + i] = g
        BY <3>5, <4>1 DEF Listed
      <4> QED BY <3>3, <4>2 DEF IsListed
    <3>6. ~Queued(g)'
      BY <1>2, <3>3 DEF Queued
    <3> QED BY <1>2, <2>1, <3>4, <3>5, <3>6 DEF Held
  <2>3. CASE \E i \in 1 .. Len(taken) : taken[i] = g
    <3>1. taken \in Seq(ConnId) /\ accepted \in Seq(ConnId)
      BY <1>1 DEF TypeOK
    <3>2. PICK i \in 1 .. Len(taken) : taken[i] = g
      BY <2>3
    <3>3. i \in 1 .. Len(Listed) /\ Listed[i] = g
      BY <3>1, <3>2 DEF Listed
    <3>4. ~Queued(g) /\ ~GotBy(g)
      BY <1>1, <3>3 DEF OnePlace, IsListed
    <3>5. ASSUME NEW j \in 1 .. Len(accepted), accepted[j] = g PROVE FALSE
      <4>1. /\ Len(taken) + j \in 1 .. Len(Listed) /\ Listed[Len(taken) + j] = g
            /\ i < Len(taken) + j
        BY <3>1, <3>2, <3>5 DEF Listed
      <4>2. g < g
        BY <1>1, <3>3, <4>1 DEF Ordered, AcceptInOrder, Listed
      <4> QED BY <4>2 DEF ConnId
    <3>6. ~Queued(g)' /\ ~GotBy(g)'
      BY <1>2, <1>6, <3>4 DEF Queued
    <3> QED BY <1>2, <2>1, <3>5, <3>6 DEF Held, GotBy
  <2> QED BY <1>1, <1>2, <2>2, <2>3 DEF OnePlace
<1>9. Shared' = Shared
  BY <1>2 DEF Shared
<1>10. OwnBlock'
  <2> SUFFICES ASSUME NEW x \in ConnId \ (lost' \cup Shared'), Held(x)'
               PROVE  /\ handleOf'[x] \in Handle
                      /\ pcb'[handleOf'[x]].st = "established" /\ pcb'[handleOf'[x]].conn = x
    BY DEF OwnBlock
  <2>1. x # g
    BY <1>8, <1>9
  <2>2. Held(x)
    BY <1>2 DEF Held, Queued
  <2>3. x \notin lost \cup Shared
    BY <1>4, <1>9
  <2>4. handleOf[x] \in Handle /\ pcb[handleOf[x]].st = "established" /\ pcb[handleOf[x]].conn = x
    BY <1>1, <2>2, <2>3 DEF OwnBlock
  <2> QED BY <1>2, <1>4, <2>1, <2>4
<1>11. Waiters'
  <2> HIDE DEF IInv
  <2>1. ASSUME NEW k \in Call, NEW j \in Handle, k \in waiting[j]
        PROVE  /\ call[k].st = "waiting" /\ call[k].asked \in ConnId /\ call[k].got = None /\ ~disposed
               /\ \/ call[k].asked \in lost'
                  \/ pcb'[j].st = "syn" /\ pcb'[j].conn = call[k].asked
                  \/ \E i \in 1 .. Len(tasks) :
                       tasks[i] = [kind |-> "connected", handle |-> j, conn |-> call[k].asked]
    <3>1. /\ call[k].st = "waiting" /\ call[k].asked \in ConnId /\ call[k].got = None /\ ~disposed
          /\ \/ call[k].asked \in lost
             \/ pcb[j].st = "syn" /\ pcb[j].conn = call[k].asked
             \/ \E i \in 1 .. Len(tasks) :
                  tasks[i] = [kind |-> "connected", handle |-> j, conn |-> call[k].asked]
      BY <1>1, <2>1 DEF Waiters
    <3> QED BY <1>4, <3>1
  <2> QED BY <1>1, <1>2, <2>1 DEF Waiters
<1>12. Calls'
  BY <1>1, <1>2, <1>4 DEF Calls
<1>13. Ordered'
  BY <1>1, <1>2, OrderedKept
<1> QED BY <1>5, <1>7, <1>10, <1>11, <1>12, <1>13 DEF IInv

-----------------------------------------------------------------------------
(* Deferred halves *)

\* The oldest deferred half is taken off the queue.
LEMMA TaskRuns ==
  ASSUME IInv, tasks # <<>>, tasks' = Tail(tasks)
  PROVE  /\ Head(tasks) \in Tasks /\ Head(tasks) = tasks[1] /\ 1 \in 1 .. Len(tasks)
         /\ \A i \in 1 .. Len(tasks') : i + 1 \in 1 .. Len(tasks) /\ tasks'[i] = tasks[i + 1]
         /\ \A i \in 1 .. Len(tasks) : i # 1 => i - 1 \in 1 .. Len(tasks') /\ tasks'[i - 1] = tasks[i]
         /\ \A x : Queued(x)' <=> Queued(x) /\ x # Head(tasks).conn
         /\ Queued(Head(tasks).conn)
<1>1. tasks \in Seq(Tasks)
  BY DEF IInv, TypeOK, Tasks
<1>2. /\ Head(tasks) \in Tasks /\ Head(tasks) = tasks[1] /\ Len(tasks) \in Nat /\ Len(tasks) # 0
      /\ Len(tasks') = Len(tasks) - 1
      /\ \A i \in 1 .. Len(tasks') : tasks'[i] = tasks[i + 1]
  BY <1>1
<1>3. 1 \in 1 .. Len(tasks)
  BY <1>2
<1>4. \A i \in 1 .. Len(tasks') : i + 1 \in 1 .. Len(tasks) /\ i + 1 # 1 /\ tasks'[i] = tasks[i + 1]
  BY <1>2
<1>5. \A i \in 1 .. Len(tasks) : i # 1 => i - 1 \in 1 .. Len(tasks') /\ tasks'[i - 1] = tasks[i]
  <2> SUFFICES ASSUME NEW i \in 1 .. Len(tasks), i # 1
               PROVE  i - 1 \in 1 .. Len(tasks') /\ tasks'[i - 1] = tasks[i]
    OBVIOUS
  <2>1. i - 1 \in 1 .. Len(tasks') /\ (i - 1) + 1 = i
    BY <1>2
  <2> QED BY <1>4, <2>1
<1>6. \A i, j \in 1 .. Len(tasks) : tasks[i].conn = tasks[j].conn => i = j
  BY DEF IInv, OnePlace
<1>7. \A x : Queued(x)' <=> Queued(x) /\ x # Head(tasks).conn
  <2> TAKE x
  <2>1. ASSUME Queued(x)' PROVE Queued(x) /\ x # Head(tasks).conn
    <3>1. PICK i \in 1 .. Len(tasks') : tasks'[i].conn = x
      BY <2>1 DEF Queued
    <3>2. i + 1 \in 1 .. Len(tasks) /\ i + 1 # 1 /\ tasks[i + 1].conn = x
      BY <1>4, <3>1
    <3> QED BY <1>2, <1>3, <1>6, <3>2 DEF Queued
  <2>2. ASSUME Queued(x), x # Head(tasks).conn PROVE Queued(x)'
    <3>1. PICK i \in 1 .. Len(tasks) : tasks[i].conn = x
      BY <2>2 DEF Queued
    <3>2. i # 1
      BY <1>2, <2>2, <3>1
    <3> QED BY <1>5, <3>1, <3>2 DEF Queued
  <2> QED BY <2>1, <2>2
<1>8. Queued(Head(tasks).conn)
  BY <1>2, <1>3 DEF Queued
<1> QED BY <1>2, <1>3, <1>4, <1>5, <1>7, <1>8

\* The order of what is left in the queue.
LEMMA OrderAfterRun ==
  ASSUME IInv, tasks # <<>>, tasks' = Tail(tasks), UNCHANGED <<taken, accepted>>
  PROVE  Ordered'
<1>1. Ordered /\ Listed' = Listed
  BY DEF IInv, Listed
<1>2. \A i \in 1 .. Len(tasks') : i + 1 \in 1 .. Len(tasks) /\ tasks'[i] = tasks[i + 1]
  BY TaskRuns
<1>3. ASSUME NEW i \in 1 .. Len(tasks'), tasks'[i].kind = "accept"
      PROVE  /\ \A j \in 1 .. Len(Listed) : Listed[j] < tasks'[i].conn
             /\ \A j \in i + 1 .. Len(tasks') :
                  tasks'[j].kind = "accept" => tasks'[i].conn < tasks'[j].conn
  <2>1. i + 1 \in 1 .. Len(tasks) /\ tasks'[i] = tasks[i + 1] /\ tasks[i + 1].kind = "accept"
    BY <1>2, <1>3
  <2>2. ASSUME NEW j \in i + 1 .. Len(tasks'), tasks'[j].kind = "accept"
        PROVE  tasks'[i].conn < tasks'[j].conn
    <3>1. j \in 1 .. Len(tasks')
      OBVIOUS
    <3>2. j + 1 \in (i + 1) + 1 .. Len(tasks) /\ tasks'[j] = tasks[j + 1]
      BY <1>2, <3>1
    <3> QED BY <1>1, <2>1, <2>2, <3>2 DEF Ordered
  <2> QED BY <1>1, <2>1, <2>2 DEF Ordered
<1> QED BY <1>1, <1>3 DEF Ordered, AcceptInOrder, Listed

\* The object leaves the queue for at most one other place.
LEMMA PlaceAfterRun ==
  ASSUME IInv, tasks # <<>>, tasks' = Tail(tasks), UNCHANGED <<handleOf, open, taken>>,
         NEW g, g = Head(tasks).conn,
         \A x : GotBy(x)' => GotBy(x) \/ x = g,
         \A x : IsListed(x)' => IsListed(x) \/ x = g,
         ~(GotBy(g)' /\ IsListed(g)'),
         \A k \in Call : call[k].st = "done" => call'[k] = call[k]
  PROVE  OnePlace'
<1>1. OnePlace /\ open \subseteq ConnId
  BY DEF IInv, TypeOK
<1>2. /\ \A i \in 1 .. Len(tasks') : i + 1 \in 1 .. Len(tasks) /\ tasks'[i] = tasks[i + 1]
      /\ \A x : Queued(x)' <=> Queued(x) /\ x # g
      /\ Queued(g)
  BY TaskRuns
<1>3. \A i \in 1 .. Len(tasks') : handleOf'[tasks'[i].conn] = tasks'[i].handle
  BY <1>1, <1>2 DEF OnePlace
<1>4. \A i, j \in 1 .. Len(tasks') : tasks'[i].conn = tasks'[j].conn => i = j
  <2> SUFFICES ASSUME NEW i \in 1 .. Len(tasks'), NEW j \in 1 .. Len(tasks'),
                      tasks'[i].conn = tasks'[j].conn
               PROVE  i = j
    OBVIOUS
  <2>1. i + 1 = j + 1
    BY <1>1, <1>2 DEF OnePlace
  <2> QED BY <2>1
<1>5. \A x \in open' : \/ \E c \in Call : call'[c].st = "done" /\ call'[c].got = x
                       \/ \E i \in 1 .. Len(taken') : taken'[i] = x
  BY <1>1, OriginKept
<1>6. ASSUME NEW x \in ConnId
      PROVE  /\ Queued(x)' \/ GotBy(x)' \/ IsListed(x)' => handleOf'[x] # None
             /\ ~(Queued(x)' /\ GotBy(x)') /\ ~(Queued(x)' /\ IsListed(x)')
             /\ ~(GotBy(x)' /\ IsListed(x)')
  BY <1>1, <1>2 DEF OnePlace
<1> QED BY <1>3, <1>4, <1>5, <1>6 DEF OnePlace

\* After dispose() nothing waits, and the event is dropped.
LEMMA DropStep ==
  ASSUME IInv, TypeOK', tasks # <<>>, tasks' = Tail(tasks), disposed,
         UNCHANGED <<disposed, pcb, opened, lost, connections, handleOf, open, waiting, call,
                     accepted, iter, taken>>
  PROVE  IInv'
<1>1. TypeOK /\ Blocks /\ OnePlace /\ Ordered /\ OwnBlock /\ Waiters /\ Calls
  BY DEF IInv
<1>2. /\ \A i \in 1 .. Len(tasks') : i + 1 \in 1 .. Len(tasks) /\ tasks'[i] = tasks[i + 1]
      /\ \A x : Queued(x)' => Queued(x)
  BY TaskRuns
<1>3. \A x : (GotBy(x)' <=> GotBy(x)) /\ (IsListed(x)' <=> IsListed(x)) /\ (Held(x)' => Held(x))
  BY <1>2 DEF GotBy, IsListed, Listed, Held
<1>4. OnePlace'
  <2>1. PICK g : g = Head(tasks).conn
    OBVIOUS
  <2>2. ~(GotBy(g)' /\ IsListed(g)')
    <3>1. Queued(g) /\ g \in ConnId
      BY <2>1, TaskRuns DEF Tasks
    <3> QED BY <1>1, <1>3, <3>1 DEF OnePlace
  <2> QED BY <1>3, <2>1, <2>2, PlaceAfterRun
<1>5. Shared' = Shared
  BY DEF Shared
<1>6. Waiters'
  <2>1. \A k \in Call, h \in Handle : k \notin waiting[h]
    BY <1>1 DEF Waiters
  <2> QED BY <2>1 DEF Waiters
<1>7. Calls'
  BY <1>1 DEF Calls
<1> QED BY <1>1, <1>3, <1>4, <1>5, <1>6, <1>7, BlocksKept, OrderAfterRun, OwnBlockKept DEF IInv

\* EventMap.set: every call that waits on the handle gets the connection.
LEMMA ConnectedStep ==
  ASSUME IInv, TypeOK', tasks # <<>>, tasks' = Tail(tasks), Connected(Head(tasks)),
         UNCHANGED <<disposed, pcb, opened, lost, connections, handleOf, open, taken>>
  PROVE  IInv'
<1>0. PICK t, g, h : t = Head(tasks) /\ g = t.conn /\ h = t.handle
  OBVIOUS
<1>1. TypeOK /\ Blocks /\ OnePlace /\ Ordered /\ OwnBlock /\ Waiters /\ Calls
  BY DEF IInv
<1>2. t \in Tasks /\ t = tasks[1] /\ 1 \in 1 .. Len(tasks)
  BY <1>0, TaskRuns
<1>3. g \in ConnId /\ h \in Handle /\ handleOf[g] = h /\ g # None
  BY <1>0, <1>1, <1>2, HandleConstants DEF Tasks, OnePlace, ConnId
<1>4. /\ \A i \in 1 .. Len(tasks) : i # 1 => i - 1 \in 1 .. Len(tasks') /\ tasks'[i - 1] = tasks[i]
      /\ \A x : Queued(x)' <=> Queued(x) /\ x # g
      /\ Queued(g)
  BY <1>0, TaskRuns
<1>5. /\ \A k \in Call \cap waiting[h] : /\ call'[k].st = "resolved" /\ call'[k].got = g
                                         /\ call'[k].asked = call[k].asked
      /\ \A k \in Call \ waiting[h] : call'[k] = call[k]
      /\ waiting'[h] = {} /\ \A j \in Handle : j # h => waiting'[j] = waiting[j]
  <2>1. /\ call \in [Call -> [st : Stage, asked : ConnId \cup {None}, got : ConnId \cup {None}]]
        /\ waiting \in [Handle -> SUBSET Call]
    BY <1>1 DEF TypeOK
  <2>2. /\ call' = [k \in Call |-> IF k \in waiting[h]
                                    THEN [call[k] EXCEPT !.st = "resolved", !.got = g] ELSE call[k]]
        /\ waiting' = [waiting EXCEPT ![h] = {}]
    BY <1>0 DEF Connected
  <2>3. waiting'[h] = {} /\ \A j \in Handle : j # h => waiting'[j] = waiting[j]
    BY <1>3, <2>1, <2>2
  <2>4. ASSUME NEW k \in Call, k \in waiting[h]
        PROVE  /\ call'[k].st = "resolved" /\ call'[k].got = g
               /\ call'[k].asked = call[k].asked
    <3>1. call'[k] = [call[k] EXCEPT !.st = "resolved", !.got = g]
      BY <2>2, <2>4
    <3> QED BY <2>1, <3>1
  <2>5. \A k \in Call \ waiting[h] : call'[k] = call[k]
    BY <2>2
  <2> QED BY <2>3, <2>4, <2>5
<1>6. UNCHANGED <<accepted, taken>>
  BY DEF Connected
<1>7. \A k \in Call \cap waiting[h] :
        /\ call[k].st = "waiting" /\ call[k].asked \in ConnId /\ call[k].got = None
        /\ \/ call[k].asked \in lost
           \/ pcb[h].st = "syn" /\ pcb[h].conn = call[k].asked
           \/ \E i \in 1 .. Len(tasks) :
                tasks[i] = [kind |-> "connected", handle |-> h, conn |-> call[k].asked]
  BY <1>1, <1>3 DEF Waiters
<1>8. /\ \A x : GotBy(x)' => GotBy(x) \/ x = g
      /\ \A x : IsListed(x)' <=> IsListed(x)
  BY <1>5, <1>6 DEF GotBy, IsListed, Listed
<1>9. ~GotBy(g) /\ ~IsListed(g)
  BY <1>1, <1>3, <1>4 DEF OnePlace
<1>10. OnePlace'
  <2>1. \A k \in Call : call[k].st = "done" => call'[k] = call[k]
    BY <1>5, <1>7
  <2>2. ~IsListed(g)' /\ g = Head(tasks).conn
    BY <1>0, <1>8, <1>9
  <2> QED BY <1>6, <1>8, <2>1, <2>2, PlaceAfterRun
<1>11. OwnBlock'
  <2>1. ASSUME NEW x \in Shared \cap ConnId PROVE x \in Shared'
    <3>1. PICK k \in Call : call[k].got # call[k].asked /\ call[k].got = x
      BY <2>1 DEF Shared
    <3>2. k \notin waiting[h]
      <4>1. call[k].got # None
        BY <2>1, <3>1, HandleConstants DEF ConnId
      <4> QED BY <1>7, <4>1
    <3>3. call'[k] = call[k]
      BY <1>5, <3>2
    <3> QED BY <3>1, <3>3 DEF Shared
  <2>2. \A x : Held(x)' => Held(x)
    <3>1. \A k \in Call : call'[k].st = "resolved" => call'[k] = call[k] \/ call'[k].got = g
      BY <1>5
    <3>2. open' = open
      OBVIOUS
    <3> QED BY <1>4, <1>6, <3>1, <3>2 DEF Held
  <2> QED BY <1>1, <2>1, <2>2, OwnBlockKept
<1>12. Waiters'
  <2>1. ASSUME NEW k \in Call, NEW j \in Handle, k \in waiting'[j]
        PROVE  k \in waiting[j] /\ j # h /\ call'[k] = call[k]
    <3>1. j # h /\ k \in waiting[j]
      BY <1>5, <2>1
    <3>2. k \notin waiting[h]
      BY <1>1, <1>3, <3>1 DEF Waiters
    <3> QED BY <1>5, <3>1, <3>2
  <2>2. ASSUME NEW k \in Call, NEW j \in Handle, k \in waiting'[j]
        PROVE  /\ call'[k].st = "waiting" /\ call'[k].asked \in ConnId
               /\ call'[k].got = None /\ ~disposed
               /\ \/ call'[k].asked \in lost
                  \/ pcb[j].st = "syn" /\ pcb[j].conn = call'[k].asked
                  \/ \E i \in 1 .. Len(tasks') :
                       tasks'[i] = [kind |-> "connected", handle |-> j, conn |-> call'[k].asked]
    <3>1. /\ call[k].st = "waiting" /\ call[k].asked \in ConnId /\ call[k].got = None /\ ~disposed
          /\ \/ call[k].asked \in lost
             \/ pcb[j].st = "syn" /\ pcb[j].conn = call[k].asked
             \/ \E i \in 1 .. Len(tasks) :
                  tasks[i] = [kind |-> "connected", handle |-> j, conn |-> call[k].asked]
      BY <1>1, <2>1, <2>2 DEF Waiters
    <3>2. ASSUME NEW i \in 1 .. Len(tasks),
                 tasks[i] = [kind |-> "connected", handle |-> j, conn |-> call[k].asked]
          PROVE  \E m \in 1 .. Len(tasks') :
                   tasks'[m] = [kind |-> "connected", handle |-> j, conn |-> call[k].asked]
      <4>1. i # 1
        BY <1>0, <1>2, <2>1, <2>2, <3>2
      <4> QED BY <1>4, <3>2, <4>1
    <3>3. call'[k] = call[k]
      BY <2>1, <2>2
    <3> QED BY <3>1, <3>2, <3>3
  <2>3. \A k \in Call, i, j \in Handle : k \in waiting'[i] /\ k \in waiting'[j] => i = j
    BY <1>1, <2>1 DEF Waiters
  <2> QED BY <2>2, <2>3 DEF Waiters
<1>13. Calls'
  <2>1. ASSUME NEW k \in Call \cap waiting[h]
        PROVE  call[k].asked = g \/ {call[k].asked, g} \cap lost # {}
    <3>1. CASE call[k].asked \in lost \/ g \in lost \/ call[k].asked = g
      BY <3>1
    <3>2. CASE call[k].asked \notin lost /\ g \notin lost
      <4>1. \A x \in ConnId \ lost : Queued(x) =>
              pcb[handleOf[x]].st = "established" /\ pcb[handleOf[x]].conn = x
        <5>1. \A x \in ConnId : Queued(x) => Held(x) /\ x \notin Shared
          BY <1>1 DEF Held, OnePlace, Shared, GotBy
        <5> QED BY <1>1, <5>1 DEF OwnBlock
      <4>2. pcb[h].st = "established" /\ pcb[h].conn = g
        BY <1>3, <1>4, <3>2, <4>1
      <4>3. PICK i \in 1 .. Len(tasks) :
              tasks[i] = [kind |-> "connected", handle |-> h, conn |-> call[k].asked]
        BY <1>7, <3>2, <4>2
      <4>4. call[k].asked \in ConnId /\ Queued(call[k].asked) /\ handleOf[call[k].asked] = h
        <5>1. tasks[i].conn = call[k].asked /\ tasks[i].handle = h
          BY <4>3
        <5>2. handleOf[tasks[i].conn] = tasks[i].handle
          BY <1>1 DEF OnePlace
        <5> QED BY <1>7, <5>1, <5>2 DEF Queued
      <4> QED BY <3>2, <4>1, <4>2, <4>4
    <3> QED BY <3>1, <3>2
  <2>2. \A k \in Call : call'[k].asked = call[k].asked
    BY <1>5
  <2>3. \A k \in Call : call'[k].st \in {"idle", "resolving"} =>
          call'[k].asked = None /\ call'[k].got = None
    BY <1>1, <1>5 DEF Calls
  <2>4. \A k \in Call : call'[k].st \in {"resolved", "done"} =>
          \/ call'[k].got \in ConnId /\ call'[k].got = call'[k].asked
          \/ call'[k].got \in ConnId /\ {call'[k].asked, call'[k].got} \cap lost # {}
    <3> SUFFICES ASSUME NEW k \in Call, call'[k].st \in {"resolved", "done"}
                 PROVE  \/ call'[k].got \in ConnId /\ call'[k].got = call'[k].asked
                        \/ call'[k].got \in ConnId /\ {call'[k].asked, call'[k].got} \cap lost # {}
      OBVIOUS
    <3>1. CASE k \in waiting[h]
      BY <1>3, <1>5, <2>1, <3>1
    <3>2. CASE k \notin waiting[h]
      BY <1>1, <1>5, <3>2 DEF Calls
    <3> QED BY <3>1, <3>2
  <2> QED BY <1>1, <2>2, <2>3, <2>4 DEF Calls
<1> QED BY <1>1, <1>6, <1>10, <1>11, <1>12, <1>13, BlocksKept, OrderAfterRun DEF IInv

\* VirtualTcpListener.accept: the connection goes to the end of the queue.
LEMMA AcceptStep ==
  ASSUME IInv, TypeOK', tasks # <<>>, tasks' = Tail(tasks), Head(tasks).kind = "accept",
         accepted' = Append(accepted, Head(tasks).conn),
         UNCHANGED <<disposed, pcb, opened, lost, connections, handleOf, open, waiting, call, taken>>
  PROVE  IInv'
<1>0. PICK t, g : t = Head(tasks) /\ g = t.conn
  OBVIOUS
<1>1. TypeOK /\ Blocks /\ OnePlace /\ Ordered /\ OwnBlock /\ Waiters /\ Calls
  BY DEF IInv
<1>2. /\ t \in Tasks /\ t = tasks[1] /\ 1 \in 1 .. Len(tasks) /\ tasks[1].kind = "accept"
      /\ g \in ConnId /\ tasks[1].conn = g
  BY <1>0, TaskRuns DEF Tasks
<1>3. /\ \A i \in 1 .. Len(tasks') : i + 1 \in 1 .. Len(tasks) /\ tasks'[i] = tasks[i + 1]
      /\ \A i \in 1 .. Len(tasks) : i # 1 => i - 1 \in 1 .. Len(tasks') /\ tasks'[i - 1] = tasks[i]
      /\ \A x : Queued(x)' <=> Queued(x) /\ x # g
      /\ Queued(g)
  BY <1>0, TaskRuns
<1>4. /\ taken \in Seq(ConnId) /\ accepted \in Seq(ConnId) /\ accepted' = Append(accepted, g)
  BY <1>0, <1>1 DEF TypeOK
<1>5. /\ Len(Listed) \in Nat /\ Len(Listed') = Len(Listed) + 1
      /\ \A i \in 1 .. Len(Listed) : Listed'[i] = Listed[i]
      /\ Listed'[Len(Listed) + 1] = g
  BY <1>2, <1>4 DEF Listed
<1>6. /\ \A x : GotBy(x)' <=> GotBy(x)
      /\ \A x : IsListed(x)' => IsListed(x) \/ x = g
  BY <1>5 DEF GotBy, IsListed
<1>7. OnePlace'
  <2>1. ~GotBy(g)'
    BY <1>1, <1>2, <1>3, <1>6 DEF OnePlace
  <2> QED BY <1>0, <1>6, <2>1, PlaceAfterRun
<1>8. Ordered'
  <2>1. \A i, j \in 1 .. Len(Listed) : i < j => Listed[i] < Listed[j]
    BY <1>1 DEF Ordered, AcceptInOrder, Listed
  <2>2. \A j \in 1 .. Len(Listed) : Listed[j] < g
    BY <1>1, <1>2 DEF Ordered
  <2>3. \A i, j \in 1 .. Len(Listed') : i < j => Listed'[i] < Listed'[j]
    <3> SUFFICES ASSUME NEW i \in 1 .. Len(Listed'), NEW j \in 1 .. Len(Listed'), i < j
                 PROVE  Listed'[i] < Listed'[j]
      OBVIOUS
    <3>1. i \in 1 .. Len(Listed) /\ (j \in 1 .. Len(Listed) \/ j = Len(Listed) + 1)
      <4>1. Len(Listed) \in Nat /\ Len(Listed') = Len(Listed) + 1
        BY <1>5
      <4> QED BY <4>1
    <3>2. Listed'[i] = Listed[i]
      BY <1>5, <3>1
    <3>3. CASE j \in 1 .. Len(Listed)
      <4>1. Listed'[j] = Listed[j]
        BY <1>5, <3>3
      <4> QED BY <2>1, <3>1, <3>2, <3>3, <4>1
    <3>4. CASE j = Len(Listed) + 1
      <4>1. Listed'[j] = g
        BY <1>5, <3>4
      <4> QED BY <2>2, <3>1, <3>2, <4>1
    <3> QED BY <3>1, <3>3, <3>4
  <2>4. \A i \in 1 .. Len(tasks) : i # 1 /\ tasks[i].kind = "accept" =>
          /\ \A j \in 1 .. Len(Listed) : Listed[j] < tasks[i].conn
          /\ g < tasks[i].conn
          /\ \A j \in i + 1 .. Len(tasks) : tasks[j].kind = "accept" => tasks[i].conn < tasks[j].conn
    BY <1>1, <1>2 DEF Ordered
  <2>5. ASSUME NEW i \in 1 .. Len(tasks'), tasks'[i].kind = "accept"
        PROVE  /\ \A j \in 1 .. Len(Listed') : Listed'[j] < tasks'[i].conn
               /\ \A j \in i + 1 .. Len(tasks') :
                    tasks'[j].kind = "accept" => tasks'[i].conn < tasks'[j].conn
    <3>1. i + 1 \in 1 .. Len(tasks) /\ i + 1 # 1 /\ tasks'[i] = tasks[i + 1]
      BY <1>3
    <3>2. \A j \in 1 .. Len(Listed') : Listed'[j] < tasks'[i].conn
      BY <1>5, <2>4, <2>5, <3>1
    <3>3. ASSUME NEW j \in i + 1 .. Len(tasks'), tasks'[j].kind = "accept"
          PROVE  tasks'[i].conn < tasks'[j].conn
      <4>1. j \in 1 .. Len(tasks')
        OBVIOUS
      <4>2. j + 1 \in (i + 1) + 1 .. Len(tasks) /\ tasks'[j] = tasks[j + 1]
        BY <1>3, <4>1
      <4> QED BY <2>4, <2>5, <3>1, <3>3, <4>2
    <3> QED BY <3>2, <3>3
  <2>6. AcceptInOrder'
    BY <2>3 DEF AcceptInOrder, Listed
  <2> QED BY <2>5, <2>6 DEF Ordered
<1>9. OwnBlock'
  <2>1. \A i \in 1 .. Len(accepted') : accepted'[i] = g \/ \E j \in 1 .. Len(accepted) : accepted[j] = accepted'[i]
    BY <1>4
  <2>2. \A x : Held(x)' => Held(x)
    <3>1. open' = open /\ call' = call
      OBVIOUS
    <3> QED BY <1>3, <2>1, <3>1 DEF Held
  <2> QED BY <1>1, <2>2, OwnBlockKept DEF Shared
<1>10. Waiters'
  <2>1. ASSUME NEW k \in Call, NEW h \in Handle, NEW i \in 1 .. Len(tasks),
               tasks[i] = [kind |-> "connected", handle |-> h, conn |-> call[k].asked]
        PROVE  \E m \in 1 .. Len(tasks') :
                 tasks'[m] = [kind |-> "connected", handle |-> h, conn |-> call[k].asked]
    <3>1. tasks[i].kind = "connected"
      BY <2>1
    <3>2. i # 1
      BY <1>2, <3>1
    <3> QED BY <1>3, <2>1, <3>2
  <2>2. UNCHANGED <<disposed, pcb, lost, waiting, call>>
    OBVIOUS
  <2> QED BY <1>1, <2>1, <2>2 DEF Waiters
<1>11. Calls'
  BY <1>1 DEF Calls
<1> QED BY <1>1, <1>7, <1>8, <1>9, <1>10, <1>11, BlocksKept DEF IInv

\* The iterator yields the oldest connection: the list stays the same.
LEMMA YieldStep ==
  ASSUME IInv, TypeOK', accepted # <<>>, taken' = Append(taken, Head(accepted)),
         accepted' = Tail(accepted), open' = open \cup {Head(accepted)},
         UNCHANGED <<disposed, pcb, opened, lost, connections, handleOf, waiting, call, tasks>>
  PROVE  IInv'
<1>1. TypeOK /\ Blocks /\ OnePlace /\ Ordered /\ OwnBlock /\ Waiters /\ Calls
  BY DEF IInv
<1>2. taken \in Seq(ConnId) /\ accepted \in Seq(ConnId) /\ accepted # <<>>
  BY <1>1 DEF TypeOK
<1>3. /\ Head(accepted) = accepted[1] /\ 1 \in 1 .. Len(accepted)
      /\ Len(taken') = Len(taken) + 1 /\ taken'[Len(taken) + 1] = accepted[1]
      /\ \A i \in 1 .. Len(taken) : i \in 1 .. Len(taken') /\ taken'[i] = taken[i]
      /\ \A i \in 1 .. Len(accepted') : i + 1 \in 1 .. Len(accepted) /\ accepted'[i] = accepted[i + 1]
      /\ Len(taken) \in Nat
  BY <1>2
<1>4. Len(Listed') = Len(Listed) /\ \A i \in 1 .. Len(Listed) : Listed'[i] = Listed[i]
  BY <1>2 DEF Listed
<1>5. /\ \A x : GotBy(x)' <=> GotBy(x)
      /\ \A x : IsListed(x)' <=> IsListed(x)
  BY <1>4 DEF GotBy, IsListed
<1>6. OnePlace'
  <2>1. ASSUME NEW x \in open'
        PROVE  \/ \E c \in Call : call'[c].st = "done" /\ call'[c].got = x
               \/ \E i \in 1 .. Len(taken') : taken'[i] = x
    <3>1. CASE x = accepted[1]
      <4>1. Len(taken) + 1 \in 1 .. Len(taken')
        BY <1>3
      <4> QED BY <1>3, <3>1, <4>1
    <3>2. CASE x \in open
      <4>1. x \in ConnId
        BY <1>1, <3>2 DEF TypeOK
      <4>2. \/ \E c \in Call : call[c].st = "done" /\ call[c].got = x
            \/ \E i \in 1 .. Len(taken) : taken[i] = x
        BY <1>1, <3>2, <4>1 DEF OnePlace
      <4> QED BY <1>3, <4>2
    <3> QED BY <1>3, <3>1, <3>2
  <2> QED BY <1>1, <1>5, <2>1, OnePlaceKept
<1>7. Ordered'
  <2>1. \A i, j \in 1 .. Len(Listed) : i < j => Listed[i] < Listed[j]
    BY <1>1 DEF Ordered, AcceptInOrder, Listed
  <2>2. \A i, j \in 1 .. Len(Listed') : i < j => Listed'[i] < Listed'[j]
    BY <1>4, <2>1
  <2>3. AcceptInOrder'
    BY <2>2 DEF AcceptInOrder, Listed
  <2> QED BY <1>1, <1>4, <2>3 DEF Ordered
<1>8. OwnBlock'
  <2>1. \A x : Held(x)' => Held(x)
    BY <1>3 DEF Held, Queued
  <2> QED BY <1>1, <2>1, OwnBlockKept DEF Shared
<1>9. Waiters' /\ Calls'
  BY <1>1 DEF Waiters, Calls
<1> QED BY <1>1, <1>6, <1>7, <1>8, <1>9, BlocksKept DEF IInv

-----------------------------------------------------------------------------
(* dispose() *)

LEMMA DisposeStep ==
  ASSUME IInv, TypeOK', Dispose
  PROVE  IInv'
<1>1. TypeOK /\ Blocks /\ OnePlace /\ Ordered /\ OwnBlock /\ Waiters /\ Calls
  BY DEF IInv
<1>2. /\ UNCHANGED <<pcb, opened, lost, handleOf, tasks, taken>>
      /\ accepted' = <<>> /\ open' = {} /\ \A h \in Handle : waiting'[h] = {}
  BY DEF Dispose, RejectWaiting
<1>3. \A k \in Call : /\ call'[k].got = call[k].got /\ call'[k].asked = call[k].asked
                      /\ call'[k] = call[k] \/ call'[k].st = "rejected"
  BY <1>1 DEF Dispose, RejectWaiting, TypeOK
<1>4. taken \in Seq(ConnId) /\ accepted \in Seq(ConnId)
  BY <1>1 DEF TypeOK
<1>5. /\ \A i \in 1 .. Len(Listed') : i \in 1 .. Len(Listed) /\ Listed'[i] = Listed[i]
      /\ Len(Listed') \in Nat /\ Len(Listed) \in Nat
  BY <1>2, <1>4 DEF Listed
<1>6. /\ \A x : GotBy(x)' <=> GotBy(x)
      /\ \A x : IsListed(x)' => IsListed(x)
  BY <1>3, <1>5 DEF GotBy, IsListed
<1>7. OnePlace'
  BY <1>1, <1>2, <1>6, OnePlaceKept
<1>8. Ordered'
  <2>1. \A i, j \in 1 .. Len(Listed) : i < j => Listed[i] < Listed[j]
    BY <1>1 DEF Ordered, AcceptInOrder, Listed
  <2>2. \A i, j \in 1 .. Len(Listed') : i < j => Listed'[i] < Listed'[j]
    BY <1>5, <2>1
  <2>3. AcceptInOrder'
    BY <2>2 DEF AcceptInOrder, Listed
  <2> QED BY <1>1, <1>2, <1>5, <2>3 DEF Ordered
<1>9. OwnBlock'
  <2>1. \A x : Held(x)' => Held(x)
    <3>1. \A k \in Call : call'[k].st = "resolved" => call'[k] = call[k]
      BY <1>3
    <3>2. 1 .. Len(accepted') = {}
      BY <1>2
    <3> QED BY <1>2, <3>1, <3>2 DEF Held, Queued
  <2>2. Shared' = Shared
    BY <1>3 DEF Shared
  <2> QED BY <1>1, <1>2, <2>1, <2>2, OwnBlockKept
<1>10. Waiters'
  BY <1>2 DEF Waiters
<1>11. Calls'
  <2>1. \A k \in Call : call'[k].st # "rejected" => call'[k] = call[k]
    BY <1>3
  <2> QED BY <1>1, <1>2, <1>3, <2>1 DEF Calls
<1> QED BY <1>1, <1>2, <1>7, <1>8, <1>9, <1>10, <1>11, BlocksKept DEF IInv

-----------------------------------------------------------------------------

LEMMA Initially == Init => IInv
<1> SUFFICES ASSUME Init PROVE IInv
  OBVIOUS
<1>1. TypeOK
  <2>1. disposed \in BOOLEAN /\ opened \in 0 .. MaxConn /\ lost \subseteq ConnId /\ open \subseteq ConnId
    <3>1. 0 \in 0 .. MaxConn
      BY HandleConstants
    <3> QED BY <3>1 DEF Init
  <2>2. pcb \in [Handle -> [st : {"free"}, conn : {None}]
                           \cup [st : {"syn", "established", "closing"}, conn : ConnId]]
    BY DEF Init
  <2>3. /\ connections \in [Handle -> ConnId \cup {None}]
        /\ handleOf \in [ConnId -> Handle \cup {None}]
        /\ waiting \in [Handle -> SUBSET Call]
        /\ iter \in [Iter -> {"run", "wait", "end"}]
    BY DEF Init
  <2>4. call \in [Call -> [st : Stage, asked : ConnId \cup {None}, got : ConnId \cup {None}]]
    BY DEF Init, Stage
  <2>5. /\ tasks \in Seq([kind : {"connected", "accept"}, handle : Handle, conn : ConnId])
        /\ accepted \in Seq(ConnId) /\ taken \in Seq(ConnId)
    BY DEF Init
  <2> QED BY <2>1, <2>2, <2>3, <2>4, <2>5 DEF TypeOK
<1>2. 1 .. Len(tasks) = {} /\ 1 .. Len(accepted) = {} /\ 1 .. Len(taken) = {} /\ 1 .. Len(Listed) = {}
  BY DEF Init, Listed
<1>3. \A k \in Call : call[k].st = "idle" /\ call[k].asked = None /\ call[k].got = None
  BY DEF Init
<1>4. \A g \in ConnId : ~Queued(g) /\ ~GotBy(g) /\ ~IsListed(g) /\ ~Held(g)
  <2>1. \A g \in ConnId : g # None
    BY HandleConstants DEF ConnId
  <2> QED BY <1>2, <1>3, <2>1 DEF Queued, GotBy, IsListed, Held, Init
<1>5. Blocks /\ OnePlace
  BY <1>2, <1>4 DEF Blocks, OnePlace, Init
<1>6. Ordered
  BY <1>2 DEF Ordered, AcceptInOrder, Listed
<1>7. OwnBlock /\ Waiters
  BY <1>4 DEF OwnBlock, Waiters, Init
<1>8. Calls
  BY <1>3 DEF Calls
<1> QED BY <1>1, <1>5, <1>6, <1>7, <1>8 DEF IInv

LEMMA Inductive == IInv /\ [Next]_vars => IInv'
<1> SUFFICES ASSUME IInv, [Next]_vars PROVE IInv'
  OBVIOUS
<1>0. TypeOK /\ Blocks /\ TypeOK'
  BY TypeInductive DEF IInv
<1>1. ASSUME NEW k \in Call, Connect(k) PROVE IInv'
  BY <1>0, <1>1, StageStep DEF Connect
<1>2. ASSUME NEW k \in Call, ResolveHost(k) PROVE IInv'
  <2>1. call[k].st = "resolving" /\ UNCHANGED <<disposed, lost, connections, handleOf, open, tasks, accepted, iter, taken>>
    BY <1>2 DEF ResolveHost
  <2>2. CASE Reject(k) /\ UNCHANGED <<pcb, opened, waiting>>
    BY <1>0, <2>1, <2>2, StageStep DEF Reject
  <2>3. CASE ~disposed /\ Dial(k)
    <3>1. PICK h \in Handle : /\ Open(h, "syn")
                              /\ waiting' = [waiting EXCEPT ![h] = @ \cup {k}]
                              /\ call' = [call EXCEPT ![k].st = "waiting", ![k].asked = opened + 1]
      BY <2>3 DEF Dial
    <3> QED BY <1>0, <2>1, <2>3, <3>1, DialStep
  <2> QED BY <1>2, <2>2, <2>3 DEF ResolveHost, AfterResolve
<1>3. ASSUME NEW k \in Call, ConnectReturns(k) PROVE IInv'
  <2>1. CASE disposed
    BY <1>0, <1>3, <2>1, StageStep DEF ConnectReturns, ConnectResult
  <2>2. CASE ~disposed
    BY <1>0, <1>3, <2>2, ReturnStep DEF ConnectReturns, ConnectResult
  <2> QED BY <2>1, <2>2
<1>4. ASSUME NEW h \in Handle, ConnectedCallback(h) PROVE IInv'
  <2>1. /\ pcb[h].st = "syn" /\ pcb[h].conn \in ConnId /\ pcb[h].conn # None
        /\ pcb'[h].st = "established" /\ pcb'[h].conn = pcb[h].conn
        /\ \A j \in Handle : j # h => pcb'[j] = pcb[j]
    BY <1>0, <1>4, HandleConstants DEF ConnectedCallback, TypeOK, ConnId
  <2>2. handleOf[pcb[h].conn] = None /\ \A j \in Handle : j # h => pcb[j].conn # pcb[h].conn
    BY <1>0, <2>1 DEF Blocks
  <2> QED BY <1>0, <1>4, <2>1, <2>2, RegisterStep DEF ConnectedCallback
<1>5. ASSUME NEW h \in Handle, AcceptCallback(h) PROVE IInv'
  <2>1. opened' = opened + 1 /\ opened + 1 \in ConnId
    BY <1>0, <1>5, OpenType DEF AcceptCallback
  <2>2. handleOf[opened + 1] = None /\ \A j \in Handle : pcb[j].conn # opened + 1
    BY <2>1, NewConnection
  <2>3. /\ pcb[h].st = "free" /\ pcb'[h].st = "established" /\ pcb'[h].conn = opened + 1
        /\ \A j \in Handle : j # h => pcb'[j] = pcb[j]
    BY <1>0, <1>5 DEF AcceptCallback, Open, TypeOK
  <2> QED BY <1>0, <1>5, <2>1, <2>2, <2>3, RegisterStep DEF AcceptCallback
<1>6. ASSUME NEW h \in Handle, Reset(h) \/ Freed(h) PROVE IInv'
  BY <1>0, <1>6, FreeStep DEF Reset, Freed
<1>7. ASSUME RunTask PROVE IInv'
  <2>1. /\ tasks # <<>> /\ tasks' = Tail(tasks)
        /\ UNCHANGED <<disposed, pcb, opened, lost, connections, handleOf, open, taken>>
    BY <1>7 DEF RunTask
  <2>2. CASE disposed /\ UNCHANGED <<call, waiting, accepted, iter>>
    BY <1>0, <2>1, <2>2, DropStep
  <2>3. CASE Connected(Head(tasks))
    BY <1>0, <2>1, <2>3, ConnectedStep
  <2>4. CASE Head(tasks).kind = "accept" /\ Accept(Head(tasks))
    BY <1>0, <2>1, <2>4, AcceptStep DEF Accept
  <2> QED BY <1>7, <2>2, <2>3, <2>4 DEF RunTask
<1>8. ASSUME NEW i \in Iter, Iterate(i) PROVE IInv'
  <2>1. CASE UNCHANGED <<accepted, taken, open>>
    <3>1. UNCHANGED <<disposed, pcb, opened, lost, connections, handleOf, waiting, call, tasks,
                      accepted, taken, open>>
      BY <1>8, <2>1 DEF Iterate
    <3> QED BY <1>0, <3>1 DEF IInv, Blocks, OnePlace, Ordered, AcceptInOrder, OwnBlock, Waiters, Calls,
                             Held, Queued, GotBy, IsListed, Listed, Shared
  <2>2. CASE /\ accepted # <<>> /\ taken' = Append(taken, Head(accepted))
             /\ accepted' = Tail(accepted) /\ open' = open \cup {Head(accepted)}
    BY <1>0, <1>8, <2>2, YieldStep DEF Iterate
  <2> QED BY <1>8, <2>1, <2>2 DEF Iterate
<1>9. ASSUME NEW g \in ConnId, Close(g) PROVE IInv'
  BY <1>0, <1>9, CloseStep
<1>10. CASE Dispose
  BY <1>0, <1>10, DisposeStep
<1>11. CASE UNCHANGED vars
  BY <1>0, <1>11 DEF vars, IInv, Blocks, OnePlace, Ordered, AcceptInOrder, OwnBlock, Waiters, Calls,
                     Held, Queued, GotBy, IsListed, Listed, Shared
<1> QED BY <1>1, <1>2, <1>3, <1>4, <1>5, <1>6, <1>7, <1>8, <1>9, <1>10, <1>11 DEF Next, CallStep

LEMMA Invariance == Spec => []IInv
<1> QED BY Initially, Inductive, PTL DEF Spec

-----------------------------------------------------------------------------
(* The theorems *)

\* The handle of a connection the application may still use, and that was
\* neither lost nor shared, names the block of that connection or a free one:
\* write() and close() act on no other connection.
THEOREM HandleNamesOwnBlock == Spec => []HandleIsOwn
<1>1. IInv => HandleIsOwn
  BY DEF IInv, OwnBlock, Held, HandleIsOwn, TypeOK
<1> QED BY <1>1, Invariance, PTL

\* The listener yields every connection at most once, in the order of accept.
THEOREM AcceptedInOrder == Spec => []AcceptInOrder
<1>1. IInv => AcceptInOrder
  BY DEF IInv, Ordered
<1> QED BY <1>1, Invariance, PTL

\* A call of connect() that returns has the connection it asked for, unless
\* one of the two was refused, reset or closed through a stale handle.
THEOREM OwnUnlessRefused == Spec => []UnlessRefused
<1>1. IInv => UnlessRefused
  BY DEF IInv, Calls, UnlessRefused, OwnConnection
<1> QED BY <1>1, Invariance, PTL

\* After dispose() nothing is opened, no call succeeds or starts to wait, and
\* no iterator yields.
THEOREM DisposedIsFinal == Spec => NothingAfterDispose
<1>1. ASSUME TypeOK, [Next]_vars, disposed
      PROVE  /\ opened' = opened
             /\ \A k \in Call : call'[k].st \in {"done", "waiting"} => call'[k] = call[k]
             /\ taken' = taken
  <2>1. ASSUME NEW k \in Call, NEW st \in {"rejected"}, call' = [call EXCEPT ![k].st = st]
        PROVE  \A c \in Call : call'[c].st \in {"done", "waiting"} => call'[c] = call[c]
    BY <1>1, <2>1 DEF TypeOK
  <2>2. ASSUME NEW k \in Call, Connect(k) \/ CallStep(k)
        PROVE  /\ UNCHANGED <<opened, taken>> /\ call' = [call EXCEPT ![k].st = "rejected"]
    BY <1>1, <2>2 DEF Connect, CallStep, ResolveHost, AfterResolve, Reject, ConnectReturns, ConnectResult
  <2>3. ASSUME NEW h \in Handle,
               ConnectedCallback(h) \/ AcceptCallback(h) \/ Reset(h) \/ Freed(h)
        PROVE  FALSE
    BY <1>1, <2>3 DEF ConnectedCallback, AcceptCallback, Reset, Freed
  <2>4. CASE RunTask
    BY <1>1, <2>4 DEF RunTask
  <2>5. ASSUME NEW i \in Iter, Iterate(i) PROVE UNCHANGED <<opened, call, taken>>
    BY <1>1, <2>5 DEF Iterate
  <2>6. ASSUME NEW g \in ConnId, Close(g) PROVE FALSE
    BY <1>1, <2>6 DEF Close
  <2>7. CASE Dispose
    BY <1>1, <2>7 DEF Dispose
  <2>8. CASE UNCHANGED vars
    BY <2>8 DEF vars
  <2> QED BY <1>1, <2>1, <2>2, <2>3, <2>4, <2>5, <2>6, <2>7, <2>8 DEF Next
<1>2. IInv => TypeOK
  BY DEF IInv
<1>3. IInv /\ [Next]_vars =>
        [disposed => /\ opened' = opened
                     /\ \A k \in Call : call'[k].st \in {"done", "waiting"} => call'[k] = call[k]
                     /\ taken' = taken]_vars
  BY <1>1, <1>2
<1> QED BY <1>3, Invariance, PTL DEF Spec, NothingAfterDispose

-----------------------------------------------------------------------------
(* Nobody sleeps forgotten                                                  *)

\* Who waits is in the register it will be woken from, and what it waits for
\* is not there yet.
Registered == \A k \in Call : call[k].st = "waiting" => \E h \in Handle : k \in waiting[h]
Sleeping == \A i \in Iter : iter[i] = "wait" => accepted = <<>> /\ ~disposed

\* A step in which no call starts to wait or is struck from the register.
LEMMA RegisteredKept ==
  ASSUME Registered, UNCHANGED waiting,
         \A k \in Call : call'[k].st = "waiting" => call[k].st = "waiting"
  PROVE  Registered'
BY DEF Registered

LEMMA RegisteredInductive == IInv /\ Registered /\ [Next]_vars => Registered'
<1> SUFFICES ASSUME IInv, Registered, [Next]_vars PROVE Registered'
  OBVIOUS
<1>0. /\ call \in [Call -> Calls0] /\ waiting \in [Handle -> SUBSET Call]
      /\ tasks \in Seq(Tasks)
  BY DEF IInv, TypeOK, Calls0, Tasks
<1>1. ASSUME NEW k \in Call, NEW stage \in Stage \ {"waiting"},
             call' = [call EXCEPT ![k].st = stage], UNCHANGED waiting
      PROVE  Registered'
  <2>1. \A l \in Call : call'[l].st = "waiting" => call[l].st = "waiting"
    BY <1>0, <1>1 DEF Calls0
  <2> QED BY <1>1, <2>1, RegisteredKept
<1>2. ASSUME NEW k \in Call, Connect(k) PROVE Registered'
  <2>1. PICK stage : stage = IF disposed THEN "rejected" ELSE "resolving"
    OBVIOUS
  <2>2. stage \in Stage \ {"waiting"}
    BY <2>1 DEF Stage
  <2> QED BY <1>1, <1>2, <2>1, <2>2 DEF Connect
<1>3. ASSUME NEW k \in Call, ResolveHost(k) PROVE Registered'
  <2>1. CASE Reject(k) /\ UNCHANGED waiting
    BY <1>1, <2>1 DEF Reject, Stage
  <2>2. CASE Dial(k)
    <3>1. PICK h \in Handle :
            /\ waiting' = [waiting EXCEPT ![h] = @ \cup {k}]
            /\ call' = [call EXCEPT ![k].st = "waiting", ![k].asked = opened + 1]
      BY <2>2 DEF Dial
    <3>2. k \in waiting'[h] /\ \A j \in Handle : waiting[j] \subseteq waiting'[j]
      BY <1>0, <3>1
    <3>3. \A l \in Call : l # k => call'[l] = call[l]
      BY <1>0, <3>1
    <3> QED BY <3>2, <3>3 DEF Registered
  <2> QED BY <1>3, <2>1, <2>2 DEF ResolveHost, AfterResolve
<1>4. ASSUME NEW k \in Call, ConnectReturns(k) PROVE Registered'
  <2>1. PICK stage : stage = ConnectResult(k)
    OBVIOUS
  <2>2. stage \in Stage \ {"waiting"}
    BY <2>1 DEF ConnectResult, Stage
  <2> QED BY <1>1, <1>4, <2>1, <2>2 DEF ConnectReturns
<1>5. ASSUME NEW task \in Tasks, Connected(task) PROVE Registered'
  <2>1. task.handle \in Handle
    BY DEF Tasks
  <2>2. SUFFICES ASSUME NEW k \in Call, call'[k].st = "waiting"
                 PROVE  \E h \in Handle : k \in waiting'[h]
    BY DEF Registered
  <2>3. k \notin waiting[task.handle]
    <3> SUFFICES ASSUME k \in waiting[task.handle] PROVE FALSE
      OBVIOUS
    <3>1. call'[k] = [call[k] EXCEPT !.st = "resolved", !.got = task.conn]
      BY <1>5 DEF Connected
    <3>2. call'[k].st = "resolved"
      BY <1>0, <3>1 DEF Calls0
    <3> QED BY <2>2, <3>2
  <2>4. call'[k] = call[k]
    BY <1>5, <2>3 DEF Connected
  <2>5. PICK h \in Handle : k \in waiting[h]
    BY <2>2, <2>4 DEF Registered
  <2>6. h # task.handle /\ waiting'[h] = waiting[h]
    BY <1>0, <1>5, <2>3, <2>5 DEF Connected
  <2> QED BY <2>5, <2>6
<1>6. CASE RunTask
  <2>1. CASE UNCHANGED <<call, waiting>>
    BY <2>1 DEF Registered
  <2>2. CASE Connected(Head(tasks))
    BY <1>0, <1>5, <1>6, <2>2, HeadTailProperties DEF RunTask
  <2> QED BY <1>6, <2>1, <2>2 DEF RunTask, Accept
<1>7. CASE Dispose
  <2>1. ASSUME NEW k \in Call PROVE call'[k].st # "waiting"
    <3>1. CASE \E h \in Handle : k \in waiting[h]
      <4>1. call'[k] = [call[k] EXCEPT !.st = "rejected"]
        BY <1>7, <3>1 DEF Dispose, RejectWaiting
      <4> QED BY <1>0, <4>1 DEF Calls0
    <3>2. CASE ~\E h \in Handle : k \in waiting[h]
      <4>1. call'[k] = call[k]
        BY <1>7, <3>2 DEF Dispose, RejectWaiting
      <4> QED BY <3>2, <4>1 DEF Registered
    <3> QED BY <3>1, <3>2
  <2> QED BY <2>1 DEF Registered
<1>8. CASE \/ \E h \in Handle : ConnectedCallback(h) \/ AcceptCallback(h) \/ Reset(h) \/ Freed(h)
           \/ \E i \in Iter : Iterate(i)
           \/ \E g \in ConnId : Close(g)
           \/ UNCHANGED vars
  <2>1. UNCHANGED <<call, waiting>>
    BY <1>8 DEF ConnectedCallback, AcceptCallback, Reset, Freed, Iterate, Close, vars
  <2> QED BY <2>1 DEF Registered
<1> QED BY <1>2, <1>3, <1>4, <1>6, <1>7, <1>8 DEF Next, CallStep

LEMMA SleepingInductive == IInv /\ Sleeping /\ [Next]_vars => Sleeping'
<1> SUFFICES ASSUME IInv, Sleeping, [Next]_vars PROVE Sleeping'
  OBVIOUS
<1>0. iter \in [Iter -> {"run", "wait", "end"}]
  BY DEF IInv, TypeOK
<1>1. ASSUME NEW i \in Iter, Iterate(i) PROVE Sleeping'
  <2>1. CASE disposed
    <3>1. iter' = [iter EXCEPT ![i] = "end"] /\ UNCHANGED <<accepted, disposed>>
      BY <1>1, <2>1 DEF Iterate
    <3> QED BY <1>0, <3>1 DEF Sleeping
  <2>2. CASE ~disposed /\ accepted = <<>>
    <3>1. UNCHANGED <<accepted, disposed>>
      BY <1>1, <2>2 DEF Iterate
    <3> QED BY <2>2, <3>1 DEF Sleeping
  <2>3. CASE ~disposed /\ accepted # <<>>
    <3>1. UNCHANGED iter
      BY <1>1, <2>3 DEF Iterate
    <3> QED BY <2>3, <3>1 DEF Sleeping
  <2> QED BY <2>1, <2>2, <2>3
<1>2. CASE Dispose \/ Accept(Head(tasks))
  <2>1. iter' = [i \in Iter |-> IF iter[i] = "wait" THEN "run" ELSE iter[i]]
    BY <1>2 DEF Dispose, Accept
  <2> QED BY <2>1 DEF Sleeping
<1>3. CASE UNCHANGED <<iter, accepted, disposed>>
  BY <1>3 DEF Sleeping
<1>4. RunTask => Accept(Head(tasks)) \/ UNCHANGED <<iter, accepted, disposed>>
  BY DEF RunTask, Connected
<1>5. \/ \E k \in Call : Connect(k) \/ CallStep(k)
      \/ \E h \in Handle : ConnectedCallback(h) \/ AcceptCallback(h) \/ Reset(h) \/ Freed(h)
      \/ \E g \in ConnId : Close(g)
      \/ UNCHANGED vars
      => UNCHANGED <<iter, accepted, disposed>>
  BY DEF Connect, CallStep, ResolveHost, ConnectReturns, ConnectedCallback, AcceptCallback,
         Reset, Freed, Close, vars
<1> QED BY <1>1, <1>2, <1>3, <1>4, <1>5 DEF Next

\* A call or an iterator that sleeps will be woken by something that is under
\* way, however handles are reused: what SettlesUnlessRefused and AcceptDelivered
\* need beside fairness (tcp.ts:261-300, 373-405, 430-473; util.ts:90-114).
THEOREM SleepersAreKnown == Spec => []NobodyForgotten
<1>1. Init => Registered /\ Sleeping
  BY DEF Init, Registered, Sleeping
<1>2. IInv /\ Registered /\ Sleeping => NobodyForgotten
  <2> SUFFICES ASSUME IInv, Registered, Sleeping PROVE NobodyForgotten
    OBVIOUS
  <2>1. ASSUME NEW k \in Call, call[k].st = "waiting"
        PROVE  \E h \in Handle :
                 /\ k \in waiting[h]
                 /\ \/ call[k].asked \in lost
                    \/ pcb[h] = [st |-> "syn", conn |-> call[k].asked]
                    \/ \E i \in 1 .. Len(tasks) : tasks[i] = ConnectEvent(h, call[k].asked)
    <3>1. PICK h \in Handle : k \in waiting[h]
      BY <2>1 DEF Registered
    <3>2. \/ call[k].asked \in lost
          \/ pcb[h].st = "syn" /\ pcb[h].conn = call[k].asked
          \/ \E i \in 1 .. Len(tasks) : tasks[i] = ConnectEvent(h, call[k].asked)
      BY <3>1 DEF IInv, Waiters, ConnectEvent
    <3>3. pcb[h] \in Block
      BY DEF IInv, TypeOK, Block
    <3>4. pcb[h] = [st |-> pcb[h].st, conn |-> pcb[h].conn]
      BY <3>3 DEF Block
    <3> QED BY <3>1, <3>2, <3>4
  <2> QED BY <2>1 DEF NobodyForgotten, Sleeping
<1> QED BY <1>1, <1>2, Invariance, RegisteredInductive, SleepingInductive, PTL DEF Spec

=============================================================================
