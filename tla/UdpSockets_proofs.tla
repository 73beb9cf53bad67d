-------------------------- MODULE UdpSockets_proofs -------------------------
(* Proofs of the safety properties of UdpSockets, for any pool of blocks,   *)
(* any sockets and any number of datagrams.                                 *)
EXTENDS UdpSockets, TLAPS

\* A step that changes only one socket's stage, among those with its handle.
LEMMA SockStep ==
  ASSUME TypeOK, NEW s \in Socket, NEW stage \in {"idle", "resolving", "failed", "open",
                                                 "cancelled", "closing", "closed"},
         sock' = At(s, stage),
         stage \in {"idle", "resolving", "failed"} <=> NeverOpened(s),
         UNCHANGED send
  PROVE  sock' \in [Socket -> SocketState] /\ HandlesKnown' /\ SendersOpened'
<1>1. sock[s] \in SocketState /\ [st |-> stage, handle |-> sock[s].handle] \in SocketState
  BY DEF TypeOK, SocketState
<1>2. sock' \in [Socket -> SocketState]
  BY <1>1 DEF TypeOK, At
<1>3. \A r \in Socket : sock'[r].handle = sock[r].handle /\ (NeverOpened(r)' <=> NeverOpened(r))
  BY DEF TypeOK, At, NeverOpened
<1> QED BY <1>2, <1>3 DEF TypeOK, HandlesKnown, SendersOpened

\* A step that changes only one call of send().
LEMMA SendStep ==
  ASSUME TypeOK, NEW x \in Send, NEW rec \in SendState,
         send' = [send EXCEPT ![x] = rec], UNCHANGED sock,
         rec.by \in Socket, ~NeverOpened(rec.by)
  PROVE  send' \in [Send -> SendState] /\ HandlesKnown' /\ SendersOpened'
BY DEF TypeOK, NeverOpened, HandlesKnown, SendersOpened

LEMMA TypeInductive == TypeOK /\ [Next]_vars => TypeOK'
<1> SUFFICES ASSUME TypeOK, [Next]_vars PROVE TypeOK'
  OBVIOUS
<1>1. ASSUME NEW s \in Socket, Open(s) PROVE TypeOK'
  BY <1>1, SockStep DEF Open, NeverOpened, TypeOK
<1>2. ASSUME NEW s \in Socket, OpenResolved(s) PROVE TypeOK'
  <2>1. CASE sock' = At(s, "failed") /\ UNCHANGED <<pcb, sockets>>
    BY <1>2, <2>1, SockStep DEF OpenResolved, NeverOpened, TypeOK
  <2>2. ASSUME NEW h \in FreeBlocks,
               pcb' = [pcb EXCEPT ![h] = s], sockets' = [sockets EXCEPT ![h] = s],
               sock' = [sock EXCEPT ![s] = [st |-> "open", handle |-> h]]
        PROVE  TypeOK'
    <3>1. h \in Handle /\ h # None
      BY <2>2, UdpConstants DEF FreeBlocks
    <3>2. sock' \in [Socket -> SocketState]
      BY <2>2, <3>1 DEF TypeOK, SocketState
    <3>3. HandlesKnown'
      BY <2>2, <3>1 DEF TypeOK, HandlesKnown, NeverOpened
    <3>4. SendersOpened'
      BY <1>2, <2>2 DEF TypeOK, SendersOpened, NeverOpened, OpenResolved
    <3> QED BY <1>2, <2>2, <3>1, <3>2, <3>3, <3>4 DEF OpenResolved, TypeOK
  <2> QED BY <1>2, <2>1, <2>2 DEF OpenResolved
<1>3. ASSUME NEW s \in Socket, Close(s) PROVE TypeOK'
  <2>1. ~NeverOpened(s)
    BY <1>3 DEF Close, MayClose, Usable, NeverOpened
  <2>2. /\ pcb' \in [Handle -> Socket \cup {None}]
        /\ sockets' \in [Handle -> Socket \cup {None}]
    BY <1>3 DEF Close, TypeOK
  <2> QED BY <1>3, <2>1, <2>2, SockStep DEF Close, TypeOK
<1>4. ASSUME NEW s \in Socket, CloseReturns(s) \/ Cancel(s) PROVE TypeOK'
  <2>1. ~NeverOpened(s)
    BY <1>4 DEF CloseReturns, Cancel, NeverOpened
  <2> QED BY <1>4, <2>1, SockStep DEF CloseReturns, Cancel, TypeOK
<1>5. ASSUME NEW h \in Handle, Receive(h) PROVE TypeOK'
  <2>1. /\ pcb[h] \in Socket /\ sockets[h] \in Socket \cup {None}
        /\ Len(arrivedOn) + 1 \in 1 .. MaxDatagrams
    BY <1>5, UdpConstants DEF Receive, TypeOK
  <2>2. [handle |-> h, socket |-> sockets[h], dg |-> Len(arrivedOn) + 1] \in Task
          \/ sockets[h] = None
    BY <2>1 DEF Task
  <2>3. tasks' \in Seq(Task)
    BY <1>5, <2>2 DEF Receive, TypeOK
  <2>4. arrivedOn' \in Seq(Socket)
    BY <1>5, <2>1 DEF Receive, TypeOK
  <2> QED BY <1>5, <2>3, <2>4 DEF Receive, TypeOK, NeverOpened, HandlesKnown, SendersOpened
<1>6. ASSUME RunTask PROVE TypeOK'
  <2> DEFINE t == Head(tasks)
  <2>1. t \in Task /\ tasks' \in Seq(Task)
    BY <1>6 DEF RunTask, TypeOK
  <2>2. Receiver(t) \in {None, t.socket}
    BY DEF Receiver
  <2>3. t.socket \in Socket /\ t.dg \in 1 .. MaxDatagrams
    BY <2>1 DEF Task
  <2> HIDE DEF t
  <2>4. queue' = queue \/ queue' = [queue EXCEPT ![t.socket] = Append(@, t.dg)]
    BY <1>6, <2>2 DEF RunTask, t
  <2>5. queue' \in [Socket -> Seq(1 .. MaxDatagrams)]
    <3>1. Append(queue[t.socket], t.dg) \in Seq(1 .. MaxDatagrams)
      BY <2>3 DEF TypeOK
    <3> QED BY <2>3, <2>4, <3>1 DEF TypeOK
  <2> QED BY <1>6, <2>1, <2>5 DEF RunTask, TypeOK, NeverOpened, HandlesKnown, SendersOpened
<1>7. ASSUME NEW x \in Send, NEW s \in Socket, StartSend(x, s) PROVE TypeOK'
  <2> DEFINE rec == [st |-> IF disposed THEN "failed" ELSE "resolving",
                     by |-> s, via |-> None, late |-> FALSE]
  <2>1. rec \in SendState /\ rec.by = s
    BY DEF SendState
  <2>2. send' = [send EXCEPT ![x] = rec] /\ UNCHANGED sock
    BY <1>7 DEF StartSend
  <2>3. ~NeverOpened(s)
    BY <1>7 DEF StartSend, Usable, NeverOpened
  <2> HIDE DEF rec
  <2> QED BY <1>7, <2>1, <2>2, <2>3, SendStep DEF StartSend, TypeOK
<1>8. ASSUME NEW x \in Send, SendResolved(x) PROVE TypeOK'
  <2> DEFINE s == send[x].by
             failed == [st |-> "failed", by |-> s, via |-> None, late |-> FALSE]
             sent == [st |-> "sent", by |-> s, late |-> ~Usable(s), via |-> pcb[sock[s].handle]]
  <2>1. s \in Socket /\ ~NeverOpened(s)
    BY <1>8 DEF SendResolved, TypeOK, SendersOpened
  <2>2. sock[s].handle \in Handle
    BY <2>1 DEF TypeOK, SocketState, HandlesKnown
  <2>3. pcb[sock[s].handle] \in Socket \cup {None}
    BY <2>2 DEF TypeOK
  <2>4. failed \in SendState /\ sent \in SendState /\ failed.by = s /\ sent.by = s
    BY <2>1, <2>3 DEF SendState, Usable
  <2>5. /\ send' = [send EXCEPT ![x] = failed] \/ send' = [send EXCEPT ![x] = sent]
        /\ UNCHANGED sock
    BY <1>8 DEF SendResolved
  <2> HIDE DEF s, failed, sent
  <2> QED BY <1>8, <2>1, <2>4, <2>5, SendStep DEF SendResolved, TypeOK
<1>9. ASSUME Dispose PROVE TypeOK'
  <2>1. /\ sock' \in [Socket -> SocketState]
        /\ \A s \in Socket : NeverOpened(s)' <=> NeverOpened(s)
        /\ \A s \in Socket : sock'[s].handle = sock[s].handle
    BY <1>9 DEF Dispose, Usable, NeverOpened, TypeOK, SocketState, At
  <2> QED BY <1>9, <2>1 DEF Dispose, TypeOK, HandlesKnown, SendersOpened
<1>10. ASSUME UNCHANGED vars PROVE TypeOK'
  BY <1>10 DEF vars, TypeOK, NeverOpened, HandlesKnown, SendersOpened
<1> QED BY <1>1, <1>2, <1>3, <1>4, <1>5, <1>6, <1>7, <1>8, <1>9, <1>10 DEF Next

\* The state stays within its types (udp.ts:77-82, 269-290).
THEOREM TypeCorrect == Spec => []TypeOK
<1>1. ASSUME Init PROVE TypeOK
  <2>1. sock \in [Socket -> SocketState] /\ HandlesKnown
    BY <1>1 DEF Init, SocketState, HandlesKnown, NeverOpened
  <2>2. send \in [Send -> SendState] /\ SendersOpened
    BY <1>1 DEF Init, SendState, SendersOpened
  <2>3. queue \in [Socket -> Seq(1 .. MaxDatagrams)]
    BY <1>1 DEF Init
  <2>4. arrivedOn \in Seq(Socket) /\ tasks \in Seq(Task)
    BY <1>1 DEF Init
  <2>5. /\ disposed \in BOOLEAN
        /\ pcb \in [Handle -> Socket \cup {None}]
        /\ sockets \in [Handle -> Socket \cup {None}]
    BY <1>1 DEF Init
  <2> QED BY <2>1, <2>2, <2>3, <2>4, <2>5 DEF TypeOK
<1> QED BY <1>1, TypeInductive, PTL DEF Spec

-----------------------------------------------------------------------------
LEMMA OwnershipInductive ==
  TypeOK /\ BlockIsOwn /\ [Next]_vars => BlockIsOwn'
<1> SUFFICES ASSUME TypeOK, BlockIsOwn, [Next]_vars PROVE BlockIsOwn'
  OBVIOUS
<1>a. \A s \in Socket : sock[s].handle \in Handle \cup {None} /\ s # None
  BY UdpConstants DEF TypeOK, SocketState
<1>1. ASSUME NEW s \in Socket, Open(s) PROVE BlockIsOwn'
  <2>1. \A r \in Socket : Usable(r)' => Usable(r) /\ sock'[r] = sock[r]
    BY <1>1 DEF Open, Usable, At, TypeOK
  <2> QED BY <1>1, <2>1 DEF Open, BlockIsOwn
<1>2. ASSUME NEW s \in Socket, OpenResolved(s) PROVE BlockIsOwn'
  <2>1. CASE sock' = At(s, "failed") /\ UNCHANGED <<pcb, sockets>>
    <3>1. \A r \in Socket : Usable(r)' => Usable(r) /\ sock'[r] = sock[r]
      BY <2>1 DEF Usable, At, TypeOK
    <3> QED BY <1>2, <2>1, <3>1 DEF OpenResolved, BlockIsOwn
  <2>2. ASSUME NEW h \in FreeBlocks,
               pcb' = [pcb EXCEPT ![h] = s], sockets' = [sockets EXCEPT ![h] = s],
               sock' = [sock EXCEPT ![s] = [st |-> "open", handle |-> h]]
        PROVE  BlockIsOwn'
    <3>1. h \in Handle /\ pcb[h] = None
      BY <2>2 DEF FreeBlocks
    <3>2. sock'[s].handle = h /\ pcb'[h] = s /\ sockets'[h] = s
      BY <2>2, <3>1 DEF TypeOK
    <3>3. ASSUME NEW r \in Socket, r # s, Usable(r)'
          PROVE  pcb'[sock'[r].handle] = r /\ sockets'[sock'[r].handle] = r
      <4>1. sock'[r] = sock[r] /\ Usable(r)
        BY <2>2, <3>3 DEF TypeOK, Usable
      <4>2. pcb[sock[r].handle] = r /\ sockets[sock[r].handle] = r
        BY <4>1 DEF BlockIsOwn
      <4>3. sock[r].handle # h
        BY <4>2, <3>1, <1>a
      <4> QED BY <2>2, <4>1, <4>2, <4>3, <3>1 DEF TypeOK
    <3> QED BY <1>2, <3>2, <3>3 DEF OpenResolved, BlockIsOwn
  <2> QED BY <1>2, <2>1, <2>2 DEF OpenResolved
<1>3. ASSUME NEW s \in Socket, Close(s) PROVE BlockIsOwn'
  <2> DEFINE h == sock[s].handle
  <2>1. pcb[h] = s /\ sockets[h] = s
    BY <1>3 DEF Close, MayClose, BlockIsOwn
  <2>2. \A r \in Socket : Usable(r)' => r # s /\ Usable(r) /\ sock'[r] = sock[r]
    BY <1>3 DEF Close, MayClose, Usable, At, TypeOK
  <2>3. \A r \in Socket : Usable(r)' => pcb[sock[r].handle] = r /\ sockets[sock[r].handle] = r
    BY <2>2 DEF BlockIsOwn
  <2>4. \A k \in Handle : k # h => pcb'[k] = pcb[k] /\ sockets'[k] = sockets[k]
    BY <1>3 DEF Close, TypeOK
  <2>6. \A r \in Socket : Usable(r) => sock[r].handle \in Handle
    BY <1>a DEF TypeOK, HandlesKnown, NeverOpened, Usable
  <2>5. \A r \in Socket : Usable(r)' => sock[r].handle # h
    BY <2>1, <2>2, <2>3
  <2> HIDE DEF h
  <2> QED BY <1>3, <2>2, <2>3, <2>4, <2>5, <2>6 DEF Close, BlockIsOwn
<1>4. ASSUME NEW s \in Socket, CloseReturns(s) \/ Cancel(s) PROVE BlockIsOwn'
  <2>1. ASSUME NEW r \in Socket, Usable(r)'
        PROVE  Usable(r) /\ sock'[r].handle = sock[r].handle
    <3>1. CASE CloseReturns(s)
      BY <3>1, <2>1 DEF CloseReturns, Usable, At, TypeOK
    <3>2. CASE Cancel(s)
      BY <3>2, <2>1 DEF Cancel, Usable, At, TypeOK
    <3> QED BY <1>4, <3>1, <3>2
  <2> QED BY <1>4, <2>1 DEF CloseReturns, Cancel, BlockIsOwn
<1>5. ASSUME NEW x \in Send, NEW s \in Socket, StartSend(x, s) PROVE BlockIsOwn'
  <2>1. \A y \in Send : send'[y].st = "sent" => send'[y] = send[y]
    BY <1>5 DEF StartSend, TypeOK
  <2> QED BY <1>5, <2>1 DEF StartSend, BlockIsOwn, Usable
<1>6. ASSUME NEW x \in Send, SendResolved(x) PROVE BlockIsOwn'
  <2> DEFINE s == send[x].by
  <2>1. s \in Socket
    BY <1>6 DEF SendResolved, TypeOK, SendersOpened
  <2>2. Usable(s) => pcb[sock[s].handle] = s
    BY <2>1 DEF BlockIsOwn
  <2>3. \A y \in Send : y # x => send'[y] = send[y]
    BY <1>6 DEF SendResolved, TypeOK
  <2>4. send'[x].st = "sent" => send'[x].late \/ send'[x].via = send'[x].by
    <3>1. CASE send' = [send EXCEPT ![x] = [st |-> "failed", by |-> s, via |-> None, late |-> FALSE]]
      BY <3>1 DEF TypeOK
    <3>2. CASE send' = [send EXCEPT ![x] = [st |-> "sent", by |-> s, late |-> ~Usable(s),
                                            via |-> pcb[sock[s].handle]]]
      BY <3>2, <2>2 DEF TypeOK
    <3> QED BY <1>6, <3>1, <3>2 DEF SendResolved
  <2>5. \A y \in Send : send'[y].st = "sent" => send'[y].late \/ send'[y].via = send'[y].by
    BY <2>3, <2>4 DEF BlockIsOwn
  <2> HIDE DEF s
  <2> QED BY <1>6, <2>5 DEF SendResolved, BlockIsOwn, Usable
<1>7. ASSUME Dispose PROVE BlockIsOwn'
  <2>1. \A s \in Socket : ~Usable(s)'
    BY <1>7 DEF Dispose, Usable, At, TypeOK
  <2> QED BY <1>7, <2>1 DEF Dispose, BlockIsOwn
<1>8. ASSUME RunTask \/ (\E h \in Handle : Receive(h)) \/ UNCHANGED vars PROVE BlockIsOwn'
  BY <1>8 DEF RunTask, Receive, vars, BlockIsOwn, Usable
<1> QED BY <1>1, <1>2, <1>3, <1>4, <1>5, <1>6, <1>7, <1>8 DEF Next

\* A socket in use owns the block of its handle: open() takes a free one only,
\* and close() frees its own, once (udp.ts:134-217, 269-290).
THEOREM BlocksOwned == Spec => []OwnsItsBlock
<1>1. Init => BlockIsOwn
  BY DEF Init, BlockIsOwn, Usable
<1> QED BY <1>1, TypeCorrect, OwnershipInductive, PTL DEF Spec, OwnsItsBlock

-----------------------------------------------------------------------------
\* The registry and lwIP agree until dispose() empties the registry.
RegistryAgrees == ~disposed => sockets = pcb

\* Deferred datagrams are in order and each is its socket's.
TasksInOrder ==
  \A i \in 1 .. Len(tasks) :
    /\ tasks[i].dg \in 1 .. Len(arrivedOn)
    /\ arrivedOn[tasks[i].dg] = tasks[i].socket
    /\ \A j \in 1 .. i - 1 : tasks[j].dg < tasks[i].dg

\* What a stream holds arrived, and before everything still deferred.
QueuedBefore ==
  \A s \in Socket : \A i \in 1 .. Len(queue[s]) :
    /\ queue[s][i] \in 1 .. Len(arrivedOn)
    /\ \A k \in 1 .. Len(tasks) : queue[s][i] < tasks[k].dg

Ordered == RegistryAgrees /\ TasksInOrder /\ QueuedBefore /\ OwnDatagramsInOrder

LEMMA OrderedInductive == TypeOK /\ Ordered /\ [Next]_vars => Ordered'
<1> SUFFICES ASSUME TypeOK, Ordered, [Next]_vars PROVE Ordered'
  OBVIOUS
<1>1. ASSUME NEW h \in Handle, Receive(h) PROVE Ordered'
  <2> DEFINE n == Len(arrivedOn)
             t == [handle |-> h, socket |-> sockets[h], dg |-> n + 1]
  <2>1. n \in Nat /\ arrivedOn' = Append(arrivedOn, pcb[h]) /\ Len(arrivedOn') = n + 1
    BY <1>1 DEF Receive, TypeOK
  <2>2. arrivedOn'[n + 1] = pcb[h] /\ \A d \in 1 .. n : arrivedOn'[d] = arrivedOn[d]
    BY <2>1 DEF TypeOK
  <2>3. RegistryAgrees' /\ sockets = pcb
    BY <1>1 DEF Receive, RegistryAgrees, Ordered
  <2>4. tasks \in Seq(Task) /\ Len(tasks) \in Nat
    BY DEF TypeOK
  <2>5. \/ tasks' = tasks
        \/ /\ tasks' = Append(tasks, t)
           /\ Len(tasks') = Len(tasks) + 1 /\ tasks'[Len(tasks) + 1] = t
           /\ \A i \in 1 .. Len(tasks) : tasks'[i] = tasks[i]
    BY <1>1, <2>4 DEF Receive
  <2>6. t.dg = n + 1 /\ t.socket = pcb[h]
    BY <2>3
  <2>7. \A i \in 1 .. Len(tasks) : tasks[i].dg \in 1 .. n
    BY DEF Ordered, TasksInOrder
  <2> HIDE DEF n, t
  <2>8. TasksInOrder'
    <3>1. ASSUME NEW i \in 1 .. Len(tasks)
          PROVE  /\ tasks'[i] = tasks[i] /\ tasks[i].dg \in 1 .. Len(arrivedOn')
                 /\ arrivedOn'[tasks[i].dg] = tasks[i].socket
                 /\ \A j \in 1 .. i - 1 : tasks'[j].dg < tasks[i].dg
      BY <2>1, <2>2, <2>4, <2>5, <2>7 DEF Ordered, TasksInOrder, n
    <3>2. CASE tasks' = tasks
      BY <3>1, <3>2 DEF TasksInOrder
    <3>3. CASE tasks' # tasks
      <4>1. ASSUME NEW j \in 1 .. Len(tasks) PROVE tasks'[j].dg < n + 1
        BY <3>1, <2>7, <2>1
      <4> QED BY <3>1, <3>3, <4>1, <2>1, <2>2, <2>4, <2>5, <2>6, SMTT(30) DEF TasksInOrder
    <3> QED BY <3>2, <3>3
  <2>9. QueuedBefore'
    <3> SUFFICES ASSUME NEW s \in Socket, NEW i \in 1 .. Len(queue[s])
                 PROVE  /\ queue[s][i] \in 1 .. n + 1
                        /\ \A k \in 1 .. Len(tasks') : queue[s][i] < tasks'[k].dg
      BY <1>1, <2>1 DEF QueuedBefore, Receive
    <3>1. queue[s][i] \in 1 .. n /\ \A k \in 1 .. Len(tasks) : queue[s][i] < tasks[k].dg
      BY DEF Ordered, QueuedBefore, n
    <3>2. queue[s][i] \in 1 .. n + 1 /\ queue[s][i] < n + 1
      BY <3>1, <2>1
    <3>3. CASE tasks' = tasks
      BY <3>1, <3>2, <3>3
    <3>4. CASE tasks' # tasks
      <4>1. SUFFICES ASSUME NEW k \in 1 .. Len(tasks') PROVE queue[s][i] < tasks'[k].dg
        BY <3>2
      <4>2. CASE k = Len(tasks) + 1
        BY <4>2, <3>2, <3>4, <2>5, <2>6
      <4>3. CASE k # Len(tasks) + 1
        <5>1. k \in 1 .. Len(tasks)
          BY <4>3, <3>4, <2>4, <2>5
        <5> QED BY <5>1, <3>1, <3>4, <2>5
      <4> QED BY <4>2, <4>3
    <3> QED BY <3>3, <3>4
  <2>10. OwnDatagramsInOrder'
    <3>1. \A s \in Socket : \A i \in 1 .. Len(queue[s]) : queue[s][i] \in 1 .. n
      BY DEF Ordered, QueuedBefore, n
    <3> QED BY <1>1, <2>2, <3>1 DEF Ordered, OwnDatagramsInOrder, Receive
  <2> QED BY <2>3, <2>8, <2>9, <2>10 DEF Ordered
<1>2. ASSUME RunTask PROVE Ordered'
  <2> DEFINE t == Head(tasks)
  <2>1. /\ t \in Task /\ t = tasks[1] /\ Len(tasks) \in Nat /\ Len(tasks) >= 1
        /\ Len(tasks') = Len(tasks) - 1
        /\ \A i \in 1 .. Len(tasks') : tasks'[i] = tasks[i + 1]
    BY <1>2 DEF RunTask, TypeOK
  <2>2. t.socket \in Socket /\ t.dg \in 1 .. Len(arrivedOn) /\ arrivedOn[t.dg] = t.socket
    BY <2>1 DEF Task, Ordered, TasksInOrder
  <2>3. \A i \in 1 .. Len(tasks) : tasks[i].dg \in Nat
    BY DEF Ordered, TasksInOrder
  <2>4. \A k \in 1 .. Len(tasks') : t.dg < tasks'[k].dg
    BY <2>1 DEF Ordered, TasksInOrder
  <2>5. Receiver(t) \in {None, t.socket}
    BY DEF Receiver
  <2>6. UNCHANGED <<arrivedOn, disposed, sockets, pcb>>
    BY <1>2 DEF RunTask
  <2> HIDE DEF t
  <2>7. TasksInOrder'
    <3> SUFFICES ASSUME NEW i \in 1 .. Len(tasks')
                 PROVE  /\ tasks'[i].dg \in 1 .. Len(arrivedOn)
                        /\ arrivedOn[tasks'[i].dg] = tasks'[i].socket
                        /\ \A j \in 1 .. i - 1 : tasks'[j].dg < tasks'[i].dg
      BY <2>6 DEF TasksInOrder
    <3>1. i + 1 \in 1 .. Len(tasks) /\ tasks'[i] = tasks[i + 1]
          /\ \A j \in 1 .. i - 1 : j + 1 \in 1 .. (i + 1) - 1 /\ tasks'[j] = tasks[j + 1]
      BY <2>1
    <3>2. /\ tasks[i + 1].dg \in 1 .. Len(arrivedOn)
          /\ arrivedOn[tasks[i + 1].dg] = tasks[i + 1].socket
          /\ \A j \in 1 .. (i + 1) - 1 : tasks[j].dg < tasks[i + 1].dg
      BY <3>1 DEF Ordered, TasksInOrder
    <3> QED BY <3>1, <3>2
  <2>8. queue' = queue \/ queue' = [queue EXCEPT ![t.socket] = Append(@, t.dg)]
    BY <1>2, <2>5 DEF RunTask, t
  <2>9. ASSUME NEW s \in Socket, NEW i \in 1 .. Len(queue[s])
        PROVE  /\ queue[s][i] \in 1 .. Len(arrivedOn) /\ arrivedOn[queue[s][i]] = s
               /\ queue[s][i] < t.dg
               /\ \A k \in 1 .. Len(tasks') : queue[s][i] < tasks'[k].dg
               /\ \A j \in 1 .. i - 1 : queue[s][j] < queue[s][i]
    <3>1. /\ queue[s][i] \in 1 .. Len(arrivedOn)
          /\ \A k \in 1 .. Len(tasks) : queue[s][i] < tasks[k].dg
      BY DEF Ordered, QueuedBefore
    <3>2. 1 \in 1 .. Len(tasks) /\ \A k \in 1 .. Len(tasks') : k + 1 \in 1 .. Len(tasks)
      BY <2>1
    <3> QED BY <2>1, <3>1, <3>2 DEF Ordered, OwnDatagramsInOrder
  <2>10. ASSUME NEW s \in Socket
         PROVE  \/ queue'[s] = queue[s]
                \/ /\ s = t.socket /\ Len(queue[s]) \in Nat
                   /\ Len(queue'[s]) = Len(queue[s]) + 1
                   /\ queue'[s][Len(queue[s]) + 1] = t.dg
                   /\ \A i \in 1 .. Len(queue[s]) : queue'[s][i] = queue[s][i]
    <3>1. CASE queue' = queue
      BY <3>1
    <3>2. CASE queue' = [queue EXCEPT ![t.socket] = Append(@, t.dg)]
      <4>1. queue[s] \in Seq(1 .. MaxDatagrams)
        BY DEF TypeOK
      <4>2. queue'[s] = IF s = t.socket THEN Append(queue[s], t.dg) ELSE queue[s]
        BY <3>2 DEF TypeOK
      <4> QED BY <4>1, <4>2
    <3> QED BY <2>8, <3>1, <3>2
  <2>11. ASSUME NEW s \in Socket, NEW i \in 1 .. Len(queue'[s])
         PROVE  /\ queue'[s][i] \in 1 .. Len(arrivedOn) /\ arrivedOn[queue'[s][i]] = s
                /\ \A k \in 1 .. Len(tasks') : queue'[s][i] < tasks'[k].dg
                /\ \A j \in 1 .. i - 1 : queue'[s][j] < queue'[s][i]
    <3>1. CASE queue'[s] = queue[s]
      BY <2>9, <3>1
    <3>2. CASE queue'[s] # queue[s]
      <4>1. \A j \in 1 .. Len(queue[s]) : queue'[s][j] = queue[s][j] /\ queue[s][j] < t.dg
        BY <2>9, <2>10, <3>2
      <4>2. CASE i \in 1 .. Len(queue[s])
        <5>1. \A j \in 1 .. i - 1 : j \in 1 .. Len(queue[s]) /\ queue'[s][j] = queue[s][j]
          BY <2>10, <3>2, <4>1, <4>2
        <5>2. queue'[s][i] = queue[s][i]
          BY <4>1, <4>2
        <5> QED BY <2>9, <4>2, <5>1, <5>2
      <4>3. CASE i = Len(queue[s]) + 1
        BY <2>2, <2>4, <2>10, <3>2, <4>1, <4>3
      <4> QED BY <2>10, <3>2, <4>2, <4>3
    <3> QED BY <3>1, <3>2
  <2>12. QueuedBefore' /\ OwnDatagramsInOrder'
    BY <2>6, <2>11 DEF QueuedBefore, OwnDatagramsInOrder
  <2>13. RegistryAgrees'
    BY <2>6 DEF Ordered, RegistryAgrees
  <2> QED BY <2>7, <2>12, <2>13 DEF Ordered
<1>3. ASSUME UNCHANGED <<arrivedOn, tasks, queue>>, RegistryAgrees' PROVE Ordered'
  BY <1>3 DEF Ordered, TasksInOrder, QueuedBefore, OwnDatagramsInOrder
<1>4. ASSUME NEW s \in Socket,
             Open(s) \/ OpenResolved(s) \/ Close(s) \/ CloseReturns(s) \/ Cancel(s)
      PROVE  Ordered'
  <2>1. RegistryAgrees'
    BY <1>4 DEF Open, OpenResolved, Close, CloseReturns, Cancel, Ordered, RegistryAgrees
  <2> QED BY <1>3, <1>4, <2>1 DEF Open, OpenResolved, Close, CloseReturns, Cancel
<1>5. ASSUME Dispose \/ UNCHANGED vars
             \/ \E x \in Send : SendResolved(x) \/ \E s \in Socket : StartSend(x, s)
      PROVE  Ordered'
  BY <1>3, <1>5 DEF Dispose, vars, SendResolved, StartSend, Ordered, RegistryAgrees
<1> QED BY <1>1, <1>2, <1>4, <1>5 DEF Next

\* A stream gets its own datagrams only, in order, whoever reuses a block while
\* they wait (udp.ts:86-124).
THEOREM DatagramsInOrder == Spec => []OwnDatagramsInOrder
<1>1. Init => Ordered
  BY DEF Init, Ordered, RegistryAgrees, TasksInOrder, QueuedBefore, OwnDatagramsInOrder
<1>2. TypeOK /\ Ordered => OwnDatagramsInOrder
  BY DEF Ordered, OwnDatagramsInOrder
<1> QED BY <1>1, <1>2, TypeCorrect, OrderedInductive, PTL DEF Spec

-----------------------------------------------------------------------------
(* The sockets are mailboxes                                                *)

\* A registered socket, and one that a datagram is deferred for, has the handle.
Named ==
  /\ \A h \in Handle : sockets[h] # None => sock[sockets[h]].handle = h
  /\ \A i \in 1 .. Len(tasks) : sock[tasks[i].socket].handle = tasks[i].handle

LEMMA NamedTypes ==
  ASSUME TypeOK
  PROVE  /\ \A h \in Handle : h # None /\ sockets[h] \in Socket \cup {None}
         /\ \A i \in 1 .. Len(tasks) : /\ tasks[i] \in Task /\ tasks[i].handle \in Handle
                                       /\ tasks[i].socket \in Socket
         /\ \A s \in Socket : NeverOpened(s) <=> sock[s].handle = None
<1>1. \A i \in 1 .. Len(tasks) : tasks[i] \in Task
  BY DEF TypeOK
<1>2. \A t \in Task : t.handle \in Handle /\ t.socket \in Socket
  BY DEF Task
<1>3. \A h \in Handle : h # None /\ sockets[h] \in Socket \cup {None}
  BY UdpConstants DEF TypeOK
<1> QED BY <1>1, <1>2, <1>3 DEF TypeOK, HandlesKnown

LEMMA NamedInductive == TypeOK /\ Named /\ [Next]_vars => Named'
<1> SUFFICES ASSUME TypeOK, Named, [Next]_vars PROVE Named'
  OBVIOUS
\* Names stay when nothing is registered or deferred, and known handles are kept.
<1>1. ASSUME UNCHANGED tasks, \A h \in Handle : sockets'[h] \in {sockets[h], None},
             \A s \in Socket : ~NeverOpened(s) => sock'[s].handle = sock[s].handle
      PROVE  Named'
  <2>1. ASSUME NEW h \in Handle, sockets'[h] # None PROVE sock'[sockets'[h]].handle = h
    <3>1. sockets[h] \in Socket /\ sockets'[h] = sockets[h] /\ sock[sockets[h]].handle = h
      BY <1>1, <2>1, NamedTypes DEF Named
    <3>2. ~NeverOpened(sockets[h])
      BY <3>1, NamedTypes
    <3> QED BY <1>1, <3>1, <3>2
  <2>2. ASSUME NEW i \in 1 .. Len(tasks)
        PROVE  sock'[tasks[i].socket].handle = tasks[i].handle
    <3>1. /\ tasks[i].socket \in Socket /\ tasks[i].handle \in Handle
          /\ sock[tasks[i].socket].handle = tasks[i].handle
      BY NamedTypes DEF Named
    <3>2. ~NeverOpened(tasks[i].socket)
      BY <3>1, NamedTypes
    <3> QED BY <1>1, <3>1, <3>2
  <2> QED BY <1>1, <2>1, <2>2 DEF Named
<1>2. ASSUME NEW s \in Socket, Open(s) \/ Close(s) \/ CloseReturns(s) \/ Cancel(s)
      PROVE  Named'
  <2>1. \A r \in Socket : sock'[r].handle = sock[r].handle
    <3>1. PICK stage : sock' = At(s, stage)
      BY <1>2 DEF Open, Close, CloseReturns, Cancel
    <3> QED BY <3>1 DEF At, TypeOK
  <2>2. \A h \in Handle : sockets'[h] \in {sockets[h], None}
    BY <1>2 DEF Open, Close, CloseReturns, Cancel, TypeOK
  <2>3. UNCHANGED tasks
    BY <1>2 DEF Open, Close, CloseReturns, Cancel
  <2> QED BY <1>1, <2>1, <2>2, <2>3
<1>3. ASSUME NEW s \in Socket, OpenResolved(s) PROVE Named'
  <2>1. CASE sock' = At(s, "failed") /\ UNCHANGED sockets
    <3>1. \A r \in Socket : sock'[r].handle = sock[r].handle
      BY <2>1 DEF At, TypeOK
    <3> QED BY <1>1, <1>3, <2>1, <3>1 DEF OpenResolved
  <2>2. ASSUME NEW h \in Handle, sockets' = [sockets EXCEPT ![h] = s],
               sock' = [sock EXCEPT ![s] = [st |-> "open", handle |-> h]]
        PROVE  Named'
    <3>1. NeverOpened(s) /\ sock[s].handle = None
      <4>1. NeverOpened(s)
        BY <1>3 DEF OpenResolved, NeverOpened
      <4> QED BY <4>1, NamedTypes
    <3>2. \A r \in Socket : sock'[r].handle = IF r = s THEN h ELSE sock[r].handle
      BY <2>2 DEF TypeOK
    <3>3. ASSUME NEW k \in Handle, sockets'[k] # None PROVE sock'[sockets'[k]].handle = k
      <4>1. CASE k = h
        BY <2>2, <3>2, <4>1 DEF TypeOK
      <4>2. CASE k # h
        <5>1. sockets'[k] = sockets[k] /\ sockets[k] \in Socket
          BY <2>2, <3>3, <4>2, NamedTypes DEF TypeOK
        <5>2. sock[sockets[k]].handle = k /\ k # None
          BY <3>3, <5>1, NamedTypes DEF Named
        <5> QED BY <3>1, <3>2, <5>1, <5>2
      <4> QED BY <4>1, <4>2
    <3>4. ASSUME NEW i \in 1 .. Len(tasks)
          PROVE  sock'[tasks[i].socket].handle = tasks[i].handle
      <4>1. /\ tasks[i].socket \in Socket /\ tasks[i].handle # None
            /\ sock[tasks[i].socket].handle = tasks[i].handle
        BY NamedTypes DEF Named
      <4> QED BY <3>1, <3>2, <4>1
    <3>5. UNCHANGED tasks
      BY <1>3 DEF OpenResolved
    <3> QED BY <3>3, <3>4, <3>5 DEF Named
  <2> QED BY <1>3, <2>1, <2>2 DEF OpenResolved, FreeBlocks
<1>4. ASSUME NEW h \in Handle, Receive(h) PROVE Named'
  <2>1. UNCHANGED <<sockets, sock>> /\ tasks \in Seq(Task)
    BY <1>4 DEF Receive, TypeOK
  <2>2. CASE tasks' = tasks
    BY <2>1, <2>2 DEF Named
  <2>3. ASSUME sockets[h] # None, NEW t, t = [handle |-> h, socket |-> sockets[h], dg |-> Len(arrivedOn) + 1],
               tasks' = Append(tasks, t)
        PROVE  Named'
    <3>1. sock[t.socket].handle = t.handle
      BY <2>3 DEF Named
    <3>2. /\ Len(tasks') = Len(tasks) + 1 /\ tasks'[Len(tasks) + 1] = t /\ Len(tasks) \in Nat
          /\ \A i \in 1 .. Len(tasks) : tasks'[i] = tasks[i]
      BY <2>1, <2>3
    <3>3. \A i \in 1 .. Len(tasks') : sock[tasks'[i].socket].handle = tasks'[i].handle
      <4>1. \A i \in 1 .. Len(tasks') : i \in 1 .. Len(tasks) \/ i = Len(tasks) + 1
        BY <3>2
      <4> QED BY <3>1, <3>2, <4>1 DEF Named
    <3> QED BY <2>1, <3>3 DEF Named
  <2> QED BY <1>4, <2>2, <2>3 DEF Receive
<1>5. ASSUME RunTask PROVE Named'
  <2>1. UNCHANGED <<sockets, sock>> /\ tasks \in Seq(Task) /\ tasks # <<>> /\ tasks' = Tail(tasks)
    BY <1>5 DEF RunTask, TypeOK
  <2>2. \A i \in 1 .. Len(tasks') : i + 1 \in 1 .. Len(tasks) /\ tasks'[i] = tasks[i + 1]
    BY <2>1
  <2> QED BY <2>1, <2>2 DEF Named
<1>6. ASSUME Dispose PROVE Named'
  <2>1. \A s \in Socket : sock'[s].handle = sock[s].handle
    BY <1>6 DEF Dispose, At, TypeOK
  <2>2. UNCHANGED tasks /\ \A h \in Handle : sockets'[h] = None
    BY <1>6 DEF Dispose
  <2> QED BY <1>1, <2>1, <2>2
<1>7. ASSUME UNCHANGED <<tasks, sockets, sock>> PROVE Named'
  BY <1>7 DEF Named
<1>8. UNCHANGED vars \/ (\E x \in Send : SendResolved(x) \/ \E s \in Socket : StartSend(x, s))
        => UNCHANGED <<tasks, sockets, sock>>
  BY DEF vars, SendResolved, StartSend
<1> QED BY <1>2, <1>3, <1>4, <1>5, <1>6, <1>7, <1>8 DEF Next

\* What is registered is in use, and dispose() registers nothing any more.
Live ==
  /\ disposed => \A h \in Handle : sockets[h] = None
  /\ \A h \in Handle : sockets[h] # None => Usable(sockets[h])

LEMMA LiveInductive == TypeOK /\ BlockIsOwn /\ Named /\ Live /\ [Next]_vars => Live'
<1> SUFFICES ASSUME TypeOK, BlockIsOwn, Named, Live, [Next]_vars PROVE Live'
  OBVIOUS
<1>1. ASSUME NEW s \in Socket, ~Usable(s), NEW stage, sock' = At(s, stage),
             UNCHANGED <<disposed, sockets>>
      PROVE  Live'
  <2>1. \A r \in Socket : Usable(r) => sock'[r] = sock[r]
    BY <1>1 DEF At, TypeOK
  <2>2. ASSUME NEW h \in Handle, sockets[h] # None PROVE Usable(sockets[h])'
    <3>1. sockets[h] \in Socket /\ Usable(sockets[h])
      BY <2>2, NamedTypes DEF Live
    <3> QED BY <1>1, <2>1, <3>1 DEF Usable
  <2> QED BY <1>1, <2>2 DEF Live
<1>2. ASSUME NEW s \in Socket, Open(s) \/ CloseReturns(s) PROVE Live'
  <2>1. ~Usable(s) /\ UNCHANGED <<disposed, sockets>> /\ \E stage : sock' = At(s, stage)
    BY <1>2 DEF Open, CloseReturns, Usable
  <2> QED BY <1>1, <2>1
<1>3. ASSUME NEW s \in Socket, OpenResolved(s) PROVE Live'
  <2>1. ~Usable(s) /\ UNCHANGED disposed
    BY <1>3 DEF OpenResolved, Usable
  <2>2. CASE sock' = At(s, "failed") /\ UNCHANGED sockets
    BY <1>1, <2>1, <2>2
  <2>3. ASSUME ~disposed, NEW h \in Handle, sockets' = [sockets EXCEPT ![h] = s],
               sock' = [sock EXCEPT ![s] = [st |-> "open", handle |-> h]]
        PROVE  Live'
    <3>1. \A k \in Handle : sockets'[k] = IF k = h THEN s ELSE sockets[k]
      BY <2>3 DEF TypeOK
    <3>2. \A r \in Socket : sock'[r] = IF r = s THEN [st |-> "open", handle |-> h] ELSE sock[r]
      BY <2>3 DEF TypeOK
    <3>3. ASSUME NEW k \in Handle, sockets'[k] # None
          PROVE  sock'[sockets'[k]].st \in {"open", "cancelled"}
      <4>1. CASE k = h
        BY <3>1, <3>2, <4>1 DEF Usable
      <4>2. CASE k # h
        <5>1. sockets'[k] = sockets[k] /\ sockets[k] \in Socket /\ Usable(sockets[k])
          BY <3>1, <3>3, <4>2, NamedTypes DEF Live
        <5>2. sockets[k] # s
          BY <2>1, <5>1
        <5> QED BY <3>2, <5>1, <5>2 DEF Usable
      <4> QED BY <4>1, <4>2
    <3> QED BY <2>1, <2>3, <3>3 DEF Live, Usable
  <2> QED BY <1>3, <2>2, <2>3 DEF OpenResolved, FreeBlocks
<1>4. ASSUME NEW s \in Socket, Close(s) PROVE Live'
  <2> DEFINE h == sock[s].handle
  <2>1. Usable(s) /\ sockets[h] = s /\ h \in Handle /\ s # None /\ UNCHANGED disposed
    <3>1. Usable(s) /\ UNCHANGED disposed
      BY <1>4 DEF Close, MayClose
    <3>2. sockets[h] = s
      BY <3>1 DEF BlockIsOwn
    <3>3. h \in Handle
      BY <3>1 DEF TypeOK, SocketState, HandlesKnown, NeverOpened, Usable
    <3> QED BY <3>1, <3>2, <3>3, UdpConstants
  <2>2. sock' = At(s, "closing") /\ sockets' = [sockets EXCEPT ![h] = None]
    BY <1>4, <2>1 DEF Close, Live
  <2> HIDE DEF h
  <2>3. ASSUME NEW k \in Handle, sockets'[k] # None
        PROVE  sockets'[k] = sockets[k] /\ sockets[k] \in Socket /\ Usable(sockets[k])'
    <3>1. k # h /\ sockets'[k] = sockets[k]
      BY <2>2, <2>3 DEF TypeOK
    <3>2. sockets[k] \in Socket /\ Usable(sockets[k]) /\ sock[sockets[k]].handle = k
      BY <2>3, <3>1, NamedTypes DEF Live, Named
    <3>3. sockets[k] # s
      BY <3>1, <3>2 DEF h
    <3>4. \A r \in Socket : r # s => sock'[r] = sock[r]
      BY <2>2 DEF At, TypeOK
    <3> QED BY <3>1, <3>2, <3>3, <3>4 DEF Usable
  <2>4. ~disposed
    BY <2>1 DEF Live
  <2> QED BY <2>1, <2>3, <2>4 DEF Live, Usable
<1>5. ASSUME NEW s \in Socket, Cancel(s) PROVE Live'
  <2>1. \A r \in Socket : Usable(r) => Usable(r)'
    BY <1>5 DEF Cancel, At, Usable, TypeOK
  <2>2. UNCHANGED <<disposed, sockets>>
    BY <1>5 DEF Cancel
  <2>3. ASSUME NEW h \in Handle, sockets[h] # None PROVE Usable(sockets[h])'
    <3>1. sockets[h] \in Socket /\ Usable(sockets[h])
      BY <2>3, NamedTypes DEF Live
    <3> QED BY <2>1, <2>2, <3>1 DEF Usable
  <2> QED BY <2>2, <2>3 DEF Live
<1>6. ASSUME Dispose PROVE Live'
  BY <1>6 DEF Dispose, Live
<1>7. ASSUME UNCHANGED <<disposed, sockets, sock>> PROVE Live'
  BY <1>7 DEF Live, Usable
<1>8. UNCHANGED vars \/ RunTask \/ (\E h \in Handle : Receive(h))
        \/ (\E x \in Send : SendResolved(x) \/ \E s \in Socket : StartSend(x, s))
        => UNCHANGED <<disposed, sockets, sock>>
  BY DEF vars, SendResolved, StartSend, RunTask, Receive
<1> QED BY <1>2, <1>3, <1>4, <1>5, <1>6, <1>7, <1>8 DEF Next

MailInv == TypeOK /\ BlockIsOwn /\ Ordered /\ Named /\ Live

LEMMA MailInvariant == Spec => []MailInv
<1>1. Init => BlockIsOwn /\ Ordered /\ Named /\ Live
  BY DEF Init, BlockIsOwn, Usable, Ordered, RegistryAgrees, TasksInOrder, QueuedBefore, OwnDatagramsInOrder,
         Named, Live
<1> QED BY <1>1, TypeCorrect, OwnershipInductive, OrderedInductive, NamedInductive, LiveInductive,
           PTL DEF Spec, MailInv

\* Nothing is deferred for a socket that was not opened.
LEMMA NothingEarly == \A s \in Socket : MailInv /\ NeverOpened(s) => Deferred(s) = {}
<1> SUFFICES ASSUME NEW s \in Socket, MailInv, NeverOpened(s),
                    NEW i \in 1 .. Len(tasks), tasks[i].socket = s
             PROVE  FALSE
  BY DEF Deferred
<1>1. tasks[i].handle \in Handle /\ tasks[i].handle # None /\ sock[s].handle = None
  BY NamedTypes DEF MailInv
<1>2. sock[s].handle = tasks[i].handle
  BY DEF MailInv, Named
<1> QED BY <1>1, <1>2

\* No datagram moves, and some open sockets are shut, or none.
LEMMA OnlyShuts ==
  ASSUME UNCHANGED <<tasks, arrivedOn, queue>>,
         \A s \in Socket : Box(s)' = Box(s) \/ (Box(s) = "open" /\ Box(s)' = "shut")
  PROVE  Mail!MailNext
<1> DEFINE S == {s \in Socket : Box(s) = "open" /\ Box(s)' = "shut"}
<1>1. \A s \in Socket : Deferred(s)' = Deferred(s)
  BY DEF Deferred
<1>2. \A s \in Socket : sock[s].st = "open" <=> Box(s) = "open"
  BY DEF Box, NeverOpened
<1>3. \A s \in Socket : sock'[s].st = "open" <=> Box(s)' = "open"
  BY DEF Box, NeverOpened
<1>4. \A s \in Socket : Box(s)' = IF s \in S THEN "shut" ELSE Box(s)
  OBVIOUS
<1>5. \A s \in Socket : Waiting(s)' = IF s \in S THEN {} ELSE Waiting(s)
  <2> SUFFICES ASSUME NEW s \in Socket PROVE Waiting(s)' = IF s \in S THEN {} ELSE Waiting(s)
    OBVIOUS
  <2>1. CASE s \in S
    <3>1. ~(sock'[s].st = "open")
      BY <1>3, <2>1
    <3> QED BY <2>1, <3>1 DEF Waiting
  <2>2. CASE s \notin S
    <3>1. sock'[s].st = "open" <=> sock[s].st = "open"
      BY <1>2, <1>3, <2>2
    <3> QED BY <1>1, <2>2, <3>1 DEF Waiting
  <2> QED BY <2>1, <2>2
<1>6. S \in SUBSET Socket /\ \A s \in S : Box(s) = "open"
  OBVIOUS
<1> HIDE DEF S
<1>7. Mail!Shut(S)
  BY <1>4, <1>5, <1>6 DEF Mail!Shut
<1> QED BY <1>6, <1>7 DEF Mail!MailNext

\* A block is given to a socket that nothing is deferred for.
LEMMA OpensBox ==
  ASSUME MailInv, NEW s \in Socket, OpenResolved(s)
  PROVE  Mail!MailNext
<1>1. NeverOpened(s) /\ sock[s].st # "open" /\ sock \in [Socket -> SocketState]
      /\ UNCHANGED <<tasks, arrivedOn, queue>>
  BY DEF OpenResolved, NeverOpened, MailInv, TypeOK
<1>2. CASE sock' = At(s, "failed")
  <2>1. \A r \in Socket : Box(r)' = Box(r)
    BY <1>1, <1>2 DEF At, Box, NeverOpened
  <2> QED BY <1>1, <2>1, OnlyShuts
<1>3. ASSUME NEW h \in Handle, sock' = [sock EXCEPT ![s] = [st |-> "open", handle |-> h]]
      PROVE  Mail!MailNext
  <2>1. \A r \in Socket : sock'[r] = IF r = s THEN [st |-> "open", handle |-> h] ELSE sock[r]
    BY <1>1, <1>3
  <2>2. \A r \in Socket : Deferred(r)' = Deferred(r)
    BY <1>1 DEF Deferred
  <2>3. \A r \in Socket : Box(r)' = IF r = s THEN "open" ELSE Box(r)
    BY <2>1 DEF Box, NeverOpened
  <2>4. Box(s) = "new"
    BY <1>1 DEF Box
  <2>5. \A r \in Socket : Waiting(r)' = Waiting(r)
    <3>1. Waiting(s) = {} /\ Waiting(s)' = {}
      BY <1>1, <2>1, <2>2, NothingEarly DEF Waiting
    <3>2. \A r \in Socket : r # s => Waiting(r)' = Waiting(r)
      BY <2>1, <2>2 DEF Waiting
    <3> QED BY <3>1, <3>2
  <2>6. Mail!OpenBox(s)
    BY <1>1, <2>3, <2>4, <2>5 DEF Mail!OpenBox
  <2> QED BY <2>6 DEF Mail!MailNext
<1> QED BY <1>2, <1>3 DEF OpenResolved, FreeBlocks

\* A datagram arrives for the socket of its block, which is the registered one.
LEMMA Arrives ==
  ASSUME MailInv, NEW h \in Handle, Receive(h)
  PROVE  Mail!MailNext
<1> DEFINE s == pcb[h]
           n == Len(arrivedOn) + 1
<1>1. s \in Socket /\ arrivedOn' = Append(arrivedOn, s) /\ UNCHANGED <<sock, queue>>
      /\ tasks \in Seq(Task)
  BY DEF Receive, MailInv, TypeOK
<1>2. /\ tasks' = Append(tasks, [handle |-> h, socket |-> s, dg |-> n])
  <2>1. sockets[h] = s /\ s # None
    BY DEF Receive, MailInv, Ordered, RegistryAgrees
  <2> QED BY <2>1 DEF Receive
<1> HIDE DEF s, n
<1>3. \A r \in Socket : Deferred(r)' = IF r = s THEN Deferred(r) \cup {n} ELSE Deferred(r)
  <2>1. /\ Len(tasks) \in Nat /\ Len(tasks') = Len(tasks) + 1
        /\ tasks'[Len(tasks) + 1] = [handle |-> h, socket |-> s, dg |-> n]
        /\ \A i \in 1 .. Len(tasks) : tasks'[i] = tasks[i]
    BY <1>1, <1>2
  <2>2. 1 .. Len(tasks') = (1 .. Len(tasks)) \cup {Len(tasks) + 1}
    BY <2>1
  <2>3. ASSUME NEW r \in Socket, NEW d
        PROVE  d \in Deferred(r)' <=> d \in Deferred(r) \/ (r = s /\ d = n)
    <3>1. d \in Deferred(r) <=> \E i \in 1 .. Len(tasks) : tasks[i].socket = r /\ tasks[i].dg = d
      BY DEF Deferred
    <3>2. d \in Deferred(r)' <=> \E i \in 1 .. Len(tasks') : tasks'[i].socket = r /\ tasks'[i].dg = d
      BY DEF Deferred
    <3>3. (\E i \in 1 .. Len(tasks') : tasks'[i].socket = r /\ tasks'[i].dg = d)
          <=> \/ \E i \in 1 .. Len(tasks) : tasks[i].socket = r /\ tasks[i].dg = d
              \/ s = r /\ n = d
      BY <2>1, <2>2
    <3> QED BY <3>1, <3>2, <3>3
  <2> QED BY <2>3
<1>4. \A r \in Socket : Box(r)' = Box(r) /\ (sock[r].st = "open" <=> Box(r) = "open")
  BY <1>1 DEF Box, NeverOpened
<1>5. \A r \in Socket :
        Waiting(r)' = IF r = s /\ Box(s) = "open" THEN Waiting(r) \cup {n} ELSE Waiting(r)
  BY <1>1, <1>3, <1>4 DEF Waiting
<1>6. Mail!Arrive(s)
  BY <1>1, <1>4, <1>5 DEF Mail!Arrive, n
<1> QED BY <1>1, <1>6 DEF Mail!MailNext

\* What is deferred for each socket once the first task has run.
LEMMA FirstRuns ==
  ASSUME MailInv, RunTask, NEW t, t = Head(tasks)
  PROVE  /\ t = tasks[1] /\ t \in Task /\ t.dg \in Deferred(t.socket)
         /\ \A r \in Socket : /\ Deferred(r)' = Deferred(r) \ {t.dg}
                              /\ r # t.socket => t.dg \notin Deferred(r)
         /\ \A e \in Deferred(t.socket) : t.dg <= e
<1>1. /\ tasks \in Seq(Task) /\ tasks # <<>> /\ tasks' = Tail(tasks)
  BY DEF RunTask, MailInv, TypeOK
<1>2. /\ t = tasks[1] /\ t \in Task /\ Len(tasks) \in Nat /\ Len(tasks') = Len(tasks) - 1
      /\ 1 \in 1 .. Len(tasks)
      /\ \A i \in 1 .. Len(tasks') : i + 1 \in 1 .. Len(tasks) /\ tasks'[i] = tasks[i + 1]
  BY <1>1
<1>3. /\ \A i \in 1 .. Len(tasks) : tasks[i].dg \in Nat
      /\ \A i \in 1 .. Len(tasks) : i # 1 => tasks[1].dg < tasks[i].dg
  <2>1. ASSUME NEW i \in 1 .. Len(tasks), i # 1 PROVE tasks[1].dg < tasks[i].dg
    <3>1. 1 \in 1 .. i - 1
      BY <1>2, <2>1
    <3> QED BY <3>1 DEF MailInv, Ordered, TasksInOrder
  <2> QED BY <2>1 DEF MailInv, Ordered, TasksInOrder
<1>4. \A r, d : d \in Deferred(r) <=> \E i \in 1 .. Len(tasks) : tasks[i].socket = r /\ tasks[i].dg = d
  BY DEF Deferred
<1>5. \A r, d : d \in Deferred(r)' <=> \E i \in 1 .. Len(tasks') : tasks'[i].socket = r /\ tasks'[i].dg = d
  BY DEF Deferred
<1>6. t.dg \in Deferred(t.socket)
  BY <1>2, <1>4
<1>7. \A e \in Deferred(t.socket) : t.dg <= e
  <2> SUFFICES ASSUME NEW i \in 1 .. Len(tasks) PROVE t.dg <= tasks[i].dg
    BY <1>4
  <2> QED BY <1>2, <1>3
<1>8. ASSUME NEW r \in Socket
      PROVE  Deferred(r)' = Deferred(r) \ {t.dg} /\ (r # t.socket => t.dg \notin Deferred(r))
  <2>1. ASSUME NEW d, d \in Deferred(r)' PROVE d \in Deferred(r) /\ d # t.dg
    <3>1. PICK i \in 1 .. Len(tasks') : tasks'[i].socket = r /\ tasks'[i].dg = d
      BY <1>5, <2>1
    <3>2. i + 1 \in 1 .. Len(tasks) /\ i + 1 # 1 /\ tasks'[i] = tasks[i + 1]
      BY <1>2
    <3>3. tasks[i + 1].socket = r /\ tasks[i + 1].dg = d
      BY <3>1, <3>2
    <3>4. tasks[1].dg < tasks[i + 1].dg /\ tasks[1].dg \in Nat
      BY <1>2, <1>3, <3>2
    <3> QED BY <1>2, <1>4, <3>2, <3>3, <3>4
  <2>2. ASSUME NEW d, d \in Deferred(r), d # t.dg PROVE d \in Deferred(r)'
    <3>1. PICK i \in 1 .. Len(tasks) : tasks[i].socket = r /\ tasks[i].dg = d
      BY <1>4, <2>2
    <3>2. i - 1 \in 1 .. Len(tasks') /\ tasks'[i - 1] = tasks[i]
      <4>1. i # 1
        BY <1>2, <2>2, <3>1
      <4>2. i - 1 \in 1 .. Len(tasks') /\ (i - 1) + 1 = i
        BY <1>2, <4>1
      <4> QED BY <1>2, <4>2
    <3> QED BY <1>5, <3>1, <3>2
  <2>3. ASSUME r # t.socket PROVE t.dg \notin Deferred(r)
    <3> SUFFICES ASSUME NEW i \in 1 .. Len(tasks), tasks[i].socket = r, tasks[i].dg = t.dg
                 PROVE  FALSE
      BY <1>4
    <3>1. i # 1
      BY <1>2, <2>3
    <3> QED BY <1>2, <1>3, <3>1
  <2> QED BY <2>1, <2>2, <2>3
<1> QED BY <1>2, <1>6, <1>7, <1>8

\* The registered socket is the one the datagram was deferred for, if it is open.
LEMMA Delivers ==
  ASSUME MailInv, RunTask
  PROVE  Mail!MailNext
<1>1. PICK t : t = Head(tasks)
  OBVIOUS
<1>2. /\ t = tasks[1] /\ t \in Task /\ t.dg \in Deferred(t.socket)
      /\ \A r \in Socket : /\ Deferred(r)' = Deferred(r) \ {t.dg}
                           /\ r # t.socket => t.dg \notin Deferred(r)
      /\ \A e \in Deferred(t.socket) : t.dg <= e
  BY <1>1, FirstRuns
<1>3. PICK s : s = t.socket
  OBVIOUS
<1>4. /\ s \in Socket /\ s # None /\ t.handle \in Handle /\ sock[s].handle = t.handle
      /\ UNCHANGED <<sock, arrivedOn>>
  <2>1. s \in Socket /\ t.handle \in Handle
    BY <1>2, <1>3 DEF Task
  <2>2. tasks # <<>> /\ tasks \in Seq(Task) /\ UNCHANGED <<sock, arrivedOn>>
    BY DEF RunTask, MailInv, TypeOK
  <2>3. 1 \in 1 .. Len(tasks)
    BY <2>2
  <2>4. sock[s].handle = t.handle
    BY <1>2, <1>3, <2>3 DEF MailInv, Named
  <2> QED BY <2>1, <2>2, <2>4, UdpConstants
<1>5. \A r \in Socket : Box(r)' = Box(r) /\ (sock[r].st = "open" <=> Box(r) = "open")
                        /\ sock'[r] = sock[r]
  BY <1>4 DEF Box, NeverOpened
<1>6. \A r \in Socket : r # s => Waiting(r)' = Waiting(r)
  <2>1. \A r \in Socket : r # s => Deferred(r)' = Deferred(r)
    BY <1>2, <1>3
  <2> QED BY <1>5, <2>1 DEF Waiting
<1>7. CASE sock[s].st = "open"
  <2>1. Usable(s) /\ sockets[t.handle] = s
    BY <1>4, <1>7 DEF Usable, MailInv, BlockIsOwn
  <2>2. ~disposed
    BY <1>4, <2>1 DEF MailInv, Live
  <2>3. Receiver(t) = s
    BY <1>3, <2>1, <2>2 DEF Receiver
  <2>4. queue' = [queue EXCEPT ![s] = Append(@, t.dg)]
    BY <1>1, <1>4, <1>7, <2>3 DEF RunTask
  <2>5. \A r \in Socket : Waiting(r)' = IF r = s THEN Waiting(r) \ {t.dg} ELSE Waiting(r)
    BY <1>2, <1>3, <1>5, <1>6, <1>7 DEF Waiting
  <2>6. t.dg \in Waiting(s) /\ \A e \in Waiting(s) : t.dg <= e
    BY <1>2, <1>3, <1>7 DEF Waiting
  <2>7. Mail!Deliver(s)
    <3>1. [r \in Socket |-> Waiting(r)]' = [[r \in Socket |-> Waiting(r)] EXCEPT ![s] = @ \ {t.dg}]
      BY <2>5
    <3>2. [r \in Socket |-> Box(r)]' = [r \in Socket |-> Box(r)] /\ Box(s) = "open"
      BY <1>4, <1>5, <1>7
    <3>3. [r \in Socket |-> Waiting(r)][s] = Waiting(s)
      BY <1>4
    <3> QED BY <1>4, <2>4, <2>6, <3>1, <3>2, <3>3 DEF Mail!Deliver
  <2> QED BY <1>4, <2>7 DEF Mail!MailNext
<1>8. CASE sock[s].st # "open"
  <2>1. Waiting(s)' = Waiting(s)
    BY <1>4, <1>5, <1>8 DEF Waiting
  <2>2. UNCHANGED queue
    <3>1. Receiver(t) = None \/ (Receiver(t) = s /\ sockets[t.handle] = s)
      BY <1>3 DEF Receiver
    <3>2. sockets[t.handle] = s => sock[s].st = "cancelled"
      BY <1>4, <1>8 DEF MailInv, Live, Usable
    <3> QED BY <1>1, <1>4, <3>1, <3>2 DEF RunTask
  <2>3. \A r \in Socket : Waiting(r)' = Waiting(r)
    BY <1>6, <2>1
  <2>4. Mail!Shut({})
    BY <1>4, <1>5, <2>2, <2>3 DEF Mail!Shut
  <2> QED BY <2>4 DEF Mail!MailNext
<1> QED BY <1>7, <1>8

LEMMA MailStep == MailInv /\ [Next]_vars => [Mail!MailNext]_(Mail!mailVars)
<1> SUFFICES ASSUME MailInv, [Next]_vars PROVE Mail!MailNext
  OBVIOUS
<1>1. ASSUME NEW s \in Socket, NEW stage, sock' = At(s, stage),
             UNCHANGED <<tasks, arrivedOn, queue>>,
             \/ NeverOpened(s) /\ stage \in {"resolving", "failed"}
             \/ ~NeverOpened(s) /\ stage \in {"cancelled", "closing", "closed"}
      PROVE  Mail!MailNext
  <2>1. \A r \in Socket : sock'[r].st = IF r = s THEN stage ELSE sock[r].st
    BY <1>1 DEF At, MailInv, TypeOK
  <2>2. \A r \in Socket : r # s => Box(r)' = Box(r)
    BY <2>1 DEF Box, NeverOpened
  <2>3. CASE sock[s].st = "open"
    <3>1. Box(s) = "open" /\ Box(s)' = "shut"
      BY <1>1, <2>1, <2>3 DEF Box, NeverOpened
    <3> QED BY <1>1, <2>2, <3>1, OnlyShuts
  <2>4. CASE sock[s].st # "open"
    <3>1. Box(s)' = Box(s)
      BY <1>1, <2>1, <2>4 DEF Box, NeverOpened
    <3> QED BY <1>1, <2>2, <3>1, OnlyShuts
  <2> QED BY <2>3, <2>4
<1>2. ASSUME NEW s \in Socket, Open(s) \/ Close(s) \/ CloseReturns(s) \/ Cancel(s)
      PROVE  Mail!MailNext
  BY <1>1, <1>2 DEF Open, Close, MayClose, CloseReturns, Cancel, Usable, NeverOpened
<1>3. ASSUME Dispose PROVE Mail!MailNext
  <2>1. \A s \in Socket : sock'[s].st = IF Usable(s) THEN "closed" ELSE sock[s].st
    BY <1>3 DEF Dispose, At, MailInv, TypeOK
  <2>2. \A s \in Socket : Box(s)' = Box(s) \/ (Box(s) = "open" /\ Box(s)' = "shut")
    BY <2>1 DEF Box, NeverOpened, Usable
  <2>3. UNCHANGED <<tasks, arrivedOn, queue>>
    BY <1>3 DEF Dispose
  <2> QED BY <2>2, <2>3, OnlyShuts
<1>4. ASSUME UNCHANGED <<tasks, arrivedOn, queue, sock>> PROVE Mail!MailNext
  <2>1. \A s \in Socket : Box(s)' = Box(s)
    BY <1>4 DEF Box, NeverOpened
  <2> QED BY <1>4, <2>1, OnlyShuts
<1>5. UNCHANGED vars \/ (\E x \in Send : SendResolved(x) \/ \E s \in Socket : StartSend(x, s))
        => UNCHANGED <<tasks, arrivedOn, queue, sock>>
  BY DEF vars, SendResolved, StartSend
<1> QED BY <1>2, <1>3, <1>4, <1>5, OpensBox, Arrives, Delivers DEF Next

\* Whoever gets a block, whatever waits for its microtask and whenever dispose()
\* comes, an open socket is a mailbox (udp.ts:86-132, 249-290).
THEOREM SocketsImplementMailboxes == Spec => ImplementsMailboxes
<1>1. Init => Mail!MailInit
  BY DEF Init, Mail!MailInit, Box, Waiting, NeverOpened
<1>2. MailInv /\ [Next]_vars => [Mail!MailNext]_(Mail!mailVars)
  BY MailStep
<1> QED BY <1>1, <1>2, MailInvariant, PTL DEF Spec, ImplementsMailboxes, Mail!MailSpec

=============================================================================
