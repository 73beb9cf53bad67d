----------------------------- MODULE UdpSockets -----------------------------
(***************************************************************************)
(* UDP sockets (bindings/udp.ts, wasm/udp.c).  A socket is known to lwIP   *)
(* by its handle, the address of a block from a pool of MEMP_NUM_UDP_PCB;  *)
(* close() frees the block at once and open() may get it again.  Received  *)
(* datagrams are deferred by a microtask, and send() resolves its host     *)
(* before it uses the handle.                                              *)
(***************************************************************************)
EXTENDS Integers, Sequences

CONSTANTS Handle, Socket,
          Send,          \* calls of send()
          MaxDatagrams,  \* bound: datagrams that ever arrive
          None

ASSUME UdpConstants ==
  /\ MaxDatagrams \in Nat
  /\ None \notin Handle \cup Socket \cup Send \cup Int

VARIABLES
  disposed,
  pcb,       \* lwIP: [Handle -> the socket the block was opened for, or None]
  sockets,   \* #udpSockets: [Handle -> Socket or None]
  sock,      \* [Socket -> its stage and handle]
  send,      \* [Send -> its stage, socket, the socket whose block sent it, late]
  arrivedOn, \* the socket each datagram arrived for, in order of arrival
  tasks,     \* deferred receptions: handle, socket and datagram
  queue      \* [Socket -> datagrams enqueued on its stream]

vars == <<disposed, pcb, sockets, sock, send, arrivedOn, tasks, queue>>

\* sock with one socket at another stage.
At(s, stage) == [sock EXCEPT ![s] = [st |-> stage, handle |-> sock[s].handle]]

\* Created and not closed; "cancelled" is open for sending.
Usable(s) == sock[s].st \in {"open", "cancelled"}

Init ==
  /\ disposed = FALSE
  /\ pcb = [h \in Handle |-> None]
  /\ sockets = [h \in Handle |-> None]
  /\ sock = [s \in Socket |-> [st |-> "idle", handle |-> None]]
  /\ send = [x \in Send |-> [st |-> "idle", by |-> None, via |-> None, late |-> FALSE]]
  /\ arrivedOn = <<>>
  /\ tasks = <<>>
  /\ queue = [s \in Socket |-> <<>>]

-----------------------------------------------------------------------------
(* open() and close()                                                       *)

Open(s) ==
  /\ sock[s].st = "idle"
  /\ sock' = At(s, IF disposed THEN "failed" ELSE "resolving")
  /\ UNCHANGED <<disposed, pcb, sockets, send, arrivedOn, tasks, queue>>

FreeBlocks == {h \in Handle : pcb[h] = None}

\* The local host is resolved: disposed, unknown, port in use, no block left,
\* or a block of the pool.
OpenResolved(s) ==
  /\ sock[s].st = "resolving"
  /\ \/ sock' = At(s, "failed") /\ UNCHANGED <<pcb, sockets>>
     \/ /\ ~disposed
        /\ \E h \in FreeBlocks :
             /\ pcb' = [pcb EXCEPT ![h] = s]
             /\ sockets' = [sockets EXCEPT ![h] = s]
             /\ sock' = [sock EXCEPT ![s] = [st |-> "open", handle |-> h]]
  /\ UNCHANGED <<disposed, send, arrivedOn, tasks, queue>>

\* Mutant: close() may be called again.
MayCloseAgain(s) == sock[s].st \in {"open", "cancelled", "closing", "closed"}
MayClose(s) == Usable(s)

Close(s) ==
  /\ MayClose(s)
  /\ sock' = At(s, "closing")
  /\ LET h == sock[s].handle
     IN  \/ (disposed \/ sockets[h] = None) /\ UNCHANGED <<pcb, sockets>>
         \/ /\ ~disposed /\ sockets[h] # None
            /\ pcb' = [pcb EXCEPT ![h] = None]
            /\ sockets' = [sockets EXCEPT ![h] = None]
  /\ UNCHANGED <<disposed, send, arrivedOn, tasks, queue>>

\* A microtask later close() errors both streams.
CloseReturns(s) ==
  /\ sock[s].st = "closing"
  /\ sock' = At(s, "closed")
  /\ UNCHANGED <<disposed, pcb, sockets, send, arrivedOn, tasks, queue>>

\* The reader, a for await loop that ends among others, cancels the stream.
Cancel(s) ==
  /\ sock[s].st = "open"
  /\ sock' = At(s, "cancelled")
  /\ UNCHANGED <<disposed, pcb, sockets, send, arrivedOn, tasks, queue>>

-----------------------------------------------------------------------------
(* Receiving *)

\* recv_udp_callback and receive_udp_datagram up to its await.
Receive(h) ==
  /\ ~disposed /\ pcb[h] # None /\ Len(arrivedOn) < MaxDatagrams
  /\ arrivedOn' = Append(arrivedOn, pcb[h])
  /\ tasks' = IF sockets[h] = None THEN tasks
              ELSE Append(tasks, [handle |-> h, socket |-> sockets[h], dg |-> Len(arrivedOn) + 1])
  /\ UNCHANGED <<disposed, pcb, sockets, sock, send, queue>>

\* Mutant: the handle is looked up again, and whoever has it now receives.
ReceiverByHandle(t) == IF disposed THEN None ELSE sockets[t.handle]
\* The socket must still be the one registered under its handle.
Receiver(t) == IF disposed \/ sockets[t.handle] # t.socket THEN None ELSE t.socket

RunTask ==
  /\ tasks # <<>>
  /\ tasks' = Tail(tasks)
  /\ LET s == Receiver(Head(tasks))
     IN  IF s = None \/ sock[s].st = "cancelled"   \* enqueue() throws
           THEN UNCHANGED queue
           ELSE queue' = [queue EXCEPT ![s] = Append(@, Head(tasks).dg)]
  /\ UNCHANGED <<disposed, pcb, sockets, sock, send, arrivedOn>>

-----------------------------------------------------------------------------
(* Sending *)

StartSend(x, s) ==
  /\ send[x].st = "idle" /\ (Usable(s) \/ sock[s].st = "closing")
  /\ send' = [send EXCEPT ![x] = [st |-> IF disposed THEN "failed" ELSE "resolving",
                                  by |-> s, via |-> None, late |-> FALSE]]
  /\ UNCHANGED <<disposed, pcb, sockets, sock, arrivedOn, tasks, queue>>

\* The host is resolved: no such name, no route, too long, lwIP's error, or
\* sent from the block under the handle, whosever it is by now.
SendResolved(x) ==
  /\ send[x].st = "resolving"
  /\ LET s == send[x].by
     IN  \/ send' = [send EXCEPT ![x] = [st |-> "failed", by |-> s, via |-> None, late |-> FALSE]]
         \/ /\ ~disposed
            /\ send' = [send EXCEPT ![x] = [st |-> "sent", by |-> s, late |-> ~Usable(s),
                                            via |-> pcb[sock[s].handle]]]
  /\ UNCHANGED <<disposed, pcb, sockets, sock, arrivedOn, tasks, queue>>

Dispose ==
  /\ ~disposed
  /\ disposed' = TRUE
  /\ sock' = [s \in Socket |-> IF Usable(s) THEN At(s, "closed")[s] ELSE sock[s]]
  /\ sockets' = [h \in Handle |-> None]
  /\ UNCHANGED <<pcb, send, arrivedOn, tasks, queue>>

Next ==
  \/ \E s \in Socket : Open(s) \/ OpenResolved(s) \/ Close(s) \/ CloseReturns(s) \/ Cancel(s)
  \/ \E h \in Handle : Receive(h)
  \/ RunTask
  \/ \E x \in Send : SendResolved(x) \/ \E s \in Socket : StartSend(x, s)
  \/ Dispose

Spec == Init /\ [][Next]_vars

-----------------------------------------------------------------------------
(* Properties *)

SocketState == [st : {"idle", "resolving", "failed", "open", "cancelled", "closing", "closed"},
                handle : Handle \cup {None}]
SendState == [st : {"idle", "resolving", "sent", "failed"}, by : Socket \cup {None},
              via : Socket \cup {None}, late : BOOLEAN]
Task == [handle : Handle, socket : Socket, dg : 1 .. MaxDatagrams]
NeverOpened(s) == sock[s].st \in {"idle", "resolving", "failed"}
HandlesKnown == \A s \in Socket : sock[s].handle = None <=> NeverOpened(s)
SendersOpened ==
  \A x \in Send : send[x].st \in {"resolving", "sent"} =>
    send[x].by \in Socket /\ ~NeverOpened(send[x].by)

TypeOK ==
  /\ disposed \in BOOLEAN
  /\ pcb \in [Handle -> Socket \cup {None}]
  /\ sockets \in [Handle -> Socket \cup {None}]
  /\ sock \in [Socket -> SocketState]
  /\ HandlesKnown
  /\ send \in [Send -> SendState]
  /\ SendersOpened
  /\ arrivedOn \in Seq(Socket)
  /\ tasks \in Seq(Task)
  /\ queue \in [Socket -> Seq(1 .. MaxDatagrams)]

\* A stream gets only datagrams that arrived for its own socket, each once and in
\* order of arrival, although blocks are freed and reused while datagrams wait for
\* their microtask.
OwnDatagramsInOrder ==
  \A s \in Socket : \A i \in 1 .. Len(queue[s]) :
    /\ arrivedOn[queue[s][i]] = s
    /\ \A j \in 1 .. i - 1 : queue[s][j] < queue[s][i]

\* The datagrams deferred for a socket.
Deferred(s) == {tasks[i].dg : i \in {j \in 1 .. Len(tasks) : tasks[j].socket = s}}

Waiting(s) == IF sock[s].st = "open" THEN Deferred(s) ELSE {}

Box(s) == IF NeverOpened(s) THEN "new" ELSE IF sock[s].st = "open" THEN "open" ELSE "shut"

Mail == INSTANCE Mailboxes WITH
          box <- [s \in Socket |-> Box(s)], waiting <- [s \in Socket |-> Waiting(s)],
          arrived <- arrivedOn, got <- queue

\* Through reused blocks, the registry and the microtasks, every open socket is a
\* mailbox: nothing that arrives for it is lost, goes elsewhere, comes twice or
\* overtakes, and nothing comes after close(), cancel() or dispose().
ImplementsMailboxes == Mail!MailSpec

BlockIsOwn ==
  /\ \A s \in Socket : Usable(s) => /\ pcb[sock[s].handle] = s
                                    /\ sockets[sock[s].handle] = s
  /\ \A x \in Send : send[x].st = "sent" => send[x].late \/ send[x].via = send[x].by

\* Beside the types: a socket in use owns the block its handle names, in lwIP and in
\* the registry, so that what it sends leaves from its own port: only a send() that
\* close() overtook can use the block of another socket.
OwnsItsBlock == TypeOK /\ BlockIsOwn

=============================================================================
