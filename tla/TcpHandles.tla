----------------------------- MODULE TcpHandles -----------------------------
(***************************************************************************)
(* TcpBindings as the register of TCP connections (bindings/tcp.ts): how   *)
(* connect(), listeners and the deferred lwIP callbacks find the           *)
(* connection they are about.                                              *)
(*                                                                         *)
(* The only name a connection has is its handle, the address of lwIP's     *)
(* protocol control block.  lwIP takes blocks from a pool and hands out a  *)
(* freed one again, and #tcpConnections never drops an entry, so a handle  *)
(* outlives the connection it named.  In this module every connection of   *)
(* lwIP has a number of its own, which the code does not see, and a        *)
(* connection object carries the number of the connection it was made for. *)
(***************************************************************************)
EXTENDS Integers, Sequences

CONSTANTS Handle,   \* the blocks of lwIP's pool (MEMP_NUM_TCP_PCB)
          Call,     \* calls of connect()
          Iter,     \* iterators over the listener
          MaxConn,  \* bound: connections lwIP ever opens
          None

ConnId == 1 .. MaxConn

ASSUME HandleConstants ==
  /\ MaxConn \in Nat
  /\ None \notin Int /\ None \notin Handle

VARIABLES
  disposed,
  pcb,         \* [Handle -> state of the block and the connection it serves]
  opened,      \* connections opened so far
  lost,        \* those refused, reset, or closed by the object of another one
  connections, \* #tcpConnections: [Handle -> ConnId or None]
  handleOf,    \* [ConnId -> the handle its object was made with, or None]
  open,        \* connection objects on which close() was not called
  waiting,     \* #tcpConnectEvents: [Handle -> waiting calls]
  call,        \* [Call -> its stage, the connection asked for and the one got]
  tasks,       \* deferred imports, oldest first
  accepted,    \* the listener's queue of connections
  iter,        \* [Iter -> "run", "wait" or "end"]
  taken        \* connections the iterators yielded

vars == <<disposed, pcb, opened, lost, connections, handleOf, open, waiting, call,
          tasks, accepted, iter, taken>>

Stage == {"idle", "resolving", "waiting", "resolved", "done", "rejected"}

Init ==
  /\ disposed = FALSE
  /\ pcb = [h \in Handle |-> [st |-> "free", conn |-> None]]
  /\ opened = 0
  /\ lost = {}
  /\ connections = [h \in Handle |-> None]
  /\ handleOf = [g \in ConnId |-> None]
  /\ open = {}
  /\ waiting = [h \in Handle |-> {}]
  /\ call = [k \in Call |-> [st |-> "idle", asked |-> None, got |-> None]]
  /\ tasks = <<>>
  /\ accepted = <<>>
  /\ iter = [i \in Iter |-> "run"]
  /\ taken = <<>>

-----------------------------------------------------------------------------
(* connect()                                                                *)

Connect(k) ==
  /\ call[k].st = "idle"
  /\ call' = [call EXCEPT ![k].st = IF disposed THEN "rejected" ELSE "resolving"]
  /\ UNCHANGED <<disposed, pcb, opened, lost, connections, handleOf, open, waiting,
                 tasks, accepted, iter, taken>>

Open(h, st) ==
  /\ pcb[h].st = "free" /\ opened < MaxConn
  /\ opened' = opened + 1
  /\ pcb' = [pcb EXCEPT ![h] = [st |-> st, conn |-> opened + 1]]

Reject(k) == call' = [call EXCEPT ![k].st = "rejected"]

Dial(k) ==
  \E h \in Handle :
    /\ Open(h, "syn")
    /\ waiting' = [waiting EXCEPT ![h] = @ \cup {k}]
    /\ call' = [call EXCEPT ![k].st = "waiting", ![k].asked = opened + 1]

\* The host is resolved: disposed meanwhile, no route or no block, or a SYN.
AfterResolve(k) ==
  \/ Reject(k) /\ UNCHANGED <<pcb, opened, waiting>>
  \/ ~disposed /\ Dial(k)

ResolveHost(k) ==
  /\ call[k].st = "resolving"
  /\ AfterResolve(k)
  /\ UNCHANGED <<disposed, lost, connections, handleOf, open, tasks, accepted, iter, taken>>

\* Mutant: the result of the wait is returned whatever happened meanwhile.
ConnectResultUnchecked(k) == "done"
ConnectResult(k) == IF disposed THEN "rejected" ELSE "done"

\* connect() goes on after its wait.
ConnectReturns(k) ==
  /\ call[k].st = "resolved"
  /\ call' = [call EXCEPT ![k].st = ConnectResult(k)]
  /\ open' = IF ConnectResult(k) = "done" THEN open \cup {call[k].got} ELSE open
  /\ UNCHANGED <<disposed, pcb, opened, lost, connections, handleOf, waiting, tasks,
                 accepted, iter, taken>>

-----------------------------------------------------------------------------
(* lwIP's callbacks, up to the first await of the import.                   *)

\* Mutant: an accepted connection gets the object its handle had before.
RegisterAgain(h, g, kind) ==
  LET again == kind = "accept" /\ connections[h] # None
  IN  /\ connections' = IF again THEN connections ELSE [connections EXCEPT ![h] = g]
      /\ handleOf' = [handleOf EXCEPT ![g] = h]
      /\ tasks' = Append(tasks, [kind |-> kind, handle |-> h,
                                conn |-> IF again THEN connections[h] ELSE g])

\* The object is made and registered at once; the event is deferred.
Register(h, g, kind) ==
  /\ connections' = [connections EXCEPT ![h] = g]
  /\ handleOf' = [handleOf EXCEPT ![g] = h]
  /\ tasks' = Append(tasks, [kind |-> kind, handle |-> h, conn |-> g])

ConnectedCallback(h) ==
  /\ ~disposed /\ pcb[h].st = "syn"
  /\ pcb' = [pcb EXCEPT ![h].st = "established"]
  /\ Register(h, pcb[h].conn, "connected")
  /\ UNCHANGED <<disposed, opened, lost, open, waiting, call, accepted, iter, taken>>

AcceptCallback(h) ==
  /\ ~disposed
  /\ Open(h, "established")
  /\ Register(h, opened + 1, "accept")
  /\ UNCHANGED <<disposed, lost, open, waiting, call, accepted, iter, taken>>

\* RST or a timeout.  lwIP frees the block; no error callback is registered,
\* so JavaScript learns nothing.
Reset(h) ==
  /\ ~disposed /\ pcb[h].st \in {"syn", "established"}
  /\ pcb' = [pcb EXCEPT ![h] = [st |-> "free", conn |-> None]]
  /\ lost' = lost \cup {pcb[h].conn}
  /\ UNCHANGED <<disposed, opened, connections, handleOf, open, waiting, call,
                 tasks, accepted, iter, taken>>

\* The closing handshake of a connection the application closed is over.
Freed(h) ==
  /\ ~disposed /\ pcb[h].st = "closing"
  /\ pcb' = [pcb EXCEPT ![h] = [st |-> "free", conn |-> None]]
  /\ UNCHANGED <<disposed, opened, lost, connections, handleOf, open, waiting, call,
                 tasks, accepted, iter, taken>>

-----------------------------------------------------------------------------
(* Deferred halves of the imports, and the listener.                        *)

\* Mutant: the waiting calls stay in the map.
ConnectedAgain(task) ==
  /\ call' = [k \in Call |-> IF k \in waiting[task.handle]
                               THEN [call[k] EXCEPT !.st = "resolved", !.got = task.conn]
                               ELSE call[k]]
  /\ UNCHANGED <<waiting, accepted, iter>>

\* EventMap.set: every call that waits on the handle gets the connection.
Connected(task) ==
  /\ call' = [k \in Call |-> IF k \in waiting[task.handle]
                               THEN [call[k] EXCEPT !.st = "resolved", !.got = task.conn]
                               ELSE call[k]]
  /\ waiting' = [waiting EXCEPT ![task.handle] = {}]
  /\ UNCHANGED <<accepted, iter>>

\* Mutants: iterators are not notified; the newest connection goes first.
AcceptQuietly(task) ==
  /\ accepted' = Append(accepted, task.conn)
  /\ UNCHANGED <<call, waiting, iter>>
AcceptFirst(task) ==
  /\ accepted' = <<task.conn>> \o accepted
  /\ iter' = [i \in Iter |-> IF iter[i] = "wait" THEN "run" ELSE iter[i]]
  /\ UNCHANGED <<call, waiting>>

\* VirtualTcpListener.accept: queue it and wake every iterator.
Accept(task) ==
  /\ accepted' = Append(accepted, task.conn)
  /\ iter' = [i \in Iter |-> IF iter[i] = "wait" THEN "run" ELSE iter[i]]
  /\ UNCHANGED <<call, waiting>>

RunTask ==
  /\ tasks # <<>>
  /\ tasks' = Tail(tasks)
  /\ \/ disposed /\ UNCHANGED <<call, waiting, accepted, iter>>
     \/ ~disposed /\ Head(tasks).kind = "connected" /\ Connected(Head(tasks))
     \/ ~disposed /\ Head(tasks).kind = "accept" /\ Accept(Head(tasks))
  /\ UNCHANGED <<disposed, pcb, opened, lost, connections, handleOf, open, taken>>

\* The async iterator: end, wait for a notification, or yield the oldest.
Iterate(i) ==
  /\ iter[i] = "run"
  /\ \/ disposed /\ iter' = [iter EXCEPT ![i] = "end"] /\ UNCHANGED <<accepted, taken, open>>
     \/ /\ ~disposed /\ accepted = <<>>
        /\ iter' = [iter EXCEPT ![i] = "wait"] /\ UNCHANGED <<accepted, taken, open>>
     \/ /\ ~disposed /\ accepted # <<>>
        /\ taken' = Append(taken, Head(accepted))
        /\ accepted' = Tail(accepted)
        /\ open' = open \cup {Head(accepted)}
        /\ UNCHANGED iter
  /\ UNCHANGED <<disposed, pcb, opened, lost, connections, handleOf, waiting, call, tasks>>

\* close() on a connection object closes whatever its handle names now.
Close(g) ==
  LET h == handleOf[g]
  IN  /\ ~disposed /\ g \in open
      /\ open' = open \ {g}
      /\ \/ /\ pcb[h].st = "established"
            /\ pcb' = [pcb EXCEPT ![h].st = "closing"]
            /\ lost' = lost \cup ({pcb[h].conn} \ {g})
         \/ pcb[h].st # "established" /\ UNCHANGED <<pcb, lost>>
      /\ UNCHANGED <<disposed, opened, connections, handleOf, waiting, call, tasks,
                     accepted, iter, taken>>

\* Mutant: waiting calls are not told.
RejectWaitingNone == UNCHANGED <<call, waiting>>

RejectWaiting ==
  /\ call' = [k \in Call |-> IF \E h \in Handle : k \in waiting[h]
                               THEN [call[k] EXCEPT !.st = "rejected"] ELSE call[k]]
  /\ waiting' = [h \in Handle |-> {}]

Dispose ==
  /\ ~disposed
  /\ disposed' = TRUE
  /\ RejectWaiting
  /\ accepted' = <<>>
  /\ iter' = [i \in Iter |-> IF iter[i] = "wait" THEN "run" ELSE iter[i]]
  /\ connections' = [h \in Handle |-> None]
  /\ open' = {}
  /\ UNCHANGED <<pcb, opened, lost, handleOf, tasks, taken>>

CallStep(k) == ResolveHost(k) \/ ConnectReturns(k)

Next ==
  \/ \E k \in Call : Connect(k) \/ CallStep(k)
  \/ \E h \in Handle : ConnectedCallback(h) \/ AcceptCallback(h) \/ Reset(h) \/ Freed(h)
  \/ RunTask
  \/ \E i \in Iter : Iterate(i)
  \/ \E g \in ConnId : Close(g)
  \/ Dispose

Spec == Init /\ [][Next]_vars

\* Deferred work runs, peers answer a SYN that was not refused, and the
\* application keeps iterating over its listener.
Fairness ==
  /\ \A k \in Call : WF_vars(CallStep(k))
  /\ \A h \in Handle : WF_vars(ConnectedCallback(h))
  /\ WF_vars(RunTask)
  /\ \A i \in Iter : WF_vars(Iterate(i))
FairSpec == Spec /\ Fairness

-----------------------------------------------------------------------------
(* Properties *)

TypeOK ==
  /\ disposed \in BOOLEAN
  /\ pcb \in [Handle -> [st : {"free"}, conn : {None}]
                        \cup [st : {"syn", "established", "closing"}, conn : ConnId]]
  /\ opened \in 0 .. MaxConn /\ lost \subseteq ConnId
  /\ connections \in [Handle -> ConnId \cup {None}]
  /\ handleOf \in [ConnId -> Handle \cup {None}]
  /\ open \subseteq ConnId
  /\ waiting \in [Handle -> SUBSET Call]
  /\ call \in [Call -> [st : Stage, asked : ConnId \cup {None}, got : ConnId \cup {None}]]
  /\ tasks \in Seq([kind : {"connected", "accept"}, handle : Handle, conn : ConnId])
  /\ accepted \in Seq(ConnId) /\ taken \in Seq(ConnId)
  /\ iter \in [Iter -> {"run", "wait", "end"}]

\* connect() returns the connection it opened (``Establishes an outbound TCP
\* connection to a remote host/port''), so no two calls share one.
OwnConnection(k) == call[k].st = "done" => call[k].got = call[k].asked

\* What the code keeps of that: only a refused or reset connection, the one asked
\* for or the one a queued event was about, can make a call get the wrong one.
UnlessRefused == \A k \in Call : {call[k].asked, call[k].got} \cap lost # {} \/ OwnConnection(k)

\* Beside the types: the handle of a connection the application may still use names the block
\* of that connection, so that a write or a close acts on no other one.  (An
\* object of a lost connection has a stale handle; a call that was resolved
\* with another's connection shares its object.)
Shared == {call[k].got : k \in {c \in Call : call[c].got # call[c].asked}}
HandleIsOwn ==
  /\ TypeOK
  /\ \A g \in open \ (lost \cup Shared) : pcb[handleOf[g]].conn \in {g, None}

\* Connections come out of the listener once each, in the order lwIP accepted
\* them, however many iterators take them.
AcceptInOrder ==
  LET all == taken \o accepted
  IN  \A i, j \in 1 .. Len(all) : i < j => all[i] < all[j]

\* After dispose() no block is allocated, no call starts to wait, no call that
\* was under way succeeds, and no iterator yields.
NothingAfterDispose ==
  [][disposed => /\ opened' = opened
                 /\ \A k \in Call : call'[k].st \in {"done", "waiting"} => call'[k] = call[k]
                 /\ taken' = taken]_vars

\* Nobody sleeps forgotten: a call that waits is registered under the block whose
\* SYN is out or whose event is queued for it, unless its attempt was lost; an
\* iterator waits only while the listener has nothing for it.  (The waits are in
\* two registers, each filled and emptied at other times than what they wait for.)
ConnectEvent(h, g) == [kind |-> "connected", handle |-> h, conn |-> g]
NobodyForgotten ==
  /\ \A k \in Call : call[k].st = "waiting" =>
       \E h \in Handle :
         /\ k \in waiting[h]
         /\ \/ call[k].asked \in lost
            \/ pcb[h] = [st |-> "syn", conn |-> call[k].asked]
            \/ \E i \in 1 .. Len(tasks) : tasks[i] = ConnectEvent(h, call[k].asked)
  /\ \A i \in Iter : iter[i] = "wait" => accepted = <<>> /\ ~disposed

\* connect() returns or throws (``tcp failed to connect'').
Settled(k) == call[k].st \in {"done", "rejected"}

\* What the code keeps of that: a call whose attempt is not refused, also when
\* the stack is disposed meanwhile.
SettlesUnlessRefused ==
  \A k \in Call : call[k].st = "resolving" ~> (Settled(k) \/ call[k].asked \in lost)

\* An accepted connection reaches an iterator.
AcceptDelivered ==
  \A g \in ConnId :
    (\E i \in 1 .. Len(accepted) : accepted[i] = g)
      ~> (disposed \/ \E i \in 1 .. Len(taken) : taken[i] = g)

=============================================================================
