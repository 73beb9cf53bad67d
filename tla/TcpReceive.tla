----------------------------- MODULE TcpReceive -----------------------------
(***************************************************************************)
(* The receive side of one TCP connection: the C callbacks of wasm/tcp.c,  *)
(* the deferred imports of TcpBindings and VirtualTcpConnection            *)
(* (bindings/tcp.ts), and the WHATWG ReadableStream it feeds.              *)
(*                                                                         *)
(* lwIP hands over bytes synchronously and takes them out of its receive   *)
(* window; JavaScript defers each chunk by a microtask, keeps it in        *)
(* receiveBuffer, moves it to the stream as the stream asks for data, and  *)
(* only then gives the bytes back to the window.  A chunk is identified    *)
(* by its place in the peer's byte stream.                                 *)
(*                                                                         *)
(* enqueue() may call pull() before it returns, and pull() runs            *)
(* enqueueBuffer again: `frames` is the call stack of enqueueBuffer, and   *)
(* nothing else runs while it is not empty.                                *)
(***************************************************************************)
EXTENDS Integers, Sequences

CONSTANTS Wnd,        \* TCP_WND of lwipopts.h
          HighWater,  \* READABLE_HIGH_WATER_MARK
          ChunkSizes, \* sizes of the pbuf chains lwIP hands over
          MaxBytes,   \* bound: bytes the peer sends
          Reordering  \* TRUE: lwIP also hands over reassembled pbuf chains

ASSUME ReceiveConstants ==
  /\ Wnd \in Nat \ {0} /\ HighWater \in Nat \ {0} /\ MaxBytes \in Nat
  /\ ChunkSizes \subseteq Nat \ {0}
  /\ Reordering \in BOOLEAN

VARIABLES
  pcb,           \* lwIP's block: "open", "finwait" (FIN sent) or "freed"
  window,        \* its receive window (rcv_wnd)
  arrived,       \* bytes lwIP has handed over
  finArrived,    \* lwIP has reported the peer's FIN
  cut,           \* lwIP has handed over a chain of several pbufs
  tasks,         \* deferred imports, in the order their microtasks run
  receiveBuffer, \* #receiveBuffer
  remoteClosed,  \* #remoteClosed
  readableClosed,\* #readableClosed
  disposed,      \* #disposed
  closing,       \* close() waits for the outer close to settle
  frames,        \* activations of #enqueueBuffer, innermost first
  stream,        \* state of the ReadableStream
  queue,         \* its queued chunks
  queued,        \* their total size
  pendingRead,   \* a read() is waiting
  pulling,       \* the promise of a pull() has not settled
  pullAgain,     \* a pull was asked for meanwhile
  writable,      \* "open" or "errored"
  readPos,       \* bytes the application has read
  outcome        \* how the application's reading ended

tcpVars == <<pcb, window, arrived, finArrived, cut>>
connVars == <<receiveBuffer, remoteClosed, readableClosed, disposed, closing, writable>>
streamVars == <<stream, queue, queued, pendingRead, pulling, pullAgain>>
appVars == <<readPos, outcome>>
vars == <<tcpVars, tasks, connVars, frames, streamVars, appVars>>

Chunk == [off : Nat, len : Nat \ {0}]
Task == [kind : {"chunk"}, off : Nat, len : Nat \ {0}] \cup [kind : {"fin"}, off : Nat, len : {0}]
Frame == [at : {"enter", "loop"}, bytes : Nat]
Entered == [at |-> "enter", bytes |-> 0]

Init ==
  /\ pcb = "open" /\ window = Wnd /\ arrived = 0 /\ finArrived = FALSE
  /\ cut = FALSE
  /\ tasks = <<>>
  /\ receiveBuffer = <<>> /\ remoteClosed = FALSE /\ readableClosed = FALSE
  /\ disposed = FALSE /\ closing = FALSE /\ writable = "open"
  /\ frames = <<>>
  /\ stream = "readable" /\ queue = <<>> /\ queued = 0
  /\ pendingRead = FALSE /\ pulling = FALSE /\ pullAgain = FALSE
  /\ readPos = 0 /\ outcome = "none"

\* Script runs to completion: callbacks and application code start only when
\* no activation of #enqueueBuffer is on the stack.
Idle == frames = <<>>

-----------------------------------------------------------------------------
(* The ReadableStream, as the Streams standard defines it.                  *)

\* desiredSize; null (errored) and 0 (closed) are both ``not positive''.
DesiredSize == IF stream \in {"readable", "closing"} THEN HighWater - queued ELSE 0

\* ReadableStreamDefaultControllerCallPullIfNeeded, once the queue holds
\* `size` bytes: pull() runs now, or again when the running one settles.
CallPullIfNeeded(waiting, size, stack) ==
  IF stream = "readable" /\ (waiting \/ size < HighWater)
    THEN IF pulling
           THEN pullAgain' = TRUE /\ frames' = stack /\ UNCHANGED pulling
           ELSE pulling' = TRUE /\ frames' = <<Entered>> \o stack /\ UNCHANGED pullAgain
    ELSE frames' = stack /\ UNCHANGED <<pulling, pullAgain>>

\* controller.close(): a waiting read ends at once, queued chunks stay readable.
CloseController ==
  /\ stream' = IF stream = "readable" THEN IF queue = <<>> THEN "closed" ELSE "closing" ELSE stream
  /\ pendingRead' = (pendingRead /\ stream' # "closed")
  /\ outcome' = IF pendingRead /\ stream' = "closed" THEN "done" ELSE outcome
  /\ UNCHANGED <<queue, queued, pulling, pullAgain, readPos>>

\* controller.error(): queued chunks are dropped, a waiting read is rejected.
ErrorController ==
  IF stream \in {"readable", "closing"}
    THEN /\ stream' = "errored" /\ queue' = <<>> /\ queued' = 0 /\ pendingRead' = FALSE
         /\ outcome' = IF pendingRead THEN "error" ELSE outcome
         /\ UNCHANGED <<pulling, pullAgain, readPos>>
    ELSE UNCHANGED <<streamVars, appVars>>

-----------------------------------------------------------------------------
(* VirtualTcpConnection                                                     *)

CloseReadable ==
  /\ readableClosed' = TRUE
  /\ IF readableClosed THEN UNCHANGED <<streamVars, appVars>> ELSE CloseController

ErrorReadable ==
  /\ readableClosed' = TRUE
  /\ IF readableClosed THEN UNCHANGED <<streamVars, appVars>> ELSE ErrorController

\* Mutant: the stream is closed although data is left to deliver.
FinishEarly ==
  IF remoteClosed
    THEN CloseReadable /\ writable' = "errored"
    ELSE UNCHANGED <<readableClosed, writable, streamVars, appVars>>

\* The end of #enqueueBuffer, at either exit.
FinishIfRemoteClosed ==
  IF remoteClosed /\ receiveBuffer = <<>>
    THEN CloseReadable /\ writable' = "errored"
    ELSE UNCHANGED <<readableClosed, writable, streamVars, appVars>>

\* tcp_recved: the window never grows past TCP_WND.
Reopened(bytes) == IF window + bytes > Wnd THEN Wnd ELSE window + bytes

\* Mutants of the loop: a chunk that does not fit ends it (no ``at least one'');
\* the window is reopened only by an activation that emptied receiveBuffer.
FitsStrict(frame) == Head(receiveBuffer).len + frame.bytes <= DesiredSize
CreditOnlyWhenDrained(frame) ==
  IF receiveBuffer = <<>> THEN Reopened(frame.bytes) ELSE window

Fits(frame) == frame.bytes = 0 \/ frame.bytes + Head(receiveBuffer).len <= DesiredSize
CanMove(frame) == receiveBuffer # <<>> /\ Fits(frame)
Credit(frame) == IF frame.bytes > 0 THEN Reopened(frame.bytes) ELSE window

InDemand == DesiredSize > 0

\* Entry of #enqueueBuffer: nothing left to deliver, no demand, or the loop.
EnqueueEnter ==
  /\ ~Idle /\ Head(frames).at = "enter"
  /\ \/ /\ remoteClosed /\ receiveBuffer = <<>>
        /\ frames' = Tail(frames)
        /\ FinishIfRemoteClosed
     \/ /\ ~(remoteClosed /\ receiveBuffer = <<>>)
        /\ frames' = IF InDemand THEN <<[at |-> "loop", bytes |-> 0]>> \o Tail(frames)
                     ELSE Tail(frames)
        /\ UNCHANGED <<readableClosed, writable, streamVars, appVars>>
  /\ UNCHANGED <<tcpVars, tasks, receiveBuffer, remoteClosed, disposed, closing>>

\* One turn of its loop: enqueue() satisfies a waiting read or grows the queue,
\* and may call pull(), whose activation of #enqueueBuffer runs first.
EnqueueChunk ==
  /\ ~Idle /\ Head(frames).at = "loop"
  /\ CanMove(Head(frames))
  /\ LET chunk == Head(receiveBuffer)
         size == IF pendingRead THEN queued ELSE queued + chunk.len
     IN  /\ queue' = IF pendingRead THEN queue ELSE Append(queue, chunk)
         /\ queued' = size
         /\ readPos' = IF pendingRead THEN chunk.off + chunk.len ELSE readPos
         /\ CallPullIfNeeded(FALSE, size,
              <<[Head(frames) EXCEPT !.bytes = @ + chunk.len]>> \o Tail(frames))
  /\ receiveBuffer' = Tail(receiveBuffer)
  /\ pendingRead' = FALSE
  /\ UNCHANGED <<tcpVars, tasks, remoteClosed, readableClosed, disposed, closing,
                 stream, writable, outcome>>

\* After the loop: the bytes moved go back to the receive window.
EnqueueDone ==
  /\ ~Idle /\ Head(frames).at = "loop"
  /\ ~CanMove(Head(frames))
  /\ window' = IF pcb = "open" THEN Credit(Head(frames)) ELSE window
  /\ frames' = Tail(frames)
  /\ FinishIfRemoteClosed
  /\ UNCHANGED <<pcb, arrived, finArrived, cut, tasks, receiveBuffer, remoteClosed,
                 disposed, closing>>

-----------------------------------------------------------------------------
(* lwIP's callbacks, up to the imports' first await.                        *)

\* recv_tcp_callback with data: the chain holds `tot` bytes, its first pbuf
\* `len`; only the first pbuf is copied to receive_tcp_chunk.
RecvCallback(tot, len) ==
  /\ Idle /\ ~disposed /\ pcb = "open" /\ ~finArrived
  /\ tot <= window /\ arrived + tot <= MaxBytes
  /\ len = tot \/ (Reordering /\ len < tot)
  /\ window' = window - tot
  /\ arrived' = arrived + tot
  /\ cut' = (cut \/ len < tot)
  /\ tasks' = Append(tasks, [kind |-> "chunk", off |-> arrived, len |-> len])
  /\ UNCHANGED <<pcb, finArrived, connVars, frames, streamVars, appVars>>

\* recv_tcp_callback with NULL: the peer's FIN, after all its data.
RecvFin ==
  /\ Idle /\ ~disposed /\ pcb # "freed" /\ ~finArrived
  /\ finArrived' = TRUE
  /\ tasks' = Append(tasks, [kind |-> "fin", off |-> arrived, len |-> 0])
  /\ UNCHANGED <<pcb, window, arrived, cut, connVars, frames, streamVars, appVars>>

\* Mutants: a chunk overtakes those before it; the end is noted, not acted on.
ReceiveInFront(task) ==
  /\ receiveBuffer' = <<[off |-> task.off, len |-> task.len]>> \o receiveBuffer
  /\ frames' = <<Entered>>
  /\ UNCHANGED remoteClosed
RemoteCloseSilent == remoteClosed' = TRUE /\ UNCHANGED <<receiveBuffer, frames>>

\* The rest of receive_tcp_chunk / closed_tcp_connection, one microtask later.
Receive(task) ==
  /\ receiveBuffer' = Append(receiveBuffer, [off |-> task.off, len |-> task.len])
  /\ frames' = <<Entered>>
  /\ UNCHANGED remoteClosed

RemoteClose ==
  /\ remoteClosed' = TRUE
  /\ frames' = <<Entered>>
  /\ UNCHANGED receiveBuffer

RunTask ==
  /\ Idle /\ tasks # <<>>
  /\ tasks' = Tail(tasks)
  /\ \/ disposed /\ UNCHANGED <<receiveBuffer, remoteClosed, frames>>
     \/ ~disposed /\ Head(tasks).kind = "chunk" /\ Receive(Head(tasks))
     \/ ~disposed /\ Head(tasks).kind = "fin" /\ RemoteClose
  /\ UNCHANGED <<tcpVars, readableClosed, disposed, closing, writable, streamVars, appVars>>

\* Mutant: what was asked for while the promise was pending is dropped.
PullSettledOnce ==
  /\ Idle /\ pulling
  /\ pullAgain' = FALSE /\ pulling' = FALSE
  /\ UNCHANGED <<tcpVars, tasks, connVars, stream, queue, queued, pendingRead, frames, appVars>>

\* The promise of pull() settles.  pull() itself is an activation of
\* #enqueueBuffer (CallPullIfNeeded).
PullSettled ==
  /\ Idle /\ pulling
  /\ pullAgain' = FALSE
  /\ IF pullAgain /\ stream = "readable" /\ (pendingRead \/ queued < HighWater)
       THEN frames' = <<Entered>> /\ UNCHANGED pulling
       ELSE pulling' = FALSE /\ UNCHANGED frames
  /\ UNCHANGED <<tcpVars, tasks, connVars, stream, queue, queued, pendingRead, appVars>>

-----------------------------------------------------------------------------
(* The application and the stack's owner.                                   *)

\* reader.read(): a queued chunk, the end of the stream, or a wait.
ReadQueued ==
  /\ Idle /\ outcome = "none" /\ queue # <<>>
  /\ queue' = Tail(queue) /\ queued' = queued - Head(queue).len
  /\ readPos' = Head(queue).off + Head(queue).len
  /\ IF stream = "closing" /\ Tail(queue) = <<>>
       THEN stream' = "closed" /\ UNCHANGED <<pulling, pullAgain, frames>>
       ELSE CallPullIfNeeded(FALSE, queued', frames) /\ UNCHANGED stream
  /\ UNCHANGED <<tcpVars, tasks, connVars, pendingRead, outcome>>

ReadWait ==
  /\ Idle /\ outcome = "none" /\ ~pendingRead
  /\ queue = <<>> /\ stream = "readable"
  /\ pendingRead' = TRUE
  /\ CallPullIfNeeded(TRUE, queued, frames)
  /\ UNCHANGED <<tcpVars, tasks, connVars, stream, queue, queued, appVars>>

ReadEnd ==
  /\ Idle /\ outcome = "none" /\ stream \in {"closed", "cancelled", "errored"}
  /\ outcome' = IF stream = "errored" THEN "error" ELSE "done"
  /\ UNCHANGED <<tcpVars, tasks, connVars, frames, streamVars, readPos>>

Read == ReadQueued \/ ReadWait \/ ReadEnd

\* reader.cancel(): the stream has no cancel() hook, so the connection is not told.
Cancel ==
  /\ Idle /\ stream \in {"readable", "closing"}
  /\ stream' = "cancelled" /\ queue' = <<>> /\ queued' = 0 /\ pendingRead' = FALSE
  /\ outcome' = IF pendingRead THEN "done" ELSE outcome
  /\ UNCHANGED <<tcpVars, tasks, connVars, frames, pulling, pullAgain, readPos>>

\* close(): tcp_close frees the block at once when received bytes were not
\* given back to the window (it answers with RST), and sends FIN otherwise.
Close ==
  /\ Idle /\ ~disposed /\ ~closing /\ pcb = "open"
  /\ pcb' = IF window < Wnd THEN "freed" ELSE "finwait"
  /\ closing' = TRUE
  /\ UNCHANGED <<window, arrived, finArrived, cut, tasks, receiveBuffer, remoteClosed,
                 readableClosed, disposed, writable, frames, streamVars, appVars>>

CloseSettled ==
  /\ Idle /\ closing
  /\ closing' = FALSE
  /\ ErrorReadable
  /\ writable' = "errored"
  /\ UNCHANGED <<tcpVars, tasks, receiveBuffer, remoteClosed, disposed, frames>>

\* TcpBindings.dispose reaches every connection.
Dispose ==
  /\ Idle /\ ~disposed
  /\ disposed' = TRUE
  /\ receiveBuffer' = <<>>
  /\ ErrorReadable
  /\ writable' = "errored"
  /\ UNCHANGED <<tcpVars, tasks, remoteClosed, closing, frames>>

-----------------------------------------------------------------------------

System ==
  \/ EnqueueEnter \/ EnqueueChunk \/ EnqueueDone
  \/ RunTask \/ PullSettled \/ CloseSettled

Peer ==
  \/ \E tot \in ChunkSizes : \E len \in 1 .. tot : RecvCallback(tot, len)
  \/ RecvFin

Next == System \/ Peer \/ Read \/ Cancel \/ Close \/ Dispose

Spec == Init /\ [][Next]_vars

\* Microtasks and the code they run always get their turn; the application
\* keeps reading.  Nothing is assumed of the peer, of close() or of dispose().
Fairness == WF_vars(System) /\ WF_vars(Read)
FairSpec == Spec /\ Fairness

-----------------------------------------------------------------------------
(* Properties *)

\* #enqueueBuffer nests at most once: pull() is not re-entered while pulling.
TypeOK ==
  /\ pcb \in {"open", "finwait", "freed"}
  /\ window \in 0 .. Wnd /\ arrived \in Nat /\ finArrived \in BOOLEAN
  /\ cut \in BOOLEAN
  /\ tasks \in Seq(Task) /\ receiveBuffer \in Seq(Chunk)
  /\ remoteClosed \in BOOLEAN /\ readableClosed \in BOOLEAN
  /\ disposed \in BOOLEAN /\ closing \in BOOLEAN
  /\ frames \in Seq(Frame) /\ Len(frames) <= 2
  /\ stream \in {"readable", "closing", "closed", "cancelled", "errored"}
  /\ queue \in Seq(Chunk) /\ queued \in Nat
  /\ pendingRead \in BOOLEAN /\ pulling \in BOOLEAN /\ pullAgain \in BOOLEAN
  /\ writable \in {"open", "errored"}
  /\ readPos \in Nat /\ outcome \in {"none", "done", "error"}

End(s, pos) == IF s = <<>> THEN pos ELSE s[Len(s)].off + s[Len(s)].len
Follows(s, pos) ==
  \A i \in 1 .. Len(s) : s[i].off = IF i = 1 THEN pos ELSE s[i-1].off + s[i-1].len

\* Beside the types: until reading is given up, the bytes the application has
\* read, the stream's queue, receiveBuffer and the deferred imports are, end to
\* end, exactly the bytes that arrived: nothing is lost, repeated or reordered on
\* the way (as long as every chunk was one pbuf: RecvCallback cuts longer
\* chains), and the peer's FIN and the end of the stream come after all of them.
InOrder ==
  /\ TypeOK
  /\ ~cut /\ stream \in {"readable", "closing", "closed"} =>
       LET q == End(queue, readPos)
           b == End(receiveBuffer, q)
       IN  /\ Follows(queue, readPos)
           /\ Follows(receiveBuffer, q)
           /\ Follows(tasks, b)
           /\ End(tasks, b) = arrived
           /\ stream = "closed" => readPos = arrived

Moved == [i \in 1 .. Len(frames) |-> frames[i].bytes]
MovedBytes == IF Len(frames) = 0 THEN 0
              ELSE IF Len(frames) = 1 THEN Moved[1]
              ELSE Moved[1] + Moved[2]

\* While lwIP's block is open, the closed part of the receive window is exactly
\* the bytes still on their way to the stream: credit is given back once for
\* every byte, across nested activations of #enqueueBuffer, and never before
\* the stream has taken it.
WindowConserved ==
  ~cut /\ pcb = "open" /\ stream \in {"readable", "closing", "closed"} =>
    window + MovedBytes + (arrived - End(queue, readPos)) = Wnd

\* Nothing of #enqueueBuffer, no import, pull() or close() is under way: until
\* the peer or the application acts, nothing moves any more.
AtRest == Idle /\ tasks = <<>> /\ ~pulling /\ ~closing

\* Nothing is forgotten: a connection comes to rest with an open stream only
\* when the stream's queue is full and no read waits, or when everything that
\* arrived is in the stream, the peer has not ended its side, and the whole window
\* is open again.  Every place that may have to go on (receive(), pull() once or
\* again, a chunk that never fits, the peer's FIN) does, whatever came between.
NothingForgotten ==
  AtRest /\ stream = "readable" =>
    \/ queued >= HighWater /\ ~pendingRead
    \/ /\ receiveBuffer = <<>> /\ ~finArrived
       /\ ~cut /\ pcb = "open" => window = Wnd

\* What is left to do before the connection rests: a deferred import outweighs the
\* chunk and the activation it becomes, a pull() asked for the one it starts.
One(flag) == IF flag THEN 1 ELSE 0
Turns(frame) == IF frame.at = "enter" THEN 2 ELSE 1
TurnsLeft == IF Len(frames) = 0 THEN 0
             ELSE IF Len(frames) = 1 THEN Turns(frames[1])
             ELSE Turns(frames[1]) + Turns(frames[2])
Effort == 7 * Len(tasks) + 4 * Len(receiveBuffer) + TurnsLeft
            + 3 * One(pullAgain) + One(pulling) + One(closing)

\* The microtasks between two acts of the peer or the application come to an end,
\* although pull() calls #enqueueBuffer, which calls enqueue(), which may call
\* pull() or ask for another: every step of the stack's own shortens what is left.
ComesToRest == [][System => Effort' < Effort]_vars

\* End-of-stream reported because the peer closed comes after every byte the
\* peer sent (``delivers queued TCP data before peer close is observed'').
EofAfterAllData == stream = "closed" => readPos = arrived

\* A chain that lwIP hands over is cut, and the connection keeps no promise then.
Stream == INSTANCE ByteStream WITH
            sent <- arrived, finished <- finArrived, read <- readPos,
            promise <- IF cut \/ stream \in {"cancelled", "errored"} THEN "void"
                       ELSE IF stream = "closed" THEN "fulfilled" ELSE "kept"

\* Through deferred imports, two buffers, nested pulls and the window, the readable side
\* is a byte stream that ends once, after its last byte and the peer's FIN, unless it
\* was given up or a chain was cut.
ImplementsStream == Stream!StreamSpec

GivenUp == disposed \/ closing \/ pcb # "open" \/ stream = "cancelled"

\* The peer's FIN reaches an application that keeps reading.
EofObserved == finArrived ~> (outcome = "done" \/ GivenUp)

\* The window opens again, fully, when the application keeps reading
\* (``tcp backpressure'': no update is lost between receive() and pull()).
WindowReopens == window < Wnd ~> (window = Wnd \/ GivenUp \/ cut)

=============================================================================
