------------------------------ MODULE TcpSend -------------------------------
(***************************************************************************)
(* The send side of TcpBindings (bindings/tcp.ts, wasm/tcp.c): writes that *)
(* feed lwIP's send buffer as acknowledgements free it, close() and the    *)
(* half-close of the writable, and their retries.                          *)
(*                                                                         *)
(* An operation that cannot go on registers a waiter for its connection    *)
(* (#tcpAcks for writes, #tcpCloseAcks for closes).  lwIP's sent callback  *)
(* resolves every waiter of the connection; dispose() rejects them all.    *)
(* A resolved operation continues in a later microtask.                    *)
(*                                                                         *)
(* The unit of data is one TCP segment.  lwIP allots segments from one     *)
(* pool that all connections share (MEMP_NUM_TCP_SEG).                     *)
(***************************************************************************)
EXTENDS Integers, Sequences, FiniteSets

CONSTANTS Conn,        \* connections
          SndBuf,      \* segments a send buffer holds (TCP_SND_QUEUELEN)
          Segs,        \* segments in the pool (MEMP_NUM_TCP_SEG)
          WriteSizes,  \* sizes of the chunks the application writes
          MaxUnits,    \* bound: data written per connection
          OutputFails  \* connections for which tcp_output may fail, once

ASSUME SendConstants ==
  /\ SndBuf \in Nat \ {0} /\ Segs \in Nat \ {0} /\ MaxUnits \in Nat
  /\ SndBuf <= Segs
  /\ WriteSizes \subseteq Nat \ {0}
  /\ OutputFails \subseteq Conn

VARIABLES
  pcb,      \* [Conn -> "open", "shut" (FIN queued) or "freed"]
  wire,     \* [Conn -> the data lwIP was given, in order]
  inflight, \* [Conn -> segments queued and not acknowledged]
  free,     \* segments left in the pool
  write,    \* [Conn -> the write in flight: offset, length, bytesQueued]
  op,       \* [Conn -> [Op -> where that operation stands]]
  writable, \* [Conn -> "open", "closed" or "errored"]
  failed,   \* connections for which tcp_output has failed
  disposed  \* the bindings are disposed

lwipVars == <<pcb, wire, inflight, free>>
vars == <<lwipVars, write, op, writable, failed, disposed>>

Op == {"write", "closeWrite", "close"}
CloseOp == {"closeWrite", "close"}

\* "run": its next continuation is queued; "wait": it holds a waiter.
Stage == {"idle", "run", "wait", "ok", "failed"}

Init ==
  /\ pcb = [c \in Conn |-> "open"]
  /\ wire = [c \in Conn |-> <<>>]
  /\ inflight = [c \in Conn |-> 0]
  /\ free = Segs
  /\ write = [c \in Conn |-> [off |-> 0, len |-> 0, bytesQueued |-> 0]]
  /\ op = [c \in Conn |-> [o \in Op |-> "idle"]]
  /\ writable = [c \in Conn |-> "open"]
  /\ failed = {}
  /\ disposed = FALSE

Smaller(a, b) == IF a < b THEN a ELSE b

-----------------------------------------------------------------------------
(* Writes                                                                   *)

\* Where send_tcp_chunk reads from: dataPtr + bytesQueued.
FromStart(w) == w.off          \* mutant: dataPtr
From(w) == w.off + w.bytesQueued

Finished(w) == w.bytesQueued = w.len

\* tcp_sndbuf
Room(c) == SndBuf - inflight[c]

\* send_tcp_chunk takes n segments' worth, and says so or (tcp_output failed)
\* says 0 although the data is queued.
Take(c, w, n, said) ==
  /\ wire' = [wire EXCEPT ![c] = @ \o [i \in 1 .. n |-> From(w) + i - 1]]
  /\ inflight' = [inflight EXCEPT ![c] = @ + n]
  /\ free' = free - n
  /\ LET w2 == [w EXCEPT !.bytesQueued = @ + said]
     IN  /\ write' = [write EXCEPT ![c] = w2]
         /\ op' = [op EXCEPT ![c]["write"] = IF Finished(w2) THEN "ok" ELSE "wait"]

\* One turn of the loop of send(), up to the next wait.
Send(c, w) ==
  LET n == Smaller(w.len - w.bytesQueued, Room(c))
  IN  \/ /\ pcb[c] = "open" /\ Room(c) > 0 /\ n <= free
         /\ \/ Take(c, w, n, n) /\ UNCHANGED failed
            \/ /\ c \in OutputFails \ failed
               /\ Take(c, w, n, 0)
               /\ failed' = failed \cup {c}
      \/ /\ pcb[c] # "open" \/ Room(c) = 0 \/ n > free   \* 0, ERR_CONN or ERR_MEM
         /\ write' = [write EXCEPT ![c] = w]
         /\ op' = [op EXCEPT ![c]["write"] = "wait"]
         /\ UNCHANGED <<wire, inflight, free, failed>>

\* The writable calls its sink's write() once the previous one has settled.
StartWrite(c, len) ==
  /\ ~disposed /\ writable[c] = "open"
  /\ op[c]["write"] \in {"idle", "ok"} /\ op[c]["closeWrite"] = "idle"
  /\ write[c].off + write[c].len + len <= MaxUnits
  /\ Send(c, [off |-> write[c].off + write[c].len, len |-> len, bytesQueued |-> 0])
  /\ UNCHANGED <<pcb, writable, disposed>>

\* The exports are gone after dispose(): the continuation throws.
ResumeWrite(c) ==
  /\ op[c]["write"] = "run"
  /\ IF disposed
       THEN /\ op' = [op EXCEPT ![c]["write"] = "failed"]
            /\ UNCHANGED <<wire, inflight, free, write, failed>>
       ELSE Send(c, write[c])
  /\ UNCHANGED <<pcb, writable, disposed>>

-----------------------------------------------------------------------------
(* close() and the writable's close                                         *)

\* Called by the writable when its writes have settled, or by the application.
StartClose(c, o) ==
  /\ ~disposed /\ op[c][o] = "idle"
  /\ o = "closeWrite" => writable[c] = "open" /\ op[c]["write"] \in {"idle", "ok"}
  /\ op' = [op EXCEPT ![c][o] = "run"]
  /\ writable' = IF o = "closeWrite" THEN [writable EXCEPT ![c] = "closed"] ELSE writable
  /\ UNCHANGED <<lwipVars, write, failed, disposed>>

Settle(c, o, stage) ==
  /\ op' = [op EXCEPT ![c][o] = stage]
  /\ writable' = IF o = "close" /\ stage = "ok" THEN [writable EXCEPT ![c] = "errored"]
                 ELSE writable

\* Mutant: ERR_MEM is taken for success.
OutOfSegmentsIgnored(c, o) == Settle(c, o, "ok")

\* ERR_MEM: wait for an acknowledgement, then try again.
OutOfSegments(c, o) ==
  /\ op' = [op EXCEPT ![c][o] = "wait"]
  /\ UNCHANGED writable

\* One turn of #closeConnection / #closeConnectionWrite.  A FIN needs a
\* segment.  close() resets a connection with unread data, and its block is
\* freed; closing the write side twice is an error.
TryClose(c, o) ==
  /\ op[c][o] = "run"
  /\ \/ /\ disposed
        /\ Settle(c, o, "failed")
        /\ UNCHANGED <<pcb, inflight, free>>
     \/ /\ ~disposed /\ pcb[c] = "open" /\ free = 0
        /\ OutOfSegments(c, o)
        /\ UNCHANGED <<pcb, inflight, free>>
     \/ /\ ~disposed /\ pcb[c] = "open" /\ free > 0
        /\ pcb' = [pcb EXCEPT ![c] = "shut"]
        /\ Settle(c, o, "ok")
        /\ UNCHANGED <<inflight, free>>
     \/ /\ ~disposed /\ pcb[c] = "open" /\ o = "close"
        /\ pcb' = [pcb EXCEPT ![c] = "freed"]
        /\ free' = free + inflight[c]
        /\ inflight' = [inflight EXCEPT ![c] = 0]
        /\ Settle(c, o, "ok")
     \/ /\ ~disposed /\ pcb[c] # "open"
        /\ Settle(c, o, IF o = "close" THEN "ok" ELSE "failed")
        /\ UNCHANGED <<pcb, inflight, free>>
  /\ UNCHANGED <<wire, write, failed, disposed>>

-----------------------------------------------------------------------------
(* Waking and ending                                                        *)

Wake(c, ops) == [op EXCEPT ![c] = [o \in Op |-> IF o \in ops /\ @[o] = "wait" THEN "run" ELSE @[o]]]

\* Mutants: only one of the two maps of waiters is looked at.
SentAcksOnly(c) == op' = Wake(c, {"write"})
SentCloseAcksOnly(c) == op' = Wake(c, CloseOp)

\* sent_tcp_chunk: every waiter of the connection, in both maps.
Sent(c) == op' = Wake(c, Op)

\* The peer acknowledges k segments; lwIP calls sent_callback.
Ack(c, k) ==
  /\ ~disposed /\ pcb[c] # "freed"
  /\ inflight' = [inflight EXCEPT ![c] = @ - k]
  /\ free' = free + k
  /\ Sent(c)
  /\ UNCHANGED <<pcb, wire, write, writable, failed, disposed>>

\* RST or a timeout: lwIP frees the block; no error callback is registered.
Lost(c) ==
  /\ ~disposed /\ pcb[c] # "freed"
  /\ pcb' = [pcb EXCEPT ![c] = "freed"]
  /\ free' = free + inflight[c]
  /\ inflight' = [inflight EXCEPT ![c] = 0]
  /\ UNCHANGED <<wire, write, op, writable, failed, disposed>>

\* The receive side saw the peer's FIN and errors the writable.
ErrorWritable(c) ==
  /\ ~disposed /\ writable[c] = "open"
  /\ writable' = [writable EXCEPT ![c] = "errored"]
  /\ UNCHANGED <<lwipVars, write, op, failed, disposed>>

Rejectable == Op

Dispose ==
  /\ ~disposed
  /\ disposed' = TRUE
  /\ op' = [c \in Conn |-> [o \in Op |->
              IF op[c][o] = "wait" /\ o \in Rejectable THEN "failed" ELSE op[c][o]]]
  /\ writable' = [c \in Conn |-> "errored"]
  /\ UNCHANGED <<lwipVars, write, failed>>

Continue(c) == ResumeWrite(c) \/ \E o \in CloseOp : TryClose(c, o)
Acked(c) == \E k \in 1 .. inflight[c] : Ack(c, k)

Next ==
  \/ \E c \in Conn :
       \/ Continue(c) \/ Acked(c) \/ Lost(c) \/ ErrorWritable(c)
       \/ \E len \in WriteSizes : StartWrite(c, len)
       \/ \E o \in CloseOp : StartClose(c, o)
  \/ Dispose

Spec == Init /\ [][Next]_vars

\* Queued continuations run, and a reachable peer acknowledges what it got.
Fairness == \A c \in Conn : WF_vars(Continue(c)) /\ WF_vars(Acked(c))
FairSpec == Spec /\ Fairness

-----------------------------------------------------------------------------
(* Properties *)

TypeOK ==
  /\ pcb \in [Conn -> {"open", "shut", "freed"}]
  /\ wire \in [Conn -> Seq(Nat)]
  /\ inflight \in [Conn -> 0 .. SndBuf]
  /\ free \in 0 .. Segs
  /\ write \in [Conn -> [off : Nat, len : Nat, bytesQueued : Nat]]
  /\ op \in [Conn -> [Op -> Stage]]
  /\ writable \in [Conn -> {"open", "closed", "errored"}]
  /\ failed \subseteq Conn /\ disposed \in BOOLEAN

\* Beside the types: lwIP is given the bytes of the application's writes once each and in order,
\* however a write is split over acknowledgements (until tcp_output fails:
\* send_tcp_chunk then reports data as not taken that lwIP has queued).
InOrderOnce ==
  /\ TypeOK
  /\ \A c \in Conn \ failed : \A i \in 1 .. Len(wire[c]) : wire[c][i] = i - 1

\* What has resolved is done, across retries after ERR_MEM and dispose(): a write
\* is queued to its last byte, a half-close put its FIN after all data of the
\* writes before it, and a close or half-close closed the write side unless lwIP
\* lost the connection; dispose() leaves nothing waiting.
ResolvedMeansDone ==
  \A c \in Conn :
    /\ op[c]["write"] = "ok" \/ op[c]["closeWrite"] = "ok"
         => \A i \in 0 .. write[c].off + write[c].len - 1 :
              \E j \in 1 .. Len(wire[c]) : wire[c][j] = i
    /\ \A o \in CloseOp : op[c][o] = "ok" => pcb[c] # "open"
    /\ disposed => \A o \in Op : op[c][o] # "wait"

\* An operation that waits on an open connection has data of that connection
\* under way, whose acknowledgement will wake it, however writes, closes and
\* losses share the pool of segments (while the pool has a segment for every
\* place in every send buffer; the connections that find none are starved).
WaitsForAck ==
  \A c \in Conn : \A o \in Op : op[c][o] = "wait" /\ pcb[c] = "open" => inflight[c] > 0

Pending(c, o) == op[c][o] \in {"run", "wait"}

\* Every write, close and half-close settles while the peer acknowledges, unless
\* the write side is closed meanwhile.
OpsSettle == \A c \in Conn : \A o \in Op : Pending(c, o) ~> (~Pending(c, o) \/ pcb[c] # "open")

\* Of that, the writes (``send the remaining chunks as space becomes available'').
WriteSettles == \A c \in Conn : Pending(c, "write") ~> (~Pending(c, "write") \/ pcb[c] # "open")

=============================================================================
