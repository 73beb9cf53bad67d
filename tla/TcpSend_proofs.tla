---------------------------- MODULE TcpSend_proofs --------------------------
(* Proofs of the safety properties of TcpSend, for any connections, any     *)
(* sizes of the send buffer and of lwIP's pool of segments, and any writes. *)
EXTENDS TcpSend, FiniteSetTheorems, TLAPS

\* The segments lwIP holds, as pairs of a connection and a place in its
\* buffer: their number is defined without a sum over the connections.
Held == {x \in Conn \X (1 .. SndBuf) : x[2] <= inflight[x[1]]}

\* No segment of the pool is lost, and none is handed out twice.
SegmentsConserved == IsFiniteSet(Held) /\ Cardinality(Held) + free = Segs

WriteStages ==
  \A c \in Conn :
    /\ write[c].bytesQueued <= write[c].len
    /\ op[c]["write"] = "idle" => write[c].len = 0
    /\ op[c]["write"] = "ok" => write[c].bytesQueued = write[c].len
    /\ op[c]["closeWrite"] # "idle" => op[c]["write"] \in {"idle", "ok"}

\* Where the bytes that send() counts as queued end.
Queued(c) == write[c].off + write[c].bytesQueued

\* What send() counts as queued was given to lwIP, and nothing else was while
\* tcp_output has not failed.
QueuedIsOnWire ==
  \A c \in Conn :
    /\ \A i \in 0 .. Queued(c) - 1 : \E j \in 1 .. Len(wire[c]) : wire[c][j] = i
    /\ c \notin failed => Len(wire[c]) = Queued(c)

ClosedIsClosed ==
  /\ \A c \in Conn : \A o \in CloseOp : op[c][o] = "ok" => pcb[c] # "open"
  /\ disposed => \A c \in Conn : \A o \in Op : op[c][o] # "wait"

IInv ==
  /\ InOrderOnce /\ SegmentsConserved /\ WriteStages /\ QueuedIsOnWire /\ ClosedIsClosed

-----------------------------------------------------------------------------
(* The pool of segments *)

Places(c, a, n) == {c} \X (a + 1 .. a + n)

LEMMA PlacesCounted ==
  ASSUME NEW c, NEW a \in Nat, NEW n \in Nat
  PROVE  IsFiniteSet(Places(c, a, n)) /\ Cardinality(Places(c, a, n)) = n
<1> DEFINE f == [i \in 1 .. n |-> <<c, a + i>>]
<1>1. f \in Bijection(1 .. n, Places(c, a, n))
  <2>1. f \in [1 .. n -> Places(c, a, n)]
    BY DEF Places
  <2>2. \A i, j \in 1 .. n : f[i] = f[j] => i = j
    OBVIOUS
  <2>3. ASSUME NEW x \in Places(c, a, n) PROVE \E i \in 1 .. n : f[i] = x
    <3>1. PICK m \in a + 1 .. a + n : x = <<c, m>>
      BY DEF Places
    <3>2. m - a \in 1 .. n /\ f[m - a] = x
      BY <3>1
    <3> QED BY <3>2
  <2> HIDE DEF f
  <2>4. f \in Injection(1 .. n, Places(c, a, n))
    BY <2>1, <2>2 DEF Injection, IsInjective
  <2>5. f \in Surjection(1 .. n, Places(c, a, n))
    BY <2>1, <2>3 DEF Surjection
  <2> QED BY <2>4, <2>5 DEF Bijection
<1>2. ExistsBijection(1 .. n, Places(c, a, n))
  BY <1>1 DEF ExistsBijection
<1>3. IsFiniteSet(1 .. n) /\ Cardinality(1 .. n) = n
  BY FS_Interval
<1> QED BY <1>2, <1>3, FS_Bijection

LEMMA DisjointCounted ==
  ASSUME NEW S, NEW T, IsFiniteSet(S), IsFiniteSet(T), S \cap T = {}
  PROVE  IsFiniteSet(S \cup T) /\ Cardinality(S \cup T) = Cardinality(S) + Cardinality(T)
<1>1. Cardinality({}) = 0 /\ Cardinality(S) \in Nat /\ Cardinality(T) \in Nat
  BY FS_EmptySet, FS_CardinalityType
<1>2. IsFiniteSet(S \cup T)
  BY FS_Union
<1>3. Cardinality(S \cup T) = Cardinality(S) + Cardinality(T) - Cardinality(S \cap T)
  BY FS_Union
<1>4. Cardinality(S \cap T) = 0
  BY <1>1
<1> QED BY <1>1, <1>2, <1>3, <1>4

\* A connection takes d segments, or gives some back when d is negative.
LEMMA SegmentsMove ==
  ASSUME inflight \in [Conn -> 0 .. SndBuf], free \in Int, SegmentsConserved,
         NEW c \in Conn, NEW d \in Int, inflight[c] + d \in 0 .. SndBuf,
         inflight' = [inflight EXCEPT ![c] = inflight[c] + d], free' = free - d
  PROVE  SegmentsConserved' /\ free' <= Segs /\ inflight' \in [Conn -> 0 .. SndBuf]
<1>1. IsFiniteSet(Held) /\ Cardinality(Held) + free = Segs /\ Segs \in Nat /\ SndBuf \in Nat
  BY SendConstants DEF SegmentsConserved
<1>2. Cardinality(Held) \in Nat
  BY <1>1, FS_CardinalityType
<1>3. inflight' \in [Conn -> 0 .. SndBuf]
  OBVIOUS
<1>4. IsFiniteSet(Held') /\ Cardinality(Held') = Cardinality(Held) + d
  <2>1. CASE d >= 0
    <3> DEFINE new == Places(c, inflight[c], d)
    <3>1. IsFiniteSet(new) /\ Cardinality(new) = d
      BY <2>1, PlacesCounted
    <3>2. Held' = Held \cup new /\ Held \cap new = {}
      BY <2>1, <1>1 DEF Held, Places
    <3> HIDE DEF new
    <3> QED BY <1>1, <3>1, <3>2, DisjointCounted
  <2>2. CASE d < 0
    <3> DEFINE old == Places(c, inflight[c] + d, -d)
    <3>1. IsFiniteSet(old) /\ Cardinality(old) = -d
      BY <2>2, PlacesCounted
    <3>2. Held = Held' \cup old /\ Held' \cap old = {}
      BY <2>2, <1>1 DEF Held, Places
    <3> HIDE DEF old
    <3>3. IsFiniteSet(Held')
      BY <1>1, <3>2, FS_Subset
    <3>4. Cardinality(Held') \in Nat
      BY <3>3, FS_CardinalityType
    <3>5. Cardinality(Held) = Cardinality(Held') - d
      BY <3>1, <3>2, <3>3, DisjointCounted
    <3> QED BY <3>3, <3>4, <3>5
  <2> QED BY <2>1, <2>2
<1>5. Cardinality(Held') \in Nat
  BY <1>4, FS_CardinalityType
<1> QED BY <1>1, <1>2, <1>3, <1>4, <1>5 DEF SegmentsConserved

-----------------------------------------------------------------------------
(* Writes *)

Writes == [off : Nat, len : Nat, bytesQueued : Nat]

\* n units go onto the wire of c where the bytes w has queued end.
LEMMA WireGrows ==
  ASSUME NEW q \in Seq(Nat), NEW from \in Nat, NEW n \in Nat,
         \A i \in 0 .. from - 1 : \E j \in 1 .. Len(q) : q[j] = i
  PROVE  LET r == q \o [i \in 1 .. n |-> from + i - 1]
         IN  /\ r \in Seq(Nat) /\ Len(r) = Len(q) + n
             /\ \A i \in 0 .. from + n - 1 : \E j \in 1 .. Len(r) : r[j] = i
             /\ Len(q) = from /\ (\A i \in 1 .. Len(q) : q[i] = i - 1)
                  => \A i \in 1 .. Len(r) : r[i] = i - 1
<1> DEFINE m == [i \in 1 .. n |-> from + i - 1]
           r == q \o m
<1>1. m \in Seq(Nat) /\ Len(m) = n /\ \A i \in 1 .. n : m[i] = from + i - 1
  <2>1. \A i \in 1 .. n : from + i - 1 \in Nat
    OBVIOUS
  <2> QED BY <2>1
<1> HIDE DEF m
<1>2. /\ r \in Seq(Nat) /\ Len(r) = Len(q) + n
      /\ \A i \in 1 .. Len(r) : r[i] = IF i <= Len(q) THEN q[i] ELSE m[i - Len(q)]
  BY <1>1
<1> HIDE DEF r
<1>3. ASSUME NEW i \in 0 .. from + n - 1 PROVE \E j \in 1 .. Len(r) : r[j] = i
  <2>1. CASE i < from
    <3>1. PICK j \in 1 .. Len(q) : q[j] = i
      BY <2>1
    <3>2. j \in 1 .. Len(r) /\ r[j] = q[j]
      BY <1>2, <3>1
    <3> QED BY <3>1, <3>2
  <2>2. CASE i >= from
    <3> DEFINE j == Len(q) + (i - from + 1)
    <3>1. j \in 1 .. Len(r) /\ j > Len(q) /\ j - Len(q) = i - from + 1 /\ i - from + 1 \in 1 .. n
      BY <1>2, <2>2
    <3>2. r[j] = m[i - from + 1]
      BY <1>2, <3>1, SMTT(30)
    <3>3. m[i - from + 1] = i
      BY <1>1, <3>1
    <3> QED BY <3>1, <3>2, <3>3
  <2> QED BY <2>1, <2>2
<1>4. ASSUME Len(q) = from, \A i \in 1 .. Len(q) : q[i] = i - 1, NEW i \in 1 .. Len(r)
      PROVE  r[i] = i - 1
  BY <1>1, <1>2, <1>4
<1> QED BY <1>2, <1>3, <1>4 DEF m, r

\* One turn of the loop of send(), for a new write or for the one that was
\* waiting.
LEMMA SendStep ==
  ASSUME IInv, NEW c \in Conn, NEW w \in Writes, Send(c, w),
         UNCHANGED <<pcb, writable, disposed>>, ~disposed,
         op[c]["closeWrite"] = "idle", w.bytesQueued <= w.len,
         w.off + w.bytesQueued = Queued(c)
  PROVE  IInv'
<1>0. TypeOK /\ SendConstants
  BY SendConstants DEF IInv, InOrderOnce, SendConstants
<1>1. /\ wire[c] \in Seq(Nat) /\ inflight[c] \in 0 .. SndBuf /\ free \in 0 .. Segs
      /\ inflight \in [Conn -> 0 .. SndBuf] /\ SndBuf \in Nat /\ Segs \in Nat
      /\ w.off \in Nat /\ w.len \in Nat /\ w.bytesQueued \in Nat
  BY <1>0 DEF TypeOK, Writes, SendConstants
<1>2. ASSUME NEW stage \in {"ok", "wait"}, op' = [op EXCEPT ![c]["write"] = stage],
             NEW w2 \in Writes, write' = [write EXCEPT ![c] = w2], w2.bytesQueued <= w2.len,
             stage = "ok" => w2.bytesQueued = w2.len
      PROVE  /\ op' \in [Conn -> [Op -> Stage]] /\ WriteStages' /\ ClosedIsClosed'
             /\ write' \in [Conn -> Writes] /\ Queued(c)' = w2.off + w2.bytesQueued
             /\ \A d \in Conn : d # c => Queued(d)' = Queued(d)
  <2>1. op \in [Conn -> [Op -> Stage]] /\ write \in [Conn -> Writes]
    BY <1>0 DEF TypeOK, Writes
  <2>2. op' \in [Conn -> [Op -> Stage]] /\ write' \in [Conn -> Writes]
    BY <1>2, <2>1 DEF Stage, Op
  <2>3. /\ op'[c]["write"] = stage /\ op'[c]["closeWrite"] = op[c]["closeWrite"]
        /\ op'[c]["close"] = op[c]["close"] /\ write'[c] = w2
        /\ \A d \in Conn : d # c => op'[d] = op[d] /\ write'[d] = write[d]
    BY <1>2, <2>1 DEF Op
  <2>4. WriteStages'
    BY <1>2, <2>3 DEF WriteStages, IInv
  <2>5. ClosedIsClosed'
    BY <2>3 DEF ClosedIsClosed, IInv, CloseOp
  <2> QED BY <2>2, <2>3, <2>4, <2>5 DEF Queued
<1>3. ASSUME NEW n \in 0 .. w.len - w.bytesQueued, n <= Room(c), n <= free,
             NEW said \in {0, n}, Take(c, w, n, said),
             failed' = failed \/ failed' = failed \cup {c}, said = n \/ c \in failed',
             c \in failed' => c \in Conn
      PROVE  IInv'
  <2> DEFINE w2 == [w EXCEPT !.bytesQueued = @ + said]
             from == w.off + w.bytesQueued
             r == wire[c] \o [i \in 1 .. n |-> from + i - 1]
  <2>1. w2 \in Writes /\ w2.bytesQueued = w.bytesQueued + said /\ w2.len = w.len /\ w2.off = w.off
        /\ w2.bytesQueued <= w2.len /\ from \in Nat /\ n \in Nat /\ said \in Nat
    BY <1>1, <1>3, SMTT(30) DEF Writes
  <2>2. /\ wire' = [wire EXCEPT ![c] = r] /\ write' = [write EXCEPT ![c] = w2]
        /\ op' = [op EXCEPT ![c]["write"] = IF Finished(w2) THEN "ok" ELSE "wait"]
        /\ inflight' = [inflight EXCEPT ![c] = inflight[c] + n] /\ free' = free - n
    BY <1>3 DEF Take, From
  <2> HIDE DEF w2
  <2>3. /\ op' \in [Conn -> [Op -> Stage]] /\ WriteStages' /\ ClosedIsClosed'
        /\ write' \in [Conn -> Writes] /\ Queued(c)' = from + said
        /\ \A d \in Conn : d # c => Queued(d)' = Queued(d)
    <3>1. /\ op' \in [Conn -> [Op -> Stage]] /\ WriteStages' /\ ClosedIsClosed'
          /\ write' \in [Conn -> Writes] /\ Queued(c)' = w2.off + w2.bytesQueued
          /\ \A d \in Conn : d # c => Queued(d)' = Queued(d)
      BY <1>2, <2>1, <2>2 DEF Finished
    <3> QED BY <1>1, <2>1, <3>1
  <2>4. SegmentsConserved' /\ free' <= Segs /\ inflight' \in [Conn -> 0 .. SndBuf]
    <3>1. inflight[c] + n \in 0 .. SndBuf
      BY <1>1, <1>3 DEF Room
    <3>2. n \in Int /\ free \in Int /\ SegmentsConserved
      BY <1>1, <2>1 DEF IInv
    <3> HIDE DEF from, r
    <3> QED BY <1>1, <2>2, <3>1, <3>2, SegmentsMove
  <2>5. /\ r \in Seq(Nat) /\ Len(r) = Len(wire[c]) + n
        /\ \A i \in 0 .. from + n - 1 : \E j \in 1 .. Len(r) : r[j] = i
        /\ Len(wire[c]) = from /\ (\A i \in 1 .. Len(wire[c]) : wire[c][i] = i - 1)
             => \A i \in 1 .. Len(r) : r[i] = i - 1
    <3>1. \A i \in 0 .. from - 1 : \E j \in 1 .. Len(wire[c]) : wire[c][j] = i
      <4>1. from = Queued(c)
        OBVIOUS
      <4> HIDE DEF from
      <4> QED BY <4>1 DEF IInv, QueuedIsOnWire
    <3> HIDE DEF from
    <3> QED BY <1>1, <2>1, <3>1, WireGrows
  <2>6. c \notin failed => Len(wire[c]) = from /\ \A i \in 1 .. Len(wire[c]) : wire[c][i] = i - 1
    BY DEF IInv, QueuedIsOnWire, InOrderOnce
  <2> HIDE DEF r
  <2>7. /\ wire' \in [Conn -> Seq(Nat)] /\ wire'[c] = r
        /\ \A d \in Conn : d # c => wire'[d] = wire[d]
    BY <1>0, <2>2, <2>5 DEF TypeOK
  <2>8. QueuedIsOnWire'
    <3>1. ASSUME NEW d \in Conn, d # c, NEW i \in 0 .. Queued(d)' - 1
          PROVE  \E j \in 1 .. Len(wire'[d]) : wire'[d][j] = i
      <4>1. Queued(d)' = Queued(d) /\ wire'[d] = wire[d]
        BY <2>3, <2>7, <3>1
      <4>2. i \in 0 .. Queued(d) - 1
        BY <3>1, <4>1
      <4> QED BY <4>1, <4>2 DEF IInv, QueuedIsOnWire
    <3>2. ASSUME NEW d \in Conn, d # c, d \notin failed'
          PROVE  Len(wire'[d]) = Queued(d)'
      BY <1>3, <2>3, <2>7, <3>2 DEF IInv, QueuedIsOnWire
    <3>3. ASSUME NEW i \in 0 .. Queued(c)' - 1
          PROVE  \E j \in 1 .. Len(wire'[c]) : wire'[c][j] = i
      <4>1. i \in 0 .. from + n - 1
        BY <1>3, <2>1, <2>3
      <4> QED BY <2>5, <2>7, <4>1
    <3>4. ASSUME c \notin failed'
          PROVE  Len(wire'[c]) = Queued(c)'
      <4>1. said = n /\ c \notin failed
        BY <1>3, <3>4
      <4> QED BY <2>3, <2>5, <2>6, <2>7, <4>1
    <3> HIDE DEF from
    <3> QED BY <3>1, <3>2, <3>3, <3>4 DEF QueuedIsOnWire
  <2>9. TypeOK'
    <3>1. free' \in 0 .. Segs
      BY <1>1, <1>3, <2>1, <2>2, <2>4
    <3> QED BY <1>0, <1>3, <2>3, <2>4, <2>7, <3>1 DEF TypeOK, Writes
  <2>10. ASSUME NEW d \in Conn \ failed', NEW i \in 1 .. Len(wire'[d])
         PROVE  wire'[d][i] = i - 1
    <3>1. d \notin failed /\ d \in Conn
      BY <1>3, <2>10
    <3>2. CASE d = c
      BY <2>5, <2>6, <2>7, <2>10, <3>1, <3>2
    <3>3. CASE d # c
      BY <2>7, <2>10, <3>1, <3>3 DEF IInv, InOrderOnce
    <3> QED BY <3>2, <3>3
  <2> QED BY <2>3, <2>4, <2>8, <2>9, <2>10 DEF IInv, InOrderOnce
<1>4. ASSUME write' = [write EXCEPT ![c] = w], op' = [op EXCEPT ![c]["write"] = "wait"],
             UNCHANGED <<wire, inflight, free, failed>>
      PROVE  IInv'
  <2>1. /\ op' \in [Conn -> [Op -> Stage]] /\ WriteStages' /\ ClosedIsClosed'
        /\ write' \in [Conn -> Writes] /\ Queued(c)' = w.off + w.bytesQueued
        /\ \A d \in Conn : d # c => Queued(d)' = Queued(d)
    BY <1>2, <1>4
  <2>2. TypeOK'
    BY <1>0, <1>4, <2>1 DEF TypeOK, Writes
  <2>3. SegmentsConserved'
    BY <1>4 DEF IInv, SegmentsConserved, Held
  <2>4. \A d \in Conn : Queued(d)' = Queued(d)
    BY <2>1
  <2>5. QueuedIsOnWire'
    BY <1>4, <2>4 DEF IInv, QueuedIsOnWire
  <2> QED BY <1>4, <2>1, <2>2, <2>3, <2>5 DEF IInv, InOrderOnce
<1>5. ASSUME pcb[c] = "open", Room(c) > 0, NEW n, n = Smaller(w.len - w.bytesQueued, Room(c)),
             n <= free, \/ Take(c, w, n, n) /\ UNCHANGED failed
                        \/ /\ c \in OutputFails \ failed
                           /\ Take(c, w, n, 0)
                           /\ failed' = failed \cup {c}
      PROVE  IInv'
  <2>1. n \in 0 .. w.len - w.bytesQueued /\ n <= Room(c)
    BY <1>1, <1>5 DEF Smaller, Room
  <2> QED BY <1>3, <1>5, <2>1
<1> QED BY <1>4, <1>5 DEF Send

-----------------------------------------------------------------------------
(* The other steps *)

\* A step in which operations only wake up, wait again or fail, and lwIP only
\* moves segments and frees blocks.
LEMMA OpStep ==
  ASSUME IInv, op' \in [Conn -> [Op -> Stage]],
         \A c \in Conn, o \in Op :
           \/ op'[c][o] = op[c][o]
           \/ op[c][o] \in {"run", "wait"} /\ op'[c][o] \in {"run", "wait", "failed"},
         disposed' \in BOOLEAN,
         disposed' => \A c \in Conn, o \in Op : op'[c][o] # "wait",
         pcb' \in [Conn -> {"open", "shut", "freed"}],
         \A c \in Conn : pcb[c] # "open" => pcb'[c] # "open",
         writable' \in [Conn -> {"open", "closed", "errored"}],
         SegmentsConserved', inflight' \in [Conn -> 0 .. SndBuf], free' \in 0 .. Segs,
         UNCHANGED <<wire, write, failed>>
  PROVE  IInv'
<1>1. TypeOK'
  BY DEF IInv, InOrderOnce, TypeOK
<1>2. WriteStages'
  BY DEF IInv, WriteStages, Op
<1>3. QueuedIsOnWire'
  BY DEF IInv, QueuedIsOnWire, Queued
<1>4. ClosedIsClosed'
  BY DEF IInv, ClosedIsClosed, CloseOp, Op
<1>5. InOrderOnce'
  <2>1. wire' = wire /\ failed' = failed
    OBVIOUS
  <2>2. \A c \in Conn \ failed : \A i \in 1 .. Len(wire[c]) : wire[c][i] = i - 1
    BY DEF IInv, InOrderOnce
  <2>3. ASSUME NEW c \in Conn \ failed', NEW i \in 1 .. Len(wire'[c])
        PROVE  wire'[c][i] = i - 1
    <3>1. c \in Conn \ failed /\ i \in 1 .. Len(wire[c])
      BY <2>1, <2>3
    <3> QED BY <2>1, <2>2, <3>1
  <2> QED BY <1>1, <2>3 DEF InOrderOnce
<1> QED BY <1>2, <1>3, <1>4, <1>5 DEF IInv

LEMMA Freed ==
  ASSUME IInv, NEW c \in Conn, inflight' = [inflight EXCEPT ![c] = 0], free' = free + inflight[c]
  PROVE  SegmentsConserved' /\ inflight' \in [Conn -> 0 .. SndBuf] /\ free' \in 0 .. Segs
<1>1. /\ inflight \in [Conn -> 0 .. SndBuf] /\ free \in 0 .. Segs /\ SegmentsConserved
      /\ SndBuf \in Nat /\ Segs \in Nat
  BY SendConstants DEF IInv, InOrderOnce, TypeOK
<1>0. free \in Int
  BY <1>1
<1> DEFINE d == -inflight[c]
<1>2. inflight[c] \in 0 .. SndBuf
  BY <1>1
<1>3. d \in Int /\ inflight[c] + d = 0 /\ 0 \in 0 .. SndBuf
  BY <1>1, <1>2
<1>4. free' = free - d /\ free' \in Int /\ free' >= 0
  BY <1>1, <1>2
<1>5. inflight' = [inflight EXCEPT ![c] = inflight[c] + d]
  BY <1>3
<1> HIDE DEF d
<1>6. SegmentsConserved' /\ free' <= Segs /\ inflight' \in [Conn -> 0 .. SndBuf]
  BY <1>0, <1>1, <1>3, <1>4, <1>5, SegmentsMove
<1> QED BY <1>1, <1>4, <1>6

LEMMA Inductive == IInv /\ [Next]_vars => IInv'
<1> SUFFICES ASSUME IInv, [Next]_vars PROVE IInv'
  OBVIOUS
<1>0. TypeOK /\ SegmentsConserved
  BY DEF IInv, InOrderOnce
<1>1. ASSUME NEW c \in Conn, ResumeWrite(c) PROVE IInv'
  <2>1. CASE disposed
    <3>1. op' = [op EXCEPT ![c]["write"] = "failed"] /\ op[c]["write"] = "run"
          /\ UNCHANGED <<wire, inflight, free, write, failed, pcb, writable, disposed>>
      BY <1>1, <2>1 DEF ResumeWrite
    <3>2. op' \in [Conn -> [Op -> Stage]]
          /\ \A d \in Conn, o \in Op : op'[d][o] = IF d = c /\ o = "write" THEN "failed" ELSE op[d][o]
      BY <1>0, <3>1 DEF TypeOK, Op, Stage
    <3>3. \A d \in Conn, o \in Op : op'[d][o] # "wait"
      BY <2>1, <3>2 DEF IInv, ClosedIsClosed
    <3>4. SegmentsConserved'
      BY <1>0, <3>1 DEF SegmentsConserved, Held
    <3> QED BY <1>0, <3>1, <3>2, <3>3, <3>4, OpStep DEF TypeOK
  <2>2. CASE ~disposed
    <3>1. write[c] \in Writes /\ write[c].bytesQueued <= write[c].len /\ op[c]["closeWrite"] = "idle"
      BY <1>0, <1>1 DEF TypeOK, Writes, IInv, WriteStages, ResumeWrite
    <3> QED BY <1>1, <2>2, <3>1, SendStep DEF ResumeWrite, Queued
  <2> QED BY <2>1, <2>2
<1>2. ASSUME NEW c \in Conn, NEW o \in CloseOp, TryClose(c, o) PROVE IInv'
  <2>1. /\ op \in [Conn -> [Op -> Stage]] /\ op[c][o] = "run" /\ o \in Op /\ o # "write"
        /\ pcb \in [Conn -> {"open", "shut", "freed"}]
        /\ writable \in [Conn -> {"open", "closed", "errored"}]
        /\ UNCHANGED <<wire, write, failed, disposed>>
    BY <1>0, <1>2 DEF TypeOK, TryClose, CloseOp, Op
  <2>2. ASSUME NEW stage \in {"ok", "failed"}, Settle(c, o, stage),
               pcb' \in [Conn -> {"open", "shut", "freed"}],
               \A d \in Conn : pcb[d] # "open" => pcb'[d] # "open",
               stage = "ok" => pcb'[c] # "open",
               SegmentsConserved', inflight' \in [Conn -> 0 .. SndBuf], free' \in 0 .. Segs
        PROVE  IInv'
    <3>1. /\ op' \in [Conn -> [Op -> Stage]]
          /\ \A d \in Conn, q \in Op : op'[d][q] = IF d = c /\ q = o THEN stage ELSE op[d][q]
      BY <2>1, <2>2 DEF Settle, Stage
    <3>2. writable' \in [Conn -> {"open", "closed", "errored"}]
      BY <2>1, <2>2 DEF Settle
    <3>3. TypeOK'
      BY <1>0, <2>1, <2>2, <3>1, <3>2 DEF TypeOK
    <3>4. WriteStages'
      BY <2>1, <3>1 DEF IInv, WriteStages, Op
    <3>5. QueuedIsOnWire'
      BY <2>1 DEF IInv, QueuedIsOnWire, Queued
    <3>6. ClosedIsClosed'
      <4>1. ASSUME NEW d \in Conn, NEW q \in CloseOp, op'[d][q] = "ok" PROVE pcb'[d] # "open"
        <5>1. q \in Op
          BY DEF CloseOp, Op
        <5> QED BY <2>2, <3>1, <4>1, <5>1 DEF IInv, ClosedIsClosed
      <4>2. disposed' => \A d \in Conn, q \in Op : op'[d][q] # "wait"
        BY <2>1, <3>1 DEF IInv, ClosedIsClosed
      <4> QED BY <4>1, <4>2 DEF ClosedIsClosed
    <3>7. InOrderOnce'
      BY <2>1, <3>3 DEF IInv, InOrderOnce
    <3> QED BY <2>2, <3>4, <3>5, <3>6, <3>7 DEF IInv
  <2>3. ASSUME UNCHANGED <<inflight, free>>
        PROVE  SegmentsConserved' /\ inflight' \in [Conn -> 0 .. SndBuf] /\ free' \in 0 .. Segs
    BY <1>0, <2>3 DEF SegmentsConserved, Held, TypeOK
  <2>4. CASE Settle(c, o, "failed") /\ UNCHANGED <<pcb, inflight, free>>
    BY <2>1, <2>2, <2>3, <2>4
  <2>5. CASE ~disposed /\ OutOfSegments(c, o) /\ UNCHANGED <<pcb, inflight, free>>
    <3>1. /\ op' \in [Conn -> [Op -> Stage]]
          /\ \A d \in Conn, q \in Op : op'[d][q] = IF d = c /\ q = o THEN "wait" ELSE op[d][q]
      BY <2>1, <2>5 DEF OutOfSegments, Stage
    <3>2. /\ pcb' = pcb /\ writable' = writable /\ disposed' = FALSE
          /\ SegmentsConserved' /\ inflight' \in [Conn -> 0 .. SndBuf] /\ free' \in 0 .. Segs
      BY <2>1, <2>3, <2>5 DEF OutOfSegments
    <3>3. \A d \in Conn, q \in Op :
            \/ op'[d][q] = op[d][q]
            \/ op[d][q] \in {"run", "wait"} /\ op'[d][q] \in {"run", "wait", "failed"}
      BY <2>1, <3>1
    <3>4. UNCHANGED <<wire, write, failed>> /\ disposed' \in BOOLEAN
      BY <2>1, <3>2
    <3> QED BY <2>1, <3>1, <3>2, <3>3, <3>4, OpStep
  <2>6. CASE pcb' = [pcb EXCEPT ![c] = "shut"] /\ Settle(c, o, "ok") /\ UNCHANGED <<inflight, free>>
    <3>1. pcb' \in [Conn -> {"open", "shut", "freed"}]
          /\ \A d \in Conn : pcb'[d] = IF d = c THEN "shut" ELSE pcb[d]
      BY <2>1, <2>6
    <3> QED BY <2>2, <2>3, <2>6, <3>1
  <2>7. CASE /\ pcb' = [pcb EXCEPT ![c] = "freed"] /\ Settle(c, o, "ok")
             /\ free' = free + inflight[c] /\ inflight' = [inflight EXCEPT ![c] = 0]
    <3>1. pcb' \in [Conn -> {"open", "shut", "freed"}]
          /\ \A d \in Conn : pcb'[d] = IF d = c THEN "freed" ELSE pcb[d]
      BY <2>1, <2>7
    <3> QED BY <2>2, <2>7, <3>1, Freed
  <2>8. CASE /\ pcb[c] # "open" /\ Settle(c, o, IF o = "close" THEN "ok" ELSE "failed")
             /\ UNCHANGED <<pcb, inflight, free>>
    BY <2>1, <2>2, <2>3, <2>8
  <2> QED BY <1>2, <2>4, <2>5, <2>6, <2>7, <2>8 DEF TryClose
<1>3. ASSUME NEW c \in Conn, NEW k \in 1 .. inflight[c], Ack(c, k) PROVE IInv'
  <2>1. /\ op' \in [Conn -> [Op -> Stage]]
        /\ \A d \in Conn, o \in Op :
             op'[d][o] = IF d = c /\ op[d][o] = "wait" THEN "run" ELSE op[d][o]
    BY <1>0, <1>3 DEF Ack, Sent, Wake, TypeOK, Stage
  <2>2. SegmentsConserved' /\ inflight' \in [Conn -> 0 .. SndBuf] /\ free' \in 0 .. Segs
    <3>1. /\ inflight \in [Conn -> 0 .. SndBuf] /\ free \in 0 .. Segs
          /\ SndBuf \in Nat /\ Segs \in Nat
      BY <1>0, SendConstants DEF TypeOK
    <3> DEFINE d == -k
    <3>0. free \in Int
      BY <3>1
    <3>2. inflight[c] \in 0 .. SndBuf /\ k \in Int /\ k <= inflight[c] /\ k >= 1
      BY <3>1
    <3>3. /\ free' = free + k /\ inflight' = [inflight EXCEPT ![c] = inflight[c] - k]
      BY <1>3 DEF Ack
    <3>4. d \in Int /\ inflight[c] + d \in 0 .. SndBuf /\ inflight[c] + d = inflight[c] - k
      BY <3>1, <3>2
    <3>5. free' = free - d /\ free' \in Int /\ free' >= 0
      BY <3>1, <3>2, <3>3
    <3>6. inflight' = [inflight EXCEPT ![c] = inflight[c] + d]
      BY <3>3, <3>4
    <3> HIDE DEF d
    <3>7. SegmentsConserved' /\ free' <= Segs /\ inflight' \in [Conn -> 0 .. SndBuf]
      BY <1>0, <3>0, <3>1, <3>4, <3>5, <3>6, SegmentsMove
    <3> QED BY <3>1, <3>5, <3>7
  <2> QED BY <1>0, <1>3, <2>1, <2>2, OpStep DEF Ack, TypeOK
<1>4. ASSUME NEW c \in Conn, Lost(c) PROVE IInv'
  <2>1. pcb' \in [Conn -> {"open", "shut", "freed"}]
        /\ \A d \in Conn : pcb'[d] = IF d = c THEN "freed" ELSE pcb[d]
    BY <1>0, <1>4 DEF TypeOK, Lost
  <2> QED BY <1>0, <1>4, <2>1, Freed, OpStep DEF Lost, TypeOK
<1>5. ASSUME NEW c \in Conn, ErrorWritable(c) PROVE IInv'
  <2>1. SegmentsConserved'
    BY <1>0, <1>5 DEF ErrorWritable, lwipVars, SegmentsConserved, Held
  <2> QED BY <1>0, <1>5, <2>1, OpStep DEF ErrorWritable, lwipVars, TypeOK
<1>6. ASSUME NEW c \in Conn, NEW len \in WriteSizes, StartWrite(c, len) PROVE IInv'
  <2> DEFINE w == [off |-> write[c].off + write[c].len, len |-> len, bytesQueued |-> 0]
  <2>1. /\ write[c].off \in Nat /\ write[c].len \in Nat /\ write[c].bytesQueued \in Nat
        /\ len \in Nat
    BY <1>0, SendConstants DEF TypeOK
  <2>2. write[c].bytesQueued = write[c].len
    BY <1>6, <2>1 DEF IInv, WriteStages, StartWrite
  <2>3. w \in Writes /\ w.bytesQueued <= w.len /\ w.off + w.bytesQueued = Queued(c)
    BY <2>1, <2>2 DEF Writes, Queued
  <2>4. Send(c, w) /\ ~disposed /\ op[c]["closeWrite"] = "idle"
        /\ UNCHANGED <<pcb, writable, disposed>>
    BY <1>6 DEF StartWrite
  <2> HIDE DEF w
  <2> QED BY <2>3, <2>4, SendStep
<1>7. ASSUME NEW c \in Conn, NEW o \in CloseOp, StartClose(c, o) PROVE IInv'
  <2>1. /\ op' \in [Conn -> [Op -> Stage]]
        /\ \A d \in Conn, q \in Op : op'[d][q] = IF d = c /\ q = o THEN "run" ELSE op[d][q]
    BY <1>0, <1>7 DEF StartClose, TypeOK, Stage, CloseOp, Op
  <2>2. UNCHANGED <<lwipVars, write, failed, disposed>> /\ ~disposed
        /\ (o = "closeWrite" => op[c]["write"] \in {"idle", "ok"})
    BY <1>7 DEF StartClose
  <2>3. writable' \in [Conn -> {"open", "closed", "errored"}]
    BY <1>0, <1>7 DEF StartClose, TypeOK
  <2>4. TypeOK'
    BY <1>0, <2>1, <2>2, <2>3 DEF TypeOK, lwipVars
  <2>5. WriteStages'
    BY <2>1, <2>2 DEF IInv, WriteStages, CloseOp, Op
  <2>6. QueuedIsOnWire' /\ SegmentsConserved'
    BY <2>2 DEF IInv, QueuedIsOnWire, Queued, lwipVars, SegmentsConserved, Held
  <2>7. ClosedIsClosed'
    BY <2>1, <2>2 DEF IInv, ClosedIsClosed, lwipVars, CloseOp, Op
  <2>8. InOrderOnce'
    BY <2>2, <2>4 DEF IInv, InOrderOnce, lwipVars
  <2> QED BY <2>5, <2>6, <2>7, <2>8 DEF IInv
<1>8. ASSUME Dispose PROVE IInv'
  <2>1. /\ op' \in [Conn -> [Op -> Stage]]
        /\ \A d \in Conn, o \in Op : op'[d][o] = IF op[d][o] = "wait" THEN "failed" ELSE op[d][o]
    BY <1>0, <1>8 DEF Dispose, Rejectable, TypeOK, Stage
  <2>2. SegmentsConserved'
    BY <1>0, <1>8 DEF Dispose, lwipVars, SegmentsConserved, Held
  <2> QED BY <1>0, <1>8, <2>1, <2>2, OpStep DEF Dispose, lwipVars, TypeOK
<1>9. ASSUME UNCHANGED vars PROVE IInv'
  BY <1>9 DEF vars, lwipVars, IInv, InOrderOnce, TypeOK, SegmentsConserved, Held, WriteStages,
              QueuedIsOnWire, Queued, ClosedIsClosed
<1> QED BY <1>1, <1>2, <1>3, <1>4, <1>5, <1>6, <1>7, <1>8, <1>9 DEF Next, Continue, Acked

LEMMA Initially == Init => IInv
<1> SUFFICES ASSUME Init PROVE IInv
  OBVIOUS
<1>1. TypeOK
  <2>1. op \in [Conn -> [Op -> Stage]]
    BY DEF Init, Stage
  <2>2. write \in [Conn -> [off : Nat, len : Nat, bytesQueued : Nat]]
    BY DEF Init
  <2>3. wire \in [Conn -> Seq(Nat)]
    BY DEF Init
  <2>4. inflight \in [Conn -> 0 .. SndBuf] /\ free \in 0 .. Segs
    BY SendConstants DEF Init
  <2> QED BY <2>1, <2>2, <2>3, <2>4 DEF Init, TypeOK
<1>2. SegmentsConserved
  <2>1. Held = {}
    BY DEF Init, Held
  <2> QED BY <2>1, FS_EmptySet, SendConstants DEF Init, SegmentsConserved
<1>3. QueuedIsOnWire /\ InOrderOnce
  BY <1>1 DEF Init, QueuedIsOnWire, Queued, InOrderOnce
<1>4. WriteStages /\ ClosedIsClosed
  BY DEF Init, WriteStages, ClosedIsClosed, Op, CloseOp
<1> QED BY <1>2, <1>3, <1>4 DEF IInv

\* lwIP gets the bytes of the writes of a connection once each and in order,
\* while tcp_output has not failed for it (tcp.ts:508-560, tcp.c:17-44).
THEOREM BytesInOrderOnce == Spec => []InOrderOnce
<1>1. IInv => InOrderOnce
  BY DEF IInv
<1> QED BY <1>1, Initially, Inductive, PTL DEF Spec

\* What has resolved is done: a write is queued to its last byte, a close has
\* closed, and dispose() leaves nothing waiting (tcp.ts:508-690).
THEOREM ResolvedIsDone == Spec => []ResolvedMeansDone
<1>1. ASSUME IInv PROVE ResolvedMeansDone
  <2>1. ASSUME NEW c \in Conn, op[c]["write"] = "ok" \/ op[c]["closeWrite"] = "ok",
               NEW i \in 0 .. write[c].off + write[c].len - 1
        PROVE  \E j \in 1 .. Len(wire[c]) : wire[c][j] = i
    <3>1. write[c].bytesQueued \in Nat /\ write[c].len \in Nat
      BY <1>1 DEF IInv, InOrderOnce, TypeOK
    <3>2. op[c]["write"] \in {"idle", "ok"}
      BY <1>1, <2>1 DEF IInv, WriteStages
    <3>3. write[c].bytesQueued = write[c].len
      BY <1>1, <3>1, <3>2 DEF IInv, WriteStages
    <3>4. i \in 0 .. Queued(c) - 1
      <4>1. Queued(c) = write[c].off + write[c].len /\ write[c].off \in Nat
        BY <1>1, <3>3 DEF Queued, IInv, InOrderOnce, TypeOK
      <4> QED BY <3>1, <4>1
    <3> QED BY <1>1, <3>4 DEF IInv, QueuedIsOnWire
  <2> QED BY <1>1, <2>1 DEF IInv, ClosedIsClosed, ResolvedMeansDone
<1> QED BY <1>1, Initially, Inductive, PTL DEF Spec

\* lwIP's pool of segments never leaks and is never overdrawn, however
\* connections share it, fail and are freed (tcp.ts:508-690; MEMP_NUM_TCP_SEG).
THEOREM PoolConserved == Spec => []SegmentsConserved
<1>1. IInv => SegmentsConserved
  BY DEF IInv
<1> QED BY <1>1, Initially, Inductive, PTL DEF Spec

-----------------------------------------------------------------------------
(* Nobody waits in vain *)

\* The pool has a segment for every place in every send buffer.
Ample == IsFiniteSet(Conn) /\ Segs >= SndBuf * Cardinality(Conn)

\* A write that goes on or waits has data left.
Unfinished ==
  \A c \in Conn : op[c]["write"] \in {"run", "wait"} => write[c].bytesQueued < write[c].len

LEMMA RoomIsFree ==
  ASSUME Ample, IInv, NEW c \in Conn
  PROVE  Room(c) \in Nat /\ Room(c) <= free /\ (free = 0 => inflight[c] > 0)
<1> DEFINE new == Places(c, inflight[c], Room(c))
           all == Conn \X (1 .. SndBuf)
<1>1. /\ inflight[c] \in 0 .. SndBuf /\ free \in 0 .. Segs /\ SndBuf \in Nat \ {0}
      /\ Segs \in Nat /\ IsFiniteSet(Held) /\ Cardinality(Held) + free = Segs
  BY SendConstants DEF IInv, InOrderOnce, TypeOK, SegmentsConserved
<1>2. inflight[c] \in Nat /\ Room(c) \in Nat /\ inflight[c] + Room(c) = SndBuf
  BY <1>1 DEF Room
<1>3. IsFiniteSet(new) /\ Cardinality(new) = Room(c)
  BY <1>2, PlacesCounted
<1>4. Held \cap new = {} /\ Held \cup new \in SUBSET all
  BY <1>1, <1>2 DEF Held, Places
<1>5. IsFiniteSet(all) /\ Cardinality(all) = Cardinality(Conn) * SndBuf
  <2>1. IsFiniteSet(1 .. SndBuf) /\ Cardinality(1 .. SndBuf) = SndBuf
    BY <1>1, FS_Interval
  <2> QED BY <2>1, FS_Product DEF Ample
<1> HIDE DEF new, all
<1>6. Cardinality(Held \cup new) = Cardinality(Held) + Room(c)
  BY <1>1, <1>3, <1>4, DisjointCounted
<1>7. Cardinality(Held) + Room(c) <= Cardinality(all)
  BY <1>4, <1>5, <1>6, FS_Subset
<1>8. Cardinality(all) <= Segs
  <2>1. Cardinality(Conn) \in Nat
    BY FS_CardinalityType DEF Ample
  <2> QED BY <1>1, <1>5, <2>1 DEF Ample
<1>9. Cardinality(Held) \in Nat /\ Cardinality(all) \in Nat
  BY <1>1, <1>5, FS_CardinalityType
<1> QED BY <1>1, <1>2, <1>7, <1>8, <1>9

\* A turn of send() that has to wait has filled the send buffer, or put
\* something into it that tcp_output did not report.
LEMMA SendWaits ==
  ASSUME Ample, IInv, Unfinished, WaitsForAck, NEW c \in Conn, NEW w \in Writes,
         w.bytesQueued < w.len, Send(c, w), UNCHANGED pcb
  PROVE  Unfinished' /\ WaitsForAck'
<1>1. /\ op \in [Conn -> [Op -> Stage]] /\ write \in [Conn -> Writes]
      /\ inflight \in [Conn -> 0 .. SndBuf] /\ SndBuf \in Nat \ {0}
  BY SendConstants DEF IInv, InOrderOnce, TypeOK, Writes
<1>2. inflight[c] \in Nat /\ w.bytesQueued \in Nat /\ w.len \in Nat
  BY <1>1 DEF Writes
<1>3. Room(c) \in Nat /\ Room(c) <= free /\ free \in Nat
  <2>1. free \in 0 .. Segs /\ Segs \in Nat
    BY SendConstants DEF IInv, InOrderOnce, TypeOK
  <2> QED BY <2>1, RoomIsFree
\* What follows from where the write stands afterwards.
<1>4. ASSUME NEW stage \in {"ok", "wait"}, op' = [op EXCEPT ![c]["write"] = stage],
             NEW w2 \in Writes, write' = [write EXCEPT ![c] = w2],
             stage = "wait" => w2.bytesQueued < w2.len,
             NEW n \in Nat, inflight' = [inflight EXCEPT ![c] = inflight[c] + n],
             stage = "wait" /\ pcb[c] = "open" => inflight[c] + n > 0
      PROVE  Unfinished' /\ WaitsForAck'
  <2>1. /\ op'[c]["write"] = stage /\ write'[c] = w2 /\ inflight'[c] = inflight[c] + n
        /\ \A o \in Op : o # "write" => op'[c][o] = op[c][o]
        /\ \A d \in Conn : d # c => /\ op'[d] = op[d] /\ write'[d] = write[d]
                                    /\ inflight'[d] = inflight[d]
    BY <1>1, <1>4 DEF Op
  <2>2. Unfinished'
    BY <1>4, <2>1 DEF Unfinished
  <2>3. ASSUME NEW d \in Conn, NEW o \in Op, op'[d][o] = "wait", pcb'[d] = "open"
        PROVE  inflight'[d] > 0
    <3>1. CASE d # c
      BY <2>1, <2>3, <3>1 DEF WaitsForAck
    <3>2. CASE d = c /\ o = "write"
      BY <1>4, <2>1, <2>3, <3>2
    <3>3. CASE d = c /\ o # "write"
      <4>1. inflight[c] > 0
        BY <2>1, <2>3, <3>3 DEF WaitsForAck
      <4> QED BY <1>2, <1>4, <2>1, <3>3, <4>1
    <3> QED BY <3>1, <3>2, <3>3
  <2> QED BY <2>2, <2>3 DEF WaitsForAck
<1>5. PICK n : n = Smaller(w.len - w.bytesQueued, Room(c))
  OBVIOUS
<1>6. n \in Nat /\ n <= Room(c) /\ n <= w.len - w.bytesQueued /\ (Room(c) > 0 => n > 0)
  BY <1>2, <1>3, <1>5 DEF Smaller
<1>7. ASSUME Room(c) > 0, NEW said \in {0, n}, Take(c, w, n, said)
      PROVE  Unfinished' /\ WaitsForAck'
  <2>1. PICK w2 : w2 = [w EXCEPT !.bytesQueued = @ + said]
    OBVIOUS
  <2>2. w2 \in Writes /\ w2.bytesQueued = w.bytesQueued + said /\ w2.len = w.len
    BY <1>2, <1>6, <2>1, SMTT(30) DEF Writes
  <2>3. /\ write' = [write EXCEPT ![c] = w2]
        /\ op' = [op EXCEPT ![c]["write"] = IF Finished(w2) THEN "ok" ELSE "wait"]
        /\ inflight' = [inflight EXCEPT ![c] = inflight[c] + n]
    BY <1>7, <2>1 DEF Take
  <2>4. inflight[c] + n > 0
    BY <1>2, <1>6, <1>7
  <2>5. ~Finished(w2) => w2.bytesQueued < w2.len
    <3>1. w.bytesQueued + said <= w.len /\ w.bytesQueued + said \in Nat
      BY <1>2, <1>6
    <3> QED BY <1>2, <2>2, <3>1 DEF Finished
  <2>6. PICK stage \in {"ok", "wait"} : stage = IF Finished(w2) THEN "ok" ELSE "wait"
    OBVIOUS
  <2>7. op' = [op EXCEPT ![c]["write"] = stage] /\ (stage = "wait" => w2.bytesQueued < w2.len)
    BY <2>3, <2>5, <2>6
  <2> QED BY <1>4, <1>6, <2>2, <2>3, <2>4, <2>7
<1>8. ASSUME pcb[c] # "open" \/ Room(c) = 0 \/ n > free, write' = [write EXCEPT ![c] = w],
             op' = [op EXCEPT ![c]["write"] = "wait"], UNCHANGED inflight
      PROVE  Unfinished' /\ WaitsForAck'
  <2>1. ~(n > free)
    BY <1>3, <1>6
  <2>2. pcb[c] = "open" => inflight[c] + 0 > 0
    BY <1>1, <1>2, <1>8, <2>1 DEF Room
  <2>3. inflight' = [inflight EXCEPT ![c] = inflight[c] + 0]
    BY <1>1, <1>2, <1>8
  <2> QED BY <1>4, <1>8, <2>2, <2>3
<1>9. \/ Room(c) > 0 /\ (Take(c, w, n, n) \/ Take(c, w, n, 0))
      \/ /\ pcb[c] # "open" \/ Room(c) = 0 \/ n > free
         /\ write' = [write EXCEPT ![c] = w]
         /\ op' = [op EXCEPT ![c]["write"] = "wait"] /\ UNCHANGED inflight
  BY <1>5 DEF Send
<1> QED BY <1>7, <1>8, <1>9

\* The other steps: who waits afterwards waited before, and has as much in
\* flight, or nothing is left in the pool.
LEMMA WaitKept ==
  ASSUME Ample, IInv, Unfinished, WaitsForAck, UNCHANGED write,
         \A c \in Conn : op'[c]["write"] \in {"run", "wait"} => op[c]["write"] \in {"run", "wait"},
         \A c \in Conn, o \in Op : op'[c][o] = "wait" /\ pcb'[c] = "open" =>
           /\ pcb[c] = "open" /\ inflight'[c] = inflight[c]
           /\ op[c][o] = "wait" \/ free = 0
  PROVE  Unfinished' /\ WaitsForAck'
<1>1. Unfinished'
  BY DEF Unfinished
<1>2. ASSUME NEW c \in Conn, NEW o \in Op, op'[c][o] = "wait", pcb'[c] = "open"
      PROVE  inflight'[c] > 0
  <2>1. inflight[c] > 0
    BY <1>2, RoomIsFree DEF WaitsForAck
  <2> QED BY <1>2, <2>1
<1> QED BY <1>1, <1>2 DEF WaitsForAck

LEMMA WaitInductive ==
  Ample /\ IInv /\ Unfinished /\ WaitsForAck /\ [Next]_vars => Unfinished' /\ WaitsForAck'
<1> SUFFICES ASSUME Ample, IInv, Unfinished, WaitsForAck, [Next]_vars
             PROVE  Unfinished' /\ WaitsForAck'
  OBVIOUS
<1>0. /\ op \in [Conn -> [Op -> Stage]] /\ write \in [Conn -> Writes]
      /\ inflight \in [Conn -> 0 .. SndBuf] /\ pcb \in [Conn -> {"open", "shut", "freed"}]
  BY DEF IInv, InOrderOnce, TypeOK, Writes
<1>1. ASSUME NEW c \in Conn, ResumeWrite(c) PROVE Unfinished' /\ WaitsForAck'
  <2>1. op[c]["write"] = "run" /\ UNCHANGED pcb
    BY <1>1 DEF ResumeWrite
  <2>2. CASE disposed
    <3>1. op' = [op EXCEPT ![c]["write"] = "failed"] /\ UNCHANGED <<inflight, write>>
      BY <1>1, <2>2 DEF ResumeWrite
    <3>2. \A d \in Conn, o \in Op : op'[d][o] = IF d = c /\ o = "write" THEN "failed" ELSE op[d][o]
      BY <1>0, <3>1 DEF Op
    <3>3. "write" \in Op
      BY DEF Op
    <3> QED BY <2>1, <3>1, <3>2, <3>3, WaitKept
  <2>3. CASE ~disposed
    <3>1. Send(c, write[c]) /\ write[c] \in Writes /\ write[c].bytesQueued < write[c].len
      BY <1>0, <1>1, <2>1, <2>3 DEF ResumeWrite, Unfinished
    <3> QED BY <2>1, <3>1, SendWaits
  <2> QED BY <2>2, <2>3
<1>2. ASSUME NEW c \in Conn, NEW len \in WriteSizes, StartWrite(c, len)
      PROVE  Unfinished' /\ WaitsForAck'
  <2>1. PICK w : w = [off |-> write[c].off + write[c].len, len |-> len, bytesQueued |-> 0]
    OBVIOUS
  <2>2. /\ write[c].off \in Nat /\ write[c].len \in Nat /\ len \in Nat /\ len > 0
    BY <1>0, SendConstants DEF Writes
  <2>3. w \in Writes /\ w.bytesQueued < w.len
    BY <2>1, <2>2 DEF Writes
  <2>4. Send(c, w) /\ UNCHANGED pcb
    BY <1>2, <2>1 DEF StartWrite
  <2> QED BY <2>3, <2>4, SendWaits
<1>3. ASSUME NEW c \in Conn, NEW o \in CloseOp, TryClose(c, o)
      PROVE  Unfinished' /\ WaitsForAck'
  <2>1. o \in Op /\ o # "write" /\ "write" \in Op /\ UNCHANGED write
    BY <1>3 DEF TryClose, CloseOp, Op
  <2>2. ASSUME NEW stage \in {"ok", "failed", "wait"}, op' = [op EXCEPT ![c][o] = stage],
               \A d \in Conn : pcb'[d] = "open" => pcb[d] = "open" /\ inflight'[d] = inflight[d],
               stage = "wait" => free = 0
        PROVE  Unfinished' /\ WaitsForAck'
    <3>1. \A d \in Conn, q \in Op : op'[d][q] = IF d = c /\ q = o THEN stage ELSE op[d][q]
      BY <1>0, <2>1, <2>2
    <3> QED BY <2>1, <2>2, <3>1, WaitKept
  <2>3. CASE \E stage \in {"ok", "failed"} : Settle(c, o, stage) /\ UNCHANGED <<pcb, inflight>>
    BY <2>2, <2>3 DEF Settle
  <2>4. CASE free = 0 /\ OutOfSegments(c, o) /\ UNCHANGED <<pcb, inflight>>
    BY <2>2, <2>4 DEF OutOfSegments
  <2>5. CASE pcb' = [pcb EXCEPT ![c] = "shut"] /\ Settle(c, o, "ok") /\ UNCHANGED inflight
    BY <1>0, <2>2, <2>5 DEF Settle
  <2>6. CASE /\ pcb' = [pcb EXCEPT ![c] = "freed"] /\ Settle(c, o, "ok")
             /\ inflight' = [inflight EXCEPT ![c] = 0]
    BY <1>0, <2>2, <2>6 DEF Settle
  <2> QED BY <1>3, <2>3, <2>4, <2>5, <2>6 DEF TryClose
<1>4. ASSUME NEW c \in Conn, NEW k \in 1 .. inflight[c], Ack(c, k)
      PROVE  Unfinished' /\ WaitsForAck'
  <2>1. \A d \in Conn, o \in Op :
          op'[d][o] = IF d = c /\ op[d][o] = "wait" THEN "run" ELSE op[d][o]
    BY <1>0, <1>4 DEF Ack, Sent, Wake
  <2>2. /\ UNCHANGED <<pcb, write>> /\ "write" \in Op
        /\ \A d \in Conn : d # c => inflight'[d] = inflight[d]
    BY <1>0, <1>4 DEF Ack, Op
  <2> QED BY <2>1, <2>2, WaitKept
<1>5. ASSUME NEW c \in Conn, Lost(c) PROVE Unfinished' /\ WaitsForAck'
  <2>1. /\ UNCHANGED <<write, op>>
        /\ \A d \in Conn : pcb'[d] = "open" => pcb[d] = "open" /\ inflight'[d] = inflight[d]
    BY <1>0, <1>5 DEF Lost
  <2> QED BY <2>1, WaitKept
<1>6. ASSUME NEW c \in Conn, NEW o \in CloseOp, StartClose(c, o)
      PROVE  Unfinished' /\ WaitsForAck'
  <2>1. /\ UNCHANGED <<pcb, inflight, write>> /\ op' = [op EXCEPT ![c][o] = "run"]
        /\ o \in Op /\ o # "write" /\ "write" \in Op
    BY <1>6 DEF StartClose, lwipVars, CloseOp, Op
  <2>2. \A d \in Conn, q \in Op : op'[d][q] = IF d = c /\ q = o THEN "run" ELSE op[d][q]
    BY <1>0, <2>1
  <2> QED BY <2>1, <2>2, WaitKept
<1>7. ASSUME Dispose PROVE Unfinished' /\ WaitsForAck'
  <2>1. /\ UNCHANGED <<pcb, inflight, write>> /\ "write" \in Op
        /\ \A d \in Conn, o \in Op : op'[d][o] = IF op[d][o] = "wait" THEN "failed" ELSE op[d][o]
    BY <1>7 DEF Dispose, lwipVars, Rejectable, Op
  <2> QED BY <2>1, WaitKept
<1>8. ASSUME (\E c \in Conn : ErrorWritable(c)) \/ UNCHANGED vars PROVE Unfinished' /\ WaitsForAck'
  <2>1. UNCHANGED <<pcb, inflight, write, op>>
    BY <1>8 DEF ErrorWritable, lwipVars, vars
  <2> QED BY <2>1, WaitKept
<1> QED BY <1>1, <1>2, <1>3, <1>4, <1>5, <1>6, <1>7, <1>8 DEF Next, Continue, Acked

\* With segments enough for every send buffer no write and no close of an open
\* connection waits without data of its own under way, whose acknowledgement
\* wakes it: the pool of lwipopts.h, which is smaller, is what starves them
\* (tcp.ts:508-690).
THEOREM NobodyStarves ==
  IsFiniteSet(Conn) /\ Segs >= SndBuf * Cardinality(Conn) => (Spec => []WaitsForAck)
<1> SUFFICES ASSUME Ample PROVE Spec => []WaitsForAck
  BY DEF Ample
<1>1. Init => Unfinished /\ WaitsForAck
  BY DEF Init, Unfinished, WaitsForAck, Op
<1>2. IInv /\ Unfinished /\ WaitsForAck /\ [Next]_vars => Unfinished' /\ WaitsForAck'
  BY WaitInductive
<1> QED BY <1>1, <1>2, Initially, Inductive, PTL DEF Spec

=============================================================================
