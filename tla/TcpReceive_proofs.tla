-------------------------- MODULE TcpReceive_proofs -------------------------
(* Proofs of the safety properties of TcpReceive, for any window, high water *)
(* mark, chunk sizes and number of bytes.                                    *)
EXTENDS TcpReceive, SequenceTheorems, TLAPS

\* #enqueueBuffer nests only inside a pull(), and an activation that has not
\* reached its loop has moved nothing.
Nesting ==
  /\ Len(frames) = 2 => pulling
  /\ \A i \in 1 .. Len(frames) : frames[i].at = "enter" => frames[i].bytes = 0

\* The FIN is the last thing lwIP hands over; the stream ends after it, when
\* nothing is left to deliver; and a read waits only while there is nothing to read.
Ending ==
  /\ \A i \in 1 .. Len(tasks) : tasks[i].kind = "fin" => finArrived /\ i = Len(tasks)
  /\ remoteClosed => finArrived /\ tasks = <<>>
  /\ stream \in {"closing", "closed"} => remoteClosed /\ receiveBuffer = <<>>
  /\ stream = "closed" => queue = <<>>
  /\ disposed => readableClosed
  /\ readableClosed => stream # "readable"
  /\ pendingRead => queue = <<>> /\ stream = "readable"

\* The pieces of s are n bytes long together: f says what is left from each place on.
TotalIs(s, n) ==
  \E f \in [1 .. Len(s) + 1 -> Nat] :
    /\ f[Len(s) + 1] = 0
    /\ \A i \in 1 .. Len(s) : f[i] = f[i + 1] + s[i].len
    /\ n = f[1]

\* The stream's count of its queue is right.
Sizes == TotalIs(queue, queued)

\* Bytes moved by the activations on a stack, which Nesting keeps to two.
Bytes(stack) ==
  IF Len(stack) = 0 THEN 0
  ELSE IF Len(stack) = 1 THEN stack[1].bytes ELSE stack[1].bytes + stack[2].bytes

\* InOrder and WindowConserved, with a name for each place.
Whole == ~cut /\ stream \in {"readable", "closing", "closed"}
Delivered == End(queue, readPos)
Buffered == End(receiveBuffer, Delivered)
InLine ==
  /\ Follows(queue, readPos)
  /\ Follows(receiveBuffer, Delivered)
  /\ Follows(tasks, Buffered)
  /\ End(tasks, Buffered) = arrived
Conserved == window + Bytes(frames) + (arrived - Delivered) = Wnd

\* Every piece on its way ends within what has arrived.
Below(s, top) == \A i \in 1 .. Len(s) : s[i].off + s[i].len <= top
Behind ==
  /\ readPos <= arrived
  /\ Below(queue, arrived) /\ Below(receiveBuffer, arrived) /\ Below(tasks, arrived)

IInv ==
  /\ TypeOK /\ Nesting /\ Ending /\ Sizes /\ Behind
  /\ Whole => InLine
  /\ Whole /\ pcb = "open" => Conserved

-----------------------------------------------------------------------------
(* Pieces of the byte stream *)

Pieces(S) == \A x \in S : x.off \in Nat /\ x.len \in Nat

LEMMA PieceTypes == Pieces(Chunk) /\ Pieces(Task)
BY DEF Pieces, Chunk, Task

LEMMA EndType ==
  ASSUME NEW S, Pieces(S), NEW s \in Seq(S), NEW p \in Nat
  PROVE  End(s, p) \in Nat
<1>1. CASE s = <<>>
  BY <1>1 DEF End
<1>2. CASE s # <<>>
  <2>1. s[Len(s)] \in S
    BY <1>2
  <2> QED BY <1>2, <2>1 DEF End, Pieces
<1> QED BY <1>1, <1>2

\* A piece that starts where the sequence ends continues it.
LEMMA AppendFollows ==
  ASSUME NEW S, NEW s \in Seq(S), NEW x \in S, NEW p
  PROVE  /\ End(Append(s, x), p) = x.off + x.len
         /\ Follows(s, p) /\ x.off = End(s, p) => Follows(Append(s, x), p)
<1>1. /\ Append(s, x) # <<>> /\ Len(Append(s, x)) = Len(s) + 1 /\ Len(s) \in Nat
      /\ Append(s, x)[Len(s) + 1] = x
      /\ \A i \in 1 .. Len(s) : Append(s, x)[i] = s[i]
  OBVIOUS
<1>2. End(Append(s, x), p) = x.off + x.len
  BY <1>1 DEF End
<1>3. ASSUME Follows(s, p), x.off = End(s, p) PROVE Follows(Append(s, x), p)
  <2> SUFFICES ASSUME NEW i \in 1 .. Len(s) + 1
               PROVE  Append(s, x)[i].off = IF i = 1 THEN p
                        ELSE Append(s, x)[i - 1].off + Append(s, x)[i - 1].len
    BY <1>1 DEF Follows
  <2>1. CASE i \in 1 .. Len(s)
    <3>1. i # 1 => i - 1 \in 1 .. Len(s)
      BY <1>1, <2>1
    <3> QED BY <1>1, <1>3, <2>1, <3>1 DEF Follows
  <2>2. CASE i = Len(s) + 1 /\ s = <<>>
    BY <1>1, <1>3, <2>2 DEF End
  <2>3. CASE i = Len(s) + 1 /\ s # <<>>
    <3>1. i - 1 = Len(s) /\ Len(s) \in 1 .. Len(s) /\ i # 1
      BY <2>3
    <3> QED BY <1>1, <1>3, <2>3, <3>1 DEF End
  <2> QED BY <1>1, <2>1, <2>2, <2>3
<1> QED BY <1>2, <1>3

\* Without its first piece, the sequence goes on where that piece ended.
LEMMA TailFollows ==
  ASSUME NEW S, NEW s \in Seq(S), s # <<>>, NEW p
  PROVE  /\ Head(s) \in S /\ Head(s) = s[1] /\ Tail(s) \in Seq(S)
         /\ End(Tail(s), Head(s).off + Head(s).len) = End(s, p)
         /\ Follows(s, p) => Head(s).off = p /\ Follows(Tail(s), Head(s).off + Head(s).len)
<1>1. /\ Head(s) \in S /\ Head(s) = s[1] /\ Tail(s) \in Seq(S) /\ Len(Tail(s)) = Len(s) - 1
      /\ Len(s) \in Nat /\ Len(s) # 0 /\ 1 \in 1 .. Len(s)
      /\ \A i \in 1 .. Len(Tail(s)) : Tail(s)[i] = s[i + 1]
      /\ Len(Tail(s)) \in Nat /\ (Tail(s) = <<>> <=> Len(Tail(s)) = 0)
  <2>1. /\ Head(s) \in S /\ Tail(s) \in Seq(S) /\ Len(Tail(s)) = Len(s) - 1
        /\ \A i \in 1 .. Len(Tail(s)) : Tail(s)[i] = s[i + 1]
    BY HeadTailProperties
  <2>2. Head(s) = s[1]
    OBVIOUS
  <2>3. Len(s) \in Nat /\ Len(s) # 0 /\ Len(Tail(s)) \in Nat
    BY <2>1, EmptySeq, LenProperties
  <2>4. Tail(s) = <<>> <=> Len(Tail(s)) = 0
    BY <2>1, EmptySeq
  <2>5. 1 \in 1 .. Len(s)
    BY <2>3
  <2> QED BY <2>1, <2>2, <2>3, <2>4, <2>5
<1>2. End(Tail(s), Head(s).off + Head(s).len) = End(s, p)
  <2>1. CASE Len(s) = 1
    BY <1>1, <2>1 DEF End
  <2>2. CASE Len(s) # 1
    <3>1. Len(Tail(s)) \in 1 .. Len(Tail(s)) /\ Tail(s)[Len(Tail(s))] = s[Len(s)]
      BY <1>1, <2>2
    <3> QED BY <1>1, <2>2, <3>1 DEF End
  <2> QED BY <2>1, <2>2
<1>3. ASSUME Follows(s, p)
      PROVE  Head(s).off = p /\ Follows(Tail(s), Head(s).off + Head(s).len)
  <2>1. Head(s).off = p
    BY <1>1, <1>3 DEF Follows
  <2>2. ASSUME NEW i \in 1 .. Len(Tail(s))
        PROVE  Tail(s)[i].off = IF i = 1 THEN Head(s).off + Head(s).len
                 ELSE Tail(s)[i - 1].off + Tail(s)[i - 1].len
    <3>1. i + 1 \in 1 .. Len(s) /\ i + 1 # 1 /\ (i + 1) - 1 = i /\ Tail(s)[i] = s[i + 1]
      BY <1>1
    <3>2. s[i + 1].off = s[i].off + s[i].len
      BY <1>3, <3>1 DEF Follows
    <3>3. CASE i = 1
      BY <1>1, <3>1, <3>2, <3>3
    <3>4. CASE i # 1
      <4>1. i - 1 \in 1 .. Len(Tail(s)) /\ Tail(s)[i - 1] = s[i]
        BY <1>1, <3>4
      <4> QED BY <3>1, <3>2, <3>4, <4>1
    <3> QED BY <3>3, <3>4
  <2> QED BY <2>1, <2>2 DEF Follows
<1> QED BY <1>1, <1>2, <1>3

LEMMA BelowTop ==
  ASSUME NEW S, Pieces(S), NEW s \in Seq(S), NEW top \in Nat, Below(s, top)
  PROVE  /\ \A p : p <= top => End(s, p) <= top
         /\ s # <<>> => Below(Tail(s), top) /\ Head(s).off + Head(s).len <= top
         /\ \A x \in S : x.off + x.len <= top => Below(Append(s, x), top)
         /\ \A more \in Nat : top <= more => Below(s, more)
<1>1. \A p : p <= top => End(s, p) <= top
  <2>1. s # <<>> => Len(s) \in 1 .. Len(s)
    OBVIOUS
  <2> QED BY <2>1 DEF End, Below
<1>2. ASSUME s # <<>> PROVE Below(Tail(s), top) /\ Head(s).off + Head(s).len <= top
  <2>1. PICK rest : rest = Tail(s)
    OBVIOUS
  <2>2. /\ Len(rest) = Len(s) - 1 /\ Len(s) \in Nat /\ Len(s) # 0
        /\ \A i \in 1 .. Len(rest) : rest[i] = s[i + 1]
    BY <1>2, <2>1, HeadTailProperties, EmptySeq, LenProperties
  <2>3. \A i \in 1 .. Len(rest) : i + 1 \in 1 .. Len(s)
    BY <2>2
  <2>4. Below(rest, top)
    BY <2>2, <2>3 DEF Below
  <2>5. Head(s) = s[1] /\ 1 \in 1 .. Len(s)
    BY <1>2, <2>2
  <2> QED BY <2>1, <2>4, <2>5 DEF Below
<1>3. ASSUME NEW x \in S, x.off + x.len <= top PROVE Below(Append(s, x), top)
  <2>1. /\ Len(Append(s, x)) = Len(s) + 1 /\ Len(s) \in Nat /\ Append(s, x)[Len(s) + 1] = x
        /\ \A i \in 1 .. Len(s) : Append(s, x)[i] = s[i]
    OBVIOUS
  <2>2. \A i \in 1 .. Len(s) + 1 : i \in 1 .. Len(s) \/ i = Len(s) + 1
    BY <2>1
  <2> QED BY <1>3, <2>1, <2>2 DEF Below
<1>4. ASSUME NEW more \in Nat, top <= more PROVE Below(s, more)
  <2>1. ASSUME NEW i \in 1 .. Len(s) PROVE s[i].off + s[i].len <= more
    <3>1. s[i] \in S /\ s[i].off + s[i].len <= top
      BY DEF Below
    <3>2. s[i].off \in Nat /\ s[i].len \in Nat
      BY <3>1 DEF Pieces
    <3> QED BY <1>4, <3>1, <3>2
  <2> QED BY <2>1 DEF Below
<1> QED BY <1>1, <1>2, <1>3, <1>4

LEMMA NothingTotal == TotalIs(<<>>, 0)
<1>1. PICK f : f = [i \in {1} |-> 0]
  OBVIOUS
<1>2. /\ f \in [1 .. Len(<<>>) + 1 -> Nat] /\ f[Len(<<>>) + 1] = 0 /\ 0 = f[1]
      /\ 1 .. Len(<<>>) = {}
  BY <1>1
<1> QED BY <1>2 DEF TotalIs

LEMMA AppendTotal ==
  ASSUME NEW S, NEW s \in Seq(S), NEW x \in S, Pieces(S), NEW n \in Nat, TotalIs(s, n)
  PROVE  TotalIs(Append(s, x), n + x.len)
<1>1. PICK f \in [1 .. Len(s) + 1 -> Nat] :
        /\ f[Len(s) + 1] = 0
        /\ \A i \in 1 .. Len(s) : f[i] = f[i + 1] + s[i].len
        /\ n = f[1]
  BY DEF TotalIs
<1>2. PICK t : t = Append(s, x)
  OBVIOUS
<1>3. /\ Len(s) \in Nat /\ Len(t) = Len(s) + 1 /\ t[Len(s) + 1] = x
      /\ \A i \in 1 .. Len(s) : t[i] = s[i]
  BY <1>2
<1>4. PICK g : g = [i \in 1 .. Len(t) + 1 |-> IF i = Len(t) + 1 THEN 0 ELSE f[i] + x.len]
  OBVIOUS
<1>5. /\ \A i \in 1 .. Len(s) + 1 : i \in 1 .. Len(t) + 1 /\ i # Len(t) + 1
      /\ Len(t) + 1 \in 1 .. Len(t) + 1 /\ 1 \in 1 .. Len(s) + 1
      /\ \A i \in 1 .. Len(s) : i \in 1 .. Len(s) + 1 /\ i + 1 \in 1 .. Len(s) + 1
      /\ Len(s) + 1 \in 1 .. Len(s) + 1
  BY <1>3
<1>6. g[Len(t) + 1] = 0 /\ \A i \in 1 .. Len(s) + 1 : g[i] = f[i] + x.len
  BY <1>4, <1>5
<1>7. g \in [1 .. Len(t) + 1 -> Nat]
  <2>1. ASSUME NEW i \in 1 .. Len(t) + 1, i # Len(t) + 1 PROVE f[i] + x.len \in Nat
    <3>1. i \in 1 .. Len(s) + 1
      BY <1>3, <2>1
    <3>2. f[i] \in Nat /\ x.len \in Nat
      BY <1>1, <3>1 DEF Pieces
    <3> QED BY <3>2
  <2> QED BY <1>4, <2>1
<1>8. ASSUME NEW i \in 1 .. Len(t) PROVE g[i] = g[i + 1] + t[i].len
  <2>1. CASE i \in 1 .. Len(s)
    <3>1. g[i] = f[i] + x.len /\ g[i + 1] = f[i + 1] + x.len /\ t[i] = s[i]
      BY <1>3, <1>5, <1>6, <2>1
    <3>2. f[i] = f[i + 1] + s[i].len /\ f[i + 1] \in Nat /\ s[i].len \in Nat
      BY <1>1, <1>5, <2>1, ElementOfSeq DEF Pieces
    <3>3. x.len \in Nat
      BY DEF Pieces
    <3> QED BY <3>1, <3>2, <3>3
  <2>2. CASE i = Len(s) + 1
    <3>1. g[i] = f[i] + x.len /\ f[i] = 0 /\ t[i] = x /\ g[i + 1] = 0
      BY <1>1, <1>3, <1>5, <1>6, <2>2
    <3> QED BY <3>1
  <2> QED BY <1>3, <2>1, <2>2
<1>9. g[1] = n + x.len
  BY <1>1, <1>5, <1>6
<1>10. TotalIs(t, n + x.len)
  BY <1>6, <1>7, <1>8, <1>9 DEF TotalIs
<1> QED BY <1>2, <1>10

LEMMA TailTotal ==
  ASSUME NEW S, NEW s \in Seq(S), s # <<>>, Pieces(S), NEW n \in Nat, TotalIs(s, n)
  PROVE  n - Head(s).len \in Nat /\ TotalIs(Tail(s), n - Head(s).len)
<1>1. PICK f \in [1 .. Len(s) + 1 -> Nat] :
        /\ f[Len(s) + 1] = 0
        /\ \A i \in 1 .. Len(s) : f[i] = f[i + 1] + s[i].len
        /\ n = f[1]
  BY DEF TotalIs
<1>2. PICK t, x : t = Tail(s) /\ x = Head(s)
  OBVIOUS
<1>3. /\ Len(s) \in Nat /\ Len(s) # 0 /\ Len(t) = Len(s) - 1 /\ x \in S /\ x = s[1]
      /\ \A i \in 1 .. Len(t) : t[i] = s[i + 1]
  <2>1. Len(s) \in Nat /\ Len(s) # 0
    BY EmptySeq, LenProperties
  <2>2. /\ x \in S /\ Len(t) = Len(s) - 1
        /\ \A i \in 1 .. Len(t) : t[i] = s[i + 1]
    BY <1>2, HeadTailProperties
  <2>3. x = s[1]
    BY <1>2
  <2> QED BY <2>1, <2>2, <2>3
<1>4. x.len \in Nat
  BY <1>3 DEF Pieces
<1>5. PICK g : g = [i \in 1 .. Len(t) + 1 |-> f[i + 1]]
  OBVIOUS
<1>6. /\ \A i \in 1 .. Len(t) + 1 : i + 1 \in 1 .. Len(s) + 1
      /\ \A i \in 1 .. Len(t) : i + 1 \in 1 .. Len(s) /\ i \in 1 .. Len(t) + 1 /\ i + 1 \in 1 .. Len(t) + 1
      /\ 1 \in 1 .. Len(s) /\ 1 \in 1 .. Len(t) + 1 /\ Len(t) + 1 \in 1 .. Len(t) + 1
      /\ (Len(t) + 1) + 1 = Len(s) + 1
  BY <1>3
<1>7. g \in [1 .. Len(t) + 1 -> Nat] /\ g[Len(t) + 1] = 0 /\ g[1] = f[1 + 1]
  BY <1>1, <1>5, <1>6
<1>8. \A i \in 1 .. Len(t) : g[i] = g[i + 1] + t[i].len
  BY <1>1, <1>3, <1>5, <1>6
<1>9. n = f[1 + 1] + x.len /\ f[1 + 1] \in Nat
  BY <1>1, <1>3, <1>6
<1>10. n - x.len = g[1] /\ n - x.len \in Nat
  BY <1>4, <1>7, <1>9
<1>11. TotalIs(t, n - x.len)
  BY <1>7, <1>8, <1>10 DEF TotalIs
<1> QED BY <1>2, <1>10, <1>11

-----------------------------------------------------------------------------
(* The call stack of #enqueueBuffer *)

LEMMA UpToTwo ==
  ASSUME NEW n \in Nat, n <= 2
  PROVE  n \in {0, 1, 2} /\ (n # 2 => n <= 1)
OBVIOUS

LEMMA BytesOfStack ==
  ASSUME NEW stack \in Seq(Frame), Len(stack) <= 2
  PROVE  /\ Len(stack) \in Nat /\ (stack = <<>> <=> Len(stack) = 0) /\ Bytes(stack) \in Nat
         /\ stack # <<>> => /\ Bytes(stack) = Head(stack).bytes + Bytes(Tail(stack))
                            /\ Tail(stack) \in Seq(Frame) /\ Len(Tail(stack)) = Len(stack) - 1
                            /\ Bytes(Tail(stack)) \in Nat
                            /\ Head(stack) \in Frame /\ Head(stack).bytes \in Nat
                            /\ Head(stack) = stack[1]
                            /\ \A i \in 1 .. Len(Tail(stack)) :
                                 i + 1 \in 1 .. Len(stack) /\ Tail(stack)[i] = stack[i + 1]
<1>1. Len(stack) \in Nat /\ (stack = <<>> <=> Len(stack) = 0)
  BY LenProperties, EmptySeq
<1>2. \A f \in Frame : f.bytes \in Nat
  BY DEF Frame
<1>3. \A i \in 1 .. Len(stack) : stack[i] \in Frame /\ stack[i].bytes \in Nat
  BY <1>2, ElementOfSeq
<1>4. CASE Len(stack) = 0
  BY <1>1, <1>4 DEF Bytes
<1>5. CASE Len(stack) # 0
  <2>1. PICK first, rest : first = Head(stack) /\ rest = Tail(stack)
    OBVIOUS
  <2>2. /\ rest \in Seq(Frame) /\ Len(rest) = Len(stack) - 1 /\ first = stack[1]
        /\ \A i \in 1 .. Len(rest) : rest[i] = stack[i + 1]
    <3>1. /\ rest \in Seq(Frame) /\ Len(rest) = Len(stack) - 1
          /\ \A i \in 1 .. Len(rest) : rest[i] = stack[i + 1]
      BY <1>1, <1>5, <2>1, HeadTailProperties
    <3> QED BY <2>1, <3>1
  <2>3. /\ \A i \in 1 .. Len(rest) : i + 1 \in 1 .. Len(stack) /\ rest[i] = stack[i + 1]
        /\ first \in Frame /\ first.bytes \in Nat
    <3>1. 1 \in 1 .. Len(stack) /\ \A i \in 1 .. Len(rest) : i + 1 \in 1 .. Len(stack)
      BY <1>1, <1>5, <2>2
    <3> QED BY <1>3, <2>2, <3>1
  <2>4. Bytes(stack) = first.bytes + Bytes(rest) /\ Bytes(rest) \in Nat
    <3>1. CASE Len(stack) = 1
      <4>1. Bytes(rest) = 0 /\ Bytes(stack) = first.bytes
        BY <2>2, <3>1 DEF Bytes
      <4> QED BY <2>3, <4>1
    <3>2. CASE Len(stack) = 2
      <4>1. Len(rest) = 1 /\ rest[1] = stack[2] /\ stack[2].bytes \in Nat
        <5>1. 1 \in 1 .. Len(rest) /\ 2 \in 1 .. Len(stack)
          BY <2>2, <3>2
        <5> QED BY <1>3, <2>2, <3>2, <5>1
      <4>2. Bytes(rest) = stack[2].bytes /\ Bytes(stack) = first.bytes + stack[2].bytes
        BY <2>2, <3>2, <4>1 DEF Bytes
      <4> QED BY <4>1, <4>2
    <3>3. Len(stack) \in {0, 1, 2}
      BY <1>1, UpToTwo
    <3> QED BY <1>5, <3>1, <3>2, <3>3
  <2> QED BY <1>1, <1>5, <2>1, <2>2, <2>3, <2>4
<1> QED BY <1>4, <1>5

LEMMA BytesPushed ==
  ASSUME NEW stack \in Seq(Frame), Len(stack) <= 1, NEW f \in Frame
  PROVE  /\ <<f>> \o stack \in Seq(Frame) /\ Len(<<f>> \o stack) <= 2
         /\ Len(<<f>> \o stack) = Len(stack) + 1
         /\ Bytes(<<f>> \o stack) = f.bytes + Bytes(stack)
         /\ (<<f>> \o stack)[1] = f
         /\ \A i \in 1 .. Len(stack) : (<<f>> \o stack)[i + 1] = stack[i]
<1>1. <<f>> \in Seq(Frame) /\ Len(<<f>>) = 1 /\ <<f>>[1] = f
  OBVIOUS
<1>2. PICK s : s = <<f>> \o stack
  OBVIOUS
<1>3. /\ s \in Seq(Frame) /\ Len(s) = 1 + Len(stack) /\ Len(stack) \in Nat
      /\ \A i \in 1 .. 1 + Len(stack) : s[i] = IF i <= 1 THEN <<f>>[i] ELSE stack[i - 1]
  BY <1>1, <1>2, ConcatProperties, LenProperties
<1>4. s[1] = f /\ \A i \in 1 .. Len(stack) : s[i + 1] = stack[i]
  <2>1. s[1] = f
    BY <1>1, <1>3
  <2>2. ASSUME NEW i \in 1 .. Len(stack) PROVE s[i + 1] = stack[i]
    <3>1. i + 1 \in 1 .. 1 + Len(stack) /\ ~(i + 1 <= 1) /\ (i + 1) - 1 = i
      BY <1>3
    <3> QED BY <1>3, <3>1
  <2> QED BY <2>1, <2>2
<1>5. \A x \in Frame : x.bytes \in Nat
  BY DEF Frame
<1>6. Bytes(s) = f.bytes + Bytes(stack)
  <2>1. CASE Len(stack) = 0
    BY <1>3, <1>4, <1>5, <2>1 DEF Bytes
  <2>2. CASE Len(stack) = 1
    <3>1. s[2] = stack[1] /\ Len(s) = 2
      BY <1>3, <1>4, <2>2
    <3> QED BY <1>4, <2>2, <3>1 DEF Bytes
  <2> QED BY <1>3, <2>1, <2>2
<1>7. Len(s) <= 2 /\ Len(s) = Len(stack) + 1
  BY <1>3
<1> QED BY <1>2, <1>3, <1>4, <1>6, <1>7

\* Nesting of a given stack, when `busy` says a pull is running.
Nested(stack, busy) ==
  /\ stack \in Seq(Frame) /\ Len(stack) <= 2
  /\ Len(stack) = 2 => busy
  /\ \A i \in 1 .. Len(stack) : stack[i].at = "enter" => stack[i].bytes = 0

\* A pull that may be asked for adds at most one activation, which has moved nothing.
LEMMA PullNests ==
  ASSUME NEW waiting, NEW size, NEW stack, Nested(stack, pulling),
         pulling \in BOOLEAN, pullAgain \in BOOLEAN, CallPullIfNeeded(waiting, size, stack)
  PROVE  /\ Nested(frames', pulling') /\ Bytes(frames') = Bytes(stack)
         /\ pulling' \in BOOLEAN /\ pullAgain' \in BOOLEAN
<1>1. Entered \in Frame /\ Entered.bytes = 0
  BY DEF Entered, Frame
<1>2. CASE frames' = stack /\ pulling' = pulling /\ pullAgain' \in BOOLEAN
  BY <1>2
<1>3. CASE ~pulling /\ pulling' = TRUE /\ frames' = <<Entered>> \o stack /\ pullAgain' = pullAgain
  <2>1. stack \in Seq(Frame) /\ Len(stack) <= 1 /\ Bytes(stack) \in Nat /\ Len(stack) \in Nat
    <3>1. stack \in Seq(Frame) /\ Len(stack) <= 2 /\ Len(stack) # 2
      BY <1>3 DEF Nested
    <3>2. Len(stack) \in Nat /\ Bytes(stack) \in Nat
      BY <3>1, BytesOfStack
    <3>3. Len(stack) <= 1
      BY <3>1, <3>2, UpToTwo
    <3> QED BY <3>1, <3>2, <3>3
  <2>2. /\ frames' \in Seq(Frame) /\ Len(frames') <= 2 /\ Len(frames') = Len(stack) + 1
        /\ Bytes(frames') = Bytes(stack) /\ frames'[1] = Entered
        /\ \A i \in 1 .. Len(stack) : frames'[i + 1] = stack[i]
    BY <1>1, <1>3, <2>1, BytesPushed
  <2>3. ASSUME NEW i \in 1 .. Len(frames'), frames'[i].at = "enter" PROVE frames'[i].bytes = 0
    <3>1. CASE i = 1
      BY <1>1, <2>2, <3>1
    <3>2. CASE i # 1
      <4>1. i - 1 \in 1 .. Len(stack) /\ frames'[i] = stack[i - 1]
        <5>1. i - 1 \in 1 .. Len(stack) /\ (i - 1) + 1 = i
          BY <2>1, <2>2, <3>2
        <5> QED BY <2>2, <5>1
      <4> QED BY <2>3, <4>1 DEF Nested
    <3> QED BY <3>1, <3>2
  <2> QED BY <1>3, <2>2, <2>3 DEF Nested
<1> QED BY <1>2, <1>3 DEF CallPullIfNeeded

-----------------------------------------------------------------------------
(* The end of the stream *)

\* What closing or erroring the readable may do, and when.
StreamEnds ==
  /\ UNCHANGED <<pulling, pullAgain, readPos>>
  /\ readableClosed' \in BOOLEAN /\ (readableClosed => readableClosed')
  /\ readableClosed' => stream' # "readable"
  /\ writable' \in {"open", "errored"} /\ outcome' \in {"none", "done", "error"}
  /\ \/ stream' = "errored" /\ queue' = <<>> /\ queued' = 0 /\ pendingRead' = FALSE
     \/ UNCHANGED <<queue, queued, stream, pendingRead>>
     \/ /\ UNCHANGED <<queue, queued>>
        /\ stream = "readable" /\ remoteClosed /\ receiveBuffer = <<>>
        /\ stream' = IF queue = <<>> THEN "closed" ELSE "closing"
        /\ pendingRead' = FALSE

LEMMA FinishEnds == IInv /\ FinishIfRemoteClosed => StreamEnds
<1> SUFFICES ASSUME IInv, FinishIfRemoteClosed PROVE StreamEnds
  OBVIOUS
<1>1. /\ readableClosed \in BOOLEAN /\ writable \in {"open", "errored"}
      /\ pendingRead \in BOOLEAN /\ outcome \in {"none", "done", "error"}
      /\ readableClosed => stream # "readable"
      /\ pendingRead => queue = <<>> /\ stream = "readable"
  BY DEF IInv, TypeOK, Ending
<1>2. CASE remoteClosed /\ receiveBuffer = <<>> /\ ~readableClosed
  <2>1. CloseController /\ readableClosed' = TRUE /\ writable' = "errored"
    BY <1>2 DEF FinishIfRemoteClosed, CloseReadable
  <2>2. CASE stream = "readable"
    BY <1>1, <1>2, <2>1, <2>2 DEF CloseController, StreamEnds
  <2>3. CASE stream # "readable"
    BY <1>1, <2>1, <2>3 DEF CloseController, StreamEnds
  <2> QED BY <2>2, <2>3
<1>3. CASE remoteClosed /\ receiveBuffer = <<>> /\ readableClosed
  BY <1>1, <1>3 DEF FinishIfRemoteClosed, CloseReadable, StreamEnds, streamVars, appVars
<1>4. CASE ~(remoteClosed /\ receiveBuffer = <<>>)
  BY <1>1, <1>4 DEF FinishIfRemoteClosed, StreamEnds, streamVars, appVars
<1> QED BY <1>2, <1>3, <1>4

LEMMA ErrorEnds == IInv /\ ErrorReadable /\ writable' = "errored" => StreamEnds /\ readableClosed'
<1> SUFFICES ASSUME IInv, ErrorReadable, writable' = "errored" PROVE StreamEnds /\ readableClosed'
  OBVIOUS
<1>1. /\ readableClosed \in BOOLEAN /\ pendingRead \in BOOLEAN /\ outcome \in {"none", "done", "error"}
      /\ readableClosed => stream # "readable"
  BY DEF IInv, TypeOK, Ending
<1>2. CASE readableClosed
  BY <1>1, <1>2 DEF ErrorReadable, StreamEnds, streamVars, appVars
<1>3. CASE ~readableClosed
  BY <1>1, <1>3 DEF ErrorReadable, ErrorController, StreamEnds, streamVars, appVars
<1> QED BY <1>2, <1>3

\* The stream may end; receiveBuffer may be dropped with the connection; an
\* activation may return its bytes to the window and leave the stack.
LEMMA EndStep ==
  ASSUME IInv, StreamEnds, UNCHANGED <<pcb, arrived, finArrived, cut, tasks, remoteClosed>>,
         closing' \in BOOLEAN, disposed' \in BOOLEAN, disposed' => readableClosed',
         \/ receiveBuffer' = receiveBuffer
         \/ receiveBuffer' = <<>> /\ readableClosed',
         Nested(frames', pulling'),
         window' \in 0 .. Wnd,
         Whole /\ pcb = "open" => window' + Bytes(frames') = window + Bytes(frames)
  PROVE  IInv'
<1>1. TypeOK /\ Ending /\ Sizes
  BY DEF IInv
<1>2. Whole' => Whole /\ UNCHANGED <<queue, queued, receiveBuffer, readPos>>
  BY <1>1 DEF StreamEnds, Whole, Ending
<1>3. TypeOK'
  <2>1. queue' \in Seq(Chunk) /\ queued' \in Nat /\ receiveBuffer' \in Seq(Chunk)
    <3>1. queue \in Seq(Chunk) /\ queued \in Nat /\ receiveBuffer \in Seq(Chunk)
      BY <1>1 DEF TypeOK
    <3>2. <<>> \in Seq(Chunk)
      OBVIOUS
    <3>3. queue' \in Seq(Chunk)
      BY <3>1, <3>2 DEF StreamEnds
    <3>4. queued' \in Nat
      BY <3>1 DEF StreamEnds
    <3>5. receiveBuffer' \in Seq(Chunk)
      BY <3>1, <3>2
    <3> QED BY <3>3, <3>4, <3>5
  <2>2. /\ stream' \in {"readable", "closing", "closed", "cancelled", "errored"}
        /\ pendingRead' \in BOOLEAN
    BY <1>1 DEF TypeOK, StreamEnds
  <2>3. frames' \in Seq(Frame) /\ Len(frames') <= 2
    BY DEF Nested
  <2> QED BY <1>1, <2>1, <2>2, <2>3 DEF TypeOK, StreamEnds
<1>4. Nesting'
  BY DEF Nested, Nesting
<1>5. Ending'
  <2>1. \A i \in 1 .. Len(tasks') : tasks'[i].kind = "fin" => finArrived' /\ i = Len(tasks')
    BY <1>1 DEF Ending
  <2>2. remoteClosed' => finArrived' /\ tasks' = <<>>
    BY <1>1 DEF Ending
  <2>3. /\ stream' \in {"closing", "closed"} => remoteClosed' /\ receiveBuffer' = <<>>
        /\ stream' = "closed" => queue' = <<>>
        /\ readableClosed' => stream' # "readable"
        /\ pendingRead' => queue' = <<>> /\ stream' = "readable"
    BY <1>1 DEF Ending, StreamEnds
  <2> QED BY <2>1, <2>2, <2>3 DEF Ending
<1>6. Sizes'
  <2>1. CASE UNCHANGED <<queue, queued>>
    BY <1>1, <2>1 DEF Sizes
  <2>2. CASE queue' = <<>> /\ queued' = 0
    BY <2>2, NothingTotal DEF Sizes
  <2> QED BY <2>1, <2>2 DEF StreamEnds
<1>7. Whole' => InLine'
  BY <1>2 DEF IInv, InLine, Delivered, Buffered
<1>8. Whole' /\ pcb' = "open" => Conserved'
  <2>1. Whole' => Delivered' = Delivered
    BY <1>2 DEF Delivered
  <2> QED BY <1>2, <2>1 DEF IInv, Conserved
<1>9. Behind'
  <2>1. Behind
    BY DEF IInv
  <2>2. Below(<<>>, arrived)
    BY DEF Below
  <2>3. queue' = queue \/ queue' = <<>>
    BY DEF StreamEnds
  <2>4. readPos' = readPos
    BY DEF StreamEnds
  <2>5. Below(queue', arrived) /\ Below(receiveBuffer', arrived)
    BY <2>1, <2>2, <2>3 DEF Behind
  <2> QED BY <2>1, <2>4, <2>5 DEF Behind
<1> QED BY <1>3, <1>4, <1>5, <1>6, <1>7, <1>8, <1>9 DEF IInv

\* A read may start to wait, a pull may start or settle, the block may close:
\* no byte moves.
LEMMA KeepStep ==
  ASSUME IInv, UNCHANGED <<window, arrived, finArrived, cut, tasks, receiveBuffer, remoteClosed,
                           readableClosed, disposed, stream, queue, queued, readPos, writable>>,
         Nested(frames', pulling'), Bytes(frames') = Bytes(frames),
         pulling' \in BOOLEAN, pullAgain' \in BOOLEAN, pendingRead' \in BOOLEAN,
         pendingRead' => pendingRead \/ (queue = <<>> /\ stream = "readable"),
         pcb' \in {"open", "finwait", "freed"}, pcb' = "open" => pcb = "open",
         closing' \in BOOLEAN, outcome' \in {"none", "done", "error"}
  PROVE  IInv'
<1>1. TypeOK /\ Ending /\ Sizes
  BY DEF IInv
<1>2. frames' \in Seq(Frame) /\ Len(frames') <= 2
  BY DEF Nested
<1>3. TypeOK'
  BY <1>1, <1>2 DEF TypeOK
<1>4. Nesting'
  BY DEF Nested, Nesting
<1>5. Ending' /\ Sizes'
  BY <1>1 DEF Ending, Sizes
<1>6. Whole' => InLine'
  BY DEF IInv, Whole, InLine, Delivered, Buffered
<1>7. Whole' /\ pcb' = "open" => Conserved'
  BY DEF IInv, Whole, Conserved, Delivered
<1>8. Behind'
  BY DEF IInv, Behind
<1> QED BY <1>3, <1>4, <1>5, <1>6, <1>7, <1>8 DEF IInv

-----------------------------------------------------------------------------
(* The call stack in a state of the invariant *)

LEMMA StackNests == IInv => Nested(frames, pulling)
BY DEF IInv, TypeOK, Nesting, Nested

LEMMA StackPopped ==
  ASSUME IInv, ~Idle
  PROVE  /\ Head(frames) \in Frame /\ Head(frames) = frames[1] /\ Head(frames).bytes \in Nat
         /\ Tail(frames) \in Seq(Frame) /\ Len(Tail(frames)) <= 1
         /\ Nested(Tail(frames), pulling) /\ Bytes(Tail(frames)) \in Nat
         /\ Bytes(frames) = Head(frames).bytes + Bytes(Tail(frames))
         /\ Head(frames).at = "enter" => Head(frames).bytes = 0
<1>1. frames \in Seq(Frame) /\ Len(frames) <= 2 /\ Nesting /\ frames # <<>>
  BY DEF IInv, TypeOK, Idle
<1>2. PICK first, rest : first = Head(frames) /\ rest = Tail(frames)
  OBVIOUS
<1>3. /\ Len(frames) \in Nat /\ Len(frames) # 0
      /\ Bytes(frames) = first.bytes + Bytes(rest)
      /\ rest \in Seq(Frame) /\ Len(rest) = Len(frames) - 1 /\ Bytes(rest) \in Nat
      /\ first \in Frame /\ first.bytes \in Nat /\ first = frames[1]
      /\ \A i \in 1 .. Len(rest) : i + 1 \in 1 .. Len(frames) /\ rest[i] = frames[i + 1]
  BY <1>1, <1>2, BytesOfStack
<1>4. Len(rest) <= 1 /\ Len(rest) <= 2 /\ Len(rest) # 2 /\ 1 \in 1 .. Len(frames)
  <2>1. Len(frames) \in Nat /\ Len(frames) # 0 /\ Len(rest) = Len(frames) - 1 /\ Len(frames) <= 2
    BY <1>1, <1>3
  <2> QED BY <2>1
<1>5. first.at = "enter" => first.bytes = 0
  BY <1>1, <1>3, <1>4 DEF Nesting
<1>6. \A i \in 1 .. Len(rest) : rest[i].at = "enter" => rest[i].bytes = 0
  BY <1>1, <1>3 DEF Nesting
<1>7. Nested(rest, pulling)
  BY <1>3, <1>4, <1>6 DEF Nested
<1> QED BY <1>2, <1>3, <1>4, <1>5, <1>7

LEMMA StackReplaced ==
  ASSUME IInv, ~Idle, NEW f \in Frame, f.at = "enter" => f.bytes = 0
  PROVE  /\ Nested(<<f>> \o Tail(frames), pulling)
         /\ Bytes(<<f>> \o Tail(frames)) = f.bytes + Bytes(Tail(frames))
<1>1. PICK rest, s : rest = Tail(frames) /\ s = <<f>> \o rest
  OBVIOUS
<1>2. /\ rest \in Seq(Frame) /\ Len(rest) <= 1 /\ Nested(rest, pulling) /\ Len(rest) \in Nat
  BY <1>1, StackPopped, LenProperties
<1>3. Len(frames) = Len(rest) + 1
  <2>1. frames \in Seq(Frame) /\ Len(frames) <= 2 /\ frames # <<>>
    BY DEF IInv, TypeOK, Idle
  <2>2. Len(rest) = Len(frames) - 1 /\ Len(frames) \in Nat
    BY <1>1, <2>1, BytesOfStack
  <2> QED BY <2>2
<1>4. /\ s \in Seq(Frame) /\ Len(s) <= 2 /\ Len(s) = Len(rest) + 1
      /\ Bytes(s) = f.bytes + Bytes(rest) /\ s[1] = f
      /\ \A i \in 1 .. Len(rest) : s[i + 1] = rest[i]
  BY <1>1, <1>2, BytesPushed
<1>5. Len(s) = 2 => pulling
  BY <1>3, <1>4 DEF IInv, Nesting
<1>6. ASSUME NEW i \in 1 .. Len(s), s[i].at = "enter" PROVE s[i].bytes = 0
  <2>1. CASE i = 1
    BY <1>4, <1>6, <2>1
  <2>2. CASE i # 1
    <3>1. i - 1 \in 1 .. Len(rest) /\ (i - 1) + 1 = i
      BY <1>2, <1>4, <2>2
    <3>2. s[i] = rest[i - 1]
      BY <1>4, <3>1
    <3> QED BY <1>2, <1>6, <3>1, <3>2 DEF Nested
  <2> QED BY <2>1, <2>2
<1>7. Nested(s, pulling)
  BY <1>4, <1>5, <1>6 DEF Nested
<1> QED BY <1>1, <1>4, <1>7

\* A callback or a task starts with an empty stack, and enters at most once.
LEMMA StackIdle ==
  /\ \A busy : Nested(<<>>, busy) /\ Nested(<<Entered>>, busy)
  /\ Bytes(<<>>) = 0 /\ Bytes(<<Entered>>) = 0
<1>1. <<>> \in Seq(Frame) /\ Len(<<>>) = 0
  OBVIOUS
<1>2. <<Entered>> \in Seq(Frame) /\ Len(<<Entered>>) = 1 /\ <<Entered>>[1] = Entered
      /\ Entered.bytes = 0
  BY DEF Entered, Frame
<1>3. \A busy : Nested(<<>>, busy)
  BY <1>1 DEF Nested
<1>4. \A busy : Nested(<<Entered>>, busy)
  <2>1. PICK s : s = <<Entered>>
    OBVIOUS
  <2>2. \A i \in 1 .. Len(s) : s[i].bytes = 0
    BY <1>2, <2>1
  <2>3. \A busy : Nested(s, busy)
    BY <1>2, <2>1, <2>2 DEF Nested
  <2> QED BY <2>1, <2>3
<1> QED BY <1>1, <1>2, <1>3, <1>4 DEF Bytes

-----------------------------------------------------------------------------
(* The steps that move no byte towards the application *)

LEMMA EnterInd == IInv /\ EnqueueEnter => IInv'
<1> SUFFICES ASSUME IInv, EnqueueEnter PROVE IInv'
  OBVIOUS
<1>1. /\ ~Idle /\ Head(frames).at = "enter"
      /\ UNCHANGED <<tcpVars, tasks, receiveBuffer, remoteClosed, disposed, closing>>
  BY DEF EnqueueEnter
<1>2. UNCHANGED <<pcb, window, arrived, finArrived, cut>>
  BY <1>1 DEF tcpVars
<1>3. /\ window \in 0 .. Wnd /\ closing \in BOOLEAN /\ disposed \in BOOLEAN
      /\ disposed => readableClosed
      /\ readableClosed \in BOOLEAN /\ writable \in {"open", "errored"}
      /\ readableClosed => stream # "readable" /\ outcome \in {"none", "done", "error"}
  BY DEF IInv, TypeOK, Ending
<1>4. Nested(Tail(frames), pulling) /\ Bytes(Tail(frames)) = Bytes(frames)
  <2>1. Bytes(Tail(frames)) \in Nat /\ Bytes(frames) = 0 + Bytes(Tail(frames))
    BY <1>1, StackPopped
  <2> QED BY <1>1, <2>1, StackPopped
<1>5. StreamEnds
  <2>1. CASE FinishIfRemoteClosed
    BY <2>1, FinishEnds
  <2>2. CASE UNCHANGED <<readableClosed, writable, streamVars, appVars>>
    BY <1>3, <2>2 DEF StreamEnds, IInv, TypeOK, Ending, streamVars, appVars
  <2> QED BY <2>1, <2>2 DEF EnqueueEnter
<1>6. Nested(frames', pulling) /\ Bytes(frames') = Bytes(frames)
  <2>1. CASE frames' = Tail(frames)
    BY <1>4, <2>1
  <2>2. CASE frames' = <<[at |-> "loop", bytes |-> 0]>> \o Tail(frames)
    <3>1. PICK f : f = [at |-> "loop", bytes |-> 0]
      OBVIOUS
    <3>2. f \in Frame /\ f.bytes = 0 /\ f.at # "enter"
      BY <3>1 DEF Frame
    <3>3. /\ Nested(<<f>> \o Tail(frames), pulling)
          /\ Bytes(<<f>> \o Tail(frames)) = 0 + Bytes(Tail(frames)) /\ Bytes(Tail(frames)) \in Nat
      BY <1>1, <3>2, StackReplaced, StackPopped
    <3> QED BY <1>4, <2>2, <3>1, <3>3
  <2> QED BY <2>1, <2>2 DEF EnqueueEnter
<1>7. pulling' = pulling /\ (readableClosed => readableClosed')
  BY <1>5 DEF StreamEnds
<1> QED BY <1>1, <1>2, <1>3, <1>5, <1>6, <1>7, EndStep

LEMMA DoneInd == IInv /\ EnqueueDone => IInv'
<1> SUFFICES ASSUME IInv, EnqueueDone PROVE IInv'
  OBVIOUS
<1>1. /\ ~Idle /\ frames' = Tail(frames) /\ FinishIfRemoteClosed
      /\ UNCHANGED <<pcb, arrived, finArrived, cut, tasks, receiveBuffer, remoteClosed,
                     disposed, closing>>
      /\ window' = IF pcb = "open" THEN Credit(Head(frames)) ELSE window
  BY DEF EnqueueDone
<1>2. /\ window \in 0 .. Wnd /\ closing \in BOOLEAN /\ disposed \in BOOLEAN
      /\ disposed => readableClosed
  BY DEF IInv, TypeOK, Ending
<1>3. StreamEnds
  BY <1>1, FinishEnds
<1>4. pulling' = pulling /\ (readableClosed => readableClosed')
  BY <1>3 DEF StreamEnds
<1>5. PICK moved : moved = Head(frames).bytes
  OBVIOUS
<1>6. /\ moved \in Nat /\ Nested(Tail(frames), pulling)
      /\ Bytes(frames) = moved + Bytes(Tail(frames)) /\ Bytes(Tail(frames)) \in Nat
  BY <1>1, <1>5, StackPopped
<1>7. window' = IF pcb = "open" /\ moved > 0
                  THEN IF window + moved > Wnd THEN Wnd ELSE window + moved
                  ELSE window
  BY <1>1, <1>5 DEF Credit, Reopened
<1>8. window' \in 0 .. Wnd
  BY <1>2, <1>6, <1>7, ReceiveConstants
<1>9. Whole /\ pcb = "open" => window' + Bytes(frames') = window + Bytes(frames)
  <2> SUFFICES ASSUME Whole, pcb = "open"
               PROVE  window' + Bytes(Tail(frames)) = window + Bytes(frames)
    BY <1>1
  <2>1. Conserved
    BY DEF IInv
  <2>2. arrived - Delivered \in Int /\ arrived - Delivered >= 0
    <3>1. queue \in Seq(Chunk) /\ readPos \in Nat /\ arrived \in Nat
          /\ Below(queue, arrived) /\ readPos <= arrived
      BY DEF IInv, TypeOK, Behind
    <3>2. Delivered \in Nat /\ Delivered <= arrived
      BY <3>1, PieceTypes, EndType, BelowTop DEF Delivered
    <3> QED BY <3>1, <3>2
  <2>3. window + moved <= Wnd
    BY <1>2, <1>6, <2>1, <2>2, ReceiveConstants DEF Conserved
  <2> QED BY <1>2, <1>6, <1>7, <2>3, ReceiveConstants
<1> QED BY <1>1, <1>2, <1>3, <1>4, <1>6, <1>8, <1>9, EndStep

LEMMA SettledInd == IInv /\ CloseSettled => IInv'
<1> SUFFICES ASSUME IInv, CloseSettled PROVE IInv'
  OBVIOUS
<1>1. /\ ErrorReadable /\ writable' = "errored" /\ closing' = FALSE
      /\ UNCHANGED <<tcpVars, tasks, receiveBuffer, remoteClosed, disposed, frames>>
  BY DEF CloseSettled
<1>2. UNCHANGED <<pcb, window, arrived, finArrived, cut>>
  BY <1>1 DEF tcpVars
<1>3. StreamEnds /\ readableClosed' /\ pulling' = pulling
  BY <1>1, ErrorEnds DEF StreamEnds
<1>4. window \in 0 .. Wnd /\ disposed \in BOOLEAN
  BY DEF IInv, TypeOK
<1>5. Nested(frames, pulling)
  BY StackNests
<1>6. frames' = frames /\ UNCHANGED <<tasks, receiveBuffer, remoteClosed, disposed>>
  BY <1>1
<1> QED BY <1>1, <1>2, <1>3, <1>4, <1>5, <1>6, EndStep

LEMMA DisposeInd == IInv /\ Dispose => IInv'
<1> SUFFICES ASSUME IInv, Dispose PROVE IInv'
  OBVIOUS
<1>1. /\ ErrorReadable /\ writable' = "errored" /\ disposed' = TRUE /\ receiveBuffer' = <<>>
      /\ UNCHANGED <<tcpVars, tasks, remoteClosed, closing, frames>>
  BY DEF Dispose
<1>2. UNCHANGED <<pcb, window, arrived, finArrived, cut>>
  BY <1>1 DEF tcpVars
<1>3. StreamEnds /\ readableClosed' /\ pulling' = pulling
  BY <1>1, ErrorEnds DEF StreamEnds
<1>4. window \in 0 .. Wnd /\ closing \in BOOLEAN
  BY DEF IInv, TypeOK
<1>5. Nested(frames, pulling)
  BY StackNests
<1>6. frames' = frames /\ UNCHANGED <<tasks, remoteClosed, closing>>
  BY <1>1
<1> QED BY <1>1, <1>2, <1>3, <1>4, <1>5, <1>6, EndStep

LEMMA PullInd == IInv /\ PullSettled => IInv'
<1> SUFFICES ASSUME IInv, PullSettled PROVE IInv'
  OBVIOUS
<1>1. /\ frames = <<>> /\ pullAgain' = FALSE /\ pulling
      /\ UNCHANGED <<tcpVars, tasks, connVars, stream, queue, queued, pendingRead, appVars>>
      /\ \/ frames' = <<Entered>> /\ pulling' = pulling
         \/ frames' = frames /\ pulling' = FALSE
  BY DEF PullSettled, Idle
<1>2. UNCHANGED <<pcb, window, arrived, finArrived, cut, receiveBuffer, remoteClosed,
                  readableClosed, disposed, closing, writable, readPos, outcome>>
  BY <1>1 DEF tcpVars, connVars, appVars
<1>3. UNCHANGED <<tasks, stream, queue, queued, pendingRead>>
  BY <1>1
<1>4. Nested(frames', pulling') /\ Bytes(frames') = Bytes(frames)
  BY <1>1, StackIdle
<1>5. /\ pulling \in BOOLEAN /\ pendingRead \in BOOLEAN /\ closing \in BOOLEAN
      /\ pcb \in {"open", "finwait", "freed"} /\ outcome \in {"none", "done", "error"}
  BY DEF IInv, TypeOK
<1>6. pulling' \in BOOLEAN /\ pullAgain' \in BOOLEAN
  BY <1>1, <1>5
<1> QED BY <1>2, <1>3, <1>4, <1>5, <1>6, KeepStep

LEMMA WaitInd == IInv /\ ReadWait => IInv'
<1> SUFFICES ASSUME IInv, ReadWait PROVE IInv'
  OBVIOUS
<1>1. /\ CallPullIfNeeded(TRUE, queued, frames) /\ pendingRead' = TRUE
      /\ queue = <<>> /\ stream = "readable"
      /\ UNCHANGED <<tcpVars, tasks, connVars, stream, queue, queued, appVars>>
  BY DEF ReadWait
<1>2. UNCHANGED <<pcb, window, arrived, finArrived, cut, receiveBuffer, remoteClosed,
                  readableClosed, disposed, closing, writable, readPos, outcome>>
  BY <1>1 DEF tcpVars, connVars, appVars
<1>3. UNCHANGED <<tasks, stream, queue, queued>>
  BY <1>1
<1>4. /\ pulling \in BOOLEAN /\ pullAgain \in BOOLEAN /\ closing \in BOOLEAN
      /\ pcb \in {"open", "finwait", "freed"} /\ outcome \in {"none", "done", "error"}
  BY DEF IInv, TypeOK
<1>5. /\ Nested(frames', pulling') /\ Bytes(frames') = Bytes(frames)
      /\ pulling' \in BOOLEAN /\ pullAgain' \in BOOLEAN
  BY <1>1, <1>4, StackNests, PullNests
<1> QED BY <1>1, <1>2, <1>3, <1>4, <1>5, KeepStep

LEMMA EndInd == IInv /\ ReadEnd => IInv'
<1> SUFFICES ASSUME IInv, ReadEnd PROVE IInv'
  OBVIOUS
<1>1. /\ outcome' \in {"none", "done", "error"}
      /\ UNCHANGED <<tcpVars, tasks, connVars, frames, streamVars, readPos>>
  BY DEF ReadEnd
<1>2. UNCHANGED <<pcb, window, arrived, finArrived, cut, receiveBuffer, remoteClosed,
                  readableClosed, disposed, closing, writable, stream, queue, queued,
                  pendingRead, pulling, pullAgain>>
  BY <1>1 DEF tcpVars, connVars, streamVars
<1>3. UNCHANGED <<tasks, frames, readPos>>
  BY <1>1
<1>4. /\ pulling \in BOOLEAN /\ pullAgain \in BOOLEAN /\ closing \in BOOLEAN
      /\ pendingRead \in BOOLEAN /\ pcb \in {"open", "finwait", "freed"}
  BY DEF IInv, TypeOK
<1>5. Nested(frames', pulling') /\ Bytes(frames') = Bytes(frames)
  BY <1>2, <1>3, StackNests
<1> QED BY <1>1, <1>2, <1>3, <1>4, <1>5, KeepStep

LEMMA CloseInd == IInv /\ Close => IInv'
<1> SUFFICES ASSUME IInv, Close PROVE IInv'
  OBVIOUS
<1>1. /\ pcb = "open" /\ pcb' \in {"open", "finwait", "freed"} /\ closing' = TRUE
      /\ UNCHANGED <<window, arrived, finArrived, cut, tasks, receiveBuffer, remoteClosed,
                     readableClosed, disposed, writable, frames, streamVars, appVars>>
  BY DEF Close
<1>2. UNCHANGED <<stream, queue, queued, pendingRead, pulling, pullAgain, readPos, outcome>>
  BY <1>1 DEF streamVars, appVars
<1>3. /\ pulling \in BOOLEAN /\ pullAgain \in BOOLEAN /\ pendingRead \in BOOLEAN
      /\ outcome \in {"none", "done", "error"}
  BY DEF IInv, TypeOK
<1>4. Nested(frames', pulling') /\ Bytes(frames') = Bytes(frames)
  BY <1>1, <1>2, StackNests
<1> QED BY <1>1, <1>2, <1>3, <1>4, KeepStep

\* cancel() drops the queue; what still arrives is no longer read.
LEMMA CancelInd == IInv /\ Cancel => IInv'
<1> SUFFICES ASSUME IInv, Cancel PROVE IInv'
  OBVIOUS
<1>1. /\ stream' = "cancelled" /\ queue' = <<>> /\ queued' = 0 /\ pendingRead' = FALSE
      /\ outcome' \in {outcome, "done"}
      /\ UNCHANGED <<tcpVars, tasks, connVars, frames, pulling, pullAgain, readPos>>
  BY DEF Cancel
<1>2. UNCHANGED <<pcb, window, arrived, finArrived, cut, receiveBuffer, remoteClosed,
                  readableClosed, disposed, closing, writable>>
  BY <1>1 DEF tcpVars, connVars
<1>3. TypeOK'
  <2>1. <<>> \in Seq(Chunk)
    OBVIOUS
  <2>2. outcome' \in {"none", "done", "error"}
    BY <1>1 DEF IInv, TypeOK
  <2>3. /\ pcb' \in {"open", "finwait", "freed"} /\ window' \in 0 .. Wnd /\ arrived' \in Nat
        /\ finArrived' \in BOOLEAN /\ cut' \in BOOLEAN
        /\ receiveBuffer' \in Seq(Chunk)
        /\ remoteClosed' \in BOOLEAN /\ readableClosed' \in BOOLEAN
        /\ disposed' \in BOOLEAN /\ closing' \in BOOLEAN
        /\ writable' \in {"open", "errored"}
    BY <1>2 DEF IInv, TypeOK
  <2>4. /\ tasks' \in Seq(Task) /\ frames' \in Seq(Frame) /\ Len(frames') <= 2
        /\ pulling' \in BOOLEAN /\ pullAgain' \in BOOLEAN /\ readPos' \in Nat
    BY <1>1 DEF IInv, TypeOK
  <2> HIDE DEF IInv
  <2> QED BY <1>1, <2>1, <2>2, <2>3, <2>4 DEF TypeOK
<1>4. Nesting' /\ Ending' /\ ~Whole'
  BY <1>1, <1>2, SMTT(30) DEF IInv, Nesting, Ending, Whole
<1>5. Sizes'
  BY <1>1, NothingTotal DEF Sizes
<1>6. Behind'
  BY <1>1, <1>2 DEF IInv, Behind, Below
<1> QED BY <1>3, <1>4, <1>5, <1>6 DEF IInv

-----------------------------------------------------------------------------
(* The steps that move bytes *)

\* A chunk moves from receiveBuffer to the queue, or to a waiting read, and the
\* activation that moves it owes its bytes to the window.
LEMMA MoveInd == IInv /\ EnqueueChunk => IInv'
<1> SUFFICES ASSUME IInv, EnqueueChunk PROVE IInv'
  OBVIOUS
<1>1. PICK chunk, size, f : /\ chunk = Head(receiveBuffer)
                            /\ size = IF pendingRead THEN queued ELSE queued + chunk.len
                            /\ f = [Head(frames) EXCEPT !.bytes = @ + chunk.len]
  OBVIOUS
<1>2. /\ ~Idle /\ Head(frames).at = "loop" /\ receiveBuffer # <<>>
      /\ queue' = (IF pendingRead THEN queue ELSE Append(queue, chunk))
      /\ queued' = size
      /\ readPos' = (IF pendingRead THEN chunk.off + chunk.len ELSE readPos)
      /\ CallPullIfNeeded(FALSE, size, <<f>> \o Tail(frames))
      /\ receiveBuffer' = Tail(receiveBuffer) /\ pendingRead' = FALSE
      /\ UNCHANGED <<tasks, remoteClosed, readableClosed, disposed, closing,
                     stream, writable, outcome>>
  BY <1>1 DEF EnqueueChunk, CanMove
<1>3. UNCHANGED <<pcb, window, arrived, finArrived, cut>>
  BY DEF EnqueueChunk, tcpVars
<1>4. /\ queue \in Seq(Chunk) /\ receiveBuffer \in Seq(Chunk) /\ queued \in Nat
      /\ readPos \in Nat /\ arrived \in Nat /\ window \in Nat
      /\ pulling \in BOOLEAN /\ pullAgain \in BOOLEAN
  BY ReceiveConstants DEF IInv, TypeOK
<1>5. PICK rest : rest = Tail(receiveBuffer)
  OBVIOUS
<1>6. /\ chunk \in Chunk /\ chunk.off \in Nat /\ chunk.len \in Nat /\ rest \in Seq(Chunk)
      /\ \A p : /\ End(rest, chunk.off + chunk.len) = End(receiveBuffer, p)
                /\ Follows(receiveBuffer, p) => /\ chunk.off = p
                                                /\ Follows(rest, chunk.off + chunk.len)
  BY <1>1, <1>2, <1>4, <1>5, TailFollows, PieceTypes DEF Pieces
<1>7. /\ stream \notin {"closing", "closed"} /\ (pendingRead => queue = <<>>)
      /\ Behind /\ Ending
  BY <1>2 DEF IInv, Ending
<1>8. /\ Nested(frames', pulling') /\ Bytes(frames') = Bytes(frames) + chunk.len
      /\ pulling' \in BOOLEAN /\ pullAgain' \in BOOLEAN
  <2>1. PICK top, below : top = Head(frames) /\ below = Bytes(Tail(frames))
    OBVIOUS
  <2>2. /\ top \in Frame /\ top.at = "loop" /\ top.bytes \in Nat /\ below \in Nat
        /\ Bytes(frames) = top.bytes + below
    BY <1>2, <2>1, StackPopped
  <2>3. f \in Frame /\ f.at # "enter" /\ f.bytes = top.bytes + chunk.len
    BY <1>1, <1>6, <2>1, <2>2 DEF Frame
  <2>4. PICK s : s = <<f>> \o Tail(frames)
    OBVIOUS
  <2>5. Nested(s, pulling) /\ Bytes(s) = f.bytes + below
    BY <1>2, <2>1, <2>3, <2>4, StackReplaced
  <2>6. /\ Nested(frames', pulling') /\ Bytes(frames') = Bytes(s)
        /\ pulling' \in BOOLEAN /\ pullAgain' \in BOOLEAN
    BY <1>2, <1>4, <2>4, <2>5, PullNests
  <2> QED BY <1>6, <2>2, <2>3, <2>5, <2>6
<1>9. queue' \in Seq(Chunk) /\ queued' \in Nat /\ readPos' \in Nat
  <2>1. Append(queue, chunk) \in Seq(Chunk)
    BY <1>4, <1>6
  <2>2. queue' \in Seq(Chunk)
    BY <1>2, <1>4, <2>1
  <2>3. queued' = size /\ size \in Nat
    BY <1>1, <1>2, <1>4, <1>6
  <2>4. readPos' = chunk.off + chunk.len \/ readPos' = readPos
    BY <1>2
  <2>5. readPos' \in Nat
    BY <1>4, <1>6, <2>4
  <2> QED BY <2>2, <2>3, <2>5
<1>10. TypeOK'
  <2>1. frames' \in Seq(Frame) /\ Len(frames') <= 2
    BY <1>8 DEF Nested
  <2>2. receiveBuffer' \in Seq(Chunk) /\ pendingRead' \in BOOLEAN
    BY <1>2, <1>5, <1>6
  <2>3. /\ pcb' \in {"open", "finwait", "freed"}
        /\ window' \in 0 .. Wnd /\ arrived' \in Nat /\ finArrived' \in BOOLEAN
        /\ cut' \in BOOLEAN /\ tasks' \in Seq(Task)
        /\ remoteClosed' \in BOOLEAN /\ readableClosed' \in BOOLEAN
        /\ disposed' \in BOOLEAN /\ closing' \in BOOLEAN
        /\ stream' \in {"readable", "closing", "closed", "cancelled", "errored"}
        /\ writable' \in {"open", "errored"} /\ outcome' \in {"none", "done", "error"}
    BY <1>2, <1>3 DEF IInv, TypeOK
  <2> QED BY <1>8, <1>9, <2>1, <2>2, <2>3 DEF TypeOK
<1>11. Nesting'
  BY <1>8 DEF Nested, Nesting
<1>12. Ending'
  BY <1>2, <1>3, <1>7 DEF Ending
<1>13. Sizes'
  <2>1. Sizes
    BY DEF IInv
  <2>2. CASE pendingRead
    BY <1>1, <1>2, <2>1, <2>2 DEF Sizes
  <2>3. CASE ~pendingRead
    <3>1. TotalIs(Append(queue, chunk), queued + chunk.len)
      BY <1>4, <1>6, <2>1, PieceTypes, AppendTotal DEF Sizes
    <3> QED BY <1>1, <1>2, <2>3, <3>1 DEF Sizes
  <2> QED BY <2>2, <2>3
<1>14. Behind'
  <2>1. Below(rest, arrived) /\ chunk.off + chunk.len <= arrived
    BY <1>1, <1>2, <1>4, <1>5, <1>7, PieceTypes, BelowTop DEF Behind
  <2>2. Below(Append(queue, chunk), arrived)
    BY <1>4, <1>6, <1>7, <2>1, PieceTypes, BelowTop DEF Behind
  <2> QED BY <1>2, <1>3, <1>5, <1>7, <2>1, <2>2 DEF Behind
<1>15. /\ Delivered' = chunk.off + chunk.len
       /\ Follows(queue, readPos) /\ chunk.off = Delivered => Follows(queue', readPos')
  <2>1. CASE pendingRead
    <3>1. queue' = <<>> /\ readPos' = chunk.off + chunk.len
      BY <1>2, <1>7, <2>1
    <3> QED BY <3>1 DEF Delivered, End, Follows
  <2>2. CASE ~pendingRead
    BY <1>2, <1>4, <1>6, <2>2, AppendFollows DEF Delivered
  <2> QED BY <2>1, <2>2
<1>16. Whole' => Whole
  BY <1>2, <1>3 DEF Whole
<1>17. Whole' => InLine'
  <2> SUFFICES ASSUME Whole' PROVE InLine'
    OBVIOUS
  <2>1. InLine
    BY <1>16 DEF IInv
  <2>2. chunk.off = Delivered /\ Follows(rest, chunk.off + chunk.len)
    BY <1>6, <2>1 DEF InLine
  <2>3. Buffered' = Buffered
    BY <1>2, <1>5, <1>6, <1>15 DEF Buffered
  <2> QED BY <1>2, <1>3, <1>5, <1>15, <2>1, <2>2, <2>3 DEF InLine
<1>18. Whole' /\ pcb' = "open" => Conserved'
  <2> SUFFICES ASSUME Whole', pcb' = "open" PROVE Conserved'
    OBVIOUS
  <2>1. Conserved /\ InLine
    BY <1>3, <1>16 DEF IInv
  <2>2. chunk.off = Delivered
    BY <1>6, <2>1 DEF InLine
  <2>3. Bytes(frames) \in Nat
    BY BytesOfStack DEF IInv, TypeOK
  <2>4. window + Bytes(frames) + (arrived - chunk.off) = Wnd
    BY <2>1, <2>2 DEF Conserved
  <2>5. window + (Bytes(frames) + chunk.len) + (arrived - (chunk.off + chunk.len)) = Wnd
    BY <1>4, <1>6, <2>3, <2>4
  <2> HIDE DEF IInv
  <2> QED BY <1>3, <1>8, <1>15, <2>5 DEF Conserved
<1> QED BY <1>10, <1>11, <1>12, <1>13, <1>14, <1>17, <1>18 DEF IInv

\* lwIP hands over a chain: its first pbuf becomes the chunk of a deferred import.
LEMMA RecvInd ==
  ASSUME IInv, NEW tot \in ChunkSizes, NEW len \in 1 .. tot, RecvCallback(tot, len)
  PROVE  IInv'
<1>1. PICK x : x = [kind |-> "chunk", off |-> arrived, len |-> len]
  OBVIOUS
<1>2. /\ ~disposed /\ pcb = "open" /\ ~finArrived /\ tot <= window
      /\ window' = window - tot /\ arrived' = arrived + tot /\ cut' = (cut \/ len < tot)
      /\ tasks' = Append(tasks, x)
      /\ UNCHANGED <<pcb, finArrived, connVars, frames, streamVars, appVars>>
  BY <1>1 DEF RecvCallback
<1>3. UNCHANGED <<pcb, finArrived, receiveBuffer, remoteClosed, readableClosed, disposed,
                  closing, writable, frames, stream, queue, queued, pendingRead, pulling,
                  pullAgain, readPos, outcome>>
  BY <1>2 DEF connVars, streamVars, appVars
<1>4. /\ tot \in Nat /\ tot # 0 /\ len \in Nat /\ len # 0 /\ len <= tot
  BY ReceiveConstants
<1>5. /\ queue \in Seq(Chunk) /\ receiveBuffer \in Seq(Chunk) /\ tasks \in Seq(Task)
      /\ readPos \in Nat /\ arrived \in Nat /\ window \in 0 .. Wnd /\ Wnd \in Nat
  BY ReceiveConstants DEF IInv, TypeOK
<1>6. x \in Task /\ x.kind = "chunk" /\ x.off = arrived /\ x.len = len
  BY <1>1, <1>4, <1>5 DEF Task
<1>7. Ending /\ Behind
  BY DEF IInv
<1>8. TypeOK'
  <2>1. tasks' \in Seq(Task)
    BY <1>2, <1>5, <1>6
  <2>2. window' \in 0 .. Wnd /\ arrived' \in Nat /\ cut' \in BOOLEAN
    <3>1. cut \in BOOLEAN
      BY DEF IInv, TypeOK
    <3> QED BY <1>2, <1>4, <1>5, <3>1
  <2> QED BY <1>3, <2>1, <2>2 DEF IInv, TypeOK
<1>9. Nesting' /\ Sizes'
  BY <1>3 DEF IInv, Nesting, Sizes
<1>10. Ending'
  <2>1. /\ Len(tasks') = Len(tasks) + 1 /\ Len(tasks) \in Nat /\ tasks'[Len(tasks) + 1] = x
        /\ \A i \in 1 .. Len(tasks) : tasks'[i] = tasks[i]
    BY <1>2, <1>5, <1>6
  <2>2. ASSUME NEW i \in 1 .. Len(tasks') PROVE tasks'[i].kind # "fin"
    <3>1. i \in 1 .. Len(tasks) \/ i = Len(tasks) + 1
      BY <2>1
    <3> QED BY <1>2, <1>6, <1>7, <2>1, <3>1 DEF Ending
  <2>3. ~remoteClosed
    BY <1>2, <1>7 DEF Ending
  <2> QED BY <1>3, <1>7, <2>2, <2>3 DEF Ending
<1>11. Behind'
  <2>1. arrived <= arrived' /\ arrived' \in Nat /\ x.off + x.len <= arrived' /\ readPos <= arrived'
    BY <1>2, <1>4, <1>5, <1>6, <1>7 DEF Behind
  <2>2. PICK more : more = arrived'
    OBVIOUS
  <2>3. Below(queue, more) /\ Below(receiveBuffer, more) /\ Below(tasks, more)
    BY <1>5, <1>7, <2>1, <2>2, PieceTypes, BelowTop DEF Behind
  <2>4. Below(Append(tasks, x), more)
    BY <1>5, <1>6, <2>1, <2>2, <2>3, PieceTypes, BelowTop
  <2> QED BY <1>2, <1>3, <2>1, <2>2, <2>3, <2>4 DEF Behind
<1>12. Whole' => Whole /\ len = tot
  <2>1. ~cut' => ~cut /\ ~(len < tot)
    BY <1>2, Zenon
  <2>2. ~(len < tot) => len = tot
    BY <1>4
  <2> QED BY <1>3, <2>1, <2>2 DEF Whole
<1>13. Delivered' = Delivered /\ Buffered' = Buffered
  BY <1>3 DEF Delivered, Buffered
<1>14. Whole' => InLine'
  <2> SUFFICES ASSUME Whole' PROVE InLine'
    OBVIOUS
  <2>1. InLine /\ len = tot
    BY <1>12 DEF IInv
  <2>2. End(Append(tasks, x), Buffered) = arrived + tot /\ Follows(Append(tasks, x), Buffered)
    BY <1>5, <1>6, <2>1, AppendFollows DEF InLine
  <2> QED BY <1>2, <1>3, <1>13, <2>1, <2>2 DEF InLine
<1>15. Whole' /\ pcb' = "open" => Conserved'
  <2> SUFFICES ASSUME Whole' PROVE Conserved'
    OBVIOUS
  <2>1. Conserved
    BY <1>2, <1>12 DEF IInv
  <2>2. Bytes(frames) \in Nat /\ Delivered \in Nat
    BY <1>5, PieceTypes, EndType, BytesOfStack DEF IInv, TypeOK, Delivered
  <2> QED BY <1>2, <1>3, <1>4, <1>5, <1>13, <2>1, <2>2 DEF Conserved
<1> QED BY <1>8, <1>9, <1>10, <1>11, <1>14, <1>15 DEF IInv

\* The peer's FIN: the last import to be deferred.
LEMMA FinInd == IInv /\ RecvFin => IInv'
<1> SUFFICES ASSUME IInv, RecvFin PROVE IInv'
  OBVIOUS
<1>1. PICK x : x = [kind |-> "fin", off |-> arrived, len |-> 0]
  OBVIOUS
<1>2. /\ ~finArrived /\ finArrived' = TRUE
      /\ tasks' = Append(tasks, x)
      /\ UNCHANGED <<pcb, window, arrived, cut, connVars, frames, streamVars, appVars>>
  BY <1>1 DEF RecvFin
<1>3. UNCHANGED <<pcb, window, arrived, cut, receiveBuffer, remoteClosed, readableClosed,
                  disposed, closing, writable, frames, stream, queue, queued, pendingRead,
                  pulling, pullAgain, readPos, outcome>>
  BY <1>2 DEF connVars, streamVars, appVars
<1>4. /\ queue \in Seq(Chunk) /\ receiveBuffer \in Seq(Chunk) /\ tasks \in Seq(Task)
      /\ readPos \in Nat /\ arrived \in Nat
  BY DEF IInv, TypeOK
<1>5. x \in Task /\ x.kind = "fin" /\ x.off = arrived /\ x.len = 0
  BY <1>1, <1>4 DEF Task
<1>6. Ending /\ Behind
  BY DEF IInv
<1>7. TypeOK'
  <2>1. tasks' \in Seq(Task)
    BY <1>2, <1>4, <1>5
  <2> QED BY <1>2, <1>3, <2>1 DEF IInv, TypeOK
<1>8. Nesting' /\ Sizes'
  BY <1>3 DEF IInv, Nesting, Sizes
<1>9. Ending'
  <2>1. /\ Len(tasks') = Len(tasks) + 1 /\ Len(tasks) \in Nat /\ tasks'[Len(tasks) + 1] = x
        /\ \A i \in 1 .. Len(tasks) : tasks'[i] = tasks[i]
    BY <1>2, <1>4, <1>5
  <2>2. ASSUME NEW i \in 1 .. Len(tasks'), tasks'[i].kind = "fin" PROVE i = Len(tasks')
    <3>1. i \in 1 .. Len(tasks) \/ i = Len(tasks) + 1
      BY <2>1
    <3> QED BY <1>2, <1>6, <2>1, <2>2, <3>1 DEF Ending
  <2>3. ~remoteClosed
    BY <1>2, <1>6 DEF Ending
  <2> QED BY <1>2, <1>3, <1>6, <2>2, <2>3 DEF Ending
<1>10. Behind'
  <2>1. x.off + x.len <= arrived
    BY <1>4, <1>5
  <2>2. Below(Append(tasks, x), arrived)
    BY <1>4, <1>5, <1>6, <2>1, PieceTypes, BelowTop DEF Behind
  <2> QED BY <1>2, <1>3, <1>6, <2>2 DEF Behind
<1>11. (Whole' => Whole) /\ Delivered' = Delivered /\ Buffered' = Buffered
  BY <1>3 DEF Whole, Delivered, Buffered
<1>12. Whole' => InLine'
  <2> SUFFICES ASSUME Whole' PROVE InLine'
    OBVIOUS
  <2>1. InLine
    BY <1>11 DEF IInv
  <2>2. End(Append(tasks, x), Buffered) = arrived + 0 /\ Follows(Append(tasks, x), Buffered)
    BY <1>4, <1>5, <2>1, AppendFollows DEF InLine
  <2> QED BY <1>2, <1>3, <1>4, <1>11, <2>1, <2>2 DEF InLine
<1>13. Whole' /\ pcb' = "open" => Conserved'
  BY <1>3, <1>11 DEF IInv, Conserved
<1> QED BY <1>7, <1>8, <1>9, <1>10, <1>12, <1>13 DEF IInv

\* A deferred import runs: dropped after dispose(), else the chunk joins
\* receiveBuffer, or the connection learns of the FIN.
LEMMA TaskInd == IInv /\ RunTask => IInv'
<1> SUFFICES ASSUME IInv, RunTask PROVE IInv'
  OBVIOUS
<1>1. PICK x, rest : x = Head(tasks) /\ rest = Tail(tasks)
  OBVIOUS
<1>2. /\ frames = <<>> /\ tasks # <<>> /\ tasks' = rest
      /\ UNCHANGED <<tcpVars, readableClosed, disposed, closing, writable, streamVars, appVars>>
      /\ \/ disposed /\ UNCHANGED <<receiveBuffer, remoteClosed, frames>>
         \/ ~disposed /\ x.kind = "chunk" /\ Receive(x)
         \/ ~disposed /\ x.kind = "fin" /\ RemoteClose
  BY <1>1 DEF RunTask, Idle
<1>3. UNCHANGED <<pcb, window, arrived, finArrived, cut, readableClosed, disposed, closing,
                  writable, stream, queue, queued, pendingRead, pulling, pullAgain, readPos,
                  outcome>>
  BY <1>2 DEF tcpVars, streamVars, appVars
<1>4. /\ queue \in Seq(Chunk) /\ receiveBuffer \in Seq(Chunk) /\ tasks \in Seq(Task)
      /\ readPos \in Nat /\ arrived \in Nat /\ Ending /\ Behind
  BY DEF IInv, TypeOK
<1>5. /\ x \in Task /\ x = tasks[1] /\ rest \in Seq(Task)
      /\ Len(rest) = Len(tasks) - 1 /\ Len(tasks) \in Nat /\ Len(tasks) # 0
      /\ \A i \in 1 .. Len(rest) : rest[i] = tasks[i + 1]
  <2>1. /\ rest \in Seq(Task) /\ Len(rest) = Len(tasks) - 1
        /\ \A i \in 1 .. Len(rest) : rest[i] = tasks[i + 1]
    BY <1>1, <1>2, <1>4, HeadTailProperties
  <2>2. Len(tasks) \in Nat /\ Len(tasks) # 0
    BY <1>2, <1>4, EmptySeq, LenProperties
  <2>3. x \in Task /\ x = tasks[1]
    BY <1>1, <1>2, <1>4, TailFollows
  <2> QED BY <2>1, <2>2, <2>3
<1>6. \A p : /\ End(rest, x.off + x.len) = End(tasks, p)
             /\ Follows(tasks, p) => x.off = p /\ Follows(rest, x.off + x.len)
  BY <1>1, <1>2, <1>4, TailFollows
<1>7. Below(rest, arrived) /\ x.off + x.len <= arrived
  BY <1>1, <1>2, <1>4, PieceTypes, BelowTop DEF Behind
<1>8. /\ ~remoteClosed /\ stream \notin {"closing", "closed"}
      /\ disposed => ~Whole
      /\ x.kind = "fin" => finArrived /\ rest = <<>>
      /\ \A i \in 1 .. Len(rest) : rest[i].kind = "fin" => finArrived /\ i = Len(rest)
  <2>1. ~remoteClosed /\ stream \notin {"closing", "closed"} /\ (disposed => ~Whole)
    BY <1>2, <1>4 DEF Ending, Whole
  <2>2. 1 \in 1 .. Len(tasks) /\ \A i \in 1 .. Len(rest) : i + 1 \in 1 .. Len(tasks)
    BY <1>5
  <2>3. ASSUME NEW i \in 1 .. Len(rest), rest[i].kind = "fin" PROVE finArrived /\ i = Len(rest)
    <3>1. finArrived /\ i + 1 = Len(tasks)
      BY <1>4, <1>5, <2>2, <2>3 DEF Ending
    <3> QED BY <1>5, <3>1
  <2>4. x.kind = "fin" => finArrived /\ Len(tasks) = 1
    BY <1>4, <1>5, <2>2 DEF Ending
  <2>5. Len(tasks) = 1 => rest = <<>>
    BY <1>5, EmptySeq
  <2> QED BY <2>1, <2>3, <2>4, <2>5
<1>9. PICK c : c = [off |-> x.off, len |-> x.len]
  OBVIOUS
<1>10. x.kind = "chunk" => c \in Chunk /\ c.off = x.off /\ c.len = x.len
  BY <1>5, <1>9 DEF Chunk, Task
<1>11. /\ receiveBuffer' = receiveBuffer \/ (x.kind = "chunk" /\ receiveBuffer' = Append(receiveBuffer, c))
       /\ remoteClosed' = remoteClosed \/ (x.kind = "fin" /\ remoteClosed' = TRUE)
       /\ frames' = <<>> \/ frames' = <<Entered>>
  BY <1>2, <1>9 DEF Receive, RemoteClose
<1>12. /\ Nested(frames', pulling') /\ Bytes(frames') = Bytes(frames)
  BY <1>2, <1>11, StackIdle
<1>13. TypeOK'
  <2>1. receiveBuffer' \in Seq(Chunk)
    BY <1>4, <1>10, <1>11
  <2>2. frames' \in Seq(Frame) /\ Len(frames') <= 2 /\ tasks' \in Seq(Task)
    BY <1>2, <1>5, <1>12 DEF Nested
  <2>3. remoteClosed' \in BOOLEAN
    BY <1>11 DEF IInv, TypeOK
  <2> QED BY <1>3, <2>1, <2>2, <2>3 DEF IInv, TypeOK
<1>14. Nesting' /\ Sizes'
  BY <1>3, <1>12 DEF IInv, Nested, Nesting, Sizes
<1>15. Ending'
  <2>1. remoteClosed' => finArrived' /\ tasks' = <<>>
    BY <1>2, <1>3, <1>8, <1>11
  <2> QED BY <1>2, <1>3, <1>4, <1>8, <2>1 DEF Ending
<1>16. Behind'
  <2>1. x.kind = "chunk" => Below(Append(receiveBuffer, c), arrived)
    BY <1>4, <1>7, <1>10, PieceTypes, BelowTop DEF Behind
  <2>2. Below(receiveBuffer', arrived)
    BY <1>4, <1>11, <2>1 DEF Behind
  <2> QED BY <1>2, <1>3, <1>4, <1>7, <2>2 DEF Behind
<1>17. (Whole' => Whole /\ ~disposed) /\ Delivered' = Delivered
  BY <1>3, <1>8 DEF Whole, Delivered
<1>18. Whole' => InLine'
  <2> SUFFICES ASSUME Whole' PROVE InLine'
    OBVIOUS
  <2>1. InLine /\ ~disposed
    BY <1>17 DEF IInv
  <2>2. x.off = Buffered /\ Follows(rest, x.off + x.len) /\ End(rest, x.off + x.len) = arrived
    BY <1>6, <2>1 DEF InLine
  <2>3. /\ Follows(receiveBuffer', Delivered) /\ End(receiveBuffer', Delivered) = x.off + x.len
    <3>1. CASE x.kind = "chunk" /\ receiveBuffer' = Append(receiveBuffer, c)
      BY <1>4, <1>10, <2>1, <2>2, <3>1, AppendFollows DEF InLine, Buffered
    <3>2. CASE x.kind = "fin" /\ receiveBuffer' = receiveBuffer
      <4>1. x.len = 0 /\ x.off \in Nat
        BY <1>5, <3>2 DEF Task
      <4> QED BY <2>1, <2>2, <3>2, <4>1 DEF InLine, Buffered
    <3> QED BY <1>2, <1>9, <2>1, <3>1, <3>2 DEF Receive, RemoteClose
  <2> QED BY <1>2, <1>3, <1>17, <2>1, <2>2, <2>3 DEF InLine, Buffered
<1>19. Whole' /\ pcb' = "open" => Conserved'
  BY <1>3, <1>12, <1>17 DEF IInv, Conserved
<1> QED BY <1>13, <1>14, <1>15, <1>16, <1>18, <1>19 DEF IInv

\* read() takes the first chunk of the queue; the last one may end the stream.
LEMMA ReadInd == IInv /\ ReadQueued => IInv'
<1> SUFFICES ASSUME IInv, ReadQueued PROVE IInv'
  OBVIOUS
<1>1. PICK chunk, rest, size : /\ chunk = Head(queue) /\ rest = Tail(queue)
                               /\ size = queued - chunk.len
  OBVIOUS
<1>2. /\ frames = <<>> /\ queue # <<>> /\ queue' = rest /\ queued' = size
      /\ readPos' = chunk.off + chunk.len
      /\ UNCHANGED <<tcpVars, tasks, connVars, pendingRead, outcome>>
      /\ \/ /\ stream = "closing" /\ rest = <<>> /\ stream' = "closed"
            /\ UNCHANGED <<pulling, pullAgain, frames>>
         \/ CallPullIfNeeded(FALSE, size, frames) /\ UNCHANGED stream
  BY <1>1 DEF ReadQueued, Idle
<1>3. UNCHANGED <<pcb, window, arrived, finArrived, cut, receiveBuffer, remoteClosed,
                  readableClosed, disposed, closing, writable>>
  BY <1>2 DEF tcpVars, connVars
<1>4. /\ queue \in Seq(Chunk) /\ receiveBuffer \in Seq(Chunk) /\ tasks \in Seq(Task)
      /\ readPos \in Nat /\ arrived \in Nat /\ queued \in Nat
      /\ pulling \in BOOLEAN /\ pullAgain \in BOOLEAN /\ Ending /\ Behind
  BY DEF IInv, TypeOK
<1>5. /\ chunk \in Chunk /\ chunk.off \in Nat /\ chunk.len \in Nat /\ rest \in Seq(Chunk)
      /\ \A p : /\ End(rest, chunk.off + chunk.len) = End(queue, p)
                /\ Follows(queue, p) => /\ chunk.off = p
                                        /\ Follows(rest, chunk.off + chunk.len)
  BY <1>1, <1>2, <1>4, TailFollows, PieceTypes DEF Pieces
<1>6. size \in Nat /\ TotalIs(rest, size)
  BY <1>1, <1>2, <1>4, PieceTypes, TailTotal DEF IInv, Sizes
<1>7. /\ Nested(frames', pulling') /\ Bytes(frames') = Bytes(frames)
      /\ pulling' \in BOOLEAN /\ pullAgain' \in BOOLEAN
  <2>1. CASE UNCHANGED <<pulling, pullAgain, frames>>
    BY <1>4, <2>1, StackNests
  <2>2. CASE CallPullIfNeeded(FALSE, size, frames)
    BY <1>4, <2>2, StackNests, PullNests
  <2> QED BY <1>2, <2>1, <2>2
<1>8. /\ stream' = stream \/ (stream = "closing" /\ stream' = "closed" /\ rest = <<>>)
      /\ stream # "closed" /\ ~pendingRead
  BY <1>2, <1>4 DEF Ending
<1>9. TypeOK'
  <2>1. frames' \in Seq(Frame) /\ Len(frames') <= 2
    BY <1>7 DEF Nested
  <2>2. queue' \in Seq(Chunk) /\ queued' \in Nat /\ readPos' \in Nat
    BY <1>2, <1>5, <1>6
  <2>3. stream' \in {"readable", "closing", "closed", "cancelled", "errored"}
    BY <1>8 DEF IInv, TypeOK
  <2>4. /\ pcb' \in {"open", "finwait", "freed"}
        /\ window' \in 0 .. Wnd /\ arrived' \in Nat /\ finArrived' \in BOOLEAN
        /\ cut' \in BOOLEAN /\ tasks' \in Seq(Task) /\ receiveBuffer' \in Seq(Chunk)
        /\ remoteClosed' \in BOOLEAN /\ readableClosed' \in BOOLEAN
        /\ disposed' \in BOOLEAN /\ closing' \in BOOLEAN /\ pendingRead' \in BOOLEAN
        /\ writable' \in {"open", "errored"} /\ outcome' \in {"none", "done", "error"}
    BY <1>2, <1>3 DEF IInv, TypeOK
  <2> QED BY <1>7, <2>1, <2>2, <2>3, <2>4 DEF TypeOK
<1>10. Nesting' /\ Sizes'
  BY <1>2, <1>6, <1>7 DEF Nested, Nesting, Sizes
<1>11. Ending'
  BY <1>2, <1>3, <1>4, <1>8 DEF Ending
<1>12. Behind'
  <2>1. Below(rest, arrived) /\ chunk.off + chunk.len <= arrived
    BY <1>1, <1>2, <1>4, PieceTypes, BelowTop DEF Behind
  <2> QED BY <1>2, <1>3, <1>4, <2>1 DEF Behind
<1>13. Delivered' = Delivered
  BY <1>2, <1>5 DEF Delivered
<1>14. Buffered' = Buffered
  BY <1>3, <1>13 DEF Buffered
<1>15. Whole' => Whole
  BY <1>3, <1>8 DEF Whole
<1>16. Whole' => InLine'
  BY <1>2, <1>3, <1>5, <1>13, <1>14, <1>15 DEF IInv, InLine
<1>17. Whole' /\ pcb' = "open" => Conserved'
  BY <1>3, <1>7, <1>13, <1>15 DEF IInv, Conserved
<1> QED BY <1>9, <1>10, <1>11, <1>12, <1>16, <1>17 DEF IInv

-----------------------------------------------------------------------------
(* The theorems *)

LEMMA Initially == Init => IInv
<1> SUFFICES ASSUME Init PROVE IInv
  OBVIOUS
<1>1. TypeOK
  <2>1. /\ <<>> \in Seq(Task) /\ <<>> \in Seq(Chunk) /\ <<>> \in Seq(Frame)
        /\ Len(frames) <= 2
    BY DEF Init
  <2>2. Wnd \in 0 .. Wnd
    BY ReceiveConstants
  <2> QED BY <2>1, <2>2 DEF Init, TypeOK
<1>2. Nesting /\ Ending /\ Behind
  BY DEF Init, Nesting, Ending, Behind, Below
<1>3. Sizes
  BY NothingTotal DEF Init, Sizes
<1>4. InLine
  BY DEF Init, InLine, Delivered, Buffered, Follows, End
<1>5. Conserved
  <2>1. Delivered = 0 /\ Bytes(frames) = 0
    BY StackIdle DEF Init, Delivered, End
  <2> QED BY <2>1, ReceiveConstants DEF Init, Conserved
<1> QED BY <1>1, <1>2, <1>3, <1>4, <1>5 DEF IInv

LEMMA Stuttering == IInv /\ UNCHANGED vars => IInv'
<1> SUFFICES ASSUME IInv, UNCHANGED vars PROVE IInv'
  OBVIOUS
<1> USE DEF vars, tcpVars, connVars, streamVars, appVars
<1>1. TypeOK' /\ Nesting' /\ Ending' /\ Sizes' /\ Behind'
  BY DEF IInv, TypeOK, Nesting, Ending, Sizes, Behind
<1>2. Whole' => InLine'
  BY DEF IInv, Whole, InLine, Delivered, Buffered
<1>3. Whole' /\ pcb' = "open" => Conserved'
  BY DEF IInv, Whole, Conserved, Delivered
<1> QED BY <1>1, <1>2, <1>3 DEF IInv

LEMMA Inductive == IInv /\ [Next]_vars => IInv'
<1>1. IInv /\ System => IInv'
  BY EnterInd, MoveInd, DoneInd, TaskInd, PullInd, SettledInd DEF System
<1>2. IInv /\ Peer => IInv'
  BY RecvInd, FinInd DEF Peer
<1>3. IInv /\ Read => IInv'
  BY ReadInd, WaitInd, EndInd DEF Read
<1> QED BY <1>1, <1>2, <1>3, CancelInd, CloseInd, DisposeInd, Stuttering DEF Next

LEMMA Invariant == Spec => []IInv
BY Initially, Inductive, PTL DEF Spec

\* Until reading is given up, the bytes read, the stream's queue, receiveBuffer
\* and the deferred imports are the bytes that arrived, end to end, and the end
\* of the stream comes after all of them.
THEOREM DeliveredInOrder == Spec => []InOrder
<1>1. IInv => InOrder
  <2> SUFFICES ASSUME IInv PROVE InOrder
    OBVIOUS
  <2>1. Whole => InLine
    BY DEF IInv
  <2>2. ASSUME Whole, stream = "closed" PROVE readPos = arrived
    <3>1. queue = <<>> /\ receiveBuffer = <<>> /\ tasks = <<>>
      BY <2>2 DEF IInv, Ending
    <3> QED BY <2>1, <2>2, <3>1 DEF InLine, Buffered, Delivered, End
  <2> QED BY <2>1, <2>2 DEF IInv, InOrder, Whole, InLine, Buffered, Delivered
<1> QED BY <1>1, Invariant, PTL

LEMMA MovedIs == TypeOK => MovedBytes = Bytes(frames)
<1> SUFFICES ASSUME TypeOK PROVE MovedBytes = Bytes(frames)
  OBVIOUS
<1>1. Len(frames) \in Nat /\ Len(frames) <= 2
  BY BytesOfStack DEF TypeOK
<1>2. \A i \in 1 .. Len(frames) : Moved[i] = frames[i].bytes
  BY DEF Moved
<1>3. CASE Len(frames) = 0
  BY <1>3 DEF MovedBytes, Bytes
<1>4. CASE Len(frames) = 1
  <2>1. 1 \in 1 .. Len(frames)
    BY <1>4
  <2> QED BY <1>2, <1>4, <2>1 DEF MovedBytes, Bytes
<1>5. CASE Len(frames) = 2
  <2>1. 1 \in 1 .. Len(frames) /\ 2 \in 1 .. Len(frames)
    BY <1>5
  <2> QED BY <1>2, <1>5, <2>1 DEF MovedBytes, Bytes
<1> QED BY <1>1, <1>3, <1>4, <1>5, UpToTwo

\* While the block is open, what the window lacks is what the stream has not
\* taken yet: credit is given back once for every byte, and not before.
THEOREM CreditConserved == Spec => []WindowConserved
<1>1. IInv => WindowConserved
  BY MovedIs DEF IInv, WindowConserved, Whole, Conserved, Delivered
<1> QED BY <1>1, Invariant, PTL

\* When lwIP hands over single pbufs only (nothing arrives out of order), the end
\* of the stream is reported after every byte: the long chains are what breaks it.
THEOREM EofLastUnlessChained == Reordering = FALSE => (Spec => []EofAfterAllData)
<1> SUFFICES ASSUME Reordering = FALSE PROVE Spec => []EofAfterAllData
  OBVIOUS
<1>1. Init => ~cut
  BY DEF Init
<1>2. ~cut /\ [Next]_vars => ~cut'
  <2>1. ASSUME ~cut, UNCHANGED cut PROVE ~cut'
    BY <2>1
  <2>2. ASSUME ~cut, NEW tot \in ChunkSizes, NEW len \in 1 .. tot, RecvCallback(tot, len)
        PROVE  ~cut'
    <3>1. len = tot /\ cut' = (cut \/ len < tot)
      BY <2>2 DEF RecvCallback
    <3>2. len \in Nat
      BY ReceiveConstants
    <3>3. ~(len < tot)
      BY <3>1, <3>2
    <3> QED BY <2>2, <3>1, <3>3, Zenon
  <2>3. System \/ RecvFin \/ Read \/ Cancel \/ Close \/ Dispose \/ UNCHANGED vars => UNCHANGED cut
    BY DEF System, Read, EnqueueEnter, EnqueueChunk, EnqueueDone, RunTask, PullSettled,
           CloseSettled, RecvFin, ReadQueued, ReadWait, ReadEnd, Cancel, Close, Dispose,
           vars, tcpVars
  <2> QED BY <2>1, <2>2, <2>3 DEF Next, Peer
<1>3. Spec => []~cut
  BY <1>1, <1>2, PTL DEF Spec
<1>4. InOrder /\ ~cut => EofAfterAllData
  BY DEF InOrder, EofAfterAllData
<1> QED BY <1>3, <1>4, DeliveredInOrder, PTL
-----------------------------------------------------------------------------
(* Nothing is forgotten                                                     *)

\* A pull() is still to see what the stream asks for: one was asked for while
\* another is pending, or an activation has not moved its first chunk.
Asked ==
  \/ pulling /\ pullAgain
  \/ \E i \in 1 .. Len(frames) : frames[i].bytes = 0

\* Data that the stream has room for is asked for.
Demanded == stream = "readable" /\ receiveBuffer # <<>> /\ queued < HighWater => Asked

\* The peer's FIN is on its way or known, and once it is known and all data is
\* delivered, an activation that will end the stream is under way.
EndNoticed ==
  /\ finArrived => remoteClosed \/ disposed \/ \E i \in 1 .. Len(tasks) : tasks[i].kind = "fin"
  /\ remoteClosed /\ receiveBuffer = <<>> /\ stream = "readable" => ~Idle

Owed == Demanded /\ EndNoticed

\* An activation in front of others asks until it moves its first chunk.
LEMMA FrontAsks ==
  ASSUME NEW f \in Frame, NEW stack \in Seq(Frame), f.bytes = 0, frames' = <<f>> \o stack
  PROVE  Asked' /\ ~Idle'
<1>1. 1 \in 1 .. Len(frames') /\ frames'[1] = f
  OBVIOUS
<1> QED BY <1>1 DEF Asked, Idle

LEMMA PullAsks ==
  ASSUME NEW waiting, NEW size, NEW stack \in Seq(Frame), CallPullIfNeeded(waiting, size, stack),
         stream = "readable", waiting \/ size < HighWater
  PROVE  Asked'
<1>1. CASE pulling
  BY <1>1 DEF CallPullIfNeeded, Asked
<1>2. CASE ~pulling
  <2>1. Entered \in Frame /\ Entered.bytes = 0
    BY DEF Entered, Frame
  <2>2. frames' = <<Entered>> \o stack
    BY <1>2 DEF CallPullIfNeeded
  <2> QED BY <2>1, <2>2, FrontAsks
<1> QED BY <1>1, <1>2

\* enqueueBuffer ends the stream when the FIN is known and nothing is left.
LEMMA FinishCloses ==
  IInv /\ FinishIfRemoteClosed /\ remoteClosed /\ receiveBuffer = <<>> => stream' # "readable"
BY DEF IInv, Ending, FinishIfRemoteClosed, CloseReadable, CloseController, streamVars

\* No import, no chunk and no FIN: whatever was asked for still is.
LEMMA OwedKept ==
  ASSUME Owed, UNCHANGED <<finArrived, remoteClosed, disposed, tasks, receiveBuffer, frames,
                           stream, queued, pulling, pullAgain>>
  PROVE  Owed'
BY DEF Owed, Demanded, EndNoticed, Asked, Idle

\* The stream ends, fails or is cancelled: nothing is asked for any more.
LEMMA OwedDropped ==
  ASSUME Owed, UNCHANGED <<finArrived, remoteClosed, tasks>>, disposed => disposed',
         stream' # "readable"
  PROVE  Owed'
BY DEF Owed, Demanded, EndNoticed

LEMMA EnterOwed == IInv /\ Owed /\ EnqueueEnter => Owed'
<1> SUFFICES ASSUME IInv, Owed, EnqueueEnter PROVE Owed'
  OBVIOUS
<1>1. UNCHANGED <<finArrived, tasks, receiveBuffer, remoteClosed, disposed>>
  BY DEF EnqueueEnter, tcpVars
<1>2. CASE remoteClosed /\ receiveBuffer = <<>>
  <2>1. stream' # "readable"
    BY <1>2, FinishCloses DEF EnqueueEnter
  <2> QED BY <1>1, <2>1, OwedDropped
<1>3. CASE ~(remoteClosed /\ receiveBuffer = <<>>)
  <2>1. /\ UNCHANGED <<stream, queued, pulling, pullAgain>>
        /\ frames' = IF InDemand THEN <<[at |-> "loop", bytes |-> 0]>> \o Tail(frames)
                     ELSE Tail(frames)
    BY <1>3 DEF EnqueueEnter, streamVars
  <2>2. EndNoticed'
    BY <1>1, <1>3 DEF Owed, EndNoticed
  <2>3. CASE InDemand
    <3>1. PICK f : f = [at |-> "loop", bytes |-> 0]
      OBVIOUS
    <3>2. f \in Frame /\ f.bytes = 0 /\ Tail(frames) \in Seq(Frame)
      BY <3>1, StackPopped DEF EnqueueEnter, Frame
    <3>3. Asked'
      BY <2>1, <2>3, <3>1, <3>2, FrontAsks
    <3> QED BY <2>2, <3>3 DEF Owed, Demanded
  <2>4. CASE ~InDemand
    <3>1. queued \in Nat
      BY DEF IInv, TypeOK
    <3>2. stream = "readable" => ~(queued < HighWater)
      BY <2>4, <3>1, ReceiveConstants DEF InDemand, DesiredSize
    <3> QED BY <2>1, <2>2, <3>2 DEF Owed, Demanded
  <2> QED BY <2>3, <2>4
<1> QED BY <1>2, <1>3

LEMMA MoveOwed == IInv /\ Owed /\ EnqueueChunk => Owed'
<1> SUFFICES ASSUME IInv, Owed, EnqueueChunk PROVE Owed'
  OBVIOUS
<1>1. PICK size, f : /\ CallPullIfNeeded(FALSE, size, <<f>> \o Tail(frames))
                     /\ queued' = size /\ f = [Head(frames) EXCEPT !.bytes = @ + Head(receiveBuffer).len]
  BY DEF EnqueueChunk
<1>2. ~Idle /\ UNCHANGED <<finArrived, tasks, remoteClosed, disposed, stream>>
      /\ receiveBuffer # <<>>
  BY DEF EnqueueChunk, CanMove, tcpVars
<1>3. f \in Frame /\ Tail(frames) \in Seq(Frame)
  <2>1. Head(frames) \in Frame /\ Tail(frames) \in Seq(Frame)
    BY <1>2, StackPopped
  <2>2. receiveBuffer \in Seq(Chunk)
    BY DEF IInv, TypeOK
  <2>3. Head(receiveBuffer).len \in Nat
    BY <1>2, <2>2, TailFollows, PieceTypes DEF Pieces
  <2>4. PICK top \in Frame, n \in Nat : f = [top EXCEPT !.bytes = @ + n]
    BY <1>1, <2>1, <2>3
  <2>5. top.bytes + n \in Nat
    BY <2>4 DEF Frame
  <2>6. f \in Frame
    BY <2>4, <2>5 DEF Frame
  <2> QED BY <2>1, <2>6
<1>4. <<f>> \o Tail(frames) \in Seq(Frame) /\ <<f>> \o Tail(frames) # <<>>
  BY <1>3
<1>5. ~Idle'
  <2>1. <<Entered>> \o (<<f>> \o Tail(frames)) # <<>>
    BY <1>4 DEF Entered, Frame
  <2> QED BY <1>1, <1>4, <2>1 DEF CallPullIfNeeded, Idle
<1>6. Demanded'
  <2> SUFFICES ASSUME stream = "readable", size < HighWater PROVE Asked'
    BY <1>1, <1>2 DEF Demanded
  <2> QED BY <1>1, <1>4, PullAsks
<1>7. EndNoticed'
  BY <1>2, <1>5 DEF Owed, EndNoticed
<1> QED BY <1>6, <1>7 DEF Owed

LEMMA DoneOwed == IInv /\ Owed /\ EnqueueDone => Owed'
<1> SUFFICES ASSUME IInv, Owed, EnqueueDone PROVE Owed'
  OBVIOUS
<1>1. /\ ~Idle /\ ~CanMove(Head(frames)) /\ frames' = Tail(frames) /\ FinishIfRemoteClosed
      /\ UNCHANGED <<finArrived, tasks, receiveBuffer, remoteClosed, disposed>>
  BY DEF EnqueueDone
<1>2. CASE remoteClosed /\ receiveBuffer = <<>>
  BY <1>1, <1>2, FinishCloses, OwedDropped
<1>3. CASE ~(remoteClosed /\ receiveBuffer = <<>>)
  <2>1. UNCHANGED <<stream, queued, pulling, pullAgain>>
    BY <1>1, <1>3 DEF FinishIfRemoteClosed, streamVars
  <2>2. EndNoticed'
    BY <1>1, <1>3, <2>1 DEF Owed, EndNoticed
  <2>3. ASSUME stream = "readable", receiveBuffer # <<>>, queued < HighWater PROVE Asked'
    <3>1. Asked /\ Head(frames).bytes # 0
      BY <1>1, <2>3 DEF Owed, Demanded, CanMove, Fits
    <3>2. CASE pulling /\ pullAgain
      BY <2>1, <3>2 DEF Asked
    <3>3. CASE ~(pulling /\ pullAgain)
      <4>1. PICK i \in 1 .. Len(frames) : frames[i].bytes = 0
        BY <3>1, <3>3 DEF Asked
      <4>2. frames \in Seq(Frame) /\ frames # <<>> /\ Head(frames) = frames[1]
        BY <1>1, StackPopped DEF IInv, TypeOK, Idle
      <4>3. i # 1
        BY <3>1, <4>1, <4>2
      <4>4. i - 1 \in 1 .. Len(Tail(frames)) /\ Tail(frames)[i - 1] = frames[i]
        BY <4>1, <4>2, <4>3
      <4> QED BY <1>1, <4>1, <4>4 DEF Asked
    <3> QED BY <3>2, <3>3
  <2> QED BY <1>1, <2>1, <2>2, <2>3 DEF Owed, Demanded
<1> QED BY <1>2, <1>3

\* A deferred import that is not dropped enters enqueueBuffer.
LEMMA TaskOwed == IInv /\ Owed /\ RunTask => Owed'
<1> SUFFICES ASSUME IInv, Owed, RunTask PROVE Owed'
  OBVIOUS
<1>1. /\ tasks \in Seq(Task) /\ tasks # <<>> /\ tasks' = Tail(tasks)
      /\ UNCHANGED <<finArrived, disposed, stream>>
  BY DEF IInv, TypeOK, RunTask, tcpVars, streamVars
<1>2. CASE disposed
  <2>1. stream # "readable"
    BY <1>2 DEF IInv, Ending
  <2> QED BY <1>1, <1>2, <2>1 DEF Owed, Demanded, EndNoticed
<1>3. CASE ~disposed
  <2>1. /\ frames' = <<Entered>>
        /\ \/ Head(tasks).kind = "chunk" /\ remoteClosed' = remoteClosed
           \/ Head(tasks).kind = "fin" /\ remoteClosed' = TRUE
    BY <1>3 DEF RunTask, Receive, RemoteClose
  <2>2. Asked' /\ ~Idle'
    <3>1. Len(<<Entered>>) = 1 /\ <<Entered>>[1] = Entered /\ <<Entered>> # <<>>
      OBVIOUS
    <3>2. 1 \in 1 .. Len(frames') /\ frames'[1].bytes = 0
      BY <2>1, <3>1 DEF Entered
    <3> QED BY <2>1, <3>1, <3>2 DEF Asked, Idle
  <2>3. finArrived => remoteClosed' \/ disposed \/ \E i \in 1 .. Len(tasks') : tasks'[i].kind = "fin"
    <3> SUFFICES ASSUME finArrived, ~remoteClosed', Head(tasks).kind = "chunk"
                 PROVE  \E i \in 1 .. Len(tasks') : tasks'[i].kind = "fin"
      BY <2>1
    <3>1. PICK i \in 1 .. Len(tasks) : tasks[i].kind = "fin"
      BY <1>3, <2>1 DEF Owed, EndNoticed
    <3>2. i # 1
      BY <1>1, <3>1
    <3>3. i - 1 \in 1 .. Len(Tail(tasks)) /\ Tail(tasks)[i - 1] = tasks[i]
      BY <1>1, <3>1, <3>2
    <3> QED BY <1>1, <3>1, <3>3
  <2> QED BY <1>1, <2>2, <2>3 DEF Owed, Demanded, EndNoticed
<1> QED BY <1>2, <1>3

\* pull() settles: what was asked for meanwhile is asked for again.
LEMMA SettleOwed == IInv /\ Owed /\ PullSettled => Owed'
<1> SUFFICES ASSUME IInv, Owed, PullSettled PROVE Owed'
  OBVIOUS
<1>1. /\ frames = <<>> /\ Idle
      /\ UNCHANGED <<finArrived, tasks, receiveBuffer, remoteClosed, disposed, stream, queued>>
  BY DEF PullSettled, Idle, tcpVars, connVars
<1>2. EndNoticed'
  BY <1>1 DEF Owed, EndNoticed
<1>3. ASSUME stream = "readable", receiveBuffer # <<>>, queued < HighWater PROVE Asked'
  <2>1. ~\E i \in 1 .. Len(frames) : frames[i].bytes = 0
    BY <1>1
  <2>2. pullAgain
    BY <1>3, <2>1 DEF Owed, Demanded, Asked
  <2>3. frames' = <<Entered>>
    BY <1>3, <2>2 DEF PullSettled
  <2>4. 1 \in 1 .. Len(<<Entered>>) /\ <<Entered>>[1] = Entered /\ Entered.bytes = 0
    BY DEF Entered
  <2> QED BY <2>3, <2>4 DEF Asked
<1> QED BY <1>1, <1>2, <1>3 DEF Owed, Demanded

LEMMA ReadOwed == IInv /\ Owed /\ Read => Owed'
<1> SUFFICES ASSUME IInv, Owed, Read PROVE Owed'
  OBVIOUS
<1>1. frames \in Seq(Frame) /\ Idle
  BY DEF IInv, TypeOK, Read, ReadQueued, ReadWait, ReadEnd
<1>2. CASE ReadEnd
  BY <1>2, OwedKept DEF ReadEnd, tcpVars, connVars, streamVars
<1>3. CASE ReadQueued /\ stream' = "closed"
  <2>1. UNCHANGED <<finArrived, remoteClosed, tasks, disposed>>
    BY <1>3 DEF ReadQueued, tcpVars, connVars
  <2> QED BY <1>3, <2>1, OwedDropped
<1>4. ASSUME NEW waiting, NEW size, CallPullIfNeeded(waiting, size, frames), queued' = size,
             UNCHANGED <<finArrived, remoteClosed, tasks, disposed, receiveBuffer, stream>>
      PROVE  Owed'
  <2>1. EndNoticed'
    BY <1>1, <1>4 DEF Owed, EndNoticed
  <2>2. ASSUME stream = "readable", size < HighWater PROVE Asked'
    BY <1>1, <1>4, <2>2, PullAsks
  <2> QED BY <1>4, <2>1, <2>2 DEF Owed, Demanded
<1>5. CASE ReadQueued /\ stream' # "closed"
  <2>1. PICK size : queued' = size /\ CallPullIfNeeded(FALSE, size, frames)
    BY <1>5 DEF ReadQueued
  <2>2. UNCHANGED <<finArrived, remoteClosed, tasks, disposed, receiveBuffer, stream>>
    BY <1>5 DEF ReadQueued, tcpVars, connVars
  <2> QED BY <1>4, <2>1, <2>2
<1>6. CASE ReadWait
  <2>1. queued' = queued /\ CallPullIfNeeded(TRUE, queued, frames)
    BY <1>6 DEF ReadWait
  <2>2. UNCHANGED <<finArrived, remoteClosed, tasks, disposed, receiveBuffer, stream>>
    BY <1>6 DEF ReadWait, tcpVars, connVars
  <2> QED BY <1>4, <2>1, <2>2
<1> QED BY <1>2, <1>3, <1>5, <1>6 DEF Read

LEMMA PeerOwed == IInv /\ Owed /\ Peer => Owed'
<1> SUFFICES ASSUME IInv, Owed, Peer PROVE Owed'
  OBVIOUS
<1>1. tasks \in Seq(Task)
  BY DEF IInv, TypeOK
<1>2. ASSUME NEW x \in Task, tasks' = Append(tasks, x), finArrived' => finArrived \/ x.kind = "fin",
             UNCHANGED <<remoteClosed, disposed, receiveBuffer, frames, stream, queued, pulling,
                         pullAgain>>
      PROVE  Owed'
  <2>1. /\ Len(tasks) \in Nat /\ Len(tasks') = Len(tasks) + 1 /\ tasks'[Len(tasks) + 1] = x
        /\ \A i \in 1 .. Len(tasks) : i \in 1 .. Len(tasks') /\ tasks'[i] = tasks[i]
    BY <1>1, <1>2
  <2>2. finArrived' => remoteClosed \/ disposed \/ \E i \in 1 .. Len(tasks') : tasks'[i].kind = "fin"
    <3>1. CASE x.kind = "fin"
      <4>1. Len(tasks) + 1 \in 1 .. Len(tasks')
        BY <2>1
      <4> QED BY <2>1, <3>1, <4>1
    <3>2. CASE x.kind # "fin"
      BY <1>2, <2>1, <3>2 DEF Owed, EndNoticed
    <3> QED BY <3>1, <3>2
  <2> QED BY <1>2, <2>2 DEF Owed, Demanded, EndNoticed, Asked, Idle
<1>3. ASSUME NEW tot \in ChunkSizes, NEW len \in 1 .. tot, RecvCallback(tot, len)
      PROVE  Owed'
  <2>1. PICK x : x = [kind |-> "chunk", off |-> arrived, len |-> len]
    OBVIOUS
  <2>2. tot \in Nat /\ arrived \in Nat
    BY ReceiveConstants DEF IInv, TypeOK
  <2>3. x \in Task
    BY <2>1, <2>2 DEF Task
  <2> QED BY <1>2, <1>3, <2>1, <2>3 DEF RecvCallback, connVars, streamVars
<1>4. CASE RecvFin
  <2>1. PICK x : x = [kind |-> "fin", off |-> arrived, len |-> 0]
    OBVIOUS
  <2>2. x \in Task /\ x.kind = "fin"
    BY <2>1 DEF Task, IInv, TypeOK
  <2> QED BY <1>2, <1>4, <2>1, <2>2 DEF RecvFin, connVars, streamVars
<1> QED BY <1>3, <1>4 DEF Peer

\* close() settles, cancel() and dispose(): the stream is over.
LEMMA OverOwed == IInv /\ Owed /\ (CloseSettled \/ Cancel \/ Dispose) => Owed'
<1> SUFFICES ASSUME IInv, Owed, CloseSettled \/ Cancel \/ Dispose PROVE Owed'
  OBVIOUS
<1>1. UNCHANGED <<finArrived, remoteClosed, tasks>> /\ (disposed => disposed')
  BY DEF CloseSettled, Cancel, Dispose, tcpVars, connVars
<1>2. stream' # "readable"
  <2>1. ErrorReadable => stream' # "readable"
    BY DEF IInv, Ending, ErrorReadable, ErrorController, streamVars
  <2> QED BY <2>1 DEF CloseSettled, Cancel, Dispose
<1> QED BY <1>1, <1>2, OwedDropped

LEMMA OwedInductive == IInv /\ Owed /\ [Next]_vars => Owed'
<1>1. IInv /\ Owed /\ System => Owed'
  BY EnterOwed, MoveOwed, DoneOwed, TaskOwed, SettleOwed, OverOwed DEF System
<1>2. Owed /\ Close => Owed'
  BY OwedKept DEF Close, streamVars
<1>3. Owed /\ UNCHANGED vars => Owed'
  BY OwedKept DEF vars, tcpVars, connVars, streamVars
<1> QED BY <1>1, <1>2, <1>3, ReadOwed, PeerOwed, OverOwed DEF Next

\* A connection comes to rest with an open stream only when the stream is full, or
\* when all that arrived is in it and the whole window is open: no wake-up of
\* #enqueueBuffer is lost between receive(), pull() and the peer's FIN.
THEOREM RestsOnlyWhenDone == Spec => []NothingForgotten
<1>1. Init => Owed
  BY DEF Init, Owed, Demanded, EndNoticed
<1>2. IInv /\ Owed => NothingForgotten
  <2> SUFFICES ASSUME IInv, Owed, AtRest, stream = "readable"
               PROVE  \/ queued >= HighWater /\ ~pendingRead
                      \/ /\ receiveBuffer = <<>> /\ ~finArrived
                         /\ ~cut /\ pcb = "open" => window = Wnd
    BY DEF NothingForgotten
  <2>1. /\ frames = <<>> /\ tasks = <<>> /\ ~Asked /\ queued \in Nat
        /\ window \in Nat /\ arrived \in Nat
    BY ReceiveConstants DEF AtRest, Idle, Asked, IInv, TypeOK
  <2>2. CASE receiveBuffer # <<>>
    <3>1. queued >= HighWater
      BY <2>1, <2>2, ReceiveConstants DEF Owed, Demanded
    <3>2. queue = <<>> => queued = 0
      BY DEF IInv, Sizes, TotalIs
    <3>3. ~pendingRead
      BY <3>1, <3>2, ReceiveConstants DEF IInv, Ending
    <3> QED BY <3>1, <3>3
  <2>3. CASE receiveBuffer = <<>>
    <3>1. ~remoteClosed
      BY <2>3 DEF Owed, EndNoticed, AtRest
    <3>2. ~disposed
      BY DEF IInv, Ending
    <3>3. ~finArrived
      BY <2>1, <3>1, <3>2 DEF Owed, EndNoticed
    <3>4. ASSUME ~cut, pcb = "open" PROVE window = Wnd
      <4>1. InLine /\ Conserved
        BY <3>4 DEF IInv, Whole
      <4>2. Delivered = arrived
        BY <2>1, <2>3, <4>1 DEF InLine, Buffered, End
      <4>3. Bytes(frames) = 0
        BY <2>1, StackIdle
      <4> QED BY <2>1, <4>1, <4>2, <4>3 DEF Conserved
    <3> QED BY <2>3, <3>3, <3>4
  <2> QED BY <2>2, <2>3
<1> QED BY <1>1, <1>2, Invariant, OwedInductive, PTL DEF Spec

-----------------------------------------------------------------------------
(* The connection is a byte stream                                          *)

LEMMA AtEnd == IInv /\ ~cut /\ stream = "closed" => readPos = arrived /\ finArrived
<1> SUFFICES ASSUME IInv, ~cut, stream = "closed" PROVE readPos = arrived /\ finArrived
  OBVIOUS
<1>1. queue = <<>> /\ receiveBuffer = <<>> /\ tasks = <<>> /\ finArrived
  BY DEF IInv, Ending
<1>2. InLine
  BY DEF IInv, Whole
<1> QED BY <1>1, <1>2 DEF InLine, Buffered, Delivered, End

\* A step in which the peer does nothing moves the reader forward, ends the
\* stream, gives it up, or is not seen.
LEMMA ReaderStep ==
  ASSUME IInv, IInv', ~cut, stream \in {"readable", "closing"},
         UNCHANGED <<arrived, finArrived, cut>>,
         readPos' = readPos \/ readPos' \in readPos + 1 .. arrived
  PROVE  [Stream!StreamNext]_<<arrived, finArrived, readPos,
           IF cut \/ stream \in {"cancelled", "errored"} THEN "void"
           ELSE IF stream = "closed" THEN "fulfilled" ELSE "kept">>
<1>1. stream' \in {"readable", "closing", "closed", "cancelled", "errored"}
  BY DEF IInv, TypeOK
<1>2. CASE stream' \in {"cancelled", "errored"}
  BY <1>2 DEF Stream!StreamNext, Stream!GiveUp
<1>3. CASE stream' = "closed"
  <2>1. (~cut)'
    OBVIOUS
  <2>2. (IInv /\ ~cut /\ stream = "closed" => readPos = arrived /\ finArrived)'
    BY AtEnd, PTL
  <2>3. readPos' = arrived' /\ finArrived'
    BY <1>3, <2>1, <2>2
  <2> QED BY <1>3, <2>3 DEF Stream!StreamNext, Stream!End
<1>4. CASE stream' \in {"readable", "closing"}
  BY <1>4 DEF Stream!StreamNext, Stream!Take
<1> QED BY <1>1, <1>2, <1>3, <1>4

\* What the application has been given is given for good: only these two steps
\* move the reader, by one chunk.
LEMMA ReaderMoves ==
  ASSUME IInv, Whole, EnqueueChunk \/ ReadQueued
  PROVE  readPos' = readPos \/ readPos' \in readPos + 1 .. arrived
<1>0. /\ queue \in Seq(Chunk) /\ receiveBuffer \in Seq(Chunk)
      /\ readPos \in Nat /\ arrived \in Nat
  BY DEF IInv, TypeOK
<1>1. InLine /\ Below(queue, arrived) /\ Below(receiveBuffer, arrived)
  BY DEF IInv, Behind
<1>2. ASSUME NEW s \in Seq(Chunk), s # <<>>, Follows(s, readPos), Below(s, arrived),
             readPos' = Head(s).off + Head(s).len
      PROVE  readPos' \in readPos + 1 .. arrived
  <2>1. 1 \in 1 .. Len(s) /\ Head(s) = s[1] /\ s[1] \in Chunk
    BY <1>2
  <2>2. s[1].off = readPos /\ s[1].off + s[1].len <= arrived
    BY <1>2, <2>1 DEF Follows, Below
  <2>3. s[1].len \in Nat /\ s[1].len > 0
    BY <2>1 DEF Chunk
  <2> QED BY <1>0, <1>2, <2>1, <2>2, <2>3
<1>3. CASE EnqueueChunk
  <2>1. CASE ~pendingRead
    BY <1>3, <2>1 DEF EnqueueChunk
  <2>2. CASE pendingRead
    <3>1. receiveBuffer # <<>> /\ readPos' = Head(receiveBuffer).off + Head(receiveBuffer).len
      BY <1>3, <2>2 DEF EnqueueChunk, CanMove
    <3>2. queue = <<>>
      BY <2>2 DEF IInv, Ending
    <3>3. Follows(receiveBuffer, readPos)
      BY <1>1, <3>2 DEF InLine, Delivered, End
    <3> QED BY <1>0, <1>1, <1>2, <3>1, <3>3
  <2> QED BY <2>1, <2>2
<1>4. CASE ReadQueued
  <2>1. queue # <<>> /\ readPos' = Head(queue).off + Head(queue).len
    BY <1>4 DEF ReadQueued
  <2> QED BY <1>0, <1>1, <1>2, <2>1 DEF InLine
<1> QED BY <1>3, <1>4

\* The steps that touch neither lwIP's side nor the reader's place.
LEMMA QuietSteps ==
  EnqueueEnter \/ EnqueueDone \/ RunTask \/ PullSettled \/ CloseSettled
    \/ ReadWait \/ ReadEnd \/ Cancel \/ Close \/ Dispose \/ UNCHANGED vars
  => UNCHANGED <<arrived, finArrived, cut, readPos>>
<1>1. FinishIfRemoteClosed => UNCHANGED readPos
  BY DEF FinishIfRemoteClosed, CloseReadable, CloseController, appVars
<1>2. ErrorReadable => UNCHANGED readPos
  BY DEF ErrorReadable, ErrorController, appVars
<1>3. EnqueueEnter \/ EnqueueDone => UNCHANGED <<arrived, finArrived, cut, readPos>>
  BY <1>1 DEF EnqueueEnter, EnqueueDone, tcpVars, appVars
<1>4. CloseSettled \/ Dispose => UNCHANGED <<arrived, finArrived, cut, readPos>>
  BY <1>2 DEF CloseSettled, Dispose, tcpVars
<1>5. RunTask \/ PullSettled \/ Close => UNCHANGED <<arrived, finArrived, cut, readPos>>
  BY DEF RunTask, PullSettled, Close, tcpVars, appVars
<1>6. ReadWait \/ ReadEnd \/ Cancel \/ UNCHANGED vars
      => UNCHANGED <<arrived, finArrived, cut, readPos>>
  BY DEF ReadWait, ReadEnd, Cancel, vars, tcpVars, appVars
<1> QED BY <1>3, <1>4, <1>5, <1>6

\* A stream that was given up stays so.
LEMMA StaysVoid ==
  ASSUME [Next]_vars, stream \in {"cancelled", "errored"}
  PROVE  stream' = stream
<1>1. FinishIfRemoteClosed => UNCHANGED stream
  BY DEF FinishIfRemoteClosed, CloseReadable, CloseController, streamVars
<1>2. ErrorReadable => UNCHANGED stream
  BY DEF ErrorReadable, ErrorController, streamVars
<1>3. EnqueueEnter \/ EnqueueChunk \/ EnqueueDone => UNCHANGED stream
  BY <1>1 DEF EnqueueEnter, EnqueueChunk, EnqueueDone, streamVars
<1>4. CloseSettled \/ Dispose => UNCHANGED stream
  BY <1>2 DEF CloseSettled, Dispose
<1>5. RunTask \/ PullSettled \/ Close \/ Peer => UNCHANGED stream
  BY DEF RunTask, PullSettled, Close, Peer, RecvCallback, RecvFin, streamVars
<1>6. ReadQueued \/ ReadWait \/ ReadEnd \/ UNCHANGED vars => UNCHANGED stream
  BY DEF ReadQueued, ReadWait, ReadEnd, vars, streamVars
<1>7. ~Cancel
  BY DEF Cancel
<1> QED BY <1>3, <1>4, <1>5, <1>6, <1>7 DEF Next, System, Read

\* After the end nothing moves.
LEMMA StaysClosed ==
  ASSUME IInv, ~cut, stream = "closed", [Next]_vars
  PROVE  UNCHANGED <<arrived, finArrived, cut, readPos, stream>>
<1>1. queue = <<>> /\ receiveBuffer = <<>> /\ tasks = <<>> /\ finArrived
  BY DEF IInv, Ending
<1>2. ~EnqueueChunk /\ ~ReadQueued /\ ~Peer /\ ~RunTask /\ ~Cancel /\ ~ReadWait
  BY <1>1 DEF EnqueueChunk, CanMove, ReadQueued, Peer, RecvCallback, RecvFin, RunTask, Cancel, ReadWait
<1>3. FinishIfRemoteClosed => UNCHANGED stream
  BY DEF FinishIfRemoteClosed, CloseReadable, CloseController, streamVars
<1>4. ErrorReadable => UNCHANGED stream
  BY DEF ErrorReadable, ErrorController, streamVars
<1>5. EnqueueEnter \/ EnqueueDone => UNCHANGED stream
  BY <1>3 DEF EnqueueEnter, EnqueueDone, streamVars
<1>6. CloseSettled \/ Dispose => UNCHANGED stream
  BY <1>4 DEF CloseSettled, Dispose
<1>7. PullSettled \/ Close \/ ReadEnd \/ UNCHANGED vars => UNCHANGED stream
  BY DEF PullSettled, Close, ReadEnd, vars, streamVars
<1> QED BY <1>2, <1>5, <1>6, <1>7, QuietSteps DEF Next, System, Read

LEMMA StreamInductive ==
  IInv /\ IInv' /\ [Next]_vars
  => [Stream!StreamNext]_<<arrived, finArrived, readPos,
        IF cut \/ stream \in {"cancelled", "errored"} THEN "void"
        ELSE IF stream = "closed" THEN "fulfilled" ELSE "kept">>
<1> SUFFICES ASSUME IInv, IInv', [Next]_vars
             PROVE  [Stream!StreamNext]_<<arrived, finArrived, readPos,
                       IF cut \/ stream \in {"cancelled", "errored"} THEN "void"
                       ELSE IF stream = "closed" THEN "fulfilled" ELSE "kept">>
  OBVIOUS
<1>0. /\ cut \in BOOLEAN /\ arrived \in Nat /\ readPos \in Nat
      /\ stream \in {"readable", "closing", "closed", "cancelled", "errored"}
  BY DEF IInv, TypeOK
<1>1. cut => cut'
  <2>1. Peer => (cut => cut')
    BY <1>0 DEF Peer, RecvCallback, RecvFin
  <2>2. EnqueueChunk \/ ReadQueued => (cut => cut')
    BY DEF EnqueueChunk, ReadQueued, tcpVars
  <2> QED BY <2>1, <2>2, QuietSteps DEF Next, System, Read
<1>2. CASE cut \/ stream \in {"cancelled", "errored"}
  BY <1>1, <1>2, StaysVoid DEF Stream!StreamNext, Stream!Void
<1>3. CASE ~cut /\ stream = "closed"
  BY <1>3, StaysClosed
<1>4. CASE ~cut /\ stream \in {"readable", "closing"}
  <2>1. CASE Peer
    <3>1. ASSUME NEW tot \in ChunkSizes, NEW len \in 1 .. tot, RecvCallback(tot, len)
          PROVE  Stream!StreamNext
      <4>1. /\ ~finArrived /\ arrived' = arrived + tot /\ cut' = (cut \/ len < tot)
            /\ UNCHANGED <<finArrived, readPos, stream>>
        BY <3>1 DEF RecvCallback, streamVars, appVars
      <4>2. arrived' \in Nat /\ arrived' > arrived
        BY <1>0, <4>1, ReceiveConstants
      <4>3. CASE cut'
        BY <1>4, <4>3 DEF Stream!StreamNext, Stream!GiveUp
      <4>4. CASE ~cut'
        BY <1>4, <4>1, <4>2, <4>4 DEF Stream!StreamNext, Stream!Send
      <4> QED BY <4>3, <4>4
    <3>2. ASSUME RecvFin PROVE Stream!StreamNext
      BY <1>4, <3>2 DEF RecvFin, streamVars, appVars, Stream!StreamNext, Stream!Finish
    <3> QED BY <2>1, <3>1, <3>2 DEF Peer
  <2>2. CASE EnqueueChunk \/ ReadQueued
    <3>1. UNCHANGED <<arrived, finArrived, cut>>
      BY <2>2 DEF EnqueueChunk, ReadQueued, tcpVars
    <3>2. readPos' = readPos \/ readPos' \in readPos + 1 .. arrived
      BY <1>4, <2>2, ReaderMoves DEF Whole
    <3> QED BY <1>4, <3>1, <3>2, ReaderStep
  <2>3. CASE UNCHANGED <<arrived, finArrived, cut, readPos>>
    BY <1>4, <2>3, ReaderStep
  <2> QED BY <2>1, <2>2, <2>3, QuietSteps DEF Next, System, Read
<1> QED BY <1>0, <1>2, <1>3, <1>4

\* The readable side of a connection implements ByteStream: it gives the
\* application the peer's bytes and their end, once and in order, until it is
\* cancelled, closed or disposed of, or lwIP hands over a chain (tcp.ts:562-627).
THEOREM ReceiveImplementsStream == Spec => ImplementsStream
<1>1. Init => Stream!StreamInit
  BY DEF Init, Stream!StreamInit
<1>2. QED
  BY <1>1, StreamInductive, Invariant, PTL
  DEF Spec, ImplementsStream, Stream!StreamSpec, Stream!streamVars

-----------------------------------------------------------------------------
(* What is left to do                                                       *)

\* Turns that the activations on a stack have left.
TurnsOf(stack) ==
  IF Len(stack) = 0 THEN 0
  ELSE IF Len(stack) = 1 THEN Turns(stack[1]) ELSE Turns(stack[1]) + Turns(stack[2])

LEMMA TurnsSplit ==
  ASSUME NEW stack \in Seq(Frame), Len(stack) <= 2, stack # <<>>
  PROVE  /\ TurnsOf(stack) = Turns(Head(stack)) + TurnsOf(Tail(stack))
         /\ TurnsOf(Tail(stack)) \in Nat /\ Turns(Head(stack)) \in {1, 2}
<1>1. PICK first, rest : first = Head(stack) /\ rest = Tail(stack)
  OBVIOUS
<1>2. /\ Len(stack) \in Nat /\ Len(stack) # 0 /\ Len(rest) = Len(stack) - 1
      /\ first = stack[1]
      /\ \A i \in 1 .. Len(rest) : i + 1 \in 1 .. Len(stack) /\ rest[i] = stack[i + 1]
  BY <1>1, BytesOfStack
<1>3. \A f : Turns(f) \in {1, 2}
  BY DEF Turns
<1>4. CASE Len(stack) = 1
  <2>1. Len(rest) = 0
    BY <1>2, <1>4
  <2>2. TurnsOf(rest) = 0 /\ TurnsOf(stack) = Turns(first)
    BY <1>2, <1>4, <2>1 DEF TurnsOf
  <2> QED BY <1>1, <1>3, <2>2
<1>5. CASE Len(stack) = 2
  <2>1. Len(rest) = 1 /\ 1 \in 1 .. Len(rest)
    BY <1>2, <1>5
  <2>2. rest[1] = stack[2]
    BY <1>2, <2>1
  <2>3. TurnsOf(rest) = Turns(stack[2]) /\ TurnsOf(stack) = Turns(first) + Turns(stack[2])
    BY <1>2, <1>5, <2>1, <2>2 DEF TurnsOf
  <2> QED BY <1>1, <1>3, <2>3
<1> QED BY <1>2, <1>4, <1>5, UpToTwo

LEMMA TurnsPushed ==
  ASSUME NEW stack \in Seq(Frame), Len(stack) <= 1, NEW f \in Frame
  PROVE  TurnsOf(<<f>> \o stack) = Turns(f) + TurnsOf(stack)
<1>1. PICK s : s = <<f>> \o stack
  OBVIOUS
<1>2. /\ Len(s) = Len(stack) + 1 /\ s[1] = f /\ Len(stack) \in Nat
      /\ \A i \in 1 .. Len(stack) : s[i + 1] = stack[i]
  BY <1>1, BytesPushed, LenProperties
<1>3. \A g : Turns(g) \in {1, 2}
  BY DEF Turns
<1>4. CASE Len(stack) = 0
  <2>1. TurnsOf(stack) = 0 /\ TurnsOf(s) = Turns(f)
    BY <1>2, <1>4 DEF TurnsOf
  <2> QED BY <1>1, <1>3, <2>1
<1>5. CASE Len(stack) = 1
  <2>1. Len(s) = 2 /\ s[2] = stack[1]
    BY <1>2, <1>5
  <2>2. TurnsOf(stack) = Turns(stack[1]) /\ TurnsOf(s) = Turns(f) + Turns(stack[1])
    BY <1>2, <1>5, <2>1 DEF TurnsOf
  <2> QED BY <1>1, <2>2
<1> QED BY <1>2, <1>4, <1>5

\* An activation with an empty stack is that activation.
LEMMA TurnsAlone == TurnsOf(<<>>) = 0 /\ TurnsOf(<<Entered>>) = 2
<1>1. PICK s : s = <<Entered>>
  OBVIOUS
<1>2. Len(s) = 1 /\ s[1] = Entered
  BY <1>1
<1>3. TurnsOf(s) = 2
  BY <1>2 DEF TurnsOf, Turns, Entered
<1>4. TurnsOf(<<>>) = 0
  BY DEF TurnsOf
<1> QED BY <1>1, <1>3, <1>4

\* The numbers that Effort adds up.
LEMMA EffortParts ==
  IInv => /\ TurnsLeft = TurnsOf(frames) /\ TurnsOf(frames) \in Nat
          /\ Len(tasks) \in Nat /\ Len(receiveBuffer) \in Nat
          /\ \A flag : One(flag) \in {0, 1}
          /\ Idle => TurnsOf(frames) = 0
<1> SUFFICES ASSUME IInv PROVE TurnsLeft = TurnsOf(frames) /\ TurnsOf(frames) \in Nat
                               /\ Len(tasks) \in Nat /\ Len(receiveBuffer) \in Nat
                               /\ (\A flag : One(flag) \in {0, 1})
                               /\ (Idle => TurnsOf(frames) = 0)
  OBVIOUS
<1>1. TurnsLeft = TurnsOf(frames)
  BY DEF TurnsLeft, TurnsOf
<1>2. \A f : Turns(f) \in {1, 2}
  BY DEF Turns
<1>3. TurnsOf(frames) \in Nat
  <2>1. PICK a, b : a = Turns(frames[1]) /\ b = Turns(frames[2])
    OBVIOUS
  <2>2. TurnsOf(frames) \in {0, a, a + b}
    BY <2>1 DEF TurnsOf
  <2>3. a \in {1, 2} /\ b \in {1, 2}
    BY <1>2, <2>1
  <2> QED BY <2>2, <2>3
<1>4. tasks \in Seq(Task) /\ receiveBuffer \in Seq(Chunk)
  BY DEF IInv, TypeOK
<1>5. Len(tasks) \in Nat /\ Len(receiveBuffer) \in Nat
  BY <1>4, LenProperties
<1>6. \A flag : One(flag) \in {0, 1}
  BY DEF One
<1>7. Idle => TurnsOf(frames) = 0
  BY TurnsAlone DEF Idle
<1> QED BY <1>1, <1>3, <1>5, <1>6, <1>7

\* What each part of the effort was, and what it has changed by.
Parts == /\ Len(tasks) \in Nat /\ Len(receiveBuffer) \in Nat /\ TurnsOf(frames) \in Nat
         /\ One(pullAgain) \in Nat /\ One(pulling) \in Nat /\ One(closing) \in Nat
Lighter ==
  7 * Len(tasks') + 4 * Len(receiveBuffer') + TurnsOf(frames')
    + 3 * One(pullAgain') + One(pulling') + One(closing')
  < 7 * Len(tasks) + 4 * Len(receiveBuffer) + TurnsOf(frames)
    + 3 * One(pullAgain) + One(pulling) + One(closing)

LEMMA PartsAre == IInv => Parts
<1> SUFFICES ASSUME IInv PROVE Parts
  OBVIOUS
<1>1. \A flag : One(flag) \in Nat
  BY DEF One
<1> QED BY <1>1, EffortParts DEF Parts

LEMMA EffortFalls ==
  ASSUME IInv, IInv', Lighter
  PROVE  Effort' < Effort
<1>1. TurnsLeft = TurnsOf(frames)
  BY EffortParts
<1>2. TurnsLeft' = TurnsOf(frames')
  BY DEF TurnsLeft, TurnsOf
<1> QED BY <1>1, <1>2 DEF Effort, Lighter, One

LEMMA FinishPulls == FinishIfRemoteClosed \/ ErrorReadable => UNCHANGED <<pulling, pullAgain>>
BY DEF FinishIfRemoteClosed, CloseReadable, CloseController, ErrorReadable, ErrorController,
       streamVars

LEMMA EnterFalls == IInv /\ IInv' /\ EnqueueEnter => Effort' < Effort
<1> SUFFICES ASSUME IInv, IInv', EnqueueEnter PROVE Effort' < Effort
  OBVIOUS
<1>1. PICK first, rest, after : first = Head(frames) /\ rest = Tail(frames)
                                /\ after = <<[at |-> "loop", bytes |-> 0]>> \o rest
  OBVIOUS
<1>2. /\ frames \in Seq(Frame) /\ Len(frames) <= 2 /\ frames # <<>>
      /\ first.at = "enter" /\ (frames' = rest \/ frames' = after)
      /\ UNCHANGED <<tasks, receiveBuffer, closing>>
  BY <1>1 DEF IInv, TypeOK, EnqueueEnter, Idle
<1>3. UNCHANGED <<pulling, pullAgain>>
  BY FinishPulls DEF EnqueueEnter, streamVars
<1>4. /\ TurnsOf(frames) = 2 + TurnsOf(rest) /\ TurnsOf(rest) \in Nat
      /\ rest \in Seq(Frame) /\ Len(rest) <= 1
  BY <1>1, <1>2, TurnsSplit, StackPopped DEF Turns, Idle
<1>5. TurnsOf(after) = 1 + TurnsOf(rest)
  <2>1. [at |-> "loop", bytes |-> 0] \in Frame /\ Turns([at |-> "loop", bytes |-> 0]) = 1
    BY DEF Frame, Turns
  <2> QED BY <1>1, <1>4, <2>1, TurnsPushed
<1>6. TurnsOf(frames') \in Nat /\ TurnsOf(frames') < TurnsOf(frames)
  BY <1>2, <1>4, <1>5
<1>7. Len(tasks') = Len(tasks) /\ Len(receiveBuffer') = Len(receiveBuffer) /\ One(closing') = One(closing)
  BY <1>2
<1>8. One(pullAgain') = One(pullAgain) /\ One(pulling') = One(pulling)
  BY <1>3
<1>9. Lighter
  BY <1>6, <1>7, <1>8, PartsAre, SMTT(30) DEF Lighter, Parts
<1> QED BY <1>9, EffortFalls

LEMMA DoneFalls == IInv /\ IInv' /\ EnqueueDone => Effort' < Effort
<1> SUFFICES ASSUME IInv, IInv', EnqueueDone PROVE Effort' < Effort
  OBVIOUS
<1>1. PICK first, rest : first = Head(frames) /\ rest = Tail(frames)
  OBVIOUS
<1>2. /\ frames \in Seq(Frame) /\ Len(frames) <= 2 /\ frames # <<>> /\ frames' = rest
      /\ UNCHANGED <<tasks, receiveBuffer, closing>>
  BY <1>1 DEF IInv, TypeOK, EnqueueDone, Idle
<1>3. UNCHANGED <<pulling, pullAgain>>
  BY FinishPulls DEF EnqueueDone
<1>4. TurnsOf(rest) \in Nat /\ TurnsOf(rest) < TurnsOf(frames)
  <2>1. /\ TurnsOf(frames) = Turns(first) + TurnsOf(rest)
        /\ TurnsOf(rest) \in Nat /\ Turns(first) \in {1, 2}
    BY <1>1, <1>2, TurnsSplit
  <2> QED BY <2>1
<1>5. Lighter
  BY <1>2, <1>3, <1>4, PartsAre, SMTT(30) DEF Lighter, Parts
<1> QED BY <1>5, EffortFalls

\* The chunk that leaves the buffer pays for the pull() it may cause.
LEMMA MoveFalls == IInv /\ IInv' /\ EnqueueChunk => Effort' < Effort
<1> SUFFICES ASSUME IInv, IInv', EnqueueChunk PROVE Effort' < Effort
  OBVIOUS
<1>1. PICK first, rest, moved, stack :
        /\ first = Head(frames) /\ rest = Tail(frames)
        /\ moved = [first EXCEPT !.bytes = @ + Head(receiveBuffer).len]
        /\ stack = <<moved>> \o rest
  OBVIOUS
<1>2. /\ frames \in Seq(Frame) /\ Len(frames) <= 2 /\ frames # <<>> /\ first.at = "loop"
      /\ receiveBuffer \in Seq(Chunk) /\ receiveBuffer # <<>>
      /\ receiveBuffer' = Tail(receiveBuffer) /\ UNCHANGED <<tasks, closing>>
      /\ pulling \in BOOLEAN /\ pullAgain \in BOOLEAN
  BY <1>1 DEF IInv, TypeOK, EnqueueChunk, CanMove, Idle
<1>3. \/ frames' = stack /\ pulling' = pulling /\ pullAgain' = pullAgain
      \/ frames' = stack /\ pulling' = pulling /\ pullAgain' = TRUE
      \/ ~pulling /\ pulling' = TRUE /\ frames' = <<Entered>> \o stack /\ pullAgain' = pullAgain
  <2>1. PICK size : CallPullIfNeeded(FALSE, size, stack)
    BY <1>1 DEF EnqueueChunk
  <2> QED BY <2>1 DEF CallPullIfNeeded
<1>4. /\ TurnsOf(frames) = 1 + TurnsOf(rest) /\ TurnsOf(rest) \in Nat
      /\ rest \in Seq(Frame) /\ Len(rest) <= 1 /\ first \in Frame
  BY <1>1, <1>2, TurnsSplit, StackPopped DEF Turns, Idle
<1>5. Head(receiveBuffer).len \in Nat
  BY <1>2, HeadTailProperties, PieceTypes DEF Pieces
<1>6. moved \in Frame /\ Turns(moved) = 1
  <2>1. first.bytes + Head(receiveBuffer).len \in Nat
    BY <1>4, <1>5 DEF Frame
  <2> QED BY <1>1, <1>2, <1>4, <2>1 DEF Frame, Turns
<1>7. TurnsOf(stack) = TurnsOf(frames) /\ stack \in Seq(Frame) /\ Len(stack) = Len(rest) + 1
  <2>1. TurnsOf(stack) = Turns(moved) + TurnsOf(rest)
    BY <1>1, <1>4, <1>6, TurnsPushed
  <2>2. stack \in Seq(Frame) /\ Len(stack) = Len(rest) + 1
    BY <1>1, <1>4, <1>6, BytesPushed
  <2> QED BY <1>4, <1>6, <2>1, <2>2
<1>8. Len(receiveBuffer') = Len(receiveBuffer) - 1
  BY <1>2, HeadTailProperties
<1>9. CASE frames' = stack /\ pulling' = pulling
  <2>1. One(pullAgain) \in Nat /\ One(pullAgain') \in Nat /\ One(pullAgain') <= One(pullAgain) + 1
    BY DEF One
  <2>2. Len(tasks') = Len(tasks) /\ One(closing') = One(closing) /\ One(pulling') = One(pulling)
    BY <1>2, <1>9
  <2>3. TurnsOf(frames') = TurnsOf(frames)
    BY <1>7, <1>9
  <2>4. Lighter
    BY <1>8, <2>1, <2>2, <2>3, PartsAre, SMTT(30) DEF Lighter, Parts
  <2> QED BY <2>4, EffortFalls
<1>10. CASE ~pulling /\ pulling' = TRUE /\ frames' = <<Entered>> \o stack /\ pullAgain' = pullAgain
  <2>1. Len(stack) <= 1
    <3>1. Len(frames) \in Nat /\ Len(rest) = Len(frames) - 1
      BY <1>1, <1>2, BytesOfStack
    <3>2. Len(frames) # 2
      BY <1>10 DEF IInv, Nesting
    <3>3. Len(frames) <= 1
      BY <1>2, <3>1, <3>2, UpToTwo
    <3> QED BY <1>7, <3>1, <3>3
  <2>2. TurnsOf(frames') = 2 + TurnsOf(frames)
    <3>1. Entered \in Frame /\ Turns(Entered) = 2
      BY DEF Entered, Frame, Turns
    <3> QED BY <1>7, <1>10, <2>1, <3>1, TurnsPushed
  <2>3. One(pulling) = 0 /\ One(pulling') = 1
    BY <1>10 DEF One
  <2>4. Len(tasks') = Len(tasks) /\ One(closing') = One(closing) /\ One(pullAgain') = One(pullAgain)
    BY <1>2, <1>10
  <2>5. Lighter
    BY <1>8, <2>2, <2>3, <2>4, PartsAre, SMTT(30) DEF Lighter, Parts
  <2> QED BY <2>5, EffortFalls
<1> QED BY <1>3, <1>9, <1>10

LEMMA TaskFalls == IInv /\ IInv' /\ RunTask => Effort' < Effort
<1> SUFFICES ASSUME IInv, IInv', RunTask PROVE Effort' < Effort
  OBVIOUS
<1>1. /\ tasks \in Seq(Task) /\ tasks # <<>> /\ tasks' = Tail(tasks) /\ frames = <<>>
      /\ receiveBuffer \in Seq(Chunk) /\ UNCHANGED <<closing, pulling, pullAgain>>
  BY DEF IInv, TypeOK, RunTask, Idle, streamVars
<1>2. Len(tasks') = Len(tasks) - 1
  BY <1>1, HeadTailProperties
<1>3. TurnsOf(frames) = 0
  BY <1>1, TurnsAlone
<1>4. \/ UNCHANGED <<receiveBuffer, frames>>
      \/ \E c \in Chunk : receiveBuffer' = Append(receiveBuffer, c) /\ frames' = <<Entered>>
      \/ UNCHANGED receiveBuffer /\ frames' = <<Entered>>
  <2>1. Head(tasks).kind = "chunk" => [off |-> Head(tasks).off, len |-> Head(tasks).len] \in Chunk
    <3>1. Head(tasks) \in Task
      BY <1>1, HeadTailProperties
    <3> QED BY <3>1 DEF Task, Chunk
  <2> QED BY <2>1 DEF RunTask, Receive, RemoteClose
<1>5. Len(receiveBuffer') \in {Len(receiveBuffer), Len(receiveBuffer) + 1}
  BY <1>1, <1>4, AppendProperties
<1>6. TurnsOf(frames') \in {0, 2}
  BY <1>1, <1>4, TurnsAlone
<1>7. One(closing') = One(closing) /\ One(pulling') = One(pulling) /\ One(pullAgain') = One(pullAgain)
  BY <1>1
<1>8. /\ Len(receiveBuffer) \in Nat /\ Len(receiveBuffer') \in Nat
      /\ 4 * Len(receiveBuffer') + TurnsOf(frames') < 4 * Len(receiveBuffer) + 7
      /\ TurnsOf(frames') \in Nat
  BY <1>1, <1>5, <1>6, LenProperties
<1>9. Lighter
  BY <1>2, <1>3, <1>7, <1>8, PartsAre, SMTT(30) DEF Lighter, Parts
<1> QED BY <1>9, EffortFalls

LEMMA SettledFalls == IInv /\ IInv' /\ (PullSettled \/ CloseSettled) => Effort' < Effort
<1>1. ASSUME IInv, IInv', PullSettled PROVE Effort' < Effort
  <2>1. /\ pulling /\ frames = <<>> /\ UNCHANGED <<tasks, receiveBuffer, closing>>
        /\ ~pullAgain'
        /\ \/ pullAgain /\ frames' = <<Entered>> /\ pulling' = pulling
           \/ ~pulling' /\ frames' = frames
    BY <1>1 DEF PullSettled, Idle, connVars
  <2>2. One(pulling) = 1 /\ One(pullAgain') = 0
    BY <2>1 DEF One
  <2>3. /\ Len(tasks') = Len(tasks) /\ Len(receiveBuffer') = Len(receiveBuffer)
        /\ One(closing') = One(closing)
    BY <2>1
  <2>4. CASE pullAgain /\ frames' = <<Entered>> /\ pulling' = pulling
    <3>1. One(pullAgain) = 1
      BY <2>4 DEF One
    <3>2. TurnsOf(frames) = 0 /\ TurnsOf(frames') = 2 /\ One(pulling') = One(pulling)
      BY <2>1, <2>4, TurnsAlone
    <3>3. Lighter
      BY <1>1, <2>2, <2>3, <3>1, <3>2, PartsAre, SMTT(30) DEF Lighter, Parts
    <3> QED BY <1>1, <3>3, EffortFalls
  <2>5. CASE ~pulling' /\ frames' = frames
    <3>1. One(pulling') = 0
      BY <2>5 DEF One
    <3>2. One(pullAgain) \in Nat
      BY DEF One
    <3>3. TurnsOf(frames') = TurnsOf(frames)
      BY <2>5
    <3>4. Lighter
      BY <1>1, <2>2, <2>3, <3>1, <3>2, <3>3, PartsAre, SMTT(30) DEF Lighter, Parts
    <3> QED BY <1>1, <3>4, EffortFalls
  <2> QED BY <2>1, <2>4, <2>5
<1>2. ASSUME IInv, IInv', CloseSettled PROVE Effort' < Effort
  <2>1. closing /\ ~closing' /\ UNCHANGED <<tasks, receiveBuffer, frames, pulling, pullAgain>>
    BY <1>2, FinishPulls DEF CloseSettled
  <2>2. One(closing) = 1 /\ One(closing') = 0
    BY <2>1 DEF One
  <2>3. /\ Len(tasks') = Len(tasks) /\ Len(receiveBuffer') = Len(receiveBuffer)
        /\ TurnsOf(frames') = TurnsOf(frames)
    BY <2>1
  <2>4. One(pullAgain') = One(pullAgain) /\ One(pulling') = One(pulling)
    BY <2>1
  <2>5. Lighter
    BY <1>2, <2>2, <2>3, <2>4, PartsAre, SMTT(30) DEF Lighter, Parts
  <2> QED BY <1>2, <2>5, EffortFalls
<1> QED BY <1>1, <1>2

\* Between two acts of the peer or the application the stack takes finitely many
\* steps: a chunk bounds the pulls it causes, and nothing asks for itself again.
THEOREM RestIsReached == Spec => ComesToRest
<1>1. IInv /\ IInv' /\ [Next]_vars => [System => Effort' < Effort]_vars
  BY EnterFalls, DoneFalls, MoveFalls, TaskFalls, SettledFalls DEF System
<1> QED BY <1>1, Invariant, PTL DEF Spec, ComesToRest

=============================================================================
