----------------------------- MODULE Stack_proofs -----------------------------
(* Proofs of the safety properties of Stack, for any interfaces, addresses and *)
(* number of frames.                                                           *)
EXTENDS Stack, SequenceTheorems, TLAPS

\* An address belongs to the one registered interface whose structure is there;
\* only a bridge is registered without one.
\* An interface keeps its handle for ever and leaves the maps by remove() or
\* dispose() only; a bridge's ports are the handles of the taps it was given.
Links ==
  /\ \A i \in Iface : handle[i] # None =>
       /\ i \in interfaces => netif[handle[i]] = i
       /\ i \in interfaces \cup removed \/ disposed
  /\ \A h \in Handle : netif[h] # None => handle[netif[h]] = h
  /\ \A b \in Iface : \A p \in ports[b] : \E t \in portIfs[b] : handle[t] = p
  /\ \A b \in Iface : handle[b] = None => ports[b] = {}
  /\ \A i \in interfaces : Kind[i] # "bridge" => handle[i] # None
  /\ disposed => interfaces = {}

\* A deferred frame names the handle of the interface it was sent on, and of a
\* port of the bridge that sent it.
OnItsWay(t) ==
  /\ t.frame.on # None => handle[t.frame.on] = t.handle /\ Kind[t.frame.on] = t.kind
  /\ t.frame.bridge # None => t.handle \in ports[t.frame.bridge]

\* A frame on the readable of i is its own, or came under a reused address.
Own(i, f) ==
  /\ f.on = i \/ f.on \in removed \cup {None}
  /\ f.bridge # None =>
       /\ handle[f.bridge] # None
       /\ i \in portIfs[f.bridge] \/ portIfs[f.bridge] \cap removed # {}

\* Frames are numbered as they are sent; the deferred ones come after those delivered.
Sent ==
  /\ count \in 0 .. MaxFrames
  /\ \A m \in 1 .. Len(tasks) :
       /\ tasks[m].frame.n <= count
       /\ OnItsWay(tasks[m])
       /\ \A n \in 1 .. m - 1 : tasks[n].frame.n < tasks[m].frame.n
Received ==
  \A i \in Iface : \A n \in 1 .. Len(got[i]) :
    /\ got[i][n].n <= count
    /\ Own(i, got[i][n])
    /\ \A m \in 1 .. n - 1 : got[i][m].n < got[i][n].n
    /\ \A m \in 1 .. Len(tasks) : got[i][n].n < tasks[m].frame.n

Both == {"127.0.0.1/8", "::1/128"}

\* What each phase of the initialisation has done, unless dispose() came between.
Life ==
  /\ withLo \in BOOLEAN /\ disposed \in BOOLEAN
  /\ \A i \in Iface : creating[i] \in {"none", "wait"} => handle[i] = None
  /\ phase = "loading" => creating[Lo] = "none"
  /\ phase \in {"loopback", "address"} => withLo
  /\ phase = "address" \/ (phase = "up" /\ withLo) => loAddress = Both
  /\ phase = "failed" => disposed
  /\ \A i \in Iface \ {Lo} : creating[i] \in {"made", "open"} => phase = "up"
  /\ ~disposed =>
       /\ phase \in {"loopback", "address", "up"} => exports
       /\ phase = "address" => Lo \in attached
       /\ phase = "up" => timer /\ (withLo => Lo \in attached \cup removed)

\* lwIP's timers allow one bridge (wasm/bridge_interface.c).
OneBridge == \A i, j \in Iface : Kind[i] = "bridge" /\ Kind[j] = "bridge" => i = j

Over ==
  /\ ~disposed => ended = {}
  /\ disposed => /\ ~timer /\ ~exports
                 /\ \A i \in Streamed : handle[i] # None => i \in ended \cup removed
  /\ OneBridge => attached \subseteq interfaces

IInv ==
  /\ TypeOK /\ Links /\ Sent /\ Received /\ Life /\ Over
  /\ strays \subseteq removed

Task == [frame : FrameType, handle : Handle, kind : {"tap", "tun"}]

-----------------------------------------------------------------------------
(* Types of a frame and of what it names *)

LEMMA NoneIsNoName == None \notin Handle /\ None \notin Iface
BY FramesConstants

LEMMA TaskTypes ==
  ASSUME TypeOK, NEW m \in 1 .. Len(tasks)
  PROVE  /\ tasks[m] \in Task /\ tasks[m].frame \in FrameType
         /\ tasks[m].handle \in Handle /\ tasks[m].kind \in {"tap", "tun"}
<1>1. tasks \in Seq(Task)
  BY DEF TypeOK, Task
<1>2. tasks[m] \in Task
  BY <1>1, ElementOfSeq
<1> QED BY <1>2 DEF Task

LEMMA FrameTypes ==
  ASSUME NEW f \in FrameType
  PROVE  f.n \in Nat /\ f.on \in Iface \cup {None} /\ f.bridge \in Iface \cup {None}
BY DEF FrameType

LEMMA GotTypes ==
  ASSUME TypeOK, NEW i \in Iface
  PROVE  /\ got[i] \in Seq(FrameType) /\ Len(got[i]) \in Nat
         /\ \A n \in 1 .. Len(got[i]) : got[i][n] \in FrameType
<1>1. got[i] \in Seq(FrameType)
  BY DEF TypeOK
<1> QED BY <1>1, LenProperties, ElementOfSeq

-----------------------------------------------------------------------------
(* Steps that create, remove or end interfaces, seen from the frames *)

\* A handle, once given, stays; so do the ports of a bridge that has one.
Grows ==
  /\ \A i \in Iface : handle[i] # None => handle'[i] = handle[i]
  /\ \A b \in Iface : handle[b] # None => ports'[b] = ports[b] /\ portIfs'[b] = portIfs[b]
  /\ removed \subseteq removed'

LEMMA StillOnItsWay ==
  ASSUME TypeOK, Links, Grows, NEW t \in Task, OnItsWay(t)
  PROVE  OnItsWay(t)'
<1>1. /\ t.handle \in Handle /\ t.handle # None
      /\ t.frame.on \in Iface \cup {None} /\ t.frame.bridge \in Iface \cup {None}
  BY FrameTypes, NoneIsNoName DEF Task
<1>2. t.frame.on # None => handle'[t.frame.on] = t.handle /\ Kind[t.frame.on] = t.kind
  BY <1>1 DEF OnItsWay, Grows
<1>3. t.frame.bridge # None => t.handle \in ports'[t.frame.bridge]
  BY <1>1 DEF OnItsWay, Grows, Links
<1> QED BY <1>2, <1>3 DEF OnItsWay

LEMMA StillOwn ==
  ASSUME Grows, NEW i \in Iface, NEW f \in FrameType, Own(i, f)
  PROVE  Own(i, f)'
<1>1. f.on \in Iface \cup {None} /\ f.bridge \in Iface \cup {None}
  BY FrameTypes
<1>2. f.on = i \/ f.on \in removed' \cup {None}
  BY DEF Own, Grows
<1>3. ASSUME f.bridge # None
      PROVE  /\ handle'[f.bridge] # None
             /\ i \in portIfs'[f.bridge] \/ portIfs'[f.bridge] \cap removed' # {}
  <2>1. /\ handle[f.bridge] # None /\ f.bridge \in Iface
        /\ i \in portIfs[f.bridge] \/ portIfs[f.bridge] \cap removed # {}
    BY <1>1, <1>3 DEF Own
  <2>2. portIfs'[f.bridge] = portIfs[f.bridge] /\ handle'[f.bridge] = handle[f.bridge]
        /\ removed \subseteq removed'
    BY <2>1 DEF Grows
  <2> QED BY <2>1, <2>2
<1> QED BY <1>2, <1>3 DEF Own

LEMMA KeepFrames ==
  ASSUME TypeOK, Links, Sent, Received, Grows, UNCHANGED <<tasks, got, count>>
  PROVE  Sent' /\ Received'
<1>1. ASSUME NEW m \in 1 .. Len(tasks) PROVE OnItsWay(tasks[m])'
  <2>1. PICK t : t = tasks[m]
    OBVIOUS
  <2>2. t \in Task /\ OnItsWay(t)
    BY <2>1, TaskTypes DEF Sent
  <2>3. OnItsWay(t)'
    BY <2>2, StillOnItsWay
  <2> QED BY <2>1, <2>3 DEF OnItsWay
<1>2. ASSUME NEW i \in Iface, NEW n \in 1 .. Len(got[i]) PROVE Own(i, got[i][n])'
  <2>1. PICK f : f = got[i][n]
    OBVIOUS
  <2>2. f \in FrameType /\ Own(i, f)
    BY <2>1, GotTypes DEF Received
  <2>3. Own(i, f)'
    BY <2>2, StillOwn
  <2> QED BY <2>1, <2>3 DEF Own
<1>3. Sent'
  BY <1>1 DEF Sent
<1>4. Received'
  BY <1>2 DEF Received
<1> QED BY <1>3, <1>4

-----------------------------------------------------------------------------
(* A frame is sent, and delivered *)

LEMMA CopyStep ==
  ASSUME IInv, UNCHANGED <<linkVars, removed, got>>,
         NEW h \in Handle, NEW kind \in {"tap", "tun"}, NEW b \in Iface \cup {None},
         netif[h] # None => Kind[netif[h]] = kind,
         b # None => h \in ports[b],
         Copy(h, kind, b)
  PROVE  Sent' /\ Received' /\ tasks' \in Seq(Task)
<1>1. PICK f, x : f = Frame(h, b) /\ x = [frame |-> f, handle |-> h, kind |-> kind]
  OBVIOUS
<1>2. count < MaxFrames /\ count' = count + 1 /\ tasks' = Append(tasks, x)
  BY <1>1 DEF Copy
<1>3. UNCHANGED <<handle, netif, ports, portIfs, removed, got>>
  BY DEF linkVars
<1>4. TypeOK /\ Links /\ Sent /\ Received /\ tasks \in Seq(Task) /\ count \in Nat /\ MaxFrames \in Nat
  BY FramesConstants DEF IInv, TypeOK, Sent, Task
<1>5. netif[h] \in Iface \cup {None}
  BY DEF IInv, TypeOK
<1>6. f = [n |-> count + 1, on |-> netif[h], bridge |-> b]
  BY <1>1 DEF Frame
<1>7. f \in FrameType /\ f.n = count + 1 /\ f.on = netif[h] /\ f.bridge = b
  BY <1>2, <1>4, <1>5, <1>6 DEF FrameType
<1>8. x \in Task /\ x.frame = f /\ x.handle = h /\ x.kind = kind
  BY <1>1, <1>7 DEF Task
<1>9. /\ tasks' \in Seq(Task) /\ Len(tasks) \in Nat /\ Len(tasks') = Len(tasks) + 1
      /\ tasks'[Len(tasks) + 1] = x /\ \A m \in 1 .. Len(tasks) : tasks'[m] = tasks[m]
  BY <1>2, <1>4, <1>8, AppendProperties
<1>10. OnItsWay(x)'
  <2>1. netif[h] # None => handle'[netif[h]] = h /\ Kind[netif[h]] = kind
    BY <1>3, <1>4 DEF Links
  <2>2. b # None => h \in ports'[b]
    BY <1>3
  <2> QED BY <1>7, <1>8, <2>1, <2>2 DEF OnItsWay
<1>11. \A m \in 1 .. Len(tasks') : m \in 1 .. Len(tasks) \/ m = Len(tasks) + 1
  <2>1. Len(tasks) \in Nat /\ Len(tasks') = Len(tasks) + 1
    BY <1>9
  <2> QED BY <2>1
<1>12. ASSUME NEW m \in 1 .. Len(tasks)
       PROVE  tasks[m].frame.n \in Nat /\ tasks[m].frame.n <= count /\ OnItsWay(tasks[m])
  BY <1>4, TaskTypes, FrameTypes DEF Sent
<1>13. Sent'
  <2>1. count' \in 0 .. MaxFrames
    BY <1>2, <1>4
  <2>2. ASSUME NEW m \in 1 .. Len(tasks')
        PROVE  /\ tasks'[m].frame.n <= count' /\ OnItsWay(tasks[m])'
               /\ \A n \in 1 .. m - 1 : tasks'[n].frame.n < tasks'[m].frame.n
    <3>1. CASE m \in 1 .. Len(tasks)
      <4>1. tasks'[m] = tasks[m] /\ tasks[m].frame.n <= count'
        BY <1>2, <1>4, <1>9, <1>12, <3>1
      <4>2. OnItsWay(tasks[m])'
        BY <1>3, <1>12, <3>1, <4>1 DEF OnItsWay
      <4>3. ASSUME NEW n \in 1 .. m - 1 PROVE tasks'[n].frame.n < tasks'[m].frame.n
        <5>1. n \in 1 .. Len(tasks)
          BY <1>9, <3>1
        <5> QED BY <1>4, <1>9, <3>1, <4>1, <5>1 DEF Sent
      <4> QED BY <4>1, <4>2, <4>3
    <3>2. CASE m = Len(tasks) + 1
      <4>1. tasks'[m] = x /\ tasks'[m].frame.n = count + 1
        BY <1>7, <1>8, <1>9, <3>2
      <4>2. OnItsWay(tasks[m])'
        BY <1>10, <4>1 DEF OnItsWay
      <4>3. ASSUME NEW n \in 1 .. m - 1 PROVE tasks'[n].frame.n < tasks'[m].frame.n
        <5>1. n \in 1 .. Len(tasks)
          BY <1>9, <3>2
        <5>2. tasks'[n] = tasks[n] /\ tasks[n].frame.n \in Nat /\ tasks[n].frame.n <= count
          BY <1>9, <1>12, <5>1
        <5> QED BY <1>4, <4>1, <5>2
      <4> QED BY <1>2, <1>4, <4>1, <4>2, <4>3
    <3> QED BY <1>11, <3>1, <3>2
  <2> QED BY <2>1, <2>2 DEF Sent
<1>14. Received'
  <2> SUFFICES ASSUME NEW i \in Iface, NEW n \in 1 .. Len(got[i])
               PROVE  /\ got[i][n].n <= count' /\ Own(i, got[i][n])'
                      /\ \A m \in 1 .. n - 1 : got[i][m].n < got[i][n].n
                      /\ \A m \in 1 .. Len(tasks') : got[i][n].n < tasks'[m].frame.n
    BY <1>3 DEF Received
  <2>1. PICK g : g = got[i][n]
    OBVIOUS
  <2>2. g \in FrameType /\ g.n \in Nat /\ g.n <= count /\ Own(i, g)
    BY <1>4, <2>1, GotTypes, FrameTypes DEF Received
  <2>3. Own(i, got[i][n])'
    BY <1>3, <2>1, <2>2 DEF Own
  <2>4. ASSUME NEW m \in 1 .. Len(tasks') PROVE g.n < tasks'[m].frame.n
    <3>1. CASE m \in 1 .. Len(tasks)
      BY <1>4, <1>9, <2>1, <3>1 DEF Received
    <3>2. CASE m = Len(tasks) + 1
      BY <1>4, <1>7, <1>8, <1>9, <2>2, <3>2
    <3> QED BY <1>11, <3>1, <3>2
  <2>5. \A m \in 1 .. n - 1 : got[i][m].n < got[i][n].n
    BY <1>4 DEF Received
  <2> QED BY <1>2, <1>4, <2>1, <2>2, <2>3, <2>4, <2>5
<1> QED BY <1>9, <1>13, <1>14

\* Two interfaces of one handle: only one is still registered, and the other was
\* removed (or everything is over).
LEMMA ReusedMeansRemoved ==
  ASSUME TypeOK, Links, ~disposed, NEW i \in interfaces, NEW j \in Iface,
         handle[i] # None, handle[j] = handle[i]
  PROVE  i = j \/ j \in removed
<1>1. i \in Iface
  BY DEF TypeOK
<1>2. netif[handle[i]] = i
  BY <1>1 DEF Links
<1>3. j \in interfaces => netif[handle[i]] = j
  BY DEF Links
<1>4. j \in interfaces \cup removed
  BY DEF Links
<1> QED BY <1>2, <1>3, <1>4

LEMMA DeliveredIsOwn ==
  ASSUME TypeOK, Links, ~disposed, NEW t \in Task, OnItsWay(t),
         NEW i \in At(t.kind, t.handle)
  PROVE  Own(i, t.frame)
<1>1. /\ t.handle \in Handle /\ t.handle # None
      /\ t.frame.on \in Iface \cup {None} /\ t.frame.bridge \in Iface \cup {None}
  BY FrameTypes, NoneIsNoName DEF Task
<1>2. i \in interfaces /\ handle[i] = t.handle /\ i \in Iface
  BY DEF At, TypeOK
<1>3. t.frame.on = i \/ t.frame.on \in removed \cup {None}
  <2>1. t.frame.on # None => handle[t.frame.on] = handle[i]
    BY <1>2 DEF OnItsWay
  <2> QED BY <1>1, <1>2, <2>1, ReusedMeansRemoved
<1>4. ASSUME t.frame.bridge # None
      PROVE  /\ handle[t.frame.bridge] # None
             /\ i \in portIfs[t.frame.bridge] \/ portIfs[t.frame.bridge] \cap removed # {}
  <2>1. PICK b : b = t.frame.bridge
    OBVIOUS
  <2>2. b \in Iface /\ t.handle \in ports[b]
    BY <1>1, <1>4, <2>1 DEF OnItsWay
  <2>3. handle[b] # None
    BY <2>2 DEF Links
  <2>4. PICK p \in portIfs[b] : handle[p] = t.handle
    BY <2>2 DEF Links
  <2>5. p \in Iface
    <3>1. portIfs[b] \subseteq Iface
      BY <2>2 DEF TypeOK
    <3> QED BY <3>1
  <2>6. p = i \/ p \in removed
    BY <1>1, <1>2, <2>4, <2>5, ReusedMeansRemoved
  <2> QED BY <2>1, <2>3, <2>4, <2>6
<1> QED BY <1>3, <1>4 DEF Own

LEMMA DeliverStep ==
  ASSUME IInv, RunTask(disposed)
  PROVE  /\ Sent' /\ Received' /\ tasks' \in Seq(Task) /\ got' \in [Iface -> Seq(FrameType)]
<1>1. PICK t, rest : t = Head(tasks) /\ rest = Tail(tasks)
  OBVIOUS
<1>2. /\ tasks # <<>> /\ tasks' = rest
      /\ got' = IF disposed THEN got ELSE Deliver(t)
      /\ UNCHANGED <<linkVars, removed, count>>
  BY <1>1 DEF RunTask
<1>3. UNCHANGED <<handle, netif, ports, portIfs, removed, count>>
  BY <1>2 DEF linkVars
<1>4. /\ TypeOK /\ Links /\ Sent /\ Received /\ tasks \in Seq(Task) /\ count \in Nat
      /\ got \in [Iface -> Seq(FrameType)]
  BY FramesConstants DEF IInv, TypeOK, Sent, Task
<1>5. /\ rest \in Seq(Task) /\ Len(rest) = Len(tasks) - 1 /\ Len(tasks) \in Nat /\ Len(tasks) # 0
      /\ \A m \in 1 .. Len(rest) : rest[m] = tasks[m + 1]
      /\ t = tasks[1] /\ t \in Task
  <2>1. Len(tasks) \in Nat /\ Len(tasks) # 0
    BY <1>2, <1>4, EmptySeq, LenProperties
  <2>2. /\ rest \in Seq(Task) /\ Len(rest) = Len(tasks) - 1
        /\ \A m \in 1 .. Len(rest) : rest[m] = tasks[m + 1]
    BY <1>1, <1>2, <1>4, HeadTailProperties
  <2>3. t = tasks[1]
    BY <1>1, <1>4
  <2>4. t \in Task
    BY <2>1, <2>3, <1>4, ElementOfSeq
  <2> QED BY <2>1, <2>2, <2>3, <2>4
<1>6. /\ 1 \in 1 .. Len(tasks)
      /\ \A m \in 1 .. Len(rest) : /\ m + 1 \in 1 .. Len(tasks) /\ 1 \in 1 .. (m + 1) - 1
                                   /\ \A n \in 1 .. m - 1 : n \in 1 .. Len(rest) /\ n + 1 \in 1 .. (m + 1) - 1
  BY <1>5
<1>7. t.frame \in FrameType /\ t.frame.n \in Nat /\ t.frame.n <= count /\ OnItsWay(t)
  BY <1>4, <1>5, <1>6, FrameTypes DEF Sent, Task
<1>8. ASSUME NEW m \in 1 .. Len(rest)
      PROVE  /\ rest[m].frame.n <= count /\ OnItsWay(rest[m])
             /\ t.frame.n < rest[m].frame.n
             /\ \A n \in 1 .. m - 1 : rest[n].frame.n < rest[m].frame.n
             /\ \A i \in Iface : \A n \in 1 .. Len(got[i]) : got[i][n].n < rest[m].frame.n
  BY <1>4, <1>5, <1>6 DEF Sent, Received
<1>9. Sent'
  <2>1. ASSUME NEW m \in 1 .. Len(rest) PROVE OnItsWay(tasks[m])'
    BY <1>2, <1>3, <1>8 DEF OnItsWay
  <2> QED BY <1>2, <1>3, <1>4, <1>8, <2>1 DEF Sent
<1>10. ASSUME NEW i \in Iface
       PROVE  \/ got'[i] = got[i]
              \/ ~disposed /\ i \in At(t.kind, t.handle) /\ got'[i] = Append(got[i], t.frame)
  BY <1>2, <1>4 DEF Deliver
<1>11. got' \in [Iface -> Seq(FrameType)]
  <2>1. CASE disposed
    BY <1>2, <1>4, <2>1
  <2>2. CASE ~disposed
    <3>1. \A i \in Iface : Append(got[i], t.frame) \in Seq(FrameType) /\ got[i] \in Seq(FrameType)
      BY <1>4, <1>7, AppendProperties
    <3> QED BY <1>2, <2>2, <3>1 DEF Deliver
  <2> QED BY <2>1, <2>2
<1>12. ASSUME NEW i \in Iface
       PROVE  \A n \in 1 .. Len(got'[i]) :
                /\ got'[i][n].n <= count /\ Own(i, got'[i][n])
                /\ \A m \in 1 .. n - 1 : got'[i][m].n < got'[i][n].n
                /\ \A m \in 1 .. Len(rest) : got'[i][n].n < rest[m].frame.n
  <2>1. CASE got'[i] = got[i]
    BY <1>4, <1>8, <2>1 DEF Received
  <2>2. CASE ~disposed /\ i \in At(t.kind, t.handle) /\ got'[i] = Append(got[i], t.frame)
    <3>1. PICK s, g : s = got[i] /\ g = got'[i]
      OBVIOUS
    <3>2. /\ s \in Seq(FrameType) /\ Len(s) \in Nat /\ Len(g) = Len(s) + 1
          /\ g[Len(s) + 1] = t.frame /\ \A n \in 1 .. Len(s) : g[n] = s[n]
      BY <1>4, <1>7, <2>2, <3>1, AppendProperties, LenProperties
    <3>3. Own(i, t.frame)
      BY <1>4, <1>5, <1>7, <2>2, DeliveredIsOwn
    <3>4. ASSUME NEW n \in 1 .. Len(s)
          PROVE  /\ g[n].n <= count /\ Own(i, g[n]) /\ g[n].n < t.frame.n
                 /\ \A m \in 1 .. n - 1 : m \in 1 .. Len(s) /\ g[m].n < g[n].n
                 /\ \A m \in 1 .. Len(rest) : g[n].n < rest[m].frame.n
      <4>1. \A m \in 1 .. n - 1 : m \in 1 .. Len(s)
        BY <3>2
      <4>2. s[n].n <= count /\ Own(i, s[n]) /\ s[n].n < t.frame.n
            /\ (\A m \in 1 .. n - 1 : s[m].n < s[n].n)
        BY <1>4, <1>5, <1>6, <3>1 DEF Received
      <4> QED BY <1>8, <3>1, <3>2, <4>1, <4>2
    <3>5. ASSUME NEW n \in 1 .. Len(g)
          PROVE  /\ g[n].n <= count /\ Own(i, g[n])
                 /\ \A m \in 1 .. n - 1 : g[m].n < g[n].n
                 /\ \A m \in 1 .. Len(rest) : g[n].n < rest[m].frame.n
      <4>1. n \in 1 .. Len(s) \/ n = Len(s) + 1
        <5>1. Len(g) = Len(s) + 1 /\ Len(s) \in Nat
          BY <3>2
        <5> QED BY <5>1
      <4>2. CASE n \in 1 .. Len(s)
        BY <3>4, <4>2
      <4>3. CASE n = Len(s) + 1
        <5>1. g[n] = t.frame
          BY <3>2, <4>3
        <5>2. \A m \in 1 .. n - 1 : m \in 1 .. Len(s)
          BY <3>2, <4>3
        <5> QED BY <1>7, <1>8, <3>3, <3>4, <5>1, <5>2
      <4> QED BY <4>1, <4>2, <4>3
    <3> QED BY <3>1, <3>5
  <2> QED BY <1>10, <2>1, <2>2
<1>13. Received'
  <2> SUFFICES ASSUME NEW i \in Iface, NEW n \in 1 .. Len(got'[i])
               PROVE  /\ got'[i][n].n <= count' /\ Own(i, got[i][n])'
                      /\ \A m \in 1 .. n - 1 : got'[i][m].n < got'[i][n].n
                      /\ \A m \in 1 .. Len(tasks') : got'[i][n].n < tasks'[m].frame.n
    BY DEF Received
  <2>1. PICK f : f = got'[i][n]
    OBVIOUS
  <2>2. Own(i, f)
    BY <1>12, <2>1
  <2>3. Own(i, got[i][n])'
    BY <1>3, <2>1, <2>2 DEF Own
  <2> QED BY <1>2, <1>3, <1>12, <2>3
<1> QED BY <1>2, <1>5, <1>9, <1>11, <1>13

-----------------------------------------------------------------------------
(* Interfaces come and go *)

LinkTypes ==
  /\ handle \in [Iface -> Handle \cup {None}] /\ netif \in [Handle -> Iface \cup {None}]
  /\ interfaces \subseteq Iface
  /\ ports \in [Iface -> SUBSET Handle] /\ portIfs \in [Iface -> SUBSET Iface]
  /\ bridged \in [Iface -> Iface \cup {None}]

\* An address malloc returns is nobody's, so register replaces nothing.
LEMMA RegisterReplacesNothing ==
  ASSUME TypeOK, Links, NEW h \in Handle, netif[h] = None, NEW k
  PROVE  At(k, h) = {}
<1> SUFFICES ASSUME NEW j \in interfaces, handle[j] = h PROVE FALSE
  BY DEF At
<1>1. j \in Iface /\ handle[j] # None
  BY NoneIsNoName DEF TypeOK
<1>2. netif[h] = j
  BY <1>1 DEF Links
<1> QED BY <1>1, <1>2, NoneIsNoName

LEMMA CreateStep ==
  ASSUME TypeOK, Links, ~disposed, NEW i \in Iface, handle[i] = None, Create(i),
         UNCHANGED <<removed, disposed>>
  PROVE  LinkTypes' /\ Links' /\ Grows /\ interfaces' = interfaces \cup {i}
<1>1. PICK h \in Handle : netif[h] = None /\ (CreatePlain(i, h) \/ CreateBridge(i, h))
  BY DEF Create, Malloc
<1>2. /\ h # None /\ i # None
      /\ handle \in [Iface -> Handle \cup {None}] /\ netif \in [Handle -> Iface \cup {None}]
      /\ interfaces \subseteq Iface
      /\ ports \in [Iface -> SUBSET Handle] /\ portIfs \in [Iface -> SUBSET Iface]
      /\ bridged \in [Iface -> Iface \cup {None}]
  BY NoneIsNoName DEF TypeOK
<1>3. /\ handle' = [handle EXCEPT ![i] = h] /\ netif' = [netif EXCEPT ![h] = i]
      /\ interfaces' = interfaces \cup {i}
  BY <1>1, RegisterReplacesNothing DEF CreatePlain, CreateBridge, Register
<1>4. /\ handle'[i] = h /\ \A j \in Iface : j # i => handle'[j] = handle[j]
      /\ netif'[h] = i /\ \A g \in Handle : g # h => netif'[g] = netif[g]
  BY <1>2, <1>3
<1>5. /\ ports' \in [Iface -> SUBSET Handle] /\ portIfs' \in [Iface -> SUBSET Iface]
      /\ bridged' \in [Iface -> Iface \cup {None}]
      /\ \A b \in Iface : b # i => ports'[b] = ports[b] /\ portIfs'[b] = portIfs[b]
      /\ \A p \in ports'[i] : \E t \in portIfs'[i] : t # i /\ handle[t] = p
  <2>1. CASE CreatePlain(i, h)
    <3>1. UNCHANGED <<ports, portIfs, bridged>>
      BY <2>1 DEF CreatePlain
    <3>2. ports[i] = {}
      BY DEF Links
    <3> QED BY <1>2, <3>1, <3>2
  <2>2. CASE CreateBridge(i, h)
    <3>1. PICK ps \in SUBSET {t \in Iface : Kind[t] = "tap" /\ handle[t] # None} :
            /\ portIfs' = [portIfs EXCEPT ![i] = ps]
            /\ ports' = [ports EXCEPT ![i] = {handle[t] : t \in ps}]
            /\ bridged' = [t \in Iface |-> IF \E p \in ports'[i] : netif'[p] = t THEN i ELSE bridged[t]]
      BY <2>2 DEF CreateBridge
    <3>2. ps \subseteq Iface /\ \A t \in ps : t \in Iface /\ t # i /\ handle[t] \in Handle
      BY <1>2, <3>1
    <3>3. {handle[t] : t \in ps} \subseteq Handle
      BY <3>2
    <3>4. portIfs' \in [Iface -> SUBSET Iface] /\ portIfs'[i] = ps
          /\ \A b \in Iface : b # i => portIfs'[b] = portIfs[b]
      BY <1>2, <3>1, <3>2
    <3>5. ports' \in [Iface -> SUBSET Handle] /\ ports'[i] = {handle[t] : t \in ps}
          /\ \A b \in Iface : b # i => ports'[b] = ports[b]
      BY <1>2, <3>1, <3>3
    <3>6. bridged' \in [Iface -> Iface \cup {None}]
      BY <1>2, <3>1
    <3> QED BY <3>2, <3>4, <3>5, <3>6
  <2> QED BY <1>1, <2>1, <2>2
<1>6. LinkTypes'
  BY <1>2, <1>3, <1>5 DEF LinkTypes
<1>7. Grows
  BY <1>4, <1>5 DEF Grows
<1>8. Links'
  <2>1. ASSUME NEW j \in Iface, handle'[j] # None
        PROVE  /\ j \in interfaces' => netif'[handle'[j]] = j
               /\ j \in interfaces' \cup removed'
    <3>1. CASE j = i
      BY <1>3, <1>4, <3>1
    <3>2. CASE j # i
      <4>1. handle'[j] = handle[j] /\ handle[j] \in Handle
        BY <1>2, <1>4, <2>1, <3>2
      <4>2. j \in interfaces => netif[handle[j]] = j /\ handle[j] # h
        BY <1>1, <2>1, <4>1, NoneIsNoName DEF Links
      <4> QED BY <1>3, <1>4, <2>1, <3>2, <4>1, <4>2 DEF Links
    <3> QED BY <3>1, <3>2
  <2>2. ASSUME NEW g \in Handle, netif'[g] # None PROVE handle'[netif'[g]] = g
    <3>1. CASE g = h
      BY <1>4, <3>1
    <3>2. CASE g # h
      <4>1. netif'[g] = netif[g] /\ netif[g] \in Iface /\ handle[netif[g]] = g
        BY <1>2, <1>4, <2>2, <3>2 DEF Links
      <4>2. netif[g] # i
        BY <4>1, NoneIsNoName
      <4> QED BY <1>4, <4>1, <4>2
    <3> QED BY <3>1, <3>2
  <2>3. ASSUME NEW b \in Iface, NEW p \in ports'[b] PROVE \E t \in portIfs'[b] : handle'[t] = p
    <3>1. p \in Handle
      BY <1>5
    <3>2. PICK t \in portIfs'[b] : handle[t] = p
      BY <1>5, <2>3 DEF Links
    <3>3. t \in Iface /\ t # i
      <4>1. portIfs'[b] \subseteq Iface
        BY <1>5
      <4> QED BY <3>1, <3>2, <4>1, NoneIsNoName
    <3> QED BY <1>4, <3>2, <3>3
  <2>4. \A b \in Iface : handle'[b] = None => ports'[b] = {}
    BY <1>2, <1>4, <1>5 DEF Links
  <2>5. \A j \in interfaces' : Kind[j] # "bridge" => handle'[j] # None
    BY <1>2, <1>3, <1>4 DEF Links
  <2> QED BY <2>1, <2>2, <2>3, <2>4, <2>5 DEF Links
<1> QED BY <1>3, <1>6, <1>7, <1>8

LEMMA CreateNullStep ==
  ASSUME TypeOK, Links, ~disposed, NEW i \in Iface, handle[i] = None, CreateNull(i),
         UNCHANGED <<removed, disposed>>
  PROVE  /\ LinkTypes' /\ Links' /\ Grows
         /\ OneBridge => interfaces \subseteq interfaces'
<1>1. UNCHANGED <<handle, netif, ports, portIfs, bridged>>
  BY DEF CreateNull
<1>2. /\ interfaces' \subseteq interfaces \cup {i}
      /\ \A j \in interfaces : handle[j] # None => j \in interfaces'
  BY DEF CreateNull, At
<1>3. OneBridge => interfaces \subseteq interfaces'
  BY DEF CreateNull, At, OneBridge, TypeOK
<1>4. LinkTypes'
  BY <1>1, <1>2 DEF TypeOK, LinkTypes
<1>5. Grows
  BY <1>1 DEF Grows
<1>6. Links'
  <2>1. \A j \in interfaces' : Kind[j] # "bridge" => handle[j] # None
    BY DEF CreateNull, Links
  <2> QED BY <1>1, <1>2, <2>1 DEF Links
<1> QED BY <1>3, <1>4, <1>5, <1>6

LEMMA FreeStep ==
  ASSUME TypeOK, Links, ~disposed, NEW i \in Iface, Free(i), UNCHANGED disposed
  PROVE  LinkTypes' /\ Links' /\ Grows /\ removed' = removed \cup {i}
<1>1. /\ UNCHANGED <<handle, ports, portIfs>>
      /\ netif' = [h \in Handle |-> IF i \in interfaces /\ h = handle[i] THEN None ELSE netif[h]]
      /\ interfaces' = interfaces \ {i} /\ removed' = removed \cup {i}
      /\ bridged' = [bridged EXCEPT ![i] = None]
  BY DEF Free
<1>2. /\ handle \in [Iface -> Handle \cup {None}] /\ netif \in [Handle -> Iface \cup {None}]
      /\ interfaces \subseteq Iface /\ bridged \in [Iface -> Iface \cup {None}]
  BY DEF TypeOK
<1>3. LinkTypes'
  <2>1. netif' \in [Handle -> Iface \cup {None}] /\ bridged' \in [Iface -> Iface \cup {None}]
    BY <1>1, <1>2
  <2> QED BY <1>1, <2>1 DEF TypeOK, LinkTypes
<1>4. Grows
  BY <1>1 DEF Grows
<1>5. Links'
  <2>1. ASSUME NEW j \in Iface, handle'[j] # None
        PROVE  /\ j \in interfaces' => netif'[handle'[j]] = j
               /\ j \in interfaces' \cup removed'
    <3>1. handle[j] \in Handle /\ handle'[j] = handle[j] /\ j \in interfaces \cup removed
      BY <1>1, <1>2, <2>1 DEF Links
    <3>2. ASSUME j \in interfaces' PROVE netif'[handle[j]] = j
      <4>1. j # i /\ j \in interfaces /\ netif[handle[j]] = j
        BY <1>1, <2>1, <3>1, <3>2 DEF Links
      <4>2. i \in interfaces => handle[i] # handle[j]
        BY <2>1, <3>1, <4>1 DEF Links
      <4> QED BY <1>1, <3>1, <4>1, <4>2
    <3> QED BY <1>1, <3>1, <3>2
  <2>2. ASSUME NEW g \in Handle, netif'[g] # None PROVE handle'[netif'[g]] = g
    BY <1>1, <2>2 DEF Links
  <2>3. /\ \A b \in Iface : \A p \in ports'[b] : \E t \in portIfs'[b] : handle'[t] = p
        /\ \A b \in Iface : handle'[b] = None => ports'[b] = {}
        /\ \A j \in interfaces' : Kind[j] # "bridge" => handle'[j] # None
    BY <1>1 DEF Links
  <2> QED BY <2>1, <2>2, <2>3 DEF Links
<1> QED BY <1>1, <1>3, <1>4, <1>5

\* #terminate, by dispose() or by an initialisation that throws.
LEMMA TerminateStep ==
  ASSUME IInv, Terminate, UNCHANGED <<handle, netif, ports, portIfs, bridged, removed>>
  PROVE  /\ LinkTypes' /\ Links' /\ Grows /\ disposed' = TRUE
         /\ ended' \subseteq Iface /\ attached' \subseteq Iface
         /\ Over'
<1>1. /\ disposed' = TRUE /\ ~timer' /\ ~exports' /\ attached' = attached \ interfaces
      /\ IF disposed THEN UNCHANGED <<interfaces, ended>> ELSE EndStreams
  BY DEF Terminate
<1>2. /\ TypeOK /\ Links /\ Over
  BY DEF IInv
<1>3. interfaces' = {}
  BY <1>1, <1>2 DEF EndStreams, Links
<1>4. LinkTypes' /\ Grows
  BY <1>2, <1>3 DEF TypeOK, LinkTypes, Grows
<1>5. Links'
  BY <1>1, <1>2, <1>3 DEF Links
<1>6. ended \subseteq ended' /\ ended' \subseteq Iface /\ attached' \subseteq Iface
  BY <1>1, <1>2 DEF EndStreams, TypeOK, Streamed
<1>7. \A i \in Streamed : handle[i] # None => i \in ended' \cup removed
  <2>1. CASE disposed
    BY <1>2, <1>6, <2>1 DEF Over
  <2>2. CASE ~disposed
    BY <1>1, <1>2, <2>2 DEF EndStreams, Links, Streamed
  <2> QED BY <2>1, <2>2
<1>8. Over'
  BY <1>1, <1>2, <1>7 DEF Over, Streamed
<1> QED BY <1>1, <1>4, <1>5, <1>6, <1>8

-----------------------------------------------------------------------------
(* What a step has to establish *)

LEMMA SameLinks ==
  ASSUME TypeOK, Links, UNCHANGED <<linkVars, removed, disposed>>
  PROVE  LinkTypes' /\ Links' /\ Grows /\ UNCHANGED <<handle, interfaces>>
<1>1. UNCHANGED <<handle, netif, interfaces, ports, portIfs, bridged, removed, disposed>>
  BY DEF linkVars
<1>2. LinkTypes'
  BY <1>1 DEF TypeOK, LinkTypes
<1>3. Links' /\ Grows
  BY <1>1 DEF Links, Grows
<1> QED BY <1>1, <1>2, <1>3

CallTypes ==
  /\ attached \subseteq Iface /\ removed \subseteq Iface /\ ended \subseteq Iface
  /\ phase \in {"loading", "loopback", "address", "up", "failed"}
  /\ creating \in [Iface -> {"none", "wait", "made", "open", "failed"}]
  /\ removing \in [Iface -> {"none", "wait", "done", "failed"}]
  /\ disposal \in {"none", "pending", "settled"}

\* Steps of the initialisation and of the calls leave the frames alone.
LEMMA CallStep ==
  ASSUME IInv, UNCHANGED <<tasks, listening, got, count, strays>>,
         Grows, LinkTypes', Links', CallTypes', Life', Over'
  PROVE  IInv'
<1>1. TypeOK'
  BY DEF IInv, TypeOK, LinkTypes, CallTypes
<1>2. Sent' /\ Received'
  BY KeepFrames DEF IInv
<1>3. (strays \subseteq removed)'
  BY DEF IInv, Grows
<1> QED BY <1>1, <1>2, <1>3 DEF IInv

\* Frames leave the interfaces and the calls alone.
LEMMA FrameKeeps ==
  ASSUME IInv, UNCHANGED <<linkVars, removed, ended, stackVars>>,
         listening' \subseteq Iface, got' \in [Iface -> Seq(FrameType)], tasks' \in Seq(Task),
         Sent', Received', strays' \subseteq removed
  PROVE  IInv'
<1>1. UNCHANGED <<handle, netif, interfaces, ports, portIfs, bridged, removed, ended, phase, withLo,
                  disposed, exports, timer, attached, loAddress, creating, removing, disposal>>
  BY DEF linkVars, stackVars
<1>2. TypeOK'
  BY <1>1 DEF IInv, TypeOK, Task
<1>3. Links'
  BY <1>1 DEF IInv, Links
<1>4. Life'
  BY <1>1 DEF IInv, Life
<1>5. Over'
  BY <1>1 DEF IInv, Over
<1> QED BY <1>1, <1>2, <1>3, <1>4, <1>5 DEF IInv

-----------------------------------------------------------------------------
(* Frames *)

LEMMA SentByLwip ==
  ASSUME IInv, UNCHANGED <<linkVars, removed, listening, ended, got, strays, stackVars>>,
         NEW h \in Handle, NEW kind \in {"tap", "tun"}, NEW b \in Iface \cup {None},
         netif[h] # None => Kind[netif[h]] = kind,
         b # None => h \in ports[b],
         Copy(h, kind, b)
  PROVE  IInv'
<1>1. Sent' /\ Received' /\ tasks' \in Seq(Task)
  BY CopyStep
<1>2. listening' \subseteq Iface /\ got' \in [Iface -> Seq(FrameType)] /\ strays' \subseteq removed
  BY DEF IInv, TypeOK
<1> QED BY <1>1, <1>2, FrameKeeps

LEMMA ForwardStep ==
  ASSUME IInv, NEW b \in Iface, NEW from, Forward(b, from)
  PROVE  \E p \in Handle : /\ netif[p] # None => Kind[netif[p]] = "tap"
                           /\ p \in ports[b] /\ Copy(p, "tap", b)
<1>1. ports[b] \subseteq Handle
  BY DEF IInv, TypeOK
<1> QED BY <1>1 DEF Forward

LEMMA OutputInd == ASSUME IInv, NEW i \in Iface, Output(i), UNCHANGED stackVars PROVE IInv'
<1>1. /\ i \in interfaces /\ Kind[i] \in {"tap", "tun"} /\ Copy(handle[i], Kind[i], None)
      /\ UNCHANGED <<linkVars, removed, listening, ended, got, strays>>
  BY DEF Output, Streamed
<1>2. handle[i] \in Handle
  <2>1. handle[i] \in Handle \cup {None} /\ handle[i] # None
    BY <1>1 DEF IInv, TypeOK, Links
  <2> QED BY <2>1
<1>3. netif[handle[i]] = i
  <2>1. i \in Iface
    BY <1>1 DEF IInv, TypeOK
  <2> QED BY <1>1, <1>2, <2>1, NoneIsNoName DEF IInv, Links
<1> QED BY <1>1, <1>2, <1>3, SentByLwip

LEMMA BridgeInd == IInv /\ BridgeOutput /\ UNCHANGED stackVars => IInv'
<1> SUFFICES ASSUME IInv, BridgeOutput, UNCHANGED stackVars PROVE IInv'
  OBVIOUS
<1>1. PICK b \in interfaces : Forward(b, None)
  BY DEF BridgeOutput
<1>2. b \in Iface
  BY DEF IInv, TypeOK
<1>3. PICK p \in Handle : /\ netif[p] # None => Kind[netif[p]] = "tap"
                          /\ p \in ports[b] /\ Copy(p, "tap", b)
  BY <1>1, <1>2, ForwardStep
<1>4. UNCHANGED <<linkVars, removed, listening, ended, got, strays>>
  BY DEF BridgeOutput
<1> QED BY <1>2, <1>3, <1>4, SentByLwip

\* A write comes in under the structure at the object's handle: its own, unless
\* the object was removed.
LEMMA WriteInd == ASSUME IInv, NEW i \in Iface, Write(i), UNCHANGED stackVars PROVE IInv'
<1>1. PICK j, s : j = netif[handle[i]] /\ s = IF j = i THEN strays ELSE strays \cup {i}
  OBVIOUS
<1>2. /\ i \in Streamed /\ i \notin ended /\ handle[i] # None /\ strays' = s
      /\ \/ j # None /\ bridged[j] # None /\ Forward(bridged[j], handle[i])
         \/ UNCHANGED <<tasks, count>>
      /\ UNCHANGED <<linkVars, removed, listening, ended, got>>
  BY <1>1 DEF Write
<1>3. TypeOK /\ Links /\ Over /\ strays \subseteq removed /\ Sent /\ Received
  BY DEF IInv
<1>4. i \in removed \/ j = i
  <2>1. CASE disposed
    BY <1>2, <1>3, <2>1 DEF Over
  <2>2. CASE ~disposed
    BY <1>1, <1>2, <1>3, <2>2 DEF Links
  <2> QED BY <2>1, <2>2
<1>5. s \subseteq removed
  BY <1>1, <1>3, <1>4
<1>6. handle[i] \in Handle /\ j \in Iface \cup {None}
  <2>1. handle[i] \in Handle
    BY <1>2, <1>3 DEF TypeOK
  <2> QED BY <1>1, <1>3, <2>1 DEF TypeOK
<1>7. Sent' /\ Received' /\ tasks' \in Seq(Task)
  <2>1. CASE UNCHANGED <<tasks, count>>
    <3>1. UNCHANGED <<handle, netif, ports, portIfs, removed, tasks, got, count>>
      BY <1>2, <2>1 DEF linkVars
    <3>2. tasks' \in Seq(Task)
      BY <1>3, <3>1 DEF TypeOK, Task
    <3> QED BY <1>3, <3>1, <3>2, KeepFrames DEF Grows
  <2>2. CASE j # None /\ bridged[j] # None /\ Forward(bridged[j], handle[i])
    <3>1. PICK b : b = bridged[j]
      OBVIOUS
    <3>2. b \in Iface /\ Forward(b, handle[i])
      <4>1. bridged[j] \in Iface \cup {None}
        BY <1>3, <1>6, <2>2 DEF TypeOK
      <4> QED BY <2>2, <3>1, <4>1
    <3>3. PICK p \in Handle : /\ netif[p] # None => Kind[netif[p]] = "tap"
                              /\ p \in ports[b] /\ Copy(p, "tap", b)
      BY <3>2, ForwardStep
    <3> QED BY <1>2, <3>2, <3>3, CopyStep
  <2> QED BY <1>2, <2>1, <2>2
<1>8. listening' \subseteq Iface /\ got' \in [Iface -> Seq(FrameType)]
  BY <1>2, <1>3 DEF TypeOK
<1> QED BY <1>2, <1>5, <1>7, <1>8, FrameKeeps

LEMMA LockInd == ASSUME IInv, NEW i \in Iface, Lock(i), UNCHANGED stackVars PROVE IInv'
<1>1. /\ listening' = listening \cup {i}
      /\ UNCHANGED <<linkVars, removed, tasks, ended, got, count, strays>>
  BY DEF Lock
<1>2. TypeOK /\ Links /\ Sent /\ Received /\ strays \subseteq removed
  BY DEF IInv
<1>3. UNCHANGED <<handle, ports, portIfs, removed, tasks, got, count>>
  BY <1>1 DEF linkVars
<1>4. Sent' /\ Received'
  BY <1>2, <1>3, KeepFrames DEF Grows
<1>5. listening' \subseteq Iface /\ got' \in [Iface -> Seq(FrameType)] /\ tasks' \in Seq(Task)
  BY <1>1, <1>2, <1>3 DEF TypeOK, Task
<1>6. strays' \subseteq removed
  BY <1>1, <1>2
<1> QED BY <1>1, <1>4, <1>5, <1>6, FrameKeeps

LEMMA RunInd == IInv /\ RunTask(disposed) /\ UNCHANGED stackVars => IInv'
<1> SUFFICES ASSUME IInv, RunTask(disposed), UNCHANGED stackVars PROVE IInv'
  OBVIOUS
<1>1. UNCHANGED <<linkVars, removed, listening, ended, count, strays>>
  BY DEF RunTask
<1>2. /\ Sent' /\ Received' /\ tasks' \in Seq(Task) /\ got' \in [Iface -> Seq(FrameType)]
  BY DeliverStep
<1>3. listening' \subseteq Iface /\ strays' \subseteq removed
  BY <1>1 DEF IInv, TypeOK
<1> QED BY <1>1, <1>2, <1>3, FrameKeeps

LEMMA LinkStepInd == IInv /\ LinkStep => IInv'
BY OutputInd, WriteInd, BridgeInd, LockInd, RunInd DEF LinkStep, FrameStep

-----------------------------------------------------------------------------
(* The initialisation, the calls and dispose() *)

LEMMA ThrowsInd ==
  ASSUME IInv, InitThrows, phase \in {"loading", "loopback", "address"},
         UNCHANGED <<withLo, removing, disposal, removed, tasks, listening, got, count, strays>>
  PROVE  IInv'
<1>1. /\ phase' = "failed" /\ Terminate
      /\ UNCHANGED <<handle, netif, ports, portIfs, bridged, loAddress, creating>>
  BY DEF InitThrows
<1>2. /\ LinkTypes' /\ Links' /\ Grows /\ disposed' = TRUE
      /\ ended' \subseteq Iface /\ attached' \subseteq Iface /\ Over'
  BY <1>1, TerminateStep
<1>3. CallTypes'
  BY <1>1, <1>2 DEF IInv, TypeOK, CallTypes
<1>4. Life'
  BY <1>1, <1>2 DEF IInv, Life
<1> QED BY <1>2, <1>3, <1>4, CallStep

LEMMA LoadInd == IInv /\ Load => IInv'
<1> SUFFICES ASSUME IInv, Load PROVE IInv'
  OBVIOUS
<1>1. /\ phase = "loading"
      /\ UNCHANGED <<withLo, removing, disposal, removed, tasks, listening, got, count, strays>>
  BY DEF Load
<1>2. TypeOK /\ Links /\ Life /\ Over
  BY DEF IInv
<1>3. CASE InitThrows
  BY <1>1, <1>3, ThrowsInd
<1>4. CASE ~InitThrows
  <2>1. /\ ~disposed /\ exports' = TRUE /\ UNCHANGED <<disposed, attached, loAddress, ended>>
        /\ \/ /\ withLo /\ phase' = "loopback"
              /\ creating' = [creating EXCEPT ![Lo] = "made"]
              /\ Create(Lo) /\ UNCHANGED timer
           \/ ~withLo /\ Up /\ UNCHANGED <<linkVars, creating>>
    BY <1>4 DEF Load
  <2>2. CASE withLo /\ phase' = "loopback" /\ creating' = [creating EXCEPT ![Lo] = "made"]
             /\ Create(Lo) /\ UNCHANGED timer
    <3>1. Lo \in Iface /\ handle[Lo] = None
      BY <1>1, <1>2, StackConstants DEF Life
    <3>2. LinkTypes' /\ Links' /\ Grows /\ interfaces' = interfaces \cup {Lo}
      BY <1>1, <1>2, <2>1, <2>2, <3>1, CreateStep
    <3>3. creating' \in [Iface -> {"none", "wait", "made", "open", "failed"}]
          /\ creating'[Lo] = "made" /\ \A i \in Iface : i # Lo => creating'[i] = creating[i]
      BY <1>2, <2>2, <3>1 DEF TypeOK
    <3>4. CallTypes'
      BY <1>1, <1>2, <2>1, <2>2, <3>3 DEF TypeOK, CallTypes
    <3>5. \A i \in Iface : creating'[i] \in {"none", "wait"} => handle'[i] = None
      <4>1. \A i \in Iface : i # Lo => handle'[i] = handle[i]
        <5>1. handle \in [Iface -> Handle \cup {None}]
          BY <1>2 DEF TypeOK
        <5> QED BY <2>2, <5>1 DEF Create, CreatePlain, CreateBridge, Register
      <4> QED BY <1>2, <3>3, <4>1 DEF Life
    <3>6. Life'
      BY <1>1, <1>2, <2>1, <2>2, <3>3, <3>5 DEF Life
    <3>7. Over'
      BY <1>2, <2>1, <3>2 DEF Over
    <3> QED BY <1>1, <3>2, <3>4, <3>6, <3>7, CallStep
  <2>3. CASE ~withLo /\ Up /\ UNCHANGED <<linkVars, creating>>
    <3>1. LinkTypes' /\ Links' /\ Grows /\ UNCHANGED <<handle, interfaces>>
      BY <1>1, <1>2, <2>1, <2>3, SameLinks
    <3>2. CallTypes'
      BY <1>1, <1>2, <2>1, <2>3 DEF Up, TypeOK, CallTypes
    <3>3. Life'
      BY <1>1, <1>2, <2>1, <2>3, <3>1 DEF Up, Life
    <3>4. Over'
      BY <1>2, <2>1, <3>1 DEF Over
    <3> QED BY <1>1, <3>1, <3>2, <3>3, <3>4, CallStep
  <2> QED BY <2>1, <2>2, <2>3
<1> QED BY <1>3, <1>4

LEMMA AttachLoInd == IInv /\ AttachLo => IInv'
<1> SUFFICES ASSUME IInv, AttachLo PROVE IInv'
  OBVIOUS
<1>1. /\ phase = "loopback"
      /\ UNCHANGED <<withLo, removing, disposal, removed, tasks, listening, got, count, strays>>
  BY DEF AttachLo
<1>2. TypeOK /\ Links /\ Life /\ Over /\ Lo \in Iface
  BY StackConstants DEF IInv
<1>3. CASE InitThrows
  BY <1>1, <1>3, ThrowsInd
<1>4. CASE ~InitThrows
  <2>1. /\ ~disposed /\ Lo \in interfaces /\ phase' = "address"
        /\ attached' = attached \cup {Lo} /\ loAddress' = Both
        /\ creating' = [creating EXCEPT ![Lo] = "open"]
        /\ UNCHANGED <<linkVars, disposed, exports, timer, ended>>
    BY <1>4 DEF AttachLo, AttachAllowed, Both
  <2>2. LinkTypes' /\ Links' /\ Grows /\ UNCHANGED <<handle, interfaces>>
    BY <1>1, <1>2, <2>1, SameLinks
  <2>3. creating' \in [Iface -> {"none", "wait", "made", "open", "failed"}]
        /\ creating'[Lo] = "open" /\ \A i \in Iface : i # Lo => creating'[i] = creating[i]
    BY <1>2, <2>1 DEF TypeOK
  <2>4. CallTypes'
    BY <1>1, <1>2, <2>1, <2>3 DEF TypeOK, CallTypes
  <2>5. Life'
    BY <1>1, <1>2, <2>1, <2>2, <2>3 DEF Life
  <2>6. Over'
    BY <1>2, <2>1, <2>2 DEF Over
  <2> QED BY <1>1, <2>1, <2>2, <2>4, <2>5, <2>6, CallStep
<1> QED BY <1>3, <1>4

LEMMA StartTimerInd == IInv /\ StartTimer => IInv'
<1> SUFFICES ASSUME IInv, StartTimer PROVE IInv'
  OBVIOUS
<1>1. /\ phase = "address"
      /\ UNCHANGED <<withLo, removing, disposal, removed, tasks, listening, got, count, strays>>
  BY DEF StartTimer
<1>2. TypeOK /\ Links /\ Life /\ Over
  BY DEF IInv
<1>3. CASE InitThrows
  BY <1>1, <1>3, ThrowsInd
<1>4. CASE ~InitThrows
  <2>1. /\ ~disposed /\ phase' = "up" /\ timer' = TRUE
        /\ UNCHANGED <<linkVars, disposed, exports, attached, loAddress, ended, creating>>
    BY <1>4 DEF StartTimer, StartAllowed, Up
  <2>2. LinkTypes' /\ Links' /\ Grows /\ UNCHANGED <<handle, interfaces>>
    BY <1>1, <1>2, <2>1, SameLinks
  <2>3. CallTypes'
    BY <1>1, <1>2, <2>1 DEF TypeOK, CallTypes
  <2>4. Life'
    BY <1>1, <1>2, <2>1, <2>2 DEF Life
  <2>5. Over'
    BY <1>2, <2>1, <2>2 DEF Over
  <2> QED BY <1>1, <2>1, <2>2, <2>3, <2>4, <2>5, CallStep
<1> QED BY <1>3, <1>4

\* A call that only changes its own place, or dispose() settling.
LEMMA CallMoves ==
  ASSUME IInv, UNCHANGED <<linkVars, removed, frameVars, phase, withLo, disposed, exports, timer,
                           attached, loAddress>>,
         creating' \in [Iface -> {"none", "wait", "made", "open", "failed"}],
         removing' \in [Iface -> {"none", "wait", "done", "failed"}],
         disposal' \in {"none", "pending", "settled"},
         phase = "loading" => creating'[Lo] = "none",
         \A i \in Iface : creating'[i] \in {"none", "wait"} => creating[i] \in {"none", "wait"},
         \A i \in Iface : creating'[i] \in {"made", "open"} => creating[i] \in {"made", "open"}
  PROVE  IInv'
<1>1. UNCHANGED <<tasks, listening, ended, got, count, strays>>
  BY DEF frameVars
<1>2. TypeOK /\ Links /\ Life /\ Over
  BY DEF IInv
<1>3. LinkTypes' /\ Links' /\ Grows /\ UNCHANGED <<handle, interfaces>>
  BY <1>2, SameLinks
<1>4. CallTypes'
  BY <1>1, <1>2 DEF TypeOK, CallTypes
<1>5. Life'
  BY <1>2, <1>3 DEF Life
<1>6. Over'
  BY <1>1, <1>2, <1>3 DEF Over
<1> QED BY <1>1, <1>3, <1>4, <1>5, <1>6, CallStep

LEMMA StartCreateInd == ASSUME IInv, NEW i \in Iface, StartCreate(i) PROVE IInv'
<1>1. /\ i # Lo /\ creating[i] = "none"
      /\ creating' = [creating EXCEPT ![i] = "wait"]
      /\ UNCHANGED <<linkVars, removed, frameVars, phase, withLo, disposed, exports, timer, attached,
                     loAddress, removing, disposal>>
  BY DEF StartCreate
<1>2. TypeOK /\ Life
  BY DEF IInv
<1>3. /\ creating' \in [Iface -> {"none", "wait", "made", "open", "failed"}]
      /\ creating'[i] = "wait" /\ \A j \in Iface : j # i => creating'[j] = creating[j]
  BY <1>1, <1>2 DEF TypeOK
<1>4. phase = "loading" => creating'[Lo] = "none"
  BY <1>1, <1>2, <1>3, StackConstants DEF Life
<1>5. /\ removing' \in [Iface -> {"none", "wait", "done", "failed"}]
      /\ disposal' \in {"none", "pending", "settled"}
  BY <1>1, <1>2 DEF TypeOK
<1>6. \A j \in Iface : creating'[j] \in {"none", "wait"} => creating[j] \in {"none", "wait"}
  BY <1>1, <1>3
<1>7. \A j \in Iface : creating'[j] \in {"made", "open"} => creating[j] \in {"made", "open"}
  BY <1>3
<1> QED BY <1>1, <1>3, <1>4, <1>5, <1>6, <1>7, CallMoves

LEMMA StartRemoveInd == ASSUME IInv, NEW i \in Iface, StartRemove(i) PROVE IInv'
<1>1. /\ removing' = [removing EXCEPT ![i] = "wait"]
      /\ UNCHANGED <<linkVars, removed, frameVars, phase, withLo, disposed, exports, timer, attached,
                     loAddress, creating, disposal>>
  BY DEF StartRemove
<1>2. /\ creating \in [Iface -> {"none", "wait", "made", "open", "failed"}]
      /\ removing \in [Iface -> {"none", "wait", "done", "failed"}]
      /\ disposal \in {"none", "pending", "settled"}
      /\ phase = "loading" => creating[Lo] = "none"
  BY DEF IInv, TypeOK, Life
<1>3. removing' \in [Iface -> {"none", "wait", "done", "failed"}]
  BY <1>1, <1>2
<1> QED BY <1>1, <1>2, <1>3, CallMoves

LEMMA SettlesInd == IInv /\ DisposeSettles => IInv'
<1> SUFFICES ASSUME IInv, DisposeSettles PROVE IInv'
  OBVIOUS
<1>1. /\ disposal' = "settled"
      /\ UNCHANGED <<linkVars, removed, frameVars, phase, withLo, disposed, exports, timer, attached,
                     loAddress, creating, removing>>
  BY DEF DisposeSettles
<1>2. /\ creating \in [Iface -> {"none", "wait", "made", "open", "failed"}]
      /\ removing \in [Iface -> {"none", "wait", "done", "failed"}]
      /\ phase = "loading" => creating[Lo] = "none"
  BY DEF IInv, TypeOK, Life
<1> QED BY <1>1, <1>2, CallMoves

LEMMA MakeInd == ASSUME IInv, NEW i \in Iface, Make(i) PROVE IInv'
<1>1. /\ creating[i] = "wait" /\ phase \in {"up", "failed"}
      /\ UNCHANGED <<removed, frameVars, phase, withLo, disposed, exports, timer, attached, loAddress,
                     removing, disposal>>
  BY DEF Make, Passed, Settled
<1>2. TypeOK /\ Links /\ Life /\ Over
  BY DEF IInv
<1>3. UNCHANGED <<tasks, listening, ended, got, count, strays>>
  BY <1>1 DEF frameVars
<1>4. handle[i] = None
  BY <1>1, <1>2 DEF Life
<1>5. PICK end \in {"made", "failed"} :
        /\ creating' = [creating EXCEPT ![i] = end]
        /\ \/ end = "failed" /\ UNCHANGED linkVars
           \/ ~Refused /\ (Create(i) \/ CreateNull(i))
  BY DEF Make
<1>6. /\ creating' \in [Iface -> {"none", "wait", "made", "open", "failed"}]
      /\ creating'[i] = end /\ \A j \in Iface : j # i => creating'[j] = creating[j]
  BY <1>2, <1>5 DEF TypeOK
<1>7. phase = "loading" => creating'[Lo] = "none"
  BY <1>1
<1>8. CASE end = "failed" /\ UNCHANGED linkVars
  <2>1. /\ \A j \in Iface : creating'[j] \in {"none", "wait"} => creating[j] \in {"none", "wait"}
        /\ \A j \in Iface : creating'[j] \in {"made", "open"} => creating[j] \in {"made", "open"}
    BY <1>6, <1>8
  <2>2. /\ removing' \in [Iface -> {"none", "wait", "done", "failed"}]
        /\ disposal' \in {"none", "pending", "settled"}
    BY <1>1, <1>2 DEF TypeOK
  <2> QED BY <1>1, <1>6, <1>7, <1>8, <2>1, <2>2, CallMoves
<1>9. CASE ~Refused /\ (Create(i) \/ CreateNull(i))
  <2>1. ~disposed /\ phase = "up" /\ UNCHANGED <<removed, disposed>>
    BY <1>1, <1>9 DEF Refused
  <2>2. /\ LinkTypes' /\ Links' /\ Grows
        /\ OneBridge => interfaces \subseteq interfaces'
    BY <1>2, <1>4, <1>9, <2>1, CreateStep, CreateNullStep
  <2>3. CallTypes'
    BY <1>1, <1>2, <1>3, <1>6 DEF TypeOK, CallTypes
  <2>4. \A j \in Iface : j # i => handle'[j] = handle[j]
    <3>1. handle \in [Iface -> Handle \cup {None}]
      BY <1>2 DEF TypeOK
    <3> QED BY <1>9, <3>1 DEF Create, CreatePlain, CreateBridge, Register, CreateNull
  <2>5. \A j \in Iface : creating'[j] \in {"none", "wait"} => handle'[j] = None
    BY <1>2, <1>6, <2>4 DEF Life
  <2>6. Life'
    BY <1>1, <1>2, <1>6, <2>1, <2>5 DEF Life
  <2>7. Over'
    BY <1>1, <1>2, <1>3, <2>1, <2>2 DEF Over
  <2> QED BY <1>3, <2>2, <2>3, <2>6, <2>7, CallStep
<1> QED BY <1>5, <1>8, <1>9

LEMMA AttachInd == ASSUME IInv, NEW i \in Iface, Attach(i) PROVE IInv'
<1>1. /\ i # Lo /\ creating[i] = "made"
      /\ UNCHANGED <<linkVars, removed, frameVars, phase, withLo, disposed, exports, timer, loAddress,
                     removing, disposal>>
      /\ \/ /\ ~disposed /\ i \in interfaces /\ creating' = [creating EXCEPT ![i] = "open"]
            /\ attached' = attached \cup {i}
         \/ creating' = [creating EXCEPT ![i] = "failed"] /\ UNCHANGED attached
  BY DEF Attach, AttachAllowed
<1>2. TypeOK /\ Links /\ Life /\ Over /\ Lo \in Iface
  BY StackConstants DEF IInv
<1>3. /\ creating' \in [Iface -> {"none", "wait", "made", "open", "failed"}]
      /\ creating'[i] \in {"open", "failed"} /\ \A j \in Iface : j # i => creating'[j] = creating[j]
  BY <1>1, <1>2 DEF TypeOK
<1>4. LinkTypes' /\ Links' /\ Grows /\ UNCHANGED <<handle, interfaces>>
  BY <1>1, <1>2, SameLinks
<1>5. UNCHANGED <<tasks, listening, ended, got, count, strays>>
  BY <1>1 DEF frameVars
<1>6. CallTypes'
  BY <1>1, <1>2, <1>3, <1>5 DEF TypeOK, CallTypes
<1>7. attached \subseteq attached'
  BY <1>1
<1>8. Life'
  BY <1>1, <1>2, <1>3, <1>4, <1>7 DEF Life
<1>9. Over'
  <2>1. OneBridge => attached' \subseteq interfaces'
    BY <1>1, <1>2, <1>4 DEF Over
  <2> QED BY <1>1, <1>2, <1>4, <1>5, <2>1 DEF Over
<1> QED BY <1>4, <1>5, <1>6, <1>8, <1>9, CallStep

LEMMA RemoveInd == ASSUME IInv, NEW i \in Iface, Remove(i) PROVE IInv'
<1>1. /\ removing[i] = "wait" /\ phase \in {"up", "failed"}
      /\ UNCHANGED <<frameVars, phase, withLo, disposed, exports, timer, loAddress, creating, disposal>>
      /\ \/ /\ removing' = [removing EXCEPT ![i] = "failed"]
            /\ UNCHANGED <<linkVars, removed, attached>>
         \/ /\ ~Refused /\ removing' = [removing EXCEPT ![i] = "done"]
            /\ attached' = attached \ {i} /\ Free(i)
  BY DEF Remove, Passed, Settled
<1>2. TypeOK /\ Links /\ Life /\ Over
  BY DEF IInv
<1>3. removing' \in [Iface -> {"none", "wait", "done", "failed"}]
  BY <1>1, <1>2 DEF TypeOK
<1>4. CASE UNCHANGED <<linkVars, removed, attached>>
  <2>1. /\ creating' \in [Iface -> {"none", "wait", "made", "open", "failed"}]
        /\ disposal' \in {"none", "pending", "settled"}
        /\ phase = "loading" => creating'[Lo] = "none"
    BY <1>1, <1>2 DEF TypeOK, Life
  <2> QED BY <1>1, <1>3, <1>4, <2>1, CallMoves
<1>5. CASE ~Refused /\ attached' = attached \ {i} /\ Free(i)
  <2>1. ~disposed /\ phase = "up"
    BY <1>1, <1>5 DEF Refused
  <2>2. LinkTypes' /\ Links' /\ Grows /\ removed' = removed \cup {i}
    BY <1>1, <1>2, <1>5, <2>1, FreeStep
  <2>3. UNCHANGED <<tasks, listening, ended, got, count, strays>>
    BY <1>1 DEF frameVars
  <2>4. CallTypes'
    BY <1>1, <1>2, <1>3, <1>5, <2>2, <2>3 DEF TypeOK, CallTypes
  <2>5. handle' = handle /\ interfaces' = interfaces \ {i}
    BY <1>5 DEF Free
  <2>6. Life'
    BY <1>1, <1>2, <1>5, <2>1, <2>2, <2>5 DEF Life
  <2>7. Over'
    BY <1>1, <1>2, <1>5, <2>1, <2>3, <2>5 DEF Over
  <2> QED BY <2>2, <2>3, <2>4, <2>6, <2>7, CallStep
<1> QED BY <1>1, <1>4, <1>5

LEMMA DisposeInd == IInv /\ Dispose => IInv'
<1> SUFFICES ASSUME IInv, Dispose PROVE IInv'
  OBVIOUS
<1>1. /\ disposal' = "pending"
      /\ UNCHANGED <<handle, netif, ports, portIfs, bridged, removed, tasks, listening, got, count,
                     strays, phase, withLo, loAddress, creating, removing>>
      /\ IF disposed THEN UNCHANGED <<disposed, timer, exports, attached, interfaces, ended>>
                     ELSE Terminate
  BY DEF Dispose
<1>2. TypeOK /\ Links /\ Life /\ Over
  BY DEF IInv
<1>3. CASE disposed
  <2>1. LinkTypes' /\ Links' /\ Grows /\ UNCHANGED <<handle, interfaces>>
    BY <1>1, <1>2, <1>3, SameLinks DEF linkVars
  <2>2. CallTypes' /\ Life' /\ Over'
    BY <1>1, <1>2, <1>3 DEF TypeOK, CallTypes, Life, Over
  <2> QED BY <1>1, <2>1, <2>2, CallStep
<1>4. CASE ~disposed
  <2>1. /\ LinkTypes' /\ Links' /\ Grows /\ disposed' = TRUE
        /\ ended' \subseteq Iface /\ attached' \subseteq Iface /\ Over'
    BY <1>1, <1>4, TerminateStep
  <2>2. CallTypes'
    BY <1>1, <1>2, <2>1 DEF TypeOK, CallTypes
  <2>3. Life'
    BY <1>1, <1>2, <2>1 DEF Life
  <2> QED BY <1>1, <2>1, <2>2, <2>3, CallStep
<1> QED BY <1>3, <1>4

-----------------------------------------------------------------------------
(* The theorems *)

LEMMA Initially == Init => IInv
<1> SUFFICES ASSUME Init PROVE IInv
  OBVIOUS
<1> USE DEF Init, InitFrames
<1>1. <<>> \in Seq(FrameType) /\ <<>> \in Seq(Task) /\ 0 \in 0 .. MaxFrames
  BY FramesConstants
<1>2. got \in [Iface -> Seq(FrameType)] /\ tasks \in Seq(Task)
  BY <1>1
<1>3. TypeOK
  BY <1>2 DEF TypeOK, Task
<1>4. Links
  BY DEF Links
<1>5. Sent /\ Received
  BY <1>1 DEF Sent, Received
<1>6. Life
  BY StackConstants DEF Life
<1>7. Over
  BY DEF Over, Streamed
<1> QED BY <1>3, <1>4, <1>5, <1>6, <1>7 DEF IInv

LEMMA Stuttering == IInv /\ UNCHANGED vars => IInv'
<1> SUFFICES ASSUME IInv, UNCHANGED vars PROVE IInv'
  OBVIOUS
<1>1. UNCHANGED <<linkVars, removed, frameVars, phase, withLo, disposed, exports, timer,
                  attached, loAddress, creating, removing, disposal>>
  BY DEF vars, stackVars
<1>2. /\ creating \in [Iface -> {"none", "wait", "made", "open", "failed"}]
      /\ removing \in [Iface -> {"none", "wait", "done", "failed"}]
      /\ disposal \in {"none", "pending", "settled"}
      /\ phase = "loading" => creating[Lo] = "none"
  BY DEF IInv, TypeOK, Life
<1> QED BY <1>1, <1>2, CallMoves

LEMMA Inductive == IInv /\ [Next]_vars => IInv'
<1>1. IInv /\ InitStep => IInv'
  BY LoadInd, AttachLoInd, StartTimerInd DEF InitStep
<1>2. ASSUME IInv, NEW i \in Iface, StartCreate(i) \/ Make(i) \/ Attach(i) \/ StartRemove(i) \/ Remove(i)
      PROVE  IInv'
  BY <1>2, StartCreateInd, MakeInd, AttachInd, StartRemoveInd, RemoveInd
<1> QED BY <1>1, <1>2, DisposeInd, SettlesInd, LinkStepInd, Stuttering DEF Next

LEMMA Invariant == Spec => []IInv
BY Initially, Inductive, PTL DEF Spec

\* Frames keep to their interface: in order and once, on the stream of the
\* interface lwIP sent them on, from a bridge to its ports, and into lwIP by the
\* structure of the one written to, until an interface is removed.
THEOREM FramesReachOwn == Spec => []FramesToOwn
<1>1. IInv => FramesToOwn
  <2> SUFFICES ASSUME IInv, NEW i \in Iface, NEW n \in DOMAIN got[i]
               PROVE  /\ \A m \in 1 .. n - 1 : got[i][m].n < got[i][n].n
                      /\ got[i][n].on = i \/ got[i][n].on \in removed \cup {None}
                      /\ got[i][n].bridge # None =>
                           \/ i \in portIfs[got[i][n].bridge]
                           \/ portIfs[got[i][n].bridge] \cap removed # {}
    BY DEF IInv, FramesToOwn
  <2>1. n \in 1 .. Len(got[i])
    <3>1. got[i] \in Seq(FrameType)
      BY DEF IInv, TypeOK
    <3> QED BY <3>1
  <2> QED BY <2>1 DEF IInv, Received, Own
<1> QED BY <1>1, Invariant, PTL

\* A call that got past ready finds the exports, the timer and the loopback
\* interface with both addresses, unless dispose() came since.
THEOREM ReadyIsUp == Spec => []ReadyMeansUp
<1>1. IInv => ReadyMeansUp
  BY DEF IInv, Life, Both, ReadyMeansUp
<1> QED BY <1>1, Invariant, PTL

\* After dispose() no timer, export, registered or attached interface is left and
\* every registered stream has ended, at whatever step of the initialisation and of
\* the calls it came.
THEOREM DisposedIsOver == OneBridge => (Spec => []NothingAfterDispose)
<1> SUFFICES ASSUME OneBridge PROVE Spec => []NothingAfterDispose
  OBVIOUS
<1>1. IInv => NothingAfterDispose
  BY DEF IInv, Links, Over, NothingAfterDispose
<1> QED BY <1>1, Invariant, PTL

\* No frame is lost on the way to an interface that is registered and listening
\* when its microtask runs.
THEOREM FramesAreHeard == Spec => FramesHeard
<1>1. ASSUME IInv, [Next]_vars, tasks # <<>>, tasks' = Tail(tasks)
      PROVE  ~Missed(Head(tasks))
  <2>1. PICK t : t = Head(tasks)
    OBVIOUS
  <2>2. /\ TypeOK /\ Links /\ Over /\ tasks \in Seq(Task)
    BY <1>1 DEF IInv, TypeOK, Task
  <2>3. Len(tasks) \in Nat /\ Len(tasks) # 0 /\ Len(tasks') = Len(tasks) - 1
    BY <1>1, <2>2, HeadTailProperties, EmptySeq, LenProperties
  <2>4. t \in Task /\ OnItsWay(t)
    <3>1. t = tasks[1] /\ 1 \in 1 .. Len(tasks)
      BY <1>1, <2>1, <2>2, <2>3
    <3> QED BY <1>1, <2>2, <3>1, TaskTypes DEF IInv, Sent
  <2>5. RunTask(disposed)
    <3>1. tasks' # tasks
      BY <2>3
    <3>2. \A h, k, b : ~Copy(h, k, b)
      <4> SUFFICES ASSUME NEW x, tasks' = Append(tasks, x) PROVE FALSE
        BY DEF Copy
      <4>1. Len(tasks') = Len(tasks) + 1
        BY <2>2
      <4> QED BY <2>3, <4>1
    <3>3. LinkStep
      BY <1>1, <3>1 DEF Next, vars, frameVars, InitStep, Load, AttachLo, StartTimer, Dispose,
         DisposeSettles, StartCreate, Make, Attach, StartRemove, Remove
    <3> QED BY <3>1, <3>2, <3>3 DEF LinkStep, FrameStep, Output, Write, BridgeOutput, Forward, Lock
  <2>6. SUFFICES ASSUME t.frame.on \in listening \cap interfaces
                 PROVE  got'[t.frame.on] = Append(got[t.frame.on], t.frame)
    BY <2>1 DEF Missed
  <2>7. ~disposed /\ t.frame.on \notin ended /\ t.frame.on \in Iface
    BY <2>2, <2>6 DEF Links, Over, TypeOK
  <2>8. t.frame.on \in At(t.kind, t.handle)
    BY <2>4, <2>6, <2>7, NoneIsNoName DEF OnItsWay, At
  <2> QED BY <2>1, <2>5, <2>6, <2>7, <2>8 DEF RunTask, Deliver, Wanted
<1>2. IInv /\ [Next]_vars => [tasks # <<>> /\ tasks' = Tail(tasks) => ~Missed(Head(tasks))]_vars
  BY <1>1
<1> QED BY <1>2, Invariant, PTL DEF Spec, FramesHeard
=============================================================================
