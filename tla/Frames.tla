-------------------------------- MODULE Frames --------------------------------
(***************************************************************************)
(* The interfaces as lwIP and JavaScript share them: tun, tap, bridge and  *)
(* loopback (bindings/*-interface.ts, wasm/*_interface.c).                 *)
(*                                                                         *)
(* An interface is a C structure; its address is the handle under which    *)
(* the bindings find the object again, and memory that is freed is handed  *)
(* out again.  A frame lwIP sends is copied at once and delivered a        *)
(* microtask later.  Stack.tla adds the calls that create and remove.      *)
(***************************************************************************)
EXTENDS Naturals, Sequences

CONSTANTS Iface,      \* interface objects, numbers
          Kind,       \* [Iface -> "tap", "tun", "bridge" or "loopback"]
          Handle,     \* addresses malloc may return for a struct netif, numbers
          None,
          MaxFrames   \* bound: frames lwIP sends

ASSUME FramesConstants ==
  /\ Kind \in [Iface -> {"tap", "tun", "bridge", "loopback"}]
  /\ Iface \subseteq Nat /\ Handle \subseteq Nat /\ None \notin Nat
  /\ MaxFrames \in Nat

Streamed == {i \in Iface : Kind[i] \in {"tap", "tun"}}

VARIABLES
  handle,     \* the handle in an object's outer hooks: [Iface -> Handle or None]
  netif,      \* the interface whose structure is at an address, None when freed
  interfaces, \* the objects in the bindings' maps
  ports,      \* the addresses a bridge has as ports
  portIfs,    \* the taps given to its createBridge
  bridged,    \* the bridge an interface's input belongs to, or None
  tasks,      \* frames copied, waiting for their microtask
  listening,  \* VirtualTapInterface.#isListening
  ended,      \* objects whose streams dispose() has ended
  got,        \* the frames enqueued on each readable, first to last
  removed,    \* history: interfaces removed by the application
  count,      \* frames lwIP has sent
  strays      \* history: objects a frame written to which came in by another
              \* interface's structure, or by one that was freed

linkVars == <<handle, netif, interfaces, ports, portIfs, bridged>>
frameVars == <<tasks, listening, ended, got, count, strays>>

\* The object the map of one kind has under a handle: none or one.
At(k, h) == {i \in interfaces : handle[i] = h /\ Kind[i] = k}

InitFrames ==
  /\ handle = [i \in Iface |-> None] /\ netif = [h \in Handle |-> None]
  /\ interfaces = {} /\ ports = [i \in Iface |-> {}] /\ portIfs = [i \in Iface |-> {}]
  /\ bridged = [i \in Iface |-> None]
  /\ tasks = <<>> /\ listening = {} /\ ended = {}
  /\ got = [i \in Iface |-> <<>>]
  /\ removed = {} /\ count = 0 /\ strays = {}

-----------------------------------------------------------------------------
(* Creation and removal of the structure                                    *)

\* create_*_interface: malloc, register (the map replaces what it held under
\* that handle), netif_add.
Register(i, h) ==
  /\ handle' = [handle EXCEPT ![i] = h]
  /\ netif' = [netif EXCEPT ![h] = i]
  /\ interfaces' = (interfaces \ At(Kind[i], h)) \cup {i}

CreatePlain(i, h) ==
  /\ Kind[i] # "bridge"
  /\ Register(i, h)
  /\ UNCHANGED <<ports, portIfs, bridged>>

\* A bridge takes the handles of its ports as they were created, whatever has
\* become of the taps since.
CreateBridge(i, h) ==
  /\ Kind[i] = "bridge"
  /\ Register(i, h)
  /\ \E ps \in SUBSET {t \in Iface : Kind[t] = "tap" /\ handle[t] # None} :
       /\ portIfs' = [portIfs EXCEPT ![i] = ps]
       /\ ports' = [ports EXCEPT ![i] = {handle[t] : t \in ps}]
       /\ bridged' = [t \in Iface |-> IF \E p \in ports'[i] : netif'[p] = t THEN i ELSE bridged[t]]

\* What malloc may return: an address that was freed, or the first unused one
\* (the unused ones differ in nothing).
Unused(h) == \A i \in Iface : handle[i] # h
Malloc == {h \in Handle : netif[h] = None /\ (Unused(h) => \A g \in Handle : g < h => ~Unused(g))}

Create(i) == \E h \in Malloc : CreatePlain(i, h) \/ CreateBridge(i, h)

\* malloc returns NULL.  A tun, tap or loopback interface "failed to register"; a
\* bridge becomes an object without a structure and without ports, in the place
\* of the one that was under the null handle.
OutOfMemory == \A h \in Handle : netif[h] # None
CreateNull(i) ==
  /\ OutOfMemory
  /\ interfaces' = IF Kind[i] = "bridge" THEN (interfaces \ At("bridge", None)) \cup {i}
                   ELSE interfaces
  /\ UNCHANGED <<handle, netif, ports, portIfs, bridged>>

\* remove: netif_remove and free, then the map, if it has the object.  Neither end
\* of the streams is told, and a bridge keeps the address of a port.
Free(i) ==
  /\ netif' = [h \in Handle |-> IF i \in interfaces /\ h = handle[i] THEN None ELSE netif[h]]
  /\ interfaces' = interfaces \ {i}
  /\ bridged' = [bridged EXCEPT ![i] = None]
  /\ removed' = removed \cup {i}
  /\ UNCHANGED <<handle, ports, portIfs>>

-----------------------------------------------------------------------------
(* Frames from lwIP to the application                                      *)

\* A frame: its number, whose structure lwIP sent it on, the bridge that did.
Frame(h, b) == [n |-> count + 1, on |-> netif[h], bridge |-> b]

\* receive_frame, receive_packet: copied now, delivered in a microtask, under
\* the name of the structure.
Copy(h, kind, b) ==
  /\ count < MaxFrames
  /\ count' = count + 1
  /\ tasks' = Append(tasks, [frame |-> Frame(h, b), handle |-> h, kind |-> kind])

\* lwIP sends on a tap or tun.
Output(i) ==
  /\ i \in interfaces \cap Streamed
  /\ Copy(handle[i], Kind[i], None)
  /\ UNCHANGED <<linkVars, removed, listening, ended, got, strays>>

\* A bridge sends to one of its ports.  The structure may have been freed, and
\* its bytes still say "tap"; or it may be a tap that was never a port.
Forward(b, from) ==
  \E p \in ports[b] \ {from} :
    /\ netif[p] # None => Kind[netif[p]] = "tap"
    /\ Copy(p, "tap", b)

BridgeOutput ==
  /\ \E b \in interfaces : Kind[b] = "bridge" /\ Forward(b, None)
  /\ UNCHANGED <<linkVars, removed, listening, ended, got, strays>>

\* Mutants: a stream with a full queue drops; a frame goes before those that wait.
WantedIfRoom(i) == i \in listening /\ got[i] = <<>>
Wanted(i) == i \in listening /\ i \notin ended
DeliverInFront(t) ==
  [i \in Iface |-> IF i \in At(t.kind, t.handle) /\ Wanted(i) THEN <<t.frame>> \o got[i] ELSE got[i]]

Deliver(t) ==
  [i \in Iface |-> IF i \in At(t.kind, t.handle) /\ Wanted(i) THEN Append(got[i], t.frame) ELSE got[i]]

\* The microtask: whatever object has the handle by now.
RunTask(disposedError) ==
  /\ tasks # <<>>
  /\ tasks' = Tail(tasks)
  /\ got' = IF disposedError THEN got ELSE Deliver(Head(tasks))
  /\ UNCHANGED <<linkVars, removed, listening, ended, count, strays>>

\* The application locks the readable: getReader, pipeTo, pipeThrough or tee.
Lock(i) ==
  /\ i \in (interfaces \cap Streamed) \ listening
  /\ listening' = listening \cup {i}
  /\ UNCHANGED <<linkVars, removed, tasks, ended, got, count, strays>>

-----------------------------------------------------------------------------
(* Frames from the application to lwIP                                      *)

\* send_tap_interface, send_tun_interface: lwIP's input for the structure at the
\* object's handle, be it freed or another's.  Nobody asks whether the object is
\* still in the map.
Write(i) ==
  /\ i \in Streamed \ ended /\ handle[i] # None
  /\ LET j == netif[handle[i]]
     IN /\ strays' = IF j = i THEN strays ELSE strays \cup {i}
        \* A port's frame goes on to the others, even by a bridge that was
        \* removed, or is for the stack itself; any other goes to the stack.
        /\ \/ /\ j # None /\ bridged[j] # None
              /\ Forward(bridged[j], handle[i])
           \/ UNCHANGED <<tasks, count>>
  /\ UNCHANGED <<linkVars, removed, listening, ended, got>>

\* TapBindings.dispose and its siblings.
EndStreams ==
  /\ ended' = ended \cup (interfaces \cap Streamed)
  /\ interfaces' = {}

=============================================================================
