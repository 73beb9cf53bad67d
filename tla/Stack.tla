-------------------------------- MODULE Stack ---------------------------------
(***************************************************************************)
(* The life of a stack (stack.ts, bindings/base.ts): the asynchronous      *)
(* initialisation, the calls that wait for it, and dispose(), which may    *)
(* come between any two of their steps, over the interfaces of Frames.     *)
(*                                                                         *)
(* Every public call has the shape of create and remove: the guard, ready, *)
(* the guard again, a binding's method and, for create, a third step.      *)
(* Addresses and routes are in Interfaces; here an interface is attached   *)
(* or not.                                                                 *)
(***************************************************************************)
EXTENDS Frames, FiniteSets

CONSTANTS Lo,          \* the loopback interface that initialisation creates
          MaxRemovals  \* bound: calls of remove()

ASSUME StackConstants == Lo \in Iface /\ Kind[Lo] = "loopback" /\ MaxRemovals \in Nat

VARIABLES
  phase,      \* of #init: loading, loopback, address, up (ready has resolved)
              \* or failed (ready has rejected)
  withLo,     \* options.initializeLoopback
  disposed,   \* #disposedError, and each binding's disposedError
  exports,    \* whether the bindings have the WASM exports
  timer,      \* #loopIntervalId
  attached,   \* interfaces with a state in NetworkInterfaceBindings
  loAddress,  \* addresses of the loopback interface
  creating,   \* create*() of each interface
  removing,   \* remove() of each interface
  disposal    \* #disposePromise: none, pending or settled

stackVars == <<phase, withLo, disposed, exports, timer, attached, loAddress, creating, removing, disposal>>
vars == <<linkVars, removed, frameVars, stackVars>>

Init ==
  /\ InitFrames
  /\ phase = "loading" /\ withLo \in BOOLEAN
  /\ disposed = FALSE /\ exports = FALSE /\ timer = FALSE
  /\ attached = {} /\ loAddress = {}
  /\ creating = [i \in Iface |-> "none"]
  /\ removing = [i \in Iface |-> "none"]
  /\ disposal = "none"

-----------------------------------------------------------------------------
(* #terminate and #init                                                     *)

\* #terminate: stops the timer, detaches what is listed, disposes every binding.
Terminate ==
  /\ disposed' = TRUE
  /\ timer' = FALSE
  /\ exports' = FALSE
  /\ attached' = attached \ interfaces
  /\ IF disposed THEN UNCHANGED <<interfaces, ended>> ELSE EndStreams

\* #init throws: the catch of the constructor terminates, ready rejects.
InitThrows ==
  /\ phase' = "failed"
  /\ Terminate
  /\ UNCHANGED <<handle, netif, ports, portIfs, bridged, loAddress, creating>>

\* The timer starts and ready resolves.
Up ==
  /\ phase' = "up" /\ timer' = TRUE

\* The module is loaded or not.  With it, every binding is registered and the
\* loopback interface created, all in one step.
Load ==
  /\ phase = "loading"
  /\ \/ InitThrows
     \/ /\ ~disposed
        /\ exports' = TRUE
        /\ \/ /\ withLo
              /\ phase' = "loopback"
              /\ creating' = [creating EXCEPT ![Lo] = "made"]
              /\ Create(Lo)
              /\ UNCHANGED timer
           \/ /\ ~withLo
              /\ Up
              /\ UNCHANGED <<linkVars, creating>>
        /\ UNCHANGED <<disposed, attached, loAddress, ended>>
  /\ UNCHANGED <<withLo, removing, disposal, removed, tasks, listening, got, count, strays>>

\* #attachInterface: assertActive, #interfaceHandle.
AttachAllowed(i) == ~disposed /\ i \in interfaces

\* const loopback = await create; attachInterface; addAddress('::1/128').
AttachLo ==
  /\ phase = "loopback"
  /\ \/ /\ ~AttachAllowed(Lo)
        /\ InitThrows
     \/ /\ AttachAllowed(Lo)
        /\ phase' = "address"
        /\ attached' = attached \cup {Lo}
        /\ loAddress' = {"127.0.0.1/8", "::1/128"}
        /\ creating' = [creating EXCEPT ![Lo] = "open"]
        /\ UNCHANGED <<linkVars, disposed, exports, timer, ended>>
  /\ UNCHANGED <<withLo, removing, disposal, removed, tasks, listening, got, count, strays>>

\* Mutant: the last guard of #init is missing.
StartAllowedAlways == TRUE
StartAllowed == ~disposed

StartTimer ==
  /\ phase = "address"
  /\ \/ /\ ~StartAllowed
        /\ InitThrows
     \/ /\ StartAllowed
        /\ Up
        /\ UNCHANGED <<linkVars, disposed, exports, attached, loAddress, ended, creating>>
  /\ UNCHANGED <<withLo, removing, disposal, removed, tasks, listening, got, count, strays>>

InitStep == Load \/ AttachLo \/ StartTimer

-----------------------------------------------------------------------------
(* create*() and remove()                                                   *)

Settled == {"up", "failed"}
\* Mutants: a call does not wait for ready, or waits for it to resolve only.
PassedAlways == TRUE
PassedOnSuccess == phase = "up"

\* await this.ready: when the call goes on, and when it is refused.
Refused == phase = "failed" \/ disposed
Passed == phase \in Settled

\* Objects of one kind differ in nothing: the first unused one is taken.
StartCreate(i) ==
  /\ i # Lo /\ creating[i] = "none" /\ ~disposed
  /\ \A j \in Iface : j < i /\ Kind[j] = Kind[i] /\ j # Lo => creating[j] # "none"
  /\ creating' = [creating EXCEPT ![i] = "wait"]
  /\ UNCHANGED <<linkVars, removed, frameVars, phase, withLo, disposed, exports, timer, attached,
                 loAddress, removing, disposal>>

\* The binding's create, which ends with a turn of the microtask queue.
Make(i) ==
  /\ creating[i] = "wait" /\ Passed
  /\ \/ /\ Refused
        /\ creating' = [creating EXCEPT ![i] = "failed"]
        /\ UNCHANGED linkVars
     \/ /\ ~Refused /\ exports
        /\ \/ /\ Create(i)
              /\ creating' = [creating EXCEPT ![i] = "made"]
           \/ /\ CreateNull(i)
              /\ creating' = [creating EXCEPT ![i] = IF i \in interfaces' THEN "made" ELSE "failed"]
  /\ UNCHANGED <<removed, frameVars, phase, withLo, disposed, exports, timer, attached, loAddress,
                 removing, disposal>>

Attach(i) ==
  /\ i # Lo /\ creating[i] = "made"
  /\ \/ /\ AttachAllowed(i)
        /\ creating' = [creating EXCEPT ![i] = "open"]
        /\ attached' = attached \cup {i}
     \/ /\ ~AttachAllowed(i)
        /\ creating' = [creating EXCEPT ![i] = "failed"]
        /\ UNCHANGED attached
  /\ UNCHANGED <<linkVars, removed, frameVars, phase, withLo, disposed, exports, timer, loAddress,
                 removing, disposal>>

\* The application has the object from create*(), or from the iterator, which
\* lists it before it is attached.
StartRemove(i) ==
  /\ removing[i] = "none" /\ ~disposed
  /\ i \in interfaces
  /\ Cardinality({j \in Iface : removing[j] # "none"}) < MaxRemovals
  /\ removing' = [removing EXCEPT ![i] = "wait"]
  /\ UNCHANGED <<linkVars, removed, frameVars, phase, withLo, disposed, exports, timer, attached,
                 loAddress, creating, disposal>>

\* detach, which refuses what is not attached; then the binding's remove.
Remove(i) ==
  /\ removing[i] = "wait" /\ Passed
  /\ \/ /\ Refused \/ i \notin attached
        /\ removing' = [removing EXCEPT ![i] = "failed"]
        /\ UNCHANGED <<linkVars, removed, attached>>
     \/ /\ ~Refused /\ i \in attached
        /\ removing' = [removing EXCEPT ![i] = "done"]
        /\ attached' = attached \ {i}
        /\ Free(i)
  /\ UNCHANGED <<frameVars, phase, withLo, disposed, exports, timer, loAddress, creating, disposal>>

-----------------------------------------------------------------------------
(* dispose(), and the frames                                                *)

Dispose ==
  /\ disposal = "none"
  /\ disposal' = "pending"
  /\ IF disposed
     THEN UNCHANGED <<disposed, timer, exports, attached, interfaces, ended>>
     ELSE Terminate
  /\ UNCHANGED <<handle, netif, ports, portIfs, bridged, removed, tasks, listening, got, count, strays,
                 phase, withLo, loAddress, creating, removing>>

\* The promise follows ready, however that ends.
DisposeSettles ==
  /\ disposal = "pending" /\ phase \in Settled
  /\ disposal' = "settled"
  /\ UNCHANGED <<linkVars, removed, frameVars, phase, withLo, disposed, exports, timer, attached,
                 loAddress, creating, removing>>

\* lwIP works inside calls of the exports only.
FrameStep ==
  \/ /\ exports
     /\ (\E i \in Iface : Output(i) \/ Write(i)) \/ BridgeOutput
  \/ \E i \in Iface : Lock(i)
  \/ RunTask(disposed)

LinkStep == FrameStep /\ UNCHANGED stackVars

Next ==
  \/ InitStep \/ Dispose \/ DisposeSettles \/ LinkStep
  \/ \E i \in Iface : StartCreate(i) \/ Make(i) \/ Attach(i) \/ StartRemove(i) \/ Remove(i)

Spec == Init /\ [][Next]_vars

\* The loader ends one way or the other, and continuations of settled promises
\* run: each only once, so one condition serves them all.
Continue == InitStep \/ DisposeSettles \/ \E i \in Iface : Make(i) \/ Attach(i) \/ Remove(i)
Fairness == WF_vars(Continue)
FairSpec == Spec /\ Fairness

-----------------------------------------------------------------------------
(* Properties *)

FrameType == [n : 1 .. MaxFrames, on : Iface \cup {None}, bridge : Iface \cup {None}]

TypeOK ==
  /\ handle \in [Iface -> Handle \cup {None}] /\ netif \in [Handle -> Iface \cup {None}]
  /\ interfaces \subseteq Iface /\ attached \subseteq Iface
  /\ ports \in [Iface -> SUBSET Handle] /\ portIfs \in [Iface -> SUBSET Iface]
  /\ bridged \in [Iface -> Iface \cup {None}]
  /\ listening \subseteq Iface /\ ended \subseteq Iface /\ removed \subseteq Iface
  /\ got \in [Iface -> Seq(FrameType)]
  /\ tasks \in Seq([frame : FrameType, handle : Handle, kind : {"tap", "tun"}])
  /\ phase \in {"loading", "loopback", "address", "up", "failed"}
  /\ creating \in [Iface -> {"none", "wait", "made", "open", "failed"}]
  /\ removing \in [Iface -> {"none", "wait", "done", "failed"}]
  /\ disposal \in {"none", "pending", "settled"}

\* Beside the types: frames keep to their interface.  A stream gets only what lwIP sent on it, once
\* and in order; what a bridge sends reaches only taps that were made its ports;
\* a frame written to an interface comes in by that interface.  This holds until
\* an interface is removed: its address may then name another, for a frame on its
\* way, for a writer and for the bridge.
FramesToOwn ==
  /\ TypeOK
  /\ strays \subseteq removed
  /\ \A i \in Iface : \A n \in DOMAIN got[i] :
       /\ \A m \in 1 .. n - 1 : got[i][m].n < got[i][n].n
       /\ got[i][n].on = i \/ got[i][n].on \in removed \cup {None}
       /\ LET b == got[i][n].bridge
          IN  b # None => i \in portIfs[b] \/ portIfs[b] \cap removed # {}

\* A frame is delivered to the interface it was sent on when its microtask runs,
\* if that is listening by then: only removal or dispose() lose it.
Missed(t) ==
  LET i == t.frame.on
  IN i \in (listening \cap interfaces) /\ got'[i] # Append(got[i], t.frame)
FramesHeard == [][tasks # <<>> /\ tasks' = Tail(tasks) => ~Missed(Head(tasks))]_vars

\* A call that got past ready finds the stack as ready promises it: loaded, with
\* its timer, and the loopback interface attached with both addresses.
ReadyMeansUp ==
  (\E i \in Iface \ {Lo} : creating[i] \in {"made", "open"}) =>
    /\ phase = "up"
    /\ withLo => loAddress = {"127.0.0.1/8", "::1/128"}
    /\ ~disposed => /\ exports /\ timer
                    /\ withLo => Lo \in attached \cup removed

\* Once disposed, and from then on: no timer, no interface registered or
\* attached, every registered stream ended.
NothingAfterDispose ==
  disposed => /\ ~timer /\ ~exports
              /\ interfaces = {} /\ attached = {}
              /\ \A i \in Streamed : handle[i] # None => i \in ended \cup removed

Pending ==
  \/ disposal = "pending"
  \/ \E i \in Iface : removing[i] = "wait" \/ (i # Lo /\ creating[i] \in {"wait", "made"})

\* Every call and dispose() settle, whatever becomes of the initialisation.
CallsSettle == Pending ~> ~Pending

=============================================================================
