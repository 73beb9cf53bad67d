----------------------------- MODULE AddressPool ----------------------------
(***************************************************************************)
(* What a DHCP server promises, with no maps, offers or messages: a pool   *)
(* of addresses, each free or granted to one client until a given time.    *)
(* In one step time passes or one client acts.  A client may give up or    *)
(* extend its own grants and gain at most one address; an address of       *)
(* somebody else becomes available only once its grant has run out.        *)
(***************************************************************************)
EXTENDS Integers

CONSTANTS Client, Addr, Free

VARIABLES grant, time

poolVars == <<grant, time>>

\* Available to client m at time t: free, its own, or run out.
Available(a, m, t) ==
  grant[a] = Free \/ grant[a].owner = m \/ grant[a].until <= t

OwnedBy(g, m) == g # Free /\ g.owner = m

Gained(a, m) == OwnedBy(grant'[a], m) /\ ~OwnedBy(grant[a], m)

PoolInit == grant = [a \in Addr |-> Free] /\ time \in Int

Act(m) ==
  /\ time' >= time
  /\ \A a \in Addr :
       \/ grant'[a] = grant[a]
       \/ Available(a, m, time') /\ (grant'[a] = Free \/ OwnedBy(grant'[a], m))
  /\ \A a \in Addr : Gained(a, m) => grant'[a].until > time'
  /\ \A a, b \in Addr : Gained(a, m) /\ Gained(b, m) => a = b

Wait == time' >= time /\ UNCHANGED grant

PoolNext == Wait \/ \E m \in Client : Act(m)

PoolSpec == PoolInit /\ [][PoolNext]_poolVars
=============================================================================
