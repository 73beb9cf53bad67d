----------------------------- MODULE Interfaces -----------------------------
(***************************************************************************)
(* Interface configuration and the route table (stack.ts,                  *)
(* bindings/network-interface.ts, routes.ts, ip.ts, wasm/common.c).        *)
(*                                                                         *)
(* One address lives in three places: the list the application sees, lwIP, *)
(* and the connected route of its network, which addresses of one network  *)
(* share by a reference count.  Every method is one synchronous step; only *)
(* the creation of an interface is in two, with a turn of the event loop   *)
(* between lwIP's half and the attachment.                                 *)
(***************************************************************************)
EXTENDS Integers, FiniteSets

CONSTANTS Iface,
          Cidr,       \* the CIDRs given: records of fam, addr and len
          Width,      \* bits of an address
          Static,     \* destinations of the application's own routes
          Metric,
          Slots,      \* IPv6 addresses lwIP holds per interface
          MaxRoutes,  \* bound: routes at one time
          None

\* parseInterfaceCidr, maskAddress: the network of an address.
Mask(a, len) == a - (a % 2^(Width - len))
NetworkOf(c) == [fam |-> c.fam, base |-> Mask(c.addr, c.len), len |-> c.len]
Network == {NetworkOf(c) : c \in Cidr} \cup Static
Addr == 0 .. 2^Width - 1

ASSUME InterfaceConstants ==
  /\ Width \in Nat /\ Slots \in Nat /\ MaxRoutes \in Nat
  /\ Metric \subseteq Nat /\ 0 \in Metric
  /\ IsFiniteSet(Cidr)
  /\ Cidr \subseteq [fam : {4, 6}, addr : Addr, len : 0 .. Width]
  /\ Static \subseteq [fam : {4, 6}, base : Addr, len : 0 .. Width]
  /\ None \notin Iface \cup Int

VARIABLES
  disposed,
  st,      \* [Iface -> its stage]
  listed,  \* InterfaceState.addresses: [Iface -> the CIDRs listed]
  refs,    \* connectedRoutes: [Iface -> [Network -> references]]
  wasm4,   \* [Iface -> lwIP's IPv4 address or None]
  wasm6,   \* [Iface -> lwIP's IPv6 addresses]
  small,   \* [Iface -> whether the MTU is below 1280]
  ra,      \* the one interface lwIP sends router advertisements on, or None
  routes,  \* RouteTable.#routes
  older    \* the pairs of routes of which the first has the lower order

vars == <<disposed, st, listed, refs, wasm4, wasm6, small, ra, routes, older>>
table == <<routes, older>>

\* "created": lwIP knows it and the register lists it, attach() is to come.
\* "partly": attach() threw when the connected route already existed.
Stage == {"absent", "created", "attached", "partly", "removed"}
Attached == {i \in Iface : st[i] \in {"attached", "partly"}}
Registered == {i \in Iface : st[i] \in {"created", "attached", "partly"}}
ListedOf(i, f) == {c \in listed[i] : c.fam = f}

Init ==
  /\ disposed = FALSE
  /\ st = [i \in Iface |-> "absent"]
  /\ listed = [i \in Iface |-> {}]
  /\ refs = [i \in Iface |-> [n \in Network |-> 0]]
  /\ wasm4 = [i \in Iface |-> None]
  /\ wasm6 = [i \in Iface |-> {}]
  /\ small = [i \in Iface |-> FALSE]
  /\ ra = None
  /\ routes = {}
  /\ older = {}

-----------------------------------------------------------------------------
(* The route table *)

Route(dest, via, metric, source) ==
  [dest |-> dest, via |-> via, metric |-> metric, source |-> source]

\* add() gives the next order, whatever the routes before it were.
Add(r) ==
  /\ routes' = routes \cup {r}
  /\ older' = older \cup {<<q, r>> : q \in routes}

\* The filters of #routes leave the order of the rest as it is.
Drop(gone) ==
  /\ routes' = routes \ gone
  /\ older' = {p \in older : p[1] \notin gone /\ p[2] \notin gone}

Duplicate(dest, via, metric) ==
  \E r \in routes : r.dest = dest /\ r.via = via /\ r.metric = metric

Matches(r, f, a) == r.dest.fam = f /\ Mask(a, r.dest.len) = r.dest.base

Better(r, s) ==
  \/ r.dest.len > s.dest.len
  \/ r.dest.len = s.dest.len /\ r.metric < s.metric

\* Mutant: the newest of equal routes is taken.
BeforeNewest(r, s, elder) == Better(r, s) \/ (~Better(s, r) /\ <<s, r>> \in elder)
\* compareRoutes: the longer prefix, the lower metric, the older route.
Before(r, s, elder) == Better(r, s) \/ (~Better(s, r) /\ <<r, s>> \in elder)

Lookup(rs, elder, f, a) ==
  LET found == {r \in rs : Matches(r, f, a)}
  IN  IF found = {} THEN None
      ELSE CHOOSE r \in found : \A s \in found \ {r} : Before(r, s, elder)

\* routes.add by the application; add() throws on a duplicate.
AddRoute(i, dest, metric) ==
  /\ ~disposed /\ i \in Registered /\ Cardinality(routes) < MaxRoutes
  /\ ~Duplicate(dest, i, metric)
  /\ Add(Route(dest, i, metric, "static"))
  /\ UNCHANGED <<disposed, st, listed, refs, wasm4, wasm6, small, ra>>

\* dispose() of the handle that add() returned.
DisposeRoute(i, dest, metric) ==
  /\ Route(dest, i, metric, "static") \in routes
  /\ Drop({Route(dest, i, metric, "static")})
  /\ UNCHANGED <<disposed, st, listed, refs, wasm4, wasm6, small, ra>>

-----------------------------------------------------------------------------
(* Connected routes *)

CanAcquire(i, n) == refs[i][n] > 0 \/ ~Duplicate(n, i, 0)

Acquire(i, n) ==
  /\ refs' = [refs EXCEPT ![i][n] = @ + 1]
  /\ \/ refs[i][n] > 0 /\ UNCHANGED table
     \/ /\ refs[i][n] = 0 /\ Cardinality(routes) < MaxRoutes
        /\ Add(Route(n, i, 0, "connected"))

\* Mutant: the route goes with the first address of its network.
ReleaseFirst(i, n) ==
  /\ refs' = [refs EXCEPT ![i][n] = IF @ > 0 THEN @ - 1 ELSE 0]
  /\ Drop(IF refs[i][n] > 0 THEN {Route(n, i, 0, "connected")} ELSE {})

Release(i, n) ==
  /\ refs' = [refs EXCEPT ![i][n] = IF @ > 0 THEN @ - 1 ELSE 0]
  /\ Drop(IF refs[i][n] = 1 THEN {Route(n, i, 0, "connected")} ELSE {})

-----------------------------------------------------------------------------
(* Interfaces *)

\* createTap and the others, up to the await: lwIP gets the address.
Create(i, given) ==
  /\ ~disposed /\ st[i] = "absent"
  /\ st' = [st EXCEPT ![i] = "created"]
  /\ listed' = [listed EXCEPT ![i] = given]
  /\ wasm4' = [wasm4 EXCEPT ![i] = IF given = {} THEN None ELSE (CHOOSE c \in given : TRUE).addr]
  /\ UNCHANGED <<disposed, refs, wasm6, small, ra, table>>

\* attach(): the given address is listed, then its route is acquired.
Attach(i) ==
  /\ ~disposed /\ st[i] = "created"
  /\ \/ /\ listed[i] = {}
        /\ st' = [st EXCEPT ![i] = "attached"] /\ UNCHANGED <<refs, table>>
     \/ \E c \in listed[i] :
          \/ /\ CanAcquire(i, NetworkOf(c)) /\ Acquire(i, NetworkOf(c))
             /\ st' = [st EXCEPT ![i] = "attached"]
          \/ /\ ~CanAcquire(i, NetworkOf(c))
             /\ st' = [st EXCEPT ![i] = "partly"] /\ UNCHANGED <<refs, table>>
  /\ UNCHANGED <<disposed, listed, wasm4, wasm6, small, ra>>

AlreadyListed(i, c) == c \in listed[i]

\* lwIP takes the address: IPv4 replaces, IPv6 needs a slot unless it is there.
AddToWasm(i, c) ==
  \/ /\ c.fam = 4
     /\ wasm4' = [wasm4 EXCEPT ![i] = c.addr] /\ UNCHANGED wasm6
  \/ /\ c.fam = 6 /\ (c.addr \in wasm6[i] \/ Cardinality(wasm6[i]) < Slots)
     /\ wasm6' = [wasm6 EXCEPT ![i] = @ \cup {c.addr}] /\ UNCHANGED wasm4

RemoveFromWasm(i, c) ==
  \/ /\ c.fam = 4
     /\ wasm4' = [wasm4 EXCEPT ![i] = None] /\ UNCHANGED wasm6
  \/ /\ c.fam = 6
     /\ wasm6' = [wasm6 EXCEPT ![i] = @ \ {c.addr}] /\ UNCHANGED wasm4

\* Mutant: the address stays in lwIP.
RollBackNot(i, c) == AddToWasm(i, c)
\* The connected route exists already: what was added to lwIP is removed.
RollBack(i, c) == RemoveFromWasm(i, c)

MayAdd(i, c) ==
  /\ ~AlreadyListed(i, c)
  /\ c.fam = 4 => ListedOf(i, 4) = {}
  /\ c.fam = 6 => /\ ~small[i]
                  /\ c.addr \in wasm6[i] \/ Cardinality(wasm6[i]) < Slots

AddAddress(i, c) ==
  /\ ~disposed /\ i \in Attached /\ MayAdd(i, c)
  /\ \/ /\ CanAcquire(i, NetworkOf(c))
        /\ AddToWasm(i, c)
        /\ Acquire(i, NetworkOf(c))
        /\ listed' = [listed EXCEPT ![i] = @ \cup {c}]
     \/ /\ ~CanAcquire(i, NetworkOf(c))
        /\ RollBack(i, c)
        /\ UNCHANGED <<refs, table, listed>>
  /\ UNCHANGED <<disposed, st, small, ra>>

\* An IPv6 address that lwIP no longer has makes removeAddress throw.
RemoveAddress(i, c) ==
  /\ ~disposed /\ i \in Attached /\ c \in listed[i]
  /\ c.fam = 6 => c.addr \in wasm6[i]
  /\ RemoveFromWasm(i, c)
  /\ Release(i, NetworkOf(c))
  /\ listed' = [listed EXCEPT ![i] = @ \ {c}]
  /\ UNCHANGED <<disposed, st, small, ra>>

SetMtu(i, below) ==
  /\ ~disposed /\ i \in Attached
  /\ below => ListedOf(i, 6) = {}
  /\ small' = [small EXCEPT ![i] = below]
  /\ UNCHANGED <<disposed, st, listed, refs, wasm4, wasm6, ra, table>>

\* lwIP advertises on one interface; another one takes its place silently.
SetRouterAdvertisements(i, on) ==
  /\ ~disposed /\ i \in Attached
  /\ on => ~small[i]
  /\ ra' = IF on THEN i ELSE IF ra = i THEN None ELSE ra
  /\ UNCHANGED <<disposed, st, listed, refs, wasm4, wasm6, small, table>>

\* Mutant: only the connected routes go.
RoutesOfConnected(gone) == {r \in routes : r.via \in gone /\ r.source = "connected"}
\* RouteTable.removeInterface: whoever added them.
RoutesOf(gone) == {r \in routes : r.via \in gone}

\* detach, removeInterface and the bindings' remove.
Detach(gone) ==
  /\ st' = [i \in Iface |-> IF i \in gone THEN "removed" ELSE st[i]]
  /\ listed' = [i \in Iface |-> IF i \in gone THEN {} ELSE listed[i]]
  /\ refs' = [i \in Iface |-> IF i \in gone THEN [n \in Network |-> 0] ELSE refs[i]]
  /\ wasm4' = [i \in Iface |-> IF i \in gone THEN None ELSE wasm4[i]]
  /\ wasm6' = [i \in Iface |-> IF i \in gone THEN {} ELSE wasm6[i]]
  /\ ra' = IF ra \in gone THEN None ELSE ra
  /\ Drop(RoutesOf(gone))
  /\ UNCHANGED small

Remove(i) ==
  /\ ~disposed /\ i \in Attached
  /\ Detach({i})
  /\ UNCHANGED disposed

\* #terminate: every registered interface, also one not yet attached.  lwIP's
\* memory is released with the exports, and counts as empty.
Dispose ==
  /\ ~disposed
  /\ disposed' = TRUE
  /\ Detach(Registered)

Next ==
  \/ \E i \in Iface :
       \/ \E given \in {{}} \cup {{c} : c \in {d \in Cidr : d.fam = 4}} : Create(i, given)
       \/ Attach(i)
       \/ \E c \in Cidr : AddAddress(i, c) \/ RemoveAddress(i, c)
       \/ \E b \in BOOLEAN : SetMtu(i, b) \/ SetRouterAdvertisements(i, b)
       \/ \E dest \in Static, m \in Metric : AddRoute(i, dest, m) \/ DisposeRoute(i, dest, m)
       \/ Remove(i)
  \/ Dispose

Spec == Init /\ [][Next]_vars

-----------------------------------------------------------------------------
(* Properties *)

TypeOK ==
  /\ disposed \in BOOLEAN
  /\ st \in [Iface -> Stage]
  /\ listed \in [Iface -> SUBSET Cidr]
  /\ refs \in [Iface -> [Network -> 0 .. Cardinality(Cidr)]]
  /\ wasm4 \in [Iface -> Addr \cup {None}] /\ wasm6 \in [Iface -> SUBSET Addr]
  /\ small \in [Iface -> BOOLEAN]
  /\ ra \in Iface \cup {None}
  /\ routes \subseteq [dest : Network, via : Iface, metric : Metric,
                       source : {"static", "connected"}]
  /\ older \subseteq routes \X routes

\* Beside the types: the route table has exactly one connected route for every network of a
\* listed address, and its reference count is the number of those addresses,
\* whatever addresses come and go.
Sharing(i, n) == {c \in listed[i] : NetworkOf(c) = n}
RoutesMatchAddresses ==
  /\ TypeOK
  /\ \A i \in Iface, n \in Network : st[i] = "attached" =>
       /\ refs[i][n] = Cardinality(Sharing(i, n))
       /\ Route(n, i, 0, "connected") \in routes <=> Sharing(i, n) # {}

\* lwIP answers to no address that the application does not see listed, also
\* when adding one failed half-way, and has at most one IPv4 address listed.
NoUnlistedAddress ==
  \A i \in Iface :
    /\ wasm4[i] # None => \E c \in ListedOf(i, 4) : c.addr = wasm4[i]
    /\ \A a \in wasm6[i] : \E c \in ListedOf(i, 6) : c.addr = a
    /\ Cardinality(ListedOf(i, 4)) <= 1

\* No route leads to an interface that was removed: lwIP's route hook would
\* ask for its handle and throw inside the WASM call.
RoutesLive == \A r \in routes : r.via \in Registered

\* Traffic does not move between routes of equal rank: while the route in use
\* stays and no strictly better one comes, every lookup still finds it.
LookupKept ==
  \A f \in {4, 6}, a \in Addr :
    LET r == Lookup(routes, older, f, a)
    IN  /\ r # None /\ r \in routes'
        /\ ~ \E s \in routes' : Matches(s, f, a) /\ Better(s, r)
        => Lookup(routes', older', f, a) = r
RouteKept == [][LookupKept]_vars

=============================================================================
