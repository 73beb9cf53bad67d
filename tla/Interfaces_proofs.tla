-------------------------- MODULE Interfaces_proofs --------------------------
(* Proofs of the safety properties of Interfaces, for any interfaces,         *)
(* addresses, prefix lengths, metrics and number of routes.                   *)
EXTENDS Interfaces, FiniteSetTheorems, WellFoundedInduction, TLAPS

RouteType == [dest : Network, via : Iface, metric : Metric,
              source : {"static", "connected"}]

\* The orders of the routes are those of a counter: all different, and transitive.
IsTable(rs, elder) ==
  /\ rs \subseteq RouteType /\ IsFiniteSet(rs)
  /\ \A r \in rs : <<r, r>> \notin elder
  /\ \A r, s \in rs : r # s => <<r, s>> \in elder \/ <<s, r>> \in elder
  /\ \A r, s, t \in rs : <<r, s>> \in elder /\ <<s, t>> \in elder => <<r, t>> \in elder

\* A connected route is there exactly while it has references.
Agree ==
  \A i \in Iface, n \in Network : Route(n, i, 0, "connected") \in routes <=> refs[i][n] > 0

\* The references never exceed the addresses that share the network: after a
\* failed attach() one listed address has none.
Users(L, n) == Cardinality({c \in L : NetworkOf(c) = n})
Counts ==
  \A i \in Iface, n \in Network :
    /\ refs[i][n] <= Users(listed[i], n)
    /\ st[i] = "attached" => refs[i][n] = Users(listed[i], n)
    /\ st[i] \notin {"attached", "partly"} => refs[i][n] = 0

\* An interface has nothing before its creation and after its removal, and at
\* most the given address before attach().
Stages ==
  \A i \in Iface :
    /\ st[i] \in {"absent", "removed"} => listed[i] = {} /\ wasm4[i] = None /\ wasm6[i] = {}
    /\ st[i] = "created" => listed[i] = {} \/ \E c \in Cidr : listed[i] = {c}

\* NoUnlistedAddress, without the count.
Listings ==
  \A i \in Iface :
    /\ wasm4[i] # None => \E c \in listed[i] : c.fam = 4 /\ c.addr = wasm4[i]
    /\ \A a \in wasm6[i] : \E c \in listed[i] : c.fam = 6 /\ c.addr = a
    /\ \A c, d \in listed[i] : c.fam = 4 /\ d.fam = 4 => c = d

IInv ==
  /\ TypeOK /\ IsTable(routes, older) /\ Agree /\ Counts /\ Stages
  /\ Listings /\ RoutesLive

-----------------------------------------------------------------------------
(* The route table *)

LEMMA NetworkTypes ==
  /\ \A c \in Cidr : NetworkOf(c) \in Network
  /\ \A n \in Network : n.len \in Nat
  /\ \A r \in RouteType : r.dest.len \in Nat /\ r.metric \in Nat
<1>1. \A c \in Cidr : NetworkOf(c) \in Network
  BY DEF Network
<1>2. \A c \in Cidr : NetworkOf(c).len \in Nat
  BY InterfaceConstants DEF NetworkOf
<1>3. \A n \in Static : n.len \in Nat
  BY InterfaceConstants
<1>4. \A n \in Network : n.len \in Nat
  BY <1>2, <1>3 DEF Network
<1> QED
  BY <1>1, <1>4, InterfaceConstants DEF RouteType

\* compareRoutes never finds two routes equal, and sorts.
LEMMA BeforeIsOrder ==
  ASSUME NEW rs, NEW elder, IsTable(rs, elder)
  PROVE  /\ \A r \in rs : ~Before(r, r, elder)
         /\ \A r, s \in rs : r # s => Before(r, s, elder) \/ Before(s, r, elder)
         /\ \A r, s \in rs : ~(Before(r, s, elder) /\ Before(s, r, elder))
         /\ \A r, s, t \in rs :
              Before(r, s, elder) /\ Before(s, t, elder) => Before(r, t, elder)
<1>1. \A r \in rs : r.dest.len \in Nat /\ r.metric \in Nat
  BY NetworkTypes DEF IsTable
<1>2. \A r \in rs : ~Better(r, r)
  BY <1>1 DEF Better
<1>3. \A r, s, t \in rs : Better(r, s) /\ Better(s, t) => Better(r, t)
  BY <1>1 DEF Better
<1>4. \A r, s, t \in rs : Better(r, t) => Better(r, s) \/ Better(s, t)
  BY <1>1 DEF Better
<1>5. \A r \in rs : ~Before(r, r, elder)
  BY <1>2 DEF Before, IsTable
<1>6. \A r, s \in rs : r # s => Before(r, s, elder) \/ Before(s, r, elder)
  BY DEF Before, IsTable
<1>7. \A r, s, t \in rs : Before(r, s, elder) /\ Before(s, t, elder) => Before(r, t, elder)
  BY <1>2, <1>3, <1>4 DEF Before, IsTable
<1> QED
  BY <1>5, <1>6, <1>7

\* A nonempty set of routes has one that sort() puts first: its set of
\* predecessors is minimal.
LEMMA BestExists ==
  ASSUME NEW rs, NEW elder, IsTable(rs, elder),
         NEW found, found \subseteq rs, found # {}
  PROVE  \E r \in found : \A s \in found \ {r} : Before(r, s, elder)
<1> DEFINE Below(r) == {s \in found : Before(s, r, elder)}
           T == {Below(r) : r \in found}
<1>1. T \subseteq FiniteSubsetsOf(found)
  <2>1. IsFiniteSet(found)
    BY FS_Subset DEF IsTable
  <2>2. \A r \in found : IsFiniteSet(Below(r))
    BY <2>1, FS_Subset
  <2> QED
    BY <2>2 DEF FiniteSubsetsOf
<1>2. PICK m \in T : \A y \in T : <<y, m>> \notin StrictSubsetOrdering(found)
  <2>1. T # {}
    OBVIOUS
  <2> HIDE DEF T
  <2> QED
    BY <1>1, <2>1, WFMin, FS_StrictSubsetOrderingWellFounded
<1>3. PICK r \in found : m = Below(r)
  OBVIOUS
<1>4. Below(r) = {}
  <2> SUFFICES ASSUME NEW s \in Below(r)
               PROVE  FALSE
    OBVIOUS
  <2>1. /\ s \in found /\ Before(s, r, elder)
        /\ Below(s) \subseteq Below(r)
    BY BeforeIsOrder
  <2>2. s \notin Below(s)
    BY <2>1, BeforeIsOrder
  <2>3. <<Below(s), Below(r)>> \in StrictSubsetOrdering(found)
    BY <2>1, <2>2 DEF StrictSubsetOrdering
  <2> QED
    BY <1>2, <1>3, <2>1, <2>3
<1>5. \A s \in found \ {r} : Before(r, s, elder)
  BY <1>4, BeforeIsOrder
<1> QED
  BY <1>5

\* lookup() returns the one route that is before every other that matches.
LEMMA LookupIsBest ==
  ASSUME NEW rs, NEW elder, IsTable(rs, elder), NEW f, NEW a, NEW r
  PROVE  (r # None /\ Lookup(rs, elder, f, a) = r)
         => /\ r \in rs /\ Matches(r, f, a)
            /\ \A s \in rs \ {r} : Matches(s, f, a) => Before(r, s, elder)
<1> DEFINE found == {s \in rs : Matches(s, f, a)}
<1> SUFFICES ASSUME r # None, Lookup(rs, elder, f, a) = r
             PROVE  r \in found /\ \A s \in found \ {r} : Before(r, s, elder)
  OBVIOUS
<1>1. found # {} /\ r = CHOOSE t \in found : \A s \in found \ {t} : Before(t, s, elder)
  BY DEF Lookup
<1>2. \E t \in found : \A s \in found \ {t} : Before(t, s, elder)
  BY <1>1, BestExists
<1> HIDE DEF found
<1> QED
  BY <1>1, <1>2

LEMMA BestIsLookup ==
  ASSUME NEW rs, NEW elder, IsTable(rs, elder), NEW f, NEW a,
         NEW r \in rs, Matches(r, f, a),
         \A s \in rs \ {r} : Matches(s, f, a) => Before(r, s, elder)
  PROVE  Lookup(rs, elder, f, a) = r
<1> DEFINE found == {s \in rs : Matches(s, f, a)}
           Best(t) == \A s \in found \ {t} : Before(t, s, elder)
<1>1. r \in found /\ Best(r)
  OBVIOUS
<1>2. \A t \in found : Best(t) => t = r
  BY <1>1, BeforeIsOrder
<1>3. (CHOOSE t \in found : Best(t)) = r
  BY <1>1, <1>2
<1>4. Lookup(rs, elder, f, a) = CHOOSE t \in found : Best(t)
  BY <1>1 DEF Lookup
<1> QED
  BY <1>3, <1>4

-----------------------------------------------------------------------------
(* What the operations do to the table *)

\* A new route is younger than all, and those that stay keep their order.
TableStep ==
  /\ \A r, s \in routes \cap routes' : <<r, s>> \in older => <<r, s>> \in older'
  /\ \A r \in routes \cap routes' : \A s \in routes' \ routes : <<r, s>> \in older'

LEMMA AddKeeps ==
  ASSUME IsTable(routes, older), older \subseteq routes \X routes,
         NEW r \in RouteType \ routes, Add(r)
  PROVE  IsTable(routes, older)' /\ older' \subseteq routes' \X routes' /\ TableStep
<1>1. routes' = routes \cup {r}
  BY DEF Add
<1>2. \A p, q : <<p, q>> \in older' <=> <<p, q>> \in older \/ (p \in routes /\ q = r)
  BY DEF Add
<1>3. IsFiniteSet(routes')
  BY <1>1, FS_AddElement DEF IsTable
<1>4. \A p, q : <<p, q>> \in older => p \in routes /\ q \in routes
  OBVIOUS
<1>5. IsTable(routes', older')
  BY <1>1, <1>2, <1>3, <1>4 DEF IsTable
<1>6. older' \subseteq routes' \X routes'
  BY DEF Add
<1>7. TableStep
  BY <1>1, <1>2 DEF TableStep
<1> QED
  BY <1>5, <1>6, <1>7

LEMMA DropKeeps ==
  ASSUME IsTable(routes, older), older \subseteq routes \X routes,
         NEW gone, Drop(gone)
  PROVE  IsTable(routes, older)' /\ older' \subseteq routes' \X routes' /\ TableStep
<1>1. routes' = routes \ gone
  BY DEF Drop
<1>2. \A p, q \in routes' : <<p, q>> \in older' <=> <<p, q>> \in older
  BY DEF Drop
<1>3. IsFiniteSet(routes')
  BY <1>1, FS_Subset DEF IsTable
<1>4. IsTable(routes', older')
  BY <1>1, <1>2, <1>3 DEF IsTable
<1>5. older' \subseteq routes' \X routes'
  BY DEF Drop
<1>6. TableStep
  BY <1>1, <1>2 DEF TableStep
<1> QED
  BY <1>4, <1>5, <1>6

LEMMA SameKeeps ==
  ASSUME IsTable(routes, older), older \subseteq routes \X routes, UNCHANGED table
  PROVE  IsTable(routes, older)' /\ older' \subseteq routes' \X routes' /\ TableStep
<1>1. routes' = routes /\ older' = older
  BY DEF table
<1>2. TableStep
  BY <1>1 DEF TableStep
<1>3. IsTable(routes', older')
  BY <1>1
<1> QED
  BY <1>1, <1>2, <1>3

-----------------------------------------------------------------------------
(* Addresses that share a network *)

LEMMA UsersBound ==
  ASSUME NEW L \in SUBSET Cidr, NEW n
  PROVE  /\ IsFiniteSet({c \in L : NetworkOf(c) = n})
         /\ Users(L, n) \in 0 .. Cardinality(Cidr)
         /\ Users(L, n) = 0 <=> {c \in L : NetworkOf(c) = n} = {}
<1> DEFINE S == {c \in L : NetworkOf(c) = n}
<1>1. IsFiniteSet(Cidr) /\ S \in SUBSET Cidr
  BY InterfaceConstants
<1>2. IsFiniteSet(S) /\ Cardinality(S) <= Cardinality(Cidr)
  BY <1>1, FS_Subset
<1>3. Cardinality(S) \in Nat /\ Cardinality(Cidr) \in Nat
  BY <1>1, <1>2, FS_CardinalityType
<1>4. Cardinality(S) = 0 <=> S = {}
  BY <1>2, FS_EmptySet
<1>5. Cardinality(S) \in 0 .. Cardinality(Cidr)
  BY <1>2, <1>3
<1> QED
  BY <1>2, <1>4, <1>5 DEF Users

LEMMA UsersAdd ==
  ASSUME NEW L \in SUBSET Cidr, NEW c \in Cidr \ L, NEW n
  PROVE  Users(L \cup {c}, n) = Users(L, n) + (IF n = NetworkOf(c) THEN 1 ELSE 0)
<1> DEFINE S == {d \in L : NetworkOf(d) = n}
<1>1. IsFiniteSet(S) /\ Users(L, n) \in Nat
  BY UsersBound
<1>2. CASE n = NetworkOf(c)
  <2>1. {d \in L \cup {c} : NetworkOf(d) = n} = S \cup {c} /\ c \notin S
    BY <1>2
  <2>2. Cardinality(S \cup {c}) = Cardinality(S) + 1
    BY <1>1, <2>1, FS_AddElement
  <2> QED
    BY <1>2, <2>1, <2>2 DEF Users
<1>3. CASE n # NetworkOf(c)
  <2>1. {d \in L \cup {c} : NetworkOf(d) = n} = S
    BY <1>3
  <2>2. Users(L \cup {c}, n) = Users(L, n)
    BY <2>1 DEF Users
  <2> QED
    BY <1>1, <1>3, <2>2
<1> QED
  BY <1>2, <1>3

LEMMA UsersDrop ==
  ASSUME NEW L \in SUBSET Cidr, NEW c \in L, NEW n
  PROVE  Users(L \ {c}, n) = Users(L, n) - (IF n = NetworkOf(c) THEN 1 ELSE 0)
<1>1. c \in Cidr \ (L \ {c}) /\ L \ {c} \in SUBSET Cidr /\ (L \ {c}) \cup {c} = L
  OBVIOUS
<1>2. Users(L, n) = Users(L \ {c}, n) + (IF n = NetworkOf(c) THEN 1 ELSE 0)
  BY <1>1, UsersAdd
<1>3. Users(L \ {c}, n) \in Nat
  <2>1. Users(L \ {c}, n) \in 0 .. Cardinality(Cidr)
    BY <1>1, UsersBound
  <2> QED
    BY <2>1
<1> QED
  BY <1>2, <1>3

LEMMA UsersOfFew ==
  /\ \A n : Users({}, n) = 0
  /\ \A c \in Cidr : \A n : Users({c}, n) = IF n = NetworkOf(c) THEN 1 ELSE 0
<1>1. \A n : Users({}, n) = 0
  BY FS_EmptySet DEF Users
<1>2. ASSUME NEW c \in Cidr, NEW n
      PROVE  Users({c}, n) = IF n = NetworkOf(c) THEN 1 ELSE 0
  <2>1. {} \cup {c} = {c} /\ c \in Cidr \ {} /\ {} \in SUBSET Cidr
    OBVIOUS
  <2>2. Users({} \cup {c}, n) = Users({}, n) + (IF n = NetworkOf(c) THEN 1 ELSE 0)
    BY <2>1, UsersAdd
  <2> QED
    BY <1>1, <2>1, <2>2
<1> QED
  BY <1>1, <1>2

LEMMA RefsBounded ==
  ASSUME NEW R \in [Iface -> [Network -> Nat]], NEW L \in [Iface -> SUBSET Cidr],
         \A i \in Iface, n \in Network : R[i][n] <= Users(L[i], n)
  PROVE  R \in [Iface -> [Network -> 0 .. Cardinality(Cidr)]]
<1>1. Cardinality(Cidr) \in Nat
  BY InterfaceConstants, FS_CardinalityType
<1>2. \A i \in Iface, n \in Network : Users(L[i], n) \in 0 .. Cardinality(Cidr)
  BY UsersBound
<1>3. \A i \in Iface, n \in Network : R[i][n] \in 0 .. Cardinality(Cidr)
  BY <1>1, <1>2
<1>4. \A i \in Iface : R[i] \in [Network -> 0 .. Cardinality(Cidr)]
  BY <1>3
<1> QED
  BY <1>4

\* Having at most one IPv4 address, without counting.
LEMMA OneOrNone ==
  ASSUME NEW L \in SUBSET Cidr
  PROVE  Cardinality({c \in L : c.fam = 4}) <= 1
         <=> \A c, d \in L : c.fam = 4 /\ d.fam = 4 => c = d
<1> DEFINE S == {c \in L : c.fam = 4}
<1>1. IsFiniteSet(S) /\ Cardinality(S) \in Nat
  BY InterfaceConstants, FS_Subset, FS_CardinalityType
<1>2. Cardinality(S) <= 1 <=> S = {} \/ \E x : S = {x}
  <2>1. Cardinality(S) <= 1 <=> Cardinality(S) = 0 \/ Cardinality(S) = 1
    BY <1>1
  <2> QED
    BY <1>1, <2>1, FS_EmptySet, FS_Singleton
<1>3. (S = {} \/ \E x : S = {x}) <=> \A c, d \in L : c.fam = 4 /\ d.fam = 4 => c = d
  OBVIOUS
<1> QED
  BY <1>2, <1>3

-----------------------------------------------------------------------------
(* Connected routes *)

LEMMA RouteTypes ==
  /\ \A n \in Network, i \in Iface, m \in Metric, s \in {"static", "connected"} :
       Route(n, i, m, s) \in RouteType
  /\ \A n, i, m, s : /\ Route(n, i, m, s).via = i /\ Route(n, i, m, s).source = s
                     /\ Route(n, i, m, s).dest = n /\ Route(n, i, m, s).metric = m
  /\ \A n, k, i, j : Route(n, i, 0, "connected") = Route(k, j, 0, "connected") => n = k /\ i = j
BY DEF Route, RouteType

LEMMA AcquireKeeps ==
  ASSUME TypeOK, IsTable(routes, older), Agree,
         NEW i \in Iface, NEW n \in Network, Acquire(i, n)
  PROVE  /\ refs' \in [Iface -> [Network -> Nat]]
         /\ \A j \in Iface, k \in Network :
              refs'[j][k] = refs[j][k] + (IF j = i /\ k = n THEN 1 ELSE 0)
         /\ Agree'
         /\ IsTable(routes, older)' /\ older' \subseteq routes' \X routes' /\ TableStep
         /\ \A r \in routes' : r \in routes \/ r.via = i
<1>1. refs \in [Iface -> [Network -> Nat]]
  BY DEF TypeOK
<1>2. refs' = [refs EXCEPT ![i] = [refs[i] EXCEPT ![n] = refs[i][n] + 1]]
  BY <1>1 DEF Acquire
<1>3. /\ refs' \in [Iface -> [Network -> Nat]]
      /\ \A j \in Iface, k \in Network :
           refs'[j][k] = refs[j][k] + (IF j = i /\ k = n THEN 1 ELSE 0)
  <2> DEFINE new == [refs[i] EXCEPT ![n] = refs[i][n] + 1]
  <2>0. refs[i] \in [Network -> Nat] /\ refs[i][n] + 1 \in Nat
    BY <1>1
  <2>1. PICK row \in [Network -> Nat] : row = new
    <3>1. new \in [Network -> Nat]
      BY <2>0
    <3> QED
      BY <3>1
  <2>2. \A k \in Network : row[k] = refs[i][k] + (IF k = n THEN 1 ELSE 0)
    BY <1>1, <2>1
  <2>3. refs' = [refs EXCEPT ![i] = row]
    BY <1>2, <2>1
  <2> QED
    BY <1>1, <2>2, <2>3
<1>4. older \subseteq routes \X routes
  BY DEF TypeOK
<1>5. CASE refs[i][n] > 0 /\ UNCHANGED table
  <2>1. routes' = routes
    BY <1>5 DEF table
  <2>2. Agree'
    BY <1>1, <1>3, <1>5, <2>1 DEF Agree
  <2> QED
    BY <1>3, <1>4, <1>5, <2>1, <2>2, SameKeeps
<1>6. CASE refs[i][n] = 0 /\ Add(Route(n, i, 0, "connected"))
  <2>1. Route(n, i, 0, "connected") \in RouteType \ routes
    BY <1>6, RouteTypes, InterfaceConstants DEF Agree
  <2>2. routes' = routes \cup {Route(n, i, 0, "connected")}
    BY <1>6 DEF Add
  <2>3. Agree'
    <3> SUFFICES ASSUME NEW j \in Iface, NEW k \in Network
                 PROVE  Route(k, j, 0, "connected") \in routes' <=> refs'[j][k] > 0
      BY DEF Agree
    <3>1. Route(k, j, 0, "connected") \in routes'
          <=> Route(k, j, 0, "connected") \in routes \/ (j = i /\ k = n)
      BY <2>2, RouteTypes
    <3>2. refs[j][k] \in Nat
      BY <1>1
    <3> QED
      BY <1>3, <3>1, <3>2 DEF Agree
  <2>4. \A r \in routes' : r \in routes \/ r.via = i
    BY <2>2, RouteTypes
  <2>5. IsTable(routes, older)' /\ older' \subseteq routes' \X routes' /\ TableStep
    BY <1>4, <1>6, <2>1, AddKeeps
  <2> QED
    BY <1>3, <2>3, <2>4, <2>5
<1> QED
  BY <1>5, <1>6 DEF Acquire

LEMMA ReleaseKeeps ==
  ASSUME TypeOK, IsTable(routes, older), Agree,
         NEW i \in Iface, NEW n \in Network, Release(i, n)
  PROVE  /\ refs' \in [Iface -> [Network -> Nat]]
         /\ \A j \in Iface, k \in Network :
              refs'[j][k] = refs[j][k] - (IF j = i /\ k = n /\ refs[j][k] > 0 THEN 1 ELSE 0)
         /\ Agree'
         /\ IsTable(routes, older)' /\ older' \subseteq routes' \X routes' /\ TableStep
         /\ routes' \subseteq routes
<1>1. refs \in [Iface -> [Network -> Nat]]
  BY DEF TypeOK
<1>2. refs' = [refs EXCEPT ![i] = [refs[i] EXCEPT ![n] =
                 IF refs[i][n] > 0 THEN refs[i][n] - 1 ELSE 0]]
  BY <1>1 DEF Release
<1>3. /\ refs' \in [Iface -> [Network -> Nat]]
      /\ \A j \in Iface, k \in Network :
           refs'[j][k] = refs[j][k] - (IF j = i /\ k = n /\ refs[j][k] > 0 THEN 1 ELSE 0)
  BY <1>1, <1>2
<1>4. older \subseteq routes \X routes
  BY DEF TypeOK
<1>5. PICK gone : /\ Drop(gone)
                  /\ gone = IF refs[i][n] = 1 THEN {Route(n, i, 0, "connected")} ELSE {}
  BY DEF Release
<1>6. routes' = routes \ gone
  BY <1>5 DEF Drop
<1>7. Agree'
  <2> SUFFICES ASSUME NEW j \in Iface, NEW k \in Network
               PROVE  Route(k, j, 0, "connected") \in routes' <=> refs'[j][k] > 0
    BY DEF Agree
  <2>1. Route(k, j, 0, "connected") \in gone <=> refs[i][n] = 1 /\ j = i /\ k = n
    BY <1>5, RouteTypes
  <2>2. refs[j][k] \in Nat
    BY <1>1
  <2> QED
    BY <1>3, <1>6, <2>1, <2>2 DEF Agree
<1> QED
  BY <1>3, <1>4, <1>5, <1>6, <1>7, DropKeeps

-----------------------------------------------------------------------------
(* The inductive invariant *)

LEMMA InitIInv == Init => IInv
<1> SUFFICES ASSUME Init
             PROVE  IInv
  OBVIOUS
<1>1. Cardinality(Cidr) \in Nat
  BY InterfaceConstants, FS_CardinalityType
<1>2. TypeOK
  <2>1. 0 \in 0 .. Cardinality(Cidr)
    BY <1>1
  <2>2. refs \in [Iface -> [Network -> 0 .. Cardinality(Cidr)]]
    BY <2>1 DEF Init
  <2> QED
    BY <2>2 DEF Init, TypeOK, Stage
<1>3. IsTable(routes, older)
  BY FS_EmptySet DEF Init, IsTable
<1>4. Agree /\ Stages /\ Listings /\ RoutesLive
  BY DEF Init, Agree, Stages, Listings, RoutesLive
<1>5. Counts
  BY UsersOfFew DEF Init, Counts
<1> QED
  BY <1>2, <1>3, <1>4, <1>5 DEF IInv

LEMMA CidrTypes ==
  \A c \in Cidr : c.addr \in Addr /\ c.fam \in {4, 6} /\ NetworkOf(c) \in Network
BY InterfaceConstants, NetworkTypes

\* An operation on one listing that keeps the stages: what is left to show is
\* the table, the counts and the listings.
LEMMA TypesKeep ==
  ASSUME TypeOK,
         refs' \in [Iface -> [Network -> Nat]], listed' \in [Iface -> SUBSET Cidr],
         Counts', disposed' \in BOOLEAN, st' \in [Iface -> Stage],
         wasm4' \in [Iface -> Addr \cup {None}], wasm6' \in [Iface -> SUBSET Addr],
         small' \in [Iface -> BOOLEAN], ra' \in Iface \cup {None},
         IsTable(routes, older)', older' \subseteq routes' \X routes'
  PROVE  TypeOK'
<1>1. \A i \in Iface, n \in Network : refs'[i][n] <= Users(listed'[i], n)
  BY DEF Counts
<1>2. refs' \in [Iface -> [Network -> 0 .. Cardinality(Cidr)]]
  BY <1>1, RefsBounded
<1>3. routes' \subseteq RouteType
  BY DEF IsTable
<1> QED
  BY <1>2, <1>3 DEF TypeOK, RouteType

LEMMA AddRouteStep ==
  ASSUME IInv, NEW i \in Iface, NEW dest \in Static, NEW m \in Metric, AddRoute(i, dest, m)
  PROVE  IInv' /\ TableStep
<1> DEFINE r == Route(dest, i, m, "static")
<1>1. r \in RouteType \ routes
  <2>1. r \in RouteType
    BY RouteTypes DEF Network
  <2>2. r.dest = dest /\ r.via = i /\ r.metric = m
    BY RouteTypes
  <2> HIDE DEF r
  <2> QED
    BY <2>1, <2>2 DEF AddRoute, Duplicate
<1>2. routes' = routes \cup {r} /\ Add(r)
  BY DEF AddRoute, Add
<1>3. IsTable(routes, older)' /\ older' \subseteq routes' \X routes' /\ TableStep
  <2>1. IsTable(routes, older) /\ older \subseteq routes \X routes
    BY DEF IInv, TypeOK
  <2> HIDE DEF r
  <2> QED
    BY <1>1, <1>2, <2>1, AddKeeps
<1>4. UNCHANGED <<disposed, st, listed, refs, wasm4, wasm6, small, ra>>
  BY DEF AddRoute
<1>5. Agree'
  <2>1. \A n, j : Route(n, j, 0, "connected") # r
    BY DEF Route
  <2> QED
    BY <1>2, <1>4, <2>1 DEF Agree, IInv
<1>6. Counts' /\ Stages' /\ Listings'
  BY <1>4 DEF Counts, Stages, Listings, IInv
<1>7. RoutesLive'
  <2>1. r.via \in Registered
    BY RouteTypes DEF AddRoute
  <2> HIDE DEF r
  <2> QED
    BY <1>2, <1>4, <2>1 DEF RoutesLive, IInv, Registered
<1>8. TypeOK'
  <2>1. routes' \subseteq RouteType
    BY <1>3 DEF IsTable
  <2> QED
    BY <1>3, <1>4, <2>1 DEF IInv, TypeOK, RouteType
<1> QED
  BY <1>3, <1>5, <1>6, <1>7, <1>8 DEF IInv

LEMMA DisposeRouteStep ==
  ASSUME IInv, NEW i \in Iface, NEW dest \in Static, NEW m \in Metric,
         DisposeRoute(i, dest, m)
  PROVE  IInv' /\ TableStep
<1> DEFINE r == Route(dest, i, m, "static")
<1>1. routes' = routes \ {r} /\ Drop({r})
  BY DEF DisposeRoute, Drop
<1>2. IsTable(routes, older)' /\ older' \subseteq routes' \X routes' /\ TableStep
  <2>1. IsTable(routes, older) /\ older \subseteq routes \X routes
    BY DEF IInv, TypeOK
  <2> HIDE DEF r
  <2> QED
    BY <1>1, <2>1, DropKeeps
<1>3. UNCHANGED <<disposed, st, listed, refs, wasm4, wasm6, small, ra>>
  BY DEF DisposeRoute
<1>4. Agree'
  <2>1. \A n, j : Route(n, j, 0, "connected") # r
    BY DEF Route
  <2> QED
    BY <1>1, <1>3, <2>1 DEF Agree, IInv
<1>5. Counts' /\ Stages' /\ Listings'
  BY <1>3 DEF Counts, Stages, Listings, IInv
<1>6. RoutesLive'
  BY <1>1, <1>3 DEF RoutesLive, IInv, Registered
<1>7. TypeOK'
  <2>1. routes' \subseteq RouteType
    BY <1>2 DEF IsTable
  <2> QED
    BY <1>2, <1>3, <2>1 DEF IInv, TypeOK, RouteType
<1> QED
  BY <1>2, <1>4, <1>5, <1>6, <1>7 DEF IInv

\* setMtu, setRouterAdvertisements and a stutter.
LEMMA SameTableStep ==
  ASSUME IInv, UNCHANGED <<disposed, st, listed, refs, wasm4, wasm6, table>>,
         small' \in [Iface -> BOOLEAN], ra' \in Iface \cup {None}
  PROVE  IInv' /\ TableStep
<1>1. UNCHANGED <<disposed, st, listed, refs, wasm4, wasm6, routes, older>>
  BY DEF table
<1>2. IsTable(routes, older)' /\ older' \subseteq routes' \X routes' /\ TableStep
  BY SameKeeps DEF IInv, TypeOK
<1>3. Agree' /\ Counts' /\ Stages' /\ Listings'
  BY <1>1 DEF Agree, Counts, Stages, Listings, IInv
<1>4. RoutesLive'
  BY <1>1 DEF RoutesLive, Registered, IInv
<1>5. TypeOK'
  BY <1>1 DEF TypeOK, IInv
<1> QED
  BY <1>2, <1>3, <1>4, <1>5 DEF IInv

LEMMA CreateStep ==
  ASSUME IInv, NEW i \in Iface,
         NEW given \in {{}} \cup {{c} : c \in {d \in Cidr : d.fam = 4}},
         Create(i, given)
  PROVE  IInv' /\ TableStep
<1>1. /\ UNCHANGED <<disposed, refs, wasm6, small, ra, routes, older>>
      /\ st[i] = "absent" /\ st' = [st EXCEPT ![i] = "created"]
      /\ listed' = [listed EXCEPT ![i] = given]
  BY DEF Create, table
<1>2. given = {} \/ \E c \in Cidr : c.fam = 4 /\ given = {c}
  OBVIOUS
<1>3. PICK a \in Addr \cup {None} :
        /\ wasm4' = [wasm4 EXCEPT ![i] = a]
        /\ a # None => \E c \in given : c.fam = 4 /\ c.addr = a
  <2>1. CASE given = {}
    BY <2>1 DEF Create
  <2>2. CASE \E c \in Cidr : c.fam = 4 /\ given = {c}
    <3>1. PICK c \in Cidr : c.fam = 4 /\ given = {c}
      BY <2>2
    <3>2. (CHOOSE d \in given : TRUE) = c
      BY <3>1
    <3> QED
      BY <3>1, <3>2, CidrTypes DEF Create
  <2> QED
    BY <1>2, <2>1, <2>2
<1>4. IsTable(routes, older)' /\ older' \subseteq routes' \X routes' /\ TableStep
  BY SameKeeps DEF IInv, TypeOK, Create
<1>5. /\ st \in [Iface -> Stage] /\ st' \in [Iface -> Stage]
      /\ listed \in [Iface -> SUBSET Cidr] /\ listed' \in [Iface -> SUBSET Cidr]
      /\ wasm4 \in [Iface -> Addr \cup {None}] /\ wasm4' \in [Iface -> Addr \cup {None}]
  BY <1>1, <1>2, <1>3 DEF IInv, TypeOK, Stage
<1>6. \A j \in Iface : /\ j # i => st'[j] = st[j] /\ listed'[j] = listed[j] /\ wasm4'[j] = wasm4[j]
                       /\ st'[i] = "created" /\ listed'[i] = given /\ wasm4'[i] = a
  BY <1>1, <1>3, <1>5
<1>7. Agree'
  BY <1>1 DEF Agree, IInv
<1>8. Counts'
  <2>1. \A n \in Network : refs[i][n] = 0 /\ Users(given, n) \in Nat
    <3>1. \A n \in Network : refs[i][n] = 0
      BY <1>1 DEF Counts, IInv
    <3>2. \A n \in Network : Users(given, n) \in 0 .. Cardinality(Cidr)
      BY <1>2, UsersBound
    <3> QED
      BY <3>1, <3>2
  <2> QED
    BY <1>1, <1>6, <2>1 DEF Counts, IInv
<1>9. Stages'
  BY <1>1, <1>2, <1>6 DEF Stages, IInv
<1>10. Listings'
  <2>1. wasm6[i] = {}
    BY <1>1 DEF Stages, IInv
  <2> QED
    BY <1>1, <1>2, <1>3, <1>6, <2>1 DEF Listings, IInv
<1>11. RoutesLive'
  <2>1. Registered \subseteq Registered'
    BY <1>1, <1>5, <1>6 DEF Registered
  <2> QED
    BY <1>1, <2>1 DEF RoutesLive, IInv
<1>12. TypeOK'
  BY <1>1, <1>4, <1>5 DEF IInv, TypeOK
<1> QED
  BY <1>4, <1>7, <1>8, <1>9, <1>10, <1>11, <1>12 DEF IInv

\* attach(): the first turn of the event loop after the creation.
LEMMA AttachStep ==
  ASSUME IInv, NEW i \in Iface, Attach(i)
  PROVE  IInv' /\ TableStep
<1>1. UNCHANGED <<disposed, listed, wasm4, wasm6, small, ra>> /\ st[i] = "created"
  BY DEF Attach
<1>2. /\ st \in [Iface -> Stage] /\ listed \in [Iface -> SUBSET Cidr]
      /\ refs \in [Iface -> [Network -> Nat]]
      /\ IsTable(routes, older) /\ older \subseteq routes \X routes
  BY DEF IInv, TypeOK
<1>3. PICK to \in {"attached", "partly"} : st' = [st EXCEPT ![i] = to]
  BY DEF Attach
<1>4. st' \in [Iface -> Stage] /\ \A j \in Iface : st'[j] = IF j = i THEN to ELSE st[j]
  BY <1>2, <1>3 DEF Stage
<1>5. \A n \in Network : refs[i][n] = 0
  BY <1>1 DEF IInv, Counts
<1>6. Stages' /\ Listings'
  BY <1>1, <1>4 DEF IInv, Stages, Listings
<1>7. Registered' = Registered
  BY <1>1, <1>4 DEF Registered
<1>8. /\ refs' \in [Iface -> [Network -> Nat]]
      /\ Agree' /\ Counts'
      /\ IsTable(routes, older)' /\ older' \subseteq routes' \X routes' /\ TableStep
      /\ \A r \in routes' : r \in routes \/ r.via = i
  <2>1. CASE listed[i] = {} /\ UNCHANGED <<refs, table>>
    <3>1. UNCHANGED <<refs, routes, older>>
      BY <2>1 DEF table
    <3>2. Counts'
      <4> SUFFICES ASSUME NEW j \in Iface, NEW n \in Network
                   PROVE  /\ refs[j][n] <= Users(listed[j], n)
                          /\ st'[j] = "attached" => refs[j][n] = Users(listed[j], n)
                          /\ st'[j] \notin {"attached", "partly"} => refs[j][n] = 0
        BY <1>1, <3>1 DEF Counts
      <4>1. CASE j = i
        <5>1. Users(listed[j], n) = 0 /\ refs[j][n] = 0
          BY <1>5, <2>1, <4>1, UsersOfFew
        <5> QED BY <5>1
      <4>2. CASE j # i
        BY <1>4, <4>2 DEF IInv, Counts
      <4> QED BY <4>1, <4>2
    <3> QED
      BY <1>2, <2>1, <3>1, <3>2, SameKeeps DEF IInv, Agree
  <2>2. ASSUME NEW c \in listed[i], Acquire(i, NetworkOf(c)),
               CanAcquire(i, NetworkOf(c))
        PROVE  /\ refs' \in [Iface -> [Network -> Nat]]
               /\ Agree' /\ Counts'
               /\ IsTable(routes, older)' /\ older' \subseteq routes' \X routes' /\ TableStep
               /\ \A r \in routes' : r \in routes \/ r.via = i
    <3>1. c \in Cidr /\ listed[i] = {c} /\ NetworkOf(c) \in Network
      BY <1>1, <1>2, <2>2, CidrTypes DEF IInv, Stages
    <3>2. /\ refs' \in [Iface -> [Network -> Nat]]
          /\ \A j \in Iface, k \in Network :
               refs'[j][k] = refs[j][k] + (IF j = i /\ k = NetworkOf(c) THEN 1 ELSE 0)
          /\ Agree'
          /\ IsTable(routes, older)' /\ older' \subseteq routes' \X routes' /\ TableStep
          /\ \A r \in routes' : r \in routes \/ r.via = i
      BY <2>2, <3>1, AcquireKeeps DEF IInv
    <3>3. \A k \in Network : refs'[i][k] = Users(listed[i], k)
      BY <1>5, <3>1, <3>2, UsersOfFew
    <3>4. \A j \in Iface \ {i}, k \in Network : refs'[j][k] = refs[j][k]
      BY <1>2, <3>2
    <3>5. \A k \in Network : Users(listed[i], k) \in Nat
      BY <3>1, UsersOfFew
    <3>6. Counts'
      BY <1>1, <1>4, <3>3, <3>4, <3>5 DEF IInv, Counts
    <3> QED
      BY <3>2, <3>6
  <2>3. CASE to = "partly" /\ UNCHANGED <<refs, table>>
    <3>1. UNCHANGED <<refs, routes, older>>
      BY <2>3 DEF table
    <3>2. Counts'
      BY <1>1, <1>4, <2>3, <3>1 DEF IInv, Counts
    <3> QED
      BY <1>2, <2>3, <3>1, <3>2, SameKeeps DEF IInv, Agree
  <2>4. \/ listed[i] = {} /\ UNCHANGED <<refs, table>>
        \/ \E c \in listed[i] : Acquire(i, NetworkOf(c)) /\ CanAcquire(i, NetworkOf(c))
        \/ to = "partly" /\ UNCHANGED <<refs, table>>
    BY <1>2, <1>3, <1>4 DEF Attach
  <2> QED
    BY <2>1, <2>2, <2>3, <2>4
<1>9. RoutesLive'
  <2>1. i \in Registered
    BY <1>1 DEF Registered
  <2> QED
    BY <1>7, <1>8, <2>1 DEF IInv, RoutesLive
<1>10. TypeOK'
  BY <1>1, <1>2, <1>4, <1>8, TypesKeep DEF IInv, TypeOK
<1> QED
  BY <1>6, <1>8, <1>9, <1>10 DEF IInv

\* What lwIP is told of one address.
LEMMA WasmKeeps ==
  ASSUME TypeOK, NEW i \in Iface, NEW c \in Cidr
  PROVE  /\ AddToWasm(i, c) \/ RemoveFromWasm(i, c)
              => /\ wasm4' \in [Iface -> Addr \cup {None}] /\ wasm6' \in [Iface -> SUBSET Addr]
                 /\ \A j \in Iface \ {i} : wasm4'[j] = wasm4[j] /\ wasm6'[j] = wasm6[j]
         /\ AddToWasm(i, c)
              => \/ c.fam = 4 /\ wasm4'[i] = c.addr /\ wasm6'[i] = wasm6[i]
                 \/ c.fam = 6 /\ wasm4'[i] = wasm4[i] /\ wasm6'[i] = wasm6[i] \cup {c.addr}
         /\ RemoveFromWasm(i, c)
              => \/ c.fam = 4 /\ wasm4'[i] = None /\ wasm6'[i] = wasm6[i]
                 \/ c.fam = 6 /\ wasm4'[i] = wasm4[i] /\ wasm6'[i] = wasm6[i] \ {c.addr}
<1>1. /\ wasm4 \in [Iface -> Addr \cup {None}] /\ wasm6 \in [Iface -> SUBSET Addr]
      /\ c.addr \in Addr
  BY CidrTypes DEF TypeOK
<1>2. CASE AddToWasm(i, c)
  BY <1>1, <1>2 DEF AddToWasm, RemoveFromWasm
<1>3. CASE RemoveFromWasm(i, c)
  BY <1>1, <1>3 DEF AddToWasm, RemoveFromWasm
<1> QED
  BY <1>2, <1>3

LEMMA AddAddressStep ==
  ASSUME IInv, NEW i \in Iface, NEW c \in Cidr, AddAddress(i, c)
  PROVE  IInv' /\ TableStep
<1>1. /\ UNCHANGED <<disposed, st, small, ra>>
      /\ i \in Attached /\ c \notin listed[i]
      /\ c.fam = 4 => ListedOf(i, 4) = {}
  BY DEF AddAddress, MayAdd, AlreadyListed
<1>2. /\ st \in [Iface -> Stage] /\ listed \in [Iface -> SUBSET Cidr]
      /\ refs \in [Iface -> [Network -> Nat]]
      /\ IsTable(routes, older) /\ older \subseteq routes \X routes
  BY DEF IInv, TypeOK
<1>3. st[i] \in {"attached", "partly"}
  BY <1>1 DEF Attached
<1>4. CASE AddToWasm(i, c) /\ Acquire(i, NetworkOf(c))
           /\ listed' = [listed EXCEPT ![i] = @ \cup {c}]
  <2>1. /\ refs' \in [Iface -> [Network -> Nat]]
        /\ \A j \in Iface, k \in Network :
             refs'[j][k] = refs[j][k] + (IF j = i /\ k = NetworkOf(c) THEN 1 ELSE 0)
        /\ Agree'
        /\ IsTable(routes, older)' /\ older' \subseteq routes' \X routes' /\ TableStep
        /\ \A r \in routes' : r \in routes \/ r.via = i
    BY <1>4, CidrTypes, AcquireKeeps DEF IInv
  <2>2. /\ listed' \in [Iface -> SUBSET Cidr] /\ listed'[i] = listed[i] \cup {c}
        /\ \A j \in Iface \ {i} : listed'[j] = listed[j]
    BY <1>2, <1>4
  <2>3. Counts'
    <3> SUFFICES ASSUME NEW j \in Iface, NEW n \in Network
                 PROVE  /\ refs'[j][n] <= Users(listed'[j], n)
                        /\ st'[j] = "attached" => refs'[j][n] = Users(listed'[j], n)
                        /\ st'[j] \notin {"attached", "partly"} => refs'[j][n] = 0
      BY DEF Counts
    <3>1. /\ refs[j][n] <= Users(listed[j], n) /\ refs[j][n] \in Nat
          /\ st[j] = "attached" => refs[j][n] = Users(listed[j], n)
          /\ st[j] \notin {"attached", "partly"} => refs[j][n] = 0
      BY <1>2 DEF IInv, Counts
    <3>2. CASE j # i
      BY <1>1, <2>1, <2>2, <3>1, <3>2
    <3>3. CASE j = i
      <4>1. Users(listed'[i], n) = Users(listed[i], n) + (IF n = NetworkOf(c) THEN 1 ELSE 0)
        BY <1>1, <1>2, <2>2, UsersAdd
      <4>2. Users(listed[i], n) \in 0 .. Cardinality(Cidr)
        BY <1>2, UsersBound
      <4> QED
        BY <1>1, <1>3, <2>1, <3>1, <3>3, <4>1, <4>2
    <3> QED
      BY <3>2, <3>3
  <2>4. Stages'
    BY <1>1, <1>3, <1>4, <2>2, WasmKeeps DEF IInv, Stages
  <2>5. Listings'
    <3> SUFFICES ASSUME NEW j \in Iface
                 PROVE  /\ wasm4'[j] # None
                             => \E d \in listed'[j] : d.fam = 4 /\ d.addr = wasm4'[j]
                        /\ \A a \in wasm6'[j] : \E d \in listed'[j] : d.fam = 6 /\ d.addr = a
                        /\ \A d, e \in listed'[j] : d.fam = 4 /\ e.fam = 4 => d = e
      BY DEF Listings
    <3>1. /\ wasm4[j] # None => \E d \in listed[j] : d.fam = 4 /\ d.addr = wasm4[j]
          /\ \A a \in wasm6[j] : \E d \in listed[j] : d.fam = 6 /\ d.addr = a
          /\ \A d, e \in listed[j] : d.fam = 4 /\ e.fam = 4 => d = e
      BY DEF IInv, Listings
    <3>2. CASE j # i
      BY <1>4, <2>2, <3>1, <3>2, WasmKeeps DEF IInv
    <3>3. CASE j = i
      <4>1. \A d, e \in listed'[i] : d.fam = 4 /\ e.fam = 4 => d = e
        BY <1>1, <2>2, <3>1, <3>3 DEF ListedOf
      <4>2. CASE c.fam = 4 /\ wasm4'[i] = c.addr /\ wasm6'[i] = wasm6[i]
        BY <2>2, <3>1, <3>3, <4>1, <4>2
      <4>3. CASE c.fam = 6 /\ wasm4'[i] = wasm4[i] /\ wasm6'[i] = wasm6[i] \cup {c.addr}
        BY <2>2, <3>1, <3>3, <4>1, <4>3
      <4> QED
        BY <1>4, <4>2, <4>3, WasmKeeps DEF IInv
    <3> QED
      BY <3>2, <3>3
  <2>6. RoutesLive'
    BY <1>1, <1>3, <2>1 DEF IInv, RoutesLive, Registered
  <2>7. TypeOK'
    <3>1. wasm4' \in [Iface -> Addr \cup {None}] /\ wasm6' \in [Iface -> SUBSET Addr]
      BY <1>4, WasmKeeps DEF IInv
    <3> QED
      BY <1>1, <1>2, <2>1, <2>2, <2>3, <3>1, TypesKeep DEF IInv, TypeOK
  <2> QED
    BY <2>1, <2>3, <2>4, <2>5, <2>6, <2>7 DEF IInv
<1>5. CASE RemoveFromWasm(i, c) /\ UNCHANGED <<refs, table, listed>>
  <2>1. UNCHANGED <<refs, routes, older, listed>>
    BY <1>5 DEF table
  <2>2. IsTable(routes, older)' /\ older' \subseteq routes' \X routes' /\ TableStep
    BY <1>2, <1>5, SameKeeps
  <2>3. Agree' /\ Counts'
    BY <1>1, <2>1 DEF IInv, Agree, Counts
  <2>4. Stages'
    BY <1>1, <1>3, <1>5, <2>1, WasmKeeps DEF IInv, Stages
  <2>5. Listings'
    BY <1>5, <2>1, WasmKeeps DEF IInv, Listings
  <2>6. RoutesLive'
    BY <1>1, <2>1 DEF IInv, RoutesLive, Registered
  <2>7. TypeOK'
    <3>1. wasm4' \in [Iface -> Addr \cup {None}] /\ wasm6' \in [Iface -> SUBSET Addr]
      BY <1>5, WasmKeeps DEF IInv
    <3> QED
      BY <1>1, <2>1, <2>2, <3>1 DEF IInv, TypeOK
  <2> QED
    BY <2>2, <2>3, <2>4, <2>5, <2>6, <2>7 DEF IInv
<1> QED
  BY <1>4, <1>5 DEF AddAddress, RollBack

LEMMA RemoveAddressStep ==
  ASSUME IInv, NEW i \in Iface, NEW c \in Cidr, RemoveAddress(i, c)
  PROVE  IInv' /\ TableStep
<1>1. /\ UNCHANGED <<disposed, st, small, ra>>
      /\ i \in Attached /\ c \in listed[i]
      /\ RemoveFromWasm(i, c) /\ Release(i, NetworkOf(c))
      /\ listed' = [listed EXCEPT ![i] = @ \ {c}]
  BY DEF RemoveAddress
<1>2. /\ st \in [Iface -> Stage] /\ listed \in [Iface -> SUBSET Cidr]
      /\ refs \in [Iface -> [Network -> Nat]]
      /\ IsTable(routes, older) /\ older \subseteq routes \X routes
  BY DEF IInv, TypeOK
<1>3. st[i] \in {"attached", "partly"}
  BY <1>1 DEF Attached
<1>4. /\ refs' \in [Iface -> [Network -> Nat]]
      /\ \A j \in Iface, k \in Network :
           refs'[j][k] = refs[j][k]
                           - (IF j = i /\ k = NetworkOf(c) /\ refs[j][k] > 0 THEN 1 ELSE 0)
      /\ Agree'
      /\ IsTable(routes, older)' /\ older' \subseteq routes' \X routes' /\ TableStep
      /\ routes' \subseteq routes
  BY <1>1, CidrTypes, ReleaseKeeps DEF IInv
<1>5. /\ listed' \in [Iface -> SUBSET Cidr] /\ listed'[i] = listed[i] \ {c}
      /\ \A j \in Iface \ {i} : listed'[j] = listed[j]
  BY <1>1, <1>2
<1>6. Counts'
  <2> SUFFICES ASSUME NEW j \in Iface, NEW n \in Network
               PROVE  /\ refs'[j][n] <= Users(listed'[j], n)
                      /\ st'[j] = "attached" => refs'[j][n] = Users(listed'[j], n)
                      /\ st'[j] \notin {"attached", "partly"} => refs'[j][n] = 0
    BY DEF Counts
  <2>1. /\ refs[j][n] <= Users(listed[j], n) /\ refs[j][n] \in Nat
        /\ st[j] = "attached" => refs[j][n] = Users(listed[j], n)
        /\ st[j] \notin {"attached", "partly"} => refs[j][n] = 0
    BY <1>2 DEF IInv, Counts
  <2>2. CASE j # i
    BY <1>1, <1>4, <1>5, <2>1, <2>2
  <2>3. CASE j = i
    <3>1. Users(listed'[i], n) = Users(listed[i], n) - (IF n = NetworkOf(c) THEN 1 ELSE 0)
      BY <1>1, <1>2, <1>5, UsersDrop
    <3>2. Users(listed[i], n) \in 0 .. Cardinality(Cidr)
      BY <1>2, UsersBound
    <3>3. Users(listed'[i], n) \in 0 .. Cardinality(Cidr)
      BY <1>5, UsersBound
    <3> QED
      BY <1>1, <1>3, <1>4, <2>1, <2>3, <3>1, <3>2, <3>3
  <2> QED
    BY <2>2, <2>3
<1>7. Stages'
  BY <1>1, <1>3, <1>5, WasmKeeps DEF IInv, Stages
<1>8. Listings'
  <2> SUFFICES ASSUME NEW j \in Iface
               PROVE  /\ wasm4'[j] # None
                           => \E d \in listed'[j] : d.fam = 4 /\ d.addr = wasm4'[j]
                      /\ \A a \in wasm6'[j] : \E d \in listed'[j] : d.fam = 6 /\ d.addr = a
                      /\ \A d, e \in listed'[j] : d.fam = 4 /\ e.fam = 4 => d = e
    BY DEF Listings
  <2>1. /\ wasm4[j] # None => \E d \in listed[j] : d.fam = 4 /\ d.addr = wasm4[j]
        /\ \A a \in wasm6[j] : \E d \in listed[j] : d.fam = 6 /\ d.addr = a
        /\ \A d, e \in listed[j] : d.fam = 4 /\ e.fam = 4 => d = e
    BY DEF IInv, Listings
  <2>2. CASE j # i
    BY <1>1, <1>5, <2>1, <2>2, WasmKeeps DEF IInv
  <2>3. CASE j = i
    <3>1. CASE c.fam = 4 /\ wasm4'[i] = None /\ wasm6'[i] = wasm6[i]
      BY <1>1, <1>5, <2>1, <2>3, <3>1
    <3>2. CASE c.fam = 6 /\ wasm4'[i] = wasm4[i] /\ wasm6'[i] = wasm6[i] \ {c.addr}
      BY <1>1, <1>5, <2>1, <2>3, <3>2
    <3> QED
      BY <1>1, <3>1, <3>2, WasmKeeps DEF IInv
  <2> QED
    BY <2>2, <2>3
<1>9. RoutesLive'
  BY <1>1, <1>4 DEF IInv, RoutesLive, Registered
<1>10. TypeOK'
  <2>1. wasm4' \in [Iface -> Addr \cup {None}] /\ wasm6' \in [Iface -> SUBSET Addr]
    BY <1>1, WasmKeeps DEF IInv
  <2> QED
    BY <1>1, <1>2, <1>4, <1>5, <1>6, <2>1, TypesKeep DEF IInv, TypeOK
<1> QED
  BY <1>4, <1>6, <1>7, <1>8, <1>9, <1>10 DEF IInv

LEMMA SettingStep ==
  ASSUME IInv, NEW i \in Iface, NEW b \in BOOLEAN,
         SetMtu(i, b) \/ SetRouterAdvertisements(i, b)
  PROVE  IInv' /\ TableStep
<1>1. UNCHANGED <<disposed, st, listed, refs, wasm4, wasm6, table>>
  BY DEF SetMtu, SetRouterAdvertisements
<1>2. small \in [Iface -> BOOLEAN] /\ ra \in Iface \cup {None}
  BY DEF IInv, TypeOK
<1>3. small' \in [Iface -> BOOLEAN] /\ ra' \in Iface \cup {None}
  BY <1>2 DEF SetMtu, SetRouterAdvertisements
<1> QED
  BY <1>1, <1>3, SameTableStep

\* detach() of one interface, or of every registered one by dispose().
LEMMA DetachStep ==
  ASSUME IInv, NEW gone \in SUBSET Iface, Detach(gone), disposed' \in BOOLEAN
  PROVE  IInv' /\ TableStep
<1>1. /\ st \in [Iface -> Stage] /\ listed \in [Iface -> SUBSET Cidr]
      /\ refs \in [Iface -> [Network -> Nat]]
      /\ IsTable(routes, older) /\ older \subseteq routes \X routes
      /\ wasm4 \in [Iface -> Addr \cup {None}] /\ wasm6 \in [Iface -> SUBSET Addr]
      /\ small \in [Iface -> BOOLEAN] /\ ra \in Iface \cup {None}
  BY DEF IInv, TypeOK
<1>2. /\ st' \in [Iface -> Stage] /\ listed' \in [Iface -> SUBSET Cidr]
      /\ wasm4' \in [Iface -> Addr \cup {None}] /\ wasm6' \in [Iface -> SUBSET Addr]
      /\ small' \in [Iface -> BOOLEAN] /\ ra' \in Iface \cup {None}
  BY <1>1 DEF Detach, Stage
<1>3. refs' \in [Iface -> [Network -> Nat]]
  <2>1. [n \in Network |-> 0] \in [Network -> Nat]
    OBVIOUS
  <2> QED
    BY <1>1, <2>1 DEF Detach
<1>4. \A j \in Iface :
        /\ j \in gone => /\ st'[j] = "removed" /\ listed'[j] = {}
                         /\ wasm4'[j] = None /\ wasm6'[j] = {}
                         /\ \A n \in Network : refs'[j][n] = 0
        /\ j \notin gone => /\ st'[j] = st[j] /\ listed'[j] = listed[j] /\ refs'[j] = refs[j]
                            /\ wasm4'[j] = wasm4[j] /\ wasm6'[j] = wasm6[j]
  BY DEF Detach
<1>5. routes' = {r \in routes : r.via \notin gone} /\ Drop(RoutesOf(gone))
  BY DEF Detach, Drop, RoutesOf
<1>6. IsTable(routes, older)' /\ older' \subseteq routes' \X routes' /\ TableStep
  BY <1>1, <1>5, DropKeeps
<1>7. Agree'
  <2> SUFFICES ASSUME NEW j \in Iface, NEW n \in Network
               PROVE  Route(n, j, 0, "connected") \in routes' <=> refs'[j][n] > 0
    BY DEF Agree
  <2>1. Route(n, j, 0, "connected").via = j
    BY RouteTypes
  <2>2. Route(n, j, 0, "connected") \in routes <=> refs[j][n] > 0
    BY DEF IInv, Agree
  <2>3. CASE j \in gone
    BY <1>4, <1>5, <2>1, <2>3
  <2>4. CASE j \notin gone
    BY <1>4, <1>5, <2>1, <2>2, <2>4
  <2> QED
    BY <2>3, <2>4
<1>8. Counts'
  <2> SUFFICES ASSUME NEW j \in Iface, NEW n \in Network
               PROVE  /\ refs'[j][n] <= Users(listed'[j], n)
                      /\ st'[j] = "attached" => refs'[j][n] = Users(listed'[j], n)
                      /\ st'[j] \notin {"attached", "partly"} => refs'[j][n] = 0
    BY DEF Counts
  <2>1. CASE j \in gone
    <3>1. st'[j] = "removed" /\ refs'[j][n] = 0 /\ listed'[j] = {}
      BY <1>4, <2>1
    <3>2. Users(listed'[j], n) = 0
      BY <3>1, UsersOfFew
    <3> QED
      BY <3>1, <3>2
  <2>2. CASE j \notin gone
    BY <1>4, <2>2 DEF IInv, Counts
  <2> QED
    BY <2>1, <2>2
<1>9. Stages' /\ Listings'
  <2>1. Stages'
    BY <1>4 DEF IInv, Stages
  <2>2. Listings'
    BY <1>4 DEF IInv, Listings
  <2> QED
    BY <2>1, <2>2
<1>10. RoutesLive'
  BY <1>4, <1>5 DEF IInv, RoutesLive, Registered
<1>11. TypeOK'
  BY <1>2, <1>3, <1>6, <1>8, TypesKeep DEF IInv
<1> QED
  BY <1>6, <1>7, <1>8, <1>9, <1>10, <1>11 DEF IInv

LEMMA StepIInv ==
  ASSUME IInv, [Next]_vars
  PROVE  IInv' /\ TableStep
<1>1. CASE UNCHANGED vars
  <2>1. UNCHANGED <<disposed, st, listed, refs, wasm4, wasm6, table, small, ra>>
    BY <1>1 DEF vars, table
  <2> QED
    BY <2>1, SameTableStep DEF IInv, TypeOK
<1>2. ASSUME NEW i \in Iface,
             NEW given \in {{}} \cup {{c} : c \in {d \in Cidr : d.fam = 4}}, Create(i, given)
      PROVE  IInv' /\ TableStep
  BY <1>2, CreateStep
<1>3. ASSUME NEW i \in Iface, Attach(i)
      PROVE  IInv' /\ TableStep
  BY <1>3, AttachStep
<1>4. ASSUME NEW i \in Iface, NEW c \in Cidr, AddAddress(i, c) \/ RemoveAddress(i, c)
      PROVE  IInv' /\ TableStep
  BY <1>4, AddAddressStep, RemoveAddressStep
<1>5. ASSUME NEW i \in Iface, NEW b \in BOOLEAN,
             SetMtu(i, b) \/ SetRouterAdvertisements(i, b)
      PROVE  IInv' /\ TableStep
  BY <1>5, SettingStep
<1>6. ASSUME NEW i \in Iface, NEW dest \in Static, NEW m \in Metric,
             AddRoute(i, dest, m) \/ DisposeRoute(i, dest, m)
      PROVE  IInv' /\ TableStep
  BY <1>6, AddRouteStep, DisposeRouteStep
<1>7. ASSUME NEW i \in Iface, Remove(i)
      PROVE  IInv' /\ TableStep
  <2>1. Detach({i}) /\ disposed' \in BOOLEAN
    BY <1>7 DEF Remove, IInv, TypeOK
  <2> QED
    BY <2>1, DetachStep
<1>8. CASE Dispose
  <2>1. Detach(Registered) /\ disposed' \in BOOLEAN /\ Registered \in SUBSET Iface
    BY <1>8 DEF Dispose, Registered
  <2> QED
    BY <2>1, DetachStep
<1> QED
  BY <1>1, <1>2, <1>3, <1>4, <1>5, <1>6, <1>7, <1>8 DEF Next

LEMMA AlwaysIInv == Spec => []IInv
<1>1. IInv /\ [Next]_vars => IInv'
  BY StepIInv
<1> QED
  BY <1>1, InitIInv, PTL DEF Spec

-----------------------------------------------------------------------------
(* The properties *)

\* For every attached interface the connected routes are those of the networks
\* of its listed addresses, and the references count these addresses (also
\* TypeOK), whatever addresses come, go and fail to be added.
THEOREM RoutesFollowAddresses == Spec => []RoutesMatchAddresses
<1>1. IInv => RoutesMatchAddresses
  <2> SUFFICES ASSUME IInv, NEW i \in Iface, NEW n \in Network, st[i] = "attached"
               PROVE  /\ refs[i][n] = Cardinality(Sharing(i, n))
                      /\ Route(n, i, 0, "connected") \in routes <=> Sharing(i, n) # {}
    BY DEF IInv, RoutesMatchAddresses
  <2>1. refs[i][n] = Users(listed[i], n)
    BY DEF IInv, Counts
  <2>2. listed[i] \in SUBSET Cidr
    BY DEF IInv, TypeOK
  <2>3. /\ Users(listed[i], n) \in 0 .. Cardinality(Cidr)
        /\ Users(listed[i], n) = 0 <=> Sharing(i, n) = {}
    BY <2>2, UsersBound DEF Sharing
  <2>4. Users(listed[i], n) = Cardinality(Sharing(i, n))
    BY DEF Users, Sharing
  <2>5. Route(n, i, 0, "connected") \in routes <=> refs[i][n] > 0
    BY DEF IInv, Agree
  <2> QED
    BY <2>1, <2>3, <2>4, <2>5
<1> QED
  BY <1>1, AlwaysIInv, PTL

\* lwIP has no address that the application does not see listed, and an
\* interface at most one IPv4 address.
THEOREM AddressesAreListed == Spec => []NoUnlistedAddress
<1>1. IInv => NoUnlistedAddress
  <2> SUFFICES ASSUME IInv, NEW i \in Iface
               PROVE  /\ wasm4[i] # None => \E c \in ListedOf(i, 4) : c.addr = wasm4[i]
                      /\ \A a \in wasm6[i] : \E c \in ListedOf(i, 6) : c.addr = a
                      /\ Cardinality(ListedOf(i, 4)) <= 1
    BY DEF NoUnlistedAddress
  <2>1. listed[i] \in SUBSET Cidr
    BY DEF IInv, TypeOK
  <2>2. Cardinality(ListedOf(i, 4)) <= 1
    BY <2>1, OneOrNone DEF IInv, Listings, ListedOf
  <2> QED
    BY <2>2 DEF IInv, Listings, ListedOf
<1> QED
  BY <1>1, AlwaysIInv, PTL

\* No route leads to an interface that was removed or not yet created.
THEOREM RoutesAreLive == Spec => []RoutesLive
<1>1. IInv => RoutesLive
  BY DEF IInv
<1> QED
  BY <1>1, AlwaysIInv, PTL

\* A lookup keeps its answer while that route stays and no better one comes.
THEOREM LookupsAreStable == Spec => RouteKept
<1>1. ASSUME IInv, IInv', TableStep
      PROVE  LookupKept
  <2> SUFFICES ASSUME NEW f \in {4, 6}, NEW a \in Addr, NEW r,
                      r = Lookup(routes, older, f, a), r # None, r \in routes',
                      ~ \E s \in routes' : Matches(s, f, a) /\ Better(s, r)
               PROVE  Lookup(routes', older', f, a) = r
    BY DEF LookupKept
  <2>1. IsTable(routes, older) /\ IsTable(routes', older')
    BY <1>1 DEF IInv
  <2>2. /\ r \in routes /\ Matches(r, f, a)
        /\ \A s \in routes \ {r} : Matches(s, f, a) => Before(r, s, older)
    BY <2>1, LookupIsBest
  <2>3. ASSUME NEW s \in routes' \ {r}, Matches(s, f, a)
        PROVE  Before(r, s, older')
    <3>1. ~Better(s, r)
      BY <2>3
    <3>2. CASE s \in routes
      BY <1>1, <2>2, <2>3, <3>1, <3>2 DEF Before, TableStep
    <3>3. CASE s \notin routes
      BY <1>1, <2>2, <2>3, <3>1, <3>3 DEF Before, TableStep
    <3> QED
      BY <3>2, <3>3
  <2> QED
    BY <2>1, <2>2, <2>3, BestIsLookup
<1>2. IInv /\ [Next]_vars => LookupKept
  BY <1>1, StepIInv
<1>3. IInv /\ [Next]_vars => [LookupKept]_vars
  BY <1>2
<1> QED
  BY <1>3, AlwaysIInv, PTL DEF Spec, RouteKept

=============================================================================
