-------------------------- MODULE DhcpServer_proofs -------------------------
(* Proofs of the safety properties of DhcpServer, for any set of clients,   *)
(* any lease range and any durations.                                       *)
EXTENDS DhcpServer, WellFoundedInduction, TLAPS

\* The loop of findAvailableIP stops at a free address whenever there is one.
LEMMA FirstFreeIsFree ==
  ASSUME NEW L, NEW O
  PROVE  \/ FirstFree(L, O) \in Range \ UsedIPs(L, O)
         \/ FirstFree(L, O) = NoIP /\ Range \subseteq UsedIPs(L, O)
<1> DEFINE free == Range \ UsedIPs(L, O)
           less == OpToRel(<, Nat)
<1>1. CASE free = {}
  BY <1>1 DEF FirstFree
<1>2. CASE free # {}
  <2>1. free \subseteq Nat
    BY DhcpConstants DEF Range
  <2>2. IsWellFoundedOn(less, Nat)
    BY NatLessThanWellFounded
  <2>3. PICK x \in free : \A y \in free : ~(<<y, x>> \in less)
    <3> HIDE DEF free, less
    <3> QED BY <1>2, <2>1, <2>2, WFMin
  <2>4. \A y \in free : x <= y
    <3> SUFFICES ASSUME NEW y \in free PROVE x <= y
      OBVIOUS
    <3>1. x \in Nat /\ y \in Nat
      BY <2>1, <2>3
    <3>2. ~(y < x)
      BY <2>3, <3>1 DEF OpToRel
    <3> HIDE DEF free
    <3> QED BY <3>1, <3>2
  <2>5. (CHOOSE ip \in free : \A j \in free : ip <= j) \in free
    BY <2>3, <2>4
  <2> QED BY <1>2, <2>5 DEF FirstFree
<1> QED BY <1>1, <1>2

-----------------------------------------------------------------------------
(* Both maps only ever hold allocations in the range, so each handler leaves *)
(* at most its own client's two entries changed.                            *)

LEMMA PurgedType ==
  ASSUME NEW tab \in [Mac -> Allocation \cup {None}], NEW t \in Int
  PROVE  /\ Purged(tab, t) \in [Mac -> Allocation \cup {None}]
         /\ \A m \in Mac : Purged(tab, t)[m] \in {tab[m], None}
BY DEF Purged

\* The address offered is the client's own, or one that nobody holds.
LEMMA FoundIP ==
  ASSUME NEW L \in [Mac -> Allocation \cup {None}],
         NEW O \in [Mac -> Allocation \cup {None}],
         NEW m \in Mac, NEW seen \in Int,
         FindAvailableIP(m, L, O, seen) # NoIP
  PROVE  /\ FindAvailableIP(m, L, O, seen) \in Range
         /\ \/ Holds(L, m, FindAvailableIP(m, L, O, seen))
            \/ Holds(O, m, FindAvailableIP(m, L, O, seen))
            \/ FindAvailableIP(m, L, O, seen) \notin UsedIPs(L, O)
<1>1. CASE Live(L[m], seen)
  BY <1>1 DEF FindAvailableIP, Live, Holds, Allocation
<1>2. CASE ~Live(L[m], seen) /\ Live(O[m], seen)
  BY <1>2 DEF FindAvailableIP, Live, Holds, Allocation
<1>3. CASE ~Live(L[m], seen) /\ ~Live(O[m], seen)
  BY <1>3, FirstFreeIsFree DEF FindAvailableIP
<1> QED BY <1>1, <1>2, <1>3

\* What one step does, whichever handler ran: the entries of the clients
\* that did not send the datagram are kept or dropped.
LEMMA TypeInductive == TypeOK /\ [Next]_vars => TypeOK'
<1> SUFFICES ASSUME TypeOK, [Next]_vars PROVE TypeOK'
  OBVIOUS
<1> DEFINE L == Purged(leases, now)
           O == Purged(offers, now)
<1>a. /\ L \in [Mac -> Allocation \cup {None}]
      /\ O \in [Mac -> Allocation \cup {None}]
  BY PurgedType DEF TypeOK
<1>1. ASSUME NEW m \in Mac, NEW seen \in now .. now + MaxDrift,
             NEW stamp \in now .. now + MaxDrift, HandleDiscover(m, seen, stamp)
      PROVE  TypeOK'
  <2> DEFINE ip == FindAvailableIP(m, L, O, seen)
  <2>1. seen \in Int /\ stamp \in Int /\ stamp + OfferDuration \in Int
    BY DhcpConstants DEF TypeOK
  <2>2. CASE ip = NoIP
    BY <1>1, <1>a, <2>1, <2>2 DEF HandleDiscover, TypeOK, Handled, Kind, Reply
  <2>3. CASE ip # NoIP
    <3>1. ip \in Range
      BY <1>a, <2>1, <2>3, FoundIP
    <3>2. /\ leases' = L /\ now' = stamp
          /\ offers' = [O EXCEPT ![m] = [ip |-> ip, expiresAt |-> stamp + OfferDuration]]
          /\ last' = [type |-> "DISCOVER", mac |-> m,
                     reply |-> [type |-> "OFFER", yiaddr |-> ip]]
      BY <1>1, <2>3 DEF HandleDiscover, Handled
    <3> HIDE DEF ip, L, O
    <3>3. [ip |-> ip, expiresAt |-> stamp + OfferDuration] \in Allocation
      BY <2>1, <3>1 DEF Allocation
    <3> QED BY <1>a, <2>1, <3>1, <3>2, <3>3 DEF TypeOK, Kind, Reply
  <2> QED BY <2>2, <2>3
<1>2. ASSUME NEW m \in Mac, NEW seen \in now .. now + MaxDrift,
             NEW stamp \in now .. now + MaxDrift,
             NEW ip \in Requestable \cup {NoIP}, NEW forUs \in BOOLEAN,
             HandleRequest(m, ip, forUs, seen, stamp)
      PROVE  TypeOK'
  <2>1. stamp \in Int /\ stamp + LeaseDuration \in Int /\ now' = stamp
    BY <1>2, DhcpConstants DEF TypeOK, HandleRequest
  <2>2. CASE CanUseRequestedIP(ip, m, L, O, seen) /\ ip # NoIP /\ forUs
    <3>1. /\ leases' = [L EXCEPT ![m] = [ip |-> ip, expiresAt |-> stamp + LeaseDuration]]
          /\ offers' = [O EXCEPT ![m] = None]
          /\ last' = [type |-> "REQUEST", mac |-> m,
                     reply |-> [type |-> "ACK", yiaddr |-> ip]]
          /\ ip \in Range
      BY <1>2, <2>2 DEF HandleRequest, Handled, CanUseRequestedIP
    <3>2. [ip |-> ip, expiresAt |-> stamp + LeaseDuration] \in Allocation
      BY <2>1, <3>1 DEF Allocation
    <3> HIDE DEF L, O
    <3> QED BY <1>a, <2>1, <3>1, <3>2 DEF TypeOK, Kind, Reply
  <2>3. CASE ~(CanUseRequestedIP(ip, m, L, O, seen) /\ ip # NoIP /\ forUs)
    <3>1. /\ leases' = L
          /\ offers' \in {O, [O EXCEPT ![m] = None]}
          /\ last' \in {[type |-> "REQUEST", mac |-> m, reply |-> None],
                       [type |-> "REQUEST", mac |-> m, reply |-> Nak]}
      BY <1>2, <2>3 DEF HandleRequest, Handled
    <3> HIDE DEF L, O
    <3> QED BY <1>a, <2>1, <3>1 DEF TypeOK, Kind, Reply, Nak
  <2> QED BY <2>2, <2>3
<1>3. ASSUME NEW m \in Mac, HandleRelease(m) PROVE TypeOK'
  BY <1>3 DEF HandleRelease, Handled, TypeOK, Kind, Reply
<1>4. ASSUME NEW m \in Mac, NEW ciaddr \in BOOLEAN, HandleInform(m, ciaddr)
      PROVE  TypeOK'
  BY <1>4 DEF HandleInform, Handled, TypeOK, Kind, Reply
<1>5. ASSUME NEW m \in Mac, HandleDecline(m) PROVE TypeOK'
  BY <1>5 DEF HandleDecline, Handled, TypeOK, Kind, Reply
<1>6. CASE Tick
  BY <1>6 DEF Tick, TypeOK
<1>7. CASE UNCHANGED vars
  BY <1>7 DEF vars, TypeOK
<1> QED BY <1>1, <1>2, <1>3, <1>4, <1>5, <1>6, <1>7 DEF Next

\* The maps of the server always have their types (dhcp-server.ts:72-73).
THEOREM TypeCorrect == Spec => []TypeOK
<1>1. Init => TypeOK
  BY DEF Init, TypeOK, Kind, Reply
<1> QED BY <1>1, TypeInductive, PTL DEF Spec

-----------------------------------------------------------------------------
(* Exclusive allocation.  Seen from the outside, a step removes entries, and *)
(* lets one client hold one more address only if nobody else held it.       *)

\* Removing entries of the two maps.
Shrunk(L, O) ==
  \A m \in Mac : L[m] \in {leases[m], None} /\ O[m] \in {offers[m], None}

\* One client's entries are replaced: each new address was its own or unused.
LEMMA ReplaceKeepsExclusive ==
  ASSUME TypeOK, TypeOK', OneHolder, NEW m \in Mac,
         NEW L, NEW O, Shrunk(L, O),
         \A h \in Mac \ {m} : leases'[h] = L[h] /\ offers'[h] = O[h],
         \A ip \in Range :
           Allocated(m, ip)' => \A h \in Mac \ {m} : ~Holds(L, h, ip) /\ ~Holds(O, h, ip)
  PROVE  OneHolder'
<1> SUFFICES ASSUME NEW m1 \in Mac, NEW m2 \in Mac, NEW ip \in Range,
                    Allocated(m1, ip)', Allocated(m2, ip)'
             PROVE  m1 = m2
  BY DEF OneHolder
<1>1. \A h \in Mac \ {m} : Allocated(h, ip)' => Holds(L, h, ip) \/ Holds(O, h, ip)
  BY DEF Allocated, Holds
<1>2. \A h \in Mac : Holds(L, h, ip) \/ Holds(O, h, ip) => Allocated(h, ip)
  BY DEF Allocated, Holds, Shrunk
<1>3. CASE m1 = m \/ m2 = m
  BY <1>1, <1>3
<1>4. CASE m1 # m /\ m2 # m
  BY <1>1, <1>2, <1>4 DEF OneHolder
<1> QED BY <1>3, <1>4

LEMMA PurgedShrinks ==
  ASSUME TypeOK PROVE Shrunk(Purged(leases, now), Purged(offers, now))
BY PurgedType DEF Shrunk, TypeOK

\* In a purged state too, no two clients hold one address.
LEMMA PurgedExclusive ==
  ASSUME TypeOK, OneHolder, NEW L, NEW O, Shrunk(L, O),
         NEW m \in Mac, NEW ip \in Range, Holds(L, m, ip) \/ Holds(O, m, ip)
  PROVE  \A h \in Mac \ {m} : ~Holds(L, h, ip) /\ ~Holds(O, h, ip)
BY DEF Shrunk, OneHolder, Allocated, Holds

\* What a requested address may be: the client's own, or nobody's.
LEMMA RequestedIsOwn ==
  ASSUME TypeOK, OneHolder, NEW L, NEW O, Shrunk(L, O),
         NEW m \in Mac, NEW want, NEW seen, CanUseRequestedIP(want, m, L, O, seen)
  PROVE  \A h \in Mac \ {m} : ~Holds(L, h, want) /\ ~Holds(O, h, want)
<1>1. want \in Range
  BY DEF CanUseRequestedIP
<1>2. CASE \E h \in Mac : Holds(L, h, want)
  <2>1. Holds(L, m, want)
    BY <1>2 DEF CanUseRequestedIP
  <2> QED BY <1>1, <2>1, PurgedExclusive
<1>3. CASE ~\E h \in Mac : Holds(L, h, want)
  BY <1>3 DEF CanUseRequestedIP
<1> QED BY <1>2, <1>3

LEMMA ExclusiveInductive ==
  TypeOK /\ TypeOK' /\ OneHolder /\ [Next]_vars => OneHolder'
<1> SUFFICES ASSUME TypeOK, TypeOK', OneHolder, [Next]_vars
             PROVE  OneHolder'
  OBVIOUS
<1> DEFINE L == Purged(leases, now)
           O == Purged(offers, now)
<1>a. /\ L \in [Mac -> Allocation \cup {None}]
      /\ O \in [Mac -> Allocation \cup {None}]
      /\ Shrunk(L, O)
  BY PurgedType, PurgedShrinks DEF TypeOK
<1>1. ASSUME NEW m \in Mac, NEW seen \in now .. now + MaxDrift,
             NEW stamp \in now .. now + MaxDrift, HandleDiscover(m, seen, stamp)
      PROVE  OneHolder'
  <2> DEFINE found == FindAvailableIP(m, L, O, seen)
  <2>1. /\ leases' = L
        /\ \/ found = NoIP /\ offers' = O
           \/ /\ found # NoIP
              /\ offers' = [O EXCEPT ![m] = [ip |-> found, expiresAt |-> stamp + OfferDuration]]
    BY <1>1 DEF HandleDiscover
  <2>2. found # NoIP => \A h \in Mac \ {m} : ~Holds(L, h, found) /\ ~Holds(O, h, found)
    <3> SUFFICES ASSUME found # NoIP
                 PROVE  \A h \in Mac \ {m} : ~Holds(L, h, found) /\ ~Holds(O, h, found)
      OBVIOUS
    <3>1. /\ found \in Range
          /\ Holds(L, m, found) \/ Holds(O, m, found) \/ found \notin UsedIPs(L, O)
      <4> seen \in Int BY DhcpConstants DEF TypeOK
      <4> QED BY <1>a, FoundIP
    <3> HIDE DEF found, L, O
    <3>2. CASE Holds(L, m, found) \/ Holds(O, m, found)
      BY <1>a, <3>1, <3>2, PurgedExclusive
    <3>3. CASE found \notin UsedIPs(L, O)
      BY <3>1, <3>3 DEF UsedIPs
    <3> QED BY <3>1, <3>2, <3>3
  <2> HIDE DEF found, L, O
  <2>3. \A h \in Mac \ {m} : leases'[h] = L[h] /\ offers'[h] = O[h]
    BY <1>a, <2>1
  <2>4. ASSUME NEW ip \in Range, Allocated(m, ip)'
        PROVE  \A h \in Mac \ {m} : ~Holds(L, h, ip) /\ ~Holds(O, h, ip)
    <3>1. Holds(L, m, ip) \/ Holds(O, m, ip) \/ (found # NoIP /\ ip = found)
      BY <1>a, <2>1, <2>4 DEF Allocated, Holds
    <3> QED BY <1>a, <2>2, <3>1, PurgedExclusive
  <2> QED BY <1>a, <2>3, <2>4, ReplaceKeepsExclusive
<1>2. ASSUME NEW m \in Mac, NEW seen \in now .. now + MaxDrift,
             NEW stamp \in now .. now + MaxDrift,
             NEW want \in Requestable \cup {NoIP}, NEW forUs \in BOOLEAN,
             HandleRequest(m, want, forUs, seen, stamp)
      PROVE  OneHolder'
  <2>1. CASE want # NoIP /\ forUs /\ CanUseRequestedIP(want, m, L, O, seen)
    <3>1. /\ leases' = [L EXCEPT ![m] = [ip |-> want, expiresAt |-> stamp + LeaseDuration]]
          /\ offers' = [O EXCEPT ![m] = None]
          /\ want \in Range
      BY <1>2, <2>1 DEF HandleRequest, CanUseRequestedIP
    <3>2. \A h \in Mac \ {m} : ~Holds(L, h, want) /\ ~Holds(O, h, want)
      BY <1>a, <2>1, RequestedIsOwn
    <3> HIDE DEF L, O
    <3>3. \A h \in Mac \ {m} : leases'[h] = L[h] /\ offers'[h] = O[h]
      BY <1>a, <3>1
    <3>4. \A ip \in Range : Allocated(m, ip)' => ip = want
      BY <1>a, <3>1 DEF Allocated, Holds
    <3> QED BY <1>a, <3>2, <3>3, <3>4, ReplaceKeepsExclusive
  <2>2. CASE ~(want # NoIP /\ forUs /\ CanUseRequestedIP(want, m, L, O, seen))
    <3>1. leases' = L /\ offers' \in {O, [O EXCEPT ![m] = None]}
      BY <1>2, <2>2 DEF HandleRequest
    <3> HIDE DEF L, O
    <3>2. \A h \in Mac \ {m} : leases'[h] = L[h] /\ offers'[h] = O[h]
      BY <1>a, <3>1
    <3>3. \A ip \in Range : Allocated(m, ip)' => Holds(L, m, ip) \/ Holds(O, m, ip)
      BY <1>a, <3>1 DEF Allocated, Holds
    <3> QED BY <1>a, <3>2, <3>3, PurgedExclusive, ReplaceKeepsExclusive
  <2> QED BY <2>1, <2>2
<1>3. ASSUME NEW m \in Mac, HandleRelease(m) \/ HandleDecline(m)
      PROVE  OneHolder'
  BY <1>3 DEF HandleRelease, HandleDecline, TypeOK, OneHolder, Allocated, Holds
<1>4. ASSUME UNCHANGED <<leases, offers>> PROVE OneHolder'
  BY <1>4 DEF OneHolder, Allocated, Holds
<1> QED
  BY <1>1, <1>2, <1>3, <1>4 DEF Next, Tick, HandleInform, vars

\* No address is ever allocated to two clients at once (dhcp-server.ts:310-319).
THEOREM AddressesExclusive == Spec => []ExclusiveAddress
<1>1. Init => OneHolder
  BY DEF Init, OneHolder, Allocated, Holds
<1>2. ExclusiveAddress <=> TypeOK /\ OneHolder
  BY DEF ExclusiveAddress
<1> QED BY <1>1, <1>2, ExclusiveInductive, TypeCorrect, PTL DEF Spec

-----------------------------------------------------------------------------
(* What one step does to the entries of the clients that did not ask.       *)

\* Client h's two entries are as before, or as a purge left them.
Kept(h) ==
  \/ leases'[h] = leases[h] /\ offers'[h] = offers[h]
  \/ leases'[h] = Purged(leases, now)[h] /\ offers'[h] = Purged(offers, now)[h]

\* A lease that is not over keeps its entry, except in a REQUEST or a RELEASE
\* of its own client.
LEMMA LeaseStep ==
  ASSUME TypeOK, [Next]_vars, NEW m \in Mac, Live(leases[m], now'), leases'[m] # leases[m]
  PROVE  last'.mac = m /\ last'.type \in {"REQUEST", "RELEASE"}
<1> DEFINE L == Purged(leases, now)
<1>1. /\ L \in [Mac -> Allocation \cup {None}] /\ now \in Int
      /\ leases \in [Mac -> Allocation \cup {None}]
  BY PurgedType DEF TypeOK
<1>2. ASSUME now' \in Int, now <= now' PROVE L[m] = leases[m]
  <2>1. leases[m].expiresAt \in Int /\ leases[m] # None
    BY <1>1 DEF Allocation, Live
  <2>2. Live(leases[m], now)
    BY <1>1, <1>2, <2>1 DEF Live
  <2> QED BY <2>2 DEF Purged
<1>3. ASSUME NEW h \in Mac, NEW seen \in now .. now + MaxDrift,
             NEW stamp \in now .. now + MaxDrift,
             HandleDiscover(h, seen, stamp)
      PROVE  FALSE
  <2>1. leases' = L /\ now' = stamp
    BY <1>3 DEF HandleDiscover
  <2>2. now' \in Int /\ now <= now'
    BY <1>1, <1>3, <2>1, DhcpConstants
  <2> QED BY <1>2, <2>1, <2>2
<1>4. ASSUME NEW h \in Mac, NEW seen \in now .. now + MaxDrift,
             NEW stamp \in now .. now + MaxDrift,
             NEW ip \in Requestable \cup {NoIP}, NEW forUs \in BOOLEAN,
             HandleRequest(h, ip, forUs, seen, stamp)
      PROVE  last'.mac = m /\ last'.type = "REQUEST"
  <2>1. /\ now' = stamp /\ last'.mac = h /\ last'.type = "REQUEST"
        /\ leases' \in {L, [L EXCEPT ![h] = [ip |-> ip, expiresAt |-> stamp + LeaseDuration]]}
    BY <1>4 DEF HandleRequest, Handled
  <2>2. now' \in Int /\ now <= now'
    BY <1>1, <1>4, <2>1, DhcpConstants
  <2> HIDE DEF L
  <2>3. m # h => leases'[m] = L[m]
    BY <1>1, <2>1
  <2>4. leases' = L => leases'[m] = L[m]
    OBVIOUS
  <2> QED BY <1>2, <2>1, <2>2, <2>3, <2>4
<1>5. ASSUME NEW h \in Mac, HandleRelease(h) PROVE last'.mac = m /\ last'.type = "RELEASE"
  BY <1>1, <1>5 DEF HandleRelease, Handled
<1>6. CASE UNCHANGED leases
  BY <1>6
<1> QED BY <1>3, <1>4, <1>5, <1>6 DEF Next, Tick, HandleInform, HandleDecline, vars

\* A lease that is not over ends or moves only by a REQUEST or RELEASE of its
\* own client (dhcp-server.ts:194-298): no other datagram takes it away.
THEOREM LeasesAreStable == Spec => LeaseStable
<1>1. TypeOK /\ [Next]_vars =>
        [\A m \in Mac : Live(leases[m], now') /\ leases'[m] # leases[m]
                          => last'.mac = m /\ last'.type \in {"REQUEST", "RELEASE"}]_vars
  BY LeaseStep
<1> QED BY <1>1, TypeCorrect, PTL DEF Spec, LeaseStable

\* An unanswered DISCOVER found no address of its own and none that is free.
LEMMA SilentStep ==
  ASSUME TypeOK, [Next]_vars, last'.type = "DISCOVER", last'.reply = None, last' # last,
         NEW ip \in Range
  PROVE  \E h \in Mac :
           \/ Holds(leases, h, ip) /\ Live(leases[h], now) /\ (h = last'.mac => ~Live(leases[h], now'))
           \/ Holds(offers, h, ip) /\ Live(offers[h], now) /\ (h = last'.mac => ~Live(offers[h], now'))
<1> DEFINE L == Purged(leases, now)
           O == Purged(offers, now)
<1>1. PICK m \in Mac, seen \in now .. now + MaxDrift, stamp \in now .. now + MaxDrift :
        HandleDiscover(m, seen, stamp)
  BY DEF Next, HandleRequest, HandleRelease, HandleInform, HandleDecline, Handled, Tick, vars
<1>2. /\ L \in [Mac -> Allocation \cup {None}] /\ O \in [Mac -> Allocation \cup {None}]
      /\ now \in Int /\ seen \in Int /\ stamp \in Int /\ seen <= stamp /\ now' = stamp
  BY <1>1, PurgedType, DhcpConstants DEF TypeOK, HandleDiscover
<1>3. /\ FindAvailableIP(m, L, O, seen) = NoIP /\ last'.mac = m
  <2>1. CASE FindAvailableIP(m, L, O, seen) = NoIP
    BY <1>1, <2>1 DEF HandleDiscover, Handled
  <2>2. CASE FindAvailableIP(m, L, O, seen) # NoIP
    <3>1. last'.reply = [type |-> "OFFER", yiaddr |-> FindAvailableIP(m, L, O, seen)]
      BY <1>1, <2>2 DEF HandleDiscover, Handled
    <3>2. FindAvailableIP(m, L, O, seen) \in Range
      BY <1>2, <2>2, FoundIP
    <3>3. FindAvailableIP(m, L, O, seen) \in Int
      BY <3>2, DhcpConstants DEF Range
    <3>4. last'.reply \in [type : {"OFFER"}, yiaddr : Int]
      BY <3>1, <3>3
    <3> QED BY <3>4, DhcpConstants
  <2> QED BY <2>1, <2>2
<1>4. NoIP \notin Range /\ \A e \in Allocation : e.ip \in Range /\ e.expiresAt \in Int
  BY DhcpConstants DEF Range, Allocation
<1>5. ~Live(L[m], seen) /\ ~Live(O[m], seen) /\ FirstFree(L, O) = NoIP
  BY <1>2, <1>3, <1>4 DEF FindAvailableIP, Live
<1>6. PICK h \in Mac : Holds(L, h, ip) \/ Holds(O, h, ip)
  BY <1>4, <1>5, FirstFreeIsFree DEF UsedIPs
<1>7. /\ Holds(L, h, ip) => L[h] = leases[h] /\ Live(leases[h], now)
      /\ Holds(O, h, ip) => O[h] = offers[h] /\ Live(offers[h], now)
  BY DEF Holds, Purged
<1>8. \A e \in Allocation \cup {None} : ~Live(e, seen) => ~Live(e, stamp)
  BY <1>2, <1>4 DEF Live
<1> HIDE DEF L, O
<1>9. CASE Holds(L, h, ip)
  <2>1. h = m => ~Live(leases[h], now')
    BY <1>2, <1>5, <1>7, <1>8, <1>9
  <2> QED BY <1>3, <1>7, <1>9, <2>1 DEF Holds
<1>10. CASE Holds(O, h, ip)
  <2>1. h = m => ~Live(offers[h], now')
    BY <1>2, <1>5, <1>7, <1>8, <1>10
  <2> QED BY <1>3, <1>7, <1>10, <2>1 DEF Holds
<1> QED BY <1>6, <1>9, <1>10

\* A DISCOVER stays unanswered only when every address was held, unexpired,
\* when it arrived (dhcp-server.ts:134-192).
THEOREM SilentMeansExhausted == Spec => SilentOnlyWhenExhausted
<1>1. TypeOK /\ [Next]_vars =>
        [last'.type = "DISCOVER" /\ last'.reply = None /\ last' # last
           => \A ip \in Range : \E h \in Mac :
                \/ Holds(leases, h, ip) /\ Live(leases[h], now) /\ (h = last'.mac => ~Live(leases[h], now'))
                \/ Holds(offers, h, ip) /\ Live(offers[h], now) /\ (h = last'.mac => ~Live(offers[h], now'))]_vars
  BY SilentStep
<1> QED BY <1>1, TypeCorrect, PTL DEF Spec, SilentOnlyWhenExhausted

-----------------------------------------------------------------------------
(* The server implements AddressPool.                                       *)

\* Whoever holds an address is the owner of its grant.
LEMMA GrantOfHolder ==
  ASSUME OneHolder, NEW m \in Mac, NEW ip \in Range, Allocated(m, ip)
  PROVE  GrantOf(ip) = [owner |-> m, until |-> Until(m, ip)]
<1>1. \A h \in Mac : Allocated(h, ip) => h = m
  BY DEF OneHolder
<1>2. Holder(ip) = m
  BY <1>1 DEF Holder
<1> QED BY <1>2 DEF GrantOf

\* A grant runs until the expiry of one of its entries, the later one.
LEMMA UntilType ==
  ASSUME TypeOK, NEW m \in Mac, NEW ip \in Range, Allocated(m, ip)
  PROVE  /\ Until(m, ip) \in Int
         /\ Holds(leases, m, ip) => leases[m].expiresAt \in Int /\ leases[m].expiresAt <= Until(m, ip)
         /\ Holds(offers, m, ip) => offers[m].expiresAt \in Int /\ offers[m].expiresAt <= Until(m, ip)
         /\ \/ Holds(leases, m, ip) /\ Until(m, ip) = leases[m].expiresAt
            \/ Holds(offers, m, ip) /\ Until(m, ip) = offers[m].expiresAt
<1>1. /\ leases[m] # None => leases[m].expiresAt \in Int
      /\ offers[m] # None => offers[m].expiresAt \in Int
  BY DEF TypeOK, Allocation
<1> QED BY <1>1 DEF Until, Allocated, Holds

\* A client that did not ask keeps its grant, until the same time, or loses it
\* once it has run out.
LEMMA GrantKept ==
  ASSUME TypeOK, TypeOK', NEW h \in Mac, NEW ip \in Range, Kept(h), Allocated(h, ip)
  PROVE  \/ Allocated(h, ip)' /\ Until(h, ip)' = Until(h, ip)
         \/ ~Allocated(h, ip)' /\ Until(h, ip) <= now
<1>1. /\ leases[h] # None => leases[h].expiresAt \in Int
      /\ offers[h] # None => offers[h].expiresAt \in Int
      /\ now \in Int
  BY DEF TypeOK, Allocation
<1>2. CASE leases'[h] = leases[h] /\ offers'[h] = offers[h]
  BY <1>2 DEF Allocated, Holds, Until
<1>3. CASE leases'[h] = Purged(leases, now)[h] /\ offers'[h] = Purged(offers, now)[h]
  <2>1. /\ leases[h] # None /\ leases[h].expiresAt > now => leases'[h] = leases[h]
        /\ ~(leases[h] # None /\ leases[h].expiresAt > now) => leases'[h] = None
        /\ offers[h] # None /\ offers[h].expiresAt > now => offers'[h] = offers[h]
        /\ ~(offers[h] # None /\ offers[h].expiresAt > now) => offers'[h] = None
    BY <1>3 DEF Purged, Live
  <2> QED BY <1>1, <2>1 DEF Allocated, Holds, Until
<1> QED BY <1>2, <1>3 DEF Kept

\* A step in which client m's entries change and the others' are kept or
\* purged is a step of m on the pool.
LEMMA PoolStep ==
  ASSUME TypeOK, TypeOK', OneHolder, OneHolder', NEW m \in Mac, NEW new,
         now <= now', \A h \in Mac \ {m} : Kept(h),
         \A ip \in Range : Allocated(m, ip)' => Allocated(m, ip) \/ (ip = new /\ Until(m, ip)' > now')
  PROVE  Pool!Act(m)
<1>1. now \in Int /\ now' \in Int
  BY DEF TypeOK
<1>2. \A ip \in Range : (\A h \in Mac : ~Allocated(h, ip)) => GrantOf(ip) = None
  BY DEF GrantOf
<1>3. \A ip \in Range : (\A h \in Mac : ~Allocated(h, ip)') => GrantOf(ip)' = None
  BY DEF GrantOf
<1>4. \A h \in Mac, ip \in Range : Allocated(h, ip) =>
        GrantOf(ip) = [owner |-> h, until |-> Until(h, ip)] /\ Until(h, ip) \in Int
  BY GrantOfHolder, UntilType
<1>5. \A h \in Mac, ip \in Range : Allocated(h, ip)' =>
        GrantOf(ip)' = [owner |-> h, until |-> Until(h, ip)'] /\ Until(h, ip)' \in Int
  <2> SUFFICES ASSUME NEW h \in Mac, NEW ip \in Range, Allocated(h, ip)'
               PROVE  GrantOf(ip)' = [owner |-> h, until |-> Until(h, ip)'] /\ Until(h, ip)' \in Int
    OBVIOUS
  <2>1. \A g \in Mac : Allocated(g, ip)' => g = h
    BY DEF OneHolder
  <2>2. Holder(ip)' = h
    BY <2>1 DEF Holder
  <2>3. GrantOf(ip)' = [owner |-> h, until |-> Until(h, ip)']
    BY <2>2 DEF GrantOf
  <2>4. /\ leases'[h] # None => leases'[h].expiresAt \in Int
        /\ offers'[h] # None => offers'[h].expiresAt \in Int
    BY DEF TypeOK, Allocation
  <2>5. Until(h, ip)' \in Int
    BY <2>4 DEF Until, Allocated, Holds
  <2> QED BY <2>3, <2>5
<1>6. \A h \in Mac, u \in Int : [owner |-> h, until |-> u] # None
  BY DhcpConstants
<1>7. \A h \in Mac \ {m}, ip \in Range : Allocated(h, ip)' => Allocated(h, ip)
  <2>1. \A h \in Mac : Purged(leases, now)[h] \in {leases[h], None} /\ Purged(offers, now)[h] \in {offers[h], None}
    BY PurgedType DEF TypeOK
  <2> QED BY <2>1 DEF Kept, Allocated, Holds
<1>8. \A g, h \in Mac, ip \in Range : Allocated(g, ip) /\ Allocated(h, ip) => g = h
  BY DEF OneHolder
<1>9. \A g, h \in Mac, ip \in Range : Allocated(g, ip)' /\ Allocated(h, ip)' => g = h
  BY DEF OneHolder
\* What happens to one address.
<1>10. ASSUME NEW ip \in Range
       PROVE  \/ GrantOf(ip)' = GrantOf(ip)
              \/ /\ \/ GrantOf(ip) = None \/ GrantOf(ip).owner = m \/ GrantOf(ip).until <= now'
                 /\ \/ GrantOf(ip)' = None
                    \/ GrantOf(ip)' # None /\ (GrantOf(ip)').owner = m
  <2>1. ASSUME NEW h \in Mac \ {m}, Allocated(h, ip)
        PROVE  \/ GrantOf(ip)' = GrantOf(ip)
               \/ ~Allocated(h, ip)' /\ GrantOf(ip).until <= now'
    <3>1. CASE Allocated(h, ip)' /\ Until(h, ip)' = Until(h, ip)
      BY <1>4, <1>5, <2>1, <3>1
    <3>2. CASE ~Allocated(h, ip)' /\ Until(h, ip) <= now
      <4>1. GrantOf(ip).until = Until(h, ip) /\ Until(h, ip) \in Int
        BY <1>4, <2>1
      <4> QED BY <1>1, <3>2, <4>1
    <3> QED BY <2>1, <3>1, <3>2, GrantKept
  <2>2. CASE \E h \in Mac \ {m} : Allocated(h, ip)'
    <3>1. PICK h \in Mac \ {m} : Allocated(h, ip)'
      BY <2>2
    <3> QED BY <1>7, <2>1, <3>1
  <2>3. CASE \A h \in Mac \ {m} : ~Allocated(h, ip)'
    <3>1. GrantOf(ip)' = None \/ (GrantOf(ip)' # None /\ (GrantOf(ip)').owner = m)
      <4>1. CASE Allocated(m, ip)'
        BY <1>5, <1>6, <4>1
      <4>2. CASE ~Allocated(m, ip)'
        BY <1>3, <2>3, <4>2
      <4> QED BY <4>1, <4>2
    <3>2. \/ GrantOf(ip)' = GrantOf(ip)
          \/ GrantOf(ip) = None \/ GrantOf(ip).owner = m \/ GrantOf(ip).until <= now'
      <4>1. CASE \A h \in Mac : ~Allocated(h, ip)
        BY <1>2, <4>1
      <4>2. CASE Allocated(m, ip)
        BY <1>4, <4>2
      <4>3. CASE \E h \in Mac \ {m} : Allocated(h, ip)
        BY <2>1, <4>3
      <4> QED BY <4>1, <4>2, <4>3
    <3> QED BY <3>1, <3>2
  <2> QED BY <2>2, <2>3
\* What the client gained.
<1>11. ASSUME NEW ip \in Range, GrantOf(ip)' # None, (GrantOf(ip)').owner = m,
              ~(GrantOf(ip) # None /\ GrantOf(ip).owner = m)
       PROVE  ip = new /\ (GrantOf(ip)').until > now'
  <2>1. PICK h \in Mac : Allocated(h, ip)'
    BY <1>3, <1>11
  <2>2. h = m
    BY <1>5, <1>11, <2>1
  <2>3. ~Allocated(m, ip)
    BY <1>4, <1>6, <1>11
  <2> QED BY <1>5, <2>1, <2>2, <2>3
<1>12. \A ip \in Range : /\ [j \in Range |-> GrantOf(j)][ip] = GrantOf(ip)
                         /\ [j \in Range |-> GrantOf(j)]'[ip] = GrantOf(ip)'
  OBVIOUS
<1> QED BY <1>10, <1>11, <1>12 DEF Pool!Act, Pool!Available, Pool!OwnedBy, Pool!Gained

LEMMA PoolInductive ==
  TypeOK /\ TypeOK' /\ OneHolder /\ OneHolder' /\ [Next]_vars
    => [Pool!PoolNext]_(Pool!poolVars)
<1> SUFFICES ASSUME TypeOK, TypeOK', OneHolder, OneHolder', [Next]_vars
             PROVE  Pool!PoolNext \/ UNCHANGED Pool!poolVars
  OBVIOUS
<1> DEFINE L == Purged(leases, now)
           O == Purged(offers, now)
<1>a. /\ L \in [Mac -> Allocation \cup {None}] /\ O \in [Mac -> Allocation \cup {None}]
      /\ leases \in [Mac -> Allocation \cup {None}] /\ offers \in [Mac -> Allocation \cup {None}]
      /\ Shrunk(L, O)
      /\ now \in Int
  BY PurgedType, PurgedShrinks DEF TypeOK
<1>b. \A m \in Mac, ip \in Range : Holds(L, m, ip) \/ Holds(O, m, ip) => Allocated(m, ip)
  BY <1>a DEF Shrunk, Holds, Allocated
<1>c. ASSUME UNCHANGED <<leases, offers>>, now <= now'
      PROVE  Pool!PoolNext
  <2>1. \A ip \in Range : GrantOf(ip)' = GrantOf(ip)
    BY <1>c DEF GrantOf, Holder, Until, Allocated, Holds
  <2> QED BY <1>c, <2>1 DEF Pool!PoolNext, Pool!Wait
<1>1. ASSUME NEW m \in Mac, NEW seen \in now .. now + MaxDrift,
             NEW stamp \in now .. now + MaxDrift, HandleDiscover(m, seen, stamp)
      PROVE  Pool!Act(m)
  <2>1. now' = stamp /\ stamp \in Int /\ now <= now' /\ stamp + OfferDuration > now'
    BY <1>1, <1>a, DhcpConstants DEF HandleDiscover
  <2>2. PICK new : new = FindAvailableIP(m, L, O, seen)
    OBVIOUS
  <2>3. /\ leases' = L
        /\ \/ offers' = O
           \/ offers' = [O EXCEPT ![m] = [ip |-> new, expiresAt |-> stamp + OfferDuration]]
    BY <1>1, <2>2 DEF HandleDiscover
  <2> HIDE DEF L, O
  <2>4. \A h \in Mac \ {m} : Kept(h)
    <3>1. \A h \in Mac \ {m} : leases'[h] = L[h] /\ offers'[h] = O[h]
      BY <1>a, <2>3
    <3> QED BY <3>1 DEF Kept, L, O
  <2>5. ASSUME NEW ip \in Range, Allocated(m, ip)'
        PROVE  Allocated(m, ip) \/ (ip = new /\ Until(m, ip)' > now')
    <3>1. CASE Holds(L, m, ip) \/ Holds(O, m, ip)
      BY <1>b, <3>1
    <3>2. CASE ~(Holds(L, m, ip) \/ Holds(O, m, ip))
      <4>1. offers'[m] = [ip |-> new, expiresAt |-> stamp + OfferDuration]
        BY <1>a, <2>3, <2>5, <3>2 DEF Allocated, Holds
      <4>2. ~Holds(leases', m, ip) /\ Holds(offers', m, ip) /\ ip = new
        BY <2>3, <2>5, <3>2, <4>1 DEF Allocated, Holds
      <4>3. Until(m, ip)' = stamp + OfferDuration
        BY <4>1, <4>2 DEF Until
      <4> QED BY <2>1, <4>2, <4>3
    <3> QED BY <3>1, <3>2
  <2> QED BY <2>1, <2>4, <2>5, PoolStep
<1>2. ASSUME NEW m \in Mac, NEW seen \in now .. now + MaxDrift,
             NEW stamp \in now .. now + MaxDrift,
             NEW want \in Requestable \cup {NoIP}, NEW forUs \in BOOLEAN,
             HandleRequest(m, want, forUs, seen, stamp)
      PROVE  Pool!Act(m)
  <2>1. now' = stamp /\ stamp \in Int /\ now <= now' /\ stamp + LeaseDuration > now'
    BY <1>2, <1>a, DhcpConstants DEF HandleRequest
  <2>2. /\ leases' \in {L, [L EXCEPT ![m] = [ip |-> want, expiresAt |-> stamp + LeaseDuration]]}
        /\ offers' \in {O, [O EXCEPT ![m] = None]}
    BY <1>2 DEF HandleRequest
  <2>3. leases' # L => offers' = [O EXCEPT ![m] = None]
    BY <1>2 DEF HandleRequest
  <2> HIDE DEF L, O
  <2>4. \A h \in Mac \ {m} : Kept(h)
    <3>1. \A h \in Mac \ {m} : leases'[h] = L[h] /\ offers'[h] = O[h]
      BY <1>a, <2>2
    <3> QED BY <3>1 DEF Kept, L, O
  <2>5. ASSUME NEW ip \in Range, Allocated(m, ip)'
        PROVE  Allocated(m, ip) \/ (ip = want /\ Until(m, ip)' > now')
    <3>1. CASE Holds(L, m, ip) \/ Holds(O, m, ip)
      BY <1>b, <3>1
    <3>2. CASE ~(Holds(L, m, ip) \/ Holds(O, m, ip))
      <4>1. offers'[m] \in {O[m], None}
        BY <1>a, <2>2
      <4>2. leases' # L
        BY <2>5, <3>2, <4>1 DEF Allocated, Holds
      <4>3. leases'[m] = [ip |-> want, expiresAt |-> stamp + LeaseDuration] /\ offers'[m] = None
        BY <1>a, <2>2, <2>3, <4>2
      <4>4. ~Holds(offers', m, ip) /\ ip = want
        BY <2>5, <4>3 DEF Allocated, Holds
      <4>5. Until(m, ip)' = stamp + LeaseDuration
        BY <4>3, <4>4 DEF Until
      <4> QED BY <2>1, <4>4, <4>5
    <3> QED BY <3>1, <3>2
  <2> QED BY <2>1, <2>4, <2>5, PoolStep
<1>3. ASSUME NEW m \in Mac, HandleRelease(m) \/ HandleDecline(m)
      PROVE  Pool!Act(m)
  <2>1. /\ leases' \in {leases, [leases EXCEPT ![m] = None]}
        /\ offers' = [offers EXCEPT ![m] = None]
        /\ now' = now
    BY <1>3 DEF HandleRelease, HandleDecline
  <2>2. \A h \in Mac \ {m} : Kept(h)
    BY <1>a, <2>1 DEF Kept
  <2>3. \A ip \in Range : Allocated(m, ip)' => Allocated(m, ip)
    BY <1>a, <2>1 DEF Allocated, Holds
  <2>4. now <= now'
    BY <1>a, <2>1
  <2> QED BY <2>2, <2>3, <2>4, PoolStep
<1>4. ASSUME NEW m \in Mac, NEW ciaddr \in BOOLEAN, HandleInform(m, ciaddr)
      PROVE  Pool!PoolNext
  <2>1. UNCHANGED <<leases, offers>> /\ now <= now'
    BY <1>4, <1>a DEF HandleInform
  <2> QED BY <1>c, <2>1
<1>5. CASE Tick
  <2>1. UNCHANGED <<leases, offers>> /\ now <= now'
    BY <1>5, <1>a DEF Tick
  <2> QED BY <1>c, <2>1
<1>6. CASE UNCHANGED vars
  <2>1. UNCHANGED <<leases, offers>> /\ now <= now'
    BY <1>6, <1>a DEF vars
  <2> QED BY <1>c, <2>1
<1> QED BY <1>1, <1>2, <1>3, <1>4, <1>5, <1>6 DEF Next, Pool!PoolNext

\* The two maps, their purges and the handlers that read the clock several
\* times implement a pool whose grants are exclusive until they run out
\* (dhcp-server.ts:72-73 and the handlers).
THEOREM ServerImplementsPool == Spec => ImplementsPool
<1>1. Init => Pool!PoolInit
  BY DEF Init, Pool!PoolInit, GrantOf, Allocated, Holds
<1>2. ExclusiveAddress => OneHolder
  BY DEF ExclusiveAddress
<1>3. QED
  BY <1>1, <1>2, PoolInductive, TypeCorrect, AddressesExclusive, PTL
  DEF Spec, ImplementsPool, Pool!PoolSpec

=============================================================================
