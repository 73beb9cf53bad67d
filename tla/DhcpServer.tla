----------------------------- MODULE DhcpServer -----------------------------
(***************************************************************************)
(* The address allocator of @tcpip/dhcp (dhcp-server.ts).                  *)
(*                                                                         *)
(* The server keeps two maps keyed by client hardware address: `leases`    *)
(* (acknowledged) and `offers` (reservations made by DISCOVER).  Each      *)
(* datagram is handled synchronously, so a handler is one action; but a    *)
(* handler reads the wall clock several times, and an allocation may       *)
(* expire between two of those reads.  `now` is the clock at the purge,    *)
(* `seen` at the validity tests, `stamp` when a new expiry is computed.    *)
(*                                                                         *)
(* Datagrams may be lost, repeated, reordered or forged by a client, so    *)
(* any message of any client may arrive at any time.                       *)
(***************************************************************************)
EXTENDS Integers

CONSTANTS Mac,            \* client hardware addresses
          RangeStart,     \* leaseRange, as the numbers ipv4ToNumber returns
          RangeEnd,
          Requestable,    \* in- and out-of-range addresses clients name
          NoIP,           \* a missing address (undefined, or 0.0.0.0)
          None,           \* a missing map entry
          MaxDrift,       \* how far the clock may move while a handler runs
          OfferDuration,  \* OFFER_DURATION_MS
          LeaseDuration   \* leaseDuration * 1000

Range == RangeStart .. RangeEnd
Allocation == [ip : Range, expiresAt : Int]

ASSUME DhcpConstants ==
  /\ RangeStart \in Nat /\ RangeEnd \in Nat
  /\ Requestable \subseteq Int
  /\ NoIP \notin Int
  /\ None \notin Allocation \cup [owner : Mac, until : Int]
                               \cup [type : {"OFFER"}, yiaddr : Int]
  /\ MaxDrift \in Nat
  /\ OfferDuration \in Nat \ {0}
  /\ LeaseDuration \in Nat \ {0}

VARIABLES leases,  \* [Mac -> Allocation or None]: the public `leases` map
          offers,  \* [Mac -> Allocation or None]: the private `#offers` map
          now,     \* Date.now()
          last     \* the last datagram handled and the reply it got

vars == <<leases, offers, now, last>>

Reply == [type : {"OFFER", "ACK"}, yiaddr : Range]
           \cup [type : {"ACK", "NAK"}, yiaddr : {NoIP}]
           \cup {None}
Kind == {"none", "DISCOVER", "REQUEST", "RELEASE", "DECLINE", "INFORM"}

Init ==
  /\ leases = [m \in Mac |-> None]
  /\ offers = [m \in Mac |-> None]
  /\ now = 0
  /\ last = [type |-> "none", mac |-> None, reply |-> None]

-----------------------------------------------------------------------------
(* Tables.  A table is `leases` or `offers`. *)

Live(e, t) == e # None /\ e.expiresAt > t
Holds(tab, m, ip) == tab[m] # None /\ tab[m].ip = ip

\* Mutants: expired entries are kept, or live ones purged one tick early.
PurgedKeepsAll(tab, t) == tab
PurgedEarly(tab, t) == [m \in Mac |-> IF Live(tab[m], t + 1) THEN tab[m] ELSE None]

\* deleteExpiredAllocations, on one of the two maps.
Purged(tab, t) == [m \in Mac |-> IF Live(tab[m], t) THEN tab[m] ELSE None]

\* Mutant: only acknowledged leases count as used.
UsedIPsNoOffers(L, O) == {ip \in Range : \E m \in Mac : Holds(L, m, ip)}

UsedIPs(L, O) == {ip \in Range : \E m \in Mac : Holds(L, m, ip) \/ Holds(O, m, ip)}

\* The first address of the range that nobody holds, or NoIP.
FirstFree(L, O) ==
  LET free == Range \ UsedIPs(L, O)
  IN  IF free = {} THEN NoIP ELSE CHOOSE ip \in free : \A j \in free : ip <= j

\* findAvailableIP, after its purge.
FindAvailableIP(m, L, O, seen) ==
  IF Live(L[m], seen) THEN L[m].ip
  ELSE IF Live(O[m], seen) THEN O[m].ip
  ELSE FirstFree(L, O)

\* canUseRequestedIP: the first entry for ip, leases before offers, decides.
CanUseRequestedIP(ip, m, L, O, seen) ==
  /\ ip \in Range
  /\ \A h \in Mac : Holds(L, h, ip) => h = m /\ Live(L[h], seen)
  /\ \/ \E h \in Mac : Holds(L, h, ip)
     \/ \A h \in Mac : Holds(O, h, ip) => h = m /\ Live(O[h], seen)

Handled(kind, m, rep) == last' = [type |-> kind, mac |-> m, reply |-> rep]

-----------------------------------------------------------------------------
(* Message handlers.  `seen` and `stamp` are the handler's later readings of *)
(* the clock; time only moves forward while it runs.                         *)

HandleDiscover(m, seen, stamp) ==
  LET L == Purged(leases, now)
      O == Purged(offers, now)
      ip == FindAvailableIP(m, L, O, seen)
  IN  /\ now <= seen /\ seen <= stamp
      /\ leases' = L
      /\ IF ip = NoIP
           THEN offers' = O /\ Handled("DISCOVER", m, None)
           ELSE /\ offers' = [O EXCEPT ![m] = [ip |-> ip, expiresAt |-> stamp + OfferDuration]]
                /\ Handled("DISCOVER", m, [type |-> "OFFER", yiaddr |-> ip])
      /\ now' = stamp

Nak == [type |-> "NAK", yiaddr |-> NoIP]

\* `forUs` is false when the serverIdentifier option names another server.
\* `ip` is requestedIP, else a nonzero ciaddr, else NoIP.
HandleRequest(m, ip, forUs, seen, stamp) ==
  LET L == Purged(leases, now)
      O == Purged(offers, now)
  IN  /\ now <= seen /\ seen <= stamp
      /\ now' = stamp
      /\ \/ /\ ~forUs
            /\ leases' = L /\ offers' = O
            /\ Handled("REQUEST", m, None)
         \/ /\ forUs /\ ip = NoIP
            /\ leases' = L /\ offers' = O
            /\ Handled("REQUEST", m, Nak)
         \/ /\ forUs /\ ip # NoIP /\ CanUseRequestedIP(ip, m, L, O, seen)
            /\ leases' = [L EXCEPT ![m] = [ip |-> ip, expiresAt |-> stamp + LeaseDuration]]
            /\ offers' = [O EXCEPT ![m] = None]
            /\ Handled("REQUEST", m, [type |-> "ACK", yiaddr |-> ip])
         \/ /\ forUs /\ ip # NoIP /\ ~CanUseRequestedIP(ip, m, L, O, seen)
            /\ leases' = L
            /\ offers' = [O EXCEPT ![m] = None]
            /\ Handled("REQUEST", m, Nak)

HandleRelease(m) ==
  /\ leases' = [leases EXCEPT ![m] = None]
  /\ offers' = [offers EXCEPT ![m] = None]
  /\ Handled("RELEASE", m, None)
  /\ UNCHANGED now

\* Options only: `ciaddr` says whether the client gave its address.
HandleInform(m, ciaddr) ==
  /\ Handled("INFORM", m, IF ciaddr THEN [type |-> "ACK", yiaddr |-> NoIP] ELSE None)
  /\ UNCHANGED <<leases, offers, now>>

\* Mutant: DECLINE drops the lease as well as the offer.
HandleDeclineLease(m) ==
  /\ leases' = [leases EXCEPT ![m] = None]
  /\ offers' = [offers EXCEPT ![m] = None]
  /\ Handled("DECLINE", m, None)
  /\ UNCHANGED now

HandleDecline(m) ==
  /\ offers' = [offers EXCEPT ![m] = None]
  /\ Handled("DECLINE", m, None)
  /\ UNCHANGED <<leases, now>>

Tick ==
  /\ now' = now + 1
  /\ UNCHANGED <<leases, offers, last>>

Next ==
  \/ \E m \in Mac :
       \/ \E seen, stamp \in now .. now + MaxDrift :
            \/ HandleDiscover(m, seen, stamp)
            \/ \E ip \in Requestable \cup {NoIP}, forUs \in BOOLEAN :
                 HandleRequest(m, ip, forUs, seen, stamp)
       \/ HandleRelease(m)
       \/ \E ciaddr \in BOOLEAN : HandleInform(m, ciaddr)
       \/ HandleDecline(m)
  \/ Tick

Spec == Init /\ [][Next]_vars

-----------------------------------------------------------------------------
(* Properties *)

\* Both maps hold allocations inside the lease range, or nothing.
TypeOK ==
  /\ leases \in [Mac -> Allocation \cup {None}]
  /\ offers \in [Mac -> Allocation \cup {None}]
  /\ now \in Int
  /\ last \in [type : Kind, mac : Mac \cup {None}, reply : Reply]

Allocated(m, ip) == Holds(leases, m, ip) \/ Holds(offers, m, ip)
OneHolder ==
  \A m1, m2 \in Mac, ip \in Range :
    Allocated(m1, ip) /\ Allocated(m2, ip) => m1 = m2

\* Beside the types: one address is never allocated to two clients, whichever
\* of the two maps names it and whether or not either entry has expired
\* (canUseRequestedIP and findAvailableIP look at the maps, and purge them only
\* now and then).
ExclusiveAddress == TypeOK /\ OneHolder

\* An unexpired lease ends or moves only by a REQUEST or RELEASE of its own
\* client: nobody else's datagram, no purge and no clock tick takes it away.
LeaseStable ==
  [][\A m \in Mac :
       Live(leases[m], now') /\ leases'[m] # leases[m]
         => last'.mac = m /\ last'.type \in {"REQUEST", "RELEASE"}]_vars

\* A DISCOVER is left unanswered only when every address of the range was
\* held, unexpired, when it arrived, and by another client unless the client's
\* own allocation ran out while the handler was running.
SilentOnlyWhenExhausted ==
  [][last'.type = "DISCOVER" /\ last'.reply = None /\ last' # last
       => \A ip \in Range : \E h \in Mac :
            \/ Holds(leases, h, ip) /\ Live(leases[h], now) /\ (h = last'.mac => ~Live(leases[h], now'))
            \/ Holds(offers, h, ip) /\ Live(offers[h], now) /\ (h = last'.mac => ~Live(offers[h], now'))]_vars

\* The server implements AddressPool: an address is granted to the client
\* that holds it in either map, until the later of the two expiries.
Holder(ip) == CHOOSE m \in Mac : Allocated(m, ip)
Until(m, ip) ==
  LET l == leases[m].expiresAt
      o == offers[m].expiresAt
  IN  IF ~Holds(offers, m, ip) THEN l
      ELSE IF ~Holds(leases, m, ip) THEN o
      ELSE IF l > o THEN l ELSE o
GrantOf(ip) ==
  IF \E m \in Mac : Allocated(m, ip)
    THEN [owner |-> Holder(ip), until |-> Until(Holder(ip), ip)]
    ELSE None

Pool == INSTANCE AddressPool WITH
          Client <- Mac, Addr <- Range, Free <- None,
          grant <- [ip \in Range |-> GrantOf(ip)], time <- now

\* ``short-lived offer reservations to avoid duplicate concurrent offers'':
\* every handler is one client's step on the pool, or no step at all.
ImplementsPool == Pool!PoolSpec

=============================================================================
