-------------------------- MODULE OmsSystemProofs --------------------------
(***************************************************************************)
(* The execution core together with gateways and exchanges, for every size *)
(* of the pools and queues and every set of signals: as long as timeouts   *)
(* are longer than an order takes and exchanges quote an instrument in     *)
(* whole multiples of its canonical lot, the core and the exchanges agree  *)
(* on every order and on the position.                                     *)
(***************************************************************************)
EXTENDS OmsSystem, ExecutionCoreProofs, SequenceTheorems

-----------------------------------------------------------------------------
(* The inductive invariant                                                 *)

VenueOrders ==
  [ex : Exchanges, instr : Nat, dir : Dirs, rem : Int, acked : BOOLEAN,
   traded : BOOLEAN]

\* Child c is live in the core's books, as an order with these attributes.
Agrees(c, ex, instr, dir, lots) ==
  /\ c \in ChildIds /\ ReportDue(c)
  /\ children[c].ex = ex /\ children[c].leaves = lots
  /\ parents[children[c].parent].instr = instr
  /\ parents[children[c].parent].dir = dir

\* The order o waits in a gateway's queue.
Queued(o) ==
  /\ Agrees(o.child, o.ex, o.instr, o.dir, o.qty)
  /\ children[o.child].cum = 0
  /\ venue[o.child] = <<>>

\* The order v works at its exchange under child id c.
Works(c, v) ==
  /\ venue[c] = <<v>>
  /\ Agrees(c, v.ex, v.instr, v.dir, v.rem)

\* Every order under way is one of a live child, which has no other order.
SysInv ==
  /\ CoreInv
  /\ venue \in [ChildIds -> Seq(VenueOrders)]
  /\ executed \in [Instruments -> Int]
  /\ \A o \in outbound : Queued(o)
  /\ \A o, o2 \in outbound : o.child = o2.child => o = o2
  /\ \A c \in ChildIds : venue[c] = <<>> \/ \E v \in VenueOrders : Works(c, v)
  /\ PositionMatchesVenue

-----------------------------------------------------------------------------
(* Orders that a step leaves alone                                         *)

LEMMA AgreesStays ==
  ASSUME NEW c \in ChildIds, NEW ex, NEW instr, NEW dir, NEW lots,
         Agrees(c, ex, instr, dir, lots),
         children'[c] = children[c], c \notin FreeIds(child_free'),
         parents'[children[c].parent].instr = parents[children[c].parent].instr,
         parents'[children[c].parent].dir = parents[children[c].parent].dir
  PROVE  Agrees(c, ex, instr, dir, lots)'
BY DEF Agrees, ReportDue, ChildrenInUse

\* An order under way belongs to a child in use that is live.
LEMMA UnderWayDue ==
  ASSUME SysInv, NEW c \in ChildIds, UnderWay(c)
  PROVE  ReportDue(c)
<1>1. CASE venue[c] # <<>>
  BY <1>1 DEF SysInv, Works, Agrees
<1>2. CASE \E o \in outbound : o.child = c
  BY <1>2 DEF SysInv, Queued, Agrees
<1> QED BY <1>1, <1>2 DEF UnderWay

\* What a step may not touch as long as child c is under way.
Stays(c) ==
  /\ children'[c] = children[c] /\ c \notin FreeIds(child_free')
  /\ parents'[children[c].parent].instr = parents[children[c].parent].instr
  /\ parents'[children[c].parent].dir = parents[children[c].parent].dir

\* A step that only works on parent p leaves the children of the others alone.
LEMMA ApartStays ==
  ASSUME CoreInv, NEW p \in ParentIds, Apart(p), NEW c \in ChildIds, ReportDue(c),
         c \notin Owned(p), children[c].parent # p
  PROVE  Stays(c)
<1>1. children[c].parent \in ParentIds
  BY ReportFacts
<1> QED BY <1>1 DEF Apart, Stays

\* A report on child c touches no other child that is live ...
LEMMA ReportStays ==
  ASSUME CoreInv, NEW c \in ChildIds, ReportDue(c), NEW q, NEW over, Reported(c, q, over),
         NEW x \in ChildIds, x # c, ReportDue(x)
  PROVE  Stays(x)
<1> DEFINE p == children[c].parent
           r == children[x].parent
<1>1. p \in ParentIds /\ p \in ParentsInUse
  BY ReportFacts
<1>2. /\ r \in ParentIds /\ r \in ParentsInUse /\ x \in Held(parents[r])
      /\ x \notin FreeIds(child_free)
  BY ReportFacts DEF Held, ReportDue, ChildrenInUse
<1>3. Apart(p) /\ parents'[p].instr = parents[p].instr /\ parents'[p].dir = parents[p].dir
  BY DEF Reported, Moved
<1>4. CASE \A y \in Held(parents[p]) \ {c} : children[y].state \notin Live
  <2>1. x \notin Held(parents[p])
    BY <1>4 DEF ReportDue
  <2>2. r # p /\ x \notin Owned(p)
    BY <1>2, <2>1 DEF Owned
  <2> QED BY <1>1, <1>3, <2>2, ApartStays
<1>5. CASE child_free' = child_free /\ \A y \in ChildIds \ {c} : children'[y] = children[y]
  <2>1. parents'[r].instr = parents[r].instr /\ parents'[r].dir = parents[r].dir
    BY <1>2, <1>3 DEF Apart
  <2> QED BY <1>2, <1>5, <2>1 DEF Stays
<1> QED BY <1>4, <1>5 DEF Reported

\* ... and when it sends new orders, then child c is over and the orders are those of
\* children that were free, or no longer live.
LEMMA ReportSends ==
  ASSUME CoreInv, CoreInv', NEW c \in ChildIds, ReportDue(c), NEW q, NEW over,
         Reported(c, q, over), NEW o \in outbound' \ outbound
  PROVE  /\ over /\ Agrees(o.child, o.ex, o.instr, o.dir, o.qty)'
         /\ children'[o.child].cum = 0
         /\ o.child = c \/ ~ReportDue(o.child)
<1> DEFINE p == children[c].parent
<1>1. p \in ParentsInUse
  BY ReportFacts
<1>2. over /\ \A y \in Held(parents[p]) \ {c} : children[y].state \notin Live
  BY DEF Reported
<1>3. /\ o.child \in Owned(p) /\ o.child \notin FreeIds(child_free')
      /\ children'[o.child].parent = p
      /\ children'[o.child].state = "PENDING_NEW"
      /\ children'[o.child].cum = 0
      /\ children'[o.child].leaves = o.qty
      /\ children'[o.child].ex = o.ex
      /\ o.instr = parents[p].instr /\ o.dir = parents[p].dir
  BY DEF Reported, Sends
<1>4. o.child \in ChildIds
  BY DEF CoreInv, TypeOK, OutboundOrders
<1>5. parents'[p].instr = parents[p].instr /\ parents'[p].dir = parents[p].dir
  BY DEF Reported, Moved
<1>6. Agrees(o.child, o.ex, o.instr, o.dir, o.qty)'
  BY <1>3, <1>4, <1>5 DEF Agrees, ReportDue, ChildrenInUse, Live
<1>7. o.child = c \/ ~ReportDue(o.child)
  BY <1>1, <1>2, <1>3 DEF Owned, ReportDue, ChildrenInUse
<1> QED BY <1>2, <1>3, <1>6, <1>7

\* A signal touches no child that is live, and its orders are those of free children.
LEMMA SignalStays ==
  ASSUME CoreInv, NEW sig, Signaled(sig), NEW x \in ChildIds, ReportDue(x)
  PROVE  Stays(x)
<1>1. children[x].parent \in ParentIds /\ children[x].parent \in ParentsInUse
      /\ x \notin FreeIds(child_free)
  BY ReportFacts DEF ReportDue, ChildrenInUse
<1>2. CASE Refused
  BY <1>1, <1>2 DEF Refused, Stays
<1>3. CASE \E p \in ParentIds, par \in ParentOrder : Opened(sig, p, par)
  <2>1. PICK p \in ParentIds, par \in ParentOrder : Opened(sig, p, par)
    BY <1>3
  <2>2. p \notin ParentsInUse /\ Apart(p)
    BY <2>1 DEF Opened, Effect
  <2>3. children[x].parent # p /\ x \notin Owned(p)
    BY <1>1, <2>2 DEF Owned
  <2> QED BY <2>2, <2>3, ApartStays
<1> QED BY <1>2, <1>3 DEF Signaled

LEMMA SignalSends ==
  ASSUME CoreInv, CoreInv', NEW sig, Signaled(sig)
  PROVE  /\ outbound \subseteq outbound'
         /\ \A o \in outbound' \ outbound :
              /\ Agrees(o.child, o.ex, o.instr, o.dir, o.qty)'
              /\ children'[o.child].cum = 0
              /\ ~ReportDue(o.child)
         /\ \A o, o2 \in outbound' \ outbound : o.child = o2.child => o = o2
<1>1. CASE Refused
  BY <1>1 DEF Refused
<1>2. CASE \E p \in ParentIds, par \in ParentOrder : Opened(sig, p, par)
  <2>1. PICK p \in ParentIds, par \in ParentOrder : Opened(sig, p, par)
    BY <1>2
  <2>2. /\ p \notin ParentsInUse /\ Sends(p, par)
        /\ parents'[p].instr = par.instr /\ parents'[p].dir = par.dir
    BY <2>1 DEF Opened, Effect, SameOrder
  <2>3. ASSUME NEW o \in outbound' \ outbound
        PROVE  /\ Agrees(o.child, o.ex, o.instr, o.dir, o.qty)'
               /\ children'[o.child].cum = 0
               /\ ~ReportDue(o.child)
    <3>1. /\ o.child \in Owned(p) /\ o.child \notin FreeIds(child_free')
          /\ children'[o.child].parent = p
          /\ children'[o.child].state = "PENDING_NEW"
          /\ children'[o.child].cum = 0
          /\ children'[o.child].leaves = o.qty
          /\ children'[o.child].ex = o.ex
          /\ o.instr = par.instr /\ o.dir = par.dir
      BY <2>2, <2>3 DEF Sends
    <3>2. o.child \in ChildIds
      BY <2>3 DEF CoreInv, TypeOK, OutboundOrders
    <3>3. Agrees(o.child, o.ex, o.instr, o.dir, o.qty)'
      BY <2>2, <3>1, <3>2 DEF Agrees, ReportDue, ChildrenInUse, Live
    <3>4. ~ReportDue(o.child)
      BY <2>2, <3>1 DEF Owned, ReportDue, ChildrenInUse
    <3> QED BY <3>1, <3>3, <3>4
  <2> QED BY <2>2, <2>3 DEF Sends
<1> QED BY <1>1, <1>2 DEF Signaled

-----------------------------------------------------------------------------
(* Putting the core and the exchanges together                             *)

\* The orders sent in a step are those of children that agree with them and have no
\* other order.
SendsApart ==
  /\ outbound \subseteq outbound'
  /\ \A o \in outbound' \ outbound :
       /\ Agrees(o.child, o.ex, o.instr, o.dir, o.qty)'
       /\ children'[o.child].cum = 0
       /\ venue'[o.child] = <<>>
       /\ \A o2 \in outbound : o2.child # o.child
  /\ \A o, o2 \in outbound' \ outbound : o.child = o2.child => o = o2

\* A step that concerns the exchanges' orders of the children in C only, none of which
\* waits in a queue, and that leaves the other orders under way alone.
LEMMA Together ==
  ASSUME SysInv, CoreInv', NEW C \in SUBSET ChildIds,
         venue' \in [ChildIds -> Seq(VenueOrders)],
         executed' \in [Instruments -> Int], PositionMatchesVenue',
         \A x \in ChildIds \ C : venue'[x] = venue[x] /\ (UnderWay(x) => Stays(x)),
         \A x \in C : /\ venue'[x] = <<>> \/ \E v \in VenueOrders : Works(x, v)'
                      /\ \A o \in outbound : o.child # x,
         SendsApart
  PROVE  SysInv'
<1>1. ASSUME NEW o \in outbound' PROVE Queued(o)'
  <2>1. CASE o \in outbound
    <3>1. Queued(o)
      BY <2>1 DEF SysInv
    <3>2. o.child \in ChildIds \ C
      BY <2>1, <3>1 DEF Queued, Agrees
    <3>3. UnderWay(o.child)
      BY <2>1 DEF UnderWay
    <3>4. Stays(o.child) /\ venue'[o.child] = venue[o.child]
      BY <3>2, <3>3
    <3>5. Agrees(o.child, o.ex, o.instr, o.dir, o.qty)'
      BY <3>1, <3>2, <3>4, AgreesStays DEF Queued, Stays
    <3> QED BY <3>1, <3>4, <3>5 DEF Queued, Stays
  <2>2. CASE o \notin outbound
    BY <1>1, <2>2 DEF SendsApart, Queued
  <2> QED BY <2>1, <2>2
<1>2. ASSUME NEW o \in outbound', NEW o2 \in outbound', o.child = o2.child PROVE o = o2
  BY <1>2 DEF SendsApart, SysInv
<1>3. ASSUME NEW x \in ChildIds PROVE venue'[x] = <<>> \/ \E v \in VenueOrders : Works(x, v)'
  <2>1. CASE x \in C
    BY <2>1
  <2>2. CASE x \notin C /\ venue[x] # <<>>
    <3>1. PICK v \in VenueOrders : Works(x, v)
      BY <2>2 DEF SysInv
    <3>2. Stays(x) /\ venue'[x] = venue[x]
      BY <2>2 DEF UnderWay
    <3>3. Agrees(x, v.ex, v.instr, v.dir, v.rem)'
      BY <3>1, <3>2, AgreesStays DEF Works, Stays
    <3>4. Works(x, v)'
      BY <3>1, <3>2, <3>3 DEF Works, Stays
    <3> QED BY <3>4
  <2>3. CASE x \notin C /\ venue[x] = <<>>
    BY <2>3
  <2> QED BY <2>1, <2>2, <2>3
<1> QED BY <1>1, <1>2, <1>3 DEF SysInv

\* A child that the core does not count as live has no order under way.
LEMMA NotUnderWay ==
  ASSUME SysInv, NEW c \in ChildIds, ~ReportDue(c)
  PROVE  venue[c] = <<>> /\ \A o \in outbound : o.child # c
BY UnderWayDue DEF UnderWay

\* A report on child c, of which no order waits in a queue, when the exchange has
\* dropped the order if the core has.
LEMMA ReportTogether ==
  ASSUME SysInv, CoreInv', NEW c \in ChildIds, ReportDue(c), NEW q, NEW over,
         Reported(c, q, over), \A o \in outbound : o.child # c,
         venue' \in [ChildIds -> Seq(VenueOrders)],
         \A x \in ChildIds \ {c} : venue'[x] = venue[x],
         over => venue'[c] = <<>>,
         venue'[c] = <<>> \/ \E v \in VenueOrders : Works(c, v)',
         executed' \in [Instruments -> Int], PositionMatchesVenue'
  PROVE  SysInv'
<1>1. CoreInv
  BY DEF SysInv
<1>2. ASSUME NEW x \in ChildIds \ {c}, UnderWay(x) PROVE Stays(x)
  BY <1>1, <1>2, UnderWayDue, ReportStays
<1>3. ASSUME NEW o \in outbound' \ outbound
      PROVE  /\ Agrees(o.child, o.ex, o.instr, o.dir, o.qty)'
             /\ children'[o.child].cum = 0
             /\ venue'[o.child] = <<>>
             /\ \A o2 \in outbound : o2.child # o.child
  <2>1. /\ over /\ Agrees(o.child, o.ex, o.instr, o.dir, o.qty)'
        /\ children'[o.child].cum = 0
        /\ o.child = c \/ ~ReportDue(o.child)
    BY <1>1, <1>3, ReportSends
  <2>2. o.child \in ChildIds
    BY <2>1 DEF Agrees
  <2>3. venue'[o.child] = <<>> /\ \A o2 \in outbound : o2.child # o.child
    BY <2>1, <2>2, NotUnderWay
  <2> QED BY <2>1, <2>3
<1>4. SendsApart
  BY <1>3 DEF SendsApart, Reported, Sends
<1> DEFINE C == {c}
<1>5. C \in SUBSET ChildIds
  OBVIOUS
<1>6. \A x \in ChildIds \ C : venue'[x] = venue[x] /\ (UnderWay(x) => Stays(x))
  BY <1>2
<1>7. \A x \in C : /\ venue'[x] = <<>> \/ \E v \in VenueOrders : Works(x, v)'
                   /\ \A o \in outbound : o.child # x
  OBVIOUS
<1> HIDE DEF C
<1> QED BY <1>4, <1>5, <1>6, <1>7, Together

-----------------------------------------------------------------------------
(* The steps                                                               *)

\* The exchange drops the only order of child c.
LEMMA RemoveOnly ==
  ASSUME venue \in [ChildIds -> Seq(VenueOrders)], NEW c \in ChildIds,
         NEW v \in VenueOrders, venue[c] = <<v>>
  PROVE  Remove(c, 1) = [venue EXCEPT ![c] = <<>>]
<1> DEFINE tail == [j \in 1..(Len(venue[c]) - 1) |->
                      IF j < 1 THEN venue[c][j] ELSE venue[c][j + 1]]
<1>1. tail = <<>>
  <2>1. Len(venue[c]) = 1
    OBVIOUS
  <2>2. 1..(Len(venue[c]) - 1) = {}
    BY <2>1
  <2>3. tail \in Seq(VenueOrders) /\ Len(tail) = 0
    <3>1. tail = [j \in 1..0 |-> IF j < 1 THEN venue[c][j] ELSE venue[c][j + 1]]
      BY <2>1
    <3> QED BY <3>1
  <2> QED BY <2>3
<1>2. Remove(c, 1) = [venue EXCEPT ![c] = tail]
  BY DEF Remove
<1> QED BY <1>1, <1>2

\* An update of a sequence with one element.
LEMMA OneUpdated ==
  ASSUME NEW v, NEW w
  PROVE  [<<v>> EXCEPT ![1] = w] = <<w>>
<1>1. /\ <<v>> \in Seq({v, w}) /\ <<w>> \in Seq({v, w})
      /\ Len(<<v>>) = 1 /\ Len(<<w>>) = 1 /\ <<w>>[1] = w
  OBVIOUS
<1> DEFINE u == [<<v>> EXCEPT ![1] = w]
<1>2. u \in Seq({v, w}) /\ Len(u) = 1 /\ u[1] = w
  BY <1>1
<1> HIDE DEF u
<1>3. u = <<w>>
  BY <1>1, <1>2, SeqEqual
<1> QED BY <1>3 DEF u

\* A fill of q native lots moves the position by as many base units as were traded.
LEMMA TradedUnits ==
  ASSUME DivisibleLots, NEW i \in Instruments, NEW e \in Exchanges, NEW d, NEW n \in Int,
         NEW q \in Nat
  PROVE  (n + Signed(d, ToCanonicalLots(q, i, e))) * LotSize(i)
           = n * LotSize(i) + Signed(d, q * BookLot[e])
<1>1. PICK k \in Nat \ {0} : /\ BookLot[e] = k * LotSize(i)
                             /\ \A x \in Nat : ToCanonicalLots(x, i, e) = x * k
  BY LotRatio
<1>2. PICK z \in Nat : z = LotSize(i)
  BY LotSizeType
<1>3. PICK m \in Nat : m = q * k
  OBVIOUS
<1>4. m * z = q * (k * z)
  BY <1>3
<1>5. (n + m) * z = n * z + m * z
  OBVIOUS
<1>6. (n + (-m)) * z = n * z + (-(m * z))
  OBVIOUS
<1>7. (n + Signed(d, m)) * z = n * z + Signed(d, m * z)
  BY <1>5, <1>6 DEF Signed
<1>8. ToCanonicalLots(q, i, e) = m /\ q * BookLot[e] = m * z
  BY <1>1, <1>2, <1>3, <1>4
<1> QED BY <1>2, <1>7, <1>8

\* The venue's only order of a child is what the core has in its books.
LEMMA OnlyOrder ==
  ASSUME SysInv, NEW c \in ChildIds, NEW k \in 1..Len(venue[c])
  PROVE  /\ k = 1 /\ ReportDue(c) /\ \A o \in outbound : o.child # c
         /\ \E v \in VenueOrders : Works(c, v)
<1>1. venue[c] # <<>>
  <2>1. venue[c] = <<>> => Len(venue[c]) = 0
    OBVIOUS
  <2> QED BY <2>1
<1>2. PICK v \in VenueOrders : Works(c, v)
  BY <1>1 DEF SysInv
<1>3. venue[c] = <<v>> /\ ReportDue(c)
  BY <1>2 DEF Works, Agrees
<1>4. Len(venue[c]) = 1
  BY <1>3
<1>5. \A o \in outbound : o.child # c
  BY <1>1 DEF SysInv, Queued
<1> QED BY <1>2, <1>3, <1>4, <1>5

LEMMA PositionKept ==
  ASSUME SysInv, UNCHANGED <<net_qty_lots, executed>>
  PROVE  executed' \in [Instruments -> Int] /\ PositionMatchesVenue'
BY DEF SysInv, PositionMatchesVenue

LEMMA FinishStep ==
  ASSUME DivisibleLots, SysInv, NEW c \in ChildIds, NEW k \in 1..Len(venue[c]),
         NEW final \in {"CANCELED", "REJECTED"}, Finish(c, k, final)
  PROVE  SysInv'
<1>1. /\ k = 1 /\ ReportDue(c) /\ \A o \in outbound : o.child # c
      /\ \E v \in VenueOrders : Works(c, v)
  BY OnlyOrder
<1>2. PICK v \in VenueOrders : Works(c, v)
  BY <1>1
<1>3. CoreInv /\ venue \in [ChildIds -> Seq(VenueOrders)] /\ venue[c] = <<v>>
  BY <1>2 DEF SysInv, Works
<1>4. venue' = [venue EXCEPT ![c] = <<>>]
  BY <1>1, <1>3, RemoveOnly DEF Finish
<1>5. /\ venue' \in [ChildIds -> Seq(VenueOrders)] /\ venue'[c] = <<>>
      /\ \A x \in ChildIds \ {c} : venue'[x] = venue[x]
  <2>1. <<>> \in Seq(VenueOrders)
    OBVIOUS
  <2> QED BY <1>3, <1>4, <2>1
<1>6. final \in States /\ final \notin Live
  BY DEF States, Live
<1>7. timers \in [ChildIds -> Nat] /\ timers[c] <= 1
  BY <1>1, <1>3, ReportFacts DEF CoreInv, TypeOK
<1>8. cancels' \in 0..MaxCancels
  BY <1>3, CoreAssumption DEF Finish, Counted, CoreInv, TypeOK
<1>9. CoreInv' /\ Reported(c, 0, TRUE) /\ net_qty_lots' = net_qty_lots
  BY <1>1, <1>3, <1>6, <1>7, <1>8, CancelStep DEF Finish
<1>10. executed' \in [Instruments -> Int] /\ PositionMatchesVenue'
  BY <1>9, PositionKept DEF Finish
<1> QED BY <1>1, <1>5, <1>9, <1>10, ReportTogether, Zenon

LEMMA TimerStep ==
  ASSUME DivisibleLots, ~LateTimeouts, SysInv, NEW c \in ChildIds, Timeout(c)
  PROVE  SysInv'
<1>1. CoreInv /\ venue[c] = <<>> /\ outbound = {} /\ ChildTimeout(c)
      /\ UNCHANGED <<cancels, venue, executed>> /\ venue \in [ChildIds -> Seq(VenueOrders)]
  BY DEF Timeout, SysInv
<1>2. cancels' \in 0..MaxCancels
  BY <1>1 DEF CoreInv, TypeOK
<1>3. CoreInv' /\ ReportDue(c) /\ Reported(c, 0, TRUE) /\ net_qty_lots' = net_qty_lots
  BY <1>1, <1>2, TimeoutStep
<1>4. executed' \in [Instruments -> Int] /\ PositionMatchesVenue'
  BY <1>1, <1>3, PositionKept
<1>5. /\ venue' \in [ChildIds -> Seq(VenueOrders)] /\ venue'[c] = <<>>
      /\ \A x \in ChildIds \ {c} : venue'[x] = venue[x]
      /\ \A o \in outbound : o.child # c
  BY <1>1
<1> QED BY <1>3, <1>4, <1>5, ReportTogether, Zenon

\* An acknowledgement, however late, leaves what the core and the exchange agree on alone.
LEMMA AckStep ==
  ASSUME DivisibleLots, SysInv, NEW c \in ChildIds, NEW k \in 1..Len(venue[c]),
         Ack(c, k)
  PROVE  SysInv'
<1>1. /\ k = 1 /\ ReportDue(c) /\ \A o \in outbound : o.child # c
      /\ \E v \in VenueOrders : Works(c, v)
  BY OnlyOrder
<1>2. PICK v \in VenueOrders : Works(c, v)
  BY <1>1
<1>3. CoreInv /\ venue \in [ChildIds -> Seq(VenueOrders)] /\ venue[c] = <<v>>
  BY <1>2 DEF SysInv, Works
<1> DEFINE w == [v EXCEPT !.acked = TRUE]
<1>4. venue' = [venue EXCEPT ![c] = <<w>>]
  <2>1. venue' = [venue EXCEPT ![c] = [venue[c] EXCEPT ![1] = [venue[c][1] EXCEPT !.acked = TRUE]]]
    BY <1>1, <1>3 DEF Ack
  <2>2. venue[c][1] = v
    BY <1>3
  <2>3. venue' = [venue EXCEPT ![c] = [<<v>> EXCEPT ![1] = w]]
    BY <1>3, <2>1, <2>2, Zenon
  <2>4. [<<v>> EXCEPT ![1] = w] = <<w>>
    BY OneUpdated
  <2> QED BY <2>3, <2>4, Zenon
<1>5. w \in VenueOrders /\ w.ex = v.ex /\ w.instr = v.instr /\ w.dir = v.dir /\ w.rem = v.rem /\ w.acked
  BY DEF VenueOrders
<1> HIDE DEF w
<1>6. /\ venue' \in [ChildIds -> Seq(VenueOrders)] /\ venue'[c] = <<w>>
      /\ \A x \in ChildIds \ {c} : venue'[x] = venue[x]
  BY <1>3, <1>4, <1>5
<1>7. CoreInv' /\ Reported(c, 0, FALSE)
  BY <1>1, <1>3, NewStep DEF Ack
<1>8. /\ UNCHANGED <<parents, child_free, net_qty_lots, executed>>
      /\ children'[c].parent = children[c].parent /\ children'[c].ex = children[c].ex
      /\ children'[c].leaves = children[c].leaves /\ children'[c].state \in Live
  <2>1. children \in [ChildIds -> ChildOrderState]
    BY <1>3 DEF CoreInv, TypeOK
  <2> QED BY <2>1 DEF Ack, HandleNew, ChildOrderState, Live
<1>9. executed' \in [Instruments -> Int] /\ PositionMatchesVenue'
  BY <1>8, PositionKept
<1>10. Works(c, w)'
  <2>1. Agrees(c, v.ex, v.instr, v.dir, v.rem)'
    BY <1>1, <1>2, <1>8 DEF Works, Agrees, ReportDue, ChildrenInUse
  <2> QED BY <1>5, <1>6, <2>1 DEF Works
<1> QED BY <1>1, <1>5, <1>6, <1>7, <1>9, <1>10, ReportTogether, Zenon

LEMMA ExecuteStep ==
  ASSUME DivisibleLots, SysInv, NEW c \in ChildIds, NEW k \in 1..Len(venue[c]),
         NEW q \in 1..venue[c][k].rem, Execute(c, k, q)
  PROVE  SysInv'
<1>1. /\ k = 1 /\ ReportDue(c) /\ \A o \in outbound : o.child # c
      /\ \E v \in VenueOrders : Works(c, v)
  BY OnlyOrder
<1>2. PICK v \in VenueOrders : Works(c, v)
  BY <1>1
<1>3. /\ CoreInv /\ venue \in [ChildIds -> Seq(VenueOrders)] /\ venue[c] = <<v>>
      /\ Agrees(c, v.ex, v.instr, v.dir, v.rem)
  BY <1>2 DEF SysInv, Works
<1>4. venue[c][k] = v
  BY <1>1, <1>3
<1> DEFINE par == parents[children[c].parent]
<1>5. /\ v.rem = children[c].leaves /\ v.ex = children[c].ex /\ v.dir = par.dir
      /\ v.instr = par.instr /\ par.instr \in Instruments /\ v.ex \in Exchanges
      /\ v.rem \in Nat
  BY <1>1, <1>3, ReportFacts DEF Agrees
<1>6. q \in 1..children[c].leaves /\ q \in Nat
  BY <1>4, <1>5
<1>7. HandleFill(c, q)
  BY DEF Execute
<1>8. /\ CoreInv' /\ Reported(c, q, q = children[c].leaves)
      /\ net_qty_lots'
           = [net_qty_lots EXCEPT ![par.instr] = @ + Signed(par.dir, Traded(c, q))]
  BY <1>1, <1>3, <1>6, <1>7, FillStep
<1>9. executed' = [executed EXCEPT ![par.instr] = @ + Signed(par.dir, q * BookLot[v.ex])]
  BY <1>4, <1>5 DEF Execute
<1>10. executed' \in [Instruments -> Int] /\ PositionMatchesVenue'
  <2>1. /\ net_qty_lots \in [Instruments -> Int] /\ executed \in [Instruments -> Int]
        /\ \A i \in Instruments : net_qty_lots[i] * LotSize(i) = executed[i]
    BY DEF SysInv, CoreInv, TypeOK, PositionMatchesVenue
  <2> DEFINE j == par.instr
             d == Signed(par.dir, Traded(c, q))
             b == Signed(par.dir, q * BookLot[v.ex])
  <2>2. j \in Instruments
    BY <1>5
  <2>3. q * BookLot[v.ex] \in Int
    BY <1>5, <1>6, LotsAssumption
  <2>4. b \in Int /\ d \in Int
    <3>1. Traded(c, q) \in Nat
      BY <1>5, <1>6, Canonical DEF Traded
    <3> QED BY <2>3, <3>1 DEF Signed
  <2>5. (net_qty_lots[j] + d) * LotSize(j) = net_qty_lots[j] * LotSize(j) + b
    <3>1. PICK n \in Int : n = net_qty_lots[j]
      BY <2>1, <2>2
    <3>2. Traded(c, q) = ToCanonicalLots(q, j, v.ex)
      BY <1>5 DEF Traded
    <3>3. (n + Signed(par.dir, ToCanonicalLots(q, j, v.ex))) * LotSize(j)
            = n * LotSize(j) + Signed(par.dir, q * BookLot[v.ex])
      BY <1>5, <1>6, <2>2, TradedUnits
    <3> QED BY <3>1, <3>2, <3>3
  <2>6. net_qty_lots' = [net_qty_lots EXCEPT ![j] = @ + d] /\ executed' = [executed EXCEPT ![j] = @ + b]
    BY <1>8, <1>9
  <2> HIDE DEF j, d, b
  <2>7. executed' \in [Instruments -> Int]
    BY <2>1, <2>2, <2>4, <2>6
  <2>8. ASSUME NEW i \in Instruments PROVE net_qty_lots'[i] * LotSize(i) = executed'[i]
    <3>1. CASE i = j
      <4>1. net_qty_lots'[i] = net_qty_lots[j] + d /\ executed'[i] = executed[j] + b
        BY <2>1, <2>2, <2>6, <3>1
      <4> QED BY <2>1, <2>2, <2>5, <3>1, <4>1, Zenon
    <3>2. CASE i # j
      <4>1. net_qty_lots'[i] = net_qty_lots[i] /\ executed'[i] = executed[i]
        BY <2>1, <2>6, <3>2
      <4> QED BY <2>1, <4>1, Zenon
    <3> QED BY <3>1, <3>2
  <2> QED BY <2>7, <2>8 DEF PositionMatchesVenue
<1>11. CASE q = v.rem
  <2>1. venue' = [venue EXCEPT ![c] = <<>>]
    BY <1>1, <1>3, <1>4, <1>11, RemoveOnly DEF Execute
  <2>2. /\ venue' \in [ChildIds -> Seq(VenueOrders)] /\ venue'[c] = <<>>
        /\ \A x \in ChildIds \ {c} : venue'[x] = venue[x]
    <3>1. <<>> \in Seq(VenueOrders)
      OBVIOUS
    <3> QED BY <1>3, <2>1, <3>1
  <2> QED BY <1>1, <1>8, <1>10, <2>2, ReportTogether, Zenon
<1>12. CASE q # v.rem
  <2> DEFINE w == [v EXCEPT !.rem = v.rem - q, !.traded = TRUE]
  <2>1. venue' = [venue EXCEPT ![c] = <<w>>]
    <3>1. venue' = [venue EXCEPT ![c][1].rem = @ - q, ![c][1].traded = TRUE]
      BY <1>1, <1>4, <1>12 DEF Execute
    <3> DEFINE half == [v EXCEPT !.rem = v.rem - q]
               mid  == [venue EXCEPT ![c][1].rem = venue[c][1].rem - q]
    <3>2. venue[c][1] = v /\ c \in DOMAIN venue
      BY <1>3
    <3>3. mid = [venue EXCEPT ![c] = [<<v>> EXCEPT ![1] = half]]
      <4>1. mid = [venue EXCEPT ![c] = [venue[c] EXCEPT ![1] =
                                          [venue[c][1] EXCEPT !.rem = venue[c][1].rem - q]]]
        OBVIOUS
      <4> QED BY <1>3, <3>2, <4>1, Zenon
    <3>4. mid = [venue EXCEPT ![c] = <<half>>]
      BY <3>3, OneUpdated
    <3>5. venue' = [mid EXCEPT ![c] = [mid[c] EXCEPT ![1] = [mid[c][1] EXCEPT !.traded = TRUE]]]
      BY <3>1
    <3> HIDE DEF mid
    <3>6. mid[c] = <<half>>
      BY <1>3, <3>4
    <3>7. mid[c][1] = half
      BY <3>6
    <3>8. venue' = [mid EXCEPT ![c] = [<<half>> EXCEPT ![1] = [half EXCEPT !.traded = TRUE]]]
      BY <3>5, <3>6, <3>7, Zenon
    <3>9. [half EXCEPT !.traded = TRUE] = w
      BY DEF VenueOrders
    <3>10. venue' = [mid EXCEPT ![c] = <<w>>]
      BY <3>8, <3>9, OneUpdated
    <3> HIDE DEF w, half
    <3> QED BY <1>3, <3>4, <3>10
  <2>2. /\ w \in VenueOrders /\ w.ex = v.ex /\ w.instr = v.instr /\ w.dir = v.dir
        /\ w.rem = v.rem - q
    <3>1. v.rem - q \in Int
      BY <1>5, <1>6
    <3> QED BY <3>1 DEF VenueOrders
  <2> HIDE DEF w
  <2>3. /\ venue' \in [ChildIds -> Seq(VenueOrders)] /\ venue'[c] = <<w>>
        /\ \A x \in ChildIds \ {c} : venue'[x] = venue[x]
    BY <1>3, <2>1, <2>2
  <2>4. q # children[c].leaves
    BY <1>5, <1>12
  <2>5. /\ child_free' = child_free /\ children'[c].parent = children[c].parent
        /\ children'[c].state \in Live /\ children'[c].ex = children[c].ex
        /\ children'[c].leaves = children[c].leaves - q
        /\ parents'[children[c].parent].instr = par.instr
        /\ parents'[children[c].parent].dir = par.dir
    BY <1>8, <2>4 DEF Reported, Moved
  <2>6. Agrees(c, v.ex, v.instr, v.dir, v.rem - q)'
    BY <1>1, <1>5, <2>5 DEF Agrees, ReportDue, ChildrenInUse
  <2>7. Works(c, w)'
    BY <2>2, <2>3, <2>6 DEF Works
  <2>8. Reported(c, q, FALSE)
    BY <1>8, <2>4 DEF Reported
  <2> QED BY <1>1, <1>8, <1>10, <2>2, <2>3, <2>7, <2>8, ReportTogether, Zenon
<1> QED BY <1>11, <1>12

LEMMA SendStep ==
  ASSUME DivisibleLots, SysInv, NEW o \in outbound, Send(o)
  PROVE  SysInv'
<1> DEFINE c == o.child
           v == [ex |-> o.ex, instr |-> o.instr, dir |-> o.dir, rem |-> o.qty, acked |-> FALSE,
                 traded |-> FALSE]
<1>1. Queued(o) /\ CoreInv /\ venue \in [ChildIds -> Seq(VenueOrders)] /\ o \in OutboundOrders
  BY DEF SysInv, CoreInv, TypeOK
<1>2. c \in ChildIds /\ venue[c] = <<>> /\ Agrees(c, o.ex, o.instr, o.dir, o.qty)
      /\ children[c].cum = 0
  BY <1>1 DEF Queued, Agrees
<1>3. v \in VenueOrders
  BY <1>1 DEF OutboundOrders, VenueOrders
<1>v. v.ex = o.ex /\ v.instr = o.instr /\ v.dir = o.dir /\ v.rem = o.qty
  OBVIOUS
<1>4. venue' = [venue EXCEPT ![c] = <<v>>]
  BY <1>1, <1>2 DEF Send
<1> HIDE DEF v
<1>5. /\ venue' \in [ChildIds -> Seq(VenueOrders)] /\ venue'[c] = <<v>>
      /\ \A x \in ChildIds \ {c} : venue'[x] = venue[x]
  BY <1>1, <1>2, <1>3, <1>4
<1>6. CoreInv'
  BY <1>1, CoreNext DEF Send, Next
<1>7. executed' \in [Instruments -> Int] /\ PositionMatchesVenue'
  BY PositionKept DEF Send, TakeOrder
<1>8. /\ outbound' = outbound \ {o} /\ UNCHANGED <<children, parents, child_free>>
  BY DEF Send, TakeOrder
<1>9. ASSUME NEW x, NEW ex, NEW instr, NEW dir, NEW lots, Agrees(x, ex, instr, dir, lots)
      PROVE  Agrees(x, ex, instr, dir, lots)'
  BY <1>8, <1>9 DEF Agrees, ReportDue, ChildrenInUse
<1>10. ASSUME NEW o2 \in outbound' PROVE Queued(o2)'
  <2>1. Queued(o2) /\ o2.child \in ChildIds /\ o2.child # c
    BY <1>8, <1>10 DEF SysInv, Queued, Agrees
  <2>2. Agrees(o2.child, o2.ex, o2.instr, o2.dir, o2.qty)'
    BY <1>9, <2>1 DEF Queued
  <2> QED BY <1>5, <1>8, <2>1, <2>2 DEF Queued
<1>11. \A o2, o3 \in outbound' : o2.child = o3.child => o2 = o3
  BY <1>8 DEF SysInv
<1>12. ASSUME NEW x \in ChildIds PROVE venue'[x] = <<>> \/ \E w \in VenueOrders : Works(x, w)'
  <2>1. CASE x = c
    <3>1. Agrees(c, o.ex, o.instr, o.dir, o.qty)'
      BY <1>2, <1>9
    <3>2. Works(c, v)'
      BY <1>2, <1>5, <1>8, <1>v, <3>1 DEF Works
    <3> QED BY <1>3, <2>1, <3>2
  <2>2. CASE x # c /\ venue[x] # <<>>
    <3>1. PICK w \in VenueOrders : Works(x, w)
      BY <2>2 DEF SysInv
    <3>2. Agrees(x, w.ex, w.instr, w.dir, w.rem)'
      BY <1>9, <3>1 DEF Works
    <3>3. Works(x, w)'
      BY <1>5, <1>8, <2>2, <3>1, <3>2 DEF Works
    <3> QED BY <3>3
  <2>3. CASE x # c /\ venue[x] = <<>>
    BY <1>5, <2>3
  <2> QED BY <2>1, <2>2, <2>3
<1> QED BY <1>5, <1>6, <1>7, <1>10, <1>11, <1>12 DEF SysInv

LEMMA CoreStepStep ==
  ASSUME DivisibleLots, SysInv, CoreStep
  PROVE  SysInv'
<1> DEFINE C == {}
<1>1. C \in SUBSET ChildIds
  OBVIOUS
<1>2. venue' = venue /\ venue' \in [ChildIds -> Seq(VenueOrders)]
      /\ net_qty_lots' = net_qty_lots /\ executed' = executed
  BY DEF CoreStep, SysInv, OnStrategyOrder, SetUnwindMode, TakeReject
<1>3. executed' \in [Instruments -> Int] /\ PositionMatchesVenue'
  BY <1>2, PositionKept
<1>4. CoreInv /\ CoreInv'
  BY CoreNext DEF CoreStep, Next, SysInv
<1>5. CASE \E sig \in Signals : OnStrategyOrder(sig)
  <2>1. PICK sig \in Signals : Signaled(sig)
    BY <1>4, <1>5, SignalStep
  <2>2. \A x \in ChildIds : venue'[x] = venue[x] /\ (UnderWay(x) => Stays(x))
    BY <1>2, <1>4, <2>1, UnderWayDue, SignalStays
  <2>3. SendsApart
    <3>1. /\ outbound \subseteq outbound'
          /\ \A o \in outbound' \ outbound :
               /\ Agrees(o.child, o.ex, o.instr, o.dir, o.qty)'
               /\ children'[o.child].cum = 0
               /\ ~ReportDue(o.child)
          /\ \A o, o2 \in outbound' \ outbound : o.child = o2.child => o = o2
      BY <1>4, <2>1, SignalSends
    <3>2. ASSUME NEW o \in outbound' \ outbound
          PROVE  venue'[o.child] = <<>> /\ \A o2 \in outbound : o2.child # o.child
      <4>1. o.child \in ChildIds /\ ~ReportDue(o.child)
        BY <3>1, <3>2 DEF Agrees
      <4> QED BY <1>2, <4>1, NotUnderWay
    <3> QED BY <3>1, <3>2 DEF SendsApart
  <2> QED BY <1>1, <1>2, <1>3, <1>4, <2>2, <2>3, Together
<1>6. CASE (\E i \in Instruments, b \in UnwindModes : SetUnwindMode(i, b)) \/ TakeReject
  <2>1. UNCHANGED <<children, child_free, parents, outbound>>
    BY <1>6 DEF SetUnwindMode, TakeReject
  <2>2. ASSUME NEW x \in ChildIds, ReportDue(x) PROVE Stays(x)
    BY <2>1, <2>2 DEF Stays, ReportDue, ChildrenInUse
  <2>3. \A x \in ChildIds : venue'[x] = venue[x] /\ (UnderWay(x) => Stays(x))
    BY <1>2, <2>2, UnderWayDue
  <2>4. SendsApart
    BY <2>1 DEF SendsApart
  <2> QED BY <1>1, <1>2, <1>3, <1>4, <2>3, <2>4, Together
<1> QED BY <1>5, <1>6 DEF CoreStep

-----------------------------------------------------------------------------
(* The theorems                                                            *)

LEMMA SysInitial ==
  ASSUME SysInit
  PROVE  SysInv
<1>1. CoreInv
  BY CoreInit DEF SysInit
<1>2. outbound = {} /\ net_qty_lots = [i \in Instruments |-> 0]
  BY DEF SysInit, Init
<1>3. venue \in [ChildIds -> Seq(VenueOrders)] /\ \A c \in ChildIds : venue[c] = <<>>
  BY DEF SysInit
<1>4. executed \in [Instruments -> Int] /\ PositionMatchesVenue
  BY <1>2, LotSizeType DEF SysInit, PositionMatchesVenue
<1> QED BY <1>1, <1>2, <1>3, <1>4 DEF SysInv

LEMMA SysSteps ==
  ASSUME DivisibleLots, ~LateTimeouts, SysInv, [SysNext]_sysVars
  PROVE  SysInv'
<1>1. CASE UNCHANGED sysVars
  <2>1. CoreInv'
    BY <1>1, CoreNext DEF SysInv, sysVars
  <2> QED BY <1>1, <2>1 DEF sysVars, vars, SysInv, Queued, Works, Agrees, ReportDue,
                            ChildrenInUse, PositionMatchesVenue
<1>2. CASE CoreStep
  BY <1>2, CoreStepStep
<1>3. CASE \E o \in outbound : Send(o)
  BY <1>3, SendStep
<1>4. ASSUME NEW c \in ChildIds, Venue(c) PROVE SysInv'
  BY <1>4, AckStep, ExecuteStep, FinishStep DEF Venue
<1>5. CASE \E c \in ChildIds : Timeout(c)
  BY <1>5, TimerStep
<1> QED BY <1>1, <1>2, <1>3, <1>4, <1>5 DEF SysNext

LEMMA SysInvImplies ==
  ASSUME SysInv
  PROVE  BooksAgree
<1> SUFFICES ASSUME NEW c \in ChildIds, UnderWay(c)
             PROVE  /\ ReportDue(c)
                    /\ Len(venue[c]) + Cardinality({o \in outbound : o.child = c}) = 1
                    /\ \A k \in 1..Len(venue[c]) :
                         /\ venue[c][k].rem = children[c].leaves
                         /\ venue[c][k].ex = children[c].ex
                         /\ venue[c][k].dir = parents[children[c].parent].dir
  BY DEF BooksAgree
<1> DEFINE mine == {o \in outbound : o.child = c}
<1>1. ReportDue(c)
  BY UnderWayDue
<1>2. CASE venue[c] # <<>>
  <2>1. PICK v \in VenueOrders : Works(c, v)
    BY <1>2 DEF SysInv
  <2>2. venue[c] = <<v>> /\ Agrees(c, v.ex, v.instr, v.dir, v.rem)
    BY <2>1 DEF Works
  <2>3. Len(venue[c]) = 1 /\ venue[c][1] = v
    BY <2>2
  <2>4. mine = {}
    BY <1>2 DEF SysInv, Queued
  <2>5. Cardinality(mine) = 0
    BY <2>4, FS_EmptySet
  <2> QED BY <1>1, <2>2, <2>3, <2>5 DEF Agrees
<1>3. CASE venue[c] = <<>>
  <2>1. PICK o \in outbound : o.child = c
    BY <1>3 DEF UnderWay
  <2>2. mine = {o}
    BY <2>1 DEF SysInv
  <2>3. Cardinality(mine) = 1
    BY <2>2, FS_Singleton
  <2>4. Len(venue[c]) = 0
    BY <1>3
  <2> QED BY <1>1, <2>3, <2>4
<1> QED BY <1>2, <1>3

\* The strengthened invariant holds in every reachable state.
THEOREM SystemIsSafe ==
  ASSUME DivisibleLots, ~LateTimeouts
  PROVE  SysSpec => []SysInv
<1>1. SysInit => SysInv
  BY SysInitial
<1>2. SysInv /\ [SysNext]_sysVars => SysInv'
  BY SysSteps
<1> QED BY <1>1, <1>2, PTL DEF SysSpec

\* The core and the exchanges agree on every order under way: a venue works exactly
\* what the core's books say, and the core never uses a child id twice at a time.
THEOREM BooksAlwaysAgree ==
  ASSUME DivisibleLots, ~LateTimeouts
  PROVE  SysSpec => []BooksAgree
<1>1. SysInv => BooksAgree
  BY SysInvImplies
<1> QED BY <1>1, SystemIsSafe, PTL

\* The tracked position is what was really traded at the exchanges, to the base unit,
\* also where fills come in coarser lots than the position is counted in.
THEOREM PositionIsReal ==
  ASSUME DivisibleLots, ~LateTimeouts
  PROVE  SysSpec => []PositionMatchesVenue
<1>1. SysInv => PositionMatchesVenue
  BY DEF SysInv
<1> QED BY <1>1, SystemIsSafe, PTL

\* The pools of the core stay sound when its reports come from the exchanges.
THEOREM SystemPools ==
  ASSUME DivisibleLots, ~LateTimeouts
  PROVE  SysSpec => []PoolIntegrity
<1>1. SysInv => PoolIntegrity
  BY CoreInvImplies DEF SysInv
<1> QED BY <1>1, SystemIsSafe, PTL
=============================================================================
