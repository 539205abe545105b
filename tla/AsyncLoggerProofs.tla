-------------------------- MODULE AsyncLoggerProofs --------------------------
(***************************************************************************)
(* The ring of SpscQueue with one producer, of any size, and the logger    *)
(* around it, for any flush interval and number of calls.                  *)
(***************************************************************************)
EXTENDS AsyncLogger, ArithmeticLemmas, SequenceTheorems

-----------------------------------------------------------------------------
(* Indices of the ring                                                     *)

\* The distance from tail t to head h.
Distance(h, t) == IF h < t THEN h - t + N ELSE h - t

\* The index i places after t.
Place(t, i) == IF t + i < N THEN t + i ELSE t + i - N

LEMMA RingIndices ==
  ASSUME NEW h \in Slot, NEW t \in Slot
  PROVE  /\ Next1(h) = Place(h, 1)
         /\ (h - t + N) % N = Distance(h, t)
         /\ \A i \in 0..(N - 1) : (t + i) % N = Place(t, i) /\ Place(t, i) \in Slot
<1>1. N \in Nat \ {0} /\ N >= 2 /\ h \in Int /\ t \in Int
  BY RingAssumption DEF Slot
<1>2. ASSUME NEW x \in 0..(2 * N - 1)
      PROVE  x % N = IF x < N THEN x ELSE x - N
  BY <1>1, ModOnce
<1>3. Next1(h) = Place(h, 1)
  <2> DEFINE x == h + 1
  <2>1. x \in 0..(2 * N - 1)
    BY <1>1 DEF Slot
  <2> HIDE DEF x
  <2>2. x % N = IF x < N THEN x ELSE x - N
    BY <1>2, <2>1
  <2>3. Next1(h) = x % N
    BY Zenon DEF Next1, x
  <2>4. Place(h, 1) = IF x < N THEN x ELSE x - N
    BY <1>1 DEF Place, x
  <2> QED BY <2>2, <2>3, <2>4, Zenon
<1>4. (h - t + N) % N = Distance(h, t)
  <2> DEFINE x == h - t + N
  <2>1. x \in 0..(2 * N - 1)
    BY <1>1 DEF Slot
  <2>2. x < N <=> h < t
    BY <1>1
  <2>3. x - N = h - t
    BY <1>1
  <2> HIDE DEF x
  <2>4. x % N = IF x < N THEN x ELSE x - N
    BY <1>2, <2>1
  <2> QED BY <2>2, <2>3, <2>4 DEF Distance, x
<1>5. ASSUME NEW i \in 0..(N - 1)
      PROVE  (t + i) % N = Place(t, i) /\ Place(t, i) \in Slot
  <2> DEFINE x == t + i
  <2>1. x \in 0..(2 * N - 1)
    BY <1>1 DEF Slot
  <2> HIDE DEF x
  <2>2. x % N = IF x < N THEN x ELSE x - N
    BY <1>2, <2>1
  <2>3. (IF x < N THEN x ELSE x - N) \in Slot
    BY <1>1, <2>1 DEF Slot
  <2>4. (t + i) % N = x % N
    BY Zenon DEF x
  <2>5. Place(t, i) = IF x < N THEN x ELSE x - N
    BY <1>1 DEF Place, x
  <2> QED BY <2>2, <2>3, <2>4, <2>5, Zenon
<1> QED BY <1>3, <1>4, <1>5

-----------------------------------------------------------------------------
(* The ring                                                                *)

\* What the single producer t and the consumer know of each other: only t moves
\* head_, so the head it has loaded is still the head; a slot it may write is not
\* one the consumer may read, and what it has written is still there.
RingInv(t) ==
  /\ TypeOK
  /\ push_pc[t] # "idle" => push_h[t] = head_ /\ push_v[t] \in Items
  /\ push_pc[t] \in {"write", "publish"} => Next1(head_) # tail_
  /\ push_pc[t] = "publish" => buf_[head_] = push_v[t]
  /\ pop_pc \in {"read", "publish"} => tail_ # head_
  /\ pop_pc = "publish" => pop_v = buf_[tail_]

LEMMA RingInit ==
  ASSUME NEW t, Producers = {t}, Init
  PROVE  RingInv(t)
BY RingAssumption DEF Init, RingInv, TypeOK, Slot

LEMMA RingNext ==
  ASSUME NEW t, Producers = {t}, RingInv(t), [Next]_vars
  PROVE  RingInv(t)'
<1> USE DEF RingInv, TypeOK
<1>0. /\ \A i \in Slot : Next1(i) \in Slot /\ Next1(i) # i
      /\ \A i, j \in Slot : Next1(i) = Next1(j) => i = j
  <2>1. N \in Nat /\ N >= 2
    BY RingAssumption
  <2>2. \A i \in Slot : Next1(i) = Place(i, 1)
    BY RingIndices
  <2> QED BY <2>1, <2>2 DEF Slot, Place
<1>1. CASE UNCHANGED vars
  BY <1>1 DEF vars
<1>2. CASE PopLoadHead
  BY <1>2 DEF PopLoadHead
<1>3. CASE PopRead
  BY <1>3 DEF PopRead
<1>4. CASE PopPublish
  BY <1>0, <1>4 DEF PopPublish
<1>5. CASE \E v \in Items : PushLoadHead(t, v)
  BY <1>5 DEF PushLoadHead
<1>6. CASE PushLoadTail(t)
  BY <1>6 DEF PushLoadTail
<1>7. CASE PushWrite(t)
  BY <1>7 DEF PushWrite
<1>8. CASE PushPublish(t)
  BY <1>0, <1>8 DEF PushPublish
<1> QED BY <1>1, <1>2, <1>3, <1>4, <1>5, <1>6, <1>7, <1>8 DEF Next, Pop, Push

\* Publishing moves the head one away from the tail, popping the tail one closer to
\* the head; the two meet when the ring is empty.
LEMMA RingDistance ==
  ASSUME NEW h \in Slot, NEW t \in Slot
  PROVE  /\ Distance(h, t) \in 0..(N - 1)
         /\ Distance(h, t) = 0 <=> h = t
         /\ Next1(h) # t => Distance(h, t) < N - 1 /\ Distance(Next1(h), t) = Distance(h, t) + 1
         /\ h # t => Distance(h, Next1(t)) = Distance(h, t) - 1
<1>1. N \in Nat \ {0} /\ N >= 2 /\ h \in Int /\ t \in Int
  BY RingAssumption DEF Slot
<1>2. Next1(h) = Place(h, 1) /\ Next1(t) = Place(t, 1)
  BY RingIndices
<1> QED BY <1>1, <1>2 DEF Distance, Place, Slot

LEMMA SizeIsDistance ==
  ASSUME TypeOK
  PROVE  Size = Distance(head_, tail_)
BY RingIndices DEF TypeOK, Size

\* Every register and slot keeps its type, whatever the number of producers.
THEOREM RingTypes == Spec => []TypeOK
<1>1. Init => TypeOK
  BY RingAssumption DEF Init, TypeOK, Slot
<1>2. TypeOK /\ [Next]_vars => TypeOK'
  <2> SUFFICES ASSUME TypeOK, [Next]_vars PROVE TypeOK'
    OBVIOUS
  <2> USE DEF TypeOK
  <2>0. \A i \in Slot : Next1(i) \in Slot
    <3>1. N \in Nat /\ N >= 2
      BY RingAssumption
    <3>2. \A i \in Slot : Next1(i) = Place(i, 1)
      BY RingIndices
    <3> QED BY <3>1, <3>2 DEF Slot, Place
  <2>1. CASE UNCHANGED vars
    BY <2>1 DEF vars
  <2>2. CASE Pop
    BY <2>0, <2>2 DEF Pop, PopLoadHead, PopRead, PopPublish
  <2>3. ASSUME NEW t \in Producers, Push(t) PROVE TypeOK'
    <3>1. CASE \E v \in Items : PushLoadHead(t, v)
      BY <3>1 DEF PushLoadHead
    <3>2. CASE PushLoadTail(t)
      BY <3>2 DEF PushLoadTail
    <3>3. CASE PushWrite(t)
      BY <3>3 DEF PushWrite
    <3>4. CASE PushPublish(t)
      BY <2>0, <3>4 DEF PushPublish
    <3> QED BY <2>3, <3>1, <3>2, <3>3, <3>4 DEF Push
  <2> QED BY <2>1, <2>2, <2>3 DEF Next
<1> QED BY <1>1, <1>2, PTL DEF Spec

LEMMA RingInvariant ==
  ASSUME NEW CONSTANT t, Producers = {t}
  PROVE  Spec => []RingInv(t)
<1>1. Init => RingInv(t)
  BY RingInit
<1>2. RingInv(t) /\ [Next]_vars => RingInv(t)'
  BY RingNext
<1> QED BY <1>1, <1>2, PTL DEF Spec

\* One producer and the consumer never touch one slot at the same time.
LEMMA RingInvShares ==
  ASSUME NEW t, Producers = {t}, RingInv(t)
  PROVE  NoSharedSlot
BY DEF RingInv, NoSharedSlot

THEOREM RingSlots ==
  ASSUME NEW CONSTANT t, Producers = {t}
  PROVE  Spec => []NoSharedSlot
BY RingInvariant, RingInvShares, PTL

-----------------------------------------------------------------------------
(* The ring implements the FIFO                                            *)

\* A function on 1..n is a sequence of length n.
LEMMA FunctionIsSeq ==
  ASSUME NEW n \in Nat, NEW S, NEW f \in [1..n -> S]
  PROVE  f \in Seq(S) /\ Len(f) = n
BY SeqDef

\* What n items starting at slot t of buffer b hold.
Content(b, t, n) == [i \in 1..n |-> b[(t + i - 1) % N]]

LEMMA ContentIsSeq ==
  ASSUME NEW b \in [Slot -> Items \cup {Nothing}], NEW t \in Slot, NEW n \in 0..(N - 1)
  PROVE  /\ Content(b, t, n) \in Seq(Items \cup {Nothing})
         /\ Len(Content(b, t, n)) = n
         /\ \A i \in 1..n : Content(b, t, n)[i] = b[Place(t, i - 1)]
<1>1. N \in Nat /\ N >= 2 /\ t \in Int
  BY RingAssumption DEF Slot
<1>2. ASSUME NEW i \in 1..n
      PROVE  (t + i - 1) % N = Place(t, i - 1) /\ Place(t, i - 1) \in Slot
  <2>1. i - 1 \in 0..(N - 1) /\ t + i - 1 = t + (i - 1)
    BY <1>1
  <2> QED BY <2>1, RingIndices
<1>3. Content(b, t, n) \in [1..n -> Items \cup {Nothing}]
  BY <1>2 DEF Content
<1>4. \A i \in 1..n : Content(b, t, n)[i] = b[Place(t, i - 1)]
  BY <1>2 DEF Content
<1> QED BY <1>1, <1>3, <1>4, FunctionIsSeq

\* Publishing the slot after the content appends the item it holds.
LEMMA ContentPut ==
  ASSUME NEW b \in [Slot -> Items \cup {Nothing}], NEW t \in Slot, NEW n \in 0..(N - 2)
  PROVE  Content(b, t, n + 1) = Append(Content(b, t, n), b[Place(t, n)])
<1> DEFINE S == Items \cup {Nothing}
           c == Content(b, t, n)
           d == Content(b, t, n + 1)
           x == b[Place(t, n)]
<1>1. N \in Nat /\ N >= 2 /\ n \in 0..(N - 1) /\ n + 1 \in 0..(N - 1)
  BY RingAssumption
<1>2. /\ c \in Seq(S) /\ Len(c) = n
      /\ \A i \in 1..n : c[i] = b[Place(t, i - 1)]
  BY <1>1, ContentIsSeq
<1>3. /\ d \in Seq(S) /\ Len(d) = n + 1
      /\ \A i \in 1..(n + 1) : d[i] = b[Place(t, i - 1)]
  BY <1>1, ContentIsSeq
<1>4. x \in S
  <2>1. Place(t, n) \in Slot
    BY <1>1, RingIndices
  <2> QED BY <2>1
<1>5. d[n + 1] = x
  BY <1>1, <1>3
<1> HIDE DEF S, c, d, x
<1>6. \A i \in 1..n : d[i] = c[i]
  <2> SUFFICES ASSUME NEW i \in 1..n PROVE d[i] = c[i]
    OBVIOUS
  <2>1. i \in 1..(n + 1)
    BY <1>1
  <2> QED BY <1>2, <1>3, <2>1
<1>7. /\ Append(c, x) \in Seq(S) /\ Len(Append(c, x)) = n + 1
      /\ \A i \in 1..n : Append(c, x)[i] = c[i]
      /\ Append(c, x)[n + 1] = x
  BY <1>1, <1>2, <1>4
<1>8. \A i \in 1..Len(d) : d[i] = Append(c, x)[i]
  BY <1>1, <1>3, <1>5, <1>6, <1>7
<1>9. d = Append(c, x)
  BY <1>3, <1>7, <1>8, SeqEqual
<1> QED BY <1>9 DEF c, d, x

\* Moving the tail takes the head of the content off.
LEMMA ContentGet ==
  ASSUME NEW b \in [Slot -> Items \cup {Nothing}], NEW t \in Slot, NEW n \in 1..(N - 1)
  PROVE  /\ Content(b, t, n) # <<>>
         /\ Head(Content(b, t, n)) = b[t]
         /\ Content(b, Next1(t), n - 1) = Tail(Content(b, t, n))
<1> DEFINE S == Items \cup {Nothing}
           c == Content(b, t, n)
           u == Next1(t)
           d == Content(b, u, n - 1)
<1>1. N \in Nat /\ N >= 2 /\ n \in 0..(N - 1) /\ n - 1 \in 0..(N - 1) /\ t \in Int
  BY RingAssumption DEF Slot
<1>2. /\ c \in Seq(S) /\ Len(c) = n
      /\ \A i \in 1..n : c[i] = b[Place(t, i - 1)]
  BY <1>1, ContentIsSeq
<1>3. u = Place(t, 1) /\ u \in Slot
  <2>1. 1 \in 0..(N - 1)
    BY <1>1
  <2> QED BY <2>1, RingIndices
<1>4. /\ d \in Seq(S) /\ Len(d) = n - 1
      /\ \A i \in 1..(n - 1) : d[i] = b[Place(u, i - 1)]
  BY <1>1, <1>3, ContentIsSeq
<1>5. c # <<>>
  BY <1>1, <1>2
<1>6. c[1] = b[t]
  <2>1. Place(t, 0) = t
    BY <1>1 DEF Place, Slot
  <2> QED BY <1>1, <1>2, <2>1
<1>7. \A i \in 1..(n - 1) : d[i] = c[i + 1]
  <2> SUFFICES ASSUME NEW i \in 1..(n - 1) PROVE d[i] = c[i + 1]
    OBVIOUS
  <2>1. Place(u, i - 1) = Place(t, i)
    BY <1>1, <1>3 DEF Place, Slot
  <2>2. i + 1 \in 1..n /\ (i + 1) - 1 = i
    BY <1>1
  <2>3. c[i + 1] = b[Place(t, i)]
    BY <1>2, <2>2
  <2> QED BY <1>4, <2>1, <2>3
<1> HIDE DEF S, c, d, u
<1>8. /\ Tail(c) \in Seq(S) /\ Len(Tail(c)) = n - 1
      /\ \A i \in 1..Len(Tail(c)) : Tail(c)[i] = c[i + 1]
  BY <1>2, <1>5, HeadTailProperties
<1>9. d = Tail(c)
  BY <1>4, <1>7, <1>8, SeqEqual
<1>10. Head(c) = b[t]
  BY <1>2, <1>5, <1>6
<1> QED BY <1>5, <1>9, <1>10 DEF c, d, u

\* The content ends at the head: no slot of it is the head.
LEMMA ContentEnds ==
  ASSUME NEW h \in Slot, NEW t \in Slot
  PROVE  /\ Place(t, Distance(h, t)) = h
         /\ \A j \in 0..(Distance(h, t) - 1) : Place(t, j) # h
<1>1. N \in Nat \ {0} /\ N >= 2 /\ h \in Int /\ t \in Int
  BY RingAssumption DEF Slot
<1> QED BY <1>1 DEF Distance, Place, Slot

\* Writing the slot at the head does not change the content.
LEMMA ContentKept ==
  ASSUME NEW b \in [Slot -> Items \cup {Nothing}], NEW h \in Slot, NEW t \in Slot,
         NEW v \in Items \cup {Nothing}
  PROVE  Content([b EXCEPT ![h] = v], t, Distance(h, t)) = Content(b, t, Distance(h, t))
<1> DEFINE n == Distance(h, t)
           c == [b EXCEPT ![h] = v]
<1>1. n \in 0..(N - 1) /\ N \in Nat /\ n \in Int
  BY RingDistance, RingAssumption
<1>2. c \in [Slot -> Items \cup {Nothing}]
  OBVIOUS
<1>3. \A i \in 0..(N - 1) : (t + i) % N = Place(t, i) /\ Place(t, i) \in Slot
  BY RingIndices
<1>4. \A j \in 0..(n - 1) : Place(t, j) # h
  BY ContentEnds
<1> HIDE DEF n
<1>5. ASSUME NEW i \in 1..n
      PROVE  c[(t + i - 1) % N] = b[(t + i - 1) % N]
  <2>1. i - 1 \in 0..(N - 1) /\ i - 1 \in 0..(n - 1) /\ t + i - 1 = t + (i - 1)
    BY <1>1 DEF Slot
  <2>2. (t + i - 1) % N = Place(t, i - 1) /\ Place(t, i - 1) \in Slot /\ Place(t, i - 1) # h
    BY <1>3, <1>4, <2>1
  <2> QED BY <2>2
<1> QED BY <1>5 DEF Content, n

LEMMA FifoStart ==
  ASSUME NEW t, Producers = {t}, Init
  PROVE  Fifo!FifoInit
<1>1. TypeOK
  BY RingInit DEF RingInv
<1>2. Size = 0
  BY <1>1, SizeIsDistance DEF Init, Distance
<1> QED BY <1>2 DEF Init, Fifo!FifoInit

\* PushPublish is Put, PopPublish is Get, and every other step is invisible.
LEMMA FifoStep ==
  ASSUME NEW t, Producers = {t}, RingInv(t), RingInv(t)', [Next]_vars
  PROVE  [Fifo!FifoNext]_(Fifo!fifoVars)
<1> DEFINE q == [i \in 1..Size |-> buf_[(tail_ + i - 1) % N]]
           n == Distance(head_, tail_)
<1>1. /\ head_ \in Slot /\ tail_ \in Slot /\ buf_ \in [Slot -> Items \cup {Nothing}]
      /\ head_' \in Slot /\ tail_' \in Slot /\ N \in Nat /\ N >= 2
  BY RingAssumption DEF RingInv, TypeOK
<1>2. Size = n /\ q = Content(buf_, tail_, n)
  BY <1>1, RingIndices DEF Content, Size
<1>3. Size' = n' /\ q' = Content(buf_', tail_', n')
  BY <1>1, RingIndices DEF Content, Size
<1>4. n \in 0..(N - 1)
  BY <1>1, RingDistance
<1>5. ASSUME UNCHANGED <<q, got>> PROVE [Fifo!FifoNext]_(Fifo!fifoVars)
  BY <1>5 DEF Fifo!fifoVars
<1>6. CASE UNCHANGED <<buf_, head_, tail_, got>>
  BY <1>2, <1>3, <1>5, <1>6
<1>7. CASE PushWrite(t)
  <2>1. buf_' = [buf_ EXCEPT ![head_] = push_v[t]] /\ push_v[t] \in Items \cup {Nothing}
    BY <1>7 DEF PushWrite, RingInv, TypeOK
  <2>2. UNCHANGED <<head_, tail_, got>>
    BY <1>7 DEF PushWrite
  <2>3. n' = n
    BY <2>2
  <2>4. Content(buf_', tail_, n) = Content(buf_, tail_, n)
    BY <1>1, <2>1, ContentKept
  <2> HIDE DEF n
  <2>5. q' = q
    BY <1>2, <1>3, <2>2, <2>3, <2>4, Zenon
  <2> QED BY <1>5, <2>2, <2>5
<1>8. CASE PushPublish(t)
  <2>1. /\ head_' = Next1(head_) /\ Next1(head_) # tail_ /\ UNCHANGED <<buf_, tail_, got>>
        /\ buf_[head_] = push_v[t] /\ push_v[t] \in Items
    BY <1>8 DEF PushPublish, RingInv
  <2>2. n' = n + 1 /\ n < N - 1
    BY <1>1, <2>1, RingDistance
  <2>3. q' = Append(q, buf_[head_])
    <3>1. n \in 0..(N - 2)
      BY <1>1, <1>4, <2>2
    <3>2. Place(tail_, n) = head_
      BY <1>1, ContentEnds
    <3> HIDE DEF n
    <3>3. Content(buf_, tail_, n + 1) = Append(Content(buf_, tail_, n), buf_[Place(tail_, n)])
      BY <1>1, <3>1, ContentPut
    <3> QED BY <1>2, <1>3, <2>1, <2>2, <3>2, <3>3
  <2>4. Len(q) < N - 1
    <3>1. Len(q) = n
      BY <1>1, <1>2, <1>4, ContentIsSeq
    <3> QED BY <2>2, <3>1
  <2>5. PICK v \in Items : v = buf_[head_]
    BY <2>1
  <2>6. Fifo!FifoNext
    BY <2>1, <2>3, <2>4, <2>5 DEF Fifo!FifoNext, Fifo!Put
  <2> QED BY <2>6
<1>9. CASE PopPublish
  <2>1. /\ tail_' = Next1(tail_) /\ tail_ # head_ /\ UNCHANGED <<buf_, head_>>
        /\ got' = buf_[tail_]
    BY <1>9 DEF PopPublish, RingInv
  <2>2. n' = n - 1 /\ n # 0
    BY <1>1, <2>1, RingDistance
  <2>3. /\ Content(buf_, tail_, n) # <<>>
        /\ Head(Content(buf_, tail_, n)) = buf_[tail_]
        /\ Content(buf_, Next1(tail_), n - 1) = Tail(Content(buf_, tail_, n))
    <3>1. n \in 1..(N - 1)
      BY <1>1, <1>4, <2>2
    <3> HIDE DEF n
    <3> QED BY <1>1, <3>1, ContentGet
  <2>4. q # <<>> /\ Head(q) = got' /\ q' = Tail(q)
    BY <1>2, <1>3, <2>1, <2>2, <2>3
  <2>5. Fifo!Get
    BY <2>4 DEF Fifo!Get
  <2> QED BY <2>5 DEF Fifo!FifoNext
<1> QED BY <1>6, <1>7, <1>8, <1>9
        DEF Next, Pop, Push, vars, PopLoadHead, PopRead, PushLoadHead, PushLoadTail

\* With one producer the ring, of any size, is a FIFO of N - 1 items: what pop returns
\* was pushed, in order, and once, however the two threads interleave.
THEOREM RingIsFifo ==
  ASSUME NEW CONSTANT t, Producers = {t}
  PROVE  Spec => ImplementsFifo
<1>1. Init => Fifo!FifoInit
  BY FifoStart
<1>2. RingInv(t) /\ RingInv(t)' /\ [Next]_vars => [Fifo!FifoNext]_(Fifo!fifoVars)
  BY FifoStep
<1> QED BY <1>1, <1>2, RingInvariant, PTL DEF Spec, ImplementsFifo, Fifo!FifoSpec

-----------------------------------------------------------------------------
(* The logger                                                              *)

\* A step of the logger is a step of its ring.
LEMMA LogStepIsRingStep == [LogNext]_logVars => [Next]_vars
<1> SUFFICES ASSUME [LogNext]_logVars PROVE [Next]_vars
  OBVIOUS
<1>1. ASSUME NEW t \in Producers, LogCall(t) \/ LogFullCheck(t) \/ LogWrite(t) PROVE Next
  BY <1>1 DEF LogCall, LogFullCheck, LogWrite, Next, Push
<1>2. CASE Drain
  BY <1>2 DEF Drain, DrainCheck, DrainRecheck, DrainYield, DrainLoad, DrainWrite,
              DrainAdvance, DrainFlush, Next, Pop
<1>3. CASE Start \/ Shutdown \/ Join
  BY <1>3 DEF Start, Shutdown, Join
<1>4. CASE UNCHANGED logVars
  BY <1>4 DEF logVars
<1> QED BY <1>1, <1>2, <1>3, <1>4 DEF LogNext

\* Everything proved of the ring holds of the logger's ring.
LEMMA LogIsRing == LogSpec => Spec
BY LogStepIsRingStep, PTL DEF LogSpec, LogInit, Spec

\* Types of the logger's own variables, and the drain thread's place in pop.
LogTypes ==
  /\ running_ \in BOOLEAN
  /\ drain_pc \in {"none", "check", "recheck", "load", "entry", "flush", "exited"}
  /\ main_pc \in {"up", "joining", "down"}
  /\ filed \in Nat /\ flushed \in Nat /\ dropped_ \in Nat /\ calls \in Nat /\ atStop \in Nat
  /\ flushed <= filed
  /\ pop_pc # "idle" <=> drain_pc = "entry"
  /\ drain_pc = "none" => filed = 0

\* Items on their way: published and not yet on file.
Waiting == Distance(head_, tail_) - (IF pop_pc = "publish" THEN 1 ELSE 0)

\* The flush cycle: the slots drained since the last slot whose index is a multiple of
\* FlushEvery.  The ring wraps to slot 0, which is one, so a cycle is never longer.
FlushInv ==
  LET m == tail_ % FlushEvery  gap == filed - flushed
  IN  /\ pop_pc = "publish" => gap <= (IF m = 0 THEN FlushEvery ELSE m)
      /\ pop_pc # "publish" /\ drain_pc # "flush" => gap <= (IF m = 0 THEN FlushEvery ELSE m) - 1
      /\ gap <= FlushEvery

\* Once running_ is cleared the drain thread leaves only over an empty ring.
StopInv ==
  /\ main_pc # "up" => ~running_ /\ filed + Waiting >= atStop
  /\ drain_pc # "none" /\ main_pc = "up" => running_
  /\ drain_pc = "recheck" => ~running_
  /\ drain_pc = "exited" => main_pc # "up" /\ flushed >= atStop

LogInv(t) == RingInv(t) /\ LogTypes /\ FlushInv /\ StopInv

\* How a step moves the distance between the indices: only the two publications do.
LEMMA DistanceStep ==
  ASSUME NEW t, Producers = {t}, RingInv(t), RingInv(t)', [Next]_vars
  PROVE  LET D == Distance(head_, tail_)
         IN  /\ D \in Nat /\ D' \in Nat
             /\ D = 0 <=> head_ = tail_
             /\ PushPublish(t) => D' = D + 1
             /\ PopPublish => D' = D - 1
             /\ UNCHANGED <<head_, tail_>> => D' = D
             /\ ~PushPublish(t) /\ ~PopPublish => UNCHANGED <<head_, tail_>>
<1>1. head_ \in Slot /\ tail_ \in Slot /\ head_' \in Slot /\ tail_' \in Slot
  BY DEF RingInv, TypeOK
<1>2. /\ Distance(head_, tail_) \in 0..(N - 1)
      /\ Distance(head_, tail_) = 0 <=> head_ = tail_
      /\ Next1(head_) # tail_ => Distance(Next1(head_), tail_) = Distance(head_, tail_) + 1
      /\ head_ # tail_ => Distance(head_, Next1(tail_)) = Distance(head_, tail_) - 1
  BY <1>1, RingDistance
<1>3. Distance(head_', tail_') \in 0..(N - 1)
  BY <1>1, RingDistance
<1>4. PushPublish(t) => Next1(head_) # tail_ /\ head_' = Next1(head_) /\ tail_' = tail_
  BY DEF PushPublish, RingInv
<1>5. PopPublish => head_ # tail_ /\ head_' = head_ /\ tail_' = Next1(tail_)
  BY DEF PopPublish, RingInv
<1>6. ~PushPublish(t) /\ ~PopPublish => UNCHANGED <<head_, tail_>>
  BY DEF Next, Pop, Push, vars, PopLoadHead, PopRead, PushLoadHead, PushLoadTail, PushWrite
<1> QED BY <1>2, <1>3, <1>4, <1>5, <1>6, RingAssumption

\* The steps of a logger that one thread uses.
LEMMA LogCases ==
  ASSUME NEW t, Producers = {t}, [LogNext]_logVars
  PROVE  \/ LogCall(t) \/ LogFullCheck(t) \/ LogWrite(t)
         \/ DrainCheck \/ DrainRecheck \/ DrainYield \/ DrainLoad
         \/ DrainWrite \/ DrainAdvance \/ DrainFlush
         \/ Start \/ Shutdown \/ Join
         \/ UNCHANGED logVars
BY Zenon DEF LogNext, Drain

LEMMA LogTypesNext ==
  ASSUME NEW t, Producers = {t}, RingInv(t), RingInv(t)', LogTypes, FlushInv, StopInv,
         [LogNext]_logVars
  PROVE  LogTypes'
<1> DEFINE D == Distance(head_, tail_)
<1>1. D \in Nat /\ D' \in Nat /\ (D = 0 <=> head_ = tail_)
  BY LogStepIsRingStep, DistanceStep
<1>2. /\ pop_pc \in {"idle", "read", "publish"}
      /\ pop_pc # "idle" => head_ # tail_
  BY DEF RingInv, TypeOK
<1>3. CASE LogCall(t)
  BY <1>3 DEF LogCall, LogTypes, PushLoadHead, ctlVars, fileVars
<1>4. CASE LogFullCheck(t)
  BY <1>4 DEF LogFullCheck, LogTypes, PushLoadTail, ctlVars, fileVars
<1>5. CASE LogWrite(t)
  BY <1>5 DEF LogWrite, LogTypes, PushWrite, PushPublish, ctlVars, fileVars
<1>6. CASE DrainCheck
  BY <1>6 DEF DrainCheck, LogTypes, vars, fileVars
<1>7. CASE DrainRecheck
  BY <1>7 DEF DrainRecheck, LogTypes, vars
<1>8. CASE DrainYield
  BY <1>8 DEF DrainYield, LogTypes, vars, fileVars
<1>9. CASE DrainLoad
  BY <1>9 DEF DrainLoad, LogTypes, PopLoadHead, fileVars
<1>10. CASE DrainWrite
  BY <1>10 DEF DrainWrite, LogTypes, PopRead, ctlVars
<1>11. CASE DrainAdvance
  BY <1>11 DEF DrainAdvance, LogTypes, PopPublish, fileVars
<1>12. CASE DrainFlush
  BY <1>12 DEF DrainFlush, LogTypes, vars
<1>13. CASE Start
  BY <1>13 DEF Start, LogTypes, vars, fileVars
<1>14. CASE Shutdown
  <2>1. atStop' = filed + InRing
    BY <1>14 DEF Shutdown
  <2>2. InRing \in Nat
    BY <1>1, <1>2, SizeIsDistance DEF InRing, RingInv
  <2>3. atStop' \in Nat
    BY <2>1, <2>2 DEF LogTypes
  <2>4. /\ running_' = FALSE /\ main_pc' = "joining"
        /\ UNCHANGED <<drain_pc, filed, flushed, dropped_, calls, pop_pc>>
    BY <1>14 DEF Shutdown, vars, fileVars
  <2> QED BY <2>3, <2>4 DEF LogTypes
<1>15. CASE Join
  BY <1>15 DEF Join, LogTypes, vars
<1>16. CASE UNCHANGED logVars
  BY <1>16 DEF logVars, LogTypes, vars
<1> QED BY <1>3, <1>4, <1>5, <1>6, <1>7, <1>8, <1>9, <1>10, <1>11, <1>12, <1>13, <1>14, <1>15, <1>16,
           LogCases, Zenon

\* What a step does to the entries on their way.
LEMMA WaitingStep ==
  ASSUME NEW t, Producers = {t}, RingInv(t), RingInv(t)', [LogNext]_logVars
  PROVE  /\ Waiting \in Nat /\ Waiting' \in Nat
         /\ head_ = tail_ => Waiting = 0
         /\ PushPublish(t) => Waiting' = Waiting + 1
         /\ PopRead => Waiting' = Waiting - 1
         /\ PopPublish => Waiting' = Waiting
         /\ PopLoadHead => Waiting' = Waiting
         /\ UNCHANGED <<head_, tail_, pop_pc>> => Waiting' = Waiting
<1> DEFINE D == Distance(head_, tail_)
           E == Distance(head_', tail_')
<1>1. /\ D \in Nat /\ E \in Nat
      /\ D = 0 <=> head_ = tail_
      /\ PushPublish(t) => E = D + 1
      /\ PopPublish => E = D - 1
      /\ UNCHANGED <<head_, tail_>> => E = D
  BY LogStepIsRingStep, DistanceStep
<1>2. /\ pop_pc = "publish" => head_ # tail_
      /\ pop_pc' = "publish" => E # 0
  <2>1. pop_pc = "publish" => head_ # tail_
    BY DEF RingInv
  <2>2. pop_pc' = "publish" => head_' # tail_'
    BY DEF RingInv
  <2>3. head_' \in Slot /\ tail_' \in Slot
    BY DEF RingInv, TypeOK
  <2>4. E = 0 <=> head_' = tail_'
    BY <2>3, RingDistance
  <2> QED BY <2>1, <2>2, <2>4
<1> HIDE DEF D, E
<1>3. /\ Waiting = D - (IF pop_pc = "publish" THEN 1 ELSE 0)
      /\ Waiting' = E - (IF pop_pc' = "publish" THEN 1 ELSE 0)
  BY DEF Waiting, D, E
<1>4. Waiting \in Nat /\ Waiting' \in Nat /\ (head_ = tail_ => Waiting = 0)
  <2>1. (pop_pc = "publish" => D # 0) /\ (pop_pc' = "publish" => E # 0)
    BY <1>1, <1>2
  <2>2. Waiting \in Nat
    BY <1>1, <1>3, <2>1
  <2>3. Waiting' \in Nat
    BY <1>1, <1>3, <2>1
  <2>4. head_ = tail_ => Waiting = 0
    BY <1>1, <1>2, <1>3
  <2> QED BY <2>2, <2>3, <2>4
<1>5. PushPublish(t) => Waiting' = Waiting + 1
  BY <1>1, <1>3 DEF PushPublish
<1>6. PopRead => Waiting' = Waiting - 1
  BY <1>1, <1>3 DEF PopRead
<1>7. PopPublish => Waiting' = Waiting
  BY <1>1, <1>3 DEF PopPublish
<1>8. PopLoadHead => Waiting' = Waiting
  BY <1>1, <1>3 DEF PopLoadHead
<1>9. UNCHANGED <<head_, tail_, pop_pc>> => Waiting' = Waiting
  BY <1>1, <1>3
<1> QED BY <1>4, <1>5, <1>6, <1>7, <1>8, <1>9

LEMMA FlushNext ==
  ASSUME NEW t, Producers = {t}, RingInv(t), RingInv(t)', LogTypes, LogTypes', FlushInv,
         [LogNext]_logVars
  PROVE  FlushInv'
<1> DEFINE m == tail_ % FlushEvery
           M == tail_' % FlushEvery
           F == FlushEvery
<1>1. /\ m \in 0..(F - 1) /\ M \in 0..(F - 1) /\ F \in Nat \ {0}
      /\ tail_' = Next1(tail_) => M = 0 \/ M = m + 1
  <2>1. tail_ \in Slot /\ tail_' \in Slot /\ F \in Nat \ {0} /\ N \in Nat
    BY LoggerAssumption, RingAssumption DEF RingInv, TypeOK
  <2>2. tail_ \in Nat /\ tail_' \in Nat
    BY <2>1 DEF Slot
  <2>3. m \in 0..(F - 1) /\ M \in 0..(F - 1)
    BY <2>1, <2>2, ModSucc
  <2>4. (tail_ + 1) % F = 0 \/ (tail_ + 1) % F = m + 1
    BY <2>1, <2>2, ModSucc
  <2>5. ASSUME tail_' = Next1(tail_) PROVE M = 0 \/ M = m + 1
    <3>1. Next1(tail_) = Place(tail_, 1)
      BY <2>1, RingIndices
    <3>2. CASE tail_' = tail_ + 1
      BY <2>4, <3>2
    <3>3. CASE tail_' = 0
      BY <2>1, <3>3, ModOnce
    <3> QED BY <2>1, <2>2, <2>5, <3>1, <3>2, <3>3 DEF Place, Slot
  <2> QED BY <2>1, <2>3, <2>5
<1>2. /\ filed \in Nat /\ flushed \in Nat /\ filed' \in Nat /\ flushed' \in Nat
      /\ pop_pc # "idle" <=> drain_pc = "entry"
      /\ pop_pc' # "idle" <=> drain_pc' = "entry"
  BY DEF LogTypes
<1>3. /\ pop_pc = "publish" => filed - flushed <= (IF m = 0 THEN F ELSE m)
      /\ pop_pc # "publish" /\ drain_pc # "flush" => filed - flushed <= (IF m = 0 THEN F ELSE m) - 1
      /\ filed - flushed <= F
  BY DEF FlushInv
<1>4. SUFFICES
      /\ pop_pc' = "publish" => filed' - flushed' <= (IF M = 0 THEN F ELSE M)
      /\ pop_pc' # "publish" /\ drain_pc' # "flush" => filed' - flushed' <= (IF M = 0 THEN F ELSE M) - 1
      /\ filed' - flushed' <= F
  BY DEF FlushInv
<1>5. tail_' = tail_ => M = m
  OBVIOUS
<1> HIDE DEF m, M, F
<1>6. CASE LogCall(t)
  BY <1>1, <1>2, <1>3, <1>5, <1>6 DEF LogCall, PushLoadHead, ctlVars, fileVars
<1>7. CASE LogFullCheck(t)
  BY <1>1, <1>2, <1>3, <1>5, <1>7 DEF LogFullCheck, PushLoadTail, ctlVars, fileVars
<1>8. CASE LogWrite(t)
  BY <1>1, <1>2, <1>3, <1>5, <1>8 DEF LogWrite, PushWrite, PushPublish, ctlVars, fileVars
<1>9. CASE DrainCheck \/ DrainYield
  BY <1>1, <1>2, <1>3, <1>5, <1>9 DEF DrainCheck, DrainYield, vars, fileVars
<1>10. CASE DrainRecheck
  BY <1>1, <1>2, <1>3, <1>5, <1>10 DEF DrainRecheck, vars
<1>11. CASE DrainLoad
  BY <1>1, <1>2, <1>3, <1>5, <1>11 DEF DrainLoad, PopLoadHead, fileVars
<1>12. CASE DrainWrite
  BY <1>1, <1>2, <1>3, <1>5, <1>12 DEF DrainWrite, PopRead, ctlVars
<1>13. CASE DrainAdvance
  <2>1. drain_pc' = IF m = 0 THEN "flush" ELSE "check"
    BY <1>13 DEF DrainAdvance, m
  <2>2. /\ tail_' = Next1(tail_) /\ pop_pc = "publish" /\ pop_pc' = "idle"
        /\ UNCHANGED <<filed, flushed>>
    BY <1>13 DEF DrainAdvance, PopPublish, fileVars
  <2> QED BY <1>1, <1>2, <1>3, <2>1, <2>2
<1>14. CASE DrainFlush
  BY <1>1, <1>2, <1>3, <1>5, <1>14 DEF DrainFlush, vars
<1>15. CASE Start \/ Shutdown
  BY <1>1, <1>2, <1>3, <1>5, <1>15 DEF Start, Shutdown, vars, fileVars
<1>16. CASE Join
  BY <1>1, <1>2, <1>3, <1>5, <1>16 DEF Join, vars
<1>17. CASE UNCHANGED logVars
  BY <1>1, <1>2, <1>3, <1>5, <1>17 DEF logVars, vars
<1> QED BY <1>6, <1>7, <1>8, <1>9, <1>10, <1>11, <1>12, <1>13, <1>14, <1>15, <1>16, <1>17,
           LogCases, Zenon

LEMMA StopNext ==
  ASSUME NEW t, Producers = {t}, RingInv(t), RingInv(t)', LogTypes, LogTypes', StopInv,
         [LogNext]_logVars
  PROVE  StopInv'
<1>1. /\ Waiting \in Nat /\ Waiting' \in Nat
      /\ head_ = tail_ => Waiting = 0
      /\ PushPublish(t) => Waiting' = Waiting + 1
      /\ PopRead => Waiting' = Waiting - 1
      /\ PopPublish => Waiting' = Waiting
      /\ PopLoadHead => Waiting' = Waiting
      /\ UNCHANGED <<head_, tail_, pop_pc>> => Waiting' = Waiting
  BY WaitingStep
<1>2. /\ filed \in Nat /\ flushed \in Nat /\ filed' \in Nat /\ flushed' \in Nat
      /\ atStop \in Nat /\ atStop' \in Nat /\ running_ \in BOOLEAN
      /\ flushed <= filed /\ flushed' <= filed'
      /\ pop_pc # "idle" <=> drain_pc = "entry"
      /\ drain_pc = "none" => filed = 0
  BY DEF LogTypes
<1> USE DEF StopInv
<1>3. CASE LogCall(t)
  BY <1>1, <1>2, <1>3 DEF LogCall, PushLoadHead, ctlVars, fileVars
<1>4. CASE LogFullCheck(t)
  BY <1>1, <1>2, <1>4 DEF LogFullCheck, PushLoadTail, ctlVars, fileVars
<1>5. CASE LogWrite(t)
  <2>1. Waiting' = Waiting + 1 \/ Waiting' = Waiting
    BY <1>1, <1>5 DEF LogWrite, PushWrite
  <2>2. UNCHANGED <<running_, drain_pc, main_pc, atStop, filed, flushed>>
    BY <1>5 DEF LogWrite, ctlVars, fileVars
  <2>3. Waiting \in Nat /\ Waiting' \in Nat /\ (main_pc # "up" => filed + Waiting >= atStop)
    BY <1>1
  <2> HIDE DEF StopInv
  <2>4. ASSUME main_pc' # "up" PROVE filed' + Waiting' >= atStop'
    <3>1. filed' = filed /\ atStop' = atStop /\ main_pc # "up"
      BY <2>2, <2>4
    <3>2. filed \in Nat /\ atStop \in Nat
      BY <1>2
    <3>3. Waiting' >= Waiting
      BY <2>1, <2>3
    <3>4. filed + Waiting >= atStop
      BY <2>3, <3>1
    <3>5. filed + Waiting' >= atStop
      <4>1. \A f, w, v, s \in Nat : v >= w /\ f + w >= s => f + v >= s
        OBVIOUS
      <4>2. Waiting \in Nat /\ Waiting' \in Nat
        BY <2>3
      <4> QED BY <3>2, <3>3, <3>4, <4>1, <4>2, Zenon
    <3> QED BY <3>1, <3>5, Zenon
  <2> QED BY <2>2, <2>4, Zenon DEF StopInv
<1>6. CASE DrainCheck
  <2>1. Waiting' = Waiting
    BY <1>1, <1>6 DEF DrainCheck, vars
  <2>2. /\ drain_pc = "check" /\ drain_pc' = (IF running_ THEN "load" ELSE "recheck")
        /\ UNCHANGED <<running_, main_pc, atStop, filed, flushed>>
    BY <1>6 DEF DrainCheck, fileVars
  <2> QED BY <2>1, <2>2, Zenon
<1>16. CASE DrainYield
  BY <1>1, <1>2, <1>16 DEF DrainYield, vars, fileVars
<1>7. CASE DrainRecheck
  BY <1>1, <1>2, <1>7 DEF DrainRecheck, vars
<1>8. CASE DrainLoad
  BY <1>1, <1>2, <1>8 DEF DrainLoad, PopLoadHead, fileVars
<1>9. CASE DrainWrite
  <2>1. Waiting' = Waiting - 1
    BY <1>1, <1>9 DEF DrainWrite
  <2>2. filed' = filed + 1 /\ UNCHANGED <<running_, drain_pc, main_pc, atStop, flushed>>
    BY <1>9 DEF DrainWrite, ctlVars
  <2> QED BY <1>1, <1>2, <2>1, <2>2
<1>10. CASE DrainAdvance
  <2>1. Waiting' = Waiting
    BY <1>1, <1>10 DEF DrainAdvance
  <2>2. /\ drain_pc = "entry" /\ drain_pc' \in {"flush", "check"}
        /\ UNCHANGED <<running_, main_pc, atStop, filed, flushed>>
    BY <1>10 DEF DrainAdvance, fileVars
  <2> QED BY <1>1, <1>2, <2>1, <2>2
<1>11. CASE DrainFlush
  BY <1>1, <1>2, <1>11 DEF DrainFlush, vars
<1>12. CASE Start
  BY <1>1, <1>2, <1>12 DEF Start, vars, fileVars
<1>13. CASE Shutdown
  <2>1. InRing = Waiting
    BY SizeIsDistance DEF RingInv, InRing, Waiting
  <2>2. Waiting' = Waiting
    BY <1>1, <1>13 DEF Shutdown, vars
  <2>3. atStop' = filed + Waiting
    BY <1>13, <2>1 DEF Shutdown
  <2>4. /\ main_pc = "up" /\ main_pc' = "joining" /\ running_' = FALSE
        /\ UNCHANGED <<drain_pc, filed, flushed>>
    BY <1>13 DEF Shutdown, fileVars
  <2> QED BY <1>1, <1>2, <2>2, <2>3, <2>4
<1>14. CASE Join
  BY <1>1, <1>2, <1>14 DEF Join, vars
<1>15. CASE UNCHANGED logVars
  BY <1>1, <1>2, <1>15 DEF logVars, vars
<1> QED BY <1>3, <1>4, <1>5, <1>6, <1>7, <1>8, <1>9, <1>10, <1>11, <1>12, <1>13, <1>14, <1>15,
           <1>16, LogCases, Zenon

LEMMA LogInitInv ==
  ASSUME NEW t, Producers = {t}, LogInit
  PROVE  LogInv(t)
<1>1. RingInv(t)
  BY RingInit DEF LogInit
<1>2. head_ = 0 /\ tail_ = 0 /\ push_pc[t] = "idle" /\ pop_pc = "idle"
  BY DEF LogInit, Init
<1>3. Waiting = 0
  BY <1>2 DEF Waiting, Distance
<1>4. LogTypes
  <2>1. running_ \in BOOLEAN
    BY DEF LogInit
  <2> QED BY <1>2, <2>1 DEF LogInit, LogTypes
<1>6. StopInv
  BY DEF LogInit, StopInv
<1>7. FlushInv
  <2>1. FlushEvery \in Nat \ {0}
    BY LoggerAssumption
  <2>2. 0 % FlushEvery = 0
    BY <2>1, ModOnce
  <2> QED BY <1>2, <2>1, <2>2 DEF FlushInv, LogInit
<1> QED BY <1>1, <1>4, <1>6, <1>7 DEF LogInv

LEMMA LogInvariant ==
  ASSUME NEW CONSTANT t, Producers = {t}
  PROVE  LogSpec => []LogInv(t)
<1>1. LogInit => LogInv(t)
  BY LogInitInv
<1>2. LogInv(t) /\ [LogNext]_logVars => LogInv(t)'
  <2> SUFFICES ASSUME LogInv(t), [LogNext]_logVars PROVE LogInv(t)'
    OBVIOUS
  <2>1. RingInv(t)'
    BY LogStepIsRingStep, RingNext DEF LogInv
  <2>2. LogTypes'
    BY <2>1, LogTypesNext DEF LogInv
  <2>4. FlushInv'
    BY <2>1, <2>2, FlushNext DEF LogInv
  <2>5. StopInv'
    BY <2>1, <2>2, StopNext DEF LogInv
  <2> QED BY <2>1, <2>2, <2>4, <2>5 DEF LogInv
<1> QED BY <1>1, <1>2, PTL DEF LogSpec

\* A crash loses at most FlushEvery entries that were written to the file, although the
\* drain loop counts slots of the ring, not entries, and the ring wraps anywhere.
THEOREM LogCrashBound ==
  ASSUME NEW CONSTANT t, Producers = {t}
  PROVE  LogSpec => []CrashLosesFew
<1>1. LogInv(t) => CrashLosesFew
  BY DEF LogInv, FlushInv, CrashLosesFew
<1> QED BY <1>1, LogInvariant, PTL

\* What was published when shutdown() cleared running_ is on disk when shutdown() has
\* joined the drain thread.
THEOREM LogShutdown ==
  ASSUME NEW CONSTANT t, Producers = {t}
  PROVE  LogSpec => []ShutdownDrains
<1>1. LogInv(t) => ShutdownDrains
  BY DEF LogInv, StopInv, ShutdownDrains
<1> QED BY <1>1, LogInvariant, PTL

\* The logger uses its ring as the ring is meant to be used.
THEOREM LogRing ==
  ASSUME NEW CONSTANT t, Producers = {t}
  PROVE  LogSpec => []TypeOK /\ []NoSharedSlot /\ ImplementsFifo
BY LogIsRing, RingTypes, RingSlots, RingIsFifo, PTL
=============================================================================
