------------------------- MODULE EmailDelivery_proofs -------------------------
(***************************************************************************)
(* Proofs about EmailDelivery for every number of jobs, of handlers, of    *)
(* retries and of lost connections.                                        *)
(***************************************************************************)
EXTENDS EmailDelivery, Integers, FiniteSetTheorems, TLAPS

-----------------------------------------------------------------------------
(* Bags of messages.  After these lemmas a bag is known by its copies.     *)

Copies(m, B) == IF m \in DOMAIN B THEN B[m] ELSE 0

(* A queue holds messages.                                                 *)
Queue(B) == IsABag(B) /\ BagToSet(B) \subseteq Message

LEMMA CopiesCount ==
  ASSUME NEW B, IsABag(B), NEW m
  PROVE  Copies(m, B) \in Nat /\ (m \in BagToSet(B) <=> Copies(m, B) > 0)
BY DEF IsABag, Copies, BagToSet

LEMMA OneCopy ==
  ASSUME NEW m
  PROVE  /\ IsABag(One(m)) /\ BagToSet(One(m)) = {m}
         /\ \A x : Copies(x, One(m)) = IF x = m THEN 1 ELSE 0
BY DEF One, SetToBag, IsABag, Copies, BagToSet

LEMMA NoCopy ==
  /\ IsABag(EmptyBag) /\ BagToSet(EmptyBag) = {}
  /\ \A x : Copies(x, EmptyBag) = 0
BY DEF EmptyBag, SetToBag, IsABag, Copies, BagToSet

LEMMA PlusCopies ==
  ASSUME NEW B, IsABag(B), NEW C, IsABag(C)
  PROVE  /\ IsABag(B (+) C)
         /\ BagToSet(B (+) C) = BagToSet(B) \cup BagToSet(C)
         /\ \A x : Copies(x, B (+) C) = Copies(x, B) + Copies(x, C)
BY DEF IsABag, Copies, BagToSet, (+)

LEMMA MinusOneCopy ==
  ASSUME NEW B, IsABag(B), NEW m \in BagToSet(B)
  PROVE  /\ IsABag(B (-) One(m))
         /\ BagToSet(B (-) One(m)) \subseteq BagToSet(B)
         /\ BagToSet(B) \subseteq BagToSet(B (-) One(m)) \cup {m}
         /\ \A x : Copies(x, B (-) One(m)) = Copies(x, B) - (IF x = m THEN 1 ELSE 0)
BY DEF IsABag, Copies, BagToSet, (-), One, SetToBag

-----------------------------------------------------------------------------
(* Counting.  A weight says how much a message is worth in a queue and in  *)
(* a handler at each step; what a job is worth altogether is the number of *)
(* units of its messages, counted as elements of sets.                     *)

Steps == {"taken", "sending", "failed", "settle"}
Weight == [queued : [Message -> Nat], held : [Steps -> [Message -> Nat]]]

QueueUnits(B, j, W) ==
    {u \in Message \X (Nat \X Nat) :
        /\ u[1].job = j
        /\ u[2][1] \in 1 .. Copies(u[1], B)
        /\ u[2][2] \in 1 .. W.queued[u[1]]}

(* What a handler in state x is worth to job j.                            *)
Worth(x, j, W) ==
    IF x.pc # "free" /\ x.msg.job = j THEN W.held[x.pc][x.msg] ELSE 0

HandlerUnits(f, j, W) ==
    {u \in Handlers \X Nat : u[2] \in 1 .. Worth(f[u[1]], j, W)}

Counted(B, j, W) == IsFiniteSet(QueueUnits(B, j, W))
InQueue(B, j, W) == Cardinality(QueueUnits(B, j, W))
InHandlers(f, j, W) == Cardinality(HandlerUnits(f, j, W))

LEMMA UpTo ==
  ASSUME NEW n \in Nat
  PROVE  IsFiniteSet(1 .. n) /\ Cardinality(1 .. n) = n
BY FS_Interval

LEMMA Disjoint ==
  ASSUME NEW S, IsFiniteSet(S), NEW T, IsFiniteSet(T), S \cap T = {}
  PROVE  /\ IsFiniteSet(S \cup T)
         /\ Cardinality(S \cup T) = Cardinality(S) + Cardinality(T)
         /\ Cardinality(S) \in Nat /\ Cardinality(T) \in Nat
<1>1. Cardinality(S \cap T) = 0
  BY FS_EmptySet
<1>2. Cardinality(S) \in Nat /\ Cardinality(T) \in Nat
  BY FS_CardinalityType
<1>3. /\ IsFiniteSet(S \cup T)
      /\ Cardinality(S \cup T)
           = Cardinality(S) + Cardinality(T) - Cardinality(S \cap T)
  BY FS_Union, Zenon
<1>4. QED
  BY <1>1, <1>2, <1>3

LEMMA Product ==
  ASSUME NEW S, IsFiniteSet(S), NEW T, IsFiniteSet(T)
  PROVE  /\ IsFiniteSet(S \X T)
         /\ Cardinality(S \X T) = Cardinality(S) * Cardinality(T)
BY FS_Product, Zenon

(* The units of one message in a queue are its copies times its weight.    *)
UnitsOf(m, B, W) == {u \in QueueUnits(B, m.job, W) : u[1] = m}

LEMMA UnitsOfMessage ==
  ASSUME NEW B, Queue(B), NEW m \in Message, NEW W \in Weight
  PROVE  /\ IsFiniteSet(UnitsOf(m, B, W))
         /\ Cardinality(UnitsOf(m, B, W)) = Copies(m, B) * W.queued[m]
<1> DEFINE c == Copies(m, B)
           w == W.queued[m]
           Block == (1 .. c) \X (1 .. w)
<1>1. c \in Nat /\ w \in Nat
  BY CopiesCount DEF Queue, Weight
<1>2. UnitsOf(m, B, W) = {m} \X Block
  BY <1>1 DEF QueueUnits, UnitsOf
<1>3. IsFiniteSet(Block) /\ Cardinality(Block) = c * w
  <2> HIDE DEF c, w
  <2>1. /\ IsFiniteSet(1 .. c) /\ Cardinality(1 .. c) = c
        /\ IsFiniteSet(1 .. w) /\ Cardinality(1 .. w) = w
    BY <1>1, UpTo
  <2>2. /\ IsFiniteSet(Block)
        /\ Cardinality(Block) = Cardinality(1 .. c) * Cardinality(1 .. w)
    BY <2>1, Product, Zenon
  <2>3. QED
    BY <2>1, <2>2
<1>4. c * w \in Nat
  BY <1>1
<1> HIDE DEF c, w, Block
<1>5. IsFiniteSet({m}) /\ Cardinality({m}) = 1
  BY FS_Singleton
<1>6. /\ IsFiniteSet({m} \X Block)
      /\ Cardinality({m} \X Block) = 1 * (c * w)
  <2>1. /\ IsFiniteSet({m} \X Block)
        /\ Cardinality({m} \X Block) = Cardinality({m}) * Cardinality(Block)
    BY <1>3, <1>5, Product, Zenon
  <2>2. QED
    BY <1>3, <1>5, <2>1
<1>7. 1 * (c * w) = c * w
  BY <1>4
<1>8. QED
  BY <1>2, <1>6, <1>7 DEF c, w

(* Two queues that differ in the copies of one message.                    *)
LEMMA QueueChange ==
  ASSUME NEW B, Queue(B), NEW C, Queue(C), NEW m \in Message, NEW j,
         NEW W \in Weight, Counted(B, j, W),
         \A x \in Message \ {m} : Copies(x, C) = Copies(x, B)
  PROVE  /\ Counted(C, j, W)
         /\ InQueue(B, j, W) \in Nat /\ InQueue(C, j, W) \in Nat
         /\ m.job # j => InQueue(C, j, W) = InQueue(B, j, W)
         /\ m.job = j => InQueue(C, j, W) + Copies(m, B) * W.queued[m]
                           = InQueue(B, j, W) + Copies(m, C) * W.queued[m]
<1> DEFINE U(Q) == QueueUnits(Q, j, W)
           P(Q) == UnitsOf(m, Q, W)
           O(Q) == {u \in U(Q) : u[1] # m}
<1>1. O(C) = O(B)
  BY DEF QueueUnits
<1>2. IsFiniteSet(O(B)) /\ IsFiniteSet(O(C))
  BY <1>1, FS_Subset DEF Counted
<1>3. CASE m.job # j
  <2>1. U(C) = U(B)
    BY <1>3 DEF QueueUnits
  <2>2. QED
    BY <1>3, <2>1, FS_CardinalityType DEF Counted, InQueue
<1>4. CASE m.job = j
  <2>0. /\ U(B) = O(B) \cup P(B) /\ U(C) = O(C) \cup P(C)
        /\ O(B) \cap P(B) = {} /\ O(C) \cap P(C) = {}
    BY <1>4 DEF UnitsOf
  <2>1. /\ IsFiniteSet(P(B)) /\ Cardinality(P(B)) = Copies(m, B) * W.queued[m]
        /\ IsFiniteSet(P(C)) /\ Cardinality(P(C)) = Copies(m, C) * W.queued[m]
    BY <1>4, UnitsOfMessage
  <2> HIDE DEF U, O, P
  <2>2. /\ Cardinality(U(B)) = Cardinality(O(B)) + Cardinality(P(B))
        /\ Cardinality(U(C)) = Cardinality(O(C)) + Cardinality(P(C))
        /\ IsFiniteSet(U(C))
        /\ Cardinality(O(B)) \in Nat
        /\ Cardinality(P(B)) \in Nat /\ Cardinality(P(C)) \in Nat
    BY <1>2, <2>0, <2>1, Disjoint
  <2>3. QED
    BY <1>1, <1>4, <2>1, <2>2 DEF Counted, InQueue, U
<1>5. QED
  BY <1>3, <1>4

LEMMA AddOne ==
  ASSUME NEW B, Queue(B), NEW m \in Message, NEW j, NEW W \in Weight,
         Counted(B, j, W)
  PROVE  /\ Queue(B (+) One(m)) /\ Counted(B (+) One(m), j, W)
         /\ InQueue(B, j, W) \in Nat
         /\ InQueue(B (+) One(m), j, W)
              = InQueue(B, j, W) + (IF m.job = j THEN W.queued[m] ELSE 0)
<1> DEFINE C == B (+) One(m)
<1>1. /\ Queue(C)
      /\ \A x : Copies(x, C) = Copies(x, B) + (IF x = m THEN 1 ELSE 0)
  BY OneCopy, PlusCopies DEF Queue
<1>2. Copies(m, B) \in Nat /\ W.queued[m] \in Nat
  BY CopiesCount DEF Queue, Weight
<1>3. \A x \in Message \ {m} : Copies(x, C) = Copies(x, B)
  BY <1>1, CopiesCount DEF Queue
<1>4. Copies(m, C) * W.queued[m] = Copies(m, B) * W.queued[m] + W.queued[m]
  <2>1. Copies(m, C) = Copies(m, B) + 1
    BY <1>1
  <2>2. \A c, w \in Nat : (c + 1) * w = c * w + w
    OBVIOUS
  <2>3. QED
    BY <1>2, <2>1, <2>2
<1>5. Copies(m, B) * W.queued[m] \in Nat
  BY <1>2
<1> HIDE DEF C
<1>6. /\ Counted(C, j, W)
      /\ InQueue(B, j, W) \in Nat /\ InQueue(C, j, W) \in Nat
      /\ m.job # j => InQueue(C, j, W) = InQueue(B, j, W)
      /\ m.job = j => InQueue(C, j, W) + Copies(m, B) * W.queued[m]
                        = InQueue(B, j, W) + Copies(m, C) * W.queued[m]
  BY <1>1, <1>3, QueueChange
<1>7. InQueue(C, j, W) = InQueue(B, j, W) + (IF m.job = j THEN W.queued[m] ELSE 0)
  <2> DEFINE before == Copies(m, B) * W.queued[m]
             after == Copies(m, C) * W.queued[m]
             w == W.queued[m]
  <2>1. before \in Nat /\ w \in Nat /\ after = before + w
    BY <1>2, <1>4, <1>5
  <2>2. m.job = j => InQueue(C, j, W) + before = InQueue(B, j, W) + after
    BY <1>6
  <2> HIDE DEF before, after
  <2>3. QED
    BY <1>6, <2>1, <2>2
<1>8. QED
  BY <1>1, <1>6, <1>7 DEF C

LEMMA TakeOne ==
  ASSUME NEW B, Queue(B), NEW m \in BagToSet(B), NEW j, NEW W \in Weight,
         Counted(B, j, W)
  PROVE  /\ m \in Message
         /\ Queue(B (-) One(m)) /\ Counted(B (-) One(m), j, W)
         /\ InQueue(B (-) One(m), j, W) \in Nat
         /\ InQueue(B, j, W)
              = InQueue(B (-) One(m), j, W) + (IF m.job = j THEN W.queued[m] ELSE 0)
<1> DEFINE C == B (-) One(m)
<1>0. m \in Message
  BY DEF Queue
<1>1. /\ Queue(C)
      /\ \A x : Copies(x, C) = Copies(x, B) - (IF x = m THEN 1 ELSE 0)
  BY MinusOneCopy DEF Queue
<1>2. /\ Copies(m, B) \in Nat /\ Copies(m, C) \in Nat /\ W.queued[m] \in Nat
      /\ Copies(m, B) = Copies(m, C) + 1
  BY <1>0, <1>1, CopiesCount DEF Queue, Weight
<1>3. \A x \in Message \ {m} : Copies(x, C) = Copies(x, B)
  BY <1>1, CopiesCount DEF Queue
<1>4. Copies(m, B) * W.queued[m] = Copies(m, C) * W.queued[m] + W.queued[m]
  <2>1. \A c, w \in Nat : (c + 1) * w = c * w + w
    OBVIOUS
  <2>2. QED
    BY <1>2, <2>1
<1>5. Copies(m, C) * W.queued[m] \in Nat
  BY <1>2
<1> HIDE DEF C
<1>6. /\ Counted(C, j, W)
      /\ InQueue(B, j, W) \in Nat /\ InQueue(C, j, W) \in Nat
      /\ m.job # j => InQueue(C, j, W) = InQueue(B, j, W)
      /\ m.job = j => InQueue(C, j, W) + Copies(m, B) * W.queued[m]
                        = InQueue(B, j, W) + Copies(m, C) * W.queued[m]
  BY <1>0, <1>1, <1>3, QueueChange
<1>7. InQueue(B, j, W) = InQueue(C, j, W) + (IF m.job = j THEN W.queued[m] ELSE 0)
  <2> DEFINE before == Copies(m, B) * W.queued[m]
             after == Copies(m, C) * W.queued[m]
             w == W.queued[m]
  <2>1. after \in Nat /\ w \in Nat /\ before = after + w
    BY <1>2, <1>4, <1>5
  <2>2. m.job = j => InQueue(C, j, W) + before = InQueue(B, j, W) + after
    BY <1>6
  <2> HIDE DEF before, after
  <2>3. QED
    BY <1>6, <2>1, <2>2
<1>8. QED
  BY <1>0, <1>1, <1>6, <1>7 DEF C

LEMMA AddNone ==
  ASSUME NEW B, IsABag(B)
  PROVE  B (+) EmptyBag = B
BY DEF IsABag, (+), EmptyBag, SetToBag

-----------------------------------------------------------------------------
(* Redelivery.  Each unit that comes back is one of the copies of some     *)
(* message, so it can be charged to the lease that held that copy.         *)

LeasedFor(m) == {h \in Leased : handler[h].msg = m}

LEMMA ReturnedCopies ==
  ASSUME IsFiniteSet(Leased), \A h \in Leased : handler[h].msg \in Message
  PROVE  /\ Queue(Returned)
         /\ \A m : /\ IsFiniteSet(LeasedFor(m))
                   /\ Cardinality(LeasedFor(m)) \in Nat
                   /\ Copies(m, Returned) = Cardinality(LeasedFor(m))
<1>1. \A m : /\ IsFiniteSet(LeasedFor(m))
             /\ Cardinality(LeasedFor(m)) \in Nat
             /\ Cardinality(LeasedFor(m)) = 0 <=> LeasedFor(m) = {}
  <2> TAKE m
  <2>1. LeasedFor(m) \in SUBSET Leased
    BY DEF LeasedFor
  <2>2. IsFiniteSet(LeasedFor(m))
    BY <2>1, FS_Subset
  <2>3. QED
    BY <2>2, FS_EmptySet, FS_CardinalityType
<1>2. DOMAIN Returned = {handler[h].msg : h \in Leased}
  BY DEF Returned
<1>3. \A m \in DOMAIN Returned : /\ Returned[m] = Cardinality(LeasedFor(m))
                                 /\ LeasedFor(m) # {}
  BY DEF Returned, LeasedFor
<1>4. \A m : m \notin DOMAIN Returned => LeasedFor(m) = {}
  BY <1>2 DEF LeasedFor
<1>5. \A m \in DOMAIN Returned : Returned[m] \in Nat /\ Returned[m] > 0
  BY <1>1, <1>3
<1>6. IsABag(Returned)
  <2>1. Returned = [m \in DOMAIN Returned |-> Returned[m]]
    BY DEF Returned
  <2>2. QED
    BY <1>5, <2>1 DEF IsABag
<1>7. BagToSet(Returned) \subseteq Message
  BY <1>2 DEF BagToSet
<1>8. \A m : Copies(m, Returned) = Cardinality(LeasedFor(m))
  BY <1>1, <1>3, <1>4 DEF Copies
<1>9. QED
  BY <1>1, <1>6, <1>7, <1>8 DEF Queue

LEMMA AddReturned ==
  ASSUME Queue(primary), NEW j, NEW W \in Weight, Counted(primary, j, W),
         NEW n \in Nat, \A m \in Message : W.queued[m] <= n,
         IsFiniteSet(Leased), \A h \in Leased : handler[h].msg \in Message
  PROVE  /\ Queue(primary (+) Returned)
         /\ Counted(primary (+) Returned, j, W)
         /\ InQueue(primary, j, W) \in Nat
         /\ InQueue(primary (+) Returned, j, W) \in Nat
         /\ Cardinality(Held(j)) \in Nat
         /\ InQueue(primary (+) Returned, j, W)
              <= InQueue(primary, j, W) + n * Cardinality(Held(j))
<1> DEFINE B == primary
           C == primary (+) Returned
           R(m) == Cardinality(LeasedFor(m))
           Pick == [m \in Message |-> CHOOSE f : f \in Bijection(1 .. R(m), LeasedFor(m))]
           Extra == {u \in QueueUnits(C, j, W) : u[2][1] > Copies(u[1], B)}
           Charge == [u \in Extra |-> <<Pick[u[1]][u[2][1] - Copies(u[1], B)], u[2][2]>>]
<1>1. /\ Queue(Returned)
      /\ \A m : /\ IsFiniteSet(LeasedFor(m)) /\ R(m) \in Nat
                /\ Copies(m, Returned) = R(m)
  BY ReturnedCopies
<1>2. /\ Queue(C)
      /\ \A m : Copies(m, C) = Copies(m, B) + R(m)
  BY <1>1, PlusCopies DEF Queue
<1>3. \A m : Copies(m, B) \in Nat
  BY CopiesCount DEF Queue
<1>4. \A m \in Message : Pick[m] \in Bijection(1 .. R(m), LeasedFor(m))
  <2> TAKE m \in Message
  <2>1. ExistsBijection(1 .. R(m), LeasedFor(m))
    BY <1>1, FS_CardinalityType
  <2>2. QED
    BY <2>1 DEF ExistsBijection
<1> HIDE DEF Pick, R
<1>5. \A m \in Message :
         /\ \A k \in 1 .. R(m) : Pick[m][k] \in LeasedFor(m)
         /\ \A k, l \in 1 .. R(m) : Pick[m][k] = Pick[m][l] => k = l
  <2> TAKE m \in Message
  <2>1. Pick[m] \in [1 .. R(m) -> LeasedFor(m)] /\ IsInjective(Pick[m])
    BY <1>4 DEF Bijection, Injection
  <2>2. DOMAIN Pick[m] = 1 .. R(m)
    BY <2>1
  <2>3. \A k, l \in 1 .. R(m) : Pick[m][k] = Pick[m][l] => k = l
    BY <2>1, <2>2 DEF IsInjective
  <2>4. QED
    BY <2>1, <2>3
<1>6. IsFiniteSet(Held(j))
  <2>1. Held(j) \in SUBSET Leased
    BY DEF Held
  <2>2. QED
    BY <2>1, FS_Subset
<1>7. /\ IsFiniteSet(Held(j) \X (1 .. n))
      /\ Cardinality(Held(j) \X (1 .. n)) = n * Cardinality(Held(j))
      /\ Cardinality(Held(j)) \in Nat
  <2>1. IsFiniteSet(1 .. n) /\ Cardinality(1 .. n) = n
    BY UpTo
  <2>2. /\ IsFiniteSet(Held(j) \X (1 .. n))
        /\ Cardinality(Held(j) \X (1 .. n)) = Cardinality(Held(j)) * Cardinality(1 .. n)
    BY <1>6, <2>1, Product, Zenon
  <2>3. Cardinality(Held(j)) \in Nat
    BY <1>6, FS_CardinalityType
  <2>4. QED
    BY <2>1, <2>2, <2>3
<1>8. \A u \in Extra : /\ u[1] \in Message /\ u[1].job = j
                       /\ u[2][1] \in Nat /\ u[2][2] \in 1 .. n
                       /\ u[2][1] - Copies(u[1], B) \in 1 .. R(u[1])
                       /\ u = <<u[1], <<u[2][1], u[2][2]>>>>
  <2> TAKE u \in Extra
  <2>1. /\ u[1] \in Message /\ u[1].job = j /\ u[2][1] \in Nat /\ u[2][2] \in Nat
        /\ u = <<u[1], <<u[2][1], u[2][2]>>>>
        /\ u[2][1] \in 1 .. Copies(u[1], C) /\ u[2][2] \in 1 .. W.queued[u[1]]
        /\ u[2][1] > Copies(u[1], B)
    BY DEF QueueUnits
  <2>2. W.queued[u[1]] \in Nat /\ W.queued[u[1]] <= n
    BY <2>1 DEF Weight
  <2>3. u[2][2] \in 1 .. n
    BY <2>1, <2>2
  <2>4. u[2][1] - Copies(u[1], B) \in 1 .. R(u[1])
    BY <1>1, <1>2, <1>3, <2>1 DEF R
  <2>5. QED
    BY <2>1, <2>3, <2>4
<1>9. Charge \in Injection(Extra, Held(j) \X (1 .. n))
  <2>1. \A u \in Extra : /\ Charge[u] = <<Pick[u[1]][u[2][1] - Copies(u[1], B)], u[2][2]>>
                         /\ Pick[u[1]][u[2][1] - Copies(u[1], B)] \in LeasedFor(u[1])
    BY <1>5, <1>8
  <2>2. \A u \in Extra : \A h \in LeasedFor(u[1]) : h \in Held(j)
    BY <1>8 DEF LeasedFor, Held, JobOf
  <2>3. Charge \in [Extra -> Held(j) \X (1 .. n)]
    <3>1. \A u \in Extra : Charge[u] \in Held(j) \X (1 .. n)
      BY <1>8, <2>1, <2>2
    <3>2. QED
      BY <3>1
  <2>4. ASSUME NEW u \in Extra, NEW v \in Extra, Charge[u] = Charge[v]
        PROVE  u = v
    <3>1. /\ Pick[u[1]][u[2][1] - Copies(u[1], B)]
                = Pick[v[1]][v[2][1] - Copies(v[1], B)]
          /\ u[2][2] = v[2][2]
      BY <2>1, <2>4
    <3>2. u[1] = v[1]
      <4> DEFINE h == Pick[u[1]][u[2][1] - Copies(u[1], B)]
      <4>1. h \in LeasedFor(u[1])
        BY <2>1
      <4>2. h \in LeasedFor(v[1])
        BY <2>1, <3>1
      <4> HIDE DEF h
      <4>3. QED
        BY <4>1, <4>2 DEF LeasedFor
    <3>3. u[2][1] - Copies(u[1], B) = v[2][1] - Copies(v[1], B)
      BY <1>5, <1>8, <3>1, <3>2
    <3>4. u[2][1] = v[2][1]
      BY <1>3, <1>8, <3>2, <3>3
    <3>5. QED
      BY <1>8, <3>1, <3>2, <3>4
  <2> HIDE DEF Charge
  <2>5. QED
    BY <2>3, <2>4 DEF Injection, IsInjective
<1> HIDE DEF Charge
<1>10. /\ IsFiniteSet(Extra)
       /\ Cardinality(Extra) <= n * Cardinality(Held(j))
  <2>1. /\ IsFiniteSet(Extra)
        /\ Cardinality(Extra) <= Cardinality(Held(j) \X (1 .. n))
    BY <1>7, <1>9, FS_Injection, Zenon
  <2>2. QED
    BY <1>7, <2>1
<1>11. /\ QueueUnits(C, j, W) = QueueUnits(B, j, W) \cup Extra
       /\ QueueUnits(B, j, W) \cap Extra = {}
  <2>1. \A m : Copies(m, B) \in Nat /\ Copies(m, C) \in Nat /\ Copies(m, B) <= Copies(m, C)
    BY <1>1, <1>2, <1>3 DEF R
  <2> HIDE DEF B, C
  <2>2. QED
    BY <2>1 DEF QueueUnits
<1> HIDE DEF Extra, B, C
<1>12. /\ IsFiniteSet(QueueUnits(C, j, W))
       /\ Cardinality(QueueUnits(C, j, W))
             = Cardinality(QueueUnits(B, j, W)) + Cardinality(Extra)
       /\ Cardinality(QueueUnits(B, j, W)) \in Nat /\ Cardinality(Extra) \in Nat
  BY <1>10, <1>11, Disjoint DEF Counted, B
<1>13. n * Cardinality(Held(j)) \in Nat
  BY <1>7
<1>14. QED
  BY <1>2, <1>7, <1>10, <1>12, <1>13 DEF Counted, InQueue, B, C

-----------------------------------------------------------------------------
(* Types, and what a handler holds.                                        *)

State == [pc : {"free"} \cup Steps, msg : Message \cup {Nil}, leased : BOOLEAN]

(* A handler is free and holds nothing, or it works on a message; as many  *)
(* as Prefetch allows at a time, so finitely many work, whatever the       *)
(* number of handlers there could be.                                      *)
HandlersHold ==
    /\ \A h \in Handlers :
          IF handler[h].pc = "free" THEN handler[h] = Free ELSE handler[h].msg \in Message
    /\ IsFiniteSet({h \in Handlers : handler[h].pc # "free"})

LEMMA TypeOfHandlers ==
  ASSUME TypeOK
  PROVE  /\ handler \in [Handlers -> State]
         /\ Queue(primary) /\ Queue(retry) /\ Queue(dead)
<1>1. Steps = {"taken", "sending", "failed", "settle"}
  BY DEF Steps
<1>2. {"free"} \cup Steps = {"free", "taken", "sending", "failed", "settle"}
  BY <1>1
<1>3. handler \in [Handlers -> State]
  BY <1>2 DEF TypeOK, State
<1>4. QED
  BY <1>3 DEF TypeOK, Queue

LEMMA LeasedHold ==
  ASSUME TypeOK, HandlersHold
  PROVE  /\ IsFiniteSet(Leased)
         /\ \A h \in Leased : handler[h].pc # "free" /\ handler[h].msg \in Message
         /\ \A j : IsFiniteSet(Held(j)) /\ Cardinality(Held(j)) \in Nat
<1>1. Free.leased = FALSE
  BY DEF Free
<1>2. \A h \in Leased : handler[h].pc # "free" /\ handler[h].msg \in Message
  BY <1>1 DEF Leased, HandlersHold
<1>3. Leased \in SUBSET {h \in Handlers : handler[h].pc # "free"}
  BY <1>2 DEF Leased
<1>4. IsFiniteSet(Leased)
  BY <1>3, FS_Subset DEF HandlersHold
<1>5. \A j : Held(j) \in SUBSET Leased
  BY DEF Held
<1>6. \A j : IsFiniteSet(Held(j))
  BY <1>4, <1>5, FS_Subset
<1>7. QED
  BY <1>2, <1>4, <1>6, FS_CardinalityType

LEMMA GotoFields ==
  ASSUME handler \in [Handlers -> State], NEW h \in Handlers,
         NEW p \in Steps, Goto(h, p)
  PROVE  /\ handler' \in [Handlers -> State]
         /\ handler'[h].pc = p /\ handler'[h].msg = handler[h].msg
         /\ handler'[h].leased = handler[h].leased
         /\ \A i \in Handlers \ {h} : handler'[i] = handler[i]
BY DEF Goto, State

LEMMA FinishFields ==
  ASSUME handler \in [Handlers -> State], NEW h \in Handlers, Finish(h)
  PROVE  /\ handler' \in [Handlers -> State]
         /\ handler'[h] = Free /\ Free.pc = "free"
         /\ \A i \in Handlers \ {h} : handler'[i] = handler[i]
BY DEF Finish, State, Free

LEMMA DeliverFields ==
  ASSUME TypeOK, NEW h \in Handlers, Deliver(h)
  PROVE  /\ handler[h] = Free /\ Free.pc = "free"
         /\ handler' \in [Handlers -> State]
         /\ \E m \in BagToSet(primary) :
               /\ m \in Message
               /\ primary' = primary (-) One(m)
               /\ handler'[h].pc = "taken" /\ handler'[h].msg = m /\ handler'[h].leased
         /\ \A i \in Handlers \ {h} : handler'[i] = handler[i]
<1>1. PICK m \in BagToSet(primary) :
         /\ primary' = primary (-) One(m)
         /\ handler' = [handler EXCEPT ![h] = [pc |-> "taken", msg |-> m, leased |-> TRUE]]
  BY DEF Deliver
<1>2. m \in Message
  BY DEF TypeOK
<1>3. handler \in [Handlers -> State]
  BY TypeOfHandlers
<1>4. [pc |-> "taken", msg |-> m, leased |-> TRUE] \in State
  BY <1>2 DEF State, Steps
<1>5. QED
  BY <1>1, <1>2, <1>3, <1>4 DEF Deliver, Free

(* Which handlers a step of h leaves as they were.                         *)
LEMMA HandlersHoldStep ==
  ASSUME TypeOK, HandlersHold, NEW h \in Handlers,
         \A i \in Handlers \ {h} : handler'[i] = handler[i],
         IF handler'[h].pc = "free" THEN handler'[h] = Free ELSE handler'[h].msg \in Message
  PROVE  HandlersHold'
<1> DEFINE Working == {i \in Handlers : handler[i].pc # "free"}
<1>1. \A i \in Handlers :
         IF handler'[i].pc = "free" THEN handler'[i] = Free ELSE handler'[i].msg \in Message
  BY DEF HandlersHold
<1>2. IsFiniteSet(Working \cup {h})
  BY FS_AddElement DEF HandlersHold
<1>3. {i \in Handlers : handler'[i].pc # "free"} \in SUBSET (Working \cup {h})
  OBVIOUS
<1> HIDE DEF Working
<1>4. IsFiniteSet({i \in Handlers : handler'[i].pc # "free"})
  BY <1>2, <1>3, FS_Subset
<1>5. QED
  BY <1>1, <1>4 DEF HandlersHold

LEMMA NextAttempt ==
  ASSUME DeliveryAssumption, NEW m \in Message
  PROVE  /\ m.attempts \in Nat /\ m.attempts <= Retries /\ m.job \in Jobs
         /\ m.attempts < Retries =>
               /\ ForDead(m) = EmptyBag
               /\ \E x \in Message : /\ x.job = m.job /\ x.attempts = m.attempts + 1
                                     /\ ForRetry(m) = One(x)
         /\ ~ m.attempts < Retries =>
               m.attempts = Retries /\ ForRetry(m) = EmptyBag /\ ForDead(m) = One(m)
<1>1. /\ m.attempts \in Nat /\ m.attempts <= Retries /\ m.job \in Jobs
      /\ m = [job |-> m.job, attempts |-> m.attempts] /\ Retries \in Nat
  BY DEF Message, DeliveryAssumption
<1>2. CASE m.attempts < Retries
  <2> DEFINE x == [m EXCEPT !.attempts = @ + 1]
  <2>1. x = [job |-> m.job, attempts |-> m.attempts + 1]
    BY <1>1
  <2>2. m.attempts + 1 \in 0 .. Retries
    BY <1>1, <1>2
  <2>3. x \in Message /\ x.job = m.job /\ x.attempts = m.attempts + 1
    BY <1>1, <2>1, <2>2 DEF Message
  <2>4. ForRetry(m) = One(x) /\ ForDead(m) = EmptyBag
    BY <1>2 DEF ForRetry, ForDead
  <2> HIDE DEF x
  <2>5. QED
    BY <1>1, <1>2, <2>3, <2>4
<1>3. CASE ~ m.attempts < Retries
  BY <1>1, <1>3 DEF ForRetry, ForDead
<1>4. QED
  BY <1>1, <1>2, <1>3

LEMMA QueueSums ==
  ASSUME DeliveryAssumption, NEW B, Queue(B), TypeOK, HandlersHold,
         NEW h \in Handlers, handler[h].pc # "free"
  PROVE  /\ Queue(B (+) Rejected(h))
         /\ Queue(B (+) ForRetry(handler[h].msg))
         /\ Queue(B (+) ForDead(handler[h].msg))
         /\ Queue(B (+) ForDead(handler[h].msg) (+) Rejected(h))
<1>1. handler[h].msg \in Message
  BY DEF HandlersHold
<1>2. \A m \in Message : Queue(One(m))
  BY OneCopy DEF Queue
<1>3. Queue(EmptyBag)
  BY NoCopy DEF Queue
<1>4. \A C, D : Queue(C) /\ Queue(D) => Queue(C (+) D)
  BY PlusCopies DEF Queue
<1>5. Queue(Rejected(h))
  BY <1>1, <1>2, <1>3 DEF Rejected
<1>6. Queue(ForRetry(handler[h].msg)) /\ Queue(ForDead(handler[h].msg))
  BY <1>1, <1>2, <1>3, NextAttempt
<1>7. QED
  BY <1>4, <1>5, <1>6

LEMMA TypeStep ==
  ASSUME DeliveryAssumption, TypeOK, HandlersHold, [Next]_vars
  PROVE  TypeOK' /\ HandlersHold'
<1>0. /\ handler \in [Handlers -> State]
      /\ Queue(primary) /\ Queue(retry) /\ Queue(dead)
      /\ \A C, D : Queue(C) /\ Queue(D) => Queue(C (+) D)
      /\ \A m \in Message : Queue(One(m))
      /\ Queue(EmptyBag)
      /\ MaxDrops \in Nat
  BY TypeOfHandlers, OneCopy, NoCopy, PlusCopies DEF Queue, DeliveryAssumption
<1> DEFINE
      Queues == Queue(primary') /\ Queue(retry') /\ Queue(dead')
      Rest == /\ asked' \in [Jobs -> {"new", "confirmed", "failed"}]
              /\ expired' \subseteq Jobs
              /\ drops' \in 0 .. MaxDrops
              /\ tries' \in [Jobs -> Nat] /\ mails' \in [Jobs -> Nat]
              /\ again' \in [Jobs -> Nat]
              /\ refused' \subseteq Jobs /\ lapsed' \subseteq Jobs /\ unsent' \subseteq Jobs
<1>a. /\ asked \in [Jobs -> {"new", "confirmed", "failed"}]
      /\ expired \subseteq Jobs
      /\ drops \in 0 .. MaxDrops
      /\ tries \in [Jobs -> Nat] /\ mails \in [Jobs -> Nat] /\ again \in [Jobs -> Nat]
      /\ refused \subseteq Jobs /\ lapsed \subseteq Jobs /\ unsent \subseteq Jobs
  BY DEF TypeOK
<1>b. ASSUME handler' \in [Handlers -> State], Queues, Rest
      PROVE  TypeOK'
  <2>1. {"free"} \cup Steps = {"free", "taken", "sending", "failed", "settle"}
    BY DEF Steps
  <2>2. handler' \in [Handlers -> [pc : {"free", "taken", "sending", "failed", "settle"},
                                   msg : Message \cup {Nil}, leased : BOOLEAN]]
    BY <1>b, <2>1 DEF State
  <2>3. \A q \in {primary', retry', dead'} : IsABag(q) /\ BagToSet(q) \subseteq Message
    BY <1>b DEF Queue
  <2>4. QED
    BY <1>b, <2>2, <2>3 DEF TypeOK
<1>c. ASSUME handler' = handler, Queues, Rest
      PROVE  TypeOK' /\ HandlersHold'
  BY <1>0, <1>b, <1>c DEF HandlersHold
<1>d. ASSUME NEW h \in Handlers, NEW p \in Steps, handler[h].pc # "free", Goto(h, p),
             Queues, Rest
      PROVE  TypeOK' /\ HandlersHold'
  <2>1. /\ handler' \in [Handlers -> State]
        /\ handler'[h].pc = p /\ handler'[h].msg = handler[h].msg
        /\ \A i \in Handlers \ {h} : handler'[i] = handler[i]
    BY <1>0, <1>d, GotoFields
  <2>2. p # "free" /\ handler[h].msg \in Message
    BY <1>d DEF Steps, HandlersHold
  <2>3. QED
    BY <1>b, <1>d, <2>1, <2>2, HandlersHoldStep
<1>e. ASSUME NEW h \in Handlers, Finish(h), Queues, Rest
      PROVE  TypeOK' /\ HandlersHold'
  <2>1. /\ handler' \in [Handlers -> State]
        /\ handler'[h] = Free /\ Free.pc = "free"
        /\ \A i \in Handlers \ {h} : handler'[i] = handler[i]
    BY <1>0, <1>e, FinishFields
  <2>2. QED
    BY <1>b, <1>e, <2>1, HandlersHoldStep
<1>f. \A h \in Handlers : handler[h].pc # "free" =>
         handler[h].msg \in Message /\ JobOf(h) \in Jobs
  BY DEF HandlersHold, JobOf, Message
<1>g. \A f \in [Jobs -> Nat], j \in Jobs : Bump(f, j) \in [Jobs -> Nat]
  BY DEF Bump
<1>1. ASSUME NEW j \in Jobs, Publish(j) PROVE TypeOK' /\ HandlersHold'
  <2>1. Queue(Fresh(j))
    <3>1. [job |-> j, attempts |-> 0] \in Message
      BY DEF Message, DeliveryAssumption
    <3>2. QED
      BY <1>0, <3>1 DEF Fresh
  <2>2. Queues
    BY <1>0, <1>1, <2>1 DEF Publish
  <2>3. Rest /\ handler' = handler
    BY <1>a, <1>1 DEF Publish, history
  <2>4. QED
    BY <1>c, <2>2, <2>3
<1>2. ASSUME NEW j \in Jobs, PublishFails(j) PROVE TypeOK' /\ HandlersHold'
  <2>1. Queue(Fresh(j))
    <3>1. [job |-> j, attempts |-> 0] \in Message
      BY DEF Message, DeliveryAssumption
    <3>2. QED
      BY <1>0, <3>1 DEF Fresh
  <2>2. Queues
    BY <1>0, <1>2, <2>1 DEF PublishFails
  <2>3. Rest /\ handler' = handler
    BY <1>a, <1>2 DEF PublishFails, history
  <2>4. QED
    BY <1>c, <2>2, <2>3
<1>3. ASSUME NEW j \in Jobs, ExpireJob(j) PROVE TypeOK' /\ HandlersHold'
  <2>1. Queues /\ Rest /\ handler' = handler
    BY <1>0, <1>a, <1>3 DEF ExpireJob, history, queues
  <2>2. QED
    BY <1>c, <2>1
<1>4. CASE RetryDue
  <2>1. PICK m \in BagToSet(retry) : /\ retry' = retry (-) One(m)
                                     /\ primary' = primary (+) One(m)
    BY <1>4 DEF RetryDue
  <2>2. m \in Message
    BY <1>0 DEF Queue
  <2>3. Queue(retry (-) One(m))
    BY <1>0, MinusOneCopy DEF Queue
  <2>4. Queues
    BY <1>0, <1>4, <2>1, <2>2, <2>3 DEF RetryDue
  <2>5. Rest /\ handler' = handler
    BY <1>a, <1>4 DEF RetryDue, history
  <2>6. QED
    BY <1>c, <2>4, <2>5
<1>h. ASSUME Redeliver PROVE Queues /\ Rest
  <2>1. Queue(Returned)
    BY LeasedHold, ReturnedCopies
  <2>2. Queues
    BY <1>0, <1>h, <2>1 DEF Redeliver
  <2>3. again' \in [Jobs -> Nat]
    <3>1. \A j \in Jobs : Cardinality({h \in Leased : handler[h].msg.job = j}) \in Nat
      BY LeasedHold DEF Held, JobOf
    <3>2. QED
      BY <1>a, <1>h, <3>1 DEF Redeliver
  <2>4. drops' \in 0 .. MaxDrops
    BY <1>0, <1>a, <1>h DEF Redeliver
  <2>5. Rest
    BY <1>a, <1>h, <2>3, <2>4 DEF Redeliver
  <2>6. QED
    BY <2>2, <2>5
<1>5. CASE Crash
  <2>1. handler' = [h \in Handlers |-> Free] /\ Free \in State /\ Free.pc = "free"
    BY <1>5 DEF Crash, Free, State
  <2>2. {h \in Handlers : handler'[h].pc # "free"} = {}
    BY <2>1
  <2>3. HandlersHold'
    BY <2>1, <2>2, FS_EmptySet DEF HandlersHold
  <2>4. handler' \in [Handlers -> State]
    BY <2>1
  <2>5. QED
    BY <1>5, <1>b, <1>h, <2>3, <2>4 DEF Crash
<1>6. CASE DropConnection
  <2>1. handler' = [h \in Handlers |-> [handler[h] EXCEPT !.leased = FALSE]]
    BY <1>6 DEF DropConnection
  <2>2. \A h \in Handlers : /\ handler'[h] \in State
                            /\ handler'[h].pc = handler[h].pc
                            /\ handler'[h].msg = handler[h].msg
                            /\ handler'[h].leased = FALSE
    BY <1>0, <2>1 DEF State
  <2>3. handler' \in [Handlers -> State]
    BY <2>1, <2>2
  <2>4. {h \in Handlers : handler'[h].pc # "free"} = {h \in Handlers : handler[h].pc # "free"}
    BY <2>2
  <2>5. \A h \in Handlers : handler[h].pc = "free" => handler'[h] = Free
    <3>1. Free.leased = FALSE /\ Free \in State
      BY DEF Free, State
    <3>2. \A x \in State : x.leased = FALSE => [x EXCEPT !.leased = FALSE] = x
      BY DEF State
    <3>3. QED
      BY <2>1, <3>1, <3>2 DEF HandlersHold
  <2>6. HandlersHold'
    BY <2>2, <2>4, <2>5 DEF HandlersHold
  <2>7. QED
    BY <1>6, <1>b, <1>h, <2>3, <2>6 DEF DropConnection
<1>7. ASSUME NEW h \in Handlers, Deliver(h) PROVE TypeOK' /\ HandlersHold'
  <2>1. PICK m \in BagToSet(primary) :
            /\ m \in Message /\ primary' = primary (-) One(m)
            /\ handler'[h].pc = "taken" /\ handler'[h].msg = m
    BY <1>7, DeliverFields
  <2>2. /\ handler' \in [Handlers -> State]
        /\ \A i \in Handlers \ {h} : handler'[i] = handler[i]
    BY <1>7, DeliverFields
  <2>3. Queue(primary (-) One(m))
    BY <1>0, MinusOneCopy DEF Queue
  <2>4. Queues
    BY <1>0, <1>7, <2>1, <2>3 DEF Deliver
  <2>5. Rest
    BY <1>a, <1>7 DEF Deliver, history
  <2>6. HandlersHold'
    BY <2>1, <2>2, HandlersHoldStep
  <2>7. QED
    BY <1>b, <2>2, <2>4, <2>5, <2>6
<1>8. ASSUME NEW h \in Handlers, RejectMalformed(h) PROVE TypeOK' /\ HandlersHold'
  <2>1. Queue(dead (+) Rejected(h))
    BY <1>0, <1>8, QueueSums DEF RejectMalformed
  <2>2. Queues /\ Rest
    BY <1>0, <1>a, <1>8, <2>1 DEF RejectMalformed, history
  <2>3. QED
    BY <1>8, <1>e, <2>2 DEF RejectMalformed
<1>9. ASSUME NEW h \in Handlers, AckExpired(h) PROVE TypeOK' /\ HandlersHold'
  <2>1. Queues /\ Rest
    BY <1>0, <1>a, <1>f, <1>9 DEF AckExpired, queues
  <2>2. QED
    BY <1>9, <1>e, <2>1 DEF AckExpired
<1>10. ASSUME NEW h \in Handlers, Send(h) PROVE TypeOK' /\ HandlersHold'
  <2>1. Queues /\ Rest
    BY <1>0, <1>a, <1>f, <1>g, <1>10 DEF Send, queues
  <2>2. QED
    BY <1>10, <1>d, <2>1 DEF Send, Steps
<1>11. ASSUME NEW h \in Handlers, Accepted(h) PROVE TypeOK' /\ HandlersHold'
  <2>1. Queues /\ Rest
    BY <1>0, <1>a, <1>f, <1>g, <1>11 DEF Accepted, queues
  <2>2. QED
    BY <1>11, <1>d, <2>1 DEF Accepted, Steps
<1>12. ASSUME NEW h \in Handlers, Refused(h) PROVE TypeOK' /\ HandlersHold'
  <2>1. Queue(dead (+) Rejected(h))
    BY <1>0, <1>12, QueueSums DEF Refused
  <2>2. Queues /\ Rest
    BY <1>0, <1>a, <1>f, <1>12, <2>1 DEF Refused
  <2>3. QED
    BY <1>12, <1>e, <2>2 DEF Refused
<1>13. ASSUME NEW h \in Handlers, SendFails(h) PROVE TypeOK' /\ HandlersHold'
  <2>1. Queues /\ Rest
    BY <1>0, <1>a, <1>f, <1>g, <1>13 DEF SendFails, queues
  <2>2. QED
    BY <1>13, <1>d, <2>1 DEF SendFails, Steps
<1>14. ASSUME NEW h \in Handlers, Republish(h) PROVE TypeOK' /\ HandlersHold'
  <2>1. Queue(retry (+) ForRetry(handler[h].msg)) /\ Queue(dead (+) ForDead(handler[h].msg))
    BY <1>0, <1>14, QueueSums DEF Republish
  <2>2. Queues /\ Rest
    BY <1>0, <1>a, <1>14, <2>1 DEF Republish, history
  <2>3. QED
    BY <1>14, <1>d, <2>2 DEF Republish, Steps
<1>15. ASSUME NEW h \in Handlers, RepublishFails(h) PROVE TypeOK' /\ HandlersHold'
  <2>1. /\ Queue(retry (+) ForRetry(handler[h].msg))
        /\ Queue(dead (+) Rejected(h))
        /\ Queue(dead (+) ForDead(handler[h].msg) (+) Rejected(h))
    BY <1>0, <1>15, QueueSums DEF RepublishFails
  <2>2. Queues
    BY <1>0, <1>15, <2>1 DEF RepublishFails
  <2>3. Rest
    BY <1>a, <1>f, <1>15 DEF RepublishFails
  <2>4. QED
    BY <1>15, <1>e, <2>2, <2>3 DEF RepublishFails
<1>16. ASSUME NEW h \in Handlers, Ack(h) PROVE TypeOK' /\ HandlersHold'
  <2>1. Queues /\ Rest
    BY <1>0, <1>a, <1>16 DEF Ack, queues, history
  <2>2. QED
    BY <1>16, <1>e, <2>1 DEF Ack
<1>17. CASE UNCHANGED vars
  <2>1. Queues /\ Rest /\ handler' = handler
    BY <1>0, <1>a, <1>17 DEF vars, queues, history
  <2>2. QED
    BY <1>c, <2>1
<1>18. QED
  BY <1>1, <1>2, <1>3, <1>4, <1>5, <1>6, <1>7, <1>8, <1>9, <1>10, <1>11, <1>12,
     <1>13, <1>14, <1>15, <1>16, <1>17 DEF Next, Handle

-----------------------------------------------------------------------------
(* What a job is worth altogether, and how each action changes that.       *)

Accounted(j, W) ==
    /\ Counted(primary, j, W) /\ Counted(retry, j, W)
    /\ IsFiniteSet(HandlerUnits(handler, j, W))

Budget(j, W) ==
    InQueue(primary, j, W) + InQueue(retry, j, W) + InHandlers(handler, j, W)

(* A taken message is worth what it was in its queue.                      *)
Even == {W \in Weight : W.held["taken"] = W.queued}

LEMMA WorthIsNat ==
  ASSUME NEW W \in Weight, NEW j, TypeOK, HandlersHold
  PROVE  \A h \in Handlers : Worth(handler[h], j, W) \in Nat
<1>1. \A s \in Steps, m \in Message : W.held[s][m] \in Nat
  BY DEF Weight
<1>2. \A h \in Handlers : handler[h].pc # "free" =>
         handler[h].pc \in Steps /\ handler[h].msg \in Message
  BY TypeOfHandlers DEF State, HandlersHold
<1>3. QED
  BY <1>1, <1>2 DEF Worth

LEMMA BudgetIsNat ==
  ASSUME NEW W, NEW j, Accounted(j, W)
  PROVE  /\ InQueue(primary, j, W) \in Nat /\ InQueue(retry, j, W) \in Nat
         /\ InHandlers(handler, j, W) \in Nat /\ Budget(j, W) \in Nat
<1>1. /\ InQueue(primary, j, W) \in Nat /\ InQueue(retry, j, W) \in Nat
      /\ InHandlers(handler, j, W) \in Nat
  BY FS_CardinalityType DEF Accounted, Counted, InQueue, InHandlers
<1>2. QED
  BY <1>1 DEF Budget

LEMMA SameBudget ==
  ASSUME NEW W, NEW j, Accounted(j, W),
         primary' = primary, retry' = retry, handler' = handler
  PROVE  Accounted(j, W)' /\ Budget(j, W)' = Budget(j, W)
BY DEF Accounted, Budget, Counted, InQueue, InHandlers, QueueUnits, HandlerUnits, Worth

LEMMA PublishBudget ==
  ASSUME NEW W \in Weight, NEW i, NEW j \in Jobs, TypeOK, Accounted(i, W),
         DeliveryAssumption, Publish(j) \/ PublishFails(j)
  PROVE  /\ Accounted(i, W)'
         /\ Budget(i, W)' <= Budget(i, W)
              + (IF i = j THEN W.queued[[job |-> j, attempts |-> 0]] ELSE 0)
<1> DEFINE m == [job |-> j, attempts |-> 0]
<1>1. m \in Message /\ m.job = j
  BY DEF Message, DeliveryAssumption
<1>2. W.queued[m] \in Nat
  BY <1>1 DEF Weight
<1>3. /\ retry' = retry /\ handler' = handler
      /\ primary' = primary (+) EmptyBag \/ primary' = primary (+) One(m)
  BY DEF Publish, PublishFails, Fresh
<1> HIDE DEF m
<1>4. Queue(primary)
  BY TypeOfHandlers
<1>5. CASE primary' = primary (+) EmptyBag
  <2>1. primary' = primary
    BY <1>4, <1>5, AddNone DEF Queue
  <2>2. QED
    BY <1>2, <1>3, <2>1, SameBudget, BudgetIsNat DEF m
<1>6. CASE primary' = primary (+) One(m)
  <2>1. /\ Counted(primary (+) One(m), i, W)
        /\ InQueue(primary (+) One(m), i, W)
             = InQueue(primary, i, W) + (IF m.job = i THEN W.queued[m] ELSE 0)
    BY <1>1, <1>4, AddOne DEF Accounted
  <2>2. /\ Counted(primary, i, W)'
        /\ InQueue(primary, i, W)'
             = InQueue(primary, i, W) + (IF i = j THEN W.queued[m] ELSE 0)
    BY <1>1, <1>6, <2>1 DEF Counted, InQueue
  <2>3. /\ Counted(retry, i, W)' /\ InQueue(retry, i, W)' = InQueue(retry, i, W)
        /\ IsFiniteSet(HandlerUnits(handler, i, W))'
        /\ InHandlers(handler, i, W)' = InHandlers(handler, i, W)
    BY <1>3 DEF Accounted, Counted, InQueue, InHandlers, QueueUnits, HandlerUnits, Worth
  <2>4. QED
    BY <1>2, <2>2, <2>3, BudgetIsNat DEF Accounted, Budget, m
<1>7. QED
  BY <1>3, <1>5, <1>6

LEMMA RetryDueBudget ==
  ASSUME NEW W \in Weight, NEW i, TypeOK, Accounted(i, W), RetryDue
  PROVE  Accounted(i, W)' /\ Budget(i, W)' = Budget(i, W)
<1>1. PICK m \in BagToSet(retry) : /\ retry' = retry (-) One(m)
                                   /\ primary' = primary (+) One(m)
  BY DEF RetryDue
<1>2. Queue(primary) /\ Queue(retry)
  BY TypeOfHandlers
<1>3. /\ m \in Message
      /\ Counted(retry (-) One(m), i, W)
      /\ InQueue(retry (-) One(m), i, W) \in Nat
      /\ InQueue(retry, i, W)
           = InQueue(retry (-) One(m), i, W) + (IF m.job = i THEN W.queued[m] ELSE 0)
  BY <1>1, <1>2, TakeOne DEF Accounted
<1>4. /\ Counted(primary (+) One(m), i, W)
      /\ InQueue(primary (+) One(m), i, W)
           = InQueue(primary, i, W) + (IF m.job = i THEN W.queued[m] ELSE 0)
  BY <1>2, <1>3, AddOne DEF Accounted
<1>5. /\ Counted(retry, i, W)' /\ Counted(primary, i, W)'
      /\ InQueue(retry, i, W)' = InQueue(retry (-) One(m), i, W)
      /\ InQueue(primary, i, W)' = InQueue(primary (+) One(m), i, W)
  BY <1>1, <1>3, <1>4 DEF Counted, InQueue
<1>6. /\ IsFiniteSet(HandlerUnits(handler, i, W))'
      /\ InHandlers(handler, i, W)' = InHandlers(handler, i, W)
  BY DEF RetryDue, Accounted, InHandlers, HandlerUnits, Worth
<1>7. W.queued[m] \in Nat
  BY <1>3 DEF Weight
<1>8. QED
  BY <1>3, <1>4, <1>5, <1>6, <1>7, BudgetIsNat DEF Accounted, Budget

(* One handler takes a step. *)
LEMMA HandlersBudget ==
  ASSUME NEW W \in Weight, NEW j, NEW h \in Handlers, TypeOK, HandlersHold,
         Accounted(j, W),
         \A k \in Handlers \ {h} : handler'[k] = handler[k],
         Worth(handler'[h], j, W) \in Nat
  PROVE  /\ Worth(handler[h], j, W) \in Nat
         /\ IsFiniteSet(HandlerUnits(handler, j, W))'
         /\ InHandlers(handler, j, W) \in Nat /\ InHandlers(handler, j, W)' \in Nat
         /\ InHandlers(handler, j, W)' + Worth(handler[h], j, W)
              = InHandlers(handler, j, W) + Worth(handler'[h], j, W)
<1> DEFINE f == handler
           g == handler'
<1>0. /\ \A k \in Handlers \ {h} : g[k] = f[k]
      /\ Worth(f[h], j, W) \in Nat /\ Worth(g[h], j, W) \in Nat
      /\ IsFiniteSet(HandlerUnits(f, j, W))
  BY WorthIsNat DEF Accounted
<1> HIDE DEF f, g
<1> DEFINE U(x) == HandlerUnits(x, j, W)
           P(x) == {h} \X (1 .. Worth(x[h], j, W))
           O(x) == {u \in U(x) : u[1] # h}
<1>1. O(g) = O(f)
  BY <1>0 DEF HandlerUnits
<1>2. IsFiniteSet(O(f)) /\ IsFiniteSet(O(g))
  BY <1>0, <1>1, FS_Subset
<1>3. /\ U(f) = O(f) \cup P(f) /\ U(g) = O(g) \cup P(g)
      /\ O(f) \cap P(f) = {} /\ O(g) \cap P(g) = {}
  <2> DEFINE wf == Worth(f[h], j, W)
             wg == Worth(g[h], j, W)
  <2>1. wf \in Nat /\ wg \in Nat
    BY <1>0
  <2>2. /\ HandlerUnits(f, j, W)
             = {u \in HandlerUnits(f, j, W) : u[1] # h} \cup ({h} \X (1 .. wf))
        /\ HandlerUnits(g, j, W)
             = {u \in HandlerUnits(g, j, W) : u[1] # h} \cup ({h} \X (1 .. wg))
    BY <2>1 DEF HandlerUnits
  <2>3. QED
    BY <2>2
<1>4. \A n \in Nat : /\ IsFiniteSet({h} \X (1 .. n))
                     /\ Cardinality({h} \X (1 .. n)) = n
  <2> TAKE n \in Nat
  <2>1. /\ IsFiniteSet({h}) /\ Cardinality({h}) = 1
        /\ IsFiniteSet(1 .. n) /\ Cardinality(1 .. n) = n
    BY FS_Singleton, UpTo
  <2>2. /\ IsFiniteSet({h} \X (1 .. n))
        /\ Cardinality({h} \X (1 .. n)) = Cardinality({h}) * Cardinality(1 .. n)
    BY <2>1, Product, Zenon
  <2>3. QED
    BY <2>1, <2>2
<1>5. /\ IsFiniteSet(P(f)) /\ Cardinality(P(f)) = Worth(f[h], j, W)
      /\ IsFiniteSet(P(g)) /\ Cardinality(P(g)) = Worth(g[h], j, W)
  BY <1>0, <1>4
<1> HIDE DEF U, P, O
<1>6. /\ Cardinality(U(f)) = Cardinality(O(f)) + Cardinality(P(f))
      /\ Cardinality(U(g)) = Cardinality(O(g)) + Cardinality(P(g))
      /\ IsFiniteSet(U(g))
      /\ Cardinality(O(f)) \in Nat
  BY <1>2, <1>3, <1>5, Disjoint
<1>7. /\ IsFiniteSet(HandlerUnits(g, j, W))
      /\ InHandlers(f, j, W) \in Nat /\ InHandlers(g, j, W) \in Nat
      /\ InHandlers(g, j, W) + Worth(f[h], j, W)
           = InHandlers(f, j, W) + Worth(g[h], j, W)
  BY <1>0, <1>1, <1>5, <1>6 DEF InHandlers, U
<1>8. /\ HandlerUnits(handler, j, W)' = HandlerUnits(g, j, W)
      /\ InHandlers(handler, j, W)' = InHandlers(g, j, W)
  BY DEF g, HandlerUnits, InHandlers
<1>9. QED
  BY <1>0, <1>7, <1>8 DEF f, g

LEMMA DeliverBudget ==
  ASSUME NEW W \in Even, NEW i, NEW h \in Handlers, TypeOK, HandlersHold,
         Accounted(i, W), Deliver(h)
  PROVE  Accounted(i, W)' /\ Budget(i, W)' = Budget(i, W)
<1>0. W \in Weight /\ W.held["taken"] = W.queued
  BY DEF Even
<1>1. PICK m \in BagToSet(primary) :
         /\ m \in Message
         /\ primary' = primary (-) One(m)
         /\ handler'[h].pc = "taken" /\ handler'[h].msg = m
  BY DeliverFields
<1>2. /\ \A g \in Handlers \ {h} : handler'[g] = handler[g]
      /\ handler[h].pc = "free"
  BY DeliverFields
<1>3. Queue(primary)
  BY TypeOfHandlers
<1>4. W.queued[m] \in Nat
  BY <1>0, <1>1 DEF Weight
<1>5. /\ Counted(primary (-) One(m), i, W)
      /\ InQueue(primary (-) One(m), i, W) \in Nat
      /\ InQueue(primary, i, W)
           = InQueue(primary (-) One(m), i, W) + (IF m.job = i THEN W.queued[m] ELSE 0)
  BY <1>0, <1>1, <1>3, TakeOne DEF Accounted
<1>6. /\ Worth(handler[h], i, W) = 0
      /\ Worth(handler'[h], i, W) = IF m.job = i THEN W.queued[m] ELSE 0
  BY <1>0, <1>1, <1>2 DEF Worth
<1>7. /\ IsFiniteSet(HandlerUnits(handler, i, W))'
      /\ InHandlers(handler, i, W) \in Nat /\ InHandlers(handler, i, W)' \in Nat
      /\ InHandlers(handler, i, W)' + Worth(handler[h], i, W)
           = InHandlers(handler, i, W) + Worth(handler'[h], i, W)
  <2>1. Worth(handler'[h], i, W) \in Nat
    BY <1>4, <1>6
  <2>2. QED
    BY <1>0, <1>2, <2>1, HandlersBudget
<1>8. /\ Counted(primary, i, W)' /\ Counted(retry, i, W)'
      /\ InQueue(primary, i, W)' = InQueue(primary (-) One(m), i, W)
      /\ InQueue(retry, i, W)' = InQueue(retry, i, W)
  BY <1>1, <1>5 DEF Deliver, Counted, InQueue, Accounted, QueueUnits
<1>9. QED
  BY <1>4, <1>5, <1>6, <1>7, <1>8, BudgetIsNat DEF Accounted, Budget

LEMMA RedeliverBudget ==
  ASSUME NEW W \in Weight, NEW i, TypeOK, HandlersHold, Accounted(i, W),
         NEW n \in Nat, \A m \in Message : W.queued[m] <= n,
         Crash \/ DropConnection
  PROVE  /\ Accounted(i, W)'
         /\ Budget(i, W)' <= Budget(i, W) + n * Cardinality(Held(i))
<1>1. /\ Queue(primary)
      /\ IsFiniteSet(Leased) /\ \A h \in Leased : handler[h].msg \in Message
  BY TypeOfHandlers, LeasedHold
<1>2. /\ primary' = primary (+) Returned /\ retry' = retry
  BY DEF Crash, DropConnection, Redeliver
<1>3. /\ Counted(primary (+) Returned, i, W)
      /\ InQueue(primary, i, W) \in Nat
      /\ InQueue(primary (+) Returned, i, W) \in Nat
      /\ Cardinality(Held(i)) \in Nat
      /\ InQueue(primary (+) Returned, i, W)
            <= InQueue(primary, i, W) + n * Cardinality(Held(i))
  BY <1>1, AddReturned DEF Accounted
<1>4. /\ Counted(primary, i, W)' /\ Counted(retry, i, W)'
      /\ InQueue(primary, i, W)' = InQueue(primary (+) Returned, i, W)
      /\ InQueue(retry, i, W)' = InQueue(retry, i, W)
  BY <1>2, <1>3 DEF Accounted, Counted, InQueue, QueueUnits
<1>5. /\ IsFiniteSet(HandlerUnits(handler, i, W))'
      /\ InHandlers(handler, i, W)' \in Nat
      /\ InHandlers(handler, i, W)' <= InHandlers(handler, i, W)
  <2>1. CASE Crash
    <3>1. handler' = [h \in Handlers |-> Free] /\ Free.pc = "free"
      BY <2>1 DEF Crash, Free
    <3>2. HandlerUnits(handler, i, W)' = {}
      <4>1. \A h \in Handlers : Worth(handler'[h], i, W) = 0
        BY <3>1 DEF Worth
      <4>2. HandlerUnits(handler', i, W) = {}
        BY <4>1 DEF HandlerUnits
      <4>3. QED
        BY <4>2 DEF HandlerUnits
    <3>3. IsFiniteSet({}) /\ Cardinality({}) = 0
      BY FS_EmptySet, Zenon
    <3>4. InHandlers(handler, i, W)' = 0
      BY <3>2, <3>3 DEF InHandlers
    <3>5. InHandlers(handler, i, W) \in Nat
      BY BudgetIsNat
    <3>6. QED
      BY <3>2, <3>3, <3>4, <3>5
  <2>2. CASE DropConnection
    <3>1. handler' = [h \in Handlers |-> [handler[h] EXCEPT !.leased = FALSE]]
      BY <2>2 DEF DropConnection
    <3>2. \A h \in Handlers : handler'[h].pc = handler[h].pc /\ handler'[h].msg = handler[h].msg
      BY <3>1, TypeOfHandlers DEF State
    <3>3. HandlerUnits(handler, i, W)' = HandlerUnits(handler, i, W)
      BY <3>2 DEF HandlerUnits, Worth
    <3>4. QED
      BY <3>3, BudgetIsNat DEF InHandlers, Accounted
  <2>3. QED
    BY <2>1, <2>2
<1>6. n * Cardinality(Held(i)) \in Nat
  BY <1>3
<1>7. QED
  <2>1. /\ InQueue(retry, i, W) \in Nat /\ InHandlers(handler, i, W) \in Nat
    BY BudgetIsNat
  <2> DEFINE more == n * Cardinality(Held(i))
  <2>2. more \in Nat
    BY <1>6
  <2>3. InQueue(primary, i, W)' <= InQueue(primary, i, W) + more
    BY <1>3, <1>4
  <2> HIDE DEF more
  <2>4. Budget(i, W)' <= Budget(i, W) + more
    BY <1>3, <1>4, <1>5, <2>1, <2>2, <2>3 DEF Budget
  <2>5. QED
    BY <1>4, <1>5, <2>4 DEF Accounted, more

(* A step of handle_message moves worth from its handler to the retry      *)
(* queue, or lets it go.                                                   *)
LEMMA HandleBudget ==
  ASSUME NEW W \in Weight, NEW i, NEW h \in Handlers, TypeOK, HandlersHold,
         Accounted(i, W), primary' = primary, retry' = retry,
         \A g \in Handlers \ {h} : handler'[g] = handler[g],
         Worth(handler'[h], i, W) \in Nat
  PROVE  /\ Accounted(i, W)' /\ Budget(i, W) \in Nat /\ Budget(i, W)' \in Nat
         /\ Worth(handler[h], i, W) \in Nat
         /\ Budget(i, W)' + Worth(handler[h], i, W) = Budget(i, W) + Worth(handler'[h], i, W)
<1>1. /\ Worth(handler[h], i, W) \in Nat
      /\ IsFiniteSet(HandlerUnits(handler, i, W))'
      /\ InHandlers(handler, i, W) \in Nat /\ InHandlers(handler, i, W)' \in Nat
      /\ InHandlers(handler, i, W)' + Worth(handler[h], i, W)
           = InHandlers(handler, i, W) + Worth(handler'[h], i, W)
  BY HandlersBudget
<1>3. /\ Counted(primary, i, W)' /\ Counted(retry, i, W)'
      /\ InQueue(primary, i, W)' = InQueue(primary, i, W)
      /\ InQueue(retry, i, W)' = InQueue(retry, i, W)
  BY DEF Accounted, Counted, InQueue, QueueUnits
<1>4. QED
  BY <1>1, <1>3, BudgetIsNat DEF Accounted, Budget

LEMMA RetryBudget ==
  ASSUME NEW W \in Weight, NEW i, NEW h \in Handlers, TypeOK, HandlersHold,
         NEW x \in Message,
         Accounted(i, W), primary' = primary, retry' = retry (+) One(x),
         \A g \in Handlers \ {h} : handler'[g] = handler[g],
         Worth(handler'[h], i, W) \in Nat
  PROVE  /\ Accounted(i, W)' /\ Budget(i, W) \in Nat /\ Budget(i, W)' \in Nat
         /\ Worth(handler[h], i, W) \in Nat
         /\ Budget(i, W)' + Worth(handler[h], i, W)
              = Budget(i, W) + Worth(handler'[h], i, W)
                  + (IF x.job = i THEN W.queued[x] ELSE 0)
<1>1. /\ Worth(handler[h], i, W) \in Nat
      /\ IsFiniteSet(HandlerUnits(handler, i, W))'
      /\ InHandlers(handler, i, W) \in Nat /\ InHandlers(handler, i, W)' \in Nat
      /\ InHandlers(handler, i, W)' + Worth(handler[h], i, W)
           = InHandlers(handler, i, W) + Worth(handler'[h], i, W)
  BY HandlersBudget
<1>3. /\ Counted(retry (+) One(x), i, W)
      /\ InQueue(retry (+) One(x), i, W)
           = InQueue(retry, i, W) + (IF x.job = i THEN W.queued[x] ELSE 0)
  BY TypeOfHandlers, AddOne DEF Accounted
<1>4. /\ Counted(primary, i, W)' /\ Counted(retry, i, W)'
      /\ InQueue(primary, i, W)' = InQueue(primary, i, W)
      /\ InQueue(retry, i, W)' = InQueue(retry (+) One(x), i, W)
  BY <1>3 DEF Accounted, Counted, InQueue, QueueUnits
<1>6. W.queued[x] \in Nat
  BY DEF Weight
<1>7. QED
  BY <1>1, <1>3, <1>4, <1>6, BudgetIsNat DEF Accounted, Budget

-----------------------------------------------------------------------------
(* The inductive invariant.                                                *)

(* A published job has been entered once, and every repeated delivery      *)
(* enters it again.                                                        *)
Entries(j) == (IF asked[j] = "new" THEN 0 ELSE 1) + again[j]

(* Every copy and every handler that has not had its answer from SMTP is a *)
(* chance that the job is mailed.                                          *)
Chance == [queued |-> [m \in Message |-> 1],
           held |-> [s \in Steps |-> [m \in Message |-> IF s = "settle" THEN 0 ELSE 1]]]

(* The calls of send that a copy, or a handler, can still lead to.         *)
Left == [queued |-> [m \in Message |-> Retries + 1 - m.attempts],
         held |-> [s \in Steps |-> [m \in Message |->
                      IF s = "settle" THEN 0
                      ELSE IF s = "taken" THEN Retries + 1 - m.attempts
                      ELSE Retries - m.attempts]]]

(* A mail sent and a refusal each use up a chance of the job.              *)
ChancesAreCounted ==
    \A j \in Jobs :
       /\ Accounted(j, Chance)
       /\ Budget(j, Chance) + mails[j] + (IF j \in refused THEN 1 ELSE 0) <= Entries(j)

(* Each entry of a job is worth one try and Retries more.                  *)
TriesAreCounted ==
    \A j \in Jobs :
       /\ Accounted(j, Left)
       /\ Budget(j, Left) + tries[j] <= (Retries + 1) * Entries(j)

(* Nobody tries to send what cannot be read.                               *)
UnreadableIsUntried == \A j \in Malformed : tries[j] = 0

(* A job somebody works on has come to something, or waits in a queue, or  *)
(* a lease stands for it that no answer has settled yet.                   *)
Waiting(j) == \E m \in BagToSet(primary (+) retry) : m.job = j
Pending(j) == \E h \in Held(j) : handler[h].pc # "settle"
NothingIsLost == \A j \in InWork : Outcome(j) # {} \/ Waiting(j) \/ Pending(j)

IInv ==
    /\ TypeOK
    /\ HandlersHold
    /\ ChancesAreCounted
    /\ TriesAreCounted
    /\ UnreadableIsUntried
    /\ DeadAfterRetries
    /\ NothingIsLost

LEMMA ChanceValues ==
  /\ Chance \in Even /\ Chance \in Weight
  /\ \A m \in Message : Chance.queued[m] = 1
  /\ \A x, j : x.pc \in {"free"} \cup Steps /\ (x.pc # "free" => x.msg \in Message)
        => Worth(x, j, Chance)
             = IF x.pc \in {"taken", "sending", "failed"} /\ x.msg.job = j THEN 1 ELSE 0
<1>1. /\ Chance \in Weight /\ Chance.held["taken"] = Chance.queued
      /\ \A m \in Message : Chance.queued[m] = 1
  BY DEF Chance, Weight, Steps
<1>2. \A s \in Steps, m \in Message :
         Chance.held[s][m] = IF s \in {"taken", "sending", "failed"} THEN 1 ELSE 0
  BY DEF Chance, Steps
<1>3. ASSUME NEW x, NEW j, x.pc \in {"free"} \cup Steps, x.pc # "free" => x.msg \in Message
      PROVE  Worth(x, j, Chance)
               = IF x.pc \in {"taken", "sending", "failed"} /\ x.msg.job = j THEN 1 ELSE 0
  <2>1. CASE x.pc = "free"
    BY <2>1 DEF Worth
  <2>2. CASE x.pc \in Steps
    <3>1. x.pc # "free"
      BY <2>2 DEF Steps
    <3>2. QED
      BY <1>2, <1>3, <2>2, <3>1 DEF Worth
  <2>3. QED
    BY <1>3, <2>1, <2>2
<1>4. QED
  BY <1>1, <1>3 DEF Even

LEMMA LeftValues ==
  ASSUME DeliveryAssumption
  PROVE  /\ Left \in Even /\ Left \in Weight
         /\ \A m \in Message : Left.queued[m] = Retries + 1 - m.attempts
         /\ \A x, j : x.pc \in {"free"} \cup Steps /\ (x.pc # "free" => x.msg \in Message)
               => Worth(x, j, Left)
                    = IF x.pc \in {"free", "settle"} \/ x.msg.job # j THEN 0
                      ELSE IF x.pc = "taken" THEN Retries + 1 - x.msg.attempts
                      ELSE Retries - x.msg.attempts
<1>0. \A m \in Message : /\ Retries + 1 - m.attempts \in Nat /\ Retries - m.attempts \in Nat
  BY NextAttempt DEF DeliveryAssumption
<1>1. Left \in Weight
  <2>1. [m \in Message |-> Retries + 1 - m.attempts] \in [Message -> Nat]
    BY <1>0
  <2>2. \A s \in Steps : [m \in Message |->
                      IF s = "settle" THEN 0
                      ELSE IF s = "taken" THEN Retries + 1 - m.attempts
                      ELSE Retries - m.attempts] \in [Message -> Nat]
    BY <1>0
  <2>3. QED
    BY <2>1, <2>2 DEF Left, Weight
<1>2. \A m \in Message : Left.queued[m] = Retries + 1 - m.attempts
  BY DEF Left
<1>3. \A s \in Steps, m \in Message :
         Left.held[s][m] = IF s = "settle" THEN 0
                           ELSE IF s = "taken" THEN Retries + 1 - m.attempts
                           ELSE Retries - m.attempts
  BY DEF Left
<1>4. Left.held["taken"] = Left.queued
  BY DEF Left, Steps
<1>5. ASSUME NEW x, NEW j, x.pc \in {"free"} \cup Steps, x.pc # "free" => x.msg \in Message
      PROVE  Worth(x, j, Left)
               = IF x.pc \in {"free", "settle"} \/ x.msg.job # j THEN 0
                 ELSE IF x.pc = "taken" THEN Retries + 1 - x.msg.attempts
                 ELSE Retries - x.msg.attempts
  <2>1. CASE x.pc = "free"
    BY <2>1 DEF Worth
  <2>2. CASE x.pc \in Steps
    <3>1. x.pc # "free"
      BY <2>2 DEF Steps
    <3>2. QED
      BY <1>3, <1>5, <2>2, <3>1 DEF Worth
  <2>3. QED
    BY <1>5, <2>1, <2>2
<1>6. QED
  BY <1>1, <1>2, <1>4, <1>5 DEF Even

(* What every step of handle_message has in common: handler h goes on to   *)
(* p, with its message, or is free.                                        *)
Moves(h, p) ==
    /\ handler[h].pc # "free" /\ handler[h].msg \in Message /\ JobOf(h) \in Jobs
    /\ \A g \in Handlers \ {h} : handler'[g] = handler[g]
    /\ handler'[h].pc = p
    /\ p # "free" => /\ handler'[h].msg = handler[h].msg
                     /\ handler'[h].leased = handler[h].leased
    /\ p = "free" => handler'[h] = Free

LEMMA HandleMoves ==
  ASSUME TypeOK, HandlersHold, NEW h \in Handlers
  PROVE  /\ RejectMalformed(h) => Moves(h, "free")
         /\ AckExpired(h) => Moves(h, "free")
         /\ Send(h) => Moves(h, "sending")
         /\ Accepted(h) => Moves(h, "settle")
         /\ Refused(h) => Moves(h, "free")
         /\ SendFails(h) => Moves(h, "failed")
         /\ Republish(h) => Moves(h, "settle")
         /\ RepublishFails(h) => Moves(h, "free")
         /\ Ack(h) => Moves(h, "free")
<1>1. handler[h].pc # "free" => handler[h].msg \in Message /\ JobOf(h) \in Jobs
  BY DEF HandlersHold, JobOf, Message
<1>2. handler[h].pc # "free" /\ Finish(h) => Moves(h, "free")
  <2>1. handler \in [Handlers -> State]
    BY TypeOfHandlers
  <2>2. QED
    BY <1>1, <2>1, FinishFields DEF Moves
<1>3. ASSUME NEW p \in Steps, handler[h].pc # "free", Goto(h, p)
      PROVE  Moves(h, p)
  <2>1. handler \in [Handlers -> State] /\ p # "free"
    BY TypeOfHandlers DEF Steps
  <2>2. QED
    BY <1>1, <1>3, <2>1, GotoFields DEF Moves
<1>4. {"sending", "failed", "settle"} \subseteq Steps
  BY DEF Steps
<1>5. /\ RejectMalformed(h) \/ AckExpired(h) \/ Refused(h) \/ RepublishFails(h) \/ Ack(h)
            => handler[h].pc # "free" /\ Finish(h)
      /\ Send(h) => handler[h].pc # "free" /\ Goto(h, "sending")
      /\ Accepted(h) \/ Republish(h) => handler[h].pc # "free" /\ Goto(h, "settle")
      /\ SendFails(h) => handler[h].pc # "free" /\ Goto(h, "failed")
  BY DEF RejectMalformed, AckExpired, Refused, RepublishFails, Ack, Send, Accepted,
         Republish, SendFails
<1>6. QED
  BY <1>2, <1>3, <1>4, <1>5

(* The retry copy of a message, if it has an attempt left.                 *)
Retried(m) ==
    \/ retry' = retry
    \/ m.attempts < Retries /\ \E x \in Message : /\ x.job = m.job
                                                  /\ x.attempts = m.attempts + 1
                                                  /\ retry' = retry (+) One(x)

LEMMA HandleRetries ==
  ASSUME DeliveryAssumption, TypeOK, HandlersHold, NEW h \in Handlers, Handle(h)
  PROVE  /\ primary' = primary /\ asked' = asked /\ drops' = drops
         /\ Retried(handler[h].msg)
         /\ Republish(h) \/ RepublishFails(h) \/ retry' = retry
<1>1. /\ primary' = primary /\ asked' = asked /\ drops' = drops
      /\ \/ retry' = retry
         \/ /\ Republish(h) \/ RepublishFails(h)
            /\ handler[h].pc = "failed"
            /\ retry' = retry (+) ForRetry(handler[h].msg)
  BY DEF Handle, RejectMalformed, AckExpired, Refused, RepublishFails, Ack, Send,
         Accepted, Republish, SendFails, queues
<1>2. CASE retry' = retry
  BY <1>1, <1>2 DEF Retried
<1>3. CASE /\ Republish(h) \/ RepublishFails(h)
           /\ handler[h].pc = "failed"
           /\ retry' = retry (+) ForRetry(handler[h].msg)
  <2>1. handler[h].msg \in Message
    BY <1>3 DEF HandlersHold
  <2>2. retry (+) EmptyBag = retry
    BY TypeOfHandlers, AddNone DEF Queue
  <2>3. QED
    BY <1>1, <1>3, <2>1, <2>2, NextAttempt DEF Retried
<1>4. QED
  BY <1>1, <1>2, <1>3

LEMMA ChanceMoves ==
  ASSUME TypeOK, HandlersHold, NEW h \in Handlers, NEW p \in {"free"} \cup Steps,
         Moves(h, p), NEW i, Accounted(i, Chance), primary' = primary,
         Retried(handler[h].msg)
  PROVE  /\ Accounted(i, Chance)'
         /\ Budget(i, Chance) \in Nat /\ Budget(i, Chance)' \in Nat
         /\ JobOf(h) # i => Budget(i, Chance)' = Budget(i, Chance)
         /\ JobOf(h) = i =>
              Budget(i, Chance)'
                + (IF handler[h].pc \in {"taken", "sending", "failed"} THEN 1 ELSE 0)
                <= Budget(i, Chance)
                     + (IF p \in {"taken", "sending", "failed"} THEN 1 ELSE 0)
                     + (IF retry' = retry THEN 0 ELSE 1)
<1> DEFINE before == IF handler[h].pc \in {"taken", "sending", "failed"} /\ JobOf(h) = i THEN 1 ELSE 0
           after == IF p \in {"taken", "sending", "failed"} /\ JobOf(h) = i THEN 1 ELSE 0
<1>1. Chance \in Weight /\ \A m \in Message : Chance.queued[m] = 1
  BY ChanceValues
<1>2. handler[h].pc \in {"free"} \cup Steps /\ handler[h].msg \in Message
  BY TypeOfHandlers DEF State, Moves
<1>3. Worth(handler[h], i, Chance) = before
  BY <1>2, ChanceValues DEF JobOf
<1>4. Worth(handler'[h], i, Chance) = after
  <2>1. /\ handler'[h].pc = p
        /\ p # "free" => handler'[h].msg = handler[h].msg
    BY DEF Moves
  <2>2. Worth(handler'[h], i, Chance)
          = IF p \in {"taken", "sending", "failed"} /\ handler'[h].msg.job = i THEN 1 ELSE 0
    BY <1>2, <2>1, ChanceValues
  <2>3. p \in {"taken", "sending", "failed"} => handler'[h].msg = handler[h].msg
    BY <2>1
  <2>4. QED
    BY <2>2, <2>3 DEF JobOf
<1>5. /\ \A g \in Handlers \ {h} : handler'[g] = handler[g]
      /\ Worth(handler'[h], i, Chance) \in Nat
  BY <1>4 DEF Moves
<1>6. CASE retry' = retry
  <2>1. /\ Accounted(i, Chance)'
        /\ Budget(i, Chance) \in Nat /\ Budget(i, Chance)' \in Nat
        /\ Budget(i, Chance)' + Worth(handler[h], i, Chance)
             = Budget(i, Chance) + Worth(handler'[h], i, Chance)
    BY <1>1, <1>5, <1>6, HandleBudget
  <2>2. QED
    BY <1>3, <1>4, <1>6, <2>1
<1>7. CASE retry' # retry
  <2>1. PICK x \in Message : x.job = handler[h].msg.job /\ retry' = retry (+) One(x)
    BY <1>7 DEF Retried
  <2>2. /\ Accounted(i, Chance)'
        /\ Budget(i, Chance) \in Nat /\ Budget(i, Chance)' \in Nat
        /\ Budget(i, Chance)' + Worth(handler[h], i, Chance)
             = Budget(i, Chance) + Worth(handler'[h], i, Chance)
                 + (IF x.job = i THEN Chance.queued[x] ELSE 0)
    BY <1>1, <1>5, <2>1, RetryBudget
  <2>3. /\ Budget(i, Chance)' + before
             = Budget(i, Chance) + after + (IF JobOf(h) = i THEN 1 ELSE 0)
    BY <1>1, <1>3, <1>4, <2>1, <2>2 DEF JobOf
  <2>4. QED
    BY <1>7, <2>2, <2>3
<1>8. QED
  BY <1>6, <1>7

LEMMA LeftMoves ==
  ASSUME DeliveryAssumption, TypeOK, HandlersHold, NEW h \in Handlers,
         NEW p \in {"free"} \cup Steps,
         Moves(h, p), NEW i, Accounted(i, Left), primary' = primary,
         Retried(handler[h].msg),
         retry' # retry => handler[h].pc = "failed" /\ p \in {"free", "settle"},
         p \in {"free", "settle"} \/ (p = "sending" /\ handler[h].pc = "taken")
            \/ (p = "failed" /\ handler[h].pc = "sending")
  PROVE  /\ Accounted(i, Left)'
         /\ Budget(i, Left) \in Nat /\ Budget(i, Left)' \in Nat
         /\ Budget(i, Left)' <= Budget(i, Left)
         /\ JobOf(h) = i /\ p = "sending" => Budget(i, Left)' + 1 = Budget(i, Left)
<1> DEFINE m == handler[h].msg
           Value(s) == IF s \in {"free", "settle"} \/ m.job # i THEN 0
                       ELSE IF s = "taken" THEN Retries + 1 - m.attempts
                       ELSE Retries - m.attempts
<1>1. Left \in Weight /\ \A x \in Message : Left.queued[x] = Retries + 1 - x.attempts
  BY LeftValues
<1>2. handler[h].pc \in {"free"} \cup Steps /\ m \in Message
  BY TypeOfHandlers DEF State, Moves
<1>3. m.attempts \in Nat /\ m.attempts <= Retries /\ Retries \in Nat
  BY <1>2, NextAttempt DEF DeliveryAssumption
<1>4. Worth(handler[h], i, Left) = Value(handler[h].pc)
  BY <1>2, LeftValues
<1>5. Worth(handler'[h], i, Left) = Value(p)
  <2>1. /\ handler'[h].pc = p
        /\ p # "free" => handler'[h].msg = m
    BY DEF Moves
  <2>2. Worth(handler'[h], i, Left)
          = IF p \in {"free", "settle"} \/ handler'[h].msg.job # i THEN 0
            ELSE IF p = "taken" THEN Retries + 1 - handler'[h].msg.attempts
            ELSE Retries - handler'[h].msg.attempts
    BY <1>2, <2>1, LeftValues
  <2>3. QED
    BY <2>1, <2>2
<1> HIDE DEF m
<1>6. \A s : Value(s) \in Nat
  BY <1>3
<1>7. /\ \A g \in Handlers \ {h} : handler'[g] = handler[g]
      /\ Worth(handler'[h], i, Left) \in Nat
  BY <1>5, <1>6 DEF Moves
<1>8. CASE retry' = retry
  <2>1. /\ Accounted(i, Left)'
        /\ Budget(i, Left) \in Nat /\ Budget(i, Left)' \in Nat
        /\ Budget(i, Left)' + Worth(handler[h], i, Left)
             = Budget(i, Left) + Worth(handler'[h], i, Left)
    BY <1>1, <1>7, <1>8, HandleBudget
  <2>2. Budget(i, Left)' + Value(handler[h].pc) = Budget(i, Left) + Value(p)
    BY <1>4, <1>5, <2>1
  <2>3. /\ Value(p) <= Value(handler[h].pc)
        /\ m.job = i /\ p = "sending" => Value(p) + 1 = Value(handler[h].pc)
    BY <1>3, <1>6
  <2>4. Value(p) \in Nat /\ Value(handler[h].pc) \in Nat
    BY <1>6
  <2>5. JobOf(h) = m.job
    BY DEF JobOf, m
  <2> HIDE DEF Value
  <2>6. QED
    BY <2>1, <2>2, <2>3, <2>4, <2>5
<1>9. CASE retry' # retry
  <2>1. PICK x \in Message : /\ x.job = m.job /\ x.attempts = m.attempts + 1
                             /\ m.attempts < Retries
                             /\ retry' = retry (+) One(x)
    BY <1>9 DEF Retried, m
  <2>2. /\ Accounted(i, Left)'
        /\ Budget(i, Left) \in Nat /\ Budget(i, Left)' \in Nat
        /\ Budget(i, Left)' + Worth(handler[h], i, Left)
             = Budget(i, Left) + Worth(handler'[h], i, Left)
                 + (IF x.job = i THEN Left.queued[x] ELSE 0)
    BY <1>1, <1>7, <2>1, RetryBudget
  <2>3. (IF x.job = i THEN Left.queued[x] ELSE 0) = Value(handler[h].pc)
    BY <1>1, <1>3, <1>9, <2>1
  <2>4. Value(p) = 0 /\ p # "sending"
    BY <1>9
  <2>5. QED
    BY <1>4, <1>5, <1>6, <2>2, <2>3, <2>4
<1>10. QED
  BY <1>8, <1>9

-----------------------------------------------------------------------------
(* Every step keeps the invariant.                                         *)

LEMMA EntriesStep ==
  ASSUME TypeOK, HandlersHold, NEW i \in Jobs
  PROVE  /\ Entries(i) \in Nat
         /\ \A j \in Jobs : Publish(j) \/ PublishFails(j)
               => Entries(i)' = Entries(i) + (IF i = j THEN 1 ELSE 0)
         /\ Crash \/ DropConnection
               => Entries(i)' = Entries(i) + Cardinality(Held(i)) /\ Cardinality(Held(i)) \in Nat
         /\ asked' = asked /\ again' = again => Entries(i)' = Entries(i)
<1>1. again[i] \in Nat
  BY DEF TypeOK
<1>2. ASSUME NEW j \in Jobs, Publish(j) \/ PublishFails(j)
      PROVE  Entries(i)' = Entries(i) + (IF i = j THEN 1 ELSE 0)
  <2>1. /\ again' = again /\ asked[j] = "new"
        /\ asked' = [asked EXCEPT ![j] = "confirmed"] \/ asked' = [asked EXCEPT ![j] = "failed"]
    BY <1>2 DEF Publish, PublishFails, history
  <2>2. asked \in [Jobs -> {"new", "confirmed", "failed"}]
    BY DEF TypeOK
  <2>3. /\ i # j => asked'[i] = asked[i]
        /\ asked'[j] # "new"
    BY <2>1, <2>2
  <2>4. QED
    BY <1>1, <2>1, <2>3 DEF Entries
<1>3. ASSUME Crash \/ DropConnection
      PROVE  Entries(i)' = Entries(i) + Cardinality(Held(i)) /\ Cardinality(Held(i)) \in Nat
  <2>1. /\ asked' = asked
        /\ again'[i] = again[i] + Cardinality({h \in Leased : handler[h].msg.job = i})
    BY <1>3 DEF Crash, DropConnection, Redeliver
  <2>2. {h \in Leased : handler[h].msg.job = i} = Held(i)
    BY DEF Held, JobOf
  <2>3. Cardinality(Held(i)) \in Nat
    BY LeasedHold
  <2> DEFINE n == Cardinality(Held(i))
  <2>4. again'[i] = again[i] + n /\ n \in Nat /\ asked' = asked
    BY <2>1, <2>2, <2>3
  <2> HIDE DEF n
  <2>5. Entries(i)' = Entries(i) + n
    BY <1>1, <2>4 DEF Entries
  <2>6. QED
    BY <2>4, <2>5 DEF n
<1>4. QED
  BY <1>1, <1>2, <1>3 DEF Entries

LEMMA ChancesStep ==
  ASSUME DeliveryAssumption, IInv, [Next]_vars
  PROVE  ChancesAreCounted'
<1>0. TypeOK /\ HandlersHold /\ ChancesAreCounted
  BY DEF IInv
<1> SUFFICES ASSUME NEW i \in Jobs
             PROVE  /\ Accounted(i, Chance)'
                    /\ Budget(i, Chance)' + mails'[i] + (IF i \in refused' THEN 1 ELSE 0)
                         <= Entries(i)'
  BY DEF ChancesAreCounted
<1> DEFINE Goal == /\ Accounted(i, Chance)'
                   /\ Budget(i, Chance)' + mails'[i] + (IF i \in refused' THEN 1 ELSE 0)
                        <= Entries(i)'
           was == IF i \in refused THEN 1 ELSE 0
<1>a. /\ Accounted(i, Chance)
      /\ Budget(i, Chance) + mails[i] + was <= Entries(i)
  BY <1>0 DEF ChancesAreCounted
<1>b. /\ Budget(i, Chance) \in Nat /\ mails[i] \in Nat /\ Entries(i) \in Nat
      /\ mails \in [Jobs -> Nat] /\ again \in [Jobs -> Nat]
  BY <1>0, <1>a, BudgetIsNat, EntriesStep DEF TypeOK
<1>c. Chance \in Even /\ Chance \in Weight /\ \A m \in Message : Chance.queued[m] = 1
  BY ChanceValues
<1>d. ASSUME NEW h \in Handlers, NEW p \in {"free"} \cup Steps, Moves(h, p), Handle(h)
      PROVE  /\ Accounted(i, Chance)'
             /\ Budget(i, Chance)' \in Nat
             /\ JobOf(h) # i => Budget(i, Chance)' = Budget(i, Chance)
             /\ JobOf(h) = i =>
                  Budget(i, Chance)'
                    + (IF handler[h].pc \in {"taken", "sending", "failed"} THEN 1 ELSE 0)
                    <= Budget(i, Chance)
                         + (IF p \in {"taken", "sending", "failed"} THEN 1 ELSE 0)
                         + (IF retry' = retry THEN 0 ELSE 1)
             /\ JobOf(h) \in Jobs
             /\ Republish(h) \/ RepublishFails(h) \/ retry' = retry
             /\ again' = again => Entries(i)' = Entries(i)
  <2>1. /\ primary' = primary /\ asked' = asked /\ Retried(handler[h].msg)
        /\ Republish(h) \/ RepublishFails(h) \/ retry' = retry
    BY <1>0, <1>d, HandleRetries
  <2>2. JobOf(h) \in Jobs
    BY <1>d DEF Moves
  <2>3. again' = again => Entries(i)' = Entries(i)
    BY <1>0, <2>1, EntriesStep
  <2>4. QED
    BY <1>0, <1>a, <1>d, <2>1, <2>2, <2>3, ChanceMoves
<1>1. ASSUME NEW j \in Jobs, Publish(j) \/ PublishFails(j) PROVE Goal
  <2>1. mails' = mails /\ refused' = refused
    BY <1>1 DEF Publish, PublishFails, history
  <2>2. [job |-> j, attempts |-> 0] \in Message
    BY DEF Message, DeliveryAssumption
  <2>3. /\ Accounted(i, Chance)'
        /\ Budget(i, Chance)' <= Budget(i, Chance) + (IF i = j THEN 1 ELSE 0)
    BY <1>0, <1>1, <1>a, <1>c, <2>2, PublishBudget
  <2>4. Entries(i)' = Entries(i) + (IF i = j THEN 1 ELSE 0)
    BY <1>0, <1>1, EntriesStep
  <2>5. Budget(i, Chance)' \in Nat
    <3>1. InQueue(primary, i, Chance)' \in Nat /\ InQueue(retry, i, Chance)' \in Nat
          /\ InHandlers(handler, i, Chance)' \in Nat
      BY <2>3, FS_CardinalityType DEF Accounted, Counted, InQueue, InHandlers
    <3>2. QED
      BY <3>1 DEF Budget
  <2>6. QED
    BY <1>a, <1>b, <2>1, <2>3, <2>4, <2>5
<1>2. ASSUME NEW j \in Jobs, ExpireJob(j) PROVE Goal
  <2>1. /\ mails' = mails /\ refused' = refused /\ asked' = asked /\ again' = again
        /\ primary' = primary /\ retry' = retry /\ handler' = handler
    BY <1>2 DEF ExpireJob, history, queues
  <2>2. QED
    BY <1>0, <1>a, <2>1, SameBudget, EntriesStep
<1>3. CASE RetryDue
  <2>1. mails' = mails /\ refused' = refused /\ asked' = asked /\ again' = again
    BY <1>3 DEF RetryDue, history
  <2>2. Accounted(i, Chance)' /\ Budget(i, Chance)' = Budget(i, Chance)
    BY <1>0, <1>3, <1>a, <1>c, RetryDueBudget
  <2>3. QED
    BY <1>0, <1>a, <2>1, <2>2, EntriesStep
<1>4. CASE Crash \/ DropConnection
  <2>1. mails' = mails /\ refused' = refused
    BY <1>4 DEF Crash, DropConnection, Redeliver
  <2>2. \A m \in Message : Chance.queued[m] <= 1
    BY <1>c
  <2>3. /\ Accounted(i, Chance)'
        /\ Budget(i, Chance)' <= Budget(i, Chance) + 1 * Cardinality(Held(i))
    BY <1>0, <1>4, <1>a, <1>c, <2>2, RedeliverBudget
  <2>4. Entries(i)' = Entries(i) + Cardinality(Held(i)) /\ Cardinality(Held(i)) \in Nat
    BY <1>0, <1>4, EntriesStep
  <2>5. Budget(i, Chance)' \in Nat
    <3>1. InQueue(primary, i, Chance)' \in Nat /\ InQueue(retry, i, Chance)' \in Nat
          /\ InHandlers(handler, i, Chance)' \in Nat
      BY <2>3, FS_CardinalityType DEF Accounted, Counted, InQueue, InHandlers
    <3>2. QED
      BY <3>1 DEF Budget
  <2>6. QED
    BY <1>a, <1>b, <2>1, <2>3, <2>4, <2>5
<1>5. ASSUME NEW h \in Handlers, Deliver(h) PROVE Goal
  <2>1. mails' = mails /\ refused' = refused /\ asked' = asked /\ again' = again
    BY <1>5 DEF Deliver, history
  <2>2. Accounted(i, Chance)' /\ Budget(i, Chance)' = Budget(i, Chance)
    BY <1>0, <1>5, <1>a, <1>c, DeliverBudget
  <2>3. QED
    BY <1>0, <1>a, <2>1, <2>2, EntriesStep
<1>6. ASSUME NEW h \in Handlers, Handle(h) PROVE Goal
  <2>1. CASE RejectMalformed(h) \/ AckExpired(h) \/ Ack(h)
    <3>1. Moves(h, "free") /\ mails' = mails /\ refused' = refused /\ again' = again
      BY <1>0, <2>1, HandleMoves DEF RejectMalformed, AckExpired, Ack, history
    <3>2. retry' = retry
      BY <2>1 DEF RejectMalformed, AckExpired, Ack, queues
    <3>3. QED
      BY <1>6, <1>a, <1>b, <1>d, <3>1, <3>2
  <2>2. CASE Send(h)
    <3>1. /\ Moves(h, "sending") /\ handler[h].pc = "taken" /\ retry' = retry
          /\ mails' = mails /\ refused' = refused /\ again' = again
      BY <1>0, <2>2, HandleMoves DEF Send, queues
    <3>2. QED
      BY <1>6, <1>a, <1>b, <1>d, <3>1 DEF Steps
  <2>3. CASE Accepted(h)
    <3>1. /\ Moves(h, "settle") /\ handler[h].pc = "sending" /\ retry' = retry
          /\ mails' = Bump(mails, JobOf(h)) /\ refused' = refused /\ again' = again
      BY <1>0, <2>3, HandleMoves DEF Accepted, queues
    <3>2. mails'[i] = mails[i] + (IF JobOf(h) = i THEN 1 ELSE 0)
      BY <1>b, <3>1 DEF Bump
    <3>3. QED
      BY <1>6, <1>a, <1>b, <1>d, <3>1, <3>2 DEF Steps
  <2>4. CASE Refused(h)
    <3>1. /\ Moves(h, "free") /\ handler[h].pc = "sending" /\ retry' = retry
          /\ mails' = mails /\ refused' = refused \cup {JobOf(h)} /\ again' = again
      BY <1>0, <2>4, HandleMoves DEF Refused
    <3>2. QED
      BY <1>6, <1>a, <1>b, <1>d, <3>1
  <2>5. CASE SendFails(h)
    <3>1. /\ Moves(h, "failed") /\ handler[h].pc = "sending" /\ retry' = retry
          /\ refused' = refused /\ asked' = asked
          /\ \/ mails' = mails /\ again' = again
             \/ mails' = Bump(mails, JobOf(h)) /\ again' = Bump(again, JobOf(h))
      BY <1>0, <2>5, HandleMoves DEF SendFails, queues
    <3>2. /\ mails'[i] \in Nat /\ again'[i] \in Nat
          /\ mails'[i] - mails[i] = again'[i] - again[i]
      BY <1>b, <3>1 DEF Bump
    <3>3. Entries(i)' - Entries(i) = again'[i] - again[i]
      BY <1>b, <3>1, <3>2 DEF Entries
    <3>4. Budget(i, Chance)' <= Budget(i, Chance) /\ Budget(i, Chance)' \in Nat
          /\ Accounted(i, Chance)'
      BY <1>6, <1>b, <1>d, <3>1 DEF Steps
    <3>5. again[i] \in Nat /\ Entries(i)' = Entries(i) + (again'[i] - again[i])
          /\ mails'[i] = mails[i] + (again'[i] - again[i])
      BY <1>b, <3>2, <3>3 DEF Entries
    <3>6. Budget(i, Chance)' + mails'[i] + was <= Entries(i)'
      <4> DEFINE d == again'[i] - again[i]
      <4>1. d \in Int /\ Entries(i)' = Entries(i) + d /\ mails'[i] = mails[i] + d
        BY <3>2, <3>5
      <4> HIDE DEF d
      <4>2. was \in Nat
        OBVIOUS
      <4> HIDE DEF was
      <4>3. QED
        BY <1>a, <1>b, <3>4, <4>1, <4>2
    <3>7. QED
      BY <3>1, <3>4, <3>6
  <2>6. CASE Republish(h)
    <3>1. /\ Moves(h, "settle") /\ handler[h].pc = "failed"
          /\ mails' = mails /\ refused' = refused /\ again' = again
      BY <1>0, <2>6, HandleMoves DEF Republish, history
    <3>2. Budget(i, Chance)' <= Budget(i, Chance) /\ Budget(i, Chance)' \in Nat
          /\ Accounted(i, Chance)' /\ Entries(i)' = Entries(i)
      BY <1>6, <1>b, <1>d, <3>1 DEF Steps
    <3>3. QED
      BY <1>a, <1>b, <3>1, <3>2
  <2>7. CASE RepublishFails(h)
    <3>1. /\ Moves(h, "free") /\ handler[h].pc = "failed"
          /\ mails' = mails /\ refused' = refused /\ again' = again
      BY <1>0, <2>7, HandleMoves DEF RepublishFails
    <3>2. Budget(i, Chance)' <= Budget(i, Chance) /\ Budget(i, Chance)' \in Nat
          /\ Accounted(i, Chance)' /\ Entries(i)' = Entries(i)
      BY <1>6, <1>b, <1>d, <3>1
    <3>3. QED
      BY <1>a, <1>b, <3>1, <3>2
  <2>8. QED
    BY <1>6, <2>1, <2>2, <2>3, <2>4, <2>5, <2>6, <2>7 DEF Handle
<1>7. CASE UNCHANGED vars
  <2>1. /\ mails' = mails /\ refused' = refused /\ asked' = asked /\ again' = again
        /\ primary' = primary /\ retry' = retry /\ handler' = handler
    BY <1>7 DEF vars, history, queues
  <2>2. QED
    BY <1>0, <1>a, <2>1, SameBudget, EntriesStep
<1>8. CASE \E j \in Jobs : Publish(j) \/ PublishFails(j) \/ ExpireJob(j)
  BY <1>1, <1>2, <1>8
<1>9. CASE \E h \in Handlers : Deliver(h) \/ Handle(h)
  BY <1>5, <1>6, <1>9
<1>10. QED
  BY <1>3, <1>4, <1>7, <1>8, <1>9 DEF Next

LEMMA TriesStep ==
  ASSUME DeliveryAssumption, IInv, [Next]_vars
  PROVE  TriesAreCounted'
<1>0. TypeOK /\ HandlersHold /\ TriesAreCounted
  BY DEF IInv
<1> SUFFICES ASSUME NEW i \in Jobs
             PROVE  /\ Accounted(i, Left)'
                    /\ Budget(i, Left)' + tries'[i] <= (Retries + 1) * Entries(i)'
  BY DEF TriesAreCounted
<1> DEFINE e == Entries(i)
           Goal == /\ Accounted(i, Left)'
                   /\ Budget(i, Left)' + tries'[i] <= (Retries + 1) * e'
<1>a. /\ Accounted(i, Left)
      /\ Budget(i, Left) + tries[i] <= (Retries + 1) * e
  BY <1>0 DEF TriesAreCounted
<1>b. /\ Budget(i, Left) \in Nat /\ tries[i] \in Nat /\ e \in Nat /\ Retries \in Nat
      /\ tries \in [Jobs -> Nat] /\ again \in [Jobs -> Nat]
  BY <1>0, <1>a, BudgetIsNat, EntriesStep DEF TypeOK, DeliveryAssumption
<1>c. /\ Left \in Even /\ Left \in Weight
      /\ \A m \in Message : Left.queued[m] = Retries + 1 - m.attempts
      /\ \A m \in Message : Left.queued[m] <= Retries + 1
  <2>1. /\ Left \in Even /\ Left \in Weight
        /\ \A m \in Message : Left.queued[m] = Retries + 1 - m.attempts
    BY LeftValues
  <2>2. \A m \in Message : m.attempts \in Nat
    BY NextAttempt
  <2>3. QED
    BY <1>b, <2>1, <2>2
<1> HIDE DEF e
(* A job entered n times more may be tried Retries + 1 times more for each. *)
<1>d. ASSUME NEW n \in Nat, e' = e + n, tries' = tries, Accounted(i, Left)',
             Budget(i, Left)' <= Budget(i, Left) + (Retries + 1) * n
      PROVE  Goal
  <2>1. \A r, x, y \in Nat : r * (x + y) = r * x + r * y
    OBVIOUS
  <2>2. (Retries + 1) * e' = (Retries + 1) * e + (Retries + 1) * n
    BY <1>b, <1>d, <2>1
  <2> DEFINE re == (Retries + 1) * e
             rn == (Retries + 1) * n
             re1 == (Retries + 1) * e'
  <2>3. re \in Nat /\ rn \in Nat
    BY <1>b
  <2>4. /\ re1 = re + rn
        /\ Budget(i, Left) + tries[i] <= re
        /\ Budget(i, Left)' <= Budget(i, Left) + rn
    BY <1>a, <1>d, <2>2
  <2>5. Budget(i, Left)' \in Nat
    <3>1. InQueue(primary, i, Left)' \in Nat /\ InQueue(retry, i, Left)' \in Nat
          /\ InHandlers(handler, i, Left)' \in Nat
      BY <1>d, FS_CardinalityType DEF Accounted, Counted, InQueue, InHandlers
    <3>2. QED
      BY <3>1 DEF Budget
  <2> HIDE DEF re, rn, re1
  <2>6. Budget(i, Left)' + tries'[i] <= re1
    BY <1>b, <1>d, <2>3, <2>4, <2>5
  <2>7. QED
    BY <1>d, <2>6 DEF re1
<1>e. ASSUME e' = e, Accounted(i, Left)', Budget(i, Left)' \in Nat,
             \/ tries'[i] = tries[i] /\ Budget(i, Left)' <= Budget(i, Left)
             \/ tries'[i] = tries[i] + 1 /\ Budget(i, Left)' + 1 = Budget(i, Left)
      PROVE  Goal
  <2> DEFINE re == (Retries + 1) * e
  <2>1. Budget(i, Left) + tries[i] <= re /\ re \in Nat /\ (Retries + 1) * e' = re
    BY <1>a, <1>b, <1>e
  <2> HIDE DEF re
  <2>2. Budget(i, Left)' + tries'[i] <= re
    BY <1>b, <1>e, <2>1
  <2>3. QED
    BY <1>e, <2>1, <2>2
<1> HIDE DEF Goal
<1>1. ASSUME NEW j \in Jobs, Publish(j) \/ PublishFails(j) PROVE Goal
  <2>1. tries' = tries
    BY <1>1 DEF Publish, PublishFails, history
  <2>2. [job |-> j, attempts |-> 0] \in Message
    BY <1>b DEF Message
  <2>3. Left.queued[[job |-> j, attempts |-> 0]] = Retries + 1
    BY <1>b, <1>c, <2>2
  <2>4. /\ Accounted(i, Left)'
        /\ Budget(i, Left)' <= Budget(i, Left) + (IF i = j THEN Retries + 1 ELSE 0)
    BY <1>0, <1>1, <1>a, <1>c, <2>3, PublishBudget
  <2>5. e' = e + (IF i = j THEN 1 ELSE 0)
    BY <1>0, <1>1, EntriesStep DEF e
  <2>6. (IF i = j THEN Retries + 1 ELSE 0) = (Retries + 1) * (IF i = j THEN 1 ELSE 0)
    BY <1>b
  <2>7. QED
    BY <1>d, <2>1, <2>4, <2>5, <2>6
<1>2. ASSUME NEW j \in Jobs, ExpireJob(j) PROVE Goal
  <2>1. /\ tries' = tries /\ asked' = asked /\ again' = again
        /\ primary' = primary /\ retry' = retry /\ handler' = handler
    BY <1>2 DEF ExpireJob, history, queues
  <2>2. /\ Accounted(i, Left)' /\ Budget(i, Left)' = Budget(i, Left) /\ e' = e
    BY <1>0, <1>a, <2>1, SameBudget, EntriesStep DEF e
  <2>3. QED
    BY <1>b, <1>e, <2>1, <2>2
<1>3. ASSUME RetryDue PROVE Goal
  <2>1. tries' = tries /\ asked' = asked /\ again' = again
    BY <1>3 DEF RetryDue, history
  <2>2. Accounted(i, Left)' /\ Budget(i, Left)' = Budget(i, Left) /\ e' = e
    BY <1>0, <1>3, <1>a, <1>c, <2>1, RetryDueBudget, EntriesStep DEF e
  <2>3. QED
    BY <1>b, <1>e, <2>1, <2>2
<1>4. ASSUME Crash \/ DropConnection PROVE Goal
  <2>1. tries' = tries
    BY <1>4 DEF Crash, DropConnection, Redeliver
  <2>2. Retries + 1 \in Nat
    BY <1>b
  <2>3. /\ Accounted(i, Left)'
        /\ Budget(i, Left)' <= Budget(i, Left) + (Retries + 1) * Cardinality(Held(i))
    BY <1>0, <1>4, <1>a, <1>c, <2>2, RedeliverBudget
  <2>4. e' = e + Cardinality(Held(i)) /\ Cardinality(Held(i)) \in Nat
    BY <1>0, <1>4, EntriesStep DEF e
  <2>5. QED
    BY <1>d, <2>1, <2>3, <2>4
<1>5. ASSUME NEW h \in Handlers, Deliver(h) PROVE Goal
  <2>1. tries' = tries /\ asked' = asked /\ again' = again
    BY <1>5 DEF Deliver, history
  <2>2. Accounted(i, Left)' /\ Budget(i, Left)' = Budget(i, Left) /\ e' = e
    BY <1>0, <1>5, <1>a, <1>c, <2>1, DeliverBudget, EntriesStep DEF e
  <2>3. QED
    BY <1>b, <1>e, <2>1, <2>2
<1>6. ASSUME NEW h \in Handlers, Handle(h) PROVE Goal
  <2>1. CASE RejectMalformed(h) \/ AckExpired(h) \/ Ack(h) \/ Refused(h)
    <3>1. /\ Moves(h, "free") /\ tries' = tries /\ again' = again
          /\ handler[h].pc \in {"taken", "settle", "sending"}
          /\ retry' = retry
      BY <1>0, <2>1, HandleMoves DEF RejectMalformed, AckExpired, Ack, Refused, history, queues
    <3>2. /\ primary' = primary /\ asked' = asked /\ Retried(handler[h].msg)
      BY <1>0, <1>6, HandleRetries
    <3>3. /\ Accounted(i, Left)' /\ Budget(i, Left)' \in Nat
          /\ Budget(i, Left)' <= Budget(i, Left)
      BY <1>0, <1>a, <3>1, <3>2, LeftMoves
    <3>4. e' = e
      BY <1>0, <3>1, <3>2, EntriesStep DEF e
    <3>5. QED
      BY <1>e, <3>1, <3>3, <3>4
  <2>2. CASE Send(h)
    <3>1. /\ Moves(h, "sending") /\ handler[h].pc = "taken" /\ retry' = retry
          /\ tries' = Bump(tries, JobOf(h)) /\ again' = again
      BY <1>0, <2>2, HandleMoves DEF Send, queues
    <3>2. /\ primary' = primary /\ asked' = asked /\ Retried(handler[h].msg)
      BY <1>0, <1>6, HandleRetries
    <3>3. /\ Accounted(i, Left)' /\ Budget(i, Left)' \in Nat
          /\ Budget(i, Left)' <= Budget(i, Left)
          /\ JobOf(h) = i => Budget(i, Left)' + 1 = Budget(i, Left)
      BY <1>0, <1>a, <3>1, <3>2, LeftMoves DEF Steps
    <3>4. tries'[i] = IF JobOf(h) = i THEN tries[i] + 1 ELSE tries[i]
      BY <1>b, <3>1 DEF Bump
    <3>5. e' = e
      BY <1>0, <3>1, <3>2, EntriesStep DEF e
    <3>6. QED
      BY <1>e, <3>3, <3>4, <3>5
  <2>3. CASE Accepted(h)
    <3>1. /\ Moves(h, "settle") /\ retry' = retry
          /\ tries' = tries /\ again' = again
      BY <1>0, <2>3, HandleMoves DEF Accepted, queues
    <3>2. /\ primary' = primary /\ asked' = asked /\ Retried(handler[h].msg)
      BY <1>0, <1>6, HandleRetries
    <3>3. /\ Accounted(i, Left)' /\ Budget(i, Left)' \in Nat
          /\ Budget(i, Left)' <= Budget(i, Left)
      BY <1>0, <1>a, <3>1, <3>2, LeftMoves DEF Steps
    <3>4. e' = e
      BY <1>0, <3>1, <3>2, EntriesStep DEF e
    <3>5. QED
      BY <1>e, <3>1, <3>3, <3>4
  <2>4. CASE SendFails(h)
    <3>1. /\ Moves(h, "failed") /\ handler[h].pc = "sending" /\ retry' = retry
          /\ tries' = tries
          /\ again' = again \/ again' = Bump(again, JobOf(h))
      BY <1>0, <2>4, HandleMoves DEF SendFails, queues
    <3>2. /\ primary' = primary /\ asked' = asked /\ Retried(handler[h].msg)
      BY <1>0, <1>6, HandleRetries
    <3>3. /\ Accounted(i, Left)' /\ Budget(i, Left)' \in Nat
          /\ Budget(i, Left)' <= Budget(i, Left)
      BY <1>0, <1>a, <3>1, <3>2, LeftMoves DEF Steps
    <3>4. again'[i] = again[i] \/ again'[i] = again[i] + 1
      BY <1>b, <3>1 DEF Bump
    <3>5. e' = e \/ e' = e + 1
      BY <1>b, <3>2, <3>4 DEF e, Entries
    <3>6. CASE e' = e
      BY <1>e, <3>1, <3>3, <3>6
    <3>7. CASE e' = e + 1
      <4>1. Budget(i, Left)' <= Budget(i, Left) + (Retries + 1) * 1
        BY <1>b, <3>3
      <4>2. QED
        BY <1>d, <3>1, <3>3, <3>7, <4>1
    <3>8. QED
      BY <3>5, <3>6, <3>7
  <2>5. CASE Republish(h) \/ RepublishFails(h)
    <3>1. /\ Moves(h, "settle") \/ Moves(h, "free")
          /\ handler[h].pc = "failed" /\ tries' = tries /\ again' = again
      BY <1>0, <2>5, HandleMoves DEF Republish, RepublishFails, history
    <3>2. /\ primary' = primary /\ asked' = asked /\ Retried(handler[h].msg)
      BY <1>0, <1>6, HandleRetries
    <3>3. /\ Accounted(i, Left)' /\ Budget(i, Left)' \in Nat
          /\ Budget(i, Left)' <= Budget(i, Left)
      BY <1>0, <1>a, <3>1, <3>2, LeftMoves DEF Steps
    <3>4. e' = e
      BY <1>0, <3>1, <3>2, EntriesStep DEF e
    <3>5. QED
      BY <1>e, <3>1, <3>3, <3>4
  <2>6. QED
    BY <1>6, <2>1, <2>2, <2>3, <2>4, <2>5 DEF Handle
<1>7. ASSUME UNCHANGED vars PROVE Goal
  <2>1. /\ tries' = tries /\ asked' = asked /\ again' = again
        /\ primary' = primary /\ retry' = retry /\ handler' = handler
    BY <1>7 DEF vars, history, queues
  <2>2. /\ Accounted(i, Left)' /\ Budget(i, Left)' = Budget(i, Left) /\ e' = e
    BY <1>0, <1>a, <2>1, SameBudget, EntriesStep DEF e
  <2>3. QED
    BY <1>b, <1>e, <2>1, <2>2
<1>8. ASSUME \E j \in Jobs : Publish(j) \/ PublishFails(j) \/ ExpireJob(j) PROVE Goal
  BY <1>1, <1>2, <1>8
<1>9. ASSUME \E h \in Handlers : Deliver(h) \/ Handle(h) PROVE Goal
  BY <1>5, <1>6, <1>9
<1>10. Goal
  BY <1>3, <1>4, <1>7, <1>8, <1>9 DEF Next
<1>11. QED
  BY <1>10 DEF Goal, e

LEMMA UnreadableStep ==
  ASSUME DeliveryAssumption, IInv, [Next]_vars
  PROVE  UnreadableIsUntried'
<1>1. /\ \A j \in Malformed : tries[j] = 0
      /\ tries \in [Jobs -> Nat] /\ Malformed \subseteq Jobs
      /\ TypeOK /\ HandlersHold
  BY DEF IInv, UnreadableIsUntried, TypeOK, DeliveryAssumption
<1>2. \/ tries' = tries
      \/ \E h \in Handlers : /\ JobOf(h) \notin Malformed
                             /\ tries' = Bump(tries, JobOf(h))
  <2>1. ASSUME NEW h \in Handlers, Handle(h)
        PROVE  \/ tries' = tries
               \/ JobOf(h) \notin Malformed /\ tries' = Bump(tries, JobOf(h))
    BY <2>1 DEF Handle, RejectMalformed, AckExpired, Send, Accepted, Refused, SendFails,
                Republish, RepublishFails, Ack, history
  <2>2. ASSUME NEW h \in Handlers, Deliver(h)
        PROVE  tries' = tries
    BY <2>2 DEF Deliver, history
  <2>3. ASSUME NEW j \in Jobs, Publish(j) \/ PublishFails(j) \/ ExpireJob(j)
        PROVE  tries' = tries
    BY <2>3 DEF Publish, PublishFails, ExpireJob, history
  <2>4. RetryDue \/ Crash \/ DropConnection \/ UNCHANGED vars => tries' = tries
    BY DEF RetryDue, Crash, DropConnection, Redeliver, vars, history
  <2>5. QED
    BY <2>1, <2>2, <2>3, <2>4 DEF Next
<1>3. QED
  BY <1>1, <1>2 DEF UnreadableIsUntried, Bump

(* What a step of handle_message puts into the dead queue.                 *)
LEMMA HandleDead ==
  ASSUME DeliveryAssumption, TypeOK, HandlersHold, NEW h \in Handlers, Handle(h)
  PROVE  /\ handler[h].msg \in Message
         /\ \/ BagToSet(dead') = BagToSet(dead)
            \/ BagToSet(dead') = BagToSet(dead) \cup {handler[h].msg}
         /\ RejectMalformed(h) \/ Refused(h) \/ RepublishFails(h)
              => (handler[h].leased => handler[h].msg \in BagToSet(dead'))
         /\ Republish(h) => BagToSet(dead') =
               IF handler[h].msg.attempts < Retries THEN BagToSet(dead)
               ELSE BagToSet(dead) \cup {handler[h].msg}
         /\ AckExpired(h) \/ Send(h) \/ Accepted(h) \/ SendFails(h) \/ Ack(h)
              => dead' = dead
<1> DEFINE m == handler[h].msg
<1>1. handler[h].pc # "free"
  BY DEF Handle, RejectMalformed, AckExpired, Refused, RepublishFails, Ack, Send,
         Accepted, Republish, SendFails
<1>2. m \in Message
  BY <1>1 DEF HandlersHold
<1>3. Queue(dead)
  BY TypeOfHandlers
<1>4. /\ BagToSet(Rejected(h)) = IF handler[h].leased THEN {m} ELSE {}
      /\ IsABag(Rejected(h))
  BY OneCopy, NoCopy DEF Rejected
<1>5. /\ BagToSet(ForDead(m)) = IF m.attempts < Retries THEN {} ELSE {m}
      /\ IsABag(ForDead(m))
  BY OneCopy, NoCopy DEF ForDead
<1>6. /\ BagToSet(dead (+) Rejected(h)) = BagToSet(dead) \cup BagToSet(Rejected(h))
      /\ BagToSet(dead (+) ForDead(m)) = BagToSet(dead) \cup BagToSet(ForDead(m))
      /\ IsABag(dead (+) ForDead(m))
  BY <1>3, <1>4, <1>5, PlusCopies DEF Queue
<1>7. BagToSet(dead (+) ForDead(m) (+) Rejected(h))
        = BagToSet(dead) \cup BagToSet(ForDead(m)) \cup BagToSet(Rejected(h))
  BY <1>4, <1>6, PlusCopies
<1>8. RejectMalformed(h) \/ Refused(h) => dead' = dead (+) Rejected(h)
  BY DEF RejectMalformed, Refused
<1>9. Republish(h) => dead' = dead (+) ForDead(m)
  BY DEF Republish
<1>10. RepublishFails(h) => \/ dead' = dead (+) Rejected(h)
                            \/ dead' = dead (+) ForDead(m) (+) Rejected(h)
  BY DEF RepublishFails
<1>11. AckExpired(h) \/ Send(h) \/ Accepted(h) \/ SendFails(h) \/ Ack(h) => dead' = dead
  BY DEF AckExpired, Send, Accepted, SendFails, Ack, queues
<1> HIDE DEF m
<1>12. RejectMalformed(h) \/ Refused(h)
         => BagToSet(dead') = BagToSet(dead) \cup (IF handler[h].leased THEN {m} ELSE {})
  BY <1>4, <1>6, <1>8
<1>13. Republish(h)
         => BagToSet(dead') = IF m.attempts < Retries THEN BagToSet(dead)
                              ELSE BagToSet(dead) \cup {m}
  BY <1>5, <1>6, <1>9
<1>14. RepublishFails(h)
         => /\ \/ BagToSet(dead') = BagToSet(dead)
               \/ BagToSet(dead') = BagToSet(dead) \cup {m}
            /\ handler[h].leased => m \in BagToSet(dead')
  BY <1>4, <1>5, <1>6, <1>7, <1>10
<1>15. QED
  BY <1>2, <1>11, <1>12, <1>13, <1>14 DEF Handle, m

LEMMA DeadStep ==
  ASSUME DeliveryAssumption, IInv, [Next]_vars
  PROVE  DeadAfterRetries'
<1>0. TypeOK /\ HandlersHold
      /\ \A m \in BagToSet(dead) :
            m.job \in Malformed \cup refused \cup unsent \/ m.attempts = Retries
  BY DEF IInv, DeadAfterRetries
<1>a. ASSUME BagToSet(dead') \subseteq BagToSet(dead),
             refused \subseteq refused', unsent \subseteq unsent'
      PROVE  DeadAfterRetries'
  BY <1>0, <1>a DEF DeadAfterRetries
<1>1. ASSUME NEW h \in Handlers, Handle(h) PROVE DeadAfterRetries'
  <2> DEFINE m == handler[h].msg
  <2>1. /\ m \in Message
        /\ \/ BagToSet(dead') = BagToSet(dead)
           \/ BagToSet(dead') = BagToSet(dead) \cup {m}
        /\ Republish(h) => BagToSet(dead') =
              IF m.attempts < Retries THEN BagToSet(dead) ELSE BagToSet(dead) \cup {m}
        /\ AckExpired(h) \/ Send(h) \/ Accepted(h) \/ SendFails(h) \/ Ack(h) => dead' = dead
    BY <1>0, <1>1, HandleDead
  <2>2. refused \subseteq refused' /\ unsent \subseteq unsent'
    BY <1>1 DEF Handle, RejectMalformed, AckExpired, Send, Accepted, Refused, SendFails,
                Republish, RepublishFails, Ack, history
  <2>3. ~ m.attempts < Retries => m.attempts = Retries
    BY <2>1, NextAttempt
  <2>4. /\ RejectMalformed(h) => m.job \in Malformed
        /\ Refused(h) => m.job \in refused'
        /\ RepublishFails(h) => m.job \in unsent'
    BY DEF RejectMalformed, Refused, RepublishFails, JobOf
  <2> HIDE DEF m
  <2>5. CASE BagToSet(dead') = BagToSet(dead)
    BY <1>a, <2>2, <2>5
  <2>6. CASE BagToSet(dead') = BagToSet(dead) \cup {m} /\ BagToSet(dead') # BagToSet(dead)
    <3>1. m.job \in Malformed \cup refused' \cup unsent' \/ m.attempts = Retries
      BY <1>1, <2>1, <2>3, <2>4, <2>6 DEF Handle
    <3>2. QED
      BY <1>0, <2>2, <2>6, <3>1 DEF DeadAfterRetries
  <2>7. QED
    BY <2>1, <2>5, <2>6
<1>2. ASSUME NEW h \in Handlers, Deliver(h) PROVE DeadAfterRetries'
  BY <1>2, <1>a DEF Deliver, history
<1>3. ASSUME NEW j \in Jobs, Publish(j) \/ PublishFails(j) \/ ExpireJob(j)
      PROVE  DeadAfterRetries'
  BY <1>3, <1>a DEF Publish, PublishFails, ExpireJob, history, queues
<1>4. CASE RetryDue \/ Crash \/ DropConnection \/ UNCHANGED vars
  BY <1>4, <1>a DEF RetryDue, Crash, DropConnection, Redeliver, vars, history, queues
<1>5. QED
  BY <1>1, <1>2, <1>3, <1>4 DEF Next

-----------------------------------------------------------------------------
(* No job is lost, and each step is a step of the promise.                 *)

Queued(i) == \E m \in BagToSet(primary) \cup BagToSet(retry) : m.job = i
HeldBy(h, i) == handler[h].pc # "free" /\ JobOf(h) = i

LEMMA WorkIs ==
  ASSUME TypeOK
  PROVE  /\ \A i : Waiting(i) <=> Queued(i)
         /\ \A i : i \in InWork <=> Queued(i) \/ \E h \in Handlers : HeldBy(h, i)
<1>1. BagToSet(primary (+) retry) = BagToSet(primary) \cup BagToSet(retry)
  BY TypeOfHandlers, PlusCopies DEF Queue
<1>2. QED
  BY <1>1 DEF Waiting, Queued, InWork, HeldBy

LEMMA PendingIs ==
  ASSUME TypeOK, HandlersHold
  PROVE  \A i : Pending(i) <=> \E h \in Handlers : /\ HeldBy(h, i) /\ handler[h].leased
                                                   /\ handler[h].pc # "settle"
BY LeasedHold DEF Pending, Held, Leased, HeldBy

(* The same of the state after a step.                                     *)
LEMMA WorkIsNext ==
  ASSUME TypeOK', HandlersHold'
  PROVE  /\ \A i : Waiting(i)' <=> Queued(i)'
         /\ \A i : (i \in InWork)' <=> Queued(i)' \/ \E h \in Handlers : HeldBy(h, i)'
         /\ \A i : Pending(i)' <=> \E h \in Handlers : /\ HeldBy(h, i)' /\ handler'[h].leased
                                                      /\ handler'[h].pc # "settle"
<1>1. IsABag(primary') /\ IsABag(retry')
  BY DEF TypeOK
<1>2. BagToSet(primary' (+) retry') = BagToSet(primary') \cup BagToSet(retry')
  BY <1>1, PlusCopies
<1>3. Free.leased = FALSE
  BY DEF Free
<1>4. \A h \in Handlers : handler'[h].leased => handler'[h].pc # "free"
  BY <1>3 DEF HandlersHold
<1>5. \A i : Pending(i)' <=> \E h \in Handlers : /\ HeldBy(h, i)' /\ handler'[h].leased
                                                 /\ handler'[h].pc # "settle"
  BY <1>4 DEF Pending, Held, Leased, HeldBy, JobOf
<1>6. /\ \A i : Waiting(i)' <=> Queued(i)'
      /\ \A i : (i \in InWork)' <=> Queued(i)' \/ \E h \in Handlers : HeldBy(h, i)'
  BY <1>2 DEF Waiting, Queued, InWork, HeldBy, JobOf
<1>7. QED
  BY <1>5, <1>6

LEMMA InWorkAreJobs ==
  ASSUME TypeOK, HandlersHold
  PROVE  InWork \subseteq Jobs
<1>1. \A i : Queued(i) => i \in Jobs
  BY TypeOfHandlers DEF Queued, Queue, Message
<1>2. \A i, h : h \in Handlers /\ HeldBy(h, i) => i \in Jobs
  BY DEF HeldBy, JobOf, HandlersHold, Message
<1>3. QED
  BY <1>1, <1>2, WorkIs

(* Which jobs wait in a queue after a step.                                *)
LEMMA QueuedStep ==
  ASSUME DeliveryAssumption, TypeOK, HandlersHold, NEW i
  PROVE  /\ \A j \in Jobs : Publish(j) => (Queued(i)' <=> Queued(i) \/ i = j)
         /\ \A j \in Jobs : PublishFails(j) =>
               \/ \A k : Queued(k)' <=> Queued(k)
               \/ \A k : Queued(k)' <=> Queued(k) \/ k = j
         /\ RetryDue => (Queued(i)' <=> Queued(i))
         /\ Crash \/ DropConnection => (Queued(i)' <=> Queued(i) \/ Held(i) # {})
         /\ \A h \in Handlers : Deliver(h) =>
               /\ Queued(i)' => Queued(i)
               /\ Queued(i) => Queued(i)' \/ handler'[h].msg.job = i
         /\ \A h \in Handlers : Deliver(h) => Queued(handler'[h].msg.job)
         /\ \A h \in Handlers : Handle(h) =>
               /\ Queued(i) => Queued(i)'
               /\ JobOf(h) # i => (Queued(i)' <=> Queued(i))
               /\ Republish(h) /\ handler[h].msg.attempts < Retries /\ JobOf(h) = i => Queued(i)'
<1>0. /\ IsABag(primary) /\ IsABag(retry)
      /\ \A B, C : IsABag(B) /\ IsABag(C) => BagToSet(B (+) C) = BagToSet(B) \cup BagToSet(C)
      /\ \A m : IsABag(One(m)) /\ BagToSet(One(m)) = {m}
      /\ IsABag(EmptyBag) /\ BagToSet(EmptyBag) = {}
  BY TypeOfHandlers, PlusCopies, OneCopy, NoCopy DEF Queue
<1> DEFINE fresh(j) == [job |-> j, attempts |-> 0]
<1>1. ASSUME NEW j \in Jobs, Publish(j) PROVE Queued(i)' <=> Queued(i) \/ i = j
  <2>1. BagToSet(primary') = BagToSet(primary) \cup {fresh(j)} /\ retry' = retry
    BY <1>0, <1>1 DEF Publish, Fresh
  <2>2. fresh(j).job = j
    OBVIOUS
  <2> HIDE DEF fresh
  <2>3. QED
    BY <2>1, <2>2 DEF Queued
<1>2. ASSUME NEW j \in Jobs, PublishFails(j)
      PROVE  \/ \A k : Queued(k)' <=> Queued(k)
             \/ \A k : Queued(k)' <=> Queued(k) \/ k = j
  <2>1. /\ \/ BagToSet(primary') = BagToSet(primary)
           \/ BagToSet(primary') = BagToSet(primary) \cup {fresh(j)}
        /\ retry' = retry
    BY <1>0, <1>2 DEF PublishFails, Fresh
  <2>2. fresh(j).job = j
    OBVIOUS
  <2> HIDE DEF fresh
  <2>3. QED
    BY <2>1, <2>2 DEF Queued
<1>3. ASSUME RetryDue PROVE Queued(i)' <=> Queued(i)
  <2>1. PICK m \in BagToSet(retry) : /\ retry' = retry (-) One(m)
                                     /\ primary' = primary (+) One(m)
    BY <1>3 DEF RetryDue
  <2>2. /\ BagToSet(retry (-) One(m)) \subseteq BagToSet(retry)
        /\ BagToSet(retry) \subseteq BagToSet(retry (-) One(m)) \cup {m}
    BY <1>0, MinusOneCopy
  <2>3. BagToSet(primary') = BagToSet(primary) \cup {m}
    BY <1>0, <2>1
  <2>4. BagToSet(primary') \cup BagToSet(retry') = BagToSet(primary) \cup BagToSet(retry)
    BY <2>1, <2>2, <2>3
  <2>5. QED
    BY <2>4 DEF Queued
<1>4. ASSUME Crash \/ DropConnection PROVE Queued(i)' <=> Queued(i) \/ Held(i) # {}
  <2>1. primary' = primary (+) Returned /\ retry' = retry
    BY <1>4 DEF Crash, DropConnection, Redeliver
  <2>2. IsABag(Returned) /\ BagToSet(Returned) = {handler[h].msg : h \in Leased}
    BY LeasedHold, ReturnedCopies DEF Queue, Returned, BagToSet
  <2>3. BagToSet(primary') = BagToSet(primary) \cup {handler[h].msg : h \in Leased}
    BY <1>0, <2>1, <2>2
  <2>4. QED
    BY <2>1, <2>3 DEF Queued, Held, JobOf
<1>5. ASSUME NEW h \in Handlers, Deliver(h)
      PROVE  /\ Queued(i)' => Queued(i)
             /\ Queued(i) => Queued(i)' \/ handler'[h].msg.job = i
             /\ Queued(handler'[h].msg.job)
  <2>1. PICK m \in BagToSet(primary) :
            primary' = primary (-) One(m) /\ handler'[h].msg = m
    BY <1>5, DeliverFields
  <2>2. /\ BagToSet(primary (-) One(m)) \subseteq BagToSet(primary)
        /\ BagToSet(primary) \subseteq BagToSet(primary (-) One(m)) \cup {m}
    BY <1>0, MinusOneCopy
  <2>3. retry' = retry
    BY <1>5 DEF Deliver
  <2>4. QED
    BY <2>1, <2>2, <2>3 DEF Queued
<1>6. ASSUME NEW h \in Handlers, Handle(h)
      PROVE  /\ Queued(i) => Queued(i)'
             /\ JobOf(h) # i => (Queued(i)' <=> Queued(i))
             /\ Republish(h) /\ handler[h].msg.attempts < Retries /\ JobOf(h) = i => Queued(i)'
  <2>1. primary' = primary /\ Retried(handler[h].msg)
    BY <1>6, HandleRetries
  <2>2. \/ retry' = retry
        \/ \E x : x.job = JobOf(h) /\ BagToSet(retry') = BagToSet(retry) \cup {x}
    BY <1>0, <2>1 DEF Retried, JobOf
  <2>3. ASSUME Republish(h), handler[h].msg.attempts < Retries
        PROVE  \E x : x.job = JobOf(h) /\ BagToSet(retry') = BagToSet(retry) \cup {x}
    <3>1. handler[h].msg \in Message
      BY <2>3 DEF Republish, HandlersHold
    <3>2. PICK x \in Message : /\ x.job = JobOf(h) /\ ForRetry(handler[h].msg) = One(x)
      BY <2>3, <3>1, NextAttempt DEF JobOf
    <3>3. retry' = retry (+) One(x)
      BY <2>3, <3>2 DEF Republish
    <3>4. QED
      BY <1>0, <3>2, <3>3
  <2>4. /\ Queued(i) => Queued(i)'
        /\ JobOf(h) # i => (Queued(i)' <=> Queued(i))
    <3>1. CASE retry' = retry
      BY <2>1, <3>1 DEF Queued
    <3>2. CASE \E x : x.job = JobOf(h) /\ BagToSet(retry') = BagToSet(retry) \cup {x}
      BY <2>1, <3>2 DEF Queued
    <3>3. QED
      BY <2>2, <3>1, <3>2
  <2>5. Republish(h) /\ handler[h].msg.attempts < Retries /\ JobOf(h) = i => Queued(i)'
    BY <2>3 DEF Queued
  <2>6. QED
    BY <2>4, <2>5
<1>7. QED
  BY <1>1, <1>2, <1>3, <1>4, <1>5, <1>6

LEMMA HandleOutcome ==
  ASSUME DeliveryAssumption, TypeOK, HandlersHold, NEW h \in Handlers, Handle(h),
         NEW k, k = JobOf(h)
  PROVE  /\ k \in Jobs
         /\ \A j \in Jobs \ {k} : Outcome(j)' = Outcome(j)
         /\ \E S \in {{}, {"mailed"}, {"lapsed"}, {"dead"}} : Outcome(k)' = Outcome(k) \cup S
         /\ RejectMalformed(h) \/ Refused(h) \/ RepublishFails(h)
              => (handler[h].leased => Outcome(k)' # {})
         /\ AckExpired(h) \/ Accepted(h) => Outcome(k)' # {}
         /\ Republish(h) => handler[h].msg.attempts < Retries \/ Outcome(k)' # {}
<1> DEFINE m == handler[h].msg
           Mail(j) == IF mails[j] > 0 THEN {"mailed"} ELSE {}
           Late(j) == IF j \in lapsed THEN {"lapsed"} ELSE {}
           Dead(j) == IF \E x \in BagToSet(dead) : x.job = j THEN {"dead"} ELSE {}
<1>1. \A j : Outcome(j) = Mail(j) \cup Late(j) \cup Dead(j)
  BY DEF Outcome
<1>2. \A j : Outcome(j)' = Mail(j)' \cup Late(j)' \cup Dead(j)'
  BY DEF Outcome
<1>3. m.job = k /\ k \in Jobs
  <2>1. handler[h].pc # "free"
    BY DEF Handle, RejectMalformed, AckExpired, Refused, RepublishFails, Ack, Send,
           Accepted, Republish, SendFails
  <2>2. QED
    BY <2>1 DEF HandlersHold, JobOf, Message
<1>4. /\ m \in Message
      /\ \/ BagToSet(dead') = BagToSet(dead)
         \/ BagToSet(dead') = BagToSet(dead) \cup {m}
      /\ RejectMalformed(h) \/ Refused(h) \/ RepublishFails(h)
              => (handler[h].leased => m \in BagToSet(dead'))
      /\ Republish(h) => BagToSet(dead') =
            IF m.attempts < Retries THEN BagToSet(dead) ELSE BagToSet(dead) \cup {m}
      /\ AckExpired(h) \/ Send(h) \/ Accepted(h) \/ SendFails(h) \/ Ack(h) => dead' = dead
  BY HandleDead
<1>5. /\ AckExpired(h) \/ lapsed' = lapsed
      /\ AckExpired(h) => lapsed' = lapsed \cup {k} /\ mails' = mails
      /\ mails' = mails \/ ((Accepted(h) \/ SendFails(h)) /\ mails' = Bump(mails, k))
      /\ Accepted(h) => mails' = Bump(mails, k)
  BY DEF Handle, RejectMalformed, AckExpired, Refused, RepublishFails, Ack, Send,
         Accepted, Republish, SendFails, history
<1>6. mails \in [Jobs -> Nat]
  BY DEF TypeOK
<1>7. mails' = Bump(mails, k) => mails'[k] > 0 /\ \A j \in Jobs \ {k} : mails'[j] = mails[j]
  BY <1>3, <1>6 DEF Bump
<1> HIDE DEF m
<1>8. /\ \A j \in Jobs \ {k} : Mail(j)' = Mail(j)
      /\ Mail(k)' = Mail(k) \/ ((Accepted(h) \/ SendFails(h)) /\ Mail(k)' = {"mailed"})
      /\ Accepted(h) => Mail(k)' = {"mailed"}
  BY <1>5, <1>7
<1>9. /\ \A j \in Jobs \ {k} : Late(j)' = Late(j)
      /\ Late(k)' = Late(k) \/ AckExpired(h)
      /\ AckExpired(h) => Late(k)' = {"lapsed"}
  BY <1>5
<1>10. /\ \A j \in Jobs \ {k} : Dead(j)' = Dead(j)
       /\ \/ Dead(k)' = Dead(k)
          \/ Dead(k)' = {"dead"} /\ BagToSet(dead') = BagToSet(dead) \cup {m}
       /\ m \in BagToSet(dead') => Dead(k)' = {"dead"}
       /\ dead' = dead => Dead(k)' = Dead(k)
  BY <1>3, <1>4
<1>11. /\ Mail(k) \subseteq {"mailed"} /\ Late(k) \subseteq {"lapsed"} /\ Dead(k) \subseteq {"dead"}
  OBVIOUS
<1> HIDE DEF Mail, Late, Dead
<1>12. \A j \in Jobs \ {k} : Outcome(j)' = Outcome(j)
  BY <1>1, <1>2, <1>8, <1>9, <1>10
<1>13. \E S \in {{}, {"mailed"}, {"lapsed"}, {"dead"}} : Outcome(k)' = Outcome(k) \cup S
  <2>1. CASE AckExpired(h)
    <3>1. Mail(k)' = Mail(k) /\ Dead(k)' = Dead(k) /\ Late(k)' = {"lapsed"}
      BY <1>4, <1>5, <1>9, <1>10, <2>1 DEF Mail
    <3>2. Outcome(k)' = Outcome(k) \cup {"lapsed"}
      BY <1>1, <1>2, <1>11, <3>1
    <3>3. QED
      BY <3>2
  <2>2. CASE ~ AckExpired(h) /\ dead' = dead
    <3>1. Late(k)' = Late(k) /\ Dead(k)' = Dead(k)
      BY <1>9, <1>10, <2>2
    <3>2. Outcome(k)' = Outcome(k) \/ Outcome(k)' = Outcome(k) \cup {"mailed"}
      BY <1>1, <1>2, <1>8, <1>11, <3>1
    <3>3. QED
      BY <3>2
  <2>3. CASE ~ AckExpired(h) /\ dead' # dead
    <3>1. Late(k)' = Late(k) /\ Mail(k)' = Mail(k)
      BY <1>4, <1>8, <1>9, <2>3
    <3>2. Outcome(k)' = Outcome(k) \/ Outcome(k)' = Outcome(k) \cup {"dead"}
      BY <1>1, <1>2, <1>10, <1>11, <3>1
    <3>3. QED
      BY <3>2
  <2>4. QED
    BY <2>1, <2>2, <2>3
<1>14. /\ m \in BagToSet(dead') => Outcome(k)' # {}
       /\ AckExpired(h) \/ Accepted(h) => Outcome(k)' # {}
  BY <1>2, <1>8, <1>9, <1>10
<1>15. Republish(h) => m.attempts < Retries \/ Outcome(k)' # {}
  BY <1>4, <1>14
<1>16. QED
  BY <1>3, <1>4, <1>12, <1>13, <1>14, <1>15 DEF m

(* The job of a handler's step has come to something, waits, or is pending. *)
LEMMA HandleKeeps ==
  ASSUME DeliveryAssumption, IInv, NEW h \in Handlers, Handle(h), NEW k, k = JobOf(h)
  PROVE  Outcome(k)' # {} \/ Queued(k)' \/ Pending(k)'
<1>0. TypeOK /\ HandlersHold /\ NothingIsLost
  BY DEF IInv
<1>1. PICK p \in {"free"} \cup Steps :
         /\ Moves(h, p)
         /\ Send(h) => p = "sending"
         /\ SendFails(h) => p = "failed"
  BY <1>0, HandleMoves DEF Handle, Steps, Send, SendFails
<1>2. handler[h].pc # "free" /\ \A g \in Handlers \ {h} : handler'[g] = handler[g]
  BY <1>1 DEF Moves
<1>3. k \in InWork
  BY <1>0, <1>2, WorkIs DEF HeldBy
<1>4. Outcome(k) # {} \/ Queued(k) \/ Pending(k)
  BY <1>0, <1>3, WorkIs DEF NothingIsLost
<1>5. TypeOK' /\ HandlersHold'
  BY <1>0, TypeStep DEF Next
<1>6. \A i : Pending(i)' <=> \E g \in Handlers : /\ HeldBy(g, i)' /\ handler'[g].leased
                                                 /\ handler'[g].pc # "settle"
  BY <1>5, WorkIsNext
<1>7. CASE Outcome(k) # {}
  BY <1>0, <1>7, HandleOutcome
<1>8. CASE Queued(k)
  BY <1>0, <1>8, QueuedStep
<1>9. CASE \E g \in Handlers \ {h} : HeldBy(g, k) /\ handler[g].leased /\ handler[g].pc # "settle"
  BY <1>2, <1>6, <1>9 DEF HeldBy, JobOf
<1>10. CASE handler[h].leased /\ handler[h].pc # "settle"
  <2>1. CASE Send(h) \/ SendFails(h)
    <3>1. /\ handler'[h].msg = handler[h].msg /\ handler'[h].leased
          /\ handler'[h].pc \in {"sending", "failed"}
      BY <1>1, <1>10, <2>1 DEF Moves
    <3>2. HeldBy(h, k)'
      BY <3>1 DEF HeldBy, JobOf
    <3>3. QED
      BY <1>6, <3>1, <3>2
  <2>2. CASE RejectMalformed(h) \/ Refused(h) \/ RepublishFails(h) \/ AckExpired(h) \/ Accepted(h)
    BY <1>0, <1>10, <2>2, HandleOutcome
  <2>3. CASE Republish(h)
    BY <1>0, <2>3, HandleOutcome, QueuedStep
  <2>4. CASE Ack(h)
    BY <1>10, <2>4 DEF Ack
  <2>5. QED
    BY <2>1, <2>2, <2>3, <2>4 DEF Handle
<1>11. QED
  BY <1>0, <1>4, <1>7, <1>8, <1>9, <1>10, PendingIs

Outcomes == [j \in Jobs |-> Outcome(j)]

LEMMA OtherOutcomes ==
  ASSUME dead' = dead, mails' = mails, lapsed' = lapsed
  PROVE  (\A j : Outcome(j)' = Outcome(j)) /\ Outcomes' = Outcomes
BY DEF Outcome, Outcomes

(* What a step of a handler looks like to whoever asked for the mail.      *)
LEMMA HandlePromise ==
  ASSUME DeliveryAssumption, IInv, NEW h \in Handlers, Handle(h)
  PROVE  NothingIsLost' /\ [Promise!Next]_(Promise!vars)
<1>0. TypeOK /\ HandlersHold /\ NothingIsLost
  BY DEF IInv
<1>a. PICK k \in Jobs : k = JobOf(h)
  BY <1>0, HandleMoves DEF Handle, Moves
<1>1. TypeOK' /\ HandlersHold'
  BY <1>0, TypeStep DEF Next
<1>2. /\ handler[h].pc # "free"
      /\ \A g \in Handlers \ {h} : handler'[g] = handler[g]
      /\ handler'[h].pc # "free" => handler'[h].msg = handler[h].msg
  BY <1>0, HandleMoves DEF Handle, Moves
<1>3. asked' = asked
  BY <1>0, HandleRetries
<1>4. /\ k \in Jobs
      /\ \A j \in Jobs \ {k} : Outcome(j)' = Outcome(j)
      /\ \E S \in {{}, {"mailed"}, {"lapsed"}, {"dead"}} : Outcome(k)' = Outcome(k) \cup S
  BY <1>0, <1>a, HandleOutcome
<1>5. \A i : i # k => (Queued(i)' <=> Queued(i))
  BY <1>0, <1>a, QueuedStep
<1>6. \A i, g : i # k /\ g \in Handlers =>
         /\ HeldBy(g, i)' <=> HeldBy(g, i)
         /\ HeldBy(g, i) => handler'[g] = handler[g]
  BY <1>2, <1>a DEF HeldBy, JobOf
<1>7. \A i : i # k =>
         /\ i \in InWork' <=> i \in InWork
         /\ Waiting(i)' <=> Waiting(i)
         /\ Pending(i)' <=> Pending(i)
  BY <1>0, <1>1, <1>5, <1>6, WorkIs, WorkIsNext, PendingIs
<1>8. k \in InWork /\ InWork \subseteq Jobs
  BY <1>0, <1>2, <1>a, WorkIs, InWorkAreJobs DEF HeldBy
<1>9. Outcome(k)' # {} \/ Queued(k)' \/ Pending(k)'
  BY <1>a, HandleKeeps
<1>10. NothingIsLost'
  <2>1. ASSUME NEW i \in InWork' PROVE Outcome(i)' # {} \/ Waiting(i)' \/ Pending(i)'
    <3>1. CASE i = k
      BY <1>1, <1>9, <3>1, WorkIsNext
    <3>2. CASE i # k
      <4>1. i \in InWork /\ i \in Jobs
        BY <1>7, <1>8, <2>1, <3>2
      <4>2. Outcome(i)' = Outcome(i)
        BY <1>4, <3>2, <4>1
      <4>3. QED
        BY <1>0, <1>7, <3>2, <4>1, <4>2 DEF NothingIsLost
    <3>3. QED
      BY <3>1, <3>2
  <2>2. QED
    BY <2>1 DEF NothingIsLost
<1>11. InWork' = InWork \/ (InWork' = InWork \ {k} /\ k \notin InWork')
  BY <1>7, <1>8
<1>12. \A S : Outcome(k)' = Outcome(k) \cup S
         => Outcomes' = [Outcomes EXCEPT ![k] = @ \cup S]
  BY <1>4 DEF Outcomes
<1>13. [Promise!Next]_(Promise!vars)
  <2>1. PICK S \in {{}, {"mailed"}, {"lapsed"}, {"dead"}} : Outcome(k)' = Outcome(k) \cup S
    BY <1>4
  <2>2. Outcomes' = [Outcomes EXCEPT ![k] = @ \cup S]
    BY <1>12, <2>1
  <2>3. ASSUME NEW o \in {"mailed", "lapsed", "dead"}, S = {o}
        PROVE  Promise!Next
    <3>1. Outcomes' = [Outcomes EXCEPT ![k] = @ \cup {o}]
      BY <2>2, <2>3
    <3>2. InWork' \in {InWork, InWork \ {k}}
      BY <1>11
    <3>3. Promise!Achieve(k, o)
      BY <1>3, <1>8, <3>1, <3>2 DEF Promise!Achieve, Outcomes
    <3>4. QED
      BY <1>4, <2>3, <3>3 DEF Promise!Next, Promise!Outcomes
  <2>4. CASE S = {}
    <3>1. Outcomes' = Outcomes
      BY <2>2, <2>4 DEF Outcomes
    <3>2. CASE InWork' = InWork
      BY <1>3, <3>1, <3>2 DEF Promise!vars, Outcomes
    <3>3. CASE InWork' = InWork \ {k} /\ k \notin InWork'
      <4>1. ~ Queued(k)' /\ ~ Pending(k)'
        BY <1>1, <3>3, WorkIsNext
      <4>2. Outcome(k) # {}
        BY <1>9, <2>1, <2>4, <4>1
      <4>3. Outcomes[k] # {}
        BY <1>4, <4>2 DEF Outcomes
      <4>4. Promise!Close({k})
        BY <1>3, <1>8, <3>1, <3>3, <4>3 DEF Promise!Close, Outcomes
      <4>5. QED
        BY <1>4, <4>4 DEF Promise!Next
    <3>4. QED
      BY <1>11, <3>2, <3>3
  <2>5. QED
    BY <2>1, <2>3, <2>4
<1>14. QED
  BY <1>10, <1>13

LEMMA PromiseStep ==
  ASSUME DeliveryAssumption, IInv, [Next]_vars
  PROVE  NothingIsLost' /\ [Promise!Next]_(Promise!vars)
<1> DEFINE Goal == NothingIsLost' /\ [Promise!Next]_(Promise!vars)
<1>0. TypeOK /\ HandlersHold /\ NothingIsLost
  BY DEF IInv
<1>1. TypeOK' /\ HandlersHold'
  BY <1>0, TypeStep
<1>2. InWork \subseteq Jobs
  BY <1>0, InWorkAreJobs
(* When nothing comes of any job, it is lost only if somebody drops it.    *)
<1>a. ASSUME dead' = dead, mails' = mails, lapsed' = lapsed,
             \A i \in InWork' \cap InWork : Waiting(i) => Waiting(i)' \/ Pending(i)',
             \A i \in InWork' \cap InWork : Pending(i) => Waiting(i)' \/ Pending(i)',
             \A i \in InWork' \ InWork : Waiting(i)'
      PROVE  NothingIsLost' /\ Outcomes' = Outcomes
  <2>1. (\A i : Outcome(i)' = Outcome(i)) /\ Outcomes' = Outcomes
    BY <1>a, OtherOutcomes
  <2>2. \A i \in InWork' : Outcome(i)' # {} \/ Waiting(i)' \/ Pending(i)'
    BY <1>0, <1>a, <2>1 DEF NothingIsLost
  <2>3. QED
    BY <2>1, <2>2 DEF NothingIsLost
<1>b. ASSUME asked' = asked, InWork' = InWork, Outcomes' = Outcomes
      PROVE  UNCHANGED Promise!vars
  BY <1>b DEF Promise!vars, Outcomes
<1>c. ASSUME handler' = handler
      PROVE  \A i, h : /\ HeldBy(h, i)' <=> HeldBy(h, i)
                       /\ handler'[h] = handler[h]
  BY <1>c DEF HeldBy, JobOf
<1>3. ASSUME NEW j \in Jobs, Publish(j) \/ PublishFails(j) PROVE Goal
  <2>1. /\ handler' = handler /\ dead' = dead /\ mails' = mails /\ lapsed' = lapsed
        /\ asked[j] = "new"
    BY <1>3 DEF Publish, PublishFails, history
  <2>2. /\ \/ \A i : Queued(i)' <=> Queued(i)
           \/ \A i : Queued(i)' <=> Queued(i) \/ i = j
        /\ Publish(j) => \A i : Queued(i)' <=> Queued(i) \/ i = j
    BY <1>0, <1>3, QueuedStep
  <2>3. /\ \A i : (i \in InWork /\ Waiting(i)) => Waiting(i)'
        /\ \A i : Pending(i) => Pending(i)'
        /\ \A i \in InWork' \ InWork : Waiting(i)'
        /\ InWork' = InWork \/ InWork' = InWork \cup {j}
        /\ Publish(j) => InWork' = InWork \cup {j}
    BY <1>0, <1>1, <1>c, <2>1, <2>2, WorkIs, WorkIsNext, PendingIs
  <2>4. NothingIsLost' /\ Outcomes' = Outcomes
    BY <1>a, <2>1, <2>3
  <2>5. Promise!Confirm(j) \/ Promise!Fail(j)
    <3>1. CASE Publish(j)
      <4>1. asked' = [asked EXCEPT ![j] = "confirmed"]
        BY <3>1 DEF Publish
      <4>2. QED
        BY <2>1, <2>3, <2>4, <3>1, <4>1 DEF Promise!Confirm, Outcomes
    <3>2. CASE PublishFails(j)
      <4>1. asked' = [asked EXCEPT ![j] = "failed"]
        BY <3>2 DEF PublishFails
      <4>2. QED
        BY <2>1, <2>3, <2>4, <4>1 DEF Promise!Fail, Outcomes
    <3>3. QED
      BY <1>3, <3>1, <3>2
  <2>6. QED
    BY <2>4, <2>5 DEF Promise!Next
<1>4. ASSUME (\E j \in Jobs : ExpireJob(j)) \/ RetryDue \/ UNCHANGED vars PROVE Goal
  <2>1. /\ handler' = handler /\ dead' = dead /\ mails' = mails /\ lapsed' = lapsed
        /\ asked' = asked
        /\ RetryDue \/ (primary' = primary /\ retry' = retry)
    BY <1>4 DEF ExpireJob, RetryDue, vars, history, queues
  <2>2. \A i : Queued(i)' <=> Queued(i)
    <3>1. CASE RetryDue
      BY <1>0, <3>1, QueuedStep
    <3>2. CASE primary' = primary /\ retry' = retry
      BY <3>2 DEF Queued
    <3>3. QED
      BY <2>1, <3>1, <3>2
  <2>3. /\ \A i : Waiting(i) => Waiting(i)'
        /\ \A i : Pending(i) => Pending(i)'
        /\ InWork' = InWork
    BY <1>0, <1>1, <1>c, <2>1, <2>2, WorkIs, WorkIsNext, PendingIs
  <2>4. NothingIsLost' /\ Outcomes' = Outcomes
    BY <1>a, <2>1, <2>3
  <2>5. QED
    BY <1>b, <2>1, <2>3, <2>4
<1>5. ASSUME NEW h \in Handlers, Deliver(h) PROVE Goal
  <2>1. /\ handler[h].pc = "free"
        /\ handler'[h].pc = "taken" /\ handler'[h].leased
        /\ \A g \in Handlers \ {h} : handler'[g] = handler[g]
    BY <1>0, <1>5, DeliverFields DEF Free
  <2>2. /\ dead' = dead /\ mails' = mails /\ lapsed' = lapsed /\ asked' = asked
    BY <1>5 DEF Deliver, history
  <2>3. PICK k : k = handler'[h].msg.job
    OBVIOUS
  <2>4. \A i : HeldBy(h, i)' <=> i = k
    BY <2>1, <2>3 DEF HeldBy, JobOf
  <2>5. \A i : ~ HeldBy(h, i)
    BY <2>1 DEF HeldBy
  <2>6. \A i : \A g \in Handlers \ {h} : HeldBy(g, i)' <=> HeldBy(g, i)
    BY <2>1 DEF HeldBy, JobOf
  <2>7. /\ \A i : Queued(i)' => Queued(i)
        /\ \A i : Queued(i) => Queued(i)' \/ i = k
        /\ Queued(k)
    BY <1>0, <1>5, <2>3, QueuedStep
  <2>8. InWork' = InWork
    BY <1>0, <1>1, <2>4, <2>5, <2>6, <2>7, WorkIs, WorkIsNext
  <2>9. Pending(k)'
    <3>1. HeldBy(h, k)' /\ handler'[h].leased /\ handler'[h].pc # "settle"
      BY <2>1, <2>4
    <3>2. QED
      BY <1>1, <3>1, WorkIsNext
  <2>10. \A i : Pending(i) => Pending(i)'
    <3>1. TAKE i
    <3>2. HAVE Pending(i)
    <3>3. PICK g \in Handlers : HeldBy(g, i) /\ handler[g].leased /\ handler[g].pc # "settle"
      BY <1>0, <3>2, PendingIs
    <3>4. g # h
      BY <2>5, <3>3
    <3>5. HeldBy(g, i)' /\ handler'[g].leased /\ handler'[g].pc # "settle"
      BY <2>1, <2>6, <3>3, <3>4
    <3>6. QED
      BY <1>1, <3>5, WorkIsNext
  <2>11. \A i : Waiting(i) => Waiting(i)' \/ Pending(i)'
    BY <1>0, <1>1, <2>7, <2>9, WorkIs, WorkIsNext
  <2>12. NothingIsLost' /\ Outcomes' = Outcomes
    BY <1>a, <2>2, <2>8, <2>10, <2>11
  <2>13. QED
    BY <1>b, <2>2, <2>8, <2>12
<1>6. ASSUME Crash \/ DropConnection PROVE Goal
  <2>1. dead' = dead /\ mails' = mails /\ lapsed' = lapsed /\ asked' = asked
    BY <1>6 DEF Crash, DropConnection, Redeliver
  <2>2. \A i : Queued(i)' <=> Queued(i) \/ Held(i) # {}
    BY <1>0, <1>6, QueuedStep
  <2>3. \A i : Pending(i) => Held(i) # {}
    BY DEF Pending
  <2>4. \A i : Held(i) # {} => \E h \in Handlers : HeldBy(h, i)
    BY <1>0, LeasedHold DEF Held, Leased, HeldBy
  <2>5. /\ \A i : Waiting(i) \/ Pending(i) => Waiting(i)'
    BY <1>0, <1>1, <2>2, <2>3, WorkIs, WorkIsNext
  <2>6. CASE Crash
    <3>1. \A h \in Handlers : handler'[h].pc = "free"
      BY <2>6 DEF Crash, Free
    <3>2. \A i : ~ \E h \in Handlers : HeldBy(h, i)'
      BY <3>1 DEF HeldBy
    <3>3. \A i : i \in InWork' <=> Queued(i) \/ Held(i) # {}
      BY <1>1, <2>2, <3>2, WorkIsNext
    <3>4. InWork' \subseteq InWork
      BY <1>0, <2>4, <3>3, WorkIs
    <3>5. NothingIsLost' /\ Outcomes' = Outcomes
      BY <1>a, <2>1, <2>5, <3>4
    <3>6. \A j \in InWork \ InWork' : Outcomes[j] # {}
      <4>1. \A j \in InWork \ InWork' : Outcome(j) # {}
        BY <1>0, <2>3, <3>3, WorkIs DEF NothingIsLost
      <4>2. QED
        BY <1>2, <4>1 DEF Outcomes
    <3>7. InWork' = InWork \ (InWork \ InWork')
      BY <3>4
    <3>8. ASSUME NEW done, done = InWork \ InWork'
          PROVE  Promise!Close(done) /\ done \in SUBSET Jobs
      BY <1>2, <2>1, <3>5, <3>6, <3>7, <3>8 DEF Promise!Close, Outcomes
    <3>9. \E done : done = InWork \ InWork'
      OBVIOUS
    <3>10. Promise!Next
      BY <3>8, <3>9 DEF Promise!Next
    <3>11. QED
      BY <3>5, <3>10
  <2>7. CASE DropConnection
    <3>1. \A h \in Handlers : handler'[h].pc = handler[h].pc /\ handler'[h].msg = handler[h].msg
      BY <1>0, <2>7, TypeOfHandlers DEF DropConnection, State
    <3>2. \A i : \A h \in Handlers : HeldBy(h, i)' <=> HeldBy(h, i)
      BY <3>1 DEF HeldBy, JobOf
    <3>3. InWork' = InWork
      BY <1>0, <1>1, <2>2, <2>4, <3>2, WorkIs, WorkIsNext
    <3>4. NothingIsLost' /\ Outcomes' = Outcomes
      BY <1>a, <2>1, <2>5, <3>3
    <3>5. QED
      BY <1>b, <2>1, <3>3, <3>4
  <2>8. QED
    BY <1>6, <2>6, <2>7
<1>7. ASSUME NEW h \in Handlers, Handle(h) PROVE Goal
  BY <1>7, HandlePromise
<1>8. ASSUME \E j \in Jobs : Publish(j) \/ PublishFails(j) \/ ExpireJob(j) PROVE Goal
  BY <1>3, <1>4, <1>8
<1>9. ASSUME \E h \in Handlers : Deliver(h) \/ Handle(h) PROVE Goal
  BY <1>5, <1>7, <1>9
<1>10. QED
  BY <1>4, <1>6, <1>8, <1>9 DEF Next

-----------------------------------------------------------------------------
LEMMA InvInit ==
  ASSUME DeliveryAssumption, Init
  PROVE  IInv
<1>1. /\ IsABag(EmptyBag) /\ BagToSet(EmptyBag) = {} /\ \A m : Copies(m, EmptyBag) = 0
      /\ IsFiniteSet({}) /\ Cardinality({}) = 0
  BY NoCopy, FS_EmptySet
<1>2. \A h \in Handlers : handler[h] = Free /\ handler[h].pc = "free" /\ ~ handler[h].leased
  BY DEF Init, Free
<1>3. TypeOK
  <2>1. Free \in [pc : {"free", "taken", "sending", "failed", "settle"},
                  msg : Message \cup {Nil}, leased : BOOLEAN]
    BY DEF Free
  <2>2. 0 \in 0 .. MaxDrops
    BY DEF DeliveryAssumption
  <2>3. QED
    BY <1>1, <2>1, <2>2 DEF Init, TypeOK
<1>4. {h \in Handlers : handler[h].pc # "free"} = {}
  BY <1>2
<1>5. HandlersHold
  BY <1>1, <1>2, <1>4 DEF HandlersHold
<1>6. ASSUME NEW j, NEW W PROVE Accounted(j, W) /\ Budget(j, W) = 0
  <2>1. QueueUnits(EmptyBag, j, W) = {}
    BY <1>1 DEF QueueUnits
  <2>2. HandlerUnits(handler, j, W) = {}
    BY <1>2 DEF HandlerUnits, Worth
  <2>3. primary = EmptyBag /\ retry = EmptyBag
    BY DEF Init
  <2>4. QED
    BY <1>1, <2>1, <2>2, <2>3 DEF Accounted, Budget, Counted, InQueue, InHandlers
<1>7. \A j \in Jobs : /\ mails[j] = 0 /\ tries[j] = 0 /\ Entries(j) = 0
                      /\ j \notin refused
  BY DEF Init, Entries
<1>8. ChancesAreCounted
  BY <1>6, <1>7 DEF ChancesAreCounted
<1>9. TriesAreCounted
  <2>1. (Retries + 1) * 0 = 0
    BY DEF DeliveryAssumption
  <2>2. QED
    BY <1>6, <1>7, <2>1 DEF TriesAreCounted
<1>10. UnreadableIsUntried
  BY <1>7 DEF UnreadableIsUntried, DeliveryAssumption
<1>11. DeadAfterRetries
  BY <1>1 DEF Init, DeadAfterRetries
<1>12. InWork = {}
  <2>1. \A i : ~ Queued(i)
    BY <1>1 DEF Init, Queued
  <2>2. \A i, h : h \in Handlers => ~ HeldBy(h, i)
    BY <1>2 DEF HeldBy
  <2>3. QED
    BY <1>3, <2>1, <2>2, WorkIs
<1>13. NothingIsLost
  BY <1>12 DEF NothingIsLost
<1>14. QED
  BY <1>3, <1>5, <1>8, <1>9, <1>10, <1>11, <1>13 DEF IInv

LEMMA InvStep ==
  ASSUME DeliveryAssumption, IInv, [Next]_vars
  PROVE  IInv'
<1>1. TypeOK' /\ HandlersHold'
  BY TypeStep DEF IInv
<1>2. ChancesAreCounted' /\ TriesAreCounted'
  BY ChancesStep, TriesStep
<1>3. UnreadableIsUntried' /\ DeadAfterRetries' /\ NothingIsLost'
  BY UnreadableStep, DeadStep, PromiseStep
<1>4. QED
  BY <1>1, <1>2, <1>3 DEF IInv

LEMMA InvAlways == Spec => []IInv
<1>1. Init => IInv
  BY InvInit, DeliveryAssumption
<1>2. IInv /\ [Next]_vars => IInv'
  BY InvStep, DeliveryAssumption
<1>3. QED
  BY <1>1, <1>2, PTL DEF Spec

-----------------------------------------------------------------------------
(* Every variable holds a value of its kind.                               *)
THEOREM TypeCorrect == Spec => []TypeOK
<1>1. IInv => TypeOK
  BY DEF IInv
<1>2. QED
  BY <1>1, InvAlways, PTL

(* However crashes, lost connections, retries and duplicates interleave, a *)
(* job is mailed at most once, but for the deliveries that were repeated   *)
(* and the sends SMTP took and reported as failed.                         *)
THEOREM MailsAreBounded == Spec => []OneMailPerDelivery
<1>1. IInv => OneMailPerDelivery
  <2> SUFFICES ASSUME IInv, NEW j \in Jobs PROVE mails[j] <= 1 + again[j]
    BY DEF OneMailPerDelivery
  <2>1. /\ Accounted(j, Chance)
        /\ Budget(j, Chance) + mails[j] + (IF j \in refused THEN 1 ELSE 0) <= Entries(j)
    BY DEF IInv, ChancesAreCounted
  <2>2. mails[j] \in Nat /\ again[j] \in Nat
    BY DEF IInv, TypeOK
  <2>3. Budget(j, Chance) \in Nat
    BY <2>1, BudgetIsNat
  <2>4. Entries(j) <= 1 + again[j] /\ Entries(j) \in Nat
    BY <2>2 DEF Entries
  <2>5. QED
    BY <2>1, <2>2, <2>3, <2>4
<1>2. QED
  BY <1>1, InvAlways, PTL

(* A job is tried at most Retries + 1 times, and as often again for each   *)
(* repeated delivery, whatever the number of its copies.                   *)
THEOREM TriesStayBounded == Spec => []TriesAreBounded
<1>1. IInv => TriesAreBounded
  <2> SUFFICES ASSUME IInv, NEW j \in Jobs
               PROVE  tries[j] <= (Retries + 1) * (1 + again[j])
    BY DEF TriesAreBounded
  <2>1. /\ Accounted(j, Left)
        /\ Budget(j, Left) + tries[j] <= (Retries + 1) * Entries(j)
    BY DEF IInv, TriesAreCounted
  <2>2. tries[j] \in Nat /\ again[j] \in Nat /\ Retries \in Nat
    BY DeliveryAssumption DEF IInv, TypeOK, DeliveryAssumption
  <2>3. Budget(j, Left) \in Nat
    BY <2>1, BudgetIsNat
  <2>4. Entries(j) <= 1 + again[j] /\ Entries(j) \in Nat
    BY <2>2 DEF Entries
  <2>5. (Retries + 1) * Entries(j) <= (Retries + 1) * (1 + again[j])
    <3>1. \A r, x, y \in Nat : x <= y => r * x <= r * y
      OBVIOUS
    <3>2. Retries + 1 \in Nat /\ 1 + again[j] \in Nat
      BY <2>2
    <3>3. QED
      BY <2>4, <3>1, <3>2
  <2>6. (Retries + 1) * Entries(j) \in Nat /\ (Retries + 1) * (1 + again[j]) \in Nat
    BY <2>2, <2>4
  <2>7. QED
    BY <2>1, <2>2, <2>3, <2>5, <2>6
<1>2. QED
  BY <1>1, InvAlways, PTL

(* What is worth nothing is in no queue, and in no handler but one that    *)
(* has its answer.                                                         *)
LEMMA NoChance ==
  ASSUME TypeOK, HandlersHold, NEW j, Accounted(j, Chance), Budget(j, Chance) = 0
  PROVE  ~ Queued(j) /\ ~ Pending(j)
<1>1. /\ InQueue(primary, j, Chance) \in Nat /\ InQueue(retry, j, Chance) \in Nat
      /\ InHandlers(handler, j, Chance) \in Nat
  BY BudgetIsNat
<1>2. /\ InQueue(primary, j, Chance) = 0 /\ InQueue(retry, j, Chance) = 0
      /\ InHandlers(handler, j, Chance) = 0
  BY <1>1 DEF Budget
<1>3. /\ QueueUnits(primary, j, Chance) = {} /\ QueueUnits(retry, j, Chance) = {}
      /\ HandlerUnits(handler, j, Chance) = {}
  BY <1>2, FS_EmptySet DEF Accounted, Counted, InQueue, InHandlers
<1>4. ASSUME NEW B, Queue(B), NEW m \in BagToSet(B), m.job = j
      PROVE  QueueUnits(B, j, Chance) # {}
  <2>1. m \in Message /\ Copies(m, B) \in Nat /\ Copies(m, B) > 0 /\ Chance.queued[m] = 1
    BY <1>4, CopiesCount, ChanceValues DEF Queue
  <2>2. <<m, <<1, 1>>>> \in QueueUnits(B, j, Chance)
    BY <1>4, <2>1 DEF QueueUnits
  <2>3. QED
    BY <2>2
<1>5. ~ Queued(j)
  BY <1>3, <1>4, TypeOfHandlers DEF Queued
<1>6. ASSUME NEW h \in Handlers, HeldBy(h, j), handler[h].pc # "settle"
      PROVE  HandlerUnits(handler, j, Chance) # {}
  <2>1. /\ handler[h].pc \in {"taken", "sending", "failed"}
        /\ handler[h].pc \in {"free"} \cup Steps
        /\ handler[h].msg \in Message /\ handler[h].msg.job = j
    BY <1>6, TypeOfHandlers DEF HeldBy, JobOf, HandlersHold, State, Steps
  <2>2. Worth(handler[h], j, Chance) = 1
    BY <2>1, ChanceValues
  <2>3. <<h, 1>> \in HandlerUnits(handler, j, Chance)
    BY <2>2 DEF HandlerUnits
  <2>4. QED
    BY <2>3
<1>7. ~ Pending(j)
  BY <1>3, <1>6, PendingIs
<1>8. QED
  BY <1>5, <1>7

(* A refusal is final: a job whose delivery was never repeated has then    *)
(* no copy, no try and no mail left, and an unreadable one never had any.  *)
THEOREM RefusalsAreFinal == Spec => []RefusedIsFinal
<1>1. IInv => RefusedIsFinal
  <2> SUFFICES ASSUME IInv, NEW j \in Jobs
               PROVE  /\ j \in Malformed => tries[j] = 0
                      /\ j \in refused /\ again[j] = 0 =>
                            /\ mails[j] = 0
                            /\ \A h \in Held(j) : handler[h].pc = "settle"
                            /\ \A m \in BagToSet(primary (+) retry) : m.job # j
    BY DEF RefusedIsFinal
  <2>1. j \in Malformed => tries[j] = 0
    BY DEF IInv, UnreadableIsUntried
  <2>2. ASSUME j \in refused, again[j] = 0
        PROVE  /\ mails[j] = 0
               /\ \A h \in Held(j) : handler[h].pc = "settle"
               /\ \A m \in BagToSet(primary (+) retry) : m.job # j
    <3>1. /\ TypeOK /\ HandlersHold
          /\ Accounted(j, Chance)
          /\ Budget(j, Chance) + mails[j] + 1 <= Entries(j)
      BY <2>2 DEF IInv, ChancesAreCounted
    <3>2. Budget(j, Chance) \in Nat /\ mails[j] \in Nat
      BY <3>1, BudgetIsNat DEF TypeOK
    <3>3. Entries(j) <= 1 /\ Entries(j) \in Nat
      BY <2>2 DEF Entries
    <3>4. Budget(j, Chance) = 0 /\ mails[j] = 0
      BY <3>1, <3>2, <3>3
    <3>5. ~ Queued(j) /\ ~ Pending(j)
      BY <3>1, <3>4, NoChance
    <3>6. ~ Waiting(j)
      BY <3>1, <3>5, WorkIs
    <3>7. QED
      BY <3>4, <3>5, <3>6 DEF Waiting, Pending
  <2>3. QED
    BY <2>1, <2>2
<1>2. QED
  BY <1>1, InvAlways, PTL

(* A readable job reaches the dead queue only refused, out of retries, or  *)
(* when the worker could not publish one of them.                          *)
THEOREM DeadLettersAreJustified == Spec => []DeadAfterRetries
<1>1. IInv => DeadAfterRetries
  BY DEF IInv
<1>2. QED
  BY <1>1, InvAlways, PTL

(* The worker, its queues and its broker keep the promise made to whoever  *)
(* asks for a mail: no crash, redelivery, retry or late settle makes a     *)
(* step that MailPromise does not allow.                                   *)
THEOREM PromiseIsKept == Spec => ImplementsPromise
<1>1. Init => Promise!Init
  <2> SUFFICES ASSUME Init PROVE Promise!Init
    OBVIOUS
  <2>1. TypeOK
    BY InvInit, DeliveryAssumption DEF IInv
  <2>2. BagToSet(EmptyBag) = {}
    BY NoCopy
  <2>3. /\ \A i : ~ Queued(i)
        /\ \A i, h : h \in Handlers => ~ HeldBy(h, i)
    BY <2>2 DEF Init, Queued, HeldBy, Free
  <2>4. InWork = {}
    BY <2>1, <2>3, WorkIs
  <2>5. \A j \in Jobs : Outcome(j) = {}
    BY <2>2 DEF Init, Outcome
  <2>6. QED
    BY <2>4, <2>5 DEF Init, Promise!Init
<1>2. IInv /\ [Next]_vars => [Promise!Next]_(Promise!vars)
  BY PromiseStep, DeliveryAssumption
<1>3. QED
  BY <1>1, <1>2, InvAlways, PTL DEF Spec, ImplementsPromise, Promise!Spec
=============================================================================
