-------------------------- MODULE RateLimiter_proofs --------------------------
(***************************************************************************)
(* A fixed window lets fewer than twice its limit through in any time as   *)
(* long as itself, and forgets what is older, for every limit, window and  *)
(* set of hosts.                                                           *)
(***************************************************************************)
EXTENDS RateLimiter, FiniteSetTheorems, FunctionTheorems, TLAPS

(* The invariant relates, for each host, its counter n, the ticks t until  *)
(* the counter expires, and the histories f and u of what its allocation   *)
(* was let through and what it tried.  The window was opened Window - t    *)
(* ticks ago.                                                              *)

(* A counter lives exactly as long as its window. *)
CounterExpires(n, t) == n = 0 <=> t = 0

(* Of what passed in this tick, the counter knows. *)
ThisTickIsCounted(n, f) == f[0] <= n

(* Between windows: the last one is over, and the hit that opened it is    *)
(* too old to be seen.                                                     *)
BetweenWindows(n, f) == n = 0 => Total(f, 0, Window - 1) <= Limit - 1

(* In a window, k ticks old: what it let through is counted and within the *)
(* limit; of that, all but the hit that opened it is younger than k; and   *)
(* what is older is from before, where again the opening hit is too old to *)
(* be seen.                                                                *)
InWindow(n, k, f) ==
    n > 0 => /\ Total(f, 0, k) <= n /\ Total(f, 0, k) <= Limit
             /\ Total(f, 0, k - 1) <= n - 1 /\ Total(f, 0, k - 1) <= Limit - 1
             /\ Total(f, k + 1, Window - 1) <= Limit - 1

(* The counter counts requests made since the window was opened. *)
CounterIsBacked(n, k, u) == n > 0 => n <= Total(u, 0, k)

Sound(n, t, f, u) ==
    /\ CounterExpires(n, t)
    /\ ThisTickIsCounted(n, f)
    /\ BetweenWindows(n, f)
    /\ InWindow(n, Window - t, f)
    /\ CounterIsBacked(n, Window - t, u)

IInv ==
    /\ TypeOK
    /\ \A h \in Hosts :
          Sound(hits[CallerOf(h)], ttl[CallerOf(h)],
                admitted[h.allocation], tried[h.allocation])

-----------------------------------------------------------------------------
(* Hosts share a counter exactly if they are of one allocation. *)
LEMMA CallersAreAllocations ==
    ASSUME NEW g \in Hosts, NEW h \in Hosts
    PROVE  g.allocation = h.allocation <=> CallerOf(g) = CallerOf(h)
<1>1. ASSUME NEW x \in Hosts
      PROVE  CallerOf(x) = IF x.family = "ipv6" THEN x.allocation
                           ELSE IF x.family = "ipv4" THEN x.address ELSE "unknown"
  BY HostsAssumption DEF CallerOf
<1>2. CASE g.family = h.family
  <2>1. CallerOf(g) = CallerOf(h) <=>
            CASE g.family = "ipv6" -> g.allocation = h.allocation
              [] g.family = "ipv4" -> g.address = h.address
              [] OTHER -> TRUE
    BY <1>1, <1>2
  <2> QED BY <1>2, <2>1, HostsAssumption
<1>3. CASE g.family # h.family
  <2>1. g.allocation # h.allocation /\ {g.allocation, g.address} \cap {h.allocation, h.address} = {}
    BY <1>3, HostsAssumption
  <2>2. CallerOf(g) # CallerOf(h)
    <3>1. \A x \in Hosts : CallerOf(x) \in {x.allocation, x.address} \/ CallerOf(x) = "unknown"
      BY <1>1
    <3>2. \A x \in Hosts : CallerOf(x) = "unknown" <=> x.family = "none"
      BY <1>1, HostsAssumption
    <3> QED BY <1>3, <2>1, <3>1, <3>2, HostsAssumption
  <2> QED BY <2>1, <2>2
<1> QED BY <1>2, <1>3

-----------------------------------------------------------------------------
(* Counting requests by their age. *)

LEMMA CountedMembers ==
    ASSUME NEW f, NEW lo, NEW hi, NEW p
    PROVE  p \in Counted(f, lo, hi) <=>
               \E age \in lo .. hi : \E n \in 1 .. f[age] : p = <<age, n>>
BY DEF Counted

LEMMA TotalType ==
    ASSUME NEW B \in Nat, NEW f \in [Ages -> 0 .. B],
           NEW lo \in Nat, NEW hi \in Int, hi < Window
    PROVE  /\ IsFiniteSet(Counted(f, lo, hi))
           /\ Total(f, lo, hi) \in Nat
<1>1. IsFiniteSet(Ages) /\ IsFiniteSet(1 .. B)
  BY FS_Interval, LimiterAssumption DEF Ages
<1>2. IsFiniteSet(Ages \X (1 .. B))
  BY <1>1, FS_Product
<1>3. Counted(f, lo, hi) \subseteq Ages \X (1 .. B)
  <2> SUFFICES ASSUME NEW p \in Counted(f, lo, hi)
               PROVE  p \in Ages \X (1 .. B)
    OBVIOUS
  <2>1. PICK age \in lo .. hi : \E n \in 1 .. f[age] : p = <<age, n>>
    BY CountedMembers
  <2>2. PICK n \in 1 .. f[age] : p = <<age, n>>
    BY <2>1
  <2>3. age \in Ages
    BY LimiterAssumption DEF Ages
  <2>4. n \in 1 .. B
    BY <2>3
  <2> QED BY <2>2, <2>3, <2>4
<1>4. IsFiniteSet(Counted(f, lo, hi))
  BY <1>2, <1>3, FS_Subset
<1> QED BY <1>4, FS_CardinalityType DEF Total

LEMMA TotalEmpty ==
    ASSUME NEW f, NEW lo \in Int, NEW hi \in Int, hi < lo
    PROVE  Total(f, lo, hi) = 0
<1>1. \A p : p \notin Counted(f, lo, hi)
  BY CountedMembers
<1>2. Counted(f, lo, hi) = {}
  BY <1>1
<1> QED BY <1>2, FS_EmptySet DEF Total

(* Of more ages there are at least as many. *)
LEMMA TotalMonotone ==
    ASSUME NEW B \in Nat, NEW f \in [Ages -> 0 .. B],
           NEW lo \in Nat, NEW hi \in Int, hi < Window,
           NEW l \in Nat, NEW m \in Int, lo <= l, m <= hi
    PROVE  Total(f, l, m) <= Total(f, lo, hi)
<1>1. \A p : p \in Counted(f, l, m) => p \in Counted(f, lo, hi)
  BY CountedMembers
<1>2. Counted(f, l, m) \in SUBSET Counted(f, lo, hi) /\ IsFiniteSet(Counted(f, lo, hi))
  BY <1>1, TotalType
<1> QED BY <1>2, FS_Subset DEF Total

(* Ages up to k and those beyond. *)
LEMMA TotalSplit ==
    ASSUME NEW B \in Nat, NEW f \in [Ages -> 0 .. B],
           NEW k \in Nat, k < Window
    PROVE  Total(f, 0, Window - 1) = Total(f, 0, k) + Total(f, k + 1, Window - 1)
<1> DEFINE S == Counted(f, 0, k)
           T == Counted(f, k + 1, Window - 1)
<1>1. Window \in Nat /\ \A age : age \in 0 .. Window - 1 <=> age \in 0 .. k \/ age \in k + 1 .. Window - 1
  BY LimiterAssumption
<1>2. Counted(f, 0, Window - 1) = S \cup T
  <2>1. \A p : p \in Counted(f, 0, Window - 1) <=> p \in S \/ p \in T
    BY <1>1, CountedMembers
  <2> QED BY <2>1
<1>3. S \cap T = {}
  <2> SUFFICES ASSUME NEW p \in S, p \in T
               PROVE  FALSE
    OBVIOUS
  <2>1. PICK age \in 0 .. k : \E n \in 1 .. f[age] : p = <<age, n>>
    BY CountedMembers
  <2>2. PICK old \in k + 1 .. Window - 1 : \E n \in 1 .. f[old] : p = <<old, n>>
    BY CountedMembers
  <2>3. age = old
    BY <2>1, <2>2
  <2> QED BY <2>3
<1>4. IsFiniteSet(S) /\ IsFiniteSet(T) /\ Cardinality(S) \in Nat /\ Cardinality(T) \in Nat
  BY <1>1, TotalType DEF Total
<1> HIDE DEF S, T
<1>5. IsFiniteSet(S \cap T) /\ Cardinality(S \cap T) = 0
  BY <1>3, FS_EmptySet
<1>6. Cardinality(S \cup T) = Cardinality(S) + Cardinality(T) - Cardinality(S \cap T)
  BY <1>4, FS_Union
<1>7. Cardinality(S \cup T) = Cardinality(S) + Cardinality(T)
  BY <1>4, <1>5, <1>6
<1> QED BY <1>2, <1>7 DEF Total, S, T

(* One more request in this tick. *)
LEMMA TotalOneMore ==
    ASSUME NEW B \in Nat, NEW f \in [Ages -> 0 .. B], NEW g,
           g[0] = f[0] + 1, \A age \in Ages \ {0} : g[age] = f[age],
           NEW lo \in Nat, NEW hi \in Int, hi < Window
    PROVE  Total(g, lo, hi) = IF lo = 0 /\ hi >= 0 THEN Total(f, lo, hi) + 1
                              ELSE Total(f, lo, hi)
<1> DEFINE x == <<0, f[0] + 1>>
<1>1. 0 \in Ages /\ lo .. hi \subseteq Ages /\ f[0] \in Nat /\ g[0] = f[0] + 1
      /\ \A age \in Ages : age # 0 => g[age] = f[age]
  BY LimiterAssumption DEF Ages
<1>2. IsFiniteSet(Counted(f, lo, hi)) /\ Total(f, lo, hi) \in Nat
  BY TotalType
<1>3. CASE lo = 0 /\ hi >= 0
  <2>0. 0 \in lo .. hi
    BY <1>3
  <2>1. \A n : n \in 1 .. g[0] <=> n \in 1 .. f[0] \/ n = f[0] + 1
    BY <1>1
  <2>2. \A p : p \in Counted(g, lo, hi) <=> p \in Counted(f, lo, hi) \/ p = x
    <3>1. ASSUME NEW p, p \in Counted(g, lo, hi)
          PROVE  p \in Counted(f, lo, hi) \/ p = x
      <4>1. PICK age \in lo .. hi : \E n \in 1 .. g[age] : p = <<age, n>>
        BY <3>1, CountedMembers
      <4>2. PICK n \in 1 .. g[age] : p = <<age, n>>
        BY <4>1
      <4>3. CASE age = 0
        BY <4>2, <4>3, <2>0, <2>1, CountedMembers
      <4>4. CASE age # 0
        <5>1. g[age] = f[age]
          BY <1>1, <4>4
        <5> QED BY <4>2, <5>1, CountedMembers
      <4> QED BY <4>3, <4>4
    <3>2. ASSUME NEW p, p \in Counted(f, lo, hi)
          PROVE  p \in Counted(g, lo, hi)
      <4>1. PICK age \in lo .. hi : \E n \in 1 .. f[age] : p = <<age, n>>
        BY <3>2, CountedMembers
      <4>2. PICK n \in 1 .. f[age] : p = <<age, n>>
        BY <4>1
      <4>3. n \in 1 .. g[age]
        BY <1>1, <2>1, <4>2
      <4> QED BY <4>2, <4>3, CountedMembers
    <3>3. x \in Counted(g, lo, hi)
      <4>1. f[0] + 1 \in 1 .. g[0]
        BY <1>1
      <4> QED BY <2>0, <4>1, CountedMembers
    <3> QED BY <3>1, <3>2, <3>3
  <2>3. x \notin Counted(f, lo, hi)
    <3> SUFFICES ASSUME x \in Counted(f, lo, hi)
                 PROVE  FALSE
      OBVIOUS
    <3>1. PICK age \in lo .. hi : \E n \in 1 .. f[age] : x = <<age, n>>
      BY CountedMembers
    <3>2. PICK n \in 1 .. f[age] : x = <<age, n>>
      BY <3>1
    <3>3. age = 0 /\ n = f[0] + 1
      BY <3>2
    <3> QED BY <1>1, <3>2, <3>3
  <2>4. Counted(g, lo, hi) = Counted(f, lo, hi) \cup {x}
    BY <2>2
  <2>5. Cardinality(Counted(f, lo, hi) \cup {x}) = Cardinality(Counted(f, lo, hi)) + 1
    BY <1>2, <2>3, FS_AddElement
  <2> QED BY <1>3, <2>4, <2>5 DEF Total
<1>4. CASE ~(lo = 0 /\ hi >= 0)
  <2>1. \A age \in lo .. hi : g[age] = f[age]
    BY <1>1, <1>4
  <2>2. \A p : p \in Counted(g, lo, hi) <=> p \in Counted(f, lo, hi)
    BY <2>1, CountedMembers
  <2>3. Counted(g, lo, hi) = Counted(f, lo, hi)
    BY <2>2
  <2> QED BY <1>4, <2>3 DEF Total
<1> QED BY <1>3, <1>4

(* A tick later every request is one tick older, and none is new. *)
LEMMA TotalShift ==
    ASSUME NEW B \in Nat, NEW f \in [Ages -> 0 .. B], NEW g,
           g[0] = 0, \A age \in Ages \ {0} : g[age] = f[age - 1],
           NEW lo \in Nat, NEW hi \in Int, hi + 1 < Window
    PROVE  /\ Total(g, lo + 1, hi + 1) = Total(f, lo, hi)
           /\ lo = 0 => Total(g, 0, hi + 1) = Total(f, 0, hi)
<1> DEFINE S == Counted(f, lo, hi)
           T == Counted(g, lo + 1, hi + 1)
           Move == [p \in S |-> <<p[1] + 1, p[2]>>]
<1>1. /\ \A age \in lo .. hi : age \in Ages /\ age + 1 \in lo + 1 .. hi + 1
                               /\ age + 1 \in Ages /\ g[age + 1] = f[age]
      /\ \A age \in lo + 1 .. hi + 1 : age - 1 \in lo .. hi /\ age - 1 \in Int
                                       /\ (age - 1) + 1 = age
  <2>1. ASSUME NEW age \in lo .. hi
        PROVE  age \in Ages /\ age + 1 \in lo + 1 .. hi + 1
               /\ age + 1 \in Ages /\ age + 1 # 0 /\ (age + 1) - 1 = age
    BY LimiterAssumption DEF Ages
  <2>2. ASSUME NEW age \in lo + 1 .. hi + 1
        PROVE  age - 1 \in lo .. hi /\ age - 1 \in Int /\ (age - 1) + 1 = age
    OBVIOUS
  <2> QED BY <2>1, <2>2
<1>2. ASSUME NEW p \in S
      PROVE  \E age \in lo .. hi : \E n \in 1 .. f[age] :
                 p = <<age, n>> /\ Move[p] = <<age + 1, n>> /\ Move[p] \in T
  <2>1. PICK age \in lo .. hi : \E n \in 1 .. f[age] : p = <<age, n>>
    BY CountedMembers
  <2>2. PICK n \in 1 .. f[age] : p = <<age, n>>
    BY <2>1
  <2>3. Move[p] = <<age + 1, n>>
    BY <2>2
  <2>4. age + 1 \in lo + 1 .. hi + 1 /\ n \in 1 .. g[age + 1]
    BY <1>1
  <2>5. <<age + 1, n>> \in T
    BY <2>4, CountedMembers
  <2> QED BY <2>2, <2>3, <2>5
<1>3. ASSUME NEW q \in T
      PROVE  \E p \in S : Move[p] = q
  <2>1. PICK age \in lo + 1 .. hi + 1 : \E n \in 1 .. g[age] : q = <<age, n>>
    BY CountedMembers
  <2>2. PICK n \in 1 .. g[age] : q = <<age, n>>
    BY <2>1
  <2>3. PICK a \in lo .. hi : a + 1 = age
    BY <1>1
  <2>4. n \in 1 .. f[a]
    BY <1>1, <2>2, <2>3
  <2>5. <<a, n>> \in S
    BY <2>4, CountedMembers
  <2>6. Move[<<a, n>>] = q
    BY <2>2, <2>3, <2>5
  <2> QED BY <2>5, <2>6
<1>4. IsFiniteSet(S)
  <2>1. hi < Window
    BY LimiterAssumption
  <2> QED BY <2>1, TotalType
<1>5. Move \in [S -> T]
  BY <1>2
<1>6. \A p, q \in S : Move[p] = Move[q] => p = q
  <2> SUFFICES ASSUME NEW p \in S, NEW q \in S, Move[p] = Move[q]
               PROVE  p = q
    OBVIOUS
  <2>1. PICK a \in lo .. hi : \E n \in 1 .. f[a] : p = <<a, n>> /\ Move[p] = <<a + 1, n>>
    BY <1>2
  <2>2. PICK b \in lo .. hi : \E n \in 1 .. f[b] : q = <<b, n>> /\ Move[q] = <<b + 1, n>>
    BY <1>2
  <2>3. a + 1 = b + 1
    BY <2>1, <2>2
  <2>4. a = b
    BY <2>3
  <2> QED BY <2>1, <2>2, <2>4
<1> HIDE DEF S, T, Move
<1>7. Move \in Bijection(S, T)
  BY <1>3, <1>5, <1>6, Fun_IsBij
<1>8. Cardinality(T) = Cardinality(S)
  <2>1. ExistsBijection(S, T)
    BY <1>7, Fun_ExistsBij
  <2> QED BY <1>4, <2>1, FS_Bijection
<1>9. Total(g, lo + 1, hi + 1) = Total(f, lo, hi)
  BY <1>8 DEF Total, S, T
<1>10. ASSUME lo = 0
       PROVE  Total(g, 0, hi + 1) = Total(g, 1, hi + 1)
  <2>1. ASSUME NEW p, p \in Counted(g, 0, hi + 1)
        PROVE  p \in Counted(g, 1, hi + 1)
    <3>1. PICK age \in 0 .. hi + 1 : \E n \in 1 .. g[age] : p = <<age, n>>
      BY <2>1, CountedMembers
    <3>2. PICK n \in 1 .. g[age] : p = <<age, n>>
      BY <3>1
    <3>3. age # 0
      <4>1. 0 \in Ages
        BY LimiterAssumption DEF Ages
      <4>2. g[0] = 0
        BY <4>1
      <4> QED BY <3>2, <4>2
    <3>4. age \in 1 .. hi + 1
      BY <3>3
    <3> QED BY <3>2, <3>4, CountedMembers
  <2>2. ASSUME NEW p, p \in Counted(g, 1, hi + 1)
        PROVE  p \in Counted(g, 0, hi + 1)
    <3>1. PICK age \in 1 .. hi + 1 : \E n \in 1 .. g[age] : p = <<age, n>>
      BY <2>2, CountedMembers
    <3>2. age \in 0 .. hi + 1
      OBVIOUS
    <3> QED BY <3>1, <3>2, CountedMembers
  <2>3. Counted(g, 0, hi + 1) = Counted(g, 1, hi + 1)
    BY <2>1, <2>2
  <2> QED BY <2>3 DEF Total
<1> QED BY <1>9, <1>10

(* The same, with the ages it is used at. *)
LEMMA TotalLater ==
    ASSUME NEW B \in Nat, NEW f \in [Ages -> 0 .. B], NEW g,
           g[0] = 0, \A age \in Ages \ {0} : g[age] = f[age - 1],
           NEW lo \in Nat, NEW hi \in Int, NEW l \in Nat, NEW m \in Int,
           l = lo + 1, m = hi + 1, m < Window
    PROVE  Total(g, l, m) = Total(f, lo, hi)
<1>1. hi + 1 < Window
  OBVIOUS
<1>2. Total(g, lo + 1, hi + 1) = Total(f, lo, hi)
  BY <1>1, TotalShift
<1> QED BY <1>2

LEMMA TotalLaterFromNow ==
    ASSUME NEW B \in Nat, NEW f \in [Ages -> 0 .. B], NEW g,
           g[0] = 0, \A age \in Ages \ {0} : g[age] = f[age - 1],
           NEW hi \in Int, NEW m \in Int, m = hi + 1, m < Window
    PROVE  Total(g, 0, m) = Total(f, 0, hi)
<1>1. hi + 1 < Window /\ 0 \in Nat
  OBVIOUS
<1>2. 0 = 0 => Total(g, 0, hi + 1) = Total(f, 0, hi)
  BY <1>1, TotalShift
<1> QED BY <1>2

(* What was counted in this tick is part of the total. *)
LEMMA TotalOfThisTick ==
    ASSUME NEW B \in Nat, NEW f \in [Ages -> 0 .. B], NEW hi \in Nat, hi < Window
    PROVE  f[0] <= Total(f, 0, hi)
<1> DEFINE S == 1 .. f[0]
           Tag == [n \in S |-> <<0, n>>]
<1>1. 0 \in Ages /\ f[0] \in Nat
  BY LimiterAssumption DEF Ages
<1>2. Tag \in [S -> Counted(f, 0, hi)]
  BY CountedMembers
<1>3. \A m, n \in S : Tag[m] = Tag[n] => m = n
  OBVIOUS
<1>4. IsFiniteSet(Counted(f, 0, hi)) /\ Total(f, 0, hi) \in Nat
  BY TotalType
<1>5. Cardinality(S) = f[0]
  <2>1. 1 \in Int /\ f[0] \in Int
    BY <1>1
  <2>2. Cardinality(1 .. f[0]) = IF 1 > f[0] THEN 0 ELSE f[0] - 1 + 1
    BY <2>1, FS_Interval, Zenon
  <2> QED BY <1>1, <2>2
<1> HIDE DEF S, Tag
<1>6. Tag \in Injection(S, Counted(f, 0, hi))
  BY <1>2, <1>3, Fun_IsInj
<1>7. Cardinality(S) <= Cardinality(Counted(f, 0, hi))
  BY <1>4, <1>6, FS_Injection
<1> QED BY <1>5, <1>7 DEF Total

-----------------------------------------------------------------------------
(* What a hit and a tick do to one counter and its histories. *)

LEMMA SoundAges ==
    ASSUME NEW t \in 0 .. Window, t # 0
    PROVE  /\ Window - t \in Nat /\ Window - t < Window /\ Window - t - 1 \in Int
           /\ Window - t - 1 < Window /\ Window - t + 1 \in Nat
           /\ Window - 1 \in Nat /\ Window - 1 < Window
BY LimiterAssumption

(* A request more was tried, and the counter moved by at most one. *)
LEMMA TriedBacks ==
    ASSUME NEW n \in 0 .. MaxHits, NEW k \in Nat, k < Window,
           NEW u \in [Ages -> 0 .. MaxHits], CounterIsBacked(n, k, u),
           NEW v, v[0] = More(u[0]), \A age \in Ages \ {0} : v[age] = u[age],
           NEW m \in {n, More(n)}
    PROVE  CounterIsBacked(m, k, v)
<1>1. 0 \in Ages /\ u[0] \in 0 .. MaxHits /\ MaxHits \in Nat /\ MaxHits > 0
  BY LimiterAssumption DEF Ages
<1>2. Total(u, 0, k) \in Nat
  BY <1>1, TotalType
<1>3. n <= Total(u, 0, k)
  BY <1>2 DEF CounterIsBacked
<1>4. CASE u[0] < MaxHits
  <2>1. v[0] = u[0] + 1
    BY <1>4 DEF More
  <2>2. Total(v, 0, k) = Total(u, 0, k) + 1
    BY <1>1, <2>1, TotalOneMore
  <2>3. m <= n + 1
    BY DEF More
  <2>4. m <= Total(v, 0, k)
    BY <1>2, <1>3, <2>2, <2>3 DEF More
  <2> QED BY <2>4 DEF CounterIsBacked
<1>5. CASE ~(u[0] < MaxHits)
  <2>1. u[0] = MaxHits /\ v[0] = u[0]
    BY <1>1, <1>5 DEF More
  <2>2. \A p : p \in Counted(v, 0, k) <=> p \in Counted(u, 0, k)
    <3>1. \A age \in 0 .. k : v[age] = u[age]
      <4>1. \A age \in 0 .. k : age \in Ages
        BY LimiterAssumption DEF Ages
      <4> QED BY <2>1, <4>1
    <3> QED BY <3>1, CountedMembers
  <2>3. Counted(v, 0, k) = Counted(u, 0, k)
    BY <2>2
  <2>4. u[0] <= Total(u, 0, k)
    BY <1>1, TotalOfThisTick
  <2>5. m <= MaxHits
    BY <1>1 DEF More
  <2>6. m <= Total(v, 0, k)
    BY <1>1, <1>2, <2>1, <2>3, <2>4, <2>5 DEF Total, More
  <2> QED BY <2>6 DEF CounterIsBacked
<1> QED BY <1>4, <1>5

(* The hit was not counted: the script did not run. *)
LEMMA SoundUncounted ==
    ASSUME NEW n \in 0 .. MaxHits, NEW t \in 0 .. Window,
           NEW f \in [Ages -> 0 .. Limit], NEW u \in [Ages -> 0 .. MaxHits],
           Sound(n, t, f, u),
           NEW v, v[0] = More(u[0]), \A age \in Ages \ {0} : v[age] = u[age]
    PROVE  Sound(n, t, f, v)
<1>1. CASE n = 0
  BY <1>1 DEF Sound, CounterIsBacked
<1>2. CASE n # 0
  <2>1. t # 0
    BY <1>2 DEF Sound, CounterExpires
  <2>2. CounterIsBacked(n, Window - t, v)
    BY <2>1, SoundAges, TriedBacks DEF Sound
  <2> QED BY <2>2 DEF Sound
<1> QED BY <1>1, <1>2

(* The hit was counted, and let through (d = 1) or not (d = 0). *)
LEMMA SoundCounted ==
    ASSUME NEW n \in 0 .. MaxHits, NEW t \in 0 .. Window,
           NEW f \in [Ages -> 0 .. Limit], NEW u \in [Ages -> 0 .. MaxHits],
           Sound(n, t, f, u),
           NEW v, v[0] = More(u[0]), \A age \in Ages \ {0} : v[age] = u[age],
           NEW d \in {0, 1}, d = 1 => n < Limit,
           NEW g, g[0] = f[0] + d, \A age \in Ages \ {0} : g[age] = f[age]
    PROVE  /\ Sound(More(n), IF n = 0 THEN Window ELSE t, g, v)
           /\ g[0] \in 0 .. Limit
<1> DEFINE s == IF n = 0 THEN Window ELSE t
           k == Window - s
           m == More(n)
<1>1. 0 \in Ages /\ f[0] \in 0 .. Limit /\ Limit \in Nat \ {0} /\ Window \in Nat \ {0}
      /\ MaxHits \in Nat /\ MaxHits > Limit
  BY LimiterAssumption DEF Ages
<1>2. /\ m \in 1 .. MaxHits /\ n <= m /\ (n < Limit => m = n + 1)
      /\ s \in 0 .. Window /\ s # 0
  BY <1>1 DEF More, Sound, CounterExpires
<1>3. /\ k \in Nat /\ k < Window /\ k - 1 \in Int /\ k - 1 < Window /\ k + 1 \in Nat
      /\ Window - 1 \in Nat /\ Window - 1 < Window
  BY <1>2, SoundAges
<1>4. /\ Total(f, 0, k) \in Nat /\ Total(f, 0, k - 1) \in Nat
      /\ Total(f, k + 1, Window - 1) \in Nat /\ Total(f, 0, Window - 1) \in Nat
  BY <1>1, <1>3, TotalType
<1>5. /\ Total(g, 0, k) = Total(f, 0, k) + d
      /\ Total(g, 0, k - 1) = IF k - 1 >= 0 THEN Total(f, 0, k - 1) + d ELSE Total(f, 0, k - 1)
      /\ Total(g, k + 1, Window - 1) = Total(f, k + 1, Window - 1)
  <2>1. CASE d = 1
    <3>1. Total(g, 0, k) = IF 0 = 0 /\ k >= 0 THEN Total(f, 0, k) + 1 ELSE Total(f, 0, k)
      BY <1>1, <1>3, <2>1, TotalOneMore
    <3>2. Total(g, 0, k - 1) = IF 0 = 0 /\ k - 1 >= 0 THEN Total(f, 0, k - 1) + 1
                               ELSE Total(f, 0, k - 1)
      BY <1>1, <1>3, <2>1, TotalOneMore
    <3>3. Total(g, k + 1, Window - 1)
              = IF k + 1 = 0 /\ Window - 1 >= 0 THEN Total(f, k + 1, Window - 1) + 1
                ELSE Total(f, k + 1, Window - 1)
      BY <1>1, <1>3, <2>1, TotalOneMore
    <3> QED BY <1>3, <2>1, <3>1, <3>2, <3>3
  <2>2. CASE d = 0
    <3>1. g[0] = f[0]
      BY <1>1, <2>2
    <3>2. ASSUME NEW lo \in Nat, NEW hi \in Int, hi < Window
          PROVE  Total(g, lo, hi) = Total(f, lo, hi)
      <4>1. \A age \in lo .. hi : g[age] = f[age]
        BY <1>1, <3>1, <3>2 DEF Ages
      <4>2. \A p : p \in Counted(g, lo, hi) <=> p \in Counted(f, lo, hi)
        BY <4>1, CountedMembers
      <4>3. Counted(g, lo, hi) = Counted(f, lo, hi)
        BY <4>2
      <4> QED BY <4>3 DEF Total
    <3> QED BY <1>3, <1>4, <2>2, <3>2
  <2> QED BY <2>1, <2>2
<1>6. /\ n = 0 => Total(f, 0, k) = 0 /\ k = 0
      /\ n = 0 => Total(f, k + 1, Window - 1) <= Limit - 1
  <2>1. ASSUME n = 0
        PROVE  Total(f, 0, k) = 0 /\ k = 0
    <3>1. k = 0 /\ f[0] = 0
      BY <1>1, <2>1 DEF Sound, ThisTickIsCounted
    <3>2. \A p : p \notin Counted(f, 0, 0)
      BY <3>1, CountedMembers
    <3>3. Counted(f, 0, 0) = {}
      BY <3>2
    <3> QED BY <3>1, <3>3, FS_EmptySet DEF Total
  <2>2. ASSUME n = 0
        PROVE  Total(f, k + 1, Window - 1) <= Limit - 1
    <3>1. Total(f, k + 1, Window - 1) <= Total(f, 0, Window - 1)
      BY <1>1, <1>3, TotalMonotone
    <3>2. Total(f, 0, Window - 1) <= Limit - 1
      BY <2>2 DEF Sound, BetweenWindows
    <3> QED BY <1>1, <1>4, <3>1, <3>2
  <2> QED BY <2>1, <2>2
<1>7. n > 0 => /\ k = Window - t
               /\ Total(f, 0, k) <= n /\ Total(f, 0, k) <= Limit
               /\ Total(f, 0, k - 1) <= n - 1 /\ Total(f, 0, k - 1) <= Limit - 1
               /\ Total(f, k + 1, Window - 1) <= Limit - 1
  BY DEF Sound, InWindow
<1>8. Total(f, 0, -1) = 0
  BY TotalEmpty
<1>9. CounterIsBacked(m, k, v)
  <2>1. CASE n > 0
    <3>1. CounterIsBacked(n, k, u)
      BY <1>7, <2>1 DEF Sound
    <3> QED BY <1>3, <3>1, TriedBacks
  <2>2. CASE n = 0
    <3>1. CounterIsBacked(n, k, u)
      BY <2>2 DEF CounterIsBacked
    <3> QED BY <1>3, <3>1, TriedBacks
  <2> QED BY <2>1, <2>2
<1> HIDE DEF s, k, m
<1>10. f[0] <= n
  BY DEF Sound, ThisTickIsCounted
<1>11. g[0] <= m /\ g[0] \in 0 .. Limit
  BY <1>1, <1>2, <1>10
<1>12. InWindow(m, k, g)
  <2>1. CASE n = 0
    <3>1. /\ Total(g, 0, k) = d /\ Total(g, 0, k - 1) = 0 /\ k = 0
          /\ Total(g, k + 1, Window - 1) <= Limit - 1
      BY <1>4, <1>5, <1>6, <1>8, <2>1
    <3> QED BY <1>1, <1>2, <3>1 DEF InWindow
  <2>2. CASE n # 0
    <3>1. /\ Total(g, 0, k) <= m /\ Total(g, 0, k) <= Limit
          /\ Total(g, k + 1, Window - 1) <= Limit - 1
      BY <1>1, <1>2, <1>4, <1>5, <1>7, <2>2
    <3>2. Total(g, 0, k - 1) <= m - 1 /\ Total(g, 0, k - 1) <= Limit - 1
      BY <1>1, <1>2, <1>4, <1>5, <1>7, <2>2
    <3> QED BY <3>1, <3>2 DEF InWindow
  <2> QED BY <2>1, <2>2
<1>13. CounterExpires(m, s) /\ BetweenWindows(m, g)
  BY <1>2 DEF CounterExpires, BetweenWindows
<1>14. Sound(m, s, g, v)
  BY <1>9, <1>11, <1>12, <1>13 DEF Sound, ThisTickIsCounted, k
<1> QED BY <1>11, <1>14 DEF s, m

(* A tick passes. *)
LEMMA SoundLater ==
    ASSUME NEW n \in 0 .. MaxHits, NEW t \in 0 .. Window,
           NEW f \in [Ages -> 0 .. Limit], NEW u \in [Ages -> 0 .. MaxHits],
           Sound(n, t, f, u),
           NEW g, g[0] = 0, \A age \in Ages \ {0} : g[age] = f[age - 1],
           NEW v, v[0] = 0, \A age \in Ages \ {0} : v[age] = u[age - 1],
           g \in [Ages -> 0 .. Limit]
    PROVE  Sound(IF t = 1 THEN 0 ELSE n, IF t = 0 THEN 0 ELSE t - 1, g, v)
<1> DEFINE k == Window - t
           w == Window - 1
<1>1. /\ Limit \in Nat \ {0} /\ Window \in Nat \ {0} /\ MaxHits \in Nat
      /\ w \in Nat /\ w < Window /\ w - 1 \in Int /\ (w - 1) + 1 = w /\ w - 1 < Window
      /\ 0 + 1 = 1
  BY LimiterAssumption
<1>2. CounterExpires(n, t)
  BY DEF Sound
<1>f. \A x \in Int, m \in Int : m = x + 1 /\ m < Window => Total(g, 0, m) = Total(f, 0, x)
  BY <1>1, TotalLaterFromNow
<1>u. \A x \in Int, m \in Int : m = x + 1 /\ m < Window => Total(v, 0, m) = Total(u, 0, x)
  BY <1>1, TotalLaterFromNow
<1>o. \A y \in Nat, x \in Int, z \in Nat, m \in Int :
          z = y + 1 /\ m = x + 1 /\ m < Window => Total(g, z, m) = Total(f, y, x)
  <2> SUFFICES ASSUME NEW y \in Nat, NEW x \in Int, NEW z \in Nat, NEW m \in Int,
                      z = y + 1, m = x + 1, m < Window
               PROVE  Total(g, z, m) = Total(f, y, x)
    OBVIOUS
  <2>1. Limit \in Nat
    BY <1>1
  <2> HIDE DEF k, w
  <2> QED BY <2>1, TotalLater, SMTT(20)
<1>3. CASE t <= 1
  <2>1. Total(g, 0, w) = Total(f, 0, w - 1)
    <3>1. PICK x \in Int : x = w - 1 /\ w = x + 1
      BY <1>1
    <3>2. w \in Int /\ w < Window /\ Limit \in Nat
      BY <1>1
    <3> HIDE DEF w
    <3>3. Total(g, 0, w) = Total(f, 0, x)
      BY <3>1, <3>2, <1>f
    <3> QED BY <3>1, <3>3
  <2>2. Total(f, 0, w - 1) <= Limit - 1
    <3>1. CASE t = 0
      <4>1. Total(f, 0, w) <= Limit - 1
        BY <1>2, <3>1 DEF Sound, CounterExpires, BetweenWindows
      <4>2. Total(f, 0, w - 1) <= Total(f, 0, w)
        BY <1>1, TotalMonotone
      <4>3. Total(f, 0, w - 1) \in Nat /\ Total(f, 0, w) \in Nat
        BY <1>1, TotalType
      <4> QED BY <1>1, <4>1, <4>2, <4>3
    <3>2. CASE t = 1
      <4>1. InWindow(n, Window - 1, f) /\ n > 0
        BY <1>2, <3>2 DEF Sound, CounterExpires
      <4> QED BY <4>1 DEF InWindow
    <3> QED BY <1>3, <3>1, <3>2
  <2>3. BetweenWindows(0, g)
    BY <2>1, <2>2 DEF BetweenWindows
  <2>4. (IF t = 1 THEN 0 ELSE n) = 0 /\ (IF t = 0 THEN 0 ELSE t - 1) = 0
    BY <1>2, <1>3 DEF CounterExpires
  <2>5. Sound(0, 0, g, v)
    BY <2>3 DEF Sound, CounterExpires, ThisTickIsCounted, InWindow, CounterIsBacked
  <2> QED BY <2>4, <2>5
<1>4. CASE t > 1
  <2>1. /\ n > 0 /\ n \in Nat /\ k \in Nat /\ k + 1 \in Nat /\ k + 1 <= w /\ k + 1 < Window
        /\ k < Window /\ k - 1 \in Int /\ (k - 1) + 1 = k /\ k - 1 < Window
        /\ (k + 1) - 1 = k /\ Window - (t - 1) = k + 1 /\ t - 1 # 0
    BY <1>1, <1>2, <1>4 DEF CounterExpires
  <2>2. InWindow(n, k, f) /\ CounterIsBacked(n, k, u)
    BY DEF Sound
  <2> HIDE DEF k, w
  <2>3. Total(g, 0, k + 1) = Total(f, 0, k) /\ Total(v, 0, k + 1) = Total(u, 0, k)
    <3>1. Limit \in Nat /\ MaxHits \in Nat /\ k \in Int /\ k + 1 \in Int /\ k + 1 < Window
      BY <1>1, <2>1
    <3>2. Total(g, 0, k + 1) = Total(f, 0, k)
      BY <3>1, <1>f
    <3>3. Total(v, 0, k + 1) = Total(u, 0, k)
      BY <3>1, <1>u
    <3> QED BY <3>2, <3>3
  <2>4. Total(g, 0, k) = Total(f, 0, k - 1)
    <3>1. PICK x \in Int : x = k - 1 /\ k = x + 1
      BY <2>1
    <3>2. k \in Int /\ k < Window /\ Limit \in Nat
      BY <1>1, <2>1
    <3>3. Total(g, 0, k) = Total(f, 0, x)
      BY <3>1, <3>2, <1>f
    <3> QED BY <3>1, <3>3
  <2>5. Total(g, (k + 1) + 1, w) <= Limit - 1
    <3>1. PICK x \in Int, y \in Nat, z \in Nat :
              x = w - 1 /\ w = x + 1 /\ y = k + 1 /\ z = y + 1
      BY <1>1, <2>1
    <3>2. w \in Int /\ w < Window /\ x < Window /\ x <= w /\ y <= y /\ Limit \in Nat
      BY <1>1, <3>1
    <3>3. Total(g, z, w) = Total(f, y, x)
      BY <3>1, <3>2, <1>o
    <3>4. Total(f, y, x) <= Total(f, y, w)
      BY <3>2, TotalMonotone
    <3>5. Total(f, y, x) \in Nat /\ Total(f, y, w) \in Nat
      BY <3>2, TotalType
    <3>6. Total(f, y, w) <= Limit - 1
      BY <2>1, <2>2, <3>1 DEF InWindow, w
    <3>7. Total(g, z, w) <= Limit - 1
      BY <3>2, <3>3, <3>4, <3>5, <3>6
    <3> QED BY <3>1, <3>7
  <2>6. InWindow(n, k + 1, g)
    BY <2>1, <2>2, <2>3, <2>4, <2>5 DEF InWindow, w
  <2>7. CounterIsBacked(n, k + 1, v)
    BY <2>2, <2>3 DEF CounterIsBacked
  <2>8. Sound(n, t - 1, g, v)
    BY <2>1, <2>6, <2>7 DEF Sound, CounterExpires, ThisTickIsCounted, BetweenWindows
  <2> QED BY <1>4, <2>8
<1> QED BY <1>3, <1>4

-----------------------------------------------------------------------------
(* The steps *)

LEMMA HostsHave ==
    ASSUME TypeOK, NEW h \in Hosts
    PROVE  /\ CallerOf(h) \in Callers /\ h.allocation \in Allocations
           /\ hits[CallerOf(h)] \in 0 .. MaxHits /\ ttl[CallerOf(h)] \in 0 .. Window
           /\ admitted[h.allocation] \in [Ages -> 0 .. Limit]
           /\ tried[h.allocation] \in [Ages -> 0 .. MaxHits]
           /\ 0 \in Ages
BY LimiterAssumption DEF TypeOK, Callers, Allocations, Ages

(* The history of what was tried, after one more request. *)
LEMMA TryDoes ==
    ASSUME TypeOK, NEW h \in Hosts, Try(h)
    PROVE  /\ tried' \in [Allocations -> [Ages -> 0 .. MaxHits]]
           /\ tried'[h.allocation][0] = More(tried[h.allocation][0])
           /\ \A age \in Ages \ {0} : tried'[h.allocation][age] = tried[h.allocation][age]
           /\ \A a \in Allocations \ {h.allocation} : tried'[a] = tried[a]
<1> DEFINE a == h.allocation
           e == [tried[a] EXCEPT ![0] = More(tried[a][0])]
<1>1. a \in Allocations /\ tried[a] \in [Ages -> 0 .. MaxHits] /\ 0 \in Ages
  BY HostsHave
<1>2. More(tried[a][0]) \in 0 .. MaxHits
  BY <1>1, LimiterAssumption DEF More
<1>3. e \in [Ages -> 0 .. MaxHits] /\ e[0] = More(tried[a][0])
      /\ \A age \in Ages \ {0} : e[age] = tried[a][age]
  BY <1>1, <1>2
<1>4. tried' = [tried EXCEPT ![a] = e]
  BY DEF Try
<1> HIDE DEF e
<1>5. tried \in [Allocations -> [Ages -> 0 .. MaxHits]]
  BY DEF TypeOK
<1> QED BY <1>1, <1>3, <1>4, <1>5

(* The history of what was let through, after d more. *)
LEMMA AdmitDoes ==
    ASSUME TypeOK, NEW h \in Hosts, NEW d \in {0, 1},
           IF d = 1 THEN Admit(h) ELSE UNCHANGED admitted
    PROVE  /\ admitted'[h.allocation][0] = admitted[h.allocation][0] + d
           /\ \A age \in Ages \ {0} : admitted'[h.allocation][age] = admitted[h.allocation][age]
           /\ \A a \in Allocations \ {h.allocation} : admitted'[a] = admitted[a]
           /\ admitted'[h.allocation][0] \in 0 .. Limit
                 => admitted' \in [Allocations -> [Ages -> 0 .. Limit]]
<1> DEFINE a == h.allocation
           e == [admitted[a] EXCEPT ![0] = admitted[a][0] + 1]
<1>1. a \in Allocations /\ admitted[a] \in [Ages -> 0 .. Limit] /\ 0 \in Ages
      /\ admitted \in [Allocations -> [Ages -> 0 .. Limit]]
  BY HostsHave DEF TypeOK
<1>2. CASE d = 1
  <2>1. e[0] = admitted[a][0] + 1 /\ \A age \in Ages \ {0} : e[age] = admitted[a][age]
    BY <1>1
  <2>e. e[0] \in 0 .. Limit => e \in [Ages -> 0 .. Limit]
    BY <1>1
  <2>2. admitted' = [admitted EXCEPT ![a] = e]
    BY <1>2 DEF Admit
  <2> HIDE DEF e
  <2>3. admitted'[a] = e /\ \A b \in Allocations \ {a} : admitted'[b] = admitted[b]
    BY <1>1, <2>2
  <2>4. e \in [Ages -> 0 .. Limit] => admitted' \in [Allocations -> [Ages -> 0 .. Limit]]
    BY <1>1, <2>2
  <2>5. admitted'[a][0] = admitted[a][0] + d
    BY <1>2, <2>1, <2>3
  <2>6. \A age \in Ages \ {0} : admitted'[a][age] = admitted[a][age]
    BY <2>1, <2>3
  <2>7. admitted'[a][0] \in 0 .. Limit
            => admitted' \in [Allocations -> [Ages -> 0 .. Limit]]
    <3>1. admitted'[a][0] = e[0]
      BY <2>3
    <3>2. e[0] \in 0 .. Limit => admitted' \in [Allocations -> [Ages -> 0 .. Limit]]
      BY <2>e, <2>4, Zenon
    <3> QED BY <3>1, <3>2, Zenon
  <2> QED BY <2>3, <2>5, <2>6, <2>7
<1>3. CASE d = 0
  <2>1. admitted[a][0] + 0 = admitted[a][0]
    BY <1>1, LimiterAssumption
  <2> QED BY <1>1, <1>3, <2>1
<1> QED BY <1>2, <1>3

LEMMA CountDoes ==
    ASSUME TypeOK, NEW h \in Hosts, Count(CallerOf(h))
    PROVE  /\ hits' \in [Callers -> 0 .. MaxHits] /\ ttl' \in [Callers -> 0 .. Window]
           /\ hits'[CallerOf(h)] = More(hits[CallerOf(h)])
           /\ ttl'[CallerOf(h)] = IF hits[CallerOf(h)] = 0 THEN Window ELSE ttl[CallerOf(h)]
           /\ \A c \in Callers \ {CallerOf(h)} : hits'[c] = hits[c] /\ ttl'[c] = ttl[c]
<1>1. CallerOf(h) \in Callers /\ hits[CallerOf(h)] \in 0 .. MaxHits
      /\ ttl[CallerOf(h)] \in 0 .. Window
  BY HostsHave
<1>2. More(hits[CallerOf(h)]) \in 0 .. MaxHits
      /\ (IF hits[CallerOf(h)] = 0 THEN Window ELSE ttl[CallerOf(h)]) \in 0 .. Window
  BY <1>1, LimiterAssumption DEF More
<1> QED BY <1>1, <1>2 DEF Count, TypeOK

(* Hosts with another counter are of another allocation. *)
LEMMA OthersStay ==
    ASSUME IInv, NEW h \in Hosts, NEW g \in Hosts, CallerOf(g) # CallerOf(h),
           \A c \in Callers \ {CallerOf(h)} : hits'[c] = hits[c] /\ ttl'[c] = ttl[c],
           \A a \in Allocations \ {h.allocation} : admitted'[a] = admitted[a] /\ tried'[a] = tried[a]
    PROVE  Sound(hits'[CallerOf(g)], ttl'[CallerOf(g)],
                 admitted'[g.allocation], tried'[g.allocation])
<1>1. g.allocation # h.allocation
  BY CallersAreAllocations
<1>2. CallerOf(g) \in Callers \ {CallerOf(h)} /\ g.allocation \in Allocations \ {h.allocation}
  BY <1>1, HostsHave DEF IInv
<1> QED BY <1>2 DEF IInv

(* A hit that counts and lets d requests through. *)
LEMMA HitKeeps ==
    ASSUME IInv, NEW h \in Hosts, Count(CallerOf(h)), Try(h),
           NEW d \in {0, 1}, d = 1 => hits[CallerOf(h)] < Limit,
           IF d = 1 THEN Admit(h) ELSE UNCHANGED admitted
    PROVE  IInv'
<1> DEFINE c == CallerOf(h)
           a == h.allocation
<1>1. TypeOK /\ Sound(hits[c], ttl[c], admitted[a], tried[a])
  BY DEF IInv
<1>2. /\ tried' \in [Allocations -> [Ages -> 0 .. MaxHits]]
      /\ tried'[a][0] = More(tried[a][0])
      /\ \A age \in Ages \ {0} : tried'[a][age] = tried[a][age]
      /\ \A b \in Allocations \ {a} : tried'[b] = tried[b]
  BY <1>1, TryDoes
<1>3. /\ admitted'[a][0] = admitted[a][0] + d
      /\ \A age \in Ages \ {0} : admitted'[a][age] = admitted[a][age]
      /\ \A b \in Allocations \ {a} : admitted'[b] = admitted[b]
      /\ admitted'[a][0] \in 0 .. Limit => admitted' \in [Allocations -> [Ages -> 0 .. Limit]]
  BY <1>1, AdmitDoes
<1>4. /\ hits' \in [Callers -> 0 .. MaxHits] /\ ttl' \in [Callers -> 0 .. Window]
      /\ hits'[c] = More(hits[c])
      /\ ttl'[c] = IF hits[c] = 0 THEN Window ELSE ttl[c]
      /\ \A b \in Callers \ {c} : hits'[b] = hits[b] /\ ttl'[b] = ttl[b]
  BY <1>1, CountDoes
<1>5. /\ Sound(More(hits[c]), IF hits[c] = 0 THEN Window ELSE ttl[c], admitted'[a], tried'[a])
      /\ admitted'[a][0] \in 0 .. Limit
  <2>1. /\ hits[c] \in 0 .. MaxHits /\ ttl[c] \in 0 .. Window
        /\ admitted[a] \in [Ages -> 0 .. Limit] /\ tried[a] \in [Ages -> 0 .. MaxHits]
    BY <1>1, HostsHave
  <2>2. d = 1 => hits[c] < Limit
    OBVIOUS
  <2> HIDE DEF c, a
  <2>3. PICK n \in 0 .. MaxHits, s \in 0 .. Window, f \in [Ages -> 0 .. Limit],
             u \in [Ages -> 0 .. MaxHits] :
            n = hits[c] /\ s = ttl[c] /\ f = admitted[a] /\ u = tried[a]
    BY <2>1
  <2>4. PICK g, v : g = admitted'[a] /\ v = tried'[a]
    OBVIOUS
  <2>5. /\ Sound(n, s, f, u) /\ (d = 1 => n < Limit)
        /\ g[0] = f[0] + d /\ \A age \in Ages \ {0} : g[age] = f[age]
        /\ v[0] = More(u[0]) /\ \A age \in Ages \ {0} : v[age] = u[age]
    BY <1>1, <1>2, <1>3, <2>2, <2>3, <2>4
  <2>6. Sound(More(n), IF n = 0 THEN Window ELSE s, g, v) /\ g[0] \in 0 .. Limit
    BY <2>5, SoundCounted
  <2> QED BY <2>3, <2>4, <2>6
<1>6. Sound(hits'[c], ttl'[c], admitted'[a], tried'[a])
  BY <1>4, <1>5
<1>7. TypeOK'
  BY <1>2, <1>3, <1>4, <1>5 DEF TypeOK
<1>8. ASSUME NEW g \in Hosts
      PROVE  Sound(hits'[CallerOf(g)], ttl'[CallerOf(g)],
                   admitted'[g.allocation], tried'[g.allocation])
  <2>1. CASE CallerOf(g) = c
    <3>1. g.allocation = a
      BY <2>1, CallersAreAllocations
    <3> QED BY <1>6, <2>1, <3>1
  <2>2. CASE CallerOf(g) # c
    BY <1>2, <1>3, <1>4, <2>2, OthersStay
  <2> QED BY <2>1, <2>2
<1> QED BY <1>7, <1>8 DEF IInv

LEMMA UncountedKeeps ==
    ASSUME IInv, NEW h \in Hosts, UNCHANGED <<hits, ttl, admitted>>, Try(h)
    PROVE  IInv'
<1> DEFINE c == CallerOf(h)
           a == h.allocation
<1>1. TypeOK /\ Sound(hits[c], ttl[c], admitted[a], tried[a])
  BY DEF IInv
<1>2. /\ tried' \in [Allocations -> [Ages -> 0 .. MaxHits]]
      /\ tried'[a][0] = More(tried[a][0])
      /\ \A age \in Ages \ {0} : tried'[a][age] = tried[a][age]
      /\ \A b \in Allocations \ {a} : tried'[b] = tried[b]
  BY <1>1, TryDoes
<1>3. Sound(hits'[c], ttl'[c], admitted'[a], tried'[a])
  <2>1. PICK n \in 0 .. MaxHits, s \in 0 .. Window, f \in [Ages -> 0 .. Limit],
             u \in [Ages -> 0 .. MaxHits] :
            n = hits[c] /\ s = ttl[c] /\ f = admitted[a] /\ u = tried[a]
    BY <1>1, HostsHave
  <2>2. PICK v : v = tried'[a]
    OBVIOUS
  <2> HIDE DEF c, a
  <2>3. /\ Sound(n, s, f, u) /\ v[0] = More(u[0])
        /\ \A age \in Ages \ {0} : v[age] = u[age]
    BY <1>1, <1>2, <2>1, <2>2
  <2>4. Sound(n, s, f, v)
    BY <2>3, SoundUncounted
  <2> QED BY <2>1, <2>2, <2>4
<1>4. TypeOK'
  BY <1>1, <1>2 DEF TypeOK
<1>5. ASSUME NEW g \in Hosts
      PROVE  Sound(hits'[CallerOf(g)], ttl'[CallerOf(g)],
                   admitted'[g.allocation], tried'[g.allocation])
  <2>1. CASE CallerOf(g) = c
    <3>1. g.allocation = a
      BY <2>1, CallersAreAllocations
    <3> QED BY <1>3, <2>1, <3>1
  <2>2. CASE CallerOf(g) # c
    BY <1>2, <2>2, OthersStay
  <2> QED BY <2>1, <2>2
<1> QED BY <1>4, <1>5 DEF IInv

LEMMA OlderDoes ==
    ASSUME NEW B \in Nat, NEW by \in [Allocations -> [Ages -> 0 .. B]],
           NEW a \in Allocations
    PROVE  /\ Older(by)[a] \in [Ages -> 0 .. B]
           /\ Older(by)[a][0] = 0
           /\ \A age \in Ages \ {0} : Older(by)[a][age] = by[a][age - 1]
<1>1. by[a] \in [Ages -> 0 .. B] /\ 0 \in Ages /\ \A age \in Ages \ {0} : age - 1 \in Ages
  BY LimiterAssumption DEF Ages
<1>2. Older(by)[a] = [age \in Ages |-> IF age = 0 THEN 0 ELSE by[a][age - 1]]
  BY DEF Older
<1> QED BY <1>1, <1>2

LEMMA TickKeeps ==
    ASSUME IInv, Tick
    PROVE  IInv'
<1>1. TypeOK /\ Limit \in Nat /\ MaxHits \in Nat
  BY LimiterAssumption DEF IInv
<1>2. /\ admitted' = Older(admitted) /\ tried' = Older(tried)
      /\ admitted \in [Allocations -> [Ages -> 0 .. Limit]]
      /\ tried \in [Allocations -> [Ages -> 0 .. MaxHits]]
  BY <1>1 DEF Tick, TypeOK
<1>3. \A a \in Allocations :
          /\ admitted'[a] \in [Ages -> 0 .. Limit] /\ tried'[a] \in [Ages -> 0 .. MaxHits]
          /\ admitted'[a][0] = 0 /\ tried'[a][0] = 0
          /\ \A age \in Ages \ {0} : /\ admitted'[a][age] = admitted[a][age - 1]
                                     /\ tried'[a][age] = tried[a][age - 1]
  <2>1. ASSUME NEW a \in Allocations
        PROVE  /\ Older(admitted)[a] \in [Ages -> 0 .. Limit] /\ Older(admitted)[a][0] = 0
               /\ \A age \in Ages \ {0} : Older(admitted)[a][age] = admitted[a][age - 1]
    BY <1>1, <1>2, OlderDoes
  <2>2. ASSUME NEW a \in Allocations
        PROVE  /\ Older(tried)[a] \in [Ages -> 0 .. MaxHits] /\ Older(tried)[a][0] = 0
               /\ \A age \in Ages \ {0} : Older(tried)[a][age] = tried[a][age - 1]
    BY <1>1, <1>2, OlderDoes
  <2> QED BY <1>2, <2>1, <2>2
<1>4. ASSUME NEW c \in Callers
      PROVE  /\ ttl'[c] = IF ttl[c] = 0 THEN 0 ELSE ttl[c] - 1
             /\ hits'[c] = IF ttl[c] = 1 THEN 0 ELSE hits[c]
             /\ ttl'[c] \in 0 .. Window /\ hits'[c] \in 0 .. MaxHits
  <2>1. /\ ttl'[c] = IF ttl[c] = 0 THEN 0 ELSE ttl[c] - 1
        /\ hits'[c] = IF ttl[c] = 1 THEN 0 ELSE hits[c]
    BY DEF Tick
  <2>2. hits[c] \in 0 .. MaxHits /\ ttl[c] \in 0 .. Window /\ Window \in Nat
    BY <1>1, LimiterAssumption DEF TypeOK
  <2> QED BY <1>1, <2>1, <2>2
<1>5. TypeOK'
  <2>1. /\ hits' \in [Callers -> 0 .. MaxHits] /\ ttl' \in [Callers -> 0 .. Window]
    BY <1>4 DEF Tick
  <2>2. /\ admitted' \in [Allocations -> [Ages -> 0 .. Limit]]
        /\ tried' \in [Allocations -> [Ages -> 0 .. MaxHits]]
    BY <1>2, <1>3 DEF Older
  <2> QED BY <2>1, <2>2 DEF TypeOK
<1>6. ASSUME NEW h \in Hosts
      PROVE  Sound(hits'[CallerOf(h)], ttl'[CallerOf(h)],
                   admitted'[h.allocation], tried'[h.allocation])
  <2> DEFINE c == CallerOf(h)
             a == h.allocation
  <2>1. /\ c \in Callers /\ a \in Allocations
        /\ hits[c] \in 0 .. MaxHits /\ ttl[c] \in 0 .. Window
        /\ admitted[a] \in [Ages -> 0 .. Limit] /\ tried[a] \in [Ages -> 0 .. MaxHits]
    BY <1>1, HostsHave
  <2>2. Sound(hits[c], ttl[c], admitted[a], tried[a])
    BY DEF IInv
  <2>3. Sound(IF ttl[c] = 1 THEN 0 ELSE hits[c], IF ttl[c] = 0 THEN 0 ELSE ttl[c] - 1,
              admitted'[a], tried'[a])
    <3>1. /\ admitted'[a] \in [Ages -> 0 .. Limit]
          /\ admitted'[a][0] = 0 /\ tried'[a][0] = 0
          /\ \A age \in Ages \ {0} : admitted'[a][age] = admitted[a][age - 1]
          /\ \A age \in Ages \ {0} : tried'[a][age] = tried[a][age - 1]
      BY <1>3, <2>1
    <3>2. PICK n \in 0 .. MaxHits, s \in 0 .. Window, f \in [Ages -> 0 .. Limit],
               u \in [Ages -> 0 .. MaxHits] :
              n = hits[c] /\ s = ttl[c] /\ f = admitted[a] /\ u = tried[a]
      BY <2>1
    <3>3. PICK g, v : g = admitted'[a] /\ v = tried'[a]
      OBVIOUS
    <3> HIDE DEF a, c
    <3>4. /\ Sound(n, s, f, u) /\ g \in [Ages -> 0 .. Limit] /\ g[0] = 0 /\ v[0] = 0
          /\ \A age \in Ages \ {0} : g[age] = f[age - 1]
          /\ \A age \in Ages \ {0} : v[age] = u[age - 1]
      BY <2>2, <3>1, <3>2, <3>3
    <3>5. Sound(IF s = 1 THEN 0 ELSE n, IF s = 0 THEN 0 ELSE s - 1, g, v)
      BY <3>4, SoundLater
    <3> QED BY <3>2, <3>3, <3>5
  <2> QED BY <1>4, <2>1, <2>3
<1> QED BY <1>5, <1>6 DEF IInv

-----------------------------------------------------------------------------
(* The invariant, and what follows from it. *)

LEMMA InvInit == Init => IInv
<1> SUFFICES ASSUME Init
             PROVE  IInv
  OBVIOUS
<1>1. Limit \in Nat \ {0} /\ Window \in Nat \ {0} /\ MaxHits \in Nat
  BY LimiterAssumption
<1>2. NoneOfAnyAge \in [Ages -> 0 .. Limit] /\ NoneOfAnyAge \in [Ages -> 0 .. MaxHits]
  BY <1>1 DEF NoneOfAnyAge
<1>3. TypeOK
  BY <1>1, <1>2 DEF Init, TypeOK
<1>4. Total(NoneOfAnyAge, 0, Window - 1) = 0
  <2>1. \A age \in 0 .. Window - 1 : NoneOfAnyAge[age] = 0
    BY DEF NoneOfAnyAge, Ages
  <2>2. \A p : p \notin Counted(NoneOfAnyAge, 0, Window - 1)
    BY <2>1, CountedMembers
  <2>3. Counted(NoneOfAnyAge, 0, Window - 1) = {}
    BY <2>2
  <2> QED BY <2>3, FS_EmptySet DEF Total
<1>5. NoneOfAnyAge[0] = 0
  BY <1>1 DEF NoneOfAnyAge, Ages
<1>6. Sound(0, 0, NoneOfAnyAge, NoneOfAnyAge)
  BY <1>1, <1>4, <1>5 DEF Sound, CounterExpires, ThisTickIsCounted, BetweenWindows,
                          InWindow, CounterIsBacked
<1>7. ASSUME NEW h \in Hosts
      PROVE  Sound(hits[CallerOf(h)], ttl[CallerOf(h)],
                   admitted[h.allocation], tried[h.allocation])
  <2>1. CallerOf(h) \in Callers /\ h.allocation \in Allocations
    BY DEF Callers, Allocations
  <2>2. /\ hits[CallerOf(h)] = 0 /\ ttl[CallerOf(h)] = 0
        /\ admitted[h.allocation] = NoneOfAnyAge /\ tried[h.allocation] = NoneOfAnyAge
    BY <2>1 DEF Init
  <2> QED BY <1>6, <2>2
<1> QED BY <1>3, <1>7 DEF IInv

LEMMA InvStep == IInv /\ [Next]_vars => IInv'
<1>1. ASSUME IInv, NEW h \in Hosts, Hit(h)
      PROVE  IInv'
  <2>1. Count(CallerOf(h)) /\ Try(h)
    BY <1>1 DEF Hit
  <2>2. CASE hits[CallerOf(h)] < Limit
    <3>1. Admit(h)
      BY <1>1, <2>2 DEF Hit
    <3> QED BY <1>1, <2>1, <2>2, <3>1, HitKeeps
  <2>3. CASE ~(hits[CallerOf(h)] < Limit)
    <3>1. UNCHANGED admitted
      BY <1>1, <2>3 DEF Hit
    <3> QED BY <1>1, <2>1, <3>1, HitKeeps
  <2> QED BY <2>2, <2>3
<1>2. ASSUME IInv, NEW h \in Hosts, HitFails(h)
      PROVE  IInv'
  <2>1. CASE Count(CallerOf(h))
    BY <1>2, <2>1, HitKeeps DEF HitFails
  <2>2. CASE UNCHANGED <<hits, ttl>>
    BY <1>2, <2>2, UncountedKeeps DEF HitFails
  <2> QED BY <1>2, <2>1, <2>2 DEF HitFails
<1>3. ASSUME IInv, Tick
      PROVE  IInv'
  BY <1>3, TickKeeps
<1>4. ASSUME IInv, UNCHANGED vars
      PROVE  IInv'
  BY <1>4 DEF vars, IInv, TypeOK
<1> QED BY <1>1, <1>2, <1>3, <1>4 DEF Next

LEMMA InvAlways == Spec => []IInv
BY InvInit, InvStep, PTL DEF Spec

(* The window that is open and what is left of the one before. *)
LEMMA TwoWindows ==
    ASSUME IInv
    PROVE  FewerThanTwiceTheLimit
<1> SUFFICES ASSUME NEW h \in Hosts
             PROVE  Total(admitted[h.allocation], 0, Window - 1) < 2 * Limit
  BY DEF FewerThanTwiceTheLimit, Allocations
<1>1. PICK n, t, f, u :
          /\ n = hits[CallerOf(h)] /\ t = ttl[CallerOf(h)]
          /\ f = admitted[h.allocation] /\ u = tried[h.allocation]
  OBVIOUS
<1>2. /\ n \in 0 .. MaxHits /\ t \in 0 .. Window /\ f \in [Ages -> 0 .. Limit]
      /\ Sound(n, t, f, u) /\ Limit \in Nat /\ MaxHits \in Nat /\ Window \in Nat
  BY <1>1, HostsHave, LimiterAssumption DEF IInv
<1>3. CASE n = 0
  <2>1. Total(f, 0, Window - 1) <= Limit - 1
    BY <1>2, <1>3 DEF Sound, BetweenWindows
  <2>2. Window - 1 \in Int /\ Window - 1 < Window /\ 0 \in Nat
    BY <1>2
  <2>3. Total(f, 0, Window - 1) \in Nat
    BY <1>2, <2>2, TotalType
  <2>4. Total(f, 0, Window - 1) < 2 * Limit
    BY <1>2, <2>1, <2>3
  <2> QED BY <1>1, <2>4
<1>4. CASE n # 0
  <2>1. t # 0 /\ n > 0
    BY <1>2, <1>4 DEF Sound, CounterExpires
  <2>2. PICK k \in Nat : k = Window - t /\ k < Window
    BY <1>2, <2>1
  <2>3. Total(f, 0, k) <= Limit /\ Total(f, k + 1, Window - 1) <= Limit - 1
    BY <1>2, <2>1, <2>2 DEF Sound, InWindow
  <2>4. /\ k + 1 \in Nat /\ Window - 1 \in Int /\ Window - 1 < Window /\ 0 \in Nat /\ k \in Int
    BY <1>2, <2>2
  <2>5. Total(f, 0, k) \in Nat /\ Total(f, k + 1, Window - 1) \in Nat
    BY <1>2, <2>2, <2>4, TotalType
  <2>6. Total(f, 0, Window - 1) = Total(f, 0, k) + Total(f, k + 1, Window - 1)
    BY <1>2, <2>2, TotalSplit
  <2>7. Total(f, 0, Window - 1) < 2 * Limit
    BY <1>2, <2>3, <2>5, <2>6
  <2> QED BY <1>1, <2>7
<1> QED BY <1>3, <1>4

LEMMA OnlyOpenWindowCounts ==
    ASSUME IInv
    PROVE  OnlyRecentRequestsCount
<1> SUFFICES ASSUME NEW h \in Hosts
             PROVE  hits[CallerOf(h)] <= Total(tried[h.allocation], 0, Window - 1)
  BY DEF OnlyRecentRequestsCount
<1>1. PICK n, t, f, u :
          /\ n = hits[CallerOf(h)] /\ t = ttl[CallerOf(h)]
          /\ f = admitted[h.allocation] /\ u = tried[h.allocation]
  OBVIOUS
<1>2. /\ n \in 0 .. MaxHits /\ t \in 0 .. Window /\ u \in [Ages -> 0 .. MaxHits]
      /\ Sound(n, t, f, u) /\ MaxHits \in Nat /\ Window \in Nat
  BY <1>1, HostsHave, LimiterAssumption DEF IInv
<1>3. PICK w \in Int : w = Window - 1 /\ w < Window
  BY <1>2
<1>4. Total(u, 0, w) \in Nat
  <2>1. 0 \in Nat
    OBVIOUS
  <2> QED BY <1>2, <1>3, <2>1, TotalType
<1>5. CASE n = 0
  BY <1>1, <1>3, <1>4, <1>5
<1>6. CASE n # 0
  <2>1. t # 0 /\ n > 0
    BY <1>2, <1>6 DEF Sound, CounterExpires
  <2>2. PICK k \in Nat : k = Window - t /\ k < Window /\ k <= w /\ k \in Int /\ 0 <= 0 /\ 0 \in Nat
    BY <1>2, <1>3, <2>1
  <2>3. n <= Total(u, 0, k)
    BY <1>2, <2>1, <2>2 DEF Sound, CounterIsBacked
  <2>4. Total(u, 0, k) <= Total(u, 0, w)
    BY <1>2, <1>3, <2>2, TotalMonotone
  <2>5. Total(u, 0, k) \in Nat
    BY <1>2, <2>2, TotalType
  <2>6. n <= Total(u, 0, w)
    BY <1>2, <1>4, <2>3, <2>4, <2>5
  <2> QED BY <1>1, <1>3, <2>6
<1> QED BY <1>5, <1>6

(* Counters stay below their bound, lifetimes within a window, and no more *)
(* than the limit is let through in a tick.                                *)
THEOREM TypeCorrect == Spec => []TypeOK
<1>1. IInv => TypeOK
  BY DEF IInv
<1> QED BY <1>1, InvAlways, PTL

(* INCR and EXPIRE in one script, with the lifetime set by the first hit:  *)
(* whenever one looks back a window's time, fewer than twice the limit of  *)
(* an allocation's requests passed.                                        *)
THEOREM BurstsAreBounded == Spec => []FewerThanTwiceTheLimit
<1>1. IInv => FewerThanTwiceTheLimit
  BY TwoWindows
<1> QED BY <1>1, InvAlways, PTL

(* Nobody is throttled for older requests than a window's time, or for     *)
(* those of another allocation.                                            *)
THEOREM OldRequestsAreForgotten == Spec => []OnlyRecentRequestsCount
<1>1. IInv => OnlyRecentRequestsCount
  BY OnlyOpenWindowCounts
<1> QED BY <1>1, InvAlways, PTL
=============================================================================
