----------------------------- MODULE DriverProofs -----------------------------
(***************************************************************************)
(* Theorems about the reads of a Modbus device, for every list of tags,    *)
(* gap, limit and response, and about the worker of a device whose driver  *)
(* pushes its data.                                                        *)
(*                                                                         *)
(* The plan is a fold over the sorted tags.  What it promises holds of the *)
(* blocks of every beginning of them (GoodPlan): of the beginnings for     *)
(* which it would not hold there is a shortest, and one more tag           *)
(* (ExtendedIsGood) contradicts it.                                        *)
(***************************************************************************)
EXTENDS ModbusBlocks, SubscriptionWorker, WellFoundedInduction, TLAPS

LEMMA SmallestOf ==
  ASSUME NEW T \in SUBSET Nat, T # {}
  PROVE  \E n \in T : \A m \in T : n <= m
<1>1. PICK n \in T : \A m \in T : <<m, n>> \notin OpToRel(<, Nat)
  BY WFMin, NatLessThanWellFounded
<1>2. ASSUME NEW m \in T  PROVE n <= m
  <2>1. ~(m < n)  BY <1>1 DEF OpToRel
  <2> QED BY <2>1
<1> QED BY <1>2

LEMMA MinFacts ==
  ASSUME NEW T \in SUBSET Nat, T # {}
  PROVE  Min(T) \in T /\ \A m \in T : Min(T) <= m
BY SmallestOf DEF Min

LEMMA MaxOfInterval == ASSUME NEW n \in Nat \ {0}  PROVE Max(1 .. n) = n
<1>1. n \in 1 .. n /\ \A y \in 1 .. n : n >= y  OBVIOUS
<1>2. \A x \in 1 .. n : (\A y \in 1 .. n : x >= y) => x = n  BY <1>1
<1> QED BY <1>1, <1>2 DEF Max

LEMMA MaxOfTwo ==
  ASSUME NEW x \in Int, NEW y \in Int  PROVE Max({x, y}) = IF x >= y THEN x ELSE y
<1> DEFINE m == IF x >= y THEN x ELSE y
<1>1. m \in {x, y} /\ \A z \in {x, y} : m >= z  OBVIOUS
<1>2. \A w \in {x, y} : (\A z \in {x, y} : w >= z) => w = m  OBVIOUS
<1> QED BY <1>1, <1>2 DEF Max

-----------------------------------------------------------------------------
(* Sorting.  A strict order of the positions 1 .. n has a sorted sequence: *)
(* position m goes behind those of its predecessors that precede it.       *)
Orders(R, n) ==
  /\ \A i \in 1 .. n : <<i, i>> \notin R
  /\ \A i, j \in 1 .. n : i # j => <<i, j>> \in R \/ <<j, i>> \in R
  /\ \A i, j, k \in 1 .. n : <<i, j>> \in R /\ <<j, k>> \in R => <<i, k>> \in R

InOrder(s, R, n) ==
  /\ s \in Bijection(1 .. n, 1 .. n)
  /\ \A a, b \in 1 .. n : a < b => <<s[a], s[b]>> \in R

LEMMA OneMoreInOrder ==
  ASSUME NEW m \in Nat \ {0}, NEW R, Orders(R, m), NEW h, InOrder(h, R, m - 1)
  PROVE  \E s : InOrder(s, R, m)
<1>1. /\ h \in [1 .. m - 1 -> 1 .. m - 1]
      /\ \A a, b \in 1 .. m - 1 : h[a] = h[b] => a = b
      /\ \A i \in 1 .. m - 1 : \E a \in 1 .. m - 1 : h[a] = i
      /\ \A a, b \in 1 .. m - 1 : a < b => <<h[a], h[b]>> \in R
  BY DEF InOrder, Bijection, Injection, Surjection, IsInjective
<1>2. \A a \in 1 .. m - 1 : h[a] \in 1 .. m /\ h[a] # m
  <2>1. \A i \in 1 .. m - 1 : i \in 1 .. m /\ i # m  OBVIOUS
  <2> QED BY <2>1, <1>1
<1>3. PICK j \in 0 .. m - 1 :
        /\ \A a \in j + 1 .. m - 1 : <<m, h[a]>> \in R
        /\ j # 0 => ~\A a \in j .. m - 1 : <<m, h[a]>> \in R
  <2> DEFINE T == {j \in 0 .. m - 1 : \A a \in j + 1 .. m - 1 : <<m, h[a]>> \in R}
  <2>1. m - 1 \in T  OBVIOUS
  <2>2. PICK j \in T : \A k \in T : j <= k
    <3>1. T \in SUBSET Nat  OBVIOUS
    <3> HIDE DEF T
    <3> QED BY <3>1, <2>1, SmallestOf
  <2>3. j # 0 => j - 1 \in 0 .. m - 1 /\ j - 1 \notin T  BY <2>2
  <2>4. j # 0 => (j - 1) + 1 = j  OBVIOUS
  <2> QED BY <2>2, <2>3, <2>4
<1>4. \A a \in 1 .. j : <<h[a], m>> \in R
  <2> SUFFICES ASSUME NEW a \in 1 .. j  PROVE <<h[a], m>> \in R
    OBVIOUS
  <2>1. j \in 1 .. m - 1 /\ <<m, h[j]>> \notin R
    <3>1. j # 0 /\ j \in 1 .. m - 1  OBVIOUS
    <3>2. PICK c \in j .. m - 1 : <<m, h[c]>> \notin R  BY <3>1, <1>3
    <3>3. c = j  BY <3>2, <1>3
    <3> QED BY <3>1, <3>2, <3>3
  <2>2. h[a] \in 1 .. m /\ h[j] \in 1 .. m /\ m \in 1 .. m /\ h[j] # m
    <3>1. a \in 1 .. m - 1 /\ m \in 1 .. m  BY <2>1
    <3> QED BY <3>1, <2>1, <1>2
  <2>3. <<h[j], m>> \in R  BY <2>1, <2>2 DEF Orders
  <2>4. CASE a = j  BY <2>3, <2>4
  <2>5. CASE a # j
    <3>1. <<h[a], h[j]>> \in R  BY <2>5, <2>1, <1>1
    <3> QED BY <3>1, <2>3, <2>2 DEF Orders
  <2> QED BY <2>4, <2>5
<1> DEFINE s == [k \in 1 .. m |-> IF k <= j THEN h[k] ELSE IF k = j + 1 THEN m ELSE h[k - 1]]
<1>5. /\ \A k \in 1 .. j : k \in 1 .. m /\ k \in 1 .. m - 1 /\ s[k] = h[k]
      /\ j + 1 \in 1 .. m /\ s[j + 1] = m
      /\ \A k \in j + 2 .. m : k \in 1 .. m /\ k - 1 \in 1 .. m - 1 /\ s[k] = h[k - 1]
      /\ \A k \in 1 .. m : k \in 1 .. j \/ k = j + 1 \/ k \in j + 2 .. m
  OBVIOUS
<1>6. s \in [1 .. m -> 1 .. m]
  <2>1. \A k \in 1 .. m : (IF k <= j THEN h[k] ELSE IF k = j + 1 THEN m ELSE h[k - 1]) \in 1 .. m
    BY <1>2, <1>5
  <2> QED BY <2>1
<1> HIDE DEF s
<1>7. \A a, b \in 1 .. m : a < b => <<s[a], s[b]>> \in R
  <2> SUFFICES ASSUME NEW a \in 1 .. m, NEW b \in 1 .. m, a < b  PROVE <<s[a], s[b]>> \in R
    OBVIOUS
  <2>1. CASE b \in 1 .. j
    <3>1. a \in 1 .. j  BY <2>1
    <3> QED BY <2>1, <3>1, <1>1, <1>5
  <2>2. CASE b = j + 1
    <3>1. a \in 1 .. j  BY <2>2
    <3> QED BY <2>2, <3>1, <1>4, <1>5
  <2>3. CASE b \in j + 2 .. m
    <3>1. b - 1 \in 1 .. m - 1 /\ s[b] = h[b - 1] /\ b - 1 \in j + 1 .. m - 1  BY <2>3, <1>5
    <3>2. CASE a \in 1 .. j
      <4>1. a \in 1 .. m - 1 /\ a < b - 1 /\ s[a] = h[a]  BY <2>3, <3>2, <1>5
      <4> QED BY <4>1, <3>1, <1>1
    <3>3. CASE a = j + 1
      BY <3>1, <3>3, <1>3, <1>5
    <3>4. CASE a \in j + 2 .. m
      <4>1. a - 1 \in 1 .. m - 1 /\ a - 1 < b - 1 /\ s[a] = h[a - 1]  BY <2>3, <3>4, <1>5
      <4> QED BY <4>1, <3>1, <1>1
    <3> QED BY <3>2, <3>3, <3>4, <1>5
  <2> QED BY <2>1, <2>2, <2>3, <1>5
<1>8. \A a, b \in 1 .. m : s[a] = s[b] => a = b
  <2> SUFFICES ASSUME NEW a \in 1 .. m, NEW b \in 1 .. m, a # b  PROVE s[a] # s[b]
    OBVIOUS
  <2>1. a < b \/ b < a  OBVIOUS
  <2>2. <<s[a], s[b]>> \in R \/ <<s[b], s[a]>> \in R  BY <2>1, <1>7
  <2> QED BY <2>2, <1>6 DEF Orders
<1>9. ASSUME NEW i \in 1 .. m  PROVE \E k \in 1 .. m : s[k] = i
  <2>1. CASE i = m  BY <2>1, <1>5
  <2>2. CASE i # m
    <3>1. PICK a \in 1 .. m - 1 : h[a] = i  BY <2>2, <1>1
    <3>2. CASE a <= j
      <4>1. a \in 1 .. j  BY <3>2
      <4> QED BY <4>1, <3>1, <1>5
    <3>3. CASE a > j
      <4>1. a + 1 \in j + 2 .. m /\ (a + 1) - 1 = a  BY <3>3
      <4>2. a + 1 \in 1 .. m /\ s[a + 1] = h[a]  BY <4>1, <1>5
      <4> QED BY <4>2, <3>1
    <3> QED BY <3>2, <3>3
  <2> QED BY <2>1, <2>2
<1>10. s \in Bijection(1 .. m, 1 .. m)
  BY <1>6, <1>8, <1>9 DEF Bijection, Injection, Surjection, IsInjective
<1> QED BY <1>7, <1>10 DEF InOrder

LEMMA OrderExists ==
  ASSUME NEW n \in Nat, NEW R, Orders(R, n)
  PROVE  \E s : InOrder(s, R, n)
<1> DEFINE T == {m \in 0 .. n : ~\E s : InOrder(s, R, m)}
<1> SUFFICES ASSUME T # {}  PROVE FALSE
  OBVIOUS
<1>1. PICK m \in T : \A k \in T : m <= k
  <2>1. T \in SUBSET Nat  OBVIOUS
  <2> HIDE DEF T
  <2> QED BY <2>1, SmallestOf
<1>2. m # 0
  <2>1. 1 .. 0 = {}  OBVIOUS
  <2> DEFINE s == [k \in 1 .. 0 |-> k]
  <2>2. InOrder(s, R, 0)
    BY <2>1 DEF InOrder, Bijection, Injection, Surjection, IsInjective
  <2> QED BY <2>2
<1>3. m \in Nat \ {0} /\ m - 1 \in 0 .. n /\ ~(m <= m - 1)  BY <1>2
<1>4. PICK h : InOrder(h, R, m - 1)  BY <1>1, <1>3
<1>5. Orders(R, m)
  <2>1. \A i \in 1 .. m : i \in 1 .. n  OBVIOUS
  <2> QED BY <2>1 DEF Orders
<1> QED BY <1>3, <1>4, <1>5, OneMoreInOrder

(* The order of the plan is strict.                                        *)
LEMMA LeaderFacts ==
  ASSUME NEW list \in Seq(Tag)
  PROVE  \A i, j \in DOMAIN list :
           /\ Leader(list, i) \in DOMAIN list
           /\ Leader(list, i) = Leader(list, j) <=> GroupOf(list[i]) = GroupOf(list[j])
<1> DEFINE T(i) == {k \in DOMAIN list : GroupOf(list[k]) = GroupOf(list[i])}
<1>1. DOMAIN list = 1 .. Len(list) /\ Len(list) \in Nat  OBVIOUS
<1>2. ASSUME NEW i \in DOMAIN list
      PROVE  /\ Leader(list, i) \in DOMAIN list
             /\ GroupOf(list[Leader(list, i)]) = GroupOf(list[i])
  <2>1. T(i) \in SUBSET Nat /\ i \in T(i)  BY <1>1
  <2> HIDE DEF T
  <2>2. Min(T(i)) \in T(i)  BY <2>1, MinFacts
  <2> QED BY <2>2 DEF T, Leader
<1>3. ASSUME NEW i \in DOMAIN list, NEW j \in DOMAIN list, GroupOf(list[i]) = GroupOf(list[j])
      PROVE  Leader(list, i) = Leader(list, j)
  <2>1. T(i) = T(j)  BY <1>3
  <2> QED BY <2>1 DEF Leader
<1> QED BY <1>2, <1>3

LEMMA PrecedesOrders ==
  ASSUME NEW list \in Seq(Tag)
  PROVE  /\ \A i \in DOMAIN list : ~Precedes(list, i, i)
         /\ \A i, j \in DOMAIN list : i # j => Precedes(list, i, j) \/ Precedes(list, j, i)
         /\ \A i, j, k \in DOMAIN list :
              Precedes(list, i, j) /\ Precedes(list, j, k) => Precedes(list, i, k)
<1>1. DOMAIN list = 1 .. Len(list) /\ Len(list) \in Nat  OBVIOUS
<1>2. \A i \in DOMAIN list : i \in Nat /\ Leader(list, i) \in Nat /\ list[i].address \in Nat
  <2>1. \A i \in DOMAIN list : list[i] \in Tag  OBVIOUS
  <2>2. \A i \in DOMAIN list : Leader(list, i) \in DOMAIN list  BY LeaderFacts
  <2> QED BY <1>1, <2>1, <2>2 DEF Tag
<1> QED BY <1>2 DEF Precedes

LEMMA SortedFacts ==
  ASSUME NEW list \in Seq(Tag)
  PROVE  /\ Sorted(list) \in Seq(DOMAIN list) /\ Len(Sorted(list)) = Len(list)
         /\ \A i \in DOMAIN list : \E n \in 1 .. Len(list) : Sorted(list)[n] = i
         /\ \A m, n \in 1 .. Len(list) :
              m < n => Precedes(list, Sorted(list)[m], Sorted(list)[n])
<1> DEFINE n == Len(list)
           R == {p \in (1 .. n) \X (1 .. n) : Precedes(list, p[1], p[2])}
           s == Sorted(list)
<1>1. DOMAIN list = 1 .. n /\ n \in Nat  OBVIOUS
<1>2. \A i, j \in 1 .. n : <<i, j>> \in R <=> Precedes(list, i, j)  OBVIOUS
<1>3. Orders(R, n)
  <2> HIDE DEF R, n
  <2> QED BY <1>1, <1>2, PrecedesOrders DEF Orders
<1> HIDE DEF R, n
<1>4. PICK h : InOrder(h, R, n)  BY <1>1, <1>3, OrderExists
<1>5. h \in Bijection(1 .. n, 1 .. n) /\ \A a, b \in 1 .. n : a < b => Precedes(list, h[a], h[b])
  <2>1. h \in [1 .. n -> 1 .. n]  BY <1>4 DEF InOrder, Bijection, Injection
  <2> QED BY <2>1, <1>2, <1>4 DEF InOrder
<1>6. s = CHOOSE order \in Bijection(1 .. n, 1 .. n) :
            \A a, b \in 1 .. n : a < b => Precedes(list, order[a], order[b])
  BY <1>1 DEF Sorted
<1>7. s \in Bijection(1 .. n, 1 .. n) /\ \A a, b \in 1 .. n : a < b => Precedes(list, s[a], s[b])
  <2> HIDE DEF s
  <2> QED BY <1>5, <1>6
<1>8. s \in [1 .. n -> 1 .. n] /\ \A i \in 1 .. n : \E a \in 1 .. n : s[a] = i
  <2> HIDE DEF s
  <2> QED BY <1>7 DEF Bijection, Injection, Surjection
<1>9. s \in Seq(1 .. n) /\ Len(s) = n
  <2> HIDE DEF s
  <2> QED BY <1>1, <1>8
<1> HIDE DEF s
<1> QED BY <1>1, <1>7, <1>8, <1>9 DEF s, n

-----------------------------------------------------------------------------
(* The fold of the plan.                                                   *)
IsFold(g, list, s, n) ==
  g = [S \in SUBSET (1 .. n) |->
         IF S = {} THEN <<>> ELSE Extended(g[S \ {Max(S)}], list[s[Max(S)]], s[Max(S)])]

LEMMA FoldExists ==
  ASSUME NEW list, NEW s, NEW n \in Nat
  PROVE  \E g : IsFold(g, list, s, n)
<1> DEFINE T == {m \in Nat : ~\E g : IsFold(g, list, s, m)}
<1> SUFFICES ASSUME T # {}  PROVE FALSE
  OBVIOUS
<1>1. PICK m \in T : \A k \in T : m <= k  BY SmallestOf
<1>2. m # 0
  <2> DEFINE g == [S \in SUBSET (1 .. 0) |-> <<>>]
  <2>1. \A S \in SUBSET (1 .. 0) : S = {}  OBVIOUS
  <2>2. IsFold(g, list, s, 0)  BY <2>1 DEF IsFold
  <2> QED BY <2>2
<1>3. PICK h : IsFold(h, list, s, m - 1)
  <2>1. m - 1 \in Nat /\ ~(m <= m - 1)  BY <1>2
  <2> QED BY <2>1, <1>1
<1> DEFINE g == [S \in SUBSET (1 .. m) |->
                   IF m \in S THEN Extended(h[S \ {m}], list[s[m]], s[m]) ELSE h[S]]
<1>4. ASSUME NEW S \in SUBSET (1 .. m)
      PROVE  g[S] = IF S = {} THEN <<>>
                    ELSE Extended(g[S \ {Max(S)}], list[s[Max(S)]], s[Max(S)])
  <2>1. CASE m \in S
    <3>1. m \in Nat /\ \A x \in S : x \in Nat /\ x <= m  OBVIOUS
    <3>2. Max(S) = m
      <4>1. \A x \in S : (\A y \in S : x >= y) => x = m  BY <2>1, <3>1
      <4>2. \A y \in S : m >= y  BY <3>1
      <4> QED BY <4>1, <4>2, <2>1 DEF Max
    <3>3. S \ {m} \in SUBSET (1 .. m) /\ m \notin S \ {m}  OBVIOUS
    <3>4. g[S \ {m}] = h[S \ {m}]  BY <3>3
    <3> QED BY <2>1, <3>2, <3>4
  <2>2. CASE m \notin S
    <3>1. S \in SUBSET (1 .. m - 1)  BY <2>2
    <3>2. h[S] = IF S = {} THEN <<>>
                 ELSE Extended(h[S \ {Max(S)}], list[s[Max(S)]], s[Max(S)])
      BY <1>3, <3>1 DEF IsFold
    <3>3. g[S] = h[S] /\ g[S \ {Max(S)}] = h[S \ {Max(S)}]  BY <2>2
    <3> QED BY <3>2, <3>3
  <2> QED BY <2>1, <2>2
<1>5. g = [S \in SUBSET (1 .. m) |-> g[S]]  OBVIOUS
<1>6. IsFold(g, list, s, m)
  <2> HIDE DEF g
  <2> QED BY <1>4, <1>5 DEF IsFold
<1> QED BY <1>6

LEMMA PlanIsFold ==
  ASSUME NEW list \in Seq(Tag)
  PROVE  \E g : /\ PlanBlocks(list) = g[1 .. Len(list)]
                /\ g[{}] = <<>>
                /\ \A n \in 1 .. Len(list) :
                     g[1 .. n] = Extended(g[1 .. n - 1], list[Sorted(list)[n]], Sorted(list)[n])
<1> DEFINE s == Sorted(list)
           iter == CHOOSE g : IsFold(g, list, s, Len(list))
<1>1. DOMAIN s = 1 .. Len(list) /\ Len(list) \in Nat  BY SortedFacts
<1>2. PlanBlocks(list) = (CHOOSE g : g = [S \in SUBSET DOMAIN s |->
                            IF S = {} THEN <<>>
                            ELSE Extended(g[S \ {Max(S)}], list[s[Max(S)]], s[Max(S)])])[DOMAIN s]
  BY Zenon DEF PlanBlocks, FoldLeft, MapThenFoldSet
<1> HIDE DEF s
<1>3. PlanBlocks(list) = iter[1 .. Len(list)]
  BY <1>1, <1>2, Zenon DEF IsFold
<1>4. IsFold(iter, list, s, Len(list))
  BY <1>1, FoldExists
<1> HIDE DEF iter
<1>5. iter[{}] = <<>>
  BY <1>4 DEF IsFold
<1>6. ASSUME NEW n \in 1 .. Len(list)
      PROVE  iter[1 .. n] = Extended(iter[1 .. n - 1], list[s[n]], s[n])
  <2>1. n \in Nat \ {0}  BY <1>1
  <2>2. 1 .. n \in SUBSET (1 .. Len(list)) /\ n \in 1 .. n  BY <1>1
  <2>3. (1 .. n) \ {n} = 1 .. n - 1  BY <2>1
  <2>4. Max(1 .. n) = n  BY <2>1, MaxOfInterval
  <2> QED BY <2>2, <2>3, <2>4, <1>4 DEF IsFold
<1> QED BY <1>3, <1>5, <1>6 DEF s

-----------------------------------------------------------------------------
(* What the plan promises of one block, ...                                *)
Blocks == [function : Functions, unit : Nat, start : Nat, count : Nat \ {0}, tags : Seq(Nat)]

GoodBlock(list, b) ==
  /\ \A i \in ToSet(b.tags) : /\ i \in DOMAIN list /\ GroupOf(list[i]) = <<b.function, b.unit>>
                             /\ b.start <= list[i].address /\ EndOf(list[i]) <= BlockEnd(b)
  /\ b.count <= Limit[b.function] \/ Len(b.tags) = 1
  /\ \E i \in ToSet(b.tags) : list[i].address = b.start
  /\ \E i \in ToSet(b.tags) : EndOf(list[i]) = BlockEnd(b)
  /\ \A a \in b.start .. BlockEnd(b) - 1 :
       \E i \in ToSet(b.tags) : list[i].address <= a + MaxGap /\ a < EndOf(list[i])

(* ... of a block and the next one, ...                                    *)
Apart(b, c) ==
  <<b.function, b.unit>> = <<c.function, c.unit>> /\ c.start <= BlockEnd(b) + MaxGap
  => BlockEnd(b) - b.start > Limit[b.function] \/ BlockEnd(c) - b.start > Limit[b.function]

(* ... and of the blocks bs for the tags at the positions D.               *)
GoodPlan(list, D, bs) ==
  /\ bs \in Seq(Blocks)
  /\ \A m \in DOMAIN bs : GoodBlock(list, bs[m]) /\ ToSet(bs[m].tags) \subseteq D
  /\ \A i \in D : \E m \in DOMAIN bs : i \in ToSet(bs[m].tags)
  /\ \A m, n \in DOMAIN bs : m < n =>
       \A i \in ToSet(bs[m].tags), j \in ToSet(bs[n].tags) : Precedes(list, i, j)
  /\ \A m \in DOMAIN bs : m + 1 \in DOMAIN bs => Apart(bs[m], bs[m + 1])

LEMMA TagFacts ==
  ASSUME NEW list \in Seq(Tag), NEW i \in DOMAIN list
  PROVE  /\ i \in Nat /\ list[i] \in Tag
         /\ list[i].function \in Functions /\ UnitOf(list[i]) \in Nat
         /\ list[i].address \in Nat /\ list[i].count \in Nat \ {0}
         /\ EndOf(list[i]) \in Nat /\ EndOf(list[i]) = list[i].address + list[i].count
         /\ GroupOf(list[i]) = <<list[i].function, UnitOf(list[i])>>
<1>1. i \in Nat /\ list[i] \in Tag  OBVIOUS
<1>2. /\ list[i].function \in Functions /\ list[i].unit \in Nat
      /\ list[i].address \in Nat /\ list[i].count \in Nat \ {0}
  BY <1>1 DEF Tag
<1>3. UnitOf(list[i]) \in Nat  BY <1>2, ModbusAssumption DEF UnitOf
<1> QED BY <1>1, <1>2, <1>3 DEF EndOf, GroupOf

LEMMA BlockFacts ==
  ASSUME NEW b \in Blocks
  PROVE  /\ b.function \in Functions /\ b.unit \in Nat /\ b.start \in Nat
         /\ b.count \in Nat \ {0} /\ b.tags \in Seq(Nat)
         /\ BlockEnd(b) = b.start + b.count /\ BlockEnd(b) \in Nat
         /\ Limit[b.function] \in Nat \ {0}
BY ModbusAssumption DEF Blocks, BlockEnd

LEMMA NewBlockIsGood ==
  ASSUME NEW list \in Seq(Tag), NEW i \in DOMAIN list
  PROVE  LET b == NewBlock(list[i], i)
         IN  /\ b \in Blocks /\ GoodBlock(list, b) /\ ToSet(b.tags) = {i}
             /\ b.start = list[i].address /\ BlockEnd(b) = EndOf(list[i])
             /\ <<b.function, b.unit>> = GroupOf(list[i])
<1> DEFINE b == NewBlock(list[i], i)
<1>1. /\ b.function = list[i].function /\ b.unit = UnitOf(list[i])
      /\ b.start = list[i].address /\ b.count = list[i].count /\ b.tags = <<i>>
  BY DEF NewBlock
<1>2. b \in Blocks  BY TagFacts DEF NewBlock, Blocks
<1> HIDE DEF b
<1>3. ToSet(b.tags) = {i} /\ Len(b.tags) = 1  BY <1>1 DEF ToSet
<1>4. BlockEnd(b) = EndOf(list[i]) /\ <<b.function, b.unit>> = GroupOf(list[i])
  BY <1>1, TagFacts DEF BlockEnd
<1>5. ASSUME NEW a \in b.start .. BlockEnd(b) - 1
      PROVE  list[i].address <= a + MaxGap /\ a < EndOf(list[i])
  BY <1>1, <1>4, TagFacts, ModbusAssumption
<1>6. GoodBlock(list, b)
  <2>1. \A j \in ToSet(b.tags) : /\ j \in DOMAIN list /\ GroupOf(list[j]) = <<b.function, b.unit>>
                                /\ b.start <= list[j].address /\ EndOf(list[j]) <= BlockEnd(b)
    BY <1>1, <1>3, <1>4, TagFacts
  <2>2. \E j \in ToSet(b.tags) : list[j].address = b.start  BY <1>1, <1>3
  <2>3. \E j \in ToSet(b.tags) : EndOf(list[j]) = BlockEnd(b)  BY <1>3, <1>4
  <2>4. \A a \in b.start .. BlockEnd(b) - 1 :
          \E j \in ToSet(b.tags) : list[j].address <= a + MaxGap /\ a < EndOf(list[j])
    BY <1>3, <1>5
  <2> QED BY <1>3, <2>1, <2>2, <2>3, <2>4 DEF GoodBlock
<1> QED BY <1>1, <1>2, <1>3, <1>4, <1>6 DEF b

LEMMA GrownIsGood ==
  ASSUME NEW list \in Seq(Tag), NEW i \in DOMAIN list, NEW b \in Blocks, GoodBlock(list, b),
         \A j \in ToSet(b.tags) : Precedes(list, j, i),
         Fits(b, Grown(b, list[i], i), list[i])
  PROVE  LET c == Grown(b, list[i], i)
         IN  /\ c \in Blocks /\ GoodBlock(list, c) /\ ToSet(c.tags) = ToSet(b.tags) \cup {i}
             /\ c.start = b.start /\ BlockEnd(b) <= BlockEnd(c)
             /\ c.function = b.function /\ c.unit = b.unit
<1> DEFINE c == Grown(b, list[i], i)
           end == IF BlockEnd(b) >= EndOf(list[i]) THEN BlockEnd(b) ELSE EndOf(list[i])
<1>1. /\ b.function \in Functions /\ b.unit \in Nat /\ b.start \in Nat
      /\ b.count \in Nat \ {0} /\ b.tags \in Seq(Nat)
      /\ BlockEnd(b) = b.start + b.count /\ BlockEnd(b) \in Nat
  BY BlockFacts
<1>2. i \in Nat /\ list[i].address \in Nat /\ EndOf(list[i]) \in Nat
      /\ list[i].address < EndOf(list[i])
  BY TagFacts
<1>3. end \in Nat /\ BlockEnd(b) <= end /\ EndOf(list[i]) <= end
      /\ (end = BlockEnd(b) \/ end = EndOf(list[i]))
  BY <1>1, <1>2
<1>4. c = [b EXCEPT !.count = end - b.start, !.tags = Append(b.tags, i)]
  <2>1. Max({BlockEnd(b), EndOf(list[i])}) = end  BY <1>1, <1>2, MaxOfTwo
  <2> HIDE DEF end
  <2> QED BY <2>1 DEF Grown
<1>5. /\ c.function = b.function /\ c.unit = b.unit /\ c.start = b.start
      /\ c.count = end - b.start /\ c.tags = Append(b.tags, i)
      /\ c = [function |-> c.function, unit |-> c.unit, start |-> c.start, count |-> c.count, tags |-> c.tags]
  BY <1>4 DEF Blocks
<1>6. Fits(b, c, list[i])  OBVIOUS
<1> HIDE DEF c, end
<1>7. c.count \in Nat \ {0} /\ BlockEnd(c) = end  BY <1>1, <1>3, <1>5 DEF BlockEnd
<1>8. c.tags \in Seq(Nat) /\ ToSet(c.tags) = ToSet(b.tags) \cup {i}
  <2>1. c.tags \in Seq(Nat) /\ Len(c.tags) = Len(b.tags) + 1 /\ c.tags[Len(b.tags) + 1] = i
        /\ Len(b.tags) \in Nat /\ \A k \in 1 .. Len(b.tags) : c.tags[k] = b.tags[k]
    BY <1>1, <1>2, <1>5
  <2>2. DOMAIN b.tags = 1 .. Len(b.tags) /\ DOMAIN c.tags = 1 .. Len(b.tags) + 1  BY <1>1, <2>1
  <2>3. DOMAIN c.tags = DOMAIN b.tags \cup {Len(b.tags) + 1}  BY <2>1, <2>2
  <2>4. \A k \in DOMAIN b.tags : c.tags[k] = b.tags[k]  BY <2>1, <2>2
  <2>5. {c.tags[k] : k \in DOMAIN c.tags} = {b.tags[k] : k \in DOMAIN b.tags} \cup {i}
    BY <2>1, <2>3, <2>4
  <2> QED BY <2>1, <2>5 DEF ToSet
<1>9. c \in Blocks  BY <1>1, <1>5, <1>7, <1>8 DEF Blocks
<1>10. /\ <<b.function, b.unit>> = GroupOf(list[i]) /\ list[i].address <= BlockEnd(b) + MaxGap
       /\ c.count <= Limit[b.function]
  BY <1>6, TagFacts DEF Fits
<1>11. b.start <= list[i].address
  <2>1. PICK j \in ToSet(b.tags) : list[j].address = b.start  BY DEF GoodBlock
  <2>2. j \in DOMAIN list /\ GroupOf(list[j]) = GroupOf(list[i])  BY <1>10 DEF GoodBlock
  <2>3. Leader(list, j) = Leader(list, i) /\ Leader(list, i) \in Nat
    <3>1. Leader(list, i) \in DOMAIN list /\ Leader(list, j) = Leader(list, i)  BY <2>2, LeaderFacts
    <3> QED BY <3>1, TagFacts
  <2>4. list[j].address < list[i].address \/ list[j].address = list[i].address
    <3>1. Precedes(list, j, i)  OBVIOUS
    <3> QED BY <3>1, <2>3 DEF Precedes
  <2> QED BY <2>1, <2>4, <1>1, <1>2
<1>12. ASSUME NEW j \in ToSet(c.tags)
       PROVE  /\ j \in DOMAIN list /\ GroupOf(list[j]) = <<c.function, c.unit>>
              /\ c.start <= list[j].address /\ EndOf(list[j]) <= BlockEnd(c)
  <2>1. CASE j = i  BY <2>1, <1>3, <1>5, <1>7, <1>10, <1>11
  <2>2. CASE j \in ToSet(b.tags)
    <3>1. /\ j \in DOMAIN list /\ GroupOf(list[j]) = <<b.function, b.unit>>
          /\ b.start <= list[j].address /\ EndOf(list[j]) <= BlockEnd(b)
      BY <2>2 DEF GoodBlock
    <3> QED BY <3>1, <1>1, <1>3, <1>5, <1>7, TagFacts
  <2> QED BY <2>1, <2>2, <1>8
<1>13. \E j \in ToSet(c.tags) : list[j].address = c.start  BY <1>5, <1>8 DEF GoodBlock
<1>14. \E j \in ToSet(c.tags) : EndOf(list[j]) = BlockEnd(c)
  <2>1. \E j \in ToSet(b.tags) : EndOf(list[j]) = BlockEnd(b)  BY DEF GoodBlock
  <2> QED BY <2>1, <1>3, <1>7, <1>8
<1>15. ASSUME NEW a \in c.start .. BlockEnd(c) - 1
       PROVE  \E j \in ToSet(c.tags) : list[j].address <= a + MaxGap /\ a < EndOf(list[j])
  <2>1. CASE a < BlockEnd(b)
    <3>1. a \in b.start .. BlockEnd(b) - 1  BY <2>1, <1>1, <1>3, <1>5, <1>7
    <3>2. PICK j \in ToSet(b.tags) : list[j].address <= a + MaxGap /\ a < EndOf(list[j])
      BY <3>1 DEF GoodBlock
    <3> QED BY <3>2, <1>8
  <2>2. CASE ~(a < BlockEnd(b))
    <3>1. a \in Nat /\ a < end /\ BlockEnd(b) <= a  BY <2>2, <1>1, <1>3, <1>5, <1>7
    <3>2. end = EndOf(list[i])  BY <3>1, <1>1, <1>3
    <3>3. list[i].address <= a + MaxGap /\ a < EndOf(list[i])
      BY <3>1, <3>2, <1>1, <1>2, <1>10, ModbusAssumption
    <3> QED BY <3>3, <1>8
  <2> QED BY <2>1, <2>2
<1>16. GoodBlock(list, c)
  BY <1>5, <1>10, <1>12, <1>13, <1>14, <1>15 DEF GoodBlock
<1> QED BY <1>3, <1>5, <1>7, <1>8, <1>9, <1>16 DEF c

(* A plan with one more tag: in a block of its own, ...                    *)
LEMMA AppendedIsGood ==
  ASSUME NEW list \in Seq(Tag), NEW D, NEW bs, GoodPlan(list, D, bs),
         NEW i \in DOMAIN list, \A j \in D : Precedes(list, j, i),
         bs # <<>> => Apart(bs[Len(bs)], NewBlock(list[i], i))
  PROVE  GoodPlan(list, D \cup {i}, Append(bs, NewBlock(list[i], i)))
<1> DEFINE b == NewBlock(list[i], i)
           new == Append(bs, b)
           n == Len(bs)
<1>1. bs \in Seq(Blocks) /\ n \in Nat /\ DOMAIN bs = 1 .. n  BY DEF GoodPlan
<1>2. b \in Blocks /\ GoodBlock(list, b) /\ ToSet(b.tags) = {i}  BY NewBlockIsGood
<1> HIDE DEF b
<1>3. /\ new \in Seq(Blocks) /\ DOMAIN new = 1 .. n + 1 /\ new[n + 1] = b
      /\ \A m \in DOMAIN bs : new[m] = bs[m]
  BY <1>1, <1>2
<1> HIDE DEF new
<1>4. \A m \in DOMAIN new : m \in DOMAIN bs \/ m = n + 1  BY <1>1, <1>3
<1>5. ASSUME NEW m \in DOMAIN new
      PROVE  GoodBlock(list, new[m]) /\ ToSet(new[m].tags) \subseteq D \cup {i}
  BY <1>2, <1>3, <1>4 DEF GoodPlan
<1>6. ASSUME NEW j \in D \cup {i}  PROVE \E m \in DOMAIN new : j \in ToSet(new[m].tags)
  <2>1. CASE j = i  BY <2>1, <1>1, <1>2, <1>3
  <2>2. CASE j \in D
    <3>1. PICK m \in DOMAIN bs : j \in ToSet(bs[m].tags)  BY <2>2 DEF GoodPlan
    <3>2. m \in DOMAIN new /\ new[m] = bs[m]  BY <1>1, <1>3
    <3> QED BY <3>1, <3>2
  <2> QED BY <2>1, <2>2
<1>7. ASSUME NEW m \in DOMAIN new, NEW k \in DOMAIN new, m < k,
             NEW x \in ToSet(new[m].tags), NEW y \in ToSet(new[k].tags)
      PROVE  Precedes(list, x, y)
  <2>1. m \in DOMAIN bs /\ new[m] = bs[m]  BY <1>1, <1>3, <1>4, <1>7
  <2>2. CASE k \in DOMAIN bs
    <3>1. new[k] = bs[k]  BY <2>2, <1>3
    <3> QED BY <2>1, <2>2, <3>1, <1>7 DEF GoodPlan
  <2>3. CASE k = n + 1
    <3>1. y = i  BY <2>3, <1>2, <1>3
    <3>2. x \in D  BY <2>1 DEF GoodPlan
    <3> QED BY <3>1, <3>2
  <2> QED BY <2>2, <2>3, <1>4
<1>8. ASSUME NEW m \in DOMAIN new, m + 1 \in DOMAIN new  PROVE Apart(new[m], new[m + 1])
  <2>1. CASE m + 1 \in DOMAIN bs
    <3>1. m \in DOMAIN bs  BY <2>1, <1>1, <1>3
    <3> QED BY <2>1, <3>1, <1>3 DEF GoodPlan
  <2>2. CASE m + 1 = n + 1
    <3>1. m = n /\ m \in DOMAIN bs /\ bs # <<>>  BY <2>2, <1>1, <1>3
    <3> QED BY <2>2, <3>1, <1>3 DEF b
  <2> QED BY <2>1, <2>2, <1>4, <1>8
<1> QED BY <1>3, <1>5, <1>6, <1>7, <1>8 DEF GoodPlan, new, b

(* ... or in the last one.                                                 *)
LEMMA GrownPlanIsGood ==
  ASSUME NEW list \in Seq(Tag), NEW D, NEW bs, GoodPlan(list, D, bs), bs # <<>>,
         NEW i \in DOMAIN list, \A j \in D : Precedes(list, j, i),
         Fits(Last(bs), Grown(Last(bs), list[i], i), list[i])
  PROVE  GoodPlan(list, D \cup {i}, Append(Front(bs), Grown(Last(bs), list[i], i)))
<1> DEFINE n == Len(bs)
           b == bs[n]
           c == Grown(b, list[i], i)
           new == Append(Front(bs), c)
<1>1. bs \in Seq(Blocks) /\ n \in Nat \ {0} /\ DOMAIN bs = 1 .. n  BY DEF GoodPlan
<1>2. b = Last(bs) /\ b \in Blocks /\ n \in DOMAIN bs  BY <1>1 DEF Last
<1>3. GoodBlock(list, b) /\ ToSet(b.tags) \subseteq D  BY <1>2 DEF GoodPlan
<1>4. Fits(b, c, list[i])  BY <1>2
<1>5. /\ c \in Blocks /\ GoodBlock(list, c) /\ ToSet(c.tags) = ToSet(b.tags) \cup {i}
      /\ c.start = b.start /\ BlockEnd(b) <= BlockEnd(c)
      /\ c.function = b.function /\ c.unit = b.unit
  <2>1. \A j \in ToSet(b.tags) : Precedes(list, j, i)  BY <1>3
  <2> HIDE DEF b
  <2> QED BY <2>1, <1>2, <1>3, <1>4, GrownIsGood
<1> HIDE DEF c
<1>6. /\ new \in Seq(Blocks) /\ DOMAIN new = 1 .. n /\ new[n] = c
      /\ \A m \in 1 .. n - 1 : m \in DOMAIN bs /\ new[m] = bs[m]
  <2>1. Front(bs) \in Seq(Blocks) /\ Len(Front(bs)) = n - 1
        /\ \A m \in 1 .. n - 1 : Front(bs)[m] = bs[m]
    BY <1>1 DEF Front
  <2> QED BY <2>1, <1>1, <1>5
<1> HIDE DEF new
<1>7. \A m \in DOMAIN new : m \in DOMAIN bs /\ (m \in 1 .. n - 1 \/ m = n)  BY <1>1, <1>6
<1>8. \A m \in DOMAIN new : ToSet(new[m].tags) \subseteq ToSet(bs[m].tags) \cup {i}
  BY <1>5, <1>6, <1>7
<1>9. ASSUME NEW m \in DOMAIN new
      PROVE  GoodBlock(list, new[m]) /\ ToSet(new[m].tags) \subseteq D \cup {i}
  BY <1>5, <1>6, <1>7, <1>8 DEF GoodPlan
<1>10. ASSUME NEW j \in D \cup {i}  PROVE \E m \in DOMAIN new : j \in ToSet(new[m].tags)
  <2>1. CASE j = i
    <3>1. n \in DOMAIN new /\ i \in ToSet(new[n].tags)  BY <1>1, <1>5, <1>6
    <3> QED BY <2>1, <3>1
  <2>2. CASE j \in D
    <3>1. PICK m \in DOMAIN bs : j \in ToSet(bs[m].tags)  BY <2>2 DEF GoodPlan
    <3>2. m \in DOMAIN new /\ ToSet(bs[m].tags) \subseteq ToSet(new[m].tags)
      <4>1. CASE m = n  BY <4>1, <1>1, <1>5, <1>6
      <4>2. CASE m # n
        <5>1. m \in 1 .. n - 1  BY <4>2, <1>1
        <5> QED BY <5>1, <1>1, <1>6
      <4> QED BY <4>1, <4>2
    <3> QED BY <3>1, <3>2
  <2> QED BY <2>1, <2>2
<1>11. ASSUME NEW m \in DOMAIN new, NEW k \in DOMAIN new, m < k,
              NEW x \in ToSet(new[m].tags), NEW y \in ToSet(new[k].tags)
       PROVE  Precedes(list, x, y)
  <2>1. m \in 1 .. n - 1 /\ m \in DOMAIN bs /\ k \in DOMAIN bs /\ x \in ToSet(bs[m].tags)
    <3>1. m \in 1 .. n - 1  BY <1>1, <1>6, <1>11
    <3> QED BY <3>1, <1>6, <1>7
  <2>2. CASE y = i
    <3>1. x \in D  BY <2>1 DEF GoodPlan
    <3> QED BY <2>2, <3>1
  <2>3. CASE y \in ToSet(bs[k].tags)
    BY <2>1, <2>3, <1>11 DEF GoodPlan
  <2> QED BY <2>2, <2>3, <1>8
<1>12. ASSUME NEW m \in DOMAIN new, m + 1 \in DOMAIN new  PROVE Apart(new[m], new[m + 1])
  <2>1. m \in 1 .. n - 1 /\ m \in DOMAIN bs /\ m + 1 \in DOMAIN bs /\ new[m] = bs[m]
    <3>1. m \in 1 .. n - 1  BY <1>1, <1>6, <1>12
    <3> QED BY <3>1, <1>6, <1>7, <1>12
  <2>2. Apart(bs[m], bs[m + 1])  BY <2>1 DEF GoodPlan
  <2>3. CASE m + 1 = n
    <3>1. Apart(bs[m], b)  BY <2>2, <2>3
    <3>2. /\ bs[m].start \in Nat /\ BlockEnd(b) \in Nat /\ BlockEnd(c) \in Nat
          /\ Limit[bs[m].function] \in Nat
      <4>1. bs[m] \in Blocks  BY <2>1, <1>1
      <4>2. b \in Blocks /\ c \in Blocks  BY <1>2, <1>5
      <4> HIDE DEF b
      <4> QED BY <4>1, <4>2, BlockFacts
    <3>3. Apart(bs[m], c)
      <4> HIDE DEF b
      <4> QED BY <3>1, <3>2, <1>5 DEF Apart
    <3> QED BY <2>1, <2>3, <3>3, <1>6
  <2>4. CASE m + 1 # n
    <3>1. m + 1 \in 1 .. n - 1  BY <2>1, <2>4, <1>1
    <3> QED BY <2>1, <2>2, <3>1, <1>6
  <2> QED BY <2>3, <2>4
<1>13. GoodPlan(list, D \cup {i}, new)
  BY <1>6, <1>9, <1>10, <1>11, <1>12 DEF GoodPlan
<1> QED BY <1>13, <1>2 DEF new, c

LEMMA ExtendedIsGood ==
  ASSUME NEW list \in Seq(Tag), NEW D, NEW bs, GoodPlan(list, D, bs),
         NEW i \in DOMAIN list, \A j \in D : Precedes(list, j, i)
  PROVE  GoodPlan(list, D \cup {i}, Extended(bs, list[i], i))
<1> DEFINE b == NewBlock(list[i], i)
           grown == Grown(Last(bs), list[i], i)
<1>1. CASE bs = <<>>
  <2>1. Extended(bs, list[i], i) = Append(bs, b)  BY <1>1 DEF Extended
  <2> QED BY <1>1, <2>1, AppendedIsGood
<1>2. CASE bs # <<>> /\ Fits(Last(bs), grown, list[i])
  <2>1. Extended(bs, list[i], i) = Append(Front(bs), grown)  BY <1>2 DEF Extended
  <2> QED BY <1>2, <2>1, GrownPlanIsGood
<1>3. CASE bs # <<>> /\ ~Fits(Last(bs), grown, list[i])
  <2>1. Extended(bs, list[i], i) = Append(bs, b)  BY <1>3 DEF Extended
  <2>2. Last(bs) = bs[Len(bs)] /\ Last(bs) \in Blocks
    <3>1. bs \in Seq(Blocks)  BY DEF GoodPlan
    <3> QED BY <3>1, <1>3 DEF Last
  <2> DEFINE end == Last(bs)
  <2>3. /\ end.start \in Nat /\ end.function \in Functions /\ BlockEnd(end) \in Nat
        /\ Limit[end.function] \in Nat
    BY <2>2, BlockFacts
  <2>4. b.start = list[i].address /\ BlockEnd(b) = EndOf(list[i])
        /\ <<b.function, b.unit>> = GroupOf(list[i]) /\ EndOf(list[i]) \in Nat
    BY NewBlockIsGood, TagFacts
  <2>5. grown.count = (IF BlockEnd(end) >= EndOf(list[i]) THEN BlockEnd(end) ELSE EndOf(list[i]))
                        - end.start
    <3>1. grown.count = Max({BlockEnd(end), EndOf(list[i])}) - end.start
      BY <2>2 DEF Grown, Blocks
    <3> QED BY <3>1, <2>3, <2>4, MaxOfTwo
  <2>6. Apart(end, b)
    <3> SUFFICES ASSUME <<end.function, end.unit>> = <<b.function, b.unit>>,
                        b.start <= BlockEnd(end) + MaxGap
                 PROVE  \/ BlockEnd(end) - end.start > Limit[end.function]
                        \/ BlockEnd(b) - end.start > Limit[end.function]
      BY DEF Apart
    <3>1. list[i].function = end.function  BY <2>4, TagFacts
    <3> HIDE DEF b, end
    <3>2. ~(grown.count <= Limit[list[i].function])
      <4>1. ~Fits(end, grown, list[i])  BY <1>3 DEF end
      <4> HIDE DEF grown
      <4> QED BY <4>1, <2>4 DEF Fits
    <3> HIDE DEF grown
    <3> QED BY <3>1, <3>2, <2>3, <2>4, <2>5
  <2> QED BY <2>1, <2>2, <2>6, AppendedIsGood
<1> QED BY <1>1, <1>2, <1>3

(* The whole plan.                                                         *)
LEMMA PlanIsGood ==
  ASSUME NEW list \in Seq(Tag)
  PROVE  GoodPlan(list, DOMAIN list, PlanBlocks(list))
<1> DEFINE s == Sorted(list)
           n == Len(list)
           D(m) == {s[k] : k \in 1 .. m}
<1>1. PICK g : /\ PlanBlocks(list) = g[1 .. n]
               /\ g[{}] = <<>>
               /\ \A m \in 1 .. n : g[1 .. m] = Extended(g[1 .. m - 1], list[s[m]], s[m])
  BY PlanIsFold
<1>2. /\ n \in Nat /\ DOMAIN list = 1 .. n
      /\ \A m \in 1 .. n : s[m] \in DOMAIN list
      /\ \A i \in DOMAIN list : \E m \in 1 .. n : s[m] = i
      /\ \A k, m \in 1 .. n : k < m => Precedes(list, s[k], s[m])
  <2>1. s \in Seq(DOMAIN list) /\ Len(s) = n  BY SortedFacts
  <2>2. \A m \in 1 .. n : s[m] \in DOMAIN list  BY <2>1
  <2> QED BY <2>2, SortedFacts
<1> HIDE DEF s, n
<1> DEFINE T == {m \in 0 .. n : ~GoodPlan(list, D(m), g[1 .. m])}
<1>3. ASSUME T # {}  PROVE FALSE
  <2>1. PICK m \in T : \A k \in T : m <= k
    <3>1. T \in SUBSET Nat  BY <1>2
    <3> HIDE DEF T
    <3> QED BY <3>1, <1>3, SmallestOf
  <2>2. m # 0
    <3>1. 1 .. 0 = {}  OBVIOUS
    <3>2. GoodPlan(list, {}, <<>>)  BY DEF GoodPlan
    <3> QED BY <3>1, <3>2, <1>1
  <2>3. m \in 1 .. n /\ m - 1 \in 0 .. n
    BY <2>2, <1>2
  <2>4. GoodPlan(list, D(m - 1), g[1 .. m - 1])
    <3>1. m - 1 \notin T
      <4>1. ~(m <= m - 1)  BY <2>3, <1>2
      <4> HIDE DEF T
      <4> QED BY <2>1, <4>1
    <3> HIDE DEF D
    <3> QED BY <2>3, <3>1
  <2>5. \A j \in D(m - 1) : Precedes(list, j, s[m])
    <3>1. \A k \in 1 .. m - 1 : k \in 1 .. n /\ k < m  BY <2>3, <1>2
    <3> QED BY <3>1, <2>3, <1>2
  <2>6. D(m) = D(m - 1) \cup {s[m]}
    <3>1. 1 .. m = (1 .. m - 1) \cup {m}  BY <2>3, <1>2
    <3> QED BY <3>1
  <2>7. GoodPlan(list, D(m), g[1 .. m])
    <3> HIDE DEF D, T
    <3>1. s[m] \in DOMAIN list  BY <2>3, <1>2
    <3>2. GoodPlan(list, D(m - 1) \cup {s[m]}, Extended(g[1 .. m - 1], list[s[m]], s[m]))
      BY <2>4, <2>5, <3>1, ExtendedIsGood
    <3> QED BY <2>3, <2>6, <3>2, <1>1
  <2> QED BY <2>7, <2>1
<1>4. GoodPlan(list, D(n), g[1 .. n])
  <2>1. n \in 0 .. n  BY <1>2
  <2>2. n \notin T
    <3> HIDE DEF T
    <3> QED BY <1>3
  <2> HIDE DEF D
  <2> QED BY <2>1, <2>2
<1>5. D(n) = DOMAIN list  BY <1>2
<1> QED BY <1>1, <1>4, <1>5

-----------------------------------------------------------------------------
(* What follows for the requests of the device.                            *)
PlanInv == tags \in TagLists /\ plan = PlanBlocks(tags)

LEMMA PlanInvFacts ==
  ASSUME PlanInv
  PROVE  tags \in Seq(Tag) /\ GoodPlan(tags, DOMAIN tags, plan)
<1>1. tags \in Seq(Tag)  BY ModbusAssumption DEF PlanInv
<1> QED BY <1>1, PlanIsGood DEF PlanInv

(* A tag is in one block, ...                                              *)
LEMMA OneBlock ==
  ASSUME NEW list \in Seq(Tag), NEW bs, GoodPlan(list, DOMAIN list, bs),
         NEW m \in DOMAIN bs, NEW k \in DOMAIN bs,
         \E i : i \in ToSet(bs[m].tags) /\ i \in ToSet(bs[k].tags)
  PROVE  m = k
<1>1. PICK i : i \in ToSet(bs[m].tags) /\ i \in ToSet(bs[k].tags)  OBVIOUS
<1>2. i \in DOMAIN list  BY <1>1 DEF GoodPlan, GoodBlock
<1>3. m \in Nat /\ k \in Nat  BY DEF GoodPlan
<1>4. CASE m < k
  <2>1. Precedes(list, i, i)  BY <1>1, <1>4 DEF GoodPlan
  <2> QED BY <2>1, <1>2, PrecedesOrders
<1>5. CASE k < m
  <2>1. Precedes(list, i, i)  BY <1>1, <1>5 DEF GoodPlan
  <2> QED BY <2>1, <1>2, PrecedesOrders
<1> QED BY <1>3, <1>4, <1>5

(* ... the blocks of a group are requested by address, ...                 *)
LEMMA StartsInOrder ==
  ASSUME NEW list \in Seq(Tag), NEW bs, GoodPlan(list, DOMAIN list, bs),
         NEW m \in DOMAIN bs, NEW k \in DOMAIN bs, m < k,
         <<bs[m].function, bs[m].unit>> = <<bs[k].function, bs[k].unit>>
  PROVE  bs[m].start <= bs[k].start
<1>1. PICK i \in ToSet(bs[m].tags) : list[i].address = bs[m].start  BY DEF GoodPlan, GoodBlock
<1>2. PICK j \in ToSet(bs[k].tags) : list[j].address = bs[k].start  BY DEF GoodPlan, GoodBlock
<1>3. i \in DOMAIN list /\ j \in DOMAIN list /\ GroupOf(list[i]) = GroupOf(list[j])
  BY <1>1, <1>2 DEF GoodPlan, GoodBlock
<1>4. Precedes(list, i, j)  BY <1>1, <1>2 DEF GoodPlan
<1>5. Leader(list, i) = Leader(list, j) /\ Leader(list, j) \in Nat
  <2>1. Leader(list, i) = Leader(list, j) /\ Leader(list, j) \in DOMAIN list
    BY <1>3, LeaderFacts
  <2> QED BY <2>1, TagFacts
<1> QED BY <1>1, <1>2, <1>3, <1>4, <1>5, TagFacts DEF Precedes

(* ... and none of another group comes between them.                       *)
LEMMA GroupsTogether ==
  ASSUME NEW list \in Seq(Tag), NEW bs, GoodPlan(list, DOMAIN list, bs),
         NEW m \in DOMAIN bs, NEW l \in DOMAIN bs, NEW k \in DOMAIN bs, m < l, l < k,
         <<bs[m].function, bs[m].unit>> = <<bs[k].function, bs[k].unit>>
  PROVE  <<bs[l].function, bs[l].unit>> = <<bs[m].function, bs[m].unit>>
<1>1. PICK x \in ToSet(bs[m].tags), y \in ToSet(bs[l].tags), z \in ToSet(bs[k].tags) : TRUE
  BY DEF GoodPlan, GoodBlock
<1>2. /\ x \in DOMAIN list /\ GroupOf(list[x]) = <<bs[m].function, bs[m].unit>>
      /\ y \in DOMAIN list /\ GroupOf(list[y]) = <<bs[l].function, bs[l].unit>>
      /\ z \in DOMAIN list /\ GroupOf(list[z]) = <<bs[k].function, bs[k].unit>>
  BY <1>1 DEF GoodPlan, GoodBlock
<1>3. Precedes(list, x, y) /\ Precedes(list, y, z)  BY <1>1 DEF GoodPlan
<1>4. Leader(list, x) \in Nat /\ Leader(list, y) \in Nat /\ Leader(list, x) = Leader(list, z)
  <2>1. Leader(list, x) \in DOMAIN list /\ Leader(list, y) \in DOMAIN list
        /\ Leader(list, x) = Leader(list, z)
    BY <1>2, LeaderFacts
  <2> QED BY <2>1, TagFacts
<1>5. Leader(list, x) = Leader(list, y)  BY <1>3, <1>4 DEF Precedes
<1> QED BY <1>2, <1>5, LeaderFacts

LEMMA PlanCoversAll == PlanInv => PlanCoversTags
<1> SUFFICES ASSUME PlanInv, NEW i \in DOMAIN tags
             PROVE  \E b \in Requests :
                      /\ \A c \in Requests : i \in ToSet(c.tags) <=> c = b
                      /\ <<b.function, b.unit>> = GroupOf(tags[i])
                      /\ b.start <= tags[i].address /\ EndOf(tags[i]) <= BlockEnd(b)
  BY DEF PlanCoversTags
<1>1. tags \in Seq(Tag) /\ GoodPlan(tags, DOMAIN tags, plan)  BY PlanInvFacts
<1>2. PICK m \in DOMAIN plan : i \in ToSet(plan[m].tags)  BY <1>1 DEF GoodPlan
<1> DEFINE b == plan[m]
<1>3. b \in Requests  BY DEF Requests, ToSet
<1>4. ASSUME NEW c \in Requests, i \in ToSet(c.tags)  PROVE c = b
  <2>1. PICK k \in DOMAIN plan : c = plan[k]  BY DEF Requests, ToSet
  <2>2. k = m  BY <1>1, <1>2, <1>4, <2>1, OneBlock
  <2> QED BY <2>1, <2>2
<1>5. GoodBlock(tags, b)  BY <1>1 DEF GoodPlan
<1>6. /\ <<b.function, b.unit>> = GroupOf(tags[i])
      /\ b.start <= tags[i].address /\ EndOf(tags[i]) <= BlockEnd(b)
  BY <1>2, <1>5 DEF GoodBlock
<1> HIDE DEF b
<1>7. i \in ToSet(b.tags)  BY <1>2 DEF b
<1> QED BY <1>3, <1>4, <1>6, <1>7

(* What a block is for and how long it is.                                 *)
LEMMA BlockIsFrugal ==
  ASSUME PlanInv, NEW b \in Requests
  PROVE  /\ b.count <= Limit[b.function] \/ Len(b.tags) = 1
         /\ {b.start, BlockEnd(b) - 1} \subseteq Wanted(b)
         /\ \A a \in b.start .. BlockEnd(b) - 1 : (a .. a + MaxGap) \cap Wanted(b) # {}
<1>1. tags \in Seq(Tag) /\ GoodPlan(tags, DOMAIN tags, plan)  BY PlanInvFacts
<1>2. b \in Blocks /\ GoodBlock(tags, b)  BY <1>1 DEF Requests, ToSet, GoodPlan
<1>3. \A i \in ToSet(b.tags) : i \in DOMAIN tags  BY <1>2 DEF GoodBlock
<1>4. \A i \in ToSet(b.tags) : tags[i].address .. EndOf(tags[i]) - 1 \subseteq Wanted(b)
  BY DEF Wanted
<1>5. b.start \in Wanted(b)
  <2>1. PICK i \in ToSet(b.tags) : tags[i].address = b.start  BY <1>2 DEF GoodBlock
  <2>2. b.start \in tags[i].address .. EndOf(tags[i]) - 1  BY <2>1, <1>1, <1>3, TagFacts
  <2> QED BY <2>2, <1>4
<1>6. BlockEnd(b) - 1 \in Wanted(b)
  <2>1. PICK i \in ToSet(b.tags) : EndOf(tags[i]) = BlockEnd(b)  BY <1>2 DEF GoodBlock
  <2>2. EndOf(tags[i]) - 1 \in tags[i].address .. EndOf(tags[i]) - 1
    BY <1>1, <1>3, TagFacts
  <2> QED BY <2>1, <2>2, <1>4
<1>7. ASSUME NEW a \in b.start .. BlockEnd(b) - 1
      PROVE  (a .. a + MaxGap) \cap Wanted(b) # {}
  <2>1. PICK i \in ToSet(b.tags) : tags[i].address <= a + MaxGap /\ a < EndOf(tags[i])
    BY <1>2 DEF GoodBlock
  <2> DEFINE w == IF a <= tags[i].address THEN tags[i].address ELSE a
  <2>2. a \in Nat /\ MaxGap \in Nat  BY <1>2, BlockFacts, ModbusAssumption
  <2>3. /\ tags[i].address \in Nat /\ EndOf(tags[i]) \in Nat
        /\ tags[i].address < EndOf(tags[i])
    BY <1>1, <1>3, TagFacts
  <2>4. w \in a .. a + MaxGap /\ w \in tags[i].address .. EndOf(tags[i]) - 1
    BY <2>1, <2>2, <2>3
  <2> QED BY <2>4, <1>4
<1> QED BY <1>2, <1>5, <1>6, <1>7 DEF GoodBlock

(* Two neighbours, the one requested first first.                          *)
LEMMA NeighboursAreApart ==
  ASSUME PlanInv, NEW b \in Requests, NEW c \in Requests, Neighbours(b, c),
         c.start <= BlockEnd(b) + MaxGap
  PROVE  \/ BlockEnd(b) - b.start > Limit[b.function]
         \/ BlockEnd(c) - b.start > Limit[b.function]
<1>1. tags \in Seq(Tag) /\ GoodPlan(tags, DOMAIN tags, plan)  BY PlanInvFacts
<1>2. PICK m \in DOMAIN plan, k \in DOMAIN plan : b = plan[m] /\ c = plan[k]
  BY DEF Requests, ToSet
<1>3. /\ <<c.function, c.unit>> = <<b.function, b.unit>> /\ c # b /\ b.start <= c.start
      /\ \A d \in Requests : <<d.function, d.unit>> = <<b.function, b.unit>> /\ d # b /\ d # c
           => ~(b.start <= d.start /\ d.start <= c.start)
  BY DEF Neighbours
<1>4. /\ plan \in Seq(Blocks) /\ DOMAIN plan = 1 .. Len(plan) /\ Len(plan) \in Nat
      /\ \A n \in DOMAIN plan : plan[n] \in Blocks /\ plan[n] \in Requests
  BY <1>1 DEF GoodPlan, Requests, ToSet
<1>5. /\ b.start \in Nat /\ c.start \in Nat /\ BlockEnd(b) \in Nat /\ BlockEnd(c) \in Nat
      /\ c.start < BlockEnd(c) /\ MaxGap \in Nat
  <2>1. b \in Blocks /\ c \in Blocks  BY <1>2, <1>4
  <2>2. /\ b.start \in Nat /\ c.start \in Nat /\ BlockEnd(b) \in Nat
        /\ BlockEnd(c) = c.start + c.count /\ c.count \in Nat \ {0}
    BY <2>1, BlockFacts
  <2> QED BY <2>2, ModbusAssumption
<1>6. ASSUME NEW n \in DOMAIN plan, NEW l \in DOMAIN plan, n # l  PROVE plan[n] # plan[l]
  <2>1. PICK i : i \in ToSet(plan[n].tags)  BY <1>1 DEF GoodPlan, GoodBlock
  <2> QED BY <2>1, <1>1, <1>6, OneBlock
<1>7. m # k  BY <1>2, <1>3
<1>8. CASE m < k
  <2>1. k = m + 1
    <3> SUFFICES ASSUME k # m + 1  PROVE FALSE
      OBVIOUS
    <3>1. m + 1 \in DOMAIN plan /\ m < m + 1 /\ m + 1 < k  BY <1>4, <1>8
    <3> DEFINE l == m + 1
               d == plan[l]
    <3> HIDE DEF l
    <3>2. l \in DOMAIN plan /\ m < l /\ l < k  BY <3>1 DEF l
    <3>3. <<d.function, d.unit>> = <<b.function, b.unit>>
      BY <3>2, <1>1, <1>2, <1>3, GroupsTogether
    <3>4. b.start <= d.start /\ d.start <= c.start
      BY <3>2, <3>3, <1>1, <1>2, <1>3, StartsInOrder
    <3>5. d # b /\ d # c /\ d \in Requests
      BY <3>2, <1>2, <1>4, <1>6
    <3> QED BY <3>3, <3>4, <3>5, <1>3
  <2>2. Apart(b, c)  BY <2>1, <1>1, <1>2 DEF GoodPlan
  <2> QED BY <2>2, <1>3 DEF Apart
<1>9. CASE k < m
  <2>1. c.start = b.start
    <3>1. c.start <= b.start  BY <1>1, <1>2, <1>3, <1>9, StartsInOrder
    <3> QED BY <3>1, <1>3, <1>5
  <2>2. m = k + 1
    <3> SUFFICES ASSUME m # k + 1  PROVE FALSE
      OBVIOUS
    <3>1. k + 1 \in DOMAIN plan /\ k < k + 1 /\ k + 1 < m  BY <1>4, <1>9
    <3> DEFINE l == k + 1
               d == plan[l]
    <3> HIDE DEF l
    <3>2. l \in DOMAIN plan /\ k < l /\ l < m  BY <3>1 DEF l
    <3>3. <<d.function, d.unit>> = <<b.function, b.unit>>
      BY <3>2, <1>1, <1>2, <1>3, GroupsTogether
    <3>4. c.start <= d.start /\ d.start <= b.start
      BY <3>2, <3>3, <1>1, <1>2, <1>3, StartsInOrder
    <3>5. d # b /\ d # c /\ d \in Requests
      BY <3>2, <1>2, <1>4, <1>6
    <3> QED BY <3>3, <3>4, <3>5, <2>1, <1>3
  <2>3. Apart(c, b)  BY <2>2, <1>1, <1>2 DEF GoodPlan
  <2>4. b.start <= BlockEnd(c) + MaxGap  BY <2>1, <1>5
  <2>5. c.function = b.function  BY <1>3
  <2> QED BY <2>1, <2>3, <2>4, <2>5, <1>3 DEF Apart
<1> QED BY <1>4, <1>7, <1>8, <1>9

LEMMA PlanFrugal == PlanInv => PlanIsFrugal
<1> SUFFICES ASSUME PlanInv  PROVE PlanIsFrugal
  OBVIOUS
<1>1. ASSUME NEW b \in Requests, NEW c \in Requests, Neighbours(b, c),
             c.start <= BlockEnd(b) + MaxGap
      PROVE  Max({BlockEnd(b), BlockEnd(c)}) - b.start > Limit[b.function]
  <2>1. \/ BlockEnd(b) - b.start > Limit[b.function]
        \/ BlockEnd(c) - b.start > Limit[b.function]
    BY <1>1, NeighboursAreApart
  <2>2. b \in Blocks /\ c \in Blocks  BY PlanInvFacts DEF GoodPlan, Requests, ToSet
  <2>3. /\ BlockEnd(b) \in Nat /\ BlockEnd(c) \in Nat /\ b.start \in Nat
        /\ Limit[b.function] \in Nat
    BY <2>2, BlockFacts
  <2> QED BY <2>1, <2>3, MaxOfTwo
<1> QED BY <1>1, BlockIsFrugal DEF PlanIsFrugal

-----------------------------------------------------------------------------
(* The results.  A response of r items, -1 for an error, says of tag i:    *)
ResultOf(list, b, r, i) ==
  IF EndOf(list[i]) <= b.start + r
    THEN [n \in 1 .. list[i].count |-> list[i].address + n - 1]
    ELSE Bad

(* What the responses `rs` so far say of it.                               *)
ToldOf(list, bs, rs, i) ==
  LET k == CHOOSE k \in DOMAIN rs : i \in ToSet(bs[k].tags)
  IN ResultOf(list, bs[k], rs[k], i)

LEMMA ToldIs == \A i : Told(i) = ToldOf(tags, plan, answered, i)
BY DEF Told, ToldOf, ResultOf

LEMMA ToldNext == \A i : Told(i)' = ToldOf(tags', plan', answered', i)
BY DEF Told, ToldOf, ResultOf

(* The response that counts for a tag is the one to its block.             *)
LEMMA ToldByBlock ==
  ASSUME NEW list \in Seq(Tag), NEW bs, GoodPlan(list, DOMAIN list, bs),
         NEW rs, DOMAIN rs \subseteq DOMAIN bs, NEW k \in DOMAIN rs, NEW i \in ToSet(bs[k].tags)
  PROVE  ToldOf(list, bs, rs, i) = ResultOf(list, bs[k], rs[k], i)
<1> DEFINE l == CHOOSE l \in DOMAIN rs : i \in ToSet(bs[l].tags)
<1>1. l \in DOMAIN rs /\ i \in ToSet(bs[l].tags)  OBVIOUS
<1>2. ToldOf(list, bs, rs, i) = ResultOf(list, bs[l], rs[l], i)  BY DEF ToldOf
<1> HIDE DEF l
<1>3. l = k  BY <1>1, OneBlock
<1> QED BY <1>2, <1>3

LEMMA MaxFacts ==
  ASSUME NEW n \in Nat, NEW T \in SUBSET (1 .. n), T # {}
  PROVE  Max(T) \in T
<1> DEFINE U == {u \in Nat : \A x \in T : x <= u}
<1>1. n \in U /\ U \in SUBSET Nat  OBVIOUS
<1>2. PICK u \in U : \A v \in U : u <= v
  <2> HIDE DEF U
  <2> QED BY <1>1, SmallestOf
<1>3. u \in T
  <2> SUFFICES ASSUME u \notin T  PROVE FALSE
    OBVIOUS
  <2>1. \A x \in T : x \in Nat /\ 1 <= x /\ x <= u /\ x # u  OBVIOUS
  <2>2. u - 1 \in U
    <3>1. PICK x \in T : TRUE  OBVIOUS
    <3>2. u \in Nat /\ u >= 1  BY <2>1, <3>1
    <3> QED BY <2>1, <3>2
  <2> QED BY <2>2, <1>2
<1> QED BY <1>3 DEF Max

(* A dictionary has the names of the block's tags, and for each of them    *)
(* the result of a tag of that name.                                       *)
IsByName(dict, b, result) ==
  /\ DOMAIN dict = {tags[i].name : i \in ToSet(b.tags)}
  /\ \A name \in DOMAIN dict :
       \E i \in ToSet(b.tags) : tags[i].name = name /\ dict[name] = result[i]

LEMMA ByNameFacts ==
  ASSUME NEW b \in Blocks, NEW result
  PROVE  IsByName(ByName(b, result), b, result)
<1> DEFINE at(name) == {k \in DOMAIN b.tags : tags[b.tags[k]].name = name}
           names == {tags[i].name : i \in ToSet(b.tags)}
<1>1. ByName(b, result) = [name \in names |-> result[b.tags[Max(at(name))]]]
  BY DEF ByName
<1>2. ASSUME NEW name \in names
      PROVE  \E i \in ToSet(b.tags) : tags[i].name = name /\ ByName(b, result)[name] = result[i]
  <2>1. DOMAIN b.tags = 1 .. Len(b.tags) /\ Len(b.tags) \in Nat  BY BlockFacts
  <2>2. at(name) # {} /\ at(name) \in SUBSET (1 .. Len(b.tags))  BY <2>1 DEF ToSet
  <2> DEFINE k == Max(at(name))
  <2>3. k \in at(name)
    <3> HIDE DEF at
    <3> QED BY <2>1, <2>2, MaxFacts
  <2>4. ByName(b, result)[name] = result[b.tags[k]]  BY <1>1
  <2> HIDE DEF k
  <2> QED BY <2>3, <2>4 DEF ToSet
<1> QED BY <1>1, <1>2 DEF IsByName

(* What is decoded from a response of r items.                             *)
Response(b, r) == [k \in 1 .. r |-> b.start + k - 1]

Read(b, r) == IF r = -1 THEN ByName(b, [i \in ToSet(b.tags) |-> Bad]) ELSE Decode(b, Response(b, r))

LEMMA SliceIsResult ==
  ASSUME NEW list \in Seq(Tag), NEW b \in Blocks, GoodBlock(list, b), NEW i \in ToSet(b.tags),
         NEW r \in Nat
  PROVE  LET o == list[i].address - b.start
             c == list[i].count
         IN  (IF o + c <= Len(Response(b, r)) THEN SubSeq(Response(b, r), o + 1, o + c) ELSE Bad)
               = ResultOf(list, b, r, i)
<1> DEFINE o == list[i].address - b.start
           c == list[i].count
           s == Response(b, r)
<1>1. /\ i \in DOMAIN list /\ b.start <= list[i].address  BY DEF GoodBlock
<1>2. /\ b.start \in Nat /\ list[i].address \in Nat /\ c \in Nat \ {0}
      /\ EndOf(list[i]) = list[i].address + c
  BY <1>1, BlockFacts, TagFacts
<1>3. o \in Nat /\ list[i].address = b.start + o  BY <1>1, <1>2
<1>4. s \in Seq(Int) /\ Len(s) = r /\ \A k \in 1 .. r : s[k] = b.start + k - 1
  BY <1>2 DEF Response
<1> HIDE DEF o, c, s
<1>5. o + c <= r <=> EndOf(list[i]) <= b.start + r  BY <1>2, <1>3
<1>6. ASSUME o + c <= r
      PROVE  SubSeq(s, o + 1, o + c) = [n \in 1 .. c |-> list[i].address + n - 1]
  <2>1. SubSeq(s, o + 1, o + c) = [n \in 1 .. c |-> s[n + o]]
    BY <1>2, <1>3, <1>4, <1>6
  <2>2. \A n \in 1 .. c : s[n + o] = list[i].address + n - 1
    BY <1>2, <1>3, <1>4, <1>6
  <2> QED BY <2>1, <2>2
<1> QED BY <1>4, <1>5, <1>6 DEF ResultOf, o, c, s

LEMMA ReadFacts ==
  ASSUME PlanInv, NEW b \in Requests, NEW r \in -1 .. b.count + 1
  PROVE  /\ DOMAIN Read(b, r) = {tags[i].name : i \in ToSet(b.tags)}
         /\ \A name \in DOMAIN Read(b, r) :
              \E i \in ToSet(b.tags) : tags[i].name = name /\ Read(b, r)[name] = ResultOf(tags, b, r, i)
<1>1. tags \in Seq(Tag) /\ b \in Blocks /\ GoodBlock(tags, b)
  BY PlanInvFacts DEF GoodPlan, Requests, ToSet
<1>2. CASE r = -1
  <2> DEFINE f == [i \in ToSet(b.tags) |-> Bad]
  <2>1. Read(b, r) = ByName(b, f)  BY <1>2 DEF Read
  <2>2. ASSUME NEW i \in ToSet(b.tags)  PROVE f[i] = ResultOf(tags, b, r, i)
    <3>1. i \in DOMAIN tags /\ b.start <= tags[i].address  BY <1>1 DEF GoodBlock
    <3>2. ~(EndOf(tags[i]) <= b.start + r)
      <4>1. b.start \in Nat  BY <1>1, BlockFacts
      <4>2. tags[i].address \in Nat /\ tags[i].count \in Nat \ {0}
            /\ EndOf(tags[i]) = tags[i].address + tags[i].count
        BY <1>1, <3>1, TagFacts
      <4> QED BY <4>1, <4>2, <3>1, <1>2
    <3> QED BY <3>2 DEF ResultOf
  <2> HIDE DEF f
  <2>3. b \in Blocks  BY <1>1
  <2>4. IsByName(ByName(b, f), b, f)  BY <2>3, ByNameFacts
  <2> QED BY <2>1, <2>2, <2>4 DEF IsByName
<1>3. CASE r # -1
  <2>1. r \in Nat  BY <1>1, <1>3, BlockFacts
  <2> DEFINE s == Response(b, r)
             offset(i) == tags[i].address - b.start
             f == [i \in ToSet(b.tags) |->
                     IF offset(i) + tags[i].count <= Len(s)
                       THEN SubSeq(s, offset(i) + 1, offset(i) + tags[i].count) ELSE Bad]
  <2>2. Read(b, r) = ByName(b, f)  BY <1>3 DEF Read, Decode
  <2>3. ASSUME NEW i \in ToSet(b.tags)  PROVE f[i] = ResultOf(tags, b, r, i)
    BY <1>1, <2>1, SliceIsResult
  <2> HIDE DEF f
  <2>4. b \in Blocks  BY <1>1
  <2>5. IsByName(ByName(b, f), b, f)  BY <2>4, ByNameFacts
  <2> QED BY <2>2, <2>3, <2>5 DEF IsByName
<1> QED BY <1>2, <1>3

-----------------------------------------------------------------------------
(* The inductive invariant: the plan is that of the tags, the responses    *)
(* are those of its first requests, and the results follow from them.      *)
ReadInv ==
  /\ PlanInv
  /\ answered \in Seq(Int) /\ Len(answered) <= Len(plan)
  /\ \A k \in DOMAIN answered : answered[k] \in -1 .. plan[k].count + 1
  /\ DOMAIN byName = {tags[i].name : i \in Asked}
  /\ TagsGetTheirOwnItems

LEMMA InitReadInv == Init => ReadInv
<1> SUFFICES ASSUME Init  PROVE ReadInv
  OBVIOUS
<1>1. PlanInv /\ answered = <<>> /\ byName = <<>>  BY DEF Init, PlanInv
<1>2. Asked = {} /\ DOMAIN byName = {}  BY <1>1 DEF Asked
<1>3. Len(plan) \in Nat
  <2>1. plan \in Seq(Blocks)  BY <1>1, PlanInvFacts DEF GoodPlan
  <2> QED BY <2>1
<1> QED BY <1>1, <1>2, <1>3 DEF ReadInv, TagsGetTheirOwnItems

LEMMA ReadKeepsInv ==
  ASSUME ReadInv, Len(answered) < Len(plan), ReadBlock(plan[Len(answered) + 1])
  PROVE  ReadInv'
<1> DEFINE n == Len(answered)
           m == n + 1
           b == plan[m]
<1>1. /\ PlanInv /\ tags \in Seq(Tag) /\ GoodPlan(tags, DOMAIN tags, plan) /\ plan \in Seq(Blocks)
      /\ DOMAIN plan = 1 .. Len(plan) /\ Len(plan) \in Nat
      /\ answered \in Seq(Int) /\ DOMAIN answered = 1 .. n /\ n \in Nat
  <2>1. PlanInv /\ answered \in Seq(Int)  BY DEF ReadInv
  <2>2. tags \in Seq(Tag) /\ GoodPlan(tags, DOMAIN tags, plan) /\ plan \in Seq(Blocks)
    BY <2>1, PlanInvFacts DEF GoodPlan
  <2> QED BY <2>1, <2>2
<1>2. m \in DOMAIN plan /\ b \in Requests /\ b \in Blocks
  <2>1. m \in DOMAIN plan  BY <1>1
  <2> QED BY <2>1, <1>1 DEF Requests, ToSet
<1>3. PICK r \in -1 .. b.count + 1 :
        answered' = Append(answered, r) /\ byName' = Update(byName, Read(b, r))
  BY DEF ReadBlock, Read, Response
<1>4. tags' = tags /\ plan' = plan  BY DEF ReadBlock
<1>5. r \in Int /\ b.count \in Nat  BY <1>2, BlockFacts
<1>6. /\ answered' \in Seq(Int) /\ Len(answered') = m /\ DOMAIN answered' = 1 .. m
      /\ \A k \in DOMAIN answered : k \in DOMAIN answered' /\ answered'[k] = answered[k]
      /\ m \in DOMAIN answered' /\ answered'[m] = r
      /\ \A k \in DOMAIN answered' : k \in DOMAIN answered \/ k = m
  BY <1>1, <1>3, <1>5
<1>7. DOMAIN answered \subseteq DOMAIN plan /\ DOMAIN answered' \subseteq DOMAIN plan
  BY <1>1, <1>6
<1>8. Asked' = Asked \cup ToSet(b.tags)
  BY <1>4, <1>6 DEF Asked
<1> HIDE DEF b, m, n
<1> DEFINE new == Read(b, r)
<1>9. /\ DOMAIN new = {tags[i].name : i \in ToSet(b.tags)}
      /\ \A name \in DOMAIN new :
           \E i \in ToSet(b.tags) : tags[i].name = name /\ new[name] = ResultOf(tags, b, r, i)
  BY <1>1, <1>2, ReadFacts
<1> HIDE DEF new
<1>10. /\ DOMAIN byName' = DOMAIN byName \cup DOMAIN new
       /\ \A name \in DOMAIN byName' :
            byName'[name] = IF name \in DOMAIN new THEN new[name] ELSE byName[name]
  BY <1>3 DEF Update, new
<1>11. DOMAIN byName = {tags[i].name : i \in Asked}  BY DEF ReadInv
<1>12. DOMAIN byName' = {tags'[i].name : i \in Asked'}
  BY <1>4, <1>8, <1>9, <1>10, <1>11
<1>13. tags \in Seq(Tag) /\ GoodPlan(tags, DOMAIN tags, plan)  BY <1>1
<1>14. DOMAIN answered' \subseteq DOMAIN plan  BY <1>7
<1>15. DOMAIN answered \subseteq DOMAIN plan  BY <1>7
<1>16. ASSUME NEW i \in ToSet(b.tags)  PROVE Told(i)' = ResultOf(tags, b, r, i)
  <2>1. Told(i)' = ToldOf(tags, plan, answered', i)  BY <1>4, ToldNext
  <2>2. i \in ToSet(plan[m].tags)  BY DEF b
  <2>3. m \in DOMAIN answered'  BY <1>6
  <2>4. ToldOf(tags, plan, answered', i) = ResultOf(tags, plan[m], answered'[m], i)
    BY <2>2, <2>3, <1>13, <1>14, ToldByBlock
  <2> QED BY <2>1, <2>4, <1>6 DEF b
<1>17. ASSUME NEW i \in Asked  PROVE Told(i)' = Told(i)
  <2>1. PICK k \in DOMAIN answered : i \in ToSet(plan[k].tags)  BY DEF Asked
  <2>2. ToldOf(tags, plan, answered, i) = ResultOf(tags, plan[k], answered[k], i)
    BY <2>1, <1>13, <1>15, ToldByBlock
  <2>3. ToldOf(tags, plan, answered', i) = ResultOf(tags, plan[k], answered'[k], i)
    <3>1. k \in DOMAIN answered'  BY <1>6
    <3> QED BY <2>1, <3>1, <1>13, <1>14, ToldByBlock
  <2> QED BY <2>2, <2>3, <1>4, <1>6, ToldIs, ToldNext
<1>18. ASSUME NEW i \in Asked'
       PROVE  \E j \in Asked' : tags[j].name = tags[i].name /\ byName'[tags[i].name] = Told(j)'
  <2> DEFINE name == tags[i].name
  <2>1. name \in DOMAIN byName'  BY <1>4, <1>12
  <2>2. CASE name \in DOMAIN new
    <3>1. PICK j \in ToSet(b.tags) : tags[j].name = name /\ new[name] = ResultOf(tags, b, r, j)
      BY <2>2, <1>9
    <3>2. byName'[name] = Told(j)'  BY <2>1, <2>2, <3>1, <1>10, <1>16
    <3> QED BY <3>1, <3>2, <1>8
  <2>3. CASE name \notin DOMAIN new
    <3>1. i \in Asked  BY <2>3, <1>8, <1>9
    <3>2. PICK j \in Named(name) : byName[name] = Told(j)
      <4>1. byName[name] \in {Told(j) : j \in Named(name)}
        BY <3>1 DEF ReadInv, TagsGetTheirOwnItems
      <4> QED BY <4>1
    <3>3. j \in Asked /\ tags[j].name = name  BY <3>2 DEF Named
    <3>4. byName'[name] = Told(j)'  BY <2>1, <2>3, <3>2, <3>3, <1>10, <1>17
    <3> QED BY <3>3, <3>4, <1>8
  <2> QED BY <2>2, <2>3
<1>19. TagsGetTheirOwnItems'
  <2> SUFFICES ASSUME NEW i \in Asked'
               PROVE  byName'[tags'[i].name] \in {Told(j)' : j \in Named(tags[i].name)'}
    BY <1>4 DEF TagsGetTheirOwnItems
  <2>1. PICK j \in Asked' : tags[j].name = tags[i].name /\ byName'[tags[i].name] = Told(j)'
    BY <1>18
  <2>2. j \in Named(tags[i].name)'  BY <2>1, <1>4 DEF Named
  <2> QED BY <2>1, <2>2, <1>4
<1>20. PlanInv' /\ Len(answered') <= Len(plan')
  <2>1. Len(answered') <= Len(plan)  BY <1>1, <1>2, <1>6
  <2> QED BY <2>1, <1>1, <1>4 DEF PlanInv
<1>21. \A k \in DOMAIN answered' : answered'[k] \in -1 .. plan'[k].count + 1
  BY <1>3, <1>4, <1>6 DEF ReadInv, b
<1> QED BY <1>6, <1>12, <1>19, <1>20, <1>21 DEF ReadInv

LEMMA ReadInvariant == Spec => []ReadInv
<1>1. ASSUME ReadInv, [Next]_vars  PROVE ReadInv'
  <2>1. CASE Next  BY <2>1, <1>1, ReadKeepsInv DEF Next
  <2>2. CASE UNCHANGED vars
    <3>1. tags' = tags /\ plan' = plan /\ answered' = answered /\ byName' = byName
      BY <2>2 DEF vars
    <3>2. Asked' = Asked  BY <3>1 DEF Asked
    <3>3. \A i : Told(i)' = Told(i)  BY <3>1, ToldIs, ToldNext
    <3>4. \A name : Named(name)' = Named(name)  BY <3>1, <3>2 DEF Named
    <3>5. TagsGetTheirOwnItems'
      BY <1>1, <3>1, <3>2, <3>3, <3>4 DEF ReadInv, TagsGetTheirOwnItems
    <3> QED BY <1>1, <3>1, <3>2, <3>5 DEF ReadInv, PlanInv
  <2> QED BY <2>1, <2>2, <1>1
<1> QED BY <1>1, InitReadInv, PTL DEF Spec

LEMMA ReadInvTypes == ReadInv => TypeOK
<1> SUFFICES ASSUME ReadInv  PROVE TypeOK
  OBVIOUS
<1>1. tags \in Seq(Tag) /\ GoodPlan(tags, DOMAIN tags, plan)
  BY PlanInvFacts DEF ReadInv
<1>2. ASSUME NEW j \in Asked  PROVE Len(Told(j)) \in {0, tags[j].count}
  <2>1. tags[j].count \in Nat
    <3>1. PICK k \in DOMAIN answered : j \in ToSet(plan[k].tags)  BY DEF Asked
    <3>2. k \in DOMAIN plan
      <4>1. DOMAIN answered \subseteq DOMAIN plan
        <5>1. answered \in Seq(Int) /\ Len(answered) <= Len(plan) /\ plan \in Seq(Blocks)
          BY <1>1 DEF ReadInv, GoodPlan
        <5> QED BY <5>1
      <4> QED BY <4>1
    <3>3. j \in DOMAIN tags  BY <3>1, <3>2, <1>1 DEF GoodPlan, GoodBlock
    <3> QED BY <3>3, <1>1, TagFacts
  <2>2. \/ Told(j) = <<>>
        \/ Told(j) = [n \in 1 .. tags[j].count |-> tags[j].address + n - 1]
    BY DEF Told, Bad
  <2> QED BY <2>1, <2>2
<1>3. ASSUME NEW name \in DOMAIN byName
      PROVE  Len(byName[name]) \in {0} \cup {tags[i].count : i \in Named(name)}
  <2>1. PICK i \in Asked : name = tags[i].name  BY DEF ReadInv
  <2>2. byName[name] \in {Told(j) : j \in Named(name)}
    BY <2>1 DEF ReadInv, TagsGetTheirOwnItems
  <2>3. PICK j \in Named(name) : byName[name] = Told(j)  BY <2>2
  <2>4. j \in Asked  BY DEF Named
  <2> QED BY <2>3, <2>4, <1>2
<1> QED BY <1>3 DEF TypeOK, ReadInv

(* _plan_blocks() plans every tag once, in a block of its function and     *)
(* unit that covers all of its items, for any list of tags.                *)
THEOREM EveryTagIsPlanned == Spec => []PlanCoversTags
<1>1. ReadInv => PlanCoversTags  BY PlanCoversAll DEF ReadInv
<1> QED BY <1>1, ReadInvariant, PTL

(* _plan_blocks() keeps to the limits and the gap, and leaves no two       *)
(* blocks of a group that one request could have read.                     *)
THEOREM PlanIsAlwaysFrugal == Spec => []PlanIsFrugal
<1>1. ReadInv => PlanIsFrugal  BY PlanFrugal DEF ReadInv
<1> QED BY <1>1, ReadInvariant, PTL

(* Whatever the requests are answered with, errors, short responses and    *)
(* padded ones, a tag gets what was read at its own addresses.             *)
THEOREM OwnItems == Spec => []TagsGetTheirOwnItems
<1>1. ReadInv => TagsGetTheirOwnItems  BY DEF ReadInv
<1> QED BY <1>1, ReadInvariant, PTL

(* _read_block() and the decoders keep the types: a name has a result as   *)
(* soon as a tag of it was asked for, complete or none.                    *)
THEOREM ReadsTypeCorrect == Spec => []TypeOK
BY ReadInvTypes, ReadInvariant, PTL

-----------------------------------------------------------------------------
(* The worker of a driver that pushes its data.  Its inductive invariant:  *)
(* it uses the driver of its kind only, ...                                *)
OneDriver == IF kind = "mqtt" THEN NoOpcUaSession ELSE NoSession

(* There is a session from the end of connect() to that of disconnect().   *)
NoneOutside ==
  pc \in {"loop", "connecting", "retry", "ended"} => NoSession /\ NoOpcUaSession

(* A session that starts has no subscription yet.                          *)
NotYetSubscribed ==
  /\ pc \in {"connected", "subscribing"} => ~subscribed /\ ~handling /\ subscription = "none"
  /\ pc = "connected" => kind = "mqtt"
  /\ pc = "subscribing" /\ kind = "opcua" => session # "none"

(* Once connect() is through, `_connected` is only false if the connection *)
(* is down, and then no message is being handled.                          *)
LossIsSeen ==
  kind = "mqtt" /\ pc \in {"subscribing", "running"} =>
    /\ connected \/ link = "down"
    /\ handling => link = "up"

(* A session that failed gets no more data, unless it is of a server that  *)
(* still answers.                                                          *)
NoMoreData ==
  pc \in {"cleanup", "closing", "retry"} /\ ~stop /\ dry =>
    /\ last = "error"
    /\ ~handling /\ ~subscribed
    /\ session # "up" /\ ~waiting

SessionInv ==
  WorkerTypeOK /\ OneDriver /\ NoneOutside /\ NotYetSubscribed /\ LossIsSeen /\ NoMoreData

LEMMA InitSessionInv == WorkerInit => SessionInv
BY DEF WorkerInit, SessionInv, WorkerTypeOK, DriverTypeOK, OpcUaTypeOK, OneDriver, NoneOutside,
   NotYetSubscribed, LossIsSeen, NoMoreData, DriverInit, NoOpcUaSession, NoSession

(* What the worker's thread does in run(), call by call.                   *)
LEMMA WorkerKeepsSessionInv ==
  ASSUME SessionInv, WorkerStep  PROVE SessionInv'
<1> USE DEF SessionInv, WorkerTypeOK, DriverTypeOK, OpcUaTypeOK, OneDriver, NoneOutside,
        NotYetSubscribed, LossIsSeen, NoMoreData, NoOpcUaSession, NoSession,
        driver, opcua, drivers
<1>1. CASE Begin  BY <1>1 DEF Begin
<1>2. CASE ConnectFails
  <2>1. CASE kind = "mqtt"  BY <1>2, <2>1 DEF ConnectFails, Call, Report, DialFails
  <2>2. CASE kind = "opcua"  BY <1>2, <2>2 DEF ConnectFails, Call, Report, OpenFails
  <2> QED BY <2>1, <2>2
<1>3. CASE Connect
  <2>1. CASE kind = "mqtt"  BY <1>3, <2>1 DEF Connect, Call, Dial
  <2>2. CASE kind = "opcua"  BY <1>3, <2>2 DEF Connect, Call, Open
  <2> QED BY <2>1, <2>2
<1>4. CASE MarkConnected  BY <1>4 DEF MarkConnected, Mark
<1>5. CASE SubscribeFails
  <2>1. CASE kind = "mqtt"  BY <1>5, <2>1 DEF SubscribeFails, Call, Report, SubscriptionFails
  <2>2. CASE kind = "opcua"  BY <1>5, <2>2 DEF SubscribeFails, Call, Report, MonitorFails
  <2> QED BY <2>1, <2>2
<1>6. CASE Subscribe
  <2>1. CASE kind = "mqtt"  BY <1>6, <2>1 DEF Subscribe, Call, StartSubscription
  <2>2. CASE kind = "opcua"  BY <1>6, <2>2 DEF Subscribe, Call, Monitor
  <2> QED BY <2>1, <2>2
<1>7. CASE SessionFails  BY <1>7 DEF SessionFails, Fails, NotConnected, IsLost, Report
<1>8. CASE SessionStops  BY <1>8 DEF SessionStops
<1>9. CASE CleanUp
  <2>1. CASE started /\ kind = "mqtt"
    <3>1. DriverTypeOK' /\ OpcUaTypeOK'  BY <1>9, <2>1 DEF CleanUp, Call, StopSubscription
    <3>2. WorkerTypeOK'  BY <1>9, <2>1, <3>1 DEF CleanUp, Call, StopSubscription
    <3>3. OneDriver' /\ NoneOutside'  BY <1>9, <2>1 DEF CleanUp, Call, StopSubscription
    <3>4. NotYetSubscribed' /\ LossIsSeen' /\ NoMoreData'
      BY <1>9, <2>1 DEF CleanUp, Call, StopSubscription
    <3> QED BY <3>2, <3>3, <3>4
  <2>2. CASE started /\ kind = "opcua"  BY <1>9, <2>2 DEF CleanUp, Call, Delete
  <2>3. CASE ~started  BY <1>9, <2>3 DEF CleanUp
  <2> QED BY <2>1, <2>2, <2>3
<1>10. CASE Close
  <2>1. CASE kind = "mqtt"
    <3>1. client' = FALSE /\ emit' = FALSE /\ link' = "none" /\ looping' = FALSE
          /\ subscribed' = FALSE /\ handling' = FALSE /\ connected' = FALSE
      BY <1>10, <2>1 DEF Close, Call, Hangup
    <3>2. loop' = FALSE /\ session' = "none" /\ subscription' = "none" /\ waiting' = FALSE
      BY <1>10, <2>1 DEF Close, Call, Hangup
    <3>3. /\ pc = "closing" /\ pc' = "retry"
          /\ UNCHANGED <<kind, started, last, dry, stop, calm>>
      BY <1>10, <2>1 DEF Close, Call, Hangup
    <3>4. WorkerTypeOK'  BY <3>1, <3>2, <3>3
    <3>5. NoSession' /\ NoOpcUaSession'  BY <3>1, <3>2
    <3>6. OneDriver' /\ NoneOutside'  BY <3>5
    <3>7. NotYetSubscribed' /\ LossIsSeen' /\ NoMoreData'  BY <3>1, <3>2, <3>3
    <3> QED BY <3>4, <3>6, <3>7
  <2>2. CASE kind = "opcua"
    <3>1. client' = FALSE /\ emit' = FALSE /\ link' = "none" /\ looping' = FALSE
          /\ subscribed' = FALSE /\ handling' = FALSE /\ connected' = connected
      BY <1>10, <2>2 DEF Close, Call, CloseLoop
    <3>2. loop' = FALSE /\ session' = "none" /\ subscription' = "none" /\ waiting' = FALSE
      BY <1>10, <2>2 DEF Close, Call, CloseLoop
    <3>3. /\ pc = "closing" /\ pc' = "retry"
          /\ UNCHANGED <<kind, started, last, dry, stop, calm>>
      BY <1>10, <2>2 DEF Close, Call, CloseLoop
    <3>4. WorkerTypeOK'  BY <3>1, <3>2, <3>3
    <3>5. NoSession' /\ NoOpcUaSession'  BY <3>1, <3>2
    <3>6. OneDriver' /\ NoneOutside'  BY <3>5
    <3>7. NotYetSubscribed' /\ LossIsSeen' /\ NoMoreData'  BY <3>1, <3>2, <3>3
    <3> QED BY <3>4, <3>6, <3>7
  <2> QED BY <2>1, <2>2
<1>11. CASE Retry  BY <1>11 DEF Retry
<1> QED
  BY <1>1, <1>2, <1>3, <1>4, <1>5, <1>6, <1>7, <1>8, <1>9, <1>10, <1>11 DEF WorkerStep

(* What paho's thread, the server, the network and the user do meanwhile.  *)
LEMMA OthersKeepSessionInv ==
  ASSUME SessionInv,
         NetworkStep \/ Break \/ Receive \/ Stop \/ CalmDown \/ EmitDataChange \/ ServerNotifies
           \/ SessionIsLost
  PROVE  SessionInv'
<1> USE DEF SessionInv, WorkerTypeOK, DriverTypeOK, OpcUaTypeOK, OneDriver, NoneOutside,
        NotYetSubscribed, LossIsSeen, NoMoreData, NoOpcUaSession, NoSession
<1>1. CASE Answer  BY <1>1 DEF Answer, Accepted, Idle, Elsewhere, opcua, worker
<1>2. CASE DialAgain
  BY <1>2 DEF DialAgain, Unnoticed, Redial, Idle, Elsewhere, opcua, worker
<1>3. CASE Emit
  <2>1. DriverTypeOK' /\ OpcUaTypeOK'  BY <1>3 DEF Emit, Handled, opcua
  <2>2. WorkerTypeOK'  BY <1>3, <2>1 DEF Emit, Handled, opcua
  <2>3. OneDriver' /\ NoneOutside'  BY <1>3 DEF Emit, Handled, opcua
  <2>4. NotYetSubscribed' /\ LossIsSeen' /\ NoMoreData'  BY <1>3 DEF Emit, Handled, opcua
  <2> QED BY <2>2, <2>3, <2>4
<1>4. CASE Break
  <2>1. DriverTypeOK' /\ OpcUaTypeOK'  BY <1>4 DEF Break, Lost, Idle, Elsewhere, opcua, worker
  <2>2. WorkerTypeOK'  BY <1>4, <2>1 DEF Break, Lost, Idle, Elsewhere, opcua, worker
  <2>3. OneDriver' /\ NoneOutside'  BY <1>4 DEF Break, Lost, Idle, Elsewhere, opcua, worker
  <2>4. NotYetSubscribed' /\ LossIsSeen' /\ NoMoreData'
    BY <1>4 DEF Break, Lost, Idle, Elsewhere, opcua, worker
  <2> QED BY <2>2, <2>3, <2>4
<1>5. CASE Receive  BY <1>5 DEF Receive, Received, Idle, Elsewhere, opcua, worker
<1>6. CASE Stop  BY <1>6 DEF Stop, drivers, driver, opcua, worker
<1>7. CASE CalmDown  BY <1>7 DEF CalmDown, drivers, driver, opcua, worker
<1>8. CASE EmitDataChange
  <2>1. DriverTypeOK' /\ OpcUaTypeOK'  BY <1>8 DEF EmitDataChange, DataChange, driver
  <2>2. WorkerTypeOK'  BY <1>8, <2>1 DEF EmitDataChange, DataChange, driver
  <2>3. OneDriver' /\ NoneOutside'  BY <1>8 DEF EmitDataChange, DataChange, driver
  <2>4. NotYetSubscribed' /\ LossIsSeen' /\ NoMoreData'
    BY <1>8 DEF EmitDataChange, DataChange, driver
  <2> QED BY <2>2, <2>3, <2>4
<1>9. CASE ServerNotifies  BY <1>9 DEF ServerNotifies, Notify, driver, worker
<1>10. CASE SessionIsLost  BY <1>10 DEF SessionIsLost, Lose, driver, worker
<1> QED
  BY <1>1, <1>2, <1>3, <1>4, <1>5, <1>6, <1>7, <1>8, <1>9, <1>10 DEF NetworkStep

LEMMA SessionInvariant == WorkerSpec => []SessionInv
<1>1. ASSUME SessionInv, [WorkerNext]_workerVars  PROVE SessionInv'
  <2>1. CASE UNCHANGED workerVars
    BY <1>1, <2>1 DEF workerVars, drivers, driver, opcua, worker, SessionInv, WorkerTypeOK,
       DriverTypeOK, OpcUaTypeOK, OneDriver, NoneOutside, NotYetSubscribed, LossIsSeen,
       NoMoreData, NoOpcUaSession, NoSession
  <2> QED BY <1>1, <2>1, WorkerKeepsSessionInv, OthersKeepSessionInv DEF WorkerNext
<1> QED BY <1>1, InitSessionInv, PTL DEF WorkerSpec

(* The calls, the callbacks and what server and network do keep the types, *)
(* in any order: nothing is subscribed or handled without its client.      *)
THEOREM WorkerTypeCorrect == WorkerSpec => []WorkerTypeOK
<1>1. SessionInv => WorkerTypeOK  BY DEF SessionInv
<1> QED BY <1>1, SessionInvariant, PTL

(* _cleanup_driver() leaves no thread, callback or loop of a session, even *)
(* of one that failed half-way through its start.                          *)
THEOREM SessionsNeverOverlap == WorkerSpec => []SessionsAreSeparate
<1>1. SessionInv => SessionsAreSeparate  BY DEF SessionInv, NoneOutside, SessionsAreSeparate
<1> QED BY <1>1, SessionInvariant, PTL

(* The failure that run() puts in its outbox is not followed by data of    *)
(* the failed session, before the next session begins.                     *)
THEOREM FailuresStayLast == WorkerSpec => []FailureIsTheLastWord
<1>1. SessionInv => FailureIsTheLastWord  BY DEF SessionInv, NoMoreData, FailureIsTheLastWord
<1> QED BY <1>1, SessionInvariant, PTL
==============================================================================
