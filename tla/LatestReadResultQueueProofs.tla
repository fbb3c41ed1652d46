--------------------- MODULE LatestReadResultQueueProofs ---------------------
(***************************************************************************)
(* That the queue implements the mailbox, for any devices, tags and        *)
(* consumers.                                                              *)
(*                                                                         *)
(* First, what a put() leaves in the queue: facts about Enqueue, about     *)
(* Split, and about PutResult, the fold of the one over the other.  No     *)
(* induction theorem is needed: of the entries of a put, the first one     *)
(* that would break a fact is found by the well-foundedness of Nat.        *)
(*                                                                         *)
(* Then the refinement.  The queue never holds two entries of a key        *)
(* (QueueInv), so that each place of the mailbox and its order are found   *)
(* in one entry; a step of put() then fills the places that PutSupersedes  *)
(* says it fills.                                                          *)
(***************************************************************************)
EXTENDS LatestReadResultQueue, WellFoundedInduction, TLAPS

Unique(q) == \A i, j \in DOMAIN q : q[i].key = q[j].key => i = j

KeysOf(es) == {es[i].key : i \in DOMAIN es}

(* rest is the queue q without the entries of a key.                       *)
Remain(E, q, key, rest) ==
  /\ rest \in Seq(E) /\ Unique(rest)
  /\ \A i \in DOMAIN rest : rest[i].key # key /\ \E k \in DOMAIN q : q[k] = rest[i]
  /\ \A i, j \in DOMAIN rest : i < j =>
       \E k, l \in DOMAIN q : k < l /\ q[k] = rest[i] /\ q[l] = rest[j]
  /\ \A j \in DOMAIN q : q[j].key # key => \E i \in DOMAIN rest : rest[i] = q[j]

(* `new` is what the entries es leave of the queue `old`: in front what    *)
(* was there under other keys, in its order, and then what came for theirs. *)
Supersedes(E, old, es, new) ==
  /\ new \in Seq(E) /\ Unique(new)
  /\ \A i \in DOMAIN new :
       \/ \E j \in DOMAIN es : new[i] = es[j]
       \/ new[i].key \notin KeysOf(es) /\ \E j \in DOMAIN old : new[i] = old[j]
  /\ \A j \in DOMAIN old : old[j].key \notin KeysOf(es) => \E i \in DOMAIN new : new[i] = old[j]
  /\ \A j \in DOMAIN es : \E i \in DOMAIN new : new[i].key = es[j].key
  /\ \A i, j \in DOMAIN new : i < j /\ new[j].key \notin KeysOf(es) =>
       /\ new[i].key \notin KeysOf(es)
       /\ \E k, l \in DOMAIN old : k < l /\ old[k] = new[i] /\ old[l] = new[j]
  /\ es # <<>> => new # <<>> /\ new[Len(new)] = es[Len(es)]

-----------------------------------------------------------------------------
LEMMA SmallestOf ==
  ASSUME NEW T \in SUBSET Nat, T # {}
  PROVE  \E n \in T : \A m \in T : n <= m
<1>1. PICK n \in T : \A m \in T : <<m, n>> \notin OpToRel(<, Nat)
  BY WFMin, NatLessThanWellFounded
<1>2. ASSUME NEW m \in T  PROVE n <= m
  <2>1. ~(m < n)  BY <1>1 DEF OpToRel
  <2> QED BY <2>1
<1> QED BY <1>2

LEMMA MaxOfInterval == ASSUME NEW n \in Nat \ {0}  PROVE Max(1 .. n) = n
<1>1. n \in 1 .. n /\ \A y \in 1 .. n : n >= y  OBVIOUS
<1>2. \A x \in 1 .. n : (\A y \in 1 .. n : x >= y) => x = n  BY <1>1
<1> QED BY <1>1, <1>2 DEF Max

(* What a removal leaves.                                                  *)
LEMMA RemovalFacts ==
  ASSUME NEW S, NEW q \in Seq(S), NEW r \in DOMAIN q
  PROVE  /\ RemoveAt(q, r) \in Seq(S)
         /\ Len(RemoveAt(q, r)) = Len(q) - 1
         /\ \A i \in 1 .. Len(q) - 1 : RemoveAt(q, r)[i] = IF i < r THEN q[i] ELSE q[i + 1]
<1> DEFINE a == SubSeq(q, 1, r - 1)
           b == SubSeq(q, r + 1, Len(q))
<1>1. r \in 1 .. Len(q) /\ Len(q) \in Nat  OBVIOUS
<1>2. a \in Seq(S) /\ Len(a) = r - 1 /\ \A i \in 1 .. r - 1 : a[i] = q[i]
  BY <1>1
<1>3. b \in Seq(S) /\ Len(b) = Len(q) - r /\ \A i \in 1 .. Len(q) - r : b[i] = q[i + r]
  BY <1>1
<1>4. RemoveAt(q, r) = a \o b  BY DEF RemoveAt
<1> HIDE DEF a, b
<1> QED BY <1>1, <1>2, <1>3, <1>4

LEMMA RemovalRemains ==
  ASSUME NEW E, NEW q \in Seq(E), Unique(q), NEW r \in DOMAIN q
  PROVE  Remain(E, q, q[r].key, RemoveAt(q, r))
<1> DEFINE rest == RemoveAt(q, r)
           At(n) == IF n < r THEN n ELSE n + 1
<1>1. /\ rest \in Seq(E) /\ Len(rest) = Len(q) - 1 /\ Len(q) \in Nat
      /\ DOMAIN q = 1 .. Len(q) /\ DOMAIN rest = 1 .. Len(q) - 1
      /\ \A i \in 1 .. Len(q) - 1 : rest[i] = IF i < r THEN q[i] ELSE q[i + 1]
  <2>1. /\ rest \in Seq(E) /\ Len(rest) = Len(q) - 1
        /\ \A i \in 1 .. Len(q) - 1 : rest[i] = IF i < r THEN q[i] ELSE q[i + 1]
    BY RemovalFacts
  <2> HIDE DEF rest
  <2> QED BY <2>1
<1> HIDE DEF rest
<1>2. ASSUME NEW i \in DOMAIN rest
      PROVE  At(i) \in DOMAIN q /\ At(i) # r /\ rest[i] = q[At(i)]
  BY <1>1
<1>3. \A i, j \in DOMAIN rest : (i < j => At(i) < At(j)) /\ (At(i) = At(j) => i = j)
  BY <1>1
<1>4. ASSUME NEW j \in DOMAIN q, j # r  PROVE \E i \in DOMAIN rest : At(i) = j
  <2> DEFINE i == IF j < r THEN j ELSE j - 1
  <2>1. i \in DOMAIN rest /\ At(i) = j  BY <1>1, <1>4
  <2> QED BY <2>1
<1> HIDE DEF At
<1>5. Unique(rest)
  BY <1>2, <1>3 DEF Unique
<1>6. ASSUME NEW i \in DOMAIN rest
      PROVE  rest[i].key # q[r].key /\ \E k \in DOMAIN q : q[k] = rest[i]
  BY <1>1, <1>2 DEF Unique
<1>7. ASSUME NEW i \in DOMAIN rest, NEW j \in DOMAIN rest, i < j
      PROVE  \E k, l \in DOMAIN q : k < l /\ q[k] = rest[i] /\ q[l] = rest[j]
  BY <1>2, <1>3, <1>7
<1>8. ASSUME NEW j \in DOMAIN q, q[j].key # q[r].key
      PROVE  \E i \in DOMAIN rest : rest[i] = q[j]
  <2>1. PICK i \in DOMAIN rest : At(i) = j  BY <1>4, <1>8
  <2> QED BY <2>1, <1>2
<1>9. Remain(E, q, q[r].key, rest)
  BY <1>1, <1>5, <1>6, <1>7, <1>8 DEF Remain
<1> QED BY <1>9 DEF rest

(* A queue without the entry of one key: the others, in their order.       *)
LEMMA WithoutRemains ==
  ASSUME NEW E, NEW q \in Seq(E), Unique(q), NEW key
  PROVE  Remain(E, q, key, Without(q, key))
<1> DEFINE older == {i \in DOMAIN q : q[i].key = key}
           r == CHOOSE i \in older : TRUE
<1>1. Without(q, key) = IF older = {} THEN q ELSE RemoveAt(q, r)
  BY DEF Without
<1>2. CASE older = {}
  <2>1. Without(q, key) = q /\ \A i \in DOMAIN q : q[i].key # key  BY <1>1, <1>2
  <2> QED BY <2>1 DEF Remain
<1>3. CASE older # {}
  <2>1. r \in DOMAIN q /\ q[r].key = key  BY <1>3
  <2>2. Without(q, key) = RemoveAt(q, r)  BY <1>1, <1>3
  <2> QED BY <2>1, <2>2, RemovalRemains
<1> QED BY <1>2, <1>3

(* Enqueue() supersedes the entry of its key.                              *)
LEMMA EnqueueSupersedes ==
  ASSUME NEW E, NEW q \in Seq(E), Unique(q), NEW entry \in E
  PROVE  Supersedes(E, q, <<entry>>, Enqueue(q, entry))
<1> DEFINE rest == Without(q, entry.key)
           new == Enqueue(q, entry)
           es == <<entry>>
<1>1. Remain(E, q, entry.key, rest)  BY WithoutRemains
<1>2. new = Append(rest, entry)  BY DEF Enqueue
<1> HIDE DEF rest
<1>3. /\ new \in Seq(E) /\ Len(new) = Len(rest) + 1 /\ new[Len(new)] = entry
      /\ \A i \in DOMAIN rest : new[i] = rest[i]
      /\ DOMAIN new = 1 .. Len(rest) + 1 /\ DOMAIN rest = 1 .. Len(rest) /\ Len(rest) \in Nat
  BY <1>1, <1>2 DEF Remain
<1>4. KeysOf(es) = {entry.key}  BY DEF KeysOf
<1> HIDE DEF new
<1>5. ASSUME NEW i \in DOMAIN new
      PROVE  \/ i = Len(new) /\ new[i] = entry
             \/ i \in DOMAIN rest /\ new[i] = rest[i] /\ new[i].key # entry.key
  BY <1>1, <1>3 DEF Remain
<1>6. Unique(new)
  BY <1>1, <1>5 DEF Unique, Remain
<1>7. ASSUME NEW j \in DOMAIN q, q[j].key # entry.key  PROVE \E i \in DOMAIN new : new[i] = q[j]
  <2>1. PICK i \in DOMAIN rest : rest[i] = q[j]  BY <1>1, <1>7 DEF Remain
  <2> QED BY <2>1, <1>3
<1>8. ASSUME NEW i \in DOMAIN new, NEW j \in DOMAIN new, i < j, new[j].key # entry.key
      PROVE  /\ new[i].key # entry.key
             /\ \E k, l \in DOMAIN q : k < l /\ q[k] = new[i] /\ q[l] = new[j]
  <2>1. j \in DOMAIN rest /\ new[j] = rest[j]  BY <1>5, <1>8
  <2>2. i \in DOMAIN rest /\ new[i] = rest[i] /\ new[i].key # entry.key  BY <2>1, <1>1, <1>3, <1>5, <1>8
  <2> QED BY <2>1, <2>2, <1>1, <1>8 DEF Remain
<1>9. /\ DOMAIN <<entry>> = {1} /\ <<entry>>[1] = entry /\ Len(<<entry>>) = 1
      /\ Len(new) \in DOMAIN new
  BY <1>3
<1>10. \A i \in DOMAIN new : \/ new[i] = entry
                             \/ new[i].key # entry.key /\ \E j \in DOMAIN q : new[i] = q[j]
  BY <1>1, <1>5 DEF Remain
<1>11. /\ \A i \in DOMAIN new :
            \/ \E j \in DOMAIN es : new[i] = es[j]
            \/ new[i].key \notin KeysOf(es) /\ \E j \in DOMAIN q : new[i] = q[j]
       /\ \A j \in DOMAIN es : \E i \in DOMAIN new : new[i].key = es[j].key
       /\ new # <<>> /\ new[Len(new)] = es[Len(es)]
  BY <1>3, <1>4, <1>9, <1>10
<1>12. Supersedes(E, q, es, new)
  <2> HIDE DEF es
  <2> QED BY <1>3, <1>4, <1>6, <1>7, <1>8, <1>11 DEF Supersedes
<1> QED BY <1>12 DEF new

(* Entries one after the other supersede what all of them are for.         *)
LEMMA SupersedesOneMore ==
  ASSUME NEW E, NEW q \in Seq(E), NEW es \in Seq(E), NEW entry \in E, NEW mid, NEW new,
         Supersedes(E, q, es, mid), Supersedes(E, mid, <<entry>>, new)
  PROVE  Supersedes(E, q, Append(es, entry), new)
<1> DEFINE all == Append(es, entry)
           one == <<entry>>
<1>1. /\ DOMAIN one = {1} /\ one[1] = entry /\ Len(one) = 1 /\ one # <<>>
      /\ Len(es) \in Nat /\ DOMAIN es = 1 .. Len(es) /\ Len(all) = Len(es) + 1
      /\ DOMAIN all = 1 .. Len(es) + 1 /\ all[Len(es) + 1] = entry
      /\ \A j \in DOMAIN es : all[j] = es[j]
  OBVIOUS
<1>2. KeysOf(one) = {entry.key}  BY <1>1 DEF KeysOf
<1>3. Supersedes(E, mid, one, new)  OBVIOUS
<1> HIDE DEF all, one
<1>4. ASSUME NEW j \in DOMAIN all
      PROVE  (j \in DOMAIN es /\ all[j] = es[j]) \/ (j = Len(all) /\ all[j] = entry)
  <2>1. j \in 1 .. Len(es) + 1  BY <1>1
  <2>2. CASE j = Len(es) + 1  BY <2>2, <1>1
  <2>3. CASE j # Len(es) + 1
    <3>1. j \in DOMAIN es  BY <2>1, <2>3, <1>1
    <3> QED BY <3>1, <1>1
  <2> QED BY <2>2, <2>3
<1>5. KeysOf(all) = KeysOf(es) \cup {entry.key}
  <2>1. ASSUME NEW j \in DOMAIN all  PROVE all[j].key \in KeysOf(es) \cup {entry.key}
    BY <1>4 DEF KeysOf
  <2>2. ASSUME NEW j \in DOMAIN es  PROVE es[j].key \in KeysOf(all)
    <3>1. j \in DOMAIN all /\ all[j] = es[j]  BY <1>1
    <3> QED BY <3>1 DEF KeysOf
  <2>3. entry.key \in KeysOf(all)
    <3>1. Len(all) \in DOMAIN all /\ all[Len(all)] = entry  BY <1>1
    <3> QED BY <3>1 DEF KeysOf
  <2> QED BY <2>1, <2>2, <2>3 DEF KeysOf
<1>6. /\ new \in Seq(E) /\ Unique(new)
      /\ new # <<>> /\ new[Len(new)] = all[Len(all)]
  BY <1>1, <1>3 DEF Supersedes
<1>7. ASSUME NEW i \in DOMAIN new
      PROVE  \/ \E j \in DOMAIN all : new[i] = all[j]
             \/ new[i].key \notin KeysOf(all) /\ \E j \in DOMAIN q : new[i] = q[j]
  <2>1. CASE new[i] = entry  BY <2>1, <1>1
  <2>2. CASE new[i] # entry
    <3>1. PICK j \in DOMAIN mid : new[i] = mid[j] /\ new[i].key # entry.key
      BY <2>2, <1>1, <1>2, <1>3 DEF Supersedes
    <3>2. CASE \E k \in DOMAIN es : mid[j] = es[k]
      <4>1. PICK k \in DOMAIN es : mid[j] = es[k]  BY <3>2
      <4>2. k \in DOMAIN all /\ all[k] = es[k]  BY <1>1
      <4> QED BY <3>1, <4>1, <4>2
    <3>3. CASE mid[j].key \notin KeysOf(es) /\ \E k \in DOMAIN q : mid[j] = q[k]
      BY <3>1, <3>3, <1>5
    <3> QED BY <3>2, <3>3 DEF Supersedes
  <2> QED BY <2>1, <2>2
<1>8. ASSUME NEW j \in DOMAIN q, q[j].key \notin KeysOf(all)
      PROVE  \E i \in DOMAIN new : new[i] = q[j]
  <2>1. PICK k \in DOMAIN mid : mid[k] = q[j]  BY <1>5, <1>8 DEF Supersedes
  <2>2. mid[k].key \notin KeysOf(one)  BY <2>1, <1>2, <1>5, <1>8
  <2> QED BY <2>1, <2>2, <1>3 DEF Supersedes
<1>9. ASSUME NEW j \in DOMAIN all  PROVE \E i \in DOMAIN new : new[i].key = all[j].key
  <2>1. CASE all[j].key = entry.key  BY <2>1, <1>1, <1>3 DEF Supersedes
  <2>2. CASE all[j].key # entry.key
    <3>1. PICK k \in DOMAIN mid : mid[k].key = all[j].key  BY <2>2, <1>4 DEF Supersedes
    <3>2. mid[k].key \notin KeysOf(one)  BY <3>1, <2>2, <1>2
    <3>3. PICK i \in DOMAIN new : new[i] = mid[k]  BY <3>2, <1>3 DEF Supersedes
    <3> QED BY <3>1, <3>3
  <2> QED BY <2>1, <2>2
<1>10. ASSUME NEW i \in DOMAIN new, NEW j \in DOMAIN new, i < j, new[j].key \notin KeysOf(all)
       PROVE  /\ new[i].key \notin KeysOf(all)
              /\ \E k, l \in DOMAIN q : k < l /\ q[k] = new[i] /\ q[l] = new[j]
  <2>1. new[j].key \notin KeysOf(one) /\ new[j].key \notin KeysOf(es)  BY <1>10, <1>2, <1>5
  <2>2. PICK a \in DOMAIN mid, b \in DOMAIN mid : /\ a < b /\ mid[a] = new[i] /\ mid[b] = new[j]
                                                  /\ new[i].key \notin KeysOf(one)
    BY <1>10, <2>1, <1>3 DEF Supersedes
  <2>3. /\ mid[a].key \notin KeysOf(es)
        /\ \E k, l \in DOMAIN q : k < l /\ q[k] = mid[a] /\ q[l] = mid[b]
    BY <2>1, <2>2 DEF Supersedes
  <2> QED BY <2>2, <2>3, <1>2, <1>5
<1>11. Supersedes(E, q, all, new)
  BY <1>6, <1>7, <1>8, <1>9, <1>10 DEF Supersedes
<1> QED BY <1>11 DEF all

-----------------------------------------------------------------------------
(* The fold: what MapThenFoldSet chooses is defined by its equation.       *)
IsFold(g, q, es, n) ==
  g = [S \in SUBSET (1 .. n) |-> IF S = {} THEN q ELSE Enqueue(g[S \ {Max(S)}], es[Max(S)])]

LEMMA FoldExists ==
  ASSUME NEW q, NEW es, NEW n \in Nat
  PROVE  \E g : IsFold(g, q, es, n)
<1> DEFINE T == {m \in Nat : ~\E g : IsFold(g, q, es, m)}
<1> SUFFICES ASSUME T # {}  PROVE FALSE
  OBVIOUS
<1>1. PICK m \in T : \A k \in T : m <= k  BY SmallestOf
<1>2. m # 0
  <2> DEFINE g == [S \in SUBSET (1 .. 0) |-> q]
  <2>1. \A S \in SUBSET (1 .. 0) : S = {}  OBVIOUS
  <2>2. IsFold(g, q, es, 0)  BY <2>1 DEF IsFold
  <2> QED BY <2>2
<1>3. PICK h : IsFold(h, q, es, m - 1)
  <2>1. m - 1 \in Nat /\ ~(m <= m - 1)  BY <1>2
  <2> QED BY <2>1, <1>1
<1> DEFINE g == [S \in SUBSET (1 .. m) |-> IF m \in S THEN Enqueue(h[S \ {m}], es[m]) ELSE h[S]]
<1>4. ASSUME NEW S \in SUBSET (1 .. m)
      PROVE  g[S] = IF S = {} THEN q ELSE Enqueue(g[S \ {Max(S)}], es[Max(S)])
  <2>1. CASE m \in S
    <3>1. m \in Nat /\ \A x \in S : x \in Nat /\ x <= m  OBVIOUS
    <3>2. Max(S) = m
      <4>1. \A x \in S : (\A y \in S : x >= y) => x = m  BY <2>1, <3>1
      <4>2. \A y \in S : m >= y  BY <3>1
      <4> QED BY <4>1, <4>2, <2>1 DEF Max
    <3>3. S \ {m} \in SUBSET (1 .. m) /\ m \notin S \ {m}  OBVIOUS
    <3>4. g[S \ {m}] = h[S \ {m}]  BY <3>3
    <3> QED BY <2>1, <3>2, <3>4
  <2>2. CASE m \notin S
    <3>1. S \in SUBSET (1 .. m - 1)  BY <2>2
    <3>2. h[S] = IF S = {} THEN q ELSE Enqueue(h[S \ {Max(S)}], es[Max(S)])
      BY <1>3, <3>1 DEF IsFold
    <3>3. g[S] = h[S] /\ g[S \ {Max(S)}] = h[S \ {Max(S)}]  BY <2>2
    <3> QED BY <3>2, <3>3
  <2> QED BY <2>1, <2>2
<1>5. g = [S \in SUBSET (1 .. m) |-> g[S]]  OBVIOUS
<1>6. IsFold(g, q, es, m)
  <2> HIDE DEF g
  <2> QED BY <1>4, <1>5 DEF IsFold
<1> QED BY <1>6

(* The values of the fold at the beginnings of a sequence.                 *)
LEMMA PutIsFold ==
  ASSUME NEW E, NEW q, NEW r, Split(r) \in Seq(E)
  PROVE  \E g : /\ PutResult(q, r) = g[1 .. Len(Split(r))]
                /\ g[{}] = q
                /\ \A n \in 1 .. Len(Split(r)) : g[1 .. n] = Enqueue(g[1 .. n - 1], Split(r)[n])
<1> DEFINE es == Split(r)
           iter == CHOOSE g : IsFold(g, q, es, Len(es))
<1>1. DOMAIN es = 1 .. Len(es) /\ Len(es) \in Nat  OBVIOUS
<1>2. PutResult(q, r) = (CHOOSE g : g = [S \in SUBSET DOMAIN es |->
                            IF S = {} THEN q ELSE Enqueue(g[S \ {Max(S)}], es[Max(S)])])[DOMAIN es]
  BY Zenon DEF PutResult, FoldLeft, MapThenFoldSet
<1> HIDE DEF es
<1>3. PutResult(q, r) = iter[1 .. Len(es)]
  BY <1>1, <1>2, Zenon DEF IsFold
<1>4. IsFold(iter, q, es, Len(es))
  BY <1>1, FoldExists
<1> HIDE DEF iter
<1>5. iter[{}] = q
  BY <1>4 DEF IsFold
<1>6. ASSUME NEW n \in 1 .. Len(es)  PROVE iter[1 .. n] = Enqueue(iter[1 .. n - 1], es[n])
  <2>1. n \in Nat \ {0}  BY <1>1
  <2>2. 1 .. n \in SUBSET (1 .. Len(es)) /\ n \in 1 .. n  BY <1>1
  <2>3. (1 .. n) \ {n} = 1 .. n - 1  BY <2>1
  <2>4. Max(1 .. n) = n  BY <2>1, MaxOfInterval
  <2> QED BY <2>2, <2>3, <2>4, <1>4 DEF IsFold
<1> QED BY <1>3, <1>5, <1>6 DEF es

(* put() supersedes the entries with the keys of the result.               *)
LEMMA PutSupersedes ==
  ASSUME NEW E, NEW q \in Seq(E), Unique(q), NEW r, Split(r) \in Seq(E)
  PROVE  Supersedes(E, q, Split(r), PutResult(q, r))
<1> DEFINE es == Split(r)
           first(n) == SubSeq(es, 1, n)
<1>1. PICK g : /\ PutResult(q, r) = g[1 .. Len(es)]
               /\ g[{}] = q
               /\ \A n \in 1 .. Len(es) : g[1 .. n] = Enqueue(g[1 .. n - 1], es[n])
  BY PutIsFold
<1>2. es \in Seq(E) /\ Len(es) \in Nat /\ DOMAIN es = 1 .. Len(es)  OBVIOUS
<1> HIDE DEF es
<1> DEFINE T == {n \in 0 .. Len(es) : ~Supersedes(E, q, first(n), g[1 .. n])}
<1>3. ASSUME T # {}  PROVE FALSE
  <2>1. PICK m \in T : \A k \in T : m <= k
    <3>1. T \in SUBSET Nat  BY <1>2
    <3> HIDE DEF T
    <3> QED BY <3>1, <1>3, SmallestOf
  <2>2. m # 0
    <3>1. first(0) = <<>> /\ 1 .. 0 = {}  BY <1>2
    <3>2. Supersedes(E, q, <<>>, q)  BY DEF Supersedes, KeysOf
    <3> QED BY <3>1, <3>2, <1>1
  <2>3. m \in 1 .. Len(es) /\ m - 1 \in 0 .. Len(es) /\ m - 1 \notin T
    BY <2>1, <2>2, <1>2
  <2>4. Supersedes(E, q, first(m - 1), g[1 .. m - 1])  BY <2>3
  <2>5. first(m - 1) \in Seq(E) /\ es[m] \in E /\ first(m) = Append(first(m - 1), es[m])
    BY <2>3, <1>2
  <2>6. Supersedes(E, g[1 .. m - 1], <<es[m]>>, g[1 .. m])
    <3>1. g[1 .. m - 1] \in Seq(E) /\ Unique(g[1 .. m - 1])  BY <2>4 DEF Supersedes
    <3> QED BY <3>1, <2>3, <2>5, <1>1, EnqueueSupersedes
  <2>7. Supersedes(E, q, first(m), g[1 .. m])
    <3> HIDE DEF first
    <3> QED BY <2>4, <2>5, <2>6, SupersedesOneMore
  <2> QED BY <2>7, <2>1
<1>4. Supersedes(E, q, first(Len(es)), g[1 .. Len(es)])
  BY <1>2, <1>3
<1>5. first(Len(es)) = es  BY <1>2
<1> QED BY <1>1, <1>4, <1>5 DEF es

(* What get() leaves.                                                      *)
LEMMA TailFacts ==
  ASSUME NEW E, NEW q \in Seq(E), Unique(q), q # <<>>
  PROVE  /\ 1 \in DOMAIN q /\ Head(q) = q[1] /\ q[1] \in E
         /\ Tail(q) \in Seq(E) /\ Unique(Tail(q))
         /\ \A i \in DOMAIN Tail(q) : i + 1 \in DOMAIN q /\ Tail(q)[i] = q[i + 1]
         /\ \A i \in DOMAIN q \ {1} : i - 1 \in DOMAIN Tail(q) /\ Tail(q)[i - 1] = q[i]
         /\ \A i \in DOMAIN q \ {1} : 1 < i /\ q[i].key # q[1].key
<1> DEFINE t == Tail(q)
<1>1. /\ Head(q) = q[1] /\ t \in Seq(E) /\ Len(t) = Len(q) - 1
      /\ Len(q) \in Nat \ {0} /\ \A i \in 1 .. Len(q) - 1 : t[i] = q[i + 1]
  OBVIOUS
<1>2. DOMAIN t = 1 .. Len(q) - 1 /\ DOMAIN q = 1 .. Len(q) /\ 1 \in DOMAIN q /\ q[1] \in E
  BY <1>1
<1> HIDE DEF t
<1>3. \A i \in DOMAIN t : i + 1 \in DOMAIN q /\ t[i] = q[i + 1]
  BY <1>1, <1>2
<1>4. \A i \in DOMAIN q \ {1} : i - 1 \in DOMAIN t /\ t[i - 1] = q[i] /\ 1 < i
  BY <1>1, <1>2
<1>5. \A i \in DOMAIN q \ {1} : q[i].key # q[1].key
  BY <1>2 DEF Unique
<1>6. Unique(t)
  BY <1>1, <1>2, <1>3 DEF Unique
<1> QED BY <1>1, <1>2, <1>3, <1>4, <1>5, <1>6 DEF t

-----------------------------------------------------------------------------
(* What the queue holds: results with one tag at most, under its key.      *)
Singles(d) == {r \in ResultsOf(d) : Len(r.tags) <= 1}

KeyOf(r) == <<r.device, IF r.tags = <<>> THEN Result ELSE r.tags[1].tag>>

Entries == UNION {{[key |-> KeyOf(r), value |-> r] : r \in Singles(d)} : d \in Devices}

LEMMA ResultFacts ==
  ASSUME DeviceTagsAssumption, NEW d \in Devices, NEW r \in ResultsOf(d)
  PROVE  /\ r.device = d /\ r.error \in BOOLEAN
         /\ r.tags \in Seq([tag : TagsOf(d), quality : Quality])
         /\ r.error => r.tags = <<>>
         /\ \A i, j \in DOMAIN r.tags : r.tags[i].tag = r.tags[j].tag => r.tags[i] = r.tags[j]
<1>1. CASE r = ErrorResult(d)
  BY <1>1 DEF ErrorResult
<1>2. ASSUME NEW p \in Picks(d), NEW q \in [TagsOf(d) -> Quality], r = ReadOf(d, p, q)
      PROVE  /\ r.device = d /\ r.error = FALSE
             /\ r.tags \in Seq([tag : TagsOf(d), quality : Quality])
             /\ \A i, j \in DOMAIN r.tags : r.tags[i].tag = r.tags[j].tag => r.tags[i] = r.tags[j]
  <2> DEFINE tag(i) == DeviceTags[d][p[i]]
  <2>1. PICK n \in Nat : p \in [1 .. n -> DOMAIN DeviceTags[d]]
    BY DEF Picks, DeviceTagsAssumption
  <2>2. /\ r.device = d /\ r.error = FALSE
        /\ r.tags = [i \in 1 .. n |-> TagResult(tag(i), q[tag(i)])]
    BY <1>2, <2>1 DEF ReadOf
  <2>3. \A i \in 1 .. n : tag(i) \in TagsOf(d)  BY <2>1 DEF TagsOf, Range
  <2> HIDE DEF tag
  <2>4. \A i \in 1 .. n : /\ TagResult(tag(i), q[tag(i)]) \in [tag : TagsOf(d), quality : Quality]
                          /\ TagResult(tag(i), q[tag(i)]).tag = tag(i)
    BY <2>3 DEF TagResult
  <2> DEFINE T == [tag : TagsOf(d), quality : Quality]
             item(i) == TagResult(tag(i), q[tag(i)])
  <2>5. \A i \in 1 .. n : item(i) \in T /\ item(i).tag = tag(i) /\ item(i) = TagResult(tag(i), q[tag(i)])
    BY <2>4
  <2>6. r.tags = [i \in 1 .. n |-> item(i)]  BY <2>2
  <2>7. \A i, j \in 1 .. n : tag(i) = tag(j) => item(i) = item(j)  OBVIOUS
  <2> HIDE DEF T, item
  <2>8. r.tags \in Seq(T) /\ DOMAIN r.tags = 1 .. n /\ \A i \in 1 .. n : r.tags[i] = item(i)
    BY <2>5, <2>6
  <2>9. \A i, j \in DOMAIN r.tags : r.tags[i].tag = r.tags[j].tag => r.tags[i] = r.tags[j]
    BY <2>5, <2>7, <2>8
  <2> QED BY <2>2, <2>8, <2>9 DEF T
<1>3. \/ r = ErrorResult(d)
      \/ \E p \in Picks(d), q \in [TagsOf(d) -> Quality] : r = ReadOf(d, p, q)
  BY DEF ResultsOf
<1> QED BY <1>1, <1>2, <1>3

LEMMA EntryFacts ==
  ASSUME DeviceTagsAssumption, NEW e \in Entries
  PROVE  /\ e.value.device \in Devices /\ e.key[1] = e.value.device /\ e.key = KeyOf(e.value)
         /\ e.value \in Singles(e.value.device)
         /\ e.value.error \in BOOLEAN
         /\ \/ e.value.tags = <<>> /\ e.key = <<e.value.device, Result>>
            \/ /\ ~e.value.error /\ Len(e.value.tags) = 1 /\ DOMAIN e.value.tags = {1}
               /\ e.value.tags[1] \in [tag : TagsOf(e.value.device), quality : Quality]
               /\ e.key = <<e.value.device, e.value.tags[1].tag>>
<1>1. PICK d \in Devices : \E r \in Singles(d) : e = [key |-> KeyOf(r), value |-> r]
  BY DEF Entries
<1> PICK r \in Singles(d) : e = [key |-> KeyOf(r), value |-> r]  BY <1>1
<1>2. r \in ResultsOf(d) /\ Len(r.tags) <= 1 /\ e = [key |-> KeyOf(r), value |-> r]  BY DEF Singles
<1>3. /\ r.device = d /\ r.error \in BOOLEAN
      /\ r.tags \in Seq([tag : TagsOf(d), quality : Quality])
      /\ r.error => r.tags = <<>>
  BY <1>2, ResultFacts
<1>4. e.value = r /\ e.key = KeyOf(r) /\ KeyOf(r)[1] = d  BY <1>2, <1>3 DEF KeyOf
<1>5. CASE r.tags = <<>>  BY <1>1, <1>3, <1>4, <1>5 DEF KeyOf
<1>6. CASE r.tags # <<>>
  <2>1. Len(r.tags) = 1 /\ DOMAIN r.tags = {1} /\ r.tags[1] \in [tag : TagsOf(d), quality : Quality]
    <3> DEFINE T == [tag : TagsOf(d), quality : Quality]
    <3>1. r.tags \in Seq(T)  BY <1>3
    <3> HIDE DEF T
    <3>2. Len(r.tags) \in Nat /\ Len(r.tags) # 0 /\ DOMAIN r.tags = 1 .. Len(r.tags)  BY <3>1, <1>6
    <3>6. Len(r.tags) <= 1  BY <1>2
    <3> DEFINE len == Len(r.tags)
    <3>3. len = 1
      <4>1. len \in Nat /\ len # 0 /\ len <= 1  BY <3>2, <3>6
      <4> HIDE DEF len
      <4> QED BY <4>1
    <3>5. DOMAIN r.tags = {1}  BY <3>2, <3>3
    <3>4. r.tags[1] \in T  BY <3>1, <3>3, <3>5
    <3> QED BY <3>3, <3>4, <3>5 DEF T
  <2> QED BY <2>1, <1>1, <1>3, <1>4, <1>6 DEF KeyOf
<1> QED BY <1>5, <1>6

LEMMA SplitFacts ==
  ASSUME DeviceTagsAssumption, NEW d \in Devices, NEW r \in ResultsOf(d)
  PROVE  /\ Split(r) \in Seq(Entries) /\ Split(r) # <<>>
         /\ \A i \in DOMAIN Split(r) : Split(r)[i].value.device = d
         /\ r.tags = <<>> => Split(r) = <<[key |-> <<d, Result>>, value |-> r]>>
         /\ r.tags # <<>> =>
              /\ Len(Split(r)) = Len(r.tags) /\ ~r.error
              /\ \A i \in DOMAIN Split(r) : /\ Split(r)[i].key = <<d, r.tags[i].tag>>
                                            /\ Split(r)[i].value.tags = <<r.tags[i]>>
                                            /\ ~Split(r)[i].value.error
<1>1. /\ r.device = d /\ r.error \in BOOLEAN
      /\ r.tags \in Seq([tag : TagsOf(d), quality : Quality])
      /\ r.error => r.tags = <<>>
  BY ResultFacts
<1>2. CASE r.tags = <<>>
  <2>1. Split(r) = <<[key |-> <<d, Result>>, value |-> r]>>  BY <1>1, <1>2 DEF Split
  <2>2. r \in Singles(d) /\ KeyOf(r) = <<d, Result>>  BY <1>1, <1>2 DEF Singles, KeyOf
  <2>3. [key |-> <<d, Result>>, value |-> r] \in Entries  BY <2>2 DEF Entries
  <2> QED BY <2>1, <2>3, <1>1, <1>2
<1>3. CASE r.tags # <<>>
  <2> DEFINE single(i) == [device |-> d, error |-> FALSE, tags |-> <<r.tags[i]>>]
             entry(i) == [key |-> <<d, r.tags[i].tag>>, value |-> single(i)]
             n == Len(r.tags)
  <2>1. /\ n \in Nat \ {0} /\ ~r.error /\ DOMAIN r.tags = 1 .. n
        /\ Split(r) = [i \in 1 .. n |-> entry(i)]
    <3> DEFINE T == [tag : TagsOf(d), quality : Quality]
    <3>1. r.tags \in Seq(T) /\ ~r.error  BY <1>1, <1>3
    <3> HIDE DEF T
    <3>2. n \in Nat \ {0} /\ DOMAIN r.tags = 1 .. n  BY <3>1, <1>3
    <3>3. r.error = FALSE /\ r.device = d  BY <3>1, <1>1
    <3>4. Split(r) = [i \in 1 .. n |->
                        [key |-> <<r.device, r.tags[i].tag>>,
                         value |-> [device |-> r.device, error |-> r.error, tags |-> <<r.tags[i]>>]]]
      BY <3>1, <3>2, <1>3 DEF Split
    <3> QED BY <3>1, <3>2, <3>3, <3>4
  <2>2. PICK p \in Picks(d), q \in [TagsOf(d) -> Quality] : r = ReadOf(d, p, q)
    BY <1>1, <1>3 DEF ResultsOf, ErrorResult
  <2>3. PICK m \in Nat : p \in [1 .. m -> DOMAIN DeviceTags[d]]
    BY DEF Picks, DeviceTagsAssumption
  <2>4. ASSUME NEW i \in 1 .. n
        PROVE  /\ single(i) \in Singles(d) /\ KeyOf(single(i)) = <<d, r.tags[i].tag>>
               /\ single(i).device = d /\ single(i).tags = <<r.tags[i]>> /\ ~single(i).error
    <3> DEFINE pick == [j \in 1 .. 1 |-> p[i]]
               tag(j) == DeviceTags[d][p[j]]
    <3>1. /\ r = [device |-> d, error |-> FALSE,
                  tags |-> [j \in DOMAIN p |-> TagResult(tag(j), q[tag(j)])]]
          /\ DOMAIN p = 1 .. m
      BY <2>2, <2>3 DEF ReadOf
    <3>2. r.tags = [j \in 1 .. m |-> TagResult(tag(j), q[tag(j)])]  BY <3>1
    <3>3. n = m /\ r.tags[i] = TagResult(tag(i), q[tag(i)])  BY <3>2, <2>1
    <3>5. /\ p[i] \in DOMAIN DeviceTags[d] /\ DeviceTags[d] \in Seq(Tags)
          /\ 1 \in 0 .. Len(DeviceTags[d])
      BY <3>3, <2>3 DEF DeviceTagsAssumption
    <3>6. pick \in Picks(d) /\ pick # <<>>
      <4> DEFINE D == DOMAIN DeviceTags[d]
      <4>1. pick \in [1 .. 1 -> D] /\ pick # <<>> /\ DOMAIN pick = {1}  BY <3>5
      <4> HIDE DEF pick
      <4>2. pick \in UNION {[1 .. k -> D] : k \in 0 .. Len(DeviceTags[d])}  BY <4>1, <3>5
      <4> QED BY <4>1, <4>2 DEF Picks
    <3>7. ReadOf(d, pick, q) = [device |-> d, error |-> FALSE, tags |-> <<TagResult(tag(i), q[tag(i)])>>]
      <4>1. [j \in DOMAIN pick |-> TagResult(DeviceTags[d][pick[j]], q[DeviceTags[d][pick[j]]])]
              = <<TagResult(tag(i), q[tag(i)])>>
        OBVIOUS
      <4> QED BY <4>1 DEF ReadOf
    <3>8. ReadOf(d, pick, q) \in ResultsOf(d)
      <4> HIDE DEF pick
      <4> QED BY <3>6 DEF ResultsOf
    <3>9. single(i) \in ResultsOf(d)  BY <3>3, <3>7, <3>8
    <3> HIDE DEF tag, pick
    <3>10. /\ Len(single(i).tags) = 1 /\ single(i).tags # <<>> /\ single(i).tags[1] = r.tags[i]
           /\ single(i).device = d /\ single(i).tags = <<r.tags[i]>> /\ ~single(i).error
      OBVIOUS
    <3> HIDE DEF single
    <3>11. single(i) \in Singles(d)
      <4>1. Len(single(i).tags) <= 1  BY <3>10
      <4> QED BY <3>9, <4>1 DEF Singles
    <3>12. KeyOf(single(i)) = <<d, r.tags[i].tag>>  BY <3>10 DEF KeyOf
    <3> QED BY <3>10, <3>11, <3>12
  <2>5. ASSUME NEW i \in 1 .. n
        PROVE  /\ entry(i) \in Entries /\ entry(i).value.device = d
               /\ entry(i).key = <<d, r.tags[i].tag>>
               /\ entry(i).value.tags = <<r.tags[i]>> /\ ~entry(i).value.error
    <3>1. entry(i).value = single(i) /\ entry(i).key = <<d, r.tags[i].tag>>  OBVIOUS
    <3>2. entry(i) = [key |-> KeyOf(single(i)), value |-> single(i)]  BY <2>4
    <3> HIDE DEF single, entry
    <3>3. entry(i) \in Entries  BY <3>2, <2>4 DEF Entries
    <3> QED BY <3>1, <3>3, <2>4
  <2> HIDE DEF single, entry
  <2>6. /\ Split(r) \in Seq(Entries) /\ Len(Split(r)) = n /\ DOMAIN Split(r) = 1 .. n
        /\ \A i \in 1 .. n : Split(r)[i] = entry(i)
    BY <2>1, <2>5
  <2> QED BY <2>1, <2>5, <2>6, <1>1, <1>3
<1> QED BY <1>2, <1>3

-----------------------------------------------------------------------------
QueueInv == items \in Seq(Entries) /\ Unique(items)

(* The refinement mapping, of any queue.                                   *)
HasKey(q, k) == \E i \in DOMAIN q : q[i].key = k

BoxOf(q) == [k \in Keys |-> IF HasKey(q, k) THEN q[CHOOSE i \in DOMAIN q : q[i].key = k].value
                            ELSE Vacant]

OlderOf(q) == {p \in Keys \X Keys : \E i, j \in DOMAIN q : i < j /\ p = <<q[i].key, q[j].key>>}

LEMMA Mapping == Box = BoxOf(items) /\ Order = OlderOf(items)
BY DEF Box, BoxOf, Order, OlderOf, InQueue, KeyAt, HasKey

LEMMA MappingNext == Box' = BoxOf(items') /\ Order' = OlderOf(items')
BY DEF Box, BoxOf, Order, OlderOf, InQueue, KeyAt, HasKey

LEMMA EntriesFit ==
  ASSUME NEW e \in Entries  PROVE e.key \in Keys /\ e.value \in Values
<1>1. /\ e.value.device \in Devices /\ e.value \in Singles(e.value.device)
      /\ \/ e.key = <<e.value.device, Result>>
         \/ /\ e.value.tags[1] \in [tag : TagsOf(e.value.device), quality : Quality]
            /\ e.key = <<e.value.device, e.value.tags[1].tag>>
  BY DeviceTagsAssumption, EntryFacts
<1>2. e.value \in Values  BY <1>1 DEF Singles, Values
<1>3. e.key \in Keys  BY <1>1 DEF Keys
<1> QED BY <1>2, <1>3

(* What the places of the mailbox hold.                                    *)
LEMMA BoxFacts ==
  ASSUME NEW q \in Seq(Entries), Unique(q)
  PROVE  /\ \A k \in Keys : BoxOf(q)[k] # Vacant <=> HasKey(q, k)
         /\ \A k \in Keys : ~HasKey(q, k) => BoxOf(q)[k] = Vacant
         /\ \A i \in DOMAIN q : /\ q[i].key \in Keys /\ q[i].value \in Values
                                /\ BoxOf(q)[q[i].key] = q[i].value
<1>1. ASSUME NEW i \in DOMAIN q  PROVE q[i].key \in Keys /\ q[i].value \in Values
  <2>1. q[i] \in Entries  OBVIOUS
  <2> QED BY <2>1, EntriesFit
<1>2. ASSUME NEW i \in DOMAIN q  PROVE BoxOf(q)[q[i].key] = q[i].value
  <2> DEFINE j == CHOOSE j \in DOMAIN q : q[j].key = q[i].key
  <2>1. j \in DOMAIN q /\ q[j].key = q[i].key  OBVIOUS
  <2>2. j = i  BY <2>1 DEF Unique
  <2>3. BoxOf(q)[q[i].key] = q[j].value  BY <1>1 DEF BoxOf, HasKey
  <2> QED BY <2>2, <2>3
<1>3. \A k \in Keys : ~HasKey(q, k) => BoxOf(q)[k] = Vacant  BY DEF BoxOf
<1>4. \A k \in Keys : HasKey(q, k) => BoxOf(q)[k] # Vacant
  BY <1>1, <1>2, QueueAssumption DEF HasKey
<1> QED BY <1>1, <1>2, <1>3, <1>4

(* The order of two places is that of their entries.                       *)
LEMMA OlderFacts ==
  ASSUME NEW q \in Seq(Entries), Unique(q)
  PROVE  /\ \A i, j \in DOMAIN q : <<q[i].key, q[j].key>> \in OlderOf(q) <=> i < j
         /\ \A p \in OlderOf(q) : \E i, j \in DOMAIN q : i < j /\ p = <<q[i].key, q[j].key>>
<1>1. \A p \in OlderOf(q) : \E i, j \in DOMAIN q : i < j /\ p = <<q[i].key, q[j].key>>
  BY DEF OlderOf
<1>2. ASSUME NEW i \in DOMAIN q, NEW j \in DOMAIN q, i < j
      PROVE  <<q[i].key, q[j].key>> \in OlderOf(q)
  BY <1>2, BoxFacts DEF OlderOf
<1>3. ASSUME NEW i \in DOMAIN q, NEW j \in DOMAIN q, <<q[i].key, q[j].key>> \in OlderOf(q)
      PROVE  i < j
  <2>1. PICK k \in DOMAIN q, l \in DOMAIN q :
          k < l /\ q[i].key = q[k].key /\ q[j].key = q[l].key
    BY <1>1, <1>3
  <2> QED BY <2>1 DEF Unique
<1> QED BY <1>1, <1>2, <1>3

-----------------------------------------------------------------------------
LEMMA InitQueueInv == QueueInit => QueueInv
BY DEF QueueInit, QueueInv, Unique

LEMMA PutQueueInv ==
  ASSUME QueueInv, NEW d \in Devices, NEW r \in ResultsOf(d), items' = PutResult(items, r)
  PROVE  QueueInv' /\ Supersedes(Entries, items, Split(r), items')
<1>1. Split(r) \in Seq(Entries)  BY DeviceTagsAssumption, SplitFacts
<1>2. Supersedes(Entries, items, Split(r), items')  BY <1>1, PutSupersedes DEF QueueInv
<1> QED BY <1>2 DEF QueueInv, Supersedes

(* put() fills the places of its keys.                                     *)
LEMMA PutFills ==
  ASSUME QueueInv, NEW d \in Devices, NEW r \in ResultsOf(d),
         items' = PutResult(items, r), written' = {e.key : e \in Range(Split(r))}
  PROVE  Mailbox!Put
<1> DEFINE es == Split(r)
           K == KeysOf(es)
           q == items
           new == items'
           kept == {k \in Keys : BoxOf(q)[k] # Vacant} \ K
           fresh == OlderOf(new) \cap (K \X K)
<1>1. /\ es \in Seq(Entries) /\ es # <<>> /\ q \in Seq(Entries) /\ Unique(q)
      /\ new \in Seq(Entries) /\ Unique(new) /\ Supersedes(Entries, q, es, new)
  BY DeviceTagsAssumption, SplitFacts, PutQueueInv DEF QueueInv
<1>2. written' = K  BY DEF KeysOf, Range
<1> HIDE DEF es, q, new
<1>3. K \in (SUBSET Keys) \ {{}}
  <2>1. 1 \in DOMAIN es /\ \A i \in DOMAIN es : es[i] \in Entries  BY <1>1
  <2>2. es[1].key \in K  BY <2>1 DEF KeysOf
  <2>3. ASSUME NEW k \in K  PROVE k \in Keys
    <3>1. PICK i \in DOMAIN es : k = es[i].key  BY DEF KeysOf
    <3> QED BY <3>1, <2>1, EntriesFit
  <2> HIDE DEF K
  <2> QED BY <2>2, <2>3
<1>4. \A k \in K : HasKey(new, k)  BY <1>1 DEF Supersedes, KeysOf, HasKey
<1>5. ASSUME NEW k \in K  PROVE BoxOf(new)[k] \in Values
  <2>1. PICK i \in DOMAIN new : new[i].key = k  BY <1>4 DEF HasKey
  <2> QED BY <2>1, <1>1, BoxFacts
<1>6. ASSUME NEW i \in DOMAIN new, new[i].key \notin K  PROVE \E j \in DOMAIN q : new[i] = q[j]
  BY <1>1, <1>6 DEF Supersedes, KeysOf
<1>7. ASSUME NEW k \in Keys \ K  PROVE BoxOf(new)[k] = BoxOf(q)[k]
  <2>1. CASE HasKey(q, k)
    <3>1. PICK j \in DOMAIN q : q[j].key = k  BY <2>1 DEF HasKey
    <3>2. PICK i \in DOMAIN new : new[i] = q[j]  BY <3>1, <1>1, <1>7 DEF Supersedes
    <3> QED BY <3>1, <3>2, <1>1, BoxFacts
  <2>2. CASE ~HasKey(q, k)
    <3>1. ~HasKey(new, k)  BY <2>2, <1>6, <1>7 DEF HasKey
    <3> QED BY <2>2, <3>1, <1>1, BoxFacts
  <2> QED BY <2>1, <2>2
<1>8. kept = {k \in Keys : HasKey(q, k)} \ K  BY <1>1, BoxFacts
<1>9. ASSUME NEW i \in DOMAIN new, NEW j \in DOMAIN new, i < j, new[j].key \notin K
      PROVE  /\ new[i].key \notin K
             /\ \E k, l \in DOMAIN q : k < l /\ q[k] = new[i] /\ q[l] = new[j]
  BY <1>1, <1>9 DEF Supersedes
<1>10. \A i, j \in DOMAIN new : i < j \/ i = j \/ j < i  BY <1>1
<1> HIDE DEF K
<1>11. OlderOf(new) \ (K \X K) \subseteq (OlderOf(q) \cap (kept \X kept)) \cup (kept \X K)
  <2> SUFFICES ASSUME NEW p \in OlderOf(new), p \notin K \X K
               PROVE  p \in (OlderOf(q) \cap (kept \X kept)) \cup (kept \X K)
    OBVIOUS
  <2>1. PICK i \in DOMAIN new, j \in DOMAIN new : i < j /\ p = <<new[i].key, new[j].key>>
    BY <1>1, OlderFacts
  <2>2. CASE new[j].key \notin K
    <3>1. PICK k \in DOMAIN q, l \in DOMAIN q : k < l /\ q[k] = new[i] /\ q[l] = new[j]
      BY <2>1, <2>2, <1>9
    <3>2. p \in OlderOf(q)  BY <2>1, <3>1, <1>1, OlderFacts
    <3>3. new[i].key \in kept /\ new[j].key \in kept
      BY <2>1, <2>2, <3>1, <1>1, <1>8, <1>9, BoxFacts DEF HasKey
    <3> QED BY <2>1, <3>2, <3>3
  <2>3. CASE new[j].key \in K
    <3>1. new[i].key \notin K  BY <2>1, <2>3
    <3>2. PICK k \in DOMAIN q : new[i] = q[k]  BY <3>1, <1>6
    <3>3. new[i].key \in kept  BY <3>1, <3>2, <1>1, <1>8, BoxFacts DEF HasKey
    <3> QED BY <2>1, <2>3, <3>3
  <2> QED BY <2>2, <2>3
<1>12. ASSUME NEW j \in kept
       PROVE  \E k \in DOMAIN q, i \in DOMAIN new : q[k].key = j /\ new[i] = q[k]
  <2>1. PICK k \in DOMAIN q : q[k].key = j  BY <1>8 DEF HasKey
  <2> QED BY <2>1, <1>1, <1>8 DEF Supersedes, K
<1>13. kept \X K \subseteq OlderOf(new) \ (K \X K)
  <2> SUFFICES ASSUME NEW a \in kept, NEW b \in K
               PROVE  <<a, b>> \in OlderOf(new) /\ a \notin K
    OBVIOUS
  <2>1. a \notin K  BY <1>8
  <2>2. PICK i \in DOMAIN new : new[i].key = a  BY <1>12
  <2>3. PICK j \in DOMAIN new : new[j].key = b  BY <1>4 DEF HasKey
  <2>4. i < j  BY <2>1, <2>2, <2>3, <1>9, <1>10
  <2> QED BY <2>1, <2>2, <2>3, <2>4, <1>1, OlderFacts
<1>14. OlderOf(q) \cap (kept \X kept) \subseteq OlderOf(new) \ (K \X K)
  <2> SUFFICES ASSUME NEW p \in OlderOf(q), p \in kept \X kept
               PROVE  p \in OlderOf(new) /\ p \notin K \X K
    OBVIOUS
  <2>1. PICK k \in DOMAIN q, l \in DOMAIN q : k < l /\ p = <<q[k].key, q[l].key>>
    BY <1>1, OlderFacts
  <2>2. q[k].key \in kept /\ q[l].key \in kept  BY <2>1
  <2>3. PICK i \in DOMAIN new : new[i] = q[k]  BY <2>2, <1>1, <1>8 DEF Supersedes, K
  <2>4. PICK j \in DOMAIN new : new[j] = q[l]  BY <2>2, <1>1, <1>8 DEF Supersedes, K
  <2>5. i # j  BY <2>1, <2>3, <2>4, <1>1 DEF Unique
  <2>6. ~(j < i)
    <3> SUFFICES ASSUME j < i  PROVE FALSE
      OBVIOUS
    <3>1. new[i].key \notin K  BY <2>2, <2>3, <1>8
    <3>2. PICK m \in DOMAIN q, n \in DOMAIN q : m < n /\ q[m] = new[j] /\ q[n] = new[i]
      BY <3>1, <1>9
    <3>3. m = l /\ n = k  BY <2>3, <2>4, <3>2, <1>1 DEF Unique
    <3> QED BY <2>1, <3>2, <3>3, <1>1
  <2>7. <<new[i].key, new[j].key>> \in OlderOf(new)  BY <2>5, <2>6, <1>1, <1>10, OlderFacts
  <2> QED BY <2>1, <2>2, <2>3, <2>4, <2>7, <1>8
<1>15. Mailbox!StrictOrder(fresh, K)
  <2>1. ASSUME NEW j \in K, NEW k \in K
        PROVE  j # k <=> (<<j, k>> \in fresh \/ <<k, j>> \in fresh)
    <3>1. PICK a \in DOMAIN new : new[a].key = j  BY <1>4 DEF HasKey
    <3>2. PICK b \in DOMAIN new : new[b].key = k  BY <1>4 DEF HasKey
    <3>3. /\ <<j, k>> \in fresh <=> a < b
          /\ <<k, j>> \in fresh <=> b < a
      BY <3>1, <3>2, <1>1, OlderFacts
    <3>4. j = k <=> a = b  BY <3>1, <3>2, <1>1 DEF Unique
    <3>5. a \in Int /\ b \in Int  BY <1>1
    <3> QED BY <3>3, <3>4, <3>5
  <2>2. ASSUME NEW j \in K, NEW k \in K, NEW l \in K, <<j, k>> \in fresh, <<k, l>> \in fresh
        PROVE  <<j, l>> \in fresh
    <3>1. PICK a \in DOMAIN new : new[a].key = j  BY <1>4 DEF HasKey
    <3>2. PICK b \in DOMAIN new : new[b].key = k  BY <1>4 DEF HasKey
    <3>3. PICK c \in DOMAIN new : new[c].key = l  BY <1>4 DEF HasKey
    <3>4. a < b /\ b < c  BY <2>2, <3>1, <3>2, <3>3, <1>1, OlderFacts
    <3>5. a < c  BY <3>4, <1>1
    <3>6. <<j, l>> \in OlderOf(new)  BY <3>1, <3>3, <3>5, <1>1, OlderFacts
    <3> QED BY <3>6
  <2> QED BY <2>1, <2>2 DEF Mailbox!StrictOrder
<1>16. OlderOf(new) \ (K \X K) = (OlderOf(q) \cap (kept \X kept)) \cup (kept \X K)
  BY <1>11, <1>13, <1>14
<1>17. /\ Box = BoxOf(q) /\ Order = OlderOf(q)
       /\ Box' = BoxOf(new) /\ Order' = OlderOf(new)
  BY Mapping, MappingNext DEF q, new
<1> HIDE DEF kept, fresh
<1>18. Mailbox!Full \ K = kept  BY <1>17 DEF kept, Mailbox!Full
<1> QED BY <1>2, <1>3, <1>5, <1>7, <1>15, <1>16, <1>17, <1>18 DEF Mailbox!Put, fresh

(* get() empties the oldest place.                                         *)
LEMMA GetTakes ==
  ASSUME QueueInv, NEW c \in Consumers, Get(c)
  PROVE  QueueInv' /\ Mailbox!Take
<1> DEFINE q == items
           new == items'
           k == q[1].key
<1>1. new = Tail(q) /\ q # <<>> /\ written' = {} /\ q \in Seq(Entries) /\ Unique(q)
  BY DEF Get, QueueInv
<1> HIDE DEF q, new
<1>2. /\ 1 \in DOMAIN q /\ q[1] \in Entries /\ new \in Seq(Entries) /\ Unique(new)
      /\ \A i \in DOMAIN new : i + 1 \in DOMAIN q /\ new[i] = q[i + 1]
      /\ \A i \in DOMAIN q \ {1} : i - 1 \in DOMAIN new /\ new[i - 1] = q[i]
      /\ \A i \in DOMAIN q \ {1} : 1 < i /\ q[i].key # q[1].key
  BY <1>1, TailFacts
<1>3. DOMAIN q \subseteq Int /\ DOMAIN new \subseteq Nat \ {0}  BY <1>1, <1>2
<1>4. k \in Keys /\ HasKey(q, k)  BY <1>2, EntriesFit DEF HasKey
<1> HIDE DEF k
<1>5. ~HasKey(new, k)  BY <1>2, <1>3 DEF HasKey, k
<1>6. ASSUME NEW j \in Keys \ {k}  PROVE BoxOf(new)[j] = BoxOf(q)[j]
  <2>1. CASE HasKey(q, j)
    <3>1. PICK i \in DOMAIN q \ {1} : q[i].key = j  BY <2>1 DEF HasKey, k
    <3>2. i - 1 \in DOMAIN new /\ new[i - 1] = q[i]  BY <1>2
    <3>3. BoxOf(q)[j] = q[i].value  BY <3>1, <1>1, BoxFacts
    <3>4. BoxOf(new)[new[i - 1].key] = new[i - 1].value  BY <3>2, <1>2, BoxFacts
    <3> QED BY <3>1, <3>2, <3>3, <3>4
  <2>2. CASE ~HasKey(q, j)
    <3>1. ~HasKey(new, j)  BY <2>2, <1>2 DEF HasKey
    <3> QED BY <2>2, <3>1, <1>1, <1>2, BoxFacts
  <2> QED BY <2>1, <2>2
<1>7. BoxOf(new) = [BoxOf(q) EXCEPT ![k] = Vacant]
  <2>1. BoxOf(new)[k] = Vacant  BY <1>4, <1>5 DEF BoxOf
  <2>2. DOMAIN BoxOf(q) = Keys /\ DOMAIN BoxOf(new) = Keys
    BY DEF BoxOf
  <2>3. BoxOf(q) = [j \in Keys |-> BoxOf(q)[j]] /\ BoxOf(new) = [j \in Keys |-> BoxOf(new)[j]]
    BY DEF BoxOf
  <2> QED BY <2>1, <2>2, <2>3, <1>6
<1>8. \A j \in Keys : <<j, k>> \notin OlderOf(q)
  <2> SUFFICES ASSUME NEW j \in Keys, <<j, k>> \in OlderOf(q)  PROVE FALSE
    OBVIOUS
  <2>1. PICK a \in DOMAIN q, b \in DOMAIN q : a < b /\ q[b].key = k  BY <1>1, OlderFacts
  <2>2. b = 1  BY <2>1, <1>2 DEF k
  <2> QED BY <2>1, <2>2, <1>2, <1>3
<1>9. OlderOf(new) = {p \in OlderOf(q) : p[1] # k /\ p[2] # k}
  <2>1. ASSUME NEW p \in OlderOf(new)  PROVE p \in OlderOf(q) /\ p[1] # k /\ p[2] # k
    <3>1. PICK i \in DOMAIN new, j \in DOMAIN new : i < j /\ p = <<new[i].key, new[j].key>>
      BY <1>2, OlderFacts
    <3>2. /\ i + 1 \in DOMAIN q \ {1} /\ j + 1 \in DOMAIN q \ {1} /\ i + 1 < j + 1
          /\ new[i] = q[i + 1] /\ new[j] = q[j + 1]
      BY <3>1, <1>2, <1>3
    <3>3. p \in OlderOf(q)  BY <3>1, <3>2, <1>1, OlderFacts
    <3>4. q[i + 1].key # k /\ q[j + 1].key # k  BY <3>2, <1>2 DEF k
    <3> QED BY <3>1, <3>2, <3>3, <3>4
  <2>2. ASSUME NEW p \in OlderOf(q), p[1] # k, p[2] # k  PROVE p \in OlderOf(new)
    <3>1. PICK i \in DOMAIN q, j \in DOMAIN q : i < j /\ p = <<q[i].key, q[j].key>>
      BY <1>1, OlderFacts
    <3>2. i # 1 /\ j # 1  BY <3>1, <2>2 DEF k
    <3>3. /\ i - 1 \in DOMAIN new /\ j - 1 \in DOMAIN new /\ i - 1 < j - 1
          /\ new[i - 1] = q[i] /\ new[j - 1] = q[j]
      BY <3>1, <3>2, <1>2, <1>3
    <3> QED BY <3>1, <3>3, <1>2, OlderFacts
  <2> QED BY <2>1, <2>2
<1>10. /\ Box = BoxOf(q) /\ Order = OlderOf(q)
       /\ Box' = BoxOf(new) /\ Order' = OlderOf(new)
  BY Mapping, MappingNext DEF q, new
<1>11. k \in Mailbox!Full /\ \A j \in Mailbox!Full : <<j, k>> \notin Order
  BY <1>1, <1>4, <1>8, <1>10, BoxFacts DEF Mailbox!Full
<1>12. Mailbox!Take
  BY <1>1, <1>7, <1>9, <1>10, <1>11 DEF Mailbox!Take
<1> QED BY <1>2, <1>12 DEF QueueInv, new

LEMMA StepIsMailboxStep ==
  QueueInv /\ [QueueNext]_queue => QueueInv' /\ [Mailbox!Next]_(Mailbox!promise)
<1> SUFFICES ASSUME QueueInv, [QueueNext]_queue  PROVE QueueInv' /\ [Mailbox!Next]_(Mailbox!promise)
  OBVIOUS
<1>1. ASSUME NEW d \in Devices, Put(d)
      PROVE  QueueInv' /\ [Mailbox!Next]_(Mailbox!promise)
  <2>1. PICK r \in ResultsOf(d) : /\ items' = PutResult(items, r)
                                  /\ written' = {e.key : e \in Range(Split(r))}
    BY <1>1 DEF Put
  <2>2. QueueInv'  BY <2>1, PutQueueInv
  <2>3. Mailbox!Put  BY <2>1, PutFills
  <2> QED BY <2>2, <2>3 DEF Mailbox!Next
<1>2. ASSUME NEW c \in Consumers, Get(c)
      PROVE  QueueInv' /\ [Mailbox!Next]_(Mailbox!promise)
  BY <1>2, GetTakes DEF Mailbox!Next
<1>3. ASSUME UNCHANGED <<items, written>>
      PROVE  QueueInv' /\ [Mailbox!Next]_(Mailbox!promise)
  <2>1. UNCHANGED Mailbox!promise
    BY <1>3, Mapping, MappingNext DEF Mailbox!promise
  <2> QED BY <1>3, <2>1 DEF QueueInv
<1>4. ASSUME NEW c \in Consumers, Wait(c) \/ RaiseEmpty(c)
      PROVE  UNCHANGED <<items, written>>
  BY <1>4 DEF Wait, RaiseEmpty
<1> QED BY <1>1, <1>2, <1>3, <1>4 DEF QueueNext, queue

LEMMA InitIsMailboxInit == QueueInit => Mailbox!Init
<1> SUFFICES ASSUME QueueInit  PROVE Mailbox!Init
  OBVIOUS
<1>1. items = <<>> /\ written = {} /\ DOMAIN items = {}  BY DEF QueueInit
<1>2. Box = [k \in Keys |-> Vacant]  BY <1>1 DEF Box, InQueue
<1>3. Order = {}  BY <1>1 DEF Order
<1> QED BY <1>1, <1>2, <1>3 DEF Mailbox!Init

(* _LatestReadResultQueue is a mailbox with one place per key, emptied     *)
(* oldest content first, whatever results are put and whoever calls get(). *)
THEOREM QueueImplementsMailbox == QueueSpec => ImplementsLatestQueue
<1>1. QueueSpec => []QueueInv
  BY InitQueueInv, StepIsMailboxStep, PTL DEF QueueSpec
<1> QED
  BY <1>1, InitIsMailboxInit, StepIsMailboxStep, PTL
     DEF QueueSpec, ImplementsLatestQueue, Mailbox!Spec
==============================================================================
