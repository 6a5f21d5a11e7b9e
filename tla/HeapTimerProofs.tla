---------------------------- MODULE HeapTimerProofs ----------------------------
(***************************************************************************)
(* Proofs about HeapTimer, for any number of descriptors.  The loops of    *)
(* siftup_ and siftdown_ are followed round by round: Least gives the      *)
(* first round after which a claim about a loop would fail, and the lemma  *)
(* about one round shows that there is none.                               *)
(***************************************************************************)
EXTENDS HeapTimer, TLAPS, WellFoundedInduction

-------------------------------------------------------------------------------
(* Natural numbers.                                                         *)

\* A set of natural numbers that is not empty has a least element.
LEMMA Least ==
  ASSUME NEW T \in SUBSET Nat, T # {}
  PROVE  \E x \in T : \A y \in T : x <= y
<1> DEFINE R == OpToRel(<, Nat)
<1>1. \A x, y \in Nat : y < x => <<y, x>> \in R
  BY DEF OpToRel
<1>2. \E x \in T : \A y \in T : ~ (<<y, x>> \in R)
  <2>1. IsWellFoundedOn(R, Nat)
    BY NatLessThanWellFounded
  <2> HIDE DEF R
  <2>2. QED
    BY <2>1, WFMin
<1> HIDE DEF R
<1>3. PICK x \in T : \A y \in T : ~ (<<y, x>> \in R)
  BY <1>2
<1>4. \A y \in T : x <= y
  <2> TAKE y \in T
  <2>1. x \in Nat /\ y \in Nat
    OBVIOUS
  <2>2. ~(y < x)
    BY <1>1, <1>3, <2>1, Zenon
  <2>3. QED
    BY <2>1, <2>2
<1>5. QED
  BY <1>4

\* What holds of 0, and of k whenever it holds of k - 1, holds up to n.
LEMMA Rounds ==
  ASSUME NEW n \in Nat, NEW T, 0 \in T, \A k \in 1..n : k - 1 \in T => k \in T
  PROVE  \A k \in 0..n : k \in T
<1> SUFFICES ASSUME \E k \in 0..n : k \notin T PROVE FALSE
  OBVIOUS
<1> DEFINE B == {k \in 0..n : k \notin T}
<1>1. B \in SUBSET Nat /\ B # {}
  OBVIOUS
<1>2. PICK x \in B : \A y \in B : x <= y
  BY <1>1, Least
<1>3. x \in 1..n /\ x - 1 \notin B /\ x - 1 \in 0..n
  BY <1>2
<1>4. QED
  BY <1>2, <1>3

-------------------------------------------------------------------------------
(* Heap and index.                                                          *)

\* The index finds each node, and every node is found.
Sound(t) ==
  /\ t.heap \in Seq(Node)
  /\ DOMAIN t.ref \subseteq Id
  /\ t.ref \in [DOMAIN t.ref -> 1..Len(t.heap)]
  /\ \A k \in 1..Len(t.heap) : t.heap[k].id \in DOMAIN t.ref /\ t.ref[t.heap[k].id] = k
  /\ \A id \in DOMAIN t.ref : t.heap[t.ref[id]].id = id

\* The same nodes, in other places.
Same(t, u) ==
  /\ Len(u.heap) = Len(t.heap)
  /\ DOMAIN u.ref = DOMAIN t.ref
  /\ \A id \in DOMAIN t.ref : u.heap[u.ref[id]] = t.heap[t.ref[id]]

\* Node k does not come before its parent.
Follows(t, k) == t.heap[k \div 2].expires <= t.heap[k].expires

Ordered(t, n) == \A k \in 2..n : Follows(t, k)

\* The parent of i does not come after the children of i.
Bridged(t, i, n) ==
  \A k \in 2..n : i > 1 /\ k \div 2 = i => t.heap[i \div 2].expires <= t.heap[k].expires

\* In order but for node i and its parent: where siftup_ works.
ButAbove(t, i, n) ==
  (\A k \in 2..n : k # i => Follows(t, k)) /\ Bridged(t, i, n)

\* In order but for node i, its parent and its children: where siftdown_ begins.
ButAround(t, i, n) ==
  (\A k \in 2..n : k # i /\ k \div 2 # i => Follows(t, k)) /\ Bridged(t, i, n)

\* SwapNode_ exchanges two nodes and keeps the index.
LEMMA Swap ==
  ASSUME NEW t, Sound(t), NEW i \in 1..Len(t.heap), NEW j \in 1..Len(t.heap), i # j
  PROVE  LET u == SwapNode_(t, i, j)
         IN /\ Sound(u) /\ Same(t, u)
            /\ \A k \in 1..Len(t.heap) :
                 u.heap[k] = IF k = i THEN t.heap[j] ELSE IF k = j THEN t.heap[i] ELSE t.heap[k]
<1> DEFINE n == Len(t.heap)
           g == SwapNode_(t, i, j).heap
           q == SwapNode_(t, i, j).ref
<1>1. /\ n \in Nat /\ t.heap \in Seq(Node)
      /\ \A k \in 1..n : t.heap[k].id \in DOMAIN t.ref /\ t.ref[t.heap[k].id] = k
      /\ \A id \in DOMAIN t.ref : t.ref[id] \in 1..n /\ t.heap[t.ref[id]].id = id
  BY DEF Sound
<1>2. /\ g \in Seq(Node) /\ Len(g) = n
      /\ \A k \in 1..n :
           g[k] = IF k = i THEN t.heap[j] ELSE IF k = j THEN t.heap[i] ELSE t.heap[k]
  BY <1>1 DEF SwapNode_
<1>3. t.heap[i].id # t.heap[j].id /\ t.heap[i].id \in DOMAIN t.ref /\ t.heap[j].id \in DOMAIN t.ref
  BY <1>1
<1>4. /\ DOMAIN q = DOMAIN t.ref /\ q = [id \in DOMAIN q |-> q[id]]
      /\ \A id \in DOMAIN t.ref :
           q[id] = IF id = t.heap[i].id THEN j ELSE IF id = t.heap[j].id THEN i ELSE t.ref[id]
  BY <1>3 DEF SwapNode_
<1> HIDE DEF n, g, q
<1> DEFINE h == t.heap  r == t.ref
<1>h. /\ i \in 1..n /\ j \in 1..n /\ n \in Nat
      /\ \A k \in 1..n : h[k].id \in DOMAIN r /\ r[h[k].id] = k
      /\ \A id \in DOMAIN r : r[id] \in 1..n /\ h[r[id]].id = id
      /\ \A k \in 1..n : g[k] = IF k = i THEN h[j] ELSE IF k = j THEN h[i] ELSE h[k]
      /\ \A id \in DOMAIN r :
           q[id] = IF id = h[i].id THEN j ELSE IF id = h[j].id THEN i ELSE r[id]
  BY <1>1, <1>2, <1>4 DEF n
<1> HIDE DEF h, r
<1>k. ASSUME NEW k \in 1..n PROVE g[k].id \in DOMAIN r /\ q[g[k].id] = k
  <2>1. CASE k = i
    BY <1>h, <2>1
  <2>2. CASE k = j
    BY <1>h, <2>2
  <2>3. CASE k # i /\ k # j
    BY SMTT(20), <1>h, <2>3
  <2>4. QED
    BY <2>1, <2>2, <2>3
<1>r. ASSUME NEW id \in DOMAIN r PROVE q[id] \in 1..n /\ g[q[id]] = h[r[id]]
  <2>1. CASE id = h[i].id
    BY <1>h, <2>1
  <2>2. CASE id = h[j].id /\ id # h[i].id
    BY <1>h, <2>2
  <2>3. CASE id # h[i].id /\ id # h[j].id
    BY <1>h, <2>3
  <2>4. QED
    BY <2>1, <2>2, <2>3
<1>5. /\ \A k \in 1..n : g[k].id \in DOMAIN t.ref /\ q[g[k].id] = k
      /\ \A id \in DOMAIN t.ref : q[id] \in 1..n /\ g[q[id]] = t.heap[t.ref[id]]
  BY <1>k, <1>r DEF h, r
<1>6. q \in [DOMAIN q -> 1..n]
  BY <1>4, <1>5
<1>7. /\ g \in Seq(Node) /\ Len(g) = n /\ DOMAIN q = DOMAIN t.ref /\ DOMAIN q \subseteq Id
      /\ \A id \in DOMAIN t.ref : g[q[id]].id = id
  BY <1>1, <1>2, <1>4, <1>5 DEF Sound
<1>8. Sound(SwapNode_(t, i, j)) /\ Same(t, SwapNode_(t, i, j))
  BY <1>5, <1>6, <1>7 DEF Sound, Same, g, q, n
<1>9. QED
  BY <1>2, <1>8 DEF g, n

\* Same is transitive.
LEMMA SameTrans ==
  ASSUME NEW t, NEW u, NEW v, Same(t, u), Same(u, v)
  PROVE  Same(t, v)
  BY DEF Same

\* Deadlines are numbers, and halves are positions.
LEMMA Numbers ==
  ASSUME NEW t, Sound(t)
  PROVE  /\ Len(t.heap) \in Nat
         /\ \A k \in 1..Len(t.heap) : t.heap[k] \in Node /\ t.heap[k].expires \in Nat
         /\ \A k \in 2..Len(t.heap) : k \div 2 \in 1..(k - 1) /\ 2 * (k \div 2) \in (k - 1)..k
<1>1. t.heap \in Seq(Node)
  BY DEF Sound
<1>2. \A k \in 1..Len(t.heap) : t.heap[k] \in Node
  BY <1>1
<1>3. QED
  BY <1>1, <1>2 DEF Node

-------------------------------------------------------------------------------
(* The way up.                                                              *)

\* A round moves the place where the order may be wrong to the parent.
LEMMA UpOrder ==
  ASSUME NEW t, Sound(t), NEW n \in 1..Len(t.heap), NEW i \in 2..n,
         ButAbove(t, i, n), ~(t.heap[i \div 2].expires < t.heap[i].expires)
  PROVE  ButAbove(SwapNode_(t, i, i \div 2), i \div 2, n)
<1> DEFINE j == i \div 2
           u == SwapNode_(t, i, j)
<1>1. /\ Len(t.heap) \in Nat
      /\ \A k \in 1..Len(t.heap) : t.heap[k].expires \in Nat
      /\ \A k \in 2..Len(t.heap) : k \div 2 \in 1..(k - 1)
  BY Numbers
<1>2. j \in 1..(i - 1) /\ j \in 1..Len(t.heap) /\ i \in 1..Len(t.heap) /\ i # j
  BY <1>1
<1>3. \A k \in 1..Len(t.heap) :
        u.heap[k] = IF k = i THEN t.heap[j] ELSE IF k = j THEN t.heap[i] ELSE t.heap[k]
  BY <1>2, Swap
<1> HIDE DEF u
<1>4. ASSUME NEW k \in 2..n, k # j PROVE Follows(u, k)
  <2>1. k \div 2 \in 1..(k - 1) /\ k \div 2 \in 1..Len(t.heap) /\ k \in 1..Len(t.heap)
    BY <1>1
  <2>2. CASE k = i
    BY <1>1, <1>2, <1>3, <2>1, <2>2 DEF Follows
  <2>3. CASE k # i /\ k \div 2 = i
    <3>1. t.heap[i \div 2].expires <= t.heap[k].expires
      BY <2>3 DEF ButAbove, Bridged
    <3>2. QED
      BY <1>1, <1>2, <1>3, <1>4, <2>1, <2>3, <3>1 DEF Follows
  <2>4. CASE k # i /\ k \div 2 # i
    <3>1. t.heap[k \div 2].expires <= t.heap[k].expires
      BY <2>4 DEF ButAbove, Follows
    <3>2. u.heap[k] = t.heap[k]
      BY <1>3, <1>4, <2>1, <2>4
    <3>3. CASE k \div 2 = j
      <4>1. u.heap[k \div 2] = t.heap[i]
        BY <1>2, <1>3, <3>3
      <4>2. t.heap[i].expires <= t.heap[j].expires
        BY <1>1, <1>2
      <4>3. QED
        BY <1>1, <1>2, <2>1, <3>1, <3>2, <3>3, <4>1, <4>2 DEF Follows
    <3>4. CASE k \div 2 # j
      <4>1. u.heap[k \div 2] = t.heap[k \div 2]
        BY <1>3, <2>1, <2>4, <3>4
      <4>2. QED
        BY <3>1, <3>2, <4>1 DEF Follows
    <3>5. QED
      BY <3>3, <3>4
  <2>5. QED
    BY <2>2, <2>3, <2>4
<1>5. ASSUME NEW k \in 2..n, j > 1, k \div 2 = j
      PROVE  u.heap[j \div 2].expires <= u.heap[k].expires
  <2>1. j \div 2 \in 1..(j - 1) /\ j \in 2..n /\ k \in 1..Len(t.heap) /\ k # j /\ j # i
    BY <1>1, <1>2, <1>5
  <2>2. t.heap[j \div 2].expires <= t.heap[j].expires
    BY <2>1 DEF ButAbove, Follows
  <2>3. j \div 2 \in 1..Len(t.heap) /\ j \div 2 # i /\ j \div 2 # j
    BY <1>1, <1>2, <2>1
  <2>4. u.heap[j \div 2] = t.heap[j \div 2]
    BY <1>3, <2>3
  <2>5. CASE k = i
    <3>1. u.heap[k] = t.heap[j]
      BY <1>2, <1>3, <2>5
    <3>2. QED
      BY <2>2, <2>4, <3>1
  <2>6. CASE k # i
    <3>1. t.heap[j].expires <= t.heap[k].expires
      BY <1>5, <2>6 DEF ButAbove, Follows
    <3>2. u.heap[k] = t.heap[k]
      BY <1>3, <2>1, <2>6
    <3>3. QED
      BY SMTT(20), <1>1, <1>2, <2>1, <2>2, <2>3, <2>4, <3>1, <3>2
  <2>7. QED
    BY <2>5, <2>6
<1>6. QED
  BY <1>4, <1>5 DEF ButAbove, Bridged, u

\* What every round of siftup_ keeps: the nodes, the index, those behind the start, and
\* the order but for the place it has come to.
UpInv(t, i, n, s) ==
  /\ Sound(s.t) /\ Same(t, s.t)
  /\ s.i \in 1..i
  /\ \A k \in (i + 1)..Len(t.heap) : s.t.heap[k] = t.heap[k]
  /\ ButAbove(t, i, n) => ButAbove(s.t, s.i, n)

\* The loop is left here.
UpEnds(s) == s.i = 1 \/ s.t.heap[s.i \div 2].expires < s.t.heap[s.i].expires

\* A round moves up, unless the loop ends.
LEMMA UpStep ==
  ASSUME NEW t, Sound(t), NEW i \in 1..Len(t.heap), NEW n \in i..Len(t.heap), NEW s,
         UpInv(t, i, n, s)
  PROVE  /\ UpInv(t, i, n, UpRound(s))
         /\ IF UpEnds(s) THEN UpRound(s) = s ELSE UpRound(s).i < s.i
<1> DEFINE j == s.i \div 2
<1>1. CASE UpEnds(s)
  BY <1>1 DEF UpEnds, UpRound
<1>2. CASE ~UpEnds(s)
  <2>1. UpRound(s) = [t |-> SwapNode_(s.t, s.i, j), i |-> j]
    BY <1>2 DEF UpEnds, UpRound
  <2>2. Len(s.t.heap) = Len(t.heap) /\ Len(t.heap) \in Nat
    BY Numbers DEF UpInv, Same
  <2>3. s.i \in 2..i /\ s.i \in 2..n /\ s.i \in 2..Len(s.t.heap) /\ n \in 1..Len(s.t.heap)
    BY <1>2, <2>2 DEF UpEnds, UpInv
  <2>4. j \in 1..(s.i - 1)
    BY <2>3
  <2>5. Sound(s.t) /\ s.i \in 1..Len(s.t.heap) /\ j \in 1..Len(s.t.heap) /\ s.i # j
    BY <2>3, <2>4 DEF UpInv
  <2>6. /\ Sound(SwapNode_(s.t, s.i, j)) /\ Same(s.t, SwapNode_(s.t, s.i, j))
        /\ \A k \in (i + 1)..Len(t.heap) : SwapNode_(s.t, s.i, j).heap[k] = s.t.heap[k]
    BY <2>2, <2>3, <2>4, <2>5, Swap
  <2>7. Same(t, SwapNode_(s.t, s.i, j))
    BY <2>6, SameTrans DEF UpInv
  <2>8. ButAbove(t, i, n) => ButAbove(SwapNode_(s.t, s.i, j), j, n)
    BY <1>2, <2>3, <2>5, UpOrder DEF UpInv, UpEnds
  <2>9. UpInv(t, i, n, UpRound(s))
    BY <2>1, <2>3, <2>4, <2>6, <2>7, <2>8 DEF UpInv
  <2>10. QED
    BY <1>2, <2>1, <2>3, <2>4, <2>9
<1>3. QED
  BY <1>1, <1>2

\* The definition of siftup_ is sound: its rounds follow one another.
LEMMA UpRounds ==
  ASSUME NEW t, NEW i \in Nat
  PROVE  \E s : /\ s[0] = [t |-> t, i |-> i]
                /\ \A k \in 1..i : s[k] = UpRound(s[k - 1])
                /\ siftup_(t, i) = s[i].t
<1> DEFINE P(s, m) ==
      s = [k \in 0..m |-> IF k = 0 THEN [t |-> t, i |-> i] ELSE UpRound(s[k - 1])]
           T == {m \in 0..i : \E s : P(s, m)}
<1>1. 0 \in T
  <2> DEFINE g == [k \in 0..0 |-> [t |-> t, i |-> i]]
  <2>1. P(g, 0)
    OBVIOUS
  <2> HIDE DEF P, g
  <2>2. QED
    BY <2>1
<1>2. ASSUME NEW m \in 1..i, m - 1 \in T PROVE m \in T
  <2>1. PICK s : P(s, m - 1)
    BY <1>2
  <2> DEFINE g == [k \in 0..m |-> IF k < m THEN s[k] ELSE UpRound(s[m - 1])]
  <2>2. P(g, m)
    BY <2>1
  <2> HIDE DEF P, g
  <2>3. QED
    BY <2>2
<1>3. \E s : P(s, i)
  <2> HIDE DEF P
  <2>1. \A m \in 0..i : m \in T
    BY <1>1, <1>2, Rounds
  <2>2. QED
    BY <2>1
<1> DEFINE s == CHOOSE s : P(s, i)
<1>4. P(s, i)
  <2> HIDE DEF P
  <2>1. QED
    BY <1>3
<1>5. siftup_(t, i) = s[i].t
  BY DEF siftup_
<1>6. s[0] = [t |-> t, i |-> i] /\ \A k \in 1..i : s[k] = UpRound(s[k - 1])
  <2> HIDE DEF s
  <2>1. QED
    BY <1>4
<1> HIDE DEF s, P
<1>7. QED
  BY <1>5, <1>6

\* siftup_ keeps the nodes and the index, and repairs the order above i.
LEMMA SiftUp ==
  ASSUME NEW t, Sound(t), NEW i \in 1..Len(t.heap), NEW n \in i..Len(t.heap)
  PROVE  /\ Sound(siftup_(t, i)) /\ Same(t, siftup_(t, i))
         /\ \A k \in (i + 1)..Len(t.heap) : siftup_(t, i).heap[k] = t.heap[k]
         /\ ButAbove(t, i, n) => Ordered(siftup_(t, i), n)
<1>0. Len(t.heap) \in Nat /\ i \in Nat /\ i >= 1
  BY Numbers
<1>1. PICK s : /\ s[0] = [t |-> t, i |-> i]
               /\ \A k \in 1..i : s[k] = UpRound(s[k - 1])
               /\ siftup_(t, i) = s[i].t
  BY <1>0, UpRounds
<1>2. UpInv(t, i, n, s[0])
  BY <1>0, <1>1 DEF UpInv, Same
<1> DEFINE T == {k \in 0..i : UpInv(t, i, n, s[k]) /\ (UpEnds(s[k]) \/ s[k].i <= i - k)}
<1>3. 0 \in T
  BY <1>0, <1>1, <1>2
<1>4. ASSUME NEW k \in 1..i, k - 1 \in T PROVE k \in T
  <2>1. s[k] = UpRound(s[k - 1]) /\ UpInv(t, i, n, s[k - 1])
    BY <1>1, <1>4
  <2>2. /\ UpInv(t, i, n, s[k])
        /\ IF UpEnds(s[k - 1]) THEN s[k] = s[k - 1] ELSE s[k].i < s[k - 1].i
    BY <2>1, UpStep
  <2>3. s[k].i \in 1..i /\ s[k - 1].i \in 1..i
    BY <2>1, <2>2 DEF UpInv
  <2>4. UpEnds(s[k]) \/ s[k].i <= i - k
    BY <1>0, <1>4, <2>2, <2>3
  <2>5. QED
    BY <2>2, <2>4
<1>5. UpInv(t, i, n, s[i]) /\ UpEnds(s[i])
  <2>1. \A k \in 0..i : k \in T
    <3> HIDE DEF T
    <3>1. QED
      BY <1>0, <1>3, <1>4, Rounds
  <2>2. i \in T
    BY <1>0, <2>1
  <2>3. s[i].i \in 1..i
    BY <2>2 DEF UpInv
  <2>4. QED
    BY <1>0, <2>2, <2>3
<1>6. ASSUME ButAbove(s[i].t, s[i].i, n) PROVE Ordered(s[i].t, n)
  <2>1. Sound(s[i].t) /\ Len(s[i].t.heap) = Len(t.heap)
    BY <1>5 DEF UpInv, Same
  <2>2. \A k \in 1..Len(t.heap) : s[i].t.heap[k].expires \in Nat
    BY <2>1, Numbers
  <2>3. s[i].i \in 1..i
    BY <1>5 DEF UpInv
  <2>4. SUFFICES ASSUME NEW k \in 2..n PROVE Follows(s[i].t, k)
    BY DEF Ordered
  <2>5. CASE k # s[i].i
    BY <1>6, <2>5 DEF ButAbove
  <2>6. CASE k = s[i].i
    <3>1. s[i].t.heap[k \div 2].expires < s[i].t.heap[k].expires
      BY <1>5, <2>6 DEF UpEnds
    <3>2. k \div 2 \in 1..Len(t.heap) /\ k \in 1..Len(t.heap)
      BY <1>0
    <3>3. QED
      BY <2>2, <3>1, <3>2 DEF Follows
  <2>7. QED
    BY <2>5, <2>6
<1>7. QED
  BY <1>1, <1>5, <1>6 DEF UpInv

-------------------------------------------------------------------------------
(* The way down.                                                            *)

\* Child is a child, and no later than the other one.
LEMMA ChildIs ==
  ASSUME NEW t, Sound(t), NEW n \in 1..Len(t.heap), NEW i \in 1..n, 2 * i <= n
  PROVE  /\ Child(t, i, n) \in (i + 1)..n
         /\ Child(t, i, n) \div 2 = i
         /\ \A k \in 2..n : k \div 2 = i =>
              t.heap[Child(t, i, n)].expires <= t.heap[k].expires
<1>1. Len(t.heap) \in Nat /\ \A k \in 1..Len(t.heap) : t.heap[k].expires \in Nat
  BY Numbers
<1>2. \A k \in 2..n : k \div 2 = i => k = 2 * i \/ k = 2 * i + 1
  BY <1>1
<1>3. (2 * i) \div 2 = i /\ (2 * i + 1) \div 2 = i
  BY <1>1
<1> DEFINE l == 2 * i  r == 2 * i + 1
<1>4. CASE r <= n
  <2>1. /\ l \in (i + 1)..n /\ r \in (i + 1)..n
        /\ t.heap[l].expires \in Nat /\ t.heap[r].expires \in Nat
    BY <1>1, <1>4
  <2>2. CASE t.heap[r].expires < t.heap[l].expires
    <3>1. Child(t, i, n) = r
      BY <1>4, <2>2 DEF Child
    <3>2. \A k \in 2..n : k \div 2 = i => t.heap[r].expires <= t.heap[k].expires
      BY <1>2, <2>1, <2>2
    <3>3. QED
      BY <1>3, <2>1, <3>1, <3>2
  <2>3. CASE ~(t.heap[r].expires < t.heap[l].expires)
    <3>1. Child(t, i, n) = l
      BY <1>4, <2>3 DEF Child
    <3>2. \A k \in 2..n : k \div 2 = i => t.heap[l].expires <= t.heap[k].expires
      BY <1>2, <2>1, <2>3
    <3>3. QED
      BY <1>3, <2>1, <3>1, <3>2
  <2>4. QED
    BY <2>2, <2>3
<1>5. CASE r > n
  BY <1>1, <1>2, <1>3, <1>5 DEF Child
<1>6. QED
  BY <1>1, <1>4, <1>5

\* A round moves the place where the order may be wrong to the child, and leaves the
\* node that comes up in order with its parent.
LEMMA DownOrder ==
  ASSUME NEW t, Sound(t), NEW n \in 1..Len(t.heap), NEW i \in 1..n, 2 * i <= n,
         ButAround(t, i, n), ~(t.heap[i].expires < t.heap[Child(t, i, n)].expires)
  PROVE  LET u == SwapNode_(t, i, Child(t, i, n))
         IN ButAround(u, Child(t, i, n), n) /\ Follows(u, Child(t, i, n))
<1> DEFINE c == Child(t, i, n)
           u == SwapNode_(t, i, c)
<1>1. /\ Len(t.heap) \in Nat
      /\ \A k \in 1..Len(t.heap) : t.heap[k].expires \in Nat
      /\ \A k \in 2..Len(t.heap) : k \div 2 \in 1..(k - 1)
  BY Numbers
<1>2. /\ c \in (i + 1)..n /\ c \div 2 = i
      /\ \A k \in 2..n : k \div 2 = i => t.heap[c].expires <= t.heap[k].expires
  BY ChildIs
<1>3. i \in 1..Len(t.heap) /\ c \in 1..Len(t.heap) /\ i # c /\ c \in 2..n
  BY <1>1, <1>2
<1>4. \A k \in 1..Len(t.heap) :
        u.heap[k] = IF k = i THEN t.heap[c] ELSE IF k = c THEN t.heap[i] ELSE t.heap[k]
  BY <1>3, Swap
<1>5. t.heap[c].expires <= t.heap[i].expires
  BY <1>1, <1>3
<1> HIDE DEF c, u
<1>6. ASSUME NEW k \in 2..n, k # c, k \div 2 # c PROVE Follows(u, k)
  <2>1. k \div 2 \in 1..(k - 1) /\ k \div 2 \in 1..Len(t.heap) /\ k \in 1..Len(t.heap)
    BY <1>1
  <2>2. CASE k = i
    <3>1. t.heap[i \div 2].expires <= t.heap[c].expires
      BY <1>2, <1>3, <2>2 DEF ButAround, Bridged
    <3>2. u.heap[k] = t.heap[c] /\ u.heap[k \div 2] = t.heap[i \div 2]
      BY <1>3, <1>4, <1>6, <2>1, <2>2
    <3>3. QED
      BY <3>1, <3>2 DEF Follows
  <2>3. CASE k # i /\ k \div 2 = i
    <3>1. u.heap[k] = t.heap[k] /\ u.heap[k \div 2] = t.heap[c]
      BY <1>3, <1>4, <1>6, <2>1, <2>3
    <3>2. QED
      BY <1>2, <2>3, <3>1 DEF Follows
  <2>4. CASE k # i /\ k \div 2 # i
    <3>1. u.heap[k] = t.heap[k] /\ u.heap[k \div 2] = t.heap[k \div 2]
      BY <1>4, <1>6, <2>1, <2>4
    <3>2. QED
      BY <2>4, <3>1 DEF Follows, ButAround
  <2>5. QED
    BY <2>2, <2>3, <2>4
<1>7. ASSUME NEW k \in 2..n, k \div 2 = c PROVE u.heap[c \div 2].expires <= u.heap[k].expires
  <2>1. k # i /\ k # c /\ k \in 1..Len(t.heap)
    BY <1>1, <1>2, <1>3, <1>7
  <2>2. u.heap[k] = t.heap[k] /\ u.heap[c \div 2] = t.heap[c]
    BY <1>2, <1>3, <1>4, <2>1
  <2>3. t.heap[c].expires <= t.heap[k].expires
    BY <1>3, <1>7, <2>1 DEF ButAround, Follows
  <2>4. QED
    BY <2>2, <2>3
<1>8. Follows(u, c)
  <2>1. u.heap[c] = t.heap[i] /\ u.heap[c \div 2] = t.heap[c]
    BY <1>2, <1>3, <1>4
  <2>2. QED
    BY <1>5, <2>1 DEF Follows
<1>9. QED
  BY <1>6, <1>7, <1>8 DEF ButAround, Bridged, c, u

\* What every round of siftdown_ keeps: the nodes, the index, those past the first n, and
\* the order but for the place it has come to, which follows its parent once it has moved.
DownInv(t, i, n, s) ==
  /\ Sound(s.t) /\ Same(t, s.t)
  /\ s.i \in i..n
  /\ \A k \in (n + 1)..Len(t.heap) : s.t.heap[k] = t.heap[k]
  /\ s.i = i => s.t = t
  /\ ButAround(t, i, n) =>
       ButAround(s.t, s.i, n) /\ (s.i # i => s.i > 1 /\ Follows(s.t, s.i))

\* The loop is left here.
DownEnds(s, n) ==
  2 * s.i > n \/ s.t.heap[s.i].expires < s.t.heap[Child(s.t, s.i, n)].expires

\* A round moves down, unless the loop ends.
LEMMA DownStep ==
  ASSUME NEW t, Sound(t), NEW n \in 1..Len(t.heap), NEW i \in 1..n, NEW s,
         DownInv(t, i, n, s)
  PROVE  /\ DownInv(t, i, n, DownRound(s, n))
         /\ IF DownEnds(s, n) THEN DownRound(s, n) = s ELSE DownRound(s, n).i > s.i
<1> DEFINE c == Child(s.t, s.i, n)
<1>1. CASE DownEnds(s, n)
  BY <1>1 DEF DownEnds, DownRound
<1>2. CASE ~DownEnds(s, n)
  <2>1. DownRound(s, n) = [t |-> SwapNode_(s.t, s.i, c), i |-> c]
    BY <1>2 DEF DownEnds, DownRound
  <2>2. Len(s.t.heap) = Len(t.heap) /\ Len(t.heap) \in Nat
    BY Numbers DEF DownInv, Same
  <2>3. /\ Sound(s.t) /\ s.i \in i..n /\ s.i \in 1..n /\ 2 * s.i <= n
        /\ n \in 1..Len(s.t.heap) /\ s.i \in 1..Len(s.t.heap)
    BY <1>2, <2>2 DEF DownEnds, DownInv
  <2>4. c \in (s.i + 1)..n
    BY <2>3, ChildIs
  <2>5. c \in 1..Len(s.t.heap) /\ s.i # c /\ c \in i..n /\ c > i /\ c > 1 /\ c > s.i
    BY <2>2, <2>3, <2>4
  <2> HIDE DEF c
  <2>6. /\ Sound(SwapNode_(s.t, s.i, c)) /\ Same(s.t, SwapNode_(s.t, s.i, c))
        /\ \A k \in 1..Len(s.t.heap) : k # s.i /\ k # c =>
             SwapNode_(s.t, s.i, c).heap[k] = s.t.heap[k]
    BY <2>3, <2>5, Swap
  <2>7. Same(t, SwapNode_(s.t, s.i, c))
    BY <2>6, SameTrans DEF DownInv
  <2>8. ButAround(t, i, n) =>
          ButAround(SwapNode_(s.t, s.i, c), c, n) /\ Follows(SwapNode_(s.t, s.i, c), c)
    BY <1>2, <2>3, DownOrder DEF DownInv, DownEnds, c
  <2>9. ASSUME NEW k \in (n + 1)..Len(t.heap) PROVE SwapNode_(s.t, s.i, c).heap[k] = t.heap[k]
    <3>1. k \in 1..Len(s.t.heap) /\ k # s.i /\ k # c
      BY <2>2, <2>3, <2>5
    <3>2. QED
      BY <2>6, <3>1 DEF DownInv
  <2>10. DownInv(t, i, n, DownRound(s, n))
    BY <2>1, <2>5, <2>6, <2>7, <2>8, <2>9 DEF DownInv
  <2>11. QED
    BY <1>2, <2>1, <2>5, <2>10
<1>3. QED
  BY <1>1, <1>2

\* The definition of siftdown_ is sound: its rounds follow one another.
LEMMA DownRounds ==
  ASSUME NEW t, NEW i \in Nat, NEW n \in Nat
  PROVE  \E s : /\ s[0] = [t |-> t, i |-> i]
                /\ \A k \in 1..n : s[k] = DownRound(s[k - 1], n)
                /\ siftdown_(t, i, n) = s[n]
<1> DEFINE P(s, m) ==
      s = [k \in 0..m |-> IF k = 0 THEN [t |-> t, i |-> i] ELSE DownRound(s[k - 1], n)]
           T == {m \in 0..n : \E s : P(s, m)}
<1>1. 0 \in T
  <2> DEFINE g == [k \in 0..0 |-> [t |-> t, i |-> i]]
  <2>1. P(g, 0)
    OBVIOUS
  <2> HIDE DEF P, g
  <2>2. QED
    BY <2>1
<1>2. ASSUME NEW m \in 1..n, m - 1 \in T PROVE m \in T
  <2>1. PICK s : P(s, m - 1)
    BY <1>2
  <2> DEFINE g == [k \in 0..m |-> IF k < m THEN s[k] ELSE DownRound(s[m - 1], n)]
  <2>2. P(g, m)
    BY <2>1
  <2> HIDE DEF P, g
  <2>3. QED
    BY <2>2
<1>3. \E s : P(s, n)
  <2> HIDE DEF P
  <2>1. \A m \in 0..n : m \in T
    BY <1>1, <1>2, Rounds
  <2>2. QED
    BY <2>1
<1> DEFINE s == CHOOSE s : P(s, n)
<1>4. P(s, n)
  <2> HIDE DEF P
  <2>1. QED
    BY <1>3
<1>5. siftdown_(t, i, n) = s[n]
  BY DEF siftdown_
<1>6. s[0] = [t |-> t, i |-> i] /\ \A k \in 1..n : s[k] = DownRound(s[k - 1], n)
  <2> HIDE DEF s
  <2>1. QED
    BY <1>4
<1> HIDE DEF s, P
<1>7. QED
  BY <1>5, <1>6

\* siftdown_ keeps the nodes and the index and repairs the order below i; if it moves the
\* node, the order above as well, and if not, nothing has changed.
LEMMA SiftDown ==
  ASSUME NEW t, Sound(t), NEW n \in 1..Len(t.heap), NEW i \in 1..n
  PROVE  LET d == siftdown_(t, i, n)
         IN /\ Sound(d.t) /\ Same(t, d.t) /\ d.i \in i..n
            /\ \A k \in (n + 1)..Len(t.heap) : d.t.heap[k] = t.heap[k]
            /\ d.i = i => d.t = t
            /\ ButAround(t, i, n) =>
                 IF d.i > i \/ i = 1 \/ Follows(t, i) THEN Ordered(d.t, n)
                 ELSE ButAbove(t, i, n)
<1> DEFINE d == siftdown_(t, i, n)
<1>0. Len(t.heap) \in Nat /\ i \in Nat /\ i >= 1 /\ n \in Nat /\ n >= 1
  BY Numbers
<1>1. PICK s : /\ s[0] = [t |-> t, i |-> i]
               /\ \A k \in 1..n : s[k] = DownRound(s[k - 1], n)
               /\ d = s[n]
  BY <1>0, DownRounds
<1> HIDE DEF d
<1>2. DownInv(t, i, n, s[0])
  BY <1>0, <1>1 DEF DownInv, Same
<1> DEFINE T == {k \in 0..n : DownInv(t, i, n, s[k]) /\ (DownEnds(s[k], n) \/ s[k].i >= i + k)}
<1>3. 0 \in T
  BY <1>0, <1>1, <1>2
<1>4. ASSUME NEW k \in 1..n, k - 1 \in T PROVE k \in T
  <2>1. s[k] = DownRound(s[k - 1], n) /\ DownInv(t, i, n, s[k - 1])
    BY <1>1, <1>4
  <2>2. /\ DownInv(t, i, n, s[k])
        /\ IF DownEnds(s[k - 1], n) THEN s[k] = s[k - 1] ELSE s[k].i > s[k - 1].i
    BY <2>1, DownStep
  <2>3. s[k].i \in i..n /\ s[k - 1].i \in i..n
    BY <2>1, <2>2 DEF DownInv
  <2>4. DownEnds(s[k], n) \/ s[k].i >= i + k
    BY <1>0, <1>4, <2>2, <2>3
  <2>5. QED
    BY <2>2, <2>4
<1>5. DownInv(t, i, n, d) /\ DownEnds(d, n)
  <2>1. \A k \in 0..n : k \in T
    <3> HIDE DEF T
    <3>1. QED
      BY <1>0, <1>3, <1>4, Rounds
  <2>2. n \in T
    BY <1>0, <2>1
  <2>3. s[n].i \in i..n
    BY <2>2 DEF DownInv
  <2>4. QED
    BY <1>0, <1>1, <2>2, <2>3
<1>6. d.i \in i..n /\ d.i \in 1..n /\ Sound(d.t) /\ Len(d.t.heap) = Len(t.heap)
  BY <1>0, <1>5 DEF DownInv, Same
<1>7. ASSUME ButAround(d.t, d.i, n) PROVE ButAbove(d.t, d.i, n)
  <2>1. SUFFICES ASSUME NEW k \in 2..n, k # d.i PROVE Follows(d.t, k)
    BY <1>7 DEF ButAbove, ButAround
  <2>2. CASE k \div 2 # d.i
    BY <1>7, <2>1, <2>2 DEF ButAround
  <2>3. CASE k \div 2 = d.i
    <3>1. \A m \in 1..Len(t.heap) : d.t.heap[m].expires \in Nat
      BY <1>6, Numbers
    <3>2. 2 * d.i <= n /\ n \in 1..Len(d.t.heap)
      BY <1>0, <1>6, <2>3
    <3>3. /\ Child(d.t, d.i, n) \in (d.i + 1)..n
          /\ d.t.heap[Child(d.t, d.i, n)].expires <= d.t.heap[k].expires
      BY <1>6, <2>3, <3>2, ChildIs
    <3>4. d.t.heap[d.i].expires < d.t.heap[Child(d.t, d.i, n)].expires
      BY <1>0, <1>5, <1>6, <3>2 DEF DownEnds
    <3>5. /\ d.i \in 1..Len(t.heap) /\ k \in 1..Len(t.heap)
          /\ Child(d.t, d.i, n) \in 1..Len(t.heap)
      BY <1>0, <1>6, <3>3
    <3>6. d.t.heap[d.i].expires <= d.t.heap[k].expires
      BY <3>1, <3>3, <3>4, <3>5
    <3>7. QED
      BY <2>3, <3>6 DEF Follows
  <2>4. QED
    BY <2>2, <2>3
<1>8. ASSUME ButAround(t, i, n)
      PROVE  IF d.i > i \/ i = 1 \/ Follows(t, i) THEN Ordered(d.t, n) ELSE ButAbove(t, i, n)
  <2>1. ButAround(d.t, d.i, n) /\ (d.i # i => d.i > 1 /\ Follows(d.t, d.i)) /\ (d.i = i => d.t = t)
    BY <1>5, <1>8 DEF DownInv
  <2>2. ButAbove(d.t, d.i, n)
    BY <1>7, <2>1
  <2>3. CASE d.i > i \/ i = 1 \/ Follows(t, i)
    BY <1>0, <1>6, <2>1, <2>2, <2>3 DEF Ordered, ButAbove
  <2>4. CASE ~(d.i > i \/ i = 1 \/ Follows(t, i))
    <3>1. d.i = i
      BY <1>0, <1>6, <2>4
    <3>2. QED
      BY <2>1, <2>2, <2>4, <3>1
  <2>5. QED
    BY <2>3, <2>4
<1>9. QED
  BY <1>5, <1>8 DEF DownInv, d

-------------------------------------------------------------------------------
(* The operations.                                                          *)

\* Between them the two loops repair the order around any node.
LEMMA Restored ==
  ASSUME NEW t, Sound(t), NEW n \in 1..Len(t.heap), NEW i \in 1..n
  PROVE  LET u == Restore(t, i, n)
         IN /\ Sound(u) /\ Same(t, u)
            /\ \A k \in (n + 1)..Len(t.heap) : u.heap[k] = t.heap[k]
            /\ ButAround(t, i, n) => Ordered(u, n)
<1> DEFINE d == siftdown_(t, i, n)
<1>1. /\ Sound(d.t) /\ Same(t, d.t) /\ d.i \in i..n
      /\ \A k \in (n + 1)..Len(t.heap) : d.t.heap[k] = t.heap[k]
      /\ d.i = i => d.t = t
      /\ ButAround(t, i, n) =>
           IF d.i > i \/ i = 1 \/ Follows(t, i) THEN Ordered(d.t, n) ELSE ButAbove(t, i, n)
  BY SiftDown
<1>2. Len(t.heap) \in Nat
  BY Numbers
<1>3. Restore(t, i, n) = IF d.i > i THEN d.t ELSE siftup_(d.t, i)
  BY DEF Restore
<1> HIDE DEF d
<1>4. CASE d.i > i
  BY <1>1, <1>3, <1>4
<1>5. CASE ~(d.i > i)
  <2>1. d.i = i /\ d.t = t
    BY <1>1, <1>2, <1>5
  <2>2. i \in 1..Len(t.heap) /\ n \in i..Len(t.heap)
    BY <1>2
  <2>3. /\ Sound(siftup_(t, i)) /\ Same(t, siftup_(t, i))
        /\ \A k \in (i + 1)..Len(t.heap) : siftup_(t, i).heap[k] = t.heap[k]
        /\ ButAbove(t, i, n) => Ordered(siftup_(t, i), n)
    BY <2>2, SiftUp
  <2>4. Ordered(t, n) => ButAbove(t, i, n)
    <3>1. SUFFICES ASSUME Ordered(t, n), NEW k \in 2..n, i > 1, k \div 2 = i
                   PROVE  t.heap[i \div 2].expires <= t.heap[k].expires
      BY DEF ButAbove, Bridged, Ordered
    <3>2. Follows(t, i) /\ Follows(t, k)
      BY <1>2, <3>1 DEF Ordered
    <3>3. i \div 2 \in 1..Len(t.heap) /\ i \in 1..Len(t.heap) /\ k \in 1..Len(t.heap)
      BY <1>2, <3>1
    <3>4. \A m \in 1..Len(t.heap) : t.heap[m].expires \in Nat
      BY Numbers
    <3>5. t.heap[i \div 2].expires <= t.heap[i].expires /\ t.heap[i].expires <= t.heap[k].expires
      BY <3>1, <3>2 DEF Follows
    <3>6. QED
      BY SMTT(20), <3>3, <3>4, <3>5
  <2>5. ButAround(t, i, n) => Ordered(siftup_(t, i), n)
    BY <1>1, <2>1, <2>3, <2>4
  <2>6. \A k \in (n + 1)..Len(t.heap) : siftup_(t, i).heap[k] = t.heap[k]
    BY <1>2, <2>3
  <2>7. QED
    BY <1>3, <1>5, <2>1, <2>3, <2>5, <2>6
<1>6. QED
  BY <1>4, <1>5

\* In an ordered heap the order is right around any node, whatever is put there.
LEMMA AroundAny ==
  ASSUME NEW t, Sound(t), NEW u, NEW n \in 0..Len(t.heap), NEW i \in 1..Len(t.heap),
         Ordered(t, Len(t.heap)),
         \A k \in 1..n : k # i => u.heap[k] = t.heap[k]
  PROVE  ButAround(u, i, n)
<1>1. /\ Len(t.heap) \in Nat
      /\ \A k \in 1..Len(t.heap) : t.heap[k].expires \in Nat
      /\ \A k \in 2..Len(t.heap) : k \div 2 \in 1..(k - 1)
  BY Numbers
<1>2. ASSUME NEW k \in 2..n, k # i, k \div 2 # i PROVE Follows(u, k)
  <2>1. k \div 2 \in 1..n /\ k \in 1..n /\ k \in 2..Len(t.heap)
    BY <1>1
  <2>2. u.heap[k] = t.heap[k] /\ u.heap[k \div 2] = t.heap[k \div 2]
    BY <1>2, <2>1
  <2>3. QED
    BY <2>1, <2>2 DEF Follows, Ordered
<1>3. ASSUME NEW k \in 2..n, i > 1, k \div 2 = i
      PROVE  u.heap[i \div 2].expires <= u.heap[k].expires
  <2>1. /\ k \in 1..n /\ k # i /\ k \in 2..Len(t.heap) /\ i \in 2..Len(t.heap)
        /\ i \div 2 \in 1..n /\ i \div 2 # i /\ i \div 2 \in 1..Len(t.heap)
    BY <1>1, <1>3
  <2>2. u.heap[k] = t.heap[k] /\ u.heap[i \div 2] = t.heap[i \div 2]
    BY <2>1
  <2>3. t.heap[i \div 2].expires <= t.heap[i].expires /\ t.heap[i].expires <= t.heap[k].expires
    BY <1>3, <2>1 DEF Ordered, Follows
  <2>4. QED
    BY <1>1, <2>1, <2>2, <2>3
<1>4. QED
  BY <1>2, <1>3 DEF ButAround, Bridged

\* del_ takes the node at i out and nothing else.
LEMMA Deleted ==
  ASSUME NEW t, Sound(t), NEW i \in 1..Len(t.heap)
  PROVE  LET u == del_(t, i)
         IN /\ Sound(u) /\ Len(u.heap) = Len(t.heap) - 1
            /\ DOMAIN u.ref = DOMAIN t.ref \ {t.heap[i].id}
            /\ \A id \in DOMAIN u.ref : u.heap[u.ref[id]] = t.heap[t.ref[id]]
            /\ Ordered(t, Len(t.heap)) => Ordered(u, Len(u.heap))
<1> DEFINE n == Len(t.heap)
           w == SwapNode_(t, i, n)
           v == IF i < n THEN Restore(w, i, n - 1) ELSE t
           u == del_(t, i)
<1>1. n \in Nat /\ n >= 1 /\ i \in 1..n /\ n \in 1..n
  BY Numbers
<1>2. u = [heap |-> SubSeq(v.heap, 1, n - 1),
           ref  |-> [x \in DOMAIN v.ref \ {v.heap[n].id} |-> v.ref[x]]]
  BY DEF del_
<1>3. /\ Sound(v) /\ Same(t, v) /\ v.heap[n] = t.heap[i]
      /\ Ordered(t, n) => Ordered(v, n - 1)
  <2>1. CASE i < n
    <3>1. /\ Sound(w) /\ Same(t, w)
          /\ \A k \in 1..n :
               w.heap[k] = IF k = i THEN t.heap[n] ELSE IF k = n THEN t.heap[i] ELSE t.heap[k]
      BY <1>1, <2>1, Swap
    <3> HIDE DEF w
    <3>2. Len(w.heap) = n /\ n - 1 \in 1..Len(w.heap) /\ i \in 1..(n - 1)
      BY <1>1, <2>1, <3>1 DEF Same
    <3>3. /\ Sound(Restore(w, i, n - 1)) /\ Same(w, Restore(w, i, n - 1))
          /\ \A k \in ((n - 1) + 1)..Len(w.heap) : Restore(w, i, n - 1).heap[k] = w.heap[k]
          /\ ButAround(w, i, n - 1) => Ordered(Restore(w, i, n - 1), n - 1)
      BY <3>1, <3>2, Restored
    <3>4. Ordered(t, n) => ButAround(w, i, n - 1)
      <4>1. n - 1 \in 0..n /\ \A k \in 1..(n - 1) : k # i => w.heap[k] = t.heap[k]
        BY <1>1, <3>1
      <4>2. QED
        BY <1>1, <4>1, AroundAny
    <3>5. v = Restore(w, i, n - 1) /\ Same(t, v)
      BY <2>1, <3>1, <3>3, SameTrans
    <3>6. n \in ((n - 1) + 1)..Len(w.heap) /\ w.heap[n] = t.heap[i]
      BY <1>1, <2>1, <3>1, <3>2
    <3>7. QED
      BY <3>3, <3>4, <3>5, <3>6
  <2>2. CASE ~(i < n)
    <3>1. i = n /\ v = t
      BY <1>1, <2>2
    <3>2. QED
      BY <1>1, <3>1 DEF Same, Ordered
  <2>3. QED
    BY <2>1, <2>2
<1> HIDE DEF w, v, n
<1>4. /\ v.heap \in Seq(Node) /\ Len(v.heap) = n
      /\ DOMAIN v.ref = DOMAIN t.ref /\ DOMAIN v.ref \subseteq Id
      /\ v.ref \in [DOMAIN v.ref -> 1..n]
      /\ \A k \in 1..n : v.heap[k].id \in DOMAIN v.ref /\ v.ref[v.heap[k].id] = k
      /\ \A id \in DOMAIN v.ref : v.heap[v.ref[id]].id = id
      /\ \A id \in DOMAIN v.ref : v.heap[v.ref[id]] = t.heap[t.ref[id]]
  BY <1>3 DEF Sound, Same, n
<1> DEFINE g == SubSeq(v.heap, 1, n - 1)
           q == [x \in DOMAIN v.ref \ {v.heap[n].id} |-> v.ref[x]]
<1>5. g \in Seq(Node) /\ Len(g) = n - 1 /\ \A k \in 1..(n - 1) : g[k] = v.heap[k]
  BY <1>1, <1>4
<1>6. /\ DOMAIN q = DOMAIN v.ref \ {v.heap[n].id}
      /\ \A x \in DOMAIN q : q[x] = v.ref[x] /\ q[x] \in 1..(n - 1)
  BY <1>1, <1>4
<1>7. q \in [DOMAIN q -> 1..(n - 1)]
  BY <1>6
<1> HIDE DEF g, q
<1>8. ASSUME NEW k \in 1..(n - 1) PROVE g[k].id \in DOMAIN q /\ q[g[k].id] = k
  <2>1. k \in 1..n /\ k # n /\ n \in 1..n
    BY <1>1
  <2>2. v.heap[k].id # v.heap[n].id /\ v.heap[k].id \in DOMAIN v.ref
    BY <1>4, <2>1
  <2>3. QED
    BY SMTT(20), <1>4, <1>5, <1>6, <2>1, <2>2
<1>9. \A id \in DOMAIN q : g[q[id]] = v.heap[v.ref[id]]
  BY <1>5, <1>6
<1> HIDE DEF u
<1>10. u.heap = g /\ u.ref = q
  BY <1>2 DEF g, q
<1>11. Sound(u)
  <2>1. g \in Seq(Node) /\ DOMAIN q \subseteq Id /\ q \in [DOMAIN q -> 1..Len(g)]
    BY <1>4, <1>5, <1>6, <1>7
  <2>2. \A k \in 1..Len(g) : g[k].id \in DOMAIN q /\ q[g[k].id] = k
    BY <1>5, <1>8
  <2>3. \A id \in DOMAIN q : g[q[id]].id = id
    BY <1>4, <1>6, <1>9
  <2>4. QED
    BY <1>10, <2>1, <2>2, <2>3 DEF Sound
<1>12. ASSUME Ordered(t, n) PROVE Ordered(u, n - 1)
  <2>1. SUFFICES ASSUME NEW k \in 2..(n - 1) PROVE Follows(u, k)
    BY DEF Ordered
  <2>2. k \in 1..(n - 1) /\ k \div 2 \in 1..(n - 1)
    BY <1>1
  <2>3. Follows(v, k)
    BY <1>3, <1>12 DEF Ordered
  <2>4. QED
    BY <1>5, <1>10, <2>2, <2>3 DEF Follows
<1>13. /\ Len(u.heap) = n - 1 /\ DOMAIN u.ref = DOMAIN t.ref \ {t.heap[i].id}
       /\ \A id \in DOMAIN u.ref : u.heap[u.ref[id]] = t.heap[t.ref[id]]
  BY <1>3, <1>4, <1>5, <1>6, <1>9, <1>10
<1>14. QED
  BY <1>11, <1>12, <1>13 DEF n, u

\* The same timers, with another deadline for the node at i.
Retimed(t, i, e) == [heap |-> [t.heap EXCEPT ![i].expires = e], ref |-> t.ref]

\* Only the deadline changes, and the order is right around it.
LEMMA RetimedIs ==
  ASSUME NEW t, Sound(t), NEW i \in 1..Len(t.heap), NEW e \in Nat
  PROVE  LET u == Retimed(t, i, e)
         IN /\ Sound(u) /\ Len(u.heap) = Len(t.heap) /\ u.ref = t.ref
            /\ u.heap[i].expires = e
            /\ \A k \in 1..Len(t.heap) : k # i => u.heap[k] = t.heap[k]
            /\ Ordered(t, Len(t.heap)) => ButAround(u, i, Len(t.heap))
            /\ Ordered(t, Len(t.heap)) /\ e >= t.heap[i].expires /\ i > 1 => Follows(u, i)
<1> DEFINE n == Len(t.heap)
           g == [t.heap EXCEPT ![i].expires = e]
           u == Retimed(t, i, e)
<1>0. u.heap = g /\ u.ref = t.ref
  BY DEF Retimed
<1>1. /\ n \in Nat /\ t.heap \in Seq(Node)
      /\ \A k \in 1..n : t.heap[k].id \in DOMAIN t.ref /\ t.ref[t.heap[k].id] = k
      /\ \A id \in DOMAIN t.ref : t.ref[id] \in 1..n /\ t.heap[t.ref[id]].id = id
      /\ \A k \in 1..n : t.heap[k] \in Node /\ t.heap[k].expires \in Nat
      /\ \A k \in 2..n : k \div 2 \in 1..(k - 1)
  BY Numbers DEF Sound
<1>2. /\ \A k \in 1..n : k # i => g[k] = t.heap[k]
      /\ g[i] = [t.heap[i] EXCEPT !.expires = e] /\ g[i] \in Node
      /\ g[i].id = t.heap[i].id /\ g[i].expires = e
  <2>1. DOMAIN t.heap = 1..n
    BY <1>1
  <2>2. g[i] = [t.heap[i] EXCEPT !.expires = e] /\ \A k \in 1..n : k # i => g[k] = t.heap[k]
    BY <2>1
  <2>3. ASSUME NEW x \in Node
        PROVE  LET y == [x EXCEPT !.expires = e]
               IN y \in Node /\ y.id = x.id /\ y.expires = e
    BY DEF Node
  <2>4. QED
    BY <1>1, <2>2, <2>3
<1>3. g \in Seq(Node) /\ Len(g) = n
  <2>1. \A x \in Node : [x EXCEPT !.expires = e] \in Node
    BY DEF Node
  <2>2. DOMAIN g = 1..n /\ \A k \in 1..n : g[k] \in Node
    BY <1>1, <1>2
  <2>3. g \in [1..n -> Node]
    BY <1>1, <2>2
  <2>4. QED
    BY <1>1, <2>3
<1> HIDE DEF g, u
<1>4. \A k \in 1..n : g[k].id = t.heap[k].id
  BY <1>2
<1>5. Sound(u)
  <2>1. \A k \in 1..n : g[k].id \in DOMAIN t.ref /\ t.ref[g[k].id] = k
    BY <1>1, <1>4
  <2>2. \A id \in DOMAIN t.ref : g[t.ref[id]].id = id
    BY <1>1, <1>4
  <2>3. DOMAIN t.ref \subseteq Id /\ t.ref \in [DOMAIN t.ref -> 1..Len(g)]
    BY <1>3 DEF Sound
  <2>4. QED
    BY <1>0, <1>3, <2>1, <2>2, <2>3 DEF Sound
<1>6. Ordered(t, n) => ButAround(u, i, n)
  <2>1. n \in 0..Len(t.heap) /\ \A k \in 1..n : k # i => u.heap[k] = t.heap[k]
    BY <1>0, <1>1, <1>2
  <2>2. QED
    BY <2>1, AroundAny
<1>7. ASSUME Ordered(t, n), e >= t.heap[i].expires, i > 1 PROVE Follows(u, i)
  <2>1. t.heap[i \div 2].expires <= t.heap[i].expires
    BY <1>1, <1>7 DEF Ordered, Follows
  <2>2. i \in 1..n /\ i \div 2 \in 1..n /\ i \div 2 # i
    BY <1>1, <1>7
  <2>3. g[i \div 2] = t.heap[i \div 2]
    BY <1>2, <2>2
  <2>4. t.heap[i \div 2].expires <= e
    BY <1>1, <1>7, <2>1, <2>2
  <2>5. QED
    BY <1>0, <1>2, <2>3, <2>4 DEF Follows
<1>8. QED
  BY <1>0, <1>2, <1>3, <1>5, <1>6, <1>7 DEF u, n

\* The same timers and one for id behind them.
Appended(t, id, e) ==
  [heap |-> Append(t.heap, [id |-> id, expires |-> e]),
   ref  |-> [x \in DOMAIN t.ref \cup {id} |-> IF x = id THEN Len(t.heap) + 1 ELSE t.ref[x]]]

\* Nothing else changes, and the order can be wrong at the last node only.
LEMMA AppendedIs ==
  ASSUME NEW t, Sound(t), NEW id \in Id \ DOMAIN t.ref, NEW e \in Nat
  PROVE  LET u == Appended(t, id, e)
             n == Len(t.heap) + 1
         IN /\ Sound(u) /\ Len(u.heap) = n
            /\ DOMAIN u.ref = DOMAIN t.ref \cup {id}
            /\ u.heap[u.ref[id]].expires = e
            /\ \A x \in DOMAIN t.ref : u.heap[u.ref[x]] = t.heap[t.ref[x]]
            /\ Ordered(t, Len(t.heap)) => ButAbove(u, n, n)
<1> DEFINE n == Len(t.heap) + 1
           u == Appended(t, id, e)
           g == Append(t.heap, [id |-> id, expires |-> e])
           q == [x \in DOMAIN t.ref \cup {id} |-> IF x = id THEN n ELSE t.ref[x]]
<1>0. u.heap = g /\ u.ref = q
  BY DEF Appended
<1>1. /\ Len(t.heap) \in Nat /\ t.heap \in Seq(Node) /\ DOMAIN t.ref \subseteq Id
      /\ \A k \in 1..Len(t.heap) : t.heap[k].id \in DOMAIN t.ref /\ t.ref[t.heap[k].id] = k
      /\ \A x \in DOMAIN t.ref : t.ref[x] \in 1..Len(t.heap) /\ t.heap[t.ref[x]].id = x
      /\ \A k \in 2..Len(t.heap) : k \div 2 \in 1..(k - 1)
  BY Numbers DEF Sound
<1>2. [id |-> id, expires |-> e] \in Node
  BY DEF Node
<1>3. /\ g \in Seq(Node) /\ Len(g) = n /\ g[n].id = id /\ g[n].expires = e
      /\ \A k \in 1..Len(t.heap) : g[k] = t.heap[k]
  BY <1>1, <1>2
<1>4. /\ DOMAIN q = DOMAIN t.ref \cup {id} /\ q[id] = n
      /\ \A x \in DOMAIN t.ref : q[x] = t.ref[x]
      /\ q \in [DOMAIN q -> 1..n]
  BY <1>1
<1> HIDE DEF g, q, u
<1>5. ASSUME NEW k \in 1..n PROVE g[k].id \in DOMAIN q /\ q[g[k].id] = k
  <2>1. CASE k = n
    BY <1>3, <1>4, <2>1
  <2>2. CASE k # n
    <3>1. k \in 1..Len(t.heap)
      BY <1>1, <2>2
    <3>2. QED
      BY <1>1, <1>3, <1>4, <3>1
  <2>3. QED
    BY <2>1, <2>2
<1>6. \A x \in DOMAIN t.ref : g[q[x]] = t.heap[t.ref[x]]
  BY <1>1, <1>3, <1>4
<1>7. Sound(u)
  <2>1. \A x \in DOMAIN q : g[q[x]].id = x
    BY <1>1, <1>3, <1>4, <1>6
  <2>2. DOMAIN q \subseteq Id
    BY <1>1, <1>4
  <2>3. QED
    BY <1>0, <1>3, <1>4, <1>5, <2>1, <2>2 DEF Sound
<1>8. ASSUME Ordered(t, Len(t.heap)) PROVE ButAbove(u, n, n)
  <2>1. ASSUME NEW k \in 2..n, k # n PROVE Follows(u, k)
    <3>1. k \in 2..Len(t.heap) /\ k \in 1..Len(t.heap) /\ k \div 2 \in 1..Len(t.heap)
      BY <1>1, <2>1
    <3>2. g[k] = t.heap[k] /\ g[k \div 2] = t.heap[k \div 2]
      BY <1>3, <3>1
    <3>3. QED
      BY <1>0, <1>8, <3>1, <3>2 DEF Ordered, Follows
  <2>2. \A k \in 2..n : k \div 2 # n
    BY <1>1
  <2>3. QED
    BY <2>1, <2>2 DEF ButAbove, Bridged
<1>9. QED
  BY <1>0, <1>3, <1>4, <1>6, <1>7, <1>8 DEF u, n

\* Put sets the deadline of id and keeps all else.
LEMMA PutIs ==
  ASSUME Sound(Timers), NEW id \in Id, NEW e \in Nat
  PROVE  LET u == Put(id, e)
         IN /\ Sound(u) /\ DOMAIN u.ref = DOMAIN ref \cup {id}
            /\ \A x \in DOMAIN u.ref :
                 u.heap[u.ref[x]].expires = IF x = id THEN e ELSE Due(x)
            /\ Ordered(Timers, Len(heap)) => Ordered(u, Len(u.heap))
<1> DEFINE t == Timers
           u == Put(id, e)
<1>1. /\ t.heap = heap /\ t.ref = ref /\ Len(heap) \in Nat
      /\ \A x \in DOMAIN ref : ref[x] \in 1..Len(heap) /\ heap[ref[x]].id = x
  BY Numbers DEF Timers, Sound
<1> HIDE DEF t
<1>2. CASE id \in DOMAIN ref
  <2> DEFINE v == Retimed(t, ref[id], e)
  <2>1. ref[id] \in 1..Len(t.heap)
    BY <1>1, <1>2
  <2>2. /\ Sound(v) /\ Len(v.heap) = Len(t.heap) /\ v.ref = t.ref
        /\ v.heap[ref[id]].expires = e
        /\ \A k \in 1..Len(t.heap) : k # ref[id] => v.heap[k] = t.heap[k]
        /\ Ordered(t, Len(t.heap)) => ButAround(v, ref[id], Len(t.heap))
    BY <2>1, RetimedIs DEF t
  <2>3. u = Restore(v, ref[id], Len(heap))
    BY <1>1, <1>2 DEF Put, Retimed
  <2> HIDE DEF u, v
  <2>4. Len(heap) \in 1..Len(v.heap) /\ ref[id] \in 1..Len(heap)
    BY <1>1, <2>1, <2>2
  <2>5. Sound(u) /\ Same(v, u) /\ (ButAround(v, ref[id], Len(heap)) => Ordered(u, Len(heap)))
    BY <2>2, <2>3, <2>4, Restored
  <2>6. ASSUME NEW x \in DOMAIN ref
        PROVE  v.heap[v.ref[x]].expires = IF x = id THEN e ELSE Due(x)
    BY <1>1, <1>2, <2>2 DEF Due
  <2>7. DOMAIN u.ref = DOMAIN ref \cup {id} /\ DOMAIN u.ref = DOMAIN ref /\ Len(u.heap) = Len(heap)
    BY <1>1, <1>2, <2>2, <2>5 DEF Same
  <2>8. \A x \in DOMAIN u.ref : u.heap[u.ref[x]].expires = IF x = id THEN e ELSE Due(x)
    BY <1>1, <2>2, <2>5, <2>6, <2>7 DEF Same
  <2>9. Ordered(t, Len(heap)) => Ordered(u, Len(heap))
    BY <1>1, <2>2, <2>5
  <2>10. QED
    BY <2>5, <2>7, <2>8, <2>9 DEF u, t
<1>3. CASE id \notin DOMAIN ref
  <2> DEFINE v == Appended(t, id, e)
             n == Len(heap) + 1
  <2>1. /\ Sound(v) /\ Len(v.heap) = n
        /\ DOMAIN v.ref = DOMAIN ref \cup {id}
        /\ v.heap[v.ref[id]].expires = e
        /\ \A x \in DOMAIN ref : v.heap[v.ref[x]] = heap[ref[x]]
        /\ Ordered(t, Len(heap)) => ButAbove(v, n, n)
    BY <1>1, <1>3, AppendedIs DEF t
  <2>2. u = siftup_(v, n)
    BY <1>1, <1>3 DEF Put, Appended
  <2> HIDE DEF u, v
  <2>3. n \in 1..Len(v.heap) /\ n \in n..Len(v.heap)
    BY <1>1, <2>1
  <2> HIDE DEF n
  <2>4. Sound(u) /\ Same(v, u) /\ (ButAbove(v, n, n) => Ordered(u, n))
    BY <2>1, <2>2, <2>3, SiftUp
  <2>5. QED
    BY <1>3, <2>1, <2>4 DEF Same, Due, u, t
<1>4. QED
  BY <1>2, <1>3

\* adjust sets the deadline of id and keeps all else; the order needs a later one.
LEMMA AdjustIs ==
  ASSUME Sound(Timers), NEW id \in DOMAIN ref, NEW e \in Nat
  PROVE  LET u == siftdown_([Timers EXCEPT !.heap[ref[id]].expires = e],
                            ref[id], Len(heap)).t
         IN /\ Sound(u) /\ DOMAIN u.ref = DOMAIN ref
            /\ \A x \in DOMAIN u.ref :
                 u.heap[u.ref[x]].expires = IF x = id THEN e ELSE Due(x)
            /\ Ordered(Timers, Len(heap)) /\ Due(id) <= e => Ordered(u, Len(u.heap))
<1> DEFINE t == Timers
           v == Retimed(t, ref[id], e)
           u == siftdown_(v, ref[id], Len(heap)).t
<1>1. /\ t.heap = heap /\ t.ref = ref /\ Len(heap) \in Nat
      /\ \A x \in DOMAIN ref : ref[x] \in 1..Len(heap) /\ heap[ref[x]].id = x
  BY Numbers DEF Timers, Sound
<1>2. v = [Timers EXCEPT !.heap[ref[id]].expires = e]
  BY DEF Timers, Retimed
<1> HIDE DEF t
<1>3. ref[id] \in 1..Len(t.heap)
  BY <1>1
<1>4. /\ Sound(v) /\ Len(v.heap) = Len(t.heap) /\ v.ref = t.ref
      /\ v.heap[ref[id]].expires = e
      /\ \A k \in 1..Len(t.heap) : k # ref[id] => v.heap[k] = t.heap[k]
      /\ Ordered(t, Len(t.heap)) => ButAround(v, ref[id], Len(t.heap))
      /\ Ordered(t, Len(t.heap)) /\ e >= t.heap[ref[id]].expires /\ ref[id] > 1 =>
           Follows(v, ref[id])
  BY <1>3, RetimedIs DEF t
<1> HIDE DEF v
<1>5. Len(heap) \in 1..Len(v.heap) /\ ref[id] \in 1..Len(heap)
  BY <1>1, <1>3, <1>4
<1>6. /\ Sound(u) /\ Same(v, u)
      /\ ButAround(v, ref[id], Len(heap)) /\ (ref[id] = 1 \/ Follows(v, ref[id])) =>
           Ordered(u, Len(heap))
  BY <1>4, <1>5, SiftDown
<1> HIDE DEF u
<1>7. ASSUME NEW x \in DOMAIN ref
      PROVE  v.heap[v.ref[x]].expires = IF x = id THEN e ELSE Due(x)
  BY <1>1, <1>4 DEF Due
<1>8. ASSUME Ordered(t, Len(heap)), Due(id) <= e PROVE Ordered(u, Len(heap))
  <2>1. t.heap[ref[id]].expires \in Nat
    BY <1>3, Numbers DEF t
  <2>2. e >= t.heap[ref[id]].expires
    BY <1>1, <1>8, <2>1 DEF Due
  <2>3. ref[id] = 1 \/ ref[id] > 1
    BY <1>1, <1>5
  <2>4. QED
    BY <1>1, <1>4, <1>6, <1>8, <2>2, <2>3
<1>9. Sound(u) /\ DOMAIN u.ref = DOMAIN ref /\ Len(u.heap) = Len(heap)
  BY <1>1, <1>4, <1>6 DEF Same
<1>10. \A x \in DOMAIN u.ref : u.heap[u.ref[x]].expires = IF x = id THEN e ELSE Due(x)
  BY <1>1, <1>4, <1>6, <1>7, <1>9 DEF Same
<1>11. QED
  BY <1>2, <1>8, <1>9, <1>10 DEF u, t

-------------------------------------------------------------------------------
(* The steps.                                                               *)

\* The types, with an exact index.
Good ==
  /\ Sound(Timers)
  /\ now \in 0..MaxClock
  /\ stage \in {"tick", "wait", "events"}
  /\ timeMS \in Int

\* The deadlines, as TimerSet sees them.
Deadlines == [id \in DOMAIN ref |-> Due(id)]

\* What the fields of Timers are.
LEMMA Fields == Timers.heap = heap /\ Timers.ref = ref
  BY DEF Timers

\* A set of timers is stored as it is.
LEMMA Stored ==
  ASSUME NEW u, Store(u), Sound(u)
  PROVE  Sound(Timers)' /\ (Ordered(u, Len(u.heap)) => Ordered(Timers, Len(heap))')
<1>1. heap' = u.heap /\ ref' = u.ref
  BY DEF Store
<1>2. Timers'.heap = u.heap /\ Timers'.ref = u.ref
  BY <1>1 DEF Timers
<1>3. QED
  BY <1>1, <1>2 DEF Sound, Ordered, Follows

\* Every timer has a node with its deadline.
LEMMA DueIs ==
  ASSUME Good
  PROVE  /\ Len(heap) \in Nat
         /\ \A id \in DOMAIN ref : ref[id] \in 1..Len(heap) /\ Due(id) \in Nat
         /\ \A k \in 1..Len(heap) :
              heap[k].id \in DOMAIN ref /\ ref[heap[k].id] = k /\ heap[k].expires \in Nat
         /\ DOMAIN ref \subseteq Id
  BY Fields, Numbers DEF Good, Sound, Due

\* add, adjust and a removed node, in terms of deadlines.
LEMMA AddStep ==
  ASSUME Good, NEW id \in Id, add(id)
  PROVE  /\ Good'
         /\ \E t \in Timeout :
              /\ Deadlines' = [x \in DOMAIN ref \cup {id} |-> IF x = id THEN now + t ELSE Due(x)]
              /\ Ordered(Timers, Len(heap)) => Ordered(Timers, Len(heap))'
<1>1. PICK t \in Timeout : Store(Put(id, now + t))
  BY DEF add
<1> DEFINE u == Put(id, now + t)
<1>2. now + t \in Nat
  BY ClockAssumption DEF Good
<1>3. /\ Sound(u) /\ DOMAIN u.ref = DOMAIN ref \cup {id}
      /\ \A x \in DOMAIN u.ref :
           u.heap[u.ref[x]].expires = IF x = id THEN now + t ELSE Due(x)
      /\ Ordered(Timers, Len(heap)) => Ordered(u, Len(u.heap))
  BY <1>2, PutIs DEF Good
<1> HIDE DEF u
<1>4. /\ heap' = u.heap /\ ref' = u.ref
      /\ Sound(Timers)' /\ (Ordered(u, Len(u.heap)) => Ordered(Timers, Len(heap))')
  BY <1>1, <1>3, Stored DEF u, Store
<1>5. Deadlines' = [x \in DOMAIN ref \cup {id} |-> IF x = id THEN now + t ELSE Due(x)]
  BY <1>3, <1>4 DEF Deadlines, Due
<1>6. QED
  BY <1>3, <1>4, <1>5 DEF Good, add

LEMMA AdjustStep ==
  ASSUME Good, NEW id \in Id, adjust(id)
  PROVE  /\ Good' /\ id \in DOMAIN ref
         /\ \E t \in Timeout :
              /\ Deadlines' = [x \in DOMAIN ref |-> IF x = id THEN now + t ELSE Due(x)]
              /\ Ordered(Timers, Len(heap)) /\ Due(id) <= now + t => Ordered(Timers, Len(heap))'
<1> DEFINE U(e) == siftdown_([Timers EXCEPT !.heap[ref[id]].expires = e], ref[id], Len(heap)).t
<1>1. PICK t \in Timeout : Store(U(now + t))
  BY DEF adjust
<1> DEFINE u == U(now + t)
<1>2. now + t \in Nat /\ id \in DOMAIN ref
  BY ClockAssumption DEF Good, adjust
<1>3. /\ Sound(u) /\ DOMAIN u.ref = DOMAIN ref
      /\ \A x \in DOMAIN u.ref :
           u.heap[u.ref[x]].expires = IF x = id THEN now + t ELSE Due(x)
      /\ Ordered(Timers, Len(heap)) /\ Due(id) <= now + t => Ordered(u, Len(u.heap))
  BY <1>2, AdjustIs DEF Good
<1> HIDE DEF U
<1>4. /\ heap' = u.heap /\ ref' = u.ref
      /\ Sound(Timers)' /\ (Ordered(u, Len(u.heap)) => Ordered(Timers, Len(heap))')
  BY <1>1, <1>3, Stored DEF Store
<1>5. Deadlines' = [x \in DOMAIN ref |-> IF x = id THEN now + t ELSE Due(x)]
  BY <1>3, <1>4 DEF Deadlines, Due
<1>6. QED
  BY <1>2, <1>3, <1>4, <1>5 DEF Good, adjust

LEMMA DeleteStep ==
  ASSUME Good, NEW k \in 1..Len(heap), Store(del_(Timers, k))
  PROVE  /\ Sound(Timers)'
         /\ Deadlines' = [x \in DOMAIN ref \ {heap[k].id} |-> Due(x)]
         /\ Ordered(Timers, Len(heap)) => Ordered(Timers, Len(heap))'
<1> DEFINE u == del_(Timers, k)
<1>1. /\ Sound(u) /\ DOMAIN u.ref = DOMAIN ref \ {heap[k].id}
      /\ \A id \in DOMAIN u.ref : u.heap[u.ref[id]] = heap[ref[id]]
      /\ Ordered(Timers, Len(heap)) => Ordered(u, Len(u.heap))
  BY Fields, Deleted DEF Good
<1> HIDE DEF u
<1>2. /\ heap' = u.heap /\ ref' = u.ref
      /\ Sound(Timers)' /\ (Ordered(u, Len(u.heap)) => Ordered(Timers, Len(heap))')
  BY <1>1, Stored DEF u, Store
<1>3. QED
  BY <1>1, <1>2 DEF Deadlines, Due

\* The clock, the wait and the end of the events leave the timers alone.
LEMMA OtherStep ==
  ASSUME Good, Time \/ TickEnd \/ Wake \/ EventsDone \/ UNCHANGED vars
  PROVE  Good' /\ UNCHANGED <<heap, ref>>
<1>1. UNCHANGED <<heap, ref>>
  BY DEF Time, TickEnd, Wake, EventsDone, vars
<1>2. Sound(Timers)'
  BY <1>1 DEF Good, Timers
<1>3. now' \in 0..MaxClock
  BY ClockAssumption DEF Good, Time, TickEnd, Wake, EventsDone, vars
<1>4. timeMS' \in Int
  <2>1. CASE TickEnd
    <3>1. PICK d \in Delay :
            timeMS' = IF heap = <<>> THEN -1 ELSE Ms(heap[1].expires - (now + d))
      BY <2>1 DEF TickEnd
    <3>2. CASE heap = <<>>
      BY <3>1, <3>2
    <3>3. CASE heap # <<>>
      <4>1. heap[1].expires \in Nat
        <5>1. heap \in Seq(Node) /\ 1 \in 1..Len(heap)
          BY <3>3, Fields DEF Good, Sound
        <5>2. QED
          BY <5>1, DueIs
      <4>2. heap[1].expires - (now + d) \in Int
        BY <4>1, ClockAssumption DEF Good
      <4>3. \A x \in Int : Ms(x) \in Int
        BY ClockAssumption DEF Ms
      <4>4. QED
        BY <3>1, <3>3, <4>2, <4>3
    <3>4. QED
      BY <3>2, <3>3
  <2>2. CASE Time \/ Wake \/ EventsDone \/ UNCHANGED vars
    BY <2>2 DEF Good, Time, Wake, EventsDone, vars
  <2>3. QED
    BY <2>1, <2>2
<1>5. stage' \in {"tick", "wait", "events"}
  BY DEF Good, Time, TickEnd, Wake, EventsDone, vars
<1>6. QED
  BY <1>1, <1>2, <1>3, <1>4, <1>5 DEF Good

\* The parts of Next.
LEMMA Cases ==
  ASSUME [Next]_vars
  PROVE  \/ Time \/ TickEnd \/ Wake \/ EventsDone \/ UNCHANGED vars
         \/ TickFire
         \/ \E id \in Id : add(id) \/ adjust(id) \/ doWork(id)
  BY DEF Next

\* doWork and a round of tick remove one node.
LEMMA RemoveStep ==
  ASSUME Good, TickFire \/ \E id \in Id : doWork(id)
  PROVE  /\ Good'
         /\ Ordered(Timers, Len(heap)) => Ordered(Timers, Len(heap))'
         /\ TickFire => Deadlines' = [x \in DOMAIN ref \ {heap[1].id} |-> Due(x)]
         /\ \A id \in Id : doWork(id) /\ ~TickFire =>
              Deadlines' = [x \in DOMAIN ref \ {id} |-> Due(x)]
         /\ now' = now
<1>1. CASE TickFire
  <2>1. 1 \in 1..Len(heap) /\ Store(del_(Timers, 1))
    BY <1>1, Fields DEF TickFire, FirstExpired, Good, Sound
  <2>2. QED
    BY <1>1, <2>1, DeleteStep DEF Good, TickFire
<1>2. ASSUME ~TickFire, NEW id \in Id, doWork(id)
      PROVE  /\ Good' /\ (Ordered(Timers, Len(heap)) => Ordered(Timers, Len(heap))')
             /\ Deadlines' = [x \in DOMAIN ref \ {id} |-> Due(x)]
             /\ now' = now
  <2>1. /\ ref[id] \in 1..Len(heap) /\ heap[ref[id]].id = id
        /\ Store(del_(Timers, ref[id]))
    BY <1>2, Fields DEF doWork, Good, Sound
  <2>2. QED
    BY <1>2, <2>1, DeleteStep DEF Good, doWork
<1>3. QED
  BY <1>1, <1>2

LEMMA GoodInit == Init => Good
<1> SUFFICES ASSUME Init PROVE Good
  OBVIOUS
<1>1. heap = <<>> /\ DOMAIN ref = {} /\ ref = [id \in {} |-> 0]
  BY DEF Init
<1>2. ref \in [{} -> 1..0]
  BY <1>1
<1>3. Sound(Timers)
  BY <1>1, <1>2, Fields DEF Sound
<1>4. QED
  BY <1>3, ClockAssumption DEF Good, Init

LEMMA GoodStep == Good /\ [Next]_vars => Good'
  BY Cases, OtherStep, RemoveStep, AddStep, AdjustStep

\* The index is exact, whatever the clock does and for any timeouts.
THEOREM HeapSound == Spec => []Good
  BY GoodInit, GoodStep, PTL DEF Spec

\* The types are kept.
THEOREM TypeCorrect == Spec => []TypeOK
<1>1. Good => TypeOK
  BY Fields DEF Good, Sound, TypeOK
<1>2. QED
  BY <1>1, HeapSound, PTL

\* adjust and doWork reach the timer of their descriptor, and none is in the heap twice
\* (heaptimer.cpp:24-29).
THEOREM IndexExact == Spec => []RefExact
<1>1. Good => RefExact
  BY Fields DEF Good, Sound, RefExact
<1>2. QED
  BY <1>1, HeapSound, PTL

-------------------------------------------------------------------------------
(* The order.  adjust moves a timer down only, which is right if no timer   *)
(* ends later than one that is set now.                                     *)

\* A steady clock, and one timeout for everybody: WebServer passes timeoutMS_ to each call
\* (webserver.cpp:166, 221).
Steady == ~Back /\ \A s, t \in Timeout : s = t

\* The inductive invariant, together with Good.
InOrder ==
  /\ Ordered(Timers, Len(heap))
  /\ \A id \in DOMAIN ref, t \in Timeout : Due(id) <= now + t

LEMMA OrderInit == Init => InOrder
<1> SUFFICES ASSUME Init PROVE InOrder
  OBVIOUS
<1>1. Len(heap) = 0 /\ DOMAIN ref = {}
  BY DEF Init
<1>2. QED
  BY <1>1 DEF InOrder, Ordered

LEMMA OrderStep ==
  ASSUME Steady, Good, InOrder, [Next]_vars
  PROVE  InOrder'
<1>1. Good' /\ now \in Nat /\ now' \in Nat /\ Timeout \subseteq Nat
  BY GoodStep, ClockAssumption DEF Good
<1>2. \A id \in DOMAIN ref : Due(id) \in Nat /\ Deadlines[id] = Due(id)
  BY DueIs DEF Deadlines
<1>3. ASSUME Time \/ TickEnd \/ Wake \/ EventsDone \/ UNCHANGED vars PROVE InOrder'
  <2>1. UNCHANGED <<heap, ref>>
    BY <1>3, OtherStep
  <2>2. now' >= now
    BY <1>1, <1>3, ClockAssumption DEF Time, TickEnd, Wake, EventsDone, vars, Steady
  <2>3. \A id \in DOMAIN ref : Due(id)' = Due(id)
    BY <2>1 DEF Due
  <2>4. Ordered(Timers, Len(heap))'
    BY <2>1 DEF InOrder, Timers, Ordered, Follows
  <2>5. \A id \in DOMAIN ref, t \in Timeout : Due(id) <= now' + t
    BY <1>1, <1>2, <2>2 DEF InOrder
  <2>6. QED
    BY <2>1, <2>3, <2>4, <2>5 DEF InOrder
<1>4. ASSUME Ordered(Timers, Len(heap))', now' = now, NEW S, DOMAIN ref' = S,
             \A x \in S : \/ x \in DOMAIN ref /\ Deadlines'[x] = Due(x)
                          \/ \E t \in Timeout : Deadlines'[x] = now + t
      PROVE  InOrder'
  <2>1. SUFFICES ASSUME NEW id \in DOMAIN ref', NEW t \in Timeout PROVE Due(id)' <= now' + t
    BY <1>4 DEF InOrder
  <2>2. Due(id)' = Deadlines'[id]
    BY DEF Deadlines
  <2>3. CASE id \in DOMAIN ref /\ Deadlines'[id] = Due(id)
    BY <1>4, <2>2, <2>3 DEF InOrder
  <2>4. CASE \E s \in Timeout : Deadlines'[id] = now + s
    <3>1. Deadlines'[id] = now + t
      BY <2>4 DEF Steady
    <3>2. QED
      BY <1>1, <1>4, <2>2, <3>1
  <2>5. QED
    BY <1>4, <2>3, <2>4
<1>5. DOMAIN Deadlines' = DOMAIN ref'
  BY DEF Deadlines
<1>6. CASE TickFire \/ \E id \in Id : doWork(id)
  <2>1. Ordered(Timers, Len(heap))' /\ now' = now
    BY <1>6, RemoveStep DEF InOrder
  <2>2. PICK gone : Deadlines' = [x \in DOMAIN ref \ {gone} |-> Due(x)]
    BY <1>6, RemoveStep
  <2>3. QED
    BY <1>4, <1>5, <2>1, <2>2
<1>7. ASSUME NEW id \in Id, add(id) PROVE InOrder'
  <2>1. PICK t \in Timeout :
          /\ Deadlines' = [x \in DOMAIN ref \cup {id} |-> IF x = id THEN now + t ELSE Due(x)]
          /\ Ordered(Timers, Len(heap)) => Ordered(Timers, Len(heap))'
    BY <1>7, AddStep
  <2>2. Ordered(Timers, Len(heap))' /\ now' = now
    BY <1>7, <2>1 DEF InOrder, add
  <2>3. QED
    BY <1>4, <1>5, <2>1, <2>2
<1>8. ASSUME NEW id \in Id, adjust(id) PROVE InOrder'
  <2>1. id \in DOMAIN ref
    BY <1>8 DEF adjust
  <2>2. PICK t \in Timeout :
          /\ Deadlines' = [x \in DOMAIN ref |-> IF x = id THEN now + t ELSE Due(x)]
          /\ Ordered(Timers, Len(heap)) /\ Due(id) <= now + t => Ordered(Timers, Len(heap))'
    BY <1>8, AdjustStep
  <2>3. Ordered(Timers, Len(heap))' /\ now' = now
    BY <1>8, <2>1, <2>2 DEF InOrder, adjust
  <2>4. QED
    BY <1>4, <1>5, <2>2, <2>3
<1>9. QED
  BY <1>3, <1>6, <1>7, <1>8, Cases

LEMMA OrderKept == ASSUME Steady PROVE Spec => [](Good /\ InOrder)
<1>1. Init => Good /\ InOrder
  BY GoodInit, OrderInit
<1>2. Good /\ InOrder /\ [Next]_vars => (Good /\ InOrder)'
  BY GoodStep, OrderStep
<1>3. QED
  BY <1>1, <1>2, PTL DEF Spec

\* No timer hides behind a later one.
THEOREM NoneHides == ASSUME Steady PROVE Spec => []HeapOrdered
<1>1. InOrder => HeapOrdered
  BY Fields DEF InOrder, Ordered, Follows, HeapOrdered
<1>2. QED
  BY <1>1, OrderKept, PTL

\* In an ordered heap no deadline comes before the first node's: the least position of an
\* earlier one would have an earlier parent.
LEMMA FirstLeast ==
  ASSUME Good, InOrder
  PROVE  \A id \in DOMAIN ref : heap[1].expires <= Due(id)
<1> DEFINE B == {k \in 1..Len(heap) : heap[k].expires < heap[1].expires}
<1>1. /\ Len(heap) \in Nat
      /\ \A k \in 1..Len(heap) : heap[k].expires \in Nat
      /\ \A id \in DOMAIN ref : ref[id] \in 1..Len(heap)
  BY DueIs
<1>2. B = {}
  <2>1. SUFFICES ASSUME B # {} PROVE FALSE
    OBVIOUS
  <2>2. B \in SUBSET Nat
    BY <1>1
  <2>3. PICK k \in B : \A m \in B : k <= m
    BY <2>1, <2>2, Least
  <2>4. k \in 2..Len(heap) /\ k \div 2 \in 1..(k - 1) /\ k \div 2 \in 1..Len(heap)
    BY <1>1, <2>3
  <2>5. heap[k \div 2].expires <= heap[k].expires
    BY <2>4, Fields DEF InOrder, Ordered, Follows
  <2>6. heap[1].expires <= heap[k \div 2].expires
    BY <1>1, <2>3, <2>4
  <2>7. 1 \in 1..Len(heap) /\ k \in 1..Len(heap)
    BY <1>1, <2>4
  <2>8. QED
    BY <1>1, <2>3, <2>4, <2>5, <2>6, <2>7
<1>3. ASSUME NEW id \in DOMAIN ref PROVE heap[1].expires <= Due(id)
  <2>1. ref[id] \in 1..Len(heap) /\ 1 \in 1..Len(heap) /\ ref[id] \notin B
    BY <1>1, <1>2
  <2>2. QED
    BY <1>1, <2>1 DEF Due
<1>4. QED
  BY <1>3

-------------------------------------------------------------------------------
(* Waits and the promise.                                                   *)

\* Whole milliseconds: more than none means at least Grain units; and what is left after
\* less than a millisecond too much is never negative, nor longer than it is.
LEMMA MsIs ==
  ASSUME NEW x \in Int
  PROVE  /\ Ms(x) > 0 <=> x >= Grain
         /\ x > -Grain => Ms(x) >= 0 /\ (Ms(x) = 0 \/ Ms(x) * Grain <= x)
         /\ x <= -Grain => Ms(x) < 0
<1>1. Grain \in Nat \ {0}
  BY ClockAssumption
<1>2. ASSUME NEW y \in Nat
      PROVE  /\ y \div Grain \in Nat /\ (y \div Grain) * Grain <= y
             /\ y < Grain => y \div Grain = 0
             /\ y >= Grain => y \div Grain > 0
  BY <1>1, Z3
<1>3. CASE x >= 0
  BY <1>1, <1>2, <1>3 DEF Ms
<1>4. CASE x < 0
  <2>1. -x \in Nat /\ Ms(x) = -((-x) \div Grain)
    BY <1>4 DEF Ms
  <2>2. /\ (-x) \div Grain \in Nat /\ (-x < Grain => (-x) \div Grain = 0)
        /\ -x >= Grain => (-x) \div Grain > 0
    BY <1>2, <2>1
  <2>3. QED
    BY <1>1, <1>4, <2>1, <2>2
<1>5. QED
  BY <1>3, <1>4

\* tick ends when the first timer has a millisecond left at least.
LEMMA NoneDue ==
  ASSUME Good, TickEnd, heap # <<>>
  PROVE  heap[1].expires - now >= Grain
<1> DEFINE x == heap[1].expires - now
<1>1. 1 \in 1..Len(heap)
  BY Fields DEF Good, Sound
<1>2. x \in Int
  BY <1>1, DueIs DEF Good
<1>3. ~(Ms(x) <= 0)
  BY DEF TickEnd, FirstExpired
<1>4. \A y \in Int : Ms(y) \in Int
  BY ClockAssumption DEF Ms
<1> HIDE DEF x
<1>5. Ms(x) > 0
  BY <1>2, <1>3, <1>4
<1>6. x >= Grain
  BY <1>2, <1>5, MsIs
<1>7. QED
  BY <1>6 DEF x

\* One step of WakesInTime.
LEMMA WaitStep ==
  ASSUME Good, InOrder, [Next]_vars, stage = "tick", stage' = "wait",
         NEW other \in DOMAIN ref', ~EndsBefore(other)
  PROVE  \E id \in DOMAIN ref' : PassedBetween(id) /\ timeMS' < 0
<1>1. TickEnd
  BY DEF Next, Time, TickFire, Wake, EventsDone, add, adjust, doWork, vars
<1>2. UNCHANGED <<heap, ref>>
  BY <1>1 DEF TickEnd
<1>3. Due(other)' = Due(other) /\ other \in DOMAIN ref
  BY <1>2 DEF Due
<1>4. ref[other] \in 1..Len(heap) /\ Len(heap) \in Nat /\ Due(other) \in Nat
  BY <1>3, DueIs
<1>5. heap # <<>> /\ 1 \in 1..Len(heap) /\ heap[1].expires \in Nat
  BY <1>4, DueIs
<1>6. heap[1].expires <= Due(other)
  BY <1>3, FirstLeast
<1>7. PICK d \in Delay : now' = now + d /\ timeMS' = Ms(heap[1].expires - (now + d))
  BY <1>1, <1>5 DEF TickEnd
<1>8. now \in Nat /\ d \in Nat /\ Grain \in Nat \ {0}
  BY ClockAssumption DEF Good
<1>9. heap[1].expires - now >= Grain
  BY <1>1, <1>5, NoneDue
<1> DEFINE x == heap[1].expires - (now + d)
<1>10. x \in Int /\ timeMS' = Ms(x)
  BY <1>5, <1>7, <1>8
\* The first timer is as late: a wait of no or some time would end before other is due.
<1>11. timeMS' < 0 /\ x <= -Grain
  <2>1. CASE x > -Grain
    <3>1. timeMS' \in Int /\ timeMS' * Grain \in Int /\ (timeMS' = 0 \/ (timeMS' > 0 /\ timeMS' * Grain <= x))
      <4>1. timeMS' >= 0 /\ (timeMS' = 0 \/ timeMS' * Grain <= x)
        BY <1>8, <1>10, <2>1, MsIs
      <4>2. timeMS' \in Int /\ timeMS' * Grain \in Int
        BY <1>8, GoodStep DEF Good
      <4>3. QED
        BY <4>1, <4>2
    <3>2. ASSUME timeMS' * Grain <= x PROVE now' + timeMS' * Grain <= Due(other)
      <4> DEFINE p == timeMS' * Grain
      <4>1. p \in Int /\ p <= x
        BY <3>1, <3>2
      <4> HIDE DEF p
      <4>2. now' + p <= Due(other)
        BY <1>4, <1>5, <1>6, <1>7, <1>8, <4>1
      <4>3. QED
        BY <4>2 DEF p
    <3>3. EndsBefore(other)
      BY <1>3, <3>1, <3>2 DEF EndsBefore
    <3>4. QED
      BY <3>3
  <2>2. CASE x <= -Grain
    <3>1. timeMS' < 0
      BY <1>8, <1>10, <2>2, MsIs
    <3>2. QED
      BY <2>2, <3>1
  <2>3. QED
    BY <1>8, <1>10, <2>1, <2>2
<1> DEFINE first == heap[1].id
<1>12. first \in DOMAIN ref /\ ref[first] = 1
  BY <1>5, DueIs
<1>13. Due(first) = heap[1].expires /\ Due(first)' = Due(first) /\ first \in DOMAIN ref'
  BY <1>2, <1>12 DEF Due
<1>14. PassedBetween(first)
  BY <1>5, <1>7, <1>8, <1>9, <1>11, <1>13 DEF PassedBetween
<1>15. QED
  BY <1>11, <1>13, <1>14

\* However long GetNextTick takes between its two looks at the clock, epoll sleeps past
\* a deadline only if one passes meanwhile (heaptimer.cpp:113, 136).
THEOREM Wakes == ASSUME Steady PROVE Spec => WakesInTime
<1>1. Good /\ InOrder /\ [Next]_vars =>
        [stage = "tick" /\ stage' = "wait" =>
           \/ \A id \in DOMAIN ref' : EndsBefore(id)
           \/ \E id \in DOMAIN ref' : PassedBetween(id) /\ timeMS' < 0]_vars
  BY WaitStep
<1>2. QED
  BY <1>1, OrderKept, PTL DEF Spec, WakesInTime

\* The initial state is one of TimerSet.
LEMMA PromiseInit == Init => Promise!Init
  BY DEF Init, Promise!Init, Due

\* A timer at the root that has expired is one that TimerSet may fire.
LEMMA PromiseFire ==
  ASSUME Good, InOrder, TickFire
  PROVE  Promise!Fire(heap[1].id) /\ heap[1].id \in Id
<1>1. 1 \in 1..Len(heap) /\ Ms(heap[1].expires - now) <= 0
  BY DueIs, Fields DEF TickFire, FirstExpired, Good, Sound
<1>2. heap[1].id \in DOMAIN ref /\ ref[heap[1].id] = 1 /\ DOMAIN ref \subseteq Id
  BY <1>1, DueIs
<1>3. Due(heap[1].id) = heap[1].expires
  BY <1>2 DEF Due
<1>4. Deadlines' = [x \in DOMAIN ref \ {heap[1].id} |-> Due(x)]
  BY RemoveStep
<1>5. stage = "tick" /\ UNCHANGED <<now, stage>>
  BY DEF TickFire
<1>6. \A id \in DOMAIN ref : Due(heap[1].id) <= Due(id)
  BY <1>3, FirstLeast
<1>7. QED
  BY <1>1, <1>2, <1>3, <1>4, <1>5, <1>6
  DEF Promise!Fire, Promise!Expired, Promise!Ms, Promise!Drop, Ms, Deadlines

\* tick ends when nothing is due.
LEMMA PromiseEnd ==
  ASSUME Good, InOrder, TickEnd
  PROVE  Promise!End
<1>1. stage = "tick" /\ stage' = "wait" /\ UNCHANGED <<heap, ref>> /\ now' \in Int
  BY GoodStep DEF TickEnd, Next, Good
<1>2. ASSUME NEW id \in DOMAIN ref PROVE ~(Ms(Due(id) - now) <= 0)
  <2>1. ref[id] \in 1..Len(heap) /\ Len(heap) \in Nat /\ Due(id) \in Nat
    BY DueIs
  <2>2. heap # <<>> /\ 1 \in 1..Len(heap) /\ heap[1].expires \in Nat
    BY <2>1, DueIs
  <2>3. now \in Nat /\ Grain \in Nat \ {0}
    BY ClockAssumption DEF Good
  <2>4. heap[1].expires - now >= Grain
    BY <2>2, NoneDue
  <2>5. heap[1].expires <= Due(id)
    BY FirstLeast
  <2> DEFINE x == Due(id) - now
  <2>6. x \in Int /\ x >= Grain
    BY <2>1, <2>2, <2>3, <2>4, <2>5
  <2>7. Ms(x) \in Int /\ Ms(x) > 0
    <3>1. \A y \in Int : Ms(y) \in Int
      BY <2>3 DEF Ms
    <3> HIDE DEF x
    <3>2. QED
      BY <2>6, <3>1, MsIs
  <2>8. QED
    BY <2>7
<1>3. Deadlines' = Deadlines
  BY <1>1 DEF Deadlines, Due
<1>4. QED
  BY <1>1, <1>2, <1>3 DEF Promise!End, Promise!Expired, Promise!Ms, Ms, Deadlines

\* Every step is one of TimerSet, or changes nothing it knows of.
LEMMA PromiseStep ==
  ASSUME Good, InOrder, [Next]_vars
  PROVE  [Promise!Next]_(Promise!vars)
<1>1. CASE TickFire
  BY <1>1, PromiseFire DEF Promise!Next
<1>2. CASE TickEnd
  BY <1>2, PromiseEnd DEF Promise!Next
<1>3. CASE Time
  <2>1. Promise!Time
    BY <1>3, GoodStep DEF Promise!Time, Time, Good, Due
  <2>2. QED
    BY <2>1 DEF Promise!Next
<1>4. CASE Wake \/ UNCHANGED vars
  BY <1>4 DEF Wake, vars, Promise!vars, Due
<1>5. CASE EventsDone
  <2>1. Promise!Begin
    BY <1>5 DEF Promise!Begin, EventsDone, Due
  <2>2. QED
    BY <2>1 DEF Promise!Next
<1>6. ASSUME NEW id \in Id, add(id) PROVE Promise!Next
  <2>1. stage = "events" /\ UNCHANGED <<now, stage>>
    BY <1>6 DEF add
  <2>2. PICK t \in Timeout :
          Deadlines' = [x \in DOMAIN ref \cup {id} |-> IF x = id THEN now + t ELSE Due(x)]
    BY <1>6, AddStep
  <2>3. Promise!Set(id)
    BY <2>1, <2>2 DEF Promise!Set, Deadlines
  <2>4. QED
    BY <2>3 DEF Promise!Next
<1>7. ASSUME NEW id \in Id, adjust(id) PROVE Promise!Next
  <2>1. stage = "events" /\ UNCHANGED <<now, stage>> /\ id \in DOMAIN ref
    BY <1>7 DEF adjust
  <2>2. PICK t \in Timeout :
          Deadlines' = [x \in DOMAIN ref |-> IF x = id THEN now + t ELSE Due(x)]
    BY <1>7, AdjustStep
  <2>3. DOMAIN ref = DOMAIN ref \cup {id}
    BY <2>1
  <2>4. Promise!Set(id)
    BY <2>1, <2>2, <2>3 DEF Promise!Set, Deadlines
  <2>5. QED
    BY <2>4 DEF Promise!Next
<1>8. ASSUME NEW id \in Id, doWork(id) PROVE Promise!Next
  <2>1. stage = "events" /\ UNCHANGED <<now, stage>> /\ id \in DOMAIN ref
    BY <1>8 DEF doWork
  <2>2. Deadlines' = [x \in DOMAIN ref \ {id} |-> Due(x)]
    BY <1>8, <2>1, RemoveStep DEF TickFire
  <2>3. Promise!Early(id)
    BY <2>1, <2>2 DEF Promise!Early, Promise!Drop, Deadlines
  <2>4. QED
    BY <2>3 DEF Promise!Next
<1>9. QED
  BY <1>1, <1>2, <1>3, <1>4, <1>5, <1>6, <1>7, <1>8, Cases

\* The heap and its index behave like a set of deadlines.
THEOREM Implements == ASSUME Steady PROVE Spec => ImplementsTimerSet
<1>1. Init => Promise!Init
  BY PromiseInit
<1>2. Good /\ InOrder /\ [Next]_vars => [Promise!Next]_(Promise!vars)
  BY PromiseStep
<1>3. QED
  BY <1>1, <1>2, OrderKept, PTL DEF Spec, ImplementsTimerSet, Promise!Spec
===============================================================================
