---------------------------- MODULE TimeSyncProofs ----------------------------
(***************************************************************************)
(* That the latency the player computes with is the median of what was      *)
(* measured, and that the semaphore player_task waits for follows the        *)
(* filter, for any size of the ring and whatever samples it holds.          *)
(*                                                                         *)
(* The ring is a circle of all its nodes that begins at valueHead, ordered  *)
(* by value and, where values are equal, by age: a new sample goes behind   *)
(* the ones that are equal to it.  Nodes without a sample hold Infinity and  *)
(* come last, so that the median is at position bufferCnt \div 2.  An        *)
(* insertion takes the oldest node out (Taken), finds the sample's position  *)
(* and links the node in there (With), and steps the median by at most one   *)
(* node each way; each part is shown to keep that order.                     *)
(***************************************************************************)
EXTENDS TimeSync, TLAPS, FiniteSetTheorems, WellFoundedInduction

\* What the proofs about the ring use of the size and the samples.
LEMMA Bounds ==
  /\ N \in Nat /\ N >= 3
  /\ Samples \subseteq Int /\ Infinity \in Int /\ \A s \in Samples : s < Infinity
BY FilterAssumption

USE Bounds

Pos == 0..(N - 1)

\* How many nodes are older than node x when h is the oldest.
Age(h, x) == IF x >= h THEN x - h ELSE x + N - h

\* The position after k in a ring of n nodes.
After(k, n) == IF k = n - 1 THEN 0 ELSE k + 1

\* The nodes q[0], ..., q[n - 1] are the ring, from valueHead on.
Circle(f, q, n) ==
  /\ q \in [0..(n - 1) -> Node]
  /\ \A i, k \in 0..(n - 1) : q[i] = q[k] => i = k
  /\ q[0] = f.valueHead
  /\ \A k \in 0..(n - 1) : /\ f.nextValue[q[k]] = q[After(k, n)]
                          /\ f.prevValue[q[After(k, n)]] = q[k]

\* By value, and by age where values are equal.
Before(f, x, y) ==
  \/ f.value[x] < f.value[y]
  \/ f.value[x] = f.value[y] /\ Age(f.ageHead, x) < Age(f.ageHead, y)

Sorted(f, p) == \A i, k \in Pos : i < k => Before(f, p[i], p[k])

\* The samples come first.
Filled(f, p) ==
  \A k \in Pos : IF k < f.bufferCnt THEN f.value[p[k]] \in Samples ELSE f.value[p[k]] = Infinity

\* Each node has what was inserted when it was the oldest.
Remembers(f, w) ==
  \A x \in Node :
    LET gap == N - Len(w)
        a   == Age(f.ageHead, x)
    IN f.value[x] = IF a < gap THEN Infinity ELSE w[a - gap + 1]

\* The ring p has every node, in order, and the median's is the middle one.
InOrder(f, p) ==
  /\ Circle(f, p, N) /\ \A x \in Node : \E k \in Pos : p[k] = x
  /\ Sorted(f, p) /\ Filled(f, p)
  /\ f.medianHead = p[f.bufferCnt \div 2]

-----------------------------------------------------------------------------
(* The nodes of the ring, one after the other                                *)

\* A set of natural numbers has a least one.
LEMMA LeastNat ==
  ASSUME NEW T \in SUBSET Nat, T # {}
  PROVE  \E x \in T : \A y \in T : x <= y
<1> DEFINE R == OpToRel(<, Nat)
<1>1. IsWellFoundedOn(R, Nat)
  BY NatLessThanWellFounded
<1>2. \A a, b \in Nat : <<a, b>> \in R <=> a < b
  BY DEF OpToRel
<1> HIDE DEF R
<1>3. PICK x \in T : \A y \in T : ~ (<<y, x>> \in R)
  BY <1>1, WFMin
<1>4. \A y \in T : ~(y < x)
  BY <1>2, <1>3
<1> QED BY <1>4

\* Following nx from h visits a node at each count, which makes the recursion in
\* Nth well defined.
LEMMA Follows ==
  ASSUME NEW n \in Nat, NEW V, NEW nx \in [V -> V], NEW h \in V
  PROVE  \E g : g = [k \in 0..n |-> IF k = 0 THEN h ELSE nx[g[k - 1]]]
<1> DEFINE Ok(m, g) == g = [k \in 0..m |-> IF k = 0 THEN h ELSE nx[g[k - 1]]]
           T == {m \in Nat : ~ \E g \in [0..m -> V] : Ok(m, g)}
<1>1. CASE T = {}
  BY <1>1
<1>2. CASE T # {}
  <2>1. PICK m \in T : \A y \in T : m <= y
    BY <1>2, LeastNat
  <2>2. m # 0
    <3>1. [k \in 0..0 |-> h] \in [0..0 -> V] /\ Ok(0, [k \in 0..0 |-> h])
      OBVIOUS
    <3> QED BY <3>1
  <2>3. m - 1 \in Nat /\ m - 1 \notin T
    <3>1. m \in Nat
      BY <2>1
    <3> HIDE DEF T
    <3> QED BY <2>1, <2>2, <3>1
  <2>4. PICK g \in [0..m - 1 -> V] : Ok(m - 1, g)
    BY <2>3
  <2> DEFINE e == [k \in 0..m |-> IF k = m THEN nx[g[m - 1]] ELSE g[k]]
  <2>5. e \in [0..m -> V]
    <3>1. g[m - 1] \in V
      BY <2>3, <2>4
    <3>2. ASSUME NEW k \in 0..m, k # m PROVE g[k] \in V
      BY <2>3, <2>4, <3>2
    <3> QED BY <3>1, <3>2
  <2>6. Ok(m, e)
    <3>1. \A k \in 0..(m - 1) : k \in 0..m /\ k # m /\ g[k] = IF k = 0 THEN h ELSE nx[g[k - 1]]
      BY <2>3, <2>4
    <3>2. ASSUME NEW k \in 0..m PROVE e[k] = IF k = 0 THEN h ELSE nx[e[k - 1]]
      <4>1. CASE k = 0
        BY <2>2, <2>3, <3>1, <4>1
      <4>2. CASE k # 0
        <5>1. k - 1 \in 0..(m - 1) /\ e[k - 1] = g[k - 1]
          BY <3>1, <4>2
        <5>2. CASE k = m
          BY <4>2, <5>1, <5>2
        <5>3. CASE k # m
          BY <3>1, <4>2, <5>1, <5>3
        <5> QED BY <5>2, <5>3
      <4> QED BY <4>1, <4>2
    <3>3. e = [k \in 0..m |-> e[k]]
      OBVIOUS
    <3> HIDE DEF e
    <3> QED BY <3>2, <3>3
  <2> QED BY <2>1, <2>5, <2>6
<1> QED BY <1>1, <1>2

\* Nth(f, k) is the node that k steps along nextValue lead to.
LEMMA NthFollows ==
  ASSUME NEW f \in Filter
  PROVE  /\ Nth(f, 0) = f.valueHead
         /\ \A k \in 1..N : Nth(f, k) = f.nextValue[Nth(f, k - 1)]
<1> DEFINE h == f.valueHead
           nx == f.nextValue
           g[k \in 0..N] == IF k = 0 THEN h ELSE nx[g[k - 1]]
<1>1. \A k : Nth(f, k) = g[k]
  BY DEF Nth
<1>2. h \in Node /\ nx \in [Node -> Node] /\ N \in Nat
  BY DEF Filter
<1> HIDE DEF h, nx
<1>3. \E e : e = [k \in 0..N |-> IF k = 0 THEN h ELSE nx[e[k - 1]]]
  BY <1>2, Follows
<1>4. g = CHOOSE e : e = [k \in 0..N |-> IF k = 0 THEN h ELSE nx[e[k - 1]]]
  OBVIOUS
<1> HIDE DEF g
<1>5. g = [k \in 0..N |-> IF k = 0 THEN h ELSE nx[g[k - 1]]]
  BY <1>3, <1>4, Zenon
<1>6. 0 \in 0..N /\ \A k \in 1..N : k \in 0..N /\ k # 0
  BY <1>2
<1>7. g[0] = h /\ \A k \in 1..N : g[k] = nx[g[k - 1]]
  BY <1>5, <1>6
<1> QED BY <1>1, <1>7 DEF h, nx

\* In a ring of n nodes, after n of them comes the first again.
LEMMA NthIs ==
  ASSUME NEW f \in Filter, NEW n \in 1..N, NEW q, Circle(f, q, n), NEW k \in 0..n
  PROVE  Nth(f, k) = q[IF k = n THEN 0 ELSE k]
<1> DEFINE T == {i \in 0..n : Nth(f, i) # q[IF i = n THEN 0 ELSE i]}
<1>1. SUFFICES ASSUME T # {} PROVE FALSE
  OBVIOUS
<1>2. PICK i \in T : \A y \in T : i <= y
  <2>1. T \in SUBSET Nat
    OBVIOUS
  <2> HIDE DEF T
  <2> QED BY <1>1, <2>1, LeastNat
<1>3. i # 0
  BY <1>2, NthFollows DEF Circle
<1>4. i \in 1..N /\ i - 1 \in 0..(n - 1) /\ i - 1 \notin T
  BY <1>2, <1>3
<1>5. Nth(f, i) = f.nextValue[q[i - 1]]
  BY <1>4, NthFollows
<1>6. f.nextValue[q[i - 1]] = q[After(i - 1, n)]
  BY <1>4 DEF Circle
<1>7. After(i - 1, n) = IF i = n THEN 0 ELSE i
  BY <1>4 DEF After
<1> QED BY <1>2, <1>5, <1>6, <1>7

-----------------------------------------------------------------------------
(* The oldest node leaves the ring                                           *)

\* The ring without its j-th node, and with a node before its i-th.
Without(p, j)    == [k \in 0..(N - 2) |-> IF k < j THEN p[k] ELSE p[k + 1]]
With(q, i, node) == [k \in Pos |-> IF k < i THEN q[k] ELSE IF k = i THEN node ELSE q[k - 1]]

\* The filter before the search for the place of sample s.
Taken(f, s) == [Unlink(f) EXCEPT !.value[f.ageHead] = s]

\* The next older node, as nextAge is set up.
LEMMA NextNode ==
  ASSUME NEW h \in Node
  PROVE  Successor(h) \in Node /\ Successor(h) = IF h = N - 1 THEN 0 ELSE h + 1
BY DEF Node, Successor

\* Nodes of the same age are the same.
LEMMA SameAge ==
  ASSUME NEW h \in Node, NEW x \in Node, NEW y \in Node, Age(h, x) = Age(h, y)
  PROVE  x = y
BY DEF Age, Node

\* Unlinking makes every node but the oldest one younger by one, and that the
\* youngest.
LEMMA Older ==
  ASSUME NEW h \in Node, NEW x \in Node
  PROVE  /\ Age(h, x) \in 0..(N - 1) /\ (Age(h, x) = 0 <=> x = h)
         /\ Age(Successor(h), x) = IF x = h THEN N - 1 ELSE Age(h, x) - 1
BY NextNode DEF Age, Node

\* What unlinking the oldest node changes.
LEMMA TakenFields ==
  ASSUME NEW f \in Filter, NEW s \in Samples
  PROVE  LET g == Taken(f, s)
             o == f.ageHead
         IN  /\ g \in Filter
             /\ g.value = [f.value EXCEPT ![o] = s]
             /\ g.nextValue = [f.nextValue EXCEPT ![f.prevValue[o]] = f.nextValue[o]]
             /\ g.prevValue = [f.prevValue EXCEPT ![f.nextValue[o]] = f.prevValue[o]]
             /\ g.ageHead = Successor(o)
             /\ g.valueHead = IF o = f.valueHead THEN f.nextValue[o] ELSE f.valueHead
             /\ g.medianHead = IF Corrects(f) THEN f.prevValue[f.medianHead] ELSE f.medianHead
             /\ g.bufferCnt = IF f.bufferCnt < N THEN f.bufferCnt + 1 ELSE f.bufferCnt
<1> DEFINE g == Taken(f, s)
           o == f.ageHead
           u == Unlink(f)
<1>1. /\ f.value \in [Node -> Samples \cup {Infinity}]
      /\ f.nextValue \in [Node -> Node] /\ f.prevValue \in [Node -> Node]
      /\ o \in Node /\ f.valueHead \in Node /\ f.medianHead \in Node /\ f.bufferCnt \in 0..N
      /\ DOMAIN f = {"value", "nextValue", "prevValue", "ageHead", "valueHead", "medianHead",
                     "bufferCnt"}
  BY DEF Filter
<1>2. /\ u.value = f.value
      /\ u.nextValue = [f.nextValue EXCEPT ![f.prevValue[o]] = f.nextValue[o]]
      /\ u.prevValue = [f.prevValue EXCEPT ![f.nextValue[o]] = f.prevValue[o]]
      /\ u.ageHead = Successor(o)
      /\ u.valueHead = IF o = f.valueHead THEN f.nextValue[o] ELSE f.valueHead
      /\ u.medianHead = IF Corrects(f) THEN f.prevValue[f.medianHead] ELSE f.medianHead
      /\ u.bufferCnt = IF f.bufferCnt < N THEN f.bufferCnt + 1 ELSE f.bufferCnt
  BY <1>1 DEF Unlink
<1>3. u \in Filter
  <2>1. /\ u.nextValue \in [Node -> Node] /\ u.prevValue \in [Node -> Node]
        /\ u.valueHead \in Node /\ u.medianHead \in Node /\ u.ageHead \in Node
    BY <1>1, <1>2, NextNode
  <2>2. u.bufferCnt \in 0..N
    BY <1>1, <1>2
  <2> DEFINE nv == u.nextValue
             pv == u.prevValue
             vh == u.valueHead
             mh == u.medianHead
             ah == u.ageHead
             bc == u.bufferCnt
  <2>3. u = [f EXCEPT !.bufferCnt = bc, !.valueHead = vh, !.medianHead = mh, !.prevValue = pv,
                      !.nextValue = nv, !.ageHead = ah]
    BY <1>1, <1>2 DEF Unlink
  <2> HIDE DEF u, nv, pv, vh, mh, ah, bc
  <2>4. [f EXCEPT !.bufferCnt = bc, !.valueHead = vh, !.medianHead = mh, !.prevValue = pv,
                  !.nextValue = nv, !.ageHead = ah] \in Filter
    BY <2>1, <2>2 DEF Filter, nv, pv, vh, mh, ah, bc
  <2> QED BY <2>3, <2>4
<1> HIDE DEF u
<1>4. g = [u EXCEPT !.value[o] = s]
  BY DEF Taken, u
<1>5. /\ g \in Filter /\ g.value = [u.value EXCEPT ![o] = s]
      /\ g.nextValue = u.nextValue /\ g.prevValue = u.prevValue /\ g.ageHead = u.ageHead
      /\ g.valueHead = u.valueHead /\ g.medianHead = u.medianHead /\ g.bufferCnt = u.bufferCnt
  <2>1. [u.value EXCEPT ![o] = s] \in [Node -> Samples \cup {Infinity}]
    BY <1>1, <1>2
  <2> QED BY <1>3, <1>4, <2>1 DEF Filter
<1> HIDE DEF g
<1> QED BY <1>2, <1>5 DEF g

\* The other nodes stay a circle.
LEMMA TakenCircle ==
  ASSUME NEW f \in Filter, NEW s \in Samples, NEW p, Circle(f, p, N), NEW j \in Pos,
         p[j] = f.ageHead
  PROVE  Circle(Taken(f, s), Without(p, j), N - 1)
<1> DEFINE g == Taken(f, s)
           o == f.ageHead
           q == Without(p, j)
           b == IF j = 0 THEN N - 1 ELSE j - 1
<1>1. /\ g.nextValue = [f.nextValue EXCEPT ![f.prevValue[o]] = f.nextValue[o]]
      /\ g.prevValue = [f.prevValue EXCEPT ![f.nextValue[o]] = f.prevValue[o]]
      /\ g.valueHead = IF o = f.valueHead THEN f.nextValue[o] ELSE f.valueHead
      /\ f.nextValue \in [Node -> Node] /\ f.prevValue \in [Node -> Node]
  BY TakenFields DEF Filter
<1>2. /\ p \in [Pos -> Node] /\ (\A i, k \in Pos : p[i] = p[k] => i = k) /\ p[0] = f.valueHead
      /\ \A k \in Pos : f.nextValue[p[k]] = p[After(k, N)] /\ f.prevValue[p[After(k, N)]] = p[k]
  BY DEF Circle, Pos
<1>3. /\ b \in Pos /\ After(b, N) = j /\ After(j, N) \in Pos /\ 0 \in Pos
      /\ f.nextValue[o] = p[After(j, N)] /\ f.prevValue[o] = p[b]
  <2>1. b \in Pos /\ After(b, N) = j /\ After(j, N) \in Pos /\ 0 \in Pos
    BY DEF Pos, After
  <2> HIDE DEF b
  <2> QED BY <1>2, <2>1
<1>4. q \in [0..(N - 1 - 1) -> Node]
  <2>1. \A k \in 0..(N - 2) : k \in Pos /\ k + 1 \in Pos
    BY DEF Pos
  <2> QED BY <1>2, <2>1 DEF Without
<1>5. \A i, k \in 0..(N - 1 - 1) : q[i] = q[k] => i = k
  <2>1. \A k \in 0..(N - 2) : k \in Pos /\ k + 1 \in Pos /\ q[k] = p[IF k < j THEN k ELSE k + 1]
    BY DEF Pos, Without
  <2> HIDE DEF q
  <2> QED BY <1>2, <2>1 DEF Pos
<1>6. q[0] = g.valueHead
  <2>1. q[0] = p[IF j = 0 THEN 1 ELSE 0]
    BY DEF Without, Pos
  <2>2. CASE j = 0
    BY <1>1, <1>2, <1>3, <2>1, <2>2 DEF After
  <2>3. CASE j # 0
    BY <1>1, <1>2, <1>3, <2>1, <2>3
  <2> QED BY <2>2, <2>3
<1>7. ASSUME NEW k \in 0..(N - 1 - 1)
      PROVE  g.nextValue[q[k]] = q[After(k, N - 1)] /\ g.prevValue[q[After(k, N - 1)]] = q[k]
  <2> DEFINE c == IF k < j THEN k ELSE k + 1
             d == IF After(k, N - 1) < j THEN After(k, N - 1) ELSE After(k, N - 1) + 1
  <2>1. /\ q[k] = p[c] /\ q[After(k, N - 1)] = p[d] /\ c \in Pos /\ d \in Pos /\ c # j /\ d # j
    BY DEF Without, Pos, After
  <2>2. IF c = b THEN d = After(j, N) ELSE d = After(c, N) /\ d # After(j, N)
    BY DEF Pos, After
  <2> HIDE DEF c, d, b, q
  <2>3. CASE c = b
    <3>1. g.nextValue[p[c]] = p[d]
      BY <1>1, <1>2, <1>3, <2>1, <2>2, <2>3
    <3>2. g.prevValue[p[d]] = p[c]
      BY <1>1, <1>2, <1>3, <2>1, <2>2, <2>3
    <3> QED BY <2>1, <3>1, <3>2
  <2>4. CASE c # b
    <3>1. p[c] # p[b] /\ p[d] # p[After(j, N)]
      BY <1>2, <1>3, <2>1, <2>2, <2>4
    <3>2. g.nextValue[p[c]] = f.nextValue[p[c]]
      BY <1>1, <1>2, <1>3, <2>1, <3>1
    <3>3. g.prevValue[p[d]] = f.prevValue[p[d]]
      BY <1>1, <1>2, <1>3, <2>1, <3>1
    <3> QED BY <1>2, <2>1, <2>2, <2>4, <3>2, <3>3
  <2> QED BY <2>3, <2>4
<1> QED BY <1>4, <1>5, <1>6, <1>7 DEF Circle

-----------------------------------------------------------------------------
(* The sample finds its place                                                *)

\* Linking a node in changes pointers alone ...
LEMMA LinkFields ==
  ASSUME NEW f \in Filter, NEW node \in Node, NEW i \in Pos, Nth(f, i) \in Node
  PROVE  /\ Link(f, node, i) \in Filter
         /\ Link(f, node, i).value = f.value
         /\ Link(f, node, i).ageHead = f.ageHead
         /\ Link(f, node, i).medianHead = f.medianHead
         /\ Link(f, node, i).bufferCnt = f.bufferCnt
<1> DEFINE it == Nth(f, i)
           vh == IF i = 0 THEN node ELSE f.valueHead
           nv == [f.nextValue EXCEPT ![f.prevValue[it]] = node, ![node] = it]
           pv == [f.prevValue EXCEPT ![node] = f.prevValue[it], ![it] = node]
<1>1. vh \in Node /\ nv \in [Node -> Node] /\ pv \in [Node -> Node]
  <2> HIDE DEF it
  <2>1. it \in Node
    BY DEF it
  <2> QED BY <2>1 DEF Filter
<1>2. Link(f, node, i) = [f EXCEPT !.valueHead = vh, !.nextValue = nv, !.prevValue = pv]
  BY DEF Link, Filter
<1> HIDE DEF vh, nv, pv
<1> QED BY <1>1, <1>2 DEF Filter

\* ... these ones ...
LEMMA LinkPointers ==
  ASSUME NEW f \in Filter, NEW node \in Node, NEW i \in Pos
  PROVE  LET g  == Link(f, node, i)
             it == Nth(f, i)
         IN  /\ g.valueHead = IF i = 0 THEN node ELSE f.valueHead
             /\ g.nextValue = [f.nextValue EXCEPT ![f.prevValue[it]] = node, ![node] = it]
             /\ g.prevValue = [f.prevValue EXCEPT ![node] = f.prevValue[it], ![it] = node]
BY DEF Link, Filter

\* ... and makes a circle of the ring with the node.
LEMMA LinkCircle ==
  ASSUME NEW f \in Filter, NEW q, Circle(f, q, N - 1), NEW node \in Node,
         \A k \in 0..(N - 2) : q[k] # node, NEW i \in Pos
  PROVE  /\ Circle(Link(f, node, i), With(q, i, node), N)
         /\ Nth(f, i) \in Node
<1> DEFINE t == IF i = N - 1 THEN 0 ELSE i
           b == IF t = 0 THEN N - 2 ELSE t - 1
           it == Nth(f, i)
           g == Link(f, node, i)
           r == With(q, i, node)
<1>1. /\ q \in [0..(N - 2) -> Node] /\ (\A a, k \in 0..(N - 2) : q[a] = q[k] => a = k)
      /\ q[0] = f.valueHead
      /\ \A k \in 0..(N - 2) : /\ f.nextValue[q[k]] = q[After(k, N - 1)]
                              /\ f.prevValue[q[After(k, N - 1)]] = q[k]
  <2>1. N - 1 - 1 = N - 2
    OBVIOUS
  <2> QED BY <2>1 DEF Circle
<1>2. t \in 0..(N - 2) /\ b \in 0..(N - 2) /\ After(b, N - 1) = t /\ i \in 0..(N - 1) /\ N - 1 \in 1..N
  BY DEF Pos, After
<1>3. it = q[t]
  BY <1>2, NthIs
<1> HIDE DEF b, it
<1>4. it \in Node /\ it # node /\ f.prevValue[it] = q[b] /\ q[b] # node /\ q[b] \in Node
  <2> HIDE DEF t
  <2> QED BY <1>1, <1>2, <1>3
<1>5. /\ g.valueHead = IF i = 0 THEN node ELSE f.valueHead
      /\ g.nextValue = [f.nextValue EXCEPT ![f.prevValue[it]] = node, ![node] = it]
      /\ g.prevValue = [f.prevValue EXCEPT ![node] = f.prevValue[it], ![it] = node]
      /\ f.nextValue \in [Node -> Node] /\ f.prevValue \in [Node -> Node]
  <2>1. f.nextValue \in [Node -> Node] /\ f.prevValue \in [Node -> Node]
    BY DEF Filter
  <2> QED BY <2>1, LinkPointers DEF it
<1>6. /\ r \in [0..(N - 1) -> Node]
      /\ \A k \in Pos : /\ k < i => k \in 0..(N - 2) /\ r[k] = q[k]
                        /\ k = i => r[k] = node
                        /\ k > i => k - 1 \in 0..(N - 2) /\ r[k] = q[k - 1]
  <2>1. \A k \in Pos : /\ k < i => k \in 0..(N - 2)
                       /\ k > i => k - 1 \in 0..(N - 2)
    BY DEF Pos
  <2>2. \A k \in Pos : k < i \/ k = i \/ k > i
    BY DEF Pos
  <2>3. \A k \in Pos : (IF k < i THEN q[k] ELSE IF k = i THEN node ELSE q[k - 1]) \in Node
    BY <1>1, <2>1, <2>2
  <2> QED BY <2>1, <2>2, <2>3 DEF With, Pos
<1> HIDE DEF g, r
<1>7. \A a, k \in 0..(N - 1) : r[a] = r[k] => a = k
  <2>1. SUFFICES ASSUME NEW a \in Pos, NEW k \in Pos, a < k PROVE r[a] # r[k]
    BY DEF Pos
  <2>2. CASE k < i
    BY <1>1, <1>6, <2>1, <2>2 DEF Pos
  <2>3. CASE k = i
    BY <1>1, <1>6, <2>1, <2>3 DEF Pos
  <2>4. CASE k > i
    BY <1>1, <1>6, <2>1, <2>4 DEF Pos
  <2> QED BY <2>2, <2>3, <2>4 DEF Pos
<1>8. r[0] = g.valueHead
  BY <1>1, <1>5, <1>6 DEF Pos
<1>9. ASSUME NEW k \in 0..(N - 1)
      PROVE  g.nextValue[r[k]] = r[After(k, N)] /\ g.prevValue[r[After(k, N)]] = r[k]
  <2> DEFINE n == After(k, N)
  <2>1. n \in Pos /\ k \in Pos /\ n # k
    BY DEF Pos, After
  <2>2. CASE k = i
    <3>1. r[k] = node /\ r[n] = it
      <4>1. r[n] = q[t]
        BY <1>6, <2>1, <2>2 DEF After, Pos
      <4> QED BY <1>3, <1>6, <2>1, <2>2, <4>1
    <3> QED BY <1>4, <1>5, <3>1
  <2>3. CASE n = i
    <3>1. r[n] = node /\ r[k] = q[b]
      <4>1. r[k] = q[b]
        BY <1>6, <2>1, <2>3 DEF After, Pos, b
      <4> QED BY <1>6, <2>1, <2>3, <4>1
    <3> QED BY <1>4, <1>5, <3>1
  <2>4. CASE k # i /\ n # i
    <3> DEFINE c == IF k < i THEN k ELSE k - 1
    <3>1. c \in 0..(N - 2) /\ r[k] = q[c]
      BY <1>6, <2>1, <2>4 DEF Pos
    <3>2. After(c, N - 1) \in 0..(N - 2) /\ r[n] = q[After(c, N - 1)]
      BY <1>6, <2>1, <2>4 DEF Pos, After
    <3>3. c # b /\ After(c, N - 1) # t
      BY <2>1, <2>4 DEF Pos, After, b
    <3> HIDE DEF c, n, t
    <3>4. q[c] # q[b] /\ q[After(c, N - 1)] # it /\ q[c] # node /\ q[After(c, N - 1)] # node
      BY <1>1, <1>2, <1>3, <3>1, <3>2, <3>3
    <3>5. g.nextValue[q[c]] = f.nextValue[q[c]]
      BY <1>1, <1>4, <1>5, <3>1, <3>4
    <3>6. g.prevValue[q[After(c, N - 1)]] = f.prevValue[q[After(c, N - 1)]]
      BY <1>1, <1>4, <1>5, <3>2, <3>4
    <3> QED BY <1>1, <3>1, <3>2, <3>5, <3>6 DEF n
  <2> QED BY <2>2, <2>3, <2>4
<1>10. Circle(g, r, N)
  BY <1>6, <1>7, <1>8, <1>9 DEF Circle
<1> QED BY <1>4, <1>10 DEF g, r, it
\* What is known of the n nodes that are left, and of the oldest one.
Rest(g, q, o) ==
  /\ q \in [0..(N - 2) -> Node]
  /\ \A k \in 0..(N - 2) : q[k] # o
  /\ \A x \in Node \ {o} : \E k \in 0..(N - 2) : q[k] = x
  /\ \A i, k \in 0..(N - 2) : i < k => Before(g, q[i], q[k])
  /\ \A k \in 0..(N - 2) : IF k < g.bufferCnt - 1 THEN g.value[q[k]] \in Samples
                          ELSE g.value[q[k]] = Infinity

\* While the filter fills up, the oldest node comes right after the samples.
LEMMA OldestPlace ==
  ASSUME NEW f \in Filter, NEW p, InOrder(f, p), NEW j \in Pos, p[j] = f.ageHead,
         f.bufferCnt < N => f.value[f.ageHead] = Infinity
  PROVE  f.bufferCnt < N => j = f.bufferCnt
<1> SUFFICES ASSUME f.bufferCnt < N PROVE j = f.bufferCnt
  OBVIOUS
<1> DEFINE c == f.bufferCnt
<1>1. c \in Pos /\ f.ageHead \in Node /\ p \in [Pos -> Node] /\ f.value[p[j]] = Infinity
  <2>1. c \in Pos /\ f.ageHead \in Node
    BY DEF Filter, Pos
  <2>2. p \in [Pos -> Node]
    BY DEF InOrder, Circle, Pos
  <2> QED BY <2>1, <2>2
<1>2. ~(j < c)
  BY <1>1 DEF InOrder, Filled
<1>3. ~(c < j)
  <2>1. SUFFICES ASSUME c < j PROVE FALSE
    OBVIOUS
  <2>2. Before(f, p[c], p[j])
    BY <1>1, <2>1 DEF InOrder, Sorted
  <2>3. f.value[p[c]] = Infinity
    <3>1. Filled(f, p) /\ c \in Pos /\ ~(c < f.bufferCnt)
      BY <1>1 DEF InOrder, Pos
    <3> QED BY <3>1 DEF Filled
  <2>4. Age(f.ageHead, p[c]) \in 0..(N - 1) /\ Age(f.ageHead, p[j]) = 0
    BY <1>1, Older
  <2>5. ~(Age(f.ageHead, p[c]) < 0)
    BY <2>4
  <2>6. f.value[p[c]] = f.value[p[j]] /\ ~(f.value[p[c]] < f.value[p[j]])
    BY <1>1, <2>3
  <2> QED BY <2>2, <2>4, <2>5, <2>6 DEF Before
<1> QED BY <1>1, <1>2, <1>3 DEF Pos

\* The other nodes stay in order.
LEMMA TakenOrder ==
  ASSUME NEW f \in Filter, NEW p, InOrder(f, p), NEW j \in Pos, p[j] = f.ageHead,
         f.bufferCnt < N => f.value[f.ageHead] = Infinity, NEW s \in Samples
  PROVE  Rest(Taken(f, s), Without(p, j), f.ageHead)
<1> DEFINE g == Taken(f, s)
           o == f.ageHead
           q == Without(p, j)
<1>1. /\ g.value = [f.value EXCEPT ![o] = s] /\ g.ageHead = Successor(o)
      /\ g.bufferCnt = IF f.bufferCnt < N THEN f.bufferCnt + 1 ELSE f.bufferCnt
      /\ f.value \in [Node -> Samples \cup {Infinity}] /\ o \in Node /\ f.bufferCnt \in 0..N
  BY TakenFields DEF Filter
<1>2. /\ p \in [Pos -> Node] /\ (\A i, k \in Pos : p[i] = p[k] => i = k)
      /\ \A x \in Node : \E k \in Pos : p[k] = x
  BY DEF InOrder, Circle, Pos
<1>3. \A k \in 0..(N - 2) : /\ k \in Pos /\ k + 1 \in Pos
                            /\ k < j => q[k] = p[k]
                            /\ k >= j => q[k] = p[k + 1]
  BY DEF Pos, Without
<1>4. q \in [0..(N - 2) -> Node]
  BY <1>2, <1>3 DEF Without
<1> HIDE DEF g, q
<1>5. \A k \in 0..(N - 2) : q[k] # o
  BY <1>2, <1>3 DEF Pos
<1>6. ASSUME NEW x \in Node \ {o} PROVE \E k \in 0..(N - 2) : q[k] = x
  <2>1. PICK k \in Pos : p[k] = x /\ k # j
    BY <1>2
  <2>2. CASE k < j
    BY <1>3, <2>1, <2>2 DEF Pos
  <2>3. CASE k > j
    <3>1. k - 1 \in 0..(N - 2) /\ k - 1 >= j /\ k - 1 + 1 = k
      BY <2>3 DEF Pos
    <3> QED BY <1>3, <2>1, <3>1
  <2> QED BY <2>1, <2>2, <2>3 DEF Pos
<1>7. ASSUME NEW i \in 0..(N - 2), NEW k \in 0..(N - 2), i < k PROVE Before(g, q[i], q[k])
  <2>1. Before(f, q[i], q[k])
    <3> DEFINE a == IF i < j THEN i ELSE i + 1
               b == IF k < j THEN k ELSE k + 1
    <3>1. a \in Pos /\ b \in Pos /\ a < b /\ q[i] = p[a] /\ q[k] = p[b]
      BY <1>3, <1>7 DEF Pos
    <3> HIDE DEF a, b
    <3> QED BY <3>1 DEF InOrder, Sorted
  <2>2. q[i] \in Node /\ q[k] \in Node /\ q[i] # o /\ q[k] # o
    BY <1>4, <1>5
  <2>3. g.value[q[i]] = f.value[q[i]] /\ g.value[q[k]] = f.value[q[k]]
    BY <1>1, <2>2
  <2>4. /\ Age(g.ageHead, q[i]) = Age(o, q[i]) - 1 /\ Age(o, q[i]) \in Int
        /\ Age(g.ageHead, q[k]) = Age(o, q[k]) - 1 /\ Age(o, q[k]) \in Int
    BY <1>1, <2>2, Older
  <2> QED BY <2>1, <2>3, <2>4 DEF Before
<1>8. ASSUME NEW k \in 0..(N - 2)
      PROVE  IF k < g.bufferCnt - 1 THEN g.value[q[k]] \in Samples
             ELSE g.value[q[k]] = Infinity
  <2>1. g.value[q[k]] = f.value[q[k]]
    BY <1>1, <1>4, <1>5
  <2>2. \A i \in Pos : IF i < f.bufferCnt THEN f.value[p[i]] \in Samples
                      ELSE f.value[p[i]] = Infinity
    BY DEF InOrder, Filled
  <2>3. CASE f.bufferCnt < N
    <3>1. j = f.bufferCnt /\ g.bufferCnt - 1 = j
      BY <1>1, <2>3, OldestPlace
    <3>2. k < j \/ (k >= j /\ ~(k + 1 < j))
      BY DEF Pos
    <3> QED BY <1>3, <2>1, <2>2, <3>1, <3>2
  <2>4. CASE f.bufferCnt = N
    <3>1. k < g.bufferCnt - 1 /\ \A i \in Pos : i < f.bufferCnt
      BY <1>1, <2>4 DEF Pos
    <3>2. k < j \/ k >= j
      BY DEF Pos
    <3> QED BY <1>3, <2>1, <2>2, <3>1, <3>2
  <2> QED BY <1>1, <2>3, <2>4
<1> QED BY <1>4, <1>5, <1>6, <1>7, <1>8 DEF Rest, g, q

\* The first node that is larger, or the place after the samples.
LEMMA PositionIs ==
  ASSUME NEW g \in Filter, NEW o, NEW q, Circle(g, q, N - 1), Rest(g, q, o), g.bufferCnt > 0,
         NEW s \in Samples
  PROVE  LET i == Position(g, s)
         IN  /\ i \in 0..(g.bufferCnt - 1)
             /\ \A k \in 0..(N - 2) : k < i => g.value[q[k]] <= s
             /\ i \in 0..(N - 2) => s < g.value[q[i]]
<1> DEFINE c == g.bufferCnt
           Larger(i) == i = c - 1 \/ s < g.value[Nth(g, i)]
           Smaller(i) == \A k \in 0..(i - 1) : s >= g.value[Nth(g, k)]
           i == Position(g, s)
           T == {k \in 0..(c - 1) : Larger(k)}
<1>1. c \in 1..N /\ g.value \in [Node -> Samples \cup {Infinity}] /\ s \in Int
  BY DEF Filter
<1>2. \A k \in 0..(N - 2) : Nth(g, k) = q[k] /\ q[k] \in Node
  <2>1. \A k \in 0..(N - 2) : k \in 0..(N - 1) /\ k # N - 1
    OBVIOUS
  <2>2. N - 1 \in 1..N
    OBVIOUS
  <2> QED BY <2>1, <2>2, NthIs DEF Rest
<1>3. \E k \in 0..(c - 1) : Larger(k) /\ Smaller(k)
  <2>1. PICK k \in T : \A y \in T : k <= y
    <3>1. c - 1 \in T /\ T \in SUBSET Nat
      BY <1>1
    <3> HIDE DEF T
    <3> QED BY <3>1, LeastNat
  <2>2. ASSUME NEW y \in 0..(k - 1) PROVE s >= g.value[Nth(g, y)]
    <3>1. y \in 0..(c - 1) /\ y \in 0..(N - 2) /\ y < k /\ y \notin T
      BY <1>1, <2>1
    <3>2. ~(s < g.value[Nth(g, y)])
      BY <3>1
    <3>3. g.value[Nth(g, y)] \in Int
      BY <1>1, <1>2, <3>1
    <3> QED BY <1>1, <3>2, <3>3
  <2> QED BY <2>1, <2>2
<1>4. i \in 0..(c - 1) /\ Larger(i) /\ Smaller(i)
  BY <1>3 DEF Position
<1> HIDE DEF i
<1>5. ASSUME NEW k \in 0..(N - 2), k < i PROVE g.value[q[k]] <= s
  <2>1. k \in 0..(i - 1)
    BY <1>1, <1>4, <1>5
  <2>2. g.value[q[k]] \in Int /\ s >= g.value[q[k]]
    BY <1>1, <1>2, <1>4, <2>1
  <2> QED BY <1>1, <2>2
<1>6. ASSUME i \in 0..(N - 2) PROVE s < g.value[q[i]]
  <2>1. CASE i = c - 1
    <3>1. g.value[q[i]] = Infinity
      BY <1>1, <1>6, <2>1 DEF Rest
    <3> QED BY <3>1
  <2>2. CASE i # c - 1
    BY <1>2, <1>4, <1>6, <2>2
  <2> QED BY <2>1, <2>2
<1> QED BY <1>4, <1>5, <1>6 DEF i

\* With the new sample between the ones that are not larger and the larger ones, the
\* order holds again: its node is the youngest.
LEMMA WithOrder ==
  ASSUME NEW g \in Filter, NEW q, NEW o \in Node, Rest(g, q, o), g.bufferCnt > 0,
         NEW s \in Samples, g.value[o] = s, Age(g.ageHead, o) = N - 1,
         NEW i \in 0..(g.bufferCnt - 1),
         \A k \in 0..(N - 2) : k < i => g.value[q[k]] <= s,
         i \in 0..(N - 2) => s < g.value[q[i]]
  PROVE  /\ Sorted(g, With(q, i, o)) /\ Filled(g, With(q, i, o))
         /\ \A x \in Node : \E k \in Pos : With(q, i, o)[k] = x
<1> DEFINE r == With(q, i, o)
           c == g.bufferCnt
<1>1. /\ c \in 1..N /\ g.value \in [Node -> Samples \cup {Infinity}] /\ s \in Int /\ i \in Pos
      /\ g.ageHead \in Node
  BY DEF Filter, Pos
<1>2. \A k \in Pos : /\ k < i => k \in 0..(N - 2) /\ r[k] = q[k]
                     /\ k = i => r[k] = o
                     /\ k > i => k - 1 \in 0..(N - 2) /\ r[k] = q[k - 1]
  BY <1>1 DEF Pos, With
<1>3. \A k \in 0..(N - 2) : q[k] \in Node /\ q[k] # o /\ g.value[q[k]] \in Int
                            /\ Age(g.ageHead, q[k]) \in 0..(N - 2)
  <2>1. ASSUME NEW k \in 0..(N - 2) PROVE Age(g.ageHead, q[k]) \in 0..(N - 2)
    <3>1. q[k] \in Node /\ q[k] # o
      BY DEF Rest
    <3>2. Age(g.ageHead, q[k]) # Age(g.ageHead, o)
      BY <1>1, <3>1, SameAge
    <3> QED BY <1>1, <3>1, <3>2, Older
  <2> QED BY <1>1, <2>1 DEF Rest
<1> HIDE DEF r
<1>4. ASSUME NEW a \in Pos, NEW k \in Pos, a < k PROVE Before(g, r[a], r[k])
  <2>1. CASE k < i
    <3>1. a < i
      BY <1>1, <1>4, <2>1 DEF Pos
    <3> QED BY <1>2, <1>4, <2>1, <3>1 DEF Rest
  <2>2. CASE k = i
    <3>1. a \in 0..(N - 2) /\ r[a] = q[a] /\ r[k] = o /\ g.value[q[a]] <= s
      BY <1>2, <1>4, <2>2
    <3>2. Age(g.ageHead, q[a]) < Age(g.ageHead, o)
      BY <1>3, <3>1
    <3> QED BY <1>1, <1>3, <3>1, <3>2 DEF Before
  <2>3. CASE a = i
    <3>1. k - 1 \in 0..(N - 2) /\ r[k] = q[k - 1] /\ r[a] = o /\ i \in 0..(N - 2) /\ i <= k - 1
      BY <1>1, <1>2, <1>4, <2>3 DEF Pos
    <3>2. s < g.value[q[i]]
      BY <3>1
    <3>3. g.value[q[i]] <= g.value[q[k - 1]]
      <4>1. CASE i = k - 1
        BY <1>3, <3>1, <4>1
      <4>2. CASE i < k - 1
        <5>1. Before(g, q[i], q[k - 1])
          BY <3>1, <4>2 DEF Rest
        <5> QED BY <1>3, <3>1, <5>1 DEF Before
      <4> QED BY <3>1, <4>1, <4>2
    <3> QED BY <1>1, <1>3, <3>1, <3>2, <3>3 DEF Before
  <2>4. CASE a < i /\ k > i
    <3>1. /\ a \in 0..(N - 2) /\ r[a] = q[a] /\ k - 1 \in 0..(N - 2) /\ r[k] = q[k - 1]
          /\ a < k - 1
      BY <1>1, <1>2, <2>4 DEF Pos
    <3> QED BY <3>1 DEF Rest
  <2>5. CASE a > i
    <3>1. /\ a - 1 \in 0..(N - 2) /\ r[a] = q[a - 1] /\ k - 1 \in 0..(N - 2)
          /\ r[k] = q[k - 1] /\ a - 1 < k - 1
      BY <1>1, <1>2, <1>4, <2>5 DEF Pos
    <3> QED BY <3>1 DEF Rest
  <2> QED BY <1>1, <1>4, <2>1, <2>2, <2>3, <2>4, <2>5 DEF Pos
<1>5. ASSUME NEW k \in Pos PROVE IF k < c THEN g.value[r[k]] \in Samples ELSE g.value[r[k]] = Infinity
  <2>1. CASE k < i
    <3>1. k \in 0..(N - 2) /\ r[k] = q[k] /\ k < c - 1 /\ k < c
      BY <1>1, <1>2, <2>1 DEF Pos
    <3> QED BY <3>1 DEF Rest
  <2>2. CASE k = i
    BY <1>1, <1>2, <2>2 DEF Pos
  <2>3. CASE k > i
    <3>1. k - 1 \in 0..(N - 2) /\ r[k] = q[k - 1] /\ (k - 1 < c - 1 <=> k < c)
      BY <1>1, <1>2, <2>3 DEF Pos
    <3> QED BY <3>1 DEF Rest
  <2> QED BY <1>1, <2>1, <2>2, <2>3 DEF Pos
<1>6. ASSUME NEW x \in Node PROVE \E k \in Pos : r[k] = x
  <2>1. CASE x = o
    BY <1>1, <1>2, <2>1
  <2>2. CASE x # o
    <3>1. PICK k \in 0..(N - 2) : q[k] = x
      BY <2>2 DEF Rest
    <3>2. CASE k < i
      BY <1>2, <3>1, <3>2 DEF Pos
    <3>3. CASE k >= i
      <4>1. k + 1 \in Pos /\ k + 1 > i /\ k + 1 - 1 = k
        BY <1>1, <3>3 DEF Pos
      <4> QED BY <1>2, <3>1, <4>1
    <3> QED BY <1>1, <3>2, <3>3 DEF Pos
  <2> QED BY <2>1, <2>2
<1> QED BY <1>4, <1>5, <1>6 DEF Sorted, Filled, r

-----------------------------------------------------------------------------
(* The median moves                                                          *)

\* The halves of counts that differ by one.
LEMMA Halves ==
  /\ N = 2 * (N \div 2) + 1 /\ N \div 2 \in Nat
  /\ \A c \in Nat : /\ c \div 2 \in Nat
                    /\ c = 2 * (c \div 2) \/ c = 2 * (c \div 2) + 1
                    /\ c % 2 # 0 <=> c = 2 * (c \div 2) + 1
<1>1. N = 2 * (N \div 2) + 1 /\ N \div 2 \in Nat
  BY FilterAssumption
<1>2. ASSUME NEW c \in Nat
      PROVE  /\ c \div 2 \in Nat
             /\ c = 2 * (c \div 2) \/ c = 2 * (c \div 2) + 1
             /\ c % 2 # 0 <=> c = 2 * (c \div 2) + 1
  OBVIOUS
<1> QED BY <1>1, <1>2

\* Where the median is among the nodes that are left: on the lower side of the
\* middle once the filter is full, or becomes full, and where it was before.
LEMMA TakenMedian ==
  ASSUME NEW f \in Filter, NEW p, InOrder(f, p), NEW j \in Pos, p[j] = f.ageHead,
         f.bufferCnt < N => f.value[f.ageHead] = Infinity, NEW s \in Samples
  PROVE  LET m == Taken(f, s).medianHead
             q == Without(p, j)
             c == f.bufferCnt
         IN  /\ c >= N - 1 => m = q[N \div 2 - 1]
             /\ 0 < c /\ c < N - 1 => m = q[c \div 2]
             /\ c = 0 => m = f.ageHead
<1> DEFINE o == f.ageHead
           c == f.bufferCnt
           h == f.medianHead
           m == Taken(f, s).medianHead
           q == Without(p, j)
           M == N \div 2
<1>1. m = IF Corrects(f) THEN f.prevValue[h] ELSE h
  BY TakenFields
<1>2. /\ f.value \in [Node -> Samples \cup {Infinity}] /\ o \in Node /\ c \in 0..N
      /\ h = p[c \div 2] /\ (c < N => j = c)
  BY OldestPlace DEF Filter, InOrder
<1>3. /\ p \in [Pos -> Node] /\ (\A i, k \in Pos : p[i] = p[k] => i = k)
      /\ \A k \in Pos : f.prevValue[p[After(k, N)]] = p[k]
  BY DEF InOrder, Circle, Pos
<1>4. \A k \in 0..(N - 2) : /\ k < j => q[k] = p[k]
                            /\ k >= j => q[k] = p[k + 1]
  BY DEF Without, Pos
<1>5. M \in 1..(N - 2) /\ M - 1 \in 0..(N - 2) /\ M \in Pos /\ M - 1 \in Pos /\ After(M - 1, N) = M
  BY Halves DEF Pos, After
<1> HIDE DEF q, m, M
<1>6. CASE c >= N - 1
  <2>1. c \div 2 = M
    BY <1>2, <1>6, Halves DEF M
  <2>2. h = p[M] /\ f.prevValue[h] = p[M - 1]
    BY <1>2, <1>3, <1>5, <2>1
  <2>3. CASE j < M
    <3>1. Before(f, o, h)
      BY <1>5, <2>2, <2>3 DEF InOrder, Sorted
    <3>2. ~(f.value[o] > f.value[h]) /\ o # h
      <4>1. o # h
        <5>1. j # M
          BY <1>5, <2>3 DEF Pos
        <5> QED BY <1>3, <1>5, <2>2, <5>1
      <4>2. f.value[o] \in Int /\ f.value[h] \in Int
        <5>1. h \in Node
          BY <1>3, <1>5, <2>2
        <5> QED BY <1>2, <5>1
      <4> QED BY <3>1, <4>1, <4>2 DEF Before
    <3>3. m = h
      BY <1>1, <3>2 DEF Corrects
    <3>4. q[M - 1] = p[M - 1 + 1] /\ M - 1 + 1 = M
      BY <1>4, <1>5, <2>3 DEF Pos
    <3> QED BY <1>2, <1>6, <2>2, <3>3, <3>4 DEF m, M, q
  <2>4. CASE j >= M
    <3>1. Corrects(f)
      <4>1. CASE j = M
        <5>1. o = h /\ f.bufferCnt + 1 >= N
          BY <1>2, <1>6, <2>2, <4>1
        <5> QED BY <5>1 DEF Corrects
      <4>2. CASE j > M
        <5>1. Before(f, h, o)
          BY <1>5, <2>2, <4>2 DEF InOrder, Sorted
        <5>2. h \in Node /\ Age(o, h) \in 0..(N - 1) /\ Age(o, o) = 0
          BY <1>2, <1>3, <1>5, <2>2, Older
        <5>3. f.value[h] < f.value[o]
          BY <5>1, <5>2 DEF Before
        <5> QED BY <1>2, <1>6, <5>2, <5>3 DEF Corrects
      <4> QED BY <1>5, <2>4, <4>1, <4>2 DEF Pos
    <3>2. m = p[M - 1]
      BY <1>1, <2>2, <3>1
    <3>3. q[M - 1] = p[M - 1]
      BY <1>4, <1>5, <2>4 DEF Pos
    <3> QED BY <1>2, <1>6, <3>2, <3>3 DEF m, M, q
  <2> QED BY <1>5, <2>3, <2>4 DEF Pos
<1>7. CASE c < N - 1
  <2>1. m = h /\ j = c
    BY <1>1, <1>2, <1>7 DEF Corrects
  <2>2. CASE c = 0
    <3>1. c \div 2 = c
      BY <2>2, Halves
    <3> QED BY <1>2, <1>7, <2>1, <2>2, <3>1 DEF m
  <2>3. CASE c > 0
    <3>1. c \div 2 \in 0..(N - 2) /\ c \div 2 < j
      BY <1>2, <1>7, <2>1, <2>3, Halves
    <3>2. q[c \div 2] = p[c \div 2]
      BY <1>4, <3>1
    <3> QED BY <1>2, <1>7, <2>1, <2>3, <3>2 DEF m, q
  <2> QED BY <1>2, <2>2, <2>3
<1> QED BY <1>2, <1>6, <1>7 DEF m, M, q

\* The last step of the insertion puts the median in the middle.
LEMMA AdjustIs ==
  ASSUME NEW g \in Filter, NEW q, NEW o, NEW i \in 0..(g.bufferCnt - 1),
         Circle(g, With(q, i, o), N),
         g.bufferCnt = N => g.medianHead = q[N \div 2 - 1],
         1 < g.bufferCnt /\ g.bufferCnt < N => g.medianHead = q[(g.bufferCnt - 1) \div 2],
         g.bufferCnt = 1 => g.medianHead = o
  PROVE  LET a == Adjust(g, i)
         IN  /\ a \in Filter
             /\ a.medianHead = With(q, i, o)[g.bufferCnt \div 2]
             /\ a.value = g.value /\ a.nextValue = g.nextValue /\ a.prevValue = g.prevValue
             /\ a.ageHead = g.ageHead /\ a.valueHead = g.valueHead
             /\ a.bufferCnt = g.bufferCnt
<1> DEFINE c == g.bufferCnt
           M == c \div 2
           r == With(q, i, o)
           odd  == c < N /\ c % 2 # 0
           back == IF odd /\ c # 1 THEN g.prevValue[g.medianHead] ELSE g.medianHead
           up   == IF odd THEN i > M ELSE i >= M
           h    == IF up THEN g.nextValue[back] ELSE back
<1>1. c \in 1..N /\ i \in 0..(c - 1) /\ M \in 0..(N - 1) /\ M <= c - 1
  BY Halves DEF Filter
<1>2. \A k \in Pos : /\ k < i => r[k] = q[k]
                     /\ k = i => r[k] = o
                     /\ k > i => r[k] = q[k - 1]
  BY <1>1 DEF With, Pos
<1>3. \A k \in Pos : k + 1 \in Pos => g.nextValue[r[k]] = r[k + 1] /\ g.prevValue[r[k + 1]] = r[k]
  <2>1. \A k \in Pos : k + 1 \in Pos => After(k, N) = k + 1
    BY DEF After, Pos
  <2> QED BY <2>1 DEF Circle, Pos
<1>4. r \in [Pos -> Node]
  BY DEF Circle, Pos
<1> HIDE DEF r
<1>5. h = r[M]
  <2>1. CASE c = 1
    <3>1. M = 0 /\ i = 0 /\ 0 \in Pos /\ odd
      BY <1>1, <2>1, Halves DEF Pos
    <3> HIDE DEF M
    <3> QED BY <1>2, <2>1, <3>1
  <2>2. CASE odd /\ c # 1
    <3>1. M >= 1 /\ M = (c - 1) \div 2 /\ M + 1 \in Pos /\ M - 1 \in Pos /\ M \in Pos
      BY <1>1, <2>2, Halves DEF Pos
    <3> HIDE DEF M
    <3>2. g.medianHead = q[M] /\ back = g.prevValue[q[M]]
      BY <1>1, <2>2, <3>1
    <3>3. CASE i > M
      <4>1. r[M] = q[M] /\ back = r[M - 1] /\ h = g.nextValue[back]
        BY <1>2, <1>3, <2>2, <3>1, <3>2, <3>3 DEF Pos
      <4> QED BY <1>3, <3>1, <4>1 DEF Pos
    <3>4. CASE i <= M
      <4>1. r[M + 1] = q[M]
        BY <1>1, <1>2, <3>1, <3>4 DEF Pos
      <4>2. back = r[M] /\ ~up
        BY <1>1, <1>3, <2>2, <3>1, <3>2, <3>4, <4>1 DEF Pos
      <4> QED BY <4>2
    <3> QED BY <1>1, <3>1, <3>3, <3>4 DEF Pos
  <2>3. CASE ~odd
    <3>1. M >= 1 /\ M - 1 \in Pos /\ M \in Pos /\ c # 1 /\ (c < N => M - 1 = (c - 1) \div 2)
      BY <1>1, <2>3, Halves DEF Pos
    <3>2. c = N => M = N \div 2
      OBVIOUS
    <3> HIDE DEF M
    <3>3. g.medianHead = q[M - 1] /\ back = g.medianHead
      BY <1>1, <2>3, <3>1, <3>2
    <3>4. CASE i >= M
      <4>1. r[M - 1] = q[M - 1] /\ h = g.nextValue[back]
        BY <1>1, <1>2, <2>3, <3>1, <3>4 DEF Pos
      <4> QED BY <1>3, <3>1, <3>3, <4>1 DEF Pos
    <3>5. CASE i < M
      <4>1. r[M] = q[M - 1] /\ ~up
        BY <1>1, <1>2, <2>3, <3>1, <3>5 DEF Pos
      <4> QED BY <3>3, <4>1
    <3> QED BY <1>1, <3>1, <3>4, <3>5 DEF Pos
  <2> QED BY <2>1, <2>2, <2>3
<1>6. h \in Node
  BY <1>1, <1>4, <1>5 DEF Pos
<1>7. Adjust(g, i) = [g EXCEPT !.medianHead = h]
  BY DEF Adjust
<1> HIDE DEF h
<1>8. LET a == [g EXCEPT !.medianHead = h]
      IN  /\ a \in Filter
          /\ a.medianHead = h
          /\ a.value = g.value /\ a.nextValue = g.nextValue /\ a.prevValue = g.prevValue
          /\ a.ageHead = g.ageHead /\ a.valueHead = g.valueHead /\ a.bufferCnt = g.bufferCnt
  BY <1>6 DEF Filter
<1> QED BY <1>5, <1>7, <1>8 DEF r

-----------------------------------------------------------------------------
(* The whole insertion                                                       *)

\* The new sample s is in node o, and the ring q of the other nodes is in order.
Ready(g, q, o, s) ==
  LET c == g.bufferCnt
  IN  /\ Circle(g, q, N - 1) /\ Rest(g, q, o) /\ c > 0
      /\ g.value[o] = s /\ Age(g.ageHead, o) = N - 1
      /\ c = N => g.medianHead = q[N \div 2 - 1]
      /\ 1 < c /\ c < N => g.medianHead = q[(c - 1) \div 2]
      /\ c = 1 => g.medianHead = o

\* The second half of MEDIANFILTER_Insert.
LEMMA PutOrder ==
  ASSUME NEW g \in Filter, NEW q, NEW o \in Node, NEW s \in Samples, Ready(g, q, o, s),
         NEW i \in Pos, i = Position(g, s)
  PROVE  /\ Adjust(Link(g, o, i), i) \in Filter
         /\ InOrder(Adjust(Link(g, o, i), i), With(q, i, o))
         /\ Adjust(Link(g, o, i), i).value = g.value
         /\ Adjust(Link(g, o, i), i).ageHead = g.ageHead
         /\ Adjust(Link(g, o, i), i).bufferCnt = g.bufferCnt
<1> DEFINE l == Link(g, o, i)
           r == With(q, i, o)
           e == Adjust(l, i)
<1>1. /\ Circle(g, q, N - 1) /\ Rest(g, q, o) /\ g.bufferCnt > 0
      /\ g.value[o] = s /\ Age(g.ageHead, o) = N - 1
  BY DEF Ready
<1>2. /\ i \in 0..(g.bufferCnt - 1)
      /\ \A k \in 0..(N - 2) : k < i => g.value[q[k]] <= s
      /\ i \in 0..(N - 2) => s < g.value[q[i]]
  BY <1>1, PositionIs
<1>3. /\ Sorted(g, r) /\ Filled(g, r)
      /\ \A x \in Node : \E k \in Pos : r[k] = x
  <2>1. Rest(g, q, o) /\ g.bufferCnt > 0 /\ g.value[o] = s /\ Age(g.ageHead, o) = N - 1
    BY <1>1
  <2> QED BY <1>2, <2>1, WithOrder
<1>4. Circle(l, r, N) /\ Nth(g, i) \in Node
  BY <1>1, LinkCircle DEF Rest
<1>5. /\ l \in Filter /\ l.value = g.value /\ l.ageHead = g.ageHead
      /\ l.medianHead = g.medianHead /\ l.bufferCnt = g.bufferCnt
  BY <1>4, LinkFields
<1> HIDE DEF l
<1>6. /\ e \in Filter /\ e.medianHead = r[l.bufferCnt \div 2]
      /\ e.value = l.value /\ e.nextValue = l.nextValue /\ e.prevValue = l.prevValue
      /\ e.ageHead = l.ageHead /\ e.valueHead = l.valueHead /\ e.bufferCnt = l.bufferCnt
  <2>1. i \in 0..(l.bufferCnt - 1)
    BY <1>2, <1>5
  <2>2. /\ l.bufferCnt = N => l.medianHead = q[N \div 2 - 1]
        /\ 1 < l.bufferCnt /\ l.bufferCnt < N => l.medianHead = q[(l.bufferCnt - 1) \div 2]
        /\ l.bufferCnt = 1 => l.medianHead = o
    BY <1>5 DEF Ready
  <2> QED BY <1>4, <1>5, <2>1, <2>2, AdjustIs
<1> HIDE DEF r, e
<1>7. InOrder(e, r)
  <2>1. Circle(e, r, N)
    BY <1>4, <1>6 DEF Circle
  <2>2. Sorted(e, r) /\ Filled(e, r)
    BY <1>3, <1>5, <1>6 DEF Sorted, Before, Filled
  <2> QED BY <1>3, <1>6, <2>1, <2>2 DEF InOrder
<1> QED BY <1>5, <1>6, <1>7 DEF l, r, e

\* The first half.
LEMMA TakenReady ==
  ASSUME NEW f \in Filter, NEW p, InOrder(f, p), NEW s \in Samples,
         f.bufferCnt < N => f.value[f.ageHead] = Infinity,
         NEW o \in Node, o = f.ageHead, NEW j \in Pos, p[j] = o
  PROVE  Ready(Taken(f, s), Without(p, j), o, s)
<1> DEFINE g == Taken(f, s)
           q == Without(p, j)
           b == f.bufferCnt
           c == g.bufferCnt
<1>1. b \in 0..N /\ f.value \in [Node -> Samples \cup {Infinity}]
  BY DEF Filter
<1>2. /\ g \in Filter /\ g.value = [f.value EXCEPT ![o] = s] /\ g.ageHead = Successor(o)
      /\ c = IF b < N THEN b + 1 ELSE b
  <2>1. /\ g \in Filter /\ g.value = [f.value EXCEPT ![f.ageHead] = s]
        /\ g.ageHead = Successor(f.ageHead) /\ c = IF b < N THEN b + 1 ELSE b
    BY TakenFields
  <2> HIDE DEF g
  <2> QED BY <2>1
<1>3. Circle(g, q, N - 1)
  BY TakenCircle DEF InOrder
<1>4. Rest(g, q, o)
  BY TakenOrder
<1>5. /\ b >= N - 1 => g.medianHead = q[N \div 2 - 1]
      /\ 0 < b /\ b < N - 1 => g.medianHead = q[b \div 2]
      /\ b = 0 => g.medianHead = o
  BY TakenMedian
<1> HIDE DEF g, q
<1>6. c > 0
  BY <1>1, <1>2
<1>7. /\ c = N => g.medianHead = q[N \div 2 - 1]
      /\ 1 < c /\ c < N => g.medianHead = q[(c - 1) \div 2]
      /\ c = 1 => g.medianHead = o
  <2>1. c = N => b >= N - 1
    BY <1>1, <1>2
  <2>2. 1 < c /\ c < N => b = c - 1 /\ 0 < b /\ b < N - 1
    BY <1>1, <1>2
  <2>3. c = 1 => b = 0
    BY <1>1, <1>2
  <2> QED BY <1>5, <2>1, <2>2, <2>3
<1>8. g.value[o] = s
  BY <1>1, <1>2
<1>9. Age(g.ageHead, o) = N - 1
  BY <1>2, Older
<1> QED BY <1>3, <1>4, <1>6, <1>7, <1>8, <1>9 DEF Ready, g, q

\* MEDIANFILTER_Insert keeps the order, with the median in the middle.
LEMMA InsertOrder ==
  ASSUME NEW f \in Filter, NEW p, InOrder(f, p), NEW s \in Samples,
         f.bufferCnt < N => f.value[f.ageHead] = Infinity
  PROVE  /\ Insert(f, s) \in Filter
         /\ \E r : InOrder(Insert(f, s), r)
         /\ Insert(f, s).value = [f.value EXCEPT ![f.ageHead] = s]
         /\ Insert(f, s).ageHead = Successor(f.ageHead)
         /\ Insert(f, s).bufferCnt = IF f.bufferCnt < N THEN f.bufferCnt + 1 ELSE f.bufferCnt
<1> DEFINE g == Taken(f, s)
<1>1. PICK o \in Node : o = f.ageHead
  BY DEF Filter
<1>2. PICK j \in Pos : p[j] = o
  BY DEF InOrder
<1> DEFINE q == Without(p, j)
<1>3. /\ g \in Filter /\ g.value = [f.value EXCEPT ![o] = s] /\ g.ageHead = Successor(o)
      /\ g.bufferCnt = IF f.bufferCnt < N THEN f.bufferCnt + 1 ELSE f.bufferCnt
  BY <1>1, TakenFields
<1>4. Ready(g, q, o, s)
  BY <1>1, <1>2, TakenReady
<1>5. Insert(f, s) = Adjust(Link(g, o, Position(g, s)), Position(g, s))
  BY <1>1 DEF Insert, Taken
<1> HIDE DEF g, q
<1>6. PICK i \in Pos : i = Position(g, s)
  <2>1. g \in Filter /\ g.bufferCnt \in 0..N
    BY <1>3 DEF Filter
  <2>2. Circle(g, q, N - 1) /\ Rest(g, q, o) /\ g.bufferCnt > 0
    BY <1>4 DEF Ready
  <2>3. Position(g, s) \in 0..(g.bufferCnt - 1)
    BY <2>1, <2>2, PositionIs
  <2> QED BY <2>1, <2>3 DEF Pos
<1> DEFINE e == Adjust(Link(g, o, i), i)
<1>7. /\ e \in Filter /\ InOrder(e, With(q, i, o))
      /\ e.value = g.value /\ e.ageHead = g.ageHead /\ e.bufferCnt = g.bufferCnt
  <2>1. g \in Filter
    BY <1>3
  <2> QED BY <1>4, <1>6, <2>1, PutOrder
<1>8. Insert(f, s) = e
  BY <1>5, <1>6
<1> HIDE DEF e
<1> QED BY <1>1, <1>3, <1>7, <1>8

-----------------------------------------------------------------------------
(* The samples of the window                                                 *)

\* Each node but the one that is written has the sample it had, in a window that
\* drops its oldest sample for the new one when it is full.
LEMMA InsertRemembers ==
  ASSUME NEW f \in Filter, NEW w \in Seq(Samples), Len(w) <= N, Remembers(f, w),
         NEW s \in Samples, NEW e, e.value = [f.value EXCEPT ![f.ageHead] = s],
         e.ageHead = Successor(f.ageHead)
  PROVE  Remembers(e, Append(IF Len(w) = N THEN Tail(w) ELSE w, s))
<1> DEFINE o == f.ageHead
           v == Append(IF Len(w) = N THEN Tail(w) ELSE w, s)
           d == N - Len(w)
           b == N - Len(v)
<1>1. o \in Node /\ f.value \in [Node -> Samples \cup {Infinity}] /\ Len(w) \in 0..N
  BY DEF Filter
<1>2. CASE Len(w) = N
  <2>1. Len(v) = N /\ v[N] = s /\ \A k \in 1..(N - 1) : v[k] = w[k + 1]
    <3>1. Tail(w) \in Seq(Samples) /\ Len(Tail(w)) = N - 1 /\ \A k \in 1..(N - 1) : Tail(w)[k] = w[k + 1]
      BY <1>2
    <3> DEFINE t == Tail(w)
    <3> HIDE DEF t
    <3>2. Len(Append(t, s)) = N /\ Append(t, s)[N] = s /\ \A k \in 1..(N - 1) : Append(t, s)[k] = t[k]
      BY <3>1 DEF t
    <3> QED BY <1>2, <3>1, <3>2 DEF t
  <2> HIDE DEF v
  <2>2. ASSUME NEW x \in Node
        PROVE  e.value[x] = IF Age(e.ageHead, x) < N - Len(v) THEN Infinity
                            ELSE v[Age(e.ageHead, x) - (N - Len(v)) + 1]
    <3>1. CASE x = o
      <4>1. Age(e.ageHead, x) = N - 1 /\ e.value[x] = s
        BY <1>1, <3>1, Older
      <4> QED BY <2>1, <4>1
    <3>2. CASE x # o
      <4> DEFINE a == Age(o, x)
      <4>1. a \in 1..(N - 1) /\ Age(e.ageHead, x) = a - 1 /\ e.value[x] = f.value[x]
        <5>1. a \in 0..(N - 1) /\ a # 0 /\ Age(Successor(o), x) = a - 1
          BY <1>1, <3>2, Older
        <5>2. e.value[x] = f.value[x]
          BY <1>1, <3>2
        <5> HIDE DEF a
        <5> QED BY <5>1, <5>2
      <4>2. f.value[x] = w[a + 1]
        <5>1. a - 0 = a /\ N - Len(w) = 0 /\ ~(a < 0)
          BY <1>2, <4>1
        <5> HIDE DEF a
        <5>2. f.value[x] = w[a - 0 + 1]
          BY <5>1 DEF Remembers, a
        <5> QED BY <5>1, <5>2
      <4> HIDE DEF a
      <4>3. a - 1 - (N - Len(v)) + 1 = a /\ ~(a - 1 < N - Len(v))
        BY <2>1, <4>1
      <4> QED BY <2>1, <4>1, <4>2, <4>3
    <3> QED BY <3>1, <3>2
  <2> QED BY <2>2 DEF Remembers, v
<1>3. CASE Len(w) < N
  <2>1. Len(v) = Len(w) + 1 /\ v[Len(w) + 1] = s /\ \A k \in 1..Len(w) : v[k] = w[k]
    BY <1>3
  <2> HIDE DEF v
  <2>2. ASSUME NEW x \in Node
        PROVE  e.value[x] = IF Age(e.ageHead, x) < N - Len(v) THEN Infinity
                            ELSE v[Age(e.ageHead, x) - (N - Len(v)) + 1]
    <3>1. CASE x = o
      <4>1. Age(e.ageHead, x) = N - 1 /\ e.value[x] = s
        BY <1>1, <3>1, Older
      <4>2. N - 1 - (N - Len(v)) + 1 = Len(w) + 1 /\ ~(N - 1 < N - Len(v))
        BY <1>1, <1>3, <2>1
      <4> QED BY <2>1, <4>1, <4>2
    <3>2. CASE x # o
      <4> DEFINE a == Age(o, x)
      <4>1. a \in 1..(N - 1) /\ Age(e.ageHead, x) = a - 1 /\ e.value[x] = f.value[x]
        <5>1. a \in 0..(N - 1) /\ a # 0 /\ Age(Successor(o), x) = a - 1
          BY <1>1, <3>2, Older
        <5>2. e.value[x] = f.value[x]
          BY <1>1, <3>2
        <5> HIDE DEF a
        <5> QED BY <5>1, <5>2
      <4>2. f.value[x] = IF a < N - Len(w) THEN Infinity ELSE w[a - (N - Len(w)) + 1]
        BY DEF Remembers
      <4> HIDE DEF a
      <4>3. CASE a < N - Len(w)
        <5>1. a - 1 < N - Len(v)
          BY <1>1, <2>1, <4>1, <4>3
        <5> QED BY <4>1, <4>2, <4>3, <5>1
      <4>4. CASE ~(a < N - Len(w))
        <5>1. /\ ~(a - 1 < N - Len(v)) /\ a - 1 - (N - Len(v)) + 1 = a - (N - Len(w)) + 1
              /\ a - (N - Len(w)) + 1 \in 1..Len(w)
          BY <1>1, <2>1, <4>1, <4>4
        <5>2. v[a - (N - Len(w)) + 1] = w[a - (N - Len(w)) + 1]
          BY <2>1, <5>1
        <5> QED BY <4>1, <4>2, <4>4, <5>1, <5>2
      <4> QED BY <4>3, <4>4
    <3> QED BY <3>1, <3>2
  <2> QED BY <2>2 DEF Remembers, v
<1> QED BY <1>1, <1>2, <1>3

-----------------------------------------------------------------------------
(* The filter and its window                                                 *)

\* Filter f has the samples of window w in order.
Holds(f, w) ==
  /\ f \in Filter /\ w \in Seq(Samples) /\ Len(w) <= N /\ f.bufferCnt = Len(w)
  /\ Remembers(f, w) /\ \E p : InOrder(f, p)

\* MEDIANFILTER_Init makes a ring in order.
LEMMA EmptyHolds == Holds(Empty, <<>>)
<1> DEFINE f == Empty
           p == [k \in Pos |-> k]
<1>1. /\ f.value = [i \in Node |-> Infinity]
      /\ f.nextValue = [i \in Node |-> Successor(i)]
      /\ f.prevValue = [i \in Node |-> (i + N - 1) % N]
      /\ f.ageHead = 0 /\ f.valueHead = 0 /\ f.medianHead = 0 /\ f.bufferCnt = 0
  BY DEF Empty
<1>2. \A i \in Node : (i + N - 1) % N = IF i = 0 THEN N - 1 ELSE i - 1
  BY DEF Node
<1>3. f \in Filter
  <2>1. 0 \in Node /\ 0 \in 0..N
    BY DEF Node
  <2>2. [i \in Node |-> (i + N - 1) % N] \in [Node -> Node]
    BY <1>2 DEF Node
  <2>3. [i \in Node |-> Successor(i)] \in [Node -> Node]
    BY NextNode
  <2> QED BY <2>1, <2>2, <2>3 DEF Empty, Filter
<1>4. Remembers(f, <<>>)
  <2>1. ASSUME NEW x \in Node PROVE f.value[x] = Infinity /\ Age(f.ageHead, x) < N - Len(<<>>)
    BY <1>1, <2>1 DEF Age, Node
  <2> HIDE DEF f
  <2> QED BY <2>1 DEF Remembers
<1>5. InOrder(f, p)
  <2>1. Circle(f, p, N)
    <3>1. \A k \in Pos : k \in Node /\ Successor(k) = After(k, N) /\ After(k, N) \in Pos
      BY NextNode DEF Pos, Node, After
    <3>2. \A k \in Pos : f.nextValue[k] = After(k, N)
      BY <1>1, <3>1
    <3>3. \A k \in Pos : f.prevValue[After(k, N)] = k
      <4>1. ASSUME NEW k \in Pos PROVE f.prevValue[After(k, N)] = k
        <5>1. After(k, N) \in Node
          BY DEF Pos, Node, After
        <5>2. f.prevValue[After(k, N)] = IF After(k, N) = 0 THEN N - 1 ELSE After(k, N) - 1
          BY <1>1, <1>2, <5>1
        <5> QED BY <5>2 DEF Pos, After
      <4> QED BY <4>1
    <3> HIDE DEF f
    <3>4. 0 \in Pos /\ p[0] = f.valueHead
      BY <1>1 DEF Pos
    <3> QED BY <3>1, <3>2, <3>3, <3>4 DEF Circle, Pos
  <2>2. \A x \in Node : \E k \in Pos : p[k] = x
    BY DEF Node, Pos
  <2>3. Sorted(f, p)
    <3>1. ASSUME NEW i \in Pos, NEW k \in Pos, i < k PROVE Before(f, i, k)
      <4>1. i \in Node /\ k \in Node
        BY DEF Pos, Node
      <4>2. Age(0, i) = i /\ Age(0, k) = k
        BY DEF Pos, Age
      <4> QED BY <1>1, <3>1, <4>1, <4>2 DEF Before
    <3> QED BY <3>1 DEF Sorted
  <2>4. Filled(f, p)
    <3>1. ASSUME NEW k \in Pos PROVE ~(k < f.bufferCnt) /\ f.value[p[k]] = Infinity
      BY <1>1 DEF Pos, Node
    <3> QED BY <3>1 DEF Filled
  <2>5. f.medianHead = p[f.bufferCnt \div 2]
    <3>1. 0 \div 2 = 0 /\ 0 \in Pos
      BY DEF Pos
    <3> QED BY <1>1, <3>1
  <2> QED BY <2>1, <2>2, <2>3, <2>4, <2>5 DEF InOrder
<1>6. <<>> \in Seq(Samples) /\ Len(<<>>) = 0
  OBVIOUS
<1> QED BY <1>1, <1>3, <1>4, <1>5, <1>6 DEF Holds

\* What player_latency_insert makes of the window.
Moved(w, s) == Append(IF Len(w) = N THEN Tail(w) ELSE w, s)

\* A full window drops a sample for the new one.
LEMMA MovedWindow ==
  ASSUME NEW w \in Seq(Samples), Len(w) <= N, NEW s \in Samples
  PROVE  Moved(w, s) \in Seq(Samples) /\ Len(Moved(w, s)) = IF Len(w) < N THEN Len(w) + 1 ELSE Len(w)
<1>1. CASE Len(w) = N
  <2> DEFINE t == Tail(w)
  <2>1. t \in Seq(Samples) /\ Len(t) = N - 1
    BY <1>1
  <2> HIDE DEF t
  <2>2. Append(t, s) \in Seq(Samples) /\ Len(Append(t, s)) = N
    BY <2>1
  <2> QED BY <1>1, <2>2 DEF Moved, t
<1>2. CASE Len(w) < N
  <2>1. Moved(w, s) = Append(w, s)
    BY <1>2 DEF Moved
  <2> QED BY <1>2, <2>1
<1> QED BY <1>1, <1>2

\* Whatever the order of the samples, each insertion finds its place.
THEOREM InsertHolds ==
  ASSUME NEW f, NEW w, Holds(f, w), NEW s \in Samples
  PROVE  Holds(Insert(f, s), Moved(w, s))
<1> DEFINE e == Insert(f, s)
<1>1. /\ f \in Filter /\ w \in Seq(Samples) /\ Len(w) <= N /\ f.bufferCnt = Len(w)
      /\ Remembers(f, w) /\ Len(w) \in 0..N /\ f.ageHead \in Node
  BY DEF Holds, Filter
<1>2. PICK p : InOrder(f, p)
  BY DEF Holds
<1>3. f.bufferCnt < N => f.value[f.ageHead] = Infinity
  <2>1. Age(f.ageHead, f.ageHead) = 0
    BY <1>1, Older
  <2>2. Len(w) < N => 0 < N - Len(w)
    BY <1>1
  <2> QED BY <1>1, <2>1, <2>2 DEF Remembers
<1>4. /\ e \in Filter /\ \E r : InOrder(e, r)
      /\ e.value = [f.value EXCEPT ![f.ageHead] = s]
      /\ e.ageHead = Successor(f.ageHead)
      /\ e.bufferCnt = IF f.bufferCnt < N THEN f.bufferCnt + 1 ELSE f.bufferCnt
  BY <1>1, <1>2, <1>3, InsertOrder
<1> HIDE DEF e
<1>5. Remembers(e, Moved(w, s))
  BY <1>1, <1>4, InsertRemembers DEF Moved
<1>6. /\ Moved(w, s) \in Seq(Samples) /\ Len(Moved(w, s)) <= N
      /\ Len(Moved(w, s)) = IF Len(w) < N THEN Len(w) + 1 ELSE Len(w)
  BY <1>1, MovedWindow
<1> QED BY <1>1, <1>4, <1>5, <1>6 DEF Holds, e

-----------------------------------------------------------------------------
(* The middle                                                                *)

\* Each age is some node's.
LEMMA NodeOfAge ==
  ASSUME NEW h \in Node, NEW a \in 0..(N - 1)
  PROVE  \E x \in Node : Age(h, x) = a
<1>1. CASE h + a < N
  <2>1. h + a \in Node /\ Age(h, h + a) = a
    BY <1>1 DEF Age, Node
  <2> QED BY <2>1
<1>2. CASE h + a >= N
  <2>1. h + a - N \in Node /\ Age(h, h + a - N) = a
    BY <1>2 DEF Age, Node
  <2> QED BY <2>1
<1> QED BY <1>1, <1>2 DEF Node

\* How many indices there are below m.
LEMMA Indices ==
  ASSUME NEW m \in Nat
  PROVE  /\ IsFiniteSet(0..(m - 1)) /\ Cardinality(0..(m - 1)) = m
         /\ IsFiniteSet(0..m) /\ Cardinality(0..m) = m + 1
<1>1. \A a, b \in Int : /\ IsFiniteSet(a..b)
                       /\ Cardinality(a..b) = IF a > b THEN 0 ELSE b - a + 1
  BY FS_Interval
<1>2. 0 \in Int /\ m \in Int /\ m - 1 \in Int
  OBVIOUS
<1>3. Cardinality(0..(m - 1)) = IF 0 > m - 1 THEN 0 ELSE (m - 1) - 0 + 1
  BY <1>1, <1>2
<1>4. Cardinality(0..m) = IF 0 > m THEN 0 ELSE m - 0 + 1
  BY <1>1, <1>2
<1> QED BY <1>1, <1>2, <1>3, <1>4

\* The samples of the window by size: place[k] is the index of the k-th.
LEMMA Places ==
  ASSUME NEW f, NEW w, NEW p, Holds(f, w), InOrder(f, p), NEW c \in 1..N, c = Len(w)
  PROVE  \E place \in [0..(c - 1) -> 1..c] :
           /\ \A i, k \in 0..(c - 1) : place[i] = place[k] => i = k
           /\ \A i \in 1..c : \E k \in 0..(c - 1) : place[k] = i
           /\ \A k \in 0..(c - 1) : f.value[p[k]] = w[place[k]]
           /\ \A i, k \in 0..(c - 1) : i <= k => f.value[p[i]] <= f.value[p[k]]
<1> DEFINE h == f.ageHead
           At(x) == Age(h, x) - (N - c) + 1
           place == [k \in 0..(c - 1) |-> At(p[k])]
<1>1. /\ f \in Filter /\ w \in Seq(Samples) /\ h \in Node /\ f.bufferCnt = c
      /\ f.value \in [Node -> Samples \cup {Infinity}]
  BY DEF Holds, Filter
<1>2. /\ p \in [Pos -> Node] /\ (\A i, k \in Pos : p[i] = p[k] => i = k)
      /\ \A k \in 0..(c - 1) : k \in Pos
  BY DEF InOrder, Circle, Pos
<1>3. \A x \in Node : f.value[x] = IF Age(h, x) < N - c THEN Infinity ELSE w[At(x)]
  BY DEF Holds, Remembers
<1>4. \A k \in 0..(c - 1) : f.value[p[k]] \in Samples /\ f.value[p[k]] \in Int
  <2>1. ASSUME NEW k \in 0..(c - 1) PROVE f.value[p[k]] \in Samples
    <3>1. k \in Pos /\ k < f.bufferCnt
      BY <1>1, <1>2
    <3> QED BY <3>1 DEF InOrder, Filled
  <2> QED BY <2>1
<1>5. \A k \in Pos : k \notin 0..(c - 1) => f.value[p[k]] = Infinity
  BY <1>1 DEF InOrder, Filled, Pos
<1>6. ASSUME NEW k \in 0..(c - 1) PROVE At(p[k]) \in 1..c /\ f.value[p[k]] = w[At(p[k])]
  <2>1. p[k] \in Node /\ f.value[p[k]] # Infinity
    BY <1>2, <1>4
  <2>2. Age(h, p[k]) \in 0..(N - 1) /\ ~(Age(h, p[k]) < N - c)
    BY <1>1, <1>3, <2>1, Older
  <2> QED BY <1>3, <2>1, <2>2
<1>7. place \in [0..(c - 1) -> 1..c]
  BY <1>6
<1>8. ASSUME NEW i \in 0..(c - 1), NEW k \in 0..(c - 1), At(p[i]) = At(p[k]) PROVE i = k
  <2>1. /\ p[i] \in Node /\ p[k] \in Node
        /\ Age(h, p[i]) \in 0..(N - 1) /\ Age(h, p[k]) \in 0..(N - 1)
    BY <1>1, <1>2, Older
  <2>2. Age(h, p[i]) = Age(h, p[k])
    BY <1>8, <2>1
  <2>3. p[i] = p[k]
    BY <1>1, <2>1, <2>2, SameAge
  <2> QED BY <1>2, <2>3
<1>9. ASSUME NEW i \in 1..c PROVE \E k \in 0..(c - 1) : At(p[k]) = i
  <2>1. \E x \in Node : Age(h, x) = N - c + i - 1
    <3>1. N - c + i - 1 \in 0..(N - 1)
      OBVIOUS
    <3> QED BY <1>1, <3>1, NodeOfAge
  <2>2. PICK x \in Node : Age(h, x) = N - c + i - 1
    BY <2>1
  <2>3. ~(Age(h, x) < N - c) /\ At(x) = i /\ i \in 1..Len(w)
    BY <2>2
  <2>4. f.value[x] \in Samples
    BY <1>1, <1>3, <2>3
  <2>5. PICK k \in Pos : p[k] = x
    BY DEF InOrder
  <2>6. k \in 0..(c - 1)
    BY <1>5, <2>4, <2>5
  <2> QED BY <2>3, <2>5, <2>6
<1>10. ASSUME NEW i \in 0..(c - 1), NEW k \in 0..(c - 1), i <= k
       PROVE  f.value[p[i]] <= f.value[p[k]]
  <2>1. CASE i = k
    BY <1>4, <2>1
  <2>2. CASE i < k
    <3>1. Before(f, p[i], p[k])
      BY <1>2, <2>2 DEF InOrder, Sorted
    <3> QED BY <1>4, <3>1 DEF Before
  <2> QED BY <1>10, <2>1, <2>2
<1>11. \A k \in 0..(c - 1) : place[k] = At(p[k])
  OBVIOUS
<1> HIDE DEF place, At
<1>12. \A i, k \in 0..(c - 1) : place[i] = place[k] => i = k
  BY <1>8, <1>11
<1>13. \A i \in 1..c : \E k \in 0..(c - 1) : place[k] = i
  BY <1>9, <1>11
<1>14. \A k \in 0..(c - 1) : f.value[p[k]] = w[place[k]]
  BY <1>6, <1>11
<1> QED BY <1>7, <1>10, <1>12, <1>13, <1>14

\* What is at medianHead is the median of the window.
LEMMA MedianIs ==
  ASSUME NEW f, NEW w, Holds(f, w), w # <<>>
  PROVE  Median(f) \in Samples /\ IsMedianOf(Median(f), w)
<1>1. PICK p : InOrder(f, p)
  BY DEF Holds
<1>2. PICK c \in 1..N : c = Len(w) /\ c = f.bufferCnt
  <2>1. w \in Seq(Samples) /\ Len(w) <= N /\ Len(w) # 0 /\ f.bufferCnt = Len(w)
    BY DEF Holds
  <2> QED BY <2>1
<1>3. PICK place \in [0..(c - 1) -> 1..c] :
        /\ \A i, k \in 0..(c - 1) : place[i] = place[k] => i = k
        /\ \A i \in 1..c : \E k \in 0..(c - 1) : place[k] = i
        /\ \A k \in 0..(c - 1) : f.value[p[k]] = w[place[k]]
        /\ \A i, k \in 0..(c - 1) : i <= k => f.value[p[i]] <= f.value[p[k]]
  BY <1>1, <1>2, Places
<1>4. PICK m \in 0..(c - 1) : m = c \div 2 /\ Median(f) = f.value[p[m]]
  <2>1. c \div 2 \in 0..(c - 1)
    BY Halves
  <2> QED BY <1>1, <1>2, <2>1 DEF Median, InOrder
<1> m \in Nat
  OBVIOUS
<1>5. w \in [1..c -> Samples] /\ DOMAIN w = 1..c
  BY <1>2 DEF Holds
<1> DEFINE v == w[place[m]]
           L == {i \in 1..c : w[i] < v}
           U == {i \in 1..c : w[i] <= v}
           K == {k \in 0..(m - 1) : place[k] \in L}
<1>6. Median(f) = v /\ v \in Samples /\ v \in Int /\ \A i \in 1..c : w[i] \in Int
  BY <1>3, <1>4, <1>5
<1>7. Cardinality(L) <= m
  <2>1. IsFiniteSet(0..(m - 1)) /\ Cardinality(0..(m - 1)) = m
    BY Indices
  <2>2. IsFiniteSet(K) /\ Cardinality(K) <= m
    <3>1. K \in SUBSET (0..(m - 1))
      OBVIOUS
    <3> HIDE DEF K
    <3>2. IsFiniteSet(K) /\ Cardinality(K) <= Cardinality(0..(m - 1))
      BY <2>1, <3>1, FS_Subset
    <3> QED BY <2>1, <3>2
  <2>3. [k \in K |-> place[k]] \in Surjection(K, L)
    <3>1. ASSUME NEW i \in L PROVE \E k \in K : place[k] = i
      <4>1. PICK k \in 0..(c - 1) : place[k] = i
        BY <1>3
      <4>2. ~(m <= k)
        <5>1. SUFFICES ASSUME m <= k PROVE FALSE
          OBVIOUS
        <5>2. v <= w[i]
          BY <1>3, <4>1, <5>1
        <5>3. w[i] < v /\ w[i] \in Int /\ v \in Int
          BY <1>6
        <5> HIDE DEF v
        <5> QED BY <5>2, <5>3
      <4>3. k \in 0..(m - 1)
        BY <4>2
      <4> QED BY <4>1, <4>3
    <3>2. [k \in K |-> place[k]] \in [K -> L]
      OBVIOUS
    <3> HIDE DEF K, L
    <3> QED BY <3>1, <3>2 DEF Surjection
  <2> HIDE DEF K, L
  <2>4. Cardinality(L) <= Cardinality(K) /\ IsFiniteSet(L)
    BY <2>2, <2>3, FS_Surjection
  <2>5. Cardinality(L) \in Nat /\ Cardinality(K) \in Nat
    BY <2>2, <2>4, FS_CardinalityType
  <2> QED BY <2>2, <2>4, <2>5
<1>8. Cardinality(U) > m
  <2>1. IsFiniteSet(0..m) /\ Cardinality(0..m) = m + 1
    BY Indices
  <2>2. IsFiniteSet(U)
    <3>1. IsFiniteSet(1..c) /\ U \in SUBSET (1..c)
      BY FS_Interval
    <3> HIDE DEF U
    <3> QED BY <3>1, FS_Subset
  <2>3. [k \in 0..m |-> place[k]] \in Injection(0..m, U)
    <3>1. \A k \in 0..m : k \in 0..(c - 1) /\ place[k] \in U
      <4>1. ASSUME NEW k \in 0..m PROVE k \in 0..(c - 1) /\ place[k] \in U
        <5>1. k \in 0..(c - 1) /\ k <= m
          OBVIOUS
        <5>2. w[place[k]] <= v /\ place[k] \in 1..c
          BY <1>3, <5>1
        <5> QED BY <5>1, <5>2
      <4> QED BY <4>1
    <3> HIDE DEF U
    <3> DEFINE g == [k \in 0..m |-> place[k]]
    <3>2. g \in [0..m -> U]
      BY <3>1
    <3>3. \A i, k \in 0..m : g[i] = g[k] => i = k
      BY <1>3, <3>1
    <3> HIDE DEF g
    <3>4. g \in Injection(0..m, U)
      BY <3>2, <3>3 DEF Injection, IsInjective
    <3> QED BY <3>4 DEF g
  <2> HIDE DEF U
  <2>4. Cardinality(0..m) <= Cardinality(U)
    BY <2>2, <2>3, FS_Injection
  <2>5. Cardinality(U) \in Nat
    BY <2>2, FS_CardinalityType
  <2> QED BY <2>1, <2>4, <2>5
<1> HIDE DEF v
<1>9. Len(w) \div 2 = m
  BY <1>2, <1>4
<1> QED BY <1>5, <1>6, <1>7, <1>8, <1>9 DEF IsMedianOf

-----------------------------------------------------------------------------
(* The player's latency                                                      *)

\* What player_latency_insert keeps together: the filter with its window, the
\* semaphore and the latency computed from them.
Smoothed(f, w, sem, l) ==
  /\ Holds(f, w)
  /\ sem \in BOOLEAN /\ (sem <=> Len(w) >= Full)
  /\ l = IF w = <<>> THEN 0 ELSE Median(f)

\* The measurement of a connection.
Asked ==
  /\ header \in BOOLEAN /\ clock \in Clocks /\ requests \in 0..MaxRequests
  /\ old \in BOOLEAN /\ timeout \in {"fast", "normal"}

FInv == Asked /\ Smoothed(filter, window, full, latencyToServer)

\* What the measurement uses of its bounds.
LEMMA FullBounds == Full \in 1..N /\ MaxRequests \in Nat
BY TimeSyncAssumption

\* reset_latency_buffer leaves nothing to compute with.
LEMMA EmptySmoothed == Smoothed(Empty, <<>>, FALSE, 0)
<1>1. Len(<<>>) = 0 /\ ~(0 >= Full)
  BY FullBounds
<1> QED BY <1>1, EmptyHolds DEF Smoothed

\* player_latency_insert keeps filter, window, semaphore and latency together.
LEMMA LatencyInserts ==
  ASSUME NEW f, NEW w, NEW sem, NEW l, Smoothed(f, w, sem, l),
         NEW s \in Samples, LatencyInsert(f, w, sem, s)
  PROVE  Smoothed(filter', window', full', latencyToServer')
<1> DEFINE v == Moved(w, s)
           e == Insert(f, s)
<1>1. Holds(f, w) /\ sem \in BOOLEAN /\ (sem <=> Len(w) >= Full)
  BY DEF Smoothed
<1>2. /\ filter' = e /\ window' = v /\ latencyToServer' = Median(e)
      /\ full' = (sem \/ IsFull(e, Full))
  BY DEF LatencyInsert, Moved
<1>3. Holds(e, v)
  BY <1>1, InsertHolds
<1>4. Len(w) \in 0..N /\ Len(v) = IF Len(w) < N THEN Len(w) + 1 ELSE Len(w)
  <2>1. w \in Seq(Samples) /\ Len(w) <= N
    BY <1>1 DEF Holds
  <2> QED BY <2>1, MovedWindow
<1>5. v # <<>>
  <2>1. Len(v) # 0
    BY <1>4
  <2> HIDE DEF v
  <2> QED BY <2>1
<1> HIDE DEF e, v
<1>6. IsFull(e, Full) <=> Len(v) >= Full
  <2>1. e.bufferCnt = Len(v)
    BY <1>3 DEF Holds
  <2> QED BY <2>1, FullBounds DEF IsFull
<1>7. Len(w) >= Full => Len(v) >= Full
  BY <1>4, FullBounds
<1>8. full' \in BOOLEAN /\ (full' <=> Len(v) >= Full)
  BY <1>1, <1>2, <1>6, <1>7
<1> QED BY <1>2, <1>3, <1>5, <1>8 DEF Smoothed

LEMMA InitF == Init => FInv
<1> SUFFICES ASSUME Init PROVE FInv
  OBVIOUS
<1>1. Asked
  <2>1. header = FALSE /\ clock \in Clocks /\ requests = 0 /\ old = FALSE /\ timeout = "fast"
    BY DEF Init
  <2>2. 0 \in 0..MaxRequests
    BY FullBounds
  <2> QED BY <2>1, <2>2 DEF Asked
<1>2. window = <<>> /\ filter = Empty /\ full = FALSE /\ latencyToServer = 0
  BY DEF Init
<1> QED BY <1>1, <1>2, EmptySmoothed DEF FInv

LEMMA StepF == FInv /\ [Next]_vars => FInv'
<1> SUFFICES ASSUME FInv, [Next]_vars PROVE FInv'
  OBVIOUS
<1>1. Asked /\ Smoothed(filter, window, full, latencyToServer)
  BY DEF FInv
<1>2. ASSUME Asked', UNCHANGED latency PROVE FInv'
  BY <1>1, <1>2 DEF latency, FInv
<1>3. ASSUME NEW c \in Clocks, Connect(c) PROVE FInv'
  <2>1. Asked' /\ UNCHANGED latency
    BY <1>1, <1>3, FullBounds DEF Connect, Asked
  <2> QED BY <1>2, <2>1
<1>4. CASE CodecHeader \/ Disconnect \/ Request \/ Minute
  <2>1. UNCHANGED latency
    BY <1>4 DEF CodecHeader, Disconnect, Request, Minute
  <2>2. 0 \in 0..MaxRequests /\ (requests < MaxRequests => requests + 1 \in 0..MaxRequests)
    BY <1>1, FullBounds DEF Asked
  <2>3. Asked'
    BY <1>1, <1>4, <2>2 DEF CodecHeader, Disconnect, Request, Minute, Asked
  <2> QED BY <1>2, <2>1, <2>3
<1>5. CASE StartPlayer
  <2>1. Asked'
    BY <1>1, <1>5 DEF StartPlayer, Asked
  <2>2. window' = <<>> /\ filter' = Empty /\ full' = FALSE /\ latencyToServer' = 0
    BY <1>5 DEF StartPlayer, Reset
  <2> QED BY <2>1, <2>2, EmptySmoothed DEF FInv
<1>6. ASSUME NEW s \in Samples, Answer(s) PROVE FInv'
  <2>1. Asked'
    <3>1. /\ requests \in 0..MaxRequests /\ requests > 0 /\ requests' = requests - 1
          /\ header' = header /\ clock' = clock /\ old' = FALSE
          /\ timeout' \in {"fast", "normal"}
      BY <1>1, <1>6 DEF Answer, Asked
    <3>2. requests - 1 \in 0..MaxRequests
      BY <3>1, FullBounds
    <3> QED BY <1>1, <3>1, <3>2 DEF Asked
  <2>2. Smoothed(filter', window', full', latencyToServer')
    <3>1. CASE old
      <4>1. LatencyInsert(Empty, <<>>, FALSE, s)
        BY <1>6, <3>1 DEF Answer
      <4> QED BY <4>1, EmptySmoothed, LatencyInserts
    <3>2. CASE ~old
      <4>1. LatencyInsert(filter, window, full, s)
        BY <1>6, <3>2 DEF Answer
      <4> QED BY <1>1, <4>1, LatencyInserts
    <3> QED BY <3>1, <3>2
  <2> QED BY <2>1, <2>2 DEF FInv
<1>7. CASE UNCHANGED vars
  <2>1. Asked' /\ UNCHANGED latency
    BY <1>1, <1>7 DEF vars, Asked
  <2> QED BY <1>2, <2>1
<1> QED BY <1>3, <1>4, <1>5, <1>6, <1>7 DEF Next

\* player_task's wait for the first latencies (player.c:809-899) ends exactly when
\* the filter has got as many samples since it was emptied, whether by start_player
\* or by an answer that came after a minute.
THEOREM BeginsWhenFull == Spec => []PlayerMayBegin
<1>1. Init => FInv BY InitF
<1>2. FInv /\ [Next]_vars => FInv' BY StepF
<1>3. FInv => PlayerMayBegin BY DEF FInv, Smoothed, PlayerMayBegin
<1> QED BY <1>1, <1>2, <1>3, PTL DEF Spec

\* Whatever the ring's size and the order of the samples, what
\* MEDIANFILTER_Insert returns, and player_task corrects the server's time by,
\* is the median of the samples since the filter was emptied.
THEOREM LatencyMedian == Spec => []LatencyIsMedian
<1>1. Init => FInv BY InitF
<1>2. FInv /\ [Next]_vars => FInv' BY StepF
<1>3. FInv => LatencyIsMedian
  <2> SUFFICES ASSUME FInv PROVE LatencyIsMedian
    OBVIOUS
  <2>1. /\ Holds(filter, window)
        /\ latencyToServer = IF window = <<>> THEN 0 ELSE Median(filter)
    BY DEF FInv, Smoothed
  <2>2. window # <<>> => IsMedianOf(Median(filter), window)
    BY <2>1, MedianIs
  <2> QED BY <2>1, <2>2 DEF LatencyIsMedian
<1> QED BY <1>1, <1>2, <1>3, PTL DEF Spec

\* The pointers of the ring stay those of its nodes, and the latency is one that
\* was measured.
THEOREM TimeSyncTypes == Spec => []TypeOK
<1>1. Init => FInv BY InitF
<1>2. FInv /\ [Next]_vars => FInv' BY StepF
<1>3. FInv => TypeOK
  <2> SUFFICES ASSUME FInv PROVE TypeOK
    OBVIOUS
  <2>1. /\ Asked /\ Holds(filter, window) /\ full \in BOOLEAN
        /\ latencyToServer = IF window = <<>> THEN 0 ELSE Median(filter)
    BY DEF FInv, Smoothed
  <2>2. window # <<>> => Median(filter) \in Samples
    BY <2>1, MedianIs
  <2>3. filter \in Filter
    BY <2>1 DEF Holds
  <2> QED BY <2>1, <2>2, <2>3 DEF TypeOK, Asked
<1> QED BY <1>1, <1>2, <1>3, PTL DEF Spec
================================================================================
