----------------------------- MODULE MedianFilter -----------------------------
(***************************************************************************)
(* The running median of components/libmedian/MedianFilter.c, with which   *)
(* the player smooths what it measures.  The nodes of medianBuffer are     *)
(* 0..N-1 and a pointer to a node is its index; the nodes are linked into a*)
(* ring by value, and nextAge, which never changes, is Successor.          *)
(***************************************************************************)
EXTENDS Integers, Sequences, FiniteSets

CONSTANTS
  N,          \* numNodes
  Samples,    \* bound: the values that are inserted
  Infinity    \* INT64_MAX

ASSUME FilterAssumption ==
  /\ N \in Nat /\ N % 2 = 1 /\ N > 1
  /\ Samples \subseteq Int /\ Infinity \in Int
  /\ \A s \in Samples : s < Infinity

Node == 0..(N - 1)

Successor(i) == (i + 1) % N

Filter == [value : [Node -> Samples \cup {Infinity}],
           nextValue : [Node -> Node], prevValue : [Node -> Node],
           ageHead : Node, valueHead : Node, medianHead : Node, bufferCnt : 0..N]

\* MEDIANFILTER_Init.
Empty == [value |-> [i \in Node |-> Infinity],
          nextValue |-> [i \in Node |-> Successor(i)],
          prevValue |-> [i \in Node |-> (i + N - 1) % N],
          ageHead |-> 0, valueHead |-> 0, medianHead |-> 0, bufferCnt |-> 0]

\* Mutant: the insertion that makes the filter full counts as an early one.
CorrectsLate(f) ==
  /\ f.ageHead = f.medianHead \/ f.value[f.ageHead] > f.value[f.medianHead]
  /\ f.bufferCnt >= N

\* Does the median move down when the oldest node leaves?
Corrects(f) ==
  /\ f.ageHead = f.medianHead \/ f.value[f.ageHead] > f.value[f.medianHead]
  /\ f.bufferCnt + 1 >= N

\* Mutant: samples are counted for ever.
UnlinkUncapped(f) ==
  LET old == f.ageHead
  IN [f EXCEPT !.bufferCnt = @ + 1,
               !.valueHead = IF old = @ THEN f.nextValue[@] ELSE @,
               !.medianHead = IF Corrects(f) THEN f.prevValue[@] ELSE @,
               !.prevValue[f.nextValue[old]] = f.prevValue[old],
               !.nextValue[f.prevValue[old]] = f.nextValue[old],
               !.ageHead = Successor(old)]

\* The oldest node is taken out of the value ring.
Unlink(f) ==
  LET old == f.ageHead
  IN [f EXCEPT !.bufferCnt = IF @ < N THEN @ + 1 ELSE @,
               !.valueHead = IF old = @ THEN f.nextValue[@] ELSE @,
               !.medianHead = IF Corrects(f) THEN f.prevValue[@] ELSE @,
               !.prevValue[f.nextValue[old]] = f.prevValue[old],
               !.nextValue[f.prevValue[old]] = f.nextValue[old],
               !.ageHead = Successor(old)]

\* The i-th node of the value ring.
Nth(f, i) ==
  LET nth[k \in 0..N] == IF k = 0 THEN f.valueHead ELSE f.nextValue[nth[k - 1]]
  IN nth[i]

\* How many nodes of the ring are passed before the first larger one.
Position(f, s) ==
  CHOOSE i \in 0..(f.bufferCnt - 1) :
    /\ i = f.bufferCnt - 1 \/ s < f.value[Nth(f, i)]
    /\ \A k \in 0..(i - 1) : s >= f.value[Nth(f, k)]

\* Node new is linked into the value ring before the i-th one.
Link(f, new, i) ==
  LET it == Nth(f, i)
  IN [f EXCEPT !.valueHead = IF i = 0 THEN new ELSE @,
               !.nextValue = [@ EXCEPT ![f.prevValue[it]] = new, ![new] = it],
               !.prevValue = [@ EXCEPT ![new] = f.prevValue[it], ![it] = new]]

\* While the filter fills up, the median steps back before an odd count.
Adjust(f, i) ==
  LET cnt  == f.bufferCnt
      odd  == cnt < N /\ cnt % 2 # 0
      back == IF odd /\ cnt # 1 THEN f.prevValue[f.medianHead] ELSE f.medianHead
      up   == IF odd THEN i > cnt \div 2 ELSE i >= cnt \div 2
  IN [f EXCEPT !.medianHead = IF up THEN f.nextValue[back] ELSE back]

\* MEDIANFILTER_Insert.
Insert(f, s) ==
  LET new == f.ageHead
      g   == [Unlink(f) EXCEPT !.value[new] = s]
      i   == Position(g, s)
  IN Adjust(Link(g, new, i), i)

\* What MEDIANFILTER_Insert returns.
Median(f) == f.value[f.medianHead]

\* MEDIANFILTER_isFull for n samples; n = 0 stands for all of them.
IsFull(f, n) == f.bufferCnt >= IF n < 1 \/ n > N THEN N ELSE n

-----------------------------------------------------------------------------
\* What the filter promises: v is the middle one of the samples in w, the
\* larger of the two middle ones when their number is even.
IsMedianOf(v, w) ==
  LET middle == Len(w) \div 2
  IN /\ Cardinality({i \in DOMAIN w : w[i] < v}) <= middle
     /\ Cardinality({i \in DOMAIN w : w[i] <= v}) > middle
================================================================================
