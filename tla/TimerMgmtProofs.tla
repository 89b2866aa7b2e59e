---------------------------- MODULE TimerMgmtProofs ----------------------------
(***************************************************************************)
(* Theorems about TimerMgmt (IOT_TimerMgmt.c), for any tasks, delays and    *)
(* bounds: the loops of the heap restore its order and lose no timer, and   *)
(* the heap with its thread implements TimerService.                        *)
(***************************************************************************)
EXTENDS TimerMgmt, FiniteSetTheorems, SequenceTheorems, WellFoundedInduction, TLAPS

-----------------------------------------------------------------------------
(* Loops.  Every loop of the heap moves a position one way, so it ends; a   *)
(* fact that one turn passes on then holds of what the loop returns.        *)

\* A set of numbers has a least one.
LEMMA Least ==
  ASSUME NEW n \in Nat, NEW S \in SUBSET (0 .. n), S # {}
  PROVE  \E m \in S : \A l \in S : m <= l
<1> DEFINE T == {0 .. k : k \in S}
<1>1. \A k \in S : k \in Nat /\ 0 .. k \in FiniteSubsetsOf(Nat)
  <2> SUFFICES ASSUME NEW k \in S
               PROVE  k \in Nat /\ 0 .. k \in FiniteSubsetsOf(Nat)
    OBVIOUS
  <2>1. IsFiniteSet(0 .. k)
    BY FS_Interval
  <2> QED
    BY <2>1 DEF FiniteSubsetsOf
<1>2. T \subseteq FiniteSubsetsOf(Nat) /\ T # {}
  BY <1>1
<1>3. PICK x \in T : \A y \in T : <<y, x>> \notin StrictSubsetOrdering(Nat)
  <2>1. IsWellFoundedOn(StrictSubsetOrdering(Nat), FiniteSubsetsOf(Nat))
    BY FS_StrictSubsetOrderingWellFounded
  <2> HIDE DEF T
  <2> QED
    BY <1>2, <2>1, WFMin
<1>4. PICK m \in S : x = 0 .. m
  OBVIOUS
<1>5. ASSUME NEW l \in S, l < m
      PROVE  FALSE
  <2>1. 0 .. l \subseteq 0 .. m /\ 0 .. l # 0 .. m
    <3>1. m \in 0 .. m /\ m \notin 0 .. l
      BY <1>1, <1>5
    <3> QED
      BY <1>1, <1>5, <3>1
  <2>2. 0 .. l \in SUBSET Nat /\ 0 .. m \in SUBSET Nat
    OBVIOUS
  <2>3. <<0 .. l, 0 .. m>> \in StrictSubsetOrdering(Nat)
    BY <2>1, <2>2 DEF StrictSubsetOrdering
  <2> QED
    BY <1>3, <1>4, <2>3
<1> QED
  BY <1>1, <1>5

\* Induction up to n, on a set.
LEMMA UpTo ==
  ASSUME NEW n \in Nat, NEW S, 0 \in S,
         \A k \in 0 .. n : k + 1 \in 0 .. n /\ k \in S => k + 1 \in S
  PROVE  \A k \in 0 .. n : k \in S
<1> DEFINE Others == {k \in 0 .. n : k \notin S}
<1> SUFFICES ASSUME Others # {}
             PROVE  FALSE
  OBVIOUS
<1>1. PICK m \in Others : \A l \in Others : m <= l
  BY Least
<1>2. m - 1 \in 0 .. n /\ m - 1 \notin Others
  BY <1>1
<1> QED
  BY <1>1, <1>2

\* A loop over X that goes on from x to next[x] while x is in more, to arguments of a
\* smaller size, and the function that such a loop computes.
Descends(X, N, size, more, next) ==
  /\ N \in Nat /\ size \in [X -> 0 .. N]
  /\ more \in SUBSET X /\ next \in [X -> X]
  /\ \A x \in more : size[next[x]] < size[x]

Computes(f, X, more, next, out) == \A x \in X : f[x] = IF x \in more THEN f[next[x]] ELSE out[x]

Computable(X, Y, more, next, out) == \E f \in [X -> Y] : Computes(f, X, more, next, out)

LEMMA Recursion ==
  ASSUME NEW X, NEW Y, NEW N, NEW size, NEW more, NEW next, NEW out \in [X -> Y],
         Descends(X, N, size, more, next)
  PROVE  Computable(X, Y, more, next, out)
<1> USE DEF Descends, Computes, Computable
<1> DEFINE Right(f, n) ==
             \A x \in X : size[x] <= n => f[x] = IF x \in more THEN f[next[x]] ELSE out[x]
           S == {n \in 0 .. N : \E f \in [X -> Y] : Right(f, n)}
<1>1. 0 \in S
  <2>1. Right(out, 0)
    OBVIOUS
  <2> QED
    BY <2>1
<1>2. ASSUME NEW n \in 0 .. N, n + 1 \in 0 .. N, n \in S
      PROVE  n + 1 \in S
  <2>1. PICK f \in [X -> Y] : Right(f, n)
    BY <1>2
  <2> DEFINE g == [x \in X |-> IF size[x] <= n THEN f[x]
                               ELSE IF x \in more THEN f[next[x]] ELSE out[x]]
  <2>2. g \in [X -> Y]
    OBVIOUS
  <2>3. ASSUME NEW x \in X, size[x] <= n + 1
        PROVE  g[x] = IF x \in more THEN g[next[x]] ELSE out[x]
    <3>1. x \in more => size[next[x]] <= n
      BY <2>3
    <3>2. x \in more => g[next[x]] = f[next[x]]
      BY <3>1
    <3> QED
      BY <2>1, <2>3, <3>2
  <2> QED
    BY <1>2, <2>2, <2>3
<1>3. N \in S
  <2> HIDE DEF S
  <2> QED
    BY <1>1, <1>2, UpTo
<1> QED
  BY <1>3

\* What holds when a loop begins, and is passed on by every turn, holds when it ends.
LEMMA Loop ==
  ASSUME NEW X, NEW N, NEW size, NEW more, NEW next, NEW out, NEW f,
         Descends(X, N, size, more, next), Computes(f, X, more, next, out),
         NEW Kept \in SUBSET X, \A x \in Kept : x \in more => next[x] \in Kept,
         NEW x0 \in Kept
  PROVE  \E y \in Kept : y \notin more /\ f[x0] = out[y]
<1> USE DEF Descends, Computes
<1> DEFINE Ends(x) == \E y \in Kept : y \notin more /\ f[x] = out[y]
           S == {n \in 0 .. N : \A x \in Kept : size[x] <= n => Ends(x)}
<1>1. 0 \in S
  <2> SUFFICES ASSUME NEW x \in Kept, size[x] <= 0
               PROVE  Ends(x)
    OBVIOUS
  <2>1. x \notin more
    OBVIOUS
  <2> QED
    BY <2>1
<1>2. ASSUME NEW n \in 0 .. N, n + 1 \in 0 .. N, n \in S
      PROVE  n + 1 \in S
  <2> SUFFICES ASSUME NEW x \in Kept, size[x] <= n + 1
               PROVE  Ends(x)
    BY <1>2
  <2>1. CASE x \in more
    <3>1. next[x] \in Kept /\ size[next[x]] <= n
      BY <2>1
    <3>2. Ends(next[x])
      BY <1>2, <3>1
    <3> QED
      BY <2>1, <3>2
  <2>2. CASE x \notin more
    BY <2>2
  <2> QED
    BY <2>1, <2>2
<1>3. N \in S
  <2> HIDE DEF S
  <2> QED
    BY <1>1, <1>2, UpTo
<1> QED
  BY <1>3

-----------------------------------------------------------------------------
(* The heap.                                                               *)

\* No event of h is there twice, and g has the same events.
Distinct(h) == \A j, k \in 1 .. Len(h) : h[j].id = h[k].id => j = k
Within(h) == {h[k] : k \in 1 .. Len(h)}
SameEvents(g, h) == g \in Seq(Events) /\ Len(g) = Len(h) /\ Within(g) = Within(h) /\ Distinct(g)

OrderedAt(h, k) == h[k].time >= h[k \div 2].time

Rises(x) == x.i > 1 /\ x.h[x.i].time < x.h[x.i \div 2].time
RiseFrom(x) == [h |-> Exchange(x.h, x.i, x.i \div 2), i |-> x.i \div 2]

Sinks(x) == Smallest(x.h, x.i) # x.i
SinkFrom(x) == [h |-> Exchange(x.h, x.i, Smallest(x.h, x.i)), i |-> Smallest(x.h, x.i)]

LEMMA Exchanged ==
  ASSUME NEW h \in Seq(Events), NEW i \in 1 .. Len(h), NEW j \in 1 .. Len(h)
  PROVE  /\ Exchange(h, i, j) \in Seq(Events) /\ Len(Exchange(h, i, j)) = Len(h)
         /\ Exchange(h, i, j)[i] = h[j] /\ Exchange(h, i, j)[j] = h[i]
         /\ \A k \in 1 .. Len(h) : k # i /\ k # j => Exchange(h, i, j)[k] = h[k]
  BY DEF Exchange

LEMMA ExchangeKeeps ==
  ASSUME NEW h, NEW g \in Seq(Events), SameEvents(g, h), NEW i \in 1 .. Len(g), NEW j \in 1 .. Len(g)
  PROVE  SameEvents(Exchange(g, i, j), h)
<1> DEFINE x == Exchange(g, i, j)
           to(k) == IF k = j THEN i ELSE IF k = i THEN j ELSE k
<1>1. x \in Seq(Events) /\ Len(x) = Len(g) /\ \A k \in 1 .. Len(g) : to(k) \in 1 .. Len(g) /\ x[k] = g[to(k)]
  <2>1. x[i] = g[j] /\ x[j] = g[i] /\ \A k \in 1 .. Len(g) : k # i /\ k # j => x[k] = g[k]
    BY Exchanged
  <2>2. x \in Seq(Events) /\ Len(x) = Len(g)
    BY Exchanged
  <2> HIDE DEF x
  <2> QED
    BY <2>1, <2>2
<1>2. \A k \in 1 .. Len(g) : to(to(k)) = k
  OBVIOUS
<1>3. Within(x) = Within(g)
  <2> HIDE DEF x, to
  <2> QED
    BY <1>1, <1>2 DEF Within
<1>4. Distinct(x)
  <2> HIDE DEF x, to
  <2> QED
    BY <1>1, <1>2, SMTT(60) DEF Distinct, SameEvents
<1> QED
  BY <1>1, <1>3, <1>4 DEF SameEvents

LEMMA EventFields ==
  ASSUME NEW h \in Seq(Events)
  PROVE  /\ Len(h) \in Nat
         /\ \A k \in 1 .. Len(h) : h[k] \in Events /\ h[k].time \in Nat /\ h[k].id \in Ids
                                   /\ h[k].time \in 0 .. TimeMod - 1
<1>1. Len(h) \in Nat /\ \A k \in 1 .. Len(h) : h[k] \in Events
  OBVIOUS
<1>2. \A e \in Events : e.time \in 0 .. TimeMod - 1 /\ e.id \in Ids
  BY DEF Events
<1>3. 0 .. TimeMod - 1 \subseteq Nat
  BY TimerAssumption
<1> QED
  BY <1>1, <1>2, <1>3

LEMMA PlaceFields ==
  ASSUME NEW x \in Places
  PROVE  /\ x.h \in Seq(Events) /\ x.i \in 1 .. Len(x.h) /\ x.i \in Ids /\ Len(x.h) \in Nat
         /\ x.i \in 1 .. MaxTimers /\ x = [h |-> x.h, i |-> x.i] /\ Len(x.h) <= MaxTimers
         /\ \A k \in 1 .. Len(x.h) : x.h[k] \in Events /\ x.h[k].time \in Nat
<1>1. /\ x.h \in Seq(Events) /\ x.i \in Ids /\ x = [h |-> x.h, i |-> x.i]
      /\ x.i <= Len(x.h) /\ Len(x.h) <= MaxTimers
  BY DEF Places
<1>2. x.i \in 1 .. MaxTimers /\ x.i \in 1 .. Len(x.h)
  BY <1>1, EventFields, TimerAssumption DEF Ids
<1> QED
  BY <1>1, <1>2, EventFields

LEMMA RiseStep ==
  ASSUME NEW x \in Places, Rises(x)
  PROVE  RiseFrom(x) \in Places /\ RiseFrom(x).i < x.i /\ x.i \div 2 \in 1 .. Len(x.h)
<1>1. x.i \div 2 \in 1 .. x.i /\ x.i \div 2 < x.i
  BY PlaceFields DEF Rises
<1>2. x.i \div 2 \in Ids /\ x.i \div 2 \in 1 .. Len(x.h)
  BY <1>1, PlaceFields, TimerAssumption DEF Ids
<1>3. /\ Exchange(x.h, x.i, x.i \div 2) \in Seq(Events)
      /\ Len(Exchange(x.h, x.i, x.i \div 2)) = Len(x.h)
  BY <1>2, Exchanged, PlaceFields
<1> QED
  BY <1>1, <1>2, <1>3, PlaceFields DEF RiseFrom, Places

LEMMA SmallestIs ==
  ASSUME NEW h \in Seq(Events), NEW i \in 1 .. Len(h)
  PROVE  /\ Smallest(h, i) \in {i, 2 * i, 2 * i + 1} /\ Smallest(h, i) \in 1 .. Len(h)
         /\ \A k \in 1 .. Len(h) : k \div 2 = i => h[Smallest(h, i)].time <= h[k].time
         /\ Smallest(h, i) # i => h[Smallest(h, i)].time < h[i].time /\ Smallest(h, i) > i
                                  /\ Smallest(h, i) \div 2 = i
<1>1. \A k \in 1 .. Len(h) : h[k].time \in Nat
  BY EventFields
<1>2. \A k \in 1 .. Len(h) : k \div 2 = i => k \in {2 * i, 2 * i + 1}
  OBVIOUS
<1>3. (2 * i) \div 2 = i /\ (2 * i + 1) \div 2 = i /\ i \in Nat /\ i > 0 /\ Len(h) \in Nat
  OBVIOUS
<1> DEFINE left == IF 2 * i <= Len(h) /\ h[2 * i].time < h[i].time THEN 2 * i ELSE i
<1>4. /\ left \in {i, 2 * i} /\ left \in 1 .. Len(h)
      /\ 2 * i <= Len(h) => h[left].time <= h[2 * i].time
      /\ h[left].time <= h[i].time
      /\ left # i => h[left].time < h[i].time /\ left = 2 * i
  <2> DEFINE l == 2 * i
  <2>1. l \in Nat /\ l > i /\ l # i /\ i \in 1 .. Len(h)
    BY <1>3
  <2>2. left = IF l <= Len(h) /\ h[l].time < h[i].time THEN l ELSE i
    OBVIOUS
  <2> HIDE DEF l, left
  <2>3. CASE l <= Len(h)
    <3>1. l \in 1 .. Len(h)
      BY <1>3, <2>1, <2>3
    <3>2. h[l].time \in Nat /\ h[i].time \in Nat
      BY <1>1, <2>1, <3>1
    <3>3. left \in {i, l} /\ h[left].time <= h[l].time /\ h[left].time <= h[i].time
          /\ (left # i => h[left].time < h[i].time)
      BY <2>2, <2>3, <3>2
    <3> QED
      BY <2>1, <3>1, <3>3 DEF l
  <2>4. CASE ~(l <= Len(h))
    <3>1. left = i
      BY <2>2, <2>4
    <3>2. h[i].time \in Nat
      BY <1>1, <2>1
    <3> QED
      BY <2>1, <2>4, <3>1, <3>2 DEF l
  <2> QED
    BY <2>3, <2>4
<1>5. Smallest(h, i) = IF 2 * i + 1 <= Len(h) /\ h[2 * i + 1].time < h[left].time THEN 2 * i + 1 ELSE left
  BY DEF Smallest
<1> DEFINE s == Smallest(h, i)
<1> HIDE DEF left, s
<1>6. /\ s \in {i, 2 * i, 2 * i + 1} /\ s \in 1 .. Len(h)
      /\ 2 * i <= Len(h) => h[s].time <= h[2 * i].time
      /\ 2 * i + 1 <= Len(h) => h[s].time <= h[2 * i + 1].time
      /\ s # i => h[s].time < h[i].time /\ s \in {2 * i, 2 * i + 1}
  <2> DEFINE r == 2 * i + 1
  <2>1. r \in Nat /\ r > i /\ r # 2 * i /\ 2 * i \in Nat
    BY <1>3
  <2>2. s = IF r <= Len(h) /\ h[r].time < h[left].time THEN r ELSE left
    BY <1>5 DEF s
  <2> HIDE DEF r
  <2>3. CASE r <= Len(h) /\ h[r].time < h[left].time
    <3>1. r \in 1 .. Len(h) /\ s = r
      BY <2>1, <2>2, <2>3, <1>3
    <3>2. 2 * i \in 1 .. Len(h)
      BY <1>3, <2>1, <3>1 DEF r
    <3>3. h[s].time < h[i].time /\ h[s].time < h[2 * i].time
      <4>1. h[left].time <= h[2 * i].time /\ h[left].time <= h[i].time
        BY <1>4, <3>2
      <4>2. h[2 * i].time \in Nat /\ h[left].time \in Nat /\ h[i].time \in Nat /\ h[s].time \in Nat
        BY <1>1, <1>4, <3>1, <3>2
      <4> QED
        BY <2>3, <3>1, <4>1, <4>2
    <3>4. h[s].time <= h[r].time /\ h[s].time <= h[2 * i].time /\ s \in {2 * i, r}
      <4>1. h[s].time \in Nat /\ h[2 * i].time \in Nat
        BY <1>1, <3>1, <3>2
      <4> QED
        BY <3>1, <3>3, <4>1
    <3> QED
      BY <3>1, <3>3, <3>4 DEF r
  <2>4. CASE ~(r <= Len(h) /\ h[r].time < h[left].time)
    <3>1. s = left
      BY <2>2, <2>4
    <3>2. r <= Len(h) => r \in 1 .. Len(h)
      BY <1>3, <2>1
    <3>3. r <= Len(h) => h[s].time <= h[r].time
      <4> SUFFICES ASSUME r <= Len(h) PROVE h[s].time <= h[r].time
        OBVIOUS
      <4>1. h[r].time \in Nat /\ h[left].time \in Nat
        BY <1>1, <1>4, <3>2
      <4> QED
        BY <2>4, <3>1, <4>1
    <3> QED
      BY <1>4, <3>1, <3>3 DEF r
  <2> QED
    BY <2>3, <2>4
<1>7. \A k \in 1 .. Len(h) : k \div 2 = i => h[s].time <= h[k].time
  <2> SUFFICES ASSUME NEW k \in 1 .. Len(h), k \div 2 = i
               PROVE  h[s].time <= h[k].time
    OBVIOUS
  <2>1. k = 2 * i \/ k = 2 * i + 1
    BY <1>2
  <2>2. CASE k = 2 * i
    BY <1>6, <2>2
  <2>3. CASE k = 2 * i + 1
    BY <1>6, <2>3
  <2> QED
    BY <2>1, <2>2, <2>3
<1>8. ASSUME s # i
      PROVE  s > i /\ s \div 2 = i
  <2>1. s = 2 * i \/ s = 2 * i + 1
    BY <1>6, <1>8
  <2> QED
    BY <1>3, <2>1
<1> QED
  BY <1>6, <1>7, <1>8 DEF s

LEMMA SinkStep ==
  ASSUME NEW x \in Places, Sinks(x)
  PROVE  SinkFrom(x) \in Places /\ SinkFrom(x).i > x.i /\ Smallest(x.h, x.i) \in 1 .. Len(x.h)
<1>1. Smallest(x.h, x.i) > x.i /\ Smallest(x.h, x.i) \in 1 .. Len(x.h)
  BY SmallestIs, PlaceFields DEF Sinks
<1>2. Smallest(x.h, x.i) \in Ids
  BY <1>1, PlaceFields, TimerAssumption DEF Ids
<1>3. /\ Exchange(x.h, x.i, Smallest(x.h, x.i)) \in Seq(Events)
      /\ Len(Exchange(x.h, x.i, Smallest(x.h, x.i))) = Len(x.h)
  BY <1>1, Exchanged, PlaceFields
<1> QED
  BY <1>1, <1>2, <1>3, PlaceFields DEF SinkFrom, Places

(* The loop of heapifyUp. *)
UpSize == [x \in Places |-> x.i]
UpMore == {x \in Places : Rises(x)}
UpNext == [x \in Places |-> IF Rises(x) THEN RiseFrom(x) ELSE x]
HeapAt == [x \in Places |-> x.h]

LEMMA UpDescends == Descends(Places, MaxTimers, UpSize, UpMore, UpNext)
  BY TimerAssumption, PlaceFields, RiseStep DEF Descends, UpSize, UpMore, UpNext

LEMMA UpComputes == Computes(HeapifyUp, Places, UpMore, UpNext, HeapAt)
<1> DEFINE Body(f) == [x \in Places |->
                         IF x.i > 1 /\ x.h[x.i].time < x.h[x.i \div 2].time
                         THEN f[[h |-> Exchange(x.h, x.i, x.i \div 2), i |-> x.i \div 2]]
                         ELSE x.h]
<1>1. ASSUME NEW f
      PROVE  /\ f = Body(f) => Computes(f, Places, UpMore, UpNext, HeapAt)
             /\ f \in [Places -> Seq(Events)] /\ Computes(f, Places, UpMore, UpNext, HeapAt)
                  => f = Body(f)
  <2>1. ASSUME NEW x \in Places
        PROVE  Body(f)[x] = IF x \in UpMore THEN f[UpNext[x]] ELSE HeapAt[x]
    BY DEF UpMore, UpNext, HeapAt, Rises, RiseFrom
  <2> HIDE DEF Body
  <2>2. ASSUME f \in [Places -> Seq(Events)]
        PROVE  f = Body(f) <=> \A x \in Places : f[x] = Body(f)[x]
    BY <2>2 DEF Body
  <2> QED
    BY <2>1, <2>2 DEF Computes
<1>2. PICK f \in [Places -> Seq(Events)] : Computes(f, Places, UpMore, UpNext, HeapAt)
  <2>1. HeapAt \in [Places -> Seq(Events)]
    BY PlaceFields DEF HeapAt
  <2> QED
    BY <2>1, UpDescends, Recursion DEF Computable
<1>3. f = Body(f)
  BY <1>1, <1>2
<1>4. HeapifyUp = Body(HeapifyUp)
  BY <1>3 DEF HeapifyUp
<1> QED
  BY <1>1, <1>4

(* The loop of heapifyDown. *)
DownSize == [x \in Places |-> MaxTimers - x.i]
DownMore == {x \in Places : Sinks(x)}
DownNext == [x \in Places |-> IF Sinks(x) THEN SinkFrom(x) ELSE x]

LEMMA DownDescends == Descends(Places, MaxTimers, DownSize, DownMore, DownNext)
  BY TimerAssumption, PlaceFields, SinkStep DEF Descends, DownSize, DownMore, DownNext

LEMMA DownComputes == Computes(HeapifyDown, Places, DownMore, DownNext, HeapAt)
<1> DEFINE Body(f) == [x \in Places |->
                         LET s == Smallest(x.h, x.i)
                         IN IF s = x.i THEN x.h
                            ELSE f[[h |-> Exchange(x.h, x.i, s), i |-> s]]]
<1>1. ASSUME NEW f
      PROVE  /\ f = Body(f) => Computes(f, Places, DownMore, DownNext, HeapAt)
             /\ f \in [Places -> Seq(Events)] /\ Computes(f, Places, DownMore, DownNext, HeapAt)
                  => f = Body(f)
  <2>1. ASSUME NEW x \in Places
        PROVE  Body(f)[x] = IF x \in DownMore THEN f[DownNext[x]] ELSE HeapAt[x]
    BY DEF DownMore, DownNext, HeapAt, Sinks, SinkFrom
  <2> HIDE DEF Body
  <2>2. ASSUME f \in [Places -> Seq(Events)]
        PROVE  f = Body(f) <=> \A x \in Places : f[x] = Body(f)[x]
    BY <2>2 DEF Body
  <2> QED
    BY <2>1, <2>2 DEF Computes
<1>2. PICK f \in [Places -> Seq(Events)] : Computes(f, Places, DownMore, DownNext, HeapAt)
  <2>1. HeapAt \in [Places -> Seq(Events)]
    BY PlaceFields DEF HeapAt
  <2> QED
    BY <2>1, DownDescends, Recursion DEF Computable
<1>3. f = Body(f)
  BY <1>1, <1>2
<1>4. HeapifyDown = Body(HeapifyDown)
  BY <1>3 DEF HeapifyDown
<1> QED
  BY <1>1, <1>4

-----------------------------------------------------------------------------
(* What the loops leave.                                                   *)

\* Only the event at i may be due before its parent.
MayRise(h, i) ==
  \A k \in 2 .. Len(h) : /\ k # i => OrderedAt(h, k)
                         /\ k \div 2 = i /\ i > 1 => h[k].time >= h[i \div 2].time

\* Only the event at i may be due after its children, and that at i0 before its parent if
\* it is still the one that was put there.
MaySink(h, i, i0) ==
  \A k \in 2 .. Len(h) : /\ k \div 2 # i /\ (k = i0 => i # i0) => OrderedAt(h, k)
                         /\ k \div 2 = i /\ i > 1 => h[k].time >= h[i \div 2].time

LEMMA RiseKeeps ==
  ASSUME NEW x \in Places, Rises(x), MayRise(x.h, x.i)
  PROVE  MayRise(RiseFrom(x).h, RiseFrom(x).i)
<1> DEFINE h == x.h
           i == x.i
           p == x.i \div 2
           g == Exchange(h, i, p)
<1>1. /\ h \in Seq(Events) /\ i \in 1 .. Len(h) /\ p \in 1 .. Len(h) /\ i > 1
      /\ \A k \in 1 .. Len(h) : h[k].time \in Nat
      /\ h[i].time < h[p].time
  BY PlaceFields, RiseStep DEF Rises
<1>2. /\ Len(g) = Len(h) /\ g[i] = h[p] /\ g[p] = h[i]
      /\ \A k \in 1 .. Len(h) : k # i /\ k # p => g[k] = h[k]
  BY <1>1, Exchanged
<1> HIDE DEF g, h
<1>3. ASSUME NEW k \in 2 .. Len(h)
      PROVE  /\ k # p => OrderedAt(g, k)
             /\ k \div 2 = p /\ p > 1 => g[k].time >= g[p \div 2].time
  <2>1. /\ k # i => h[k].time >= h[k \div 2].time
        /\ k \div 2 = i => h[k].time >= h[p].time
        /\ p > 1 => h[p].time >= h[p \div 2].time
    BY <1>1 DEF MayRise, OrderedAt, h
  <2>2. k \div 2 \in 1 .. Len(h) /\ k \in 1 .. Len(h) /\ k \div 2 # k
    BY <1>1
  <2>3. p > 1 => p \div 2 \in 1 .. Len(h) /\ p \div 2 # p /\ p \div 2 # i
    BY <1>1
  <2>4. i # p /\ i \in Nat
    BY <1>1
  <2>5. ASSUME k # p
        PROVE  g[k].time >= g[k \div 2].time
    <3>1. CASE k = i
      BY <1>1, <1>2, <3>1
    <3>2. CASE k \div 2 = i
      BY <1>1, <1>2, <2>1, <2>2, <2>4, <2>5, <3>2
    <3>3. CASE k # i /\ k \div 2 = p
      BY <1>1, <1>2, <2>1, <2>2, <2>5, <3>3
    <3>4. CASE k # i /\ k \div 2 # i /\ k \div 2 # p
      BY <1>2, <2>1, <2>2, <2>5, <3>4
    <3> QED
      BY <3>1, <3>2, <3>3, <3>4
  <2>6. ASSUME k \div 2 = p, p > 1
        PROVE  g[k].time >= g[p \div 2].time
    BY <1>1, <1>2, <2>1, <2>2, <2>3, <2>4, <2>6
  <2> QED
    BY <2>5, <2>6 DEF OrderedAt
<1> QED
  BY <1>2, <1>3 DEF MayRise, RiseFrom, g, h

LEMMA SinkKeeps ==
  ASSUME NEW x \in Places, Sinks(x), NEW i0 \in Nat, MaySink(x.h, x.i, i0), i0 <= x.i
  PROVE  MaySink(SinkFrom(x).h, SinkFrom(x).i, i0)
<1> DEFINE h == x.h
           i == x.i
           s == Smallest(x.h, x.i)
           g == Exchange(h, i, s)
<1>1. /\ h \in Seq(Events) /\ i \in 1 .. Len(h) /\ s \in 1 .. Len(h) /\ s \div 2 = i /\ s > i
      /\ \A k \in 1 .. Len(h) : h[k].time \in Nat
      /\ h[s].time < h[i].time
      /\ \A k \in 1 .. Len(h) : k \div 2 = i => h[s].time <= h[k].time
  BY PlaceFields, SmallestIs DEF Sinks
<1>2. /\ Len(g) = Len(h) /\ g[i] = h[s] /\ g[s] = h[i]
      /\ \A k \in 1 .. Len(h) : k # i /\ k # s => g[k] = h[k]
  BY <1>1, Exchanged
<1> HIDE DEF g, h, s
<1>3. ASSUME NEW k \in 2 .. Len(h)
      PROVE  /\ k \div 2 # s /\ (k = i0 => s # i0) => OrderedAt(g, k)
             /\ k \div 2 = s /\ s > 1 => g[k].time >= g[s \div 2].time
  <2>1. /\ k \div 2 # i /\ (k = i0 => i # i0) => h[k].time >= h[k \div 2].time
        /\ s > 1 => h[s].time >= h[s \div 2].time \/ s \div 2 = i
    BY <1>1 DEF MaySink, OrderedAt, h
  <2>2. k \div 2 \in 1 .. Len(h) /\ k \in 1 .. Len(h) /\ k \div 2 # k
    BY <1>1
  <2>3. k = i /\ i > 1 => h[s].time >= h[i \div 2].time
    BY <1>1 DEF MaySink, h
  <2>4. i # s /\ i \in Nat /\ i0 # s /\ s > 1
    BY <1>1
  <2>5. ASSUME k \div 2 # s, k = i0 => s # i0
        PROVE  g[k].time >= g[k \div 2].time
    <3>1. CASE k = i
      BY <1>1, <1>2, <2>2, <2>3, <2>4, <3>1
    <3>2. CASE k \div 2 = i
      BY <1>1, <1>2, <2>2, <2>4, <3>2
    <3>3. CASE k # i /\ k \div 2 # i
      <4>1. k # s
        BY <1>1, <3>3
      <4>2. h[k].time >= h[k \div 2].time
        BY <2>1, <3>3
      <4> QED
        BY <1>2, <2>2, <2>5, <3>3, <4>1, <4>2
    <3> QED
      BY <3>1, <3>2, <3>3
  <2>6. ASSUME k \div 2 = s
        PROVE  g[k].time >= g[i].time
    <3>1. k # i /\ k # s /\ k \div 2 # i /\ k # i0
      BY <1>1, <2>2, <2>4, <2>6
    <3> QED
      BY <1>1, <1>2, <2>1, <2>2, <2>6, <3>1
  <2> QED
    BY <1>1, <2>5, <2>6 DEF OrderedAt
<1> QED
  BY <1>2, <1>3 DEF MaySink, SinkFrom, g, h, s

\* heapifyUp restores the order and loses no event.
LEMMA Risen ==
  ASSUME NEW h0, NEW h \in Seq(Events), NEW i \in 1 .. Len(h), Len(h) <= MaxTimers,
         SameEvents(h, h0), MayRise(h, i)
  PROVE  SameEvents(Raised(h, i), h0) /\ \A k \in 2 .. Len(h0) : OrderedAt(Raised(h, i), k)
<1> DEFINE x0 == [h |-> h, i |-> i]
           Kept == {x \in Places : SameEvents(x.h, h0) /\ MayRise(x.h, x.i)}
<1>1. x0 \in Kept
  BY EventFields, TimerAssumption DEF Places, Ids
<1>2. ASSUME NEW x \in Kept, x \in UpMore
      PROVE  UpNext[x] \in Kept
  <2>1. RiseFrom(x) \in Places /\ x.i \div 2 \in 1 .. Len(x.h) /\ Rises(x)
    BY <1>2, RiseStep DEF UpMore
  <2>2. MayRise(RiseFrom(x).h, RiseFrom(x).i)
    BY <2>1, RiseKeeps
  <2>3. SameEvents(RiseFrom(x).h, h0)
    BY <2>1, ExchangeKeeps, PlaceFields DEF RiseFrom
  <2> QED
    BY <2>1, <2>2, <2>3 DEF UpNext
<1>3. PICK y \in Kept : y \notin UpMore /\ HeapifyUp[x0] = HeapAt[y]
  <2> HIDE DEF Kept, x0
  <2>1. Kept \in SUBSET Places
    BY DEF Kept
  <2> QED
    BY <1>1, <1>2, <2>1, UpDescends, UpComputes, Loop
<1>4. Raised(h, i) = y.h
  BY <1>3 DEF Raised, HeapAt
<1>5. ASSUME NEW k \in 2 .. Len(y.h)
      PROVE  OrderedAt(y.h, k)
  <2>1. y \in Places /\ ~Rises(y)
    BY <1>3 DEF UpMore
  <2>2. CASE k # y.i
    BY <2>2 DEF MayRise
  <2>3. CASE k = y.i
    <3>1. y.h[k].time \in Nat /\ y.h[k \div 2].time \in Nat
      BY <2>1, PlaceFields
    <3> QED
      BY <2>1, <2>3, <3>1 DEF Rises, OrderedAt
  <2> QED
    BY <2>2, <2>3
<1> QED
  BY <1>4, <1>5 DEF SameEvents

\* heapifyDown loses no event and leaves only the one at i to move.
LEMMA Sunk ==
  ASSUME NEW h0, NEW h \in Seq(Events), NEW i \in 1 .. Len(h), Len(h) <= MaxTimers,
         SameEvents(h, h0), MaySink(h, i, i)
  PROVE  SameEvents(Lowered(h, i), h0) /\ MayRise(Lowered(h, i), i)
<1> DEFINE x0 == [h |-> h, i |-> i]
           Kept == {x \in Places : SameEvents(x.h, h0) /\ MaySink(x.h, x.i, i) /\ i <= x.i}
<1>1. x0 \in Kept
  BY EventFields, TimerAssumption DEF Places, Ids
<1>2. ASSUME NEW x \in Kept, x \in DownMore
      PROVE  DownNext[x] \in Kept
  <2>1. SinkFrom(x) \in Places /\ Smallest(x.h, x.i) \in 1 .. Len(x.h) /\ Sinks(x) /\ SinkFrom(x).i > x.i
    BY <1>2, SinkStep DEF DownMore
  <2>2. MaySink(SinkFrom(x).h, SinkFrom(x).i, i)
    BY <2>1, SinkKeeps
  <2>3. SameEvents(SinkFrom(x).h, h0)
    BY <2>1, ExchangeKeeps, PlaceFields DEF SinkFrom
  <2>4. i <= SinkFrom(x).i
    BY <2>1, PlaceFields
  <2> QED
    BY <2>1, <2>2, <2>3, <2>4 DEF DownNext
<1>3. PICK y \in Kept : y \notin DownMore /\ HeapifyDown[x0] = HeapAt[y]
  <2> HIDE DEF Kept, x0
  <2>1. Kept \in SUBSET Places
    BY DEF Kept
  <2> QED
    BY <1>1, <1>2, <2>1, DownDescends, DownComputes, Loop
<1>4. Lowered(h, i) = y.h
  BY <1>3 DEF Lowered, HeapAt
<1> DEFINE g == y.h
<1>5. y \in Places /\ Smallest(g, y.i) = y.i
  BY <1>3 DEF DownMore, Sinks
<1>6. /\ g \in Seq(Events) /\ \A k \in 1 .. Len(g) : g[k].time \in Nat
      /\ y.i \in 1 .. Len(g) /\ i <= y.i
      /\ \A k \in 1 .. Len(g) : k \div 2 = y.i => g[y.i].time <= g[k].time
  BY <1>5, SmallestIs, PlaceFields
<1>7. MaySink(g, y.i, i)
  OBVIOUS
<1> HIDE DEF g
<1>8. ASSUME NEW k \in 2 .. Len(g), k = i => y.i # i
      PROVE  OrderedAt(g, k)
  BY <1>6, <1>7, <1>8 DEF MaySink, OrderedAt
<1>9. ASSUME NEW k \in 2 .. Len(g), k \div 2 = i, i > 1
      PROVE  g[k].time >= g[i \div 2].time
  <2>1. CASE y.i = i
    BY <1>7, <1>9, <2>1 DEF MaySink
  <2>2. CASE y.i # i
    <3>1. i \in 2 .. Len(g) /\ k # i /\ i \div 2 \in 1 .. Len(g) /\ k \in 1 .. Len(g)
      BY <1>6, <1>9
    <3>2. g[k].time >= g[i].time /\ g[i].time >= g[i \div 2].time
      BY <1>8, <1>9, <2>2, <3>1 DEF OrderedAt
    <3> QED
      BY <1>6, <3>1, <3>2
  <2> QED
    BY <2>1, <2>2
<1> QED
  BY <1>3, <1>4, <1>8, <1>9 DEF MayRise, g

-----------------------------------------------------------------------------
(* What the operations leave.                                              *)

Ordered(h) == \A k \in 2 .. Len(h) : OrderedAt(h, k)
IsHeap(h) == h \in Seq(Events) /\ Len(h) <= MaxTimers /\ Distinct(h) /\ Ordered(h)

\* Of a heap, the root is due first.
LEMMA RootLeast ==
  ASSUME NEW h, IsHeap(h), NEW k \in 1 .. Len(h)
  PROVE  h[1].time <= h[k].time
<1> DEFINE Early == {j \in 1 .. Len(h) : ~(h[1].time <= h[j].time)}
<1>1. Len(h) \in Nat /\ \A j \in 1 .. Len(h) : h[j].time \in Nat
  BY EventFields DEF IsHeap
<1> SUFFICES ASSUME Early # {}
             PROVE  FALSE
  OBVIOUS
<1>2. PICK m \in Early : \A l \in Early : m <= l
  <2>1. Early \in SUBSET (0 .. Len(h))
    BY <1>1
  <2> HIDE DEF Early
  <2> QED
    BY <1>1, <2>1, Least
<1>3. m \in 2 .. Len(h) /\ m \div 2 \in 1 .. Len(h) /\ m \div 2 < m
  BY <1>1, <1>2
<1>4. m \div 2 \notin Early
  BY <1>2, <1>3
<1>5. h[m].time >= h[m \div 2].time
  BY <1>3 DEF IsHeap, Ordered, OrderedAt
<1> QED
  BY <1>1, <1>2, <1>3, <1>4, <1>5

LEMMA Pushed ==
  ASSUME NEW h, IsHeap(h), Len(h) < MaxTimers, NEW e \in Events,
         \A k \in 1 .. Len(h) : h[k].id # e.id
  PROVE  /\ IsHeap(Push(h, e)) /\ Len(Push(h, e)) = Len(h) + 1
         /\ Within(Push(h, e)) = Within(h) \cup {e}
<1> DEFINE a == Append(h, e)
           n == Len(h) + 1
<1>1. h \in Seq(Events) /\ Len(h) \in Nat
  BY EventFields DEF IsHeap
<1>2. /\ a \in Seq(Events) /\ Len(a) = n /\ a[n] = e /\ n \in 1 .. n
      /\ \A k \in 1 .. Len(h) : a[k] = h[k] /\ k \in 1 .. n
      /\ \A k \in 1 .. n : k = n \/ k \in 1 .. Len(h)
  BY <1>1
<1> HIDE DEF a
<1>3. Within(a) = Within(h) \cup {e}
  BY <1>2 DEF Within
<1>4. Distinct(a)
  BY <1>2 DEF Distinct, IsHeap
<1>5. MayRise(a, n)
  <2> SUFFICES ASSUME NEW k \in 2 .. n
               PROVE  (k # n => OrderedAt(a, k)) /\ k \div 2 # n
    BY <1>2 DEF MayRise
  <2>1. k \div 2 < k /\ k \div 2 \in 1 .. n
    BY <1>1
  <2>2. k # n => k \in 2 .. Len(h) /\ k \div 2 \in 1 .. Len(h)
    BY <1>1, <2>1
  <2>3. k \div 2 # n
    BY <1>1, <2>1
  <2> QED
    BY <1>2, <2>2, <2>3 DEF OrderedAt, IsHeap, Ordered
<1>6. SameEvents(a, a)
  BY <1>2, <1>4 DEF SameEvents
<1>7. Len(a) <= MaxTimers
  BY <1>1, <1>2, TimerAssumption
<1>8. SameEvents(Push(h, e), a) /\ \A k \in 2 .. Len(a) : OrderedAt(Push(h, e), k)
  BY <1>2, <1>5, <1>6, <1>7, Risen DEF Push, a
<1> QED
  BY <1>2, <1>3, <1>7, <1>8 DEF SameEvents, IsHeap, Ordered

LEMMA Shortened ==
  ASSUME NEW h \in Seq(Events), Len(h) > 0
  PROVE  /\ Shrunk(h) \in Seq(Events) /\ Len(Shrunk(h)) = Len(h) - 1
         /\ \A k \in 1 .. Len(h) - 1 : Shrunk(h)[k] = h[k]
<1>1. Len(h) \in Nat /\ Len(h) - 1 \in Int /\ 1 \in Int /\ \A k \in 1 .. Len(h) - 1 : h[k] \in Events
  OBVIOUS
<1>2. /\ Shrunk(h) \in Seq(Events)
      /\ Len(Shrunk(h)) = IF 1 <= Len(h) - 1 THEN Len(h) - 1 - 1 + 1 ELSE 0
      /\ \A k \in 1 .. Len(h) - 1 - 1 + 1 : Shrunk(h)[k] = h[1 + k - 1]
  BY <1>1, SubSeqProperties DEF Shrunk
<1>3. \A k \in 1 .. Len(h) - 1 : 1 + k - 1 = k
  OBVIOUS
<1>4. \A n \in Nat : n > 0 => n - 1 - 1 + 1 = n - 1 /\ (~(1 <= n - 1) => n - 1 = 0)
  OBVIOUS
<1> QED
  BY <1>1, <1>2, <1>3, <1>4

\* The last event has taken the place of the one at i.
LEMMA Moved ==
  ASSUME NEW h, IsHeap(h), NEW i \in 1 .. Len(h), i # Len(h), NEW g,
         g = Shrunk([h EXCEPT ![i] = h[Len(h)]])
  PROVE  /\ g \in Seq(Events) /\ Len(g) = Len(h) - 1 /\ i \in 1 .. Len(g)
         /\ SameEvents(g, g) /\ MaySink(g, i, i)
         /\ Within(g) = Within(h) \ {h[i]}
<1> DEFINE n == Len(h) - 1
<1>1. /\ h \in Seq(Events) /\ Len(h) \in Nat /\ n \in Nat /\ i \in 1 .. n /\ Len(h) \notin 1 .. n
      /\ \A k \in 1 .. Len(h) : k \in 1 .. n \/ k = Len(h)
      /\ \A k \in 1 .. n : k \in 1 .. Len(h)
      /\ Len(h) \in 1 .. Len(h)
  BY EventFields DEF IsHeap
<1>2. /\ g \in Seq(Events) /\ Len(g) = n
      /\ \A k \in 1 .. n : g[k] = IF k = i THEN h[Len(h)] ELSE h[k]
  <2> DEFINE w == [h EXCEPT ![i] = h[Len(h)]]
  <2>1. w \in Seq(Events) /\ Len(w) = Len(h)
        /\ \A k \in 1 .. Len(h) : w[k] = IF k = i THEN h[Len(h)] ELSE h[k]
    BY <1>1
  <2> HIDE DEF w
  <2>2. Shrunk(w) \in Seq(Events) /\ Len(Shrunk(w)) = n /\ \A k \in 1 .. n : Shrunk(w)[k] = w[k]
    BY <1>1, <2>1, Shortened
  <2> QED
    BY <1>1, <2>1, <2>2 DEF w
<1> HIDE DEF n
<1>3. Distinct(g)
  <2> DEFINE from(k) == IF k = i THEN Len(h) ELSE k
  <2>1. \A k \in 1 .. n : from(k) \in 1 .. Len(h) /\ g[k] = h[from(k)]
    BY <1>1, <1>2
  <2>2. \A j, k \in 1 .. n : from(j) = from(k) => j = k
    BY <1>1
  <2> HIDE DEF from, n
  <2>3. Distinct(h)
    BY DEF IsHeap
  <2> QED
    BY ONLY <1>2, <2>1, <2>2, <2>3 DEF Distinct
<1>4. Within(g) = Within(h) \ {h[i]}
  <2>1. \A k \in 1 .. Len(h) : k # i => h[k] # h[i]
    BY DEF IsHeap, Distinct
  <2>2. ASSUME NEW k \in 1 .. n
        PROVE  g[k] \in Within(h) \ {h[i]}
    BY <1>1, <1>2, <2>1 DEF Within
  <2>3. ASSUME NEW k \in 1 .. Len(h), h[k] # h[i]
        PROVE  h[k] \in Within(g)
    <3>1. CASE k = Len(h)
      BY <1>1, <1>2, <3>1 DEF Within
    <3>2. CASE k \in 1 .. n
      BY <1>1, <1>2, <2>3, <3>2 DEF Within
    <3> QED
      BY <1>1, <3>1, <3>2
  <2>4. Within(g) \subseteq Within(h) \ {h[i]}
    BY <1>2, <2>2 DEF Within
  <2>5. Within(h) \ {h[i]} \subseteq Within(g)
    BY <2>3 DEF Within
  <2> QED
    BY <2>4, <2>5
<1>5. MaySink(g, i, i)
  <2> SUFFICES ASSUME NEW k \in 2 .. n
               PROVE  /\ k \div 2 # i /\ k # i => OrderedAt(g, k)
                      /\ k \div 2 = i /\ i > 1 => g[k].time >= g[i \div 2].time
    BY <1>2 DEF MaySink
  <2>1. /\ k \in 1 .. n /\ k \in 2 .. Len(h) /\ k \div 2 \in 1 .. n /\ k \div 2 # k
        /\ i > 1 => i \in 2 .. Len(h) /\ i \div 2 \in 1 .. n /\ i \div 2 # i
    BY <1>1 DEF n
  <2>2. h[k].time >= h[k \div 2].time /\ (i > 1 => h[i].time >= h[i \div 2].time)
    BY <2>1 DEF IsHeap, Ordered, OrderedAt
  <2>3. k \div 2 # i /\ k # i => g[k].time >= g[k \div 2].time
    BY <1>2, <2>1, <2>2
  <2>4. ASSUME k \div 2 = i, i > 1
        PROVE  g[k].time >= g[i \div 2].time
    <3>1. g[k] = h[k] /\ g[i \div 2] = h[i \div 2]
      BY <1>2, <2>1, <2>4
    <3>2. h[k].time \in Nat /\ h[i].time \in Nat /\ h[i \div 2].time \in Nat
      BY <1>1, <2>1, <2>4, EventFields
    <3> QED
      BY <2>2, <2>4, <3>1, <3>2
  <2> QED
    BY <2>3, <2>4 DEF OrderedAt
<1> QED
  BY <1>1, <1>2, <1>3, <1>4, <1>5 DEF SameEvents, n

\* The last event is dropped.
LEMMA Dropped ==
  ASSUME NEW h, IsHeap(h), h # <<>>
  PROVE  /\ IsHeap(Shrunk(h)) /\ Len(Shrunk(h)) = Len(h) - 1
         /\ Within(Shrunk(h)) = Within(h) \ {h[Len(h)]}
<1> DEFINE n == Len(h) - 1
           g == Shrunk(h)
<1>1. /\ h \in Seq(Events) /\ Len(h) \in Nat /\ n \in Nat /\ Len(h) \notin 1 .. n
      /\ \A k \in 1 .. Len(h) : k \in 1 .. n \/ k = Len(h)
      /\ \A k \in 1 .. n : k \in 1 .. Len(h)
      /\ Len(h) \in 1 .. Len(h) /\ n <= MaxTimers
  BY EventFields, TimerAssumption DEF IsHeap
<1>2. g \in Seq(Events) /\ Len(g) = n /\ \A k \in 1 .. n : g[k] = h[k]
  BY <1>1, Shortened
<1> HIDE DEF g
<1>3. Distinct(g)
  BY <1>1, <1>2 DEF Distinct, IsHeap
<1>4. Within(g) = Within(h) \ {h[Len(h)]}
  <2>1. \A k \in 1 .. n : h[k] # h[Len(h)]
    BY <1>1 DEF IsHeap, Distinct
  <2> HIDE DEF n
  <2> QED
    BY <1>1, <1>2, <2>1 DEF Within
<1>5. Ordered(g)
  <2> SUFFICES ASSUME NEW k \in 2 .. n
               PROVE  OrderedAt(g, k)
    BY <1>2 DEF Ordered
  <2>1. k \in 1 .. n /\ k \in 2 .. Len(h) /\ k \div 2 \in 1 .. n
    BY <1>1
  <2> QED
    BY <1>2, <2>1 DEF IsHeap, Ordered, OrderedAt
<1>6. IsHeap(g)
  <2>1. Len(g) <= MaxTimers
    BY <1>1, <1>2, TimerAssumption
  <2> QED
    BY ONLY <1>2, <1>3, <1>5, <2>1 DEF IsHeap
<1> QED
  BY <1>2, <1>4, <1>6 DEF g

LEMMA RemoveLeaves ==
  ASSUME NEW h, IsHeap(h), NEW i \in 1 .. Len(h)
  PROVE  /\ IsHeap(Remove(h, i)) /\ Len(Remove(h, i)) = Len(h) - 1
         /\ Within(Remove(h, i)) = Within(h) \ {h[i]}
<1>1. CASE i = Len(h)
  BY <1>1, Dropped DEF Remove
<1>2. CASE i # Len(h)
  <2> DEFINE g == Shrunk([h EXCEPT ![i] = h[Len(h)]])
             d == Lowered(g, i)
  <2>1. /\ g \in Seq(Events) /\ Len(g) = Len(h) - 1 /\ i \in 1 .. Len(g)
        /\ SameEvents(g, g) /\ MaySink(g, i, i)
        /\ Within(g) = Within(h) \ {h[i]}
    <3> HIDE DEF g
    <3>1. g = Shrunk([h EXCEPT ![i] = h[Len(h)]])
      BY DEF g
    <3> QED
      BY <1>2, <3>1, Moved
  <2>2. Remove(h, i) = Raised(d, i)
    BY <1>2 DEF Remove
  <2> HIDE DEF g, d
  <2>3. Len(h) \in Nat /\ Len(g) <= MaxTimers
    BY <2>1, EventFields, TimerAssumption DEF IsHeap
  <2>4. SameEvents(d, g) /\ MayRise(d, i)
    BY <2>1, <2>3, Sunk DEF d
  <2>5. SameEvents(Remove(h, i), g) /\ \A k \in 2 .. Len(g) : OrderedAt(Remove(h, i), k)
    BY <2>1, <2>2, <2>3, <2>4, Risen DEF SameEvents
  <2> QED
    BY <2>1, <2>3, <2>5 DEF SameEvents, IsHeap, Ordered
<1> QED
  BY <1>1, <1>2

\* fireTimer takes the root off.
LEMMA RootTaken ==
  ASSUME NEW h, IsHeap(h), h # <<>>, NEW g,
         g = IF Len(h) = 1 THEN <<>> ELSE Lowered(Shrunk([h EXCEPT ![1] = h[Len(h)]]), 1)
  PROVE  /\ IsHeap(g) /\ Len(g) = Len(h) - 1
         /\ Within(g) = Within(h) \ {h[1]}
<1>1. h \in Seq(Events) /\ Len(h) \in Nat /\ 1 \in 1 .. Len(h)
  BY EventFields DEF IsHeap
<1>2. CASE Len(h) = 1
  BY <1>1, <1>2, TimerAssumption DEF IsHeap, Distinct, Ordered, Within
<1>3. CASE Len(h) # 1
  <2> DEFINE m == Shrunk([h EXCEPT ![1] = h[Len(h)]])
  <2>1. /\ m \in Seq(Events) /\ Len(m) = Len(h) - 1 /\ 1 \in 1 .. Len(m)
        /\ SameEvents(m, m) /\ MaySink(m, 1, 1)
        /\ Within(m) = Within(h) \ {h[1]}
    <3> HIDE DEF m
    <3>1. m = Shrunk([h EXCEPT ![1] = h[Len(h)]])
      BY DEF m
    <3> QED
      BY <1>1, <1>3, <3>1, Moved
  <2> HIDE DEF m
  <2>2. g = Lowered(m, 1)
    BY <1>3 DEF m
  <2>3. Len(m) <= MaxTimers
    BY <1>1, <2>1, TimerAssumption DEF IsHeap
  <2>4. SameEvents(g, m) /\ MayRise(g, 1)
    BY <2>1, <2>2, <2>3, Sunk
  <2>5. Ordered(g)
    BY ONLY <2>4 DEF MayRise, Ordered
  <2> QED
    BY <2>1, <2>3, <2>4, <2>5 DEF SameEvents, IsHeap
<1> QED
  BY <1>2, <1>3

-----------------------------------------------------------------------------
(* The invariant.                                                          *)

Set(id) == state[id] = "set"
Setting == {c \in Callers : setting[c] # None}

\* The heap holds the timers that are set, each with its due time, and there are handles
\* left for those that are being inserted.
TimerInv ==
  /\ clock \in 0 .. MaxTime /\ IsHeap(heap)
  /\ capacity \in Nat \ {0} /\ Len(heap) <= capacity
  /\ nextId \in Nat /\ Cardinality(Setting) + nextId <= MaxTimers
  /\ phase \in {"sleep", "fire", "call"}
  /\ current \in 0 .. TimeMod - 1 /\ current <= clock
  /\ event \in Ids \cup {None} /\ (event # None <=> phase = "call")
  /\ setting \in [Callers -> 0 .. MaxTime \cup {None}]
  /\ \A c \in Callers : setting[c] # None =>
       \E time \in 0 .. MaxTime, delay \in Delays : setting[c] = time + delay
  /\ due \in [Ids -> 0 .. MaxTime]
  /\ state \in [Ids -> {"unused", "set", "ended"}]
  /\ \A id \in Ids : state[id] = "unused" <=> id > nextId
  /\ \A k \in 1 .. Len(heap) : Set(heap[k].id) /\ heap[k].time = due[heap[k].id] % TimeMod
  /\ \A id \in Ids : Set(id) => \E k \in 1 .. Len(heap) : heap[k].id = id

LEMMA FiniteCallers == IsFiniteSet(Callers)
<1>1. IsFiniteSet(Tasks \cup {Thread})
  BY TimerAssumption, FS_AddElement
<1> QED
  BY <1>1 DEF Callers

\* A caller that begins or ends to insert changes the number of those that do by one.
LEMMA SettingCounted ==
  ASSUME TimerInv, NEW c \in Callers, NEW x, setting' = [setting EXCEPT ![c] = x]
  PROVE  /\ Cardinality(Setting) \in Nat
         /\ setting[c] = None /\ x # None => Cardinality(Setting)' = Cardinality(Setting) + 1
         /\ setting[c] # None /\ x = None => Cardinality(Setting)' = Cardinality(Setting) - 1
<1>1. IsFiniteSet(Setting) /\ Cardinality(Setting) \in Nat
  <2>1. Setting \subseteq Callers
    BY DEF Setting
  <2> QED
    BY <2>1, FiniteCallers, FS_Subset, FS_CardinalityType
<1>2. setting'[c] = x /\ \A d \in Callers : d # c => setting'[d] = setting[d]
  BY DEF TimerInv
<1>3. ASSUME setting[c] = None, x # None
      PROVE  Cardinality(Setting)' = Cardinality(Setting) + 1
  <2>1. Setting' = Setting \cup {c} /\ c \notin Setting
    BY <1>2, <1>3 DEF Setting
  <2> QED
    BY <1>1, <2>1, FS_AddElement
<1>4. ASSUME setting[c] # None, x = None
      PROVE  Cardinality(Setting)' = Cardinality(Setting) - 1
  <2>1. Setting' = Setting \ {c} /\ c \in Setting
    BY <1>2, <1>4 DEF Setting
  <2> QED
    BY <1>1, <2>1, FS_RemoveElement
<1> QED
  BY <1>1, <1>3, <1>4

LEMMA TimerInvStarts == Init => TimerInv
<1> SUFFICES ASSUME Init
             PROVE  TimerInv
  OBVIOUS
<1>1. IsHeap(heap) /\ Len(heap) = 0
  BY TimerAssumption DEF Init, IsHeap, Distinct, Ordered
<1>2. Cardinality(Setting) = 0
  <2>1. Setting = {}
    BY DEF Init, Setting
  <2> QED
    BY <2>1, FS_EmptySet
<1>3. 0 \in 0 .. TimeMod - 1 /\ 0 \in 0 .. MaxTime
  BY TimerAssumption
<1>4. \A id \in Ids : id > 0
  BY DEF Ids
<1> QED
  BY <1>1, <1>2, <1>3, <1>4, TimerAssumption DEF Init, TimerInv, Set

\* The time a timer is due as the heap stores it.
LEMMA Wrapped ==
  ASSUME NEW time \in Nat
  PROVE  /\ time % TimeMod \in 0 .. TimeMod - 1 /\ time % TimeMod <= time
         /\ time < TimeMod => time % TimeMod = time
  BY TimerAssumption

\* Every timer of the heap has a handle of its own.
LEMMA HeapFits ==
  ASSUME TimerInv
  PROVE  Len(heap) <= nextId
<1> DEFINE f == [k \in 1 .. Len(heap) |-> heap[k].id]
<1>1. Len(heap) \in Nat /\ nextId \in Nat
  BY EventFields DEF TimerInv, IsHeap
<1>2. \A k \in 1 .. Len(heap) : heap[k].id \in 1 .. nextId
  <2> SUFFICES ASSUME NEW k \in 1 .. Len(heap)
               PROVE  heap[k].id \in 1 .. nextId
    OBVIOUS
  <2>1. heap[k].id \in Ids /\ state[heap[k].id] # "unused"
    BY EventFields DEF TimerInv, IsHeap, Set
  <2> QED
    BY <1>1, <2>1, TimerAssumption DEF TimerInv, Ids
<1>3. f \in Injection(1 .. Len(heap), 1 .. nextId)
  BY <1>2 DEF Injection, IsInjective, TimerInv, IsHeap, Distinct
<1>4. IsFiniteSet(1 .. nextId) /\ Cardinality(1 .. nextId) = nextId /\ Cardinality(1 .. Len(heap)) = Len(heap)
  <2>1. ASSUME NEW n \in Nat
        PROVE  IsFiniteSet(1 .. n) /\ Cardinality(1 .. n) = n
    <3>1. 1 \in Int /\ n \in Int /\ (1 > n => n = 0) /\ n - 1 + 1 = n
      OBVIOUS
    <3>2. IsFiniteSet(1 .. n) /\ Cardinality(1 .. n) = IF 1 > n THEN 0 ELSE n - 1 + 1
      BY <3>1, FS_Interval
    <3> QED
      BY <3>1, <3>2
  <2> QED
    BY <1>1, <2>1
<1>5. Cardinality(1 .. Len(heap)) <= Cardinality(1 .. nextId)
  BY <1>3, <1>4, FS_Injection
<1> QED
  BY <1>4, <1>5

LEMMA InsertKeeps ==
  ASSUME TimerInv, NEW c \in Callers, Insert(c)
  PROVE  /\ TimerInv' /\ nextId' \in Ids /\ state[nextId'] = "unused" /\ ~Set(nextId')
         /\ Within(heap)' = Within(heap) \cup {[id |-> nextId', time |-> setting[c] % TimeMod]}
<1> DEFINE e == [id |-> nextId', time |-> setting[c] % TimeMod]
<1>1. setting[c] \in 0 .. MaxTime /\ setting[c] \in Nat
  BY TimerAssumption DEF Insert, TimerInv
<1>2. Cardinality(Setting)' = Cardinality(Setting) - 1 /\ Cardinality(Setting) \in Nat
      /\ Cardinality(Setting)' \in Nat
  <2>1. Cardinality(Setting)' = Cardinality(Setting) - 1 /\ Cardinality(Setting) \in Nat
    BY SettingCounted DEF Insert
  <2>2. c \in Setting /\ IsFiniteSet(Setting)
    <3>1. Setting \subseteq Callers
      BY DEF Setting
    <3> QED
      BY <3>1, FiniteCallers, FS_Subset DEF Insert, Setting
  <2>3. Cardinality(Setting) # 0
    BY <2>2, FS_EmptySet
  <2> QED
    BY <2>1, <2>3
<1>3. nextId' = nextId + 1 /\ nextId' \in Nat /\ nextId' \in Ids
      /\ Cardinality(Setting)' + nextId' <= MaxTimers
  BY <1>2, TimerAssumption, SMTT(30) DEF Insert, TimerInv, Ids
<1>4. state[nextId'] = "unused" /\ ~Set(nextId')
  BY <1>3 DEF TimerInv, Set
<1>5. e \in Events /\ \A k \in 1 .. Len(heap) : heap[k].id # e.id
  BY <1>1, <1>3, <1>4, Wrapped DEF Events, TimerInv
<1>6. Len(heap) < MaxTimers
  <2>1. Len(heap) <= nextId /\ Len(heap) \in Nat /\ nextId \in Nat
    BY HeapFits, EventFields DEF TimerInv, IsHeap
  <2> QED
    BY <1>2, <1>3, <2>1, TimerAssumption
<1>7. /\ heap' = Push(heap, e) /\ IsHeap(heap')
      /\ Len(heap') = Len(heap) + 1 /\ Within(heap') = Within(heap) \cup {e}
  <2>1. heap' = Push(heap, e)
    BY DEF Insert
  <2>2. IsHeap(heap)
    BY DEF TimerInv
  <2> HIDE DEF e
  <2> QED
    BY <1>5, <1>6, <2>1, <2>2, Pushed
<1>8. capacity' \in Nat \ {0} /\ Len(heap') <= capacity'
  <2>1. Len(heap) \in Nat /\ Len(heap') \in Nat
    BY <1>7, EventFields DEF TimerInv, IsHeap
  <2> QED
    BY <1>7, <2>1 DEF TimerInv, Insert
<1>9. /\ due' \in [Ids -> 0 .. MaxTime] /\ due'[nextId'] = setting[c]
      /\ state' \in [Ids -> {"unused", "set", "ended"}] /\ state'[nextId'] = "set"
      /\ \A id \in Ids : id # nextId' => due'[id] = due[id] /\ state'[id] = state[id]
  BY <1>1, <1>3 DEF Insert, TimerInv
<1>10. \A k \in 1 .. Len(heap') : heap'[k] \in Within(heap')
  BY DEF Within
<1>11. \A x \in Within(heap) : /\ x.id \in Ids /\ x.id # nextId'
                               /\ state[x.id] = "set" /\ x.time = due[x.id] % TimeMod
  <2> SUFFICES ASSUME NEW k \in 1 .. Len(heap)
               PROVE  /\ heap[k].id \in Ids /\ heap[k].id # nextId'
                      /\ state[heap[k].id] = "set" /\ heap[k].time = due[heap[k].id] % TimeMod
    BY DEF Within
  <2> QED
    BY <1>5, EventFields DEF TimerInv, Set, IsHeap
<1>12. \A k \in 1 .. Len(heap') : /\ state'[heap'[k].id] = "set"
                                  /\ heap'[k].time = due'[heap'[k].id] % TimeMod
  <2> SUFFICES ASSUME NEW x \in Within(heap')
               PROVE  state'[x.id] = "set" /\ x.time = due'[x.id] % TimeMod
    BY <1>10
  <2> QED
    BY <1>7, <1>9, <1>11
<1>13. ASSUME NEW id \in Ids, state'[id] = "set"
       PROVE  \E k \in 1 .. Len(heap') : heap'[k].id = id
  <2>1. \E x \in Within(heap') : x.id = id
    <3>1. CASE id = nextId'
      BY <1>7, <3>1
    <3>2. CASE id # nextId'
      <4>1. PICK k \in 1 .. Len(heap) : heap[k].id = id
        BY <1>9, <1>13, <3>2 DEF TimerInv, Set
      <4> QED
        BY <1>7, <4>1 DEF Within
    <3> QED
      BY <3>1, <3>2
  <2> QED
    BY <2>1 DEF Within
<1>14. \A id \in Ids : state'[id] = "unused" <=> id > nextId'
  BY <1>3, <1>9 DEF TimerInv, Ids
<1>15. setting' \in [Callers -> 0 .. MaxTime \cup {None}]
       /\ \A d \in Callers : setting'[d] # None => setting'[d] = setting[d]
  BY DEF Insert, TimerInv
<1>16. TimerInv'
  <2>1. /\ clock' \in 0 .. MaxTime /\ phase' \in {"sleep", "fire", "call"}
        /\ current' \in 0 .. TimeMod - 1 /\ current' <= clock'
        /\ event' \in Ids \cup {None} /\ (event' # None <=> phase' = "call")
    BY DEF TimerInv, Insert
  <2>2. \A d \in Callers : setting'[d] # None =>
          \E time \in 0 .. MaxTime, delay \in Delays : setting'[d] = time + delay
    BY <1>15 DEF TimerInv
  <2> QED
    BY <1>3, <1>7, <1>8, <1>9, <1>12, <1>13, <1>14, <1>15, <2>1, <2>2 DEF TimerInv, Set
<1> QED
  BY <1>3, <1>4, <1>7, <1>16

\* A timer is cancelled or fires.
LEMMA TakenKeeps ==
  ASSUME TimerInv, NEW i \in 1 .. Len(heap), IsHeap(heap'), Len(heap') = Len(heap) - 1,
         Within(heap') = Within(heap) \ {heap[i]}, End({heap[i].id}),
         UNCHANGED <<clock, capacity, nextId, current, setting>>,
         phase' \in {"sleep", "fire", "call"}, event' \in Ids \cup {None},
         event' # None <=> phase' = "call"
  PROVE  TimerInv'
<1>1. /\ due' \in [Ids -> 0 .. MaxTime] /\ state' \in [Ids -> {"unused", "set", "ended"}]
      /\ heap[i].id \in Ids /\ state[heap[i].id] = "set" /\ state'[heap[i].id] = "ended"
      /\ \A id \in Ids : id # heap[i].id => due'[id] = due[id] /\ state'[id] = state[id]
  <2>1. heap[i].id \in Ids /\ state[heap[i].id] = "set" /\ 0 \in 0 .. MaxTime
    BY EventFields, TimerAssumption DEF TimerInv, IsHeap, Set
  <2> QED
    BY <2>1 DEF End, TimerInv
<1>2. Len(heap) \in Nat /\ Len(heap') \in Nat /\ Len(heap') <= capacity
  BY EventFields DEF TimerInv, IsHeap
<1>3. \A x \in Within(heap') : x.id # heap[i].id /\ x \in Within(heap)
  <2>1. \A x \in Within(heap) : x # heap[i] => x.id # heap[i].id
    BY DEF Within, TimerInv, IsHeap, Distinct
  <2> QED
    BY <2>1
<1>4. \A x \in Within(heap) : x.id \in Ids /\ state[x.id] = "set" /\ x.time = due[x.id] % TimeMod
  <2> SUFFICES ASSUME NEW k \in 1 .. Len(heap)
               PROVE  /\ heap[k].id \in Ids /\ state[heap[k].id] = "set"
                      /\ heap[k].time = due[heap[k].id] % TimeMod
    BY DEF Within
  <2> QED
    BY EventFields DEF TimerInv, Set, IsHeap
<1>5. ASSUME NEW k \in 1 .. Len(heap')
      PROVE  state'[heap'[k].id] = "set" /\ heap'[k].time = due'[heap'[k].id] % TimeMod
  <2>1. heap'[k] \in Within(heap')
    BY DEF Within
  <2> QED
    BY <1>1, <1>3, <1>4, <2>1
<1>6. ASSUME NEW id \in Ids, state'[id] = "set"
      PROVE  \E k \in 1 .. Len(heap') : heap'[k].id = id
  <2>1. id # heap[i].id /\ state[id] = "set"
    BY <1>1, <1>6
  <2>2. PICK k \in 1 .. Len(heap) : heap[k].id = id
    BY <2>1 DEF TimerInv, Set
  <2>3. heap[k] \in Within(heap')
    BY <2>1, <2>2 DEF Within
  <2> QED
    BY <2>2, <2>3 DEF Within
<1>7. \A id \in Ids : state'[id] = "unused" <=> id > nextId'
  BY <1>1 DEF TimerInv
<1>8. Setting' = Setting
  BY DEF Setting
<1> QED
  BY <1>1, <1>2, <1>5, <1>6, <1>7, <1>8 DEF TimerInv, Set

LEMMA CancelTakes ==
  ASSUME TimerInv, NEW c \in Callers, NEW id \in Ids, Cancel(c, id)
  PROVE  /\ TimerInv'
         /\ \E i \in 1 .. Len(heap) : Within(heap') = Within(heap) \ {heap[i]} /\ End({heap[i].id})
<1>1. PICK i \in 1 .. Len(heap) : heap[i].id = id /\ heap' = Remove(heap, i)
  BY DEF Cancel, TimerInv, IsHeap
<1>2. /\ IsHeap(heap') /\ Len(heap') = Len(heap) - 1 /\ Within(heap') = Within(heap) \ {heap[i]}
  BY <1>1, RemoveLeaves DEF TimerInv
<1>3. End({heap[i].id})
  BY <1>1 DEF Cancel
<1> QED
  BY <1>2, <1>3, TakenKeeps DEF Cancel, TimerInv

LEMMA FireTakes ==
  ASSUME TimerInv, FireTimer
  PROVE  /\ TimerInv' /\ 1 \in 1 .. Len(heap)
         /\ Within(heap') = Within(heap) \ {heap[1]} /\ End({heap[1].id})
<1>1. 1 \in 1 .. Len(heap) /\ heap[1].id \in Ids
  BY EventFields DEF FireTimer, TimerInv, IsHeap
<1>2. /\ IsHeap(heap') /\ Len(heap') = Len(heap) - 1 /\ Within(heap') = Within(heap) \ {heap[1]}
  BY RootTaken DEF FireTimer, TimerInv
<1>3. heap[1].id # None
  BY <1>1, TimerAssumption DEF Ids
<1> QED
  BY <1>1, <1>2, <1>3, TakenKeeps DEF FireTimer, TimerInv

LEMMA TimerInvKept == TimerInv /\ [Next]_vars => TimerInv'
<1> SUFFICES ASSUME TimerInv, [Next]_vars
             PROVE  TimerInv'
  OBVIOUS
<1> DEFINE Same == UNCHANGED <<heap, capacity, nextId, due, state>>
<1>1. ASSUME Same, UNCHANGED setting, clock' \in 0 .. MaxTime,
             phase' \in {"sleep", "fire", "call"}, current' \in 0 .. TimeMod - 1, current' <= clock',
             event' \in Ids \cup {None}, event' # None <=> phase' = "call"
      PROVE  TimerInv'
  <2>1. Setting' = Setting
    BY <1>1 DEF Setting
  <2> QED
    BY <1>1, <2>1 DEF TimerInv, Set
<1>2. CASE UNCHANGED vars
  BY <1>1, <1>2 DEF TimerInv, vars
<1>3. CASE Tick
  BY <1>1, <1>3, TimerAssumption DEF TimerInv, Tick
<1>4. CASE ReadTime
  <2>1. clock \in Nat /\ clock \in 0 .. MaxTime
    BY TimerAssumption DEF TimerInv
  <2>2. clock % TimeMod \in 0 .. TimeMod - 1 /\ clock % TimeMod <= clock
    BY <2>1, Wrapped
  <2> QED
    BY <1>1, <1>4, <2>1, <2>2 DEF TimerInv, ReadTime
<1>5. CASE FireTimer
  BY <1>5, FireTakes
<1>6. CASE CallbackEnds
  BY <1>1, <1>6 DEF TimerInv, CallbackEnds
<1>7. CASE NothingDue
  BY <1>1, <1>7 DEF TimerInv, NothingDue
<1>8. ASSUME NEW c \in Callers, NEW delay \in Delays, StartInsert(c, delay)
      PROVE  TimerInv'
  <2>1. clock + delay \in 0 .. MaxTime /\ clock \in 0 .. MaxTime /\ clock + delay # None
    BY <1>8, TimerAssumption DEF TimerInv, StartInsert
  <2>2. /\ setting' \in [Callers -> 0 .. MaxTime \cup {None}]
        /\ setting'[c] = clock + delay /\ \A d \in Callers : d # c => setting'[d] = setting[d]
    BY <1>8, <2>1 DEF TimerInv, StartInsert
  <2>3. \A d \in Callers : setting'[d] # None =>
          \E time \in 0 .. MaxTime, wait \in Delays : setting'[d] = time + wait
    BY <2>1, <2>2 DEF TimerInv
  <2>4. Cardinality(Setting)' = Cardinality(Setting) + 1 /\ Cardinality(Setting) \in Nat
    BY <1>8, <2>1, SettingCounted DEF StartInsert
  <2>5. Cardinality(Setting) + nextId < MaxTimers
    BY <1>8 DEF StartInsert, Setting
  <2>6. Cardinality(Setting)' + nextId' <= MaxTimers
    BY <1>8, <2>4, <2>5, TimerAssumption DEF TimerInv, StartInsert
  <2> QED
    BY <1>8, <2>2, <2>3, <2>6 DEF TimerInv, StartInsert, Set
<1>9. ASSUME NEW c \in Callers, InsertFails(c)
      PROVE  TimerInv'
  <2>1. Cardinality(Setting)' = Cardinality(Setting) - 1 /\ Cardinality(Setting) \in Nat
    BY <1>9, SettingCounted DEF InsertFails
  <2>2. Cardinality(Setting)' + nextId' <= MaxTimers
    BY <1>9, <2>1, TimerAssumption DEF TimerInv, InsertFails
  <2>3. /\ setting' \in [Callers -> 0 .. MaxTime \cup {None}]
        /\ \A d \in Callers : setting'[d] # None => setting'[d] = setting[d]
    BY <1>9 DEF TimerInv, InsertFails
  <2>4. \A d \in Callers : setting'[d] # None =>
          \E time \in 0 .. MaxTime, delay \in Delays : setting'[d] = time + delay
    BY <2>3 DEF TimerInv
  <2> QED
    BY <1>9, <2>2, <2>3, <2>4 DEF TimerInv, InsertFails, Set
<1>10. ASSUME NEW c \in Callers, Deinit(c)
       PROVE  TimerInv'
  <2>1. IsHeap(heap') /\ Len(heap') = 0
    BY <1>10, TimerAssumption DEF Deinit, IsHeap, Distinct, Ordered
  <2>2. /\ due' \in [Ids -> 0 .. MaxTime] /\ state' \in [Ids -> {"unused", "set", "ended"}]
        /\ \A id \in Ids : state'[id] = IF state[id] = "set" THEN "ended" ELSE state[id]
    <3>1. 0 \in 0 .. MaxTime
      BY TimerAssumption
    <3> QED
      BY <1>10, <3>1 DEF Deinit, End, TimerInv
  <2>3. Setting' = Setting
    BY <1>10 DEF Deinit, Setting
  <2> QED
    BY <1>10, <2>1, <2>2, <2>3 DEF Deinit, TimerInv, Set
<1> QED
  BY <1>2, <1>3, <1>4, <1>5, <1>6, <1>7, <1>8, <1>9, <1>10, InsertKeeps, CancelTakes DEF Next

-----------------------------------------------------------------------------
(* The theorems.                                                           *)

(* Every variable of the timers holds a value of its type, and the array    *)
(* holds the heap however often it has grown or failed to.                  *)
THEOREM TimersTyped == Spec => []TypeOK
<1>1. TimerInv => TypeOK
  <2> SUFFICES ASSUME TimerInv
               PROVE  TypeOK
    OBVIOUS
  <2>1. \A i \in DOMAIN heap : heap[i].id \in Ids /\ heap[i].time \in 0 .. TimeMod - 1
    BY EventFields DEF TimerInv, IsHeap
  <2>2. nextId \in 0 .. MaxTimers
    <3>1. Cardinality(Setting) \in Nat
      <4>1. Setting \subseteq Callers
        BY DEF Setting
      <4> QED
        BY <4>1, FiniteCallers, FS_Subset, FS_CardinalityType
    <3> QED
      BY <3>1, TimerAssumption DEF TimerInv
  <2>3. \A c \in Callers : setting[c] # None => setting[c] \in Nat
    BY TimerAssumption DEF TimerInv
  <2> QED
    BY <2>1, <2>2, <2>3 DEF TimerInv, TypeOK
<1> QED
  BY <1>1, TimerInvStarts, TimerInvKept, PTL DEF Spec

(* The heap is in order after every insertion, cancellation and firing, for *)
(* any number of timers: heapifyUp and heapifyDown put every event into its *)
(* place, and a cancel in the middle needs both.                            *)
THEOREM HeapStaysOrdered == Spec => []HeapOrdered
<1>1. TimerInv => HeapOrdered
  BY DEF TimerInv, IsHeap, Ordered, OrderedAt, HeapOrdered
<1> QED
  BY <1>1, TimerInvStarts, TimerInvKept, PTL DEF Spec

\* The timers of the service.
Pending == {[id |-> heap[i].id, due |-> due[heap[i].id]] : i \in DOMAIN heap}
Given == {id \in Ids : state[id] # "unused"}
AsPending(events) == {[id |-> x.id, due |-> x.time] : x \in events}

LEMMA PendingIs ==
  ASSUME MaxTime < TimeMod, TimerInv
  PROVE  /\ Pending = AsPending(Within(heap)) /\ Given = {id \in Ids : ~(id > nextId)}
         /\ \A x, y \in Within(heap) : x.id = y.id => x = y
<1>1. DOMAIN heap = 1 .. Len(heap)
  BY DEF TimerInv, IsHeap
<1>2. \A i \in 1 .. Len(heap) : due[heap[i].id] = heap[i].time
  <2> SUFFICES ASSUME NEW i \in 1 .. Len(heap)
               PROVE  due[heap[i].id] = heap[i].time
    OBVIOUS
  <2>1. heap[i].id \in Ids /\ heap[i].time = due[heap[i].id] % TimeMod
    BY EventFields DEF TimerInv, IsHeap
  <2>2. due[heap[i].id] \in Nat /\ due[heap[i].id] < TimeMod
    BY <2>1, TimerAssumption DEF TimerInv
  <2> QED
    BY <2>1, <2>2, Wrapped
<1>3. Pending = AsPending(Within(heap))
  BY <1>1, <1>2 DEF Pending, AsPending, Within
<1>4. Given = {id \in Ids : ~(id > nextId)}
  BY DEF Given, TimerInv
<1> QED
  BY <1>3, <1>4 DEF TimerInv, IsHeap, Distinct, Within

LEMMA PendingNext ==
  ASSUME MaxTime < TimeMod
  PROVE  TimerInv' => /\ Pending' = AsPending(Within(heap'))
                      /\ Given' = {id \in Ids : ~(id > nextId')}
<1>1. TimerInv => Pending = AsPending(Within(heap)) /\ Given = {id \in Ids : ~(id > nextId)}
  BY PendingIs
<1>2. (TimerInv => Pending = AsPending(Within(heap)) /\ Given = {id \in Ids : ~(id > nextId)})'
  BY <1>1, PTL
<1> QED
  BY <1>2

\* A timer that is taken out of the heap is taken out of the service.
LEMMA PendingTaken ==
  ASSUME MaxTime < TimeMod, TimerInv, TimerInv', NEW i \in 1 .. Len(heap), nextId' = nextId,
         Within(heap') = Within(heap) \ {heap[i]}
  PROVE  LET e == [id |-> heap[i].id, due |-> heap[i].time]
         IN e \in Pending /\ Pending' = Pending \ {e} /\ Given' = Given
<1>1. Pending = AsPending(Within(heap)) /\ Given = {id \in Ids : ~(id > nextId)}
      /\ \A x, y \in Within(heap) : x.id = y.id => x = y
  BY PendingIs
<1>2. Pending' = AsPending(Within(heap')) /\ Given' = {id \in Ids : ~(id > nextId')}
  BY PendingNext
<1>3. heap[i] \in Within(heap)
  BY DEF Within
<1> QED
  BY <1>1, <1>2, <1>3 DEF AsPending

LEMMA PromiseStarts == Init => Promised!Init
  BY DEF Init, Promised!Init

LEMMA PromiseInsert ==
  ASSUME MaxTime < TimeMod, TimerInv, NEW c \in Callers, Insert(c)
  PROVE  Promised!Set
<1> DEFINE id == nextId'
<1>1. /\ TimerInv' /\ id \in Ids /\ state[id] = "unused"
      /\ Within(heap') = Within(heap) \cup {[id |-> id, time |-> setting[c] % TimeMod]}
  BY InsertKeeps DEF Within
<1>2. setting[c] % TimeMod = setting[c]
  <2>1. setting[c] \in Nat /\ setting[c] < TimeMod
    BY TimerAssumption DEF Insert, TimerInv
  <2> QED
    BY <2>1, Wrapped
<1>3. \E time \in 0 .. MaxTime, delay \in Delays : setting[c] = time + delay
  BY DEF Insert, TimerInv
<1>4. Pending = AsPending(Within(heap)) /\ Given = {x \in Ids : ~(x > nextId)}
  BY PendingIs
<1>5. Pending' = AsPending(Within(heap')) /\ Given' = {x \in Ids : ~(x > nextId')}
  BY <1>1, PendingNext
<1>6. Pending' = Pending \cup {[id |-> id, due |-> setting[c]]}
  <2>1. \A events, x : AsPending(events \cup {x}) = AsPending(events) \cup {[id |-> x.id, due |-> x.time]}
    BY DEF AsPending
  <2> DEFINE x == [id |-> id, time |-> setting[c] % TimeMod]
  <2>2. x.id = id /\ x.time = setting[c]
    BY <1>2
  <2>3. Within(heap') = Within(heap) \cup {x}
    BY <1>1
  <2> HIDE DEF x, id
  <2> QED
    BY <1>4, <1>5, <2>1, <2>2, <2>3
<1>7. Given' = Given \cup {id} /\ id \notin Given
  <2>1. \A x \in Ids : ~(x > nextId') <=> ~(x > nextId) \/ x = id
    BY TimerAssumption, SMTT(30) DEF Insert, TimerInv, Ids
  <2>2. id > nextId
    BY TimerAssumption DEF Insert, TimerInv
  <2> QED
    BY <1>1, <1>4, <1>5, <2>1, <2>2
<1>8. clock' = clock /\ event' = event
  BY DEF Insert
<1> QED
  BY <1>1, <1>3, <1>6, <1>7, <1>8 DEF Promised!Set, Pending, Given

LEMMA PromiseFire ==
  ASSUME MaxTime < TimeMod, TimerInv, FireTimer
  PROVE  Promised!Fire
<1> DEFINE e == [id |-> heap[1].id, due |-> heap[1].time]
<1>1. TimerInv' /\ 1 \in 1 .. Len(heap) /\ Within(heap') = Within(heap) \ {heap[1]}
  BY FireTakes
<1>2. e \in Pending /\ Pending' = Pending \ {e} /\ Given' = Given
  BY <1>1, PendingTaken DEF FireTimer
<1>3. event = None /\ clock' = clock /\ event' = e.id
  BY DEF FireTimer, TimerInv
<1>4. e.due <= clock
  <2>1. heap[1].time \in Nat /\ current \in Nat /\ clock \in Nat
    BY <1>1, EventFields, TimerAssumption DEF TimerInv, IsHeap
  <2> QED
    BY <2>1 DEF FireTimer, TimerInv
<1>5. \A f \in Pending : e.due <= f.due
  <2>1. Pending = AsPending(Within(heap))
    BY PendingIs
  <2>2. \A k \in 1 .. Len(heap) : heap[1].time <= heap[k].time
    BY RootLeast DEF TimerInv
  <2> QED
    BY <2>1, <2>2 DEF AsPending, Within
<1> QED
  BY <1>2, <1>3, <1>4, <1>5 DEF Promised!Fire, Pending, Given

LEMMA PromiseCancel ==
  ASSUME MaxTime < TimeMod, TimerInv, NEW c \in Callers, NEW id \in Ids, Cancel(c, id)
  PROVE  Promised!Cancel
<1>1. PICK i \in 1 .. Len(heap) : Within(heap') = Within(heap) \ {heap[i]}
  BY CancelTakes
<1>2. TimerInv' /\ nextId' = nextId
  BY CancelTakes DEF Cancel
<1>3. PICK e \in Pending : Pending' = Pending \ {e} /\ Given' = Given
  BY <1>1, <1>2, PendingTaken
<1> QED
  BY <1>3 DEF Promised!Cancel, Pending, Given, Cancel

LEMMA PromiseClear ==
  ASSUME TimerInv, NEW c \in Callers, Deinit(c)
  PROVE  Promised!Clear
<1>1. Pending' = {}
  BY DEF Deinit, Pending
<1>2. Given' = Given
  BY DEF Deinit, End, Given, TimerInv
<1> QED
  BY <1>1, <1>2 DEF Promised!Clear, Pending, Given, Deinit

(* The heap and the timer thread implement the timer service while the      *)
(* clock stays within one cycle of its milliseconds, for any tasks and      *)
(* number of timers: a timer fires once, not early, before every timer that *)
(* is due later, and never after its cancellation was answered IOT_OK.      *)
THEOREM ServiceKept ==
  ASSUME MaxTime < TimeMod
  PROVE  Spec => KeepsPromise
<1>1. TimerInv /\ [Next]_vars => [Promised!Next]_<<clock, Pending, event, Given>>
  <2> SUFFICES ASSUME TimerInv, [Next]_vars
               PROVE  Promised!Next \/ UNCHANGED <<clock, Pending, event, Given>>
    OBVIOUS
  <2>1. ASSUME UNCHANGED <<heap, due, state, clock, event>>
        PROVE  UNCHANGED <<clock, Pending, event, Given>>
    BY <2>1 DEF Pending, Given
  <2>2. CASE UNCHANGED vars \/ ReadTime \/ NothingDue
    BY <2>1, <2>2 DEF vars, ReadTime, NothingDue
  <2>3. CASE Tick
    BY <2>3 DEF Tick, Promised!Next, Promised!Pass
  <2>4. CASE FireTimer
    BY <2>4, PromiseFire DEF Promised!Next
  <2>5. CASE CallbackEnds
    BY <2>5 DEF CallbackEnds, TimerInv, Promised!Next, Promised!Done
  <2>6. ASSUME NEW c \in Callers, (\E delay \in Delays : StartInsert(c, delay)) \/ InsertFails(c)
        PROVE  UNCHANGED <<clock, Pending, event, Given>>
    BY <2>1, <2>6 DEF StartInsert, InsertFails
  <2>7. ASSUME NEW c \in Callers, Insert(c)
        PROVE  Promised!Next
    BY <2>7, PromiseInsert DEF Promised!Next
  <2>8. ASSUME NEW c \in Callers, \E id \in Ids : Cancel(c, id)
        PROVE  Promised!Next
    BY <2>8, PromiseCancel DEF Promised!Next
  <2>9. ASSUME NEW c \in Callers, Deinit(c)
        PROVE  Promised!Next
    BY <2>9, PromiseClear DEF Promised!Next
  <2> QED
    BY <2>2, <2>3, <2>4, <2>5, <2>6, <2>7, <2>8, <2>9 DEF Next
<1> QED
  BY <1>1, TimerInvStarts, TimerInvKept, PromiseStarts, PTL
  DEF Spec, KeepsPromise, Promised!Spec, Pending, Given
=============================================================================
