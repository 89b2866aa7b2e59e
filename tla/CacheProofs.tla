---------------------------- MODULE CacheProofs ----------------------------
(***************************************************************************)
(* Proofs about the cache (Cache.tla).                                     *)
(*                                                                         *)
(* A state of the cache is a value: the lemmas about the helpers say what  *)
(* they make of any state whose array, chains and LRU list agree (Fits).   *)
(* TypeInv, the types and that agreement, is inductive by itself; OwnInv   *)
(* adds what holds of keys with one user when no task preloads.            *)
(***************************************************************************)
EXTENDS Cache, FiniteSetTheorems, SequenceTheorems, WellFoundedInduction, TLAPS

-----------------------------------------------------------------------------
(* Lists without repetition *)

Distinct(q) == \A i, j \in DOMAIN q : q[i] = q[j] => i = j

(* What Without takes out of a list, and where it leaves the rest. *)
LEMMA WithoutPlaces ==
  ASSUME NEW S, NEW q \in Seq(S), Distinct(q), NEW p \in DOMAIN q
  PROVE  Without(q, q[p]) = [i \in 1 .. Len(q) - 1 |-> IF i < p THEN q[i] ELSE q[i + 1]]
<1> DEFINE c == CHOOSE i \in DOMAIN q : q[i] = q[p]
<1>1. c \in DOMAIN q /\ q[c] = q[p]
  OBVIOUS
<1>2. c = p
  BY <1>1 DEF Distinct
<1>3. q[p] \in Members(q)
  BY DEF Members
<1> QED
  BY <1>2, <1>3 DEF Without

LEMMA WithoutList ==
  ASSUME NEW S, NEW q \in Seq(S), Distinct(q), NEW x
  PROVE  /\ Without(q, x) \in Seq(S) /\ Distinct(Without(q, x))
         /\ Members(Without(q, x)) = Members(q) \ {x}
         /\ \A y, z : Before(q, y, z) /\ y # x /\ z # x => Before(Without(q, x), y, z)
         /\ \A y, z : Before(Without(q, x), y, z) => Before(q, y, z) /\ y # x /\ z # x
<1>1. CASE x \notin Members(q)
  <2>1. Without(q, x) = q
    BY <1>1 DEF Without
  <2> QED
    BY <1>1, <2>1 DEF Members, Before
<1>2. CASE x \in Members(q)
  <2>1. PICK p \in DOMAIN q : q[p] = x
    BY <1>2 DEF Members
  <2> DEFINE w == Without(q, x)
             n == Len(q) - 1
  <2>2. w = [i \in 1 .. n |-> IF i < p THEN q[i] ELSE q[i + 1]]
    BY <2>1, WithoutPlaces
  <2>3. Len(q) \in Nat /\ DOMAIN q = 1 .. Len(q) /\ n \in Nat /\ p \in 1 .. Len(q) /\ \A i \in 1 .. Len(q) : q[i] \in S
    BY <2>1
  <2>4. w \in Seq(S)
    <3>1. \A i \in 1 .. n : (IF i < p THEN q[i] ELSE q[i + 1]) \in S
      BY <2>3
    <3> QED
      BY <2>2, <2>3, <3>1
  <2>5. DOMAIN w = 1 .. n /\ \A i \in 1 .. n : w[i] = IF i < p THEN q[i] ELSE q[i + 1]
    BY <2>2
  <2> HIDE DEF w
  <2>6. Distinct(w)
    BY <2>3, <2>5 DEF Distinct
  <2>7. \A i \in DOMAIN w : w[i] \in Members(q) \ {x}
    BY <2>1, <2>3, <2>5 DEF Distinct, Members
  <2>8. \A j \in DOMAIN q : q[j] # x => /\ (j < p => j \in 1 .. n /\ w[j] = q[j])
                                        /\ (~ j < p => j - 1 \in 1 .. n /\ w[j - 1] = q[j])
    BY <2>1, <2>3, <2>5
  <2>9. Members(w) = Members(q) \ {x}
    <3>1. \A y \in Members(q) \ {x} : y \in Members(w)
      BY <2>3, <2>5, <2>8 DEF Members
    <3>2. \A y \in Members(w) : y \in Members(q) \ {x}
      BY <2>7 DEF Members
    <3> QED
      BY <3>1, <3>2
  <2>10. \A y, z : Before(q, y, z) /\ y # x /\ z # x => Before(w, y, z)
    <3> SUFFICES ASSUME NEW i \in DOMAIN q, NEW j \in DOMAIN q, i < j, q[i] # x, q[j] # x
                 PROVE  \E g, h \in DOMAIN w : g < h /\ w[g] = q[i] /\ w[h] = q[j]
      BY DEF Before
    <3> DEFINE g == IF i < p THEN i ELSE i - 1
               h == IF j < p THEN j ELSE j - 1
    <3>1. g \in 1 .. n /\ w[g] = q[i]
      BY <2>8
    <3>2. h \in 1 .. n /\ w[h] = q[j]
      BY <2>8
    <3>3. g < h
      BY <2>1, <2>3
    <3> HIDE DEF g, h
    <3> QED
      BY <2>5, <3>1, <3>2, <3>3
  <2>11. \A y, z : Before(w, y, z) => Before(q, y, z) /\ y # x /\ z # x
    <3> SUFFICES ASSUME NEW g \in DOMAIN w, NEW h \in DOMAIN w, g < h
                 PROVE  Before(q, w[g], w[h]) /\ w[g] # x /\ w[h] # x
      BY DEF Before
    <3> DEFINE i == IF g < p THEN g ELSE g + 1
               j == IF h < p THEN h ELSE h + 1
    <3>1. i \in DOMAIN q /\ w[g] = q[i]
      BY <2>3, <2>5
    <3>2. j \in DOMAIN q /\ w[h] = q[j]
      BY <2>3, <2>5
    <3>3. i < j
      BY <2>3, <2>5
    <3> HIDE DEF i, j
    <3> QED
      BY <2>7, <3>1, <3>2, <3>3 DEF Before
  <2> QED
    BY <2>4, <2>6, <2>9, <2>10, <2>11 DEF w
<1> QED
  BY <1>1, <1>2

(* A new first element. *)
LEMMA FrontList ==
  ASSUME NEW S, NEW q \in Seq(S), Distinct(q), NEW x \in S, x \notin Members(q)
  PROVE  /\ <<x>> \o q \in Seq(S) /\ Distinct(<<x>> \o q)
         /\ Members(<<x>> \o q) = Members(q) \cup {x}
         /\ \A y \in Members(q) : Before(<<x>> \o q, x, y)
         /\ \A y, z : Before(q, y, z) => Before(<<x>> \o q, y, z)
         /\ \A y, z : Before(<<x>> \o q, y, z) => (y = x /\ z \in Members(q)) \/ Before(q, y, z)
<1> DEFINE w == <<x>> \o q
<1>1. Len(q) \in Nat /\ DOMAIN q = 1 .. Len(q) /\ \A i \in 1 .. Len(q) : q[i] \in S
  OBVIOUS
<1>2. w \in Seq(S) /\ Len(w) = Len(q) + 1 /\ w[1] = x /\ \A i \in 1 .. Len(q) : w[i + 1] = q[i]
  <2>1. <<x>> \in Seq(S) /\ Len(<<x>>) = 1 /\ <<x>>[1] = x
    OBVIOUS
  <2> QED
    BY <1>1, <2>1, ConcatProperties
<1> HIDE DEF w
<1>3. DOMAIN w = 1 .. Len(q) + 1 /\ 1 \in DOMAIN w /\ \A i \in 1 .. Len(q) : i + 1 \in DOMAIN w
  BY <1>1, <1>2
<1>4. \A i \in DOMAIN w : i = 1 \/ (i - 1 \in 1 .. Len(q) /\ w[i] = q[i - 1])
  <2> SUFFICES ASSUME NEW i \in DOMAIN w, i # 1 PROVE i - 1 \in 1 .. Len(q) /\ w[i] = q[i - 1]
    OBVIOUS
  <2>1. i - 1 \in 1 .. Len(q) /\ (i - 1) + 1 = i
    BY <1>1, <1>3
  <2> QED
    BY <1>2, <2>1
<1>5. Distinct(w)
  <2> SUFFICES ASSUME NEW i \in DOMAIN w, NEW j \in DOMAIN w, w[i] = w[j] PROVE i = j
    BY DEF Distinct
  <2>1. \A h \in 1 .. Len(q) : q[h] # x
    BY <1>1 DEF Members
  <2> QED
    BY <1>1, <1>2, <1>3, <1>4, <2>1 DEF Distinct
<1>6. Members(w) = Members(q) \cup {x}
  <2>1. \A y \in Members(q) \cup {x} : y \in Members(w)
    BY <1>1, <1>2, <1>3 DEF Members
  <2>2. \A y \in Members(w) : y \in Members(q) \cup {x}
    BY <1>1, <1>2, <1>4 DEF Members
  <2> QED
    BY <2>1, <2>2
<1>7. \A y \in Members(q) : Before(w, x, y)
  BY <1>1, <1>2, <1>3 DEF Members, Before
<1>8. \A y, z : Before(q, y, z) => Before(w, y, z)
  <2> SUFFICES ASSUME NEW i \in DOMAIN q, NEW j \in DOMAIN q, i < j PROVE Before(w, q[i], q[j])
    BY DEF Before
  <2>1. i + 1 \in DOMAIN w /\ j + 1 \in DOMAIN w /\ i + 1 < j + 1 /\ w[i + 1] = q[i] /\ w[j + 1] = q[j]
    BY <1>1, <1>2, <1>3
  <2> QED
    BY <2>1 DEF Before
<1>9. \A y, z : Before(w, y, z) => (y = x /\ z \in Members(q)) \/ Before(q, y, z)
  <2> SUFFICES ASSUME NEW i \in DOMAIN w, NEW j \in DOMAIN w, i < j
               PROVE  (w[i] = x /\ w[j] \in Members(q)) \/ Before(q, w[i], w[j])
    BY DEF Before
  <2>1. j # 1 /\ j - 1 \in DOMAIN q /\ w[j] = q[j - 1]
    BY <1>1, <1>3, <1>4
  <2>2. CASE i = 1
    BY <1>2, <2>1, <2>2 DEF Members
  <2>3. CASE i # 1
    <3>1. i - 1 \in DOMAIN q /\ w[i] = q[i - 1] /\ i - 1 < j - 1
      BY <1>1, <1>3, <1>4, <2>1, <2>3
    <3> QED
      BY <2>1, <3>1 DEF Before
  <2> QED
    BY <2>2, <2>3
<1> QED
  BY <1>2, <1>5, <1>6, <1>7, <1>8, <1>9 DEF w

(* As many elements as places. *)
LEMMA DistinctIsNoRepeat ==
  ASSUME NEW S, NEW q \in Seq(S), Distinct(q)
  PROVE  NoRepeat(q)
<1>1. Len(q) \in Nat /\ DOMAIN q = 1 .. Len(q)
  OBVIOUS
<1>2. q \in Bijection(1 .. Len(q), Members(q))
  <2>1. q \in [1 .. Len(q) -> Members(q)]
    BY <1>1 DEF Members
  <2>2. q \in Injection(1 .. Len(q), Members(q))
    BY <1>1, <2>1 DEF Injection, IsInjective, Distinct
  <2>3. q \in Surjection(1 .. Len(q), Members(q))
    BY <1>1, <2>1 DEF Surjection, Members
  <2> QED
    BY <2>2, <2>3 DEF Bijection
<1>3. IsFiniteSet(1 .. Len(q)) /\ Cardinality(1 .. Len(q)) = Len(q)
  BY <1>1, FS_Interval
<1>4. Cardinality(Members(q)) = Cardinality(1 .. Len(q))
  BY <1>2, <1>3, FS_Bijection DEF ExistsBijection
<1> QED
  BY <1>3, <1>4 DEF NoRepeat

(* A set of positions has a first one: of the intervals up to each, one     *)
(* holds no other.                                                          *)
LEMMA FirstPosition ==
  ASSUME NEW n \in Nat, NEW S \in SUBSET (1 .. n), S # {}
  PROVE  \E m \in S : \A l \in S : m <= l
<1> DEFINE T == {1 .. k : k \in S}
<1>1. \A k \in S : k \in Nat /\ 1 .. k \in FiniteSubsetsOf(Nat)
  <2> SUFFICES ASSUME NEW k \in S
               PROVE  k \in Nat /\ 1 .. k \in FiniteSubsetsOf(Nat)
    OBVIOUS
  <2>1. IsFiniteSet(1 .. k)
    BY FS_Interval
  <2> QED
    BY <2>1 DEF FiniteSubsetsOf
<1>2. T \subseteq FiniteSubsetsOf(Nat) /\ T # {}
  BY <1>1
<1>3. PICK x \in T : \A y \in T : <<y, x>> \notin StrictSubsetOrdering(Nat)
  <2>1. IsWellFoundedOn(StrictSubsetOrdering(Nat), FiniteSubsetsOf(Nat))
    BY FS_StrictSubsetOrderingWellFounded
  <2> HIDE DEF T
  <2> QED
    BY <1>2, <2>1, WFMin
<1>4. PICK m \in S : x = 1 .. m
  OBVIOUS
<1>5. ASSUME NEW l \in S, l < m
      PROVE  FALSE
  <2>1. 1 .. l \subseteq 1 .. m /\ 1 .. l # 1 .. m
    <3>1. m \in 1 .. m /\ m \notin 1 .. l
      BY <1>1, <1>5
    <3> QED
      BY <1>1, <1>5, <3>1
  <2>2. 1 .. l \in SUBSET Nat /\ 1 .. m \in SUBSET Nat
    OBVIOUS
  <2>3. <<1 .. l, 1 .. m>> \in StrictSubsetOrdering(Nat)
    BY <2>1, <2>2 DEF StrictSubsetOrdering
  <2> QED
    BY <1>3, <1>4, <2>3
<1> QED
  BY <1>1, <1>5

(* And a last one, the first when they are counted from the other end.      *)
LEMMA LastPosition ==
  ASSUME NEW n \in Nat, NEW S \in SUBSET (1 .. n), S # {}
  PROVE  \E m \in S : \A l \in S : l <= m
<1> DEFINE T == {n + 1 - k : k \in S}
<1>1. \A k \in S : k \in 1 .. n /\ n + 1 - k \in 1 .. n
  OBVIOUS
<1>2. T \in SUBSET (1 .. n) /\ T # {}
  BY <1>1
<1>3. PICK x \in T : \A y \in T : x <= y
  <2> HIDE DEF T
  <2> QED
    BY <1>2, FirstPosition
<1>4. PICK m \in S : x = n + 1 - m
  OBVIOUS
<1>5. ASSUME NEW l \in S
      PROVE  l <= m
  <2>1. n + 1 - m <= n + 1 - l
    BY <1>3, <1>4
  <2> QED
    BY <1>1, <2>1
<1> QED
  BY <1>5

-----------------------------------------------------------------------------
(* What the operations on the lists and the table leave                     *)

Data == Values \cup {NoData, Freed}
Stock == Values \cup {Absent, Freed}
Entries == [valid : BOOLEAN, key : Keys \cup {NoKey}, val : Data, dirty : BOOLEAN]

CacheStates ==
  [slot : [Slots -> Entries], chain : [Buckets -> Seq(Slots)], lru : Seq(Slots),
   count : Nat, dirtyCount : 0 .. CounterMod - 1, nvs : [Keys -> Stock]]

Valid(c) == {s \in Slots : c.slot[s].valid}
ChainOf(c, b) == {s \in Valid(c) : Hash[c.slot[s].key] = b}

(* The array, the chains and the list agree. *)
Lists(c) ==
  /\ Distinct(c.lru) /\ Members(c.lru) = Valid(c)
  /\ \A b \in Buckets : Distinct(c.chain[b]) /\ Members(c.chain[b]) = ChainOf(c, b)
  /\ \A s \in Valid(c) : c.slot[s].key \in Keys
  /\ c.count = Cardinality(Valid(c))

Fits(c) == c \in CacheStates /\ Lists(c)

LEMMA StateFields ==
  ASSUME NEW c \in CacheStates
  PROVE  /\ c.slot \in [Slots -> Entries] /\ c.chain \in [Buckets -> Seq(Slots)]
         /\ c.lru \in Seq(Slots) /\ c.count \in Nat
         /\ c.dirtyCount \in 0 .. CounterMod - 1 /\ c.nvs \in [Keys -> Stock]
         /\ \A s \in Slots : /\ c.slot[s] \in Entries
                             /\ c.slot[s].valid \in BOOLEAN /\ c.slot[s].key \in Keys \cup {NoKey}
                             /\ c.slot[s].val \in Data /\ c.slot[s].dirty \in BOOLEAN
BY DEF CacheStates, Entries

LEMMA SlotsFinite ==
  ASSUME NEW S \in SUBSET Slots
  PROVE  IsFiniteSet(S) /\ Cardinality(S) \in Nat /\ Cardinality(S) <= MaxEntries
<1>1. IsFiniteSet(1 .. MaxEntries) /\ Cardinality(1 .. MaxEntries) = MaxEntries
  BY CacheAssumption, FS_Interval
<1> QED
  BY <1>1, FS_Subset, FS_CardinalityType DEF Slots

(* Touch, of a valid entry: only the list changes. *)
LEMMA Touched ==
  ASSUME NEW c, Fits(c), NEW s \in Valid(c)
  PROVE  /\ Fits(Touch(c, s))
         /\ Touch(c, s).slot = c.slot /\ Touch(c, s).nvs = c.nvs
         /\ Touch(c, s).dirtyCount = c.dirtyCount
         /\ Touch(c, s).lru = <<s>> \o Without(c.lru, s)
<1> DEFINE d == Touch(c, s)
           w == <<s>> \o Without(c.lru, s)
<1>1. /\ Without(c.lru, s) \in Seq(Slots) /\ Distinct(Without(c.lru, s))
      /\ Members(Without(c.lru, s)) = Members(c.lru) \ {s}
  BY WithoutList, StateFields DEF Fits, Lists
<1>2. w \in Seq(Slots) /\ Distinct(w) /\ Members(w) = (Members(c.lru) \ {s}) \cup {s}
  BY <1>1, FrontList DEF Valid
<1>3. d = [c EXCEPT !.lru = w]
  BY DEF Touch
<1> HIDE DEF w
<1>4. /\ d \in CacheStates /\ d.slot = c.slot /\ d.chain = c.chain /\ d.count = c.count
      /\ d.nvs = c.nvs /\ d.dirtyCount = c.dirtyCount /\ d.lru = w
  BY <1>2, <1>3 DEF Fits, CacheStates
<1> HIDE DEF d
<1>5. Members(w) = Members(c.lru)
  BY <1>2 DEF Fits, Lists
<1>6. Valid(d) = Valid(c) /\ \A b \in Buckets : ChainOf(d, b) = ChainOf(c, b)
  BY <1>4 DEF Valid, ChainOf
<1>7. Lists(d)
  BY <1>2, <1>4, <1>5, <1>6 DEF Fits, Lists
<1> QED
  BY <1>4, <1>7 DEF Fits, d, w

(* Detach, of a valid entry: its slot is free and it is in no list. *)
LEMMA Detached ==
  ASSUME NEW c, Fits(c), NEW s \in Valid(c)
  PROVE  /\ Fits(Detach(c, s)) /\ Valid(Detach(c, s)) = Valid(c) \ {s}
         /\ \A r \in Slots : r # s => Detach(c, s).slot[r] = c.slot[r]
         /\ Detach(c, s).slot[s].dirty = c.slot[s].dirty
         /\ Detach(c, s).nvs = c.nvs /\ Detach(c, s).dirtyCount = c.dirtyCount
         /\ Detach(c, s).lru = Without(c.lru, s)
<1> DEFINE d == Detach(c, s)
           b == Hash[c.slot[s].key]
           e == [EmptySlot EXCEPT !.dirty = c.slot[s].dirty]
           w == Without(c.lru, s)
           v == Without(c.chain[b], s)
<1>0. c \in CacheStates /\ Lists(c) /\ s \in Slots /\ c.slot[s].key \in Keys
  BY DEF Fits, Lists, Valid
<1>1. b \in Buckets
  BY <1>0 DEF Buckets
<1>2. e \in Entries /\ ~e.valid /\ e.dirty = c.slot[s].dirty
  <2>1. c.slot[s].dirty \in BOOLEAN
    BY <1>0, StateFields
  <2>2. EmptySlot \in Entries
    BY DEF EmptySlot, Entries, Data
  <2>3. ~EmptySlot.valid
    BY DEF EmptySlot
  <2> QED
    BY <2>1, <2>2, <2>3 DEF Entries
<1>3. w \in Seq(Slots) /\ Distinct(w) /\ Members(w) = Valid(c) \ {s}
  <2>1. c.lru \in Seq(Slots) /\ Distinct(c.lru) /\ Members(c.lru) = Valid(c)
    BY <1>0, StateFields DEF Lists
  <2> QED
    BY <2>1, WithoutList
<1>4. v \in Seq(Slots) /\ Distinct(v) /\ Members(v) = ChainOf(c, b) \ {s}
  <2>1. c.chain[b] \in Seq(Slots) /\ Distinct(c.chain[b]) /\ Members(c.chain[b]) = ChainOf(c, b)
    BY <1>0, <1>1, StateFields DEF Lists
  <2> HIDE DEF b
  <2> QED
    BY <2>1, WithoutList
<1>5. /\ c.count \in Nat /\ c.count = Cardinality(Valid(c)) /\ IsFiniteSet(Valid(c))
      /\ c.count - 1 \in Nat /\ c.count - 1 = Cardinality(Valid(c) \ {s})
  <2>1. Valid(c) \in SUBSET Slots /\ Valid(c) \ {s} \in SUBSET Slots
    BY DEF Valid
  <2>2. IsFiniteSet(Valid(c)) /\ Cardinality(Valid(c) \ {s}) \in Nat
    BY <2>1, SlotsFinite
  <2>3. Cardinality(Valid(c) \ {s}) = Cardinality(Valid(c)) - 1
    BY <2>2, FS_RemoveElement
  <2> QED
    BY <1>0, <2>2, <2>3, StateFields DEF Lists
<1>6. d = [c EXCEPT !.chain[b] = v, !.lru = w, !.slot[s] = e, !.count = @ - 1]
  BY DEF Detach
<1> HIDE DEF b, e, w, v
<1>7. /\ d.slot = [c.slot EXCEPT ![s] = e] /\ d.chain = [c.chain EXCEPT ![b] = v]
      /\ d.lru = w /\ d.count = c.count - 1 /\ d.nvs = c.nvs /\ d.dirtyCount = c.dirtyCount
  BY <1>0, <1>6 DEF CacheStates
<1>8. d \in CacheStates
  <2>1. [c.slot EXCEPT ![s] = e] \in [Slots -> Entries]
    BY <1>0, <1>2, StateFields
  <2>2. [c.chain EXCEPT ![b] = v] \in [Buckets -> Seq(Slots)]
    BY <1>0, <1>4, StateFields
  <2>3. d = [slot |-> d.slot, chain |-> d.chain, lru |-> d.lru, count |-> d.count,
             dirtyCount |-> d.dirtyCount, nvs |-> d.nvs]
    BY <1>0, <1>6 DEF CacheStates
  <2> HIDE DEF d
  <2> QED
    BY <1>0, <1>3, <1>5, <1>7, <2>1, <2>2, <2>3, StateFields DEF CacheStates
<1> HIDE DEF d
<1>9. \A r \in Slots : d.slot[r] = IF r = s THEN e ELSE c.slot[r]
  BY <1>0, <1>7, StateFields
<1>10. Valid(d) = Valid(c) \ {s}
  BY <1>2, <1>9 DEF Valid
<1>11. \A a \in Buckets : ChainOf(d, a) = ChainOf(c, a) \ {s}
  BY <1>9, <1>10 DEF ChainOf, Valid
<1>12. \A a \in Buckets : Distinct(d.chain[a]) /\ Members(d.chain[a]) = ChainOf(d, a)
  <2> SUFFICES ASSUME NEW a \in Buckets
               PROVE  Distinct(d.chain[a]) /\ Members(d.chain[a]) = ChainOf(d, a)
    OBVIOUS
  <2>1. CASE a = b
    <3>1. d.chain[a] = v
      BY <1>0, <1>1, <1>7, <2>1, StateFields
    <3> QED
      BY <1>4, <1>11, <2>1, <3>1
  <2>2. CASE a # b
    <3>1. d.chain[a] = c.chain[a]
      BY <1>0, <1>7, <2>2, StateFields
    <3>2. s \notin ChainOf(c, a)
      BY <2>2 DEF ChainOf, b
    <3> QED
      BY <1>0, <1>11, <3>1, <3>2 DEF Lists
  <2> QED
    BY <2>1, <2>2
<1>13. Lists(d)
  <2>1. \A r \in Valid(d) : d.slot[r].key \in Keys
    BY <1>0, <1>9, <1>10 DEF Lists, Valid
  <2> QED
    BY <1>3, <1>5, <1>7, <1>10, <1>12, <2>1 DEF Lists
<1> QED
  BY <1>0, <1>2, <1>7, <1>8, <1>9, <1>10, <1>13 DEF Fits, d, w

(* Fill, of a free slot: it holds the entry of the key, first in its lists. *)
LEMMA Filled ==
  ASSUME NEW c, Fits(c), NEW s \in Slots, s \notin Valid(c), NEW k \in Keys,
         NEW v \in Data, NEW dirty \in BOOLEAN
  PROVE  /\ Fits(Fill(c, s, k, v, dirty)) /\ Valid(Fill(c, s, k, v, dirty)) = Valid(c) \cup {s}
         /\ \A r \in Slots : r # s => Fill(c, s, k, v, dirty).slot[r] = c.slot[r]
         /\ Fill(c, s, k, v, dirty).slot[s].key = k /\ Fill(c, s, k, v, dirty).slot[s].val = v
         /\ Fill(c, s, k, v, dirty).slot[s].dirty = dirty
         /\ Fill(c, s, k, v, dirty).nvs = c.nvs
         /\ Fill(c, s, k, v, dirty).dirtyCount = c.dirtyCount
         /\ Fill(c, s, k, v, dirty).lru = <<s>> \o c.lru
<1> DEFINE d == Fill(c, s, k, v, dirty)
           b == Hash[k]
           e == [valid |-> TRUE, key |-> k, val |-> v, dirty |-> dirty]
           w == <<s>> \o c.lru
           x == <<s>> \o c.chain[b]
<1>0. c \in CacheStates /\ Lists(c)
  BY DEF Fits
<1>1. b \in Buckets
  BY DEF Buckets
<1>2. e \in Entries /\ e.valid /\ e.key = k
  BY DEF Entries
<1>3. w \in Seq(Slots) /\ Distinct(w) /\ Members(w) = Valid(c) \cup {s}
  <2>1. c.lru \in Seq(Slots) /\ Distinct(c.lru) /\ Members(c.lru) = Valid(c)
    BY <1>0, StateFields DEF Lists
  <2> QED
    BY <2>1, FrontList
<1>4. x \in Seq(Slots) /\ Distinct(x) /\ Members(x) = ChainOf(c, b) \cup {s}
  <2>1. c.chain[b] \in Seq(Slots) /\ Distinct(c.chain[b]) /\ Members(c.chain[b]) = ChainOf(c, b)
    BY <1>0, <1>1, StateFields DEF Lists
  <2>2. s \notin ChainOf(c, b)
    BY DEF ChainOf
  <2> QED
    BY <2>1, <2>2, FrontList
<1>5. c.count + 1 \in Nat /\ c.count + 1 = Cardinality(Valid(c) \cup {s})
  <2>1. Valid(c) \in SUBSET Slots
    BY DEF Valid
  <2>2. IsFiniteSet(Valid(c))
    BY <2>1, SlotsFinite
  <2>3. Cardinality(Valid(c) \cup {s}) = Cardinality(Valid(c)) + 1
    BY <2>2, FS_AddElement
  <2> QED
    BY <1>0, <2>3, StateFields DEF Lists
<1>6. d = [[c EXCEPT !.slot[s] = e] EXCEPT !.chain[b] = x, !.lru = w, !.count = @ + 1]
  <2>1. [c EXCEPT !.slot[s] = e].chain = c.chain /\ [c EXCEPT !.slot[s] = e].lru = c.lru
    BY <1>0 DEF CacheStates
  <2> HIDE DEF e
  <2> QED
    BY <1>0, <2>1 DEF Fill, Attach, e, CacheStates
<1> HIDE DEF b, e, w, x
<1>7. /\ d.slot = [c.slot EXCEPT ![s] = e] /\ d.chain = [c.chain EXCEPT ![b] = x]
      /\ d.lru = w /\ d.count = c.count + 1 /\ d.nvs = c.nvs /\ d.dirtyCount = c.dirtyCount
      /\ d = [slot |-> d.slot, chain |-> d.chain, lru |-> d.lru, count |-> d.count,
              dirtyCount |-> d.dirtyCount, nvs |-> d.nvs]
  BY <1>0, <1>6 DEF CacheStates
<1>8. d \in CacheStates
  <2>1. [c.slot EXCEPT ![s] = e] \in [Slots -> Entries]
    BY <1>0, <1>2, StateFields
  <2>2. [c.chain EXCEPT ![b] = x] \in [Buckets -> Seq(Slots)]
    BY <1>0, <1>4, StateFields
  <2> HIDE DEF d
  <2> QED
    BY <1>0, <1>3, <1>5, <1>7, <2>1, <2>2, StateFields DEF CacheStates
<1> HIDE DEF d
<1>9. \A r \in Slots : d.slot[r] = IF r = s THEN e ELSE c.slot[r]
  BY <1>0, <1>7, StateFields
<1>10. Valid(d) = Valid(c) \cup {s}
  BY <1>2, <1>9 DEF Valid
<1>11. \A a \in Buckets : ChainOf(d, a) = IF a = b THEN ChainOf(c, a) \cup {s} ELSE ChainOf(c, a)
  <2>1. \A r \in Slots : r \in Valid(d) <=> r \in Valid(c) \/ r = s
    BY <1>10 DEF Valid
  <2>2. \A r \in Valid(c) : d.slot[r] = c.slot[r]
    BY <1>9 DEF Valid
  <2>3. d.slot[s].key = k
    BY <1>2, <1>9
  <2> QED
    BY <1>10, <2>2, <2>3 DEF ChainOf, b
<1>12. \A a \in Buckets : Distinct(d.chain[a]) /\ Members(d.chain[a]) = ChainOf(d, a)
  <2> SUFFICES ASSUME NEW a \in Buckets
               PROVE  Distinct(d.chain[a]) /\ Members(d.chain[a]) = ChainOf(d, a)
    OBVIOUS
  <2>1. CASE a = b
    <3>1. d.chain[a] = x
      BY <1>0, <1>1, <1>7, <2>1, StateFields
    <3> QED
      BY <1>4, <1>11, <2>1, <3>1
  <2>2. CASE a # b
    <3>1. d.chain[a] = c.chain[a]
      BY <1>0, <1>7, <2>2, StateFields
    <3> QED
      BY <1>0, <1>11, <2>2, <3>1 DEF Lists
  <2> QED
    BY <2>1, <2>2
<1>13. Lists(d)
  <2>1. \A r \in Valid(d) : d.slot[r].key \in Keys
    BY <1>0, <1>2, <1>9, <1>10 DEF Lists, Valid
  <2> QED
    BY <1>3, <1>5, <1>7, <1>10, <1>12, <2>1 DEF Lists
<1>14. d.slot[s].key = k /\ d.slot[s].val = v /\ d.slot[s].dirty = dirty
  BY <1>9 DEF e
<1> QED
  BY <1>7, <1>8, <1>9, <1>10, <1>13, <1>14 DEF Fits, d, w

LEMMA FilledFits ==
  ASSUME NEW c, Fits(c), NEW s \in Slots, s \notin Valid(c), NEW k \in Keys,
         NEW v \in Data, NEW dirty \in BOOLEAN
  PROVE  Fits(Fill(c, s, k, v, dirty)) /\ Valid(Fill(c, s, k, v, dirty)) = Valid(c) \cup {s}
<1> DEFINE d == Fill(c, s, k, v, dirty)
<1>1. /\ Fits(d) /\ Valid(d) = Valid(c) \cup {s}
      /\ d.slot[s].key = k /\ d.slot[s].val = v /\ d.slot[s].dirty = dirty
      /\ \A r \in Slots : r # s => d.slot[r] = c.slot[r]
      /\ d.nvs = c.nvs /\ d.dirtyCount = c.dirtyCount /\ d.lru = <<s>> \o c.lru
  BY Filled
<1> QED
  BY <1>1

(* A change that leaves the lists, the flags "valid" and the keys alone. *)
LEMMA SameLists ==
  ASSUME NEW c, Fits(c), NEW d \in CacheStates,
         d.lru = c.lru, d.chain = c.chain, d.count = c.count,
         \A s \in Slots : d.slot[s].valid = c.slot[s].valid /\ d.slot[s].key = c.slot[s].key
  PROVE  Fits(d) /\ Valid(d) = Valid(c)
<1>1. Valid(d) = Valid(c)
  BY DEF Valid
<1>2. \A b \in Buckets : ChainOf(d, b) = ChainOf(c, b)
  BY <1>1 DEF ChainOf, Valid
<1>3. \A s \in Valid(d) : d.slot[s].key \in Keys
  BY <1>1 DEF Fits, Lists, Valid
<1>4. Lists(d)
  BY <1>1, <1>2, <1>3 DEF Fits, Lists
<1> QED
  BY <1>1, <1>4 DEF Fits

LEMMA Lowered ==
  ASSUME NEW n \in 0 .. CounterMod - 1
  PROVE  Lower(n) \in 0 .. CounterMod - 1
BY CacheAssumption DEF Lower

LEMMA EndsOf ==
  ASSUME NEW c \in CacheStates, NEW s \in Slots, NEW end \in FlushEnds(c.slot[s])
  PROVE  /\ end \in {"ok", "failed", "late"}
         /\ end # "failed" => c.slot[s].val \in Values \cup {Freed} /\ c.slot[s].val \in Stock
<1>1. c.slot[s].val \in Data
  BY StateFields
<1> QED
  BY <1>1 DEF FlushEnds, DaoEnds, Data, Stock

(* flush_entry, of a valid entry: what it writes, and the flag it clears if *)
(* that was reported as done.                                               *)
LEMMA EntryFlushed ==
  ASSUME NEW c, Fits(c), NEW s \in Valid(c), NEW end \in FlushEnds(c.slot[s])
  PROVE  /\ Fits(FlushEntry(c, s, end)) /\ Valid(FlushEntry(c, s, end)) = Valid(c)
         /\ FlushEntry(c, s, end).lru = c.lru
         /\ FlushEntry(c, s, end).slot =
              IF end = "ok" THEN [c.slot EXCEPT ![s].dirty = FALSE] ELSE c.slot
         /\ FlushEntry(c, s, end).dirtyCount =
              IF end = "ok" THEN Lower(c.dirtyCount) ELSE c.dirtyCount
         /\ FlushEntry(c, s, end).nvs =
              IF end = "failed" THEN c.nvs ELSE [c.nvs EXCEPT ![c.slot[s].key] = c.slot[s].val]
<1> DEFINE d == FlushEntry(c, s, end)
           n == Stored(c.nvs, end, c.slot[s].key, c.slot[s].val)
           t == [c.slot EXCEPT ![s].dirty = FALSE]
<1>0. c \in CacheStates /\ s \in Slots /\ c.slot[s].key \in Keys
  BY DEF Fits, Lists, Valid
<1>1. n \in [Keys -> Stock]
  BY <1>0, StateFields, EndsOf DEF Stored
<1>2. t \in [Slots -> Entries]
  <2>1. [c.slot[s] EXCEPT !.dirty = FALSE] \in Entries
    BY <1>0, StateFields DEF Entries
  <2> QED
    BY <1>0, <2>1, StateFields
<1>3. \A r \in Slots : t[r].valid = c.slot[r].valid /\ t[r].key = c.slot[r].key
  BY <1>0, StateFields DEF Entries
<1>4. d = IF end # "ok" THEN [c EXCEPT !.nvs = n]
          ELSE [[c EXCEPT !.nvs = n] EXCEPT !.slot = t, !.dirtyCount = Lower(@)]
  <2>1. [c EXCEPT !.nvs = n].slot = c.slot
    BY <1>0 DEF CacheStates
  <2>2. [[c EXCEPT !.nvs = n] EXCEPT !.slot[s].dirty = FALSE, !.dirtyCount = Lower(@)]
          = [[c EXCEPT !.nvs = n] EXCEPT !.slot = t, !.dirtyCount = Lower(@)]
    BY <2>1
  <2> QED
    BY <2>2 DEF FlushEntry
<1> HIDE DEF n, t
<1>5. CASE end # "ok"
  <2>1. d = [c EXCEPT !.nvs = n]
    BY <1>4, <1>5
  <2> HIDE DEF d
  <2>2. /\ d \in CacheStates /\ d.slot = c.slot /\ d.lru = c.lru /\ d.chain = c.chain
        /\ d.count = c.count /\ d.dirtyCount = c.dirtyCount /\ d.nvs = n
    BY <1>0, <1>1, <2>1 DEF CacheStates
  <2>3. Fits(d) /\ Valid(d) = Valid(c)
    BY <2>2, SameLists
  <2> QED
    BY <1>5, <2>2, <2>3 DEF d, n, Stored
<1>6. CASE end = "ok"
  <2>1. d = [[c EXCEPT !.nvs = n] EXCEPT !.slot = t, !.dirtyCount = Lower(@)]
    BY <1>4, <1>6
  <2>2. Lower(c.dirtyCount) \in 0 .. CounterMod - 1
    BY <1>0, StateFields, Lowered
  <2> HIDE DEF d
  <2>3. /\ d \in CacheStates /\ d.slot = t /\ d.lru = c.lru /\ d.chain = c.chain
        /\ d.count = c.count /\ d.dirtyCount = Lower(c.dirtyCount) /\ d.nvs = n
    BY <1>0, <1>1, <1>2, <2>1, <2>2 DEF CacheStates
  <2>4. Fits(d) /\ Valid(d) = Valid(c)
    BY <1>3, <2>3, SameLists
  <2> QED
    BY <1>6, <2>3, <2>4 DEF d, n, t, Stored
<1> QED
  BY <1>5, <1>6

(* The loop of a flush: what each key has in the storage afterwards is what *)
(* it had or what an entry of it that was written holds.                    *)
Done(ends) == {s \in DOMAIN ends : ends[s] = "ok"}

LEMMA LoopFlushed ==
  ASSUME NEW c, Fits(c), NEW ends \in FlushOutcomes(c)
  PROVE  /\ Fits(FlushLoop(c, ends)) /\ Valid(FlushLoop(c, ends)) = Valid(c)
         /\ FlushLoop(c, ends).lru = c.lru
         /\ Done(ends) \in SUBSET DirtySlots(c)
         /\ \A s \in Slots :
              FlushLoop(c, ends).slot[s] =
                [c.slot[s] EXCEPT !.dirty = c.slot[s].dirty /\ s \notin Done(ends)]
         /\ FlushLoop(c, ends).dirtyCount =
              IF c.dirtyCount > Cardinality(Done(ends))
              THEN c.dirtyCount - Cardinality(Done(ends)) ELSE 0
         /\ \A k \in Keys :
              \/ /\ FlushLoop(c, ends).nvs[k] = c.nvs[k]
                 /\ \A s \in Done(ends) : c.slot[s].key # k
              \/ \E s \in Valid(c) : /\ c.slot[s].key = k /\ c.slot[s].dirty
                                     /\ FlushLoop(c, ends).nvs[k] = c.slot[s].val
<1> DEFINE d == FlushLoop(c, ends)
           written(k) == {s \in DOMAIN ends : ends[s] # "failed" /\ c.slot[s].key = k}
           last(S) == CHOOSE s \in S : \A r \in S : r <= s
           n == [k \in Keys |-> IF written(k) = {} THEN c.nvs[k] ELSE c.slot[last(written(k))].val]
           t == [s \in Slots |-> [c.slot[s] EXCEPT !.dirty = @ /\ s \notin Done(ends)]]
           m == IF c.dirtyCount > Cardinality(Done(ends))
                THEN c.dirtyCount - Cardinality(Done(ends)) ELSE 0
<1>0. c \in CacheStates
  BY DEF Fits
<1>1. /\ DOMAIN ends = DirtySlots(c) /\ DirtySlots(c) \in SUBSET Slots
      /\ \A s \in DirtySlots(c) : s \in Valid(c) /\ s \in Slots /\ c.slot[s].dirty /\ ends[s] \in FlushEnds(c.slot[s])
  BY <1>0, StateFields DEF FlushOutcomes, DirtySlots, Valid
<1>2. Done(ends) \in SUBSET DirtySlots(c) /\ Cardinality(Done(ends)) \in Nat
  <2>1. Done(ends) \in SUBSET DirtySlots(c)
    BY <1>1 DEF Done
  <2> QED
    BY <1>1, <2>1, SlotsFinite
<1>3. ASSUME NEW k \in Keys, written(k) # {}
      PROVE  last(written(k)) \in written(k)
  <2>1. written(k) \in SUBSET (1 .. MaxEntries)
    BY <1>1 DEF Slots
  <2> HIDE DEF written
  <2>2. \E s \in written(k) : \A r \in written(k) : r <= s
    BY <1>3, <2>1, CacheAssumption, LastPosition
  <2> QED
    BY <2>2
<1> HIDE DEF last
<1>4. n \in [Keys -> Stock]
  <2> SUFFICES ASSUME NEW k \in Keys
               PROVE  (IF written(k) = {} THEN c.nvs[k] ELSE c.slot[last(written(k))].val) \in Stock
    OBVIOUS
  <2>1. CASE written(k) = {}
    BY <1>0, <2>1, StateFields
  <2>2. CASE written(k) # {}
    <3>1. last(written(k)) \in DOMAIN ends /\ ends[last(written(k))] # "failed"
      BY <1>3, <2>2
    <3> HIDE DEF written
    <3> QED
      BY <1>0, <1>1, <2>2, <3>1, EndsOf
  <2> QED
    BY <2>1, <2>2
<1>5. \A s \in Slots : /\ t[s] \in Entries /\ t[s].valid = c.slot[s].valid /\ t[s].key = c.slot[s].key
                       /\ t[s] = [c.slot[s] EXCEPT !.dirty = c.slot[s].dirty /\ s \notin Done(ends)]
  <2> SUFFICES ASSUME NEW s \in Slots
               PROVE  /\ t[s] \in Entries /\ t[s].valid = c.slot[s].valid /\ t[s].key = c.slot[s].key
                      /\ t[s] = [c.slot[s] EXCEPT !.dirty = c.slot[s].dirty /\ s \notin Done(ends)]
    OBVIOUS
  <2>1. t[s] = [c.slot[s] EXCEPT !.dirty = c.slot[s].dirty /\ s \notin Done(ends)]
    OBVIOUS
  <2>2. c.slot[s] \in Entries /\ (c.slot[s].dirty /\ s \notin Done(ends)) \in BOOLEAN
    BY <1>0, StateFields
  <2> HIDE DEF t
  <2> QED
    BY <2>1, <2>2 DEF Entries
<1>6. m \in 0 .. CounterMod - 1
  BY <1>0, <1>2, CacheAssumption, StateFields
<1>7. d = [c EXCEPT !.slot = t, !.nvs = n, !.dirtyCount = m]
  BY DEF FlushLoop, Done, last
<1>8. t \in [Slots -> Entries]
  BY <1>5
<1> HIDE DEF t, m, n, d
<1>9. /\ d \in CacheStates /\ d.slot = t /\ d.lru = c.lru /\ d.chain = c.chain
      /\ d.count = c.count /\ d.dirtyCount = m /\ d.nvs = n
  BY <1>0, <1>4, <1>6, <1>7, <1>8 DEF CacheStates
<1>10. Fits(d) /\ Valid(d) = Valid(c)
  BY <1>5, <1>9, SameLists
<1>11. \A k \in Keys :
         \/ n[k] = c.nvs[k] /\ \A s \in Done(ends) : c.slot[s].key # k
         \/ \E s \in Valid(c) : c.slot[s].key = k /\ c.slot[s].dirty /\ n[k] = c.slot[s].val
  <2> SUFFICES ASSUME NEW k \in Keys
               PROVE  \/ n[k] = c.nvs[k] /\ \A s \in Done(ends) : c.slot[s].key # k
                      \/ \E s \in Valid(c) : c.slot[s].key = k /\ c.slot[s].dirty /\ n[k] = c.slot[s].val
    OBVIOUS
  <2>1. CASE written(k) = {}
    <3>1. n[k] = c.nvs[k]
      BY <2>1 DEF n
    <3>2. \A s \in Done(ends) : c.slot[s].key # k
      BY <2>1 DEF Done
    <3> QED
      BY <3>1, <3>2
  <2>2. CASE written(k) # {}
    <3>1. last(written(k)) \in DOMAIN ends /\ c.slot[last(written(k))].key = k
      BY <1>3, <2>2
    <3>2. n[k] = c.slot[last(written(k))].val
      BY <2>2 DEF n
    <3> QED
      BY <1>1, <3>1, <3>2
  <2> QED
    BY <2>1, <2>2
<1> QED
  BY <1>2, <1>5, <1>9, <1>10, <1>11 DEF d, m

(* The copy in an entry is another, or is none. *)
LEMMA Copied ==
  ASSUME NEW c, Fits(c), NEW s \in Slots, NEW v \in Data
  PROVE  /\ Fits([c EXCEPT !.slot[s].val = v]) /\ Valid([c EXCEPT !.slot[s].val = v]) = Valid(c)
         /\ [c EXCEPT !.slot[s].val = v].slot = [c.slot EXCEPT ![s].val = v]
         /\ [c EXCEPT !.slot[s].val = v].nvs = c.nvs
         /\ [c EXCEPT !.slot[s].val = v].dirtyCount = c.dirtyCount
         /\ [c EXCEPT !.slot[s].val = v].lru = c.lru
<1> DEFINE d == [c EXCEPT !.slot[s].val = v]
           t == [c.slot EXCEPT ![s].val = v]
<1>0. c \in CacheStates
  BY DEF Fits
<1>1. t \in [Slots -> Entries] /\ \A r \in Slots : t[r].valid = c.slot[r].valid /\ t[r].key = c.slot[r].key
  BY <1>0, StateFields DEF Entries
<1>2. d = [c EXCEPT !.slot = t]
  OBVIOUS
<1> HIDE DEF d, t
<1>3. /\ d \in CacheStates /\ d.slot = t /\ d.lru = c.lru /\ d.chain = c.chain
      /\ d.count = c.count /\ d.dirtyCount = c.dirtyCount /\ d.nvs = c.nvs
  BY <1>0, <1>1, <1>2 DEF CacheStates
<1>4. Fits(d) /\ Valid(d) = Valid(c)
  BY <1>1, <1>3, SameLists
<1> QED
  BY <1>3, <1>4 DEF d, t

LEMMA Marked ==
  ASSUME NEW c, Fits(c), NEW s \in Slots
  PROVE  /\ Fits(MarkDirty(c, s)) /\ Valid(MarkDirty(c, s)) = Valid(c)
         /\ MarkDirty(c, s).slot = [c.slot EXCEPT ![s].dirty = TRUE]
         /\ MarkDirty(c, s).nvs = c.nvs /\ MarkDirty(c, s).lru = c.lru
         /\ MarkDirty(c, s).dirtyCount =
              IF c.slot[s].dirty THEN c.dirtyCount ELSE (c.dirtyCount + 1) % CounterMod
<1> DEFINE d == MarkDirty(c, s)
           t == [c.slot EXCEPT ![s].dirty = TRUE]
           m == (c.dirtyCount + 1) % CounterMod
<1>0. c \in CacheStates
  BY DEF Fits
<1>1. t \in [Slots -> Entries] /\ \A r \in Slots : t[r].valid = c.slot[r].valid /\ t[r].key = c.slot[r].key
  BY <1>0, StateFields DEF Entries
<1>2. CASE c.slot[s].dirty
  <2>1. d = c
    BY <1>2 DEF MarkDirty
  <2>2. t = c.slot
    <3>1. c.slot[s] = [c.slot[s] EXCEPT !.dirty = TRUE]
      BY <1>0, <1>2, StateFields DEF Entries
    <3> QED
      BY <1>0, <3>1, StateFields
  <2> QED
    BY <1>2, <2>1, <2>2
<1>3. CASE ~c.slot[s].dirty
  <2>1. d = [c EXCEPT !.slot = t, !.dirtyCount = m]
    BY <1>3 DEF MarkDirty
  <2>2. m \in 0 .. CounterMod - 1
    BY <1>0, CacheAssumption, StateFields
  <2> HIDE DEF d, t, m
  <2>3. /\ d \in CacheStates /\ d.slot = t /\ d.lru = c.lru /\ d.chain = c.chain
        /\ d.count = c.count /\ d.dirtyCount = m /\ d.nvs = c.nvs
    BY <1>0, <1>1, <2>1, <2>2 DEF CacheStates
  <2>4. Fits(d) /\ Valid(d) = Valid(c)
    BY <1>1, <2>3, SameLists
  <2> QED
    BY <1>3, <2>3, <2>4 DEF d, t, m
<1> QED
  BY <1>2, <1>3

(* Drop, of a valid entry: its slot is free and not dirty. *)
LEMMA Dropped ==
  ASSUME NEW c, Fits(c), NEW s \in Valid(c)
  PROVE  /\ Fits(Drop(c, s)) /\ Valid(Drop(c, s)) = Valid(c) \ {s}
         /\ \A r \in Slots : r # s => Drop(c, s).slot[r] = c.slot[r]
         /\ ~Drop(c, s).slot[s].dirty
         /\ Drop(c, s).nvs = c.nvs /\ Drop(c, s).lru = Without(c.lru, s)
         /\ Drop(c, s).dirtyCount = IF c.slot[s].dirty THEN Lower(c.dirtyCount) ELSE c.dirtyCount
<1> DEFINE e == Detach(c, s)
           d == Drop(c, s)
<1>0. c \in CacheStates /\ s \in Slots /\ s \in Valid(c) /\ c.slot[s].dirty \in BOOLEAN
  BY StateFields DEF Fits, Valid
<1>1. /\ Fits(e) /\ Valid(e) = Valid(c) \ {s} /\ e.nvs = c.nvs /\ e.dirtyCount = c.dirtyCount
      /\ \A r \in Slots : r # s => e.slot[r] = c.slot[r]
      /\ e.slot[s].dirty = c.slot[s].dirty /\ e.lru = Without(c.lru, s)
  BY <1>0, Detached
<1>2. CASE ~c.slot[s].dirty
  <2>1. d = e
    BY <1>2 DEF Drop
  <2> QED
    BY <1>1, <1>2, <2>1
<1>3. CASE c.slot[s].dirty
  <2> DEFINE t == [e.slot EXCEPT ![s].dirty = FALSE]
  <2>1. d = [e EXCEPT !.slot = t, !.dirtyCount = Lower(@)]
    BY <1>3 DEF Drop
  <2>2. e \in CacheStates
    BY <1>1 DEF Fits
  <2>3. t \in [Slots -> Entries] /\ \A r \in Slots : t[r].valid = e.slot[r].valid /\ t[r].key = e.slot[r].key
    BY <2>2, StateFields DEF Entries
  <2>4. ~t[s].dirty /\ \A r \in Slots : r # s => t[r] = e.slot[r]
    BY <1>0, <2>2, StateFields DEF Entries
  <2>5. Lower(e.dirtyCount) \in 0 .. CounterMod - 1
    BY <2>2, StateFields, Lowered
  <2> HIDE DEF d, e, t
  <2>6. /\ d \in CacheStates /\ d.slot = t /\ d.lru = e.lru /\ d.chain = e.chain
        /\ d.count = e.count /\ d.dirtyCount = Lower(e.dirtyCount) /\ d.nvs = e.nvs
    BY <2>1, <2>2, <2>3, <2>5 DEF CacheStates
  <2>7. Fits(d) /\ Valid(d) = Valid(e)
    BY <1>1, <2>3, <2>6, SameLists
  <2> QED
    BY <1>1, <1>3, <2>4, <2>6, <2>7 DEF d
<1> QED
  BY <1>2, <1>3

(* Nothing is in an empty list. *)
LEMMA EmptyList ==
  /\ \A S : <<>> \in Seq(S)
  /\ Distinct(<<>>) /\ Members(<<>>) = {}
BY DEF Distinct, Members

LEMMA NoneFits ==
  ASSUME NEW c \in CacheStates, c.lru = <<>>, c.count = 0,
         \A b \in Buckets : c.chain[b] = <<>>, \A s \in Slots : ~c.slot[s].valid
  PROVE  Fits(c) /\ Valid(c) = {}
<1>1. Valid(c) = {} /\ \A b \in Buckets : ChainOf(c, b) = {}
  BY DEF Valid, ChainOf
<1> QED
  BY <1>1, EmptyList, FS_EmptySet DEF Fits, Lists

LEMMA EmptyFits ==
  ASSUME NEW n \in [Keys -> Stock]
  PROVE  LET c == [slot |-> [s \in Slots |-> EmptySlot], chain |-> [b \in Buckets |-> <<>>],
                   lru |-> <<>>, count |-> 0, dirtyCount |-> 0, nvs |-> n]
         IN Fits(c) /\ Valid(c) = {}
<1> DEFINE t == [s \in Slots |-> EmptySlot]
           h == [b \in Buckets |-> <<>>]
           c == [slot |-> t, chain |-> h, lru |-> <<>>, count |-> 0, dirtyCount |-> 0, nvs |-> n]
<1>1. EmptySlot \in Entries /\ ~EmptySlot.valid
  BY DEF EmptySlot, Entries, Data
<1>2. t \in [Slots -> Entries] /\ \A s \in Slots : ~t[s].valid
  BY <1>1
<1>3. h \in [Buckets -> Seq(Slots)] /\ \A b \in Buckets : h[b] = <<>>
  BY EmptyList
<1>4. 0 \in Nat /\ 0 \in 0 .. CounterMod - 1
  BY CacheAssumption
<1> HIDE DEF t, h
<1>5. c \in CacheStates
  BY <1>2, <1>3, <1>4, EmptyList DEF CacheStates
<1>6. /\ c.lru = <<>> /\ c.count = 0 /\ \A b \in Buckets : c.chain[b] = <<>>
      /\ \A s \in Slots : ~c.slot[s].valid
  BY <1>2, <1>3
<1>7. Fits(c) /\ Valid(c) = {}
  <2> HIDE DEF c
  <2> QED
    BY <1>5, <1>6, NoneFits
<1> QED
  BY <1>7 DEF t, h

(* Emptied: no entry is left; the flags are those given. *)
LEMMA EmptiedFits ==
  ASSUME NEW c, Fits(c), NEW keep \in [Slots -> BOOLEAN]
  PROVE  /\ Fits(Emptied(c, keep)) /\ Valid(Emptied(c, keep)) = {}
         /\ Emptied(c, keep).nvs = c.nvs /\ Emptied(c, keep).dirtyCount = 0
         /\ Emptied(c, keep).lru = <<>>
         /\ \A s \in Slots : Emptied(c, keep).slot[s].dirty = keep[s]
<1> DEFINE t == [s \in Slots |-> [EmptySlot EXCEPT !.dirty = keep[s]]]
           h == [b \in Buckets |-> <<>>]
           d == Emptied(c, keep)
<1>0. c \in CacheStates
  BY DEF Fits
<1>1. EmptySlot \in Entries /\ ~EmptySlot.valid
  BY DEF EmptySlot, Entries, Data
<1>2. t \in [Slots -> Entries] /\ \A s \in Slots : ~t[s].valid /\ t[s].dirty = keep[s]
  <2> SUFFICES ASSUME NEW s \in Slots
               PROVE  LET e == [EmptySlot EXCEPT !.dirty = keep[s]]
                      IN e \in Entries /\ ~e.valid /\ e.dirty = keep[s]
    OBVIOUS
  <2>1. keep[s] \in BOOLEAN
    OBVIOUS
  <2> QED
    BY <1>1, <2>1 DEF Entries
<1>3. h \in [Buckets -> Seq(Slots)] /\ \A b \in Buckets : h[b] = <<>>
  BY EmptyList
<1>4. 0 \in Nat /\ 0 \in 0 .. CounterMod - 1
  BY CacheAssumption
<1>5. d = [c EXCEPT !.slot = t, !.chain = h, !.lru = <<>>, !.count = 0, !.dirtyCount = 0]
  BY DEF Emptied
<1> HIDE DEF t, h, d
<1>6. d \in CacheStates /\ d.slot = t /\ d.chain = h /\ d.lru = <<>> /\ d.count = 0
      /\ d.dirtyCount = 0 /\ d.nvs = c.nvs
  BY <1>0, <1>2, <1>3, <1>4, <1>5, EmptyList DEF CacheStates
<1>7. Fits(d) /\ Valid(d) = {}
  BY <1>2, <1>3, <1>6, NoneFits
<1> QED
  BY <1>2, <1>6, <1>7 DEF d

(* find_entry finds a valid entry of the key if there is one. *)
EntriesOf(c, k) == {s \in Valid(c) : c.slot[s].key = k}

LEMMA Found ==
  ASSUME NEW c, Fits(c), NEW k \in Keys
  PROVE  /\ Find(c, k) # NoSlot => Find(c, k) \in EntriesOf(c, k) /\ Find(c, k) \in Slots
         /\ Find(c, k) = NoSlot => EntriesOf(c, k) = {}
<1> DEFINE q == c.chain[Hash[k]]
           hits == {i \in DOMAIN q : c.slot[q[i]].valid /\ c.slot[q[i]].key = k}
           first == CHOOSE i \in hits : \A j \in hits : i <= j
<1>1. /\ c \in CacheStates /\ Hash[k] \in Buckets /\ q \in Seq(Slots)
      /\ Members(q) = ChainOf(c, Hash[k])
  BY StateFields DEF Fits, Lists, Buckets
<1>2. Find(c, k) = IF hits = {} THEN NoSlot ELSE q[first]
  BY DEF Find
<1>3. CASE hits = {}
  <2>1. ASSUME NEW s \in EntriesOf(c, k) PROVE FALSE
    <3>1. s \in ChainOf(c, Hash[k]) /\ c.slot[s].valid /\ c.slot[s].key = k
      BY DEF EntriesOf, ChainOf, Valid
    <3>2. PICK i \in DOMAIN q : q[i] = s
      BY <1>1, <3>1 DEF Members
    <3> QED
      BY <1>3, <3>1, <3>2
  <2>2. EntriesOf(c, k) = {}
    BY <2>1
  <2>3. Find(c, k) = NoSlot
    BY <1>2, <1>3
  <2> QED
    BY <2>2, <2>3
<1>4. CASE hits # {}
  <2>1. hits \in SUBSET (1 .. Len(q)) /\ Len(q) \in Nat /\ DOMAIN q = 1 .. Len(q)
    BY <1>1
  <2>2. \E i \in hits : \A j \in hits : i <= j
    <3> HIDE DEF hits
    <3> QED
      BY <1>4, <2>1, FirstPosition
  <2>3. first \in hits
    <3> HIDE DEF hits
    <3> QED
      BY <2>2
  <2>4. q[first] \in Slots /\ q[first] \in EntriesOf(c, k)
    <3> HIDE DEF first
    <3>1. q[first] \in Slots
      BY <1>1, <2>3
    <3> QED
      BY <2>3, <3>1 DEF EntriesOf, Valid
  <2>5. Find(c, k) = q[first]
    BY <1>2, <1>4
  <2>6. q[first] # NoSlot
    <3>1. \A s \in Slots : s # NoSlot
      BY CacheAssumption DEF Slots, NoSlot
    <3> HIDE DEF first, q
    <3> QED
      BY <2>4, <3>1
  <2> HIDE DEF first, hits
  <2> QED
    BY <2>4, <2>5, <2>6
<1> QED
  BY <1>3, <1>4

(* evict_lru, of a full array: the last of the list is written if it is     *)
(* dirty, and dropped unless that failed.                                   *)
LEMMA Evicted ==
  ASSUME NEW c, Fits(c), Valid(c) = Slots, NEW e \in Evict(c)
  PROVE  \E s \in Valid(c), end \in {"ok", "failed", "late"} :
           /\ c.slot[s].dirty => end \in FlushEnds(c.slot[s])
           /\ e.ok <=> end = "ok"
           /\ e.c = IF c.slot[s].dirty
                    THEN IF end = "ok" THEN Detach(FlushEntry(c, s, end), s)
                         ELSE FlushEntry(c, s, end)
                    ELSE Detach(c, s)
           /\ ~c.slot[s].dirty => end = "ok"
<1> DEFINE s == c.lru[Len(c.lru)]
           dirty == c.slot[s].dirty
           flushed(end) == IF dirty THEN FlushEntry(c, s, end) ELSE c
<1>1. s \in Valid(c)
  <2>1. c.lru \in Seq(Slots) /\ Members(c.lru) = Valid(c)
    BY StateFields DEF Fits, Lists
  <2>2. 1 \in Members(c.lru)
    BY <2>1, CacheAssumption DEF Slots
  <2>3. Len(c.lru) \in DOMAIN c.lru
    BY <2>1, <2>2 DEF Members
  <2> QED
    BY <2>1, <2>3 DEF Members
<1>2. PICK end \in IF dirty THEN FlushEnds(c.slot[s]) ELSE {"ok"} :
        e = IF end = "ok" THEN [c |-> Detach(flushed(end), s), ok |-> TRUE]
            ELSE [c |-> flushed(end), ok |-> FALSE]
  BY DEF Evict
<1> HIDE DEF s
<1>3. c.slot[s].dirty \in BOOLEAN /\ s \in Slots /\ c \in CacheStates
  BY <1>1, StateFields DEF Valid, Fits
<1>4. end \in {"ok", "failed", "late"}
  BY <1>2, <1>3, EndsOf
<1>5. /\ c.slot[s].dirty => end \in FlushEnds(c.slot[s])
      /\ ~c.slot[s].dirty => end = "ok"
  BY <1>2, <1>3
<1>6. e.ok <=> end = "ok"
  BY <1>2
<1>7. e.c = IF end = "ok" THEN Detach(flushed(end), s) ELSE flushed(end)
  BY <1>2
<1>8. e.c = IF c.slot[s].dirty
            THEN IF end = "ok" THEN Detach(FlushEntry(c, s, end), s) ELSE FlushEntry(c, s, end)
            ELSE Detach(c, s)
  BY <1>5, <1>7
<1> QED
  BY <1>1, <1>4, <1>5, <1>6, <1>8

(* One eviction: of a full array, a valid entry that is not dirty goes, a   *)
(* dirty one is written, and goes if that is reported as done.              *)
Evicts(c, d) ==
  \E s \in Valid(c) :
    \/ ~c.slot[s].dirty /\ d = Detach(c, s)
    \/ c.slot[s].dirty /\ "ok" \in FlushEnds(c.slot[s]) /\ d = Detach(FlushEntry(c, s, "ok"), s)
    \/ c.slot[s].dirty /\ \E end \in FlushEnds(c.slot[s]) \ {"ok"} : d = FlushEntry(c, s, end)

LEMMA EvictsFits ==
  ASSUME NEW c, Fits(c), NEW d, Evicts(c, d)
  PROVE  Fits(d)
<1>1. PICK s \in Valid(c) :
        \/ ~c.slot[s].dirty /\ d = Detach(c, s)
        \/ c.slot[s].dirty /\ "ok" \in FlushEnds(c.slot[s]) /\ d = Detach(FlushEntry(c, s, "ok"), s)
        \/ c.slot[s].dirty /\ \E end \in FlushEnds(c.slot[s]) \ {"ok"} : d = FlushEntry(c, s, end)
  BY DEF Evicts
<1>2. CASE d = Detach(c, s)
  BY <1>2, Detached
<1>3. CASE "ok" \in FlushEnds(c.slot[s]) /\ d = Detach(FlushEntry(c, s, "ok"), s)
  <2> DEFINE f == FlushEntry(c, s, "ok")
  <2>1. Fits(f) /\ Valid(f) = Valid(c)
    BY <1>3, EntryFlushed
  <2> HIDE DEF f
  <2>2. Fits(Detach(f, s))
    BY <2>1, Detached
  <2> QED
    BY <1>3, <2>2 DEF f
<1>4. CASE \E end \in FlushEnds(c.slot[s]) \ {"ok"} : d = FlushEntry(c, s, end)
  <2>1. PICK end \in FlushEnds(c.slot[s]) \ {"ok"} : d = FlushEntry(c, s, end)
    BY <1>4
  <2> QED
    BY <2>1, EntryFlushed
<1> QED
  BY <1>1, <1>2, <1>3, <1>4

(* allocate_entry: a free slot, perhaps after an eviction; or none.         *)
LEMMA Allocated ==
  ASSUME NEW c, Fits(c), NEW a \in Allocate(c)
  PROVE  /\ Fits(a.c) /\ (a.c = c \/ Evicts(c, a.c))
         /\ a.s = NoSlot \/ (a.s # NoSlot /\ a.s \in Slots /\ a.s \notin Valid(a.c))
<1>0. \A d : Fits(d) => Unused(d) = Slots \ Valid(d)
  BY DEF Unused, Valid
<1>1. ASSUME NEW d, Fits(d), Unused(d) # {}
      PROVE  FirstUnused(d) \in Slots /\ FirstUnused(d) \notin Valid(d) /\ FirstUnused(d) # NoSlot
  <2>1. Unused(d) \in SUBSET (1 .. MaxEntries)
    BY DEF Unused, Slots
  <2>2. \E i \in Unused(d) : \A j \in Unused(d) : i <= j
    BY <1>1, <2>1, CacheAssumption, FirstPosition
  <2>3. FirstUnused(d) \in Unused(d)
    BY <2>2 DEF FirstUnused
  <2> QED
    BY <1>0, <1>1, <2>3, CacheAssumption DEF Slots, NoSlot
<1>2. CASE Unused(c) # {}
  <2>1. a = [c |-> c, s |-> FirstUnused(c)]
    BY <1>2 DEF Allocate
  <2>2. a.c = c /\ a.s = FirstUnused(c)
    BY <2>1
  <2> QED
    BY <1>1, <1>2, <2>2
<1>3. CASE Unused(c) = {}
  <2>1. PICK e \in Evict(c) : a = [c |-> e.c, s |-> IF e.ok THEN FirstUnused(e.c) ELSE NoSlot]
    BY <1>3 DEF Allocate
  <2>2. a.c = e.c /\ a.s = IF e.ok THEN FirstUnused(e.c) ELSE NoSlot
    BY <2>1
  <2>3. Valid(c) = Slots
    BY <1>0, <1>3 DEF Valid
  <2>4. PICK s \in Valid(c), end \in {"ok", "failed", "late"} :
          /\ c.slot[s].dirty => end \in FlushEnds(c.slot[s])
          /\ e.ok <=> end = "ok"
          /\ e.c = IF c.slot[s].dirty
                   THEN IF end = "ok" THEN Detach(FlushEntry(c, s, end), s)
                        ELSE FlushEntry(c, s, end)
                   ELSE Detach(c, s)
          /\ ~c.slot[s].dirty => end = "ok"
    BY <2>3, Evicted
  <2>5. Evicts(c, e.c)
    BY <2>4 DEF Evicts
  <2>6. Fits(e.c)
    BY <2>5, EvictsFits
  <2>7. ASSUME e.ok PROVE Unused(e.c) # {}
    <3>1. CASE c.slot[s].dirty
      <4>1. e.c = Detach(FlushEntry(c, s, "ok"), s) /\ "ok" \in FlushEnds(c.slot[s])
        BY <2>4, <2>7, <3>1
      <4> DEFINE f == FlushEntry(c, s, "ok")
      <4>2. Fits(f) /\ Valid(f) = Valid(c)
        BY <2>4, <4>1, EntryFlushed
      <4> HIDE DEF f
      <4>3. Valid(Detach(f, s)) = Valid(f) \ {s}
        BY <2>4, <4>2, Detached
      <4> QED
        BY <1>0, <2>4, <2>6, <4>1, <4>2, <4>3 DEF f, Valid
    <3>2. CASE ~c.slot[s].dirty
      <4>1. Valid(e.c) = Valid(c) \ {s}
        BY <2>4, <3>2, Detached
      <4> QED
        BY <1>0, <2>4, <2>6, <4>1 DEF Valid
    <3> QED
      BY <3>1, <3>2
  <2> QED
    BY <1>1, <2>2, <2>5, <2>6, <2>7
<1> QED
  BY <1>2, <1>3

(* The entry for a set: the one of the key, or a new one that has no data.  *)
LEMMA EntryForKey ==
  ASSUME Fits(Here), NEW k \in Keys, NEW e \in EntryFor(k)
  PROVE  \/ /\ Find(Here, k) # NoSlot /\ e.s = Find(Here, k) /\ e.c = Touch(Here, e.s)
            /\ e.s \in EntriesOf(Here, k)
         \/ /\ Find(Here, k) = NoSlot /\ e.s = NoSlot /\ (e.c = Here \/ Evicts(Here, e.c))
         \/ /\ Find(Here, k) = NoSlot
            /\ \E d : /\ Fits(d) /\ (d = Here \/ Evicts(Here, d))
                      /\ e.s \in Slots /\ e.s \notin Valid(d)
                      /\ e.c = Fill(d, e.s, k, NoData, d.slot[e.s].dirty)
<1>1. CASE Find(Here, k) # NoSlot
  <2>1. e = [c |-> Touch(Here, Find(Here, k)), s |-> Find(Here, k)]
    BY <1>1 DEF EntryFor
  <2>2. e.s = Find(Here, k) /\ e.c = Touch(Here, e.s)
    BY <2>1
  <2> QED
    BY <1>1, <2>2, Found
<1>2. CASE Find(Here, k) = NoSlot
  <2>1. PICK a \in Allocate(Here) :
          e = IF a.s = NoSlot THEN a
              ELSE [c |-> Fill(a.c, a.s, k, NoData, a.c.slot[a.s].dirty), s |-> a.s]
    BY <1>2 DEF EntryFor
  <2>2. /\ Fits(a.c) /\ (a.c = Here \/ Evicts(Here, a.c))
        /\ a.s = NoSlot \/ (a.s # NoSlot /\ a.s \in Slots /\ a.s \notin Valid(a.c))
    BY Allocated
  <2>3. CASE a.s = NoSlot
    BY <1>2, <2>1, <2>2, <2>3
  <2>4. CASE a.s # NoSlot
    <3>1. e.s = a.s /\ e.c = Fill(a.c, a.s, k, NoData, a.c.slot[a.s].dirty)
      BY <2>1, <2>4
    <3> QED
      BY <1>2, <2>2, <2>4, <3>1
  <2> QED
    BY <2>3, <2>4
<1> QED
  BY <1>1, <1>2

-----------------------------------------------------------------------------
(* The inductive invariant of the types and the lists                       *)

Places == {"idle", "loading", "inserting", "writing", "removing",
           "preloading", "preloadKey", "freeing"}
KeyPlaces == {"loading", "inserting", "writing", "removing"}
PreloadPlaces == {"preloading", "preloadKey", "freeing"}

LoadOps == [kind : {"get"}, k : Keys, cached : BOOLEAN]
InsertOps == [kind : {"get"}, k : Keys, val : Values \cup {Freed}]
WriteOps == [kind : {"set"}, k : Keys, val : Values]
RemoveOps == [kind : {"delete"}, k : Keys]
PreloadOps == [kind : {"preload"}, todo : Seq(Keys), data : [Keys -> Stock],
               i : Nat, loaded : Nat, taken : SUBSET (Nat \X Slots)]
Ops == {NoOp} \cup LoadOps \cup InsertOps \cup WriteOps \cup RemoveOps \cup PreloadOps

(* The locals o of task t fit the place p where it is: its key is one that  *)
(* it uses, and what a preload has read was there.                          *)
Locals(t, p, o) ==
  /\ p = "loading" => o \in LoadOps
  /\ p = "inserting" => o \in InsertOps
  /\ p = "writing" => o \in WriteOps
  /\ p = "removing" => o \in RemoveOps
  /\ p \in KeyPlaces => t \in UsersOf[o.k]
  /\ p \in PreloadPlaces => o \in PreloadOps /\ \A j \in DOMAIN o.todo : o.data[o.todo[j]] # Absent

CallsInv ==
  /\ pc \in [Tasks -> Places] /\ op \in [Tasks -> Ops]
  /\ \A t \in Tasks : Locals(t, pc[t], op[t])

TableInv == Fits(Here) /\ (~registered => Valid(Here) = {})

Outcomes == Values \cup {Absent, Unknown}
HistoryInv ==
  /\ expected \in [Keys -> Outcomes]
  /\ recent \in Seq(Keys) /\ Distinct(recent) /\ \A k \in Members(recent) : Own(k)

RestInv == registered \in BOOLEAN /\ policy \in Policies /\ lock \in Tasks \cup {Nobody}

(* Only the task that fills the cache in a preload holds the mutex between  *)
(* two steps, and nobody can unregister the namespace meanwhile.            *)
LockInv == \A t \in Tasks : pc[t] = "preloadKey" => lock = t /\ registered

TypeInv == TableInv /\ CallsInv /\ HistoryInv /\ RestInv /\ LockInv

-----------------------------------------------------------------------------
(* The calls under way *)

LEMMA GotoLocals ==
  ASSUME CallsInv, NEW t \in Tasks, NEW p \in Places, NEW o \in Ops, Locals(t, p, o), Goto(t, p, o)
  PROVE  CallsInv'
<1>1. pc' = [pc EXCEPT ![t] = p] /\ op' = [op EXCEPT ![t] = o]
  BY DEF Goto
<1>2. pc' \in [Tasks -> Places] /\ op' \in [Tasks -> Ops]
  BY <1>1 DEF CallsInv
<1>3. ASSUME NEW u \in Tasks PROVE Locals(u, pc'[u], op'[u])
  <2>1. CASE u = t
    <3>1. pc'[u] = p /\ op'[u] = o
      BY <1>1, <2>1 DEF CallsInv
    <3> QED
      BY <2>1, <3>1
  <2>2. CASE u # t
    <3>1. pc'[u] = pc[u] /\ op'[u] = op[u]
      BY <1>1, <2>2 DEF CallsInv
    <3> QED
      BY <3>1 DEF CallsInv
  <2> QED
    BY <2>1, <2>2
<1> QED
  BY <1>2, <1>3 DEF CallsInv

LEMMA ReturnLocals ==
  ASSUME CallsInv, NEW t \in Tasks, Return(t)
  PROVE  CallsInv'
<1>1. "idle" \in Places /\ NoOp \in Ops /\ Locals(t, "idle", NoOp)
  BY DEF Places, Ops, Locals, KeyPlaces, PreloadPlaces
<1> QED
  BY <1>1, GotoLocals DEF Return

LEMMA UnchangedLocals ==
  ASSUME CallsInv, UNCHANGED <<pc, op>>
  PROVE  CallsInv'
BY DEF CallsInv

LEMMA CallsMiss ==
  ASSUME TypeInv, NEW t \in Tasks, NEW k \in Keys, GetMiss(t, k)
  PROVE  CallsInv'
<1> DEFINE o == [kind |-> "get", k |-> k, cached |-> registered]
<1>1. o \in LoadOps /\ o.k = k
  BY DEF LoadOps, TypeInv, RestInv
<1>2. Goto(t, "loading", o) /\ t \in UsersOf[k]
  BY DEF GetMiss
<1> HIDE DEF o
<1>3. Locals(t, "loading", o) /\ o \in Ops /\ "loading" \in Places
  BY <1>1, <1>2 DEF Locals, PreloadPlaces, Ops, Places
<1> QED
  BY <1>2, <1>3, GotoLocals DEF TypeInv

LEMMA CallsLoad ==
  ASSUME TypeInv, NEW t \in Tasks, LoadMiss(t)
  PROVE  CallsInv'
<1>1. CASE Return(t)
  BY <1>1, ReturnLocals DEF TypeInv
<1>2. CASE /\ nvs[op[t].k] # Absent
           /\ Goto(t, "inserting", [kind |-> "get", k |-> op[t].k, val |-> nvs[op[t].k]])
  <2> DEFINE o == [kind |-> "get", k |-> op[t].k, val |-> nvs[op[t].k]]
  <2>1. op[t] \in LoadOps /\ t \in UsersOf[op[t].k]
    BY DEF LoadMiss, TypeInv, CallsInv, Locals, KeyPlaces
  <2>2. op[t].k \in Keys
    BY <2>1 DEF LoadOps
  <2>3. nvs[op[t].k] \in Values \cup {Freed}
    <3>1. nvs \in [Keys -> Stock]
      BY StateFields DEF TypeInv, TableInv, Fits, Here
    <3> QED
      BY <1>2, <2>2, <3>1 DEF Stock
  <2>4. o \in InsertOps /\ o.k = op[t].k
    BY <2>2, <2>3 DEF InsertOps
  <2> HIDE DEF o
  <2>5. Locals(t, "inserting", o) /\ o \in Ops /\ "inserting" \in Places
    BY <2>1, <2>4 DEF Locals, PreloadPlaces, Ops, Places
  <2> QED
    BY <1>2, <2>5, GotoLocals DEF TypeInv, o
<1> QED
  BY <1>1, <1>2 DEF LoadMiss

LEMMA CallsWriting ==
  ASSUME CallsInv, NEW t \in Tasks, NEW k \in Keys, NEW v \in Values, t \in UsersOf[k],
         Goto(t, "writing", [kind |-> "set", k |-> k, val |-> v])
  PROVE  CallsInv'
<1> DEFINE o == [kind |-> "set", k |-> k, val |-> v]
<1>1. o \in WriteOps /\ o.k = k
  BY DEF WriteOps
<1>2. Goto(t, "writing", o)
  OBVIOUS
<1> HIDE DEF o
<1>3. Locals(t, "writing", o) /\ o \in Ops /\ "writing" \in Places
  BY <1>1 DEF Locals, PreloadPlaces, Ops, Places
<1> QED
  BY <1>2, <1>3, GotoLocals

LEMMA CallsDelete ==
  ASSUME TypeInv, NEW t \in Tasks, NEW k \in Keys, DeleteEntry(t, k)
  PROVE  CallsInv'
<1> DEFINE o == [kind |-> "delete", k |-> k]
<1>1. o \in RemoveOps /\ o.k = k
  BY DEF RemoveOps
<1>2. Goto(t, "removing", o) /\ t \in UsersOf[k]
  BY DEF DeleteEntry
<1> HIDE DEF o
<1>3. Locals(t, "removing", o) /\ o \in Ops /\ "removing" \in Places
  BY <1>1, <1>2 DEF Locals, PreloadPlaces, Ops, Places
<1> QED
  BY <1>2, <1>3, GotoLocals DEF TypeInv

LEMMA CallsRead ==
  ASSUME TypeInv, NEW t \in Tasks, PreloadRead(t)
  PROVE  CallsInv'
<1>1. PICK order \in Orders(StoredKeys) :
        Goto(t, "preloading", [kind |-> "preload", todo |-> order, data |-> nvs,
                               i |-> 0, loaded |-> 0, taken |-> {}])
  BY DEF PreloadRead
<1> DEFINE o == [kind |-> "preload", todo |-> order, data |-> nvs,
                 i |-> 0, loaded |-> 0, taken |-> {}]
<1>2. nvs \in [Keys -> Stock]
  BY StateFields DEF TypeInv, TableInv, Fits, Here
<1>3. order \in Seq(Keys) /\ \A j \in DOMAIN order : nvs[order[j]] # Absent
  <2>1. StoredKeys \in SUBSET Keys /\ \A k \in StoredKeys : nvs[k] # Absent
    BY DEF StoredKeys
  <2>2. Cardinality(StoredKeys) \in Nat
    BY <2>1, CacheAssumption, FS_Subset, FS_CardinalityType
  <2>3. order \in [1 .. Cardinality(StoredKeys) -> StoredKeys]
    BY DEF Orders
  <2> HIDE DEF StoredKeys
  <2>4. order \in Seq(Keys)
    BY <2>1, <2>2, <2>3
  <2> QED
    BY <2>1, <2>3, <2>4
<1>4. o \in PreloadOps /\ o.todo = order /\ o.data = nvs
  BY <1>2, <1>3 DEF PreloadOps
<1> HIDE DEF o
<1>5. Locals(t, "preloading", o) /\ o \in Ops /\ "preloading" \in Places
  BY <1>3, <1>4 DEF Locals, KeyPlaces, Ops, Places
<1> QED
  BY <1>1, <1>5, GotoLocals DEF TypeInv, o

LEMMA CallsPreloading ==
  ASSUME CallsInv, NEW t \in Tasks, pc[t] \in PreloadPlaces, NEW p \in PreloadPlaces,
         NEW o \in PreloadOps, o.todo = op[t].todo, o.data = op[t].data, Goto(t, p, o)
  PROVE  CallsInv'
<1>1. \A j \in DOMAIN o.todo : o.data[o.todo[j]] # Absent
  BY DEF CallsInv, Locals
<1>2. Locals(t, p, o) /\ o \in Ops /\ p \in Places
  BY <1>1 DEF Locals, KeyPlaces, Ops, Places, PreloadPlaces
<1> QED
  BY <1>2, GotoLocals

LEMMA CallsKey ==
  ASSUME TypeInv, NEW t \in Tasks, PreloadKey(t)
  PROVE  CallsInv'
<1> DEFINE p == op[t]
           next == [p EXCEPT !.i = @ + 1]
<1>1. pc[t] = "preloadKey" /\ p \in PreloadOps
  BY DEF PreloadKey, TypeInv, CallsInv, Locals, PreloadPlaces
<1>2. p.i \in Nat /\ p.loaded \in Nat /\ p.taken \in SUBSET (Nat \X Slots)
  BY <1>1 DEF PreloadOps
<1>3. next \in PreloadOps /\ next.todo = p.todo /\ next.data = p.data
      /\ next.loaded = p.loaded /\ next.taken = p.taken
  BY <1>1, <1>2 DEF PreloadOps
<1>4. CASE Goto(t, "preloadKey", next)
  BY <1>1, <1>3, <1>4, CallsPreloading DEF TypeInv, PreloadPlaces
<1>5. CASE \E a \in Allocate(Here) :
             /\ a.s # NoSlot
             /\ Goto(t, "preloadKey",
                     [next EXCEPT !.loaded = @ + 1, !.taken = @ \cup {<<p.i, a.s>>}])
  <2>1. PICK a \in Allocate(Here) :
          /\ a.s # NoSlot
          /\ Goto(t, "preloadKey",
                  [next EXCEPT !.loaded = @ + 1, !.taken = @ \cup {<<p.i, a.s>>}])
    BY <1>5
  <2> DEFINE o == [next EXCEPT !.loaded = @ + 1, !.taken = @ \cup {<<p.i, a.s>>}]
  <2>2. a.s \in Slots
    BY <2>1, Allocated DEF TypeInv, TableInv
  <2>3. p.taken \cup {<<p.i, a.s>>} \in SUBSET (Nat \X Slots) /\ p.loaded + 1 \in Nat
    BY <1>2, <2>2
  <2> HIDE DEF next
  <2>4. o = [next EXCEPT !.loaded = p.loaded + 1, !.taken = p.taken \cup {<<p.i, a.s>>}]
    BY <1>3
  <2>5. o \in PreloadOps /\ o.todo = next.todo /\ o.data = next.data
    BY <1>3, <2>3, <2>4 DEF PreloadOps
  <2> HIDE DEF o
  <2> QED
    BY <1>1, <1>3, <2>1, <2>5, CallsPreloading DEF TypeInv, PreloadPlaces, o
<1> QED
  BY <1>4, <1>5 DEF PreloadKey

LEMMA CallsSet ==
  ASSUME TypeInv, NEW t \in Tasks, NEW k \in Keys, NEW v \in Values, SetEntry(t, k, v)
  PROVE  CallsInv'
<1>1. t \in UsersOf[k] /\ CallsInv
  BY DEF SetEntry, TypeInv
<1>2. \/ UNCHANGED <<pc, op>>
      \/ Goto(t, "writing", [kind |-> "set", k |-> k, val |-> v])
  BY DEF SetEntry
<1> QED
  BY <1>1, <1>2, UnchangedLocals, CallsWriting

LEMMA CallsStep == TypeInv /\ [Next]_vars => CallsInv'
<1> SUFFICES ASSUME TypeInv, [Next]_vars PROVE CallsInv'
  OBVIOUS
<1>0. CallsInv
  BY DEF TypeInv
<1>r. ASSUME Reboot PROVE CallsInv'
  <2>1. pc' = [t \in Tasks |-> "idle"] /\ op' = [t \in Tasks |-> NoOp]
    BY <1>r DEF Reboot
  <2> QED
    BY <2>1 DEF CallsInv, Locals, Places, KeyPlaces, PreloadPlaces, Ops
<1>1. ASSUME NEW t \in Tasks, Task(t) PROVE CallsInv'
  <2>1. ASSUME NEW k \in Keys, GetHit(t, k) \/ InvalidateKey(t, k) PROVE CallsInv'
    <3>1. UNCHANGED <<pc, op>>
      BY <2>1 DEF GetHit, InvalidateKey
    <3> QED
      BY <1>0, <3>1, UnchangedLocals
  <2>2. ASSUME NEW k \in Keys, GetMiss(t, k) \/ DeleteEntry(t, k) PROVE CallsInv'
    BY <2>2, CallsMiss, CallsDelete
  <2>3. ASSUME NEW k \in Keys, NEW v \in Values, SetEntry(t, k, v) PROVE CallsInv'
    BY <2>3, CallsSet
  <2>4. ASSUME NEW k \in Keys, NEW v \in Values, SetUncached(t, k, v) PROVE CallsInv'
    BY <1>0, <2>4, CallsWriting DEF SetUncached
  <2>5. CASE LoadMiss(t)
    BY <2>5, CallsLoad
  <2>6. CASE InsertLoaded(t) \/ WriteThrough(t) \/ RemoveStored(t) \/ PreloadFree(t)
    <3>1. Return(t)
      BY <2>6 DEF InsertLoaded, WriteThrough, RemoveStored, PreloadFree
    <3> QED
      BY <1>0, <3>1, ReturnLocals
  <2>7. CASE Flush(t) \/ InvalidateAll(t) \/ Clear(t)
    <3>1. UNCHANGED <<pc, op>>
      BY <2>7 DEF Flush, InvalidateAll, Clear
    <3> QED
      BY <1>0, <3>1, UnchangedLocals
  <2>8. CASE PreloadRead(t)
    BY <2>8, CallsRead
  <2>9. CASE PreloadLock(t) \/ PreloadUnlock(t)
    <3>1. pc[t] \in PreloadPlaces /\ op[t] \in PreloadOps
      BY <1>0, <2>9 DEF PreloadLock, PreloadUnlock, PreloadPlaces, CallsInv, Locals
    <3>2. Return(t) \/ \E p \in PreloadPlaces : Goto(t, p, op[t])
      BY <2>9 DEF PreloadLock, PreloadUnlock, PreloadPlaces
    <3> QED
      BY <1>0, <3>1, <3>2, ReturnLocals, CallsPreloading
  <2>10. CASE PreloadKey(t)
    BY <2>10, CallsKey
  <2>11. ASSUME NEW k \in Keys, GetCrash(t, k) PROVE CallsInv'
    BY <1>r, <2>11 DEF GetCrash
  <2> QED
    BY <1>1, <2>1, <2>2, <2>3, <2>4, <2>5, <2>6, <2>7, <2>8, <2>9, <2>10, <2>11 DEF Task
<1>2. CASE Register \/ Unregister \/ UNCHANGED vars
  <2>1. UNCHANGED <<pc, op>>
    BY <1>2 DEF Register, Unregister, vars
  <2> QED
    BY <1>0, <2>1, UnchangedLocals
<1>3. CASE Restart
  BY <1>r, <1>3 DEF Restart
<1> QED
  BY <1>1, <1>2, <1>3 DEF Next

-----------------------------------------------------------------------------
(* The array and the lists *)

LEMMA BecomesIs ==
  ASSUME NEW c \in CacheStates, Becomes(c)
  PROVE  Here' = c
BY DEF Becomes, Here, CacheStates

LEMMA StaysIs ==
  ASSUME UNCHANGED <<cacheVars, nvs>>
  PROVE  Here' = Here
BY DEF cacheVars, Here

(* A region that ends in a fitting state of a registered namespace. *)
LEMMA BecomesTable ==
  ASSUME NEW c, Fits(c), Becomes(c), registered' = TRUE \/ Valid(c) = {}
  PROVE  TableInv'
<1>1. Here' = c
  BY BecomesIs DEF Fits
<1> QED
  BY <1>1 DEF TableInv

LEMMA StaysTable ==
  ASSUME TableInv, UNCHANGED <<cacheVars, nvs, registered>>
  PROVE  TableInv'
BY StaysIs DEF TableInv

(* Only the contents of the storage change. *)
LEMMA StoredTable ==
  ASSUME TableInv, UNCHANGED <<cacheVars, registered>>,
         NEW n \in [Keys -> Stock], nvs' = n
  PROVE  TableInv'
<1>1. Here' = [Here EXCEPT !.nvs = n]
  BY DEF Here, cacheVars
<1> DEFINE d == [Here EXCEPT !.nvs = n]
<1>2. /\ d \in CacheStates /\ d.lru = Here.lru /\ d.chain = Here.chain /\ d.count = Here.count
      /\ d.slot = Here.slot
  BY DEF TableInv, Fits, CacheStates
<1> HIDE DEF d
<1>3. Fits(d) /\ Valid(d) = Valid(Here)
  BY <1>2, SameLists DEF TableInv
<1> QED
  BY <1>1, <1>3 DEF TableInv, d

LEMMA StoredStock ==
  ASSUME TableInv, NEW k \in Keys, NEW v \in Stock, NEW end
  PROVE  Stored(nvs, end, k, v) \in [Keys -> Stock]
<1>1. nvs \in [Keys -> Stock]
  BY StateFields DEF TableInv, Fits, Here
<1> QED
  BY <1>1 DEF Stored

LEMMA TableWritten ==
  ASSUME TypeInv, NEW t \in Tasks, WriteThrough(t) \/ RemoveStored(t)
  PROVE  TableInv'
<1>1. CASE WriteThrough(t)
  <2>1. op[t] \in WriteOps
    BY <1>1 DEF WriteThrough, TypeInv, CallsInv, Locals
  <2>2. op[t].k \in Keys /\ op[t].val \in Stock
    BY <2>1 DEF WriteOps, Stock
  <2> QED
    BY <1>1, <2>2, StoredStock, StoredTable DEF WriteThrough, TypeInv
<1>2. CASE RemoveStored(t)
  <2>1. op[t] \in RemoveOps
    BY <1>2 DEF RemoveStored, TypeInv, CallsInv, Locals
  <2>2. op[t].k \in Keys /\ Absent \in Stock
    BY <2>1 DEF RemoveOps, Stock
  <2> QED
    BY <1>2, <2>2, StoredStock, StoredTable DEF RemoveStored, TypeInv
<1> QED
  BY <1>1, <1>2

LEMMA TableHit ==
  ASSUME TypeInv, NEW t \in Tasks, NEW k \in Keys, GetHit(t, k)
  PROVE  TableInv'
<1>1. Find(Here, k) \in Valid(Here)
  BY Found DEF GetHit, TypeInv, TableInv, EntriesOf
<1>2. Fits(Touch(Here, Find(Here, k)))
  BY <1>1, Touched DEF TypeInv, TableInv
<1> QED
  BY <1>2, BecomesTable DEF GetHit

LEMMA TableInserted ==
  ASSUME TypeInv, NEW t \in Tasks, InsertLoaded(t)
  PROVE  TableInv'
<1>1. op[t] \in InsertOps
  BY DEF InsertLoaded, TypeInv, CallsInv, Locals
<1>2. op[t].k \in Keys /\ op[t].val \in Data
  BY <1>1 DEF InsertOps, Data
<1>3. CASE ~registered
  BY <1>3, StaysTable DEF InsertLoaded, TypeInv
<1>4. CASE registered
  <2>1. PICK a \in Allocate(Here) :
          Becomes(IF a.s = NoSlot THEN a.c ELSE Fill(a.c, a.s, op[t].k, op[t].val, FALSE))
    BY <1>4 DEF InsertLoaded
  <2>2. Fits(IF a.s = NoSlot THEN a.c ELSE Fill(a.c, a.s, op[t].k, op[t].val, FALSE))
    BY <1>2, Allocated, FilledFits DEF TypeInv, TableInv
  <2>3. registered' = TRUE
    BY <1>4 DEF InsertLoaded, TypeInv, RestInv
  <2> QED
    BY <2>1, <2>2, <2>3, BecomesTable
<1> QED
  BY <1>3, <1>4

LEMMA EntryFits ==
  ASSUME Fits(Here), NEW k \in Keys, NEW e \in EntryFor(k)
  PROVE  Fits(e.c) /\ (e.s # NoSlot => e.s \in Slots /\ e.s \in Valid(e.c))
<1>1. CASE e.s \in EntriesOf(Here, k) /\ e.c = Touch(Here, e.s)
  <2>1. e.s \in Valid(Here) /\ e.s \in Slots
    BY <1>1 DEF EntriesOf, Valid
  <2>2. Valid(Touch(Here, e.s)) = Valid(Here)
    BY <2>1, Touched DEF Valid
  <2> QED
    BY <1>1, <2>1, <2>2, Touched
<1>2. CASE e.s = NoSlot /\ (e.c = Here \/ Evicts(Here, e.c))
  BY <1>2, EvictsFits
<1>3. CASE \E d : /\ Fits(d) /\ (d = Here \/ Evicts(Here, d))
                  /\ e.s \in Slots /\ e.s \notin Valid(d)
                  /\ e.c = Fill(d, e.s, k, NoData, d.slot[e.s].dirty)
  <2> DEFINE s == e.s
  <2>1. PICK d : /\ Fits(d) /\ s \in Slots /\ s \notin Valid(d)
                 /\ e.c = Fill(d, s, k, NoData, d.slot[s].dirty)
    BY <1>3
  <2> DEFINE flag == d.slot[s].dirty
  <2>2. flag \in BOOLEAN /\ NoData \in Data
    BY <2>1, StateFields DEF Fits, Data
  <2>3. e.c = Fill(d, s, k, NoData, flag)
    BY <2>1
  <2> HIDE DEF s, flag
  <2>4. /\ Fits(Fill(d, s, k, NoData, flag))
        /\ Valid(Fill(d, s, k, NoData, flag)) = Valid(d) \cup {s}
    <3>0. Fits(d) /\ s \in Slots /\ s \notin Valid(d) /\ NoData \in Data
      BY <2>1, <2>2
    <3>1. ASSUME NEW x \in BOOLEAN
          PROVE  /\ Fits(Fill(d, s, k, NoData, x))
                 /\ Valid(Fill(d, s, k, NoData, x)) = Valid(d) \cup {s}
      BY <3>0, FilledFits
    <3> QED
      BY <2>2, <3>1
  <2>5. Fits(e.c) /\ s \in Slots /\ s \in Valid(e.c)
    BY <2>1, <2>3, <2>4
  <2> QED
    BY <2>5 DEF s
<1> QED
  BY <1>1, <1>2, <1>3, EntryForKey

LEMMA TableSet ==
  ASSUME TypeInv, NEW t \in Tasks, NEW k \in Keys, NEW v \in Values, SetEntry(t, k, v)
  PROVE  TableInv'
<1>1. PICK e \in EntryFor(k) :
        \/ e.s = NoSlot /\ Becomes(e.c)
        \/ e.s # NoSlot /\ Becomes([e.c EXCEPT !.slot[e.s].val = NoData])
        \/ e.s # NoSlot /\ Becomes([e.c EXCEPT !.slot[e.s].val = v])
        \/ e.s # NoSlot /\ Becomes(MarkDirty([e.c EXCEPT !.slot[e.s].val = v], e.s))
  BY DEF SetEntry
<1>2. registered' = TRUE
  BY DEF SetEntry, TypeInv, RestInv
<1>3. Fits(e.c) /\ (e.s # NoSlot => e.s \in Slots)
  BY EntryFits DEF TypeInv, TableInv
<1>4. NoData \in Data /\ v \in Data
  BY DEF Data
<1>5. ASSUME e.s # NoSlot, NEW x \in Data
      PROVE  Fits([e.c EXCEPT !.slot[e.s].val = x])
  BY <1>3, <1>5, Copied
<1>6. CASE e.s = NoSlot /\ Becomes(e.c)
  BY <1>2, <1>3, <1>6, BecomesTable
<1>7. CASE e.s # NoSlot /\ Becomes([e.c EXCEPT !.slot[e.s].val = NoData])
  BY <1>2, <1>4, <1>5, <1>7, BecomesTable
<1>8. CASE e.s # NoSlot /\ Becomes([e.c EXCEPT !.slot[e.s].val = v])
  BY <1>2, <1>4, <1>5, <1>8, BecomesTable
<1>9. CASE e.s # NoSlot /\ Becomes(MarkDirty([e.c EXCEPT !.slot[e.s].val = v], e.s))
  <2>1. Fits(MarkDirty([e.c EXCEPT !.slot[e.s].val = v], e.s))
    BY <1>3, <1>4, <1>5, <1>9, Marked
  <2> QED
    BY <1>2, <1>9, <2>1, BecomesTable
<1> QED
  BY <1>1, <1>6, <1>7, <1>8, <1>9

LEMMA TableDelete ==
  ASSUME TypeInv, NEW t \in Tasks, NEW k \in Keys, DeleteEntry(t, k)
  PROVE  TableInv'
<1>1. CASE registered /\ Find(Here, k) # NoSlot
  <2>1. Find(Here, k) \in Valid(Here)
    BY <1>1, Found DEF TypeInv, TableInv, EntriesOf
  <2>2. Fits(Drop(Here, Find(Here, k)))
    BY <2>1, Dropped DEF TypeInv, TableInv
  <2>3. Becomes(Drop(Here, Find(Here, k))) /\ registered' = TRUE
    BY <1>1 DEF DeleteEntry, TypeInv, RestInv
  <2> QED
    BY <2>2, <2>3, BecomesTable
<1>2. CASE ~(registered /\ Find(Here, k) # NoSlot)
  BY <1>2, StaysTable DEF DeleteEntry, TypeInv
<1> QED
  BY <1>1, <1>2

LEMMA TableInvalidate ==
  ASSUME TypeInv, NEW t \in Tasks, NEW k \in Keys, InvalidateKey(t, k)
  PROVE  TableInv'
<1> DEFINE s == Find(Here, k)
<1>1. s \in Valid(Here) /\ Fits(Here) /\ registered' = TRUE
  BY Found DEF InvalidateKey, TypeInv, TableInv, RestInv, EntriesOf
<1>2. slot[s] = Here.slot[s]
  BY DEF Here
<1>3. \/ \E end \in FlushEnds(Here.slot[s]) : Becomes(Detach(FlushEntry(Here, s, end), s))
      \/ Becomes(Detach(Here, s))
  BY <1>2 DEF InvalidateKey
<1> HIDE DEF s
<1>4. ASSUME NEW end \in FlushEnds(Here.slot[s]), Becomes(Detach(FlushEntry(Here, s, end), s))
      PROVE  TableInv'
  <2>1. Fits(FlushEntry(Here, s, end)) /\ s \in Valid(FlushEntry(Here, s, end))
    BY <1>1, EntryFlushed
  <2>2. Fits(Detach(FlushEntry(Here, s, end), s))
    BY <2>1, Detached
  <2> QED
    BY <1>1, <1>4, <2>2, BecomesTable
<1>5. CASE Becomes(Detach(Here, s))
  BY <1>1, <1>5, Detached, BecomesTable
<1> QED
  BY <1>3, <1>4, <1>5

LEMMA TableFlushed ==
  ASSUME TypeInv, NEW t \in Tasks, Flush(t)
  PROVE  TableInv'
<1>1. PICK ends \in FlushOutcomes(Here) : Becomes(FlushLoop(Here, ends))
  BY DEF Flush
<1>2. Fits(FlushLoop(Here, ends)) /\ registered' = TRUE
  BY LoopFlushed DEF Flush, TypeInv, TableInv, RestInv
<1> QED
  BY <1>1, <1>2, BecomesTable

LEMMA TableEmptied ==
  ASSUME NEW c, Fits(c), NEW keep \in [Slots -> BOOLEAN], Becomes(Emptied(c, keep))
  PROVE  TableInv'
<1>1. Fits(Emptied(c, keep)) /\ Valid(Emptied(c, keep)) = {}
  BY EmptiedFits
<1> QED
  BY <1>1, BecomesTable

LEMMA TableCleared ==
  ASSUME TypeInv, NEW t \in Tasks, InvalidateAll(t) \/ Clear(t) \/ Unregister
  PROVE  TableInv'
<1>1. Fits(Here)
  BY DEF TypeInv, TableInv
<1>2. CASE InvalidateAll(t)
  <2>1. PICK ends \in FlushOutcomes(Here) :
          Becomes(Emptied(FlushLoop(Here, ends), Flags(FlushLoop(Here, ends))))
    BY <1>2 DEF InvalidateAll
  <2>2. Fits(FlushLoop(Here, ends))
    BY <1>1, LoopFlushed
  <2>3. Flags(FlushLoop(Here, ends)) \in [Slots -> BOOLEAN]
    BY <2>2, StateFields DEF Fits, Flags
  <2> QED
    BY <2>1, <2>2, <2>3, TableEmptied
<1>3. CASE Clear(t)
  <2>1. [s \in Slots |-> slot[s].dirty /\ ~slot[s].valid] \in [Slots -> BOOLEAN]
    <3>1. \A s \in Slots : (slot[s].dirty /\ ~slot[s].valid) \in BOOLEAN
      BY <1>1, StateFields DEF Fits, Here
    <3> QED
      BY <3>1
  <2> QED
    BY <1>1, <1>3, <2>1, TableEmptied DEF Clear
<1>4. CASE Unregister
  <2>1. PICK ends \in FlushOutcomes(Here) :
          Becomes(Emptied(FlushLoop(Here, ends), [s \in Slots |-> FALSE]))
    BY <1>4 DEF Unregister
  <2>2. Fits(FlushLoop(Here, ends))
    BY <1>1, LoopFlushed
  <2>3. [s \in Slots |-> FALSE] \in [Slots -> BOOLEAN]
    OBVIOUS
  <2> QED
    BY <2>1, <2>2, <2>3, TableEmptied
<1> QED
  BY <1>2, <1>3, <1>4

LEMMA TableKey ==
  ASSUME TypeInv, NEW t \in Tasks, PreloadKey(t)
  PROVE  TableInv'
<1> DEFINE p == op[t]
           k == p.todo[p.i + 1]
<1>1. /\ p \in PreloadOps /\ \A j \in DOMAIN p.todo : p.data[p.todo[j]] # Absent
      /\ MoreToLoad(p) /\ Fits(Here) /\ registered' = TRUE
  BY DEF PreloadKey, TypeInv, CallsInv, Locals, PreloadPlaces, TableInv, RestInv, LockInv
<1>2. k \in Keys /\ p.data[k] \in Data
  <2>1. /\ p.i \in Nat /\ p.todo \in Seq(Keys) /\ p.data \in [Keys -> Stock] /\ p.i < Len(p.todo)
    BY <1>1 DEF PreloadOps, MoreToLoad
  <2>2. p.i + 1 \in DOMAIN p.todo
    BY <2>1
  <2>3. k \in Keys /\ p.data[k] # Absent /\ p.data[k] \in Stock
    BY <1>1, <2>1, <2>2
  <2> QED
    BY <2>3 DEF Stock, Data
<1>3. CASE UNCHANGED <<cacheVars, nvs>>
  BY <1>3, StaysTable DEF PreloadKey, TypeInv
<1>4. CASE \E a \in Allocate(Here) :
             Becomes(IF a.s = NoSlot THEN a.c ELSE Fill(a.c, a.s, k, p.data[k], FALSE))
  <2>1. PICK a \in Allocate(Here) :
          Becomes(IF a.s = NoSlot THEN a.c ELSE Fill(a.c, a.s, k, p.data[k], FALSE))
    BY <1>4
  <2> HIDE DEF k, p
  <2>2. Fits(IF a.s = NoSlot THEN a.c ELSE Fill(a.c, a.s, k, p.data[k], FALSE))
    BY <1>1, <1>2, Allocated, FilledFits
  <2> QED
    BY <1>1, <2>1, <2>2, BecomesTable
<1> QED
  BY <1>3, <1>4 DEF PreloadKey

LEMMA TableFreed ==
  ASSUME TypeInv, NEW t \in Tasks, PreloadFree(t)
  PROVE  TableInv'
<1> DEFINE n == [s \in Slots |-> IF slot[s].valid /\ \E x \in Remaining(op[t]) : x[2] = s
                                 THEN [slot[s] EXCEPT !.val = Freed] ELSE slot[s]]
           d == [Here EXCEPT !.slot = n]
<1>1. Fits(Here) /\ Here \in CacheStates
  BY DEF TypeInv, TableInv, Fits
<1>2. slot' = n /\ Here.slot = slot
  BY DEF PreloadFree, Here
<1>3. \A s \in Slots : n[s] \in Entries /\ n[s].valid = slot[s].valid /\ n[s].key = slot[s].key
  <2>1. \A s \in Slots : slot[s] \in Entries
    BY <1>1, <1>2, StateFields
  <2>2. ASSUME NEW s \in Slots
        PROVE  LET e == [slot[s] EXCEPT !.val = Freed]
               IN e \in Entries /\ e.valid = slot[s].valid /\ e.key = slot[s].key
    BY <2>1 DEF Entries, Data
  <2> QED
    BY <2>1, <2>2
<1>4. n \in [Slots -> Entries]
  BY <1>3
<1>5. Here' = d
  BY <1>2 DEF Here, PreloadFree
<1> HIDE DEF n
<1>6. /\ d \in CacheStates /\ d.lru = Here.lru /\ d.chain = Here.chain /\ d.count = Here.count
      /\ d.slot = n
  BY <1>1, <1>4 DEF CacheStates
<1> HIDE DEF d
<1>7. Fits(d) /\ Valid(d) = Valid(Here)
  BY <1>1, <1>2, <1>3, <1>6, SameLists
<1>8. registered' = registered
  BY DEF PreloadFree
<1> QED
  BY <1>5, <1>7, <1>8 DEF TypeInv, TableInv

LEMMA EmptyTable ==
  ASSUME NEW n \in [Keys -> Stock],
         slot = [s \in Slots |-> EmptySlot], chain = [b \in Buckets |-> <<>>], lru = <<>>,
         count = 0, dirtyCount = 0, nvs = n
  PROVE  TableInv
BY EmptyFits DEF TableInv, Here

LEMMA EmptyTableNext ==
  ASSUME NEW n \in [Keys -> Stock],
         slot' = [s \in Slots |-> EmptySlot], chain' = [b \in Buckets |-> <<>>], lru' = <<>>,
         count' = 0, dirtyCount' = 0, nvs' = n
  PROVE  TableInv'
BY EmptyFits DEF TableInv, Here

LEMMA TableStep == TypeInv /\ [Next]_vars => TableInv'
<1> SUFFICES ASSUME TypeInv, [Next]_vars PROVE TableInv'
  OBVIOUS
<1>0. TableInv /\ nvs \in [Keys -> Stock]
  BY StateFields DEF TypeInv, TableInv, Fits, Here
<1>r. ASSUME Register \/ Reboot PROVE TableInv'
  BY <1>0, <1>r, EmptyTableNext DEF Register, Reboot
<1>1. ASSUME NEW t \in Tasks, Task(t) PROVE TableInv'
  <2>1. ASSUME NEW k \in Keys, GetHit(t, k) \/ DeleteEntry(t, k) \/ InvalidateKey(t, k) PROVE TableInv'
    BY <2>1, TableHit, TableDelete, TableInvalidate
  <2>2. ASSUME NEW k \in Keys, GetMiss(t, k) PROVE TableInv'
    BY <1>0, <2>2, StaysTable DEF GetMiss
  <2>3. ASSUME NEW k \in Keys, NEW v \in Values, SetEntry(t, k, v) PROVE TableInv'
    BY <2>3, TableSet
  <2>4. ASSUME NEW k \in Keys, NEW v \in Values, SetUncached(t, k, v) PROVE TableInv'
    BY <1>0, <2>4, StaysTable DEF SetUncached
  <2>5. CASE LoadMiss(t) \/ PreloadRead(t) \/ PreloadLock(t) \/ PreloadUnlock(t)
    <3>1. UNCHANGED <<cacheVars, nvs, registered>>
      BY <2>5 DEF LoadMiss, PreloadRead, PreloadLock, PreloadUnlock
    <3> QED
      BY <1>0, <3>1, StaysTable
  <2>6. CASE InsertLoaded(t) \/ WriteThrough(t) \/ RemoveStored(t) \/ PreloadFree(t)
    BY <2>6, TableInserted, TableWritten, TableFreed
  <2>7. CASE Flush(t) \/ InvalidateAll(t) \/ Clear(t)
    BY <2>7, TableFlushed, TableCleared
  <2>8. CASE PreloadKey(t)
    BY <2>8, TableKey
  <2>9. ASSUME NEW k \in Keys, GetCrash(t, k) PROVE TableInv'
    BY <1>r, <2>9 DEF GetCrash
  <2> QED
    BY <1>1, <2>1, <2>2, <2>3, <2>4, <2>5, <2>6, <2>7, <2>8, <2>9 DEF Task
<1>2. CASE Register \/ Restart
  BY <1>r, <1>2 DEF Restart
<1>3. CASE Unregister
  <2>1. PICK t \in Tasks : "unregister" \in Uses(policy, t)
    BY <1>3 DEF Unregister
  <2> QED
    BY <1>3, TableCleared
<1>4. CASE UNCHANGED vars
  BY <1>0, <1>4, StaysTable DEF vars, cacheVars
<1> QED
  BY <1>1, <1>2, <1>3, <1>4 DEF Next

-----------------------------------------------------------------------------
(* The histories and the rest *)

LEMMA RestStep == TypeInv /\ [Next]_vars => RestInv' /\ LockInv'
<1> SUFFICES ASSUME TypeInv, [Next]_vars PROVE RestInv' /\ LockInv'
  OBVIOUS
<1>0. /\ registered \in BOOLEAN /\ policy \in Policies /\ lock \in Tasks \cup {Nobody}
      /\ Nobody \notin Tasks /\ pc \in [Tasks -> Places]
      /\ \A t \in Tasks : pc[t] = "preloadKey" => lock = t /\ registered
  BY CacheAssumption DEF TypeInv, RestInv, LockInv, CallsInv
<1>1. ASSUME UNCHANGED <<registered, policy, lock>>,
             \A u \in Tasks : pc'[u] = "preloadKey" => pc[u] = "preloadKey"
      PROVE  RestInv' /\ LockInv'
  BY <1>0, <1>1 DEF RestInv, LockInv
<1>2. ASSUME NEW t \in Tasks, NEW p, NEW o, Goto(t, p, o)
      PROVE  \A u \in Tasks : pc'[u] = IF u = t THEN p ELSE pc[u]
  BY <1>0, <1>2 DEF Goto
<1>3. ASSUME NEW t \in Tasks, Return(t)
      PROVE  \A u \in Tasks : pc'[u] = "preloadKey" => pc[u] = "preloadKey"
  BY <1>2, <1>3 DEF Return
<1>r. ASSUME Reboot PROVE RestInv' /\ LockInv'
  BY <1>0, <1>r DEF Reboot, RestInv, LockInv
<1>4. ASSUME NEW t \in Tasks, Task(t) PROVE RestInv' /\ LockInv'
  <2>1. ASSUME NEW k \in Keys, GetHit(t, k) \/ InvalidateKey(t, k) PROVE RestInv' /\ LockInv'
    BY <1>1, <2>1 DEF GetHit, InvalidateKey
  <2>2. ASSUME NEW k \in Keys, GetMiss(t, k) PROVE RestInv' /\ LockInv'
    <3>1. \E o : Goto(t, "loading", o)
      BY <2>2 DEF GetMiss
    <3> QED
      BY <1>1, <1>2, <2>2, <3>1 DEF GetMiss
  <2>3. ASSUME NEW k \in Keys, DeleteEntry(t, k) PROVE RestInv' /\ LockInv'
    <3>1. \E o : Goto(t, "removing", o)
      BY <2>3 DEF DeleteEntry
    <3> QED
      BY <1>1, <1>2, <2>3, <3>1 DEF DeleteEntry
  <2>4. ASSUME NEW k \in Keys, NEW v \in Values, SetEntry(t, k, v) \/ SetUncached(t, k, v)
        PROVE  RestInv' /\ LockInv'
    <3>1. UNCHANGED pc \/ \E o : Goto(t, "writing", o)
      BY <2>4 DEF SetEntry, SetUncached
    <3>2. \A u \in Tasks : pc'[u] = "preloadKey" => pc[u] = "preloadKey"
      BY <1>2, <3>1
    <3>3. UNCHANGED <<registered, policy, lock>>
      BY <2>4 DEF SetEntry, SetUncached
    <3> QED
      BY <1>1, <3>2, <3>3
  <2>5. CASE LoadMiss(t)
    <3>1. Return(t) \/ \E o : Goto(t, "inserting", o)
      BY <2>5 DEF LoadMiss
    <3>2. \A u \in Tasks : pc'[u] = "preloadKey" => pc[u] = "preloadKey"
      BY <1>2, <1>3, <3>1
    <3> QED
      BY <1>1, <2>5, <3>2 DEF LoadMiss
  <2>6. CASE InsertLoaded(t) \/ WriteThrough(t) \/ RemoveStored(t) \/ PreloadFree(t)
    <3>1. Return(t) /\ UNCHANGED <<registered, policy, lock>>
      BY <2>6 DEF InsertLoaded, WriteThrough, RemoveStored, PreloadFree
    <3> QED
      BY <1>1, <1>3, <3>1
  <2>7. CASE Flush(t) \/ InvalidateAll(t) \/ Clear(t)
    <3>1. UNCHANGED <<pc, registered, policy, lock>>
      BY <2>7 DEF Flush, InvalidateAll, Clear
    <3> QED
      BY <1>1, <3>1
  <2>8. CASE PreloadRead(t)
    <3>1. \E o : Goto(t, "preloading", o)
      BY <2>8 DEF PreloadRead
    <3> QED
      BY <1>1, <1>2, <2>8, <3>1 DEF PreloadRead
  <2>9. CASE PreloadLock(t)
    <3>1. CASE registered
      <4>1. lock = Nobody /\ lock' = t /\ Goto(t, "preloadKey", op[t]) /\ UNCHANGED <<registered, policy>>
        BY <2>9, <3>1 DEF PreloadLock, Unlocked
      <4> QED
        BY <1>0, <1>2, <3>1, <4>1 DEF RestInv, LockInv
    <3>2. CASE ~registered
      BY <1>1, <1>3, <2>9, <3>2 DEF PreloadLock
    <3> QED
      BY <3>1, <3>2
  <2>10. CASE PreloadUnlock(t)
    <3>1. /\ pc[t] = "preloadKey" /\ lock' = Nobody /\ Goto(t, "freeing", op[t])
          /\ UNCHANGED <<registered, policy>>
      BY <2>10 DEF PreloadUnlock
    <3> QED
      BY <1>0, <1>2, <3>1 DEF RestInv, LockInv
  <2>11. CASE PreloadKey(t)
    <3>1. pc[t] = "preloadKey" /\ UNCHANGED <<registered, policy, lock>>
      BY <2>11 DEF PreloadKey
    <3>2. \E o : Goto(t, "preloadKey", o)
      BY <2>11 DEF PreloadKey
    <3> QED
      BY <1>1, <1>2, <3>1, <3>2
  <2>12. ASSUME NEW k \in Keys, GetCrash(t, k) PROVE RestInv' /\ LockInv'
    BY <1>r, <2>12 DEF GetCrash
  <2> QED
    BY <1>4, <2>1, <2>2, <2>3, <2>4, <2>5, <2>6, <2>7, <2>8, <2>9, <2>10, <2>11, <2>12 DEF Task
<1>5. CASE Register \/ Unregister
  <2>1. lock = Nobody /\ UNCHANGED <<pc, lock, policy>> /\ registered' \in BOOLEAN
    BY <1>5 DEF Register, Unregister, Unlocked
  <2> QED
    BY <1>0, <2>1 DEF RestInv, LockInv
<1>6. CASE Restart
  BY <1>r, <1>6 DEF Restart
<1>7. CASE UNCHANGED vars
  BY <1>1, <1>7 DEF vars
<1> QED
  BY <1>4, <1>5, <1>6, <1>7 DEF Next

(* What a key was used for moves it to the front. *)
LEMMA UsedKeeps ==
  ASSUME HistoryInv, NEW k \in Keys, Used(k)
  PROVE  /\ recent' \in Seq(Keys) /\ Distinct(recent') /\ \A j \in Members(recent') : Own(j)
         /\ Own(k) => /\ Members(recent') = Members(recent) \cup {k}
                      /\ \A y \in Members(recent) : y # k => Before(recent', k, y)
                      /\ \A y, z : Before(recent, y, z) /\ y # k /\ z # k => Before(recent', y, z)
<1>1. /\ Without(recent, k) \in Seq(Keys) /\ Distinct(Without(recent, k))
      /\ Members(Without(recent, k)) = Members(recent) \ {k}
      /\ \A y, z : Before(recent, y, z) /\ y # k /\ z # k => Before(Without(recent, k), y, z)
  BY WithoutList DEF HistoryInv
<1> DEFINE q == Without(recent, k)
<1>2. k \notin Members(q)
  BY <1>1
<1> HIDE DEF q
<1>3. /\ <<k>> \o q \in Seq(Keys) /\ Distinct(<<k>> \o q) /\ Members(<<k>> \o q) = Members(q) \cup {k}
      /\ \A y \in Members(q) : Before(<<k>> \o q, k, y)
      /\ \A y, z : Before(q, y, z) => Before(<<k>> \o q, y, z)
  BY <1>1, <1>2, FrontList DEF q
<1>4. recent' = IF Own(k) THEN <<k>> \o q ELSE recent
  BY DEF Used, q
<1>5. CASE Own(k)
  <2>1. recent' = <<k>> \o q
    BY <1>4, <1>5
  <2>2. Members(q) = Members(recent) \ {k}
    BY <1>1 DEF q
  <2>3. \A y, z : Before(recent, y, z) /\ y # k /\ z # k => Before(q, y, z)
    BY <1>1 DEF q
  <2> QED
    BY <1>3, <1>5, <2>1, <2>2, <2>3 DEF HistoryInv
<1>6. CASE ~Own(k)
  BY <1>4, <1>6 DEF HistoryInv
<1> QED
  BY <1>5, <1>6

LEMMA ExpectKeeps ==
  ASSUME HistoryInv, NEW k \in Keys, NEW v \in Outcomes, Expect(k, v)
  PROVE  expected' \in [Keys -> Outcomes]
<1>1. Unknown \in Outcomes
  BY DEF Outcomes
<1> QED
  BY <1>1 DEF Expect, HistoryInv

LEMMA ForgetKeeps ==
  ASSUME HistoryInv, NEW S, Forget(S)
  PROVE  expected' \in [Keys -> Outcomes]
BY DEF Forget, HistoryInv, Outcomes

LEMMA HistoryStep == TypeInv /\ [Next]_vars => HistoryInv'
<1> SUFFICES ASSUME TypeInv, [Next]_vars PROVE HistoryInv'
  OBVIOUS
<1> DEFINE UsesKept == /\ recent' \in Seq(Keys) /\ Distinct(recent')
                       /\ \A k \in Members(recent') : Own(k)
           PromisesKept == expected' \in [Keys -> Outcomes]
<1>0. /\ HistoryInv /\ Unknown \in Outcomes /\ Absent \in Outcomes /\ \A v \in Values : v \in Outcomes
      /\ UNCHANGED recent => UsesKept
      /\ UNCHANGED expected => PromisesKept
  BY DEF TypeInv, HistoryInv, Outcomes
<1>a. ASSUME NEW k \in Keys, Used(k) PROVE UsesKept
  BY <1>0, <1>a, UsedKeeps
<1>b. ASSUME NEW k \in Keys, NEW v \in Outcomes, Expect(k, v) PROVE PromisesKept
  BY <1>0, <1>b, ExpectKeeps
<1>c. ASSUME NEW S, Forget(S) PROVE PromisesKept
  BY <1>0, <1>c, ForgetKeeps
<1> HIDE DEF UsesKept, PromisesKept
<1>r. ASSUME Reboot PROVE UsesKept /\ PromisesKept
  <2>1. PromisesKept
    BY <1>c, <1>r DEF Reboot
  <2>2. recent' = <<>>
    BY <1>r DEF Reboot
  <2> QED
    BY <2>1, <2>2, EmptyList DEF UsesKept
<1>1. ASSUME NEW t \in Tasks, Task(t) PROVE UsesKept /\ PromisesKept
  <2>1. ASSUME NEW k \in Keys, GetHit(t, k) PROVE UsesKept /\ PromisesKept
    BY <1>0, <1>a, <2>1 DEF GetHit
  <2>2. ASSUME NEW k \in Keys, GetMiss(t, k) PROVE UsesKept /\ PromisesKept
    BY <1>0, <2>2 DEF GetMiss
  <2>3. ASSUME NEW k \in Keys, DeleteEntry(t, k) PROVE UsesKept /\ PromisesKept
    BY <1>0, <1>b, <2>3 DEF DeleteEntry
  <2>4. ASSUME NEW k \in Keys, InvalidateKey(t, k) PROVE UsesKept /\ PromisesKept
    BY <1>0, <1>c, <2>4 DEF InvalidateKey
  <2>5. ASSUME NEW k \in Keys, NEW v \in Values, SetEntry(t, k, v) PROVE UsesKept /\ PromisesKept
    <3>1. Used(k) \/ UNCHANGED recent
      BY <2>5 DEF SetEntry
    <3>2. (\E x \in Outcomes : Expect(k, x)) \/ UNCHANGED expected
      BY <1>0, <2>5 DEF SetEntry
    <3> QED
      BY <1>0, <1>a, <1>b, <3>1, <3>2
  <2>6. ASSUME NEW k \in Keys, NEW v \in Values, SetUncached(t, k, v) PROVE UsesKept /\ PromisesKept
    BY <1>0, <1>b, <2>6 DEF SetUncached
  <2>7. CASE LoadMiss(t) \/ PreloadRead(t) \/ PreloadLock(t) \/ PreloadUnlock(t) \/ PreloadFree(t) \/ Flush(t)
    <3>1. UNCHANGED <<expected, recent>>
      BY <2>7 DEF LoadMiss, PreloadRead, PreloadLock, PreloadUnlock, PreloadFree, Flush
    <3> QED
      BY <1>0, <3>1
  <2>8. CASE InsertLoaded(t)
    <3>1. op[t].k \in Keys
      <4>1. op[t] \in InsertOps
        BY <2>8 DEF InsertLoaded, TypeInv, CallsInv, Locals
      <4> QED
        BY <4>1 DEF InsertOps
    <3>2. Used(op[t].k) \/ UNCHANGED recent
      BY <2>8 DEF InsertLoaded
    <3>3. UNCHANGED expected
      BY <2>8 DEF InsertLoaded
    <3> QED
      BY <1>0, <1>a, <3>1, <3>2, <3>3
  <2>9. CASE WriteThrough(t)
    <3>1. op[t].k \in Keys /\ op[t].val \in Values
      <4>1. op[t] \in WriteOps
        BY <2>9 DEF WriteThrough, TypeInv, CallsInv, Locals
      <4> QED
        BY <4>1 DEF WriteOps
    <3>2. (\E x \in Outcomes : Expect(op[t].k, x)) /\ UNCHANGED recent
      <4>1. PICK end \in DaoEnds : Expect(op[t].k, IF end = "ok" THEN op[t].val ELSE Unknown)
        BY <2>9 DEF WriteThrough
      <4>2. (IF end = "ok" THEN op[t].val ELSE Unknown) \in Outcomes
        BY <1>0, <3>1
      <4> QED
        BY <2>9, <4>1, <4>2 DEF WriteThrough
    <3> QED
      BY <1>0, <1>b, <3>1, <3>2
  <2>10. CASE RemoveStored(t)
    <3>1. op[t].k \in Keys
      <4>1. op[t] \in RemoveOps
        BY <2>10 DEF RemoveStored, TypeInv, CallsInv, Locals
      <4> QED
        BY <4>1 DEF RemoveOps
    <3>2. (\E x \in Outcomes : Expect(op[t].k, x)) /\ UNCHANGED recent
      <4>1. PICK end \in DaoEnds : Expect(op[t].k, IF end = "ok" THEN Absent ELSE Unknown)
        BY <2>10 DEF RemoveStored
      <4>2. (IF end = "ok" THEN Absent ELSE Unknown) \in Outcomes
        BY <1>0
      <4> QED
        BY <2>10, <4>1, <4>2 DEF RemoveStored
    <3> QED
      BY <1>0, <1>b, <3>1, <3>2
  <2>11. CASE InvalidateAll(t) \/ Clear(t)
    BY <1>0, <1>c, <2>11 DEF InvalidateAll, Clear
  <2>12. CASE PreloadKey(t)
    <3> DEFINE p == op[t]
               k == p.todo[p.i + 1]
    <3>1. k \in Keys
      <4>1. p \in PreloadOps /\ p.i < Len(p.todo)
        BY <2>12 DEF PreloadKey, MoreToLoad, TypeInv, CallsInv, Locals, PreloadPlaces
      <4>2. p.i \in Nat /\ p.todo \in Seq(Keys)
        BY <4>1 DEF PreloadOps
      <4> QED
        BY <4>1, <4>2
    <3>2. Used(k) \/ UNCHANGED recent
      BY <2>12 DEF PreloadKey
    <3>3. UNCHANGED expected
      BY <2>12 DEF PreloadKey
    <3> HIDE DEF k
    <3> QED
      BY <1>0, <1>a, <3>1, <3>2, <3>3
  <2>13. ASSUME NEW k \in Keys, GetCrash(t, k) PROVE UsesKept /\ PromisesKept
    BY <1>r, <2>13 DEF GetCrash
  <2> QED
    BY <1>1, <2>1, <2>2, <2>3, <2>4, <2>5, <2>6, <2>7, <2>8, <2>9, <2>10, <2>11, <2>12, <2>13 DEF Task
<1>2. ASSUME Register \/ UNCHANGED vars PROVE UsesKept /\ PromisesKept
  <2>1. UNCHANGED <<expected, recent>>
    BY <1>2 DEF Register, vars
  <2> QED
    BY <1>0, <2>1
<1>3. ASSUME Unregister PROVE UsesKept /\ PromisesKept
  BY <1>0, <1>c, <1>3 DEF Unregister
<1>4. ASSUME Restart PROVE UsesKept /\ PromisesKept
  BY <1>r, <1>4 DEF Restart
<1>5. UsesKept /\ PromisesKept
  BY <1>1, <1>2, <1>3, <1>4 DEF Next
<1> QED
  BY <1>5 DEF HistoryInv, UsesKept, PromisesKept

-----------------------------------------------------------------------------
(* Types and links *)

LEMMA TypeInit == Init => TypeInv
<1> SUFFICES ASSUME Init PROVE TypeInv
  OBVIOUS
<1>1. nvs \in [Keys -> Stock]
  BY DEF Init, Stock
<1>2. TableInv
  BY <1>1, EmptyTable DEF Init, EmptyCache
<1>3. CallsInv /\ LockInv
  BY DEF Init, CallsInv, LockInv, Locals, Places, KeyPlaces, PreloadPlaces, Ops
<1>4. HistoryInv
  <2>1. expected \in [Keys -> Outcomes]
    BY DEF Init, Outcomes
  <2>2. recent = <<>>
    BY DEF Init
  <2> QED
    BY <2>1, <2>2, EmptyList DEF HistoryInv
<1>5. RestInv
  BY DEF Init, RestInv
<1> QED
  BY <1>2, <1>3, <1>4, <1>5 DEF TypeInv

LEMMA TypeStep == TypeInv /\ [Next]_vars => TypeInv'
BY CallsStep, TableStep, RestStep, HistoryStep DEF TypeInv

LEMMA TypeAlways == Spec => []TypeInv
BY TypeInit, TypeStep, PTL DEF Spec

(* Every variable keeps a value of its type: the links never leave the      *)
(* array, the counters stay in their ranges, and no freed or missing copy   *)
(* is taken for a value that somebody set.                                  *)
THEOREM CacheTyped == Spec => []TypeOK
<1>1. TypeInv => TypeOK
  <2> SUFFICES ASSUME TypeInv PROVE TypeOK
    OBVIOUS
  <2>1. /\ slot \in [Slots -> Entries] /\ chain \in [Buckets -> Seq(Slots)] /\ lru \in Seq(Slots)
        /\ dirtyCount \in 0 .. CounterMod - 1 /\ nvs \in [Keys -> Stock]
    <3>1. Here \in CacheStates
      BY DEF TypeInv, TableInv, Fits
    <3> QED
      BY <3>1, StateFields DEF Here
  <2>2. \A S, q : q \in Seq(S) => Members(q) \subseteq S
    BY DEF Members
  <2>3. count \in 0 .. MaxEntries
    <3>1. count = Cardinality(Valid(Here)) /\ Valid(Here) \in SUBSET Slots
      BY DEF TypeInv, TableInv, Fits, Lists, Valid, Here
    <3> QED
      BY <3>1, SlotsFinite, CacheAssumption
  <2>4. \A b \in Buckets : Members(chain[b]) \subseteq Slots
    BY <2>1, <2>2
  <2>5. Members(lru) \subseteq Slots /\ Members(recent) \subseteq Keys
    BY <2>1, <2>2 DEF TypeInv, HistoryInv
  <2>6. registered \in BOOLEAN /\ policy \in Policies /\ lock \in Tasks \cup {Nobody}
    BY DEF TypeInv, RestInv
  <2>7. pc \in [Tasks -> Places] /\ expected \in [Keys -> Outcomes]
    BY DEF TypeInv, CallsInv, HistoryInv
  <2> QED
    BY <2>1, <2>3, <2>4, <2>5, <2>6, <2>7 DEF TypeOK, Entries, Data, Stock, Places, Outcomes
<1> QED
  BY <1>1, TypeAlways, PTL

(* The array, the chains, the list and the counter describe the same        *)
(* entries in every interleaving of the operations, at any size, whatever   *)
(* fails.                                                                   *)
THEOREM LinksStay == Spec => []Linked
<1>1. TypeInv => Linked
  <2> SUFFICES ASSUME TypeInv PROVE Linked
    OBVIOUS
  <2>1. /\ lru \in Seq(Slots) /\ Distinct(lru) /\ Members(lru) = Valid(Here)
        /\ count = Cardinality(Valid(Here))
        /\ chain \in [Buckets -> Seq(Slots)]
        /\ \A b \in Buckets : Distinct(chain[b]) /\ Members(chain[b]) = ChainOf(Here, b)
    <3>1. Fits(Here)
      BY DEF TypeInv, TableInv
    <3> QED
      BY <3>1, StateFields DEF Fits, Lists, Here
  <2>2. Valid(Here) = ValidSlots
    BY DEF Valid, ValidSlots, Here
  <2>3. NoRepeat(lru)
    BY <2>1, DistinctIsNoRepeat
  <2>4. \A b \in Buckets : NoRepeat(chain[b])
    BY <2>1, DistinctIsNoRepeat
  <2>5. \A b \in Buckets : ChainOf(Here, b) = {s \in ValidSlots : Hash[slot[s].key] = b}
    BY <2>2 DEF ChainOf, Here
  <2> QED
    BY <2>1, <2>2, <2>3, <2>4, <2>5 DEF Linked
<1> QED
  BY <1>1, TypeAlways, PTL
-----------------------------------------------------------------------------
(* What an operation leaves of the other keys                               *)

(* The cache and the storage have v for the key.                            *)
Agrees(c, k, v) ==
  /\ EntriesOf(c, k) = {} => c.nvs[k] = v
  /\ \A s \in EntriesOf(c, k) : c.slot[s].val = v /\ (~c.slot[s].dirty => c.nvs[k] = v)

(* From c to d the key gets no other entries and loses nothing.             *)
Kept(c, d, k) ==
  /\ EntriesOf(d, k) \subseteq EntriesOf(c, k)
  /\ \A s \in EntriesOf(d, k) : d.slot[s].val = c.slot[s].val
  /\ EntriesOf(c, k) = {} => d.nvs[k] = c.nvs[k]
  /\ \A v : Agrees(c, k, v) => Agrees(d, k, v)

(* From c to d the entries of the key get no other values.                  *)
Shrinks(c, d, k) ==
  /\ EntriesOf(d, k) \subseteq EntriesOf(c, k)
  /\ \A s \in EntriesOf(d, k) : d.slot[s].val = c.slot[s].val
  /\ EntriesOf(c, k) = {} => d.nvs[k] = c.nvs[k]

(* The slots marked as dirty, those left marked without an entry included.  *)
Flagged(c) == {s \in Slots : c.slot[s].dirty}

(* Entries go, and the others stay in the order of their last uses.         *)
Ordered(c, d) ==
  /\ \A s \in Valid(d) : s \in Valid(c) /\ d.slot[s].key = c.slot[s].key
  /\ \A x, y : Before(d.lru, x, y) => Before(c.lru, x, y)

(* An operation that works for no key: everything it touches is kept.       *)
Keeps(c, d) ==
  /\ Fits(d) /\ Flagged(d) \subseteq Flagged(c) /\ Ordered(c, d)
  /\ \A k \in Keys : Kept(c, d, k)

LEMMA SameKept ==
  ASSUME NEW c, NEW d, NEW k, EntriesOf(d, k) = EntriesOf(c, k), d.nvs[k] = c.nvs[k],
         \A s \in EntriesOf(c, k) : /\ d.slot[s].val = c.slot[s].val
                                    /\ d.slot[s].dirty <=> c.slot[s].dirty
  PROVE  Kept(c, d, k)
BY DEF Kept, Agrees

LEMMA SameKeeps ==
  ASSUME NEW c, Fits(c)
  PROVE  Keeps(c, c)
BY SameKept DEF Keeps, Ordered

LEMMA KeptTwice ==
  ASSUME NEW c, NEW d, NEW e, NEW k, Kept(c, d, k), Kept(d, e, k)
  PROVE  Kept(c, e, k)
<1>1. EntriesOf(c, k) = {} => EntriesOf(d, k) = {}
  BY DEF Kept
<1> QED
  BY <1>1 DEF Kept

LEMMA KeepsTwice ==
  ASSUME NEW c, NEW d, NEW e, Keeps(c, d), Keeps(d, e)
  PROVE  Keeps(c, e)
<1>1. Ordered(c, e)
  BY DEF Keeps, Ordered
<1>2. \A k \in Keys : Kept(c, e, k)
  BY KeptTwice DEF Keeps
<1> QED
  BY <1>1, <1>2 DEF Keeps

(* Dropping a valid entry: the other keys are kept, and its own if what it  *)
(* has is written.                                                          *)
LEMMA DetachKept ==
  ASSUME NEW c, NEW d, NEW s \in Valid(c), Valid(d) = Valid(c) \ {s}, d.nvs = c.nvs,
         \A r \in Slots : r # s => d.slot[r] = c.slot[r]
  PROVE  /\ \A k \in Keys : EntriesOf(d, k) = EntriesOf(c, k) \ {s}
         /\ \A k \in Keys : c.slot[s].key # k \/ ~c.slot[s].dirty => Kept(c, d, k)
<1>1. \A k \in Keys : EntriesOf(d, k) = EntriesOf(c, k) \ {s}
  BY DEF EntriesOf, Valid
<1>2. ASSUME NEW k \in Keys, c.slot[s].key # k \/ ~c.slot[s].dirty PROVE Kept(c, d, k)
  <2>1. \A r \in EntriesOf(d, k) : d.slot[r] = c.slot[r] /\ r \in EntriesOf(c, k)
    BY <1>1 DEF EntriesOf, Valid
  <2>2. c.slot[s].key # k => EntriesOf(d, k) = EntriesOf(c, k)
    BY <1>1 DEF EntriesOf
  <2>3. ASSUME NEW v, Agrees(c, k, v) PROVE Agrees(d, k, v)
    <3>1. CASE c.slot[s].key # k
      BY <2>1, <2>2, <2>3, <3>1 DEF Agrees
    <3>2. CASE c.slot[s].key = k
      <4>1. c.nvs[k] = v
        BY <1>2, <2>3, <3>2 DEF Agrees, EntriesOf
      <4> QED
        BY <2>1, <2>3, <4>1 DEF Agrees
    <3> QED
      BY <3>1, <3>2
  <2> QED
    BY <1>1, <2>1, <2>3 DEF Kept
<1> QED
  BY <1>1, <1>2

LEMMA DetachOrdered ==
  ASSUME NEW c, Fits(c), NEW d, NEW s \in Valid(c), Valid(d) = Valid(c) \ {s},
         \A r \in Slots : r # s => d.slot[r] = c.slot[r], d.lru = Without(c.lru, s)
  PROVE  Ordered(c, d)
<1>1. c.lru \in Seq(Slots) /\ Distinct(c.lru)
  BY StateFields DEF Fits, Lists
<1>2. \A x, y : Before(d.lru, x, y) => Before(c.lru, x, y)
  BY <1>1, WithoutList
<1>3. \A r \in Valid(d) : r \in Valid(c) /\ d.slot[r].key = c.slot[r].key
  BY DEF Valid
<1> QED
  BY <1>2, <1>3 DEF Ordered

LEMMA DetachKeeps ==
  ASSUME NEW c, Fits(c), NEW s \in Valid(c), ~c.slot[s].dirty
  PROVE  Keeps(c, Detach(c, s))
<1> DEFINE d == Detach(c, s)
<1>1. /\ Fits(d) /\ Valid(d) = Valid(c) \ {s}
      /\ \A r \in Slots : r # s => d.slot[r] = c.slot[r]
      /\ d.slot[s].dirty = c.slot[s].dirty
      /\ d.nvs = c.nvs /\ d.dirtyCount = c.dirtyCount /\ d.lru = Without(c.lru, s)
  BY Detached
<1> HIDE DEF d
<1>2. Flagged(d) = Flagged(c)
  BY <1>1 DEF Flagged
<1>3. Ordered(c, d)
  BY <1>1, DetachOrdered
<1>4. \A k \in Keys : Kept(c, d, k)
  BY <1>1, DetachKept
<1> QED
  BY <1>1, <1>2, <1>3, <1>4 DEF Keeps, d

(* flush_entry of a dirty entry. *)
LEMMA FlushKeeps ==
  ASSUME NEW c, Fits(c), NEW s \in Valid(c), c.slot[s].dirty,
         NEW end \in FlushEnds(c.slot[s])
  PROVE  /\ Keeps(c, FlushEntry(c, s, end))
         /\ end = "ok" => ~FlushEntry(c, s, end).slot[s].dirty
<1> DEFINE d == FlushEntry(c, s, end)
           y == c.slot[s].key
<1>1. /\ Fits(d) /\ Valid(d) = Valid(c) /\ d.lru = c.lru
      /\ d.slot = IF end = "ok" THEN [c.slot EXCEPT ![s].dirty = FALSE] ELSE c.slot
      /\ d.dirtyCount = IF end = "ok" THEN Lower(c.dirtyCount) ELSE c.dirtyCount
      /\ d.nvs = IF end = "failed" THEN c.nvs ELSE [c.nvs EXCEPT ![y] = c.slot[s].val]
  BY EntryFlushed
<1> HIDE DEF d
<1>2. /\ c.slot \in [Slots -> Entries] /\ c.nvs \in [Keys -> Stock] /\ s \in Slots
      /\ y \in Keys
  BY StateFields DEF Fits, Lists, Valid
<1>3. \A r \in Slots : /\ d.slot[r].val = c.slot[r].val /\ d.slot[r].key = c.slot[r].key
                       /\ r # s \/ end # "ok" => (d.slot[r].dirty <=> c.slot[r].dirty)
  BY <1>1, <1>2 DEF Entries
<1>4. end = "ok" => ~d.slot[s].dirty
  BY <1>1, <1>2 DEF Entries
<1>5. Flagged(d) \subseteq Flagged(c)
  BY <1>3, <1>4 DEF Flagged
<1>7. Ordered(c, d)
  BY <1>1, <1>3 DEF Ordered, Valid
<1>8. ASSUME NEW k \in Keys PROVE Kept(c, d, k)
  <2>1. EntriesOf(d, k) = EntriesOf(c, k) /\ EntriesOf(c, k) \subseteq Slots
    BY <1>1, <1>3 DEF EntriesOf, Valid
  <2>2. k # y => d.nvs[k] = c.nvs[k]
    BY <1>1, <1>2
  <2>3. k = y => s \in EntriesOf(c, k) /\ (d.nvs[k] = c.nvs[k] \/ d.nvs[k] = c.slot[s].val)
    BY <1>1, <1>2 DEF EntriesOf
  <2>4. ASSUME k = y, end = "ok" PROVE d.nvs[k] = c.slot[s].val
    BY <1>1, <1>2, <2>4
  <2>5. ASSUME NEW v, Agrees(c, k, v) PROVE Agrees(d, k, v)
    <3>1. CASE k # y
      <4>1. \A r \in EntriesOf(c, k) : r # s
        BY <3>1 DEF EntriesOf
      <4> QED
        BY <1>3, <2>1, <2>2, <2>5, <3>1, <4>1 DEF Agrees
    <3>2. CASE k = y
      <4>1. c.slot[s].val = v
        BY <2>3, <2>5, <3>2 DEF Agrees
      <4>2. c.nvs[k] = v => d.nvs[k] = v
        BY <2>3, <3>2, <4>1
      <4> QED
        BY <1>3, <2>1, <2>3, <2>4, <2>5, <3>2, <4>1, <4>2 DEF Agrees
    <3> QED
      BY <3>1, <3>2
  <2> QED
    BY <1>3, <2>1, <2>2, <2>3, <2>5 DEF Kept
<1> QED
  BY <1>1, <1>4, <1>5, <1>7, <1>8 DEF Keeps, d

LEMMA FlushStays ==
  ASSUME NEW c, Fits(c), NEW s \in Valid(c), c.slot[s].dirty, NEW end \in FlushEnds(c.slot[s])
  PROVE  /\ Valid(FlushEntry(c, s, end)) = Valid(c)
         /\ FlushEntry(c, s, end).slot[s].key = c.slot[s].key
<1> DEFINE d == FlushEntry(c, s, end)
           y == c.slot[s].key
<1>1. /\ Fits(d) /\ Valid(d) = Valid(c) /\ d.lru = c.lru
      /\ d.slot = IF end = "ok" THEN [c.slot EXCEPT ![s].dirty = FALSE] ELSE c.slot
      /\ d.dirtyCount = IF end = "ok" THEN Lower(c.dirtyCount) ELSE c.dirtyCount
      /\ d.nvs = IF end = "failed" THEN c.nvs ELSE [c.nvs EXCEPT ![y] = c.slot[s].val]
  BY EntryFlushed
<1> HIDE DEF d
<1>2. c.slot \in [Slots -> Entries] /\ s \in Slots
  BY StateFields DEF Fits, Valid
<1>3. \A r \in Slots : d.slot[r].key = c.slot[r].key
  BY <1>1, <1>2 DEF Entries
<1> QED
  BY <1>1, <1>2, <1>3 DEF d

(* The flush of all entries. *)
LEMMA LoopKeeps ==
  ASSUME NEW c, Fits(c), NEW ends \in FlushOutcomes(c)
  PROVE  Keeps(c, FlushLoop(c, ends))
<1> DEFINE d == FlushLoop(c, ends)
           done == Done(ends)
<1>1. /\ Fits(d) /\ Valid(d) = Valid(c) /\ d.lru = c.lru
      /\ done \in SUBSET DirtySlots(c)
      /\ \A s \in Slots : d.slot[s] = [c.slot[s] EXCEPT !.dirty = c.slot[s].dirty /\ s \notin done]
      /\ d.dirtyCount = IF c.dirtyCount > Cardinality(done) THEN c.dirtyCount - Cardinality(done) ELSE 0
      /\ \A k \in Keys :
           \/ d.nvs[k] = c.nvs[k] /\ \A s \in done : c.slot[s].key # k
           \/ \E s \in Valid(c) : /\ c.slot[s].key = k /\ c.slot[s].dirty
                                  /\ d.nvs[k] = c.slot[s].val
  BY LoopFlushed
<1> HIDE DEF d, done
<1>2. \A s \in Slots : c.slot[s] \in Entries
  BY StateFields DEF Fits
<1>3. \A s \in Slots : /\ d.slot[s].val = c.slot[s].val /\ d.slot[s].key = c.slot[s].key
                       /\ d.slot[s].dirty <=> c.slot[s].dirty /\ s \notin done
  <2> SUFFICES ASSUME NEW s \in Slots
               PROVE  /\ d.slot[s].val = c.slot[s].val /\ d.slot[s].key = c.slot[s].key
                      /\ d.slot[s].dirty <=> c.slot[s].dirty /\ s \notin done
    OBVIOUS
  <2> DEFINE flag == c.slot[s].dirty /\ s \notin done
  <2>1. d.slot[s] = [c.slot[s] EXCEPT !.dirty = flag]
    BY <1>1
  <2>2. c.slot[s] \in Entries
    BY <1>2
  <2> HIDE DEF flag
  <2>3. d.slot[s].val = c.slot[s].val /\ d.slot[s].key = c.slot[s].key /\ d.slot[s].dirty = flag
    BY <2>1, <2>2 DEF Entries
  <2>4. d.slot[s].dirty <=> flag
    BY <2>3, Zenon
  <2> QED
    BY <2>3, <2>4, Zenon DEF flag
<1>4. Valid(c) \subseteq Slots
  BY DEF Valid
<1>5. Flagged(d) \subseteq Flagged(c)
  BY <1>3 DEF Flagged
<1>7. Ordered(c, d)
  BY <1>1, <1>3, <1>4 DEF Ordered
<1>8. ASSUME NEW k \in Keys PROVE Kept(c, d, k)
  <2>1. EntriesOf(d, k) = EntriesOf(c, k) /\ EntriesOf(c, k) \subseteq Slots
    BY <1>1, <1>3, <1>4 DEF EntriesOf
  <2>2. \/ d.nvs[k] = c.nvs[k] /\ \A s \in EntriesOf(c, k) : s \notin done
        \/ \E s \in EntriesOf(c, k) : d.nvs[k] = c.slot[s].val
    BY <1>1 DEF EntriesOf
  <2>3. ASSUME NEW v, Agrees(c, k, v) PROVE Agrees(d, k, v)
    <3>1. CASE d.nvs[k] = c.nvs[k] /\ \A s \in EntriesOf(c, k) : s \notin done
      BY <1>3, <2>1, <2>3, <3>1 DEF Agrees
    <3>2. CASE \E s \in EntriesOf(c, k) : d.nvs[k] = c.slot[s].val
      <4>1. d.nvs[k] = v
        BY <2>3, <3>2 DEF Agrees
      <4> QED
        BY <1>3, <2>1, <2>3, <4>1 DEF Agrees
    <3> QED
      BY <2>2, <3>1, <3>2
  <2> QED
    BY <1>3, <2>1, <2>2, <2>3 DEF Kept
<1> QED
  BY <1>1, <1>5, <1>7, <1>8 DEF Keeps, d

(* evict_lru *)
LEMMA EvictKeeps ==
  ASSUME NEW c, Fits(c), NEW d, Evicts(c, d)
  PROVE  Keeps(c, d)
<1>1. PICK s \in Valid(c) :
        \/ ~c.slot[s].dirty /\ d = Detach(c, s)
        \/ c.slot[s].dirty /\ "ok" \in FlushEnds(c.slot[s]) /\ d = Detach(FlushEntry(c, s, "ok"), s)
        \/ c.slot[s].dirty /\ \E end \in FlushEnds(c.slot[s]) \ {"ok"} : d = FlushEntry(c, s, end)
  BY DEF Evicts
<1>2. CASE ~c.slot[s].dirty /\ d = Detach(c, s)
  BY <1>2, DetachKeeps
<1>3. CASE c.slot[s].dirty /\ "ok" \in FlushEnds(c.slot[s]) /\ d = Detach(FlushEntry(c, s, "ok"), s)
  <2> DEFINE f == FlushEntry(c, s, "ok")
  <2>1. Keeps(c, f) /\ ~f.slot[s].dirty
    BY <1>3, FlushKeeps
  <2>2. Valid(f) = Valid(c)
    BY <1>3, EntryFlushed
  <2>3. d = Detach(f, s)
    BY <1>3
  <2> HIDE DEF f
  <2>4. Keeps(f, d)
    BY <2>1, <2>2, <2>3, DetachKeeps DEF Keeps
  <2> QED
    BY <2>1, <2>4, KeepsTwice
<1>4. CASE c.slot[s].dirty /\ \E end \in FlushEnds(c.slot[s]) \ {"ok"} : d = FlushEntry(c, s, end)
  <2>1. PICK end \in FlushEnds(c.slot[s]) \ {"ok"} : d = FlushEntry(c, s, end)
    BY <1>4
  <2> QED
    BY <1>4, <2>1, FlushKeeps
<1> QED
  BY <1>1, <1>2, <1>3, <1>4

-----------------------------------------------------------------------------
(* What an operation leaves of the key it works for                         *)

(* Slot s of d is the entry of the key, in front of the others, which are   *)
(* kept in their order.                                                     *)
Entered(c, d, s, k) ==
  /\ s \in Valid(d) /\ d.slot[s].key = k
  /\ Own(k) => EntriesOf(d, k) = {s}
  /\ \A j \in Keys : j # k => Kept(c, d, j)
  /\ \A r \in Valid(d) : r # s => r \in Valid(c) /\ d.slot[r].key = c.slot[r].key
  /\ \A x, y : Before(d.lru, x, y) => x = s \/ (Before(c.lru, x, y) /\ x # s /\ y # s)

LEMMA TouchKept ==
  ASSUME NEW c, Fits(c), NEW s \in Valid(c)
  PROVE  /\ Flagged(Touch(c, s)) = Flagged(c)
         /\ \A k \in Keys : Kept(c, Touch(c, s), k) /\ EntriesOf(Touch(c, s), k) = EntriesOf(c, k)
<1> DEFINE d == Touch(c, s)
<1>1. Fits(d) /\ d.slot = c.slot /\ d.nvs = c.nvs /\ d.dirtyCount = c.dirtyCount
  BY Touched
<1> HIDE DEF d
<1>2. Valid(d) = Valid(c) /\ \A k \in Keys : EntriesOf(d, k) = EntriesOf(c, k)
  BY <1>1 DEF Valid, EntriesOf
<1>3. Flagged(d) = Flagged(c)
  BY <1>1 DEF Flagged
<1>4. \A k \in Keys : Kept(c, d, k)
  BY <1>1, <1>2, SameKept
<1> QED
  BY <1>2, <1>3, <1>4 DEF d

LEMMA TouchEntered ==
  ASSUME NEW c, Fits(c), NEW k \in Keys, NEW s \in EntriesOf(c, k),
         Own(k) => EntriesOf(c, k) = {s}
  PROVE  Entered(c, Touch(c, s), s, k)
<1> DEFINE d == Touch(c, s)
           q == c.lru
           w == Without(q, s)
<1>1. s \in Valid(c) /\ c.slot[s].key = k
  BY DEF EntriesOf
<1>2. d.slot = c.slot /\ d.lru = <<s>> \o w
  BY <1>1, Touched
<1>3. \A j \in Keys : Kept(c, d, j) /\ EntriesOf(d, j) = EntriesOf(c, j)
  BY <1>1, TouchKept
<1>4. Valid(d) = Valid(c)
  BY <1>2 DEF Valid
<1>5. q \in Seq(Slots) /\ Distinct(q) /\ Members(q) = Valid(c) /\ s \in Slots
  BY <1>1, StateFields DEF Fits, Lists, Valid
<1> HIDE DEF d, q
<1>6. /\ w \in Seq(Slots) /\ Distinct(w) /\ s \notin Members(w)
      /\ \A x, y : Before(w, x, y) => Before(q, x, y) /\ x # s /\ y # s
  BY <1>5, WithoutList
<1> HIDE DEF w
<1>7. \A x, y : Before(d.lru, x, y) => x = s \/ Before(w, x, y)
  BY <1>2, <1>5, <1>6, FrontList
<1> QED
  BY <1>1, <1>2, <1>3, <1>4, <1>6, <1>7 DEF Entered, d, q

LEMMA FillEntered ==
  ASSUME NEW c, Fits(c), NEW s \in Slots, s \notin Valid(c), NEW k \in Keys,
         NEW v \in Data, NEW flag \in BOOLEAN, flag => c.slot[s].dirty,
         Own(k) => EntriesOf(c, k) = {}
  PROVE  /\ Entered(c, Fill(c, s, k, v, flag), s, k)
         /\ Fits(Fill(c, s, k, v, flag)) /\ Flagged(Fill(c, s, k, v, flag)) \subseteq Flagged(c)
         /\ Fill(c, s, k, v, flag).nvs = c.nvs /\ Fill(c, s, k, v, flag).slot[s].val = v
<1> DEFINE d == Fill(c, s, k, v, flag)
<1>1. /\ Fits(d) /\ Valid(d) = Valid(c) \cup {s}
      /\ d.slot[s].key = k /\ d.slot[s].val = v /\ d.slot[s].dirty = flag
      /\ \A r \in Slots : r # s => d.slot[r] = c.slot[r]
      /\ d.nvs = c.nvs /\ d.dirtyCount = c.dirtyCount /\ d.lru = <<s>> \o c.lru
  BY Filled
<1>2. /\ c.slot \in [Slots -> Entries] /\ c.lru \in Seq(Slots) /\ Distinct(c.lru)
      /\ Members(c.lru) = Valid(c) /\ Valid(c) \subseteq Slots
  BY StateFields DEF Fits, Lists, Valid
<1> HIDE DEF d
<1>3. /\ d.slot[s].key = k /\ d.slot[s].val = v /\ (d.slot[s].dirty => c.slot[s].dirty)
      /\ \A r \in Slots : r # s => d.slot[r] = c.slot[r]
  BY <1>1, <1>2
<1>5. Flagged(d) \subseteq Flagged(c)
  BY <1>3 DEF Flagged
<1>7. \A j \in Keys : j # k => EntriesOf(d, j) = EntriesOf(c, j)
  BY <1>1, <1>2, <1>3 DEF EntriesOf
<1>8. EntriesOf(d, k) = EntriesOf(c, k) \cup {s}
  BY <1>1, <1>2, <1>3 DEF EntriesOf
<1>9. \A j \in Keys : j # k => Kept(c, d, j)
  <2>1. \A j \in Keys : \A r \in EntriesOf(c, j) : d.slot[r] = c.slot[r]
    BY <1>2, <1>3 DEF EntriesOf
  <2> QED
    BY <1>1, <1>7, <2>1, SameKept
<1>10. \A x, y : Before(d.lru, x, y) => x = s \/ (Before(c.lru, x, y) /\ x # s /\ y # s)
  <2>1. \A x, y : Before(d.lru, x, y) => x = s \/ Before(c.lru, x, y)
    BY <1>1, <1>2, FrontList
  <2>2. \A x, y : Before(c.lru, x, y) => x \in Valid(c) /\ y \in Valid(c)
    BY <1>2 DEF Before, Members
  <2> QED
    BY <2>1, <2>2
<1>11. \A r \in Valid(d) : r # s => r \in Valid(c) /\ d.slot[r].key = c.slot[r].key
  BY <1>1, <1>2, <1>3
<1>12. s \in Valid(d)
  BY <1>1
<1>13. Entered(c, d, s, k)
  BY <1>3, <1>8, <1>9, <1>10, <1>11, <1>12 DEF Entered
<1> QED
  BY <1>1, <1>3, <1>5, <1>13 DEF d

LEMMA KeepsEntered ==
  ASSUME NEW c, NEW d, NEW e, NEW s, NEW k, Keeps(c, d), Entered(d, e, s, k)
  PROVE  Entered(c, e, s, k)
<1>1. \A j \in Keys : j # k => Kept(c, e, j)
  BY KeptTwice DEF Keeps, Entered
<1>2. \A r \in Valid(e) : r # s => r \in Valid(c) /\ e.slot[r].key = c.slot[r].key
  BY DEF Keeps, Ordered, Entered
<1>3. \A x, y : Before(e.lru, x, y) => x = s \/ (Before(c.lru, x, y) /\ x # s /\ y # s)
  BY DEF Keeps, Ordered, Entered
<1> QED
  BY <1>1, <1>2, <1>3 DEF Entered

(* The entry changes in place. *)
LEMMA EnteredChanged ==
  ASSUME NEW c, NEW d, Fits(d), NEW s, NEW k, Entered(c, d, s, k), NEW e, Valid(e) = Valid(d),
         \A r \in Slots : /\ e.slot[r].key = d.slot[r].key
                          /\ r # s => e.slot[r] = d.slot[r],
         e.lru = d.lru, e.nvs = d.nvs
  PROVE  Entered(c, e, s, k)
<1>1. Valid(d) \subseteq Slots /\ s \in Valid(d) /\ d.slot[s].key = k
  BY DEF Valid, Entered
<1>2. \A j \in Keys \cup {k} : EntriesOf(e, j) = EntriesOf(d, j)
  BY <1>1 DEF EntriesOf
<1>3. ASSUME NEW j \in Keys, j # k PROVE Kept(c, e, j)
  <2>1. \A r \in EntriesOf(d, j) : e.slot[r] = d.slot[r]
    BY <1>1, <1>3 DEF EntriesOf
  <2>2. Kept(d, e, j)
    BY <1>2, <2>1, SameKept
  <2> QED
    BY <1>3, <2>2, KeptTwice DEF Entered
<1>4. \A r \in Valid(e) : r # s => r \in Valid(c) /\ e.slot[r].key = c.slot[r].key
  BY <1>1 DEF Entered
<1> QED
  BY <1>1, <1>2, <1>3, <1>4 DEF Entered

(* The copy of a value into the entry. *)
LEMMA CopiedOwn ==
  ASSUME NEW c, NEW d, Fits(d), NEW s \in Slots, NEW k, Entered(c, d, s, k), NEW v \in Data
  PROVE  /\ Fits([d EXCEPT !.slot[s].val = v])
         /\ Flagged([d EXCEPT !.slot[s].val = v]) = Flagged(d)
         /\ Entered(c, [d EXCEPT !.slot[s].val = v], s, k)
         /\ [d EXCEPT !.slot[s].val = v].slot[s].val = v
<1> DEFINE e == [d EXCEPT !.slot[s].val = v]
<1>1. /\ Fits(e) /\ Valid(e) = Valid(d) /\ e.slot = [d.slot EXCEPT ![s].val = v]
      /\ e.nvs = d.nvs /\ e.dirtyCount = d.dirtyCount /\ e.lru = d.lru
  BY Copied
<1> HIDE DEF e
<1>2. d.slot \in [Slots -> Entries]
  BY StateFields DEF Fits
<1>3. /\ e.slot[s].val = v /\ e.slot[s].key = d.slot[s].key /\ e.slot[s].dirty = d.slot[s].dirty
      /\ \A r \in Slots : r # s => e.slot[r] = d.slot[r]
  BY <1>1, <1>2 DEF Entries
<1>4. \A r \in Slots : e.slot[r].key = d.slot[r].key /\ (e.slot[r].dirty <=> d.slot[r].dirty)
  BY <1>3
<1>5. Flagged(e) = Flagged(d)
  BY <1>4 DEF Flagged
<1>7. Entered(c, e, s, k)
  BY <1>1, <1>3, <1>4, EnteredChanged
<1> QED
  BY <1>1, <1>3, <1>5, <1>7 DEF e

(* The mark of a write-back. *)
LEMMA MarkedOwn ==
  ASSUME NEW c, NEW d, Fits(d), NEW s \in Slots, NEW k, Entered(c, d, s, k)
  PROVE  /\ Fits(MarkDirty(d, s))
         /\ Entered(c, MarkDirty(d, s), s, k)
         /\ MarkDirty(d, s).slot[s].dirty /\ MarkDirty(d, s).slot[s].val = d.slot[s].val
<1> DEFINE e == MarkDirty(d, s)
<1>1. /\ Fits(e) /\ Valid(e) = Valid(d) /\ e.slot = [d.slot EXCEPT ![s].dirty = TRUE]
      /\ e.nvs = d.nvs /\ e.lru = d.lru
      /\ e.dirtyCount = IF d.slot[s].dirty THEN d.dirtyCount ELSE (d.dirtyCount + 1) % CounterMod
  BY Marked
<1> HIDE DEF e
<1>2. d.slot \in [Slots -> Entries]
  BY StateFields DEF Fits
<1>3. /\ e.slot[s].val = d.slot[s].val /\ e.slot[s].key = d.slot[s].key /\ e.slot[s].dirty
      /\ \A r \in Slots : r # s => e.slot[r] = d.slot[r]
  BY <1>1, <1>2 DEF Entries
<1>7. Entered(c, e, s, k)
  <2>1. \A r \in Slots : e.slot[r].key = d.slot[r].key /\ (r # s => e.slot[r] = d.slot[r])
    BY <1>3
  <2> QED
    BY <1>1, <2>1, EnteredChanged
<1> QED
  BY <1>1, <1>3, <1>7 DEF e

(* The entry that a set writes to. *)
LEMMA EntryForOwn ==
  ASSUME Fits(Here), NEW k \in Keys, NEW e \in EntryFor(k),
         Own(k) => \A s, r \in EntriesOf(Here, k) : s = r
  PROVE  \/ e.s = NoSlot /\ Keeps(Here, e.c)
         \/ /\ e.s # NoSlot /\ e.s \in Slots
            /\ Fits(e.c) /\ Flagged(e.c) \subseteq Flagged(Here)
            /\ Entered(Here, e.c, e.s, k)
<1>1. CASE e.s \in EntriesOf(Here, k) /\ e.c = Touch(Here, e.s)
  <2> DEFINE s == e.s
  <2>1. s \in Valid(Here) /\ s \in Slots /\ s \in EntriesOf(Here, k)
    BY <1>1 DEF EntriesOf, Valid
  <2>2. Own(k) => EntriesOf(Here, k) = {s}
    BY <2>1
  <2>3. s # NoSlot
    BY <2>1, CacheAssumption DEF Slots, NoSlot
  <2>4. e.c = Touch(Here, s)
    BY <1>1
  <2> HIDE DEF s
  <2>5. /\ Fits(e.c) /\ Flagged(e.c) = Flagged(Here)
        /\ Entered(Here, e.c, s, k)
    <3>1. Fits(e.c)
      BY <2>1, <2>4, Touched
    <3>2. Flagged(e.c) = Flagged(Here)
      BY <2>1, <2>4, TouchKept
    <3>3. Entered(Here, e.c, s, k)
      BY <2>1, <2>2, <2>4, TouchEntered
    <3> QED
      BY <3>1, <3>2, <3>3
  <2> QED
    BY <2>1, <2>3, <2>5 DEF s
<1>2. CASE e.s = NoSlot /\ (e.c = Here \/ Evicts(Here, e.c))
  BY <1>2, SameKeeps, EvictKeeps
<1>3. CASE /\ Find(Here, k) = NoSlot
           /\ \E d : /\ Fits(d) /\ (d = Here \/ Evicts(Here, d))
                     /\ e.s \in Slots /\ e.s \notin Valid(d)
                     /\ e.c = Fill(d, e.s, k, NoData, d.slot[e.s].dirty)
  <2> DEFINE s == e.s
  <2>1. PICK d : /\ Fits(d) /\ (d = Here \/ Evicts(Here, d)) /\ s \in Slots /\ s \notin Valid(d)
                 /\ e.c = Fill(d, s, k, NoData, d.slot[s].dirty)
    BY <1>3
  <2> DEFINE flag == d.slot[s].dirty
  <2>2. Keeps(Here, d)
    BY <2>1, SameKeeps, EvictKeeps
  <2>3. EntriesOf(d, k) = {}
    BY <1>3, <2>2, Found DEF Keeps, Kept
  <2>4. flag \in BOOLEAN /\ NoData \in Data /\ s # NoSlot
    BY <2>1, <2>2, StateFields, CacheAssumption DEF Fits, Data, Slots, NoSlot
  <2>5. e.c = Fill(d, s, k, NoData, flag)
    BY <2>1
  <2>6. Fits(d) /\ Flagged(d) \subseteq Flagged(Here) /\ s \in Slots /\ s \notin Valid(d)
    BY <2>1, <2>2 DEF Keeps
  <2> HIDE DEF flag, s
  <2>7. ASSUME NEW x \in BOOLEAN, x => d.slot[s].dirty, e.c = Fill(d, s, k, NoData, x)
        PROVE  Entered(d, e.c, s, k) /\ Fits(e.c) /\ Flagged(e.c) \subseteq Flagged(d)
    BY <2>3, <2>4, <2>6, <2>7, FillEntered
  <2>8. Entered(d, e.c, s, k) /\ Fits(e.c) /\ Flagged(e.c) \subseteq Flagged(d)
    BY <2>4, <2>5, <2>7 DEF flag
  <2>9. Entered(Here, e.c, s, k)
    BY <2>2, <2>8, KeepsEntered
  <2> QED
    BY <2>4, <2>6, <2>8, <2>9 DEF s
<1> QED
  BY <1>1, <1>2, <1>3, EntryForKey

-----------------------------------------------------------------------------
(* The order of the last uses                                               *)

InOrder(c, q) ==
  /\ \A s \in Valid(c) : Own(c.slot[s].key) => c.slot[s].key \in Members(q)
  /\ \A x, y : Before(c.lru, x, y) /\ Own(c.slot[x].key) /\ Own(c.slot[y].key)
                 => Before(q, c.slot[x].key, c.slot[y].key)

LEMMA ListedAreValid ==
  ASSUME NEW c, Fits(c), NEW x, NEW y, Before(c.lru, x, y)
  PROVE  x \in Valid(c) /\ y \in Valid(c) /\ x # y
<1>1. Distinct(c.lru) /\ Members(c.lru) = Valid(c) /\ c.lru \in Seq(Slots)
  BY StateFields DEF Fits, Lists
<1>2. PICK i, j \in DOMAIN c.lru : i < j /\ c.lru[i] = x /\ c.lru[j] = y
  BY DEF Before
<1>3. i # j
  <2>1. i \in 1 .. Len(c.lru) /\ j \in 1 .. Len(c.lru)
    BY <1>1, <1>2
  <2> QED
    BY <1>2, <2>1
<1> QED
  BY <1>1, <1>2, <1>3 DEF Members, Distinct

LEMMA OrderKept ==
  ASSUME NEW c, NEW d, Fits(d), Ordered(c, d), NEW q, InOrder(c, q)
  PROVE  InOrder(d, q)
<1>1. \A s \in Valid(d) : s \in Valid(c) /\ d.slot[s].key = c.slot[s].key
  BY DEF Ordered
<1>2. \A x, y : Before(d.lru, x, y) => Before(c.lru, x, y) /\ x \in Valid(d) /\ y \in Valid(d)
  BY ListedAreValid DEF Ordered
<1> QED
  BY <1>1, <1>2 DEF InOrder

LEMMA OrderFront ==
  ASSUME HistoryInv, NEW c, NEW d, Fits(d), NEW s, NEW k \in Keys, Entered(c, d, s, k),
         InOrder(c, recent), Used(k)
  PROVE  InOrder(d, recent')
<1>1. /\ s \in Valid(d) /\ d.slot[s].key = k
      /\ Own(k) => EntriesOf(d, k) = {s}
      /\ \A r \in Valid(d) : r # s => r \in Valid(c) /\ d.slot[r].key = c.slot[r].key
      /\ \A x, y : Before(d.lru, x, y) => x = s \/ (Before(c.lru, x, y) /\ x # s /\ y # s)
  BY DEF Entered
<1>2. CASE Own(k)
  <2>1. /\ Members(recent') = Members(recent) \cup {k}
        /\ \A y \in Members(recent) : y # k => Before(recent', k, y)
        /\ \A y, z : Before(recent, y, z) /\ y # k /\ z # k => Before(recent', y, z)
    BY <1>2, UsedKeeps
  <2>2. \A r \in Valid(d) : r # s => d.slot[r].key # k
    BY <1>1, <1>2 DEF EntriesOf
  <2>3. ASSUME NEW r \in Valid(d), Own(d.slot[r].key)
        PROVE  d.slot[r].key \in Members(recent')
    BY <1>1, <2>1, <2>3 DEF InOrder
  <2>4. ASSUME NEW x, NEW y, Before(d.lru, x, y), Own(d.slot[x].key), Own(d.slot[y].key)
        PROVE  Before(recent', d.slot[x].key, d.slot[y].key)
    <3>1. x \in Valid(d) /\ y \in Valid(d) /\ x # y
      BY <2>4, ListedAreValid
    <3>2. CASE x = s
      <4>1. y \in Valid(c) /\ d.slot[y].key = c.slot[y].key /\ d.slot[y].key # k
        BY <1>1, <2>2, <3>1, <3>2
      <4>2. d.slot[y].key \in Members(recent)
        BY <2>4, <4>1 DEF InOrder
      <4> QED
        BY <1>1, <2>1, <3>2, <4>1, <4>2
    <3>3. CASE x # s
      <4>1. Before(c.lru, x, y) /\ y # s
        BY <1>1, <2>4, <3>3
      <4>2. /\ d.slot[x].key = c.slot[x].key /\ d.slot[x].key # k
            /\ d.slot[y].key = c.slot[y].key /\ d.slot[y].key # k
        BY <1>1, <2>2, <3>1, <3>3, <4>1
      <4>3. Before(recent, d.slot[x].key, d.slot[y].key)
        BY <2>4, <4>1, <4>2 DEF InOrder
      <4> QED
        BY <2>1, <4>2, <4>3
    <3> QED
      BY <3>2, <3>3
  <2> QED
    BY <2>3, <2>4 DEF InOrder
<1>3. CASE ~Own(k)
  <2>1. recent' = recent
    BY <1>3 DEF Used
  <2>2. ASSUME NEW r \in Valid(d), Own(d.slot[r].key)
        PROVE  d.slot[r].key \in Members(recent)
    BY <1>1, <1>3, <2>2 DEF InOrder
  <2>3. ASSUME NEW x, NEW y, Before(d.lru, x, y), Own(d.slot[x].key), Own(d.slot[y].key)
        PROVE  Before(recent, d.slot[x].key, d.slot[y].key)
    <3>1. x \in Valid(d) /\ y \in Valid(d) /\ x # s
      BY <1>1, <1>3, <2>3, ListedAreValid
    <3>2. Before(c.lru, x, y) /\ y # s
      BY <1>1, <2>3, <3>1
    <3>3. d.slot[x].key = c.slot[x].key /\ d.slot[y].key = c.slot[y].key
      BY <1>1, <3>1, <3>2
    <3> QED
      BY <2>3, <3>2, <3>3 DEF InOrder
  <2> QED
    BY <2>1, <2>2, <2>3 DEF InOrder
<1> QED
  BY <1>2, <1>3

-----------------------------------------------------------------------------
(* The inductive invariant of the keys with one user                        *)

(* What such a key's user was promised is what the cache and the storage    *)
(* have; nothing is promised of another key.                                *)
KeyRight(c, x, k) ==
  IF Own(k) THEN /\ \A s, r \in EntriesOf(c, k) : s = r
                 /\ x[k] # Unknown => Agrees(c, k, x[k])
  ELSE x[k] = Unknown

(* While a task loads or removes such a key the key has no entry, and what  *)
(* was loaded is still what is stored; while it writes or removes one,      *)
(* nothing is promised, and the entry already has what is written.          *)
CallRight(c, x, p, o) ==
  p \in KeyPlaces /\ Own(o.k) =>
    /\ p \in {"loading", "inserting", "removing"} => EntriesOf(c, o.k) = {}
    /\ p = "inserting" => o.val = c.nvs[o.k]
    /\ p \in {"writing", "removing"} => x[o.k] = Unknown
    /\ p = "writing" => \A s \in EntriesOf(c, o.k) : c.slot[s].val = o.val

StateRight(c, q, p) ==
  (p = "writeThrough" => Flagged(c) = {}) /\ InOrder(c, q)

OwnPlaces == {"idle"} \cup KeyPlaces

OwnInv ==
  /\ StateRight(Here, recent, policy)
  /\ \A k \in Keys : KeyRight(Here, expected, k)
  /\ \A t \in Tasks : pc[t] \in OwnPlaces /\ CallRight(Here, expected, pc[t], op[t])

(* No task preloads the namespace. *)
NoPreload == \A p \in Policies, t \in Tasks : "preload" \notin Uses(p, t)

LEMMA IdleIsRight ==
  ASSUME NEW c, NEW x, NEW o
  PROVE  CallRight(c, x, "idle", o) /\ "idle" \in OwnPlaces
BY DEF CallRight, KeyPlaces, OwnPlaces

LEMMA CallKept ==
  ASSUME NEW c, NEW d, NEW x, NEW y, NEW p, NEW o, CallRight(c, x, p, o),
         p \in KeyPlaces /\ Own(o.k) =>
           Shrinks(c, d, o.k) /\ (y[o.k] = x[o.k] \/ y[o.k] = Unknown)
  PROVE  CallRight(d, y, p, o)
<1> SUFFICES ASSUME p \in KeyPlaces, Own(o.k)
             PROVE  /\ p \in {"loading", "inserting", "removing"} => EntriesOf(d, o.k) = {}
                    /\ p = "inserting" => o.val = d.nvs[o.k]
                    /\ p \in {"writing", "removing"} => y[o.k] = Unknown
                    /\ p = "writing" => \A s \in EntriesOf(d, o.k) : d.slot[s].val = o.val
  BY DEF CallRight
<1>1. /\ p \in {"loading", "inserting", "removing"} => EntriesOf(c, o.k) = {}
      /\ p = "inserting" => o.val = c.nvs[o.k]
      /\ p \in {"writing", "removing"} => x[o.k] = Unknown
      /\ p = "writing" => \A s \in EntriesOf(c, o.k) : c.slot[s].val = o.val
  BY DEF CallRight
<1>2. /\ EntriesOf(d, o.k) \subseteq EntriesOf(c, o.k)
      /\ \A s \in EntriesOf(d, o.k) : d.slot[s].val = c.slot[s].val
      /\ EntriesOf(c, o.k) = {} => d.nvs[o.k] = c.nvs[o.k]
      /\ y[o.k] = x[o.k] \/ y[o.k] = Unknown
  BY DEF Shrinks
<1> QED
  BY <1>1, <1>2

LEMMA KeyKept ==
  ASSUME NEW c, NEW d, NEW x, NEW y, NEW k, KeyRight(c, x, k), Shrinks(c, d, k),
         y[k] = Unknown \/ (Kept(c, d, k) /\ y[k] = x[k])
  PROVE  KeyRight(d, y, k)
<1>1. CASE Own(k)
  <2>1. \A s, r \in EntriesOf(d, k) : s = r
    BY <1>1 DEF KeyRight, Shrinks
  <2>2. y[k] # Unknown => Agrees(d, k, y[k])
    BY <1>1 DEF KeyRight, Kept
  <2> QED
    BY <1>1, <2>1, <2>2 DEF KeyRight
<1>2. CASE ~Own(k)
  BY <1>2 DEF KeyRight
<1> QED
  BY <1>1, <1>2

LEMMA KeptShrinks ==
  ASSUME NEW c, NEW d, NEW k, Kept(c, d, k)
  PROVE  Shrinks(c, d, k)
BY DEF Kept, Shrinks

LEMMA KeptSelf ==
  ASSUME NEW c, NEW k
  PROVE  Kept(c, c, k)
BY DEF Kept

LEMMA KeyOfCall ==
  ASSUME TypeInv, NEW t \in Tasks, pc[t] \in KeyPlaces
  PROVE  op[t].k \in Keys /\ t \in UsersOf[op[t].k]
<1>1. Locals(t, pc[t], op[t])
  BY DEF TypeInv, CallsInv
<1> QED
  BY <1>1 DEF Locals, KeyPlaces, LoadOps, InsertOps, WriteOps, RemoveOps

(* A step of a task that works for one of its keys. *)
LEMMA OneKey ==
  ASSUME TypeInv, OwnInv, NEW t \in Tasks, NEW k \in Keys, t \in UsersOf[k],
         NEW d, Here' = d, StateRight(d, recent', policy'),
         \A j \in Keys : j # k => Kept(Here, d, j) /\ expected'[j] = expected[j],
         KeyRight(d, expected', k),
         \A u \in Tasks : u # t => pc'[u] = pc[u] /\ op'[u] = op[u],
         pc'[t] \in OwnPlaces, CallRight(d, expected', pc'[t], op'[t])
  PROVE  OwnInv'
<1>1. ASSUME NEW j \in Keys PROVE KeyRight(d, expected', j)
  <2>1. CASE j = k
    BY <2>1
  <2>2. CASE j # k
    BY <2>2, KeyKept, KeptShrinks DEF OwnInv
  <2> QED
    BY <2>1, <2>2
<1>2. ASSUME NEW u \in Tasks PROVE pc'[u] \in OwnPlaces /\ CallRight(d, expected', pc'[u], op'[u])
  <2>1. CASE u = t
    BY <2>1
  <2>2. CASE u # t
    <3>1. pc'[u] = pc[u] /\ op'[u] = op[u]
      BY <2>2
    <3>2. pc[u] \in OwnPlaces /\ CallRight(Here, expected, pc[u], op[u])
      BY DEF OwnInv
    <3>3. ASSUME pc[u] \in KeyPlaces, Own(op[u].k)
          PROVE  Kept(Here, d, op[u].k) /\ expected'[op[u].k] = expected[op[u].k]
      <4>1. op[u].k \in Keys /\ u \in UsersOf[op[u].k]
        BY <3>3, KeyOfCall
      <4>2. op[u].k # k
        BY <2>2, <3>3, <4>1 DEF Own
      <4> QED
        BY <4>1, <4>2
    <3>4. CallRight(d, expected', pc[u], op[u])
      BY <3>2, <3>3, CallKept, KeptShrinks
    <3> QED
      BY <3>1, <3>2, <3>4
  <2> QED
    BY <2>1, <2>2
<1> QED
  BY <1>1, <1>2 DEF OwnInv

(* A step that keeps every key, or forgets what was promised of it. *)
LEMMA NoKeyLost ==
  ASSUME TypeInv, OwnInv, NEW d, Here' = d, StateRight(d, recent', policy'),
         \A j \in Keys : /\ Shrinks(Here, d, j)
                         /\ \/ expected'[j] = Unknown
                            \/ Kept(Here, d, j) /\ expected'[j] = expected[j],
         \A u \in Tasks : (pc'[u] = pc[u] /\ op'[u] = op[u]) \/ pc'[u] = "idle"
  PROVE  OwnInv'
<1>1. \A j \in Keys : KeyRight(d, expected', j)
  BY KeyKept DEF OwnInv
<1>2. ASSUME NEW u \in Tasks PROVE pc'[u] \in OwnPlaces /\ CallRight(d, expected', pc'[u], op'[u])
  <2>1. CASE pc'[u] = "idle"
    BY <2>1, IdleIsRight
  <2>2. CASE pc'[u] = pc[u] /\ op'[u] = op[u]
    <3>1. pc[u] \in OwnPlaces /\ CallRight(Here, expected, pc[u], op[u])
      BY DEF OwnInv
    <3>2. pc[u] \in KeyPlaces => op[u].k \in Keys
      BY KeyOfCall
    <3>3. CallRight(d, expected', pc[u], op[u])
      BY <3>1, <3>2, CallKept
    <3> QED
      BY <2>2, <3>1, <3>3
  <2> QED
    BY <2>1, <2>2
<1> QED
  BY <1>1, <1>2 DEF OwnInv

-----------------------------------------------------------------------------
(* The steps                                                                *)

LEMMA GotoCalls ==
  ASSUME CallsInv, NEW t \in Tasks, NEW p, NEW o, Goto(t, p, o)
  PROVE  /\ pc'[t] = p /\ op'[t] = o
         /\ \A u \in Tasks : u # t => pc'[u] = pc[u] /\ op'[u] = op[u]
BY DEF CallsInv, Goto

LEMMA ExpectIs ==
  ASSUME HistoryInv, NEW k \in Keys, NEW v, Expect(k, v)
  PROVE  /\ expected'[k] = IF Own(k) THEN v ELSE Unknown
         /\ \A j \in Keys : j # k => expected'[j] = expected[j]
BY DEF HistoryInv, Expect

LEMMA ForgetIs ==
  ASSUME NEW S, Forget(S)
  PROVE  \A k \in Keys : expected'[k] = expected[k] \/ expected'[k] = Unknown
BY DEF Forget

LEMMA StateKept ==
  ASSUME OwnInv, NEW d, Keeps(Here, d), policy' = policy, recent' = recent
  PROVE  StateRight(d, recent', policy')
<1>1. InOrder(d, recent)
  BY OrderKept DEF OwnInv, StateRight, Keeps
<1> QED
  BY <1>1 DEF OwnInv, StateRight, Keeps

LEMMA StateStays ==
  ASSUME OwnInv, policy' = policy, recent' = recent
  PROVE  StateRight(Here, recent', policy')
BY DEF OwnInv

(* A region that keeps everything, in a call that ends with it. *)
LEMMA KeepsOwn ==
  ASSUME TypeInv, OwnInv, NEW d, Keeps(Here, d), Becomes(d), UNCHANGED <<policy, recent>>,
         UNCHANGED expected,
         \A u \in Tasks : (pc'[u] = pc[u] /\ op'[u] = op[u]) \/ pc'[u] = "idle"
  PROVE  OwnInv'
<1>1. Here' = d
  BY BecomesIs DEF Keeps, Fits
<1>2. StateRight(d, recent', policy')
  BY StateKept
<1>3. \A j \in Keys : Kept(Here, d, j) /\ Shrinks(Here, d, j)
  BY KeptShrinks DEF Keeps
<1> QED
  BY <1>1, <1>2, <1>3, NoKeyLost

(* Everything goes, and nothing is promised any more of what was dirty. *)
LEMMA GoneOwn ==
  ASSUME TypeInv, OwnInv, NEW c, Keeps(Here, c), NEW d, Fits(d), Valid(d) = {}, d.nvs = c.nvs,
         d.lru = <<>>, Flagged(d) \subseteq Flagged(c), Here' = d, policy' = policy,
         \A k \in Keys :
           \/ expected'[k] = Unknown
           \/ expected'[k] = expected[k] /\ \A s \in EntriesOf(c, k) : ~c.slot[s].dirty,
         \A u \in Tasks : (pc'[u] = pc[u] /\ op'[u] = op[u]) \/ pc'[u] = "idle"
  PROVE  OwnInv'
<1>1. \A k \in Keys : EntriesOf(d, k) = {}
  BY DEF EntriesOf
<1>2. StateRight(d, recent', policy')
  <2>1. InOrder(d, recent')
    BY DEF InOrder, Before
  <2>2. policy' = "writeThrough" => Flagged(d) = {}
    BY DEF Keeps, OwnInv, StateRight
  <2> QED
    BY <2>1, <2>2 DEF StateRight
<1>3. ASSUME NEW k \in Keys PROVE Shrinks(Here, d, k)
  BY <1>1, KeptShrinks DEF Keeps, Kept, Shrinks
<1>4. ASSUME NEW k \in Keys, \A s \in EntriesOf(c, k) : ~c.slot[s].dirty PROVE Kept(Here, d, k)
  <2>1. Kept(Here, c, k)
    BY DEF Keeps
  <2>2. ASSUME NEW v, Agrees(c, k, v) PROVE Agrees(d, k, v)
    <3>1. c.nvs[k] = v
      BY <1>4, <2>2 DEF Agrees
    <3> QED
      BY <1>1, <3>1 DEF Agrees
  <2> QED
    BY <1>1, <2>1, <2>2 DEF Kept
<1> QED
  BY <1>2, <1>3, <1>4, NoKeyLost

LEMMA OwnHit ==
  ASSUME TypeInv, OwnInv, NEW t \in Tasks, NEW k \in Keys, GetHit(t, k)
  PROVE  OwnInv'
<1> DEFINE s == Find(Here, k)
           d == Touch(Here, s)
<1>1. /\ s \in EntriesOf(Here, k) /\ Becomes(d) /\ Used(k)
      /\ UNCHANGED <<policy, pc, op, expected>>
  BY Found DEF GetHit, TypeInv, TableInv
<1>2. Fits(Here) /\ InOrder(Here, recent) /\ HistoryInv
  BY DEF TypeInv, TableInv, OwnInv, StateRight
<1> HIDE DEF s
<1>3. Own(k) => EntriesOf(Here, k) = {s}
  BY <1>1 DEF OwnInv, KeyRight
<1>4. s \in Valid(Here)
  BY <1>1 DEF EntriesOf
<1>5. Fits(d)
  BY <1>2, <1>4, Touched
<1>6. /\ Flagged(d) = Flagged(Here) /\ \A j \in Keys : Kept(Here, d, j)
  BY <1>2, <1>4, TouchKept
<1>7. Entered(Here, d, s, k)
  BY <1>1, <1>2, <1>3, TouchEntered
<1> HIDE DEF d
<1>8. InOrder(d, recent')
  BY <1>1, <1>2, <1>5, <1>7, OrderFront
<1>9. StateRight(d, recent', policy')
  BY <1>1, <1>6, <1>8 DEF StateRight, OwnInv
<1>10. Here' = d
  BY <1>1, <1>5, BecomesIs DEF Fits
<1> QED
  BY <1>1, <1>6, <1>9, <1>10, KeptShrinks, NoKeyLost

LEMMA OwnMiss ==
  ASSUME TypeInv, OwnInv, NEW t \in Tasks, NEW k \in Keys, GetMiss(t, k)
  PROVE  OwnInv'
<1> DEFINE o == [kind |-> "get", k |-> k, cached |-> registered]
<1>1. /\ Goto(t, "loading", o) /\ t \in UsersOf[k]
      /\ UNCHANGED <<cacheVars, nvs, policy, expected, recent>>
  BY DEF GetMiss
<1>2. o.k = k
  OBVIOUS
<1> HIDE DEF o
<1>3. EntriesOf(Here, k) = {}
  <2>1. registered => Find(Here, k) = NoSlot
    BY DEF GetMiss
  <2>2. ~registered => Valid(Here) = {}
    BY DEF TypeInv, TableInv
  <2> QED
    BY <2>1, <2>2, Found DEF TypeInv, TableInv, RestInv, EntriesOf
<1>4. Here' = Here
  BY <1>1, StaysIs
<1>5. /\ pc'[t] = "loading" /\ op'[t] = o
      /\ \A u \in Tasks : u # t => pc'[u] = pc[u] /\ op'[u] = op[u]
  BY <1>1, GotoCalls DEF TypeInv
<1>6. CallRight(Here, expected', "loading", o) /\ "loading" \in OwnPlaces
  BY <1>2, <1>3 DEF CallRight, OwnPlaces, KeyPlaces
<1>7. StateRight(Here, recent', policy')
  BY <1>1, StateStays
<1>8. KeyRight(Here, expected', k)
  BY <1>1 DEF OwnInv
<1>9. \A j \in Keys : Kept(Here, Here, j) /\ expected'[j] = expected[j]
  BY <1>1, KeptSelf
<1> QED
  BY <1>1, <1>4, <1>5, <1>6, <1>7, <1>8, <1>9, OneKey

LEMMA OwnLoad ==
  ASSUME TypeInv, OwnInv, NEW t \in Tasks, LoadMiss(t)
  PROVE  OwnInv'
<1> DEFINE k == op[t].k
           o == [kind |-> "get", k |-> k, val |-> nvs[k]]
<1>1. /\ pc[t] = "loading" /\ UNCHANGED <<cacheVars, nvs, policy, expected, recent>>
      /\ Goto(t, "inserting", o) \/ Return(t)
  BY DEF LoadMiss
<1>2. k \in Keys /\ t \in UsersOf[k]
  BY <1>1, KeyOfCall DEF KeyPlaces
<1>3. CallRight(Here, expected, "loading", op[t])
  BY <1>1 DEF OwnInv
<1>4. Own(k) => EntriesOf(Here, k) = {}
  BY <1>3 DEF CallRight, KeyPlaces
<1>5. o.k = k /\ o.val = Here.nvs[k]
  BY DEF Here
<1> HIDE DEF o, k
<1>6. Here' = Here
  BY <1>1, StaysIs
<1>7. /\ (pc'[t] = "inserting" /\ op'[t] = o) \/ pc'[t] = "idle"
      /\ \A u \in Tasks : u # t => pc'[u] = pc[u] /\ op'[u] = op[u]
  BY <1>1, GotoCalls DEF TypeInv, Return
<1>8. CallRight(Here, expected', "inserting", o) /\ "inserting" \in OwnPlaces
  BY <1>4, <1>5 DEF CallRight, OwnPlaces, KeyPlaces
<1>9. pc'[t] \in OwnPlaces /\ CallRight(Here, expected', pc'[t], op'[t])
  BY <1>7, <1>8, IdleIsRight
<1>10. StateRight(Here, recent', policy')
  BY <1>1, StateStays
<1>11. KeyRight(Here, expected', k)
  BY <1>1, <1>2 DEF OwnInv
<1>12. \A j \in Keys : Kept(Here, Here, j) /\ expected'[j] = expected[j]
  BY <1>1, KeptSelf
<1> QED
  BY <1>2, <1>6, <1>7, <1>9, <1>10, <1>11, <1>12, OneKey

LEMMA OwnInsert ==
  ASSUME TypeInv, OwnInv, NEW t \in Tasks, InsertLoaded(t)
  PROVE  OwnInv'
<1> DEFINE k == op[t].k
           v == op[t].val
<1>1. pc[t] = "inserting" /\ Return(t) /\ UNCHANGED <<policy, expected>>
  BY DEF InsertLoaded
<1>2. k \in Keys /\ t \in UsersOf[k] /\ v \in Data
  <2>1. op[t] \in InsertOps
    BY <1>1 DEF TypeInv, CallsInv, Locals
  <2> QED
    BY <1>1, <2>1, KeyOfCall DEF KeyPlaces, InsertOps, Data
<1>3. Own(k) => EntriesOf(Here, k) = {} /\ v = Here.nvs[k]
  <2>1. CallRight(Here, expected, "inserting", op[t])
    BY <1>1 DEF OwnInv
  <2> QED
    BY <2>1 DEF CallRight, KeyPlaces
<1>4. /\ pc'[t] = "idle" /\ \A u \in Tasks : u # t => pc'[u] = pc[u] /\ op'[u] = op[u]
  BY <1>1, GotoCalls DEF TypeInv, Return
<1>5. \/ UNCHANGED <<cacheVars, nvs, recent>>
      \/ \E a \in Allocate(Here) :
           IF a.s = NoSlot THEN Becomes(a.c) /\ UNCHANGED recent
           ELSE Becomes(Fill(a.c, a.s, k, v, FALSE)) /\ Used(k)
  BY DEF InsertLoaded
<1> HIDE DEF k, v
<1>6. Fits(Here) /\ InOrder(Here, recent) /\ HistoryInv
  BY DEF TypeInv, TableInv, OwnInv, StateRight
<1>7. CASE UNCHANGED <<cacheVars, nvs, recent>>
  <2>1. Here' = Here
    BY <1>7, StaysIs
  <2>2. StateRight(Here, recent', policy')
    BY <1>1, <1>7, StateStays
  <2> QED
    BY <1>1, <1>4, <2>1, <2>2, KeptSelf, KeptShrinks, NoKeyLost
<1>8. CASE \E a \in Allocate(Here) : a.s = NoSlot /\ Becomes(a.c) /\ UNCHANGED recent
  <2>1. PICK a \in Allocate(Here) : Becomes(a.c) /\ UNCHANGED recent
    BY <1>8
  <2>2. Keeps(Here, a.c)
    BY <1>6, Allocated, SameKeeps, EvictKeeps
  <2> QED
    BY <1>1, <1>4, <2>1, <2>2, KeepsOwn
<1>9. CASE \E a \in Allocate(Here) : a.s # NoSlot /\ Becomes(Fill(a.c, a.s, k, v, FALSE)) /\ Used(k)
  <2>1. PICK a \in Allocate(Here) : a.s # NoSlot /\ Becomes(Fill(a.c, a.s, k, v, FALSE)) /\ Used(k)
    BY <1>9
  <2> DEFINE c == a.c
             s == a.s
             d == Fill(c, s, k, v, FALSE)
  <2>2. Keeps(Here, c) /\ s \in Slots /\ s \notin Valid(c)
    BY <1>6, <2>1, Allocated, SameKeeps, EvictKeeps
  <2>3. Becomes(d) /\ Used(k)
    BY <2>1
  <2>4. Own(k) => EntriesOf(c, k) = {} /\ c.nvs[k] = v
    BY <1>2, <1>3, <2>2 DEF Keeps, Kept
  <2>5. Fits(c) /\ Flagged(c) \subseteq Flagged(Here)
    BY <2>2 DEF Keeps
  <2> HIDE DEF c, s
  <2>6. ASSUME NEW x \in BOOLEAN, x => c.slot[s].dirty, NEW f, f = Fill(c, s, k, v, x)
        PROVE  /\ Entered(c, f, s, k) /\ Fits(f) /\ Flagged(f) \subseteq Flagged(c)
               /\ f.nvs = c.nvs /\ f.slot[s].val = v
    BY <1>2, <2>2, <2>4, <2>5, <2>6, FillEntered
  <2>7. /\ Entered(c, d, s, k) /\ Fits(d) /\ Flagged(d) \subseteq Flagged(c)
        /\ d.nvs = c.nvs /\ d.slot[s].val = v
    BY <2>6
  <2> HIDE DEF d
  <2>8. Entered(Here, d, s, k)
    BY <2>2, <2>7, KeepsEntered
  <2>9. InOrder(d, recent')
    BY <1>2, <1>6, <2>3, <2>7, <2>8, OrderFront
  <2>10. StateRight(d, recent', policy')
    BY <1>1, <2>5, <2>7, <2>9 DEF StateRight, OwnInv
  <2>11. Here' = d
    BY <2>3, <2>7, BecomesIs DEF Fits
  <2>12. KeyRight(d, expected', k)
    <3>1. CASE Own(k)
      <4>1. EntriesOf(d, k) = {s}
        BY <2>8, <3>1 DEF Entered
      <4>2. expected[k] # Unknown => Here.nvs[k] = expected[k]
        BY <1>2, <1>3, <3>1 DEF OwnInv, KeyRight, Agrees
      <4>3. Here.nvs[k] = v /\ d.nvs[k] = v /\ d.slot[s].val = v
        BY <1>3, <2>4, <2>7, <3>1
      <4> QED
        BY <1>1, <3>1, <4>1, <4>2, <4>3 DEF KeyRight, Agrees
    <3>2. CASE ~Own(k)
      BY <1>1, <1>2, <3>2 DEF OwnInv, KeyRight
    <3> QED
      BY <3>1, <3>2
  <2>13. \A j \in Keys : j # k => Kept(Here, d, j) /\ expected'[j] = expected[j]
    BY <1>1, <2>8 DEF Entered
  <2> QED
    BY <1>2, <1>4, <2>10, <2>11, <2>12, <2>13, IdleIsRight, OneKey
<1> QED
  BY <1>5, <1>7, <1>8, <1>9

LEMMA OwnSet ==
  ASSUME TypeInv, OwnInv, NEW t \in Tasks, NEW k \in Keys, NEW v \in Values, SetEntry(t, k, v)
  PROVE  OwnInv'
<1>1. /\ pc[t] = "idle" /\ t \in UsersOf[k] /\ policy' = policy
      /\ Fits(Here) /\ InOrder(Here, recent) /\ HistoryInv
  BY DEF SetEntry, Idle, TypeInv, TableInv, OwnInv, StateRight
<1>2. PICK e \in EntryFor(k) :
        \/ /\ e.s = NoSlot
           /\ Becomes(e.c)
           /\ UNCHANGED <<pc, op, expected, recent>>
        \/ /\ e.s # NoSlot /\ MemFaults
           /\ Becomes([e.c EXCEPT !.slot[e.s].val = NoData])
           /\ Expect(k, Unknown) /\ Used(k)
           /\ UNCHANGED <<pc, op>>
        \/ /\ e.s # NoSlot /\ policy = "writeThrough"
           /\ Becomes([e.c EXCEPT !.slot[e.s].val = v])
           /\ Goto(t, "writing", [kind |-> "set", k |-> k, val |-> v])
           /\ Expect(k, Unknown) /\ Used(k)
        \/ /\ e.s # NoSlot /\ policy = "writeBack"
           /\ Becomes(MarkDirty([e.c EXCEPT !.slot[e.s].val = v], e.s))
           /\ Expect(k, v) /\ Used(k)
           /\ UNCHANGED <<pc, op>>
  BY DEF SetEntry
<1>3. Own(k) => \A s, r \in EntriesOf(Here, k) : s = r
  BY DEF OwnInv, KeyRight
<1> DEFINE c == e.c
           s == e.s
<1>4. \/ s = NoSlot /\ Keeps(Here, c)
      \/ /\ s # NoSlot /\ s \in Slots /\ Fits(c)
         /\ Flagged(c) \subseteq Flagged(Here) /\ Entered(Here, c, s, k)
  BY <1>1, <1>3, EntryForOwn
<1>5. ASSUME NEW d, Fits(d), policy = "writeThrough" => Flagged(d) = {},
             Entered(Here, d, s, k), Becomes(d), NEW x, Expect(k, x), Used(k),
             x # Unknown /\ Own(k) => d.slot[s].val = x /\ d.slot[s].dirty,
             \A u \in Tasks : u # t => pc'[u] = pc[u] /\ op'[u] = op[u],
             pc'[t] \in OwnPlaces, CallRight(d, expected', pc'[t], op'[t])
      PROVE  OwnInv'
  <2>1. InOrder(d, recent')
    BY <1>1, <1>5, OrderFront
  <2>2. StateRight(d, recent', policy')
    BY <1>1, <1>5, <2>1 DEF StateRight
  <2>3. Here' = d
    BY <1>5, BecomesIs DEF Fits
  <2>4. /\ expected'[k] = IF Own(k) THEN x ELSE Unknown
        /\ \A j \in Keys : j # k => expected'[j] = expected[j]
    BY <1>1, <1>5, ExpectIs
  <2>5. KeyRight(d, expected', k)
    <3>1. CASE Own(k)
      <4>1. EntriesOf(d, k) = {s}
        BY <1>5, <3>1 DEF Entered
      <4> QED
        BY <1>5, <2>4, <3>1, <4>1 DEF KeyRight, Agrees
    <3>2. CASE ~Own(k)
      BY <2>4, <3>2 DEF KeyRight
    <3> QED
      BY <3>1, <3>2
  <2>6. \A j \in Keys : j # k => Kept(Here, d, j) /\ expected'[j] = expected[j]
    BY <1>5, <2>4 DEF Entered
  <2> QED
    BY <1>1, <1>5, <2>2, <2>3, <2>5, <2>6, OneKey
<1>6. policy = "writeThrough" => Flagged(Here) = {}
  BY DEF OwnInv, StateRight
<1>7. \A d : "idle" \in OwnPlaces /\ CallRight(d, expected', "idle", op'[t])
  BY IdleIsRight
<1>8. CASE /\ e.s = NoSlot
           /\ Becomes(e.c)
           /\ UNCHANGED <<pc, op, expected, recent>>
  <2>1. Keeps(Here, e.c)
    BY <1>4, <1>8
  <2> QED
    BY <1>1, <1>8, <2>1, KeepsOwn
<1>9. CASE /\ e.s # NoSlot /\ MemFaults
           /\ Becomes([e.c EXCEPT !.slot[e.s].val = NoData])
           /\ Expect(k, Unknown) /\ Used(k)
           /\ UNCHANGED <<pc, op>>
  <2> DEFINE d == [c EXCEPT !.slot[s].val = NoData]
  <2>1. Becomes(d) /\ Expect(k, Unknown) /\ Used(k) /\ pc' = pc /\ op' = op
    BY <1>9
  <2>2. /\ s \in Slots /\ Fits(c) /\ Flagged(c) \subseteq Flagged(Here)
        /\ Entered(Here, c, s, k) /\ NoData \in Data
    BY <1>4, <1>9 DEF Data
  <2> HIDE DEF c, s
  <2>3. Fits(d) /\ Flagged(d) = Flagged(c) /\ Entered(Here, d, s, k)
    BY <2>2, CopiedOwn
  <2> HIDE DEF d
  <2>4. policy = "writeThrough" => Flagged(d) = {}
    BY <1>6, <2>2, <2>3
  <2>5. pc'[t] \in OwnPlaces /\ CallRight(d, expected', pc'[t], op'[t])
    BY <1>1, <1>7, <2>1
  <2> QED
    BY <1>5, <2>1, <2>3, <2>4, <2>5
<1>10. CASE /\ e.s # NoSlot /\ policy = "writeThrough"
            /\ Becomes([e.c EXCEPT !.slot[e.s].val = v])
            /\ Goto(t, "writing", [kind |-> "set", k |-> k, val |-> v])
            /\ Expect(k, Unknown) /\ Used(k)
  <2> DEFINE d == [c EXCEPT !.slot[s].val = v]
             o == [kind |-> "set", k |-> k, val |-> v]
  <2>1. Becomes(d) /\ Expect(k, Unknown) /\ Used(k) /\ Goto(t, "writing", o)
    BY <1>10
  <2>2. /\ s \in Slots /\ Fits(c) /\ Flagged(c) \subseteq Flagged(Here)
        /\ Entered(Here, c, s, k) /\ v \in Data
    BY <1>4, <1>10 DEF Data
  <2>3. o.k = k /\ o.val = v
    OBVIOUS
  <2> HIDE DEF c, s, o
  <2>4. /\ Fits(d) /\ Flagged(d) = Flagged(c) /\ Entered(Here, d, s, k)
        /\ d.slot[s].val = v
    BY <2>2, CopiedOwn
  <2> HIDE DEF d
  <2>5. policy = "writeThrough" => Flagged(d) = {}
    BY <1>6, <2>2, <2>4
  <2>6. /\ pc'[t] = "writing" /\ op'[t] = o
        /\ \A u \in Tasks : u # t => pc'[u] = pc[u] /\ op'[u] = op[u]
    BY <2>1, GotoCalls DEF TypeInv
  <2>7. Own(k) => expected'[k] = Unknown /\ EntriesOf(d, k) = {s}
    BY <1>1, <2>1, <2>4, ExpectIs DEF Entered
  <2>8. "writing" \in OwnPlaces /\ CallRight(d, expected', "writing", o)
    BY <2>3, <2>4, <2>7 DEF CallRight, OwnPlaces, KeyPlaces
  <2> QED
    BY <1>5, <2>1, <2>4, <2>5, <2>6, <2>8
<1>11. CASE /\ e.s # NoSlot /\ policy = "writeBack"
            /\ Becomes(MarkDirty([e.c EXCEPT !.slot[e.s].val = v], e.s))
            /\ Expect(k, v) /\ Used(k)
            /\ UNCHANGED <<pc, op>>
  <2> DEFINE f == [c EXCEPT !.slot[s].val = v]
             d == MarkDirty(f, s)
  <2>1. Becomes(d) /\ Expect(k, v) /\ Used(k) /\ pc' = pc /\ op' = op /\ policy # "writeThrough"
    BY <1>11
  <2>2. /\ s \in Slots /\ Fits(c) /\ Entered(Here, c, s, k) /\ v \in Data
    BY <1>4, <1>11 DEF Data
  <2> HIDE DEF c, s
  <2>3. Fits(f) /\ Entered(Here, f, s, k) /\ f.slot[s].val = v
    BY <2>2, CopiedOwn
  <2> HIDE DEF f
  <2>4. /\ Fits(d) /\ Entered(Here, d, s, k)
        /\ d.slot[s].dirty /\ d.slot[s].val = v
    BY <2>2, <2>3, MarkedOwn
  <2> HIDE DEF d
  <2>5. pc'[t] \in OwnPlaces /\ CallRight(d, expected', pc'[t], op'[t])
    BY <1>1, <1>7, <2>1
  <2> QED
    BY <1>5, <2>1, <2>4, <2>5
<1> QED
  BY <1>2, <1>8, <1>9, <1>10, <1>11

LEMMA OwnUncached ==
  ASSUME TypeInv, OwnInv, NEW t \in Tasks, NEW k \in Keys, NEW v \in Values, SetUncached(t, k, v)
  PROVE  OwnInv'
<1> DEFINE o == [kind |-> "set", k |-> k, val |-> v]
<1>1. /\ Goto(t, "writing", o) /\ t \in UsersOf[k] /\ Expect(k, Unknown) /\ ~registered
      /\ UNCHANGED <<cacheVars, nvs, policy, recent>>
  BY DEF SetUncached
<1>2. o.k = k
  OBVIOUS
<1> HIDE DEF o
<1>3. \A j \in Keys : EntriesOf(Here, j) = {}
  BY <1>1 DEF TypeInv, TableInv, EntriesOf
<1>4. Here' = Here
  BY <1>1, StaysIs
<1>5. /\ pc'[t] = "writing" /\ op'[t] = o
      /\ \A u \in Tasks : u # t => pc'[u] = pc[u] /\ op'[u] = op[u]
  BY <1>1, GotoCalls DEF TypeInv
<1>6. expected'[k] = Unknown /\ \A j \in Keys : j # k => expected'[j] = expected[j]
  BY <1>1, ExpectIs DEF TypeInv
<1>7. CallRight(Here, expected', "writing", o) /\ "writing" \in OwnPlaces
  BY <1>2, <1>3, <1>6 DEF CallRight, OwnPlaces, KeyPlaces
<1>8. StateRight(Here, recent', policy')
  BY <1>1, StateStays
<1>9. KeyRight(Here, expected', k)
  BY <1>3, <1>6 DEF KeyRight
<1>10. \A j \in Keys : j # k => Kept(Here, Here, j) /\ expected'[j] = expected[j]
  BY <1>6, KeptSelf
<1> QED
  BY <1>1, <1>4, <1>5, <1>7, <1>8, <1>9, <1>10, OneKey

(* The answer of a storage call that set or removed a key. *)
LEMMA StoredOwn ==
  ASSUME TypeInv, OwnInv, NEW t \in Tasks, NEW k \in Keys, t \in UsersOf[k],
         NEW x \in Stock, NEW end, nvs' = Stored(nvs, end, k, x), Return(t),
         UNCHANGED <<cacheVars, policy, recent>>, NEW v, Expect(k, v),
         v # Unknown /\ Own(k) =>
           end # "failed" /\ v = x /\ \A s \in EntriesOf(Here, k) : Here.slot[s].val = x
  PROVE  OwnInv'
<1> DEFINE n == Stored(nvs, end, k, x)
           d == [Here EXCEPT !.nvs = n]
<1>1. Here' = d
  BY DEF Here, cacheVars
<1>2. Here \in CacheStates /\ nvs \in [Keys -> Stock]
  BY StateFields DEF TypeInv, TableInv, Fits, Here
<1>3. /\ d.slot = Here.slot /\ d.lru = Here.lru /\ d.dirtyCount = Here.dirtyCount /\ d.nvs = n
      /\ Here.nvs = nvs
  BY DEF Here
<1>4. (\A j \in Keys : j # k => n[j] = nvs[j]) /\ (end # "failed" => n[k] = x)
  BY <1>2 DEF Stored
<1> HIDE DEF d, n
<1>5. Valid(d) = Valid(Here) /\ Flagged(d) = Flagged(Here)
  BY <1>3 DEF Valid, Flagged
<1>6. \A j \in Keys : EntriesOf(d, j) = EntriesOf(Here, j)
  BY <1>3, <1>5 DEF EntriesOf
<1>7. StateRight(d, recent', policy')
  BY <1>3, <1>5 DEF OwnInv, StateRight, InOrder
<1>8. \A j \in Keys : j # k => Kept(Here, d, j)
  BY <1>3, <1>4, <1>6, SameKept
<1>9. /\ expected'[k] = IF Own(k) THEN v ELSE Unknown
      /\ \A j \in Keys : j # k => expected'[j] = expected[j]
  BY ExpectIs DEF TypeInv
<1>10. KeyRight(d, expected', k)
  <2>1. CASE Own(k)
    <3>1. \A s, r \in EntriesOf(d, k) : s = r
      BY <1>6, <2>1 DEF OwnInv, KeyRight
    <3>2. v # Unknown => Agrees(d, k, v)
      BY <1>3, <1>4, <1>6, <2>1 DEF Agrees
    <3> QED
      BY <1>9, <2>1, <3>1, <3>2 DEF KeyRight
  <2>2. CASE ~Own(k)
    BY <1>9, <2>2 DEF KeyRight
  <2> QED
    BY <2>1, <2>2
<1>11. pc'[t] = "idle" /\ \A u \in Tasks : u # t => pc'[u] = pc[u] /\ op'[u] = op[u]
  BY GotoCalls DEF TypeInv, Return
<1> QED
  BY <1>1, <1>7, <1>8, <1>9, <1>10, <1>11, IdleIsRight, OneKey

LEMMA OwnWrite ==
  ASSUME TypeInv, OwnInv, NEW t \in Tasks, WriteThrough(t)
  PROVE  OwnInv'
<1> DEFINE k == op[t].k
           x == op[t].val
<1>1. /\ pc[t] = "writing" /\ Return(t) /\ UNCHANGED <<cacheVars, policy, recent>>
      /\ \E end \in DaoEnds : /\ nvs' = Stored(nvs, end, k, x)
                              /\ Expect(k, IF end = "ok" THEN x ELSE Unknown)
  BY DEF WriteThrough
<1>2. k \in Keys /\ t \in UsersOf[k] /\ x \in Stock
  <2>1. op[t] \in WriteOps
    BY <1>1 DEF TypeInv, CallsInv, Locals
  <2> QED
    BY <1>1, <2>1, KeyOfCall DEF KeyPlaces, WriteOps, Stock
<1>3. Own(k) => \A s \in EntriesOf(Here, k) : Here.slot[s].val = x
  <2>1. CallRight(Here, expected, "writing", op[t])
    BY <1>1 DEF OwnInv
  <2> QED
    BY <2>1 DEF CallRight, KeyPlaces
<1> HIDE DEF k, x
<1>4. PICK end \in DaoEnds : /\ nvs' = Stored(nvs, end, k, x)
                             /\ Expect(k, IF end = "ok" THEN x ELSE Unknown)
  BY <1>1
<1> DEFINE v == IF end = "ok" THEN x ELSE Unknown
<1>5. v # Unknown /\ Own(k) =>
        end # "failed" /\ v = x /\ \A s \in EntriesOf(Here, k) : Here.slot[s].val = x
  BY <1>3
<1>6. Expect(k, v)
  BY <1>4
<1> HIDE DEF v
<1> QED
  BY <1>1, <1>2, <1>4, <1>5, <1>6, StoredOwn

LEMMA OwnRemove ==
  ASSUME TypeInv, OwnInv, NEW t \in Tasks, RemoveStored(t)
  PROVE  OwnInv'
<1> DEFINE k == op[t].k
<1>1. /\ pc[t] = "removing" /\ Return(t) /\ UNCHANGED <<cacheVars, policy, recent>>
      /\ \E end \in DaoEnds : /\ nvs' = Stored(nvs, end, k, Absent)
                              /\ Expect(k, IF end = "ok" THEN Absent ELSE Unknown)
  BY DEF RemoveStored
<1>2. k \in Keys /\ t \in UsersOf[k] /\ Absent \in Stock
  BY <1>1, KeyOfCall DEF KeyPlaces, Stock
<1>3. Own(k) => EntriesOf(Here, k) = {}
  <2>1. CallRight(Here, expected, "removing", op[t])
    BY <1>1 DEF OwnInv
  <2> QED
    BY <2>1 DEF CallRight, KeyPlaces
<1> HIDE DEF k
<1>4. PICK end \in DaoEnds : /\ nvs' = Stored(nvs, end, k, Absent)
                             /\ Expect(k, IF end = "ok" THEN Absent ELSE Unknown)
  BY <1>1
<1> DEFINE v == IF end = "ok" THEN Absent ELSE Unknown
<1>5. v # Unknown /\ Own(k) =>
        end # "failed" /\ v = Absent /\ \A s \in EntriesOf(Here, k) : Here.slot[s].val = Absent
  BY <1>3
<1>6. Expect(k, v)
  BY <1>4
<1> HIDE DEF v
<1> QED
  BY <1>1, <1>2, <1>4, <1>5, <1>6, StoredOwn

LEMMA DropKept ==
  ASSUME NEW c, Fits(c), NEW k, NEW s \in EntriesOf(c, k)
  PROVE  /\ Fits(Drop(c, s)) /\ Flagged(Drop(c, s)) \subseteq Flagged(c)
         /\ Ordered(c, Drop(c, s))
         /\ \A j \in Keys : j # k => Kept(c, Drop(c, s), j)
         /\ k \in Keys => EntriesOf(Drop(c, s), k) = EntriesOf(c, k) \ {s}
<1> DEFINE d == Drop(c, s)
<1>0. s \in Valid(c) /\ c.slot[s].key = k /\ Valid(c) \subseteq Slots
  BY DEF EntriesOf, Valid
<1>1. /\ Fits(d) /\ Valid(d) = Valid(c) \ {s} /\ \A r \in Slots : r # s => d.slot[r] = c.slot[r]
      /\ ~d.slot[s].dirty /\ d.nvs = c.nvs /\ d.lru = Without(c.lru, s)
      /\ d.dirtyCount = IF c.slot[s].dirty THEN Lower(c.dirtyCount) ELSE c.dirtyCount
  BY <1>0, Dropped
<1> HIDE DEF d
<1>2. Flagged(d) \subseteq Flagged(c)
  BY <1>1 DEF Flagged
<1>5. Ordered(c, d)
  BY <1>0, <1>1, DetachOrdered
<1>6. /\ \A j \in Keys : j # k => Kept(c, d, j)
      /\ \A j \in Keys : EntriesOf(d, j) = EntriesOf(c, j) \ {s}
  BY <1>0, <1>1, DetachKept
<1> QED
  BY <1>1, <1>2, <1>5, <1>6 DEF d

LEMMA OwnDelete ==
  ASSUME TypeInv, OwnInv, NEW t \in Tasks, NEW k \in Keys, DeleteEntry(t, k)
  PROVE  OwnInv'
<1> DEFINE o == [kind |-> "delete", k |-> k]
           s == Find(Here, k)
<1>1. /\ t \in UsersOf[k] /\ Goto(t, "removing", o) /\ Expect(k, Unknown)
      /\ policy' = policy /\ recent' = recent
      /\ \/ s # NoSlot /\ Becomes(Drop(Here, s))
         \/ (~registered \/ s = NoSlot) /\ UNCHANGED <<cacheVars, nvs>>
  BY DEF DeleteEntry
<1>2. o.k = k
  OBVIOUS
<1>3. Fits(Here) /\ InOrder(Here, recent)
      /\ (policy = "writeThrough" => Flagged(Here) = {})
  BY DEF TypeInv, TableInv, OwnInv, StateRight
<1>4. (s # NoSlot => s \in EntriesOf(Here, k)) /\ (s = NoSlot => EntriesOf(Here, k) = {})
  BY <1>3, Found
<1>5. ~registered => EntriesOf(Here, k) = {}
  BY DEF TypeInv, TableInv, EntriesOf
<1>6. Own(k) => \A r, q \in EntriesOf(Here, k) : r = q
  BY DEF OwnInv, KeyRight
<1>7. expected'[k] = Unknown /\ \A j \in Keys : j # k => expected'[j] = expected[j]
  BY <1>1, ExpectIs DEF TypeInv
<1>8. /\ pc'[t] = "removing" /\ op'[t] = o
      /\ \A u \in Tasks : u # t => pc'[u] = pc[u] /\ op'[u] = op[u]
  BY <1>1, GotoCalls DEF TypeInv
<1> HIDE DEF o, s
<1>9. ASSUME NEW d, Here' = d, StateRight(d, recent', policy'),
             \A j \in Keys : j # k => Kept(Here, d, j), Own(k) => EntriesOf(d, k) = {}
      PROVE  OwnInv'
  <2>1. CallRight(d, expected', "removing", o) /\ "removing" \in OwnPlaces
    BY <1>2, <1>7, <1>9 DEF CallRight, OwnPlaces, KeyPlaces
  <2>2. KeyRight(d, expected', k)
    BY <1>7, <1>9 DEF KeyRight
  <2> QED
    BY <1>1, <1>7, <1>8, <1>9, <2>1, <2>2, OneKey
<1>10. CASE s # NoSlot /\ Becomes(Drop(Here, s))
  <2> DEFINE d == Drop(Here, s)
  <2>1. /\ Fits(d) /\ Flagged(d) \subseteq Flagged(Here)
        /\ Ordered(Here, d) /\ \A j \in Keys : j # k => Kept(Here, d, j)
        /\ EntriesOf(d, k) = EntriesOf(Here, k) \ {s}
    BY <1>3, <1>4, <1>10, DropKept
  <2>2. Becomes(d)
    BY <1>10
  <2> HIDE DEF d
  <2>3. Here' = d
    BY <2>1, <2>2, BecomesIs DEF Fits
  <2>4. InOrder(d, recent)
    BY <1>3, <2>1, OrderKept
  <2>5. StateRight(d, recent', policy')
    BY <1>1, <1>3, <2>1, <2>4 DEF StateRight
  <2>6. Own(k) => EntriesOf(d, k) = {}
    BY <1>4, <1>6, <1>10, <2>1
  <2> QED
    BY <1>9, <2>1, <2>3, <2>5, <2>6
<1>11. CASE (~registered \/ s = NoSlot) /\ UNCHANGED <<cacheVars, nvs>>
  <2>1. Here' = Here
    BY <1>11, StaysIs
  <2>2. StateRight(Here, recent', policy')
    BY <1>1, StateStays
  <2>3. EntriesOf(Here, k) = {}
    BY <1>4, <1>5, <1>11
  <2>4. \A j \in Keys : j # k => Kept(Here, Here, j)
    BY KeptSelf
  <2> QED
    BY <1>9, <2>1, <2>2, <2>3, <2>4
<1> QED
  BY <1>1, <1>10, <1>11

LEMMA OwnFlush ==
  ASSUME TypeInv, OwnInv, NEW t \in Tasks, Flush(t)
  PROVE  OwnInv'
<1>1. PICK ends \in FlushOutcomes(Here) : Becomes(FlushLoop(Here, ends))
  BY DEF Flush
<1> DEFINE d == FlushLoop(Here, ends)
<1>2. Keeps(Here, d)
  BY LoopKeeps DEF TypeInv, TableInv, OwnInv, StateRight
<1>3. Becomes(d) /\ UNCHANGED <<policy, recent, expected, pc, op>>
  BY <1>1 DEF Flush
<1> HIDE DEF d
<1> QED
  BY <1>2, <1>3, KeepsOwn

(* One entry goes, whether or not its flush worked.                         *)
LEMMA OwnInvalidateKey ==
  ASSUME TypeInv, OwnInv, NEW t \in Tasks, NEW k \in Keys, InvalidateKey(t, k)
  PROVE  OwnInv'
<1> DEFINE s == Find(Here, k)
<1>1. /\ s # NoSlot /\ UNCHANGED <<policy, pc, op, recent>>
      /\ \/ ~slot[s].dirty /\ Becomes(Detach(Here, s)) /\ UNCHANGED expected
         \/ /\ slot[s].dirty
            /\ \E end \in FlushEnds(slot[s]) :
                 /\ Becomes(Detach(FlushEntry(Here, s, end), s))
                 /\ Forget(IF end = "ok" THEN {} ELSE {k})
  BY DEF InvalidateKey
<1>2. Fits(Here) /\ Here.slot = slot
  BY DEF TypeInv, TableInv, Here
<1>3. s \in Valid(Here) /\ Here.slot[s].key = k
  BY <1>1, <1>2, Found DEF EntriesOf
<1> HIDE DEF s
<1>4. CASE ~slot[s].dirty /\ Becomes(Detach(Here, s)) /\ UNCHANGED expected
  <2> DEFINE d == Detach(Here, s)
  <2>1. Keeps(Here, d)
    BY <1>2, <1>3, <1>4, DetachKeeps
  <2>2. Becomes(d)
    BY <1>4
  <2> HIDE DEF d
  <2> QED
    BY <1>1, <1>4, <2>1, <2>2, KeepsOwn
<1>5. ASSUME slot[s].dirty, NEW end \in FlushEnds(slot[s]),
             Becomes(Detach(FlushEntry(Here, s, end), s)),
             Forget(IF end = "ok" THEN {} ELSE {k})
      PROVE  OwnInv'
  <2> DEFINE c == FlushEntry(Here, s, end)
             d == Detach(c, s)
  <2>a. end \in FlushEnds(Here.slot[s]) /\ Here.slot[s].dirty
    BY <1>2, <1>5
  <2>1. Keeps(Here, c) /\ (end = "ok" => ~c.slot[s].dirty)
    BY <1>2, <1>3, <2>a, FlushKeeps
  <2>2. Valid(c) = Valid(Here) /\ c.slot[s].key = k
    BY <1>2, <1>3, <2>a, FlushStays
  <2>3. Becomes(d)
    BY <1>5
  <2>4. Fits(c) /\ s \in Valid(c)
    BY <1>3, <2>1, <2>2 DEF Keeps
  <2> HIDE DEF c
  <2>5. /\ Fits(d) /\ Valid(d) = Valid(c) \ {s}
        /\ \A r \in Slots : r # s => d.slot[r] = c.slot[r]
        /\ d.slot[s].dirty = c.slot[s].dirty
        /\ d.nvs = c.nvs /\ d.lru = Without(c.lru, s)
    BY <2>4, Detached
  <2> HIDE DEF d
  <2>6. Here' = d
    BY <2>3, <2>5, BecomesIs DEF Fits
  <2>7. Flagged(d) \subseteq Flagged(Here)
    BY <2>1, <2>5 DEF Flagged, Keeps
  <2>8. Ordered(c, d)
    BY <2>4, <2>5, DetachOrdered
  <2>9. InOrder(d, recent)
    <3>1. InOrder(c, recent)
      BY <2>1, <2>4, OrderKept DEF OwnInv, StateRight, Keeps
    <3> QED
      BY <2>5, <2>8, <3>1, OrderKept
  <2>10. StateRight(d, recent', policy')
    BY <1>1, <2>7, <2>9 DEF StateRight, OwnInv
  <2>11. \A j \in Keys : EntriesOf(d, j) = EntriesOf(c, j) \ {s}
    BY <2>4, <2>5, DetachKept
  <2>12. ASSUME NEW j \in Keys PROVE Shrinks(Here, d, j)
    <3>1. Shrinks(Here, c, j)
      BY <2>1, KeptShrinks DEF Keeps
    <3>2. \A r \in EntriesOf(d, j) : r # s /\ r \in Slots
      BY <2>11 DEF EntriesOf, Valid
    <3> QED
      BY <2>5, <2>11, <3>1, <3>2 DEF Shrinks
  <2>13. ASSUME NEW j \in Keys
         PROVE  \/ expected'[j] = Unknown
                \/ Kept(Here, d, j) /\ expected'[j] = expected[j]
    <3>1. expected'[j] = IF end # "ok" /\ j = k THEN Unknown ELSE expected[j]
      BY <1>5 DEF Forget
    <3>2. end = "ok" \/ j # k => Kept(c, d, j)
      BY <2>1, <2>2, <2>4, <2>5, DetachKept
    <3>3. Kept(Here, c, j)
      BY <2>1 DEF Keeps
    <3> QED
      BY <3>1, <3>2, <3>3, KeptTwice
  <2> QED
    BY <1>1, <2>6, <2>10, <2>12, <2>13, NoKeyLost
<1> QED
  BY <1>1, <1>4, <1>5

(* After the flush of all entries, those still marked are those whose write *)
(* failed.                                                                  *)
LEMMA LoopLeaves ==
  ASSUME TypeInv, NEW ends \in FlushOutcomes(Here), NEW k \in Keys,
         NEW s \in EntriesOf(FlushLoop(Here, ends), k), FlushLoop(Here, ends).slot[s].dirty
  PROVE  k \in Unwritten(ends)
<1> DEFINE c == FlushLoop(Here, ends)
<1>1. Fits(Here) /\ Here.slot = slot /\ DOMAIN Here.slot = Slots
  BY StateFields DEF TypeInv, TableInv, Fits, Here
<1>2. /\ Valid(c) = Valid(Here)
      /\ \A r \in Slots : c.slot[r] = [Here.slot[r] EXCEPT !.dirty = Here.slot[r].dirty /\ r \notin Done(ends)]
  BY <1>1, LoopFlushed
<1>3. s \in Valid(c) /\ c.slot[s].key = k /\ c.slot[s].dirty
  BY DEF EntriesOf
<1> HIDE DEF c
<1>4. s \in Slots /\ s \in Valid(Here)
  BY <1>2, <1>3 DEF Valid
<1>5. Here.slot[s] \in Entries
  BY <1>1, <1>4, StateFields DEF Fits
<1> DEFINE flag == Here.slot[s].dirty /\ s \notin Done(ends)
<1>6. c.slot[s] = [Here.slot[s] EXCEPT !.dirty = flag]
  BY <1>2, <1>4
<1> HIDE DEF flag
<1>7. c.slot[s].key = Here.slot[s].key /\ c.slot[s].dirty = flag
  BY <1>5, <1>6 DEF Entries
<1>8. Here.slot[s].dirty /\ s \notin Done(ends)
  BY <1>3, <1>7, Zenon DEF flag
<1>9. s \in DirtySlots(Here)
  BY <1>1, <1>4, <1>8 DEF DirtySlots, Valid
<1>10. s \in DOMAIN ends /\ ends[s] # "ok"
  BY <1>8, <1>9 DEF FlushOutcomes, Done
<1> QED
  BY <1>1, <1>3, <1>7, <1>10 DEF Unwritten

(* The namespace is emptied after a flush, with the flags in keep. *)
LEMMA FlushedGone ==
  ASSUME TypeInv, OwnInv, NEW ends \in FlushOutcomes(Here), NEW keep \in [Slots -> BOOLEAN],
         \A s \in Slots : keep[s] => FlushLoop(Here, ends).slot[s].dirty,
         Becomes(Emptied(FlushLoop(Here, ends), keep)), Forget(Unwritten(ends)),
         UNCHANGED <<policy, pc, op>>
  PROVE  OwnInv'
<1> DEFINE c == FlushLoop(Here, ends)
           d == Emptied(c, keep)
<1>1. Keeps(Here, c)
  BY LoopKeeps DEF TypeInv, TableInv
<1>2. Becomes(d) /\ \A s \in Slots : keep[s] => c.slot[s].dirty
  OBVIOUS
<1>3. ASSUME NEW k \in Keys
      PROVE  \/ expected'[k] = Unknown
             \/ expected'[k] = expected[k] /\ \A s \in EntriesOf(c, k) : ~c.slot[s].dirty
  <2>1. expected'[k] = IF k \in Unwritten(ends) THEN Unknown ELSE expected[k]
    BY DEF Forget
  <2> QED
    BY <2>1, LoopLeaves
<1>4. Fits(c)
  BY <1>1 DEF Keeps
<1> HIDE DEF c
<1>5. /\ Fits(d) /\ Valid(d) = {} /\ d.nvs = c.nvs /\ d.lru = <<>>
      /\ \A s \in Slots : d.slot[s].dirty = keep[s]
  BY <1>4, EmptiedFits
<1> HIDE DEF d
<1>6. Flagged(d) \subseteq Flagged(c)
  BY <1>2, <1>5 DEF Flagged
<1>7. Here' = d
  BY <1>2, <1>5, BecomesIs DEF Fits
<1> QED
  BY <1>1, <1>3, <1>5, <1>6, <1>7, GoneOwn

LEMMA OwnInvalidateAll ==
  ASSUME TypeInv, OwnInv, NEW t \in Tasks, InvalidateAll(t)
  PROVE  OwnInv'
<1>1. PICK ends \in FlushOutcomes(Here) :
        /\ Becomes(Emptied(FlushLoop(Here, ends), Flags(FlushLoop(Here, ends))))
        /\ Forget(Unwritten(ends))
  BY DEF InvalidateAll
<1> DEFINE keep == Flags(FlushLoop(Here, ends))
<1>2. keep \in [Slots -> BOOLEAN] /\ \A s \in Slots : keep[s] => FlushLoop(Here, ends).slot[s].dirty
  <2>1. FlushLoop(Here, ends).slot \in [Slots -> Entries]
    BY LoopFlushed, StateFields DEF TypeInv, TableInv, Fits
  <2>2. \A s \in Slots : FlushLoop(Here, ends).slot[s].dirty \in BOOLEAN
    BY <2>1 DEF Entries
  <2> QED
    BY <2>2 DEF Flags
<1>3. Becomes(Emptied(FlushLoop(Here, ends), keep)) /\ UNCHANGED <<policy, pc, op>>
  BY <1>1 DEF InvalidateAll
<1> HIDE DEF keep
<1> QED
  BY <1>1, <1>2, <1>3, FlushedGone

LEMMA OwnUnregister ==
  ASSUME TypeInv, OwnInv, Unregister
  PROVE  OwnInv'
<1> DEFINE keep == [s \in Slots |-> FALSE]
<1>1. PICK ends \in FlushOutcomes(Here) :
        /\ Becomes(Emptied(FlushLoop(Here, ends), keep))
        /\ Forget(Unwritten(ends))
  BY DEF Unregister
<1>2. keep \in [Slots -> BOOLEAN] /\ \A s \in Slots : ~keep[s]
  OBVIOUS
<1>3. UNCHANGED <<policy, pc, op>>
  BY DEF Unregister
<1> HIDE DEF keep
<1> QED
  BY <1>1, <1>2, <1>3, FlushedGone

(* What is dirty is dropped unwritten. *)
LEMMA DirtyForgotten ==
  ASSUME TypeInv, Forget({slot[s].key : s \in DirtySlots(Here)}), NEW k \in Keys
  PROVE  \/ expected'[k] = Unknown
         \/ expected'[k] = expected[k] /\ \A s \in EntriesOf(Here, k) : ~Here.slot[s].dirty
<1> DEFINE S == {slot[s].key : s \in DirtySlots(Here)}
<1>1. Here.slot = slot /\ DOMAIN Here.slot = Slots
  BY StateFields DEF TypeInv, TableInv, Fits, Here
<1>2. expected'[k] = IF k \in S THEN Unknown ELSE expected[k]
  BY DEF Forget
<1>3. ASSUME NEW s \in EntriesOf(Here, k), Here.slot[s].dirty PROVE k \in S
  <2>1. s \in DirtySlots(Here) /\ slot[s].key = k
    BY <1>1, <1>3 DEF DirtySlots, EntriesOf, Valid
  <2> QED
    BY <2>1
<1> QED
  BY <1>2, <1>3

LEMMA OwnClear ==
  ASSUME TypeInv, OwnInv, NEW t \in Tasks, Clear(t)
  PROVE  OwnInv'
<1> DEFINE keep == [s \in Slots |-> slot[s].dirty /\ ~slot[s].valid]
           d == Emptied(Here, keep)
<1>1. /\ Becomes(d) /\ Forget({slot[s].key : s \in DirtySlots(Here)})
      /\ UNCHANGED <<policy, pc, op>>
  BY DEF Clear
<1>2. keep \in [Slots -> BOOLEAN] /\ \A s \in Slots : keep[s] => Here.slot[s].dirty
  <2>1. \A s \in Slots : keep[s] \in BOOLEAN /\ (keep[s] => slot[s].dirty)
    OBVIOUS
  <2>2. Here.slot = slot
    BY DEF Here
  <2> QED
    BY <2>1, <2>2
<1>3. Fits(Here) /\ Keeps(Here, Here)
  BY SameKeeps DEF TypeInv, TableInv
<1> HIDE DEF keep
<1>4. /\ Fits(d) /\ Valid(d) = {} /\ d.nvs = Here.nvs /\ d.lru = <<>>
      /\ \A s \in Slots : d.slot[s].dirty = keep[s]
  BY <1>2, <1>3, EmptiedFits
<1> HIDE DEF d
<1>5. Flagged(d) \subseteq Flagged(Here)
  BY <1>2, <1>4 DEF Flagged
<1>6. Here' = d
  BY <1>1, <1>4, BecomesIs DEF Fits
<1> QED
  BY <1>1, <1>3, <1>4, <1>5, <1>6, DirtyForgotten, GoneOwn

(* The cache is set up again. *)
LEMMA EmptiedOwn ==
  ASSUME TypeInv, OwnInv,
         slot' = [s \in Slots |-> EmptySlot], chain' = [b \in Buckets |-> <<>>], lru' = <<>>,
         count' = 0, dirtyCount' = 0, UNCHANGED <<nvs, policy>>,
         \A k \in Keys :
           \/ expected'[k] = Unknown
           \/ expected'[k] = expected[k] /\ \A s \in EntriesOf(Here, k) : ~Here.slot[s].dirty,
         \A u \in Tasks : (pc'[u] = pc[u] /\ op'[u] = op[u]) \/ pc'[u] = "idle"
  PROVE  OwnInv'
<1> DEFINE t == [s \in Slots |-> EmptySlot]
           h == [b \in Buckets |-> <<>>]
           d == [slot |-> t, chain |-> h, lru |-> <<>>, count |-> 0, dirtyCount |-> 0, nvs |-> nvs]
<1>1. Here' = d
  BY DEF Here
<1>2. Fits(d) /\ Valid(d) = {}
  <2>1. nvs \in [Keys -> Stock]
    BY StateFields DEF TypeInv, TableInv, Fits, Here
  <2> QED
    BY <2>1, EmptyFits
<1>3. d.nvs = Here.nvs /\ d.lru = <<>> /\ d.slot = t
  BY DEF Here
<1> HIDE DEF d
<1>4. Flagged(d) \subseteq Flagged(Here)
  BY <1>3 DEF Flagged, EmptySlot
<1>5. Keeps(Here, Here)
  BY SameKeeps DEF TypeInv, TableInv
<1> QED
  BY <1>1, <1>2, <1>3, <1>4, <1>5, GoneOwn

LEMMA OwnRegister ==
  ASSUME TypeInv, OwnInv, Register
  PROVE  OwnInv'
<1>1. \A k \in Keys : EntriesOf(Here, k) = {}
  BY DEF Register, TypeInv, TableInv, EntriesOf
<1> QED
  BY <1>1, EmptiedOwn DEF Register

LEMMA OwnReboot ==
  ASSUME TypeInv, OwnInv, Reboot
  PROVE  OwnInv'
<1>1. \A u \in Tasks : pc'[u] = "idle"
  BY DEF Reboot
<1>2. Forget({slot[s].key : s \in DirtySlots(Here)})
  BY DEF Reboot
<1> QED
  BY <1>1, <1>2, DirtyForgotten, EmptiedOwn DEF Reboot

LEMMA OwnInit == Init => OwnInv
<1> SUFFICES ASSUME Init PROVE OwnInv
  OBVIOUS
<1>1. Fits(Here) /\ Valid(Here) = {}
  BY TypeInit DEF Init, TypeInv, TableInv
<1>2. Here.lru = <<>> /\ Here.dirtyCount = 0 /\ Here.nvs = nvs /\ Here.slot = [s \in Slots |-> EmptySlot]
  BY DEF Init, EmptyCache, Here
<1>4. StateRight(Here, recent, policy)
  <2>1. Flagged(Here) = {}
    BY <1>2 DEF Flagged, EmptySlot
  <2>2. InOrder(Here, recent)
    BY <1>1, <1>2 DEF InOrder, Before
  <2> QED
    BY <2>1, <2>2 DEF StateRight
<1>5. \A k \in Keys : EntriesOf(Here, k) = {}
  BY <1>1 DEF EntriesOf
<1>6. \A k \in Keys : expected[k] = IF Own(k) THEN nvs[k] ELSE Unknown
  BY DEF Init
<1>7. \A k \in Keys : KeyRight(Here, expected, k)
  BY <1>2, <1>5, <1>6 DEF KeyRight, Agrees
<1>8. \A t \in Tasks : pc[t] = "idle"
  BY DEF Init
<1> QED
  BY <1>4, <1>7, <1>8, IdleIsRight DEF OwnInv

LEMMA OwnStep ==
  ASSUME NoPreload, TypeInv, OwnInv, [Next]_vars
  PROVE  OwnInv'
<1>1. ASSUME NEW t \in Tasks, Task(t) PROVE OwnInv'
  <2>1. ASSUME NEW k \in Keys,
               \/ GetHit(t, k) \/ GetCrash(t, k) \/ GetMiss(t, k)
               \/ DeleteEntry(t, k) \/ InvalidateKey(t, k)
        PROVE  OwnInv'
    BY <2>1, OwnHit, OwnReboot, OwnMiss, OwnDelete, OwnInvalidateKey DEF GetCrash
  <2>2. ASSUME NEW k \in Keys, NEW v \in Values, SetEntry(t, k, v) \/ SetUncached(t, k, v)
        PROVE  OwnInv'
    BY <2>2, OwnSet, OwnUncached
  <2>3. CASE LoadMiss(t) \/ InsertLoaded(t) \/ WriteThrough(t) \/ RemoveStored(t)
    BY <2>3, OwnLoad, OwnInsert, OwnWrite, OwnRemove
  <2>4. CASE Flush(t) \/ InvalidateAll(t) \/ Clear(t)
    BY <2>4, OwnFlush, OwnInvalidateAll, OwnClear
  <2>5. ASSUME PreloadRead(t) PROVE FALSE
    BY <2>5 DEF PreloadRead, Idle, NoPreload, TypeInv, RestInv
  <2>6. ASSUME PreloadLock(t) \/ PreloadKey(t) \/ PreloadUnlock(t) \/ PreloadFree(t) PROVE FALSE
    <3>1. pc[t] \in {"preloading", "preloadKey", "freeing"}
      BY <2>6 DEF PreloadLock, PreloadKey, PreloadUnlock, PreloadFree
    <3> QED
      BY <3>1 DEF OwnInv, OwnPlaces, KeyPlaces
  <2> QED
    BY <1>1, <2>1, <2>2, <2>3, <2>4, <2>5, <2>6 DEF Task
<1>2. CASE UNCHANGED vars
  <2>1. UNCHANGED <<cacheVars, nvs, policy, recent, expected, pc, op>>
    BY <1>2 DEF vars, cacheVars
  <2>2. Here' = Here
    BY <2>1, StaysIs
  <2>3. StateRight(Here, recent', policy')
    BY <2>1, StateStays
  <2> QED
    BY <2>1, <2>2, <2>3, KeptSelf, KeptShrinks, NoKeyLost
<1> QED
  BY <1>1, <1>2, OwnRegister, OwnUnregister, OwnReboot DEF Next, Restart

LEMMA OwnAlways ==
  ASSUME NoPreload
  PROVE  Spec => [](TypeInv /\ OwnInv)
<1>1. Init => TypeInv /\ OwnInv
  BY TypeInit, OwnInit
<1>2. TypeInv /\ OwnInv /\ [Next]_vars => (TypeInv /\ OwnInv)'
  BY TypeStep, OwnStep
<1> QED
  BY <1>1, <1>2, PTL DEF Spec

(* If no task preloads: whatever tasks do to other keys, evictions,         *)
(* invalidations, restarts and failures included, the only user of a key    *)
(* finds what it last set or deleted successfully, unless it was dropped    *)
(* before it could be written.                                              *)
THEOREM OwnWritesAreRead ==
  ASSUME NoPreload
  PROVE  Spec => []ReadsOwnWrites
<1>1. TypeInv /\ OwnInv => ReadsOwnWrites
  <2> SUFFICES ASSUME TypeInv, OwnInv, NEW k \in Keys, expected[k] # Unknown
               PROVE  Lookup(k) = expected[k]
    BY DEF ReadsOwnWrites
  <2>1. Agrees(Here, k, expected[k])
    BY DEF OwnInv, KeyRight
  <2>2. /\ Find(Here, k) # NoSlot => Find(Here, k) \in EntriesOf(Here, k)
        /\ Find(Here, k) = NoSlot => EntriesOf(Here, k) = {}
    BY Found DEF TypeInv, TableInv
  <2>3. Here.slot = slot /\ Here.nvs = nvs
    BY DEF Here
  <2> QED
    BY <2>1, <2>2, <2>3 DEF Lookup, Agrees
<1> QED
  BY <1>1, OwnAlways, PTL

(* If no task preloads, what a write-through namespace has acknowledged for *)
(* a key with one user is in the storage.                                   *)
THEOREM WrittenThroughIsStored ==
  ASSUME NoPreload
  PROVE  Spec => []AcknowledgedIsStored
<1>1. TypeInv /\ OwnInv => AcknowledgedIsStored
  <2> SUFFICES ASSUME TypeInv, OwnInv, policy = "writeThrough", NEW k \in Keys, expected[k] # Unknown
               PROVE  nvs[k] = expected[k]
    BY DEF AcknowledgedIsStored
  <2>1. Agrees(Here, k, expected[k])
    BY DEF OwnInv, KeyRight
  <2>2. \A s \in EntriesOf(Here, k) : ~Here.slot[s].dirty
    <3>1. Flagged(Here) = {}
      BY DEF OwnInv, StateRight
    <3> QED
      BY <3>1 DEF EntriesOf, Valid, Flagged
  <2>3. Here.nvs = nvs
    BY DEF Here
  <2> QED
    BY <2>1, <2>2, <2>3 DEF Agrees
<1> QED
  BY <1>1, OwnAlways, PTL

(* If no task preloads, the LRU list stays in the order of the last uses of *)
(* the keys with one user after every eviction, flush, invalidation, loss   *)
(* and failure.                                                             *)
THEOREM RecencyKept ==
  ASSUME NoPreload
  PROVE  Spec => []LruIsRecency
<1>1. TypeInv /\ OwnInv => LruIsRecency
  <2> SUFFICES ASSUME TypeInv, OwnInv PROVE LruIsRecency
    OBVIOUS
  <2>1. Fits(Here) /\ InOrder(Here, recent) /\ \A k \in Members(recent) : Own(k)
    BY DEF TypeInv, TableInv, HistoryInv, OwnInv, StateRight
  <2>2. Here.slot = slot /\ Here.lru = lru
    BY DEF Here
  <2>3. Members(lru) = Valid(Here)
    BY <2>1, <2>2 DEF Fits, Lists
  <2>4. \A i \in DOMAIN lru : lru[i] \in Valid(Here)
    BY <2>3 DEF Members
  <2>5. \A i, j \in DOMAIN lru : i < j => Before(lru, lru[i], lru[j])
    BY DEF Before
  <2> QED
    BY <2>1, <2>2, <2>4, <2>5 DEF LruIsRecency, InOrder, KeyAt
<1> QED
  BY <1>1, OwnAlways, PTL
=============================================================================
