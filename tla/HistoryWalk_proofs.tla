--------------------------- MODULE HistoryWalk_proofs ---------------------------
(***************************************************************************)
(* Proofs about HistoryWalk.  For every history, every size of page and    *)
(* every cap, and over a server that answers anything: a walk yields       *)
(* nothing twice and asks in vain at most once.  Over an honest server,    *)
(* whatever is posted and deleted meanwhile, it misses nothing but what a  *)
(* page's end cuts off within a second.                                    *)
(***************************************************************************)
EXTENDS HistoryWalk, FiniteSetTheorems, SequenceTheorems, WellFoundedInduction, TLAPS

-----------------------------------------------------------------------------
(* The inductive invariant *)

Walks ==
    [pc: {"page", "overlap", "end", "enough", "capped", "abandoned"},
     kind: {"search", "BEFORE", "AFTER"}, max: {None, MaxResults}, prev: Ids \cup {None},
     pages: 0 .. PageCap, yielded: Seq(Ids), cursor: Int \cup {None}, scope: SUBSET Ids,
     oldest: Nat \cup {None}, tries: 0 .. OverlapCap, last: BOOLEAN]

(* Messages are posted one after the other, in time; a walk yields none    *)
(* that was never there, and only a search overlaps.                       *)
Typed ==
    /\ second \in [Ids -> Seconds] /\ \A a, b \in Ids : a < b => second[a] <= second[b]
    /\ honest \in BOOLEAN
    /\ \E n \in 0 .. Cardinality(Ids) : posted = 1 .. n
    /\ deleted \subseteq posted
    /\ walk \in Walks /\ walk.scope \subseteq posted
    /\ walk.pc = "overlap" => walk.kind = "search" /\ walk.oldest # None

(* A walk that goes on has not yielded enough.                             *)
Bounded ==
    /\ NothingTwice
    /\ Running /\ walk.max # None => Len(walk.yielded) < walk.max

(* A walk that goes on has yielded a hit for every page, a search in its   *)
(* overlaps one more: it has still to look in vain.                        *)
Paid ==
    /\ WalksAreProductive
    /\ Running /\ walk.kind # "search" => walk.pages <= Len(walk.yielded)
    /\ walk.kind = "search" /\ walk.pc = "page" => walk.pages <= 2 * Len(walk.yielded)
    /\ walk.kind = "search" /\ walk.pc = "overlap" => walk.pages < 2 * Len(walk.yielded)

(* The messages of a channel a walk has still to come to.                  *)
Ahead(m) ==
    \/ walk.cursor = None
    \/ walk.kind = "BEFORE" /\ m < walk.cursor
    \/ walk.kind = "AFTER" /\ m > walk.cursor

(* A walk over a channel has what is behind its cursor, and nothing else.  *)
ListsFollow ==
    honest /\ walk.kind # "search" =>
        /\ Running =>
            /\ walk.prev = None \/ walk.prev = walk.cursor
            /\ \A m \in Members(walk.yielded) : ~Ahead(m)
            /\ \A m \in walk.scope \ (deleted \cup Members(walk.yielded)) : Ahead(m)
        /\ walk.pc = "end" => walk.scope \subseteq deleted \cup Members(walk.yielded)

(* The hits among some from before a time: overlaps bring in such.         *)
Early(t, all) == {m \in all : Time(m) < t}

(* A search that has yielded all is past time t: it has a hit of every     *)
(* second from t on, and of what is before t it has at most the newest,    *)
(* fewer of them than fill a page.                                         *)
PastWith(t, all, prev) ==
    /\ \E p \in posted : Time(p) >= t
    /\ prev # None => Time(prev) >= t
    /\ \A m \in walk.scope : Time(m) < t \/ \E hit \in all : second[hit] = second[m]
    /\ \A a \in Early(t, all) : \A b \in posted : b > a /\ Time(b) < t => b \in all
    /\ Cardinality(Early(t, all)) < Limit

Past(t) == PastWith(t, Members(walk.yielded), walk.prev)

SearchesDescend ==
    honest /\ walk.kind = "search" /\ deleted = {} =>
        /\ Running => Members(walk.yielded) \subseteq posted
        /\ walk.pc = "page" =>
            IF walk.cursor = None THEN walk.yielded = <<>> /\ walk.prev = None
                                  ELSE Past(walk.cursor)
        /\ walk.pc = "overlap" =>
            /\ Past(walk.oldest) /\ \E p \in posted : Time(p) = walk.oldest
            /\ ~walk.last /\ (walk.cursor # None => walk.oldest < walk.cursor)
        /\ walk.pc = "end" =>
            \A m \in walk.scope : \E hit \in Members(walk.yielded) : second[hit] = second[m]

Inductive == Typed /\ Bounded /\ Paid /\ ListsFollow /\ SearchesDescend
-----------------------------------------------------------------------------
(* Numbers, pages and their members *)

(* What the constants are.                                                 *)
LEMMA Sizes ==
  /\ Limit \in Nat \ {0} /\ MaxResults \in Nat \ {0} /\ PageCap \in Nat \ {0} /\ OverlapCap \in Nat \ {0}
  /\ Cardinality(Ids) \in Nat /\ Ids = 1 .. Cardinality(Ids) /\ Ids \subseteq Nat \ {0}
  /\ Repeated \subseteq Ids /\ Seconds \subseteq Nat /\ None \notin Int /\ None \notin Ids
<1>1. Cardinality(Ids) \in Nat
  BY WalkAssumption, FS_CardinalityType
<1> QED
  BY <1>1, WalkAssumption

(* Of some natural numbers one is the least.                               *)
LEMMA Least ==
  ASSUME NEW S, S \subseteq Nat, S # {}
  PROVE  \E n \in S : \A m \in S : n <= m
<1> DEFINE R == OpToRel(<, Nat)
<1>1. IsWellFoundedOn(R, Nat)
  BY NatLessThanWellFounded
<1>2. IsWellFoundedOn(R, S)
  BY <1>1, IsWellFoundedOnSubset
<1> HIDE DEF R
<1>3. PICK n \in S : \A y \in S : ~(<<y, n>> \in R)
  BY <1>2, WFMin
<1>4. n \in Nat /\ \A y \in Nat : y < n => <<y, n>> \in R
  BY DEF R, OpToRel
<1>5. \A y \in S : ~(y < n)
  BY <1>3, <1>4
<1> QED
  BY <1>5

(* The contents of a page are a sequence no longer than a page.            *)
LEMMA ContentsAreSequences ==
  ASSUME NEW S, NEW c \in Contents(S)
  PROVE  /\ c \in Seq(S) /\ Len(c) \in Nat /\ Len(c) <= Limit /\ DOMAIN c = 1 .. Len(c)
         /\ c \in [1 .. Len(c) -> S] /\ (c = <<>> <=> Len(c) = 0)
         /\ Members(c) \subseteq S
<1>1. PICK n \in 0 .. Limit : c \in [1 .. n -> S]
  BY DEF Contents
<1>2. n \in Nat /\ n <= Limit
  BY Sizes
<1>3. c \in Seq(S)
  BY <1>1, <1>2, SeqDef
<1>4. Len(c) \in Nat /\ DOMAIN c = 1 .. Len(c) /\ c \in [1 .. Len(c) -> S]
  BY <1>3, LenProperties
<1>5. Len(c) = n
  BY <1>1, <1>2, <1>4
<1>6. c = <<>> <=> Len(c) = 0
  BY <1>3, EmptySeq
<1>7. Members(c) \subseteq S
  BY <1>4 DEF Members
<1> QED
  BY <1>2, <1>3, <1>4, <1>5, <1>6, <1>7

(* The places of fresh hits are finitely many, and every hit that is new   *)
(* has one: that of its first occurrence.                                  *)
LEMMA FreshPlaces ==
  ASSUME NEW c \in Contents(Ids \cup {None})
  PROVE  /\ Fresh(c) \subseteq 1 .. Len(c) /\ IsFiniteSet(Fresh(c)) /\ Cardinality(Fresh(c)) \in Nat
         /\ (Cardinality(Fresh(c)) = 0 <=> Fresh(c) = {})
         /\ \A i \in Fresh(c) : c[i] \in Ids \ Members(walk.yielded)
         /\ \A i, j \in Fresh(c) : c[i] = c[j] => i = j
         /\ \A m \in Members(c) \ ({None} \cup Members(walk.yielded)) : \E i \in Fresh(c) : c[i] = m
<1>1. Len(c) \in Nat /\ DOMAIN c = 1 .. Len(c) /\ c \in [1 .. Len(c) -> Ids \cup {None}]
  BY ContentsAreSequences
<1>2. Fresh(c) \subseteq 1 .. Len(c)
  BY <1>1 DEF Fresh
<1>3. IsFiniteSet(Fresh(c)) /\ Cardinality(Fresh(c)) \in Nat /\ (Cardinality(Fresh(c)) = 0 <=> Fresh(c) = {})
  <2>1. IsFiniteSet(1 .. Len(c))
    BY <1>1, FS_Interval
  <2>2. IsFiniteSet(Fresh(c))
    BY <1>2, <2>1, FS_Subset
  <2> QED
    BY <2>2, FS_CardinalityType, FS_EmptySet
<1>4. \A i \in Fresh(c) : c[i] \in Ids \ Members(walk.yielded)
  BY <1>1 DEF Fresh
<1>5. ASSUME NEW i \in Fresh(c), NEW j \in Fresh(c), c[i] = c[j]
      PROVE  i = j
  <2>1. i \in Nat \ {0} /\ j \in Nat \ {0}
    BY <1>1, <1>2
  <2>2. ~(i \in 1 .. (j - 1)) /\ ~(j \in 1 .. (i - 1))
    BY <1>5 DEF Fresh
  <2> QED
    BY <2>1, <2>2
<1>6. ASSUME NEW m \in Members(c) \ ({None} \cup Members(walk.yielded))
      PROVE  \E i \in Fresh(c) : c[i] = m
  <2> DEFINE at == {i \in DOMAIN c : c[i] = m}
  <2>1. at \subseteq Nat /\ at # {}
    BY <1>1 DEF Members
  <2>2. PICK i \in at : \A j \in at : i <= j
    BY <2>1, Least
  <2>3. \A j \in 1 .. (i - 1) : c[j] # c[i]
    <3> SUFFICES ASSUME NEW j \in 1 .. (i - 1), c[j] = c[i] PROVE FALSE
      OBVIOUS
    <3>1. i \in 1 .. Len(c) /\ c[i] = m
      BY <1>1, <2>2
    <3>2. j \in 1 .. Len(c) /\ j < i /\ j \in Nat /\ i \in Nat
      BY <1>1, <3>1
    <3>3. j \in at
      BY <1>1, <3>1, <3>2
    <3> QED
      BY <2>2, <3>2, <3>3
  <2>4. i \in Fresh(c)
    BY <2>2, <2>3 DEF Fresh
  <2> QED
    BY <2>2, <2>4
<1> QED
  BY <1>2, <1>3, <1>4, <1>5, <1>6

(* What follows what was yielded: every new hit of the page once.          *)
LEMMA NewHits ==
  ASSUME NEW c \in Contents(Ids \cup {None}), NEW new \in InOrder(c)
  PROVE  /\ new \in Seq(Ids) /\ Len(new) = Cardinality(Fresh(c)) /\ IsInjective(new)
         /\ Members(new) = Members(c) \ ({None} \cup Members(walk.yielded))
<1> DEFINE n == Cardinality(Fresh(c))
<1>0. /\ Fresh(c) \subseteq 1 .. Len(c) /\ IsFiniteSet(Fresh(c)) /\ n \in Nat
      /\ \A i \in Fresh(c) : c[i] \in Ids \ Members(walk.yielded)
      /\ \A i, j \in Fresh(c) : c[i] = c[j] => i = j
      /\ \A m \in Members(c) \ ({None} \cup Members(walk.yielded)) : \E i \in Fresh(c) : c[i] = m
  BY FreshPlaces
<1>1. PICK p \in [1 .. n -> Fresh(c)] :
        /\ \A k, l \in DOMAIN p : k < l => p[k] < p[l]
        /\ new = [k \in DOMAIN p |-> c[p[k]]]
  BY DEF InOrder
<1>2. n \in Nat /\ IsFiniteSet(Fresh(c)) /\ Fresh(c) \subseteq Nat /\ Fresh(c) \subseteq DOMAIN c
  BY <1>0, ContentsAreSequences
<1>3. DOMAIN p = 1 .. n
  BY <1>1
<1>4. \A k, l \in 1 .. n : p[k] = p[l] => k = l
  <2> SUFFICES ASSUME NEW k \in 1 .. n, NEW l \in 1 .. n, p[k] = p[l] PROVE k = l
    OBVIOUS
  <2>1. ~(k < l) /\ ~(l < k)
    BY <1>1, <1>2, <1>3
  <2> QED
    BY <1>2, <2>1
<1>5. \A i \in Fresh(c) : \E k \in 1 .. n : p[k] = i
  <2>1. p \in Injection(1 .. n, Fresh(c))
    BY <1>3, <1>4 DEF Injection, IsInjective
  <2>2. Cardinality(1 .. n) = n
    BY <1>2, FS_Interval
  <2>3. p \in Surjection(1 .. n, Fresh(c))
    BY <1>2, <2>1, <2>2, FS_Injection
  <2> QED
    BY <2>3 DEF Surjection
<1> HIDE DEF n
<1>6. \A k \in 1 .. n : new[k] = c[p[k]] /\ p[k] \in Fresh(c)
  BY <1>1, <1>3
<1>7. new \in [1 .. n -> Ids]
  BY <1>1, <1>3, <1>6, FreshPlaces
<1>8. new \in Seq(Ids) /\ DOMAIN new = 1 .. n /\ Len(new) = n
  <2>1. new \in Seq(Ids)
    BY <1>2, <1>7, SeqDef
  <2>2. DOMAIN new = 1 .. n /\ DOMAIN new = 1 .. Len(new) /\ Len(new) \in Nat
    BY <1>7, <2>1, LenProperties
  <2> QED
    BY <1>2, <2>1, <2>2
<1>9. IsInjective(new)
  <2> SUFFICES ASSUME NEW k \in 1 .. n, NEW l \in 1 .. n, new[k] = new[l] PROVE k = l
    BY <1>8 DEF IsInjective
  <2>1. p[k] = p[l]
    BY <1>0, <1>6
  <2> QED
    BY <1>4, <2>1
<1>10. Members(new) = Members(c) \ ({None} \cup Members(walk.yielded))
  <2>1. ASSUME NEW k \in 1 .. n
        PROVE  new[k] \in Members(c) \ ({None} \cup Members(walk.yielded))
    <3>1. p[k] \in DOMAIN c /\ new[k] = c[p[k]]
      BY <1>2, <1>6
    <3>2. new[k] \in Members(c)
      BY <3>1 DEF Members
    <3>3. new[k] \in Ids \ Members(walk.yielded)
      BY <1>0, <1>6
    <3> QED
      BY <3>2, <3>3, Sizes
  <2>2. ASSUME NEW m \in Members(c) \ ({None} \cup Members(walk.yielded))
        PROVE  \E k \in 1 .. n : new[k] = m
    <3>1. PICK i \in Fresh(c) : c[i] = m
      BY <1>0
    <3>2. PICK k \in 1 .. n : p[k] = i
      BY <1>5
    <3> QED
      BY <1>6, <3>1, <3>2
  <2>3. Members(new) = {new[k] : k \in 1 .. n}
    BY <1>8 DEF Members
  <2> QED
    BY <2>1, <2>2, <2>3
<1> QED
  BY <1>8, <1>9, <1>10 DEF n

(* What has been yielded after a page: nothing twice, no more than asked   *)
(* for, something more if there was something new, and everything that was *)
(* new unless it is enough.                                                *)
LEMMA YieldedHits ==
  ASSUME walk.yielded \in Seq(Ids), walk.max \in {None, MaxResults}, NothingTwice,
         walk.max # None => Len(walk.yielded) < walk.max,
         NEW c \in Contents(Ids \cup {None}), NEW all \in Yielded(c)
  PROVE  /\ all \in Seq(Ids) /\ IsInjective(all) /\ (walk.max # None => Len(all) <= walk.max)
         /\ Members(walk.yielded) \subseteq Members(all)
         /\ Len(all) >= Len(walk.yielded) /\ (~NothingNew(c) => Len(all) > Len(walk.yielded))
         /\ ~Enough(c) =>
                /\ walk.max # None => Len(all) < walk.max
                /\ Members(all) = Members(walk.yielded) \cup (Members(c) \ {None})
         /\ NothingNew(c) => ~Enough(c)
<1> DEFINE old == walk.yielded
           n == Cardinality(Fresh(c))
<1>1. PICK new \in InOrder(c) :
        all = IF walk.max = None \/ Len(old \o new) < walk.max THEN old \o new
              ELSE SubSeq(old \o new, 1, walk.max)
  BY DEF Yielded
<1> DEFINE cat == old \o new
<1>2. /\ new \in Seq(Ids) /\ Len(new) = n /\ IsInjective(new)
      /\ Members(new) = Members(c) \ ({None} \cup Members(old))
  BY NewHits
<1>3. n \in Nat /\ (n = 0 <=> Fresh(c) = {})
  BY FreshPlaces
<1>4. old \in Seq(Ids) /\ IsInjective(old) /\ Len(old) \in Nat
  BY LenProperties DEF NothingTwice
<1>5. walk.max # None => walk.max \in Nat \ {0} /\ Len(old) < walk.max
  BY Sizes
<1>6. Enough(c) <=> walk.max # None /\ n # 0 /\ Len(old) + n >= walk.max
  BY <1>3 DEF Enough, NothingNew
<1>7. NothingNew(c) <=> n = 0
  BY <1>3 DEF NothingNew
<1> HIDE DEF n, old
<1>8. /\ cat \in Seq(Ids) /\ Len(cat) = Len(old) + n /\ DOMAIN cat = 1 .. (Len(old) + n)
      /\ \A i \in 1 .. Len(old) : cat[i] = old[i]
      /\ \A i \in (Len(old) + 1) .. (Len(old) + n) : cat[i] = new[i - Len(old)]
  <2>1. /\ cat \in Seq(Ids) /\ Len(cat) = Len(old) + Len(new)
        /\ \A i \in 1 .. Len(old) + Len(new) :
                cat[i] = IF i <= Len(old) THEN old[i] ELSE new[i - Len(old)]
    BY <1>2, <1>4, ConcatProperties
  <2>2. DOMAIN cat = 1 .. Len(cat)
    BY <2>1, LenProperties
  <2> HIDE DEF cat
  <2> QED
    BY <1>2, <1>3, <1>4, <2>1, <2>2
<1>9. DOMAIN old = 1 .. Len(old) /\ DOMAIN new = 1 .. n
  BY <1>2, <1>4, LenProperties
<1> HIDE DEF cat
<1>10. Members(cat) = Members(old) \cup (Members(c) \ {None})
  <2>1. Members(old) = {old[i] : i \in 1 .. Len(old)} /\ Members(new) = {new[i] : i \in 1 .. n}
        /\ Members(cat) = {cat[i] : i \in 1 .. (Len(old) + n)}
    BY <1>8, <1>9 DEF Members
  <2>2. Members(old) \subseteq Ids
    BY <1>4, <1>9, <2>1, ElementOfSeq
  <2>3. Members(cat) = Members(old) \cup Members(new)
    <3>1. ASSUME NEW i \in 1 .. (Len(old) + n)
          PROVE  cat[i] \in Members(old) \cup Members(new)
      <4>1. CASE i <= Len(old)
        <5>1. i \in 1 .. Len(old) /\ cat[i] = old[i]
          BY <1>3, <1>4, <1>8, <4>1
        <5> QED
          BY <2>1, <5>1
      <4>2. CASE ~(i <= Len(old))
        <5>1. i \in (Len(old) + 1) .. (Len(old) + n) /\ i - Len(old) \in 1 .. n
          BY <1>3, <1>4, <4>2
        <5>2. cat[i] = new[i - Len(old)]
          BY <1>8, <5>1
        <5> QED
          BY <2>1, <5>1, <5>2
      <4> QED
        BY <4>1, <4>2
    <3>2. ASSUME NEW i \in 1 .. Len(old)
          PROVE  old[i] \in Members(cat)
      <4>1. i \in 1 .. (Len(old) + n)
        BY <1>3, <1>4
      <4> QED
        BY <1>8, <2>1, <4>1
    <3>3. ASSUME NEW i \in 1 .. n
          PROVE  new[i] \in Members(cat)
      <4>1. /\ i + Len(old) \in (Len(old) + 1) .. (Len(old) + n)
            /\ i + Len(old) \in 1 .. (Len(old) + n) /\ (i + Len(old)) - Len(old) = i
        BY <1>3, <1>4
      <4>2. cat[i + Len(old)] = new[i]
        BY <1>8, <4>1
      <4> QED
        BY <2>1, <4>1, <4>2
    <3> QED
      BY <2>1, <3>1, <3>2, <3>3
  <2> QED
    BY <1>2, <2>2, <2>3, Sizes DEF old
<1>11. IsInjective(cat)
  <2> SUFFICES ASSUME NEW i \in 1 .. (Len(old) + n), NEW j \in 1 .. (Len(old) + n), cat[i] = cat[j]
               PROVE  i = j
    BY <1>8 DEF IsInjective
  <2>1. ASSUME NEW k \in 1 .. Len(old), NEW l \in (Len(old) + 1) .. (Len(old) + n)
        PROVE  cat[k] # cat[l]
    <3>1. l - Len(old) \in 1 .. n
      BY <1>3, <1>4
    <3>2. cat[l] \in Members(new) /\ cat[k] \in Members(old)
      BY <1>8, <1>9, <3>1 DEF Members
    <3> QED
      BY <1>2, <3>2 DEF old
  <2>2. CASE i \in 1 .. Len(old) /\ j \in 1 .. Len(old)
    BY <1>4, <1>8, <1>9, <2>2 DEF IsInjective
  <2>3. CASE i \in (Len(old) + 1) .. (Len(old) + n) /\ j \in (Len(old) + 1) .. (Len(old) + n)
    <3>1. i - Len(old) \in 1 .. n /\ j - Len(old) \in 1 .. n
      BY <1>3, <1>4, <2>3
    <3>2. new[i - Len(old)] = new[j - Len(old)]
      BY <1>8, <2>3
    <3>3. i - Len(old) = j - Len(old)
      BY <1>2, <1>9, <3>1, <3>2 DEF IsInjective
    <3> QED
      BY <1>4, <2>3, <3>3
  <2>4. \A k \in 1 .. (Len(old) + n) : k \in 1 .. Len(old) \/ k \in (Len(old) + 1) .. (Len(old) + n)
    BY <1>3, <1>4
  <2> QED
    BY <2>1, <2>2, <2>3, <2>4
<1>12. CASE walk.max = None \/ Len(cat) < walk.max
  <2>1. all = cat
    BY <1>1, <1>12 DEF cat
  <2>2. walk.max # None => Len(cat) < walk.max /\ Len(cat) <= walk.max
    BY <1>3, <1>4, <1>5, <1>8, <1>12
  <2>3. Len(cat) >= Len(old) /\ (n # 0 => Len(cat) > Len(old))
    BY <1>3, <1>4, <1>8
  <2> QED
    BY <1>6, <1>7, <1>8, <1>10, <1>11, <2>1, <2>2, <2>3 DEF old
<1>13. CASE ~(walk.max = None \/ Len(cat) < walk.max)
  <2>1. /\ walk.max \in Nat \ {0} /\ Len(old) < walk.max /\ walk.max <= Len(old) + n
        /\ all = SubSeq(cat, 1, walk.max)
    BY <1>1, <1>3, <1>4, <1>5, <1>8, <1>13 DEF cat
  <2>2. n # 0 /\ Enough(c)
    <3>1. n # 0
      BY <1>3, <1>4, <2>1
    <3>2. Len(old) + n >= walk.max
      BY <1>3, <1>4, <2>1
    <3> QED
      BY <1>6, <1>13, <3>1, <3>2
  <2>3. \A i \in 1 .. walk.max : i \in DOMAIN cat
    BY <1>3, <1>4, <1>8, <2>1
  <2>4. \A i \in 1 .. walk.max : cat[i] \in Ids
    BY <1>8, <2>3, ElementOfSeq, LenProperties
  <2>5. /\ all \in Seq(Ids) /\ Len(all) = walk.max
        /\ \A i \in 1 .. walk.max : all[i] = cat[i]
    <3>1. /\ SubSeq(cat, 1, walk.max) \in Seq(Ids)
          /\ Len(SubSeq(cat, 1, walk.max)) = IF 1 <= walk.max THEN walk.max - 1 + 1 ELSE 0
          /\ \A i \in 1 .. walk.max - 1 + 1 : SubSeq(cat, 1, walk.max)[i] = cat[1 + i - 1]
      BY <2>1, <2>4, SubSeqProperties
    <3>2. 1 <= walk.max /\ walk.max - 1 + 1 = walk.max /\ \A i \in 1 .. walk.max : 1 + i - 1 = i
      BY <2>1
    <3> QED
      BY <2>1, <3>1, <3>2
  <2>6. DOMAIN all = 1 .. walk.max
    BY <2>5, LenProperties
  <2>7. IsInjective(all)
    BY <1>11, <2>3, <2>5, <2>6 DEF IsInjective
  <2>8. Members(old) \subseteq Members(all)
    <3>1. \A i \in 1 .. Len(old) : i \in 1 .. walk.max /\ all[i] = old[i]
      BY <1>4, <1>8, <2>1, <2>5
    <3> QED
      BY <1>9, <2>6, <3>1 DEF Members
  <2>9. Len(all) <= walk.max /\ Len(all) >= Len(old) /\ Len(all) > Len(old)
    BY <1>4, <2>1, <2>5
  <2> QED
    BY <1>7, <2>2, <2>5, <2>7, <2>8, <2>9 DEF old
<1> QED
  BY <1>12, <1>13

-----------------------------------------------------------------------------
(* What a walk becomes *)

Outcomes == {"end", "enough", "capped", "abandoned"}

(* A walk that stops keeps what it has yielded and asked for.              *)
LEMMA Stopped ==
  ASSUME NEW w \in Walks, NEW outcome \in Outcomes
  PROVE  LET v == Stop(w, outcome) IN
         /\ v \in Walks /\ v.pc = outcome /\ v.kind = w.kind /\ v.max = w.max /\ v.pages = w.pages
         /\ v.yielded = w.yielded /\ v.scope = w.scope
<1> DEFINE v == Stop(w, outcome)
<1>1. 0 \in 0 .. OverlapCap
  BY Sizes
<1> QED
  BY <1>1 DEF Stop, Walks, Outcomes

(* After a page and its overlaps a search is over or lowers its cursor.    *)
LEMMA Descended ==
  ASSUME NEW w \in Walks
  PROVE  LET v == NextBefore(w) IN
         \/ /\ v = Stop(w, "end")
            /\ w.last \/ w.oldest = None \/ (w.cursor # None /\ w.oldest - 1 >= w.cursor)
         \/ /\ v \in Walks /\ v.pc = "page" /\ v.kind = w.kind /\ v.max = w.max /\ v.pages = w.pages
            /\ v.yielded = w.yielded /\ v.scope = w.scope /\ v.prev = w.prev
            /\ w.oldest # None /\ v.cursor = w.oldest - 1
            /\ w.cursor # None => v.cursor < w.cursor
<1> DEFINE v == NextBefore(w)
           over == w.last \/ w.oldest = None \/ (w.cursor # None /\ w.oldest - 1 >= w.cursor)
<1>1. CASE over
  BY <1>1, Zenon DEF NextBefore
<1>2. CASE ~over
  <2>1. v = [w EXCEPT !.pc = "page", !.cursor = w.oldest - 1]
    BY <1>2, Zenon DEF NextBefore
  <2>2. w.oldest # None /\ w.oldest - 1 \in Int
    BY <1>2 DEF Walks
  <2>5. w.cursor # None => w.oldest - 1 < w.cursor
    BY <1>2, <2>2 DEF Walks
  <2> HIDE DEF v, over
  <2>3. v \in Walks /\ v.pc = "page" /\ v.kind = w.kind /\ v.max = w.max /\ v.pages = w.pages
    BY <2>1, <2>2 DEF Walks
  <2>4. v.yielded = w.yielded /\ v.scope = w.scope /\ v.prev = w.prev /\ v.cursor = w.oldest - 1
    BY <2>1, <2>2 DEF Walks
  <2> QED
    BY <2>2, <2>3, <2>4, <2>5 DEF v
<1> QED
  BY <1>1, <1>2

-----------------------------------------------------------------------------
(* What a page holds *)

(* Whatever a server answers has contents; None is a message without id.   *)
LEMMA AnyContents ==
  ASSUME NEW S, S \subseteq Ids \cup {None}, NEW c \in Contents(S)
  PROVE  c \in Contents(Ids \cup {None})
<1>1. \A n \in 0 .. Limit : [1 .. n -> S] \subseteq [1 .. n -> Ids \cup {None}]
  OBVIOUS
<1> QED
  BY <1>1 DEF Contents

(* The hits of a page of a search, newest first, leave out older ones only *)
(* when the page is full.                                                  *)
LEMMA SearchedPage ==
  ASSUME Typed, NEW before, NEW page \in HonestSearch(before)
  PROVE  LET c == page.content
             hits == {m \in Live : before = None \/ Time(m) < before}
         IN /\ c \in Contents(hits) /\ c \in Contents(Ids \cup {None}) /\ Members(c) \subseteq hits
            /\ page.timed /\ page.older \in BOOLEAN /\ (page.older <=> hits # Members(c))
            /\ \A m \in hits \ Members(c) : Len(c) = Limit /\ \A x \in Members(c) : x > m
            /\ IsInjective(c)
<1> DEFINE hits == {m \in Live : before = None \/ Time(m) < before}
<1>1. PICK c \in FirstOf(hits, TRUE) : page = Page(c, hits # Members(c), FALSE)
  BY DEF HonestSearch
<1>2. hits \subseteq Ids
  BY Sizes DEF Live, Typed
<1> HIDE DEF hits
<1>3. c \in Contents(hits)
  BY <1>1 DEF FirstOf
<1>4. c \in Contents(Ids \cup {None}) /\ Members(c) \subseteq hits
  BY <1>2, <1>3, AnyContents, ContentsAreSequences
<1>5. /\ page.content = c /\ page.timed /\ page.older \in BOOLEAN
      /\ (page.older <=> hits # Members(c))
  BY <1>1 DEF Page
<1>6. \A m \in hits \ Members(c) : Len(c) = Limit /\ \A x \in Members(c) : x > m
  BY <1>1 DEF FirstOf, Precedes, Members
<1>7. IsInjective(c)
  <2>1. \A i, j \in DOMAIN c : i < j => c[i] > c[j]
    BY <1>1 DEF FirstOf, Precedes
  <2> SUFFICES ASSUME NEW i \in DOMAIN c, NEW j \in DOMAIN c, c[i] = c[j] PROVE i = j
    BY DEF IsInjective
  <2>2. i \in Nat /\ j \in Nat /\ c[i] \in Int
    <3>1. DOMAIN c = 1 .. Len(c) /\ Len(c) \in Nat /\ c \in [1 .. Len(c) -> hits]
      BY <1>3, ContentsAreSequences
    <3>2. hits \subseteq Int
      BY <1>2, Sizes
    <3>3. c[i] \in hits /\ i \in Nat /\ j \in Nat
      BY <3>1
    <3> QED
      BY <3>2, <3>3
  <2> QED
    BY <2>1, <2>2
<1> QED
  BY <1>3, <1>4, <1>5, <1>6, <1>7 DEF hits

(* A page has contents, whether the server is honest or not.               *)
LEMMA PagesHaveContents ==
  ASSUME Typed, NEW before, NEW page \in Pages(HonestSearch(before))
  PROVE  page.content \in Contents(Ids \cup {None}) /\ page.older \in BOOLEAN
<1>1. CASE honest
  <2>1. page \in HonestSearch(before)
    BY <1>1 DEF Pages
  <2> QED
    BY <2>1, SearchedPage
<1>2. CASE ~honest
  <2>1. page \in AnyPages
    BY <1>2 DEF Pages
  <2>2. page.content \in Contents(Repeated \cup {None}) /\ page.older \in BOOLEAN
    BY <2>1 DEF AnyPages
  <2> QED
    BY <2>2, AnyContents, Sizes
<1> QED
  BY <1>1, <1>2

-----------------------------------------------------------------------------
(* A page of a search, in what becomes of the walk *)

(* One request later it is the same walk.                                  *)
Followed(v) ==
    /\ v \in Walks /\ v.kind = walk.kind /\ v.max = walk.max /\ v.scope = walk.scope
    /\ v.pages = walk.pages + 1

(* The walk goes on past the time t, the least of the hits c.              *)
GoesOn(v, c, older, t) ==
    \/ v.pc = "overlap" /\ older /\ v.oldest = t /\ ~v.last /\ v.prev = c[1] /\ v.cursor = walk.cursor
    \/ v.pc = "page" /\ v.cursor = t - 1 /\ (walk.cursor # None => t - 1 < walk.cursor) /\ v.prev = c[1]
    \/ v.pc = "end" /\ (~older \/ (walk.cursor # None /\ t - 1 >= walk.cursor))

LeastOf(t, c) ==
    /\ \E m \in Members(c) \ {None} : Time(m) = t
    /\ \A m \in Members(c) \ {None} : t <= Time(m)

(* The least time of the hits of a page is that of one of them.            *)
LEMMA LeastTime ==
  ASSUME Typed, NEW c \in Contents(Ids \cup {None})
  PROVE  LET times == {Time(m) : m \in {m \in Members(c) : m # None}}
             t == CHOOSE t \in times : \A u \in times : t <= u
         IN times # {} => t \in Nat /\ LeastOf(t, c)
<1> DEFINE times == {Time(m) : m \in {m \in Members(c) : m # None}}
           t == CHOOSE t \in times : \A u \in times : t <= u
<1> SUFFICES ASSUME times # {} PROVE t \in Nat /\ LeastOf(t, c)
  OBVIOUS
<1>1. \A m \in Members(c) : m # None => Time(m) \in Nat
  <2>1. Members(c) \subseteq Ids \cup {None}
    BY ContentsAreSequences
  <2>2. \A m \in Ids : second[m] \in Nat
    BY Sizes DEF Typed
  <2> QED
    BY <2>1, <2>2 DEF Time
<1>2. times \subseteq Nat
  BY <1>1
<1>3. t \in times /\ \A u \in times : t <= u
  <2> HIDE DEF times
  <2>1. \E u \in times : \A v \in times : u <= v
    BY <1>2, Least
  <2> QED
    BY <2>1
<1> QED
  BY <1>2, <1>3 DEF LeastOf

(* A page ends the walk because it is empty or begins like the one before, *)
(* because it is enough, because it brings nothing new; or the walk goes   *)
(* on past the oldest of its hits, if it has times.                        *)
Searched(page, v) ==
    LET c == page.content IN
    \/ /\ c = <<>> \/ (c[1] # None /\ c[1] = walk.prev)
       /\ v.pc = "end" /\ v.yielded = walk.yielded
    \/ /\ c # <<>> /\ v.yielded \in Yielded(c)
       /\ \/ Enough(c) /\ v.pc = "enough"
          \/ NothingNew(c) /\ v.pc = "end"
          \/ ~Enough(c) /\ ~NothingNew(c) /\ v.pc = "end" /\ (page.timed => Members(c) \subseteq {None})
          \/ /\ ~Enough(c) /\ ~NothingNew(c)
             /\ \E t \in Nat : LeastOf(t, c) /\ GoesOn(v, c, page.older, t)

(* A page of a search does one of these.                                   *)
LEMMA SearchPageIs ==
  ASSUME Typed, Bounded, SearchPage
  PROVE  \E page \in Pages(HonestSearch(walk.cursor)) : Searched(page, walk') /\ Followed(walk')
<1> DEFINE seen == [walk EXCEPT !.pages = @ + 1]
           times(p) == IF p.timed THEN {Time(m) : m \in {m \in Members(p.content) : m # None}} ELSE {}
           oldest(p) == IF times(p) = {} THEN None ELSE CHOOSE t \in times(p) : \A u \in times(p) : t <= u
           count(p) == Cardinality({i \in DOMAIN p.content :
                            p.content[i] # None /\ Time(p.content[i]) = oldest(p)})
           last(p) == ~p.older /\ Len(p.content) < Limit
           next(p, all) == [seen EXCEPT !.prev = p.content[1], !.yielded = all, !.oldest = oldest(p),
                                        !.tries = 0, !.last = last(p)]
           repeats(p) == p.content = <<>> \/ (p.content[1] # None /\ p.content[1] = walk.prev)
           overlaps(p) == oldest(p) # None /\ count(p) > 1 /\ p.older
           after(p, all) ==
                IF repeats(p) THEN Stop(seen, "end")
                ELSE IF Enough(p.content) THEN Stop(next(p, all), "enough")
                ELSE IF NothingNew(p.content) THEN Stop(next(p, all), "end")
                ELSE IF overlaps(p) THEN [next(p, all) EXCEPT !.pc = "overlap"]
                ELSE NextBefore(next(p, all))
<1>1. PICK page \in Pages(HonestSearch(walk.cursor)) :
        \E all \in Yielded(page.content) : walk' = after(page, all)
  BY Zenon DEF SearchPage
<1>2. PICK all \in Yielded(page.content) : walk' = after(page, all)
  BY <1>1
<1> DEFINE c == page.content
           t == oldest(page)
           w == next(page, all)
<1>3. c \in Contents(Ids \cup {None}) /\ page.older \in BOOLEAN
  BY PagesHaveContents
<1>4. walk \in Walks /\ walk.pc = "page" /\ walk.kind = "search" /\ walk.pages + 1 \in 0 .. PageCap
  <2>1. walk.pages \in Nat /\ walk.pages < PageCap
    BY DEF Typed, Walks, SearchPage
  <2> QED
    BY <2>1, Sizes DEF Typed, SearchPage
<1>5. seen \in Walks /\ seen.yielded = walk.yielded /\ Followed(seen) /\ seen.pc = "page"
      /\ seen.cursor = walk.cursor
  BY <1>4 DEF Walks, Followed
<1>6. t # None => t \in Nat /\ LeastOf(t, c) /\ page.timed
  BY <1>3, LeastTime
<1>7. last(page) \in BOOLEAN /\ (last(page) => ~page.older)
  BY Zenon
<1>8. t = None /\ page.timed => Members(c) \subseteq {None}
  <2>1. times(page) # {} => t \in Nat
    BY <1>3, LeastTime
  <2>2. times(page) = {} /\ page.timed => Members(c) \subseteq {None}
    OBVIOUS
  <2> HIDE DEF times, oldest, t, c
  <2>3. times(page) # {} => t # None
    BY <2>1, Sizes
  <2> QED
    BY <2>2, <2>3
<1> HIDE DEF times, oldest, count, last, t, seen
<1>9. all \in Seq(Ids)
  <2>1. NothingTwice /\ (walk.max # None => Len(walk.yielded) < walk.max)
    BY <1>4 DEF Bounded, Running
  <2> QED
    BY <1>3, <1>4, <2>1, YieldedHits DEF Walks
<1>10. CASE repeats(page)
  <2>1. walk' = Stop(seen, "end")
    BY <1>2, <1>10
  <2>2. walk'.pc = "end" /\ walk'.yielded = walk.yielded /\ Followed(walk')
    BY <1>5, <2>1, Stopped DEF Outcomes, Followed
  <2> QED
    BY <1>10, <2>2 DEF Searched
<1>11. CASE ~repeats(page)
  <2>1. c # <<>> /\ c[1] \in Ids \cup {None}
    <3>1. 1 \in 1 .. Len(c)
      BY <1>3, <1>11, ContentsAreSequences
    <3> QED
      BY <1>3, <1>11, <3>1, ContentsAreSequences
  <2>2. w \in Walks
    <3>1. 0 \in 0 .. OverlapCap /\ t \in Nat \cup {None} /\ c[1] \in Ids \cup {None}
      BY <1>6, <2>1, Sizes
    <3>2. w = [seen EXCEPT !.prev = c[1], !.yielded = all, !.oldest = t, !.tries = 0, !.last = last(page)]
      BY DEF t
    <3> HIDE DEF w, c
    <3> QED
      BY <1>5, <1>7, <1>9, <3>1, <3>2 DEF Walks
  <2>3. /\ w.pc = "page" /\ w.kind = walk.kind /\ w.max = walk.max /\ w.scope = walk.scope
        /\ w.pages = walk.pages + 1 /\ w.yielded = all /\ w.prev = c[1] /\ w.oldest = t
        /\ w.last = last(page) /\ w.cursor = walk.cursor
    BY <1>5 DEF Walks, Followed, t
  <2>4. Followed(w)
    BY <2>2, <2>3 DEF Followed
  <2> HIDE DEF w
  <2>5. CASE Enough(c)
    <3>1. walk' = Stop(w, "enough")
      BY <1>2, <1>11, <2>5 DEF w
    <3>2. walk'.pc = "enough" /\ walk'.yielded = all /\ Followed(walk')
      BY <2>2, <2>3, <2>4, <3>1, Stopped DEF Outcomes, Followed
    <3> QED
      BY <2>1, <2>5, <3>2 DEF Searched
  <2>6. CASE ~Enough(c) /\ NothingNew(c)
    <3>1. walk' = Stop(w, "end")
      BY <1>2, <1>11, <2>6 DEF w
    <3>2. walk'.pc = "end" /\ walk'.yielded = all /\ Followed(walk')
      BY <2>2, <2>3, <2>4, <3>1, Stopped DEF Outcomes, Followed
    <3> QED
      BY <2>1, <2>6, <3>2 DEF Searched
  <2>7. CASE ~Enough(c) /\ ~NothingNew(c) /\ overlaps(page)
    <3>1. walk' = [w EXCEPT !.pc = "overlap"] /\ t # None /\ page.older
      BY <1>2, <1>11, <2>7 DEF w, t
    <3>2. walk'.pc = "overlap" /\ walk'.yielded = all /\ walk'.oldest = t /\ walk'.prev = c[1]
          /\ walk'.cursor = walk.cursor /\ walk'.last = last(page)
      BY <2>2, <2>3, <3>1 DEF Walks
    <3>3. Followed(walk')
      BY <2>2, <2>4, <3>1 DEF Followed, Walks
    <3>4. GoesOn(walk', c, page.older, t)
      BY <1>7, <3>1, <3>2 DEF GoesOn
    <3> QED
      BY <1>6, <2>1, <2>7, <3>1, <3>2, <3>3, <3>4 DEF Searched
  <2>8. CASE ~Enough(c) /\ ~NothingNew(c) /\ ~overlaps(page)
    <3>1. walk' = NextBefore(w)
      BY <1>2, <1>11, <2>8 DEF w
    <3>2. CASE walk' = Stop(w, "end") /\ (w.last \/ w.oldest = None \/ (w.cursor # None /\ w.oldest - 1 >= w.cursor))
      <4>1. walk'.pc = "end" /\ walk'.yielded = all /\ Followed(walk')
        BY <2>2, <2>3, <2>4, <3>2, Stopped DEF Outcomes, Followed
      <4>2. CASE t = None
        BY <1>8, <2>1, <2>8, <4>1, <4>2 DEF Searched
      <4>3. CASE t # None
        <5>1. GoesOn(walk', c, page.older, t)
          BY <1>7, <2>3, <3>2, <4>1, <4>3 DEF GoesOn
        <5> QED
          BY <1>6, <2>1, <2>8, <4>1, <4>3, <5>1 DEF Searched
      <4> QED
        BY <4>2, <4>3
    <3>3. CASE /\ walk' \in Walks /\ walk'.pc = "page" /\ walk'.kind = w.kind /\ walk'.max = w.max
               /\ walk'.pages = w.pages /\ walk'.yielded = w.yielded /\ walk'.scope = w.scope
               /\ walk'.prev = w.prev /\ w.oldest # None /\ walk'.cursor = w.oldest - 1
               /\ w.cursor # None => walk'.cursor < w.cursor
      <4>1. Followed(walk') /\ walk'.yielded = all
        BY <2>3, <3>3 DEF Followed
      <4>2. GoesOn(walk', c, page.older, t)
        BY <2>3, <3>3 DEF GoesOn
      <4> QED
        BY <1>6, <2>1, <2>3, <2>8, <3>3, <4>1, <4>2 DEF Searched
    <3> QED
      BY <2>2, <3>1, <3>2, <3>3, Descended
  <2> QED
    BY <2>5, <2>6, <2>7, <2>8
<1> QED
  BY <1>10, <1>11

-----------------------------------------------------------------------------
(* An overlap, and a page of a channel *)

Lowered(v) ==
    \/ /\ v.pc = "page" /\ v.cursor = walk.oldest - 1 /\ v.prev = walk.prev
       /\ walk.cursor # None => walk.oldest - 1 < walk.cursor
    \/ v.pc = "end" /\ (walk.last \/ (walk.cursor # None /\ walk.oldest - 1 >= walk.cursor))

(* An overlap is the last one if it is empty or brings nothing new, and    *)
(* after so many.                                                          *)
Overlapped(page, v) ==
    LET c == page.content IN
    \/ c = <<>> /\ v.yielded = walk.yielded /\ Lowered(v)
    \/ /\ v.yielded \in Yielded(c)
       /\ \/ Enough(c) /\ v.pc = "enough"
          \/ ~Enough(c) /\ Lowered(v)
          \/ /\ ~Enough(c) /\ ~NothingNew(c)
             /\ v.pc = "overlap" /\ v.oldest = walk.oldest /\ v.cursor = walk.cursor
             /\ v.prev = walk.prev /\ v.last = walk.last

(* An overlap does one of these.                                           *)
LEMMA SearchOverlapIs ==
  ASSUME Typed, Bounded, SearchOverlap
  PROVE  \E page \in Pages(HonestSearch(walk.oldest + OverlapStep)) :
            Overlapped(page, walk') /\ Followed(walk')
<1> DEFINE seen == [walk EXCEPT !.pages = @ + 1, !.tries = @ + 1]
           next(all) == [seen EXCEPT !.yielded = all]
           after(p, all) ==
                IF p.content = <<>> THEN NextBefore(seen)
                ELSE IF Enough(p.content) THEN Stop(next(all), "enough")
                ELSE IF NothingNew(p.content) \/ next(all).tries = OverlapCap THEN NextBefore(next(all))
                ELSE next(all)
<1>1. PICK page \in Pages(HonestSearch(walk.oldest + OverlapStep)) :
        \E all \in Yielded(page.content) : walk' = after(page, all)
  BY Zenon DEF SearchOverlap
<1>2. PICK all \in Yielded(page.content) : walk' = after(page, all)
  BY <1>1
<1> DEFINE c == page.content
           w == next(all)
<1>3. c \in Contents(Ids \cup {None})
  BY PagesHaveContents
<1>4. /\ walk \in Walks /\ walk.pc = "overlap" /\ walk.kind = "search" /\ walk.oldest # None
      /\ walk.pages + 1 \in 0 .. PageCap /\ walk.tries + 1 \in 0 .. OverlapCap
  <2>1. walk.pages \in Nat /\ walk.pages < PageCap /\ walk.tries \in Nat /\ walk.tries < OverlapCap
    BY DEF Typed, Walks, SearchOverlap, CanOverlap
  <2> QED
    BY <2>1, Sizes DEF Typed, SearchOverlap
<1>5. /\ seen \in Walks /\ seen.yielded = walk.yielded /\ Followed(seen) /\ seen.pc = "overlap"
      /\ seen.cursor = walk.cursor /\ seen.prev = walk.prev /\ seen.oldest = walk.oldest
      /\ seen.last = walk.last
  BY <1>4 DEF Walks, Followed
<1>6. all \in Seq(Ids)
  <2>1. NothingTwice /\ (walk.max # None => Len(walk.yielded) < walk.max)
    BY <1>4 DEF Bounded, Running
  <2> QED
    BY <1>3, <1>4, <2>1, YieldedHits DEF Walks
<1> HIDE DEF seen
<1>7. /\ w \in Walks /\ w.yielded = all /\ Followed(w) /\ w.pc = "overlap"
      /\ w.cursor = walk.cursor /\ w.prev = walk.prev /\ w.oldest = walk.oldest
      /\ w.last = walk.last
  BY <1>5, <1>6 DEF Walks, Followed
<1> HIDE DEF w
<1>8. ASSUME NEW u \in Walks, walk' = NextBefore(u), Followed(u), u.cursor = walk.cursor,
             u.prev = walk.prev, u.oldest = walk.oldest, u.last = walk.last
      PROVE  Lowered(walk') /\ Followed(walk') /\ walk'.yielded = u.yielded
  <2>1. CASE walk' = Stop(u, "end") /\ (u.last \/ u.oldest = None \/ (u.cursor # None /\ u.oldest - 1 >= u.cursor))
    <3>1. walk'.pc = "end" /\ walk'.yielded = u.yielded /\ Followed(walk')
      BY <1>8, <2>1, Stopped DEF Outcomes, Followed
    <3> QED
      BY <1>4, <1>8, <2>1, <3>1 DEF Lowered
  <2>2. CASE /\ walk' \in Walks /\ walk'.pc = "page" /\ walk'.kind = u.kind /\ walk'.max = u.max
             /\ walk'.pages = u.pages /\ walk'.yielded = u.yielded /\ walk'.scope = u.scope
             /\ walk'.prev = u.prev /\ u.oldest # None /\ walk'.cursor = u.oldest - 1
             /\ u.cursor # None => walk'.cursor < u.cursor
    BY <1>8, <2>2 DEF Lowered, Followed
  <2> QED
    BY <1>8, <2>1, <2>2, Descended
<1>9. CASE c = <<>>
  <2>1. walk' = NextBefore(seen)
    BY <1>2, <1>9
  <2> QED
    BY <1>5, <1>8, <1>9, <2>1 DEF Overlapped
<1>10. CASE c # <<>> /\ Enough(c)
  <2>1. walk' = Stop(w, "enough")
    BY <1>2, <1>10 DEF w
  <2>2. walk'.pc = "enough" /\ walk'.yielded = all /\ Followed(walk')
    BY <1>7, <2>1, Stopped DEF Outcomes, Followed
  <2> QED
    BY <1>10, <2>2 DEF Overlapped
<1>11. CASE c # <<>> /\ ~Enough(c) /\ (NothingNew(c) \/ w.tries = OverlapCap)
  <2>1. walk' = NextBefore(w)
    BY <1>2, <1>11 DEF w
  <2> QED
    BY <1>7, <1>8, <1>11, <2>1 DEF Overlapped
<1>12. CASE c # <<>> /\ ~Enough(c) /\ ~(NothingNew(c) \/ w.tries = OverlapCap)
  <2>1. walk' = w
    BY <1>2, <1>12 DEF w
  <2> QED
    BY <1>7, <1>12, <2>1 DEF Overlapped
<1> QED
  BY <1>9, <1>10, <1>11, <1>12

(* The messages of a page of a channel, in its order, leave out those      *)
(* further on only when the page is full.                                  *)
LEMMA ListedPage ==
  ASSUME Typed, NEW kind \in {"BEFORE", "AFTER"}, NEW cursor, NEW page \in HonestList(kind, cursor)
  PROVE  LET c == page.content
             wanted == {m \in Live : \/ cursor = None
                                     \/ kind = "BEFORE" /\ m < cursor
                                     \/ kind = "AFTER" /\ m > cursor}
         IN /\ c \in Contents(wanted) /\ c \in Contents(Ids \cup {None}) /\ Members(c) \subseteq wanted
            /\ More(kind, page) <=> wanted # Members(c)
            /\ \A i, j \in DOMAIN c : i < j => Precedes(kind = "BEFORE", c[i], c[j])
            /\ \A m \in wanted \ Members(c) :
                Len(c) = Limit /\ \A i \in DOMAIN c : Precedes(kind = "BEFORE", c[i], m)
<1> DEFINE wanted == {m \in Live : \/ cursor = None
                                   \/ kind = "BEFORE" /\ m < cursor
                                   \/ kind = "AFTER" /\ m > cursor}
<1>1. wanted \subseteq Ids
  BY Sizes DEF Live, Typed
<1>2. PICK c \in FirstOf(wanted, kind = "BEFORE") :
        page = IF kind = "BEFORE" THEN Page(c, wanted # Members(c), cursor # None)
               ELSE Page(c, cursor # None, wanted # Members(c))
  <2>1. CASE kind = "BEFORE"
    <3>1. (kind = "BEFORE") = TRUE
      BY <2>1
    <3> QED
      BY <2>1, <3>1 DEF HonestList
  <2>2. CASE kind = "AFTER"
    <3>1. (kind = "BEFORE") = FALSE /\ kind # "BEFORE"
      BY <2>2
    <3> QED
      BY <2>2, <3>1 DEF HonestList
  <2> QED
    BY <2>1, <2>2
<1> HIDE DEF wanted
<1>3. c \in Contents(wanted)
  BY <1>2 DEF FirstOf
<1>4. c \in Contents(Ids \cup {None}) /\ Members(c) \subseteq wanted
  BY <1>1, <1>3, AnyContents, ContentsAreSequences
<1>5. page.content = c /\ (More(kind, page) <=> wanted # Members(c))
  BY <1>2 DEF Page, More
<1>6. /\ \A i, j \in DOMAIN c : i < j => Precedes(kind = "BEFORE", c[i], c[j])
      /\ \A m \in wanted \ Members(c) :
            Len(c) = Limit /\ \A i \in DOMAIN c : Precedes(kind = "BEFORE", c[i], m)
  BY <1>2, Zenon DEF FirstOf
<1> QED
  BY <1>3, <1>4, <1>5, <1>6 DEF wanted

(* A page of a channel ends the walk because it is enough, or for one of   *)
(* the reasons to end; or its last message is where the walk goes on.      *)
Listed(page, v) ==
    LET c == page.content IN
    /\ v.yielded \in Yielded(c)
    /\ \/ Enough(c) /\ v.pc = "enough"
       \/ ~Enough(c) /\ ListEnds(page) /\ v.pc = "end"
       \/ ~Enough(c) /\ ~ListEnds(page) /\ v.pc = "page" /\ v.prev = Last(c) /\ v.cursor = Last(c)

(* A page of a channel does one of these.                                  *)
LEMMA ListPageIs ==
  ASSUME Typed, Bounded, ListPage
  PROVE  \E page \in Pages(HonestList(walk.kind, walk.cursor)) :
            /\ page.content \in Contents(Ids \cup {None})
            /\ Listed(page, walk') /\ Followed(walk')
<1> DEFINE next(all) == [walk EXCEPT !.pages = @ + 1, !.yielded = all]
           after(p, all) ==
                IF Enough(p.content) THEN Stop(next(all), "enough")
                ELSE IF ListEnds(p) THEN Stop(next(all), "end")
                ELSE [next(all) EXCEPT !.prev = Last(p.content), !.cursor = Last(p.content)]
<1>1. PICK page \in Pages(HonestList(walk.kind, walk.cursor)) :
        \E all \in Yielded(page.content) : walk' = after(page, all)
  BY Zenon DEF ListPage
<1>2. PICK all \in Yielded(page.content) : walk' = after(page, all)
  BY <1>1
<1> DEFINE c == page.content
           w == next(all)
<1>3. c \in Contents(Ids \cup {None})
  <2>1. CASE honest
    <3>1. page \in HonestList(walk.kind, walk.cursor) /\ walk.kind \in {"BEFORE", "AFTER"}
      BY <2>1 DEF Pages, ListPage
    <3> QED
      BY <3>1, ListedPage
  <2>2. CASE ~honest
    <3>1. c \in Contents(Repeated \cup {None})
      BY <2>2 DEF Pages, AnyPages
    <3> QED
      BY <3>1, AnyContents, Sizes
  <2> QED
    BY <2>1, <2>2
<1>4. /\ walk \in Walks /\ walk.pc = "page" /\ walk.kind \in {"BEFORE", "AFTER"}
      /\ walk.pages + 1 \in 0 .. PageCap
  <2>1. walk.pages \in Nat /\ walk.pages < PageCap
    BY DEF Typed, Walks, ListPage
  <2> QED
    BY <2>1, Sizes DEF Typed, ListPage
<1>5. all \in Seq(Ids)
  <2>1. NothingTwice /\ (walk.max # None => Len(walk.yielded) < walk.max)
    BY <1>4 DEF Bounded, Running
  <2> QED
    BY <1>3, <1>4, <2>1, YieldedHits DEF Walks
<1>6. w \in Walks /\ w.yielded = all /\ Followed(w) /\ w.pc = "page"
  BY <1>4, <1>5 DEF Walks, Followed
<1> HIDE DEF w
<1>7. CASE Enough(c)
  <2>1. walk' = Stop(w, "enough")
    BY <1>2, <1>7 DEF w
  <2>2. walk'.pc = "enough" /\ walk'.yielded = all /\ Followed(walk')
    BY <1>6, <2>1, Stopped DEF Outcomes, Followed
  <2> QED
    BY <1>3, <1>7, <2>2 DEF Listed
<1>8. CASE ~Enough(c) /\ ListEnds(page)
  <2>1. walk' = Stop(w, "end")
    BY <1>2, <1>8 DEF w
  <2>2. walk'.pc = "end" /\ walk'.yielded = all /\ Followed(walk')
    BY <1>6, <2>1, Stopped DEF Outcomes, Followed
  <2> QED
    BY <1>3, <1>8, <2>2 DEF Listed
<1>9. CASE ~Enough(c) /\ ~ListEnds(page)
  <2>1. walk' = [w EXCEPT !.prev = Last(c), !.cursor = Last(c)]
    BY <1>2, <1>9 DEF w
  <2>2. c # <<>> /\ Last(c) # None
    BY <1>9 DEF ListEnds
  <2>3. Last(c) \in Ids /\ Last(c) \in Int
    <3>1. Len(c) \in 1 .. Len(c) /\ c \in [1 .. Len(c) -> Ids \cup {None}]
      BY <1>3, <2>2, ContentsAreSequences
    <3>2. c[Len(c)] \in Ids
      BY <2>2, <3>1 DEF Last
    <3> QED
      BY <3>2, Sizes DEF Last
  <2> HIDE DEF c
  <2>4. walk' \in Walks /\ walk'.yielded = all /\ walk'.pc = "page" /\ walk'.prev = Last(c) /\ walk'.cursor = Last(c)
    BY <1>6, <2>1, <2>3 DEF Walks
  <2>5. Followed(walk')
    BY <1>6, <2>1, <2>4 DEF Followed, Walks
  <2> QED
    BY <1>3, <1>9, <2>4, <2>5 DEF Listed, c
<1> QED
  BY <1>7, <1>8, <1>9

-----------------------------------------------------------------------------
(* Against any server: the walk keeps to its type and its limits *)

(* One request later a walk is still of its type.                          *)
LEMMA FollowedTyped ==
  ASSUME Typed, Followed(walk'), UNCHANGED world,
         walk'.pc = "overlap" => walk.kind = "search" /\ walk'.oldest # None
  PROVE  Typed'
<1>1. walk' \in Walks /\ walk'.scope = walk.scope /\ walk'.kind = walk.kind
  BY DEF Followed
<1> QED
  BY <1>1 DEF Typed, world

(* What is yielded keeps the limit, and a walk that goes on is below it.   *)
LEMMA YieldedBounded ==
  ASSUME Typed, Bounded, Running, Followed(walk'), NEW c \in Contents(Ids \cup {None}),
         walk'.yielded \in Yielded(c), Enough(c) => walk'.pc \notin {"page", "overlap"}
  PROVE  Bounded'
<1>1. /\ walk.yielded \in Seq(Ids) /\ walk.max \in {None, MaxResults} /\ NothingTwice
      /\ (walk.max # None => Len(walk.yielded) < walk.max) /\ walk'.max = walk.max
  BY DEF Typed, Bounded, Walks, Followed
<1>2. /\ IsInjective(walk'.yielded)
      /\ walk.max # None => Len(walk'.yielded) <= walk.max
      /\ ~Enough(c) /\ walk.max # None => Len(walk'.yielded) < walk.max
  BY <1>1, YieldedHits
<1> QED
  BY <1>1, <1>2 DEF Bounded, NothingTwice, Running

(* A request that yields nothing keeps it, too.                            *)
LEMMA NothingYielded ==
  ASSUME Bounded, walk'.yielded = walk.yielded, walk'.max = walk.max, Running
  PROVE  Bounded'
  BY DEF Bounded, NothingTwice, Running

(* What a request has to have brought in.                                  *)
LEMMA RequestPaid ==
  ASSUME Typed, Paid, Running, Followed(walk'), NEW k \in Nat, walk'.yielded \in Seq(Ids),
         Len(walk'.yielded) >= Len(walk.yielded) + k,
         walk'.pc = "overlap" => walk.kind = "search" /\ k > 0,
         walk'.pc = "page" => k > 0 \/ walk.pc = "overlap"
  PROVE  Paid'
<1> DEFINE old == Len(walk.yielded)
           new == Len(walk'.yielded)
<1>1. /\ walk.pages \in Nat /\ walk'.pages = walk.pages + 1 /\ walk'.kind = walk.kind
      /\ walk.kind \in {"search", "BEFORE", "AFTER"} /\ (walk.pc = "overlap" => walk.kind = "search")
      /\ walk.pc \in {"page", "overlap"} /\ walk'.pc \in {"page", "overlap"} \cup Outcomes
  BY DEF Typed, Followed, Walks, Running, Outcomes
<1>2. old \in Nat /\ new \in Nat /\ new >= old + k
  BY LenProperties DEF Typed, Walks
<1>3. CASE walk.kind # "search"
  <2>1. walk.pages <= old /\ walk.pc = "page"
    BY <1>1, <1>3 DEF Paid, Running
  <2>2. walk'.pages <= new + 1 /\ (k > 0 => walk'.pages <= new)
    BY <1>1, <1>2, <2>1
  <2>3. WalksAreProductive'
    BY <1>1, <1>3, <2>2 DEF WalksAreProductive
  <2>4. Running' => walk'.pages <= new
    BY <1>1, <1>3, <2>1, <2>2 DEF Running, Outcomes
  <2> QED
    BY <1>1, <1>3, <2>3, <2>4 DEF Paid
<1>4. CASE walk.kind = "search"
  <2>1. walk.pages <= 2 * old /\ (walk.pc = "overlap" => walk.pages < 2 * old)
    BY <1>1, <1>2, <1>4 DEF Paid
  <2>2. /\ walk'.pages <= new + 1 + new
        /\ k > 0 => walk'.pages < 2 * new
        /\ walk.pc = "overlap" => walk'.pages <= 2 * new
    BY <1>1, <1>2, <2>1
  <2>3. WalksAreProductive'
    BY <1>1, <1>4, <2>2 DEF WalksAreProductive
  <2>4. (walk'.pc = "page" => walk'.pages <= 2 * new) /\ (walk'.pc = "overlap" => walk'.pages < 2 * new)
    BY <1>1, <1>2, <2>2
  <2> QED
    BY <1>1, <1>4, <2>3, <2>4 DEF Paid
<1> QED
  BY <1>3, <1>4

(* Typed, bounded and paid, whatever the server answers.                   *)
Defended == Typed /\ Bounded /\ Paid

(* A page is paid for by what it brings, the last one and the last overlap *)
(* by what came before.                                                    *)
LEMMA YieldedPaid ==
  ASSUME Defended, Running, Followed(walk'), NEW c \in Contents(Ids \cup {None}),
         walk'.yielded \in Yielded(c), NothingNew(c) => walk'.pc \in Outcomes \/ walk.pc = "overlap",
         walk'.pc = "overlap" => walk.kind = "search" /\ ~NothingNew(c)
  PROVE  Paid'
<1>1. /\ walk.yielded \in Seq(Ids) /\ walk.max \in {None, MaxResults} /\ NothingTwice
      /\ (walk.max # None => Len(walk.yielded) < walk.max)
  BY DEF Defended, Typed, Bounded, Walks
<1>2. /\ walk'.yielded \in Seq(Ids) /\ Len(walk'.yielded) >= Len(walk.yielded)
      /\ ~NothingNew(c) => Len(walk'.yielded) > Len(walk.yielded)
  BY <1>1, YieldedHits
<1>3. Len(walk.yielded) \in Nat /\ Len(walk'.yielded) \in Nat
  BY <1>1, <1>2, LenProperties
<1>4. CASE NothingNew(c)
  <2>1. Len(walk'.yielded) >= Len(walk.yielded) + 0
    BY <1>2, <1>3
  <2>2. walk'.pc = "page" => walk.pc = "overlap"
    BY <1>4 DEF Outcomes
  <2> QED
    BY <1>2, <1>4, <2>1, <2>2, RequestPaid DEF Defended
<1>5. CASE ~NothingNew(c)
  <2>1. Len(walk'.yielded) >= Len(walk.yielded) + 1
    BY <1>2, <1>3, <1>5
  <2> QED
    BY <1>2, <1>5, <2>1, RequestPaid DEF Defended
<1> QED
  BY <1>4, <1>5

(* Only the last page, or the last overlap, brings nothing.                *)
LEMMA EmptyPaid ==
  ASSUME Defended, Running, Followed(walk'), walk'.yielded = walk.yielded,
         walk'.pc \in Outcomes \/ (walk.pc = "overlap" /\ walk'.pc = "page")
  PROVE  Paid'
<1>1. walk.yielded \in Seq(Ids) /\ Len(walk.yielded) \in Nat
  BY LenProperties DEF Defended, Typed, Walks
<1>2. Len(walk'.yielded) >= Len(walk.yielded) + 0
  BY <1>1
<1>3. walk'.pc # "overlap" /\ (walk'.pc = "page" => walk.pc = "overlap")
  BY DEF Outcomes
<1> QED
  BY <1>1, <1>2, <1>3, RequestPaid DEF Defended

(* A page of a search.                                                     *)
LEMMA SearchPageDefended == Defended /\ SearchPage => Defended'
<1> SUFFICES ASSUME Defended, SearchPage PROVE Defended'
  OBVIOUS
<1>1. PICK page \in Pages(HonestSearch(walk.cursor)) : Searched(page, walk') /\ Followed(walk')
  BY SearchPageIs DEF Defended
<1> DEFINE c == page.content
<1>2. /\ c \in Contents(Ids \cup {None}) /\ Running /\ walk.kind = "search" /\ walk.pc = "page"
      /\ UNCHANGED world /\ walk'.max = walk.max
  BY <1>1, PagesHaveContents DEF Defended, SearchPage, Running, Followed
<1>3. CASE walk'.pc = "end" /\ walk'.yielded = walk.yielded
  <2>1. Typed'
    BY <1>1, <1>2, <1>3, FollowedTyped DEF Defended
  <2>2. Bounded'
    BY <1>2, <1>3, NothingYielded DEF Defended
  <2>3. Paid'
    BY <1>1, <1>2, <1>3, EmptyPaid DEF Outcomes
  <2> QED
    BY <2>1, <2>2, <2>3 DEF Defended
<1>4. CASE /\ walk'.yielded \in Yielded(c)
           /\ \/ walk'.pc \in Outcomes
              \/ ~Enough(c) /\ ~NothingNew(c) /\ walk'.pc = "overlap" /\ walk'.oldest # None
              \/ ~Enough(c) /\ ~NothingNew(c) /\ walk'.pc = "page"
  <2>1. Typed'
    BY <1>1, <1>2, <1>4, FollowedTyped DEF Defended, Outcomes
  <2>2. Bounded'
    BY <1>1, <1>2, <1>4, YieldedBounded DEF Defended, Outcomes
  <2>3. Paid'
    BY <1>1, <1>2, <1>4, YieldedPaid DEF Outcomes
  <2> QED
    BY <2>1, <2>2, <2>3 DEF Defended
<1> QED
  <2>1. \A t \in Nat : GoesOn(walk', c, page.older, t) =>
            \/ walk'.pc = "end" \/ walk'.pc = "page" \/ (walk'.pc = "overlap" /\ walk'.oldest # None)
    BY Sizes DEF GoesOn
  <2> QED
    BY <1>1, <1>3, <1>4, <2>1 DEF Searched, Outcomes

(* An overlap.                                                             *)
LEMMA SearchOverlapDefended == Defended /\ SearchOverlap => Defended'
<1> SUFFICES ASSUME Defended, SearchOverlap PROVE Defended'
  OBVIOUS
<1>1. PICK page \in Pages(HonestSearch(walk.oldest + OverlapStep)) :
        Overlapped(page, walk') /\ Followed(walk')
  BY SearchOverlapIs DEF Defended
<1> DEFINE c == page.content
<1>2. /\ c \in Contents(Ids \cup {None}) /\ Running /\ walk.kind = "search" /\ walk.pc = "overlap"
      /\ UNCHANGED world /\ walk'.max = walk.max /\ walk.oldest # None
  BY <1>1, PagesHaveContents DEF Defended, Typed, SearchOverlap, Running, Followed
<1>3. Lowered(walk') => walk'.pc = "page" \/ walk'.pc = "end"
  BY DEF Lowered
<1>4. CASE (walk'.pc = "page" \/ walk'.pc = "end") /\ walk'.yielded = walk.yielded
  <2>1. Typed'
    BY <1>1, <1>2, <1>4, FollowedTyped DEF Defended
  <2>2. Bounded'
    BY <1>2, <1>4, NothingYielded DEF Defended
  <2>3. Paid'
    BY <1>1, <1>2, <1>4, EmptyPaid DEF Outcomes
  <2> QED
    BY <2>1, <2>2, <2>3 DEF Defended
<1>5. CASE /\ walk'.yielded \in Yielded(c)
           /\ \/ walk'.pc = "enough"
              \/ ~Enough(c) /\ (walk'.pc = "page" \/ walk'.pc = "end")
              \/ ~Enough(c) /\ ~NothingNew(c) /\ walk'.pc = "overlap" /\ walk'.oldest # None
  <2>1. Typed'
    BY <1>1, <1>2, <1>5, FollowedTyped DEF Defended
  <2>2. Bounded'
    BY <1>1, <1>2, <1>5, YieldedBounded DEF Defended
  <2>3. Paid'
    BY <1>1, <1>2, <1>5, YieldedPaid
  <2> QED
    BY <2>1, <2>2, <2>3 DEF Defended
<1> QED
  BY <1>1, <1>2, <1>3, <1>4, <1>5 DEF Overlapped

(* A page of a channel.                                                    *)
LEMMA ListPageDefended == Defended /\ ListPage => Defended'
<1> SUFFICES ASSUME Defended, ListPage PROVE Defended'
  OBVIOUS
<1>1. PICK page \in Pages(HonestList(walk.kind, walk.cursor)) :
        page.content \in Contents(Ids \cup {None}) /\ Listed(page, walk') /\ Followed(walk')
  BY ListPageIs DEF Defended
<1> DEFINE c == page.content
<1>2. /\ Running /\ walk.pc = "page" /\ UNCHANGED world /\ walk'.yielded \in Yielded(c)
      /\ (Enough(c) => walk'.pc \notin {"page", "overlap"}) /\ walk'.pc # "overlap"
      /\ (NothingNew(c) => walk'.pc \in Outcomes)
  BY <1>1 DEF ListPage, Running, Listed, ListEnds, Outcomes
<1>3. Typed'
  BY <1>1, <1>2, FollowedTyped DEF Defended
<1>4. Bounded'
  BY <1>1, <1>2, YieldedBounded DEF Defended
<1>5. Paid'
  BY <1>1, <1>2, YieldedPaid
<1> QED
  BY <1>3, <1>4, <1>5 DEF Defended

(* A walk that is given up is the same walk, and over.                     *)
LEMMA StopsDefended ==
  ASSUME Defended, UNCHANGED world, NEW outcome \in Outcomes, walk' = Stop(walk, outcome)
  PROVE  Defended' /\ walk'.pc = outcome /\ walk'.kind = walk.kind /\ walk'.yielded = walk.yielded
<1>1. /\ walk' \in Walks /\ walk'.pc = outcome /\ walk'.kind = walk.kind /\ walk'.max = walk.max
      /\ walk'.pages = walk.pages /\ walk'.yielded = walk.yielded /\ walk'.scope = walk.scope
  BY Stopped DEF Defended, Typed
<1>2. walk'.pc \notin {"page", "overlap"}
  BY <1>1 DEF Outcomes
<1>3. Typed'
  BY <1>1, <1>2 DEF Defended, Typed, world
<1>4. Bounded'
  BY <1>1, <1>2 DEF Defended, Bounded, NothingTwice, Running
<1>5. Paid'
  BY <1>1, <1>2 DEF Defended, Paid, WalksAreProductive, Running
<1> QED
  BY <1>1, <1>3, <1>4, <1>5 DEF Defended

(* What happens at Pumble is nothing to the walk.                          *)
LEMMA PostDefended ==
  ASSUME Defended, Post
  PROVE  /\ Defended' /\ Running /\ UNCHANGED <<second, honest, deleted, walk>>
         /\ \E m \in Ids : posted' = posted \cup {m} /\ \A p \in posted : p < m
<1>1. PICK n \in 0 .. Cardinality(Ids) : posted = 1 .. n
  BY DEF Defended, Typed
<1>2. n \in Nat /\ Cardinality(posted) = n
  BY <1>1, Sizes, FS_Interval
<1>3. n + 1 \in Ids /\ posted' = posted \cup {n + 1} /\ UNCHANGED <<second, honest, deleted, walk>>
  BY <1>2 DEF Post
<1>4. posted' = 1 .. (n + 1) /\ n + 1 \in 0 .. Cardinality(Ids)
  BY <1>1, <1>2, <1>3, Sizes
<1>5. posted \subseteq posted' /\ \A p \in posted : p < n + 1
  BY <1>1, <1>2, <1>3
<1>6. Typed'
  BY <1>3, <1>4, <1>5 DEF Defended, Typed
<1>7. Bounded' /\ Paid'
  BY <1>3 DEF Defended, Bounded, NothingTwice, Paid, WalksAreProductive, Running
<1> QED
  BY <1>3, <1>5, <1>6, <1>7 DEF Defended, Post

(* A deletion is nothing to the walk, either.                              *)
LEMMA DeleteDefended ==
  ASSUME Defended, Delete
  PROVE  /\ Defended' /\ UNCHANGED <<second, honest, posted, walk>>
         /\ deleted \subseteq deleted' /\ deleted' # {}
<1>1. /\ UNCHANGED <<second, honest, posted, walk>> /\ deleted \subseteq deleted' /\ deleted' # {}
      /\ deleted' \subseteq posted
  BY DEF Delete, Live, Defended, Typed
<1>2. Typed'
  BY <1>1 DEF Defended, Typed
<1>3. Bounded' /\ Paid'
  BY <1>1 DEF Defended, Bounded, NothingTwice, Paid, WalksAreProductive, Running
<1> QED
  BY <1>1, <1>2, <1>3 DEF Defended

(* A walk begins with nothing yielded, at the newest message or at one     *)
(* that is there; what it is to find is before its cursor.                 *)
LEMMA InitIs ==
  ASSUME Init
  PROVE  /\ Defended /\ walk.pc = "page" /\ walk.yielded = <<>> /\ walk.prev = None /\ deleted = {}
         /\ walk.kind = "search" /\ walk.cursor # None =>
                /\ \E p \in posted : Time(p) = walk.cursor
                /\ \A m \in walk.scope : Time(m) < walk.cursor
         /\ walk.kind # "search" => \A m \in walk.scope : Ahead(m)
<1>1. PICK n \in Initially : posted = 1 .. n
  BY DEF Init
<1>2. n \in 0 .. Cardinality(Ids) /\ posted \subseteq Ids /\ n \in Nat
  BY <1>1, Sizes, WalkAssumption
<1>3. PICK kind \in {"search", "BEFORE", "AFTER"}, start \in {None} \cup posted, max \in {None, MaxResults} :
        /\ kind = "AFTER" => start # None
        /\ kind # "search" => second[1] = second[Cardinality(Ids)]
        /\ ~honest => posted = Ids /\ start \in {None, 1} /\ (kind # "AFTER" => start = None)
        /\ walk = [pc |-> "page", kind |-> kind, max |-> max, prev |-> None, pages |-> 0, yielded |-> <<>>,
                   cursor |-> IF start # None /\ kind = "search" THEN Time(start) ELSE start,
                   scope |-> {m \in posted : \/ start = None
                                             \/ kind = "search" /\ second[m] < second[start]
                                             \/ kind = "BEFORE" /\ m < start
                                             \/ kind = "AFTER" /\ m > start},
                   oldest |-> None, tries |-> 0, last |-> FALSE]
  BY Zenon DEF Init
<1>4. /\ second \in [Ids -> Seconds] /\ honest \in BOOLEAN /\ deleted = {}
      /\ \A a, b \in Ids : a < b => second[a] <= second[b]
  BY DEF Init
<1>5. \A m \in Ids : second[m] \in Nat /\ Time(m) \in Int
  <2>1. \A m \in Ids : second[m] \in Nat
    BY <1>4, Sizes
  <2> QED
    BY <2>1 DEF Time
<1>6. walk.cursor \in Int \cup {None}
  <2>1. start # None => start \in Ids
    BY <1>2
  <2>2. start # None => start \in Int /\ Time(start) \in Int
    BY <1>5, <2>1, Sizes
  <2> QED
    BY <1>3, <2>2
<1>7. /\ walk.pc = "page" /\ walk.kind = kind /\ walk.max = max /\ walk.prev = None /\ walk.pages = 0
      /\ walk.yielded = <<>> /\ walk.scope \subseteq posted
  BY <1>3
<1>8. walk \in Walks
  <2>1. 0 \in 0 .. PageCap /\ 0 \in 0 .. OverlapCap
    BY Sizes
  <2>2. walk.scope \in SUBSET Ids
    BY <1>2, <1>7
  <2>3. <<>> \in Seq(Ids)
    OBVIOUS
  <2> QED
    BY <1>3, <1>6, <2>1, <2>2, <2>3 DEF Walks
<1>9. Typed
  BY <1>1, <1>2, <1>4, <1>7, <1>8 DEF Typed
<1>10. Bounded
  <2>1. Len(walk.yielded) = 0 /\ IsInjective(walk.yielded)
    BY <1>7 DEF IsInjective
  <2>2. walk.max # None => Len(walk.yielded) < walk.max /\ Len(walk.yielded) <= walk.max
    <3>1. walk.max # None => walk.max \in Nat \ {0}
      BY <1>7, Sizes
    <3> QED
      BY <2>1, <3>1
  <2> QED
    BY <2>1, <2>2 DEF Bounded, NothingTwice
<1>11. Paid
  <2>1. Len(walk.yielded) = 0
    BY <1>7
  <2> QED
    BY <1>7, <2>1 DEF Paid, WalksAreProductive
<1>12. ASSUME kind = "search"
       PROVE  walk.cursor # None =>
                /\ \E p \in posted : Time(p) = walk.cursor
                /\ \A m \in walk.scope : Time(m) < walk.cursor
  <2>1. CASE start = None
    BY <1>3, <2>1
  <2>2. CASE start # None
    <3>1. walk.cursor = Time(start) /\ start \in posted
      BY <1>3, <1>12, <2>2
    <3>2. \A m \in walk.scope : second[m] < second[start]
      BY <1>3, <1>12, <2>2
    <3> QED
      BY <1>2, <1>5, <1>7, <3>1, <3>2 DEF Time
  <2> QED
    BY <2>1, <2>2
<1>13. ASSUME kind # "search"
       PROVE  \A m \in walk.scope : Ahead(m)
  <2>1. walk.cursor = start
    BY <1>3, <1>13
  <2>2. CASE start = None
    BY <2>1, <2>2 DEF Ahead
  <2>3. CASE start # None /\ kind = "BEFORE"
    <3>1. \A m \in walk.scope : m < start
      BY <1>3, <2>3
    <3> QED
      BY <1>7, <2>1, <2>3, <3>1 DEF Ahead
  <2>4. CASE start # None /\ kind = "AFTER"
    <3>1. \A m \in walk.scope : m > start
      BY <1>3, <2>4
    <3> QED
      BY <1>7, <2>1, <2>4, <3>1 DEF Ahead
  <2> QED
    BY <1>13, <2>2, <2>3, <2>4
<1> QED
  BY <1>4, <1>7, <1>9, <1>10, <1>11, <1>12, <1>13 DEF Defended

-----------------------------------------------------------------------------
(* Over an honest channel: what is behind the cursor has been yielded *)

(* A page that ends a walk by itself holds all that was still ahead; from  *)
(* another one the walk goes on at its last message.                       *)
LEMMA ListPageFollows == Defended /\ ListsFollow /\ ListPage => ListsFollow'
<1> SUFFICES ASSUME Defended, ListsFollow, ListPage, honest', walk'.kind # "search"
             PROVE  /\ Running' =>
                        /\ walk'.prev = None \/ walk'.prev = walk'.cursor
                        /\ \A m \in Members(walk'.yielded) : ~Ahead(m)'
                        /\ \A m \in walk'.scope \ (deleted' \cup Members(walk'.yielded)) : Ahead(m)'
                    /\ walk'.pc = "end" => walk'.scope \subseteq deleted' \cup Members(walk'.yielded)
  BY DEF ListsFollow
<1>1. PICK page \in Pages(HonestList(walk.kind, walk.cursor)) :
        page.content \in Contents(Ids \cup {None}) /\ Listed(page, walk') /\ Followed(walk')
  BY ListPageIs DEF Defended
<1> DEFINE c == page.content
           old == Members(walk.yielded)
           wanted == {m \in Live : \/ walk.cursor = None
                                   \/ walk.kind = "BEFORE" /\ m < walk.cursor
                                   \/ walk.kind = "AFTER" /\ m > walk.cursor}
<1>2. /\ honest /\ walk.kind \in {"BEFORE", "AFTER"} /\ walk.pc = "page" /\ Running
      /\ UNCHANGED world /\ walk'.kind = walk.kind /\ walk'.scope = walk.scope /\ deleted' = deleted
  BY <1>1 DEF ListPage, Running, world, Followed
<1>3. page \in HonestList(walk.kind, walk.cursor)
  BY <1>2 DEF Pages
<1>4. /\ c \in Contents(wanted) /\ c \in Contents(Ids \cup {None}) /\ Members(c) \subseteq wanted
      /\ More(walk.kind, page) <=> wanted # Members(c)
      /\ \A i, j \in DOMAIN c : i < j => Precedes(walk.kind = "BEFORE", c[i], c[j])
      /\ \A m \in wanted \ Members(c) :
            Len(c) = Limit /\ \A i \in DOMAIN c : Precedes(walk.kind = "BEFORE", c[i], m)
  BY <1>2, <1>3, ListedPage DEF Defended
<1>5. wanted = {m \in Live : Ahead(m)}
  BY DEF Ahead
<1>6. /\ walk.prev = None \/ walk.prev = walk.cursor
      /\ \A m \in old : ~Ahead(m)
      /\ \A m \in walk.scope \ (deleted \cup old) : Ahead(m)
  BY <1>2 DEF ListsFollow
<1>7. /\ walk.yielded \in Seq(Ids) /\ walk.max \in {None, MaxResults} /\ NothingTwice
      /\ (walk.max # None => Len(walk.yielded) < walk.max) /\ walk.cursor \in Int \cup {None}
      /\ walk.scope \subseteq posted /\ posted \subseteq Ids /\ walk.prev \in Ids \cup {None}
  BY <1>2, Sizes DEF Defended, Typed, Bounded, Walks
<1>8. wanted \subseteq Ids /\ Ids \subseteq Int /\ None \notin Int /\ Members(c) \subseteq Ids
  <2>1. wanted \subseteq Ids
    BY <1>7 DEF Live
  <2>2. Ids \subseteq Int /\ None \notin Int
    BY Sizes
  <2> HIDE DEF wanted, c
  <2> QED
    BY <1>4, <2>1, <2>2 DEF c
<1>9. old \subseteq Ids
  BY <1>7, ElementOfSeq, LenProperties DEF Members
<1>10. ~Enough(c) => Members(walk'.yielded) = old \cup Members(c)
  <2>1. walk'.yielded \in Yielded(c)
    BY <1>1 DEF Listed
  <2>2. ~Enough(c) => Members(walk'.yielded) = old \cup (Members(c) \ {None})
    BY <1>4, <1>7, <2>1, YieldedHits
  <2> QED
    BY <1>8, <2>2
<1>11. walk.scope \ (deleted \cup old) \subseteq wanted
  BY <1>5, <1>6, <1>7 DEF Live
<1>12. Len(c) \in Nat /\ DOMAIN c = 1 .. Len(c) /\ (c = <<>> <=> Len(c) = 0)
  BY <1>4, ContentsAreSequences
<1> HIDE DEF c, old
<1>13. c # <<>> => Len(c) \in DOMAIN c /\ Last(c) \in Members(c) /\ Last(c) = c[Len(c)]
  <2>1. c # <<>> => Len(c) \in DOMAIN c
    BY <1>12
  <2>2. Last(c) = c[Len(c)]
    BY DEF Last
  <2>3. \A i \in DOMAIN c : c[i] \in Members(c)
    BY DEF Members
  <2> QED
    BY <2>1, <2>2, <2>3
<1>14. ASSUME ListEnds(page)
       PROVE  wanted = Members(c)
  <2>1. CASE c = <<>>
    <3>1. Len(c) # Limit
      BY <1>12, <2>1, Sizes
    <3> QED
      BY <1>4, <3>1 DEF c
  <2>2. CASE c # <<>> /\ NothingNew(c)
    <3>1. \A m \in Members(c) \ ({None} \cup Members(walk.yielded)) : \E i \in Fresh(c) : c[i] = m
      BY <1>1, FreshPlaces DEF c
    <3>2. Members(c) \subseteq old
      BY <1>8, <2>2, <3>1 DEF NothingNew, old
    <3>3. Last(c) \in old /\ Last(c) \in wanted
      BY <1>4, <1>13, <2>2, <3>2 DEF c
    <3> QED
      BY <1>5, <1>6, <3>3
  <2>3. CASE ~More(walk.kind, page)
    BY <1>4, <2>3 DEF c
  <2>4. CASE c # <<>> /\ Last(c) = None
    BY <1>8, <1>13, <2>4
  <2>5. CASE c # <<>> /\ walk.prev # None /\ Last(c) = walk.prev
    <3>1. Last(c) \in wanted /\ walk.prev = walk.cursor
      BY <1>4, <1>6, <1>13, <2>5 DEF c
    <3>2. walk.cursor \in Int /\ ~(walk.cursor < walk.cursor) /\ walk.cursor # None
      BY <1>7, <1>8, <2>5, <3>1
    <3> QED
      BY <2>5, <3>1, <3>2
  <2> QED
    BY <1>14, <2>1, <2>2, <2>3, <2>4, <2>5 DEF ListEnds, c
<1>15. CASE Enough(c) /\ walk'.pc = "enough"
  BY <1>15 DEF Running
<1>16. CASE ~Enough(c) /\ ListEnds(page) /\ walk'.pc = "end"
  <2>1. walk'.scope \subseteq deleted' \cup Members(walk'.yielded)
    BY <1>2, <1>10, <1>11, <1>14, <1>16
  <2> QED
    BY <1>16, <2>1 DEF Running
<1>17. CASE ~Enough(c) /\ ~ListEnds(page) /\ walk'.pc = "page" /\ walk'.prev = Last(c) /\ walk'.cursor = Last(c)
  <2> DEFINE last == Last(c)
  <2>1. last \in Ids /\ last \in Members(c) /\ last \in wanted /\ last # None /\ last \in Int
    BY <1>4, <1>8, <1>13, <1>17 DEF ListEnds, c
  <2>2. \A m : Ahead(m)' <=> \/ walk.kind = "BEFORE" /\ m < last
                             \/ walk.kind = "AFTER" /\ m > last
    BY <1>2, <1>17, <2>1 DEF Ahead
  <2>3. ASSUME NEW m \in Members(c)
        PROVE  m = last \/ Precedes(walk.kind = "BEFORE", m, last)
    <3>1. PICK i \in DOMAIN c : m = c[i]
      BY DEF Members
    <3>2. c # <<>>
      BY <1>12, <3>1
    <3>3. i = Len(c) \/ i < Len(c)
      BY <1>12, <3>1
    <3> QED
      BY <1>4, <1>13, <3>1, <3>2, <3>3 DEF c
  <2> HIDE DEF last
  <2>4. ASSUME NEW m \in Members(c)
        PROVE  ~Ahead(m)'
    <3>1. m \in Int /\ last \in Int
      BY <1>8, <2>1, <2>4
    <3>2. CASE walk.kind = "BEFORE"
      <4>1. (walk.kind = "BEFORE") = TRUE /\ walk.kind # "AFTER"
        BY <3>2
      <4> QED
        BY <2>2, <2>3, <3>1, <4>1 DEF Precedes
    <3>3. CASE walk.kind = "AFTER"
      <4>1. (walk.kind = "BEFORE") = FALSE /\ walk.kind # "BEFORE"
        BY <3>3
      <4> QED
        BY <2>2, <2>3, <3>1, <4>1 DEF Precedes
    <3> QED
      BY <1>2, <3>2, <3>3
  <2>5. ASSUME NEW m \in old
        PROVE  ~Ahead(m)'
    <3>1. m \in Int /\ last \in Int /\ ~Ahead(m) /\ Ahead(last)
      BY <1>5, <1>6, <1>8, <1>9, <2>1, <2>5
    <3>2. walk.cursor \in Int /\ walk.cursor # None
      BY <1>7, <3>1 DEF Ahead
    <3> QED
      BY <1>2, <2>2, <3>1, <3>2 DEF Ahead
  <2>6. ASSUME NEW m \in wanted \ Members(c)
        PROVE  Ahead(m)'
    <3>1. Precedes(walk.kind = "BEFORE", last, m)
      BY <1>4, <1>12, <1>13, <1>17, <2>6 DEF c, last, ListEnds
    <3>2. m \in Int /\ last \in Int
      BY <1>8, <2>1, <2>6
    <3>3. CASE walk.kind = "BEFORE"
      <4>1. (walk.kind = "BEFORE") = TRUE
        BY <3>3
      <4> QED
        BY <2>2, <3>1, <3>2, <3>3, <4>1 DEF Precedes
    <3>4. CASE walk.kind = "AFTER"
      <4>1. (walk.kind = "BEFORE") = FALSE
        BY <3>4
      <4> QED
        BY <2>2, <3>1, <3>2, <3>4, <4>1 DEF Precedes
    <3> QED
      BY <1>2, <3>3, <3>4
  <2>7. \A m \in Members(walk'.yielded) : ~Ahead(m)'
    BY <1>10, <1>17, <2>4, <2>5
  <2>8. \A m \in walk'.scope \ (deleted' \cup Members(walk'.yielded)) : Ahead(m)'
    BY <1>2, <1>10, <1>11, <1>17, <2>6
  <2> QED
    BY <1>17, <2>7, <2>8
<1> QED
  BY <1>1, <1>15, <1>16, <1>17 DEF Listed, c

(* What is posted is not in the scope of a walk; what is deleted need not  *)
(* be yielded; a walk that stops otherwise is not said to be complete; and *)
(* a search is no walk over a channel.                                     *)
LEMMA OthersFollow ==
  ASSUME Defended, ListsFollow,
         \/ Post \/ Delete
         \/ HitCap \/ Abandon
         \/ Followed(walk') /\ walk.kind = "search"
  PROVE  ListsFollow'
<1>1. CASE Post
  <2>1. UNCHANGED <<honest, deleted, walk>>
    BY <1>1 DEF Post
  <2> QED
    BY <2>1 DEF ListsFollow, Running, Ahead
<1>2. CASE Delete
  <2>1. UNCHANGED <<honest, walk>> /\ deleted \subseteq deleted'
    BY <1>2 DEF Delete
  <2> QED
    BY <2>1 DEF ListsFollow, Running, Ahead
<1>3. CASE HitCap \/ Abandon
  <2>1. walk'.pc \in {"capped", "abandoned"}
    BY <1>3, StopsDefended DEF HitCap, Abandon, Outcomes
  <2> QED
    BY <2>1 DEF ListsFollow, Running
<1>4. CASE Followed(walk') /\ walk.kind = "search"
  BY <1>4 DEF Followed, ListsFollow
<1> QED
  BY <1>1, <1>2, <1>3, <1>4

-----------------------------------------------------------------------------
(* Over an honest search: no second is passed without a hit *)

(* Times are even, and ordered as the messages are.                        *)
LEMMA Times ==
  ASSUME Typed
  PROVE  /\ posted \subseteq Ids /\ Ids \subseteq Nat
         /\ \A m \in Ids : second[m] \in Nat /\ Time(m) \in Nat /\ Time(m) = 2 * second[m]
         /\ \A a, b \in Ids : Time(a) < Time(b) => a < b
         /\ \A a, b \in Ids : Time(a) = Time(b) <=> second[a] = second[b]
         /\ \A a, b \in Ids : a < b => Time(a) <= Time(b)
<1>1. posted \subseteq Ids /\ Ids \subseteq Nat
  BY Sizes DEF Typed
<1>2. \A m \in Ids : second[m] \in Nat
  BY Sizes DEF Typed
<1>3. \A m \in Ids : Time(m) \in Nat /\ Time(m) = 2 * second[m]
  BY <1>2 DEF Time
<1>4. \A a, b \in Ids : a < b => second[a] <= second[b]
  BY DEF Typed
<1>5. \A a, b \in Ids : a < b => Time(a) <= Time(b)
  BY <1>2, <1>3, <1>4
<1>6. ASSUME NEW a \in Ids, NEW b \in Ids, Time(a) < Time(b)
      PROVE  a < b
  <2>1. ~(b < a) /\ a # b
    BY <1>3, <1>5, <1>6
  <2> QED
    BY <1>1, <2>1
<1>7. \A a, b \in Ids : Time(a) = Time(b) <=> second[a] = second[b]
  BY <1>2, <1>3
<1> QED
  BY <1>1, <1>2, <1>3, <1>5, <1>6, <1>7

(* A page of a search has as many hits as it has places.                   *)
LEMMA PageSize ==
  ASSUME NEW S, NEW c \in Contents(S), IsInjective(c)
  PROVE  /\ IsFiniteSet(Members(c)) /\ Cardinality(Members(c)) = Len(c)
         /\ Cardinality(Members(c)) <= Limit
<1>1. Len(c) \in Nat /\ Len(c) <= Limit /\ DOMAIN c = 1 .. Len(c) /\ c \in [1 .. Len(c) -> S]
  BY ContentsAreSequences
<1>2. Members(c) = {c[i] : i \in 1 .. Len(c)}
  BY <1>1 DEF Members
<1>3. c \in [1 .. Len(c) -> Members(c)]
  BY <1>1, <1>2
<1>4. c \in Bijection(1 .. Len(c), Members(c))
  BY <1>1, <1>2, <1>3 DEF Bijection, Injection, Surjection, IsInjective
<1>5. IsFiniteSet(1 .. Len(c)) /\ Cardinality(1 .. Len(c)) = Len(c)
  BY <1>1, FS_Interval
<1>6. ExistsBijection(1 .. Len(c), Members(c))
  BY <1>4 DEF ExistsBijection
<1>7. IsFiniteSet(Members(c)) /\ Cardinality(Members(c)) = Cardinality(1 .. Len(c))
  BY <1>5, <1>6, FS_Bijection
<1> QED
  BY <1>1, <1>5, <1>7

(* Past the time of a message is past the end of the second before it.     *)
LEMMA PastBelow ==
  ASSUME Typed, NEW all, all \subseteq Ids, NEW prev \in Ids \cup {None}, NEW p \in posted,
         PastWith(Time(p), all, prev)
  PROVE  PastWith(Time(p) - 1, all, prev)
<1> DEFINE t == Time(p)
<1>1. t \in Nat /\ \A m \in Ids : Time(m) \in Nat /\ (Time(m) < t <=> Time(m) < t - 1)
  <2>1. p \in Ids /\ \A m \in Ids : second[m] \in Nat /\ Time(m) \in Nat /\ Time(m) = 2 * second[m]
    BY Times
  <2>2. t \in Nat /\ t = 2 * second[p] /\ second[p] \in Nat
    BY <2>1
  <2> HIDE DEF t
  <2> SUFFICES ASSUME NEW m \in Ids PROVE Time(m) < t => Time(m) < t - 1
    BY <2>1, <2>2
  <2>3. Time(m) = 2 * second[m] /\ second[m] \in Nat /\ Time(m) \in Nat
    BY <2>1
  <2> QED
    BY <2>2, <2>3
<1>2. walk.scope \subseteq Ids /\ posted \subseteq Ids
  BY Times DEF Typed
<1>3. Early(t, all) = Early(t - 1, all)
  BY <1>1 DEF Early
<1> HIDE DEF t
<1>4. PastWith(t, all, prev)
  BY DEF t
<1>5. \E q \in posted : Time(q) >= t - 1
  BY <1>1, <1>2, <1>4 DEF PastWith
<1>6. prev # None => Time(prev) >= t - 1
  BY <1>1, <1>4 DEF PastWith
<1>7. \A m \in walk.scope : Time(m) < t - 1 \/ \E hit \in all : second[hit] = second[m]
  BY <1>1, <1>2, <1>4 DEF PastWith
<1>8. \A a \in Early(t - 1, all) : \A b \in posted : b > a /\ Time(b) < t - 1 => b \in all
  BY <1>1, <1>2, <1>3, <1>4 DEF PastWith
<1>9. Cardinality(Early(t - 1, all)) < Limit
  BY <1>3, <1>4 DEF PastWith
<1> QED
  BY <1>5, <1>6, <1>7, <1>8, <1>9 DEF PastWith, t

(* A page from before the cursor that brings something new brings all that *)
(* was left of the seconds after its oldest, and leaves nothing early.     *)
LEMMA PageDescends ==
  ASSUME Typed, NEW all, all \subseteq posted, NEW prev \in Ids \cup {None},
         walk.cursor = None => all = {}, walk.cursor # None => PastWith(walk.cursor, all, prev),
         deleted = {}, NEW page \in HonestSearch(walk.cursor), page.content # <<>>,
         \E m \in Members(page.content) : m \notin all,
         NEW t \in Nat, LeastOf(t, page.content)
  PROVE  /\ PastWith(t, all \cup Members(page.content), page.content[1])
         /\ \E p \in posted : Time(p) = t
         /\ walk.cursor # None => t < walk.cursor
<1> DEFINE c == page.content
           hits == {m \in Live : walk.cursor = None \/ Time(m) < walk.cursor}
           both == all \cup Members(c)
<1>1. /\ posted \subseteq Ids /\ Ids \subseteq Nat
      /\ \A m \in Ids : second[m] \in Nat /\ Time(m) \in Nat
      /\ \A a, b \in Ids : Time(a) < Time(b) => a < b
      /\ \A a, b \in Ids : Time(a) = Time(b) <=> second[a] = second[b]
      /\ \A a, b \in Ids : a < b => Time(a) <= Time(b)
      /\ None \notin Ids /\ Limit \in Nat \ {0}
  BY Times, Sizes
<1>2. /\ c \in Contents(hits) /\ Members(c) \subseteq hits
      /\ \A m \in hits \ Members(c) : Len(c) = Limit /\ \A x \in Members(c) : x > m
  BY SearchedPage
<1>3. hits = {m \in posted : walk.cursor = None \/ Time(m) < walk.cursor}
  BY DEF Live
<1> HIDE DEF hits
<1>4. Members(c) \subseteq posted /\ Members(c) \subseteq Ids
  BY <1>1, <1>2, <1>3
<1>5. c[1] \in Members(c)
  <2>1. 1 \in DOMAIN c
    BY <1>2, ContentsAreSequences
  <2> QED
    BY <2>1 DEF Members
<1> HIDE DEF c
<1>6. PICK o \in Members(c) : Time(o) = t /\ \A m \in Members(c) : t <= Time(m)
  BY <1>1, <1>4 DEF LeastOf, c
<1>7. walk.cursor \in Int \cup {None} /\ walk.scope \subseteq posted
  BY DEF Typed, Walks
<1>8. walk.cursor # None => t < walk.cursor
  BY <1>2, <1>3, <1>6
<1>9. Early(t, both) = {}
  <2> SUFFICES ASSUME NEW a \in both, Time(a) < t PROVE FALSE
    BY DEF Early
  <2>1. a \in all /\ a \in posted /\ a \in Ids /\ Time(a) \in Nat
    <3>1. a \in Ids /\ Time(a) \in Nat
      BY <1>1, <1>4
    <3>2. a \notin Members(c)
      BY <1>6, <3>1
    <3> QED
      BY <3>1, <3>2
  <2>2. walk.cursor # None /\ walk.cursor \in Int /\ Time(a) < walk.cursor
    BY <1>7, <1>8, <2>1
  <2>3. \A x \in Early(walk.cursor, all) : \A b \in posted : b > x /\ Time(b) < walk.cursor => b \in all
    BY <2>2 DEF PastWith
  <2>4. a \in Early(walk.cursor, all)
    BY <2>1, <2>2 DEF Early
  <2>5. ASSUME NEW m \in Members(c)
        PROVE  m \in all
    <3>1. m \in posted /\ m \in Ids /\ Time(m) < walk.cursor /\ Time(m) \in Nat
      BY <1>1, <1>2, <1>3, <1>4, <2>2
    <3>2. Time(a) < Time(m)
      BY <1>6, <2>1, <3>1
    <3>3. a < m /\ a \in Nat /\ m \in Nat
      BY <1>1, <2>1, <3>1, <3>2
    <3> QED
      BY <2>3, <2>4, <3>1, <3>3
  <2> QED
    BY <2>5 DEF c
<1>10. Cardinality(Early(t, both)) < Limit
  <2>1. Cardinality(Early(t, both)) = 0
    BY <1>9, FS_EmptySet
  <2> QED
    BY <1>1, <2>1
<1>11. ASSUME NEW m \in walk.scope, ~(Time(m) < t)
       PROVE  \E hit \in both : second[hit] = second[m]
  <2>1. m \in posted /\ m \in Ids /\ Time(m) \in Nat /\ o \in Ids /\ o \in Nat /\ m \in Nat
    BY <1>1, <1>4, <1>7
  <2>2. CASE m \in Members(c)
    BY <2>2
  <2>3. CASE m \in hits \ Members(c)
    <3>1. m < o
      BY <1>2, <2>1, <2>3
    <3>2. Time(m) = Time(o)
      <4>1. Time(m) <= Time(o) /\ Time(o) = t
        BY <1>1, <1>6, <2>1, <3>1
      <4> QED
        BY <1>11, <2>1, <4>1
    <3>3. second[o] = second[m]
      BY <1>1, <2>1, <3>2
    <3> QED
      BY <3>3
  <2>4. CASE m \notin hits
    <3>1. walk.cursor # None /\ walk.cursor \in Int /\ ~(Time(m) < walk.cursor)
      BY <1>3, <1>7, <2>1, <2>4
    <3>2. \E hit \in all : second[hit] = second[m]
      BY <3>1 DEF PastWith
    <3> QED
      BY <3>2
  <2> QED
    BY <2>2, <2>3, <2>4
<1>12. \E p \in posted : Time(p) = t /\ Time(p) >= t
  BY <1>4, <1>6
<1>13. Time(c[1]) >= t
  BY <1>1, <1>4, <1>5, <1>6
<1>14. PastWith(t, both, c[1])
  BY <1>9, <1>10, <1>11, <1>12, <1>13 DEF PastWith
<1> QED
  BY <1>8, <1>12, <1>14 DEF c

(* An overlap brings in more of what is early, always the newest of it, or *)
(* the same; it cannot bring in a page full, for it holds the message the  *)
(* overlap is about.                                                       *)
LEMMA OverlapDescends ==
  ASSUME Typed, NEW all, all \subseteq posted, NEW prev, NEW o \in posted,
         PastWith(Time(o), all, prev), deleted = {}, NEW page \in HonestSearch(Time(o) + OverlapStep)
  PROVE  /\ PastWith(Time(o), all \cup Members(page.content), prev)
         /\ Members(page.content) \subseteq posted
<1> DEFINE c == page.content
           t == Time(o)
           hits == {m \in Live : t + OverlapStep = None \/ Time(m) < t + OverlapStep}
           both == all \cup Members(c)
           old == Early(t, all)
           new == {m \in Members(c) : Time(m) < t}
<1>1. /\ posted \subseteq Ids /\ Ids \subseteq Nat
      /\ \A m \in Ids : second[m] \in Nat /\ Time(m) \in Nat
      /\ \A a, b \in Ids : Time(a) < Time(b) => a < b
      /\ None \notin Int /\ Limit \in Nat \ {0}
  BY Times, Sizes
<1>2. /\ c \in Contents(hits) /\ Members(c) \subseteq hits /\ IsInjective(c)
      /\ \A m \in hits \ Members(c) : Len(c) = Limit /\ \A x \in Members(c) : x > m
  BY SearchedPage
<1>3. t \in Nat /\ o \in Ids
  BY <1>1
<1>4. hits = {m \in posted : Time(m) < t + 2}
  <2>1. t + OverlapStep # None /\ OverlapStep = 2
    BY <1>1, <1>3 DEF OverlapStep
  <2> QED
    BY <2>1 DEF Live
<1>5. /\ IsFiniteSet(Members(c)) /\ Cardinality(Members(c)) <= Limit
  BY <1>2, PageSize
<1> HIDE DEF hits, c
<1>6. Members(c) \subseteq posted
  BY <1>2, <1>4
<1>7. \A m \in posted : Time(m) < t => m \in hits
  BY <1>1, <1>3, <1>4
<1>8. o \in hits
  BY <1>3, <1>4
<1>9. Early(t, both) = old \cup new
  BY DEF Early
<1>10. new \subseteq old \/ old \subseteq new
  <2> SUFFICES ASSUME NEW a \in old, a \notin new, NEW b \in new PROVE b \in old
    OBVIOUS
  <2>1. a \in posted /\ Time(a) < t /\ b \in posted /\ Time(b) < t /\ a \notin Members(c)
    BY <1>6 DEF Early
  <2>2. b > a
    BY <1>2, <1>7, <2>1
  <2>3. b \in all
    BY <2>1, <2>2 DEF PastWith
  <2> QED
    BY <2>1, <2>3 DEF Early
<1>11. CASE new \subseteq old
  <2>1. Early(t, both) = old
    BY <1>9, <1>11
  <2> QED
    BY <1>6, <2>1 DEF PastWith, c
<1>12. CASE old \subseteq new
  <2>1. Early(t, both) = new
    BY <1>9, <1>12
  <2>2. ASSUME NEW a \in new, NEW b \in posted, b > a, Time(b) < t
        PROVE  b \in both
    <3>1. a \in Nat /\ b \in Nat /\ b \in hits
      BY <1>1, <1>6, <1>7, <2>2
    <3>2. ~(a > b)
      BY <2>2, <3>1
    <3> QED
      BY <1>2, <2>2, <3>1, <3>2
  <2>3. Cardinality(new) < Limit
    <3>1. CASE new = {}
      BY <1>1, <3>1, FS_EmptySet
    <3>2. CASE new # {}
      <4>1. PICK a \in new : TRUE
        BY <3>2
      <4>2. a \in Ids /\ Time(a) < Time(o) /\ a \in Members(c)
        BY <1>1, <1>6, <4>1
      <4>3. a < o /\ a \in Nat /\ o \in Nat
        BY <1>1, <1>3, <4>2
      <4>4. o \in Members(c)
        BY <1>2, <1>8, <4>2, <4>3
      <4>5. o \notin new
        BY <1>3
      <4>6. new \in SUBSET Members(c) /\ new # Members(c)
        BY <4>4, <4>5
      <4>7. Cardinality(new) <= Cardinality(Members(c)) /\ Cardinality(new) # Cardinality(Members(c))
            /\ IsFiniteSet(new)
        BY <1>5, <4>6, FS_Subset
      <4>8. Cardinality(new) \in Nat /\ Cardinality(Members(c)) \in Nat
        BY <1>5, <4>7, FS_CardinalityType
      <4> QED
        BY <1>1, <1>5, <4>7, <4>8
    <3> QED
      BY <3>1, <3>2
  <2> HIDE DEF new
  <2> QED
    BY <1>6, <2>1, <2>2, <2>3 DEF PastWith, c
<1> QED
  BY <1>10, <1>11, <1>12

(* A page of the walk proper: the walk goes on past the oldest hit of it,  *)
(* or has met every second.                                                *)
LEMMA SearchPageDescends == Defended /\ SearchesDescend /\ SearchPage => SearchesDescend'
<1> SUFFICES ASSUME Defended, SearchesDescend, SearchPage, honest', deleted' = {}
             PROVE  /\ Running' => Members(walk'.yielded) \subseteq posted'
                    /\ walk'.pc = "page" =>
                        IF walk'.cursor = None THEN walk'.yielded = <<>> /\ walk'.prev = None
                                               ELSE Past(walk.cursor)'
                    /\ walk'.pc = "overlap" =>
                        /\ Past(walk.oldest)' /\ \E p \in posted' : Time(p)' = walk'.oldest
                        /\ ~walk'.last /\ (walk'.cursor # None => walk'.oldest < walk'.cursor)
                    /\ walk'.pc = "end" =>
                        \A m \in walk'.scope : \E hit \in Members(walk'.yielded) : second'[hit] = second'[m]
  BY DEF SearchesDescend
<1>1. PICK page \in Pages(HonestSearch(walk.cursor)) : Searched(page, walk') /\ Followed(walk')
  BY SearchPageIs DEF Defended
<1> DEFINE c == page.content
           old == Members(walk.yielded)
           hits == {m \in Live : walk.cursor = None \/ Time(m) < walk.cursor}
           end == \A m \in walk.scope : \E hit \in Members(walk'.yielded) : second[hit] = second[m]
<1>2. /\ honest /\ deleted = {} /\ walk.kind = "search" /\ walk.pc = "page" /\ Running
      /\ second' = second /\ posted' = posted /\ walk'.scope = walk.scope /\ \A m : Time(m)' = Time(m)
  BY <1>1 DEF SearchPage, Running, world, Followed, Time
<1>3. page \in HonestSearch(walk.cursor)
  BY <1>2 DEF Pages
<1>4. /\ old \subseteq posted
      /\ walk.cursor = None => walk.yielded = <<>> /\ walk.prev = None
      /\ walk.cursor # None => PastWith(walk.cursor, old, walk.prev)
  BY <1>2 DEF SearchesDescend, Past
<1>5. walk.cursor = None => old = {}
  BY <1>4 DEF Members
<1>7. /\ c \in Contents(hits) /\ c \in Contents(Ids \cup {None}) /\ Members(c) \subseteq hits
      /\ page.timed /\ page.older \in BOOLEAN /\ (page.older <=> hits # Members(c))
      /\ \A m \in hits \ Members(c) : Len(c) = Limit /\ \A x \in Members(c) : x > m
      /\ IsInjective(c)
  BY <1>3, SearchedPage DEF Defended
<1>8. hits = {m \in posted : walk.cursor = None \/ Time(m) < walk.cursor}
  BY <1>2 DEF Live
<1>9. /\ posted \subseteq Ids /\ Ids \subseteq Nat /\ None \notin Int /\ None \notin Ids
      /\ Limit \in Nat \ {0} /\ \A m \in Ids : Time(m) \in Nat
  BY Times, Sizes DEF Defended
<1>10. /\ walk.yielded \in Seq(Ids) /\ walk.max \in {None, MaxResults} /\ NothingTwice
       /\ (walk.max # None => Len(walk.yielded) < walk.max)
       /\ walk.cursor \in Int \cup {None} /\ walk.prev \in Ids \cup {None} /\ walk.scope \subseteq posted
  BY <1>2 DEF Defended, Typed, Bounded, Walks
<1>11. Len(c) \in Nat /\ DOMAIN c = 1 .. Len(c) /\ (c = <<>> <=> Len(c) = 0)
  BY <1>7, ContentsAreSequences
<1>12. Cardinality(Members(c)) = Len(c)
  BY <1>7, PageSize
<1>13. \A m \in Members(c) \ ({None} \cup old) : \E i \in Fresh(c) : c[i] = m
  BY <1>7, FreshPlaces
<1>14. \A i \in Fresh(c) : c[i] \in Members(c) /\ c[i] \notin old
  BY DEF Fresh, Members
<1>15. ~Enough(c) /\ walk'.yielded \in Yielded(c) => Members(walk'.yielded) = old \cup (Members(c) \ {None})
  BY <1>7, <1>10, YieldedHits
<1> HIDE DEF hits, c, old
<1>16. Members(c) \subseteq posted /\ Members(c) \subseteq Ids
  BY <1>7, <1>8, <1>9 DEF c, hits
<1>17. ~Enough(c) /\ walk'.yielded \in Yielded(c) => Members(walk'.yielded) = old \cup Members(c)
  BY <1>9, <1>15, <1>16
(* All that is before the cursor is met: so is all the rest.               *)
<1>18. ASSUME hits = {} \/ (hits = Members(c) /\ Members(c) \subseteq Members(walk'.yielded)),
              old \subseteq Members(walk'.yielded)
       PROVE  end
  <2> SUFFICES ASSUME NEW m \in walk.scope
               PROVE  \E hit \in Members(walk'.yielded) : second[hit] = second[m]
    OBVIOUS
  <2>1. m \in posted
    BY <1>10
  <2>2. CASE m \in hits
    BY <1>18, <2>2
  <2>3. CASE m \notin hits
    <3>1. walk.cursor # None /\ ~(Time(m) < walk.cursor)
      BY <1>8, <2>1, <2>3
    <3>2. \E hit \in old : second[hit] = second[m]
      BY <1>4, <3>1 DEF PastWith
    <3> QED
      BY <1>18, <3>2
  <2> QED
    BY <2>2, <2>3
<1>19. ASSUME c = <<>> \/ (c[1] # None /\ c[1] = walk.prev), walk'.pc = "end", walk'.yielded = walk.yielded
       PROVE  end
  <2>1. CASE c = <<>>
    <3>1. Members(c) = {} /\ Len(c) # Limit
      BY <1>9, <1>11, <2>1 DEF Members
    <3>2. hits = {}
      BY <1>7, <3>1 DEF hits, c
    <3>3. old \subseteq Members(walk'.yielded)
      BY <1>19 DEF old
    <3> HIDE DEF end
    <3> QED
      BY <1>18, <3>2, <3>3
  <2>2. CASE c # <<>> /\ c[1] # None /\ c[1] = walk.prev
    <3>1. c[1] \in Members(c)
      BY <1>11, <2>2 DEF Members
    <3>2. walk.cursor # None /\ walk.cursor \in Int
      BY <1>4, <1>10, <2>2
    <3>3. Time(c[1]) < walk.cursor /\ Time(c[1]) >= walk.cursor /\ Time(c[1]) \in Nat
      BY <1>4, <1>7, <1>8, <1>9, <1>16, <2>2, <3>1, <3>2 DEF PastWith, c, hits
    <3> QED
      BY <3>2, <3>3
  <2> QED
    BY <1>19, <2>1, <2>2
<1>20. ASSUME c # <<>>, walk'.yielded \in Yielded(c), ~Enough(c), NothingNew(c)
       PROVE  end
  <2>1. Members(c) \subseteq old
    BY <1>9, <1>13, <1>16, <1>20 DEF NothingNew
  <2>2. c[1] \in Members(c)
    BY <1>11, <1>20 DEF Members
  <2>3. walk.cursor # None
    BY <1>5, <2>1, <2>2 DEF old
  <2>4. Members(c) \in SUBSET Early(walk.cursor, old) /\ Early(walk.cursor, old) \in SUBSET Ids
    BY <1>4, <1>7, <1>8, <1>9, <2>1, <2>3 DEF Early, c, hits
  <2>5. IsFiniteSet(Early(walk.cursor, old))
    BY <2>4, FS_Subset, WalkAssumption
  <2>6. Cardinality(Members(c)) <= Cardinality(Early(walk.cursor, old))
        /\ Cardinality(Early(walk.cursor, old)) \in Nat
    BY <2>4, <2>5, FS_Subset, FS_CardinalityType
  <2>7. Cardinality(Early(walk.cursor, old)) < Limit
    BY <1>4, <2>3 DEF PastWith
  <2>8. Len(c) # Limit
    BY <1>9, <1>11, <1>12, <2>6, <2>7 DEF c
  <2>9. hits = Members(c)
    BY <1>7, <2>8 DEF c, hits
  <2> QED
    BY <1>17, <1>18, <1>20, <2>9
<1>21. ASSUME walk'.yielded \in Yielded(c), ~Enough(c), ~NothingNew(c), c # <<>>,
              NEW t \in Nat, LeastOf(t, c)
       PROVE  /\ PastWith(t, Members(walk'.yielded), c[1])
              /\ \E p \in posted : Time(p) = t
              /\ walk.cursor # None => t < walk.cursor
  <2>1. \E m \in Members(c) : m \notin old
    BY <1>14, <1>21 DEF NothingNew
  <2>2. old \subseteq posted /\ walk.prev \in Ids \cup {None}
    BY <1>4, <1>10
  <2>3. /\ PastWith(t, old \cup Members(c), c[1])
        /\ \E p \in posted : Time(p) = t
        /\ walk.cursor # None => t < walk.cursor
    BY <1>2, <1>3, <1>4, <1>5, <1>21, <2>1, <2>2, PageDescends DEF Defended, c
  <2> QED
    BY <1>17, <1>21, <2>3
<1>22. ASSUME walk'.yielded \in Yielded(c), ~Enough(c), ~NothingNew(c), c # <<>>,
              NEW t \in Nat, LeastOf(t, c), GoesOn(walk', c, page.older, t)
       PROVE  /\ Members(walk'.yielded) \subseteq posted
              /\ walk'.pc = "page" =>
                    walk'.cursor # None /\ PastWith(walk'.cursor, Members(walk'.yielded), walk'.prev)
              /\ walk'.pc = "overlap" =>
                    /\ PastWith(walk'.oldest, Members(walk'.yielded), walk'.prev)
                    /\ \E p \in posted : Time(p) = walk'.oldest
                    /\ ~walk'.last /\ (walk'.cursor # None => walk'.oldest < walk'.cursor)
              /\ walk'.pc = "end" => end
  <2>1. Members(walk'.yielded) = old \cup Members(c) /\ old \cup Members(c) \subseteq posted
    BY <1>4, <1>16, <1>17, <1>22
  <2>2. PICK p \in posted : Time(p) = t
    BY <1>21, <1>22
  <2>3. PastWith(t, Members(walk'.yielded), c[1]) /\ (walk.cursor # None => t < walk.cursor)
    BY <1>21, <1>22
  <2>4. c[1] \in Ids
    BY <1>11, <1>16, <1>22 DEF Members
  <2>5. CASE walk'.pc = "page" /\ walk'.cursor = t - 1 /\ walk'.prev = c[1]
    <3>1. PastWith(t - 1, Members(walk'.yielded), c[1])
      BY <1>9, <2>1, <2>2, <2>3, <2>4, PastBelow DEF Defended
    <3>2. t - 1 # None
      BY <1>9
    <3> QED
      BY <2>1, <2>5, <3>1, <3>2
  <2>6. CASE walk'.pc = "overlap" /\ page.older /\ walk'.oldest = t /\ ~walk'.last /\ walk'.prev = c[1]
             /\ walk'.cursor = walk.cursor
    BY <2>1, <2>2, <2>3, <2>6
  <2>7. CASE walk'.pc = "end" /\ (~page.older \/ (walk.cursor # None /\ t - 1 >= walk.cursor))
    <3>1. ~(walk.cursor # None /\ t - 1 >= walk.cursor)
      BY <1>10, <2>3
    <3>2. hits = Members(c)
      BY <1>7, <2>7, <3>1 DEF c, hits
    <3>3. end
      BY <1>18, <2>1, <3>2
    <3> QED
      BY <2>1, <2>7, <3>3
  <2> QED
    BY <1>22, <2>5, <2>6, <2>7 DEF GoesOn
<1> HIDE DEF end
<1>23. CASE walk'.pc = "enough"
  BY <1>23 DEF Running
<1>24. CASE walk'.pc = "end" /\ end
  BY <1>2, <1>24 DEF Running, end
<1>25. CASE \E t \in Nat : /\ walk'.yielded \in Yielded(c) /\ ~Enough(c) /\ ~NothingNew(c) /\ c # <<>>
                           /\ LeastOf(t, c) /\ GoesOn(walk', c, page.older, t)
  <2>1. \A t : Past(t)' <=> PastWith(t, Members(walk'.yielded), walk'.prev)
    BY <1>2 DEF Past, PastWith, Early
  <2> QED
    BY <1>2, <1>22, <1>25, <2>1 DEF end
<1> QED
  <2>1. c # <<>> => c[1] \in Members(c)
    BY <1>11 DEF Members
  <2>2. ~(c # <<>> /\ Members(c) \subseteq {None})
    BY <1>9, <1>16, <2>1
  <2>3. page.timed
    BY <1>7
  <2>4. \/ /\ c = <<>> \/ (c[1] # None /\ c[1] = walk.prev)
           /\ walk'.pc = "end" /\ walk'.yielded = walk.yielded
        \/ /\ c # <<>> /\ walk'.yielded \in Yielded(c)
           /\ \/ Enough(c) /\ walk'.pc = "enough"
              \/ NothingNew(c) /\ walk'.pc = "end"
              \/ ~Enough(c) /\ ~NothingNew(c) /\ walk'.pc = "end" /\ (page.timed => Members(c) \subseteq {None})
              \/ /\ ~Enough(c) /\ ~NothingNew(c)
                 /\ \E t \in Nat : LeastOf(t, c) /\ GoesOn(walk', c, page.older, t)
    BY <1>1, Zenon DEF Searched, c
  <2>5. NothingNew(c) => ~Enough(c)
    BY DEF Enough
  <2>6. CASE /\ c = <<>> \/ (c[1] # None /\ c[1] = walk.prev)
             /\ walk'.pc = "end" /\ walk'.yielded = walk.yielded
    BY <1>19, <1>24, <2>6
  <2>7. CASE c # <<>> /\ walk'.yielded \in Yielded(c) /\ NothingNew(c) /\ walk'.pc = "end"
    BY <1>20, <1>24, <2>5, <2>7
  <2>8. CASE /\ c # <<>> /\ walk'.yielded \in Yielded(c) /\ ~Enough(c) /\ ~NothingNew(c)
             /\ \E t \in Nat : LeastOf(t, c) /\ GoesOn(walk', c, page.older, t)
    BY <1>25, <2>8
  <2> QED
    BY <1>23, <2>2, <2>3, <2>4, <2>6, <2>7, <2>8

(* An overlap: the walk is still past the same time, and then below it.    *)
LEMMA SearchOverlapDescends == Defended /\ SearchesDescend /\ SearchOverlap => SearchesDescend'
<1> SUFFICES ASSUME Defended, SearchesDescend, SearchOverlap, honest', deleted' = {}
             PROVE  /\ Running' => Members(walk'.yielded) \subseteq posted'
                    /\ walk'.pc = "page" =>
                        IF walk'.cursor = None THEN walk'.yielded = <<>> /\ walk'.prev = None
                                               ELSE Past(walk.cursor)'
                    /\ walk'.pc = "overlap" =>
                        /\ Past(walk.oldest)' /\ \E p \in posted' : Time(p)' = walk'.oldest
                        /\ ~walk'.last /\ (walk'.cursor # None => walk'.oldest < walk'.cursor)
                    /\ walk'.pc = "end" =>
                        \A m \in walk'.scope : \E hit \in Members(walk'.yielded) : second'[hit] = second'[m]
  BY DEF SearchesDescend
<1>1. PICK page \in Pages(HonestSearch(walk.oldest + OverlapStep)) :
        Overlapped(page, walk') /\ Followed(walk')
  BY SearchOverlapIs DEF Defended
<1> DEFINE c == page.content
           old == Members(walk.yielded)
<1>2. /\ honest /\ deleted = {} /\ walk.kind = "search" /\ walk.pc = "overlap" /\ Running
      /\ second' = second /\ posted' = posted /\ walk'.scope = walk.scope /\ \A m : Time(m)' = Time(m)
  BY <1>1 DEF SearchOverlap, Running, world, Followed, Time, Defended, Typed
<1>3. page \in HonestSearch(walk.oldest + OverlapStep)
  BY <1>2 DEF Pages
<1>4. /\ old \subseteq posted /\ PastWith(walk.oldest, old, walk.prev)
      /\ \E p \in posted : Time(p) = walk.oldest
      /\ ~walk.last /\ (walk.cursor # None => walk.oldest < walk.cursor)
  BY <1>2 DEF SearchesDescend, Past
<1>5. PICK o \in posted : Time(o) = walk.oldest
  BY <1>4
<1>6. /\ PastWith(Time(o), old \cup Members(c), walk.prev)
      /\ Members(c) \subseteq posted
  BY <1>2, <1>3, <1>4, <1>5, OverlapDescends DEF Defended
<1>7. /\ walk.yielded \in Seq(Ids) /\ walk.max \in {None, MaxResults} /\ NothingTwice
      /\ (walk.max # None => Len(walk.yielded) < walk.max) /\ walk.prev \in Ids \cup {None}
      /\ walk.cursor \in Int \cup {None} /\ posted \subseteq Ids
  BY <1>2, Times DEF Defended, Typed, Bounded, Walks
<1>8. None \notin Int /\ None \notin Ids /\ Time(o) \in Int
  BY <1>7, Times, Sizes DEF Defended
<1>9. c \in Contents(Ids \cup {None})
  BY <1>1, PagesHaveContents DEF Defended
<1>10. ~Enough(c) /\ walk'.yielded \in Yielded(c) => Members(walk'.yielded) = old \cup (Members(c) \ {None})
  BY <1>7, <1>9, YieldedHits
<1> HIDE DEF c, old
<1>11. ~Enough(c) /\ walk'.yielded \in Yielded(c) => Members(walk'.yielded) = old \cup Members(c)
  BY <1>6, <1>7, <1>8, <1>10
<1>12. \A t : Past(t)' <=> PastWith(t, Members(walk'.yielded), walk'.prev)
  BY <1>2 DEF Past, PastWith, Early
<1>13. ASSUME NEW all, all \subseteq posted, PastWith(Time(o), all, walk.prev), Members(walk'.yielded) = all,
              Lowered(walk')
       PROVE  walk'.pc = "page" /\ walk'.cursor # None /\ Past(walk.cursor)'
  <2>1. ~(walk.cursor # None /\ walk.oldest - 1 >= walk.cursor)
    BY <1>4, <1>5, <1>7, <1>8
  <2>2. walk'.pc = "page" /\ walk'.cursor = Time(o) - 1 /\ walk'.prev = walk.prev
    BY <1>4, <1>5, <1>13, <2>1 DEF Lowered
  <2>3. PastWith(Time(o) - 1, all, walk.prev)
    BY <1>7, <1>13, PastBelow DEF Defended
  <2>4. Time(o) - 1 # None
    BY <1>8
  <2> QED
    BY <1>12, <1>13, <2>2, <2>3, <2>4
<1>14. CASE walk'.yielded = walk.yielded /\ Lowered(walk')
  <2>1. Members(walk'.yielded) = old /\ PastWith(Time(o), old, walk.prev)
    BY <1>4, <1>5, <1>14 DEF old
  <2>2. walk'.pc = "page" /\ walk'.cursor # None /\ Past(walk.cursor)'
    BY <1>4, <1>13, <1>14, <2>1
  <2> QED
    BY <1>2, <1>4, <2>1, <2>2
<1>15. CASE walk'.yielded \in Yielded(c) /\ Enough(c) /\ walk'.pc = "enough"
  BY <1>15 DEF Running
<1>16. CASE walk'.yielded \in Yielded(c) /\ ~Enough(c) /\ Lowered(walk')
  <2>1. Members(walk'.yielded) = old \cup Members(c) /\ old \cup Members(c) \subseteq posted
    BY <1>4, <1>6, <1>11, <1>16
  <2>2. walk'.pc = "page" /\ walk'.cursor # None /\ Past(walk.cursor)'
    BY <1>6, <1>13, <1>16, <2>1
  <2> QED
    BY <1>2, <2>1, <2>2
<1>17. CASE /\ walk'.yielded \in Yielded(c) /\ ~Enough(c)
            /\ walk'.pc = "overlap" /\ walk'.oldest = walk.oldest /\ walk'.cursor = walk.cursor
            /\ walk'.prev = walk.prev /\ walk'.last = walk.last
  <2>1. Members(walk'.yielded) = old \cup Members(c) /\ old \cup Members(c) \subseteq posted
    BY <1>4, <1>6, <1>11, <1>17
  <2>2. Past(walk.oldest)'
    BY <1>5, <1>6, <1>12, <1>17, <2>1
  <2> QED
    BY <1>2, <1>4, <1>17, <2>1, <2>2
<1> QED
  BY <1>1, <1>14, <1>15, <1>16, <1>17 DEF Overlapped, c

(* What is posted is later than all that is past; a walk that stops is not *)
(* said to have met everything.                                            *)
LEMMA OthersDescend ==
  ASSUME Defended, SearchesDescend,
         \/ Post \/ Delete
         \/ HitCap \/ Abandon
         \/ Followed(walk') /\ walk.kind # "search"
  PROVE  SearchesDescend'
<1>1. CASE Post
  <2>1. PICK m \in Ids : posted' = posted \cup {m} /\ \A p \in posted : p < m
    BY <1>1, PostDefended
  <2>2. UNCHANGED <<second, honest, deleted, walk>> /\ \A id : Time(id)' = Time(id)
    BY <1>1, PostDefended DEF Time
  <2>3. ASSUME NEW t \in Int, Past(t)
        PROVE  Past(t)'
    <3> DEFINE all == Members(walk.yielded)
    <3>1. /\ \E p \in posted : Time(p) >= t
          /\ walk.prev # None => Time(walk.prev) >= t
          /\ \A id \in walk.scope : Time(id) < t \/ \E hit \in all : second[hit] = second[id]
          /\ \A a \in Early(t, all) : \A b \in posted : b > a /\ Time(b) < t => b \in all
          /\ Cardinality(Early(t, all)) < Limit
      BY <2>3 DEF Past, PastWith
    <3>2. Time(m) >= t /\ Time(m) \in Int
      <4>1. PICK p \in posted : Time(p) >= t
        BY <3>1
      <4>2. p \in Ids /\ Time(p) \in Nat /\ Time(m) \in Nat /\ Time(p) <= Time(m)
        BY <2>1, Times DEF Defended
      <4> QED
        BY <4>1, <4>2
    <3>3. \A a \in Early(t, all) : \A b \in posted' : b > a /\ Time(b) < t => b \in all
      BY <2>1, <3>1, <3>2
    <3>4. Early(t, all)' = Early(t, all)
      BY <2>2 DEF Early
    <3> QED
      BY <2>1, <2>2, <3>1, <3>3, <3>4 DEF Past, PastWith
  <2>4. /\ walk.cursor \in Int \cup {None} /\ walk.oldest \in Int \cup {None}
        /\ walk.pc = "overlap" => walk.oldest # None
    BY DEF Defended, Typed, Walks
  <2> QED
    BY <2>1, <2>2, <2>3, <2>4 DEF SearchesDescend, Running
<1>2. CASE Delete
  BY <1>2, DeleteDefended DEF SearchesDescend
<1>3. CASE HitCap \/ Abandon
  <2>1. walk'.pc \in {"capped", "abandoned"}
    BY <1>3, StopsDefended DEF HitCap, Abandon, Outcomes
  <2> QED
    BY <2>1 DEF SearchesDescend, Running
<1>4. CASE Followed(walk') /\ walk.kind # "search"
  BY <1>4 DEF Followed, SearchesDescend
<1> QED
  BY <1>1, <1>2, <1>3, <1>4

-----------------------------------------------------------------------------
(* The theorems *)

(* It begins as the invariant says.                                        *)
LEMMA InitInductive == Init => Inductive
<1> SUFFICES ASSUME Init PROVE Inductive
  OBVIOUS
<1>1. /\ Defended /\ walk.pc = "page" /\ walk.yielded = <<>> /\ walk.prev = None /\ deleted = {}
      /\ walk.kind = "search" /\ walk.cursor # None =>
             /\ \E p \in posted : Time(p) = walk.cursor
             /\ \A m \in walk.scope : Time(m) < walk.cursor
      /\ walk.kind # "search" => \A m \in walk.scope : Ahead(m)
  BY InitIs
<1>2. Members(walk.yielded) = {}
  BY <1>1 DEF Members
<1>3. ListsFollow
  BY <1>1, <1>2 DEF ListsFollow
<1>4. ASSUME walk.kind = "search", walk.cursor # None
      PROVE  Past(walk.cursor)
  <2>1. Early(walk.cursor, {}) = {} /\ Cardinality({}) = 0 /\ 0 < Limit
    BY FS_EmptySet, Sizes DEF Early
  <2>2. \E p \in posted : Time(p) >= walk.cursor
    <3>1. PICK p \in posted : Time(p) = walk.cursor
      BY <1>1, <1>4
    <3>2. Time(p) \in Nat
      BY <1>1, Times DEF Defended
    <3> QED
      BY <3>1, <3>2
  <2> QED
    BY <1>1, <1>2, <1>4, <2>1, <2>2 DEF Past, PastWith
<1>5. SearchesDescend
  BY <1>1, <1>2, <1>4 DEF SearchesDescend
<1> QED
  BY <1>1, <1>3, <1>5 DEF Inductive, Defended

(* Every step keeps the invariant.                                         *)
LEMMA NextInductive == Inductive /\ [Next]_vars => Inductive'
<1> SUFFICES ASSUME Inductive, [Next]_vars PROVE Inductive'
  OBVIOUS
<1>1. Defended /\ ListsFollow /\ SearchesDescend
  BY DEF Inductive, Defended
<1> SUFFICES Defended' /\ ListsFollow' /\ SearchesDescend'
  BY DEF Inductive, Defended
<1>2. CASE SearchPage
  <2>1. Followed(walk') /\ walk.kind = "search"
    BY <1>1, <1>2, SearchPageIs DEF SearchPage, Defended
  <2> QED
    BY <1>1, <1>2, <2>1, SearchPageDefended, SearchPageDescends, OthersFollow
<1>3. CASE SearchOverlap
  <2>1. Followed(walk') /\ walk.kind = "search"
    BY <1>1, <1>3, SearchOverlapIs DEF SearchOverlap, Defended, Typed
  <2> QED
    BY <1>1, <1>3, <2>1, SearchOverlapDefended, SearchOverlapDescends, OthersFollow
<1>4. CASE ListPage
  <2>1. Followed(walk') /\ walk.kind # "search"
    BY <1>1, <1>4, ListPageIs DEF ListPage, Defended
  <2> QED
    BY <1>1, <1>4, <2>1, ListPageDefended, ListPageFollows, OthersDescend
<1>5. CASE HitCap \/ Abandon
  <2>1. Defended'
    BY <1>1, <1>5, StopsDefended DEF HitCap, Abandon, Outcomes
  <2> QED
    BY <1>1, <1>5, <2>1, OthersFollow, OthersDescend
<1>6. CASE Post
  BY <1>1, <1>6, PostDefended, OthersFollow, OthersDescend
<1>7. CASE Delete
  BY <1>1, <1>7, DeleteDefended, OthersFollow, OthersDescend
<1>8. CASE UNCHANGED vars
  <2>1. UNCHANGED <<second, honest, posted, deleted, walk>>
    BY <1>8 DEF vars, world
  <2>2. Defended'
    BY <1>1, <2>1 DEF Defended, Typed, Bounded, NothingTwice, Paid, WalksAreProductive, Running
  <2>3. ListsFollow'
    BY <1>1, <2>1 DEF ListsFollow, Running, Ahead
  <2>4. SearchesDescend'
    BY <1>1, <2>1 DEF SearchesDescend, Running, Past, PastWith, Early, Time
  <2> QED
    BY <2>2, <2>3, <2>4
<1> QED
  BY <1>2, <1>3, <1>4, <1>5, <1>6, <1>7, <1>8 DEF Next, Walk

(* Every state of a walk is as the inductive invariant says.               *)
THEOREM WalksAreSound == Spec => []Inductive
<1>1. Init => Inductive
  BY InitInductive
<1>2. Inductive /\ [Next]_vars => Inductive'
  BY NextInductive
<1> QED
  BY <1>1, <1>2, PTL DEF Spec

(* The walk and its world keep to their types, whatever Pumble answers:    *)
(* only messages that were there are yielded, only a search overlaps, and  *)
(* only from a second it has found.                                        *)
THEOREM TypeCorrect == Spec => []TypeOK
<1>1. Inductive => TypeOK
  <2> SUFFICES ASSUME Inductive PROVE TypeOK
    OBVIOUS
  <2>1. Typed /\ walk \in Walks
    BY DEF Inductive, Typed
  <2>2. walk.yielded \in Seq(Ids)
    BY <2>1 DEF Walks
  <2>3. Members(walk.yielded) \subseteq Ids
    BY <2>2, ElementOfSeq, LenProperties DEF Members
  <2>4. posted \subseteq Ids
    BY <2>1, Times
  <2> QED
    BY <2>1, <2>3, <2>4 DEF Typed, TypeOK, Walks
<1> QED
  BY <1>1, WalksAreSound, PTL

(* No walk yields a message twice, nor more than it was asked for, whatever*)
(* Pumble answers and however pages and overlaps repeat each other.        *)
THEOREM NothingIsYieldedTwice == Spec => []NothingTwice
<1>1. Inductive => NothingTwice
  BY DEF Inductive, Bounded
<1> QED
  BY <1>1, WalksAreSound, PTL

(* A walk asks in vain at most once, and a search once more after each of  *)
(* its pages: over a server that repeats itself it ends by what it has     *)
(* yielded, not by its cap.                                                *)
THEOREM RequestsArePaidFor == Spec => []WalksAreProductive
<1>1. Inductive => WalksAreProductive
  BY DEF Inductive, Paid
<1> QED
  BY <1>1, WalksAreSound, PTL

(* A walk over an honest server that ends by itself has missed no message  *)
(* of a channel that is still there, and a search no second of its hits,   *)
(* whatever was posted meanwhile.                                          *)
THEOREM NothingIsMissed == Spec => []WalksAreComplete
<1>1. Inductive => WalksAreComplete
  <2> SUFFICES ASSUME Inductive PROVE WalksAreComplete
    OBVIOUS
  <2>1. honest /\ walk.kind # "search" /\ walk.pc = "end" =>
            walk.scope \ Members(walk.yielded) \subseteq deleted
    BY DEF Inductive, ListsFollow
  <2>2. honest /\ walk.kind = "search" /\ walk.pc = "end" /\ deleted = {} =>
            \A m \in walk.scope \ Members(walk.yielded) :
                \E hit \in Members(walk.yielded) : second[hit] = second[m]
    BY DEF Inductive, SearchesDescend
  <2> QED
    BY <2>1, <2>2 DEF WalksAreComplete
<1> QED
  BY <1>1, WalksAreSound, PTL

-----------------------------------------------------------------------------
(* How far walks go *)

(* A walk over so many messages makes at most two requests for each and    *)
(* one more, whatever the server answers.                                  *)
RequestsAreFew == walk.pages <= 2 * Cardinality(Ids) + 1

(* What is yielded is different messages of a finite history.              *)
LEMMA YieldsAreFew ==
  ASSUME Inductive
  PROVE  Len(walk.yielded) \in Nat /\ Len(walk.yielded) <= Cardinality(Ids) /\ Cardinality(Ids) \in Nat
<1> DEFINE y == walk.yielded
<1>1. y \in Seq(Ids) /\ IsInjective(y)
  BY DEF Inductive, Typed, Walks, Bounded, NothingTwice
<1> HIDE DEF y
<1>2. Len(y) \in Nat /\ DOMAIN y = 1 .. Len(y) /\ y \in [1 .. Len(y) -> Ids]
  BY <1>1, LenProperties, ElementOfSeq
<1>3. y \in Injection(1 .. Len(y), Ids)
  BY <1>1, <1>2 DEF Injection, IsInjective
<1>4. IsFiniteSet(Ids) /\ Cardinality(Ids) \in Nat
  BY WalkAssumption, FS_CardinalityType
<1>5. IsFiniteSet(1 .. Len(y)) /\ Cardinality(1 .. Len(y)) = Len(y)
  BY <1>2, FS_Interval
<1>6. Cardinality(1 .. Len(y)) <= Cardinality(Ids)
  BY <1>3, <1>4, FS_Injection DEF ExistsInjection
<1> QED
  BY <1>2, <1>4, <1>5, <1>6 DEF y

(* A walk ends by itself before long: repeated pages, repeated messages    *)
(* and cursors that go round do not keep it asking.                        *)
THEOREM WalksEndByThemselves == Spec => []RequestsAreFew
<1>1. Inductive => RequestsAreFew
  <2> SUFFICES ASSUME Inductive PROVE RequestsAreFew
    OBVIOUS
  <2>1. walk.pages \in Nat
    BY DEF Inductive, Typed, Walks
  <2>2. WalksAreProductive
    BY DEF Inductive, Paid
  <2>3. CASE walk.kind = "search"
    BY <2>1, <2>2, <2>3, YieldsAreFew DEF RequestsAreFew, WalksAreProductive
  <2>4. CASE walk.kind # "search"
    BY <2>1, <2>2, <2>4, YieldsAreFew DEF RequestsAreFew, WalksAreProductive
  <2> QED
    BY <2>3, <2>4
<1> QED
  BY <1>1, WalksAreSound, PTL

(* Only a walk that has made all the requests it may is capped.            *)
CapsAreReached == walk.pc = "capped" => walk.pages >= PageCap

(* Every step keeps that: no other way out of a walk calls it capped.      *)
LEMMA CapsInductive == Inductive /\ CapsAreReached /\ [Next]_vars => CapsAreReached'
<1> SUFFICES ASSUME Inductive, CapsAreReached, [Next]_vars PROVE CapsAreReached'
  OBVIOUS
<1>1. Typed /\ Bounded /\ walk \in Walks
  BY DEF Inductive, Typed
<1>2. CASE SearchPage
  <2>1. \E page \in Pages(HonestSearch(walk.cursor)) : Searched(page, walk')
    BY <1>1, <1>2, SearchPageIs
  <2>2. walk'.pc # "capped"
    BY <2>1, Zenon DEF Searched, GoesOn
  <2> QED
    BY <2>2 DEF CapsAreReached
<1>3. CASE SearchOverlap
  <2>1. \E page \in Pages(HonestSearch(walk.oldest + OverlapStep)) : Overlapped(page, walk')
    BY <1>1, <1>3, SearchOverlapIs
  <2>2. walk'.pc # "capped"
    BY <2>1, Zenon DEF Overlapped, Lowered
  <2> QED
    BY <2>2 DEF CapsAreReached
<1>4. CASE ListPage
  <2>1. \E page \in Pages(HonestList(walk.kind, walk.cursor)) : Listed(page, walk')
    BY <1>1, <1>4, ListPageIs
  <2>2. walk'.pc # "capped"
    BY <2>1, Zenon DEF Listed
  <2> QED
    BY <2>2 DEF CapsAreReached
<1>5. CASE HitCap
  <2>1. walk'.pages = walk.pages /\ walk.pages >= PageCap
    BY <1>1, <1>5 DEF HitCap, Stop, Walks
  <2> QED
    BY <2>1 DEF CapsAreReached
<1>6. CASE Abandon
  <2>1. walk'.pc = "abandoned"
    BY <1>1, <1>6 DEF Abandon, Stop, Walks
  <2> QED
    BY <2>1 DEF CapsAreReached
<1>7. CASE Post \/ Delete \/ UNCHANGED vars
  BY <1>7 DEF Post, Delete, vars, CapsAreReached
<1> QED
  BY <1>2, <1>3, <1>4, <1>5, <1>6, <1>7 DEF Next, Walk

(* PageCapExceededError is for runaway walks only: no server makes a walk  *)
(* run into a cap that exceeds twice the messages there are.               *)
THEOREM CapsAreForRunaways ==
  ASSUME PageCap > 2 * Cardinality(Ids) + 1
  PROVE  Spec => [](walk.pc # "capped")
<1>1. Init => CapsAreReached
  BY DEF Init, CapsAreReached
<1>2. Spec => []CapsAreReached
  BY <1>1, CapsInductive, WalksAreSound, PTL DEF Spec
<1>3. Inductive /\ RequestsAreFew /\ CapsAreReached => walk.pc # "capped"
  <2> SUFFICES ASSUME Inductive, RequestsAreFew, CapsAreReached, walk.pc = "capped" PROVE FALSE
    OBVIOUS
  <2>1. walk.pages \in Nat /\ PageCap \in Nat /\ Cardinality(Ids) \in Nat
    BY YieldsAreFew, Sizes DEF Inductive, Typed, Walks
  <2> QED
    BY <2>1 DEF RequestsAreFew, CapsAreReached
<1> QED
  BY <1>2, <1>3, WalksAreSound, WalksEndByThemselves, PTL

(* Where a walk asks next is further on: the cursor of a search goes down  *)
(* with each page and stays during overlaps, whatever the server answers;  *)
(* the one of a walk over a channel follows its strategy over an honest    *)
(* server.  So no page is asked for twice.                                 *)
CursorMovesOn ==
    /\ walk.kind = "search" /\ walk' # walk =>
        /\ walk'.pc = "overlap" => walk'.cursor = walk.cursor
        /\ walk'.pc = "page" => walk'.cursor # None /\ (walk.cursor # None => walk'.cursor < walk.cursor)
    /\ honest /\ walk.kind # "search" /\ walk' # walk /\ walk'.pc = "page" =>
        /\ walk'.cursor # None
        /\ walk.cursor # None => IF walk.kind = "BEFORE" THEN walk'.cursor < walk.cursor
                                                         ELSE walk'.cursor > walk.cursor

(* Walks never go back.                                                    *)
THEOREM WalksNeverGoBack == Spec => [][CursorMovesOn]_vars
<1>1. ASSUME Inductive, Next
      PROVE  CursorMovesOn
  <2>1. Typed /\ Bounded /\ walk \in Walks
    BY <1>1 DEF Inductive, Typed
  <2>2. CASE SearchPage
    <3>1. walk.kind = "search" /\ \E page \in Pages(HonestSearch(walk.cursor)) : Searched(page, walk')
      BY <2>1, <2>2, SearchPageIs DEF SearchPage
    <3>2. /\ walk'.pc = "overlap" => walk'.cursor = walk.cursor
          /\ walk'.pc = "page" => \E t \in Nat : walk'.cursor = t - 1 /\ (walk.cursor # None => t - 1 < walk.cursor)
      BY <3>1 DEF Searched, GoesOn
    <3> QED
      BY <3>1, <3>2, WalkAssumption DEF CursorMovesOn
  <2>3. CASE SearchOverlap
    <3>1. \E page \in Pages(HonestSearch(walk.oldest + OverlapStep)) : Overlapped(page, walk')
      BY <2>1, <2>3, SearchOverlapIs
    <3>2. walk.kind = "search" /\ walk.oldest \in Nat
      BY <1>1, <2>1, <2>3 DEF Typed, Walks, SearchOverlap
    <3>3. /\ walk'.pc = "overlap" => walk'.cursor = walk.cursor
          /\ walk'.pc = "page" => walk'.cursor = walk.oldest - 1 /\ (walk.cursor # None => walk.oldest - 1 < walk.cursor)
      BY <3>1 DEF Overlapped, Lowered
    <3> QED
      BY <3>2, <3>3, WalkAssumption DEF CursorMovesOn
  <2>4. CASE ListPage
    <3>1. walk.kind \in {"BEFORE", "AFTER"}
      BY <2>4 DEF ListPage
    <3> SUFFICES ASSUME honest, walk'.pc = "page" PROVE CursorMovesOn
      BY <3>1 DEF CursorMovesOn
    <3>2. PICK page \in HonestList(walk.kind, walk.cursor) : Listed(page, walk')
      BY <2>1, <2>4, ListPageIs DEF Pages
    <3> DEFINE c == page.content
               wanted == {m \in Live : \/ walk.cursor = None
                                       \/ walk.kind = "BEFORE" /\ m < walk.cursor
                                       \/ walk.kind = "AFTER" /\ m > walk.cursor}
    <3>3. walk'.cursor = Last(c) /\ c # <<>> /\ Last(c) # None
      BY <3>2 DEF Listed, ListEnds
    <3>4. /\ c \in Contents(wanted) /\ c \in Contents(Ids \cup {None}) /\ Members(c) \subseteq wanted
          /\ More(walk.kind, page) <=> wanted # Members(c)
          /\ \A i, j \in DOMAIN c : i < j => Precedes(walk.kind = "BEFORE", c[i], c[j])
          /\ \A m \in wanted \ Members(c) :
                Len(c) = Limit /\ \A i \in DOMAIN c : Precedes(walk.kind = "BEFORE", c[i], m)
      BY <2>1, <3>1, <3>2, ListedPage
    <3> HIDE DEF c
    <3>5. Last(c) \in Members(c)
      BY <3>3, <3>4, ContentsAreSequences DEF Last, Members
    <3> QED
      BY <3>1, <3>3, <3>4, <3>5 DEF CursorMovesOn
  <2>5. CASE HitCap \/ Abandon
    <3>1. walk'.pc \in {"capped", "abandoned"}
      BY <2>1, <2>5 DEF HitCap, Abandon, Stop, Walks
    <3> QED
      BY <3>1 DEF CursorMovesOn
  <2>6. CASE Post \/ Delete
    BY <2>6 DEF Post, Delete, CursorMovesOn
  <2> QED
    BY <1>1, <2>2, <2>3, <2>4, <2>5, <2>6 DEF Next, Walk
<1>2. Spec => [][Inductive /\ Next]_vars
  BY WalksAreSound, PTL DEF Spec
<1> QED
  BY <1>1, <1>2, PTL

=============================================================================
