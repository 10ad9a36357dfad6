--------------------------- MODULE SequenceLemmas ---------------------------
(***************************************************************************)
(* Lemmas about the operators on sequences and finite sets that the models *)
(* use, cited by the proofs about them: queues, the ends of a set of       *)
(* numbers, sets listed in order, folds over sequences and sums over sets. *)
(*                                                                         *)
(* FoldLeft runs through a sequence step by step: what it returns is the   *)
(* last of a series of values, the first of which is the base and each of  *)
(* which is one step from the one before.  FoldLeft defines it by          *)
(* recursion over the set of positions that are left; here is the proof    *)
(* that a function with that definition exists, whatever the operator that *)
(* is folded.  The proofs about the book instantiate this module for each  *)
(* operator the model folds, and go through the series by induction        *)
(* (Upwards).  Only folds and sums are about Step: a module that extends   *)
(* this one for its other lemmas holds whatever Step is.                   *)
(***************************************************************************)
EXTENDS Integers, SequencesExt, FiniteSetsExt,
        SequenceTheorems, FiniteSetTheorems, WellFoundedInduction, TLAPS

CONSTANT Step(_, _, _)   \* what is folded: of a parameter, the value so far and an element

(* A queue in which nothing stands twice.                                  *)

\* What is in a queue: its positions are 1 to its length.
LEMMA InQueue ==
  ASSUME NEW T, NEW s \in Seq(T)
  PROVE  /\ ToSet(s) = {s[i] : i \in 1 .. Len(s)}
         /\ Len(s) \in Nat /\ DOMAIN s = 1 .. Len(s)
         /\ \A i \in 1 .. Len(s) : s[i] \in T
         /\ (s = << >>) <=> (Len(s) = 0)
BY LenProperties, ElementOfSeq, EmptySeq DEF ToSet

\* push_back: the new element comes last and the others stay where they are.
LEMMA AppendToQueue ==
  ASSUME NEW T, NEW s \in Seq(T), NEW x \in T
  PROVE  /\ Append(s, x) \in Seq(T)
         /\ Len(Append(s, x)) = Len(s) + 1
         /\ \A i \in 1 .. Len(s) + 1 : Append(s, x)[i] = IF i <= Len(s) THEN s[i] ELSE x
         /\ ToSet(Append(s, x)) = ToSet(s) \cup {x}
         /\ IsInjective(s) /\ x \notin ToSet(s) => IsInjective(Append(s, x))
<1>1. /\ Append(s, x) \in Seq(T) /\ Len(Append(s, x)) = Len(s) + 1
      /\ \A i \in 1 .. Len(s) + 1 : Append(s, x)[i] = IF i <= Len(s) THEN s[i] ELSE x
  BY AppendProperties, LenProperties
<1>2. /\ ToSet(s) = {s[i] : i \in 1 .. Len(s)} /\ Len(s) \in Nat /\ DOMAIN s = 1 .. Len(s)
      /\ ToSet(Append(s, x)) = {Append(s, x)[i] : i \in 1 .. Len(s) + 1}
      /\ DOMAIN Append(s, x) = 1 .. Len(s) + 1
  BY <1>1, InQueue
<1>3. ToSet(Append(s, x)) = ToSet(s) \cup {x}
  <2>1. \A y : y \in ToSet(Append(s, x)) => y \in ToSet(s) \cup {x}
    BY <1>1, <1>2
  <2>2. \A y \in ToSet(s) : y \in ToSet(Append(s, x))
    BY <1>1, <1>2
  <2>3. x \in ToSet(Append(s, x))
    BY <1>1, <1>2, Append(s, x)[Len(s) + 1] = x
  <2> QED
    BY <2>1, <2>2, <2>3
<1>4. ASSUME IsInjective(s), x \notin ToSet(s)
      PROVE  IsInjective(Append(s, x))
  BY <1>1, <1>2, <1>4 DEF IsInjective
<1> QED
  BY <1>1, <1>3, <1>4

\* pop_front: the first element leaves and the others move up.
LEMMA TailOfQueue ==
  ASSUME NEW T, NEW s \in Seq(T), s # << >>
  PROVE  /\ Head(s) \in T /\ Head(s) = s[1] /\ Head(s) \in ToSet(s)
         /\ Tail(s) \in Seq(T) /\ Len(Tail(s)) = Len(s) - 1
         /\ \A i \in 1 .. Len(s) - 1 : Tail(s)[i] = s[i + 1]
         /\ ToSet(s) = ToSet(Tail(s)) \cup {Head(s)}
         /\ IsInjective(s) => IsInjective(Tail(s)) /\ Head(s) \notin ToSet(Tail(s))
<1>1. /\ Head(s) \in T /\ Tail(s) \in Seq(T) /\ Len(Tail(s)) = Len(s) - 1
      /\ \A i \in 1 .. Len(s) - 1 : Tail(s)[i] = s[i + 1]
      /\ Head(s) = s[1]
  BY HeadTailProperties
<1>2. /\ ToSet(s) = {s[i] : i \in 1 .. Len(s)} /\ Len(s) \in Nat /\ DOMAIN s = 1 .. Len(s)
  BY InQueue
<1>3. /\ Len(s) > 0 /\ DOMAIN Tail(s) = 1 .. Len(s) - 1
      /\ ToSet(Tail(s)) = {Tail(s)[i] : i \in 1 .. Len(s) - 1}
  <2>1. Len(s) > 0
    BY <1>2, InQueue
  <2> QED
    BY <1>1, <2>1, InQueue
<1>4. \A y : y \in ToSet(s) <=> y \in ToSet(Tail(s)) \/ y = Head(s)
  <2>1. ASSUME NEW y \in ToSet(s), y # Head(s)
        PROVE  y \in ToSet(Tail(s))
    <3>1. PICK i \in 1 .. Len(s) : s[i] = y
      BY <1>2
    <3>2. i - 1 \in 1 .. Len(s) - 1 /\ Tail(s)[i - 1] = y
      BY <1>1, <1>2, <2>1, <3>1
    <3> QED
      BY <1>3, <3>2
  <2>2. ASSUME NEW y \in ToSet(Tail(s))
        PROVE  y \in ToSet(s)
    <3>1. PICK i \in 1 .. Len(s) - 1 : Tail(s)[i] = y
      BY <1>3
    <3>2. i + 1 \in 1 .. Len(s) /\ s[i + 1] = y
      BY <1>1, <1>2, <3>1
    <3> QED
      BY <1>2, <3>2
  <2>3. Head(s) \in ToSet(s)
    BY <1>1, <1>2, <1>3, 1 \in 1 .. Len(s)
  <2> QED
    BY <2>1, <2>2, <2>3
<1>5. ASSUME IsInjective(s)
      PROVE  IsInjective(Tail(s)) /\ Head(s) \notin ToSet(Tail(s))
  BY <1>1, <1>2, <1>3, <1>5 DEF IsInjective
<1> QED
  BY <1>1, <1>4, <1>5

\* A waiter that gives up leaves the queue, and the others keep their order.
LEMMA RemoveFromQueue ==
  ASSUME NEW T, NEW s \in Seq(T), NEW x, IsInjective(s)
  PROVE  /\ RemoveFirst(s, x) \in Seq(T)
         /\ ToSet(RemoveFirst(s, x)) = ToSet(s) \ {x}
         /\ IsInjective(RemoveFirst(s, x))
<1>1. CASE ~\E i \in 1 .. Len(s) : s[i] = x
  BY <1>1, InQueue DEF RemoveFirst
<1>2. CASE \E i \in 1 .. Len(s) : s[i] = x
  <2> PICK k \in 1 .. Len(s) : s[k] = x
    BY <1>2
  <2> DEFINE hits == {i \in 1 .. Len(s) : s[i] = x}
             head == SubSeq(s, 1, k - 1)
             tail == SubSeq(s, k + 1, Len(s))
             kept == RemoveFirst(s, x)
  <2>0. Len(s) \in Nat /\ DOMAIN s = 1 .. Len(s) /\ \A i \in 1 .. Len(s) : s[i] \in T
    BY InQueue
  <2>1. hits = {k}
    BY <2>0 DEF IsInjective
  <2>2. Min(hits) = k
    BY <2>1 DEF Min
  <2>3. kept = head \o tail
    <3>1. SelectInSeq(s, LAMBDA v : v = x) = k
      BY <2>1, <2>2 DEF SelectInSeq
    <3> QED
      BY <3>1, <1>2 DEF RemoveFirst, RemoveAt
  <2>4. /\ head \in Seq(T) /\ Len(head) = k - 1
        /\ \A i \in 1 .. k - 1 : head[i] = s[i]
    <3>1. \A i \in 1 .. k - 1 : s[i] \in T
      BY <2>0
    <3> QED
      BY <2>0, <3>1, SubSeqProperties, k - 1 \in Int
  <2>5. /\ tail \in Seq(T) /\ Len(tail) = Len(s) - k
        /\ \A i \in 1 .. Len(s) - k : tail[i] = s[k + i]
    <3>1. k + 1 \in Int /\ Len(s) \in Int /\ \A i \in k + 1 .. Len(s) : s[i] \in T
      BY <2>0
    <3>2. /\ tail \in Seq(T)
          /\ Len(tail) = IF k + 1 <= Len(s) THEN Len(s) - (k + 1) + 1 ELSE 0
          /\ \A i \in 1 .. Len(s) - (k + 1) + 1 : tail[i] = s[(k + 1) + i - 1]
      BY <3>1, SubSeqProperties
    <3>3. k \in Int /\ k <= Len(s) /\ Len(s) \in Int
      BY <2>0
    <3> HIDE DEF tail
    <3>4. Len(tail) = Len(s) - k
      BY <3>2, <3>3
    <3>5. ASSUME NEW i \in 1 .. Len(s) - k
          PROVE  tail[i] = s[k + i]
      <4>1. i \in 1 .. Len(s) - (k + 1) + 1 /\ (k + 1) + i - 1 = k + i
        BY <3>3
      <4> QED
        BY <3>2, <4>1
    <3> QED
      BY <3>2, <3>4, <3>5
  <2> HIDE DEF head, tail, kept, hits
  <2>6. /\ head \o tail \in Seq(T)
        /\ Len(head \o tail) = Len(s) - 1
        /\ \A i \in 1 .. Len(s) - 1 : (head \o tail)[i] = IF i < k THEN s[i] ELSE s[i + 1]
    <3>1. /\ head \o tail \in Seq(T)
          /\ Len(head \o tail) = Len(head) + Len(tail)
          /\ \A i \in 1 .. Len(head) + Len(tail) :
               (head \o tail)[i] = IF i <= Len(head) THEN head[i] ELSE tail[i - Len(head)]
      BY <2>4, <2>5, ConcatProperties
    <3>2. Len(head) + Len(tail) = Len(s) - 1
      BY <2>0, <2>4, <2>5
    <3>3. ASSUME NEW i \in 1 .. Len(s) - 1
          PROVE  (head \o tail)[i] = IF i < k THEN s[i] ELSE s[i + 1]
      <4>1. CASE i < k
        BY <4>1, <3>1, <3>2, <2>0, <2>4
      <4>2. CASE i >= k
        <5>1. i - (k - 1) \in 1 .. Len(s) - k /\ k + (i - (k - 1)) = i + 1
          BY <4>2, <2>0
        <5>2. /\ i \in 1 .. Len(head) + Len(tail) /\ ~(i <= Len(head))
              /\ i - Len(head) = i - (k - 1)
          BY <4>2, <3>2, <2>0, <2>4
        <5>3. (head \o tail)[i] = tail[i - (k - 1)]
          BY <5>2, <3>1
        <5>4. tail[i - (k - 1)] = s[i + 1]
          BY <5>1, <2>5
        <5> QED
          BY <5>3, <5>4, <4>2, <2>0
      <4>3. i < k \/ i >= k
        BY <2>0
      <4> QED
        BY <4>1, <4>2, <4>3
    <3> QED
      BY <3>1, <3>2, <3>3
  <2>7. /\ kept \in Seq(T) /\ DOMAIN kept = 1 .. Len(s) - 1
        /\ ToSet(kept) = {kept[i] : i \in 1 .. Len(s) - 1}
        /\ \A i \in 1 .. Len(s) - 1 : kept[i] = IF i < k THEN s[i] ELSE s[i + 1]
    <3>1. kept \in Seq(T) /\ Len(kept) = Len(s) - 1
      BY <2>3, <2>6
    <3>2. DOMAIN kept = 1 .. Len(kept) /\ ToSet(kept) = {kept[i] : i \in 1 .. Len(kept)}
      BY <3>1, InQueue
    <3>3. DOMAIN kept = 1 .. Len(s) - 1 /\ ToSet(kept) = {kept[i] : i \in 1 .. Len(s) - 1}
      BY <3>1, <3>2
    <3> QED
      BY <2>3, <2>6, <3>1, <3>3
  <2>8. ToSet(kept) = ToSet(s) \ {x}
    <3>1. \A y \in ToSet(kept) : y \in ToSet(s) \ {x}
      BY <2>0, <2>7, InQueue DEF IsInjective
    <3>2. ASSUME NEW y \in ToSet(s) \ {x}
          PROVE  y \in ToSet(kept)
      <4>1. PICK i \in 1 .. Len(s) : s[i] = y
        BY InQueue
      <4>2. i # k
        BY <4>1
      <4>3. CASE i < k
        BY <4>1, <4>3, <2>0, <2>7, i \in 1 .. Len(s) - 1
      <4>4. CASE i > k
        BY <4>1, <4>4, <2>0, <2>7, i - 1 \in 1 .. Len(s) - 1, kept[i - 1] = s[i]
      <4> QED
        BY <4>2, <4>3, <4>4, <2>0
    <3> QED
      BY <3>1, <3>2
  <2>9. IsInjective(kept)
    BY <2>0, <2>7 DEF IsInjective
  <2> QED
    BY <2>7, <2>8, <2>9 DEF kept
<1> QED
  BY <1>1, <1>2

-----------------------------------------------------------------------------
(* Prefixes.                                                               *)

\* s is the beginning of t, element by element.
LEMMA PrefixElements ==
  ASSUME NEW T, NEW s \in Seq(T), NEW t \in Seq(T)
  PROVE  IsPrefix(s, t) <=> Len(s) <= Len(t) /\ \A i \in 1 .. Len(s) : s[i] = t[i]
<1>1. Len(s) \in Nat /\ Len(t) \in Nat /\ SubSeq(s, 1, Len(s)) = s
  BY LenProperties, SubSeqFull
<1> SUFFICES ASSUME Len(s) <= Len(t)
             PROVE  s = SubSeq(t, 1, Len(s)) <=> \A i \in 1 .. Len(s) : s[i] = t[i]
  BY <1>1 DEF IsPrefix
<1>2. /\ SubSeq(t, 1, Len(s)) \in Seq(T) /\ Len(SubSeq(t, 1, Len(s))) = Len(s)
      /\ \A i \in 1 .. Len(s) : SubSeq(t, 1, Len(s))[i] = t[i]
  <2>1. \A i \in 1 .. Len(s) : t[i] \in T
    BY <1>1, ElementOfSeq
  <2> QED
    BY <1>1, <2>1, SubSeqProperties
<1> QED
  BY <1>2, SeqEqual

-----------------------------------------------------------------------------
(* The ends of sets of numbers.                                            *)

\* A set of natural numbers has a least one.
LEMMA LeastNat ==
  ASSUME NEW S \in SUBSET Nat, S # {}
  PROVE  \E m \in S : \A y \in S : m <= y
<1>1. PICK m \in S : \A y \in S : <<y, m>> \notin OpToRel(<, Nat)
  BY NatLessThanWellFounded, WFMin
<1>2. \A y \in S : ~(y < m)
  BY <1>1 DEF OpToRel
<1> QED
  BY <1>2

\* Induction up to a bound: what contains 0, and with a number the next one,
\* contains every number up to the bound.
LEMMA Upwards ==
  ASSUME NEW n \in Nat, NEW G, 0 \in G, \A k \in 1 .. n : k - 1 \in G => k \in G
  PROVE  \A k \in 0 .. n : k \in G
<1> DEFINE Bad == {k \in 0 .. n : k \notin G}
<1>1. SUFFICES ASSUME Bad # {} PROVE FALSE
  OBVIOUS
<1>2. Bad \in SUBSET Nat
  OBVIOUS
<1>3. PICK m \in Bad : \A y \in Bad : m <= y
  <2> HIDE DEF Bad
  <2> QED
    BY <1>1, <1>2, LeastNat
<1>4. m \in 1 .. n /\ m \notin G
  OBVIOUS
<1>5. m - 1 \in G
  BY <1>3, <1>4
<1> QED
  BY <1>4, <1>5

\* Max and Min of a set of integers with a bound on that side.
LEMMA MaxOfSet ==
  ASSUME NEW S \in SUBSET Int, S # {}, NEW b \in Int, \A y \in S : y <= b
  PROVE  Max(S) \in S /\ \A y \in S : y <= Max(S)
<1> DEFINE gaps == {b - y : y \in S}
<1>1. gaps \in SUBSET Nat /\ gaps # {}
  <2>1. \A y \in S : b - y \in Nat
    OBVIOUS
  <2> QED
    BY <2>1
<1>2. \E m \in S : \A y \in S : b - m <= b - y
  <2> HIDE DEF gaps
  <2>1. PICK g \in gaps : \A h \in gaps : g <= h
    BY <1>1, LeastNat
  <2> QED
    BY <2>1 DEF gaps
<1>3. PICK m \in S : \A y \in S : b - m <= b - y
  BY <1>2
<1>4. \A y \in S : m >= y
  BY <1>3
<1> QED
  BY <1>4 DEF Max

\* The smallest of a set of numbers that has a bound.
LEMMA MinOfSet ==
  ASSUME NEW S \in SUBSET Int, S # {}, NEW b \in Int, \A y \in S : b <= y
  PROVE  Min(S) \in S /\ \A y \in S : Min(S) <= y
<1> DEFINE gaps == {y - b : y \in S}
<1>1. gaps \in SUBSET Nat /\ gaps # {}
  <2>1. \A y \in S : y - b \in Nat
    OBVIOUS
  <2> QED
    BY <2>1
<1>2. \E m \in S : \A y \in S : m - b <= y - b
  <2> HIDE DEF gaps
  <2>1. PICK g \in gaps : \A h \in gaps : g <= h
    BY <1>1, LeastNat
  <2> QED
    BY <2>1 DEF gaps
<1>3. PICK m \in S : \A y \in S : m - b <= y - b
  BY <1>2
<1>4. \A y \in S : m <= y
  BY <1>3
<1> QED
  BY <1>4 DEF Min

\* The larger of two numbers.
LEMMA MaxOfTwo ==
  ASSUME NEW a \in Int, NEW b \in Int
  PROVE  Max({a, b}) = IF a >= b THEN a ELSE b
<1>1. PICK m \in {a, b} : \A y \in {a, b} : m >= y
  OBVIOUS
<1>2. Max({a, b}) \in {a, b} /\ \A y \in {a, b} : Max({a, b}) >= y
  BY <1>1 DEF Max
<1> QED
  BY <1>2

\* The smaller of two numbers.
LEMMA MinOfTwo ==
  ASSUME NEW a \in Int, NEW b \in Int
  PROVE  Min({a, b}) = IF a <= b THEN a ELSE b
<1>1. PICK m \in {a, b} : \A y \in {a, b} : m <= y
  OBVIOUS
<1>2. Min({a, b}) \in {a, b} /\ \A y \in {a, b} : Min({a, b}) <= y
  BY <1>1 DEF Min
<1> QED
  BY <1>2

-----------------------------------------------------------------------------
(* Listing a finite set in order.                                          *)

\* P lists the members of D, each once and as the relation R orders them.
ListedAs(P, D, R, n) ==
  /\ n \in Nat /\ DOMAIN P = 1 .. n /\ P \in Seq(D)
  /\ \A i \in 1 .. n : P[i] \in D
  /\ \A i, j \in 1 .. n : i < j => <<P[i], P[j]>> \in R
  /\ \A p \in D : \E i \in 1 .. n : P[i] = p

StrictOrder(D, R) ==
  /\ \A p, q \in D : p # q => <<p, q>> \in R \/ <<q, p>> \in R
  /\ \A p, q, r \in D : <<p, q>> \in R /\ <<q, r>> \in R => <<p, r>> \in R
  /\ \A p \in D : <<p, p>> \notin R

\* InOrder in two steps: the members with their ranks, and who has rank i.
RankSet(D, R)      == {<<x, Cardinality({y \in D : <<y, x>> \in R}) + 1>> : x \in D}
ByRank(ranked, n)  == [i \in 1 .. n |-> (CHOOSE xr \in ranked : xr[2] = i)[1]]

\* Listing a finite set by rank lists it in a strict order.
LEMMA RankedIsListed ==
  ASSUME NEW D, IsFiniteSet(D), NEW R, StrictOrder(D, R)
  PROVE  ListedAs(ByRank(RankSet(D, R), Cardinality(D)), D, R, Cardinality(D))
<1> DEFINE n       == Cardinality(D)
           Ahead(p) == {q \in D : <<q, p>> \in R}
           rank    == [p \in D |-> Cardinality(Ahead(p)) + 1]
           ranked  == RankSet(D, R)
           P       == ByRank(ranked, n)
<1>1. n \in Nat
  BY FS_CardinalityType
<1>2. \A p, q \in D : p # q => <<p, q>> \in R \/ <<q, p>> \in R
  BY Zenon DEF StrictOrder
<1>3. \A p, q, r \in D : <<p, q>> \in R /\ <<q, r>> \in R => <<p, r>> \in R
  BY DEF StrictOrder
<1>4. \A p \in D : <<p, p>> \notin R
  BY Zenon DEF StrictOrder
<1>5. \A p \in D : /\ IsFiniteSet(Ahead(p)) /\ Cardinality(Ahead(p)) \in Nat
                   /\ Cardinality(Ahead(p)) < n
  <2> TAKE p \in D
  <2>1. Ahead(p) \in SUBSET (D \ {p})
    BY <1>4
  <2>2. IsFiniteSet(D \ {p}) /\ Cardinality(D \ {p}) = n - 1
    BY FS_RemoveElement
  <2>3. IsFiniteSet(Ahead(p)) /\ Cardinality(Ahead(p)) <= n - 1
    <3> HIDE DEF Ahead
    <3> QED
      BY <2>1, <2>2, FS_Subset
  <2> QED
    BY <2>3, <1>1, FS_CardinalityType
<1>6. ASSUME NEW p \in D, NEW q \in D, <<p, q>> \in R
      PROVE  rank[p] < rank[q]
  <2>1. Ahead(p) \in SUBSET Ahead(q)
    BY <1>3, <1>6
  <2>2. p \in Ahead(q) /\ p \notin Ahead(p)
    BY <1>4, <1>6
  <2>3. /\ Cardinality(Ahead(p)) <= Cardinality(Ahead(q))
        /\ Cardinality(Ahead(p)) # Cardinality(Ahead(q))
    <3> HIDE DEF Ahead
    <3> QED
      BY <2>1, <2>2, <1>5, FS_Subset
  <2> QED
    <3> HIDE DEF Ahead
    <3> QED
      BY <2>3, <1>5
<1>7. rank \in [D -> 1 .. n]
  <2> HIDE DEF Ahead
  <2> QED
    BY <1>1, <1>5
<1>8. \A i \in 1 .. n : \E p \in D : rank[p] = i
  <2>1. \A p, q \in D : rank[p] = rank[q] => p = q
    <3> HIDE DEF rank
    <3> SUFFICES ASSUME NEW p \in D, NEW q \in D, rank[p] = rank[q], p # q PROVE FALSE
      OBVIOUS
    <3>1. <<p, q>> \in R \/ <<q, p>> \in R
      BY <1>2
    <3>2. rank[p] < rank[q] \/ rank[q] < rank[p]
      BY <3>1, <1>6
    <3>3. rank[p] \in Int /\ rank[q] \in Int
      BY <1>7
    <3> QED
      BY <3>2, <3>3
  <2>2. rank \in Injection(D, 1 .. n)
    <3> HIDE DEF rank
    <3> QED
      BY <2>1, <1>7 DEF Injection, IsInjective
  <2>3. IsFiniteSet(1 .. n) /\ Cardinality(1 .. n) = n
    BY <1>1, FS_Interval
  <2>4. rank \in Surjection(D, 1 .. n)
    <3> HIDE DEF rank
    <3> QED
      BY <2>2, <2>3, FS_Injection
  <2> QED
    <3> HIDE DEF rank
    <3> QED
      BY <2>4 DEF Surjection
<1>9. /\ DOMAIN P = 1 .. n
      /\ \A i \in 1 .. n : P[i] = (CHOOSE xr \in ranked : xr[2] = i)[1]
      /\ ranked = {<<p, rank[p]>> : p \in D} /\ P = [i \in 1 .. n |-> P[i]]
  <2>1. ranked = {<<p, rank[p]>> : p \in D}
    BY DEF Ahead, rank, RankSet
  <2> HIDE DEF ranked, n
  <2> QED
    BY <2>1 DEF ByRank
<1>10. \A i \in 1 .. n : P[i] \in D /\ rank[P[i]] = i
  <2> HIDE DEF rank, n, P, ranked
  <2> TAKE i \in 1 .. n
  <2>1. PICK p \in D : rank[p] = i
    BY <1>8
  <2> DEFINE xr == CHOOSE z \in ranked : z[2] = i
  <2>2. <<p, rank[p]>> \in ranked /\ <<p, rank[p]>>[2] = i
    BY <1>9, <2>1
  <2>3. xr \in ranked /\ xr[2] = i
    BY <2>2
  <2>4. P[i] = xr[1]
    BY <1>9
  <2> HIDE DEF xr
  <2>5. PICK q \in D : xr = <<q, rank[q]>>
    BY <1>9, <2>3
  <2> QED
    BY <2>3, <2>4, <2>5
<1> HIDE DEF P, ranked, n, Ahead, rank
<1>11. \A i, j \in 1 .. n : i < j => <<P[i], P[j]>> \in R
  <2> SUFFICES ASSUME NEW i \in 1 .. n, NEW j \in 1 .. n, i < j
               PROVE  <<P[i], P[j]>> \in R
    OBVIOUS
  <2>1. P[i] \in D /\ P[j] \in D /\ rank[P[i]] = i /\ rank[P[j]] = j
    BY <1>10
  <2>2. P[i] # P[j]
    BY <2>1
  <2>3. <<P[j], P[i]>> \notin R
    BY <2>1, <1>6, <1>1
  <2> QED
    BY <2>1, <2>2, <2>3, <1>2
<1>12. \A p \in D : \E i \in 1 .. n : P[i] = p
  <2> TAKE p \in D
  <2>1. rank[p] \in 1 .. n
    BY <1>7
  <2>2. P[rank[p]] \in D /\ rank[P[rank[p]]] = rank[p]
    BY <2>1, <1>10
  <2>3. P[rank[p]] = p
    <3> DEFINE q == P[rank[p]]
    <3> HIDE DEF q
    <3>1. q \in D /\ rank[q] = rank[p] /\ rank[p] \in Int
      BY <2>1, <2>2 DEF q
    <3>2. q # p => <<p, q>> \in R \/ <<q, p>> \in R
      BY <3>1, <1>2
    <3>3. q # p => rank[p] < rank[q] \/ rank[q] < rank[p]
      BY <3>1, <3>2, <1>6
    <3> QED
      BY <3>1, <3>3 DEF q
  <2> QED
    BY <2>1, <2>3
<1>13. P \in Seq(D)
  <2>1. P = [i \in 1 .. n |-> P[i]]
    BY <1>9
  <2>2. P \in [1 .. n -> D]
    BY <2>1, <1>10
  <2> QED
    BY <2>2, <1>1, SeqDef
<1> QED
  BY <1>1, <1>9, <1>10, <1>11, <1>12, <1>13 DEF P, ranked, n, ListedAs

-----------------------------------------------------------------------------
(* Folds.                                                                  *)

Fold(p, base, seq) == FoldLeft(LAMBDA acc, x : Step(p, acc, x), base, seq)

\* A fold over n elements is the last of n + 1 values that follow from each other.
THEOREM FoldSteps ==
  ASSUME NEW p, NEW base, NEW seq, NEW n \in Nat, DOMAIN seq = 1 .. n
  PROVE  \E f : /\ f[0] = base
                /\ \A k \in 1 .. n : f[k] = Step(p, f[k - 1], seq[k])
                /\ Fold(p, base, seq) = f[n]
<1>1. \A k \in 1 .. n : \A S \in SUBSET (1 .. k) : k \in S => Max(S) = k
  <2> SUFFICES ASSUME NEW k \in 1 .. n, NEW S \in SUBSET (1 .. k), k \in S PROVE Max(S) = k
    OBVIOUS
  <2>1. S \in SUBSET Int /\ S # {} /\ k \in Int /\ \A y \in S : y <= k
    OBVIOUS
  <2>2. Max(S) \in S /\ \A y \in S : y <= Max(S)
    BY <2>1, MaxOfSet
  <2>3. k <= Max(S) /\ Max(S) <= k /\ Max(S) \in Int
    BY <2>1, <2>2
  <2> QED
    BY <2>3
\* The recursion over the positions defines a function, for any number of them.
<1>2. \E iter : iter = [S \in SUBSET (1 .. n) |->
         IF S = {} THEN base ELSE Step(p, iter[S \ {Max(S)}], seq[Max(S)])]
  <2> DEFINE Defines(iter, k) ==
               iter = [S \in SUBSET (1 .. k) |->
                         IF S = {} THEN base ELSE Step(p, iter[S \ {Max(S)}], seq[Max(S)])]
             Bad == {k \in 0 .. n : ~ \E iter : Defines(iter, k)}
  <2>1. 0 \notin Bad
    <3>1. Defines([S \in {{}} |-> base], 0)
      <4>1. SUBSET (1 .. 0) = {{}}
        OBVIOUS
      <4> QED
        BY <4>1
    <3> QED
      BY <3>1
  <2>2. ASSUME NEW k \in 0 .. n, k + 1 \in 0 .. n, k \notin Bad
        PROVE  k + 1 \notin Bad
    <3>1. PICK g : Defines(g, k)
      BY <2>2
    <3> DEFINE h == [S \in SUBSET (1 .. k + 1) |->
                       IF k + 1 \in S THEN Step(p, g[S \ {k + 1}], seq[k + 1]) ELSE g[S]]
    <3>2. ASSUME NEW S \in SUBSET (1 .. k + 1)
          PROVE  h[S] = IF S = {} THEN base ELSE Step(p, h[S \ {Max(S)}], seq[Max(S)])
      <4>1. CASE k + 1 \in S
        <5>1. Max(S) = k + 1
          BY <4>1, <2>2, <1>1
        <5>2. S \ {k + 1} \in SUBSET (1 .. k) /\ S \ {k + 1} \in SUBSET (1 .. k + 1)
          OBVIOUS
        <5>3. h[S \ {k + 1}] = g[S \ {k + 1}]
          BY <5>2
        <5>4. h[S] = Step(p, g[S \ {k + 1}], seq[k + 1])
          BY <4>1
        <5> QED
          BY <4>1, <5>1, <5>3, <5>4
      <4>2. CASE k + 1 \notin S
        <5>1. S \in SUBSET (1 .. k)
          BY <4>2
        <5>2. g[S] = IF S = {} THEN base ELSE Step(p, g[S \ {Max(S)}], seq[Max(S)])
          BY <5>1, <3>1
        <5>3. h[S] = g[S]
          BY <4>2
        <5>4. h[S \ {Max(S)}] = g[S \ {Max(S)}]
          BY <4>2
        <5> QED
          BY <5>2, <5>3, <5>4
      <4> QED
        BY <4>1, <4>2
    <3>3. h = [S \in SUBSET (1 .. k + 1) |->
                 IF S = {} THEN base ELSE Step(p, h[S \ {Max(S)}], seq[Max(S)])]
      <4> HIDE DEF h
      <4>1. h = [S \in SUBSET (1 .. k + 1) |-> h[S]]
        BY DEF h
      <4> QED
        BY <4>1, <3>2
    <3> QED
      BY <3>3
  <2>3. Bad = {}
    <3> HIDE DEF Defines
    <3>1. SUFFICES ASSUME Bad # {} PROVE FALSE
      OBVIOUS
    <3>2. Bad \in SUBSET Nat
      OBVIOUS
    <3>3. PICK m \in Bad : \A y \in Bad : m <= y
      <4> HIDE DEF Bad
      <4> QED
        BY <3>1, <3>2, LeastNat
    <3>4. m \in 0 .. n /\ m # 0
      BY <2>1
    <3>5. m - 1 \in 0 .. n /\ (m - 1) + 1 = m /\ m - 1 \notin Bad
      BY <3>2, <3>3, <3>4
    <3> QED
      BY <2>2, <3>4, <3>5
  <2>4. \E iter : Defines(iter, n)
    <3> HIDE DEF Defines
    <3> QED
      BY <2>3
  <2> QED
    BY <2>4
<1> DEFINE Defines(iter) ==
             iter = [S \in SUBSET (1 .. n) |->
                       IF S = {} THEN base ELSE Step(p, iter[S \ {Max(S)}], seq[Max(S)])]
           g == CHOOSE iter : Defines(iter)
           f == [k \in 0 .. n |-> g[1 .. k]]
<1>3. \A S \in SUBSET (1 .. n) :
        g[S] = IF S = {} THEN base ELSE Step(p, g[S \ {Max(S)}], seq[Max(S)])
  <2>1. \E iter : Defines(iter)
    BY <1>2
  <2>2. Defines(g)
    BY <2>1
  <2> QED
    <3> HIDE DEF g
    <3> QED
      BY <2>2
<1>4. Fold(p, base, seq) = g[1 .. n]
  BY DEF Fold, FoldLeft, MapThenFoldSet
<1> HIDE DEF g
<1>5. f[0] = base
  <2>1. 1 .. 0 = {} /\ 0 \in 0 .. n
    OBVIOUS
  <2> QED
    BY <1>3, <2>1
<1>6. ASSUME NEW k \in 1 .. n
      PROVE  f[k] = Step(p, f[k - 1], seq[k])
  <2>1. (1 .. k) \in SUBSET (1 .. n) /\ (1 .. k) # {} /\ Max(1 .. k) = k
    <3>1. (1 .. k) \in SUBSET (1 .. k) /\ k \in 1 .. k
      OBVIOUS
    <3>2. Max(1 .. k) = k
      BY <3>1, <1>1
    <3> QED
      BY <3>2
  <2>2. (1 .. k) \ {k} = 1 .. (k - 1)
    OBVIOUS
  <2>3. g[1 .. k] = Step(p, g[1 .. (k - 1)], seq[k])
    BY <1>3, <2>1, <2>2
  <2> QED
    BY <2>3
<1>7. Fold(p, base, seq) = f[n]
  BY <1>4
<1> HIDE DEF f
<1> QED
  BY <1>5, <1>6, <1>7

\* Nothing to fold, no step.
THEOREM FoldEmpty ==
  ASSUME NEW p, NEW base
  PROVE  Fold(p, base, << >>) = base
<1>1. DOMAIN << >> = 1 .. 0
  OBVIOUS
<1> QED
  BY <1>1, FoldSteps

\* One more element makes one more step.
THEOREM FoldAppend ==
  ASSUME NEW p, NEW base, NEW T, NEW seq \in Seq(T), NEW x \in T
  PROVE  Fold(p, base, Append(seq, x)) = Step(p, Fold(p, base, seq), x)
<1> DEFINE n == Len(seq)
           more == Append(seq, x)
<1>1. /\ n \in Nat /\ DOMAIN seq = 1 .. n /\ DOMAIN more = 1 .. n + 1
      /\ more[n + 1] = x /\ \A k \in 1 .. n : more[k] = seq[k]
  BY AppendProperties, LenProperties
<1> HIDE DEF n, more
<1>2. PICK f : /\ f[0] = base
               /\ \A k \in 1 .. n : f[k] = Step(p, f[k - 1], seq[k])
               /\ Fold(p, base, seq) = f[n]
  BY <1>1, FoldSteps
<1>3. PICK g : /\ g[0] = base
               /\ \A k \in 1 .. n + 1 : g[k] = Step(p, g[k - 1], more[k])
               /\ Fold(p, base, more) = g[n + 1]
  BY <1>1, FoldSteps, n + 1 \in Nat
<1>4. f[n] = g[n]
  <2> DEFINE G == {k \in 0 .. n : f[k] = g[k]}
  <2>1. 0 \in G
    BY <1>1, <1>2, <1>3
  <2>2. ASSUME NEW k \in 1 .. n, k - 1 \in G
        PROVE  k \in G
    <3>1. f[k] = Step(p, f[k - 1], seq[k]) /\ g[k] = Step(p, g[k - 1], more[k])
      BY <1>1, <1>2, <1>3
    <3> QED
      BY <1>1, <2>2, <3>1
  <2>3. n \in 0 .. n
    BY <1>1
  <2> HIDE DEF G
  <2>4. \A k \in 0 .. n : k \in G
    BY <1>1, <2>1, <2>2, Upwards
  <2> QED
    BY <2>3, <2>4 DEF G
<1>5. g[n + 1] = Step(p, g[n], x)
  <2>1. n + 1 \in 1 .. n + 1 /\ (n + 1) - 1 = n
    BY <1>1
  <2> QED
    BY <1>1, <1>3, <2>1
<1> QED
  BY <1>2, <1>3, <1>4, <1>5 DEF more

\* The same with a name for the series.
Turns(f, p, base, seq, n) ==
  /\ f[0] = base
  /\ \A k \in 1 .. n : f[k] = Step(p, f[k - 1], seq[k])
  /\ Fold(p, base, seq) = f[n]

\* Every fold has such a series.
THEOREM FoldTurns ==
  ASSUME NEW p, NEW base, NEW seq, NEW n \in Nat, DOMAIN seq = 1 .. n
  PROVE  \E f : Turns(f, p, base, seq, n)
<1> DEFINE F == Fold(p, base, seq)
<1>1. F = Fold(p, base, seq)
  OBVIOUS
<1> HIDE DEF F
<1>2. \E f : /\ f[0] = base
             /\ \A k \in 1 .. n : f[k] = Step(p, f[k - 1], seq[k])
             /\ Fold(p, base, seq) = f[n]
  BY <1>1, FoldSteps
<1> QED
  BY <1>2 DEF Turns

-----------------------------------------------------------------------------
(* Sums over finite sets.                                                  *)

\* The sum of what Step makes of p, acc and each member of S.
SumOver(p, acc, S) == MapThenSumSet(LAMBDA x : Step(p, acc, x), S)

FirstOf(T) == CHOOSE x \in T : TRUE

\* f adds up the members of each subset of S, in the order of FirstOf.
Adds(f, p, acc, S) ==
  f = [T \in SUBSET S |-> IF T = {} THEN 0 ELSE Step(p, acc, FirstOf(T)) + f[T \ {FirstOf(T)}]]

\* What Adds says of one subset.
LEMMA AddsAt ==
  ASSUME NEW p, NEW acc, NEW S, NEW f, Adds(f, p, acc, S), NEW T \in SUBSET S
  PROVE  /\ T = {} => f[T] = 0
         /\ T # {} => /\ f[T] = Step(p, acc, FirstOf(T)) + f[T \ {FirstOf(T)}]
                      /\ FirstOf(T) \in T /\ T \ {FirstOf(T)} \in SUBSET S
<1>1. f[T] = IF T = {} THEN 0 ELSE Step(p, acc, FirstOf(T)) + f[T \ {FirstOf(T)}]
  BY Zenon DEF Adds
<1>2. T # {} => FirstOf(T) \in T
  BY DEF FirstOf
<1> QED
  BY <1>1, <1>2

\* Nothing adds up to nothing.
LEMMA AddsEmpty ==
  ASSUME NEW p, NEW acc, NEW S, NEW f, Adds(f, p, acc, S)
  PROVE  f[{}] = 0
<1>1. {} \in SUBSET S
  OBVIOUS
<1> QED
  BY <1>1 DEF Adds

\* The recursion over the subsets of a finite set defines a function.
LEMMA AddsExists ==
  ASSUME NEW p, NEW acc, NEW S, IsFiniteSet(S)
  PROVE  \E f : Adds(f, p, acc, S)
<1> DEFINE n == Cardinality(S)
           Small(k) == {T \in SUBSET S : Cardinality(T) <= k}
           Upto(f, k) ==
             f = [T \in Small(k) |-> IF T = {} THEN 0
                                     ELSE Step(p, acc, FirstOf(T)) + f[T \ {FirstOf(T)}]]
           G == {k \in 0 .. n : \E f : Upto(f, k)}
<1>1. n \in Nat /\ \A T \in SUBSET S : IsFiniteSet(T) /\ Cardinality(T) \in Nat /\ Cardinality(T) <= n
  BY FS_CardinalityType, FS_Subset
<1>2. \A T \in SUBSET S : T # {} => /\ FirstOf(T) \in T /\ T \ {FirstOf(T)} \in SUBSET S
                                    /\ Cardinality(T \ {FirstOf(T)}) = Cardinality(T) - 1
  <2> TAKE T \in SUBSET S
  <2> HAVE T # {}
  <2>1. FirstOf(T) \in T
    BY DEF FirstOf
  <2> QED
    BY <2>1, <1>1, FS_RemoveElement
<1>3. 0 \in G
  <2>1. Small(0) = {{}}
    <3>1. Cardinality({}) = 0
      BY FS_EmptySet
    <3>2. \A T \in SUBSET S : Cardinality(T) <= 0 => T = {}
      BY <1>1, FS_EmptySet
    <3> QED
      BY <3>1, <3>2
  <2>2. Upto([T \in {{}} |-> 0], 0)
    BY <2>1
  <2>3. 0 \in 0 .. n
    BY <1>1
  <2> HIDE DEF Upto
  <2> QED
    BY <2>2, <2>3
<1>4. ASSUME NEW k \in 1 .. n, k - 1 \in G
      PROVE  k \in G
  <2>1. PICK g : Upto(g, k - 1)
    BY <1>4
  <2> DEFINE h == [T \in Small(k) |-> IF T \in Small(k - 1) THEN g[T]
                                      ELSE Step(p, acc, FirstOf(T)) + g[T \ {FirstOf(T)}]]
  <2>2. ASSUME NEW T \in Small(k)
        PROVE  h[T] = IF T = {} THEN 0 ELSE Step(p, acc, FirstOf(T)) + h[T \ {FirstOf(T)}]
    <3>1. T = {} => T \in Small(k - 1)
      BY FS_EmptySet
    <3>2. T # {} => T \ {FirstOf(T)} \in Small(k - 1) /\ T \ {FirstOf(T)} \in Small(k)
      BY <1>1, <1>2
    <3>3. T # {} => h[T \ {FirstOf(T)}] = g[T \ {FirstOf(T)}]
      <4> HIDE DEF Small
      <4> QED
        BY <3>2
    <3>4. T \in Small(k - 1) =>
            g[T] = IF T = {} THEN 0 ELSE Step(p, acc, FirstOf(T)) + g[T \ {FirstOf(T)}]
      <4> HIDE DEF Small
      <4> QED
        BY <2>1, Zenon
    <3>5. h[T] = IF T \in Small(k - 1) THEN g[T] ELSE Step(p, acc, FirstOf(T)) + g[T \ {FirstOf(T)}]
      <4> HIDE DEF Small
      <4> QED
        BY Zenon
    <3> HIDE DEF h, Small, Upto
    <3> QED
      BY <3>1, <3>3, <3>4, <3>5
  <2>3. Upto(h, k)
    <3>1. h = [T \in Small(k) |-> h[T]]
      <4> HIDE DEF Small
      <4> QED
        OBVIOUS
    <3> HIDE DEF h, Small
    <3>2. [T \in Small(k) |-> h[T]] =
             [T \in Small(k) |-> IF T = {} THEN 0 ELSE Step(p, acc, FirstOf(T)) + h[T \ {FirstOf(T)}]]
      BY <2>2
    <3> QED
      BY <3>1, <3>2, Zenon
  <2> HIDE DEF Upto
  <2> QED
    BY <2>3
<1>5. n \in G
  <2> HIDE DEF G
  <2> QED
    BY <1>1, <1>3, <1>4, Upwards, n \in 0 .. n
<1>6. Small(n) = SUBSET S
  BY <1>1
<1>7. PICK f : Upto(f, n)
  BY <1>5
<1>8. Adds(f, p, acc, S)
  BY <1>6, <1>7 DEF Adds
<1> QED
  BY <1>8

\* Such functions agree where both are defined.
LEMMA AddsAgree ==
  ASSUME NEW p, NEW acc, NEW S, IsFiniteSet(S), NEW R \in SUBSET S,
         NEW f, Adds(f, p, acc, S), NEW g, Adds(g, p, acc, R)
  PROVE  f[R] = g[R]
<1> DEFINE n == Cardinality(R)
           G == {k \in 0 .. n : \A T \in SUBSET R : Cardinality(T) = k => f[T] = g[T]}
<1>1. n \in Nat /\ \A T \in SUBSET R : IsFiniteSet(T) /\ Cardinality(T) \in Nat
  BY FS_CardinalityType, FS_Subset
<1>2. 0 \in G
  <2>1. \A T \in SUBSET R : Cardinality(T) = 0 => T = {}
    BY <1>1, FS_EmptySet
  <2>2. f[{}] = 0 /\ g[{}] = 0
    BY AddsEmpty
  <2> QED
    BY <1>1, <2>1, <2>2
<1>3. ASSUME NEW k \in 1 .. n, k - 1 \in G
      PROVE  k \in G
  <2> SUFFICES ASSUME NEW T \in SUBSET R, Cardinality(T) = k
               PROVE  f[T] = g[T]
    OBVIOUS
  <2>1. T # {} /\ T \in SUBSET S
    BY FS_EmptySet
  <2>2. /\ f[T] = Step(p, acc, FirstOf(T)) + f[T \ {FirstOf(T)}]
        /\ g[T] = Step(p, acc, FirstOf(T)) + g[T \ {FirstOf(T)}]
        /\ FirstOf(T) \in T
    BY <2>1, AddsAt
  <2>3. Cardinality(T \ {FirstOf(T)}) = k - 1 /\ T \ {FirstOf(T)} \in SUBSET R
    BY <1>1, <2>2, FS_RemoveElement
  <2>4. f[T \ {FirstOf(T)}] = g[T \ {FirstOf(T)}]
    BY <1>3, <2>3
  <2> QED
    BY <2>2, <2>4
<1>4. n \in G
  <2> HIDE DEF G
  <2> QED
    BY <1>1, <1>2, <1>3, Upwards, n \in 0 .. n
<1> QED
  BY <1>4

\* A sum is what Adds says, of the set and of each of its subsets.
LEMMA SumAdds ==
  ASSUME NEW p, NEW acc, NEW S, IsFiniteSet(S)
  PROVE  \E f : Adds(f, p, acc, S) /\ \A R \in SUBSET S : SumOver(p, acc, R) = f[R]
<1> DEFINE F(R) == CHOOSE f : Adds(f, p, acc, R)
<1>1. \A R \in SUBSET S : Adds(F(R), p, acc, R)
  <2> TAKE R \in SUBSET S
  <2>1. IsFiniteSet(R)
    BY FS_Subset
  <2>2. \E f : Adds(f, p, acc, R)
    BY <2>1, AddsExists
  <2> QED
    BY <2>2
<1>2. ASSUME NEW R PROVE SumOver(p, acc, R) = F(R)[R]
  BY DEF SumOver, MapThenSumSet, MapThenFoldSet, Adds, FirstOf
<1> HIDE DEF F
<1>3. \A R \in SUBSET S : F(S)[R] = F(R)[R]
  BY <1>1, AddsAgree
<1> WITNESS F(S)
<1> QED
  BY <1>1, <1>2, <1>3

\* Every member of S is worth an integer.
Whole(p, acc, S) == \A x \in S : Step(p, acc, x) \in Int

\* The sum of R is an integer, and any member can be taken out first.
Summed(p, acc, R) ==
  /\ SumOver(p, acc, R) \in Int
  /\ \A y \in R : SumOver(p, acc, R) = Step(p, acc, y) + SumOver(p, acc, R \ {y})

\* Every sum of integers is an integer, and any member can be taken out first.
LEMMA SumTakeOut ==
  ASSUME NEW p, NEW acc, NEW S, IsFiniteSet(S), Whole(p, acc, S)
  PROVE  SumOver(p, acc, {}) = 0 /\ \A R \in SUBSET S : Summed(p, acc, R)
<1> DEFINE n == Cardinality(S)
           Fine(T) == Summed(p, acc, T)
           G == {k \in 0 .. n : \A T \in SUBSET S : Cardinality(T) <= k => Fine(T)}
<1>1. n \in Nat /\ \A T \in SUBSET S : /\ IsFiniteSet(T) /\ Cardinality(T) \in Nat
                                        /\ Cardinality(T) <= n
  BY FS_CardinalityType, FS_Subset
<1>2. PICK f : Adds(f, p, acc, S) /\ \A R \in SUBSET S : SumOver(p, acc, R) = f[R]
  BY SumAdds
<1>3. SumOver(p, acc, {}) = 0
  <2>1. {} \in SUBSET S
    OBVIOUS
  <2>2. f[{}] = 0
    BY <1>2, AddsEmpty
  <2> QED
    BY <1>2, <2>1, <2>2
<1>4. \A T \in SUBSET S : T # {} =>
        /\ SumOver(p, acc, T) = Step(p, acc, FirstOf(T)) + SumOver(p, acc, T \ {FirstOf(T)})
        /\ FirstOf(T) \in T /\ T \ {FirstOf(T)} \in SUBSET S
  <2> TAKE T \in SUBSET S
  <2> HAVE T # {}
  <2>1. /\ f[T] = Step(p, acc, FirstOf(T)) + f[T \ {FirstOf(T)}]
        /\ FirstOf(T) \in T /\ T \ {FirstOf(T)} \in SUBSET S
    BY <1>2, AddsAt
  <2> QED
    BY <1>2, <2>1
<1>5. 0 \in G
  <2>1. \A T \in SUBSET S : Cardinality(T) <= 0 => T = {}
    BY <1>1, FS_EmptySet
  <2>2. Fine({})
    BY <1>3 DEF Summed
  <2> HIDE DEF Fine
  <2> QED
    BY <1>1, <2>1, <2>2
<1>6. ASSUME NEW k \in 1 .. n, k - 1 \in G
      PROVE  k \in G
  <2> SUFFICES ASSUME NEW T \in SUBSET S, Cardinality(T) <= k, T # {}
               PROVE  Fine(T)
    <3>1. Fine({})
      BY <1>3 DEF Summed
    <3> HIDE DEF Fine
    <3> QED
      BY <3>1
  <2>1. \A y \in T : /\ T \ {y} \in SUBSET S /\ Cardinality(T \ {y}) <= k - 1
                    /\ Fine(T \ {y}) /\ Step(p, acc, y) \in Int
    <3> HIDE DEF Fine
    <3> TAKE y \in T
    <3>1. Cardinality(T \ {y}) = Cardinality(T) - 1 /\ T \ {y} \in SUBSET S
      BY <1>1, FS_RemoveElement
    <3>2. Cardinality(T \ {y}) <= k - 1
      BY <1>1, <3>1
    <3> QED
      BY <3>1, <3>2, <1>6 DEF Whole
  <2> DEFINE x == FirstOf(T)
  <2>2. x \in T /\ SumOver(p, acc, T) = Step(p, acc, x) + SumOver(p, acc, T \ {x})
    BY <1>4
  <2> HIDE DEF x
  <2>3. SumOver(p, acc, T) \in Int
    <3>1. Step(p, acc, x) \in Int /\ SumOver(p, acc, T \ {x}) \in Int
      BY <2>1, <2>2 DEF Summed
    <3> QED
      BY <2>2, <3>1
  <2>4. ASSUME NEW y \in T, y # x
        PROVE  SumOver(p, acc, T) = Step(p, acc, y) + SumOver(p, acc, T \ {y})
    <3>1. SumOver(p, acc, T \ {x}) = Step(p, acc, y) + SumOver(p, acc, (T \ {x}) \ {y})
      BY <2>1, <2>2, <2>4 DEF Summed
    <3>2. SumOver(p, acc, T \ {y}) = Step(p, acc, x) + SumOver(p, acc, (T \ {y}) \ {x})
      BY <2>1, <2>2, <2>4 DEF Summed
    <3>3. (T \ {x}) \ {y} = (T \ {y}) \ {x}
      OBVIOUS
    <3> DEFINE a == SumOver(p, acc, (T \ {y}) \ {x})
    <3>4. a \in Int
      <4>1. Cardinality((T \ {y}) \ {x}) <= k - 1 /\ (T \ {y}) \ {x} \in SUBSET S
        <5>1. IsFiniteSet(T \ {y}) /\ (T \ {y}) \ {x} \in SUBSET (T \ {y})
          BY <1>1, <2>1
        <5>2. Cardinality((T \ {y}) \ {x}) <= Cardinality(T \ {y})
          BY <5>1, FS_Subset
        <5>3. Cardinality((T \ {y}) \ {x}) \in Nat /\ Cardinality(T \ {y}) \in Nat
          BY <5>1, FS_CardinalityType, FS_Subset
        <5>4. (T \ {y}) \ {x} \in SUBSET S
          OBVIOUS
        <5> QED
          BY <2>1, <5>2, <5>3, <5>4
      <4> QED
        BY <4>1, <1>6 DEF Summed
    <3>5. Step(p, acc, x) \in Int /\ Step(p, acc, y) \in Int
      BY <2>1, <2>2
    <3> HIDE DEF a
    <3>6. SumOver(p, acc, T \ {x}) = Step(p, acc, y) + a /\ SumOver(p, acc, T \ {y}) = Step(p, acc, x) + a
      BY <3>1, <3>2, <3>3 DEF a
    <3> QED
      BY <2>2, <3>4, <3>5, <3>6
  <2> QED
    BY <2>2, <2>3, <2>4 DEF Summed
<1>7. n \in G
  <2> HIDE DEF G
  <2> QED
    BY <1>1, <1>5, <1>6, Upwards, n \in 0 .. n
<1>8. \A T \in SUBSET S : Fine(T)
  <2> HIDE DEF Fine
  <2> QED
    BY <1>1, <1>7
<1> QED
  BY <1>3, <1>8

\* One more member adds what it is worth.
LEMMA SumAdd ==
  ASSUME NEW p, NEW acc, NEW S, IsFiniteSet(S), Whole(p, acc, S),
         NEW R \in SUBSET S, NEW y \in S, y \notin R
  PROVE  /\ SumOver(p, acc, R \cup {y}) = SumOver(p, acc, R) + Step(p, acc, y)
         /\ SumOver(p, acc, R) \in Int /\ SumOver(p, acc, R \cup {y}) \in Int
<1>1. R \cup {y} \in SUBSET S /\ y \in R \cup {y} /\ (R \cup {y}) \ {y} = R
  OBVIOUS
<1>2. /\ SumOver(p, acc, R) \in Int /\ SumOver(p, acc, R \cup {y}) \in Int
      /\ SumOver(p, acc, R \cup {y}) = Step(p, acc, y) + SumOver(p, acc, (R \cup {y}) \ {y})
  BY <1>1, SumTakeOut DEF Summed
<1>3. Step(p, acc, y) \in Int
  BY DEF Whole
<1>4. SumOver(p, acc, R \cup {y}) = Step(p, acc, y) + SumOver(p, acc, R)
  BY <1>1, <1>2
<1> QED
  BY <1>2, <1>3, <1>4

\* Of members that are worth nothing less than 0, more are worth no less.
LEMMA SumMonotone ==
  ASSUME NEW p, NEW acc, NEW S, IsFiniteSet(S), \A x \in S : Step(p, acc, x) \in Nat,
         NEW R \in SUBSET S
  PROVE  SumOver(p, acc, R) <= SumOver(p, acc, S)
<1> DEFINE n == Cardinality(S)
           G == {k \in 0 .. n : \A T \in SUBSET S : Cardinality(T) = k /\ R \subseteq T
                                                  => SumOver(p, acc, R) <= SumOver(p, acc, T)}
<1>1. n \in Nat /\ \A T \in SUBSET S : /\ IsFiniteSet(T) /\ Cardinality(T) \in Nat
  BY FS_CardinalityType, FS_Subset
<1>2. /\ SumOver(p, acc, {}) = 0
      /\ \A T \in SUBSET S :
           /\ SumOver(p, acc, T) \in Int
           /\ \A y \in T : SumOver(p, acc, T) = Step(p, acc, y) + SumOver(p, acc, T \ {y})
  <2>1. Whole(p, acc, S)
    BY DEF Whole
  <2> QED
    BY <2>1, SumTakeOut DEF Summed
<1>3. 0 \in G
  <2>1. \A T \in SUBSET S : Cardinality(T) = 0 => T = {}
    BY <1>1, FS_EmptySet
  <2>2. \A T \in SUBSET S : Cardinality(T) = 0 /\ R \subseteq T => R = T
    BY <2>1
  <2> QED
    BY <1>1, <1>2, <2>2
<1>4. ASSUME NEW k \in 1 .. n, k - 1 \in G
      PROVE  k \in G
  <2> SUFFICES ASSUME NEW T \in SUBSET S, Cardinality(T) = k, R \subseteq T, R # T
               PROVE  SumOver(p, acc, R) <= SumOver(p, acc, T)
    BY <1>2
  <2>1. PICK y \in T : y \notin R
    OBVIOUS
  <2>2. Cardinality(T \ {y}) = k - 1 /\ T \ {y} \in SUBSET S /\ R \subseteq T \ {y}
    BY <1>1, <2>1, FS_RemoveElement
  <2>3. SumOver(p, acc, R) <= SumOver(p, acc, T \ {y})
    BY <1>4, <2>2
  <2>4. SumOver(p, acc, T) = Step(p, acc, y) + SumOver(p, acc, T \ {y})
    BY <1>2, <2>1
  <2>5. /\ Step(p, acc, y) \in Nat /\ SumOver(p, acc, R) \in Int
        /\ SumOver(p, acc, T \ {y}) \in Int
    BY <1>2, <2>2
  <2> QED
    BY <2>3, <2>4, <2>5
<1>5. n \in G
  <2> HIDE DEF G
  <2> QED
    BY <1>1, <1>3, <1>4, Upwards, n \in 0 .. n
<1> QED
  BY <1>5

=============================================================================
