------------------------------ MODULE SeqFacts ------------------------------
(***************************************************************************)
(* Facts about the slices the Go code edits in place (append, reslice,     *)
(* delete the first match), used by the proofs about the other modules.    *)
(***************************************************************************)
EXTENDS Integers, SequencesExt, SequenceTheorems, FiniteSetTheorems, TLAPS

(* Deleting the first match of a slice without duplicates removes exactly  *)
(* that element and keeps the order of the others.                         *)
LEMMA RemoveFirstAbsent ==
  ASSUME NEW S, NEW q \in Seq(S), NEW e, e \notin ToSet(q)
  PROVE  RemoveFirst(q, e) = q
  BY DEF RemoveFirst, ToSet

(* Cutting one position out of a slice keeps the others in their order.    *)
LEMMA RemoveAtFacts ==
  ASSUME NEW S, NEW q \in Seq(S), NEW k \in 1..Len(q)
  PROVE  /\ RemoveAt(q, k) \in Seq(S)
         /\ Len(RemoveAt(q, k)) = Len(q) - 1
         /\ \A i \in 1..(Len(q)-1) :
              RemoveAt(q, k)[i] = IF i < k THEN q[i] ELSE q[i+1]
<1> DEFINE l == SubSeq(q, 1, k-1)
           r == SubSeq(q, k+1, Len(q))
<1>2. Len(q) \in Nat /\ \A i \in 1..Len(q) : q[i] \in S
  BY LenProperties, ElementOfSeq
<1>3. /\ l \in Seq(S) /\ Len(l) = k-1
      /\ \A i \in 1..(k-1) : l[i] = q[i]
  <2>1. /\ 1 \in Int /\ k-1 \in Int /\ \A i \in 1..(k-1) : q[i] \in S
    BY <1>2
  <2>2. /\ l \in Seq(S)
        /\ Len(l) = IF 1 <= k-1 THEN (k-1)-1+1 ELSE 0
        /\ \A i \in 1..((k-1)-1+1) : l[i] = q[1+i-1]
    BY <2>1, SubSeqProperties
  <2> QED BY <2>2, <1>2
<1>4. /\ r \in Seq(S) /\ Len(r) = Len(q) - k
      /\ \A i \in 1..(Len(q)-k) : r[i] = q[k+i]
  <2>1. /\ k+1 \in Int /\ Len(q) \in Int
        /\ \A i \in (k+1)..Len(q) : q[i] \in S
    BY <1>2
  <2>2. /\ r \in Seq(S)
        /\ Len(r) = IF k+1 <= Len(q) THEN Len(q)-(k+1)+1 ELSE 0
        /\ \A i \in 1..(Len(q)-(k+1)+1) : r[i] = q[(k+1)+i-1]
    BY <2>1, SubSeqProperties
  <2> QED BY <2>2, <1>2
<1> HIDE DEF l, r
<1>5. /\ l \o r \in Seq(S)
      /\ Len(l \o r) = Len(l) + Len(r)
      /\ \A i \in 1..(Len(l) + Len(r)) :
           (l \o r)[i] = IF i <= Len(l) THEN l[i] ELSE r[i - Len(l)]
  BY <1>3, <1>4, ConcatProperties
<1>6. Len(l) + Len(r) = Len(q) - 1
  BY <1>2, <1>3, <1>4
<1>7. ASSUME NEW i \in 1..(Len(q)-1)
      PROVE  (l \o r)[i] = IF i < k THEN q[i] ELSE q[i+1]
  <2>1. CASE i < k
    BY <2>1, <1>2, <1>3, <1>5, <1>6
  <2>2. CASE ~(i < k)
    <3>1. i - Len(l) \in 1..(Len(q)-k) /\ k + (i - Len(l)) = i + 1
      BY <2>2, <1>2, <1>3
    <3>2. (l \o r)[i] = r[i - Len(l)]
      BY <2>2, <1>2, <1>3, <1>5, <1>6
    <3>3. r[i - Len(l)] = q[k + (i - Len(l))]
      BY <3>1, <1>4
    <3> QED BY <2>2, <3>1, <3>2, <3>3
  <2> QED BY <2>1, <2>2
<1> QED BY <1>5, <1>6, <1>7 DEF l, r, RemoveAt

(* Which position the match is at, and what the result is made of.         *)
LEMMA RemoveFirstSplit ==
  ASSUME NEW S, NEW q \in Seq(S), IsInjective(q), NEW e, e \in ToSet(q)
  PROVE  \E k \in 1..Len(q) :
           /\ q[k] = e
           /\ RemoveFirst(q, e) = RemoveAt(q, k)
<1>1. PICK k \in 1..Len(q) : q[k] = e
  BY DEF ToSet
<1>2. {i \in 1..Len(q) : q[i] = e} = {k}
  BY <1>1 DEF IsInjective
<1>3. Min({k}) = k
  BY <1>1 DEF Min
<1>4. SelectInSeq(q, LAMBDA v : v = e) = k
  BY <1>2, <1>3 DEF SelectInSeq
<1>5. RemoveFirst(q, e) = RemoveAt(q, k)
  BY <1>1, <1>4 DEF RemoveFirst
<1> QED BY <1>1, <1>5

(* The same result, element by element.                                    *)
LEMMA RemoveFirstElements ==
  ASSUME NEW S, NEW q \in Seq(S), IsInjective(q), NEW e, e \in ToSet(q)
  PROVE  \E k \in 1..Len(q) :
           /\ q[k] = e
           /\ RemoveFirst(q, e) \in Seq(S)
           /\ Len(RemoveFirst(q, e)) = Len(q) - 1
           /\ \A i \in 1..(Len(q)-1) :
                RemoveFirst(q, e)[i] = IF i < k THEN q[i] ELSE q[i+1]
<1>1. PICK k \in 1..Len(q) :
           q[k] = e /\ RemoveFirst(q, e) = RemoveAt(q, k)
  BY RemoveFirstSplit
<1> QED BY <1>1, RemoveAtFacts

(* What the callers rely on.                                               *)
LEMMA RemoveFirstFacts ==
  ASSUME NEW S, NEW q \in Seq(S), IsInjective(q), NEW e
  PROVE  /\ RemoveFirst(q, e) \in Seq(S)
         /\ IsInjective(RemoveFirst(q, e))
         /\ ToSet(RemoveFirst(q, e)) = ToSet(q) \ {e}
         /\ Len(RemoveFirst(q, e)) <= Len(q)
         /\ e \in ToSet(q) => Len(RemoveFirst(q, e)) = Len(q) - 1
         /\ \A i, j \in DOMAIN RemoveFirst(q, e) : i < j =>
              \E m, n \in DOMAIN q : /\ m < n
                                     /\ RemoveFirst(q, e)[i] = q[m]
                                     /\ RemoveFirst(q, e)[j] = q[n]
<1> DEFINE r == RemoveFirst(q, e)
<1>0. Len(q) \in Nat /\ DOMAIN q = 1..Len(q)
  BY LenProperties
<1>1. CASE e \notin ToSet(q)
  <2>1. r = q
    BY <1>1, RemoveFirstAbsent
  <2>2. ToSet(q) \ {e} = ToSet(q)
    BY <1>1
  <2>3. \A i, j \in DOMAIN q : i < j =>
          \E m, n \in DOMAIN q : m < n /\ q[i] = q[m] /\ q[j] = q[n]
    OBVIOUS
  <2>4. e \in ToSet(q) => Len(q) = Len(q) - 1
    BY <1>1
  <2>5. Len(q) <= Len(q)
    BY <1>0
  <2> QED BY Zenon, <2>1, <2>2, <2>3, <2>4, <2>5
<1>2. CASE e \in ToSet(q)
  <2>1. PICK k \in 1..Len(q) :
           /\ q[k] = e
           /\ r \in Seq(S)
           /\ Len(r) = Len(q) - 1
           /\ \A i \in 1..(Len(q)-1) : r[i] = IF i < k THEN q[i] ELSE q[i+1]
    BY <1>2, RemoveFirstElements
  <2> HIDE DEF r
  <2>2. DOMAIN r = 1..(Len(q)-1)
    BY <2>1, LenProperties
  <2> DEFINE pos(i) == IF i < k THEN i ELSE i+1
  <2>3. \A i \in DOMAIN r : pos(i) \in DOMAIN q /\ r[i] = q[pos(i)] /\ pos(i) # k
    BY <1>0, <2>1, <2>2
  <2>4. \A i, j \in DOMAIN r : i < j => pos(i) < pos(j)
    BY <1>0, <2>2
  <2>5. \A n \in DOMAIN q : n # k => \E i \in DOMAIN r : pos(i) = n
    <3> TAKE n \in DOMAIN q
    <3> HAVE n # k
    <3>1. CASE n < k
      BY <3>1, <1>0, <2>2
    <3>2. CASE n > k
      <4>1. n-1 \in DOMAIN r /\ pos(n-1) = n
        BY <3>2, <1>0, <2>2
      <4> QED BY <4>1
    <3> QED BY <3>1, <3>2, <1>0
  <2> HIDE DEF pos
  <2>6. IsInjective(r)
    <3> SUFFICES ASSUME NEW i \in DOMAIN r, NEW j \in DOMAIN r, r[i] = r[j]
                 PROVE  i = j
      BY DEF IsInjective
    <3>1. pos(i) = pos(j)
      BY <2>3 DEF IsInjective
    <3> QED BY <3>1, <1>0, <2>1, <2>2 DEF pos
  <2>7. ToSet(r) = ToSet(q) \ {e}
    <3>1. ToSet(r) \subseteq ToSet(q) \ {e}
      BY <2>1, <2>3 DEF ToSet, IsInjective
    <3>2. ToSet(q) \ {e} \subseteq ToSet(r)
      BY <2>1, <2>3, <2>5 DEF ToSet
    <3> QED BY <3>1, <3>2
  <2>8. \A i, j \in DOMAIN r : i < j =>
          \E m, n \in DOMAIN q : m < n /\ r[i] = q[m] /\ r[j] = q[n]
    BY <2>3, <2>4
  <2> QED BY <1>0, <2>1, <2>6, <2>7, <2>8 DEF r
<1> QED BY <1>1, <1>2

(* Appending a new element to a slice without duplicates.                  *)
LEMMA AppendFacts ==
  ASSUME NEW S, NEW q \in Seq(S), IsInjective(q), NEW e \in S, e \notin ToSet(q)
  PROVE  /\ Append(q, e) \in Seq(S)
         /\ IsInjective(Append(q, e))
         /\ ToSet(Append(q, e)) = ToSet(q) \cup {e}
         /\ Len(Append(q, e)) = Len(q) + 1
         /\ \A i \in 1..Len(q) : Append(q, e)[i] = q[i]
         /\ Append(q, e)[Len(q) + 1] = e
<1> DEFINE r == Append(q, e)
<1>1. /\ Len(q) \in Nat /\ DOMAIN q = 1..Len(q)
      /\ r \in Seq(S) /\ Len(r) = Len(q) + 1 /\ DOMAIN r = 1..(Len(q)+1)
      /\ \A i \in 1..Len(q) : r[i] = q[i]
      /\ r[Len(q) + 1] = e
  OBVIOUS
<1> HIDE DEF r
<1>2. IsInjective(r)
  BY <1>1 DEF IsInjective, ToSet
<1>3. ToSet(r) = ToSet(q) \cup {e}
  <2>1. ToSet(r) \subseteq ToSet(q) \cup {e}
    BY <1>1 DEF ToSet
  <2>2. ToSet(q) \cup {e} \subseteq ToSet(r)
    <3>1. e \in ToSet(r)
      BY <1>1 DEF ToSet
    <3>2. ToSet(q) \subseteq ToSet(r)
      BY <1>1 DEF ToSet
    <3> QED BY <3>1, <3>2
  <2> QED BY <2>1, <2>2
<1> QED BY <1>1, <1>2, <1>3 DEF r

(* Reslicing [1:] a non-empty slice without duplicates.                    *)
LEMMA TailFacts ==
  ASSUME NEW S, NEW q \in Seq(S), IsInjective(q), q # <<>>
  PROVE  /\ Tail(q) \in Seq(S)
         /\ IsInjective(Tail(q))
         /\ ToSet(Tail(q)) = ToSet(q) \ {Head(q)}
         /\ Len(Tail(q)) = Len(q) - 1
<1> DEFINE r == Tail(q)
<1>1. /\ Len(q) \in Nat \ {0} /\ DOMAIN q = 1..Len(q) /\ Head(q) = q[1]
      /\ r \in Seq(S) /\ Len(r) = Len(q) - 1 /\ DOMAIN r = 1..(Len(q)-1)
      /\ \A i \in 1..(Len(q)-1) : r[i] = q[i+1]
  OBVIOUS
<1> HIDE DEF r
<1>2. IsInjective(r)
  <2> SUFFICES ASSUME NEW i \in 1..(Len(q)-1), NEW j \in 1..(Len(q)-1),
                      r[i] = r[j]
               PROVE  i = j
    BY <1>1 DEF IsInjective
  <2>1. i+1 \in DOMAIN q /\ j+1 \in DOMAIN q /\ q[i+1] = q[j+1]
    BY <1>1
  <2>2. i+1 = j+1
    BY <2>1 DEF IsInjective
  <2> QED BY <2>2
<1>3. ToSet(r) = ToSet(q) \ {q[1]}
  <2>1. ToSet(r) \subseteq ToSet(q) \ {q[1]}
    BY <1>1 DEF ToSet, IsInjective
  <2>2. ASSUME NEW x \in ToSet(q) \ {q[1]}
        PROVE  x \in ToSet(r)
    <3>1. PICK n \in 1..Len(q) : x = q[n]
      BY <1>1 DEF ToSet
    <3>2. n-1 \in 1..(Len(q)-1) /\ r[n-1] = q[n]
      BY <3>1, <1>1
    <3> QED BY <3>1, <3>2, <1>1 DEF ToSet
  <2> QED BY <2>1, <2>2
<1> QED BY <1>1, <1>2, <1>3 DEF r

(* A slice holds at most as many elements as it is long.                   *)
LEMMA ToSetBound ==
  ASSUME NEW S, NEW q \in Seq(S)
  PROVE  IsFiniteSet(ToSet(q)) /\ Cardinality(ToSet(q)) <= Len(q)
<1>1. Len(q) \in Nat /\ DOMAIN q = 1..Len(q)
  BY LenProperties
<1>2. IsFiniteSet(1..Len(q)) /\ Cardinality(1..Len(q)) = Len(q)
  <2>1. 1 \in Int /\ Len(q) \in Int BY <1>1
  <2>2. /\ IsFiniteSet(1..Len(q))
        /\ Cardinality(1..Len(q)) = IF 1 > Len(q) THEN 0 ELSE Len(q)-1+1
    BY <2>1, FS_Interval
  <2> QED BY <1>1, <2>2
<1>3. q \in Surjection(1..Len(q), ToSet(q))
  <2>1. q \in [1..Len(q) -> S]
    BY LenProperties
  <2>2. q \in [1..Len(q) -> ToSet(q)]
    BY <2>1, <1>1 DEF ToSet
  <2>3. \A x \in ToSet(q) : \E i \in 1..Len(q) : q[i] = x
    BY <1>1 DEF ToSet
  <2> QED BY <2>2, <2>3 DEF Surjection
<1> QED BY <1>2, <1>3, FS_Surjection

(* Every element of a finite set of positions has a rank of its own, and   *)
(* every rank below the size of the set is taken.                          *)
Below(F, k) == {j \in F : j < k}

LEMMA RankFacts ==
  ASSUME NEW F \in SUBSET Nat, IsFiniteSet(F)
  PROVE  /\ Cardinality(F) \in Nat
         /\ \A k \in F : Cardinality(Below(F, k)) \in 0..(Cardinality(F) - 1)
         /\ \A k, l \in F : Cardinality(Below(F, k)) = Cardinality(Below(F, l)) => k = l
         /\ \A n \in 0..(Cardinality(F) - 1) : \E k \in F : Cardinality(Below(F, k)) = n
<1> DEFINE m == Cardinality(F)
<1>1. m \in Nat BY FS_CardinalityType
<1>2. ASSUME NEW k \in F
      PROVE  /\ IsFiniteSet(Below(F, k)) /\ Cardinality(Below(F, k)) \in Nat
             /\ Cardinality(Below(F, k)) <= m - 1
  <2>1. Below(F, k) \in SUBSET F /\ k \notin Below(F, k) BY DEF Below
  <2>2. IsFiniteSet(Below(F, k)) BY <2>1, FS_Subset
  <2>3. Cardinality(Below(F, k)) \in Nat BY <2>2, FS_CardinalityType
  <2>4. Cardinality(Below(F, k)) <= m BY <2>1, FS_Subset
  <2>5. Cardinality(Below(F, k)) # m BY <2>1, FS_Subset
  <2> QED BY <1>1, <2>2, <2>3, <2>4, <2>5
<1>3. ASSUME NEW k \in F, NEW l \in F, k < l
      PROVE  Cardinality(Below(F, k)) # Cardinality(Below(F, l))
  <2>1. Below(F, k) \in SUBSET Below(F, l) /\ k \in Below(F, l) /\ k \notin Below(F, k)
    <3>1. k \in Nat /\ l \in Nat /\ \A j \in F : j \in Nat OBVIOUS
    <3>2. \A j \in F : j < k => j < l BY <1>3, <3>1
    <3>3. ~(k < k) BY <3>1
    <3> QED BY <1>3, <3>2, <3>3 DEF Below
  <2>2. IsFiniteSet(Below(F, l)) BY <1>2
  <2> QED BY <2>1, <2>2, FS_Subset
<1>4. ASSUME NEW k \in F, NEW l \in F, Cardinality(Below(F, k)) = Cardinality(Below(F, l))
      PROVE  k = l
  <2>1. k \in Nat /\ l \in Nat OBVIOUS
  <2>2. ~(k < l) BY <1>3, <1>4
  <2>3. ~(l < k) BY <1>3, <1>4
  <2> QED BY <2>1, <2>2, <2>3
<1> DEFINE T == 0..(m - 1)
           f == [k \in F |-> Cardinality(Below(F, k))]
<1>5. IsFiniteSet(T) /\ Cardinality(T) = m
  <2>1. 0 \in Int /\ m - 1 \in Int BY <1>1
  <2>2. IsFiniteSet(T) /\ Cardinality(T) = IF 0 > m - 1 THEN 0 ELSE (m - 1) - 0 + 1
    BY <2>1, FS_Interval
  <2> HIDE DEF m
  <2> QED BY <1>1, <2>2
<1>6. f \in Injection(F, T)
  <2>1. \A k \in F : Cardinality(Below(F, k)) \in T BY <1>1, <1>2
  <2> HIDE DEF T
  <2>2. f \in [F -> T] BY <2>1
  <2>3. \A k, l \in F : f[k] = f[l] => k = l BY <1>4
  <2> QED BY <2>2, <2>3 DEF Injection, IsInjective
<1>7. f \in Surjection(F, T)
  BY <1>5, <1>6, FS_Injection
<1>8. \A n \in T : \E k \in F : Cardinality(Below(F, k)) = n
  BY <1>7 DEF Surjection
<1> QED BY <1>1, <1>2, <1>4, <1>8

(* A non-empty set of positions has a first one.                           *)
LEMMA FirstPosition ==
  ASSUME NEW F \in SUBSET Nat, IsFiniteSet(F), F # {}
  PROVE  \E k \in F : \A j \in F : k <= j
<1>1. Cardinality(F) \in Nat /\ Cardinality(F) # 0
  BY FS_CardinalityType, FS_EmptySet
<1>2. PICK k \in F : Cardinality(Below(F, k)) = 0
  <2>1. 0 \in 0..(Cardinality(F) - 1) BY <1>1
  <2> QED BY <2>1, RankFacts
<1>3. Below(F, k) \in SUBSET F BY DEF Below
<1>4. Below(F, k) = {} BY <1>2, <1>3, FS_Subset, FS_EmptySet
<1> QED BY <1>4 DEF Below
=============================================================================
