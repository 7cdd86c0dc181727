------------------------------ MODULE Counting ------------------------------
(***************************************************************************)
(* How many elements of a sequence are in a set, as the sequence grows at  *)
(* its end and shrinks at its head: the counts the proofs about queues and *)
(* connections keep.                                                       *)
(***************************************************************************)
EXTENDS Integers, Sequences, FiniteSets, FiniteSetTheorems, TLAPS

Places(s, L) == {i \in DOMAIN s : s[i] \in L}
Count(s, L) == Cardinality(Places(s, L))

(* A sequence with one element more, element by element.                   *)
LEMMA Grown ==
  ASSUME NEW S, NEW s \in Seq(S), NEW e \in S
  PROVE  /\ Append(s, e) \in Seq(S)
         /\ Len(s) \in Nat /\ Len(Append(s, e)) = Len(s) + 1
         /\ DOMAIN s = 1 .. Len(s) /\ DOMAIN Append(s, e) = 1 .. Len(s) + 1
         /\ Append(s, e)[Len(s) + 1] = e
         /\ \A i \in 1 .. Len(s) : Append(s, e)[i] = s[i]
OBVIOUS

(* A sequence without its head, element by element.                        *)
LEMMA Shrunk ==
  ASSUME NEW S, NEW s \in Seq(S), s # << >>
  PROVE  /\ Tail(s) \in Seq(S) /\ Head(s) \in S
         /\ Len(s) \in Nat \ {0} /\ Len(Tail(s)) = Len(s) - 1
         /\ DOMAIN s = 1 .. Len(s) /\ DOMAIN Tail(s) = 1 .. Len(s) - 1
         /\ Head(s) = s[1]
         /\ \A i \in 1 .. Len(s) - 1 : Tail(s)[i] = s[i + 1]
<1>1. Len(s) \in Nat /\ Len(s) > 0
  OBVIOUS
<1>. QED  BY <1>1

LEMMA CountIsNat ==
  ASSUME NEW S, NEW s \in Seq(S), NEW L
  PROVE  /\ IsFiniteSet(Places(s, L)) /\ Count(s, L) \in Nat
         /\ Count(s, L) = 0 <=> \A i \in DOMAIN s : s[i] \notin L
<1>1. Len(s) \in Nat /\ DOMAIN s = 1 .. Len(s)
  OBVIOUS
<1>2. IsFiniteSet(1 .. Len(s))
  BY <1>1, FS_Interval
<1>3. Places(s, L) \in SUBSET (1 .. Len(s))
  BY <1>1 DEF Places
<1>4. IsFiniteSet(Places(s, L))
  BY <1>2, <1>3, FS_Subset
<1>5. Count(s, L) \in Nat
  BY <1>4, FS_CardinalityType DEF Count
<1>6. Count(s, L) = 0 <=> Places(s, L) = {}
  BY <1>4, FS_EmptySet DEF Count
<1>7. Places(s, L) = {} <=> \A i \in DOMAIN s : s[i] \notin L
  BY DEF Places
<1>. QED  BY <1>4, <1>5, <1>6, <1>7

(* One more, if what is appended counts.                                   *)
LEMMA CountGrows ==
  ASSUME NEW S, NEW s \in Seq(S), NEW e \in S, NEW L
  PROVE  Count(Append(s, e), L) = IF e \in L THEN Count(s, L) + 1 ELSE Count(s, L)
<1>1. IsFiniteSet(Places(s, L))
  BY CountIsNat
<1>2. /\ Len(s) \in Nat /\ DOMAIN s = 1 .. Len(s) /\ DOMAIN Append(s, e) = 1 .. Len(s) + 1
      /\ Append(s, e)[Len(s) + 1] = e
      /\ \A i \in 1 .. Len(s) : Append(s, e)[i] = s[i]
  BY Grown
<1>3. Len(s) + 1 \notin Places(s, L)
  BY <1>2 DEF Places
<1>4. CASE e \in L
  <2>1. Places(Append(s, e), L) = Places(s, L) \cup {Len(s) + 1}
    BY <1>2, <1>4 DEF Places
  <2>. QED  BY <1>1, <1>3, <1>4, <2>1, FS_AddElement DEF Count
<1>5. CASE e \notin L
  <2>1. Places(Append(s, e), L) = Places(s, L)
    BY <1>2, <1>5 DEF Places
  <2>. QED  BY <1>5, <2>1 DEF Count
<1>. QED  BY <1>4, <1>5

(* One less, if the head counts: the places of the tail, moved by one, are *)
(* those of the sequence but for the first.                                *)
LEMMA CountShrinks ==
  ASSUME NEW S, NEW s \in Seq(S), s # << >>, NEW L
  PROVE  Count(Tail(s), L) = IF Head(s) \in L THEN Count(s, L) - 1 ELSE Count(s, L)
<1>1. IsFiniteSet(Places(s, L))
  BY CountIsNat
<1>2. /\ Tail(s) \in Seq(S) /\ Len(s) \in Nat \ {0}
      /\ DOMAIN s = 1 .. Len(s) /\ DOMAIN Tail(s) = 1 .. Len(s) - 1
      /\ Head(s) = s[1]
      /\ \A i \in 1 .. Len(s) - 1 : Tail(s)[i] = s[i + 1]
  BY Shrunk
<1>. DEFINE R == Places(s, L) \ {1}
            T == Places(Tail(s), L)
            f == [i \in T |-> i + 1]
<1>3. \A i \in T : i \in 1 .. Len(s) - 1 /\ i + 1 \in R
  BY <1>2 DEF Places
<1>4. \A k \in R : k - 1 \in T /\ k = (k - 1) + 1
  BY <1>2 DEF Places
<1>5. f \in Bijection(T, R)
  <2>. HIDE DEF T, R
  <2>1. f \in [T -> R]
    BY <1>3
  <2>2. \A i, k \in T : f[i] = f[k] => i = k
    BY <1>3
  <2>3. \A k \in R : \E i \in T : f[i] = k
    <3>. TAKE k \in R
    <3>1. k - 1 \in T /\ f[k - 1] = k
      BY <1>4
    <3>. QED  BY <3>1
  <2>. QED  BY <2>1, <2>2, <2>3, Zenon DEF Bijection, Injection, Surjection, IsInjective
<1>6. ExistsBijection(T, R)
  BY <1>5 DEF ExistsBijection
<1>7. IsFiniteSet(R) /\ Cardinality(R) = IF 1 \in Places(s, L) THEN Count(s, L) - 1 ELSE Count(s, L)
  BY <1>1, FS_RemoveElement DEF Count
<1>8. Cardinality(T) = Cardinality(R)
  <2>1. IsFiniteSet(T)
    BY <1>2, CountIsNat
  <2>. QED  BY <1>6, <2>1, FS_Bijection
<1>9. 1 \in Places(s, L) <=> Head(s) \in L
  BY <1>2 DEF Places
<1>. QED  BY <1>7, <1>8, <1>9 DEF Count

=============================================================================
