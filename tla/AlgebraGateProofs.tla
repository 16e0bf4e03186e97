--------------------------- MODULE AlgebraGateProofs ---------------------------
(***************************************************************************)
(* What AlgebraGate accepts, for every table, mutation and node list.      *)
(***************************************************************************)
EXTENDS AlgebraGate, WellFoundedInduction, FiniteSetTheorems, TLAPS

(* A set of naturals has a least element: what induction is proved with.   *)
LEMMA Least ==
  ASSUME NEW T \in SUBSET Nat, T # {}
  PROVE  \E x \in T : \A y \in T : x <= y
<1>1. IsWellFoundedOn(OpToRel(<, Nat), Nat)
  BY NatLessThanWellFounded
<1>2. PICK x \in T : \A y \in T : ~ (<<y, x>> \in OpToRel(<, Nat))
  BY <1>1, WFMin
<1>3. \A y \in T : ~(y < x)
  BY <1>2 DEF OpToRel
<1> QED BY <1>3

-------------------------------------------------------------------------------
(* Sorted lists.                                                           *)
Ascending(s) == \A i, j \in DOMAIN s : i < j => s[i] < s[j]

(* Comparing neighbours is enough.                                         *)
LEMMA NodeListAscends ==
  ASSUME NEW s, NodeList(s)
  PROVE  s \in [1..Len(s) -> Nat] /\ Ascending(s) /\ Len(s) \in Nat
<1>1. /\ s \in Seq(Nat) /\ Len(s) \in Nat /\ s \in [1..Len(s) -> Nat]
      /\ \A i \in 1..Len(s) - 1 : s[i] <= s[i + 1]
      /\ \A i, j \in 1..Len(s) : s[i] = s[j] => i = j
  BY DEF NodeList, IsInjective
<1> SUFFICES ASSUME NEW i \in 1..Len(s), NEW j \in 1..Len(s), i < j
             PROVE  s[i] < s[j]
  BY <1>1 DEF Ascending
<1> DEFINE wrong == {k \in i..Len(s) : s[k] < s[i]}
<1>2. wrong = {}
  <2> SUFFICES ASSUME wrong # {} PROVE FALSE
    OBVIOUS
  <2>1. wrong \in SUBSET Nat
    BY <1>1
  <2>2. PICK k \in wrong : \A l \in wrong : k <= l
    BY <2>1, Least
  <2>3. k \in i + 1..Len(s) /\ k - 1 \in 1..Len(s) - 1 /\ k - 1 \notin wrong
    BY <1>1, <2>2
  <2>4. s[k - 1] <= s[k] /\ ~(s[k - 1] < s[i])
    BY <1>1, <2>3
  <2>5. s[i] \in Nat /\ s[k] \in Nat /\ s[k - 1] \in Nat /\ s[k] < s[i]
    BY <1>1, <2>2, <2>3
  <2> QED BY <2>4, <2>5
<1>3. ~(s[j] < s[i])
  <2>1. j \in i..Len(s) /\ j \notin wrong
    BY <1>1, <1>2
  <2> QED BY <2>1
<1>4. s[i] # s[j] /\ s[i] \in Nat /\ s[j] \in Nat
  <2>1. i # j
    BY <1>1
  <2> QED BY <1>1, <2>1
<1> QED BY <1>3, <1>4

(* One set has one ascending list.                                         *)
LEMMA AscendingUnique ==
  ASSUME NEW n \in Nat, NEW s \in [1..n -> Nat], NEW t \in [1..n -> Nat],
         Ascending(s), Ascending(t), ToSet(s) = ToSet(t)
  PROVE  s = t
<1> DEFINE differ == {i \in 1..n : s[i] # t[i]}
<1> SUFFICES ASSUME differ # {} PROVE FALSE
  OBVIOUS
<1>1. PICK k \in differ : \A i \in differ : k <= i
  <2>1. differ \in SUBSET Nat
    OBVIOUS
  <2> QED BY <2>1, Least
<1>2. \A i \in 1..n : i < k => s[i] = t[i]
  BY <1>1
<1>4. k \in 1..n /\ s[k] \in Nat /\ t[k] \in Nat /\ s[k] # t[k]
  BY <1>1
<1>3. PICK i \in 1..n, j \in 1..n : s[i] = t[k] /\ t[j] = s[k]
  <2>1. t[k] \in ToSet(t) /\ s[k] \in ToSet(s) /\ DOMAIN s = 1..n /\ DOMAIN t = 1..n
    BY <1>4 DEF ToSet
  <2>2. t[k] \in {s[i] : i \in 1..n} /\ s[k] \in {t[i] : i \in 1..n}
    BY <2>1 DEF ToSet
  <2> QED BY <2>2
<1>5. ~(i < k) /\ ~(j < k) /\ i # k /\ j # k
  BY <1>2, <1>3, <1>4 DEF Ascending
<1>6. s[k] < s[i] /\ t[k] < t[j]
  BY <1>3, <1>4, <1>5 DEF Ascending
<1> QED BY <1>3, <1>4, <1>6

(* Every finite set of names has a sorted list.                            *)
Listed(S) == \E s \in [1..Cardinality(S) -> S] : Ascending(s)

LEMMA AllListed ==
  ASSUME NEW S \in SUBSET Nat, IsFiniteSet(S)
  PROVE  Listed(S)
<1> DEFINE sizes == {n \in Nat : \E T \in SUBSET Nat : IsFiniteSet(T) /\ Cardinality(T) = n /\ ~Listed(T)}
<1>1. sizes = {}
  <2> SUFFICES ASSUME sizes # {} PROVE FALSE
    OBVIOUS
  <2>1. PICK n \in sizes : \A k \in sizes : n <= k
    BY Least
  <2>2. PICK T \in SUBSET Nat : IsFiniteSet(T) /\ Cardinality(T) = n /\ ~Listed(T)
    BY <2>1
  <2>3. T # {}
    <3>1. ASSUME T = {} PROVE FALSE
      <4>1. n = 0
        BY <2>2, <3>1, FS_EmptySet
      <4>2. [i \in 1..0 |-> 0] \in [1..0 -> T] /\ Ascending([i \in 1..0 |-> 0])
        BY DEF Ascending
      <4> QED BY <2>2, <4>1, <4>2 DEF Listed
    <3> QED BY <3>1
  <2>4. PICK x \in T : \A y \in T : x <= y
    BY <2>3, Least
  <2>5. /\ T \ {x} \in SUBSET Nat /\ IsFiniteSet(T \ {x})
        /\ Cardinality(T \ {x}) = n - 1 /\ n - 1 \in Nat
    <3>1. IsFiniteSet(T \ {x}) /\ Cardinality(T \ {x}) = n - 1
      BY <2>2, <2>4, FS_RemoveElement
    <3>2. Cardinality(T \ {x}) \in Nat
      BY <3>1, FS_CardinalityType
    <3> QED BY <3>1, <3>2
  <2>6. Listed(T \ {x})
    <3>1. n - 1 \notin sizes
      BY <2>1, <2>5
    <3> QED BY <2>5, <3>1
  <2>7. PICK s \in [1..n - 1 -> T \ {x}] : Ascending(s)
    BY <2>5, <2>6 DEF Listed
  <2> DEFINE t == [i \in 1..n |-> IF i = 1 THEN x ELSE s[i - 1]]
  <2>8. /\ n \in Nat /\ \A i \in 1..n : i # 1 => i - 1 \in 1..n - 1
        /\ \A i \in 1..n : i # 1 => s[i - 1] \in T /\ x < s[i - 1]
    <3>1. n \in Nat
      BY <2>1
    <3>2. \A i \in 1..n : i # 1 => i - 1 \in 1..n - 1
      BY <3>1
    <3>3. \A y \in T \ {x} : y \in Nat /\ x \in Nat /\ x < y
      BY <2>4
    <3>4. \A i \in 1..n - 1 : s[i] \in T \ {x}
      BY <2>7
    <3> HIDE DEF sizes
    <3> QED BY <3>1, <3>2, <3>3, <3>4
  <2>9. t \in [1..n -> T]
    BY <2>4, <2>8
  <2>10. Ascending(t)
    <3> SUFFICES ASSUME NEW i \in 1..n, NEW j \in 1..n, i < j PROVE t[i] < t[j]
      BY DEF Ascending
    <3>1. j # 1 /\ t[j] = s[j - 1]
      BY <2>8
    <3>2. CASE i = 1
      <4>1. t[i] = x
        BY <3>2
      <4> QED BY <2>8, <3>1, <4>1
    <3>3. CASE i # 1
      <4>1. /\ i - 1 \in 1..n - 1 /\ j - 1 \in 1..n - 1 /\ i - 1 < j - 1
        BY <2>8, <3>1, <3>3
      <4> QED BY <2>7, <3>1, <3>3, <4>1 DEF Ascending
    <3> QED BY <3>2, <3>3
  <2> HIDE DEF t
  <2> QED BY <2>2, <2>9, <2>10 DEF Listed
<1>2. Cardinality(S) \in Nat
  BY FS_CardinalityType
<1> QED BY <1>1, <1>2
-------------------------------------------------------------------------------
(* A list that verify_quorum accepts has as many names as entries.         *)
LEMMA NodeListSize ==
  ASSUME NEW s, NodeList(s)
  PROVE  /\ Cardinality(ToSet(s)) = Len(s)
         /\ ToSet(s) \in SUBSET Nat /\ IsFiniteSet(ToSet(s))
<1>1. s \in Seq(Nat) /\ IsInjective(s) /\ Len(s) \in Nat /\ DOMAIN s = 1..Len(s)
  BY DEF NodeList
<1>2. ToSet(s) = {s[i] : i \in 1..Len(s)}
  BY <1>1 DEF ToSet
<1>3. s \in Bijection(1..Len(s), ToSet(s))
  BY <1>1, <1>2 DEF Bijection, Injection, Surjection, IsInjective
<1>4. ToSet(s) \in SUBSET Nat
  BY <1>1, <1>2
<1>5. Cardinality(ToSet(s)) = Len(s)
  BY <1>1, <1>3, FS_CountingElements DEF ExistsBijection
<1>6. IsFiniteSet(1..Len(s))
  BY <1>1, FS_Interval
<1>7. IsFiniteSet(ToSet(s))
  BY <1>3, <1>6, FS_Surjection DEF Bijection
<1> QED
  BY <1>4, <1>5, <1>7

(* sorted() of a set of names is a list that verify_quorum accepts.        *)
LEMMA SortedAccepted ==
  ASSUME NEW S \in SUBSET Nat, IsFiniteSet(S), NotAList \notin Seq(Nat)
  PROVE  /\ NodeList(SortedNodes(S)) /\ ToSet(SortedNodes(S)) = S
         /\ Len(SortedNodes(S)) = Cardinality(S)
<1>1. PICK n, s : n = Cardinality(S) /\ s = SortedNodes(S)
  OBVIOUS
<1>2. n \in Nat /\ s \in [1..n -> S] /\ Ascending(s)
  BY <1>1, AllListed, FS_CardinalityType DEF Listed, Ascending, SortedNodes
<1>3. s \in Seq(Nat) /\ Len(s) = n /\ DOMAIN s = 1..n
  <2>1. s \in [1..n -> Nat]
    BY <1>2
  <2> QED BY <1>2, <2>1
<1>4. IsInjective(s)
  BY <1>2, <1>3 DEF Ascending, IsInjective
<1>5. \A i \in 1..n - 1 : s[i] <= s[i + 1]
  <2> SUFFICES ASSUME NEW i \in 1..n - 1 PROVE s[i] <= s[i + 1]
    OBVIOUS
  <2>1. i \in 1..n /\ i + 1 \in 1..n /\ i < i + 1
    BY <1>2
  <2> QED BY <1>2, <1>3, <2>1 DEF Ascending
<1>6. NodeList(s)
  BY <1>3, <1>4, <1>5 DEF NodeList
<1>7. ToSet(s) = S
  <2>1. ToSet(s) \in SUBSET S
    BY <1>2 DEF ToSet
  <2>2. Cardinality(ToSet(s)) = Cardinality(S)
    BY <1>1, <1>3, <1>6, NodeListSize
  <2> QED BY <2>1, <2>2, FS_Subset
<1> QED BY <1>1, <1>3, <1>6, <1>7

(* It is the only one that lists them.                                     *)
LEMMA AcceptedSorted ==
  ASSUME NEW s, NodeList(s), NotAList \notin Seq(Nat)
  PROVE  s = SortedNodes(ToSet(s))
<1>1. PICK S, t : S = ToSet(s) /\ t = SortedNodes(S)
  OBVIOUS
<1>2. S \in SUBSET Nat /\ IsFiniteSet(S) /\ Len(s) = Cardinality(S)
  BY <1>1, NodeListSize
<1>3. NodeList(t) /\ ToSet(t) = S /\ Len(t) = Cardinality(S)
  BY <1>1, <1>2, SortedAccepted
<1>4. /\ s \in [1..Len(s) -> Nat] /\ Ascending(s) /\ Len(s) \in Nat
      /\ t \in [1..Len(s) -> Nat] /\ Ascending(t)
  BY <1>2, <1>3, NodeListAscends
<1> QED BY <1>1, <1>3, <1>4, AscendingUnique

(* A quorum block that passes carries 2/3 + 1 of the trusted nodes under   *)
(* yes, none of which is under no.                                         *)
LEMMA QuorumVerified ==
  ASSUME NEW quorum, NEW trusted, VerifyQuorum(quorum, trusted)
  PROVE  /\ IsQuorum(trusted, trusted \cap ToSet(quorum.yes_votes))
         /\ ToSet(quorum.yes_votes) \cap ToSet(quorum.no_votes) = {}
<1>1. trusted \cap ToSet(quorum.yes_votes) = ToSet(quorum.yes_votes)
  BY DEF VerifyQuorum
<1>2. Cardinality(ToSet(quorum.yes_votes)) = quorum.yes_count
  BY NodeListSize DEF VerifyQuorum
<1>3. quorum.yes_count >= Threshold(trusted)
  BY DEF VerifyQuorum, Enough
<1> QED
  BY <1>1, <1>2, <1>3 DEF IsQuorum, VerifyQuorum, Disjoint
===============================================================================
