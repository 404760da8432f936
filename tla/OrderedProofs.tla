---------------------------- MODULE OrderedProofs ----------------------------
(***************************************************************************)
(* Lemmas about Ordered: the rank of a member of a finite set of numbers   *)
(* says where it comes in the sorted sequence, and the elements of a       *)
(* sequence that are selected by their places stay in order, each once.    *)
(***************************************************************************)
EXTENDS Ordered, Sequences, FiniteSetTheorems, TLAPS

LEMMA RankType ==
    ASSUME NEW S \in SUBSET Nat, IsFiniteSet(S), NEW x \in S
    PROVE  Rank(S, x) \in 1 .. Cardinality(S)
<1> PICK T : T = {y \in S : y <= x}
    OBVIOUS
<1>1. T \in SUBSET S /\ x \in T
    OBVIOUS
<1>2. IsFiniteSet(T) /\ Cardinality(T) <= Cardinality(S)
    BY <1>1, FS_Subset
<1>3. Cardinality(T) \in Nat /\ Cardinality(S) \in Nat /\ Cardinality(T) # 0
    BY <1>1, <1>2, FS_CardinalityType, FS_EmptySet
<1>4. QED BY <1>2, <1>3 DEF Rank

LEMMA RankGrows ==
    ASSUME NEW S \in SUBSET Nat, IsFiniteSet(S), NEW x \in S, NEW y \in S, x < y
    PROVE  Rank(S, x) < Rank(S, y)
<1> PICK T : T = {z \in S : z <= x}
    OBVIOUS
<1> PICK U : U = {z \in S : z <= y}
    OBVIOUS
<1>1. T \in SUBSET U /\ U \in SUBSET S /\ y \in U /\ y \notin T
    <2>1. \A z \in T : z \in S /\ z <= y
        OBVIOUS
    <2>2. T \subseteq U /\ U \subseteq S
        BY <2>1
    <2>3. y \in U /\ y \notin T
        OBVIOUS
    <2> QED BY <2>2, <2>3
<1>2. IsFiniteSet(U)
    BY <1>1, FS_Subset
<1>3. IsFiniteSet(T) /\ Cardinality(T) <= Cardinality(U) /\ Cardinality(T) # Cardinality(U)
    BY <1>1, <1>2, FS_Subset
<1>4. Cardinality(T) \in Nat /\ Cardinality(U) \in Nat
    BY <1>2, <1>3, FS_CardinalityType
<1>5. QED BY <1>3, <1>4 DEF Rank

\* Every place up to the number of elements is the rank of one of them.
LEMMA RankReached ==
    ASSUME NEW S \in SUBSET Nat, IsFiniteSet(S), NEW i \in 1 .. Cardinality(S)
    PROVE  \E x \in S : Rank(S, x) = i
<1> PICK n \in Nat : n = Cardinality(S)
    BY FS_CardinalityType
<1> PICK r : r = [x \in S |-> Rank(S, x)]
    OBVIOUS
<1>1. r \in [S -> 1 .. n]
    BY RankType
<1>2. \A x, y \in S : x # y => r[x] # r[y]
    <2> SUFFICES ASSUME NEW x \in S, NEW y \in S, x < y
                 PROVE  r[x] # r[y]
        OBVIOUS
    <2>1. Rank(S, x) < Rank(S, y)
        BY RankGrows
    <2>2. Rank(S, x) \in 1 .. n /\ Rank(S, y) \in 1 .. n
        BY RankType
    <2> QED BY <2>1, <2>2
<1>3. r \in Injection(S, 1 .. n)
    BY <1>1, <1>2 DEF Injection, IsInjective
<1>4. IsFiniteSet(1 .. n) /\ Cardinality(1 .. n) = n
    BY FS_Interval
<1>5. r \in Surjection(S, 1 .. n)
    BY <1>3, <1>4, FS_Injection
<1>6. QED BY <1>5 DEF Surjection

\* A set of numbers has a greatest one.
LEMMA Greatest ==
    ASSUME NEW S \in SUBSET Nat, IsFiniteSet(S), S # {}
    PROVE  \E x \in S : \A y \in S : y <= x
<1>1. Cardinality(S) \in Nat /\ Cardinality(S) # 0
    BY FS_CardinalityType, FS_EmptySet
<1>2. PICK x \in S : Rank(S, x) = Cardinality(S)
    BY <1>1, RankReached
<1>3. {y \in S : y <= x} = S
    BY <1>2, FS_Subset DEF Rank
<1>4. QED BY <1>3

\* The elements of a set in order: all of them, once, rising.
LEMMA SortedIsSorted ==
    ASSUME NEW S \in SUBSET Nat, IsFiniteSet(S)
    PROVE  /\ Sorted(S) \in [1 .. Cardinality(S) -> S]
           /\ \A i \in 1 .. Cardinality(S) : Rank(S, Sorted(S)[i]) = i
           /\ \A x \in S : Sorted(S)[Rank(S, x)] = x
           /\ \A i, j \in 1 .. Cardinality(S) : i < j => Sorted(S)[i] < Sorted(S)[j]
<1> PICK n \in Nat : n = Cardinality(S)
    BY FS_CardinalityType
<1>1. \A i \in 1 .. n : Sorted(S)[i] \in S /\ Rank(S, Sorted(S)[i]) = i
    BY RankReached DEF Sorted
<1>2. Sorted(S) \in [1 .. n -> S]
    BY <1>1 DEF Sorted
<1>3. \A x, y \in S : Rank(S, x) = Rank(S, y) => x = y
    <2> SUFFICES ASSUME NEW x \in S, NEW y \in S, x < y
                 PROVE  Rank(S, x) # Rank(S, y)
        OBVIOUS
    <2>1. Rank(S, x) < Rank(S, y)
        BY RankGrows
    <2>2. Rank(S, x) \in 1 .. n /\ Rank(S, y) \in 1 .. n
        BY RankType
    <2> QED BY <2>1, <2>2
<1>4. \A x \in S : Sorted(S)[Rank(S, x)] = x
    BY <1>1, <1>3, RankType
<1>5. ASSUME NEW i \in 1 .. n, NEW j \in 1 .. n, i < j
      PROVE  Sorted(S)[i] < Sorted(S)[j]
    <2> PICK x \in S, y \in S : x = Sorted(S)[i] /\ y = Sorted(S)[j]
        BY <1>1
    <2>1. Rank(S, x) = i /\ Rank(S, y) = j
        BY <1>1
    <2>2. x # y
        BY <1>5, <2>1
    <2>3. ~ (y < x)
        <3> SUFFICES ASSUME y < x PROVE FALSE
            OBVIOUS
        <3>1. Rank(S, y) < Rank(S, x)
            BY RankGrows
        <3> QED BY <1>5, <2>1, <3>1
    <2> QED BY <2>2, <2>3
<1>6. QED BY <1>1, <1>2, <1>4, <1>5

\* A selection of a sequence has the entries at the places chosen and no others.
LEMMA SelectedKeeps ==
    ASSUME NEW T, NEW s \in Seq(T), NEW I \in SUBSET (DOMAIN s)
    PROVE  /\ IsFiniteSet(I)
           /\ Selected(s, I) \in Seq(T) /\ Len(Selected(s, I)) = Cardinality(I)
           /\ \A i \in 1 .. Cardinality(I) : Sorted(I)[i] \in I /\ Selected(s, I)[i] = s[Sorted(I)[i]]
           /\ \A p \in I : /\ Rank(I, p) \in 1 .. Cardinality(I)
                           /\ Selected(s, I)[Rank(I, p)] = s[p]
<1>1. I \in SUBSET Nat /\ IsFiniteSet(I)
    <2>1. DOMAIN s = 1 .. Len(s) /\ Len(s) \in Nat
        OBVIOUS
    <2>2. IsFiniteSet(1 .. Len(s))
        BY <2>1, FS_Interval
    <2> QED BY <2>1, <2>2, FS_Subset
<1> PICK n \in Nat : n = Cardinality(I)
    BY <1>1, FS_CardinalityType
<1>2. Sorted(I) \in [1 .. n -> I] /\ \A p \in I : Sorted(I)[Rank(I, p)] = p
    BY <1>1, SortedIsSorted
<1>3. \A i \in 1 .. n : Selected(s, I)[i] = s[Sorted(I)[i]] /\ Sorted(I)[i] \in I
    BY <1>2 DEF Selected
<1>4. \A p \in I : s[p] \in T
    OBVIOUS
<1>5. Selected(s, I) \in [1 .. n -> T]
    BY <1>2, <1>3, <1>4 DEF Selected
<1>6. Selected(s, I) \in Seq(T) /\ Len(Selected(s, I)) = n
    BY <1>5
<1>7. \A p \in I : Rank(I, p) \in 1 .. n
    BY <1>1, RankType
<1>8. QED BY <1>1, <1>2, <1>3, <1>6, <1>7

LEMMA SelectedAre ==
    ASSUME NEW T, NEW s \in Seq(T), NEW I \in SUBSET (DOMAIN s)
    PROVE  /\ Selected(s, I) \in Seq(T)
           /\ \A i \in DOMAIN Selected(s, I) : \E p \in I : Selected(s, I)[i] = s[p]
           /\ \A p \in I : \E i \in DOMAIN Selected(s, I) : Selected(s, I)[i] = s[p]
<1> PICK t : t = Selected(s, I)
    OBVIOUS
<1> PICK n : n = Cardinality(I)
    OBVIOUS
<1>1. /\ t \in Seq(T) /\ Len(t) = n
      /\ \A i \in 1 .. n : Sorted(I)[i] \in I /\ t[i] = s[Sorted(I)[i]]
      /\ \A p \in I : Rank(I, p) \in 1 .. n /\ t[Rank(I, p)] = s[p]
    BY SelectedKeeps
<1>2. DOMAIN t = 1 .. n
    BY <1>1
<1>3. QED BY <1>1, <1>2

\* Two entries of a selection come from two places.
LEMMA SelectedOnce ==
    ASSUME NEW T, NEW s \in Seq(T), NEW I \in SUBSET (DOMAIN s)
    PROVE  \A i, j \in DOMAIN Selected(s, I) :
              \E p, q \in I : /\ Selected(s, I)[i] = s[p] /\ Selected(s, I)[j] = s[q]
                              /\ p = q => i = j
<1> PICK t : t = Selected(s, I)
    OBVIOUS
<1> PICK n : n = Cardinality(I)
    OBVIOUS
<1>1. /\ t \in Seq(T) /\ Len(t) = n /\ IsFiniteSet(I)
      /\ \A i \in 1 .. n : Sorted(I)[i] \in I /\ t[i] = s[Sorted(I)[i]]
    BY SelectedKeeps
<1>2. I \in SUBSET Nat
    <2>1. DOMAIN s \subseteq Nat
        OBVIOUS
    <2> QED BY <2>1
<1>3. DOMAIN t = 1 .. n
    BY <1>1
<1>4. \A i \in 1 .. n : Rank(I, Sorted(I)[i]) = i
    BY <1>1, <1>2, SortedIsSorted
<1>5. ASSUME NEW i \in 1 .. n, NEW j \in 1 .. n
      PROVE  \E p, q \in I : t[i] = s[p] /\ t[j] = s[q] /\ (p = q => i = j)
    <2>1. Sorted(I)[i] \in I /\ Sorted(I)[j] \in I /\ t[i] = s[Sorted(I)[i]]
          /\ t[j] = s[Sorted(I)[j]]
        BY <1>1
    <2>2. Sorted(I)[i] = Sorted(I)[j] => i = j
        BY <1>4
    <2> QED BY <2>1, <2>2
<1>6. QED BY <1>3, <1>5
=============================================================================
