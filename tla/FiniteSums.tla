----------------------------- MODULE FiniteSums -----------------------------
(***************************************************************************)
(* Lemmas for the proofs.  The sum of a function over a finite set: what   *)
(* the folds of the community modules compute when they add up integers,   *)
(* in whatever order they take the elements.  And the part of a list: what *)
(* Sifted keeps.  The least counterexample takes the place of an induction *)
(* rule.                                                                   *)
(***************************************************************************)
EXTENDS SequencesExt, FiniteSetTheorems, TLAPS, Sublists

\* A set of natural numbers has a least element.
LEMMA LeastNatural ==
    ASSUME NEW B \in SUBSET Nat, B # {}
    PROVE \E m \in B : \A k \in B : m <= k
<1> DEFINE T == {1..n : n \in B}
<1>1. T \subseteq FiniteSubsetsOf(Nat)
    <2> SUFFICES ASSUME NEW n \in B PROVE 1..n \in FiniteSubsetsOf(Nat) OBVIOUS
    <2>1. n \in Nat OBVIOUS
    <2>2. IsFiniteSet(1..n) BY <2>1, FS_Interval
    <2>3. 1..n \in SUBSET Nat BY <2>1
    <2> QED BY <2>2, <2>3 DEF FiniteSubsetsOf
<1>2. PICK t \in T : \A u \in T : <<u, t>> \notin StrictSubsetOrdering(Nat)
    <2>1. T # {} OBVIOUS
    <2> HIDE DEF T
    <2> QED BY <1>1, <2>1, WFMin, FS_StrictSubsetOrderingWellFounded
<1>3. PICK m \in B : t = 1..m OBVIOUS
<1>4. ASSUME NEW k \in B, k < m PROVE FALSE
    <2>1. k \in Nat /\ m \in Nat OBVIOUS
    <2>2. 1..k \in T /\ 1..k \subseteq 1..m /\ 1..k \in SUBSET Nat /\ 1..m \in SUBSET Nat
        BY <1>4, <2>1
    <2>3. m \in 1..m /\ m \notin 1..k BY <1>4, <2>1
    <2>4. <<1..k, 1..m>> \in StrictSubsetOrdering(Nat)
        BY <2>2, <2>3 DEF StrictSubsetOrdering
    <2> QED BY <1>2, <1>3, <2>2, <2>4
<1> QED BY <1>4

\* A family of subsets of a finite set has a smallest one.
LEMMA SmallestSet ==
    ASSUME NEW S, IsFiniteSet(S), NEW F, F \subseteq SUBSET S, F # {}
    PROVE \E t \in F : \A u \in F : u \subseteq t => u = t
<1>1. F \subseteq FiniteSubsetsOf(S) BY FS_Subset DEF FiniteSubsetsOf
<1>2. PICK t \in F : \A u \in F : <<u, t>> \notin StrictSubsetOrdering(S)
    BY <1>1, WFMin, FS_StrictSubsetOrderingWellFounded
<1>3. \A u \in F : u \subseteq t => u = t BY <1>2 DEF StrictSubsetOrdering
<1> QED BY <1>3

-----------------------------------------------------------------------------
(* The recursion of MapThenFoldSet, with addition *)

\* it adds up f over every set of a family, taking ch[s] out of s first.
SumsOver(it, f, ch, F) ==
    it = [s \in F |-> IF s = {} THEN 0 ELSE f[ch[s]] + it[s \ {ch[s]}]]
Sums(it, f, ch, S) == SumsOver(it, f, ch, SUBSET S)
Chooses(ch, S) == \A s \in SUBSET S : s # {} => ch[s] \in s
Upto(S, n) == {s \in SUBSET S : Cardinality(s) <= n}

\* There is such a function: the one for sets of m elements extends the one for
\* sets of m - 1.
LEMMA SumsUpto ==
    ASSUME NEW S, IsFiniteSet(S), NEW f, NEW ch, Chooses(ch, S)
    PROVE \A n \in Nat : \E it : SumsOver(it, f, ch, Upto(S, n))
<1> DEFINE B == {n \in Nat : ~ \E it : SumsOver(it, f, ch, Upto(S, n))}
<1> SUFFICES ASSUME B # {} PROVE FALSE OBVIOUS
<1>1. PICK m \in B : \A k \in B : m <= k BY LeastNatural
<1>2. \A s \in SUBSET S : IsFiniteSet(s) /\ Cardinality(s) \in Nat
    BY FS_Subset, FS_CardinalityType
<1>3. CASE m = 0
    <2> DEFINE it == [s \in Upto(S, 0) |-> 0]
    <2>1. \A s \in Upto(S, 0) : s = {} BY <1>2, FS_EmptySet DEF Upto
    <2>2. SumsOver(it, f, ch, Upto(S, 0)) BY <2>1 DEF SumsOver
    <2> QED BY <2>2, <1>1, <1>3
<1>4. CASE m > 0
    <2>1. m - 1 \in Nat /\ m - 1 \notin B BY <1>1, <1>4
    <2>2. PICK g : SumsOver(g, f, ch, Upto(S, m - 1)) BY <2>1
    <2> DEFINE it == [s \in Upto(S, m) |->
                         IF s = {} THEN 0 ELSE f[ch[s]] + g[s \ {ch[s]}]]
    <2>3. ASSUME NEW s \in Upto(S, m), s # {} PROVE s \ {ch[s]} \in Upto(S, m - 1)
        <3>1. s \in SUBSET S /\ Cardinality(s) <= m BY DEF Upto
        <3>2. ch[s] \in s BY <2>3, <3>1 DEF Chooses
        <3>3. Cardinality(s \ {ch[s]}) = Cardinality(s) - 1
            BY <1>2, <3>1, <3>2, FS_RemoveElement
        <3> QED BY <1>2, <3>1, <3>3 DEF Upto
    <2>4. \A s \in Upto(S, m - 1) : s \in Upto(S, m) BY <1>2 DEF Upto
    <2>5. \A s \in Upto(S, m - 1) : g[s] = it[s] BY <2>2, <2>4 DEF SumsOver
    <2>6. it = [s \in Upto(S, m) |-> IF s = {} THEN 0 ELSE f[ch[s]] + it[s \ {ch[s]}]]
        BY <2>3, <2>5
    <2>7. SumsOver(it, f, ch, Upto(S, m)) BY <2>6 DEF SumsOver
    <2> QED BY <2>7, <1>1
<1> QED BY <1>1, <1>3, <1>4

\* So the recursion has a solution on all subsets of a finite set.
LEMMA SumsExist ==
    ASSUME NEW S, IsFiniteSet(S), NEW f, NEW ch, Chooses(ch, S)
    PROVE \E it : Sums(it, f, ch, S)
<1>1. Cardinality(S) \in Nat BY FS_CardinalityType
<1>2. Upto(S, Cardinality(S)) = SUBSET S BY FS_Subset DEF Upto
<1>3. \E it : SumsOver(it, f, ch, Upto(S, Cardinality(S))) BY <1>1, SumsUpto
<1> QED BY <1>2, <1>3 DEF Sums

\* Sums of integers are integers.
LEMMA SumsType ==
    ASSUME NEW S, IsFiniteSet(S), NEW f, \A x \in S : f[x] \in Int,
           NEW ch, Chooses(ch, S), NEW it, Sums(it, f, ch, S)
    PROVE \A s \in SUBSET S : it[s] \in Int
<1> DEFINE B == {s \in SUBSET S : it[s] \notin Int}
<1> SUFFICES ASSUME B # {} PROVE FALSE OBVIOUS
<1>1. PICK s \in B : \A u \in B : u \subseteq s => u = s
    <2>1. B \subseteq SUBSET S OBVIOUS
    <2> HIDE DEF B
    <2> QED BY <2>1, SmallestSet
<1>2. CASE s = {} BY <1>1, <1>2 DEF Sums, SumsOver
<1>3. CASE s # {}
    <2> DEFINE x == ch[s]
    <2>1. x \in s BY <1>3 DEF Chooses
    <2>2. it[s \ {x}] \in Int BY <1>1, <2>1
    <2>3. it[s] = f[x] + it[s \ {x}] BY <1>3 DEF Sums, SumsOver
    <2> QED BY <2>1, <2>2, <2>3
<1> QED BY <1>2, <1>3

\* Any element may be taken out first.
LEMMA SumsRemove ==
    ASSUME NEW S, IsFiniteSet(S), NEW f, \A x \in S : f[x] \in Int,
           NEW ch, Chooses(ch, S), NEW it, Sums(it, f, ch, S),
           NEW t \in SUBSET S, NEW y \in t
    PROVE it[t] = f[y] + it[t \ {y}]
<1> DEFINE B == {s \in SUBSET S : \E z \in s : it[s] # f[z] + it[s \ {z}]}
<1> SUFFICES ASSUME B # {} PROVE FALSE OBVIOUS
<1>1. PICK s \in B : \A u \in B : u \subseteq s => u = s
    <2>1. B \subseteq SUBSET S OBVIOUS
    <2> HIDE DEF B
    <2> QED BY <2>1, SmallestSet
<1>2. PICK z \in s : it[s] # f[z] + it[s \ {z}] BY <1>1
<1> DEFINE x == ch[s]
           rest == s \ {x, z}
<1>3. x \in s BY <1>2 DEF Chooses
<1>4. it[s] = f[x] + it[s \ {x}] BY <1>3 DEF Sums, SumsOver
<1>5. x # z BY <1>2, <1>4
<1> HIDE DEF x
<1>6. it[s \ {x}] = f[z] + it[rest]
    <2>1. s \ {x} \in SUBSET S /\ s \ {x} # s /\ z \in s \ {x} BY <1>3, <1>5
    <2>2. (s \ {x}) \ {z} = rest OBVIOUS
    <2> QED BY <1>1, <2>1, <2>2
<1>7. it[s \ {z}] = f[x] + it[rest]
    <2>1. s \ {z} \in SUBSET S /\ s \ {z} # s /\ x \in s \ {z} BY <1>3, <1>5
    <2>2. (s \ {z}) \ {x} = rest OBVIOUS
    <2> QED BY <1>1, <2>1, <2>2
<1>8. f[x] \in Int /\ f[z] \in Int /\ it[rest] \in Int BY SumsType, <1>3
<1> HIDE DEF rest, B
<1>9. f[x] + (f[z] + it[rest]) = f[z] + (f[x] + it[rest]) BY <1>8
<1> QED BY <1>2, <1>4, <1>6, <1>7, <1>9

\* So the order does not matter, nor what f is elsewhere.
LEMMA SumsAgree ==
    ASSUME NEW S, IsFiniteSet(S), NEW f, \A x \in S : f[x] \in Int,
           NEW ch, Chooses(ch, S), NEW it, Sums(it, f, ch, S),
           NEW T, T \subseteq S, NEW g, \A x \in T : g[x] = f[x],
           NEW dh, Chooses(dh, T), NEW jt, Sums(jt, g, dh, T)
    PROVE jt[T] = it[T]
<1> DEFINE B == {s \in SUBSET T : it[s] # jt[s]}
<1> SUFFICES ASSUME B # {} PROVE FALSE OBVIOUS
<1>1. PICK s \in B : \A u \in B : u \subseteq s => u = s
    <2>1. B \subseteq SUBSET S OBVIOUS
    <2> HIDE DEF B
    <2> QED BY <2>1, SmallestSet
<1>2. CASE s = {} BY <1>1, <1>2 DEF Sums, SumsOver
<1>3. CASE s # {}
    <2> DEFINE x == dh[s]
    <2>1. x \in s BY <1>3 DEF Chooses
    <2>2. it[s \ {x}] = jt[s \ {x}] BY <1>1, <2>1
    <2>3. it[s] = f[x] + it[s \ {x}] BY SumsRemove, <2>1
    <2>4. jt[s] = g[x] + jt[s \ {x}] BY <1>3 DEF Sums, SumsOver
    <2>5. f[x] = g[x] BY <2>1
    <2> QED BY <1>1, <2>2, <2>3, <2>4, <2>5
<1> QED BY <1>2, <1>3

-----------------------------------------------------------------------------
(* The sum *)

Chooser(S) == [s \in SUBSET S |-> CHOOSE x \in s : TRUE]
Total(f, S) == (CHOOSE it : Sums(it, f, Chooser(S), S))[S]

\* CHOOSE takes an element of each set.
LEMMA ChooserChooses == \A S : Chooses(Chooser(S), S)
BY DEF Chooses, Chooser

\* Whatever solves the recursion, in whatever order, computes the sum.
LEMMA SumIsTotal ==
    ASSUME NEW S, IsFiniteSet(S), NEW f, \A x \in S : f[x] \in Int,
           NEW ch, Chooses(ch, S), NEW it, Sums(it, f, ch, S)
    PROVE \A s \in SUBSET S : it[s] = Total(f, s)
<1> SUFFICES ASSUME NEW s \in SUBSET S PROVE it[s] = Total(f, s) OBVIOUS
<1> DEFINE jt == CHOOSE jt : Sums(jt, f, Chooser(s), s)
<1>1. IsFiniteSet(s) BY FS_Subset
<1>2. Sums(jt, f, Chooser(s), s) BY <1>1, SumsExist, ChooserChooses
<1>3. jt[s] = Total(f, s) BY DEF Total
<1> HIDE DEF jt
<1>4. jt[s] = it[s] BY <1>2, SumsAgree, ChooserChooses
<1> QED BY <1>3, <1>4

\* The sum over no element is 0.
LEMMA TotalEmpty == \A f : Total(f, {}) = 0
<1> TAKE f
<1>1. PICK it : Sums(it, f, Chooser({}), {}) BY FS_EmptySet, SumsExist, ChooserChooses
<1>2. it[{}] = 0 BY <1>1 DEF Sums, SumsOver
<1>3. it[{}] = Total(f, {}) BY <1>1, SumIsTotal, FS_EmptySet, ChooserChooses
<1> QED BY <1>2, <1>3

\* A sum depends on the terms only.
LEMMA TotalSame ==
    ASSUME NEW S, IsFiniteSet(S), NEW f, NEW g, \A x \in S : f[x] \in Int /\ f[x] = g[x]
    PROVE Total(f, S) = Total(g, S)
<1>1. PICK it : Sums(it, f, Chooser(S), S) BY SumsExist, ChooserChooses
<1>2. PICK jt : Sums(jt, g, Chooser(S), S) BY SumsExist, ChooserChooses
<1>3. jt[S] = it[S] BY <1>1, <1>2, SumsAgree, ChooserChooses
<1>4. it[S] = Total(f, S) BY <1>1, SumIsTotal, ChooserChooses
<1>5. jt[S] = Total(g, S) BY <1>2, SumIsTotal, ChooserChooses
<1> QED BY <1>3, <1>4, <1>5

\* A sum of integers is an integer.
LEMMA TotalType ==
    ASSUME NEW S, IsFiniteSet(S), NEW f, \A x \in S : f[x] \in Int
    PROVE Total(f, S) \in Int
<1>1. PICK it : Sums(it, f, Chooser(S), S) BY SumsExist, ChooserChooses
<1>2. it[S] = Total(f, S) BY <1>1, SumIsTotal, ChooserChooses
<1>3. it[S] \in Int BY <1>1, SumsType, ChooserChooses
<1> QED BY <1>2, <1>3

\* One term can be taken out of a sum.
LEMMA TotalRemove ==
    ASSUME NEW S, IsFiniteSet(S), NEW f, \A x \in S : f[x] \in Int, NEW y \in S
    PROVE Total(f, S) = f[y] + Total(f, S \ {y})
<1> DEFINE ch == Chooser(S)
<1>1. Chooses(ch, S) BY ChooserChooses
<1> HIDE DEF ch
<1>2. PICK it : Sums(it, f, ch, S) BY <1>1, SumsExist
<1>3. \A s \in SUBSET S : it[s] = Total(f, s) BY <1>1, <1>2, SumIsTotal
<1>4. it[S] = f[y] + it[S \ {y}] BY <1>1, <1>2, SumsRemove
<1>5. S \in SUBSET S /\ S \ {y} \in SUBSET S OBVIOUS
<1> QED BY <1>3, <1>4, <1>5

\* One term can be added to a sum.
LEMMA TotalAdd ==
    ASSUME NEW S, IsFiniteSet(S), NEW f, NEW y, y \notin S,
           \A x \in S \cup {y} : f[x] \in Int
    PROVE Total(f, S \cup {y}) = f[y] + Total(f, S)
<1>1. IsFiniteSet(S \cup {y}) BY FS_AddElement
<1>2. (S \cup {y}) \ {y} = S OBVIOUS
<1> QED BY <1>1, <1>2, TotalRemove

\* A sum of zeros is 0.
LEMMA TotalZero ==
    ASSUME NEW S, IsFiniteSet(S), NEW f, \A x \in S : f[x] = 0
    PROVE Total(f, S) = 0
<1> DEFINE B == {s \in SUBSET S : Total(f, s) # 0}
<1> SUFFICES ASSUME B # {} PROVE FALSE OBVIOUS
<1>1. PICK s \in B : \A u \in B : u \subseteq s => u = s
    <2>1. B \subseteq SUBSET S OBVIOUS
    <2> HIDE DEF B
    <2> QED BY <2>1, SmallestSet
<1>2. PICK x \in s : TRUE BY <1>1, TotalEmpty
<1>3. IsFiniteSet(s) /\ \A y \in s : f[y] \in Int BY FS_Subset
<1>4. Total(f, s) = f[x] + Total(f, s \ {x}) BY <1>2, <1>3, TotalRemove
<1>5. Total(f, s \ {x}) = 0 BY <1>1, <1>2
<1> QED BY <1>2, <1>4, <1>5

\* A sum is bounded by one whose terms are no smaller.
LEMMA TotalAtMost ==
    ASSUME NEW S, IsFiniteSet(S), NEW f, NEW g,
           \A x \in S : f[x] \in Int /\ g[x] \in Int /\ f[x] <= g[x]
    PROVE Total(f, S) <= Total(g, S)
<1> DEFINE B == {s \in SUBSET S : ~(Total(f, s) <= Total(g, s))}
<1> SUFFICES ASSUME B # {} PROVE FALSE OBVIOUS
<1>1. PICK s \in B : \A u \in B : u \subseteq s => u = s
    <2>1. B \subseteq SUBSET S OBVIOUS
    <2> HIDE DEF B
    <2> QED BY <2>1, SmallestSet
<1>2. PICK x \in s : TRUE
    <2>1. Total(f, {}) <= Total(g, {})
        <3>1. Total(f, {}) = 0 /\ Total(g, {}) = 0 BY TotalEmpty
        <3> QED BY <3>1
    <2>2. ~(Total(f, s) <= Total(g, s)) BY <1>1
    <2>3. s # {} BY <2>1, <2>2
    <2> QED BY <2>3
<1>3. IsFiniteSet(s) /\ IsFiniteSet(s \ {x}) BY FS_Subset
<1>4. Total(f, s) = f[x] + Total(f, s \ {x}) BY <1>2, <1>3, TotalRemove
<1>5. Total(g, s) = g[x] + Total(g, s \ {x}) BY <1>2, <1>3, TotalRemove
<1>6. Total(f, s \ {x}) <= Total(g, s \ {x}) BY <1>1, <1>2
<1>7. Total(f, s \ {x}) \in Int /\ Total(g, s \ {x}) \in Int BY <1>3, TotalType
<1>8. f[x] \in Int /\ g[x] \in Int /\ f[x] <= g[x] BY <1>2
<1>9. Total(f, s) <= Total(g, s) BY <1>4, <1>5, <1>6, <1>7, <1>8
<1> QED BY <1>1, <1>9

\* A sum of natural numbers is one.
LEMMA TotalNat ==
    ASSUME NEW S, IsFiniteSet(S), NEW f, \A x \in S : f[x] \in Nat
    PROVE Total(f, S) \in Nat
<1> DEFINE none == [x \in S |-> 0]
<1>1. Total(none, S) = 0
    BY TotalZero
<1>2. Total(none, S) <= Total(f, S)
    <2>1. \A x \in S : none[x] \in Int /\ f[x] \in Int /\ none[x] <= f[x]
        OBVIOUS
    <2> HIDE DEF none
    <2> QED BY <2>1, TotalAtMost
<1>3. Total(f, S) \in Int
    BY TotalType
<1> QED BY <1>1, <1>2, <1>3

\* When one term changes, the sum changes by as much.
LEMMA TotalUpdate ==
    ASSUME NEW S, IsFiniteSet(S), NEW y \in S, NEW f, NEW g,
           \A x \in S : f[x] \in Int /\ g[x] \in Int,
           \A x \in S \ {y} : g[x] = f[x]
    PROVE Total(g, S) = Total(f, S) + (g[y] - f[y])
<1>1. Total(f, S) = f[y] + Total(f, S \ {y}) BY TotalRemove
<1>2. Total(g, S) = g[y] + Total(g, S \ {y}) BY TotalRemove
<1>3. IsFiniteSet(S \ {y}) BY FS_Subset
<1>4. Total(g, S \ {y}) = Total(f, S \ {y}) BY <1>3, TotalSame
<1>5. Total(f, S \ {y}) \in Int BY <1>3, TotalType
<1> QED BY <1>1, <1>2, <1>4, <1>5

-----------------------------------------------------------------------------
(* Folding from the left adds on the other side, from the first index on. *)
LeftSums(it, f, ch, S) ==
    it = [s \in SUBSET S |-> IF s = {} THEN 0 ELSE it[s \ {ch[s]}] + f[ch[s]]]

\* Sums from the left are integers too.
LEMMA LeftSumsType ==
    ASSUME NEW S, IsFiniteSet(S), NEW f, \A x \in S : f[x] \in Int,
           NEW ch, Chooses(ch, S), NEW it, LeftSums(it, f, ch, S)
    PROVE \A s \in SUBSET S : it[s] \in Int
<1> DEFINE B == {s \in SUBSET S : it[s] \notin Int}
<1> SUFFICES ASSUME B # {} PROVE FALSE OBVIOUS
<1>1. PICK s \in B : \A u \in B : u \subseteq s => u = s
    <2>1. B \subseteq SUBSET S OBVIOUS
    <2> HIDE DEF B
    <2> QED BY <2>1, SmallestSet
<1>2. CASE s = {} BY <1>1, <1>2 DEF LeftSums
<1>3. CASE s # {}
    <2> DEFINE x == ch[s]
    <2>1. x \in s BY <1>3 DEF Chooses
    <2>2. it[s \ {x}] \in Int BY <1>1, <2>1
    <2>3. it[s] = it[s \ {x}] + f[x] BY <1>3 DEF LeftSums
    <2> QED BY <2>1, <2>2, <2>3
<1> QED BY <1>2, <1>3

\* The two are the same functions.
LEMMA LeftSumsAreSums ==
    ASSUME NEW S, IsFiniteSet(S), NEW f, \A x \in S : f[x] \in Int,
           NEW ch, Chooses(ch, S), NEW it
    PROVE LeftSums(it, f, ch, S) <=> Sums(it, f, ch, S)
<1> DEFINE right == [s \in SUBSET S |-> IF s = {} THEN 0 ELSE f[ch[s]] + it[s \ {ch[s]}]]
           left == [s \in SUBSET S |-> IF s = {} THEN 0 ELSE it[s \ {ch[s]}] + f[ch[s]]]
<1>1. ASSUME \A s \in SUBSET S : it[s] \in Int PROVE left = right
    <2> SUFFICES ASSUME NEW s \in SUBSET S, s # {}
                 PROVE it[s \ {ch[s]}] + f[ch[s]] = f[ch[s]] + it[s \ {ch[s]}]
        OBVIOUS
    <2>1. ch[s] \in S /\ s \ {ch[s]} \in SUBSET S BY DEF Chooses
    <2>2. it[s \ {ch[s]}] \in Int /\ f[ch[s]] \in Int BY <1>1, <2>1
    <2> QED BY <2>2
<1>2. (LeftSums(it, f, ch, S) <=> it = left) /\ (Sums(it, f, ch, S) <=> it = right)
    BY DEF LeftSums, Sums, SumsOver
<1>3. LeftSums(it, f, ch, S) \/ Sums(it, f, ch, S) => \A s \in SUBSET S : it[s] \in Int
    BY LeftSumsType, SumsType
<1> HIDE DEF left, right
<1> QED BY <1>1, <1>2, <1>3

\* The indices of a sequence, the greatest taken out first.
Greatest(n) == [s \in SUBSET (1..n) |-> Max(s)]

\* The greatest index is one of the indices.
LEMMA GreatestChooses == ASSUME NEW n \in Nat PROVE Chooses(Greatest(n), 1..n)
<1> SUFFICES ASSUME NEW s \in SUBSET (1..n), s # {} PROVE Max(s) \in s
    BY DEF Chooses, Greatest
<1> DEFINE B == {k \in Nat : \A i \in s : i <= k}
<1>1. B \in SUBSET Nat /\ n \in B OBVIOUS
<1> HIDE DEF B
<1>2. PICK m \in B : \A k \in B : m <= k BY <1>1, LeastNatural
<1> USE DEF B
<1>3. m \in s
    <2> SUFFICES ASSUME m \notin s PROVE FALSE OBVIOUS
    <2>1. PICK i \in s : TRUE OBVIOUS
    <2>2. m - 1 \in Nat /\ \A j \in s : j <= m - 1 OBVIOUS
    <2> QED BY <2>2, <1>2
<1> QED BY <1>3 DEF Max

\* The function a fold from the left picks is the sum over the indices.
LEMMA FoldTotal ==
    ASSUME NEW n \in Nat, NEW f, \A m \in 1..n : f[m] \in Int,
           NEW it, LeftSums(it, f, Greatest(n), 1..n)
    PROVE it[1..n] = Total(f, 1..n) /\ it[1..n] \in Int
<1>1. IsFiniteSet(1..n) BY FS_Interval
<1>2. Chooses(Greatest(n), 1..n) BY GreatestChooses
<1>3. Sums(it, f, Greatest(n), 1..n) BY <1>1, <1>2, LeftSumsAreSums
<1>4. 1..n \in SUBSET (1..n) OBVIOUS
<1> QED BY <1>1, <1>2, <1>3, <1>4, SumIsTotal, TotalType

\* There is one.
LEMMA FoldExists ==
    ASSUME NEW n \in Nat, NEW f, \A m \in 1..n : f[m] \in Int
    PROVE \E it : LeftSums(it, f, Greatest(n), 1..n)
<1>1. IsFiniteSet(1..n) BY FS_Interval
<1>2. Chooses(Greatest(n), 1..n) BY GreatestChooses
<1> QED BY <1>1, <1>2, SumsExist, LeftSumsAreSums

-----------------------------------------------------------------------------
(* The part of a list *)

\* f[n] is what S keeps of the first n elements of s.
SiftParts(f, s, S) ==
    f = [n \in 0 .. Len(s) |->
           IF n = 0 THEN <<>>
           ELSE IF s[n] \in S THEN Append(f[n - 1], s[n]) ELSE f[n - 1]]

\* There is such a function.
LEMMA SiftPartsExist == ASSUME NEW T, NEW s \in Seq(T), NEW S PROVE \E f : SiftParts(f, s, S)
<1> DEFINE upTo(f, m) == f = [n \in 0 .. m |->
                IF n = 0 THEN <<>>
                ELSE IF s[n] \in S THEN Append(f[n - 1], s[n]) ELSE f[n - 1]]
           B == {m \in 0 .. Len(s) : ~ \E f : upTo(f, m)}
<1>1. CASE B = {}
    <2>1. Len(s) \in 0 .. Len(s) /\ Len(s) \notin B BY <1>1
    <2>2. \E f : upTo(f, Len(s)) BY <2>1
    <2> QED BY <2>2 DEF SiftParts
<1>2. CASE B # {}
    <2>1. B \in SUBSET Nat OBVIOUS
    <2>2. PICK m \in B : \A k \in B : m <= k
        <3> HIDE DEF B
        <3> QED BY <1>2, <2>1, LeastNatural
    <2>3. upTo([n \in 0 .. 0 |-> <<>>], 0) OBVIOUS
    <2>4. m # 0 BY <2>3
    <2>0. m \in 0 .. Len(s) /\ Len(s) \in Nat BY <2>2
    <2>5. m - 1 \in 0 .. Len(s) /\ m - 1 \notin B
        <3>1. m - 1 \in 0 .. Len(s) /\ ~(m <= m - 1) BY <2>0, <2>4
        <3> HIDE DEF B
        <3> QED BY <2>2, <3>1
    <2>6. PICK f : upTo(f, m - 1) BY <2>5
    <2> DEFINE g == [n \in 0 .. m |->
                       IF n < m THEN f[n]
                       ELSE IF s[m] \in S THEN Append(f[m - 1], s[m]) ELSE f[m - 1]]
    <2>7. \A n \in 0 .. m - 1 : f[n] = IF n = 0 THEN <<>>
                ELSE IF s[n] \in S THEN Append(f[n - 1], s[n]) ELSE f[n - 1]
        BY <2>6
    <2>8. \A n \in 0 .. m : g[n] = IF n = 0 THEN <<>>
                ELSE IF s[n] \in S THEN Append(g[n - 1], s[n]) ELSE g[n - 1]
        <3> SUFFICES ASSUME NEW n \in 0 .. m
                     PROVE g[n] = IF n = 0 THEN <<>>
                             ELSE IF s[n] \in S THEN Append(g[n - 1], s[n]) ELSE g[n - 1]
            OBVIOUS
        <3>1. CASE n = m BY <3>1, <2>4
        <3>2. CASE n < m BY <3>2, <2>7
        <3> QED BY <3>1, <3>2
    <2>9. upTo(g, m)
        <3> HIDE DEF g
        <3>1. g = [n \in 0 .. m |-> g[n]] BY DEF g
        <3> QED BY <2>8, <3>1
    <2> QED BY <2>9
<1> QED BY <1>1, <1>2

\* It is the one that Sifted takes.
LEMMA SiftedIsPart ==
    ASSUME NEW T, NEW s \in Seq(T), NEW S
    PROVE \E f : SiftParts(f, s, S) /\ Sifted(s, S) = f[Len(s)]
<1> DEFINE f0 == CHOOSE f : SiftParts(f, s, S)
<1>1. SiftParts(f0, s, S) BY SiftPartsExist
<1>2. Sifted(s, S) = f0[Len(s)] BY DEF Sifted, SiftParts
<1> QED BY <1>1, <1>2

\* Nothing is kept of nothing.
LEMMA SiftedEmpty == \A S : Sifted(<<>>, S) = <<>>
<1> SUFFICES ASSUME NEW S PROVE Sifted(<<>>, S) = <<>> OBVIOUS
<1>1. <<>> \in Seq({}) /\ Len(<<>>) = 0 OBVIOUS
<1>2. PICK f : SiftParts(f, <<>>, S) /\ Sifted(<<>>, S) = f[0] BY <1>1, SiftedIsPart
<1> QED BY <1>1, <1>2 DEF SiftParts

\* The last element is kept or not.
LEMMA SiftedAppend ==
    ASSUME NEW T, NEW s \in Seq(T), NEW x \in T, NEW S
    PROVE Sifted(Append(s, x), S) = IF x \in S THEN Append(Sifted(s, S), x) ELSE Sifted(s, S)
<1> DEFINE r == Append(s, x)
<1>1. r \in Seq(T) /\ Len(r) = Len(s) + 1 /\ r[Len(s) + 1] = x
      /\ \A n \in 1 .. Len(s) : r[n] = s[n]
    OBVIOUS
<1>2. PICK f : SiftParts(f, s, S) /\ Sifted(s, S) = f[Len(s)] BY SiftedIsPart
<1> HIDE DEF r
<1>3. PICK g : SiftParts(g, r, S) /\ Sifted(r, S) = g[Len(r)] BY <1>1, SiftedIsPart
<1> DEFINE B == {n \in 0 .. Len(s) : f[n] # g[n]}
<1>4. Len(s) \in Nat OBVIOUS
<1>5. \A n \in 0 .. Len(s) : f[n] = IF n = 0 THEN <<>>
           ELSE IF s[n] \in S THEN Append(f[n - 1], s[n]) ELSE f[n - 1]
    BY <1>2 DEF SiftParts
<1>6. \A n \in 0 .. Len(s) + 1 : g[n] = IF n = 0 THEN <<>>
           ELSE IF r[n] \in S THEN Append(g[n - 1], r[n]) ELSE g[n - 1]
    BY <1>1, <1>3 DEF SiftParts
<1>7. B = {}
    <2> SUFFICES ASSUME B # {} PROVE FALSE OBVIOUS
    <2>1. B \in SUBSET Nat BY <1>4
    <2>2. PICK m \in B : \A k \in B : m <= k
        <3> HIDE DEF B
        <3> QED BY <2>1, LeastNatural
    <2>3. m # 0 BY <1>4, <1>5, <1>6
    <2>4. m - 1 \in 0 .. Len(s) /\ m - 1 \notin B BY <1>4, <2>2, <2>3
    <2>5. f[m - 1] = g[m - 1] BY <2>4
    <2>6. r[m] = s[m] /\ m \in 1 .. Len(s) BY <1>1, <1>4, <2>3
    <2>7. f[m] = g[m] BY <1>4, <1>5, <1>6, <2>3, <2>5, <2>6
    <2> QED BY <2>7
<1>8. f[Len(s)] = g[Len(s)] BY <1>4, <1>7
<1>9. g[Len(s) + 1] = IF x \in S THEN Append(g[Len(s)], x) ELSE g[Len(s)]
    BY <1>1, <1>4, <1>6
<1> QED BY <1>1, <1>2, <1>3, <1>8, <1>9 DEF r

\* A list of lists without a shortest one is empty: what holds of the empty list and of a
\* list with one more element holds of every list.
LEMMA ShortestList ==
    ASSUME NEW T, NEW B \in SUBSET Seq(T), B # {}
    PROVE \/ <<>> \in B
          \/ \E s \in Seq(T) \ B, x \in T : Append(s, x) \in B
<1> DEFINE L == {Len(s) : s \in B}
<1>0. \A s \in B : s \in Seq(T) /\ Len(s) \in Nat OBVIOUS
<1>1. L \in SUBSET Nat /\ L # {} BY <1>0
<1>2. PICK m \in L : \A k \in L : m <= k
    <2> HIDE DEF L
    <2> QED BY <1>1, LeastNatural
<1>3. PICK t \in B : Len(t) = m OBVIOUS
<1>4. CASE m = 0
    <2>1. t = <<>> BY <1>3, <1>4
    <2> QED BY <2>1
<1>5. CASE m # 0
    <2> DEFINE s == SubSeq(t, 1, m - 1)
    <2>1. m \in Nat /\ t \in Seq(T) BY <1>1
    <2>2. s \in Seq(T) /\ Len(s) = m - 1 BY <1>3, <1>5, <2>1
    <2>3. t[m] \in T BY <1>3, <1>5, <2>1
    <2>4. Append(s, t[m]) = t BY <1>3, <1>5, <2>1, <2>2, <2>3
    <2>5. s \notin B
        <3> SUFFICES ASSUME s \in B PROVE FALSE OBVIOUS
        <3>1. Len(s) \in L OBVIOUS
        <3>2. ~(m <= m - 1) BY <2>1
        <3> HIDE DEF L, s
        <3> QED BY <1>2, <2>2, <3>1, <3>2
    <2> QED BY <2>2, <2>3, <2>4, <2>5
<1> QED BY <1>4, <1>5

\* The elements of a list with one more.
LEMMA AppendElements ==
    ASSUME NEW T, NEW s \in Seq(T), NEW x \in T
    PROVE /\ ToSet(Append(s, x)) = ToSet(s) \cup {x}
          /\ IsInjective(Append(s, x)) <=> IsInjective(s) /\ x \notin ToSet(s)
<1> DEFINE r == Append(s, x)
<1>1. DOMAIN s = 1 .. Len(s) /\ DOMAIN r = 1 .. Len(s) + 1 /\ Len(s) \in Nat
      /\ r[Len(s) + 1] = x /\ \A n \in 1 .. Len(s) : r[n] = s[n]
    OBVIOUS
<1>2. DOMAIN r = DOMAIN s \cup {Len(s) + 1} /\ Len(s) + 1 \notin DOMAIN s BY <1>1
<1>3. \A n \in DOMAIN s : r[n] = s[n] BY <1>1
<1> HIDE DEF r
<1>4. ToSet(r) = ToSet(s) \cup {x} BY <1>1, <1>2, <1>3 DEF ToSet
<1>5. IsInjective(r) <=> IsInjective(s) /\ x \notin ToSet(s)
    BY <1>1, <1>2, <1>3 DEF ToSet, IsInjective
<1> QED BY <1>4, <1>5 DEF r

\* The elements of two lists in one.
LEMMA JoinedElements ==
    ASSUME NEW T, NEW s \in Seq(T), NEW t \in Seq(T)
    PROVE /\ ToSet(s \o t) = ToSet(s) \cup ToSet(t)
          /\ IsInjective(s) /\ IsInjective(t) /\ ToSet(s) \cap ToSet(t) = {}
               => IsInjective(s \o t)
<1> DEFINE r == s \o t
           behind == {Len(s) + n : n \in DOMAIN t}
<1>1. DOMAIN s = 1 .. Len(s) /\ DOMAIN t = 1 .. Len(t)
      /\ DOMAIN r = 1 .. Len(s) + Len(t) /\ Len(s) \in Nat /\ Len(t) \in Nat
    OBVIOUS
<1>2. \A n \in DOMAIN s : r[n] = s[n] OBVIOUS
<1>3. \A n \in DOMAIN t : r[Len(s) + n] = t[n] OBVIOUS
<1>4. DOMAIN r = DOMAIN s \cup behind
    <2>1. \A n \in DOMAIN r : n \in DOMAIN s \/ (n - Len(s) \in DOMAIN t
                                                 /\ n = Len(s) + (n - Len(s)))
        BY <1>1
    <2>2. \A n \in DOMAIN s : n \in DOMAIN r BY <1>1
    <2>3. \A n \in DOMAIN t : Len(s) + n \in DOMAIN r BY <1>1
    <2> HIDE DEF r
    <2> QED BY <2>1, <2>2, <2>3
<1>5. \A m, n \in DOMAIN t : Len(s) + m = Len(s) + n => m = n BY <1>1
<1> HIDE DEF r
<1>6. ToSet(r) = ToSet(s) \cup ToSet(t) BY <1>2, <1>3, <1>4 DEF ToSet
<1>7. ASSUME IsInjective(s), IsInjective(t), ToSet(s) \cap ToSet(t) = {},
             NEW m \in DOMAIN r, NEW n \in DOMAIN r, r[m] = r[n]
      PROVE m = n
    <2>1. CASE m \in DOMAIN s /\ n \in DOMAIN s BY <1>2, <1>7, <2>1 DEF IsInjective
    <2>2. CASE m \in behind /\ n \in behind
        <3>1. PICK k \in DOMAIN t : m = Len(s) + k BY <2>2
        <3>2. PICK l \in DOMAIN t : n = Len(s) + l BY <2>2
        <3>3. t[k] = t[l] BY <1>3, <1>7, <3>1, <3>2
        <3> QED BY <1>7, <3>1, <3>2, <3>3 DEF IsInjective
    <2>3. CASE m \in DOMAIN s /\ n \in behind
        <3>1. PICK l \in DOMAIN t : n = Len(s) + l BY <2>3
        <3>2. s[m] = t[l] BY <1>2, <1>3, <1>7, <2>3, <3>1
        <3> QED BY <1>7, <2>3, <3>2 DEF ToSet
    <2>4. CASE m \in behind /\ n \in DOMAIN s
        <3>1. PICK k \in DOMAIN t : m = Len(s) + k BY <2>4
        <3>2. t[k] = s[n] BY <1>2, <1>3, <1>7, <2>4, <3>1
        <3> QED BY <1>7, <2>4, <3>2 DEF ToSet
    <2> QED BY <1>4, <2>1, <2>2, <2>3, <2>4
<1>8. IsInjective(s) /\ IsInjective(t) /\ ToSet(s) \cap ToSet(t) = {} => IsInjective(r)
    BY <1>7 DEF IsInjective
<1> QED BY <1>6, <1>8 DEF r

\* What is kept is what is in both, once each if it was there once.
LEMMA SiftedElements ==
    ASSUME NEW T, NEW S, NEW s \in Seq(T)
    PROVE /\ Sifted(s, S) \in Seq(T) /\ ToSet(Sifted(s, S)) = ToSet(s) \cap S
          /\ IsInjective(s) => IsInjective(Sifted(s, S))
<1> DEFINE good(r) == /\ Sifted(r, S) \in Seq(T) /\ ToSet(Sifted(r, S)) = ToSet(r) \cap S
                      /\ IsInjective(r) => IsInjective(Sifted(r, S))
           B == {r \in Seq(T) : ~good(r)}
<1>1. good(<<>>)
    <2>1. Sifted(<<>>, S) = <<>> BY SiftedEmpty
    <2>2. <<>> \in Seq(T) /\ DOMAIN <<>> = {} OBVIOUS
    <2>3. ToSet(<<>>) = {} BY <2>2 DEF ToSet
    <2> QED BY <2>1, <2>2, <2>3
<1>2. ASSUME NEW r \in Seq(T), NEW x \in T, good(r) PROVE good(Append(r, x))
    <2>1. CASE x \in S
        <3>1. Sifted(Append(r, x), S) = Append(Sifted(r, S), x) BY <2>1, SiftedAppend
        <3>2. ToSet(Append(Sifted(r, S), x)) = ToSet(Sifted(r, S)) \cup {x}
            BY <1>2, AppendElements
        <3>3. IsInjective(Append(Sifted(r, S), x)) <=>
                  IsInjective(Sifted(r, S)) /\ x \notin ToSet(Sifted(r, S))
            BY <1>2, AppendElements
        <3>4. ToSet(Append(r, x)) = ToSet(r) \cup {x}
              /\ (IsInjective(Append(r, x)) <=> IsInjective(r) /\ x \notin ToSet(r))
            BY AppendElements
        <3>5. Append(Sifted(r, S), x) \in Seq(T) BY <1>2
        <3> QED BY <1>2, <2>1, <3>1, <3>2, <3>3, <3>4, <3>5
    <2>2. CASE x \notin S
        <3>1. Sifted(Append(r, x), S) = Sifted(r, S) BY <2>2, SiftedAppend
        <3>2. ToSet(Append(r, x)) = ToSet(r) \cup {x}
              /\ (IsInjective(Append(r, x)) <=> IsInjective(r) /\ x \notin ToSet(r))
            BY AppendElements
        <3> QED BY <1>2, <2>2, <3>1, <3>2
    <2> QED BY <2>1, <2>2
<1> HIDE DEF good
<1>3. B = {}
    <2> SUFFICES ASSUME B # {} PROVE FALSE OBVIOUS
    <2>1. \/ <<>> \in B
          \/ \E r \in Seq(T) \ B, x \in T : Append(r, x) \in B
        <3>1. B \in SUBSET Seq(T) OBVIOUS
        <3> HIDE DEF B
        <3> QED BY <3>1, ShortestList
    <2> QED BY <1>1, <1>2, <2>1
<1>4. good(s) BY <1>3
<1> QED BY <1>4 DEF good

\* A list of which everything passes is kept as it is.
LEMMA SiftedAll ==
    ASSUME NEW T, NEW S, NEW s \in Seq(T), ToSet(s) \subseteq S
    PROVE Sifted(s, S) = s
<1> DEFINE good(r) == ToSet(r) \subseteq S => Sifted(r, S) = r
           B == {r \in Seq(T) : ~good(r)}
<1>1. good(<<>>) BY SiftedEmpty
<1>2. ASSUME NEW r \in Seq(T), NEW x \in T, good(r) PROVE good(Append(r, x))
    <2>1. ToSet(Append(r, x)) = ToSet(r) \cup {x} BY AppendElements
    <2>2. Sifted(Append(r, x), S) = IF x \in S THEN Append(Sifted(r, S), x) ELSE Sifted(r, S)
        BY SiftedAppend
    <2> QED BY <1>2, <2>1, <2>2
<1> HIDE DEF good
<1>3. B = {}
    <2> SUFFICES ASSUME B # {} PROVE FALSE OBVIOUS
    <2>1. \/ <<>> \in B
          \/ \E r \in Seq(T) \ B, x \in T : Append(r, x) \in B
        <3>1. B \in SUBSET Seq(T) OBVIOUS
        <3> HIDE DEF B
        <3> QED BY <3>1, ShortestList
    <2> QED BY <1>1, <1>2, <2>1
<1>4. good(s) BY <1>3
<1> QED BY <1>4 DEF good

\* Of two lists in one, the parts of both are kept.
LEMMA SiftedJoined ==
    ASSUME NEW T, NEW S, NEW s \in Seq(T), NEW t \in Seq(T)
    PROVE Sifted(s \o t, S) = Sifted(s, S) \o Sifted(t, S)
<1> DEFINE good(r) == Sifted(s \o r, S) = Sifted(s, S) \o Sifted(r, S)
           B == {r \in Seq(T) : ~good(r)}
<1>0. Sifted(s, S) \in Seq(T) BY SiftedElements
<1>1. good(<<>>)
    <2>1. s \o <<>> = s OBVIOUS
    <2>2. Sifted(s, S) \o <<>> = Sifted(s, S) BY <1>0
    <2> QED BY <2>1, <2>2, SiftedEmpty
<1>2. ASSUME NEW r \in Seq(T), NEW x \in T, good(r) PROVE good(Append(r, x))
    <2>1. s \o Append(r, x) = Append(s \o r, x) OBVIOUS
    <2>2. s \o r \in Seq(T) OBVIOUS
    <2>3. Sifted(Append(s \o r, x), S)
             = IF x \in S THEN Append(Sifted(s \o r, S), x) ELSE Sifted(s \o r, S)
        BY <2>2, SiftedAppend
    <2>4. Sifted(Append(r, x), S) = IF x \in S THEN Append(Sifted(r, S), x) ELSE Sifted(r, S)
        BY SiftedAppend
    <2>5. Sifted(r, S) \in Seq(T) BY SiftedElements
    <2>6. \A a, b \in Seq(T) : a \o Append(b, x) = Append(a \o b, x) OBVIOUS
    <2>7. Sifted(s, S) \o Append(Sifted(r, S), x) = Append(Sifted(s, S) \o Sifted(r, S), x)
        BY <1>0, <2>5, <2>6
    <2> QED BY <1>2, <2>1, <2>3, <2>4, <2>7
<1> HIDE DEF good
<1>3. B = {}
    <2> SUFFICES ASSUME B # {} PROVE FALSE OBVIOUS
    <2>1. \/ <<>> \in B
          \/ \E r \in Seq(T) \ B, x \in T : Append(r, x) \in B
        <3>1. B \in SUBSET Seq(T) OBVIOUS
        <3> HIDE DEF B
        <3> QED BY <3>1, ShortestList
    <2> QED BY <1>1, <1>2, <2>1
<1>4. good(t) BY <1>3
<1> QED BY <1>4 DEF good

\* A list of different elements has as many as it is long.
LEMMA ListCardinality ==
    ASSUME NEW T, NEW s \in Seq(T), IsInjective(s)
    PROVE IsFiniteSet(ToSet(s)) /\ Cardinality(ToSet(s)) = Len(s)
<1> DEFINE good(r) == IsInjective(r) =>
                        IsFiniteSet(ToSet(r)) /\ Cardinality(ToSet(r)) = Len(r)
           B == {r \in Seq(T) : ~good(r)}
<1>1. good(<<>>)
    <2>1. Len(<<>>) = 0 /\ DOMAIN <<>> = {} OBVIOUS
    <2>2. ToSet(<<>>) = {} BY <2>1 DEF ToSet
    <2> QED BY <2>1, <2>2, FS_EmptySet
<1>2. ASSUME NEW r \in Seq(T), NEW x \in T, good(r) PROVE good(Append(r, x))
    <2>1. /\ ToSet(Append(r, x)) = ToSet(r) \cup {x}
          /\ IsInjective(Append(r, x)) <=> IsInjective(r) /\ x \notin ToSet(r)
        BY AppendElements
    <2>2. Len(Append(r, x)) = Len(r) + 1 OBVIOUS
    <2> QED BY <1>2, <2>1, <2>2, FS_AddElement
<1> HIDE DEF good
<1>3. B = {}
    <2> SUFFICES ASSUME B # {} PROVE FALSE OBVIOUS
    <2>1. \/ <<>> \in B
          \/ \E r \in Seq(T) \ B, x \in T : Append(r, x) \in B
        <3>1. B \in SUBSET Seq(T) OBVIOUS
        <3> HIDE DEF B
        <3> QED BY <3>1, ShortestList
    <2> QED BY <1>1, <1>2, <2>1
<1>4. good(s) BY <1>3
<1> QED BY <1>4 DEF good

\* The beginning of a list of different elements.
LEMMA BeginningOfList ==
    ASSUME NEW T, NEW s \in Seq(T), NEW m \in 0 .. Len(s), IsInjective(s)
    PROVE /\ SubSeq(s, 1, m) \in Seq(T) /\ Len(SubSeq(s, 1, m)) = m
          /\ IsInjective(SubSeq(s, 1, m)) /\ ToSet(SubSeq(s, 1, m)) \subseteq ToSet(s)
          /\ m > 0 => s[1] \in ToSet(SubSeq(s, 1, m))
          /\ m = Len(s) => SubSeq(s, 1, m) = s
<1> DEFINE b == SubSeq(s, 1, m)
<1>1. b \in Seq(T) /\ Len(b) = m /\ DOMAIN b = 1 .. m /\ DOMAIN s = 1 .. Len(s)
      /\ \A i \in 1 .. m : b[i] = s[i]
    OBVIOUS
<1>2. m = Len(s) => b = s OBVIOUS
<1>3. DOMAIN b \subseteq DOMAIN s BY <1>1
<1>4. m > 0 => 1 \in DOMAIN b BY <1>1
<1> HIDE DEF b
<1>5. IsInjective(b) /\ ToSet(b) \subseteq ToSet(s) BY <1>1, <1>3 DEF IsInjective, ToSet
<1>6. m > 0 => s[1] \in ToSet(b) BY <1>1, <1>4 DEF ToSet
<1> QED BY <1>1, <1>2, <1>5, <1>6 DEF b
=============================================================================
