----------------------------- MODULE DataLemmas ----------------------------
(***************************************************************************)
(* What the models' data do.  SumFunctionOnSet of the community module     *)
(* Functions adds up the amounts of some rows of a table (a ledger,        *)
(* payouts, dispatch rows).  Its definition picks the rows in an order of  *)
(* its own; these lemmas say that the order does not matter, how a sum     *)
(* changes with a row more, less or changed, how two sums compare, and     *)
(* that the sums of groups add up to the whole.                            *)
(* Then: a finite set that is ordered has a first, a second and so on, and *)
(* what remains of a division.                                             *)
(*                                                                         *)
(* Every induction here is on the size of a finite set: a counterexample   *)
(* with fewest elements is ruled out.                                      *)
(***************************************************************************)
EXTENDS Integers, FiniteSets, Functions, FiniteSetTheorems, WellFoundedInduction, TLAPS

\* The element the fold takes next.
FirstPick(s) == CHOOSE x \in s : TRUE

\* g tells the sum of f over every subset of S, in the fold's order.
SumsOf(g, f, S) ==
    g = [s \in SUBSET S |-> IF s = {} THEN 0 ELSE f[FirstPick(s)] + g[s \ {FirstPick(s)}]]

\* What is picked from a set that is not empty is in it.
LEMMA FirstPickIn == \A s : s # {} => FirstPick(s) \in s
  BY DEF FirstPick

\* A set of finite sets that is not empty has one with the fewest elements.
LEMMA FewestElements ==
    ASSUME NEW T, T # {}, \A s \in T : IsFiniteSet(s)
    PROVE  \E s \in T : \A r \in T : Cardinality(s) <= Cardinality(r)
  <1> DEFINE sizes == {Cardinality(s) : s \in T}
  <1>1. sizes \subseteq Nat /\ sizes # {}
    BY FS_CardinalityType
  <1>2. PICK n \in sizes : \A m \in sizes : ~(<<m, n>> \in OpToRel(<, Nat))
    BY <1>1, NatLessThanWellFounded, WFMin, Zenon
  <1>3. \A m \in sizes : n <= m
    <2> SUFFICES ASSUME NEW m \in sizes, ~(n <= m) PROVE FALSE
      OBVIOUS
    <2>1. m \in Nat /\ n \in Nat /\ m < n
      BY <1>1
    <2>2. <<m, n>> \in {ss \in Nat \X Nat : ss[1] < ss[2]}
      BY <2>1
    <2> QED
      BY <1>2, <2>2, Zenon DEF OpToRel
  <1> QED
    BY <1>3

\* Two tables of sums agree on every finite set they both cover.
LEMMA SumsAgree ==
    ASSUME NEW f, NEW S, NEW T, NEW g, NEW h, SumsOf(g, f, S), SumsOf(h, f, T)
    PROVE  \A s \in (SUBSET S) \cap (SUBSET T) : IsFiniteSet(s) => g[s] = h[s]
  <1> DEFINE bad == {s \in (SUBSET S) \cap (SUBSET T) : IsFiniteSet(s) /\ g[s] # h[s]}
  <1>1. SUFFICES ASSUME bad # {} PROVE FALSE
    OBVIOUS
  <1>2. PICK s \in bad : \A r \in bad : Cardinality(s) <= Cardinality(r)
    BY <1>1, FewestElements, Zenon
  <1>3. g[s] = IF s = {} THEN 0 ELSE f[FirstPick(s)] + g[s \ {FirstPick(s)}]
    BY DEF SumsOf
  <1>4. h[s] = IF s = {} THEN 0 ELSE f[FirstPick(s)] + h[s \ {FirstPick(s)}]
    BY DEF SumsOf
  <1>5. CASE s = {}
    BY <1>3, <1>4, <1>5
  <1>6. CASE s # {}
    <2> DEFINE r == s \ {FirstPick(s)}
    <2>1. FirstPick(s) \in s
      BY <1>6, FirstPickIn
    <2>2. IsFiniteSet(r) /\ Cardinality(r) = Cardinality(s) - 1 /\ Cardinality(s) \in Nat
      BY <2>1, FS_RemoveElement, FS_CardinalityType
    <2>3. r \notin bad
      BY <1>2, <2>2
    <2>4. g[r] = h[r]
      BY <2>2, <2>3
    <2> QED
      BY <1>3, <1>4, <1>6, <2>4
  <1> QED
    BY <1>5, <1>6

\* Over a finite set there is such a table: the fold's definition is good.
LEMMA SumsExist ==
    ASSUME NEW f, NEW S, IsFiniteSet(S)
    PROVE  \E g : SumsOf(g, f, S)
  <1> DEFINE bad == {T \in SUBSET S : ~\E g : SumsOf(g, f, T)}
  <1>1. SUFFICES ASSUME bad # {} PROVE FALSE
    OBVIOUS
  <1>2. \A T \in SUBSET S : IsFiniteSet(T)
    BY FS_Subset
  <1>3. PICK T \in bad : \A R \in bad : Cardinality(T) <= Cardinality(R)
    <2>1. \A R \in bad : IsFiniteSet(R)
      BY <1>2
    <2> QED
      BY <1>1, <2>1, FewestElements, Zenon
  <1>4. \A R \in (SUBSET T) \ {T} : \E g : SumsOf(g, f, R)
    <2> SUFFICES ASSUME NEW R \in (SUBSET T) \ {T} PROVE R \notin bad
      BY <1>2
    <2>1. Cardinality(R) < Cardinality(T)
      BY <1>2, FS_Subset, FS_CardinalityType
    <2>2. Cardinality(R) \in Nat /\ Cardinality(T) \in Nat
      BY <1>2, FS_CardinalityType
    <2> QED
      BY <1>3, <2>1, <2>2
  <1> DEFINE table(R) == CHOOSE g : SumsOf(g, f, R)
             below(s) == table(s \ {FirstPick(s)})
             h == [s \in SUBSET T |->
                      IF s = {} THEN 0 ELSE f[FirstPick(s)] + below(s)[s \ {FirstPick(s)}]]
  <1>5. \A R \in (SUBSET T) \ {T} : SumsOf(table(R), f, R)
    BY <1>4
  <1>6. \A s \in SUBSET T : s # {} => s \ {FirstPick(s)} \in (SUBSET T) \ {T}
    BY FirstPickIn
  <1> HIDE DEF table
  <1>7. ASSUME NEW s \in SUBSET T, s # {}
        PROVE  h[s \ {FirstPick(s)}] = below(s)[s \ {FirstPick(s)}]
    <2> DEFINE r == s \ {FirstPick(s)}
    <2>1. SumsOf(below(s), f, r)
      BY <1>5, <1>6, <1>7
    <2>2. below(s)[r] = IF r = {} THEN 0 ELSE f[FirstPick(r)] + below(s)[r \ {FirstPick(r)}]
      BY <2>1 DEF SumsOf
    <2>3. h[r] = IF r = {} THEN 0 ELSE f[FirstPick(r)] + below(r)[r \ {FirstPick(r)}]
      OBVIOUS
    <2>4. CASE r = {}
      BY <2>2, <2>3, <2>4
    <2>5. CASE r # {}
      <3>1. SumsOf(below(r), f, r \ {FirstPick(r)})
        BY <1>5, <1>6, <2>5
      <3>2. IsFiniteSet(r \ {FirstPick(r)})
        BY <1>2
      <3>3. below(s)[r \ {FirstPick(r)}] = below(r)[r \ {FirstPick(r)}]
        <4>1. r \ {FirstPick(r)} \in (SUBSET r) \cap (SUBSET (r \ {FirstPick(r)}))
          OBVIOUS
        <4> HIDE DEF below, r
        <4> QED
          BY <2>1, <3>1, <3>2, <4>1, SumsAgree
      <3> QED
        BY <2>2, <2>3, <2>5, <3>3
    <2> QED
      BY <2>4, <2>5
  <1>8. SumsOf(h, f, T)
    BY <1>7 DEF SumsOf
  <1> QED
    BY <1>3, <1>8

\* The sum over S is what any such table says of S.
LEMMA SumIsTabled ==
    ASSUME NEW f, NEW S, IsFiniteSet(S), NEW T, NEW g, SumsOf(g, f, T), S \subseteq T
    PROVE  SumFunctionOnSet(f, S) = g[S]
  <1> DEFINE fold == CHOOSE h : SumsOf(h, f, S)
  <1>1. SumFunctionOnSet(f, S) = fold[S]
    BY DEF SumFunctionOnSet, FoldFunctionOnSet, MapThenFoldSet, SumsOf, FirstPick
  <1>2. SumsOf(fold, f, S)
    BY SumsExist
  <1>3. S \in (SUBSET S) \cap (SUBSET T)
    OBVIOUS
  <1> HIDE DEF fold
  <1>4. fold[S] = g[S]
    BY <1>2, <1>3, SumsAgree
  <1> QED
    BY <1>1, <1>4

\* The empty sum.
LEMMA SumOfNone == ASSUME NEW f PROVE SumFunctionOnSet(f, {}) = 0
  <1>1. IsFiniteSet({})
    BY FS_EmptySet
  <1>2. PICK g : SumsOf(g, f, {})
    BY <1>1, SumsExist
  <1>3. SumFunctionOnSet(f, {}) = g[{}]
    BY <1>1, <1>2, SumIsTabled
  <1>4. g[{}] = 0
    BY <1>2 DEF SumsOf
  <1> QED
    BY <1>3, <1>4

\* One step of the fold.
LEMMA SumPicks ==
    ASSUME NEW f, NEW S, IsFiniteSet(S), S # {}
    PROVE  SumFunctionOnSet(f, S) = f[FirstPick(S)] + SumFunctionOnSet(f, S \ {FirstPick(S)})
  <1>1. PICK g : SumsOf(g, f, S)
    BY SumsExist
  <1>2. IsFiniteSet(S \ {FirstPick(S)}) /\ S \ {FirstPick(S)} \subseteq S
    BY FS_RemoveElement
  <1>3. SumFunctionOnSet(f, S) = g[S]
    BY <1>1, SumIsTabled
  <1>4. SumFunctionOnSet(f, S \ {FirstPick(S)}) = g[S \ {FirstPick(S)}]
    BY <1>1, <1>2, SumIsTabled
  <1>5. g[S] = f[FirstPick(S)] + g[S \ {FirstPick(S)}]
    BY <1>1 DEF SumsOf
  <1> QED
    BY <1>3, <1>4, <1>5

-----------------------------------------------------------------------------
(* The laws of sums.                                                       *)

\* Induction on finite sets, said with the set B of the sets it holds of.
LEMMA SubsetInduction ==
    ASSUME NEW S, IsFiniteSet(S), NEW B, {} \in B,
           \A T \in SUBSET S : \A x \in S \ T : T \in B => T \cup {x} \in B
    PROVE  S \in B
  <1> DEFINE bad == {T \in SUBSET S : T \notin B}
  <1>1. SUFFICES ASSUME bad # {} PROVE FALSE
    OBVIOUS
  <1>2. \A T \in bad : IsFiniteSet(T)
    BY FS_Subset
  <1>3. PICK T \in bad : \A R \in bad : Cardinality(T) <= Cardinality(R)
    BY <1>1, <1>2, FewestElements, Zenon
  <1>4. PICK x \in T : TRUE
    OBVIOUS
  <1>5. /\ IsFiniteSet(T \ {x}) /\ Cardinality(T \ {x}) = Cardinality(T) - 1
        /\ Cardinality(T) \in Nat
    BY <1>2, FS_RemoveElement, FS_CardinalityType
  <1>6. T \ {x} \notin bad
    BY <1>3, <1>5
  <1>7. (T \ {x}) \cup {x} = T
    OBVIOUS
  <1> QED
    BY <1>6, <1>7, ZenonT(60)

\* A sum of integers is an integer.
LEMMA SumType ==
    ASSUME NEW f, NEW S, IsFiniteSet(S), \A x \in S : f[x] \in Int
    PROVE  SumFunctionOnSet(f, S) \in Int
  <1> DEFINE bad == {T \in SUBSET S : SumFunctionOnSet(f, T) \notin Int}
  <1>1. SUFFICES ASSUME bad # {} PROVE FALSE
    OBVIOUS
  <1>2. \A T \in bad : IsFiniteSet(T)
    BY FS_Subset
  <1>3. PICK T \in bad : \A R \in bad : Cardinality(T) <= Cardinality(R)
    BY <1>1, <1>2, FewestElements, Zenon
  <1>4. T # {}
    BY SumOfNone
  <1>5. FirstPick(T) \in T
    BY <1>4, FirstPickIn
  <1>6. /\ Cardinality(T \ {FirstPick(T)}) = Cardinality(T) - 1
        /\ Cardinality(T) \in Nat
    BY <1>2, <1>5, FS_RemoveElement, FS_CardinalityType
  <1>7. SumFunctionOnSet(f, T \ {FirstPick(T)}) \in Int
    BY <1>3, <1>6
  <1>8. SumFunctionOnSet(f, T) = f[FirstPick(T)] + SumFunctionOnSet(f, T \ {FirstPick(T)})
    BY <1>2, <1>4, SumPicks
  <1> QED
    BY <1>5, <1>7, <1>8

\* The fold may begin with any element.
LEMMA SumTakesAny ==
    ASSUME NEW f, NEW S, IsFiniteSet(S), \A x \in S : f[x] \in Int
    PROVE  \A x \in S : SumFunctionOnSet(f, S) = f[x] + SumFunctionOnSet(f, S \ {x})
  <1> DEFINE sum(T) == SumFunctionOnSet(f, T)
             bad == {T \in SUBSET S : \E x \in T : sum(T) # f[x] + sum(T \ {x})}
  <1>1. SUFFICES ASSUME bad # {} PROVE FALSE
    OBVIOUS
  <1>2. \A T \in SUBSET S : IsFiniteSet(T) /\ sum(T) \in Int
    BY FS_Subset, SumType
  <1>3. PICK T \in bad : \A R \in bad : Cardinality(T) <= Cardinality(R)
    BY <1>1, <1>2, FewestElements, Zenon
  <1>4. PICK x \in T : sum(T) # f[x] + sum(T \ {x})
    OBVIOUS
  <1> DEFINE p == FirstPick(T)
  <1>5. p \in T /\ sum(T) = f[p] + sum(T \ {p})
    BY <1>2, FirstPickIn, SumPicks
  <1>6. p # x
    BY <1>4, <1>5
  <1>7. ASSUME NEW y \in T PROVE T \ {y} \notin bad
    <2>1. Cardinality(T \ {y}) = Cardinality(T) - 1 /\ Cardinality(T) \in Nat
      BY <1>2, FS_RemoveElement, FS_CardinalityType
    <2> QED
      BY <1>3, <2>1
  <1>8. sum(T \ {p}) = f[x] + sum((T \ {p}) \ {x})
    BY <1>5, <1>6, <1>7
  <1>9. sum(T \ {x}) = f[p] + sum((T \ {x}) \ {p})
    BY <1>5, <1>6, <1>7
  <1>10. (T \ {p}) \ {x} = (T \ {x}) \ {p}
    OBVIOUS
  <1>11. f[p] \in Int /\ f[x] \in Int /\ sum((T \ {x}) \ {p}) \in Int
    BY <1>2, <1>5
  <1>12. sum(T \ {p}) = f[x] + sum((T \ {x}) \ {p})
    BY <1>8, <1>10
  <1> HIDE DEF sum, p
  <1> QED
    BY <1>4, <1>5, <1>9, <1>11, <1>12

\* A row more.
LEMMA SumOfOneMore ==
    ASSUME NEW f, NEW S, NEW x, x \notin S, IsFiniteSet(S),
           \A y \in S \cup {x} : f[y] \in Int
    PROVE  SumFunctionOnSet(f, S \cup {x}) = f[x] + SumFunctionOnSet(f, S)
  <1>1. IsFiniteSet(S \cup {x})
    BY FS_AddElement
  <1>2. (S \cup {x}) \ {x} = S
    OBVIOUS
  <1> QED
    BY <1>1, <1>2, SumTakesAny

\* Sums over the same set of tables that agree on it are equal.
LEMMA SumOfSame ==
    ASSUME NEW f, NEW g, NEW S, IsFiniteSet(S), \A x \in S : f[x] \in Int /\ f[x] = g[x]
    PROVE  SumFunctionOnSet(f, S) = SumFunctionOnSet(g, S)
  <1> DEFINE B == {T \in SUBSET S : SumFunctionOnSet(f, T) = SumFunctionOnSet(g, T)}
  <1>1. {} \in B
    BY SumOfNone
  <1>2. ASSUME NEW T \in SUBSET S, NEW x \in S \ T, T \in B
        PROVE  T \cup {x} \in B
    <2>1. IsFiniteSet(T)
      BY FS_Subset
    <2>2. SumFunctionOnSet(f, T \cup {x}) = f[x] + SumFunctionOnSet(f, T)
      BY <2>1, SumOfOneMore
    <2>3. SumFunctionOnSet(g, T \cup {x}) = g[x] + SumFunctionOnSet(g, T)
      BY <2>1, SumOfOneMore
    <2> QED
      BY <1>2, <2>2, <2>3
  <1> HIDE DEF B
  <1>3. S \in B
    BY <1>1, <1>2, SubsetInduction
  <1> QED
    BY <1>3 DEF B

\* A table that is nowhere larger has no larger sum.
LEMMA SumOfSmaller ==
    ASSUME NEW f, NEW g, NEW S, IsFiniteSet(S),
           \A x \in S : f[x] \in Int /\ g[x] \in Int /\ f[x] <= g[x]
    PROVE  SumFunctionOnSet(f, S) <= SumFunctionOnSet(g, S)
  <1> DEFINE B == {T \in SUBSET S : SumFunctionOnSet(f, T) <= SumFunctionOnSet(g, T)}
  <1>1. {} \in B
    BY SumOfNone
  <1>2. ASSUME NEW T \in SUBSET S, NEW x \in S \ T, T \in B
        PROVE  T \cup {x} \in B
    <2>1. IsFiniteSet(T)
      BY FS_Subset
    <2>2. SumFunctionOnSet(f, T) \in Int /\ SumFunctionOnSet(g, T) \in Int
      BY <2>1, SumType
    <2>3. SumFunctionOnSet(f, T \cup {x}) = f[x] + SumFunctionOnSet(f, T)
      BY <2>1, SumOfOneMore
    <2>4. SumFunctionOnSet(g, T \cup {x}) = g[x] + SumFunctionOnSet(g, T)
      BY <2>1, SumOfOneMore
    <2> QED
      BY <1>2, <2>2, <2>3, <2>4
  <1> HIDE DEF B
  <1>3. S \in B
    BY <1>1, <1>2, SubsetInduction
  <1> QED
    BY <1>3 DEF B

\* Two disjoint sets of rows.
LEMMA SumOfBoth ==
    ASSUME NEW f, NEW R, NEW S, R \cap S = {}, IsFiniteSet(R), IsFiniteSet(S),
           \A x \in R \cup S : f[x] \in Int
    PROVE  SumFunctionOnSet(f, R \cup S) = SumFunctionOnSet(f, R) + SumFunctionOnSet(f, S)
  <1> DEFINE sum(T) == SumFunctionOnSet(f, T)
             B == {T \in SUBSET S : sum(R \cup T) = sum(R) + sum(T)}
  <1>1. sum(R) \in Int
    BY SumType
  <1>2. {} \in B
    <2>1. R \cup {} = R /\ sum({}) = 0
      BY SumOfNone
    <2> HIDE DEF sum
    <2> QED
      BY <1>1, <2>1
  <1>3. ASSUME NEW T \in SUBSET S, NEW x \in S \ T, T \in B
        PROVE  T \cup {x} \in B
    <2>1. IsFiniteSet(T) /\ IsFiniteSet(R \cup T)
      BY FS_Subset, FS_Union
    <2>2. sum(T) \in Int /\ f[x] \in Int
      BY <2>1, SumType
    <2>3. sum(T \cup {x}) = f[x] + sum(T)
      BY <2>1, SumOfOneMore
    <2>4. sum((R \cup T) \cup {x}) = f[x] + sum(R \cup T)
      BY <2>1, SumOfOneMore
    <2>5. (R \cup T) \cup {x} = R \cup (T \cup {x})
      OBVIOUS
    <2>6. sum(R \cup (T \cup {x})) = f[x] + sum(R \cup T)
      BY <2>4, <2>5
    <2>7. sum(R \cup T) = sum(R) + sum(T)
      BY <1>3
    <2> HIDE DEF sum
    <2>8. sum(R \cup (T \cup {x})) = sum(R) + sum(T \cup {x})
      BY <1>1, <2>2, <2>3, <2>6, <2>7
    <2> QED
      BY <2>8
  <1> HIDE DEF B
  <1>4. S \in B
    BY <1>2, <1>3, SubsetInduction
  <1> QED
    BY <1>4 DEF B

\* A sum of numbers that are not negative is not negative.
LEMMA SumNotNegative ==
    ASSUME NEW f, NEW S, IsFiniteSet(S), \A x \in S : f[x] \in Nat
    PROVE  SumFunctionOnSet(f, S) \in Nat
  <1> DEFINE B == {T \in SUBSET S : SumFunctionOnSet(f, T) \in Nat}
  <1>1. {} \in B
    BY SumOfNone
  <1>2. ASSUME NEW T \in SUBSET S, NEW x \in S \ T, T \in B
        PROVE  T \cup {x} \in B
    <2>1. IsFiniteSet(T)
      BY FS_Subset
    <2>2. SumFunctionOnSet(f, T \cup {x}) = f[x] + SumFunctionOnSet(f, T)
      BY <2>1, SumOfOneMore
    <2> QED
      BY <1>2, <2>2
  <1> HIDE DEF B
  <1>3. S \in B
    BY <1>1, <1>2, SubsetInduction
  <1> QED
    BY <1>3 DEF B

\* More rows that are not negative do not make a sum smaller.
LEMMA SumOfFewer ==
    ASSUME NEW f, NEW R, NEW S, R \subseteq S, IsFiniteSet(S), \A x \in S : f[x] \in Int,
           \A x \in S \ R : f[x] >= 0
    PROVE  SumFunctionOnSet(f, R) <= SumFunctionOnSet(f, S)
  <1>1. IsFiniteSet(R) /\ IsFiniteSet(S \ R)
    BY FS_Subset
  <1>2. R \cup (S \ R) = S
    OBVIOUS
  <1>3. SumFunctionOnSet(f, S) = SumFunctionOnSet(f, R) + SumFunctionOnSet(f, S \ R)
    BY <1>1, <1>2, SumOfBoth
  <1>4. SumFunctionOnSet(f, S \ R) \in Nat
    BY <1>1, SumNotNegative
  <1>5. SumFunctionOnSet(f, R) \in Int
    BY <1>1, SumType
  <1> QED
    BY <1>3, <1>4, <1>5

\* The sum over one row.
LEMMA SumOfOne ==
    ASSUME NEW f, NEW x, f[x] \in Int
    PROVE  SumFunctionOnSet(f, {x}) = f[x]
  <1>1. IsFiniteSet({}) /\ x \notin {} /\ {} \cup {x} = {x}
    BY FS_EmptySet
  <1>2. SumFunctionOnSet(f, {} \cup {x}) = f[x] + SumFunctionOnSet(f, {})
    BY <1>1, SumOfOneMore
  <1> QED
    BY <1>1, <1>2, SumOfNone

\* What a function takes on finitely many arguments is finitely much.
LEMMA FiniteImage ==
    ASSUME NEW f, NEW S, IsFiniteSet(S)
    PROVE  IsFiniteSet({f[x] : x \in S})
  <1> DEFINE T == {f[x] : x \in S}
             g == [x \in S |-> f[x]]
  <1>1. g \in Surjection(S, T)
    BY DEF Surjection
  <1> QED
    BY <1>1, FS_Surjection

\* Nothing comes to nothing.
LEMMA SumOfZeros ==
    ASSUME NEW f, NEW S, IsFiniteSet(S), \A x \in S : f[x] = 0
    PROVE  SumFunctionOnSet(f, S) = 0
  <1> DEFINE B == {T \in SUBSET S : SumFunctionOnSet(f, T) = 0}
  <1>1. {} \in B
    BY SumOfNone
  <1>2. ASSUME NEW T \in SUBSET S, NEW x \in S \ T, T \in B
        PROVE  T \cup {x} \in B
    <2>1. IsFiniteSet(T)
      BY FS_Subset
    <2>2. SumFunctionOnSet(f, T \cup {x}) = f[x] + SumFunctionOnSet(f, T)
      <3>1. \A y \in T \cup {x} : f[y] \in Int
        OBVIOUS
      <3> HIDE DEF B
      <3> QED BY <2>1, <3>1, SumOfOneMore
    <2> QED
      BY <1>2, <2>2
  <1>3. S \in B
    <2> HIDE DEF B
    <2> QED BY <1>1, <1>2, SubsetInduction
  <1> QED
    BY <1>3

\* Two functions that differ in one place, and their sums by as much.
LEMMA SumChanges ==
    ASSUME NEW f, NEW g, NEW S, NEW x \in S, IsFiniteSet(S),
           \A y \in S : f[y] \in Int /\ g[y] \in Int /\ (y # x => g[y] = f[y])
    PROVE  SumFunctionOnSet(g, S) = SumFunctionOnSet(f, S) + g[x] - f[x]
  <1>1. IsFiniteSet(S \ {x})
    BY FS_Subset
  <1>2. SumFunctionOnSet(f, S) = f[x] + SumFunctionOnSet(f, S \ {x})
    BY SumTakesAny
  <1>3. SumFunctionOnSet(g, S) = g[x] + SumFunctionOnSet(g, S \ {x})
    BY SumTakesAny
  <1>4. SumFunctionOnSet(f, S \ {x}) = SumFunctionOnSet(g, S \ {x})
    BY <1>1, SumOfSame
  <1>5. SumFunctionOnSet(f, S \ {x}) \in Int
    BY <1>1, SumType
  <1> QED
    BY <1>2, <1>3, <1>4, <1>5

\* Combinations of two numbers add up.
LEMMA Combination ==
    \A p, q, a, b, c, d \in Int :
        /\ p * a + q * b \in Int
        /\ p * (a + c) + q * (b + d) = (p * a + q * b) + (p * c + q * d)
  OBVIOUS

\* h combines f and g, row by row.
Combines(h, f, g, S, p, q) ==
    \A x \in S : f[x] \in Int /\ g[x] \in Int /\ h[x] = p * f[x] + q * g[x]

\* A combination of two amounts in every row is that combination of the sums.
LEMMA SumCombined ==
    ASSUME NEW f, NEW g, NEW h, NEW S, IsFiniteSet(S), NEW p \in Int, NEW q \in Int,
           Combines(h, f, g, S, p, q)
    PROVE  SumFunctionOnSet(h, S) = p * SumFunctionOnSet(f, S) + q * SumFunctionOnSet(g, S)
  <1> DEFINE F(T) == SumFunctionOnSet(f, T)
             G(T) == SumFunctionOnSet(g, T)
             H(T) == SumFunctionOnSet(h, T)
             B == {T \in SUBSET S : H(T) = p * F(T) + q * G(T)}
  <1>1. {} \in B
    <2>1. p * 0 + q * 0 = 0
      OBVIOUS
    <2>2. H({}) = 0 /\ F({}) = 0 /\ G({}) = 0
      BY SumOfNone
    <2> HIDE DEF F, G, H
    <2> QED
      BY <2>1, <2>2
  <1>2. ASSUME NEW T \in SUBSET S, NEW x \in S \ T, T \in B
        PROVE  T \cup {x} \in B
    <2>1. IsFiniteSet(T)
      BY FS_Subset
    <2>2. \A y \in S : f[y] \in Int /\ g[y] \in Int /\ h[y] \in Int
      BY Combination DEF Combines
    <2>3. F(T \cup {x}) = f[x] + F(T) /\ F(T) \in Int
      BY <2>1, <2>2, SumOfOneMore, SumType
    <2>4. G(T \cup {x}) = g[x] + G(T) /\ G(T) \in Int
      BY <2>1, <2>2, SumOfOneMore, SumType
    <2>5. H(T \cup {x}) = h[x] + H(T)
      BY <2>1, <2>2, SumOfOneMore
    <2>6. h[x] = p * f[x] + q * g[x] /\ f[x] \in Int /\ g[x] \in Int /\ H(T) = p * F(T) + q * G(T)
      BY <1>2 DEF Combines
    <2> HIDE DEF F, G, H
    <2>7. h[x] + H(T) = p * (f[x] + F(T)) + q * (g[x] + G(T))
      BY <2>3, <2>4, <2>6, Combination
    <2>8. H(T \cup {x}) = p * F(T \cup {x}) + q * G(T \cup {x})
      BY <2>3, <2>4, <2>5, <2>7
    <2> QED
      BY <1>2, <2>8
  <1> HIDE DEF B
  <1>3. S \in B
    BY <1>1, <1>2, SubsetInduction
  <1> QED
    BY <1>3 DEF B

\* Amounts that are each at most c.
LEMMA SumWithin ==
    ASSUME NEW f, NEW S, IsFiniteSet(S), NEW c \in Int, \A x \in S : f[x] \in Int /\ f[x] <= c
    PROVE  SumFunctionOnSet(f, S) <= Cardinality(S) * c
  <1> DEFINE B == {T \in SUBSET S : SumFunctionOnSet(f, T) <= Cardinality(T) * c}
  <1>1. {} \in B
    <2>1. 0 * c = 0
      OBVIOUS
    <2> QED
      BY <2>1, SumOfNone, FS_EmptySet
  <1>2. ASSUME NEW T \in SUBSET S, NEW x \in S \ T, T \in B
        PROVE  T \cup {x} \in B
    <2>1. IsFiniteSet(T) /\ Cardinality(T) \in Nat
      BY FS_Subset, FS_CardinalityType
    <2>2. Cardinality(T \cup {x}) = Cardinality(T) + 1
      BY <2>1, FS_AddElement
    <2>3. SumFunctionOnSet(f, T \cup {x}) = f[x] + SumFunctionOnSet(f, T)
      BY <2>1, SumOfOneMore
    <2>4. SumFunctionOnSet(f, T) \in Int /\ f[x] \in Int /\ f[x] <= c
      BY <2>1, SumType
    <2>5. \A n \in Int : (n + 1) * c = n * c + c /\ n * c \in Int
      OBVIOUS
    <2>6. SumFunctionOnSet(f, T) <= Cardinality(T) * c
      BY <1>2
    <2>7. SumFunctionOnSet(f, T \cup {x}) <= Cardinality(T \cup {x}) * c
      BY <2>1, <2>2, <2>3, <2>4, <2>5, <2>6
    <2> QED
      BY <2>7
  <1> HIDE DEF B
  <1>3. S \in B
    BY <1>1, <1>2, SubsetInduction
  <1> QED
    BY <1>3 DEF B

\* A sum does not change with the names of its rows.
LEMMA SumRenamed ==
    ASSUME NEW f, NEW g, NEW I, NEW S, NEW name \in [I -> S], IsFiniteSet(I),
           \A i, j \in I : name[i] = name[j] => i = j,
           \A s \in S : \E i \in I : name[i] = s,
           \A i \in I : f[name[i]] \in Int /\ g[i] = f[name[i]]
    PROVE  SumFunctionOnSet(g, I) = SumFunctionOnSet(f, S)
  <1> DEFINE names(T) == {name[i] : i \in T}
             B == {T \in SUBSET I : SumFunctionOnSet(g, T) = SumFunctionOnSet(f, names(T))}
  <1>1. {} \in B
    BY SumOfNone
  <1>2. ASSUME NEW T \in SUBSET I, NEW i \in I \ T, T \in B
        PROVE  T \cup {i} \in B
    <2>1. IsFiniteSet(T)
      BY FS_Subset
    <2>2. IsFiniteSet(names(T))
      BY <2>1, FiniteImage
    <2>3. names(T \cup {i}) = names(T) \cup {name[i]} /\ name[i] \notin names(T)
      OBVIOUS
    <2>4. \A j \in T \cup {i} : g[j] \in Int
      OBVIOUS
    <2>5. \A y \in names(T) \cup {name[i]} : f[y] \in Int
      OBVIOUS
    <2> HIDE DEF names
    <2>6. SumFunctionOnSet(g, T \cup {i}) = g[i] + SumFunctionOnSet(g, T)
      BY <2>1, <2>4, SumOfOneMore
    <2>7. SumFunctionOnSet(f, names(T) \cup {name[i]}) = f[name[i]] + SumFunctionOnSet(f, names(T))
      BY <2>2, <2>3, <2>5, SumOfOneMore
    <2> QED
      BY <1>2, <2>3, <2>6, <2>7
  <1>3. names(I) = S
    OBVIOUS
  <1> HIDE DEF B
  <1>4. I \in B
    BY <1>1, <1>2, SubsetInduction
  <1> QED
    BY <1>3, <1>4 DEF B

\* Groups add up to the whole.
LEMMA SumByGroups ==
    ASSUME NEW f, NEW S, IsFiniteSet(S), \A x \in S : f[x] \in Int,
           NEW D, IsFiniteSet(D), NEW group, \A x \in S : group[x] \in D,
           NEW part, \A d \in D : part[d] = {x \in S : group[x] = d},
           NEW g, \A d \in D : g[d] = SumFunctionOnSet(f, part[d])
    PROVE  SumFunctionOnSet(g, D) = SumFunctionOnSet(f, S)
  <1> DEFINE of(T) == {x \in S : group[x] \in T}
             B == {T \in SUBSET D : SumFunctionOnSet(g, T) = SumFunctionOnSet(f, of(T))}
  <1>1. ASSUME NEW R \in SUBSET S
        PROVE  IsFiniteSet(R) /\ SumFunctionOnSet(f, R) \in Int
    <2>1. IsFiniteSet(R)
      BY FS_Subset
    <2> QED BY <2>1, SumType
  <1>2. ASSUME NEW d \in D PROVE g[d] \in Int
    <2>1. part[d] \in SUBSET S
      OBVIOUS
    <2> QED BY <1>1, <2>1
  <1>3. {} \in B
    BY SumOfNone
  <1>4. ASSUME NEW T \in SUBSET D, NEW d \in D \ T, T \in B
        PROVE  T \cup {d} \in B
    <2> DEFINE one == part[d]
               many == of(T)
    <2>1. IsFiniteSet(T) /\ \A y \in T \cup {d} : g[y] \in Int
      BY <1>2, FS_Subset
    <2>2. of(T \cup {d}) = many \cup one /\ many \cap one = {}
      OBVIOUS
    <2>3. IsFiniteSet(many) /\ IsFiniteSet(one) /\ \A x \in many \cup one : f[x] \in Int
      BY <1>1
    <2>4. SumFunctionOnSet(f, many) \in Int /\ SumFunctionOnSet(f, one) \in Int
      BY <1>1
    <2>5. SumFunctionOnSet(g, T) = SumFunctionOnSet(f, many)
      BY <1>4
    <2>6. g[d] = SumFunctionOnSet(f, one)
      OBVIOUS
    <2> HIDE DEF one, many, of
    <2>7. SumFunctionOnSet(f, many \cup one) = SumFunctionOnSet(f, many) + SumFunctionOnSet(f, one)
      BY <2>2, <2>3, SumOfBoth
    <2>8. SumFunctionOnSet(g, T \cup {d}) = g[d] + SumFunctionOnSet(g, T)
      BY <2>1, SumOfOneMore
    <2>9. SumFunctionOnSet(g, T \cup {d}) = SumFunctionOnSet(f, many \cup one)
      BY <2>4, <2>5, <2>6, <2>7, <2>8
    <2> QED BY <2>2, <2>9
  <1> HIDE DEF B
  <1>5. D \in B
    BY <1>3, <1>4, SubsetInduction
  <1>6. of(D) = S
    OBVIOUS
  <1> QED BY <1>5, <1>6 DEF B

-----------------------------------------------------------------------------
(* Orders.                                                                 *)

\* The first n numbers are n.
LEMMA FirstNumbers ==
    ASSUME NEW n \in Nat PROVE IsFiniteSet(0..(n - 1)) /\ Cardinality(0..(n - 1)) = n
  BY FS_Interval

\* before orders S, totally.
TotalOrder(before, S) ==
    /\ \A x \in S : <<x, x>> \notin before
    /\ \A x, y, z \in S : <<x, y>> \in before /\ <<y, z>> \in before => <<x, z>> \in before
    /\ \A x, y \in S : x # y => <<x, y>> \in before \/ <<y, x>> \in before

\* below tells of each element of S those before it.
Precede(below, before, S) ==
    \A x \in S : \A y : y \in below[x] <=> y \in S /\ <<y, x>> \in before

\* In a finite set that is totally ordered, for every number less than that of
\* its elements there is one with as many before it.
LEMMA RankedOnce ==
    ASSUME NEW S, IsFiniteSet(S), NEW before, NEW below, TotalOrder(before, S),
           Precede(below, before, S)
    PROVE  \A n \in 0..(Cardinality(S) - 1) : \E x \in S : Cardinality(below[x]) = n
  <1> USE DEF TotalOrder, Precede
  <1> DEFINE rank == [x \in S |-> Cardinality(below[x])]
             places == 0..(Cardinality(S) - 1)
  <1>1. Cardinality(S) \in Nat
    BY FS_CardinalityType
  <1>2. IsFiniteSet(places) /\ Cardinality(places) = Cardinality(S)
    <2> DEFINE n == Cardinality(S)
    <2>1. n \in Nat
      BY <1>1
    <2> HIDE DEF n
    <2> QED BY <2>1, FirstNumbers DEF n
  <1>3. \A x \in S : IsFiniteSet(below[x]) /\ Cardinality(below[x]) \in Nat
    <2> TAKE x \in S
    <2>1. below[x] \in SUBSET S
      OBVIOUS
    <2> QED BY <2>1, FS_Subset, FS_CardinalityType
  <1>4. \A x, y \in S : <<x, y>> \in before => Cardinality(below[x]) < Cardinality(below[y])
    <2> SUFFICES ASSUME NEW x \in S, NEW y \in S, <<x, y>> \in before
                 PROVE  Cardinality(below[x]) < Cardinality(below[y])
      OBVIOUS
    <2>1. below[x] \in SUBSET below[y] /\ x \in below[y] /\ x \notin below[x]
      OBVIOUS
    <2>2. Cardinality(below[x]) <= Cardinality(below[y])
      BY <1>3, <2>1, FS_Subset
    <2>3. Cardinality(below[x]) # Cardinality(below[y])
      BY <1>3, <2>1, FS_Subset
    <2> QED BY <1>3, <2>2, <2>3
  <1>5. \A x \in S : Cardinality(below[x]) < Cardinality(S)
    <2> TAKE x \in S
    <2>1. below[x] \in SUBSET S /\ x \notin below[x]
      OBVIOUS
    <2>2. Cardinality(below[x]) <= Cardinality(S) /\ Cardinality(below[x]) # Cardinality(S)
      BY <2>1, FS_Subset
    <2> QED BY <1>1, <1>3, <2>2
  <1>6. rank \in Injection(S, places)
    <2>1. rank \in [S -> places]
      BY <1>1, <1>3, <1>5
    <2>2. \A x, y \in S : rank[x] = rank[y] => x = y
      <3> SUFFICES ASSUME NEW x \in S, NEW y \in S, rank[x] = rank[y], x # y PROVE FALSE
        OBVIOUS
      <3>1. Cardinality(below[x]) = Cardinality(below[y]) /\ Cardinality(below[x]) \in Nat
        BY <1>3
      <3>2. <<x, y>> \in before \/ <<y, x>> \in before
        OBVIOUS
      <3> QED BY <1>4, <3>1, <3>2
    <2> HIDE DEF rank, places
    <2> QED BY <2>1, <2>2 DEF Injection, IsInjective
  <1>7. rank \in Surjection(S, places)
    <2> HIDE DEF rank, places
    <2> QED BY <1>2, <1>6, FS_Injection
  <1> QED BY <1>7 DEF Surjection

-----------------------------------------------------------------------------
(* Division.                                                               *)

\* Division with a remainder.
LEMMA Division ==
    ASSUME NEW n \in Nat \ {0}, NEW a \in Int
    PROVE  /\ a \div n \in Int /\ a % n \in 0..(n - 1)
           /\ a = (a \div n) * n + (a % n)
  OBVIOUS

LEMMA Remainder ==
    ASSUME NEW n \in Nat \ {0}, NEW a \in Int
    PROVE  a % n \in 0..(n - 1) /\ \E q \in Int : a = q * n + (a % n)
  BY Division

\* Multiples of n less than n apart are equal.
LEMMA SameMultiple ==
    ASSUME NEW n \in Nat \ {0}, NEW p \in Int, NEW q \in Int,
           p * n - q * n < n, q * n - p * n < n
    PROVE  p = q
<1>1. \A m \in Int : m >= 1 => m * n >= n
  OBVIOUS
<1>2. p * n - q * n = (p - q) * n /\ q * n - p * n = (q - p) * n
  OBVIOUS
<1>3. ~(p - q >= 1) /\ ~(q - p >= 1)
  BY <1>1, <1>2
<1> QED BY <1>3

LEMMA RemainderIs ==
    ASSUME NEW n \in Nat \ {0}, NEW a \in Int, NEW q \in Int, NEW r \in 0..(n - 1), a = q * n + r
    PROVE  a % n = r
<1>1. PICK p \in Int : a = p * n + (a % n)
  BY Remainder
<1>2. a % n \in 0..(n - 1)
  BY Remainder
<1>3. p * n \in Int /\ q * n \in Int
  OBVIOUS
<1>4. p = q
  <2>1. p * n - q * n < n /\ q * n - p * n < n
    BY <1>1, <1>2, <1>3
  <2> QED BY <2>1, SameMultiple
<1>5. p * n = q * n
  BY <1>4
<1> QED BY <1>1, <1>2, <1>3, <1>5

\* Two numbers less than n apart with one remainder are one.
LEMMA SameRemainder ==
    ASSUME NEW n \in Nat \ {0}, NEW a \in Int, NEW b \in Int, a % n = b % n,
           a - b < n, b - a < n
    PROVE  a = b
<1>1. PICK p \in Int : a = p * n + (a % n)
  BY Remainder
<1>2. PICK q \in Int : b = q * n + (b % n)
  BY Remainder
<1>3. p * n \in Int /\ q * n \in Int /\ a % n \in Int /\ b % n \in Int
  BY Remainder
<1>4. p * n - q * n < n /\ q * n - p * n < n
  BY <1>1, <1>2, <1>3
<1>5. p * n = q * n
  BY <1>4, SameMultiple
<1> QED BY <1>1, <1>2, <1>3, <1>5

\* Going round n, k places on from place d is place r.
Lands(d, k, n, r) == (d + k) % n = r

\* Of n days in a row, each k has its own on which k places on is place r.
LEMMA DayOfTurn ==
    ASSUME NEW n \in Nat \ {0}, NEW first \in Int, NEW k \in Int, NEW r \in 0..(n - 1)
    PROVE  \E d \in first..(first + n - 1) : Lands(d, k, n, r)
<1>1. r - k - first \in Int
  OBVIOUS
<1>2. PICK q \in Int : r - k - first = q * n + ((r - k - first) % n)
  BY <1>1, Remainder
<1>3. (r - k - first) % n \in 0..(n - 1)
  BY <1>1, Remainder
<1> DEFINE d == first + ((r - k - first) % n)
<1>4. d \in first..(first + n - 1)
  BY <1>3
<1>5. (-q) * n = -(q * n) /\ q * n \in Int
  OBVIOUS
<1>6. d + k = (-q) * n + r /\ d + k \in Int /\ -q \in Int
  BY <1>2, <1>3, <1>5
<1> HIDE DEF d
<1>7. (d + k) % n = r
  BY <1>6, RemainderIs
<1> QED BY <1>4, <1>7 DEF Lands

\* And none has two.
LEMMA OneDayOfTurn ==
    ASSUME NEW n \in Nat \ {0}, NEW d \in Int, NEW e \in Int, NEW k \in Int,
           (d + k) % n = (e + k) % n, d - e < n, e - d < n
    PROVE  d = e
<1>1. /\ d + k \in Int /\ e + k \in Int
      /\ (d + k) - (e + k) < n /\ (e + k) - (d + k) < n
  OBVIOUS
<1>2. d + k = e + k
  BY <1>1, SameRemainder
<1> QED BY <1>2

\* The days of a window of n on which one of the c places in a row that begin
\* with the day's number, going round n, is place r.
TurnDays(days, n, c, first, r) ==
    \A d : d \in days <=> /\ d \in first..(first + n - 1)
                          /\ \E k \in 0..(c - 1) : (d + k) % n = r

\* There are c of them.
LEMMA TurnsOfOne ==
    ASSUME NEW n \in Nat \ {0}, NEW c \in 1..n, NEW first \in Nat, NEW r \in 0..(n - 1),
           NEW days, TurnDays(days, n, c, first, r)
    PROVE  Cardinality(days) = c
<1> DEFINE ks == 0..(c - 1)
           window == first..(first + n - 1)
           day == [k \in ks |-> CHOOSE d \in window : (d + k) % n = r]
<1>1. \A k \in ks : day[k] \in window /\ (day[k] + k) % n = r
  <2> SUFFICES ASSUME NEW k \in ks PROVE day[k] \in window /\ (day[k] + k) % n = r
    OBVIOUS
  <2>1. \E d \in window : (d + k) % n = r
    <3>1. k \in Int /\ first \in Int /\ n \in Nat \ {0} /\ r \in 0..(n - 1)
      OBVIOUS
    <3>2. \E d \in first..(first + n - 1) : Lands(d, k, n, r)
      BY <3>1, DayOfTurn
    <3> QED BY <3>2 DEF Lands
  <2>2. day[k] = CHOOSE d \in window : (d + k) % n = r
    OBVIOUS
  <2> HIDE DEF day, window
  <2> QED BY <2>1, <2>2
<1> HIDE DEF day
<1>2. \A d \in window, k \in ks : (d + k) % n = r => d = day[k]
  <2> SUFFICES ASSUME NEW d \in window, NEW k \in ks, (d + k) % n = r PROVE d = day[k]
    OBVIOUS
  <2>1. day[k] \in window /\ (day[k] + k) % n = (d + k) % n
    BY <1>1
  <2>2. /\ d \in Int /\ day[k] \in Int /\ k \in Int /\ n \in Nat \ {0}
        /\ d - day[k] < n /\ day[k] - d < n
    BY <2>1
  <2> QED BY <2>1, <2>2, OneDayOfTurn
<1>3. \A k, l \in ks : day[k] = day[l] => k = l
  <2> SUFFICES ASSUME NEW k \in ks, NEW l \in ks, day[k] = day[l] PROVE k = l
    OBVIOUS
  <2>1. day[k] \in Int /\ k + day[k] = day[k] + k /\ l + day[k] = day[l] + l
    BY <1>1
  <2>2. (k + day[k]) % n = (l + day[k]) % n
    BY <1>1, <2>1
  <2>3. /\ k \in Int /\ l \in Int /\ day[k] \in Int /\ n \in Nat \ {0} /\ k - l < n /\ l - k < n
    BY <2>1
  <2> QED BY <2>2, <2>3, OneDayOfTurn
<1>4. day \in [ks -> days] /\ \A d \in days : \E k \in ks : day[k] = d
  BY <1>1, <1>2 DEF TurnDays, day
<1>5. day \in Bijection(ks, days)
  <2> HIDE DEF ks
  <2>1. day \in Injection(ks, days)
    BY <1>3, <1>4 DEF Injection, IsInjective
  <2>2. day \in Surjection(ks, days)
    BY <1>4 DEF Surjection
  <2> QED BY <2>1, <2>2 DEF Bijection
<1>6. IsFiniteSet(ks) /\ Cardinality(ks) = c
  BY FirstNumbers
<1> HIDE DEF ks
<1> QED BY <1>5, <1>6, FS_Bijection DEF ExistsBijection
=============================================================================
