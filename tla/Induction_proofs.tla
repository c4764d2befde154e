-------------------------- MODULE Induction_proofs --------------------------
(***************************************************************************)
(* What the other proofs need of induction, for sets of numbers and for    *)
(* subsets of a finite set, of folds (functions over 0 .. n of which each  *)
(* value is made of the one before) and of sums.                           *)
(***************************************************************************)
EXTENDS Integers, FiniteSets, FiniteSetsExt, Functions, FiniteSetTheorems,
        WellFoundedInduction, TLAPS

\* Induction, stated for a set of numbers.
LEMMA NaturalInduction ==
  ASSUME NEW G, 0 \in G, \A n \in Nat : n \in G => n + 1 \in G
  PROVE  \A n \in Nat : n \in G
<1> DEFINE R == {ss \in Nat \X Nat : ss[1] < ss[2]}
           B == {n \in Nat : n \notin G}
<1>1. IsWellFoundedOn(R, Nat)
  BY NatLessThanWellFounded DEF OpToRel
<1>2. SUFFICES ASSUME B # {} PROVE FALSE
  OBVIOUS
<1>3. PICK n \in B : \A m \in B : <<m, n>> \notin R
  <2>1. B \subseteq Nat
    OBVIOUS
  <2> HIDE DEF B, R
  <2> QED BY <1>1, <1>2, <2>1, WFMin
<1>4. n \in Nat /\ n \notin G /\ n # 0
  OBVIOUS
<1>5. n - 1 \in Nat /\ n - 1 < n /\ (n - 1) + 1 = n
  BY <1>4
<1>6. n - 1 \in B
  BY <1>4, <1>5
<1>7. <<n - 1, n>> \in R
  BY <1>4, <1>5
<1> QED BY <1>3, <1>6, <1>7

\* Induction over the subsets of a finite set, stated for a set of them.
LEMMA FiniteInduction ==
  ASSUME NEW S, IsFiniteSet(S), NEW G, {} \in G,
         \A T \in SUBSET S, x \in S : T \in G /\ x \notin T => T \cup {x} \in G
  PROVE  S \in G
<1> DEFINE R == StrictSubsetOrdering(S)
           B == {T \in FiniteSubsetsOf(S) : T \notin G}
<1>1. SUFFICES ASSUME S \notin G PROVE FALSE
  OBVIOUS
<1>2. S \in B
  BY <1>1 DEF FiniteSubsetsOf
<1>3. PICK T \in B : \A U \in B : <<U, T>> \notin R
  <2>1. IsWellFoundedOn(R, FiniteSubsetsOf(S)) /\ B \subseteq FiniteSubsetsOf(S)
    BY FS_StrictSubsetOrderingWellFounded
  <2> HIDE DEF B, R
  <2> QED BY <1>2, <2>1, WFMin
<1>4. T \subseteq S /\ IsFiniteSet(T) /\ T \notin G /\ T # {}
  BY DEF FiniteSubsetsOf
<1>5. PICK x \in T : TRUE
  BY <1>4
<1> DEFINE U == T \ {x}
<1>6. U \subseteq S /\ IsFiniteSet(U) /\ x \notin U /\ T = U \cup {x} /\ U # T
  BY <1>4, <1>5, FS_RemoveElement
<1>7. U \in FiniteSubsetsOf(S) /\ U \notin G
  BY <1>4, <1>5, <1>6 DEF FiniteSubsetsOf
<1>8. <<U, T>> \in R
  BY <1>4, <1>6 DEF StrictSubsetOrdering
<1> QED BY <1>3, <1>7, <1>8

\* A finite set of numbers has a greatest one.
LEMMA GreatestOfFinite ==
  ASSUME NEW S, IsFiniteSet(S), S \subseteq Nat, S # {}
  PROVE  Max(S) \in S /\ \A x \in S : Max(S) >= x
<1> DEFINE Top(T) == T = {} \/ \E m \in T : \A x \in T : m >= x
           G == {T \in SUBSET S : Top(T)}
<1>1. {} \in G
  OBVIOUS
<1>2. ASSUME NEW T \in SUBSET S, NEW x \in S, T \in G, x \notin T
      PROVE  T \cup {x} \in G
  <2>1. CASE T = {}
    BY <2>1
  <2>2. CASE T # {}
    <3>1. PICK m \in T : \A y \in T : m >= y
      BY <1>2, <2>2
    <3>2. m \in Nat /\ x \in Nat /\ T \subseteq Nat
      OBVIOUS
    <3>3. CASE m >= x
      BY <3>1, <3>2, <3>3
    <3>4. CASE x > m
      BY <3>1, <3>2, <3>4
    <3> QED BY <3>2, <3>3, <3>4
  <2> QED BY <2>1, <2>2
<1> HIDE DEF G
<1>3. S \in G
  BY <1>1, <1>2, FiniteInduction
<1>4. \E m \in S : \A x \in S : m >= x
  BY <1>3 DEF G
<1> QED BY <1>4 DEF Max

\* What a fold keeps at every step it keeps in the end, and there is a fold.
LEMMA FoldKeeps ==
  ASSUME NEW State, NEW n \in Nat, NEW f, f[0] \in State,
         \A i \in 1 .. n : f[i - 1] \in State => f[i] \in State
  PROVE  f[n] \in State
<1> DEFINE G == {i \in Nat : i <= n => f[i] \in State}
<1>1. 0 \in G
  OBVIOUS
<1>2. ASSUME NEW i \in Nat, i \in G PROVE i + 1 \in G
  <2>1. SUFFICES ASSUME i + 1 <= n PROVE f[i + 1] \in State
    OBVIOUS
  <2>2. i + 1 \in 1 .. n /\ (i + 1) - 1 = i /\ i <= n
    BY <2>1
  <2>3. f[i] \in State
    BY <1>2, <2>2
  <2> QED BY <2>2, <2>3
<1> HIDE DEF G
<1>3. n \in G
  BY <1>1, <1>2, NaturalInduction
<1> QED BY <1>3 DEF G

LEMMA FoldExists ==
  ASSUME NEW State, NEW base \in State, NEW n \in Nat, NEW next \in [1 .. n -> [State -> State]]
  PROVE  \E f \in [0 .. n -> State] :
           f[0] = base /\ \A i \in 1 .. n : f[i] = next[i][f[i - 1]]
<1> DEFINE Fold(k) == \E f \in [0 .. k -> State] :
                        f[0] = base /\ \A i \in 1 .. k : f[i] = next[i][f[i - 1]]
           G == {k \in Nat : k <= n => Fold(k)}
<1>1. 0 \in G
  <2> DEFINE f == [i \in 0 .. 0 |-> base]
  <2>1. f \in [0 .. 0 -> State] /\ f[0] = base /\ 1 .. 0 = {}
    OBVIOUS
  <2> QED BY <2>1
<1>2. ASSUME NEW k \in Nat, k \in G PROVE k + 1 \in G
  <2>1. SUFFICES ASSUME k + 1 <= n PROVE Fold(k + 1)
    OBVIOUS
  <2>2. PICK f \in [0 .. k -> State] :
          f[0] = base /\ \A i \in 1 .. k : f[i] = next[i][f[i - 1]]
    BY <1>2, <2>1
  <2> DEFINE last == next[k + 1][f[k]]
             g == [i \in 0 .. k + 1 |-> IF i <= k THEN f[i] ELSE last]
  <2>3. last \in State
    <3>1. k \in 0 .. k /\ k + 1 \in 1 .. n
      BY <2>1
    <3>2. next[k + 1] \in [State -> State] /\ f[k] \in State
      BY <3>1
    <3> QED BY <3>2
  <2> HIDE DEF last
  <2>4. g \in [0 .. k + 1 -> State]
    BY <2>3
  <2>5. g[0] = base
    BY <2>2
  <2>6. ASSUME NEW i \in 1 .. k + 1 PROVE g[i] = next[i][g[i - 1]]
    <3>1. CASE i <= k
      <4>1. i \in 1 .. k /\ i - 1 \in 0 .. k /\ i - 1 \in 0 .. k + 1
        BY <3>1
      <4>2. g[i] = f[i] /\ g[i - 1] = f[i - 1]
        BY <3>1, <4>1
      <4> QED BY <2>2, <4>1, <4>2
    <3>2. CASE i > k
      <4>1. i = k + 1 /\ i - 1 = k /\ k \in 0 .. k + 1
        BY <3>2
      <4>2. g[i] = last /\ g[i - 1] = f[k]
        BY <4>1
      <4> QED BY <4>1, <4>2 DEF last
    <3> QED BY <3>1, <3>2
  <2> HIDE DEF g
  <2> QED BY <2>4, <2>5, <2>6
<1> HIDE DEF G
<1>3. n \in G
  BY <1>1, <1>2, NaturalInduction
<1> QED BY <1>3 DEF G

LEMMA FiniteImage ==
  ASSUME NEW S, IsFiniteSet(S), NEW f, DOMAIN f = S, f = [x \in S |-> f[x]]
  PROVE  IsFiniteSet({f[x] : x \in S})
<1> DEFINE T == {f[x] : x \in S}
<1>1. f \in Surjection(S, T)
  BY DEF Surjection
<1> QED BY <1>1, FS_Surjection

\* Two folds of the same steps agree at every step.
LEMMA FoldsAgree ==
  ASSUME NEW n \in Nat, NEW f, NEW g, f[0] = g[0],
         \A i \in 1 .. n : f[i - 1] = g[i - 1] => f[i] = g[i]
  PROVE  \A i \in 0 .. n : f[i] = g[i]
<1> DEFINE G == {i \in Nat : i <= n => f[i] = g[i]}
<1>1. 0 \in G
  OBVIOUS
<1>2. ASSUME NEW i \in Nat, i \in G PROVE i + 1 \in G
  <2>1. SUFFICES ASSUME i + 1 <= n PROVE f[i + 1] = g[i + 1]
    OBVIOUS
  <2>2. i + 1 \in 1 .. n /\ (i + 1) - 1 = i /\ i <= n
    BY <2>1
  <2>3. f[i] = g[i]
    BY <1>2, <2>2
  <2> QED BY <2>2, <2>3
<1> HIDE DEF G
<1>3. \A i \in Nat : i \in G
  BY <1>1, <1>2, NaturalInduction
<1> QED BY <1>3 DEF G

\* A set of numbers has a least one.
LEMMA LeastOfSet ==
  ASSUME NEW S, S \subseteq Nat, S # {}
  PROVE  \E m \in S : \A x \in S : m <= x
<1> DEFINE G == {n \in Nat : \A x \in S : x <= n => \E m \in S : \A y \in S : m <= y}
<1>1. 0 \in G
  <2> SUFFICES ASSUME NEW x \in S, x <= 0 PROVE \E m \in S : \A y \in S : m <= y
    OBVIOUS
  <2>1. x = 0 /\ \A y \in S : x <= y
    OBVIOUS
  <2> QED BY <2>1
<1>2. ASSUME NEW n \in Nat, n \in G PROVE n + 1 \in G
  <2> SUFFICES ASSUME NEW x \in S, x <= n + 1 PROVE \E m \in S : \A y \in S : m <= y
    OBVIOUS
  <2>1. CASE \E y \in S : y <= n
    BY <1>2, <2>1
  <2>2. CASE \A y \in S : y > n
    <3>1. \A y \in S : x <= y
      BY <2>2
    <3> QED BY <3>1
  <2>3. (\E y \in S : y <= n) \/ (\A y \in S : y > n)
    OBVIOUS
  <2> QED BY <2>1, <2>2, <2>3
<1> HIDE DEF G
<1>3. \A n \in Nat : n \in G
  BY <1>1, <1>2, NaturalInduction
<1>4. PICK x \in S : TRUE
  OBVIOUS
<1>5. x \in G /\ x \in Nat /\ x <= x
  BY <1>3
<1> QED BY <1>4, <1>5 DEF G

\* The folds over the subsets of a finite set: of a set they take any element, and
\* then the rest of it.
SubsetFolds(S, State, base, next) ==
  {g \in [SUBSET S -> State] :
     /\ g[{}] = base
     /\ \A T \in SUBSET S : T # {} =>
          LET x == CHOOSE x \in T : TRUE IN g[T] = next[x][g[T \ {x}]]}

\* The sums of a function's values over each set of its arguments.
PartialSums(f, S) ==
  {g \in [SUBSET S -> Nat] :
     /\ g[{}] = 0
     /\ \A T \in SUBSET S : T # {} => \E x \in T : g[T] = f[x] + g[T \ {x}]}

LEMMA FoldOverSubsets ==
  ASSUME NEW S, IsFiniteSet(S), NEW State, NEW base \in State,
         NEW next \in [S -> [State -> State]]
  PROVE  SubsetFolds(S, State, base, next) # {}
<1> DEFINE Small(k) == {T \in SUBSET S : Cardinality(T) <= k}
           any(T) == CHOOSE x \in T : TRUE
           Fold(k) == \E g \in [Small(k) -> State] :
                        \A T \in Small(k) :
                          IF T = {} THEN g[T] = base
                          ELSE g[T] = next[any(T)][g[T \ {any(T)}]]
           G == {k \in Nat : Fold(k)}
<1>1. \A T \in SUBSET S : IsFiniteSet(T) /\ Cardinality(T) \in Nat
  BY FS_Subset, FS_CardinalityType
<1>2. \A T \in SUBSET S : T # {} =>
        /\ any(T) \in T /\ any(T) \in S /\ T \ {any(T)} \in SUBSET S
        /\ Cardinality(T \ {any(T)}) = Cardinality(T) - 1
  <2> SUFFICES ASSUME NEW T \in SUBSET S, T # {}
               PROVE  /\ any(T) \in T /\ any(T) \in S /\ T \ {any(T)} \in SUBSET S
                      /\ Cardinality(T \ {any(T)}) = Cardinality(T) - 1
    OBVIOUS
  <2>1. any(T) \in T
    OBVIOUS
  <2> HIDE DEF any
  <2> QED BY <1>1, <2>1, FS_RemoveElement
<1> HIDE DEF any
<1>3. 0 \in G
  <2> DEFINE g == [T \in Small(0) |-> base]
  <2>1. \A T \in Small(0) : T = {}
    BY <1>1, FS_EmptySet
  <2>2. g \in [Small(0) -> State] /\ \A T \in Small(0) : T = {} /\ g[T] = base
    BY <2>1
  <2>3. Fold(0)
    <3> HIDE DEF g, Small
    <3> QED BY <2>2
  <2> HIDE DEF Fold
  <2> QED BY <2>3
<1>4. ASSUME NEW k \in Nat, k \in G PROVE k + 1 \in G
  <2>1. PICK g \in [Small(k) -> State] :
          \A T \in Small(k) : IF T = {} THEN g[T] = base
                              ELSE g[T] = next[any(T)][g[T \ {any(T)}]]
    BY <1>4
  <2> DEFINE more(T) == IF T = {} THEN base ELSE next[any(T)][g[T \ {any(T)}]]
             h == [T \in Small(k + 1) |-> IF T \in Small(k) THEN g[T] ELSE more(T)]
  <2>2. \A T \in Small(k + 1) : T # {} => T \ {any(T)} \in Small(k)
    BY <1>1, <1>2
  <2>3. \A T \in Small(k) : T \in Small(k + 1)
    BY <1>1
  <2> HIDE DEF Small
  <2>4. \A T \in Small(k + 1) : T \in SUBSET S
    BY DEF Small
  <2>5. \A T \in Small(k + 1) : more(T) \in State
    <3> SUFFICES ASSUME NEW T \in Small(k + 1), T # {} PROVE more(T) \in State
      OBVIOUS
    <3>1. any(T) \in S /\ g[T \ {any(T)}] \in State
      BY <1>2, <2>2, <2>4
    <3> QED BY <3>1
  <2>6. \A T \in Small(k) : g[T] = more(T)
    BY <2>1
  <2> HIDE DEF more
  <2>7. h \in [Small(k + 1) -> State]
    BY <2>5
  <2>8. \A T \in Small(k + 1) : h[T] = more(T)
    BY <2>6
  <2>9. \A T \in Small(k + 1) : T # {} => h[T \ {any(T)}] = g[T \ {any(T)}]
    BY <2>2, <2>3
  <2> HIDE DEF h
  <2>10. \A T \in Small(k + 1) : IF T = {} THEN h[T] = base
                                 ELSE h[T] = next[any(T)][h[T \ {any(T)}]]
    BY <2>8, <2>9 DEF more
  <2>11. Fold(k + 1)
    BY <2>7, <2>10
  <2> HIDE DEF Fold
  <2> QED BY <2>11
<1> HIDE DEF G
<1>5. Cardinality(S) \in Nat /\ Small(Cardinality(S)) = SUBSET S
  <2>1. \A T \in SUBSET S : Cardinality(T) <= Cardinality(S)
    BY FS_Subset
  <2> QED BY <1>1, <2>1
<1>6. Fold(Cardinality(S))
  <2>1. Cardinality(S) \in G
    BY <1>3, <1>4, <1>5, NaturalInduction
  <2> QED BY <2>1 DEF G
<1> HIDE DEF Small
<1>7. PICK g \in [SUBSET S -> State] :
        \A T \in SUBSET S : IF T = {} THEN g[T] = base
                            ELSE g[T] = next[any(T)][g[T \ {any(T)}]]
  BY <1>5, <1>6
<1> QED BY <1>7 DEF any, SubsetFolds

\* What SumFunction adds up.
LEMMA SumIsFunction ==
  ASSUME NEW S, IsFiniteSet(S), NEW f \in [S -> Nat]
  PROVE  \E g \in PartialSums(f, S) : SumFunction(f) = g[S]
<1> DEFINE P(g) == g = [T \in SUBSET S |->
                          IF T = {} THEN 0
                          ELSE LET x == CHOOSE x \in T : TRUE IN f[x] + g[T \ {x}]]
           K == CHOOSE g : P(g)
           next == [x \in S |-> [k \in Nat |-> f[x] + k]]
<1>1. SumFunction(f) = K[S]
  BY DEF SumFunction, SumFunctionOnSet, FoldFunctionOnSet, MapThenFoldSet
<1>2. next \in [S -> [Nat -> Nat]]
  OBVIOUS
<1> HIDE DEF next
<1>3. PICK g \in [SUBSET S -> Nat] :
        /\ g[{}] = 0
        /\ \A T \in SUBSET S : T # {} =>
             LET x == CHOOSE x \in T : TRUE IN g[T] = next[x][g[T \ {x}]]
  <2> DEFINE base == 0
  <2>1. base \in Nat
    OBVIOUS
  <2> HIDE DEF base, P, K
  <2>2. SubsetFolds(S, Nat, base, next) # {}
    BY <1>2, <2>1, FoldOverSubsets
  <2> QED BY <2>2 DEF base, SubsetFolds
<1>4. \A T \in SUBSET S : T # {} =>
        LET x == CHOOSE x \in T : TRUE IN x \in T /\ g[T] = f[x] + g[T \ {x}]
  <2> SUFFICES ASSUME NEW T \in SUBSET S, T # {}, NEW x, x = CHOOSE y \in T : TRUE
               PROVE  x \in T /\ g[T] = f[x] + g[T \ {x}]
    OBVIOUS
  <2>1. x \in T /\ T \ {x} \in SUBSET S
    OBVIOUS
  <2>2. g[T] = next[x][g[T \ {x}]] /\ g[T \ {x}] \in Nat
    BY <1>3, <2>1
  <2> QED BY <2>1, <2>2 DEF next
<1>5. P(g)
  <2> DEFINE h == [T \in SUBSET S |->
                     IF T = {} THEN 0
                     ELSE LET x == CHOOSE x \in T : TRUE IN f[x] + g[T \ {x}]]
  <2>1. \A T \in SUBSET S : g[T] = h[T]
    BY <1>3, <1>4
  <2>2. g = [T \in SUBSET S |-> g[T]] /\ h = [T \in SUBSET S |-> h[T]]
    OBVIOUS
  <2> QED BY <2>1, <2>2
<1>6. P(K)
  <2> HIDE DEF P
  <2> QED BY <1>5
<1> HIDE DEF K
<1>7. \A T \in SUBSET S : T # {} =>
        LET x == CHOOSE x \in T : TRUE IN x \in T /\ K[T] = f[x] + K[T \ {x}]
  BY <1>6
<1>8. K[{}] = 0
  BY <1>6
<1>9. \A T \in SUBSET S : K[T] = g[T]
  <2> DEFINE R == StrictSubsetOrdering(S)
             B == {T \in FiniteSubsetsOf(S) : K[T] # g[T]}
  <2>1. SUFFICES ASSUME B # {} PROVE FALSE
    BY FS_Subset DEF FiniteSubsetsOf
  <2>2. PICK T \in B : \A U \in B : <<U, T>> \notin R
    <3>1. IsWellFoundedOn(R, FiniteSubsetsOf(S)) /\ B \subseteq FiniteSubsetsOf(S)
      BY FS_StrictSubsetOrderingWellFounded
    <3> HIDE DEF B, R
    <3> QED BY <2>1, <3>1, WFMin
  <2>3. T \in SUBSET S /\ IsFiniteSet(T) /\ K[T] # g[T] /\ T # {}
    BY <1>3, <1>8 DEF FiniteSubsetsOf
  <2>4. PICK x : x \in T /\ K[T] = f[x] + K[T \ {x}] /\ g[T] = f[x] + g[T \ {x}]
    BY <1>4, <1>7, <2>3
  <2>5. T \ {x} \in FiniteSubsetsOf(S) /\ <<T \ {x}, T>> \in R
    BY <2>3, <2>4, FS_RemoveElement DEF FiniteSubsetsOf, StrictSubsetOrdering
  <2>6. K[T \ {x}] = g[T \ {x}]
    BY <2>2, <2>5
  <2> QED BY <2>3, <2>4, <2>6
<1>10. K[S] = g[S] /\ S \in SUBSET S
  BY <1>9
<1>11. \A T \in SUBSET S : T # {} => \E x \in T : g[T] = f[x] + g[T \ {x}]
  BY <1>4
<1> QED BY <1>1, <1>3, <1>10, <1>11 DEF PartialSums

\* A sum of bounded numbers is bounded.
LEMMA SumBound ==
  ASSUME NEW S, IsFiniteSet(S), NEW b \in Nat, NEW f \in [S -> Nat],
         \A x \in S : f[x] <= b
  PROVE  SumFunction(f) \in Nat /\ SumFunction(f) <= b * Cardinality(S)
<1>1. PICK g \in [SUBSET S -> Nat] :
        /\ SumFunction(f) = g[S] /\ g[{}] = 0
        /\ \A T \in SUBSET S : T # {} => \E x \in T : g[T] = f[x] + g[T \ {x}]
  <2>1. \E g \in PartialSums(f, S) : SumFunction(f) = g[S]
    BY SumIsFunction
  <2> QED BY <2>1 DEF PartialSums
<1> DEFINE R == StrictSubsetOrdering(S)
           B == {T \in FiniteSubsetsOf(S) : ~(g[T] <= b * Cardinality(T))}
<1>2. SUFFICES ASSUME B # {} PROVE FALSE
  <2>1. S \in FiniteSubsetsOf(S) /\ S \notin B
    BY <1>2, FS_Subset DEF FiniteSubsetsOf
  <2> QED BY <1>1, <2>1
<1>3. PICK T \in B : \A U \in B : <<U, T>> \notin R
  <2>1. IsWellFoundedOn(R, FiniteSubsetsOf(S)) /\ B \subseteq FiniteSubsetsOf(S)
    BY FS_StrictSubsetOrderingWellFounded
  <2> HIDE DEF B, R
  <2> QED BY <1>2, <2>1, WFMin
<1>4. T \in SUBSET S /\ IsFiniteSet(T) /\ ~(g[T] <= b * Cardinality(T)) /\ T # {}
  <2>1. T \in SUBSET S /\ IsFiniteSet(T) /\ ~(g[T] <= b * Cardinality(T))
    BY DEF FiniteSubsetsOf
  <2>2. g[{}] <= b * Cardinality({})
    BY <1>1, FS_EmptySet
  <2> QED BY <2>1, <2>2
<1>5. PICK x \in T : g[T] = f[x] + g[T \ {x}]
  BY <1>1, <1>4
<1>6. T \ {x} \in FiniteSubsetsOf(S) /\ <<T \ {x}, T>> \in R
  BY <1>4, FS_RemoveElement DEF FiniteSubsetsOf, StrictSubsetOrdering
<1>7. g[T \ {x}] <= b * Cardinality(T \ {x})
  BY <1>3, <1>6
<1>8. Cardinality(T) \in Nat /\ Cardinality(T \ {x}) = Cardinality(T) - 1
  BY <1>4, FS_RemoveElement, FS_CardinalityType
<1>9. g[T] \in Nat /\ g[T \ {x}] \in Nat /\ f[x] \in Nat /\ f[x] <= b
  BY <1>4, <1>6 DEF FiniteSubsetsOf
<1>10. ASSUME NEW m \in Nat, NEW n \in Int, n = m - 1 PROVE b * n = b * m - b
  BY <1>10
<1>11. b * Cardinality(T \ {x}) = b * Cardinality(T) - b
  BY <1>8, <1>10
<1> DEFINE c == b * Cardinality(T)
<1>12. c \in Int
  BY <1>8
<1> HIDE DEF c
<1>13. g[T \ {x}] <= c - b
  BY <1>7, <1>11 DEF c
<1>14. g[T] <= c
  BY <1>5, <1>9, <1>12, <1>13
<1> QED BY <1>4, <1>14 DEF c

\* A number that is at most a hundred times another is so many percent of it.
LEMMA DivBound ==
  ASSUME NEW s \in Nat, NEW d \in Nat, d # 0, s <= 100 * d
  PROVE  s \div d \in 0 .. 100
<1> DEFINE q == s \div d
<1>1. q \in Int /\ d * q <= s /\ s < d * q + d
  OBVIOUS
<1> HIDE DEF q
<1>2. ASSUME q < 0 PROVE FALSE
  BY <1>1, <1>2
<1>3. ASSUME q > 100 PROVE FALSE
  BY <1>1, <1>3
<1> QED BY <1>1, <1>2, <1>3 DEF q
=============================================================================
