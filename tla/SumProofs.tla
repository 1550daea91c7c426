------------------------------ MODULE SumProofs ------------------------------
(***************************************************************************)
(* Induction over numbers and over finite sets in a form whose parameter   *)
(* is a set, and with it what the sum of a function over a finite set is   *)
(* when the function or the set changes in one place.                      *)
(***************************************************************************)
EXTENDS Integers, FiniteSetTheorems, WellFoundedInduction, Functions, TLAPS

(* A set of numbers that is not empty has a least one.                     *)
LEMMA SmallestNat ==
    ASSUME NEW T, T \subseteq Nat, T # {}
    PROVE  \E n \in T : \A m \in T : n <= m
<1> DEFINE below == {0 .. (n - 1) : n \in T}
           R == StrictSubsetOrdering(Nat)
<1>1. below \subseteq FiniteSubsetsOf(Nat) /\ below # {}
  <2>1. \A n \in T : 0 .. (n - 1) \in SUBSET Nat /\ IsFiniteSet(0 .. (n - 1))
    BY FS_Interval
  <2> QED BY <2>1 DEF FiniteSubsetsOf
<1>2. IsWellFoundedOn(R, FiniteSubsetsOf(Nat))
  BY FS_StrictSubsetOrderingWellFounded
<1>3. PICK s \in below : \A t \in below : ~ (<<t, s>> \in R)
  <2> HIDE DEF below, R
  <2> QED BY <1>1, <1>2, WFMin
<1>4. PICK n \in T : s = 0 .. (n - 1)
  OBVIOUS
<1>5. ASSUME NEW m \in T, m < n
      PROVE  FALSE
  <2>1. <<0 .. (m - 1), 0 .. (n - 1)>> \in R
    <3>1. 0 .. (m - 1) \subseteq 0 .. (n - 1) /\ m \in 0 .. (n - 1) /\ m \notin 0 .. (m - 1)
      BY <1>5
    <3> QED BY <3>1 DEF StrictSubsetOrdering
  <2> QED BY <2>1, <1>3, <1>4
<1> QED BY <1>5

(* Induction over the numbers.                                             *)
LEMMA NumberInduction ==
    ASSUME NEW I, 0 \in I, \A n \in Nat : n \in I => n + 1 \in I
    PROVE  Nat \subseteq I
<1> SUFFICES ASSUME Nat \ I # {} PROVE FALSE
  OBVIOUS
<1>1. PICK n \in Nat \ I : \A m \in Nat \ I : n <= m
  BY SmallestNat
<1>2. n - 1 \in Nat /\ n - 1 \in I
  BY <1>1
<1> QED BY <1>1, <1>2

(* Induction over the subsets of a finite set.                             *)
LEMMA SubsetInduction ==
    ASSUME NEW S, IsFiniteSet(S), NEW I, {} \in I,
           \A T \in SUBSET S : (T # {} /\ \A x \in T : T \ {x} \in I) => T \in I
    PROVE  \A T \in SUBSET S : T \in I
<1> DEFINE bad == (SUBSET S) \ I
           R == StrictSubsetOrdering(S)
<1> SUFFICES ASSUME bad # {} PROVE FALSE
  OBVIOUS
<1>1. bad \subseteq FiniteSubsetsOf(S)
  BY FS_Subset DEF FiniteSubsetsOf
<1>2. IsWellFoundedOn(R, FiniteSubsetsOf(S))
  BY FS_StrictSubsetOrderingWellFounded
<1>3. PICK T \in bad : \A U \in bad : ~ (<<U, T>> \in R)
  <2> HIDE DEF bad, R
  <2> QED BY <1>1, <1>2, WFMin
<1>4. ASSUME NEW x \in T
      PROVE  T \ {x} \in I
  <2>1. <<T \ {x}, T>> \in R
    <3>1. T \ {x} \in SUBSET S /\ T \in SUBSET S /\ T \ {x} # T
      OBVIOUS
    <3> QED BY <3>1 DEF StrictSubsetOrdering
  <2> QED BY <2>1, <1>3
<1> QED BY <1>4

-----------------------------------------------------------------------------

\* The function a sum over S is defined by, one element at a time.
IsIter(g, f, S) ==
    g = [s \in SUBSET S |->
            IF s = {} THEN 0
            ELSE LET x == CHOOSE x \in s : TRUE IN f[x] + g[s \ {x}]]

(* There is such a function for every finite set.                          *)
LEMMA IterExists ==
    ASSUME NEW S, IsFiniteSet(S), NEW f
    PROVE  \E g : IsIter(g, f, S)
<1> DEFINE D(n) == {s \in SUBSET S : Cardinality(s) <= n}
           c(s) == CHOOSE x \in s : TRUE
           Part(g, n) == g = [s \in D(n) |-> IF s = {} THEN 0 ELSE f[c(s)] + g[s \ {c(s)}]]
           I == {n \in Nat : \E g : Part(g, n)}
<1>1. \A s \in SUBSET S : IsFiniteSet(s) /\ Cardinality(s) \in Nat
  BY FS_Subset, FS_CardinalityType
<1>2. 0 \in I
  <2>1. D(0) = {{}}
    <3>1. \A s \in D(0) : s = {}
      BY <1>1, FS_EmptySet
    <3>2. {} \in D(0)
      BY FS_EmptySet
    <3> QED BY <3>1, <3>2
  <2>2. Part([s \in {{}} |-> 0], 0)
    BY <2>1
  <2> QED BY <2>2
<1>3. ASSUME NEW n \in Nat, n \in I
      PROVE  n + 1 \in I
  <2>1. PICK g : Part(g, n)
    BY <1>3
  <2> DEFINE h == [s \in D(n + 1) |-> IF s = {} THEN 0 ELSE f[c(s)] + g[s \ {c(s)}]]
  <2>2. ASSUME NEW s \in D(n + 1), s # {}
        PROVE  h[s \ {c(s)}] = g[s \ {c(s)}]
    <3>1. c(s) \in s
      BY <2>2
    <3> DEFINE t == s \ {c(s)}
    <3>2. t \in D(n) /\ t \in D(n + 1)
      <4>1. Cardinality(t) = Cardinality(s) - 1
        <5> HIDE DEF c
        <5> QED BY <3>1, <1>1, FS_RemoveElement
      <4>2. Cardinality(s) \in Nat /\ Cardinality(s) <= n + 1 /\ t \in SUBSET S
        BY <1>1
      <4> HIDE DEF t
      <4> QED BY <4>1, <4>2
    <3>3. g[t] = IF t = {} THEN 0 ELSE f[c(t)] + g[t \ {c(t)}]
      <4> HIDE DEF t, c, D, h
      <4> QED BY <2>1, <3>2
    <3>4. h[t] = IF t = {} THEN 0 ELSE f[c(t)] + g[t \ {c(t)}]
      <4> HIDE DEF t, c, D
      <4> QED BY <3>2
    <3> QED BY <3>3, <3>4
  <2>3. Part(h, n + 1)
    <3>1. h = [s \in D(n + 1) |-> h[s]]
      OBVIOUS
    <3>2. ASSUME NEW s \in D(n + 1)
          PROVE  h[s] = IF s = {} THEN 0 ELSE f[c(s)] + h[s \ {c(s)}]
      <4>1. h[s] = IF s = {} THEN 0 ELSE f[c(s)] + g[s \ {c(s)}]
        <5> HIDE DEF D, c
        <5> QED OBVIOUS
      <4>2. s # {} => h[s \ {c(s)}] = g[s \ {c(s)}]
        BY <2>2
      <4> HIDE DEF h, c, D
      <4> QED BY <4>1, <4>2
    <3> HIDE DEF h, D, c
    <3> QED BY <3>1, <3>2
  <2> HIDE DEF h, Part
  <2> QED BY <2>3
<1>4. Cardinality(S) \in I
  <2> HIDE DEF I
  <2> QED BY <1>2, <1>3, <1>1, NumberInduction
<1>5. D(Cardinality(S)) = SUBSET S
  BY FS_Subset
<1>6. PICK g : Part(g, Cardinality(S))
  BY <1>4
<1>7. IsIter(g, f, S)
  <2> HIDE DEF D
  <2> QED BY <1>5, <1>6 DEF IsIter
<1> QED BY <1>7

(* The functions of two sets agree where both are defined.                 *)
LEMMA IterUnique ==
    ASSUME NEW S, IsFiniteSet(S), NEW T \in SUBSET S, NEW f, NEW g, NEW h,
           IsIter(g, f, S), IsIter(h, f, T)
    PROVE  \A U \in SUBSET T : g[U] = h[U]
<1> DEFINE I == {U \in SUBSET T : g[U] = h[U]}
           c(s) == CHOOSE x \in s : TRUE
<1>1. /\ \A s \in SUBSET S : g[s] = IF s = {} THEN 0 ELSE f[c(s)] + g[s \ {c(s)}]
      /\ \A s \in SUBSET T : h[s] = IF s = {} THEN 0 ELSE f[c(s)] + h[s \ {c(s)}]
  <2>1. g = [s \in SUBSET S |-> IF s = {} THEN 0 ELSE f[c(s)] + g[s \ {c(s)}]]
    BY DEF IsIter
  <2>2. h = [s \in SUBSET T |-> IF s = {} THEN 0 ELSE f[c(s)] + h[s \ {c(s)}]]
    BY DEF IsIter
  <2> HIDE DEF c
  <2> QED BY <2>1, <2>2
<1>2. {} \in I
  <2>1. {} \in SUBSET S /\ {} \in SUBSET T
    OBVIOUS
  <2> HIDE DEF c
  <2> QED BY <1>1, <2>1
<1>3. ASSUME NEW U \in SUBSET T, U # {}, \A x \in U : U \ {x} \in I
      PROVE  U \in I
  <2>1. c(U) \in U
    BY <1>3
  <2> HIDE DEF c
  <2>2. g[U \ {c(U)}] = h[U \ {c(U)}]
    BY <1>3, <2>1
  <2>3. U \in SUBSET S
    OBVIOUS
  <2> QED BY <1>1, <1>3, <2>2, <2>3
<1>4. IsFiniteSet(T)
  BY FS_Subset
<1>5. \A U \in SUBSET T : U \in I
  <2> HIDE DEF I
  <2> QED BY <1>2, <1>3, <1>4, SubsetInduction
<1> QED BY <1>5

(* A sum, one element at a time.                                           *)
LEMMA SumUnfolds ==
    ASSUME NEW S, IsFiniteSet(S), NEW f
    PROVE  SumFunctionOnSet(f, S) =
               IF S = {} THEN 0
               ELSE LET x == CHOOSE x \in S : TRUE
                    IN  f[x] + SumFunctionOnSet(f, S \ {x})
<1> DEFINE iter(T) == CHOOSE g : IsIter(g, f, T)
           c == CHOOSE x \in S : TRUE
<1>1. \A T : SumFunctionOnSet(f, T) = iter(T)[T]
  BY DEF SumFunctionOnSet, FoldFunctionOnSet, MapThenFoldSet, IsIter
<1>2. \A T \in SUBSET S : IsIter(iter(T), f, T)
  BY IterExists, FS_Subset
<1> HIDE DEF iter
<1>3. iter(S)[S] = IF S = {} THEN 0 ELSE f[c] + iter(S)[S \ {c}]
  <2>1. iter(S) = [s \in SUBSET S |->
                    IF s = {} THEN 0
                    ELSE LET x == CHOOSE x \in s : TRUE IN f[x] + iter(S)[s \ {x}]]
    BY <1>2 DEF IsIter
  <2>2. S \in SUBSET S
    OBVIOUS
  <2> QED BY <2>1, <2>2
<1>4. S \ {c} \in SUBSET S /\ S \in SUBSET S
  OBVIOUS
<1> HIDE DEF c
<1>5. iter(S)[S \ {c}] = iter(S \ {c})[S \ {c}]
  <2>1. IsIter(iter(S), f, S) /\ IsIter(iter(S \ {c}), f, S \ {c})
    BY <1>2, <1>4
  <2>2. S \ {c} \in SUBSET (S \ {c})
    OBVIOUS
  <2> QED BY <2>1, <2>2, <1>4, IterUnique
<1> QED BY <1>1, <1>3, <1>5 DEF c

(* A sum of numbers is a number, whichever element is taken out first.     *)
LEMMA SumFacts ==
    ASSUME NEW S, IsFiniteSet(S), NEW f, \A x \in S : f[x] \in Int
    PROVE  /\ SumFunctionOnSet(f, {}) = 0
           /\ \A T \in SUBSET S :
                /\ SumFunctionOnSet(f, T) \in Int
                /\ \A x \in T :
                    SumFunctionOnSet(f, T) = f[x] + SumFunctionOnSet(f, T \ {x})
<1> DEFINE sum(T) == SumFunctionOnSet(f, T)
           c(T) == CHOOSE x \in T : TRUE
           I == {T \in SUBSET S : /\ sum(T) \in Int
                                  /\ \A x \in T : sum(T) = f[x] + sum(T \ {x})}
<1>1. \A T \in SUBSET S : sum(T) = IF T = {} THEN 0 ELSE f[c(T)] + sum(T \ {c(T)})
  BY SumUnfolds, FS_Subset
<1>2. sum({}) = 0
  BY <1>1
<1> HIDE DEF sum
<1>3. \A T \in SUBSET S : sum(T) \in Int
  <2> DEFINE J == {T \in SUBSET S : sum(T) \in Int}
  <2>1. ASSUME NEW T \in SUBSET S, T # {}, \A x \in T : T \ {x} \in J
        PROVE  T \in J
    <3>1. c(T) \in T
      BY <2>1
    <3>2. sum(T) = f[c(T)] + sum(T \ {c(T)})
      BY <1>1, <2>1
    <3> HIDE DEF c
    <3> QED BY <2>1, <3>1, <3>2
  <2>2. {} \in J
    BY <1>2
  <2>3. \A T \in SUBSET S : T \in J
    <3> HIDE DEF J
    <3> QED BY <2>1, <2>2, SubsetInduction
  <2> QED BY <2>3
<1>4. ASSUME NEW T \in SUBSET S, T # {}, \A x \in T : T \ {x} \in I
      PROVE  T \in I
  <2>1. c(T) \in T
    BY <1>4
  <2>2. sum(T) = f[c(T)] + sum(T \ {c(T)})
    BY <1>1, <1>4
  <2> HIDE DEF c
  <2>3. ASSUME NEW x \in T, x # c(T)
        PROVE  sum(T) = f[x] + sum(T \ {x})
    <3> DEFINE U == T \ {x, c(T)}
    <3>1. (T \ {c(T)}) \ {x} = U /\ (T \ {x}) \ {c(T)} = U
      OBVIOUS
    <3>2. sum(T \ {c(T)}) = f[x] + sum(U)
      BY <1>4, <2>1, <2>3, <3>1
    <3>3. sum(T \ {x}) = f[c(T)] + sum(U)
      BY <1>4, <2>1, <2>3, <3>1
    <3>4. sum(U) \in Int /\ f[x] \in Int /\ f[c(T)] \in Int
      BY <1>3, <2>1
    <3> HIDE DEF U
    <3> QED BY <2>2, <3>2, <3>3, <3>4
  <2> QED BY <2>2, <2>3, <1>3
<1>5. \A T \in SUBSET S : T \in I
  <2>1. {} \in I
    BY <1>2
  <2> HIDE DEF I
  <2> QED BY <2>1, <1>4, SubsetInduction
<1> QED BY <1>2, <1>5 DEF sum

(* Two functions that agree on a set have the same sum over it.            *)
LEMMA SumOfEquals ==
    ASSUME NEW S, IsFiniteSet(S), NEW f, NEW g, \A x \in S : f[x] \in Int /\ g[x] = f[x]
    PROVE  SumFunctionOnSet(g, S) = SumFunctionOnSet(f, S)
<1> DEFINE I == {T \in SUBSET S : SumFunctionOnSet(g, T) = SumFunctionOnSet(f, T)}
<1>1. \A x \in S : f[x] \in Int /\ g[x] \in Int
  OBVIOUS
<1>2. /\ SumFunctionOnSet(f, {}) = 0 /\ SumFunctionOnSet(g, {}) = 0
      /\ \A T \in SUBSET S : \A x \in T :
            /\ SumFunctionOnSet(f, T) = f[x] + SumFunctionOnSet(f, T \ {x})
            /\ SumFunctionOnSet(g, T) = g[x] + SumFunctionOnSet(g, T \ {x})
  BY <1>1, SumFacts
<1>3. ASSUME NEW T \in SUBSET S, T # {}, \A x \in T : T \ {x} \in I
      PROVE  T \in I
  <2>1. PICK x \in T : TRUE
    BY <1>3
  <2>2. x \in S /\ g[x] = f[x] /\ SumFunctionOnSet(g, T \ {x}) = SumFunctionOnSet(f, T \ {x})
    BY <1>3, <2>1
  <2> QED BY <1>2, <2>1, <2>2
<1>4. {} \in I
  BY <1>2
<1>5. S \in SUBSET S
  OBVIOUS
<1>6. S \in I
  <2> HIDE DEF I
  <2> QED BY <1>3, <1>4, <1>5, SubsetInduction
<1> QED BY <1>6

(* Nothing but zeros.                                                      *)
LEMMA SumOfZeros ==
    ASSUME NEW S, IsFiniteSet(S), NEW f, \A x \in S : f[x] = 0
    PROVE  SumFunctionOnSet(f, S) = 0
<1> DEFINE I == {T \in SUBSET S : SumFunctionOnSet(f, T) = 0}
<1>1. /\ SumFunctionOnSet(f, {}) = 0
      /\ \A T \in SUBSET S : \A x \in T :
            SumFunctionOnSet(f, T) = f[x] + SumFunctionOnSet(f, T \ {x})
  BY SumFacts
<1>2. ASSUME NEW T \in SUBSET S, T # {}, \A x \in T : T \ {x} \in I
      PROVE  T \in I
  <2>1. PICK x \in T : TRUE
    BY <1>2
  <2>2. f[x] = 0 /\ SumFunctionOnSet(f, T \ {x}) = 0
    BY <1>2, <2>1
  <2> QED BY <1>1, <2>1, <2>2
<1>3. {} \in I /\ S \in SUBSET S
  BY <1>1
<1>4. S \in I
  <2> HIDE DEF I
  <2> QED BY <1>2, <1>3, SubsetInduction
<1> QED BY <1>4

(* A sum when one term changes.                                            *)
LEMMA SumChangesAt ==
    ASSUME NEW S, IsFiniteSet(S), NEW f, NEW g, NEW x \in S,
           \A y \in S : f[y] \in Int /\ g[y] \in Int,
           \A y \in S \ {x} : g[y] = f[y]
    PROVE  /\ SumFunctionOnSet(f, S) \in Int
           /\ SumFunctionOnSet(g, S) = SumFunctionOnSet(f, S) - f[x] + g[x]
<1>1. S \in SUBSET S /\ S \ {x} \in SUBSET S /\ IsFiniteSet(S \ {x})
  BY FS_Subset
<1>2. /\ SumFunctionOnSet(f, S) = f[x] + SumFunctionOnSet(f, S \ {x})
      /\ SumFunctionOnSet(g, S) = g[x] + SumFunctionOnSet(g, S \ {x})
      /\ SumFunctionOnSet(f, S \ {x}) \in Int
      /\ SumFunctionOnSet(f, S) \in Int
  BY <1>1, SumFacts
<1>3. SumFunctionOnSet(g, S \ {x}) = SumFunctionOnSet(f, S \ {x})
  BY <1>1, SumOfEquals
<1>4. f[x] \in Int /\ g[x] \in Int
  OBVIOUS
<1> QED BY <1>2, <1>3, <1>4

(* A sum over one more element.                                            *)
LEMMA SumOfOneMore ==
    ASSUME NEW S, IsFiniteSet(S), NEW x, x \notin S, NEW f,
           \A y \in S \cup {x} : f[y] \in Int
    PROVE  /\ SumFunctionOnSet(f, S) \in Int
           /\ SumFunctionOnSet(f, S \cup {x}) = SumFunctionOnSet(f, S) + f[x]
<1> DEFINE T == S \cup {x}
<1>1. IsFiniteSet(T) /\ T \in SUBSET T /\ S \in SUBSET T /\ T \ {x} = S /\ x \in T
  BY FS_AddElement
<1>2. SumFunctionOnSet(f, T) = f[x] + SumFunctionOnSet(f, T \ {x})
  BY <1>1, SumFacts
<1>3. SumFunctionOnSet(f, S) \in Int /\ f[x] \in Int
  BY <1>1, SumFacts
<1> HIDE DEF T
<1>4. SumFunctionOnSet(f, T) = SumFunctionOnSet(f, S) + f[x]
  <2>1. SumFunctionOnSet(f, T \ {x}) = SumFunctionOnSet(f, S)
    BY <1>1
  <2> QED BY <1>2, <1>3, <2>1
<1> QED BY <1>3, <1>4 DEF T

(* The sums of two functions add up to the sum of both.                    *)
LEMMA SumOfBoth ==
    ASSUME NEW S, IsFiniteSet(S), NEW f, NEW g, NEW h,
           \A x \in S : f[x] \in Int /\ g[x] \in Int /\ h[x] = f[x] + g[x]
    PROVE  /\ SumFunctionOnSet(f, S) \in Int /\ SumFunctionOnSet(g, S) \in Int
           /\ SumFunctionOnSet(h, S) = SumFunctionOnSet(f, S) + SumFunctionOnSet(g, S)
<1> DEFINE I == {T \in SUBSET S : SumFunctionOnSet(h, T) =
                                    SumFunctionOnSet(f, T) + SumFunctionOnSet(g, T)}
<1>1. \A x \in S : f[x] \in Int /\ g[x] \in Int /\ h[x] \in Int
  OBVIOUS
<1>2. /\ SumFunctionOnSet(f, {}) = 0 /\ SumFunctionOnSet(g, {}) = 0
      /\ SumFunctionOnSet(h, {}) = 0
      /\ \A T \in SUBSET S :
            /\ SumFunctionOnSet(f, T) \in Int /\ SumFunctionOnSet(g, T) \in Int
            /\ \A x \in T :
                /\ SumFunctionOnSet(f, T) = f[x] + SumFunctionOnSet(f, T \ {x})
                /\ SumFunctionOnSet(g, T) = g[x] + SumFunctionOnSet(g, T \ {x})
                /\ SumFunctionOnSet(h, T) = h[x] + SumFunctionOnSet(h, T \ {x})
  BY <1>1, SumFacts
<1>3. ASSUME NEW T \in SUBSET S, T # {}, \A x \in T : T \ {x} \in I
      PROVE  T \in I
  <2>1. PICK x \in T : TRUE
    BY <1>3
  <2>2. /\ x \in S /\ T \ {x} \in SUBSET S
        /\ SumFunctionOnSet(h, T \ {x}) =
                SumFunctionOnSet(f, T \ {x}) + SumFunctionOnSet(g, T \ {x})
    BY <1>3, <2>1
  <2>3. SumFunctionOnSet(h, T) = SumFunctionOnSet(f, T) + SumFunctionOnSet(g, T)
    <3>1. /\ SumFunctionOnSet(f, T) = f[x] + SumFunctionOnSet(f, T \ {x})
          /\ SumFunctionOnSet(g, T) = g[x] + SumFunctionOnSet(g, T \ {x})
          /\ SumFunctionOnSet(h, T) = h[x] + SumFunctionOnSet(h, T \ {x})
      BY <1>2, <2>1
    <3>2. /\ SumFunctionOnSet(f, T \ {x}) \in Int /\ SumFunctionOnSet(g, T \ {x}) \in Int
          /\ f[x] \in Int /\ g[x] \in Int /\ h[x] = f[x] + g[x]
      BY <1>2, <2>2
    <3> QED BY <2>2, <3>1, <3>2
  <2> QED BY <2>3
<1>4. {} \in I /\ S \in SUBSET S
  BY <1>2
<1>5. S \in I
  <2> HIDE DEF I
  <2> QED BY <1>3, <1>4, SubsetInduction
<1> QED BY <1>2, <1>4, <1>5

(* The same of SumFunction, whose set is the domain.                       *)
LEMMA SumFunctionChangesAt ==
    ASSUME NEW S, IsFiniteSet(S), NEW f, NEW g, DOMAIN f = S, DOMAIN g = S, NEW x \in S,
           \A y \in S : f[y] \in Int, \A y \in S : g[y] \in Int,
           \A y \in S : y # x => g[y] = f[y]
    PROVE  /\ SumFunction(f) \in Int
           /\ SumFunction(g) = SumFunction(f) - f[x] + g[x]
BY SumChangesAt DEF SumFunction

(* A sum of smaller terms is no larger.                                    *)
LEMMA SumOfSmaller ==
    ASSUME NEW S, IsFiniteSet(S), NEW f, NEW g, DOMAIN f = S, DOMAIN g = S,
           \A x \in S : f[x] \in Int, \A x \in S : g[x] \in Int,
           \A x \in S : f[x] <= g[x]
    PROVE  /\ SumFunction(f) \in Int /\ SumFunction(g) \in Int
           /\ SumFunction(f) <= SumFunction(g)
<1> DEFINE I == {T \in SUBSET S : SumFunctionOnSet(f, T) <= SumFunctionOnSet(g, T)}
<1>1. /\ SumFunctionOnSet(f, {}) = 0 /\ SumFunctionOnSet(g, {}) = 0
      /\ \A T \in SUBSET S :
            /\ SumFunctionOnSet(f, T) \in Int /\ SumFunctionOnSet(g, T) \in Int
            /\ \A x \in T :
                /\ SumFunctionOnSet(f, T) = f[x] + SumFunctionOnSet(f, T \ {x})
                /\ SumFunctionOnSet(g, T) = g[x] + SumFunctionOnSet(g, T \ {x})
  BY SumFacts
<1>2. ASSUME NEW T \in SUBSET S, T # {}, \A x \in T : T \ {x} \in I
      PROVE  T \in I
  <2>1. PICK x \in T : TRUE
    BY <1>2
  <2>2. /\ x \in S /\ T \ {x} \in SUBSET S
        /\ SumFunctionOnSet(f, T \ {x}) <= SumFunctionOnSet(g, T \ {x})
    BY <1>2, <2>1
  <2>3. /\ SumFunctionOnSet(f, T) = f[x] + SumFunctionOnSet(f, T \ {x})
        /\ SumFunctionOnSet(g, T) = g[x] + SumFunctionOnSet(g, T \ {x})
    BY <1>1, <2>1
  <2>4. /\ SumFunctionOnSet(f, T \ {x}) \in Int /\ SumFunctionOnSet(g, T \ {x}) \in Int
        /\ f[x] \in Int /\ g[x] \in Int /\ f[x] <= g[x]
    BY <1>1, <2>2
  <2>5. SumFunctionOnSet(f, T) <= SumFunctionOnSet(g, T)
    BY <2>2, <2>3, <2>4
  <2> QED BY <2>5
<1>3. {} \in I /\ S \in SUBSET S
  BY <1>1
<1>4. S \in I
  <2> HIDE DEF I
  <2> QED BY <1>2, <1>3, SubsetInduction
<1> QED BY <1>1, <1>3, <1>4 DEF SumFunction

(* The same number from everybody.                                         *)
LEMMA SumOfConstant ==
    ASSUME NEW S, IsFiniteSet(S), NEW n \in Nat, NEW f, DOMAIN f = S,
           \A x \in S : f[x] = n
    PROVE  SumFunction(f) = n * Cardinality(S)
<1> DEFINE I == {T \in SUBSET S : SumFunctionOnSet(f, T) = n * Cardinality(T)}
<1>1. /\ SumFunctionOnSet(f, {}) = 0
      /\ \A T \in SUBSET S : \A x \in T :
            SumFunctionOnSet(f, T) = f[x] + SumFunctionOnSet(f, T \ {x})
  BY SumFacts
<1>2. ASSUME NEW T \in SUBSET S, T # {}, \A x \in T : T \ {x} \in I
      PROVE  T \in I
  <2>1. PICK x \in T : TRUE
    BY <1>2
  <2>2. /\ f[x] = n
        /\ SumFunctionOnSet(f, T \ {x}) = n * Cardinality(T \ {x})
        /\ SumFunctionOnSet(f, T) = f[x] + SumFunctionOnSet(f, T \ {x})
    BY <1>1, <1>2, <2>1
  <2>3. /\ IsFiniteSet(T) /\ Cardinality(T) \in Nat
        /\ Cardinality(T \ {x}) = Cardinality(T) - 1
    <3>1. IsFiniteSet(T) /\ Cardinality(T) \in Nat
      BY FS_Subset, FS_CardinalityType
    <3> QED BY <3>1, <2>1, FS_RemoveElement
  <2>4. \A k \in Int : n + n * (k - 1) = n * k
    OBVIOUS
  <2>5. SumFunctionOnSet(f, T) = n * Cardinality(T)
    BY <2>2, <2>3, <2>4
  <2> QED BY <2>5
<1>3. {} \in I /\ S \in SUBSET S
  <2>1. n * 0 = 0 /\ Cardinality({}) = 0
    BY FS_EmptySet
  <2> QED BY <1>1, <2>1
<1>4. \A T \in SUBSET S : T \in I
  <2>1. {} \in I
    BY <1>3
  <2> HIDE DEF I
  <2> QED BY <1>2, <2>1, SubsetInduction
<1> QED BY <1>3, <1>4 DEF SumFunction
=============================================================================
