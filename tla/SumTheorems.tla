----------------------------- MODULE SumTheorems -----------------------------
(***************************************************************************)
(* Sums of a function over a finite set.  The community modules define     *)
(* them with a fold, that is with a recursive function over the subsets of *)
(* the set; here it is shown that the recursion has a solution, that the   *)
(* order of summation does not matter, and that the sizes of the classes a *)
(* set is sorted into add up to its size.  Induction is on the number of   *)
(* elements, as the existence of a least counterexample.                   *)
(***************************************************************************)
EXTENDS Integers, FiniteSets, Functions, FiniteSetTheorems, WellFoundedInduction,
        TLAPS

\* What a sum over s is, given the sums over the sets with one element less.
Unfolded(fun, g, s) ==
    IF s = {} THEN 0
              ELSE LET x == CHOOSE x \in s : TRUE IN fun[x] + g[s \ {x}]

\* g holds the sums of fun over the subsets of S.
IsSumOf(fun, S, g) == g = [s \in SUBSET S |-> Unfolded(fun, g, s)]

\* A set of numbers has a least one.
LEMMA LeastNumber ==
  ASSUME NEW T \in SUBSET Nat, T # {}
  PROVE  \E x \in T : \A y \in T : x <= y
<1>1. PICK x \in T : \A y \in T : ~ (<<y, x>> \in OpToRel(<, Nat))
  BY NatLessThanWellFounded, WFMin
<1>2. \A y \in T : ~ (y < x)
  BY <1>1 DEF OpToRel
<1> QED
  BY <1>2

\* A set with one element less.
LEMMA SmallerByOne ==
    ASSUME NEW S, IsFiniteSet(S), NEW x \in S
    PROVE  IsFiniteSet(S \ {x}) /\ Cardinality(S) = Cardinality(S \ {x}) + 1
           /\ Cardinality(S \ {x}) \in Nat
<1>1. IsFiniteSet(S \ {x}) /\ Cardinality(S \ {x}) = Cardinality(S) - 1
  BY FS_RemoveElement
<1>2. Cardinality(S) \in Nat /\ Cardinality(S \ {x}) \in Nat
  BY <1>1, FS_CardinalityType
<1> QED BY <1>1, <1>2

\* The recursion that defines a sum has a solution: one that holds for the sets
\* of at most n elements extends to those of n + 1.
LEMMA SumsExist ==
    ASSUME NEW fun, NEW S, IsFiniteSet(S)
    PROVE  \E g : IsSumOf(fun, S, g)
<1> DEFINE Upto(n, g) == g = [s \in SUBSET S |-> g[s]] /\ \A s \in SUBSET S :
                           Cardinality(s) <= n => g[s] = Unfolded(fun, g, s)
           Failing == {n \in Nat : ~ \E g : Upto(n, g)}
<1>1. \A s \in SUBSET S : IsFiniteSet(s) /\ Cardinality(s) \in Nat /\ Cardinality(s) <= Cardinality(S)
  BY FS_Subset, FS_CardinalityType
<1>2. \E g : Upto(0, g)
  <2> DEFINE g0 == [s \in SUBSET S |-> 0]
  <2>1. \A s \in SUBSET S : Cardinality(s) <= 0 => s = {}
    BY <1>1, FS_EmptySet
  <2>2. Upto(0, g0)
    BY <2>1 DEF Unfolded
  <2> QED BY <2>2
<1>3. ASSUME NEW n \in Nat, NEW g, Upto(n, g) PROVE \E h : Upto(n + 1, h)
  <2> DEFINE h == [s \in SUBSET S |-> IF Cardinality(s) <= n THEN g[s] ELSE Unfolded(fun, g, s)]
  <2>1. ASSUME NEW s \in SUBSET S, Cardinality(s) <= n + 1
        PROVE  h[s] = Unfolded(fun, h, s)
    <3>1. CASE s = {}
      BY <1>1, <1>3, <3>1, FS_EmptySet DEF Unfolded
    <3>2. CASE s # {}
      <4> DEFINE x == CHOOSE x \in s : TRUE
      <4>1. x \in s
        BY <3>2
      <4>2. s \ {x} \in SUBSET S /\ Cardinality(s \ {x}) <= n
        <5>1. \A y \in s : Cardinality(s) = Cardinality(s \ {y}) + 1 /\ Cardinality(s \ {y}) \in Nat
          BY <1>1, SmallerByOne
        <5> HIDE DEF x
        <5> QED BY <2>1, <4>1, <5>1
      <4>3. h[s \ {x}] = g[s \ {x}]
        BY <4>2
      <4>4. Unfolded(fun, h, s) = Unfolded(fun, g, s)
        BY <3>2, <4>3 DEF Unfolded
      <4>5. h[s] = Unfolded(fun, g, s)
        BY <1>3, <2>1
      <4> QED BY <4>4, <4>5
    <3> QED BY <3>1, <3>2
  <2>2. h = [s \in SUBSET S |-> h[s]]
    OBVIOUS
  <2> HIDE DEF h
  <2> QED BY <2>1, <2>2
<1> HIDE DEF Upto
<1>4. Failing = {}
  <2> SUFFICES ASSUME Failing # {} PROVE FALSE
    OBVIOUS
  <2>1. PICK n \in Failing : \A m \in Failing : n <= m
    BY LeastNumber
  <2>2. n # 0 /\ n \in Nat
    BY <1>2, <2>1
  <2>3. n - 1 \in Nat /\ n - 1 \notin Failing
    <3>1. n - 1 \in Nat /\ ~(n <= n - 1)
      BY <2>2
    <3> HIDE DEF Failing
    <3> QED BY <2>1, <3>1
  <2>4. PICK g : Upto(n - 1, g)
    BY <2>3
  <2>5. \E h : Upto((n - 1) + 1, h)
    BY <1>3, <2>3, <2>4
  <2>6. (n - 1) + 1 = n
    BY <2>2
  <2> QED BY <2>1, <2>5, <2>6
<1>5. PICK g : Upto(Cardinality(S), g)
  BY <1>4, FS_CardinalityType
<1> USE DEF Upto
<1>6. \A s \in SUBSET S : g[s] = Unfolded(fun, g, s)
  BY <1>1, <1>5
<1>7. g = [s \in SUBSET S |-> Unfolded(fun, g, s)]
  BY <1>5, <1>6
<1> QED BY <1>7 DEF IsSumOf

\* The library's sum is the value of such a recursion.
LEMMA SumIsOne ==
    ASSUME NEW fun, NEW S, IsFiniteSet(S)
    PROVE  \E g : IsSumOf(fun, S, g) /\ SumFunctionOnSet(fun, S) = g[S]
<1> DEFINE body(g) == [s \in SUBSET S |->
                         IF s = {} THEN 0
                         ELSE fun[CHOOSE x \in s : TRUE] + g[s \ {CHOOSE x \in s : TRUE}]]
           it == CHOOSE g : g = body(g)
<1>1. SumFunctionOnSet(fun, S) = it[S]
  BY DEF SumFunctionOnSet, FoldFunctionOnSet, MapThenFoldSet
<1>2. \A g : IsSumOf(fun, S, g) <=> g = body(g)
  BY DEF IsSumOf, Unfolded
<1> HIDE DEF body
<1>3. \E g : g = body(g)
  BY <1>2, SumsExist
<1>4. it = body(it)
  BY <1>3
<1> HIDE DEF it
<1> QED BY <1>1, <1>2, <1>4

\* Sums over the same elements of functions that agree on them are equal.
LEMMA SumsAgree ==
    ASSUME NEW fun, NEW other, NEW S, NEW T, IsFiniteSet(S), IsFiniteSet(T),
           NEW g, NEW h, IsSumOf(fun, S, g), IsSumOf(other, T, h),
           NEW s \in SUBSET S, s \in SUBSET T, \A x \in s : fun[x] = other[x] /\ fun[x] \in Int
    PROVE  g[s] = h[s] /\ g[s] \in Int
<1> DEFINE Differ == {n \in Nat : \E t \in SUBSET s : Cardinality(t) = n /\ ~ (g[t] = h[t] /\ g[t] \in Int)}
<1> SUFFICES Differ = {}
  BY FS_Subset, FS_CardinalityType
<1> SUFFICES ASSUME Differ # {} PROVE FALSE
  OBVIOUS
<1>1. PICK n \in Differ : \A m \in Differ : n <= m
  BY LeastNumber
<1>2. PICK t \in SUBSET s : Cardinality(t) = n /\ ~ (g[t] = h[t] /\ g[t] \in Int)
  BY <1>1
<1>3. t \in SUBSET S /\ t \in SUBSET T /\ IsFiniteSet(t)
  BY FS_Subset
<1>4. g[t] = Unfolded(fun, g, t) /\ h[t] = Unfolded(other, h, t)
  BY <1>3 DEF IsSumOf
<1>5. t # {}
  BY <1>2, <1>4 DEF Unfolded
<1> DEFINE x == CHOOSE x \in t : TRUE
<1>6. x \in t
  BY <1>5
<1>7. Cardinality(t \ {x}) \in Nat /\ Cardinality(t \ {x}) < n
  <2>1. \A y \in t : Cardinality(t \ {y}) \in Nat /\ Cardinality(t) = Cardinality(t \ {y}) + 1
    BY <1>3, SmallerByOne
  <2> HIDE DEF x
  <2> QED BY <1>2, <1>6, <2>1
<1>8. Cardinality(t \ {x}) \notin Differ
  BY <1>1, <1>7
<1>9. g[t \ {x}] = h[t \ {x}] /\ g[t \ {x}] \in Int
  BY <1>7, <1>8
<1>10. fun[x] = other[x] /\ fun[x] \in Int
  BY <1>6
<1>11. g[t] = fun[x] + g[t \ {x}] /\ h[t] = other[x] + h[t \ {x}]
  BY <1>4, <1>5 DEF Unfolded
<1> QED BY <1>2, <1>9, <1>10, <1>11

\* The sum depends on the summands alone, and it is an integer.
LEMMA SumOfSame ==
    ASSUME NEW fun, NEW other, NEW S, IsFiniteSet(S),
           \A x \in S : fun[x] = other[x] /\ fun[x] \in Int
    PROVE  /\ SumFunctionOnSet(fun, S) = SumFunctionOnSet(other, S)
           /\ SumFunctionOnSet(fun, S) \in Int
BY SumIsOne, SumsAgree

\* Nothing to sum up.
LEMMA SumOfNone ==
    ASSUME NEW fun
    PROVE  SumFunctionOnSet(fun, {}) = 0
<1>1. PICK g : IsSumOf(fun, {}, g) /\ SumFunctionOnSet(fun, {}) = g[{}]
  BY SumIsOne, FS_EmptySet
<1>2. g[{}] = 0
  BY <1>1 DEF IsSumOf, Unfolded
<1> QED BY <1>1, <1>2

\* Unfolding at the element the definition chooses.
LEMMA SumUnfolds ==
    ASSUME NEW fun, NEW S, IsFiniteSet(S), S # {}, \A x \in S : fun[x] \in Int
    PROVE  \E x \in S : SumFunctionOnSet(fun, S) = fun[x] + SumFunctionOnSet(fun, S \ {x})
<1> DEFINE x == CHOOSE x \in S : TRUE
<1>1. x \in S
  OBVIOUS
<1>2. PICK g : IsSumOf(fun, S, g) /\ SumFunctionOnSet(fun, S) = g[S]
  BY SumIsOne
<1>3. IsFiniteSet(S \ {x})
  BY <1>1, SmallerByOne
<1>4. PICK h : IsSumOf(fun, S \ {x}, h) /\ SumFunctionOnSet(fun, S \ {x}) = h[S \ {x}]
  BY <1>3, SumIsOne
<1>5. g[S \ {x}] = h[S \ {x}]
  BY <1>2, <1>3, <1>4, SumsAgree
<1>6. g[S] = fun[x] + g[S \ {x}]
  BY <1>2 DEF IsSumOf, Unfolded
<1> QED BY <1>1, <1>2, <1>4, <1>5, <1>6

\* The order of summation does not matter: any element can come off.
LEMMA SumWithout ==
    ASSUME NEW fun, NEW S, IsFiniteSet(S), NEW x \in S, \A y \in S : fun[y] \in Int
    PROVE  SumFunctionOnSet(fun, S) = fun[x] + SumFunctionOnSet(fun, S \ {x})
<1> DEFINE Right(s) == \A y \in s : SumFunctionOnSet(fun, s) = fun[y] + SumFunctionOnSet(fun, s \ {y})
           Wrong == {n \in Nat : \E s \in SUBSET S : Cardinality(s) = n /\ ~Right(s)}
<1> SUFFICES Wrong = {}
  BY FS_Subset, FS_CardinalityType
<1> SUFFICES ASSUME Wrong # {} PROVE FALSE
  OBVIOUS
<1>1. PICK n \in Wrong : \A m \in Wrong : n <= m
  BY LeastNumber
<1>2. PICK s \in SUBSET S : Cardinality(s) = n /\ ~Right(s)
  BY <1>1
<1>3. PICK y \in s : SumFunctionOnSet(fun, s) # fun[y] + SumFunctionOnSet(fun, s \ {y})
  BY <1>2
<1>4. IsFiniteSet(s)
  BY FS_Subset
<1>5. PICK c \in s : SumFunctionOnSet(fun, s) = fun[c] + SumFunctionOnSet(fun, s \ {c})
  BY <1>4, SumUnfolds
<1>6. c # y
  BY <1>3, <1>5
<1> DEFINE without == (s \ {c}) \ {y}
<1>7. \A z \in s : /\ IsFiniteSet(s \ {z})
                   /\ Cardinality(s \ {z}) \in Nat
                   /\ Cardinality(s \ {z}) < n
  <2>1. \A z \in s : /\ IsFiniteSet(s \ {z})
                     /\ Cardinality(s \ {z}) \in Nat
                     /\ Cardinality(s) = Cardinality(s \ {z}) + 1
    BY <1>4, SmallerByOne
  <2> QED BY <1>2, <2>1
<1>9. \A z \in s : Right(s \ {z})
  <2> SUFFICES ASSUME NEW z \in s PROVE Right(s \ {z})
    OBVIOUS
  <2> HIDE DEF Right
  <2>1. Cardinality(s \ {z}) \notin Wrong
    <3>1. ~(n <= Cardinality(s \ {z})) /\ n \in Nat
      BY <1>7
    <3> HIDE DEF Wrong
    <3> QED BY <1>1, <3>1
  <2>2. s \ {z} \in SUBSET S
    OBVIOUS
  <2> QED BY <1>7, <2>1, <2>2
<1>10. SumFunctionOnSet(fun, s \ {c}) = fun[y] + SumFunctionOnSet(fun, without)
  BY <1>3, <1>6, <1>9
<1>11. SumFunctionOnSet(fun, s \ {y}) = fun[c] + SumFunctionOnSet(fun, (s \ {y}) \ {c})
  BY <1>5, <1>6, <1>9
<1>12. (s \ {y}) \ {c} = without
  OBVIOUS
<1>13. SumFunctionOnSet(fun, without) \in Int /\ fun[c] \in Int /\ fun[y] \in Int
  <2>1. IsFiniteSet(without)
    BY <1>7, FS_Subset
  <2>2. \A z \in without : fun[z] \in Int
    OBVIOUS
  <2>3. SumFunctionOnSet(fun, without) \in Int
    BY <2>1, <2>2, SumOfSame
  <2> QED BY <2>3
<1>14. SumFunctionOnSet(fun, s) = fun[c] + (fun[y] + SumFunctionOnSet(fun, without))
  BY <1>5, <1>10
<1>15. SumFunctionOnSet(fun, s \ {y}) = fun[c] + SumFunctionOnSet(fun, without)
  BY <1>11, <1>12
<1>16. \A a, b, d \in Int : a + (b + d) = b + (a + d)
  OBVIOUS
<1> HIDE DEF without
<1> QED BY <1>3, <1>13, <1>14, <1>15, <1>16

\* One more summand.
LEMMA SumWith ==
    ASSUME NEW fun, NEW S, IsFiniteSet(S), NEW x, x \notin S,
           \A y \in S \cup {x} : fun[y] \in Int
    PROVE  SumFunctionOnSet(fun, S \cup {x}) = fun[x] + SumFunctionOnSet(fun, S)
<1>1. IsFiniteSet(S \cup {x}) /\ (S \cup {x}) \ {x} = S
  BY FS_AddElement
<1> QED BY <1>1, SumWithout

-----------------------------------------------------------------------------
\* A finite set has finitely many values under a function.
LEMMA FiniteImage ==
    ASSUME NEW S, IsFiniteSet(S), NEW fun
    PROVE  IsFiniteSet({fun[x] : x \in S})
<1> DEFINE values == {fun[x] : x \in S}
           onto == [x \in S |-> fun[x]]
<1>1. onto \in [S -> values] /\ \A v \in values : \E x \in S : onto[x] = v
  OBVIOUS
<1>2. onto \in Surjection(S, values)
  BY <1>1 DEF Surjection
<1> HIDE DEF onto, values
<1>3. IsFiniteSet(values)
  BY <1>2, FS_Surjection
<1> QED BY <1>3 DEF values

\* Sets without a common element count together.
LEMMA CardinalityOfParts ==
    ASSUME NEW S, IsFiniteSet(S), NEW P \in SUBSET S
    PROVE  /\ IsFiniteSet(P) /\ IsFiniteSet(S \ P)
           /\ Cardinality(S) = Cardinality(P) + Cardinality(S \ P)
           /\ Cardinality(P) \in Nat /\ Cardinality(S \ P) \in Nat
<1>1. IsFiniteSet(P) /\ IsFiniteSet(S \ P)
  BY FS_Subset
<1>2. P \cap (S \ P) = {} /\ P \cup (S \ P) = S
  OBVIOUS
<1>3. Cardinality(P) \in Nat /\ Cardinality(S \ P) \in Nat
  BY <1>1, FS_CardinalityType
<1>4. Cardinality(P \cup (S \ P)) = Cardinality(P) + Cardinality(S \ P) - Cardinality(P \cap (S \ P))
  BY <1>1, FS_Union
<1>5. Cardinality(P \cap (S \ P)) = 0
  BY <1>2, FS_EmptySet
<1>6. Cardinality(S) = Cardinality(P) + Cardinality(S \ P) - 0
  <2> DEFINE rest == S \ P
  <2>1. P \cup rest = S
    BY <1>2
  <2> HIDE DEF rest
  <2> QED BY <2>1, <1>4, <1>5
<1> QED BY <1>1, <1>3, <1>6

\* A set sorted into classes has as many elements as the classes together.
THEOREM SumOfClasses ==
    ASSUME NEW S, IsFiniteSet(S), NEW class, NEW T, IsFiniteSet(T),
           \A x \in S : class[x] \in T
    PROVE  SumFunctionOnSet([t \in T |-> Cardinality({x \in S : class[x] = t})], T)
             = Cardinality(S)
<1> DEFINE of(P, t) == {x \in P : class[x] = t}
           sizes == [t \in T |-> Cardinality(of(S, t))]
           Sorted(R) == {x \in S : class[x] \in R}
           Right(R) == SumFunctionOnSet(sizes, R) = Cardinality(Sorted(R))
           Wrong == {n \in Nat : \E R \in SUBSET T : Cardinality(R) = n /\ ~Right(R)}
<1> SUFFICES Wrong = {}
  <2>1. Right(T)
    BY FS_CardinalityType
  <2> QED BY <2>1
<1> SUFFICES ASSUME Wrong # {} PROVE FALSE
  OBVIOUS
<1>1. PICK n \in Wrong : \A m \in Wrong : n <= m
  BY LeastNumber
<1>2. PICK R \in SUBSET T : Cardinality(R) = n /\ ~Right(R)
  BY <1>1
<1>3. IsFiniteSet(R)
  BY FS_Subset
<1>4. R # {}
  <2> SUFFICES ASSUME R = {} PROVE FALSE
    OBVIOUS
  <2>1. Sorted(R) = {}
    OBVIOUS
  <2> QED BY <1>2, <2>1, SumOfNone, FS_EmptySet
<1>5. PICK t : t \in R
  BY <1>4
<1>6. Right(R \ {t})
  <2>1. Cardinality(R \ {t}) \in Nat /\ Cardinality(R) = Cardinality(R \ {t}) + 1
    BY <1>3, <1>5, SmallerByOne
  <2>2. ~(n <= Cardinality(R \ {t})) /\ R \ {t} \in SUBSET T
    BY <1>2, <2>1
  <2> HIDE DEF Right
  <2>3. ~Right(R \ {t}) => Cardinality(R \ {t}) \in Wrong
    BY <2>1, <2>2
  <2> HIDE DEF Wrong
  <2> QED BY <1>1, <2>2, <2>3
<1>7. \A r \in T : sizes[r] = Cardinality(of(S, r)) /\ sizes[r] \in Int
  <2> SUFFICES ASSUME NEW r \in T PROVE sizes[r] = Cardinality(of(S, r)) /\ sizes[r] \in Int
    OBVIOUS
  <2>1. sizes[r] = Cardinality(of(S, r))
    OBVIOUS
  <2>2. IsFiniteSet(of(S, r))
    BY FS_Subset
  <2>3. Cardinality(of(S, r)) \in Nat
    BY <2>2, FS_CardinalityType
  <2> HIDE DEF sizes, of
  <2> QED BY <2>1, <2>3
<1>8. SumFunctionOnSet(sizes, R) = sizes[t] + SumFunctionOnSet(sizes, R \ {t})
  <2> HIDE DEF sizes
  <2>1. \A y \in R : sizes[y] \in Int
    BY <1>7
  <2> QED BY <1>3, <1>5, <2>1, SumWithout
<1>9. Cardinality(Sorted(R)) = Cardinality(of(S, t)) + Cardinality(Sorted(R \ {t}))
  <2>1. of(S, t) \subseteq Sorted(R) /\ Sorted(R) \ of(S, t) = Sorted(R \ {t})
    BY <1>5
  <2>2. IsFiniteSet(Sorted(R))
    BY FS_Subset
  <2>3. Cardinality(Sorted(R)) = Cardinality(of(S, t)) + Cardinality(Sorted(R) \ of(S, t))
    <3> DEFINE all == Sorted(R)
               part == of(S, t)
    <3>1. IsFiniteSet(all) /\ part \in SUBSET all
      BY <2>1, <2>2
    <3> HIDE DEF all, part
    <3>2. Cardinality(all) = Cardinality(part) + Cardinality(all \ part)
      BY <3>1, CardinalityOfParts
    <3> USE DEF all, part
    <3> QED BY <3>2
  <2> HIDE DEF of, Sorted
  <2> QED BY <2>1, <2>3
<1> HIDE DEF sizes, of, Sorted
<1> QED BY <1>2, <1>5, <1>6, <1>7, <1>8, <1>9

\* Sums over sets without a common element add up.
LEMMA SumOfUnion ==
    ASSUME NEW fun, NEW S, NEW T, IsFiniteSet(S), IsFiniteSet(T), S \cap T = {},
           \A x \in S \cup T : fun[x] \in Int
    PROVE  SumFunctionOnSet(fun, S \cup T)
             = SumFunctionOnSet(fun, S) + SumFunctionOnSet(fun, T)
<1> DEFINE Right(R) == SumFunctionOnSet(fun, S \cup R)
                         = SumFunctionOnSet(fun, S) + SumFunctionOnSet(fun, R)
           Wrong == {n \in Nat : \E R \in SUBSET T : Cardinality(R) = n /\ ~Right(R)}
<1> SUFFICES Wrong = {}
  BY FS_CardinalityType
<1> SUFFICES ASSUME Wrong # {} PROVE FALSE
  OBVIOUS
<1>1. PICK n \in Wrong : \A m \in Wrong : n <= m
  BY LeastNumber
<1>2. PICK R \in SUBSET T : Cardinality(R) = n /\ ~Right(R)
  BY <1>1
<1>3. IsFiniteSet(R)
  BY FS_Subset
<1>4. SumFunctionOnSet(fun, S) \in Int
  BY SumOfSame
<1>5. R # {}
  <2> SUFFICES ASSUME R = {} PROVE FALSE
    OBVIOUS
  <2>1. S \cup R = S
    OBVIOUS
  <2> QED BY <1>2, <1>4, <2>1, SumOfNone
<1>6. PICK x : x \in R
  BY <1>5
<1> DEFINE less == R \ {x}
<1>7. Right(less)
  <2>1. Cardinality(less) \in Nat /\ Cardinality(R) = Cardinality(less) + 1
    BY <1>3, <1>6, SmallerByOne
  <2>2. ~(n <= Cardinality(less)) /\ less \in SUBSET T
    BY <1>2, <2>1
  <2> HIDE DEF Right, less
  <2>3. ~Right(less) => Cardinality(less) \in Wrong
    BY <2>1, <2>2
  <2> HIDE DEF Wrong
  <2> QED BY <1>1, <2>2, <2>3
<1>8. SumFunctionOnSet(fun, R) = fun[x] + SumFunctionOnSet(fun, less)
  BY <1>3, <1>6, SumWithout
<1>9. SumFunctionOnSet(fun, S \cup R) = fun[x] + SumFunctionOnSet(fun, S \cup less)
  <2>1. IsFiniteSet(S \cup R) /\ (S \cup R) \ {x} = S \cup less /\ x \in S \cup R
    BY <1>3, <1>6, FS_Union
  <2>2. \A y \in S \cup R : fun[y] \in Int
    OBVIOUS
  <2> HIDE DEF less
  <2> QED BY <2>1, <2>2, SumWithout
<1>10. SumFunctionOnSet(fun, less) \in Int /\ fun[x] \in Int
  <2>1. IsFiniteSet(less) /\ \A y \in less : fun[y] \in Int
    BY <1>3, FS_Subset
  <2>2. SumFunctionOnSet(fun, less) \in Int
    BY <2>1, SumOfSame
  <2> QED BY <1>6, <2>2
<1>11. \A a, b, d \in Int : a + (b + d) = b + (a + d)
  OBVIOUS
<1> HIDE DEF less
<1> QED BY <1>2, <1>4, <1>7, <1>8, <1>9, <1>10, <1>11

\* The next summand of an interval.
LEMMA SumToNext ==
    ASSUME NEW fun, NEW m \in Int, NEW n \in Int, m <= n + 1,
           \A k \in m .. n + 1 : fun[k] \in Int
    PROVE  SumFunctionOnSet(fun, m .. n + 1) = SumFunctionOnSet(fun, m .. n) + fun[n + 1]
<1>1. IsFiniteSet(m .. n) /\ (m .. n) \cup {n + 1} = m .. n + 1 /\ n + 1 \notin m .. n
  BY FS_Interval
<1>2. SumFunctionOnSet(fun, (m .. n) \cup {n + 1}) = fun[n + 1] + SumFunctionOnSet(fun, m .. n)
  BY <1>1, SumWith
<1>3. SumFunctionOnSet(fun, m .. n) \in Int /\ fun[n + 1] \in Int
  BY <1>1, SumOfSame
<1>4. SumFunctionOnSet(fun, m .. n + 1) = fun[n + 1] + SumFunctionOnSet(fun, m .. n)
  BY <1>1, <1>2
<1> QED BY <1>3, <1>4

\* Numbering the summands differently does not change the sum.
LEMMA SumShifted ==
    ASSUME NEW fun, NEW other, NEW d \in Int, NEW n \in Nat,
           \A k \in 1 .. n : fun[k] = other[d + k] /\ fun[k] \in Int
    PROVE  SumFunctionOnSet(fun, 1 .. n) = SumFunctionOnSet(other, d + 1 .. d + n)
<1> DEFINE Right(m) == SumFunctionOnSet(fun, 1 .. m) = SumFunctionOnSet(other, d + 1 .. d + m)
           Wrong == {m \in 0 .. n : ~Right(m)}
<1> SUFFICES Wrong = {}
  OBVIOUS
<1> SUFFICES ASSUME Wrong # {} PROVE FALSE
  OBVIOUS
<1>1. PICK m \in Wrong : \A k \in Wrong : m <= k
  <2>1. Wrong \in SUBSET Nat
    OBVIOUS
  <2> HIDE DEF Wrong
  <2> QED BY <2>1, LeastNumber
<1>2. m # 0
  <2> SUFFICES ASSUME m = 0 PROVE FALSE
    OBVIOUS
  <2>1. 1 .. m = {} /\ d + 1 .. d + m = {}
    OBVIOUS
  <2> QED BY <2>1, SumOfNone
<1>3. m - 1 \in 0 .. n /\ ~(m <= m - 1) /\ m \in 1 .. n
  BY <1>2
<1>4. Right(m - 1)
  <2> HIDE DEF Right
  <2>1. ~Right(m - 1) => m - 1 \in Wrong
    BY <1>3
  <2> QED BY <1>1, <1>3, <2>1
<1>5. SumFunctionOnSet(fun, 1 .. m) = SumFunctionOnSet(fun, 1 .. m - 1) + fun[m]
  <2>1. m - 1 \in Int /\ 1 <= (m - 1) + 1 /\ (m - 1) + 1 = m /\ \A k \in 1 .. m : fun[k] \in Int
    BY <1>3
  <2>2. SumFunctionOnSet(fun, 1 .. (m - 1) + 1) = SumFunctionOnSet(fun, 1 .. m - 1) + fun[(m - 1) + 1]
    BY <2>1, SumToNext
  <2> QED BY <2>1, <2>2
<1>6. SumFunctionOnSet(other, d + 1 .. d + m)
        = SumFunctionOnSet(other, d + 1 .. d + (m - 1)) + other[d + m]
  <2> DEFINE e == d + (m - 1)
  <2>1. e \in Int /\ d + 1 \in Int /\ d + 1 <= e + 1 /\ e + 1 = d + m
    BY <1>3
  <2>2. ASSUME NEW k \in d + 1 .. e + 1 PROVE other[k] \in Int
    <3>1. k - d \in 1 .. n /\ d + (k - d) = k
      BY <1>3
    <3> QED BY <3>1
  <2> HIDE DEF e
  <2>3. SumFunctionOnSet(other, d + 1 .. e + 1)
          = SumFunctionOnSet(other, d + 1 .. e) + other[e + 1]
    BY <2>1, <2>2, SumToNext
  <2> QED BY <2>1, <2>3 DEF e
<1>7. fun[m] = other[d + m]
  BY <1>3
<1> QED BY <1>1, <1>4, <1>5, <1>6, <1>7

\* A sum of numbers that are not negative is not negative.
LEMMA SumIsNatural ==
    ASSUME NEW fun, NEW S, IsFiniteSet(S), \A x \in S : fun[x] \in Nat
    PROVE  SumFunctionOnSet(fun, S) \in Nat
<1> DEFINE Right(R) == SumFunctionOnSet(fun, R) \in Nat
           Wrong == {n \in Nat : \E R \in SUBSET S : Cardinality(R) = n /\ ~Right(R)}
<1> SUFFICES Wrong = {}
  BY FS_CardinalityType
<1> SUFFICES ASSUME Wrong # {} PROVE FALSE
  OBVIOUS
<1>1. PICK n \in Wrong : \A m \in Wrong : n <= m
  BY LeastNumber
<1>2. PICK R \in SUBSET S : Cardinality(R) = n /\ ~Right(R)
  BY <1>1
<1>3. IsFiniteSet(R)
  BY FS_Subset
<1>4. R # {}
  BY <1>2, SumOfNone
<1>5. PICK x : x \in R
  BY <1>4
<1> DEFINE less == R \ {x}
<1>6. Right(less)
  <2>1. Cardinality(less) \in Nat /\ Cardinality(R) = Cardinality(less) + 1
    BY <1>3, <1>5, SmallerByOne
  <2>2. ~(n <= Cardinality(less)) /\ less \in SUBSET S
    BY <1>2, <2>1
  <2> HIDE DEF Right, less
  <2>3. ~Right(less) => Cardinality(less) \in Wrong
    BY <2>1, <2>2
  <2> HIDE DEF Wrong
  <2> QED BY <1>1, <2>2, <2>3
<1>7. SumFunctionOnSet(fun, R) = fun[x] + SumFunctionOnSet(fun, less)
  <2>1. \A y \in R : fun[y] \in Int
    OBVIOUS
  <2> QED BY <1>3, <1>5, <2>1, SumWithout
<1> HIDE DEF less
<1> QED BY <1>2, <1>5, <1>6, <1>7
=============================================================================
