------------------------------- MODULE SumProofs -------------------------------
(***************************************************************************)
(* What the proofs need to know of SumFunctionOnSet and SumFunction, the   *)
(* sums of the amounts of trades, orders and users in the models.  The     *)
(* induction is over the cardinality of the set, by the least number that  *)
(* a set of numbers lacks.                                                 *)
(***************************************************************************)
EXTENDS Functions, FiniteSetTheorems, TLAPS

SumChosen(s) == CHOOSE x \in s : TRUE
IsSum(g, f, S) ==
    g = [s \in SUBSET S |-> IF s = {} THEN 0 ELSE f[SumChosen(s)] + g[s \ {SumChosen(s)}]]

\* The sum is what its recursive function has at the whole set.
LEMMA SumIs ==
    ASSUME NEW f, NEW S
    PROVE  SumFunctionOnSet(f, S) = (CHOOSE g : IsSum(g, f, S))[S]
  BY DEF SumFunctionOnSet, FoldFunctionOnSet, MapThenFoldSet, IsSum, SumChosen

\* Induction over the natural numbers, for a set of numbers.
LEMMA NatSetInduction ==
    ASSUME NEW Q, 0 \in Q, \A n \in Nat : n \in Q => n + 1 \in Q
    PROVE  Nat \subseteq Q
<1>1. SUFFICES ASSUME Nat \ Q # {} PROVE FALSE
  OBVIOUS
<1>2. PICK m \in Nat \ Q : \A k \in Nat \ Q : <<k, m>> \notin OpToRel(<, Nat)
  BY <1>1, NatLessThanWellFounded, WFMin
<1>3. m - 1 \in Nat \ Q
  <2>1. m # 0
    BY <1>2
  <2>2. m - 1 \in Nat /\ m = (m - 1) + 1
    BY <2>1
  <2> QED
    BY <1>2, <2>2
<1>4. <<m - 1, m>> \in OpToRel(<, Nat)
  BY <1>2, <1>3 DEF OpToRel
<1> QED
  BY <1>2, <1>3, <1>4

\* Induction over the finite sets: what holds of the empty set and stays true
\* when an element is added holds of each subset of a finite set.
LEMMA SetInduction ==
    ASSUME NEW S, IsFiniteSet(S), NEW Q, {} \in Q,
           \A T \in SUBSET S : \A x \in S \ T : T \in Q => T \cup {x} \in Q
    PROVE  S \in Q
<1> DEFINE Reached == {n \in Nat : \A T \in SUBSET S : Cardinality(T) = n => T \in Q}
<1>1. \A T \in SUBSET S : IsFiniteSet(T) /\ Cardinality(T) \in Nat
  BY FS_Subset, FS_CardinalityType
<1>2. 0 \in Reached
  BY <1>1, FS_EmptySet
<1>3. ASSUME NEW n \in Nat, n \in Reached
      PROVE  n + 1 \in Reached
  <2>1. SUFFICES ASSUME NEW T \in SUBSET S, Cardinality(T) = n + 1
                 PROVE  T \in Q
    OBVIOUS
  <2>2. T # {}
    <3>1. Cardinality({}) = 0 /\ n + 1 # 0
      BY FS_EmptySet
    <3> QED
      BY <2>1, <3>1
  <2>3. PICK x : x \in T
    BY <2>2
  <2>4. Cardinality(T \ {x}) = n
    <3>1. Cardinality(T \ {x}) = Cardinality(T) - 1
      BY <1>1, <2>3, FS_RemoveElement
    <3> QED
      BY <2>1, <3>1
  <2>5. T \ {x} \in Q
    BY <1>3, <2>4
  <2>6. (T \ {x}) \cup {x} = T
    BY <2>3
  <2> QED
    BY <2>3, <2>5, <2>6
<1>4. Nat \subseteq Reached
  <2> HIDE DEF Reached
  <2> QED
    BY <1>2, <1>3, NatSetInduction
<1> QED
  BY <1>1, <1>4

(***************************************************************************)
(* The recursive function exists: one for the subsets of at most n         *)
(* elements is extended to those of n + 1.                                 *)
(***************************************************************************)
SumIntOn(f, S) == \A x \in S : f[x] \in Int
SumSmall(S, n) == {s \in SUBSET S : Cardinality(s) =< n}
SumStep(g, f, s) == IF s = {} THEN 0 ELSE f[SumChosen(s)] + g[s \ {SumChosen(s)}]

\* A choice from a set that is not empty, and what is left of the set.
LEMMA ChosenSmaller ==
    ASSUME NEW S, IsFiniteSet(S), NEW n \in Nat,
           NEW s \in SUBSET S, s # {}, Cardinality(s) =< n + 1
    PROVE  /\ SumChosen(s) \in s
           /\ s \ {SumChosen(s)} \in SumSmall(S, n)
<1>1. SumChosen(s) \in s
  BY DEF SumChosen
<1>2. IsFiniteSet(s) /\ Cardinality(s) \in Nat
  BY FS_Subset, FS_CardinalityType
<1>3. Cardinality(s \ {SumChosen(s)}) = Cardinality(s) - 1
  BY <1>1, <1>2, FS_RemoveElement
<1> QED
  BY <1>1, <1>2, <1>3 DEF SumSmall

\* There is a function that is the sum of f on the subsets of at most n elements.
LEMMA SumOnSmall ==
    ASSUME NEW f, NEW S, IsFiniteSet(S)
    PROVE  \A n \in Nat : \E g : \A s \in SumSmall(S, n) : g[s] = SumStep(g, f, s)
<1> DEFINE Reached == {n \in Nat : \E g : \A s \in SumSmall(S, n) : g[s] = SumStep(g, f, s)}
<1>1. \A s \in SUBSET S : IsFiniteSet(s) /\ Cardinality(s) \in Nat
  BY FS_Subset, FS_CardinalityType
<1>2. 0 \in Reached
  <2>1. SumSmall(S, 0) = {{}}
    BY <1>1, FS_EmptySet DEF SumSmall
  <2>2. \A s \in SumSmall(S, 0) : [t \in {{}} |-> 0][s] = SumStep([t \in {{}} |-> 0], f, s)
    BY <2>1 DEF SumStep
  <2> QED
    BY <2>2
<1>3. ASSUME NEW n \in Nat, n \in Reached
      PROVE  n + 1 \in Reached
  <2>1. PICK g : \A s \in SumSmall(S, n) : g[s] = SumStep(g, f, s)
    BY <1>3
  <2> DEFINE h == [s \in SumSmall(S, n + 1) |-> SumStep(g, f, s)]
  <2>2. \A s \in SumSmall(S, n) : s \in SumSmall(S, n + 1) /\ h[s] = g[s]
    BY <1>1, <2>1 DEF SumSmall
  <2>3. ASSUME NEW s \in SumSmall(S, n + 1)
        PROVE  h[s] = SumStep(h, f, s)
    <3>1. CASE s = {}
      BY <3>1 DEF SumStep
    <3>2. CASE s # {}
      <4>1. s \ {SumChosen(s)} \in SumSmall(S, n)
        BY <3>2, ChosenSmaller DEF SumSmall
      <4>2. h[s \ {SumChosen(s)}] = g[s \ {SumChosen(s)}]
        BY <2>2, <4>1
      <4> QED
        BY <3>2, <4>2 DEF SumStep
    <3> QED
      BY <3>1, <3>2
  <2> HIDE DEF h
  <2> QED
    BY <2>3
<1>4. Nat \subseteq Reached
  <2> HIDE DEF Reached
  <2> QED
    BY <1>2, <1>3, NatSetInduction
<1> QED
  BY <1>4

TheSum(f, S) == CHOOSE g : IsSum(g, f, S)

\* So the recursive function of a sum over a finite set obeys its definition.
LEMMA SumsStep ==
    ASSUME NEW f, NEW S, IsFiniteSet(S)
    PROVE  \A s \in SUBSET S : TheSum(f, S)[s] = SumStep(TheSum(f, S), f, s)
<1>1. Cardinality(S) \in Nat /\ \A s \in SUBSET S : Cardinality(s) =< Cardinality(S)
  BY FS_Subset, FS_CardinalityType
<1>2. SumSmall(S, Cardinality(S)) = SUBSET S
  BY <1>1 DEF SumSmall
<1>3. PICK g : \A s \in SUBSET S : g[s] = SumStep(g, f, s)
  <2>1. \E g : \A s \in SumSmall(S, Cardinality(S)) : g[s] = SumStep(g, f, s)
    BY <1>1, SumOnSmall
  <2> QED
    BY <1>2, <2>1
<1> DEFINE h == [s \in SUBSET S |-> g[s]]
<1>4. \A s \in SUBSET S : h[s] = SumStep(h, f, s)
  BY <1>3 DEF SumStep
<1>5. IsSum(h, f, S)
  <2>1. h = [s \in SUBSET S |-> h[s]]
    OBVIOUS
  <2> HIDE DEF h
  <2> QED
    BY <1>4, <2>1 DEF IsSum, SumStep
<1>6. IsSum(TheSum(f, S), f, S)
  <2> HIDE DEF h
  <2> QED
    BY <1>5 DEF TheSum
<1> QED
  BY <1>6 DEF IsSum, SumStep

\* Induction over the number of elements of the subsets of a finite set.
LEMMA SizeInduction ==
    ASSUME NEW S, IsFiniteSet(S), NEW Q, {} \in Q,
           \A s \in SUBSET S :
              s # {} /\ (\A x \in s : s \ {x} \in Q) => s \in Q
    PROVE  SUBSET S \subseteq Q
<1> DEFINE Reached == {n \in Nat : \A s \in SUBSET S : Cardinality(s) = n => s \in Q}
<1>1. \A s \in SUBSET S : IsFiniteSet(s) /\ Cardinality(s) \in Nat
  BY FS_Subset, FS_CardinalityType
<1>2. 0 \in Reached
  BY <1>1, FS_EmptySet
<1>3. ASSUME NEW n \in Nat, n \in Reached
      PROVE  n + 1 \in Reached
  <2>1. SUFFICES ASSUME NEW s \in SUBSET S, Cardinality(s) = n + 1
                 PROVE  s \in Q
    OBVIOUS
  <2>2. s # {}
    <3>1. Cardinality({}) = 0 /\ n + 1 # 0
      BY FS_EmptySet
    <3> QED
      BY <2>1, <3>1
  <2>3. ASSUME NEW x \in s
        PROVE  s \ {x} \in Q
    <3>1. Cardinality(s \ {x}) = Cardinality(s) - 1
      BY <1>1, <2>3, FS_RemoveElement
    <3>2. Cardinality(s \ {x}) = n
      BY <2>1, <3>1
    <3> QED
      BY <1>3, <3>2
  <2> QED
    BY <2>2, <2>3
<1>4. Nat \subseteq Reached
  <2> HIDE DEF Reached
  <2> QED
    BY <1>2, <1>3, NatSetInduction
<1> QED
  BY <1>1, <1>4

\* Two functions that obey the definition for the same amounts are equal.
LEMMA StepsAgree ==
    ASSUME NEW S, IsFiniteSet(S), NEW f, NEW g, NEW a, NEW b,
           \A x \in S : f[x] = g[x],
           \A s \in SUBSET S : a[s] = SumStep(a, f, s) /\ b[s] = SumStep(b, g, s)
    PROVE  a[S] = b[S]
<1> DEFINE Q == {s \in SUBSET S : a[s] = b[s]}
<1>1. {} \in Q
  BY DEF SumStep
<1>2. ASSUME NEW s \in SUBSET S, s # {}, \A x \in s : s \ {x} \in Q
      PROVE  s \in Q
  <2>1. SumChosen(s) \in s
    BY <1>2 DEF SumChosen
  <2>2. a[s \ {SumChosen(s)}] = b[s \ {SumChosen(s)}] /\ f[SumChosen(s)] = g[SumChosen(s)]
    BY <1>2, <2>1
  <2> QED
    BY <1>2, <2>2 DEF SumStep
<1>3. SUBSET S \subseteq Q
  <2> HIDE DEF Q
  <2> QED
    BY <1>1, <1>2, SizeInduction
<1> QED
  BY <1>3

\* A sum of integers is an integer.
LEMMA StepsInt ==
    ASSUME NEW S, IsFiniteSet(S), NEW f, SumIntOn(f, S), NEW a,
           \A s \in SUBSET S : a[s] = SumStep(a, f, s)
    PROVE  \A s \in SUBSET S : a[s] \in Int
<1> DEFINE Q == {s \in SUBSET S : a[s] \in Int}
<1>1. {} \in Q
  <2>1. a[{}] = SumStep(a, f, {})
    OBVIOUS
  <2> QED
    BY <2>1 DEF SumStep
<1>2. ASSUME NEW s \in SUBSET S, s # {}, \A x \in s : s \ {x} \in Q
      PROVE  s \in Q
  <2>1. PICK c \in s : c = SumChosen(s)
    BY <1>2 DEF SumChosen
  <2>2. a[s] = f[c] + a[s \ {c}]
    BY <1>2, <2>1 DEF SumStep
  <2>3. f[c] \in Int /\ a[s \ {c}] \in Int
    BY <1>2 DEF SumIntOn
  <2> QED
    BY <2>2, <2>3
<1>3. SUBSET S \subseteq Q
  <2> HIDE DEF Q
  <2> QED
    BY <1>1, <1>2, SizeInduction
<1> QED
  BY <1>3

\* Which element a sum starts with does not matter.
LEMMA AnyOrder ==
    ASSUME NEW S, IsFiniteSet(S), NEW f, SumIntOn(f, S), NEW a,
           \A s \in SUBSET S : a[s] = SumStep(a, f, s)
    PROVE  \A s \in SUBSET S : \A x \in s : a[s] = f[x] + a[s \ {x}]
<1> DEFINE Q == {s \in SUBSET S : \A x \in s : a[s] = f[x] + a[s \ {x}]}
<1>1. {} \in Q
  OBVIOUS
<1>2. ASSUME NEW s \in SUBSET S, s # {}, \A x \in s : s \ {x} \in Q
      PROVE  s \in Q
  <2>1. PICK c \in s : c = SumChosen(s)
    BY <1>2 DEF SumChosen
  <2>2. a[s] = f[c] + a[s \ {c}]
    BY <1>2, <2>1 DEF SumStep
  <2>3. \A t \in SUBSET S : a[t] \in Int
    BY StepsInt
  <2>4. ASSUME NEW x \in s, x # c
        PROVE  a[s] = f[x] + a[s \ {x}]
    <3>1. a[s \ {c}] = f[x] + a[(s \ {c}) \ {x}]
      BY <1>2, <2>4
    <3>2. a[s \ {x}] = f[c] + a[(s \ {x}) \ {c}]
      BY <1>2, <2>4
    <3>3. (s \ {c}) \ {x} = (s \ {x}) \ {c}
      OBVIOUS
    <3>4. PICK rest \in Int : rest = a[(s \ {c}) \ {x}]
      BY <2>3
    <3>5. f[x] \in Int /\ f[c] \in Int
      BY DEF SumIntOn
    <3>6. a[s \ {c}] = f[x] + rest /\ a[s \ {x}] = f[c] + rest
      BY <3>1, <3>2, <3>3, <3>4
    <3>7. f[c] + (f[x] + rest) = f[x] + (f[c] + rest)
      BY <3>4, <3>5
    <3> QED
      BY <2>2, <3>6, <3>7
  <2> QED
    BY <2>2, <2>4
<1>3. SUBSET S \subseteq Q
  <2> HIDE DEF Q
  <2> QED
    BY <1>1, <1>2, SizeInduction
<1> QED
  BY <1>3

(***************************************************************************)
(* What the other proofs cite: the sum of f over a finite set S.           *)
(***************************************************************************)
\* The sum over no elements is 0.
LEMMA SumEmpty ==
    ASSUME NEW f
    PROVE  SumFunctionOnSet(f, {}) = 0
<1>1. TheSum(f, {})[{}] = SumStep(TheSum(f, {}), f, {})
  BY SumsStep, FS_EmptySet
<1> QED
  BY <1>1, SumIs DEF TheSum, SumStep

\* A sum of integers is an integer.
LEMMA SumInt ==
    ASSUME NEW S, IsFiniteSet(S), NEW f, \A x \in S : f[x] \in Int
    PROVE  SumFunctionOnSet(f, S) \in Int
BY SumIs, SumsStep, StepsInt DEF TheSum, SumIntOn

\* Only the amounts at the elements of the set matter.
LEMMA SumSame ==
    ASSUME NEW S, IsFiniteSet(S), NEW f, NEW g, \A x \in S : f[x] = g[x]
    PROVE  SumFunctionOnSet(f, S) = SumFunctionOnSet(g, S)
<1>1. \A s \in SUBSET S :
         TheSum(f, S)[s] = SumStep(TheSum(f, S), f, s) /\ TheSum(g, S)[s] = SumStep(TheSum(g, S), g, s)
  BY SumsStep
<1>2. TheSum(f, S)[S] = TheSum(g, S)[S]
  BY <1>1, StepsAgree
<1> QED
  BY <1>2, SumIs DEF TheSum

\* One element is taken out of a sum.
LEMMA SumRemove ==
    ASSUME NEW S, IsFiniteSet(S), NEW f, \A y \in S : f[y] \in Int, NEW x \in S
    PROVE  SumFunctionOnSet(f, S) = f[x] + SumFunctionOnSet(f, S \ {x})
<1> DEFINE T == S \ {x}
<1>1. \A s \in SUBSET S : TheSum(f, S)[s] = SumStep(TheSum(f, S), f, s)
  BY SumsStep
<1>2. TheSum(f, S)[S] = f[x] + TheSum(f, S)[T]
  BY <1>1, AnyOrder DEF SumIntOn
<1>3. IsFiniteSet(T)
  BY FS_Subset
<1>4. \A s \in SUBSET T : TheSum(f, T)[s] = SumStep(TheSum(f, T), f, s)
  BY <1>3, SumsStep
<1>5. \A s \in SUBSET T : TheSum(f, S)[s] = SumStep(TheSum(f, S), f, s)
  BY <1>1
<1>6. TheSum(f, S)[T] = TheSum(f, T)[T]
  <2> HIDE DEF T
  <2> QED
    BY <1>3, <1>4, <1>5, StepsAgree
<1> QED
  BY <1>2, <1>6, SumIs DEF TheSum

\* One element is added to a sum.
LEMMA SumAdd ==
    ASSUME NEW S, IsFiniteSet(S), NEW f, NEW x, x \notin S, f[x] \in Int,
           \A y \in S : f[y] \in Int
    PROVE  SumFunctionOnSet(f, S \cup {x}) = SumFunctionOnSet(f, S) + f[x]
<1>1. IsFiniteSet(S \cup {x})
  BY FS_AddElement
<1>2. (S \cup {x}) \ {x} = S
  OBVIOUS
<1>3. SumFunctionOnSet(f, S \cup {x}) = f[x] + SumFunctionOnSet(f, (S \cup {x}) \ {x})
  <2>1. x \in S \cup {x} /\ \A y \in S \cup {x} : f[y] \in Int
    OBVIOUS
  <2> QED
    BY <1>1, <2>1, SumRemove
<1>4. SumFunctionOnSet(f, S) \in Int /\ f[x] \in Int
  BY SumInt
<1>5. SumFunctionOnSet(f, S \cup {x}) = f[x] + SumFunctionOnSet(f, S)
  BY <1>2, <1>3, Zenon
<1> QED
  BY <1>4, <1>5

\* When one amount changes, the sum changes by as much.
LEMMA SumChange ==
    ASSUME NEW S, IsFiniteSet(S), NEW f, NEW g, NEW x \in S,
           \A y \in S : f[y] \in Int, \A y \in S : g[y] \in Int,
           \A y \in S \ {x} : f[y] = g[y]
    PROVE  SumFunctionOnSet(g, S) = SumFunctionOnSet(f, S) - f[x] + g[x]
<1>1. IsFiniteSet(S \ {x})
  BY FS_Subset
<1>2. SumFunctionOnSet(f, S) = f[x] + SumFunctionOnSet(f, S \ {x})
  BY SumRemove
<1>3. SumFunctionOnSet(g, S) = g[x] + SumFunctionOnSet(g, S \ {x})
  BY SumRemove
<1>4. SumFunctionOnSet(f, S \ {x}) = SumFunctionOnSet(g, S \ {x})
  BY <1>1, SumSame
<1>5. SumFunctionOnSet(f, S \ {x}) \in Int /\ f[x] \in Int /\ g[x] \in Int
  BY <1>1, SumInt
<1> QED
  BY <1>2, <1>3, <1>4, <1>5

\* The sum of sums of amounts.
LEMMA SumPlus ==
    ASSUME NEW S, IsFiniteSet(S), NEW f, NEW g, NEW h,
           \A x \in S : f[x] \in Int /\ g[x] \in Int /\ h[x] = f[x] + g[x]
    PROVE  SumFunctionOnSet(h, S) = SumFunctionOnSet(f, S) + SumFunctionOnSet(g, S)
<1> DEFINE Q == {T \in SUBSET S : SumFunctionOnSet(h, T)
                   = SumFunctionOnSet(f, T) + SumFunctionOnSet(g, T)}
<1>1. {} \in Q
  BY SumEmpty
<1>2. ASSUME NEW T \in SUBSET S, NEW x \in S \ T, T \in Q
      PROVE  T \cup {x} \in Q
  <2>1. IsFiniteSet(T)
    BY FS_Subset
  <2>2. x \notin T
    OBVIOUS
  <2>3. SumFunctionOnSet(h, T \cup {x}) = SumFunctionOnSet(h, T) + h[x]
    <3>1. h[x] \in Int /\ \A y \in T : h[y] \in Int
      OBVIOUS
    <3> QED
      BY <2>1, <2>2, <3>1, SumAdd
  <2>4. SumFunctionOnSet(f, T \cup {x}) = SumFunctionOnSet(f, T) + f[x]
    <3>1. f[x] \in Int /\ \A y \in T : f[y] \in Int
      OBVIOUS
    <3> QED
      BY <2>1, <2>2, <3>1, SumAdd
  <2>5. SumFunctionOnSet(g, T \cup {x}) = SumFunctionOnSet(g, T) + g[x]
    <3>1. g[x] \in Int /\ \A y \in T : g[y] \in Int
      OBVIOUS
    <3> QED
      BY <2>1, <2>2, <3>1, SumAdd
  <2>6. SumFunctionOnSet(f, T) \in Int /\ SumFunctionOnSet(g, T) \in Int
    BY <2>1, SumInt
  <2>7. h[x] = f[x] + g[x] /\ f[x] \in Int /\ g[x] \in Int
    OBVIOUS
  <2>8. SumFunctionOnSet(h, T) = SumFunctionOnSet(f, T) + SumFunctionOnSet(g, T)
    BY <1>2
  <2> QED
    BY <2>3, <2>4, <2>5, <2>6, <2>7, <2>8
<1>3. S \in Q
  <2> HIDE DEF Q
  <2> QED
    BY <1>1, <1>2, SetInduction
<1> QED
  BY <1>3

\* The sum over two sets with no element in common.
LEMMA SumUnion ==
    ASSUME NEW S, IsFiniteSet(S), NEW T, IsFiniteSet(T), S \cap T = {},
           NEW f, \A x \in S : f[x] \in Int, \A x \in T : f[x] \in Int
    PROVE  SumFunctionOnSet(f, S \cup T) = SumFunctionOnSet(f, S) + SumFunctionOnSet(f, T)
<1> DEFINE Q == {R \in SUBSET T : SumFunctionOnSet(f, S \cup R)
                   = SumFunctionOnSet(f, S) + SumFunctionOnSet(f, R)}
<1>1. {} \in Q
  <2>1. S \cup {} = S
    OBVIOUS
  <2>2. SumFunctionOnSet(f, S \cup {}) = SumFunctionOnSet(f, S)
    BY <2>1, Zenon
  <2>3. SumFunctionOnSet(f, S) \in Int
    BY SumInt
  <2> QED
    BY <2>2, <2>3, SumEmpty
<1>2. ASSUME NEW R \in SUBSET T, NEW x \in T \ R, R \in Q
      PROVE  R \cup {x} \in Q
  <2>1. IsFiniteSet(R) /\ IsFiniteSet(S \cup R)
    BY FS_Subset, FS_Union
  <2>2. x \notin R /\ x \notin S \cup R /\ f[x] \in Int
    OBVIOUS
  <2>3. SumFunctionOnSet(f, R \cup {x}) = SumFunctionOnSet(f, R) + f[x]
    <3>1. \A y \in R : f[y] \in Int
      OBVIOUS
    <3> QED
      BY <2>1, <2>2, <3>1, SumAdd
  <2>4. SumFunctionOnSet(f, (S \cup R) \cup {x}) = SumFunctionOnSet(f, S \cup R) + f[x]
    <3>1. \A y \in S \cup R : f[y] \in Int
      OBVIOUS
    <3> QED
      BY <2>1, <2>2, <3>1, SumAdd
  <2>5. SumFunctionOnSet(f, S) \in Int /\ SumFunctionOnSet(f, R) \in Int
    <3>1. \A y \in R : f[y] \in Int
      OBVIOUS
    <3> QED
      BY <2>1, <3>1, SumInt
  <2>6. SumFunctionOnSet(f, S \cup R) = SumFunctionOnSet(f, S) + SumFunctionOnSet(f, R)
    BY <1>2
  <2>7. (S \cup R) \cup {x} = S \cup (R \cup {x})
    OBVIOUS
  <2>8. SumFunctionOnSet(f, S \cup (R \cup {x})) = SumFunctionOnSet(f, S \cup R) + f[x]
    BY <2>4, <2>7, Zenon
  <2>9. SumFunctionOnSet(f, S \cup (R \cup {x}))
          = SumFunctionOnSet(f, S) + SumFunctionOnSet(f, R \cup {x})
    <3> HIDE DEF Q
    <3> QED
      BY <2>2, <2>3, <2>5, <2>6, <2>8
  <2> QED
    BY <2>9
<1>3. T \in Q
  <2> HIDE DEF Q
  <2> QED
    BY <1>1, <1>2, SetInduction
<1> QED
  BY <1>3

\* A sum of smaller amounts is smaller.
LEMMA SumLess ==
    ASSUME NEW S, IsFiniteSet(S), NEW f, NEW g,
           \A x \in S : f[x] \in Int /\ g[x] \in Int /\ f[x] =< g[x]
    PROVE  SumFunctionOnSet(f, S) =< SumFunctionOnSet(g, S)
<1> DEFINE Q == {T \in SUBSET S : SumFunctionOnSet(f, T) =< SumFunctionOnSet(g, T)}
<1>1. {} \in Q
  BY SumEmpty
<1>2. ASSUME NEW T \in SUBSET S, NEW x \in S \ T, T \in Q
      PROVE  T \cup {x} \in Q
  <2>1. IsFiniteSet(T)
    BY FS_Subset
  <2>2. x \notin T /\ f[x] \in Int /\ g[x] \in Int /\ f[x] =< g[x]
    OBVIOUS
  <2>3. \A y \in T : f[y] \in Int
    OBVIOUS
  <2>4. \A y \in T : g[y] \in Int
    OBVIOUS
  <2>5. SumFunctionOnSet(f, T \cup {x}) = SumFunctionOnSet(f, T) + f[x]
    BY <2>1, <2>2, <2>3, SumAdd
  <2>6. SumFunctionOnSet(g, T \cup {x}) = SumFunctionOnSet(g, T) + g[x]
    BY <2>1, <2>2, <2>4, SumAdd
  <2>7. SumFunctionOnSet(f, T) \in Int /\ SumFunctionOnSet(g, T) \in Int
    BY <2>1, <2>3, <2>4, SumInt
  <2>8. SumFunctionOnSet(f, T) =< SumFunctionOnSet(g, T)
    BY <1>2
  <2>9. SumFunctionOnSet(f, T \cup {x}) =< SumFunctionOnSet(g, T \cup {x})
    <3> HIDE DEF Q
    <3> QED
      BY <2>2, <2>5, <2>6, <2>7, <2>8
  <2> QED
    BY <2>9
<1>3. S \in Q
  <2> HIDE DEF Q
  <2> QED
    BY <1>1, <1>2, SetInduction
<1> QED
  BY <1>3

\* A multiple of a sum.
LEMMA SumTimes ==
    ASSUME NEW S, IsFiniteSet(S), NEW f, NEW g, NEW c \in Int,
           \A x \in S : f[x] \in Int /\ g[x] = c * f[x]
    PROVE  SumFunctionOnSet(g, S) = c * SumFunctionOnSet(f, S)
<1> DEFINE Q == {T \in SUBSET S : SumFunctionOnSet(g, T) = c * SumFunctionOnSet(f, T)}
<1>1. {} \in Q
  BY SumEmpty
<1>2. ASSUME NEW T \in SUBSET S, NEW x \in S \ T, T \in Q
      PROVE  T \cup {x} \in Q
  <2>1. IsFiniteSet(T)
    BY FS_Subset
  <2>2. x \notin T /\ f[x] \in Int /\ g[x] \in Int /\ g[x] = c * f[x]
    OBVIOUS
  <2>3. \A y \in T : f[y] \in Int
    OBVIOUS
  <2>4. \A y \in T : g[y] \in Int
    OBVIOUS
  <2>5. SumFunctionOnSet(f, T \cup {x}) = SumFunctionOnSet(f, T) + f[x]
    BY <2>1, <2>2, <2>3, SumAdd
  <2>6. SumFunctionOnSet(g, T \cup {x}) = SumFunctionOnSet(g, T) + g[x]
    BY <2>1, <2>2, <2>4, SumAdd
  <2>7. SumFunctionOnSet(f, T) \in Int
    BY <2>1, <2>3, SumInt
  <2>8. SumFunctionOnSet(g, T) = c * SumFunctionOnSet(f, T)
    BY <1>2
  <2>9. \A a, b \in Int : c * a + c * b = c * (a + b)
    OBVIOUS
  <2>10. SumFunctionOnSet(g, T \cup {x}) = c * SumFunctionOnSet(f, T \cup {x})
    <3> HIDE DEF Q
    <3> QED
      BY <2>2, <2>5, <2>6, <2>7, <2>8, <2>9
  <2> QED
    BY <2>10
<1>3. S \in Q
  <2> HIDE DEF Q
  <2> QED
    BY <1>1, <1>2, SetInduction
<1> QED
  BY <1>3

\* A sum in which every amount is 0.
LEMMA SumZero ==
    ASSUME NEW S, IsFiniteSet(S), NEW f, \A x \in S : f[x] = 0
    PROVE  SumFunctionOnSet(f, S) = 0
<1> DEFINE g == [x \in S |-> 0]
<1>1. SumFunctionOnSet(f, S) = 0 * SumFunctionOnSet(g, S)
  <2>1. \A x \in S : g[x] \in Int /\ f[x] = 0 * g[x]
    OBVIOUS
  <2> HIDE DEF g
  <2> QED
    BY <2>1, SumTimes
<1>2. SumFunctionOnSet(g, S) \in Int
  BY SumInt
<1> QED
  BY <1>1, <1>2

\* A sum of natural numbers is one, and no less than any sum over fewer elements.
LEMMA SumNat ==
    ASSUME NEW S, IsFiniteSet(S), NEW f, \A x \in S : f[x] \in Nat
    PROVE  SumFunctionOnSet(f, S) \in Nat
<1> DEFINE g == [x \in S |-> 0]
<1>1. \A x \in S : f[x] \in Int /\ g[x] \in Int /\ g[x] =< f[x]
  OBVIOUS
<1>2. SumFunctionOnSet(g, S) = 0
  BY SumZero
<1>3. SumFunctionOnSet(g, S) =< SumFunctionOnSet(f, S)
  <2> HIDE DEF g
  <2> QED
    BY <1>1, SumLess
<1>4. SumFunctionOnSet(f, S) \in Int
  BY SumInt
<1> QED
  BY <1>2, <1>3, <1>4

\* Elements with the amount 0 do not count.
LEMMA SumSupport ==
    ASSUME NEW S, IsFiniteSet(S), NEW T \in SUBSET S, NEW f,
           \A x \in T : f[x] \in Int, \A x \in S \ T : f[x] = 0
    PROVE  SumFunctionOnSet(f, S) = SumFunctionOnSet(f, T)
<1>1. IsFiniteSet(T) /\ IsFiniteSet(S \ T)
  BY FS_Subset
<1>2. T \cap (S \ T) = {} /\ T \cup (S \ T) = S
  OBVIOUS
<1>3. \A x \in S \ T : f[x] \in Int
  OBVIOUS
<1>4. SumFunctionOnSet(f, T \cup (S \ T)) = SumFunctionOnSet(f, T) + SumFunctionOnSet(f, S \ T)
  BY <1>1, <1>2, <1>3, SumUnion
<1>5. SumFunctionOnSet(f, S \ T) = 0
  BY <1>1, SumZero
<1>6. SumFunctionOnSet(f, T) \in Int
  BY <1>1, SumInt
<1>7. SumFunctionOnSet(f, S) = SumFunctionOnSet(f, T) + SumFunctionOnSet(f, S \ T)
  BY <1>2, <1>4, Zenon
<1> QED
  BY <1>5, <1>6, <1>7

\* The image of a finite set is finite.
LEMMA FiniteImage ==
    ASSUME NEW S, IsFiniteSet(S), NEW h
    PROVE  IsFiniteSet({h[x] : x \in S})
<1> DEFINE Q == {T \in SUBSET S : IsFiniteSet({h[x] : x \in T})}
<1>1. {} \in Q
  BY FS_EmptySet
<1>2. ASSUME NEW T \in SUBSET S, NEW x \in S \ T, T \in Q
      PROVE  T \cup {x} \in Q
  <2>1. {h[y] : y \in T \cup {x}} = {h[y] : y \in T} \cup {h[x]}
    OBVIOUS
  <2>2. IsFiniteSet({h[y] : y \in T} \cup {h[x]})
    BY <1>2, FS_AddElement
  <2>3. QED
    BY <2>1, <2>2
<1> HIDE DEF Q
<1>3. S \in Q
  BY <1>1, <1>2, SetInduction
<1> QED
  BY <1>3 DEF Q

\* A sum over the images of the elements, when no two of them have the same one.
LEMMA SumImage ==
    ASSUME NEW S, IsFiniteSet(S), NEW h, \A x, y \in S : h[x] = h[y] => x = y,
           NEW f, NEW g, \A x \in S : g[x] \in Int /\ f[h[x]] = g[x]
    PROVE  /\ IsFiniteSet({h[x] : x \in S})
           /\ SumFunctionOnSet(f, {h[x] : x \in S}) = SumFunctionOnSet(g, S)
<1> DEFINE Im(T) == {h[x] : x \in T}
<1> DEFINE Q == {T \in SUBSET S : /\ IsFiniteSet(Im(T))
                                  /\ SumFunctionOnSet(f, Im(T)) = SumFunctionOnSet(g, T)}
<1>1. {} \in Q
  <2>1. Im({}) = {}
    OBVIOUS
  <2>2. IsFiniteSet(Im({})) /\ SumFunctionOnSet(f, Im({})) = SumFunctionOnSet(f, {})
    BY <2>1, FS_EmptySet
  <2> QED
    BY <2>2, SumEmpty
<1>2. ASSUME NEW T \in SUBSET S, NEW x \in S \ T, T \in Q
      PROVE  T \cup {x} \in Q
  <2>1. IsFiniteSet(T)
    BY FS_Subset
  <2>2. IsFiniteSet(Im(T)) /\ SumFunctionOnSet(f, Im(T)) = SumFunctionOnSet(g, T)
    BY <1>2
  <2>3. Im(T \cup {x}) = Im(T) \cup {h[x]}
    OBVIOUS
  <2>4. h[x] \notin Im(T)
    OBVIOUS
  <2>5. \A y \in Im(T) : f[y] \in Int
    OBVIOUS
  <2>6. g[x] \in Int /\ f[h[x]] = g[x] /\ \A y \in T : g[y] \in Int
    OBVIOUS
  <2>7. IsFiniteSet(Im(T) \cup {h[x]})
    BY <2>2, FS_AddElement
  <2>8. SumFunctionOnSet(f, Im(T) \cup {h[x]}) = SumFunctionOnSet(f, Im(T)) + f[h[x]]
    <3>1. f[h[x]] \in Int
      BY <2>6
    <3> HIDE DEF Im, Q
    <3> QED
      BY <2>2, <2>4, <2>5, <3>1, SumAdd
  <2>9. SumFunctionOnSet(g, T \cup {x}) = SumFunctionOnSet(g, T) + g[x]
    <3> HIDE DEF Im, Q
    <3> QED
      BY <2>1, <2>6, SumAdd
  <2>10. SumFunctionOnSet(f, Im(T \cup {x})) = SumFunctionOnSet(g, T \cup {x})
    <3> HIDE DEF Im, Q
    <3> QED
      BY <2>2, <2>3, <2>6, <2>8, <2>9
  <2>11. IsFiniteSet(Im(T \cup {x}))
    <3> HIDE DEF Im, Q
    <3> QED
      BY <2>3, <2>7
  <2>12. T \cup {x} \in SUBSET S
    OBVIOUS
  <2> HIDE DEF Im
  <2> QED
    BY <2>10, <2>11, <2>12
<1>3. S \in Q
  <2> HIDE DEF Q
  <2> QED
    BY <1>1, <1>2, SetInduction
<1> QED
  BY <1>3

\* The sums of the rows of a table add up to what those of its columns do.
LEMMA SumSwap ==
    ASSUME NEW S, IsFiniteSet(S), NEW T, IsFiniteSet(T), NEW F,
           \A x \in S, y \in T : F[<<x, y>>] \in Int
    PROVE  SumFunctionOnSet([x \in S |-> SumFunctionOnSet([y \in T |-> F[<<x, y>>]], T)], S)
         = SumFunctionOnSet([y \in T |-> SumFunctionOnSet([x \in S |-> F[<<x, y>>]], S)], T)
<1> DEFINE row == [x \in S |-> SumFunctionOnSet([y \in T |-> F[<<x, y>>]], T)]
<1> DEFINE col(y) == [x \in S |-> F[<<x, y>>]]
<1> DEFINE cols(R) == [y \in T |-> SumFunctionOnSet(col(y), R)]
<1> DEFINE Q == {R \in SUBSET S :
                   SumFunctionOnSet(row, R) = SumFunctionOnSet(cols(R), T)}
<1>1. {} \in Q
  <2>1. \A y \in T : cols({})[y] = 0
    <3>1. \A y \in T : SumFunctionOnSet(col(y), {}) = 0
      BY SumEmpty
    <3> HIDE DEF col
    <3> QED
      BY <3>1
  <2> HIDE DEF cols, row
  <2>2. SumFunctionOnSet(cols({}), T) = 0
    BY <2>1, SumZero
  <2> QED
    BY <2>2, SumEmpty
<1>2. ASSUME NEW R \in SUBSET S, NEW x \in S \ R, R \in Q
      PROVE  R \cup {x} \in Q
  <2> DEFINE line == [y \in T |-> F[<<x, y>>]]
  <2>1. IsFiniteSet(R) /\ x \notin R
    BY FS_Subset
  <2>2. \A z \in S : row[z] \in Int
    <3>1. ASSUME NEW z \in S
          PROVE  SumFunctionOnSet([y \in T |-> F[<<z, y>>]], T) \in Int
      <4> DEFINE r == [y \in T |-> F[<<z, y>>]]
      <4>1. \A y \in T : r[y] \in Int
        OBVIOUS
      <4> HIDE DEF r
      <4>2. SumFunctionOnSet(r, T) \in Int
        BY <4>1, SumInt
      <4> QED
        BY <4>2 DEF r
    <3> QED
      BY <3>1
  <2>3. SumFunctionOnSet(row, R \cup {x}) = SumFunctionOnSet(row, R) + row[x]
    <3>1. row[x] \in Int /\ \A z \in R : row[z] \in Int
      BY <2>2
    <3> HIDE DEF row, Q
    <3> QED
      BY <2>1, <3>1, SumAdd
  <2>4. row[x] = SumFunctionOnSet(line, T)
    OBVIOUS
  <2>5. \A y \in T : line[y] \in Int
    OBVIOUS
  <2>6. ASSUME NEW y \in T
        PROVE  /\ cols(R \cup {x})[y] = cols(R)[y] + line[y]
               /\ cols(R)[y] \in Int
    <3>1. \A z \in R : col(y)[z] \in Int
      OBVIOUS
    <3>2. col(y)[x] = line[y] /\ col(y)[x] \in Int
      OBVIOUS
    <3>3. cols(R)[y] = SumFunctionOnSet(col(y), R)
      OBVIOUS
    <3>4. cols(R \cup {x})[y] = SumFunctionOnSet(col(y), R \cup {x})
      OBVIOUS
    <3>5. SumFunctionOnSet(col(y), R \cup {x}) = SumFunctionOnSet(col(y), R) + col(y)[x]
      <4>1. PICK c : c = col(y)
        OBVIOUS
      <4>2. c[x] \in Int /\ \A z \in R : c[z] \in Int
        BY <3>1, <3>2, <4>1
      <4>3. SumFunctionOnSet(c, R \cup {x}) = SumFunctionOnSet(c, R) + c[x]
        <5> HIDE DEF col, cols, Q, line
        <5> QED
          BY <2>1, <4>2, SumAdd
      <4> QED
        BY <4>1, <4>3
    <3>6. SumFunctionOnSet(col(y), R) \in Int
      <4> HIDE DEF col, cols, Q, line
      <4> QED
        BY <2>1, <3>1, SumInt
    <3> HIDE DEF col, cols, Q, line
    <3> QED
      BY <3>2, <3>3, <3>4, <3>5, <3>6
  <2>7. SumFunctionOnSet(cols(R \cup {x}), T)
          = SumFunctionOnSet(cols(R), T) + SumFunctionOnSet(line, T)
    <3> HIDE DEF cols, line, Q, row
    <3> QED
      BY <2>5, <2>6, SumPlus
  <2>8. SumFunctionOnSet(row, R) = SumFunctionOnSet(cols(R), T)
    BY <1>2
  <2>9. SumFunctionOnSet(row, R \cup {x}) = SumFunctionOnSet(cols(R \cup {x}), T)
    <3> HIDE DEF cols, line, Q, row
    <3> QED
      BY <2>3, <2>4, <2>7, <2>8
  <2> HIDE DEF cols, row, line
  <2> QED
    BY <2>9
<1>3. S \in Q
  <2> HIDE DEF Q
  <2> QED
    BY <1>1, <1>2, SetInduction
<1> QED
  BY <1>3

\* A sum of which only one amount is not 0.
LEMMA SumOne ==
    ASSUME NEW S, IsFiniteSet(S), NEW f, NEW x \in S, f[x] \in Int,
           \A y \in S \ {x} : f[y] = 0
    PROVE  SumFunctionOnSet(f, S) = f[x]
<1>1. \A y \in S : f[y] \in Int
  OBVIOUS
<1>2. SumFunctionOnSet(f, S) = f[x] + SumFunctionOnSet(f, S \ {x})
  BY <1>1, SumRemove
<1>3. IsFiniteSet(S \ {x})
  BY FS_RemoveElement
<1>4. SumFunctionOnSet(f, S \ {x}) = 0
  <2> DEFINE T == S \ {x}
  <2>1. IsFiniteSet(T) /\ \A y \in T : f[y] = 0
    BY <1>3
  <2> HIDE DEF T
  <2>2. SumFunctionOnSet(f, T) = 0
    BY <2>1, SumZero
  <2> QED
    BY <2>2 DEF T
<1> QED
  BY <1>2, <1>4

\* Natural numbers sum up to no less than some of them.
LEMMA SumPart ==
    ASSUME NEW S, IsFiniteSet(S), NEW T \in SUBSET S, NEW f, \A x \in S : f[x] \in Nat
    PROVE  /\ SumFunctionOnSet(f, T) \in Nat /\ SumFunctionOnSet(f, S) \in Nat
           /\ SumFunctionOnSet(f, T) =< SumFunctionOnSet(f, S)
<1> DEFINE R == S \ T
<1>1. IsFiniteSet(T) /\ IsFiniteSet(R) /\ T \cap R = {} /\ T \cup R = S
  BY FS_Subset
<1>2. (\A x \in T : f[x] \in Nat) /\ (\A x \in R : f[x] \in Nat)
  OBVIOUS
<1> HIDE DEF R
<1>3. SumFunctionOnSet(f, T) \in Nat /\ SumFunctionOnSet(f, R) \in Nat
  BY <1>1, <1>2, SumNat
<1>4. (\A x \in T : f[x] \in Int) /\ (\A x \in R : f[x] \in Int)
  BY <1>2
<1>5. SumFunctionOnSet(f, T \cup R) = SumFunctionOnSet(f, T) + SumFunctionOnSet(f, R)
  BY <1>1, <1>4, SumUnion
<1>6. SumFunctionOnSet(f, S) = SumFunctionOnSet(f, T) + SumFunctionOnSet(f, R)
  BY <1>1, <1>5, Zenon
<1> QED
  BY <1>3, <1>6

\* The amounts may be summed group by group.
LEMMA SumGroups ==
    ASSUME NEW S, IsFiniteSet(S), NEW T, IsFiniteSet(T), NEW k, \A x \in S : k[x] \in T,
           NEW f, \A x \in S : f[x] \in Int
    PROVE  SumFunctionOnSet([y \in T |-> SumFunctionOnSet(f, {x \in S : k[x] = y})], T)
         = SumFunctionOnSet(f, S)
<1> DEFINE F == [p \in S \X T |-> IF k[p[1]] = p[2] THEN f[p[1]] ELSE 0]
           group == [y \in T |-> SumFunctionOnSet(f, {x \in S : k[x] = y})]
           cols == [y \in T |-> SumFunctionOnSet([x \in S |-> F[<<x, y>>]], S)]
           rows == [x \in S |-> SumFunctionOnSet([y \in T |-> F[<<x, y>>]], T)]
<1>1. \A x \in S, y \in T : F[<<x, y>>] = IF k[x] = y THEN f[x] ELSE 0
  OBVIOUS
<1>2. \A x \in S, y \in T : F[<<x, y>>] \in Int
  <2> HIDE DEF F
  <2>1. SUFFICES ASSUME NEW x \in S, NEW y \in T PROVE F[<<x, y>>] \in Int
    OBVIOUS
  <2>2. F[<<x, y>>] = IF k[x] = y THEN f[x] ELSE 0
    BY <1>1
  <2> QED
    BY <2>2
<1>3. ASSUME NEW x \in S
      PROVE  rows[x] = f[x]
  <2> DEFINE r == [y \in T |-> F[<<x, y>>]]
  <2>1. k[x] \in T /\ r[k[x]] = f[x] /\ f[x] \in Int /\ \A y \in T \ {k[x]} : r[y] = 0
    BY <1>1, <1>3
  <2>2. rows[x] = SumFunctionOnSet(r, T)
    BY <1>3
  <2> HIDE DEF r, rows
  <2>3. SumFunctionOnSet(r, T) = r[k[x]]
    BY <2>1, SumOne
  <2> QED
    BY <2>1, <2>2, <2>3
<1>4. ASSUME NEW y \in T
      PROVE  cols[y] = group[y]
  <2> DEFINE c == [x \in S |-> F[<<x, y>>]]
             G == {x \in S : k[x] = y}
  <2>1. /\ G \in SUBSET S /\ \A x \in G : c[x] = f[x] /\ c[x] \in Int /\ f[x] \in Int
        /\ \A x \in S \ G : c[x] = 0
    BY <1>1
  <2>2. cols[y] = SumFunctionOnSet(c, S) /\ group[y] = SumFunctionOnSet(f, G)
    BY <1>4
  <2>3. IsFiniteSet(G)
    BY <2>1, FS_Subset
  <2> HIDE DEF c, G, cols, group
  <2>4. (\A x \in G : c[x] \in Int) /\ (\A x \in G : c[x] = f[x])
    BY <2>1
  <2>5. SumFunctionOnSet(c, S) = SumFunctionOnSet(c, G)
    BY <2>1, <2>4, SumSupport
  <2>6. SumFunctionOnSet(c, G) = SumFunctionOnSet(f, G)
    BY <2>3, <2>4, SumSame
  <2> QED
    BY <2>2, <2>5, <2>6
<1> HIDE DEF F
<1>5. SumFunctionOnSet(rows, S) = SumFunctionOnSet(cols, T)
  BY <1>2, SumSwap
<1> HIDE DEF rows, cols, group
<1>6. SumFunctionOnSet(rows, S) = SumFunctionOnSet(f, S)
  BY <1>3, SumSame
<1>7. SumFunctionOnSet(cols, T) = SumFunctionOnSet(group, T)
  BY <1>4, SumSame
<1>8. SumFunctionOnSet(group, T) = SumFunctionOnSet(f, S)
  BY <1>5, <1>6, <1>7
<1> QED
  BY <1>8 DEF group

(***************************************************************************)
(* Sums along a sequence.                                                  *)
(***************************************************************************)
\* The sum of the empty function is 0.
LEMMA SumOfNone ==
    ASSUME NEW f, DOMAIN f = {}
    PROVE  SumFunction(f) = 0
BY SumEmpty DEF SumFunction

\* One more amount at the end of a list of amounts.
LEMMA SumAppend ==
    ASSUME NEW n \in Nat, NEW f, DOMAIN f = 1 .. n, \A i \in 1 .. n : f[i] \in Int,
           NEW g, DOMAIN g = 1 .. (n + 1), \A i \in 1 .. n : g[i] = f[i], g[n + 1] \in Int
    PROVE  /\ SumFunction(f) \in Int
           /\ SumFunction(g) = SumFunction(f) + g[n + 1]
<1>1. IsFiniteSet(1 .. n)
  BY FS_Interval
<1>2. n + 1 \notin 1 .. n /\ 1 .. (n + 1) = (1 .. n) \cup {n + 1}
  OBVIOUS
<1>3. \A i \in 1 .. n : g[i] \in Int
  OBVIOUS
<1>4. SumFunctionOnSet(g, (1 .. n) \cup {n + 1}) = SumFunctionOnSet(g, 1 .. n) + g[n + 1]
  BY <1>1, <1>2, <1>3, SumAdd
<1>5. SumFunctionOnSet(g, 1 .. n) = SumFunctionOnSet(f, 1 .. n)
  BY <1>1, SumSame
<1>6. SumFunctionOnSet(f, 1 .. n) \in Int
  BY <1>1, SumInt
<1>7. SumFunction(g) = SumFunctionOnSet(g, (1 .. n) \cup {n + 1})
  BY <1>2 DEF SumFunction
<1> QED
  BY <1>4, <1>5, <1>6, <1>7 DEF SumFunction
================================================================================
