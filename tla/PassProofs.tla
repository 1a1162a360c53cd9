----------------------------- MODULE PassProofs -----------------------------
(***************************************************************************)
(* What one evaluation pass of module WaterlinePass guarantees for every   *)
(* cluster, floor, threshold and set of weights, as inductive invariants   *)
(* of its steps: type correctness with scores on the 0..100 scale, a       *)
(* consolidation that never overfills a safe node, and a finished report   *)
(* with the safest nodes in the floor, every eligible node on one list and *)
(* a home on a safe node for every pod of a candidate.                     *)
(*                                                                         *)
(* Whoever runs passes, the evaluation loop, the controller or the         *)
(* simulation engine, takes these steps and no others on the variables of  *)
(* the pass; the theorems about them cite the lemmas of this module.       *)
(***************************************************************************)
EXTENDS WaterlinePass, SequenceTheorems, FiniteSetTheorems, FunctionTheorems, TLAPS

\* What may happen to the variables of the pass: a step of it, or a new pass.
StartAnew == \E c \in Clusters : StartPass(c)
PassNext  == Evaluate \/ StartAnew

-----------------------------------------------------------------------------
(* Sums.  The sum of a function over a finite set does not depend on the   *)
(* order in which its elements are taken: any may be taken out first.      *)

ChosenIn(s) == CHOOSE x \in s : TRUE

\* f sums w over the subsets of S of up to n elements, one chosen element at a time.
Sums(f, w, S, n) ==
    /\ f \in [SUBSET S -> Int]
    /\ \A s \in SUBSET S :
          Cardinality(s) <= n =>
             f[s] = IF s = {} THEN 0
                    ELSE w[ChosenIn(s)] + f[s \ {ChosenIn(s)}]

\* Any set of numbers has a least one, and any family of parts of a finite set
\* has one that holds no other: the two inductions of this section.
LEMMA LeastNumber ==
    ASSUME NEW T, T \subseteq Nat, T # {}
    PROVE  \E m \in T : \A k \in T : m <= k
<1>1. PICK t \in T : TRUE
  OBVIOUS
<1> DEFINE F == {0..k : k \in T \cap 0..t}
<1>2. IsWellFoundedOn(StrictSubsetOrdering(0..t), FiniteSubsetsOf(0..t))
  BY FS_StrictSubsetOrderingWellFounded
<1>3. F \subseteq FiniteSubsetsOf(0..t)
  <2> SUFFICES ASSUME NEW k \in T \cap 0..t
               PROVE  0..k \subseteq 0..t /\ IsFiniteSet(0..k)
    BY DEF FiniteSubsetsOf
  <2> QED
    BY FS_Interval
<1>4. F # {}
  BY <1>1
<1>5. PICK X \in F : \A Y \in F : ~(<<Y, X>> \in StrictSubsetOrdering(0..t))
  <2> HIDE DEF F
  <2> QED
    BY <1>2, <1>3, <1>4, WFMin
<1>6. PICK m \in T \cap 0..t : X = 0..m
  BY <1>5
<1>7. ASSUME NEW k \in T, k < m
      PROVE  FALSE
  <2>1. 0..k \in F /\ 0..k # 0..m /\ 0..k \subseteq 0..m /\ 0..m \subseteq 0..t
    <3>1. k \in 0..t
      BY <1>6, <1>7
    <3>2. m \in 0..m /\ m \notin 0..k
      BY <1>6, <1>7
    <3> QED
      BY <1>6, <1>7, <3>1, <3>2
  <2>2. <<0..k, X>> \in StrictSubsetOrdering(0..t)
    BY <1>6, <2>1 DEF StrictSubsetOrdering
  <2> QED
    BY <1>5, <2>1, <2>2
<1> QED
  BY <1>6, <1>7
LEMMA SumsExist ==
    ASSUME NEW S, IsFiniteSet(S), NEW w, \A x \in S : w[x] \in Int, NEW n \in Nat
    PROVE  \E f : Sums(f, w, S, n)
<1> DEFINE T == {k \in Nat : ~\E f : Sums(f, w, S, k)}
<1> SUFFICES ASSUME T # {} PROVE FALSE
  OBVIOUS
<1>1. PICK m \in T : \A k \in T : m <= k
  <2>1. T \subseteq Nat
    OBVIOUS
  <2> HIDE DEF T
  <2> QED
    BY <2>1, LeastNumber
<1>2. CASE m = 0
  <2> DEFINE f == [s \in SUBSET S |-> 0]
  <2>1. \A s \in SUBSET S : Cardinality(s) <= 0 => s = {}
    <3> TAKE s \in SUBSET S
    <3>1. IsFiniteSet(s)
      BY FS_Subset
    <3> QED
      BY <3>1, FS_EmptySet, FS_CardinalityType
  <2>2. Sums(f, w, S, 0)
    BY <2>1 DEF Sums
  <2> QED
    BY <1>2, <2>2, <1>1
<1>3. CASE m # 0
  <2>1. m - 1 \in Nat /\ m - 1 \notin T
    BY <1>1, <1>3
  <2>2. PICK g : Sums(g, w, S, m - 1)
    BY <2>1
  <2> DEFINE f == [s \in SUBSET S |-> IF s = {} THEN 0
                                      ELSE w[ChosenIn(s)] + g[s \ {ChosenIn(s)}]]
  <2>3. \A s \in SUBSET S : s # {} => ChosenIn(s) \in s
    BY DEF ChosenIn
  <2>4. f \in [SUBSET S -> Int]
    <3> SUFFICES ASSUME NEW s \in SUBSET S, s # {}
                 PROVE  w[ChosenIn(s)] + g[s \ {ChosenIn(s)}] \in Int
      OBVIOUS
    <3>1. ChosenIn(s) \in S
      BY <2>3
    <3>2. w[ChosenIn(s)] \in Int /\ g[s \ {ChosenIn(s)}] \in Int
      BY <2>2, <3>1 DEF Sums
    <3> QED
      BY <3>2
  <2>5. ASSUME NEW s \in SUBSET S, Cardinality(s) <= m - 1
        PROVE  f[s] = g[s]
    BY <2>2, <2>5 DEF Sums, ChosenIn
  <2>6. ASSUME NEW s \in SUBSET S, Cardinality(s) <= m, s # {}
        PROVE  f[s] = w[ChosenIn(s)] + f[s \ {ChosenIn(s)}]
    <3>1. ChosenIn(s) \in s /\ IsFiniteSet(s)
      BY <2>3, <2>6, FS_Subset
    <3>2. Cardinality(s \ {ChosenIn(s)}) <= m - 1
      <4>1. Cardinality(s \ {ChosenIn(s)}) = Cardinality(s) - 1
        BY <3>1, FS_RemoveElement
      <4>2. Cardinality(s) \in Nat
        BY <3>1, FS_CardinalityType
      <4> QED
        BY <1>1, <2>6, <4>1, <4>2
    <3>3. f[s \ {ChosenIn(s)}] = g[s \ {ChosenIn(s)}]
      BY <3>2, <2>5
    <3> QED
      BY <2>6, <3>3
  <2>7. f[{}] = 0
    OBVIOUS
  <2> HIDE DEF f
  <2>8. Sums(f, w, S, m)
    BY <2>4, <2>6, <2>7 DEF Sums, ChosenIn
  <2> QED
    BY <1>1, <2>8
<1> QED
  BY <1>2, <1>3


LEMMA SmallestSet ==
    ASSUME NEW S, IsFiniteSet(S), NEW T, T \subseteq SUBSET S, T # {}
    PROVE  \E s \in T : \A t \in T : t \subseteq s => t = s
<1>1. IsWellFoundedOn(StrictSubsetOrdering(S), SUBSET S)
  BY FS_StrictSubsetOrderingWellFounded, FS_FiniteSubsetsOfFinite
<1>2. PICK s \in T : \A t \in T : ~(<<t, s>> \in StrictSubsetOrdering(S))
  BY <1>1, WFMin
<1> QED
  BY <1>2 DEF StrictSubsetOrdering

\* A function defined as the community module defines a sum adds the chosen
\* element to the sum of the others.
Defines(f, w, S) ==
    f = [s \in SUBSET S |-> IF s = {} THEN 0 ELSE w[ChosenIn(s)] + f[s \ {ChosenIn(s)}]]

LEMMA SumIsNumber ==
    ASSUME NEW D \in {Nat, Int}, NEW S, IsFiniteSet(S), NEW w, \A x \in S : w[x] \in D,
           NEW f, Defines(f, w, S)
    PROVE  \A s \in SUBSET S : f[s] \in D
<1> DEFINE T == {s \in SUBSET S : f[s] \notin D}
<1> SUFFICES ASSUME T # {} PROVE FALSE
  OBVIOUS
<1>1. PICK s \in T : \A t \in T : t \subseteq s => t = s
  <2>1. T \subseteq SUBSET S
    OBVIOUS
  <2> HIDE DEF T
  <2> QED
    BY <2>1, SmallestSet
<1>2. f[s] = IF s = {} THEN 0 ELSE w[ChosenIn(s)] + f[s \ {ChosenIn(s)}]
  BY DEF Defines
<1>3. s # {}
  <2>1. 0 \in D
    OBVIOUS
  <2> QED
    BY <1>2, <2>1
<1>4. ChosenIn(s) \in s
  BY <1>3 DEF ChosenIn
<1>5. s \ {ChosenIn(s)} \notin T
  BY <1>1, <1>4
<1>6. w[ChosenIn(s)] \in D /\ f[s \ {ChosenIn(s)}] \in D
  BY <1>4, <1>5
<1>7. w[ChosenIn(s)] + f[s \ {ChosenIn(s)}] \in D
  BY <1>6
<1> QED
  BY <1>2, <1>3, <1>7

\* Two such functions agree where both are defined.
LEMMA SumsAgree ==
    ASSUME NEW S, IsFiniteSet(S), NEW R, NEW w, NEW f, Defines(f, w, S), NEW g, Defines(g, w, R)
    PROVE  \A s \in SUBSET (S \cap R) : f[s] = g[s]
<1> DEFINE T == {s \in SUBSET (S \cap R) : f[s] # g[s]}
<1> SUFFICES ASSUME T # {} PROVE FALSE
  OBVIOUS
<1>1. PICK s \in T : \A t \in T : t \subseteq s => t = s
  <2>1. T \subseteq SUBSET S
    OBVIOUS
  <2> HIDE DEF T
  <2> QED
    BY <2>1, SmallestSet
<1>2. f[s] = IF s = {} THEN 0 ELSE w[ChosenIn(s)] + f[s \ {ChosenIn(s)}]
  BY DEF Defines
<1>3. g[s] = IF s = {} THEN 0 ELSE w[ChosenIn(s)] + g[s \ {ChosenIn(s)}]
  BY DEF Defines
<1>4. s # {}
  BY <1>2, <1>3
<1>5. ChosenIn(s) \in s
  BY <1>4 DEF ChosenIn
<1>6. s \ {ChosenIn(s)} \notin T
  BY <1>1, <1>5
<1> QED
  BY <1>2, <1>3, <1>5, <1>6

LEMMA TotalDefined ==
    ASSUME NEW S, IsFiniteSet(S), NEW w, \A x \in S : w[x] \in Int
    PROVE  \E f : Defines(f, w, S) /\ Total(w, S) = f[S]
<1>1. PICK f : Sums(f, w, S, Cardinality(S))
  BY SumsExist, FS_CardinalityType
<1>2. \A s \in SUBSET S : Cardinality(s) <= Cardinality(S)
  BY FS_Subset
<1>3. Defines(f, w, S)
  BY <1>1, <1>2 DEF Sums, ChosenIn, Defines
<1> DEFINE g == CHOOSE g : Defines(g, w, S)
<1>4. Defines(g, w, S)
  BY <1>3
<1>5. Total(w, S) = g[S]
  BY DEF Total, MapThenSumSet, MapThenFoldSet, ChosenIn, Defines
<1> QED
  BY <1>4, <1>5

\* The sums over the parts of S are the values of S's own function.
LEMMA TotalOfPart ==
    ASSUME NEW S, IsFiniteSet(S), NEW w, \A x \in S : w[x] \in Int, NEW f, Defines(f, w, S),
           NEW s \in SUBSET S
    PROVE  Total(w, s) = f[s]
<1>1. IsFiniteSet(s) /\ \A x \in s : w[x] \in Int
  BY FS_Subset
<1>2. PICK g : Defines(g, w, s) /\ Total(w, s) = g[s]
  BY <1>1, TotalDefined
<1>3. s \in SUBSET (S \cap s)
  OBVIOUS
<1> QED
  BY <1>2, <1>3, SumsAgree

\* Any element may be taken out of the sum first.
AnyFirst(f, w, S) == \A s \in SUBSET S : \A y \in s : f[s] = w[y] + f[s \ {y}]

LEMMA AnyElementFirst ==
    ASSUME NEW S, IsFiniteSet(S), NEW w, \A x \in S : w[x] \in Int, NEW f, Defines(f, w, S)
    PROVE  AnyFirst(f, w, S)
<1> DEFINE T == {t \in SUBSET S : \E z \in t : f[t] # w[z] + f[t \ {z}]}
<1> SUFFICES ASSUME T # {} PROVE FALSE
  BY DEF AnyFirst
<1>1. PICK t \in T : \A u \in T : u \subseteq t => u = t
  <2>1. T \subseteq SUBSET S
    OBVIOUS
  <2> HIDE DEF T
  <2> QED
    BY <2>1, SmallestSet
<1>2. PICK z \in t : f[t] # w[z] + f[t \ {z}]
  OBVIOUS
<1> DEFINE x == ChosenIn(t)
<1>3. x \in t
  BY DEF ChosenIn
<1>4. f[t] = w[x] + f[t \ {x}]
  BY <1>3 DEF Defines
<1>5. x # z
  BY <1>2, <1>4
<1> HIDE DEF x
<1>6. t \ {x} \notin T /\ t \ {z} \notin T /\ t \ {x} \in SUBSET S /\ t \ {z} \in SUBSET S
  BY <1>1, <1>3
<1>7. f[t \ {x}] = w[z] + f[(t \ {x}) \ {z}]
  BY <1>5, <1>6
<1>8. f[t \ {z}] = w[x] + f[(t \ {z}) \ {x}]
  BY <1>3, <1>5, <1>6
<1>9. (t \ {x}) \ {z} = (t \ {z}) \ {x} /\ (t \ {z}) \ {x} \in SUBSET S
  OBVIOUS
<1>10. w[x] \in Int /\ w[z] \in Int /\ f[(t \ {z}) \ {x}] \in Int
  BY <1>3, <1>9, SumIsNumber
<1>11. f[t \ {x}] = w[z] + f[(t \ {z}) \ {x}]
  BY <1>7, <1>9
<1> DEFINE rest == f[(t \ {z}) \ {x}]
<1>12. w[x] + (w[z] + rest) = w[z] + (w[x] + rest)
  <2> HIDE DEF rest
  <2> QED
    BY <1>10 DEF rest
<1> QED
  BY <1>2, <1>4, <1>8, <1>11, <1>12

LEMMA TotalIsInt ==
    ASSUME NEW S, IsFiniteSet(S), NEW w, \A x \in S : w[x] \in Int
    PROVE  Total(w, S) \in Int
<1>1. PICK f : Defines(f, w, S) /\ Total(w, S) = f[S]
  BY TotalDefined
<1>2. \A s \in SUBSET S : f[s] \in Int
  BY <1>1, SumIsNumber
<1> QED
  BY <1>1, <1>2

LEMMA TotalIsNat ==
    ASSUME NEW S, IsFiniteSet(S), NEW w, \A x \in S : w[x] \in Nat
    PROVE  Total(w, S) \in Nat
<1>1. PICK f : Defines(f, w, S) /\ Total(w, S) = f[S]
  BY TotalDefined
<1>2. \A s \in SUBSET S : f[s] \in Nat
  BY <1>1, SumIsNumber
<1> QED
  BY <1>1, <1>2

LEMMA TotalEmpty == \A w : Total(w, {}) = 0
<1> TAKE w
<1>1. PICK f : Defines(f, w, {}) /\ Total(w, {}) = f[{}]
  BY TotalDefined, FS_EmptySet
<1> QED
  BY <1>1 DEF Defines

LEMMA TotalRemove ==
    ASSUME NEW S, IsFiniteSet(S), NEW w, \A x \in S : w[x] \in Int, NEW y \in S
    PROVE  Total(w, S) = w[y] + Total(w, S \ {y})
<1>1. PICK f : Defines(f, w, S) /\ Total(w, S) = f[S]
  BY TotalDefined
<1>2. Total(w, S \ {y}) = f[S \ {y}]
  BY <1>1, TotalOfPart
<1>3. f[S] = w[y] + f[S \ {y}]
  <2>1. AnyFirst(f, w, S)
    BY <1>1, AnyElementFirst
  <2> QED
    BY <2>1 DEF AnyFirst
<1> QED
  BY <1>1, <1>2, <1>3

\* A part may be summed apart from the rest, and equal numbers by counting them.
LEMMA TotalSplit ==
    ASSUME NEW S, IsFiniteSet(S), NEW w, \A x \in S : w[x] \in Int, NEW A \in SUBSET S
    PROVE  Total(w, S) = Total(w, S \ A) + Total(w, A)
<1> DEFINE T == {t \in SUBSET A : Total(w, S) # Total(w, S \ t) + Total(w, t)}
<1> SUFFICES ASSUME T # {} PROVE FALSE
  OBVIOUS
<1>1. PICK t \in T : \A u \in T : u \subseteq t => u = t
  <2>1. T \subseteq SUBSET A /\ IsFiniteSet(A)
    BY FS_Subset
  <2> HIDE DEF T
  <2> QED
    BY <2>1, SmallestSet
<1>2. t # {}
  <2> SUFFICES ASSUME t = {} PROVE FALSE
    OBVIOUS
  <2>1. S \ t = S /\ Total(w, t) = 0 /\ Total(w, S) \in Int
    BY TotalEmpty, TotalIsInt
  <2> QED
    BY <2>1
<1>3. PICK y \in t : TRUE
  BY <1>2
<1> DEFINE u == t \ {y}
           R == S \ u
<1>4. /\ IsFiniteSet(R) /\ IsFiniteSet(u) /\ IsFiniteSet(t) /\ y \in R /\ R \ {y} = S \ t
      /\ u \in SUBSET A /\ u \subseteq t /\ u # t /\ t \ {y} = u /\ t \subseteq S /\ R \subseteq S
      /\ u \subseteq S
  BY <1>3, FS_Subset
<1>5. Total(w, S) = Total(w, R) + Total(w, u)
  <2>1. u \notin T
    BY <1>1, <1>4
  <2> QED
    BY <1>4, <2>1
<1> HIDE DEF u, R
<1>6. Total(w, R) = w[y] + Total(w, R \ {y}) /\ Total(w, t) = w[y] + Total(w, t \ {y})
  BY <1>3, <1>4, TotalRemove
<1>7. IsFiniteSet(R \ {y})
  BY <1>4, FS_Subset
<1>8. Total(w, R \ {y}) \in Int /\ Total(w, u) \in Int /\ w[y] \in Int
  BY <1>3, <1>4, <1>7, TotalIsInt
<1>9. Total(w, S) = Total(w, R \ {y}) + Total(w, t)
  <2>1. /\ Total(w, S) = Total(w, R) + Total(w, u)
        /\ Total(w, R) = w[y] + Total(w, R \ {y})
        /\ Total(w, t) = w[y] + Total(w, u)
    BY <1>4, <1>5, <1>6
  <2>2. \A a, b, c \in Int : (a + b) + c = b + (a + c)
    OBVIOUS
  <2> QED
    BY <1>8, <2>1, <2>2
<1>10. t \in SUBSET A /\ Total(w, S) # Total(w, S \ t) + Total(w, t)
  BY <1>1
<1> QED
  BY <1>4, <1>9, <1>10

LEMMA TotalOfEqual ==
    ASSUME NEW S, IsFiniteSet(S), NEW d \in Int, NEW w, \A x \in S : w[x] = d
    PROVE  Total(w, S) = Cardinality(S) * d
<1> DEFINE T == {t \in SUBSET S : Total(w, t) # Cardinality(t) * d}
<1> SUFFICES ASSUME T # {} PROVE FALSE
  OBVIOUS
<1>1. PICK t \in T : \A u \in T : u \subseteq t => u = t
  <2>1. T \subseteq SUBSET S
    OBVIOUS
  <2> HIDE DEF T
  <2> QED
    BY <2>1, SmallestSet
<1>2. t # {}
  <2> SUFFICES ASSUME t = {} PROVE FALSE
    OBVIOUS
  <2>1. Total(w, t) = 0 /\ Cardinality(t) = 0
    BY TotalEmpty, FS_EmptySet
  <2>2. 0 * d = 0
    OBVIOUS
  <2> QED
    BY <2>1, <2>2
<1>3. PICK y \in t : TRUE
  BY <1>2
<1>4. IsFiniteSet(t) /\ Cardinality(t) \in Nat
  BY FS_Subset, FS_CardinalityType
<1>5. Total(w, t \ {y}) = Cardinality(t \ {y}) * d
  <2>1. t \ {y} \notin T
    BY <1>1, <1>3
  <2> QED
    BY <2>1
<1>6. Total(w, t) = d + Total(w, t \ {y})
  BY <1>3, <1>4, TotalRemove
<1>7. Cardinality(t \ {y}) = Cardinality(t) - 1
  BY <1>3, <1>4, FS_RemoveElement
<1>8. \A c \in Nat : d + (c - 1) * d = c * d
  OBVIOUS
<1> QED
  BY <1>4, <1>5, <1>6, <1>7, <1>8

\* What a set of pods asks for, with one more pod and with one less.
LEMMA RequestsTyped ==
    ASSUME NEW pods \in [Pods -> PodInfo], NEW A \in SUBSET Pods, IsFiniteSet(A)
    PROVE  Requests(pods, A) \in Quantities
<1>1. \A p \in A : pods[p].cpu \in Nat /\ pods[p].mem \in Nat
  BY DEF PodInfo
<1> QED
  BY <1>1, TotalIsNat DEF Requests, Quantities

LEMMA RequestsRemove ==
    ASSUME NEW pods \in [Pods -> PodInfo], NEW A \in SUBSET Pods, IsFiniteSet(A), NEW q \in A
    PROVE  Requests(pods, A) = Plus(Requests(pods, A \ {q}), pods[q])
<1> DEFINE C == [p \in Pods |-> pods[p].cpu]
           M == [p \in Pods |-> pods[p].mem]
<1>1. \A p \in A : C[p] \in Int /\ M[p] \in Int
  BY DEF PodInfo
<1>2. Total(C, A) = C[q] + Total(C, A \ {q}) /\ Total(M, A) = M[q] + Total(M, A \ {q})
  BY <1>1, TotalRemove
<1>3. C[q] = pods[q].cpu /\ M[q] = pods[q].mem
  OBVIOUS
<1>4. IsFiniteSet(A \ {q})
  BY FS_Subset
<1>5. Total(C, A \ {q}) \in Int /\ Total(M, A \ {q}) \in Int
  BY <1>1, <1>4, TotalIsInt
<1>6. Requests(pods, A).cpu = Total(C, A) /\ Requests(pods, A).mem = Total(M, A)
  BY DEF Requests
<1>7. /\ Requests(pods, A \ {q}).cpu = Total(C, A \ {q})
      /\ Requests(pods, A \ {q}).mem = Total(M, A \ {q})
  BY DEF Requests
<1>8. Requests(pods, A) = [cpu |-> Total(C, A), mem |-> Total(M, A)]
  BY DEF Requests
<1> HIDE DEF C, M
<1> QED
  BY <1>1, <1>2, <1>3, <1>5, <1>6, <1>7, <1>8 DEF Plus

LEMMA RequestsEmpty == \A pods : Requests(pods, {}) = Nothing
BY TotalEmpty DEF Requests, Nothing

\* A pod that joins asks for no more than itself, one that leaves for no less than nothing.
LEMMA RequestsBounded ==
    ASSUME NEW pods \in [Pods -> PodInfo], NEW A \in SUBSET Pods, IsFiniteSet(A), NEW q \in Pods
    PROVE  /\ Fits(Plus(Requests(pods, A), pods[q]), Requests(pods, A \cup {q}))
           /\ Fits(Requests(pods, A), Requests(pods, A \ {q}))
<1>1. /\ IsFiniteSet(A \ {q}) /\ A \ {q} \in SUBSET Pods
      /\ IsFiniteSet(A \cup {q}) /\ A \cup {q} \in SUBSET Pods
  BY FS_Subset, FS_AddElement
<1>2. /\ Requests(pods, A) \in Quantities /\ Requests(pods, A \ {q}) \in Quantities
      /\ pods[q].cpu \in Nat /\ pods[q].mem \in Nat
  BY <1>1, RequestsTyped DEF PodInfo
<1>3. CASE q \in A
  <2>1. A \cup {q} = A
    BY <1>3
  <2>2. Requests(pods, A) = Plus(Requests(pods, A \ {q}), pods[q])
    BY <1>3, RequestsRemove
  <2> QED
    BY <1>2, <2>1, <2>2 DEF Fits, Plus, Quantities
<1>4. CASE q \notin A
  <2>1. A \ {q} = A /\ (A \cup {q}) \ {q} = A
    BY <1>4
  <2>2. Requests(pods, A \cup {q}) = Plus(Requests(pods, A), pods[q])
    BY <1>1, <2>1, RequestsRemove
  <2> QED
    BY <1>2, <2>1, <2>2 DEF Fits, Plus, Quantities
<1> QED
  BY <1>3, <1>4

-----------------------------------------------------------------------------
(* Arithmetic of the ranking.                                               *)

\* Whatever the weighted sum comes to, the score is on the scale.
LEMMA ClampRange ==
    ASSUME NEW x \in Int
    PROVE  Clamp(x) \in Points
BY DEF Clamp, MinOf, MaxOf, Points

\* The numbers of a snapshot a score is computed from.
LEMMA SnapshotTyped ==
    ASSUME NEW c \in Clusters, NEW n \in Nodes
    PROVE  /\ c.alloc[n].cpu \in Nat /\ c.alloc[n].mem \in Nat
           /\ c.requested[n].cpu \in Nat /\ c.requested[n].mem \in Nat
           /\ c.podsOn[n] \in Seq(Pods)
           /\ \A p \in Pods : c.pods[p].cpu \in Nat /\ c.pods[p].mem \in Nat
<1>1. c \in Snapshots
  BY CycleAssumption
<1>2. c.alloc[n] \in Quantities /\ c.requested[n] \in Quantities
  BY <1>1 DEF Snapshots
<1>3. c.podsOn[n] \in Seq(Pods)
  BY <1>1 DEF Snapshots
<1>4. \A p \in Pods : c.pods[p] \in PodInfo
  BY <1>1 DEF Snapshots
<1> QED
  BY <1>2, <1>3, <1>4 DEF Quantities, PodInfo

\* The common denominator is a positive integer, so the division is defined.
LEMMA DenominatorPositive ==
    ASSUME NEW c \in Clusters, NEW n \in Nodes, ~NoCapacity(c, n)
    PROVE  ScoreDenominator(c, n) \in Nat \ {0}
<1> DEFINE A == c.alloc[n].cpu
           B == c.alloc[n].mem
<1>1. A \in Nat \ {0} /\ B \in Nat \ {0}
  BY SnapshotTyped DEF NoCapacity
<1>2. PodCount(c, n) \in Nat \ {0}
  BY SnapshotTyped DEF PodCount, MaxOf
<1>3. \A a, b \in Nat \ {0} : a * b \in Nat \ {0}
  OBVIOUS
<1>4. 2 * A \in Nat \ {0}
  BY <1>1
<1> HIDE DEF A, B
<1>5. 2 * A * B \in Nat \ {0}
  BY <1>1, <1>3, <1>4
<1>6. 2 * A * B * PodCount(c, n) \in Nat \ {0}
  BY <1>2, <1>3, <1>5
<1> QED
  BY <1>6 DEF ScoreDenominator, A, B

\* Sums and products of integers: the weighted sum is an integer.
LEMMA NumeratorTyped ==
    ASSUME NEW c \in Clusters, NEW n \in Nodes
    PROVE  ScoreNumerator(c, n) \in Int
<1> DEFINE A  == c.alloc[n].cpu
           B  == c.alloc[n].mem
           on == 1..Len(c.podsOn[n])
           total     == PodCount(c, n)
           unmovable == Cardinality({k \in on : ~c.pods[c.podsOn[n][k]].movable})
           budgeted  == Cardinality({k \in on : c.pods[c.podsOn[n][k]].hasPDB})
           cpuHead == A - MinOf(A, c.requested[n].cpu)
           memHead == B - MinOf(B, c.requested[n].mem)
<1>1. A \in Int /\ B \in Int
  BY SnapshotTyped
<1>2. total \in Int
  BY SnapshotTyped DEF PodCount, MaxOf
<1>3. cpuHead \in Int /\ memHead \in Int
  BY SnapshotTyped DEF MinOf
<1>4. IsFiniteSet(on)
  BY SnapshotTyped, FS_Interval
<1>5. unmovable \in Int
  <2>1. IsFiniteSet({k \in on : ~c.pods[c.podsOn[n][k]].movable})
    BY <1>4, FS_Subset
  <2> QED
    BY <2>1, FS_CardinalityType
<1>6. budgeted \in Int
  <2>1. IsFiniteSet({k \in on : c.pods[c.podsOn[n][k]].hasPDB})
    BY <1>4, FS_Subset
  <2> QED
    BY <2>1, FS_CardinalityType
<1>7. /\ CPUWeight \in Int /\ MemoryWeight \in Int
      /\ ConsolidationWeight \in Int /\ DisruptionWeight \in Int
  BY WaterlineAssumption
<1> HIDE DEF A, B, total, unmovable, budgeted, cpuHead, memHead
<1>8. \A a, b \in Int : a * b \in Int /\ a + b \in Int /\ a - b \in Int /\ AbsDiff(a, b) \in Int
  BY DEF AbsDiff
<1>9. 2 * total * (CPUWeight * cpuHead * B + MemoryWeight * memHead * A) \in Int
  BY <1>1, <1>2, <1>3, <1>7, <1>8
<1>10. ConsolidationWeight * (cpuHead * B + memHead * A) * (total - unmovable) \in Int
  BY <1>1, <1>2, <1>3, <1>5, <1>7, <1>8
<1>11. 5 * 2 * total * AbsDiff(cpuHead * B, memHead * A) \in Int
  BY <1>1, <1>2, <1>3, <1>8
<1>12. DisruptionWeight * 2 * A * B * (unmovable + budgeted) \in Int
  BY <1>1, <1>5, <1>6, <1>7, <1>8
<1> DEFINE w == 2 * total * (CPUWeight * cpuHead * B + MemoryWeight * memHead * A)
           x == ConsolidationWeight * (cpuHead * B + memHead * A) * (total - unmovable)
           y == 5 * 2 * total * AbsDiff(cpuHead * B, memHead * A)
           z == DisruptionWeight * 2 * A * B * (unmovable + budgeted)
<1>13. w \in Int /\ x \in Int /\ y \in Int /\ z \in Int
  BY <1>9, <1>10, <1>11, <1>12
<1>14. ScoreNumerator(c, n) = w + x + y - z
  BY Zenon DEF ScoreNumerator, A, B, total, unmovable, budgeted, cpuHead, memHead
<1> HIDE DEF w, x, y, z
<1> QED
  BY <1>13, <1>14

(* Every node's two ranking are on the scale.                               *)
LEMMA ScoreRange ==
    ASSUME NEW c \in Clusters, NEW n \in Nodes
    PROVE  ScoreNode(c, n).drain \in Points /\ ScoreNode(c, n).safety \in Points
<1>1. CASE NoCapacity(c, n)
  BY <1>1 DEF ScoreNode, Points
<1>2. CASE ~NoCapacity(c, n)
  <2>1. ScoreDenominator(c, n) \in Nat \ {0} /\ ScoreNumerator(c, n) \in Int
    BY <1>2, DenominatorPositive, NumeratorTyped
  <2>2. \A p \in Int, q \in Nat \ {0} : (200 * p + q) \div (2 * q) \in Int
    OBVIOUS
  <2> DEFINE points == (200 * ScoreNumerator(c, n) + ScoreDenominator(c, n))
                       \div (2 * ScoreDenominator(c, n))
  <2>3. points \in Int
    BY <2>1, <2>2
  <2> HIDE DEF points
  <2>4. Clamp(points) \in Points
    BY <2>3, ClampRange
  <2>5. DrainScoreOf(c, n) = Clamp(points)
    BY Zenon DEF DrainScoreOf, points
  <2>6. /\ ScoreNode(c, n).drain = DrainScoreOf(c, n)
        /\ ScoreNode(c, n).safety = 10000 - DrainScoreOf(c, n)
    BY <1>2 DEF ScoreNode
  <2>7. \A d \in Points : 10000 - d \in Points
    BY DEF Points
  <2> QED
    BY <2>4, <2>5, <2>6, <2>7
<1> QED
  BY <1>1, <1>2

-----------------------------------------------------------------------------
(* Type correctness.  The node in hand is read from scoredList[i], so the  *)
(* index has to be on the list wherever one is in hand, and at its start   *)
(* when the list is filled.                                                *)
IndexInv ==
    /\ pc = "score" => i = 1
    /\ pc \in {"testFit", "deductFit", "keep"} => i <= Len(scoredList)

PassTypeInv == PassTypeOK /\ IndexInv

LEMMA SortedOrdersTyped ==
    ASSUME NEW S \in SUBSET Nodes, NEW score, NEW order \in SortedOrders(S, score)
    PROVE  order \in Seq(Nodes)
<1>1. IsFiniteSet(S)
  BY ClusterAssumption, FS_Subset
<1>2. Cardinality(S) \in Nat
  BY <1>1, FS_CardinalityType
<1>3. order \in [1..Cardinality(S) -> Nodes]
  BY DEF SortedOrders
<1> QED
  BY <1>2, <1>3

\* The node in hand, and the pod of it in hand.
LEMMA CandidateTyped ==
    ASSUME PassTypeInv, i <= Len(scoredList)
    PROVE  /\ i \in 1..Len(scoredList)
           /\ Candidate \in Nodes
           /\ PodsOn(Candidate) \in Seq(Pods)
           /\ MorePods => /\ PodsOn(Candidate)[j] \in Pods
                          /\ PodAt(Candidate, j).cpu \in Nat
                          /\ PodAt(Candidate, j).mem \in Nat
<1>1. i \in 1..Len(scoredList) /\ scoredList \in Seq(Nodes)
  BY DEF PassTypeInv, PassTypeOK
<1>2. Candidate \in Nodes
  BY <1>1 DEF Candidate
<1>3. cluster \in Clusters /\ j \in Nat \ {0}
  BY DEF PassTypeInv, PassTypeOK
<1>4. PodsOn(Candidate) \in Seq(Pods)
  BY <1>2, <1>3, SnapshotTyped DEF PodsOn
<1>5. MorePods => PodsOn(Candidate)[j] \in Pods
  BY <1>3, <1>4 DEF MorePods
<1>6. \A p \in Pods : cluster.pods[p].cpu \in Nat /\ cluster.pods[p].mem \in Nat
  BY <1>2, <1>3, SnapshotTyped
<1> QED
  BY <1>1, <1>2, <1>4, <1>5, <1>6 DEF PodAt

LEMMA SpareTyped ==
    ASSUME NEW c \in Clusters, NEW n \in Nodes
    PROVE  Spare(c, n) \in Balance
BY SnapshotTyped DEF Spare, Minus, Balance

LEMMA AddSafeTyped ==
    ASSUME PassTypeOK, NEW n \in Nodes, AddSafe(n)
    PROVE  /\ remaining' \in [Nodes -> Balance]
           /\ role' \in [Nodes -> Roles]
           /\ {safeNodes', candidateNodes', neutralNodes'} \subseteq Seq(Nodes)
BY SpareTyped DEF AddSafe, PassTypeOK, Roles

LEMMA PassTypeInit == InitPass => PassTypeInv
<1> SUFFICES ASSUME InitPass PROVE PassTypeInv
  OBVIOUS
<1>1. [n \in Nodes |-> 0] \in [Nodes -> Points]
  BY DEF Points
<1>2. /\ [n \in Nodes |-> Nothing] \in [Nodes -> Balance]
      /\ [n \in Nodes |-> Nothing] \in [Nodes -> Quantities]
  BY DEF Nothing, Balance, Quantities
<1>3. [n \in Nodes |-> "none"] \in [Nodes -> Roles]
  BY DEF Roles
<1>4. <<>> \in Seq(Nodes) /\ Len(<<>>) = 0
  OBVIOUS
<1> QED
  BY <1>1, <1>2, <1>3, <1>4 DEF InitPass, PassTypeInv, PassTypeOK, IndexInv, Steps

LEMMA PassTypeStep == PassTypeInv /\ [PassNext]_passVars => PassTypeInv'
<1> SUFFICES ASSUME PassTypeInv, [PassNext]_passVars PROVE PassTypeInv'
  OBVIOUS
<1>t. /\ cluster \in Clusters
      /\ scoredList \in Seq(Nodes) /\ Len(scoredList) \in Nat
      /\ i \in 1..(Len(scoredList) + 1)
      /\ j \in Nat \ {0}
      /\ remaining \in [Nodes -> Balance] /\ working \in [Nodes -> Balance]
      /\ role \in [Nodes -> Roles]
      /\ safeNodes \in Seq(Nodes) /\ candidateNodes \in Seq(Nodes) /\ neutralNodes \in Seq(Nodes)
      /\ placement \in [Pods -> Nodes \cup {NoNode}]
      /\ moved \in [Nodes -> Quantities]
  BY DEF PassTypeInv, PassTypeOK
<1>f. FloorCount <= Len(scoredList)
  BY <1>t, WaterlineAssumption DEF FloorCount, MinOf
<1>1. CASE ScoreAndSort
  <2>1. /\ drainScore' \in [Nodes -> Points]
        /\ safetyScore' \in [Nodes -> Points]
    <3>1. 0 \in Points
      BY DEF Points
    <3> QED
      BY <1>1, <1>t, <3>1, ScoreRange DEF ScoreAndSort
  <2>2. cluster.eligible \in SUBSET Nodes
    BY <1>t, CycleAssumption DEF Snapshots
  <2>3. scoredList' \in Seq(Nodes)
    BY <1>1, <2>2, SortedOrdersTyped DEF ScoreAndSort
  <2>4. i' = 1 /\ pc' = "floor"
    BY <1>1 DEF ScoreAndSort, PassTypeInv, IndexInv
  <2>5. i' \in 1..(Len(scoredList') + 1)
    BY <2>3, <2>4
  <2> QED
    BY <1>1, <1>t, <2>1, <2>3, <2>4, <2>5
       DEF ScoreAndSort, PassTypeInv, PassTypeOK, IndexInv, Steps, lists, history
<1>2. CASE DesignateFloor
  <2>1. i \in 1..Len(scoredList)
    BY <1>2, <1>t, <1>f, WaterlineAssumption DEF DesignateFloor, FloorCount, MinOf
  <2>2. scoredList[i] \in Nodes /\ AddSafe(scoredList[i])
    BY <1>2, <1>t, <2>1 DEF DesignateFloor
  <2>3. /\ remaining' \in [Nodes -> Balance]
        /\ role' \in [Nodes -> Roles]
        /\ {safeNodes', candidateNodes', neutralNodes'} \subseteq Seq(Nodes)
    BY <2>2, AddSafeTyped DEF PassTypeInv
  <2>4. i' \in 1..(Len(scoredList) + 1) /\ pc = "floor"
    BY <1>2, <2>1, <1>t DEF DesignateFloor
  <2> QED
    BY <1>2, <2>3, <2>4 DEF DesignateFloor, PassTypeInv, PassTypeOK, IndexInv, ranking, history
<1>3. CASE FloorDone
  BY <1>3 DEF FloorDone, PassTypeInv, PassTypeOK, IndexInv, Steps, ranking, lists, history
<1>4. CASE ConsiderNode
  BY <1>4 DEF ConsiderNode, PassTypeInv, PassTypeOK, IndexInv, Steps, ranking, lists, history
<1>5. CASE TestFitPod
  <2>1. i <= Len(scoredList) /\ MorePods /\ pc = "testFit"
    BY <1>5 DEF TestFitPod, PassTypeInv, IndexInv
  <2>2. PodAt(Candidate, j).cpu \in Nat /\ PodAt(Candidate, j).mem \in Nat
    BY <2>1, CandidateTyped
  <2>3. ASSUME NEW k \in 1..Len(safeNodes),
               working' = [working EXCEPT ![safeNodes[k]] = Minus(@, PodAt(Candidate, j))]
        PROVE  working' \in [Nodes -> Balance]
    <3>1. safeNodes[k] \in Nodes /\ working[safeNodes[k]] \in Balance
      BY <1>t
    <3>2. Minus(working[safeNodes[k]], PodAt(Candidate, j)) \in Balance
      BY <2>2, <3>1 DEF Minus, Balance
    <3> QED
      BY <1>t, <2>3, <3>1, <3>2
  <2>4. working' \in [Nodes -> Balance] /\ j' \in Nat \ {0} /\ pc' \in {"testFit", "keep"}
    BY <1>5, <1>t, <2>1, <2>3 DEF TestFitPod
  <2> QED
    BY <1>5, <2>1, <2>4 DEF TestFitPod, PassTypeInv, PassTypeOK, IndexInv, Steps, ranking, lists, history
<1>6. CASE AcceptCandidate
  <2>1. i <= Len(scoredList)
    BY <1>6 DEF AcceptCandidate, PassTypeInv, IndexInv
  <2>2. Candidate \in Nodes
    BY <2>1, CandidateTyped
  <2>3. candidateNodes' \in Seq(Nodes) /\ role' \in [Nodes -> Roles]
    BY <1>6, <1>t, <2>2 DEF AcceptCandidate, Roles
  <2> QED
    BY <1>6, <2>1, <2>3 DEF AcceptCandidate, PassTypeInv, PassTypeOK, IndexInv, Steps, ranking, history
<1>7. CASE DeductFitPod
  <2>1. i <= Len(scoredList) /\ MorePods /\ pc = "deductFit"
    BY <1>7 DEF DeductFitPod, PassTypeInv, IndexInv
  <2>2. /\ PodsOn(Candidate)[j] \in Pods
        /\ PodAt(Candidate, j).cpu \in Nat /\ PodAt(Candidate, j).mem \in Nat
    BY <2>1, CandidateTyped
  <2>3. ASSUME NEW k \in 1..Len(safeNodes),
               remaining' = [remaining EXCEPT ![safeNodes[k]] = Minus(@, PodAt(Candidate, j))],
               moved' = [moved EXCEPT ![safeNodes[k]] = Plus(@, PodAt(Candidate, j))],
               placement' = [placement EXCEPT ![PodsOn(Candidate)[j]] = safeNodes[k]]
        PROVE  /\ remaining' \in [Nodes -> Balance]
               /\ moved' \in [Nodes -> Quantities]
               /\ placement' \in [Pods -> Nodes \cup {NoNode}]
    <3>1. /\ safeNodes[k] \in Nodes
          /\ remaining[safeNodes[k]] \in Balance /\ moved[safeNodes[k]] \in Quantities
      BY <1>t
    <3>2. Minus(remaining[safeNodes[k]], PodAt(Candidate, j)) \in Balance
      BY <2>2, <3>1 DEF Minus, Balance
    <3>3. Plus(moved[safeNodes[k]], PodAt(Candidate, j)) \in Quantities
      BY <2>2, <3>1 DEF Plus, Quantities
    <3> QED
      BY <1>t, <2>2, <2>3, <3>1, <3>2, <3>3
  <2>4. /\ remaining' \in [Nodes -> Balance]
        /\ moved' \in [Nodes -> Quantities]
        /\ placement' \in [Pods -> Nodes \cup {NoNode}]
    BY <1>7, <1>t, <2>3 DEF DeductFitPod, history
  <2>5. j' \in Nat \ {0}
    BY <1>7, <1>t DEF DeductFitPod
  <2> QED
    BY <1>7, <2>1, <2>4, <2>5 DEF DeductFitPod, PassTypeInv, PassTypeOK, IndexInv, ranking, lists
<1>8. CASE NodeDrained
  <2>1. i' \in 1..(Len(scoredList) + 1)
    BY <1>8, <1>t DEF NodeDrained, PassTypeInv, IndexInv
  <2> QED
    BY <1>8, <2>1 DEF NodeDrained, PassTypeInv, PassTypeOK, IndexInv, Steps, ranking, lists, history
<1>9. CASE KeepNode
  <2>1. i <= Len(scoredList)
    BY <1>9 DEF KeepNode, PassTypeInv, IndexInv
  <2>2. Candidate \in Nodes
    BY <2>1, CandidateTyped
  <2>3. /\ remaining' \in [Nodes -> Balance]
        /\ role' \in [Nodes -> Roles]
        /\ {safeNodes', candidateNodes', neutralNodes'} \subseteq Seq(Nodes)
    <3>1. CASE AddSafe(Candidate)
      BY <2>2, <3>1, AddSafeTyped DEF PassTypeInv
    <3>2. CASE /\ role' = [role EXCEPT ![Candidate] = "neutral"]
               /\ neutralNodes' = Append(neutralNodes, Candidate)
               /\ UNCHANGED <<safeNodes, candidateNodes, remaining>>
      BY <1>t, <2>2, <3>2 DEF Roles
    <3> QED
      BY <1>9, <3>1, <3>2 DEF KeepNode
  <2>4. i' \in 1..(Len(scoredList) + 1)
    BY <1>9, <2>1, <1>t DEF KeepNode
  <2> QED
    BY <1>9, <2>3, <2>4 DEF KeepNode, PassTypeInv, PassTypeOK, IndexInv, Steps, ranking, history
<1>10. CASE Finish
  BY <1>10 DEF Finish, PassTypeInv, PassTypeOK, IndexInv, Steps, ranking, lists, history
<1>11. CASE StartAnew
  <2>1. [n \in Nodes |-> 0] \in [Nodes -> Points]
    BY DEF Points
  <2>2. /\ [n \in Nodes |-> Nothing] \in [Nodes -> Balance]
        /\ [n \in Nodes |-> Nothing] \in [Nodes -> Quantities]
    BY DEF Nothing, Balance, Quantities
  <2>3. [n \in Nodes |-> "none"] \in [Nodes -> Roles]
    BY DEF Roles
  <2>4. <<>> \in Seq(Nodes) /\ Len(<<>>) = 0
    OBVIOUS
  <2> QED
    BY <1>11, <2>1, <2>2, <2>3, <2>4
       DEF StartAnew, StartPass, PassTypeInv, PassTypeOK, IndexInv, Steps
<1>12. CASE UNCHANGED passVars
  BY <1>12 DEF passVars, PassTypeInv, PassTypeOK, IndexInv, ranking, lists, history
<1> QED
  BY <1>1, <1>2, <1>3, <1>4, <1>5, <1>6, <1>7, <1>8, <1>9, <1>10, <1>11, <1>12
     DEF PassNext, Evaluate

-----------------------------------------------------------------------------
(* Joint capacity.  deductFit keeps the balance of each safe node exactly: *)
(* what remains is what the node had minus all that was moved onto it, and *)
(* as each deduction was preceded by a test it is never overdrawn.  That   *)
(* holds because a node is given its role once: the nodes still ahead in   *)
(* the list have none, so no safe node is offered twice or drained later.  *)
AheadInv ==
    /\ pc = "score" => \A n \in Nodes : role[n] = "none"
    /\ \A a, b \in 1..Len(scoredList) : a # b => scoredList[a] # scoredList[b]
    /\ \A a \in 1..Len(scoredList) :
         a > i \/ (a = i /\ pc # "deductFit") => role[scoredList[a]] = "none"

SafeInv == \A k \in 1..Len(safeNodes) : role[safeNodes[k]] = "safe"

BalanceInv ==
    \A n \in Nodes :
        /\ role[n] = "safe" => remaining[n] = Minus(Spare(cluster, n), moved[n])
        /\ role[n] # "safe" => moved[n] = Nothing
        /\ moved[n] # Nothing => remaining[n].cpu >= 0 /\ remaining[n].mem >= 0

CapInv == PassTypeInv /\ AheadInv /\ SafeInv /\ BalanceInv

\* The invariant in one node's balance: nothing promised that is not there.
LEMMA BalanceRespected == CapInv => CapacityRespected
<1> SUFFICES ASSUME CapInv, NEW n \in Nodes, moved[n] # Nothing
             PROVE  Fits(cluster.alloc[n], Plus(cluster.requested[n], moved[n]))
  BY DEF CapacityRespected
<1>1. /\ remaining[n] = Minus(Spare(cluster, n), moved[n])
      /\ remaining[n].cpu >= 0 /\ remaining[n].mem >= 0
  BY DEF CapInv, BalanceInv
<1>2. cluster \in Clusters /\ moved[n] \in Quantities
  BY DEF CapInv, PassTypeInv, PassTypeOK
<1>3. /\ cluster.alloc[n].cpu \in Nat /\ cluster.alloc[n].mem \in Nat
      /\ cluster.requested[n].cpu \in Nat /\ cluster.requested[n].mem \in Nat
      /\ moved[n].cpu \in Nat /\ moved[n].mem \in Nat
  BY <1>2, SnapshotTyped DEF Quantities
<1> QED
  BY <1>1, <1>3 DEF Fits, Plus, Minus, Spare

LEMMA SortedOrdersInjective ==
    ASSUME NEW S \in SUBSET Nodes, NEW score, NEW order \in SortedOrders(S, score)
    PROVE  \A a, b \in 1..Len(order) : a # b => order[a] # order[b]
<1>1. IsFiniteSet(S)
  BY ClusterAssumption, FS_Subset
<1>2. Cardinality(S) \in Nat
  BY <1>1, FS_CardinalityType
<1>3. Len(order) = Cardinality(S)
  BY <1>2 DEF SortedOrders
<1>4. \A a, b \in 1..Cardinality(S) : a < b => order[a] # order[b]
  BY DEF SortedOrders
<1> QED
  BY <1>2, <1>3, <1>4

\* A node without a role joins the safe list: its balance starts at its spare room.
LEMMA AddSafeBalance ==
    ASSUME CapInv, NEW n \in Nodes, role[n] = "none", AddSafe(n),
           UNCHANGED <<cluster, history>>
    PROVE  SafeInv' /\ BalanceInv'
<1>1. /\ cluster \in Clusters /\ role \in [Nodes -> Roles]
      /\ remaining \in [Nodes -> Balance] /\ safeNodes \in Seq(Nodes)
  BY DEF CapInv, PassTypeInv, PassTypeOK
<1>2. SafeInv'
  <2> SUFFICES ASSUME NEW k \in 1..Len(safeNodes') PROVE role'[safeNodes'[k]] = "safe"
    BY DEF SafeInv
  <2>1. safeNodes' = Append(safeNodes, n) /\ role' = [role EXCEPT ![n] = "safe"]
    BY DEF AddSafe
  <2>2. CASE k \in 1..Len(safeNodes)
    <3>1. safeNodes'[k] = safeNodes[k] /\ safeNodes[k] \in Nodes
      BY <1>1, <2>1, <2>2
    <3>2. role[safeNodes[k]] = "safe"
      BY <2>2 DEF CapInv, SafeInv
    <3> QED
      BY <1>1, <2>1, <3>1, <3>2
  <2>3. CASE k = Len(safeNodes) + 1
    BY <1>1, <2>1, <2>3
  <2> QED
    BY <1>1, <2>1, <2>2, <2>3
<1>3. BalanceInv'
  <2> SUFFICES ASSUME NEW m \in Nodes
               PROVE  /\ role'[m] = "safe" => remaining'[m] = Minus(Spare(cluster, m), moved[m])
                      /\ role'[m] # "safe" => moved[m] = Nothing
                      /\ moved[m] # Nothing => remaining'[m].cpu >= 0 /\ remaining'[m].mem >= 0
    BY DEF BalanceInv, history, Spare
  <2>1. role' = [role EXCEPT ![n] = "safe"] /\ remaining' = [remaining EXCEPT ![n] = Spare(cluster, n)]
    BY DEF AddSafe
  <2>2. CASE m = n
    <3>1. moved[n] = Nothing
      BY DEF CapInv, BalanceInv
    <3>2. remaining'[n] = Spare(cluster, n) /\ role'[n] = "safe"
      BY <1>1, <2>1
    <3>3. Minus(Spare(cluster, n), Nothing) = Spare(cluster, n)
      BY <1>1, SpareTyped DEF Minus, Nothing, Balance
    <3> QED
      BY <2>2, <3>1, <3>2, <3>3
  <2>3. CASE m # n
    <3>1. role'[m] = role[m] /\ remaining'[m] = remaining[m]
      BY <1>1, <2>1, <2>3
    <3> QED
      BY <3>1 DEF CapInv, BalanceInv
  <2> QED
    BY <2>2, <2>3
<1> QED
  BY <1>2, <1>3

\* A node without a role is kept out of the safe list: no balance is touched.
LEMMA OtherRoleBalance ==
    ASSUME CapInv, NEW n \in Nodes, role[n] = "none", NEW r \in {"candidate", "neutral"},
           role' = [role EXCEPT ![n] = r], UNCHANGED <<cluster, history, safeNodes, remaining>>
    PROVE  SafeInv' /\ BalanceInv'
<1>1. role \in [Nodes -> Roles] /\ safeNodes \in Seq(Nodes)
  BY DEF CapInv, PassTypeInv, PassTypeOK
<1>2. \A m \in Nodes : m # n => role'[m] = role[m]
  BY <1>1
<1>3. role'[n] # "safe" /\ role[n] # "safe"
  BY <1>1
<1>4. \A k \in 1..Len(safeNodes) : safeNodes[k] \in Nodes /\ role[safeNodes[k]] = "safe"
  BY <1>1 DEF CapInv, SafeInv
<1>5. SafeInv'
  BY <1>2, <1>3, <1>4 DEF SafeInv
<1>6. BalanceInv'
  <2> SUFFICES ASSUME NEW m \in Nodes
               PROVE  /\ role'[m] = "safe" => remaining[m] = Minus(Spare(cluster, m), moved[m])
                      /\ role'[m] # "safe" => moved[m] = Nothing
                      /\ moved[m] # Nothing => remaining[m].cpu >= 0 /\ remaining[m].mem >= 0
    BY DEF BalanceInv, history, Spare
  <2> QED
    BY <1>2, <1>3 DEF CapInv, BalanceInv
<1> QED
  BY <1>5, <1>6

\* Deducting two amounts one after the other is deducting their sum.
LEMMA DeductTwice ==
    ASSUME NEW s, NEW m, NEW x,
           s.cpu \in Int, s.mem \in Int, m.cpu \in Int, m.mem \in Int,
           x.cpu \in Int, x.mem \in Int
    PROVE  Minus(Minus(s, m), x) = Minus(s, Plus(m, x))
<1>1. /\ (s.cpu - m.cpu) - x.cpu = s.cpu - (m.cpu + x.cpu)
      /\ (s.mem - m.mem) - x.mem = s.mem - (m.mem + x.mem)
  OBVIOUS
<1> QED
  BY <1>1 DEF Minus, Plus

\* The pod in hand moves onto the k-th safe node, which has room for it.
LEMMA DeductBalance ==
    ASSUME CapInv, i <= Len(scoredList), MorePods,
           NEW k \in 1..Len(safeNodes), TakesFirst(remaining, PodAt(Candidate, j), k),
           remaining' = [remaining EXCEPT ![safeNodes[k]] = Minus(@, PodAt(Candidate, j))],
           moved' = [moved EXCEPT ![safeNodes[k]] = Plus(@, PodAt(Candidate, j))],
           UNCHANGED <<cluster, role, safeNodes>>
    PROVE  BalanceInv'
<1> DEFINE n == safeNodes[k]
           q == PodAt(Candidate, j)
<1>1. /\ cluster \in Clusters /\ n \in Nodes
      /\ remaining \in [Nodes -> Balance] /\ moved \in [Nodes -> Quantities]
  BY DEF CapInv, PassTypeInv, PassTypeOK
<1>2. q.cpu \in Nat /\ q.mem \in Nat
  BY CandidateTyped DEF CapInv
<1>3. role[n] = "safe"
  BY DEF CapInv, SafeInv
<1>4. remaining[n] = Minus(Spare(cluster, n), moved[n])
  BY <1>1, <1>3 DEF CapInv, BalanceInv
<1>5. remaining[n].cpu >= q.cpu /\ remaining[n].mem >= q.mem
  BY DEF TakesFirst, Fits
<1>6. remaining'[n] = Minus(remaining[n], q) /\ moved'[n] = Plus(moved[n], q)
  BY <1>1
<1>7. \A m \in Nodes : m # n => remaining'[m] = remaining[m] /\ moved'[m] = moved[m]
  BY <1>1
<1> HIDE DEF n, q
<1>8. /\ Spare(cluster, n) \in Balance /\ moved[n] \in Quantities /\ remaining[n] \in Balance
  BY <1>1, SpareTyped
<1>9. remaining'[n] = Minus(Spare(cluster, n), moved'[n])
  <2>1. /\ Spare(cluster, n).cpu \in Int /\ Spare(cluster, n).mem \in Int
        /\ moved[n].cpu \in Int /\ moved[n].mem \in Int
    BY <1>8 DEF Balance, Quantities
  <2>2. Minus(Minus(Spare(cluster, n), moved[n]), q)
          = Minus(Spare(cluster, n), Plus(moved[n], q))
    BY <1>2, <2>1, DeductTwice
  <2> QED
    BY <1>4, <1>6, <2>2
<1>10. remaining'[n].cpu >= 0 /\ remaining'[n].mem >= 0
  BY <1>2, <1>5, <1>6, <1>8 DEF Minus, Balance
<1> SUFFICES ASSUME NEW m \in Nodes
             PROVE  /\ role[m] = "safe" => remaining'[m] = Minus(Spare(cluster, m), moved'[m])
                    /\ role[m] # "safe" => moved'[m] = Nothing
                    /\ moved'[m] # Nothing => remaining'[m].cpu >= 0 /\ remaining'[m].mem >= 0
  BY DEF BalanceInv, Spare
<1>11. CASE m = n
  BY <1>3, <1>9, <1>10, <1>11
<1>12. CASE m # n
  BY <1>7, <1>12 DEF CapInv, BalanceInv
<1> QED
  BY <1>11, <1>12

LEMMA CapInit == InitPass => CapInv
<1> SUFFICES ASSUME InitPass PROVE CapInv
  OBVIOUS
<1>1. /\ scoredList = <<>> /\ safeNodes = <<>>
      /\ \A n \in Nodes : role[n] = "none" /\ moved[n] = Nothing
  BY DEF InitPass
<1> QED
  BY <1>1, PassTypeInit DEF CapInv, AheadInv, SafeInv, BalanceInv

\* Steps that change neither roles, list nor balances, and only move ahead.
LEMMA QuietStep ==
    ASSUME CapInv, PassTypeInv', pc' # "score",
           UNCHANGED <<cluster, scoredList, role, safeNodes, remaining, moved>>,
           \/ i' = i /\ (pc # "deductFit" \/ pc' = "deductFit")
           \/ i' = i + 1
    PROVE  CapInv'
<1>1. i \in Int /\ Len(scoredList) \in Nat
  BY DEF CapInv, PassTypeInv, PassTypeOK
<1>2. AheadInv'
  <2>1. \A a \in 1..Len(scoredList) :
          a > i' \/ (a = i' /\ pc' # "deductFit") => a > i \/ (a = i /\ pc # "deductFit")
    BY <1>1
  <2> QED
    BY <2>1 DEF CapInv, AheadInv
<1>3. SafeInv' /\ BalanceInv'
  BY DEF CapInv, SafeInv, BalanceInv, Spare
<1> QED
  BY <1>2, <1>3 DEF CapInv

\* A step that settles the role of the node in hand leaves those ahead alone.
LEMMA SettleAhead ==
    ASSUME CapInv, i \in 1..Len(scoredList), NEW r,
           role' = [role EXCEPT ![scoredList[i]] = r],
           scoredList' = scoredList, pc' # "score",
           i' = i + 1 \/ (i' = i /\ pc' = "deductFit")
    PROVE  AheadInv'
<1>1. /\ scoredList \in Seq(Nodes) /\ role \in [Nodes -> Roles] /\ i \in Int
  BY DEF CapInv, PassTypeInv, PassTypeOK
<1>2. ASSUME NEW a \in 1..Len(scoredList), a > i' \/ (a = i' /\ pc' # "deductFit")
      PROVE  role'[scoredList[a]] = "none"
  <2>1. a > i
    BY <1>1, <1>2
  <2>2. scoredList[a] # scoredList[i] /\ scoredList[a] \in Nodes
    BY <1>1, <2>1 DEF CapInv, AheadInv
  <2>3. role[scoredList[a]] = "none"
    BY <2>1 DEF CapInv, AheadInv
  <2> QED
    BY <1>1, <2>2, <2>3
<1> QED
  BY <1>2 DEF CapInv, AheadInv

LEMMA CapStep == CapInv /\ [PassNext]_passVars => CapInv'
<1> SUFFICES ASSUME CapInv, [PassNext]_passVars PROVE CapInv'
  OBVIOUS
<1>t. PassTypeInv'
  BY PassTypeStep DEF CapInv
<1>n. /\ i \in Int /\ scoredList \in Seq(Nodes) /\ Len(scoredList) \in Nat
      /\ cluster \in Clusters
  BY DEF CapInv, PassTypeInv, PassTypeOK
<1>1. CASE ScoreAndSort
  <2>1. /\ scoredList' \in SortedOrders(cluster.eligible, safetyScore')
        /\ UNCHANGED <<cluster, role, safeNodes, remaining, moved>>
        /\ \A n \in Nodes : role[n] = "none"
    BY <1>1 DEF ScoreAndSort, CapInv, AheadInv, lists, history
  <2>2. cluster.eligible \in SUBSET Nodes
    BY <1>n, CycleAssumption DEF Snapshots
  <2>3. scoredList' \in Seq(Nodes)
    BY <2>1, <2>2, SortedOrdersTyped
  <2>4. \A a, b \in 1..Len(scoredList') : a # b => scoredList'[a] # scoredList'[b]
    BY <2>1, <2>2, SortedOrdersInjective
  <2>5. \A a \in 1..Len(scoredList') : role'[scoredList'[a]] = "none"
    BY <2>1, <2>3
  <2>6. AheadInv'
    BY <2>1, <2>4, <2>5 DEF AheadInv
  <2>7. SafeInv' /\ BalanceInv'
    BY <2>1 DEF CapInv, SafeInv, BalanceInv, Spare
  <2> QED
    BY <1>t, <2>6, <2>7 DEF CapInv
<1>2. CASE DesignateFloor
  <2>1. i \in 1..Len(scoredList)
    BY <1>2, <1>n, WaterlineAssumption
       DEF DesignateFloor, FloorCount, MinOf, CapInv, PassTypeInv, PassTypeOK
  <2>2. /\ scoredList[i] \in Nodes /\ AddSafe(scoredList[i])
        /\ i' = i + 1 /\ pc = "floor" /\ pc' = "floor" /\ scoredList' = scoredList
        /\ UNCHANGED <<cluster, history>>
    BY <1>2, <1>n, <2>1 DEF DesignateFloor, ranking
  <2>3. role[scoredList[i]] = "none"
    BY <2>1, <2>2 DEF CapInv, AheadInv
  <2>4. SafeInv' /\ BalanceInv'
    BY <2>2, <2>3, AddSafeBalance
  <2>5. AheadInv'
    <3>1. role' = [role EXCEPT ![scoredList[i]] = "safe"]
      BY <2>2 DEF AddSafe
    <3> QED
      BY <2>1, <2>2, <3>1, SettleAhead
  <2> QED
    BY <1>t, <2>4, <2>5 DEF CapInv
<1>3. CASE FloorDone
  BY <1>3, <1>t, QuietStep DEF FloorDone, ranking, lists, history
<1>4. CASE ConsiderNode
  BY <1>4, <1>t, QuietStep DEF ConsiderNode, ranking, lists, history
<1>5. CASE TestFitPod
  <2>1. pc = "testFit" /\ pc' # "score" /\ i' = i
    BY <1>5 DEF TestFitPod
  <2>2. UNCHANGED <<cluster, scoredList, role, safeNodes, remaining, moved>>
    BY <1>5 DEF TestFitPod, ranking, lists, history
  <2> QED
    BY <1>t, <2>1, <2>2, QuietStep
<1>6. CASE AcceptCandidate
  <2>1. i \in 1..Len(scoredList)
    BY <1>6, <1>n, CandidateTyped DEF AcceptCandidate, CapInv, PassTypeInv, IndexInv
  <2>2. /\ Candidate \in Nodes /\ Candidate = scoredList[i]
        /\ role' = [role EXCEPT ![Candidate] = "candidate"]
        /\ pc = "testFit" /\ pc' = "deductFit" /\ i' = i /\ scoredList' = scoredList
        /\ UNCHANGED <<cluster, history, safeNodes, remaining>>
    BY <1>6, <1>n, <2>1 DEF AcceptCandidate, ranking, Candidate
  <2>3. role[Candidate] = "none"
    BY <2>1, <2>2 DEF CapInv, AheadInv
  <2>4. SafeInv' /\ BalanceInv'
    BY <2>2, <2>3, OtherRoleBalance
  <2>5. AheadInv'
    BY <2>1, <2>2, SettleAhead
  <2> QED
    BY <1>t, <2>4, <2>5 DEF CapInv
<1>7. CASE DeductFitPod
  <2>1. /\ i <= Len(scoredList) /\ MorePods
        /\ pc = "deductFit" /\ pc' = pc /\ i' = i /\ scoredList' = scoredList
        /\ UNCHANGED <<cluster, role, safeNodes>>
    BY <1>7 DEF DeductFitPod, CapInv, PassTypeInv, IndexInv, ranking, lists
  <2>2. AheadInv' /\ SafeInv'
    BY <2>1 DEF CapInv, AheadInv, SafeInv
  <2>3. CASE \E k \in 1..Len(safeNodes) :
               /\ TakesFirst(remaining, PodAt(Candidate, j), k)
               /\ remaining' = [remaining EXCEPT ![safeNodes[k]] = Minus(@, PodAt(Candidate, j))]
               /\ moved' = [moved EXCEPT ![safeNodes[k]] = Plus(@, PodAt(Candidate, j))]
    BY <1>t, <2>1, <2>2, <2>3, DeductBalance DEF CapInv
  <2>4. CASE UNCHANGED <<remaining, history>>
    BY <1>t, <2>1, <2>4, QuietStep DEF history
  <2> QED
    BY <1>7, <2>3, <2>4 DEF DeductFitPod
<1>8. CASE NodeDrained
  BY <1>8, <1>t, QuietStep DEF NodeDrained, ranking, lists, history
<1>9. CASE KeepNode
  <2>1. i \in 1..Len(scoredList)
    BY <1>9, <1>n, CandidateTyped DEF KeepNode, CapInv, PassTypeInv, IndexInv
  <2>2. /\ Candidate \in Nodes /\ Candidate = scoredList[i]
        /\ pc = "keep" /\ pc' = "node" /\ i' = i + 1 /\ scoredList' = scoredList
        /\ UNCHANGED <<cluster, history>>
    BY <1>9, <1>n, <2>1 DEF KeepNode, ranking, Candidate
  <2>3. role[Candidate] = "none"
    BY <2>1, <2>2 DEF CapInv, AheadInv
  <2>4. CASE AddSafe(Candidate)
    <3>1. SafeInv' /\ BalanceInv'
      BY <2>2, <2>3, <2>4, AddSafeBalance
    <3>2. role' = [role EXCEPT ![Candidate] = "safe"]
      BY <2>4 DEF AddSafe
    <3> QED
      BY <1>t, <2>1, <2>2, <3>1, <3>2, SettleAhead DEF CapInv
  <2>5. CASE /\ role' = [role EXCEPT ![Candidate] = "neutral"]
             /\ UNCHANGED <<safeNodes, remaining>>
    <3>1. SafeInv' /\ BalanceInv'
      BY <2>2, <2>3, <2>5, OtherRoleBalance
    <3> QED
      BY <1>t, <2>1, <2>2, <2>5, <3>1, SettleAhead DEF CapInv
  <2> QED
    BY <1>9, <2>4, <2>5 DEF KeepNode
<1>10. CASE Finish
  BY <1>10, <1>t, QuietStep DEF Finish, ranking, lists, history
<1>11. CASE StartAnew
  <2>1. /\ scoredList' = <<>> /\ safeNodes' = <<>>
        /\ \A n \in Nodes : role'[n] = "none" /\ moved'[n] = Nothing
    BY <1>11 DEF StartAnew, StartPass
  <2> QED
    BY <1>t, <2>1 DEF CapInv, AheadInv, SafeInv, BalanceInv
<1>12. CASE UNCHANGED passVars
  <2>1. UNCHANGED <<cluster, pc, scoredList, i, role, safeNodes, remaining, moved>>
    BY <1>12 DEF passVars, ranking, lists, history
  <2> QED
    BY <1>t, <2>1 DEF CapInv, AheadInv, SafeInv, BalanceInv, Spare
<1> QED
  BY <1>1, <1>2, <1>3, <1>4, <1>5, <1>6, <1>7, <1>8, <1>9, <1>10, <1>11, <1>12
     DEF PassNext, Evaluate


-----------------------------------------------------------------------------
(* The order of the pass.                                                  *)

\* What sort.Slice returns is a permutation, by falling score.
LEMMA SortedOrdersComplete ==
    ASSUME NEW S \in SUBSET Nodes, NEW score, NEW order \in SortedOrders(S, score)
    PROVE  /\ Len(order) = Cardinality(S)
           /\ {order[a] : a \in 1..Len(order)} = S
           /\ \A a, b \in 1..Len(order) : a < b => score[order[a]] >= score[order[b]]
<1>1. IsFiniteSet(S)
  BY ClusterAssumption, FS_Subset
<1>2. Cardinality(S) \in Nat
  BY <1>1, FS_CardinalityType
<1> DEFINE D == 1..Cardinality(S)
<1>3. order \in [D -> S] /\ Len(order) = Cardinality(S)
  BY <1>2 DEF SortedOrders
<1>4. \A a, b \in D : order[a] = order[b] => a = b
  BY <1>2 DEF SortedOrders
<1>5. IsFiniteSet(D) /\ Cardinality(D) = Cardinality(S)
  BY <1>2, FS_Interval
<1> HIDE DEF D
<1>6. order \in Injection(D, S)
  BY <1>3, <1>4, Fun_IsInj
<1>7. order \in Surjection(D, S)
  BY <1>1, <1>5, <1>6, FS_Injection
<1>8. {order[a] : a \in D} = S
  BY <1>3, <1>7, Fun_SurjectionProperties
<1> QED
  BY <1>3, <1>8 DEF D, SortedOrders

(* The list enumerates the eligible nodes by falling safety, and what the  *)
(* pass has behind it of the floor is safe.                                *)
OrderInv ==
    pc # "score" =>
        /\ Len(scoredList) = Cardinality(cluster.eligible)
        /\ {scoredList[a] : a \in 1..Len(scoredList)} = cluster.eligible
        /\ \A a, b \in 1..Len(scoredList) :
             a < b => safetyScore[scoredList[a]] >= safetyScore[scoredList[b]]

FloorInv ==
    /\ pc \notin {"score", "floor"} => i > FloorCount
    /\ \A k \in 1..FloorCount : k < i => role[scoredList[k]] = "safe"

(* A node whose role is settled keeps it until the next pass, and the list *)
(* is sorted only once.                                                    *)
LEMMA RolesStay ==
    ASSUME CapInv, Evaluate, NEW n \in Nodes, role[n] # "none"
    PROVE  role'[n] = role[n]
<1>1. /\ i \in 1..(Len(scoredList) + 1) /\ scoredList \in Seq(Nodes)
      /\ role \in [Nodes -> Roles]
  BY DEF CapInv, PassTypeInv, PassTypeOK
<1>2. \A a \in 1..Len(scoredList) :
         a = i /\ pc # "deductFit" => scoredList[a] # n
  BY DEF CapInv, AheadInv
<1>3. CASE DesignateFloor
  <2>1. i \in 1..Len(scoredList) /\ pc # "deductFit"
    BY <1>1, <1>3, WaterlineAssumption DEF DesignateFloor, FloorCount, MinOf
  <2> QED
    BY <1>1, <1>2, <1>3, <2>1 DEF DesignateFloor, AddSafe
<1>4. CASE AcceptCandidate
  <2>1. i \in 1..Len(scoredList) /\ pc # "deductFit"
    BY <1>1, <1>4 DEF AcceptCandidate, CapInv, PassTypeInv, IndexInv
  <2> QED
    BY <1>1, <1>2, <1>4, <2>1 DEF AcceptCandidate, Candidate
<1>5. CASE KeepNode
  <2>1. i \in 1..Len(scoredList) /\ pc # "deductFit"
    BY <1>1, <1>5 DEF KeepNode, CapInv, PassTypeInv, IndexInv
  <2>2. \A r : role' = [role EXCEPT ![Candidate] = r] => role'[n] = role[n]
    BY <1>1, <1>2, <2>1 DEF Candidate
  <2> QED
    BY <1>5, <2>2 DEF KeepNode, AddSafe, lists
<1> QED
  BY <1>3, <1>4, <1>5
     DEF Evaluate, ScoreAndSort, FloorDone, ConsiderNode, TestFitPod, DeductFitPod,
         NodeDrained, Finish, lists

ReportInv == CapInv /\ OrderInv /\ FloorInv

LEMMA ReportInit == InitPass => ReportInv
<1> SUFFICES ASSUME InitPass PROVE ReportInv
  OBVIOUS
<1>1. pc = "score" /\ i = 1
  BY DEF InitPass
<1>2. OrderInv
  BY <1>1 DEF OrderInv
<1>3. FloorInv
  BY <1>1 DEF FloorInv
<1> QED
  BY <1>2, <1>3, CapInit DEF ReportInv

LEMMA ReportStep == ReportInv /\ [PassNext]_passVars => ReportInv'
<1> SUFFICES ASSUME ReportInv, [PassNext]_passVars PROVE ReportInv'
  OBVIOUS
<1>c. CapInv /\ CapInv'
  BY CapStep DEF ReportInv
<1>t. /\ i \in 1..(Len(scoredList) + 1) /\ scoredList \in Seq(Nodes)
      /\ Len(scoredList) \in Nat /\ cluster \in Clusters /\ FloorCount \in Nat
      /\ FloorCount <= Len(scoredList)
  BY <1>c, WaterlineAssumption DEF CapInv, PassTypeInv, PassTypeOK, FloorCount, MinOf
<1>1. CASE ScoreAndSort
  <2>1. cluster.eligible \in SUBSET Nodes
    BY <1>t, CycleAssumption DEF Snapshots
  <2>2. OrderInv'
    <3>1. scoredList' \in SortedOrders(cluster.eligible, safetyScore') /\ cluster' = cluster
      BY <1>1 DEF ScoreAndSort
    <3>2. /\ Len(scoredList') = Cardinality(cluster.eligible)
          /\ {scoredList'[a] : a \in 1..Len(scoredList')} = cluster.eligible
          /\ \A a, b \in 1..Len(scoredList') :
               a < b => safetyScore'[scoredList'[a]] >= safetyScore'[scoredList'[b]]
      BY <2>1, <3>1, SortedOrdersComplete
    <3> QED
      BY <3>1, <3>2 DEF OrderInv
  <2>3. i' = 1 /\ pc' = "floor"
    BY <1>1, <1>c DEF ScoreAndSort, CapInv, PassTypeInv, IndexInv
  <2>4. FloorInv'
    <3>1. FloorCount' \in Nat
      BY <1>c, WaterlineAssumption DEF CapInv, PassTypeInv, PassTypeOK, FloorCount, MinOf
    <3> QED
      BY <2>3, <3>1 DEF FloorInv
  <2> QED
    BY <1>c, <2>2, <2>4 DEF ReportInv
<1>2. CASE StartAnew
  <2>1. pc' = "score" /\ i' = 1
    BY <1>2 DEF StartAnew, StartPass
  <2>2. FloorCount' \in Nat
    BY <1>c, WaterlineAssumption DEF CapInv, PassTypeInv, PassTypeOK, FloorCount, MinOf
  <2> QED
    BY <1>c, <2>1, <2>2 DEF ReportInv, OrderInv, FloorInv
<1>3. CASE Evaluate /\ ~ScoreAndSort
  <2>1. /\ UNCHANGED <<cluster, scoredList, safetyScore>>
        /\ pc # "score" /\ pc' # "score"
    BY <1>3 DEF Evaluate, DesignateFloor, FloorDone, ConsiderNode, TestFitPod, AcceptCandidate,
                DeductFitPod, NodeDrained, KeepNode, Finish, ranking
  <2>2. OrderInv'
    BY <2>1 DEF ReportInv, OrderInv
  <2>3. FloorCount' = FloorCount
    BY <2>1 DEF FloorCount
  <2>4. \A k \in 1..FloorCount : k < i => role'[scoredList[k]] = "safe"
    <3> SUFFICES ASSUME NEW k \in 1..FloorCount, k < i PROVE role'[scoredList[k]] = "safe"
      OBVIOUS
    <3>1. scoredList[k] \in Nodes /\ role[scoredList[k]] = "safe"
      BY <1>t DEF ReportInv, FloorInv
    <3> QED
      BY <1>3, <1>c, <3>1, RolesStay
  <2>5. CASE DesignateFloor
    <3>1. i <= FloorCount /\ i' = i + 1 /\ pc' = "floor" /\ AddSafe(scoredList[i])
      BY <2>5 DEF DesignateFloor
    <3>2. scoredList[i] \in Nodes
      BY <1>t, <3>1
    <3>3. role'[scoredList[i]] = "safe"
      BY <1>c, <3>1, <3>2 DEF AddSafe, CapInv, PassTypeInv, PassTypeOK
    <3>4. \A k \in 1..FloorCount : k < i + 1 => k < i \/ k = i
      BY <1>t
    <3>5. FloorInv'
      BY <2>1, <2>3, <2>4, <3>1, <3>3, <3>4 DEF FloorInv
    <3> QED
      BY <1>c, <2>2, <3>5 DEF ReportInv
  <2>6. CASE ~DesignateFloor
    <3>1. /\ i' = i \/ (i' = i + 1 /\ pc \notin {"score", "floor"})
          /\ pc \notin {"score", "floor"} \/ i > FloorCount
      BY <1>3, <2>6 DEF Evaluate, FloorDone, ConsiderNode, TestFitPod, AcceptCandidate,
                        DeductFitPod, NodeDrained, KeepNode, Finish
    <3>2. i > FloorCount /\ i' > FloorCount
      BY <1>t, <3>1 DEF ReportInv, FloorInv
    <3>3. \A k \in 1..FloorCount : k < i
      BY <1>t, <3>2
    <3>4. FloorInv'
      BY <2>1, <2>3, <2>4, <3>2, <3>3 DEF FloorInv
    <3> QED
      BY <1>c, <2>2, <3>4 DEF ReportInv
  <2> QED
    BY <2>5, <2>6
<1>4. CASE UNCHANGED passVars
  BY <1>4, <1>c DEF ReportInv, OrderInv, FloorInv, FloorCount, passVars, ranking, lists
<1> QED
  BY <1>1, <1>2, <1>3, <1>4 DEF PassNext

\* As many nodes as the floor asks for, or all, and none outside is safer.
LEMMA FloorRespected == ReportInv => FloorIsSafest
<1> SUFFICES ASSUME ReportInv, pc = "done", NEW k \in 1..FloorCount
             PROVE  /\ role[scoredList[k]] = "safe"
                    /\ \A n \in cluster.eligible :
                          InFloor(n) \/ safetyScore[scoredList[k]] >= safetyScore[n]
  BY DEF FloorIsSafest
<1>1. /\ i \in Int /\ FloorCount \in Nat /\ FloorCount <= Len(scoredList)
      /\ Len(scoredList) \in Nat
  BY WaterlineAssumption DEF ReportInv, CapInv, PassTypeInv, PassTypeOK, FloorCount, MinOf
<1>2. k < i
  BY <1>1 DEF ReportInv, FloorInv
<1>3. role[scoredList[k]] = "safe"
  BY <1>2 DEF ReportInv, FloorInv
<1>4. ASSUME NEW n \in cluster.eligible, ~InFloor(n)
      PROVE  safetyScore[scoredList[k]] >= safetyScore[n]
  <2>1. PICK a \in 1..Len(scoredList) : scoredList[a] = n
    BY DEF ReportInv, OrderInv
  <2>2. a > FloorCount
    BY <1>1, <1>4, <2>1 DEF InFloor
  <2>3. k \in 1..Len(scoredList) /\ k < a
    BY <1>1, <2>2
  <2> QED
    BY <2>1, <2>3 DEF ReportInv, OrderInv
<1> QED
  BY <1>3, <1>4
-----------------------------------------------------------------------------
(* The lists of the report.                                                *)

On(list, n) == \E k \in 1..Len(list) : list[k] = n

\* The nodes the pass has settled: those before the one in hand, and, while
\* its pods are deducted, that one too.
Settled == IF pc = "deductFit" THEN i ELSE i - 1

(* Each settled node is on one list, each list holds nodes of one role,    *)
(* and nothing else is on a list.                                          *)
ListsInv ==
    /\ pc = "done" => i > Len(scoredList)
    /\ Len(safeNodes) + Len(candidateNodes) + Len(neutralNodes) = Settled
    /\ \A a \in 1..Settled :
         \/ On(safeNodes, scoredList[a])
         \/ On(candidateNodes, scoredList[a])
         \/ On(neutralNodes, scoredList[a])
    /\ \A n \in Nodes : On(safeNodes, n) => role[n] = "safe" /\ On(scoredList, n)
    /\ \A n \in Nodes : On(candidateNodes, n) => role[n] = "candidate" /\ On(scoredList, n)
    /\ \A n \in Nodes : On(neutralNodes, n) => role[n] = "neutral" /\ On(scoredList, n)

LEMMA OnAppended ==
    ASSUME NEW list \in Seq(Nodes), NEW m \in Nodes, NEW n \in Nodes
    PROVE  On(Append(list, m), n) <=> (On(list, n) \/ n = m)
<1> DEFINE longer == Append(list, m)
<1>1. /\ Len(longer) = Len(list) + 1 /\ longer[Len(list) + 1] = m
      /\ \A k \in 1..Len(list) : longer[k] = list[k]
      /\ Len(list) \in Nat
  OBVIOUS
<1> HIDE DEF longer
<1>2. On(longer, n) => On(list, n) \/ n = m
  <2> SUFFICES ASSUME NEW k \in 1..Len(longer), longer[k] = n PROVE On(list, n) \/ n = m
    BY DEF On
  <2>1. k \in 1..Len(list) \/ k = Len(list) + 1
    BY <1>1
  <2> QED
    BY <1>1, <2>1 DEF On
<1>3. On(list, n) \/ n = m => On(longer, n)
  <2>1. 1..Len(list) \subseteq 1..Len(longer) /\ Len(list) + 1 \in 1..Len(longer)
    BY <1>1
  <2> QED
    BY <1>1, <2>1 DEF On
<1> QED
  BY <1>2, <1>3 DEF longer

\* The node in hand goes onto the list of its role.
LEMMA SettleLists ==
    ASSUME CapInv, ListsInv, i \in 1..Len(scoredList), pc # "deductFit", pc' # "done",
           NEW n \in Nodes, n = scoredList[i], role[n] = "none",
           NEW r \in {"safe", "candidate", "neutral"},
           role' = [role EXCEPT ![n] = r], scoredList' = scoredList,
           safeNodes' = IF r = "safe" THEN Append(safeNodes, n) ELSE safeNodes,
           candidateNodes' = IF r = "candidate" THEN Append(candidateNodes, n) ELSE candidateNodes,
           neutralNodes' = IF r = "neutral" THEN Append(neutralNodes, n) ELSE neutralNodes,
           Settled' = i
    PROVE  ListsInv'
<1>1. /\ role \in [Nodes -> Roles] /\ scoredList \in Seq(Nodes) /\ i \in Int
      /\ safeNodes \in Seq(Nodes) /\ candidateNodes \in Seq(Nodes) /\ neutralNodes \in Seq(Nodes)
  BY DEF CapInv, PassTypeInv, PassTypeOK
<1>2. Settled = i - 1
  BY DEF Settled
<1>3. Len(safeNodes') + Len(candidateNodes') + Len(neutralNodes') = Settled'
  <2>1. /\ Len(Append(safeNodes, n)) = Len(safeNodes) + 1
        /\ Len(Append(candidateNodes, n)) = Len(candidateNodes) + 1
        /\ Len(Append(neutralNodes, n)) = Len(neutralNodes) + 1
        /\ Len(safeNodes) \in Nat /\ Len(candidateNodes) \in Nat /\ Len(neutralNodes) \in Nat
    BY <1>1
  <2>2. Len(safeNodes) + Len(candidateNodes) + Len(neutralNodes) = i - 1
    BY <1>2 DEF ListsInv
  <2>3. CASE r = "safe"
    BY <1>1, <2>1, <2>2, <2>3
  <2>4. CASE r = "candidate"
    BY <1>1, <2>1, <2>2, <2>4
  <2>5. CASE r = "neutral"
    BY <1>1, <2>1, <2>2, <2>5
  <2> QED
    BY <2>3, <2>4, <2>5
<1>4. \A m \in Nodes :
        /\ On(safeNodes', m) <=> (On(safeNodes, m) \/ (m = n /\ r = "safe"))
        /\ On(candidateNodes', m) <=> (On(candidateNodes, m) \/ (m = n /\ r = "candidate"))
        /\ On(neutralNodes', m) <=> (On(neutralNodes, m) \/ (m = n /\ r = "neutral"))
  BY <1>1, OnAppended
<1>5. On(scoredList, n)
  BY DEF On
<1>6. \A m \in Nodes : role'[m] = IF m = n THEN r ELSE role[m]
  BY <1>1
<1>7. ASSUME NEW a \in 1..i
      PROVE  \/ On(safeNodes', scoredList[a])
             \/ On(candidateNodes', scoredList[a])
             \/ On(neutralNodes', scoredList[a])
  <2>1. scoredList[a] \in Nodes
    BY <1>1
  <2>2. CASE a = i
    BY <1>4, <2>1, <2>2
  <2>3. CASE a # i
    <3>1. a \in 1..Settled
      BY <1>1, <1>2, <2>3
    <3> QED
      BY <1>4, <2>1, <3>1 DEF ListsInv
  <2> QED
    BY <2>2, <2>3
<1>8. \A m \in Nodes : On(safeNodes', m) => role'[m] = "safe" /\ On(scoredList, m)
  BY <1>4, <1>5, <1>6 DEF ListsInv
<1>9. \A m \in Nodes : On(candidateNodes', m) => role'[m] = "candidate" /\ On(scoredList, m)
  BY <1>4, <1>5, <1>6 DEF ListsInv
<1>10. \A m \in Nodes : On(neutralNodes', m) => role'[m] = "neutral" /\ On(scoredList, m)
  BY <1>4, <1>5, <1>6 DEF ListsInv
<1> QED
  BY <1>2, <1>3, <1>7, <1>8, <1>9, <1>10 DEF ListsInv

LEMMA ListsInit == InitPass => ListsInv
<1> SUFFICES ASSUME InitPass PROVE ListsInv
  OBVIOUS
<1>1. /\ safeNodes = <<>> /\ candidateNodes = <<>> /\ neutralNodes = <<>>
      /\ Settled = 0 /\ pc # "done"
  BY DEF InitPass, Settled
<1> QED
  BY <1>1 DEF ListsInv, On

LEMMA ListsStep == ReportInv /\ ListsInv /\ [PassNext]_passVars => ListsInv'
<1> SUFFICES ASSUME ReportInv, ListsInv, [PassNext]_passVars PROVE ListsInv'
  OBVIOUS
<1>c. CapInv
  BY DEF ReportInv
<1>t. /\ i \in 1..(Len(scoredList) + 1) /\ scoredList \in Seq(Nodes)
      /\ Len(scoredList) \in Nat
  BY <1>c DEF CapInv, PassTypeInv, PassTypeOK
<1>1. CASE ScoreAndSort
  <2>1. UNCHANGED lists /\ Settled = 0 /\ Settled' = 0 /\ pc' # "done"
    BY <1>1, <1>c DEF ScoreAndSort, Settled, CapInv, PassTypeInv, IndexInv
  <2>2. /\ Len(safeNodes) = 0 /\ Len(candidateNodes) = 0 /\ Len(neutralNodes) = 0
    <3>1. /\ Len(safeNodes) \in Nat /\ Len(candidateNodes) \in Nat /\ Len(neutralNodes) \in Nat
      BY <1>c DEF CapInv, PassTypeInv, PassTypeOK
    <3> QED
      BY <2>1, <3>1 DEF ListsInv
  <2> QED
    BY <2>1, <2>2 DEF ListsInv, On, lists
<1>2. CASE DesignateFloor
  <2>1. /\ i \in 1..Len(scoredList) /\ pc = "floor" /\ pc' = "floor" /\ i' = i + 1
        /\ scoredList' = scoredList /\ AddSafe(scoredList[i])
    BY <1>2, <1>t, WaterlineAssumption DEF DesignateFloor, FloorCount, MinOf, ranking
  <2>2. scoredList[i] \in Nodes /\ role[scoredList[i]] = "none" /\ Settled' = i
    BY <1>t, <1>c, <2>1 DEF CapInv, AheadInv, Settled
  <2> QED
    BY <1>c, <2>1, <2>2, SettleLists DEF AddSafe
<1>3. CASE AcceptCandidate
  <2>1. /\ i \in 1..Len(scoredList) /\ pc = "testFit" /\ pc' = "deductFit" /\ i' = i
        /\ scoredList' = scoredList
    BY <1>3, <1>t, <1>c DEF AcceptCandidate, CapInv, PassTypeInv, IndexInv, ranking
  <2>2. scoredList[i] \in Nodes /\ role[scoredList[i]] = "none" /\ Settled' = i
    BY <1>t, <1>c, <2>1 DEF CapInv, AheadInv, Settled
  <2> QED
    BY <1>3, <1>c, <2>1, <2>2, SettleLists DEF AcceptCandidate, Candidate
<1>4. CASE KeepNode
  <2>1. /\ i \in 1..Len(scoredList) /\ pc = "keep" /\ pc' = "node" /\ i' = i + 1
        /\ scoredList' = scoredList
    BY <1>4, <1>t, <1>c DEF KeepNode, CapInv, PassTypeInv, IndexInv, ranking
  <2>2. scoredList[i] \in Nodes /\ role[scoredList[i]] = "none" /\ Settled' = i
    BY <1>t, <1>c, <2>1 DEF CapInv, AheadInv, Settled
  <2>3. CASE AddSafe(Candidate)
    BY <1>c, <2>1, <2>2, <2>3, SettleLists DEF AddSafe, Candidate
  <2>4. CASE /\ role' = [role EXCEPT ![Candidate] = "neutral"]
             /\ neutralNodes' = Append(neutralNodes, Candidate)
             /\ UNCHANGED <<safeNodes, candidateNodes, remaining>>
    BY <1>c, <2>1, <2>2, <2>4, SettleLists DEF Candidate
  <2> QED
    BY <1>4, <2>3, <2>4 DEF KeepNode
<1>5. CASE FloorDone \/ ConsiderNode \/ TestFitPod \/ DeductFitPod \/ NodeDrained \/ Finish
  <2>1. UNCHANGED <<scoredList, lists>> /\ Settled' = Settled
    <3>1. UNCHANGED <<scoredList, lists>>
      BY <1>5 DEF FloorDone, ConsiderNode, TestFitPod, DeductFitPod, NodeDrained, Finish, ranking
    <3>2. CASE FloorDone \/ ConsiderNode \/ TestFitPod \/ Finish
      BY <3>1, <3>2 DEF FloorDone, ConsiderNode, TestFitPod, Finish, Settled
    <3>3. CASE DeductFitPod
      BY <3>1, <3>3 DEF DeductFitPod, Settled
    <3>4. CASE NodeDrained
      BY <3>1, <3>4, <1>t DEF NodeDrained, Settled
    <3> QED
      BY <1>5, <3>1, <3>2, <3>3, <3>4
  <2>2. pc' = "done" => i' > Len(scoredList)
    BY <1>5 DEF FloorDone, ConsiderNode, TestFitPod, DeductFitPod, NodeDrained, Finish, ListsInv
  <2> QED
    BY <2>1, <2>2 DEF ListsInv, lists
<1>6. CASE StartAnew
  <2>1. /\ safeNodes' = <<>> /\ candidateNodes' = <<>> /\ neutralNodes' = <<>>
        /\ Settled' = 0 /\ pc' # "done"
    BY <1>6 DEF StartAnew, StartPass, Settled
  <2> QED
    BY <2>1 DEF ListsInv, On
<1>7. CASE UNCHANGED passVars
  BY <1>7 DEF ListsInv, Settled, passVars, ranking, lists
<1> QED
  BY <1>1, <1>2, <1>3, <1>4, <1>5, <1>6, <1>7 DEF PassNext, Evaluate

LEMMA ConcatTyped ==
    \A s, t \in Seq(Nodes) : s \o t \in Seq(Nodes) /\ Len(s \o t) = Len(s) + Len(t)
OBVIOUS

LEMMA OnConcat ==
    ASSUME NEW s \in Seq(Nodes), NEW t \in Seq(Nodes), NEW n \in Nodes
    PROVE  On(s \o t, n) <=> (On(s, n) \/ On(t, n))
<1> DEFINE both == s \o t
<1>1. /\ Len(both) = Len(s) + Len(t) /\ Len(s) \in Nat /\ Len(t) \in Nat
      /\ \A k \in 1..(Len(s) + Len(t)) : both[k] = IF k <= Len(s) THEN s[k] ELSE t[k - Len(s)]
  OBVIOUS
<1> HIDE DEF both
<1>2. On(both, n) => On(s, n) \/ On(t, n)
  <2> SUFFICES ASSUME NEW k \in 1..Len(both), both[k] = n PROVE On(s, n) \/ On(t, n)
    BY DEF On
  <2>1. CASE k <= Len(s)
    <3>1. k \in 1..Len(s) /\ s[k] = n
      BY <1>1, <2>1
    <3> QED
      BY <3>1 DEF On
  <2>2. CASE k > Len(s)
    <3>1. k - Len(s) \in 1..Len(t) /\ t[k - Len(s)] = n
      BY <1>1, <2>2
    <3> QED
      BY <3>1 DEF On
  <2> QED
    BY <1>1, <2>1, <2>2
<1>3. ASSUME NEW k \in 1..Len(s), s[k] = n PROVE On(both, n)
  <2>1. k \in 1..Len(both) /\ both[k] = n
    BY <1>1, <1>3
  <2> QED
    BY <2>1 DEF On
<1>4. ASSUME NEW k \in 1..Len(t), t[k] = n PROVE On(both, n)
  <2>1. Len(s) + k \in 1..Len(both) /\ both[Len(s) + k] = n
    BY <1>1, <1>4
  <2> QED
    BY <2>1 DEF On
<1> QED
  BY <1>2, <1>3, <1>4 DEF On, both

\* A finished pass has settled the whole list.
LEMMA ListsComplete == ReportInv /\ ListsInv => ReportPartitionsEligible
<1> SUFFICES ASSUME ReportInv, ListsInv, pc = "done"
    PROVE  /\ Len(safeNodes \o candidateNodes \o neutralNodes) = Cardinality(cluster.eligible)
           /\ {(safeNodes \o candidateNodes \o neutralNodes)[k] :
                  k \in 1..Len(safeNodes \o candidateNodes \o neutralNodes)} = cluster.eligible
           /\ \A k \in 1..Len(safeNodes) : role[safeNodes[k]] = "safe"
           /\ \A k \in 1..Len(candidateNodes) : role[candidateNodes[k]] = "candidate"
           /\ \A k \in 1..Len(neutralNodes) : role[neutralNodes[k]] = "neutral"
  BY Zenon DEF ReportPartitionsEligible
<1>t. /\ i \in 1..(Len(scoredList) + 1) /\ scoredList \in Seq(Nodes) /\ Len(scoredList) \in Nat
      /\ safeNodes \in Seq(Nodes) /\ candidateNodes \in Seq(Nodes) /\ neutralNodes \in Seq(Nodes)
  BY DEF ReportInv, CapInv, PassTypeInv, PassTypeOK
<1> DEFINE all == safeNodes \o candidateNodes \o neutralNodes
<1>1. /\ all \in Seq(Nodes)
      /\ Len(all) = Len(safeNodes) + Len(candidateNodes) + Len(neutralNodes)
      /\ \A n \in Nodes :
           On(all, n) <=> (On(safeNodes, n) \/ On(candidateNodes, n) \/ On(neutralNodes, n))
  <2> DEFINE front == safeNodes \o candidateNodes
  <2>1. front \in Seq(Nodes) /\ Len(front) = Len(safeNodes) + Len(candidateNodes)
    BY <1>t
  <2>2. \A n \in Nodes : On(front, n) <=> (On(safeNodes, n) \/ On(candidateNodes, n))
    BY <1>t, OnConcat
  <2> HIDE DEF front
  <2>3. /\ front \o neutralNodes \in Seq(Nodes)
        /\ Len(front \o neutralNodes) = Len(front) + Len(neutralNodes)
    BY <1>t, <2>1, ConcatTyped
  <2>4. \A n \in Nodes : On(front \o neutralNodes, n) <=> (On(front, n) \/ On(neutralNodes, n))
    BY <1>t, <2>1, OnConcat
  <2> QED
    BY <2>1, <2>2, <2>3, <2>4 DEF front
<1> HIDE DEF all
<1>2. Settled = Len(scoredList)
  BY <1>t DEF Settled, ListsInv
<1>3. Len(all) = Cardinality(cluster.eligible)
  BY <1>1, <1>2 DEF ListsInv, ReportInv, OrderInv
<1>4. \A n \in Nodes : On(all, n) <=> On(scoredList, n)
  <2>1. \A n \in Nodes : On(all, n) => On(scoredList, n)
    BY <1>1 DEF ListsInv
  <2>2. ASSUME NEW n \in Nodes, On(scoredList, n) PROVE On(all, n)
    <3>1. PICK a \in 1..Len(scoredList) : scoredList[a] = n
      BY <2>2 DEF On
    <3> QED
      BY <1>1, <1>2, <3>1 DEF ListsInv
  <2> QED
    BY <2>1, <2>2
<1>5. {all[k] : k \in 1..Len(all)} = cluster.eligible
  <2>1. {scoredList[a] : a \in 1..Len(scoredList)} = cluster.eligible
    BY DEF ReportInv, OrderInv
  <2>2. \A k \in 1..Len(all) : all[k] \in Nodes
    BY <1>1
  <2>3. \A a \in 1..Len(scoredList) : scoredList[a] \in Nodes
    BY <1>t
  <2>4. ASSUME NEW k \in 1..Len(all) PROVE all[k] \in cluster.eligible
    <3>1. On(scoredList, all[k])
      BY <1>4, <2>2 DEF On
    <3> QED
      BY <2>1, <3>1 DEF On
  <2>5. ASSUME NEW n \in cluster.eligible PROVE \E k \in 1..Len(all) : all[k] = n
    <3>1. n \in Nodes /\ On(scoredList, n)
      BY <2>1, <2>3 DEF On
    <3> QED
      BY <1>4, <3>1 DEF On
  <2> QED
    BY <2>4, <2>5
<1>6. \A k \in 1..Len(safeNodes) : role[safeNodes[k]] = "safe"
  BY <1>t DEF ListsInv, On
<1>7. \A k \in 1..Len(candidateNodes) : role[candidateNodes[k]] = "candidate"
  BY <1>t DEF ListsInv, On
<1>8. \A k \in 1..Len(neutralNodes) : role[neutralNodes[k]] = "neutral"
  BY <1>t DEF ListsInv, On
<1> QED
  BY <1>3, <1>5, <1>6, <1>7, <1>8 DEF all

-----------------------------------------------------------------------------
(* testFit and deductFit agree.  Both place the same pods, in the same     *)
(* order, each on the first safe node with room, from the same capacities: *)
(* there is a chain of capacities, the same for both, that testFit has     *)
(* walked to its end before deductFit starts.                              *)

\* Capacity b is a with the l-th pod of the node in hand placed.
Places(a, b, l) ==
    \E k \in 1..Len(safeNodes) :
        /\ TakesFirst(a, PodAt(Candidate, l), k)
        /\ b = [a EXCEPT ![safeNodes[k]] = Minus(@, PodAt(Candidate, l))]

Chains(top) ==
    {W \in [1..top -> [Nodes -> Balance]] : \A l \in 1..(top - 1) : Places(W[l], W[l + 1], l)}

PodTotal == Len(PodsOn(Candidate))

ChainInv ==
    /\ pc = "testFit" =>
         /\ j <= PodTotal + 1
         /\ \E W \in Chains(j) : W[1] = remaining /\ W[j] = working
    /\ pc = "deductFit" =>
         /\ j <= PodTotal + 1
         /\ \E W \in Chains(PodTotal + 1) : W[j] = remaining

\* Every pod of every candidate is at home on a safe node, as far as deductFit is.
HomesInv ==
    \A k \in 1..Len(candidateNodes) : \A l \in 1..Len(PodsOn(candidateNodes[k])) :
        (pc = "deductFit" /\ candidateNodes[k] = Candidate => l < j) =>
            LET home == placement[PodsOn(candidateNodes[k])[l]]
            IN  home \in Nodes /\ role[home] = "safe"

DrainInv == ReportInv /\ ChainInv /\ HomesInv

LEMMA OneFirst ==
    ASSUME NEW room, NEW pod, NEW k \in 1..Len(safeNodes), NEW l \in 1..Len(safeNodes),
           Len(safeNodes) \in Nat, TakesFirst(room, pod, k), TakesFirst(room, pod, l)
    PROVE  k = l
BY DEF TakesFirst

\* The steps that end a test or a deduction, or have to do with neither.
LEMMA ChainElsewhere ==
    ASSUME ChainInv, pc' \notin {"testFit", "deductFit"}
    PROVE  ChainInv'
BY DEF ChainInv

\* The pods of a node and their number, wherever the node is on the list.
LEMMA PodsTyped ==
    ASSUME PassTypeInv, NEW n \in Nodes
    PROVE  PodsOn(n) \in Seq(Pods) /\ Len(PodsOn(n)) \in Nat
<1>1. cluster \in Clusters
  BY DEF PassTypeInv, PassTypeOK
<1>2. PodsOn(n) \in Seq(Pods)
  BY <1>1, SnapshotTyped DEF PodsOn
<1> QED
  BY <1>2

LEMMA ChainStep == DrainInv /\ [PassNext]_passVars => ChainInv'
<1> SUFFICES ASSUME DrainInv, [PassNext]_passVars PROVE ChainInv'
  OBVIOUS
<1>c. CapInv /\ PassTypeInv /\ PassTypeInv' /\ ChainInv
  BY CapStep DEF DrainInv, ReportInv, CapInv
<1>t. /\ scoredList \in Seq(Nodes) /\ i \in 1..(Len(scoredList) + 1)
      /\ j \in Nat \ {0} /\ safeNodes \in Seq(Nodes)
      /\ remaining \in [Nodes -> Balance] /\ working \in [Nodes -> Balance]
      /\ working' \in [Nodes -> Balance] /\ remaining' \in [Nodes -> Balance]
  BY <1>c DEF PassTypeInv, PassTypeOK
<1>p. ASSUME i <= Len(scoredList) PROVE PodTotal \in Nat
  BY <1>c, <1>p, CandidateTyped, PodsTyped DEF PodTotal
<1>1. CASE ConsiderNode
  <2>1. CASE pc' = "testFit"
    <3>1. /\ j' = 1 /\ working' = remaining /\ i <= Len(scoredList)
          /\ UNCHANGED <<cluster, i, scoredList, safeNodes, remaining>>
      BY <1>1 DEF ConsiderNode, ranking, lists
    <3>2. PodTotal' = PodTotal /\ PodTotal \in Nat
      BY <1>p, <3>1 DEF PodTotal, PodsOn, Candidate
    <3> DEFINE W == [x \in 1..1 |-> remaining]
    <3>3. W \in Chains(1)' /\ W[1] = remaining
      BY <1>t DEF Chains
    <3> HIDE DEF W
    <3> QED
      BY <2>1, <3>1, <3>2, <3>3 DEF ChainInv
  <2>2. CASE pc' # "testFit"
    BY <1>1, <1>c, <2>2, ChainElsewhere DEF ConsiderNode
  <2> QED
    BY <2>1, <2>2
<1>2. CASE TestFitPod
  <2>1. CASE pc' = "keep"
    BY <1>c, <2>1, ChainElsewhere
  <2>2. CASE pc' # "keep"
    <3>1. /\ pc = "testFit" /\ pc' = "testFit" /\ j' = j + 1
          /\ UNCHANGED <<cluster, i, scoredList, safeNodes, remaining>>
          /\ j <= PodTotal /\ i <= Len(scoredList)
      BY <1>2, <1>c, <2>2 DEF TestFitPod, MorePods, PodTotal, ranking, lists, PassTypeInv, IndexInv
    <3>2. Places(working, working', j)
      BY <1>2, <2>2 DEF TestFitPod, Places
    <3>3. PICK W \in Chains(j) : W[1] = remaining /\ W[j] = working
      BY <1>c, <3>1 DEF ChainInv
    <3>6. PICK V \in [1..(j + 1) -> [Nodes -> Balance]] :
             V = [x \in 1..(j + 1) |-> IF x <= j THEN W[x] ELSE working']
      <4>1. [x \in 1..(j + 1) |-> IF x <= j THEN W[x] ELSE working']
              \in [1..(j + 1) -> [Nodes -> Balance]]
        BY <1>t, <3>3 DEF Chains
      <4> QED
        BY <4>1
    <3>4. \A a, b, l : Places(a, b, l)' <=> Places(a, b, l)
      BY <3>1 DEF Places, TakesFirst, PodAt, PodsOn, Candidate
    <3>5. PodTotal' = PodTotal /\ PodTotal \in Nat
      BY <1>p, <3>1 DEF PodTotal, PodsOn, Candidate
    <3>7. ASSUME NEW l \in 1..j PROVE Places(V[l], V[l + 1], l)
      <4>1. CASE l < j
        <5>1. l \in 1..(j - 1) /\ V[l] = W[l] /\ V[l + 1] = W[l + 1]
          BY <1>t, <3>6, <4>1
        <5> QED
          BY <3>3, <5>1 DEF Chains
      <4>2. CASE l = j
        <5>1. V[l] = working /\ V[l + 1] = working'
          BY <1>t, <3>3, <3>6, <4>2
        <5> QED
          BY <3>2, <4>2, <5>1
      <4> QED
        BY <1>t, <4>1, <4>2
    <3>8. V[1] = remaining /\ V[j + 1] = working'
      BY <1>t, <3>3, <3>6
    <3>9. V \in Chains(j)'
      <4>1. 1..j' = 1..(j + 1) /\ 1..(j' - 1) = 1..j
        BY <1>t, <3>1
      <4>2. V \in [1..j' -> [Nodes -> Balance]]
        BY <4>1
      <4>3. \A l \in 1..(j' - 1) : Places(V[l], V[l + 1], l)'
        BY <3>4, <3>7, <4>1
      <4> QED
        BY <4>2, <4>3 DEF Chains
    <3> QED
      BY <1>t, <3>1, <3>5, <3>8, <3>9 DEF ChainInv
  <2> QED
    BY <2>1, <2>2
<1>3. CASE AcceptCandidate
  <2>1. /\ pc = "testFit" /\ pc' = "deductFit" /\ j' = 1 /\ j > PodTotal
        /\ UNCHANGED <<cluster, i, scoredList, safeNodes, remaining>>
        /\ i <= Len(scoredList)
    BY <1>3, <1>c, <1>t, <1>p DEF AcceptCandidate, MorePods, PodTotal, ranking, PassTypeInv, IndexInv
  <2>2. PodTotal' = PodTotal /\ PodTotal \in Nat
    BY <1>p, <2>1 DEF PodTotal, PodsOn, Candidate
  <2>3. j = PodTotal + 1
    BY <1>c, <1>t, <2>1, <2>2 DEF ChainInv
  <2>4. PICK W \in Chains(PodTotal + 1) : W[1] = remaining
    BY <1>c, <2>1, <2>3 DEF ChainInv
  <2>5. \A a, b, l : Places(a, b, l)' <=> Places(a, b, l)
    BY <2>1 DEF Places, TakesFirst, PodAt, PodsOn, Candidate
  <2>6. W \in Chains(PodTotal + 1)'
    BY <2>2, <2>4, <2>5 DEF Chains
  <2> QED
    BY <2>1, <2>2, <2>4, <2>6 DEF ChainInv
<1>4. CASE DeductFitPod
  <2>1. /\ pc = "deductFit" /\ pc' = "deductFit" /\ j' = j + 1 /\ j <= PodTotal
        /\ UNCHANGED <<cluster, i, scoredList, safeNodes>>
        /\ i <= Len(scoredList)
    BY <1>4, <1>c DEF DeductFitPod, MorePods, PodTotal, ranking, lists, PassTypeInv, IndexInv
  <2>2. PodTotal' = PodTotal /\ PodTotal \in Nat
    BY <1>p, <2>1 DEF PodTotal, PodsOn, Candidate
  <2>3. PICK W \in Chains(PodTotal + 1) : W[j] = remaining
    BY <1>c, <2>1 DEF ChainInv
  <2>4. Places(remaining, W[j + 1], j)
    <3>1. j \in 1..((PodTotal + 1) - 1)
      BY <1>t, <2>1, <2>2
    <3> QED
      BY <2>3, <3>1 DEF Chains
  <2>5. remaining' = W[j + 1]
    BY <1>4, <1>t, <2>4, OneFirst DEF DeductFitPod, Places, NobodyTakes, TakesFirst
  <2>6. \A a, b, l : Places(a, b, l)' <=> Places(a, b, l)
    BY <2>1 DEF Places, TakesFirst, PodAt, PodsOn, Candidate
  <2>7. W \in Chains(PodTotal + 1)'
    BY <2>2, <2>3, <2>6 DEF Chains
  <2> QED
    BY <1>t, <2>1, <2>2, <2>5, <2>7 DEF ChainInv
<1>5. CASE \/ ScoreAndSort \/ DesignateFloor \/ FloorDone \/ NodeDrained \/ KeepNode \/ Finish
           \/ StartAnew
  <2>1. pc' \notin {"testFit", "deductFit"}
    BY <1>5 DEF ScoreAndSort, DesignateFloor, FloorDone, NodeDrained, KeepNode, Finish,
                StartAnew, StartPass
  <2> QED
    BY <1>c, <2>1, ChainElsewhere
<1>6. CASE UNCHANGED passVars
  <2>1. UNCHANGED <<cluster, pc, i, j, scoredList, safeNodes, remaining, working>>
    BY <1>6 DEF passVars, ranking, lists
  <2>2. PodTotal' = PodTotal
    BY <2>1 DEF PodTotal, PodsOn, Candidate
  <2>3. \A a, b, l : Places(a, b, l)' <=> Places(a, b, l)
    BY <2>1 DEF Places, TakesFirst, PodAt, PodsOn, Candidate
  <2>4. \A top : Chains(top)' = Chains(top)
    BY <2>3 DEF Chains
  <2> QED
    BY <1>c, <2>1, <2>2, <2>4 DEF ChainInv
<1> QED
  BY <1>1, <1>2, <1>3, <1>4, <1>5, <1>6 DEF PassNext, Evaluate

\* Steps that leave candidates, homes and the pods in hand as they are.
LEMMA HomesKept ==
    ASSUME DrainInv, Evaluate, UNCHANGED <<cluster, candidateNodes, placement>>,
           pc # "deductFit"
    PROVE  HomesInv'
<1>1. CapInv /\ HomesInv
  BY DEF DrainInv, ReportInv
<1> SUFFICES ASSUME NEW k \in 1..Len(candidateNodes),
                    NEW l \in 1..Len(PodsOn(candidateNodes[k]))
             PROVE  LET home == placement[PodsOn(candidateNodes[k])[l]]
                    IN  home \in Nodes /\ role'[home] = "safe"
  BY DEF HomesInv, PodsOn
<1> DEFINE home == placement[PodsOn(candidateNodes[k])[l]]
<1>2. home \in Nodes /\ role[home] = "safe"
  BY <1>1 DEF HomesInv
<1> HIDE DEF home
<1>3. role'[home] = "safe"
  BY <1>1, <1>2, RolesStay
<1> QED
  BY <1>2, <1>3 DEF home

LEMMA HomesStep == DrainInv /\ [PassNext]_passVars => HomesInv'
<1> SUFFICES ASSUME DrainInv, [PassNext]_passVars PROVE HomesInv'
  OBVIOUS
<1>c. CapInv /\ PassTypeInv /\ ChainInv /\ HomesInv
  BY DEF DrainInv, ReportInv, CapInv
<1>t. /\ scoredList \in Seq(Nodes) /\ i \in 1..(Len(scoredList) + 1)
      /\ j \in Nat \ {0} /\ safeNodes \in Seq(Nodes) /\ candidateNodes \in Seq(Nodes)
      /\ placement \in [Pods -> Nodes \cup {NoNode}] /\ role \in [Nodes -> Roles]
  BY <1>c DEF PassTypeInv, PassTypeOK
<1>1. CASE \/ ScoreAndSort \/ DesignateFloor \/ FloorDone \/ ConsiderNode \/ TestFitPod
           \/ KeepNode \/ Finish
  <2>1. /\ UNCHANGED <<cluster, candidateNodes, placement>> /\ pc # "deductFit"
    BY <1>1 DEF ScoreAndSort, DesignateFloor, FloorDone, ConsiderNode, TestFitPod, KeepNode,
                Finish, AddSafe, lists, history
  <2> QED
    BY <1>1, <2>1, HomesKept DEF Evaluate
<1>2. CASE AcceptCandidate
  <2>1. /\ pc # "deductFit" /\ pc' = "deductFit" /\ j' = 1
        /\ UNCHANGED <<cluster, i, scoredList, placement>>
        /\ candidateNodes' = Append(candidateNodes, Candidate)
        /\ i <= Len(scoredList)
    BY <1>2, <1>c DEF AcceptCandidate, ranking, history, PassTypeInv, IndexInv
  <2>2. Candidate \in Nodes /\ Candidate' = Candidate
    BY <1>c, <2>1, CandidateTyped DEF Candidate
  <2> SUFFICES ASSUME NEW k \in 1..Len(candidateNodes'),
                      NEW l \in 1..Len(PodsOn(candidateNodes'[k])),
                      candidateNodes'[k] = Candidate => l < 1
               PROVE  LET home == placement[PodsOn(candidateNodes'[k])[l]]
                      IN  home \in Nodes /\ role'[home] = "safe"
    BY <2>1, <2>2 DEF HomesInv, PodsOn
  <2>3. k \in 1..Len(candidateNodes) /\ candidateNodes'[k] = candidateNodes[k]
    BY <1>t, <2>1, <2>2
  <2> DEFINE home == placement[PodsOn(candidateNodes[k])[l]]
  <2>4. home \in Nodes /\ role[home] = "safe"
    BY <1>c, <2>1, <2>3 DEF HomesInv
  <2> HIDE DEF home
  <2>5. role'[home] = "safe"
    BY <1>2, <1>c, <2>4, RolesStay DEF Evaluate
  <2> QED
    BY <2>3, <2>4, <2>5 DEF home
<1>3. CASE DeductFitPod
  <2>1. /\ pc = "deductFit" /\ pc' = "deductFit" /\ j' = j + 1 /\ j <= PodTotal
        /\ UNCHANGED <<cluster, i, scoredList, safeNodes, candidateNodes, role>>
        /\ i <= Len(scoredList) /\ MorePods
    BY <1>3, <1>c DEF DeductFitPod, MorePods, PodTotal, ranking, lists, PassTypeInv, IndexInv
  <2>2. PodTotal \in Nat /\ PodsOn(Candidate)[j] \in Pods
    BY <1>c, <2>1, CandidateTyped, PodsTyped DEF PodTotal
  <2>3. \E k \in 1..Len(safeNodes) :
          placement' = [placement EXCEPT ![PodsOn(Candidate)[j]] = safeNodes[k]]
    <3>1. PICK W \in Chains(PodTotal + 1) : W[j] = remaining
      BY <1>c, <2>1 DEF ChainInv
    <3>2. j \in 1..((PodTotal + 1) - 1)
      BY <1>t, <2>1, <2>2
    <3>3. Places(remaining, W[j + 1], j)
      BY <3>1, <3>2 DEF Chains
    <3>4. ~NobodyTakes(remaining, PodAt(Candidate, j))
      BY <3>3 DEF Places, NobodyTakes, TakesFirst
    <3> QED
      BY <1>3, <3>4 DEF DeductFitPod
  <2>4. PICK k \in 1..Len(safeNodes) :
          placement' = [placement EXCEPT ![PodsOn(Candidate)[j]] = safeNodes[k]]
    BY <2>3
  <2>5. safeNodes[k] \in Nodes /\ role[safeNodes[k]] = "safe"
    BY <1>c, <1>t DEF CapInv, SafeInv
  <2> SUFFICES ASSUME NEW c \in 1..Len(candidateNodes),
                      NEW l \in 1..Len(PodsOn(candidateNodes[c])),
                      candidateNodes[c] = Candidate => l < j + 1
               PROVE  LET home == placement'[PodsOn(candidateNodes[c])[l]]
                      IN  home \in Nodes /\ role[home] = "safe"
    BY <2>1 DEF HomesInv, PodsOn, Candidate
  <2> DEFINE p == PodsOn(candidateNodes[c])[l]
  <2>6. p \in Pods
    <3>1. candidateNodes[c] \in Nodes
      BY <1>t
    <3> QED
      BY <1>c, <3>1, PodsTyped
  <2>7. CASE p = PodsOn(Candidate)[j]
    <3>1. placement'[p] = safeNodes[k]
      BY <1>t, <2>2, <2>4, <2>7
    <3> QED
      BY <2>5, <3>1
  <2>8. CASE p # PodsOn(Candidate)[j]
    <3>1. placement'[p] = placement[p]
      BY <1>t, <2>4, <2>6, <2>8
    <3>2. candidateNodes[c] = Candidate => l < j
      <4>1. candidateNodes[c] = Candidate => l # j
        BY <2>8
      <4>2. l \in Nat
        BY <1>c, <1>t, PodsTyped
      <4> QED
        BY <1>t, <4>1, <4>2
    <3>3. placement[p] \in Nodes /\ role[placement[p]] = "safe"
      BY <1>c, <3>2 DEF HomesInv
    <3> QED
      BY <3>1, <3>3
  <2> QED
    BY <2>7, <2>8
<1>4. CASE NodeDrained
  <2>1. /\ pc = "deductFit" /\ pc' = "node" /\ j > PodTotal
        /\ UNCHANGED <<cluster, candidateNodes, placement, role>>
        /\ i <= Len(scoredList)
    BY <1>4, <1>c, <1>t, CandidateTyped, PodsTyped
       DEF NodeDrained, MorePods, PodTotal, lists, history, PassTypeInv, IndexInv
  <2>2. \A l \in 1..PodTotal : l < j
    BY <1>c, <1>t, <2>1, CandidateTyped, PodsTyped DEF PodTotal
  <2> QED
    BY <1>c, <2>1, <2>2 DEF HomesInv, PodsOn, PodTotal
<1>5. CASE StartAnew
  <2>1. candidateNodes' = <<>>
    BY <1>5 DEF StartAnew, StartPass
  <2> QED
    BY <2>1 DEF HomesInv
<1>6. CASE UNCHANGED passVars
  BY <1>6, <1>c DEF HomesInv, PodsOn, Candidate, passVars, ranking, lists, history
<1> QED
  BY <1>1, <1>2, <1>3, <1>4, <1>5, <1>6 DEF PassNext, Evaluate

LEMMA DrainInit == InitPass => DrainInv
<1> SUFFICES ASSUME InitPass PROVE DrainInv
  OBVIOUS
<1>1. pc = "score" /\ candidateNodes = <<>>
  BY DEF InitPass
<1>2. ChainInv /\ HomesInv
  BY <1>1 DEF ChainInv, HomesInv
<1> QED
  BY <1>2, ReportInit DEF DrainInv

LEMMA DrainStep == DrainInv /\ [PassNext]_passVars => DrainInv'
BY ReportStep, ChainStep, HomesStep DEF DrainInv

LEMMA DrainRespected == DrainInv => CandidatesDrainCompletely
BY ClusterAssumption DEF DrainInv, HomesInv, CandidatesDrainCompletely

-----------------------------------------------------------------------------
(* What makes a candidate.  Each is on the list once, because it had no    *)
(* role yet when it was put there, each has reached the threshold, and no  *)
(* pod holds it.                                                           *)
CandidatesInv ==
    /\ pc = "testFit" => Drainable(Candidate)
    /\ \A k \in 1..Len(candidateNodes) : Drainable(candidateNodes[k])
    /\ \A k, l \in 1..Len(candidateNodes) : candidateNodes[k] = candidateNodes[l] => k = l

LEMMA CandidatesStep ==
    CapInv /\ ListsInv /\ CandidatesInv /\ [PassNext]_passVars => CandidatesInv'
<1> SUFFICES ASSUME CapInv, ListsInv, CandidatesInv, [PassNext]_passVars
             PROVE  CandidatesInv'
  OBVIOUS
<1>t. /\ candidateNodes \in Seq(Nodes) /\ Len(candidateNodes) \in Nat
      /\ scoredList \in Seq(Nodes) /\ i \in 1..(Len(scoredList) + 1)
      /\ role \in [Nodes -> Roles] /\ PassTypeInv
  BY DEF CapInv, PassTypeInv, PassTypeOK
<1>1. CASE ScoreAndSort
  <2>1. pc = "score" /\ pc' = "floor" /\ candidateNodes' = candidateNodes
    BY <1>1 DEF ScoreAndSort, lists
  <2>2. Len(candidateNodes) = 0
    <3>1. i = 1 /\ Settled = 0
      BY <2>1, <1>t DEF PassTypeInv, IndexInv, Settled
    <3>2. Len(safeNodes) \in Nat /\ Len(neutralNodes) \in Nat
      BY <1>t DEF PassTypeInv, PassTypeOK
    <3> QED
      BY <3>1, <3>2, <1>t DEF ListsInv
  <2> QED
    BY <2>1, <2>2 DEF CandidatesInv
<1>2. CASE ConsiderNode
  <2>1. pc' = "testFit" => Drainable(scoredList[i])
    BY <1>2 DEF ConsiderNode
  <2>2. UNCHANGED <<cluster, drainScore, scoredList, i, candidateNodes>>
    BY <1>2 DEF ConsiderNode, ranking, lists
  <2> QED
    BY <2>1, <2>2 DEF CandidatesInv, Candidate, Drainable, HasUnmovable, PodAt, PodsOn
<1>3. CASE AcceptCandidate
  <2>1. /\ pc = "testFit" /\ pc' = "deductFit" /\ UNCHANGED <<cluster, drainScore>>
        /\ candidateNodes' = Append(candidateNodes, Candidate)
    BY <1>3 DEF AcceptCandidate, ranking
  <2>2. i \in 1..Len(scoredList) /\ Candidate \in Nodes /\ Candidate = scoredList[i]
    BY <1>t, <2>1, CandidateTyped DEF PassTypeInv, IndexInv, Candidate
  <2>3. role[Candidate] = "none"
    BY <2>1, <2>2 DEF CapInv, AheadInv
  <2>4. \A k \in 1..Len(candidateNodes) : candidateNodes[k] # Candidate
    <3> TAKE k \in 1..Len(candidateNodes)
    <3>1. candidateNodes[k] \in Nodes /\ On(candidateNodes, candidateNodes[k])
      BY <1>t DEF On
    <3>2. role[candidateNodes[k]] = "candidate"
      BY <3>1 DEF ListsInv
    <3> QED
      BY <2>3, <3>2
  <2>5. /\ Len(candidateNodes') = Len(candidateNodes) + 1
        /\ candidateNodes'[Len(candidateNodes) + 1] = Candidate
        /\ \A k \in 1..Len(candidateNodes) : candidateNodes'[k] = candidateNodes[k]
    BY <1>t, <2>1, <2>2
  <2>6. \A k \in 1..Len(candidateNodes') :
           k \in 1..Len(candidateNodes) \/ k = Len(candidateNodes) + 1
    BY <1>t, <2>5
  <2>7. \A k \in 1..Len(candidateNodes') : Drainable(candidateNodes'[k])
    BY <2>1, <2>5, <2>6 DEF CandidatesInv
  <2>8. (\A k \in 1..Len(candidateNodes) : Drainable(candidateNodes[k]))'
    BY <2>1, <2>7 DEF Drainable, HasUnmovable, PodAt, PodsOn
  <2>9. \A k, l \in 1..Len(candidateNodes') : candidateNodes'[k] = candidateNodes'[l] => k = l
    BY <2>4, <2>5, <2>6 DEF CandidatesInv
  <2> QED
    BY <2>1, <2>8, <2>9 DEF CandidatesInv
<1>4. CASE \/ DesignateFloor \/ FloorDone \/ TestFitPod \/ DeductFitPod \/ NodeDrained
           \/ KeepNode \/ Finish
  <2>1. /\ UNCHANGED <<cluster, drainScore, scoredList, candidateNodes>>
        /\ pc' = "testFit" => pc = "testFit" /\ i' = i
    BY <1>4 DEF DesignateFloor, FloorDone, TestFitPod, DeductFitPod, NodeDrained, KeepNode,
                Finish, AddSafe, ranking, lists
  <2> QED
    BY <2>1 DEF CandidatesInv, Candidate, Drainable, HasUnmovable, PodAt, PodsOn
<1>5. CASE StartAnew
  <2>1. candidateNodes' = <<>> /\ pc' = "score"
    BY <1>5 DEF StartAnew, StartPass
  <2> QED
    BY <2>1 DEF CandidatesInv
<1>6. CASE UNCHANGED passVars
  BY <1>6 DEF CandidatesInv, Candidate, Drainable, HasUnmovable, PodAt, PodsOn, passVars,
              ranking, lists
<1> QED
  BY <1>1, <1>2, <1>3, <1>4, <1>5, <1>6 DEF PassNext, Evaluate

-----------------------------------------------------------------------------
(* No node is safe, or a candidate, that the list of such nodes does not   *)
(* name.                                                                   *)
RolesListedInv ==
    \A n \in Nodes : /\ role[n] = "safe" => On(safeNodes, n)
                     /\ role[n] = "candidate" => On(candidateNodes, n)

\* One more node on one of the lists, with the role the list stands for.
LEMMA RoleListed ==
    ASSUME PassTypeInv, RolesListedInv, NEW m \in Nodes, NEW r,
           role' = [role EXCEPT ![m] = r],
           safeNodes' = IF r = "safe" THEN Append(safeNodes, m) ELSE safeNodes,
           candidateNodes' = IF r = "candidate" THEN Append(candidateNodes, m) ELSE candidateNodes
    PROVE  RolesListedInv'
<1>t. role \in [Nodes -> Roles] /\ safeNodes \in Seq(Nodes) /\ candidateNodes \in Seq(Nodes)
  BY DEF PassTypeInv, PassTypeOK
<1> SUFFICES ASSUME NEW n \in Nodes
             PROVE  /\ role'[n] = "safe" => On(safeNodes', n)
                    /\ role'[n] = "candidate" => On(candidateNodes', n)
  BY DEF RolesListedInv
<1>1. /\ On(safeNodes, n) => On(safeNodes', n)
      /\ On(candidateNodes, n) => On(candidateNodes', n)
      /\ r = "safe" /\ n = m => On(safeNodes', n)
      /\ r = "candidate" /\ n = m => On(candidateNodes', n)
  BY <1>t, OnAppended
<1>2. role'[n] = IF n = m THEN r ELSE role[n]
  BY <1>t
<1> QED
  BY <1>1, <1>2 DEF RolesListedInv

LEMMA RolesListedStep ==
    PassTypeInv /\ RolesListedInv /\ [PassNext]_passVars => RolesListedInv'
<1> SUFFICES ASSUME PassTypeInv, RolesListedInv, [PassNext]_passVars PROVE RolesListedInv'
  OBVIOUS
<1>t. scoredList \in Seq(Nodes) /\ i \in 1..(Len(scoredList) + 1)
  BY DEF PassTypeInv, PassTypeOK
<1>1. CASE DesignateFloor
  <2>1. AddSafe(scoredList[i]) /\ i <= FloorCount
    BY <1>1 DEF DesignateFloor
  <2>2. FloorCount <= Len(scoredList) /\ FloorCount \in Int
    BY <1>t, WaterlineAssumption DEF FloorCount, MinOf
  <2>3. scoredList[i] \in Nodes
    BY <1>t, <2>1, <2>2
  <2> QED
    BY <2>1, <2>3, RoleListed DEF AddSafe
<1>2. CASE KeepNode
  <2>1. Candidate \in Nodes
    BY <1>2, CandidateTyped DEF KeepNode, PassTypeInv, IndexInv
  <2>2. CASE AddSafe(Candidate)
    BY <2>1, <2>2, RoleListed DEF AddSafe
  <2>3. CASE /\ role' = [role EXCEPT ![Candidate] = "neutral"]
             /\ UNCHANGED <<safeNodes, candidateNodes>>
    BY <2>1, <2>3, RoleListed
  <2> QED
    BY <1>2, <2>2, <2>3 DEF KeepNode
<1>3. CASE AcceptCandidate
  <2>1. Candidate \in Nodes
    BY <1>3, CandidateTyped DEF AcceptCandidate, PassTypeInv, IndexInv
  <2>2. /\ role' = [role EXCEPT ![Candidate] = "candidate"]
        /\ candidateNodes' = Append(candidateNodes, Candidate) /\ safeNodes' = safeNodes
    BY <1>3 DEF AcceptCandidate
  <2> QED
    BY <2>1, <2>2, RoleListed
<1>4. CASE StartAnew
  <2>1. role' = [n \in Nodes |-> "none"]
    BY <1>4 DEF StartAnew, StartPass
  <2> QED
    BY <2>1 DEF RolesListedInv
<1>5. CASE UNCHANGED lists
  BY <1>5 DEF RolesListedInv, lists
<1> QED
  BY <1>1, <1>2, <1>3, <1>4, <1>5
     DEF PassNext, Evaluate, passVars, ScoreAndSort, FloorDone, ConsiderNode, TestFitPod,
         DeductFitPod, NodeDrained, Finish

-----------------------------------------------------------------------------
(* Joint capacity, counted by pods.  A pod is placed where its deduction   *)
(* is booked, so what the pods placed on a node ask for is no more than    *)
(* what was moved there; a pod listed twice is booked twice and placed     *)
(* once.                                                                   *)
PlacedOn(n) == {p \in Pods : placement[p] = n}
Placed == {p \in Pods : placement[p] # NoNode}

JointInv ==
    /\ IsFiniteSet(Placed)
    /\ \A n \in Nodes :
         /\ Fits(moved[n], Requests(cluster.pods, PlacedOn(n)))
         /\ PlacedOn(n) # {} =>
              role[n] = "safe" /\ remaining[n].cpu >= 0 /\ remaining[n].mem >= 0

LEMMA PlacedOnFinite ==
    ASSUME JointInv, NEW n \in Nodes
    PROVE  IsFiniteSet(PlacedOn(n)) /\ PlacedOn(n) \in SUBSET Pods
<1>1. PlacedOn(n) \subseteq Placed
  BY ClusterAssumption DEF PlacedOn, Placed
<1> QED
  BY <1>1, FS_Subset DEF JointInv, Placed

LEMMA ClusterPodsTyped ==
    ASSUME PassTypeInv
    PROVE  cluster.pods \in [Pods -> PodInfo]
BY CycleAssumption DEF PassTypeInv, PassTypeOK, Snapshots

\* Steps that place nobody.
LEMMA JointKept ==
    ASSUME CapInv, JointInv, Evaluate, UNCHANGED <<cluster, placement, moved>>
    PROVE  JointInv'
<1>1. IsFiniteSet(Placed)' /\ \A n : PlacedOn(n)' = PlacedOn(n)
  BY DEF JointInv, Placed, PlacedOn
<1> SUFFICES ASSUME NEW n \in Nodes
             PROVE  /\ Fits(moved[n], Requests(cluster.pods, PlacedOn(n)))
                    /\ PlacedOn(n) # {} =>
                         role'[n] = "safe" /\ remaining'[n].cpu >= 0 /\ remaining'[n].mem >= 0
  BY <1>1 DEF JointInv
<1>2. CASE PlacedOn(n) # {}
  <2>1. role[n] = "safe" /\ remaining[n] = Minus(Spare(cluster, n), moved[n])
    BY <1>2 DEF JointInv, CapInv, BalanceInv
  <2>2. role'[n] = "safe"
    BY <2>1, RolesStay
  <2>3. BalanceInv'
    BY CapStep DEF PassNext, CapInv
  <2>4. remaining'[n] = Minus(Spare(cluster, n), moved[n])
    BY <2>2, <2>3 DEF BalanceInv, Spare
  <2> QED
    BY <2>1, <2>2, <2>4 DEF JointInv
<1> QED
  BY <1>2 DEF JointInv

\* Pod q moves onto the safe node n, which has room for it.
LEMMA JointDeducted ==
    ASSUME CapInv, JointInv, NEW n \in Nodes, NEW q \in Pods, role[n] = "safe",
           Fits(remaining[n], cluster.pods[q]),
           remaining' = [remaining EXCEPT ![n] = Minus(@, cluster.pods[q])],
           moved' = [moved EXCEPT ![n] = Plus(@, cluster.pods[q])],
           placement' = [placement EXCEPT ![q] = n],
           UNCHANGED <<cluster, role>>
    PROVE  JointInv'
<1> DEFINE w == cluster.pods[q]
<1>1. /\ remaining \in [Nodes -> Balance] /\ moved \in [Nodes -> Quantities]
      /\ placement \in [Pods -> Nodes \cup {NoNode}]
      /\ cluster.pods \in [Pods -> PodInfo]
  BY ClusterPodsTyped DEF CapInv, PassTypeInv, PassTypeOK
<1>2. w.cpu \in Nat /\ w.mem \in Nat
  BY <1>1 DEF PodInfo
<1>4. remaining[n].cpu >= w.cpu /\ remaining[n].mem >= w.mem
  BY DEF Fits
<1>5. /\ remaining'[n] = Minus(remaining[n], w) /\ moved'[n] = Plus(moved[n], w)
      /\ placement'[q] = n
      /\ \A m \in Nodes : m # n => remaining'[m] = remaining[m] /\ moved'[m] = moved[m]
      /\ \A p \in Pods : p # q => placement'[p] = placement[p]
  BY <1>1
<1> HIDE DEF w
<1>6. PlacedOn(n)' = PlacedOn(n) \cup {q}
  BY <1>2, <1>5 DEF PlacedOn
<1>7. \A m \in Nodes : m # n => PlacedOn(m)' = PlacedOn(m) \ {q}
  BY <1>2, <1>5 DEF PlacedOn
<1>8. IsFiniteSet(Placed)'
  <2>1. Placed' = Placed \cup {q}
    BY <1>1, <1>2, <1>5, ClusterAssumption DEF Placed
  <2>2. IsFiniteSet(Placed \cup {q})
    BY FS_AddElement DEF JointInv
  <2> QED
    BY <2>1, <2>2
<1> SUFFICES ASSUME NEW m \in Nodes
             PROVE  /\ Fits(moved'[m], Requests(cluster.pods, PlacedOn(m)'))
                    /\ PlacedOn(m)' # {} =>
                         role[m] = "safe" /\ remaining'[m].cpu >= 0 /\ remaining'[m].mem >= 0
  BY <1>8 DEF JointInv
<1>9. /\ Fits(moved[m], Requests(cluster.pods, PlacedOn(m)))
      /\ IsFiniteSet(PlacedOn(m)) /\ PlacedOn(m) \in SUBSET Pods
      /\ Requests(cluster.pods, PlacedOn(m)) \in Quantities
      /\ moved[m] \in Quantities /\ remaining[m] \in Balance
  BY <1>1, PlacedOnFinite, RequestsTyped DEF JointInv
<1>10. CASE m = n
  <2>1. Fits(Plus(Requests(cluster.pods, PlacedOn(n)), w),
             Requests(cluster.pods, PlacedOn(n) \cup {q}))
    BY <1>1, <1>9, <1>10, RequestsBounded DEF w
  <2>2. Requests(cluster.pods, PlacedOn(n) \cup {q}) \in Quantities
    <3>1. IsFiniteSet(PlacedOn(n) \cup {q}) /\ PlacedOn(n) \cup {q} \in SUBSET Pods
      BY <1>2, <1>9, <1>10, FS_AddElement
    <3> QED
      BY <1>1, <3>1, RequestsTyped
  <2>3. Fits(moved'[n], Requests(cluster.pods, PlacedOn(n) \cup {q}))
    BY <1>2, <1>5, <1>9, <1>10, <2>1, <2>2 DEF Fits, Plus, Quantities
  <2>4. remaining'[n].cpu >= 0 /\ remaining'[n].mem >= 0
    BY <1>2, <1>4, <1>5, <1>9, <1>10 DEF Minus, Balance
  <2> QED
    BY <1>6, <1>10, <2>3, <2>4
<1>11. CASE m # n
  <2>1. Fits(Requests(cluster.pods, PlacedOn(m)), Requests(cluster.pods, PlacedOn(m) \ {q}))
    BY <1>1, <1>2, <1>9, RequestsBounded
  <2>2. Requests(cluster.pods, PlacedOn(m) \ {q}) \in Quantities
    <3>1. IsFiniteSet(PlacedOn(m) \ {q}) /\ PlacedOn(m) \ {q} \in SUBSET Pods
      BY <1>9, FS_Subset
    <3> QED
      BY <1>1, <3>1, RequestsTyped
  <2>3. Fits(moved[m], Requests(cluster.pods, PlacedOn(m) \ {q}))
    BY <1>9, <2>1, <2>2 DEF Fits, Quantities
  <2>4. PlacedOn(m) \ {q} # {} =>
          role[m] = "safe" /\ remaining[m].cpu >= 0 /\ remaining[m].mem >= 0
    BY DEF JointInv
  <2> QED
    BY <1>5, <1>7, <1>11, <2>3, <2>4
<1> QED
  BY <1>10, <1>11

LEMMA JointStep == CapInv /\ JointInv /\ [PassNext]_passVars => JointInv'
<1> SUFFICES ASSUME CapInv, JointInv, [PassNext]_passVars PROVE JointInv'
  OBVIOUS
<1>1. CASE /\ Evaluate
           /\ UNCHANGED <<cluster, placement, moved>>
  BY <1>1, JointKept
<1>2. CASE DeductFitPod
  <2>1. i <= Len(scoredList) /\ MorePods /\ UNCHANGED <<cluster, role>>
    BY <1>2 DEF DeductFitPod, CapInv, PassTypeInv, IndexInv, lists
  <2>2. CASE NobodyTakes(remaining, PodAt(Candidate, j)) /\ UNCHANGED <<remaining, history>>
    BY <1>2, <2>1, <2>2, JointKept DEF Evaluate, history
  <2>3. CASE \E k \in 1..Len(safeNodes) :
               LET n == safeNodes[k]
                   pod == PodAt(Candidate, j)
               IN  /\ TakesFirst(remaining, pod, k)
                   /\ remaining' = [remaining EXCEPT ![n] = Minus(@, pod)]
                   /\ moved' = [moved EXCEPT ![n] = Plus(@, pod)]
                   /\ placement' = [placement EXCEPT ![PodsOn(Candidate)[j]] = n]
    <3>1. PICK k \in 1..Len(safeNodes) :
             /\ TakesFirst(remaining, PodAt(Candidate, j), k)
             /\ remaining' = [remaining EXCEPT ![safeNodes[k]] = Minus(@, PodAt(Candidate, j))]
             /\ moved' = [moved EXCEPT ![safeNodes[k]] = Plus(@, PodAt(Candidate, j))]
             /\ placement' = [placement EXCEPT ![PodsOn(Candidate)[j]] = safeNodes[k]]
      BY <2>3
    <3>2. safeNodes[k] \in Nodes /\ role[safeNodes[k]] = "safe"
      BY DEF CapInv, SafeInv, PassTypeInv, PassTypeOK
    <3>3. PodsOn(Candidate)[j] \in Pods
      <4>1. Candidate \in Nodes
        BY <2>1, CandidateTyped DEF CapInv
      <4> QED
        BY <2>1, <4>1, PodsTyped DEF CapInv, MorePods, PassTypeInv, PassTypeOK
    <3>4. Fits(remaining[safeNodes[k]], PodAt(Candidate, j))
      BY <3>1 DEF TakesFirst
    <3> QED
      BY <2>1, <3>1, <3>2, <3>3, <3>4, JointDeducted DEF PodAt
  <2> QED
    BY <1>2, <2>2, <2>3 DEF DeductFitPod
<1>3. CASE StartAnew
  <2>1. (placement = [p \in Pods |-> NoNode])' /\ (moved = [n \in Nodes |-> Nothing])'
    BY <1>3 DEF StartAnew, StartPass
  <2>2. IsFiniteSet({}) /\ Placed' = {} /\ \A n \in Nodes : PlacedOn(n)' = {}
    BY <2>1, ClusterAssumption, FS_EmptySet DEF Placed, PlacedOn
  <2>3. Requests(cluster'.pods, {}) = Nothing /\ \A n \in Nodes : moved'[n] = Nothing
    BY <2>1, RequestsEmpty
  <2>4. IsFiniteSet(Placed')
    BY <2>2
  <2>5. \A n \in Nodes : Fits(moved'[n], Requests(cluster'.pods, PlacedOn(n)'))
    <3> SUFFICES ASSUME NEW n \in Nodes PROVE Fits(Nothing, Nothing)
      BY <2>2, <2>3
    <3> QED
      BY DEF Fits, Nothing
  <2> QED
    BY <2>2, <2>4, <2>5 DEF JointInv
<1>4. CASE UNCHANGED passVars
  BY <1>4 DEF JointInv, Placed, PlacedOn, passVars, lists, history
<1> QED
  BY <1>1, <1>2, <1>3, <1>4
     DEF PassNext, Evaluate, ScoreAndSort, DesignateFloor, FloorDone, ConsiderNode, TestFitPod,
         AcceptCandidate, NodeDrained, KeepNode, Finish, AddSafe, lists, history

LEMMA JointInit == InitPass => JointInv
<1> SUFFICES ASSUME InitPass PROVE JointInv
  OBVIOUS
<1>1. Placed = {} /\ \A n \in Nodes : PlacedOn(n) = {} /\ moved[n] = Nothing
  BY ClusterAssumption DEF Placed, PlacedOn, InitPass
<1> QED
  BY <1>1, FS_EmptySet, RequestsEmpty DEF JointInv, Fits, Nothing

-----------------------------------------------------------------------------
(* All of it together.                                                     *)

PassInv == DrainInv /\ ListsInv /\ CandidatesInv /\ RolesListedInv /\ JointInv

LEMMA PassInvInit == InitPass => PassInv
<1> SUFFICES ASSUME InitPass PROVE PassInv
  OBVIOUS
<1>1. pc = "score" /\ candidateNodes = <<>>
  BY DEF InitPass
<1>2. CandidatesInv
  BY <1>1 DEF CandidatesInv
<1>3. RolesListedInv
  BY DEF RolesListedInv, InitPass
<1> QED
  BY <1>2, <1>3, DrainInit, ListsInit, JointInit DEF PassInv

LEMMA PassInvStep == PassInv /\ [PassNext]_passVars => PassInv'
BY DrainStep, ListsStep, CandidatesStep, RolesListedStep, JointStep
   DEF PassInv, DrainInv, ReportInv, CapInv

\* The properties of the pass that hold wherever the invariant does.
LEMMA PassInvGives ==
    PassInv => /\ PassTypeOK
               /\ CapacityRespected
               /\ CandidatesDrainCompletely
               /\ ReportPartitionsEligible
               /\ FloorIsSafest
BY BalanceRespected, DrainRespected, ListsComplete, FloorRespected
   DEF PassInv, DrainInv, ReportInv, CapInv, PassTypeInv

(* What the report of a finished pass says to whoever acts on it.          *)
LEMMA ReportIsSound ==
    ASSUME PassInv, pc = "done"
    PROVE  /\ \A k \in 1..Len(candidateNodes) :
                 LET n == candidateNodes[k] IN
                 /\ n \in cluster.eligible /\ role[n] = "candidate" /\ ~InFloor(n)
                 /\ drainScore[n] >= CandidateDrainThreshold * 100 /\ ~HasUnmovable(n)
                 /\ \A l \in 1..Len(PodsOn(n)) : placement[PodsOn(n)[l]] # NoNode
           /\ \A k \in 1..Len(safeNodes) :
                 safeNodes[k] \in cluster.eligible /\ role[safeNodes[k]] = "safe"
           /\ \A k, l \in 1..Len(candidateNodes) : k # l => candidateNodes[k] # candidateNodes[l]
<1>t. /\ candidateNodes \in Seq(Nodes) /\ safeNodes \in Seq(Nodes)
      /\ FloorIsSafest /\ CandidatesDrainCompletely /\ ListsInv /\ OrderInv /\ CandidatesInv
  BY PassInvGives DEF PassInv, DrainInv, ReportInv, PassTypeOK
<1>1. \A n \in Nodes : On(scoredList, n) => n \in cluster.eligible
  BY <1>t DEF OrderInv, On
<1>2. ASSUME NEW k \in 1..Len(safeNodes)
      PROVE  safeNodes[k] \in cluster.eligible /\ role[safeNodes[k]] = "safe"
  <2>1. safeNodes[k] \in Nodes /\ On(safeNodes, safeNodes[k])
    BY <1>t DEF On
  <2> QED
    BY <1>1, <1>t, <2>1 DEF ListsInv
<1>3. ASSUME NEW k \in 1..Len(candidateNodes)
      PROVE  /\ candidateNodes[k] \in cluster.eligible /\ role[candidateNodes[k]] = "candidate"
             /\ ~InFloor(candidateNodes[k])
  <2>1. candidateNodes[k] \in Nodes /\ On(candidateNodes, candidateNodes[k])
    BY <1>t DEF On
  <2>2. candidateNodes[k] \in cluster.eligible /\ role[candidateNodes[k]] = "candidate"
    BY <1>1, <1>t, <2>1 DEF ListsInv
  <2>3. ~InFloor(candidateNodes[k])
    BY <1>t, <2>2 DEF FloorIsSafest, InFloor
  <2> QED
    BY <2>2, <2>3
<1>4. \A k \in 1..Len(candidateNodes) : \A l \in 1..Len(PodsOn(candidateNodes[k])) :
         placement[PodsOn(candidateNodes[k])[l]] # NoNode
  BY <1>t DEF CandidatesDrainCompletely
<1> QED
  BY <1>2, <1>3, <1>4, <1>t DEF CandidatesInv, Drainable
=============================================================================
