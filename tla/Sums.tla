-------------------------------- MODULE Sums --------------------------------
(***************************************************************************)
(* Lemmas about sums over finite sets, for the components that keep books: *)
(* the ledger's accounts and the averages of federated training.           *)
(*                                                                         *)
(* SumFunction takes an element that CHOOSE names and adds what the rest   *)
(* sums up to.  What holds of the sum over no element, and of one more     *)
(* than holds already, holds of every sum: a smallest set of which it does *)
(* not would be neither.                                                   *)
(***************************************************************************)
EXTENDS Integers, FiniteSets, Functions, FiniteSetTheorems, WellFoundedInduction, TLAPS

\* A set of naturals has a least element.
LEMMA Least ==
  ASSUME NEW T \in SUBSET Nat, T # {}
  PROVE  \E n \in T : \A m \in T : n <= m
<1>1. PICK n \in T : \A m \in T : ~(<<m, n>> \in OpToRel(<, Nat))
  BY NatLessThanWellFounded, WFMin
<1>2. ASSUME NEW m \in T PROVE n <= m
  <2>1. ~(m < n)
    BY <1>1 DEF OpToRel
  <2>2. QED
    BY <2>1
<1>3. QED
  BY <1>2

\* The element of A that its sum takes, and the others.
First(A) == CHOOSE x \in A : TRUE
Rest(A)  == A \ {First(A)}

LEMMA Fewer ==
  ASSUME NEW S, IsFiniteSet(S), NEW A \in SUBSET S, A # {}
  PROVE  /\ First(A) \in A /\ Rest(A) \in SUBSET S /\ First(A) \notin Rest(A)
         /\ A = Rest(A) \cup {First(A)}
         /\ Cardinality(A) \in Nat \ {0} /\ Cardinality(Rest(A)) = Cardinality(A) - 1
<1>1. First(A) \in A
  BY DEF First
<1>2. IsFiniteSet(A)
  BY FS_Subset
<1>3. Cardinality(Rest(A)) = Cardinality(A) - 1
  BY <1>1, <1>2, FS_RemoveElement DEF Rest
<1>4. Cardinality(A) \in Nat \ {0}
  BY <1>2, FS_CardinalityType, FS_EmptySet
<1>5. QED
  BY <1>1, <1>3, <1>4 DEF Rest

\* A claim that fails for no element, and for A only if it fails for the rest of A, does not fail.
LEMMA NoFailure ==
  ASSUME NEW S, IsFiniteSet(S), NEW F \in SUBSET SUBSET S, {} \notin F,
         \A A \in SUBSET S : A # {} /\ Rest(A) \notin F => A \notin F
  PROVE  F = {}
<1> SUFFICES ASSUME F # {} PROVE FALSE
  OBVIOUS
<1> DEFINE T == {Cardinality(A) : A \in F}
<1>1. T \in SUBSET Nat /\ T # {}
  BY FS_Subset, FS_CardinalityType
<1>2. PICK n \in T : \A m \in T : n <= m
  BY <1>1, Least
<1>3. PICK A \in F : Cardinality(A) = n
  BY <1>2
<1>4. A \in SUBSET S /\ A # {}
  BY <1>3
<1>5. Rest(A) \in F
  BY <1>3, <1>4
<1>6. n <= n - 1 /\ n \in Nat
  BY <1>2, <1>3, <1>4, <1>5, Fewer
<1>7. QED
  BY <1>6

\* g is the sum of f over each set of elements of S.
Step(g, f, A) == IF A = {} THEN 0 ELSE f[First(A)] + g[Rest(A)]
Adds(g, f, S) == g = [A \in SUBSET S |-> Step(g, f, A)]

LEMMA StepInt ==
  ASSUME NEW S, IsFiniteSet(S), NEW f \in [S -> Int], NEW g \in [SUBSET S -> Int],
         NEW A \in SUBSET S
  PROVE  Step(g, f, A) \in Int
<1>1. CASE A = {}
  BY <1>1 DEF Step
<1>2. CASE A # {}
  BY <1>2, Fewer DEF Step
<1>3. QED
  BY <1>1, <1>2

\* There are sums over up to n elements for each n.
LEMMA SumExists ==
  ASSUME NEW S, IsFiniteSet(S), NEW f \in [S -> Int]
  PROVE  \E g : Adds(g, f, S)
<1> DEFINE Upto(n, g) == \A A \in SUBSET S : Cardinality(A) <= n => g[A] = Step(g, f, A)
           Some(n) == \E g \in [SUBSET S -> Int] : Upto(n, g)
           T == {n \in Nat : ~Some(n)}
<1>1. \A A \in SUBSET S :
         IsFiniteSet(A) /\ Cardinality(A) \in Nat /\ Cardinality(A) <= Cardinality(S)
  BY FS_Subset, FS_CardinalityType
<1>2. Some(0)
  <2> DEFINE z == [A \in SUBSET S |-> 0]
  <2>1. \A A \in SUBSET S : Cardinality(A) <= 0 => A = {}
    BY <1>1, FS_EmptySet
  <2>2. Upto(0, z) /\ z \in [SUBSET S -> Int]
    BY <2>1 DEF Step
  <2> HIDE DEF z
  <2>3. QED
    BY <2>2
<1>3. ASSUME NEW n \in Nat \ {0}, Some(n - 1) PROVE Some(n)
  <2>1. PICK g \in [SUBSET S -> Int] : Upto(n - 1, g)
    BY <1>3
  <2> DEFINE h == [A \in SUBSET S |-> IF Cardinality(A) = n THEN Step(g, f, A) ELSE g[A]]
  <2>2. h \in [SUBSET S -> Int]
    BY StepInt
  <2>3. ASSUME NEW A \in SUBSET S, Cardinality(A) <= n PROVE h[A] = Step(h, f, A)
    <3>1. h[A] = Step(g, f, A)
      <4>1. CASE Cardinality(A) = n
        BY <4>1
      <4>2. CASE Cardinality(A) # n
        BY <4>2, <2>1, <2>3, <1>1
      <4>3. QED
        BY <4>1, <4>2
    <3>2. CASE A = {}
      BY <3>1, <3>2 DEF Step
    <3>3. CASE A # {}
      <4>1. Rest(A) \in SUBSET S /\ Cardinality(Rest(A)) # n
        BY <3>3, <2>3, Fewer
      <4>2. h[Rest(A)] = g[Rest(A)]
        BY <4>1
      <4>3. QED
        BY <3>1, <3>3, <4>2 DEF Step
    <3>4. QED
      BY <3>2, <3>3
  <2> HIDE DEF h
  <2>4. QED
    BY <2>2, <2>3
<1>4. T = {}
  <2> HIDE DEF Some
  <2>1. SUFFICES ASSUME T # {} PROVE FALSE
    OBVIOUS
  <2>2. PICK n \in T : \A m \in T : n <= m
    BY <2>1, Least
  <2>3. n \in Nat \ {0} /\ ~Some(n)
    BY <2>2, <1>2
  <2>4. Some(n - 1)
    BY <2>2, <2>3
  <2>5. QED
    BY <2>3, <2>4, <1>3
<1>5. Some(Cardinality(S))
  <2> HIDE DEF Some
  <2>1. QED
    BY <1>4, FS_CardinalityType
<1>6. PICK g \in [SUBSET S -> Int] : Upto(Cardinality(S), g)
  BY <1>5
<1>7. QED
  BY <1>1, <1>6 DEF Adds

\* SumFunction is such a sum.
LEMMA SumAdds ==
  ASSUME NEW S, IsFiniteSet(S), NEW f \in [S -> Int]
  PROVE  \E g : Adds(g, f, S) /\ SumFunction(f) = g[S]
<1> DEFINE It(g) == [A \in SUBSET S |->
                        IF A = {} THEN 0 ELSE LET x == CHOOSE x \in A : TRUE IN f[x] + g[A \ {x}]]
           G == CHOOSE g : g = It(g)
<1>1. ASSUME NEW g PROVE It(g) = [A \in SUBSET S |-> Step(g, f, A)]
  BY DEF Step, First, Rest
<1>2. \E g : g = It(g)
  <2>1. PICK g : Adds(g, f, S)
    BY SumExists
  <2>2. It(g) = [A \in SUBSET S |-> Step(g, f, A)]
    BY <1>1
  <2> HIDE DEF It
  <2>3. QED
    BY <2>1, <2>2 DEF Adds
<1>3. G = It(G)
  <2> HIDE DEF It
  <2>1. QED
    BY <1>2
<1>4. DOMAIN f = S
  OBVIOUS
<1>5. SumFunction(f) = G[S]
  BY <1>4 DEF SumFunction, SumFunctionOnSet, FoldFunctionOnSet, MapThenFoldSet
<1>6. Adds(G, f, S)
  <2> HIDE DEF G
  <2>1. QED
    BY <1>1, <1>3 DEF Adds
<1> HIDE DEF G
<1>7. QED
  BY <1>5, <1>6

LEMMA SumInt ==
  ASSUME NEW S, IsFiniteSet(S), NEW f \in [S -> Int], NEW g, Adds(g, f, S)
  PROVE  \A A \in SUBSET S : g[A] \in Int
<1> DEFINE F == {A \in SUBSET S : g[A] \notin Int}
<1>1. {} \notin F
  BY DEF Adds, Step
<1>2. ASSUME NEW A \in SUBSET S, A # {}, Rest(A) \notin F PROVE A \notin F
  BY <1>2, Fewer DEF Adds, Step
<1>3. F = {}
  <2> HIDE DEF F
  <2>1. F \in SUBSET SUBSET S
    BY DEF F
  <2>2. QED
    BY <1>1, <1>2, <2>1, NoFailure
<1>4. QED
  BY <1>3

\* The sums of what differs in one element differ by that.
LEMMA SumsDiffer ==
  ASSUME NEW S, IsFiniteSet(S), NEW f \in [S -> Int], NEW e \in [S -> Int], NEW g, NEW h,
         Adds(g, f, S), Adds(h, e, S), NEW r, NEW d \in Int,
         \A x \in S : e[x] = f[x] + (IF x = r THEN d ELSE 0)
  PROVE  h[S] = g[S] + (IF r \in S THEN d ELSE 0)
<1> DEFINE Differ(A) == h[A] = g[A] + (IF r \in A THEN d ELSE 0)
           F == {A \in SUBSET S : ~Differ(A)}
<1>1. \A A \in SUBSET S : g[A] \in Int /\ h[A] \in Int
  BY SumInt
<1>2. Differ({})
  <2>1. g[{}] = 0 /\ h[{}] = 0
    BY DEF Adds, Step
  <2>2. QED
    BY <2>1
<1>3. ASSUME NEW A \in SUBSET S, A # {}, Differ(Rest(A)) PROVE Differ(A)
  <2> DEFINE x == First(A)
             B == Rest(A)
  <2>1. x \in S /\ B \in SUBSET S /\ x \notin B /\ A = B \cup {x}
    BY <1>3, Fewer
  <2>2. g[A] = f[x] + g[B] /\ h[A] = e[x] + h[B]
    BY <1>3 DEF Adds, Step
  <2>3. e[x] = f[x] + (IF x = r THEN d ELSE 0) /\ f[x] \in Int /\ e[x] \in Int
        /\ g[B] \in Int /\ h[B] \in Int /\ Differ(B)
    BY <1>1, <1>3, <2>1
  <2> HIDE DEF x, B
  <2>4. CASE r = x
    BY <2>1, <2>2, <2>3, <2>4
  <2>5. CASE r # x
    BY <2>1, <2>2, <2>3, <2>5
  <2>6. QED
    BY <2>4, <2>5
<1>4. F = {}
  <2> HIDE DEF Differ
  <2>1. {} \notin F /\ \A A \in SUBSET S : A # {} /\ Rest(A) \notin F => A \notin F
    BY <1>2, <1>3, Fewer
  <2>2. F \in SUBSET SUBSET S
    OBVIOUS
  <2> HIDE DEF F
  <2>3. QED
    BY <2>1, <2>2, NoFailure
<1>5. QED
  BY <1>4

\* A weighted sum is within a bound that the terms are within.
LEMMA SumsBounded ==
  ASSUME NEW S, IsFiniteSet(S), NEW f \in [S -> Int], NEW e \in [S -> Nat], NEW g, NEW h,
         Adds(g, f, S), Adds(h, e, S), NEW M \in Nat,
         \A x \in S : f[x] <= M * e[x] /\ -f[x] <= M * e[x]
  PROVE  \A A \in SUBSET S : h[A] \in Nat /\ g[A] <= M * h[A] /\ -g[A] <= M * h[A]
<1> DEFINE Bounded(A) == h[A] \in Nat /\ g[A] <= M * h[A] /\ -g[A] <= M * h[A]
           F == {A \in SUBSET S : ~Bounded(A)}
<1>1. \A A \in SUBSET S : g[A] \in Int
  BY SumInt
<1>2. Bounded({})
  <2>1. g[{}] = 0 /\ h[{}] = 0
    BY DEF Adds, Step
  <2>2. QED
    BY <2>1
<1>3. ASSUME NEW A \in SUBSET S, A # {}, Bounded(Rest(A)) PROVE Bounded(A)
  <2> DEFINE x == First(A)
             B == Rest(A)
  <2>1. x \in S /\ B \in SUBSET S
    BY <1>3, Fewer
  <2>2. g[A] = f[x] + g[B] /\ h[A] = e[x] + h[B]
    BY <1>3 DEF Adds, Step
  <2>3. /\ f[x] <= M * e[x] /\ -f[x] <= M * e[x] /\ f[x] \in Int /\ e[x] \in Nat
        /\ g[B] \in Int /\ Bounded(B)
    BY <1>1, <1>3, <2>1
  <2> HIDE DEF x, B
  <2>4. M * (e[x] + h[B]) = M * e[x] + M * h[B] /\ M * e[x] \in Int /\ M * h[B] \in Int
    BY <2>3
  <2>5. QED
    BY <2>2, <2>3, <2>4
<1>4. F = {}
  <2> HIDE DEF Bounded
  <2>1. {} \notin F /\ \A A \in SUBSET S : A # {} /\ Rest(A) \notin F => A \notin F
    BY <1>2, <1>3, Fewer
  <2>2. F \in SUBSET SUBSET S
    OBVIOUS
  <2> HIDE DEF F
  <2>3. QED
    BY <2>1, <2>2, NoFailure
<1>5. QED
  BY <1>4
=============================================================================
