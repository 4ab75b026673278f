----------------------------- MODULE HarnessProofs -----------------------------
(***************************************************************************)
(* Proofs about the test harness: LoadRun, the run of many calls and its   *)
(* verdict; Sampler, the CPU that run is charged with; and Borrower, one   *)
(* spoken call and what is made of it.                                     *)
(***************************************************************************)
EXTENDS LoadRun, Borrower, FiniteSetTheorems, SequenceTheorems, NaturalsInduction,
        WellFoundedInduction, TLAPS

-----------------------------------------------------------------------------
(* Numbers, and sums over finite sets.                                     *)

LEMMA LeastExists ==
    ASSUME NEW S \in SUBSET Nat, S # {}
    PROVE  \E x \in S : \A y \in S : x <= y
<1> DEFINE R == {ss \in Nat \X Nat : ss[1] < ss[2]}
<1>1. IsWellFoundedOn(R, Nat)
  BY NatLessThanWellFounded DEF OpToRel
<1>2. PICK x \in S : \A y \in S : ~(<<y, x>> \in R)
  BY <1>1, WFMin
<1>3. ASSUME NEW y \in S PROVE x <= y
  <2>1. x \in Nat /\ y \in Nat /\ ~(y < x)
    BY <1>2
  <2>2. QED
    BY <2>1
<1>4. QED
  BY <1>3

LEMMA GreatestExists ==
    ASSUME NEW n \in Nat, NEW S \in SUBSET (1..n), S # {}
    PROVE  \E x \in S : \A y \in S : y <= x
<1> DEFINE T == {n - y : y \in S}
<1>1. \A y \in S : y \in Int /\ 1 <= y /\ y <= n
  OBVIOUS
<1>2. T \in SUBSET Nat /\ T # {}
  <2>1. \A y \in S : n - y \in Nat
    BY <1>1
  <2>2. \A t \in T : t \in Nat
    BY <2>1
  <2>3. PICK y : y \in S
    OBVIOUS
  <2>4. n - y \in T
    BY <2>3
  <2> HIDE DEF T
  <2>5. QED
    BY <2>2, <2>4
<1>3. PICK t \in T : \A r \in T : t <= r
  BY <1>2, LeastExists
<1>4. PICK x \in S : t = n - x
  BY <1>3
<1>5. ASSUME NEW y \in S PROVE y <= x
  <2>1. n - x <= n - y
    BY <1>3, <1>4
  <2>2. QED
    BY <1>1, <2>1
<1>6. QED
  BY <1>5

(* Sums over finite sets.                                                  *)

LEMMA LeastSubset ==
    ASSUME NEW S, IsFiniteSet(S), NEW P \in SUBSET SUBSET S, P # {}
    PROVE  \E T \in P : \A x \in T : T \ {x} \notin P
<1>1. IsWellFoundedOn(StrictSubsetOrdering(S), SUBSET S)
  BY FS_StrictSubsetOrderingWellFounded, FS_FiniteSubsetsOfFinite
<1>2. PICK T \in P : \A U \in P : ~(<<U, T>> \in StrictSubsetOrdering(S))
  BY <1>1, WFMin
<1>3. ASSUME NEW x \in T, T \ {x} \in P PROVE FALSE
  <2>1. PICK U \in P : U = T \ {x}
    BY <1>3
  <2>2. U \in SUBSET S /\ T \in SUBSET S /\ U \subseteq T /\ U # T
    BY <2>1
  <2>3. <<U, T>> \in StrictSubsetOrdering(S)
    BY <2>2 DEF StrictSubsetOrdering
  <2>4. QED
    BY <1>2, <2>1, <2>3
<1>4. QED
  BY <1>2, <1>3

(* What holds of the empty set, and of a set with one element more if it   *)
(* holds of the set, holds of every subset of a finite one.                *)
LEMMA SetInduction ==
    ASSUME NEW S, IsFiniteSet(S), NEW Q \in SUBSET SUBSET S, {} \in Q,
           \A T \in Q : \A x \in S \ T : T \cup {x} \in Q
    PROVE  \A T \in SUBSET S : T \in Q
<1> DEFINE P == (SUBSET S) \ Q
<1> SUFFICES ASSUME P # {} PROVE FALSE
  OBVIOUS
<1>1. P \in SUBSET SUBSET S
  OBVIOUS
<1>2. PICK T \in P : \A x \in T : T \ {x} \notin P
  <2> HIDE DEF P
  <2>1. QED
    BY <1>1, LeastSubset
<1>3. PICK x \in T : TRUE
  OBVIOUS
<1>4. T \ {x} \in Q /\ x \in S \ (T \ {x}) /\ (T \ {x}) \cup {x} = T
  BY <1>2, <1>3
<1>5. QED
  BY <1>4

(* How SumFunction adds up: it takes the elements one by one, in whatever  *)
(* order CHOOSE gives them.                                                *)
Some(s) == CHOOSE x \in s : TRUE
AddsUp(f, S, g) ==
  g = [s \in SUBSET S |-> IF s = {} THEN 0 ELSE f[Some(s)] + g[s \ {Some(s)}]]

(* g is the sum of f over every subset, whatever element is added last.    *)
Adds(f, S, g) ==
  /\ g \in [SUBSET S -> Int] /\ g[{}] = 0
  /\ \A T \in SUBSET S : \A x \in S \ T : g[T \cup {x}] = f[x] + g[T]

LEMMA SomeIsOne ==
    ASSUME NEW s, s # {} PROVE Some(s) \in s
BY DEF Some

LEMMA SomeTakesOne ==
    ASSUME NEW S, NEW f, NEW g, AddsUp(f, S, g), NEW s \in SUBSET S
    PROVE  /\ s = {} => g[s] = 0
           /\ s # {} => Some(s) \in s /\ g[s] = f[Some(s)] + g[s \ {Some(s)}]
BY SomeIsOne DEF AddsUp

LEMMA SumsExist ==
    ASSUME NEW S, IsFiniteSet(S), NEW f \in [S -> Int]
    PROVE  \E g \in [SUBSET S -> Int] : AddsUp(f, S, g)
<1> DEFINE Added(g, s) == IF s = {} THEN 0 ELSE f[Some(s)] + g[s \ {Some(s)}]
           UpTo(g, n) == \A s \in SUBSET S : Cardinality(s) <= n => g[s] = Added(g, s)
           P == {n \in Nat : ~\E g \in [SUBSET S -> Int] : UpTo(g, n)}
<1>1. \A s \in SUBSET S : IsFiniteSet(s) /\ Cardinality(s) \in Nat
  BY FS_Subset, FS_CardinalityType
<1>2. \A s \in SUBSET S : s # {} => /\ Some(s) \in S /\ s \ {Some(s)} \in SUBSET S
                                    /\ Cardinality(s \ {Some(s)}) = Cardinality(s) - 1
  <2> SUFFICES ASSUME NEW s \in SUBSET S, s # {}
               PROVE  /\ Some(s) \in S /\ s \ {Some(s)} \in SUBSET S
                      /\ Cardinality(s \ {Some(s)}) = Cardinality(s) - 1
    OBVIOUS
  <2>1. Some(s) \in s
    BY SomeIsOne
  <2>2. QED
    BY <1>1, <2>1, FS_RemoveElement
<1>3. P = {}
  <2> SUFFICES ASSUME P # {} PROVE FALSE
    OBVIOUS
  <2>1. PICK n \in P : \A m \in P : n <= m
    <3>1. P \in SUBSET Nat
      OBVIOUS
    <3> HIDE DEF P
    <3>2. QED
      BY <3>1, LeastExists
  <2>2. n # 0
    <3> DEFINE g == [s \in SUBSET S |-> 0]
    <3>1. g \in [SUBSET S -> Int]
      OBVIOUS
    <3>2. ASSUME NEW s \in SUBSET S, Cardinality(s) <= 0 PROVE s = {}
      BY <1>1, <3>2, FS_EmptySet
    <3>3. UpTo(g, 0)
      BY <3>2
    <3> HIDE DEF g
    <3>4. QED
      BY <3>1, <3>3
  <2>3. n - 1 \in Nat /\ n - 1 \notin P
    <3>1. n \in Nat
      OBVIOUS
    <3>2. n - 1 \in Nat /\ ~(n <= n - 1)
      BY <2>2, <3>1
    <3>3. QED
      BY <2>1, <3>2
  <2>4. PICK g \in [SUBSET S -> Int] : UpTo(g, n - 1)
    BY <2>3
  <2> DEFINE h == [s \in SUBSET S |-> IF Cardinality(s) <= n - 1 THEN g[s] ELSE Added(g, s)]
  <2>5. h \in [SUBSET S -> Int]
    <3>1. \A s \in SUBSET S : Added(g, s) \in Int
      BY <1>2
    <3>2. QED
      BY <3>1
  <2>6. ASSUME NEW s \in SUBSET S, Cardinality(s) <= n PROVE h[s] = Added(h, s)
    <3>1. h[s] = Added(g, s)
      BY <2>4
    <3>2. s # {} => h[s \ {Some(s)}] = g[s \ {Some(s)}]
      <4> SUFFICES ASSUME s # {} PROVE h[s \ {Some(s)}] = g[s \ {Some(s)}]
        OBVIOUS
      <4>1. Cardinality(s \ {Some(s)}) <= n - 1 /\ s \ {Some(s)} \in SUBSET S
        BY <1>1, <1>2, <2>6
      <4>2. QED
        BY <4>1
    <3>3. QED
      BY <3>1, <3>2
  <2> HIDE DEF h, Added
  <2>7. UpTo(h, n)
    BY <2>6
  <2>8. QED
    BY <2>5, <2>7
<1>4. Cardinality(S) \in Nat
  BY FS_CardinalityType
<1>5. PICK g \in [SUBSET S -> Int] : UpTo(g, Cardinality(S))
  BY <1>3, <1>4
<1>6. \A s \in SUBSET S : Cardinality(s) <= Cardinality(S)
  BY FS_Subset
<1>7. \A s \in SUBSET S : g[s] = Added(g, s)
  BY <1>5, <1>6
<1>8. g = [s \in SUBSET S |-> Added(g, s)]
  BY <1>7
<1>9. QED
  BY <1>8 DEF AddsUp

LEMMA SumsAreUnique ==
    ASSUME NEW S, IsFiniteSet(S), NEW f, NEW g, NEW h, AddsUp(f, S, g), AddsUp(f, S, h)
    PROVE  g = h
<1> DEFINE P == {s \in SUBSET S : g[s] # h[s]}
<1>1. P = {}
  <2> SUFFICES ASSUME P # {} PROVE FALSE
    OBVIOUS
  <2>1. PICK s \in P : \A x \in s : s \ {x} \notin P
    <3>1. P \in SUBSET SUBSET S
      OBVIOUS
    <3> HIDE DEF P
    <3>2. QED
      BY <3>1, LeastSubset
  <2>2. s # {}
    BY SomeTakesOne
  <2>3. Some(s) \in s /\ g[s] = f[Some(s)] + g[s \ {Some(s)}] /\ h[s] = f[Some(s)] + h[s \ {Some(s)}]
    BY <2>2, SomeTakesOne
  <2>4. g[s \ {Some(s)}] = h[s \ {Some(s)}]
    BY <2>1, <2>3
  <2>5. QED
    BY <2>3, <2>4
<1>2. g = [s \in SUBSET S |-> g[s]] /\ h = [s \in SUBSET S |-> h[s]]
  BY DEF AddsUp
<1>3. QED
  BY <1>1, <1>2

(* The order does not matter.                                              *)
LEMMA AnyOrderAdds ==
    ASSUME NEW S, IsFiniteSet(S), NEW f \in [S -> Int], NEW g \in [SUBSET S -> Int], AddsUp(f, S, g)
    PROVE  Adds(f, S, g)
<1> DEFINE P == {U \in SUBSET S : \E x \in U : g[U] # f[x] + g[U \ {x}]}
<1>1. P = {}
  <2> SUFFICES ASSUME P # {} PROVE FALSE
    OBVIOUS
  <2>1. PICK U \in P : \A x \in U : U \ {x} \notin P
    <3>1. P \in SUBSET SUBSET S
      OBVIOUS
    <3> HIDE DEF P
    <3>2. QED
      BY <3>1, LeastSubset
  <2>2. PICK x \in U : g[U] # f[x] + g[U \ {x}]
    BY <2>1
  <2>3. PICK c \in U : g[U] = f[c] + g[U \ {c}]
    <3>1. U \in SUBSET S /\ U # {}
      BY <2>2
    <3>2. Some(U) \in U /\ g[U] = f[Some(U)] + g[U \ {Some(U)}]
      BY <3>1, SomeTakesOne
    <3>3. QED
      BY <3>2
  <2>4. c # x
    BY <2>2, <2>3
  <2> DEFINE W == U \ {c, x}
  <2>5. /\ (U \ {c}) \ {x} = W /\ (U \ {x}) \ {c} = W
        /\ x \in U \ {c} /\ c \in U \ {x}
    BY <2>4
  <2> HIDE DEF W
  <2>6. g[U \ {c}] = f[x] + g[W]
    <3>1. U \ {c} \in SUBSET S /\ U \ {c} \notin P
      BY <2>1
    <3>2. g[U \ {c}] = f[x] + g[(U \ {c}) \ {x}]
      BY <3>1, <2>5
    <3>3. QED
      BY <3>2, <2>5
  <2>7. g[U \ {x}] = f[c] + g[W]
    <3>1. U \ {x} \in SUBSET S /\ U \ {x} \notin P
      BY <2>1
    <3>2. g[U \ {x}] = f[c] + g[(U \ {x}) \ {c}]
      BY <3>1, <2>5
    <3>3. QED
      BY <3>2, <2>5
  <2>8. f[x] \in Int /\ f[c] \in Int /\ g[W] \in Int
    BY DEF W
  <2>9. QED
    BY <2>2, <2>3, <2>6, <2>7, <2>8
<1>2. ASSUME NEW T \in SUBSET S, NEW x \in S \ T PROVE g[T \cup {x}] = f[x] + g[T]
  <2>1. T \cup {x} \in SUBSET S /\ T \cup {x} \notin P /\ (T \cup {x}) \ {x} = T
    BY <1>1
  <2>2. QED
    BY <2>1
<1>3. g[{}] = 0
  BY SomeTakesOne
<1>4. QED
  BY <1>2, <1>3 DEF Adds

LEMMA SumFunctionAdds ==
    ASSUME NEW S, IsFiniteSet(S), NEW f \in [S -> Int]
    PROVE  \E g : Adds(f, S, g) /\ SumFunction(f) = g[S]
<1>1. PICK g \in [SUBSET S -> Int] : AddsUp(f, S, g)
  BY SumsExist
<1>2. DOMAIN f = S
  OBVIOUS
<1> DEFINE h == CHOOSE i : i = [s \in SUBSET S |-> IF s = {} THEN 0
                                  ELSE f[CHOOSE x \in s : TRUE] + i[s \ {CHOOSE x \in s : TRUE}]]
<1>3. SumFunction(f) = h[S]
  BY <1>2 DEF SumFunction, SumFunctionOnSet, FoldFunctionOnSet, MapThenFoldSet
<1>4. AddsUp(f, S, h)
  <2>1. g = [s \in SUBSET S |-> IF s = {} THEN 0
                ELSE f[CHOOSE x \in s : TRUE] + g[s \ {CHOOSE x \in s : TRUE}]]
    BY <1>1 DEF AddsUp, Some
  <2>2. h = [s \in SUBSET S |-> IF s = {} THEN 0
                ELSE f[CHOOSE x \in s : TRUE] + h[s \ {CHOOSE x \in s : TRUE}]]
    BY <2>1
  <2>3. QED
    BY <2>2 DEF AddsUp, Some
<1> HIDE DEF h
<1>5. h = g
  BY <1>1, <1>4, SumsAreUnique
<1>6. QED
  BY <1>1, <1>3, <1>5, AnyOrderAdds

LEMMA SumIsInt ==
    ASSUME NEW S, IsFiniteSet(S), NEW f \in [S -> Int]
    PROVE  SumFunction(f) \in Int
<1>1. PICK g : Adds(f, S, g) /\ SumFunction(f) = g[S]
  BY SumFunctionAdds
<1>2. QED
  BY <1>1 DEF Adds

(* A sum over some of the elements.                                        *)
LEMMA PartAdds ==
    ASSUME NEW S, IsFiniteSet(S), NEW f \in [S -> Int], NEW g, Adds(f, S, g), NEW U \in SUBSET S
    PROVE  SumFunction([x \in U |-> f[x]]) = g[U]
<1> DEFINE h == [x \in U |-> f[x]]
<1>1. h \in [U -> Int] /\ IsFiniteSet(U)
  BY FS_Subset
<1>2. PICK k : Adds(h, U, k) /\ SumFunction(h) = k[U]
  <2> HIDE DEF h
  <2>1. QED
    BY <1>1, SumFunctionAdds
<1> DEFINE Q == {V \in SUBSET U : k[V] = g[V]}
<1>3. {} \in Q
  BY <1>2 DEF Adds
<1>4. ASSUME NEW V \in Q, NEW x \in U \ V PROVE V \cup {x} \in Q
  <2>1. k[V \cup {x}] = h[x] + k[V]
    BY <1>2 DEF Adds
  <2>2. g[V \cup {x}] = f[x] + g[V]
    <3>1. V \in SUBSET S /\ x \in S \ V
      OBVIOUS
    <3>2. QED
      BY <3>1 DEF Adds
  <2>3. QED
    BY <2>1, <2>2
<1>5. Q \in SUBSET SUBSET U
  OBVIOUS
<1>6. U \in Q
  <2> HIDE DEF Q
  <2>1. \A V \in SUBSET U : V \in Q
    BY <1>1, <1>3, <1>4, <1>5, SetInduction
  <2>2. QED
    BY <2>1
<1>7. QED
  BY <1>2, <1>6

LEMMA DisjointAdds ==
    ASSUME NEW S, IsFiniteSet(S), NEW f \in [S -> Int], NEW g, Adds(f, S, g),
           NEW A \in SUBSET S, NEW B \in SUBSET S, A \cap B = {}
    PROVE  g[A \cup B] = g[A] + g[B]
<1> DEFINE Q == {V \in SUBSET B : g[A \cup V] = g[A] + g[V]}
<1>1. IsFiniteSet(B)
  BY FS_Subset
<1>2. \A V \in SUBSET S : g[V] \in Int
  BY DEF Adds
<1>3. {} \in Q
  <2>1. g[{}] = 0 /\ A \cup {} = A
    BY DEF Adds
  <2>2. QED
    BY <1>2, <2>1
<1>4. ASSUME NEW V \in Q, NEW x \in B \ V PROVE V \cup {x} \in Q
  <2>1. /\ V \in SUBSET S /\ x \in S \ V /\ A \cup V \in SUBSET S /\ x \in S \ (A \cup V)
        /\ A \cup (V \cup {x}) = (A \cup V) \cup {x}
    OBVIOUS
  <2>2. g[V \cup {x}] = f[x] + g[V]
    BY <2>1 DEF Adds
  <2>3. g[(A \cup V) \cup {x}] = f[x] + g[A \cup V]
    BY <2>1 DEF Adds
  <2>4. f[x] \in Int /\ g[V] \in Int /\ g[A] \in Int
    BY <1>2, <2>1
  <2>5. g[A \cup V] = g[A] + g[V]
    OBVIOUS
  <2>6. g[A \cup (V \cup {x})] = g[A] + g[V \cup {x}]
    <3>1. g[A \cup (V \cup {x})] = f[x] + g[A \cup V]
      BY <2>1, <2>3
    <3>2. f[x] + (g[A] + g[V]) = g[A] + (f[x] + g[V])
      BY <2>4
    <3>3. QED
      BY <3>1, <3>2, <2>2, <2>5
  <2>7. QED
    BY <2>6
<1>5. Q \in SUBSET SUBSET B
  OBVIOUS
<1>6. B \in Q
  <2> HIDE DEF Q
  <2>1. \A V \in SUBSET B : V \in Q
    BY <1>1, <1>3, <1>4, <1>5, SetInduction
  <2>2. QED
    BY <2>1
<1>7. QED
  BY <1>6

(* Elements that count for nothing may be left out.                        *)
LEMMA ZerosLeftOut ==
    ASSUME NEW S, IsFiniteSet(S), NEW f \in [S -> Int], NEW T \in SUBSET S,
           \A x \in S \ T : f[x] = 0
    PROVE  SumFunction([x \in T |-> f[x]]) = SumFunction(f)
<1>1. PICK g : Adds(f, S, g) /\ SumFunction(f) = g[S]
  BY SumFunctionAdds
<1>0. PICK D : D = S \ T
  OBVIOUS
<1> DEFINE Q == {V \in SUBSET D : g[V] = 0}
<1>2. IsFiniteSet(D)
  BY <1>0, FS_Subset
<1>3. {} \in Q
  BY <1>1 DEF Adds
<1>4. ASSUME NEW V \in Q, NEW x \in D \ V PROVE V \cup {x} \in Q
  <2>1. V \in SUBSET S /\ x \in S \ V /\ f[x] = 0 /\ g[V] = 0
    BY <1>0
  <2>2. g[V \cup {x}] = f[x] + g[V]
    BY <1>1, <2>1 DEF Adds
  <2>3. QED
    BY <2>1, <2>2
<1>5. Q \in SUBSET SUBSET D
  OBVIOUS
<1>6. g[D] = 0
  <2> HIDE DEF Q
  <2>1. \A V \in SUBSET D : V \in Q
    BY <1>2, <1>3, <1>4, <1>5, SetInduction
  <2>2. D \in Q
    BY <2>1
  <2>3. QED
    BY <2>2 DEF Q
<1>7. g[S] = g[T] + g[D]
  <2>1. T \cup D = S /\ T \cap D = {} /\ D \in SUBSET S
    BY <1>0
  <2>2. g[T \cup D] = g[T] + g[D]
    BY <1>1, <2>1, DisjointAdds
  <2>3. QED
    BY <2>1, <2>2
<1>8. SumFunction([x \in T |-> f[x]]) = g[T]
  BY <1>1, PartAdds
<1>9. g[T] \in Int
  BY <1>1 DEF Adds
<1>10. QED
  BY <1>1, <1>6, <1>7, <1>8, <1>9

LEMMA SumsGrow ==
    ASSUME NEW S, IsFiniteSet(S), NEW f \in [S -> Int], NEW h \in [S -> Int],
           \A x \in S : f[x] <= h[x]
    PROVE  SumFunction(f) <= SumFunction(h)
<1>1. PICK g : Adds(f, S, g) /\ SumFunction(f) = g[S]
  BY SumFunctionAdds
<1>2. PICK k : Adds(h, S, k) /\ SumFunction(h) = k[S]
  BY SumFunctionAdds
<1> DEFINE Q == {V \in SUBSET S : g[V] <= k[V]}
<1>3. {} \in Q
  BY <1>1, <1>2 DEF Adds
<1>4. ASSUME NEW V \in Q, NEW x \in S \ V PROVE V \cup {x} \in Q
  <2>1. g[V \cup {x}] = f[x] + g[V] /\ k[V \cup {x}] = h[x] + k[V]
    BY <1>1, <1>2 DEF Adds
  <2>2. /\ g[V] \in Int /\ k[V] \in Int /\ f[x] \in Int /\ h[x] \in Int
        /\ f[x] <= h[x] /\ g[V] <= k[V]
    BY <1>1, <1>2 DEF Adds
  <2>3. g[V \cup {x}] <= k[V \cup {x}]
    BY <2>1, <2>2
  <2>4. QED
    BY <2>3
<1>5. Q \in SUBSET SUBSET S
  OBVIOUS
<1>6. S \in Q
  <2> HIDE DEF Q
  <2>1. \A V \in SUBSET S : V \in Q
    BY <1>3, <1>4, <1>5, SetInduction
  <2>2. QED
    BY <2>1
<1>7. QED
  BY <1>1, <1>2, <1>6

(* What each kind sums up to, summed up over kinds.                        *)
LEMMA SumOfSums ==
    ASSUME NEW S, IsFiniteSet(S), NEW f \in [S -> Int], NEW kind, NEW R, IsFiniteSet(R)
    PROVE  SumFunction([r \in R |-> SumFunction([x \in {y \in S : kind[y] \in {r}} |-> f[x]])])
             = SumFunction([x \in {y \in S : kind[y] \in R} |-> f[x]])
<1> DEFINE Of(A) == {y \in S : kind[y] \in A}
<1>1. PICK g : Adds(f, S, g)
  BY SumFunctionAdds
<1> DEFINE F == [r \in R |-> SumFunction([x \in Of({r}) |-> f[x]])]
<1>2. \A A : Of(A) \in SUBSET S /\ SumFunction([x \in Of(A) |-> f[x]]) = g[Of(A)] /\ g[Of(A)] \in Int
  <2> SUFFICES ASSUME NEW A
               PROVE  Of(A) \in SUBSET S /\ SumFunction([x \in Of(A) |-> f[x]]) = g[Of(A)] /\ g[Of(A)] \in Int
    OBVIOUS
  <2>1. Of(A) \in SUBSET S
    OBVIOUS
  <2> HIDE DEF Of
  <2>2. SumFunction([x \in Of(A) |-> f[x]]) = g[Of(A)]
    BY <1>1, <2>1, PartAdds
  <2>3. g[Of(A)] \in Int
    BY <1>1, <2>1 DEF Adds
  <2>4. QED
    BY <2>1, <2>2, <2>3
<1>3. \A r \in R : F[r] = g[Of({r})]
  <2> HIDE DEF Of
  <2>1. QED
    BY <1>2
<1>4. F \in [R -> Int]
  <2> HIDE DEF Of
  <2>1. QED
    BY <1>2
<1>5. PICK k : Adds(F, R, k) /\ SumFunction(F) = k[R]
  <2> HIDE DEF F
  <2>1. QED
    BY <1>4, SumFunctionAdds
<1> DEFINE Q == {A \in SUBSET R : k[A] = g[Of(A)]}
<1>6. {} \in Q
  <2>1. Of({}) = {}
    OBVIOUS
  <2> HIDE DEF Of
  <2>2. k[{}] = 0 /\ g[{}] = 0
    BY <1>1, <1>5 DEF Adds
  <2>3. QED
    BY <2>1, <2>2
<1>7. ASSUME NEW A \in Q, NEW r \in R \ A PROVE A \cup {r} \in Q
  <2>1. Of(A \cup {r}) = Of(A) \cup Of({r}) /\ Of(A) \cap Of({r}) = {}
    OBVIOUS
  <2> HIDE DEF Of, F
  <2>2. g[Of(A) \cup Of({r})] = g[Of(A)] + g[Of({r})]
    <3>1. PICK X \in SUBSET S : X = Of(A)
      BY <1>2
    <3>2. PICK Y \in SUBSET S : Y = Of({r})
      BY <1>2
    <3>3. X \cap Y = {}
      BY <2>1, <3>1, <3>2
    <3>4. g[X \cup Y] = g[X] + g[Y]
      BY <1>1, <3>3, DisjointAdds
    <3>5. QED
      BY <3>1, <3>2, <3>4
  <2>3. k[A \cup {r}] = F[r] + k[A]
    BY <1>5 DEF Adds
  <2>4. k[A] = g[Of(A)] /\ F[r] = g[Of({r})] /\ g[Of(A)] \in Int /\ g[Of({r})] \in Int
    BY <1>2, <1>3
  <2>5. k[A \cup {r}] = g[Of(A \cup {r})]
    <3>1. g[Of(A \cup {r})] = g[Of(A)] + g[Of({r})]
      BY <2>1, <2>2
    <3>2. k[A \cup {r}] = g[Of({r})] + g[Of(A)]
      BY <2>3, <2>4
    <3>3. g[Of({r})] + g[Of(A)] = g[Of(A)] + g[Of({r})]
      BY <2>4
    <3>4. QED
      BY <3>1, <3>2, <3>3
  <2>6. QED
    BY <2>5
<1>8. Q \in SUBSET SUBSET R
  OBVIOUS
<1>9. k[R] = g[Of(R)]
  <2> HIDE DEF Q
  <2>1. \A A \in SUBSET R : A \in Q
    BY <1>6, <1>7, <1>8, SetInduction
  <2>2. R \in Q
    BY <2>1
  <2>3. QED
    BY <2>2 DEF Q
<1>10. SumFunction([x \in Of(R) |-> f[x]]) = g[Of(R)]
  BY <1>2
<1>11. QED
  BY <1>5, <1>9, <1>10

-----------------------------------------------------------------------------
(* The run of many calls.                                                  *)

USE RunAssumptions

(* What the server holds of a call: it has committed no more turns than the*)
(* client posted, and one less while the last is being decided.            *)
LedgerInv ==
  /\ plan \in Nat
  /\ client \in [Calls -> {"waiting", "posted", "answered", "done"}]
  /\ turn \in [Calls -> 0..Turns]
  /\ ledger = [c \in Calls |-> ledger[c]]
  /\ deciding \subseteq Calls
  /\ \A c \in Calls : client[c] = "waiting" => turn[c] = 0
  /\ \A c \in deciding : client[c] \in {"posted", "done"}
  /\ \A c \in Launched :
       /\ ledger[c] \in [turns : Nat, right : BOOLEAN]
       /\ ledger[c].turns + (IF c \in deciding THEN 1 ELSE 0) <= turn[c]

(* A verdict is passed when the load is over, on a call that can do no more.*)
VerdictInv ==
  /\ mode = "fleet" => plan # 0
  /\ heard \in [Calls -> {None} \cup Hearings]
  /\ mode # "fleet" => \A c \in Calls : heard[c] = None
  /\ verdict = [c \in Calls |-> verdict[c]]
  /\ \A c \in Calls : verdict[c] = "correct" =>
       /\ phase \in {"check", "over"} /\ c \in Launched
       /\ ledger[c] = [turns |-> Turns, right |-> TRUE]
       /\ mode = "fleet" => refPassed
  /\ exit # None => phase = "over"

RunInv == LedgerInv /\ VerdictInv

LEMMA RunInitially == Init => RunInv
<1> SUFFICES ASSUME Init PROVE RunInv
  OBVIOUS
<1>1. LedgerInv
  BY DEF Init, LedgerInv, Calls, Launched
<1>2. VerdictInv
  BY DEF Init, VerdictInv
<1>3. QED
  BY <1>1, <1>2 DEF RunInv

-----------------------------------------------------------------------------
(* Steps that leave the calls alone, and those that only close a door.     *)

LEMMA CallsAlone ==
    ASSUME LedgerInv, UNCHANGED <<plan, client, turn, ledger, deciding>>
    PROVE  LedgerInv'
BY DEF LedgerInv, Calls, Launched

LEMMA VerdictsAlone ==
    ASSUME VerdictInv, UNCHANGED <<mode, plan, heard, verdict, ledger, client>>,
           phase' \in {"check", "over"} \/ phase' = phase \/ phase \notin {"check", "over"},
           refPassed' = refPassed \/ phase \notin {"check", "over"},
           exit' # None => phase' = "over"
    PROVE  VerdictInv'
<1>1. Calls' = Calls /\ Launched' = Launched
  BY DEF Calls, Launched
<1>2. ASSUME NEW c \in Calls, verdict[c] = "correct"
      PROVE  /\ phase' \in {"check", "over"} /\ c \in Launched
             /\ ledger[c] = [turns |-> Turns, right |-> TRUE]
             /\ mode = "fleet" => refPassed'
  <2>1. /\ phase \in {"check", "over"} /\ c \in Launched
        /\ ledger[c] = [turns |-> Turns, right |-> TRUE]
        /\ mode = "fleet" => refPassed
    BY <1>2 DEF VerdictInv
  <2>2. phase' \in {"check", "over"} /\ refPassed' = refPassed
    BY <2>1
  <2>3. QED
    BY <2>1, <2>2
<1>3. QED
  BY <1>1, <1>2 DEF VerdictInv

LEMMA BeforeStep == RunInv /\ Before => RunInv'
<1> SUFFICES ASSUME RunInv, Before PROVE RunInv'
  OBVIOUS
<1>1. LedgerInv /\ VerdictInv
  BY DEF RunInv
<1>2. UNCHANGED <<mode, plan, client, turn, ledger, deciding, heard, verdict>>
  BY DEF Before, Boot, Gate, Reference, Mint, Drained
<1>3. phase \notin {"check", "over"} /\ (exit' # None => phase' = "over")
  BY <1>1 DEF Before, Boot, Gate, Reference, Mint, Drained, VerdictInv, Exits, Phase
<1>4. QED
  BY <1>1, <1>2, <1>3, CallsAlone, VerdictsAlone DEF RunInv

LEMMA ServerStep == RunInv /\ Server => RunInv'
<1> SUFFICES ASSUME RunInv, Server PROVE RunInv'
  OBVIOUS
<1>1. LedgerInv /\ VerdictInv
  BY DEF RunInv
<1>2. CASE OutboxClaims \/ OutboxFinishes
  <2>1. /\ UNCHANGED <<mode, plan, phase, refPassed, client, turn, ledger, deciding, heard, verdict, exit>>
    BY <1>2 DEF OutboxClaims, OutboxFinishes
  <2>2. exit # None => phase = "over"
    BY <1>1 DEF VerdictInv
  <2>3. QED
    BY <1>1, <2>1, <2>2, CallsAlone, VerdictsAlone DEF RunInv
<1>3. ASSUME NEW c \in Calls, NEW right \in BOOLEAN, Commit(c, right) PROVE RunInv'
  <2>1. /\ UNCHANGED <<mode, plan, phase, refPassed, client, turn, heard, verdict, exit>>
        /\ c \in deciding /\ deciding' = deciding \ {c}
        /\ ledger' = [ledger EXCEPT ![c] = [turns |-> @.turns + 1, right |-> @.right /\ right]]
    BY <1>3 DEF Commit
  <2>2. c \in Launched /\ c \in Calls
    BY <1>1, <2>1 DEF LedgerInv, Launched
  <2>3. /\ ledger[c].turns \in Nat /\ ledger[c].right \in BOOLEAN
        /\ ledger[c].turns + 1 <= turn[c] /\ turn[c] \in 0..Turns
    BY <1>1, <2>1, <2>2 DEF LedgerInv
  <2>4. LedgerInv'
    <3>1. Calls' = Calls /\ Launched' = Launched
      BY <2>1 DEF Calls, Launched
    <3>2. /\ ledger' = [b \in Calls |-> ledger'[b]]
          /\ \A b \in Calls \ {c} : ledger'[b] = ledger[b]
          /\ ledger'[c] \in [turns : Nat, right : BOOLEAN] /\ ledger'[c].turns = ledger[c].turns + 1
      BY <1>1, <2>1, <2>2, <2>3 DEF LedgerInv
    <3>3. /\ \A b \in deciding' : b \in deciding
          /\ \A b \in Calls \ {c} : b \in deciding' <=> b \in deciding
          /\ c \notin deciding'
      BY <2>1
    <3>4. \A b \in Launched : ledger'[b].turns + (IF b \in deciding' THEN 1 ELSE 0) <= turn[b]
      BY <1>1, <2>3, <3>2, <3>3 DEF LedgerInv, Launched
    <3>5. QED
      BY <1>1, <2>1, <3>1, <3>2, <3>3, <3>4 DEF LedgerInv, Launched
  <2>5. verdict[c] # "correct"
    BY <1>1, <2>2, <2>3 DEF VerdictInv
  <2>6. VerdictInv'
    BY <1>1, <2>1, <2>5 DEF VerdictInv, LedgerInv, Calls, Launched
  <2>7. QED
    BY <2>4, <2>6 DEF RunInv
<1>4. QED
  BY <1>2, <1>3 DEF Server

-----------------------------------------------------------------------------
(* The calls.                                                              *)

LEMMA CallStep ==
    ASSUME RunInv, NEW c \in Calls, Drive(c), phase = "load"
    PROVE  RunInv'
<1>1. LedgerInv /\ VerdictInv
  BY DEF RunInv
<1>2. \A b \in Calls : verdict[b] # "correct"
  BY <1>1 DEF VerdictInv
<1>3. exit = None
  BY <1>1 DEF VerdictInv
<1>4. ASSUME NEW answered \in BOOLEAN, Start(c, answered) PROVE RunInv'
  <2>1. /\ UNCHANGED <<mode, plan, phase, refPassed, turn, deciding, heard, verdict, exit>>
        /\ client[c] = "waiting"
        /\ client' = [client EXCEPT ![c] = IF answered THEN "answered" ELSE "done"]
        /\ ledger' = [ledger EXCEPT ![c] = [turns |-> 0, right |-> TRUE]]
    BY <1>4 DEF Start
  <2>2. c \notin deciding /\ turn[c] = 0
    BY <1>1, <2>1 DEF LedgerInv
  <2>3. LedgerInv'
    <3>1. /\ Calls' = Calls
          /\ client' \in [Calls -> {"waiting", "posted", "answered", "done"}]
          /\ client'[c] # "waiting" /\ \A b \in Calls \ {c} : client'[b] = client[b]
      BY <1>1, <2>1 DEF LedgerInv, Calls
    <3>2. /\ ledger' = [b \in Calls |-> ledger'[b]]
          /\ \A b \in Calls \ {c} : ledger'[b] = ledger[b]
          /\ ledger'[c] = [turns |-> 0, right |-> TRUE]
      BY <1>1, <2>1 DEF LedgerInv
    <3>3. Launched' = Launched \cup {c}
      BY <3>1 DEF Launched
    <3>4. \A b \in Launched' :
             /\ ledger'[b] \in [turns : Nat, right : BOOLEAN]
             /\ ledger'[b].turns + (IF b \in deciding THEN 1 ELSE 0) <= turn[b]
      <4>1. ASSUME NEW b \in Launched, b # c
            PROVE  /\ ledger'[b] \in [turns : Nat, right : BOOLEAN]
                   /\ ledger'[b].turns + (IF b \in deciding THEN 1 ELSE 0) <= turn[b]
        BY <1>1, <3>2, <4>1 DEF LedgerInv, Launched
      <4>2. /\ ledger'[c] \in [turns : Nat, right : BOOLEAN]
            /\ ledger'[c].turns + (IF c \in deciding THEN 1 ELSE 0) <= turn[c]
        BY <2>2, <3>2
      <4>3. QED
        BY <3>3, <4>1, <4>2
    <3>5. QED
      BY <1>1, <2>1, <2>2, <3>1, <3>2, <3>4 DEF LedgerInv
  <2>4. VerdictInv'
    BY <1>1, <1>2, <2>1 DEF VerdictInv, Calls, Launched
  <2>5. QED
    BY <2>3, <2>4 DEF RunInv
<1>5. CASE RunTurn(c)
  <2>1. /\ UNCHANGED <<mode, plan, phase, refPassed, ledger, heard, verdict, exit>>
        /\ client[c] = "answered" /\ turn[c] < Turns
        /\ client' = [client EXCEPT ![c] = "posted"]
        /\ turn' = [turn EXCEPT ![c] = @ + 1]
        /\ deciding' = deciding \cup {c}
    BY <1>5 DEF RunTurn
  <2>2. c \notin deciding
    BY <1>1, <2>1 DEF LedgerInv
  <2>3. LedgerInv'
    BY <1>1, <2>1, <2>2 DEF LedgerInv, Calls, Launched
  <2>4. VerdictInv'
    BY <1>1, <1>2, <2>1 DEF VerdictInv, Calls, Launched
  <2>5. QED
    BY <2>3, <2>4 DEF RunInv
<1>6. ASSUME NEW endCall \in BOOLEAN, TurnEnds(c, endCall) \/ TurnLost(c) PROVE RunInv'
  <2>1. /\ UNCHANGED <<mode, plan, phase, refPassed, turn, ledger, deciding, heard, verdict, exit>>
        /\ client[c] = "posted"
        /\ \/ client' = [client EXCEPT ![c] = "done"]
           \/ c \notin deciding /\ client' = [client EXCEPT ![c] = "answered"]
    BY <1>6 DEF TurnEnds, TurnLost
  <2>2. LedgerInv'
    BY <1>1, <2>1 DEF LedgerInv, Calls, Launched
  <2>3. VerdictInv'
    BY <1>1, <1>2, <2>1 DEF VerdictInv, Calls, Launched
  <2>4. QED
    BY <2>2, <2>3 DEF RunInv
<1>7. CASE StreamBreaks(c)
  <2>1. /\ UNCHANGED <<mode, plan, refPassed, client, turn, ledger, deciding, heard, verdict>>
        /\ phase' = "over"
    BY <1>7 DEF StreamBreaks, Exits
  <2>2. QED
    BY <1>1, <2>1, CallsAlone, VerdictsAlone DEF RunInv
<1>8. ASSUME NEW how \in {None} \cup Hearings, CallOver(c, how) PROVE RunInv'
  <2>1. /\ UNCHANGED <<mode, plan, phase, refPassed, turn, ledger, deciding, verdict, exit>>
        /\ client[c] \in {"answered", "posted"} /\ mode = "fleet"
        /\ client' = [client EXCEPT ![c] = "done"]
        /\ heard' = [heard EXCEPT ![c] = how]
    BY <1>8 DEF CallOver, Fleet
  <2>2. LedgerInv'
    BY <1>1, <2>1 DEF LedgerInv, Calls, Launched
  <2>3. VerdictInv'
    BY <1>1, <1>2, <2>1 DEF VerdictInv, Calls, Launched
  <2>4. QED
    BY <2>2, <2>3 DEF RunInv
<1>9. QED
  BY <1>4, <1>5, <1>6, <1>7, <1>8 DEF Drive, Verdict

LEMMA VerdictStep ==
    ASSUME RunInv, NEW c \in Calls, NEW detail, Verdict(c, detail)
    PROVE  RunInv'
<1>1. LedgerInv /\ VerdictInv
  BY DEF RunInv
<1>2. /\ UNCHANGED <<mode, plan, refPassed, client, turn, ledger, deciding, heard>>
      /\ phase = "check" /\ c \in Launched
  BY DEF Verdict
<1>3. LedgerInv'
  BY <1>1, <1>2, CallsAlone
<1>4. CASE phase' = "over" /\ verdict' = verdict
  BY <1>1, <1>2, <1>3, <1>4, VerdictsAlone DEF RunInv
<1>5. CASE UNCHANGED <<phase, exit>> /\
           verdict' = [verdict EXCEPT ![c] =
                 IF c \in known /\ detail = "read" /\ Matches(c) /\ (Fleet => refPassed)
                 THEN "correct" ELSE "incorrect"]
  <2>1. ledger[c] \in [turns : Nat, right : BOOLEAN]
    BY <1>1, <1>2 DEF LedgerInv
  <2>2. ASSUME Matches(c) PROVE ledger[c] = [turns |-> Turns, right |-> TRUE]
    BY <2>1, <2>2 DEF Matches
  <2>3. verdict'[c] = "correct" => Matches(c) /\ (mode = "fleet" => refPassed)
    BY <1>1, <1>5 DEF VerdictInv, Fleet
  <2>4. \A b \in Calls : b # c => verdict'[b] = verdict[b]
    BY <1>1, <1>5 DEF VerdictInv
  <2>5. verdict' = [b \in Calls |-> verdict'[b]]
    BY <1>1, <1>5 DEF VerdictInv
  <2>6. VerdictInv'
    BY <1>1, <1>2, <1>5, <2>2, <2>3, <2>4, <2>5 DEF VerdictInv, Calls, Launched
  <2>7. QED
    BY <1>3, <2>6 DEF RunInv
<1>6. QED
  BY <1>4, <1>5 DEF Verdict, Exits

LEMMA LoadStep == RunInv /\ Load => RunInv'
<1> SUFFICES ASSUME RunInv, Load PROVE RunInv'
  OBVIOUS
<1>1. LedgerInv /\ VerdictInv
  BY DEF RunInv
<1>2. ASSUME NEW c \in Calls, Drive(c) PROVE RunInv'
  <2>1. phase = "load" \/ \E detail \in {"read", "refused", "unreached"} : Verdict(c, detail)
    BY <1>2 DEF Drive, Start, RunTurn, TurnEnds, TurnLost, StreamBreaks, CallOver
  <2>2. QED
    BY <1>2, <2>1, CallStep, VerdictStep
<1>3. CASE Deadline \/ ChildFails \/ ChildVanishes \/ LoadOver
  <2>1. /\ UNCHANGED <<mode, plan, refPassed, client, turn, ledger, deciding, heard, verdict>>
        /\ phase = "load"
        /\ phase' = "over" \/ exit' = exit
    BY <1>3 DEF Deadline, ChildFails, ChildVanishes, LoadOver, Exits
  <2>2. exit = None
    BY <1>1, <2>1 DEF VerdictInv
  <2>3. QED
    BY <1>1, <2>1, <2>2, CallsAlone, VerdictsAlone DEF RunInv
<1>4. QED
  BY <1>2, <1>3 DEF Load

LEMMA FinishStep == RunInv /\ Finish => RunInv'
<1> SUFFICES ASSUME RunInv, Finish PROVE RunInv'
  OBVIOUS
<1>1. LedgerInv /\ VerdictInv
  BY DEF RunInv
<1>2. UNCHANGED <<mode, plan, refPassed, client, turn, ledger, deciding, heard, verdict>> /\ phase' = "over"
  BY DEF Finish, Exits
<1>3. QED
  BY <1>1, <1>2, CallsAlone, VerdictsAlone DEF RunInv

LEMMA RunStep == RunInv /\ [Next]_vars => RunInv'
<1> SUFFICES ASSUME RunInv, [Next]_vars PROVE RunInv'
  OBVIOUS
<1>1. CASE UNCHANGED rvars
  <2>1. UNCHANGED <<mode, plan, phase, refPassed, client, turn, ledger, deciding, heard, verdict, exit>>
    BY <1>1 DEF rvars
  <2>2. QED
    BY <2>1, CallsAlone, VerdictsAlone DEF RunInv, VerdictInv
<1>2. QED
  BY <1>1, BeforeStep, ServerStep, LoadStep, FinishStep DEF Next, SamplerReports, vars

-----------------------------------------------------------------------------
(* The exit code.                                                          *)

(* Ninety-five in a hundred, by nearest rank, leaves one in twenty.        *)
LEMMA OneInTwenty ==
    ASSUME NEW S, IsFiniteSet(S), NEW A \in SUBSET S,
           ~(Cardinality(A) < Rank(Cardinality(S), 95))
    PROVE  20 * Cardinality(S \ A) <= Cardinality(S)
<1>1. IsFiniteSet(A) /\ IsFiniteSet(S \ A)
  BY FS_Subset
<1>2. Cardinality(S \ A) = Cardinality(S) - Cardinality(S \cap A)
  BY <1>1, FS_Difference
<1>3. S \cap A = A
  OBVIOUS
<1>4. Cardinality(S) \in Nat /\ Cardinality(A) \in Nat
  BY <1>1, FS_CardinalityType
<1>5. ASSUME NEW n \in Nat, NEW a \in Nat, ~(a < (95 * n + 99) \div 100)
      PROVE  20 * (n - a) <= n
  BY <1>5
<1>6. QED
  BY <1>2, <1>3, <1>4, <1>5 DEF Rank

(* The scored lines of finitely many calls are finitely many.              *)
LEMMA LinesFinite ==
    ASSUME IsFiniteSet(Served),
           \A c \in Served : heard[c].lines \in Nat /\ heard[c].lost \in Nat /\ heard[c].lost <= heard[c].lines
    PROVE  IsFiniteSet(ServedLines) /\ LostLines \subseteq ServedLines
<1> DEFINE LinesOf(c) == {c} \X (1..heard[c].lines)
           Rows == {LinesOf(c) : c \in Served}
<1>1. \A c \in Served : IsFiniteSet(LinesOf(c))
  <2> SUFFICES ASSUME NEW c \in Served PROVE IsFiniteSet(LinesOf(c))
    OBVIOUS
  <2>1. IsFiniteSet({c})
    BY FS_Singleton
  <2>2. IsFiniteSet(1..heard[c].lines)
    BY FS_Interval
  <2>3. QED
    BY <2>1, <2>2, FS_Product
<1>2. IsFiniteSet(Rows)
  <2> DEFINE f == [c \in Served |-> LinesOf(c)]
  <2>1. f \in Surjection(Served, Rows)
    BY DEF Surjection
  <2>2. QED
    BY <2>1, FS_Surjection
<1>3. IsFiniteSet(UNION Rows)
  BY <1>1, <1>2, FS_UNION
<1>4. ServedLines = UNION Rows
  BY DEF ServedLines
<1>5. LostLines \subseteq ServedLines
  BY DEF LostLines, ServedLines
<1>6. QED
  BY <1>3, <1>4, <1>5

LEMMA FinishPasses == RunInv /\ Finish => PassIsTrue'
<1> SUFFICES ASSUME RunInv, Finish, exit' = 0 PROVE PassIsTrue'
  BY DEF PassIsTrue
<1>1. LedgerInv /\ VerdictInv
  BY DEF RunInv
<1>2. /\ report # None
      /\ \A c \in Launched : verdict[c] = "correct"
      /\ IF Fleet THEN Launched = Calls /\ ~WerBreached /\ ~AmountsBreached ELSE Launched # {}
  BY DEF Finish, Exits
<1>3. UNCHANGED <<mode, plan, refPassed, client, ledger, heard, report>>
  BY DEF Finish, svars
<1>4. \A c \in Launched : ledger[c] = [turns |-> Turns, right |-> TRUE] /\ (Fleet => refPassed)
  BY <1>1, <1>2 DEF VerdictInv, Launched, Fleet
<1>5. Launched # {}
  <2>1. CASE Fleet
    <3>1. plan \in Nat /\ plan # 0
      BY <1>1, <2>1 DEF VerdictInv, LedgerInv, Fleet
    <3>2. 1 \in Calls
      BY <3>1 DEF Calls
    <3>3. QED
      BY <1>2, <2>1, <3>2
  <2>2. QED
    BY <1>2, <2>1
<1>6. Fleet => Launched = Calls /\ refPassed
  BY <1>2, <1>4, <1>5
<1>7. \A c \in Served : ~heard[c].amount
  <2>1. CASE Fleet
    BY <1>2, <2>1 DEF AmountsBreached
  <2>2. CASE ~Fleet
    BY <1>1, <2>2 DEF VerdictInv, Served, Launched, Fleet
  <2>3. QED
    BY <2>1, <2>2
<1>8. IsFiniteSet(Served)
  <2>1. IsFiniteSet(Calls)
    <3>1. 1 \in Int /\ plan \in Int
      BY <1>1 DEF LedgerInv
    <3>2. IsFiniteSet(1..plan)
      BY ONLY <3>1, FS_Interval
    <3>3. QED
      BY <3>2 DEF Calls
  <2>2. Served \subseteq Calls
    BY DEF Served, Launched
  <2>3. QED
    BY <2>1, <2>2, FS_Subset
<1>9. 20 * Cardinality(LostLines) <= Cardinality(ServedLines)
  <2>1. \A c \in Served : heard[c].lines \in Nat /\ heard[c].lost \in Nat /\ heard[c].lost <= heard[c].lines
    BY <1>1 DEF VerdictInv, Served, Launched, Hearings
  <2>2. IsFiniteSet(ServedLines) /\ LostLines \subseteq ServedLines
    BY <1>8, <2>1, LinesFinite
  <2>3. CASE Fleet
    <3>1. ~(Cardinality(ServedLines \ LostLines) < Rank(Cardinality(ServedLines), 95))
      BY <1>2, <2>3 DEF WerBreached
    <3>2. 20 * Cardinality(ServedLines \ (ServedLines \ LostLines)) <= Cardinality(ServedLines)
      BY <2>2, <3>1, OneInTwenty
    <3>3. ServedLines \ (ServedLines \ LostLines) = LostLines
      BY <2>2
    <3>4. QED
      BY <3>2, <3>3
  <2>4. CASE ~Fleet
    <3>1. Served = {}
      BY <1>1, <2>4 DEF VerdictInv, Served, Launched, Fleet
    <3>2. ServedLines = {} /\ LostLines = {}
      BY <3>1 DEF ServedLines, LostLines
    <3>3. QED
      BY <3>2, FS_EmptySet
  <2>5. QED
    BY <2>3, <2>4
<1>10. /\ Launched' = Launched /\ Calls' = Calls /\ Served' = Served
       /\ Fleet' = Fleet
  BY <1>3 DEF Launched, Calls, Served, Fleet
<1>11. ServedLines' = ServedLines /\ LostLines' = LostLines
  BY <1>3, <1>10 DEF ServedLines, LostLines
<1>12. QED
  BY <1>2, <1>3, <1>4, <1>5, <1>6, <1>7, <1>9, <1>10, <1>11 DEF PassIsTrue

LEMMA ReportStays ==
    ASSUME [Next]_vars, report # None
    PROVE  report' # None
BY DEF Next, Before, Boot, Gate, Reference, Mint, Drained, Mark, Server, OutboxClaims, OutboxFinishes,
       Commit, Load, Drive, Start, RunTurn, TurnEnds, TurnLost, StreamBreaks, CallOver, Verdict,
       Deadline, ChildFails, ChildVanishes, LoadOver, StopSampler, SamplerReports, WriteReport,
       Finish, Measured, Spawn, Work, Exit, ContainerWorks, Ingest, PollContainers, PollStats,
       vars, svars

LEMMA PassStays ==
    ASSUME RunInv, PassIsTrue, exit # None, [Next]_vars
    PROVE  PassIsTrue'
<1>1. phase = "over"
  BY DEF RunInv, VerdictInv
<1>2. UNCHANGED rvars
  BY <1>1 DEF Next, Before, Boot, Gate, Reference, Mint, Drained, Server, OutboxClaims, OutboxFinishes,
       Commit, Load, Drive, Start, RunTurn, TurnEnds, TurnLost, StreamBreaks, CallOver, Verdict,
       Deadline, ChildFails, ChildVanishes, LoadOver, SamplerReports, Finish, vars, Phase
<1>3. UNCHANGED <<mode, plan, refPassed, client, ledger, heard, exit>>
  BY <1>2 DEF rvars
<1>4. /\ Launched' = Launched /\ Calls' = Calls /\ Served' = Served
      /\ Fleet' = Fleet
      /\ ServedLines' = ServedLines /\ LostLines' = LostLines
  BY <1>3 DEF Launched, Calls, Served, Fleet, ServedLines, LostLines
<1>5. QED
  BY <1>3, <1>4, ReportStays DEF PassIsTrue

LEMMA OthersFail ==
    ASSUME [Next]_vars, exit = None, ~Finish
    PROVE  exit' # 0
<1>1. Before => exit' = exit \/ exit' \in {1, 2}
  BY DEF Before, Boot, Gate, Reference, Mint, Drained, Exits
<1>2. Server => exit' = exit
  BY DEF Server, OutboxClaims, OutboxFinishes, Commit
<1>3. ASSUME NEW c \in Calls, Drive(c) PROVE exit' \in {exit, 1}
  BY <1>3 DEF Drive, Start, RunTurn, TurnEnds, TurnLost, StreamBreaks, CallOver, Verdict, Exits
<1>4. Load => exit' \in {exit, 1}
  BY <1>3 DEF Load, Deadline, ChildFails, ChildVanishes, LoadOver, Exits
<1>5. QED
  BY <1>1, <1>2, <1>4 DEF Next, SamplerReports, vars, rvars

(* A run that exits 0 has measured what it claims.                         *)
THEOREM PassesAreTrue == Spec => []PassIsTrue
<1>1. Init => RunInv /\ PassIsTrue
  BY RunInitially DEF Init, PassIsTrue
<1>2. RunInv /\ PassIsTrue /\ [Next]_vars => (RunInv /\ PassIsTrue)'
  <2> SUFFICES ASSUME RunInv, PassIsTrue, [Next]_vars PROVE RunInv' /\ PassIsTrue'
    OBVIOUS
  <2>1. CASE exit # None
    BY <2>1, RunStep, PassStays
  <2>2. CASE exit = None /\ Finish
    BY <2>2, RunStep, FinishPasses
  <2>3. CASE exit = None /\ ~Finish
    BY <2>3, RunStep, OthersFail DEF PassIsTrue
  <2>4. QED
    BY <2>1, <2>2, <2>3
<1>3. QED
  BY <1>1, <1>2, PTL DEF Spec

HIDE RunAssumptions

-----------------------------------------------------------------------------
(* The resource sampler.                                                   *)

(* The greatest of some numbers, and of two.                               *)
LEMMA MaxIs ==
    ASSUME NEW n \in Nat, NEW S \in SUBSET (1..n), S # {}
    PROVE  Max(S) \in S /\ \A y \in S : y <= Max(S)
<1>1. PICK x \in S : \A y \in S : y <= x
  BY GreatestExists
<1>2. \A y \in S : x >= y
  <2>1. \A y \in S : y \in Int
    OBVIOUS
  <2>2. QED
    BY <1>1, <2>1
<1>3. Max(S) \in S /\ \A y \in S : Max(S) >= y
  BY <1>2 DEF Max
<1>4. \A y \in S : y \in Int
  OBVIOUS
<1>5. QED
  BY <1>3, <1>4

LEMMA MaxOfZero ==
    ASSUME NEW a \in Nat PROVE Max({0, a}) = a
<1>1. \A x \in {0, a} : a >= x
  OBVIOUS
<1>2. Max({0, a}) \in {0, a} /\ \A y \in {0, a} : Max({0, a}) >= y
  BY <1>1 DEF Max
<1>3. QED
  BY <1>2

(* What was seen of a process by a tick: its counter at the last tick that *)
(* saw it.                                                                 *)
Reading == UNION {[S -> Nat] : S \in SUBSET Pids}
Tick == [t : Nat, cpu : Reading]
SeenIn(s, p, k) == {i \in 1..k : p \in DOMAIN s[i].cpu}
LastOf(s, p, k) == IF SeenIn(s, p, k) = {} THEN 0 ELSE s[Max(SeenIn(s, p, k))].cpu[p]

LEMMA ReadingIs ==
    ASSUME NEW r \in Reading
    PROVE  DOMAIN r \subseteq Pids /\ \A p \in DOMAIN r : r[p] \in Nat
BY DEF Reading

(* Time and counters only grow.                                            *)
Grows(s) ==
  /\ s \in Seq(Tick)
  /\ \A i, j \in 1..Len(s) : i <= j => s[i].t <= s[j].t
  /\ \A i, j \in 1..Len(s) : i <= j =>
        \A p \in DOMAIN s[i].cpu : p \in DOMAIN s[j].cpu => s[i].cpu[p] <= s[j].cpu[p]

LEMMA TickOf ==
    ASSUME NEW s, Grows(s), NEW i \in 1..Len(s)
    PROVE  s[i].t \in Nat /\ s[i].cpu \in Reading
<1>1. s[i] \in Tick
  BY ElementOfSeq DEF Grows
<1>2. QED
  BY <1>1 DEF Tick

LEMMA LastIs ==
    ASSUME NEW s, Grows(s), NEW k \in 0..Len(s), NEW p
    PROVE  /\ LastOf(s, p, k) \in Nat
           /\ SeenIn(s, p, k) = {} => LastOf(s, p, k) = 0
           /\ \A i \in SeenIn(s, p, k) : s[i].cpu[p] <= LastOf(s, p, k)
           /\ SeenIn(s, p, k) # {} =>
                \E m \in SeenIn(s, p, k) :
                    LastOf(s, p, k) = s[m].cpu[p] /\ \A i \in SeenIn(s, p, k) : i <= m
<1>1. CASE SeenIn(s, p, k) = {}
  BY <1>1 DEF LastOf
<1>2. CASE SeenIn(s, p, k) # {}
  <2>1. k \in Nat /\ SeenIn(s, p, k) \in SUBSET (1..k)
    BY DEF SeenIn, Grows
  <2>2. PICK m \in SeenIn(s, p, k) : m = Max(SeenIn(s, p, k)) /\ \A i \in SeenIn(s, p, k) : i <= m
    BY <1>2, <2>1, MaxIs
  <2>3. LastOf(s, p, k) = s[m].cpu[p]
    BY <1>2, <2>2 DEF LastOf
  <2>4. \A i \in SeenIn(s, p, k) : i \in 1..Len(s) /\ p \in DOMAIN s[i].cpu
    BY <2>1 DEF SeenIn, Grows
  <2>5. s[m].cpu[p] \in Nat
    BY <2>4, TickOf, ReadingIs
  <2>6. \A i \in SeenIn(s, p, k) : s[i].cpu[p] <= s[m].cpu[p]
    BY <2>2, <2>4 DEF Grows
  <2>7. QED
    BY <1>2, <2>2, <2>3, <2>5, <2>6
<1>3. QED
  BY <1>1, <1>2

LEMMA LastGrows ==
    ASSUME NEW s, Grows(s), NEW k \in 0..Len(s), NEW j \in 0..k, NEW p
    PROVE  LastOf(s, p, j) <= LastOf(s, p, k)
<1>1. j \in 0..Len(s) /\ k \in Nat /\ j \in Nat /\ j <= k
  BY DEF Grows
<1>2. LastOf(s, p, j) \in Nat /\ LastOf(s, p, k) \in Nat
  BY <1>1, LastIs
<1>3. CASE SeenIn(s, p, j) = {}
  BY <1>1, <1>2, <1>3, LastIs
<1>4. CASE SeenIn(s, p, j) # {}
  <2>1. PICK m \in SeenIn(s, p, j) : LastOf(s, p, j) = s[m].cpu[p]
    BY <1>1, <1>4, LastIs
  <2>2. m \in SeenIn(s, p, k)
    BY <1>1 DEF SeenIn
  <2>3. QED
    BY <2>1, <2>2, LastIs
<1>5. QED
  BY <1>3, <1>4

LEMMA LastAppend ==
    ASSUME NEW s, Grows(s), NEW e \in Tick, NEW p
    PROVE  /\ \A k \in 0..Len(s) : LastOf(Append(s, e), p, k) = LastOf(s, p, k)
           /\ LastOf(Append(s, e), p, Len(s) + 1) =
                IF p \in DOMAIN e.cpu THEN e.cpu[p] ELSE LastOf(s, p, Len(s))
<1> DEFINE a == Append(s, e)
<1>1. Len(s) \in Nat /\ Len(a) = Len(s) + 1 /\ (\A i \in 1..Len(s) : a[i] = s[i]) /\ a[Len(s) + 1] = e
  BY AppendProperties DEF Grows
<1> HIDE DEF a
<1>2. ASSUME NEW k \in 0..Len(s) PROVE SeenIn(a, p, k) = SeenIn(s, p, k) /\ LastOf(a, p, k) = LastOf(s, p, k)
  <2>1. \A i \in 1..k : a[i] = s[i]
    BY <1>1
  <2>2. SeenIn(a, p, k) = SeenIn(s, p, k)
    BY <2>1 DEF SeenIn
  <2>3. CASE SeenIn(s, p, k) = {}
    BY <2>2, <2>3 DEF LastOf
  <2>4. CASE SeenIn(s, p, k) # {}
    <3>1. k \in Nat /\ SeenIn(s, p, k) \in SUBSET (1..k)
      BY <1>1 DEF SeenIn
    <3>2. PICK m \in SeenIn(s, p, k) : m = Max(SeenIn(s, p, k))
      BY <2>4, <3>1, MaxIs
    <3>3. a[m] = s[m]
      BY <2>1, <3>1, <3>2
    <3>4. QED
      BY <2>2, <2>4, <3>2, <3>3 DEF LastOf
  <2>5. QED
    BY <2>2, <2>3, <2>4
<1> DEFINE n == Len(s) + 1
<1>3. n \in Nat /\ SeenIn(a, p, n) \in SUBSET (1..n)
  BY <1>1 DEF SeenIn
<1>4. SeenIn(a, p, n) = SeenIn(s, p, Len(s)) \cup (IF p \in DOMAIN e.cpu THEN {n} ELSE {})
  <2>1. \A i : i \in 1..n <=> i \in 1..Len(s) \/ i = n
    BY <1>1
  <2>2. n \notin 1..Len(s)
    BY <1>1
  <2>3. QED
    BY <1>1, <2>1, <2>2 DEF SeenIn
<1>5. ASSUME p \in DOMAIN e.cpu PROVE LastOf(a, p, n) = e.cpu[p]
  <2>1. n \in SeenIn(a, p, n)
    BY <1>4, <1>5
  <2>2. Max(SeenIn(a, p, n)) \in 1..n /\ n <= Max(SeenIn(a, p, n))
    BY <1>3, <2>1, MaxIs
  <2>3. Max(SeenIn(a, p, n)) = n
    BY <1>3, <2>2
  <2>4. QED
    BY <1>1, <2>1, <2>3 DEF LastOf
<1>6. ASSUME p \notin DOMAIN e.cpu PROVE LastOf(a, p, n) = LastOf(s, p, Len(s))
  <2>1. Len(s) \in 0..Len(s)
    BY <1>1
  <2>2. SeenIn(a, p, n) = SeenIn(s, p, Len(s))
    BY <1>4, <1>6
  <2>3. SeenIn(a, p, Len(s)) = SeenIn(s, p, Len(s)) /\ LastOf(a, p, Len(s)) = LastOf(s, p, Len(s))
    BY <1>2, <2>1
  <2>4. LastOf(a, p, n) = LastOf(a, p, Len(s))
    BY <2>2, <2>3 DEF LastOf
  <2>5. QED
    BY <2>3, <2>4
<1>7. QED
  BY <1>2, <1>5, <1>6 DEF a

(* What is known of processes, ticks and books, and of the report.         *)
HostInv ==
  /\ os \in [Pids -> [cmd : Commands \cup {None}, cpu : Nat, alive : BOOLEAN]]
  /\ \A p \in Pids : os[p].alive => os[p].cmd # None
  /\ pids = [p \in Pids |-> pids[p]]
  /\ \A p \in Pids : pids[p] # None => os[p].cmd # None /\ pids[p] = Classify(os[p].cmd.words)

SeriesInv ==
  /\ Grows(series)
  /\ \A i \in 1..Ticks : \A p \in DOMAIN series[i].cpu :
        pids[p] # None /\ series[i].cpu[p] <= os[p].cpu

(* The books agree with the series: from the tick the load starts at.      *)
BooksInv ==
  /\ markIndex = None \/ markIndex \in 1..(IF Ticks = 0 THEN 1 ELSE Ticks)
  /\ books \in [Pids -> [base : Nat, seen : Nat]]
  /\ \A p \in Pids : books[p].seen = LastOf(series, p, Ticks)
  /\ \A p \in Pids : books[p].base = IF Ticks = 0 THEN 0 ELSE LastOf(series, p, From)

StopInv ==
  /\ closing # None => phase \in {"check", "over"}
  /\ report # None => closing # None

(* A sum of what the books say of the processes of a role.                 *)
Charged(b, named, r) ==
  SumFunction([p \in {q \in Pids : named[q] \in {r}} |-> b[p].seen - b[p].base])

WithinLoad(rep) ==
  \A s \in {WorkerRoles, ServerRoles} :
      LET w == rep.steady[s]
          load == SumFunction([r \in s |-> rep.cpu[r]])
      IN  /\ w.cpu <= load /\ w.wall <= rep.wall
          /\ IF w.full THEN w.cpu = load ELSE w.wall >= Target

ReportInv ==
  report # None => /\ \A r \in Roles : report.cpu[r] = Charged(books, pids, r)
                   /\ WithinLoad(report)

SampleInv == HostInv /\ SeriesInv /\ BooksInv /\ StopInv /\ ReportInv

LEMMA NothingSeen ==
    ASSUME NEW p PROVE LastOf(<<>>, p, 0) = 0
BY DEF LastOf, SeenIn

LEMMA SamplerInitially == Init => SampleInv
<1> SUFFICES ASSUME Init PROVE SampleInv
  OBVIOUS
<1>1. Ticks = 0 /\ series = <<>>
  BY DEF Init, SInit, Ticks
<1>2. HostInv
  <2>1. \A p \in Pids : \/ os[p] = NoProcess
                        \/ \E c \in Commands : os[p] = [cmd |-> c, cpu |-> 1, alive |-> TRUE]
    BY DEF Init, SInit
  <2>2. ASSUME NEW p \in Pids
        PROVE  /\ os[p] \in [cmd : Commands \cup {None}, cpu : Nat, alive : BOOLEAN]
               /\ os[p].alive => os[p].cmd # None
    <3>1. CASE os[p] = NoProcess
      BY <3>1 DEF NoProcess
    <3>2. CASE \E c \in Commands : os[p] = [cmd |-> c, cpu |-> 1, alive |-> TRUE]
      <4>1. PICK c \in Commands : os[p] = [cmd |-> c, cpu |-> 1, alive |-> TRUE]
        BY <3>2
      <4>2. c # None
        BY SamplerAssumptions
      <4>3. QED
        BY <4>1, <4>2
    <3>3. QED
      BY <2>1, <3>1, <3>2
  <2>4. os = [p \in Pids |-> os[p]] /\ pids = [p \in Pids |-> None]
    BY DEF Init, SInit
  <2>5. QED
    BY <2>2, <2>4 DEF HostInv
<1>3. SeriesInv
  <2>1. Grows(<<>>)
    BY DEF Grows
  <2>2. QED
    BY <1>1, <2>1 DEF SeriesInv
<1>4. BooksInv
  <2>1. \A p \in Pids : LastOf(series, p, Ticks) = 0
    BY <1>1, NothingSeen
  <2>2. QED
    BY <1>1, <2>1 DEF Init, SInit, BooksInv
<1>5. StopInv /\ ReportInv
  BY DEF Init, SInit, StopInv, ReportInv
<1>6. QED
  BY <1>2, <1>3, <1>4, <1>5 DEF SampleInv

(* What a step of the run is to the sampler.                               *)
LEMMA SamplerSteps ==
    ASSUME [Next]_vars
    PROVE  \/ Mark /\ phase \notin {"check", "over"}
           \/ StopSampler /\ phase' = "check"
           \/ WriteReport /\ phase' = phase
           \/ Measured /\ phase' = phase
           \/ UNCHANGED svars
<1>1. CASE Before
  BY <1>1 DEF Before, Boot, Gate, Reference, Mint, Drained, Phase, Mark
<1>2. CASE Server
  BY <1>2 DEF Server, OutboxClaims, OutboxFinishes, Commit
<1>3. CASE Load
  <2>1. ASSUME NEW c \in Calls, Drive(c) PROVE UNCHANGED svars
    BY <2>1 DEF Drive, Start, RunTurn, TurnEnds, TurnLost, StreamBreaks, CallOver, Verdict
  <2>2. QED
    BY <1>3, <2>1 DEF Load, Deadline, ChildFails, ChildVanishes, LoadOver
<1>4. CASE SamplerReports \/ Finish
  BY <1>4 DEF SamplerReports, Finish, rvars
<1>5. CASE exit = None /\ Measured /\ UNCHANGED rvars
  BY <1>5 DEF rvars
<1>6. CASE UNCHANGED vars
  BY <1>6 DEF vars
<1>7. QED
  BY <1>1, <1>2, <1>3, <1>4, <1>5, <1>6 DEF Next

LEMMA PhaseStays ==
    ASSUME [Next]_vars, phase \in {"check", "over"}
    PROVE  phase' \in {"check", "over"}
<1>1. CASE Before
  BY <1>1 DEF Before, Boot, Gate, Reference, Mint, Drained, Phase
<1>2. CASE Server
  BY <1>2 DEF Server, OutboxClaims, OutboxFinishes, Commit
<1>3. CASE Load
  <2>1. ASSUME NEW c \in Calls, Drive(c) PROVE phase' \in {"check", "over"}
    BY <2>1 DEF Drive, Start, RunTurn, TurnEnds, TurnLost, StreamBreaks, CallOver, Verdict, Exits
  <2>2. QED
    BY <1>3, <2>1 DEF Load, Deadline, ChildFails, ChildVanishes, LoadOver, Exits
<1>4. CASE SamplerReports \/ Finish
  BY <1>4 DEF SamplerReports, Finish, rvars, Exits
<1>5. CASE exit = None /\ Measured /\ UNCHANGED rvars
  BY <1>5 DEF rvars
<1>6. CASE UNCHANGED vars
  BY <1>6 DEF vars, rvars
<1>7. QED
  BY <1>1, <1>2, <1>3, <1>4, <1>5, <1>6 DEF Next

-----------------------------------------------------------------------------
(* What leaves the series and the books alone.                             *)
LEMMA StopStep == StopInv /\ [Next]_vars => StopInv'
<1> SUFFICES ASSUME StopInv, [Next]_vars PROVE StopInv'
  OBVIOUS
<1>1. phase \in {"check", "over"} => phase' \in {"check", "over"}
  BY PhaseStays
<1>2. CASE closing' = closing /\ report' = report
  BY <1>1, <1>2 DEF StopInv
<1>3. CASE StopSampler /\ phase' = "check"
  BY <1>3, SamplerAssumptions DEF StopInv, StopSampler
<1>4. CASE WriteReport
  BY <1>1, <1>4 DEF StopInv, WriteReport
<1>5. CASE Mark \/ Measured \/ UNCHANGED svars
  <2>1. closing' = closing /\ report' = report
    BY <1>5 DEF Mark, Measured, svars, Spawn, Work, Exit, ContainerWorks, Ingest, PollContainers, PollStats
  <2>2. QED
    BY <1>2, <2>1
<1>6. QED
  BY <1>3, <1>4, <1>5, SamplerSteps

LEMMA BooksAlone ==
    ASSUME BooksInv, UNCHANGED <<series, markIndex, books>> PROVE BooksInv'
<1>1. Ticks' = Ticks /\ From' = From
  BY DEF Ticks, From
<1>2. QED
  BY <1>1 DEF BooksInv

LEMMA ReportAlone ==
    ASSUME ReportInv, UNCHANGED <<report, books, pids>> PROVE ReportInv'
BY DEF ReportInv

(* A process that starts, works or ends.                                   *)
LEMMA HostStep ==
    ASSUME HostInv, SeriesInv, ~PidReuse, NEW p \in Pids,
           (\E c \in Commands : Spawn(p, c)) \/ Work(p) \/ Exit(p)
    PROVE  HostInv' /\ SeriesInv' /\ UNCHANGED <<series, markIndex, books, report, pids, closing>>
<1>1. UNCHANGED <<series, markIndex, books, report, pids, closing>>
  BY DEF Spawn, Work, Exit
<1>2. /\ os' \in [Pids -> [cmd : Commands \cup {None}, cpu : Nat, alive : BOOLEAN]]
      /\ \A q \in Pids : os'[q].alive => os'[q].cmd # None
      /\ \A q \in Pids : pids[q] # None =>
            os'[q].cmd = os[q].cmd /\ os[q].cpu <= os'[q].cpu
  <2> DEFINE Process == [cmd : Commands \cup {None}, cpu : Nat, alive : BOOLEAN]
  <2>1. os \in [Pids -> Process] /\ (\A q \in Pids : os[q].alive => os[q].cmd # None)
        /\ (\A q \in Pids : pids[q] # None => os[q].cmd # None) /\ os[p] \in Process
    BY DEF HostInv
  <2>2. \A q \in Pids : os[q].cpu \in Nat /\ os[q].cpu <= os[q].cpu
    BY <2>1
  <2>3. ASSUME NEW c \in Commands, Spawn(p, c)
        PROVE  /\ os' = [os EXCEPT ![p] = [cmd |-> c, cpu |-> 0, alive |-> TRUE]] /\ c # None
               /\ pids[p] = None
    <3>1. os' = [os EXCEPT ![p] = [cmd |-> c, cpu |-> 0, alive |-> TRUE]] /\ os[p].cmd = None
      BY <2>3 DEF Spawn
    <3>2. QED
      BY <2>1, <3>1, SamplerAssumptions
  <2>4. CASE \E c \in Commands : Spawn(p, c)
    <3>1. PICK c \in Commands : Spawn(p, c)
      BY <2>4
    <3>0. [cmd |-> c, cpu |-> 0, alive |-> TRUE] \in Process
      OBVIOUS
    <3>2. os'[p] = [cmd |-> c, cpu |-> 0, alive |-> TRUE]
      BY <2>1, <2>3, <3>1
    <3>3. \A q \in Pids \ {p} : os'[q] = os[q]
      BY <2>1, <2>3, <3>1
    <3>4. os' \in [Pids -> Process]
      BY <2>1, <2>3, <3>0, <3>1, <3>2
    <3>5. QED
      BY <2>1, <2>2, <2>3, <3>1, <3>2, <3>3, <3>4
  <2>5. CASE Work(p)
    <3>1. os' = [os EXCEPT ![p] = [os[p] EXCEPT !.cpu = os[p].cpu + 1]] /\ os[p].alive
      BY <2>5 DEF Work
    <3>2. [os[p] EXCEPT !.cpu = os[p].cpu + 1] \in Process
      BY <2>1
    <3>3. os' \in [Pids -> Process]
      BY <2>1, <3>1, <3>2
    <3>4. os'[p].cmd = os[p].cmd /\ os'[p].cpu = os[p].cpu + 1
      BY <2>1, <3>1
    <3>5. os[p].cpu <= os'[p].cpu
      BY <2>2, <3>4
    <3>6. \A q \in Pids \ {p} : os'[q] = os[q]
      BY <2>1, <3>1
    <3>7. QED
      BY <2>1, <2>2, <3>1, <3>3, <3>4, <3>5, <3>6
  <2>6. CASE Exit(p)
    <3>1. os' = [os EXCEPT ![p] = [os[p] EXCEPT !.alive = FALSE]]
      BY <2>6 DEF Exit
    <3>2. [os[p] EXCEPT !.alive = FALSE] \in Process
      BY <2>1
    <3>3. os' \in [Pids -> Process]
      BY <2>1, <3>1, <3>2
    <3>4. os'[p].cmd = os[p].cmd /\ os'[p].cpu = os[p].cpu /\ ~os'[p].alive
      BY <2>1, <3>1
    <3>5. \A q \in Pids \ {p} : os'[q] = os[q]
      BY <2>1, <3>1
    <3>6. QED
      BY <2>1, <2>2, <3>3, <3>4, <3>5
  <2>7. QED
    BY <2>4, <2>5, <2>6
<1>3. HostInv'
  <2>1. \A q \in Pids : pids'[q] # None => os'[q].cmd # None /\ pids'[q] = Classify(os'[q].cmd.words)
    BY <1>1, <1>2 DEF HostInv
  <2>2. pids' = [q \in Pids |-> pids'[q]]
    BY <1>1 DEF HostInv
  <2>3. QED
    BY <1>2, <2>1, <2>2 DEF HostInv
<1>4. SeriesInv'
  <2>1. Grows(series') /\ Ticks' = Ticks
    BY <1>1 DEF SeriesInv, Ticks
  <2>2. ASSUME NEW i \in 1..Ticks, NEW q \in DOMAIN series[i].cpu
        PROVE  pids[q] # None /\ series[i].cpu[q] <= os'[q].cpu
    <3>1. q \in Pids /\ series[i].cpu[q] \in Nat
      BY TickOf, ReadingIs DEF SeriesInv, Ticks
    <3>2. pids[q] # None /\ series[i].cpu[q] <= os[q].cpu
      BY DEF SeriesInv
    <3>3. os[q].cpu <= os'[q].cpu
      BY <1>2, <3>1, <3>2
    <3>4. os[q].cpu \in Nat /\ os'[q].cpu \in Nat
      BY <1>2, <3>1 DEF HostInv
    <3>5. QED
      BY <3>1, <3>2, <3>3, <3>4
  <2>3. QED
    BY <1>1, <2>1, <2>2 DEF SeriesInv
<1>5. QED
  BY <1>1, <1>3, <1>4

(* A tick.                                                                 *)
LEMMA TickGrows ==
    ASSUME NEW s, Grows(s), NEW e \in Tick,
           Len(s) # 0 => s[Len(s)].t <= e.t,
           \A i \in 1..Len(s) : \A p \in DOMAIN s[i].cpu : p \in DOMAIN e.cpu => s[i].cpu[p] <= e.cpu[p]
    PROVE  Grows(Append(s, e))
<1> DEFINE a == Append(s, e)
<1>1. /\ s \in Seq(Tick) /\ Len(s) \in Nat /\ a \in Seq(Tick) /\ Len(a) = Len(s) + 1
      /\ (\A i \in 1..Len(s) : a[i] = s[i]) /\ a[Len(s) + 1] = e
  BY AppendProperties DEF Grows
<1> HIDE DEF a
<1>2. \A i \in 1..Len(a) : i \in 1..Len(s) \/ i = Len(s) + 1
  BY <1>1
<1>3. e.t \in Nat /\ \A p \in DOMAIN e.cpu : e.cpu[p] \in Nat
  BY ReadingIs DEF Tick
<1>4. ASSUME NEW i \in 1..Len(a), NEW j \in 1..Len(a), i <= j
      PROVE  /\ a[i].t <= a[j].t
             /\ \A p \in DOMAIN a[i].cpu : p \in DOMAIN a[j].cpu => a[i].cpu[p] <= a[j].cpu[p]
  <2>1. CASE i \in 1..Len(s) /\ j \in 1..Len(s)
    <3>1. a[i] = s[i] /\ a[j] = s[j]
      BY <1>1, <2>1
    <3>2. QED
      BY <1>4, <2>1, <3>1 DEF Grows
  <2>2. CASE i \in 1..Len(s) /\ j = Len(s) + 1
    <3>1. a[i] = s[i] /\ a[j] = e
      BY <1>1, <2>2
    <3>2. Len(s) \in 1..Len(s) /\ i <= Len(s) /\ Len(s) # 0
      BY <1>1, <2>2
    <3>3. s[i].t <= s[Len(s)].t /\ s[i].t \in Nat /\ s[Len(s)].t \in Nat
      BY <2>2, <3>2, TickOf DEF Grows
    <3>4. s[i].t <= e.t
      BY <1>3, <3>2, <3>3
    <3>5. QED
      BY <2>2, <3>1, <3>4
  <2>3. CASE i = Len(s) + 1
    <3>1. j = i
      BY <1>1, <1>2, <1>4, <2>3
    <3>2. a[i] = e /\ a[j] = e
      BY <1>1, <2>3, <3>1
    <3>3. e.t <= e.t /\ \A p \in DOMAIN e.cpu : e.cpu[p] <= e.cpu[p]
      BY <1>3
    <3>4. QED
      BY <3>2, <3>3
  <2>4. QED
    BY <1>2, <2>1, <2>2, <2>3
<1>5. QED
  BY <1>1, <1>4 DEF Grows, a

LEMMA IngestHost ==
    ASSUME HostInv, NEW gap \in Gaps, Ingest(gap)
    PROVE  /\ HostInv' /\ os' = os
           /\ \A p \in Pids : pids[p] # None => pids'[p] = pids[p]
<1>1. os' = os /\ pids' = [p \in Pids |-> IF p \in Alive THEN Named(p) ELSE pids[p]]
  BY DEF Ingest
<1>2. ASSUME NEW p \in Pids
      PROVE  /\ pids'[p] # None => os[p].cmd # None /\ pids'[p] = Classify(os[p].cmd.words)
             /\ pids[p] # None => pids'[p] = pids[p]
  <2>1. CASE p \in Alive
    <3>1. pids'[p] = Named(p) /\ os[p].alive
      BY <1>1, <2>1 DEF Alive
    <3>2. os[p].cmd # None
      BY <3>1 DEF HostInv
    <3>3. pids[p] # None => pids[p] = Classify(os[p].cmd.words)
      BY DEF HostInv
    <3>4. QED
      BY <3>1, <3>2, <3>3 DEF Named
  <2>2. CASE p \notin Alive
    <3>1. pids'[p] = pids[p]
      BY <1>1, <2>2
    <3>2. QED
      BY <3>1 DEF HostInv
  <2>3. QED
    BY <2>1, <2>2
<1>3. pids' = [p \in Pids |-> pids'[p]]
  BY <1>1
<1>4. QED
  BY <1>1, <1>2, <1>3 DEF HostInv

LEMMA IngestTick ==
    ASSUME HostInv, SeriesInv, NEW gap \in Gaps, Ingest(gap)
    PROVE  \E e \in Tick :
             /\ series' = Append(series, e) /\ Grows(series')
             /\ \A p \in Pids : books'[p] =
                  IF p \notin DOMAIN e.cpu THEN books[p]
                  ELSE [base |-> IF Ticks = 0 THEN e.cpu[p] ELSE books[p].base, seen |-> e.cpu[p]]
             /\ books' = [p \in Pids |-> books'[p]]
             /\ \A p \in DOMAIN e.cpu : pids'[p] # None /\ e.cpu[p] = os[p].cpu
<1> DEFINE seen == {p \in Alive : pids'[p] # None}
           e == [t |-> IF Ticks = 0 THEN 0 ELSE series[Ticks].t + gap, cpu |-> [p \in seen |-> os[p].cpu]]
<1>1. /\ series' = Append(series, e)
      /\ books' = [p \in Pids |->
            IF p \notin seen THEN books[p]
            ELSE [base |-> IF Ticks = 0 THEN os[p].cpu ELSE books[p].base, seen |-> os[p].cpu]]
  BY DEF Ingest
<1>2. seen \in SUBSET Pids /\ \A p \in seen : os[p].cpu \in Nat /\ pids'[p] # None
  BY DEF Alive, HostInv
<1> HIDE DEF seen
<1>3. gap \in Nat
  BY SamplerAssumptions
<1>4. Ticks \in Nat /\ Ticks = Len(series) /\ Grows(series)
  BY DEF SeriesInv, Ticks, Grows
<1>5. Ticks # 0 => series[Ticks].t \in Nat
  <2>1. Ticks # 0 => Ticks \in 1..Len(series)
    BY <1>4
  <2>2. QED
    BY <1>4, <2>1, TickOf
<1>6. [p \in seen |-> os[p].cpu] \in Reading
  BY <1>2 DEF Reading
<1>7. e \in Tick /\ e.cpu = [p \in seen |-> os[p].cpu] /\ (Ticks # 0 => e.t = series[Ticks].t + gap)
  BY <1>3, <1>5, <1>6 DEF Tick
<1> HIDE DEF e
<1>8. DOMAIN e.cpu = seen /\ \A p \in seen : e.cpu[p] = os[p].cpu
  BY <1>7
<1>9. Len(series) # 0 => series[Len(series)].t <= e.t
  BY <1>3, <1>4, <1>5, <1>7
<1>10. \A i \in 1..Len(series) : \A p \in DOMAIN series[i].cpu :
          p \in DOMAIN e.cpu => series[i].cpu[p] <= e.cpu[p]
  BY <1>8 DEF SeriesInv, Ticks
<1>11. Grows(Append(series, e))
  BY <1>4, <1>7, <1>9, <1>10, TickGrows
<1>12. \A p \in Pids : books'[p] =
          IF p \notin DOMAIN e.cpu THEN books[p]
          ELSE [base |-> IF Ticks = 0 THEN e.cpu[p] ELSE books[p].base, seen |-> e.cpu[p]]
  BY <1>1, <1>8
<1>13. books' = [p \in Pids |-> books'[p]]
  BY <1>1
<1>14. QED
  BY <1>1, <1>2, <1>7, <1>8, <1>11, <1>12, <1>13

LEMMA IngestStep ==
    ASSUME SampleInv, NEW gap \in Gaps, Ingest(gap)
    PROVE  HostInv' /\ SeriesInv' /\ BooksInv' /\ ReportInv'
<1>1. HostInv /\ SeriesInv /\ BooksInv
  BY DEF SampleInv
<1>2. HostInv' /\ os' = os /\ \A p \in Pids : pids[p] # None => pids'[p] = pids[p]
  BY <1>1, IngestHost
<1>3. PICK e \in Tick :
        /\ series' = Append(series, e) /\ Grows(series')
        /\ \A p \in Pids : books'[p] =
             IF p \notin DOMAIN e.cpu THEN books[p]
             ELSE [base |-> IF Ticks = 0 THEN e.cpu[p] ELSE books[p].base, seen |-> e.cpu[p]]
        /\ books' = [p \in Pids |-> books'[p]]
        /\ \A p \in DOMAIN e.cpu : pids'[p] # None /\ e.cpu[p] = os[p].cpu
  BY <1>1, IngestTick
<1>4. /\ Ticks \in Nat /\ Ticks = Len(series) /\ Ticks' = Ticks + 1 /\ Grows(series) /\ Ticks' = Len(series')
      /\ (\A i \in 1..Ticks : series'[i] = series[i]) /\ series'[Ticks + 1] = e
  BY <1>1, <1>3, AppendProperties DEF SeriesInv, Ticks, Grows
<1>5. DOMAIN e.cpu \subseteq Pids /\ \A p \in DOMAIN e.cpu : e.cpu[p] \in Nat
  BY ReadingIs DEF Tick
<1>6. SeriesInv'
  <2>1. ASSUME NEW i \in 1..Ticks', NEW p \in DOMAIN series'[i].cpu
        PROVE  pids'[p] # None /\ series'[i].cpu[p] <= os'[p].cpu
    <3>1. CASE i \in 1..Ticks
      <4>1. series'[i] = series[i] /\ p \in DOMAIN series[i].cpu
        BY <1>4, <2>1, <3>1
      <4>2. pids[p] # None /\ series[i].cpu[p] <= os[p].cpu
        BY <1>1, <3>1, <4>1 DEF SeriesInv
      <4>3. p \in Pids
        BY <1>4, <3>1, <4>1, TickOf, ReadingIs
      <4>4. QED
        BY <1>2, <4>1, <4>2, <4>3
    <3>2. CASE i = Ticks + 1
      <4>1. p \in DOMAIN e.cpu /\ series'[i].cpu[p] = e.cpu[p]
        BY <1>4, <2>1, <3>2
      <4>2. QED
        BY <1>2, <1>3, <1>5, <4>1
    <3>3. QED
      BY <1>4, <3>1, <3>2
  <2>2. QED
    BY <1>3, <2>1 DEF SeriesInv
<1>7. From' = From /\ markIndex' = markIndex
  BY DEF Ingest, From
<1>8. books' \in [Pids -> [base : Nat, seen : Nat]]
  <2>1. \A p \in Pids : books[p] \in [base : Nat, seen : Nat]
    BY <1>1 DEF BooksInv
  <2>2. \A p \in Pids : books'[p] \in [base : Nat, seen : Nat]
    <3> SUFFICES ASSUME NEW p \in Pids PROVE books'[p] \in [base : Nat, seen : Nat]
      OBVIOUS
    <3>1. books[p] \in [base : Nat, seen : Nat] /\ books[p].base \in Nat
      BY <2>1
    <3>2. CASE p \notin DOMAIN e.cpu
      BY <1>3, <3>1, <3>2
    <3>3. CASE p \in DOMAIN e.cpu
      <4>1. books'[p] = [base |-> IF Ticks = 0 THEN e.cpu[p] ELSE books[p].base, seen |-> e.cpu[p]]
        BY <1>3, <3>3
      <4>2. e.cpu[p] \in Nat
        BY <1>5, <3>3
      <4>3. QED
        BY <3>1, <4>1, <4>2
    <3>4. QED
      BY <3>2, <3>3
  <2>3. QED
    BY <1>3, <2>2
<1>9. ASSUME NEW p \in Pids
      PROVE  /\ books'[p].seen = LastOf(series', p, Ticks')
             /\ books'[p].base = LastOf(series', p, From)
  <2>1. /\ \A k \in 0..Ticks : LastOf(series', p, k) = LastOf(series, p, k)
        /\ LastOf(series', p, Ticks + 1) = IF p \in DOMAIN e.cpu THEN e.cpu[p] ELSE LastOf(series, p, Ticks)
    BY <1>3, <1>4, LastAppend
  <2>2. /\ books[p].seen = LastOf(series, p, Ticks)
        /\ books[p].base = IF Ticks = 0 THEN 0 ELSE LastOf(series, p, From)
    BY <1>1 DEF BooksInv
  <2>3. /\ p \notin DOMAIN e.cpu => books'[p] = books[p]
        /\ p \in DOMAIN e.cpu => /\ books'[p].seen = e.cpu[p]
                                 /\ books'[p].base = IF Ticks = 0 THEN e.cpu[p] ELSE books[p].base
    BY <1>3
  <2>4. CASE Ticks = 0
    <3>1. From = 1
      BY <1>1, <2>4 DEF BooksInv, From
    <3>2. LastOf(series, p, 0) = 0
      <4>1. SeenIn(series, p, 0) = {}
        BY DEF SeenIn
      <4>2. QED
        BY <4>1 DEF LastOf
    <3>3. QED
      BY <1>4, <2>1, <2>2, <2>3, <2>4, <3>1, <3>2
  <2>5. CASE Ticks # 0
    <3>1. From \in 1..Ticks /\ From \in 0..Ticks
      BY <1>1, <1>4, <2>5 DEF BooksInv, From
    <3>2. LastOf(series', p, From) = LastOf(series, p, From)
      BY <2>1, <3>1
    <3>3. QED
      BY <1>4, <2>1, <2>2, <2>3, <2>5, <3>2
  <2>6. QED
    BY <2>4, <2>5
<1>10. BooksInv'
  <2>1. Ticks' # 0 /\ (markIndex' = None \/ markIndex' \in 1..Ticks')
    BY <1>1, <1>4, <1>7 DEF BooksInv
  <2>2. QED
    BY <1>7, <1>8, <1>9, <2>1 DEF BooksInv
<1>11. ReportInv'
  BY DEF Ingest, ReportInv
<1>12. QED
  BY <1>2, <1>6, <1>10, <1>11

(* The mark, before the report.                                            *)
LEMMA MarkStep ==
    ASSUME SampleInv, Mark, phase \notin {"check", "over"}
    PROVE  HostInv' /\ SeriesInv' /\ BooksInv' /\ ReportInv'
<1>1. /\ UNCHANGED <<os, pids, series, report>> /\ Ticks' = Ticks
      /\ markIndex' = IF Ticks = 0 THEN 1 ELSE Ticks
      /\ books' = [p \in Pids |-> [base |-> books[p].seen, seen |-> books[p].seen]]
  BY DEF Mark, Ticks
<1>2. HostInv' /\ SeriesInv'
  BY <1>1 DEF SampleInv, HostInv, SeriesInv
<1>3. Ticks \in Nat
  BY DEF SampleInv, SeriesInv, Ticks, Grows
<1>4. From' = IF Ticks = 0 THEN 1 ELSE Ticks
  BY <1>1, <1>3, SamplerAssumptions DEF From
<1>5. \A p \in Pids : books[p].seen \in Nat /\ books[p].seen = LastOf(series, p, Ticks)
  BY DEF SampleInv, BooksInv
<1>6. \A p \in Pids : LastOf(series, p, 0) = 0
  BY DEF LastOf, SeenIn
<1>7. BooksInv'
  <2>1. books' \in [Pids -> [base : Nat, seen : Nat]]
    BY <1>1, <1>5
  <2>2. markIndex' \in 1..(IF Ticks = 0 THEN 1 ELSE Ticks)
    BY <1>1, <1>3
  <2>3. \A p \in Pids : books'[p].seen = LastOf(series', p, Ticks')
    BY <1>1, <1>5
  <2>4. \A p \in Pids : books'[p].base = IF Ticks' = 0 THEN 0 ELSE LastOf(series', p, From')
    BY <1>1, <1>4, <1>5, <1>6
  <2>5. QED
    BY <1>1, <2>1, <2>2, <2>3, <2>4 DEF BooksInv
<1>8. report' = None
  BY <1>1 DEF SampleInv, StopInv
<1>9. ReportInv'
  BY <1>8 DEF ReportInv
<1>10. QED
  BY <1>2, <1>7, <1>9

-----------------------------------------------------------------------------
(* What the report makes of the series.                                    *)
LEMMA SpentIs ==
    ASSUME SeriesInv, NEW p, NEW k \in 1..Ticks
    PROVE  Spent(p, k) = LastOf(series, p, k) - LastOf(series, p, 1)
<1>1. Grows(series) /\ Ticks = Len(series) /\ Ticks \in Nat
  BY DEF SeriesInv, Ticks, Grows
<1>2. k \in 0..Len(series) /\ 1 \in 0..k /\ 1 \in 0..Len(series) /\ 1 \in 1..Len(series)
  BY <1>1
<1>3. /\ LastOf(series, p, k) \in Nat /\ LastOf(series, p, 1) \in Nat
      /\ LastOf(series, p, 1) <= LastOf(series, p, k)
  BY <1>1, <1>2, LastIs, LastGrows
<1>4. Baseline(p) = LastOf(series, p, 1)
  <2>1. SeenIn(series, p, 1) = IF p \in DOMAIN series[1].cpu THEN {1} ELSE {}
    BY DEF SeenIn
  <2>2. p \in DOMAIN series[1].cpu => LastOf(series, p, 1) = series[1].cpu[p]
    <3> SUFFICES ASSUME p \in DOMAIN series[1].cpu PROVE LastOf(series, p, 1) = series[1].cpu[p]
      OBVIOUS
    <3>1. PICK m \in SeenIn(series, p, 1) : LastOf(series, p, 1) = series[m].cpu[p]
      BY <1>1, <1>2, <2>1, LastIs
    <3>2. m = 1
      BY <2>1, <3>1
    <3>3. QED
      BY <3>1, <3>2
  <2>3. p \notin DOMAIN series[1].cpu => LastOf(series, p, 1) = 0
    BY <2>1 DEF LastOf
  <2>4. QED
    BY <2>2, <2>3 DEF Baseline
<1>5. SeenBy(p, k) = SeenIn(series, p, k)
  BY DEF SeenBy, SeenIn
<1>6. CASE SeenIn(series, p, k) = {}
  <2>1. LastOf(series, p, k) = 0 /\ Spent(p, k) = 0
    BY <1>5, <1>6 DEF LastOf, Spent
  <2>2. QED
    BY <1>3, <2>1
<1>7. CASE SeenIn(series, p, k) # {}
  <2>1. Spent(p, k) = Max({0, LastOf(series, p, k) - LastOf(series, p, 1)})
    BY <1>4, <1>5, <1>7 DEF LastOf, Spent
  <2>2. LastOf(series, p, k) - LastOf(series, p, 1) \in Nat
    BY <1>3
  <2>3. QED
    BY <2>1, <2>2, MaxOfZero
<1>8. QED
  BY <1>6, <1>7

(* What every process used from tick i to tick j.                          *)
Rises(s, i, j) == [p \in Pids |-> LastOf(s, p, j) - LastOf(s, p, i)]
SumOver(s, i, j, named, subset) ==
  SumFunction([p \in {q \in Pids : named[q] \in subset} |-> Rises(s, i, j)[p]])

LEMMA RisesAre ==
    ASSUME NEW s, Grows(s), NEW j \in 1..Len(s), NEW i \in 1..j
    PROVE  /\ Rises(s, i, j) \in [Pids -> Int]
           /\ \A p \in Pids : Rises(s, i, j)[p] = LastOf(s, p, j) - LastOf(s, p, i)
           /\ \A p \in Pids : Rises(s, i, j)[p] \in Nat
<1>1. ASSUME NEW p \in Pids
      PROVE  LastOf(s, p, j) - LastOf(s, p, i) \in Nat
  <2>1. j \in 0..Len(s) /\ i \in 0..j /\ i \in 0..Len(s)
    BY DEF Grows
  <2>2. LastOf(s, p, j) \in Nat /\ LastOf(s, p, i) \in Nat /\ LastOf(s, p, i) <= LastOf(s, p, j)
    BY <2>1, LastIs, LastGrows
  <2>3. QED
    BY <2>2
<1>2. \A p \in Pids : Rises(s, i, j)[p] = LastOf(s, p, j) - LastOf(s, p, i)
  BY DEF Rises
<1>3. \A p \in Pids : LastOf(s, p, j) - LastOf(s, p, i) \in Int
  BY <1>1
<1>4. QED
  BY <1>1, <1>2, <1>3 DEF Rises

LEMMA CpuBetweenIs ==
    ASSUME SeriesInv, NEW j \in 1..Ticks, NEW i \in 1..j, NEW subset
    PROVE  CpuBetween(i, j, subset) = SumOver(series, i, j, pids, subset)
<1>1. Grows(series) /\ Ticks = Len(series) /\ Ticks \in Nat /\ j \in 1..Len(series) /\ i \in 1..Ticks
  BY DEF SeriesInv, Ticks, Grows
<1>2. ASSUME NEW p \in Pids PROVE Max({0, Spent(p, j) - Spent(p, i)}) = Rises(series, i, j)[p]
  <2>1. /\ Spent(p, j) = LastOf(series, p, j) - LastOf(series, p, 1)
        /\ Spent(p, i) = LastOf(series, p, i) - LastOf(series, p, 1)
    BY <1>1, SpentIs
  <2>2. j \in 0..Len(series) /\ i \in 0..Len(series) /\ 1 \in 0..Len(series)
    BY <1>1
  <2>3. /\ LastOf(series, p, j) \in Nat /\ LastOf(series, p, i) \in Nat
        /\ LastOf(series, p, 1) \in Nat
    BY <1>1, <2>2, LastIs
  <2>4. Spent(p, j) - Spent(p, i) = LastOf(series, p, j) - LastOf(series, p, i)
    BY <2>1, <2>3
  <2>5. /\ Rises(series, i, j)[p] = LastOf(series, p, j) - LastOf(series, p, i)
        /\ Rises(series, i, j)[p] \in Nat
    BY <1>1, RisesAre
  <2>6. QED
    BY <2>4, <2>5, MaxOfZero
<1>3. [p \in {q \in Pids : pids[q] \in subset} |-> Max({0, Spent(p, j) - Spent(p, i)})]
        = [p \in {q \in Pids : pids[q] \in subset} |-> Rises(series, i, j)[p]]
  BY <1>2
<1>4. QED
  BY <1>3 DEF CpuBetween, SumOver

LEMMA SumOverGrows ==
    ASSUME NEW s, Grows(s), NEW b \in 1..Len(s), NEW j \in 1..b, NEW i \in 1..j, NEW a \in 1..i,
           NEW named, NEW subset
    PROVE  /\ SumOver(s, i, j, named, subset) \in Int /\ SumOver(s, a, b, named, subset) \in Int
           /\ SumOver(s, i, j, named, subset) <= SumOver(s, a, b, named, subset)
<1>1. PICK S : S = {q \in Pids : named[q] \in subset}
  OBVIOUS
<1>2. S \in SUBSET Pids /\ IsFiniteSet(S)
  <2>1. S \in SUBSET Pids
    BY <1>1
  <2>2. QED
    BY <2>1, FS_Subset, SamplerAssumptions
<1>3. Len(s) \in Nat
  BY DEF Grows
<1>4. j \in 1..Len(s) /\ a \in 1..b /\ i \in 0..j /\ j \in 0..b /\ a \in 0..i
      /\ b \in 0..Len(s) /\ j \in 0..Len(s) /\ i \in 0..Len(s) /\ a \in 0..Len(s)
  BY <1>3
<1>5. ASSUME NEW p \in Pids PROVE Rises(s, i, j)[p] <= Rises(s, a, b)[p]
  <2>1. /\ LastOf(s, p, a) \in Nat /\ LastOf(s, p, i) \in Nat
        /\ LastOf(s, p, j) \in Nat /\ LastOf(s, p, b) \in Nat
    BY <1>4, LastIs
  <2>2. LastOf(s, p, a) <= LastOf(s, p, i) /\ LastOf(s, p, j) <= LastOf(s, p, b)
    BY <1>4, LastGrows
  <2>3. /\ Rises(s, i, j)[p] = LastOf(s, p, j) - LastOf(s, p, i)
        /\ Rises(s, a, b)[p] = LastOf(s, p, b) - LastOf(s, p, a)
    BY DEF Rises
  <2>4. QED
    BY <2>1, <2>2, <2>3
<1>6. PICK f : f = [p \in S |-> Rises(s, i, j)[p]]
  OBVIOUS
<1>7. PICK h : h = [p \in S |-> Rises(s, a, b)[p]]
  OBVIOUS
<1>8. f \in [S -> Int]
  BY <1>2, <1>4, <1>6, RisesAre
<1>9. h \in [S -> Int]
  BY <1>2, <1>4, <1>7, RisesAre
<1>10. \A p \in S : f[p] <= h[p]
  BY <1>2, <1>5, <1>6, <1>7
<1>11. SumFunction(f) <= SumFunction(h)
  BY <1>2, <1>8, <1>9, <1>10, SumsGrow
<1>12. SumFunction(f) \in Int /\ SumFunction(h) \in Int
  BY <1>2, <1>8, <1>9, SumIsInt
<1>13. SumFunction(f) = SumOver(s, i, j, named, subset) /\ SumFunction(h) = SumOver(s, a, b, named, subset)
  BY <1>1, <1>6, <1>7 DEF SumOver
<1>14. QED
  BY <1>11, <1>12, <1>13

(* The busiest window: there is one, since no window has length zero.      *)
LEMMA BusierTransitive ==
    ASSUME NEW a \in Int, NEW b \in Int, NEW c \in Int,
           NEW x \in Nat \ {0}, NEW y \in Nat \ {0}, NEW z \in Nat \ {0},
           a * y <= b * x, b * z <= c * y
    PROVE  a * z <= c * x
<1>1. (a * y) * z <= (b * x) * z
  OBVIOUS
<1>2. (b * z) * x <= (c * y) * x
  OBVIOUS
<1>3. (b * x) * z = (b * z) * x /\ (a * y) * z = (a * z) * y /\ (c * y) * x = (c * x) * y
  OBVIOUS
<1>4. (a * z) * y <= (c * x) * y
  <2>1. a * y \in Int /\ b * x \in Int /\ b * z \in Int /\ c * y \in Int
    OBVIOUS
  <2>2. (a * y) * z \in Int /\ (b * x) * z \in Int /\ (c * y) * x \in Int
    BY <2>1
  <2>3. QED
    BY <1>1, <1>2, <1>3, <2>2
<1>5. a * z \in Int /\ c * x \in Int
  OBVIOUS
<1> DEFINE u == a * z  v == c * x
<1>6. u \in Int /\ v \in Int /\ u * y <= v * y
  BY <1>4, <1>5
<1> HIDE DEF u, v
<1>7. u <= v
  BY <1>6
<1>8. QED
  BY <1>7 DEF u, v

LEMMA BusiestExists ==
    ASSUME NEW K, IsFiniteSet(K), K # {}, NEW w,
           \A i \in K : w[i].cpu \in Int /\ w[i].wall \in Nat \ {0}
    PROVE  \E i \in K : \A j \in K : ~Busier(w[j], w[i])
<1> DEFINE Q == {A \in SUBSET K : A = {} \/ \E i \in A : \A j \in A : ~Busier(w[j], w[i])}
<1>1. {} \in Q
  OBVIOUS
<1>2. \A i, j \in K : ~Busier(w[j], w[i]) <=> w[j].cpu * w[i].wall <= w[i].cpu * w[j].wall
  <2> SUFFICES ASSUME NEW i \in K, NEW j \in K
               PROVE  ~Busier(w[j], w[i]) <=> w[j].cpu * w[i].wall <= w[i].cpu * w[j].wall
    OBVIOUS
  <2>1. w[j].cpu * w[i].wall \in Int /\ w[i].cpu * w[j].wall \in Int
    OBVIOUS
  <2>2. QED
    BY <2>1 DEF Busier
<1>3. \A i \in K : ~Busier(w[i], w[i])
  <2> SUFFICES ASSUME NEW i \in K PROVE ~Busier(w[i], w[i])
    OBVIOUS
  <2>1. w[i].cpu * w[i].wall \in Int
    OBVIOUS
  <2>2. QED
    BY <1>2, <2>1
<1>4. ASSUME NEW A \in Q, NEW x \in K \ A PROVE A \cup {x} \in Q
  <2>1. CASE A = {}
    BY <1>3, <2>1
  <2>2. CASE A # {}
    <3>1. PICK i \in A : \A j \in A : ~Busier(w[j], w[i])
      BY <2>2
    <3>2. CASE ~Busier(w[x], w[i])
      BY <3>1, <3>2
    <3>3. CASE Busier(w[x], w[i])
      <4>1. w[i].cpu * w[x].wall <= w[x].cpu * w[i].wall
        <5>1. w[i].cpu * w[x].wall \in Int /\ w[x].cpu * w[i].wall \in Int
          BY <3>1
        <5>2. QED
          BY <3>3, <5>1 DEF Busier
      <4>2. ASSUME NEW j \in A PROVE ~Busier(w[j], w[x])
        <5>1. w[j].cpu * w[i].wall <= w[i].cpu * w[j].wall
          BY <1>2, <3>1
        <5>2. w[j].cpu * w[x].wall <= w[x].cpu * w[j].wall
          <6>1. /\ w[i].cpu \in Int /\ w[j].cpu \in Int /\ w[x].cpu \in Int
                /\ w[i].wall \in Nat \ {0} /\ w[j].wall \in Nat \ {0} /\ w[x].wall \in Nat \ {0}
            BY <3>1
          <6> HIDE DEF Q
          <6>2. QED
            BY <4>1, <5>1, <6>1, BusierTransitive
        <5>3. QED
          BY <1>2, <5>2
      <4>3. QED
        BY <1>3, <4>2
    <3>4. QED
      BY <3>2, <3>3
  <2>3. QED
    BY <2>1, <2>2
<1>5. Q \in SUBSET SUBSET K
  OBVIOUS
<1>6. K \in Q
  <2> HIDE DEF Q
  <2>1. \A A \in SUBSET K : A \in Q
    BY <1>1, <1>4, <1>5, SetInduction
  <2>2. QED
    BY <2>1
<1>7. QED
  BY <1>6

(* The first tick far enough from a start is a tick of the run.            *)
LEMMA FirstReached ==
    ASSUME NEW n \in Nat, NEW S \in SUBSET (1..n), S # {}
    PROVE  Min(S) \in S
<1>1. S \in SUBSET Nat
  OBVIOUS
<1>2. PICK x \in S : \A y \in S : x <= y
  BY <1>1, LeastExists
<1>3. Min(S) \in S /\ \A y \in S : Min(S) <= y
  BY <1>2 DEF Min
<1>4. QED
  BY <1>3

LEMMA BusiestIsWithin ==
    ASSUME SeriesInv, Ticks # 0, NEW from \in 1..Ticks, NEW subset
    PROVE  LET w == BusiestCpuWindow(subset, from)
           IN  /\ w.cpu <= CpuBetween(from, Ticks, subset)
               /\ w.wall <= series[Ticks].t - series[from].t
               /\ IF w.full THEN w.cpu = CpuBetween(from, Ticks, subset) ELSE w.wall >= Target
<1> DEFINE reach(i) == {j \in i..Ticks : series[j].t - series[i].t >= Target}
           K == {k \in from..(Ticks - 1) : reach(k) # {}}
           w == [i \in K |-> Window(i, Min(reach(i)), subset)]
           found == Windows(subset, from)
<1>1. Grows(series) /\ Ticks = Len(series) /\ Ticks \in Nat /\ Ticks \in 1..Ticks
      /\ Target \in Nat \ {0}
  BY SamplerAssumptions DEF SeriesInv, Ticks, Grows
<1>2. \A i \in 1..Ticks : series[i].t \in Nat
  BY <1>1, TickOf
<1>3. found = {w[i] : i \in K}
  BY DEF Windows
<1>4. ASSUME NEW i \in K
      PROVE  \E j \in i..Ticks :
               /\ w[i] = [cpu |-> CpuBetween(i, j, subset), wall |-> series[j].t - series[i].t, full |-> FALSE]
               /\ series[j].t - series[i].t >= Target
               /\ i \in 1..Ticks /\ from <= i
  <2>1. i \in 1..Ticks /\ from <= i /\ reach(i) # {}
    BY <1>1
  <2>2. reach(i) \in SUBSET (1..Ticks)
    BY <1>1, <2>1
  <2>3. PICK j : j = Min(reach(i))
    OBVIOUS
  <2>4. j \in reach(i)
    <3>1. PICK S \in SUBSET (1..Ticks) : S = reach(i)
      BY <2>2
    <3>2. Min(S) \in S
      BY <1>1, <2>1, <3>1, FirstReached
    <3>3. QED
      BY <2>3, <3>1, <3>2
  <2>5. w[i] = [cpu |-> CpuBetween(i, j, subset), wall |-> series[j].t - series[i].t, full |-> FALSE]
    BY <2>3 DEF Window
  <2>6. QED
    BY <2>1, <2>4, <2>5
<1> HIDE DEF found, w
<1>5. ASSUME NEW i \in K
      PROVE  /\ w[i].cpu \in Int /\ w[i].wall \in Nat \ {0}
             /\ w[i].cpu <= CpuBetween(from, Ticks, subset)
             /\ w[i].wall <= series[Ticks].t - series[from].t
             /\ w[i].full = FALSE /\ w[i].wall >= Target
  <2>1. PICK j \in i..Ticks :
               /\ w[i] = [cpu |-> CpuBetween(i, j, subset), wall |-> series[j].t - series[i].t, full |-> FALSE]
               /\ series[j].t - series[i].t >= Target
               /\ i \in 1..Ticks /\ from <= i
    BY <1>4
  <2>2. j \in 1..Ticks /\ i \in 1..j /\ from \in 1..i /\ i \in 1..Ticks /\ from \in 1..Ticks
    BY <1>1, <2>1
  <2>3. /\ SumOver(series, i, j, pids, subset) \in Int
        /\ SumOver(series, i, j, pids, subset) <= SumOver(series, from, Ticks, pids, subset)
    BY <1>1, <2>2, SumOverGrows
  <2>4. /\ CpuBetween(i, j, subset) = SumOver(series, i, j, pids, subset)
        /\ CpuBetween(from, Ticks, subset) = SumOver(series, from, Ticks, pids, subset)
    BY <1>1, <2>2, CpuBetweenIs
  <2>5. series[from].t <= series[i].t /\ series[j].t <= series[Ticks].t
    BY <1>1, <2>2 DEF Grows
  <2>6. series[from].t \in Nat /\ series[i].t \in Nat /\ series[j].t \in Nat /\ series[Ticks].t \in Nat
    BY <1>1, <1>2, <2>2
  <2>7. /\ series[j].t - series[i].t <= series[Ticks].t - series[from].t
        /\ series[j].t - series[i].t \in Nat \ {0}
    BY <1>1, <2>1, <2>5, <2>6
  <2>8. QED
    BY <2>1, <2>3, <2>4, <2>7
<1>6. IsFiniteSet(K)
  <2>1. IsFiniteSet(1..Ticks)
    BY <1>1, FS_Interval
  <2>2. K \in SUBSET (1..Ticks)
    BY <1>1
  <2> HIDE DEF K
  <2>3. QED
    BY <2>1, <2>2, FS_Subset
<1>7. CASE found = {}
  <2>1. BusiestCpuWindow(subset, from)
          = [cpu |-> CpuBetween(from, Ticks, subset), wall |-> series[Ticks].t - series[from].t, full |-> TRUE]
    BY <1>7 DEF BusiestCpuWindow, Window, found
  <2>2. CpuBetween(from, Ticks, subset) \in Int
    <3>1. Ticks \in 1..Len(series) /\ Ticks \in 1..Ticks /\ from \in 1..Ticks /\ from \in 1..from
      BY <1>1
    <3>2. SumOver(series, from, Ticks, pids, subset) \in Int
      BY <1>1, <3>1, SumOverGrows
    <3>3. QED
      BY <1>1, <3>2, CpuBetweenIs
  <2>3. series[Ticks].t - series[from].t \in Int
    BY <1>1, <1>2
  <2>4. QED
    BY <2>1, <2>2, <2>3
<1>8. CASE found # {}
  <2>1. K # {}
    BY <1>3, <1>8
  <2> HIDE DEF K
  <2>2. PICK i \in K : \A j \in K : ~Busier(w[j], w[i])
    BY <1>5, <1>6, <2>1, BusiestExists
  <2>3. \E u \in found : \A v \in found : ~Busier(v, u)
    BY <1>3, <2>2
  <2>4. BusiestCpuWindow(subset, from) = CHOOSE u \in found : \A v \in found : ~Busier(v, u)
    BY <1>8 DEF BusiestCpuWindow, found
  <2>5. BusiestCpuWindow(subset, from) \in found
    BY <2>3, <2>4
  <2>6. PICK k \in K : BusiestCpuWindow(subset, from) = w[k]
    BY <1>3, <2>5
  <2>7. QED
    BY <1>5, <2>6
<1>9. QED
  BY <1>7, <1>8

LEMMA RolesAreFinite ==
    /\ IsFiniteSet(WorkerRoles) /\ IsFiniteSet(ServerRoles)
    /\ WorkerRoles \subseteq Roles /\ ServerRoles \subseteq Roles
<1>1. /\ IsFiniteSet({})
      /\ WorkerRoles = ((({} \cup {"worker-main"}) \cup {"worker-inference"}) \cup {"worker-job"})
                          \cup {"worker-launcher"}
      /\ ServerRoles = ({} \cup {"server"}) \cup {"server-launcher"}
  BY FS_EmptySet DEF WorkerRoles, ServerRoles
<1>2. \A S, x : IsFiniteSet(S) => IsFiniteSet(S \cup {x})
  BY FS_AddElement
<1>3. IsFiniteSet(WorkerRoles) /\ IsFiniteSet(ServerRoles)
  BY <1>1, <1>2
<1>4. QED
  BY <1>3 DEF Roles

LEMMA ZeroSum ==
    ASSUME NEW S, IsFiniteSet(S), NEW f, f = [x \in S |-> 0]
    PROVE  SumFunction(f) = 0
<1>1. f \in [S -> Int]
  OBVIOUS
<1>2. PICK g : Adds(f, S, g) /\ SumFunction(f) = g[S]
  BY <1>1, SumFunctionAdds
<1>3. PICK T \in SUBSET S : T = {}
  OBVIOUS
<1>4. SumFunction([x \in T |-> f[x]]) = SumFunction(f)
  BY <1>1, ZerosLeftOut
<1>5. SumFunction([x \in T |-> f[x]]) = g[T]
  BY <1>1, <1>2, PartAdds
<1>6. g[T] = 0
  BY <1>2, <1>3 DEF Adds
<1>7. QED
  BY <1>4, <1>5, <1>6

LEMMA ReportIs ==
    ASSUME SeriesInv, BooksInv, NEW warned, NEW rep, rep = MakeReport(warned)
    PROVE  /\ \A r \in Roles : rep.cpu[r] = Charged(books, pids, r)
           /\ WithinLoad(rep)
<1>1. /\ \A r \in Roles : rep.cpu[r] = IF Ticks = 0 THEN 0 ELSE CpuBetween(From, Ticks, {r})
      /\ rep.wall = IF Ticks = 0 THEN 0 ELSE series[Ticks].t - series[From].t
      /\ \A s \in {WorkerRoles, ServerRoles} : rep.steady[s] = BusiestCpuWindow(s, From)
  BY DEF MakeReport
<1>2. Grows(series) /\ Ticks \in Nat /\ Ticks = Len(series)
  BY DEF SeriesInv, Ticks, Grows
<1>3. \A p \in Pids : books[p].seen \in Nat /\ books[p].base \in Nat
  BY DEF BooksInv
<1>4. CASE Ticks = 0
  <2>1. ASSUME NEW r \in Roles PROVE Charged(books, pids, r) = 0
    <3>1. PICK S : S = {q \in Pids : pids[q] \in {r}}
      OBVIOUS
    <3>2. S \in SUBSET Pids
      BY <3>1
    <3>3. IsFiniteSet(S)
      BY <3>2, FS_Subset, SamplerAssumptions
    <3>4. \A p \in S : books[p].seen - books[p].base = 0
      <4>1. \A p \in Pids : LastOf(series, p, 0) = 0
        BY DEF LastOf, SeenIn
      <4>2. \A p \in Pids : books[p].seen = 0 /\ books[p].base = 0
        BY <1>4, <4>1 DEF BooksInv
      <4>3. QED
        BY <3>2, <4>2
    <3>5. PICK f : f = [p \in S |-> books[p].seen - books[p].base]
      OBVIOUS
    <3>6. f = [p \in S |-> 0]
      BY <3>4, <3>5
    <3>7. SumFunction(f) = 0
      BY <3>3, <3>6, ZeroSum
    <3>8. QED
      BY <3>1, <3>5, <3>7 DEF Charged
  <2>2. ASSUME NEW s \in {WorkerRoles, ServerRoles}
        PROVE  SumFunction([r \in s |-> rep.cpu[r]]) = 0
    <3>1. IsFiniteSet(s) /\ s \subseteq Roles
      BY RolesAreFinite
    <3>2. PICK f : f = [r \in s |-> rep.cpu[r]]
      OBVIOUS
    <3>3. f = [r \in s |-> 0]
      BY <1>1, <1>4, <3>1, <3>2
    <3>4. SumFunction(f) = 0
      BY <3>1, <3>3, ZeroSum
    <3>5. QED
      BY <3>2, <3>4
  <2>3. \A s \in {WorkerRoles, ServerRoles} : rep.steady[s] = [cpu |-> 0, wall |-> 0, full |-> TRUE]
    BY <1>1, <1>4 DEF BusiestCpuWindow
  <2>4. rep.wall = 0
    BY <1>1, <1>4
  <2>5. WithinLoad(rep)
    BY <2>2, <2>3, <2>4 DEF WithinLoad
  <2>6. QED
    BY <1>1, <1>4, <2>1, <2>5
<1>5. CASE Ticks # 0
  <2>1. From \in 1..Ticks /\ Ticks \in 1..Ticks
    BY <1>2, <1>5 DEF BooksInv, From
  <2>2. \A s : CpuBetween(From, Ticks, s) = SumOver(series, From, Ticks, pids, s)
    BY <2>1, CpuBetweenIs
  <2>3. PICK f : f = Rises(series, From, Ticks)
    OBVIOUS
  <2>4. f \in [Pids -> Int]
    BY <1>2, <2>1, <2>3, RisesAre
  <2>5. ASSUME NEW r \in Roles PROVE rep.cpu[r] = Charged(books, pids, r)
    <3>1. rep.cpu[r] = SumOver(series, From, Ticks, pids, {r})
      BY <1>1, <1>5, <2>2
    <3>2. ASSUME NEW p \in Pids PROVE Rises(series, From, Ticks)[p] = books[p].seen - books[p].base
      <4>1. Rises(series, From, Ticks)[p] = LastOf(series, p, Ticks) - LastOf(series, p, From)
        BY <1>2, <2>1, RisesAre
      <4>2. books[p].seen = LastOf(series, p, Ticks) /\ books[p].base = LastOf(series, p, From)
        BY <1>5 DEF BooksInv
      <4>3. QED
        BY <4>1, <4>2
    <3>3. [p \in {q \in Pids : pids[q] \in {r}} |-> Rises(series, From, Ticks)[p]]
            = [p \in {q \in Pids : pids[q] \in {r}} |-> books[p].seen - books[p].base]
      BY <3>2
    <3>4. QED
      BY <3>1, <3>3 DEF SumOver, Charged
  <2>6. ASSUME NEW s \in {WorkerRoles, ServerRoles}
        PROVE  SumFunction([r \in s |-> rep.cpu[r]]) = CpuBetween(From, Ticks, s)
    <3>1. IsFiniteSet(s) /\ s \subseteq Roles
      BY RolesAreFinite
    <3>2. \A r \in s : rep.cpu[r] = SumFunction([x \in {y \in Pids : pids[y] \in {r}} |-> f[x]])
      BY <1>1, <1>5, <2>2, <2>3, <3>1 DEF SumOver
    <3>3. [r \in s |-> rep.cpu[r]]
            = [r \in s |-> SumFunction([x \in {y \in Pids : pids[y] \in {r}} |-> f[x]])]
      BY <3>2
    <3>4. SumFunction([r \in s |-> SumFunction([x \in {y \in Pids : pids[y] \in {r}} |-> f[x]])])
            = SumFunction([x \in {y \in Pids : pids[y] \in s} |-> f[x]])
      BY <2>4, <3>1, SamplerAssumptions, SumOfSums
    <3>5. CpuBetween(From, Ticks, s) = SumFunction([x \in {y \in Pids : pids[y] \in s} |-> f[x]])
      BY <2>2, <2>3 DEF SumOver
    <3>6. QED
      BY <3>3, <3>4, <3>5
  <2>7. ASSUME NEW s \in {WorkerRoles, ServerRoles}
        PROVE  LET w == rep.steady[s]
               IN  /\ w.cpu <= CpuBetween(From, Ticks, s) /\ w.wall <= rep.wall
                   /\ IF w.full THEN w.cpu = CpuBetween(From, Ticks, s) ELSE w.wall >= Target
    <3>1. rep.steady[s] = BusiestCpuWindow(s, From) /\ rep.wall = series[Ticks].t - series[From].t
      BY <1>1, <1>5
    <3>2. PICK w : w = BusiestCpuWindow(s, From)
      OBVIOUS
    <3>3. /\ w.cpu <= CpuBetween(From, Ticks, s) /\ w.wall <= series[Ticks].t - series[From].t
          /\ IF w.full THEN w.cpu = CpuBetween(From, Ticks, s) ELSE w.wall >= Target
      BY <1>5, <2>1, <3>2, BusiestIsWithin
    <3>4. QED
      BY <3>1, <3>2, <3>3
  <2>8. WithinLoad(rep)
    BY <2>6, <2>7 DEF WithinLoad
  <2>9. QED
    BY <2>5, <2>8
<1>6. QED
  BY <1>4, <1>5

LEMMA SampleStep == SampleInv /\ ~PidReuse /\ [Next]_vars => SampleInv'
<1> SUFFICES ASSUME SampleInv, ~PidReuse, [Next]_vars PROVE SampleInv'
  OBVIOUS
<1>1. StopInv'
  BY StopStep DEF SampleInv
<1>2. ASSUME UNCHANGED <<os, pids, series, markIndex, books>>
      PROVE  HostInv' /\ SeriesInv' /\ BooksInv'
  <2>1. HostInv'
    BY <1>2 DEF SampleInv, HostInv
  <2>2. SeriesInv'
    BY <1>2 DEF SampleInv, SeriesInv, Ticks
  <2>3. BooksInv'
    BY <1>2, BooksAlone DEF SampleInv
  <2>4. QED
    BY <2>1, <2>2, <2>3
<1>3. CASE UNCHANGED <<os, pids, series, markIndex, books, report>>
  BY <1>1, <1>2, <1>3, ReportAlone DEF SampleInv
<1>4. CASE Mark /\ phase \notin {"check", "over"}
  BY <1>1, <1>4, MarkStep DEF SampleInv
<1>5. CASE WriteReport
  <2>1. UNCHANGED <<os, pids, series, markIndex, books>> /\ report' = MakeReport(closing = "warned")
    BY <1>5 DEF WriteReport
  <2>2. PICK rep : rep = MakeReport(closing = "warned")
    OBVIOUS
  <2>3. (\A r \in Roles : rep.cpu[r] = Charged(books, pids, r)) /\ WithinLoad(rep)
    BY <2>2, ReportIs DEF SampleInv
  <2>4. ReportInv'
    BY <2>1, <2>2, <2>3 DEF ReportInv
  <2>5. QED
    BY <1>1, <1>2, <2>1, <2>4 DEF SampleInv
<1>6. CASE StopSampler \/ UNCHANGED svars
  <2>1. UNCHANGED <<os, pids, series, markIndex, books, report>>
    BY <1>6 DEF StopSampler, svars
  <2>2. QED
    BY <1>3, <2>1
<1>7. CASE Measured
  <2>1. ASSUME NEW p \in Pids, (\E c \in Commands : Spawn(p, c)) \/ Work(p) \/ Exit(p)
        PROVE  SampleInv'
    <3>1. HostInv' /\ SeriesInv' /\ UNCHANGED <<series, markIndex, books, report, pids, closing>>
      BY <2>1, HostStep DEF SampleInv
    <3>2. BooksInv' /\ ReportInv'
      BY <3>1, BooksAlone, ReportAlone DEF SampleInv
    <3>3. QED
      BY <1>1, <3>1, <3>2 DEF SampleInv
  <2>2. ASSUME NEW gap \in Gaps, Ingest(gap) PROVE SampleInv'
    BY <1>1, <2>2, IngestStep DEF SampleInv
  <2>3. ASSUME (\E c \in Watched : ContainerWorks(c)) \/ PollContainers
                  \/ \E readable \in SUBSET up : PollStats(readable)
        PROVE  SampleInv'
    <3>1. UNCHANGED <<os, pids, series, markIndex, books, report>>
      BY <2>3 DEF ContainerWorks, PollContainers, PollStats
    <3>2. QED
      BY <1>3, <3>1
  <2>4. QED
    BY <1>7, <2>1, <2>2, <2>3 DEF Measured
<1>8. QED
  BY <1>4, <1>5, <1>6, <1>7, SamplerSteps

(* Who has been named was named rightly; who has not was never seen.       *)
LEMMA ChargedRightly ==
    ASSUME SampleInv, NEW r \in Roles
    PROVE  Charged(books, pids, r)
             = SumFunction([p \in {q \in Pids : os[q].cmd # None /\ os[q].cmd.is = r} |->
                                books[p].seen - books[p].base])
<1>1. PICK S : S = {q \in Pids : os[q].cmd # None /\ os[q].cmd.is = r}
  OBVIOUS
<1>2. PICK T : T = {q \in Pids : pids[q] \in {r}}
  OBVIOUS
<1>3. IsFiniteSet(S)
  <2>1. S \in SUBSET Pids
    BY <1>1
  <2>2. QED
    BY <2>1, FS_Subset, SamplerAssumptions
<1>4. PICK f : f = [p \in S |-> books[p].seen - books[p].base]
  OBVIOUS
<1>5. \A p \in Pids : books[p].seen \in Nat /\ books[p].base \in Nat
  BY DEF SampleInv, BooksInv
<1>6. f \in [S -> Int]
  BY <1>1, <1>4, <1>5
<1>7. \A q \in Pids : os[q].cmd # None => os[q].cmd \in Commands
  BY DEF SampleInv, HostInv
<1>8. T \in SUBSET S
  <2> SUFFICES ASSUME NEW q \in T PROVE q \in S
    OBVIOUS
  <2>1. q \in Pids /\ pids[q] = r /\ r # None
    BY <1>2, SamplerAssumptions
  <2>2. os[q].cmd # None /\ Classify(os[q].cmd.words) = r
    BY <2>1 DEF SampleInv, HostInv
  <2>3. os[q].cmd.is = r
    BY <1>7, <2>1, <2>2, SamplerAssumptions
  <2>4. QED
    BY <1>1, <2>1, <2>2, <2>3
<1>9. ASSUME NEW q \in S \ T PROVE f[q] = 0
  <2>1. q \in Pids /\ os[q].cmd # None /\ os[q].cmd.is = r /\ pids[q] # r
    BY <1>1, <1>2
  <2>2. os[q].cmd \in Commands
    BY <1>7, <2>1
  <2>3. Classify(os[q].cmd.words) \in {r, None}
    BY <2>1, <2>2, SamplerAssumptions
  <2>4. pids[q] = None
    BY <2>1, <2>3 DEF SampleInv, HostInv
  <2>5. \A k \in 0..Ticks : LastOf(series, q, k) = 0
    <3> SUFFICES ASSUME NEW k \in 0..Ticks PROVE LastOf(series, q, k) = 0
      OBVIOUS
    <3>1. Ticks \in Nat
      BY DEF SampleInv, SeriesInv, Ticks, Grows
    <3>2. SeenIn(series, q, k) = {}
      BY <2>4, <3>1 DEF SampleInv, SeriesInv, SeenIn
    <3>3. QED
      BY <3>2 DEF LastOf
  <2>6. books[q].seen = 0 /\ books[q].base = 0
    <3>1. Ticks \in Nat
      BY DEF SampleInv, SeriesInv, Ticks, Grows
    <3>2. books[q].seen = LastOf(series, q, Ticks)
          /\ books[q].base = IF Ticks = 0 THEN 0 ELSE LastOf(series, q, From)
      BY <2>1 DEF SampleInv, BooksInv
    <3>3. Ticks # 0 => From \in 1..Ticks
      BY <3>1 DEF SampleInv, BooksInv, From
    <3>4. QED
      BY <2>5, <3>1, <3>2, <3>3
  <2>7. QED
    BY <1>4, <2>6
<1>10. SumFunction([p \in T |-> f[p]]) = SumFunction(f)
  BY <1>3, <1>6, <1>8, <1>9, ZerosLeftOut
<1>11. [p \in T |-> f[p]] = [p \in T |-> books[p].seen - books[p].base]
  BY <1>4, <1>8
<1>12. Charged(books, pids, r) = SumFunction([p \in T |-> books[p].seen - books[p].base])
  BY <1>2 DEF Charged
<1>13. QED
  BY <1>1, <1>4, <1>10, <1>11, <1>12

LEMMA SampleAttributes == SampleInv => CpuAttributed
<1> SUFFICES ASSUME SampleInv, report # None PROVE RolesCharged /\ WindowWithinLoad
  BY DEF CpuAttributed
<1>1. (\A r \in Roles : report.cpu[r] = Charged(books, pids, r)) /\ WithinLoad(report)
  BY DEF SampleInv, ReportInv
<1>2. RolesCharged
  BY <1>1, ChargedRightly DEF RolesCharged
<1>3. WindowWithinLoad
  BY <1>1 DEF WithinLoad, WindowWithinLoad
<1>4. QED
  BY <1>2, <1>3

(* Where ids are not handed out again, the CPU of a report is the load's: a*)
(* role is charged what its processes used between the mark and the last   *)
(* tick that saw each, and the busiest window lies within that.            *)
THEOREM CpuIsAttributed == ASSUME ~PidReuse PROVE Spec => []CpuAttributed
<1>1. Init => SampleInv
  BY SamplerInitially
<1>2. SampleInv /\ [Next]_vars => SampleInv'
  BY SampleStep
<1>3. SampleInv => CpuAttributed
  BY SampleAttributes
<1>4. QED
  BY <1>1, <1>2, <1>3, PTL DEF Spec

-----------------------------------------------------------------------------
(* One spoken call.                                                        *)

LEMMA Bounds ==
    /\ Hangover \in Nat \ {0} /\ Grace \in Nat /\ MaxSkew \in Nat /\ Endpointing \in Nat
    /\ MaxPause \in Nat /\ MaxReportDelay \in Nat
    /\ Splits \in BOOLEAN /\ Nil \notin Int
BY BorrowerAssumptions

USE Bounds

(* What the script holds: lines are spoken one after the other, and a reply*)
(* is awaited to the last that was spoken out.                             *)
LineInv ==
  /\ now \in Nat /\ next \in Nat
  /\ borrowerEvents \in Seq([kind : {"line"}, start : Nat, end : Nat])
  /\ turnLatencies \in Seq([turn : Nat, at : Nat, ms : Nat])
  /\ unansweredTurns \in Seq(Nat)
  /\ speaking # Nil => speaking \in 0..now
  /\ next = Len(borrowerEvents) + (IF speaking = Nil THEN 0 ELSE 1)
  /\ reply # Nil => /\ reply \in [turn : Nat, at : Nat, audioAt : Nat \cup {Nil}]
                    /\ reply.turn = Len(borrowerEvents) /\ reply.at <= now

Answered(k) == \E i \in 1..Len(turnLatencies) : turnLatencies[i].turn = k
Unanswered(k) == \E i \in 1..Len(unansweredTurns) : unansweredTurns[i] = k
Pending(k) == reply # Nil /\ reply.turn = k

(* The books: as many entries as lines, every line among them, and the one *)
(* still pending in neither list.                                           *)
BookInv ==
  /\ Len(turnLatencies) + Len(unansweredTurns) + (IF reply = Nil THEN 0 ELSE 1) = Len(borrowerEvents)
  /\ \A k : Answered(k) \/ Unanswered(k) \/ Pending(k) <=> k \in 1..Len(borrowerEvents)
  /\ \A k : Pending(k) => ~Answered(k) /\ ~Unanswered(k)

(* The transcripts: one row per line begun, the last of them perhaps open. *)
WerInv ==
  /\ werLines \in Seq([turn : Nat, at : Nat \cup {Nil}, parts : Nat])
  /\ \A i \in 1..Len(werLines) : werLines[i].turn = i
  /\ currentLine # Nil => /\ currentLine \in [turn : Nat, parts : Nat, closedAt : Nat \cup {Nil}]
                          /\ currentLine.turn = next
  /\ Len(werLines) + (IF currentLine = Nil THEN 0 ELSE 1) = next
  /\ speaking # Nil => currentLine # Nil
  /\ over # Nil /\ ~over.failed => reply = Nil /\ currentLine = Nil /\ speaking = Nil

ScriptInv == LineInv /\ BookInv /\ WerInv

(* What is in a sequence that grew.                                        *)
LEMMA InAppend ==
    ASSUME NEW S, NEW s \in Seq(S), NEW e \in S
    PROVE  /\ Append(s, e) \in Seq(S) /\ Len(Append(s, e)) = Len(s) + 1 /\ Len(s) \in Nat
           /\ \A i \in 1..Len(s) : Append(s, e)[i] = s[i]
           /\ Append(s, e)[Len(s) + 1] = e
           /\ \A i \in 1..Len(Append(s, e)) : i \in 1..Len(s) \/ i = Len(s) + 1
<1>1. /\ Append(s, e) \in Seq(S) /\ Len(Append(s, e)) = Len(s) + 1 /\ Len(s) \in Nat
      /\ \A i \in 1..Len(s) : Append(s, e)[i] = s[i]
      /\ Append(s, e)[Len(s) + 1] = e
  OBVIOUS
<1>2. QED
  BY <1>1

Has(s, k) == \E i \in 1..Len(s) : s[i] = k

LEMMA InConcat ==
    ASSUME NEW S, NEW s \in Seq(S), NEW t \in Seq(S), NEW k
    PROVE  Has(s \o t, k) <=> Has(s, k) \/ Has(t, k)
<1>1. /\ Len(s \o t) = Len(s) + Len(t) /\ Len(s) \in Nat /\ Len(t) \in Nat
      /\ \A i \in 1..Len(s) + Len(t) : (s \o t)[i] = IF i <= Len(s) THEN s[i] ELSE t[i - Len(s)]
  BY ConcatProperties, LenProperties
<1>2. ASSUME NEW i \in 1..Len(s), s[i] = k
      PROVE  \E j \in 1..Len(s \o t) : (s \o t)[j] = k
  <2>1. i \in 1..Len(s) + Len(t) /\ i <= Len(s)
    BY <1>1
  <2>2. QED
    BY <1>1, <1>2, <2>1
<1>3. ASSUME NEW i \in 1..Len(t), t[i] = k
      PROVE  \E j \in 1..Len(s \o t) : (s \o t)[j] = k
  <2>1. i + Len(s) \in 1..Len(s) + Len(t) /\ ~(i + Len(s) <= Len(s)) /\ i + Len(s) - Len(s) = i
    BY <1>1
  <2>2. (s \o t)[i + Len(s)] = t[i]
    BY <1>1, <2>1
  <2>3. QED
    BY <1>1, <1>3, <2>1, <2>2
<1>4. ASSUME NEW i \in 1..Len(s \o t), (s \o t)[i] = k
      PROVE  (\E j \in 1..Len(s) : s[j] = k) \/ (\E j \in 1..Len(t) : t[j] = k)
  <2>1. CASE i <= Len(s)
    <3>1. i \in 1..Len(s) /\ (s \o t)[i] = s[i]
      BY <1>1, <2>1
    <3>2. QED
      BY <1>4, <3>1
  <2>2. CASE ~(i <= Len(s))
    <3>1. i - Len(s) \in 1..Len(t) /\ (s \o t)[i] = t[i - Len(s)]
      BY <1>1, <2>2
    <3>2. QED
      BY <1>4, <3>1
  <2>3. QED
    BY <2>1, <2>2
<1>5. QED
  BY <1>2, <1>3, <1>4 DEF Has

LEMMA ScriptInitially == BInit => ScriptInv
<1> SUFFICES ASSUME BInit PROVE ScriptInv
  OBVIOUS
<1>1. LineInv
  BY DEF BInit, LineInv
<1>2. BookInv
  BY DEF BInit, BookInv, Answered, Unanswered, Pending
<1>3. WerInv
  BY DEF BInit, WerInv
<1>4. QED
  BY <1>1, <1>2, <1>3 DEF ScriptInv

LEMMA ScriptAlone ==
    ASSUME ScriptInv, UNCHANGED <<now, borrower, measures, over>>
    PROVE  ScriptInv'
<1>1. UNCHANGED <<now, next, speaking, currentLine, borrowerEvents, reply, turnLatencies,
                  unansweredTurns, werLines, over>>
  BY DEF borrower, measures
<1>2. QED
  BY <1>1 DEF ScriptInv, LineInv, BookInv, WerInv, Answered, Unanswered, Pending

LEMMA FrameScript ==
    ASSUME ScriptInv, NEW loud \in BOOLEAN, Frame(loud)
    PROVE  ScriptInv'
<1>1. /\ UNCHANGED <<next, speaking, currentLine, borrowerEvents, turnLatencies,
                     unansweredTurns, werLines, over>>
      /\ now \in Nat /\ now' = now + 1
  BY DEF Frame, borrower, ScriptInv, LineInv
<1>2. /\ reply = Nil <=> reply' = Nil
      /\ reply # Nil => /\ reply' \in [turn : Nat, at : Nat, audioAt : Nat \cup {Nil}]
                        /\ reply'.turn = reply.turn /\ reply'.at = reply.at
  <2>1. CASE reply' = reply
    BY <2>1 DEF ScriptInv, LineInv
  <2>2. CASE reply # Nil /\ reply' = [reply EXCEPT !.audioAt = now]
    <3>1. reply' \in [turn : Nat, at : Nat, audioAt : Nat \cup {Nil}] /\ reply'.turn = reply.turn /\ reply'.at = reply.at
      BY <1>1, <2>2 DEF ScriptInv, LineInv
    <3>2. reply' # Nil
      BY <3>1, BorrowerAssumptions
    <3>3. QED
      BY <2>2, <3>1, <3>2
  <2>3. QED
    BY <2>1, <2>2 DEF Frame
<1>3. LineInv'
  BY <1>1, <1>2 DEF ScriptInv, LineInv
<1>4. BookInv'
  BY <1>1, <1>2 DEF ScriptInv, BookInv, Answered, Unanswered, Pending
<1>5. WerInv'
  BY <1>1, <1>2 DEF ScriptInv, WerInv
<1>6. QED
  BY <1>3, <1>4, <1>5 DEF ScriptInv

LEMMA DeltaScript ==
    ASSUME ScriptInv, Delta
    PROVE  ScriptInv'
<1> DEFINE row == [turn |-> reply.turn, at |-> reply.at, ms |-> now - reply.at]
<1>1. /\ UNCHANGED <<now, next, speaking, currentLine, borrowerEvents, unansweredTurns, werLines, over>>
      /\ reply # Nil /\ reply' = Nil /\ turnLatencies' = Append(turnLatencies, row)
  BY DEF Delta, borrower
<1>2. /\ row \in [turn : Nat, at : Nat, ms : Nat] /\ row.turn = reply.turn
      /\ reply.turn = Len(borrowerEvents)
  BY <1>1 DEF ScriptInv, LineInv
<1> HIDE DEF row
<1>3. /\ turnLatencies' \in Seq([turn : Nat, at : Nat, ms : Nat])
      /\ Len(turnLatencies') = Len(turnLatencies) + 1
      /\ \A i \in 1..Len(turnLatencies) : turnLatencies'[i] = turnLatencies[i]
      /\ turnLatencies'[Len(turnLatencies) + 1] = row
  BY <1>1, <1>2 DEF ScriptInv, LineInv
<1>4. LineInv'
  BY <1>1, <1>3 DEF ScriptInv, LineInv
<1>5. Len(turnLatencies) \in Nat
  BY DEF ScriptInv, LineInv
<1>6. ASSUME NEW k PROVE Answered(k)' <=> Answered(k) \/ Pending(k)
  <2>1. Answered(k)' <=> \E i \in 1..Len(turnLatencies) + 1 : turnLatencies'[i].turn = k
    BY <1>3 DEF Answered
  <2>2. \A i \in 1..Len(turnLatencies) + 1 : i \in 1..Len(turnLatencies) \/ i = Len(turnLatencies) + 1
    BY <1>5
  <2>3. \A i \in 1..Len(turnLatencies) : i \in 1..Len(turnLatencies) + 1
    BY <1>5
  <2>4. Len(turnLatencies) + 1 \in 1..Len(turnLatencies) + 1
    BY <1>5
  <2>5. Pending(k) <=> turnLatencies'[Len(turnLatencies) + 1].turn = k
    BY <1>1, <1>2, <1>3 DEF Pending
  <2>6. QED
    BY <1>3, <2>1, <2>2, <2>3, <2>4, <2>5 DEF Answered
<1>7. \A k : (Unanswered(k)' <=> Unanswered(k)) /\ ~Pending(k)'
  BY <1>1 DEF Unanswered, Pending
<1>8. BookInv'
  <2>1. Len(turnLatencies') + Len(unansweredTurns') + (IF reply' = Nil THEN 0 ELSE 1) = Len(borrowerEvents')
    <3>1. Len(turnLatencies) + Len(unansweredTurns) + 1 = Len(borrowerEvents) /\ Len(unansweredTurns) \in Nat
      BY <1>1 DEF ScriptInv, BookInv, LineInv
    <3>2. QED
      BY <1>1, <1>3, <1>5, <3>1
  <2>2. \A k : Answered(k)' \/ Unanswered(k)' \/ Pending(k)' <=> k \in 1..Len(borrowerEvents)
    BY <1>6, <1>7 DEF ScriptInv, BookInv
  <2>3. QED
    BY <1>1, <1>7, <2>1, <2>2 DEF BookInv
<1>9. WerInv'
  BY <1>1 DEF ScriptInv, WerInv
<1>10. QED
  BY <1>4, <1>8, <1>9 DEF ScriptInv

LEMMA LineCloses ==
    ASSUME ScriptInv
    PROVE  /\ LineClosed \in Seq([turn : Nat, at : Nat \cup {Nil}, parts : Nat])
           /\ Len(LineClosed) = next
           /\ \A i \in 1..Len(LineClosed) : LineClosed[i].turn = i
<1>1. CASE currentLine = Nil
  BY <1>1 DEF LineClosed, ScriptInv, WerInv
<1>2. CASE currentLine # Nil
  <2> DEFINE row == [turn |-> currentLine.turn, at |-> currentLine.closedAt, parts |-> currentLine.parts]
  <2>1. row \in [turn : Nat, at : Nat \cup {Nil}, parts : Nat] /\ row.turn = next
    BY <1>2 DEF ScriptInv, WerInv
  <2>2. LineClosed = Append(werLines, row)
    BY <1>2 DEF LineClosed
  <2> HIDE DEF row
  <2>3. /\ werLines \in Seq([turn : Nat, at : Nat \cup {Nil}, parts : Nat])
        /\ Len(werLines) + 1 = next /\ Len(werLines) \in Nat
        /\ \A i \in 1..Len(werLines) : werLines[i].turn = i
    BY <1>2 DEF ScriptInv, WerInv
  <2>4. QED
    BY <2>1, <2>2, <2>3
<1>3. QED
  BY <1>1, <1>2

LEMMA SpeakStartsScript ==
    ASSUME ScriptInv, SpeakStarts
    PROVE  ScriptInv'
<1>1. /\ UNCHANGED <<now, borrowerEvents, reply, turnLatencies, unansweredTurns, over>>
      /\ over = Nil /\ speaking = Nil /\ next' = next + 1 /\ werLines' = LineClosed
      /\ currentLine' = [turn |-> next + 1, parts |-> 0, closedAt |-> Nil]
      /\ speaking' = now /\ now \in Nat /\ next \in Nat
  BY DEF SpeakStarts, On, ScriptInv, LineInv
<1>2. LineInv'
  BY <1>1 DEF ScriptInv, LineInv
<1>3. BookInv'
  BY <1>1 DEF ScriptInv, BookInv, Answered, Unanswered, Pending
<1>4. currentLine' \in [turn : Nat, parts : Nat, closedAt : Nat \cup {Nil}] /\ currentLine' # Nil
  <2>1. currentLine' \in [turn : Nat, parts : Nat, closedAt : Nat \cup {Nil}]
    BY <1>1
  <2>2. QED
    BY <2>1, BorrowerAssumptions
<1>5. WerInv'
  BY <1>1, <1>4, LineCloses DEF WerInv
<1>6. QED
  BY <1>2, <1>3, <1>5 DEF ScriptInv

(* Giving up a pending reply moves it to the unanswered.                   *)
LEMMA AbandonBooks ==
    ASSUME ScriptInv, unansweredTurns' = Abandoned
    PROVE  /\ unansweredTurns' \in Seq(Nat)
           /\ Len(unansweredTurns') = Len(unansweredTurns) + (IF reply = Nil THEN 0 ELSE 1)
           /\ \A k : Unanswered(k)' <=> Unanswered(k) \/ Pending(k)
<1>1. unansweredTurns \in Seq(Nat) /\ (reply # Nil => reply.turn \in Nat)
  BY DEF ScriptInv, LineInv
<1>2. CASE reply = Nil
  BY <1>1, <1>2 DEF Abandoned, Unanswered, Pending
<1>3. CASE reply # Nil
  <2>1. /\ unansweredTurns' = Append(unansweredTurns, reply.turn)
        /\ Len(unansweredTurns') = Len(unansweredTurns) + 1 /\ Len(unansweredTurns) \in Nat
        /\ \A i \in 1..Len(unansweredTurns) : unansweredTurns'[i] = unansweredTurns[i]
        /\ unansweredTurns'[Len(unansweredTurns) + 1] = reply.turn
        /\ unansweredTurns' \in Seq(Nat)
    BY <1>1, <1>3 DEF Abandoned
  <2>2. \A k : Unanswered(k)' <=> Unanswered(k) \/ Pending(k)
    BY <1>3, <2>1 DEF Unanswered, Pending
  <2>3. QED
    BY <1>3, <2>1, <2>2
<1>4. QED
  BY <1>2, <1>3

LEMMA SpeakEndsScript ==
    ASSUME ScriptInv, SpeakEnds
    PROVE  ScriptInv'
<1> DEFINE event == [kind |-> "line", start |-> speaking, end |-> now]
<1>1. /\ UNCHANGED <<now, next, turnLatencies, werLines, over>>
      /\ over = Nil /\ speaking # Nil /\ speaking' = Nil
      /\ borrowerEvents' = Append(borrowerEvents, event)
      /\ currentLine' = [currentLine EXCEPT !.closedAt = now]
      /\ unansweredTurns' = Abandoned
      /\ reply' = [turn |-> next, at |-> now, audioAt |-> Nil]
      /\ now \in Nat /\ next \in Nat /\ next = Len(borrowerEvents) + 1
  BY DEF SpeakEnds, On, ScriptInv, LineInv
<1>2. event \in [kind : {"line"}, start : Nat, end : Nat]
  BY <1>1 DEF ScriptInv, LineInv
<1> HIDE DEF event
<1>3. /\ borrowerEvents' \in Seq([kind : {"line"}, start : Nat, end : Nat])
      /\ Len(borrowerEvents') = Len(borrowerEvents) + 1 /\ Len(borrowerEvents) \in Nat
  BY <1>1, <1>2 DEF ScriptInv, LineInv
<1>4. /\ reply' # Nil /\ reply'.turn = next /\ reply'.at = now
      /\ reply' \in [turn : Nat, at : Nat, audioAt : Nat \cup {Nil}]
  <2>1. reply'.turn = next /\ reply'.at = now /\ reply' \in [turn : Nat, at : Nat, audioAt : Nat \cup {Nil}]
    BY <1>1
  <2>2. QED
    BY <2>1, BorrowerAssumptions
<1>5. LineInv'
  BY <1>1, <1>3, <1>4, AbandonBooks DEF ScriptInv, LineInv
<1>6. \A k : (Answered(k)' <=> Answered(k)) /\ (Pending(k)' <=> k = Len(borrowerEvents'))
  BY <1>1, <1>3, <1>4 DEF Answered, Pending
<1>7. Len(turnLatencies) \in Nat /\ Len(unansweredTurns) \in Nat
  BY DEF ScriptInv, LineInv
<1>8. /\ \A k : Answered(k) \/ Unanswered(k) \/ Pending(k) <=> k \in 1..Len(borrowerEvents)
      /\ Len(turnLatencies) + Len(unansweredTurns) + (IF reply = Nil THEN 0 ELSE 1) = Len(borrowerEvents)
  BY DEF ScriptInv, BookInv
<1>9. /\ Len(turnLatencies') + Len(unansweredTurns') + (IF reply' = Nil THEN 0 ELSE 1) = Len(borrowerEvents')
  <2>1. Len(unansweredTurns') = Len(unansweredTurns) + (IF reply = Nil THEN 0 ELSE 1)
    BY <1>1, AbandonBooks
  <2>2. Len(turnLatencies') = Len(turnLatencies)
    BY <1>1
  <2>3. reply' # Nil
    BY <1>4
  <2>4. Len(turnLatencies) + Len(unansweredTurns') = Len(borrowerEvents)
    BY <1>3, <1>7, <1>8, <2>1
  <2>5. Len(turnLatencies') + Len(unansweredTurns') + 1 = Len(borrowerEvents')
    BY <1>3, <2>2, <2>4
  <2>6. QED
    BY <2>3, <2>5
<1>10. \A k : Answered(k)' \/ Unanswered(k)' \/ Pending(k)' <=> k \in 1..Len(borrowerEvents')
  BY <1>3, <1>6, <1>8, AbandonBooks, <1>1
<1>11. BookInv'
  <2>1. ASSUME NEW k, Pending(k)' PROVE ~Answered(k)' /\ ~Unanswered(k)'
    <3>1. k = Len(borrowerEvents) + 1
      BY <1>3, <1>6, <2>1
    <3>2. ~(k \in 1..Len(borrowerEvents))
      BY <1>3, <3>1
    <3>3. QED
      BY <1>1, <1>6, <1>8, <3>2, AbandonBooks
  <2>2. QED
    BY <1>9, <1>10, <2>1 DEF BookInv
<1>12. /\ currentLine # Nil /\ currentLine' \in [turn : Nat, parts : Nat, closedAt : Nat \cup {Nil}]
       /\ currentLine' # Nil /\ currentLine'.turn = next
  <2>1. /\ currentLine # Nil /\ currentLine' \in [turn : Nat, parts : Nat, closedAt : Nat \cup {Nil}]
        /\ currentLine'.turn = next
    BY <1>1 DEF ScriptInv, WerInv
  <2>2. QED
    BY <2>1, BorrowerAssumptions
<1>13. WerInv'
  BY <1>1, <1>12 DEF ScriptInv, WerInv
<1>14. QED
  BY <1>5, <1>11, <1>13 DEF ScriptInv

LEMMA FinalScript ==
    ASSUME ScriptInv, Final
    PROVE  ScriptInv'
<1>1. /\ UNCHANGED <<now, next, speaking, borrowerEvents, reply, turnLatencies, unansweredTurns, werLines, over>>
      /\ \/ currentLine' = currentLine
         \/ currentLine # Nil /\ currentLine' = [currentLine EXCEPT !.parts = @ + 1]
  BY DEF Final
<1>2. /\ currentLine = Nil <=> currentLine' = Nil
      /\ currentLine # Nil => /\ currentLine' \in [turn : Nat, parts : Nat, closedAt : Nat \cup {Nil}]
                              /\ currentLine'.turn = currentLine.turn
                              /\ currentLine'.closedAt = currentLine.closedAt
  <2>1. CASE currentLine' = currentLine
    BY <2>1 DEF ScriptInv, WerInv
  <2>2. CASE currentLine # Nil /\ currentLine' = [currentLine EXCEPT !.parts = @ + 1]
    <3>1. currentLine \in [turn : Nat, parts : Nat, closedAt : Nat \cup {Nil}]
      BY <2>2 DEF ScriptInv, WerInv
    <3>2. currentLine.parts + 1 \in Nat
      BY <3>1
    <3>3. currentLine' = [turn |-> currentLine.turn, parts |-> currentLine.parts + 1, closedAt |-> currentLine.closedAt]
      BY <2>2, <3>1
    <3>4. currentLine' \in [turn : Nat, parts : Nat, closedAt : Nat \cup {Nil}]
      BY <3>1, <3>2, <3>3
    <3>5. currentLine' # Nil
      BY <3>4, BorrowerAssumptions
    <3>6. QED
      BY <2>2, <3>3, <3>4, <3>5
  <2>3. QED
    BY <1>1, <2>1, <2>2
<1>3. LineInv' /\ BookInv'
  BY <1>1 DEF ScriptInv, LineInv, BookInv, Answered, Unanswered, Pending
<1>4. WerInv'
  BY <1>1, <1>2 DEF ScriptInv, WerInv
<1>5. QED
  BY <1>3, <1>4 DEF ScriptInv

LEMMA EndScript ==
    ASSUME ScriptInv, ScriptEnds \/ CallFails
    PROVE  ScriptInv'
<1>1. CASE ScriptEnds
  <2>1. /\ UNCHANGED <<now, next, speaking, borrowerEvents, turnLatencies>>
        /\ unansweredTurns' = Abandoned /\ reply' = Nil /\ speaking = Nil
        /\ werLines' = LineClosed /\ currentLine' = Nil
    BY <1>1 DEF ScriptEnds
  <2>2. LineInv'
    BY <2>1, AbandonBooks DEF ScriptInv, LineInv
  <2>3. \A k : (Answered(k)' <=> Answered(k)) /\ ~Pending(k)'
    BY <2>1 DEF Answered, Pending
  <2>4. Len(turnLatencies) \in Nat /\ Len(unansweredTurns) \in Nat
    BY DEF ScriptInv, LineInv
  <2>5. BookInv'
    BY <2>1, <2>3, <2>4, AbandonBooks DEF ScriptInv, BookInv
  <2>6. WerInv'
    BY <2>1, LineCloses DEF WerInv, ScriptInv, LineInv
  <2>7. QED
    BY <2>2, <2>5, <2>6 DEF ScriptInv
<1>2. CASE CallFails
  <2>1. /\ UNCHANGED <<now, next, speaking, currentLine, borrowerEvents, reply, turnLatencies,
                       unansweredTurns, werLines>>
        /\ over' = [at |-> now, failed |-> TRUE]
    BY <1>2 DEF CallFails, borrower, measures
  <2>2. LineInv' /\ BookInv'
    BY <2>1 DEF ScriptInv, LineInv, BookInv, Answered, Unanswered, Pending
  <2>3. WerInv'
    BY <2>1 DEF ScriptInv, WerInv
  <2>4. QED
    BY <2>2, <2>3 DEF ScriptInv
<1>3. QED
  BY <1>1, <1>2

LEMMA ScriptStep == ScriptInv /\ [BNext]_bvars => ScriptInv'
<1> SUFFICES ASSUME ScriptInv, [BNext]_bvars PROVE ScriptInv'
  OBVIOUS
<1>1. CASE \/ AgentStarts \/ \E b \in BOOLEAN : AgentStops(b)
           \/ TurnStarts \/ \E i \in DOMAIN said : Report(i)
           \/ UNCHANGED bvars
  <2>1. UNCHANGED <<now, borrower, measures, over>>
    BY <1>1 DEF AgentStarts, AgentStops, TurnStarts, Report, bvars
  <2>2. QED
    BY <2>1, ScriptAlone
<1>2. QED
  BY <1>1, FrameScript, DeltaScript, SpeakStartsScript, SpeakEndsScript, FinalScript, EndScript DEF BNext

(* What the invariant says of the books as the property reads them: the    *)
(* lines settled are all that were spoken out, or all but the last.        *)
LEMMA BooksBalance ==
    ASSUME ScriptInv
    PROVE  /\ ToSet(Settled) = 1..Len(Settled)
           /\ Len(Settled) = Len(borrowerEvents) - (IF reply = Nil THEN 0 ELSE 1)
           /\ Len(borrowerEvents) \in Nat
<1> DEFINE A == [i \in DOMAIN turnLatencies |-> turnLatencies[i].turn]
<1>1. /\ A \in Seq(Nat) /\ Len(A) = Len(turnLatencies)
      /\ \A i \in 1..Len(turnLatencies) : A[i] = turnLatencies[i].turn
  <2>1. turnLatencies \in Seq([turn : Nat, at : Nat, ms : Nat])
    BY DEF ScriptInv, LineInv
  <2>2. /\ Len(turnLatencies) \in Nat /\ DOMAIN turnLatencies = 1..Len(turnLatencies)
        /\ \A i \in 1..Len(turnLatencies) : turnLatencies[i] \in [turn : Nat, at : Nat, ms : Nat]
    BY <2>1, LenProperties, ElementOfSeq
  <2>3. A \in [1..Len(turnLatencies) -> Nat]
    BY <2>2
  <2>4. QED
    BY <2>2, <2>3, SeqDef, LenProperties
<1>2. unansweredTurns \in Seq(Nat) /\ Len(borrowerEvents) \in Nat
  BY DEF ScriptInv, LineInv
<1>3. Settled = A \o unansweredTurns
  BY DEF Settled
<1> HIDE DEF A
<1>4. Settled \in Seq(Nat) /\ Len(Settled) = Len(A) + Len(unansweredTurns)
  BY <1>1, <1>2, <1>3, ConcatProperties
<1>5. ASSUME NEW k
      PROVE  Has(Settled, k) <=> Answered(k) \/ Unanswered(k)
  <2>1. Has(A, k) <=> Answered(k)
    BY <1>1 DEF Answered, Has
  <2>2. Has(Settled, k) <=> Has(A, k) \/ Has(unansweredTurns, k)
    BY <1>1, <1>2, <1>3, InConcat
  <2>3. QED
    BY <2>1, <2>2 DEF Has, Unanswered
<1>6. Len(Settled) = Len(borrowerEvents) - (IF reply = Nil THEN 0 ELSE 1)
  <2>1. Len(A) \in Nat /\ Len(unansweredTurns) \in Nat
    BY <1>1, <1>2, LenProperties
  <2>2. QED
    BY <1>1, <1>2, <1>4, <2>1 DEF ScriptInv, BookInv
<1>7. ASSUME NEW k
      PROVE  Has(Settled, k) <=> k \in 1..Len(Settled)
  <2>1. Has(Settled, k) <=> k \in 1..Len(borrowerEvents) /\ ~Pending(k)
    BY <1>5 DEF ScriptInv, BookInv
  <2>2. Pending(k) <=> reply # Nil /\ k = Len(borrowerEvents)
    BY DEF Pending, ScriptInv, LineInv
  <2>3. QED
    BY <1>2, <1>6, <2>1, <2>2
<1>8. ToSet(Settled) = 1..Len(Settled)
  BY <1>4, <1>7 DEF ToSet, Has
<1>9. QED
  BY <1>2, <1>6, <1>8

(* Every line spoken out is measured or listed as unanswered, once, when   *)
(* the script ends; until then, or when the call fails, at most the last   *)
(* is in neither list (scripted-call.ts, turnLatencies, unansweredTurns).  *)
THEOREM LinesAreAccounted == BSpec => []LinesAccounted
<1>1. ScriptInv => LinesAccounted
  <2> SUFFICES ASSUME ScriptInv PROVE LinesAccounted
    OBVIOUS
  <2>1. \A i \in DOMAIN werLines : werLines[i].turn = i
    BY DEF ScriptInv, WerInv
  <2>2. over # Nil /\ ~over.failed => Len(werLines) = next /\ reply = Nil
    BY DEF ScriptInv, WerInv
  <2>3. \A i \in DOMAIN turnLatencies : turnLatencies[i].ms >= 0
    <3>1. turnLatencies \in Seq([turn : Nat, at : Nat, ms : Nat])
      BY DEF ScriptInv, LineInv
    <3>2. DOMAIN turnLatencies = 1..Len(turnLatencies)
      BY <3>1
    <3>3. \A i \in 1..Len(turnLatencies) : turnLatencies[i] \in [turn : Nat, at : Nat, ms : Nat]
      BY <3>1, ElementOfSeq
    <3>4. QED
      BY <3>2, <3>3
  <2>4. QED
    BY <2>1, <2>2, <2>3, BooksBalance DEF LinesAccounted
<1>2. QED
  BY <1>1, ScriptInitially, ScriptStep, PTL DEF BSpec

-----------------------------------------------------------------------------
(* On two clocks.                                                          *)

Begin(k) == borrowerEvents[k].start
End(k) == borrowerEvents[k].end

(* Lines follow each other, and take longer than the grace and the skew.   *)
TimesInv ==
  /\ skew \in -MaxSkew..MaxSkew
  /\ \A k \in 1..Len(borrowerEvents) : Begin(k) + Grace + MaxSkew < End(k) /\ End(k) <= now
  /\ \A k, m \in 1..Len(borrowerEvents) : k < m => End(k) <= Begin(m)
  /\ speaking # Nil => \A k \in 1..Len(borrowerEvents) : End(k) <= speaking

(* The turn of a line, on the ledger's clock, starts between the line's end*)
(* and the next one's beginning.                                           *)
TurnsInv ==
  /\ turns \in Seq([at : Int, of : Nat])
  /\ \A j \in 1..Len(turns) :
       /\ turns[j].of \in 1..Len(borrowerEvents)
       /\ turns[j].at >= End(turns[j].of) + Endpointing + skew
       /\ turns[j].at <= now + skew
       /\ \A m \in 1..Len(borrowerEvents) : turns[j].of < m => turns[j].at <= Begin(m) + skew
       /\ speaking # Nil => turns[j].at <= speaking + skew
  /\ \A i, j \in 1..Len(turns) : i < j => turns[i].of # turns[j].of /\ turns[i].at <= turns[j].at

(* A latency and a transcript carry the instant their line ended.          *)
MeasuresInv ==
  /\ \A i \in 1..Len(turnLatencies) :
       /\ turnLatencies[i].turn \in 1..Len(borrowerEvents)
       /\ turnLatencies[i].at = End(turnLatencies[i].turn)
       /\ reply # Nil => turnLatencies[i].turn < Len(borrowerEvents)
  /\ \A i, j \in 1..Len(turnLatencies) : i < j => turnLatencies[i].turn < turnLatencies[j].turn
  /\ reply # Nil => Len(borrowerEvents) >= 1 /\ reply.at = End(Len(borrowerEvents))
  /\ Len(werLines) <= Len(borrowerEvents)
  /\ \A i \in 1..Len(werLines) : werLines[i].at = End(i)
  /\ currentLine # Nil /\ speaking = Nil => currentLine.closedAt = End(Len(borrowerEvents))

JoinInv == ScriptInv /\ TimesInv /\ TurnsInv /\ MeasuresInv

LEMMA JoinInitially == BInit => JoinInv
<1> SUFFICES ASSUME BInit PROVE JoinInv
  OBVIOUS
<1>1. ScriptInv
  BY ScriptInitially
<1>2. TimesInv /\ TurnsInv /\ MeasuresInv
  BY DEF BInit, TimesInv, TurnsInv, MeasuresInv
<1>3. QED
  BY <1>1, <1>2 DEF JoinInv

LEMMA EventTypes ==
    ASSUME ScriptInv
    PROVE  /\ Len(borrowerEvents) \in Nat /\ now \in Nat
           /\ \A k \in 1..Len(borrowerEvents) : Begin(k) \in Nat /\ End(k) \in Nat
           /\ speaking # Nil => speaking \in 0..now
<1>1. borrowerEvents \in Seq([kind : {"line"}, start : Nat, end : Nat])
  BY DEF ScriptInv, LineInv
<1>2. \A k \in 1..Len(borrowerEvents) : borrowerEvents[k] \in [kind : {"line"}, start : Nat, end : Nat]
  BY <1>1, ElementOfSeq
<1>3. \A k \in 1..Len(borrowerEvents) : Begin(k) \in Nat /\ End(k) \in Nat
  BY <1>2 DEF Begin, End
<1>4. Len(borrowerEvents) \in Nat
  BY <1>1
<1>5. now \in Nat /\ (speaking # Nil => speaking \in 0..now)
  BY DEF ScriptInv, LineInv
<1>6. QED
  BY <1>3, <1>4, <1>5

LEMMA TimesAlone ==
    ASSUME ScriptInv, TimesInv, UNCHANGED <<skew, borrowerEvents>>, now' \in Nat, now <= now',
           speaking' = speaking \/ speaking' = Nil \/ speaking' = now
    PROVE  TimesInv'
<1>1. /\ skew' \in -MaxSkew..MaxSkew
      /\ \A k \in 1..Len(borrowerEvents) : Begin(k)' = Begin(k) /\ End(k)' = End(k)
  BY DEF TimesInv, Begin, End
<1>2. \A k \in 1..Len(borrowerEvents) : Begin(k) + Grace + MaxSkew < End(k) /\ End(k) <= now'
  BY EventTypes DEF TimesInv
<1>3. speaking' # Nil => \A k \in 1..Len(borrowerEvents) : End(k) <= speaking'
  BY DEF TimesInv
<1>4. QED
  BY <1>1, <1>2, <1>3 DEF TimesInv

LEMMA TurnsAlone ==
    ASSUME ScriptInv, TimesInv, TurnsInv, UNCHANGED <<skew, borrowerEvents, turns>>, now' \in Nat, now <= now',
           speaking' = speaking \/ speaking' = Nil \/ speaking' = now
    PROVE  TurnsInv'
<1>1. \A k \in 1..Len(borrowerEvents) : Begin(k)' = Begin(k) /\ End(k)' = End(k)
  BY DEF Begin, End
<1>2. ASSUME NEW j \in 1..Len(turns)
      PROVE  /\ turns[j].of \in 1..Len(borrowerEvents)
             /\ turns[j].at >= End(turns[j].of) + Endpointing + skew
             /\ turns[j].at <= now' + skew
             /\ \A m \in 1..Len(borrowerEvents) : turns[j].of < m => turns[j].at <= Begin(m) + skew
             /\ speaking' # Nil => turns[j].at <= speaking' + skew
  <2>1. turns[j] \in [at : Int, of : Nat]
    BY ElementOfSeq DEF TurnsInv
  <2>2. turns[j].at \in Int /\ skew \in Int /\ now \in Nat
    BY <2>1, EventTypes DEF TimesInv
  <2>3. turns[j].at <= now + skew /\ (speaking # Nil => turns[j].at <= speaking + skew)
    BY DEF TurnsInv
  <2>4. turns[j].at <= now' + skew /\ (speaking' # Nil => turns[j].at <= speaking' + skew)
    BY <2>2, <2>3
  <2>5. QED
    BY <2>4 DEF TurnsInv
<1>3. turns' \in Seq([at : Int, of : Nat])
  BY DEF TurnsInv
<1>4. ASSUME NEW j \in 1..Len(turns')
      PROVE  borrowerEvents'[turns'[j].of].end = End(turns[j].of)
  BY DEF End
<1>5. QED
  BY <1>1, <1>2, <1>3, <1>4 DEF TurnsInv, End

LEMMA MeasuresAlone ==
    ASSUME MeasuresInv, UNCHANGED <<borrowerEvents, turnLatencies, werLines>>,
           reply' = Nil \/ (reply # Nil /\ reply' # Nil /\ reply'.at = reply.at),
           currentLine' = Nil \/ (speaking' = speaking /\ currentLine # Nil /\ currentLine'.closedAt = currentLine.closedAt)
    PROVE  MeasuresInv'
<1>1. \A k : End(k)' = End(k)
  BY DEF End
<1>2. /\ reply' # Nil => Len(borrowerEvents) >= 1 /\ reply'.at = End(Len(borrowerEvents))
      /\ \A i \in 1..Len(turnLatencies) : reply' # Nil => turnLatencies[i].turn < Len(borrowerEvents)
  BY DEF MeasuresInv
<1>3. currentLine' # Nil /\ speaking' = Nil => currentLine'.closedAt = End(Len(borrowerEvents))
  BY DEF MeasuresInv
<1>4. QED
  BY <1>1, <1>2, <1>3 DEF MeasuresInv

LEMMA TurnStartsJoin ==
    ASSUME JoinInv, TurnStarts, ~Splits
    PROVE  TurnsInv'
<1> DEFINE row == [at |-> now + skew, of |-> Len(borrowerEvents)]
<1>1. /\ UNCHANGED <<now, skew, next, speaking, borrowerEvents>>
      /\ speaking = Nil /\ Len(borrowerEvents) > 0
      /\ ~Claimed(Len(borrowerEvents))
      /\ now >= Last(borrowerEvents).end + Endpointing
      /\ turns' = Append(turns, row)
  BY DEF TurnStarts, borrower
<1>2. /\ Len(borrowerEvents) \in Nat /\ now \in Nat /\ skew \in Int
      /\ \A k \in 1..Len(borrowerEvents) : Begin(k) \in Nat /\ End(k) \in Nat
  BY EventTypes DEF JoinInv, TimesInv
<1>3. now >= End(Len(borrowerEvents)) + Endpointing
  BY <1>1 DEF Last, End
<1>4. row \in [at : Int, of : Nat] /\ row.of = Len(borrowerEvents) /\ row.at = now + skew
  BY <1>2
<1> HIDE DEF row
<1>5. /\ turns' \in Seq([at : Int, of : Nat]) /\ Len(turns') = Len(turns) + 1 /\ Len(turns) \in Nat
      /\ \A j \in 1..Len(turns) : turns'[j] = turns[j] /\ turns[j] \in [at : Int, of : Nat]
      /\ turns'[Len(turns) + 1] = row
      /\ \A j \in 1..Len(turns') : j \in 1..Len(turns) \/ j = Len(turns) + 1
  <2>1. turns \in Seq([at : Int, of : Nat])
    BY DEF JoinInv, TurnsInv
  <2>2. \A j \in 1..Len(turns) : turns[j] \in [at : Int, of : Nat]
    BY <2>1, ElementOfSeq
  <2>3. QED
    BY <1>1, <1>4, <2>1, <2>2, InAppend
<1>6. \A k : Begin(k)' = Begin(k) /\ End(k)' = End(k)
  BY <1>1 DEF Begin, End
<1>7. ASSUME NEW j \in 1..Len(turns')
      PROVE  /\ turns'[j].of \in 1..Len(borrowerEvents)
             /\ turns'[j].at >= End(turns'[j].of) + Endpointing + skew
             /\ turns'[j].at <= now + skew
             /\ \A m \in 1..Len(borrowerEvents) : turns'[j].of < m => turns'[j].at <= Begin(m) + skew
  <2>1. CASE j \in 1..Len(turns)
    BY <1>5, <2>1 DEF JoinInv, TurnsInv
  <2>2. CASE j = Len(turns) + 1
    <3>1. turns'[j].of = Len(borrowerEvents) /\ turns'[j].at = now + skew
      BY <1>4, <1>5, <2>2
    <3>2. Len(borrowerEvents) \in 1..Len(borrowerEvents) /\ End(Len(borrowerEvents)) \in Nat
      BY <1>1, <1>2
    <3>3. now + skew >= End(Len(borrowerEvents)) + Endpointing + skew
      BY <1>2, <1>3, <3>2
    <3>4. QED
      BY <1>2, <3>1, <3>2, <3>3
  <2>3. QED
    BY <1>5, <2>1, <2>2
<1>8. ASSUME NEW i \in 1..Len(turns'), NEW j \in 1..Len(turns'), i < j
      PROVE  turns'[i].of # turns'[j].of /\ turns'[i].at <= turns'[j].at
  <2>1. i \in 1..Len(turns)
    BY <1>5, <1>8
  <2>2. CASE j \in 1..Len(turns)
    BY <1>5, <1>8, <2>1, <2>2 DEF JoinInv, TurnsInv
  <2>3. CASE j = Len(turns) + 1
    <3>1. DOMAIN turns = 1..Len(turns)
      BY DEF JoinInv, TurnsInv
    <3>2. turns[i].of # Len(borrowerEvents)
      BY <1>1, <2>1, <3>1 DEF Claimed
    <3>3. turns[i].at <= now + skew
      BY <2>1 DEF JoinInv, TurnsInv
    <3>4. QED
      BY <1>4, <1>5, <2>1, <2>3, <3>2, <3>3
  <2>4. QED
    BY <1>5, <2>2, <2>3
<1>9. QED
  BY <1>1, <1>5, <1>6, <1>7, <1>8 DEF TurnsInv

LEMMA DeltaJoin ==
    ASSUME JoinInv, Delta
    PROVE  MeasuresInv'
<1> DEFINE row == [turn |-> reply.turn, at |-> reply.at, ms |-> now - reply.at]
<1>1. /\ UNCHANGED <<next, speaking, currentLine, borrowerEvents, werLines>>
      /\ reply # Nil /\ reply' = Nil /\ turnLatencies' = Append(turnLatencies, row)
  BY DEF Delta, borrower
<1>2. /\ reply.turn = Len(borrowerEvents) /\ Len(borrowerEvents) \in Nat /\ Len(borrowerEvents) >= 1
      /\ reply.at = End(Len(borrowerEvents))
  BY <1>1, EventTypes DEF JoinInv, ScriptInv, LineInv, MeasuresInv
<1>3. row \in [turn : Nat, at : Nat, ms : Nat] /\ row.turn = Len(borrowerEvents) /\ row.at = End(Len(borrowerEvents))
  BY <1>1, <1>2 DEF JoinInv, ScriptInv, LineInv
<1> HIDE DEF row
<1>4. /\ Len(turnLatencies') = Len(turnLatencies) + 1 /\ Len(turnLatencies) \in Nat
      /\ \A i \in 1..Len(turnLatencies) : turnLatencies'[i] = turnLatencies[i]
      /\ turnLatencies'[Len(turnLatencies) + 1] = row
      /\ \A i \in 1..Len(turnLatencies') : i \in 1..Len(turnLatencies) \/ i = Len(turnLatencies) + 1
  <2>1. turnLatencies \in Seq([turn : Nat, at : Nat, ms : Nat])
    BY DEF JoinInv, ScriptInv, LineInv
  <2>2. QED
    BY <1>1, <1>3, <2>1, InAppend
<1>5. \A k : End(k)' = End(k)
  BY <1>1 DEF End
<1>6. \A i \in 1..Len(turnLatencies') :
         /\ turnLatencies'[i].turn \in 1..Len(borrowerEvents)
         /\ turnLatencies'[i].at = End(turnLatencies'[i].turn)
  <2>1. \A i \in 1..Len(turnLatencies) :
           turnLatencies[i].turn \in 1..Len(borrowerEvents) /\ turnLatencies[i].at = End(turnLatencies[i].turn)
    BY DEF JoinInv, MeasuresInv
  <2>2. Len(borrowerEvents) \in 1..Len(borrowerEvents)
    BY <1>2
  <2>3. ASSUME NEW i \in 1..Len(turnLatencies')
        PROVE  turnLatencies'[i].turn \in 1..Len(borrowerEvents) /\ turnLatencies'[i].at = End(turnLatencies'[i].turn)
    <3>1. CASE i \in 1..Len(turnLatencies)
      BY <1>4, <2>1, <3>1
    <3>2. CASE i = Len(turnLatencies) + 1
      BY <1>3, <1>4, <2>2, <3>2
    <3>3. QED
      BY <1>4, <3>1, <3>2
  <2>4. QED
    BY <2>3
<1>7. ASSUME NEW i \in 1..Len(turnLatencies'), NEW j \in 1..Len(turnLatencies'), i < j
      PROVE  turnLatencies'[i].turn < turnLatencies'[j].turn
  <2>1. i \in 1..Len(turnLatencies)
    BY <1>4, <1>7
  <2>2. CASE j \in 1..Len(turnLatencies)
    BY <1>4, <1>7, <2>1, <2>2 DEF JoinInv, MeasuresInv
  <2>3. CASE j = Len(turnLatencies) + 1
    BY <1>1, <1>3, <1>4, <2>1, <2>3 DEF JoinInv, MeasuresInv
  <2>4. QED
    BY <1>4, <2>2, <2>3
<1>8. QED
  BY <1>1, <1>5, <1>6, <1>7 DEF JoinInv, MeasuresInv

(* Closing the line at hand, once it is out.                               *)
LEMMA ClosingMeasures ==
    ASSUME JoinInv, speaking = Nil
    PROVE  /\ Len(LineClosed) <= Len(borrowerEvents)
           /\ \A i \in 1..Len(LineClosed) : LineClosed[i].at = End(i)
<1>1. next = Len(borrowerEvents) /\ next \in Nat
  BY DEF JoinInv, ScriptInv, LineInv
<1>2. Len(LineClosed) = next
  BY LineCloses DEF JoinInv
<1>3. CASE currentLine = Nil
  BY <1>1, <1>2, <1>3 DEF LineClosed, JoinInv, MeasuresInv
<1>4. CASE currentLine # Nil
  <2> DEFINE row == [turn |-> currentLine.turn, at |-> currentLine.closedAt, parts |-> currentLine.parts]
  <2>1. row \in [turn : Nat, at : Nat \cup {Nil}, parts : Nat] /\ row.at = End(Len(borrowerEvents))
    BY <1>4 DEF JoinInv, ScriptInv, WerInv, MeasuresInv
  <2>2. LineClosed = Append(werLines, row)
    BY <1>4 DEF LineClosed
  <2> HIDE DEF row
  <2>3. werLines \in Seq([turn : Nat, at : Nat \cup {Nil}, parts : Nat]) /\ Len(werLines) + 1 = Len(borrowerEvents)
    BY <1>1, <1>4 DEF JoinInv, ScriptInv, WerInv
  <2>4. /\ \A i \in 1..Len(werLines) : LineClosed[i] = werLines[i] /\ werLines[i].at = End(i)
        /\ LineClosed[Len(werLines) + 1] = row
        /\ \A i \in 1..Len(LineClosed) : i \in 1..Len(werLines) \/ i = Len(werLines) + 1
    BY <2>1, <2>2, <2>3, InAppend DEF JoinInv, MeasuresInv
  <2>5. \A i \in 1..Len(LineClosed) : LineClosed[i].at = End(i)
    BY <2>1, <2>3, <2>4
  <2>6. QED
    BY <1>1, <1>2, <2>5
<1>5. QED
  BY <1>3, <1>4

LEMMA ClosesJoin ==
    ASSUME JoinInv, SpeakStarts \/ ScriptEnds
    PROVE  MeasuresInv'
<1>1. /\ UNCHANGED <<borrowerEvents, turnLatencies>> /\ speaking = Nil /\ werLines' = LineClosed
      /\ reply' = reply \/ reply' = Nil
      /\ currentLine' = Nil \/ speaking' = now
  BY DEF SpeakStarts, ScriptEnds
<1>2. now # Nil
  BY EventTypes DEF JoinInv
<1>3. \A k : End(k)' = End(k)
  BY <1>1 DEF End
<1>4. QED
  BY <1>1, <1>2, <1>3, ClosingMeasures DEF JoinInv, MeasuresInv

LEMMA SpeakEndsJoin ==
    ASSUME JoinInv, SpeakEnds
    PROVE  TimesInv' /\ TurnsInv' /\ MeasuresInv'
<1> DEFINE event == [kind |-> "line", start |-> speaking, end |-> now]
<1>0. PICK L : L = Len(borrowerEvents)
  OBVIOUS
<1>1. /\ UNCHANGED <<now, skew, next, turnLatencies, werLines, turns>>
      /\ speaking # Nil /\ now > speaking + Grace + MaxSkew /\ speaking' = Nil
      /\ borrowerEvents' = Append(borrowerEvents, event)
      /\ currentLine' = [currentLine EXCEPT !.closedAt = now]
      /\ reply' = [turn |-> next, at |-> now, audioAt |-> Nil]
  BY DEF SpeakEnds
<1>2. /\ L \in Nat /\ now \in Nat /\ speaking \in Nat /\ skew \in Int
      /\ \A k \in 1..L : Begin(k) \in Nat /\ End(k) \in Nat
  BY <1>0, <1>1, EventTypes DEF JoinInv, TimesInv
<1>3. event \in [kind : {"line"}, start : Nat, end : Nat] /\ event.start = speaking /\ event.end = now
  BY <1>2
<1> HIDE DEF event
<1>4. /\ Len(borrowerEvents') = L + 1
      /\ \A k \in 1..L : borrowerEvents'[k] = borrowerEvents[k]
      /\ borrowerEvents'[L + 1] = event
      /\ \A k \in 1..Len(borrowerEvents') : k \in 1..L \/ k = L + 1
  <2>1. PICK E : E = [kind : {"line"}, start : Nat, end : Nat]
    OBVIOUS
  <2>2. borrowerEvents \in Seq(E) /\ event \in E
    BY <1>3, <2>1 DEF JoinInv, ScriptInv, LineInv
  <2>3. /\ Len(Append(borrowerEvents, event)) = Len(borrowerEvents) + 1
        /\ \A k \in 1..Len(borrowerEvents) : Append(borrowerEvents, event)[k] = borrowerEvents[k]
        /\ Append(borrowerEvents, event)[Len(borrowerEvents) + 1] = event
        /\ \A k \in 1..Len(Append(borrowerEvents, event)) :
              k \in 1..Len(borrowerEvents) \/ k = Len(borrowerEvents) + 1
    BY <2>2, InAppend
  <2>4. QED
    BY <1>0, <1>1, <2>3
<1>5. /\ \A k \in 1..L : Begin(k)' = Begin(k) /\ End(k)' = End(k)
      /\ Begin(L + 1)' = speaking /\ End(L + 1)' = now
  BY <1>3, <1>4 DEF Begin, End
<1>6. TimesInv'
  <2>1. \A k \in 1..L : Begin(k) + Grace + MaxSkew < End(k) /\ End(k) <= now /\ End(k) <= speaking
    BY <1>0, <1>1 DEF JoinInv, TimesInv
  <2>2. ASSUME NEW k \in 1..Len(borrowerEvents'), NEW m \in 1..Len(borrowerEvents'), k < m
        PROVE  End(k)' <= Begin(m)'
    <3>1. k \in 1..L
      BY <1>2, <1>4, <2>2
    <3>2. CASE m \in 1..L
      BY <1>0, <1>5, <2>2, <3>1, <3>2 DEF JoinInv, TimesInv
    <3>3. CASE m = L + 1
      BY <1>5, <2>1, <3>1, <3>3
    <3>4. QED
      BY <1>4, <3>2, <3>3
  <2>3. \A k \in 1..Len(borrowerEvents') : Begin(k)' + Grace + MaxSkew < End(k)' /\ End(k)' <= now
    <3>1. ASSUME NEW k \in 1..L
          PROVE  Begin(k)' + Grace + MaxSkew < End(k)' /\ End(k)' <= now
      BY <1>1, <1>5, <2>1
    <3>2. Begin(L + 1)' + Grace + MaxSkew < End(L + 1)' /\ End(L + 1)' <= now
      BY <1>1, <1>2, <1>5
    <3>3. QED
      BY <1>4, <3>1, <3>2
  <2>4. QED
    BY <1>1, <2>2, <2>3 DEF JoinInv, TimesInv
<1>7. TurnsInv'
  <2>1. ASSUME NEW j \in 1..Len(turns)
        PROVE  /\ turns[j].of \in 1..Len(borrowerEvents')
               /\ turns[j].at >= borrowerEvents'[turns[j].of].end + Endpointing + skew
               /\ turns[j].at <= now + skew
               /\ \A m \in 1..Len(borrowerEvents') : turns[j].of < m => turns[j].at <= Begin(m)' + skew
    <3>1. /\ turns[j].of \in 1..L
          /\ turns[j].at >= End(turns[j].of) + Endpointing + skew
          /\ turns[j].at <= now + skew
          /\ \A m \in 1..L : turns[j].of < m => turns[j].at <= Begin(m) + skew
          /\ turns[j].at <= speaking + skew
      BY <1>0, <1>1 DEF JoinInv, TurnsInv
    <3>2. ASSUME NEW m \in 1..Len(borrowerEvents'), turns[j].of < m
          PROVE  turns[j].at <= Begin(m)' + skew
      <4>1. CASE m \in 1..L
        BY <1>5, <3>1, <3>2, <4>1
      <4>2. CASE m = L + 1
        BY <1>5, <3>1, <4>2
      <4>3. QED
        BY <1>4, <4>1, <4>2
    <3>3. borrowerEvents'[turns[j].of].end = End(turns[j].of)
      BY <1>4, <3>1 DEF End
    <3>4. turns[j].of \in 1..Len(borrowerEvents')
      BY <1>2, <1>4, <3>1
    <3>5. QED
      BY <3>1, <3>2, <3>3, <3>4
  <2>2. turns' = turns /\ turns' \in Seq([at : Int, of : Nat])
    BY <1>1 DEF JoinInv, TurnsInv
  <2>3. \A i, j \in 1..Len(turns) : i < j => turns[i].of # turns[j].of /\ turns[i].at <= turns[j].at
    BY DEF JoinInv, TurnsInv
  <2>4. QED
    BY <1>1, <2>1, <2>2, <2>3 DEF TurnsInv, End
<1>8. MeasuresInv'
  <2>1. \A i \in 1..Len(turnLatencies) :
           /\ turnLatencies[i].turn \in 1..L
           /\ turnLatencies[i].at = End(turnLatencies[i].turn)
    BY <1>0 DEF JoinInv, MeasuresInv
  <2>2. \A i \in 1..Len(turnLatencies) : borrowerEvents'[turnLatencies[i].turn].end = turnLatencies[i].at
    <3>1. \A k \in 1..L : borrowerEvents'[k].end = End(k)
      BY <1>4 DEF End
    <3>2. QED
      BY <2>1, <3>1
  <2>3. \A i \in 1..Len(turnLatencies) :
           turnLatencies[i].turn \in 1..Len(borrowerEvents') /\ turnLatencies[i].turn < Len(borrowerEvents')
    BY <1>2, <1>4, <2>1
  <2>4. Len(werLines) <= L /\ \A i \in 1..Len(werLines) : werLines[i].at = End(i)
    BY <1>0 DEF JoinInv, MeasuresInv
  <2>5. Len(werLines) \in Nat
    BY DEF JoinInv, ScriptInv, WerInv
  <2>6. Len(werLines) <= Len(borrowerEvents') /\ \A i \in 1..Len(werLines) : borrowerEvents'[i].end = werLines[i].at
    <3>1. \A i \in 1..Len(werLines) : i \in 1..L
      BY <1>2, <2>4, <2>5
    <3>2. \A k \in 1..L : borrowerEvents'[k].end = End(k)
      BY <1>4 DEF End
    <3>3. \A i \in 1..Len(werLines) : borrowerEvents'[i].end = werLines[i].at
      BY <2>4, <3>1, <3>2
    <3>4. Len(werLines) <= Len(borrowerEvents')
      BY <1>2, <1>4, <2>4, <2>5
    <3>5. QED
      BY <3>3, <3>4
  <2>7. currentLine' # Nil => currentLine'.closedAt = now
    <3>1. currentLine \in [turn : Nat, parts : Nat, closedAt : Nat \cup {Nil}]
      BY <1>1 DEF JoinInv, ScriptInv, WerInv
    <3>2. QED
      BY <1>1, <3>1
  <2>8. borrowerEvents'[Len(borrowerEvents')].end = now
    BY <1>2, <1>3, <1>4
  <2>9. reply'.at = now /\ Len(borrowerEvents') >= 1
    BY <1>1, <1>2, <1>4
  <2>11. \A i, j \in 1..Len(turnLatencies) : i < j => turnLatencies[i].turn < turnLatencies[j].turn
    BY DEF JoinInv, MeasuresInv
  <2>12. /\ \A i \in 1..Len(turnLatencies') :
              /\ turnLatencies'[i].turn \in 1..Len(borrowerEvents')
              /\ turnLatencies'[i].at = borrowerEvents'[turnLatencies'[i].turn].end
              /\ reply' # Nil => turnLatencies'[i].turn < Len(borrowerEvents')
         /\ \A i, j \in 1..Len(turnLatencies') : i < j => turnLatencies'[i].turn < turnLatencies'[j].turn
    BY <1>1, <2>2, <2>3, <2>11
  <2>13. /\ Len(borrowerEvents') >= 1 /\ reply'.at = borrowerEvents'[Len(borrowerEvents')].end
         /\ currentLine' # Nil => currentLine'.closedAt = borrowerEvents'[Len(borrowerEvents')].end
    BY <2>7, <2>8, <2>9
  <2>14. Len(werLines') <= Len(borrowerEvents') /\ \A i \in 1..Len(werLines') : werLines'[i].at = borrowerEvents'[i].end
    BY <1>1, <2>6
  <2>15. QED
    BY <2>12, <2>13, <2>14 DEF MeasuresInv, End
<1>9. QED
  BY <1>6, <1>7, <1>8

LEMMA JoinStep == JoinInv /\ ~Splits /\ [BNext]_bvars => JoinInv'
<1> SUFFICES ASSUME JoinInv, ~Splits, [BNext]_bvars PROVE JoinInv'
  OBVIOUS
<1>1. ScriptInv'
  BY ScriptStep DEF JoinInv
<1>2. /\ ScriptInv /\ TimesInv /\ TurnsInv /\ MeasuresInv /\ now \in Nat
      /\ currentLine' = currentLine => currentLine = Nil \/ (currentLine # Nil /\ currentLine'.closedAt = currentLine.closedAt)
      /\ reply' = reply => reply = Nil \/ (reply # Nil /\ reply'.at = reply.at)
  BY EventTypes DEF JoinInv
<1>3. CASE \/ AgentStarts \/ \E b \in BOOLEAN : AgentStops(b)
           \/ \E i \in DOMAIN said : Report(i)
           \/ CallFails \/ UNCHANGED bvars
  <2>1. UNCHANGED <<now, skew, turns, next, speaking, currentLine, borrowerEvents, reply, turnLatencies, werLines>>
    BY <1>3 DEF AgentStarts, AgentStops, Report, CallFails, bvars, borrower, measures
  <2>2. QED
    BY <1>1, <1>2, <2>1, TimesAlone, TurnsAlone, MeasuresAlone DEF JoinInv
<1>4. ASSUME NEW loud \in BOOLEAN, Frame(loud) PROVE JoinInv'
  <2>1. /\ UNCHANGED <<skew, turns, next, speaking, currentLine, borrowerEvents, turnLatencies, werLines>>
        /\ now' = now + 1
    BY <1>4 DEF Frame, borrower
  <2>2. reply' = reply \/ (reply # Nil /\ reply' = [reply EXCEPT !.audioAt = now])
    BY <1>4 DEF Frame
  <2>3. reply' = Nil \/ (reply # Nil /\ reply' # Nil /\ reply'.at = reply.at)
    <3>1. CASE reply # Nil /\ reply' = [reply EXCEPT !.audioAt = now]
      <4>1. reply \in [turn : Nat, at : Nat, audioAt : Nat \cup {Nil}]
        BY <3>1 DEF JoinInv, ScriptInv, LineInv
      <4>2. reply' \in [turn : Nat, at : Nat, audioAt : Nat \cup {Nil}] /\ reply'.at = reply.at
        BY <1>2, <3>1, <4>1
      <4>3. QED
        BY <3>1, <4>2
    <3>2. QED
      BY <2>2, <3>1
  <2>4. QED
    BY <1>1, <1>2, <2>1, <2>3, TimesAlone, TurnsAlone, MeasuresAlone DEF JoinInv
<1>5. CASE Delta
  <2>1. UNCHANGED <<now, skew, turns, next, speaking, currentLine, borrowerEvents>>
    BY <1>5 DEF Delta, borrower
  <2>2. QED
    BY <1>1, <1>2, <1>5, <2>1, TimesAlone, TurnsAlone, DeltaJoin DEF JoinInv
<1>6. CASE SpeakStarts \/ ScriptEnds
  <2>1. UNCHANGED <<now, skew, turns, borrowerEvents>> /\ (speaking' = speaking \/ speaking' = now)
    BY <1>6 DEF SpeakStarts, ScriptEnds
  <2>2. QED
    BY <1>1, <1>2, <1>6, <2>1, TimesAlone, TurnsAlone, ClosesJoin DEF JoinInv
<1>7. CASE SpeakEnds
  BY <1>1, <1>7, SpeakEndsJoin DEF JoinInv
<1>8. CASE Final
  <2>1. /\ UNCHANGED <<now, skew, turns, next, speaking, borrowerEvents, reply, turnLatencies, werLines>>
        /\ currentLine' = currentLine \/ (currentLine # Nil /\ currentLine' = [currentLine EXCEPT !.parts = @ + 1])
    BY <1>8 DEF Final
  <2>2. currentLine' = Nil \/ (currentLine # Nil /\ currentLine'.closedAt = currentLine.closedAt)
    <3>1. currentLine # Nil => currentLine \in [turn : Nat, parts : Nat, closedAt : Nat \cup {Nil}]
      BY DEF JoinInv, ScriptInv, WerInv
    <3>2. QED
      BY <2>1, <3>1
  <2>3. QED
    BY <1>1, <1>2, <2>1, <2>2, TimesAlone, TurnsAlone, MeasuresAlone DEF JoinInv
<1>9. CASE TurnStarts
  <2>1. UNCHANGED <<now, skew, next, speaking, currentLine, borrowerEvents, reply, turnLatencies, werLines>>
    BY <1>9 DEF TurnStarts, borrower, measures
  <2>2. QED
    BY <1>1, <1>2, <1>9, <2>1, TimesAlone, TurnStartsJoin, MeasuresAlone DEF JoinInv
<1>10. QED
  BY <1>3, <1>4, <1>5, <1>6, <1>7, <1>8, <1>9 DEF BNext

(* A call that is over stays as it is.                                     *)
OverInv == over # Nil => over.at = now /\ over.failed \in BOOLEAN

LEMMA OverStep == OverInv /\ [BNext]_bvars => OverInv'
<1> SUFFICES ASSUME OverInv, [BNext]_bvars PROVE OverInv'
  OBVIOUS
<1>1. CASE UNCHANGED <<now, over>>
  BY <1>1 DEF OverInv
<1>2. CASE ScriptEnds \/ CallFails
  <2>1. now' = now /\ \E b \in BOOLEAN : over' = [at |-> now, failed |-> b]
    BY <1>2 DEF ScriptEnds, CallFails
  <2>2. over'.at = now /\ over'.failed \in BOOLEAN
    BY <2>1
  <2>3. QED
    BY <2>1, <2>2 DEF OverInv
<1>3. CASE over' = Nil
  BY <1>3 DEF OverInv
<1>4. CASE \E b \in BOOLEAN : Frame(b)
  BY <1>3, <1>4 DEF Frame, On
<1>5. QED
  BY <1>1, <1>2, <1>4 DEF BNext, bvars, AgentStarts, AgentStops, Delta, SpeakStarts, SpeakEnds, Final, TurnStarts, Report

-----------------------------------------------------------------------------
(* The first entry of a window.                                            *)

InWindow(entries, allowed, from, until, j) ==
  j \in allowed /\ entries[j].at >= from /\ (until = Nil \/ entries[j].at < until)

Timed(entries) ==
  /\ Len(entries) \in Nat /\ DOMAIN entries = 1..Len(entries)
  /\ \A i \in 1..Len(entries) : entries[i].at \in Int
  /\ \A i, j \in 1..Len(entries) : i < j => entries[i].at <= entries[j].at

LEMMA FirstInWindow ==
    ASSUME NEW entries, Timed(entries), NEW allowed \in SUBSET DOMAIN entries, NEW from, NEW until,
           NEW k, InWindow(entries, allowed, from, until, k)
    PROVE  LET first == FirstIn(entries, allowed, from, until)
           IN  /\ InWindow(entries, allowed, from, until, first)
               /\ \A i : InWindow(entries, allowed, from, until, i) =>
                    entries[first].at < entries[i].at \/ (entries[first].at = entries[i].at /\ first <= i)
<1> DEFINE hits == {j \in allowed : entries[j].at >= from /\ (until = Nil \/ entries[j].at < until)}
           Sooner(j, i) == entries[j].at < entries[i].at \/ (entries[j].at = entries[i].at /\ j <= i)
<1>1. \A j : j \in hits <=> InWindow(entries, allowed, from, until, j)
  BY DEF InWindow
<1>2. hits \in SUBSET (1..Len(entries)) /\ hits # {}
  BY <1>1 DEF Timed
<1>3. PICK x \in hits : \A y \in hits : x <= y
  <2>1. 1..Len(entries) \subseteq Nat
    OBVIOUS
  <2> HIDE DEF hits
  <2>2. hits \in SUBSET Nat /\ hits # {}
    BY <1>2, <2>1
  <2>3. QED
    BY <2>2, LeastExists
<1>4. \A y \in hits : Sooner(x, y)
  <2> SUFFICES ASSUME NEW y \in hits PROVE Sooner(x, y)
    OBVIOUS
  <2>1. x \in 1..Len(entries) /\ y \in 1..Len(entries) /\ x <= y
    BY <1>2, <1>3
  <2>2. entries[x].at \in Int /\ entries[y].at \in Int
    BY <2>1 DEF Timed
  <2>3. x = y \/ entries[x].at <= entries[y].at
    BY <2>1 DEF Timed
  <2>4. QED
    BY <2>1, <2>2, <2>3
<1>5. FirstIn(entries, allowed, from, until) = CHOOSE j \in hits : \A i \in hits : Sooner(j, i)
  BY <1>2 DEF FirstIn
<1> HIDE DEF hits
<1>6. LET first == CHOOSE j \in hits : \A i \in hits : Sooner(j, i)
      IN  first \in hits /\ \A i \in hits : Sooner(first, i)
  BY <1>3, <1>4
<1>7. QED
  BY <1>1, <1>5, <1>6

LEMMA NothingInWindow ==
    ASSUME NEW entries, NEW allowed, NEW from, NEW until,
           \A k \in allowed : ~InWindow(entries, allowed, from, until, k)
    PROVE  FirstIn(entries, allowed, from, until) = Nil
  BY DEF FirstIn, InWindow

LEMMA FirstIsEntry ==
    ASSUME NEW entries, Timed(entries), NEW allowed \in SUBSET DOMAIN entries, NEW from, NEW until
    PROVE  FirstIn(entries, allowed, from, until) \in allowed \cup {Nil}
<1>1. CASE \E k \in allowed : InWindow(entries, allowed, from, until, k)
  BY <1>1, FirstInWindow DEF InWindow
<1>2. CASE \A k \in allowed : ~InWindow(entries, allowed, from, until, k)
  BY <1>2, NothingInWindow
<1>3. QED
  BY <1>1, <1>2

-----------------------------------------------------------------------------
(* The join: one measurement after the other takes its turn.               *)

Joins(ms, g, n) ==
  /\ g \in [1..n -> DOMAIN turns \cup {Nil}]
  /\ \A i \in 1..n : g[i] = Takes(ms, g, i, Until(ms, i))

LEMMA JoinGrows ==
    ASSUME NEW ms, NEW n \in Nat, NEW g, Joins(ms, g, n), Timed(turns)
    PROVE  \E h : Joins(ms, h, n + 1)
<1> DEFINE last == Takes(ms, g, n + 1, Until(ms, n + 1))
           h == [m \in 1..(n + 1) |-> IF m \in 1..n THEN g[m] ELSE last]
<1>1. last \in DOMAIN turns \cup {Nil}
  <2>1. DOMAIN turns \ {g[m] : m \in 1..((n + 1) - 1)} \in SUBSET DOMAIN turns
    OBVIOUS
  <2>2. last \in (DOMAIN turns \ {g[m] : m \in 1..((n + 1) - 1)}) \cup {Nil}
    BY <2>1, FirstIsEntry DEF Takes
  <2>3. QED
    BY <2>2
<1>2. \A i \in 1..(n + 1) : Takes(ms, h, i, Until(ms, i)) = Takes(ms, g, i, Until(ms, i))
  <2> SUFFICES ASSUME NEW i \in 1..(n + 1)
               PROVE  Takes(ms, h, i, Until(ms, i)) = Takes(ms, g, i, Until(ms, i))
    OBVIOUS
  <2> HIDE DEF last
  <2>1. \A m \in 1..(i - 1) : m \in 1..n /\ m \in 1..(n + 1)
    OBVIOUS
  <2>2. \A m \in 1..(i - 1) : h[m] = g[m]
    BY <2>1
  <2> HIDE DEF h
  <2>3. {h[m] : m \in 1..(i - 1)} = {g[m] : m \in 1..(i - 1)}
    BY <2>2
  <2>4. QED
    BY <2>3 DEF Takes
<1> HIDE DEF last
<1>3. h \in [1..(n + 1) -> DOMAIN turns \cup {Nil}]
  BY <1>1 DEF Joins
<1>4. (\A i \in 1..n : h[i] = g[i]) /\ h[n + 1] = last
  OBVIOUS
<1> HIDE DEF h
<1>5. ASSUME NEW i \in 1..(n + 1) PROVE h[i] = Takes(ms, h, i, Until(ms, i))
  <2>1. CASE i \in 1..n
    BY <1>2, <1>4, <2>1 DEF Joins
  <2>2. CASE i = n + 1
    BY <1>2, <1>4, <2>2 DEF last
  <2>3. QED
    BY <2>1, <2>2
<1>6. QED
  BY <1>3, <1>5 DEF Joins

LEMMA JoinExists ==
    ASSUME NEW ms, Len(ms) \in Nat, DOMAIN ms = 1..Len(ms), Timed(turns)
    PROVE  Joins(ms, matchLedgerTurns(ms), Len(ms))
<1> DEFINE Bad == {n \in Nat : ~\E g : Joins(ms, g, n)}
<1>1. Bad = {}
  <2> SUFFICES ASSUME Bad # {} PROVE FALSE
    OBVIOUS
  <2>1. PICK n \in Bad : \A k \in Bad : n <= k
    BY LeastExists
  <2>2. n \in Nat /\ ~\E g : Joins(ms, g, n)
    OBVIOUS
  <2>3. n # 0
    <3> DEFINE none == [i \in 1..0 |-> Nil]
    <3>1. none \in [1..0 -> DOMAIN turns \cup {Nil}]
      OBVIOUS
    <3>2. Joins(ms, none, 0)
      BY <3>1 DEF Joins
    <3>3. QED
      BY <2>2, <3>2
  <2>4. n - 1 \in Nat /\ (n - 1) + 1 = n
    BY <2>2, <2>3
  <2>5. n - 1 \notin Bad
    <3>1. ~(n <= n - 1)
      BY <2>2
    <3>2. QED
      BY <2>1, <3>1
  <2>6. PICK g : Joins(ms, g, n - 1)
    BY <2>4, <2>5
  <2>7. \E h : Joins(ms, h, (n - 1) + 1)
    BY <2>4, <2>6, JoinGrows
  <2>8. QED
    BY <2>2, <2>4, <2>7
<1>2. PICK g : Joins(ms, g, Len(ms))
  BY <1>1
<1>3. g \in [DOMAIN ms -> DOMAIN turns \cup {Nil}] /\ \A n \in DOMAIN ms : g[n] = Takes(ms, g, n, Until(ms, n))
  BY <1>2 DEF Joins
<1>4. /\ matchLedgerTurns(ms) \in [DOMAIN ms -> DOMAIN turns \cup {Nil}]
      /\ \A n \in DOMAIN ms : matchLedgerTurns(ms)[n] = Takes(ms, matchLedgerTurns(ms), n, Until(ms, n))
  BY <1>3 DEF matchLedgerTurns
<1>5. QED
  BY <1>4 DEF Joins

(* A list of measurements: one a line, in order, at the line's end.        *)
Chain(ms) ==
  /\ Len(ms) \in Nat /\ DOMAIN ms = 1..Len(ms)
  /\ \A n \in 1..Len(ms) : ms[n].turn \in 1..Len(borrowerEvents) /\ ms[n].at = End(ms[n].turn)
  /\ \A m, n \in 1..Len(ms) : m < n => ms[m].turn < ms[n].turn

(* Where a turn lies: after its line's end and, by more than the grace,    *)
(* before the end of any later line.                                       *)
LEMMA TurnPlaces ==
    ASSUME JoinInv, MaxSkew <= Endpointing, NEW j \in 1..Len(turns)
    PROVE  /\ turns[j].of \in 1..Len(borrowerEvents) /\ turns[j].at \in Int
           /\ turns[j].at >= End(turns[j].of)
           /\ \A k \in 1..Len(borrowerEvents) : turns[j].of < k => turns[j].at < End(k) - Grace
           /\ \A k \in 1..Len(borrowerEvents) : k <= turns[j].of => turns[j].at >= End(k)
<1>1. turns[j] \in [at : Int, of : Nat]
  BY ElementOfSeq DEF JoinInv, TurnsInv
<1>2. /\ Len(borrowerEvents) \in Nat /\ \A k \in 1..Len(borrowerEvents) : Begin(k) \in Nat /\ End(k) \in Nat
      /\ skew \in -MaxSkew..MaxSkew
  BY EventTypes DEF JoinInv, TimesInv
<1>3. /\ turns[j].of \in 1..Len(borrowerEvents)
      /\ turns[j].at >= End(turns[j].of) + Endpointing + skew
      /\ \A k \in 1..Len(borrowerEvents) : turns[j].of < k => turns[j].at <= Begin(k) + skew
  BY DEF JoinInv, TurnsInv
<1>4. turns[j].at >= End(turns[j].of)
  BY <1>1, <1>2, <1>3
<1>5. ASSUME NEW k \in 1..Len(borrowerEvents), turns[j].of < k PROVE turns[j].at < End(k) - Grace
  <2>1. Begin(k) + Grace + MaxSkew < End(k)
    BY DEF JoinInv, TimesInv
  <2>2. turns[j].at <= Begin(k) + skew
    BY <1>3, <1>5
  <2>3. QED
    BY <1>1, <1>2, <2>1, <2>2
<1>6. ASSUME NEW k \in 1..Len(borrowerEvents), k <= turns[j].of PROVE turns[j].at >= End(k)
  <2>1. CASE k = turns[j].of
    BY <1>4, <2>1
  <2>2. CASE k < turns[j].of
    <3>1. /\ Begin(turns[j].of) + Grace + MaxSkew < End(turns[j].of)
          /\ End(k) <= Begin(turns[j].of)
      BY <1>3, <2>2 DEF JoinInv, TimesInv
    <3>2. Begin(turns[j].of) \in Nat /\ End(turns[j].of) \in Nat /\ End(k) \in Nat
      BY <1>2, <1>3
    <3>3. QED
      BY <1>1, <1>4, <3>1, <3>2
  <2>3. QED
    BY <1>2, <1>3, <1>6, <2>1, <2>2
<1>7. QED
  BY <1>1, <1>3, <1>4, <1>5, <1>6

LEMMA TurnsTimed == JoinInv => Timed(turns)
<1> SUFFICES ASSUME JoinInv PROVE Timed(turns)
  OBVIOUS
<1>1. turns \in Seq([at : Int, of : Nat])
  BY DEF JoinInv, TurnsInv
<1>2. Len(turns) \in Nat /\ DOMAIN turns = 1..Len(turns)
  BY <1>1
<1>3. \A j \in 1..Len(turns) : turns[j] \in [at : Int, of : Nat]
  BY <1>1, ElementOfSeq
<1>4. \A j \in 1..Len(turns) : turns[j].at \in Int
  BY <1>3
<1>5. QED
  BY <1>2, <1>4 DEF Timed, JoinInv, TurnsInv

LEMMA ChainTimes ==
    ASSUME JoinInv, NEW ms, Chain(ms)
    PROVE  /\ \A n \in 1..Len(ms) : ms[n].at \in Nat /\ ms[n].at <= now
           /\ \A m, n \in 1..Len(ms) : m < n => ms[m].at <= ms[n].at
<1>1. ASSUME NEW n \in 1..Len(ms) PROVE ms[n].at \in Nat /\ ms[n].at <= now
  <2>1. ms[n].turn \in 1..Len(borrowerEvents) /\ ms[n].at = End(ms[n].turn)
    BY DEF Chain
  <2>2. End(ms[n].turn) \in Nat /\ End(ms[n].turn) <= now
    BY <2>1, EventTypes DEF JoinInv, TimesInv
  <2>3. QED
    BY <2>1, <2>2
<1>2. ASSUME NEW m \in 1..Len(ms), NEW n \in 1..Len(ms), m < n PROVE ms[m].at <= ms[n].at
  <2>1. /\ ms[m].turn \in 1..Len(borrowerEvents) /\ ms[m].at = End(ms[m].turn)
        /\ ms[n].turn \in 1..Len(borrowerEvents) /\ ms[n].at = End(ms[n].turn)
        /\ ms[m].turn < ms[n].turn
    BY <1>2 DEF Chain
  <2>2. /\ End(ms[m].turn) <= Begin(ms[n].turn)
        /\ Begin(ms[n].turn) + Grace + MaxSkew < End(ms[n].turn)
    BY <2>1 DEF JoinInv, TimesInv
  <2>3. Begin(ms[n].turn) \in Nat /\ End(ms[n].turn) \in Nat /\ End(ms[m].turn) \in Nat
    BY <2>1, EventTypes DEF JoinInv
  <2>4. QED
    BY <2>1, <2>2, <2>3
<1>3. QED
  BY <1>1, <1>2

(* A measurement whose line has a turn takes it.                           *)
LEMMA TakesOwn ==
    ASSUME JoinInv, OverInv, MaxSkew <= Endpointing, over # Nil, NEW ms, Chain(ms),
           NEW g, Joins(ms, g, Len(ms)), NEW n \in 1..Len(ms),
           NEW own \in 1..Len(turns), turns[own].of = ms[n].turn, turns[own].at < over.at
    PROVE  g[n] \in 1..Len(turns) /\ turns[g[n]].of = ms[n].turn /\ turns[g[n]].at < over.at
<1> DEFINE free == DOMAIN turns \ {g[m] : m \in 1..(n - 1)}
           Hit(j) == InWindow(turns, free, ms[n].at - Grace, Until(ms, n), j)
           Sooner(j, i) == turns[j].at < turns[i].at \/ (turns[j].at = turns[i].at /\ j <= i)
<1>1. g[n] = FirstIn(turns, free, ms[n].at - Grace, Until(ms, n))
  BY DEF Joins, Takes
<1>2. Timed(turns) /\ free \in SUBSET DOMAIN turns /\ DOMAIN turns = 1..Len(turns) /\ Len(ms) \in Nat
  BY TurnsTimed DEF Timed, Chain
<1>3. /\ ms[n].turn \in 1..Len(borrowerEvents) /\ ms[n].at = End(ms[n].turn)
      /\ ms[n].at \in Nat /\ over.at \in Int /\ over.at = now
  BY ChainTimes, EventTypes DEF Chain, OverInv, JoinInv
<1>4. /\ Until(ms, n) \in Int /\ Until(ms, n) <= over.at
      /\ n < Len(ms) => Until(ms, n) = ms[n + 1].at /\ n + 1 \in 1..Len(ms)
      /\ ~(n < Len(ms)) => Until(ms, n) = over.at
  BY <1>2, <1>3, ChainTimes DEF Until
<1>5. \A m \in 1..(n - 1) : g[m] # own
  <2> SUFFICES ASSUME NEW m \in 1..(n - 1), g[m] = own PROVE FALSE
    OBVIOUS
  <2>1. m \in 1..Len(ms) /\ m + 1 \in 1..Len(ms) /\ m < Len(ms)
    BY <1>2
  <2> DEFINE taken == DOMAIN turns \ {g[i] : i \in 1..(m - 1)}
  <2>2. own = FirstIn(turns, taken, ms[m].at - Grace, Until(ms, m)) /\ Until(ms, m) = ms[m + 1].at
    BY <2>1 DEF Joins, Takes, Until
  <2>3. taken \in SUBSET DOMAIN turns
    OBVIOUS
  <2> HIDE DEF taken
  <2>4. \E k : InWindow(turns, taken, ms[m].at - Grace, Until(ms, m), k)
    <3>1. own # Nil
      OBVIOUS
    <3>2. QED
      BY <2>2, <3>1, NothingInWindow
  <2>5. InWindow(turns, taken, ms[m].at - Grace, Until(ms, m), own)
    BY <1>2, <2>2, <2>3, <2>4, FirstInWindow
  <2>6. ms[m + 1].at \in Nat /\ ms[m + 1].at <= ms[n].at
    <3>1. m + 1 = n \/ m + 1 < n
      OBVIOUS
    <3>2. ms[m + 1].at \in Nat
      BY <2>1, ChainTimes
    <3>3. m + 1 < n => ms[m + 1].at <= ms[n].at
      BY <2>1, ChainTimes
    <3>4. m + 1 = n => ms[m + 1].at = ms[n].at
      OBVIOUS
    <3>5. QED
      BY <1>3, <3>1, <3>2, <3>3, <3>4
  <2>7. turns[own].at < ms[m + 1].at
    BY <2>2, <2>5, <2>6 DEF InWindow
  <2>8. turns[own].at >= ms[n].at /\ turns[own].at \in Int
    BY <1>3, TurnPlaces
  <2>9. PICK a \in Int : a = turns[own].at
    BY <2>8
  <2>10. PICK b \in Int : b = ms[m + 1].at
    BY <2>6
  <2>11. PICK c \in Int : c = ms[n].at
    BY <1>3
  <2>12. a < b /\ b <= c /\ a >= c
    BY <2>6, <2>7, <2>8, <2>9, <2>10, <2>11
  <2>13. QED
    BY <2>12
<1>6. Hit(own)
  <2>1. own \in free
    BY <1>2, <1>5
  <2>2. turns[own].at \in Int /\ turns[own].at >= ms[n].at
    BY <1>3, TurnPlaces
  <2>3. turns[own].at >= ms[n].at - Grace
    BY <1>3, <2>2
  <2>4. turns[own].at < Until(ms, n)
    <3>1. CASE n < Len(ms)
      <4>1. ms[n + 1].turn \in 1..Len(borrowerEvents) /\ ms[n + 1].at = End(ms[n + 1].turn) /\ ms[n].turn < ms[n + 1].turn
        BY <1>4, <3>1 DEF Chain
      <4>2. turns[own].at < End(ms[n + 1].turn) - Grace /\ End(ms[n + 1].turn) \in Nat
        BY <4>1, TurnPlaces, EventTypes DEF JoinInv
      <4>3. QED
        BY <1>4, <2>2, <3>1, <4>1, <4>2
    <3>2. QED
      BY <1>4, <3>1
  <2>5. QED
    BY <2>1, <2>3, <2>4 DEF InWindow
<1> HIDE DEF free
<1>7. Hit(g[n]) /\ \A i : Hit(i) => Sooner(g[n], i)
  BY <1>1, <1>2, <1>6, FirstInWindow
<1>8. g[n] \in 1..Len(turns) /\ turns[g[n]].at >= ms[n].at - Grace /\ turns[g[n]].at < Until(ms, n)
  <2>1. Until(ms, n) # Nil
    BY <1>4
  <2>2. QED
    BY <1>2, <1>7, <2>1 DEF InWindow
<1>9. turns[g[n]].of = ms[n].turn
  <2>1. PICK j \in 1..Len(turns) : j = g[n]
    BY <1>8
  <2>2. turns[j].of \in 1..Len(borrowerEvents) /\ turns[j].at \in Int
    BY TurnPlaces
  <2>3. ~(turns[j].of < ms[n].turn)
    <3>1. turns[j].of < ms[n].turn => turns[j].at < ms[n].at - Grace
      BY <1>3, TurnPlaces
    <3>2. QED
      BY <1>3, <1>8, <2>1, <2>2, <3>1
  <2>4. ~(turns[j].of > ms[n].turn)
    <3> SUFFICES ASSUME ms[n].turn < turns[j].of PROVE FALSE
      BY <1>3, <2>2
    <3>1. turns[own].at < End(turns[j].of) - Grace /\ turns[own].at \in Int
      BY <2>2, TurnPlaces
    <3>2. turns[j].at >= End(turns[j].of) /\ End(turns[j].of) \in Nat
      BY <2>2, TurnPlaces, EventTypes DEF JoinInv
    <3>3. Sooner(j, own)
      <4> HIDE DEF Hit, Sooner
      <4>1. QED
        BY <1>6, <1>7, <2>1
    <3>4. PICK a \in Int : a = turns[j].at
      BY <2>2
    <3>5. PICK b \in Int : b = turns[own].at
      BY <3>1
    <3>6. PICK c \in Int : c = End(turns[j].of)
      BY <3>2
    <3>7. a < b \/ a = b
      BY <3>3, <3>4, <3>5
    <3>8. b < c - Grace /\ a >= c /\ Grace \in Nat
      BY <3>1, <3>2, <3>4, <3>5, <3>6
    <3>9. QED
      BY <3>7, <3>8
  <2>5. turns[j].of = ms[n].turn
    <3>1. turns[j].of \in Int /\ ms[n].turn \in Int
      BY <1>3, <2>2
    <3>2. QED
      BY <2>3, <2>4, <3>1
  <2>6. QED
    BY <2>1, <2>5
<1>10. turns[g[n]].at < over.at
  <2>1. PICK a \in Int, b \in Int, c \in Int : a = turns[g[n]].at /\ b = Until(ms, n) /\ c = over.at
    BY <1>3, <1>4, <1>8, TurnPlaces
  <2>2. a < b /\ b <= c
    BY <1>4, <1>8, <2>1
  <2>3. a < c
    BY <2>2
  <2>4. QED
    BY <2>1, <2>3
<1>11. QED
  BY <1>8, <1>9, <1>10

(* A transcript of a line without a turn takes none.                       *)
LEMMA TakesNone ==
    ASSUME JoinInv, OverInv, MaxSkew <= Endpointing, over # Nil, NEW ms, Chain(ms),
           Len(ms) = Len(borrowerEvents), \A i \in 1..Len(ms) : ms[i].turn = i,
           NEW g, Joins(ms, g, Len(ms)), NEW n \in 1..Len(ms),
           \A j \in 1..Len(turns) : ~(turns[j].of = n /\ turns[j].at < over.at)
    PROVE  g[n] = Nil
<1> DEFINE free == DOMAIN turns \ {g[m] : m \in 1..(n - 1)}
<1>1. g[n] = FirstIn(turns, free, ms[n].at - Grace, Until(ms, n))
  BY DEF Joins, Takes
<1>2. DOMAIN turns = 1..Len(turns) /\ Len(ms) \in Nat
  BY TurnsTimed DEF Timed, Chain
<1>3. /\ n \in 1..Len(borrowerEvents) /\ ms[n].at = End(n) /\ ms[n].turn = n
      /\ ms[n].at \in Nat /\ over.at \in Int /\ over.at = now
  BY ChainTimes, EventTypes DEF Chain, OverInv, JoinInv
<1>4. /\ Until(ms, n) \in Int /\ Until(ms, n) <= over.at
      /\ n < Len(ms) => Until(ms, n) = End(n + 1) /\ n + 1 \in 1..Len(borrowerEvents)
      /\ ~(n < Len(ms)) => Until(ms, n) = over.at
  <2>1. n < Len(ms) => n + 1 \in 1..Len(ms)
    BY <1>2
  <2>2. n < Len(ms) => ms[n + 1].at = End(n + 1) /\ ms[n + 1].at \in Nat /\ ms[n + 1].at <= now
    BY <2>1, ChainTimes DEF Chain
  <2>3. QED
    BY <1>2, <1>3, <2>1, <2>2 DEF Until
<1>5. ASSUME NEW j \in 1..Len(turns), turns[j].at >= ms[n].at - Grace, turns[j].at < Until(ms, n) PROVE FALSE
  <2>1. turns[j].of \in 1..Len(borrowerEvents) /\ turns[j].at \in Int /\ turns[j].at < over.at
    BY <1>3, <1>4, <1>5, TurnPlaces
  <2>2. ~(turns[j].of < n)
    <3>1. turns[j].of < n => turns[j].at < End(n) - Grace
      BY <1>3, TurnPlaces
    <3>2. QED
      BY <1>3, <1>5, <2>1, <3>1
  <2>3. turns[j].of # n
    BY <2>1
  <2>4. n < turns[j].of /\ n < Len(ms)
    BY <1>3, <2>1, <2>2, <2>3
  <2>5. n + 1 \in 1..Len(borrowerEvents) /\ n + 1 <= turns[j].of /\ Until(ms, n) = End(n + 1)
    BY <1>3, <1>4, <2>1, <2>4
  <2>6. turns[j].at >= End(n + 1)
    BY <2>5, TurnPlaces
  <2>7. QED
    BY <1>4, <1>5, <2>1, <2>5, <2>6
<1>6. \A j \in free : ~InWindow(turns, free, ms[n].at - Grace, Until(ms, n), j)
  <2>1. Until(ms, n) # Nil /\ free \subseteq 1..Len(turns)
    BY <1>2, <1>4
  <2>2. QED
    BY <1>5, <2>1 DEF InWindow
<1> HIDE DEF free
<1>7. QED
  BY <1>1, <1>6, NothingInWindow

LEMMA ListsAreChains ==
    ASSUME JoinInv
    PROVE  Chain(turnLatencies) /\ Chain(werLines)
<1>1. /\ Len(turnLatencies) \in Nat /\ DOMAIN turnLatencies = 1..Len(turnLatencies)
      /\ Len(werLines) \in Nat /\ DOMAIN werLines = 1..Len(werLines) /\ Len(borrowerEvents) \in Nat
  BY DEF JoinInv, ScriptInv, LineInv, WerInv
<1>2. Chain(turnLatencies)
  BY <1>1 DEF Chain, JoinInv, MeasuresInv
<1>3. \A n \in 1..Len(werLines) : werLines[n].turn = n /\ n \in 1..Len(borrowerEvents) /\ werLines[n].at = End(n)
  BY <1>1 DEF JoinInv, ScriptInv, WerInv, MeasuresInv
<1>4. Chain(werLines)
  BY <1>1, <1>3 DEF Chain
<1>5. QED
  BY <1>2, <1>4

LEMMA JoinsOwn ==
    ASSUME JoinInv, OverInv, MaxSkew <= Endpointing
    PROVE  JoinsOwnTurn
<1> SUFFICES ASSUME over # Nil, ~over.failed, NEW ms \in {turnLatencies, werLines}, NEW n \in DOMAIN ms
             PROVE  LET joined == matchLedgerTurns(ms)
                        own == {j \in DOMAIN turns : turns[j].of = ms[n].turn /\ turns[j].at < over.at}
                    IN  IF own # {} THEN joined[n] \in own ELSE ms = werLines => joined[n] = Nil
  BY DEF JoinsOwnTurn
<1> DEFINE g == matchLedgerTurns(ms)
           own == {j \in DOMAIN turns : turns[j].of = ms[n].turn /\ turns[j].at < over.at}
<1>1. Chain(ms)
  BY ListsAreChains
<1>2. Joins(ms, g, Len(ms)) /\ n \in 1..Len(ms)
  BY <1>1, JoinExists, TurnsTimed DEF Chain
<1>3. DOMAIN turns = 1..Len(turns)
  BY TurnsTimed DEF Timed
<1> HIDE DEF g
<1>4. CASE own # {}
  <2>1. PICK j \in 1..Len(turns) : turns[j].of = ms[n].turn /\ turns[j].at < over.at
    BY <1>3, <1>4
  <2>2. g[n] \in 1..Len(turns) /\ turns[g[n]].of = ms[n].turn /\ turns[g[n]].at < over.at
    BY <1>1, <1>2, <2>1, TakesOwn
  <2>3. QED
    BY <1>3, <1>4, <2>2 DEF g
<1>5. CASE own = {} /\ ms = werLines
  <2>1. Len(ms) = Len(borrowerEvents) /\ \A i \in 1..Len(ms) : ms[i].turn = i
    BY <1>5 DEF JoinInv, ScriptInv, LineInv, WerInv
  <2>2. \A j \in 1..Len(turns) : ~(turns[j].of = n /\ turns[j].at < over.at)
    BY <1>2, <1>3, <1>5, <2>1
  <2>3. g[n] = Nil
    BY <1>1, <1>2, <2>1, <2>2, TakesNone
  <2>4. QED
    BY <1>5, <2>3 DEF g
<1>6. QED
  BY <1>4, <1>5 DEF g

(* A score is posted to its own line's turn: for clocks no further apart   *)
(* than a line takes to become a turn.                                     *)
THEOREM ScoresJoinTheirTurns ==
    ASSUME ~Splits, MaxSkew <= Endpointing
    PROVE  BSpec => []JoinsOwnTurn
<1>1. BInit => JoinInv /\ OverInv
  BY JoinInitially DEF BInit, OverInv
<1>2. JoinInv /\ OverInv /\ [BNext]_bvars => (JoinInv /\ OverInv)'
  BY JoinStep, OverStep
<1>3. JoinInv /\ OverInv => JoinsOwnTurn
  BY JoinsOwn
<1>4. QED
  BY <1>1, <1>2, <1>3, PTL DEF BSpec

-----------------------------------------------------------------------------
(* What the harness hears.                                                 *)

(* The lines of the agent: each begins and ends with a loud frame, and     *)
(* begins more than a hangover after any loud frame before it.             *)
SaidInv ==
  /\ now \in Nat /\ rmsSamples \in Seq(BOOLEAN) /\ Len(rmsSamples) = now
  /\ said \in Seq([start : Nat, end : Nat \cup {Nil}, cut : BOOLEAN, told : BOOLEAN])
  /\ \A u \in 1..Len(said) :
       /\ said[u].start <= now
       /\ said[u].start < now => said[u].start + 1 \in Loud
       /\ said[u].end # Nil => said[u].start <= said[u].end /\ said[u].end < now /\ said[u].end + 1 \in Loud
       /\ \A j \in Loud : j <= said[u].start => said[u].start - j > Hangover
  /\ \A u, v \in 1..Len(said) : v < u => said[v].end # Nil /\ said[v].end < said[u].start

(* A loud frame is the first of a line or follows a loud one by a pause.   *)
LoudInv ==
  /\ Len(said) = 0 => Loud = {}
  /\ \A i \in Loud : \/ \E u \in 1..Len(said) : i = said[u].start + 1
                     \/ \E j \in Loud : j < i /\ i - 1 - j <= MaxPause
  /\ \A u \in 1..Len(said) : said[u].end = Nil /\ said[u].start < now => \E j \in Loud : now - j <= MaxPause

(* A report is of a line that ended, a little earlier.                     *)
PlayoutInv ==
  /\ skew \in -MaxSkew..MaxSkew
  /\ playouts \in Seq([at : Int, interrupted : BOOLEAN, of : Nat])
  /\ \A p \in 1..Len(playouts) :
       /\ playouts[p].of \in 1..Len(said) /\ said[playouts[p].of].end # Nil
       /\ playouts[p].at >= said[playouts[p].of].end + 1 + skew
       /\ playouts[p].at <= said[playouts[p].of].end + MaxReportDelay + skew
       /\ playouts[p].at <= now + skew
  /\ \A p, q \in 1..Len(playouts) : p < q => playouts[p].at <= playouts[q].at

HeardInv == SaidInv /\ LoudInv /\ PlayoutInv

LEMMA HeardInitially == BInit => HeardInv
<1> SUFFICES ASSUME BInit PROVE HeardInv
  OBVIOUS
<1>1. Loud = {} /\ said = <<>> /\ playouts = <<>> /\ now = 0 /\ rmsSamples = <<>>
  BY DEF BInit, Loud
<1>2. SaidInv /\ LoudInv
  BY <1>1 DEF SaidInv, LoudInv
<1>3. PlayoutInv
  BY <1>1 DEF BInit, PlayoutInv
<1>4. QED
  BY <1>2, <1>3 DEF HeardInv

LEMMA LoudFrames ==
    ASSUME SaidInv
    PROVE  /\ Loud \in SUBSET (1..now) /\ now \in Nat
           /\ Loud # {} => \E m \in Loud : SinceLoud = now - m /\ \A j \in Loud : j <= m
<1>1. Loud \in SUBSET (1..now) /\ now \in Nat
  BY DEF SaidInv, Loud
<1>2. ASSUME Loud # {} PROVE \E m \in Loud : SinceLoud = now - m /\ \A j \in Loud : j <= m
  <2>1. \E m \in Loud : \A j \in Loud : j <= m
    BY <1>1, <1>2, GreatestExists
  <2>2. PICK m : m = CHOOSE i \in Loud : \A j \in Loud : j <= i
    OBVIOUS
  <2>3. m \in Loud /\ \A j \in Loud : j <= m
    BY <2>1, <2>2
  <2>4. SinceLoud = now - m
    BY <1>2, <2>2 DEF SinceLoud
  <2>5. QED
    BY <2>3, <2>4
<1>3. QED
  BY <1>1, <1>2

LEMMA SaidTypes ==
    ASSUME SaidInv
    PROVE  /\ Len(said) \in Nat
           /\ \A u \in 1..Len(said) : /\ said[u] \in [start : Nat, end : Nat \cup {Nil}, cut : BOOLEAN, told : BOOLEAN]
                                      /\ said[u].start \in Nat /\ said[u].end \in Nat \cup {Nil}
           /\ Talking <=> Len(said) >= 1 /\ said[Len(said)].end = Nil
           /\ Last(said) = said[Len(said)]
<1>1. said \in Seq([start : Nat, end : Nat \cup {Nil}, cut : BOOLEAN, told : BOOLEAN])
  BY DEF SaidInv
<1>2. \A u \in 1..Len(said) : said[u] \in [start : Nat, end : Nat \cup {Nil}, cut : BOOLEAN, told : BOOLEAN]
  BY <1>1, ElementOfSeq
<1>3. \A u \in 1..Len(said) : said[u].start \in Nat /\ said[u].end \in Nat \cup {Nil}
  BY <1>2
<1>4. Len(said) \in Nat /\ (said # <<>> <=> Len(said) >= 1)
  BY <1>1
<1>5. Last(said) = said[Len(said)]
  BY DEF Last
<1>6. QED
  BY <1>2, <1>3, <1>4, <1>5 DEF Talking

(* A line begins.                                                          *)
LEMMA AgentStartsHeard ==
    ASSUME HeardInv, AgentStarts
    PROVE  HeardInv'
<1> DEFINE row == [start |-> now, end |-> Nil, cut |-> FALSE, told |-> FALSE]
<1>0. PICK n : n = Len(said)
  OBVIOUS
<1>1. /\ UNCHANGED <<now, skew, rmsSamples, playouts>> /\ ~Talking
      /\ said # <<>> => SinceLoud > Hangover
      /\ said' = Append(said, row)
  BY DEF AgentStarts
<1>2. /\ n \in Nat /\ now \in Nat /\ Loud \in SUBSET (1..now) /\ SaidInv /\ LoudInv
      /\ \A u \in 1..n : said[u].start \in Nat /\ said[u].end \in Nat \cup {Nil}
      /\ n >= 1 => said[n].end # Nil
  BY <1>0, <1>1, SaidTypes, LoudFrames DEF HeardInv, SaidInv
<1>3. row \in [start : Nat, end : Nat \cup {Nil}, cut : BOOLEAN, told : BOOLEAN] /\ row.start = now /\ row.end = Nil
  BY <1>2
<1> HIDE DEF row
<1>4. /\ Len(said') = n + 1 /\ said' \in Seq([start : Nat, end : Nat \cup {Nil}, cut : BOOLEAN, told : BOOLEAN])
      /\ \A u \in 1..n : said'[u] = said[u]
      /\ said'[n + 1] = row
      /\ \A u \in 1..Len(said') : u \in 1..n \/ u = n + 1
  BY <1>0, <1>1, <1>2, <1>3, InAppend DEF SaidInv
<1>5. Loud' = Loud
  BY <1>1 DEF Loud
<1>6. \A j \in Loud : now - j > Hangover
  <2>1. CASE Loud = {}
    BY <2>1
  <2>2. CASE Loud # {}
    <3>1. said # <<>>
      BY <2>2, <1>2 DEF LoudInv
    <3>2. PICK m \in Loud : SinceLoud = now - m /\ \A j \in Loud : j <= m
      BY <1>2, <2>2, LoudFrames
    <3>3. now - m > Hangover
      BY <1>1, <3>1, <3>2
    <3>4. ASSUME NEW j \in Loud PROVE now - j > Hangover
      BY <1>2, <3>2, <3>3
    <3>5. QED
      BY <3>4
  <2>3. QED
    BY <2>1, <2>2
<1>7. SaidInv'
  <2>1. ASSUME NEW u \in 1..Len(said')
        PROVE  /\ said'[u].start <= now
               /\ said'[u].start < now => said'[u].start + 1 \in Loud
               /\ said'[u].end # Nil => said'[u].start <= said'[u].end /\ said'[u].end < now /\ said'[u].end + 1 \in Loud
               /\ \A j \in Loud : j <= said'[u].start => said'[u].start - j > Hangover
    <3>1. CASE u \in 1..n
      BY <1>0, <1>2, <1>4, <3>1 DEF SaidInv
    <3>2. CASE u = n + 1
      BY <1>2, <1>3, <1>4, <1>6, <3>2
    <3>3. QED
      BY <1>4, <3>1, <3>2
  <2>2. ASSUME NEW u \in 1..Len(said'), NEW v \in 1..Len(said'), v < u
        PROVE  said'[v].end # Nil /\ said'[v].end < said'[u].start
    <3>1. v \in 1..n /\ said'[v] = said[v]
      BY <1>2, <1>4, <2>2
    <3>2. CASE u \in 1..n
      BY <1>0, <1>2, <1>4, <2>2, <3>1, <3>2 DEF SaidInv
    <3>3. CASE u = n + 1
      <4>1. said[v].end # Nil
        <5>1. v = n \/ (v < n /\ n \in 1..n)
          BY <1>2, <3>1
        <5>2. QED
          BY <1>0, <1>2, <3>1, <5>1 DEF SaidInv
      <4>2. said[v].end < now
        BY <1>0, <1>2, <3>1, <4>1 DEF SaidInv
      <4>3. QED
        BY <1>3, <1>4, <3>1, <3>3, <4>1, <4>2
    <3>4. QED
      BY <1>4, <3>2, <3>3
  <2>3. now' \in Nat /\ rmsSamples' \in Seq(BOOLEAN) /\ Len(rmsSamples') = now'
    BY <1>1, <1>2 DEF SaidInv
  <2>4. QED
    BY <1>1, <1>4, <1>5, <2>1, <2>2, <2>3 DEF SaidInv
<1>8. LoudInv'
  <2>1. \A i \in Loud : \/ \E u \in 1..Len(said') : i = said'[u].start + 1
                        \/ \E j \in Loud : j < i /\ i - 1 - j <= MaxPause
    <3> SUFFICES ASSUME NEW i \in Loud, ~\E j \in Loud : j < i /\ i - 1 - j <= MaxPause
                 PROVE  \E u \in 1..Len(said') : i = said'[u].start + 1
      OBVIOUS
    <3>1. PICK u \in 1..n : i = said[u].start + 1
      BY <1>0, <1>2 DEF LoudInv
    <3>2. u \in 1..Len(said')
      BY <1>2, <1>4, <3>1
    <3>3. QED
      BY <1>4, <3>1, <3>2
  <2>2. \A u \in 1..Len(said') : said'[u].end = Nil /\ said'[u].start < now => \E j \in Loud : now - j <= MaxPause
    <3> SUFFICES ASSUME NEW u \in 1..Len(said'), said'[u].end = Nil, said'[u].start < now
                 PROVE  \E j \in Loud : now - j <= MaxPause
      OBVIOUS
    <3>1. u \in 1..n
      BY <1>2, <1>3, <1>4
    <3>2. QED
      BY <1>0, <1>2, <1>4, <3>1 DEF LoudInv
  <2>3. ~(Len(said') = 0)
    BY <1>2, <1>4
  <2>4. QED
    BY <1>1, <1>5, <2>1, <2>2, <2>3 DEF LoudInv
<1>9. PlayoutInv'
  <2>1. ASSUME NEW p \in 1..Len(playouts)
        PROVE  /\ playouts[p].of \in 1..Len(said') /\ said'[playouts[p].of] = said[playouts[p].of]
    <3>1. playouts[p].of \in 1..n
      BY <1>0 DEF HeardInv, PlayoutInv
    <3>2. QED
      BY <1>2, <1>4, <3>1
  <2>2. QED
    BY <1>1, <2>1 DEF HeardInv, PlayoutInv
<1>10. QED
  BY <1>7, <1>8, <1>9 DEF HeardInv

(* A line ends: with the loud frame that just arrived.                     *)
LEMMA AgentStopsHeard ==
    ASSUME HeardInv, NEW cut \in BOOLEAN, AgentStops(cut)
    PROVE  HeardInv'
<1>0. PICK n : n = Len(said)
  OBVIOUS
<1>1. /\ UNCHANGED <<now, skew, rmsSamples, playouts>> /\ Talking /\ Last(said).start < now /\ rmsSamples[now]
      /\ said' = [said EXCEPT ![Len(said)] = [start |-> @.start, end |-> now - 1, cut |-> cut, told |-> FALSE]]
  BY DEF AgentStops
<1>2. /\ n \in Nat /\ now \in Nat /\ SaidInv /\ LoudInv /\ n >= 1 /\ n \in 1..n
      /\ \A u \in 1..n : /\ said[u] \in [start : Nat, end : Nat \cup {Nil}, cut : BOOLEAN, told : BOOLEAN]
                         /\ said[u].start \in Nat /\ said[u].end \in Nat \cup {Nil}
      /\ said[n].end = Nil /\ said[n].start < now
  BY <1>0, <1>1, SaidTypes DEF HeardInv, SaidInv
<1>3. PICK last : last = [start |-> said[n].start, end |-> now - 1, cut |-> cut, told |-> FALSE]
  OBVIOUS
<1>4. /\ last \in [start : Nat, end : Nat \cup {Nil}, cut : BOOLEAN, told : BOOLEAN]
      /\ last.start = said[n].start /\ last.end = now - 1 /\ now - 1 \in Nat
  <2>1. now - 1 \in Nat
    BY <1>2
  <2>2. QED
    BY <1>2, <1>3, <2>1
<1>5. /\ said' \in Seq([start : Nat, end : Nat \cup {Nil}, cut : BOOLEAN, told : BOOLEAN]) /\ Len(said') = n
      /\ \A u \in 1..n : u # n => said'[u] = said[u]
      /\ said'[n] = last
  <2>1. said \in Seq([start : Nat, end : Nat \cup {Nil}, cut : BOOLEAN, told : BOOLEAN])
    BY <1>2 DEF SaidInv
  <2>2. said' = [said EXCEPT ![n] = last]
    BY <1>0, <1>1, <1>2, <1>3, <2>1
  <2>3. QED
    BY <1>0, <1>2, <1>4, <2>1, <2>2
<1>6. Loud' = Loud
  BY <1>1 DEF Loud
<1>7. now \in Loud
  <2>1. rmsSamples \in Seq(BOOLEAN) /\ Len(rmsSamples) = now
    BY <1>2 DEF SaidInv
  <2>2. DOMAIN rmsSamples = 1..now /\ now \in 1..now
    BY <1>2, <2>1
  <2>3. QED
    BY <1>1, <2>2 DEF Loud
<1>8. \A u \in 1..n : said'[u].start = said[u].start
  BY <1>2, <1>4, <1>5
<1>9. SaidInv'
  <2>1. ASSUME NEW u \in 1..n
        PROVE  /\ said'[u].start <= now
               /\ said'[u].start < now => said'[u].start + 1 \in Loud
               /\ said'[u].end # Nil => said'[u].start <= said'[u].end /\ said'[u].end < now /\ said'[u].end + 1 \in Loud
               /\ \A j \in Loud : j <= said'[u].start => said'[u].start - j > Hangover
    <3>1. /\ said'[u].start <= now
          /\ said'[u].start < now => said'[u].start + 1 \in Loud
          /\ \A j \in Loud : j <= said'[u].start => said'[u].start - j > Hangover
      BY <1>0, <1>2, <1>8 DEF SaidInv
    <3>2. CASE u = n
      <4>1. said'[u].start <= said'[u].end /\ said'[u].end < now /\ said'[u].end + 1 = now
        BY <1>2, <1>4, <1>5, <3>2
      <4>2. QED
        BY <1>7, <3>1, <4>1
    <3>3. CASE u # n
      BY <1>0, <1>2, <1>5, <3>1, <3>3 DEF SaidInv
    <3>4. QED
      BY <3>2, <3>3
  <2>2. ASSUME NEW u \in 1..n, NEW v \in 1..n, v < u
        PROVE  said'[v].end # Nil /\ said'[v].end < said'[u].start
    <3>1. v # n
      BY <1>2, <2>2
    <3>2. said'[v] = said[v]
      BY <1>5, <3>1
    <3>3. said[v].end # Nil /\ said[v].end < said[u].start
      BY <1>0, <1>2, <2>2 DEF SaidInv
    <3>4. QED
      BY <1>8, <3>2, <3>3
  <2>3. now' \in Nat /\ rmsSamples' \in Seq(BOOLEAN) /\ Len(rmsSamples') = now'
    BY <1>1, <1>2 DEF SaidInv
  <2>4. /\ \A u \in 1..Len(said') :
              /\ said'[u].start <= now'
              /\ said'[u].start < now' => said'[u].start + 1 \in Loud'
              /\ said'[u].end # Nil => /\ said'[u].start <= said'[u].end /\ said'[u].end < now'
                                      /\ said'[u].end + 1 \in Loud'
              /\ \A j \in Loud' : j <= said'[u].start => said'[u].start - j > Hangover
        /\ \A u, v \in 1..Len(said') : v < u => said'[v].end # Nil /\ said'[v].end < said'[u].start
    <3>1. Len(said') = n /\ now' = now
      BY <1>1, <1>5
    <3>2. QED
      BY <1>6, <2>1, <2>2, <3>1
  <2>5. said' \in Seq([start : Nat, end : Nat \cup {Nil}, cut : BOOLEAN, told : BOOLEAN])
    BY <1>5
  <2>6. QED
    BY <2>3, <2>4, <2>5 DEF SaidInv
<1>10. LoudInv'
  <2>1. \A i \in Loud : \/ \E u \in 1..n : i = said'[u].start + 1
                        \/ \E j \in Loud : j < i /\ i - 1 - j <= MaxPause
    <3> SUFFICES ASSUME NEW i \in Loud, ~\E j \in Loud : j < i /\ i - 1 - j <= MaxPause
                 PROVE  \E u \in 1..n : i = said'[u].start + 1
      OBVIOUS
    <3>1. PICK u \in 1..n : i = said[u].start + 1
      BY <1>0, <1>2 DEF LoudInv
    <3>2. QED
      BY <1>8, <3>1
  <2>2. ASSUME NEW u \in 1..n, said'[u].end = Nil, said'[u].start < now
        PROVE  \E j \in Loud : now - j <= MaxPause
    <3>1. u # n
      BY <1>4, <1>5, <2>2
    <3>2. QED
      BY <1>0, <1>2, <1>5, <2>2, <3>1 DEF LoudInv
  <2>3. Len(said') = n /\ ~(n = 0) /\ now' = now
    BY <1>1, <1>2, <1>5
  <2>4. QED
    BY <1>6, <2>1, <2>2, <2>3 DEF LoudInv
<1>11. PlayoutInv'
  <2>1. ASSUME NEW p \in 1..Len(playouts)
        PROVE  playouts[p].of \in 1..n /\ said'[playouts[p].of] = said[playouts[p].of]
    <3>1. playouts[p].of \in 1..n /\ said[playouts[p].of].end # Nil
      BY <1>0 DEF HeardInv, PlayoutInv
    <3>2. QED
      BY <1>2, <1>5, <3>1
  <2>2. PlayoutInv /\ UNCHANGED <<now, skew, playouts>> /\ Len(said') = n
    BY <1>1, <1>5 DEF HeardInv
  <2>3. QED
    BY <2>1, <2>2 DEF PlayoutInv
<1>12. QED
  BY <1>9, <1>10, <1>11 DEF HeardInv

(* A frame arrives.                                                        *)
LEMMA FrameHeard ==
    ASSUME HeardInv, NEW loud \in BOOLEAN, Frame(loud)
    PROVE  HeardInv'
<1>0. PICK n, t : n = Len(said) /\ t = now
  OBVIOUS
<1>1. /\ UNCHANGED <<skew, said, playouts>> /\ now' = t + 1 /\ rmsSamples' = Append(rmsSamples, loud)
      /\ loud => Talking
      /\ Talking /\ ~loud => Last(said).start < t /\ SinceLoud < MaxPause
  BY <1>0 DEF Frame, audio
<1>2. /\ n \in Nat /\ t \in Nat /\ SaidInv /\ LoudInv /\ Loud \in SUBSET (1..t)
      /\ \A u \in 1..n : said[u].start \in Nat /\ said[u].end \in Nat \cup {Nil}
      /\ Talking <=> n >= 1 /\ said[n].end = Nil
      /\ Last(said) = said[n]
  BY <1>0, SaidTypes, LoudFrames DEF HeardInv
<1>3. rmsSamples' \in Seq(BOOLEAN) /\ Len(rmsSamples') = t + 1
  BY <1>0, <1>1, <1>2, InAppend DEF SaidInv
<1>4. Loud' = IF loud THEN Loud \cup {t + 1} ELSE Loud
  <2>1. rmsSamples \in Seq(BOOLEAN) /\ Len(rmsSamples) = t
    BY <1>0, <1>2 DEF SaidInv
  <2>2. /\ DOMAIN rmsSamples = 1..t /\ DOMAIN rmsSamples' = 1..(t + 1)
        /\ \A i \in 1..t : rmsSamples'[i] = rmsSamples[i]
        /\ rmsSamples'[t + 1] = loud
    BY <1>1, <1>3, <2>1, InAppend
  <2>3. \A i : i \in 1..(t + 1) <=> i \in 1..t \/ i = t + 1
    BY <1>2
  <2>4. \A i : i \in Loud' <=> i \in DOMAIN rmsSamples' /\ rmsSamples'[i]
    BY DEF Loud
  <2>5. \A i : i \in Loud <=> i \in DOMAIN rmsSamples /\ rmsSamples[i]
    BY DEF Loud
  <2>6. \A i : i \in Loud' <=> i \in Loud \/ (i = t + 1 /\ loud)
    BY <2>2, <2>3, <2>4, <2>5, Zenon
  <2>7. QED
    BY <2>6
<1>5. Loud \subseteq Loud' /\ \A i \in Loud' : i \in Loud \/ (i = t + 1 /\ loud)
  BY <1>4
<1>6. SaidInv'
  <2>1. ASSUME NEW u \in 1..n
        PROVE  /\ said[u].start <= t + 1
               /\ said[u].start < t + 1 => said[u].start + 1 \in Loud'
               /\ said[u].end # Nil => said[u].start <= said[u].end /\ said[u].end < t + 1 /\ said[u].end + 1 \in Loud'
               /\ \A j \in Loud' : j <= said[u].start => said[u].start - j > Hangover
    <3>1. /\ said[u].start <= t
          /\ said[u].start < t => said[u].start + 1 \in Loud
          /\ said[u].end # Nil => said[u].start <= said[u].end /\ said[u].end < t /\ said[u].end + 1 \in Loud
          /\ \A j \in Loud : j <= said[u].start => said[u].start - j > Hangover
      BY <1>0, <1>2 DEF SaidInv
    <3>2. said[u].start = t => loud
      <4> SUFFICES ASSUME said[u].start = t, ~loud PROVE FALSE
        OBVIOUS
      <4>1. said[u].end = Nil
        BY <1>2, <3>1
      <4>2. u = n
        <5>1. u < n => said[u].end # Nil
          BY <1>0, <1>2 DEF SaidInv
        <5>2. QED
          BY <1>2, <4>1, <5>1
      <4>3. QED
        BY <1>1, <1>2, <4>1, <4>2
    <3>3. said[u].start = t => said[u].start + 1 \in Loud'
      BY <1>4, <3>2
    <3>4. \A j \in Loud' : j <= said[u].start => j \in Loud
      BY <1>2, <1>5, <3>1
    <3>5. QED
      BY <1>2, <1>5, <3>1, <3>3, <3>4
  <2>2. \A u, v \in 1..n : v < u => said[v].end # Nil /\ said[v].end < said[u].start
    BY <1>0, <1>2 DEF SaidInv
  <2>3. said' = said /\ said \in Seq([start : Nat, end : Nat \cup {Nil}, cut : BOOLEAN, told : BOOLEAN])
    BY <1>1, <1>2 DEF SaidInv
  <2>4. now' \in Nat /\ Len(rmsSamples') = now'
    BY <1>1, <1>2, <1>3
  <2>5. QED
    BY <1>0, <1>1, <1>3, <2>1, <2>2, <2>3, <2>4 DEF SaidInv
<1>7. ASSUME Talking, said[n].start < t PROVE \E j \in Loud : j <= t /\ t - j <= MaxPause
  <2>1. n \in 1..n /\ said[n].end = Nil
    BY <1>2, <1>7
  <2>2. PICK j \in Loud : t - j <= MaxPause
    BY <1>0, <1>2, <1>7, <2>1 DEF LoudInv
  <2>3. QED
    BY <1>2, <2>2
<1>8. LoudInv'
  <2>1. Len(said) = 0 => Loud' = {}
    <3>1. Len(said) = 0 => ~Talking
      BY <1>0, <1>2
    <3>2. QED
      BY <1>1, <1>2, <1>4, <3>1 DEF LoudInv
  <2>2. ASSUME NEW i \in Loud'
        PROVE  \/ \E u \in 1..n : i = said[u].start + 1
               \/ \E j \in Loud' : j < i /\ i - 1 - j <= MaxPause
    <3>1. CASE i \in Loud
      BY <1>0, <1>2, <1>5, <3>1 DEF LoudInv
    <3>2. CASE i = t + 1 /\ loud
      <4>1. Talking /\ n \in 1..n /\ said[n].start <= t
        BY <1>0, <1>1, <1>2, <3>2 DEF SaidInv
      <4>2. CASE said[n].start = t
        BY <3>2, <4>1, <4>2
      <4>3. CASE said[n].start < t
        <5>1. PICK j \in Loud : j <= t /\ t - j <= MaxPause
          BY <1>7, <4>1, <4>3
        <5>2. j < i /\ i - 1 - j <= MaxPause
          BY <1>2, <3>2, <5>1
        <5>3. QED
          BY <1>5, <5>1, <5>2
      <4>4. QED
        BY <1>2, <4>1, <4>2, <4>3
    <3>3. QED
      BY <1>5, <3>1, <3>2
  <2>3. ASSUME NEW u \in 1..n, said[u].end = Nil, said[u].start < t + 1
        PROVE  \E j \in Loud' : t + 1 - j <= MaxPause
    <3>1. u = n
      <4>1. u < n => said[u].end # Nil
        BY <1>0, <1>2 DEF SaidInv
      <4>2. QED
        BY <1>2, <2>3, <4>1
    <3>2. Talking
      BY <1>2, <2>3, <3>1
    <3>3. CASE loud
      <4>1. t + 1 \in Loud' /\ t + 1 - (t + 1) <= MaxPause
        BY <1>2, <1>4, <3>3
      <4>2. QED
        BY <4>1
    <3>4. CASE ~loud
      <4>1. said[n].start < t /\ SinceLoud < MaxPause
        BY <1>1, <1>2, <3>2, <3>4
      <4>2. PICK j \in Loud : TRUE
        BY <1>7, <3>2, <4>1
      <4>3. PICK m \in Loud : SinceLoud = t - m
        BY <1>0, <1>2, <4>2, LoudFrames
      <4>4. t + 1 - m <= MaxPause
        BY <1>2, <4>1, <4>3
      <4>5. QED
        BY <1>5, <4>3, <4>4
    <3>5. QED
      BY <3>3, <3>4
  <2>4. UNCHANGED said /\ now' = t + 1 /\ Len(said') = n
    BY <1>0, <1>1
  <2>5. \A i \in Loud' : \/ \E u \in 1..Len(said') : i = said'[u].start + 1
                         \/ \E j \in Loud' : j < i /\ i - 1 - j <= MaxPause
    BY <2>2, <2>4
  <2>6. \A u \in 1..Len(said') : said'[u].end = Nil /\ said'[u].start < now' => \E j \in Loud' : now' - j <= MaxPause
    <3> SUFFICES ASSUME NEW u \in 1..Len(said'), said'[u].end = Nil, said'[u].start < now'
                 PROVE  \E j \in Loud' : now' - j <= MaxPause
      OBVIOUS
    <3>1. u \in 1..n /\ said[u].end = Nil /\ said[u].start < t + 1
      BY <2>4
    <3>2. PICK j \in Loud' : t + 1 - j <= MaxPause
      BY <2>3, <3>1
    <3>3. j \in Int /\ now' = t + 1 /\ t \in Int
      BY <1>2, <1>5, <2>4
    <3>4. QED
      BY <3>2, <3>3
  <2>7. Len(said') = 0 => Loud' = {}
    BY <2>1, <2>4
  <2>8. QED
    BY <2>5, <2>6, <2>7 DEF LoudInv
<1>9. PlayoutInv'
  <2>1. PlayoutInv /\ UNCHANGED <<skew, said, playouts>> /\ now' = now + 1
    BY <1>0, <1>1 DEF HeardInv
  <2>2. ASSUME NEW p \in 1..Len(playouts) PROVE playouts[p].at <= now' + skew
    <3>1. playouts \in Seq([at : Int, interrupted : BOOLEAN, of : Nat])
      BY <2>1 DEF PlayoutInv
    <3>2. playouts[p] \in [at : Int, interrupted : BOOLEAN, of : Nat]
      BY <3>1, ElementOfSeq
    <3>3. playouts[p].at <= now + skew /\ skew \in Int
      BY <2>1 DEF PlayoutInv
    <3>4. QED
      BY <1>0, <1>2, <2>1, <3>2, <3>3
  <2>3. QED
    BY <2>1, <2>2 DEF PlayoutInv
<1>10. QED
  BY <1>6, <1>8, <1>9 DEF HeardInv

(* A line's playout is reported.                                           *)
LEMMA ReportHeard ==
    ASSUME HeardInv, NEW i \in DOMAIN said, Report(i)
    PROVE  HeardInv'
<1> DEFINE row == [at |-> now + skew, interrupted |-> said[i].cut, of |-> i]
<1>0. PICK n : n = Len(said)
  OBVIOUS
<1>1. /\ UNCHANGED <<now, skew, rmsSamples>>
      /\ said[i].end # Nil /\ now - said[i].end \in 1..MaxReportDelay
      /\ said' = [said EXCEPT ![i].told = TRUE]
      /\ playouts' = Append(playouts, row)
  BY DEF Report
<1>2. /\ n \in Nat /\ now \in Nat /\ SaidInv /\ LoudInv /\ PlayoutInv /\ skew \in Int
      /\ said \in Seq([start : Nat, end : Nat \cup {Nil}, cut : BOOLEAN, told : BOOLEAN])
      /\ playouts \in Seq([at : Int, interrupted : BOOLEAN, of : Nat])
      /\ \A u \in 1..n : /\ said[u] \in [start : Nat, end : Nat \cup {Nil}, cut : BOOLEAN, told : BOOLEAN]
                         /\ said[u].start \in Nat /\ said[u].end \in Nat \cup {Nil}
  BY <1>0, SaidTypes DEF HeardInv, SaidInv, PlayoutInv
<1>3. i \in 1..n /\ said[i].end \in Nat
  BY <1>0, <1>1, <1>2
<1>4. /\ said' \in Seq([start : Nat, end : Nat \cup {Nil}, cut : BOOLEAN, told : BOOLEAN]) /\ Len(said') = n
      /\ \A u \in 1..n : said'[u].start = said[u].start /\ said'[u].end = said[u].end
  <2>1. PICK told : told = [said[i] EXCEPT !.told = TRUE]
    OBVIOUS
  <2>2. /\ told \in [start : Nat, end : Nat \cup {Nil}, cut : BOOLEAN, told : BOOLEAN]
        /\ told.start = said[i].start /\ told.end = said[i].end
    BY <1>2, <1>3, <2>1
  <2>3. said' = [said EXCEPT ![i] = told]
    BY <1>1, <2>1
  <2>4. /\ said' \in Seq([start : Nat, end : Nat \cup {Nil}, cut : BOOLEAN, told : BOOLEAN]) /\ Len(said') = n
        /\ \A u \in 1..n : u # i => said'[u] = said[u]
        /\ said'[i] = told
    BY <1>0, <1>2, <1>3, <2>2, <2>3
  <2>5. QED
    BY <2>2, <2>4
<1>5. row \in [at : Int, interrupted : BOOLEAN, of : Nat] /\ row.at = now + skew /\ row.of = i
  BY <1>2, <1>3
<1> HIDE DEF row
<1>6. /\ playouts' \in Seq([at : Int, interrupted : BOOLEAN, of : Nat]) /\ Len(playouts') = Len(playouts) + 1
      /\ Len(playouts) \in Nat
      /\ \A p \in 1..Len(playouts) : playouts'[p] = playouts[p]
      /\ playouts'[Len(playouts) + 1] = row
      /\ \A p \in 1..Len(playouts') : p \in 1..Len(playouts) \/ p = Len(playouts) + 1
  <2>1. playouts \in Seq([at : Int, interrupted : BOOLEAN, of : Nat])
    BY <1>2
  <2>2. playouts' = Append(playouts, row)
    BY <1>1
  <2>3. QED
    BY <1>5, <2>1, <2>2, InAppend
<1>7. Loud' = Loud
  BY <1>1 DEF Loud
<1>8. SaidInv'
  <2>1. ASSUME NEW u \in 1..n
        PROVE  /\ said'[u].start <= now
               /\ said'[u].start < now => said'[u].start + 1 \in Loud
               /\ said'[u].end # Nil => said'[u].start <= said'[u].end /\ said'[u].end < now /\ said'[u].end + 1 \in Loud
               /\ \A j \in Loud : j <= said'[u].start => said'[u].start - j > Hangover
    BY <1>0, <1>2, <1>4 DEF SaidInv
  <2>2. \A u, v \in 1..n : v < u => said'[v].end # Nil /\ said'[v].end < said'[u].start
    BY <1>0, <1>2, <1>4 DEF SaidInv
  <2>3. now' \in Nat /\ rmsSamples' \in Seq(BOOLEAN) /\ Len(rmsSamples') = now'
    BY <1>1, <1>2 DEF SaidInv
  <2>4. /\ said' \in Seq([start : Nat, end : Nat \cup {Nil}, cut : BOOLEAN, told : BOOLEAN]) /\ Len(said') = n
        /\ \A u, v \in 1..n : v < u => said'[v].end # Nil /\ said'[v].end < said'[u].start
    BY <1>4, <2>2
  <2>5. now' = now
    BY <1>1
  <2>6. QED
    BY <1>7, <2>1, <2>3, <2>4, <2>5 DEF SaidInv
<1>9. LoudInv'
  <2>1. ASSUME NEW k \in Loud
        PROVE  \/ \E u \in 1..n : k = said'[u].start + 1
               \/ \E j \in Loud : j < k /\ k - 1 - j <= MaxPause
    <3> SUFFICES ASSUME ~\E j \in Loud : j < k /\ k - 1 - j <= MaxPause
                 PROVE  \E u \in 1..n : k = said'[u].start + 1
      OBVIOUS
    <3>1. PICK u \in 1..n : k = said[u].start + 1
      BY <1>0, <1>2 DEF LoudInv
    <3>2. QED
      BY <1>4, <3>1
  <2>2. ASSUME NEW u \in 1..n, said'[u].end = Nil, said'[u].start < now
        PROVE  \E j \in Loud : now - j <= MaxPause
    BY <1>0, <1>2, <1>4, <2>2 DEF LoudInv
  <2>3. Len(said') = n /\ n # 0 /\ now' = now
    BY <1>1, <1>2, <1>3, <1>4
  <2>4. QED
    BY <1>7, <2>1, <2>2, <2>3 DEF LoudInv
<1>10. PlayoutInv'
  <2>1. ASSUME NEW p \in 1..Len(playouts')
        PROVE  /\ playouts'[p].of \in 1..n /\ said'[playouts'[p].of].end # Nil
               /\ playouts'[p].at >= said'[playouts'[p].of].end + 1 + skew
               /\ playouts'[p].at <= said'[playouts'[p].of].end + MaxReportDelay + skew
               /\ playouts'[p].at <= now + skew
    <3>1. CASE p \in 1..Len(playouts)
      <4>1. /\ playouts[p].of \in 1..n /\ said[playouts[p].of].end # Nil
            /\ playouts[p].at >= said[playouts[p].of].end + 1 + skew
            /\ playouts[p].at <= said[playouts[p].of].end + MaxReportDelay + skew
            /\ playouts[p].at <= now + skew
        BY <1>0, <1>2, <3>1 DEF PlayoutInv
      <4>2. said'[playouts[p].of].end = said[playouts[p].of].end
        BY <1>4, <4>1
      <4>3. QED
        BY <1>6, <3>1, <4>1, <4>2
    <3>2. CASE p = Len(playouts) + 1
      <4>1. playouts'[p].of = i /\ playouts'[p].at = now + skew /\ said'[i].end = said[i].end
        BY <1>3, <1>4, <1>5, <1>6, <3>2
      <4>2. PICK e \in Nat : e = said[i].end
        BY <1>3
      <4>3. now - e >= 1 /\ now - e <= MaxReportDelay /\ MaxReportDelay \in Nat
        BY <1>1, <4>2
      <4>4. now + skew >= e + 1 + skew /\ now + skew <= e + MaxReportDelay + skew /\ e # Nil
        BY <1>2, <4>3
      <4>5. QED
        BY <1>2, <1>3, <4>1, <4>2, <4>4
    <3>3. QED
      BY <1>6, <3>1, <3>2
  <2>2. ASSUME NEW p \in 1..Len(playouts'), NEW q \in 1..Len(playouts'), p < q
        PROVE  playouts'[p].at <= playouts'[q].at
    <3>1. p \in 1..Len(playouts)
      BY <1>6, <2>2
    <3>2. CASE q \in 1..Len(playouts)
      BY <1>2, <1>6, <2>2, <3>1, <3>2 DEF PlayoutInv
    <3>3. CASE q = Len(playouts) + 1
      <4>1. playouts[p].at <= now + skew
        BY <1>2, <3>1 DEF PlayoutInv
      <4>2. QED
        BY <1>5, <1>6, <3>1, <3>3, <4>1
    <3>4. QED
      BY <1>6, <3>2, <3>3
  <2>3. skew' \in -MaxSkew..MaxSkew /\ skew' = skew /\ now' = now
    BY <1>1, <1>2 DEF PlayoutInv
  <2>4. QED
    BY <1>4, <1>6, <2>1, <2>2, <2>3 DEF PlayoutInv
<1>11. QED
  BY <1>8, <1>9, <1>10 DEF HeardInv

LEMMA HeardStep == HeardInv /\ [BNext]_bvars => HeardInv'
<1> SUFFICES ASSUME HeardInv, [BNext]_bvars PROVE HeardInv'
  OBVIOUS
<1>1. CASE UNCHANGED <<now, skew, rmsSamples, said, playouts>>
  <2>1. Loud' = Loud
    BY <1>1 DEF Loud
  <2>2. QED
    BY <1>1, <2>1 DEF HeardInv, SaidInv, LoudInv, PlayoutInv
<1>2. CASE UNCHANGED bvars
  BY <1>1, <1>2 DEF bvars, audio
<1>3. CASE Delta \/ SpeakStarts \/ SpeakEnds \/ Final \/ ScriptEnds \/ CallFails \/ TurnStarts
  <2>1. UNCHANGED <<now, skew, audio, playouts>>
    BY <1>3 DEF Delta, SpeakStarts, SpeakEnds, Final, ScriptEnds, CallFails, TurnStarts
  <2>2. QED
    BY <1>1, <2>1 DEF audio
<1>4. QED
  BY <1>2, <1>3, AgentStartsHeard, AgentStopsHeard, FrameHeard, ReportHeard DEF BNext

-----------------------------------------------------------------------------
(* What it makes of it.                                                    *)

(* The onsets are the first frames of the lines.                           *)
LEMMA OnsetsAreStarts ==
    ASSUME HeardInv, MaxPause < Hangover
    PROVE  /\ Onsets \in SUBSET (1..now) /\ now \in Nat
           /\ \A i \in Onsets : \E u \in 1..Len(said) : i = said[u].start + 1
           /\ \A u \in 1..Len(said) : said[u].start < now => said[u].start + 1 \in Onsets
<1>1. Loud \in SUBSET (1..now) /\ now \in Nat /\ Hangover \in Nat /\ MaxPause \in Nat
  BY LoudFrames DEF HeardInv
<1>2. Onsets \in SUBSET (1..now)
  BY <1>1 DEF Onsets
<1>3. ASSUME NEW i \in Onsets PROVE \E u \in 1..Len(said) : i = said[u].start + 1
  <2>1. i \in Loud /\ \A j \in Loud : j < i => i - 1 - j >= Hangover
    BY DEF Onsets
  <2>2. ~\E j \in Loud : j < i /\ i - 1 - j <= MaxPause
    <3> SUFFICES ASSUME NEW j \in Loud, j < i, i - 1 - j <= MaxPause PROVE FALSE
      OBVIOUS
    <3>1. i - 1 - j >= Hangover
      BY <2>1
    <3>2. i \in Int /\ j \in Int
      BY <1>1, <2>1
    <3>3. QED
      BY <1>1, <3>1, <3>2
  <2>3. QED
    BY <2>1, <2>2 DEF HeardInv, LoudInv
<1>4. ASSUME NEW u \in 1..Len(said), said[u].start < now PROVE said[u].start + 1 \in Onsets
  <2>1. /\ said[u].start + 1 \in Loud
        /\ \A j \in Loud : j <= said[u].start => said[u].start - j > Hangover
    BY <1>4 DEF HeardInv, SaidInv
  <2>2. PICK s \in Nat : s = said[u].start
    BY SaidTypes DEF HeardInv
  <2>3. PICK o \in Int : o = s + 1
    OBVIOUS
  <2>4. o \in Loud /\ \A j \in Loud : j < o => o - 1 - j >= Hangover
    <3>1. o \in Loud
      BY <2>1, <2>2, <2>3
    <3>2. ASSUME NEW j \in Loud, j < o PROVE o - 1 - j >= Hangover
      <4>1. j \in Int /\ j <= s
        BY <1>1, <2>3, <3>2
      <4>2. s - j > Hangover
        BY <2>1, <2>2, <4>1
      <4>3. QED
        BY <1>1, <2>3, <4>1, <4>2
    <3>3. QED
      BY <3>1, <3>2
  <2>5. o \in Onsets
    BY <2>4 DEF Onsets
  <2>6. QED
    BY <2>2, <2>3, <2>5
<1>5. QED
  BY <1>1, <1>2, <1>3, <1>4

LEMMA NextOnsetIsNext ==
    ASSUME HeardInv, MaxPause < Hangover, NEW i \in Onsets
    PROVE  /\ NextOnset(i) # Nil => NextOnset(i) \in Nat /\ NextOnset(i) > i
           /\ \A o \in Onsets : o > i => NextOnset(i) # Nil /\ NextOnset(i) <= o
<1> DEFINE later == {o \in Onsets : o > i}
<1>1. Onsets \in SUBSET Nat
  BY OnsetsAreStarts
<1>2. CASE later = {}
  BY <1>2 DEF NextOnset
<1>3. CASE later # {}
  <2>1. later \in SUBSET Nat
    BY <1>1
  <2>2. \E x \in later : \A y \in later : x <= y
    BY <1>3, <2>1, LeastExists
  <2>3. Min(later) \in later /\ \A y \in later : Min(later) <= y
    BY <2>2 DEF Min
  <2>4. NextOnset(i) = Min(later)
    BY <1>3 DEF NextOnset
  <2>5. NextOnset(i) \in Nat /\ NextOnset(i) > i /\ NextOnset(i) # Nil
    <3>1. NextOnset(i) \in Onsets /\ NextOnset(i) > i
      BY <2>3, <2>4
    <3>2. NextOnset(i) \in Nat
      BY <1>1, <3>1
    <3>3. QED
      BY <3>1, <3>2
  <2>6. QED
    BY <2>3, <2>4, <2>5
<1>4. QED
  BY <1>2, <1>3

LEMMA WindowHoldsOnset ==
    ASSUME HeardInv, MaxPause < Hangover, NEW i \in Onsets
    PROVE  /\ speechWindows[i].start = i - 1
           /\ speechWindows[i].end \in Int /\ i - 1 <= speechWindows[i].end
<1> DEFINE stretch == {j \in Loud : j >= i /\ (NextOnset(i) = Nil \/ j < NextOnset(i))}
<1>1. Loud \in SUBSET (1..now) /\ now \in Nat /\ i \in Loud
  BY LoudFrames DEF HeardInv, Onsets
<1>2. i \in stretch
  BY <1>1, NextOnsetIsNext
<1>3. stretch \in SUBSET (1..now)
  BY <1>1
<1>4. speechWindows[i] = [start |-> i - 1, end |-> Max(stretch) - 1]
  BY DEF speechWindows
<1> HIDE DEF stretch
<1>5. \E x \in stretch : \A y \in stretch : y <= x
  BY <1>1, <1>2, <1>3, GreatestExists
<1>6. \E x \in stretch : \A y \in stretch : x >= y
  <2>1. \A x, y \in stretch : y <= x => x >= y
    BY <1>1, <1>3
  <2>2. QED
    BY <1>5, <2>1
<1>7. Max(stretch) \in stretch /\ \A y \in stretch : Max(stretch) >= y
  BY <1>6 DEF Max
<1>8. Max(stretch) \in Int /\ i \in Int
  <2>1. stretch \subseteq Int /\ i \in Int
    BY <1>1, <1>3
  <2>2. QED
    BY <1>7, <2>1
<1>9. Max(stretch) >= i
  BY <1>2, <1>7
<1>10. QED
  BY <1>4, <1>8, <1>9

LEMMA PlayoutsTimed == HeardInv => Timed(playouts)
<1> SUFFICES ASSUME HeardInv PROVE Timed(playouts)
  OBVIOUS
<1>1. playouts \in Seq([at : Int, interrupted : BOOLEAN, of : Nat])
  BY DEF HeardInv, PlayoutInv
<1>2. Len(playouts) \in Nat /\ DOMAIN playouts = 1..Len(playouts)
  BY <1>1
<1>3. \A p \in 1..Len(playouts) : playouts[p] \in [at : Int, interrupted : BOOLEAN, of : Nat]
  BY <1>1, ElementOfSeq
<1>4. \A p \in 1..Len(playouts) : playouts[p].at \in Int
  BY <1>3
<1>5. QED
  BY <1>2, <1>4 DEF Timed, HeardInv, PlayoutInv

LEMMA TruthIsOfItsLine ==
    ASSUME HeardInv, MaxPause < Hangover, MaxReportDelay + MaxSkew + Grace <= Hangover + 1, MaxSkew <= 1
    PROVE  TruthIsOwn
<1> SUFFICES ASSUME NEW i \in Onsets, withPlayoutTruth[i] # Nil
             PROVE  said[playouts[withPlayoutTruth[i]].of].start \in speechWindows[i].start..speechWindows[i].end
  BY DEF TruthIsOwn
<1> DEFINE until == IF NextOnset(i) = Nil THEN Nil ELSE NextOnset(i) - 1
<1>1. PICK p : p = withPlayoutTruth[i]
  OBVIOUS
<1>2. p = FirstIn(playouts, DOMAIN playouts, i - 1 - Grace, until) /\ p # Nil
  BY <1>1 DEF withPlayoutTruth
<1>3. InWindow(playouts, DOMAIN playouts, i - 1 - Grace, until, p)
  <2>1. \E k : InWindow(playouts, DOMAIN playouts, i - 1 - Grace, until, k)
    BY <1>2, NothingInWindow
  <2>2. QED
    BY <1>2, <2>1, PlayoutsTimed, FirstInWindow
<1>4. p \in 1..Len(playouts) /\ playouts[p].at >= i - 1 - Grace /\ (until = Nil \/ playouts[p].at < until)
  BY <1>3, PlayoutsTimed DEF InWindow, Timed
<1>5. PICK u \in 1..Len(said) : i = said[u].start + 1
  BY OnsetsAreStarts
<1>6. PICK v \in 1..Len(said) : v = playouts[p].of
  BY <1>4 DEF HeardInv, PlayoutInv
<1>7. PICK at \in Int, su \in Nat, sv \in Nat, ev \in Nat :
         at = playouts[p].at /\ su = said[u].start /\ sv = said[v].start /\ ev = said[v].end
  <2>1. playouts[p].at \in Int
    BY <1>4, PlayoutsTimed DEF Timed
  <2>2. said[v].end # Nil
    BY <1>4, <1>6 DEF HeardInv, PlayoutInv
  <2>3. said[u].start \in Nat /\ said[v].start \in Nat /\ said[v].end \in Nat
    BY <2>2, SaidTypes DEF HeardInv
  <2>4. QED
    BY <2>1, <2>3
<1>8. /\ at >= ev + 1 + skew /\ at <= ev + MaxReportDelay + skew /\ skew \in -MaxSkew..MaxSkew
      /\ sv <= ev /\ ev < now /\ ev + 1 \in Loud /\ now \in Nat
  BY <1>4, <1>6, <1>7 DEF HeardInv, PlayoutInv, SaidInv
<1>9. Hangover \in Nat /\ Grace \in Nat /\ MaxReportDelay \in Nat /\ MaxSkew \in Nat /\ i = su + 1
  BY <1>5, <1>7
<1>10. ~(v < u)
  <2> SUFFICES ASSUME v < u PROVE FALSE
    OBVIOUS
  <2>1. ev < su
    BY <1>7 DEF HeardInv, SaidInv
  <2>2. \A j \in Loud : j <= su => su - j > Hangover
    BY <1>7 DEF HeardInv, SaidInv
  <2>3. ev + 1 <= su
    BY <2>1
  <2>4. su - (ev + 1) > Hangover
    BY <1>8, <2>2, <2>3
  <2>5. at >= i - 1 - Grace
    BY <1>4, <1>7
  <2>6. at >= su - Grace
    BY <1>9, <2>5
  <2>7. PICK sk \in Int : sk = skew /\ sk <= MaxSkew
    BY <1>8, <1>9
  <2>8. at <= ev + MaxReportDelay + sk
    BY <1>8, <2>7
  <2>9. QED
    BY <1>9, <2>4, <2>6, <2>7, <2>8
<1>11. ~(u < v)
  <2> SUFFICES ASSUME u < v PROVE FALSE
    OBVIOUS
  <2>1. said[u].end # Nil /\ said[u].end < said[v].start /\ said[u].start <= said[u].end
    BY DEF HeardInv, SaidInv
  <2>2. PICK eu \in Nat : eu = said[u].end
    BY <2>1, SaidTypes DEF HeardInv
  <2>3. eu < sv /\ su <= eu
    BY <1>7, <2>1, <2>2
  <2>4. su < sv /\ sv < now
    BY <1>8, <2>3
  <2>5. sv + 1 \in Onsets
    BY <1>7, <2>4, OnsetsAreStarts
  <2>6. sv + 1 > i
    BY <1>9, <2>4
  <2>7. NextOnset(i) # Nil /\ NextOnset(i) \in Nat /\ NextOnset(i) <= sv + 1
    BY <2>5, <2>6, NextOnsetIsNext
  <2>8. until # Nil /\ until = NextOnset(i) - 1
    BY <2>7
  <2>9. at < NextOnset(i) - 1
    BY <1>4, <1>7, <2>8
  <2>10. PICK sk \in Int : sk = skew /\ -MaxSkew <= sk
    BY <1>8, <1>9
  <2>11. at >= ev + 1 + sk
    BY <1>8, <2>10
  <2>12. PICK no \in Nat : no = NextOnset(i)
    BY <2>7
  <2>13. at < no - 1 /\ no <= sv + 1
    BY <2>7, <2>9, <2>12
  <2>14. QED
    BY <1>8, <1>9, <2>10, <2>11, <2>13
<1>12. u = v
  <2>1. Len(said) \in Nat
    BY SaidTypes DEF HeardInv
  <2>2. QED
    BY <1>10, <1>11, <2>1
<1>13. said[playouts[p].of].start = i - 1 /\ i \in Int
  <2>1. said[playouts[p].of].start = su
    BY <1>6, <1>7, <1>12
  <2>2. su = i - 1 /\ i \in Int
    BY <1>9
  <2>3. QED
    BY <2>1, <2>2
<1>14. speechWindows[i].start = i - 1 /\ speechWindows[i].end \in Int /\ i - 1 <= speechWindows[i].end
  BY WindowHoldsOnset
<1>15. QED
  BY <1>1, <1>13, <1>14

(* A stretch of audio is told apart by the report of its own line: where   *)
(* lines keep more apart than they pause and than their reports take.      *)
THEOREM TruthIsOfTheLine ==
    ASSUME MaxPause < Hangover, MaxReportDelay + MaxSkew + Grace <= Hangover + 1, MaxSkew <= 1
    PROVE  BSpec => []TruthIsOwn
<1>1. HeardInv => TruthIsOwn
  BY TruthIsOfItsLine
<1>2. QED
  BY <1>1, HeardInitially, HeardStep, PTL DEF BSpec
=============================================================================
