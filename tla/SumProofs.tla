------------------------------ MODULE SumProofs ------------------------------
(***************************************************************************)
(* What the sums and the filters of the models compute.  MapThenSumSet     *)
(* adds the elements of a finite set one after the other in an order it    *)
(* does not tell, and Filtered walks along a list, so each of these facts  *)
(* is an induction, over the finite sets or over the sequences.  The       *)
(* library's induction theorems take a predicate; here the induction is    *)
(* over a set of sets, of numbers or of sequences, from the orderings that *)
(* are well-founded.                                                       *)
(***************************************************************************)
EXTENDS Integers, FiniteSets, FiniteSetsExt, SequencesExt, Functions, Filters,
        FiniteSetTheorems, SequenceTheorems, WellFoundedInduction, TLAPS

\* A set of subsets that has a set whenever it has that set without any one of its
\* elements has all of them.
LEMMA SubsetInduction ==
    ASSUME NEW S, IsFiniteSet(S), NEW G,
           \A T \in SUBSET S : (\A x \in T : T \ {x} \in G) => T \in G
    PROVE  SUBSET S \subseteq G
<1> DEFINE Bad == {T \in SUBSET S : T \notin G}
<1> SUFFICES ASSUME Bad # {} PROVE FALSE
  OBVIOUS
<1>1. Bad \subseteq FiniteSubsetsOf(S)
  BY FS_Subset DEF FiniteSubsetsOf
<1>2. PICK T \in Bad : \A U \in Bad : <<U, T>> \notin StrictSubsetOrdering(S)
  BY <1>1, FS_StrictSubsetOrderingWellFounded, WFMin
<1>3. ASSUME NEW x \in T PROVE T \ {x} \in G
  <2> DEFINE U == T \ {x}
  <2>1. U \in SUBSET S /\ U \subseteq T /\ U # T
    OBVIOUS
  <2>2. <<U, T>> \in StrictSubsetOrdering(S)
    BY <2>1 DEF StrictSubsetOrdering
  <2>3. U \notin Bad
    BY <1>2, <2>2
  <2> QED BY <2>1, <2>3
<1> QED BY <1>2, <1>3

\* The recursion of MapThenSumSet on the subsets of a set.
Body(g, f, s) ==
    IF s = {} THEN 0
    ELSE f[CHOOSE x \in s : TRUE] + g[s \ {CHOOSE x \in s : TRUE}]
Summing(g, f, S) == g = [s \in SUBSET S |-> Body(g, f, s)]

\* The sum of f over S, as the models write it.
SumOf(f, S) == MapThenSumSet(LAMBDA x : f[x], S)

\* Two solutions of the recursion agree on the sets they share.
LEMMA SummingAgree ==
    ASSUME NEW f, NEW A, NEW B, NEW S, IsFiniteSet(S), S \subseteq A, S \subseteq B,
           NEW g1, NEW g2, Summing(g1, f, A), Summing(g2, f, B)
    PROVE  \A T \in SUBSET S : g1[T] = g2[T]
<1> DEFINE G == {T \in SUBSET S : g1[T] = g2[T]}
<1>1. ASSUME NEW T \in SUBSET S, \A x \in T : T \ {x} \in G PROVE T \in G
  <2> DEFINE c == CHOOSE x \in T : TRUE
  <2>1. g1[T] = Body(g1, f, T) /\ g2[T] = Body(g2, f, T)
    BY DEF Summing
  <2>2. CASE T = {}
    BY <2>1, <2>2 DEF Body
  <2>3. CASE T # {}
    <3>1. c \in T
      BY <2>3
    <3>2. g1[T \ {c}] = g2[T \ {c}]
      BY <1>1, <3>1
    <3>3. g1[T] = f[c] + g1[T \ {c}] /\ g2[T] = f[c] + g2[T \ {c}]
      BY <2>1, <2>3 DEF Body
    <3> QED BY <3>2, <3>3
  <2> QED BY <2>2, <2>3
<1> HIDE DEF G
<1>2. SUBSET S \subseteq G
  BY <1>1, SubsetInduction
<1> QED BY <1>2 DEF G

\* The recursion has a solution.
LEMMA SummingExists ==
    ASSUME NEW f, NEW S, IsFiniteSet(S)
    PROVE  \E g : Summing(g, f, S)
<1> DEFINE G == {T \in SUBSET S : \E g : Summing(g, f, T)}
<1>1. ASSUME NEW T \in SUBSET S, \A x \in T : T \ {x} \in G PROVE T \in G
  <2> DEFINE gg(x) == CHOOSE g : Summing(g, f, T \ {x})
             c(V) == CHOOSE x \in V : TRUE
             w(V) == c(T \ V)
             smaller(V) == gg(w(V))[V]
             h == [V \in SUBSET T |->
                     IF V = T THEN IF T = {} THEN 0 ELSE f[c(T)] + smaller(T \ {c(T)})
                     ELSE smaller(V)]
  <2>1. \A x \in T : Summing(gg(x), f, T \ {x})
    BY <1>1
  <2>2. IsFiniteSet(T)
    BY FS_Subset
  <2>3. ASSUME NEW V \in SUBSET T, V # T
        PROVE  w(V) \in T /\ w(V) \notin V /\ V \in SUBSET (T \ {w(V)})
    <3>1. T \ V # {}
      BY <2>3
    <3>2. w(V) \in T \ V
      BY <3>1
    <3> QED BY <3>2
  <2>4. ASSUME NEW V \in SUBSET T, V # T, V # {}
        PROVE  smaller(V) = f[c(V)] + smaller(V \ {c(V)})
    <3> DEFINE W == V \ {c(V)}
    <3>1. c(V) \in V
      BY <2>4
    <3>2. W \in SUBSET T /\ W # T /\ W \in SUBSET V
      BY <2>4, <3>1
    <3>3. w(V) \in T /\ V \in SUBSET (T \ {w(V)}) /\ w(W) \in T /\ W \in SUBSET (T \ {w(W)})
      BY <2>3, <2>4, <3>2
    <3>4. Summing(gg(w(V)), f, T \ {w(V)}) /\ Summing(gg(w(W)), f, T \ {w(W)})
      BY <2>1, <3>3
    <3>5. gg(w(V))[V] = f[c(V)] + gg(w(V))[W]
      <4>1. gg(w(V))[V] = Body(gg(w(V)), f, V)
        BY <3>3, <3>4 DEF Summing
      <4> HIDE DEF gg, w
      <4> QED BY <4>1, <2>4 DEF Body
    <3>6. gg(w(V))[W] = gg(w(W))[W]
      <4>1. IsFiniteSet(W)
        BY <2>2, <3>2, FS_Subset
      <4>2. W \subseteq T \ {w(V)} /\ W \subseteq T \ {w(W)} /\ W \in SUBSET W
        BY <3>2, <3>3
      <4> DEFINE A == T \ {w(V)}
                 B == T \ {w(W)}
                 g1 == gg(w(V))
                 g2 == gg(w(W))
      <4>3. Summing(g1, f, A) /\ Summing(g2, f, B) /\ W \subseteq A /\ W \subseteq B
        BY <3>4, <4>2
      <4> HIDE DEF A, B, g1, g2, W
      <4>4. g1[W] = g2[W]
        BY <4>1, <4>2, <4>3, SummingAgree
      <4> QED BY <4>4 DEF g1, g2
    <3> QED BY <3>5, <3>6
  <2>5. ASSUME NEW V \in SUBSET T PROVE h[V] = Body(h, f, V)
    <3>1. CASE V = {}
      <4>1. CASE T = {}
        BY <3>1, <4>1 DEF Body
      <4>2. CASE T # {}
        <5>1. Summing(gg(w({})), f, T \ {w({})})
          BY <2>1, <2>3, <4>2
        <5>2. gg(w({}))[{}] = 0
          <6> HIDE DEF gg, w
          <6> QED BY <5>1 DEF Summing, Body
        <5>3. h[V] = smaller({})
          BY <3>1, <4>2
        <5> QED BY <3>1, <5>2, <5>3 DEF Body
      <4> QED BY <4>1, <4>2
    <3>2. CASE V # {}
      <4>1. c(V) \in V /\ V \ {c(V)} \in SUBSET T /\ V \ {c(V)} # T
        BY <3>2
      <4>2. h[V \ {c(V)}] = smaller(V \ {c(V)})
        BY <4>1
      <4>3. h[V] = f[c(V)] + smaller(V \ {c(V)})
        <5>1. CASE V = T
          BY <5>1, <3>2
        <5>2. CASE V # T
          <6>1. h[V] = smaller(V)
            BY <5>2
          <6> QED BY <6>1, <5>2, <3>2, <2>4
        <5> QED BY <5>1, <5>2
      <4> HIDE DEF h, smaller
      <4> QED BY <3>2, <4>2, <4>3 DEF Body
    <3> QED BY <3>1, <3>2
  <2>6. Summing(h, f, T)
    <3>1. h = [V \in SUBSET T |-> h[V]]
      OBVIOUS
    <3> HIDE DEF h
    <3> QED BY <2>5, <3>1 DEF Summing
  <2> QED BY <2>6
<1> HIDE DEF G
<1>2. SUBSET S \subseteq G
  BY <1>1, SubsetInduction
<1>3. S \in G
  BY <1>2
<1> QED BY <1>3 DEF G

\* SumOf follows the recursion, within any finite set.
LEMMA SumIsFold ==
    ASSUME NEW f, NEW S, IsFiniteSet(S)
    PROVE  \E g : Summing(g, f, S) /\ \A T \in SUBSET S : SumOf(f, T) = g[T]
<1>1. ASSUME NEW T, IsFiniteSet(T) PROVE \E g : Summing(g, f, T) /\ SumOf(f, T) = g[T]
  <2> DEFINE g == CHOOSE g : g = [s \in SUBSET T |->
                   IF s = {} THEN 0
                   ELSE f[CHOOSE x \in s : TRUE] + g[s \ {CHOOSE x \in s : TRUE}]]
  <2>1. SumOf(f, T) = g[T]
    BY DEF SumOf, MapThenSumSet, MapThenFoldSet
  <2>2. (\E h : Summing(h, f, T)) => Summing(g, f, T)
    BY DEF Summing, Body
  <2> HIDE DEF g
  <2> QED BY <1>1, <2>1, <2>2, SummingExists
<1>2. PICK g : Summing(g, f, S)
  BY SummingExists
<1>3. ASSUME NEW T \in SUBSET S PROVE SumOf(f, T) = g[T]
  <2>1. IsFiniteSet(T) /\ T \in SUBSET T
    BY FS_Subset
  <2>2. PICK h : Summing(h, f, T) /\ SumOf(f, T) = h[T]
    BY <1>1, <2>1
  <2>3. h[T] = g[T]
    <3> DEFINE A == T
    <3>1. T \subseteq A /\ T \subseteq S
      OBVIOUS
    <3>2. Summing(h, f, A) /\ Summing(g, f, S)
      BY <1>2, <2>2
    <3> HIDE DEF A
    <3> QED BY <2>1, <3>1, <3>2, SummingAgree, Z3
  <2> QED BY <2>2, <2>3
<1> QED BY <1>2, <1>3

\* The empty sum, and the sum with the chosen element taken off.
LEMMA SumStep ==
    ASSUME NEW f, NEW S, IsFiniteSet(S)
    PROVE  /\ SumOf(f, {}) = 0
           /\ S # {} => LET c == CHOOSE x \in S : TRUE
                        IN  SumOf(f, S) = f[c] + SumOf(f, S \ {c})
<1> DEFINE c == CHOOSE x \in S : TRUE
<1>1. PICK g : Summing(g, f, S) /\ \A T \in SUBSET S : SumOf(f, T) = g[T]
  BY SumIsFold
<1>2. g[{}] = 0 /\ g[S] = Body(g, f, S)
  BY <1>1 DEF Summing, Body
<1>3. SumOf(f, {}) = g[{}] /\ SumOf(f, S) = g[S] /\ SumOf(f, S \ {c}) = g[S \ {c}]
  BY <1>1
<1> HIDE DEF Summing
<1> QED BY <1>2, <1>3 DEF Body

LEMMA SumEmpty == \A f : SumOf(f, {}) = 0
  BY FS_EmptySet, SumStep

\* Sums of functions that agree on the set are equal.
LEMMA SumCongruence ==
    ASSUME NEW f, NEW h, NEW S, IsFiniteSet(S), \A x \in S : f[x] = h[x]
    PROVE  SumOf(f, S) = SumOf(h, S)
<1> DEFINE G == {T \in SUBSET S : SumOf(f, T) = SumOf(h, T)}
<1>1. ASSUME NEW T \in SUBSET S, \A x \in T : T \ {x} \in G PROVE T \in G
  <2>1. IsFiniteSet(T)
    BY FS_Subset
  <2>2. CASE T = {}
    BY <2>2, SumEmpty
  <2>3. CASE T # {}
    <3> DEFINE c == CHOOSE x \in T : TRUE
    <3>1. c \in T
      BY <2>3
    <3>2. SumOf(f, T) = f[c] + SumOf(f, T \ {c}) /\ SumOf(h, T) = h[c] + SumOf(h, T \ {c})
      BY <2>1, <2>3, SumStep
    <3> HIDE DEF c
    <3>3. SumOf(f, T \ {c}) = SumOf(h, T \ {c}) /\ f[c] = h[c]
      BY <1>1, <3>1
    <3> QED BY <3>2, <3>3
  <2> QED BY <2>2, <2>3
<1> HIDE DEF G
<1>2. SUBSET S \subseteq G
  BY <1>1, SubsetInduction
<1>3. S \in G
  BY <1>2
<1> QED BY <1>3 DEF G

\* A sum of integers is an integer.
LEMMA SumIsInt ==
    ASSUME NEW S, IsFiniteSet(S), NEW f, \A x \in S : f[x] \in Int
    PROVE  \A T \in SUBSET S : SumOf(f, T) \in Int
<1> DEFINE G == {T \in SUBSET S : SumOf(f, T) \in Int}
<1>1. ASSUME NEW T \in SUBSET S, \A x \in T : T \ {x} \in G PROVE T \in G
  <2>1. IsFiniteSet(T)
    BY FS_Subset
  <2>2. CASE T = {}
    BY <2>2, SumEmpty
  <2>3. CASE T # {}
    <3> DEFINE c == CHOOSE x \in T : TRUE
    <3>1. c \in T
      BY <2>3
    <3>2. SumOf(f, T) = f[c] + SumOf(f, T \ {c})
      BY <2>1, <2>3, SumStep
    <3> HIDE DEF c
    <3>3. SumOf(f, T \ {c}) \in Int /\ f[c] \in Int
      BY <1>1, <3>1
    <3> QED BY <3>2, <3>3
  <2> QED BY <2>2, <2>3
<1> HIDE DEF G
<1>2. SUBSET S \subseteq G
  BY <1>1, SubsetInduction
<1> QED BY <1>2 DEF G

\* Any element may be taken off a sum.
LEMMA SumTakeOff ==
    ASSUME NEW S, IsFiniteSet(S), NEW f, \A x \in S : f[x] \in Int
    PROVE  \A x \in S : SumOf(f, S) = f[x] + SumOf(f, S \ {x})
<1> DEFINE Off(T) == \A x \in T : SumOf(f, T) = f[x] + SumOf(f, T \ {x})
           G == {T \in SUBSET S : Off(T)}
<1>1. ASSUME NEW T \in SUBSET S, \A x \in T : T \ {x} \in G PROVE T \in G
  <2>1. IsFiniteSet(T)
    BY FS_Subset
  <2>2. CASE T = {}
    BY <2>2
  <2>3. CASE T # {}
    <3> DEFINE c == CHOOSE x \in T : TRUE
    <3>1. c \in T
      BY <2>3
    <3>2. SumOf(f, T) = f[c] + SumOf(f, T \ {c})
      BY <2>1, <2>3, SumStep
    <3> HIDE DEF c
    <3>3. ASSUME NEW x \in T PROVE SumOf(f, T) = f[x] + SumOf(f, T \ {x})
      <4>1. CASE x = c
        BY <3>2, <4>1
      <4>2. CASE x # c
        <5> DEFINE U == T \ {c, x}
        <5>1. (T \ {c}) \ {x} = U /\ (T \ {x}) \ {c} = U /\ U \in SUBSET S
          OBVIOUS
        <5>2. Off(T \ {c}) /\ Off(T \ {x}) /\ x \in T \ {c} /\ c \in T \ {x}
          BY <1>1, <3>1, <4>2
        <5>3. SumOf(f, T \ {c}) = f[x] + SumOf(f, U) /\ SumOf(f, T \ {x}) = f[c] + SumOf(f, U)
          BY <5>1, <5>2
        <5>4. SumOf(f, U) \in Int /\ f[x] \in Int /\ f[c] \in Int
          BY <5>1, <3>1, SumIsInt
        <5> HIDE DEF U
        <5> QED BY <3>2, <5>3, <5>4
      <4> QED BY <4>1, <4>2
    <3> QED BY <3>3
  <2> QED BY <2>2, <2>3
<1> HIDE DEF G
<1>2. SUBSET S \subseteq G
  BY <1>1, SubsetInduction
<1>3. S \in G
  BY <1>2
<1> QED BY <1>3 DEF G

\* A sum changes by as much as its one changed element.
LEMMA SumChange ==
    ASSUME NEW S, IsFiniteSet(S), NEW f, NEW h, NEW c \in S,
           \A x \in S : f[x] \in Int /\ h[x] \in Int, \A x \in S \ {c} : f[x] = h[x]
    PROVE  SumOf(h, S) = SumOf(f, S) + (h[c] - f[c])
<1>1. SumOf(f, S) = f[c] + SumOf(f, S \ {c}) /\ SumOf(h, S) = h[c] + SumOf(h, S \ {c})
  BY SumTakeOff
<1>2. SumOf(f, S \ {c}) = SumOf(h, S \ {c})
  BY FS_RemoveElement, SumCongruence
<1>3. SumOf(f, S \ {c}) \in Int /\ f[c] \in Int /\ h[c] \in Int
  BY SumIsInt
<1> QED BY <1>1, <1>2, <1>3

\* The sum follows a change of f at two elements.
DifferAt(f, h, S, b, c) ==
    /\ b \in S /\ c \in S /\ b # c
    /\ \A x \in S : f[x] \in Int /\ h[x] \in Int
    /\ \A x \in S : x # b /\ x # c => f[x] = h[x]

LEMMA SumChangeTwo ==
    ASSUME NEW S, IsFiniteSet(S), NEW f, NEW h, NEW b, NEW c, DifferAt(f, h, S, b, c)
    PROVE  SumOf(h, S) = SumOf(f, S) + (h[b] - f[b]) + (h[c] - f[c])
<1> DEFINE g == [x \in S |-> IF x = b THEN h[x] ELSE f[x]]
<1>1. /\ \A x \in S : g[x] \in Int
      /\ \A x \in S \ {b} : f[x] = g[x]
      /\ \A x \in S \ {c} : g[x] = h[x]
      /\ g[b] = h[b] /\ g[c] = f[c] /\ b \in S /\ c \in S
      /\ \A x \in S : f[x] \in Int /\ h[x] \in Int
  BY DEF DifferAt
<1> HIDE DEF g
<1>2. SumOf(g, S) = SumOf(f, S) + (g[b] - f[b])
  BY <1>1, SumChange
<1>3. SumOf(h, S) = SumOf(g, S) + (h[c] - g[c])
  BY <1>1, SumChange
<1> QED BY <1>1, <1>2, <1>3

\* A sum with an element more.
LEMMA SumAdd ==
    ASSUME NEW S, IsFiniteSet(S), NEW f, NEW c, c \notin S, \A x \in S \cup {c} : f[x] \in Int
    PROVE  SumOf(f, S \cup {c}) = SumOf(f, S) + f[c]
<1> DEFINE T == S \cup {c}
<1>1. IsFiniteSet(T) /\ c \in T /\ T \ {c} = S /\ \A x \in T : f[x] \in Int
  BY FS_AddElement
<1> HIDE DEF T
<1>2. SumOf(f, T) = f[c] + SumOf(f, S) /\ SumOf(f, S) \in Int
  BY <1>1, SumTakeOff, SumIsInt
<1> QED BY <1>1, <1>2 DEF T

\* A larger function has the larger sum.
LEMMA SumMonotone ==
    ASSUME NEW S, IsFiniteSet(S), NEW f, NEW h,
           \A x \in S : f[x] \in Int /\ h[x] \in Int /\ f[x] <= h[x]
    PROVE  SumOf(f, S) <= SumOf(h, S)
<1> DEFINE G == {T \in SUBSET S : SumOf(f, T) <= SumOf(h, T)}
<1>1. ASSUME NEW T \in SUBSET S, \A x \in T : T \ {x} \in G PROVE T \in G
  <2>1. IsFiniteSet(T)
    BY FS_Subset
  <2>2. CASE T = {}
    BY <2>2, SumEmpty
  <2>3. CASE T # {}
    <3>1. PICK c \in T : TRUE
      BY <2>3
    <3>2. SumOf(f, T) = f[c] + SumOf(f, T \ {c}) /\ SumOf(h, T) = h[c] + SumOf(h, T \ {c})
      BY <2>1, SumTakeOff
    <3>3. /\ SumOf(f, T \ {c}) <= SumOf(h, T \ {c}) /\ f[c] <= h[c]
          /\ f[c] \in Int /\ h[c] \in Int
      BY <1>1
    <3>4. SumOf(f, T \ {c}) \in Int /\ SumOf(h, T \ {c}) \in Int
      BY SumIsInt
    <3> QED BY <3>2, <3>3, <3>4
  <2> QED BY <2>2, <2>3
<1> HIDE DEF G
<1>2. SUBSET S \subseteq G
  BY <1>1, SubsetInduction
<1>3. S \in G
  BY <1>2
<1> QED BY <1>3 DEF G

\* The sum of a sum.
LEMMA SumPlus ==
    ASSUME NEW S, IsFiniteSet(S), NEW f, NEW h, NEW k,
           \A x \in S : f[x] \in Int /\ h[x] \in Int /\ k[x] = f[x] + h[x]
    PROVE  SumOf(k, S) = SumOf(f, S) + SumOf(h, S)
<1> DEFINE G == {T \in SUBSET S : SumOf(k, T) = SumOf(f, T) + SumOf(h, T)}
<1>1. ASSUME NEW T \in SUBSET S, \A x \in T : T \ {x} \in G PROVE T \in G
  <2>1. IsFiniteSet(T)
    BY FS_Subset
  <2>2. CASE T = {}
    BY <2>2, SumEmpty
  <2>3. CASE T # {}
    <3>1. PICK c \in T : TRUE
      BY <2>3
    <3>2. /\ SumOf(f, T) = f[c] + SumOf(f, T \ {c})
          /\ SumOf(h, T) = h[c] + SumOf(h, T \ {c})
      BY <2>1, SumTakeOff
    <3>3. SumOf(k, T) = k[c] + SumOf(k, T \ {c})
      <4>1. \A x \in T : k[x] \in Int
        OBVIOUS
      <4> QED BY <2>1, <4>1, SumTakeOff
    <3>4. /\ SumOf(k, T \ {c}) = SumOf(f, T \ {c}) + SumOf(h, T \ {c})
          /\ k[c] = f[c] + h[c] /\ f[c] \in Int /\ h[c] \in Int
      BY <1>1
    <3>5. SumOf(f, T \ {c}) \in Int /\ SumOf(h, T \ {c}) \in Int
      BY SumIsInt
    <3> QED BY <3>2, <3>3, <3>4, <3>5
  <2> QED BY <2>2, <2>3
<1> HIDE DEF G
<1>2. SUBSET S \subseteq G
  BY <1>1, SubsetInduction
<1>3. S \in G
  BY <1>2
<1> QED BY <1>3 DEF G

\* A sum over a part of the set is a sum over the whole with zeros.
LEMMA SumPart ==
    ASSUME NEW S, IsFiniteSet(S), NEW P \in SUBSET S, NEW f, NEW h,
           \A x \in S : f[x] \in Int,
           \A x \in S : h[x] = IF x \in P THEN f[x] ELSE 0
    PROVE  SumOf(f, P) = SumOf(h, S)
<1> DEFINE G == {T \in SUBSET S : SumOf(f, T \cap P) = SumOf(h, T)}
<1>1. ASSUME NEW T \in SUBSET S, \A x \in T : T \ {x} \in G PROVE T \in G
  <2>1. IsFiniteSet(T) /\ IsFiniteSet(T \cap P)
    BY FS_Subset
  <2>2. CASE T = {}
    <3>1. T \cap P = {}
      BY <2>2
    <3> QED BY <2>2, <3>1, SumEmpty
  <2>3. CASE T # {}
    <3>1. PICK c \in T : TRUE
      BY <2>3
    <3>2. SumOf(h, T) = h[c] + SumOf(h, T \ {c})
      <4>1. \A x \in T : h[x] \in Int
        OBVIOUS
      <4> QED BY <2>1, <4>1, SumTakeOff
    <3>3. SumOf(f, (T \ {c}) \cap P) = SumOf(h, T \ {c}) /\ SumOf(h, T \ {c}) \in Int
      <4>1. \A x \in S : h[x] \in Int
        OBVIOUS
      <4> QED BY <1>1, <4>1, SumIsInt
    <3>4. CASE c \in P
      <4> DEFINE U == T \cap P
      <4>1. c \in U /\ U \ {c} = (T \ {c}) \cap P /\ \A x \in U : f[x] \in Int
        BY <3>4
      <4>2. SumOf(f, U) = f[c] + SumOf(f, U \ {c})
        BY <2>1, <4>1, SumTakeOff
      <4> QED BY <3>2, <3>3, <3>4, <4>1, <4>2
    <3>5. CASE c \notin P
      <4>1. T \cap P = (T \ {c}) \cap P /\ h[c] = 0
        BY <3>5
      <4> QED BY <3>2, <3>3, <4>1
    <3> QED BY <3>4, <3>5
  <2> QED BY <2>2, <2>3
<1> HIDE DEF G
<1>2. SUBSET S \subseteq G
  BY <1>1, SubsetInduction
<1>3. S \in G /\ S \cap P = P
  BY <1>2
<1> QED BY <1>3 DEF G

-----------------------------------------------------------------------------
(* Filters.                                                                *)

\* A set of numbers that has 0 and with each number the next has all of them.
LEMMA CountingUp ==
    ASSUME NEW G, 0 \in G, \A n \in Nat : n \in G => n + 1 \in G
    PROVE  Nat \subseteq G
<1> DEFINE Bad == {n \in Nat : n \notin G}
<1> SUFFICES ASSUME Bad # {} PROVE FALSE
  OBVIOUS
<1>1. PICK n \in Bad : \A m \in Bad : ~(<<m, n>> \in OpToRel(<, Nat))
  <2>1. Bad \subseteq Nat
    OBVIOUS
  <2> QED BY <2>1, NatLessThanWellFounded, WFMin
<1>2. \A m \in Bad : ~(m < n)
  BY <1>1 DEF OpToRel
<1>3. n # 0 /\ n \in Nat
  BY <1>1
<1>4. n - 1 \in Nat /\ n - 1 < n /\ (n - 1) + 1 = n
  BY <1>3
<1>5. n - 1 \in G
  BY <1>2, <1>4
<1> QED BY <1>1, <1>4, <1>5

\* A set of sequences that has the empty one and with each one its extensions has all
\* of them.
LEMMA GrowingUp ==
    ASSUME NEW T, NEW G, <<>> \in G,
           \A s \in Seq(T), x \in T : s \in G => Append(s, x) \in G
    PROVE  Seq(T) \subseteq G
<1> DEFINE H == {n \in Nat : \A s \in Seq(T) : Len(s) = n => s \in G}
<1>1. 0 \in H
  <2>1. \A s \in Seq(T) : Len(s) = 0 => s = <<>>
    BY EmptySeq
  <2> QED BY <2>1
<1>2. ASSUME NEW n \in Nat, n \in H PROVE n + 1 \in H
  <2>1. ASSUME NEW s \in Seq(T), Len(s) = n + 1 PROVE s \in G
    <3> DEFINE f == SubSeq(s, 1, n)
    <3>1. n + 1 \in 1..Len(s) /\ s[n + 1] \in T
      BY <2>1, ElementOfSeq
    <3>2. f \in Seq(T) /\ Len(f) = n /\ \A i \in 1..n : f[i] = s[i]
      BY <2>1
    <3>3. s = Append(f, s[n + 1])
      <4>1. Append(f, s[n + 1]) \in Seq(T) /\ Len(Append(f, s[n + 1])) = n + 1
        BY <3>1, <3>2
      <4>2. \A i \in 1..(n + 1) : Append(f, s[n + 1])[i] = s[i]
        BY <3>1, <3>2
      <4> QED BY <2>1, <4>1, <4>2, SeqEqual
    <3>4. f \in G
      BY <1>2, <3>2
    <3> QED BY <3>1, <3>2, <3>3, <3>4
  <2> QED BY <2>1
<1> HIDE DEF H
<1>3. Nat \subseteq H
  BY <1>1, <1>2, CountingUp
<1>4. ASSUME NEW s \in Seq(T) PROVE s \in G
  <2>1. Len(s) \in Nat
    OBVIOUS
  <2>2. Len(s) \in H
    BY <1>3, <2>1
  <2> QED BY <2>2 DEF H
<1> QED BY <1>4

\* The recursion of Filtered along the first n elements.
Sifting(f, s, kept, n) ==
    f = [i \in 0..n |-> IF i = 0 THEN <<>>
                        ELSE IF s[i] \in kept THEN Append(f[i - 1], s[i]) ELSE f[i - 1]]

LEMMA SiftingExists == ASSUME NEW s, NEW kept, NEW n \in Nat PROVE \E f : Sifting(f, s, kept, n)
<1> DEFINE G == {m \in Nat : \E f : Sifting(f, s, kept, m)}
<1>1. 0 \in G
  <2>1. Sifting([i \in 0..0 |-> <<>>], s, kept, 0)
    BY DEF Sifting
  <2> QED BY <2>1
<1>2. ASSUME NEW m \in Nat, m \in G PROVE m + 1 \in G
  <2>1. PICK f : Sifting(f, s, kept, m)
    BY <1>2
  <2> DEFINE new == IF s[m + 1] \in kept THEN Append(f[m], s[m + 1]) ELSE f[m]
             g == [i \in 0..(m + 1) |-> IF i = m + 1 THEN new ELSE f[i]]
  <2>2. \A i \in 0..m : i \in 0..(m + 1) /\ i # m + 1 /\ g[i] = f[i]
    OBVIOUS
  <2>3. g[m + 1] = new /\ m + 1 # 0 /\ (m + 1) - 1 = m /\ m \in 0..m
    OBVIOUS
  <2>4. ASSUME NEW i \in 0..(m + 1)
        PROVE  g[i] = IF i = 0 THEN <<>>
                      ELSE IF s[i] \in kept THEN Append(g[i - 1], s[i]) ELSE g[i - 1]
    <3>1. CASE i = m + 1
      <4>1. g[i - 1] = f[m]
        BY <2>2, <2>3, <3>1
      <4> QED BY <2>3, <3>1, <4>1
    <3>2. CASE i # m + 1
      <4>1. i \in 0..m /\ g[i] = f[i] /\ (i # 0 => i - 1 \in 0..m)
        BY <2>2, <3>2
      <4>2. i # 0 => g[i - 1] = f[i - 1]
        BY <2>2, <4>1
      <4>3. f[i] = IF i = 0 THEN <<>>
                   ELSE IF s[i] \in kept THEN Append(f[i - 1], s[i]) ELSE f[i - 1]
        BY <2>1, <4>1 DEF Sifting
      <4> QED BY <4>1, <4>2, <4>3
    <3> QED BY <3>1, <3>2
  <2>5. g = [i \in 0..(m + 1) |-> g[i]]
    OBVIOUS
  <2> HIDE DEF g
  <2>6. Sifting(g, s, kept, m + 1)
    BY <2>4, <2>5 DEF Sifting
  <2> QED BY <2>6
<1> HIDE DEF G
<1>3. Nat \subseteq G
  BY <1>1, <1>2, CountingUp
<1> QED BY <1>3 DEF G

\* Two runs of the recursion agree as far as the sequences do.
LEMMA SiftingAgree ==
    ASSUME NEW s, NEW t, NEW kept, NEW m \in Nat, NEW n \in Nat, m <= n,
           NEW f, NEW g, Sifting(f, s, kept, m), Sifting(g, t, kept, n),
           \A i \in 1..m : s[i] = t[i]
    PROVE  \A i \in 0..m : f[i] = g[i]
<1> DEFINE G == {i \in Nat : i <= m => f[i] = g[i]}
<1>1. 0 \in G
  BY DEF Sifting
<1>2. ASSUME NEW i \in Nat, i \in G PROVE i + 1 \in G
  <2>1. CASE i + 1 <= m
    <3>1. i + 1 \in 0..m /\ i + 1 \in 0..n /\ i + 1 # 0 /\ (i + 1) - 1 = i /\ i + 1 \in 1..m
      BY <2>1
    <3>2. f[i + 1] = IF s[i + 1] \in kept THEN Append(f[i], s[i + 1]) ELSE f[i]
      BY <3>1 DEF Sifting
    <3>3. g[i + 1] = IF t[i + 1] \in kept THEN Append(g[i], t[i + 1]) ELSE g[i]
      BY <3>1 DEF Sifting
    <3>4. f[i] = g[i]
      BY <1>2, <2>1
    <3> QED BY <3>1, <3>2, <3>3, <3>4
  <2>2. CASE ~(i + 1 <= m)
    BY <2>2
  <2> QED BY <2>1, <2>2
<1> HIDE DEF G
<1>3. Nat \subseteq G
  BY <1>1, <1>2, CountingUp
<1> QED BY <1>3 DEF G

LEMMA FilteredIsSifting ==
    ASSUME NEW s, NEW kept, Len(s) \in Nat
    PROVE  \E f : Sifting(f, s, kept, Len(s)) /\ Filtered(s, kept) = f[Len(s)]
<1> DEFINE f == CHOOSE f : f = [i \in 0..Len(s) |->
                     IF i = 0 THEN <<>>
                     ELSE IF s[i] \in kept THEN Append(f[i - 1], s[i]) ELSE f[i - 1]]
<1>1. Filtered(s, kept) = f[Len(s)]
  BY DEF Filtered
<1>2. (\E h : Sifting(h, s, kept, Len(s))) => Sifting(f, s, kept, Len(s))
  BY DEF Sifting
<1> HIDE DEF f
<1> QED BY <1>1, <1>2, SiftingExists

\* The elements of the empty sequence, and of one with an element more.
LEMMA RangeOfEmpty == Range(<<>>) = {}
BY DEF Range

LEMMA RangeOfAppend ==
    ASSUME NEW T, NEW s \in Seq(T), NEW x
    PROVE  Range(Append(s, x)) = Range(s) \cup {x}
<1>1. /\ Len(Append(s, x)) = Len(s) + 1 /\ Append(s, x)[Len(s) + 1] = x /\ Len(s) \in Nat
      /\ \A i \in 1..Len(s) : Append(s, x)[i] = s[i]
      /\ DOMAIN s = 1..Len(s) /\ DOMAIN Append(s, x) = 1..(Len(s) + 1)
  OBVIOUS
<1>2. \A i \in 1..(Len(s) + 1) : i \in 1..Len(s) \/ i = Len(s) + 1
  BY <1>1
<1>3. 1..Len(s) \subseteq 1..(Len(s) + 1) /\ Len(s) + 1 \in 1..(Len(s) + 1)
  BY <1>1
<1> QED BY <1>1, <1>2, <1>3 DEF Range

\* What is kept of no elements, and of one more.
LEMMA FilteredIsEmpty == ASSUME NEW kept PROVE Filtered(<<>>, kept) = <<>>
<1>1. Len(<<>>) = 0
  OBVIOUS
<1>2. PICK f : Sifting(f, <<>>, kept, Len(<<>>)) /\ Filtered(<<>>, kept) = f[Len(<<>>)]
  BY <1>1, FilteredIsSifting
<1> QED BY <1>1, <1>2 DEF Sifting

LEMMA FilteredGrows ==
    ASSUME NEW T, NEW s \in Seq(T), NEW x, NEW kept
    PROVE  Filtered(Append(s, x), kept) =
               IF x \in kept THEN Append(Filtered(s, kept), x) ELSE Filtered(s, kept)
<1> DEFINE t == Append(s, x)
           n == Len(s)
<1>1. n \in Nat /\ Len(t) = n + 1 /\ t[n + 1] = x /\ \A i \in 1..n : s[i] = t[i]
  OBVIOUS
<1>3. PICK f : Sifting(f, s, kept, n) /\ Filtered(s, kept) = f[n]
  BY <1>1, FilteredIsSifting
<1>4. n + 1 \in Nat /\ n <= n + 1 /\ n \in 0..n /\ n + 1 \in 0..(n + 1) /\ n + 1 # 0
      /\ (n + 1) - 1 = n
  BY <1>1
<1>5. PICK g : Sifting(g, t, kept, n + 1) /\ Filtered(t, kept) = g[n + 1]
  BY <1>1, <1>4, FilteredIsSifting
<1> HIDE DEF t, n
<1>6. f[n] = g[n]
  <2> DEFINE k == n + 1
  <2>1. n \in Nat /\ k \in Nat /\ n <= k /\ Sifting(f, s, kept, n) /\ Sifting(g, t, kept, k)
    BY <1>1, <1>3, <1>4, <1>5
  <2>2. \A i \in 1..n : s[i] = t[i]
    BY <1>1
  <2> HIDE DEF k
  <2>3. \A i \in 0..n : f[i] = g[i]
    BY <2>1, <2>2, SiftingAgree
  <2> QED BY <1>4, <2>3
<1>7. g[n + 1] = IF t[n + 1] \in kept THEN Append(g[n], t[n + 1]) ELSE g[n]
  BY <1>4, <1>5 DEF Sifting
<1>8. Filtered(t, kept) = IF x \in kept THEN Append(Filtered(s, kept), x) ELSE Filtered(s, kept)
  BY <1>1, <1>3, <1>5, <1>6, <1>7
<1> QED BY <1>8 DEF t

\* What is kept of sequences one after the other, what is kept of what is kept, and what
\* elements that is.
SiftedIn(T, s, kept) ==
    /\ Filtered(s, kept) \in Seq(T)
    /\ Len(Filtered(s, kept)) <= Len(s)
    /\ Range(Filtered(s, kept)) = Range(s) \cap kept

LEMMA FilteredTyped ==
    ASSUME NEW T, NEW kept PROVE \A s \in Seq(T) : SiftedIn(T, s, kept)
<1> DEFINE G == {s \in Seq(T) : SiftedIn(T, s, kept)}
<1>1. <<>> \in G
  <2>1. <<>> \in Seq(T) /\ Filtered(<<>>, kept) = <<>> /\ Range(<<>>) = {} /\ Len(<<>>) = 0
    BY FilteredIsEmpty, RangeOfEmpty
  <2>2. Filtered(<<>>, kept) \in Seq(T)
    BY <2>1
  <2>3. Len(Filtered(<<>>, kept)) <= Len(<<>>)
    BY <2>1
  <2>4. Range(Filtered(<<>>, kept)) = Range(<<>>) \cap kept
    BY <2>1, Zenon
  <2>5. SiftedIn(T, <<>>, kept)
    BY <2>2, <2>3, <2>4, Zenon DEF SiftedIn
  <2> QED BY <2>1, <2>5
<1>2. ASSUME NEW s \in Seq(T), NEW x \in T, s \in G PROVE Append(s, x) \in G
  <2>1. SiftedIn(T, s, kept)
    BY <1>2
  <2>2. /\ Filtered(Append(s, x), kept) =
                 IF x \in kept THEN Append(Filtered(s, kept), x) ELSE Filtered(s, kept)
        /\ Range(Append(s, x)) = Range(s) \cup {x}
        /\ Append(s, x) \in Seq(T) /\ Len(Append(s, x)) = Len(s) + 1 /\ Len(s) \in Nat
    BY FilteredGrows, RangeOfAppend
  <2>3. CASE x \in kept
    <3>1. Filtered(Append(s, x), kept) = Append(Filtered(s, kept), x)
      BY <2>2, <2>3
    <3>2. Range(Append(Filtered(s, kept), x)) = Range(Filtered(s, kept)) \cup {x}
          /\ Len(Append(Filtered(s, kept), x)) = Len(Filtered(s, kept)) + 1
          /\ Append(Filtered(s, kept), x) \in Seq(T) /\ Len(Filtered(s, kept)) \in Nat
      BY <2>1, RangeOfAppend DEF SiftedIn
    <3>3. Range(Filtered(s, kept)) \cup {x} = (Range(s) \cup {x}) \cap kept
      BY <2>1, <2>3 DEF SiftedIn
    <3>4. Len(Filtered(s, kept)) + 1 <= Len(s) + 1
      BY <2>1, <2>2, <3>2 DEF SiftedIn
    <3>5. SiftedIn(T, Append(s, x), kept)
      BY <2>2, <3>1, <3>2, <3>3, <3>4 DEF SiftedIn
    <3> QED BY <2>2, <3>5
  <2>4. CASE x \notin kept
    <3>1. Len(Filtered(s, kept)) \in Nat /\ Len(Filtered(s, kept)) <= Len(s) + 1
      BY <2>1, <2>2 DEF SiftedIn
    <3>2. (Range(s) \cup {x}) \cap kept = Range(s) \cap kept
      BY <2>4
    <3>3. SiftedIn(T, Append(s, x), kept)
      BY <2>1, <2>2, <2>4, <3>1, <3>2 DEF SiftedIn
    <3> QED BY <2>2, <3>3
  <2> QED BY <2>3, <2>4
<1> HIDE DEF G
<1>3. Seq(T) \subseteq G
  BY <1>1, <1>2, GrowingUp
<1> QED BY <1>3 DEF G

\* What a second filter keeps of what the first kept.
LEMMA FilteredTwice ==
    ASSUME NEW T, NEW one, NEW two
    PROVE  \A s \in Seq(T) : Filtered(Filtered(s, one), two) = Filtered(s, one \cap two)
<1> DEFINE G == {s \in Seq(T) : Filtered(Filtered(s, one), two) = Filtered(s, one \cap two)}
<1>1. <<>> \in G
  BY FilteredIsEmpty
<1>2. ASSUME NEW s \in Seq(T), NEW x \in T, s \in G PROVE Append(s, x) \in G
  <2> DEFINE f == Filtered(s, one)
  <2>1. f \in Seq(T) /\ Filtered(f, two) = Filtered(s, one \cap two)
    BY <1>2, FilteredTyped DEF SiftedIn
  <2>2. Filtered(Append(s, x), one) = IF x \in one THEN Append(f, x) ELSE f
    BY FilteredGrows
  <2>3. Filtered(Append(s, x), one \cap two) =
          IF x \in one \cap two THEN Append(Filtered(s, one \cap two), x)
                               ELSE Filtered(s, one \cap two)
    BY FilteredGrows
  <2> HIDE DEF f
  <2>4. Filtered(Append(f, x), two) =
          IF x \in two THEN Append(Filtered(f, two), x) ELSE Filtered(f, two)
    BY <2>1, FilteredGrows
  <2>5. Filtered(Filtered(Append(s, x), one), two) = Filtered(Append(s, x), one \cap two)
    <3>1. CASE x \in one
      <4>1. Filtered(Append(s, x), one) = Append(f, x)
        BY <2>2, <3>1
      <4>2. CASE x \in two
        <5>1. Filtered(Append(f, x), two) = Append(Filtered(f, two), x)
          BY <2>4, <4>2
        <5>2. Filtered(Append(s, x), one \cap two) = Append(Filtered(s, one \cap two), x)
          BY <2>3, <3>1, <4>2
        <5> QED BY <2>1, <4>1, <5>1, <5>2
      <4>3. CASE x \notin two
        <5>1. Filtered(Append(f, x), two) = Filtered(f, two)
          BY <2>4, <4>3
        <5>2. Filtered(Append(s, x), one \cap two) = Filtered(s, one \cap two)
          BY <2>3, <4>3
        <5> QED BY <2>1, <4>1, <5>1, <5>2
      <4> QED BY <4>2, <4>3
    <3>2. CASE x \notin one
      BY <2>1, <2>2, <2>3, <3>2
    <3> QED BY <3>1, <3>2
  <2> QED BY <2>5
<1> HIDE DEF G
<1>3. Seq(T) \subseteq G
  BY <1>1, <1>2, GrowingUp
<1> QED BY <1>3 DEF G

\* A filter that keeps every element keeps the sequence, one that keeps none keeps none.
LEMMA FilteredAll ==
    ASSUME NEW T, NEW kept
    PROVE  \A s \in Seq(T) : Range(s) \subseteq kept => Filtered(s, kept) = s
<1> DEFINE G == {s \in Seq(T) : Range(s) \subseteq kept => Filtered(s, kept) = s}
<1>1. <<>> \in G
  BY FilteredIsEmpty
<1>2. ASSUME NEW s \in Seq(T), NEW x \in T, s \in G PROVE Append(s, x) \in G
  <2>1. /\ Range(Append(s, x)) = Range(s) \cup {x}
        /\ Filtered(Append(s, x), kept) =
              IF x \in kept THEN Append(Filtered(s, kept), x) ELSE Filtered(s, kept)
        /\ Range(s) \subseteq kept => Filtered(s, kept) = s
    BY <1>2, FilteredGrows, RangeOfAppend
  <2> QED BY <2>1
<1> HIDE DEF G
<1>3. Seq(T) \subseteq G
  BY <1>1, <1>2, GrowingUp
<1> QED BY <1>3 DEF G

LEMMA FilteredNone ==
    ASSUME NEW T, NEW kept
    PROVE  \A s \in Seq(T) : Range(s) \cap kept = {} => Filtered(s, kept) = <<>>
<1> DEFINE G == {s \in Seq(T) : Range(s) \cap kept = {} => Filtered(s, kept) = <<>>}
<1>1. <<>> \in G
  BY FilteredIsEmpty
<1>2. ASSUME NEW s \in Seq(T), NEW x \in T, s \in G PROVE Append(s, x) \in G
  <2>1. /\ Range(Append(s, x)) = Range(s) \cup {x}
        /\ Filtered(Append(s, x), kept) =
              IF x \in kept THEN Append(Filtered(s, kept), x) ELSE Filtered(s, kept)
        /\ Range(s) \cap kept = {} => Filtered(s, kept) = <<>>
    BY <1>2, FilteredGrows, RangeOfAppend
  <2> QED BY <2>1
<1> HIDE DEF G
<1>3. Seq(T) \subseteq G
  BY <1>1, <1>2, GrowingUp
<1> QED BY <1>3 DEF G

\* What is kept of one sequence after another.
LEMMA FilteredConcat ==
    ASSUME NEW T, NEW kept, NEW p \in Seq(T)
    PROVE  \A s \in Seq(T) : Filtered(p \o s, kept) = Filtered(p, kept) \o Filtered(s, kept)
<1> DEFINE G == {s \in Seq(T) : Filtered(p \o s, kept) = Filtered(p, kept) \o Filtered(s, kept)}
           fp == Filtered(p, kept)
<1>0. fp \in Seq(T) /\ \A s \in Seq(T) : Filtered(s, kept) \in Seq(T)
  BY FilteredTyped DEF SiftedIn
<1>1. <<>> \in G
  <2>1. p \o <<>> = p /\ fp \o <<>> = fp /\ <<>> \in Seq(T)
    BY <1>0
  <2> QED BY <2>1, FilteredIsEmpty
<1>2. ASSUME NEW s \in Seq(T), NEW x \in T, s \in G PROVE Append(s, x) \in G
  <2> DEFINE fs == Filtered(s, kept)
  <2>1. Filtered(p \o s, kept) = fp \o fs /\ fs \in Seq(T) /\ p \o s \in Seq(T)
    BY <1>0, <1>2
  <2>2. Filtered(Append(s, x), kept) = IF x \in kept THEN Append(fs, x) ELSE fs
    BY FilteredGrows
  <2>3. p \o Append(s, x) = Append(p \o s, x)
    OBVIOUS
  <2>4. Filtered(Append(p \o s, x), kept) =
           IF x \in kept THEN Append(Filtered(p \o s, kept), x) ELSE Filtered(p \o s, kept)
    <3> DEFINE ps == p \o s
    <3>1. ps \in Seq(T)
      BY <2>1
    <3> HIDE DEF ps
    <3>2. Filtered(Append(ps, x), kept) =
             IF x \in kept THEN Append(Filtered(ps, kept), x) ELSE Filtered(ps, kept)
      BY <3>1, FilteredGrows
    <3> QED BY <3>2 DEF ps
  <2> HIDE DEF fs, fp
  <2>5. fp \o Append(fs, x) = Append(fp \o fs, x)
    BY <1>0, <2>1
  <2>6. Filtered(p \o Append(s, x), kept) = fp \o Filtered(Append(s, x), kept)
    <3>1. CASE x \in kept
      BY <2>1, <2>2, <2>3, <2>4, <2>5, <3>1
    <3>2. CASE x \notin kept
      BY <2>1, <2>2, <2>3, <2>4, <3>2
    <3> QED BY <3>1, <3>2
  <2> QED BY <2>6 DEF fp
<1> HIDE DEF G
<1>3. Seq(T) \subseteq G
  BY <1>1, <1>2, GrowingUp
<1> QED BY <1>3 DEF G

\* Filters that agree on the elements of a sequence keep the same.
LEMMA FilteredSame ==
    ASSUME NEW T, NEW s \in Seq(T), NEW one, NEW two, Range(s) \cap one = Range(s) \cap two
    PROVE  Filtered(s, one) = Filtered(s, two)
<1>1. Filtered(s, Range(s)) = s
  BY FilteredAll
<1>2. Filtered(s, one) = Filtered(s, Range(s) \cap one)
  BY <1>1, FilteredTwice
<1>3. Filtered(s, two) = Filtered(s, Range(s) \cap two)
  BY <1>1, FilteredTwice
<1> QED BY <1>2, <1>3

\* A sequence that is not empty is its last element after what goes before it.
LEMMA LastSplit ==
    ASSUME NEW T, NEW s \in Seq(T), s # <<>>
    PROVE  /\ Last(s) \in T /\ Last(s) \in Range(s) /\ Last(s) = s[Len(s)]
           /\ \E p \in Seq(T) : s = Append(p, Last(s))
<1> DEFINE n == Len(s) - 1
           p == SubSeq(s, 1, n)
           x == s[Len(s)]
<1>1. Len(s) \in Nat /\ Len(s) # 0
  BY EmptySeq
<1>2. n \in Nat /\ Len(s) = n + 1 /\ Len(s) \in 1..Len(s) /\ n <= Len(s)
  BY <1>1
<1>3. p \in Seq(T) /\ Len(p) = n /\ \A i \in 1..n : p[i] = s[i]
  BY <1>2
<1>4. x \in T /\ x \in Range(s)
  BY <1>2, ElementOfSeq DEF Range
<1> HIDE DEF x, p
<1>5. Append(p, x) \in Seq(T) /\ Len(Append(p, x)) = n + 1
  BY <1>3, <1>4
<1>6. \A i \in 1..Len(s) : Append(p, x)[i] = s[i]
  BY <1>2, <1>3 DEF x
<1>7. s = Append(p, x)
  BY <1>2, <1>5, <1>6, SeqEqual
<1> QED BY <1>3, <1>4, <1>7 DEF Last, x

\* No element comes twice in a sequence with one more exactly if none did and it is new.
LEMMA InjectiveAppend ==
    ASSUME NEW T, NEW s \in Seq(T), NEW x
    PROVE  IsInjective(Append(s, x)) <=> IsInjective(s) /\ x \notin Range(s)
<1> DEFINE t == Append(s, x)
           n == Len(s)
<1>1. /\ n \in Nat /\ DOMAIN s = 1..n /\ DOMAIN t = 1..(n + 1)
      /\ t[n + 1] = x /\ \A i \in 1..n : t[i] = s[i]
  OBVIOUS
<1>2. /\ 1..n \subseteq 1..(n + 1) /\ n + 1 \in 1..(n + 1) /\ n + 1 \notin 1..n
      /\ \A i \in 1..(n + 1) : i \in 1..n \/ i = n + 1
  BY <1>1
<1> HIDE DEF t, n
<1>3. ASSUME IsInjective(t) PROVE IsInjective(s) /\ x \notin Range(s)
  BY <1>1, <1>2, <1>3 DEF IsInjective, Range
<1>4. ASSUME IsInjective(s), x \notin Range(s) PROVE IsInjective(t)
  <2>1. \A i \in 1..n : s[i] # x
    BY <1>1, <1>4 DEF Range
  <2>2. ASSUME NEW i \in 1..(n + 1), NEW j \in 1..(n + 1), t[i] = t[j] PROVE i = j
    <3>1. CASE i \in 1..n /\ j \in 1..n
      BY <1>1, <1>4, <2>2, <3>1 DEF IsInjective
    <3>2. CASE i = n + 1 \/ j = n + 1
      BY <1>1, <1>2, <2>1, <2>2, <3>2
    <3> QED BY <1>2, <3>1, <3>2
  <2> QED BY <1>1, <2>2 DEF IsInjective
<1> QED BY <1>3, <1>4 DEF t

LEMMA FilteredInjective ==
    ASSUME NEW T, NEW kept
    PROVE  \A s \in Seq(T) : IsInjective(s) => IsInjective(Filtered(s, kept))
<1> DEFINE G == {s \in Seq(T) : IsInjective(s) => IsInjective(Filtered(s, kept))}
<1>1. <<>> \in G
  BY FilteredIsEmpty
<1>2. ASSUME NEW s \in Seq(T), NEW x \in T, s \in G PROVE Append(s, x) \in G
  <2> DEFINE f == Filtered(s, kept)
  <2>1. f \in Seq(T) /\ Range(f) = Range(s) \cap kept /\ (IsInjective(s) => IsInjective(f))
    BY <1>2, FilteredTyped DEF SiftedIn
  <2>2. Filtered(Append(s, x), kept) = IF x \in kept THEN Append(f, x) ELSE f
    BY FilteredGrows
  <2>3. IsInjective(Append(s, x)) <=> IsInjective(s) /\ x \notin Range(s)
    BY InjectiveAppend
  <2> HIDE DEF f
  <2>4. IsInjective(Append(f, x)) <=> IsInjective(f) /\ x \notin Range(f)
    BY <2>1, InjectiveAppend
  <2>5. IsInjective(Append(s, x)) => IsInjective(Filtered(Append(s, x), kept))
    <3>1. CASE x \in kept
      BY <2>1, <2>2, <2>3, <2>4, <3>1
    <3>2. CASE x \notin kept
      BY <2>1, <2>2, <2>3, <3>2
    <3> QED BY <3>1, <3>2
  <2> QED BY <2>5
<1> HIDE DEF G
<1>3. Seq(T) \subseteq G
  BY <1>1, <1>2, GrowingUp
<1> QED BY <1>3 DEF G

\* One sequence after another: its elements, and that none comes twice.
LEMMA ConcatFacts ==
    ASSUME NEW T, NEW p \in Seq(T), NEW q \in Seq(T)
    PROVE  /\ Range(p \o q) = Range(p) \cup Range(q)
           /\ IsInjective(p \o q) => IsInjective(q) /\ Range(p) \cap Range(q) = {}
           /\ q # <<>> => Last(p \o q) = Last(q)
<1> DEFINE m == Len(p)
           n == Len(q)
           r == p \o q
<1>1. /\ m \in Nat /\ n \in Nat /\ DOMAIN p = 1..m /\ DOMAIN q = 1..n
      /\ Len(r) = m + n /\ DOMAIN r = 1..(m + n)
      /\ \A i \in 1..m : r[i] = p[i]
      /\ \A i \in 1..n : r[m + i] = q[i]
  OBVIOUS
<1> HIDE DEF m, n, r
<1>2. /\ \A i \in 1..m : i \in 1..(m + n)
      /\ \A i \in 1..n : m + i \in 1..(m + n) /\ m + i \notin 1..m
      /\ \A i \in 1..(m + n) : i \in 1..m \/ \E j \in 1..n : i = m + j
  <2>1. ASSUME NEW i \in 1..(m + n), i \notin 1..m PROVE i - m \in 1..n /\ i = m + (i - m)
    BY <1>1, <2>1
  <2>2. /\ \A i \in 1..m : i \in 1..(m + n)
        /\ \A i \in 1..n : m + i \in 1..(m + n) /\ m + i \notin 1..m
    BY <1>1
  <2> QED BY <2>1, <2>2
<1>3. Range(r) = Range(p) \cup Range(q)
  <2>1. \A i \in 1..(m + n) : r[i] \in Range(p) \cup Range(q)
    BY <1>1, <1>2 DEF Range
  <2>2. \A i \in 1..m : p[i] \in Range(r)
    BY <1>1, <1>2 DEF Range
  <2>3. \A i \in 1..n : q[i] \in Range(r)
    BY <1>1, <1>2 DEF Range
  <2> QED BY <1>1, <2>1, <2>2, <2>3 DEF Range
<1>4. ASSUME IsInjective(r) PROVE IsInjective(q) /\ Range(p) \cap Range(q) = {}
  <2>1. \A i, j \in 1..n : q[i] = q[j] => i = j
    <3> SUFFICES ASSUME NEW i \in 1..n, NEW j \in 1..n, q[i] = q[j] PROVE i = j
      OBVIOUS
    <3>1. /\ r[m + i] = r[m + j] /\ m + i \in DOMAIN r /\ m + j \in DOMAIN r
      BY <1>1, <1>2
    <3>2. m + i = m + j
      BY <1>4, <3>1 DEF IsInjective
    <3> QED BY <1>1, <3>2
  <2>2. \A i \in 1..m, j \in 1..n : p[i] # q[j]
    <3> SUFFICES ASSUME NEW i \in 1..m, NEW j \in 1..n, p[i] = q[j] PROVE FALSE
      OBVIOUS
    <3>1. r[i] = r[m + j] /\ i \in 1..(m + n) /\ m + j \in 1..(m + n) /\ m + j \notin 1..m
      BY <1>1, <1>2
    <3> QED BY <1>1, <1>4, <3>1 DEF IsInjective
  <2> QED BY <1>1, <2>1, <2>2 DEF IsInjective, Range
<1>5. ASSUME q # <<>> PROVE Last(r) = Last(q)
  <2>1. n # 0
    BY <1>5, EmptySeq DEF n
  <2>2. n \in 1..n
    BY <1>1, <2>1
  <2>3. Last(r) = r[m + n] /\ Last(q) = q[n]
    BY <1>1 DEF Last, n
  <2> QED BY <1>1, <2>2, <2>3
<1> QED BY <1>3, <1>4, <1>5 DEF r

\* A sequence ends with what was appended, and what is kept of it with its last element if
\* that is kept.
LEMMA AppendLast ==
    ASSUME NEW T, NEW s \in Seq(T), NEW x \in T
    PROVE  Append(s, x) \in Seq(T) /\ Append(s, x) # <<>> /\ Last(Append(s, x)) = x
<1>1. /\ Append(s, x) \in Seq(T) /\ Len(Append(s, x)) = Len(s) + 1 /\ Len(s) \in Nat
      /\ Append(s, x)[Len(s) + 1] = x
  OBVIOUS
<1> QED BY <1>1, EmptySeq DEF Last

LEMMA FilteredLast ==
    ASSUME NEW T, NEW s \in Seq(T), s # <<>>, NEW kept, Last(s) \in kept
    PROVE  Filtered(s, kept) # <<>> /\ Last(Filtered(s, kept)) = Last(s)
<1> DEFINE x == Last(s)
<1>1. PICK p \in Seq(T) : s = Append(p, x)
  BY LastSplit
<1>2. x \in T
  BY LastSplit
<1> DEFINE f == Filtered(p, kept)
<1>3. f \in Seq(T)
  BY FilteredTyped DEF SiftedIn
<1>4. x \in kept
  OBVIOUS
<1> HIDE DEF x
<1>5. Filtered(Append(p, x), kept) = Append(f, x)
  BY <1>4, FilteredGrows
<1> HIDE DEF f
<1>6. Append(f, x) # <<>> /\ Last(Append(f, x)) = x
  BY <1>2, <1>3, AppendLast
<1> QED BY <1>1, <1>5, <1>6 DEF x

\* A filter that drops an element of the sequence makes it shorter.
LEMMA FilteredShorter ==
    ASSUME NEW T, NEW kept
    PROVE  \A s \in Seq(T) : ~(Range(s) \subseteq kept) => Len(Filtered(s, kept)) < Len(s)
<1> DEFINE G == {s \in Seq(T) : ~(Range(s) \subseteq kept) => Len(Filtered(s, kept)) < Len(s)}
<1>1. <<>> \in G
  BY RangeOfEmpty
<1>2. ASSUME NEW s \in Seq(T), NEW x \in T, s \in G PROVE Append(s, x) \in G
  <2> DEFINE f == Filtered(s, kept)
  <2>1. f \in Seq(T) /\ Len(f) <= Len(s) /\ (~(Range(s) \subseteq kept) => Len(f) < Len(s))
    BY <1>2, FilteredTyped DEF SiftedIn
  <2>2. /\ Filtered(Append(s, x), kept) = IF x \in kept THEN Append(f, x) ELSE f
        /\ Range(Append(s, x)) = Range(s) \cup {x}
        /\ Append(s, x) \in Seq(T) /\ Len(Append(s, x)) = Len(s) + 1 /\ Len(s) \in Nat
    BY FilteredGrows, RangeOfAppend
  <2> HIDE DEF f
  <2>3. Len(f) \in Nat /\ Len(Append(f, x)) = Len(f) + 1
    BY <2>1
  <2>4. CASE x \in kept
    <3>1. Filtered(Append(s, x), kept) = Append(f, x)
      BY <2>2, <2>4
    <3>2. ~(Range(Append(s, x)) \subseteq kept) => Len(f) < Len(s)
      BY <2>1, <2>2, <2>4
    <3> QED BY <2>2, <2>3, <3>1, <3>2
  <2>5. CASE x \notin kept
    BY <2>1, <2>2, <2>3, <2>5
  <2> QED BY <2>4, <2>5
<1> HIDE DEF G
<1>3. Seq(T) \subseteq G
  BY <1>1, <1>2, GrowingUp
<1> QED BY <1>3 DEF G

\* Two sequences without repetitions and without a common element make one.
LEMMA InjectiveConcat ==
    ASSUME NEW T, NEW p \in Seq(T), NEW q \in Seq(T),
           IsInjective(p), IsInjective(q), Range(p) \cap Range(q) = {}
    PROVE  IsInjective(p \o q)
<1> DEFINE m == Len(p)
           n == Len(q)
           r == p \o q
<1>1. /\ m \in Nat /\ n \in Nat /\ DOMAIN p = 1..m /\ DOMAIN q = 1..n
      /\ DOMAIN r = 1..(m + n)
      /\ \A i \in 1..m : r[i] = p[i]
      /\ \A i \in 1..n : r[m + i] = q[i]
  OBVIOUS
<1> HIDE DEF m, n, r
<1>2. \A i \in 1..(m + n) : i \in 1..m \/ (i - m \in 1..n /\ i = m + (i - m))
  BY <1>1
<1>3. /\ \A i \in 1..m : r[i] = p[i] /\ r[i] \in Range(p)
      /\ \A i \in 1..(m + n) : i - m \in 1..n => r[i] = q[i - m] /\ r[i] \in Range(q)
  <2>1. ASSUME NEW i \in 1..m PROVE r[i] = p[i] /\ r[i] \in Range(p)
    BY <1>1, <2>1 DEF Range
  <2>2. ASSUME NEW i \in 1..(m + n), i - m \in 1..n
        PROVE  r[i] = q[i - m] /\ r[i] \in Range(q)
    <3> DEFINE k == i - m
    <3>1. k \in 1..n /\ i = m + k
      BY <1>1, <2>2
    <3> HIDE DEF k
    <3>2. r[i] = q[k] /\ q[k] \in Range(q)
      BY <1>1, <3>1 DEF Range
    <3> QED BY <3>1, <3>2 DEF k
  <2> QED BY <2>1, <2>2
<1>4. ASSUME NEW i \in 1..(m + n), NEW j \in 1..(m + n), r[i] = r[j] PROVE i = j
  <2>1. CASE i \in 1..m /\ j \in 1..m
    BY <1>1, <1>3, <1>4, <2>1 DEF IsInjective
  <2>2. CASE i - m \in 1..n /\ j - m \in 1..n
    <3>1. q[i - m] = q[j - m]
      BY <1>3, <1>4, <2>2
    <3>2. i - m = j - m
      BY <1>1, <2>2, <3>1 DEF IsInjective
    <3> QED BY <1>1, <3>2
  <2>3. \A k \in 1..m, l \in 1..(m + n) : l - m \in 1..n => r[k] # r[l]
    BY <1>3
  <2>4. (i \in 1..m \/ i - m \in 1..n) /\ (j \in 1..m \/ j - m \in 1..n)
    BY <1>2
  <2> QED BY <1>4, <2>1, <2>2, <2>3, <2>4
<1> QED BY <1>1, <1>4 DEF IsInjective, r

\* The head of a sequence is one of its elements.
LEMMA HeadAmong ==
    ASSUME NEW T, NEW s \in Seq(T), s # <<>> PROVE Head(s) \in Range(s)
<1>1. Len(s) \in Nat /\ Len(s) # 0 /\ DOMAIN s = 1..Len(s)
  BY EmptySeq
<1>2. 1 \in DOMAIN s /\ Head(s) = s[1]
  BY <1>1
<1> QED BY <1>2 DEF Range
=============================================================================
