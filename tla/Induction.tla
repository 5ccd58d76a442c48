----------------------------- MODULE Induction -----------------------------
(***************************************************************************)
(* Induction over numbers, finite sets and sequences, stated for sets      *)
(* instead of predicates, and what it says of the sums, folds and          *)
(* concatenations of the community modules.  The proofs about the          *)
(* components rest on these lemmas.                                        *)
(***************************************************************************)
EXTENDS Integers, Sequences, FiniteSets, FiniteSetsExt, SequencesExt, Subsequences,
        FiniteSetTheorems, SequenceTheorems, WellFoundedInduction, TLAPS

-----------------------------------------------------------------------------
(* Numbers *)

\* A set of numbers that is not empty has a smallest one.
LEMMA NatMin ==
    ASSUME NEW T \in SUBSET Nat, T # {}
    PROVE  \E x \in T : \A y \in T : x <= y
<1> DEFINE R == OpToRel(<, Nat)
<1>1. IsWellFoundedOn(R, Nat)
  BY NatLessThanWellFounded
<1>2. \A x, y \in Nat : x < y => <<x, y>> \in R
  BY DEF OpToRel
<1> HIDE DEF R
<1>3. \E x \in T : \A y \in T : ~(<<y, x>> \in R)
  BY <1>1, WFMin
<1>4. PICK x \in T : \A y \in T : ~(<<y, x>> \in R)
  BY <1>3
<1>5. \A y \in T : y \in Nat /\ x \in Nat
  BY <1>4
<1>6. \A y \in T : ~(y < x)
  BY <1>2, <1>4, <1>5, Zenon
<1>7. \A y \in T : x <= y
  BY <1>5, <1>6
<1>. QED
  BY <1>4, <1>7

\* A set with 0 and with the successor of each of its numbers has them all.
LEMMA CountingUp ==
    ASSUME NEW S, 0 \in S, \A n \in Nat : n \in S => n + 1 \in S
    PROVE  \A n \in Nat : n \in S
<1>1. ASSUME NEW n \in Nat, n \notin S PROVE FALSE
  <2>1. PICK x \in Nat \ S : \A y \in Nat \ S : x <= y
    BY <1>1, NatMin
  <2>2. x # 0 /\ x - 1 \in Nat
    BY <2>1
  <2>3. x - 1 \in S
    BY <2>1, <2>2
  <2>4. (x - 1) + 1 \in S
    BY <2>2, <2>3
  <2>. QED
    BY <2>1, <2>4
<1>. QED
  BY <1>1

\* A set of numbers with a bound has a largest one.
LEMMA NatMax ==
    ASSUME NEW T \in SUBSET Nat, T # {}, NEW n \in Nat, \A x \in T : x <= n
    PROVE  \E x \in T : \A y \in T : y <= x
<1> DEFINE U == {k \in Nat : \A y \in T : y <= k}
<1>1. U # {} /\ U \in SUBSET Nat
  OBVIOUS
<1>2. PICK k \in U : \A j \in U : k <= j
  BY <1>1, NatMin
<1>3. k \in T
  <2>1. SUFFICES ASSUME k \notin T PROVE FALSE
    OBVIOUS
  <2>2. \A y \in T : y < k
    BY <1>2, <2>1
  <2>3. PICK y \in T : TRUE
    OBVIOUS
  <2>4. k - 1 \in Nat /\ \A z \in T : z <= k - 1
    BY <1>2, <2>2, <2>3
  <2>5. k - 1 \in U /\ k \in Nat
    BY <1>2, <2>4
  <2>. QED
    BY <1>2, <2>5
<1>. QED
  BY <1>2, <1>3

\* Min and Max of the community modules.
LEMMA MinIs ==
    ASSUME NEW T \in SUBSET Nat, T # {}
    PROVE  Min(T) \in T /\ \A y \in T : Min(T) <= y
BY NatMin DEF Min

LEMMA MaxIs ==
    ASSUME NEW T \in SUBSET Nat, T # {}, NEW n \in Nat, \A x \in T : x <= n
    PROVE  Max(T) \in T /\ \A y \in T : y <= Max(T)
BY NatMax DEF Max

\* Recursion: a base and a step for each number determine a function.
Steps(step, n, S) == step \in [1..n -> [S -> S]]

Recurses(h, n, S, base, step) ==
    h \in [0..n -> S] /\ h[0] = base /\ \A k \in 1..n : h[k] = step[k][h[k - 1]]

LEMMA Recursion ==
    ASSUME NEW S, NEW n \in Nat, NEW base \in S, NEW step, Steps(step, n, S)
    PROVE  \E h : Recurses(h, n, S, base, step)
<1>. USE DEF Steps, Recurses
<1> DEFINE Upto(m) == \E h \in [0..m -> S] : h[0] = base /\ \A k \in 1..m : h[k] = step[k][h[k - 1]]
           T == {m \in Nat : m <= n => Upto(m)}
<1>1. 0 \in T
  <2> DEFINE h == [k \in 0..0 |-> base]
  <2>1. h \in [0..0 -> S] /\ h[0] = base /\ \A k \in 1..0 : h[k] = step[k][h[k - 1]]
    OBVIOUS
  <2>2. Upto(0)
    BY <2>1
  <2>. QED
    BY <2>2
<1>2. ASSUME NEW m \in Nat, m \in T PROVE m + 1 \in T
  <2>1. ASSUME m + 1 <= n PROVE Upto(m + 1)
    <3>1. PICK h \in [0..m -> S] : h[0] = base /\ \A k \in 1..m : h[k] = step[k][h[k - 1]]
      BY <1>2, <2>1
    <3> DEFINE g == [k \in 0..m + 1 |-> IF k = m + 1 THEN step[m + 1][h[m]] ELSE h[k]]
    <3>2. m + 1 \in 1..n /\ m \in 0..m
      BY <2>1
    <3>3. step[m + 1] \in [S -> S] /\ h[m] \in S
      BY <3>1, <3>2
    <3>4. g \in [0..m + 1 -> S]
      BY <3>1, <3>3
    <3>5. g[0] = base
      BY <3>1
    <3>6. ASSUME NEW k \in 1..m + 1 PROVE g[k] = step[k][g[k - 1]]
      <4>1. k - 1 \in 0..m /\ g[k - 1] = h[k - 1]
        OBVIOUS
      <4>2. CASE k = m + 1
        BY <4>1, <4>2
      <4>3. CASE k \in 1..m
        BY <3>1, <4>1, <4>3
      <4>. QED
        BY <4>2, <4>3
    <3>. QED
      BY <3>4, <3>5, <3>6
  <2>. QED
    BY <2>1
<1>3. n \in T
  <2> HIDE DEF T
  <2>. QED
    BY <1>1, <1>2, CountingUp
<1>. QED
  BY <1>3

-----------------------------------------------------------------------------
(* Sums over finite sets *)

\* Every finite set is made by adding one element after the other.
LEMMA SetInduction ==
    ASSUME NEW S, IsFiniteSet(S), NEW P, {} \in P,
           \A T \in SUBSET S, x \in S : T \in P /\ x \notin T => T \cup {x} \in P
    PROVE  \A T \in SUBSET S : T \in P
<1> DEFINE Q == {m \in Nat : \A T \in SUBSET S : Cardinality(T) = m => T \in P}
<1>1. \A T \in SUBSET S : IsFiniteSet(T) /\ Cardinality(T) \in Nat
  BY FS_Subset, FS_CardinalityType
<1>2. 0 \in Q
  BY <1>1, FS_EmptySet
<1>3. ASSUME NEW m \in Nat, m \in Q PROVE m + 1 \in Q
  <2>1. ASSUME NEW T \in SUBSET S, Cardinality(T) = m + 1 PROVE T \in P
    <3>1. IsFiniteSet(T) /\ T # {}
      BY <1>1, <2>1, FS_EmptySet
    <3>2. PICK x \in T : TRUE
      BY <3>1
    <3>3. Cardinality(T \ {x}) = Cardinality(T) - 1
      BY <3>1, FS_RemoveElement
    <3>4. T \ {x} \in P
      BY <1>3, <2>1, <3>3
    <3>5. (T \ {x}) \cup {x} \in P
      BY <3>2, <3>4
    <3>6. (T \ {x}) \cup {x} = T
      BY <3>2
    <3>. QED
      BY <3>5, <3>6
  <2>. QED
    BY <2>1
<1>4. \A m \in Nat : m \in Q
  <2> HIDE DEF Q
  <2>. QED
    BY <1>2, <1>3, CountingUp
<1>. QED
  BY <1>1, <1>4

\* The sum of v over S, as the models write it.
Total(v, S) == MapThenSumSet(LAMBDA x : v[x], S)

\* What its recursion is about.
IsTotal(g, v, S) ==
    g = [s \in SUBSET S |-> IF s = {} THEN 0
                            ELSE v[CHOOSE x \in s : TRUE] + g[s \ {CHOOSE x \in s : TRUE}]]

\* The element that goes first may be any.
AnyFirst(g, v, S) == \A s \in SUBSET S : \A x \in s : g[s] = v[x] + g[s \ {x}]

LEMMA TotalExists ==
    ASSUME NEW S, IsFiniteSet(S), NEW v \in [S -> Int]
    PROVE  \E g \in [SUBSET S -> Int] : IsTotal(g, v, S)
<1> DEFINE Small(m) == {s \in SUBSET S : Cardinality(s) <= m}
           Is(g, m) == \A s \in Small(m) :
                         g[s] = IF s = {} THEN 0
                                ELSE v[CHOOSE x \in s : TRUE] + g[s \ {CHOOSE x \in s : TRUE}]
           T == {m \in Nat : \E g \in [Small(m) -> Int] : Is(g, m)}
<1>1. \A s \in SUBSET S : IsFiniteSet(s) /\ Cardinality(s) \in Nat
  BY FS_Subset, FS_CardinalityType
<1>2. \A s \in SUBSET S : s # {} => /\ (CHOOSE x \in s : TRUE) \in s
                                   /\ s \ {CHOOSE x \in s : TRUE} \in SUBSET S
                                   /\ Cardinality(s \ {CHOOSE x \in s : TRUE}) = Cardinality(s) - 1
  BY <1>1, FS_RemoveElement
<1>3. 0 \in T
  <2>1. \A s \in Small(0) : s = {}
    BY <1>1, FS_EmptySet
  <2>2. [s \in Small(0) |-> 0] \in [Small(0) -> Int] /\ Is([s \in Small(0) |-> 0], 0)
    BY <2>1
  <2>. QED
    BY <2>2
<1>4. ASSUME NEW m \in Nat, m \in T PROVE m + 1 \in T
  <2>1. PICK g \in [Small(m) -> Int] : Is(g, m)
    BY <1>4
  <2> DEFINE h == [s \in Small(m + 1) |->
                     IF s = {} THEN 0
                     ELSE v[CHOOSE x \in s : TRUE] + g[s \ {CHOOSE x \in s : TRUE}]]
  <2>2. \A s \in Small(m + 1) : s # {} => s \ {CHOOSE x \in s : TRUE} \in Small(m)
    BY <1>1, <1>2
  <2>3. \A s \in Small(m + 1) : s # {} => v[CHOOSE x \in s : TRUE] \in Int
    BY <1>2
  <2>4. h \in [Small(m + 1) -> Int]
    BY <2>2, <2>3
  <2>5. \A s \in Small(m) : s \in Small(m + 1) /\ h[s] = g[s]
    <3>1. \A s \in Small(m) : s \in Small(m + 1)
      BY <1>1
    <3>. QED
      BY <2>1, <3>1
  <2>6. Is(h, m + 1)
    <3>1. ASSUME NEW s \in Small(m + 1), s # {}
          PROVE  h[s] = v[CHOOSE x \in s : TRUE] + h[s \ {CHOOSE x \in s : TRUE}]
      BY <2>2, <2>5, <3>1
    <3>. QED
      BY <3>1
  <2> HIDE DEF h, Is, Small
  <2>7. \E f \in [Small(m + 1) -> Int] : Is(f, m + 1)
    BY <2>4, <2>6
  <2>. QED
    BY <2>7
<1>5. Cardinality(S) \in T
  <2> HIDE DEF T
  <2>. QED
    BY <1>1, <1>3, <1>4, CountingUp
<1>6. Small(Cardinality(S)) = SUBSET S
  BY <1>1, FS_Subset
<1>7. PICK g \in [SUBSET S -> Int] : Is(g, Cardinality(S))
  BY <1>5, <1>6
<1>8. IsTotal(g, v, S)
  BY <1>6, <1>7 DEF IsTotal
<1>. QED
  BY <1>8

\* The sum over a part of S does not depend on the element that goes first.
LEMMA TotalStep ==
    ASSUME NEW S, IsFiniteSet(S), NEW v \in [S -> Int],
           NEW g \in [SUBSET S -> Int], IsTotal(g, v, S)
    PROVE  AnyFirst(g, v, S)
<1> DEFINE T == {m \in Nat : \A s \in SUBSET S : Cardinality(s) = m =>
                                 \A x \in s : g[s] = v[x] + g[s \ {x}]}
<1>1. \A s \in SUBSET S : IsFiniteSet(s) /\ Cardinality(s) \in Nat
  BY FS_Subset, FS_CardinalityType
<1>2. \A s \in SUBSET S : s # {} => /\ (CHOOSE x \in s : TRUE) \in s
                                   /\ g[s] = v[CHOOSE x \in s : TRUE] + g[s \ {CHOOSE x \in s : TRUE}]
  BY DEF IsTotal
<1>3. 0 \in T
  BY <1>1, FS_EmptySet
<1>4. ASSUME NEW m \in Nat, m \in T PROVE m + 1 \in T
  <2>1. ASSUME NEW s \in SUBSET S, Cardinality(s) = m + 1, NEW x \in s
        PROVE  g[s] = v[x] + g[s \ {x}]
    <3> DEFINE c == CHOOSE y \in s : TRUE
    <3>1. c \in s /\ g[s] = v[c] + g[s \ {c}]
      BY <1>2, <2>1
    <3> HIDE DEF c
    <3>2. CASE c = x
      BY <3>1, <3>2
    <3>3. CASE c # x
      <4>1. ASSUME NEW y \in s PROVE s \ {y} \in SUBSET S /\ Cardinality(s \ {y}) = m
        <5>1. IsFiniteSet(s)
          BY <1>1
        <5>2. Cardinality(s \ {y}) = (m + 1) - 1
          BY <2>1, <5>1, FS_RemoveElement
        <5>. QED
          BY <5>2
      <4>2. x \in s \ {c} /\ c \in s \ {x}
        BY <3>1, <3>3
      <4> DEFINE r == s \ {c, x}
      <4>3. (s \ {c}) \ {x} = r /\ (s \ {x}) \ {c} = r
        OBVIOUS
      <4>4. g[s \ {c}] = v[x] + g[r] /\ g[s \ {x}] = v[c] + g[r]
        BY <1>4, <3>1, <4>1, <4>2, <4>3
      <4>5. v[x] \in Int /\ v[c] \in Int /\ g[r] \in Int
        BY <3>1
      <4> HIDE DEF r
      <4>. QED
        BY <3>1, <4>3, <4>4, <4>5
    <3>. QED
      BY <3>2, <3>3
  <2>. QED
    BY <2>1
<1>5. \A m \in Nat : m \in T
  <2> HIDE DEF T
  <2>. QED
    BY <1>3, <1>4, CountingUp
<1>. QED
  BY <1>1, <1>5 DEF AnyFirst

\* Two such recursions agree where the summands do.
LEMMA TotalAgree ==
    ASSUME NEW S, NEW T, NEW v, NEW w, NEW g, NEW h, IsTotal(g, v, S), IsTotal(h, w, T),
           NEW U \in SUBSET S, U \subseteq T, IsFiniteSet(U), \A x \in U : v[x] = w[x]
    PROVE  \A s \in SUBSET U : g[s] = h[s]
<1> DEFINE Q == {m \in Nat : \A s \in SUBSET U : Cardinality(s) = m => g[s] = h[s]}
<1>1. \A s \in SUBSET U : IsFiniteSet(s) /\ Cardinality(s) \in Nat
  BY FS_Subset, FS_CardinalityType
<1>2. 0 \in Q
  <2>1. g[{}] = 0 /\ h[{}] = 0
    BY DEF IsTotal
  <2>. QED
    BY <1>1, <2>1, FS_EmptySet
<1>3. ASSUME NEW m \in Nat, m \in Q PROVE m + 1 \in Q
  <2>1. ASSUME NEW s \in SUBSET U, Cardinality(s) = m + 1 PROVE g[s] = h[s]
    <3> DEFINE c == CHOOSE x \in s : TRUE
    <3>1. IsFiniteSet(s) /\ s # {}
      BY <1>1, <2>1, FS_EmptySet
    <3>2. c \in s
      BY <3>1
    <3>3. g[s] = v[c] + g[s \ {c}] /\ h[s] = w[c] + h[s \ {c}]
      BY <3>1 DEF IsTotal
    <3>4. Cardinality(s \ {c}) = (m + 1) - 1
      BY <2>1, <3>1, <3>2, FS_RemoveElement
    <3>5. g[s \ {c}] = h[s \ {c}]
      BY <1>3, <3>4
    <3>. QED
      BY <3>2, <3>3, <3>5
  <2>. QED
    BY <2>1
<1>4. \A m \in Nat : m \in Q
  <2> HIDE DEF Q
  <2>. QED
    BY <1>2, <1>3, CountingUp
<1>. QED
  BY <1>1, <1>4

Sums(g, v, S) ==
    /\ g \in [SUBSET S -> Int] /\ IsTotal(g, v, S)
    /\ \A s \in SUBSET S : Total(v, s) = g[s]
    /\ AnyFirst(g, v, S)

\* The recursion behind a total.
LEMMA TotalIs ==
    ASSUME NEW S, IsFiniteSet(S), NEW v, \A x \in S : v[x] \in Int
    PROVE  \E g : Sums(g, v, S)
<1> DEFINE w == [x \in S |-> v[x]]
<1>1. PICK g \in [SUBSET S -> Int] : IsTotal(g, w, S)
  BY TotalExists
<1>2. IsTotal(g, v, S)
  <2>1. \A s \in SUBSET S : s # {} => w[CHOOSE x \in s : TRUE] = v[CHOOSE x \in s : TRUE]
    OBVIOUS
  <2>. QED
    BY <1>1, <2>1 DEF IsTotal
<1>3. ASSUME NEW s \in SUBSET S PROVE Total(v, s) = g[s]
  <2> DEFINE G == CHOOSE f : f = [t \in SUBSET s |->
                     IF t = {} THEN 0
                     ELSE v[CHOOSE x \in t : TRUE] + f[t \ {CHOOSE x \in t : TRUE}]]
  <2>1. Total(v, s) = G[s]
    BY DEF Total, MapThenSumSet, MapThenFoldSet
  <2>2. \E f : IsTotal(f, v, s)
    <3>1. [t \in SUBSET s |-> g[t]] = [t \in SUBSET s |->
             IF t = {} THEN 0
             ELSE v[CHOOSE x \in t : TRUE] + [r \in SUBSET s |-> g[r]][t \ {CHOOSE x \in t : TRUE}]]
      BY <1>2 DEF IsTotal
    <3>. QED
      BY <3>1 DEF IsTotal
  <2>3. IsTotal(G, v, s)
    BY <2>2 DEF IsTotal
  <2> HIDE DEF G
  <2>4. IsFiniteSet(s)
    BY FS_Subset
  <2>. QED
    BY <1>2, <2>1, <2>3, <2>4, TotalAgree
<1>4. AnyFirst(g, v, S)
  <2>1. AnyFirst(g, w, S)
    <3>1. w \in [S -> Int]
      OBVIOUS
    <3> HIDE DEF w
    <3>. QED
      BY <1>1, <3>1, TotalStep
  <2>. QED
    BY <2>1 DEF AnyFirst
<1>. QED
  BY <1>1, <1>2, <1>3, <1>4 DEF Sums

LEMMA TotalOf ==
    ASSUME NEW S, IsFiniteSet(S), NEW v, \A x \in S : v[x] \in Int, NEW g, IsTotal(g, v, S)
    PROVE  g[S] = Total(v, S)
<1>1. PICK h : Sums(h, v, S)
  BY TotalIs
<1>2. IsTotal(h, v, S) /\ Total(v, S) = h[S]
  BY <1>1 DEF Sums
<1>. QED
  BY <1>2, TotalAgree

LEMMA TotalEmpty == ASSUME NEW v PROVE Total(v, {}) = 0
<1>1. IsFiniteSet({}) /\ \A x \in {} : v[x] \in Int
  BY FS_EmptySet
<1>2. PICK g : Sums(g, v, {})
  BY <1>1, TotalIs
<1>. QED
  BY <1>2 DEF Sums, IsTotal

LEMMA TotalInt ==
    ASSUME NEW S, IsFiniteSet(S), NEW v, \A x \in S : v[x] \in Int
    PROVE  Total(v, S) \in Int
<1>1. PICK g : Sums(g, v, S)
  BY TotalIs
<1>. QED
  BY <1>1 DEF Sums

LEMMA TotalRemove ==
    ASSUME NEW S, IsFiniteSet(S), NEW v, \A x \in S : v[x] \in Int, NEW x \in S
    PROVE  Total(v, S) = v[x] + Total(v, S \ {x})
<1>1. PICK g : Sums(g, v, S)
  BY TotalIs
<1>. QED
  BY <1>1 DEF Sums, AnyFirst

LEMMA TotalEqual ==
    ASSUME NEW S, IsFiniteSet(S), NEW v, NEW w, \A x \in S : v[x] \in Int /\ v[x] = w[x]
    PROVE  Total(v, S) = Total(w, S)
<1>1. \A x \in S : w[x] \in Int
  OBVIOUS
<1>2. PICK g : Sums(g, v, S)
  BY TotalIs
<1>3. PICK h : Sums(h, w, S)
  BY <1>1, TotalIs
<1>4. IsTotal(g, v, S) /\ IsTotal(h, w, S)
  BY <1>2, <1>3 DEF Sums
<1>5. g[S] = h[S]
  BY <1>4, TotalAgree
<1>. QED
  BY <1>2, <1>3, <1>5 DEF Sums

LEMMA TotalAdd ==
    ASSUME NEW S, IsFiniteSet(S), NEW v, \A x \in S : v[x] \in Int,
           NEW T \in SUBSET S, NEW x \in S, x \notin T
    PROVE  Total(v, T \cup {x}) = v[x] + Total(v, T) /\ Total(v, T) \in Int
<1>1. T \cup {x} \in SUBSET S /\ (T \cup {x}) \ {x} = T
  OBVIOUS
<1>2. IsFiniteSet(T \cup {x}) /\ IsFiniteSet(T)
  BY <1>1, FS_Subset
<1>3. Total(v, T) \in Int
  BY <1>2, TotalInt
<1>4. Total(v, T \cup {x}) = v[x] + Total(v, (T \cup {x}) \ {x})
  BY <1>1, <1>2, TotalRemove
<1>. QED
  BY <1>1, <1>3, <1>4

\* Two families that differ at one element only.
LEMMA TotalPoint ==
    ASSUME NEW S, IsFiniteSet(S), NEW v, NEW w, \A y \in S : v[y] \in Int /\ w[y] \in Int,
           NEW x \in S, \A y \in S \ {x} : v[y] = w[y]
    PROVE  Total(w, S) = Total(v, S) + w[x] - v[x]
<1>1. IsFiniteSet(S \ {x})
  BY FS_RemoveElement
<1>2. Total(v, S \ {x}) = Total(w, S \ {x})
  BY <1>1, TotalEqual
<1>3. Total(v, S) = v[x] + Total(v, S \ {x}) /\ Total(w, S) = w[x] + Total(w, S \ {x})
  BY TotalRemove
<1>4. Total(v, S \ {x}) \in Int
  BY <1>1, TotalInt
<1>. QED
  BY <1>2, <1>3, <1>4

LEMMA TotalZero ==
    ASSUME NEW S, IsFiniteSet(S), NEW v, \A x \in S : v[x] = 0
    PROVE  Total(v, S) = 0
<1> DEFINE P == {T \in SUBSET S : Total(v, T) = 0}
<1>1. {} \in P
  BY TotalEmpty
<1>2. ASSUME NEW T \in SUBSET S, NEW x \in S, T \in P, x \notin T PROVE T \cup {x} \in P
  <2>1. Total(v, T \cup {x}) = v[x] + Total(v, T)
    BY <1>2, TotalAdd
  <2>. QED
    BY <1>2, <2>1
<1> HIDE DEF P
<1>3. S \in P
  BY <1>1, <1>2, SetInduction
<1>. QED
  BY <1>3 DEF P

LEMMA TotalNat ==
    ASSUME NEW S, IsFiniteSet(S), NEW v, \A x \in S : v[x] \in Nat
    PROVE  Total(v, S) \in Nat
<1> DEFINE P == {T \in SUBSET S : Total(v, T) \in Nat}
<1>1. {} \in P
  BY TotalEmpty
<1>2. ASSUME NEW T \in SUBSET S, NEW x \in S, T \in P, x \notin T PROVE T \cup {x} \in P
  <2>1. Total(v, T \cup {x}) = v[x] + Total(v, T)
    BY <1>2, TotalAdd
  <2>. QED
    BY <1>2, <2>1
<1> HIDE DEF P
<1>3. S \in P
  BY <1>1, <1>2, SetInduction
<1>. QED
  BY <1>3 DEF P

\* Sums of sums, and of what is at most as large.
LEMMA TotalPlus ==
    ASSUME NEW S, IsFiniteSet(S), NEW u, NEW v, NEW w,
           \A x \in S : u[x] \in Int /\ v[x] \in Int /\ w[x] = u[x] + v[x]
    PROVE  Total(w, S) = Total(u, S) + Total(v, S)
<1> DEFINE P == {T \in SUBSET S : Total(w, T) = Total(u, T) + Total(v, T)}
<1>1. {} \in P
  BY TotalEmpty
<1>2. ASSUME NEW T \in SUBSET S, NEW x \in S, T \in P, x \notin T PROVE T \cup {x} \in P
  <2>1. \A y \in S : u[y] \in Int /\ v[y] \in Int /\ w[y] \in Int
    OBVIOUS
  <2>2. Total(w, T \cup {x}) = w[x] + Total(w, T)
    BY <1>2, <2>1, TotalAdd
  <2>3. Total(u, T \cup {x}) = u[x] + Total(u, T) /\ Total(u, T) \in Int
    BY <1>2, <2>1, TotalAdd
  <2>4. Total(v, T \cup {x}) = v[x] + Total(v, T) /\ Total(v, T) \in Int
    BY <1>2, <2>1, TotalAdd
  <2>. QED
    BY <1>2, <2>2, <2>3, <2>4
<1> HIDE DEF P
<1>3. S \in P
  BY <1>1, <1>2, SetInduction
<1>. QED
  BY <1>3 DEF P

LEMMA TotalAtMost ==
    ASSUME NEW S, IsFiniteSet(S), NEW v, NEW w,
           \A x \in S : v[x] \in Int /\ w[x] \in Int /\ v[x] <= w[x]
    PROVE  Total(v, S) <= Total(w, S)
<1> DEFINE P == {T \in SUBSET S : Total(v, T) <= Total(w, T)}
<1>1. {} \in P
  BY TotalEmpty
<1>2. ASSUME NEW T \in SUBSET S, NEW x \in S, T \in P, x \notin T PROVE T \cup {x} \in P
  <2>1. \A y \in S : v[y] \in Int /\ w[y] \in Int
    OBVIOUS
  <2>2. Total(v, T \cup {x}) = v[x] + Total(v, T) /\ Total(v, T) \in Int
    BY <1>2, <2>1, TotalAdd
  <2>3. Total(w, T \cup {x}) = w[x] + Total(w, T) /\ Total(w, T) \in Int
    BY <1>2, <2>1, TotalAdd
  <2>. QED
    BY <1>2, <2>2, <2>3
<1> HIDE DEF P
<1>3. S \in P
  BY <1>1, <1>2, SetInduction
<1>. QED
  BY <1>3 DEF P

\* Parts without a common element.
LEMMA TotalUnion ==
    ASSUME NEW A, IsFiniteSet(A), NEW B, IsFiniteSet(B), A \cap B = {},
           NEW v, \A x \in A \cup B : v[x] \in Int
    PROVE  Total(v, A \cup B) = Total(v, A) + Total(v, B)
<1> DEFINE P == {T \in SUBSET B : Total(v, A \cup T) = Total(v, A) + Total(v, T)}
           S == A \cup B
<1>1. IsFiniteSet(S)
  BY FS_Union
<1>2. {} \in P
  <2>1. A \cup {} = A /\ Total(v, A) \in Int
    BY TotalInt
  <2>. QED
    BY <2>1, TotalEmpty
<1>3. \A y \in S : v[y] \in Int
  OBVIOUS
<1>4. ASSUME NEW T \in SUBSET B, NEW x \in B, T \in P, x \notin T PROVE T \cup {x} \in P
  <2>1. Total(v, T \cup {x}) = v[x] + Total(v, T) /\ Total(v, T) \in Int
    BY <1>4, TotalAdd
  <2>2. A \cup T \in SUBSET S /\ x \in S /\ x \notin A \cup T /\ A \cup (T \cup {x}) = (A \cup T) \cup {x}
    BY <1>4
  <2>3. Total(v, (A \cup T) \cup {x}) = v[x] + Total(v, A \cup T)
    <3> DEFINE R == A \cup T
    <3>1. R \in SUBSET S /\ x \in S /\ x \notin R
      BY <2>2
    <3> HIDE DEF P, R, S
    <3>2. Total(v, R \cup {x}) = v[x] + Total(v, R)
      BY <1>1, <1>3, <3>1, TotalAdd
    <3>. QED
      BY <3>2 DEF R
  <2>4. Total(v, A) \in Int /\ v[x] \in Int
    BY TotalInt
  <2>5. Total(v, A \cup T) = Total(v, A) + Total(v, T)
    BY <1>4
  <2>6. Total(v, A \cup (T \cup {x})) = Total(v, A) + Total(v, T \cup {x})
    <3>1. Total(v, A \cup (T \cup {x})) = v[x] + Total(v, A \cup T)
      BY <2>2, <2>3, Zenon
    <3> HIDE DEF P
    <3>. QED
      BY <3>1, <2>1, <2>4, <2>5
  <2>7. T \cup {x} \in SUBSET B
    OBVIOUS
  <2>. QED
    BY <2>6, <2>7
<1> HIDE DEF P
<1>5. B \in P
  BY <1>2, <1>4, SetInduction
<1>. QED
  BY <1>5 DEF P

\* The elements counted in another way: each element of the image once.
Numbers(phi, B, C) ==
    /\ \A x \in B : phi[x] \in C
    /\ \A x, y \in B : phi[x] = phi[y] => x = y
    /\ \A c \in C : \E x \in B : c = phi[x]

LEMMA TotalImage ==
    ASSUME NEW B, IsFiniteSet(B), NEW C, IsFiniteSet(C), NEW phi, Numbers(phi, B, C),
           NEW v, \A c \in C : v[c] \in Int,
           NEW w, \A x \in B : w[x] = v[phi[x]]
    PROVE  Total(v, C) = Total(w, B)
<1>. USE DEF Numbers
<1> DEFINE Image(T) == {phi[x] : x \in T}
           P == {T \in SUBSET B : Total(v, Image(T)) = Total(w, T)}
<1>1. {} \in P
  <2>1. Image({}) = {}
    OBVIOUS
  <2>. QED
    BY <2>1, TotalEmpty
<1>2. ASSUME NEW T \in SUBSET B, NEW x \in B, T \in P, x \notin T PROVE T \cup {x} \in P
  <2>1. /\ Image(T \cup {x}) = Image(T) \cup {phi[x]} /\ Image(T) \in SUBSET C
        /\ phi[x] \in C /\ phi[x] \notin Image(T)
    BY <1>2
  <2>2. \A y \in B : w[y] \in Int
    OBVIOUS
  <2>3. w[x] = v[phi[x]]
    OBVIOUS
  <2> HIDE DEF Image
  <2>4. Total(w, T \cup {x}) = w[x] + Total(w, T)
    BY <1>2, <2>2, TotalAdd
  <2>5. Total(v, Image(T) \cup {phi[x]}) = v[phi[x]] + Total(v, Image(T))
    BY <2>1, TotalAdd
  <2>. QED
    BY <1>2, <2>1, <2>3, <2>4, <2>5
<1>3. B \in P
  <2> HIDE DEF P
  <2>. QED
    BY <1>1, <1>2, SetInduction
<1>4. Image(B) = C
  OBVIOUS
<1>. QED
  BY <1>3, <1>4

\* A sum line by line: phi gives the element of C at each place.
CutsUp(phi, A, B, C) ==
    /\ phi \in [A -> [B -> C]]
    /\ \A a, d \in A, b, e \in B : phi[a][b] = phi[d][e] => a = d /\ b = e
    /\ \A c \in C : \E a \in A, b \in B : c = phi[a][b]

LEMMA TotalLines ==
    ASSUME NEW A, IsFiniteSet(A), NEW B, IsFiniteSet(B), NEW C, IsFiniteSet(C),
           NEW phi, CutsUp(phi, A, B, C), NEW v, \A c \in C : v[c] \in Int,
           NEW row, \A a \in A : row[a] = Total([b \in B |-> v[phi[a][b]]], B)
    PROVE  Total(v, C) = Total(row, A)
<1>. USE DEF CutsUp
<1> DEFINE Row(a) == {phi[a][b] : b \in B}
           Part(T) == {c \in C : \E a \in T, b \in B : c = phi[a][b]}
           P == {T \in SUBSET A : Total(v, Part(T)) = Total(row, T)}
<1>1. ASSUME NEW a \in A PROVE row[a] = Total(v, Row(a)) /\ row[a] \in Int
  <2>1. phi[a] \in [B -> C] /\ \A x, y \in B : phi[a][x] = phi[a][y] => x = y
    OBVIOUS
  <2>2. Row(a) \in SUBSET C
    BY <2>1
  <2>3. Total(v, Row(a)) = Total([b \in B |-> v[phi[a][b]]], B)
    <3> DEFINE f == phi[a]
               w == [b \in B |-> v[phi[a][b]]]
               I == Row(a)
    <3>1. Numbers(f, B, I)
      BY <2>1 DEF Numbers
    <3>2. \A x \in B : w[x] = v[f[x]]
      OBVIOUS
    <3>4. IsFiniteSet(I) /\ \A c \in I : v[c] \in Int
      BY <2>2, FS_Subset
    <3> HIDE DEF f, w, I
    <3>3. Total(v, I) = Total(w, B)
      BY <3>1, <3>2, <3>4, TotalImage
    <3>. QED
      BY <3>3 DEF w, I
  <2>4. IsFiniteSet(Row(a)) /\ \A c \in Row(a) : v[c] \in Int
    BY <2>2, FS_Subset
  <2> HIDE DEF Row
  <2>5. Total(v, Row(a)) \in Int
    BY <2>4, TotalInt
  <2>. QED
    BY <2>3, <2>5
<1>2. {} \in P
  <2>1. Part({}) = {}
    OBVIOUS
  <2>. QED
    BY <2>1, TotalEmpty
<1>3. ASSUME NEW T \in SUBSET A, NEW a \in A, T \in P, a \notin T PROVE T \cup {a} \in P
  <2>1. Part(T \cup {a}) = Part(T) \cup Row(a)
    <3>1. Part(T) \cup Row(a) \subseteq Part(T \cup {a})
      <4>1. Part(T) \subseteq Part(T \cup {a})
        OBVIOUS
      <4>2. ASSUME NEW c \in Row(a) PROVE c \in Part(T \cup {a})
        <5>1. PICK b \in B : c = phi[a][b]
          OBVIOUS
        <5>2. c \in C
          BY <5>1
        <5>. QED
          BY <5>1, <5>2
      <4>. QED
        BY <4>1, <4>2
    <3>2. ASSUME NEW c \in Part(T \cup {a}) PROVE c \in Part(T) \cup Row(a)
      <4>1. PICK d \in T \cup {a}, e \in B : c = phi[d][e]
        OBVIOUS
      <4>2. c \in C
        OBVIOUS
      <4>. QED
        BY <4>1, <4>2
    <3>. QED
      BY <3>1, <3>2
  <2>2. Part(T) \in SUBSET C /\ Row(a) \in SUBSET C
    BY <1>3
  <2>3. Part(T) \cap Row(a) = {}
    <3>. SUFFICES ASSUME NEW c \in Part(T), c \in Row(a) PROVE FALSE
      OBVIOUS
    <3>1. PICK d \in T, e \in B : c = phi[d][e]
      OBVIOUS
    <3>2. PICK b \in B : c = phi[a][b]
      OBVIOUS
    <3>3. d = a
      <4>1. d \in A /\ phi[d][e] = phi[a][b]
        BY <3>1, <3>2
      <4>. QED
        BY <4>1 DEF CutsUp
    <3>. QED
      BY <1>3, <3>3
  <2>6. T \cup {a} \in SUBSET A /\ Total(v, Part(T)) = Total(row, T)
    BY <1>3
  <2> HIDE DEF Part, Row, CutsUp
  <2>4. Total(v, Part(T) \cup Row(a)) = Total(v, Part(T)) + Total(v, Row(a))
    <3>1. /\ IsFiniteSet(Part(T)) /\ IsFiniteSet(Row(a))
          /\ \A c \in Part(T) \cup Row(a) : v[c] \in Int
      BY <2>2, FS_Subset
    <3>. QED
      BY <2>3, <3>1, TotalUnion
  <2>5. Total(row, T \cup {a}) = row[a] + Total(row, T) /\ Total(row, T) \in Int
    BY <1>1, <1>3, TotalAdd
  <2>7. row[a] = Total(v, Row(a)) /\ row[a] \in Int
    BY <1>1
  <2>8. Total(v, Part(T \cup {a})) = Total(row, T \cup {a})
    <3>1. Total(v, Part(T \cup {a})) = Total(v, Part(T)) + Total(v, Row(a))
      BY <2>1, <2>4, Zenon
    <3>. QED
      BY <3>1, <2>5, <2>6, <2>7
  <2>. QED
    BY <2>6, <2>8
<1>4. A \in P
  <2> HIDE DEF P
  <2>. QED
    BY <1>2, <1>3, SetInduction
<1>5. Part(A) = C
  OBVIOUS
<1>. QED
  BY <1>4, <1>5

\* The same amount for each element of T and nothing for the others.
LEMMA TotalCount ==
    ASSUME NEW S, IsFiniteSet(S), NEW T \in SUBSET S, NEW n \in Nat, NEW v,
           \A x \in S : v[x] = IF x \in T THEN n ELSE 0
    PROVE  Total(v, S) = n * Cardinality(T)
<1> DEFINE P == {U \in SUBSET S : Total(v, U) = n * Cardinality(U \cap T)}
<1>1. {} \in P
  <2>1. {} \cap T = {} /\ Cardinality({}) = 0
    BY FS_EmptySet
  <2>. QED
    BY <2>1, TotalEmpty
<1>2. ASSUME NEW U \in SUBSET S, NEW x \in S, U \in P, x \notin U PROVE U \cup {x} \in P
  <2>1. \A y \in S : v[y] \in Int
    OBVIOUS
  <2>2. Total(v, U \cup {x}) = v[x] + Total(v, U)
    BY <1>2, <2>1, TotalAdd
  <2>3. IsFiniteSet(U \cap T) /\ Cardinality(U \cap T) \in Nat
    BY FS_Subset, FS_CardinalityType
  <2>4. CASE x \in T
    <3>1. (U \cup {x}) \cap T = (U \cap T) \cup {x} /\ x \notin U \cap T
      BY <1>2, <2>4
    <3>2. Cardinality((U \cap T) \cup {x}) = Cardinality(U \cap T) + 1
      BY <2>3, <3>1, FS_AddElement
    <3>3. n * (Cardinality(U \cap T) + 1) = n + n * Cardinality(U \cap T)
      BY <2>3
    <3>. QED
      BY <1>2, <2>2, <2>4, <3>1, <3>2, <3>3
  <2>5. CASE x \notin T
    <3>1. (U \cup {x}) \cap T = U \cap T
      BY <2>5
    <3>2. n * Cardinality(U \cap T) \in Int
      BY <2>3
    <3>3. v[x] = 0 /\ Total(v, U) = n * Cardinality(U \cap T)
      BY <1>2, <2>5
    <3>4. Total(v, U \cup {x}) = n * Cardinality(U \cap T)
      BY <2>2, <3>2, <3>3
    <3>5. U \cup {x} \in SUBSET S
      OBVIOUS
    <3>. QED
      BY <3>1, <3>4, <3>5, Zenon
  <2>. QED
    BY <2>4, <2>5
<1>3. S \in P
  <2> HIDE DEF P
  <2>. QED
    BY <1>1, <1>2, SetInduction
<1>4. S \cap T = T
  OBVIOUS
<1>. QED
  BY <1>3, <1>4

-----------------------------------------------------------------------------
(* Folds over sequences *)

\* FoldLeft takes the elements from the last one down.
LEMMA LastOf ==
    ASSUME NEW n \in Nat, NEW s \in SUBSET (1..n), s # {}
    PROVE  Max(s) \in s /\ \A y \in s : y <= Max(s)
BY MaxIs

LEMMA LastIs ==
    ASSUME NEW m \in Nat, NEW s \in SUBSET (1..m + 1), m + 1 \in s
    PROVE  Max(s) = m + 1
<1>1. m + 1 \in Nat /\ s # {}
  OBVIOUS
<1>2. Max(s) \in s /\ \A y \in s : y <= Max(s)
  BY <1>1, LastOf
<1>3. Max(s) \in 1..m + 1 /\ m + 1 <= Max(s)
  BY <1>2
<1>. QED
  BY <1>3

LEMMA LastOfPrefix ==
    ASSUME NEW k \in Nat \ {0}
    PROVE  Max(1..k) = k /\ (1..k) \ {k} = 1..k - 1
<1>1. 1..k # {} /\ k \in 1..k
  OBVIOUS
<1>2. Max(1..k) \in 1..k /\ \A y \in 1..k : y <= Max(1..k)
  BY <1>1, LastOf
<1>. QED
  BY <1>1, <1>2

\* What the recursion of FoldLeft is about.
IsFold(g, base, step, n) ==
    g = [s \in SUBSET (1..n) |-> IF s = {} THEN base ELSE step[Max(s)][g[s \ {Max(s)}]]]

LEMMA FoldExists ==
    ASSUME NEW S, NEW n \in Nat, NEW base \in S, NEW step \in [1..n -> [S -> S]]
    PROVE  \E g \in [SUBSET (1..n) -> S] : IsFold(g, base, step, n)
<1> DEFINE Upto(m) == \E g \in [SUBSET (1..m) -> S] : IsFold(g, base, step, m)
           T == {m \in Nat : m <= n => Upto(m)}
<1>1. 0 \in T
  <2> DEFINE g == [s \in SUBSET (1..0) |-> base]
  <2>1. g \in [SUBSET (1..0) -> S]
    OBVIOUS
  <2>2. IsFold(g, base, step, 0)
    BY DEF IsFold
  <2> HIDE DEF g
  <2>. QED
    BY <2>1, <2>2
<1>2. ASSUME NEW m \in Nat, m \in T PROVE m + 1 \in T
  <2>0. m <= n => Upto(m)
    <3> HIDE DEF Upto
    <3>. QED
      BY <1>2
  <2>1. ASSUME m + 1 <= n PROVE Upto(m + 1)
    <3>0. m <= n
      BY <2>1
    <3>1. PICK g \in [SUBSET (1..m) -> S] : IsFold(g, base, step, m)
      BY <2>0, <3>0
    <3> DEFINE h == [s \in SUBSET (1..m + 1) |->
                       IF m + 1 \in s THEN step[m + 1][g[s \ {m + 1}]] ELSE g[s]]
    <3>2. \A s \in SUBSET (1..m + 1) : s \ {m + 1} \in SUBSET (1..m)
      OBVIOUS
    <3>3. \A s \in SUBSET (1..m + 1) : m + 1 \notin s => s \in SUBSET (1..m)
      BY <3>2
    <3>4. step[m + 1] \in [S -> S]
      BY <2>1
    <3>5. h \in [SUBSET (1..m + 1) -> S]
      BY <3>1, <3>2, <3>3, <3>4
    <3>6. \A s \in SUBSET (1..m + 1) : m + 1 \in s => Max(s) = m + 1
      BY LastIs
    <3>7. \A s \in SUBSET (1..m) : s \in SUBSET (1..m + 1) /\ m + 1 \notin s /\ h[s] = g[s]
      OBVIOUS
    <3>8. ASSUME NEW s \in SUBSET (1..m + 1)
          PROVE  h[s] = IF s = {} THEN base ELSE step[Max(s)][h[s \ {Max(s)}]]
      <4>1. CASE m + 1 \in s
        <5>1. h[s \ {m + 1}] = g[s \ {m + 1}]
          BY <3>2, <3>7
        <5>. QED
          BY <3>6, <4>1, <5>1
      <4>2. CASE m + 1 \notin s
        <5>1. s \in SUBSET (1..m) /\ h[s] = g[s]
          BY <3>3, <3>7, <4>2
        <5>2. h[s \ {Max(s)}] = g[s \ {Max(s)}]
          BY <3>7, <5>1
        <5>. QED
          BY <3>1, <5>1, <5>2 DEF IsFold
      <4>. QED
        BY <4>1, <4>2
    <3>9. h = [s \in SUBSET (1..m + 1) |-> h[s]]
      OBVIOUS
    <3> HIDE DEF h
    <3>10. IsFold(h, base, step, m + 1)
      BY <3>8, <3>9 DEF IsFold
    <3>. QED
      BY <3>5, <3>10
  <2> HIDE DEF Upto
  <2>. QED
    BY <2>1
<1>3. n \in T
  <2> HIDE DEF T
  <2>. QED
    BY <1>1, <1>2, CountingUp
<1>4. Upto(n)
  <2> HIDE DEF Upto
  <2>. QED
    BY <1>3
<1>. QED
  BY <1>4

\* Along the prefixes of a sequence it takes one step after the other.
LEMMA FoldSteps ==
    ASSUME NEW S, NEW n \in Nat, NEW base \in S, NEW step \in [1..n -> [S -> S]],
           NEW g, IsFold(g, base, step, n)
    PROVE  /\ g[1..0] = base
           /\ \A k \in 1..n : g[1..k] = step[k][g[1..k - 1]]
           /\ \A k \in 0..n : g[1..k] \in S
<1>1. g[1..0] = base
  BY DEF IsFold
<1>2. ASSUME NEW k \in 1..n PROVE g[1..k] = step[k][g[1..k - 1]]
  <2>1. 1..k \in SUBSET (1..n) /\ 1..k # {}
    OBVIOUS
  <2>2. Max(1..k) = k /\ (1..k) \ {k} = 1..k - 1
    BY LastOfPrefix
  <2>. QED
    BY <2>1, <2>2 DEF IsFold
<1>3. \A k \in 0..n : g[1..k] \in S
  <2> DEFINE T == {k \in Nat : k <= n => g[1..k] \in S}
  <2>1. 0 \in T
    BY <1>1
  <2>2. ASSUME NEW k \in Nat, k \in T PROVE k + 1 \in T
    <3>1. ASSUME k + 1 <= n PROVE g[1..k + 1] \in S
      <4>1. k + 1 \in 1..n /\ (k + 1) - 1 = k
        BY <3>1
      <4>2. g[1..k + 1] = step[k + 1][g[1..k]]
        BY <1>2, <4>1
      <4>. QED
        BY <2>2, <3>1, <4>1, <4>2
    <3>. QED
      BY <3>1
  <2>3. \A k \in Nat : k \in T
    <3> HIDE DEF T
    <3>. QED
      BY <2>1, <2>2, CountingUp
  <2>. QED
    BY <2>3
<1>. QED
  BY <1>1, <1>2, <1>3

-----------------------------------------------------------------------------
(* Sequences *)

\* A set with the empty sequence and with every extension of its sequences by
\* one element has them all.
LEMMA SeqInduction ==
    ASSUME NEW T, NEW P, <<>> \in P,
           \A s \in Seq(T), x \in T : s \in P => Append(s, x) \in P
    PROVE  \A s \in Seq(T) : s \in P
<1> DEFINE Q == {n \in Nat : \A s \in Seq(T) : Len(s) = n => s \in P}
<1>1. 0 \in Q
  <2>1. \A s \in Seq(T) : Len(s) = 0 => s = <<>>
    BY EmptySeq
  <2>. QED
    BY <2>1
<1>2. ASSUME NEW n \in Nat, n \in Q PROVE n + 1 \in Q
  <2>1. ASSUME NEW s \in Seq(T), Len(s) = n + 1 PROVE s \in P
    <3>1. s # <<>>
      BY <2>1
    <3>2. PICK r \in Seq(T), x \in T : s = Append(r, x)
      BY <3>1, SequenceEmptyOrAppend
    <3>3. Len(r) = n
      BY <2>1, <3>2, AppendProperties, LenProperties
    <3>. QED
      BY <1>2, <3>2, <3>3
  <2>. QED
    BY <2>1
<1>3. \A n \in Nat : n \in Q
  <2> HIDE DEF Q
  <2>. QED
    BY <1>1, <1>2, CountingUp
<1>. QED
  BY <1>3, LenProperties

LEMMA SeqForm ==
    ASSUME NEW T, NEW s \in Seq(T)
    PROVE  s = [i \in 1..Len(s) |-> s[i]]
OBVIOUS

\* ToSet, for sequences.
LEMMA ToSetAppend ==
    ASSUME NEW T, NEW s \in Seq(T), NEW x \in T
    PROVE  ToSet(Append(s, x)) = ToSet(s) \cup {x}
<1>1. /\ DOMAIN s = 1..Len(s) /\ DOMAIN Append(s, x) = 1..Len(s) + 1 /\ Len(s) \in Nat
      /\ Append(s, x)[Len(s) + 1] = x /\ \A i \in 1..Len(s) : Append(s, x)[i] = s[i]
  BY AppendProperties, LenProperties
<1>2. 1..Len(s) + 1 = 1..Len(s) \cup {Len(s) + 1}
  BY <1>1
<1>. QED
  BY <1>1, <1>2 DEF ToSet

LEMMA ToSetConcat ==
    ASSUME NEW T, NEW s \in Seq(T), NEW r \in Seq(T)
    PROVE  ToSet(s \o r) = ToSet(s) \cup ToSet(r)
<1>1. ToSet(s \o r) = Range(s \o r) /\ ToSet(s) = Range(s) /\ ToSet(r) = Range(r)
  BY DEF ToSet, Range
<1>. QED
  BY <1>1, RangeConcatenation

LEMMA ToSetElements ==
    ASSUME NEW T, NEW s \in Seq(T)
    PROVE  /\ ToSet(s) \subseteq T
           /\ \A i \in 1..Len(s) : s[i] \in ToSet(s)
           /\ \A x \in ToSet(s) : \E i \in 1..Len(s) : x = s[i]
BY LenProperties, ElementOfSeq DEF ToSet

\* FlattenSeq of the community modules.
LEMMA FlattenEmpty == FlattenSeq(<<>>) = <<>>
BY DEF FlattenSeq

IsFlat(flat, ss, T) ==
    /\ flat \in [0..Len(ss) -> Seq(T)] /\ flat[0] = <<>>
    /\ \A k \in 1..Len(ss) : flat[k] = flat[k - 1] \o ss[k]

LEMMA FlattenIs ==
    ASSUME NEW T, NEW ss \in Seq(Seq(T))
    PROVE  \E flat : IsFlat(flat, ss, T) /\ FlattenSeq(ss) = flat[Len(ss)]
<1> DEFINE N == Len(ss)
           Rec(f) == f = [i \in 1..N |-> IF i = 1 THEN ss[i] ELSE f[i - 1] \o ss[i]]
           step == [n \in 1..N |-> [r \in Seq(T) |-> r \o ss[n]]]
           F == CHOOSE f : Rec(f)
<1>0. N \in Nat /\ \A n \in 1..N : ss[n] \in Seq(T)
  BY LenProperties, ElementOfSeq
<1>1. step \in [1..N -> [Seq(T) -> Seq(T)]]
  BY <1>0
<1>2. \E h \in [0..N -> Seq(T)] : h[0] = <<>> /\ \A k \in 1..N : h[k] = step[k][h[k - 1]]
  <2> DEFINE V == Seq(T)
             base == <<>>
  <2>1. base \in V /\ Steps(step, N, V)
    BY <1>1 DEF Steps
  <2> HIDE DEF step, V, base, N
  <2>2. \E h : Recurses(h, N, V, base, step)
    BY <1>0, <2>1, Recursion
  <2>. QED
    BY <2>2 DEF V, base, Recurses
<1>3. PICK h \in [0..N -> Seq(T)] : h[0] = <<>> /\ \A k \in 1..N : h[k] = step[k][h[k - 1]]
  BY <1>2
<1>4. \A k \in 1..N : k - 1 \in 0..N /\ h[k - 1] \in Seq(T)
  <2> HIDE DEF step, N
  <2>. QED
    BY <1>0, <1>3
<1>5. \A k \in 1..N : h[k] = h[k - 1] \o ss[k]
  BY <1>3, <1>4
<1>6. IsFlat(h, ss, T)
  BY <1>3, <1>5 DEF IsFlat
<1>7. CASE N = 0
  <2>1. ss = <<>>
    BY <1>7, EmptySeq
  <2>. QED
    BY <1>6, <1>7, <2>1, FlattenEmpty DEF IsFlat
<1>8. CASE N # 0
  <2> HIDE DEF step, N
  <2> DEFINE g == [k \in 1..N |-> h[k]]
  <2>1. Rec(g)
    <3>1. ASSUME NEW k \in 1..N PROVE h[k] = IF k = 1 THEN ss[k] ELSE g[k - 1] \o ss[k]
      <4>1. CASE k = 1
        <5>1. h[1] = h[1 - 1] \o ss[1] /\ ss[1] \in Seq(T)
          BY <1>0, <1>5, <4>1
        <5>2. h[1 - 1] = <<>>
          BY <1>3
        <5>. QED
          BY <4>1, <5>1, <5>2, ConcatEmptySeq
      <4>2. CASE k # 1
        <5>1. k - 1 \in 1..N
          BY <1>0, <4>2
        <5>. QED
          BY <1>5, <4>2, <5>1
      <4>. QED
        BY <4>1, <4>2
    <3>. QED
      BY <3>1
  <2>2. Rec(F)
    BY <2>1
  <2>3. FlattenSeq(ss) = F[N]
    BY <1>8 DEF FlattenSeq, N
  <2> HIDE DEF F
  <2> DEFINE R == {n \in Nat : n + 1 <= N => F[n + 1] = h[n + 1]}
  <2>4. 0 \in R
    <3>1. 1 \in 1..N
      BY <1>0, <1>8
    <3>2. F[1] = ss[1]
      BY <2>2, <3>1
    <3>3. h[1] = ss[1]
      BY <2>1, <3>1
    <3>. QED
      BY <3>2, <3>3
  <2>5. ASSUME NEW n \in Nat, n \in R PROVE n + 1 \in R
    <3>1. ASSUME (n + 1) + 1 <= N PROVE F[(n + 1) + 1] = h[(n + 1) + 1]
      <4> DEFINE k == (n + 1) + 1
      <4>1. k \in 1..N /\ k # 1 /\ k - 1 = n + 1 /\ F[n + 1] = h[n + 1]
        BY <1>0, <2>5, <3>1
      <4> HIDE DEF k
      <4>2. F[k] = F[k - 1] \o ss[k]
        BY <2>2, <4>1
      <4>3. h[k] = h[k - 1] \o ss[k]
        BY <1>5, <4>1
      <4>4. F[k] = h[k]
        BY <4>1, <4>2, <4>3
      <4>. QED
        BY <4>4 DEF k
    <3>. QED
      BY <3>1
  <2>6. \A n \in Nat : n \in R
    <3> HIDE DEF R
    <3>. QED
      BY <2>4, <2>5, CountingUp
  <2>7. N - 1 \in Nat /\ (N - 1) + 1 = N
    BY <1>0, <1>8
  <2>8. F[N] = h[N]
    BY <2>6, <2>7
  <2>. QED
    BY <1>6, <2>3, <2>8 DEF N
<1>. QED
  BY <1>7, <1>8

LEMMA FlattenAppend ==
    ASSUME NEW T, NEW ss \in Seq(Seq(T)), NEW s \in Seq(T)
    PROVE  /\ FlattenSeq(ss) \in Seq(T)
           /\ FlattenSeq(Append(ss, s)) = FlattenSeq(ss) \o s
<1> DEFINE r == Append(ss, s)
<1>1. r \in Seq(Seq(T)) /\ Len(ss) \in Nat /\ Len(r) = Len(ss) + 1 /\ r[Len(ss) + 1] = s
      /\ \A k \in 1..Len(ss) : r[k] = ss[k]
  BY AppendProperties, LenProperties
<1> HIDE DEF r
<1>2. PICK f : IsFlat(f, ss, T) /\ FlattenSeq(ss) = f[Len(ss)]
  BY FlattenIs
<1>3. PICK g : IsFlat(g, r, T) /\ FlattenSeq(r) = g[Len(r)]
  BY <1>1, FlattenIs
<1> DEFINE R == {n \in Nat : n <= Len(ss) => f[n] = g[n]}
<1>4. 0 \in R
  BY <1>2, <1>3 DEF IsFlat
<1>5. ASSUME NEW n \in Nat, n \in R PROVE n + 1 \in R
  <2>1. ASSUME n + 1 <= Len(ss) PROVE f[n + 1] = g[n + 1]
    <3>1. Len(ss) \in Nat /\ Len(r) = Len(ss) + 1
      BY <1>1
    <3>2. n + 1 \in 1..Len(ss) /\ n + 1 \in 1..Len(r) /\ (n + 1) - 1 = n /\ n <= Len(ss)
      BY <2>1, <3>1
    <3>3. f[n] = g[n]
      BY <1>5, <3>2
    <3>4. f[n + 1] = f[n] \o ss[n + 1]
      BY <1>2, <3>2 DEF IsFlat
    <3>5. g[n + 1] = g[n] \o r[n + 1]
      BY <1>3, <3>2 DEF IsFlat
    <3>. QED
      BY <1>1, <3>2, <3>3, <3>4, <3>5
  <2>. QED
    BY <2>1
<1>6. Len(ss) \in R
  <2> HIDE DEF R
  <2>. QED
    BY <1>1, <1>4, <1>5, CountingUp
<1>7. g[Len(ss) + 1] = g[Len(ss)] \o r[Len(ss) + 1]
  <2>1. Len(ss) + 1 \in 1..Len(r) /\ (Len(ss) + 1) - 1 = Len(ss)
    BY <1>1
  <2>. QED
    BY <1>3, <2>1 DEF IsFlat
<1>8. f[Len(ss)] \in Seq(T) /\ f[Len(ss)] = g[Len(ss)]
  <2>1. Len(ss) \in 0..Len(ss)
    BY <1>1
  <2>. QED
    BY <1>2, <1>6, <2>1 DEF IsFlat
<1>. QED
  BY <1>1, <1>2, <1>3, <1>7, <1>8 DEF r

-----------------------------------------------------------------------------
(* What is chosen from a sequence *)

\* What the recursion of Chosen makes.
IsChosen(front, S, s, T) ==
    /\ front \in [0..Len(s) -> Seq(T)] /\ front[0] = <<>>
    /\ \A k \in 1..Len(s) : front[k] = IF s[k] \in S THEN Append(front[k - 1], s[k])
                                       ELSE front[k - 1]

LEMMA ChosenIs ==
    ASSUME NEW T, NEW S, NEW s \in Seq(T)
    PROVE  \E front : IsChosen(front, S, s, T) /\ Chosen(S, s) = front[Len(s)]
<1> DEFINE N == Len(s)
           Rec(f) == f = [n \in 0..N |->
                            IF n = 0 THEN <<>>
                            ELSE IF s[n] \in S THEN Append(f[n - 1], s[n]) ELSE f[n - 1]]
           step == [n \in 1..N |-> [r \in Seq(T) |-> IF s[n] \in S THEN Append(r, s[n]) ELSE r]]
           F == CHOOSE f : Rec(f)
<1>0. N \in Nat /\ \A n \in 1..N : s[n] \in T
  BY LenProperties, ElementOfSeq
<1>1. step \in [1..N -> [Seq(T) -> Seq(T)]]
  BY <1>0, AppendProperties
<1>2. \E h \in [0..N -> Seq(T)] : h[0] = <<>> /\ \A k \in 1..N : h[k] = step[k][h[k - 1]]
  <2> DEFINE V == Seq(T)
             base == <<>>
  <2>1. base \in V /\ Steps(step, N, V)
    BY <1>1 DEF Steps
  <2> HIDE DEF step, V, base, N
  <2>2. \E h : Recurses(h, N, V, base, step)
    BY <1>0, <2>1, Recursion
  <2>. QED
    BY <2>2 DEF V, base, Recurses
<1>3. PICK h \in [0..N -> Seq(T)] : h[0] = <<>> /\ \A k \in 1..N : h[k] = step[k][h[k - 1]]
  BY <1>2
<1>4. \A k \in 1..N : k - 1 \in 0..N /\ h[k - 1] \in Seq(T)
  BY <1>0, <1>3
<1>5. \A k \in 1..N : h[k] = IF s[k] \in S THEN Append(h[k - 1], s[k]) ELSE h[k - 1]
  BY <1>3, <1>4
<1> HIDE DEF step, N
<1>6. Rec(h)
  <2>1. \A n \in 0..N : n # 0 => n \in 1..N
    BY <1>0
  <2>. QED
    BY <1>3, <1>5, <2>1
<1>7. Rec(F)
  BY <1>6
<1>8. Chosen(S, s) = F[N]
  BY DEF Chosen, N
<1> HIDE DEF F
<1>9. /\ F[0] = <<>>
      /\ \A k \in 1..N : F[k] = IF s[k] \in S THEN Append(F[k - 1], s[k]) ELSE F[k - 1]
  <2>1. 0 \in 0..N /\ \A k \in 1..N : k \in 0..N /\ k # 0
    BY <1>0
  <2>. QED
    BY <1>7, <2>1
<1>10. F = [n \in 0..N |-> F[n]]
  BY <1>7
<1> DEFINE R == {n \in Nat : n <= N => F[n] \in Seq(T)}
<1>11. 0 \in R
  <2>1. <<>> \in Seq(T)
    OBVIOUS
  <2>. QED
    BY <1>9, <2>1
<1>12. ASSUME NEW n \in Nat, n \in R PROVE n + 1 \in R
  <2>1. ASSUME n + 1 <= N PROVE F[n + 1] \in Seq(T)
    <3>1. n + 1 \in 1..N /\ F[n] \in Seq(T) /\ (n + 1) - 1 = n
      BY <1>0, <1>12, <2>1
    <3>2. F[n + 1] = IF s[n + 1] \in S THEN Append(F[n], s[n + 1]) ELSE F[n]
      BY <1>9, <3>1
    <3>. QED
      BY <1>0, <3>1, <3>2, AppendProperties
  <2>. QED
    BY <2>1
<1>13. \A n \in Nat : n \in R
  <2> HIDE DEF R
  <2>. QED
    BY <1>11, <1>12, CountingUp
<1>14. F \in [0..N -> Seq(T)]
  <2>1. \A n \in 0..N : F[n] \in Seq(T)
    BY <1>0, <1>13
  <2>. QED
    BY <1>10, <2>1
<1>15. IsChosen(F, S, s, T)
  BY <1>9, <1>14 DEF IsChosen, N
<1>. QED
  BY <1>8, <1>15 DEF N

\* Two such recursions agree as far as their sequences do.
LEMMA ChosenAgree ==
    ASSUME NEW T, NEW S, NEW s \in Seq(T), NEW r \in Seq(T), NEW f, NEW g,
           IsChosen(f, S, s, T), IsChosen(g, S, r, T), Len(s) <= Len(r),
           \A k \in 1..Len(s) : s[k] = r[k]
    PROVE  f[Len(s)] = g[Len(s)]
<1> DEFINE R == {n \in Nat : n <= Len(s) => f[n] = g[n]}
<1>0. Len(s) \in Nat /\ Len(r) \in Nat
  BY LenProperties
<1>1. 0 \in R
  BY DEF IsChosen
<1>2. ASSUME NEW n \in Nat, n \in R PROVE n + 1 \in R
  <2>1. ASSUME n + 1 <= Len(s) PROVE f[n + 1] = g[n + 1]
    <3>1. n + 1 \in 1..Len(s) /\ n + 1 \in 1..Len(r) /\ f[n] = g[n] /\ (n + 1) - 1 = n
      BY <1>0, <1>2, <2>1
    <3>2. f[n + 1] = IF s[n + 1] \in S THEN Append(f[n], s[n + 1]) ELSE f[n]
      BY <3>1 DEF IsChosen
    <3>3. g[n + 1] = IF r[n + 1] \in S THEN Append(g[n], r[n + 1]) ELSE g[n]
      BY <3>1 DEF IsChosen
    <3>. QED
      BY <3>1, <3>2, <3>3
  <2>. QED
    BY <2>1
<1>3. Len(s) \in R
  <2> HIDE DEF R
  <2>. QED
    BY <1>0, <1>1, <1>2, CountingUp
<1>. QED
  BY <1>0, <1>3

LEMMA ChosenEmpty ==
    ASSUME NEW S PROVE Chosen(S, <<>>) = <<>>
<1>1. PICK f : IsChosen(f, S, <<>>, {}) /\ Chosen(S, <<>>) = f[Len(<<>>)]
  BY ChosenIs, EmptySeq
<1>. QED
  BY <1>1, EmptySeq DEF IsChosen

LEMMA ChosenType ==
    ASSUME NEW T, NEW S, NEW s \in Seq(T) PROVE Chosen(S, s) \in Seq(T)
<1>1. PICK f : IsChosen(f, S, s, T) /\ Chosen(S, s) = f[Len(s)]
  BY ChosenIs
<1>. QED
  BY <1>1, LenProperties DEF IsChosen

\* One element more is one step more.
LEMMA ChosenAppend ==
    ASSUME NEW T, NEW S, NEW s \in Seq(T), NEW x \in T
    PROVE  Chosen(S, Append(s, x)) = IF x \in S THEN Append(Chosen(S, s), x) ELSE Chosen(S, s)
<1> DEFINE r == Append(s, x)
<1>1. r \in Seq(T) /\ Len(s) \in Nat /\ Len(r) = Len(s) + 1 /\ r[Len(s) + 1] = x
      /\ \A k \in 1..Len(s) : r[k] = s[k]
  BY AppendProperties, LenProperties
<1> HIDE DEF r
<1>2. PICK f : IsChosen(f, S, s, T) /\ Chosen(S, s) = f[Len(s)]
  BY ChosenIs
<1>3. PICK g : IsChosen(g, S, r, T) /\ Chosen(S, r) = g[Len(r)]
  BY <1>1, ChosenIs
<1>4. f[Len(s)] = g[Len(s)]
  BY <1>1, <1>2, <1>3, ChosenAgree
<1>5. g[Len(s) + 1] = IF r[Len(s) + 1] \in S THEN Append(g[Len(s)], r[Len(s) + 1]) ELSE g[Len(s)]
  <2>1. Len(s) + 1 \in 1..Len(r) /\ (Len(s) + 1) - 1 = Len(s)
    BY <1>1
  <2>. QED
    BY <1>3, <2>1 DEF IsChosen
<1>. QED
  BY <1>1, <1>2, <1>3, <1>4, <1>5 DEF r

LEMMA ChosenConcat ==
    ASSUME NEW T, NEW S, NEW s \in Seq(T), NEW r \in Seq(T)
    PROVE  Chosen(S, s \o r) = Chosen(S, s) \o Chosen(S, r)
<1> DEFINE P == {q \in Seq(T) : Chosen(S, s \o q) = Chosen(S, s) \o Chosen(S, q)}
<1>0. Chosen(S, s) \in Seq(T)
  BY ChosenType
<1>1. <<>> \in P
  <2>1. s \o <<>> = s /\ Chosen(S, s) \o <<>> = Chosen(S, s)
    BY <1>0, ConcatEmptySeq
  <2>2. Chosen(S, <<>>) = <<>> /\ <<>> \in Seq(T)
    BY ChosenEmpty, EmptySeq
  <2>. QED
    BY <2>1, <2>2
<1>2. ASSUME NEW q \in Seq(T), NEW x \in T, q \in P PROVE Append(q, x) \in P
  <2>1. s \o q \in Seq(T) /\ Append(q, x) \in Seq(T) /\ Chosen(S, q) \in Seq(T)
    BY ChosenType
  <2>2. s \o Append(q, x) = Append(s \o q, x)
    OBVIOUS
  <2>3. Chosen(S, Append(q, x)) = IF x \in S THEN Append(Chosen(S, q), x) ELSE Chosen(S, q)
    BY ChosenAppend
  <2>4. Chosen(S, Append(s \o q, x)) = IF x \in S THEN Append(Chosen(S, s \o q), x)
                                      ELSE Chosen(S, s \o q)
    <3> DEFINE sq == s \o q
    <3>1. sq \in Seq(T)
      BY <2>1
    <3> HIDE DEF sq, P
    <3>2. Chosen(S, Append(sq, x)) = IF x \in S THEN Append(Chosen(S, sq), x) ELSE Chosen(S, sq)
      BY <3>1, ChosenAppend
    <3>. QED
      BY <3>2 DEF sq
  <2>5. Chosen(S, s) \o Append(Chosen(S, q), x) = Append(Chosen(S, s) \o Chosen(S, q), x)
    BY <1>0, <2>1
  <2>. QED
    BY <1>2, <2>1, <2>2, <2>3, <2>4, <2>5
<1> HIDE DEF P
<1>3. r \in P
  BY <1>1, <1>2, SeqInduction
<1>. QED
  BY <1>3 DEF P

\* Sets that agree on the elements choose the same.
LEMMA ChosenSame ==
    ASSUME NEW T, NEW S, NEW R, NEW s \in Seq(T), \A i \in 1..Len(s) : s[i] \in S <=> s[i] \in R
    PROVE  Chosen(S, s) = Chosen(R, s)
<1> DEFINE P == {q \in Seq(T) : (\A i \in 1..Len(q) : q[i] \in S <=> q[i] \in R)
                                 => Chosen(S, q) = Chosen(R, q)}
<1>1. <<>> \in P
  BY ChosenEmpty
<1>2. ASSUME NEW q \in Seq(T), NEW x \in T, q \in P PROVE Append(q, x) \in P
  <2>1. /\ Append(q, x) \in Seq(T) /\ Len(q) \in Nat /\ Len(Append(q, x)) = Len(q) + 1
        /\ Append(q, x)[Len(q) + 1] = x /\ \A i \in 1..Len(q) : Append(q, x)[i] = q[i]
    BY AppendProperties, LenProperties
  <2>2. ASSUME \A i \in 1..Len(Append(q, x)) : Append(q, x)[i] \in S <=> Append(q, x)[i] \in R
        PROVE  Chosen(S, Append(q, x)) = Chosen(R, Append(q, x))
    <3>1. x \in S <=> x \in R
      BY <2>1, <2>2
    <3>2. \A i \in 1..Len(q) : q[i] \in S <=> q[i] \in R
      BY <2>1, <2>2
    <3>3. Chosen(S, q) = Chosen(R, q)
      BY <1>2, <3>2
    <3>4. /\ Chosen(S, Append(q, x)) = IF x \in S THEN Append(Chosen(S, q), x) ELSE Chosen(S, q)
          /\ Chosen(R, Append(q, x)) = IF x \in R THEN Append(Chosen(R, q), x) ELSE Chosen(R, q)
      BY ChosenAppend
    <3>. QED
      BY <3>1, <3>3, <3>4
  <2>. QED
    BY <2>1, <2>2
<1> HIDE DEF P
<1>3. s \in P
  BY <1>1, <1>2, SeqInduction
<1>. QED
  BY <1>3 DEF P

LEMMA ChosenAll ==
    ASSUME NEW T, NEW S, NEW s \in Seq(T), \A i \in 1..Len(s) : s[i] \in S
    PROVE  Chosen(S, s) = s
<1> DEFINE P == {q \in Seq(T) : Chosen(T, q) = q}
<1>1. <<>> \in P
  BY ChosenEmpty
<1>2. ASSUME NEW q \in Seq(T), NEW x \in T, q \in P PROVE Append(q, x) \in P
  BY <1>2, ChosenAppend
<1> HIDE DEF P
<1>3. s \in P
  BY <1>1, <1>2, SeqInduction
<1>4. \A i \in 1..Len(s) : s[i] \in T
  BY ElementOfSeq
<1>5. Chosen(S, s) = Chosen(T, s)
  BY <1>4, ChosenSame
<1>. QED
  BY <1>3, <1>5 DEF P

LEMMA ChosenNone ==
    ASSUME NEW T, NEW S, NEW s \in Seq(T), \A i \in 1..Len(s) : s[i] \notin S
    PROVE  Chosen(S, s) = <<>>
<1> DEFINE P == {q \in Seq(T) : Chosen({}, q) = <<>>}
<1>1. <<>> \in P
  BY ChosenEmpty
<1>2. ASSUME NEW q \in Seq(T), NEW x \in T, q \in P PROVE Append(q, x) \in P
  BY <1>2, ChosenAppend
<1> HIDE DEF P
<1>3. s \in P
  BY <1>1, <1>2, SeqInduction
<1>4. Chosen(S, s) = Chosen({}, s)
  BY ChosenSame
<1>. QED
  BY <1>3, <1>4 DEF P

LEMMA ChosenElements ==
    ASSUME NEW T, NEW S, NEW s \in Seq(T)
    PROVE  ToSet(Chosen(S, s)) = ToSet(s) \cap S
<1> DEFINE P == {q \in Seq(T) : ToSet(Chosen(S, q)) = ToSet(q) \cap S}
<1>1. <<>> \in P
  <2>1. ToSet(<<>>) = {}
    BY DEF ToSet
  <2>. QED
    BY <2>1, ChosenEmpty
<1>2. ASSUME NEW q \in Seq(T), NEW x \in T, q \in P PROVE Append(q, x) \in P
  <2>1. ToSet(Append(q, x)) = ToSet(q) \cup {x}
    BY ToSetAppend
  <2>2. CASE x \in S
    <3>1. Chosen(S, q) \in Seq(T)
      BY ChosenType
    <3>2. ToSet(Append(Chosen(S, q), x)) = ToSet(Chosen(S, q)) \cup {x}
      BY <3>1, ToSetAppend
    <3>3. Chosen(S, Append(q, x)) = Append(Chosen(S, q), x)
      BY <2>2, ChosenAppend
    <3>4. ToSet(Chosen(S, Append(q, x))) = ToSet(Append(q, x)) \cap S
      BY <1>2, <2>1, <2>2, <3>2, <3>3
    <3>. QED
      BY <3>4, AppendProperties
  <2>3. CASE x \notin S
    <3>1. Chosen(S, Append(q, x)) = Chosen(S, q)
      BY <2>3, ChosenAppend
    <3>. QED
      BY <1>2, <2>1, <2>3, <3>1
  <2>. QED
    BY <2>2, <2>3
<1> HIDE DEF P
<1>3. s \in P
  BY <1>1, <1>2, SeqInduction
<1>. QED
  BY <1>3 DEF P
=============================================================================
