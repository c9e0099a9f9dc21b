---------------------------- MODULE FatxChainProofs ----------------------------
(***************************************************************************)
(* What the chains of FatxChain are, for every finite chain map: the least *)
(* set that holds the first cluster and the successor of each of its       *)
(* clusters that is read.                                                  *)
(***************************************************************************)
EXTENDS FatxChain, FiniteSetTheorems, WellFoundedInduction, TLAPS

-----------------------------------------------------------------------------
(* Induction over the natural numbers, on a set instead of an operator.    *)
LEMMA Least ==
  ASSUME NEW S, S \subseteq Nat, S # {}
  PROVE  \E n \in S : \A m \in S : n <= m
<1>1. IsWellFoundedOn(OpToRel(<, Nat), Nat)
  BY NatLessThanWellFounded
<1>2. \E n \in S : \A m \in S : ~ (<<m, n>> \in OpToRel(<, Nat))
  BY <1>1, WFMin
<1>3. \A m, n \in Nat : m < n => <<m, n>> \in OpToRel(<, Nat)
  BY DEF OpToRel
<1>4. \E n \in S : \A m \in S : ~ (m < n)
  BY <1>2, <1>3, Zenon
<1>. QED BY <1>4

LEMMA Induct ==
  ASSUME NEW S, S \subseteq Nat, 0 \in S, \A n \in S : n + 1 \in S
  PROVE  S = Nat
<1>. SUFFICES ASSUME Nat \ S # {} PROVE FALSE
  OBVIOUS
<1>1. PICK n \in Nat \ S : \A m \in Nat \ S : n <= m
  BY Least
<1>2. n # 0 /\ n - 1 \in Nat /\ n - 1 \in S
  BY <1>1
<1>. QED BY <1>1, <1>2

(* A function computed step by step: step[<<v, n>>] is its value at n when *)
(* v is the one at n - 1.  There is one.                                   *)
Iteration(g, A, a, step, T) ==
  /\ g \in [0 .. T -> A]
  /\ g[0] = a
  /\ \A n \in 1 .. T : g[n] = step[<<g[n - 1], n>>]

LEMMA Iterate ==
  ASSUME NEW A, NEW a \in A, NEW step \in [A \X Nat -> A], NEW T \in Nat
  PROVE  \E g : Iteration(g, A, a, step, T)
<1>. DEFINE P == {m \in Nat : \E g : Iteration(g, A, a, step, m)}
<1>1. 0 \in P
  <2>. DEFINE g == [n \in 0 .. 0 |-> a]
  <2>1. Iteration(g, A, a, step, 0)
    BY DEF Iteration
  <2>. QED BY <2>1
<1>2. ASSUME NEW m \in P PROVE m + 1 \in P
  <2>1. PICK g : Iteration(g, A, a, step, m)
    OBVIOUS
  <2>. DEFINE h == [n \in 0 .. m + 1 |-> IF n = m + 1 THEN step[<<g[m], m + 1>>] ELSE g[n]]
  <2>2. m \in Nat /\ g[m] \in A /\ <<g[m], m + 1>> \in A \X Nat
    BY <2>1 DEF Iteration
  <2>3. h \in [0 .. m + 1 -> A]
    BY <2>1, <2>2 DEF Iteration
  <2>4. h[0] = a
    BY <2>1, <2>2 DEF Iteration
  <2>5. ASSUME NEW n \in 1 .. m + 1 PROVE h[n] = step[<<h[n - 1], n>>]
    <3>1. n - 1 \in 0 .. m /\ h[n - 1] = g[n - 1]
      BY <2>2
    <3>2. CASE n = m + 1
      <4>1. h[n] = step[<<g[m], m + 1>>] /\ n - 1 = m
        BY <3>2, <2>2
      <4>. QED BY <4>1, <3>1, <3>2
    <3>3. CASE n # m + 1
      <4>1. n \in 1 .. m /\ h[n] = g[n]
        BY <3>3, <2>2
      <4>. QED BY <4>1, <3>1, <2>1 DEF Iteration
    <3>. QED BY <3>2, <3>3
  <2>. HIDE DEF h
  <2>6. Iteration(h, A, a, step, m + 1)
    BY <2>3, <2>4, <2>5 DEF Iteration
  <2>. QED BY <2>2, <2>6
<1>3. P = Nat
  <2>. HIDE DEF P
  <2>1. P \subseteq Nat
    BY DEF P
  <2>. QED BY <1>1, <1>2, <2>1, Induct
<1>. QED BY <1>3

-----------------------------------------------------------------------------
(* The clusters met after each step of a read, of T steps.                 *)
Read(met, T, f, first, R) ==
  /\ T \in Nat /\ T = Cardinality(DOMAIN f)
  /\ met \in [0 .. T -> SUBSET DOMAIN f]
  /\ met[0] = {first} \cap DOMAIN f
  /\ \A n \in 1 .. T : met[n] = Onward(f, R, met[n - 1])
  /\ Reach(f, first, R) = met[T]

LEMMA ReadExists ==
  ASSUME NEW f, NEW first, NEW R, NEW T \in Nat, T = Cardinality(DOMAIN f)
  PROVE  \E met : Read(met, T, f, first, R)
<1>. DEFINE A == SUBSET DOMAIN f
            a == {first} \cap DOMAIN f
            step == [x \in A \X Nat |-> Onward(f, R, x[1])]
            F(m) == [n \in 0 .. T |-> IF n = 0 THEN a
                                      ELSE UNION {Onward(f, R, X) : X \in {m[n - 1]}}]
            met == CHOOSE m : m = F(m)
<1>1. \A m, n : UNION {Onward(f, R, X) : X \in {m[n - 1]}} = Onward(f, R, m[n - 1])
  OBVIOUS
<1>2. a \in A /\ step \in [A \X Nat -> A]
  BY DEF Onward
<1>3. \A X \in A, n \in Nat : step[<<X, n>>] = Onward(f, R, X)
  OBVIOUS
<1>4. PICK g : Iteration(g, A, a, step, T)
  <2>. HIDE DEF step, A, a
  <2>. QED BY <1>2, Iterate
<1>5. g \in [0 .. T -> A] /\ g[0] = a /\ \A n \in 1 .. T : g[n] = step[<<g[n - 1], n>>]
  BY <1>4 DEF Iteration
<1>6. ASSUME NEW n \in 1 .. T
      PROVE  n - 1 \in 0 .. T /\ g[n] = Onward(f, R, g[n - 1])
  <2>. HIDE DEF step, A, a
  <2>1. n - 1 \in 0 .. T /\ n \in Nat
    OBVIOUS
  <2>2. g[n - 1] \in A
    BY <1>5, <2>1
  <2>3. g[n] = step[<<g[n - 1], n>>]
    BY <1>5
  <2>. QED BY <1>3, <2>1, <2>2, <2>3
<1>7. g = F(g)
  <2>. HIDE DEF a
  <2>1. ASSUME NEW n \in 0 .. T PROVE g[n] = F(g)[n]
    <3>1. CASE n = 0
      BY <1>5, <3>1
    <3>2. CASE n # 0
      <4>1. n \in 1 .. T
        BY <3>2
      <4>2. g[n] = Onward(f, R, g[n - 1])
        BY <4>1, <1>6
      <4>3. F(g)[n] = UNION {Onward(f, R, X) : X \in {g[n - 1]}}
        BY <4>1
      <4>. QED BY <4>2, <4>3, <1>1
    <3>. QED BY <3>1, <3>2
  <2>2. g = [n \in 0 .. T |-> g[n]] /\ F(g) = [n \in 0 .. T |-> F(g)[n]]
    BY <1>5
  <2>. HIDE DEF F
  <2>. QED BY <2>1, <2>2
<1>8. met = F(met)
  <2>. HIDE DEF F
  <2>. QED BY <1>7
<1>9. Reach(f, first, R) = met[T]
  BY DEF Reach
<1>. HIDE DEF met
<1>10. DOMAIN met = 0 .. T /\ met[0] = {first} \cap DOMAIN f
  BY <1>8
<1>11. ASSUME NEW n \in 1 .. T PROVE met[n] = Onward(f, R, met[n - 1])
  <2>1. n \in 0 .. T /\ n # 0
    OBVIOUS
  <2>2. F(met)[n] = UNION {Onward(f, R, X) : X \in {met[n - 1]}}
    BY <2>1
  <2>. HIDE DEF F
  <2>. QED BY <2>2, <1>1, <1>8
<1>. HIDE DEF F
<1>12. ASSUME NEW n \in 0 .. T PROVE met[n] \in SUBSET DOMAIN f
  <2>. DEFINE P == {m \in Nat : m <= T => met[m] \in SUBSET DOMAIN f}
  <2>1. 0 \in P
    BY <1>10
  <2>2. ASSUME NEW m \in P PROVE m + 1 \in P
    <3>1. m + 1 <= T => met[m + 1] = Onward(f, R, met[m])
      BY <1>11
    <3>. QED BY <3>1 DEF Onward
  <2>3. P = Nat
    <3>. HIDE DEF P
    <3>1. P \subseteq Nat
      BY DEF P
    <3>. QED BY <2>1, <2>2, <3>1, Induct
  <2>. QED BY <2>3
<1>13. met \in [0 .. T -> SUBSET DOMAIN f]
  <2>1. met = [n \in 0 .. T |-> met[n]]
    BY <1>8 DEF F
  <2>. QED BY <2>1, <1>12
<1>14. Read(met, T, f, first, R)
  BY <1>9, <1>10, <1>11, <1>13 DEF Read
<1>. QED BY <1>14

LEMMA ReachMet ==
  ASSUME NEW f, IsFiniteSet(DOMAIN f), NEW first, NEW R
  PROVE  \E met, T : Read(met, T, f, first, R)
<1>1. Cardinality(DOMAIN f) \in Nat
  BY FS_CardinalityType
<1>. QED BY <1>1, ReadExists

(* The first cluster is met, and nothing outside the chain map.            *)
LEMMA ReachIn ==
  ASSUME NEW f, IsFiniteSet(DOMAIN f), NEW first, NEW R
  PROVE  /\ Reach(f, first, R) \subseteq DOMAIN f
         /\ first \in DOMAIN f => first \in Reach(f, first, R)
         /\ first \notin DOMAIN f => Reach(f, first, R) = {}
<1>1. PICK met, T : Read(met, T, f, first, R)
  BY ReachMet
<1>2. T \in Nat /\ T = Cardinality(DOMAIN f)
  BY <1>1 DEF Read
<1>3. /\ met \in [0 .. T -> SUBSET DOMAIN f]
      /\ met[0] = {first} \cap DOMAIN f
      /\ \A n \in 1 .. T : met[n] = Onward(f, R, met[n - 1])
      /\ Reach(f, first, R) = met[T]
  BY <1>1 DEF Read
<1>. DEFINE P == {n \in Nat : n <= T => (first \in DOMAIN f => first \in met[n])
                                       /\ (first \notin DOMAIN f => met[n] = {})}
<1>4. 0 \in P
  BY <1>3
<1>5. ASSUME NEW n \in P PROVE n + 1 \in P
  <2>1. n + 1 <= T => met[n + 1] = Onward(f, R, met[n])
    BY <1>2, <1>3
  <2>. QED BY <2>1, <1>2 DEF Onward
<1>6. P = Nat
  <2>. HIDE DEF P
  <2>1. P \subseteq Nat
    BY DEF P
  <2>. QED BY <1>4, <1>5, <2>1, Induct
<1>7. T \in P /\ T \in 0 .. T
  BY <1>2, <1>6
<1>8. met[T] \subseteq DOMAIN f
  BY <1>3, <1>7
<1>9. /\ first \in DOMAIN f => first \in met[T]
      /\ first \notin DOMAIN f => met[T] = {}
  BY <1>2, <1>7
<1>. HIDE DEF P
<1>. QED BY <1>3, <1>8, <1>9

(* A set that holds the first cluster, and the successor of each of its    *)
(* clusters that is read, holds all that is met.                           *)
LEMMA ReachLeast ==
  ASSUME NEW f, IsFiniteSet(DOMAIN f), NEW first, NEW R, NEW S,
         first \in DOMAIN f => first \in S,
         \A c \in S \cap R : f[c] \in DOMAIN f => f[c] \in S
  PROVE  Reach(f, first, R) \subseteq S
<1>1. PICK met, T : Read(met, T, f, first, R)
  BY ReachMet
<1>2. T \in Nat /\ T = Cardinality(DOMAIN f)
  BY <1>1 DEF Read
<1>3. /\ met \in [0 .. T -> SUBSET DOMAIN f]
      /\ met[0] = {first} \cap DOMAIN f
      /\ \A n \in 1 .. T : met[n] = Onward(f, R, met[n - 1])
      /\ Reach(f, first, R) = met[T]
  BY <1>1 DEF Read
<1>. DEFINE P == {n \in Nat : n <= T => met[n] \subseteq S}
<1>4. 0 \in P
  BY <1>3
<1>5. ASSUME NEW n \in P PROVE n + 1 \in P
  <2>1. n + 1 <= T => met[n + 1] = Onward(f, R, met[n])
    BY <1>2, <1>3
  <2>. QED BY <2>1, <1>2 DEF Onward
<1>6. P = Nat
  <2>. HIDE DEF P
  <2>1. P \subseteq Nat
    BY DEF P
  <2>. QED BY <1>4, <1>5, <2>1, Induct
<1>7. T \in P /\ T \in 0 .. T
  BY <1>2, <1>6
<1>8. met[T] \subseteq S
  BY <1>2, <1>7
<1>. QED BY <1>3, <1>8

(* As many steps as there are clusters meet them all: what is met leads to *)
(* nothing new.                                                            *)
LEMMA ReachClosed ==
  ASSUME NEW f, IsFiniteSet(DOMAIN f), NEW first, NEW R,
         NEW c \in Reach(f, first, R) \cap R, f[c] \in DOMAIN f
  PROVE  f[c] \in Reach(f, first, R)
<1>1. PICK met, T : Read(met, T, f, first, R)
  BY ReachMet
<1>2. T \in Nat /\ T = Cardinality(DOMAIN f)
  BY <1>1 DEF Read
<1>3. /\ met \in [0 .. T -> SUBSET DOMAIN f]
      /\ met[0] = {first} \cap DOMAIN f
      /\ \A n \in 1 .. T : met[n] = Onward(f, R, met[n - 1])
      /\ Reach(f, first, R) = met[T]
  BY <1>1 DEF Read
<1>. DEFINE P == {n \in Nat : n <= T => \/ Onward(f, R, met[n]) = met[n]
                                        \/ Cardinality(met[n]) > n}
<1>4. \A n \in 0 .. T : IsFiniteSet(met[n]) /\ Cardinality(met[n]) \in Nat
                        /\ Cardinality(met[n]) <= T
  BY <1>2, <1>3, FS_Subset, FS_CardinalityType
<1>5. 0 \in P
  <2>1. CASE first \in DOMAIN f
    <3>1. met[0] = {first}
      BY <1>3, <2>1
    <3>2. Cardinality(met[0]) = 1
      BY <3>1, FS_Singleton
    <3>. QED BY <3>2
  <2>2. CASE first \notin DOMAIN f
    <3>1. met[0] = {}
      BY <1>3, <2>2
    <3>. QED BY <3>1 DEF Onward
  <2>. QED BY <2>1, <2>2
<1>6. ASSUME NEW n \in P PROVE n + 1 \in P
  <2>. SUFFICES ASSUME n + 1 <= T, Onward(f, R, met[n + 1]) # met[n + 1]
       PROVE  Cardinality(met[n + 1]) > n + 1
    OBVIOUS
  <2>1. n \in 0 .. T /\ n + 1 \in 0 .. T /\ n \in Nat
    BY <1>2
  <2>2. met[n + 1] = Onward(f, R, met[n])
    BY <1>2, <1>3
  <2>3. met[n + 1] # met[n]
    BY <2>2
  <2>4. Cardinality(met[n]) > n
    BY <2>1, <2>2, <2>3
  <2>5. met[n] \subseteq met[n + 1]
    BY <2>2 DEF Onward
  <2>6. Cardinality(met[n]) <= Cardinality(met[n + 1])
        /\ (Cardinality(met[n]) = Cardinality(met[n + 1]) => met[n] = met[n + 1])
    BY <1>4, <2>1, <2>5, FS_Subset
  <2>. QED BY <1>4, <2>1, <2>3, <2>4, <2>6
<1>7. P = Nat
  <2>. HIDE DEF P
  <2>1. P \subseteq Nat
    BY DEF P
  <2>. QED BY <1>5, <1>6, <2>1, Induct
<1>8. T \in P /\ T \in 0 .. T
  BY <1>2, <1>7
<1>9. Onward(f, R, met[T]) = met[T]
  BY <1>2, <1>4, <1>8
<1>. QED BY <1>3, <1>9 DEF Onward

-----------------------------------------------------------------------------
(* What follows from these three.                                          *)

(* Every cluster met but the first has a predecessor that is met.          *)
LEMMA ReachPred ==
  ASSUME NEW f, IsFiniteSet(DOMAIN f), NEW first, NEW R,
         NEW c \in Reach(f, first, R), c # first
  PROVE  \E b \in Reach(f, first, R) \cap R : f[b] = c
<1>. DEFINE C == Reach(f, first, R)
            S == {x \in C : x = first \/ \E b \in C \cap R : f[b] = x}
<1>1. first \in DOMAIN f => first \in S
  BY ReachIn
<1>2. \A x \in S \cap R : f[x] \in DOMAIN f => f[x] \in S
  BY ReachClosed
<1>3. C \subseteq S
  <2>. HIDE DEF S
  <2>. QED BY <1>1, <1>2, ReachLeast
<1>. QED BY <1>3

(* A change of entries outside a chain does not change the chain.          *)
LEMMA ReachSame ==
  ASSUME NEW f, NEW g, IsFiniteSet(DOMAIN f), DOMAIN g = DOMAIN f, NEW first, NEW R,
         \A c \in Reach(f, first, R) : g[c] = f[c]
  PROVE  Reach(g, first, R) = Reach(f, first, R)
<1>. DEFINE C == Reach(f, first, R)
            D == Reach(g, first, R)
            S == {c \in C : c \in D}
<1>1. first \in DOMAIN f => first \in C /\ first \in D
  BY ReachIn
<1>2. \A c \in C \cap R : g[c] \in DOMAIN g => g[c] \in C
  BY ReachClosed
<1>3. D \subseteq C
  <2>. HIDE DEF C
  <2>. QED BY <1>1, <1>2, ReachLeast
<1>4. \A c \in S \cap R : f[c] \in DOMAIN f => f[c] \in S
  <2>. SUFFICES ASSUME NEW c \in S \cap R, f[c] \in DOMAIN f PROVE f[c] \in S
    OBVIOUS
  <2>1. f[c] \in C
    BY ReachClosed
  <2>2. g[c] \in D
    BY ReachClosed
  <2>. QED BY <2>1, <2>2
<1>5. C \subseteq S
  <2>1. first \in DOMAIN f => first \in S
    BY <1>1
  <2>. HIDE DEF S
  <2>. QED BY <1>4, <2>1, ReachLeast
<1>. QED BY <1>3, <1>5

(* Reading fewer clusters meets fewer.                                     *)
LEMMA ReachFewer ==
  ASSUME NEW f, IsFiniteSet(DOMAIN f), NEW first, NEW R, NEW Q, R \cap DOMAIN f \subseteq Q
  PROVE  Reach(f, first, R) \subseteq Reach(f, first, Q)
<1>. DEFINE S == Reach(f, first, Q)
<1>1. first \in DOMAIN f => first \in S
  BY ReachIn
<1>2. S \subseteq DOMAIN f
  BY ReachIn
<1>3. \A c \in S \cap R : f[c] \in DOMAIN f => f[c] \in S
  BY <1>2, ReachClosed
<1>. HIDE DEF S
<1>4. Reach(f, first, R) \subseteq S
  BY <1>1, <1>3, ReachLeast
<1>. QED BY <1>4 DEF S

(* No two entries lead to the same cluster.                                *)
Injective(f) == \A a, b \in DOMAIN f : f[a] = f[b] /\ f[a] \in DOMAIN f => a = b

(* A cluster no entry leads to.                                            *)
Source(f, h) == \A c \in DOMAIN f : f[c] # h

(* Then chains that start at different sources never meet.                 *)
LEMMA ReachApart ==
  ASSUME NEW f, IsFiniteSet(DOMAIN f), Injective(f), NEW a, NEW b, NEW R,
         Source(f, a), Source(f, b), a # b
  PROVE  Reach(f, a, R) \cap Reach(f, b, DOMAIN f) = {}
<1>. DEFINE C == Reach(f, a, R)
            D == Reach(f, b, DOMAIN f)
            S == {c \in C : c \notin D}
<1>1. C \subseteq DOMAIN f /\ D \subseteq DOMAIN f
  BY ReachIn
<1>2. \A c \in D : c # b => \E d \in D : f[d] = c
  BY ReachPred
<1>3. a \notin D
  BY <1>1, <1>2 DEF Source
<1>4. \A c \in C \cap R : f[c] \in DOMAIN f => f[c] \in C
  BY ReachClosed
<1>5. \A c \in S \cap R : f[c] \in DOMAIN f => f[c] \in S
  BY <1>1, <1>2, <1>4 DEF Source, Injective
<1>6. a \in DOMAIN f => a \in S
  BY <1>3, ReachIn
<1>7. C \subseteq S
  <2>. HIDE DEF S
  <2>. QED BY <1>5, <1>6, ReachLeast
<1>. QED BY <1>7

(* Nothing leads into the first cluster of a chain, so it has an end.      *)
LEMMA ReachEnds ==
  ASSUME NEW f, IsFiniteSet(DOMAIN f), Injective(f), NEW h \in DOMAIN f, Source(f, h)
  PROVE  \E c \in Reach(f, h, DOMAIN f) : f[c] \notin DOMAIN f
<1>. DEFINE C == Reach(f, h, DOMAIN f)
            g == [c \in C |-> f[c]]
<1>. SUFFICES ASSUME \A c \in C : f[c] \in DOMAIN f PROVE FALSE
  OBVIOUS
<1>1. C \subseteq DOMAIN f /\ h \in C
  BY ReachIn
<1>2. \A c \in C : f[c] \in C
  BY <1>1, ReachClosed
<1>3. IsFiniteSet(C)
  BY <1>1, FS_Subset
<1>. HIDE DEF C
<1>4. g \in Injection(C, C)
  BY <1>1, <1>2 DEF Injection, IsInjective, Injective
<1>5. g \in Surjection(C, C)
  BY <1>3, <1>4, FS_Injection
<1>6. PICK c \in C : f[c] = h
  BY <1>1, <1>5 DEF Surjection
<1>. QED BY <1>1, <1>6 DEF Source
-----------------------------------------------------------------------------
(* Chain maps without loops.                                               *)

(* Some cluster of every set of clusters follows none of that set.         *)
Acyclic(f) == \A S \in SUBSET DOMAIN f : S # {} => \E c \in S : \A b \in S : f[b] # c

(* An entry that is made to lead nowhere, or to a cluster whose own entry  *)
(* leads nowhere, closes no loop.                                          *)
LEMMA AcyclicChange ==
  ASSUME NEW f, Acyclic(f), NEW a \in DOMAIN f, NEW v,
         v \in DOMAIN f => v # a /\ f[v] \notin DOMAIN f
  PROVE  Acyclic([f EXCEPT ![a] = v])
<1>. DEFINE g == [f EXCEPT ![a] = v]
<1>1. DOMAIN g = DOMAIN f /\ g[a] = v /\ \A b \in DOMAIN f : b # a => g[b] = f[b]
  OBVIOUS
<1>. HIDE DEF g
<1>2. SUFFICES ASSUME NEW S \in SUBSET DOMAIN f, S # {}
               PROVE  \E c \in S : \A b \in S : g[b] # c
  BY <1>1 DEF Acyclic, g
<1>3. CASE ~(a \in S /\ v \in S)
  <2>1. PICK c \in S : \A b \in S : f[b] # c
    BY <1>2 DEF Acyclic
  <2>. QED BY <1>1, <1>3, <2>1
<1>4. CASE a \in S /\ v \in S
  <2>1. v # a /\ f[v] \notin DOMAIN f
    BY <1>4
  <2>2. PICK c \in S \ {v} : \A b \in S \ {v} : f[b] # c
    BY <1>4, <2>1 DEF Acyclic
  <2>3. g[v] # c /\ c # v
    BY <1>1, <1>4, <2>1
  <2>. QED BY <1>1, <2>2, <2>3
<1>. QED BY <1>3, <1>4

(* Every cluster then lies in the chain of a source.                       *)
LEMMA AcyclicRoots ==
  ASSUME NEW f, IsFiniteSet(DOMAIN f), Acyclic(f), NEW c \in DOMAIN f
  PROVE  \E h \in DOMAIN f : /\ Source(f, h) /\ c \in Reach(f, h, DOMAIN f)
                             /\ h = c \/ f[h] \in DOMAIN f
<1>. DEFINE From(h, x) == /\ Source(f, h) /\ x \in Reach(f, h, DOMAIN f)
                          /\ h = x \/ f[h] \in DOMAIN f
            U == {x \in DOMAIN f : \A h \in DOMAIN f : ~From(h, x)}
<1>. SUFFICES ASSUME U # {} PROVE FALSE
  OBVIOUS
<1>1. PICK x \in U : \A b \in U : f[b] # x
  BY DEF Acyclic
<1>2. CASE Source(f, x)
  <2>1. x \in Reach(f, x, DOMAIN f)
    BY ReachIn
  <2>. QED BY <1>2, <2>1
<1>3. CASE ~Source(f, x)
  <2>1. PICK b \in DOMAIN f : f[b] = x
    BY <1>3 DEF Source
  <2>2. PICK h \in DOMAIN f : From(h, b)
    BY <1>1, <2>1
  <2>3. x \in Reach(f, h, DOMAIN f)
    BY <2>1, <2>2, ReachClosed
  <2>4. f[h] \in DOMAIN f
    BY <2>1, <2>2
  <2>. QED BY <2>2, <2>3, <2>4
<1>. QED BY <1>2, <1>3
=============================================================================
