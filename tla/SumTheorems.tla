---------------------------- MODULE SumTheorems ----------------------------
(***************************************************************************)
(* What SumOf computes, for every finite set and every function on it.     *)
(*                                                                         *)
(* SumOf is a recursive function over the subsets of a set.  That there is *)
(* one, and that it does not matter which element a step takes out, is     *)
(* proved by induction over the subsets, in the form that does not need    *)
(* a parameter for what is proved: a set of subsets of a finite set has a  *)
(* minimal member (MinimalSubset).                                         *)
(***************************************************************************)
EXTENDS Sums, FiniteSetTheorems, WellFoundedInduction, TLAPS

-----------------------------------------------------------------------------
(* The recursive function                                                  *)

\* The element that the sum over s takes out first.
Taken(s) == CHOOSE x \in s : TRUE

\* g gives the sum of f over every subset of S.
Iterates(g, f, S) ==
  g = [s \in SUBSET S |-> IF s = {} THEN 0 ELSE f[Taken(s)] + g[s \ {Taken(s)}]]

Iterated(f, S) == CHOOSE g : Iterates(g, f, S)

LEMMA SumIsIterated == ASSUME NEW f PROVE SumOf(f) = Iterated(f, DOMAIN f)[DOMAIN f]
BY DEF SumOf, MapThenSumSet, MapThenFoldSet, Iterated, Iterates, Taken

\* Induction over the subsets of a finite set: a set of them has a minimal one.
LEMMA MinimalSubset ==
  ASSUME NEW S, IsFiniteSet(S), NEW B \in SUBSET (SUBSET S), B # {}
  PROVE  \E T \in B : \A U \in B : U \subseteq T => U = T
<1> DEFINE R == StrictSubsetOrdering(S)
<1>1. IsWellFoundedOn(R, FiniteSubsetsOf(S))
  BY FS_StrictSubsetOrderingWellFounded
<1>2. B \subseteq FiniteSubsetsOf(S)
  BY FS_FiniteSubsetsOfFinite
<1> HIDE DEF R
<1>3. PICK T \in B : \A U \in B : <<U, T>> \notin R
  BY <1>1, <1>2, WFMin
<1>4. ASSUME NEW U \in B, U \subseteq T, U # T PROVE FALSE
  <2>1. <<U, T>> \in R
    BY <1>4 DEF R, StrictSubsetOrdering
  <2>2. QED
    BY <1>3, <2>1
<1>5. QED
  BY <1>4

\* Two of them agree.
LEMMA IterationUnique ==
  ASSUME NEW f, NEW S, IsFiniteSet(S), NEW T \in SUBSET S, NEW g, NEW h,
         Iterates(g, f, S), Iterates(h, f, T), NEW s \in SUBSET T
  PROVE  g[s] = h[s]
<1> DEFINE B == {u \in SUBSET T : g[u] # h[u]}
<1>1. SUFFICES ASSUME B # {} PROVE FALSE
  OBVIOUS
<1>2. PICK u \in B : \A v \in B : v \subseteq u => v = u
  <2>1. B \in SUBSET (SUBSET T) /\ IsFiniteSet(T)
    BY FS_Subset
  <2> HIDE DEF B
  <2>2. QED
    BY <1>1, <2>1, MinimalSubset
<1>3. u \in SUBSET T /\ u \in SUBSET S /\ g[u] # h[u]
  OBVIOUS
<1> DEFINE rest == u \ {Taken(u)}
<1>4. /\ g[u] = IF u = {} THEN 0 ELSE f[Taken(u)] + g[rest]
      /\ h[u] = IF u = {} THEN 0 ELSE f[Taken(u)] + h[rest]
  BY <1>3 DEF Iterates
<1>5. u # {}
  BY <1>3, <1>4
<1>6. Taken(u) \in u
  BY <1>5 DEF Taken
<1>7. rest \notin B
  BY <1>2, <1>6
<1>8. g[rest] = h[rest]
  BY <1>3, <1>7
<1>9. QED
  BY <1>3, <1>4, <1>8

\* There is one, put together from those of the smaller sets.
LEMMA IterationExists ==
  ASSUME NEW f, NEW S, IsFiniteSet(S)
  PROVE  Iterates(Iterated(f, S), f, S)
<1> DEFINE B == {T \in SUBSET S : ~ Iterates(Iterated(f, T), f, T)}
<1>1. SUFFICES ASSUME B # {} PROVE FALSE
  OBVIOUS
<1>2. PICK T \in B : \A U \in B : U \subseteq T => U = T
  <2>1. B \in SUBSET (SUBSET S)
    OBVIOUS
  <2> HIDE DEF B
  <2>2. QED
    BY <1>1, <2>1, MinimalSubset
<1> DEFINE G(u) == Iterated(f, u)
           rest(s) == s \ {Taken(s)}
           g == [s \in SUBSET T |->
                   IF s = {} THEN 0 ELSE f[Taken(s)] + G(rest(s))[rest(s)]]
<1>3. ASSUME NEW u \in SUBSET T, u # T PROVE Iterates(G(u), f, u)
  BY <1>2, <1>3
<1>4. ASSUME NEW s \in SUBSET T, s # {}
      PROVE  Taken(s) \in s /\ rest(s) \in SUBSET T /\ rest(s) # T /\ rest(s) \subseteq s
  BY <1>4 DEF Taken
<1>5. ASSUME NEW u \in SUBSET T, u # T PROVE g[u] = G(u)[u]
  <2>1. G(u)[u] = IF u = {} THEN 0 ELSE f[Taken(u)] + G(u)[rest(u)]
    BY <1>3, <1>5 DEF Iterates
  <2>2. ASSUME u # {} PROVE G(u)[rest(u)] = G(rest(u))[rest(u)]
    <3>1. rest(u) \in SUBSET u /\ rest(u) # T
      BY <1>4, <1>5, <2>2
    <3>2. Iterates(G(u), f, u) /\ Iterates(G(rest(u)), f, rest(u))
      BY <1>3, <1>4, <1>5, <2>2
    <3>3. IsFiniteSet(u)
      BY <1>2, FS_Subset
    <3>4. QED
      BY <3>1, <3>2, <3>3, IterationUnique
  <2>3. QED
    BY <2>1, <2>2
<1>6. Iterates(g, f, T)
  <2>1. \A s \in SUBSET T : s # {} => G(rest(s))[rest(s)] = g[rest(s)]
    BY <1>4, <1>5
  <2>2. g = [s \in SUBSET T |-> IF s = {} THEN 0 ELSE f[Taken(s)] + g[s \ {Taken(s)}]]
    BY <2>1
  <2>3. QED
    BY <2>2 DEF Iterates
<1>7. Iterates(Iterated(f, T), f, T)
  BY <1>6 DEF Iterated
<1>8. QED
  BY <1>2, <1>7

-----------------------------------------------------------------------------
(* Sums over parts of the domain                                           *)

\* The sum of f over S.
Part(f, S) == Iterated(f, S)[S]

LEMMA PartEmpty == ASSUME NEW f PROVE Part(f, {}) = 0
<1>1. Iterates(Iterated(f, {}), f, {})
  BY IterationExists, FS_EmptySet
<1>2. QED
  BY <1>1 DEF Iterates, Part

LEMMA PartStep ==
  ASSUME NEW f, NEW S, IsFiniteSet(S), S # {}
  PROVE  /\ Taken(S) \in S
         /\ Part(f, S) = f[Taken(S)] + Part(f, S \ {Taken(S)})
<1> DEFINE T == S \ {Taken(S)}
<1>1. Taken(S) \in S
  BY DEF Taken
<1>2. T \in SUBSET S /\ IsFiniteSet(T)
  BY FS_Subset
<1>3. Iterates(Iterated(f, S), f, S) /\ Iterates(Iterated(f, T), f, T)
  BY <1>2, IterationExists
<1>4. Iterated(f, S)[S] = f[Taken(S)] + Iterated(f, S)[T]
  BY <1>2, <1>3 DEF Iterates
<1>5. Iterated(f, S)[T] = Iterated(f, T)[T]
  <2>1. T \in SUBSET T
    OBVIOUS
  <2> HIDE DEF T
  <2>2. QED
    BY <1>2, <1>3, <2>1, IterationUnique
<1>6. QED
  BY <1>1, <1>4, <1>5 DEF Part

LEMMA PartInt ==
  ASSUME NEW f, NEW S, IsFiniteSet(S), \A x \in S : f[x] \in Int
  PROVE  Part(f, S) \in Int
<1> DEFINE B == {T \in SUBSET S : Part(f, T) \notin Int}
<1>1. SUFFICES ASSUME B # {} PROVE FALSE
  OBVIOUS
<1>2. PICK T \in B : \A U \in B : U \subseteq T => U = T
  <2>1. B \in SUBSET (SUBSET S)
    OBVIOUS
  <2> HIDE DEF B
  <2>2. QED
    BY <1>1, <2>1, MinimalSubset
<1>3. T # {} /\ IsFiniteSet(T)
  <2>1. Part(f, {}) = 0
    BY PartEmpty
  <2>2. T # {}
    BY <2>1
  <2>3. QED
    BY <2>2, FS_Subset
<1>4. /\ Taken(T) \in T
      /\ Part(f, T) = f[Taken(T)] + Part(f, T \ {Taken(T)})
  BY <1>3, PartStep
<1>5. Part(f, T \ {Taken(T)}) \in Int
  BY <1>2, <1>4
<1>6. f[Taken(T)] \in Int
  BY <1>4
<1>7. QED
  BY <1>4, <1>5, <1>6

\* Any element may be taken out first.
LEMMA PartAny ==
  ASSUME NEW f, NEW S, IsFiniteSet(S), \A x \in S : f[x] \in Int, NEW x \in S
  PROVE  Part(f, S) = f[x] + Part(f, S \ {x})
<1> DEFINE Splits(T) == \A y \in T : Part(f, T) = f[y] + Part(f, T \ {y})
           B == {T \in SUBSET S : ~ Splits(T)}
<1>1. SUFFICES ASSUME B # {} PROVE FALSE
  OBVIOUS
<1>2. PICK T \in B : \A U \in B : U \subseteq T => U = T
  <2>1. B \in SUBSET (SUBSET S)
    OBVIOUS
  <2> HIDE DEF B
  <2>2. QED
    BY <1>1, <2>1, MinimalSubset
<1>3. PICK y \in T : Part(f, T) # f[y] + Part(f, T \ {y})
  OBVIOUS
<1> DEFINE e == Taken(T)
<1>4. T \subseteq S /\ IsFiniteSet(T)
  BY FS_Subset
<1>5. e \in T /\ Part(f, T) = f[e] + Part(f, T \ {e})
  BY <1>3, <1>4, PartStep
<1>6. e # y
  BY <1>3, <1>5
<1> DEFINE R == (T \ {e}) \ {y}
<1>7. R = (T \ {y}) \ {e}
  OBVIOUS
<1>8. Part(f, T \ {e}) = f[y] + Part(f, R)
  <2>1. T \ {e} \notin B
    BY <1>2, <1>5
  <2>2. y \in T \ {e}
    BY <1>6
  <2>3. QED
    BY <1>4, <2>1, <2>2
<1>9. Part(f, T \ {y}) = f[e] + Part(f, R)
  <2>1. T \ {y} \notin B
    BY <1>2, <1>3
  <2>2. e \in T \ {y}
    BY <1>5, <1>6
  <2>3. QED
    BY <1>4, <1>7, <2>1, <2>2
<1>10. Part(f, R) \in Int /\ f[e] \in Int /\ f[y] \in Int
  <2>1. IsFiniteSet(R) /\ R \subseteq S
    BY <1>4, FS_Subset
  <2>2. QED
    BY <1>4, <1>5, <2>1, PartInt
<1> HIDE DEF e, R
<1>11. QED
  BY <1>3, <1>5, <1>8, <1>9, <1>10

LEMMA PartSame ==
  ASSUME NEW f, NEW g, NEW S, IsFiniteSet(S), \A x \in S : f[x] = g[x]
  PROVE  Part(f, S) = Part(g, S)
<1> DEFINE B == {T \in SUBSET S : Part(f, T) # Part(g, T)}
<1>1. SUFFICES ASSUME B # {} PROVE FALSE
  OBVIOUS
<1>2. PICK T \in B : \A U \in B : U \subseteq T => U = T
  <2>1. B \in SUBSET (SUBSET S)
    OBVIOUS
  <2> HIDE DEF B
  <2>2. QED
    BY <1>1, <2>1, MinimalSubset
<1>3. T # {} /\ IsFiniteSet(T)
  BY PartEmpty, FS_Subset
<1>4. /\ Taken(T) \in T
      /\ Part(f, T) = f[Taken(T)] + Part(f, T \ {Taken(T)})
      /\ Part(g, T) = g[Taken(T)] + Part(g, T \ {Taken(T)})
  BY <1>3, PartStep
<1>5. Part(f, T \ {Taken(T)}) = Part(g, T \ {Taken(T)})
  BY <1>2, <1>4
<1>6. QED
  BY <1>4, <1>5

LEMMA PartLeq ==
  ASSUME NEW f, NEW g, NEW S, IsFiniteSet(S),
         \A x \in S : f[x] \in Int /\ g[x] \in Int /\ f[x] <= g[x]
  PROVE  Part(f, S) <= Part(g, S)
<1> DEFINE B == {T \in SUBSET S : ~ (Part(f, T) <= Part(g, T))}
<1>1. SUFFICES ASSUME B # {} PROVE FALSE
  OBVIOUS
<1>2. PICK T \in B : \A U \in B : U \subseteq T => U = T
  <2>1. B \in SUBSET (SUBSET S)
    OBVIOUS
  <2> HIDE DEF B
  <2>2. QED
    BY <1>1, <2>1, MinimalSubset
<1>3. T # {} /\ IsFiniteSet(T)
  <2>1. Part(f, {}) = 0 /\ Part(g, {}) = 0
    BY PartEmpty
  <2>2. T # {}
    BY <2>1
  <2>3. QED
    BY <2>2, FS_Subset
<1> DEFINE R == T \ {Taken(T)}
<1>4. /\ Taken(T) \in T
      /\ Part(f, T) = f[Taken(T)] + Part(f, R)
      /\ Part(g, T) = g[Taken(T)] + Part(g, R)
  BY <1>3, PartStep
<1>5. Part(f, R) <= Part(g, R)
  BY <1>2, <1>4
<1>6. Part(f, R) \in Int /\ Part(g, R) \in Int
  <2>1. IsFiniteSet(R) /\ R \subseteq S
    BY <1>3, FS_Subset
  <2>2. QED
    BY <2>1, PartInt
<1>7. f[Taken(T)] \in Int /\ g[Taken(T)] \in Int /\ f[Taken(T)] <= g[Taken(T)]
  BY <1>4
<1>8. ~ (Part(f, T) <= Part(g, T))
  OBVIOUS
<1> HIDE DEF R
<1>9. QED
  BY <1>4, <1>5, <1>6, <1>7, <1>8

-----------------------------------------------------------------------------
(* Sums of functions                                                       *)

LEMMA SumEmpty == ASSUME NEW f, DOMAIN f = {} PROVE SumOf(f) = 0
BY SumIsIterated, PartEmpty DEF Part

LEMMA SumInt ==
  ASSUME NEW S, IsFiniteSet(S), NEW f \in [S -> Int]
  PROVE  SumOf(f) \in Int
BY SumIsIterated, PartInt DEF Part

\* Two functions that agree but in x, where only one of them may be defined.
LEMMA SumTakeOut ==
  ASSUME NEW S, IsFiniteSet(S), NEW f \in [S -> Int], NEW x \in S,
         NEW g, DOMAIN g = S \ {x}, \A y \in S \ {x} : g[y] = f[y]
  PROVE  SumOf(f) = f[x] + SumOf(g)
<1>1. SumOf(f) = Part(f, S) /\ SumOf(g) = Part(g, S \ {x})
  BY SumIsIterated DEF Part
<1>2. Part(f, S) = f[x] + Part(f, S \ {x})
  BY PartAny
<1>3. Part(f, S \ {x}) = Part(g, S \ {x})
  <2>1. IsFiniteSet(S \ {x})
    BY FS_Subset
  <2>2. QED
    BY <2>1, PartSame
<1>4. QED
  BY <1>1, <1>2, <1>3

LEMMA SumLeq ==
  ASSUME NEW S, IsFiniteSet(S), NEW f \in [S -> Int], NEW g \in [S -> Int],
         \A x \in S : f[x] <= g[x]
  PROVE  SumOf(f) <= SumOf(g)
<1>1. SumOf(f) = Part(f, S) /\ SumOf(g) = Part(g, S)
  BY SumIsIterated DEF Part
<1>2. QED
  BY <1>1, PartLeq

LEMMA SumUpdate ==
  ASSUME NEW S, IsFiniteSet(S), NEW f \in [S -> Int], NEW x \in S, NEW v \in Int
  PROVE  SumOf([f EXCEPT ![x] = v]) = SumOf(f) - f[x] + v
<1> DEFINE g == [f EXCEPT ![x] = v]
           h == [y \in S \ {x} |-> f[y]]
<1>1. g \in [S -> Int] /\ g[x] = v /\ \A y \in S \ {x} : g[y] = f[y]
  OBVIOUS
<1>2. h \in [S \ {x} -> Int] /\ \A y \in S \ {x} : h[y] = f[y]
  OBVIOUS
<1> HIDE DEF g, h
<1>3. SumOf(f) = f[x] + SumOf(h)
  BY <1>2, SumTakeOut
<1>4. SumOf(g) = v + SumOf(h)
  BY <1>1, <1>2, SumTakeOut
<1>5. SumOf(h) \in Int
  <2>1. IsFiniteSet(S \ {x})
    BY FS_Subset
  <2>2. QED
    BY <1>2, <2>1, SumInt
<1>6. SumOf(g) = SumOf(f) - f[x] + v
  BY <1>3, <1>4, <1>5
<1>7. QED
  BY <1>6 DEF g

LEMMA SumZero ==
  ASSUME NEW S, IsFiniteSet(S), NEW f, DOMAIN f = S, \A x \in S : f[x] = 0
  PROVE  SumOf(f) = 0
<1> DEFINE B == {T \in SUBSET S : Part(f, T) # 0}
<1>1. SUFFICES ASSUME B # {} PROVE FALSE
  BY SumIsIterated DEF Part
<1>2. PICK T \in B : \A U \in B : U \subseteq T => U = T
  <2>1. B \in SUBSET (SUBSET S)
    OBVIOUS
  <2> HIDE DEF B
  <2>2. QED
    BY <1>1, <2>1, MinimalSubset
<1>3. T # {} /\ IsFiniteSet(T)
  <2>1. Part(f, {}) = 0
    BY PartEmpty
  <2>2. T # {}
    BY <2>1
  <2>3. QED
    BY <2>2, FS_Subset
<1>4. Taken(T) \in T /\ Part(f, T) = f[Taken(T)] + Part(f, T \ {Taken(T)})
  BY <1>3, PartStep
<1>5. Part(f, T \ {Taken(T)}) = 0
  BY <1>2, <1>4
<1>6. QED
  BY <1>4, <1>5

\* A sum of amounts is one, and no smaller than any of them.
LEMMA SumNat ==
  ASSUME NEW S, IsFiniteSet(S), NEW f \in [S -> Nat]
  PROVE  SumOf(f) \in Nat /\ \A x \in S : f[x] <= SumOf(f)
<1> DEFINE z == [x \in S |-> 0]
<1>1. z \in [S -> Int] /\ f \in [S -> Int]
  OBVIOUS
<1>2. SumOf(z) = 0
  BY SumZero
<1>3. \A x \in S : z[x] <= f[x]
  OBVIOUS
<1> HIDE DEF z
<1>4. SumOf(z) <= SumOf(f)
  BY <1>1, <1>3, SumLeq
<1>5. SumOf(f) \in Nat
  BY <1>1, <1>2, <1>4, SumInt
<1>6. ASSUME NEW x \in S PROVE f[x] <= SumOf(f)
  <2> DEFINE g == [y \in S |-> IF y = x THEN f[y] ELSE 0]
             h == [y \in S \ {x} |-> 0]
  <2>1. /\ g \in [S -> Int] /\ \A y \in S : g[y] <= f[y]
        /\ g[x] = f[x] /\ DOMAIN h = S \ {x} /\ \A y \in S \ {x} : h[y] = g[y] /\ h[y] = 0
    OBVIOUS
  <2> HIDE DEF g, h
  <2>2. SumOf(g) <= SumOf(f)
    BY <1>1, <2>1, SumLeq
  <2>3. SumOf(g) = g[x] + SumOf(h)
    BY <2>1, SumTakeOut
  <2>4. SumOf(h) = 0
    <3>1. IsFiniteSet(S \ {x})
      BY FS_Subset
    <3>2. QED
      BY <2>1, <3>1, SumZero
  <2>5. QED
    BY <2>1, <2>2, <2>3, <2>4
<1>7. QED
  BY <1>5, <1>6

\* The sum of a sequence, by its last entry.
LEMMA SumAppend ==
  ASSUME NEW n \in Nat, NEW f \in [1..n -> Int], NEW g \in [1..(n + 1) -> Int],
         \A k \in 1..n : g[k] = f[k]
  PROVE  SumOf(g) = SumOf(f) + g[n + 1]
<1>1. IsFiniteSet(1..(n + 1)) /\ IsFiniteSet(1..n)
  BY FS_Interval
<1>2. n + 1 \in 1..(n + 1) /\ 1..n = (1..(n + 1)) \ {n + 1}
  OBVIOUS
<1>3. SumOf(g) = g[n + 1] + SumOf(f)
  <2> DEFINE D == 1..(n + 1)
             k == n + 1
  <2>1. /\ IsFiniteSet(D) /\ k \in D /\ g \in [D -> Int]
        /\ DOMAIN f = D \ {k} /\ \A j \in D \ {k} : f[j] = g[j]
    BY <1>1, <1>2
  <2> HIDE DEF D, k
  <2>2. SumOf(g) = g[k] + SumOf(f)
    BY <2>1, SumTakeOut
  <2>3. QED
    BY <2>2 DEF k
<1>4. SumOf(f) \in Int /\ g[n + 1] \in Int
  BY <1>1, <1>2, SumInt
<1>5. QED
  BY <1>3, <1>4

LEMMA SumOne == ASSUME NEW f \in [{1} -> Int] PROVE SumOf(f) = f[1]
<1> DEFINE D == {1}
           e == [j \in {} |-> 0]
<1>1. IsFiniteSet(D)
  BY FS_Singleton
<1>2. /\ 1 \in D /\ f \in [D -> Int] /\ f[1] \in Int
      /\ DOMAIN e = D \ {1} /\ \A j \in D \ {1} : e[j] = f[j]
  OBVIOUS
<1>3. SumOf(e) = 0
  BY SumEmpty
<1> HIDE DEF D, e
<1>4. SumOf(f) = f[1] + SumOf(e)
  BY <1>1, <1>2, SumTakeOut
<1>5. QED
  BY <1>2, <1>3, <1>4

LEMMA SumTwo == ASSUME NEW f \in [{1, 2} -> Int] PROVE SumOf(f) = f[1] + f[2]
<1> DEFINE D == {1, 2}
           e == [j \in {1} |-> f[j]]
<1>1. IsFiniteSet(D)
  <2>1. IsFiniteSet({1} \union {2})
    BY FS_Singleton, FS_Union
  <2>2. D = {1} \union {2}
    OBVIOUS
  <2>3. QED
    BY <2>1, <2>2
<1>2. /\ 2 \in D /\ f \in [D -> Int] /\ f[1] \in Int /\ f[2] \in Int
      /\ DOMAIN e = D \ {2} /\ \A j \in D \ {2} : e[j] = f[j]
  OBVIOUS
<1>3. e \in [{1} -> Int] /\ e[1] = f[1]
  OBVIOUS
<1> HIDE DEF D, e
<1>4. SumOf(f) = f[2] + SumOf(e)
  BY <1>1, <1>2, SumTakeOut
<1>5. SumOf(e) = f[1]
  BY <1>3, SumOne
<1>6. QED
  BY <1>2, <1>4, <1>5

=============================================================================
