----------------------------- MODULE Sums_proof -----------------------------
(***************************************************************************)
(* What SumFunction adds up, for every finite set of workers.              *)
(*                                                                         *)
(* The conservation invariants of the fiber pools and of the internal      *)
(* allocator, and the average of the sentinel counts, are sums over the    *)
(* workers or over an array.  SumFunction is a fold whose definition takes *)
(* an arbitrary element at each step, so the order has to be shown not to  *)
(* matter.  The inductions are over sets of numbers and of finite sets,    *)
(* from the well-foundedness of the order on the natural numbers.          *)
(*                                                                         *)
(* At the end, the arithmetic of multiples that the two modules with       *)
(* failure counters share.                                                 *)
(***************************************************************************)
EXTENDS Integers, Functions, FiniteSets, FiniteSetTheorems, WellFoundedInduction, TLAPS

(* A set that has 0 and the successor of each of its numbers has them all. *)
LEMMA SetInduction ==
    ASSUME NEW T, 0 \in T, \A n \in Nat : n \in T => n + 1 \in T
    PROVE  Nat \subseteq T
<1>1. SUFFICES ASSUME Nat \ T # {} PROVE FALSE
  OBVIOUS
<1>2. PICK m \in Nat \ T : \A k \in Nat \ T : ~(<<k, m>> \in OpToRel(<, Nat))
  <2>1. Nat \ T \subseteq Nat
    OBVIOUS
  <2> QED
    BY <1>1, <2>1, NatLessThanWellFounded, WFMin, Zenon
<1>3. \A k \in Nat \ T : ~(k < m)
  BY <1>2 DEF OpToRel
<1>4. m # 0 /\ m - 1 \in Nat
  BY SMT
<1>5. m - 1 \in T
  BY <1>3, <1>4, SMT
<1>6. (m - 1) + 1 \in T
  BY <1>4, <1>5
<1> QED
  BY <1>6, SMT

(* A set T that has the empty set, and a set whenever it has what is left  *)
(* of it without any one element, has every subset of a finite set.        *)
LEMMA SubsetInduction ==
    ASSUME NEW S, IsFiniteSet(S), NEW T, {} \in T,
           \A s \in SUBSET S : s # {} /\ (\A x \in s : s \ {x} \in T) => s \in T
    PROVE  SUBSET S \subseteq T
<1> DEFINE N == {n \in Nat : \A s \in SUBSET S : Cardinality(s) = n => s \in T}
<1>1. \A s \in SUBSET S : IsFiniteSet(s) /\ Cardinality(s) \in Nat
  BY FS_Subset, FS_CardinalityType
<1>2. 0 \in N
  <2>1. \A s \in SUBSET S : Cardinality(s) = 0 => s = {}
    BY <1>1, FS_EmptySet
  <2> QED
    BY <2>1
<1>3. \A n \in Nat : n \in N => n + 1 \in N
  <2> SUFFICES ASSUME NEW n \in Nat, n \in N,
                      NEW s \in SUBSET S, Cardinality(s) = n + 1
               PROVE  s \in T
    BY SMT
  <2>1. s # {}
    BY FS_EmptySet, SMT
  <2>2. ASSUME NEW x \in s PROVE s \ {x} \in T
    <3>1. IsFiniteSet(s) /\ Cardinality(s) \in Nat
      BY <1>1
    <3>2. Cardinality(s \ {x}) = Cardinality(s) - 1
      BY <3>1, <2>2, FS_RemoveElement
    <3>3. Cardinality(s \ {x}) = n
      BY <3>2, SMT
    <3> QED
      BY <3>3
  <2> QED
    BY <2>1, <2>2
<1>4. Nat \subseteq N
  <2> HIDE DEF N
  <2> QED
    BY <1>2, <1>3, SetInduction
<1> QED
  BY <1>1, <1>4

-----------------------------------------------------------------------------
(* The element that SumFunctionOnSet adds first.                           *)
Pick(s) == CHOOSE x \in s : TRUE

(* The equation by which SumFunctionOnSet chooses its table of sums.       *)
SumEquation(g, h, D) ==
    h = [s \in D |-> IF s = {} THEN 0 ELSE g[Pick(s)] + h[s \ {Pick(s)}]]

(* The element chosen is one of the set.                                   *)
LEMMA PickIn == \A s : s # {} => Pick(s) \in s
  BY DEF Pick

(* A sum is looked up in a table that is chosen to satisfy the equation.   *)
LEMMA SumIsFixpoint ==
    ASSUME NEW g, NEW S
    PROVE  SumFunctionOnSet(g, S) = (CHOOSE h : SumEquation(g, h, SUBSET S))[S]
  BY DEF SumFunctionOnSet, FoldFunctionOnSet, MapThenFoldSet, SumEquation, Pick

(* There is such a table: tables for the sets of at most n elements extend *)
(* to tables for the sets of at most n + 1.                                *)
LEMMA FixpointExists ==
    ASSUME NEW g, NEW S, IsFiniteSet(S)
    PROVE  \E h : SumEquation(g, h, SUBSET S)
<1> DEFINE D(n) == {s \in SUBSET S : Cardinality(s) <= n}
           N == {n \in Nat : \E h : SumEquation(g, h, D(n))}
<1>1. \A s \in SUBSET S : /\ IsFiniteSet(s) /\ Cardinality(s) \in Nat
                          /\ Cardinality(s) <= Cardinality(S)
  BY FS_Subset, FS_CardinalityType
<1>2. 0 \in N
  <2> DEFINE h == [s \in D(0) |-> 0]
  <2>1. \A s \in D(0) : s = {}
    <3>1. \A s \in D(0) : Cardinality(s) = 0
      BY <1>1, SMT
    <3> QED
      BY <1>1, <3>1, FS_EmptySet
  <2>2. h = [s \in D(0) |-> IF s = {} THEN 0 ELSE g[Pick(s)] + h[s \ {Pick(s)}]]
    BY <2>1
  <2>3. SumEquation(g, h, D(0))
    BY <2>2 DEF SumEquation
  <2> QED
    BY <2>3
<1>3. \A n \in Nat : n \in N => n + 1 \in N
  <2> SUFFICES ASSUME NEW n \in Nat, n \in N
               PROVE  n + 1 \in N
    OBVIOUS
  <2>1. PICK f : SumEquation(g, f, D(n))
    OBVIOUS
  <2> DEFINE Rhs(s) == IF s = {} THEN 0 ELSE g[Pick(s)] + f[s \ {Pick(s)}]
             h == [s \in D(n + 1) |-> Rhs(s)]
  <2>2. \A s \in D(n + 1) : s # {} => s \ {Pick(s)} \in D(n)
    <3> SUFFICES ASSUME NEW s \in D(n + 1), s # {}
                 PROVE  s \ {Pick(s)} \in D(n)
      OBVIOUS
    <3>1. Pick(s) \in s /\ IsFiniteSet(s) /\ Cardinality(s) \in Nat
      BY <1>1, PickIn
    <3>2. Cardinality(s \ {Pick(s)}) = Cardinality(s) - 1
      BY <3>1, FS_RemoveElement
    <3>3. Cardinality(s \ {Pick(s)}) <= n
      BY <3>1, <3>2, SMT
    <3> QED
      BY <3>3
  <2>3. \A s \in D(n) : s \in D(n + 1) /\ h[s] = f[s]
    <3>1. \A s \in D(n) : s \in D(n + 1)
      BY <1>1, SMT
    <3>2. \A s \in D(n) : f[s] = Rhs(s)
      BY <2>1 DEF SumEquation
    <3> HIDE DEF D, Rhs
    <3> QED
      BY <3>1, <3>2
  <2>4. \A s \in D(n + 1) :
            Rhs(s) = IF s = {} THEN 0 ELSE g[Pick(s)] + h[s \ {Pick(s)}]
    <3> HIDE DEF D, h
    <3> QED
      BY <2>2, <2>3
  <2>5. SumEquation(g, h, D(n + 1))
    <3> HIDE DEF D, Rhs
    <3> QED
      BY <2>4, Zenon DEF SumEquation
  <2> QED
    <3>1. n + 1 \in Nat
      OBVIOUS
    <3> HIDE DEF D, h
    <3> QED
      BY <2>5, <3>1
<1>4. Nat \subseteq N
  <2> HIDE DEF N
  <2> QED
    BY <1>2, <1>3, SetInduction
<1>5. Cardinality(S) \in N
  BY <1>1, <1>4
<1>6. D(Cardinality(S)) = SUBSET S
  BY <1>1
<1> QED
  <2>1. \E h : SumEquation(g, h, D(Cardinality(S)))
    <3> HIDE DEF D
    <3> QED
      BY <1>5
  <2> HIDE DEF D
  <2> QED
    BY <2>1, <1>6

(* Tables for a set and for a subset of it agree on the subset.            *)
LEMMA FixpointUnique ==
    ASSUME NEW g, NEW S, IsFiniteSet(S)
    PROVE  \A R \in SUBSET S : \A h, k :
             SumEquation(g, h, SUBSET S) /\ SumEquation(g, k, SUBSET R) => h[R] = k[R]
<1> SUFFICES ASSUME NEW R \in SUBSET S,
                    NEW h, SumEquation(g, h, SUBSET S),
                    NEW k, SumEquation(g, k, SUBSET R)
             PROVE  h[R] = k[R]
  OBVIOUS
<1> DEFINE T == {s \in SUBSET R : h[s] = k[s]}
<1>1. \A s \in SUBSET R :
        /\ h[s] = IF s = {} THEN 0 ELSE g[Pick(s)] + h[s \ {Pick(s)}]
        /\ k[s] = IF s = {} THEN 0 ELSE g[Pick(s)] + k[s \ {Pick(s)}]
  BY DEF SumEquation
<1>2. {} \in T
  BY <1>1
<1>3. \A s \in SUBSET R : s # {} /\ (\A x \in s : s \ {x} \in T) => s \in T
  BY <1>1, PickIn
<1>4. IsFiniteSet(R)
  BY FS_Subset
<1>5. SUBSET R \subseteq T
  <2> HIDE DEF T
  <2> QED
    BY <1>2, <1>3, <1>4, SubsetInduction
<1> QED
  BY <1>5

(* The sum over no workers is 0.                                           *)
LEMMA SumEmpty ==
    ASSUME NEW g PROVE SumFunctionOnSet(g, {}) = 0
<1>1. \E h : SumEquation(g, h, SUBSET {})
  BY FS_EmptySet, FixpointExists
<1> DEFINE h == CHOOSE h : SumEquation(g, h, SUBSET {})
<1>2. SumEquation(g, h, SUBSET {})
  BY <1>1
<1>3. h[{}] = 0
  <2> HIDE DEF h
  <2> QED
    BY <1>2 DEF SumEquation
<1> QED
  BY <1>3, SumIsFixpoint

(* The sum takes out the chosen element, and goes on with the others.      *)
LEMMA SumPick ==
    ASSUME NEW g, NEW S, IsFiniteSet(S), S # {}
    PROVE  SumFunctionOnSet(g, S)
             = g[Pick(S)] + SumFunctionOnSet(g, S \ {Pick(S)})
<1> DEFINE R == S \ {Pick(S)}
           h == CHOOSE h : SumEquation(g, h, SUBSET S)
           k == CHOOSE k : SumEquation(g, k, SUBSET R)
<1>1. R \in SUBSET S /\ IsFiniteSet(R)
  BY FS_Subset
<1>2. SumEquation(g, h, SUBSET S) /\ SumEquation(g, k, SUBSET R)
  <2> HIDE DEF R
  <2> QED
    BY <1>1, FixpointExists
<1>3. h[R] = k[R]
  <2> HIDE DEF R, h, k
  <2> QED
    BY <1>1, <1>2, FixpointUnique
<1>4. h[S] = g[Pick(S)] + h[R]
  <2> HIDE DEF h
  <2> QED
    BY <1>2 DEF SumEquation
<1>5. SumFunctionOnSet(g, S) = h[S] /\ SumFunctionOnSet(g, R) = k[R]
  BY SumIsFixpoint
<1> QED
  BY <1>3, <1>4, <1>5

(* A sum of integers is an integer (a worker's own count of mallocs less   *)
(* frees may be negative).                                                 *)
LEMMA SumInt ==
    ASSUME NEW S, IsFiniteSet(S), NEW g, \A x \in S : g[x] \in Int
    PROVE  SumFunctionOnSet(g, S) \in Int
<1> DEFINE T == {s \in SUBSET S : SumFunctionOnSet(g, s) \in Int}
<1>1. {} \in T
  BY SumEmpty
<1>2. \A s \in SUBSET S : s # {} /\ (\A x \in s : s \ {x} \in T) => s \in T
  <2> SUFFICES ASSUME NEW s \in SUBSET S, s # {}, \A x \in s : s \ {x} \in T
               PROVE  s \in T
    OBVIOUS
  <2>1. Pick(s) \in s /\ IsFiniteSet(s)
    BY PickIn, FS_Subset
  <2>2. SumFunctionOnSet(g, s) = g[Pick(s)] + SumFunctionOnSet(g, s \ {Pick(s)})
    BY <2>1, SumPick
  <2>3. g[Pick(s)] \in Int /\ SumFunctionOnSet(g, s \ {Pick(s)}) \in Int
    BY <2>1
  <2> QED
    BY <2>2, <2>3
<1>3. SUBSET S \subseteq T
  <2> HIDE DEF T
  <2> QED
    BY <1>1, <1>2, SubsetInduction
<1> QED
  BY <1>3

(* Any element may be taken out first: the sum does not depend on the      *)
(* order in which the workers are visited.                                 *)
LEMMA SumRemove ==
    ASSUME NEW S, IsFiniteSet(S), NEW g, \A x \in S : g[x] \in Int, NEW y \in S
    PROVE  SumFunctionOnSet(g, S) = g[y] + SumFunctionOnSet(g, S \ {y})
<1> DEFINE F(s) == SumFunctionOnSet(g, s)
           T == {s \in SUBSET S : \A x \in s : F(s) = g[x] + F(s \ {x})}
<1>1. {} \in T
  OBVIOUS
<1>2. \A s \in SUBSET S : s # {} /\ (\A x \in s : s \ {x} \in T) => s \in T
  <2> SUFFICES ASSUME NEW s \in SUBSET S, s # {}, \A x \in s : s \ {x} \in T,
                      NEW x \in s
               PROVE  F(s) = g[x] + F(s \ {x})
    OBVIOUS
  <2> DEFINE p == Pick(s)
  <2>1. p \in s
    BY PickIn
  <2>2. \A u \in SUBSET S : IsFiniteSet(u) /\ F(u) \in Int
    <3> SUFFICES ASSUME NEW u \in SUBSET S PROVE IsFiniteSet(u) /\ F(u) \in Int
      OBVIOUS
    <3>1. IsFiniteSet(u)
      BY FS_Subset
    <3> QED
      BY <3>1, SumInt
  <2>3. F(s) = g[p] + F(s \ {p})
    BY <2>2, SumPick
  <2> HIDE DEF F, p
  <2>4. CASE x = p
    BY <2>3, <2>4
  <2>5. CASE x # p
    <3>1. F(s \ {p}) = g[x] + F((s \ {p}) \ {x})
      BY <2>1, <2>5
    <3>2. F(s \ {x}) = g[p] + F((s \ {x}) \ {p})
      BY <2>1, <2>5
    <3>3. (s \ {p}) \ {x} = (s \ {x}) \ {p}
      OBVIOUS
    <3>4. g[x] \in Int /\ g[p] \in Int /\ F((s \ {x}) \ {p}) \in Int
      BY <2>1, <2>2
    <3> DEFINE rest == F((s \ {x}) \ {p})
    <3>5. g[p] + (g[x] + rest) = g[x] + (g[p] + rest)
      BY <3>4
    <3> QED
      BY <2>3, <3>1, <3>2, <3>3, <3>5, Zenon
  <2> QED
    BY <2>4, <2>5
<1>3. SUBSET S \subseteq T
  <2> HIDE DEF T
  <2> QED
    BY <1>1, <1>2, SubsetInduction
<1> QED
  BY <1>3

(* The sum depends on the values at the elements of the set only.          *)
LEMMA SumAgree ==
    ASSUME NEW S, IsFiniteSet(S), NEW g, NEW h, \A x \in S : g[x] = h[x]
    PROVE  SumFunctionOnSet(g, S) = SumFunctionOnSet(h, S)
<1> DEFINE T == {s \in SUBSET S : SumFunctionOnSet(g, s) = SumFunctionOnSet(h, s)}
<1>1. {} \in T
  BY SumEmpty
<1>2. \A s \in SUBSET S : s # {} /\ (\A x \in s : s \ {x} \in T) => s \in T
  <2> SUFFICES ASSUME NEW s \in SUBSET S, s # {}, \A x \in s : s \ {x} \in T
               PROVE  s \in T
    OBVIOUS
  <2>1. Pick(s) \in s /\ IsFiniteSet(s)
    BY PickIn, FS_Subset
  <2>2. /\ SumFunctionOnSet(g, s) = g[Pick(s)] + SumFunctionOnSet(g, s \ {Pick(s)})
        /\ SumFunctionOnSet(h, s) = h[Pick(s)] + SumFunctionOnSet(h, s \ {Pick(s)})
    BY <2>1, SumPick
  <2>3. /\ g[Pick(s)] = h[Pick(s)]
        /\ SumFunctionOnSet(g, s \ {Pick(s)}) = SumFunctionOnSet(h, s \ {Pick(s)})
    BY <2>1
  <2> QED
    BY <2>2, <2>3
<1>3. SUBSET S \subseteq T
  <2> HIDE DEF T
  <2> QED
    BY <1>1, <1>2, SubsetInduction
<1> QED
  BY <1>3

(* The sum of a constant, as of the initial arrays.                        *)
LEMMA SumConstant ==
    ASSUME NEW S, IsFiniteSet(S), NEW c \in Int, NEW g, \A x \in S : g[x] = c
    PROVE  SumFunctionOnSet(g, S) = c * Cardinality(S)
<1> DEFINE T == {s \in SUBSET S : SumFunctionOnSet(g, s) = c * Cardinality(s)}
<1>1. {} \in T
  BY SumEmpty, FS_EmptySet
<1>2. \A s \in SUBSET S : s # {} /\ (\A x \in s : s \ {x} \in T) => s \in T
  <2> SUFFICES ASSUME NEW s \in SUBSET S, s # {}, \A x \in s : s \ {x} \in T
               PROVE  s \in T
    OBVIOUS
  <2>1. Pick(s) \in s /\ IsFiniteSet(s)
    BY PickIn, FS_Subset
  <2>2. SumFunctionOnSet(g, s) = g[Pick(s)] + SumFunctionOnSet(g, s \ {Pick(s)})
    BY <2>1, SumPick
  <2>3. /\ g[Pick(s)] = c
        /\ SumFunctionOnSet(g, s \ {Pick(s)}) = c * Cardinality(s \ {Pick(s)})
    BY <2>1
  <2>4. Cardinality(s) \in Nat /\ Cardinality(s \ {Pick(s)}) = Cardinality(s) - 1
    BY <2>1, FS_RemoveElement, FS_CardinalityType
  <2>5. \A n \in Nat : c + c * (n - 1) = c * n
    OBVIOUS
  <2> QED
    BY <2>2, <2>3, <2>4, <2>5
<1>3. SUBSET S \subseteq T
  <2> HIDE DEF T
  <2> QED
    BY <1>1, <1>2, SubsetInduction
<1> QED
  BY <1>3

(* A sum of natural numbers is one.                                        *)
LEMMA SumNat ==
    ASSUME NEW S, IsFiniteSet(S), NEW g, \A x \in S : g[x] \in Nat
    PROVE  SumFunctionOnSet(g, S) \in Nat
<1> DEFINE T == {s \in SUBSET S : SumFunctionOnSet(g, s) \in Nat}
<1>1. {} \in T
  BY SumEmpty
<1>2. \A s \in SUBSET S : s # {} /\ (\A x \in s : s \ {x} \in T) => s \in T
  <2> SUFFICES ASSUME NEW s \in SUBSET S, s # {}, \A x \in s : s \ {x} \in T
               PROVE  s \in T
    OBVIOUS
  <2>1. Pick(s) \in s /\ IsFiniteSet(s)
    BY PickIn, FS_Subset
  <2>2. SumFunctionOnSet(g, s) = g[Pick(s)] + SumFunctionOnSet(g, s \ {Pick(s)})
    BY <2>1, SumPick
  <2>3. g[Pick(s)] \in Nat /\ SumFunctionOnSet(g, s \ {Pick(s)}) \in Nat
    BY <2>1
  <2> QED
    BY <2>2, <2>3
<1>3. SUBSET S \subseteq T
  <2> HIDE DEF T
  <2> QED
    BY <1>1, <1>2, SubsetInduction
<1> QED
  BY <1>3

(* A sum of numbers none of which is 0 is at least the number of them.     *)
LEMMA SumAtLeast ==
    ASSUME NEW S, IsFiniteSet(S), NEW g, \A x \in S : g[x] \in Nat /\ g[x] >= 1
    PROVE  SumFunctionOnSet(g, S) >= Cardinality(S)
<1> DEFINE T == {s \in SUBSET S : SumFunctionOnSet(g, s) >= Cardinality(s)}
<1>1. {} \in T
  BY SumEmpty, FS_EmptySet
<1>2. \A s \in SUBSET S : s # {} /\ (\A x \in s : s \ {x} \in T) => s \in T
  <2> SUFFICES ASSUME NEW s \in SUBSET S, s # {}, \A x \in s : s \ {x} \in T
               PROVE  s \in T
    OBVIOUS
  <2>1. Pick(s) \in s /\ IsFiniteSet(s) /\ IsFiniteSet(s \ {Pick(s)})
    BY PickIn, FS_Subset
  <2>2. SumFunctionOnSet(g, s) = g[Pick(s)] + SumFunctionOnSet(g, s \ {Pick(s)})
    BY <2>1, SumPick
  <2>3. /\ g[Pick(s)] \in Nat /\ g[Pick(s)] >= 1
        /\ SumFunctionOnSet(g, s \ {Pick(s)}) >= Cardinality(s \ {Pick(s)})
    BY <2>1
  <2>4. SumFunctionOnSet(g, s \ {Pick(s)}) \in Nat
    BY <2>1, SumNat
  <2>5. Cardinality(s) \in Nat /\ Cardinality(s \ {Pick(s)}) = Cardinality(s) - 1
    BY <2>1, FS_RemoveElement, FS_CardinalityType
  <2> QED
    BY <2>2, <2>3, <2>4, <2>5
<1>3. SUBSET S \subseteq T
  <2> HIDE DEF T
  <2> QED
    BY <1>1, <1>2, SubsetInduction
<1> QED
  BY <1>3

-----------------------------------------------------------------------------
(* The type of a total over all workers.                                   *)
LEMMA TotalInt ==
    ASSUME NEW D, IsFiniteSet(D), NEW g \in [D -> Int]
    PROVE  SumFunction(g) \in Int
  BY SumInt DEF SumFunction

(* A total of natural numbers is at least each of them.                    *)
LEMMA TotalNat ==
    ASSUME NEW D, IsFiniteSet(D), NEW g \in [D -> Nat]
    PROVE  SumFunction(g) \in Nat /\ \A w \in D : g[w] <= SumFunction(g)
<1>1. SumFunction(g) = SumFunctionOnSet(g, D) /\ SumFunction(g) \in Nat
  BY SumNat DEF SumFunction
<1>2. ASSUME NEW w \in D PROVE g[w] <= SumFunction(g)
  <2>1. SumFunctionOnSet(g, D) = g[w] + SumFunctionOnSet(g, D \ {w})
    BY SumRemove
  <2>2. SumFunctionOnSet(g, D \ {w}) \in Nat
    <3>1. IsFiniteSet(D \ {w})
      BY FS_Subset
    <3> QED
      BY <3>1, SumNat
  <2>3. g[w] \in Nat
    OBVIOUS
  <2> QED
    BY <1>1, <2>1, <2>2, <2>3
<1> QED
  BY <1>1, <1>2

(* The total of a constant function.                                       *)
LEMMA TotalConstant ==
    ASSUME NEW D, IsFiniteSet(D), NEW c \in Int, NEW g \in [D -> Int],
           \A w \in D : g[w] = c
    PROVE  SumFunction(g) = c * Cardinality(D)
  BY SumConstant DEF SumFunction

(* The total of counts none of which is 0.                                 *)
LEMMA TotalAtLeast ==
    ASSUME NEW D, IsFiniteSet(D), NEW g \in [D -> Nat], \A w \in D : g[w] >= 1
    PROVE  SumFunction(g) >= Cardinality(D)
  BY SumAtLeast DEF SumFunction

(* What a step that changes the entry of one worker does to the total.     *)
LEMMA TotalUpdate ==
    ASSUME NEW D, IsFiniteSet(D), NEW g \in [D -> Int], NEW w \in D, NEW v \in Int
    PROVE  /\ SumFunction([g EXCEPT ![w] = v]) = SumFunction(g) - g[w] + v
           /\ SumFunction(g) \in Int
<1> DEFINE h == [g EXCEPT ![w] = v]
<1>1. h \in [D -> Int] /\ h[w] = v /\ \A x \in D \ {w} : h[x] = g[x]
  OBVIOUS
<1>2. IsFiniteSet(D \ {w})
  BY FS_Subset
<1>3. SumFunctionOnSet(g, D \ {w}) = SumFunctionOnSet(h, D \ {w})
  <2> HIDE DEF h
  <2> QED
    BY <1>1, <1>2, SumAgree
<1>4. SumFunctionOnSet(g, D) = g[w] + SumFunctionOnSet(g, D \ {w})
  BY SumRemove
<1>5. SumFunctionOnSet(h, D) = v + SumFunctionOnSet(h, D \ {w})
  <2> HIDE DEF h
  <2> QED
    BY <1>1, SumRemove
<1>6. SumFunction(g) = SumFunctionOnSet(g, D) /\ SumFunction(h) = SumFunctionOnSet(h, D)
  BY DEF SumFunction
<1>7. g[w] \in Int /\ SumFunctionOnSet(g, D \ {w}) \in Int
  BY <1>2, SumInt
<1> QED
  <2> HIDE DEF h
  <2>1. SumFunction(h) = SumFunction(g) - g[w] + v /\ SumFunction(g) \in Int
    BY <1>3, <1>4, <1>5, <1>6, <1>7
  <2> QED
    BY <2>1 DEF h

(* The number of workers whose entry is a.                                 *)
HowMany(D, f, a) == Cardinality({v \in D : f[v] = a})

(* It is a natural number, whatever the entries are.                       *)
LEMMA CountType ==
    ASSUME NEW D, IsFiniteSet(D)
    PROVE  \A f, a : HowMany(D, f, a) \in Nat
<1> SUFFICES ASSUME NEW f, NEW a
             PROVE  HowMany(D, f, a) \in Nat
  OBVIOUS
<1>1. IsFiniteSet({v \in D : f[v] = a})
  BY FS_Subset
<1> QED
  BY <1>1, FS_CardinalityType DEF HowMany

(* What a step that changes the entry of one worker does to the number of  *)
(* workers whose entry is a, such as those at one program point.           *)
LEMMA CountUpdate ==
    ASSUME NEW D, IsFiniteSet(D), NEW f, NEW h, NEW w \in D, NEW a,
           \A x \in D \ {w} : h[x] = f[x]
    PROVE  /\ HowMany(D, f, a) \in Nat
           /\ (f[w] = a <=> h[w] = a) => HowMany(D, h, a) = HowMany(D, f, a)
           /\ f[w] = a /\ h[w] # a => HowMany(D, h, a) = HowMany(D, f, a) - 1
           /\ f[w] # a /\ h[w] = a => HowMany(D, h, a) = HowMany(D, f, a) + 1
<1> DEFINE A == {v \in D : f[v] = a}
           B == {v \in D : h[v] = a}
<1>1. /\ IsFiniteSet(A) /\ IsFiniteSet(B)
      /\ Cardinality(A) \in Nat /\ Cardinality(B) \in Nat
  BY FS_Subset, FS_CardinalityType
<1>2. B \ {w} = A \ {w} /\ (w \in A <=> f[w] = a) /\ (w \in B <=> h[w] = a)
  OBVIOUS
<1>3. /\ Cardinality(A \ {w}) = IF w \in A THEN Cardinality(A) - 1 ELSE Cardinality(A)
      /\ Cardinality(B \ {w}) = IF w \in B THEN Cardinality(B) - 1 ELSE Cardinality(B)
  <2> HIDE DEF A, B
  <2> QED
    BY <1>1, FS_RemoveElement
<1>4. HowMany(D, f, a) = Cardinality(A) /\ HowMany(D, h, a) = Cardinality(B)
  BY DEF HowMany
<1> HIDE DEF A, B
<1>5. (w \in A <=> w \in B) => Cardinality(B) = Cardinality(A)
  BY <1>1, <1>2, <1>3
<1>6. w \in A /\ w \notin B => Cardinality(B) = Cardinality(A) - 1
  BY <1>1, <1>2, <1>3
<1>7. w \notin A /\ w \in B => Cardinality(B) = Cardinality(A) + 1
  BY <1>1, <1>2, <1>3
<1> QED
  BY <1>1, <1>2, <1>4, <1>5, <1>6, <1>7

(* a is a multiple of b, without the % that the provers handle badly.      *)
Multiple(a, b) == \E q \in Nat : a = b * q

(* It is what the tests in handle_failed_steal_attempts say with %.        *)
LEMMA MultipleMod ==
    ASSUME NEW a \in Nat, NEW b \in Nat \ {0}
    PROVE  Multiple(a, b) <=> a % b = 0
<1>1. a \div b \in Nat /\ a = b * (a \div b) + (a % b)
  BY SMT
<1>2. ASSUME NEW q \in Nat PROVE (b * q) % b = 0
  BY SMT
<1>3. a % b = 0 => a = b * (a \div b)
  BY <1>1, SMT
<1> QED
  BY <1>1, <1>2, <1>3, Zenon DEF Multiple

(* Sums and differences of multiples, and the gap between two of them.     *)
LEMMA MultipleSum ==
    ASSUME NEW a \in Nat, NEW c \in Nat, NEW b \in Nat \ {0},
           Multiple(a, b), Multiple(c, b)
    PROVE  /\ Multiple(a + c, b)
           /\ c <= a => Multiple(a - c, b)
           /\ a < c => a + b <= c
<1>1. PICK p \in Nat : a = b * p
  BY DEF Multiple
<1>2. PICK q \in Nat : c = b * q
  BY DEF Multiple
<1>3. a + c = b * (p + q) /\ a - c = b * (p - q) /\ p + q \in Nat
  BY <1>1, <1>2, SMT
<1>4. c <= a => p - q \in Nat
  <2>1. q > p => b * q > b * p
    BY SMT
  <2> QED
    BY <1>1, <1>2, <2>1, SMT
<1>5. a < c => a + b <= c
  <2>1. CASE p >= q
    <3>1. b * p >= b * q
      BY <2>1, SMT
    <3> QED
      BY <3>1, <1>1, <1>2, SMT
  <2>2. CASE q >= p + 1
    <3>1. b * q >= b * p + b
      <4>1. b * q = b * (p + 1) + b * (q - (p + 1))
        BY SMT
      <4>2. b * (q - (p + 1)) >= 0
        BY <2>2, SMT
      <4>3. b * (p + 1) = b * p + b
        BY SMT
      <4> QED
        BY <4>1, <4>2, <4>3, SMT
    <3> QED
      BY <3>1, <1>1, <1>2, SMT
  <2> QED
    BY <2>1, <2>2, SMT
<1> QED
  BY <1>3, <1>4, <1>5 DEF Multiple

(* The multiples of any b begin with 0 and b.                              *)
LEMMA MultipleSelf ==
    \A b \in Nat \ {0} : Multiple(0, b) /\ Multiple(b, b)
<1>1. \A b \in Nat \ {0} : 0 = b * 0 /\ b = b * 1
  OBVIOUS
<1> QED
  BY <1>1 DEF Multiple

(* A multiple of a multiple is a multiple.                                 *)
LEMMA MultipleTrans ==
    ASSUME NEW a \in Nat, NEW b \in Nat, NEW c \in Nat,
           Multiple(a, b), Multiple(b, c)
    PROVE  Multiple(a, c)
<1>1. PICK p \in Nat : a = b * p
  BY DEF Multiple
<1>2. PICK q \in Nat : b = c * q
  BY DEF Multiple
<1>3. (c * q) * p = c * (q * p) /\ q * p \in Nat
  BY SMT
<1> QED
  BY <1>1, <1>2, <1>3 DEF Multiple

=============================================================================
