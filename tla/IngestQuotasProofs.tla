------------------------- MODULE IngestQuotasProofs -------------------------
(***************************************************************************)
(* Theorems of IngestQuotas, for any number of processes, requests and     *)
(* quotas: what requests hold is in the rows or still to be written to     *)
(* them, and a process lets nothing through above a limit.                 *)
(***************************************************************************)
EXTENDS IngestQuotas, FiniteSetTheorems, WellFoundedInduction, TLAPS

-----------------------------------------------------------------------------
(* Sums of functions over finite sets, by induction on their subsets.      *)

\* A set of numbers with 0 and the successor of each of its numbers has them all.
LEMMA NumbersByInduction ==
  ASSUME NEW T, 0 \in T, \A n \in Nat : n \in T => n + 1 \in T
  PROVE  Nat \subseteq T
<1> DEFINE U == Nat \ T
<1> SUFFICES ASSUME U # {} PROVE FALSE
  OBVIOUS
<1> DEFINE Below == {pair \in Nat \X Nat : pair[1] < pair[2]}
<1>1. IsWellFoundedOn(Below, Nat)
  BY NatLessThanWellFounded DEF OpToRel
<1>2. PICK n \in U : \A m \in U : ~ (<<m, n>> \in Below)
  <2> HIDE DEF Below
  <2> QED BY <1>1, WFMin
<1>3. n \in Nat /\ n # 0 /\ n - 1 \in Nat /\ n - 1 < n
  OBVIOUS
<1>4. n - 1 \in T
  BY <1>2, <1>3
<1> QED
  BY <1>3, <1>4

\* So has a set of sets with {}, and with each set whose elements can be taken out.
LEMMA SubsetsByInduction ==
  ASSUME NEW S, IsFiniteSet(S), NEW T,
         {} \in T,
         \A s \in SUBSET S : s # {} /\ (\A x \in s : s \ {x} \in T) => s \in T
  PROVE  SUBSET S \subseteq T
<1> DEFINE N == {n \in Nat : \A s \in SUBSET S : Cardinality(s) = n => s \in T}
<1>1. \A s \in SUBSET S : IsFiniteSet(s) /\ Cardinality(s) \in Nat
  BY FS_Subset, FS_CardinalityType
<1>2. 0 \in N
  BY <1>1, FS_EmptySet
<1>3. ASSUME NEW n \in Nat, n \in N  PROVE n + 1 \in N
  <2> SUFFICES ASSUME NEW s \in SUBSET S, Cardinality(s) = n + 1  PROVE s \in T
    OBVIOUS
  <2>1. s # {}
    <3>1. Cardinality({}) = 0
      BY FS_EmptySet
    <3> QED BY <3>1
  <2>2. ASSUME NEW x \in s  PROVE s \ {x} \in T
    BY <1>1, <1>3, FS_RemoveElement
  <2> QED
    BY <2>1, <2>2
<1>4. Nat \subseteq N
  <2> HIDE DEF N
  <2> QED BY <1>2, <1>3, NumbersByInduction
<1> QED
  BY <1>1, <1>4

-----------------------------------------------------------------------------
Pick(s) == CHOOSE x \in s : TRUE
Unfold(g, f, s) == IF s = {} THEN 0 ELSE g[Pick(s)] + f[s \ {Pick(s)}]
Partial(g, S) == CHOOSE f : f = [s \in SUBSET S |-> Unfold(g, f, s)]

LEMMA SumIsPartial ==
  ASSUME NEW g, NEW S  PROVE SumFunctionOnSet(g, S) = Partial(g, S)[S]
BY DEF SumFunctionOnSet, FoldFunctionOnSet, MapThenFoldSet, Partial, Unfold, Pick

LEMMA PickIn == ASSUME NEW s, s # {}  PROVE Pick(s) \in s
BY DEF Pick

LEMMA PartialUnfolds ==
  ASSUME NEW S, IsFiniteSet(S), NEW g
  PROVE  /\ Partial(g, S)[{}] = 0
         /\ \A s \in SUBSET S : s # {} => Partial(g, S)[s] = g[Pick(s)] + Partial(g, S)[s \ {Pick(s)}]
<1> DEFINE F(n) == {s \in SUBSET S : Cardinality(s) <= n}
           Upto(n, f) == f = [s \in F(n) |-> Unfold(g, f, s)]
           N == {n \in Nat : \E f : Upto(n, f)}
<1>1. \A s \in SUBSET S : IsFiniteSet(s) /\ Cardinality(s) \in Nat
  BY FS_Subset, FS_CardinalityType
<1>2. 0 \in N
  <2> DEFINE f == [s \in F(0) |-> 0]
  <2>1. \A s \in F(0) : s = {}
    BY <1>1, FS_EmptySet
  <2>2. f = [s \in F(0) |-> Unfold(g, f, s)]
    BY <2>1 DEF Unfold
  <2> QED
    BY <2>2
<1>3. ASSUME NEW n \in Nat, n \in N  PROVE n + 1 \in N
  <2>1. PICK f : Upto(n, f)
    BY <1>3
  <2> DEFINE h == [s \in F(n + 1) |-> Unfold(g, f, s)]
  <2>2. \A s \in F(n) : s \in F(n + 1) /\ h[s] = f[s]
    BY <2>1, <1>1
  <2>3. \A s \in F(n + 1) : s # {} => s \ {Pick(s)} \in F(n)
    BY <1>1, FS_RemoveElement, PickIn
  <2>4. \A s \in F(n + 1) : h[s] = Unfold(g, h, s)
    <3> TAKE s \in F(n + 1)
    <3> HIDE DEF F
    <3>1. CASE s = {}
      BY <3>1 DEF Unfold
    <3>2. CASE s # {}
      <4>1. h[s \ {Pick(s)}] = f[s \ {Pick(s)}]
        BY <2>2, <2>3, <3>2
      <4> QED BY <3>2, <4>1 DEF Unfold
    <3> QED BY <3>1, <3>2
  <2>5. h = [s \in F(n + 1) |-> Unfold(g, h, s)]
    <3> HIDE DEF F
    <3> QED BY <2>4
  <2>6. \E e : Upto(n + 1, e)
    <3>1. Upto(n + 1, h)
      BY <2>5
    <3> HIDE DEF Upto, h
    <3> QED BY <3>1
  <2> QED
    BY <2>6, SMTT(20)
<1>4. Cardinality(S) \in N
  <2> HIDE DEF N
  <2> QED BY <1>2, <1>3, NumbersByInduction, FS_CardinalityType
<1>5. F(Cardinality(S)) = SUBSET S
  BY FS_Subset, FS_CardinalityType
<1>6. \E f : f = [s \in SUBSET S |-> Unfold(g, f, s)]
  BY <1>4, <1>5
<1>7. Partial(g, S) = [s \in SUBSET S |-> Unfold(g, Partial(g, S), s)]
  BY <1>6 DEF Partial
<1> QED
  <2> HIDE DEF F
  <2>1. \A s \in SUBSET S : Partial(g, S)[s] = Unfold(g, Partial(g, S), s)
    BY <1>7
  <2> QED BY <2>1 DEF Unfold

-----------------------------------------------------------------------------
LEMMA PartialType ==
  ASSUME NEW S, IsFiniteSet(S), NEW g \in [S -> Int]
  PROVE  \A s \in SUBSET S : Partial(g, S)[s] \in Int
<1> DEFINE T == {s \in SUBSET S : Partial(g, S)[s] \in Int}
<1>1. {} \in T
  BY PartialUnfolds
<1>2. ASSUME NEW s \in SUBSET S, s # {}, \A x \in s : s \ {x} \in T  PROVE s \in T
  <2>1. Pick(s) \in s
    BY <1>2, PickIn
  <2>2. g[Pick(s)] \in Int
    BY <2>1
  <2>3. Partial(g, S)[s] = g[Pick(s)] + Partial(g, S)[s \ {Pick(s)}]
    BY <1>2, PartialUnfolds
  <2>4. s \ {Pick(s)} \in T
    BY <1>2, <2>1
  <2> QED
    BY <2>2, <2>3, <2>4
<1>3. SUBSET S \subseteq T
  <2> HIDE DEF T
  <2> QED BY <1>1, <1>2, SubsetsByInduction
<1> QED
  BY <1>3

LEMMA PartialChange ==
  ASSUME NEW S, IsFiniteSet(S), NEW g \in [S -> Int], NEW h \in [S -> Int], NEW a \in S,
         \A x \in S : x # a => h[x] = g[x]
  PROVE  \A s \in SUBSET S :
           Partial(h, S)[s] = Partial(g, S)[s] + (IF a \in s THEN h[a] - g[a] ELSE 0)
<1> DEFINE Changed(s) == Partial(h, S)[s] = Partial(g, S)[s] + (IF a \in s THEN h[a] - g[a] ELSE 0)
           T == {s \in SUBSET S : Changed(s)}
<1>1. {} \in T
  BY PartialUnfolds
<1>2. ASSUME NEW s \in SUBSET S, s # {}, \A x \in s : s \ {x} \in T  PROVE s \in T
  <2> DEFINE e == Pick(s)
  <2>1. e \in s
    BY <1>2, PickIn
  <2>2. Partial(g, S)[s] = g[e] + Partial(g, S)[s \ {e}]
    <3> HIDE DEF T
    <3> QED BY <1>2, PartialUnfolds
  <2>3. Partial(h, S)[s] = h[e] + Partial(h, S)[s \ {e}]
    <3> HIDE DEF T
    <3> QED BY <1>2, PartialUnfolds
  <2>4. Changed(s \ {e})
    BY <1>2, <2>1
  <2>5. Partial(g, S)[s \ {e}] \in Int /\ g[e] \in Int /\ h[e] \in Int /\ g[a] \in Int /\ h[a] \in Int
    BY PartialType, <2>1
  <2> HIDE DEF e
  <2>6. CASE e = a
    BY <2>1, <2>2, <2>3, <2>4, <2>5, <2>6
  <2>7. CASE e # a
    BY <2>1, <2>2, <2>3, <2>4, <2>5, <2>7
  <2> QED
    BY <2>6, <2>7
<1>3. SUBSET S \subseteq T
  <2> HIDE DEF T
  <2> QED BY <1>1, <1>2, SubsetsByInduction
<1> QED
  BY <1>3

LEMMA PartialNat ==
  ASSUME NEW S, IsFiniteSet(S), NEW g \in [S -> Nat]
  PROVE  \A s \in SUBSET S : Partial(g, S)[s] \in Nat
<1> DEFINE T == {s \in SUBSET S : Partial(g, S)[s] \in Nat}
<1>1. {} \in T
  BY PartialUnfolds
<1>2. ASSUME NEW s \in SUBSET S, s # {}, \A x \in s : s \ {x} \in T  PROVE s \in T
  <2>1. Pick(s) \in s
    BY <1>2, PickIn
  <2>2. g[Pick(s)] \in Nat
    BY <2>1
  <2>3. Partial(g, S)[s] = g[Pick(s)] + Partial(g, S)[s \ {Pick(s)}]
    BY <1>2, PartialUnfolds, SMTT(20)
  <2>4. s \ {Pick(s)} \in T
    BY <1>2, <2>1
  <2> QED
    BY <2>2, <2>3, <2>4
<1>3. SUBSET S \subseteq T
  <2> HIDE DEF T
  <2> QED BY <1>1, <1>2, SubsetsByInduction
<1> QED
  BY <1>3

LEMMA PartialZero ==
  ASSUME NEW S, IsFiniteSet(S), NEW g, \A x \in S : g[x] = 0
  PROVE  \A s \in SUBSET S : Partial(g, S)[s] = 0
<1> DEFINE T == {s \in SUBSET S : Partial(g, S)[s] = 0}
<1>1. {} \in T
  BY PartialUnfolds
<1>2. ASSUME NEW s \in SUBSET S, s # {}, \A x \in s : s \ {x} \in T  PROVE s \in T
  <2>1. Pick(s) \in s
    BY <1>2, PickIn
  <2>2. g[Pick(s)] = 0
    BY <2>1
  <2>3. Partial(g, S)[s] = g[Pick(s)] + Partial(g, S)[s \ {Pick(s)}]
    BY <1>2, PartialUnfolds
  <2>4. s \ {Pick(s)} \in T
    BY <1>2, <2>1
  <2> QED
    BY <2>2, <2>3, <2>4
<1>3. SUBSET S \subseteq T
  <2> HIDE DEF T
  <2> QED BY <1>1, <1>2, SubsetsByInduction
<1> QED
  BY <1>3

-----------------------------------------------------------------------------
LEMMA SumType ==
  ASSUME NEW S, IsFiniteSet(S), NEW g \in [S -> Int]
  PROVE  SumFunction(g) \in Int
BY PartialType, SumIsPartial DEF SumFunction

LEMMA SumChange ==
  ASSUME NEW S, IsFiniteSet(S), NEW g \in [S -> Int], NEW h \in [S -> Int], NEW a \in S,
         \A x \in S : x # a => h[x] = g[x]
  PROVE  SumFunction(h) = SumFunction(g) + h[a] - g[a]
<1>1. SumFunction(h) = Partial(h, S)[S] /\ SumFunction(g) = Partial(g, S)[S]
  BY SumIsPartial DEF SumFunction
<1>2. Partial(h, S)[S] = Partial(g, S)[S] + (h[a] - g[a])
  BY PartialChange
<1>3. Partial(g, S)[S] \in Int /\ h[a] \in Int /\ g[a] \in Int
  BY PartialType
<1> QED
  BY <1>1, <1>2, <1>3

LEMMA SumZero ==
  ASSUME NEW S, IsFiniteSet(S), NEW g \in [S -> Int], \A x \in S : g[x] = 0
  PROVE  SumFunction(g) = 0
BY PartialZero, SumIsPartial DEF SumFunction

\* A sum of natural numbers is no less than any of them.
LEMMA SumBounds ==
  ASSUME NEW S, IsFiniteSet(S), NEW g \in [S -> Nat], NEW a \in S
  PROVE  g[a] <= SumFunction(g) /\ SumFunction(g) \in Nat
<1> DEFINE h == [g EXCEPT ![a] = 0]
<1>1. h \in [S -> Nat] /\ h \in [S -> Int] /\ g \in [S -> Int] /\ h[a] = 0 /\ \A x \in S : x # a => h[x] = g[x]
  OBVIOUS
<1>2. SumFunction(h) = SumFunction(g) + h[a] - g[a]
  <2> HIDE DEF h
  <2> QED BY <1>1, SumChange
<1>3. SumFunction(h) \in Nat
  <2> HIDE DEF h
  <2> QED BY <1>1, PartialNat, SumIsPartial DEF SumFunction
<1>4. SumFunction(g) \in Nat
  BY PartialNat, SumIsPartial DEF SumFunction
<1> QED
  <2> HIDE DEF h
  <2> QED BY <1>1, <1>2, <1>3, <1>4

\* What the others add is not negative.
LEMMA SumAtLeast ==
  ASSUME NEW S, IsFiniteSet(S), NEW g \in [S -> Int], NEW a \in S, \A x \in S : x # a => g[x] >= 0
  PROVE  SumFunction(g) >= g[a]
<1> DEFINE h == [g EXCEPT ![a] = 0]
<1>1. h \in [S -> Nat] /\ h \in [S -> Int] /\ h[a] = 0 /\ \A x \in S : x # a => h[x] = g[x]
  OBVIOUS
<1>2. SumFunction(h) = SumFunction(g) + h[a] - g[a] /\ SumFunction(h) \in Nat /\ SumFunction(g) \in Int
  <2> HIDE DEF h
  <2> QED BY <1>1, SumChange, SumBounds, SumType
<1> QED
  <2> HIDE DEF h
  <2> QED BY <1>1, <1>2

LEMMA SumAdds ==
  ASSUME NEW S, IsFiniteSet(S), NEW f \in [S -> Int], NEW g \in [S -> Int], NEW h \in [S -> Int],
         \A x \in S : h[x] = f[x] + g[x]
  PROVE  SumFunction(h) = SumFunction(f) + SumFunction(g)
<1> DEFINE Adds(s) == Partial(h, S)[s] = Partial(f, S)[s] + Partial(g, S)[s]
           T == {s \in SUBSET S : Adds(s)}
<1>0. \A e : /\ Partial(e, S)[{}] = 0
             /\ \A s \in SUBSET S : s # {} => Partial(e, S)[s] = e[Pick(s)] + Partial(e, S)[s \ {Pick(s)}]
  BY PartialUnfolds
<1>1. {} \in T
  BY PartialUnfolds
<1>2. ASSUME NEW s \in SUBSET S, s # {}, \A x \in s : s \ {x} \in T  PROVE s \in T
  <2>1. Pick(s) \in s
    BY <1>2, PickIn
  <2>2. /\ Partial(f, S)[s] = f[Pick(s)] + Partial(f, S)[s \ {Pick(s)}]
        /\ Partial(g, S)[s] = g[Pick(s)] + Partial(g, S)[s \ {Pick(s)}]
        /\ Partial(h, S)[s] = h[Pick(s)] + Partial(h, S)[s \ {Pick(s)}]
    BY <1>0, <1>2
  <2>3. s \ {Pick(s)} \in T
    BY <1>2, <2>1
  <2>4. /\ Partial(f, S)[s \ {Pick(s)}] \in Int /\ Partial(g, S)[s \ {Pick(s)}] \in Int
        /\ f[Pick(s)] \in Int /\ g[Pick(s)] \in Int /\ h[Pick(s)] = f[Pick(s)] + g[Pick(s)]
    BY <2>1, PartialType
  <2> QED
    BY <2>2, <2>3, <2>4
<1>3. SUBSET S \subseteq T
  <2> HIDE DEF T
  <2> QED BY <1>1, <1>2, SubsetsByInduction
<1>4. Adds(S)
  BY <1>3
<1> QED
  BY <1>4, SumIsPartial DEF SumFunction

\* Adding up class by class.
LEMMA SumByClass ==
  ASSUME NEW S, IsFiniteSet(S), NEW C, IsFiniteSet(C), NEW m \in [S -> C], NEW g \in [S -> Int]
  PROVE  SumFunction(g) = SumFunction([p \in C |-> SumFunction([x \in S |-> IF m[x] = p THEN g[x] ELSE 0])])
<1> DEFINE Of(s) == [x \in S |-> IF x \in s THEN g[x] ELSE 0]
           In(s, p) == [x \in S |-> IF m[x] = p THEN Of(s)[x] ELSE 0]
           Classes(s) == [p \in C |-> SumFunction(In(s, p))]
           T == {s \in SUBSET S : SumFunction(Of(s)) = SumFunction(Classes(s))}
<1>1. \A s \in SUBSET S : Of(s) \in [S -> Int] /\ \A p \in C : In(s, p) \in [S -> Int]
  OBVIOUS
<1>2. \A s \in SUBSET S, p \in C : SumFunction(In(s, p)) \in Int
  <2> HIDE DEF In
  <2> QED BY <1>1, SumType
<1>3. \A s \in SUBSET S : Classes(s) \in [C -> Int]
  <2> HIDE DEF In
  <2> QED BY <1>2
<1>4. {} \in T
  <2>1. SumFunction(Of({})) = 0
    <3>1. \A x \in S : Of({})[x] = 0
      OBVIOUS
    <3> HIDE DEF Of
    <3> QED BY <1>1, <3>1, SumZero
  <2>2. \A p \in C : SumFunction(In({}, p)) = 0
    <3>1. \A p \in C, x \in S : In({}, p)[x] = 0
      OBVIOUS
    <3> HIDE DEF In
    <3> QED BY <1>1, <3>1, SumZero
  <2>3. \A p \in C : Classes({})[p] = 0
    <3> HIDE DEF In
    <3> QED BY <2>2
  <2>4. SumFunction(Classes({})) = 0
    <3> HIDE DEF Classes
    <3> QED BY <1>3, <2>3, SumZero
  <2> HIDE DEF Of, Classes
  <2> QED BY <2>1, <2>4
<1>5. ASSUME NEW s \in SUBSET S, s # {}, \A x \in s : s \ {x} \in T  PROVE s \in T
  <2>1. PICK a \in s : TRUE
    BY <1>5
  <2> DEFINE t == s \ {a}
             q == m[a]
  <2>2. t \in SUBSET S /\ a \in S /\ q \in C /\ g[a] \in Int /\ t \in T
    BY <1>5, <2>1
  <2>3. /\ Of(s)[a] = g[a] /\ Of(t)[a] = 0 /\ \A x \in S : x # a => Of(s)[x] = Of(t)[x]
        /\ In(s, q)[a] = g[a] /\ In(t, q)[a] = 0 /\ \A x \in S : x # a => In(s, q)[x] = In(t, q)[x]
    BY <2>1, <2>2
  <2>4. \A p \in C : p # q => In(s, p) = In(t, p)
    BY <2>2
  <2>5. SumFunction(Of(s)) = SumFunction(Of(t)) + Of(s)[a] - Of(t)[a]
    <3> HIDE DEF Of, T, t
    <3> QED BY <1>1, <2>2, <2>3, SumChange
  <2>6. SumFunction(In(s, q)) = SumFunction(In(t, q)) + In(s, q)[a] - In(t, q)[a]
    <3> HIDE DEF In, T, t, q
    <3> QED BY <1>1, <2>2, <2>3, SumChange
  <2>7. Classes(s)[q] = Classes(t)[q] + g[a] /\ \A p \in C : p # q => Classes(s)[p] = Classes(t)[p]
    <3>1. Classes(s)[q] = SumFunction(In(s, q)) /\ Classes(t)[q] = SumFunction(In(t, q))
      BY <2>2
    <3>2. \A p \in C : p # q => Classes(s)[p] = Classes(t)[p]
      <4> HIDE DEF In, t, q
      <4> QED BY <2>4
    <3>3. SumFunction(In(t, q)) \in Int /\ In(s, q)[a] = g[a] /\ In(t, q)[a] = 0
      BY <1>2, <2>2, <2>3
    <3> HIDE DEF In, Classes, t, q, T
    <3> QED BY <2>2, <2>6, <3>1, <3>2, <3>3
  <2>8. SumFunction(Classes(s)) = SumFunction(Classes(t)) + Classes(s)[q] - Classes(t)[q]
    <3> HIDE DEF Classes, T, t, q
    <3> QED BY <1>3, <2>2, <2>7, SumChange
  <2>9. SumFunction(Of(t)) \in Int /\ SumFunction(Of(t)) = SumFunction(Classes(t))
        /\ Classes(t)[q] \in Int /\ Of(s)[a] = g[a] /\ Of(t)[a] = 0
    <3>1. SumFunction(Of(t)) = SumFunction(Classes(t))
      BY <2>2
    <3>2. SumFunction(Of(t)) \in Int
      <4> HIDE DEF Of, t, T
      <4> QED BY <1>1, <2>2, SumType
    <3>3. Classes(t)[q] \in Int
      <4> HIDE DEF Classes, t, T, q
      <4> QED BY <1>3, <2>2
    <3>4. Of(s)[a] = g[a] /\ Of(t)[a] = 0
      BY <2>3
    <3> HIDE DEF Of, Classes, t, q
    <3> QED BY <3>1, <3>2, <3>3, <3>4
  <2>10. SumFunction(Of(s)) = SumFunction(Classes(s))
    <3> HIDE DEF Of, Classes, t, q
    <3> QED BY <2>2, <2>5, <2>7, <2>8, <2>9
  <2> HIDE DEF Of, Classes
  <2> QED BY <2>10
<1>6. SUBSET S \subseteq T
  <2> HIDE DEF T
  <2> QED BY <1>4, <1>5, SubsetsByInduction
<1>7. SumFunction(Of(S)) = SumFunction(Classes(S))
  BY <1>6
<1>8. Of(S) = g
  OBVIOUS
<1>9. \A p \in C : In(S, p) = [x \in S |-> IF m[x] = p THEN g[x] ELSE 0]
  OBVIOUS
<1>10. Classes(S) = [p \in C |-> SumFunction([x \in S |-> IF m[x] = p THEN g[x] ELSE 0])]
  <2> HIDE DEF In
  <2> QED BY <1>9
<1> HIDE DEF Of, Classes
<1> QED
  BY <1>7, <1>8, <1>10

-----------------------------------------------------------------------------
(* The inductive invariant                                                 *)

\* What a process forgets is as if it had never been.
Forgotten == \A p \in Process, c \in Row : ~entry[p][c].kept => entry[p][c] = NoEntry

\* Where a request is in its quotas, and the entries it counts on.
RequestPlaced(r) ==
  /\ req[r].next <= Len(Asks[r]) + 1
  /\ req[r].phase \in {"ask", "wait", "woken"} => req[r].next <= Len(Asks[r])
  /\ req[r].phase \in {"wait", "woken"} =>
       /\ req[r].row \in Row
       /\ req[r].row[1] = Asks[r][req[r].next]
       /\ entry[ProcessOf[r]][req[r].row].kept
  /\ req[r].phase = "wait" => Refreshing(ProcessOf[r], req[r].row)
  /\ \A c \in req[r].got :
       /\ \E i \in 1..(req[r].next - 1) : i <= Len(Asks[r]) /\ Asks[r][i] = c[1]
       /\ ~Ended(c) => entry[ProcessOf[r]][c].kept

\* A write is about entries the process keeps.
UnderWay == {"sent", "stored"}
WritePlaced(p, s) ==
  /\ s \in Row /\ write[p][s].phase # "idle" => entry[p][s].kept
  /\ s \in Row /\ write[p][s].phase \in UnderWay => write[p][s].rows = {s}
  /\ s = Flush => write[p][s].phase # "waiting"
  /\ write[p][s].phase \in UnderWay =>
       \A c \in Row : IF c \in write[p][s].rows THEN entry[p][c].kept ELSE write[p][s].units[c] = 0

Placed ==
  /\ Forgotten
  /\ \A r \in Request : RequestPlaced(r)
  /\ \A p \in Process, s \in Writer : WritePlaced(p, s)

-----------------------------------------------------------------------------
(* Types                                                                   *)

LEMMA ReplaceTwo ==
  ASSUME NEW A, NEW B, NEW T, NEW f \in [A -> [B -> T]], NEW a \in A, NEW b \in B, NEW v \in T
  PROVE  [f EXCEPT ![a][b] = v] \in [A -> [B -> T]]
OBVIOUS

LEMMA EmptyType ==
  /\ Zero \in [Row -> Int]
  /\ NoEntry \in Entry
  /\ NewEntry \in Entry
  /\ NoWrite \in Write
<1>1. Zero \in [Row -> Int]
  BY DEF Zero
<1>2. NoEntry \in Entry /\ NewEntry \in Entry
  BY DEF NoEntry, NewEntry, Entry, Age
<1>3. NoWrite \in Write
  BY <1>1 DEF NoWrite, Write
<1> QED
  BY <1>1, <1>2, <1>3

\* What the code changes of an entry.
LEMMA EntryMade ==
  ASSUME NEW kept \in BOOLEAN, NEW known \in Int, NEW pending \in Int, NEW read \in Age
  PROVE  [kept |-> kept, known |-> known, pending |-> pending, read |-> read] \in Entry
BY DEF Entry

LEMMA EntryChange ==
  ASSUME NEW e \in Entry, NEW n \in Int
  PROVE  /\ [e EXCEPT !.pending = @ - n] \in Entry
         /\ [e EXCEPT !.pending = @ + n] \in Entry
         /\ [e EXCEPT !.read = "stale"] \in Entry
<1>1. ASSUME NEW m \in Int  PROVE [e EXCEPT !.pending = m] \in Entry
  BY DEF Entry, Age
<1>2. e.pending - n \in Int /\ e.pending + n \in Int
  BY DEF Entry
<1>3. [e EXCEPT !.pending = e.pending - n] \in Entry /\ [e EXCEPT !.pending = e.pending + n] \in Entry
  BY <1>1, <1>2
<1>4. [e EXCEPT !.read = "stale"] \in Entry
  BY DEF Entry, Age
<1> QED
  BY <1>3, <1>4

LEMMA WriteChange ==
  ASSUME NEW w \in Write
  PROVE  /\ [w EXCEPT !.phase = "waiting"] \in Write
         /\ \A total \in [Row -> Int] : [w EXCEPT !.phase = "stored", !.total = total] \in Write
BY DEF Write

LEMMA RequestChange ==
  ASSUME NEW e \in RequestState, NEW phase \in {"ask", "wait", "woken", "key", "admitted", "refused", "thrown"}
  PROVE  /\ [e EXCEPT !.phase = phase] \in RequestState
         /\ [e EXCEPT !.phase = phase, !.got = {}] \in RequestState
         /\ [e EXCEPT !.phase = phase, !.row = <<>>, !.got = {}] \in RequestState
         /\ \A c \in Row : [e EXCEPT !.phase = phase, !.row = c] \in RequestState
         /\ \A c \in Row : [phase |-> phase, next |-> e.next + 1, row |-> <<>>, got |-> e.got \union {c}] \in RequestState
<1>1. [e EXCEPT !.phase = phase] \in RequestState
  BY DEF RequestState
<1>2. [e EXCEPT !.phase = phase, !.got = {}] \in RequestState
  BY DEF RequestState
<1>3. [e EXCEPT !.phase = phase, !.row = <<>>, !.got = {}] \in RequestState
  BY DEF RequestState
<1>4. ASSUME NEW c \in Row  PROVE [e EXCEPT !.phase = phase, !.row = c] \in RequestState
  BY DEF RequestState
<1>5. ASSUME NEW c \in Row
      PROVE  [phase |-> phase, next |-> e.next + 1, row |-> <<>>, got |-> e.got \union {c}] \in RequestState
  <2>1. e.next + 1 \in Nat \ {0} /\ e.got \union {c} \in SUBSET Row
    BY DEF RequestState
  <2> QED BY <2>1 DEF RequestState
<1> QED
  BY <1>1, <1>2, <1>3, <1>4, <1>5

USE ApproximateQuotasAssumption, IngestQuotasAssumption

LEMMA RowFacts ==
  /\ \A c \in Row : c[1] \in Quota /\ c[2] \in 1..Windows /\ c \in Writer /\ c # Flush
  /\ \A q \in Quota, w \in 1..Windows : <<q, w>> \in Row
  /\ Flush \in Writer
  /\ \A s \in Writer : s \in Row \/ s = Flush
BY DEF Row, Writer

LEMMA EntryForType ==
  ASSUME TypeOK, NEW p \in Process, NEW c \in Row
  PROVE  entry[p][c] \in Entry /\ EntryFor(p, c) \in Entry
BY EmptyType DEF TypeOK, EntryFor

LEMMA SendingType ==
  ASSUME NEW p, NEW C \in SUBSET Row, NEW entries \in [Row -> Entry]
  PROVE  Sending(p, C, entries) \in Write
<1>1. [c \in Row |-> IF c \in C THEN entries[c].pending ELSE 0] \in [Row -> Int]
  BY DEF Entry
<1> QED
  BY <1>1, EmptyType DEF Sending, Write

LEMMA ForgetType ==
  ASSUME NEW p, NEW entries \in [Row -> Entry]
  PROVE  Forget(p, entries) \in [Row -> Entry]
BY EmptyType DEF Forget

LEMMA PresentType ==
  ASSUME TypeOK, Placed, NEW r \in Request, req[r].phase = "ask"
  PROVE  Present(r) \in Row /\ Present(r)[1] = Asks[r][req[r].next] /\ Present(r)[2] = window
<1>1. req[r].next \in 1..Len(Asks[r])
  BY DEF TypeOK, Placed, RequestPlaced, RequestState
<1>2. Asks[r] \in Seq(Quota)
  OBVIOUS
<1>3. Asks[r][req[r].next] \in Quota
  BY <1>1, <1>2
<1> QED
  BY <1>3, RowFacts DEF Present, TypeOK

LEMMA ReleaseType ==
  ASSUME TypeOK, NEW r \in Request, NEW C, ReleaseReserved(r, C)
  PROVE  entry' \in [Process -> [Row -> Entry]]
<1> DEFINE p == ProcessOf[r]
           entries == [c \in Row |-> IF c \in C /\ entry[p][c].kept
                                     THEN [entry[p][c] EXCEPT !.pending = @ - Units[r]]
                                     ELSE entry[p][c]]
<1>1. p \in Process /\ Units[r] \in Int
  OBVIOUS
<1>2. entries \in [Row -> Entry]
  <2> SUFFICES ASSUME NEW c \in Row
               PROVE  (IF c \in C /\ entry[p][c].kept
                       THEN [entry[p][c] EXCEPT !.pending = @ - Units[r]] ELSE entry[p][c]) \in Entry
    OBVIOUS
  <2> QED BY <1>1, EntryForType, EntryChange
<1>3. entry' = [entry EXCEPT ![p] = entries]
  BY DEF ReleaseReserved, Release
<1> QED
  <2> HIDE DEF entries
  <2> QED BY <1>1, <1>2, <1>3 DEF TypeOK

LEMMA DecideType ==
  ASSUME TypeOK, NEW r \in Request, NEW c \in Row, Decide(r, c)
  PROVE  TypeOK'
<1> DEFINE p == ProcessOf[r]
<1>1. p \in Process /\ Units[r] \in Int /\ req[r] \in RequestState
  BY DEF TypeOK
<1>2. CASE Exceeds(EntryFor(p, c), Limit[c[1]], Units[r])
  <2>1. entry' \in [Process -> [Row -> Entry]]
    BY <1>2, ReleaseType DEF Decide
  <2>2. req' \in [Request -> RequestState]
    <3>1. req' = [req EXCEPT ![r] = [req[r] EXCEPT !.phase = "refused", !.row = <<>>, !.got = {}]]
      BY <1>2 DEF Decide
    <3> QED BY <1>1, <3>1, RequestChange DEF TypeOK
  <2> QED BY <2>1, <2>2 DEF Decide, TypeOK
<1>3. CASE ~Exceeds(EntryFor(p, c), Limit[c[1]], Units[r])
  <2>1. [EntryFor(p, c) EXCEPT !.pending = @ + Units[r]] \in Entry
    BY <1>1, EntryForType, EntryChange
  <2>2. entry' \in [Process -> [Row -> Entry]]
    <3>1. entry' = [entry EXCEPT ![p][c] = [EntryFor(p, c) EXCEPT !.pending = @ + Units[r]]]
      BY <1>3 DEF Decide, Count
    <3> QED BY <1>1, <2>1, <3>1 DEF TypeOK
  <2>3. After(r, req[r].next) \in {"ask", "key", "admitted"}
    BY DEF After
  <2>4. req' \in [Request -> RequestState]
    <3>1. req' = [req EXCEPT ![r] = [phase |-> After(r, req[r].next), next |-> req[r].next + 1,
                                     row |-> <<>>, got |-> req[r].got \union {c}]]
      BY <1>3 DEF Decide
    <3> QED BY <1>1, <2>3, <3>1, RequestChange DEF TypeOK
  <2> QED BY <1>3, <2>2, <2>4 DEF Decide, TypeOK
<1> QED
  BY <1>2, <1>3

LEMMA StartReadType ==
  ASSUME TypeOK, NEW p \in Process, NEW c \in Row, StartRead(p, c)
  PROVE  entry' \in [Process -> [Row -> Entry]] /\ write' \in [Process -> [Writer -> Write]]
<1> DEFINE entries == [entry[p] EXCEPT ![c] = EntryFor(p, c)]
<1>1. entries \in [Row -> Entry]
  BY EntryForType DEF TypeOK
<1>2. entry' = [entry EXCEPT ![p] = entries]
  BY DEF StartRead
<1>3. entry' \in [Process -> [Row -> Entry]]
  <2> HIDE DEF entries
  <2> QED BY <1>1, <1>2 DEF TypeOK
<1>4. Sending(p, {c}, entries) \in Write
  BY <1>1, SendingType
<1>5. [NoWrite EXCEPT !.phase = "waiting"] \in Write
  BY EmptyType, WriteChange
<1>6. write' \in [Process -> [Writer -> Write]]
  <2>1. \/ write' = write
        \/ write' = [write EXCEPT ![p][c] = [NoWrite EXCEPT !.phase = "waiting"]]
        \/ write' = [write EXCEPT ![p][c] = Sending(p, {c}, entries)]
    BY DEF StartRead
  <2>2. c \in Writer
    BY RowFacts
  <2>3. write \in [Process -> [Writer -> Write]]
    BY DEF TypeOK
  <2> HIDE DEF entries
  <2>4. [write EXCEPT ![p][c] = Sending(p, {c}, entries)] \in [Process -> [Writer -> Write]]
    BY <1>4, <2>2, <2>3, ReplaceTwo
  <2>5. [write EXCEPT ![p][c] = [NoWrite EXCEPT !.phase = "waiting"]] \in [Process -> [Writer -> Write]]
    BY <1>5, <2>2, <2>3, ReplaceTwo
  <2> QED BY <2>1, <2>3, <2>4, <2>5
<1> QED
  BY <1>3, <1>6

LEMMA WaitingType ==
  ASSUME TypeOK, NEW p, NEW C, NEW phase \in {"woken", "thrown"}, Waiting(p, C, phase)
  PROVE  req' \in [Request -> RequestState]
<1> SUFFICES ASSUME NEW r \in Request
             PROVE  [req[r] EXCEPT !.phase = phase] \in RequestState /\ req[r] \in RequestState
  BY DEF Waiting
<1> QED
  BY RequestChange DEF TypeOK

LEMMA StoreType ==
  ASSUME TypeOK, NEW p \in Process, NEW s \in Writer, Store(p, s)
  PROVE  counter' \in [Row -> Int] /\ write' \in [Process -> [Writer -> Write]]
<1> DEFINE w == write[p][s]
           total == [c \in Row |-> IF c \in w.rows THEN counter'[c] ELSE 0]
<1>1. w \in Write
  BY DEF TypeOK
<1>2. counter' \in [Row -> Int]
  BY <1>1 DEF Store, Write, TypeOK
<1>3. total \in [Row -> Int]
  BY <1>2
<1>4. write' = [write EXCEPT ![p][s] = [w EXCEPT !.phase = "stored", !.total = total]]
  BY DEF Store
<1>5. [w EXCEPT !.phase = "stored", !.total = total] \in Write
  BY <1>1, <1>3, WriteChange
<1> QED
  <2> HIDE DEF w, total
  <2> QED BY <1>2, <1>4, <1>5 DEF TypeOK

\* The entries once the totals of a write have arrived.
Updated(p, s) ==
  [c \in Row |-> IF c \in write[p][s].rows
                 THEN Answered(entry[p][c], write[p][s].units[c], write[p][s].total[c])
                 ELSE entry[p][c]]

LEMMA AnswerType ==
  ASSUME TypeOK, NEW p \in Process, NEW s \in Writer, Answer(p, s)
  PROVE  entry' \in [Process -> [Row -> Entry]] /\ write' \in [Process -> [Writer -> Write]]
<1>1. write[p][s] \in Write
  BY DEF TypeOK
<1>2. Updated(p, s) \in [Row -> Entry]
  <2> SUFFICES ASSUME NEW c \in Row
               PROVE  Answered(entry[p][c], write[p][s].units[c], write[p][s].total[c]) \in Entry
    BY EntryForType DEF Updated
  <2>1. entry[p][c] \in Entry /\ write[p][s].units[c] \in Int /\ write[p][s].total[c] \in Int
    BY <1>1, EntryForType DEF Write
  <2>2. Larger(entry[p][c].known, write[p][s].total[c]) \in Int
    BY <2>1 DEF Larger, Entry
  <2>3. entry[p][c].pending - write[p][s].units[c] \in Int
    BY <2>1 DEF Entry
  <2> QED BY <2>2, <2>3, EntryMade DEF Answered, Age
<1>3. entry' = [entry EXCEPT ![p] = IF s = Flush THEN Forget(p, Updated(p, s)) ELSE Updated(p, s)]
  BY DEF Answer, Updated
<1>4. entry' \in [Process -> [Row -> Entry]]
  BY <1>2, <1>3, ForgetType DEF TypeOK
<1>5. write' \in [Process -> [Writer -> Write]]
  BY EmptyType DEF Answer, TypeOK
<1> QED
  BY <1>4, <1>5

LEMMA FailType ==
  ASSUME TypeOK, NEW p \in Process, NEW s \in Writer, Fail(p, s)
  PROVE  entry' \in [Process -> [Row -> Entry]] /\ write' \in [Process -> [Writer -> Write]]
<1>1. entry[p] \in [Row -> Entry]
  BY DEF TypeOK
<1>2. entry' \in [Process -> [Row -> Entry]]
  BY <1>1, ForgetType DEF Fail, TypeOK
<1>3. write' \in [Process -> [Writer -> Write]]
  BY EmptyType DEF Fail, TypeOK
<1> QED
  BY <1>2, <1>3

LEMMA FlushStartType ==
  ASSUME TypeOK, NEW p \in Process, FlushStart(p)
  PROVE  entry' \in [Process -> [Row -> Entry]] /\ write' \in [Process -> [Writer -> Write]]
<1>1. entry[p] \in [Row -> Entry]
  BY DEF TypeOK
<1>2. Sending(p, Pending(p), entry[p]) \in Write
  BY <1>1, SendingType DEF Pending
<1>3. Forget(p, entry[p]) \in [Row -> Entry]
  BY <1>1, ForgetType
<1>4. \/ entry' = [entry EXCEPT ![p] = Forget(p, entry[p])] /\ write' = write
      \/ write' = [write EXCEPT ![p][Flush] = Sending(p, Pending(p), entry[p])] /\ entry' = entry
  BY DEF FlushStart
<1>5. entry \in [Process -> [Row -> Entry]] /\ write \in [Process -> [Writer -> Write]]
  BY DEF TypeOK
<1>6. [write EXCEPT ![p][Flush] = Sending(p, Pending(p), entry[p])] \in [Process -> [Writer -> Write]]
  BY <1>2, <1>5, RowFacts, ReplaceTwo
<1>7. [entry EXCEPT ![p] = Forget(p, entry[p])] \in [Process -> [Row -> Entry]]
  BY <1>3, <1>5
<1> QED
  BY <1>4, <1>5, <1>6, <1>7

LEMMA TypeInit == Init => TypeOK
<1> SUFFICES ASSUME Init PROVE TypeOK
  OBVIOUS
<1>1. \A r \in Request : After(r, 0) \in {"ask", "key", "admitted"}
  BY DEF After
<1> QED
  BY <1>1, EmptyType DEF Init, QuotasInit, TypeOK, RequestState

LEMMA TypeStep ==
  ASSUME TypeOK, Placed, [Next]_vars  PROVE TypeOK'
<1>1. ASSUME NEW r \in Request, ReserveAfterRead(r)  PROVE TypeOK'
  <2>1. req[r].row \in Row
    BY <1>1 DEF ReserveAfterRead, Placed, RequestPlaced
  <2> QED BY <1>1, <2>1, DecideType DEF ReserveAfterRead
<1>2. ASSUME NEW r \in Request, Reserve(r)  PROVE TypeOK'
  BY <1>2, PresentType, DecideType DEF Reserve
<1>3. ASSUME NEW r \in Request, ReserveRead(r)  PROVE TypeOK'
  <2>1. Present(r) \in Row /\ ProcessOf[r] \in Process
    BY <1>3, PresentType DEF ReserveRead
  <2>2. req' \in [Request -> RequestState]
    <3>1. req' = [req EXCEPT ![r] = [req[r] EXCEPT !.phase = "wait", !.row = Present(r)]]
      BY <1>3 DEF ReserveRead
    <3> QED BY <2>1, <3>1, RequestChange DEF TypeOK
  <2> QED BY <1>3, <2>1, <2>2, StartReadType DEF ReserveRead, TypeOK
<1>4. ASSUME NEW r \in Request, ConsumeKey(r) \/ ConsumeKeyFails(r)  PROVE TypeOK'
  <2>1. req' \in [Request -> RequestState]
    <3>1. \/ req' = [req EXCEPT ![r] = [req[r] EXCEPT !.phase = "admitted"]]
          \/ req' = [req EXCEPT ![r] = [req[r] EXCEPT !.phase = "refused", !.got = {}]]
          \/ req' = [req EXCEPT ![r] = [req[r] EXCEPT !.phase = "thrown", !.got = {}]]
      BY <1>4 DEF ConsumeKey, ConsumeKeyFails
    <3>2. \A phase \in {"admitted", "refused", "thrown"} :
            /\ [req[r] EXCEPT !.phase = phase] \in RequestState
            /\ [req[r] EXCEPT !.phase = phase, !.got = {}] \in RequestState
      BY RequestChange DEF TypeOK
    <3> QED BY <3>1, <3>2 DEF TypeOK
  <2>2. entry' = entry \/ ReleaseReserved(r, req[r].got)
    BY <1>4 DEF ConsumeKey, ConsumeKeyFails
  <2>3. entry' \in [Process -> [Row -> Entry]]
    BY <2>2, ReleaseType DEF TypeOK
  <2>4. keyCount' \in 0..KeyLimit
    BY <1>4 DEF ConsumeKey, ConsumeKeyFails, TypeOK
  <2> QED BY <1>4, <2>1, <2>3, <2>4 DEF ConsumeKey, ConsumeKeyFails, TypeOK
<1>5. ASSUME NEW p \in Process, NEW s \in Writer, WriteStep(p, s)  PROVE TypeOK'
  <2>1. CASE Store(p, s) /\ UNCHANGED <<keyCount, req>>
    <3>1. counter' \in [Row -> Int] /\ write' \in [Process -> [Writer -> Write]]
      BY <2>1, StoreType
    <3>2. UNCHANGED <<window, entry, keyCount, req>>
      BY <2>1 DEF Store
    <3> QED BY <3>1, <3>2 DEF TypeOK
  <2>2. CASE WriteAnswered(p, s)
    BY <2>2, AnswerType, WaitingType DEF WriteAnswered, Answer, TypeOK
  <2>3. CASE WriteFails(p, s)
    <3>1. Fail(p, s) /\ Waiting(p, FailsWith(p, s), "thrown") /\ keyCount' = keyCount
      BY <2>3 DEF WriteFails
    <3>2. req' \in [Request -> RequestState]
      BY <3>1, WaitingType
    <3>3. counter' = counter /\ window' = window
      BY <3>1 DEF Fail
    <3> QED BY <3>1, <3>2, <3>3, FailType DEF TypeOK
  <2> QED BY <1>5, <2>1, <2>2, <2>3 DEF WriteStep
<1>6. ASSUME NEW p \in Process, FlushTimer(p)  PROVE TypeOK'
  BY <1>6, FlushStartType DEF FlushTimer, FlushStart, TypeOK
<1>7. ASSUME NEW p \in Process, NEW c \in Row, ReadGoesOn(p, c), UNCHANGED <<keyCount, req>>  PROVE TypeOK'
  <2>1. Sending(p, {c}, entry[p]) \in Write
    BY SendingType DEF TypeOK
  <2> QED BY <1>7, <2>1, RowFacts DEF ReadGoesOn, TypeOK
<1>8. ASSUME NEW p \in Process, NEW c \in Row, GrowStale(p, c), UNCHANGED <<keyCount, req>>  PROVE TypeOK'
  <2>1. [entry[p][c] EXCEPT !.read = "stale"] \in Entry
    <3>1. entry[p][c] \in Entry
      BY EntryForType
    <3> QED BY <3>1, EntryChange, 0 \in Int
  <2> QED BY <1>8, <2>1 DEF GrowStale, TypeOK
<1>9. ASSUME WindowEnds, UNCHANGED <<keyCount, req>>  PROVE TypeOK'
  BY <1>9 DEF WindowEnds, TypeOK
<1>10. ASSUME MinutePasses  PROVE TypeOK'
  BY <1>10 DEF MinutePasses, quotas, TypeOK
<1>11. ASSUME UNCHANGED vars  PROVE TypeOK'
  BY <1>11 DEF vars, quotas, TypeOK
<1> QED
  BY <1>1, <1>2, <1>3, <1>4, <1>5, <1>6, <1>7, <1>8, <1>9, <1>10, <1>11 DEF Next, RequestStep

-----------------------------------------------------------------------------
(* What the operations do to the entries and the writes                    *)

LEMMA EntryForFields ==
  ASSUME TypeOK, Forgotten, NEW p \in Process, NEW c \in Row
  PROVE  /\ EntryFor(p, c).kept
         /\ EntryFor(p, c).pending = entry[p][c].pending
         /\ EntryFor(p, c).known = entry[p][c].known
<1>1. CASE entry[p][c].kept
  BY <1>1, EntryForType DEF EntryFor, Entry
<1>2. CASE ~entry[p][c].kept
  BY <1>2 DEF EntryFor, Forgotten, NewEntry, NoEntry
<1> QED
  BY <1>1, <1>2

LEMMA ReleaseFields ==
  ASSUME TypeOK, NEW r \in Request, NEW C, ReleaseReserved(r, C)
  PROVE  \A q \in Process, c \in Row :
           /\ (entry'[q][c].kept <=> entry[q][c].kept)
           /\ entry'[q][c].known = entry[q][c].known
           /\ ~entry[q][c].kept => entry'[q][c] = entry[q][c]
           /\ entry'[q][c].pending =
                IF q = ProcessOf[r] /\ c \in C /\ entry[q][c].kept
                THEN entry[q][c].pending - Units[r] ELSE entry[q][c].pending
<1> SUFFICES ASSUME NEW q \in Process, NEW c \in Row
             PROVE  /\ (entry'[q][c].kept <=> entry[q][c].kept)
                    /\ entry'[q][c].known = entry[q][c].known
                    /\ ~entry[q][c].kept => entry'[q][c] = entry[q][c]
                    /\ entry'[q][c].pending =
                         IF q = ProcessOf[r] /\ c \in C /\ entry[q][c].kept
                         THEN entry[q][c].pending - Units[r] ELSE entry[q][c].pending
  OBVIOUS
<1>1. entry'[q][c] = IF q = ProcessOf[r] /\ c \in C /\ entry[q][c].kept
                     THEN [entry[q][c] EXCEPT !.pending = @ - Units[r]] ELSE entry[q][c]
  BY DEF ReleaseReserved, Release, TypeOK
<1>2. entry[q][c] \in Entry
  BY EntryForType
<1> QED
  BY <1>1, <1>2 DEF Entry

LEMMA CountFields ==
  ASSUME TypeOK, Forgotten, NEW p \in Process, NEW c \in Row, NEW n \in Int, Count(p, c, n)
  PROVE  /\ entry'[p][c].kept
         /\ entry'[p][c].known = entry[p][c].known
         /\ entry'[p][c].pending = entry[p][c].pending + n
         /\ \A q \in Process, d \in Row : q # p \/ d # c => entry'[q][d] = entry[q][d]
<1>1. /\ entry'[p][c] = [EntryFor(p, c) EXCEPT !.pending = @ + n]
      /\ \A q \in Process, d \in Row : q # p \/ d # c => entry'[q][d] = entry[q][d]
  BY DEF Count, TypeOK
<1>2. EntryFor(p, c) \in Entry
  BY EntryForType
<1> QED
  BY <1>1, <1>2, EntryForFields DEF Entry

LEMMA StartReadFields ==
  ASSUME TypeOK, Forgotten, NEW p \in Process, NEW c \in Row, StartRead(p, c)
  PROVE  /\ entry'[p][c].kept
         /\ entry'[p][c].known = entry[p][c].known
         /\ entry'[p][c].pending = entry[p][c].pending
         /\ \A q \in Process, d \in Row : q # p \/ d # c => entry'[q][d] = entry[q][d]
         /\ \/ write' = write /\ Refreshing(p, c)
            \/ /\ ~Refreshing(p, c)
               /\ \A q \in Process, s \in Writer : q # p \/ s # c => write'[q][s] = write[q][s]
               /\ \/ write'[p][c].phase = "waiting"
                  \/ /\ write'[p][c].phase = "sent" /\ write'[p][c].rows = {c} /\ ~Flushing(p)
                     /\ \A d \in Row : write'[p][c].units[d] = IF d = c THEN entry[p][c].pending ELSE 0
<1> DEFINE entries == [entry[p] EXCEPT ![c] = EntryFor(p, c)]
<1>1. /\ entry'[p] = entries
      /\ \A q \in Process : q # p => entry'[q] = entry[q]
  BY DEF StartRead, TypeOK
<1>2. entries[c] = EntryFor(p, c) /\ \A d \in Row : d # c => entries[d] = entry[p][d]
  BY DEF TypeOK
<1>3. c \in Writer
  BY RowFacts
<1> DEFINE Read == /\ entry'[p][c].kept
                   /\ entry'[p][c].known = entry[p][c].known
                   /\ entry'[p][c].pending = entry[p][c].pending
                   /\ \A q \in Process, d \in Row : q # p \/ d # c => entry'[q][d] = entry[q][d]
<1>7. Read /\ entries[c].pending = entry[p][c].pending
  <2>1. entry'[p][c] = EntryFor(p, c)
    BY <1>1, <1>2
  <2>2. \A q \in Process, d \in Row : q # p \/ d # c => entry'[q][d] = entry[q][d]
    <3> HIDE DEF entries
    <3> QED BY <1>1, <1>2
  <2>3. entries[c] = EntryFor(p, c)
    BY <1>2
  <2>4. EntryFor(p, c).kept /\ EntryFor(p, c).known = entry[p][c].known
        /\ EntryFor(p, c).pending = entry[p][c].pending
    BY EntryForFields
  <2> HIDE DEF entries
  <2> QED BY <2>1, <2>2, <2>3, <2>4
<1>4. CASE Refreshing(p, c)
  <2>1. write' = write
    BY <1>4 DEF StartRead
  <2> QED BY <1>7, <1>4, <2>1
<1>5. CASE ~Refreshing(p, c) /\ Flushing(p)
  <2>1. write' = [write EXCEPT ![p][c] = [NoWrite EXCEPT !.phase = "waiting"]]
    BY <1>5 DEF StartRead
  <2>2. write'[p][c] = [NoWrite EXCEPT !.phase = "waiting"]
        /\ \A q \in Process, s \in Writer : q # p \/ s # c => write'[q][s] = write[q][s]
    BY <1>3, <2>1 DEF TypeOK
  <2>3. write'[p][c].phase = "waiting"
    BY <2>2 DEF NoWrite
  <2> QED BY <1>7, <1>5, <2>2, <2>3
<1>6. CASE ~Refreshing(p, c) /\ ~Flushing(p)
  <2>1. write' = [write EXCEPT ![p][c] = Sending(p, {c}, entries)]
    BY <1>6 DEF StartRead
  <2>2. write'[p][c] = Sending(p, {c}, entries)
        /\ \A q \in Process, s \in Writer : q # p \/ s # c => write'[q][s] = write[q][s]
    <3> HIDE DEF entries
    <3> QED BY <1>3, <2>1 DEF TypeOK
  <2>3. write'[p][c].phase = "sent" /\ write'[p][c].rows = {c}
        /\ \A d \in Row : write'[p][c].units[d] = IF d = c THEN entries[c].pending ELSE 0
    <3> HIDE DEF entries
    <3> QED BY <2>2 DEF Sending
  <2>4. \A d \in Row : write'[p][c].units[d] = IF d = c THEN entry[p][c].pending ELSE 0
    <3> HIDE DEF entries
    <3> QED BY <1>7, <2>3
  <2> HIDE DEF entries
  <2> QED BY <1>7, <1>6, <2>2, <2>3, <2>4
<1> QED
  BY <1>4, <1>5, <1>6

LEMMA ForgetFields ==
  ASSUME NEW p, NEW entries, NEW c \in Row
  PROVE  \/ Forget(p, entries)[c] = entries[c]
         \/ Forget(p, entries)[c] = NoEntry /\ Ended(c) /\ entries[c].pending = 0 /\ ~Refreshing(p, c)
BY DEF Forget

\* What is forgotten of a process, in a step of it.
ForgetsAt(p, c) == entry'[p][c] = NoEntry /\ Ended(c) /\ entry[p][c].pending = 0 /\ ~Refreshing(p, c)

LEMMA FlushStartFields ==
  ASSUME TypeOK, NEW p \in Process, FlushStart(p)
  PROVE  /\ \A q \in Process : q # p => entry'[q] = entry[q] /\ write'[q] = write[q]
         /\ ~Flushing(p)
         /\ \/ write' = write /\ \A c \in Row : entry'[p][c] = entry[p][c] \/ ForgetsAt(p, c)
            \/ /\ entry' = entry
               /\ \A s \in Writer : s # Flush => write'[p][s] = write[p][s]
               /\ write'[p][Flush].phase = "sent" /\ write'[p][Flush].rows = Pending(p)
               /\ \A c \in Row : write'[p][Flush].units[c] = entry[p][c].pending
<1>1. CASE Pending(p) = {}
  <2>1. entry' = [entry EXCEPT ![p] = Forget(p, entry[p])] /\ write' = write
    BY <1>1 DEF FlushStart
  <2>2. entry'[p] = Forget(p, entry[p]) /\ \A q \in Process : q # p => entry'[q] = entry[q]
    BY <2>1 DEF TypeOK
  <2> QED BY <2>1, <2>2, ForgetFields DEF FlushStart, ForgetsAt
<1>2. CASE Pending(p) # {}
  <2>1. write' = [write EXCEPT ![p][Flush] = Sending(p, Pending(p), entry[p])] /\ entry' = entry
    BY <1>2 DEF FlushStart
  <2>2. write'[p][Flush] = Sending(p, Pending(p), entry[p])
        /\ (\A s \in Writer : s # Flush => write'[p][s] = write[p][s])
        /\ \A q \in Process : q # p => write'[q] = write[q]
    BY <2>1, RowFacts DEF TypeOK
  <2>3. write'[p][Flush].phase = "sent" /\ write'[p][Flush].rows = Pending(p)
        /\ \A c \in Row : write'[p][Flush].units[c] = IF c \in Pending(p) THEN entry[p][c].pending ELSE 0
    BY <2>2 DEF Sending
  <2>4. \A c \in Row : c \notin Pending(p) => entry[p][c].pending = 0
    BY DEF Pending
  <2> QED BY <2>1, <2>2, <2>3, <2>4 DEF FlushStart
<1> QED
  BY <1>1, <1>2

LEMMA ReadGoesOnFields ==
  ASSUME TypeOK, NEW p \in Process, NEW c \in Row, ReadGoesOn(p, c)
  PROVE  /\ entry' = entry /\ counter' = counter /\ window' = window
         /\ write[p][c].phase = "waiting" /\ ~Flushing(p)
         /\ \A q \in Process, s \in Writer : q # p \/ s # c => write'[q][s] = write[q][s]
         /\ write'[p][c].phase = "sent" /\ write'[p][c].rows = {c}
         /\ \A d \in Row : write'[p][c].units[d] = IF d = c THEN entry[p][c].pending ELSE 0
<1>1. write' = [write EXCEPT ![p][c] = Sending(p, {c}, entry[p])]
  BY DEF ReadGoesOn
<1>2. write'[p][c] = Sending(p, {c}, entry[p])
      /\ \A q \in Process, s \in Writer : q # p \/ s # c => write'[q][s] = write[q][s]
  BY <1>1, RowFacts DEF TypeOK
<1> QED
  BY <1>2 DEF ReadGoesOn, Sending

LEMMA StoreFields ==
  ASSUME TypeOK, NEW p \in Process, NEW s \in Writer, Store(p, s)
  PROVE  /\ entry' = entry /\ window' = window
         /\ write[p][s].phase = "sent"
         /\ \A q \in Process, t \in Writer : q # p \/ t # s => write'[q][t] = write[q][t]
         /\ write'[p][s].phase = "stored"
         /\ write'[p][s].rows = write[p][s].rows /\ write'[p][s].units = write[p][s].units
         /\ \A c \in Row : /\ counter'[c] = counter[c] + write[p][s].units[c]
                           /\ write'[p][s].total[c] = IF c \in write[p][s].rows THEN counter'[c] ELSE 0
<1> DEFINE total == [c \in Row |-> IF c \in write[p][s].rows THEN counter'[c] ELSE 0]
<1>1. write' = [write EXCEPT ![p][s] = [write[p][s] EXCEPT !.phase = "stored", !.total = total]]
  BY DEF Store
<1>2. write[p][s] \in Write
  BY DEF TypeOK
<1>3. write'[p][s] = [write[p][s] EXCEPT !.phase = "stored", !.total = total]
      /\ \A q \in Process, t \in Writer : q # p \/ t # s => write'[q][t] = write[q][t]
  <2> HIDE DEF total
  <2> QED BY <1>1 DEF TypeOK
<1>4. write'[p][s].phase = "stored" /\ write'[p][s].total = total
      /\ write'[p][s].rows = write[p][s].rows /\ write'[p][s].units = write[p][s].units
  <2> HIDE DEF total
  <2> QED BY <1>2, <1>3 DEF Write
<1>5. \A c \in Row : counter'[c] = counter[c] + write[p][s].units[c]
  BY DEF Store
<1>6. \A c \in Row : write'[p][s].total[c] = IF c \in write[p][s].rows THEN counter'[c] ELSE 0
  BY <1>4
<1>7. entry' = entry /\ window' = window /\ write[p][s].phase = "sent"
  BY DEF Store
<1> HIDE DEF total
<1> QED
  BY <1>3, <1>4, <1>5, <1>6, <1>7

\* An entry after the totals of a write: taken over, or forgotten at once.
AnswersAt(p, s, c) ==
  /\ c \in write[p][s].rows
  /\ entry'[p][c].kept
  /\ entry'[p][c].known = Larger(entry[p][c].known, write[p][s].total[c])
  /\ entry'[p][c].pending = entry[p][c].pending - write[p][s].units[c]

LEMMA AnswerFields ==
  ASSUME TypeOK, NEW p \in Process, NEW s \in Writer, Answer(p, s)
  PROVE  /\ \A q \in Process : q # p => entry'[q] = entry[q]
         /\ \A q \in Process, t \in Writer : q # p \/ t # s => write'[q][t] = write[q][t]
         /\ write[p][s].phase = "stored" /\ write'[p][s] = NoWrite
         /\ counter' = counter /\ window' = window
         /\ \A c \in Row :
              \/ AnswersAt(p, s, c)
              \/ c \notin write[p][s].rows /\ entry'[p][c] = entry[p][c]
              \/ /\ s = Flush /\ Ended(c) /\ ~Refreshing(p, c) /\ entry'[p][c] = NoEntry
                 /\ entry[p][c].pending = IF c \in write[p][s].rows THEN write[p][s].units[c] ELSE 0
<1>1. entry' = [entry EXCEPT ![p] = IF s = Flush THEN Forget(p, Updated(p, s)) ELSE Updated(p, s)]
  BY DEF Answer, Updated
<1>2. /\ \A q \in Process : q # p => entry'[q] = entry[q]
      /\ entry'[p] = IF s = Flush THEN Forget(p, Updated(p, s)) ELSE Updated(p, s)
  BY <1>1 DEF TypeOK
<1>3. /\ \A q \in Process, t \in Writer : q # p \/ t # s => write'[q][t] = write[q][t]
      /\ write[p][s].phase = "stored" /\ write'[p][s] = NoWrite
      /\ counter' = counter /\ window' = window
  BY DEF Answer, TypeOK
<1>4. ASSUME NEW c \in Row
      PROVE  \/ AnswersAt(p, s, c)
             \/ c \notin write[p][s].rows /\ entry'[p][c] = entry[p][c]
             \/ /\ s = Flush /\ Ended(c) /\ ~Refreshing(p, c) /\ entry'[p][c] = NoEntry
                /\ entry[p][c].pending = IF c \in write[p][s].rows THEN write[p][s].units[c] ELSE 0
  <2>1. entry[p][c].pending \in Int /\ write[p][s].units[c] \in Int
    BY EntryForType DEF TypeOK, Entry, Write
  <2>2. CASE entry'[p][c] = Updated(p, s)[c]
    BY <2>2 DEF Updated, Answered, AnswersAt
  <2>3. CASE /\ s = Flush /\ entry'[p][c] = NoEntry /\ Ended(c) /\ ~Refreshing(p, c)
             /\ Updated(p, s)[c].pending = 0
    <3>1. c \in write[p][s].rows => entry[p][c].pending - write[p][s].units[c] = 0
      BY <2>3 DEF Updated, Answered
    <3>2. c \notin write[p][s].rows => entry[p][c].pending = 0
      BY <2>3 DEF Updated
    <3> QED BY <2>1, <2>3, <3>1, <3>2
  <2> QED BY <1>2, <2>2, <2>3, ForgetFields
<1> QED
  BY <1>2, <1>3, <1>4

LEMMA FailFields ==
  ASSUME TypeOK, NEW p \in Process, NEW s \in Writer, Fail(p, s)
  PROVE  /\ \A q \in Process : q # p => entry'[q] = entry[q] /\ write'[q] = write[q]
         /\ write[p][s].phase = "sent" /\ counter' = counter /\ window' = window
         /\ \A t \in Writer : write'[p][t] = IF t \in FailsWith(p, s) THEN NoWrite ELSE write[p][t]
         /\ \A c \in Row : entry'[p][c] = entry[p][c] \/ (s = Flush /\ ForgetsAt(p, c))
<1>1. write'[p] = [t \in Writer |-> IF t \in FailsWith(p, s) THEN NoWrite ELSE write[p][t]]
      /\ \A q \in Process : q # p => write'[q] = write[q]
  BY DEF Fail, TypeOK
<1>2. entry' = [entry EXCEPT ![p] = IF s = Flush THEN Forget(p, entry[p]) ELSE entry[p]]
  BY DEF Fail
<1>3. entry'[p] = (IF s = Flush THEN Forget(p, entry[p]) ELSE entry[p])
      /\ \A q \in Process : q # p => entry'[q] = entry[q]
  BY <1>2 DEF TypeOK
<1>4. ASSUME NEW c \in Row  PROVE entry'[p][c] = entry[p][c] \/ (s = Flush /\ ForgetsAt(p, c))
  <2>1. CASE s = Flush
    <3>1. entry'[p] = Forget(p, entry[p])
      BY <1>3, <2>1
    <3> QED BY <2>1, <3>1, ForgetFields DEF ForgetsAt
  <2>2. CASE s # Flush
    <3>1. entry'[p] = entry[p]
      BY <1>3, <2>2
    <3> QED BY <3>1
  <2> QED BY <2>1, <2>2
<1> QED
  BY <1>1, <1>3, <1>4 DEF Fail

-----------------------------------------------------------------------------
(* Requests and writes keep their places                                   *)

\* A step forgets only entries of ended windows that nobody uses.
ForgetsOnly ==
  \A q \in Process, c \in Row :
    entry[q][c].kept /\ ~entry'[q][c].kept =>
      Ended(c) /\ ~Refreshing(q, c) /\ Settled(q) /\ write'[q][Flush].phase = "idle"

LEMMA ForgottenAfter ==
  ASSUME Forgotten,
         \A q \in Process, c \in Row :
           \/ entry'[q][c].kept
           \/ entry'[q][c] = entry[q][c]
           \/ entry'[q][c] = NoEntry
  PROVE  Forgotten'
<1> SUFFICES ASSUME NEW q \in Process, NEW c \in Row, ~entry'[q][c].kept
             PROVE  entry'[q][c] = NoEntry
  BY DEF Forgotten, NoEntry
<1>1. CASE entry'[q][c] = entry[q][c]
  <2>1. ~entry[q][c].kept
    BY <1>1
  <2> QED BY <1>1, <2>1 DEF Forgotten
<1> QED
  BY <1>1

\* A request that does not get further in its quotas.
LEMMA RequestUnmoved ==
  ASSUME TypeOK, Placed, ForgetsOnly, NEW r \in Request,
         req'[r].next = req[r].next, req'[r].row = req[r].row, req'[r].got \subseteq req[r].got,
         \/ req'[r].phase = req[r].phase
         \/ req[r].phase = "wait" /\ req'[r].phase = "woken"
         \/ req'[r].phase \in {"admitted", "refused", "thrown"},
         window' \in Int, window <= window',
         req'[r].phase = "wait" => write'[ProcessOf[r]][req[r].row].phase # "idle"
  PROVE  RequestPlaced(r)'
<1> DEFINE p == ProcessOf[r]
<1>1. p \in Process /\ RequestPlaced(r)
  BY DEF Placed
<1>2. req[r].phase \in {"wait", "woken"} => entry'[p][req[r].row].kept
  BY <1>1 DEF RequestPlaced, ForgetsOnly, Settled
<1>3. ASSUME NEW c \in req'[r].got, ~(c[2] < window')  PROVE entry'[p][c].kept
  <2>1. c \in Row /\ c \in req[r].got
    BY DEF TypeOK, RequestState
  <2>2. ~Ended(c)
    BY <1>3, <2>1, RowFacts DEF Ended, TypeOK
  <2> QED BY <1>1, <2>1, <2>2 DEF RequestPlaced, ForgetsOnly
<1>4. \A c \in req'[r].got : \E i \in 1..(req'[r].next - 1) : i <= Len(Asks[r]) /\ Asks[r][i] = c[1]
  BY <1>1 DEF RequestPlaced
<1>5. /\ req'[r].next <= Len(Asks[r]) + 1
      /\ req'[r].phase \in {"ask", "wait", "woken"} => req'[r].next <= Len(Asks[r])
      /\ req'[r].phase \in {"wait", "woken"} =>
            req'[r].row \in Row /\ req'[r].row[1] = Asks[r][req'[r].next] /\ entry'[p][req'[r].row].kept
  BY <1>1, <1>2 DEF RequestPlaced
<1> QED
  BY <1>3, <1>4, <1>5 DEF RequestPlaced, Refreshing, Ended

LEMMA WriteUnmoved ==
  ASSUME TypeOK, Placed, ForgetsOnly, NEW p \in Process, NEW s \in Writer, write'[p][s] = write[p][s]
  PROVE  WritePlaced(p, s)'
<1>1. WritePlaced(p, s)
  BY DEF Placed
<1>2. ASSUME NEW c \in Row, write[p][s].phase \in UnderWay, c \in write[p][s].rows
      PROVE  entry'[p][c].kept
  <2>1. s = c \/ s = Flush
    BY <1>1, <1>2, RowFacts DEF WritePlaced
  <2> QED BY <1>1, <1>2, <2>1 DEF WritePlaced, ForgetsOnly, Refreshing, UnderWay
<1>3. s \in Row /\ write[p][s].phase # "idle" => entry'[p][s].kept
  BY <1>1 DEF WritePlaced, ForgetsOnly, Refreshing
<1> QED
  BY <1>1, <1>2, <1>3 DEF WritePlaced

\* A step that changes neither windows, writes nor what is kept.
LEMMA DecidePlaced ==
  ASSUME TypeOK, Placed, NEW r \in Request, NEW c \in Row,
         c[1] = Asks[r][req[r].next], req[r].next <= Len(Asks[r]), Decide(r, c)
  PROVE  Placed'
<1> DEFINE p == ProcessOf[r]
<1>1. p \in Process /\ Units[r] \in Int /\ RequestPlaced(r) /\ Forgotten /\ req[r].next \in Nat \ {0}
      /\ Len(Asks[r]) \in Nat
  BY DEF Placed, TypeOK, RequestState
<1>2. window' = window /\ write' = write /\ \A o \in Request : o # r => req'[o] = req[o]
  BY DEF Decide, TypeOK
<1>3. \A o \in Request : req[o].phase = "wait" => write[ProcessOf[o]][req[o].row].phase # "idle"
  BY DEF Placed, RequestPlaced, Refreshing
<1>4. ASSUME ForgetsOnly  PROVE /\ \A q \in Process, s \in Writer : WritePlaced(q, s)'
                                /\ \A o \in Request : o # r => RequestPlaced(o)'
  <2>1. \A q \in Process, s \in Writer : WritePlaced(q, s)'
    BY <1>2, <1>4, WriteUnmoved
  <2>2. ASSUME NEW o \in Request, o # r  PROVE RequestPlaced(o)'
    <3>1. req'[o] = req[o] /\ window' \in Int /\ window <= window'
      BY <1>2, <2>2 DEF TypeOK
    <3>2. req'[o].phase = "wait" => write'[ProcessOf[o]][req[o].row].phase # "idle"
      BY <1>2, <1>3, <3>1
    <3> QED BY <1>4, <3>1, <3>2, RequestUnmoved
  <2> QED BY <2>1, <2>2
<1>5. CASE Exceeds(EntryFor(p, c), Limit[c[1]], Units[r])
  <2>1. ReleaseReserved(r, req[r].got)
    BY <1>5 DEF Decide
  <2>2. ForgetsOnly /\ Forgotten'
    <3>1. \A q \in Process, d \in Row :
            (entry'[q][d].kept <=> entry[q][d].kept) /\ (~entry[q][d].kept => entry'[q][d] = entry[q][d])
      BY <2>1, ReleaseFields
    <3>2. \A q \in Process, d \in Row : entry'[q][d].kept \/ entry'[q][d] = entry[q][d]
      BY <3>1
    <3>3. Forgotten'
      BY <1>1, <3>2, ForgottenAfter
    <3> QED BY <3>1, <3>3 DEF ForgetsOnly
  <2>3. /\ req'[r].phase = "refused" /\ req'[r].got = {} /\ req'[r].next = req[r].next
    BY <1>5 DEF Decide, TypeOK, RequestState
  <2>4. RequestPlaced(r)'
    BY <1>1, <2>3 DEF RequestPlaced
  <2> QED BY <1>4, <2>2, <2>4 DEF Placed
<1>6. CASE ~Exceeds(EntryFor(p, c), Limit[c[1]], Units[r])
  <2>1. Count(p, c, Units[r])
    BY <1>6 DEF Decide
  <2>2. entry'[p][c].kept /\ \A q \in Process, d \in Row : q # p \/ d # c => entry'[q][d] = entry[q][d]
    BY <1>1, <2>1, CountFields
  <2>3. ForgetsOnly /\ Forgotten'
    <3>1. Forgotten'
      BY <1>1, <2>2, ForgottenAfter
    <3> QED BY <2>2, <3>1 DEF ForgetsOnly
  <2>4. req'[r] = [phase |-> After(r, req[r].next), next |-> req[r].next + 1, row |-> <<>>,
                   got |-> req[r].got \union {c}]
    BY <1>6 DEF Decide, TypeOK
  <2>5. After(r, req[r].next) \in {"ask", "key", "admitted"}
        /\ (After(r, req[r].next) = "ask" => req[r].next + 1 <= Len(Asks[r]))
    BY <1>1 DEF After
  <2>6. ASSUME NEW d \in req'[r].got
        PROVE  /\ \E i \in 1..(req'[r].next - 1) : i <= Len(Asks[r]) /\ Asks[r][i] = d[1]
               /\ ~Ended(d) => entry'[p][d].kept
    <3>1. CASE d = c
      <4>1. req[r].next \in 1..(req'[r].next - 1)
        BY <1>1, <2>4
      <4> QED BY <2>2, <3>1, <4>1
    <3>2. CASE d # c
      <4>1. d \in req[r].got /\ d \in Row
        BY <2>4, <3>2 DEF TypeOK, RequestState
      <4>2. \E i \in 1..(req[r].next - 1) : i <= Len(Asks[r]) /\ Asks[r][i] = d[1]
        BY <1>1, <4>1 DEF RequestPlaced
      <4>3. ~Ended(d) => entry[p][d].kept
        BY <1>1, <4>1 DEF RequestPlaced
      <4> QED BY <1>1, <2>2, <2>4, <3>2, <4>1, <4>2, <4>3, SMTT(20)
    <3> QED BY <3>1, <3>2
  <2>7. RequestPlaced(r)'
    BY <1>1, <1>2, <2>4, <2>5, <2>6 DEF RequestPlaced, Ended
  <2> QED BY <1>4, <2>3, <2>7 DEF Placed
<1> QED
  BY <1>5, <1>6

LEMMA ReserveReadPlaced ==
  ASSUME TypeOK, Placed, NEW r \in Request, ReserveRead(r)
  PROVE  Placed'
<1> DEFINE p == ProcessOf[r]
<1>0. PICK c \in Row : c = Present(r)
  BY PresentType DEF ReserveRead
<1>1. p \in Process /\ c \in Row /\ c \in Writer /\ c # Flush /\ c[1] = Asks[r][req[r].next]
      /\ RequestPlaced(r) /\ Forgotten
  BY <1>0, PresentType, RowFacts DEF ReserveRead, Placed
<1>2. StartRead(p, c) /\ window' = window
  BY <1>0 DEF ReserveRead
<1>3. /\ \A o \in Request : o # r => req'[o] = req[o]
      /\ req'[r].phase = "wait" /\ req'[r].row = c
      /\ req'[r].next = req[r].next /\ req'[r].got = req[r].got /\ req[r].phase = "ask"
  BY <1>0 DEF ReserveRead, TypeOK, RequestState
<1>4. /\ entry'[p][c].kept
      /\ \A q \in Process, d \in Row : q # p \/ d # c => entry'[q][d] = entry[q][d]
  BY <1>1, <1>2, StartReadFields
<1>5. /\ \A q \in Process, s \in Writer : q # p \/ s # c => write'[q][s] = write[q][s]
      /\ \/ write'[p][c] = write[p][c] /\ write[p][c].phase # "idle"
         \/ write'[p][c].phase = "waiting"
         \/ /\ write'[p][c].phase = "sent" /\ write'[p][c].rows = {c}
            /\ \A d \in Row : d # c => write'[p][c].units[d] = 0
  BY <1>1, <1>2, StartReadFields DEF Refreshing
<1>6. ForgetsOnly /\ Forgotten'
  <2>1. Forgotten'
    BY <1>1, <1>4, ForgottenAfter
  <2> QED BY <1>4, <2>1 DEF ForgetsOnly
<1>7. ASSUME NEW o \in Request, req[o].phase = "wait"  PROVE write'[ProcessOf[o]][req[o].row].phase # "idle"
  <2>1. req[o].row \in Writer /\ write[ProcessOf[o]][req[o].row].phase # "idle"
    BY <1>7, RowFacts DEF Placed, RequestPlaced, Refreshing
  <2> QED BY <1>5, <2>1
<1>8. ASSUME NEW o \in Request  PROVE RequestPlaced(o)'
  <2>1. CASE o # r
    <3>1. req'[o] = req[o] /\ window' \in Int /\ window <= window'
      BY <1>2, <1>3, <2>1 DEF TypeOK
    <3> QED BY <1>6, <1>7, <3>1, RequestUnmoved
  <2>2. CASE o = r
    <3>1. ASSUME NEW d \in req[r].got, ~Ended(d)  PROVE entry'[p][d].kept
      <4>1. d \in Row /\ entry[p][d].kept
        BY <1>1, <3>1 DEF RequestPlaced, TypeOK, RequestState
      <4> QED BY <1>4, <4>1
    <3> QED BY <1>1, <1>2, <1>3, <1>4, <1>5, <2>2, <3>1, SMTT(20) DEF RequestPlaced, Refreshing, Ended
  <2> QED BY <2>1, <2>2
<1>9. ASSUME NEW q \in Process, NEW s \in Writer  PROVE WritePlaced(q, s)'
  <2>1. CASE write'[q][s] = write[q][s]
    BY <1>6, <2>1, WriteUnmoved
  <2>2. CASE q = p /\ s = c /\ write'[q][s] # write[q][s]
    BY <1>1, <1>4, <1>5, <2>2 DEF WritePlaced, UnderWay
  <2> QED BY <1>5, <2>1, <2>2
<1> QED
  BY <1>6, <1>8, <1>9 DEF Placed

LEMMA ConsumePlaced ==
  ASSUME TypeOK, Placed, NEW r \in Request, ConsumeKey(r) \/ ConsumeKeyFails(r)
  PROVE  Placed'
<1>1. /\ window' = window /\ write' = write
      /\ \A o \in Request : o # r => req'[o] = req[o]
      /\ req'[r].next = req[r].next /\ req'[r].row = req[r].row /\ req'[r].got \subseteq req[r].got
      /\ req'[r].phase \in {"admitted", "refused", "thrown"}
  BY SMTT(20) DEF ConsumeKey, ConsumeKeyFails, TypeOK, RequestState
<1>2. entry' = entry \/ ReleaseReserved(r, req[r].got)
  BY DEF ConsumeKey, ConsumeKeyFails
<1>3. \A q \in Process, d \in Row :
        (entry'[q][d].kept <=> entry[q][d].kept) /\ (~entry[q][d].kept => entry'[q][d] = entry[q][d])
  BY <1>2, ReleaseFields
<1>4. \A q \in Process, d \in Row : entry'[q][d].kept \/ entry'[q][d] = entry[q][d]
  BY <1>3
<1>5. Forgotten'
  BY <1>4, ForgottenAfter DEF Placed
<1>6. ForgetsOnly
  BY <1>3 DEF ForgetsOnly
<1>7. \A o \in Request : req[o].phase = "wait" => write[ProcessOf[o]][req[o].row].phase # "idle"
  BY DEF Placed, RequestPlaced, Refreshing
<1>8. window \in Int /\ window <= window
  BY DEF TypeOK
<1>9. ASSUME NEW o \in Request  PROVE RequestPlaced(o)'
  <2>1. CASE o = r
    BY <1>1, <1>6, <1>8, <2>1, RequestUnmoved
  <2>2. CASE o # r
    BY <1>1, <1>6, <1>7, <1>8, <2>2, RequestUnmoved
  <2> QED BY <2>1, <2>2
<1>10. \A q \in Process, s \in Writer : WritePlaced(q, s)'
  BY <1>1, <1>6, WriteUnmoved
<1> QED
  BY <1>5, <1>9, <1>10 DEF Placed

\* The requests an answer wakes, or a failure throws.
LEMMA WaitingFields ==
  ASSUME TypeOK, NEW p, NEW C, NEW phase, Waiting(p, C, phase), NEW r \in Request
  PROVE  /\ req'[r].next = req[r].next /\ req'[r].row = req[r].row /\ req'[r].got = req[r].got
         /\ \/ req[r].phase = "wait" /\ req'[r].phase = phase
            \/ req'[r].phase = req[r].phase
         /\ (ProcessOf[r] = p /\ req[r].phase = "wait" /\ req[r].row \in C) => req'[r].phase = phase
BY DEF Waiting, TypeOK, RequestState

LEMMA IdlePlaced ==
  ASSUME NEW p \in Process, NEW s \in Writer, write'[p][s] = NoWrite
  PROVE  WritePlaced(p, s)'
BY DEF WritePlaced, NoWrite, UnderWay

LEMMA AnsweredPlaced ==
  ASSUME TypeOK, Placed, NEW p \in Process, NEW s \in Writer, WriteAnswered(p, s)
  PROVE  Placed'
<1>1. Settled(p) /\ Answer(p, s) /\ Waiting(p, {s}, "woken")
  BY DEF WriteAnswered
<1>2. /\ \A q \in Process : q # p => entry'[q] = entry[q]
      /\ \A q \in Process, t \in Writer : q # p \/ t # s => write'[q][t] = write[q][t]
      /\ write'[p][s] = NoWrite /\ window' = window
  BY <1>1, AnswerFields
<1>3. \A c \in Row : \/ entry'[p][c].kept
                     \/ entry'[p][c] = entry[p][c]
                     \/ s = Flush /\ Ended(c) /\ ~Refreshing(p, c) /\ entry'[p][c] = NoEntry
  BY <1>1, AnswerFields DEF AnswersAt
<1>4. Forgotten'
  BY <1>2, <1>3, ForgottenAfter DEF Placed
<1>5. ForgetsOnly
  BY <1>1, <1>2, <1>3 DEF ForgetsOnly, NoWrite
<1>6. ASSUME NEW o \in Request  PROVE RequestPlaced(o)'
  <2>1. req[o].phase = "wait" => write[ProcessOf[o]][req[o].row].phase # "idle" /\ req[o].row \in Writer
    BY RowFacts DEF Placed, RequestPlaced, Refreshing
  <2>2. req'[o].phase = "wait" => write'[ProcessOf[o]][req[o].row].phase # "idle"
    BY <1>1, <1>2, <2>1, WaitingFields
  <2>3. window' \in Int /\ window <= window'
    BY <1>2 DEF TypeOK
  <2>4. /\ req'[o].next = req[o].next /\ req'[o].row = req[o].row /\ req'[o].got \subseteq req[o].got
        /\ \/ req'[o].phase = req[o].phase
           \/ req[o].phase = "wait" /\ req'[o].phase = "woken"
    BY <1>1, WaitingFields
  <2> QED BY <1>5, <2>2, <2>3, <2>4, RequestUnmoved
<1>7. \A q \in Process, t \in Writer : WritePlaced(q, t)'
  BY <1>2, <1>5, WriteUnmoved, IdlePlaced
<1> QED
  BY <1>4, <1>6, <1>7 DEF Placed

LEMMA FailsPlaced ==
  ASSUME TypeOK, Placed, NEW p \in Process, NEW s \in Writer, WriteFails(p, s)
  PROVE  Placed'
<1>1. Settled(p) /\ Fail(p, s) /\ Waiting(p, FailsWith(p, s), "thrown")
  BY DEF WriteFails
<1>2. /\ \A q \in Process : q # p => entry'[q] = entry[q] /\ write'[q] = write[q]
      /\ \A t \in Writer : write'[p][t] = IF t \in FailsWith(p, s) THEN NoWrite ELSE write[p][t]
      /\ s \in FailsWith(p, s) /\ window' = window
  BY <1>1, FailFields DEF FailsWith
<1>3. \A c \in Row : \/ entry'[p][c] = entry[p][c]
                     \/ s = Flush /\ Ended(c) /\ ~Refreshing(p, c) /\ entry'[p][c] = NoEntry
  BY <1>1, FailFields DEF ForgetsAt
<1>4. Forgotten'
  BY <1>2, <1>3, ForgottenAfter DEF Placed
<1>5. ForgetsOnly
  <2>1. write'[p][s].phase = "idle"
    BY <1>2 DEF NoWrite
  <2> QED BY <1>1, <1>2, <1>3, <2>1 DEF ForgetsOnly
<1>6. ASSUME NEW o \in Request  PROVE RequestPlaced(o)'
  <2>1. req[o].phase = "wait" => write[ProcessOf[o]][req[o].row].phase # "idle" /\ req[o].row \in Writer
    BY RowFacts DEF Placed, RequestPlaced, Refreshing
  <2>2. req'[o].phase = "wait" => write'[ProcessOf[o]][req[o].row].phase # "idle"
    <3>1. CASE ProcessOf[o] = p /\ req[o].row \in FailsWith(p, s)
      <4>1. req[o].phase = "wait" => req'[o].phase = "thrown"
        BY <1>1, <3>1, WaitingFields
      <4>2. req'[o].phase = "wait" => req[o].phase = "wait"
        BY <1>1, WaitingFields
      <4> QED BY <4>1, <4>2
    <3>2. CASE ~(ProcessOf[o] = p /\ req[o].row \in FailsWith(p, s))
      <4>1. req'[o].phase = "wait" => req[o].phase = "wait"
        BY <1>1, WaitingFields
      <4> QED BY <1>2, <2>1, <3>2, <4>1
    <3> QED BY <3>1, <3>2
  <2>3. window' \in Int /\ window <= window'
    BY <1>2 DEF TypeOK
  <2>4. /\ req'[o].next = req[o].next /\ req'[o].row = req[o].row /\ req'[o].got \subseteq req[o].got
        /\ \/ req'[o].phase = req[o].phase
           \/ req[o].phase = "wait" /\ req'[o].phase = "thrown"
    BY <1>1, WaitingFields
  <2> QED BY <1>5, <2>2, <2>3, <2>4, RequestUnmoved
<1>7. ASSUME NEW q \in Process, NEW t \in Writer  PROVE WritePlaced(q, t)'
  <2>1. write'[q][t] = write[q][t] \/ write'[q][t] = NoWrite
    BY <1>2
  <2> QED BY <1>5, <2>1, WriteUnmoved, IdlePlaced
<1> QED
  BY <1>4, <1>6, <1>7 DEF Placed

\* A step of the writes alone that makes no entry and forgets none.
LEMMA WriteMovesPlaced ==
  ASSUME TypeOK, Placed, NEW p \in Process, NEW s \in Writer,
         entry' = entry, req' = req, window' = window,
         \A q \in Process, t \in Writer : q # p \/ t # s => write'[q][t] = write[q][t],
         write'[p][s].phase \in UnderWay, WritePlaced(p, s)'
  PROVE  Placed'
<1>1. ForgetsOnly /\ Forgotten'
  BY ForgottenAfter DEF ForgetsOnly, Placed
<1>2. ASSUME NEW o \in Request  PROVE RequestPlaced(o)'
  <2>1. req[o].phase = "wait" => write[ProcessOf[o]][req[o].row].phase # "idle" /\ req[o].row \in Writer
    BY RowFacts DEF Placed, RequestPlaced, Refreshing
  <2>2. req'[o].phase = "wait" => write'[ProcessOf[o]][req[o].row].phase # "idle"
    BY <2>1 DEF UnderWay
  <2>3. window' \in Int /\ window <= window'
    BY DEF TypeOK
  <2> QED BY <1>1, <2>2, <2>3, RequestUnmoved
<1>3. ASSUME NEW q \in Process, NEW t \in Writer  PROVE WritePlaced(q, t)'
  BY <1>1, WriteUnmoved
<1> QED
  BY <1>1, <1>2, <1>3 DEF Placed

LEMMA PlacedInit == Init => Placed
<1> SUFFICES ASSUME Init PROVE Placed
  OBVIOUS
<1>1. Forgotten
  BY DEF Init, QuotasInit, Forgotten
<1>2. ASSUME NEW r \in Request  PROVE RequestPlaced(r)
  <2>1. req[r] = [phase |-> After(r, 0), next |-> 1, row |-> <<>>, got |-> {}]
    BY DEF Init
  <2>2. Len(Asks[r]) \in Nat
    OBVIOUS
  <2>3. After(r, 0) \in {"ask", "key", "admitted"} /\ (After(r, 0) = "ask" => 1 <= Len(Asks[r]))
    BY <2>2 DEF After
  <2> QED BY <2>1, <2>2, <2>3 DEF RequestPlaced
<1>3. \A p \in Process, s \in Writer : WritePlaced(p, s)
  BY DEF Init, QuotasInit, WritePlaced, NoWrite, UnderWay
<1> QED
  BY <1>1, <1>2, <1>3 DEF Placed

LEMMA PlacedStep ==
  ASSUME TypeOK, Placed, [Next]_vars  PROVE Placed'
<1> USE DEF Placed
<1>1. ASSUME NEW r \in Request, ReserveAfterRead(r)  PROVE Placed'
  <2>1. PICK c \in Row : c = req[r].row
    BY <1>1 DEF ReserveAfterRead, RequestPlaced
  <2>2. c[1] = Asks[r][req[r].next] /\ req[r].next <= Len(Asks[r]) /\ Decide(r, c)
    BY <1>1, <2>1 DEF ReserveAfterRead, RequestPlaced
  <2> QED BY <2>2, DecidePlaced
<1>2. ASSUME NEW r \in Request, Reserve(r)  PROVE Placed'
  <2>1. PICK c \in Row : c = Present(r)
    BY <1>2, PresentType DEF Reserve
  <2>2. c[1] = Asks[r][req[r].next] /\ req[r].next <= Len(Asks[r]) /\ Decide(r, c)
    BY <1>2, <2>1, PresentType DEF Reserve, RequestPlaced
  <2> QED BY <2>2, DecidePlaced
<1>3. ASSUME NEW r \in Request, ReserveRead(r)  PROVE Placed'
  BY <1>3, ReserveReadPlaced
<1>4. ASSUME NEW r \in Request, ConsumeKey(r) \/ ConsumeKeyFails(r)  PROVE Placed'
  BY <1>4, ConsumePlaced
<1>5. ASSUME NEW p \in Process, NEW s \in Writer, Store(p, s), UNCHANGED <<keyCount, req>>  PROVE Placed'
  <2>1. /\ entry' = entry /\ window' = window /\ req' = req /\ write[p][s].phase = "sent"
        /\ \A q \in Process, t \in Writer : q # p \/ t # s => write'[q][t] = write[q][t]
        /\ write'[p][s].phase = "stored"
        /\ write'[p][s].rows = write[p][s].rows /\ write'[p][s].units = write[p][s].units
    BY <1>5, StoreFields
  <2>2. WritePlaced(p, s)'
    BY <2>1 DEF WritePlaced, UnderWay
  <2> QED BY <2>1, <2>2, WriteMovesPlaced DEF UnderWay
<1>6. ASSUME NEW p \in Process, NEW s \in Writer, WriteAnswered(p, s)  PROVE Placed'
  BY <1>6, AnsweredPlaced
<1>7. ASSUME NEW p \in Process, NEW s \in Writer, WriteFails(p, s)  PROVE Placed'
  BY <1>7, FailsPlaced
<1>8. ASSUME NEW p \in Process, FlushTimer(p)  PROVE Placed'
  <2>1. Settled(p) /\ FlushStart(p) /\ req' = req /\ window' = window
    BY <1>8 DEF FlushTimer, FlushStart
  <2>2. /\ \A q \in Process : q # p => entry'[q] = entry[q] /\ write'[q] = write[q]
        /\ ~Flushing(p)
    BY <2>1, FlushStartFields
  <2>3. CASE write' = write /\ \A c \in Row : entry'[p][c] = entry[p][c] \/ ForgetsAt(p, c)
    <3>1. Forgotten'
      BY <2>2, <2>3, ForgottenAfter DEF ForgetsAt
    <3>2. ForgetsOnly
      BY <2>1, <2>2, <2>3 DEF ForgetsOnly, ForgetsAt, Flushing
    <3>3. \A o \in Request : req[o].phase = "wait" => write[ProcessOf[o]][req[o].row].phase # "idle"
      BY DEF RequestPlaced, Refreshing
    <3>4. window \in Int /\ window <= window
      BY DEF TypeOK
    <3>5. \A o \in Request : RequestPlaced(o)'
      BY <2>1, <2>3, <3>2, <3>3, <3>4, RequestUnmoved
    <3>6. \A q \in Process, t \in Writer : WritePlaced(q, t)'
      BY <2>3, <3>2, WriteUnmoved
    <3> QED BY <3>1, <3>5, <3>6
  <2>4. CASE /\ entry' = entry
             /\ \A s \in Writer : s # Flush => write'[p][s] = write[p][s]
             /\ write'[p][Flush].phase = "sent" /\ write'[p][Flush].rows = Pending(p)
             /\ \A c \in Row : write'[p][Flush].units[c] = entry[p][c].pending
    <3>1. ASSUME NEW c \in Row
          PROVE  IF c \in Pending(p) THEN entry[p][c].kept ELSE entry[p][c].pending = 0
      BY DEF Pending, Forgotten, NoEntry
    <3>2. WritePlaced(p, Flush)'
      <4>1. Flush \notin Row
        BY DEF Row
      <4> QED BY <2>4, <3>1, <4>1, SMTT(20) DEF WritePlaced
    <3> QED BY <2>1, <2>2, <2>4, <3>2, RowFacts, WriteMovesPlaced DEF UnderWay
  <2> QED BY <2>1, <2>3, <2>4, FlushStartFields
<1>9. ASSUME NEW p \in Process, NEW c \in Row, ReadGoesOn(p, c), UNCHANGED <<keyCount, req>>  PROVE Placed'
  <2>1. /\ entry' = entry /\ window' = window /\ req' = req /\ write[p][c].phase = "waiting"
        /\ \A q \in Process, s \in Writer : q # p \/ s # c => write'[q][s] = write[q][s]
        /\ write'[p][c].phase = "sent" /\ write'[p][c].rows = {c}
        /\ \A d \in Row : d # c => write'[p][c].units[d] = 0
    BY <1>9, ReadGoesOnFields
  <2>2. entry[p][c].kept /\ c \in Writer /\ c # Flush
    BY <2>1, RowFacts DEF WritePlaced
  <2>3. WritePlaced(p, c)'
    BY <2>1, <2>2 DEF WritePlaced, UnderWay
  <2> QED BY <2>1, <2>2, <2>3, WriteMovesPlaced DEF UnderWay
<1>10. ASSUME NEW p \in Process, NEW c \in Row, GrowStale(p, c), UNCHANGED <<keyCount, req>>  PROVE Placed'
  <2>1. /\ entry'[p][c] = [entry[p][c] EXCEPT !.read = "stale"]
        /\ \A q \in Process, d \in Row : q # p \/ d # c => entry'[q][d] = entry[q][d]
        /\ window' = window /\ write' = write /\ req' = req /\ entry[p][c].read = "fresh"
    BY <1>10 DEF GrowStale, TypeOK
  <2>2. entry[p][c].kept /\ entry'[p][c].kept
    <3>1. entry[p][c].kept
      BY <2>1 DEF Forgotten, NoEntry
    <3> QED BY <2>1, <3>1, EntryForType DEF Entry
  <2>3. Forgotten' /\ ForgetsOnly
    <3>1. \A q \in Process, d \in Row : entry'[q][d].kept \/ entry'[q][d] = entry[q][d]
      BY <2>1, <2>2
    <3>2. Forgotten'
      BY <3>1, ForgottenAfter
    <3>3. ForgetsOnly
      BY <2>1, <2>2 DEF ForgetsOnly
    <3> QED BY <3>2, <3>3
  <2>4. \A o \in Request : req[o].phase = "wait" => write[ProcessOf[o]][req[o].row].phase # "idle"
    BY DEF RequestPlaced, Refreshing
  <2>5. window \in Int /\ window <= window
    BY DEF TypeOK
  <2>6. \A o \in Request : RequestPlaced(o)'
    BY <2>1, <2>3, <2>4, <2>5, RequestUnmoved
  <2>7. \A q \in Process, t \in Writer : WritePlaced(q, t)'
    BY <2>1, <2>3, WriteUnmoved
  <2> QED BY <2>3, <2>6, <2>7
<1>11. ASSUME window' \in Int, window <= window', UNCHANGED <<entry, write, req>>  PROVE Placed'
  <2>1. Forgotten' /\ ForgetsOnly
    BY <1>11, ForgottenAfter DEF ForgetsOnly
  <2>2. \A o \in Request : req[o].phase = "wait" => write[ProcessOf[o]][req[o].row].phase # "idle"
    BY DEF RequestPlaced, Refreshing
  <2>3. \A o \in Request : RequestPlaced(o)'
    BY <1>11, <2>1, <2>2, RequestUnmoved
  <2>4. \A q \in Process, t \in Writer : WritePlaced(q, t)'
    BY <1>11, <2>1, WriteUnmoved
  <2> QED BY <2>1, <2>3, <2>4
<1>12. ASSUME WindowEnds, UNCHANGED <<keyCount, req>>  PROVE Placed'
  BY <1>11, <1>12 DEF WindowEnds, TypeOK
<1>13. ASSUME MinutePasses \/ UNCHANGED vars  PROVE Placed'
  BY <1>11, <1>13 DEF MinutePasses, vars, quotas, TypeOK
<1> QED
  BY <1>1, <1>2, <1>3, <1>4, <1>5, <1>6, <1>7, <1>8, <1>9, <1>10, <1>12, <1>13
     DEF Next, RequestStep, WriteStep

-----------------------------------------------------------------------------
(* Accounts                                                                *)

Neg(n) == IF n < 0 THEN n ELSE 0
Pos(n) == IF n > 0 THEN n ELSE 0

\* The units of a row in a write under way, and the total it has or will have.
Sent(p, s, c) == IF write[p][s].phase \in UnderWay THEN write[p][s].units[c] ELSE 0
Total(p, s, c) ==
  IF write[p][s].phase = "stored" /\ c \in write[p][s].rows THEN write[p][s].total[c] ELSE entry[p][c].known

\* What a process knows it wrote of what it granted, and what it did write.
Written(p, c) == GrantedBy(p, c) - entry[p][c].pending
Own(p, c) == Written(p, c) + Stored(p, c, c) + Stored(p, Flush, c)

\* A row is what the processes wrote to it.
Balanced(c) == counter[c] = SumFunction([p \in Process |-> Own(p, c)])
Conserved == \A c \in Row : ~Ended(c) => Balanced(c)

\* While no request gives units back, a write takes out of the row no more
\* than was written, and writes no more than twice what was granted.
Bounds(g, w, u, v) ==
  /\ -g <= u /\ u <= g /\ -g <= v /\ v <= g
  /\ w + Neg(u) + Neg(v) >= 0
  /\ w + Pos(u) + Pos(v) <= 2 * g
Bounded(p, c) == Bounds(GrantedBy(p, c), Written(p, c), Sent(p, c, c), Sent(p, Flush, c))

\* What a process knows covers what it wrote, whichever answers are to come:
\* that of a read with u units and total t, that of a flush with v and tt.
Covers(known, w, u, t, v, tt) ==
  /\ known >= w + Neg(u) + Neg(v)
  /\ Larger(known, t) >= w + u + Neg(v)
  /\ Larger(known, tt) >= w + v + Neg(u)
  /\ Larger(known, Larger(t, tt)) >= w + u + v
Covered(p, c) ==
  Covers(entry[p][c].known, Written(p, c), Stored(p, c, c), Total(p, c, c),
         Stored(p, Flush, c), Total(p, Flush, c))

Alive(p, c) == entry[p][c].kept \/ ~Ended(c)

Trusts(p) ==
  OthersKeep(p) =>
    \A c \in Row :
      /\ Alive(p, c) => Balanced(c) /\ Covered(p, c)
      /\ \A q \in Process : q # p => Bounded(q, c)

-----------------------------------------------------------------------------
(* Their arithmetic                                                        *)

LEMMA BoundsGrow ==
  ASSUME NEW g \in Int, NEW w \in Int, NEW u \in Int, NEW v \in Int, NEW n \in Nat, Bounds(g, w, u, v)
  PROVE  Bounds(g + n, w, u, v)
BY DEF Bounds, Neg, Pos

LEMMA BoundsSend ==
  ASSUME NEW g \in Int, NEW w \in Int, NEW u \in Int, NEW v \in Int, Bounds(g, w, u, v)
  PROVE  Bounds(g, w, g - w, v) /\ Bounds(g, w, u, g - w)
BY DEF Bounds, Neg, Pos

LEMMA BoundsSettle ==
  ASSUME NEW g \in Int, NEW w \in Int, NEW u \in Int, NEW v \in Int, Bounds(g, w, u, v)
  PROVE  /\ Bounds(g, w + u, 0, v) /\ Bounds(g, w + v, u, 0)
         /\ Bounds(g, w, 0, v) /\ Bounds(g, w, u, 0) /\ Bounds(g, w, 0, 0)
BY DEF Bounds, Neg, Pos

LEMMA BoundsWritten ==
  ASSUME NEW g \in Int, NEW w \in Int, NEW u \in Int, NEW v \in Int, Bounds(g, w, u, v),
         NEW a \in {0, u}, NEW b \in {0, v}
  PROVE  w + a + b >= 0
BY DEF Bounds, Neg, Pos

LEMMA CoversTurned ==
  ASSUME NEW k \in Int, NEW w \in Int, NEW u \in Int, NEW t \in Int, NEW v \in Int, NEW tt \in Int,
         Covers(k, w, u, t, v, tt)
  PROVE  Covers(k, w, v, tt, u, t)
BY DEF Covers, Neg, Larger

LEMMA CoversStore ==
  ASSUME NEW k \in Int, NEW w \in Int, NEW u \in Int, NEW t \in Int, NEW v \in Int, NEW tt \in Int,
         Covers(k, w, 0, k, v, tt), t >= w + u + v
  PROVE  Covers(k, w, u, t, v, tt)
BY DEF Covers, Neg, Larger

LEMMA CoversAnswer ==
  ASSUME NEW k \in Int, NEW w \in Int, NEW u \in Int, NEW t \in Int, NEW v \in Int, NEW tt \in Int,
         Covers(k, w, u, t, v, tt),
         NEW ta \in Int, ta = tt \/ (v = 0 /\ ta = Larger(k, t))
  PROVE  Covers(Larger(k, t), w + u, 0, Larger(k, t), v, ta)
BY DEF Covers, Neg, Larger

-----------------------------------------------------------------------------
(* What requests hold                                                      *)

Part(r, p, c) == IF ProcessOf[r] = p /\ c \in req[r].got THEN Units[r] ELSE 0

LEMMA GrantedType ==
  ASSUME NEW p, NEW c
  PROVE  GrantedBy(p, c) \in Nat
<1> DEFINE g == [r \in Request |-> IF ProcessOf[r] = p /\ c \in req[r].got THEN Units[r] ELSE 0]
<1>1. g \in [Request -> Nat] /\ g \in [Request -> Int]
  OBVIOUS
<1>2. CASE Request = {}
  <2>1. SumFunction(g) = 0
    <3> HIDE DEF g
    <3> QED BY <1>1, <1>2, SumZero
  <2> QED BY <2>1 DEF GrantedBy
<1>3. CASE Request # {}
  <2>1. SumFunction(g) \in Nat
    <3> HIDE DEF g
    <3> QED BY <1>1, <1>3, SumBounds
  <2> QED BY <2>1 DEF GrantedBy
<1> QED
  BY <1>2, <1>3

\* Only one request's units change.
LEMMA GrantedChange ==
  ASSUME NEW r \in Request, \A o \in Request : o # r => req'[o].got = req[o].got, NEW p, NEW c
  PROVE  GrantedBy(p, c)' = GrantedBy(p, c) + Part(r, p, c)' - Part(r, p, c)
<1> DEFINE g == [o \in Request |-> IF ProcessOf[o] = p /\ c \in req[o].got THEN Units[o] ELSE 0]
           h == [o \in Request |-> IF ProcessOf[o] = p /\ c \in req'[o].got THEN Units[o] ELSE 0]
<1>1. /\ g \in [Request -> Int] /\ h \in [Request -> Int]
      /\ \A o \in Request : o # r => h[o] = g[o]
  OBVIOUS
<1>2. SumFunction(h) = SumFunction(g) + h[r] - g[r]
  <2>1. IsFiniteSet(Request)
    OBVIOUS
  <2> HIDE DEF g, h
  <2> QED BY ONLY <1>1, <2>1, SumChange, r \in Request
<1>3. g[r] = Part(r, p, c) /\ h[r] = Part(r, p, c)'
  BY DEF Part
<1>4. GrantedBy(p, c) = SumFunction(g) /\ GrantedBy(p, c)' = SumFunction(h)
  BY DEF GrantedBy
<1> HIDE DEF g, h
<1> QED
  BY <1>2, <1>3, <1>4

LEMMA GrantedSame ==
  ASSUME \A o \in Request : req'[o].got = req[o].got, NEW p, NEW c
  PROVE  GrantedBy(p, c)' = GrantedBy(p, c)
BY DEF GrantedBy

\* What requests hold, process by process.
LEMMA HeldByProcess ==
  ASSUME NEW c
  PROVE  Held(c) = SumFunction([p \in Process |-> GrantedBy(p, c)])
<1> DEFINE g == [r \in Request |-> IF c \in req[r].got THEN Units[r] ELSE 0]
           By(p) == [r \in Request |-> IF ProcessOf[r] = p THEN g[r] ELSE 0]
<1>1. g \in [Request -> Int]
  OBVIOUS
<1>2. SumFunction(g) = SumFunction([p \in Process |-> SumFunction([r \in Request |-> IF ProcessOf[r] = p THEN g[r] ELSE 0])])
  <2>1. IsFiniteSet(Request) /\ IsFiniteSet(Process) /\ ProcessOf \in [Request -> Process]
    OBVIOUS
  <2> HIDE DEF g
  <2> QED BY ONLY <1>1, <2>1, SumByClass
<1>3. \A p \in Process :
        By(p) = [r \in Request |-> IF ProcessOf[r] = p /\ c \in req[r].got THEN Units[r] ELSE 0]
  OBVIOUS
<1>4. \A p \in Process : GrantedBy(p, c) = SumFunction(By(p))
  BY <1>3 DEF GrantedBy
<1>5. [p \in Process |-> GrantedBy(p, c)] = [p \in Process |-> SumFunction(By(p))]
  <2> HIDE DEF By
  <2> QED BY <1>4
<1> QED
  BY <1>2, <1>5 DEF Held

-----------------------------------------------------------------------------
(* The types of the accounts                                               *)

LEMMA AccountTypes ==
  ASSUME TypeOK, NEW p \in Process, NEW c \in Row
  PROVE  /\ entry[p][c].pending \in Int /\ entry[p][c].known \in Int
         /\ counter[c] \in Int /\ c \in Writer /\ Flush \in Writer /\ c # Flush
         /\ \A s \in Writer : /\ write[p][s].units[c] \in Int /\ write[p][s].total[c] \in Int
                              /\ Sent(p, s, c) \in Int /\ Stored(p, s, c) \in Int /\ Total(p, s, c) \in Int
                              /\ Stored(p, s, c) \in {0, Sent(p, s, c)}
         /\ Written(p, c) \in Int /\ Own(p, c) \in Int
         /\ GrantedBy(p, c) \in Int
         /\ Bounded(p, c) => Own(p, c) >= 0
<1>1. entry[p][c].pending \in Int /\ entry[p][c].known \in Int
  BY EntryForType DEF Entry
<1>2. c \in Writer /\ Flush \in Writer /\ c # Flush /\ counter[c] \in Int
  BY RowFacts DEF TypeOK
<1>3. ASSUME NEW s \in Writer
      PROVE  /\ write[p][s].units[c] \in Int /\ write[p][s].total[c] \in Int
             /\ Sent(p, s, c) \in Int /\ Stored(p, s, c) \in Int /\ Total(p, s, c) \in Int
             /\ Stored(p, s, c) \in {0, Sent(p, s, c)}
  <2>1. write[p][s].units[c] \in Int /\ write[p][s].total[c] \in Int
    BY DEF TypeOK, Write
  <2> QED BY <1>1, <2>1 DEF Sent, Stored, Total, UnderWay
<1>4. GrantedBy(p, c) \in Int
  BY GrantedType
<1>5. Written(p, c) \in Int
  BY <1>1, <1>4 DEF Written
<1>6. Own(p, c) \in Int
  BY <1>2, <1>3, <1>5 DEF Own
<1>7. Bounded(p, c) => Own(p, c) >= 0
  BY <1>2, <1>3, <1>4, <1>5, BoundsWritten DEF Bounded, Own
<1> QED
  BY <1>1, <1>2, <1>3, <1>4, <1>5, <1>6, <1>7

LEMMA OwnType ==
  ASSUME TypeOK, NEW c \in Row
  PROVE  [p \in Process |-> Own(p, c)] \in [Process -> Int]
BY AccountTypes

-----------------------------------------------------------------------------
(* What a step of one process carries over                                 *)

Balances(p, c) == Own(p, c)' \in Int /\ counter'[c] = counter[c] + Own(p, c)' - Own(p, c)

\* Only units of an ended window that the process has forgotten are lost, when
\* they are given back.
Carries(p, c) ==
  \/ /\ Balances(p, c)
     /\ (\E q \in Process : q # p /\ OthersKeep(q)') => (Bounded(p, c) => Bounded(p, c)')
     /\ OthersKeep(p)' /\ Alive(p, c)' => Alive(p, c) /\ (Covered(p, c) => Covered(p, c)')
  \/ Ended(c) /\ ~Alive(p, c)' /\ \A q \in Process : q # p => ~OthersKeep(q)'

Untouched(q, c) ==
  /\ entry'[q][c] = entry[q][c] /\ write'[q][c] = write[q][c] /\ write'[q][Flush] = write[q][Flush]
  /\ GrantedBy(q, c)' = GrantedBy(q, c)

StepOf(p) ==
  /\ window' \in Int /\ window <= window'
  /\ \A q \in Process : OthersKeep(q)' => OthersKeep(q)
  /\ \A q \in Process, c \in Row : q # p => Untouched(q, c)
  /\ \A c \in Row : Carries(p, c)

LEMMA UntouchedAccounts ==
  ASSUME NEW q, NEW c, Untouched(q, c)
  PROVE  /\ Own(q, c)' = Own(q, c)
         /\ Bounded(q, c) => Bounded(q, c)'
         /\ Covered(q, c) => Covered(q, c)'
<1>1. /\ Written(q, c)' = Written(q, c)
      /\ Stored(q, c, c)' = Stored(q, c, c) /\ Stored(q, Flush, c)' = Stored(q, Flush, c)
      /\ Sent(q, c, c)' = Sent(q, c, c) /\ Sent(q, Flush, c)' = Sent(q, Flush, c)
      /\ Total(q, c, c)' = Total(q, c, c) /\ Total(q, Flush, c)' = Total(q, Flush, c)
  BY DEF Untouched, Written, Stored, Sent, Total
<1>2. entry'[q][c].known = entry[q][c].known /\ GrantedBy(q, c)' = GrantedBy(q, c)
  BY DEF Untouched
<1> QED
  BY <1>1, <1>2 DEF Own, Bounded, Covered

LEMMA BalancedStep ==
  ASSUME TypeOK, NEW p \in Process, NEW c \in Row, Balances(p, c), Balanced(c),
         \A q \in Process : q # p => Own(q, c)' = Own(q, c)
  PROVE  Balanced(c)'
<1> DEFINE g == [q \in Process |-> Own(q, c)]
           h == [q \in Process |-> Own(q, c)']
<1>1. g \in [Process -> Int] /\ \A q \in Process : Own(q, c) \in Int
  BY AccountTypes
<1>2. h \in [Process -> Int] /\ \A q \in Process : q # p => h[q] = g[q]
  BY <1>1 DEF Balances
<1>3. IsFiniteSet(Process)
  OBVIOUS
<1>4. SumFunction(h) = SumFunction(g) + h[p] - g[p]
  <2> HIDE DEF g, h
  <2> QED BY ONLY <1>1, <1>2, <1>3, SumChange, p \in Process
<1>5. h[p] = Own(p, c)' /\ g[p] = Own(p, c)
  OBVIOUS
<1>6. counter[c] = SumFunction(g)
  BY DEF Balanced
<1>7. counter'[c] = SumFunction(h)
  <2> HIDE DEF g, h
  <2> QED BY <1>4, <1>5, <1>6 DEF Balances
<1> QED
  BY <1>7 DEF Balanced

LEMMA Carried ==
  ASSUME TypeOK, Conserved, \A p \in Process : Trusts(p), NEW p \in Process, StepOf(p)
  PROVE  Conserved' /\ \A q \in Process : Trusts(q)'
<1>1. \A c \in Row : (~(Ended(c)') => ~Ended(c)) /\ c[2] \in Int /\ window \in Int
  BY RowFacts DEF StepOf, Ended, TypeOK
<1>2. \A q \in Process, c \in Row :
        q # p => /\ Own(q, c)' = Own(q, c) /\ (Bounded(q, c) => Bounded(q, c)')
                 /\ (Covered(q, c) => Covered(q, c)') /\ (Alive(q, c)' => Alive(q, c))
  <2> TAKE q \in Process, c \in Row
  <2> HAVE q # p
  <2>1. Untouched(q, c)
    BY DEF StepOf
  <2>2. Alive(q, c)' => Alive(q, c)
    BY <1>1, <2>1 DEF Alive, Untouched
  <2> QED BY <2>1, <2>2, UntouchedAccounts
<1>3. ASSUME NEW c \in Row, Balances(p, c), Balanced(c)  PROVE Balanced(c)'
  BY <1>2, <1>3, BalancedStep
<1>4. Conserved'
  <2> SUFFICES ASSUME NEW c \in Row, ~(Ended(c)')  PROVE Balanced(c)'
    BY DEF Conserved
  <2>1. Balanced(c) /\ Alive(p, c)'
    BY <1>1 DEF Conserved, Alive
  <2>2. Balances(p, c)
    BY <2>1 DEF StepOf, Carries
  <2> QED BY <1>3, <2>1, <2>2
<1>5. ASSUME NEW q \in Process, q # p, OthersKeep(q)', NEW c \in Row
      PROVE  /\ Alive(q, c)' => Balanced(c)' /\ Covered(q, c)'
             /\ \A o \in Process : o # q => Bounded(o, c)'
  <2>1. Trusts(q) /\ OthersKeep(q)
    BY <1>5 DEF StepOf
  <2>2. Balances(p, c) /\ (Bounded(p, c) => Bounded(p, c)')
    BY <1>5 DEF StepOf, Carries
  <2>3. Alive(q, c)' => Balanced(c)' /\ Covered(q, c)'
    BY <1>2, <1>3, <1>5, <2>1, <2>2 DEF Trusts
  <2>4. ASSUME NEW o \in Process, o # q  PROVE Bounded(o, c)'
    <3>1. Bounded(o, c)
      BY <2>1, <2>4 DEF Trusts
    <3> QED BY <1>2, <2>2, <3>1
  <2> QED BY <2>3, <2>4
<1>6. ASSUME OthersKeep(p)', NEW c \in Row
      PROVE  /\ Alive(p, c)' => Balanced(c)' /\ Covered(p, c)'
             /\ \A o \in Process : o # p => Bounded(o, c)'
  <2>1. Trusts(p) /\ OthersKeep(p)
    BY <1>6 DEF StepOf
  <2>2. \A o \in Process : o # p => Bounded(o, c)'
    BY <1>2, <2>1 DEF Trusts
  <2>3. ASSUME Alive(p, c)'  PROVE Balanced(c)' /\ Covered(p, c)'
    <3>1. Balances(p, c) /\ Alive(p, c) /\ (Covered(p, c) => Covered(p, c)')
      BY <1>6, <2>3 DEF StepOf, Carries
    <3> QED BY <1>3, <2>1, <3>1 DEF Trusts
  <2> QED BY <2>2, <2>3
<1>7. \A q \in Process : Trusts(q)'
  BY <1>5, <1>6 DEF Trusts
<1> QED
  BY <1>4, <1>7

\* Who gave units back has given them back for ever.
LEMMA GivenBackForEver ==
  ASSUME \A o \in Request : req[o].phase \in {"refused", "thrown"} =>
           req'[o].phase = req[o].phase /\ req'[o].next = req[o].next /\ req'[o].got = req[o].got
  PROVE  \A q \in Process : OthersKeep(q)' => OthersKeep(q)
<1>1. \A o \in Request : GaveBack(o) => GaveBack(o)'
  BY DEF GaveBack
<1> QED
  BY <1>1 DEF OthersKeep

\* The writes of a row bring nothing new to the table, and none of the totals
\* a process is to know.
WritesKeep(p, c) ==
  /\ Stored(p, c, c)' = Stored(p, c, c) /\ Stored(p, Flush, c)' = Stored(p, Flush, c)
  /\ Sent(p, c, c)' \in Int /\ Sent(p, Flush, c)' \in Int
  /\ Bounded(p, c) => Bounds(GrantedBy(p, c), Written(p, c), Sent(p, c, c)', Sent(p, Flush, c)')

TotalsKeep(p, c) ==
  /\ entry'[p][c].known = entry[p][c].known
  /\ Total(p, c, c)' = Total(p, c, c) /\ Total(p, Flush, c)' = Total(p, Flush, c)

\* A row on which a process counts n units, or counts and sends nothing new.
LEMMA CarriesCount ==
  ASSUME TypeOK, NEW p \in Process, NEW c \in Row, NEW n \in Int,
         n >= 0 \/ \A q \in Process : q # p => ~OthersKeep(q)',
         counter'[c] = counter[c],
         GrantedBy(p, c)' = GrantedBy(p, c) + n,
         entry'[p][c].pending = entry[p][c].pending + n,
         WritesKeep(p, c), TotalsKeep(p, c),
         Alive(p, c)' => Alive(p, c)
  PROVE  Carries(p, c)
<1>1. /\ entry[p][c].pending \in Int /\ GrantedBy(p, c) \in Int /\ Own(p, c) \in Int /\ Written(p, c) \in Int
      /\ counter[c] \in Int
  BY AccountTypes
<1>2. Written(p, c)' = Written(p, c)
  BY <1>1 DEF Written
<1>3. Own(p, c)' = Own(p, c)
  BY <1>2 DEF Own, WritesKeep
<1>4. Balances(p, c)
  BY <1>1, <1>3 DEF Balances
<1>5. Covered(p, c) => Covered(p, c)'
  BY <1>2 DEF Covered, WritesKeep, TotalsKeep
<1>6. ASSUME n >= 0, Bounded(p, c)  PROVE Bounded(p, c)'
  <2>1. Bounds(GrantedBy(p, c) + n, Written(p, c), Sent(p, c, c)', Sent(p, Flush, c)')
    BY <1>1, <1>6, BoundsGrow DEF WritesKeep
  <2> QED BY <1>2, <2>1 DEF Bounded
<1> QED
  BY <1>4, <1>5, <1>6 DEF Carries

\* The writes of a row are left alone.
LEMMA WritesSame ==
  ASSUME TypeOK, NEW p \in Process, NEW c \in Row, write'[p][c] = write[p][c], write'[p][Flush] = write[p][Flush],
         entry'[p][c].known = entry[p][c].known
  PROVE  WritesKeep(p, c) /\ TotalsKeep(p, c)
<1>1. /\ Stored(p, c, c)' = Stored(p, c, c) /\ Stored(p, Flush, c)' = Stored(p, Flush, c)
      /\ Total(p, c, c)' = Total(p, c, c) /\ Total(p, Flush, c)' = Total(p, Flush, c)
      /\ Sent(p, c, c)' = Sent(p, c, c) /\ Sent(p, Flush, c)' = Sent(p, Flush, c)
  BY DEF Stored, Total, Sent
<1> QED
  BY <1>1, AccountTypes DEF Bounded, WritesKeep, TotalsKeep

-----------------------------------------------------------------------------
(* What each operation carries over                                        *)

\* Only the request r changes, and not one that has ended.
OneRequest(r) ==
  /\ req[r].phase \notin {"refused", "thrown"}
  /\ \A o \in Request : o # r => req'[o] = req[o]

LEMMA OneRequestStep ==
  ASSUME TypeOK, NEW r \in Request, OneRequest(r)
  PROVE  /\ \A q \in Process : OthersKeep(q)' => OthersKeep(q)
         /\ \A q, c : GrantedBy(q, c)' = GrantedBy(q, c) + Part(r, q, c)' - Part(r, q, c)
         /\ \A q \in Process, c \in Row : q # ProcessOf[r] => GrantedBy(q, c)' = GrantedBy(q, c)
<1>1. \A q \in Process : OthersKeep(q)' => OthersKeep(q)
  BY GivenBackForEver DEF OneRequest
<1>2. \A o \in Request : o # r => req'[o].got = req[o].got
  BY DEF OneRequest
<1>3. \A q, c : GrantedBy(q, c)' = GrantedBy(q, c) + Part(r, q, c)' - Part(r, q, c)
  BY <1>2, GrantedChange
<1>4. \A q, c : GrantedBy(q, c) \in Nat
  BY GrantedType
<1>5. \A q \in Process, c \in Row : q # ProcessOf[r] => GrantedBy(q, c)' = GrantedBy(q, c)
  BY <1>3, <1>4 DEF Part
<1> QED
  BY <1>1, <1>3, <1>5

\* A refusal or a failure gives back what the request reserved.
LEMMA ReleaseStep ==
  ASSUME TypeOK, Placed, NEW r \in Request, OneRequest(r),
         ReleaseReserved(r, req[r].got),
         req'[r].phase \in {"refused", "thrown"}, req'[r].next = req[r].next, req'[r].got = {},
         UNCHANGED <<counter, window, write>>
  PROVE  StepOf(ProcessOf[r])
<1> DEFINE p == ProcessOf[r]
<1>1. p \in Process /\ Units[r] \in Nat /\ window \in Int /\ RequestPlaced(r) /\ req[r].next \in Nat
  BY DEF Placed, TypeOK, RequestState
<1>2. /\ \A q \in Process : OthersKeep(q)' => OthersKeep(q)
      /\ \A q, c : GrantedBy(q, c)' = GrantedBy(q, c) + Part(r, q, c)' - Part(r, q, c)
      /\ \A q \in Process, c \in Row : q # p => GrantedBy(q, c)' = GrantedBy(q, c)
  BY OneRequestStep
<1>3. \A q \in Process, c \in Row :
        /\ (entry'[q][c].kept <=> entry[q][c].kept)
        /\ entry'[q][c].known = entry[q][c].known
        /\ entry'[q][c].pending =
             IF q = p /\ c \in req[r].got /\ entry[q][c].kept
             THEN entry[q][c].pending - Units[r] ELSE entry[q][c].pending
  BY ReleaseFields
<1>4. \A q \in Process, c \in Row : q # p => entry'[q][c] = entry[q][c]
  BY DEF ReleaseReserved, Release, TypeOK
<1>5. ASSUME NEW c \in req[r].got  PROVE \A q \in Process : q # p => ~OthersKeep(q)'
  <2>1. req[r].next > 1
    BY <1>1, <1>5 DEF RequestPlaced
  <2>2. GaveBack(r)'
    BY <2>1 DEF GaveBack
  <2> QED BY <2>2 DEF OthersKeep
<1>6. ASSUME NEW c \in Row  PROVE Carries(p, c)
  <2>1. WritesKeep(p, c) /\ TotalsKeep(p, c)
    BY <1>1, <1>3, WritesSame
  <2>2. (Alive(p, c)' <=> Alive(p, c)) /\ counter'[c] = counter[c]
    BY <1>1, <1>3 DEF Alive, Ended
  <2>3. entry[p][c].pending \in Int /\ GrantedBy(p, c) \in Int
    BY <1>1, AccountTypes
  <2>4. GrantedBy(p, c)' = GrantedBy(p, c) - (IF c \in req[r].got THEN Units[r] ELSE 0)
    BY <1>1, <1>2, <2>3 DEF Part
  <2>5. CASE c \in req[r].got /\ entry[p][c].kept
    <3>1. /\ GrantedBy(p, c)' = GrantedBy(p, c) + (-Units[r])
          /\ entry'[p][c].pending = entry[p][c].pending + (-Units[r]) /\ -Units[r] \in Int
      BY <1>1, <1>3, <2>3, <2>4, <2>5
    <3> QED BY <1>1, <1>5, <2>1, <2>2, <2>5, <3>1, CarriesCount
  <2>6. CASE c \in req[r].got /\ ~entry[p][c].kept
    <3>1. Ended(c)
      BY <1>1, <2>6 DEF RequestPlaced
    <3>2. ~Alive(p, c)'
      BY <2>2, <2>6, <3>1 DEF Alive
    <3> QED BY <1>5, <2>6, <3>1, <3>2 DEF Carries
  <2>7. CASE c \notin req[r].got
    <3>1. /\ GrantedBy(p, c)' = GrantedBy(p, c) + 0
          /\ entry'[p][c].pending = entry[p][c].pending + 0
      BY <1>1, <1>3, <2>3, <2>4, <2>7
    <3> QED BY <1>1, <2>1, <2>2, <3>1, CarriesCount
  <2> QED BY <2>5, <2>6, <2>7
<1>7. \A q \in Process, c \in Row : q # p => Untouched(q, c)
  BY <1>2, <1>4 DEF Untouched
<1> QED
  BY <1>1, <1>2, <1>6, <1>7 DEF StepOf

\* The quota a request asks for is none it has reserved.
LEMMA AsksOnce ==
  ASSUME TypeOK, Placed, NEW r \in Request, NEW c \in Row,
         c[1] = Asks[r][req[r].next], req[r].next <= Len(Asks[r])
  PROVE  c \notin req[r].got
<1>1. RequestPlaced(r) /\ req[r].next \in Nat \ {0} /\ Asks[r] \in Seq(Quota) /\ IsInjective(Asks[r])
  BY DEF Placed, TypeOK, RequestState
<1>2. SUFFICES ASSUME c \in req[r].got  PROVE FALSE
  OBVIOUS
<1>3. PICK i \in 1..(req[r].next - 1) : i <= Len(Asks[r]) /\ Asks[r][i] = c[1]
  BY <1>1, <1>2 DEF RequestPlaced
<1>4. i \in DOMAIN Asks[r] /\ req[r].next \in DOMAIN Asks[r] /\ i # req[r].next
  BY <1>1, <1>3
<1> QED
  BY <1>1, <1>3, <1>4 DEF IsInjective

LEMMA DecideStep ==
  ASSUME TypeOK, Placed, NEW r \in Request, NEW c \in Row, OneRequest(r),
         c[1] = Asks[r][req[r].next], req[r].next <= Len(Asks[r]), Decide(r, c),
         Alive(ProcessOf[r], c)
  PROVE  StepOf(ProcessOf[r])
<1> DEFINE p == ProcessOf[r]
<1>1. /\ p \in Process /\ Units[r] \in Nat /\ Units[r] >= 0 /\ window \in Int
      /\ counter' = counter /\ window' = window /\ write' = write /\ Forgotten
  BY DEF Placed, TypeOK, Decide
<1>2. CASE Exceeds(EntryFor(p, c), Limit[c[1]], Units[r])
  <2>1. ReleaseReserved(r, req[r].got) /\ req'[r].phase = "refused" /\ req'[r].next = req[r].next
        /\ req'[r].got = {}
    BY <1>2 DEF Decide, TypeOK, RequestState
  <2> QED BY <1>1, <2>1, ReleaseStep
<1>3. CASE ~Exceeds(EntryFor(p, c), Limit[c[1]], Units[r])
  <2>1. Count(p, c, Units[r]) /\ req'[r].got = req[r].got \union {c}
    BY <1>3 DEF Decide, TypeOK, RequestState
  <2>2. /\ \A q \in Process : OthersKeep(q)' => OthersKeep(q)
        /\ \A q, d : GrantedBy(q, d)' = GrantedBy(q, d) + Part(r, q, d)' - Part(r, q, d)
        /\ \A q \in Process, d \in Row : q # p => GrantedBy(q, d)' = GrantedBy(q, d)
    BY OneRequestStep
  <2>3. /\ entry'[p][c].kept
        /\ entry'[p][c].known = entry[p][c].known
        /\ entry'[p][c].pending = entry[p][c].pending + Units[r]
        /\ \A q \in Process, d \in Row : q # p \/ d # c => entry'[q][d] = entry[q][d]
    BY <1>1, <2>1, CountFields
  <2>4. ASSUME NEW d \in Row  PROVE Carries(p, d)
    <3>1. GrantedBy(p, d)' = GrantedBy(p, d) + (IF d = c THEN Units[r] ELSE 0)
      <4>1. GrantedBy(p, d) \in Int /\ c \notin req[r].got
        BY <1>1, AsksOnce, AccountTypes
      <4> QED BY <1>1, <2>1, <2>2, <4>1 DEF Part
    <3>2. WritesKeep(p, d) /\ TotalsKeep(p, d)
      <4>1. entry'[p][d].known = entry[p][d].known
        BY <1>1, <2>3
      <4> QED BY <1>1, <4>1, WritesSame
    <3>3. (Alive(p, d)' => Alive(p, d)) /\ counter'[d] = counter[d]
      BY <1>1, <2>3 DEF Alive, Ended
    <3>4. entry'[p][d].pending = entry[p][d].pending + (IF d = c THEN Units[r] ELSE 0)
      <4>1. entry[p][d].pending \in Int
        BY <1>1, AccountTypes
      <4> QED BY <1>1, <2>3, <4>1
    <3>5. CASE d = c
      BY <1>1, <3>1, <3>2, <3>3, <3>4, <3>5, CarriesCount
    <3>6. CASE d # c
      BY <1>1, <3>1, <3>2, <3>3, <3>4, <3>6, CarriesCount
    <3> QED BY <3>5, <3>6
  <2>5. \A q \in Process, d \in Row : q # p => Untouched(q, d)
    BY <1>1, <2>2, <2>3 DEF Untouched
  <2> QED BY <1>1, <2>2, <2>4, <2>5 DEF StepOf
<1> QED
  BY <1>2, <1>3

-----------------------------------------------------------------------------
(* The steps of reads and flushes                                          *)

\* A row of which nothing changes but that it is sent, or forgotten.
LEMMA CarriesQuiet ==
  ASSUME TypeOK, NEW p \in Process, NEW c \in Row,
         counter'[c] = counter[c], GrantedBy(p, c)' = GrantedBy(p, c), window' = window, WritesKeep(p, c),
         \/ /\ entry'[p][c].pending = entry[p][c].pending /\ TotalsKeep(p, c)
            /\ Alive(p, c)' => Alive(p, c)
         \/ ForgetsAt(p, c)
  PROVE  Carries(p, c)
<1>1. entry[p][c].pending \in Int /\ GrantedBy(p, c) \in Int /\ Own(p, c) \in Int /\ counter[c] \in Int
  BY AccountTypes
<1>2. CASE /\ entry'[p][c].pending = entry[p][c].pending /\ TotalsKeep(p, c)
           /\ Alive(p, c)' => Alive(p, c)
  <2>1. GrantedBy(p, c)' = GrantedBy(p, c) + 0 /\ entry'[p][c].pending = entry[p][c].pending + 0
    BY <1>1, <1>2
  <2> QED BY <1>2, <2>1, CarriesCount
<1>3. CASE ForgetsAt(p, c)
  <2>1. Written(p, c)' = Written(p, c)
    BY <1>3 DEF ForgetsAt, NoEntry, Written
  <2>2. Balances(p, c)
    BY <1>1, <2>1 DEF Balances, Own, WritesKeep
  <2>3. Bounded(p, c) => Bounded(p, c)'
    BY <2>1 DEF Bounded, WritesKeep
  <2>4. ~Alive(p, c)'
    BY <1>3 DEF ForgetsAt, NoEntry, Alive, Ended
  <2> QED BY <2>2, <2>3, <2>4 DEF Carries
<1> QED
  BY <1>2, <1>3

\* A read, or a flush, is sent with the units that are pending.
LEMMA ReadSent ==
  ASSUME TypeOK, NEW p \in Process, NEW c \in Row,
         write[p][c].phase \notin UnderWay, write'[p][Flush] = write[p][Flush],
         \/ write'[p][c].phase = "waiting"
         \/ write'[p][c].phase = "sent" /\ write'[p][c].units[c] = entry[p][c].pending,
         entry'[p][c].known = entry[p][c].known
  PROVE  WritesKeep(p, c) /\ TotalsKeep(p, c)
<1>1. /\ entry[p][c].pending \in Int /\ GrantedBy(p, c) \in Int /\ Written(p, c) \in Int
      /\ Sent(p, c, c) \in Int /\ Sent(p, Flush, c) \in Int
      /\ GrantedBy(p, c) - Written(p, c) = entry[p][c].pending
  BY AccountTypes DEF Written
<1>2. /\ Stored(p, c, c)' = Stored(p, c, c) /\ Stored(p, Flush, c)' = Stored(p, Flush, c)
      /\ Total(p, c, c)' = Total(p, c, c) /\ Total(p, Flush, c)' = Total(p, Flush, c)
      /\ Sent(p, Flush, c)' = Sent(p, Flush, c)
      /\ Sent(p, c, c)' = 0 \/ Sent(p, c, c)' = entry[p][c].pending
  BY DEF Stored, Total, Sent, UnderWay
<1>3. ASSUME Bounded(p, c)
      PROVE  /\ Bounds(GrantedBy(p, c), Written(p, c), 0, Sent(p, Flush, c))
             /\ Bounds(GrantedBy(p, c), Written(p, c), entry[p][c].pending, Sent(p, Flush, c))
  BY <1>1, <1>3, BoundsSend, BoundsSettle DEF Bounded
<1> QED
  BY <1>1, <1>2, <1>3 DEF WritesKeep, TotalsKeep

LEMMA FlushSent ==
  ASSUME TypeOK, NEW p \in Process, NEW c \in Row,
         write[p][Flush].phase \notin UnderWay, write'[p][c] = write[p][c],
         write'[p][Flush].phase = "sent", write'[p][Flush].units[c] = entry[p][c].pending,
         entry'[p][c].known = entry[p][c].known
  PROVE  WritesKeep(p, c) /\ TotalsKeep(p, c)
<1>1. /\ entry[p][c].pending \in Int /\ GrantedBy(p, c) \in Int /\ Written(p, c) \in Int
      /\ Sent(p, c, c) \in Int /\ Sent(p, Flush, c) \in Int
      /\ GrantedBy(p, c) - Written(p, c) = entry[p][c].pending
  BY AccountTypes, SMTT(20) DEF Written
<1>2. /\ Stored(p, c, c)' = Stored(p, c, c) /\ Stored(p, Flush, c)' = Stored(p, Flush, c)
      /\ Total(p, c, c)' = Total(p, c, c) /\ Total(p, Flush, c)' = Total(p, Flush, c)
      /\ Sent(p, c, c)' = Sent(p, c, c) /\ Sent(p, Flush, c)' = entry[p][c].pending
  BY DEF Stored, Total, Sent, UnderWay
<1>3. ASSUME Bounded(p, c)
      PROVE  Bounds(GrantedBy(p, c), Written(p, c), Sent(p, c, c), entry[p][c].pending)
  BY <1>1, <1>3, BoundsSend DEF Bounded
<1> QED
  BY <1>1, <1>2, <1>3 DEF WritesKeep, TotalsKeep

\* Writes that are not stored yet are given up.
LEMMA WritesDropped ==
  ASSUME TypeOK, NEW p \in Process, NEW c \in Row,
         \A s \in {c, Flush} :
           write'[p][s] = write[p][s] \/ (write'[p][s] = NoWrite /\ write[p][s].phase # "stored")
  PROVE  /\ WritesKeep(p, c)
         /\ entry'[p][c].known = entry[p][c].known => TotalsKeep(p, c)
<1>1. /\ GrantedBy(p, c) \in Int /\ Written(p, c) \in Int
      /\ Sent(p, c, c) \in Int /\ Sent(p, Flush, c) \in Int
  BY AccountTypes
<1>2. \A s \in {c, Flush} :
        /\ Stored(p, s, c)' = Stored(p, s, c)
        /\ Sent(p, s, c)' = Sent(p, s, c) \/ Sent(p, s, c)' = 0
        /\ entry'[p][c].known = entry[p][c].known => Total(p, s, c)' = Total(p, s, c)
  BY DEF Stored, Total, Sent, UnderWay, NoWrite
<1>3. ASSUME Bounded(p, c)
      PROVE  Bounds(GrantedBy(p, c), Written(p, c), Sent(p, c, c)', Sent(p, Flush, c)')
  <2>1. /\ Bounds(GrantedBy(p, c), Written(p, c), Sent(p, c, c), Sent(p, Flush, c))
        /\ Bounds(GrantedBy(p, c), Written(p, c), Sent(p, c, c), 0)
        /\ Bounds(GrantedBy(p, c), Written(p, c), 0, Sent(p, Flush, c))
        /\ Bounds(GrantedBy(p, c), Written(p, c), 0, 0)
    BY <1>1, <1>3, BoundsSettle DEF Bounded
  <2> QED BY <1>2, <2>1
<1> QED
  BY <1>1, <1>2, <1>3 DEF WritesKeep, TotalsKeep

\* A step that changes neither what requests hold nor how they ended.
LEMMA QuietRequests ==
  ASSUME \A o \in Request : /\ req'[o].next = req[o].next /\ req'[o].got = req[o].got
                            /\ req[o].phase \in {"refused", "thrown"} => req'[o].phase = req[o].phase
  PROVE  /\ \A q \in Process : OthersKeep(q)' => OthersKeep(q)
         /\ \A q, c : GrantedBy(q, c)' = GrantedBy(q, c)
BY GivenBackForEver, GrantedSame

LEMMA ReserveReadStep ==
  ASSUME TypeOK, Placed, NEW r \in Request, ReserveRead(r)
  PROVE  StepOf(ProcessOf[r])
<1> DEFINE p == ProcessOf[r]
<1>0. PICK c \in Row : c = Present(r)
  BY PresentType DEF ReserveRead
<1>1. /\ p \in Process /\ c \in Writer /\ c # Flush /\ Forgotten /\ window \in Int /\ Alive(p, c)
      /\ StartRead(p, c) /\ window' = window /\ counter' = counter
  BY <1>0, PresentType, RowFacts DEF ReserveRead, Placed, TypeOK, Alive, Ended
<1>2. \A o \in Request : /\ req'[o].next = req[o].next /\ req'[o].got = req[o].got
                         /\ req[o].phase \in {"refused", "thrown"} => req'[o].phase = req[o].phase
  BY DEF ReserveRead, TypeOK, RequestState
<1>3. /\ \A q \in Process : OthersKeep(q)' => OthersKeep(q)
      /\ \A q, d : GrantedBy(q, d)' = GrantedBy(q, d)
  BY <1>2, QuietRequests
<1>4. /\ entry'[p][c].kept
      /\ entry'[p][c].known = entry[p][c].known
      /\ entry'[p][c].pending = entry[p][c].pending
      /\ \A q \in Process, d \in Row : q # p \/ d # c => entry'[q][d] = entry[q][d]
  BY <1>1, StartReadFields
<1>5. /\ \A q \in Process, s \in Writer : q # p \/ s # c => write'[q][s] = write[q][s]
      /\ \/ write'[p][c] = write[p][c]
         \/ /\ write[p][c].phase \notin UnderWay
            /\ \/ write'[p][c].phase = "waiting"
               \/ write'[p][c].phase = "sent" /\ write'[p][c].units[c] = entry[p][c].pending
  BY <1>1, StartReadFields DEF Refreshing, UnderWay
<1>6. ASSUME NEW d \in Row  PROVE Carries(p, d)
  <2>1. /\ entry'[p][d].known = entry[p][d].known /\ entry'[p][d].pending = entry[p][d].pending
        /\ Alive(p, d)' => Alive(p, d)
    BY <1>1, <1>4 DEF Alive, Ended
  <2>2. write'[p][Flush] = write[p][Flush]
    BY <1>1, <1>5, RowFacts
  <2>3. WritesKeep(p, d) /\ TotalsKeep(p, d)
    <3>1. CASE write'[p][d] = write[p][d]
      BY <1>1, <2>1, <2>2, <3>1, WritesSame
    <3>2. CASE d = c /\ write'[p][d] # write[p][d]
      BY <1>1, <1>5, <2>1, <2>2, <3>2, ReadSent
    <3> QED BY <1>1, <1>5, <3>1, <3>2, RowFacts
  <2> QED BY <1>1, <1>3, <2>1, <2>3, CarriesQuiet
<1>7. \A q \in Process, d \in Row : q # p => Untouched(q, d)
  BY <1>3, <1>4, <1>5, RowFacts DEF Untouched
<1> QED
  BY <1>1, <1>3, <1>6, <1>7 DEF StepOf

LEMMA ReadGoesOnStep ==
  ASSUME TypeOK, Placed, NEW p \in Process, NEW c \in Row, ReadGoesOn(p, c), req' = req
  PROVE  StepOf(p)
<1>1. /\ entry' = entry /\ counter' = counter /\ window' = window /\ window \in Int
      /\ \A q \in Process, s \in Writer : q # p \/ s # c => write'[q][s] = write[q][s]
      /\ write[p][c].phase \notin UnderWay
      /\ write'[p][c].phase = "sent" /\ write'[p][c].units[c] = entry[p][c].pending
  BY ReadGoesOnFields DEF UnderWay, TypeOK
<1>2. /\ \A q \in Process : OthersKeep(q)' => OthersKeep(q)
      /\ \A q, d : GrantedBy(q, d)' = GrantedBy(q, d)
  BY QuietRequests
<1>3. ASSUME NEW d \in Row  PROVE Carries(p, d)
  <2>1. /\ entry'[p][d].known = entry[p][d].known /\ entry'[p][d].pending = entry[p][d].pending
        /\ Alive(p, d)' => Alive(p, d)
        /\ write'[p][Flush] = write[p][Flush]
    BY <1>1, RowFacts DEF Alive, Ended
  <2>2. CASE d # c
    BY <1>1, <1>2, <2>1, <2>2, WritesSame, CarriesQuiet, RowFacts
  <2>3. CASE d = c
    <3>1. WritesKeep(p, d) /\ TotalsKeep(p, d)
      BY <1>1, <2>1, <2>3, ReadSent
    <3> QED BY <1>1, <1>2, <2>1, <3>1, CarriesQuiet
  <2> QED BY <2>2, <2>3
<1>4. \A q \in Process, d \in Row : q # p => Untouched(q, d)
  BY <1>1, <1>2, RowFacts DEF Untouched
<1> QED
  BY <1>1, <1>2, <1>3, <1>4 DEF StepOf

LEMMA FlushTimerStep ==
  ASSUME TypeOK, Placed, NEW p \in Process, FlushTimer(p)
  PROVE  StepOf(p)
<1>1. FlushStart(p) /\ req' = req /\ window' = window /\ counter' = counter /\ window \in Int
  BY DEF FlushTimer, FlushStart, TypeOK
<1>2. /\ \A q \in Process : q # p => entry'[q] = entry[q] /\ write'[q] = write[q]
      /\ write[p][Flush].phase \notin UnderWay
  BY <1>1, FlushStartFields DEF Flushing, UnderWay
<1>3. /\ \A q \in Process : OthersKeep(q)' => OthersKeep(q)
      /\ \A q, d : GrantedBy(q, d)' = GrantedBy(q, d)
  BY <1>1, QuietRequests
<1>4. ASSUME NEW c \in Row  PROVE Carries(p, c)
  <2>1. CASE write' = write /\ entry'[p][c] = entry[p][c]
    <3>1. WritesKeep(p, c) /\ TotalsKeep(p, c)
      BY <2>1, WritesSame
    <3>2. Alive(p, c)' => Alive(p, c)
      BY <1>1, <2>1 DEF Alive, Ended
    <3> QED BY <1>1, <1>3, <2>1, <3>1, <3>2, CarriesQuiet
  <2>2. CASE write' = write /\ ForgetsAt(p, c)
    <3>1. WritesKeep(p, c)
      BY <2>2, WritesDropped
    <3> QED BY <1>1, <1>3, <2>2, <3>1, CarriesQuiet
  <2>3. CASE /\ entry' = entry
             /\ write'[p][c] = write[p][c]
             /\ write'[p][Flush].phase = "sent" /\ write'[p][Flush].units[c] = entry[p][c].pending
    <3>1. WritesKeep(p, c) /\ TotalsKeep(p, c)
      BY <1>2, <2>3, FlushSent
    <3>2. Alive(p, c)' => Alive(p, c)
      BY <1>1, <2>3 DEF Alive, Ended
    <3> QED BY <1>1, <1>3, <2>3, <3>1, <3>2, CarriesQuiet
  <2> QED BY <1>1, <2>1, <2>2, <2>3, FlushStartFields, RowFacts
<1>5. \A q \in Process, d \in Row : q # p => Untouched(q, d)
  BY <1>2, <1>3 DEF Untouched
<1> QED
  BY <1>1, <1>3, <1>4, <1>5 DEF StepOf

LEMMA FailsStep ==
  ASSUME TypeOK, Placed, NEW p \in Process, NEW s \in Writer, WriteFails(p, s)
  PROVE  StepOf(p)
<1>1. Fail(p, s) /\ Waiting(p, FailsWith(p, s), "thrown")
  BY DEF WriteFails
<1>2. /\ \A q \in Process : q # p => entry'[q] = entry[q] /\ write'[q] = write[q]
      /\ \A t \in Writer : write'[p][t] = IF t \in FailsWith(p, s) THEN NoWrite ELSE write[p][t]
      /\ write[p][s].phase = "sent" /\ window' = window /\ counter' = counter /\ window \in Int
  BY <1>1, FailFields DEF TypeOK
<1>3. /\ \A q \in Process : OthersKeep(q)' => OthersKeep(q)
      /\ \A q, d : GrantedBy(q, d)' = GrantedBy(q, d)
  <2>1. ASSUME NEW o \in Request
        PROVE  /\ req'[o].next = req[o].next /\ req'[o].got = req[o].got
               /\ req[o].phase \in {"refused", "thrown"} => req'[o].phase = req[o].phase
    BY <1>1, WaitingFields
  <2> QED BY <2>1, QuietRequests
<1>4. \A t \in FailsWith(p, s) : write[p][t].phase # "stored"
  BY <1>2 DEF FailsWith
<1>5. ASSUME NEW c \in Row  PROVE Carries(p, c)
  <2>1. /\ WritesKeep(p, c)
        /\ entry'[p][c].known = entry[p][c].known => TotalsKeep(p, c)
    <3>1. \A t \in {c, Flush} :
            write'[p][t] = write[p][t] \/ (write'[p][t] = NoWrite /\ write[p][t].phase # "stored")
      BY <1>2, <1>4, RowFacts
    <3> QED BY <3>1, WritesDropped
  <2>2. CASE entry'[p][c] = entry[p][c]
    <3>1. Alive(p, c)' => Alive(p, c)
      BY <1>2, <2>2 DEF Alive, Ended
    <3> QED BY <1>2, <1>3, <2>1, <2>2, <3>1, CarriesQuiet
  <2>3. CASE ForgetsAt(p, c)
    BY <1>2, <1>3, <2>1, <2>3, CarriesQuiet
  <2> QED BY <1>1, <2>2, <2>3, FailFields
<1>6. \A q \in Process, d \in Row : q # p => Untouched(q, d)
  BY <1>2, <1>3 DEF Untouched
<1> QED
  BY <1>2, <1>3, <1>5, <1>6 DEF StepOf

\* The units of a row that is not of a stored write are none.
LEMMA StoredNone ==
  ASSUME TypeOK, Placed, NEW p \in Process, NEW c \in Row, NEW s \in {c, Flush},
         ~(write[p][s].phase = "stored" /\ c \in write[p][s].rows)
  PROVE  Stored(p, s, c) = 0
<1>1. s \in Writer
  BY RowFacts
<1>2. WritePlaced(p, s)
  BY <1>1 DEF Placed
<1> QED
  BY <1>2 DEF WritePlaced, UnderWay, Stored

\* The total a write brings covers all that the process wrote to the row.
LEMMA TotalCovers ==
  ASSUME TypeOK, NEW p \in Process, NEW c \in Row, Balances(p, c), Balanced(c),
         \A q \in Process : q # p => Own(q, c)' = Own(q, c) /\ Bounded(q, c)
  PROVE  counter'[c] >= Own(p, c)'
<1> DEFINE h == [q \in Process |-> Own(q, c)']
<1>1. \A q \in Process : q # p => Own(q, c)' \in Int /\ Own(q, c)' >= 0
  BY AccountTypes
<1>2. h \in [Process -> Int] /\ (\A q \in Process : q # p => h[q] >= 0) /\ h[p] = Own(p, c)'
  BY <1>1 DEF Balances
<1>3. IsFiniteSet(Process)
  OBVIOUS
<1>4. SumFunction(h) >= h[p]
  <2> HIDE DEF h
  <2> QED BY ONLY <1>2, <1>3, SumAtLeast, p \in Process
<1>5. Balanced(c)'
  BY BalancedStep
<1>6. counter'[c] = SumFunction(h)
  BY <1>5 DEF Balanced
<1> HIDE DEF h
<1> QED
  BY <1>2, <1>4, <1>6

LEMMA StoreStep ==
  ASSUME TypeOK, Placed, \A o \in Process : Trusts(o),
         NEW p \in Process, NEW s \in Writer, Store(p, s), req' = req
  PROVE  StepOf(p)
<1>1. /\ entry' = entry /\ window' = window /\ window \in Int
      /\ write[p][s].phase = "sent"
      /\ \A q \in Process, t \in Writer : q # p \/ t # s => write'[q][t] = write[q][t]
      /\ write'[p][s].phase = "stored"
      /\ write'[p][s].rows = write[p][s].rows /\ write'[p][s].units = write[p][s].units
      /\ \A c \in Row : /\ counter'[c] = counter[c] + write[p][s].units[c]
                        /\ write'[p][s].total[c] = IF c \in write[p][s].rows THEN counter'[c] ELSE 0
  BY StoreFields DEF TypeOK
<1>2. /\ \A q \in Process : OthersKeep(q)' => OthersKeep(q)
      /\ \A q, d : GrantedBy(q, d)' = GrantedBy(q, d)
  BY QuietRequests
<1>3. \A q \in Process, d \in Row : q # p => Untouched(q, d)
  BY <1>1, <1>2, RowFacts DEF Untouched
<1>4. WritePlaced(p, s)
  BY DEF Placed
<1>5. ASSUME NEW c \in Row  PROVE Carries(p, c)
  <2>1. /\ Alive(p, c)' => Alive(p, c)
        /\ Written(p, c)' = Written(p, c)
    BY <1>1, <1>2 DEF Alive, Ended, Written
  <2>2. /\ Written(p, c) \in Int /\ Own(p, c) \in Int /\ counter[c] \in Int /\ GrantedBy(p, c) \in Int
        /\ entry[p][c].known \in Int /\ write[p][s].units[c] \in Int /\ c \in Writer /\ Flush \in Writer /\ c # Flush
        /\ \A t \in {c, Flush} : Stored(p, t, c) \in Int /\ Total(p, t, c) \in Int /\ Sent(p, t, c) \in Int
    BY AccountTypes
  <2>3. CASE c \notin write[p][s].rows
    <3>1. write[p][s].units[c] = 0
      BY <1>1, <1>4, <2>3 DEF WritePlaced, UnderWay
    <3>2. \A t \in {c, Flush} : /\ Stored(p, t, c)' = Stored(p, t, c) /\ Total(p, t, c)' = Total(p, t, c)
                                /\ Sent(p, t, c)' = Sent(p, t, c)
      <4> TAKE t \in {c, Flush}
      <4>1. CASE t = s
        <5>1. write'[p][s].phase = "stored" /\ write'[p][s].units[c] = 0 /\ write[p][s].units[c] = 0
              /\ write'[p][s].rows = write[p][s].rows /\ entry' = entry
          BY <1>1, <3>1
        <5> QED BY <1>1, <2>3, <4>1, <5>1 DEF Stored, Total, Sent, UnderWay
      <4>2. CASE t # s
        <5>1. write'[p][t] = write[p][t] /\ entry' = entry
          BY <1>1, <2>2, <4>2
        <5> QED BY <5>1 DEF Stored, Total, Sent
      <4> QED BY <4>1, <4>2
    <3>3. WritesKeep(p, c) /\ TotalsKeep(p, c)
      BY <1>1, <2>2, <3>2 DEF WritesKeep, TotalsKeep, Bounded
    <3>4. counter'[c] = counter[c]
      BY <1>1, <2>2, <3>1
    <3> QED BY <1>1, <1>2, <2>1, <3>3, <3>4, CarriesQuiet
  <2>4. CASE c \in write[p][s].rows
    <3>1. s = c \/ s = Flush
      BY <1>1, <1>4, <2>4, RowFacts DEF WritePlaced, UnderWay
    <3>a. PICK o \in {c, Flush} : o # s /\ (s = c => o = Flush) /\ (s = Flush => o = c)
      BY <2>2, <3>1
    <3>b. PICK u \in Int : u = write[p][s].units[c]
      BY <2>2
    <3>2. /\ Stored(p, s, c) = 0 /\ Stored(p, s, c)' = u
          /\ Total(p, s, c) = entry[p][c].known /\ Total(p, s, c)' = counter'[c]
          /\ Sent(p, s, c)' = Sent(p, s, c)
      BY <1>1, <2>4, <3>b DEF Stored, Total, Sent, UnderWay
    <3>4. Stored(p, o, c)' = Stored(p, o, c) /\ Total(p, o, c)' = Total(p, o, c) /\ Sent(p, o, c)' = Sent(p, o, c)
      <4>1. write'[p][o] = write[p][o]
        BY <1>1, <2>2, <3>a
      <4> QED BY <1>1, <4>1 DEF Stored, Total, Sent
    <3>5. Own(p, c) = Written(p, c) + Stored(p, o, c) /\ Own(p, c)' = Written(p, c) + u + Stored(p, o, c)
      <4>1. Stored(p, o, c) \in Int
        BY <2>2
      <4>2. CASE s = c
        BY <2>1, <2>2, <3>a, <3>2, <3>4, <4>1, <4>2 DEF Own
      <4>3. CASE s = Flush
        BY <2>1, <2>2, <3>a, <3>2, <3>4, <4>1, <4>3 DEF Own
      <4> QED BY <3>1, <4>2, <4>3
    <3>6. Balances(p, c)
      <4>1. Stored(p, o, c) \in Int /\ counter'[c] = counter[c] + u
        BY <1>1, <2>2, <3>b
      <4>2. Own(p, c)' \in Int /\ Own(p, c)' - Own(p, c) = u
        <5>1. Written(p, c) \in Int /\ u \in Int
          BY <2>2, <3>b
        <5> QED BY <3>5, <4>1, <5>1
      <4>3. counter[c] + Own(p, c)' - Own(p, c) = counter[c] + u
        BY <2>2, <4>2
      <4> QED BY <4>1, <4>2, <4>3 DEF Balances
    <3>7. Bounded(p, c) => Bounded(p, c)'
      BY <1>2, <2>1, <3>1, <3>a, <3>2, <3>4 DEF Bounded
    <3>8. ASSUME OthersKeep(p)', Alive(p, c), Covered(p, c)  PROVE Covered(p, c)'
      <4>1. OthersKeep(p) /\ Trusts(p)
        BY <1>2, <3>8
      <4>2. Balanced(c) /\ \A q \in Process : q # p => Bounded(q, c)
        BY <3>8, <4>1 DEF Trusts
      <4>3. \A q \in Process : q # p => Own(q, c)' = Own(q, c)
        BY <1>3, UntouchedAccounts
      <4>4. counter'[c] >= Written(p, c) + u + Stored(p, o, c)
        BY <3>5, <3>6, <4>2, <4>3, TotalCovers
      <4>5. Covers(entry[p][c].known, Written(p, c), 0, entry[p][c].known, Stored(p, o, c), Total(p, o, c))
        BY <2>2, <3>1, <3>a, <3>2, <3>8, CoversTurned DEF Covered
      <4>6. counter'[c] \in Int
        BY <1>1, <2>2
      <4>7. Covers(entry[p][c].known, Written(p, c), u, counter'[c], Stored(p, o, c), Total(p, o, c))
        BY <2>2, <4>4, <4>5, <4>6, CoversStore
      <4>8. CASE s = c
        BY <1>1, <2>1, <3>a, <3>2, <3>4, <4>7, <4>8 DEF Covered
      <4>9. CASE s = Flush
        <5>1. Covers(entry[p][c].known, Written(p, c), Stored(p, o, c), Total(p, o, c), u, counter'[c])
          BY <2>2, <4>6, <4>7, CoversTurned
        <5> QED BY <1>1, <2>1, <3>a, <3>2, <3>4, <4>9, <5>1 DEF Covered
      <4> QED BY <3>1, <4>8, <4>9
    <3> QED BY <2>1, <3>6, <3>7, <3>8 DEF Carries
  <2> QED BY <2>3, <2>4
<1> QED
  BY <1>1, <1>2, <1>3, <1>5 DEF StepOf

\* Less pending units are more written ones.
LEMMA MinusLess ==
  ASSUME NEW a \in Int, NEW b \in Int, NEW d \in Int
  PROVE  a - (b - d) = a - b + d
OBVIOUS

\* What the totals do to a row of the write: the units are written for good.
LEMMA AnswerRow ==
  ASSUME TypeOK, Placed, NEW p \in Process, NEW c \in Row, NEW s \in {c, Flush}, NEW o \in {c, Flush}, o # s,
         AnswersAt(p, s, c), write[p][s].phase = "stored", write'[p][s] = NoWrite, write'[p][o] = write[p][o],
         counter' = counter, window' = window, GrantedBy(p, c)' = GrantedBy(p, c)
  PROVE  Carries(p, c)
<1>1. /\ Written(p, c) \in Int /\ Own(p, c) \in Int /\ counter[c] \in Int /\ GrantedBy(p, c) \in Int
      /\ entry[p][c].known \in Int /\ entry[p][c].pending \in Int /\ c \in Writer /\ Flush \in Writer /\ c # Flush
      /\ \A t \in {c, Flush} : /\ Stored(p, t, c) \in Int /\ Total(p, t, c) \in Int /\ Sent(p, t, c) \in Int
                               /\ write[p][t].units[c] \in Int /\ write[p][t].total[c] \in Int
  BY AccountTypes
<1>2. PICK u \in Int, t \in Int : u = write[p][s].units[c] /\ t = write[p][s].total[c]
  BY <1>1
<1>3. /\ c \in write[p][s].rows /\ entry'[p][c].kept
      /\ entry'[p][c].known = Larger(entry[p][c].known, t)
      /\ entry'[p][c].pending = entry[p][c].pending - u
  BY <1>2 DEF AnswersAt
<1>4. /\ Stored(p, s, c) = u /\ Stored(p, s, c)' = 0
      /\ Total(p, s, c) = t /\ Total(p, s, c)' = Larger(entry[p][c].known, t)
      /\ Sent(p, s, c) = u /\ Sent(p, s, c)' = 0
  BY <1>2, <1>3 DEF Stored, Total, Sent, UnderWay, NoWrite
<1>5. /\ Stored(p, o, c)' = Stored(p, o, c) /\ Sent(p, o, c)' = Sent(p, o, c)
      /\ \/ Total(p, o, c)' = Total(p, o, c)
         \/ Stored(p, o, c) = 0 /\ Total(p, o, c)' = Larger(entry[p][c].known, t)
  BY <1>3, StoredNone DEF Stored, Total, Sent
<1>6. Written(p, c)' = Written(p, c) + u
  <2>1. GrantedBy(p, c) \in Int /\ entry[p][c].pending \in Int /\ u \in Int
    BY <1>1, <1>2
  <2>2. GrantedBy(p, c) - (entry[p][c].pending - u) = GrantedBy(p, c) - entry[p][c].pending + u
    BY <2>1, MinusLess
  <2> QED BY <1>3, <2>2 DEF Written
<1>7. (s = c /\ o = Flush) \/ (s = Flush /\ o = c)
  OBVIOUS
<1>8. Own(p, c)' = Own(p, c)
  <2>1. Stored(p, o, c) \in Int
    BY <1>1
  <2>2. Written(p, c) \in Int /\ u \in Int
    BY <1>1, <1>2
  <2>3. CASE s = c
    BY <1>4, <1>5, <1>6, <1>7, <2>1, <2>2, <2>3 DEF Own
  <2>4. CASE s = Flush
    BY <1>4, <1>5, <1>6, <1>7, <2>1, <2>2, <2>4 DEF Own
  <2> QED BY <1>7, <2>3, <2>4
<1>9. Balances(p, c)
  BY <1>1, <1>8, SMTT(20) DEF Balances
<1>10. ASSUME Bounded(p, c)  PROVE Bounded(p, c)'
  <2>1. CASE s = c
    <3>1. Bounds(GrantedBy(p, c), Written(p, c) + u, 0, Sent(p, Flush, c))
      BY <1>1, <1>4, <1>10, <2>1, BoundsSettle DEF Bounded
    <3> QED BY <1>4, <1>5, <1>6, <1>7, <2>1, <3>1 DEF Bounded
  <2>2. CASE s = Flush
    <3>1. Bounds(GrantedBy(p, c), Written(p, c) + u, Sent(p, c, c), 0)
      BY <1>1, <1>4, <1>10, <2>2, BoundsSettle DEF Bounded
    <3> QED BY <1>4, <1>5, <1>6, <1>7, <2>2, <3>1 DEF Bounded
  <2> QED BY <2>1, <2>2
<1>11. ASSUME Covered(p, c)  PROVE Covered(p, c)'
  <2>1. Covers(entry[p][c].known, Written(p, c), u, t, Stored(p, o, c), Total(p, o, c))
    <3>1. CASE s = c
      BY <1>4, <1>7, <1>11, <3>1 DEF Covered
    <3>2. CASE s = Flush
      <4>1. Covers(entry[p][c].known, Written(p, c), Stored(p, o, c), Total(p, o, c), u, t)
        BY <1>4, <1>7, <1>11, <3>2 DEF Covered
      <4> QED BY <1>1, <1>2, <4>1, CoversTurned
    <3> QED BY <3>1, <3>2
  <2> DEFINE k == Larger(entry[p][c].known, t)
  <2>2. k \in Int /\ Total(p, o, c)' \in Int /\ Written(p, c) + u \in Int
    <3>1. k \in Int
      BY <1>1, <1>2 DEF Larger
    <3>2. Total(p, o, c) \in Int /\ Written(p, c) + u \in Int
      <4>1. Written(p, c) \in Int /\ u \in Int
        BY <1>1, <1>2
      <4>2. Total(p, o, c) \in Int
        BY <1>1
      <4> QED BY <4>1, <4>2
    <3> HIDE DEF k
    <3>3. Total(p, o, c)' = Total(p, o, c) \/ Total(p, o, c)' = k
      BY <1>5 DEF k
    <3> QED BY <3>1, <3>2, <3>3
  <2>3. Covers(k, Written(p, c) + u, 0, k, Stored(p, o, c), Total(p, o, c)')
    BY <1>1, <1>2, <1>5, <2>1, <2>2, CoversAnswer
  <2>4. CASE s = c
    BY <1>3, <1>4, <1>5, <1>6, <1>7, <2>3, <2>4 DEF Covered
  <2>5. CASE s = Flush
    <3>1. Covers(k, Written(p, c) + u, Stored(p, o, c), Total(p, o, c)', 0, k)
      <4> HIDE DEF k
      <4>1. Stored(p, o, c) \in Int /\ 0 \in Int
        BY <1>1
      <4> QED BY <2>2, <2>3, <4>1, CoversTurned
    <3> QED BY <1>3, <1>4, <1>5, <1>6, <1>7, <2>5, <3>1 DEF Covered
  <2> QED BY <2>4, <2>5
<1>12. Alive(p, c)
  <2>1. WritePlaced(p, s)
    BY <1>1 DEF Placed
  <2>2. entry[p][c].kept
    BY <1>3, <2>1 DEF WritePlaced, UnderWay
  <2> QED BY <2>2 DEF Alive
<1> QED
  BY <1>9, <1>10, <1>11, <1>12 DEF Carries

LEMMA AnsweredStep ==
  ASSUME TypeOK, Placed, NEW p \in Process, NEW s \in Writer, WriteAnswered(p, s)
  PROVE  StepOf(p)
<1>1. Answer(p, s) /\ Waiting(p, {s}, "woken")
  BY DEF WriteAnswered
<1>2. /\ \A q \in Process : q # p => entry'[q] = entry[q]
      /\ \A q \in Process, t \in Writer : q # p \/ t # s => write'[q][t] = write[q][t]
      /\ write[p][s].phase = "stored" /\ write'[p][s] = NoWrite
      /\ counter' = counter /\ window' = window /\ window \in Int
  BY <1>1, AnswerFields DEF TypeOK
<1>3. /\ \A q \in Process : OthersKeep(q)' => OthersKeep(q)
      /\ \A q, d : GrantedBy(q, d)' = GrantedBy(q, d)
  <2>1. ASSUME NEW o \in Request
        PROVE  /\ req'[o].next = req[o].next /\ req'[o].got = req[o].got
               /\ req[o].phase \in {"refused", "thrown"} => req'[o].phase = req[o].phase
    BY <1>1, WaitingFields
  <2> QED BY <2>1, QuietRequests
<1>4. WritePlaced(p, s)
  BY DEF Placed
<1>5. ASSUME NEW c \in Row  PROVE Carries(p, c)
  <2>1. /\ c \in Writer /\ Flush \in Writer /\ c # Flush /\ entry[p][c].pending \in Int
        /\ GrantedBy(p, c) \in Int /\ Own(p, c) \in Int /\ Written(p, c) \in Int /\ counter[c] \in Int
        /\ write[p][Flush].units[c] \in Int /\ Sent(p, c, c) \in Int
    BY AccountTypes
  <2>2. CASE AnswersAt(p, s, c)
    <3>1. s \in {c, Flush}
      BY <1>2, <1>4, <2>2, RowFacts DEF WritePlaced, UnderWay, AnswersAt
    <3>2. PICK o \in {c, Flush} : o # s
      BY <2>1, <3>1
    <3>3. write'[p][o] = write[p][o]
      BY <1>2, <2>1, <3>2
    <3> QED BY <1>2, <1>3, <2>2, <3>1, <3>2, <3>3, AnswerRow
  <2>3. CASE c \notin write[p][s].rows /\ entry'[p][c] = entry[p][c]
    <3>1. write[p][s].units[c] = 0
      BY <1>2, <1>4, <2>3 DEF WritePlaced, UnderWay
    <3>2. ASSUME NEW t \in {c, Flush}
          PROVE  /\ Stored(p, t, c)' = Stored(p, t, c) /\ Total(p, t, c)' = Total(p, t, c)
                 /\ Sent(p, t, c)' = Sent(p, t, c)
      <4>1. CASE t = s
        BY <1>2, <2>3, <3>1, <4>1 DEF Stored, Total, Sent, UnderWay, NoWrite
      <4>2. CASE t # s
        <5>1. write'[p][t] = write[p][t]
          BY <1>2, <2>1, <4>2
        <5> QED BY <2>3, <5>1 DEF Stored, Total, Sent
      <4> QED BY <4>1, <4>2
    <3>3. WritesKeep(p, c) /\ TotalsKeep(p, c)
      <4>1. Sent(p, c, c) \in Int /\ Sent(p, Flush, c) \in Int
        BY AccountTypes
      <4> QED BY <2>3, <3>2, <4>1 DEF WritesKeep, TotalsKeep, Bounded
    <3>4. Alive(p, c)' => Alive(p, c)
      BY <1>2, <2>3 DEF Alive, Ended
    <3> QED BY <1>2, <1>3, <2>3, <3>3, <3>4, CarriesQuiet
  <2>4. CASE /\ s = Flush /\ Ended(c) /\ ~Refreshing(p, c) /\ entry'[p][c] = NoEntry
             /\ entry[p][c].pending = IF c \in write[p][s].rows THEN write[p][s].units[c] ELSE 0
    <3>1. Stored(p, Flush, c) = entry[p][c].pending /\ Sent(p, Flush, c) = entry[p][c].pending
      BY <1>2, <1>4, <2>4 DEF WritePlaced, UnderWay, Stored, Sent
    <3>2. /\ Stored(p, c, c) = 0 /\ Sent(p, c, c) = 0 /\ write'[p][c] = write[p][c]
      BY <1>2, <2>1, <2>4 DEF Refreshing, UnderWay, Stored, Sent
    <3>3. /\ Stored(p, c, c)' = 0 /\ Sent(p, c, c)' = 0
          /\ Stored(p, Flush, c)' = 0 /\ Sent(p, Flush, c)' = 0
      BY <1>2, <2>4, <3>2 DEF Refreshing, UnderWay, Stored, Sent, NoWrite
    <3>4. Written(p, c)' = GrantedBy(p, c) /\ Written(p, c) + entry[p][c].pending = GrantedBy(p, c)
      BY <1>3, <2>1, <2>4 DEF Written, NoEntry
    <3>5. Own(p, c)' = Own(p, c)
      BY <2>1, <3>1, <3>2, <3>3, <3>4 DEF Own
    <3>6. Balances(p, c)
      BY <1>2, <2>1, <3>5 DEF Balances
    <3>7. ASSUME Bounded(p, c)  PROVE Bounded(p, c)'
      <4>1. Bounds(GrantedBy(p, c), Written(p, c), 0, entry[p][c].pending)
        BY <3>1, <3>2, <3>7 DEF Bounded
      <4>2. Bounds(GrantedBy(p, c), Written(p, c) + entry[p][c].pending, 0, 0)
        <5>1. 0 \in Int
          OBVIOUS
        <5> QED BY <2>1, <4>1, <5>1, BoundsSettle
      <4> QED BY <1>3, <3>3, <3>4, <4>2 DEF Bounded
    <3>8. ~Alive(p, c)'
      BY <1>2, <2>4 DEF Alive, Ended, NoEntry
    <3> QED BY <3>6, <3>7, <3>8 DEF Carries
  <2> QED BY <1>1, <2>2, <2>3, <2>4, AnswerFields
<1>6. \A q \in Process, d \in Row : q # p => Untouched(q, d)
  BY <1>2, <1>3, RowFacts DEF Untouched
<1> QED
  BY <1>2, <1>3, <1>5, <1>6 DEF StepOf

\* A step that counts nothing.
LEMMA QuietStep ==
  ASSUME TypeOK, NEW p \in Process, UNCHANGED <<counter, window, write>>,
         \A q \in Process, c \in Row : q # p => entry'[q][c] = entry[q][c],
         \A c \in Row : /\ entry'[p][c].kept => entry[p][c].kept
                        /\ entry'[p][c].known = entry[p][c].known
                        /\ entry'[p][c].pending = entry[p][c].pending,
         \A o \in Request : /\ req'[o].next = req[o].next /\ req'[o].got = req[o].got
                            /\ req[o].phase \in {"refused", "thrown"} => req'[o].phase = req[o].phase
  PROVE  StepOf(p)
<1>1. /\ \A q \in Process : OthersKeep(q)' => OthersKeep(q)
      /\ \A q, c : GrantedBy(q, c)' = GrantedBy(q, c)
  BY QuietRequests
<1>2. ASSUME NEW c \in Row  PROVE Carries(p, c)
  <2>1. WritesKeep(p, c) /\ TotalsKeep(p, c)
    BY WritesSame
  <2>2. Alive(p, c)' => Alive(p, c)
    BY DEF Alive, Ended
  <2> QED BY <1>1, <2>1, <2>2, CarriesQuiet
<1>3. \A q \in Process, c \in Row : q # p => Untouched(q, c)
  BY <1>1 DEF Untouched
<1>4. window' \in Int /\ window <= window'
  BY DEF TypeOK
<1> QED
  BY <1>1, <1>2, <1>3, <1>4 DEF StepOf

LEMMA GrowStaleStep ==
  ASSUME TypeOK, NEW p \in Process, NEW c \in Row, GrowStale(p, c), req' = req
  PROVE  StepOf(p)
<1>1. /\ entry'[p][c] = [entry[p][c] EXCEPT !.read = "stale"]
      /\ \A q \in Process, d \in Row : q # p \/ d # c => entry'[q][d] = entry[q][d]
      /\ UNCHANGED <<counter, window, write>>
  BY DEF GrowStale, TypeOK
<1>2. entry[p][c] \in Entry
  BY EntryForType
<1>3. /\ entry'[p][c].kept => entry[p][c].kept
      /\ entry'[p][c].known = entry[p][c].known /\ entry'[p][c].pending = entry[p][c].pending
  BY <1>1, <1>2 DEF Entry
<1>4. \A d \in Row : /\ entry'[p][d].kept => entry[p][d].kept
                     /\ entry'[p][d].known = entry[p][d].known
                     /\ entry'[p][d].pending = entry[p][d].pending
  BY <1>1, <1>3
<1> QED
  BY <1>1, <1>4, QuietStep

\* Time passes.
LEMMA TimeStep ==
  ASSUME TypeOK, Conserved, \A p \in Process : Trusts(p),
         UNCHANGED <<counter, entry, write, req>>, window' \in Int, window <= window'
  PROVE  Conserved' /\ \A p \in Process : Trusts(p)'
<1>1. \A p, c : GrantedBy(p, c)' = GrantedBy(p, c)
  BY GrantedSame
<1>2. \A p, c : Own(p, c)' = Own(p, c) /\ (Bounded(p, c) => Bounded(p, c)') /\ (Covered(p, c) => Covered(p, c)')
  BY <1>1, UntouchedAccounts DEF Untouched
<1>3. ASSUME NEW c \in Row, Balanced(c)  PROVE Balanced(c)'
  <2>1. [p \in Process |-> Own(p, c)'] = [p \in Process |-> Own(p, c)]
    BY <1>2
  <2> QED BY <1>3, <2>1 DEF Balanced
<1>4. \A c \in Row : /\ ~(Ended(c)') => ~Ended(c)
                     /\ \A p : Alive(p, c)' => Alive(p, c)
  BY RowFacts DEF Ended, Alive, TypeOK
<1>5. \A p : OthersKeep(p)' => OthersKeep(p)
  BY DEF OthersKeep, GaveBack
<1>6. Conserved'
  BY <1>3, <1>4 DEF Conserved
<1>7. ASSUME NEW p \in Process  PROVE Trusts(p)'
  BY <1>2, <1>3, <1>4, <1>5 DEF Trusts
<1> QED
  BY <1>6, <1>7

LEMMA AccountsStep ==
  ASSUME TypeOK, Placed, Conserved, \A p \in Process : Trusts(p), [Next]_vars
  PROVE  Conserved' /\ \A p \in Process : Trusts(p)'
<1> DEFINE Accounts == Conserved /\ \A p \in Process : Trusts(p)
<1> HIDE DEF Accounts
<1>0. ASSUME NEW p \in Process, StepOf(p)  PROVE Accounts'
  BY <1>0, Carried DEF Accounts
<1>1. ASSUME NEW r \in Request, ReserveAfterRead(r)  PROVE Accounts'
  <2>1. PICK c \in Row : c = req[r].row
    BY <1>1 DEF ReserveAfterRead, Placed, RequestPlaced
  <2>2. c[1] = Asks[r][req[r].next] /\ req[r].next <= Len(Asks[r]) /\ Decide(r, c) /\ entry[ProcessOf[r]][c].kept
    BY <1>1, <2>1 DEF ReserveAfterRead, Placed, RequestPlaced
  <2>3. OneRequest(r)
    BY <1>1, <2>2 DEF OneRequest, ReserveAfterRead, Decide, TypeOK
  <2>4. ProcessOf[r] \in Process /\ Alive(ProcessOf[r], c)
    BY <2>2 DEF Alive
  <2> QED BY <1>0, <2>2, <2>3, <2>4, DecideStep
<1>2. ASSUME NEW r \in Request, Reserve(r)  PROVE Accounts'
  <2>1. PICK c \in Row : c = Present(r)
    BY <1>2, PresentType DEF Reserve
  <2>2. c[1] = Asks[r][req[r].next] /\ c[2] = window /\ req[r].next <= Len(Asks[r]) /\ Decide(r, c)
    BY <1>2, <2>1, PresentType DEF Reserve, Placed, RequestPlaced
  <2>3. OneRequest(r)
    BY <1>2, <2>2 DEF OneRequest, Reserve, Decide, TypeOK
  <2>4. ProcessOf[r] \in Process /\ Alive(ProcessOf[r], c)
    BY <2>2 DEF Alive, Ended, TypeOK
  <2> QED BY <1>0, <2>2, <2>3, <2>4, DecideStep
<1>3. ASSUME NEW r \in Request, ReserveRead(r)  PROVE Accounts'
  BY <1>0, <1>3, ReserveReadStep
<1>4. ASSUME NEW r \in Request, ConsumeKey(r) \/ ConsumeKeyFails(r)  PROVE Accounts'
  <2>1. /\ OneRequest(r) /\ UNCHANGED <<counter, window, write>> /\ req'[r].next = req[r].next
        /\ ProcessOf[r] \in Process
    BY <1>4 DEF OneRequest, ConsumeKey, ConsumeKeyFails, TypeOK, RequestState
  <2>2. CASE entry' = entry /\ req'[r].got = req[r].got
    BY <1>0, <2>1, <2>2, QuietStep DEF OneRequest
  <2>3. CASE ReleaseReserved(r, req[r].got) /\ req'[r].phase \in {"refused", "thrown"} /\ req'[r].got = {}
    BY <1>0, <2>1, <2>3, ReleaseStep
  <2> QED BY <1>4, <2>2, <2>3 DEF ConsumeKey, ConsumeKeyFails, TypeOK, RequestState
<1>5. ASSUME NEW p \in Process, NEW s \in Writer, Store(p, s), req' = req  PROVE Accounts'
  BY <1>0, <1>5, StoreStep
<1>6. ASSUME NEW p \in Process, NEW s \in Writer, WriteAnswered(p, s)  PROVE Accounts'
  BY <1>0, <1>6, AnsweredStep
<1>7. ASSUME NEW p \in Process, NEW s \in Writer, WriteFails(p, s)  PROVE Accounts'
  BY <1>0, <1>7, FailsStep
<1>8. ASSUME NEW p \in Process, FlushTimer(p)  PROVE Accounts'
  BY <1>0, <1>8, FlushTimerStep
<1>9. ASSUME NEW p \in Process, NEW c \in Row, ReadGoesOn(p, c) \/ GrowStale(p, c), req' = req  PROVE Accounts'
  BY <1>0, <1>9, ReadGoesOnStep, GrowStaleStep
<1>10. ASSUME WindowEnds, req' = req  PROVE Accounts'
  <2>1. UNCHANGED <<counter, entry, write>> /\ window' \in Int /\ window <= window'
    BY <1>10 DEF WindowEnds, TypeOK
  <2> QED BY <1>10, <2>1, TimeStep DEF Accounts
<1>11. ASSUME MinutePasses \/ UNCHANGED vars  PROVE Accounts'
  <2>1. UNCHANGED <<counter, entry, write, req>> /\ window' \in Int /\ window <= window'
    BY <1>11 DEF MinutePasses, vars, quotas, TypeOK
  <2> QED BY <2>1, TimeStep DEF Accounts
<1>12. Accounts'
  BY <1>1, <1>2, <1>3, <1>4, <1>5, <1>6, <1>7, <1>8, <1>9, <1>10, <1>11
     DEF Next, RequestStep, WriteStep
<1> QED
  BY <1>12 DEF Accounts

LEMMA AccountsInit == Init => Conserved /\ \A p \in Process : Trusts(p)
<1> SUFFICES ASSUME Init  PROVE Conserved /\ \A p \in Process : Trusts(p)
  OBVIOUS
<1>1. ASSUME NEW p \in Process, NEW c \in Row
      PROVE  /\ GrantedBy(p, c) = 0 /\ Written(p, c) = 0 /\ Own(p, c) = 0
             /\ Bounded(p, c) /\ Covered(p, c)
  <2> DEFINE g == [r \in Request |-> IF ProcessOf[r] = p /\ c \in req[r].got THEN Units[r] ELSE 0]
  <2>1. g \in [Request -> Int] /\ \A r \in Request : g[r] = 0
    BY DEF Init
  <2>2. SumFunction(g) = 0
    <3>1. IsFiniteSet(Request)
      OBVIOUS
    <3> HIDE DEF g
    <3> QED BY ONLY <2>1, <3>1, SumZero
  <2>3. GrantedBy(p, c) = 0
    BY <2>2 DEF GrantedBy
  <2>4. /\ entry[p][c].pending = 0 /\ entry[p][c].known = 0
        /\ \A s \in Writer : write[p][s].phase = "idle"
    BY DEF Init, QuotasInit, NoEntry, NoWrite
  <2>5. Written(p, c) = 0
    BY <2>3, <2>4 DEF Written
  <2>6. \A s \in {c, Flush} : Stored(p, s, c) = 0 /\ Sent(p, s, c) = 0 /\ Total(p, s, c) = 0
    BY <2>4, RowFacts DEF Stored, Sent, Total, UnderWay
  <2>7. Bounds(0, 0, 0, 0) /\ Covers(0, 0, 0, 0, 0, 0)
    BY DEF Bounds, Covers, Neg, Pos, Larger
  <2> QED BY <2>3, <2>4, <2>5, <2>6, <2>7 DEF Own, Bounded, Covered
<1>2. ASSUME NEW c \in Row  PROVE Balanced(c)
  <2> DEFINE g == [p \in Process |-> Own(p, c)]
  <2>1. g \in [Process -> Int] /\ \A p \in Process : g[p] = 0
    BY <1>1
  <2>2. SumFunction(g) = 0
    <3>1. IsFiniteSet(Process)
      OBVIOUS
    <3> HIDE DEF g
    <3> QED BY ONLY <2>1, <3>1, SumZero
  <2>3. counter[c] = 0
    BY DEF Init, QuotasInit, Zero
  <2> QED BY <2>2, <2>3 DEF Balanced
<1> QED
  BY <1>1, <1>2 DEF Conserved, Trusts

-----------------------------------------------------------------------------
(* The theorems                                                            *)

\* Only a reservation adds to what a request holds.
LEMMA RequestsGrow ==
  ASSUME TypeOK, [Next]_vars, NEW r \in Request
  PROVE  \/ \E o \in Request : ReserveAfterRead(o) \/ Reserve(o)
         \/ req'[r].got \subseteq req[r].got
<1>1. ASSUME NEW o \in Request, ReserveRead(o) \/ ConsumeKey(o) \/ ConsumeKeyFails(o)
      PROVE  req'[r].got \subseteq req[r].got
  <2>1. req'[o].got = req[o].got \/ req'[o].got = {}
    BY <1>1 DEF ReserveRead, ConsumeKey, ConsumeKeyFails, TypeOK, RequestState
  <2>2. o # r => req'[r] = req[r]
    BY <1>1 DEF ReserveRead, ConsumeKey, ConsumeKeyFails, TypeOK
  <2> QED BY <2>1, <2>2
<1>2. ASSUME NEW p \in Process, NEW s \in Writer, WriteStep(p, s)
      PROVE  req'[r].got = req[r].got
  BY <1>2, WaitingFields DEF WriteStep, WriteAnswered, WriteFails
<1>3. ASSUME req' = req  PROVE req'[r].got = req[r].got
  BY <1>3
<1> QED
  BY <1>1, <1>2, <1>3 DEF Next, RequestStep, FlushTimer, MinutePasses, vars

IInv == TypeOK /\ Placed /\ Conserved /\ \A p \in Process : Trusts(p)

LEMMA Invariance == Spec => []IInv
<1>1. Init => IInv
  BY TypeInit, PlacedInit, AccountsInit DEF IInv
<1>2. IInv /\ [Next]_vars => IInv'
  BY TypeStep, PlacedStep, AccountsStep DEF IInv
<1> QED
  BY <1>1, <1>2, PTL DEF Spec

\* reserve, release, flush, read and consumeKeyMinute keep the counters, the
\* entries, the writes and the requests within their types.
THEOREM TypeCorrect == Spec => []TypeOK
<1>1. IInv => TypeOK
  BY DEF IInv
<1> QED
  BY <1>1, Invariance, PTL

\* For any processes, quotas and requests, and however reads, flushes, failures
\* and releases overlap, every unit that a request holds of the present window
\* is in the row or still to be written to it, once.
THEOREM ReservedUnitsConserved == Spec => []UnitsConserved
<1>1. ASSUME IInv  PROVE UnitsConserved
  <2> SUFFICES ASSUME NEW c \in Row, c[2] = window
               PROVE  counter[c] + ToWrite(c) = Held(c)
    BY DEF UnitsConserved
  <2> DEFINE own == [p \in Process |-> Own(p, c)]
             left == [p \in Process |-> Unwritten(p, c)]
             by == [p \in Process |-> GrantedBy(p, c)]
  <2>1. \A p \in Process : GrantedBy(p, c) = Own(p, c) + Unwritten(p, c)
                           /\ Own(p, c) \in Int /\ Unwritten(p, c) \in Int /\ GrantedBy(p, c) \in Int
    <3> TAKE p \in Process
    <3>1. /\ entry[p][c].pending \in Int /\ GrantedBy(p, c) \in Int
          /\ Stored(p, c, c) \in Int /\ Stored(p, Flush, c) \in Int
      BY <1>1, AccountTypes DEF IInv
    <3> QED BY <3>1, SMTT(20) DEF Own, Written, Unwritten
  <2>2. /\ own \in [Process -> Int] /\ left \in [Process -> Int] /\ by \in [Process -> Int]
        /\ \A p \in Process : by[p] = own[p] + left[p]
    BY <2>1
  <2>3. IsFiniteSet(Process)
    OBVIOUS
  <2>4. SumFunction(by) = SumFunction(own) + SumFunction(left)
    <3> HIDE DEF own, left, by
    <3> QED BY ONLY <2>2, <2>3, SumAdds
  <2>5. counter[c] = SumFunction(own)
    <3>1. ~Ended(c)
      BY <1>1 DEF IInv, Ended, TypeOK
    <3> QED BY <1>1, <3>1 DEF IInv, Conserved, Balanced
  <2> QED BY <2>4, <2>5, HeldByProcess DEF ToWrite
<1> QED
  BY <1>1, Invariance, PTL

\* However many requests wait for the same read, and however the answers of
\* writes overlap, reserve lets through no request that brings what its process
\* granted above the limit, unless a write of that process takes units back.
THEOREM GrantsStayWithinLimit == Spec => GrantsWithinLimit
<1> DEFINE Grant(r, c) ==
      OthersKeep(ProcessOf[r]) /\ ~TakesBack(ProcessOf[r], c) /\ c \in req'[r].got \ req[r].got =>
        GrantedBy(ProcessOf[r], c)' <= Limit[c[1]]
<1>1. ASSUME IInv, [Next]_vars, NEW r \in Request, NEW c \in Row,
             OthersKeep(ProcessOf[r]), ~TakesBack(ProcessOf[r], c), c \in req'[r].got \ req[r].got
      PROVE  GrantedBy(ProcessOf[r], c)' <= Limit[c[1]]
  <2> DEFINE p == ProcessOf[r]
  <2>1. TypeOK /\ Placed /\ Trusts(p) /\ p \in Process /\ Forgotten
    BY <1>1 DEF IInv, Placed
  <2>2. /\ Decide(r, c) /\ ~Exceeds(EntryFor(p, c), Limit[c[1]], Units[r])
        /\ \A o \in Request : o # r => req'[o] = req[o]
        /\ Alive(p, c)
    <3>1. ASSUME NEW o \in Request, NEW d \in Row, Decide(o, d)
          PROVE  /\ o = r /\ c = d /\ ~Exceeds(EntryFor(p, c), Limit[c[1]], Units[r])
                 /\ \A x \in Request : x # r => req'[x] = req[x]
      BY <1>1, <2>1, <3>1 DEF Decide, TypeOK, RequestState
    <3>2. ASSUME NEW o \in Request, ReserveAfterRead(o)
          PROVE  \E d \in Row : Decide(o, d) /\ Alive(ProcessOf[o], d)
      BY <2>1, <3>2 DEF ReserveAfterRead, Placed, RequestPlaced, Alive
    <3>3. ASSUME NEW o \in Request, Reserve(o)
          PROVE  \E d \in Row : Decide(o, d) /\ Alive(ProcessOf[o], d)
      <4>1. PICK d \in Row : d = Present(o)
        BY <2>1, <3>3, PresentType DEF Reserve
      <4>2. Decide(o, d) /\ d[2] = window
        BY <2>1, <3>3, <4>1, PresentType DEF Reserve
      <4>3. Alive(ProcessOf[o], d)
        BY <2>1, <4>2 DEF Alive, Ended, TypeOK
      <4> QED BY <4>2, <4>3
    <3>4. \/ \E o \in Request : ReserveAfterRead(o) \/ Reserve(o)
          \/ req'[r].got \subseteq req[r].got
      BY <1>1, <2>1, RequestsGrow
    <3> QED BY <1>1, <3>1, <3>2, <3>3, <3>4
  <2>3. GrantedBy(p, c)' = GrantedBy(p, c) + Units[r]
    <3>1. GrantedBy(p, c) \in Nat /\ Units[r] \in Nat
      BY GrantedType
    <3>2. Part(r, p, c)' = Units[r] /\ Part(r, p, c) = 0
      BY <1>1 DEF Part
    <3>3. GrantedBy(p, c)' = GrantedBy(p, c) + Part(r, p, c)' - Part(r, p, c)
      BY <2>2, GrantedChange
    <3> QED BY <3>1, <3>2, <3>3
  <2>4. entry[p][c].known + entry[p][c].pending + Units[r] <= Limit[c[1]]
    <3>1. /\ entry[p][c].known \in Int /\ entry[p][c].pending \in Int /\ Limit[c[1]] \in Int /\ Units[r] \in Int
      BY <2>1, AccountTypes, RowFacts
    <3> QED BY <2>1, <2>2, <3>1, EntryForFields DEF Exceeds
  <2>5. entry[p][c].known >= Written(p, c)
    <3>1. Covered(p, c)
      BY <1>1, <2>1, <2>2 DEF Trusts
    <3>2. /\ Written(p, c) \in Int /\ entry[p][c].known \in Int
          /\ Stored(p, c, c) \in Int /\ Stored(p, Flush, c) \in Int
      BY <2>1, AccountTypes
    <3> QED BY <1>1, <3>1, <3>2 DEF Covered, Covers, Neg, TakesBack
  <2>6. /\ GrantedBy(p, c) \in Int /\ entry[p][c].pending \in Int /\ entry[p][c].known \in Int
        /\ Units[r] \in Int /\ Limit[c[1]] \in Int
    BY <2>1, AccountTypes, RowFacts
  <2>7. GrantedBy(p, c) <= entry[p][c].known + entry[p][c].pending
    BY <2>5, <2>6 DEF Written
  <2> QED BY <2>3, <2>4, <2>6, <2>7
<1>2. IInv /\ [Next]_vars => [\A r \in Request, c \in Row : Grant(r, c)]_vars
  BY <1>1
<1> QED
  BY <1>2, Invariance, PTL DEF Spec, GrantsWithinLimit
=============================================================================
