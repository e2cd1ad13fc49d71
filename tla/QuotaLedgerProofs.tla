--------------------------- MODULE QuotaLedgerProofs ---------------------------
(***************************************************************************)
(* Proofs about the quota ledger, for any set of users, tokens, attempts   *)
(* and amounts, with and without Redis and batch updates.                  *)
(***************************************************************************)
EXTENDS QuotaLedgerProperties, FiniteSetTheorems, WellFoundedInduction, TLAPS

-----------------------------------------------------------------------------
(***************************************************************************)
(* Sums over finite sets.  A recursive definition does not unfold for the  *)
(* provers, and the library's induction theorems take an operator; so a    *)
(* sum is given here by the equations it satisfies, and induction over a   *)
(* finite set is a minimal counterexample in a set of sets.                *)
(***************************************************************************)

\* A family that has a subset of a finite set as soon as it has all the smaller ones of
\* that subset has them all.
LEMMA SetsBySmaller ==
  ASSUME NEW D, IsFiniteSet(D), NEW G \in SUBSET SUBSET D,
         \A T \in SUBSET D : (\A U \in (SUBSET T) \ {T} : U \in G) => T \in G
  PROVE  G = SUBSET D
<1> DEFINE bad == (SUBSET D) \ G
<1>1. SUFFICES ASSUME bad # {} PROVE FALSE
  OBVIOUS
<1>2. IsWellFoundedOn(StrictSubsetOrdering(D), SUBSET D)
  BY ONLY IsFiniteSet(D), FS_StrictSubsetOrderingWellFounded, FS_FiniteSubsetsOfFinite
<1>3. PICK T \in bad : \A U \in bad : <<U, T>> \notin StrictSubsetOrdering(D)
  <2> HIDE DEF bad
  <2>1. bad \subseteq SUBSET D
    BY DEF bad
  <2> QED BY <1>1, <1>2, <2>1, WFMin
<1>4. \A U \in (SUBSET T) \ {T} : U \in G
  <2>1. \A U \in (SUBSET T) \ {T} : <<U, T>> \in StrictSubsetOrdering(D)
    BY DEF StrictSubsetOrdering
  <2> QED BY <1>3, <2>1
<1> QED BY <1>4

\* A family of subsets of a finite set that has the empty set, and with a set every set
\* of one element more, has them all.
LEMMA SetInduction ==
  ASSUME NEW D, IsFiniteSet(D), NEW G \in SUBSET SUBSET D, {} \in G,
         \A T \in G : \A x \in D \ T : T \cup {x} \in G
  PROVE  G = SUBSET D
<1>1. ASSUME NEW T \in SUBSET D, \A U \in (SUBSET T) \ {T} : U \in G PROVE T \in G
  <2>1. CASE T = {}
    BY <2>1
  <2>2. CASE T # {}
    <3>1. PICK x \in T : TRUE
      BY <2>2
    <3>2. T \ {x} \in G /\ x \in D \ (T \ {x}) /\ (T \ {x}) \cup {x} = T
      BY <1>1, <3>1
    <3> QED BY <3>2
  <2> QED BY <2>1, <2>2
<1> QED BY <1>1, SetsBySmaller

\* g gives the sum of f over every subset of D.
IsSum(g, f, D) ==
  /\ g \in [SUBSET D -> Int] /\ g[{}] = 0
  /\ \A T \in SUBSET D : \A x \in T : g[T] = f[x] + g[T \ {x}]

Total(f, D) == (CHOOSE g : IsSum(g, f, D))[D]

LEMMA SumUnique ==
  ASSUME NEW D, IsFiniteSet(D), NEW f, NEW g, NEW h, IsSum(g, f, D), IsSum(h, f, D)
  PROVE  g = h
<1> DEFINE G == {T \in SUBSET D : g[T] = h[T]}
<1>1. {} \in G
  BY DEF IsSum
<1>2. \A T \in G : \A x \in D \ T : T \cup {x} \in G
  <2> SUFFICES ASSUME NEW T \in G, NEW x \in D \ T PROVE T \cup {x} \in G
    OBVIOUS
  <2>1. (T \cup {x}) \ {x} = T /\ T \cup {x} \in SUBSET D /\ x \in T \cup {x}
    OBVIOUS
  <2>2. g[T \cup {x}] = f[x] + g[T] /\ h[T \cup {x}] = f[x] + h[T]
    BY <2>1 DEF IsSum
  <2> QED BY <2>1, <2>2
<1>3. G = SUBSET D
  <2> HIDE DEF G
  <2>1. G \in SUBSET SUBSET D
    BY DEF G
  <2> QED BY <1>1, <1>2, <2>1, SetInduction
<1> QED BY <1>3 DEF IsSum

LEMMA SumExists ==
  ASSUME NEW D, IsFiniteSet(D), NEW f, \A x \in D : f[x] \in Int
  PROVE  \E g : IsSum(g, f, D)
<1> DEFINE G == {T \in SUBSET D : \E g : IsSum(g, f, T)}
<1>1. {} \in G
  <2>1. IsSum([T \in SUBSET {} |-> 0], f, {})
    BY DEF IsSum
  <2> QED BY <2>1
<1>2. \A T \in G : \A x \in D \ T : T \cup {x} \in G
  <2> SUFFICES ASSUME NEW T \in G, NEW x \in D \ T PROVE T \cup {x} \in G
    OBVIOUS
  <2>1. PICK g : IsSum(g, f, T)
    OBVIOUS
  <2> DEFINE h == [U \in SUBSET (T \cup {x}) |-> IF x \in U THEN f[x] + g[U \ {x}] ELSE g[U]]
  <2>2. \A U \in SUBSET (T \cup {x}) : U \ {x} \in SUBSET T /\ g[U \ {x}] \in Int
    BY <2>1 DEF IsSum
  <2>3. \A U \in SUBSET (T \cup {x}) : x \notin U => U \in SUBSET T /\ g[U] \in Int
    BY <2>1 DEF IsSum
  <2>4. h \in [SUBSET (T \cup {x}) -> Int]
    BY <2>2, <2>3
  <2>5. h[{}] = 0
    BY <2>1 DEF IsSum
  <2>6. ASSUME NEW U \in SUBSET (T \cup {x}), NEW y \in U
        PROVE  h[U] = f[y] + h[U \ {y}]
    <3>1. f[y] \in Int /\ f[x] \in Int
      OBVIOUS
    <3>2. h[U] = IF x \in U THEN f[x] + g[U \ {x}] ELSE g[U]
      OBVIOUS
    <3>3. h[U \ {y}] = IF x \in U \ {y} THEN f[x] + g[(U \ {y}) \ {x}] ELSE g[U \ {y}]
      OBVIOUS
    <3>4. CASE y = x
      BY <3>2, <3>3, <3>4
    <3>5. CASE y # x /\ x \in U
      <4>1. (U \ {x}) \ {y} = (U \ {y}) \ {x} /\ y \in U \ {x}
        BY <3>5
      <4>2. g[U \ {x}] = f[y] + g[(U \ {y}) \ {x}]
        BY <2>1, <2>2, <4>1 DEF IsSum
      <4>3. g[(U \ {y}) \ {x}] \in Int
        BY <2>2
      <4> QED BY <3>1, <3>2, <3>3, <3>5, <4>2, <4>3
    <3>6. CASE x \notin U
      <4>1. g[U] = f[y] + g[U \ {y}]
        BY <2>1, <2>3, <3>6 DEF IsSum
      <4> QED BY <3>2, <3>3, <3>6, <4>1
    <3> QED BY <3>4, <3>5, <3>6
  <2>7. IsSum(h, f, T \cup {x})
    <3> HIDE DEF h
    <3> QED BY <2>4, <2>5, <2>6 DEF IsSum
  <2> QED BY <2>7
<1>3. G = SUBSET D
  <2> HIDE DEF G
  <2>1. G \in SUBSET SUBSET D
    BY DEF G
  <2> QED BY <1>1, <1>2, <2>1, SetInduction
<1> QED BY <1>3

\* Whatever satisfies the equations is the sum.
LEMMA TotalIs ==
  ASSUME NEW D, IsFiniteSet(D), NEW f, NEW g, IsSum(g, f, D)
  PROVE  Total(f, D) = g[D]
<1> DEFINE c == CHOOSE h : IsSum(h, f, D)
<1>1. IsSum(c, f, D)
  OBVIOUS
<1> HIDE DEF c
<1>2. c = g
  BY <1>1, SumUnique
<1> QED BY <1>2 DEF Total, c

LEMMA TotalInt ==
  ASSUME NEW D, IsFiniteSet(D), NEW f, \A x \in D : f[x] \in Int
  PROVE  Total(f, D) \in Int
<1>1. PICK g : IsSum(g, f, D)
  BY SumExists
<1>2. g[D] \in Int
  BY <1>1 DEF IsSum
<1> QED BY <1>1, <1>2, TotalIs

\* Functions that agree on a set have one sum over it.
LEMMA TotalSame ==
  ASSUME NEW D, IsFiniteSet(D), NEW f, NEW h, \A x \in D : f[x] \in Int /\ h[x] = f[x]
  PROVE  Total(h, D) = Total(f, D)
<1>1. PICK g : IsSum(g, f, D)
  BY SumExists
<1>2. IsSum(g, h, D)
  BY <1>1 DEF IsSum
<1> QED BY <1>1, <1>2, TotalIs

LEMMA TotalZero ==
  ASSUME NEW D, IsFiniteSet(D), NEW f, \A x \in D : f[x] = 0
  PROVE  Total(f, D) = 0
<1> DEFINE g == [T \in SUBSET D |-> 0]
<1>1. IsSum(g, f, D)
  BY DEF IsSum
<1> QED BY <1>1, TotalIs

LEMMA TotalPlus ==
  ASSUME NEW D, IsFiniteSet(D), NEW e, NEW f, NEW h,
         \A x \in D : e[x] \in Int /\ f[x] \in Int /\ h[x] = e[x] + f[x]
  PROVE  Total(h, D) = Total(e, D) + Total(f, D)
<1>1. PICK i : IsSum(i, e, D)
  BY SumExists
<1>2. PICK j : IsSum(j, f, D)
  BY SumExists
<1> DEFINE g == [T \in SUBSET D |-> i[T] + j[T]]
<1>3. g \in [SUBSET D -> Int] /\ g[{}] = 0
  BY <1>1, <1>2 DEF IsSum
<1>4. ASSUME NEW T \in SUBSET D, NEW x \in T PROVE g[T] = h[x] + g[T \ {x}]
  <2>1. i[T] = e[x] + i[T \ {x}] /\ j[T] = f[x] + j[T \ {x}]
    BY <1>1, <1>2 DEF IsSum
  <2>2. T \ {x} \in SUBSET D /\ i[T \ {x}] \in Int /\ j[T \ {x}] \in Int /\ x \in D
    BY <1>1, <1>2 DEF IsSum
  <2> QED BY <2>1, <2>2
<1>5. g[D] = i[D] + j[D]
  OBVIOUS
<1>6. IsSum(g, h, D)
  <2> HIDE DEF g
  <2> QED BY <1>3, <1>4 DEF IsSum
<1> HIDE DEF g
<1>7. Total(h, D) = g[D] /\ Total(e, D) = i[D] /\ Total(f, D) = j[D]
  BY <1>1, <1>2, <1>6, TotalIs
<1> QED BY <1>5, <1>7

\* Changing one summand changes the sum by as much.
LEMMA TotalChange ==
  ASSUME NEW D, IsFiniteSet(D), NEW y \in D, NEW f, NEW h,
         \A x \in D : f[x] \in Int /\ h[x] \in Int,
         \A x \in D \ {y} : h[x] = f[x]
  PROVE  Total(h, D) = Total(f, D) - f[y] + h[y]
<1> DEFINE e == [x \in D |-> IF x = y THEN h[y] - f[y] ELSE 0]
<1>1. Total(h, D) = Total(e, D) + Total(f, D)
  <2>1. \A x \in D : e[x] \in Int /\ f[x] \in Int /\ h[x] = e[x] + f[x]
    OBVIOUS
  <2> HIDE DEF e
  <2> QED BY <2>1, TotalPlus
<1>2. Total(e, D) = h[y] - f[y]
  <2> DEFINE g == [T \in SUBSET D |-> IF y \in T THEN h[y] - f[y] ELSE 0]
  <2>1. IsSum(g, e, D)
    BY DEF IsSum
  <2> HIDE DEF e
  <2> QED BY <2>1, TotalIs
<1>3. Total(f, D) \in Int
  BY TotalInt
<1> QED BY <1>1, <1>2, <1>3

LEMMA TotalNegated ==
  ASSUME NEW D, IsFiniteSet(D), NEW f, NEW h, \A x \in D : f[x] \in Int /\ h[x] = 0 - f[x]
  PROVE  Total(h, D) = 0 - Total(f, D)
<1> DEFINE z == [x \in D |-> 0]
<1>1. \A x \in D : f[x] \in Int /\ h[x] \in Int /\ z[x] = f[x] + h[x]
  OBVIOUS
<1>2. Total(z, D) = 0
  BY TotalZero
<1> HIDE DEF z
<1>3. Total(z, D) = Total(f, D) + Total(h, D)
  BY <1>1, TotalPlus
<1>4. Total(f, D) \in Int /\ Total(h, D) \in Int
  BY <1>1, TotalInt
<1> QED BY <1>2, <1>3, <1>4

\* A sum with one summand.
LEMMA TotalOne ==
  ASSUME NEW D, IsFiniteSet(D), NEW y \in D, NEW f, f[y] \in Int, \A x \in D \ {y} : f[x] = 0
  PROVE  Total(f, D) = f[y]
<1> DEFINE z == [x \in D |-> 0]
<1>1. Total(z, D) = 0 /\ z[y] = 0
  BY TotalZero
<1>2. /\ \A x \in D : z[x] \in Int /\ f[x] \in Int
      /\ \A x \in D \ {y} : f[x] = z[x]
  OBVIOUS
<1> HIDE DEF z
<1>3. Total(f, D) = Total(z, D) - z[y] + f[y]
  BY <1>2, TotalChange
<1> QED BY <1>1, <1>3

LEMMA TotalAdd ==
  ASSUME NEW T, IsFiniteSet(T), NEW x, x \notin T, NEW f, \A y \in T \cup {x} : f[y] \in Int
  PROVE  Total(f, T \cup {x}) = f[x] + Total(f, T)
<1>1. IsFiniteSet(T \cup {x})
  BY FS_AddElement
<1>2. PICK g : IsSum(g, f, T \cup {x})
  BY <1>1, SumExists
<1> DEFINE h == [U \in SUBSET T |-> g[U]]
<1>3. IsSum(h, f, T)
  BY <1>2 DEF IsSum
<1>4. h[T] = g[T]
  OBVIOUS
<1> HIDE DEF h
<1>5. Total(f, T) = h[T] /\ Total(f, T \cup {x}) = g[T \cup {x}]
  BY <1>1, <1>2, <1>3, TotalIs
<1>6. g[T \cup {x}] = f[x] + g[(T \cup {x}) \ {x}] /\ (T \cup {x}) \ {x} = T
  BY <1>2 DEF IsSum
<1> QED BY <1>4, <1>5, <1>6

\* The sum over one set of the sums over another, either way round.
LEMMA TotalSwap ==
  ASSUME NEW A, IsFiniteSet(A), NEW D, IsFiniteSet(D), NEW F \in [D -> [A -> Int]]
  PROVE  Total([y \in D |-> Total(F[y], A)], D)
           = Total([a \in A |-> Total([y \in D |-> F[y][a]], D)], A)
<1> DEFINE rows == [y \in D |-> Total(F[y], A)]
           col(a) == [y \in D |-> F[y][a]]
           sums(T) == [a \in A |-> Total(col(a), T)]
           G == {T \in SUBSET D : Total(rows, T) = Total(sums(T), A)}
<1>1. \A y \in D : rows[y] \in Int
  BY TotalInt
<1>2. \A a \in A : \A y \in D : col(a)[y] \in Int
  OBVIOUS
<1>3. {} \in G
  <2>1. Total(rows, {}) = 0 /\ \A a \in A : Total(col(a), {}) = 0
    <3>1. IsFiniteSet({})
      BY FS_EmptySet
    <3> HIDE DEF rows, col
    <3> QED BY <3>1, TotalZero
  <2>2. \A a \in A : sums({})[a] = 0
    BY <2>1
  <2>3. Total(sums({}), A) = 0
    <3> HIDE DEF sums
    <3> QED BY <2>2, TotalZero
  <2> QED BY <2>1, <2>3
<1>4. \A T \in G : \A x \in D \ T : T \cup {x} \in G
  <2> SUFFICES ASSUME NEW T \in G, NEW x \in D \ T PROVE T \cup {x} \in G
    OBVIOUS
  <2>1. IsFiniteSet(T) /\ T \subseteq D
    BY FS_Subset
  <2>2. Total(rows, T \cup {x}) = rows[x] + Total(rows, T)
    <3> HIDE DEF rows
    <3> QED BY <1>1, <2>1, TotalAdd
  <2>3. \A a \in A : Total(col(a), T \cup {x}) = col(a)[x] + Total(col(a), T)
    <3> HIDE DEF col
    <3> QED BY <1>2, <2>1, TotalAdd
  <2>4. \A a \in A : Total(col(a), T) \in Int
    <3> HIDE DEF col
    <3> QED BY <1>2, <2>1, TotalInt
  <2>5. \A a \in A : /\ F[x][a] \in Int /\ sums(T)[a] \in Int
                     /\ sums(T \cup {x})[a] = F[x][a] + sums(T)[a]
    <3>1. \A a \in A : col(a)[x] = F[x][a]
      OBVIOUS
    <3> HIDE DEF col
    <3> QED BY <2>3, <2>4, <3>1
  <2>6. Total(sums(T \cup {x}), A) = Total(F[x], A) + Total(sums(T), A)
    <3> HIDE DEF sums
    <3> QED BY <2>5, TotalPlus
  <2> QED BY <2>1, <2>2, <2>6
<1>5. G = SUBSET D
  <2> HIDE DEF G
  <2>1. G \in SUBSET SUBSET D
    BY DEF G
  <2> QED BY <1>3, <1>4, <2>1, SetInduction
<1> QED BY <1>5

(***************************************************************************)
(* MapThenSumSet of the community modules goes through a set element by    *)
(* element, as CHOOSE takes them: it is the sum.                           *)
(***************************************************************************)
One(s) == CHOOSE x \in s : TRUE
Folds(h, f, D) == h = [s \in SUBSET D |-> IF s = {} THEN 0 ELSE f[One(s)] + h[s \ {One(s)}]]

LEMMA FoldExists ==
  ASSUME NEW D, IsFiniteSet(D), NEW f, \A x \in D : f[x] \in Int
  PROVE  \E h : Folds(h, f, D)
<1>1. PICK g : IsSum(g, f, D)
  BY SumExists
<1>2. \A s \in SUBSET D : s # {} => One(s) \in s
  BY DEF One
<1>3. Folds(g, f, D)
  BY <1>1, <1>2 DEF IsSum, Folds
<1> QED BY <1>3

LEMMA FoldIsTotal ==
  ASSUME NEW D, IsFiniteSet(D), NEW f, \A x \in D : f[x] \in Int, NEW h, Folds(h, f, D)
  PROVE  h[D] = Total(f, D)
<1>1. PICK g : IsSum(g, f, D)
  BY SumExists
<1> DEFINE G == {s \in SUBSET D : h[s] = g[s]}
<1>2. \A s \in SUBSET D : h[s] = IF s = {} THEN 0 ELSE f[One(s)] + h[s \ {One(s)}]
  BY DEF Folds
<1>3. ASSUME NEW s \in SUBSET D, \A u \in (SUBSET s) \ {s} : u \in G PROVE s \in G
  <2>1. CASE s = {}
    BY <1>1, <1>2, <2>1 DEF IsSum
  <2>2. CASE s # {}
    <3>1. One(s) \in s
      BY <2>2 DEF One
    <3>2. h[s \ {One(s)}] = g[s \ {One(s)}]
      BY <1>3, <3>1
    <3>3. g[s] = f[One(s)] + g[s \ {One(s)}]
      BY <1>1, <3>1 DEF IsSum
    <3> QED BY <1>2, <2>2, <3>2, <3>3
  <2> QED BY <2>1, <2>2
<1>4. G = SUBSET D
  <2> HIDE DEF G
  <2>1. G \in SUBSET SUBSET D
    BY DEF G
  <2> QED BY <1>3, <2>1, SetsBySmaller
<1> QED BY <1>1, <1>4, TotalIs

-----------------------------------------------------------------------------
(* Types.                                                                  *)
USE KindAssumption, OwnerAssumption, AmountAssumption, OpeningAssumption, SwitchAssumption

\* The accounts of an attempt are accounts.
LEMMA AccountsOf ==
  ASSUME TypeOK, NEW a \in Attempt
  PROVE  /\ att[a] \in AttemptState /\ UserOf(a) \in User
         /\ Quota(a) \in Account /\ Remain(a) \in Account /\ Used(a) \in Account
BY DEF TypeOK, AttemptState, UserOf, Quota, Remain, Used, Account

\* Increase- and Decrease-Quota keep the balances integers.
LEMMA PostTypes ==
  ASSUME TypeOK, NEW acc \in Account, NEW d \in Int, Post(acc, d)
  PROVE  store' \in Amounts /\ pend' \in Amounts
BY DEF TypeOK, Post, Amounts

LEMMA GotoTypes ==
  ASSUME TypeOK, NEW a \in Attempt, NEW from, NEW to \in Running \cup Ended, Goto(a, from, to)
  PROVE  att' \in [Attempt -> AttemptState]
<1>1. [att[a] EXCEPT !.pc = to] \in AttemptState
  BY DEF TypeOK, AttemptState
<1>2. att' = [att EXCEPT ![a] = [att[a] EXCEPT !.pc = to]]
  BY DEF Goto, TypeOK
<1> QED BY <1>1, <1>2 DEF TypeOK

LEMMA JobGotoTypes ==
  ASSUME TypeOK, NEW a \in Attempt, NEW j \in Jobs, NEW from, NEW to \in JobPcs,
         JobGoto(a, j, from, to)
  PROVE  job' \in [Attempt -> [Jobs -> JobState]]
<1>1. [job[a][j] EXCEPT !.pc = to] \in JobState
  BY DEF TypeOK, JobState
<1>2. job' = [job EXCEPT ![a] = [job[a] EXCEPT ![j] = [job[a][j] EXCEPT !.pc = to]]]
  BY DEF JobGoto, TypeOK
<1>3. [job[a] EXCEPT ![j] = [job[a][j] EXCEPT !.pc = to]] \in [Jobs -> JobState]
  BY <1>1 DEF TypeOK
<1> QED BY <1>2, <1>3 DEF TypeOK

\* A goroutine as Start leaves it: as it was, or at its first statement.
LEMMA StartTypes ==
  ASSUME TypeOK, NEW a \in Attempt, NEW js, NEW to \in Ended, NEW c \in Nat,
         Start(a, js, to, c)
  PROVE  TypeOK'
<1>1. att[a].pre \in Nat /\ att[a] \in AttemptState
  BY AccountsOf DEF AttemptState
<1>2. att' \in [Attempt -> AttemptState]
  BY <1>1 DEF Start, TypeOK, AttemptState
<1> DEFINE new(j) == IF j \notin js THEN job[a][j]
                     ELSE [pc |-> "load", seen |-> 0,
                           delta |-> IF j = "refund" THEN - att[a].pre ELSE c - att[a].pre]
<1>3. \A j \in Jobs : new(j) \in JobState
  <2> SUFFICES ASSUME NEW j \in Jobs PROVE new(j) \in JobState OBVIOUS
  <2>1. job[a][j] \in JobState
    BY DEF TypeOK
  <2>2. (IF j = "refund" THEN - att[a].pre ELSE c - att[a].pre) \in Int
    BY <1>1
  <2>3. "load" \in JobPcs
    BY DEF JobPcs
  <2> QED BY <2>1, <2>2, <2>3 DEF JobState
<1>4. job' = [job EXCEPT ![a] = [j \in Jobs |-> new(j)]]
  BY DEF Start, TypeOK
<1> HIDE DEF new
<1>5. job' \in [Attempt -> [Jobs -> JobState]]
  BY <1>3, <1>4 DEF TypeOK
<1> QED BY <1>2, <1>5 DEF Start, TypeOK, batchVars, worldVars

\* Whatever comes of the upstream call, the handler ends through Start.
LEMMA OutcomeStarts ==
  ASSUME TypeOK, NEW a \in Attempt, Outcome(a)
  PROVE  \E js : \E to \in Ended : \E c \in Nat : Start(a, js, to, c)
<1>1. CostsOf(a) \subseteq Nat
  BY AccountsOf DEF CostsOf, AttemptState
<1>2. CASE Abort(a)
  BY <1>2 DEF Abort, Ended
<1>3. CASE UpstreamError(a)
  BY <1>3 DEF UpstreamError, Ended
<1>4. CASE Succeed(a)
  BY <1>4, <1>1 DEF Succeed, Ended
<1>5. CASE NoUsage(a)
  BY <1>5 DEF NoUsage, Ended
<1>6. CASE NotChat(a)
  BY <1>6 DEF NotChat, Ended
<1>7. CASE ChargedError(a)
  BY <1>7, <1>1 DEF ChargedError, Ended
<1> QED BY <1>2, <1>3, <1>4, <1>5, <1>6, <1>7 DEF Outcome

\* Every variable keeps its type.
THEOREM TypeCorrect == Spec => []TypeOK
<1>1. Init => TypeOK
  <2> SUFFICES ASSUME Init PROVE TypeOK OBVIOUS
  <2>1. att \in [Attempt -> AttemptState]
    <3>1. Kinds \subseteq AllKinds /\ Estimates \subseteq Nat /\ {0} \subseteq Nat
          /\ {0} \subseteq Int /\ {"idle"} \subseteq Running \cup Ended
      BY DEF Running
    <3>2. [pc: {"idle"}, kind: Kinds, tok: Token, est: Estimates, pre: {0}, seen: {0}, cost: {0}]
            \subseteq AttemptState
      BY <3>1 DEF AttemptState
    <3> QED BY <3>2 DEF Init
  <2>2. job \in [Attempt -> [Jobs -> JobState]]
    BY DEF Init, NoJobs, JobState, JobPcs
  <2> QED BY <2>1, <2>2 DEF Init, TypeOK, Zero, Amounts, Ledgers
<1>2. TypeOK /\ [Next]_vars => TypeOK'
  <2> SUFFICES ASSUME TypeOK, [Next]_vars PROVE TypeOK' OBVIOUS
  <2>1. ASSUME NEW a \in Attempt, Begin(a) PROVE TypeOK'
    BY <2>1, GotoTypes DEF Begin, TypeOK, batchVars, worldVars, Running
  <2>2. ASSUME NEW a \in Attempt, ReadQuota(a) PROVE TypeOK'
    <3>1. att' \in [Attempt -> AttemptState]
      BY <2>2, AccountsOf DEF ReadQuota, TypeOK, AttemptState, Hit, Quota, Running, Amounts
    <3> QED BY <2>2, <3>1 DEF ReadQuota, TypeOK, batchVars, worldVars
  <2>3. ASSUME NEW a \in Attempt, FillCache(a) PROVE TypeOK'
    <3>1. cache' \in [User -> Int \cup {NoValue}]
      BY <2>3, AccountsOf DEF FillCache, TypeOK, AttemptState
    <3> QED BY <2>3, <3>1, GotoTypes DEF FillCache, TypeOK, batchVars, worldVars, Running
  <2>4. ASSUME NEW a \in Attempt, GateReject(a) PROVE TypeOK'
    BY <2>4, GotoTypes DEF GateReject, TypeOK, batchVars, worldVars, Ended
  <2>5. ASSUME NEW a \in Attempt, GatePass(a) PROVE TypeOK'
    <3>1. att' \in [Attempt -> AttemptState]
      BY <2>5 DEF GatePass, TypeOK, AttemptState, HoldOf, Running
    <3>2. cache' \in [User -> Int \cup {NoValue}]
      BY <2>5, AccountsOf DEF GatePass, TypeOK, AttemptState, CacheAfterHold
    <3> QED BY <2>5, <3>1, <3>2 DEF GatePass, TypeOK, batchVars, worldVars
  <2>6. ASSUME NEW a \in Attempt, CheckToken(a) \/ CheckUser(a) PROVE TypeOK'
    BY <2>6, GotoTypes DEF CheckToken, CheckUser, TypeOK, batchVars, worldVars, Running, Ended
  <2>7. ASSUME NEW a \in Attempt, DebitToken(a) \/ DebitUser(a) PROVE TypeOK'
    <3>1. - att[a].pre \in Int
      BY AccountsOf DEF AttemptState
    <3> QED BY <2>7, <3>1, GotoTypes, PostTypes, AccountsOf
            DEF DebitToken, DebitUser, TypeOK, batchVars, worldVars, Running
  <2>8. ASSUME NEW a \in Attempt, Outcome(a) PROVE TypeOK'
    BY <2>8, OutcomeStarts, StartTypes
  <2>9. ASSUME NEW a \in Attempt, NEW j \in Jobs, JobStep(a, j) PROVE TypeOK'
    <3>1. job[a][j] \in JobState
      BY DEF TypeOK
    <3>2. - job[a][j].delta \in Int /\ att[a].cost \in Int /\ job[a][j].seen \in Int
      BY <3>1, AccountsOf DEF JobState, AttemptState
    <3>3. CASE JobLoad(a, j)
      <4>1. AfterPost(j) \in JobPcs /\ "user" \in JobPcs
        BY DEF AfterPost, JobPcs
      <4> DEFINE next == IF att[a].tok \in exists THEN [job[a][j] EXCEPT !.pc = "user"]
                         ELSE [pc |-> AfterPost(j), delta |-> 0, seen |-> job[a][j].seen]
      <4>2. next \in JobState
        BY <3>1, <4>1 DEF JobState
      <4>3. job' = [job EXCEPT ![a] = [job[a] EXCEPT ![j] = next]]
        BY <3>3 DEF JobLoad, TypeOK
      <4> HIDE DEF next
      <4>4. job' \in [Attempt -> [Jobs -> JobState]]
        BY <4>2, <4>3 DEF TypeOK
      <4> QED BY <3>3, <4>4 DEF JobLoad, TypeOK, batchVars, worldVars
    <3>4. CASE JobUser(a, j)
      <4>1. AfterUser(a, j) \in JobPcs
        BY DEF AfterUser, AfterPost, JobPcs
      <4> QED BY <3>4, <3>2, <4>1, JobGotoTypes, PostTypes, AccountsOf
              DEF JobUser, TypeOK, batchVars, worldVars
    <3>5. CASE JobToken(a, j)
      <4>1. AfterPost(j) \in JobPcs
        BY DEF AfterPost, JobPcs
      <4> QED BY <3>5, <3>2, <4>1, JobGotoTypes, PostTypes, AccountsOf
              DEF JobToken, TypeOK, batchVars, worldVars
    <3>6. CASE JobCacheGet(a, j)
      <4>1. job' \in [Attempt -> [Jobs -> JobState]]
        BY <3>6, <3>1, AccountsOf, ZenonT(40) DEF JobCacheGet, TypeOK, JobState, JobPcs, Hit, Quota, Amounts
      <4> QED BY <3>6, <4>1 DEF JobCacheGet, TypeOK, batchVars, worldVars
    <3>7. CASE JobCacheWrite(a, j)
      <4>1. cache' \in [User -> Int \cup {NoValue}]
        BY <3>7, <3>2, AccountsOf DEF JobCacheWrite, TypeOK
      <4>2. job' \in [Attempt -> [Jobs -> JobState]]
        BY <3>7, JobGotoTypes DEF JobCacheWrite, JobPcs
      <4> QED BY <3>7, <4>1, <4>2 DEF JobCacheWrite, TypeOK, batchVars, worldVars
    <3>8. CASE JobStats(a, j)
      BY <3>8, <3>2, JobGotoTypes, PostTypes, AccountsOf
         DEF JobStats, TypeOK, batchVars, worldVars, JobPcs
    <3> QED BY <2>9, <3>3, <3>4, <3>5, <3>6, <3>7, <3>8 DEF JobStep
  <2>10. CASE FlushSwap
    <3>1. LedgerAfter[nextLedger] \in Ledgers
      BY DEF TypeOK, LedgerAfter, Ledgers
    <3> QED BY <2>10, <3>1 DEF FlushSwap, Emptied, TypeOK, Amounts, worldVars
  <2>11. ASSUME NEW acc \in Account, FlushEntry(acc) PROVE TypeOK'
    BY <2>11 DEF FlushEntry, TypeOK, Amounts, worldVars
  <2>12. ASSUME NEW u \in User, TopUp(u) PROVE TypeOK'
    <3>1. PICK n \in Grants : /\ Post(<<"quota", u>>, n)
                              /\ granted' = [granted EXCEPT ![<<"quota", u>>] = n]
      BY <2>12 DEF TopUp
    <3>2. <<"quota", u>> \in Account /\ n \in Int
      BY DEF Account
    <3>3. granted' \in Amounts
      BY <3>1, <3>2 DEF TypeOK, Amounts
    <3> QED BY <2>12, <3>1, <3>2, <3>3, PostTypes DEF TopUp, TypeOK, batchVars
  <2>13. ASSUME NEW t \in Token, DeleteToken(t) PROVE TypeOK'
    BY <2>13 DEF DeleteToken, TypeOK, batchVars
  <2>14. ASSUME NEW u \in User, CacheExpire(u) PROVE TypeOK'
    BY <2>14 DEF CacheExpire, TypeOK, batchVars, worldVars
  <2>15. CASE Crash
    BY <2>15 DEF Crash, TypeOK, Amounts, Zero, Ledgers
  <2>16. CASE UNCHANGED vars
    BY <2>16 DEF vars, TypeOK
  <2> QED BY <2>1, <2>2, <2>3, <2>4, <2>5, <2>6, <2>7, <2>8, <2>9, <2>10, <2>11,
             <2>12, <2>13, <2>14, <2>15, <2>16 DEF Next, Handler
<1> QED BY <1>1, <1>2, PTL DEF Spec
-----------------------------------------------------------------------------
(***************************************************************************)
(* The ledger implements the settlement a user is promised.                *)
(*                                                                         *)
(* The helpers other than the non-streamed /v1/messages one leave at most  *)
(* one goroutine behind, which has not yet touched the balance as long as  *)
(* its delta is what takes the hold to the amount due.                     *)
(***************************************************************************)
SettlesOnce(a) ==
  /\ att[a].kind # "messages"
  /\ att[a].pc \in Running \cup {"rejected"} =>
       job[a]["refund"].pc = "none" /\ job[a]["settle"].pc = "none"
  /\ job[a]["refund"].pc # "none" => job[a]["settle"].pc = "none" /\ att[a].cost = 0
  /\ job[a]["refund"].pc \in {"load", "user"} => job[a]["refund"].delta = - att[a].pre
  /\ job[a]["settle"].pc \in {"load", "user"} =>
       job[a]["settle"].delta = att[a].cost - att[a].pre

OneSettlement == \A a \in Attempt : SettlesOnce(a)

\* What a step of attempt a leaves of the others.
OthersStay(a) == \A b \in Attempt \ {a} : att'[b] = att[b] /\ job'[b] = job[b]

LEMMA OthersStayOnce ==
  ASSUME OneSettlement, NEW a \in Attempt, OthersStay(a), SettlesOnce(a)'
  PROVE  OneSettlement'
BY DEF OneSettlement, OthersStay, SettlesOnce

\* A handler that has no outcome yet has left no goroutine behind, and a step of
\* it that brings none keeps it so.
LEMMA HandlerStepOnce ==
  ASSUME TypeOK, OneSettlement, NEW a \in Attempt, att[a].pc \in Running,
         OthersStay(a), job' = job, att'[a].kind = att[a].kind,
         att'[a].pc \in Running \cup {"rejected"}
  PROVE  OneSettlement'
<1>1. SettlesOnce(a)
  BY DEF OneSettlement
<1>2. SettlesOnce(a)'
  BY <1>1 DEF SettlesOnce, Running
<1> QED BY <1>2, OthersStayOnce

\* The helpers other than the non-streamed /v1/messages one start at most one goroutine.
LEMMA OutcomeStartsOne ==
  ASSUME TypeOK, NEW a \in Attempt, att[a].kind # "messages", Outcome(a)
  PROVE  \E js : \E to \in Ended \ {"rejected"} : \E c \in Nat :
           Start(a, js, to, c) /\ (js = {} \/ js = {"settle"} \/ (js = {"refund"} /\ c = 0))
<1>1. CostsOf(a) \subseteq Nat
  BY AccountsOf DEF CostsOf, AttemptState
<1>2. Refund(a) = {} \/ Refund(a) = {"refund"}
  BY DEF Refund
<1>3. CASE Abort(a)
  BY <1>2, <1>3 DEF Abort, RefundOnAbort, Ended
<1>4. CASE UpstreamError(a)
  BY <1>2, <1>4 DEF UpstreamError, Ended
<1>5. CASE Succeed(a)
  BY <1>1, <1>5 DEF Succeed, Ended
<1>6. CASE NoUsage(a)
  BY <1>6 DEF NoUsage, Ended
<1>7. CASE ChargedError(a)
  BY <1>1, <1>7 DEF ChargedError, Ended
<1> QED BY <1>3, <1>4, <1>5, <1>6, <1>7 DEF Outcome, NotChat

LEMMA StartEffect ==
  ASSUME TypeOK, NEW a \in Attempt, NEW js, NEW to, NEW c, Start(a, js, to, c)
  PROVE  /\ OthersStay(a) /\ att[a].pc = "calling"
         /\ att'[a].pc = to /\ att'[a].cost = c
         /\ att'[a].pre = att[a].pre /\ att'[a].kind = att[a].kind
         /\ \A j \in Jobs : j \notin js => job'[a][j] = job[a][j]
         /\ "refund" \in js => job'[a]["refund"].pc = "load" /\ job'[a]["refund"].delta = - att[a].pre
         /\ "settle" \in js => job'[a]["settle"].pc = "load" /\ job'[a]["settle"].delta = c - att[a].pre
BY DEF Start, TypeOK, AttemptState, OthersStay, Jobs

LEMMA StartKeeps ==
  ASSUME TypeOK, NEW a \in Attempt, NEW js, NEW to, NEW c, Start(a, js, to, c)
  PROVE  /\ att'[a].tok = att[a].tok
         /\ \A j \in Jobs : j \in js => job'[a][j].pc = "load"
         /\ UNCHANGED <<store, pend, taken, granted, lost>>
BY DEF Start, TypeOK, AttemptState, Jobs, batchVars, worldVars

\* Whatever comes of the upstream call, the handler ends, and not by a rejection.
LEMMA OutcomeStartsEnded ==
  ASSUME TypeOK, NEW a \in Attempt, Outcome(a)
  PROVE  \E js : \E to \in Ended \ {"rejected"} : \E c \in Nat : Start(a, js, to, c)
<1>1. CostsOf(a) \subseteq Nat
  BY AccountsOf DEF CostsOf, AttemptState
<1>2. CASE Abort(a)
  BY <1>2 DEF Abort, Ended
<1>3. CASE UpstreamError(a)
  BY <1>3 DEF UpstreamError, Ended
<1>4. CASE Succeed(a)
  BY <1>4, <1>1 DEF Succeed, Ended
<1>5. CASE NoUsage(a)
  BY <1>5 DEF NoUsage, Ended
<1>6. CASE NotChat(a)
  BY <1>6 DEF NotChat, Ended
<1>7. CASE ChargedError(a)
  BY <1>7, <1>1 DEF ChargedError, Ended
<1> QED BY <1>2, <1>3, <1>4, <1>5, <1>6, <1>7 DEF Outcome

\* What a step of goroutine j of attempt a does: it leaves the attempt and the other
\* goroutine alone and moves on; before the balance is touched the delta stays.
LEMMA JobEffect ==
  ASSUME TypeOK, NEW a \in Attempt, NEW j \in Jobs, JobStep(a, j)
  PROVE  /\ OthersStay(a) /\ att' = att
         /\ \A i \in Jobs \ {j} : job'[a][i] = job[a][i]
         /\ job[a][j].pc # "none" /\ job'[a][j].pc # "none"
         /\ job'[a][j].pc # "load"
         /\ job'[a][j].pc = "user" =>
              job[a][j].pc = "load" /\ job'[a][j].delta = job[a][j].delta
<1>0. AfterPost(j) \in {"done", "cacheGet", "stats"} /\ AfterUser(a, j) \in {"token", "done", "cacheGet", "stats"}
  BY DEF AfterUser, AfterPost
<1>1. CASE JobLoad(a, j)
  BY <1>1, <1>0 DEF JobLoad, TypeOK, JobState, OthersStay
<1>2. CASE JobUser(a, j)
  BY <1>2, <1>0 DEF JobUser, JobGoto, TypeOK, JobState, OthersStay
<1>3. CASE JobToken(a, j)
  BY <1>3, <1>0 DEF JobToken, JobGoto, TypeOK, JobState, OthersStay
<1>4. CASE JobCacheGet(a, j)
  BY <1>4 DEF JobCacheGet, TypeOK, JobState, OthersStay
<1>5. CASE JobCacheWrite(a, j)
  BY <1>5 DEF JobCacheWrite, JobGoto, TypeOK, JobState, OthersStay
<1>6. CASE JobStats(a, j)
  BY <1>6 DEF JobStats, JobGoto, TypeOK, JobState, OthersStay
<1> QED BY <1>1, <1>2, <1>3, <1>4, <1>5, <1>6 DEF JobStep

LEMMA HandlerEffect ==
  ASSUME TypeOK, NEW a \in Attempt, Handler(a), ~Outcome(a)
  PROVE  /\ OthersStay(a) /\ job' = job
         /\ att[a].pc \in Running \ {"calling"}
         /\ att'[a].pc \in Running \cup {"rejected"}
         /\ att'[a].kind = att[a].kind /\ att'[a].tok = att[a].tok
         /\ att'[a].cost = att[a].cost
<1>1. CASE Begin(a)
  BY <1>1 DEF Begin, Goto, TypeOK, AttemptState, OthersStay, Running
<1>2. CASE ReadQuota(a)
  BY <1>2 DEF ReadQuota, TypeOK, AttemptState, OthersStay, Running
<1>3. CASE FillCache(a)
  BY <1>3 DEF FillCache, Goto, TypeOK, AttemptState, OthersStay, Running
<1>4. CASE GateReject(a)
  BY <1>4 DEF GateReject, Goto, TypeOK, AttemptState, OthersStay, Running
<1>5. CASE GatePass(a)
  BY <1>5 DEF GatePass, TypeOK, AttemptState, OthersStay, Running
<1>6. CASE CheckToken(a)
  BY <1>6 DEF CheckToken, Goto, TypeOK, AttemptState, OthersStay, Running
<1>7. CASE CheckUser(a)
  BY <1>7 DEF CheckUser, Goto, TypeOK, AttemptState, OthersStay, Running
<1>8. CASE DebitToken(a)
  BY <1>8 DEF DebitToken, Goto, TypeOK, AttemptState, OthersStay, Running
<1>9. CASE DebitUser(a)
  BY <1>9 DEF DebitUser, Goto, TypeOK, AttemptState, OthersStay, Running
<1> QED BY <1>1, <1>2, <1>3, <1>4, <1>5, <1>6, <1>7, <1>8, <1>9 DEF Handler

\* Everything else leaves attempts and goroutines alone.
LEMMA WorldEffect ==
  ASSUME \/ FlushSwap
         \/ \E acc \in Account : FlushEntry(acc)
         \/ \E u \in User : TopUp(u) \/ CacheExpire(u)
         \/ \E t \in Token : DeleteToken(t)
         \/ Crash
         \/ UNCHANGED vars
  PROVE  att' = att /\ job' = job
BY DEF FlushSwap, FlushEntry, TopUp, CacheExpire, DeleteToken, Crash, vars

LEMMA OneSettlementStep ==
  ASSUME TypeOK, OneSettlement, [Next]_vars
  PROVE  OneSettlement'
<1>1. ASSUME NEW a \in Attempt, Handler(a), ~Outcome(a) PROVE OneSettlement'
  BY <1>1, HandlerEffect, HandlerStepOnce
<1>2. ASSUME NEW a \in Attempt, Outcome(a) PROVE OneSettlement'
  <2>1. SettlesOnce(a) /\ att[a].kind # "messages"
    BY DEF OneSettlement, SettlesOnce
  <2>2. PICK js : \E to \in Ended \ {"rejected"} : \E c \in Nat :
           Start(a, js, to, c) /\ (js = {} \/ js = {"settle"} \/ (js = {"refund"} /\ c = 0))
    BY <1>2, <2>1, OutcomeStartsOne
  <2>3. PICK to \in Ended \ {"rejected"}, c \in Nat :
           Start(a, js, to, c) /\ (js = {} \/ js = {"settle"} \/ (js = {"refund"} /\ c = 0))
    BY <2>2
  <2>4. /\ OthersStay(a) /\ att[a].pc = "calling"
        /\ att'[a].pc = to /\ att'[a].cost = c
        /\ att'[a].pre = att[a].pre /\ att'[a].kind = att[a].kind
        /\ \A j \in Jobs : j \notin js => job'[a][j] = job[a][j]
        /\ "refund" \in js => job'[a]["refund"].pc = "load" /\ job'[a]["refund"].delta = - att[a].pre
        /\ "settle" \in js => job'[a]["settle"].pc = "load" /\ job'[a]["settle"].delta = c - att[a].pre
    BY <2>3, StartEffect
  <2>5. job[a]["refund"].pc = "none" /\ job[a]["settle"].pc = "none"
    BY <2>1, <2>4 DEF SettlesOnce, Running
  <2>6. SettlesOnce(a)'
    BY <2>1, <2>3, <2>4, <2>5 DEF SettlesOnce, Ended, Running, Jobs
  <2> QED BY <2>4, <2>6, OthersStayOnce
<1>3. ASSUME NEW a \in Attempt, NEW j \in Jobs, JobStep(a, j) PROVE OneSettlement'
  <2>1. SettlesOnce(a)
    BY DEF OneSettlement
  <2>2. SettlesOnce(a)'
    BY <2>1, <1>3, JobEffect DEF SettlesOnce, Jobs
  <2> QED BY <1>3, <2>2, JobEffect, OthersStayOnce
<1>4. ASSUME att' = att, job' = job PROVE OneSettlement'
  BY <1>4 DEF OneSettlement, SettlesOnce
<1> QED BY <1>1, <1>2, <1>3, <1>4, WorldEffect DEF Next, Handler

LEMMA OneSettlementInit ==
  ASSUME "messages" \notin Kinds, Init
  PROVE  OneSettlement
BY DEF Init, OneSettlement, SettlesOnce, NoJobs, Jobs, Running

\* A step of the ledger is a step of the settlement, or none.
LEMMA SettlementStep ==
  ASSUME TypeOK, OneSettlement, [Next]_vars, TypeOK'
  PROVE  [S!Next]_<<debit, due>>
<1> DEFINE Same(b) == BalanceDebit(b)' = BalanceDebit(b) /\ (due[b])' = due[b]
<1>a. ASSUME NEW b \in Attempt, att'[b] = att[b], job'[b] = job[b] PROVE Same(b)
  BY <1>a DEF BalanceDebit, HoldDebit, JobDebit, due
<1>b. ASSUME \A b \in Attempt : Same(b) PROVE debit' = debit /\ due' = due
  BY <1>b DEF debit, due
<1>c. ASSUME NEW a \in Attempt, OthersStay(a)
      PROVE  /\ debit' = [debit EXCEPT ![a] = BalanceDebit(a)']
             /\ due' = [due EXCEPT ![a] = (due[a])']
  <2>1. \A b \in Attempt \ {a} : Same(b)
    BY <1>a, <1>c DEF OthersStay
  <2> QED BY <2>1 DEF debit, due
<1>d. ASSUME NEW a \in Attempt, OthersStay(a), Same(a) PROVE debit' = debit /\ due' = due
  BY <1>a, <1>b, <1>d DEF OthersStay
<1>e. ASSUME NEW a \in Attempt PROVE debit[a] = BalanceDebit(a) /\ debit'[a] = BalanceDebit(a)'
  BY DEF debit
<1>f. ASSUME NEW a \in Attempt
      PROVE  [debit EXCEPT ![a] = debit[a]] = debit /\ [due EXCEPT ![a] = due[a]] = due
  BY DEF debit, due
<1> HIDE DEF Same
<1>1. ASSUME NEW a \in Attempt, Handler(a), ~Outcome(a) PROVE [S!Next]_<<debit, due>>
  <2>1. SettlesOnce(a)
    BY DEF OneSettlement
  <2>2. /\ OthersStay(a) /\ job' = job
        /\ att[a].pc \in Running \ {"calling"}
        /\ att'[a].pc \in Running \cup {"rejected"}
    BY <1>1, HandlerEffect
  <2>3. job[a]["refund"].pc = "none" /\ job[a]["settle"].pc = "none"
    BY <2>1, <2>2 DEF SettlesOnce
  <2>4. BalanceDebit(a) = 0 /\ due[a] = Undecided
    BY <2>2, <2>3 DEF BalanceDebit, HoldDebit, JobDebit, PastUser, due, Held, Ended, Running
  <2>5. att'[a] \in AttemptState /\ att'[a].cost \in Nat /\ att'[a].pre \in Nat
    BY DEF TypeOK, AttemptState
  <2>6. BalanceDebit(a)' = IF att'[a].pc \in Held THEN att'[a].pre ELSE 0
    BY <2>2, <2>3, <2>5 DEF BalanceDebit, HoldDebit, JobDebit, PastUser
  <2>7. CASE DebitUser(a)
    <3>1. att'[a].pc = "calling"
      BY <2>7 DEF DebitUser, Goto, TypeOK, AttemptState
    <3>2. (due[a])' = Undecided
      BY <3>1 DEF due, Ended
    <3>3. BalanceDebit(a)' \in Nat
      BY <2>5, <2>6
    <3>4. S!Hold(a)
      BY <1>c, <1>e, <1>f, <2>2, <2>4, <3>2, <3>3 DEF S!Hold
    <3> QED BY <3>4 DEF S!Next
  <2>8. CASE att'[a].pc = "rejected"
    <3>1. BalanceDebit(a)' = 0
      BY <2>6, <2>8 DEF Held
    <3>2. (due[a])' = att'[a].cost
      BY <2>8 DEF due, Ended
    <3>3. S!Decide(a)
      BY <1>c, <1>e, <1>f, <2>2, <2>4, <2>5, <3>1, <3>2 DEF S!Decide
    <3> QED BY <3>3 DEF S!Next
  <2>9. CASE ~DebitUser(a) /\ att'[a].pc # "rejected"
    <3>1. att'[a].pc \in Running
      BY <2>2, <2>9
    <3>2. att'[a].pc = "calling" => att'[a].pre = 0
      <4>1. GatePass(a) => (att'[a].pc = "calling" => att'[a].pre = 0)
        BY AccountsOf DEF GatePass, HoldOf, TypeOK, AttemptState
      <4>2. ~GatePass(a) => att'[a].pc # "calling"
        BY <1>1, <2>9 DEF Handler, Begin, ReadQuota, FillCache, GateReject, CheckToken,
                         CheckUser, DebitToken, Goto, TypeOK, AttemptState
      <4> QED BY <4>1, <4>2
    <3>3. BalanceDebit(a)' = 0
      BY <2>6, <3>1, <3>2 DEF Held, Ended, Running
    <3>4. (due[a])' = Undecided
      BY <3>1 DEF due, Ended, Running
    <3> QED BY <1>d, <2>2, <2>4, <3>3, <3>4 DEF Same
  <2> QED BY <2>7, <2>8, <2>9
<1>2. ASSUME NEW a \in Attempt, Outcome(a) PROVE [S!Next]_<<debit, due>>
  <2>1. SettlesOnce(a)
    BY DEF OneSettlement
  <2>2. PICK js : \E to \in Ended \ {"rejected"} : \E c \in Nat :
           Start(a, js, to, c) /\ (js = {} \/ js = {"settle"} \/ (js = {"refund"} /\ c = 0))
    BY <1>2, <2>1, OutcomeStartsOne DEF SettlesOnce
  <2>3. PICK to \in Ended \ {"rejected"}, c \in Nat : Start(a, js, to, c)
    BY <2>2
  <2>4. /\ OthersStay(a) /\ att[a].pc = "calling"
        /\ att'[a].pc = to /\ att'[a].cost = c /\ att'[a].pre = att[a].pre
        /\ \A j \in Jobs : j \notin js => job'[a][j] = job[a][j]
        /\ "refund" \in js => job'[a]["refund"].pc = "load"
        /\ "settle" \in js => job'[a]["settle"].pc = "load"
    BY <2>3, StartEffect
  <2>5. job[a]["refund"].pc = "none" /\ job[a]["settle"].pc = "none"
    BY <2>1, <2>4 DEF SettlesOnce, Running
  <2>6. job'[a]["refund"].pc \in {"none", "load"} /\ job'[a]["settle"].pc \in {"none", "load"}
    BY <2>4, <2>5 DEF Jobs
  <2>7. BalanceDebit(a) = att[a].pre + 0 + 0
    BY <2>4, <2>5 DEF BalanceDebit, HoldDebit, JobDebit, PastUser, Held
  <2>8. BalanceDebit(a)' = att[a].pre + 0 + 0
    BY <2>3, <2>4, <2>6 DEF BalanceDebit, HoldDebit, JobDebit, PastUser, Held
  <2>9. due[a] = Undecided /\ (due[a])' = c
    BY <2>3, <2>4 DEF due, Ended
  <2>10. S!Decide(a)
    BY <1>c, <1>e, <1>f, <2>4, <2>7, <2>8, <2>9 DEF S!Decide
  <2> QED BY <2>10 DEF S!Next
<1>3. ASSUME NEW a \in Attempt, NEW j \in Jobs, JobStep(a, j) PROVE [S!Next]_<<debit, due>>
  <2>1. SettlesOnce(a)
    BY DEF OneSettlement
  <2>2. /\ OthersStay(a) /\ att' = att
        /\ \A i \in Jobs \ {j} : job'[a][i] = job[a][i]
        /\ job[a][j].pc # "none"
    BY <1>3, JobEffect
  <2>3. \A i \in Jobs \ {j} : job[a][i].pc = "none" /\ job'[a][i].pc = "none"
    BY <2>1, <2>2 DEF SettlesOnce, Jobs
  <2>4. att[a].pc \in Ended \ {"rejected"}
    BY <2>1, <2>2 DEF SettlesOnce, TypeOK, AttemptState, Jobs
  <2>5. (due[a])' = due[a] /\ due[a] = att[a].cost
    BY <2>2, <2>4 DEF due
  <2>6. /\ att[a].pre \in Nat /\ att[a].cost \in Nat
        /\ job[a][j].delta \in Int /\ job'[a][j].delta \in Int
    BY DEF TypeOK, AttemptState, JobState
  <2>7. BalanceDebit(a) = att[a].pre + JobDebit(a, j, PastUser)
    BY <2>3, <2>4, <2>6 DEF BalanceDebit, HoldDebit, JobDebit, PastUser, Held, Jobs
  <2>8. BalanceDebit(a)' = att[a].pre + JobDebit(a, j, PastUser)'
    BY <2>2, <2>3, <2>4, <2>6 DEF BalanceDebit, HoldDebit, JobDebit, PastUser, Held, Jobs
  <2>9. CASE JobUser(a, j)
    <3>1. job[a][j].pc = "user" /\ job'[a][j].delta = job[a][j].delta
          /\ job'[a][j].pc \in PastUser
      BY <2>9 DEF JobUser, JobGoto, AfterUser, AfterPost, PastUser, TypeOK, JobState
    <3>2. job[a][j].delta = att[a].cost - att[a].pre
      BY <2>1, <2>6, <3>1 DEF SettlesOnce, Jobs
    <3>3. BalanceDebit(a)' = att[a].cost
      BY <2>6, <2>8, <3>1, <3>2 DEF JobDebit
    <3>4. due[a] # Undecided
      BY <2>5, <2>6, UndecidedNotAnAmount
    <3> QED BY <1>c, <2>2, <2>5, <3>3, <3>4 DEF S!Next, S!Settle, debit, due
  <2>10. CASE ~JobUser(a, j)
    <3>1. JobDebit(a, j, PastUser)' = JobDebit(a, j, PastUser)
      <4>1. CASE JobLoad(a, j)
        BY <4>1 DEF JobLoad, JobDebit, PastUser, AfterPost, TypeOK, JobState
      <4>2. CASE JobToken(a, j)
        BY <4>2 DEF JobToken, JobGoto, JobDebit, PastUser, AfterPost, TypeOK, JobState
      <4>3. CASE JobCacheGet(a, j)
        BY <4>3 DEF JobCacheGet, JobDebit, PastUser, TypeOK, JobState
      <4>4. CASE JobCacheWrite(a, j)
        BY <4>4 DEF JobCacheWrite, JobGoto, JobDebit, PastUser, TypeOK, JobState
      <4>5. CASE JobStats(a, j)
        BY <4>5 DEF JobStats, JobGoto, JobDebit, PastUser, TypeOK, JobState
      <4> QED BY <1>3, <2>10, <4>1, <4>2, <4>3, <4>4, <4>5 DEF JobStep
    <3> QED BY <1>d, <2>2, <2>5, <2>7, <2>8, <3>1 DEF Same
  <2> QED BY <2>9, <2>10
<1>4. ASSUME att' = att, job' = job PROVE [S!Next]_<<debit, due>>
  BY <1>4, <1>a, <1>b
<1> QED BY <1>1, <1>2, <1>3, <1>4, WorldEffect DEF Next, Handler

\* Whatever the interleaving of requests, goroutines, batch updates, crashes, top-ups and
\* token deletions, and as long as no call takes the non-streamed /v1/messages path, each
\* call takes at most one hold and moves the debit once more, to the amount due.
THEOREM LedgerImplementsSettlement ==
  ASSUME "messages" \notin Kinds
  PROVE  Spec => ImplementsSettlement
<1>1. Init => S!Init
  BY DEF Init, S!Init, debit, due, BalanceDebit, HoldDebit, JobDebit, Held, PastUser,
         Ended, NoJobs, Jobs
<1>2. Init => OneSettlement
  BY OneSettlementInit
<1>3. TypeOK /\ OneSettlement /\ [Next]_vars => OneSettlement'
  BY OneSettlementStep
<1>4. TypeOK /\ TypeOK' /\ OneSettlement /\ [Next]_vars => [S!Next]_<<debit, due>>
  BY SettlementStep
<1> QED BY <1>1, <1>2, <1>3, <1>4, TypeCorrect, PTL DEF Spec, ImplementsSettlement, S!Spec
-----------------------------------------------------------------------------
(***************************************************************************)
(* No quota is made or lost.                                               *)
(*                                                                         *)
(* An attempt has no goroutine before its upstream call has come to an     *)
(* end, a refund never goes on to the cache and the statistics, and only   *)
(* a limited token is debited.                                             *)
(***************************************************************************)
InOrder(a) ==
  /\ att[a].pc \in Running \cup {"rejected"} =>
       job[a]["refund"].pc = "none" /\ job[a]["settle"].pc = "none"
  /\ job[a]["refund"].pc \in {"none", "load", "user", "token", "done"}
  /\ att[a].pc = "debitToken" => Limited(a)
  /\ \A j \in Jobs : job[a][j].pc = "token" => Limited(a)

AllInOrder == \A a \in Attempt : InOrder(a)

LEMMA StaysInOrder ==
  ASSUME AllInOrder, NEW a \in Attempt, OthersStay(a), InOrder(a)'
  PROVE  AllInOrder'
BY DEF AllInOrder, OthersStay, InOrder, Limited

LEMMA InOrderInit == ASSUME Init PROVE AllInOrder
BY DEF Init, AllInOrder, InOrder, NoJobs, Jobs

\* A token is debited only where CheckUser has found it limited.
LEMMA DebitTokenLimited ==
  ASSUME TypeOK, NEW a \in Attempt, Handler(a), ~Outcome(a), att'[a].pc = "debitToken"
  PROVE  Limited(a)
BY DEF Handler, Begin, ReadQuota, FillCache, GateReject, GatePass, CheckToken, CheckUser,
       DebitToken, DebitUser, Goto, TypeOK, AttemptState

LEMMA InOrderStep ==
  ASSUME TypeOK, AllInOrder, [Next]_vars
  PROVE  AllInOrder'
<1>1. ASSUME NEW a \in Attempt, Handler(a), ~Outcome(a) PROVE AllInOrder'
  <2>1. InOrder(a)
    BY DEF AllInOrder
  <2>2. InOrder(a)'
    BY <1>1, <2>1, HandlerEffect, DebitTokenLimited DEF InOrder, Limited, Running
  <2> QED BY <1>1, <2>2, HandlerEffect, StaysInOrder
<1>2. ASSUME NEW a \in Attempt, Outcome(a) PROVE AllInOrder'
  <2>1. InOrder(a)
    BY DEF AllInOrder
  <2>2. PICK js : \E to \in Ended \ {"rejected"} : \E c \in Nat : Start(a, js, to, c)
    BY <1>2, OutcomeStartsEnded
  <2>a. PICK to \in Ended \ {"rejected"}, c \in Nat : Start(a, js, to, c)
    BY <2>2
  <2>3. /\ OthersStay(a) /\ att[a].pc = "calling" /\ att'[a].pc = to /\ att'[a].tok = att[a].tok
        /\ \A j \in Jobs : job'[a][j].pc \in {job[a][j].pc, "load"}
    BY <2>a, StartEffect, StartKeeps DEF Jobs
  <2>4. InOrder(a)'
    BY <2>1, <2>a, <2>3 DEF InOrder, Limited, Running, Ended, Jobs
  <2> QED BY <2>3, <2>4, StaysInOrder
<1>3. ASSUME NEW a \in Attempt, NEW j \in Jobs, JobStep(a, j) PROVE AllInOrder'
  <2>1. InOrder(a)
    BY DEF AllInOrder
  <2>2. OthersStay(a) /\ att' = att /\ \A i \in Jobs \ {j} : job'[a][i] = job[a][i]
    BY <1>3, JobEffect
  <2>3. job[a][j].pc # "none" /\ job'[a][j].pc = "token" => Limited(a)
    BY <1>3, <2>1 DEF JobStep, JobLoad, JobUser, JobToken, JobCacheGet, JobCacheWrite, JobStats,
       JobGoto, AfterUser, AfterPost, TypeOK, JobState
  <2>4. j = "refund" => job'[a][j].pc \in {"user", "token", "done"}
    BY <1>3, <2>1 DEF InOrder, JobStep, JobLoad, JobUser, JobToken, JobCacheGet, JobCacheWrite, JobStats,
       JobGoto, AfterUser, AfterPost, TypeOK, JobState
  <2>5. job[a][j].pc # "none"
    BY <1>3, JobEffect
  <2>6. InOrder(a)'
    BY <2>1, <2>2, <2>3, <2>4, <2>5 DEF InOrder, Limited, Jobs
  <2> QED BY <2>2, <2>6, StaysInOrder
<1>4. ASSUME att' = att, job' = job PROVE AllInOrder'
  BY <1>4 DEF AllInOrder, InOrder, Limited
<1> QED BY <1>1, <1>2, <1>3, <1>4, WorldEffect DEF Next, Handler

LEMMA InOrderAlways == Spec => []AllInOrder
<1> QED BY InOrderInit, InOrderStep, TypeCorrect, PTL DEF Spec

LEMMA PostWorth ==
  ASSUME TypeOK, NEW acc \in Account, NEW d \in Int, Post(acc, d),
         UNCHANGED <<taken, lost, granted>>
  PROVE  \A x \in Account : Worth(x)' = Worth(x) + (IF x = acc THEN d ELSE 0)
<1> SUFFICES ASSUME NEW x \in Account PROVE Worth(x)' = Worth(x) + (IF x = acc THEN d ELSE 0)
  OBVIOUS
<1>1. /\ store[x] \in Int /\ pend[x] \in Int /\ taken[x] \in Int /\ lost[x] \in Int
      /\ granted[x] \in Int /\ store \in [Account -> Int] /\ pend \in [Account -> Int]
  BY DEF TypeOK, Amounts
<1>2. CASE BatchUpdateEnabled
  <2>1. pend'[x] = pend[x] + (IF x = acc THEN d ELSE 0) /\ store' = store
    BY <1>1, <1>2 DEF Post
  <2> QED BY <1>1, <2>1 DEF Worth
<1>3. CASE ~BatchUpdateEnabled
  <2>1. store'[x] = store[x] + (IF x = acc THEN d ELSE 0) /\ pend' = pend
    BY <1>1, <1>3 DEF Post
  <2> QED BY <1>1, <2>1 DEF Worth
<1> QED BY <1>2, <1>3

LEMMA DebitTypes ==
  ASSUME TypeOK, NEW a \in Attempt
  PROVE  /\ BalanceDebit(a) \in Int /\ TokenDebit(a) \in Int /\ UsedCredit(a) \in Int
         /\ \A acc \in Account : Debit(a, acc) \in Int
<1>1. /\ att[a].pre \in Int /\ att[a].cost \in Int
      /\ job[a]["refund"].delta \in Int /\ job[a]["settle"].delta \in Int
  BY DEF TypeOK, AttemptState, JobState, Jobs
<1>2. BalanceDebit(a) \in Int
  BY <1>1 DEF BalanceDebit, HoldDebit, JobDebit
<1>3. TokenDebit(a) \in Int
  BY <1>1 DEF TokenDebit, HoldDebit, JobDebit
<1>4. UsedCredit(a) \in Int
  BY <1>1 DEF UsedCredit
<1> QED BY <1>2, <1>3, <1>4 DEF Debit

LEMMA DebitTypesNext ==
  ASSUME TypeOK', NEW a \in Attempt
  PROVE  /\ BalanceDebit(a)' \in Int /\ TokenDebit(a)' \in Int /\ UsedCredit(a)' \in Int
         /\ \A acc \in Account : Debit(a, acc)' \in Int
<1>1. /\ att'[a].pre \in Int /\ att'[a].cost \in Int
      /\ job'[a]["refund"].delta \in Int /\ job'[a]["settle"].delta \in Int
  BY DEF TypeOK, AttemptState, JobState, Jobs
<1>2. BalanceDebit(a)' \in Int
  BY <1>1 DEF BalanceDebit, HoldDebit, JobDebit
<1>3. TokenDebit(a)' \in Int
  BY <1>1 DEF TokenDebit, HoldDebit, JobDebit
<1>4. UsedCredit(a)' \in Int
  BY <1>1 DEF UsedCredit
<1> QED BY <1>2, <1>3, <1>4 DEF Debit

LEMMA WorthType ==
  ASSUME TypeOK, NEW acc \in Account PROVE Worth(acc) \in Int
BY DEF TypeOK, Amounts, Worth

LEMMA WorthTypeNext ==
  ASSUME TypeOK', NEW acc \in Account PROVE Worth(acc)' \in Int
BY DEF TypeOK, Amounts, Worth

LEMMA DebitStays ==
  ASSUME NEW b \in Attempt, att'[b] = att[b], job'[b] = job[b]
  PROVE  \A acc \in Account : Debit(b, acc)' = Debit(b, acc)
<1>1. BalanceDebit(b)' = BalanceDebit(b) /\ TokenDebit(b)' = TokenDebit(b)
      /\ UsedCredit(b)' = UsedCredit(b)
  BY DEF BalanceDebit, TokenDebit, UsedCredit, HoldDebit, JobDebit
<1>2. Quota(b)' = Quota(b) /\ Remain(b)' = Remain(b) /\ Used(b)' = Used(b)
      /\ Limited(b)' = Limited(b)
  BY DEF Quota, Remain, Used, UserOf, Limited
<1> QED BY <1>1, <1>2 DEF Debit

\* A step of attempt a that adds d to one of its accounts, and takes d less off it.
LEMMA ConservesAt ==
  ASSUME TypeOK, TypeOK', NEW a \in Attempt, OthersStay(a), att'[a].tok = att[a].tok,
         NEW acc \in {Quota(a), Remain(a), Used(a)}, NEW d \in Int,
         \A x \in Account : Worth(x)' = Worth(x) + (IF x = acc THEN d ELSE 0),
         BalanceDebit(a)' = BalanceDebit(a) - (IF acc = Quota(a) THEN d ELSE 0),
         Limited(a) => TokenDebit(a)' = TokenDebit(a) - (IF acc = Remain(a) THEN d ELSE 0),
         acc = Remain(a) => Limited(a),
         UsedCredit(a)' = UsedCredit(a) + (IF acc = Used(a) THEN d ELSE 0)
  PROVE  StepConserves
<1>1. Quota(a)' = Quota(a) /\ Remain(a)' = Remain(a) /\ Used(a)' = Used(a)
      /\ Limited(a)' = Limited(a)
  BY DEF Quota, Remain, Used, UserOf, Limited
<1>2. Quota(a) # Remain(a) /\ Quota(a) # Used(a) /\ Remain(a) # Used(a)
  BY DEF Quota, Remain, Used
<1>3. /\ BalanceDebit(a) \in Int /\ TokenDebit(a) \in Int /\ UsedCredit(a) \in Int
      /\ BalanceDebit(a)' \in Int /\ TokenDebit(a)' \in Int /\ UsedCredit(a)' \in Int
  BY DebitTypes, DebitTypesNext
<1>4. ASSUME NEW x \in Account PROVE Worth(x)' + Debit(a, x)' = Worth(x) + Debit(a, x)
  <2>1. Worth(x) \in Int
    BY WorthType
  <2>2. CASE x = Quota(a)
    <3>1. Debit(a, x) = BalanceDebit(a) /\ Debit(a, x)' = BalanceDebit(a)'
      BY <1>1, <1>2, <2>2 DEF Debit
    <3> QED BY <1>2, <1>3, <2>1, <2>2, <3>1
  <2>3. CASE x = Remain(a)
    <3>1. /\ Debit(a, x) = IF Limited(a) THEN TokenDebit(a) ELSE 0
          /\ Debit(a, x)' = IF Limited(a) THEN TokenDebit(a)' ELSE 0
      BY <1>1, <1>2, <2>3 DEF Debit
    <3> QED BY <1>2, <1>3, <2>1, <2>3, <3>1
  <2>4. CASE x = Used(a)
    <3>1. Debit(a, x) = - UsedCredit(a) /\ Debit(a, x)' = - UsedCredit(a)'
      BY <1>1, <1>2, <2>4 DEF Debit
    <3> QED BY <1>2, <1>3, <2>1, <2>4, <3>1
  <2>5. CASE x \notin {Quota(a), Remain(a), Used(a)}
    <3>1. Debit(a, x) = 0 /\ Debit(a, x)' = 0
      BY <1>1, <2>5 DEF Debit
    <3> QED BY <2>1, <2>5, <3>1
  <2> QED BY <2>2, <2>3, <2>4, <2>5
<1>5. \A b \in Attempt \ {a} : \A x \in Account : Debit(b, x)' = Debit(b, x)
  BY DebitStays DEF OthersStay
<1> QED BY <1>4, <1>5 DEF StepConserves

\* A step of attempt a that posts nothing and takes nothing.
LEMMA ConservesNothing ==
  ASSUME TypeOK, TypeOK', NEW a \in Attempt, OthersStay(a), att'[a].tok = att[a].tok,
         UNCHANGED <<store, pend, taken, lost, granted>>,
         BalanceDebit(a)' = BalanceDebit(a),
         Limited(a) => TokenDebit(a)' = TokenDebit(a),
         UsedCredit(a)' = UsedCredit(a)
  PROVE  StepConserves
<1>1. /\ BalanceDebit(a) \in Int /\ TokenDebit(a) \in Int /\ UsedCredit(a) \in Int
  BY DebitTypes
<1>2. \A x \in Account : Worth(x)' = Worth(x) /\ Worth(x) \in Int
  BY WorthType DEF Worth
<1>3. 0 \in Int /\ Quota(a) \in {Quota(a), Remain(a), Used(a)} /\ Quota(a) # Remain(a) /\ Quota(a) # Used(a)
  BY DEF Quota, Remain, Used
<1>4. /\ \A x \in Account : Worth(x)' = Worth(x) + (IF x = Quota(a) THEN 0 ELSE 0)
      /\ BalanceDebit(a)' = BalanceDebit(a) - (IF Quota(a) = Quota(a) THEN 0 ELSE 0)
      /\ Limited(a) => TokenDebit(a)' = TokenDebit(a) - (IF Quota(a) = Remain(a) THEN 0 ELSE 0)
      /\ UsedCredit(a)' = UsedCredit(a) + (IF Quota(a) = Used(a) THEN 0 ELSE 0)
  BY <1>1, <1>2
<1> QED BY <1>3, <1>4, ConservesAt

LEMMA HandlerConserves ==
  ASSUME TypeOK, TypeOK', AllInOrder, NEW a \in Attempt, Handler(a), ~Outcome(a)
  PROVE  StepConserves
<1>1. /\ OthersStay(a) /\ job' = job /\ att'[a].tok = att[a].tok /\ att'[a].cost = att[a].cost
      /\ att[a].pc \in Running \ {"calling"} /\ att'[a].pc \in Running \cup {"rejected"}
      /\ att[a].pre \in Nat /\ att'[a].pre \in Nat
  BY HandlerEffect DEF TypeOK, AttemptState
<1>2. job[a]["refund"].pc = "none" /\ job[a]["settle"].pc = "none"
  BY <1>1 DEF AllInOrder, InOrder
<1>3. /\ BalanceDebit(a) = 0
      /\ BalanceDebit(a)' = IF att'[a].pc = "calling" THEN att'[a].pre ELSE 0
  BY <1>1, <1>2 DEF BalanceDebit, HoldDebit, JobDebit, PastUser, Held, Running, Ended
<1>4. /\ TokenDebit(a) = IF att[a].pc = "debitUser" THEN att[a].pre ELSE 0
      /\ TokenDebit(a)' = IF att'[a].pc \in {"debitUser", "calling"} THEN att'[a].pre ELSE 0
  BY <1>1, <1>2 DEF TokenDebit, HoldDebit, JobDebit, PastToken, PastUser, Held, Running, Ended
<1>5. UsedCredit(a) = 0 /\ UsedCredit(a)' = 0
  BY <1>1, <1>2 DEF UsedCredit
<1>6. Quota(a) # Remain(a) /\ Quota(a) # Used(a) /\ Remain(a) # Used(a)
      /\ Quota(a) \in Account /\ Remain(a) \in Account /\ - att[a].pre \in Int
  <2>1. - att[a].pre \in Int
    BY <1>1
  <2>2. Quota(a) \in Account /\ Remain(a) \in Account
    BY AccountsOf
  <2> QED BY <2>1, <2>2 DEF Quota, Remain, Used
<1>7. CASE DebitToken(a)
  <2>1. /\ Post(Remain(a), - att[a].pre) /\ UNCHANGED <<taken, lost, granted>>
        /\ att[a].pc = "debitToken" /\ att'[a].pc = "debitUser" /\ att'[a].pre = att[a].pre
    BY <1>7 DEF DebitToken, Goto, TypeOK, AttemptState, batchVars, worldVars
  <2>2. Limited(a)
    BY <2>1 DEF AllInOrder, InOrder
  <2>3. \A x \in Account : Worth(x)' = Worth(x) + (IF x = Remain(a) THEN - att[a].pre ELSE 0)
    BY <2>1, <1>6, PostWorth
  <2>4. /\ BalanceDebit(a)' = BalanceDebit(a) - (IF Remain(a) = Quota(a) THEN - att[a].pre ELSE 0)
        /\ TokenDebit(a)' = TokenDebit(a) - (IF Remain(a) = Remain(a) THEN - att[a].pre ELSE 0)
        /\ UsedCredit(a)' = UsedCredit(a) + (IF Remain(a) = Used(a) THEN - att[a].pre ELSE 0)
    BY <1>1, <1>3, <1>4, <1>5, <1>6, <2>1
  <2> QED BY <1>1, <1>6, <2>2, <2>3, <2>4, ConservesAt
<1>8. CASE DebitUser(a)
  <2>1. /\ Post(Quota(a), - att[a].pre) /\ UNCHANGED <<taken, lost, granted>>
        /\ att[a].pc = "debitUser" /\ att'[a].pc = "calling" /\ att'[a].pre = att[a].pre
    BY <1>8 DEF DebitUser, Goto, TypeOK, AttemptState, batchVars, worldVars
  <2>2. \A x \in Account : Worth(x)' = Worth(x) + (IF x = Quota(a) THEN - att[a].pre ELSE 0)
    BY <2>1, <1>6, PostWorth
  <2>3. /\ BalanceDebit(a)' = BalanceDebit(a) - (IF Quota(a) = Quota(a) THEN - att[a].pre ELSE 0)
        /\ TokenDebit(a)' = TokenDebit(a) - (IF Quota(a) = Remain(a) THEN - att[a].pre ELSE 0)
        /\ UsedCredit(a)' = UsedCredit(a) + (IF Quota(a) = Used(a) THEN - att[a].pre ELSE 0)
    BY <1>1, <1>3, <1>4, <1>5, <1>6, <2>1
  <2> QED BY <1>1, <1>6, <2>2, <2>3, ConservesAt
<1>9. CASE ~DebitToken(a) /\ ~DebitUser(a)
  <2>1. UNCHANGED <<store, pend, taken, lost, granted>>
    BY <1>9 DEF Handler, Begin, ReadQuota, FillCache, GateReject, GatePass, CheckToken,
                CheckUser, batchVars, worldVars
  <2>2. /\ att[a].pc # "debitUser"
        /\ att'[a].pc = "debitUser" => ~Limited(a)
        /\ att'[a].pc = "calling" => att'[a].pre = 0
    <3>1. CASE GatePass(a)
      BY <3>1 DEF GatePass, HoldOf, TypeOK, AttemptState
    <3>2. CASE CheckUser(a)
      BY <3>2 DEF CheckUser, Goto, TypeOK, AttemptState
    <3>3. CASE Begin(a) \/ FillCache(a) \/ GateReject(a)
      BY <3>3 DEF Begin, FillCache, GateReject, Goto, TypeOK, AttemptState
    <3>4. CASE ReadQuota(a)
      BY <3>4 DEF ReadQuota, TypeOK, AttemptState
    <3>5. CASE CheckToken(a)
      BY <3>5 DEF CheckToken, Goto, TypeOK, AttemptState
    <3> QED BY <1>9, <3>1, <3>2, <3>3, <3>4, <3>5 DEF Handler
  <2>3. /\ BalanceDebit(a)' = BalanceDebit(a) /\ UsedCredit(a)' = UsedCredit(a)
        /\ Limited(a) => TokenDebit(a)' = TokenDebit(a)
    BY <1>1, <1>3, <1>4, <1>5, <2>2
  <2> QED BY <1>1, <2>1, <2>3, ConservesNothing
<1> QED BY <1>7, <1>8, <1>9

\* The hold stays until a goroutine returns it or settles it.
LEMMA OutcomeConserves ==
  ASSUME TypeOK, TypeOK', AllInOrder, NEW a \in Attempt, Outcome(a)
  PROVE  StepConserves
<1>1. PICK js : \E to \in Ended \ {"rejected"} : \E c \in Nat : Start(a, js, to, c)
  BY OutcomeStartsEnded
<1>2. PICK to \in Ended \ {"rejected"}, c \in Nat : Start(a, js, to, c)
  BY <1>1
<1>3. /\ OthersStay(a) /\ att[a].pc = "calling" /\ att'[a].pc = to
      /\ att'[a].tok = att[a].tok /\ att'[a].pre = att[a].pre
      /\ \A j \in Jobs : job'[a][j].pc \in {job[a][j].pc, "load"}
      /\ UNCHANGED <<store, pend, taken, lost, granted>>
  BY <1>2, StartEffect, StartKeeps
<1>4. job[a]["refund"].pc = "none" /\ job[a]["settle"].pc = "none"
  BY <1>3 DEF AllInOrder, InOrder, Running
<1>5. job'[a]["refund"].pc \in {"none", "load"} /\ job'[a]["settle"].pc \in {"none", "load"}
  BY <1>3, <1>4 DEF Jobs
<1>6. BalanceDebit(a)' = BalanceDebit(a) /\ TokenDebit(a)' = TokenDebit(a)
      /\ UsedCredit(a)' = UsedCredit(a)
  BY <1>3, <1>4, <1>5 DEF BalanceDebit, TokenDebit, UsedCredit, HoldDebit, JobDebit,
     PastToken, PastUser, Held, Ended
<1> QED BY <1>3, <1>6, ConservesNothing

\* A goroutine takes off an account what it posts to it.
LEMMA JobConserves ==
  ASSUME TypeOK, TypeOK', AllInOrder, NEW a \in Attempt, NEW j \in Jobs, JobStep(a, j)
  PROVE  StepConserves
<1>1. /\ OthersStay(a) /\ att' = att /\ att'[a].tok = att[a].tok
      /\ \A i \in Jobs \ {j} : job'[a][i] = job[a][i]
      /\ job[a][j].delta \in Int /\ job'[a][j].delta \in Int /\ att[a].cost \in Int
      /\ att[a].pre \in Int
  BY JobEffect DEF TypeOK, AttemptState, JobState
<1>2. /\ j = "refund" => job[a][j].pc \in {"none", "load", "user", "token", "done"}
      /\ job[a][j].pc = "token" => Limited(a)
  BY DEF AllInOrder, InOrder
<1>3. Quota(a) # Remain(a) /\ Quota(a) # Used(a) /\ Remain(a) # Used(a)
      /\ Quota(a) \in Account /\ Remain(a) \in Account /\ Used(a) \in Account
      /\ - job[a][j].delta \in Int
  BY <1>1, AccountsOf DEF Quota, Remain, Used
<1> DEFINE other == CHOOSE i \in Jobs : i # j
<1>4. other \in Jobs \ {j} /\ Jobs = {j, other}
  BY DEF Jobs
<1> HIDE DEF other
<1>5. /\ \E n \in Int : /\ BalanceDebit(a) = n + JobDebit(a, j, PastUser)
                        /\ BalanceDebit(a)' = n + JobDebit(a, j, PastUser)'
      /\ \E n \in Int : /\ TokenDebit(a) = n + JobDebit(a, j, PastToken)
                        /\ TokenDebit(a)' = n + JobDebit(a, j, PastToken)'
  <2>1. /\ HoldDebit(a, Held)' = HoldDebit(a, Held) /\ HoldDebit(a, Held) \in Int
        /\ HoldDebit(a, Held \cup {"debitUser"})' = HoldDebit(a, Held \cup {"debitUser"})
        /\ HoldDebit(a, Held \cup {"debitUser"}) \in Int
    BY <1>1 DEF HoldDebit
  <2>2. job[a]["refund"].delta \in Int /\ job[a]["settle"].delta \in Int
        /\ job'[a]["refund"].delta \in Int /\ job'[a]["settle"].delta \in Int
    BY DEF TypeOK, JobState, Jobs
  <2>3. CASE j = "refund"
    <3>1. job'[a]["settle"] = job[a]["settle"]
      BY <1>1, <2>3 DEF Jobs
    <3>2. BalanceDebit(a) = (HoldDebit(a, Held) + JobDebit(a, "settle", PastUser)) + JobDebit(a, j, PastUser)
          /\ BalanceDebit(a)' = (HoldDebit(a, Held) + JobDebit(a, "settle", PastUser)) + JobDebit(a, j, PastUser)'
          /\ HoldDebit(a, Held) + JobDebit(a, "settle", PastUser) \in Int
      BY <2>1, <2>2, <2>3, <3>1 DEF BalanceDebit, JobDebit
    <3>3. TokenDebit(a) = (HoldDebit(a, Held \cup {"debitUser"}) + JobDebit(a, "settle", PastToken)) + JobDebit(a, j, PastToken)
          /\ TokenDebit(a)' = (HoldDebit(a, Held \cup {"debitUser"}) + JobDebit(a, "settle", PastToken)) + JobDebit(a, j, PastToken)'
          /\ HoldDebit(a, Held \cup {"debitUser"}) + JobDebit(a, "settle", PastToken) \in Int
      BY <2>1, <2>2, <2>3, <3>1 DEF TokenDebit, JobDebit
    <3> QED BY <3>2, <3>3
  <2>4. CASE j = "settle"
    <3>1. job'[a]["refund"] = job[a]["refund"]
      BY <1>1, <2>4 DEF Jobs
    <3>2. BalanceDebit(a) = (HoldDebit(a, Held) + JobDebit(a, "refund", PastUser)) + JobDebit(a, j, PastUser)
          /\ BalanceDebit(a)' = (HoldDebit(a, Held) + JobDebit(a, "refund", PastUser)) + JobDebit(a, j, PastUser)'
          /\ HoldDebit(a, Held) + JobDebit(a, "refund", PastUser) \in Int
      BY <2>1, <2>2, <2>4, <3>1 DEF BalanceDebit, JobDebit
    <3>3. TokenDebit(a) = (HoldDebit(a, Held \cup {"debitUser"}) + JobDebit(a, "refund", PastToken)) + JobDebit(a, j, PastToken)
          /\ TokenDebit(a)' = (HoldDebit(a, Held \cup {"debitUser"}) + JobDebit(a, "refund", PastToken)) + JobDebit(a, j, PastToken)'
          /\ HoldDebit(a, Held \cup {"debitUser"}) + JobDebit(a, "refund", PastToken) \in Int
      BY <2>1, <2>2, <2>4, <3>1 DEF TokenDebit, JobDebit
    <3> QED BY <3>2, <3>3
  <2> QED BY <2>3, <2>4 DEF Jobs
<1>6. j = "refund" => UsedCredit(a)' = UsedCredit(a) /\ UsedCredit(a) \in Int
  <2>1. j = "refund" => job'[a]["settle"] = job[a]["settle"]
    BY <1>1 DEF Jobs
  <2> QED BY <1>1, <2>1 DEF UsedCredit
<1>7. UsedCredit(a) \in Int
  BY DebitTypes
<1>8. CASE JobUser(a, j)
  <2>1. /\ Post(Quota(a), - job[a][j].delta) /\ UNCHANGED <<taken, lost, granted>>
        /\ job[a][j].pc = "user" /\ job'[a][j].delta = job[a][j].delta
        /\ job'[a][j].pc = AfterUser(a, j)
    BY <1>8 DEF JobUser, JobGoto, TypeOK, JobState, batchVars, worldVars
  <2>2. \A x \in Account : Worth(x)' = Worth(x) + (IF x = Quota(a) THEN - job[a][j].delta ELSE 0)
    BY <2>1, <1>3, PostWorth
  <2>3. /\ JobDebit(a, j, PastUser) = 0 /\ JobDebit(a, j, PastUser)' = job[a][j].delta
        /\ Limited(a) => JobDebit(a, j, PastToken) = 0 /\ JobDebit(a, j, PastToken)' = 0
    BY <2>1 DEF JobDebit, PastUser, PastToken, AfterUser, AfterPost
  <2>4. j = "settle" => UsedCredit(a)' = UsedCredit(a)
    BY <2>1 DEF UsedCredit, AfterUser, AfterPost
  <2>5. /\ BalanceDebit(a)' = BalanceDebit(a) - (IF Quota(a) = Quota(a) THEN - job[a][j].delta ELSE 0)
        /\ Limited(a) => TokenDebit(a)' = TokenDebit(a) - (IF Quota(a) = Remain(a) THEN - job[a][j].delta ELSE 0)
        /\ UsedCredit(a)' = UsedCredit(a) + (IF Quota(a) = Used(a) THEN - job[a][j].delta ELSE 0)
    BY <1>1, <1>3, <1>5, <1>6, <1>7, <2>3, <2>4 DEF Jobs
  <2> QED BY <1>1, <1>3, <2>2, <2>5, ConservesAt
<1>9. CASE JobToken(a, j)
  <2>1. /\ Post(Remain(a), - job[a][j].delta) /\ UNCHANGED <<taken, lost, granted>>
        /\ job[a][j].pc = "token" /\ job'[a][j].delta = job[a][j].delta
        /\ job'[a][j].pc = AfterPost(j)
    BY <1>9 DEF JobToken, JobGoto, TypeOK, JobState, batchVars, worldVars
  <2>2. \A x \in Account : Worth(x)' = Worth(x) + (IF x = Remain(a) THEN - job[a][j].delta ELSE 0)
    BY <2>1, <1>3, PostWorth
  <2>3. /\ JobDebit(a, j, PastUser)' = JobDebit(a, j, PastUser) /\ JobDebit(a, j, PastUser) \in Int
        /\ JobDebit(a, j, PastToken) = 0 /\ JobDebit(a, j, PastToken)' = job[a][j].delta
    BY <1>1, <2>1 DEF JobDebit, PastUser, PastToken, AfterPost
  <2>4. j = "settle" => UsedCredit(a)' = UsedCredit(a)
    BY <2>1 DEF UsedCredit, AfterPost
  <2>5. /\ BalanceDebit(a)' = BalanceDebit(a) - (IF Remain(a) = Quota(a) THEN - job[a][j].delta ELSE 0)
        /\ TokenDebit(a)' = TokenDebit(a) - (IF Remain(a) = Remain(a) THEN - job[a][j].delta ELSE 0)
        /\ UsedCredit(a)' = UsedCredit(a) + (IF Remain(a) = Used(a) THEN - job[a][j].delta ELSE 0)
    BY <1>1, <1>3, <1>5, <1>6, <1>7, <2>3, <2>4 DEF Jobs
  <2> QED BY <1>1, <1>2, <1>3, <2>1, <2>2, <2>5, ConservesAt
<1>10. CASE JobStats(a, j)
  <2>1. /\ Post(Used(a), att[a].cost) /\ UNCHANGED <<taken, lost, granted>>
        /\ job[a][j].pc = "stats" /\ job'[a][j].delta = job[a][j].delta
        /\ job'[a][j].pc = "done"
    BY <1>10 DEF JobStats, JobGoto, TypeOK, JobState, batchVars, worldVars
  <2>2. \A x \in Account : Worth(x)' = Worth(x) + (IF x = Used(a) THEN att[a].cost ELSE 0)
    BY <2>1, <1>1, <1>3, PostWorth
  <2>3. /\ JobDebit(a, j, PastUser)' = JobDebit(a, j, PastUser) /\ JobDebit(a, j, PastUser) \in Int
        /\ JobDebit(a, j, PastToken)' = JobDebit(a, j, PastToken) /\ JobDebit(a, j, PastToken) \in Int
    BY <1>1, <2>1 DEF JobDebit, PastUser, PastToken
  <2>4. UsedCredit(a) = 0 /\ UsedCredit(a)' = att[a].cost
    BY <1>1, <1>2, <2>1 DEF UsedCredit, Jobs
  <2>5. /\ BalanceDebit(a)' = BalanceDebit(a) - (IF Used(a) = Quota(a) THEN att[a].cost ELSE 0)
        /\ TokenDebit(a)' = TokenDebit(a) - (IF Used(a) = Remain(a) THEN att[a].cost ELSE 0)
        /\ UsedCredit(a)' = UsedCredit(a) + (IF Used(a) = Used(a) THEN att[a].cost ELSE 0)
    BY <1>1, <1>3, <1>5, <2>3, <2>4
  <2> QED BY <1>1, <1>3, <2>2, <2>5, ConservesAt
<1>11. CASE JobLoad(a, j) \/ JobCacheGet(a, j) \/ JobCacheWrite(a, j)
  <2>1. UNCHANGED <<store, pend, taken, lost, granted>>
    BY <1>11 DEF JobLoad, JobCacheGet, JobCacheWrite, batchVars, worldVars
  <2>2. /\ JobDebit(a, j, PastUser)' = JobDebit(a, j, PastUser) /\ JobDebit(a, j, PastUser) \in Int
        /\ JobDebit(a, j, PastToken)' = JobDebit(a, j, PastToken) /\ JobDebit(a, j, PastToken) \in Int
        /\ j = "settle" => job[a][j].pc # "done" /\ job'[a][j].pc # "done"
    <3>1. CASE JobLoad(a, j)
      BY <1>1, <3>1 DEF JobLoad, JobDebit, PastUser, PastToken, AfterPost, TypeOK, JobState
    <3>2. CASE JobCacheGet(a, j)
      BY <1>1, <3>2 DEF JobCacheGet, JobDebit, PastUser, PastToken, TypeOK, JobState
    <3>3. CASE JobCacheWrite(a, j)
      BY <1>1, <3>3 DEF JobCacheWrite, JobGoto, JobDebit, PastUser, PastToken, TypeOK, JobState
    <3> QED BY <1>11, <3>1, <3>2, <3>3
  <2>3. UsedCredit(a)' = UsedCredit(a)
    BY <1>6, <2>2 DEF UsedCredit, Jobs
  <2>4. BalanceDebit(a)' = BalanceDebit(a) /\ TokenDebit(a)' = TokenDebit(a)
    BY <1>5, <2>2
  <2> QED BY <1>1, <2>1, <2>3, <2>4, ConservesNothing
<1> QED BY <1>8, <1>9, <1>10, <1>11 DEF JobStep

LEMMA WorldConserves ==
  ASSUME TypeOK, TypeOK',
         \/ FlushSwap
         \/ \E acc \in Account : FlushEntry(acc)
         \/ \E u \in User : TopUp(u) \/ CacheExpire(u)
         \/ \E t \in Token : DeleteToken(t)
         \/ Crash
         \/ UNCHANGED vars
  PROVE  StepConserves
<1>1. \A b \in Attempt : \A x \in Account : Debit(b, x)' = Debit(b, x)
  BY WorldEffect, DebitStays
<1>2. ASSUME NEW x \in Account PROVE Worth(x)' = Worth(x)
  <2>0. /\ store[x] \in Int /\ pend[x] \in Int /\ taken[x] \in Int /\ lost[x] \in Int
        /\ granted[x] \in Int /\ store \in [Account -> Int] /\ pend \in [Account -> Int]
        /\ taken \in [Account -> Int] /\ granted \in [Account -> Int]
    BY DEF TypeOK, Amounts
  <2>1. CASE FlushSwap
    <3>1. /\ taken[x] = 0 /\ pend'[x] + taken'[x] = pend[x]
          /\ UNCHANGED <<store, lost, granted>> /\ pend'[x] \in Int /\ taken'[x] \in Int
      BY <2>0, <2>1 DEF FlushSwap, Emptied, Zero, worldVars
    <3> QED BY <2>0, <3>1 DEF Worth
  <2>2. ASSUME NEW acc \in Account, FlushEntry(acc) PROVE Worth(x)' = Worth(x)
    <3>1. UNCHANGED <<pend, lost, granted>>
      BY <2>2 DEF FlushEntry, worldVars
    <3>2. CASE x = acc
      <4>1. store'[x] = store[x] + taken[x] /\ taken'[x] = 0
        BY <2>0, <2>2, <3>2 DEF FlushEntry
      <4> QED BY <2>0, <3>1, <4>1 DEF Worth
    <3>3. CASE x # acc
      <4>1. store'[x] = store[x] /\ taken'[x] = taken[x]
        BY <2>0, <2>2, <3>3 DEF FlushEntry
      <4> QED BY <3>1, <4>1 DEF Worth
    <3> QED BY <3>2, <3>3
  <2>3. ASSUME NEW u \in User, TopUp(u) PROVE Worth(x)' = Worth(x)
    <3> DEFINE acc == <<"quota", u>>
    <3>0. acc \in Account
      BY DEF Account
    <3> HIDE DEF acc
    <3>1. PICK n \in Grants : Post(acc, n) /\ granted' = [granted EXCEPT ![acc] = n]
      BY <2>3 DEF TopUp, acc
    <3>2. granted[acc] = 0 /\ UNCHANGED <<taken, lost>> /\ n \in Int
      BY <2>3 DEF TopUp, acc, batchVars
    <3>3. granted'[x] = granted[x] + (IF x = acc THEN n ELSE 0)
      BY <2>0, <3>0, <3>1, <3>2
    <3>4. store'[x] + pend'[x] = store[x] + pend[x] + (IF x = acc THEN n ELSE 0)
          /\ store'[x] \in Int /\ pend'[x] \in Int
      BY <2>0, <3>0, <3>1, <3>2 DEF Post
    <3> QED BY <2>0, <3>2, <3>3, <3>4 DEF Worth
  <2>4. ASSUME (\E u \in User : CacheExpire(u)) \/ (\E t \in Token : DeleteToken(t)) \/ UNCHANGED vars
        PROVE  Worth(x)' = Worth(x)
    BY <2>4 DEF CacheExpire, DeleteToken, vars, batchVars, worldVars, Worth
  <2>5. CASE Crash
    <3>1. /\ lost'[x] = lost[x] + pend[x] + taken[x] /\ pend'[x] = 0 /\ taken'[x] = 0
          /\ UNCHANGED <<store, granted>>
      BY <2>0, <2>5 DEF Crash, Zero
    <3> QED BY <2>0, <3>1 DEF Worth
  <2> QED BY <2>1, <2>2, <2>3, <2>4, <2>5
<1> QED BY <1>1, <1>2 DEF StepConserves

LEMMA EveryStepConserves ==
  ASSUME TypeOK, TypeOK', AllInOrder, [Next]_vars
  PROVE  StepConserves
BY HandlerConserves, OutcomeConserves, JobConserves, WorldConserves DEF Next, Handler

\* Every step changes the accounts by exactly what the attempt that took it has then
\* taken more or less, whatever the interleaving of handlers, goroutines, the batch
\* updater, top-ups and crashes.
THEOREM QuotaConserved == Spec => Conserved
<1>1. TypeOK /\ TypeOK' /\ AllInOrder /\ [Next]_vars => [StepConserves]_vars
  BY EveryStepConserves
<1> QED BY <1>1, TypeCorrect, InOrderAlways, PTL DEF Spec, Conserved
-----------------------------------------------------------------------------
(***************************************************************************)
(* What was spent is what is reported, and the tokens mirror the user.     *)
(*                                                                         *)
(* As no step makes or loses quota, what an account is worth and what the  *)
(* attempts have taken off it add up to its opening balance at all times;  *)
(* when nothing is in flight its worth is the balance in the database.     *)
(* What an attempt has then taken follows from the goroutines it started:  *)
(* one that settles by the cost, or one that returns the hold, each with   *)
(* its delta as long as the token is there.                                *)
(***************************************************************************)
Debits(acc) == [a \in Attempt |-> Debit(a, acc)]

Balanced == \A acc \in Account : Worth(acc) + Total(Debits(acc), Attempt) = Opening[acc]

Returned(a) == job[a]["settle"].pc = "none" /\ (job[a]["refund"].pc = "none" => att[a].pre = 0)
Charged(a) == job[a]["refund"].pc = "none" /\ job[a]["settle"].pc # "none"

Settles(a) ==
  /\ att[a].pc = "failed" => Returned(a)
  /\ att[a].pc = "aborted" /\ att[a].kind # "text" => Returned(a)
  /\ att[a].pc \in {"ok", "chargedError"} => Charged(a)
  /\ att[a].tok \in exists =>
       /\ job[a]["refund"].pc # "none" => job[a]["refund"].delta = - att[a].pre
       /\ job[a]["settle"].pc # "none" => job[a]["settle"].delta = att[a].cost - att[a].pre

\* A crash destroys pending amounts only when it ends an attempt, and an attempt that
\* a crash has ended does not start again.
LossIsSeen == (\A a \in killed : att[a].pc # "idle") /\ (killed = {} => lost = Zero)

AllSettle == LossIsSeen /\ \A a \in Attempt : Settles(a)

LEMMA BalancedInit ==
  ASSUME IsFiniteSet(Attempt), Init, TypeOK
  PROVE  Balanced
<1> SUFFICES ASSUME NEW acc \in Account
             PROVE  Worth(acc) + Total(Debits(acc), Attempt) = Opening[acc]
  BY DEF Balanced
<1>1. Worth(acc) = Opening[acc]
  BY DEF Init, Worth, Zero
<1>2. ASSUME NEW a \in Attempt PROVE Debits(acc)[a] = 0
  <2>1. att[a].pc = "idle" /\ job[a]["refund"].pc = "none" /\ job[a]["settle"].pc = "none"
    BY DEF Init, NoJobs, Jobs
  <2>2. BalanceDebit(a) = 0 /\ TokenDebit(a) = 0 /\ UsedCredit(a) = 0
    BY <2>1 DEF BalanceDebit, TokenDebit, UsedCredit, HoldDebit, JobDebit, PastToken,
       PastUser, Held, Ended
  <2>3. Quota(a) # Remain(a) /\ Quota(a) # Used(a) /\ Remain(a) # Used(a)
    BY DEF Quota, Remain, Used
  <2>4. Debit(a, acc) \in {BalanceDebit(a), TokenDebit(a), - UsedCredit(a), 0}
    <3>1. CASE acc = Quota(a)
      BY <2>3, <3>1 DEF Debit
    <3>2. CASE acc = Remain(a)
      BY <2>3, <3>2 DEF Debit
    <3>3. CASE acc = Used(a)
      BY <2>3, <3>3 DEF Debit
    <3>4. CASE acc \notin {Quota(a), Remain(a), Used(a)}
      BY <3>4 DEF Debit
    <3> QED BY <3>1, <3>2, <3>3, <3>4
  <2>5. - UsedCredit(a) = 0
    <3>1. - UsedCredit(a) = 0 - UsedCredit(a)
      BY DebitTypes
    <3>2. 0 - UsedCredit(a) = 0
      BY <2>2
    <3> QED BY <3>1, <3>2, Zenon
  <2> QED BY <2>2, <2>4, <2>5 DEF Debits
<1>3. Total(Debits(acc), Attempt) = 0
  BY <1>2, TotalZero
<1> QED BY <1>1, <1>3

LEMMA BalancedStep ==
  ASSUME IsFiniteSet(Attempt), TypeOK, TypeOK', StepConserves, Balanced
  PROVE  Balanced'
<1> SUFFICES ASSUME NEW acc \in Account
             PROVE  Worth(acc)' + Total(Debits(acc)', Attempt) = Opening[acc]
  BY DEF Balanced
<1>1. /\ Worth(acc) \in Int /\ \A a \in Attempt : Debits(acc)[a] \in Int
      /\ Worth(acc) + Total(Debits(acc), Attempt) = Opening[acc]
  BY WorthType, DebitTypes DEF Balanced, Debits
<1>2. \A a \in Attempt : Debits(acc)[a] = Debit(a, acc) /\ Debits(acc)'[a] = Debit(a, acc)'
  BY DEF Debits
<1> DEFINE f == Debits(acc)
           h == Debits(acc)'
<1>3. CASE Worth(acc)' = Worth(acc) /\ \A a \in Attempt : Debit(a, acc)' = Debit(a, acc)
  <2>1. \A a \in Attempt : f[a] \in Int /\ h[a] = f[a]
    BY <1>1, <1>2, <1>3
  <2> HIDE DEF f, h
  <2>2. Total(h, Attempt) = Total(f, Attempt)
    BY <2>1, TotalSame
  <2> QED BY <1>1, <1>3, <2>2 DEF f, h
<1>4. ASSUME NEW a \in Attempt,
             Worth(acc)' + Debit(a, acc)' = Worth(acc) + Debit(a, acc),
             \A b \in Attempt \ {a} : Debit(b, acc)' = Debit(b, acc)
      PROVE  Worth(acc)' + Total(Debits(acc)', Attempt) = Opening[acc]
  <2>0. Worth(acc)' \in Int /\ Debit(a, acc)' \in Int
    BY WorthTypeNext, DebitTypesNext
  <2>1. \A b \in Attempt : f[b] \in Int /\ h[b] \in Int
    BY <1>1, <1>2, <1>4, <2>0
  <2>2. \A b \in Attempt \ {a} : h[b] = f[b]
    BY <1>2, <1>4
  <2>3. Worth(acc)' + h[a] = Worth(acc) + f[a]
    BY <1>2, <1>4
  <2> HIDE DEF f, h
  <2>4. Total(h, Attempt) = Total(f, Attempt) - f[a] + h[a]
    BY <2>1, <2>2, TotalChange
  <2>5. Total(f, Attempt) \in Int
    BY <2>1, TotalInt
  <2> QED BY <1>1, <2>0, <2>1, <2>3, <2>4, <2>5 DEF f, h
<1> QED BY <1>3, <1>4 DEF StepConserves

LEMMA BalancedAlways ==
  ASSUME IsFiniteSet(Attempt)
  PROVE  Spec => []Balanced
<1>1. TypeOK /\ Init => Balanced
  BY BalancedInit
<1>2. TypeOK /\ TypeOK' /\ AllInOrder /\ Balanced /\ [Next]_vars => Balanced'
  BY EveryStepConserves, BalancedStep
<1> QED BY <1>1, <1>2, TypeCorrect, InOrderAlways, PTL DEF Spec

LEMMA SettlesInit == ASSUME Init PROVE AllSettle
BY DEF Init, AllSettle, LossIsSeen, Settles, NoJobs, Jobs

LEMMA SettlesStays ==
  ASSUME NEW b \in Attempt, Settles(b), att'[b] = att[b], job'[b] = job[b], exists' \subseteq exists
  PROVE  Settles(b)'
BY DEF Settles, Returned, Charged

LEMMA OthersSettle ==
  ASSUME TypeOK, AllSettle, NEW a \in Attempt, OthersStay(a), Settles(a)', exists' \subseteq exists,
         killed' = killed, lost' = lost, att'[a].pc # "idle"
  PROVE  AllSettle'
<1>1. \A b \in Attempt \ {a} : Settles(b)'
  BY SettlesStays DEF AllSettle, OthersStay
<1>2. LossIsSeen'
  BY DEF AllSettle, LossIsSeen, OthersStay, TypeOK
<1> QED BY <1>1, <1>2 DEF AllSettle

\* Which goroutines an exit starts.
LEMMA OutcomeStartsDue ==
  ASSUME TypeOK, NEW a \in Attempt, Outcome(a)
  PROVE  \E js : \E to \in Ended \ {"rejected"} : \E c \in Nat :
           /\ Start(a, js, to, c)
           /\ to = "failed" \/ (to = "aborted" /\ att[a].kind # "text") => js = Refund(a)
           /\ to \in {"ok", "chargedError"} => js = {"settle"}
<1>1. CostsOf(a) \subseteq Nat
  BY AccountsOf DEF CostsOf, AttemptState
<1>2. CASE Abort(a)
  BY <1>2 DEF Abort, RefundOnAbort, Ended
<1>3. CASE UpstreamError(a)
  BY <1>3 DEF UpstreamError, Ended
<1>4. CASE Succeed(a)
  BY <1>4, <1>1 DEF Succeed, Ended
<1>5. CASE NoUsage(a)
  BY <1>5 DEF NoUsage, Ended
<1>6. CASE NotChat(a)
  BY <1>6 DEF NotChat, Ended
<1>7. CASE ChargedError(a)
  BY <1>7, <1>1 DEF ChargedError, Ended
<1> QED BY <1>2, <1>3, <1>4, <1>5, <1>6, <1>7 DEF Outcome

LEMMA SettlesStep ==
  ASSUME TypeOK, TypeOK', AllInOrder, AllInOrder', AllSettle, [Next]_vars
  PROVE  AllSettle'
<1>1. ASSUME NEW a \in Attempt, Handler(a), ~Outcome(a) PROVE AllSettle'
  <2>1. /\ OthersStay(a) /\ att[a].pc \in Running \ {"calling"}
        /\ att'[a].pc \in Running \cup {"rejected"}
    BY <1>1, HandlerEffect
  <2>2. UNCHANGED <<exists, killed, lost>>
    BY <1>1 DEF Handler, Begin, ReadQuota, FillCache, GateReject, GatePass, CheckToken,
                CheckUser, DebitToken, DebitUser, batchVars, worldVars
  <2>3. job'[a]["refund"].pc = "none" /\ job'[a]["settle"].pc = "none"
    BY <2>1 DEF AllInOrder, InOrder
  <2>4. Settles(a)'
    BY <2>1, <2>3 DEF Settles, Running
  <2>5. att'[a].pc # "idle"
    BY <1>1 DEF Handler, Begin, ReadQuota, FillCache, GateReject, GatePass, CheckToken,
                CheckUser, DebitToken, DebitUser, Goto, TypeOK, AttemptState
  <2> QED BY <2>1, <2>2, <2>4, <2>5, OthersSettle
<1>2. ASSUME NEW a \in Attempt, Outcome(a) PROVE AllSettle'
  <2>1. PICK js : \E to \in Ended \ {"rejected"} : \E c \in Nat :
           /\ Start(a, js, to, c)
           /\ to = "failed" \/ (to = "aborted" /\ att[a].kind # "text") => js = Refund(a)
           /\ to \in {"ok", "chargedError"} => js = {"settle"}
    BY <1>2, OutcomeStartsDue
  <2>2. PICK to \in Ended \ {"rejected"}, c \in Nat :
           /\ Start(a, js, to, c)
           /\ to = "failed" \/ (to = "aborted" /\ att[a].kind # "text") => js = Refund(a)
           /\ to \in {"ok", "chargedError"} => js = {"settle"}
    BY <2>1
  <2>3. /\ OthersStay(a) /\ att[a].pc = "calling" /\ att'[a].pc = to /\ att'[a].cost = c
        /\ att'[a].pre = att[a].pre /\ att'[a].kind = att[a].kind /\ att'[a].tok = att[a].tok
        /\ \A j \in Jobs : j \notin js => job'[a][j] = job[a][j]
        /\ "refund" \in js => job'[a]["refund"].pc = "load" /\ job'[a]["refund"].delta = - att[a].pre
        /\ "settle" \in js => job'[a]["settle"].pc = "load" /\ job'[a]["settle"].delta = c - att[a].pre
    BY <2>2, StartEffect, StartKeeps
  <2>4. UNCHANGED <<exists, killed, lost>>
    BY <2>2 DEF Start, batchVars, worldVars
  <2>5. job[a]["refund"].pc = "none" /\ job[a]["settle"].pc = "none"
    BY <2>3 DEF AllInOrder, InOrder, Running
  <2>6. js = Refund(a) => Returned(a)'
    BY <2>3, <2>5 DEF Refund, Returned, Jobs
  <2>7. js = {"settle"} => Charged(a)'
    BY <2>3, <2>5 DEF Charged, Jobs
  <2>8. /\ job'[a]["refund"].pc # "none" => job'[a]["refund"].delta = - att'[a].pre
        /\ job'[a]["settle"].pc # "none" => job'[a]["settle"].delta = att'[a].cost - att'[a].pre
    BY <2>3, <2>5 DEF Jobs
  <2>9. Settles(a)'
    BY <2>2, <2>3, <2>6, <2>7, <2>8 DEF Settles
  <2> QED BY <2>2, <2>3, <2>4, <2>9, OthersSettle DEF Ended
<1>3. ASSUME NEW a \in Attempt, NEW j \in Jobs, JobStep(a, j) PROVE AllSettle'
  <2>1. /\ OthersStay(a) /\ att' = att /\ \A i \in Jobs \ {j} : job'[a][i] = job[a][i]
        /\ job[a][j].pc # "none" /\ job'[a][j].pc # "none"
    BY <1>3, JobEffect
  <2>2. UNCHANGED <<exists, killed, lost>>
    BY <1>3 DEF JobStep, JobLoad, JobUser, JobToken, JobCacheGet, JobCacheWrite, JobStats,
                batchVars, worldVars
  <2>3. Settles(a) /\ InOrder(a)
    BY DEF AllSettle, AllInOrder
  <2>4. att[a].tok \in exists => job'[a][j].delta = job[a][j].delta
    <3>1. CASE JobLoad(a, j)
      BY <3>1 DEF JobLoad, TypeOK, JobState
    <3>2. ASSUME NEW from, NEW to, JobGoto(a, j, from, to) PROVE job'[a][j].delta = job[a][j].delta
      BY <3>2 DEF JobGoto, TypeOK, JobState
    <3>3. CASE JobCacheGet(a, j)
      BY <3>3 DEF JobCacheGet, TypeOK, JobState
    <3> QED BY <1>3, <3>1, <3>2, <3>3 DEF JobStep, JobUser, JobToken, JobCacheWrite, JobStats
  <2>5. Settles(a)'
    BY <2>1, <2>2, <2>3, <2>4 DEF Settles, Returned, Charged, Jobs
  <2>6. att[a].pc # "idle"
    BY <2>1, <2>3 DEF InOrder, Running, Jobs
  <2> QED BY <2>1, <2>2, <2>5, <2>6, OthersSettle
<1>4. ASSUME \/ FlushSwap
             \/ \E acc \in Account : FlushEntry(acc)
             \/ \E u \in User : TopUp(u) \/ CacheExpire(u)
             \/ \E t \in Token : DeleteToken(t)
             \/ UNCHANGED vars
      PROVE  AllSettle'
  <2>1. att' = att /\ job' = job /\ exists' \subseteq exists /\ killed' = killed /\ lost' = lost
    BY <1>4 DEF FlushSwap, FlushEntry, TopUp, CacheExpire, DeleteToken, vars, batchVars, worldVars
  <2>2. \A b \in Attempt : Settles(b)'
    BY <2>1, SettlesStays DEF AllSettle
  <2> QED BY <2>1, <2>2 DEF AllSettle, LossIsSeen
<1>5. ASSUME Crash PROVE AllSettle'
  <2>1. att' = att /\ job' = job /\ exists' \subseteq exists
    BY <1>5 DEF Crash
  <2>2. \A b \in Attempt : Settles(b)'
    BY <2>1, SettlesStays DEF AllSettle
  <2>3. killed \subseteq killed' /\ killed' # killed /\ killed' = {a \in Attempt : att[a].pc # "idle"}
    BY <1>5 DEF Crash, AllSettle, LossIsSeen, TypeOK
  <2> QED BY <2>1, <2>2, <2>3 DEF AllSettle, LossIsSeen
<1> QED BY <1>1, <1>2, <1>3, <1>4, <1>5 DEF Next, Handler

LEMMA SettlesAlways == Spec => []AllSettle
<1>1. Init => AllSettle
  BY SettlesInit
<1>2. TypeOK /\ TypeOK' /\ AllInOrder /\ AllInOrder' /\ AllSettle /\ [Next]_vars => AllSettle'
  BY SettlesStep
<1> QED BY <1>1, <1>2, TypeCorrect, InOrderAlways, PTL DEF Spec

\* In the database, and nowhere else, once nothing is in flight.
LEMMA GrownWhenQuiet ==
  ASSUME IsFiniteSet(Attempt), TypeOK, Balanced, AllSettle, Quiet, NEW acc \in Account
  PROVE  Grown(acc) = 0 - Total(Debits(acc), Attempt)
<1>1. pend[acc] = 0 /\ taken[acc] = 0 /\ lost[acc] = 0
  BY DEF Quiet, AllSettle, LossIsSeen, Zero
<1>2. store[acc] \in Int /\ granted[acc] \in Int /\ Opening[acc] \in Int
  BY DEF TypeOK, Amounts
<1>3. Total(Debits(acc), Attempt) \in Int
  <2>1. \A a \in Attempt : Debits(acc)[a] \in Int
    BY DebitTypes DEF Debits
  <2> QED BY <2>1, TotalInt
<1>4. Worth(acc) + Total(Debits(acc), Attempt) = Opening[acc]
  BY DEF Balanced
<1> QED BY <1>1, <1>2, <1>3, <1>4 DEF Worth, Grown

\* A settled call has taken off the balance what it reports.
LEMMA SettledCall ==
  ASSUME TypeOK, AllInOrder, AllSettle, NEW a \in Attempt, AtRest(a), SettlingExit(a)
  PROVE  BalanceDebit(a) = UsedCredit(a)
<1>1. /\ att[a].pre \in Nat /\ att[a].cost \in Nat /\ att[a].pc \in Ended \cup {"idle"}
      /\ job[a]["refund"].pc \in {"none", "done"} /\ job[a]["settle"].pc \in {"none", "done"}
      /\ att[a].tok \in exists /\ Settles(a) /\ InOrder(a)
  BY DEF TypeOK, AttemptState, AtRest, Jobs, SettlingExit, AllSettle, AllInOrder
<1>2. /\ HoldDebit(a, Held) = IF att[a].pc \in {"idle", "rejected"} THEN 0 ELSE att[a].pre
      /\ JobDebit(a, "refund", PastUser) =
           IF job[a]["refund"].pc = "none" THEN 0 ELSE 0 - att[a].pre
      /\ JobDebit(a, "settle", PastUser) =
           IF job[a]["settle"].pc = "none" THEN 0 ELSE att[a].cost - att[a].pre
      /\ UsedCredit(a) = IF job[a]["settle"].pc = "none" THEN 0 ELSE att[a].cost
  <2>1. HoldDebit(a, Held) = IF att[a].pc \in {"idle", "rejected"} THEN 0 ELSE att[a].pre
    BY <1>1 DEF HoldDebit, Held, Ended
  <2>2. - att[a].pre = 0 - att[a].pre
    BY <1>1
  <2>3. job[a]["refund"].pc # "none" => job[a]["refund"].delta = 0 - att[a].pre
    BY <1>1, <2>2 DEF Settles
  <2>4. job[a]["settle"].pc # "none" => job[a]["settle"].delta = att[a].cost - att[a].pre
    BY <1>1 DEF Settles
  <2> QED BY <1>1, <2>1, <2>3, <2>4 DEF JobDebit, PastUser, UsedCredit
<1>3. CASE att[a].pc \in {"idle", "rejected"}
  BY <1>1, <1>2, <1>3 DEF InOrder, BalanceDebit, Running
<1>4. CASE Returned(a) /\ att[a].pc \notin {"idle", "rejected"}
  BY <1>1, <1>2, <1>4 DEF Returned, BalanceDebit
<1>5. CASE Charged(a) /\ att[a].pc \notin {"idle", "rejected"}
  BY <1>1, <1>2, <1>5 DEF Charged, BalanceDebit
<1> QED BY <1>1, <1>3, <1>4, <1>5 DEF Settles, SettlingExit, Ended

LEMMA SpentReported ==
  ASSUME IsFiniteSet(Attempt), TypeOK, AllInOrder, Balanced, AllSettle
  PROVE  SpentIsUsed
<1> SUFFICES ASSUME Quiet, NEW u \in User, \A a \in Attempt : UserOf(a) = u => SettlingExit(a)
             PROVE  Grown(<<"quota", u>>) + Grown(<<"used", u>>) = 0
  BY DEF SpentIsUsed
<1> DEFINE q == <<"quota", u>>
           s == <<"used", u>>
           z == [a \in Attempt |-> 0]
<1>1. q \in Account /\ s \in Account
  BY DEF Account
<1>2. ASSUME NEW a \in Attempt
      PROVE  /\ Debits(q)[a] \in Int /\ Debits(s)[a] \in Int
             /\ 0 = Debits(q)[a] + Debits(s)[a]
  <2>1. Debits(q)[a] = Debit(a, q) /\ Debits(s)[a] = Debit(a, s)
    BY DEF Debits
  <2>2. BalanceDebit(a) \in Int /\ UsedCredit(a) \in Int /\ Debit(a, q) \in Int /\ Debit(a, s) \in Int
    BY <1>1, DebitTypes
  <2>3. q # s /\ q # Remain(a) /\ s # Remain(a) /\ q # Used(a) /\ s # Quota(a)
    BY DEF Remain, Used, Quota
  <2>4. CASE UserOf(a) = u
    <3>1. q = Quota(a) /\ s = Used(a)
      BY <2>4 DEF Quota, Used
    <3>2. Debit(a, q) = BalanceDebit(a) /\ Debit(a, s) = - UsedCredit(a)
      BY <2>3, <3>1 DEF Debit
    <3>3. BalanceDebit(a) = UsedCredit(a)
      BY <2>4, SettledCall DEF Quiet
    <3> QED BY <2>1, <2>2, <3>2, <3>3
  <2>5. CASE UserOf(a) # u
    <3>1. q # Quota(a) /\ s # Used(a)
      BY <2>5 DEF Quota, Used
    <3>2. Debit(a, q) = 0 /\ Debit(a, s) = 0
      BY <2>3, <3>1 DEF Debit
    <3> QED BY <2>1, <3>2
  <2> QED BY <2>4, <2>5
<1>3. \A a \in Attempt : /\ Debits(q)[a] \in Int /\ Debits(s)[a] \in Int
                         /\ z[a] = Debits(q)[a] + Debits(s)[a]
  BY <1>2
<1>4. Total(z, Attempt) = 0
  BY TotalZero
<1> HIDE DEF q, s, z
<1>5. Total(z, Attempt) = Total(Debits(q), Attempt) + Total(Debits(s), Attempt)
  BY <1>3, TotalPlus
<1>6. Total(Debits(q), Attempt) \in Int /\ Total(Debits(s), Attempt) \in Int
  BY <1>3, TotalInt
<1>7. /\ Grown(q) = 0 - Total(Debits(q), Attempt)
      /\ Grown(s) = 0 - Total(Debits(s), Attempt)
  BY <1>1, GrownWhenQuiet
<1>8. Grown(q) + Grown(s) = 0
  BY <1>4, <1>5, <1>6, <1>7
<1> QED BY <1>8 DEF q, s

\* Once nothing is in flight, what the balance of a user has gone down by is what is
\* reported as used, for any finite number of calls of any mix of exits that settle.
THEOREM SpentReportedAlways ==
  ASSUME IsFiniteSet(Attempt)
  PROVE  Spec => []SpentIsUsed
<1>1. TypeOK /\ AllInOrder /\ Balanced /\ AllSettle => SpentIsUsed
  BY SpentReported
<1> QED BY <1>1, TypeCorrect, InOrderAlways, BalancedAlways, SettlesAlways, PTL

\* At rest a call has taken off a limited token what it has taken off the balance.
LEMMA MirroredCall ==
  ASSUME NEW a \in Attempt, AtRest(a)
  PROVE  TokenDebit(a) = BalanceDebit(a)
BY DEF AtRest, Jobs, TokenDebit, BalanceDebit, HoldDebit, JobDebit, PastToken, PastUser,
       Held, Ended

\* The sum of the library over the tokens of a user.
LEMMA RemainSum ==
  ASSUME NEW mine \in SUBSET Token, IsFiniteSet(mine), TypeOK
  PROVE  MapThenSumSet(LAMBDA t : Grown(<<"remain", t>>), mine)
           = Total([t \in mine |-> Grown(<<"remain", t>>)], mine)
<1> DEFINE f == [t \in mine |-> Grown(<<"remain", t>>)]
           P(h) == h = [s \in SUBSET mine |->
                          IF s = {} THEN 0 ELSE Grown(<<"remain", One(s)>>) + h[s \ {One(s)}]]
<1>1. MapThenSumSet(LAMBDA t : Grown(<<"remain", t>>), mine) = (CHOOSE h : P(h))[mine]
  BY DEF MapThenSumSet, MapThenFoldSet, One
<1>2. \A t \in mine : f[t] \in Int
  BY DEF TypeOK, Amounts, Grown, Account
<1>3. ASSUME NEW h PROVE P(h) <=> Folds(h, f, mine)
  <2>1. \A s \in SUBSET mine : s # {} => One(s) \in mine
    BY DEF One
  <2>2. \A s \in SUBSET mine : s # {} => f[One(s)] = Grown(<<"remain", One(s)>>)
    BY <2>1
  <2>3. [s \in SUBSET mine |-> IF s = {} THEN 0 ELSE Grown(<<"remain", One(s)>>) + h[s \ {One(s)}]]
          = [s \in SUBSET mine |-> IF s = {} THEN 0 ELSE f[One(s)] + h[s \ {One(s)}]]
    <3> HIDE DEF f
    <3> QED BY <2>2
  <2> HIDE DEF f
  <2> QED BY <2>3 DEF Folds
<1> HIDE DEF f, P
<1>4. \E h : P(h)
  BY <1>2, <1>3, FoldExists
<1> DEFINE c == CHOOSE h : P(h)
<1>5. Folds(c, f, mine)
  BY <1>3, <1>4
<1> HIDE DEF c
<1>6. c[mine] = Total(f, mine)
  BY <1>2, <1>5, FoldIsTotal
<1> QED BY <1>1, <1>6 DEF c, f

LEMMA TokensMirror ==
  ASSUME IsFiniteSet(Attempt), IsFiniteSet(Token), TypeOK, Balanced, AllSettle
  PROVE  TokenMirrorsUser
<1> SUFFICES ASSUME Quiet, NEW u \in User,
                    {t \in Token : Owner[t] = u} \cap Unlimited = {}
             PROVE  Grown(<<"quota", u>>)
                      = MapThenSumSet(LAMBDA t : Grown(<<"remain", t>>), {t \in Token : Owner[t] = u})
  BY DEF TokenMirrorsUser
<1> DEFINE mine == {t \in Token : Owner[t] = u}
           q == <<"quota", u>>
           r(t) == <<"remain", t>>
           F == [t \in mine |-> Debits(r(t))]
           f == [t \in mine |-> Grown(r(t))]
           rows == [t \in mine |-> Total(F[t], Attempt)]
           cols == [a \in Attempt |-> Total([t \in mine |-> F[t][a]], mine)]
<1>1. mine \in SUBSET Token /\ IsFiniteSet(mine) /\ mine \cap Unlimited = {}
      /\ q \in Account /\ \A t \in mine : r(t) \in Account
  BY FS_Subset DEF Account
<1>2. F \in [mine -> [Attempt -> Int]] /\ \A t \in mine : \A a \in Attempt : F[t][a] = Debit(a, r(t))
  <2>1. \A t \in mine : Debits(r(t)) \in [Attempt -> Int]
    BY <1>1, DebitTypes DEF Debits
  <2> QED BY <2>1 DEF Debits
\* Each call has taken off the tokens of the user what it has taken off the balance.
<1>3. ASSUME NEW a \in Attempt PROVE cols[a] = Debits(q)[a] /\ cols[a] \in Int
  <2> DEFINE col == [t \in mine |-> F[t][a]]
  <2>1. \A t \in mine : col[t] = Debit(a, r(t)) /\ col[t] \in Int
    BY <1>2
  <2>2. /\ Debits(q)[a] = Debit(a, q) /\ BalanceDebit(a) \in Int /\ TokenDebit(a) = BalanceDebit(a)
        /\ UserOf(a) \in User
    BY DebitTypes, MirroredCall, AccountsOf DEF Debits, Quiet
  <2>3. \A t \in mine : Debit(a, r(t)) = IF t = att[a].tok THEN TokenDebit(a) ELSE 0
    <3> SUFFICES ASSUME NEW t \in mine
                 PROVE  Debit(a, r(t)) = IF t = att[a].tok THEN TokenDebit(a) ELSE 0
      OBVIOUS
    <3>1. r(t) # Quota(a) /\ r(t) # Used(a) /\ (r(t) = Remain(a) <=> t = att[a].tok)
      BY DEF Quota, Used, Remain
    <3>2. CASE t = att[a].tok
      <4>1. Limited(a)
        BY <1>1, <3>2 DEF Limited
      <4> QED BY <3>1, <3>2, <4>1 DEF Debit
    <3>3. CASE t # att[a].tok
      BY <3>1, <3>3 DEF Debit
    <3> QED BY <3>2, <3>3
  <2>4. CASE UserOf(a) = u
    <3>1. att[a].tok \in mine
      BY <2>4, AccountsOf DEF UserOf, AttemptState
    <3>2. Debit(a, q) = BalanceDebit(a)
      <4>1. q = Quota(a) /\ q # Remain(a) /\ q # Used(a)
        BY <2>4 DEF Quota, Remain, Used
      <4> QED BY <4>1 DEF Debit
    <3>3. col[att[a].tok] = BalanceDebit(a) /\ \A t \in mine \ {att[a].tok} : col[t] = 0
      BY <2>1, <2>2, <2>3, <3>1
    <3> HIDE DEF col, mine
    <3>4. Total(col, mine) = BalanceDebit(a)
      BY <1>1, <2>2, <3>1, <3>3, TotalOne
    <3> QED BY <2>2, <3>2, <3>4 DEF col
  <2>5. CASE UserOf(a) # u
    <3>1. att[a].tok \notin mine
      BY <2>5 DEF UserOf
    <3>2. Debit(a, q) = 0
      <4>1. q # Quota(a) /\ q # Remain(a) /\ q # Used(a)
        BY <2>5 DEF Quota, Remain, Used
      <4> QED BY <4>1 DEF Debit
    <3>3. \A t \in mine : col[t] = 0
      BY <2>1, <2>3, <3>1
    <3> HIDE DEF col
    <3>4. Total(col, mine) = 0
      BY <1>1, <3>3, TotalZero
    <3> QED BY <2>2, <3>2, <3>4 DEF col
  <2> QED BY <2>4, <2>5
<1>4. Total(cols, Attempt) = Total(Debits(q), Attempt)
  <2>1. \A a \in Attempt : Debits(q)[a] \in Int /\ cols[a] = Debits(q)[a]
    BY <1>3
  <2> HIDE DEF cols
  <2> QED BY <2>1, TotalSame
<1>5. Total(rows, mine) = Total(cols, Attempt)
  <2> HIDE DEF F, mine
  <2> QED BY <1>1, <1>2, TotalSwap
<1>6. \A t \in mine : rows[t] \in Int /\ f[t] = 0 - rows[t]
  <2>1. \A t \in mine : f[t] = 0 - Total(Debits(r(t)), Attempt)
    BY <1>1, GrownWhenQuiet
  <2>2. \A t \in mine : rows[t] \in Int
    <3>1. \A t \in mine : Total(F[t], Attempt) \in Int
      BY <1>2, TotalInt
    <3> QED BY <3>1
  <2> QED BY <2>1, <2>2
<1>7. Total(f, mine) = 0 - Total(rows, mine)
  <2> HIDE DEF rows, f, mine
  <2> QED BY <1>1, <1>6, TotalNegated
<1>8. Grown(q) = 0 - Total(Debits(q), Attempt)
  BY <1>1, GrownWhenQuiet
<1>9. MapThenSumSet(LAMBDA t : Grown(<<"remain", t>>), mine) = Total(f, mine)
  BY <1>1, RemainSum
<1> QED BY <1>4, <1>5, <1>7, <1>8, <1>9

\* Once nothing is in flight, a user whose tokens are all limited has paid with them what
\* was paid from the balance, on every exit, the leaking ones included.
THEOREM TokensMirrorAlways ==
  ASSUME IsFiniteSet(Attempt), IsFiniteSet(Token)
  PROVE  Spec => []TokenMirrorsUser
<1>1. TypeOK /\ Balanced /\ AllSettle => TokenMirrorsUser
  BY TokensMirror
<1> QED BY <1>1, TypeCorrect, BalancedAlways, SettlesAlways, PTL
=============================================================================
