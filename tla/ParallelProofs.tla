--------------------------- MODULE ParallelProofs ---------------------------
(***************************************************************************)
(* Proofs about partition_by_u64 and run_in_parallel, for any lists, any   *)
(* weights and any number of threads, and the principles they rest on.     *)
(*                                                                         *)
(* The induction theorems of the library take the property to be proved as *)
(* an operator.  Here induction is stated with a set: the numbers, or the  *)
(* subsets, that have the property.  Likewise a recursive definition is    *)
(* well founded because a chain of values exists, stated with functions in *)
(* the place of operators.                                                 *)
(***************************************************************************)
EXTENDS Parallel, FiniteSetTheorems, SequenceTheorems, TLAPS

-----------------------------------------------------------------------------
(* Induction and recursion                                                 *)

\* A set of numbers has a least one.
LEMMA LeastNat ==
    ASSUME NEW T, T \subseteq Nat, T # {}
    PROVE  \E x \in T : \A y \in T : x <= y
  <1> DEFINE R == {ss \in Nat \X Nat : ss[1] < ss[2]}
  <1>1. IsWellFoundedOn(R, Nat)
    BY NatLessThanWellFounded DEF OpToRel
  <1>2. PICK x \in T : \A y \in T : ~ (<<y, x>> \in R)
    <2> HIDE DEF R
    <2> QED BY <1>1, WFMin
  <1>3. ASSUME NEW y \in T PROVE x <= y
    <2>1. x \in Nat /\ y \in Nat /\ <<y, x>> \in Nat \X Nat
      OBVIOUS
    <2>2. <<y, x>> \notin R
      BY <1>2
    <2>3. ~(y < x)
      BY <2>1, <2>2
    <2> QED BY <2>1, <2>3
  <1> QED BY <1>3

\* A function on 1..n is a list.
LEMMA ListOf ==
    ASSUME NEW S, NEW n \in Nat, NEW f \in [1..n -> S]
    PROVE  f \in Seq(S) /\ Len(f) = n
  OBVIOUS

\* r is the z elements of s after the first a.
Slice(r, s, S, a, z) == r \in Seq(S) /\ Len(r) = z /\ \A i \in 1..z : r[i] = s[a + i]

\* SubSeq gives a slice.
LEMMA SubSeqSlice ==
    ASSUME NEW S, NEW s \in Seq(S), NEW a \in Nat, NEW z \in Nat, a + z <= Len(s)
    PROVE  Slice(SubSeq(s, a + 1, a + z), s, S, a, z)
  <1>1. PICK lo, hi, L : lo = a + 1 /\ hi = a + z /\ L = Len(s)
    OBVIOUS
  <1>2. L \in Nat /\ \A i \in 1..L : s[i] \in S
    BY <1>1, LenProperties, ElementOfSeq
  <1>3. lo = a + 1 /\ hi = a + z /\ hi <= L /\ L \in Nat /\ a \in Nat /\ z \in Nat
    BY <1>1, <1>2
  <1>4. /\ lo \in Int /\ hi \in Int /\ hi - lo + 1 = z /\ (IF lo <= hi THEN hi - lo + 1 ELSE 0) = z
        /\ \A i \in 1..z : lo + i - 1 = a + i
    BY ONLY <1>3
  <1>5. \A i \in lo..hi : i \in 1..L
    BY ONLY <1>3
  <1>6. lo \in Int /\ hi \in Int /\ \A i \in lo..hi : s[i] \in S
    BY <1>2, <1>4, <1>5
  <1>7. /\ SubSeq(s, lo, hi) \in Seq(S)
        /\ Len(SubSeq(s, lo, hi)) = IF lo <= hi THEN hi - lo + 1 ELSE 0
        /\ \A i \in 1..hi - lo + 1 : SubSeq(s, lo, hi)[i] = s[lo + i - 1]
    BY ONLY <1>6, SubSeqProperties
  <1>8. PICK r : r = SubSeq(s, lo, hi)
    OBVIOUS
  <1>9. /\ r \in Seq(S) /\ Len(r) = z /\ \A i \in 1..z : r[i] = s[a + i]
    BY ONLY <1>4, <1>7, <1>8
  <1> QED BY <1>1, <1>8, <1>9 DEF Slice

\* Induction over numbers.
LEMMA SetInduction ==
    ASSUME NEW T, 0 \in T, \A n \in Nat : n \in T => n + 1 \in T
    PROVE  Nat \subseteq T
  <1> SUFFICES ASSUME NEW bad, bad = Nat \ T, bad # {} PROVE FALSE
    OBVIOUS
  <1>1. PICK x \in bad : \A y \in bad : x <= y
    BY LeastNat
  <1>2. x # 0 /\ x \in Nat
    OBVIOUS
  <1>3. x - 1 \in Nat /\ x - 1 \in T
    BY <1>1, <1>2
  <1> QED BY <1>2, <1>3

\* Induction over the numbers up to a bound.
LEMMA BoundedInduction ==
    ASSUME NEW N \in Nat, NEW T, 0 \in T, \A n \in 0..N - 1 : n \in T => n + 1 \in T
    PROVE  0..N \subseteq T
  <1> DEFINE U == {n \in Nat : n <= N => n \in T}
  <1>1. 0 \in U
    OBVIOUS
  <1>2. ASSUME NEW n \in Nat, n \in U PROVE n + 1 \in U
    <2>1. CASE n + 1 <= N
      <3>1. n \in 0..N - 1 /\ n <= N
        BY <2>1
      <3> QED BY <1>2, <3>1
    <2>2. CASE ~(n + 1 <= N)
      BY <2>2
    <2> QED BY <2>1, <2>2
  <1>3. Nat \subseteq U
    <2> HIDE DEF U
    <2> QED BY <1>1, <1>2, SetInduction
  <1> QED BY <1>3

\* Induction over the subsets of a finite set.
LEMMA SubsetInduction ==
    ASSUME NEW S, IsFiniteSet(S), NEW P,
           \A T \in SUBSET S : (\A U \in SUBSET T : U # T => U \in P) => T \in P
    PROVE  \A T \in SUBSET S : T \in P
  <1>0. SUFFICES ASSUME (SUBSET S) \ P # {} PROVE FALSE
    OBVIOUS
  <1> DEFINE bad == (SUBSET S) \ P
  <1>1. bad \subseteq FiniteSubsetsOf(S)
    BY FS_FiniteSubsetsOfFinite
  <1>2. IsWellFoundedOn(StrictSubsetOrdering(S), FiniteSubsetsOf(S))
    BY FS_StrictSubsetOrderingWellFounded
  <1>3. PICK T \in bad : \A U \in bad : ~(<<U, T>> \in StrictSubsetOrdering(S))
    <2> HIDE DEF bad
    <2>1. bad # {}
      BY <1>0 DEF bad
    <2> QED BY <1>1, <1>2, <2>1, WFMin
  <1>4. ASSUME NEW U \in SUBSET T, U # T PROVE U \in P
    <2>1. U \in SUBSET S /\ T \in SUBSET S /\ <<U, T>> \in (SUBSET S) \X (SUBSET S)
      OBVIOUS
    <2>2. <<U, T>> \in StrictSubsetOrdering(S)
      BY <1>4, <2>1 DEF StrictSubsetOrdering
    <2> QED BY <1>3, <2>1, <2>2
  <1> QED BY <1>4

\* What is done to a value in each of N passes.
Steps(N, V) == [1..N -> [V -> V]]

\* The values of a recursive computation, from the first to the one after N passes.
Computes(f, N, V, base, step) ==
    /\ f \in [0..N -> V]
    /\ f[0] = base
    /\ \A n \in 1..N : f[n] = step[n][f[n - 1]]

\* A chain of values, each computed from the one before, exists.
LEMMA Recursion ==
    ASSUME NEW N \in Nat, NEW V, NEW base \in V, NEW step \in Steps(N, V)
    PROVE  \E f : Computes(f, N, V, base, step)
  <1> USE DEF Steps
  <1> DEFINE Chain(m, f) == f[0] = base /\ \A n \in 1..m : f[n] = step[n][f[n - 1]]
             T == {m \in 0..N : \E f \in [0..m -> V] : Chain(m, f)}
  <1>1. 0 \in T
    <2> DEFINE f == [i \in 0..0 |-> base]
    <2>1. f \in [0..0 -> V] /\ Chain(0, f)
      OBVIOUS
    <2>2. \E g \in [0..0 -> V] : Chain(0, g)
      BY <2>1
    <2> HIDE DEF Chain
    <2> QED BY <2>2
  <1>2. ASSUME NEW m \in 0..N - 1, m \in T PROVE m + 1 \in T
    <2>1. PICK f \in [0..m -> V] : Chain(m, f)
      BY <1>2
    <2> DEFINE g == [i \in 0..m + 1 |-> IF i = m + 1 THEN step[m + 1][f[m]] ELSE f[i]]
    <2>2. g \in [0..m + 1 -> V]
      OBVIOUS
    <2>3. Chain(m + 1, g)
      BY <2>1
    <2>4. m + 1 \in 0..N
      OBVIOUS
    <2> HIDE DEF g, Chain
    <2> QED BY <2>2, <2>3, <2>4
  <1>3. N \in T
    <2> HIDE DEF T
    <2>1. 0..N \subseteq T
      BY <1>1, <1>2, BoundedInduction
    <2> QED BY <2>1
  <1> QED BY <1>3 DEF Computes

\* What each element of a set does to a value.
Updates(S, V) == [S -> [V -> V]]

\* The value of every subset of S: that of a smaller one, updated with the element
\* that is picked.
ComputesSet(f, S, V, base, step, pick) ==
    /\ f \in [SUBSET S -> V]
    /\ f[{}] = base
    /\ \A T \in SUBSET S : T # {} => f[T] = step[pick[T]][f[T \ {pick[T]}]]

Picks(pick, S) == \A T \in SUBSET S : T # {} => pick[T] \in T

\* A function on the subsets of a finite set, computed from a smaller subset,
\* exists.
LEMMA SubsetRecursion ==
    ASSUME NEW S, IsFiniteSet(S), NEW V, NEW base \in V, NEW step \in Updates(S, V),
           NEW pick, Picks(pick, S)
    PROVE  \E f : ComputesSet(f, S, V, base, step, pick)
  <1> USE DEF Updates, Picks
  <1>1. PICK N \in Nat : N = Cardinality(S)
    BY FS_CardinalityType
  <1> DEFINE Better(f) == [T \in SUBSET S |->
                              IF T = {} THEN base ELSE step[pick[T]][f[T \ {pick[T]}]]]
             W == [SUBSET S -> V]
             improve == [n \in 1..N + 1 |-> [f \in W |-> Better(f)]]
             start == [T \in SUBSET S |-> base]
  <1>2. ASSUME NEW f \in W PROVE Better(f) \in W
    OBVIOUS
  <1>3. improve \in [1..N + 1 -> [W -> W]] /\ start \in W
    <2> HIDE DEF Better
    <2>1. start \in W
      OBVIOUS
    <2> HIDE DEF W
    <2> QED BY <1>2, <2>1
  <1>4. PICK F \in [0..N + 1 -> W] :
           F[0] = start /\ \A n \in 1..N + 1 : F[n] = improve[n][F[n - 1]]
    <2> HIDE DEF improve, start, W
    <2>1. N + 1 \in Nat /\ improve \in Steps(N + 1, W) /\ start \in W
      BY <1>1, <1>3 DEF Steps
    <2>2. \E F : Computes(F, N + 1, W, start, improve)
      BY <2>1, Recursion
    <2> QED BY <2>2 DEF Computes
  <1>5. ASSUME NEW n \in 0..N, NEW T \in SUBSET S
        PROVE  /\ F[n] \in W /\ F[n + 1] \in W
               /\ F[n + 1][T] = IF T = {} THEN base ELSE step[pick[T]][F[n][T \ {pick[T]}]]
    <2>1. n + 1 \in 1..N + 1 /\ n \in 0..N + 1 /\ n + 1 \in 0..N + 1 /\ (n + 1) - 1 = n
      BY <1>1
    <2>2. F[n + 1] = improve[n + 1][F[n]] /\ F[n] \in W /\ F[n + 1] \in W
      <3> HIDE DEF improve, W, start
      <3> QED BY <1>4, <2>1
    <2>3. F[n + 1] = Better(F[n])
      <3> HIDE DEF Better, W
      <3> QED BY <2>1, <2>2
    <2>4. Better(F[n])[T] = IF T = {} THEN base ELSE step[pick[T]][F[n][T \ {pick[T]}]]
      OBVIOUS
    <2> HIDE DEF Better, W
    <2> QED BY <2>2, <2>3, <2>4
  <1>6. \A n \in 0..N : \A T \in SUBSET S :
           F[n + 1][T] = IF T = {} THEN base ELSE step[pick[T]][F[n][T \ {pick[T]}]]
    <2> HIDE DEF W
    <2> QED BY <1>5
  <1>7. F[0] = [T \in SUBSET S |-> base]
    BY <1>4
  \* After n passes the values of sets of n elements are settled.
  <1> DEFINE Q == {n \in 0..N : \A T \in SUBSET S : Cardinality(T) <= n => F[n + 1][T] = F[n][T]}
  <1> HIDE DEF improve, W, Better, start
  <1>8. 0 \in Q
    <2>1. ASSUME NEW T \in SUBSET S, Cardinality(T) <= 0 PROVE F[0 + 1][T] = F[0][T]
      <3>1. T = {}
        BY <2>1, FS_Subset, FS_CardinalityType, FS_EmptySet
      <3>2. F[0][T] = base
        BY <1>7
      <3>3. 0 \in 0..N
        BY <1>1
      <3> QED BY <1>6, <3>1, <3>2, <3>3
    <2>2. 0 \in 0..N
      BY <1>1
    <2> QED BY <2>1, <2>2
  <1>9. ASSUME NEW n \in 0..N - 1, n \in Q PROVE n + 1 \in Q
    <2>0. n \in 0..N /\ n + 1 \in 0..N /\ n \in Nat
      BY <1>1
    <2>1. ASSUME NEW T \in SUBSET S, Cardinality(T) <= n + 1
          PROVE  F[n + 1 + 1][T] = F[n + 1][T]
      <3>1. PICK U : U = T \ {pick[T]}
        OBVIOUS
      <3>2. F[n + 1 + 1][T] = IF T = {} THEN base ELSE step[pick[T]][F[n + 1][U]]
        BY <1>6, <2>0, <3>1
      <3>3. F[n + 1][T] = IF T = {} THEN base ELSE step[pick[T]][F[n][U]]
        BY <1>6, <2>0, <3>1
      <3>4. T # {} => F[n + 1][U] = F[n][U]
        <4> SUFFICES ASSUME T # {} PROVE F[n + 1][U] = F[n][U]
          OBVIOUS
        <4>1. IsFiniteSet(T) /\ pick[T] \in T
          BY FS_Subset
        <4>2. Cardinality(U) = Cardinality(T) - 1 /\ Cardinality(T) \in Nat
          BY ZenonT(40), <3>1, <4>1, FS_RemoveElement, FS_CardinalityType
        <4>3. U \in SUBSET S /\ Cardinality(U) <= n
          BY <2>0, <2>1, <3>1, <4>2
        <4> QED BY <1>9, <4>3
      <3> QED BY <3>2, <3>3, <3>4
    <2> QED BY <2>0, <2>1
  <1>10. N \in Q
    <2> HIDE DEF Q
    <2>1. 0..N \subseteq Q
      BY <1>8, <1>9, BoundedInduction
    <2>2. N \in 0..N
      BY <1>1
    <2> QED BY <2>1, <2>2
  <1>11. N \in 0..N
    BY <1>1
  <1>12. PICK f : f = F[N + 1]
    OBVIOUS
  <1>13. f \in [SUBSET S -> V]
    BY <1>5, <1>11, <1>12 DEF W
  <1>14. f[{}] = base
    BY <1>6, <1>11, <1>12
  <1>15. ASSUME NEW T \in SUBSET S, T # {} PROVE f[T] = step[pick[T]][f[T \ {pick[T]}]]
    <2>1. PICK U \in SUBSET S : U = T \ {pick[T]}
      OBVIOUS
    <2>2. f[T] = step[pick[T]][F[N][U]]
      BY <1>6, <1>11, <1>12, <1>15, <2>1
    <2>3. Cardinality(U) <= N
      BY <1>1, FS_Subset
    <2>4. F[N + 1][U] = F[N][U]
      BY <1>10, <2>3
    <2> QED BY <1>12, <2>1, <2>2, <2>4
  <1> QED BY <1>13, <1>14, <1>15 DEF ComputesSet

\* The largest element of a non-empty set of numbers up to a bound.
LEMMA MaxPicks ==
    ASSUME NEW N \in Nat, NEW T \in SUBSET (0..N), T # {}
    PROVE  Max(T) \in T /\ \A y \in T : y <= Max(T)
  <1> DEFINE D == {n \in Nat : \A y \in T : y <= n}
  <1>1. D \subseteq Nat /\ N \in D
    OBVIOUS
  <1>2. PICK m \in D : \A n \in D : m <= n
    <2> HIDE DEF D
    <2> QED BY <1>1, LeastNat
  <1>3. m \in T
    <2>1. SUFFICES ASSUME m \notin T PROVE FALSE
      OBVIOUS
    <2>2. PICK z \in T : TRUE
      OBVIOUS
    <2>3. m \in Nat /\ z \in Nat /\ z <= m /\ z # m
      BY <2>1
    <2>4. m - 1 \in Nat /\ \A y \in T : y <= m - 1
      BY <2>1, <2>3
    <2>5. m - 1 \in D /\ ~(m <= m - 1)
      BY <2>3, <2>4
    <2> QED BY <1>2, <2>5
  <1>4. \A y \in T : m >= y
    BY <1>3
  <1>5. \E x \in T : \A y \in T : x >= y
    BY <1>3, <1>4
  <1>6. Max(T) \in T /\ \A y \in T : Max(T) >= y
    BY <1>5 DEF Max
  <1> QED BY <1>6

\* The last number of an interval.
LEMMA MaxOfInterval ==
    ASSUME NEW n \in Nat \ {0}
    PROVE  Max(1..n) = n /\ (1..n) \ {n} = 1..n - 1
  <1>1. 1..n \in SUBSET (0..n) /\ n \in 1..n
    OBVIOUS
  <1>2. Max(1..n) \in 1..n /\ \A y \in 1..n : y <= Max(1..n)
    BY <1>1, MaxPicks
  <1> QED BY <1>1, <1>2

\* A function on the subsets of 1..N, computed from the subset without its largest
\* element: this is how FoldLeft is defined.
ComputesLeft(f, N, V, base, step) ==
    /\ f \in [SUBSET (1..N) -> V]
    /\ f = [T \in SUBSET (1..N) |-> IF T = {} THEN base ELSE step[Max(T)][f[T \ {Max(T)}]]]

\* It exists.
LEMMA LeftRecursion ==
    ASSUME NEW N \in Nat, NEW V, NEW base \in V, NEW step \in Steps(N, V)
    PROVE  \E f : ComputesLeft(f, N, V, base, step)
  <1> DEFINE pick == [T \in SUBSET (1..N) |-> Max(T)]
  <1>1. Picks(pick, 1..N)
    <2>1. ASSUME NEW T \in SUBSET (1..N), T # {} PROVE Max(T) \in T
      <3>1. T \in SUBSET (0..N)
        OBVIOUS
      <3> QED BY <2>1, <3>1, MaxPicks
    <2> QED BY <2>1 DEF Picks
  <1>2. step \in Updates(1..N, V) /\ IsFiniteSet(1..N)
    BY FS_Interval DEF Steps, Updates
  <1>3. PICK f : ComputesSet(f, 1..N, V, base, step, pick)
    <2> HIDE DEF pick
    <2> QED BY <1>1, <1>2, SubsetRecursion
  <1>4. f \in [SUBSET (1..N) -> V]
    BY <1>3 DEF ComputesSet
  <1>5. ASSUME NEW T \in SUBSET (1..N)
        PROVE  f[T] = IF T = {} THEN base ELSE step[Max(T)][f[T \ {Max(T)}]]
    BY <1>3 DEF ComputesSet
  <1> HIDE DEF pick
  <1>6. f = [T \in SUBSET (1..N) |-> IF T = {} THEN base ELSE step[Max(T)][f[T \ {Max(T)}]]]
    BY <1>4, <1>5
  <1> QED BY <1>4, <1>6 DEF ComputesLeft

-----------------------------------------------------------------------------
(* Sums                                                                    *)

\* The weights of a set are numbers.
Weighs(w, S) == \A x \in S : w[x] \in Nat

\* The sum over a subset of S, as FoldFunction computes it.
SumOver(w, S) ==
    CHOOSE f : f = [T \in SUBSET S |->
                       IF T = {} THEN 0
                       ELSE w[CHOOSE x \in T : TRUE] + f[T \ {CHOOSE x \in T : TRUE}]]

\* A total is a sum over a domain.
LEMMA TotalIsSum ==
    ASSUME NEW w PROVE Total(w) = SumOver(w, DOMAIN w)[DOMAIN w]
  BY DEF Total, SumOver, FoldFunction, FoldFunctionOnSet, MapThenFoldSet

\* The definition of the sum has a solution.
LEMMA SumOverDef ==
    ASSUME NEW S, IsFiniteSet(S), NEW w, Weighs(w, S)
    PROVE  /\ SumOver(w, S)[{}] = 0
           /\ \A T \in SUBSET S : T # {} =>
                 SumOver(w, S)[T] = w[CHOOSE x \in T : TRUE]
                                    + SumOver(w, S)[T \ {CHOOSE x \in T : TRUE}]
  <1> USE DEF Weighs
  <1> DEFINE step == [x \in S |-> [v \in Nat |-> w[x] + v]]
             pick == [T \in SUBSET S |-> CHOOSE x \in T : TRUE]
  <1>1. step \in Updates(S, Nat)
    BY DEF Updates
  <1>2. Picks(pick, S)
    BY DEF Picks
  <1>3. PICK f : ComputesSet(f, S, Nat, 0, step, pick)
    <2> HIDE DEF step, pick
    <2>1. 0 \in Nat
      OBVIOUS
    <2> QED BY <1>1, <1>2, <2>1, SubsetRecursion
  <1>4. f \in [SUBSET S -> Nat]
    BY <1>3 DEF ComputesSet
  <1>5. ASSUME NEW T \in SUBSET S
        PROVE  f[T] = IF T = {} THEN 0
                      ELSE w[CHOOSE x \in T : TRUE] + f[T \ {CHOOSE x \in T : TRUE}]
    <2>1. CASE T = {}
      BY <1>3, <2>1 DEF ComputesSet
    <2>2. CASE T # {}
      <3>1. PICK x \in T : x = CHOOSE y \in T : TRUE
        BY <2>2
      <3>2. f[T] = step[x][f[T \ {x}]]
        BY <1>3, <2>2, <3>1 DEF ComputesSet
      <3>3. f[T \ {x}] \in Nat
        BY <1>4
      <3> QED BY <2>2, <3>1, <3>2, <3>3
    <2> QED BY <2>1, <2>2
  <1> HIDE DEF step, pick
  <1>6. f = [T \in SUBSET S |->
                IF T = {} THEN 0
                ELSE w[CHOOSE x \in T : TRUE] + f[T \ {CHOOSE x \in T : TRUE}]]
    BY <1>4, <1>5
  <1>7. SumOver(w, S) = [T \in SUBSET S |->
                IF T = {} THEN 0
                ELSE w[CHOOSE x \in T : TRUE] + SumOver(w, S)[T \ {CHOOSE x \in T : TRUE}]]
    BY <1>6 DEF SumOver
  <1> QED BY <1>7

\* The sums over the subsets of S: each term can be taken out.
IsSum(f, S, w) ==
    /\ f[{}] = 0
    /\ \A T \in SUBSET S : f[T] \in Nat /\ \A x \in T : f[T] = w[x] + f[T \ {x}]

\* A sum does not depend on the order in which its terms are added.
LEMMA SumOverRemove ==
    ASSUME NEW S, IsFiniteSet(S), NEW w, Weighs(w, S)
    PROVE  IsSum(SumOver(w, S), S, w)
  <1>0. \A x \in S : w[x] \in Nat
    BY DEF Weighs
  <1>1. PICK f : f = SumOver(w, S)
    OBVIOUS
  <1>2. f[{}] = 0
    BY <1>1, SumOverDef
  <1>3. ASSUME NEW T \in SUBSET S, T # {}
        PROVE  \E c \in T : f[T] = w[c] + f[T \ {c}]
    <2>1. (CHOOSE x \in T : TRUE) \in T
      BY <1>3
    <2>2. f[T] = w[CHOOSE x \in T : TRUE] + f[T \ {CHOOSE x \in T : TRUE}]
      BY <1>1, <1>3, SumOverDef
    <2> QED BY <2>1, <2>2
  <1> DEFINE P == {T \in SUBSET S : f[T] \in Nat /\ \A x \in T : f[T] = w[x] + f[T \ {x}]}
  <1>4. ASSUME NEW T \in SUBSET S, \A U \in SUBSET T : U # T => U \in P
        PROVE  T \in P
    <2>1. CASE T = {}
      BY <1>2, <2>1
    <2>2. CASE T # {}
      <3>1. PICK c \in T : f[T] = w[c] + f[T \ {c}]
        BY <1>3, <2>2
      <3>2. T \ {c} \in P
        BY <1>4
      <3>3. f[T \ {c}] \in Nat /\ w[c] \in Nat
        BY <1>0, <3>2
      <3>4. f[T] \in Nat
        BY <3>1, <3>3
      <3>5. ASSUME NEW x \in T PROVE f[T] = w[x] + f[T \ {x}]
        <4>1. CASE x = c
          BY <3>1, <4>1
        <4>2. CASE x # c
          <5>1. T \ {x} \in P /\ c \in T \ {x} /\ x \in T \ {c}
            BY <1>4, <4>2
          <5>2. (T \ {x}) \ {c} \in P /\ (T \ {x}) \ {c} = (T \ {c}) \ {x}
            BY <1>4
          <5>3. f[T \ {x}] = w[c] + f[(T \ {x}) \ {c}]
            BY <5>1
          <5>4. f[T \ {c}] = w[x] + f[(T \ {c}) \ {x}]
            BY <3>2, <5>1
          <5>5. PICK r, a, b \in Nat : r = f[(T \ {x}) \ {c}] /\ a = w[x] /\ b = w[c]
            BY <1>0, <3>3, <5>2
          <5>6. f[T \ {x}] = b + r /\ f[T \ {c}] = a + r
            BY <5>2, <5>3, <5>4, <5>5
          <5> QED BY <3>1, <5>5, <5>6
        <4> QED BY <4>1, <4>2
      <3> QED BY <3>4, <3>5
    <2> QED BY <2>1, <2>2
  <1>5. \A T \in SUBSET S : T \in P
    <2> HIDE DEF P
    <2> QED BY <1>4, SubsetInduction
  <1> QED BY <1>1, <1>2, <1>5 DEF IsSum

\* A sum over a subset depends on that subset only.
LEMMA SumOverRestrict ==
    ASSUME NEW S, IsFiniteSet(S), NEW w, Weighs(w, S),
           NEW R \in SUBSET S, NEW v, \A x \in R : v[x] = w[x]
    PROVE  \A T \in SUBSET R : SumOver(v, R)[T] = SumOver(w, S)[T]
  <1>1. IsFiniteSet(R) /\ Weighs(v, R)
    BY FS_Subset DEF Weighs
  <1>2. PICK f, g : f = SumOver(w, S) /\ g = SumOver(v, R)
    OBVIOUS
  <1>3. IsSum(f, S, w) /\ IsSum(g, R, v)
    BY <1>1, <1>2, SumOverRemove
  <1>4. \A T \in SUBSET R : \A x \in T :
           f[T] = w[x] + f[T \ {x}] /\ g[T] = v[x] + g[T \ {x}]
    BY <1>3 DEF IsSum
  <1> DEFINE P == {T \in SUBSET R : g[T] = f[T]}
  <1>5. ASSUME NEW T \in SUBSET R, \A U \in SUBSET T : U # T => U \in P
        PROVE  T \in P
    <2>1. CASE T = {}
      BY <1>3, <2>1 DEF IsSum
    <2>2. CASE T # {}
      <3>1. PICK x \in T : TRUE
        BY <2>2
      <3>2. T \ {x} \in P
        BY <1>5
      <3> QED BY ZenonT(40), <1>4, <3>1, <3>2
    <2> QED BY <2>1, <2>2
  <1>6. \A T \in SUBSET R : T \in P
    <2> HIDE DEF P
    <2> QED BY <1>1, <1>5, SubsetInduction
  <1> QED BY <1>2, <1>6

\* The total of no weights.
LEMMA TotalEmpty ==
    ASSUME NEW w, DOMAIN w = {} PROVE Total(w) = 0
  <1>1. IsFiniteSet({}) /\ Weighs(w, {})
    BY FS_EmptySet DEF Weighs
  <1>2. SumOver(w, {})[{}] = 0
    BY <1>1, SumOverDef
  <1> QED BY <1>2, TotalIsSum

\* The total of weights is a number, and each term can be taken out of it.
LEMMA TotalRemove ==
    ASSUME NEW S, IsFiniteSet(S), NEW w \in [S -> Nat]
    PROVE  /\ Total(w) \in Nat
           /\ \A x \in S : Total(w) = w[x] + Total([y \in S \ {x} |-> w[y]])
  <1>1. Weighs(w, S)
    BY DEF Weighs
  <1>2. Total(w) = SumOver(w, S)[S]
    BY TotalIsSum
  <1>3. IsSum(SumOver(w, S), S, w)
    BY <1>1, SumOverRemove
  <1>4. SumOver(w, S)[S] \in Nat /\ \A x \in S : SumOver(w, S)[S] = w[x] + SumOver(w, S)[S \ {x}]
    BY <1>3 DEF IsSum
  <1>5. ASSUME NEW x \in S PROVE Total([y \in S \ {x} |-> w[y]]) = SumOver(w, S)[S \ {x}]
    <2>1. PICK R, v : R = S \ {x} /\ v = [y \in R |-> w[y]]
      OBVIOUS
    <2>2. R \in SUBSET S /\ (\A y \in R : v[y] = w[y]) /\ R \in SUBSET R /\ DOMAIN v = R
      BY <2>1
    <2>3. SumOver(v, R)[R] = SumOver(w, S)[R]
      BY <1>1, <2>2, SumOverRestrict
    <2>4. Total(v) = SumOver(v, R)[R]
      BY <2>2, TotalIsSum
    <2> QED BY <2>1, <2>3, <2>4
  <1> QED BY <1>2, <1>4, <1>5

\* The totals of the first 0, 1, .., n weights.
Sums(P, n, w) ==
    /\ P \in [0..n -> Nat]
    /\ P[0] = 0
    /\ \A k \in 1..n : P[k] = P[k - 1] + w[k]

\* They exist.
LEMMA SumsExist ==
    ASSUME NEW n \in Nat, NEW w, Weighs(w, 1..n)
    PROVE  \E P : Sums(P, n, w)
  <1> DEFINE step == [k \in 1..n |-> [v \in Nat |-> v + w[k]]]
  <1>1. step \in Steps(n, Nat) /\ 0 \in Nat
    BY DEF Steps, Weighs
  <1>2. PICK P : Computes(P, n, Nat, 0, step)
    <2> HIDE DEF step
    <2> QED BY <1>1, Recursion
  <1>3. P \in [0..n -> Nat] /\ P[0] = 0
    BY <1>2 DEF Computes
  <1>4. ASSUME NEW k \in 1..n PROVE P[k] = P[k - 1] + w[k]
    <2>1. P[k - 1] \in Nat
      BY <1>3
    <2>2. P[k] = step[k][P[k - 1]]
      BY <1>2 DEF Computes
    <2> QED BY <2>1, <2>2
  <1> QED BY <1>3, <1>4 DEF Sums

\* Sums grow.
LEMMA SumsMonotone ==
    ASSUME NEW n \in Nat, NEW w, Weighs(w, 1..n), NEW P, Sums(P, n, w),
           NEW i \in 0..n, NEW j \in 0..n, i <= j
    PROVE  P[i] \in Nat /\ P[j] \in Nat /\ P[i] <= P[j]
  <1>1. \A k \in 0..n : P[k] \in Nat
    BY DEF Sums
  <1> DEFINE T == {m \in 0..n : i <= m => P[i] <= P[m]}
  <1>2. 0 \in T
    BY <1>1
  <1>3. ASSUME NEW m \in 0..n - 1, m \in T PROVE m + 1 \in T
    <2>1. m + 1 \in 0..n /\ m + 1 \in 1..n /\ m \in 0..n /\ (m + 1) - 1 = m
      OBVIOUS
    <2>2. P[m + 1] = P[m] + w[m + 1] /\ w[m + 1] \in Nat
      BY <2>1 DEF Sums, Weighs
    <2>3. CASE i <= m
      BY <1>1, <1>3, <2>1, <2>2, <2>3
    <2>4. CASE i = m + 1
      BY <1>1, <2>1, <2>4
    <2>5. i <= m + 1 => i <= m \/ i = m + 1
      OBVIOUS
    <2> QED BY <2>1, <2>3, <2>4, <2>5
  <1>4. 0..n \subseteq T
    <2> HIDE DEF T
    <2> QED BY <1>2, <1>3, BoundedInduction
  <1> QED BY <1>1, <1>4

\* The total of consecutive weights is a difference of sums.
LEMMA SumsInterval ==
    ASSUME NEW n \in Nat, NEW w, Weighs(w, 1..n), NEW P, Sums(P, n, w),
           NEW i \in 0..n, NEW j \in 0..n, i <= j
    PROVE  Total([k \in i + 1..j |-> w[k]]) = P[j] - P[i]
  <1>1. \A k \in 0..n : P[k] \in Nat
    BY DEF Sums
  <1> DEFINE T == {m \in 0..n : i <= m => Total([k \in i + 1..m |-> w[k]]) = P[m] - P[i]}
  <1>2. Total([k \in i + 1..i |-> w[k]]) = P[i] - P[i]
    <2>1. DOMAIN [k \in i + 1..i |-> w[k]] = {}
      OBVIOUS
    <2> QED BY <1>1, <2>1, TotalEmpty
  <1>3. 0 \in T
    BY <1>2
  <1>4. ASSUME NEW m \in 0..n - 1, m \in T PROVE m + 1 \in T
    <2>1. m + 1 \in 0..n /\ m + 1 \in 1..n /\ m \in 0..n /\ (m + 1) - 1 = m
      OBVIOUS
    <2>2. P[m + 1] = P[m] + w[m + 1] /\ w[m + 1] \in Nat
      BY <2>1 DEF Sums, Weighs
    <2>3. CASE i <= m
      <3>1. PICK S, v : S = i + 1..m + 1 /\ v = [k \in S |-> w[k]]
        OBVIOUS
      <3>2. v \in [S -> Nat] /\ IsFiniteSet(S) /\ m + 1 \in S
        BY <2>3, <3>1, FS_Interval DEF Weighs
      <3>3. Total(v) = v[m + 1] + Total([k \in S \ {m + 1} |-> v[k]])
        BY ZenonT(40), <3>2, TotalRemove
      <3>4. [k \in S \ {m + 1} |-> v[k]] = [k \in i + 1..m |-> w[k]]
        BY <3>1
      <3>5. Total([k \in i + 1..m |-> w[k]]) = P[m] - P[i]
        BY <1>4, <2>3
      <3>6. Total(v) = w[m + 1] + (P[m] - P[i])
        BY <3>1, <3>2, <3>3, <3>4, <3>5
      <3>7. w[m + 1] + (P[m] - P[i]) = P[m + 1] - P[i]
        BY <1>1, <2>1, <2>2
      <3> QED BY <2>1, <3>1, <3>6, <3>7
    <2>4. CASE i = m + 1
      BY <1>2, <2>1, <2>4
    <2>5. i <= m + 1 => i <= m \/ i = m + 1
      OBVIOUS
    <2> QED BY <2>1, <2>3, <2>4, <2>5
  <1>5. 0..n \subseteq T
    <2> HIDE DEF T
    <2> QED BY <1>3, <1>4, BoundedInduction
  <1> QED BY <1>5

\* s lists n things without repetition whose weights by v are w; g are the weights
\* of the first m.
Lists(s, v, w, n) ==
    (\A i, j \in 1..n : i # j => s[i] # s[j]) /\ \A i \in 1..n : w[i] = v[s[i]]
Picked(g, s, v, m) == g = [x \in {s[i] : i \in 1..m} |-> v[x]]

\* The total of the weights of the elements of a list without repetition.
LEMMA SumsOfPicked ==
    ASSUME NEW n \in Nat, NEW s, NEW v, NEW w, Lists(s, v, w, n), Weighs(w, 1..n),
           NEW P, Sums(P, n, w), NEW m \in 0..n, NEW g, Picked(g, s, v, m)
    PROVE  Total(g) = P[m]
  <1>0. /\ \A i, j \in 1..n : i # j => s[i] # s[j]
        /\ \A i \in 1..n : w[i] = v[s[i]]
    BY DEF Lists
  <1>1. \A k \in 0..n : P[k] \in Nat
    BY DEF Sums
  <1> DEFINE S(j) == {s[i] : i \in 1..j}
             T == {j \in 0..n : IsFiniteSet(S(j)) /\ Total([x \in S(j) |-> v[x]]) = P[j]}
  <1>2. 0 \in T
    <2>1. S(0) = {}
      OBVIOUS
    <2>2. DOMAIN [x \in S(0) |-> v[x]] = {}
      BY <2>1
    <2>3. Total([x \in S(0) |-> v[x]]) = 0
      BY <2>2, TotalEmpty
    <2>4. P[0] = 0 /\ 0 \in 0..n
      BY DEF Sums
    <2> QED BY <2>1, <2>3, <2>4, FS_EmptySet
  <1>3. ASSUME NEW j \in 0..n - 1, j \in T PROVE j + 1 \in T
    <2>1. j + 1 \in 0..n /\ j + 1 \in 1..n /\ j \in 0..n /\ (j + 1) - 1 = j
      OBVIOUS
    <2>2. P[j + 1] = P[j] + w[j + 1] /\ w[j + 1] \in Nat
      BY <2>1 DEF Sums, Weighs
    <2>3. PICK x : x = s[j + 1]
      OBVIOUS
    <2>4. S(j + 1) = S(j) \cup {x} /\ x \notin S(j) /\ x \in S(j + 1)
      BY <1>0, <2>1, <2>3
    <2>5. S(j + 1) \ {x} = S(j)
      BY <2>4
    <2>6. ASSUME NEW y \in S(j + 1) PROVE v[y] \in Nat
      <3>1. PICK i \in 1..j + 1 : y = s[i]
        OBVIOUS
      <3>2. i \in 1..n
        BY <2>1
      <3> QED BY <1>0, <3>1, <3>2 DEF Weighs
    <2>7. PICK R, u : R = S(j + 1) /\ u = [y \in R |-> v[y]]
      OBVIOUS
    <2>8. IsFiniteSet(R)
      <3>1. IsFiniteSet(S(j))
        BY <1>3
      <3> HIDE DEF S
      <3> QED BY <2>4, <2>7, <3>1, FS_AddElement
    <2>9. u \in [R -> Nat] /\ x \in R
      BY <2>4, <2>6, <2>7
    <2> HIDE DEF S
    <2>10. Total(u) = u[x] + Total([y \in R \ {x} |-> u[y]])
      <3> HIDE DEF T
      <3> QED BY ONLY ZenonT(40), <2>8, <2>9, TotalRemove
    <2>11. [y \in R \ {x} |-> u[y]] = [y \in S(j) |-> v[y]]
      <3>1. R \ {x} = S(j) /\ \A y \in R : u[y] = v[y]
        BY <2>5, <2>7
      <3> QED BY <3>1
    <2>12. Total([y \in S(j) |-> v[y]]) = P[j]
      BY <1>3
    <2>13. u[x] = w[j + 1]
      BY <1>0, <2>1, <2>3, <2>7, <2>9
    <2>14. Total(u) = w[j + 1] + P[j]
      BY <2>10, <2>11, <2>12, <2>13
    <2>15. Total([y \in S(j + 1) |-> v[y]]) = P[j + 1]
      BY <1>1, <2>1, <2>2, <2>7, <2>14
    <2> QED BY <2>1, <2>7, <2>8, <2>15
  <1>4. 0..n \subseteq T
    <2> HIDE DEF T
    <2> QED BY <1>2, <1>3, BoundedInduction
  <1>5. Total([x \in S(m) |-> v[x]]) = P[m]
    BY <1>4
  <1> QED BY <1>5 DEF Picked

\* Every place lies between two sums.
LEMMA SumsLocate ==
    ASSUME NEW n \in Nat, NEW w, NEW P, Sums(P, n, w), NEW p \in Nat, 0 < p, p <= P[n]
    PROVE  \E k \in 1..n : P[k - 1] < p /\ p <= P[k]
  <1>1. \A k \in 0..n : P[k] \in Nat
    BY DEF Sums
  <1>2. P[0] = 0
    BY DEF Sums
  <1> DEFINE D == {k \in 0..n : p <= P[k]}
  <1>3. n \in D /\ D \subseteq Nat
    OBVIOUS
  <1>4. PICK k \in D : \A l \in D : k <= l
    <2> HIDE DEF D
    <2> QED BY <1>3, LeastNat
  <1>5. k # 0
    BY <1>2
  <1>6. k \in 1..n /\ k - 1 \in 0..n /\ ~(k <= k - 1)
    BY <1>5
  <1>7. ~(p <= P[k - 1])
    BY <1>4, <1>6
  <1> QED BY <1>1, <1>4, <1>6, <1>7

-----------------------------------------------------------------------------
(* Lists one after the other                                               *)

\* fl is the lists ss one after the other, the k-th ends at P[k].
Flattened(fl, ss, P, E) ==
    /\ fl \in Seq(E)
    /\ Len(fl) = P[Len(ss)]
    /\ \A k \in 1..Len(ss) : \A i \in 1..Len(ss[k]) : fl[P[k - 1] + i] = ss[k][i]

\* The lists up to the k-th one after the other are a prefix of the ones up to the
\* last: how FlattenSeq computes.
LEMMA FlattenChain ==
    ASSUME NEW E, NEW ss \in Seq(Seq(E))
    PROVE  \E c \in [0..Len(ss) -> Seq(E)] :
              /\ c[0] = <<>>
              /\ \A k \in 1..Len(ss) : c[k] = c[k - 1] \o ss[k]
              /\ FlattenSeq(ss) = c[Len(ss)]
  <1>1. PICK n \in Nat : n = Len(ss) /\ \A k \in 1..n : ss[k] \in Seq(E)
    OBVIOUS
  <1> DEFINE V == Seq(E)
             step == [k \in 1..n |-> [v \in V |-> v \o ss[k]]]
  <1>2. step \in Steps(n, V) /\ <<>> \in V
    BY <1>1 DEF Steps
  <1>3. PICK c : Computes(c, n, V, <<>>, step)
    <2> HIDE DEF step, V
    <2> QED BY <1>2, Recursion
  <1>4. c \in [0..n -> Seq(E)] /\ c[0] = <<>>
    BY <1>3 DEF Computes
  <1>5. ASSUME NEW k \in 1..n PROVE c[k] = c[k - 1] \o ss[k]
    <2>1. c[k - 1] \in Seq(E)
      BY <1>4
    <2>2. c[k] = step[k][c[k - 1]]
      BY <1>3 DEF Computes
    <2> QED BY <2>1, <2>2
  <1> HIDE DEF step, V
  <1>6. FlattenSeq(ss) = c[n]
    <2>1. CASE n = 0
      <3>1. FlattenSeq(ss) = ss
        BY <1>1, <2>1 DEF FlattenSeq
      <3>2. ss = <<>>
        BY ONLY <1>1, <2>1, ss \in Seq(Seq(E)), EmptySeq
      <3> QED BY <1>4, <2>1, <3>1, <3>2
    <2>2. CASE n # 0
      <3> DEFINE Eq(f) == f = [i \in 1..n |-> IF i = 1 THEN ss[i] ELSE f[i - 1] \o ss[i]]
                 g == [i \in 1..n |-> c[i]]
      <3>1. Eq(g)
        <4>1. ASSUME NEW i \in 1..n PROVE c[i] = IF i = 1 THEN ss[i] ELSE g[i - 1] \o ss[i]
          <5>1. CASE i = 1
            <6>1. i - 1 = 0 /\ c[i] = c[i - 1] \o ss[i]
              <7>1. i - 1 = 0
                BY <5>1
              <7> QED BY <1>5, <7>1
            <6>2. c[i] = <<>> \o ss[i] /\ ss[i] \in Seq(E)
              BY <1>1, <1>4, <6>1
            <6> QED BY <5>1, <6>2
          <5>2. CASE i # 1
            <6>1. c[i] = c[i - 1] \o ss[i]
              BY <1>5
            <6>2. i - 1 \in 1..n
              BY <1>1, <5>2
            <6>3. g[i - 1] = c[i - 1]
              BY <6>2
            <6> QED BY <5>2, <6>1, <6>3
          <5> QED BY <5>1, <5>2
        <4> QED BY <4>1
      <3>2. PICK f : Eq(f) /\ FlattenSeq(ss) = f[n]
        <4> HIDE DEF Eq
        <4>1. Eq(CHOOSE f : Eq(f))
          BY <3>1
        <4>2. FlattenSeq(ss) = (CHOOSE f : Eq(f))[n]
          BY <1>1, <2>2 DEF FlattenSeq, Eq
        <4> QED BY <4>1, <4>2
      <3> DEFINE T == {m \in 0..n : m # 0 => f[m] = c[m]}
      <3>3. 0 \in T
        OBVIOUS
      <3>4. ASSUME NEW m \in 0..n - 1, m \in T PROVE m + 1 \in T
        <4>1. m + 1 \in 1..n /\ (m + 1) - 1 = m /\ m + 1 \in 0..n
          OBVIOUS
        <4>2. f[m + 1] = IF m + 1 = 1 THEN ss[m + 1] ELSE f[m] \o ss[m + 1]
          BY <3>2, <4>1
        <4>3. c[m + 1] = c[m] \o ss[m + 1]
          BY <1>5, <4>1
        <4>4. CASE m = 0
          <5>1. c[m + 1] = <<>> \o ss[m + 1]
            BY <1>4, <4>3, <4>4
          <5>2. ss[m + 1] \in Seq(E)
            BY <1>1, <4>1
          <5> QED BY <4>1, <4>2, <4>4, <5>1, <5>2
        <4>5. CASE m # 0
          <5>1. f[m] = c[m] /\ m + 1 # 1
            BY <3>4, <4>5
          <5>2. f[m + 1] = c[m + 1]
            BY <4>2, <4>3, <5>1
          <5> QED BY <4>1, <5>2
        <4> QED BY <4>4, <4>5
      <3>5. 0..n \subseteq T
        <4> HIDE DEF T
        <4> QED BY <3>3, <3>4, BoundedInduction
      <3>6. n \in T
        <4> HIDE DEF T
        <4>1. n \in 0..n
          BY <1>1
        <4> QED BY <3>5, <4>1
      <3> QED BY <2>2, <3>2, <3>6
    <2> QED BY <2>1, <2>2
  <1> QED BY <1>1, <1>4, <1>5, <1>6

\* What FlattenSeq returns: each list is where the ones before it end.
LEMMA FlattenFacts ==
    ASSUME NEW E, NEW ss \in Seq(Seq(E)), NEW n, n = Len(ss),
           NEW w, \A k \in 1..n : w[k] = Len(ss[k]), NEW P, Sums(P, n, w)
    PROVE  Flattened(FlattenSeq(ss), ss, P, E)
  <1>1. n \in Nat /\ \A k \in 1..n : ss[k] \in Seq(E)
    OBVIOUS
  <1>2. P \in [0..n -> Nat] /\ P[0] = 0 /\ \A k \in 1..n : P[k] = P[k - 1] + Len(ss[k])
    BY DEF Sums
  <1>3. PICK c \in [0..n -> Seq(E)] :
           /\ c[0] = <<>>
           /\ \A k \in 1..n : c[k] = c[k - 1] \o ss[k]
           /\ FlattenSeq(ss) = c[n]
    BY FlattenChain
  <1> DEFINE Good(m) == /\ Len(c[m]) = P[m]
                        /\ \A k \in 1..m : \A i \in 1..Len(ss[k]) :
                              /\ P[k - 1] + i \in 1..P[m]
                              /\ c[m][P[k - 1] + i] = ss[k][i]
             T == {m \in 0..n : Good(m)}
  <1>4. 0 \in T
    BY <1>1, <1>2, <1>3
  <1>5. ASSUME NEW m \in 0..n - 1, m \in T PROVE m + 1 \in T
    <2>1. m + 1 \in 1..n /\ (m + 1) - 1 = m /\ m + 1 \in 0..n /\ m \in 0..n
      BY <1>1
    <2>2. PICK a \in Seq(E), b \in Seq(E) : a = c[m] /\ b = ss[m + 1]
      BY <1>1, <2>1
    <2>3. c[m + 1] = a \o b /\ Len(a) = P[m] /\ P[m + 1] = P[m] + Len(b)
      BY <1>2, <1>3, <1>5, <2>1, <2>2
    <2>4. Len(c[m + 1]) = P[m + 1]
      <3>1. Len(a \o b) = Len(a) + Len(b)
        OBVIOUS
      <3> QED BY <2>3, <3>1
    <2>5. ASSUME NEW k \in 1..m + 1, NEW i \in 1..Len(ss[k])
          PROVE  P[k - 1] + i \in 1..P[m + 1] /\ c[m + 1][P[k - 1] + i] = ss[k][i]
      <3>1. CASE k = m + 1
        <4>1. P[k - 1] = Len(a) /\ ss[k] = b /\ i \in 1..Len(b)
          BY <2>1, <2>2, <2>3, <3>1
        <4>2. (a \o b)[Len(a) + i] = b[i] /\ Len(a) + i \in 1..Len(a) + Len(b)
          BY <4>1
        <4> QED BY <2>3, <4>1, <4>2
      <3>2. CASE k # m + 1
        <4>1. k \in 1..m
          BY <2>1, <3>2
        <4>2. P[k - 1] + i \in 1..Len(a) /\ a[P[k - 1] + i] = ss[k][i]
          BY <1>5, <2>2, <2>3, <4>1
        <4>3. \A p \in 1..Len(a) : (a \o b)[p] = a[p] /\ p \in 1..Len(a) + Len(b)
          OBVIOUS
        <4> QED BY <2>3, <4>2, <4>3
      <3> QED BY <3>1, <3>2
    <2>6. Good(m + 1)
      BY <2>4, <2>5
    <2> HIDE DEF Good
    <2> QED BY <2>1, <2>6
  <1>6. n \in T
    <2> HIDE DEF T
    <2>1. 0..n \subseteq T
      BY <1>1, <1>4, <1>5, BoundedInduction
    <2>2. n \in 0..n
      BY <1>1
    <2> QED BY <2>1, <2>2
  <1>7. n \in 0..n
    BY <1>1
  <1> QED BY <1>3, <1>6, <1>7 DEF Flattened

\* Every place of the lists one after the other is a place of one of them.
LEMMA FlattenCovers ==
    ASSUME NEW E, NEW ss \in Seq(Seq(E)), NEW n, n = Len(ss),
           NEW w, \A k \in 1..n : w[k] = Len(ss[k]), NEW P, Sums(P, n, w),
           NEW p \in 1..Len(FlattenSeq(ss))
    PROVE  \E k \in 1..n : \E i \in 1..Len(ss[k]) :
              p = P[k - 1] + i /\ FlattenSeq(ss)[p] = ss[k][i]
  <1>1. n \in Nat /\ \A k \in 1..n : ss[k] \in Seq(E)
    OBVIOUS
  <1>2. P \in [0..n -> Nat] /\ \A k \in 1..n : P[k] = P[k - 1] + Len(ss[k])
    BY DEF Sums
  <1>3. Flattened(FlattenSeq(ss), ss, P, E)
    BY FlattenFacts
  <1>4. P[n] \in Nat /\ p \in Nat /\ 0 < p /\ p <= P[n]
    <2>1. n \in 0..n
      BY <1>1
    <2> QED BY <1>2, <1>3, <2>1 DEF Flattened
  <1>5. PICK k \in 1..n : P[k - 1] < p /\ p <= P[k]
    BY <1>1, <1>4, SumsLocate
  <1>6. P[k - 1] \in Nat /\ Len(ss[k]) \in Nat /\ P[k] = P[k - 1] + Len(ss[k])
    <2>1. k - 1 \in 0..n /\ ss[k] \in Seq(E)
      BY <1>1
    <2>2. Len(ss[k]) \in Nat
      BY ONLY <2>1
    <2> QED BY <1>2, <2>1, <2>2
  <1>7. PICK i \in 1..Len(ss[k]) : p = P[k - 1] + i
    <2>1. p - P[k - 1] \in 1..Len(ss[k]) /\ p = P[k - 1] + (p - P[k - 1])
      BY <1>4, <1>5, <1>6
    <2> QED BY <2>1
  <1> QED BY <1>3, <1>7 DEF Flattened

-----------------------------------------------------------------------------
(* How items are cut into frames                                           *)

\* The slices are xs up to end, cut at the places b: none is empty.
Sliced(slices, xs, b, end) ==
    /\ b \in [0..Len(slices) -> 0..Len(xs)]
    /\ b[0] = 0 /\ b[Len(slices)] = end
    /\ \A k \in 1..Len(slices) :
          b[k - 1] < b[k] /\ slices[k] = SubSeq(xs, b[k - 1] + 1, b[k])

\* The smaller of two numbers.
LEMMA MinOfTwo ==
    ASSUME NEW a \in Int, NEW b \in Int
    PROVE  Min({a, b}) = IF a <= b THEN a ELSE b
  <1>1. \E x \in {a, b} : \A y \in {a, b} : x <= y
    OBVIOUS
  <1>2. Min({a, b}) \in {a, b} /\ \A y \in {a, b} : Min({a, b}) <= y
    BY <1>1 DEF Min
  <1> QED BY <1>2

\* Division rounds down.
LEMMA DivFacts ==
    ASSUME NEW a \in Nat, NEW b \in Nat \ {0}
    PROVE  a \div b \in Nat /\ (a \div b) * b <= a /\ a < (a \div b) * b + b
  OBVIOUS

\* The larger of two numbers.
LEMMA MaxOfTwo ==
    ASSUME NEW a \in Int, NEW b \in Int
    PROVE  Max({a, b}) = IF a <= b THEN b ELSE a
  <1>1. \E x \in {a, b} : \A y \in {a, b} : x >= y
    OBVIOUS
  <1>2. Max({a, b}) \in {a, b} /\ \A y \in {a, b} : Max({a, b}) >= y
    BY <1>1 DEF Max
  <1> QED BY <1>2

\* A pass that adds the items up to a later place.
LEMMA SlicedExtend ==
    ASSUME NEW S, NEW xs \in Seq(S), NEW slices \in Seq(Seq(S)), NEW b, NEW end \in 0..Len(xs),
           Sliced(slices, xs, b, end), NEW to \in 0..Len(xs), end < to
    PROVE  \E c : Sliced(Append(slices, SubSeq(xs, end + 1, to)), xs, c, to)
  <1>0. Len(xs) \in Nat /\ Len(slices) \in Nat /\ SubSeq(xs, end + 1, to) \in Seq(S)
    <2>1. Len(xs) \in Nat /\ \A i \in 1..Len(xs) : xs[i] \in S
      OBVIOUS
    <2> QED BY <2>1
  <1>1. PICK m \in Nat, sl \in Seq(S) : m = Len(slices) /\ sl = SubSeq(xs, end + 1, to)
    BY ONLY <1>0
  <1>2. PICK more \in Seq(Seq(S)) : more = Append(slices, sl)
    BY AppendProperties
  <1>3. /\ Len(more) = m + 1 /\ more[m + 1] = sl
        /\ \A k \in 1..m : more[k] = slices[k]
    BY <1>1, <1>2
  <1> DEFINE c == [k \in 0..m + 1 |-> IF k = m + 1 THEN to ELSE b[k]]
  <1>4. b \in [0..m -> 0..Len(xs)] /\ b[0] = 0 /\ b[m] = end
    BY <1>1 DEF Sliced
  <1>5. c \in [0..m + 1 -> 0..Len(xs)] /\ c[0] = 0 /\ c[m + 1] = to
    BY <1>4
  <1>6. ASSUME NEW k \in 1..m + 1
        PROVE  c[k - 1] < c[k] /\ more[k] = SubSeq(xs, c[k - 1] + 1, c[k])
    <2>1. CASE k = m + 1
      <3>1. c[k - 1] = end /\ c[k] = to
        BY <1>4, <2>1
      <3> QED BY <1>1, <1>3, <2>1, <3>1
    <2>2. CASE k # m + 1
      <3>1. k \in 1..m /\ k - 1 \in 0..m /\ k - 1 # m + 1
        BY <2>2
      <3>2. c[k - 1] = b[k - 1] /\ c[k] = b[k]
        BY <2>2, <3>1
      <3> HIDE DEF c
      <3> QED BY <1>1, <1>3, <3>1, <3>2 DEF Sliced
    <2> QED BY <2>1, <2>2
  <1> HIDE DEF c
  <1>7. Sliced(more, xs, c, to)
    BY <1>3, <1>5, <1>6 DEF Sliced
  <1> QED BY <1>1, <1>2, <1>7

\* partition_by_u64 gives every item to one slice, in the order of the list, makes
\* no empty slice and no more slices than asked for.
THEOREM PartitionTiles ==
    ASSUME NEW S, NEW xs \in Seq(S), NEW n \in Nat, NEW weight, \A x \in S : weight[x] \in Nat
    PROVE  /\ partition_by_u64(xs, n, weight) \in Seq(Seq(S))
           /\ \E b : Sliced(partition_by_u64(xs, n, weight), xs, b, Len(xs))
           /\ Len(partition_by_u64(xs, n, weight)) <= Max({n, 1})
  <1>0. Len(xs) \in Nat /\ \A i \in 1..Len(xs) : xs[i] \in S
    OBVIOUS
  <1>1. CASE xs = <<>>
    <2>1. partition_by_u64(xs, n, weight) = <<>>
      BY <1>1 DEF partition_by_u64
    <2>2. <<>> \in Seq(Seq(S)) /\ Len(<<>>) = 0 /\ Len(xs) = 0
      BY <1>1
    <2>3. Sliced(<<>>, xs, [k \in 0..0 |-> 0], Len(xs))
      BY <2>2 DEF Sliced
    <2>4. 0 <= Max({n, 1})
      BY MaxOfTwo
    <2> QED BY <2>1, <2>2, <2>3, <2>4
  <1>2. CASE xs # <<>>
    <2> DEFINE parts == Max({Min({n, Len(xs)}), 1})
               bound == Total([i \in DOMAIN xs |-> weight[xs[i]]]) \div parts
               room(i) == {j \in i..Len(xs) :
                              Total([k \in i + 1..j |-> weight[xs[k]]]) <= bound}
               until(k, r) == IF k = parts THEN Len(xs) ELSE Max(room(r.end))
               turn(k, r) == [end |-> until(k, r),
                              slices |-> IF r.end = until(k, r) THEN r.slices
                                         ELSE Append(r.slices, SubSeq(xs, r.end + 1, until(k, r)))]
               V == [end : 0..Len(xs), slices : Seq(Seq(S))]
               first == [end |-> 0, slices |-> <<>>]
               Eq(p) == p = [k \in 0..parts |-> IF k = 0 THEN first ELSE turn(k, p[k - 1])]
    <2>1. partition_by_u64(xs, n, weight) = (CHOOSE p : Eq(p))[parts].slices
      BY <1>2 DEF partition_by_u64
    <2>2. parts \in Nat \ {0} /\ parts <= Max({n, 1})
      BY <1>0, MinOfTwo, MaxOfTwo
    <2>3. bound \in Nat
      <3>1. PICK w : w = [i \in DOMAIN xs |-> weight[xs[i]]]
        OBVIOUS
      <3>2. w \in [1..Len(xs) -> Nat]
        BY <1>0, <3>1
      <3>3. IsFiniteSet(1..Len(xs))
        BY ONLY <1>0, FS_Interval
      <3>4. Total(w) \in Nat
        BY <3>2, <3>3, TotalRemove
      <3> HIDE DEF parts
      <3> QED BY <2>2, <3>1, <3>4, DivFacts
    <2> HIDE DEF parts, bound
    <2>4. ASSUME NEW i \in 0..Len(xs)
          PROVE  Max(room(i)) \in i..Len(xs)
      <3>1. Total([k \in i + 1..i |-> weight[xs[k]]]) = 0
        <4>1. DOMAIN [k \in i + 1..i |-> weight[xs[k]]] = {}
          OBVIOUS
        <4> QED BY ONLY <4>1, TotalEmpty
      <3>2. i \in room(i)
        BY <1>0, <2>3, <3>1
      <3>3. room(i) \in SUBSET (0..Len(xs)) /\ room(i) # {}
        <4>1. i..Len(xs) \subseteq 0..Len(xs)
          BY ONLY <1>0, i \in 0..Len(xs)
        <4>2. room(i) \subseteq i..Len(xs)
          OBVIOUS
        <4> HIDE DEF room
        <4> QED BY <3>2, <4>1, <4>2
      <3>4. Max(room(i)) \in room(i)
        <4> HIDE DEF room
        <4> QED BY <1>0, <3>3, MaxPicks
      <3> QED BY <3>4
    <2> HIDE DEF room
    <2>5. ASSUME NEW k \in 1..parts, NEW r \in V
          PROVE  /\ until(k, r) \in r.end..Len(xs) /\ until(k, r) \in 0..Len(xs)
                 /\ turn(k, r) \in V
      <3>1. r.end \in 0..Len(xs) /\ r.slices \in Seq(Seq(S))
        OBVIOUS
      <3>2. until(k, r) \in r.end..Len(xs) /\ until(k, r) \in 0..Len(xs)
        BY <1>0, <2>4, <3>1
      <3>3. PICK to \in 0..Len(xs) : to = until(k, r)
        BY <3>2
      <3> HIDE DEF until
      <3>4. SubSeq(xs, r.end + 1, to) \in Seq(S)
        BY <1>0, <3>1
      <3>5. Append(r.slices, SubSeq(xs, r.end + 1, to)) \in Seq(Seq(S))
        BY <3>1, <3>4
      <3> QED BY <3>1, <3>2, <3>3, <3>5
    <2>6. Eq(CHOOSE p : Eq(p))
      <3> DEFINE step == [k \in 1..parts |-> [r \in V |-> turn(k, r)]]
      <3>1. step \in Steps(parts, V) /\ first \in V
        <4>1. first \in V
          BY <1>0
        <4> HIDE DEF V, turn, first
        <4> QED BY <2>5, <4>1 DEF Steps
      <3>2. PICK p : Computes(p, parts, V, first, step)
        <4> HIDE DEF step, V, first
        <4> QED BY <2>2, <3>1, Recursion
      <3>3. ASSUME NEW k \in 0..parts
            PROVE  p[k] = IF k = 0 THEN first ELSE turn(k, p[k - 1])
        <4> HIDE DEF V, turn, first
        <4>1. CASE k = 0
          BY <3>2, <4>1 DEF Computes
        <4>2. CASE k # 0
          <5>1. k \in 1..parts /\ k - 1 \in 0..parts
            BY <2>2, <4>2
          <5>2. p[k] = step[k][p[k - 1]] /\ p[k - 1] \in V
            BY <3>2, <5>1 DEF Computes
          <5> QED BY <4>2, <5>1, <5>2
        <4> QED BY <4>1, <4>2
      <3>4. Eq(p)
        <4> HIDE DEF V, turn, first, step
        <4>1. p \in [0..parts -> V]
          BY <3>2 DEF Computes
        <4> QED BY <3>3, <4>1
      <3> HIDE DEF Eq
      <3> QED BY <3>4
    <2>7. PICK p : Eq(p) /\ partition_by_u64(xs, n, weight) = p[parts].slices
      <3> HIDE DEF Eq
      <3> QED BY <2>1, <2>6
    <2> DEFINE Good(k) == /\ p[k] \in V /\ Len(p[k].slices) <= k
                          /\ \E b : Sliced(p[k].slices, xs, b, p[k].end)
               T == {k \in 0..parts : Good(k)}
    <2>8. 0 \in T
      <3>1. p[0] = first /\ 0 \in 0..parts
        BY <2>2, <2>7
      <3>2. first \in V /\ first.slices = <<>> /\ first.end = 0 /\ Len(<<>>) = 0
        BY <1>0
      <3>3. Sliced(<<>>, xs, [k \in 0..0 |-> 0], 0)
        BY <1>0 DEF Sliced
      <3> HIDE DEF V, first, Eq
      <3> QED BY <3>1, <3>2, <3>3
    <2>9. ASSUME NEW k \in 0..parts - 1, k \in T PROVE k + 1 \in T
      <3>1. k + 1 \in 1..parts /\ k + 1 \in 0..parts /\ (k + 1) - 1 = k /\ k + 1 # 0 /\ k \in Nat
        BY <2>2
      <3>2. PICK r \in V : r = p[k]
        BY <2>9
      <3>3. p[k + 1] = turn(k + 1, r)
        <4> HIDE DEF turn, V
        <4> QED BY <2>7, <3>1, <3>2
      <3>4. /\ r.end \in 0..Len(xs) /\ r.slices \in Seq(Seq(S)) /\ Len(r.slices) <= k
            /\ Len(r.slices) \in Nat
        BY <2>9, <3>2
      <3>5. PICK b : Sliced(r.slices, xs, b, r.end)
        BY <2>9, <3>2
      <3>6. PICK to \in 0..Len(xs) : to = until(k + 1, r) /\ to \in r.end..Len(xs)
        BY <2>5, <3>1
      <3>7. turn(k + 1, r) \in V
        BY <2>5, <3>1
      <3>8. CASE r.end = to
        <4>1. p[k + 1].slices = r.slices /\ p[k + 1].end = r.end
          BY <3>3, <3>6, <3>8
        <4> HIDE DEF turn, V, Eq, until
        <4>2. Len(p[k + 1].slices) <= k + 1
          BY <3>1, <3>4, <4>1
        <4> QED BY <3>1, <3>3, <3>5, <3>7, <4>1, <4>2
      <3>9. CASE r.end # to
        <4>1. PICK more : more = Append(r.slices, SubSeq(xs, r.end + 1, to))
          OBVIOUS
        <4>2. p[k + 1].slices = more /\ p[k + 1].end = to
          <5> HIDE DEF until, V, Eq
          <5>1. turn(k + 1, r) = [end |-> to, slices |-> more]
            BY ONLY <3>6, <3>9, <4>1
          <5> QED BY ONLY <3>3, <5>1
        <4>3. r.end < to
          BY <1>0, <3>4, <3>6, <3>9
        <4> HIDE DEF turn, V, Eq, until
        <4>4. \E c : Sliced(more, xs, c, to)
          BY <3>4, <3>5, <4>1, <4>3, SlicedExtend
        <4>5. Len(more) <= k + 1
          <5>1. SubSeq(xs, r.end + 1, to) \in Seq(S)
            BY <1>0, <3>4
          <5>2. Len(more) = Len(r.slices) + 1
            BY <3>4, <4>1, <5>1
          <5> QED BY <3>1, <3>4, <5>2
        <4> QED BY <3>1, <3>3, <3>7, <4>2, <4>4, <4>5
      <3> QED BY <3>8, <3>9
    <2>10. parts \in T
      <3> HIDE DEF T
      <3>1. 0..parts \subseteq T
        BY <2>2, <2>8, <2>9, BoundedInduction
      <3>2. parts \in 0..parts
        BY <2>2
      <3> QED BY <3>1, <3>2
    <2>11. p[parts].end = Len(xs)
      <3>1. parts \in 0..parts /\ parts # 0
        BY <2>2
      <3>2. p[parts] = turn(parts, p[parts - 1])
        <4> HIDE DEF turn
        <4> QED BY <2>7, <3>1
      <3> QED BY <3>2
    <2>12. p[parts].slices \in Seq(Seq(S)) /\ Len(p[parts].slices) \in Nat
      BY <2>10
    <2>13. Max({n, 1}) \in Nat
      BY MaxOfTwo
    <2>14. Len(p[parts].slices) <= Max({n, 1})
      <3> HIDE DEF V, Eq
      <3> QED BY <2>2, <2>10, <2>12, <2>13
    <2> HIDE DEF V, Eq
    <2> QED BY SMTT(30), <2>7, <2>10, <2>11, <2>12, <2>14
  <1> QED BY <1>1, <1>2

-----------------------------------------------------------------------------
(* How tasks are dealt out                                                 *)

\* The number of tasks in a group, but for the last one.
PerThread(nthread, n) == IF nthread > n THEN 1 ELSE n \div nthread

\* The place in the list of the k-th task of group g.
Place(per, g, k) == (g - 1) * per + k

\* The groups end where the tasks do, and there are fewer than twice the threads
\* asked for.
LEMMA GroupFacts ==
    ASSUME NEW n \in Nat \ {0}, NEW nthread \in Nat \ {0}, NEW per, NEW groups,
           per = PerThread(nthread, n), groups = (n + per - 1) \div per
    PROVE  /\ per \in Nat \ {0} /\ groups \in Nat \ {0}
           /\ (groups - 1) * per < n /\ n <= groups * per
           /\ groups < 2 * nthread
  <1>1. per \in Nat \ {0}
    <2>1. CASE nthread > n
      BY <2>1 DEF PerThread
    <2>2. CASE nthread <= n
      <3>1. per = n \div nthread
        BY <2>2 DEF PerThread
      <3>2. per \in Nat /\ n < per * nthread + nthread
        BY <3>1, DivFacts
      <3>3. per = 0 => per * nthread = 0
        OBVIOUS
      <3> QED BY <2>2, <3>2, <3>3
    <2> QED BY <2>1, <2>2
  <1>2. groups \in Nat /\ groups * per <= n + per - 1 /\ n + per - 1 < groups * per + per
    BY SMTT(30), <1>1, DivFacts
  <1>3. (groups - 1) * per = groups * per - per
    BY <1>1, <1>2
  <1>4. groups # 0
    <2>1. groups = 0 => groups * per = 0
      BY <1>1
    <2> QED BY <1>1, <1>2, <2>1
  <1>5. (groups - 1) * per < n /\ n <= groups * per
    <2>1. groups * per \in Int
      BY <1>1, <1>2
    <2> QED BY <1>1, <1>2, <1>3, <2>1
  <1>6. groups < 2 * nthread
    <2>1. CASE nthread > n
      <3>1. per = 1
        BY <2>1 DEF PerThread
      <3> QED BY <1>2, <2>1, <3>1
    <2>2. CASE nthread <= n
      <3>1. n < per * nthread + nthread
        BY <2>2, DivFacts DEF PerThread
      <3>2. SUFFICES ASSUME groups >= 2 * nthread PROVE FALSE
        BY <1>2
      <3>3. (groups - 1) * per >= (2 * nthread - 1) * per
        BY <1>1, <1>2, <3>2
      <3>4. (2 * nthread - 1) * per = 2 * (per * nthread) - per
        BY <1>1
      <3>5. (nthread - 1) * (per - 1) >= 0
        BY <1>1
      <3>6. (nthread - 1) * (per - 1) = per * nthread - per - nthread + 1
        BY <1>1
      <3>7. per * nthread \in Int /\ (groups - 1) * per \in Int
        BY <1>1, <1>2
      <3>8. n > 2 * (per * nthread) - per
        BY <1>1, <1>5, <3>3, <3>4, <3>7
      <3> QED BY <1>1, <3>1, <3>5, <3>6, <3>7, <3>8
    <2> QED BY <2>1, <2>2
  <1> QED BY <1>1, <1>2, <1>4, <1>5, <1>6

\* The number of tasks of group g.
GroupSize(per, n, g) == IF g * per <= n THEN per ELSE n - (g - 1) * per

\* Tasks are dealt out in groups: how many there are, where each begins and ends,
\* and that it has the tasks between.
DealtOut(threads, S, tasks, nthread, per, groups) ==
    /\ per \in Nat \ {0} /\ groups \in Nat \ {0}
    /\ (groups - 1) * per < Len(tasks) /\ Len(tasks) <= groups * per
    /\ groups < 2 * nthread
    /\ threads = [g \in 1..groups |-> [todo |-> threads[g].todo, done |-> <<>>]]
    /\ \A g \in 1..groups :
          /\ (g - 1) * per \in Nat /\ g * per \in Nat
          /\ g * per = (g - 1) * per + per
          /\ (g - 1) * per < Len(tasks)
          /\ GroupSize(per, Len(tasks), g) \in 1..per
          /\ (g - 1) * per + GroupSize(per, Len(tasks), g) <= Len(tasks)
    /\ \A g \in 1..groups :
          /\ threads[g].todo \in Seq(S)
          /\ Len(threads[g].todo) = GroupSize(per, Len(tasks), g)
          /\ \A k \in 1..GroupSize(per, Len(tasks), g) :
                threads[g].todo[k] = tasks[(g - 1) * per + k]

\* So run_in_parallel deals them out.
LEMMA SpawnShape ==
    ASSUME NEW S, NEW tasks \in Seq(S), tasks # <<>>, NEW nthread \in Nat \ {0}
    PROVE  \E groups : DealtOut(Spawn(nthread, tasks), S, tasks, nthread,
                                PerThread(nthread, Len(tasks)), groups)
  <1> DEFINE n == Len(tasks)
             per == PerThread(nthread, n)
             groups == (n + per - 1) \div per
             todo(g) == SubSeq(tasks, (g - 1) * per + 1, Min({g * per, n}))
  <1>1. Spawn(nthread, tasks) = [g \in 1..groups |-> [todo |-> todo(g), done |-> <<>>]]
    BY DEF Spawn, PerThread
  <1>2. n \in Nat \ {0}
    OBVIOUS
  <1> HIDE DEF n
  <1>3. /\ per \in Nat \ {0} /\ groups \in Nat \ {0}
        /\ (groups - 1) * per < n /\ n <= groups * per
        /\ groups < 2 * nthread
    BY <1>2, GroupFacts
  <1> HIDE DEF per, groups
  \* Where a group begins and ends.
  <1>4. ASSUME NEW g \in 1..groups
        PROVE  /\ (g - 1) * per \in Nat /\ g * per \in Nat
               /\ g * per = (g - 1) * per + per
               /\ (g - 1) * per < n
    <2>1. (g - 1) * per <= (groups - 1) * per
      BY <1>3
    <2>2. (g - 1) * per \in Nat /\ g * per \in Nat /\ (groups - 1) * per \in Int
      BY <1>3
    <2>3. g * per = (g - 1) * per + per
      BY <1>3
    <2> QED BY <1>2, <1>3, <2>1, <2>2, <2>3
  <1>5. ASSUME NEW g \in 1..groups
        PROVE  /\ Len(todo(g)) = GroupSize(per, n, g) /\ GroupSize(per, n, g) \in 1..per
               /\ (g - 1) * per + GroupSize(per, n, g) <= n
               /\ todo(g) \in Seq(S)
               /\ \A k \in 1..GroupSize(per, n, g) : todo(g)[k] = tasks[(g - 1) * per + k]
    <2>1. Min({g * per, n}) = (g - 1) * per + GroupSize(per, n, g)
      BY <1>2, <1>4, MinOfTwo DEF GroupSize
    <2>2. GroupSize(per, n, g) \in 1..per /\ (g - 1) * per + GroupSize(per, n, g) <= n
      BY <1>2, <1>3, <1>4 DEF GroupSize
    <2> DEFINE b == (g - 1) * per
               z == GroupSize(per, n, g)
    <2>3. todo(g) = SubSeq(tasks, b + 1, b + z)
      BY <2>1
    <2> HIDE DEF todo
    <2>4. b \in Nat /\ z \in Nat \ {0} /\ b + z <= Len(tasks)
      <3>1. b \in Nat
        BY <1>4
      <3>2. b + z <= n /\ z \in 1..per
        BY <2>2
      <3> HIDE DEF b, z
      <3> QED BY <1>3, <3>1, <3>2 DEF n
    <2> HIDE DEF b, z
    <2>5. /\ SubSeq(tasks, b + 1, b + z) \in Seq(S) /\ Len(SubSeq(tasks, b + 1, b + z)) = z
          /\ \A k \in 1..z : SubSeq(tasks, b + 1, b + z)[k] = tasks[b + k]
      BY <2>4
    <2>6. Len(todo(g)) = z /\ todo(g) \in Seq(S) /\ \A k \in 1..z : todo(g)[k] = tasks[b + k]
      BY <2>3, <2>5
    <2> QED BY <2>2, <2>6 DEF b, z
  <1> HIDE DEF todo
  <1>6. PICK threads : threads = Spawn(nthread, tasks)
    OBVIOUS
  <1>7. \A g \in 1..groups : threads[g] = [todo |-> todo(g), done |-> <<>>] /\ threads[g].todo = todo(g)
    BY <1>1, <1>6
  <1>8. threads = [g \in 1..groups |-> [todo |-> threads[g].todo, done |-> <<>>]]
    BY <1>1, <1>6, <1>7
  <1>9. DealtOut(threads, S, tasks, nthread, per, groups)
    BY ZenonT(40), <1>3, <1>4, <1>5, <1>7, <1>8 DEF DealtOut, n
  <1> QED BY <1>6, <1>9 DEF per, n

\* run_in_parallel gives every task to one thread: the tasks of a group are
\* consecutive, each place of the list is in one group, groups follow each other in
\* the order of the list, and no thread is idle.  There may be more threads than
\* asked for, but fewer than twice as many.
THEOREM SpawnTiles ==
    ASSUME NEW S, NEW tasks \in Seq(S), tasks # <<>>, NEW nthread \in Nat \ {0}
    PROVE  LET threads == Spawn(nthread, tasks)
               per == PerThread(nthread, Len(tasks))
           IN  /\ Len(threads) < 2 * nthread
               /\ \A g \in DOMAIN threads :
                     /\ threads[g].todo # <<>> /\ threads[g].done = <<>>
                     /\ \A k \in DOMAIN threads[g].todo :
                           /\ Place(per, g, k) \in DOMAIN tasks
                           /\ threads[g].todo[k] = tasks[Place(per, g, k)]
               /\ \A i \in DOMAIN tasks :
                     \E g \in DOMAIN threads : \E k \in DOMAIN threads[g].todo :
                        Place(per, g, k) = i
               /\ \A g, h \in DOMAIN threads : g < h =>
                     \A k \in DOMAIN threads[g].todo, l \in DOMAIN threads[h].todo :
                        Place(per, g, k) < Place(per, h, l)
  <1>1. PICK n, per, threads : /\ n = Len(tasks) /\ per = PerThread(nthread, n)
                               /\ threads = Spawn(nthread, tasks)
    OBVIOUS
  <1>2. PICK groups : DealtOut(threads, S, tasks, nthread, per, groups)
    BY <1>1, SpawnShape
  <1> DEFINE todo(g) == threads[g].todo
             size(g) == GroupSize(per, n, g)
  <1>3. /\ per \in Nat \ {0} /\ groups \in Nat \ {0} /\ n \in Nat
        /\ (groups - 1) * per < n /\ n <= groups * per
        /\ groups < 2 * nthread
    BY <1>1, <1>2 DEF DealtOut
  <1>4. ASSUME NEW g \in 1..groups
        PROVE  /\ (g - 1) * per \in Nat /\ g * per \in Nat
               /\ g * per = (g - 1) * per + per
               /\ (g - 1) * per < n
               /\ size(g) \in 1..per
               /\ (g - 1) * per + size(g) <= n
    BY <1>1, <1>2 DEF DealtOut
  <1>5. ASSUME NEW g \in 1..groups
        PROVE  /\ Len(todo(g)) = size(g) /\ todo(g) \in Seq(S)
               /\ \A k \in 1..size(g) : todo(g)[k] = tasks[(g - 1) * per + k]
    BY <1>1, <1>2 DEF DealtOut
  <1>6. ASSUME NEW g \in 1..groups
        PROVE  DOMAIN todo(g) = 1..size(g) /\ todo(g) # <<>>
    <2> HIDE DEF todo, size
    <2> QED BY <1>4, <1>5
  <1>7. /\ DOMAIN threads = 1..groups /\ Len(threads) = groups
        /\ \A g \in 1..groups : threads[g].todo = todo(g) /\ threads[g].done = <<>>
    BY <1>2, <1>3 DEF DealtOut
  <1> HIDE DEF todo, size
  \* Groups follow each other.
  <1>8. ASSUME NEW g \in 1..groups, NEW h \in 1..groups, g < h,
               NEW k \in 1..size(g), NEW l \in 1..size(h)
        PROVE  Place(per, g, k) < Place(per, h, l)
    <2>1. g * per <= (h - 1) * per
      BY <1>3, <1>8
    <2>2. k <= per /\ k \in Nat /\ l \in Nat /\ l >= 1
      BY SMTT(30), <1>3, <1>4
    <2>3. PICK a, b, c \in Nat : a = (g - 1) * per /\ b = g * per /\ c = (h - 1) * per
      BY <1>4
    <2>4. b = a + per /\ b <= c
      BY <1>4, <2>1, <2>3
    <2>5. a + k < c + l
      BY ONLY <1>3, <2>2, <2>3, <2>4
    <2> QED BY <2>3, <2>5 DEF Place
  \* Every place is in a group.
  <1>9. ASSUME NEW i \in 1..n
        PROVE  \E g \in 1..groups : \E k \in 1..size(g) : Place(per, g, k) = i
    <2> DEFINE q == (i - 1) \div per
    <2>1. q \in Nat /\ q * per <= i - 1 /\ i - 1 < q * per + per
      BY <1>2, <1>3, DivFacts
    <2> HIDE DEF q
    <2>2. q * per \in Nat /\ (q + 1) * per = q * per + per
      BY <1>3, <2>1
    <2>3. q < groups
      <3>1. q >= groups => q * per >= groups * per
        BY <1>3, <2>1
      <3>2. groups * per \in Int
        BY <1>3
      <3> QED BY <1>2, <1>3, <2>1, <2>2, <3>1, <3>2
    <2>4. q + 1 \in 1..groups /\ (q + 1) - 1 = q
      BY <1>3, <2>1, <2>3
    <2>5. i - q * per \in 1..size(q + 1)
      BY <1>2, <1>3, <2>1, <2>2, <2>4 DEF size, GroupSize
    <2>6. Place(per, q + 1, i - q * per) = i
      BY <1>2, <2>2, <2>4 DEF Place
    <2> QED BY <2>4, <2>5, <2>6
  <1>10. DOMAIN tasks = 1..n
    BY <1>1
  <1>11. ASSUME NEW g \in DOMAIN threads, NEW k \in DOMAIN threads[g].todo
         PROVE  /\ Place(per, g, k) \in DOMAIN tasks
                /\ threads[g].todo[k] = tasks[Place(per, g, k)]
    <2>1. g \in 1..groups /\ threads[g].todo = todo(g) /\ k \in 1..size(g)
      BY <1>6, <1>7, <1>11
    <2> DEFINE b == (g - 1) * per
    <2>2. b \in Nat /\ size(g) \in 1..per /\ b + size(g) <= n /\ Place(per, g, k) = b + k
      BY <1>4, <2>1 DEF Place
    <2> HIDE DEF b
    <2>3. Place(per, g, k) \in 1..n
      BY <1>2, <1>3, <2>1, <2>2
    <2>4. todo(g)[k] = tasks[Place(per, g, k)]
      BY <1>5, <2>1 DEF Place
    <2> QED BY <1>10, <2>1, <2>3, <2>4
  <1>12. \A g \in DOMAIN threads : /\ threads[g].todo # <<>> /\ threads[g].done = <<>>
                                   /\ DOMAIN threads[g].todo = 1..size(g)
    BY <1>6, <1>7
  <1>13. Len(threads) < 2 * nthread
    BY <1>3, <1>7
  <1>14. \A g \in DOMAIN threads :
            /\ threads[g].todo # <<>> /\ threads[g].done = <<>>
            /\ \A k \in DOMAIN threads[g].todo :
                  /\ Place(per, g, k) \in DOMAIN tasks
                  /\ threads[g].todo[k] = tasks[Place(per, g, k)]
    BY <1>11, <1>12
  <1>15. \A i \in DOMAIN tasks :
            \E g \in DOMAIN threads : \E k \in DOMAIN threads[g].todo : Place(per, g, k) = i
    BY <1>9, <1>7, <1>10, <1>12
  <1>16. \A g, h \in DOMAIN threads : g < h =>
            \A k \in DOMAIN threads[g].todo, l \in DOMAIN threads[h].todo :
               Place(per, g, k) < Place(per, h, l)
    BY <1>8, <1>7, <1>12
  <1> QED BY <1>1, <1>13, <1>14, <1>15, <1>16

-----------------------------------------------------------------------------
(* What the threads have done, in any interleaving                         *)

\* The tasks as they were dealt out: those of a thread begin where those of the
\* threads before it end.
Deal(dealt, P, tasks, S) ==
    /\ dealt \in Seq(Seq(S)) /\ tasks \in Seq(S)
    /\ Sums(P, Len(dealt), [g \in 1..Len(dealt) |-> Len(dealt[g])])
    /\ P[Len(dealt)] = Len(tasks)
    /\ \A g \in 1..Len(dealt) : \A k \in 1..Len(dealt[g]) : tasks[P[g - 1] + k] = dealt[g][k]

\* R relates tasks to results.
Results(R) == {r[2] : r \in R}

\* A thread has run the first tasks of its list and has a result for each.
HasRun(th, list, R) ==
    \E m \in 0..Len(list) :
       /\ th = [todo |-> SubSeq(list, m + 1, Len(list)), done |-> th.done]
       /\ th.done \in Seq(Results(R)) /\ Len(th.done) = m
       /\ \A k \in 1..m : <<list[k], th.done[k]>> \in R

\* The invariant of threads that run tasks, with results that R allows.
Progress(threads, tasks, S, R) ==
    \E dealt, P :
       /\ Deal(dealt, P, tasks, S)
       /\ threads = [g \in 1..Len(dealt) |-> threads[g]]
       /\ \A g \in 1..Len(dealt) : HasRun(threads[g], dealt[g], R)

\* Without tasks there are no threads.
LEMMA ProgressNone ==
    ASSUME NEW S, NEW R PROVE Progress(<<>>, <<>>, S, R)
  <1> DEFINE P == [g \in 0..0 |-> 0]
  <1>1. <<>> \in Seq(Seq(S)) /\ <<>> \in Seq(S) /\ Len(<<>>) = 0
    OBVIOUS
  <1>2. Sums(P, Len(<<>>), [g \in 1..Len(<<>>) |-> Len(<<>>[g])]) /\ P[Len(<<>>)] = Len(<<>>)
    BY <1>1 DEF Sums
  <1> HIDE DEF P
  <1>3. Deal(<<>>, P, <<>>, S)
    BY <1>1, <1>2 DEF Deal
  <1>4. <<>> = [g \in 1..Len(<<>>) |-> <<>>[g]]
    OBVIOUS
  <1> QED BY <1>1, <1>3, <1>4 DEF Progress

\* It holds when the threads are spawned.
LEMMA ProgressSpawn ==
    ASSUME NEW S, NEW tasks \in Seq(S), tasks # <<>>, NEW nthread \in Nat \ {0}, NEW R
    PROVE  Progress(Spawn(nthread, tasks), tasks, S, R)
  <1>1. PICK n, per, threads : /\ n = Len(tasks) /\ per = PerThread(nthread, n)
                               /\ threads = Spawn(nthread, tasks)
    OBVIOUS
  <1>2. PICK groups : DealtOut(threads, S, tasks, nthread, per, groups)
    BY <1>1, SpawnShape
  <1>3. /\ per \in Nat \ {0} /\ groups \in Nat \ {0} /\ n \in Nat
        /\ (groups - 1) * per < n /\ n <= groups * per
        /\ threads = [g \in 1..groups |-> [todo |-> threads[g].todo, done |-> <<>>]]
    BY <1>1, <1>2 DEF DealtOut
  <1>4. \A g \in 1..groups :
           /\ (g - 1) * per \in Nat /\ g * per \in Nat
           /\ g * per = (g - 1) * per + per
           /\ (g - 1) * per < n
    BY <1>1, <1>2 DEF DealtOut
  <1>5. \A g \in 1..groups :
           /\ Len(threads[g].todo) = GroupSize(per, n, g) /\ threads[g].todo \in Seq(S)
           /\ \A k \in 1..GroupSize(per, n, g) : threads[g].todo[k] = tasks[(g - 1) * per + k]
    BY <1>1, <1>2 DEF DealtOut
  <1> DEFINE dealt == [g \in 1..groups |-> threads[g].todo]
             w == [g \in 1..groups |-> Len(dealt[g])]
             P == [g \in 0..groups |-> IF g * per <= n THEN g * per ELSE n]
  <1>6. dealt \in Seq(Seq(S)) /\ Len(dealt) = groups
    <2>1. dealt \in [1..groups -> Seq(S)]
      BY <1>5
    <2> HIDE DEF dealt
    <2> QED BY ONLY <1>3, <2>1, ListOf
  <1>7. \A g \in 0..groups : g * per \in Nat
    <2>1. 0 * per = 0
      BY <1>3
    <2>2. ASSUME NEW g \in 0..groups PROVE g = 0 \/ g \in 1..groups
      BY <1>3
    <2> QED BY <1>4, <2>1, <2>2
  <1>8. P \in [0..groups -> Nat]
    BY <1>3, <1>7
  <1>9. P[0] = 0 /\ P[groups] = n
    <2>1. 0 * per = 0 /\ 0 \in 0..groups /\ groups \in 0..groups
      BY <1>3
    <2>2. groups * per <= n => groups * per = n
      BY <1>3, <1>7, <2>1
    <2> QED BY <1>3, <2>1, <2>2
  <1>10. ASSUME NEW g \in 1..groups PROVE P[g - 1] = (g - 1) * per /\ P[g] = P[g - 1] + w[g]
    <2>1. g - 1 \in 0..groups /\ g \in 0..groups
      BY <1>3
    <2>2. P[g - 1] = (g - 1) * per
      BY SMTT(30), <1>3, <1>4, <2>1
    <2>3. w[g] = GroupSize(per, n, g)
      BY <1>5
    <2>4. P[g] = IF g * per <= n THEN g * per ELSE n
      BY <2>1
    <2> HIDE DEF P, w
    <2>5. PICK a, b \in Nat : a = (g - 1) * per /\ b = g * per /\ b = a + per
      BY <1>4
    <2>6. w[g] = IF b <= n THEN per ELSE n - a
      BY <2>3, <2>5 DEF GroupSize
    <2> QED BY <1>3, <2>2, <2>4, <2>5, <2>6
  <1>11. Sums(P, Len(dealt), [g \in 1..Len(dealt) |-> Len(dealt[g])])
    <2>1. Sums(P, groups, w)
      <3> HIDE DEF P, w
      <3> QED BY <1>8, <1>9, <1>10 DEF Sums
    <2> HIDE DEF P
    <2> QED BY <1>6, <2>1
  <1>12. ASSUME NEW g \in 1..groups, NEW k \in 1..Len(dealt[g])
         PROVE  tasks[P[g - 1] + k] = dealt[g][k]
    <2> HIDE DEF P
    <2> QED BY <1>5, <1>10
  <1>13. Deal(dealt, P, tasks, S)
    <2> HIDE DEF P, dealt
    <2> QED BY <1>1, <1>6, <1>9, <1>11, <1>12 DEF Deal
  <1>14. ASSUME NEW g \in 1..Len(dealt) PROVE HasRun(threads[g], dealt[g], R)
    <2>1. g \in 1..groups
      BY <1>6
    <2>2. PICK list \in Seq(S) : list = dealt[g] /\ list = threads[g].todo
      BY <1>5, <2>1
    <2>3. threads[g] = [todo |-> list, done |-> <<>>]
      BY <1>3, <2>1, <2>2
    <2>4. SubSeq(list, 0 + 1, Len(list)) = list /\ 0 \in 0..Len(list)
      OBVIOUS
    <2>5. <<>> \in Seq(Results(R)) /\ Len(<<>>) = 0 /\ threads[g].done = <<>>
      BY <2>3
    <2> HIDE DEF dealt
    <2>6. HasRun(threads[g], list, R)
      <3>1. \A k \in 1..0 : <<list[k], threads[g].done[k]>> \in R
        OBVIOUS
      <3>2. /\ threads[g] = [todo |-> SubSeq(list, 0 + 1, Len(list)), done |-> threads[g].done]
            /\ threads[g].done \in Seq(Results(R)) /\ Len(threads[g].done) = 0
        BY <2>3, <2>4, <2>5
      <3> QED BY ONLY <2>4, <3>1, <3>2 DEF HasRun
    <2> QED BY <2>2, <2>6
  <1>15. threads = [g \in 1..Len(dealt) |-> threads[g]]
    BY <1>3, <1>6
  <1> HIDE DEF dealt, P
  <1> QED BY <1>1, <1>13, <1>14, <1>15 DEF Progress

\* A thread runs its next task.
LEMMA HasRunStep ==
    ASSUME NEW S, NEW list \in Seq(S), NEW R, NEW th, HasRun(th, list, R), th.todo # <<>>
    PROVE  /\ \E k \in 1..Len(list) : Head(th.todo) = list[k]
           /\ \A res : <<Head(th.todo), res>> \in R =>
                 HasRun([todo |-> Tail(th.todo), done |-> Append(th.done, res)], list, R)
  <1>1. PICK m \in 0..Len(list) :
           /\ th = [todo |-> SubSeq(list, m + 1, Len(list)), done |-> th.done]
           /\ th.done \in Seq(Results(R)) /\ Len(th.done) = m
           /\ \A k \in 1..m : <<list[k], th.done[k]>> \in R
    BY DEF HasRun
  <1>2. th.todo = SubSeq(list, m + 1, Len(list)) /\ Len(list) \in Nat /\ m \in Nat
    BY <1>1
  <1>3. m < Len(list)
    <2>1. m = Len(list) => SubSeq(list, m + 1, Len(list)) = <<>>
      BY <1>2
    <2> QED BY <1>2, <2>1
  <1>4. /\ m + 1 \in 1..Len(list) /\ Head(th.todo) = list[m + 1]
        /\ Tail(th.todo) = SubSeq(list, m + 1 + 1, Len(list))
    BY <1>2, <1>3
  <1>5. ASSUME NEW res, <<Head(th.todo), res>> \in R
        PROVE  HasRun([todo |-> Tail(th.todo), done |-> Append(th.done, res)], list, R)
    <2>1. res \in Results(R)
      BY <1>5 DEF Results
    <2>2. PICK done \in Seq(Results(R)) : done = Append(th.done, res)
      <3>1. th.done \in Seq(Results(R))
        BY <1>1
      <3> QED BY ONLY <2>1, <3>1, AppendProperties
    <2>3. Len(done) = m + 1 /\ done[m + 1] = res /\ \A k \in 1..m : done[k] = th.done[k]
      BY <1>1, <2>1, <2>2
    <2>4. ASSUME NEW k \in 1..m + 1 PROVE <<list[k], done[k]>> \in R
      <3>1. CASE k = m + 1
        BY <1>4, <1>5, <2>3, <3>1
      <3>2. CASE k # m + 1
        <4>1. k \in 1..m
          BY ONLY <1>2, <3>2, k \in 1..m + 1
        <4> QED BY <1>1, <2>3, <4>1
      <3> QED BY <3>1, <3>2
    <2>5. m + 1 \in 0..Len(list)
      BY <1>2, <1>3
    <2>6. PICK new : new = [todo |-> SubSeq(list, m + 1 + 1, Len(list)), done |-> done]
      OBVIOUS
    <2>7. new = [todo |-> SubSeq(list, m + 1 + 1, Len(list)), done |-> new.done] /\ new.done = done
      BY <2>6
    <2>8. HasRun(new, list, R)
      BY <2>3, <2>4, <2>5, <2>7 DEF HasRun
    <2> QED BY <1>4, <2>2, <2>6, <2>8
  <1> QED BY <1>4, <1>5

\* The next task of a thread is one of the list, and running it keeps the
\* invariant.
LEMMA ProgressRan ==
    ASSUME NEW S, NEW tasks, NEW R, NEW threads, Progress(threads, tasks, S, R),
           NEW g \in DOMAIN threads, threads[g].todo # <<>>
    PROVE  /\ \E i \in 1..Len(tasks) : Head(threads[g].todo) = tasks[i]
           /\ \A res : <<Head(threads[g].todo), res>> \in R =>
                 Progress(Ran(threads, g, res), tasks, S, R)
  <1>1. PICK dealt, P :
           /\ Deal(dealt, P, tasks, S)
           /\ threads = [h \in 1..Len(dealt) |-> threads[h]]
           /\ \A h \in 1..Len(dealt) : HasRun(threads[h], dealt[h], R)
    BY DEF Progress
  <1>2. PICK G \in Nat : G = Len(dealt) /\ g \in 1..G /\ DOMAIN threads = 1..G
    <2>1. Len(dealt) \in Nat
      BY <1>1 DEF Deal
    <2>2. DOMAIN threads = 1..Len(dealt)
      BY <1>1
    <2> QED BY <2>1, <2>2
  <1>3. PICK list, th : /\ list \in Seq(S) /\ list = dealt[g]
                      /\ th = threads[g] /\ HasRun(th, list, R)
    BY <1>1, <1>2 DEF Deal
  <1>4. /\ \E k \in 1..Len(list) : Head(th.todo) = list[k]
        /\ \A res : <<Head(th.todo), res>> \in R =>
              HasRun([todo |-> Tail(th.todo), done |-> Append(th.done, res)], list, R)
    BY <1>3, HasRunStep
  <1>5. \E i \in 1..Len(tasks) : Head(th.todo) = tasks[i]
    <2>1. PICK k \in 1..Len(list) : Head(th.todo) = list[k]
      BY <1>4
    <2>2. PICK w : w = [h \in 1..G |-> Len(dealt[h])]
      OBVIOUS
    <2>3. Sums(P, G, w) /\ P[G] = Len(tasks) /\ tasks[P[g - 1] + k] = list[k]
      BY <1>1, <1>2, <1>3, <2>2 DEF Deal
    <2>4. P[g - 1] \in Nat /\ P[g] = P[g - 1] + Len(list) /\ P[g] \in Nat /\ P[G] \in Nat
      BY <1>2, <1>3, <2>2, <2>3 DEF Sums
    <2>5. Weighs(w, 1..G)
      BY <1>1, <1>2, <2>2 DEF Weighs, Deal
    <2>6. g \in 0..G /\ G \in 0..G /\ g <= G
      BY <1>2
    <2>7. P[g] <= P[G]
      BY <2>3, <2>5, <2>6, SumsMonotone
    <2>8. P[g - 1] + k \in 1..P[G]
      BY <2>4, <2>7
    <2> QED BY <2>1, <2>3, <2>8
  <1>6. ASSUME NEW res, <<Head(th.todo), res>> \in R PROVE Progress(Ran(threads, g, res), tasks, S, R)
    <2>1. PICK new : new = [todo |-> Tail(th.todo), done |-> Append(th.done, res)]
      OBVIOUS
    <2>2. PICK after : after = Ran(threads, g, res)
      OBVIOUS
    <2>3. after = [threads EXCEPT ![g] = new]
      BY <1>3, <2>1, <2>2 DEF Ran
    <2>4. HasRun(new, list, R)
      BY <1>4, <1>6, <2>1
    <2>5. after = [h \in 1..G |-> after[h]]
      BY <1>2, <2>3
    <2>6. ASSUME NEW h \in 1..G PROVE HasRun(after[h], dealt[h], R)
      <3>1. CASE h = g
        BY <1>2, <1>3, <2>3, <2>4, <3>1
      <3>2. CASE h # g
        <4>1. after[h] = threads[h]
          BY <1>2, <2>3, <3>2
        <4> QED BY <1>1, <1>2, <4>1
      <3> QED BY <3>1, <3>2
    <2>7. Progress(after, tasks, S, R)
      BY <1>1, <1>2, <2>5, <2>6 DEF Progress
    <2> QED BY <2>2, <2>7
  <1> QED BY <1>3, <1>5, <1>6

\* More results may be allowed.
LEMMA ProgressMore ==
    ASSUME NEW S, NEW tasks, NEW R, NEW threads, Progress(threads, tasks, S, R), NEW Q, R \subseteq Q
    PROVE  Progress(threads, tasks, S, Q)
  <1>1. PICK dealt, P :
           /\ Deal(dealt, P, tasks, S)
           /\ threads = [h \in 1..Len(dealt) |-> threads[h]]
           /\ \A h \in 1..Len(dealt) : HasRun(threads[h], dealt[h], R)
    BY DEF Progress
  <1>2. ASSUME NEW h \in 1..Len(dealt) PROVE HasRun(threads[h], dealt[h], Q)
    <2>1. PICK th, list : th = threads[h] /\ list = dealt[h] /\ HasRun(th, list, R)
      BY <1>1
    <2>2. PICK m \in 0..Len(list) :
             /\ th = [todo |-> SubSeq(list, m + 1, Len(list)), done |-> th.done]
             /\ th.done \in Seq(Results(R)) /\ Len(th.done) = m
             /\ \A k \in 1..m : <<list[k], th.done[k]>> \in R
      BY <2>1 DEF HasRun
    <2>3. th.done \in Seq(Results(Q))
      <3>1. \A x \in Results(R) : x \in Results(Q)
        BY DEF Results
      <3>2. /\ Len(th.done) \in Nat /\ th.done \in [1..Len(th.done) -> Results(R)]
        BY <2>2, LenProperties, ElementOfSeq
      <3>3. th.done \in [1..Len(th.done) -> Results(Q)]
        BY <3>1, <3>2
      <3> QED BY <3>2, <3>3, ListOf
    <2>4. HasRun(th, list, Q)
      BY <2>2, <2>3 DEF HasRun
    <2> QED BY <2>1, <2>4
  <1> QED BY <1>1, <1>2 DEF Progress

\* run_in_parallel returns one result for each task, in the order of the tasks,
\* whatever the number of threads and the order in which they ran.
THEOREM JoinedInOrder ==
    ASSUME NEW S, NEW tasks, NEW R, NEW threads, Progress(threads, tasks, S, R), AllRan(threads)
    PROVE  /\ Joined(threads) \in Seq(Results(R))
           /\ Len(Joined(threads)) = Len(tasks)
           /\ \A i \in 1..Len(tasks) : <<tasks[i], Joined(threads)[i]>> \in R
  <1>1. PICK dealt, P :
           /\ Deal(dealt, P, tasks, S)
           /\ threads = [h \in 1..Len(dealt) |-> threads[h]]
           /\ \A h \in 1..Len(dealt) : HasRun(threads[h], dealt[h], R)
    BY DEF Progress
  <1>2. PICK G \in Nat : G = Len(dealt) /\ DOMAIN threads = 1..G
    BY SMTT(30), <1>1 DEF Deal
  <1>3. ASSUME NEW g \in 1..G
        PROVE  /\ threads[g].done \in Seq(Results(R)) /\ Len(threads[g].done) = Len(dealt[g])
               /\ dealt[g] \in Seq(S)
               /\ \A k \in 1..Len(dealt[g]) : <<dealt[g][k], threads[g].done[k]>> \in R
    <2>1. PICK list, th : /\ list \in Seq(S) /\ list = dealt[g]
                      /\ th = threads[g] /\ HasRun(th, list, R)
      BY <1>1, <1>2 DEF Deal
    <2>2. PICK m \in 0..Len(list) :
             /\ th = [todo |-> SubSeq(list, m + 1, Len(list)), done |-> th.done]
             /\ th.done \in Seq(Results(R)) /\ Len(th.done) = m
             /\ \A k \in 1..m : <<list[k], th.done[k]>> \in R
      BY <2>1 DEF HasRun
    <2>3. th.todo = <<>>
      BY <1>2, <2>1 DEF AllRan
    <2>4. SubSeq(list, m + 1, Len(list)) = <<>> /\ Len(list) \in Nat /\ m \in Nat
      BY <2>2, <2>3
    <2>5. m = Len(list)
      <3>1. Len(SubSeq(list, m + 1, Len(list))) = Len(list) - m
        BY ONLY <2>1, m \in 0..Len(list), <2>4
      <3>2. Len(<<>>) = 0
        OBVIOUS
      <3>3. Len(list) - m = 0
        BY ONLY <2>4, <3>1, <3>2
      <3>4. Len(list) \in Nat /\ m \in Nat
        BY <2>4
      <3> QED BY ONLY <3>3, <3>4
    <2> QED BY <2>1, <2>2, <2>5
  <1>4. PICK ss, w : /\ ss = [g \in 1..G |-> threads[g].done]
                     /\ w = [g \in 1..G |-> Len(dealt[g])]
    OBVIOUS
  <1>5. /\ ss \in Seq(Seq(Results(R))) /\ Len(ss) = G
        /\ \A g \in 1..G : ss[g] = threads[g].done /\ w[g] = Len(ss[g])
    BY <1>2, <1>3, <1>4
  <1>6. Joined(threads) = FlattenSeq(ss)
    BY <1>2, <1>4 DEF Joined
  <1>7. Sums(P, G, w) /\ P[G] = Len(tasks)
    BY <1>1, <1>2, <1>4 DEF Deal
  <1>8. Flattened(FlattenSeq(ss), ss, P, Results(R))
    BY <1>5, <1>7, FlattenFacts
  <1>9. Joined(threads) \in Seq(Results(R)) /\ Len(Joined(threads)) = Len(tasks)
    BY <1>5, <1>6, <1>7, <1>8 DEF Flattened
  <1>10. ASSUME NEW i \in 1..Len(tasks) PROVE <<tasks[i], Joined(threads)[i]>> \in R
    <2>1. i \in 1..Len(FlattenSeq(ss))
      BY <1>6, <1>9
    <2>2. PICK g \in 1..G : \E k \in 1..Len(ss[g]) : i = P[g - 1] + k /\ FlattenSeq(ss)[i] = ss[g][k]
      BY ONLY SMTT(30), <1>2, <1>5, <1>7, <2>1, FlattenCovers
    <2>3. PICK k \in 1..Len(ss[g]) : i = P[g - 1] + k /\ FlattenSeq(ss)[i] = ss[g][k]
      BY <2>2
    <2>4. k \in 1..Len(dealt[g])
      BY <1>3, <1>5
    <2>5. tasks[i] = dealt[g][k]
      BY <1>1, <1>2, <2>3, <2>4 DEF Deal
    <2> QED BY <1>3, <1>5, <1>6, <2>3, <2>4, <2>5
  <1> QED BY <1>9, <1>10

=============================================================================
