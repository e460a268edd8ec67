-------------------------- MODULE PackStreamProofs --------------------------
(***************************************************************************)
(* Proofs that an index that is saved is parsed back to what was pushed,   *)
(* that the frames of a pack tile the stream the index describes, and that *)
(* a command that reports success made exactly the files of the snapshot:  *)
(* for any snapshots, objects and sizes, and any numbers of frames and     *)
(* threads.                                                                *)
(***************************************************************************)
EXTENDS PackStream, ParallelProofs

-----------------------------------------------------------------------------
(* The index while it is built                                             *)

Distinct(s) == \A i, j \in DOMAIN s : i # j => s[i] # s[j]

\* The handle of an entry, and the handles of the k-th snapshot that was pushed.
HandleFor(ix, e) ==
    [path |-> HandleOf(ix.paths, e.path), object |-> HandleOf(ix.objs, e.obj), meta |-> e.meta]
FilesAt(ix, pu, k) == IF k = 0 THEN {} ELSE {HandleFor(ix, e) : e \in pu[k][2]}

\* One tag and one delta for each snapshot, one size for each object.
Shape(ix, pu) ==
    /\ ix \in Indexes
    /\ pu \in Seq(Tags \X Snapshots)
    /\ Len(ix.tags) = Len(pu) /\ Len(ix.deltas) = Len(pu)
    /\ Len(ix.meta) = Len(ix.objs)
    /\ \A h \in 1..Len(ix.objs) : ix.meta[h].size = Size[ix.objs[h]]

\* The pools have no duplicates and have what the snapshots need.
Pools(ix, pu) ==
    /\ Distinct(ix.tags) /\ Distinct(ix.paths) /\ Distinct(ix.objs)
    /\ \A k \in 1..Len(pu) :
          /\ ix.tags[k] = pu[k][1]
          /\ \A e \in pu[k][2] : Contains(ix.paths, e.path) /\ Contains(ix.objs, e.obj)

\* Each delta leads from one snapshot to the next.
Deltas(ix, pu) ==
    /\ \A k \in 1..Len(pu) : ix.deltas[k] = Changes(FilesAt(ix, pu, k - 1), FilesAt(ix, pu, k))
    /\ ix.current = FilesAt(ix, pu, Len(pu))

IndexOK(ix, pu) == Shape(ix, pu) /\ Pools(ix, pu) /\ Deltas(ix, pu)

\* How InternAll computes: the pool after each element.
Interning(c, pool, xs, X) ==
    /\ c \in [0..Len(xs) -> Seq(X)]
    /\ c[0] = pool
    /\ \A j \in 1..Len(xs) : c[j] = Intern(c[j - 1], xs[j])
    /\ InternAll(pool, xs) = c[Len(xs)]

\* These pools exist.
LEMMA InternChain ==
    ASSUME NEW X, NEW pool \in Seq(X), NEW xs \in Seq(X)
    PROVE  \E c : Interning(c, pool, xs, X)
  <1>1. PICK N \in Nat : N = Len(xs) /\ DOMAIN xs = 1..N /\ \A j \in 1..N : xs[j] \in X
    OBVIOUS
  <1> DEFINE V == Seq(X)
             step == [j \in 1..N |-> [v \in V |-> Intern(v, xs[j])]]
             Eq(f) == f = [T \in SUBSET (1..N) |->
                              IF T = {} THEN pool ELSE Intern(f[T \ {Max(T)}], xs[Max(T)])]
  <1>2. ASSUME NEW v \in V, NEW j \in 1..N PROVE Intern(v, xs[j]) \in V
    <2>1. Append(v, xs[j]) \in V
      BY <1>1, AppendProperties
    <2> QED BY <2>1 DEF Intern
  <1>3. step \in Steps(N, V)
    <2> HIDE DEF V
    <2> QED BY <1>2 DEF Steps
  <1>4. PICK f \in [SUBSET (1..N) -> V] :
           f = [T \in SUBSET (1..N) |-> IF T = {} THEN pool ELSE step[Max(T)][f[T \ {Max(T)}]]]
    <2> HIDE DEF V, step
    <2>1. pool \in V
      BY DEF V
    <2>2. \E f : ComputesLeft(f, N, V, pool, step)
      BY <1>1, <1>3, <2>1, LeftRecursion
    <2> QED BY <2>2 DEF ComputesLeft
  <1>5. Eq(f)
    <2>1. ASSUME NEW T \in SUBSET (1..N), T # {}
          PROVE  step[Max(T)][f[T \ {Max(T)}]] = Intern(f[T \ {Max(T)}], xs[Max(T)])
      <3>1. T \in SUBSET (0..N)
        BY <1>1
      <3>2. Max(T) \in 1..N
        BY <1>1, <2>1, <3>1, MaxPicks
      <3> HIDE DEF V
      <3>3. f[T \ {Max(T)}] \in V
        BY <1>4
      <3> QED BY <3>2, <3>3
    <2> HIDE DEF step, V
    <2>2. \A T \in SUBSET (1..N) : f[T] = IF T = {} THEN pool ELSE Intern(f[T \ {Max(T)}], xs[Max(T)])
      BY <1>4, <2>1
    <2> QED BY <1>4, <2>2
  <1> HIDE DEF step
  <1>6. PICK F : Eq(F) /\ InternAll(pool, xs) = F[1..N]
    <2>1. InternAll(pool, xs) = (CHOOSE F : Eq(F))[1..N]
      BY <1>1 DEF InternAll, FoldLeft, MapThenFoldSet
    <2> HIDE DEF Eq
    <2> QED BY <1>5, <2>1
  <1> DEFINE c == [j \in 0..N |-> F[1..j]]
  <1>7. c[0] = pool
    <2>1. 1..0 = {}
      OBVIOUS
    <2> QED BY <1>1, <1>6, <2>1
  <1>8. ASSUME NEW j \in 1..N PROVE c[j] = Intern(c[j - 1], xs[j])
    <2>1. j \in Nat \ {0} /\ j - 1 \in 0..N /\ j \in 0..N /\ 1..j \in SUBSET (1..N) /\ 1..j # {}
      <3>1. j \in Nat \ {0} /\ j - 1 \in 0..N /\ j \in 0..N /\ j \in 1..j
        BY ONLY N \in Nat, j \in 1..N
      <3>2. 1..j \in SUBSET (1..N)
        BY ONLY N \in Nat, j \in 1..N
      <3> QED BY <3>1, <3>2
    <2>2. Max(1..j) = j /\ (1..j) \ {j} = 1..j - 1
      BY <2>1, MaxOfInterval
    <2>3. F[1..j] = Intern(F[1..j - 1], xs[j])
      BY <1>6, <2>1, <2>2
    <2> QED BY <2>1, <2>3
  <1>9. c \in [0..N -> V]
    <2> DEFINE T == {j \in 0..N : c[j] \in V}
    <2>1. 0 \in T
      BY <1>1, <1>7
    <2>2. ASSUME NEW j \in 0..N - 1, j \in T PROVE j + 1 \in T
      <3>1. j + 1 \in 1..N /\ (j + 1) - 1 = j /\ j + 1 \in 0..N
        BY <1>1
      <3>2. c[j + 1] = Intern(c[j], xs[j + 1])
        BY <1>8, <3>1
      <3> HIDE DEF V, c
      <3> QED BY <1>2, <2>2, <3>1, <3>2
    <2>3. 0..N \subseteq T
      <3> HIDE DEF T
      <3> QED BY <1>1, <2>1, <2>2, BoundedInduction
    <2> QED BY <2>3
  <1>10. c[N] = InternAll(pool, xs)
    BY <1>1, <1>6
  <1> HIDE DEF c
  <1> QED BY <1>1, <1>7, <1>8, <1>9, <1>10 DEF Interning

\* What pool q is after xs were interned in pool.
Grown(q, pool, X) ==
    /\ q \in Seq(X)
    /\ Len(pool) <= Len(q)
    /\ \A i \in 1..Len(pool) : q[i] = pool[i]
    /\ Distinct(q)

\* get_or_insert keeps what is there, and adds what is not.
LEMMA InternOne ==
    ASSUME NEW X, NEW pool \in Seq(X), Distinct(pool), NEW x \in X
    PROVE  Grown(Intern(pool, x), pool, X) /\ Contains(Intern(pool, x), x)
  <1>1. PICK n \in Nat : n = Len(pool) /\ DOMAIN pool = 1..n
    OBVIOUS
  <1>2. CASE Contains(pool, x)
    <2>1. Intern(pool, x) = pool
      BY <1>2 DEF Intern
    <2> QED BY <1>1, <1>2, <2>1 DEF Grown
  <1>3. CASE ~Contains(pool, x)
    <2>1. PICK q \in Seq(X) : q = Append(pool, x)
      BY AppendProperties
    <2>2. Intern(pool, x) = q
      BY <1>3, <2>1 DEF Intern
    <2>3. Len(q) = n + 1 /\ DOMAIN q = 1..n + 1 /\ q[n + 1] = x /\ \A i \in 1..n : q[i] = pool[i]
      BY <1>1, <2>1
    <2>4. \A i \in 1..n : pool[i] # x
      BY <1>1, <1>3 DEF Contains
    <2>5. ASSUME NEW i \in 1..n + 1, NEW j \in 1..n + 1, i # j PROVE q[i] # q[j]
      <3>1. (i \in 1..n \/ i = n + 1) /\ (j \in 1..n \/ j = n + 1)
        BY <1>1
      <3> QED BY <1>1, <2>3, <2>4, <2>5, <3>1 DEF Distinct
    <2>6. Distinct(q)
      BY <2>3, <2>5 DEF Distinct
    <2>7. Contains(q, x)
      BY <1>1, <2>3 DEF Contains
    <2> QED BY <1>1, <2>2, <2>3, <2>6, <2>7 DEF Grown
  <1> QED BY <1>2, <1>3

\* Interning a list: what was in the pool keeps its handle, and every element has
\* one.
LEMMA InternAllFacts ==
    ASSUME NEW X, NEW pool \in Seq(X), Distinct(pool), NEW xs \in Seq(X)
    PROVE  /\ Grown(InternAll(pool, xs), pool, X)
           /\ \A i \in 1..Len(xs) : Contains(InternAll(pool, xs), xs[i])
  <1>1. PICK N \in Nat : N = Len(xs) /\ \A j \in 1..N : xs[j] \in X
    OBVIOUS
  <1>2. PICK c \in [0..N -> Seq(X)] :
           /\ c[0] = pool
           /\ \A j \in 1..N : c[j] = Intern(c[j - 1], xs[j])
           /\ InternAll(pool, xs) = c[N]
    <2>1. \E c : Interning(c, pool, xs, X)
      BY InternChain
    <2> QED BY <1>1, <2>1 DEF Interning
  <1> DEFINE Good(j) == Grown(c[j], pool, X) /\ \A i \in 1..j : Contains(c[j], xs[i])
             T == {j \in 0..N : Good(j)}
  <1>3. 0 \in T
    <2>1. Grown(pool, pool, X)
      BY DEF Grown
    <2> QED BY <1>1, <1>2, <2>1
  <1>4. ASSUME NEW j \in 0..N - 1, j \in T PROVE j + 1 \in T
    <2>1. j + 1 \in 1..N /\ (j + 1) - 1 = j /\ j + 1 \in 0..N /\ j \in 0..N
      BY <1>1
    <2>2. PICK p, q, x : p = c[j] /\ q = c[j + 1] /\ x = xs[j + 1]
      OBVIOUS
    <2>3. p \in Seq(X) /\ x \in X /\ q = Intern(p, x) /\ Grown(p, pool, X)
      BY <1>1, <1>2, <1>4, <2>1, <2>2
    <2>4. Grown(q, p, X) /\ Contains(q, x)
      <3>1. Distinct(p)
        BY <2>3 DEF Grown
      <3> QED BY <2>3, <3>1, InternOne
    <2>5. Len(pool) \in Nat /\ Len(p) \in Nat /\ q \in Seq(X) /\ Len(q) \in Nat
      BY <2>3, <2>4 DEF Grown
    <2>6. Grown(q, pool, X)
      BY <2>3, <2>4, <2>5 DEF Grown
    <2>7. ASSUME NEW i \in 1..j + 1 PROVE Contains(q, xs[i])
      <3>1. CASE i = j + 1
        BY <2>2, <2>4, <3>1
      <3>2. CASE i # j + 1
        <4>1. i \in 1..j
          BY ONLY i \in 1..j + 1, <3>2, <2>1, j \in 0..N - 1, N \in Nat
        <4>2. Contains(p, xs[i])
          BY <1>4, <2>2, <4>1
        <4>3. PICK l \in 1..Len(p) : p[l] = xs[i]
          BY <4>2 DEF Contains
        <4>4. l \in 1..Len(q) /\ q[l] = xs[i]
          BY <2>4, <2>5, <4>3 DEF Grown
        <4> QED BY <4>4 DEF Contains
      <3> QED BY <3>1, <3>2
    <2> QED BY <2>1, <2>2, <2>6, <2>7
  <1>5. N \in T
    <2> HIDE DEF T
    <2>1. 0..N \subseteq T
      BY <1>1, <1>3, <1>4, BoundedInduction
    <2>2. N \in 0..N
      BY <1>1
    <2> QED BY <2>1, <2>2
  <1> QED BY <1>1, <1>2, <1>5

\* Interning a list without duplicates in an empty pool gives the list.
LEMMA InternAllSame ==
    ASSUME NEW X, NEW xs \in Seq(X), Distinct(xs)
    PROVE  InternAll(<<>>, xs) = xs
  <1>1. PICK N \in Nat : N = Len(xs) /\ DOMAIN xs = 1..N /\ \A j \in 1..N : xs[j] \in X
    OBVIOUS
  <1>2. PICK c \in [0..N -> Seq(X)] :
           /\ c[0] = <<>>
           /\ \A j \in 1..N : c[j] = Intern(c[j - 1], xs[j])
           /\ InternAll(<<>>, xs) = c[N]
    <2>1. <<>> \in Seq(X)
      OBVIOUS
    <2>2. \E c : Interning(c, <<>>, xs, X)
      BY <2>1, InternChain
    <2> QED BY <1>1, <2>2 DEF Interning
  <1> DEFINE T == {j \in 0..N : Len(c[j]) = j /\ \A i \in 1..j : c[j][i] = xs[i]}
  <1>3. 0 \in T
    BY <1>1, <1>2
  <1>4. ASSUME NEW j \in 0..N - 1, j \in T PROVE j + 1 \in T
    <2>1. j + 1 \in 1..N /\ (j + 1) - 1 = j /\ j + 1 \in 0..N /\ j \in 0..N /\ j \in Nat
      BY <1>1
    <2>2. PICK p, q, x : p = c[j] /\ q = c[j + 1] /\ x = xs[j + 1]
      OBVIOUS
    <2>3. p \in Seq(X) /\ x \in X /\ q = Intern(p, x) /\ Len(p) = j /\ \A i \in 1..j : p[i] = xs[i]
      BY <1>1, <1>2, <1>4, <2>1, <2>2
    <2>4. ~Contains(p, x)
      <3>1. ASSUME NEW i \in 1..Len(p) PROVE p[i] # x
        <4>1. i \in 1..N /\ i # j + 1 /\ i \in 1..j
          <5>1. i \in 1..j
            BY <2>3
          <5> QED BY ONLY N \in Nat, <2>1, <5>1
        <4> QED BY <1>1, <2>1, <2>2, <2>3, <4>1 DEF Distinct
      <3> QED BY <3>1 DEF Contains
    <2>5. q = Append(p, x)
      BY <2>3, <2>4 DEF Intern
    <2>6. Len(q) = j + 1 /\ q[j + 1] = x /\ \A i \in 1..j : q[i] = p[i]
      <3>1. /\ Len(q) = Len(p) + 1
            /\ \A i \in 1..Len(p) : q[i] = p[i]
            /\ q[Len(p) + 1] = x
        BY ONLY <2>3, <2>5, AppendProperties
      <3> QED BY <2>3, <3>1
    <2>7. ASSUME NEW i \in 1..j + 1 PROVE q[i] = xs[i]
      <3>1. i = j + 1 \/ i \in 1..j
        BY ONLY <2>1, i \in 1..j + 1
      <3> QED BY <2>2, <2>3, <2>6, <3>1
    <2> QED BY <2>1, <2>2, <2>6, <2>7
  <1>5. N \in T
    <2> HIDE DEF T
    <2>1. 0..N \subseteq T
      BY <1>1, <1>3, <1>4, BoundedInduction
    <2>2. N \in 0..N
      BY <1>1
    <2> QED BY <2>1, <2>2
  <1>6. c[N] \in Seq(X) /\ Len(c[N]) = N /\ \A i \in 1..N : c[N][i] = xs[i]
    BY <1>1, <1>2, <1>5
  <1>7. c[N] = xs
    BY <1>1, <1>6, SeqEqual
  <1> QED BY <1>2, <1>7

\* A list of the elements of a finite set has each of them once.
LEMMA ListsOfSet ==
    ASSUME NEW s, IsFiniteSet(s), NEW f \in SetToSeqs(s)
    PROVE  /\ f \in Seq(s) /\ Len(f) = Cardinality(s) /\ DOMAIN f = 1..Len(f)
           /\ \A i, j \in 1..Len(f) : i # j => f[i] # f[j]
           /\ \A x \in s : \E i \in 1..Len(f) : f[i] = x
  <1>1. PICK n \in Nat : n = Cardinality(s)
    BY FS_CardinalityType
  <1>2. f \in [1..n -> s] /\ \A i, j \in 1..n : i # j => f[i] # f[j]
    BY <1>1 DEF SetToSeqs
  <1>3. f \in Seq(s) /\ Len(f) = n
    BY <1>1, <1>2, ListOf
  <1>4. f \in Injection(1..n, s)
    BY <1>2 DEF Injection, IsInjective
  <1>5. Cardinality(1..n) = n
    BY <1>1, FS_Interval
  <1>6. f \in Surjection(1..n, s)
    BY <1>1, <1>4, <1>5, FS_Injection
  <1>7. \A x \in s : \E i \in 1..n : f[i] = x
    BY <1>6 DEF Surjection
  <1> QED BY <1>1, <1>2, <1>3, <1>7

\* The handle of what a pool has, and of what is at a place of the pool.
LEMMA HandleFacts ==
    ASSUME NEW X, NEW pool \in Seq(X), Distinct(pool)
    PROVE  /\ \A x : Contains(pool, x) =>
                 HandleOf(pool, x) \in 1..Len(pool) /\ pool[HandleOf(pool, x)] = x
           /\ \A h \in 1..Len(pool) : Contains(pool, pool[h]) /\ HandleOf(pool, pool[h]) = h
  <1>1. DOMAIN pool = 1..Len(pool)
    OBVIOUS
  <1>2. ASSUME NEW x, Contains(pool, x)
        PROVE  HandleOf(pool, x) \in 1..Len(pool) /\ pool[HandleOf(pool, x)] = x
    <2>1. \E h \in DOMAIN pool : pool[h] = x
      BY <1>1, <1>2 DEF Contains
    <2> QED BY <1>1, <2>1 DEF HandleOf
  <1>3. ASSUME NEW h \in 1..Len(pool)
        PROVE  Contains(pool, pool[h]) /\ HandleOf(pool, pool[h]) = h
    <2>1. Contains(pool, pool[h])
      BY DEF Contains
    <2> QED BY <1>1, <1>2, <2>1 DEF Distinct
  <1> QED BY <1>2, <1>3

\* A pool that grows keeps the handles it gave.
LEMMA GrownHandles ==
    ASSUME NEW X, NEW pool \in Seq(X), Distinct(pool), NEW q, Grown(q, pool, X),
           NEW x, Contains(pool, x)
    PROVE  Contains(q, x) /\ HandleOf(q, x) = HandleOf(pool, x)
  <1>1. PICK h : h = HandleOf(pool, x) /\ h \in 1..Len(pool) /\ pool[h] = x
    BY HandleFacts
  <1>2. q \in Seq(X) /\ Distinct(q) /\ Len(pool) \in Nat /\ Len(q) \in Nat
    BY DEF Grown
  <1>3. h \in 1..Len(q) /\ q[h] = x
    BY <1>1, <1>2 DEF Grown
  <1>4. Contains(q, q[h]) /\ HandleOf(q, q[h]) = h
    BY <1>2, <1>3, HandleFacts
  <1> QED BY <1>1, <1>3, <1>4

\* What is assumed of the entries of a snapshot.
LEMMA SnapshotFacts ==
    ASSUME NEW s \in Snapshots
    PROVE  /\ IsFiniteSet(s)
           /\ \A e \in s : /\ e = [path |-> e.path, obj |-> e.obj, meta |-> e.meta]
                           /\ e.path \in {x.path : x \in UNION Snapshots}
                           /\ e.obj \in Objects /\ Size[e.obj] \in Nat
                           /\ e.meta \in Modes \cup {Symlink}
                           /\ e.meta = Symlink => Size[e.obj] > 0
           /\ \A e, f \in s : f.path = e.path => f = e
  BY PackIndexAssumption

\* push_snapshot keeps the index in order.
LEMMA PushedOK ==
    ASSUME NEW ix, NEW pu, IndexOK(ix, pu), NEW t \in Tags, ~Contains(ix.tags, t),
           NEW s \in Snapshots, NEW entries \in SetToSeqs(s)
    PROVE  IndexOK(Pushed(ix, t, entries), Append(pu, <<t, s>>))
  <1> DEFINE Paths == {x.path : x \in UNION Snapshots}
  <1>1. PICK n, N \in Nat : n = Len(pu) /\ N = Len(entries)
    <2>1. pu \in Seq(Tags \X Snapshots) /\ entries \in Seq(s)
      BY SnapshotFacts, ListsOfSet DEF IndexOK, Shape
    <2> QED BY ONLY <2>1
  <1>2. /\ entries \in Seq(s) /\ DOMAIN entries = 1..N
        /\ \A i \in 1..N : entries[i] \in s
        /\ \A e \in s : \E i \in 1..N : entries[i] = e
    <2>1. entries \in Seq(s) /\ DOMAIN entries = 1..N /\ \A e \in s : \E i \in 1..N : entries[i] = e
      BY <1>1, SnapshotFacts, ListsOfSet
    <2> QED BY <1>1, <2>1, ElementOfSeq
  <1>3. PICK newPaths, newObjs :
           /\ newPaths = [i \in DOMAIN entries |-> entries[i].path]
           /\ newObjs = [i \in DOMAIN entries |-> entries[i].obj]
    OBVIOUS
  <1>4. /\ newPaths \in Seq(Paths) /\ Len(newPaths) = N
        /\ newObjs \in Seq(Objects) /\ Len(newObjs) = N
    <2>1. newPaths \in [1..N -> Paths] /\ newObjs \in [1..N -> Objects]
      BY <1>2, <1>3, SnapshotFacts
    <2> QED BY <1>1, <2>1, ListOf
  <1>5. /\ ix.paths \in Seq(Paths) /\ Distinct(ix.paths)
        /\ ix.objs \in Seq(Objects) /\ Distinct(ix.objs)
        /\ ix.tags \in Seq(Tags) /\ Distinct(ix.tags) /\ Len(ix.tags) = n
        /\ ix.deltas \in Seq([added : SUBSET Handles, removed : SUBSET Handles])
        /\ Len(ix.deltas) = n
        /\ ix.current \in SUBSET Handles
        /\ pu \in Seq(Tags \X Snapshots)
    BY <1>1 DEF IndexOK, Shape, Pools, Indexes
  <1> HIDE DEF Paths
  <1>6. PICK paths, objs : /\ paths = InternAll(ix.paths, newPaths)
                           /\ objs = InternAll(ix.objs, newObjs)
    OBVIOUS
  <1>7. Grown(paths, ix.paths, Paths) /\ \A i \in 1..N : Contains(paths, newPaths[i])
    BY <1>4, <1>5, <1>6, InternAllFacts
  <1>8. Grown(objs, ix.objs, Objects) /\ \A i \in 1..N : Contains(objs, newObjs[i])
    BY <1>4, <1>5, <1>6, InternAllFacts
  <1>9. PICK files : files = {[path |-> HandleOf(paths, entries[i].path),
                               object |-> HandleOf(objs, entries[i].obj),
                               meta |-> entries[i].meta] : i \in DOMAIN entries}
    OBVIOUS
  <1>10. PICK jx, ju : jx = Pushed(ix, t, entries) /\ ju = Append(pu, <<t, s>>)
    OBVIOUS
  <1>11. jx = [tags |-> Append(ix.tags, t),
               deltas |-> Append(ix.deltas, Changes(ix.current, files)),
               paths |-> paths,
               objs |-> objs,
               meta |-> [h \in DOMAIN objs |-> [size |-> Size[objs[h]], offset |-> 0]],
               current |-> files]
    BY <1>3, <1>6, <1>9, <1>10 DEF Pushed
  <1>12. /\ jx.paths = paths /\ jx.objs = objs /\ jx.current = files
         /\ jx.tags = Append(ix.tags, t) /\ jx.deltas = Append(ix.deltas, Changes(ix.current, files))
         /\ jx.meta = [h \in DOMAIN objs |-> [size |-> Size[objs[h]], offset |-> 0]]
    BY <1>11
  <1>13. /\ paths \in Seq(Paths) /\ Distinct(paths)
         /\ objs \in Seq(Objects) /\ Distinct(objs) /\ DOMAIN objs = 1..Len(objs)
         /\ Len(objs) \in Nat /\ \A h \in 1..Len(objs) : objs[h] \in Objects
    <2>1. paths \in Seq(Paths) /\ Distinct(paths) /\ objs \in Seq(Objects) /\ Distinct(objs)
      BY <1>7, <1>8 DEF Grown
    <2>2. DOMAIN objs = 1..Len(objs) /\ Len(objs) \in Nat /\ \A h \in 1..Len(objs) : objs[h] \in Objects
      BY ONLY <2>1
    <2> QED BY <2>1, <2>2
  <1>14. \A e \in s : Contains(paths, e.path) /\ Contains(objs, e.obj)
    BY <1>2, <1>3, <1>7, <1>8
  <1>15. /\ Len(ju) = n + 1 /\ ju[n + 1] = <<t, s>> /\ \A k \in 1..n : ju[k] = pu[k]
         /\ ju \in Seq(Tags \X Snapshots)
    <2>1. <<t, s>> \in Tags \X Snapshots
      OBVIOUS
    <2> QED BY ONLY <1>1, <1>5, <1>10, <2>1, AppendProperties
  \* The handles of the snapshots before do not change.
  <1>16. ASSUME NEW k \in 0..n PROVE FilesAt(jx, ju, k) = FilesAt(ix, pu, k)
    <2>1. CASE k = 0
      BY <2>1 DEF FilesAt
    <2>2. CASE k # 0
      <3>1. k \in 1..n
        BY ONLY k \in 0..n, n \in Nat, <2>2
      <3>2. ASSUME NEW e \in pu[k][2] PROVE HandleFor(jx, e) = HandleFor(ix, e)
        <4>1. Contains(ix.paths, e.path) /\ Contains(ix.objs, e.obj)
          BY <1>1, <3>1 DEF IndexOK, Pools
        <4>2. HandleOf(paths, e.path) = HandleOf(ix.paths, e.path)
          BY ONLY <1>5, <1>7, <4>1, GrownHandles
        <4>3. HandleOf(objs, e.obj) = HandleOf(ix.objs, e.obj)
          BY ONLY <1>5, <1>8, <4>1, GrownHandles
        <4> QED BY <1>12, <4>2, <4>3 DEF HandleFor
      <3>3. ju[k] = pu[k]
        BY <1>15, <3>1
      <3> QED BY <2>2, <3>2, <3>3 DEF FilesAt
    <2> QED BY <2>1, <2>2
  <1>17. files = FilesAt(jx, ju, n + 1)
    <2>1. FilesAt(jx, ju, n + 1) = {HandleFor(jx, e) : e \in s}
      BY <1>1, <1>15 DEF FilesAt
    <2>2. \A e : HandleFor(jx, e) = [path |-> HandleOf(paths, e.path),
                                     object |-> HandleOf(objs, e.obj), meta |-> e.meta]
      BY <1>12 DEF HandleFor
    <2>3. files = {HandleFor(jx, entries[i]) : i \in 1..N}
      BY <1>2, <1>9, <2>2
    <2> QED BY <1>2, <2>1, <2>3
  <1>18. files \in SUBSET Handles
    <2>1. ASSUME NEW e \in s PROVE HandleFor(jx, e) \in Handles
      <3>1. HandleOf(paths, e.path) \in 1..Len(paths)
        BY <1>13, <1>14, HandleFacts
      <3>2. HandleOf(objs, e.obj) \in 1..Len(objs)
        BY <1>13, <1>14, HandleFacts
      <3>3. e.meta \in Modes \cup {Symlink}
        BY SnapshotFacts
      <3>4. 1..Len(paths) \subseteq Nat \ {0} /\ 1..Len(objs) \subseteq Nat \ {0}
        OBVIOUS
      <3> QED BY <1>12, <3>1, <3>2, <3>3, <3>4 DEF HandleFor, Handles
    <2>2. files = {HandleFor(jx, e) : e \in s}
      BY <1>1, <1>15, <1>17 DEF FilesAt
    <2> QED BY <2>1, <2>2
  <1>19. Changes(ix.current, files) \in [added : SUBSET Handles, removed : SUBSET Handles]
    BY <1>5, <1>18 DEF Changes
  <1>20. /\ jx.tags \in Seq(Tags) /\ Len(jx.tags) = n + 1 /\ jx.tags[n + 1] = t
         /\ \A k \in 1..n : jx.tags[k] = ix.tags[k]
    BY ONLY <1>5, <1>12, t \in Tags, AppendProperties
  <1>21. /\ jx.deltas \in Seq([added : SUBSET Handles, removed : SUBSET Handles])
         /\ Len(jx.deltas) = n + 1 /\ jx.deltas[n + 1] = Changes(ix.current, files)
         /\ \A k \in 1..n : jx.deltas[k] = ix.deltas[k]
    <2>1. PICK D, ch : D = [added : SUBSET Handles, removed : SUBSET Handles]
                       /\ ch = Changes(ix.current, files)
      OBVIOUS
    <2>2. ix.deltas \in Seq(D) /\ ch \in D /\ jx.deltas = Append(ix.deltas, ch)
      BY <1>5, <1>12, <1>19, <2>1
    <2>3. /\ jx.deltas \in Seq(D) /\ Len(jx.deltas) = n + 1 /\ jx.deltas[n + 1] = ch
          /\ \A k \in 1..n : jx.deltas[k] = ix.deltas[k]
      BY ONLY <1>5, <2>2, AppendProperties
    <2> QED BY <2>1, <2>3
  <1>22. /\ jx.meta \in Seq([size : Nat, offset : Nat]) /\ Len(jx.meta) = Len(objs)
         /\ \A h \in 1..Len(objs) : jx.meta[h].size = Size[objs[h]]
    <2>1. jx.meta \in [1..Len(objs) -> [size : Nat, offset : Nat]]
      BY <1>12, <1>13, PackIndexAssumption
    <2>2. jx.meta \in Seq([size : Nat, offset : Nat]) /\ Len(jx.meta) = Len(objs)
      BY ONLY <1>13, <2>1, ListOf
    <2> QED BY <1>12, <1>13, <2>2
  <1>23. jx \in Indexes
    BY <1>11, <1>12, <1>13, <1>18, <1>20, <1>21, <1>22 DEF Indexes, Paths
  <1>24. Shape(jx, ju)
    BY <1>12, <1>15, <1>20, <1>21, <1>22, <1>23 DEF Shape
  <1>25. Pools(jx, ju)
    <2>1. Distinct(jx.tags)
      <3>1. DOMAIN jx.tags = 1..n + 1 /\ DOMAIN ix.tags = 1..n
        BY ONLY <1>5, <1>20
      <3>2. \A k \in 1..n : ix.tags[k] # t
        BY <1>5 DEF Contains
      <3>3. ASSUME NEW i \in 1..n + 1, NEW j \in 1..n + 1, i # j PROVE jx.tags[i] # jx.tags[j]
        <4>1. (i = n + 1 \/ i \in 1..n) /\ (j = n + 1 \/ j \in 1..n)
          BY ONLY n \in Nat, i \in 1..n + 1, j \in 1..n + 1
        <4> QED BY <1>5, <1>20, <3>1, <3>2, <3>3, <4>1 DEF Distinct
      <3> QED BY <3>1, <3>3 DEF Distinct
    <2>2. ASSUME NEW k \in 1..n + 1
          PROVE  /\ jx.tags[k] = ju[k][1]
                 /\ \A e \in ju[k][2] : Contains(jx.paths, e.path) /\ Contains(jx.objs, e.obj)
      <3>1. CASE k = n + 1
        BY <1>12, <1>14, <1>15, <1>20, <3>1
      <3>2. CASE k # n + 1
        <4>1. k \in 1..n
          BY ONLY n \in Nat, k \in 1..n + 1, <3>2
        <4>2. /\ ix.tags[k] = pu[k][1]
              /\ \A e \in pu[k][2] : Contains(ix.paths, e.path) /\ Contains(ix.objs, e.obj)
          BY <1>1, <4>1 DEF IndexOK, Pools
        <4>3. ju[k] = pu[k] /\ jx.tags[k] = ix.tags[k]
          BY <1>15, <1>20, <4>1
        <4>4. ASSUME NEW e \in pu[k][2] PROVE Contains(paths, e.path) /\ Contains(objs, e.obj)
          <5>1. Contains(paths, e.path)
            BY ONLY <1>5, <1>7, <4>2, e \in pu[k][2], GrownHandles
          <5>2. Contains(objs, e.obj)
            BY ONLY <1>5, <1>8, <4>2, e \in pu[k][2], GrownHandles
          <5> QED BY <5>1, <5>2
        <4> QED BY <1>12, <4>2, <4>3, <4>4
      <3> QED BY <3>1, <3>2
    <2> QED BY <1>12, <1>13, <1>15, <2>1, <2>2 DEF Pools
  <1>26. Deltas(jx, ju)
    <2>1. ASSUME NEW k \in 1..n + 1
          PROVE  jx.deltas[k] = Changes(FilesAt(jx, ju, k - 1), FilesAt(jx, ju, k))
      <3>1. CASE k = n + 1
        <4>1. k - 1 = n /\ n \in 0..n
          BY ONLY n \in Nat, <3>1
        <4>2. ix.current = FilesAt(ix, pu, n)
          BY <1>1 DEF IndexOK, Deltas
        <4> QED BY <1>16, <1>17, <1>21, <3>1, <4>1, <4>2
      <3>2. CASE k # n + 1
        <4>1. k \in 1..n /\ k \in 0..n /\ k - 1 \in 0..n
          BY ONLY n \in Nat, k \in 1..n + 1, <3>2
        <4>2. ix.deltas[k] = Changes(FilesAt(ix, pu, k - 1), FilesAt(ix, pu, k))
          BY <1>1, <4>1 DEF IndexOK, Deltas
        <4> QED BY <1>16, <1>21, <4>1, <4>2
      <3> QED BY <3>1, <3>2
    <2>2. jx.current = FilesAt(jx, ju, Len(ju))
      BY <1>12, <1>15, <1>17
    <2> QED BY <1>15, <2>1, <2>2 DEF Deltas
  <1> QED BY <1>10, <1>24, <1>25, <1>26 DEF IndexOK

\* The index of a new pack.
LEMMA EmptyOK == IndexOK(EmptyIndex, <<>>)
  <1>1. Shape(EmptyIndex, <<>>)
    BY DEF Shape, EmptyIndex, Indexes
  <1>2. Pools(EmptyIndex, <<>>)
    BY DEF Pools, EmptyIndex, Distinct
  <1>3. Deltas(EmptyIndex, <<>>)
    BY DEF Deltas, EmptyIndex, FilesAt
  <1> QED BY <1>1, <1>2, <1>3 DEF IndexOK

-----------------------------------------------------------------------------
(* Saving and parsing                                                      *)

\* The handles a file of version v gives for h and for a set of handles: version 1
\* has no modes.
As(v, h) == [path |-> h.path, object |-> h.object,
             meta |-> IF v = 1 THEN DefaultMode ELSE h.meta]
Image(v, F) == {As(v, h) : h \in F}

\* The files that a program of index version v writes.
SavedAs(file, ix, v) ==
    \/ v = 3 /\ file = Serialized(ix)
    \/ v \in {1, 2} /\ Features(ix) = {} /\ file = SerializedLegacy(ix, v)

\* What parsing such a file gives.
ParsedAs(px, ix, v) ==
    /\ px \in Indexes
    /\ px.tags = ix.tags /\ px.paths = ix.paths /\ px.objs = ix.objs /\ px.meta = ix.meta
    /\ Len(px.deltas) = Len(ix.deltas)
    /\ \A k \in 1..Len(ix.deltas) : /\ px.deltas[k].added = Image(v, ix.deltas[k].added)
                                    /\ px.deltas[k].removed = Image(v, ix.deltas[k].removed)

\* The handles of the snapshots are handles, and their metadata is that of the
\* entries.
LEMMA FilesAtFacts ==
    ASSUME NEW ix, NEW pu, IndexOK(ix, pu), NEW k \in 0..Len(pu)
    PROVE  /\ FilesAt(ix, pu, k) \in SUBSET Handles
           /\ IsFiniteSet(FilesAt(ix, pu, k))
           /\ \A g, h \in FilesAt(ix, pu, k) : g.path = h.path => g = h
           /\ k # 0 => Cardinality(FilesAt(ix, pu, k)) = Cardinality(pu[k][2])
  <1>1. CASE k = 0
    <2>1. FilesAt(ix, pu, k) = {}
      BY <1>1 DEF FilesAt
    <2> QED BY <1>1, <2>1, FS_EmptySet
  <1>2. CASE k # 0
    <2>1. PICK n \in Nat : n = Len(pu) /\ pu \in Seq(Tags \X Snapshots)
      BY DEF IndexOK, Shape
    <2>2. k \in 1..n
      BY ONLY <1>2, <2>1, k \in 0..Len(pu)
    <2>3. PICK s \in Snapshots : s = pu[k][2]
      BY <2>1, <2>2
    <2>4. PICK F : F = FilesAt(ix, pu, k) /\ F = {HandleFor(ix, e) : e \in s}
      BY <1>2, <2>3 DEF FilesAt
    <2>5. /\ ix.paths \in Seq({x.path : x \in UNION Snapshots}) /\ Distinct(ix.paths)
          /\ ix.objs \in Seq(Objects) /\ Distinct(ix.objs)
          /\ \A e \in s : Contains(ix.paths, e.path) /\ Contains(ix.objs, e.obj)
      BY <2>1, <2>2, <2>3 DEF IndexOK, Shape, Pools, Indexes
    <2>6. ASSUME NEW e \in s
          PROVE  /\ HandleFor(ix, e).path \in 1..Len(ix.paths) /\ ix.paths[HandleFor(ix, e).path] = e.path
                 /\ HandleFor(ix, e).object \in 1..Len(ix.objs) /\ ix.objs[HandleFor(ix, e).object] = e.obj
                 /\ HandleFor(ix, e).meta = e.meta
                 /\ HandleFor(ix, e) \in Handles
      <3>1. PICK p, o : p = HandleOf(ix.paths, e.path) /\ o = HandleOf(ix.objs, e.obj)
        OBVIOUS
      <3>2. p \in 1..Len(ix.paths) /\ ix.paths[p] = e.path
        BY <2>5, <3>1, HandleFacts
      <3>3. o \in 1..Len(ix.objs) /\ ix.objs[o] = e.obj
        BY <2>5, <3>1, HandleFacts
      <3>4. p \in Nat \ {0} /\ o \in Nat \ {0}
        BY <2>5, <3>2, <3>3
      <3>5. e.meta \in Modes \cup {Symlink}
        BY SnapshotFacts
      <3> QED BY <3>1, <3>2, <3>3, <3>4, <3>5 DEF HandleFor, Handles
    <2>7. \A e, f \in s : HandleFor(ix, e).path = HandleFor(ix, f).path => e = f
      <3>1. \A e, f \in s : e.path = f.path => e = f
        BY SnapshotFacts
      <3> QED BY <2>6, <3>1
    <2>8. IsFiniteSet(F) /\ Cardinality(F) = Cardinality(s)
      <3>1. PICK hf : hf = [e \in s |-> HandleFor(ix, e)]
        OBVIOUS
      <3>2. hf \in Surjection(s, F) /\ hf \in Injection(s, F)
        BY <2>4, <2>7, <3>1 DEF Surjection, Injection, IsInjective
      <3>3. hf \in Bijection(s, F)
        BY <3>2 DEF Bijection
      <3>4. IsFiniteSet(s)
        BY SnapshotFacts
      <3> QED BY <3>3, <3>4, FS_Bijection DEF ExistsBijection
    <2> QED BY <2>3, <2>4, <2>6, <2>7, <2>8
  <1> QED BY <1>1, <1>2

\* A file that this program wrote, or one of version 1 or 2, is parsed to the index
\* it was written from.
LEMMA ParsedIs ==
    ASSUME NEW ix, NEW pu, IndexOK(ix, pu), NEW v, NEW file, SavedAs(file, ix, v)
    PROVE  /\ ParsedAs(Parse(file), ix, v)
           /\ file.version = v /\ file.features = Features(ix) /\ file.tags = ix.tags
           /\ v \in {1, 2, 3}
  <1>1. ix \in Indexes
    BY DEF IndexOK, Shape
  <1>2. InternAll(<<>>, ix.paths) = ix.paths /\ InternAll(<<>>, ix.objs) = ix.objs
    <2>1. ix.paths \in Seq({x.path : x \in UNION Snapshots}) /\ ix.objs \in Seq(Objects)
      BY <1>1 DEF Indexes
    <2>2. Distinct(ix.paths) /\ Distinct(ix.objs)
      BY DEF IndexOK, Pools
    <2>3. InternAll(<<>>, ix.paths) = ix.paths
      BY <2>1, <2>2, InternAllSame
    <2>4. InternAll(<<>>, ix.objs) = ix.objs
      BY <2>1, <2>2, InternAllSame
    <2> QED BY <2>3, <2>4
  <1>3. PICK n, D : /\ D = [added : SUBSET Handles, removed : SUBSET Handles] /\ n = Len(ix.deltas)
                    /\ n \in Nat /\ DOMAIN ix.deltas = 1..n /\ ix.deltas \in Seq(D)
                    /\ \A k \in 1..n : ix.deltas[k] \in D
    <2>1. PICK D : /\ D = [added : SUBSET Handles, removed : SUBSET Handles] /\ ix.deltas \in Seq(D)
      BY <1>1 DEF Indexes
    <2>2. ix.deltas \in Seq(D)
      BY <2>1
    <2>3. Len(ix.deltas) \in Nat /\ DOMAIN ix.deltas = 1..Len(ix.deltas)
          /\ \A k \in 1..Len(ix.deltas) : ix.deltas[k] \in D
      BY ONLY <2>2
    <2> QED BY <2>1, <2>3
  <1>4. \A h \in Handles : As(v, h) \in Handles /\ (v # 1 => As(v, h) = h)
    BY PackIndexAssumption DEF As, Handles
  <1>5. ASSUME NEW F \in SUBSET Handles
        PROVE  Image(v, F) \in SUBSET Handles /\ (v # 1 => Image(v, F) = F)
    BY <1>4 DEF Image
  <1>6. CASE v = 3 /\ file = Serialized(ix)
    <2>1. /\ file.version = 3 /\ file.features = Features(ix) /\ file.tags = ix.tags
          /\ file.deltas = ix.deltas /\ file.paths = ix.paths /\ file.objs = ix.objs
          /\ file.meta = ix.meta
      BY <1>6 DEF Serialized
    <2>2. file.features \ {"symlinks"} = {}
      BY <2>1 DEF Features
    <2>3. Parse(file) = [tags |-> ix.tags, deltas |-> ix.deltas, paths |-> ix.paths,
                         objs |-> ix.objs, meta |-> ix.meta, current |-> {}]
      BY <1>2, <2>1, <2>2 DEF Parse
    <2>4. Parse(file) \in Indexes
      BY <1>1, <2>3 DEF Indexes
    <2>5. \A k \in 1..n : /\ ix.deltas[k].added = Image(v, ix.deltas[k].added)
                          /\ ix.deltas[k].removed = Image(v, ix.deltas[k].removed)
      BY <1>3, <1>5, <1>6
    <2> QED BY <1>3, <1>6, <2>1, <2>3, <2>4, <2>5 DEF ParsedAs
  <1>7. CASE v \in {1, 2} /\ Features(ix) = {} /\ file = SerializedLegacy(ix, v)
    <2>0. v # 3
      BY <1>7
    <2>1. PICK old : old = [k \in 1..n |-> [d \in {"added", "removed"} |->
                {IF v = 1 THEN [path |-> h.path, object |-> h.object] ELSE h : h \in ix.deltas[k][d]}]]
      OBVIOUS
    <2>2. /\ file.version = v /\ file.features = Features(ix) /\ file.tags = ix.tags
          /\ file.deltas = old /\ file.paths = ix.paths /\ file.objs = ix.objs
          /\ file.meta = ix.meta
      BY <1>3, <1>7, <2>1 DEF SerializedLegacy, Serialized
    <2>3. PICK new : new = [k \in 1..n |-> [d \in {"added", "removed"} |->
                               {FromLegacy(h) : h \in old[k][d]}]]
      OBVIOUS
    <2>4. Parse(file) = [tags |-> ix.tags, deltas |-> new, paths |-> ix.paths,
                         objs |-> ix.objs, meta |-> ix.meta, current |-> {}]
      BY <1>2, <2>0, <2>1, <2>2, <2>3 DEF Parse
    <2>5. ASSUME NEW h \in Handles
          PROVE  FromLegacy(IF v = 1 THEN [path |-> h.path, object |-> h.object] ELSE h) = As(v, h)
      <3>1. h = [path |-> h.path, object |-> h.object, meta |-> h.meta]
        BY DEF Handles
      <3>2. CASE v = 1
        BY <3>2 DEF FromLegacy, As
      <3>3. CASE v # 1
        <4>1. "meta" \in DOMAIN h
          BY <3>1
        <4> QED BY <3>1, <3>3, <4>1 DEF FromLegacy, As
      <3> QED BY <3>2, <3>3
    <2>6. ASSUME NEW k \in 1..n, NEW d \in {"added", "removed"}
          PROVE  new[k][d] = Image(v, ix.deltas[k][d])
      <3>1. ix.deltas[k][d] \in SUBSET Handles
        BY <1>3
      <3>2. old[k][d] = {IF v = 1 THEN [path |-> h.path, object |-> h.object] ELSE h : h \in ix.deltas[k][d]}
        BY <2>1
      <3>3. new[k][d] = {FromLegacy(h) : h \in old[k][d]}
        BY <2>3
      <3>4. PICK G : G = ix.deltas[k][d] /\ G \in SUBSET Handles
        BY <3>1
      <3>5. new[k][d] = {FromLegacy(IF v = 1 THEN [path |-> h.path, object |-> h.object] ELSE h) : h \in G}
        BY ONLY <3>2, <3>3, <3>4
      <3> DEFINE Read(h) == FromLegacy(IF v = 1 THEN [path |-> h.path, object |-> h.object] ELSE h)
      <3>6. new[k][d] = {Read(h) : h \in G} /\ \A h \in G : Read(h) = As(v, h)
        BY ONLY <2>5, <3>4, <3>5
      <3> HIDE DEF Read
      <3>7. new[k][d] = {As(v, h) : h \in G}
        BY ONLY <3>6
      <3> QED BY <3>4, <3>7 DEF Image
    <2>7. \A k \in 1..n : /\ new[k].added = Image(v, ix.deltas[k].added)
                          /\ new[k].removed = Image(v, ix.deltas[k].removed)
      BY <1>3, <2>3, <2>6
    <2>8. new \in [1..n -> D]
      <3>1. ASSUME NEW k \in 1..n PROVE new[k] \in D
        <4>1. \A d \in {"added", "removed"} : new[k][d] \in SUBSET Handles
          BY <1>3, <1>5, <2>6
        <4>2. new[k] = [d \in {"added", "removed"} |-> new[k][d]]
          BY <2>3
        <4> QED BY ONLY <1>3, <4>1, <4>2
      <3>2. new = [k \in 1..n |-> new[k]]
        BY <2>3
      <3> QED BY ONLY <3>1, <3>2
    <2>9. new \in Seq(D) /\ Len(new) = n
      <3>1. n \in Nat
        BY <1>3
      <3> QED BY ONLY <2>8, <3>1, ListOf
    <2>10. Parse(file) \in Indexes
      BY <1>1, <1>3, <2>4, <2>9 DEF Indexes
    <2> QED BY <1>3, <1>7, <2>2, <2>4, <2>7, <2>9, <2>10 DEF ParsedAs
  <1> QED BY <1>6, <1>7 DEF SavedAs

\* Handles of a finite number of files, each with a path of its own.
OnePerPath(F) ==
    F \in SUBSET Handles /\ IsFiniteSet(F) /\ \A g, h \in F : g.path = h.path => g = h

\* What Image preserves.
ImageLaws(v, A, B) ==
    /\ Image(v, A \ B) = Image(v, A) \ Image(v, B)
    /\ Image(v, A \cup B) = Image(v, A) \cup Image(v, B)
    /\ (A \cap B = {}) => (Image(v, A) \cap Image(v, B) = {})
    /\ B \subseteq A => Image(v, B) \subseteq Image(v, A)
    /\ Cardinality(Image(v, B)) = Cardinality(B)

\* On the handles of one snapshot no two become the same.
LEMMA ImageFacts ==
    ASSUME NEW F, OnePerPath(F), NEW v, NEW A, A \subseteq F, NEW B, B \subseteq F
    PROVE  ImageLaws(v, A, B)
  <1>1. \A g, h \in F : As(v, g) = As(v, h) => g = h
    BY DEF As, OnePerPath
  <1>2. Cardinality(Image(v, B)) = Cardinality(B)
    <2>1. PICK hf : hf = [h \in B |-> As(v, h)]
      OBVIOUS
    <2>2. hf \in Surjection(B, Image(v, B)) /\ hf \in Injection(B, Image(v, B))
      BY <1>1, <2>1 DEF Surjection, Injection, IsInjective, Image
    <2>3. hf \in Bijection(B, Image(v, B))
      BY <2>2 DEF Bijection
    <2>4. IsFiniteSet(B)
      BY FS_Subset DEF OnePerPath
    <2> QED BY <2>3, <2>4, FS_Bijection DEF ExistsBijection
  <1> QED BY <1>1, <1>2 DEF Image, ImageLaws

\* What the k-th delta of a parsed index does: it leads from the image of F to the
\* image of G.
DeltaOK(px, v, k, F, G) ==
    /\ (Image(v, F) \ px.deltas[k].removed) \cup px.deltas[k].added = Image(v, G)
    /\ px.deltas[k].removed \subseteq Image(v, F)
    /\ px.deltas[k].added \cap (Image(v, F) \ px.deltas[k].removed) = {}
    /\ Cardinality(F) \in Nat /\ Cardinality(G) \in Nat
    /\ Cardinality(F) + Cardinality(px.deltas[k].added) - Cardinality(px.deltas[k].removed)
       = Cardinality(G)

\* The deltas of a parsed index, as changes between the images of the snapshots.
LEMMA DeltaFacts ==
    ASSUME NEW ix, NEW pu, IndexOK(ix, pu), NEW v, NEW px, ParsedAs(px, ix, v), NEW k \in 1..Len(pu)
    PROVE  DeltaOK(px, v, k, FilesAt(ix, pu, k - 1), FilesAt(ix, pu, k))
  <1>0. PICK F, G : F = FilesAt(ix, pu, k - 1) /\ G = FilesAt(ix, pu, k)
    OBVIOUS
  <1>1. Len(pu) \in Nat /\ Len(ix.deltas) = Len(pu)
    BY DEF IndexOK, Shape
  <1>2. k - 1 \in 0..Len(pu) /\ k \in 0..Len(pu)
    BY <1>1
  <1>3. IsFiniteSet(F) /\ OnePerPath(F)
    BY <1>0, <1>2, FilesAtFacts DEF OnePerPath
  <1>4. IsFiniteSet(G) /\ OnePerPath(G)
    BY <1>0, <1>2, FilesAtFacts DEF OnePerPath
  <1>5. px.deltas[k].added = Image(v, G \ F) /\ px.deltas[k].removed = Image(v, F \ G)
    <2>1. ix.deltas[k] = Changes(F, G)
      BY <1>0 DEF IndexOK, Deltas
    <2>2. ix.deltas[k].added = G \ F /\ ix.deltas[k].removed = F \ G
      BY <2>1 DEF Changes
    <2> QED BY <1>1, <2>2 DEF ParsedAs
  <1>6. PICK C, A, R : C = F \cap G /\ A = G \ F /\ R = F \ G
    OBVIOUS
  <1>7. /\ C \subseteq G /\ A \subseteq G /\ R \subseteq F /\ F \subseteq F
        /\ F \ R = C /\ C \cup A = G /\ C \cap A = {}
    BY <1>6
  <1>8. Image(v, F) \ Image(v, R) = Image(v, C) /\ Image(v, R) \subseteq Image(v, F)
        /\ Cardinality(Image(v, R)) = Cardinality(R)
    <2>1. ImageLaws(v, F, R)
      BY <1>3, <1>7, ImageFacts
    <2> QED BY <1>7, <2>1 DEF ImageLaws
  <1>9. /\ Image(v, C) \cup Image(v, A) = Image(v, G) /\ Image(v, C) \cap Image(v, A) = {}
        /\ Cardinality(Image(v, A)) = Cardinality(A)
    <2>1. ImageLaws(v, C, A)
      BY <1>4, <1>7, ImageFacts
    <2> QED BY <1>7, <2>1 DEF ImageLaws
  <1>10. /\ Cardinality(F) \in Nat /\ Cardinality(G) \in Nat
         /\ Cardinality(F) + Cardinality(A) - Cardinality(R) = Cardinality(G)
    <2>1. Cardinality(F) \in Nat /\ Cardinality(G) \in Nat
      BY <1>3, <1>4, FS_CardinalityType
    <2>2. Cardinality(R) = Cardinality(F) - Cardinality(F \cap G)
      BY <1>3, <1>6, FS_Difference
    <2>3. Cardinality(A) = Cardinality(G) - Cardinality(G \cap F)
      BY <1>4, <1>6, FS_Difference
    <2>4. G \cap F = C /\ F \cap G = C /\ Cardinality(C) \in Nat
      <3>1. IsFiniteSet(C)
        BY <1>3, <1>6, FS_Intersection
      <3> QED BY <1>6, <3>1, FS_CardinalityType
    <2>5. Cardinality(R) = Cardinality(F) - Cardinality(C) /\ Cardinality(A) = Cardinality(G) - Cardinality(C)
      BY <2>2, <2>3, <2>4
    <2> QED BY ONLY <2>1, <2>4, <2>5
  <1>11. px.deltas[k].added = Image(v, A) /\ px.deltas[k].removed = Image(v, R)
    BY <1>5, <1>6
  <1>12. DeltaOK(px, v, k, F, G)
    BY <1>8, <1>9, <1>10, <1>11 DEF DeltaOK
  <1> QED BY <1>0, <1>12

\* Replaying the deltas of a parsed index gives back every snapshot.
LEMMA ReplayedIs ==
    ASSUME NEW ix, NEW pu, IndexOK(ix, pu), NEW v, NEW px, ParsedAs(px, ix, v)
    PROVE  \A k \in 0..Len(pu) : Replayed(px)[k] = Image(v, FilesAt(ix, pu, k))
  <1>1. PICK n \in Nat : n = Len(pu) /\ Len(px.deltas) = n
    BY DEF IndexOK, Shape, ParsedAs
  <1> DEFINE Eq(f) == f = [k \in 0..n |-> IF k = 0 THEN {}
                              ELSE (f[k - 1] \ px.deltas[k].removed) \cup px.deltas[k].added]
             g == [k \in 0..n |-> Image(v, FilesAt(ix, pu, k))]
  <1>2. g[0] = {}
    BY DEF FilesAt, Image
  <1>3. ASSUME NEW k \in 1..n
        PROVE  g[k] = (g[k - 1] \ px.deltas[k].removed) \cup px.deltas[k].added
    <2>1. k - 1 \in 0..n /\ k \in 0..n
      OBVIOUS
    <2>2. PICK F, G : /\ F = FilesAt(ix, pu, k - 1) /\ G = FilesAt(ix, pu, k)
                      /\ g[k - 1] = Image(v, F) /\ g[k] = Image(v, G)
      BY <2>1
    <2>3. DeltaOK(px, v, k, F, G)
      BY <1>1, <2>2, DeltaFacts
    <2> HIDE DEF g
    <2> QED BY <2>2, <2>3 DEF DeltaOK
  <1>4. Eq(g)
    <2>1. ASSUME NEW k \in 0..n
          PROVE  g[k] = IF k = 0 THEN {} ELSE (g[k - 1] \ px.deltas[k].removed) \cup px.deltas[k].added
      <3>1. k = 0 \/ k \in 1..n
        OBVIOUS
      <3> HIDE DEF g
      <3> QED BY <1>2, <1>3, <3>1
    <2>2. g = [k \in 0..n |-> g[k]]
      OBVIOUS
    <2> HIDE DEF g
    <2> QED BY <2>1, <2>2
  <1>5. PICK f : Eq(f) /\ Replayed(px) = f
    <2>1. Replayed(px) = CHOOSE f : Eq(f)
      BY <1>1 DEF Replayed
    <2> HIDE DEF Eq, g
    <2> QED BY <1>4, <2>1
  <1> DEFINE T == {k \in 0..n : f[k] = g[k]}
  <1> HIDE DEF g
  <1>6. 0 \in T
    BY <1>2, <1>5
  <1>7. ASSUME NEW k \in 0..n - 1, k \in T PROVE k + 1 \in T
    <2>1. k + 1 \in 1..n /\ (k + 1) - 1 = k /\ k + 1 \in 0..n /\ k + 1 # 0
      OBVIOUS
    <2>2. f[k + 1] = (f[k] \ px.deltas[k + 1].removed) \cup px.deltas[k + 1].added
      BY <1>5, <2>1
    <2>3. g[k + 1] = (g[k] \ px.deltas[k + 1].removed) \cup px.deltas[k + 1].added
      BY <1>3, <2>1
    <2> QED BY <1>7, <2>1, <2>2, <2>3
  <1>8. 0..n \subseteq T
    <2> HIDE DEF T, Eq
    <2> QED BY <1>6, <1>7, BoundedInduction
  <1> QED BY <1>1, <1>5, <1>8 DEF g

\* The counts that are summed along the deltas are the numbers of files.
LEMMA FileCountIs ==
    ASSUME NEW ix, NEW pu, IndexOK(ix, pu), NEW v, NEW px, ParsedAs(px, ix, v)
    PROVE  \A k \in 0..Len(pu) : FileCount(px)[k] = Cardinality(FilesAt(ix, pu, k))
  <1>1. PICK n \in Nat : n = Len(pu) /\ Len(px.deltas) = n
    BY DEF IndexOK, Shape, ParsedAs
  <1> DEFINE Eq(f) == f = [k \in 0..n |-> IF k = 0 THEN 0
                              ELSE f[k - 1] + Cardinality(px.deltas[k].added)
                                            - Cardinality(px.deltas[k].removed)]
             g == [k \in 0..n |-> Cardinality(FilesAt(ix, pu, k))]
  <1>2. g[0] = 0
    BY FS_EmptySet DEF FilesAt
  <1>3. ASSUME NEW k \in 1..n
        PROVE  g[k] = g[k - 1] + Cardinality(px.deltas[k].added) - Cardinality(px.deltas[k].removed)
    <2>1. k - 1 \in 0..n /\ k \in 0..n
      OBVIOUS
    <2>2. PICK F, G : /\ F = FilesAt(ix, pu, k - 1) /\ G = FilesAt(ix, pu, k)
                      /\ g[k - 1] = Cardinality(F) /\ g[k] = Cardinality(G)
      BY <2>1
    <2>3. DeltaOK(px, v, k, F, G)
      BY <1>1, <2>2, DeltaFacts
    <2> HIDE DEF g
    <2> QED BY <2>2, <2>3 DEF DeltaOK
  <1>4. Eq(g)
    <2>1. ASSUME NEW k \in 0..n
          PROVE  g[k] = IF k = 0 THEN 0 ELSE g[k - 1] + Cardinality(px.deltas[k].added)
                                                      - Cardinality(px.deltas[k].removed)
      <3>1. k = 0 \/ k \in 1..n
        OBVIOUS
      <3> HIDE DEF g
      <3> QED BY <1>2, <1>3, <3>1
    <2>2. g = [k \in 0..n |-> g[k]]
      OBVIOUS
    <2> HIDE DEF g
    <2> QED BY <2>1, <2>2
  <1>5. PICK f : Eq(f) /\ FileCount(px) = f
    <2>1. FileCount(px) = CHOOSE f : Eq(f)
      BY <1>1 DEF FileCount
    <2> HIDE DEF Eq, g
    <2> QED BY <1>4, <2>1
  <1> DEFINE T == {k \in 0..n : f[k] = g[k]}
  <1> HIDE DEF g
  <1>6. 0 \in T
    BY <1>2, <1>5
  <1>7. ASSUME NEW k \in 0..n - 1, k \in T PROVE k + 1 \in T
    <2>1. k + 1 \in 1..n /\ (k + 1) - 1 = k /\ k + 1 \in 0..n /\ k + 1 # 0
      OBVIOUS
    <2>2. f[k + 1] = f[k] + Cardinality(px.deltas[k + 1].added) - Cardinality(px.deltas[k + 1].removed)
      BY <1>5, <2>1
    <2>3. g[k + 1] = g[k] + Cardinality(px.deltas[k + 1].added) - Cardinality(px.deltas[k + 1].removed)
      BY <1>3, <2>1
    <2> QED BY <1>7, <2>1, <2>2, <2>3
  <1>8. 0..n \subseteq T
    <2> HIDE DEF T, Eq
    <2> QED BY <1>6, <1>7, BoundedInduction
  <1> QED BY <1>1, <1>5, <1>8 DEF g

\* The entry that resolving gives for an entry e that was pushed.
EntryAs(ix, v, e) ==
    [path |-> e.path, obj |-> e.obj, meta |-> IF v = 1 THEN DefaultMode ELSE e.meta,
     size |-> Size[e.obj], offset |-> ix.meta[HandleOf(ix.objs, e.obj)].offset]

\* A snapshot that was pushed is found under its tag, with its entries.
LEMMA ResolvedIs ==
    ASSUME NEW ix, NEW pu, IndexOK(ix, pu), NEW v, NEW px, ParsedAs(px, ix, v), NEW k \in 1..Len(pu)
    PROVE  /\ Contains(px.tags, pu[k][1])
           /\ Resolve(px, pu[k][1]) = {EntryAs(ix, v, e) : e \in pu[k][2]}
  <1>1. PICK n \in Nat : n = Len(pu) /\ Len(ix.tags) = n
    BY DEF IndexOK, Shape
  <1>2. PICK t, s : t = pu[k][1] /\ s = pu[k][2]
    OBVIOUS
  <1>3. /\ ix \in Indexes /\ px.tags = ix.tags /\ px.paths = ix.paths /\ px.objs = ix.objs
        /\ px.meta = ix.meta
    BY DEF IndexOK, Shape, ParsedAs
  <1>4. /\ ix.tags \in Seq(Tags) /\ Distinct(ix.tags)
        /\ ix.paths \in Seq({x.path : x \in UNION Snapshots}) /\ Distinct(ix.paths)
        /\ ix.objs \in Seq(Objects) /\ Distinct(ix.objs)
        /\ \A e \in s : Contains(ix.paths, e.path) /\ Contains(ix.objs, e.obj)
        /\ ix.tags[k] = t
        /\ \A h \in 1..Len(ix.objs) : ix.meta[h].size = Size[ix.objs[h]]
    BY <1>2, <1>3 DEF IndexOK, Pools, Shape, Indexes
  <1>5. Contains(px.tags, t) /\ HandleOf(px.tags, t) = k
    BY <1>1, <1>3, <1>4, HandleFacts
  <1>6. Replayed(px)[k] = Image(v, FilesAt(ix, pu, k))
    <2>1. k \in 0..Len(pu)
      BY <1>1
    <2> QED BY <2>1, ReplayedIs
  <1>7. FilesAt(ix, pu, k) = {HandleFor(ix, e) : e \in s}
    BY <1>1, <1>2 DEF FilesAt
  <1>8. ASSUME NEW e \in s PROVE EntryOf(px, As(v, HandleFor(ix, e))) = EntryAs(ix, v, e)
    <2>1. PICK p, o : p = HandleOf(ix.paths, e.path) /\ o = HandleOf(ix.objs, e.obj)
      OBVIOUS
    <2>2. ix.paths[p] = e.path
      BY <1>4, <2>1, HandleFacts
    <2>3. o \in 1..Len(ix.objs) /\ ix.objs[o] = e.obj
      BY <1>4, <2>1, HandleFacts
    <2>4. ix.meta[o].size = Size[e.obj]
      BY <1>4, <2>3
    <2> QED BY <1>3, <2>1, <2>2, <2>3, <2>4 DEF EntryOf, As, HandleFor, EntryAs
  <1>9. Resolve(px, t) = {EntryOf(px, h) : h \in Replayed(px)[k]}
    BY <1>5 DEF Resolve
  <1>10. Replayed(px)[k] = {As(v, HandleFor(ix, e)) : e \in s}
    BY <1>6, <1>7 DEF Image
  <1>11. Resolve(px, t) = {EntryOf(px, As(v, HandleFor(ix, e))) : e \in s}
    BY <1>9, <1>10
  <1> QED BY <1>2, <1>5, <1>8, <1>11

\* A link in a snapshot shows in the deltas.
LEMMA LinkFeature ==
    ASSUME NEW ix, NEW pu, IndexOK(ix, pu), NEW k \in 1..Len(pu), NEW e \in pu[k][2], e.meta = Symlink
    PROVE  Features(ix) = {"symlinks"}
  <1>1. PICK n \in Nat : n = Len(pu) /\ DOMAIN ix.deltas = 1..n
    BY DEF IndexOK, Shape, Indexes
  <1>2. SUFFICES ASSUME Features(ix) # {"symlinks"} PROVE FALSE
    OBVIOUS
  <1>3. \A j \in 1..n : \A h \in ix.deltas[j].added \cup ix.deltas[j].removed : h.meta # Symlink
    BY <1>1, <1>2 DEF Features
  <1> DEFINE T == {j \in 0..n : \A h \in FilesAt(ix, pu, j) : h.meta # Symlink}
  <1>4. 0 \in T
    BY DEF FilesAt
  <1>5. ASSUME NEW j \in 0..n - 1, j \in T PROVE j + 1 \in T
    <2>1. j + 1 \in 1..n /\ (j + 1) - 1 = j /\ j + 1 \in 0..n
      OBVIOUS
    <2>2. PICK F, G : F = FilesAt(ix, pu, j) /\ G = FilesAt(ix, pu, j + 1)
      OBVIOUS
    <2>3. ix.deltas[j + 1] = Changes(F, G)
      BY <1>1, <2>1, <2>2 DEF IndexOK, Deltas
    <2>4. G \subseteq F \cup ix.deltas[j + 1].added
      BY <2>3 DEF Changes
    <2> QED BY <1>3, <1>5, <2>1, <2>2, <2>4
  <1>6. 0..n \subseteq T
    <2> HIDE DEF T
    <2> QED BY <1>4, <1>5, BoundedInduction
  <1>7. HandleFor(ix, e) \in FilesAt(ix, pu, k) /\ HandleFor(ix, e).meta = Symlink /\ k \in 0..n
    BY <1>1 DEF FilesAt, HandleFor
  <1> QED BY <1>6, <1>7

\* RoundTrip holds of an index in order and a file it was saved to.
LEMMA SavedRoundTrip ==
    ASSUME IndexOK(index, pushed), NEW v, SavedAs(idxFile, index, v)
    PROVE  RoundTrip
  <1>1. PICK px : px = Parse(idxFile) /\ ParsedAs(px, index, v)
    BY ParsedIs
  <1>2. /\ idxFile.version = v /\ idxFile.features = Features(index)
        /\ idxFile.tags = index.tags /\ v \in {1, 2, 3}
    BY ParsedIs
  <1>3. PICK n \in Nat : /\ n = Len(pushed) /\ pushed \in Seq(Tags \X Snapshots) /\ DOMAIN pushed = 1..n
                         /\ Len(index.tags) = n /\ index.tags \in Seq(Tags)
                         /\ Len(index.deltas) = n
    BY DEF IndexOK, Shape, Indexes
  <1>4. px # Nil
    BY <1>1, NilAssumption DEF ParsedAs
  <1>5. ParseTags(idxFile) = [k \in DOMAIN pushed |-> pushed[k][1]]
    <2>1. DOMAIN index.tags = 1..n /\ index.tags = [k \in 1..n |-> index.tags[k]]
      <3>1. PICK tags : tags = index.tags /\ tags \in Seq(Tags) /\ Len(tags) = n
        BY <1>3
      <3>2. DOMAIN tags = 1..n /\ tags = [k \in 1..n |-> tags[k]]
        BY ONLY <3>1
      <3> QED BY <3>1, <3>2
    <2>2. \A k \in 1..n : index.tags[k] = pushed[k][1]
      BY <1>3 DEF IndexOK, Pools
    <2> QED BY <1>2, <1>3, <2>1, <2>2 DEF ParseTags
  <1>6. Applies(px)
    <2>1. DOMAIN px.deltas = 1..n
      BY <1>1, <1>3 DEF ParsedAs, Indexes
    <2>2. ASSUME NEW k \in 1..n
          PROVE  /\ px.deltas[k].removed \subseteq Replayed(px)[k - 1]
                 /\ px.deltas[k].added \cap (Replayed(px)[k - 1] \ px.deltas[k].removed) = {}
      <3>1. k - 1 \in 0..n
        OBVIOUS
      <3>2. Replayed(px)[k - 1] = Image(v, FilesAt(index, pushed, k - 1))
        BY <1>1, <1>3, <3>1, ReplayedIs
      <3>3. DeltaOK(px, v, k, FilesAt(index, pushed, k - 1), FilesAt(index, pushed, k))
        BY <1>1, <1>3, DeltaFacts
      <3> QED BY <3>2, <3>3 DEF DeltaOK
    <2> QED BY <2>1, <2>2 DEF Applies
  <1>7. ASSUME NEW k \in 1..n
        PROVE  /\ SnapshotChecksum(px, pushed[k][1]) = Recorded(pushed[k][2])
               /\ FileCount(px)[k] = Cardinality(pushed[k][2])
               /\ (\E e \in pushed[k][2] : e.meta = Symlink) => "symlinks" \in idxFile.features
    <2>1. PICK t, s : t = pushed[k][1] /\ s = pushed[k][2] /\ s \in Snapshots
      <3>1. pushed[k] \in Tags \X Snapshots
        BY <1>3, ElementOfSeq
      <3> QED BY <3>1
    <2>2. Resolve(px, t) = {EntryAs(index, v, e) : e \in s}
      <3>1. k \in 1..Len(pushed) /\ ParsedAs(px, index, v)
        BY <1>1, <1>3
      <3>2. Resolve(px, pushed[k][1]) = {EntryAs(index, v, e) : e \in pushed[k][2]}
        BY <3>1, ResolvedIs
      <3> QED BY <2>1, <3>2
    <2>3. SnapshotChecksum(px, t) = Recorded(s)
      <3>1. \A e \in s : e = [path |-> e.path, obj |-> e.obj, meta |-> e.meta]
        BY <2>1, SnapshotFacts
      <3> DEFINE Kept(e) == [path |-> e.path, obj |-> e.obj, meta |-> e.meta]
      <3>2. SnapshotChecksum(px, t) =
               {[path |-> e.path, obj |-> e.obj, meta |-> IF v = 1 THEN DefaultMode ELSE e.meta] : e \in s}
        <4>1. \A e : Kept(EntryAs(index, v, e))
                     = [path |-> e.path, obj |-> e.obj, meta |-> IF v = 1 THEN DefaultMode ELSE e.meta]
          BY DEF EntryAs
        <4>2. SnapshotChecksum(px, t) = {Kept(x) : x \in Resolve(px, t)}
          BY DEF SnapshotChecksum
        <4>3. SnapshotChecksum(px, t) = {Kept(EntryAs(index, v, e)) : e \in s}
          <5> HIDE DEF Kept
          <5> QED BY ONLY <2>2, <4>2
        <4> QED BY ZenonT(40), <4>1, <4>3
      <3>3. CASE v = 1
        <4>1. \A e \in s : [e EXCEPT !.meta = DefaultMode]
                           = [path |-> e.path, obj |-> e.obj, meta |-> DefaultMode]
          <5>1. \A p, o, m : [[path |-> p, obj |-> o, meta |-> m] EXCEPT !.meta = DefaultMode]
                             = [path |-> p, obj |-> o, meta |-> DefaultMode]
            OBVIOUS
          <5> QED BY <3>1, <5>1
        <4>2. SnapshotChecksum(px, t) = {[path |-> e.path, obj |-> e.obj, meta |-> DefaultMode] : e \in s}
          BY <3>2, <3>3
        <4>3. Recorded(s) = {[e EXCEPT !.meta = DefaultMode] : e \in s}
          BY <1>2, <3>3 DEF Recorded
        <4> DEFINE Plain(e) == [e EXCEPT !.meta = DefaultMode]
                   Spelt(e) == [path |-> e.path, obj |-> e.obj, meta |-> DefaultMode]
        <4>4. \A e \in s : Plain(e) = Spelt(e)
          BY <4>1
        <4>5. SnapshotChecksum(px, t) = {Spelt(e) : e \in s} /\ Recorded(s) = {Plain(e) : e \in s}
          BY <4>2, <4>3
        <4> HIDE DEF Plain, Spelt
        <4> QED BY ONLY <4>4, <4>5
      <3>4. CASE v # 1
        <4>1. SnapshotChecksum(px, t) = {[path |-> e.path, obj |-> e.obj, meta |-> e.meta] : e \in s}
          BY <3>2, <3>4
        <4>2. SnapshotChecksum(px, t) = s
          BY <3>1, <4>1
        <4> QED BY <1>2, <3>4, <4>2 DEF Recorded
      <3> QED BY <3>3, <3>4
    <2>4. FileCount(px)[k] = Cardinality(s)
      <3>1. k \in 0..Len(pushed) /\ k # 0
        BY <1>3
      <3> QED BY <1>1, <2>1, <3>1, FileCountIs, FilesAtFacts
    <2>5. (\E e \in s : e.meta = Symlink) => "symlinks" \in idxFile.features
      BY <1>2, <1>3, <2>1, LinkFeature
    <2> QED BY <2>1, <2>3, <2>4, <2>5
  <1> QED BY <1>1, <1>3, <1>4, <1>5, <1>6, <1>7 DEF RoundTrip

-----------------------------------------------------------------------------
(* The layout of the objects                                               *)

\* The sizes of the objects are numbers.
Sized(ix, n) ==
    /\ n \in Nat /\ DOMAIN ix.meta = 1..n
    /\ \A h \in 1..n : ix.meta[h].size \in Nat

\* A list of the n objects in the order of Precedes.
Sorted(ix, s, n) ==
    /\ s \in Seq(1..n) /\ Len(s) = n /\ DOMAIN s = 1..n
    /\ \A i \in 1..n : s[i] \in 1..n
    /\ \A i, j \in 1..n : i # j => s[i] # s[j]
    /\ \A h \in 1..n : \E i \in 1..n : s[i] = h
    /\ \A i, j \in 1..n : i < j => Precedes(ix, s[i], s[j])

\* Precedes is a strict total order.
LEMMA PrecedesOrders ==
    ASSUME NEW ix, NEW n, Sized(ix, n)
    PROVE  /\ \A g \in 1..n : ~Precedes(ix, g, g)
           /\ \A g, h \in 1..n : g # h => Precedes(ix, g, h) \/ Precedes(ix, h, g)
           /\ \A g, h \in 1..n : ~(Precedes(ix, g, h) /\ Precedes(ix, h, g))
           /\ \A f, g, h \in 1..n : Precedes(ix, f, g) /\ Precedes(ix, g, h) => Precedes(ix, f, h)
  BY SMTT(30) DEF Sized, Precedes

\* The objects can be sorted, by the number of objects that precede each.
LEMMA SortedExists ==
    ASSUME NEW ix, NEW n, Sized(ix, n)
    PROVE  Sorted(ix, Ordering(ix), n)
  <1> DEFINE D == 1..n
             below(h) == {x \in D : Precedes(ix, x, h)}
             rank == [h \in D |-> Cardinality(below(h)) + 1]
  <1>1. n \in Nat /\ DOMAIN ix.meta = D
    BY DEF Sized
  <1>2. IsFiniteSet(D) /\ Cardinality(D) = n
    BY <1>1, FS_Interval
  <1>3. ASSUME NEW h \in D
        PROVE  IsFiniteSet(below(h)) /\ Cardinality(below(h)) \in 0..n - 1
    <2>1. below(h) \in SUBSET D /\ h \notin below(h)
      BY PrecedesOrders
    <2> HIDE DEF below, D
    <2>2. IsFiniteSet(below(h)) /\ Cardinality(below(h)) <= n /\ (n = Cardinality(below(h)) => D = below(h))
      BY <1>2, <2>1, FS_Subset
    <2>3. Cardinality(below(h)) \in Nat
      BY <2>2, FS_CardinalityType
    <2>4. n # Cardinality(below(h))
      BY <1>3, <2>1, <2>2
    <2> QED BY <1>1, <2>2, <2>3, <2>4
  <1>4. ASSUME NEW g \in D, NEW h \in D, Precedes(ix, g, h) PROVE rank[g] < rank[h]
    <2>1. below(g) \in SUBSET below(h) /\ below(g) # below(h)
      <3>1. g \in below(h) /\ g \notin below(g)
        BY <1>4, PrecedesOrders
      <3>2. \A x \in below(g) : x \in below(h)
        BY <1>4, PrecedesOrders
      <3> QED BY <3>1, <3>2
    <2>2. PICK a, b : a = Cardinality(below(g)) /\ b = Cardinality(below(h))
      OBVIOUS
    <2> HIDE DEF below, D
    <2>3. IsFiniteSet(below(h)) /\ a \in 0..n - 1 /\ b \in 0..n - 1
      BY <1>3, <2>2
    <2>4. a <= b /\ a # b
      BY <2>1, <2>2, <2>3, FS_Subset
    <2>5. rank[g] = a + 1 /\ rank[h] = b + 1
      BY <2>2
    <2> QED BY <1>1, <2>3, <2>4, <2>5
  <1>5. rank \in [D -> D]
    <2>1. \A h \in D : Cardinality(below(h)) + 1 \in D
      <3>1. ASSUME NEW h \in D PROVE Cardinality(below(h)) + 1 \in D
        <4>1. PICK a : a = Cardinality(below(h)) /\ a \in 0..n - 1
          BY <1>3
        <4> HIDE DEF below
        <4> QED BY <1>1, <4>1
      <3> QED BY <3>1
    <2> HIDE DEF below
    <2> QED BY <2>1
  <1> HIDE DEF rank, below
  <1>6. \A g, h \in D : g # h => rank[g] # rank[h]
    <2>1. ASSUME NEW g \in D, NEW h \in D, g # h PROVE rank[g] # rank[h]
      <3>1. rank[g] \in Nat /\ rank[h] \in Nat
        BY <1>5
      <3>2. Precedes(ix, g, h) \/ Precedes(ix, h, g)
        BY <2>1, PrecedesOrders
      <3> QED BY <1>4, <3>1, <3>2
    <2> QED BY <2>1
  <1>7. \A i \in D : \E h \in D : rank[h] = i
    <2> HIDE DEF D
    <2>1. rank \in Injection(D, D)
      BY <1>5, <1>6 DEF Injection, IsInjective
    <2>2. rank \in Surjection(D, D)
      BY <1>2, <2>1, FS_Injection
    <2> QED BY <2>2 DEF Surjection
  <1> DEFINE s == [i \in D |-> CHOOSE h \in D : rank[h] = i]
  <1>8. \A i \in D : s[i] \in D /\ rank[s[i]] = i
    BY <1>7
  <1>9. s \in [D -> D]
    BY <1>8
  <1> HIDE DEF s
  <1>10. \A i, j \in D : i # j => s[i] # s[j]
    BY <1>8
  <1>11. s \in SetToSeqs(D)
    BY <1>2, <1>9, <1>10 DEF SetToSeqs
  <1>12. \A i, j \in D : i < j => Precedes(ix, s[i], s[j])
    <2>1. ASSUME NEW i \in D, NEW j \in D, i < j PROVE Precedes(ix, s[i], s[j])
      <3>1. s[i] \in D /\ s[j] \in D /\ rank[s[i]] = i /\ rank[s[j]] = j /\ i \in Nat /\ j \in Nat
        BY <1>8
      <3>2. Precedes(ix, s[i], s[j]) \/ Precedes(ix, s[j], s[i])
        BY <1>10, <2>1, <3>1, PrecedesOrders
      <3>3. ~Precedes(ix, s[j], s[i])
        BY <1>4, <2>1, <3>1
      <3> QED BY <3>2, <3>3
    <2> QED BY <2>1
  <1>13. PICK o : /\ o = Ordering(ix) /\ o \in SetToSeqs(D)
                  /\ \A i, j \in DOMAIN o : i < j => Precedes(ix, o[i], o[j])
    <2>1. DOMAIN s = D
      BY <1>9
    <2>2. \E r \in SetToSeqs(D) : \A i, j \in DOMAIN r : i < j => Precedes(ix, r[i], r[j])
      BY <1>11, <1>12, <2>1
    <2> QED BY <1>1, <2>2 DEF Ordering
  <1>14. /\ o \in Seq(D) /\ Len(o) = n /\ DOMAIN o = D
         /\ \A i, j \in 1..n : i # j => o[i] # o[j]
         /\ \A h \in D : \E i \in 1..n : o[i] = h
    <2> HIDE DEF D
    <2>1. /\ o \in Seq(D) /\ Len(o) = Cardinality(D) /\ DOMAIN o = 1..Len(o)
          /\ \A i, j \in 1..Len(o) : i # j => o[i] # o[j]
          /\ \A h \in D : \E i \in 1..Len(o) : o[i] = h
      BY <1>2, <1>13, ListsOfSet
    <2> QED BY <1>2, <2>1 DEF D
  <1>15. \A i \in 1..n : o[i] \in 1..n
    BY <1>14, ElementOfSeq
  <1> QED BY <1>13, <1>14, <1>15 DEF Sorted

\* Where the objects are: ord lists them, P are the sums of their sizes, and each
\* begins where the one before ends.
Layout(ix, ord, P, n) ==
    /\ n = Len(ix.objs) /\ n \in Nat
    /\ ord \in Seq(1..n) /\ Len(ord) = n /\ DOMAIN ord = 1..n
    /\ \A i \in 1..n : ord[i] \in 1..n
    /\ \A i, j \in 1..n : i # j => ord[i] # ord[j]
    /\ \A h \in 1..n : \E i \in 1..n : ord[i] = h
    /\ Sums(P, n, [i \in 1..n |-> Size[ix.objs[ord[i]]]])
    /\ Weighs([i \in 1..n |-> Size[ix.objs[ord[i]]]], 1..n)
    /\ \A i \in 1..n : /\ ix.objs[ord[i]] \in Objects
                       /\ ix.meta[ord[i]] = [size |-> Size[ix.objs[ord[i]]], offset |-> P[i - 1]]

\* An index keeps its order when the offsets are computed, and the objects are laid
\* out one after the other in the order that Ordering gives.
LEMMA LaidOutOK ==
    ASSUME NEW ix, NEW pu, IndexOK(ix, pu)
    PROVE  /\ IndexOK(LaidOut(ix), pu)
           /\ Features(LaidOut(ix)) = Features(ix)
           /\ LaidOut(ix).objs = ix.objs
           /\ \E P : Layout(LaidOut(ix), Ordering(ix), P, Len(ix.objs))
  <1>1. PICK n : /\ n = Len(ix.objs) /\ n \in Nat /\ Len(ix.meta) = n
                 /\ ix.objs \in Seq(Objects) /\ ix.meta \in Seq([size : Nat, offset : Nat])
                 /\ \A h \in 1..n : ix.meta[h].size = Size[ix.objs[h]]
    <2>1. /\ ix.objs \in Seq(Objects) /\ ix.meta \in Seq([size : Nat, offset : Nat])
          /\ Len(ix.meta) = Len(ix.objs)
          /\ \A h \in 1..Len(ix.objs) : ix.meta[h].size = Size[ix.objs[h]]
      BY DEF IndexOK, Shape, Indexes
    <2>2. Len(ix.objs) \in Nat
      BY <2>1, LenProperties
    <2> QED BY <2>1, <2>2
  <1>2. DOMAIN ix.meta = 1..n /\ \A h \in 1..n : ix.meta[h] \in [size : Nat, offset : Nat] /\ ix.objs[h] \in Objects
    <2>1. \A h \in 1..n : ix.meta[h] \in [size : Nat, offset : Nat] /\ ix.objs[h] \in Objects
      BY <1>1, ElementOfSeq
    <2> QED BY <1>1, <2>1
  <1>3. Sized(ix, n)
    BY <1>1, <1>2 DEF Sized
  <1>4. PICK ord : ord = Ordering(ix) /\ Sorted(ix, ord, n)
    BY <1>3, SortedExists
  <1>5. PICK w : w = [i \in 1..n |-> Size[ix.objs[ord[i]]]]
    OBVIOUS
  <1>6. Weighs(w, 1..n) /\ \A i \in 1..n : w[i] = ix.meta[ord[i]].size
    BY <1>1, <1>2, <1>4, <1>5, PackIndexAssumption DEF Weighs, Sorted
  <1>7. PICK P : Sums(P, n, w)
    BY <1>1, <1>6, SumsExist
  <1>8. PICK jx : jx = LaidOut(ix)
    OBVIOUS
  <1> DEFINE before(h) == {x \in 1..n : Precedes(ix, x, h)}
             offset(h) == Total([g \in before(h) |-> ix.meta[g].size])
  <1>9. jx = [ix EXCEPT !.meta = [h \in 1..n |-> [ix.meta[h] EXCEPT !.offset = offset(h)]]]
    BY <1>2, <1>8 DEF LaidOut
  <1>10. ASSUME NEW j \in 1..n PROVE offset(ord[j]) = P[j - 1]
    <2>1. before(ord[j]) = {ord[i] : i \in 1..j - 1}
      <3>1. ASSUME NEW i \in 1..j - 1 PROVE ord[i] \in 1..n /\ Precedes(ix, ord[i], ord[j])
        <4>1. i \in 1..n /\ i < j
          BY <1>1
        <4> QED BY <1>4, <4>1 DEF Sorted
      <3>2. ASSUME NEW x \in 1..n, Precedes(ix, x, ord[j]) PROVE x \in {ord[i] : i \in 1..j - 1}
        <4>1. PICK i \in 1..n : ord[i] = x
          BY <1>4 DEF Sorted
        <4>2. i # j /\ ~(j < i)
          <5>1. ord[j] \in 1..n
            BY <1>4 DEF Sorted
          <5>2. j < i => Precedes(ix, ord[j], x)
            BY <1>4, <4>1 DEF Sorted
          <5> QED BY <1>3, <3>2, <4>1, <5>1, <5>2, PrecedesOrders
        <4>3. i \in 1..j - 1
          BY <1>1, <4>2
        <4> QED BY <4>1, <4>3
      <3> QED BY <3>1, <3>2
    <2>2. PICK v : v = [g \in 1..n |-> ix.meta[g].size]
      OBVIOUS
    <2>3. \A i \in 1..n : w[i] = v[ord[i]]
      BY <1>4, <1>6, <2>2 DEF Sorted
    <2>4. j - 1 \in 0..n
      BY <1>1
    <2>5. PICK b : b = [g \in before(ord[j]) |-> ix.meta[g].size]
      OBVIOUS
    <2>6. Picked(b, ord, v, j - 1)
      BY <2>1, <2>2, <2>5 DEF Picked
    <2>7. n \in Nat /\ Lists(ord, v, w, n)
      BY <1>1, <1>4, <2>3 DEF Sorted, Lists
    <2>8. Total(b) = P[j - 1]
      BY <1>6, <1>7, <2>4, <2>6, <2>7, SumsOfPicked
    <2> QED BY <2>5, <2>8
  <1> HIDE DEF offset
  <1>11. \A h \in 1..n : \E i \in 1..n : ord[i] = h /\ offset(h) = P[i - 1] /\ P[i - 1] \in Nat
    <2>1. ASSUME NEW h \in 1..n
          PROVE  \E i \in 1..n : ord[i] = h /\ offset(h) = P[i - 1] /\ P[i - 1] \in Nat
      <3>1. PICK i \in 1..n : ord[i] = h
        BY <1>4 DEF Sorted
      <3>2. offset(h) = P[i - 1]
        BY <1>10, <3>1
      <3>3. i - 1 \in 0..n
        BY <1>1
      <3>4. P[i - 1] \in Nat
        BY <1>7, <3>3 DEF Sums
      <3> QED BY <3>1, <3>2, <3>4
    <2> QED BY <2>1
  <1>12. /\ jx.tags = ix.tags /\ jx.deltas = ix.deltas /\ jx.paths = ix.paths /\ jx.objs = ix.objs
         /\ jx.current = ix.current
         /\ jx.meta = [h \in 1..n |-> [size |-> Size[ix.objs[h]], offset |-> offset(h)]]
    <2>1. ix \in Indexes
      BY DEF IndexOK, Shape
    <2>2. PICK m : m = [h \in 1..n |-> [ix.meta[h] EXCEPT !.offset = offset(h)]]
      OBVIOUS
    <2>3. jx = [ix EXCEPT !.meta = m]
      BY <1>9, <2>2
    <2>4. /\ jx.tags = ix.tags /\ jx.deltas = ix.deltas /\ jx.paths = ix.paths /\ jx.objs = ix.objs
          /\ jx.current = ix.current /\ jx.meta = m
      BY <2>1, <2>3 DEF Indexes
    <2>5. \A h \in 1..n : [ix.meta[h] EXCEPT !.offset = offset(h)] = [size |-> Size[ix.objs[h]], offset |-> offset(h)]
      BY <1>1, <1>2
    <2> QED BY <2>2, <2>4, <2>5
  <1>13. jx.meta \in Seq([size : Nat, offset : Nat]) /\ Len(jx.meta) = n
    <2>1. jx.meta \in [1..n -> [size : Nat, offset : Nat]]
      <3>1. \A h \in 1..n : Size[ix.objs[h]] \in Nat /\ offset(h) \in Nat
        BY SMTT(30), <1>2, <1>11, PackIndexAssumption
      <3> QED BY <1>12, <3>1
    <2> QED BY <1>1, <2>1, ListOf
  <1>14. jx \in Indexes
    <2>1. ix \in Indexes
      BY DEF IndexOK, Shape
    <2>2. jx = [ix EXCEPT !.meta = jx.meta]
      BY <1>9, <2>1 DEF Indexes
    <2> QED BY <1>13, <2>1, <2>2 DEF Indexes
  <1>15. IndexOK(jx, pu)
    <2>1. \A k : FilesAt(jx, pu, k) = FilesAt(ix, pu, k)
      BY <1>12 DEF FilesAt, HandleFor
    <2>2. Shape(jx, pu)
      BY <1>1, <1>12, <1>13, <1>14 DEF IndexOK, Shape
    <2>3. Pools(jx, pu)
      BY <1>12 DEF IndexOK, Pools
    <2>4. Deltas(jx, pu)
      BY <1>12, <2>1 DEF IndexOK, Deltas
    <2> QED BY <2>2, <2>3, <2>4 DEF IndexOK
  <1>16. Features(jx) = Features(ix)
    BY SMTT(30), <1>12 DEF Features
  <1>17. Layout(jx, ord, P, n)
    <2>1. ASSUME NEW i \in 1..n
          PROVE  jx.meta[ord[i]] = [size |-> Size[ix.objs[ord[i]]], offset |-> P[i - 1]]
      <3>1. ord[i] \in 1..n
        BY <1>4 DEF Sorted
      <3>2. jx.meta[ord[i]] = [size |-> Size[ix.objs[ord[i]]], offset |-> offset(ord[i])]
        BY <1>12, <3>1
      <3>3. offset(ord[i]) = P[i - 1]
        BY <1>10
      <3> QED BY <3>2, <3>3
    <2> QED BY ZenonT(40), <1>1, <1>2, <1>4, <1>5, <1>6, <1>7, <1>12, <2>1 DEF Layout, Sorted
  <1> QED BY <1>1, <1>4, <1>8, <1>12, <1>15, <1>16, <1>17

-----------------------------------------------------------------------------
(* The frames                                                              *)

\* Bytes, and what a loose object can be.
AByte == Objects \X Nat
StoreOK == store \in [Objects -> Seq(AByte) \cup {Nil}]

\* The objects of a slice, one after the other.
Parts(ix, st, slice) == [i \in DOMAIN slice |-> st[ix.objs[slice[i]]]]

\* xs cut in slices that end at the places b.
Cuts(slices, xs, b) ==
    /\ b \in [0..Len(slices) -> 0..Len(xs)]
    /\ b[0] = 0 /\ b[Len(slices)] = Len(xs)
    /\ \A k \in 1..Len(slices) :
          b[k - 1] <= b[k] /\ slices[k] = SubSeq(xs, b[k - 1] + 1, b[k])

\* A plan of the pack: the layout, and at most fr slices of the order.
Plan(ix, fr, ord, P, n, slices, b) ==
    /\ Layout(ix, ord, P, n)
    /\ slices \in Seq(Seq(1..n)) /\ Cuts(slices, ord, b)
    /\ Len(slices) <= Max({fr, 1})

\* The pack that is made along a plan.
Written(pf, ix, st, slices) ==
    /\ pf \in Seq(Seq(AByte)) /\ Len(pf) = Len(slices)
    /\ \A k \in 1..Len(slices) : /\ Parts(ix, st, slices[k]) \in Seq(Seq(AByte))
                                 /\ pf[k] = FlattenSeq(Parts(ix, st, slices[k]))

\* The bytes of an object.
LEMMA BytesFacts ==
    ASSUME NEW o \in Objects
    PROVE  /\ Size[o] \in Nat
           /\ Bytes(o) \in Seq(AByte) /\ Len(Bytes(o)) = Size[o]
           /\ \A i \in 1..Size[o] : Bytes(o)[i] = <<o, i>>
  <1>1. Size[o] \in Nat
    BY PackIndexAssumption
  <1>2. PICK n \in Nat : n = Size[o]
    BY <1>1
  <1>3. Bytes(o) \in [1..n -> AByte] /\ \A i \in 1..n : Bytes(o)[i] = <<o, i>>
    BY <1>2 DEF Bytes, AByte
  <1>4. Bytes(o) \in Seq(AByte) /\ Len(Bytes(o)) = n
    BY <1>3, ListOf
  <1> QED BY <1>1, <1>2, <1>3, <1>4

\* Every loose object is a list of bytes, or is missing.
LEMMA InitialStore ==
    ASSUME store \in {Intact} \cup Damaged
    PROVE  StoreOK
  <1>1. Intact \in [Objects -> Seq(AByte) \cup {Nil}]
    BY BytesFacts DEF Intact
  <1>2. ASSUME NEW o \in Objects PROVE [Intact EXCEPT ![o] = Nil] \in [Objects -> Seq(AByte) \cup {Nil}]
    <2> HIDE DEF AByte
    <2> QED BY <1>1
  <1>3. ASSUME NEW o \in Objects, Size[o] > 0
        PROVE  [Intact EXCEPT ![o] = Front(@)] \in [Objects -> Seq(AByte) \cup {Nil}]
    <2>1. Intact[o] = Bytes(o)
      BY DEF Intact
    <2>2. PICK bs, n : bs = Bytes(o) /\ n = Size[o] /\ bs \in Seq(AByte) /\ Len(bs) = n /\ n \in Nat
      BY BytesFacts
    <2>3. SubSeq(bs, 1, n - 1) \in Seq(AByte)
      <3>1. \A i \in 1..n - 1 : bs[i] \in AByte
        BY <2>2, ElementOfSeq
      <3> HIDE DEF AByte
      <3> QED BY <2>2, <3>1, SubSeqProperties
    <2>4. Front(Intact[o]) \in Seq(AByte)
      BY <2>1, <2>2, <2>3 DEF Front
    <2> HIDE DEF AByte, Front
    <2> QED BY <1>1, <2>4
  <1> QED BY <1>1, <1>2, <1>3 DEF Damaged, StoreOK

\* A frame that could be made has the objects of its slice.
LEMMA FrameIs ==
    ASSUME StoreOK, IndexOK(index, pushed), NEW n, n = Len(index.objs),
           NEW slice \in Seq(1..n), Frame(slice) # Nil
    PROVE  /\ Parts(index, store, slice) \in Seq(Seq(AByte))
           /\ Frame(slice) = FlattenSeq(Parts(index, store, slice))
           /\ Frame(slice) \in Seq(AByte)
  <1>1. PICK m, ps : m = Len(slice) /\ ps = Parts(index, store, slice)
    OBVIOUS
  <1>2. m \in Nat /\ DOMAIN slice = 1..m /\ \A i \in 1..m : slice[i] \in 1..n
    BY <1>1, ElementOfSeq, LenProperties
  <1>3. \A h \in 1..n : index.objs[h] \in Objects
    <2>1. index.objs \in Seq(Objects)
      BY DEF IndexOK, Shape, Indexes
    <2> QED BY <2>1, ElementOfSeq
  <1>4. ~Contains(ps, Nil) /\ Frame(slice) = FlattenSeq(ps)
    BY <1>1 DEF Frame, Parts
  <1>5. ps = [i \in 1..m |-> ps[i]] /\ \A i \in 1..m : ps[i] \in Seq(AByte) \cup {Nil}
    <2> HIDE DEF AByte
    <2> QED BY <1>1, <1>2, <1>3 DEF Parts, StoreOK
  <1>6. Len(ps) = m
    BY <1>2, <1>5
  <1>7. \A i \in 1..m : ps[i] # Nil
    BY <1>4, <1>6 DEF Contains
  <1>8. ps \in [1..m -> Seq(AByte)]
    <2> HIDE DEF AByte
    <2> QED BY <1>5, <1>7
  <1>9. ps \in Seq(Seq(AByte))
    BY <1>2, <1>8, ListOf
  <1>10. FlattenSeq(ps) \in Seq(AByte)
    <2>1. PICK w : w = [k \in 1..m |-> Len(ps[k])]
      OBVIOUS
    <2>2. Weighs(w, 1..m)
      BY <1>8, <2>1, LenProperties DEF Weighs
    <2>3. PICK Q : Sums(Q, m, w)
      BY <1>2, <2>2, SumsExist
    <2>4. Flattened(FlattenSeq(ps), ps, Q, AByte)
      <3>1. m = Len(ps) /\ \A k \in 1..m : w[k] = Len(ps[k])
        BY <1>6, <2>1
      <3> QED BY ONLY <1>9, <2>3, <3>1, FlattenFacts
    <2> QED BY <2>4 DEF Flattened
  <1> QED BY <1>1, <1>4, <1>9, <1>10

\* What the k-th frame of an intact pack has: the bytes of each of its objects, at
\* the place that the layout says.
Spans(pf, ix, P, ord, b, k) ==
    \A j \in b[k - 1] + 1..b[k] : \A i \in 1..Size[ix.objs[ord[j]]] :
       pf[k][P[j - 1] - P[b[k - 1]] + i] = <<ix.objs[ord[j]], i>>

\* The frame of one slice of intact objects.
LEMMA SpanOne ==
    ASSUME NEW ix, NEW fr, NEW ord, NEW P, NEW n, NEW slices, NEW b,
           Plan(ix, fr, ord, P, n, slices, b),
           NEW pf, Written(pf, ix, Intact, slices), NEW k \in 1..Len(slices)
    PROVE  Len(pf[k]) = P[b[k]] - P[b[k - 1]] /\ Spans(pf, ix, P, ord, b, k)
  <1>1. PICK m : m = Len(slices) /\ m \in Nat /\ n \in Nat /\ Len(ord) = n /\ ord \in Seq(1..n)
    BY LenProperties DEF Plan, Layout
  <1>2. PICK lo, hi : /\ lo = b[k - 1] /\ hi = b[k] /\ lo \in 0..n /\ hi \in 0..n /\ lo <= hi
                      /\ slices[k] = SubSeq(ord, lo + 1, hi)
    <2>1. k - 1 \in 0..m /\ k \in 0..m
      BY <1>1
    <2> QED BY <1>1, <2>1 DEF Plan, Cuts
  <1>a. n \in Nat /\ lo \in 0..n /\ hi \in 0..n /\ lo <= hi
    BY <1>1, <1>2
  <1>3. PICK L, sl : L = hi - lo /\ sl = slices[k] /\ L \in Nat
    <2>1. hi - lo \in Nat
      BY ONLY <1>a
    <2> QED BY <2>1
  <1>b. L \in Nat /\ L = hi - lo
    BY <1>3
  <1>4. /\ sl \in Seq(1..n) /\ Len(sl) = L /\ DOMAIN sl = 1..L
        /\ \A x \in 1..L : sl[x] = ord[lo + x] /\ lo + x \in 1..n
    <2>1. sl \in Seq(1..n)
      BY <1>1, <1>3, ElementOfSeq DEF Plan
    <2>2. \A x \in 1..L : lo + x \in 1..n /\ (lo + 1) + x - 1 = lo + x
      BY ONLY <1>a, <1>b
    <2>3. Len(sl) = L /\ \A x \in 1..L : sl[x] = ord[lo + x]
      <3>1. sl = SubSeq(ord, lo + 1, hi) /\ ord \in Seq(1..n) /\ Len(ord) = n
        BY <1>1, <1>2, <1>3
      <3>2. /\ lo + 1 \in 1..n + 1 /\ hi \in lo..n /\ hi - (lo + 1) + 1 = L
            /\ \A y \in lo + 1..hi : ord[y] \in 1..n
        <4>1. lo + 1 \in 1..n + 1 /\ hi \in lo..n /\ hi - (lo + 1) + 1 = L /\ lo + 1..hi \subseteq 1..n
          BY ONLY <1>a, <1>b
        <4> QED BY <3>1, <4>1, ElementOfSeq
      <3>3. Len(sl) = hi - (lo + 1) + 1 /\ \A x \in 1..hi - (lo + 1) + 1 : sl[x] = ord[(lo + 1) + x - 1]
        <4>1. lo + 1 <= hi + 1 /\ lo + 1 \in Int /\ hi \in Int /\ 1 <= lo + 1 /\ hi <= n
          BY ONLY <1>a
        <4> QED BY ONLY <1>a, <3>1, <4>1
      <3> QED BY <2>2, <3>2, <3>3
    <2> QED BY <1>3, <2>1, <2>2, <2>3
  <1>5. PICK ps : ps = Parts(ix, Intact, sl) /\ ps \in Seq(Seq(AByte)) /\ pf[k] = FlattenSeq(ps)
    BY <1>1, <1>3 DEF Written
  <1>6. /\ Len(ps) = L
        /\ \A x \in 1..L : /\ ps[x] = Bytes(ix.objs[ord[lo + x]])
                           /\ ix.objs[ord[lo + x]] \in Objects
    <2>1. \A j \in 1..n : ix.objs[ord[j]] \in Objects
      BY DEF Plan, Layout
    <2>2. ps = [x \in 1..L |-> Intact[ix.objs[sl[x]]]]
      BY <1>4, <1>5 DEF Parts
    <2>3. \A x \in 1..L : ps[x] = Bytes(ix.objs[ord[lo + x]])
      BY <1>4, <2>1, <2>2 DEF Intact
    <2> QED BY <1>3, <1>4, <2>1, <2>2, <2>3
  <1>7. /\ P \in [0..n -> Nat] /\ \A j \in 1..n : P[j] = P[j - 1] + Size[ix.objs[ord[j]]]
    BY DEF Plan, Layout, Sums
  <1>8. PICK w, R : w = [x \in 1..L |-> Len(ps[x])] /\ R = [x \in 0..L |-> P[lo + x] - P[lo]]
    OBVIOUS
  <1>9. \A x \in 1..L : w[x] = Size[ix.objs[ord[lo + x]]] /\ w[x] \in Nat
    BY <1>6, <1>8, BytesFacts
  <1>10. Sums(R, L, w)
    <2>1. ASSUME NEW x \in 1..L PROVE R[x] = R[x - 1] + w[x]
      <3>1. x \in 0..L /\ x - 1 \in 0..L /\ lo + x \in 1..n /\ lo + (x - 1) = (lo + x) - 1 /\ lo \in 0..n
            /\ (lo + x) - 1 \in 0..n /\ lo + x \in 0..n
        BY ONLY <1>a, <1>b, x \in 1..L
      <3>2. P[lo + x] = P[(lo + x) - 1] + w[x]
        BY <1>7, <1>9, <3>1
      <3>3. P[lo + x] \in Nat /\ P[(lo + x) - 1] \in Nat /\ P[lo] \in Nat /\ w[x] \in Nat
        BY <1>7, <1>9, <3>1
      <3>4. R[x] = P[lo + x] - P[lo] /\ R[x - 1] = P[(lo + x) - 1] - P[lo]
        BY <1>8, <3>1
      <3> QED BY ONLY <3>2, <3>3, <3>4
    <2>2. R[0] = 0
      <3>1. 0 \in 0..L /\ lo + 0 = lo /\ lo \in 0..n
        BY ONLY <1>a, <1>b
      <3>2. P[lo] \in Nat /\ R[0] = P[lo + 0] - P[lo]
        BY <1>7, <1>8, <3>1
      <3> QED BY ONLY <3>1, <3>2
    <2>3. ASSUME NEW x \in 0..L PROVE R[x] \in Nat
      <3>1. lo \in 0..n /\ lo + x \in 0..n /\ lo <= lo + x
        BY ONLY <1>a, <1>b, x \in 0..L
      <3>2. P[lo] \in Nat /\ P[lo + x] \in Nat /\ P[lo] <= P[lo + x]
        BY <1>1, <3>1, SumsMonotone DEF Plan, Layout
      <3> QED BY <1>8, <3>2
    <2>4. R \in [0..L -> Nat]
      BY <1>8, <2>3
    <2> QED BY <2>1, <2>2, <2>4 DEF Sums
  <1>11. Flattened(pf[k], ps, R, AByte)
    <2>1. L = Len(ps) /\ \A x \in 1..L : w[x] = Len(ps[x])
      BY <1>6, <1>8
    <2>2. Flattened(FlattenSeq(ps), ps, R, AByte)
      BY ONLY <1>5, <1>10, <2>1, FlattenFacts
    <2> QED BY <1>5, <2>2
  <1>12. Len(pf[k]) = P[hi] - P[lo]
    <2>1. Len(pf[k]) = R[L] /\ lo + L = hi /\ L \in 0..L
      BY SMTT(30), <1>1, <1>2, <1>3, <1>6, <1>11 DEF Flattened
    <2> QED BY <1>8, <2>1
  <1>13. ASSUME NEW j \in lo + 1..hi, NEW i \in 1..Size[ix.objs[ord[j]]]
         PROVE  pf[k][P[j - 1] - P[lo] + i] = <<ix.objs[ord[j]], i>>
    <2>1. PICK x : x = j - lo /\ x \in 1..L /\ lo + x = j /\ x - 1 \in 0..L /\ lo + (x - 1) = j - 1
      BY ONLY <1>a, <1>b, j \in lo + 1..hi
    <2>2. ps[x] = Bytes(ix.objs[ord[j]]) /\ ix.objs[ord[j]] \in Objects
      BY <1>6, <2>1
    <2>3. Len(ps[x]) = Size[ix.objs[ord[j]]] /\ ps[x][i] = <<ix.objs[ord[j]], i>>
      BY <2>2, BytesFacts
    <2>4. pf[k][R[x - 1] + i] = ps[x][i]
      BY <1>6, <1>11, <2>1, <2>3 DEF Flattened
    <2>5. R[x - 1] = P[j - 1] - P[lo]
      BY <1>8, <2>1
    <2> QED BY <2>3, <2>4, <2>5
  <1> QED BY <1>2, <1>12, <1>13 DEF Spans

\* Where the frames of a file begin: Q are the sums of their lengths.
Starts(Q, m) ==
    /\ m = Len(packFile) /\ m \in Nat /\ packFile \in Seq(Seq(AByte)) /\ DOMAIN packFile = 1..m
    /\ \A k \in 1..m : packFile[k] \in Seq(AByte) /\ Len(packFile[k]) \in Nat
    /\ Sums(Q, m, [k \in 1..m |-> Len(packFile[k])])
    /\ \A k \in 1..m : FrameStart(k) = Q[k - 1]
    /\ \A k \in 0..m : Q[k] \in Nat
    /\ \A k \in 1..m : Q[k] = Q[k - 1] + Len(packFile[k])

\* compute_frame_decompressed_offset gives these sums.
LEMMA StartsExist ==
    ASSUME packFile \in Seq(Seq(AByte))
    PROVE  \E Q : Starts(Q, Len(packFile))
  <1>1. PICK m : m = Len(packFile) /\ m \in Nat /\ DOMAIN packFile = 1..m
    BY LenProperties
  <1>2. \A k \in 1..m : packFile[k] \in Seq(AByte) /\ Len(packFile[k]) \in Nat
    BY <1>1, ElementOfSeq, LenProperties
  <1>3. PICK w : w = [k \in 1..m |-> Len(packFile[k])]
    OBVIOUS
  <1>4. Weighs(w, 1..m)
    BY <1>2, <1>3 DEF Weighs
  <1>5. PICK Q : Sums(Q, m, w)
    BY <1>1, <1>4, SumsExist
  <1>6. ASSUME NEW k \in 1..m PROVE FrameStart(k) = Q[k - 1]
    <2>1. PICK i, j : i = 0 /\ j = k - 1
      OBVIOUS
    <2>2. i \in 0..m /\ j \in 0..m /\ i <= j
      BY <1>1, <2>1
    <2>3. Total([x \in i + 1..j |-> w[x]]) = Q[j] - Q[i]
      BY <1>1, <1>4, <1>5, <2>2, SumsInterval
    <2>4. Q[i] = 0 /\ Q[j] \in Nat
      BY <1>5, <2>1, <2>2 DEF Sums
    <2>5. [x \in i + 1..j |-> w[x]] = [x \in 1..k - 1 |-> Len(packFile[x])]
      <3>1. i + 1..j = 1..k - 1
        BY <2>1
      <3>2. \A x \in 1..k - 1 : x \in 1..m
        BY <1>1
      <3> QED BY <1>3, <3>1, <3>2
    <2>6. FrameStart(k) = Total([x \in 1..k - 1 |-> Len(packFile[x])])
      BY DEF FrameStart
    <2>7. PICK a, c : a = FrameStart(k) /\ c = Q[j] /\ a = c - 0
      BY <2>3, <2>4, <2>5, <2>6
    <2>8. c - 0 = c
      BY <2>4, <2>7
    <2> QED BY <2>1, <2>7, <2>8
  <1>7. (\A k \in 0..m : Q[k] \in Nat) /\ \A k \in 1..m : Q[k] = Q[k - 1] + Len(packFile[k])
    BY <1>3, <1>5 DEF Sums
  <1> QED BY <1>1, <1>2, <1>3, <1>5, <1>6, <1>7 DEF Starts

\* The frame that rposition finds: the last that does not begin after the offset.
LEMMA FrameOfFacts ==
    ASSUME NEW Q, NEW m, Starts(Q, m), m # 0, NEW e, e.offset \in Nat
    PROVE  /\ FrameOf(e) \in 1..m
           /\ Q[FrameOf(e) - 1] \in Nat /\ Q[FrameOf(e) - 1] <= e.offset
           /\ \A k \in 1..m : Q[k - 1] <= e.offset => k <= FrameOf(e)
  <1> DEFINE C == {k \in 1..m : Q[k - 1] <= e.offset}
  <1>1. m \in Nat /\ 1 \in 1..m /\ Q[1 - 1] = 0
    BY DEF Starts, Sums
  <1>2. 1 \in C
    BY <1>1
  <1>3. {k \in DOMAIN packFile : FrameStart(k) <= e.offset} = C
    BY DEF Starts
  <1>4. FrameOf(e) = Max(C)
    BY <1>3 DEF FrameOf
  <1>5. C \in SUBSET (0..m) /\ C # {}
    <2>1. 1..m \subseteq 0..m
      OBVIOUS
    <2> QED BY <1>2, <2>1
  <1>6. Max(C) \in C /\ \A y \in C : y <= Max(C)
    <2> HIDE DEF C
    <2> QED BY <1>1, <1>5, MaxPicks
  <1>7. Q[FrameOf(e) - 1] \in Nat
    <2>1. PICK f : f = FrameOf(e) /\ f \in 1..m
      BY <1>4, <1>6
    <2>2. f - 1 \in 0..m
      BY <1>1, <2>1
    <2> QED BY <2>1, <2>2 DEF Starts
  <1> QED BY <1>4, <1>6, <1>7

\* All the frames of an intact pack begin where the layout says.
LEMMA SpanAll ==
    ASSUME NEW ix, NEW fr, NEW ord, NEW P, NEW n, NEW slices, NEW b,
           Plan(ix, fr, ord, P, n, slices, b), Written(packFile, ix, Intact, slices),
           NEW Q, NEW m, Starts(Q, m)
    PROVE  \A k \in 0..m : b[k] \in 0..n /\ P[b[k]] \in Nat /\ Q[k] = P[b[k]]
  <1>1. m = Len(slices) /\ m \in Nat /\ n \in Nat
    BY DEF Starts, Written, Plan, Layout
  <1>2. /\ P \in [0..n -> Nat] /\ P[0] = 0
        /\ b \in [0..m -> 0..n] /\ b[0] = 0 /\ Q[0] = 0
    BY <1>1 DEF Plan, Layout, Sums, Cuts, Starts
  <1> DEFINE T == {k \in 0..m : Q[k] = P[b[k]]}
  <1>3. 0 \in T
    BY <1>1, <1>2
  <1>4. ASSUME NEW k \in 0..m - 1, k \in T PROVE k + 1 \in T
    <2>1. k + 1 \in 1..m /\ (k + 1) - 1 = k /\ k + 1 \in 0..m /\ k \in 0..m
      BY ONLY <1>1, k \in 0..m - 1
    <2>2. Len(packFile[k + 1]) = P[b[k + 1]] - P[b[k]]
      BY <1>1, <2>1, SpanOne
    <2>3. Q[k + 1] = Q[k] + Len(packFile[k + 1])
      BY <2>1 DEF Starts
    <2>4. P[b[k + 1]] \in Nat /\ P[b[k]] \in Nat
      BY <1>2, <2>1
    <2>5. Q[k] = P[b[k]]
      BY <1>4
    <2> QED BY <2>1, <2>2, <2>3, <2>4, <2>5
  <1>5. 0..m \subseteq T
    <2> HIDE DEF T
    <2> QED BY <1>1, <1>3, <1>4, BoundedInduction
  <1> QED BY <1>2, <1>5

\* The slice that the j-th object of the order is in.
LEMMA SliceOf ==
    ASSUME NEW slices, NEW xs, NEW b, NEW n \in Nat, n = Len(xs), NEW m \in Nat, m = Len(slices),
           Cuts(slices, xs, b), NEW j \in 1..n
    PROVE  \E k \in 1..m : b[k - 1] < j /\ j <= b[k]
  <1>1. b \in [0..m -> 0..n] /\ b[0] = 0 /\ b[m] = n
    BY DEF Cuts
  <1>2. \A k \in 0..m : b[k] \in Nat
    BY <1>1
  <1> DEFINE C == {k \in 0..m : j <= b[k]}
  <1>3. m \in C
    BY <1>1
  <1>4. PICK k \in C : \A y \in C : k <= y
    <2>1. C \subseteq Nat /\ C # {}
      BY <1>3
    <2> HIDE DEF C
    <2> QED BY <2>1, LeastNat
  <1>5. k # 0
    BY <1>1, <1>4
  <1>6. k \in 1..m /\ k - 1 \in 0..m /\ ~(k <= k - 1)
    BY <1>4, <1>5
  <1>7. k - 1 \notin C
    BY <1>4, <1>6
  <1>8. ~(j <= b[k - 1]) /\ b[k - 1] \in Nat
    BY <1>2, <1>6, <1>7
  <1> QED BY <1>4, <1>6, <1>8

\* The j-th object of the order, o, is whole in frame k.
InFrame(P, Q, m, j, k, o) ==
    /\ P[j - 1] \in Nat /\ P[j] \in Nat /\ P[j] = P[j - 1] + Size[o] /\ P[j] <= Q[m]
    /\ k \in 1..m
    /\ Q[k - 1] <= P[j - 1] /\ P[j] <= Q[k]
    /\ \A i \in 1..Size[o] : packFile[k][P[j - 1] - Q[k - 1] + i] = <<o, i>>

\* Each object of an intact pack is whole in the frame it is looked for in.
LEMMA WholeInFrame ==
    ASSUME NEW ix, NEW fr, NEW ord, NEW P, NEW n, NEW slices, NEW b,
           Plan(ix, fr, ord, P, n, slices, b), Written(packFile, ix, Intact, slices),
           NEW Q, NEW m, Starts(Q, m), NEW j \in 1..n,
           NEW e, e.offset = P[j - 1]
    PROVE  m # 0 /\ InFrame(P, Q, m, j, FrameOf(e), ix.objs[ord[j]])
  <1>0. PICK o : o = ix.objs[ord[j]]
    OBVIOUS
  <1>1. /\ m = Len(slices) /\ m \in Nat /\ n \in Nat /\ n = Len(ord)
        /\ Cuts(slices, ord, b) /\ b[m] = n
        /\ Sums(P, n, [i \in 1..n |-> Size[ix.objs[ord[i]]]])
        /\ Weighs([i \in 1..n |-> Size[ix.objs[ord[i]]]], 1..n)
        /\ o \in Objects
    BY <1>0 DEF Starts, Written, Plan, Layout, Cuts
  <1>2. PICK k \in 1..m : b[k - 1] < j /\ j <= b[k]
    BY <1>1, SliceOf
  <1>3. m # 0 /\ k \in 0..m /\ k - 1 \in 0..m /\ m \in 0..m /\ j - 1 \in 0..n /\ j \in 0..n
    BY ONLY <1>1, k \in 1..m, j \in 1..n
  <1>4. \A l \in 0..m : b[l] \in 0..n /\ P[b[l]] \in Nat /\ Q[l] = P[b[l]]
    BY SpanAll
  <1>5. P[j - 1] \in Nat /\ P[j] \in Nat /\ Size[o] \in Nat /\ P[j] = P[j - 1] + Size[o]
    <2>1. Size[o] \in Nat
      BY <1>1, BytesFacts
    <2> QED BY <1>0, <1>1, <1>3, <2>1 DEF Sums
  <1>6. \A x, y \in 0..n : x <= y => P[x] <= P[y]
    BY <1>1, SumsMonotone
  <1>7. b[k - 1] \in 0..n /\ b[k] \in 0..n /\ b[k - 1] <= j - 1
    <2>1. b[k - 1] \in 0..n /\ b[k] \in 0..n
      BY <1>3, <1>4
    <2> QED BY ONLY <1>1, <1>2, <2>1, j \in 1..n
  <1>8. Q[k - 1] <= P[j - 1] /\ P[j] <= Q[k] /\ P[j] <= Q[m]
    <2>1. P[b[k - 1]] <= P[j - 1] /\ P[j] <= P[b[k]] /\ P[j] <= P[n]
      BY <1>1, <1>2, <1>3, <1>6, <1>7
    <2> QED BY <1>1, <1>3, <1>4, <2>1
  <1>9. PICK f : f = FrameOf(e) /\ f \in 1..m /\ Q[f - 1] <= P[j - 1] /\ \A l \in 1..m : Q[l - 1] <= P[j - 1] => l <= f
    BY <1>3, <1>5, FrameOfFacts
  <1>10. k <= f
    BY <1>8, <1>9
  <1>11. \A x, y \in 0..m : x <= y => Q[x] <= Q[y]
    <2>1. Weighs([l \in 1..m |-> Len(packFile[l])], 1..m) /\ Sums(Q, m, [l \in 1..m |-> Len(packFile[l])])
      BY DEF Starts, Weighs
    <2> QED BY <1>1, <2>1, SumsMonotone
  \* A later frame begins where this object ends: the object is empty then.
  <1>12. CASE k # f
    <2>1. k <= f - 1 /\ f - 1 \in 0..m /\ f \in 0..m /\ f - 1 <= f
      BY ONLY <1>1, <1>3, <1>9, <1>10, <1>12
    <2>2. Q[k] <= Q[f - 1] /\ Q[f - 1] <= Q[f] /\ Q[k] \in Nat /\ Q[f - 1] \in Nat /\ Q[f] \in Nat
      BY <1>3, <1>4, <1>11, <2>1
    <2>3. Size[o] = 0 /\ P[j] <= Q[f]
      BY ONLY <1>5, <1>8, <1>9, <2>2
    <2>4. 1..Size[o] = {}
      BY <2>3
    <2> QED BY <1>0, <1>3, <1>5, <1>8, <1>9, <2>3, <2>4 DEF InFrame
  <1>13. CASE k = f
    <2>1. j \in b[k - 1] + 1..b[k]
      BY ONLY <1>1, <1>2, <1>7, j \in 1..n
    <2>2. \A i \in 1..Size[o] : packFile[k][P[j - 1] - P[b[k - 1]] + i] = <<o, i>>
      <3>1. k \in 1..Len(slices)
        BY <1>1
      <3>2. Spans(packFile, ix, P, ord, b, k)
        BY <3>1, SpanOne
      <3> QED BY <1>0, <1>1, <2>1, <3>2 DEF Spans
    <2>3. Q[k - 1] = P[b[k - 1]]
      BY <1>3, <1>4
    <2> QED BY <1>0, <1>3, <1>5, <1>8, <1>9, <1>13, <2>2, <2>3 DEF InFrame
  <1> QED BY <1>12, <1>13

\* FramesTile holds of a pack made along a plan, with an index in order.
LEMMA WrittenTiles ==
    ASSUME IndexOK(index, pushed), NEW v, SavedAs(idxFile, index, v),
           NEW ord, NEW P, NEW n, NEW slices, NEW b, Plan(index, frames, ord, P, n, slices, b),
           Written(packFile, index, store, slices)
    PROVE  FramesTile
  <1>0. SUFFICES ASSUME store = Intact
                 PROVE  LET ix == Parse(idxFile)
                            bytes == FlattenSeq(packFile)
                        IN  /\ Len(packFile) <= Max({frames, 1})
                            /\ Len(bytes) = Total([o \in ToSet(ix.objs) |-> Size[o]])
                            /\ \A h \in DOMAIN ix.objs :
                                  LET m == ix.meta[h]
                                      k == FrameOf(m)
                                  IN  /\ SubSeq(bytes, m.offset + 1, m.offset + m.size) = Bytes(ix.objs[h])
                                      /\ m.offset + m.size <= FrameStart(k) + Len(packFile[k])
    BY DEF FramesTile
  <1>1. PICK ix : ix = Parse(idxFile) /\ ix.objs = index.objs /\ ix.meta = index.meta
    BY ParsedIs DEF ParsedAs
  <1>2. Written(packFile, index, Intact, slices) /\ packFile \in Seq(Seq(AByte))
    BY <1>0 DEF Written
  <1>3. PICK m, Q : m = Len(packFile) /\ Starts(Q, m)
    BY <1>2, StartsExist
  <1>4. PICK bytes : bytes = FlattenSeq(packFile) /\ Flattened(bytes, packFile, Q, AByte)
    <2>1. PICK w : w = [k \in 1..m |-> Len(packFile[k])]
      OBVIOUS
    <2>2. m = Len(packFile) /\ (\A k \in 1..m : w[k] = Len(packFile[k])) /\ Sums(Q, m, w)
      BY <1>3, <2>1 DEF Starts
    <2>3. Flattened(FlattenSeq(packFile), packFile, Q, AByte)
      BY ONLY <1>2, <2>2, FlattenFacts
    <2> QED BY <2>3
  <1>5. Len(packFile) <= Max({frames, 1})
    BY DEF Written, Plan
  <1>6. /\ n \in Nat /\ n = Len(index.objs) /\ m \in Nat /\ m = Len(slices)
        /\ index.objs \in Seq(Objects) /\ DOMAIN index.objs = 1..n /\ Distinct(index.objs)
        /\ \A i \in 1..n : ord[i] \in 1..n
        /\ \A i, j \in 1..n : i # j => ord[i] # ord[j]
        /\ \A h \in 1..n : \E i \in 1..n : ord[i] = h
        /\ b[m] = n
    <2>1. index.objs \in Seq(Objects) /\ Distinct(index.objs)
      BY DEF IndexOK, Shape, Pools, Indexes
    <2>2. DOMAIN index.objs = 1..Len(index.objs)
      BY <2>1
    <2> QED BY <1>3, <2>1, <2>2 DEF Plan, Layout, Cuts, Written, Starts
  <1>7. Len(bytes) = P[n] /\ Q[m] = P[n]
    <2>1. m \in 0..m
      BY <1>6
    <2>2. Q[m] = P[b[m]]
      BY <1>2, <1>3, <2>1, SpanAll
    <2> QED BY <1>3, <1>4, <1>6, <2>2 DEF Flattened
  <1>8. P[n] = Total([o \in ToSet(index.objs) |-> Size[o]])
    <2>1. PICK w, s : /\ w = [i \in 1..n |-> Size[index.objs[ord[i]]]]
                      /\ s = [i \in 1..n |-> index.objs[ord[i]]]
      OBVIOUS
    <2>2. Sums(P, n, w) /\ Weighs(w, 1..n)
      BY <2>1 DEF Plan, Layout
    <2>3. Lists(s, Size, w, n)
      BY <1>6, <2>1 DEF Lists, Distinct
    <2>4. PICK g : g = [o \in ToSet(index.objs) |-> Size[o]]
      OBVIOUS
    <2>5. ToSet(index.objs) = {s[i] : i \in 1..n}
      <3>1. ToSet(index.objs) = {index.objs[h] : h \in 1..n}
        BY <1>6 DEF ToSet
      <3>2. ASSUME NEW h \in 1..n PROVE \E i \in 1..n : index.objs[h] = s[i]
        <4>1. PICK i \in 1..n : ord[i] = h
          BY <1>6
        <4> QED BY <2>1, <4>1
      <3>3. ASSUME NEW i \in 1..n PROVE \E h \in 1..n : index.objs[h] = s[i]
        BY <1>6, <2>1
      <3> QED BY <3>1, <3>2, <3>3
    <2>6. Picked(g, s, Size, n)
      BY <2>4, <2>5 DEF Picked
    <2>7. n \in Nat /\ n \in 0..n
      BY <1>6
    <2>8. Total(g) = P[n]
      BY <2>2, <2>3, <2>6, <2>7, SumsOfPicked
    <2> QED BY <2>4, <2>8
  <1>9. ASSUME NEW h \in 1..n
        PROVE  LET r == index.meta[h]
                   k == FrameOf(r)
               IN  /\ SubSeq(bytes, r.offset + 1, r.offset + r.size) = Bytes(index.objs[h])
                   /\ r.offset + r.size <= FrameStart(k) + Len(packFile[k])
    <2>1. PICK j \in 1..n : ord[j] = h
      BY <1>6
    <2>2. PICK o, r, k : o = index.objs[h] /\ r = index.meta[h] /\ k = FrameOf(r)
      OBVIOUS
    <2>3. r.size = Size[o] /\ r.offset = P[j - 1] /\ o = index.objs[ord[j]] /\ o \in Objects
      <3>1. /\ index.objs[ord[j]] \in Objects
            /\ index.meta[ord[j]] = [size |-> Size[index.objs[ord[j]]], offset |-> P[j - 1]]
        BY DEF Plan, Layout
      <3>2. r = [size |-> Size[o], offset |-> P[j - 1]]
        BY <2>1, <2>2, <3>1
      <3> QED BY <2>1, <2>2, <3>1, <3>2
    <2>4. /\ P[j - 1] \in Nat /\ P[j] \in Nat /\ P[j] = P[j - 1] + Size[o] /\ P[j] <= Q[m]
          /\ k \in 1..m /\ Q[k - 1] <= P[j - 1] /\ P[j] <= Q[k]
          /\ \A i \in 1..Size[o] : packFile[k][P[j - 1] - Q[k - 1] + i] = <<o, i>>
      <3>1. InFrame(P, Q, m, j, FrameOf(r), index.objs[ord[j]])
        BY <1>2, <1>3, <2>3, WholeInFrame
      <3> QED BY <2>2, <2>3, <3>1 DEF InFrame
    <2>5. PICK a, z, q : a = P[j - 1] /\ z = Size[o] /\ q = Q[k - 1]
      OBVIOUS
    <2>6. k - 1 \in 0..m /\ k \in 0..m
      BY ONLY <1>6, <2>4
    <2>7. /\ FrameStart(k) = q /\ q \in Nat /\ Q[k] \in Nat /\ Q[k] = q + Len(packFile[k])
          /\ Len(packFile[k]) \in Nat
      BY <1>3, <2>4, <2>5, <2>6 DEF Starts
    <2>8. a \in Nat /\ z \in Nat /\ q <= a /\ a + z <= q + Len(packFile[k]) /\ a + z <= Len(bytes)
      <3>1. z \in Nat
        BY <2>3, <2>5, BytesFacts
      <3> QED BY <1>7, <2>4, <2>5, <2>7, <3>1
    <2>9. bytes \in Seq(AByte) /\ Len(bytes) \in Nat
      BY <1>4 DEF Flattened
    <2>10. ASSUME NEW i \in 1..z PROVE bytes[a + i] = <<o, i>>
      <3>1. PICK x : x = a - q + i
        OBVIOUS
      <3>2. x \in 1..Len(packFile[k]) /\ q + x = a + i
        BY ONLY <2>7, <2>8, <3>1, i \in 1..z
      <3>3. bytes[q + x] = packFile[k][x]
        BY <1>3, <1>4, <2>4, <2>5, <3>2 DEF Flattened
      <3>4. packFile[k][x] = <<o, i>>
        BY <2>4, <2>5, <3>1
      <3> QED BY <3>2, <3>3, <3>4
    <2>11. PICK s : s = SubSeq(bytes, a + 1, a + z)
      OBVIOUS
    <2>12. s \in Seq(AByte) /\ Len(s) = z /\ \A i \in 1..z : s[i] = bytes[a + i]
      <3>1. Slice(SubSeq(bytes, a + 1, a + z), bytes, AByte, a, z)
        BY ONLY <2>8, <2>9, SubSeqSlice
      <3> QED BY <2>11, <3>1 DEF Slice
    <2>13. Bytes(o) \in Seq(AByte) /\ Len(Bytes(o)) = z /\ \A i \in 1..z : Bytes(o)[i] = <<o, i>>
      BY <2>3, <2>5, BytesFacts
    <2>14. \A i \in 1..Len(s) : s[i] = Bytes(o)[i]
      BY <2>10, <2>12, <2>13
    <2>15. s = Bytes(o)
      BY <2>12, <2>13, <2>14, SeqEqual
    <2>16. r.offset + r.size <= FrameStart(k) + Len(packFile[k])
      BY <2>3, <2>5, <2>7, <2>8
    <2> QED BY <2>2, <2>3, <2>5, <2>11, <2>15, <2>16
  <1> QED BY <1>1, <1>4, <1>5, <1>6, <1>7, <1>8, <1>9

-----------------------------------------------------------------------------
(* The tasks of a command that reads                                       *)

\* assign_to_frames drops the frames that have no entries.
NonEmpty(list) ==
    FoldLeft(LAMBDA tasks, task : IF task.entries = {} THEN tasks ELSE Append(tasks, task), <<>>, list)

\* A list of tasks as they are kept, one after the other.
Keep(tasks, task) == IF task.entries = {} THEN tasks ELSE Append(tasks, task)
Keeping(c, list, X) ==
    /\ c \in [0..Len(list) -> Seq(X)]
    /\ c[0] = <<>>
    /\ \A j \in 1..Len(list) : c[j] = Keep(c[j - 1], list[j])
    /\ NonEmpty(list) = c[Len(list)]

\* How NonEmpty computes.
LEMMA KeepChain ==
    ASSUME NEW X, NEW list \in Seq(X)
    PROVE  \E c : Keeping(c, list, X)
  <1>1. PICK N \in Nat : N = Len(list) /\ DOMAIN list = 1..N /\ \A j \in 1..N : list[j] \in X
    OBVIOUS
  <1> DEFINE V == Seq(X)
             step == [j \in 1..N |-> [v \in V |-> Keep(v, list[j])]]
             Eq(f) == f = [T \in SUBSET (1..N) |->
                              IF T = {} THEN <<>> ELSE Keep(f[T \ {Max(T)}], list[Max(T)])]
  <1>2. ASSUME NEW v \in V, NEW j \in 1..N PROVE Keep(v, list[j]) \in V
    <2>1. Append(v, list[j]) \in V
      BY <1>1, AppendProperties
    <2> QED BY <2>1 DEF Keep
  <1>3. step \in Steps(N, V)
    <2> HIDE DEF V
    <2> QED BY <1>2 DEF Steps
  <1>4. PICK f \in [SUBSET (1..N) -> V] :
           f = [T \in SUBSET (1..N) |-> IF T = {} THEN <<>> ELSE step[Max(T)][f[T \ {Max(T)}]]]
    <2>1. <<>> \in V
      BY EmptySeq DEF V
    <2> HIDE DEF V, step
    <2>2. \E f : ComputesLeft(f, N, V, <<>>, step)
      BY <1>1, <1>3, <2>1, LeftRecursion
    <2> QED BY <2>2 DEF ComputesLeft
  <1>5. Eq(f)
    <2>1. ASSUME NEW T \in SUBSET (1..N), T # {}
          PROVE  step[Max(T)][f[T \ {Max(T)}]] = Keep(f[T \ {Max(T)}], list[Max(T)])
      <3>1. T \in SUBSET (0..N)
        BY <1>1
      <3>2. Max(T) \in 1..N
        BY <1>1, <2>1, <3>1, MaxPicks
      <3> HIDE DEF V
      <3>3. f[T \ {Max(T)}] \in V
        BY <1>4
      <3> QED BY <3>2, <3>3
    <2> HIDE DEF step, V
    <2>2. \A T \in SUBSET (1..N) : f[T] = IF T = {} THEN <<>> ELSE Keep(f[T \ {Max(T)}], list[Max(T)])
      BY <1>4, <2>1
    <2> QED BY <1>4, <2>2
  <1> HIDE DEF step
  <1>6. PICK F : Eq(F) /\ NonEmpty(list) = F[1..N]
    <2>1. NonEmpty(list) = (CHOOSE F : Eq(F))[1..N]
      BY <1>1 DEF NonEmpty, FoldLeft, MapThenFoldSet, Keep
    <2> HIDE DEF Eq
    <2> QED BY <1>5, <2>1
  <1> DEFINE c == [j \in 0..N |-> F[1..j]]
  <1>7. c[0] = <<>>
    <2>1. 1..0 = {}
      OBVIOUS
    <2> QED BY <1>1, <1>6, <2>1
  <1>8. ASSUME NEW j \in 1..N PROVE c[j] = Keep(c[j - 1], list[j])
    <2>1. j \in Nat \ {0} /\ j - 1 \in 0..N /\ j \in 0..N /\ 1..j \in SUBSET (1..N) /\ 1..j # {}
      <3>1. j \in Nat \ {0} /\ j - 1 \in 0..N /\ j \in 0..N /\ j \in 1..j
        BY ONLY N \in Nat, j \in 1..N
      <3>2. 1..j \in SUBSET (1..N)
        BY ONLY N \in Nat, j \in 1..N
      <3> QED BY <3>1, <3>2
    <2>2. Max(1..j) = j /\ (1..j) \ {j} = 1..j - 1
      BY <2>1, MaxOfInterval
    <2>3. F[1..j] = Keep(F[1..j - 1], list[j])
      BY <1>6, <2>1, <2>2
    <2> QED BY <2>1, <2>3
  <1>9. c \in [0..N -> V]
    <2> DEFINE T == {j \in 0..N : c[j] \in V}
    <2>1. 0 \in T
      <3>1. <<>> \in V /\ 0 \in 0..N
        BY EmptySeq
      <3> HIDE DEF V, c
      <3> QED BY <1>7, <3>1
    <2>2. ASSUME NEW j \in 0..N - 1, j \in T PROVE j + 1 \in T
      <3>1. j + 1 \in 1..N /\ (j + 1) - 1 = j /\ j + 1 \in 0..N
        BY <1>1
      <3>2. c[j + 1] = Keep(c[j], list[j + 1])
        BY <1>8, <3>1
      <3> HIDE DEF V, c
      <3> QED BY <1>2, <2>2, <3>1, <3>2
    <2>3. 0..N \subseteq T
      <3> HIDE DEF T
      <3> QED BY <1>1, <2>1, <2>2, BoundedInduction
    <2> QED BY <2>3
  <1>10. c[N] = NonEmpty(list)
    BY <1>1, <1>6
  <1> HIDE DEF c
  <1> QED BY <1>1, <1>7, <1>8, <1>9, <1>10 DEF Keeping

\* Every task is one of the list, and every one of the list with entries is kept.
KeptFrom(tasks, list, m) ==
    /\ \A i \in 1..Len(tasks) : \E k \in 1..m : tasks[i] = list[k]
    /\ \A k \in 1..m : list[k].entries # {} => \E i \in 1..Len(tasks) : tasks[i] = list[k]

\* What NonEmpty keeps.
LEMMA NonEmptyFacts ==
    ASSUME NEW X, NEW list \in Seq(X)
    PROVE  NonEmpty(list) \in Seq(X) /\ KeptFrom(NonEmpty(list), list, Len(list))
  <1>1. PICK N \in Nat : N = Len(list) /\ \A j \in 1..N : list[j] \in X
    OBVIOUS
  <1>2. PICK c \in [0..N -> Seq(X)] :
           /\ c[0] = <<>>
           /\ \A j \in 1..N : c[j] = Keep(c[j - 1], list[j])
           /\ NonEmpty(list) = c[N]
    <2>1. \E c : Keeping(c, list, X)
      BY KeepChain
    <2> QED BY <1>1, <2>1 DEF Keeping
  <1> DEFINE T == {j \in 0..N : KeptFrom(c[j], list, j)}
  <1>3. 0 \in T
    BY <1>1, <1>2 DEF KeptFrom
  <1>4. ASSUME NEW j \in 0..N - 1, j \in T PROVE j + 1 \in T
    <2>1. j + 1 \in 1..N /\ (j + 1) - 1 = j /\ j + 1 \in 0..N /\ j \in 0..N /\ j \in Nat
      BY <1>1
    <2>2. PICK p, q, x : p = c[j] /\ q = c[j + 1] /\ x = list[j + 1]
      OBVIOUS
    <2>3. p \in Seq(X) /\ x \in X /\ q = Keep(p, x) /\ KeptFrom(p, list, j)
      BY <1>1, <1>2, <1>4, <2>1, <2>2
    <2>4. \A k \in 1..j + 1 : k \in 1..j \/ k = j + 1
      BY <2>1
    <2>5. \A k \in 1..j : k \in 1..j + 1
      BY <2>1
    <2>6. j + 1 \in 1..j + 1
      BY <2>1
    <2>7. CASE x.entries = {}
      <3>1. q = p
        BY <2>3, <2>7 DEF Keep
      <3>2. \A i \in 1..Len(q) : \E k \in 1..j + 1 : q[i] = list[k]
        <4>1. ASSUME NEW i \in 1..Len(p) PROVE \E k \in 1..j + 1 : p[i] = list[k]
          <5>1. PICK k \in 1..j : p[i] = list[k]
            BY <2>3 DEF KeptFrom
          <5> QED BY <2>5, <5>1
        <4> QED BY <3>1, <4>1
      <3>3. \A k \in 1..j + 1 : list[k].entries # {} => \E i \in 1..Len(q) : q[i] = list[k]
        <4>1. ASSUME NEW k \in 1..j + 1, list[k].entries # {} PROVE \E i \in 1..Len(p) : p[i] = list[k]
          <5>1. k \in 1..j
            BY <2>2, <2>4, <2>7, <4>1
          <5> QED BY <2>3, <4>1, <5>1 DEF KeptFrom
        <4> QED BY <3>1, <4>1
      <3>4. KeptFrom(q, list, j + 1)
        BY <3>2, <3>3 DEF KeptFrom
      <3> QED BY <2>1, <2>2, <3>4
    <2>8. CASE x.entries # {}
      <3>1. q = Append(p, x)
        BY <2>3, <2>8 DEF Keep
      <3>2. PICK l \in Nat : l = Len(p)
        BY <2>3, LenProperties
      <3>3. Len(q) = l + 1 /\ q[l + 1] = x /\ \A i \in 1..l : q[i] = p[i]
        BY ONLY <2>3, <3>1, <3>2, AppendProperties
      <3>4. /\ \A i \in 1..l + 1 : i \in 1..l \/ i = l + 1
            /\ \A i \in 1..l : i \in 1..l + 1
            /\ l + 1 \in 1..l + 1
        OBVIOUS
      <3>5. \A i \in 1..Len(q) : \E k \in 1..j + 1 : q[i] = list[k]
        <4>1. ASSUME NEW i \in 1..l + 1 PROVE \E k \in 1..j + 1 : q[i] = list[k]
          <5>1. CASE i = l + 1
            BY <2>2, <2>6, <3>3, <5>1
          <5>2. CASE i \in 1..l
            <6>1. PICK k \in 1..j : p[i] = list[k]
              BY <2>3, <3>2, <5>2 DEF KeptFrom
            <6> QED BY <2>5, <3>3, <5>2, <6>1
          <5> QED BY <3>4, <5>1, <5>2
        <4> QED BY <3>3, <4>1
      <3>6. \A k \in 1..j + 1 : list[k].entries # {} => \E i \in 1..Len(q) : q[i] = list[k]
        <4>1. ASSUME NEW k \in 1..j + 1, list[k].entries # {} PROVE \E i \in 1..l + 1 : q[i] = list[k]
          <5>1. CASE k = j + 1
            BY <2>2, <3>3, <3>4, <5>1
          <5>2. CASE k \in 1..j
            <6>1. PICK i \in 1..l : p[i] = list[k]
              BY <2>3, <3>2, <4>1, <5>2 DEF KeptFrom
            <6> QED BY <3>3, <3>4, <6>1
          <5> QED BY <2>4, <5>1, <5>2
        <4> QED BY <3>3, <4>1
      <3>7. KeptFrom(q, list, j + 1)
        BY <3>5, <3>6 DEF KeptFrom
      <3> QED BY <2>1, <2>2, <3>7
    <2> QED BY <2>7, <2>8
  <1>5. N \in T
    <2> HIDE DEF T
    <2>1. 0..N \subseteq T
      BY <1>1, <1>3, <1>4, BoundedInduction
    <2>2. N \in 0..N
      BY <1>1
    <2> QED BY <2>1, <2>2
  <1> QED BY <1>1, <1>2, <1>5

\* What a file of version v records of an entry, and the entries that are for it.
Rec(v, e) == [path |-> e.path, obj |-> e.obj, meta |-> IF v = 1 THEN DefaultMode ELSE e.meta]
IsFor(y, r) == y.path = r.path /\ y.obj = r.obj /\ y.meta = r.meta

\* The entries of a task have places in its stream that do not overlap, but for
\* empty objects.
TaskOK(task) ==
    /\ task.stream \in Seq(AByte) /\ IsFiniteSet(task.entries)
    /\ \A y \in task.entries : /\ y.offset \in Nat /\ y.obj \in Objects /\ y.size = Size[y.obj]
                               /\ y.meta = Symlink => y.size > 0
    /\ \A x, y \in task.entries :
          x.offset <= y.offset /\ y.offset < x.offset + x.size => x.obj = y.obj \/ y.size = 0

\* The stream has the bytes of the entries.
Sound(task) ==
    \A y \in task.entries : /\ y.offset + y.size <= Len(task.stream)
                            /\ \A i \in 1..y.size : task.stream[y.offset + i] = <<y.obj, i>>

\* The tasks are for the entries E, and all of them.
TasksOK(tasks, E, intact) ==
    /\ \A i \in 1..Len(tasks) : /\ TaskOK(tasks[i])
                                /\ intact => Sound(tasks[i])
                                /\ \A y \in tasks[i].entries : \E r \in E : IsFor(y, r)
    /\ \A r \in E : \E i \in 1..Len(tasks) : \E y \in tasks[i].entries : IsFor(y, r)

\* The object o at an offset is one of the order.
Located(offset, o, ix, ord, P, n) ==
    \E j \in 1..n : o = ix.objs[ord[j]] /\ o \in Objects /\ offset = P[j - 1]

\* An entry of a snapshot is at the place of its object in the order.
LEMMA EntryLocated ==
    ASSUME NEW ix, NEW pu, IndexOK(ix, pu), NEW v, NEW ord, NEW P, NEW n, Layout(ix, ord, P, n),
           NEW l \in 1..Len(pu), NEW e \in pu[l][2]
    PROVE  Located(EntryAs(ix, v, e).offset, e.obj, ix, ord, P, n)
  <1>1. PICK h : h = HandleOf(ix.objs, e.obj) /\ h \in 1..Len(ix.objs) /\ ix.objs[h] = e.obj
    <2>1. ix.objs \in Seq(Objects) /\ Distinct(ix.objs) /\ Contains(ix.objs, e.obj)
      BY DEF IndexOK, Shape, Pools, Indexes
    <2> QED BY <2>1, HandleFacts
  <1>2. PICK j \in 1..n : ord[j] = h
    BY <1>1 DEF Layout
  <1>3. ix.objs[ord[j]] \in Objects /\ ix.meta[ord[j]].offset = P[j - 1]
    <2>1. /\ ix.objs[ord[j]] \in Objects
          /\ ix.meta[ord[j]] = [size |-> Size[ix.objs[ord[j]]], offset |-> P[j - 1]]
      BY DEF Layout
    <2> QED BY <2>1
  <1> QED BY <1>1, <1>2, <1>3 DEF EntryAs, Located

\* The j-th object of the order begins inside the i-th.
Overlap(ix, ord, P, i, j) ==
    P[i - 1] <= P[j - 1] /\ P[j - 1] < P[i - 1] + Size[ix.objs[ord[i]]]

\* Objects that overlap are the same, or the second is empty.
LEMMA NoOverlap ==
    ASSUME NEW ix, NEW ord, NEW P, NEW n, Layout(ix, ord, P, n),
           NEW i \in 1..n, NEW j \in 1..n, Overlap(ix, ord, P, i, j)
    PROVE  i = j \/ Size[ix.objs[ord[j]]] = 0
  <1>1. /\ n \in Nat /\ Sums(P, n, [x \in 1..n |-> Size[ix.objs[ord[x]]]])
        /\ Weighs([x \in 1..n |-> Size[ix.objs[ord[x]]]], 1..n)
    BY DEF Layout
  <1>2. i - 1 \in 0..n /\ j - 1 \in 0..n /\ i \in 0..n /\ j \in 0..n /\ n \in Nat
    BY <1>1
  <1>3. /\ P[i] = P[i - 1] + Size[ix.objs[ord[i]]] /\ P[j] = P[j - 1] + Size[ix.objs[ord[j]]]
        /\ P[i - 1] \in Nat /\ P[j - 1] \in Nat /\ P[i] \in Nat /\ P[j] \in Nat
        /\ Size[ix.objs[ord[i]]] \in Nat /\ Size[ix.objs[ord[j]]] \in Nat
    BY <1>1, <1>2 DEF Sums, Weighs
  <1>4. CASE i < j
    <2>1. i <= j - 1
      BY <1>2, <1>4
    <2>2. P[i] <= P[j - 1]
      BY <1>1, <1>2, <2>1, SumsMonotone
    <2> QED BY <1>3, <2>2 DEF Overlap
  <1>5. CASE j < i
    <2>1. j <= i - 1
      BY <1>2, <1>5
    <2>2. P[j] <= P[i - 1]
      BY <1>1, <1>2, <2>1, SumsMonotone
    <2> QED BY <1>3, <2>2 DEF Overlap
  <1>6. i < j \/ j < i \/ i = j
    BY <1>2
  <1> QED BY <1>4, <1>5, <1>6

\* What a reader opened at a frame reads first is the frame.
LEMMA StreamBegins ==
    ASSUME NEW m, NEW Q, Starts(Q, m), NEW k \in 1..m
    PROVE  /\ StreamFrom(k) \in Seq(AByte)
           /\ Len(packFile[k]) <= Len(StreamFrom(k)) /\ Len(StreamFrom(k)) \in Nat
           /\ \A i \in 1..Len(packFile[k]) : StreamFrom(k)[i] = packFile[k][i]
  <1>1. /\ packFile \in Seq(Seq(AByte)) /\ m = Len(packFile) /\ m \in Nat
        /\ packFile[k] \in Seq(AByte) /\ Len(packFile[k]) \in Nat
    BY DEF Starts
  <1>2. PICK a \in Nat, n \in Nat : a + 1 = k /\ a + n = m /\ n # 0 /\ 1 \in 1..n /\ n \in 0..n
    <2>1. k - 1 \in Nat /\ m - (k - 1) \in Nat
      BY <1>1
    <2>2. /\ (k - 1) + 1 = k /\ (k - 1) + (m - (k - 1)) = m /\ m - (k - 1) # 0
          /\ 1 \in 1..m - (k - 1) /\ m - (k - 1) \in 0..m - (k - 1)
      BY <1>1
    <2> QED BY <2>1, <2>2
  <1>3. PICK ss : ss = SubSeq(packFile, a + 1, a + n) /\ StreamFrom(k) = FlattenSeq(ss)
    BY <1>1, <1>2 DEF StreamFrom
  <1>4. ss \in Seq(Seq(AByte)) /\ Len(ss) = n /\ ss[1] = packFile[k]
    <2>1. a + n <= Len(packFile)
      BY <1>1, <1>2
    <2>2. Slice(ss, packFile, Seq(AByte), a, n)
      BY <1>1, <1>3, <2>1, SubSeqSlice
    <2> QED BY <1>2, <2>2 DEF Slice
  <1>5. PICK w : w = [j \in 1..n |-> Len(ss[j])]
    OBVIOUS
  <1>6. Weighs(w, 1..n) /\ \A j \in 1..n : w[j] = Len(ss[j])
    <2>1. \A j \in 1..n : ss[j] \in Seq(AByte) /\ Len(ss[j]) \in Nat
      BY <1>4, ElementOfSeq, LenProperties
    <2> QED BY <1>5, <2>1 DEF Weighs
  <1>7. PICK P : Sums(P, n, w)
    BY <1>6, SumsExist
  <1>8. PICK fl : fl = FlattenSeq(ss) /\ Flattened(fl, ss, P, AByte)
    BY <1>4, <1>6, <1>7, FlattenFacts
  <1>9. fl \in Seq(AByte) /\ Len(fl) = P[n] /\ Len(fl) \in Nat
    BY <1>4, <1>8, LenProperties DEF Flattened
  <1>10. P[1 - 1] = 0 /\ P[1] = P[1 - 1] + w[1] /\ P[1 - 1] \in Nat /\ P[1] \in Nat
    BY <1>2, <1>7 DEF Sums
  <1>11. Len(packFile[k]) <= Len(fl)
    <2>1. 1 \in 0..n /\ 1 <= n
      BY <1>2
    <2>2. P[1] <= P[n]
      BY <1>2, <1>6, <1>7, <2>1, SumsMonotone
    <2>3. w[1] = Len(packFile[k])
      BY <1>2, <1>4, <1>6
    <2> QED BY <1>1, <1>9, <1>10, <2>2, <2>3
  <1>12. ASSUME NEW i \in 1..Len(packFile[k]) PROVE fl[i] = packFile[k][i]
    <2>1. fl[P[1 - 1] + i] = ss[1][i]
      BY <1>2, <1>4, <1>8 DEF Flattened
    <2>2. P[1 - 1] + i = i
      BY <1>1, <1>10
    <2> QED BY <1>4, <2>1, <2>2
  <1> QED BY <1>3, <1>8, <1>9, <1>11, <1>12

\* What assign_to_frames gives for entries of a snapshot.
LEMMA TasksMade ==
    ASSUME IndexOK(index, pushed), NEW v,
           NEW ord, NEW P, NEW n, NEW slices, NEW b, Plan(index, frames, ord, P, n, slices, b),
           Written(packFile, index, store, slices),
           NEW l \in 1..Len(pushed), NEW F, F \subseteq pushed[l][2],
           NEW W, W = {EntryAs(index, v, e) : e \in F}
    PROVE  \E S : /\ FrameTasks(W) \in Seq(S)
                  /\ TasksOK(FrameTasks(W), {Rec(v, e) : e \in F}, store = Intact)
                  /\ FrameTasks(W) # <<>> => Len(packFile) \in Nat \ {0}
  <1>1. PICK s \in Snapshots : s = pushed[l][2]
    <2>1. pushed \in Seq(Tags \X Snapshots)
      BY DEF IndexOK, Shape
    <2>2. pushed[l] \in Tags \X Snapshots
      BY <2>1, ElementOfSeq
    <2> QED BY <2>2
  <1>2. /\ packFile \in Seq(Seq(AByte)) /\ Layout(index, ord, P, n)
        /\ n \in Nat /\ P \in [0..n -> Nat]
    BY DEF Written, Plan, Layout, Sums
  <1>3. PICK m, Q : m = Len(packFile) /\ Starts(Q, m) /\ m \in Nat /\ DOMAIN packFile = 1..m
    BY <1>2, StartsExist DEF Starts
  <1>4. ASSUME NEW e \in F
        PROVE  /\ e \in s /\ e.obj \in Objects /\ Size[e.obj] \in Nat
               /\ e.meta = Symlink => Size[e.obj] > 0
               /\ EntryAs(index, v, e) \in W
               /\ EntryAs(index, v, e).path = e.path /\ EntryAs(index, v, e).obj = e.obj
               /\ EntryAs(index, v, e).meta = (IF v = 1 THEN DefaultMode ELSE e.meta)
               /\ EntryAs(index, v, e).size = Size[e.obj]
               /\ \E j \in 1..n : /\ e.obj = index.objs[ord[j]]
                                  /\ EntryAs(index, v, e).offset = P[j - 1]
                                  /\ P[j - 1] \in Nat
    <2>1. e \in s /\ e \in pushed[l][2]
      BY <1>1
    <2>2. e.obj \in Objects /\ Size[e.obj] \in Nat /\ (e.meta = Symlink => Size[e.obj] > 0)
      BY <2>1, SnapshotFacts
    <2>3. PICK j \in 1..n : /\ e.obj = index.objs[ord[j]]
                            /\ EntryAs(index, v, e).offset = P[j - 1]
      <3>1. Located(EntryAs(index, v, e).offset, e.obj, index, ord, P, n)
        BY <1>2, <2>1, EntryLocated
      <3> QED BY <3>1 DEF Located
    <2>4. j - 1 \in 0..n
      BY <1>2
    <2>5. P[j - 1] \in Nat
      BY <1>2, <2>4
    <2> QED BY <2>1, <2>2, <2>3, <2>5 DEF EntryAs
  <1>5. ASSUME NEW x \in W
        PROVE  /\ x = [path |-> x.path, obj |-> x.obj, meta |-> x.meta, size |-> x.size, offset |-> x.offset]
               /\ x.obj \in Objects /\ x.size = Size[x.obj] /\ x.size \in Nat
               /\ x.meta = Symlink => x.size > 0
               /\ \E j \in 1..n : x.obj = index.objs[ord[j]] /\ x.offset = P[j - 1]
               /\ x.offset \in Nat
               /\ \E e \in F : IsFor(x, Rec(v, e))
    <2>1. PICK e \in F : x = EntryAs(index, v, e)
      OBVIOUS
    <2>2. x = [path |-> x.path, obj |-> x.obj, meta |-> x.meta, size |-> x.size, offset |-> x.offset]
      BY <2>1 DEF EntryAs
    <2>3. DefaultMode # Symlink
      BY PackIndexAssumption
    <2>4. IsFor(x, Rec(v, e))
      BY <1>4, <2>1 DEF IsFor, Rec
    <2> QED BY ZenonT(40), <1>4, <2>1, <2>2, <2>3, <2>4
  <1>6. IsFiniteSet(W)
    <2>1. IsFiniteSet(F)
      <3>1. F \in SUBSET s /\ IsFiniteSet(s)
        BY <1>1, SnapshotFacts
      <3> QED BY <3>1, FS_Subset
    <2>2. PICK f : f = [e \in F |-> EntryAs(index, v, e)]
      OBVIOUS
    <2>3. f \in Surjection(F, W)
      BY <2>2 DEF Surjection
    <2> QED BY <2>1, <2>3, FS_Surjection
  <1> DEFINE here(k) == {x \in W : FrameOf(x) = k}
             shift(x, k) == [x EXCEPT !.offset = @ - FrameStart(k)]
             local(k) == {shift(x, k) : x \in here(k)}
             list == [k \in 1..m |-> [stream |-> StreamFrom(k), entries |-> local(k)]]
             X == {list[k] : k \in 1..m}
  <1>7. list \in Seq(X) /\ Len(list) = m
    <2>1. list \in [1..m -> X]
      OBVIOUS
    <2> HIDE DEF list, X
    <2> QED BY <1>3, <2>1, ListOf
  <1>8. FrameTasks(W) = NonEmpty(list)
    BY <1>3 DEF FrameTasks, NonEmpty
  <1>9. PICK tasks : tasks = FrameTasks(W) /\ tasks \in Seq(X) /\ KeptFrom(tasks, list, m)
    <2> HIDE DEF list, X
    <2> QED BY <1>7, <1>8, NonEmptyFacts
  \* An entry has a frame, and a place in it.
  <1>10. ASSUME NEW k \in 1..m, NEW x \in here(k)
         PROVE  /\ x \in W
                /\ shift(x, k).path = x.path /\ shift(x, k).obj = x.obj /\ shift(x, k).meta = x.meta
                /\ shift(x, k).size = x.size /\ shift(x, k).offset = x.offset - Q[k - 1]
                /\ Q[k - 1] \in Nat /\ Q[k - 1] <= x.offset
    <2>1. x \in W /\ FrameOf(x) = k /\ m # 0
      BY <1>3
    <2>2. FrameStart(k) = Q[k - 1]
      BY <1>3 DEF Starts
    <2>3. Q[k - 1] \in Nat /\ Q[k - 1] <= x.offset
      BY <1>3, <1>5, <2>1, FrameOfFacts
    <2>4. PICK p, o, t, z, a : x = [path |-> p, obj |-> o, meta |-> t, size |-> z, offset |-> a]
      BY <1>5, <2>1
    <2> QED BY <2>1, <2>2, <2>3, <2>4
  <1> HIDE DEF shift
  <1>11. ASSUME NEW k \in 1..m
         PROVE  /\ TaskOK(list[k])
                /\ store = Intact => Sound(list[k])
                /\ \A y \in list[k].entries : \E r \in {Rec(v, e) : e \in F} : IsFor(y, r)
    <2>0. list[k].stream = StreamFrom(k) /\ list[k].entries = local(k)
      OBVIOUS
    <2>1. StreamFrom(k) \in Seq(AByte)
      BY <1>3, StreamBegins
    <2>2. IsFiniteSet(local(k))
      <3>1. IsFiniteSet(here(k))
        <4>1. here(k) \in SUBSET W
          OBVIOUS
        <4> HIDE DEF here
        <4> QED BY <1>6, <4>1, FS_Subset
      <3>2. PICK f : f = [x \in here(k) |-> shift(x, k)]
        OBVIOUS
      <3>3. f \in Surjection(here(k), local(k))
        BY <3>2 DEF Surjection
      <3> HIDE DEF here, local
      <3> QED BY <3>1, <3>3, FS_Surjection
    <2>3. ASSUME NEW y \in local(k)
          PROVE  /\ y.offset \in Nat /\ y.obj \in Objects /\ y.size = Size[y.obj]
                 /\ y.meta = Symlink => y.size > 0
                 /\ \E r \in {Rec(v, e) : e \in F} : IsFor(y, r)
      <3>1. PICK x \in here(k) : y = shift(x, k)
        OBVIOUS
      <3>2. PICK e \in F : IsFor(x, Rec(v, e))
        BY <1>5, <1>10
      <3>3. IsFor(y, Rec(v, e))
        BY <1>10, <3>1, <3>2 DEF IsFor
      <3>4. y.offset \in Nat
        BY <1>5, <1>10, <3>1
      <3> QED BY <1>5, <1>10, <3>1, <3>3, <3>4
    <2>4. ASSUME NEW x \in local(k), NEW y \in local(k), x.offset <= y.offset, y.offset < x.offset + x.size
          PROVE  x.obj = y.obj \/ y.size = 0
      <3>1. PICK a \in here(k), c \in here(k) : x = shift(a, k) /\ y = shift(c, k)
        OBVIOUS
      <3>2. /\ x.obj = a.obj /\ y.obj = c.obj /\ x.size = a.size /\ y.size = c.size
            /\ x.offset = a.offset - Q[k - 1] /\ y.offset = c.offset - Q[k - 1] /\ Q[k - 1] \in Nat
            /\ a \in W /\ c \in W
        BY <1>10, <3>1
      <3>3. /\ a.offset \in Nat /\ c.offset \in Nat /\ a.size \in Nat
            /\ a.size = Size[a.obj] /\ c.size = Size[c.obj]
        BY <1>5, <3>2
      <3>4. a.offset <= c.offset /\ c.offset < a.offset + a.size
        BY ONLY <2>4, <3>2, <3>3
      <3>5. PICK i \in 1..n : a.obj = index.objs[ord[i]] /\ a.offset = P[i - 1]
        BY <1>5, <3>2
      <3>6. PICK j \in 1..n : c.obj = index.objs[ord[j]] /\ c.offset = P[j - 1]
        BY <1>5, <3>2
      <3>7. i = j \/ Size[index.objs[ord[j]]] = 0
        <4>1. P[i - 1] <= P[j - 1] /\ P[j - 1] < P[i - 1] + Size[index.objs[ord[i]]]
          BY ONLY <3>3, <3>4, <3>5, <3>6
        <4>2. Overlap(index, ord, P, i, j)
          BY <4>1 DEF Overlap
        <4>3. Layout(index, ord, P, n)
          BY <1>2
        <4> QED BY ONLY <3>5, <3>6, <4>2, <4>3, NoOverlap
      <3> QED BY <3>2, <3>3, <3>5, <3>6, <3>7
    <2>5. TaskOK(list[k])
      <3> HIDE DEF list, local
      <3> QED BY <2>0, <2>1, <2>2, <2>3, <2>4 DEF TaskOK
    <2>6. ASSUME store = Intact, NEW y \in local(k)
          PROVE  /\ y.offset + y.size <= Len(StreamFrom(k))
                 /\ \A i \in 1..y.size : StreamFrom(k)[y.offset + i] = <<y.obj, i>>
      <3>1. PICK x \in here(k) : y = shift(x, k)
        OBVIOUS
      <3>2. /\ y.obj = x.obj /\ y.size = x.size /\ y.offset = x.offset - Q[k - 1] /\ Q[k - 1] \in Nat
            /\ Q[k - 1] <= x.offset /\ x \in W /\ FrameOf(x) = k
        BY <1>10, <3>1
      <3>3. PICK j \in 1..n : x.obj = index.objs[ord[j]] /\ x.offset = P[j - 1]
        BY <1>5, <3>2
      <3>4. Written(packFile, index, Intact, slices)
        BY <2>6
      <3>5. InFrame(P, Q, m, j, FrameOf(x), index.objs[ord[j]])
        BY <1>3, <3>3, <3>4, WholeInFrame
      <3>6. /\ P[j - 1] \in Nat /\ P[j] = x.offset + x.size /\ P[j] <= Q[k]
            /\ \A i \in 1..Size[x.obj] : packFile[k][x.offset - Q[k - 1] + i] = <<x.obj, i>>
            /\ x.size = Size[x.obj] /\ x.size \in Nat /\ x.offset \in Nat
        BY <1>5, <3>2, <3>3, <3>5 DEF InFrame
      <3>7. Q[k] = Q[k - 1] + Len(packFile[k]) /\ Len(packFile[k]) \in Nat
        BY <1>3 DEF Starts
      <3>8. y.offset + y.size <= Len(packFile[k]) /\ y.offset \in Nat /\ y.size \in Nat
        BY ONLY SMTT(30), <3>2, <3>6, <3>7
      <3>9. /\ Len(packFile[k]) <= Len(StreamFrom(k)) /\ Len(StreamFrom(k)) \in Nat
            /\ \A i \in 1..Len(packFile[k]) : StreamFrom(k)[i] = packFile[k][i]
        BY <1>3, StreamBegins
      <3>10. y.offset + y.size <= Len(StreamFrom(k))
        BY ONLY <3>7, <3>8, <3>9
      <3>11. ASSUME NEW i \in 1..y.size PROVE StreamFrom(k)[y.offset + i] = <<y.obj, i>>
        <4>1. y.offset + i \in 1..Len(packFile[k])
          BY ONLY <3>7, <3>8, i \in 1..y.size
        <4>2. packFile[k][y.offset + i] = <<y.obj, i>>
          BY <3>2, <3>6
        <4> QED BY <3>9, <4>1, <4>2
      <3> QED BY <3>10, <3>11
    <2>7. store = Intact => Sound(list[k])
      <3> HIDE DEF list, local
      <3> QED BY <2>0, <2>6 DEF Sound
    <2> HIDE DEF list, local
    <2> QED BY <2>0, <2>3, <2>5, <2>7
  <1>12. ASSUME NEW r \in {Rec(v, e) : e \in F}
         PROVE  \E i \in 1..Len(tasks) : \E y \in tasks[i].entries : IsFor(y, r)
    <2>1. PICK e \in F : r = Rec(v, e)
      OBVIOUS
    <2>2. PICK x : x = EntryAs(index, v, e) /\ x \in W /\ IsFor(x, r)
      BY <1>4, <2>1 DEF IsFor, Rec
    <2>3. m # 0
      <3>1. PICK j \in 1..n : TRUE
        BY <1>4
      <3>2. n # 0 /\ m = Len(slices) /\ b[0] = 0 /\ b[Len(slices)] = n
        BY <1>2, <1>3 DEF Written, Plan, Cuts, Layout
      <3> QED BY <3>2
    <2>4. FrameOf(x) \in 1..m
      BY <1>3, <1>5, <2>2, <2>3, FrameOfFacts
    <2>5. PICK k \in 1..m : k = FrameOf(x)
      BY <2>4
    <2>6. x \in here(k)
      BY <2>2, <2>5
    <2>7. shift(x, k) \in local(k) /\ IsFor(shift(x, k), r)
      BY <1>10, <2>2, <2>6 DEF IsFor
    <2>8. list[k].entries = local(k)
      OBVIOUS
    <2> HIDE DEF list, local
    <2>9. PICK i \in 1..Len(tasks) : tasks[i] = list[k]
      BY <1>9, <2>7, <2>8 DEF KeptFrom
    <2> QED BY <2>7, <2>8, <2>9
  <1>13. TasksOK(tasks, {Rec(v, e) : e \in F}, store = Intact)
    <2> HIDE DEF list
    <2>1. ASSUME NEW i \in 1..Len(tasks)
          PROVE  /\ TaskOK(tasks[i]) /\ (store = Intact => Sound(tasks[i]))
                 /\ \A y \in tasks[i].entries : \E r \in {Rec(v, e) : e \in F} : IsFor(y, r)
      <3>1. PICK k \in 1..m : tasks[i] = list[k]
        BY <1>9 DEF KeptFrom
      <3> QED BY <1>11, <3>1
    <2> QED BY <1>12, <2>1 DEF TasksOK
  <1>14. tasks # <<>> => m # 0
    <2>1. tasks \in Seq(X) /\ \A i \in 1..Len(tasks) : \E k \in 1..m : tasks[i] = list[k]
      BY <1>9 DEF KeptFrom
    <2> HIDE DEF X, list
    <2>2. Len(tasks) \in Nat /\ (Len(tasks) = 0 => tasks = <<>>)
      BY ONLY <2>1, LenProperties, EmptySeq
    <2>3. Len(tasks) # 0 => 1 \in 1..Len(tasks)
      BY ONLY <2>2
    <2>4. \A k \in 1..m : m # 0
      BY <1>3
    <2> QED BY ONLY <2>1, <2>2, <2>3, <2>4
  <1> HIDE DEF X
  <1> QED BY <1>3, <1>9, <1>13, <1>14

-----------------------------------------------------------------------------
(* Reading the entries of one task                                         *)

\* Where a reader can be that makes things in X.
Readers(X) == [pos : Nat, buf : Seq(AByte), ok : BOOLEAN, files : SUBSET X]

\* A list of the entries, in the order of their offsets.
Ordered(order, entries, N) ==
    /\ order \in Seq(entries) /\ N = Len(order) /\ N \in Nat /\ DOMAIN order = 1..N
    /\ \A i \in 1..N : order[i] \in entries
    /\ \A y \in entries : \E i \in 1..N : order[i] = y
    /\ \A i, j \in 1..N : i < j => order[i].offset <= order[j].offset

\* The buffer is that of one of the first j entries, and ends where the reader is.
PosOK(at, order, j) ==
    at.pos = 0 \/ \E i \in 1..j : /\ at.pos = order[i].offset + order[i].size
                                  /\ at.buf = Bytes(order[i].obj)

\* The sorted entries of a task are all of its entries.
LEMMA OrderedIs ==
    ASSUME NEW task, TaskOK(task), NEW order \in InOffsetOrder(task.entries)
    PROVE  Ordered(order, task.entries, Len(order))
  <1>1. order \in SetToSeqs(task.entries)
    BY DEF InOffsetOrder
  <1>2. IsFiniteSet(task.entries)
    BY DEF TaskOK
  <1>3. /\ order \in Seq(task.entries) /\ DOMAIN order = 1..Len(order)
        /\ \A y \in task.entries : \E i \in 1..Len(order) : order[i] = y
    BY <1>1, <1>2, ListsOfSet
  <1>4. Len(order) \in Nat /\ \A i \in 1..Len(order) : order[i] \in task.entries
    BY <1>3, LenProperties, ElementOfSeq
  <1>5. \A i, j \in 1..Len(order) : i < j => order[i].offset <= order[j].offset
    BY <1>3 DEF InOffsetOrder
  <1> QED BY <1>3, <1>4, <1>5 DEF Ordered

\* seek and read_exact.
LEMMA AdvanceFacts ==
    ASSUME NEW X, NEW stream \in Seq(AByte), NEW at \in Readers(X), NEW e,
           e.offset \in Nat, e.size \in Nat, NEW r, r = Advance(stream, at, e)
    PROVE  /\ r \in Readers(X) /\ r.files = at.files
           /\ at.pos > e.offset => r = at
           /\ at.pos <= e.offset =>
                 /\ r.pos = e.offset + e.size
                 /\ r.ok = (at.ok /\ (e.size > 0 => e.offset + e.size <= Len(stream)))
                 /\ r.buf = SubSeq(stream, e.offset + 1, Min({e.offset + e.size, Len(stream)}))
  <1>1. PICK o, z, L : o = e.offset /\ z = e.size /\ L = Len(stream) /\ o \in Nat /\ z \in Nat /\ L \in Nat
    BY LenProperties
  <1>2. at.pos \in Nat /\ at.ok \in BOOLEAN /\ at.buf \in Seq(AByte) /\ at.files \in SUBSET X
        /\ at = [pos |-> at.pos, buf |-> at.buf, ok |-> at.ok, files |-> at.files]
    BY DEF Readers
  <1>3. CASE at.pos > o
    BY <1>1, <1>2, <1>3 DEF Advance
  <1>4. CASE ~(at.pos > o)
    <2>0. PICK to : to = o + z /\ to \in Nat /\ to \in Int /\ L \in Int
      BY <1>1
    <2>1. PICK hi : hi = Min({to, L}) /\ hi \in Nat /\ hi <= L
      <3>1. Min({to, L}) = IF to <= L THEN to ELSE L
        BY ONLY <2>0, MinOfTwo
      <3>2. L \in Nat
        BY <1>1
      <3> QED BY ONLY <2>0, <3>1, <3>2
    <2>2. PICK bs : bs = SubSeq(stream, o + 1, hi) /\ bs \in Seq(AByte)
      <3>0. o \in Nat /\ hi \in Nat /\ L \in Nat /\ hi <= L
        BY <1>1, <2>1
      <3>1. PICK lo : lo = o + 1 /\ lo \in Int /\ hi \in Int /\ lo..hi \subseteq 1..L
        BY ONLY <3>0
      <3>2. \A i \in lo..hi : stream[i] \in AByte
        BY <1>1, <3>1, ElementOfSeq
      <3>3. lo \in Int /\ hi \in Int
        BY <3>1
      <3>4. SubSeq(stream, lo, hi) \in Seq(AByte)
        BY ONLY <3>2, <3>3, SubSeqProperties
      <3> QED BY <3>1, <3>4
    <2>3. PICK k : k = (at.ok /\ (z > 0 => o + z <= L)) /\ k \in BOOLEAN
      OBVIOUS
    <2>4. r = [at EXCEPT !.pos = o + z, !.buf = bs, !.ok = k]
      BY <1>1, <1>4, <2>0, <2>1, <2>2, <2>3 DEF Advance
    <2>5. r = [pos |-> o + z, buf |-> bs, ok |-> k, files |-> at.files]
      BY <1>2, <2>4
    <2>6. r.pos = o + z /\ r.buf = bs /\ r.ok = k /\ r.files = at.files
      BY <2>5
    <2>7. r \in Readers(X)
      <3>1. PICK fs : fs = at.files /\ fs \in SUBSET X
        BY <1>2
      <3>2. bs \in Seq(AByte) /\ k \in BOOLEAN /\ to \in Nat /\ fs \in SUBSET X
        BY <2>0, <2>2, <2>3, <3>1
      <3>3. r = [pos |-> to, buf |-> bs, ok |-> k, files |-> fs]
        BY <2>0, <2>5, <3>1
      <3> HIDE DEF AByte
      <3> QED BY ONLY <3>2, <3>3, Zenon DEF Readers
    <2>8. ~(at.pos > e.offset)
      BY <1>1, <1>4
    <2> QED BY <1>1, <2>0, <2>1, <2>2, <2>3, <2>6, <2>7, <2>8
  <1> QED BY <1>1, <1>3, <1>4

\* An entry that is read from a sound stream is read exactly.
LEMMA SoundRead ==
    ASSUME NEW task, TaskOK(task), Sound(task), NEW y \in task.entries
    PROVE  /\ y.offset + y.size <= Len(task.stream)
           /\ SubSeq(task.stream, y.offset + 1, Min({y.offset + y.size, Len(task.stream)})) = Bytes(y.obj)
  <1>1. PICK o, z, L, ob, st : /\ o = y.offset /\ z = y.size /\ L = Len(task.stream) /\ ob = y.obj
                               /\ st = task.stream
    OBVIOUS
  <1>2. st \in Seq(AByte) /\ o \in Nat /\ ob \in Objects /\ z = Size[ob]
    BY <1>1 DEF TaskOK
  <1>3. /\ z \in Nat /\ Bytes(ob) \in Seq(AByte) /\ Len(Bytes(ob)) = z
        /\ \A i \in 1..z : Bytes(ob)[i] = <<ob, i>>
    BY <1>2, BytesFacts
  <1>4. L \in Nat /\ o + z <= L /\ \A i \in 1..z : st[o + i] = <<ob, i>>
    BY <1>1, <1>2, LenProperties DEF Sound
  <1>5. Min({o + z, L}) = o + z
    BY SMTT(30), <1>2, <1>3, <1>4, MinOfTwo
  <1>6. PICK s : s = SubSeq(st, o + 1, o + z)
    OBVIOUS
  <1>7. s \in Seq(AByte) /\ Len(s) = z /\ \A i \in 1..z : s[i] = st[o + i]
    <2>1. o \in Nat /\ z \in Nat /\ o + z <= Len(st) /\ st \in Seq(AByte)
      BY <1>1, <1>2, <1>3, <1>4
    <2>2. Slice(SubSeq(st, o + 1, o + z), st, AByte, o, z)
      BY ONLY <2>1, SubSeqSlice
    <2> QED BY <1>6, <2>2 DEF Slice
  <1>8. s = Bytes(ob)
    BY <1>3, <1>4, <1>7, SeqEqual
  <1> QED BY <1>1, <1>4, <1>5, <1>6, <1>8

\* A reader that is past an entry has its bytes in the buffer, or it is empty.
LEMMA StaleBuffer ==
    ASSUME NEW task, TaskOK(task), NEW order, NEW N, Ordered(order, task.entries, N),
           NEW j \in 0..N - 1, NEW at, PosOK(at, order, j), at.pos > order[j + 1].offset
    PROVE  at.buf = Bytes(order[j + 1].obj) \/ order[j + 1].size = 0
  <1>1. N \in Nat /\ j + 1 \in 1..N
    BY DEF Ordered
  <1>2. PICK e : e = order[j + 1] /\ e \in task.entries /\ e.offset \in Nat
    BY <1>1 DEF Ordered, TaskOK
  <1>3. at.pos # 0
    BY <1>2
  <1>4. PICK i \in 1..j : at.pos = order[i].offset + order[i].size /\ at.buf = Bytes(order[i].obj)
    BY <1>3 DEF PosOK
  <1>5. i \in 1..N /\ i < j + 1
    BY <1>1
  <1>6. PICK x : x = order[i] /\ x \in task.entries /\ x.offset <= e.offset
    BY <1>1, <1>2, <1>5 DEF Ordered
  <1>7. x.offset \in Nat /\ x.size \in Nat
    BY <1>6, BytesFacts DEF TaskOK
  <1>8. e.offset < x.offset + x.size
    BY <1>2, <1>4, <1>6, <1>7
  <1>9. x.obj = e.obj \/ e.size = 0
    BY <1>2, <1>6, <1>8 DEF TaskOK
  <1> QED BY <1>2, <1>4, <1>6, <1>9


\* A reader that has made one thing more, and one that has failed.
Added(g, read, f, X) ==
    /\ g \in Readers(X) /\ g.pos = read.pos /\ g.buf = read.buf /\ g.ok = read.ok
    /\ g.files = read.files \cup {f}
Failed(g, X) == g \in Readers(X) /\ ~g.ok

\* What the end of a turn does to a reader.
LEMMA ReaderUpdates ==
    ASSUME NEW X, NEW read \in Readers(X), NEW f \in X
    PROVE  /\ Added([read EXCEPT !.files = @ \cup {f}], read, f, X)
           /\ Failed([read EXCEPT !.ok = FALSE], X)
  <1>1. PICK p, bf, k, fs : p = read.pos /\ bf = read.buf /\ k = read.ok /\ fs = read.files
    OBVIOUS
  <1>2. /\ p \in Nat /\ bf \in Seq(AByte) /\ k \in BOOLEAN /\ fs \in SUBSET X
        /\ read = [pos |-> p, buf |-> bf, ok |-> k, files |-> fs]
    BY <1>1 DEF Readers
  <1>3. PICK more \in SUBSET X : more = fs \cup {f}
    BY <1>2
  <1>4. PICK g, h : g = [read EXCEPT !.files = @ \cup {f}] /\ h = [read EXCEPT !.ok = FALSE]
    OBVIOUS
  <1>5. g = [pos |-> p, buf |-> bf, ok |-> k, files |-> more]
    BY <1>2, <1>3, <1>4
  <1>6. h = [pos |-> p, buf |-> bf, ok |-> FALSE, files |-> fs]
    BY <1>2, <1>4
  <1>7. g \in Readers(X) /\ h \in Readers(X)
    <2>1. p \in Nat /\ bf \in Seq(AByte) /\ k \in BOOLEAN /\ fs \in SUBSET X /\ more \in SUBSET X
      BY <1>2
    <2> HIDE DEF AByte
    <2> QED BY ONLY <2>1, <1>5, <1>6, Zenon DEF Readers
  <1>8. g.pos = p /\ g.buf = bf /\ g.ok = k /\ g.files = more /\ ~h.ok
    BY <1>5, <1>6
  <1> QED BY <1>1, <1>3, <1>4, <1>7, <1>8 DEF Added, Failed

\* What is written for an entry, with the buffer of the reader.
Made(e, buf) == IF e.size = 0 /\ e.meta # Symlink THEN <<>> ELSE buf

\* One turn of extract_files on an entry that is read, and on one whose object is
\* the one just read.
FreshTurn(r, at, e, verify, stream, bs) ==
    /\ bs = SubSeq(stream, e.offset + 1, Min({e.offset + e.size, Len(stream)}))
    /\ r.ok <=> /\ e.size > 0 => e.offset + e.size <= Len(stream)
                /\ verify => Matches(bs, e.obj)
    /\ r.ok => /\ r.pos = e.offset + e.size /\ r.buf = bs
               /\ r.files = at.files \cup {File(e, Made(e, bs))}
StaleTurn(r, at, e, verify) ==
    /\ r.ok <=> (e.meta = Symlink /\ verify => Matches(at.buf, e.obj))
    /\ r.ok => /\ r.pos = at.pos /\ r.buf = at.buf
               /\ r.files = at.files \cup {File(e, Made(e, at.buf))}

\* A turn of extract_files is one of these, unless it failed before.
LEMMA ExtractTurn ==
    ASSUME NEW X, NEW stream \in Seq(AByte), NEW at \in Readers(X), NEW e,
           e.offset \in Nat, e.size \in Nat, \A bs \in Seq(AByte) : File(e, bs) \in X,
           NEW verify, NEW r, r = ExtractEntry(stream, verify, at, e)
    PROVE  /\ r \in Readers(X)
           /\ ~at.ok => r = at
           /\ at.ok /\ at.pos <= e.offset => \E bs : FreshTurn(r, at, e, verify, stream, bs)
           /\ at.ok /\ at.pos > e.offset => StaleTurn(r, at, e, verify)
  <1>1. PICK read : read = Advance(stream, at, e)
    OBVIOUS
  <1>2. PICK bs : bs = SubSeq(stream, e.offset + 1, Min({e.offset + e.size, Len(stream)}))
    OBVIOUS
  <1>3. /\ read \in Readers(X) /\ read.files = at.files
        /\ at.pos > e.offset => read = at
        /\ at.pos <= e.offset => /\ read.pos = e.offset + e.size
                                 /\ read.ok = (at.ok /\ (e.size > 0 => e.offset + e.size <= Len(stream)))
                                 /\ read.buf = bs
    BY <1>1, <1>2, AdvanceFacts
  <1>4. /\ read.pos \in Nat /\ read.buf \in Seq(AByte) /\ read.ok \in BOOLEAN /\ read.files \in SUBSET X
        /\ read = [pos |-> read.pos, buf |-> read.buf, ok |-> read.ok, files |-> read.files]
        /\ at.pos \in Nat
    BY <1>3 DEF Readers
  <1>5. PICK out : out = Made(e, read.buf) /\ out \in Seq(AByte)
    BY <1>4, EmptySeq DEF Made
  <1>6. PICK more : more = read.files \cup {File(e, out)} /\ more \in SUBSET X
    BY ZenonT(40), <1>4, <1>5
  <1>7. PICK f \in X : f = File(e, out)
    BY <1>5
  <1>8. PICK good, bad : good = [read EXCEPT !.files = @ \cup {f}] /\ bad = [read EXCEPT !.ok = FALSE]
    OBVIOUS
  <1>9. Added(good, read, f, X) /\ Failed(bad, X)
    BY <1>3, <1>8, ReaderUpdates
  <1>10. /\ good.pos = read.pos /\ good.buf = read.buf /\ good.ok = read.ok /\ good.files = more
         /\ ~bad.ok /\ good \in Readers(X) /\ bad \in Readers(X)
    BY <1>6, <1>7, <1>9 DEF Added, Failed
  <1> DEFINE k == /\ read.ok
                  /\ at.pos <= e.offset /\ verify => Matches(read.buf, e.obj)
                  /\ e.meta = Symlink /\ verify => Matches(read.buf, e.obj)
  <1>11. r = IF ~at.ok THEN at ELSE IF ~k THEN bad ELSE good
    BY <1>1, <1>5, <1>7, <1>8 DEF ExtractEntry, Made
  <1>12. r \in Readers(X)
    <2> HIDE DEF k
    <2> QED BY <1>10, <1>11
  <1>13. ASSUME at.ok, at.pos <= e.offset PROVE FreshTurn(r, at, e, verify, stream, bs)
    BY <1>2, <1>3, <1>5, <1>6, <1>10, <1>11, <1>13 DEF FreshTurn
  <1>14. ASSUME at.ok, at.pos > e.offset PROVE StaleTurn(r, at, e, verify)
    <2>1. read = at /\ ~(at.pos <= e.offset)
      BY <1>3, <1>4, <1>14
    <2> QED BY <1>5, <1>6, <1>10, <1>11, <1>14, <2>1 DEF StaleTurn
  <1> QED BY <1>11, <1>12, <1>13, <1>14


\* One turn of read_objects on an entry that is not empty, read or not.
ReadTurn(r, at, e, stream, bs) ==
    /\ at.pos > e.offset => bs = at.buf /\ r.ok /\ r.pos = at.pos
    /\ at.pos <= e.offset =>
          /\ bs = SubSeq(stream, e.offset + 1, Min({e.offset + e.size, Len(stream)}))
          /\ r.ok <=> e.offset + e.size <= Len(stream)
          /\ r.ok => r.pos = e.offset + e.size
    /\ r.ok => r.buf = bs /\ r.files = at.files \cup {<<e, bs>>}
EmptyTurn(r, at, e) ==
    r.ok /\ r.pos = at.pos /\ r.buf = at.buf /\ r.files = at.files \cup {<<e, <<>>>>}

\* A turn of read_objects is one of these, unless it failed before.
LEMMA ReadObjectTurn ==
    ASSUME NEW X, NEW stream \in Seq(AByte), NEW at \in Readers(X), NEW e,
           e.offset \in Nat, e.size \in Nat, \A bs \in Seq(AByte) : <<e, bs>> \in X,
           NEW r, r = ReadObject(stream, at, e)
    PROVE  /\ r \in Readers(X)
           /\ ~at.ok => r = at
           /\ at.ok /\ e.size = 0 => EmptyTurn(r, at, e)
           /\ at.ok /\ e.size # 0 => \E bs : ReadTurn(r, at, e, stream, bs)
  <1>1. PICK read : read = Advance(stream, at, e)
    OBVIOUS
  <1>2. PICK bs : bs = SubSeq(stream, e.offset + 1, Min({e.offset + e.size, Len(stream)}))
    OBVIOUS
  <1>3. /\ read \in Readers(X) /\ read.files = at.files
        /\ at.pos > e.offset => read = at
        /\ at.pos <= e.offset => /\ read.pos = e.offset + e.size
                                 /\ read.ok = (at.ok /\ (e.size > 0 => e.offset + e.size <= Len(stream)))
                                 /\ read.buf = bs
    BY SMTT(30), <1>1, <1>2, AdvanceFacts
  <1>4. read.buf \in Seq(AByte) /\ at.pos \in Nat /\ <<>> \in Seq(AByte)
    BY <1>3, EmptySeq DEF Readers
  <1>5. PICK f \in X, z \in X : f = <<e, read.buf>> /\ z = <<e, <<>>>>
    BY <1>4
  <1>6. PICK good, bad, none : /\ good = [read EXCEPT !.files = @ \cup {f}]
                               /\ bad = [read EXCEPT !.ok = FALSE]
                               /\ none = [at EXCEPT !.files = @ \cup {z}]
    OBVIOUS
  <1>7. Added(good, read, f, X) /\ Failed(bad, X) /\ Added(none, at, z, X)
    BY <1>3, <1>6, ReaderUpdates
  <1>8. r = IF ~at.ok THEN at ELSE IF e.size = 0 THEN none ELSE IF ~read.ok THEN bad ELSE good
    BY <1>1, <1>5, <1>6 DEF ReadObject
  <1>9. r \in Readers(X)
    BY <1>7, <1>8 DEF Added, Failed
  <1>10. ASSUME at.ok, e.size = 0 PROVE EmptyTurn(r, at, e)
    BY <1>5, <1>7, <1>8, <1>10 DEF EmptyTurn, Added
  <1>11. ASSUME at.ok, e.size # 0 PROVE \E w : ReadTurn(r, at, e, stream, w)
    <2>1. r = IF ~read.ok THEN bad ELSE good
      BY <1>8, <1>11
    <2>2. good.pos = read.pos /\ good.buf = read.buf /\ good.ok = read.ok
          /\ good.files = read.files \cup {<<e, read.buf>>} /\ ~bad.ok
      BY <1>5, <1>7 DEF Added, Failed
    <2>3. CASE at.pos > e.offset
      <3>1. read = at /\ ~(at.pos <= e.offset)
        BY <1>3, <1>4, <2>3
      <3>2. ReadTurn(r, at, e, stream, at.buf)
        BY <1>11, <2>1, <2>2, <3>1 DEF ReadTurn
      <3> QED BY <3>2
    <2>4. CASE at.pos <= e.offset
      <3>1. ~(at.pos > e.offset) /\ e.size > 0
        BY <1>4, <1>11, <2>4
      <3>2. read.pos = e.offset + e.size /\ read.ok = (e.offset + e.size <= Len(stream)) /\ read.buf = bs
        BY <1>3, <1>11, <2>4, <3>1
      <3>3. ReadTurn(r, at, e, stream, bs)
        BY <1>2, <1>3, <2>1, <2>2, <3>1, <3>2 DEF ReadTurn
      <3> QED BY <3>3
    <2> QED BY <1>4, <2>3, <2>4
  <1> QED BY <1>8, <1>9, <1>10, <1>11


\* The loops of extract_files and read_objects over a list of entries.
Walk(stream, verify, order) ==
    FoldLeft(LAMBDA at, e : ExtractEntry(stream, verify, at, e), Start, order)
Fetch(stream, order) == FoldLeft(LAMBDA at, e : ReadObject(stream, at, e), Start, order)

\* A list of N entries that have places.
Placed(order, N) ==
    /\ N \in Nat /\ N = Len(order) /\ DOMAIN order = 1..N
    /\ \A j \in 1..N : order[j].offset \in Nat /\ order[j].size \in Nat

\* The reader after each turn of extract_files.
Walking(c, stream, verify, order, X) ==
    /\ c \in [0..Len(order) -> Readers(X)]
    /\ c[0] = Start
    /\ \A j \in 1..Len(order) : c[j] = ExtractEntry(stream, verify, c[j - 1], order[j])
    /\ Walk(stream, verify, order) = c[Len(order)]

\* How Walk computes.
LEMMA WalkChain ==
    ASSUME NEW X, NEW stream \in Seq(AByte), NEW verify, NEW order, NEW N, Placed(order, N),
           \A j \in 1..N : \A bs \in Seq(AByte) : File(order[j], bs) \in X
    PROVE  \E c : Walking(c, stream, verify, order, X)
  <1>1. /\ N \in Nat /\ N = Len(order) /\ DOMAIN order = 1..N
        /\ \A j \in 1..N : order[j].offset \in Nat /\ order[j].size \in Nat
    BY DEF Placed
  <1> DEFINE V == Readers(X)
             step == [j \in 1..N |-> [v \in V |-> ExtractEntry(stream, verify, v, order[j])]]
             Eq(f) == f = [T \in SUBSET (1..N) |->
                              IF T = {} THEN Start
                              ELSE ExtractEntry(stream, verify, f[T \ {Max(T)}], order[Max(T)])]
  <1>2. ASSUME NEW v \in V, NEW j \in 1..N PROVE ExtractEntry(stream, verify, v, order[j]) \in V
    <2>1. PICK e, r : e = order[j] /\ r = ExtractEntry(stream, verify, v, e)
      OBVIOUS
    <2>2. e.offset \in Nat /\ e.size \in Nat /\ \A bs \in Seq(AByte) : File(e, bs) \in X
      BY <1>1, <2>1
    <2>3. r \in Readers(X)
      BY <2>1, <2>2, ExtractTurn
    <2> QED BY <2>1, <2>3
  <1>3. step \in Steps(N, V)
    <2> HIDE DEF V
    <2> QED BY <1>2 DEF Steps
  <1>0. Start \in V
    <2>1. 0 \in Nat /\ <<>> \in Seq(AByte) /\ TRUE \in BOOLEAN /\ {} \in SUBSET X
      BY EmptySeq
    <2> HIDE DEF AByte
    <2> QED BY ONLY <2>1, Zenon DEF Start, Readers
  <1>4. PICK f \in [SUBSET (1..N) -> V] :
           f = [T \in SUBSET (1..N) |-> IF T = {} THEN Start ELSE step[Max(T)][f[T \ {Max(T)}]]]
    <2> HIDE DEF V, step
    <2>2. \E f : ComputesLeft(f, N, V, Start, step)
      BY <1>0, <1>1, <1>3, LeftRecursion
    <2> QED BY <2>2 DEF ComputesLeft
  <1>5. Eq(f)
    <2>1. ASSUME NEW T \in SUBSET (1..N), T # {}
          PROVE  step[Max(T)][f[T \ {Max(T)}]]
                 = ExtractEntry(stream, verify, f[T \ {Max(T)}], order[Max(T)])
      <3>1. T \in SUBSET (0..N)
        BY <1>1
      <3>2. Max(T) \in 1..N
        BY <1>1, <2>1, <3>1, MaxPicks
      <3> HIDE DEF V
      <3>3. f[T \ {Max(T)}] \in V
        BY <1>4
      <3> QED BY <3>2, <3>3
    <2> HIDE DEF step, V
    <2>2. \A T \in SUBSET (1..N) :
             f[T] = IF T = {} THEN Start
                    ELSE ExtractEntry(stream, verify, f[T \ {Max(T)}], order[Max(T)])
      BY <1>4, <2>1
    <2> QED BY <1>4, <2>2
  <1> HIDE DEF step
  <1>6. PICK F : Eq(F) /\ Walk(stream, verify, order) = F[1..N]
    <2>1. Walk(stream, verify, order) = (CHOOSE F : Eq(F))[1..N]
      BY <1>1 DEF Walk, FoldLeft, MapThenFoldSet
    <2> HIDE DEF Eq
    <2> QED BY <1>5, <2>1
  <1> DEFINE c == [j \in 0..N |-> F[1..j]]
  <1>7. c[0] = Start
    <2>1. 1..0 = {}
      OBVIOUS
    <2> QED BY <1>1, <1>6, <2>1
  <1>8. ASSUME NEW j \in 1..N PROVE c[j] = ExtractEntry(stream, verify, c[j - 1], order[j])
    <2>1. j \in Nat \ {0} /\ j - 1 \in 0..N /\ j \in 0..N /\ 1..j \in SUBSET (1..N) /\ 1..j # {}
      <3>0. N \in Nat
        BY <1>1
      <3>1. j \in Nat \ {0} /\ j - 1 \in 0..N /\ j \in 0..N /\ j \in 1..j
        BY ONLY <3>0, j \in 1..N
      <3>2. 1..j \in SUBSET (1..N)
        BY ONLY <3>0, j \in 1..N
      <3> QED BY <3>1, <3>2
    <2>2. Max(1..j) = j /\ (1..j) \ {j} = 1..j - 1
      BY <2>1, MaxOfInterval
    <2>3. F[1..j] = ExtractEntry(stream, verify, F[1..j - 1], order[j])
      BY <1>6, <2>1, <2>2
    <2> QED BY <2>1, <2>3
  <1>9. c \in [0..N -> V]
    <2> DEFINE T == {j \in 0..N : c[j] \in V}
    <2>1. 0 \in T
      <3>1. 0 \in 0..N
        BY <1>1
      <3> HIDE DEF V, c
      <3> QED BY <1>0, <1>7, <3>1
    <2>2. ASSUME NEW j \in 0..N - 1, j \in T PROVE j + 1 \in T
      <3>1. j + 1 \in 1..N /\ (j + 1) - 1 = j /\ j + 1 \in 0..N
        BY <1>1
      <3>2. c[j + 1] = ExtractEntry(stream, verify, c[j], order[j + 1])
        BY <1>8, <3>1
      <3> HIDE DEF V, c
      <3> QED BY <1>2, <2>2, <3>1, <3>2
    <2>3. 0..N \subseteq T
      <3> HIDE DEF T
      <3> QED BY <1>1, <2>1, <2>2, BoundedInduction
    <2> QED BY <2>3
  <1>10. c[N] = Walk(stream, verify, order)
    BY <1>1, <1>6
  <1> HIDE DEF c
  <1> QED BY <1>1, <1>7, <1>8, <1>9, <1>10 DEF Walking

\* The reader after each turn of read_objects.
Fetching(c, stream, order, X) ==
    /\ c \in [0..Len(order) -> Readers(X)]
    /\ c[0] = Start
    /\ \A j \in 1..Len(order) : c[j] = ReadObject(stream, c[j - 1], order[j])
    /\ Fetch(stream, order) = c[Len(order)]

\* How Fetch computes.
LEMMA FetchChain ==
    ASSUME NEW X, NEW stream \in Seq(AByte), NEW order, NEW N, Placed(order, N),
           \A j \in 1..N : \A bs \in Seq(AByte) : <<order[j], bs>> \in X
    PROVE  \E c : Fetching(c, stream, order, X)
  <1>1. /\ N \in Nat /\ N = Len(order) /\ DOMAIN order = 1..N
        /\ \A j \in 1..N : order[j].offset \in Nat /\ order[j].size \in Nat
    BY DEF Placed
  <1> DEFINE V == Readers(X)
             step == [j \in 1..N |-> [v \in V |-> ReadObject(stream, v, order[j])]]
             Eq(f) == f = [T \in SUBSET (1..N) |->
                              IF T = {} THEN Start
                              ELSE ReadObject(stream, f[T \ {Max(T)}], order[Max(T)])]
  <1>2. ASSUME NEW v \in V, NEW j \in 1..N PROVE ReadObject(stream, v, order[j]) \in V
    <2>1. PICK e, r : e = order[j] /\ r = ReadObject(stream, v, e)
      OBVIOUS
    <2>2. e.offset \in Nat /\ e.size \in Nat /\ \A bs \in Seq(AByte) : <<e, bs>> \in X
      BY <1>1, <2>1
    <2>3. r \in Readers(X)
      BY <2>1, <2>2, ReadObjectTurn
    <2> QED BY <2>1, <2>3
  <1>3. step \in Steps(N, V)
    <2> HIDE DEF V
    <2> QED BY <1>2 DEF Steps
  <1>0. Start \in V
    <2>1. 0 \in Nat /\ <<>> \in Seq(AByte) /\ TRUE \in BOOLEAN /\ {} \in SUBSET X
      BY EmptySeq
    <2> HIDE DEF AByte
    <2> QED BY ONLY <2>1, Zenon DEF Start, Readers
  <1>4. PICK f \in [SUBSET (1..N) -> V] :
           f = [T \in SUBSET (1..N) |-> IF T = {} THEN Start ELSE step[Max(T)][f[T \ {Max(T)}]]]
    <2> HIDE DEF V, step
    <2>2. \E f : ComputesLeft(f, N, V, Start, step)
      BY <1>0, <1>1, <1>3, LeftRecursion
    <2> QED BY <2>2 DEF ComputesLeft
  <1>5. Eq(f)
    <2>1. ASSUME NEW T \in SUBSET (1..N), T # {}
          PROVE  step[Max(T)][f[T \ {Max(T)}]]
                 = ReadObject(stream, f[T \ {Max(T)}], order[Max(T)])
      <3>1. T \in SUBSET (0..N)
        BY <1>1
      <3>2. Max(T) \in 1..N
        BY <1>1, <2>1, <3>1, MaxPicks
      <3> HIDE DEF V
      <3>3. f[T \ {Max(T)}] \in V
        BY <1>4
      <3> QED BY <3>2, <3>3
    <2> HIDE DEF step, V
    <2>2. \A T \in SUBSET (1..N) :
             f[T] = IF T = {} THEN Start
                    ELSE ReadObject(stream, f[T \ {Max(T)}], order[Max(T)])
      BY <1>4, <2>1
    <2> QED BY <1>4, <2>2
  <1> HIDE DEF step
  <1>6. PICK F : Eq(F) /\ Fetch(stream, order) = F[1..N]
    <2>1. Fetch(stream, order) = (CHOOSE F : Eq(F))[1..N]
      BY <1>1 DEF Fetch, FoldLeft, MapThenFoldSet
    <2> HIDE DEF Eq
    <2> QED BY <1>5, <2>1
  <1> DEFINE c == [j \in 0..N |-> F[1..j]]
  <1>7. c[0] = Start
    <2>1. 1..0 = {}
      OBVIOUS
    <2> QED BY <1>1, <1>6, <2>1
  <1>8. ASSUME NEW j \in 1..N PROVE c[j] = ReadObject(stream, c[j - 1], order[j])
    <2>1. j \in Nat \ {0} /\ j - 1 \in 0..N /\ j \in 0..N /\ 1..j \in SUBSET (1..N) /\ 1..j # {}
      <3>0. N \in Nat
        BY <1>1
      <3>1. j \in Nat \ {0} /\ j - 1 \in 0..N /\ j \in 0..N /\ j \in 1..j
        BY ONLY <3>0, j \in 1..N
      <3>2. 1..j \in SUBSET (1..N)
        BY ONLY <3>0, j \in 1..N
      <3> QED BY <3>1, <3>2
    <2>2. Max(1..j) = j /\ (1..j) \ {j} = 1..j - 1
      BY <2>1, MaxOfInterval
    <2>3. F[1..j] = ReadObject(stream, F[1..j - 1], order[j])
      BY <1>6, <2>1, <2>2
    <2> QED BY <2>1, <2>3
  <1>9. c \in [0..N -> V]
    <2> DEFINE T == {j \in 0..N : c[j] \in V}
    <2>1. 0 \in T
      <3>1. 0 \in 0..N
        BY <1>1
      <3> HIDE DEF V, c
      <3> QED BY <1>0, <1>7, <3>1
    <2>2. ASSUME NEW j \in 0..N - 1, j \in T PROVE j + 1 \in T
      <3>1. j + 1 \in 1..N /\ (j + 1) - 1 = j /\ j + 1 \in 0..N
        BY <1>1
      <3>2. c[j + 1] = ReadObject(stream, c[j], order[j + 1])
        BY <1>8, <3>1
      <3> HIDE DEF V, c
      <3> QED BY <1>2, <2>2, <3>1, <3>2
    <2>3. 0..N \subseteq T
      <3> HIDE DEF T
      <3> QED BY <1>1, <2>1, <2>2, BoundedInduction
    <2> QED BY <2>3
  <1>10. c[N] = Fetch(stream, order)
    BY <1>1, <1>6
  <1> HIDE DEF c
  <1> QED BY <1>1, <1>7, <1>8, <1>9, <1>10 DEF Fetching


\* The reader has made the files of the first j entries.
Whole(at, order, j) ==
    at.files = {File(order[i], Bytes(order[i].obj)) : i \in 1..j} /\ PosOK(at, order, j)

\* --verify has nothing to refuse in intact entries.
Readable(verify, entries) == verify => \A y \in entries : y.obj # Unreadable

\* The invariant of the loop of extract_files.
Extracting(at, order, j, verify, task) ==
    /\ (verify \/ Sound(task)) /\ at.ok => Whole(at, order, j)
    /\ Sound(task) /\ Readable(verify, task.entries) => at.ok

\* One turn of the loop, on the entry e.
ExtractsNext(r, at, e, verify, stream) ==
    /\ ~at.ok => r = at
    /\ at.ok /\ at.pos <= e.offset => \E bs : FreshTurn(r, at, e, verify, stream, bs)
    /\ at.ok /\ at.pos > e.offset => StaleTurn(r, at, e, verify)

\* What the entries of a task are.
LEMMA EntryFacts ==
    ASSUME NEW task, TaskOK(task), NEW y \in task.entries
    PROVE  /\ y.offset \in Nat /\ y.size \in Nat /\ y.obj \in Objects /\ y.size = Size[y.obj]
           /\ y.meta = Symlink => y.size > 0
           /\ y.size = 0 => Bytes(y.obj) = <<>>
           /\ y.size > 0 => y.obj # Unreadable
  <1>1. /\ y.offset \in Nat /\ y.obj \in Objects /\ y.size = Size[y.obj]
        /\ y.meta = Symlink => y.size > 0
    BY DEF TaskOK
  <1>2. y.size \in Nat /\ Bytes(y.obj) \in Seq(AByte) /\ Len(Bytes(y.obj)) = y.size
    BY <1>1, BytesFacts
  <1>3. y.size = 0 => Bytes(y.obj) = <<>>
    BY <1>2, EmptySeq
  <1>4. y.size > 0 => y.obj # Unreadable
    BY <1>1, PackStreamAssumption
  <1> QED BY <1>1, <1>2, <1>3, <1>4

\* A turn keeps the invariant.
LEMMA ExtractKeeps ==
    ASSUME NEW task, TaskOK(task), NEW order, NEW N, Ordered(order, task.entries, N),
           NEW j \in 0..N - 1, NEW at, NEW r, NEW verify, at.pos \in Nat,
           Extracting(at, order, j, verify, task),
           ExtractsNext(r, at, order[j + 1], verify, task.stream)
    PROVE  Extracting(r, order, j + 1, verify, task)
  <1>1. PICK e : e = order[j + 1] /\ e \in task.entries
    <2>1. N \in Nat /\ j + 1 \in 1..N
      BY DEF Ordered
    <2> QED BY <2>1 DEF Ordered
  <1>2. /\ e.offset \in Nat /\ e.size \in Nat
        /\ e.meta = Symlink => e.size > 0
        /\ e.size = 0 => Bytes(e.obj) = <<>>
    BY <1>1, EntryFacts
  <1>3. j \in Nat
    BY DEF Ordered
  <1>4. ExtractsNext(r, at, e, verify, task.stream)
    BY <1>1
  <1>5. Made(e, Bytes(e.obj)) = Bytes(e.obj)
    BY <1>2 DEF Made
  <1>6. ASSUME at.ok, at.pos > e.offset, PosOK(at, order, j)
        PROVE  Made(e, at.buf) = Bytes(e.obj) /\ (e.size > 0 => at.buf = Bytes(e.obj))
    <2>1. at.buf = Bytes(e.obj) \/ e.size = 0
      BY <1>1, <1>6, StaleBuffer
    <2> QED BY <1>2, <2>1 DEF Made
  <1>7. ASSUME (verify \/ Sound(task)), at.ok, r.ok PROVE Whole(r, order, j + 1)
    <2>1. Whole(at, order, j)
      BY <1>7 DEF Extracting
    <2>2. /\ PosOK(at, order, j)
          /\ at.files = {File(order[i], Bytes(order[i].obj)) : i \in 1..j}
      BY <2>1 DEF Whole
    <2>3. r.files = at.files \cup {File(e, Bytes(e.obj))} /\ PosOK(r, order, j + 1)
      <3>1. CASE at.pos > e.offset
        <4>1. /\ r.pos = at.pos /\ r.buf = at.buf /\ r.files = at.files \cup {File(e, Made(e, at.buf))}
          BY <1>4, <1>7, <3>1 DEF ExtractsNext, StaleTurn
        <4>2. \A i \in 1..j : i \in 1..j + 1
          BY ONLY <1>3
        <4> QED BY <1>6, <1>7, <2>2, <3>1, <4>1, <4>2 DEF PosOK
      <3>2. CASE at.pos <= e.offset
        <4>1. PICK bs : FreshTurn(r, at, e, verify, task.stream, bs)
          BY <1>4, <1>7, <3>2 DEF ExtractsNext
        <4>2. bs = Bytes(e.obj)
          <5>1. CASE verify
            BY <1>7, <4>1, <5>1 DEF FreshTurn, Matches
          <5>2. CASE Sound(task)
            BY <1>1, <4>1, <5>2, SoundRead DEF FreshTurn
          <5> QED BY <1>7, <5>1, <5>2
        <4>3. r.pos = e.offset + e.size /\ r.buf = bs /\ r.files = at.files \cup {File(e, Made(e, bs))}
          BY <1>7, <4>1 DEF FreshTurn
        <4>4. j + 1 \in 1..j + 1
          BY ONLY <1>3
        <4> QED BY <1>1, <1>5, <4>2, <4>3, <4>4 DEF PosOK
      <3> QED BY <1>2, <3>1, <3>2
    <2>4. r.files = {File(order[i], Bytes(order[i].obj)) : i \in 1..j + 1}
      <3> DEFINE f(i) == File(order[i], Bytes(order[i].obj))
      <3>1. f(j + 1) = File(e, Bytes(e.obj))
        BY <1>1
      <3>2. at.files = {f(i) : i \in 1..j} /\ r.files = at.files \cup {f(j + 1)}
        BY <2>2, <2>3, <3>1
      <3> HIDE DEF f
      <3>3. \A i \in Int : i \in 1..j + 1 <=> i \in 1..j \/ i = j + 1
        BY ONLY <1>3
      <3>4. 1..j \subseteq Int /\ 1..j + 1 \subseteq Int /\ j + 1 \in Int
        BY ONLY <1>3
      <3>5. r.files = {f(i) : i \in 1..j + 1}
        BY ONLY <3>2, <3>3, <3>4
      <3> QED BY <3>5 DEF f
    <2> QED BY <2>3, <2>4 DEF Whole
  <1>8. ASSUME Sound(task), Readable(verify, task.entries) PROVE r.ok
    <2>1. at.ok /\ PosOK(at, order, j) /\ (verify => e.obj # Unreadable)
      BY <1>1, <1>8 DEF Extracting, Whole, Readable
    <2>2. CASE at.pos > e.offset
      BY <1>2, <1>4, <1>6, <2>1, <2>2 DEF ExtractsNext, StaleTurn, Matches
    <2>3. CASE at.pos <= e.offset
      <3>1. PICK bs : FreshTurn(r, at, e, verify, task.stream, bs)
        BY <1>4, <2>1, <2>3 DEF ExtractsNext
      <3>2. bs = Bytes(e.obj) /\ e.offset + e.size <= Len(task.stream)
        BY <1>1, <1>8, <3>1, SoundRead DEF FreshTurn
      <3> QED BY <2>1, <3>1, <3>2 DEF FreshTurn, Matches
    <2> QED BY <1>2, <2>2, <2>3
  <1>9. (verify \/ Sound(task)) /\ r.ok => Whole(r, order, j + 1)
    <2>1. r.ok => at.ok
      BY <1>4 DEF ExtractsNext
    <2> QED BY <1>7, <2>1
  <1> QED BY <1>8, <1>9 DEF Extracting

\* The result of a thread of extract on a task: if it succeeded, the files of the
\* entries; what is intact it refuses only with --verify, and only for an object
\* without a checksum.
ExtractedOK(verify, task, res) ==
    /\ (verify \/ Sound(task)) /\ res.ok =>
          res.files = {File(y, Bytes(y.obj)) : y \in task.entries}
    /\ Sound(task) /\ ~res.ok => verify /\ \E y \in task.entries : y.obj = Unreadable

\* extract_files gives such a result.
LEMMA WalkResult ==
    ASSUME NEW task, TaskOK(task), NEW verify, NEW order \in InOffsetOrder(task.entries)
    PROVE  ExtractedOK(verify, task, Walk(task.stream, verify, order))
  <1>1. PICK N : Ordered(order, task.entries, N)
    BY OrderedIs
  <1>2. N \in Nat /\ N = Len(order) /\ DOMAIN order = 1..N /\ \A i \in 1..N : order[i] \in task.entries
    BY <1>1 DEF Ordered
  <1>3. Placed(order, N)
    <2>1. \A i \in 1..N : order[i].offset \in Nat /\ order[i].size \in Nat
      BY <1>2, EntryFacts
    <2> QED BY <1>2, <2>1 DEF Placed
  <1>4. PICK X : X = {File(p[1], p[2]) : p \in task.entries \X Seq(AByte)}
    OBVIOUS
  <1>5. \A i \in 1..N : \A bs \in Seq(AByte) : File(order[i], bs) \in X
    <2>1. ASSUME NEW i \in 1..N, NEW bs \in Seq(AByte) PROVE File(order[i], bs) \in X
      <3>1. PICK p \in task.entries \X Seq(AByte) : p = <<order[i], bs>>
        BY <1>2
      <3> QED BY <1>4, <3>1
    <2> QED BY <2>1
  <1>6. task.stream \in Seq(AByte)
    BY DEF TaskOK
  <1>7. PICK st : st = task.stream
    OBVIOUS
  <1>8. PICK c : Walking(c, st, verify, order, X)
    BY <1>3, <1>5, <1>6, <1>7, WalkChain
  <1>9. /\ c \in [0..N -> Readers(X)] /\ c[0] = Start
        /\ \A j \in 1..N : c[j] = ExtractEntry(st, verify, c[j - 1], order[j])
        /\ Walk(st, verify, order) = c[N]
    BY <1>2, <1>8 DEF Walking
  <1> DEFINE T == {j \in 0..N : Extracting(c[j], order, j, verify, task)}
  <1>10. 0 \in T
    <2>1. c[0].ok /\ c[0].files = {} /\ c[0].pos = 0
      BY <1>9 DEF Start
    <2>2. {File(order[i], Bytes(order[i].obj)) : i \in 1..0} = {}
      OBVIOUS
    <2>3. Extracting(c[0], order, 0, verify, task)
      BY <2>1, <2>2 DEF Extracting, Whole, PosOK
    <2> QED BY <1>2, <2>3
  <1>11. ASSUME NEW j \in 0..N - 1, j \in T PROVE j + 1 \in T
    <2>1. j + 1 \in 1..N /\ (j + 1) - 1 = j /\ j + 1 \in 0..N /\ j \in 0..N
      BY <1>2
    <2>2. PICK at, r, e : at = c[j] /\ r = c[j + 1] /\ e = order[j + 1]
      OBVIOUS
    <2>3. at \in Readers(X) /\ r = ExtractEntry(st, verify, at, e)
      BY <1>9, <2>1, <2>2
    <2>4. e.offset \in Nat /\ e.size \in Nat /\ \A bs \in Seq(AByte) : File(e, bs) \in X
      BY <1>3, <1>5, <2>1, <2>2 DEF Placed
    <2>5. /\ ~at.ok => r = at
          /\ at.ok /\ at.pos <= e.offset => \E bs : FreshTurn(r, at, e, verify, st, bs)
          /\ at.ok /\ at.pos > e.offset => StaleTurn(r, at, e, verify)
      BY <1>6, <1>7, <2>3, <2>4, ExtractTurn
    <2>6. ExtractsNext(r, at, order[j + 1], verify, task.stream)
      BY <1>7, <2>2, <2>5 DEF ExtractsNext
    <2>7. at.pos \in Nat
      BY <2>3 DEF Readers
    <2>8. Extracting(at, order, j, verify, task)
      BY <1>11, <2>2
    <2>9. Extracting(r, order, j + 1, verify, task)
      BY <1>1, <2>6, <2>7, <2>8, ExtractKeeps
    <2> QED BY <2>1, <2>2, <2>9
  <1>12. Extracting(c[N], order, N, verify, task)
    <2> HIDE DEF T
    <2>1. 0..N \subseteq T
      BY <1>2, <1>10, <1>11, BoundedInduction
    <2>2. N \in 0..N
      BY <1>2
    <2> QED BY <2>1, <2>2 DEF T
  <1>13. {File(order[i], Bytes(order[i].obj)) : i \in 1..N} = {File(y, Bytes(y.obj)) : y \in task.entries}
    <2> DEFINE f(y) == File(y, Bytes(y.obj))
    <2>1. \A i \in 1..N : order[i] \in task.entries
      BY <1>2
    <2>2. \A y \in task.entries : \E i \in 1..N : order[i] = y
      BY <1>1 DEF Ordered
    <2> HIDE DEF f
    <2>3. {f(order[i]) : i \in 1..N} = {f(y) : y \in task.entries}
      BY ONLY <2>1, <2>2
    <2> QED BY <2>3 DEF f
  <1> QED BY <1>7, <1>9, <1>12, <1>13 DEF Extracting, Whole, Readable, ExtractedOK


\* The invariant of the loop of read_objects.
Reads(at, order, j, task) ==
    /\ at.ok => /\ \A f \in at.files : \E i \in 1..j : /\ f[1] = order[i]
                                                       /\ order[i].size = 0 => f[2] = <<>>
                /\ \A i \in 1..j : \E f \in at.files : f[1] = order[i]
    /\ Sound(task) => /\ at.ok /\ PosOK(at, order, j)
                      /\ \A f \in at.files : f[2] = Bytes(f[1].obj)

\* One turn of the loop, on the entry e.
ReadsNext(r, at, e, stream) ==
    /\ ~at.ok => r = at
    /\ at.ok /\ e.size = 0 => EmptyTurn(r, at, e)
    /\ at.ok /\ e.size # 0 => \E bs : ReadTurn(r, at, e, stream, bs)

\* A turn keeps the invariant.
LEMMA ReadKeeps ==
    ASSUME NEW task, TaskOK(task), NEW order, NEW N, Ordered(order, task.entries, N),
           NEW j \in 0..N - 1, NEW at, NEW r, at.pos \in Nat,
           Reads(at, order, j, task), ReadsNext(r, at, order[j + 1], task.stream)
    PROVE  Reads(r, order, j + 1, task)
  <1>1. PICK e : e = order[j + 1] /\ e \in task.entries
    <2>1. N \in Nat /\ j + 1 \in 1..N
      BY DEF Ordered
    <2> QED BY <2>1 DEF Ordered
  <1>2. e.offset \in Nat /\ e.size \in Nat /\ (e.size = 0 => Bytes(e.obj) = <<>>)
    BY <1>1, EntryFacts
  <1>3. j \in Nat
    BY DEF Ordered
  <1>4. ReadsNext(r, at, e, task.stream)
    BY <1>1
  <1>5. /\ \A i \in 1..j : i \in 1..j + 1
        /\ j + 1 \in 1..j + 1
        /\ \A i \in 1..j + 1 : i \in 1..j \/ i = j + 1
    BY ONLY <1>3
  <1>6. ASSUME at.ok, r.ok
        PROVE  \E bs : /\ r.files = at.files \cup {<<e, bs>>} /\ (e.size = 0 => bs = <<>>)
    <2>1. CASE e.size = 0
      BY <1>4, <1>6, <2>1 DEF ReadsNext, EmptyTurn
    <2>2. CASE e.size # 0
      BY <1>4, <1>6, <2>2 DEF ReadsNext, ReadTurn
    <2> QED BY <2>1, <2>2
  <1>7. ASSUME at.ok, r.ok
        PROVE  /\ \A f \in r.files : \E i \in 1..j + 1 : /\ f[1] = order[i]
                                                         /\ order[i].size = 0 => f[2] = <<>>
               /\ \A i \in 1..j + 1 : \E f \in r.files : f[1] = order[i]
    <2>1. PICK g, bs : g = <<e, bs>> /\ r.files = at.files \cup {g} /\ (e.size = 0 => bs = <<>>)
      BY <1>6, <1>7
    <2>2. g[1] = order[j + 1] /\ (order[j + 1].size = 0 => g[2] = <<>>)
      BY <1>1, <2>1
    <2>3. /\ \A f \in at.files : \E i \in 1..j : f[1] = order[i] /\ (order[i].size = 0 => f[2] = <<>>)
          /\ \A i \in 1..j : \E f \in at.files : f[1] = order[i]
      BY <1>7 DEF Reads
    <2>4. r.files = at.files \cup {g}
      BY <2>1
    <2> QED BY ONLY <1>5, <2>2, <2>3, <2>4
  <1>8. ASSUME Sound(task)
        PROVE  r.ok /\ PosOK(r, order, j + 1) /\ \A f \in r.files : f[2] = Bytes(f[1].obj)
    <2>1. at.ok /\ PosOK(at, order, j) /\ \A f \in at.files : f[2] = Bytes(f[1].obj)
      BY <1>8 DEF Reads
    <2>2. CASE e.size = 0
      <3>1. r.ok /\ r.pos = at.pos /\ r.buf = at.buf /\ r.files = at.files \cup {<<e, <<>>>>}
        BY <1>4, <2>1, <2>2 DEF ReadsNext, EmptyTurn
      <3>2. PosOK(r, order, j + 1)
        BY <1>5, <2>1, <3>1 DEF PosOK
      <3>3. ASSUME NEW f \in r.files PROVE f[2] = Bytes(f[1].obj)
        BY <1>2, <2>1, <2>2, <3>1
      <3> QED BY <3>1, <3>2, <3>3
    <2>3. CASE e.size # 0
      <3>1. PICK bs : ReadTurn(r, at, e, task.stream, bs)
        BY <1>4, <2>1, <2>3 DEF ReadsNext
      <3>2. r.ok /\ bs = Bytes(e.obj) /\ PosOK(r, order, j + 1)
        <4>1. CASE at.pos > e.offset
          <5>1. r.ok /\ r.pos = at.pos /\ r.buf = bs /\ bs = at.buf
            BY <3>1, <4>1 DEF ReadTurn
          <5>2. at.buf = Bytes(e.obj)
            BY <1>1, <2>1, <2>3, <4>1, StaleBuffer
          <5> QED BY <1>5, <2>1, <5>1, <5>2 DEF PosOK
        <4>2. CASE at.pos <= e.offset
          <5>1. /\ e.offset + e.size <= Len(task.stream)
                /\ SubSeq(task.stream, e.offset + 1, Min({e.offset + e.size, Len(task.stream)})) = Bytes(e.obj)
            BY <1>1, <1>8, SoundRead
          <5>2. r.ok /\ r.pos = e.offset + e.size /\ r.buf = bs /\ bs = Bytes(e.obj)
            BY <3>1, <4>2, <5>1 DEF ReadTurn
          <5> QED BY <1>1, <1>5, <5>2 DEF PosOK
        <4> QED BY <1>2, <4>1, <4>2
      <3>3. r.files = at.files \cup {<<e, bs>>}
        BY <3>1, <3>2 DEF ReadTurn
      <3>4. ASSUME NEW f \in r.files PROVE f[2] = Bytes(f[1].obj)
        BY <2>1, <3>2, <3>3
      <3> QED BY <3>2, <3>4
    <2> QED BY <2>2, <2>3
  <1>9. r.ok => at.ok
    BY <1>4 DEF ReadsNext
  <1> QED BY <1>7, <1>8, <1>9 DEF Reads

\* The result of a thread of read_objects on a task: if it succeeded, something for
\* each entry and nothing else; from an intact task it is the bytes of the objects.
FetchedOK(task, res) ==
    /\ res.ok => /\ \A f \in res.files : f[1] \in task.entries /\ (f[1].size = 0 => f[2] = <<>>)
                 /\ \A y \in task.entries : \E f \in res.files : f[1] = y
    /\ Sound(task) => res.ok /\ \A f \in res.files : f[2] = Bytes(f[1].obj)

\* read_objects gives such a result.
LEMMA FetchResult ==
    ASSUME NEW task, TaskOK(task), NEW order \in InOffsetOrder(task.entries)
    PROVE  FetchedOK(task, Fetch(task.stream, order))
  <1>1. PICK N : Ordered(order, task.entries, N)
    BY OrderedIs
  <1>2. N \in Nat /\ N = Len(order) /\ DOMAIN order = 1..N /\ \A i \in 1..N : order[i] \in task.entries
    BY <1>1 DEF Ordered
  <1>3. Placed(order, N)
    <2>1. \A i \in 1..N : order[i].offset \in Nat /\ order[i].size \in Nat
      BY <1>2, EntryFacts
    <2> QED BY <1>2, <2>1 DEF Placed
  <1>4. PICK X : X = task.entries \X Seq(AByte)
    OBVIOUS
  <1>5. \A i \in 1..N : \A bs \in Seq(AByte) : <<order[i], bs>> \in X
    BY <1>2, <1>4
  <1>6. task.stream \in Seq(AByte)
    BY DEF TaskOK
  <1>7. PICK st : st = task.stream
    OBVIOUS
  <1>8. PICK c : Fetching(c, st, order, X)
    BY <1>3, <1>5, <1>6, <1>7, FetchChain
  <1>9. /\ c \in [0..N -> Readers(X)] /\ c[0] = Start
        /\ \A j \in 1..N : c[j] = ReadObject(st, c[j - 1], order[j])
        /\ Fetch(st, order) = c[N]
    BY <1>2, <1>8 DEF Fetching
  <1> DEFINE T == {j \in 0..N : Reads(c[j], order, j, task)}
  <1>10. 0 \in T
    <2>1. c[0].ok /\ c[0].files = {} /\ c[0].pos = 0
      BY <1>9 DEF Start
    <2>2. Reads(c[0], order, 0, task)
      BY <2>1 DEF Reads, PosOK
    <2> QED BY <1>2, <2>2
  <1>11. ASSUME NEW j \in 0..N - 1, j \in T PROVE j + 1 \in T
    <2>1. j + 1 \in 1..N /\ (j + 1) - 1 = j /\ j + 1 \in 0..N /\ j \in 0..N
      BY <1>2
    <2>2. PICK at, r, e : at = c[j] /\ r = c[j + 1] /\ e = order[j + 1]
      OBVIOUS
    <2>3. at \in Readers(X) /\ r = ReadObject(st, at, e)
      BY <1>9, <2>1, <2>2
    <2>4. e.offset \in Nat /\ e.size \in Nat /\ \A bs \in Seq(AByte) : <<e, bs>> \in X
      BY <1>3, <1>5, <2>1, <2>2 DEF Placed
    <2>5. /\ ~at.ok => r = at
          /\ at.ok /\ e.size = 0 => EmptyTurn(r, at, e)
          /\ at.ok /\ e.size # 0 => \E bs : ReadTurn(r, at, e, st, bs)
      BY <1>6, <1>7, <2>3, <2>4, ReadObjectTurn
    <2>6. ReadsNext(r, at, order[j + 1], task.stream)
      BY <1>7, <2>2, <2>5 DEF ReadsNext
    <2>7. at.pos \in Nat
      BY <2>3 DEF Readers
    <2>8. Reads(at, order, j, task)
      BY <1>11, <2>2
    <2>9. Reads(r, order, j + 1, task)
      BY <1>1, <2>6, <2>7, <2>8, ReadKeeps
    <2> QED BY <2>1, <2>2, <2>9
  <1>12. Reads(c[N], order, N, task)
    <2> HIDE DEF T
    <2>1. 0..N \subseteq T
      BY <1>2, <1>10, <1>11, BoundedInduction
    <2>2. N \in 0..N
      BY <1>2
    <2> QED BY <2>1, <2>2 DEF T
  <1>13. \A y \in task.entries : \E i \in 1..N : order[i] = y
    BY <1>1 DEF Ordered
  <1>14. PICK res : res = Fetch(st, order) /\ Reads(res, order, N, task)
    BY <1>9, <1>12
  <1>15. FetchedOK(task, res)
    BY <1>2, <1>13, <1>14 DEF Reads, FetchedOK
  <1> QED BY <1>7, <1>14, <1>15


-----------------------------------------------------------------------------
(* The threads of a command that reads                                     *)

\* The result of a thread on a task.
Outcome(kind, verify, task, res) ==
    IF kind = "extract" THEN ExtractedOK(verify, task, res) ELSE FetchedOK(task, res)

\* Threads that read the entries E.
Reading(th, E, kind, verify, intact) ==
    \E tasks, S, R : /\ Progress(th, tasks, S, R)
                     /\ TasksOK(tasks, E, intact)
                     /\ \A r \in R : Outcome(kind, verify, r[1], r[2])

\* It holds when the command begins.
LEMMA ReadingBegins ==
    ASSUME NEW S, NEW tasks \in Seq(S), NEW E, NEW intact, TasksOK(tasks, E, intact),
           NEW kind, NEW verify, NEW w, tasks # <<>> => w \in Nat \ {0}
    PROVE  Reading(Run(w, tasks), E, kind, verify, intact)
  <1>1. Progress(Run(w, tasks), tasks, S, {})
    <2>1. CASE tasks = <<>>
      <3>1. Run(w, tasks) = <<>>
        BY <2>1 DEF Run
      <3> QED BY <2>1, <3>1, ProgressNone
    <2>2. CASE tasks # <<>>
      <3>1. Run(w, tasks) = Spawn(w, tasks) /\ w \in Nat \ {0}
        BY <2>2 DEF Run
      <3> QED BY <2>2, <3>1, ProgressSpawn
    <2> QED BY <2>1, <2>2
  <1> QED BY <1>1 DEF Reading

\* It is kept by a thread that runs its next task.
LEMMA ReadingSteps ==
    ASSUME NEW E, NEW intact, Reading(threads, E, job.kind, job.verify, intact),
           NEW g \in DOMAIN threads, threads[g].todo # <<>>,
           NEW task, task = Head(threads[g].todo), NEW order \in InOffsetOrder(task.entries)
    PROVE  Reading(Ran(threads, g, IF job.kind = "extract" THEN Extracted(task, order)
                                   ELSE ReadFrame(task, order)),
                   E, job.kind, job.verify, intact)
  <1>1. PICK tasks, S, R : /\ Progress(threads, tasks, S, R)
                           /\ TasksOK(tasks, E, intact)
                           /\ \A r \in R : Outcome(job.kind, job.verify, r[1], r[2])
    BY DEF Reading
  <1>2. PICK i \in 1..Len(tasks) : task = tasks[i]
    <2>1. \E i \in 1..Len(tasks) : Head(threads[g].todo) = tasks[i]
      BY <1>1, ProgressRan
    <2> QED BY <2>1
  <1>3. TaskOK(task)
    BY <1>1, <1>2 DEF TasksOK
  <1>4. Extracted(task, order) = Walk(task.stream, job.verify, order)
    BY DEF Extracted, Walk
  <1>5. ReadFrame(task, order) = Fetch(task.stream, order)
    BY DEF ReadFrame, Fetch
  <1>6. PICK res : res = IF job.kind = "extract" THEN Extracted(task, order) ELSE ReadFrame(task, order)
    OBVIOUS
  <1>7. Outcome(job.kind, job.verify, task, res)
    <2>1. ExtractedOK(job.verify, task, Walk(task.stream, job.verify, order))
      BY <1>3, WalkResult
    <2>2. FetchedOK(task, Fetch(task.stream, order))
      BY <1>3, FetchResult
    <2> QED BY <1>4, <1>5, <1>6, <2>1, <2>2 DEF Outcome
  <1>8. PICK Q : Q = R \cup {<<task, res>>}
    OBVIOUS
  <1>9. Progress(threads, tasks, S, Q)
    BY <1>1, <1>8, ProgressMore
  <1>10. <<task, res>> \in Q
    BY <1>8
  <1>11. \A x : <<Head(threads[g].todo), x>> \in Q => Progress(Ran(threads, g, x), tasks, S, Q)
    BY <1>9, ProgressRan
  <1>12. Progress(Ran(threads, g, res), tasks, S, Q)
    BY <1>10, <1>11
  <1>13. ASSUME NEW r \in Q PROVE Outcome(job.kind, job.verify, r[1], r[2])
    BY <1>1, <1>7, <1>8
  <1>14. Reading(Ran(threads, g, res), E, job.kind, job.verify, intact)
    BY <1>1, <1>12, <1>13 DEF Reading
  <1> QED BY <1>6, <1>14

\* What the threads leave: an outcome for each task.
Gathered(js, tasks, E, kind, verify, intact, m) ==
    /\ m = Len(tasks) /\ DOMAIN js = 1..m /\ TasksOK(tasks, E, intact)
    /\ \A i \in 1..m : Outcome(kind, verify, tasks[i], js[i])

\* They leave it when all of them have run.
LEMMA ReadingEnds ==
    ASSUME NEW th, NEW E, NEW kind, NEW verify, NEW intact,
           Reading(th, E, kind, verify, intact), AllRan(th)
    PROVE  \E tasks, m : Gathered(Joined(th), tasks, E, kind, verify, intact, m)
  <1>1. PICK tasks, S, R : /\ Progress(th, tasks, S, R)
                           /\ TasksOK(tasks, E, intact)
                           /\ \A r \in R : Outcome(kind, verify, r[1], r[2])
    BY DEF Reading
  <1>2. PICK js : js = Joined(th)
    OBVIOUS
  <1>3. /\ js \in Seq(Results(R)) /\ Len(js) = Len(tasks)
        /\ \A i \in 1..Len(tasks) : <<tasks[i], js[i]>> \in R
    BY <1>1, <1>2, JoinedInOrder
  <1>4. DOMAIN js = 1..Len(tasks)
    BY <1>3, LenProperties
  <1>5. ASSUME NEW i \in 1..Len(tasks) PROVE Outcome(kind, verify, tasks[i], js[i])
    <2>1. PICK r \in R : r = <<tasks[i], js[i]>>
      BY <1>3
    <2>2. Outcome(kind, verify, r[1], r[2])
      BY <1>1
    <2>3. r[1] = tasks[i] /\ r[2] = js[i]
      BY <2>1
    <2> QED BY <2>2, <2>3
  <1>6. Gathered(js, tasks, E, kind, verify, intact, Len(tasks))
    BY <1>1, <1>4, <1>5 DEF Gathered
  <1> QED BY <1>2, <1>6

\* What extract made of the entries E.
LEMMA ExtractGathered ==
    ASSUME NEW E, NEW verify, NEW intact, Reading(threads, E, "extract", verify, intact), AllRan(threads)
    PROVE  /\ (verify \/ intact) /\ AllOk => AllFiles = {File(r, Bytes(r.obj)) : r \in E}
           /\ intact /\ ~AllOk => verify /\ \E r \in E : r.obj = Unreadable
  <1>1. PICK js, tasks, m : js = Joined(threads) /\ Gathered(js, tasks, E, "extract", verify, intact, m)
    BY ReadingEnds
  <1>2. /\ m = Len(tasks) /\ DOMAIN js = 1..m
        /\ \A i \in 1..m : ExtractedOK(verify, tasks[i], js[i])
        /\ \A i \in 1..m : intact => Sound(tasks[i])
        /\ \A i \in 1..m : \A y \in tasks[i].entries : \E r \in E : IsFor(y, r)
        /\ \A r \in E : \E i \in 1..m : \E y \in tasks[i].entries : IsFor(y, r)
    BY <1>1 DEF Gathered, TasksOK, Outcome
  <1>3. AllOk <=> \A i \in 1..m : js[i].ok
    BY <1>1, <1>2 DEF AllOk
  <1>4. \A y, r : IsFor(y, r) => File(y, Bytes(y.obj)) = File(r, Bytes(r.obj))
    BY DEF IsFor, File
  <1>5. ASSUME (verify \/ intact), AllOk PROVE AllFiles = {File(r, Bytes(r.obj)) : r \in E}
    <2>1. AllFiles = UNION {js[i].files : i \in 1..m}
      BY <1>1, <1>2 DEF AllFiles
    <2>2. ASSUME NEW i \in 1..m PROVE js[i].files = {File(y, Bytes(y.obj)) : y \in tasks[i].entries}
      <3>1. ExtractedOK(verify, tasks[i], js[i]) /\ js[i].ok /\ (intact => Sound(tasks[i]))
        BY <1>2, <1>3, <1>5
      <3> QED BY <1>5, <3>1 DEF ExtractedOK
    <2> DEFINE f(y) == File(y, Bytes(y.obj))
    <2>3. /\ \A i \in 1..m : js[i].files = {f(y) : y \in tasks[i].entries}
          /\ \A y, r : IsFor(y, r) => f(y) = f(r)
      BY <1>4, <2>2
    <2> HIDE DEF f
    <2>4. ASSUME NEW x \in AllFiles PROVE \E r \in E : x = f(r)
      <3>1. PICK i \in 1..m : x \in js[i].files
        BY <2>1
      <3>2. PICK y \in tasks[i].entries : x = f(y)
        BY <2>3, <3>1
      <3>3. PICK r \in E : IsFor(y, r)
        BY <1>2
      <3> QED BY <2>3, <3>2, <3>3
    <2>5. ASSUME NEW r \in E PROVE f(r) \in AllFiles
      <3>1. PICK i \in 1..m : \E y \in tasks[i].entries : IsFor(y, r)
        BY <1>2
      <3>2. PICK y \in tasks[i].entries : IsFor(y, r)
        BY <3>1
      <3>3. f(r) \in js[i].files
        BY <2>3, <3>2
      <3> QED BY <2>1, <3>3
    <2>6. AllFiles = {f(r) : r \in E}
      BY <2>4, <2>5
    <2> QED BY <2>6 DEF f
  <1>6. ASSUME intact, ~AllOk PROVE verify /\ \E r \in E : r.obj = Unreadable
    <2>1. PICK i \in 1..m : ~js[i].ok
      BY <1>3, <1>6
    <2>2. ExtractedOK(verify, tasks[i], js[i]) /\ Sound(tasks[i])
      BY <1>2, <1>6
    <2>3. verify /\ \E y \in tasks[i].entries : y.obj = Unreadable
      BY <2>1, <2>2 DEF ExtractedOK
    <2>4. PICK y \in tasks[i].entries : y.obj = Unreadable
      BY <2>3
    <2>5. PICK r \in E : IsFor(y, r)
      BY <1>2
    <2> QED BY <2>3, <2>4, <2>5 DEF IsFor
  <1> QED BY <1>5, <1>6

\* Something that was read for the entry r.
Gives(f, r) ==
    /\ IsFor(f[1], r)
    /\ f[1].size \in Nat
    /\ f[1].meta = Symlink => f[1].size > 0
    /\ f[1].size = 0 => f[2] = <<>> /\ Bytes(f[1].obj) = <<>>
    /\ f[1].size > 0 => f[1].obj # Unreadable

\* What read_objects read for the entries E.
LEMMA FetchGathered ==
    ASSUME NEW E, NEW kind, kind # "extract", NEW verify, NEW intact,
           Reading(threads, E, kind, verify, intact), AllRan(threads)
    PROVE  /\ AllOk => /\ \A f \in AllFiles : \E r \in E : Gives(f, r)
                       /\ \A r \in E : \E f \in AllFiles : Gives(f, r)
           /\ intact => AllOk /\ \A f \in AllFiles : f[2] = Bytes(f[1].obj)
  <1>1. PICK js, tasks, m : js = Joined(threads) /\ Gathered(js, tasks, E, kind, verify, intact, m)
    BY ReadingEnds
  <1>2. /\ m = Len(tasks) /\ DOMAIN js = 1..m
        /\ \A i \in 1..m : FetchedOK(tasks[i], js[i])
        /\ \A i \in 1..m : TaskOK(tasks[i])
        /\ \A i \in 1..m : intact => Sound(tasks[i])
        /\ \A i \in 1..m : \A y \in tasks[i].entries : \E r \in E : IsFor(y, r)
        /\ \A r \in E : \E i \in 1..m : \E y \in tasks[i].entries : IsFor(y, r)
    BY <1>1 DEF Gathered, TasksOK, Outcome
  <1>3. /\ AllOk <=> \A i \in 1..m : js[i].ok
        /\ AllFiles = UNION {js[i].files : i \in 1..m}
    BY <1>1, <1>2 DEF AllOk, AllFiles
  <1>4. ASSUME NEW i \in 1..m, js[i].ok, NEW f \in js[i].files, NEW r, IsFor(f[1], r) PROVE Gives(f, r)
    <2>1. PICK y, task : y = f[1] /\ task = tasks[i]
      OBVIOUS
    <2>2. y \in task.entries /\ (y.size = 0 => f[2] = <<>>) /\ TaskOK(task)
      BY <1>2, <1>4, <2>1 DEF FetchedOK
    <2>3. /\ y.size \in Nat /\ (y.meta = Symlink => y.size > 0)
          /\ y.size = 0 => Bytes(y.obj) = <<>>
          /\ y.size > 0 => y.obj # Unreadable
      BY <2>2, EntryFacts
    <2> QED BY <1>4, <2>1, <2>2, <2>3 DEF Gives
  <1>5. ASSUME AllOk, NEW f \in AllFiles PROVE \E r \in E : Gives(f, r)
    <2>1. PICK i \in 1..m : f \in js[i].files /\ js[i].ok
      BY <1>3, <1>5
    <2>2. f[1] \in tasks[i].entries
      BY <1>2, <2>1 DEF FetchedOK
    <2>3. PICK r \in E : IsFor(f[1], r)
      BY <1>2, <2>2
    <2> QED BY <1>4, <2>1, <2>3
  <1>6. ASSUME AllOk, NEW r \in E PROVE \E f \in AllFiles : Gives(f, r)
    <2>1. PICK i \in 1..m : \E y \in tasks[i].entries : IsFor(y, r)
      BY <1>2
    <2>2. PICK y \in tasks[i].entries : IsFor(y, r)
      BY <2>1
    <2>3. js[i].ok
      BY <1>3, <1>6
    <2>4. PICK f \in js[i].files : f[1] = y
      BY <1>2, <2>3 DEF FetchedOK
    <2>5. Gives(f, r)
      BY <1>4, <2>2, <2>3, <2>4
    <2>6. f \in AllFiles
      BY <1>3, <2>4
    <2> QED BY <2>5, <2>6
  <1>7. ASSUME intact PROVE AllOk /\ \A f \in AllFiles : f[2] = Bytes(f[1].obj)
    <2>1. \A i \in 1..m : js[i].ok /\ \A f \in js[i].files : f[2] = Bytes(f[1].obj)
      BY <1>2, <1>7 DEF FetchedOK
    <2> QED BY <1>3, <2>1
  <1> QED BY <1>5, <1>6, <1>7


\* The entries that a command of a kind reads for a tag.
Asked(kind, t) ==
    IF kind = "preflight" THEN {r \in Wanted(t) : r.meta = Symlink} ELSE Wanted(t)
Resolved(kind, t) ==
    IF kind = "preflight" THEN {y \in Resolve(Parse(idxFile), t) : y.meta = Symlink}
    ELSE Resolve(Parse(idxFile), t)

\* A tag that was pushed.
Known(t) == \E k \in 1..Len(pushed) : pushed[k][1] = t

\* The tags of the parsed index were pushed.
LEMMA TagsKnown ==
    ASSUME IndexOK(index, pushed), NEW v, SavedAs(idxFile, index, v),
           NEW t, Contains(Parse(idxFile).tags, t)
    PROVE  Known(t)
  <1>1. ParsedAs(Parse(idxFile), index, v)
    BY ParsedIs
  <1>2. Contains(index.tags, t) /\ Len(index.tags) = Len(pushed)
    BY <1>1 DEF ParsedAs, IndexOK, Shape
  <1>3. PICK k \in 1..Len(pushed) : index.tags[k] = t
    BY <1>2 DEF Contains
  <1> QED BY <1>3 DEF IndexOK, Pools, Known

\* What is wanted under a tag, and what the index resolves it to.
LEMMA WantedIs ==
    ASSUME IndexOK(index, pushed), NEW v, SavedAs(idxFile, index, v), NEW k \in 1..Len(pushed)
    PROVE  Wanted(pushed[k][1]) = {Rec(v, e) : e \in pushed[k][2]}
  <1>1. idxFile.version = v
    BY ParsedIs
  <1>2. PICK t, s : t = pushed[k][1] /\ s = pushed[k][2] /\ s \in Snapshots
    <2>1. pushed \in Seq(Tags \X Snapshots)
      BY DEF IndexOK, Shape
    <2>2. pushed[k] \in Tags \X Snapshots
      BY <2>1, ElementOfSeq
    <2> QED BY <2>2
  <1>3. DOMAIN pushed = 1..Len(pushed)
    BY DEF IndexOK, Shape
  <1>4. ASSUME NEW i \in 1..Len(pushed), pushed[i][1] = t PROVE i = k
    <2>1. /\ DOMAIN index.tags = 1..Len(pushed) /\ Distinct(index.tags)
          /\ index.tags[i] = pushed[i][1] /\ index.tags[k] = pushed[k][1]
      BY DEF IndexOK, Shape, Pools, Indexes
    <2> QED BY <1>2, <1>4, <2>1 DEF Distinct
  <1>5. (CHOOSE i \in DOMAIN pushed : pushed[i][1] = t) = k
    BY <1>2, <1>3, <1>4
  <1>6. Wanted(t) = Recorded(s)
    BY <1>2, <1>5 DEF Wanted
  <1>7. \A e \in s : e = [path |-> e.path, obj |-> e.obj, meta |-> e.meta]
    BY <1>2, SnapshotFacts
  <1> DEFINE f(e) == IF v = 1 THEN [e EXCEPT !.meta = DefaultMode] ELSE e
             g(e) == Rec(v, e)
  <1>8. \A e \in s : f(e) = g(e)
    <2>1. \A p, o, m : [[path |-> p, obj |-> o, meta |-> m] EXCEPT !.meta = DefaultMode]
                       = [path |-> p, obj |-> o, meta |-> DefaultMode]
      OBVIOUS
    <2> QED BY <1>7, <2>1 DEF Rec
  <1>9. Recorded(s) = {f(e) : e \in s}
    BY <1>1 DEF Recorded
  <1>10. Recorded(s) = {g(e) : e \in s}
    <2> HIDE DEF f, g
    <2> QED BY ONLY <1>8, <1>9
  <1> QED BY <1>2, <1>6, <1>10

\* The tasks that FrameTasks makes are for what was asked.
LEMMA TasksFor ==
    ASSUME IndexOK(index, pushed), NEW v, SavedAs(idxFile, index, v),
           NEW ord, NEW P, NEW n, NEW slices, NEW b, Plan(index, frames, ord, P, n, slices, b),
           Written(packFile, index, store, slices),
           NEW t, Known(t), NEW kind, NEW W, W = Resolved(kind, t)
    PROVE  \E S : /\ FrameTasks(W) \in Seq(S)
                  /\ TasksOK(FrameTasks(W), Asked(kind, t), store = Intact)
                  /\ FrameTasks(W) # <<>> => Len(packFile) \in Nat \ {0}
  <1>1. PICK k \in 1..Len(pushed) : pushed[k][1] = t
    BY DEF Known
  <1>2. PICK s : s = pushed[k][2]
    OBVIOUS
  <1>3. Resolve(Parse(idxFile), t) = {EntryAs(index, v, e) : e \in s}
    <2>1. ParsedAs(Parse(idxFile), index, v)
      BY ParsedIs
    <2>2. Resolve(Parse(idxFile), pushed[k][1]) = {EntryAs(index, v, e) : e \in pushed[k][2]}
      BY <2>1, ResolvedIs
    <2> QED BY <1>1, <1>2, <2>2
  <1>4. Wanted(t) = {Rec(v, e) : e \in s}
    BY <1>1, <1>2, WantedIs
  <1>5. PICK F : F = IF kind = "preflight" THEN {e \in s : Rec(v, e).meta = Symlink} ELSE s
    OBVIOUS
  <1> DEFINE f(e) == EntryAs(index, v, e)
             g(e) == Rec(v, e)
  <1>6. \A e : f(e).meta = g(e).meta
    BY DEF EntryAs, Rec
  <1>7. /\ Resolve(Parse(idxFile), t) = {f(e) : e \in s}
        /\ Wanted(t) = {g(e) : e \in s}
        /\ F = IF kind = "preflight" THEN {e \in s : g(e).meta = Symlink} ELSE s
    BY <1>3, <1>4, <1>5
  <1> HIDE DEF f, g
  <1>8. W = {f(e) : e \in F} /\ Asked(kind, t) = {g(e) : e \in F}
    <2>1. CASE kind = "preflight"
      <3>1. PICK A, B : A = Resolve(Parse(idxFile), t) /\ B = Wanted(t)
        OBVIOUS
      <3>2. W = {y \in A : y.meta = Symlink} /\ Asked(kind, t) = {r \in B : r.meta = Symlink}
        BY <2>1, <3>1 DEF Asked, Resolved
      <3>3. A = {f(e) : e \in s} /\ B = {g(e) : e \in s} /\ F = {e \in s : g(e).meta = Symlink}
        BY <1>7, <2>1, <3>1
      <3>4. {y \in A : y.meta = Symlink} = {f(e) : e \in F}
        BY ONLY <1>6, <3>3
      <3>5. {r \in B : r.meta = Symlink} = {g(e) : e \in F}
        BY ONLY <3>3
      <3> QED BY <3>2, <3>4, <3>5
    <2>2. CASE kind # "preflight"
      BY <1>7, <2>2 DEF Asked, Resolved
    <2> QED BY <2>1, <2>2
  <1>9. F \subseteq pushed[k][2]
    BY <1>2, <1>5
  <1>10. W = {EntryAs(index, v, e) : e \in F} /\ Asked(kind, t) = {Rec(v, e) : e \in F}
    BY <1>8 DEF f, g
  <1>11. \E S : /\ FrameTasks(W) \in Seq(S)
                /\ TasksOK(FrameTasks(W), {Rec(v, e) : e \in F}, store = Intact)
                /\ FrameTasks(W) # <<>> => Len(packFile) \in Nat \ {0}
    BY <1>9, <1>10, TasksMade
  <1> QED BY <1>10, <1>11


-----------------------------------------------------------------------------
(* The invariant                                                           *)

\* Threads that compress the slices of a plan.
Compressing ==
    \E ord, P, n, slices, b :
       /\ Plan(index, frames, ord, P, n, slices, b)
       /\ Progress(threads, slices, Seq(1..n), {<<slice, Frame(slice)>> : slice \in Seq(1..n)})

\* A pack and its index that were made from the index in memory.
Packed ==
    /\ \E v : SavedAs(idxFile, index, v)
    /\ \E ord, P, n, slices, b : /\ Plan(index, frames, ord, P, n, slices, b)
                                 /\ Written(packFile, index, store, slices)

\* A command that reads what was asked.
Working ==
    /\ job = [kind |-> job.kind, tag |-> job.tag, verify |-> job.verify, workers |-> job.workers]
    /\ job.kind \in {"preflight", "extract", "show"} /\ job.workers \in Nat \ {0} /\ Known(job.tag)
    /\ Reading(threads, Asked(job.kind, job.tag), job.kind, job.verify, store = Intact)

\* The inductive invariant.
Inv ==
    /\ IndexOK(index, pushed) /\ StoreOK
    /\ phase \in {"building", "compressing", "packed", "reading", "done"}
    /\ phase \in {"building", "compressing"} => idxFile = Nil /\ packFile = Nil
    /\ phase \in {"building", "packed", "done"} => threads = <<>>
    /\ phase = "compressing" => Compressing
    /\ phase \in {"packed", "reading", "done"} => Packed
    /\ phase = "reading" => Working
    /\ SuccessIsExact /\ IntactIsReadable

\* The first state.
LEMMA InitInv == Init => Inv
  <1> SUFFICES ASSUME Init PROVE Inv
    OBVIOUS
  <1>1. IndexOK(index, pushed)
    BY EmptyOK DEF Init, IndexInit
  <1>2. StoreOK
    BY InitialStore DEF Init
  <1>3. phase = "building" /\ idxFile = Nil /\ packFile = Nil /\ threads = <<>>
    BY DEF Init, IndexInit
  <1> QED BY <1>1, <1>2, <1>3 DEF Inv, SuccessIsExact, IntactIsReadable

\* push_snapshot
LEMMA PushKeeps ==
    ASSUME Inv, NEW t \in Tags, NEW s \in Snapshots, PushSnapshot(t, s)
    PROVE  Inv'
  <1>1. PICK entries \in SetToSeqs(s) : index' = Pushed(index, t, entries)
    BY DEF PushSnapshot, Push
  <1>2. /\ ~Contains(index.tags, t) /\ pushed' = Append(pushed, <<t, s>>) /\ IndexOK(index, pushed)
    BY DEF PushSnapshot, Push, Inv
  <1>3. IndexOK(Pushed(index, t, entries), Append(pushed, <<t, s>>))
    BY <1>2, PushedOK
  <1>4. IndexOK(index', pushed')
    BY <1>1, <1>2, <1>3
  <1>5. StoreOK'
    BY DEF Inv, StoreOK, PushSnapshot
  <1>6. phase' = "building" /\ idxFile' = Nil /\ packFile' = Nil /\ threads' = <<>>
    BY DEF Inv, PushSnapshot, Push
  <1> QED BY <1>4, <1>5, <1>6 DEF Inv, SuccessIsExact, IntactIsReadable

\* create_pack_impl up to the compression.
LEMMA CompressKeeps ==
    ASSUME Inv, NEW fr \in Nat, NEW w \in Nat \ {0}, Compress(fr, w)
    PROVE  Inv'
  <1>1. PICK ord, n, ix : ord = Ordering(index) /\ n = Len(index.objs) /\ ix = LaidOut(index)
    OBVIOUS
  <1>2. IndexOK(index, pushed) /\ StoreOK
    BY DEF Inv
  <1>3. IndexOK(ix, pushed)
    BY <1>1, <1>2, LaidOutOK
  <1>4. PICK P : Layout(ix, ord, P, n)
    <2>1. \E P : Layout(LaidOut(index), Ordering(index), P, Len(index.objs))
      BY <1>2, LaidOutOK
    <2> QED BY <1>1, <2>1
  <1>5. ord \in Seq(1..n) /\ Len(ord) = n
    BY <1>4 DEF Layout
  <1>6. PICK weight : weight = [h \in DOMAIN index.meta |-> index.meta[h].size]
    OBVIOUS
  <1>7. \A h \in 1..n : weight[h] \in Nat
    <2>1. /\ index.objs \in Seq(Objects) /\ index.meta \in Seq([size : Nat, offset : Nat])
          /\ Len(index.meta) = n
          /\ \A h \in 1..n : index.meta[h].size = Size[index.objs[h]]
      BY <1>1, <1>2 DEF IndexOK, Shape, Indexes
    <2>2. \A h \in 1..n : index.objs[h] \in Objects
      BY <1>1, <2>1, ElementOfSeq
    <2>3. DOMAIN index.meta = 1..n
      BY <2>1
    <2> QED BY <1>6, <2>1, <2>2, <2>3, BytesFacts
  <1>8. PICK slices : slices = partition_by_u64(ord, fr, weight)
    OBVIOUS
  <1>9. /\ slices \in Seq(Seq(1..n))
        /\ \E b : Sliced(slices, ord, b, Len(ord))
        /\ Len(slices) <= Max({fr, 1})
    BY <1>5, <1>7, <1>8, PartitionTiles
  <1>10. PICK b : Sliced(slices, ord, b, Len(ord))
    BY <1>9
  <1>11. Cuts(slices, ord, b)
    <2>1. /\ b \in [0..Len(slices) -> 0..Len(ord)]
          /\ b[0] = 0 /\ b[Len(slices)] = Len(ord)
          /\ \A k \in 1..Len(slices) :
                b[k - 1] < b[k] /\ slices[k] = SubSeq(ord, b[k - 1] + 1, b[k])
      BY <1>10 DEF Sliced
    <2>2. ASSUME NEW k \in 1..Len(slices) PROVE b[k - 1] <= b[k]
      <3>1. Len(slices) \in Nat /\ Len(ord) \in Nat
        BY <1>5, <1>9, LenProperties
      <3>2. k \in 0..Len(slices) /\ k - 1 \in 0..Len(slices)
        BY ONLY <3>1, k \in 1..Len(slices)
      <3>3. b[k] \in 0..Len(ord) /\ b[k - 1] \in 0..Len(ord) /\ b[k - 1] < b[k]
        BY <2>1, <3>2
      <3> QED BY ONLY <3>1, <3>3
    <2> QED BY <2>1, <2>2 DEF Cuts
  <1>12. Plan(ix, fr, ord, P, n, slices, b)
    BY <1>4, <1>9, <1>11 DEF Plan
  <1>13. index' = ix /\ frames' = fr /\ threads' = Run(w, slices) /\ phase' = "compressing"
         /\ pushed' = pushed /\ store' = store /\ idxFile' = Nil /\ packFile' = Nil
    BY <1>1, <1>6, <1>8 DEF Compress, Inv
  <1>14. ASSUME NEW R PROVE Progress(Run(w, slices), slices, Seq(1..n), R)
    <2>1. CASE slices = <<>>
      <3>1. Run(w, slices) = <<>>
        BY <2>1 DEF Run
      <3> QED BY <2>1, <3>1, ProgressNone
    <2>2. CASE slices # <<>>
      <3>1. Run(w, slices) = Spawn(w, slices)
        BY <2>2 DEF Run
      <3> QED BY <1>9, <2>2, <3>1, ProgressSpawn
    <2> QED BY <2>1, <2>2
  <1>15. Compressing'
    <2>1. PICK R : R = {<<slice, Frame(slice)'>> : slice \in Seq(1..n)}
      OBVIOUS
    <2>2. Progress(threads', slices, Seq(1..n), R) /\ Plan(index', frames', ord, P, n, slices, b)
      BY <1>12, <1>13, <1>14
    <2> QED BY <2>1, <2>2 DEF Compressing
  <1>16. StoreOK' /\ IndexOK(index', pushed')
    BY <1>2, <1>3, <1>13 DEF StoreOK
  <1> QED BY <1>13, <1>15, <1>16 DEF Inv, SuccessIsExact, IntactIsReadable

\* A thread compresses a frame.
LEMMA FrameKeeps ==
    ASSUME Inv, NEW g \in DOMAIN threads, CompressFrame(g)
    PROVE  Inv'
  <1>1. Compressing /\ threads[g].todo # <<>>
    BY DEF Inv, CompressFrame
  <1>2. PICK ord, P, n, slices, b :
           /\ Plan(index, frames, ord, P, n, slices, b)
           /\ Progress(threads, slices, Seq(1..n), {<<slice, Frame(slice)>> : slice \in Seq(1..n)})
    BY <1>1 DEF Compressing
  <1>3. PICK R : R = {<<slice, Frame(slice)>> : slice \in Seq(1..n)}
    OBVIOUS
  <1>4. Progress(threads, slices, Seq(1..n), R)
    BY <1>2, <1>3
  <1>5. PICK task, res : task = Head(threads[g].todo) /\ res = Frame(task)
    OBVIOUS
  <1>6. PICK i \in 1..Len(slices) : task = slices[i]
    <2>1. \E i \in 1..Len(slices) : Head(threads[g].todo) = slices[i]
      BY <1>1, <1>4, ProgressRan
    <2> QED BY <1>5, <2>1
  <1>7. task \in Seq(1..n)
    <2>1. slices \in Seq(Seq(1..n))
      BY <1>2 DEF Plan
    <2> QED BY <1>6, <2>1, ElementOfSeq
  <1>8. <<task, res>> \in R
    BY <1>3, <1>5, <1>7
  <1>9. \A x : <<Head(threads[g].todo), x>> \in R => Progress(Ran(threads, g, x), slices, Seq(1..n), R)
    BY <1>1, <1>4, ProgressRan
  <1>10. Progress(Ran(threads, g, res), slices, Seq(1..n), R)
    BY <1>5, <1>8, <1>9
  <1>11. /\ threads' = Ran(threads, g, res) /\ phase = "compressing"
         /\ index' = index /\ idxFile' = idxFile /\ pushed' = pushed /\ store' = store
         /\ phase' = phase /\ frames' = frames /\ packFile' = packFile
    BY <1>5 DEF CompressFrame
  <1>12. R = {<<slice, Frame(slice)'>> : slice \in Seq(1..n)}
    <2>1. ASSUME NEW slice PROVE Frame(slice)' = Frame(slice)
      BY <1>11 DEF Frame
    <2> DEFINE f(slice) == <<slice, Frame(slice)>>
               h(slice) == <<slice, Frame(slice)'>>
    <2>2. \A slice : f(slice) = h(slice)
      BY <2>1
    <2>3. R = {f(slice) : slice \in Seq(1..n)}
      BY <1>3
    <2> HIDE DEF f, h
    <2>4. R = {h(slice) : slice \in Seq(1..n)}
      BY ONLY <2>2, <2>3
    <2> QED BY <2>4 DEF h
  <1>13. Compressing'
    <2>1. Progress(threads', slices, Seq(1..n), R) /\ Plan(index', frames', ord, P, n, slices, b)
      BY <1>2, <1>10, <1>11
    <2> QED BY <1>12, <2>1 DEF Compressing
  <1>14. StoreOK' /\ IndexOK(index', pushed') /\ idxFile' = Nil /\ packFile' = Nil
    BY <1>11 DEF Inv, StoreOK
  <1> QED BY <1>11, <1>13, <1>14 DEF Inv, SuccessIsExact, IntactIsReadable


\* The frames and the index are written.
LEMMA WriteKeeps ==
    ASSUME Inv, WritePack
    PROVE  Inv'
  <1>1. Compressing /\ AllRan(threads) /\ IndexOK(index, pushed) /\ StoreOK
    BY DEF Inv, WritePack
  <1>2. PICK ord, P, n, slices, b :
           /\ Plan(index, frames, ord, P, n, slices, b)
           /\ Progress(threads, slices, Seq(1..n), {<<slice, Frame(slice)>> : slice \in Seq(1..n)})
    BY <1>1 DEF Compressing
  <1>3. PICK R : R = {<<slice, Frame(slice)>> : slice \in Seq(1..n)}
    OBVIOUS
  <1>4. PICK js, m : js = Joined(threads) /\ m = Len(slices)
    OBVIOUS
  <1>5. js \in Seq(Results(R)) /\ Len(js) = m /\ \A i \in 1..m : <<slices[i], js[i]>> \in R
    <2>1. Progress(threads, slices, Seq(1..n), R)
      BY <1>2, <1>3
    <2> QED BY <1>1, <1>4, <2>1, JoinedInOrder
  <1>6. m \in Nat /\ DOMAIN js = 1..m
    BY <1>5, LenProperties
  <1>7. n = Len(index.objs) /\ slices \in Seq(Seq(1..n))
    BY <1>2 DEF Plan, Layout
  <1>8. \A i \in 1..m : js[i] # Nil
    BY <1>4, <1>5 DEF WritePack, Contains
  <1>9. ASSUME NEW k \in 1..m
        PROVE  /\ Parts(index, store, slices[k]) \in Seq(Seq(AByte))
               /\ js[k] = FlattenSeq(Parts(index, store, slices[k]))
               /\ js[k] \in Seq(AByte)
    <2>1. PICK slice : slice = slices[k] /\ slice \in Seq(1..n)
      BY <1>4, <1>7, ElementOfSeq
    <2>2. js[k] = Frame(slice)
      <3>1. PICK z \in Seq(1..n) : <<slice, js[k]>> = <<z, Frame(z)>>
        BY <1>3, <1>5, <2>1
      <3> QED BY <3>1
    <2>3. Frame(slice) # Nil
      BY <1>8, <2>2
    <2>4. /\ Parts(index, store, slice) \in Seq(Seq(AByte))
          /\ Frame(slice) = FlattenSeq(Parts(index, store, slice))
          /\ Frame(slice) \in Seq(AByte)
      BY <1>1, <1>7, <2>1, <2>3, FrameIs
    <2> QED BY <2>1, <2>2, <2>4
  <1>10. js \in Seq(Seq(AByte))
    <2>1. js \in [1..m -> Seq(AByte)]
      <3>1. js = [i \in 1..m |-> js[i]]
        BY <1>5, <1>6
      <3>2. \A i \in 1..m : js[i] \in Seq(AByte)
        BY <1>9
      <3> HIDE DEF AByte
      <3> QED BY ONLY <3>1, <3>2
    <2> QED BY <1>6, <2>1, ListOf
  <1>11. Written(js, index, store, slices)
    BY <1>4, <1>5, <1>9, <1>10 DEF Written
  <1>12. /\ packFile' = js /\ idxFile' = Serialized(index) /\ threads' = <<>> /\ phase' = "packed"
         /\ index' = index /\ pushed' = pushed /\ store' = store /\ frames' = frames
    BY <1>4 DEF WritePack
  <1>13. Packed'
    <2>1. SavedAs(idxFile', index', 3)
      BY <1>12 DEF SavedAs
    <2>2. Plan(index', frames', ord, P, n, slices, b) /\ Written(packFile', index', store', slices)
      BY <1>2, <1>11, <1>12
    <2> QED BY <2>1, <2>2 DEF Packed
  <1>14. StoreOK' /\ IndexOK(index', pushed')
    BY <1>1, <1>12 DEF StoreOK
  <1> QED BY <1>12, <1>13, <1>14 DEF Inv, SuccessIsExact, IntactIsReadable

\* A compression failed.
LEMMA WriteFailedKeeps ==
    ASSUME Inv, WritePackFailed
    PROVE  Inv'
  <1>1. /\ index' = EmptyIndex /\ pushed' = <<>> /\ store' = store /\ phase' = "building"
        /\ idxFile' = Nil /\ packFile' = Nil /\ threads' = <<>>
    BY DEF Inv, WritePackFailed
  <1>2. IndexOK(index', pushed')
    BY <1>1, EmptyOK
  <1>3. StoreOK'
    BY <1>1 DEF Inv, StoreOK
  <1> QED BY <1>1, <1>2, <1>3 DEF Inv, SuccessIsExact, IntactIsReadable

\* A pack of an older program.
LEMMA LegacyKeeps ==
    ASSUME Inv, NEW v \in {1, 2}, LegacyPack(v)
    PROVE  Inv'
  <1>1. PICK ord, n, ix, fr : /\ ord = Ordering(index) /\ n = Len(index.objs) /\ ix = LaidOut(index)
                              /\ fr = Frame(ord)
    OBVIOUS
  <1>2. IndexOK(index, pushed) /\ StoreOK /\ threads = <<>>
    BY DEF Inv, LegacyPack
  <1>3. IndexOK(ix, pushed) /\ Features(ix) = {} /\ ix.objs = index.objs
    <2>1. Features(index) = {}
      BY DEF LegacyPack
    <2> QED BY <1>1, <1>2, <2>1, LaidOutOK
  <1>4. PICK P : Layout(ix, ord, P, n)
    <2>1. \E P : Layout(LaidOut(index), Ordering(index), P, Len(index.objs))
      BY <1>2, LaidOutOK
    <2> QED BY <1>1, <2>1
  <1>5. ord \in Seq(1..n) /\ Len(ord) = n /\ n \in Nat
    BY <1>4 DEF Layout
  <1>6. /\ Parts(index, store, ord) \in Seq(Seq(AByte))
        /\ fr = FlattenSeq(Parts(index, store, ord))
        /\ fr \in Seq(AByte)
    <2>1. Frame(ord) # Nil
      BY <1>1 DEF LegacyPack
    <2> QED BY <1>1, <1>2, <1>5, <2>1, FrameIs
  <1>7. Parts(ix, store, ord) = Parts(index, store, ord)
    BY <1>3 DEF Parts
  <1>8. PICK slices, pf : slices = <<ord>> /\ pf = <<fr>>
    OBVIOUS
  <1>9. /\ Len(slices) = 1 /\ slices[1] = ord /\ Len(pf) = 1 /\ pf[1] = fr
        /\ slices \in Seq(Seq(1..n)) /\ pf \in Seq(Seq(AByte))
    <2> HIDE DEF AByte
    <2> QED BY <1>5, <1>6, <1>8
  <1>10. PICK b : b = [i \in 0..1 |-> IF i = 0 THEN 0 ELSE n]
    OBVIOUS
  <1>11. Cuts(slices, ord, b)
    <2>1. b \in [0..1 -> 0..n] /\ b[0] = 0 /\ b[1] = n
      BY <1>5, <1>10
    <2>2. ord = SubSeq(ord, 0 + 1, n)
      BY <1>5
    <2>3. ASSUME NEW k \in 1..1 PROVE b[k - 1] <= b[k] /\ slices[k] = SubSeq(ord, b[k - 1] + 1, b[k])
      <3>1. k = 1 /\ k - 1 = 0
        OBVIOUS
      <3> QED BY <1>5, <1>9, <2>1, <2>2, <3>1
    <2> QED BY <1>5, <1>9, <2>1, <2>3 DEF Cuts
  <1>12. Plan(ix, 1, ord, P, n, slices, b)
    <2>1. Len(slices) <= Max({1, 1})
      <3>1. Max({1, 1}) = 1
        BY MaxOfTwo
      <3> QED BY <1>9, <3>1
    <2> QED BY <1>4, <1>9, <1>11, <2>1 DEF Plan
  <1>13. Written(pf, ix, store, slices)
    <2>1. ASSUME NEW k \in 1..1
          PROVE  /\ Parts(ix, store, slices[k]) \in Seq(Seq(AByte))
                 /\ pf[k] = FlattenSeq(Parts(ix, store, slices[k]))
      <3>1. k = 1
        OBVIOUS
      <3> QED BY <1>6, <1>7, <1>9, <3>1
    <2> QED BY <1>9, <2>1 DEF Written
  <1>14. /\ index' = ix /\ frames' = 1 /\ packFile' = pf /\ idxFile' = SerializedLegacy(ix, v)
         /\ phase' = "packed" /\ pushed' = pushed /\ store' = store /\ threads' = <<>>
    BY <1>1, <1>2, <1>8 DEF LegacyPack
  <1>15. Packed'
    <2>1. SavedAs(idxFile', index', v)
      BY <1>3, <1>14 DEF SavedAs
    <2>2. Plan(index', frames', ord, P, n, slices, b) /\ Written(packFile', index', store', slices)
      BY <1>12, <1>13, <1>14
    <2> QED BY <2>1, <2>2 DEF Packed
  <1>16. StoreOK' /\ IndexOK(index', pushed')
    BY <1>2, <1>3, <1>14 DEF StoreOK
  <1> QED BY <1>14, <1>15, <1>16 DEF Inv, SuccessIsExact, IntactIsReadable

\* What reading leaves alone.
ReadOnly == UNCHANGED <<index, idxFile, pushed, store, frames, packFile>>

\* The index and the pack stay, and what is wanted with them.
LEMMA ReadOnlyKeeps ==
    ASSUME Inv, phase \in {"packed", "reading", "done"}, ReadOnly
    PROVE  /\ IndexOK(index', pushed') /\ StoreOK' /\ Packed'
           /\ \A kind, t : Asked(kind, t)' = Asked(kind, t)
           /\ \A t : Known(t)' = Known(t) /\ Wanted(t)' = Wanted(t)
           /\ (store = Intact)' = (store = Intact)
  <1>1. /\ index' = index /\ idxFile' = idxFile /\ pushed' = pushed /\ store' = store
        /\ frames' = frames /\ packFile' = packFile
    BY DEF ReadOnly
  <1>2. IndexOK(index', pushed') /\ StoreOK'
    BY <1>1 DEF Inv, StoreOK
  <1>3. Packed
    BY DEF Inv
  <1>4. Packed'
    <2>1. PICK v : SavedAs(idxFile, index, v)
      BY <1>3 DEF Packed
    <2>2. PICK ord, P, n, slices, b : /\ Plan(index, frames, ord, P, n, slices, b)
                                      /\ Written(packFile, index, store, slices)
      BY <1>3 DEF Packed
    <2>3. /\ SavedAs(idxFile', index', v) /\ Plan(index', frames', ord, P, n, slices, b)
          /\ Written(packFile', index', store', slices)
      BY <1>1, <2>1, <2>2
    <2> QED BY <2>3 DEF Packed
  <1>5. ASSUME NEW t PROVE Known(t)' = Known(t) /\ Wanted(t)' = Wanted(t)
    BY <1>1 DEF Known, Wanted, Recorded
  <1>6. ASSUME NEW kind, NEW t PROVE Asked(kind, t)' = Asked(kind, t)
    BY <1>5 DEF Asked
  <1>7. (store = Intact)' = (store = Intact)
    BY <1>1 DEF Intact, Bytes
  <1> QED BY <1>2, <1>4, <1>5, <1>6, <1>7

\* A command begins to read what was asked.
LEMMA Begins ==
    ASSUME Inv, phase \in {"packed", "reading"}, NEW t, Known(t), NEW kind, NEW verify,
           NEW tasks, tasks = FrameTasks(Resolved(kind, t)), NEW w \in Nat \ {0},
           NEW workers, workers \in {Min({w, Len(tasks)}), Min({w, Len(packFile)})}
    PROVE  Reading(Run(workers, tasks), Asked(kind, t), kind, verify, store = Intact)
  <1>1. IndexOK(index, pushed) /\ Packed
    BY DEF Inv
  <1>2. PICK v : SavedAs(idxFile, index, v)
    BY <1>1 DEF Packed
  <1>3. PICK ord, P, n, slices, b : /\ Plan(index, frames, ord, P, n, slices, b)
                                    /\ Written(packFile, index, store, slices)
    BY <1>1 DEF Packed
  <1>4. PICK S : /\ tasks \in Seq(S)
                 /\ TasksOK(tasks, Asked(kind, t), store = Intact)
                 /\ tasks # <<>> => Len(packFile) \in Nat \ {0}
    BY <1>1, <1>2, <1>3, TasksFor
  <1>5. tasks # <<>> => workers \in Nat \ {0}
    <2>1. SUFFICES ASSUME tasks # <<>> PROVE workers \in Nat \ {0}
      OBVIOUS
    <2>2. PICK x, y : x = Len(tasks) /\ y = Len(packFile)
      OBVIOUS
    <2>3. x \in Nat \ {0} /\ y \in Nat \ {0}
      <3>1. Len(tasks) \in Nat /\ Len(tasks) # 0
        BY ONLY <1>4, <2>1, LenProperties, EmptySeq
      <3> QED BY <1>4, <2>1, <2>2, <3>1
    <2>4. w \in Int /\ x \in Int /\ y \in Int
      BY <2>3
    <2>5. /\ Min({w, x}) = IF w <= x THEN w ELSE x
          /\ Min({w, y}) = IF w <= y THEN w ELSE y
      BY ONLY <2>4, MinOfTwo
    <2> QED BY <2>2, <2>3, <2>5
  <1> QED BY <1>4, <1>5, ReadingBegins


\* Reading goes on with a job.
LEMMA WorkingKeeps ==
    ASSUME Inv, phase \in {"packed", "reading"}, ReadOnly, phase' = "reading",
           NEW j, job' = j, NEW th, threads' = th,
           j = [kind |-> j.kind, tag |-> j.tag, verify |-> j.verify, workers |-> j.workers],
           j.kind \in {"preflight", "extract", "show"}, j.workers \in Nat \ {0}, Known(j.tag),
           Reading(th, Asked(j.kind, j.tag), j.kind, j.verify, store = Intact)
    PROVE  Inv'
  <1>1. /\ IndexOK(index', pushed') /\ StoreOK' /\ Packed'
        /\ \A kind, t : Asked(kind, t)' = Asked(kind, t)
        /\ \A t : Known(t)' = Known(t)
        /\ (store = Intact)' = (store = Intact)
    BY ReadOnlyKeeps
  <1>2. PICK E, intact : E = Asked(j.kind, j.tag) /\ intact = (store = Intact)
    OBVIOUS
  <1>3. Asked(j.kind, j.tag)' = E /\ Known(j.tag)' /\ (store = Intact)' = intact
    BY <1>1, <1>2
  <1>4. Reading(th, E, j.kind, j.verify, intact)
    BY <1>2
  <1>5. Reading(threads, Asked(job.kind, job.tag), job.kind, job.verify, store = Intact)'
    BY <1>3, <1>4
  <1>6. Known(job.tag)'
    BY <1>3
  <1>7. Working'
    BY <1>5, <1>6 DEF Working
  <1> QED BY <1>1, <1>7 DEF Inv, SuccessIsExact, IntactIsReadable

\* extract begins with the targets of the links.
LEMMA BeginExtractKeeps ==
    ASSUME Inv, NEW t \in Tags, NEW verify \in BOOLEAN, NEW w \in Nat \ {0}, BeginExtract(t, verify, w)
    PROVE  Inv'
  <1>1. PICK j, tasks, th : /\ j = [kind |-> "preflight", tag |-> t, verify |-> verify, workers |-> w]
                            /\ tasks = FrameTasks(Resolved("preflight", t))
                            /\ th = Run(Min({w, Len(tasks)}), tasks)
    OBVIOUS
  <1>2. /\ phase = "packed" /\ job' = j /\ threads' = th /\ phase' = "reading" /\ ReadOnly
        /\ Contains(Parse(idxFile).tags, t)
    BY <1>1 DEF BeginExtract, Resolved, ReadOnly
  <1>3. IndexOK(index, pushed) /\ \E v : SavedAs(idxFile, index, v)
    BY <1>2 DEF Inv, Packed
  <1>4. Known(t)
    BY <1>2, <1>3, TagsKnown
  <1>5. Reading(th, Asked("preflight", t), "preflight", verify, store = Intact)
    BY <1>1, <1>2, <1>4, Begins
  <1>6. /\ j.kind = "preflight" /\ j.tag = t /\ j.verify = verify /\ j.workers = w
        /\ j = [kind |-> j.kind, tag |-> j.tag, verify |-> j.verify, workers |-> j.workers]
    BY <1>1
  <1> QED BY <1>2, <1>4, <1>5, <1>6, WorkingKeeps

\* show
LEMMA BeginShowKeeps ==
    ASSUME Inv, NEW t \in Tags, NEW w \in Nat \ {0}, BeginShow(t, w)
    PROVE  Inv'
  <1>1. PICK j, tasks, th : /\ j = [kind |-> "show", tag |-> t, verify |-> TRUE, workers |-> w]
                            /\ tasks = FrameTasks(Resolved("show", t))
                            /\ th = Run(Min({w, Len(tasks)}), tasks)
    OBVIOUS
  <1>2. /\ phase = "packed" /\ job' = j /\ threads' = th /\ phase' = "reading" /\ ReadOnly
        /\ Contains(Parse(idxFile).tags, t)
    BY <1>1 DEF BeginShow, Resolved, ReadOnly
  <1>3. IndexOK(index, pushed) /\ \E v : SavedAs(idxFile, index, v)
    BY <1>2 DEF Inv, Packed
  <1>4. Known(t)
    BY <1>2, <1>3, TagsKnown
  <1>5. Reading(th, Asked("show", t), "show", TRUE, store = Intact)
    BY <1>1, <1>2, <1>4, Begins
  <1>6. /\ j.kind = "show" /\ j.tag = t /\ j.verify = TRUE /\ j.workers = w
        /\ j = [kind |-> j.kind, tag |-> j.tag, verify |-> j.verify, workers |-> j.workers]
    BY <1>1
  <1> QED BY <1>2, <1>4, <1>5, <1>6, WorkingKeeps

\* A thread reads the entries of a frame.
LEMMA ReadStepKeeps ==
    ASSUME Inv, NEW g \in DOMAIN threads, ReadStep(g)
    PROVE  Inv'
  <1>0. PICK task : task = Head(threads[g].todo)
    OBVIOUS
  <1>1. PICK order \in InOffsetOrder(task.entries) :
           threads' = Ran(threads, g, IF job.kind = "extract" THEN Extracted(task, order)
                                      ELSE ReadFrame(task, order))
    BY <1>0 DEF ReadStep
  <1>2. /\ phase = "reading" /\ threads[g].todo # <<>> /\ ReadOnly /\ phase' = "reading" /\ job' = job
    BY DEF ReadStep, ReadOnly
  <1>3. Working
    BY <1>2 DEF Inv
  <1>4. PICK E, intact : E = Asked(job.kind, job.tag) /\ intact = (store = Intact)
    OBVIOUS
  <1>5. Reading(threads, E, job.kind, job.verify, intact)
    BY <1>3, <1>4 DEF Working
  <1>6. PICK res : res = IF job.kind = "extract" THEN Extracted(task, order) ELSE ReadFrame(task, order)
    OBVIOUS
  <1>7. Reading(threads', E, job.kind, job.verify, intact)
    <2>1. Reading(Ran(threads, g, IF job.kind = "extract" THEN Extracted(task, order)
                                  ELSE ReadFrame(task, order)),
                  E, job.kind, job.verify, intact)
      BY <1>0, <1>2, <1>5, ReadingSteps
    <2>2. Reading(Ran(threads, g, res), E, job.kind, job.verify, intact)
      BY <1>6, <2>1
    <2> QED BY <1>1, <1>6, <2>2
  <1>8. Reading(threads', Asked(job.kind, job.tag), job.kind, job.verify, store = Intact)
    BY <1>4, <1>7
  <1> QED BY <1>2, <1>3, <1>8, WorkingKeeps DEF Working

\* The links could be read: extract goes on with all entries.
LEMMA PreflightDoneKeeps ==
    ASSUME Inv, PreflightDone
    PROVE  Inv'
  <1>1. /\ phase = "reading" /\ job.kind = "preflight" /\ phase' = "reading" /\ ReadOnly
        /\ job' = [job EXCEPT !.kind = "extract"]
        /\ threads' = Run(Min({job.workers, Len(packFile)}), FrameTasks(Resolve(Parse(idxFile), job.tag)))
    BY DEF PreflightDone, ReadOnly
  <1>2. Working
    BY <1>1 DEF Inv
  <1>3. PICK t, verify, w : t = job.tag /\ verify = job.verify /\ w = job.workers
    OBVIOUS
  <1>4. /\ job = [kind |-> "preflight", tag |-> t, verify |-> verify, workers |-> w]
        /\ w \in Nat \ {0} /\ Known(t)
    BY <1>1, <1>2, <1>3 DEF Working
  <1>5. PICK j, tasks, th : /\ j = [kind |-> "extract", tag |-> t, verify |-> verify, workers |-> w]
                            /\ tasks = FrameTasks(Resolved("extract", t))
                            /\ th = Run(Min({w, Len(packFile)}), tasks)
    OBVIOUS
  <1>6. job' = j
    BY <1>1, <1>4, <1>5
  <1>7. threads' = th
    BY <1>1, <1>3, <1>5 DEF Resolved
  <1>8. Reading(th, Asked("extract", t), "extract", verify, store = Intact)
    BY <1>1, <1>4, <1>5, Begins
  <1>9. /\ j.kind = "extract" /\ j.tag = t /\ j.verify = verify /\ j.workers = w
        /\ j = [kind |-> j.kind, tag |-> j.tag, verify |-> j.verify, workers |-> j.workers]
    BY <1>5
  <1>10. phase = "reading" /\ phase' = "reading" /\ ReadOnly /\ w \in Nat \ {0} /\ Known(t)
    BY <1>1, <1>4
  <1>11. Reading(th, Asked(j.kind, j.tag), j.kind, j.verify, store = Intact)
    BY <1>8, <1>9
  <1> QED BY <1>6, <1>7, <1>9, <1>10, <1>11, WorkingKeeps

\* What a result must be for a command that read the tag t.
ResultOK(res, kind, verify, E, intact) ==
    /\ res.ok /\ (verify \/ intact) => res.files = {File(r, Bytes(r.obj)) : r \in E}
    /\ intact /\ ~res.ok => kind = "extract" /\ verify /\ \E r \in E : r.obj = Unreadable

\* Reading ends with a result.
LEMMA DoneKeeps ==
    ASSUME Inv, phase = "reading", ReadOnly, phase' = "done", threads' = <<>>, job' = job,
           NEW res, result' = res, ResultOK(res, job.kind, job.verify, Wanted(job.tag), store = Intact)
    PROVE  Inv'
  <1>1. /\ IndexOK(index', pushed') /\ StoreOK' /\ Packed'
        /\ \A t : Wanted(t)' = Wanted(t)
        /\ (store = Intact)' = (store = Intact)
    BY ReadOnlyKeeps
  <1>2. PICK E, intact : E = Wanted(job.tag) /\ intact = (store = Intact)
    OBVIOUS
  <1>3. Wanted(job.tag)' = E /\ (store = Intact)' = intact
    BY <1>1, <1>2
  <1>4. ResultOK(res, job.kind, job.verify, E, intact)
    BY <1>2
  <1>5. SuccessIsExact'
    <2>1. res.ok /\ (job.verify \/ intact) => res.files = {File(r, Bytes(r.obj)) : r \in E}
      BY <1>4 DEF ResultOK
    <2> QED BY <1>3, <2>1 DEF SuccessIsExact, File, Bytes
  <1>6. IntactIsReadable'
    <2>1. intact /\ ~res.ok => job.kind = "extract" /\ job.verify /\ \E r \in E : r.obj = Unreadable
      BY <1>4 DEF ResultOK
    <2> QED BY <1>3, <2>1 DEF IntactIsReadable
  <1> QED BY <1>1, <1>5, <1>6 DEF Inv

\* A link could not be read: this does not happen to an intact pack.
LEMMA PreflightFailedKeeps ==
    ASSUME Inv, PreflightFailed
    PROVE  Inv'
  <1>1. /\ phase = "reading" /\ job.kind = "preflight" /\ phase' = "done" /\ ReadOnly
        /\ threads' = <<>> /\ job' = job /\ AllRan(threads)
        /\ AllOk => \E f \in AllFiles : ~Matches(f[2], f[1].obj)
    BY DEF PreflightFailed, ReadOnly
  <1>2. PICK res : res = [ok |-> FALSE, files |-> {}]
    OBVIOUS
  <1>3. result' = res /\ ~res.ok
    BY <1>2 DEF PreflightFailed
  <1>4. PICK E : E = Asked("preflight", job.tag)
    OBVIOUS
  <1>5. Reading(threads, E, "preflight", job.verify, store = Intact)
    BY <1>1, <1>4 DEF Inv, Working
  <1>6. /\ AllOk => \A f \in AllFiles : \E r \in E : Gives(f, r)
        /\ store = Intact => AllOk /\ \A f \in AllFiles : f[2] = Bytes(f[1].obj)
    BY <1>1, <1>5, FetchGathered
  <1>7. store # Intact
    <2>1. SUFFICES ASSUME store = Intact PROVE FALSE
      OBVIOUS
    <2>2. PICK f \in AllFiles : ~Matches(f[2], f[1].obj)
      BY <1>1, <1>6, <2>1
    <2>3. PICK r \in E : Gives(f, r)
      BY <1>6, <2>1
    <2>4. r.meta = Symlink
      BY <1>4, <2>3 DEF Asked
    <2>5. f[1].size > 0 /\ f[1].obj # Unreadable
      BY <2>3, <2>4 DEF Gives, IsFor
    <2> QED BY <1>6, <2>1, <2>2, <2>5 DEF Matches
  <1>8. ResultOK(res, job.kind, job.verify, Wanted(job.tag), store = Intact)
    BY <1>3, <1>7 DEF ResultOK
  <1> QED BY <1>1, <1>3, <1>8, DoneKeeps

\* extract ends.
LEMMA ExtractDoneKeeps ==
    ASSUME Inv, ExtractDone
    PROVE  Inv'
  <1>1. /\ phase = "reading" /\ job.kind = "extract" /\ phase' = "done" /\ ReadOnly
        /\ threads' = <<>> /\ job' = job /\ AllRan(threads)
    BY DEF ExtractDone, ReadOnly
  <1>2. PICK res : res = [ok |-> AllOk, files |-> AllFiles]
    OBVIOUS
  <1>3. result' = res /\ res.ok = AllOk /\ res.files = AllFiles
    BY <1>2 DEF ExtractDone
  <1>4. PICK E, intact : E = Wanted(job.tag) /\ intact = (store = Intact)
    OBVIOUS
  <1>5. Reading(threads, E, "extract", job.verify, intact)
    BY <1>1, <1>4 DEF Inv, Working, Asked
  <1>6. /\ (job.verify \/ intact) /\ AllOk => AllFiles = {File(r, Bytes(r.obj)) : r \in E}
        /\ intact /\ ~AllOk => job.verify /\ \E r \in E : r.obj = Unreadable
    BY <1>1, <1>5, ExtractGathered
  <1>7. ResultOK(res, job.kind, job.verify, E, intact)
    BY <1>1, <1>3, <1>6 DEF ResultOK
  <1>8. ResultOK(res, job.kind, job.verify, Wanted(job.tag), store = Intact)
    BY <1>4, <1>7
  <1> QED BY <1>1, <1>3, <1>8, DoneKeeps

\* show ends.
LEMMA ShowDoneKeeps ==
    ASSUME Inv, ShowDone
    PROVE  Inv'
  <1>1. /\ phase = "reading" /\ job.kind = "show" /\ phase' = "done" /\ ReadOnly
        /\ threads' = <<>> /\ job' = job /\ AllRan(threads)
    BY DEF ShowDone, ReadOnly
  <1>2. PICK ok : ok = /\ AllOk
                       /\ \A f \in AllFiles : f[1].size > 0 \/ f[1].meta = Symlink => Matches(f[2], f[1].obj)
    OBVIOUS
  <1>3. PICK res : res = [ok |-> ok, files |-> IF ok THEN {File(f[1], f[2]) : f \in AllFiles} ELSE {}]
    OBVIOUS
  <1>4. result' = res /\ res.ok = ok /\ (ok => res.files = {File(f[1], f[2]) : f \in AllFiles})
    BY <1>2, <1>3 DEF ShowDone
  <1>5. PICK E, intact : E = Wanted(job.tag) /\ intact = (store = Intact)
    OBVIOUS
  <1>6. Reading(threads, E, "show", job.verify, intact)
    BY <1>1, <1>5 DEF Inv, Working, Asked
  <1>7. /\ AllOk => /\ \A f \in AllFiles : \E r \in E : Gives(f, r)
                    /\ \A r \in E : \E f \in AllFiles : Gives(f, r)
        /\ intact => AllOk /\ \A f \in AllFiles : f[2] = Bytes(f[1].obj)
    BY <1>1, <1>6, FetchGathered
  <1>8. ASSUME ok PROVE res.files = {File(r, Bytes(r.obj)) : r \in E}
    <2>1. ASSUME NEW f \in AllFiles, NEW r \in E, Gives(f, r)
          PROVE  File(f[1], f[2]) = File(r, Bytes(r.obj))
      <3>1. f[2] = Bytes(f[1].obj)
        <4>1. CASE f[1].size = 0
          BY <2>1, <4>1 DEF Gives
        <4>2. CASE f[1].size # 0
          <5>1. f[1].size > 0
            BY <2>1, <4>2 DEF Gives
          <5> QED BY <1>2, <1>8, <5>1 DEF Matches
        <4> QED BY <4>1, <4>2
      <3> QED BY <2>1, <3>1 DEF File, Gives, IsFor
    <2> DEFINE p(f) == File(f[1], f[2])
               q(r) == File(r, Bytes(r.obj))
    <2>2. /\ \A f \in AllFiles : \A r \in E : Gives(f, r) => p(f) = q(r)
          /\ res.files = {p(f) : f \in AllFiles}
      BY <1>4, <1>8, <2>1
    <2>3. AllOk
      BY <1>2, <1>8
    <2> HIDE DEF p, q
    <2>4. {p(f) : f \in AllFiles} = {q(r) : r \in E}
      <3>1. \A f \in AllFiles : \E r \in E : p(f) = q(r)
        BY <1>7, <2>2, <2>3
      <3>2. \A r \in E : \E f \in AllFiles : p(f) = q(r)
        BY <1>7, <2>2, <2>3
      <3> QED BY ONLY <3>1, <3>2
    <2> QED BY <2>2, <2>4 DEF q
  <1>9. ASSUME intact PROVE ok
    <2>1. ASSUME NEW f \in AllFiles, f[1].size > 0 \/ f[1].meta = Symlink PROVE Matches(f[2], f[1].obj)
      <3>1. PICK r \in E : Gives(f, r)
        BY <1>7, <1>9
      <3>2. f[1].obj # Unreadable
        BY <2>1, <3>1 DEF Gives
      <3> QED BY <1>7, <1>9, <3>2 DEF Matches
    <2> QED BY <1>2, <1>7, <1>9, <2>1
  <1>10. ResultOK(res, job.kind, job.verify, E, intact)
    BY <1>4, <1>8, <1>9 DEF ResultOK
  <1>11. ResultOK(res, job.kind, job.verify, Wanted(job.tag), store = Intact)
    BY <1>5, <1>10
  <1> QED BY <1>1, <1>4, <1>11, DoneKeeps

\* The next command.
LEMMA CloseKeeps ==
    ASSUME Inv, Close
    PROVE  Inv'
  <1>1. phase = "done" /\ phase' = "packed" /\ ReadOnly /\ threads' = threads
    BY DEF Close, ReadOnly
  <1>2. IndexOK(index', pushed') /\ StoreOK' /\ Packed'
    BY <1>1, ReadOnlyKeeps
  <1>3. threads' = <<>>
    BY <1>1 DEF Inv
  <1> QED BY <1>1, <1>2, <1>3 DEF Inv, SuccessIsExact, IntactIsReadable


\* Every step keeps the invariant.
LEMMA NextInv == Inv /\ [Next]_vars => Inv'
  <1> SUFFICES ASSUME Inv, [Next]_vars PROVE Inv'
    OBVIOUS
  <1>1. MaxWorkers \in Nat /\ MaxFrames \in Nat
    BY PackStreamAssumption
  <1>2. ASSUME NEW t \in Tags, NEW s \in Snapshots, PushSnapshot(t, s) PROVE Inv'
    BY <1>2, PushKeeps
  <1>3. ASSUME NEW n \in 0..MaxFrames, NEW w \in 1..MaxWorkers, Compress(n, w) PROVE Inv'
    <2>1. n \in Nat /\ w \in Nat \ {0}
      BY <1>1
    <2> QED BY <1>3, <2>1, CompressKeeps
  <1>4. ASSUME NEW g \in DOMAIN threads, CompressFrame(g) \/ ReadStep(g) PROVE Inv'
    BY <1>4, FrameKeeps, ReadStepKeeps
  <1>5. CASE WritePack
    BY <1>5, WriteKeeps
  <1>6. CASE WritePackFailed
    BY <1>6, WriteFailedKeeps
  <1>7. ASSUME NEW v \in {1, 2}, LegacyPack(v) PROVE Inv'
    BY <1>7, LegacyKeeps
  <1>8. ASSUME NEW t \in Tags, NEW verify \in BOOLEAN, NEW w \in 1..MaxWorkers, BeginExtract(t, verify, w)
        PROVE  Inv'
    <2>1. w \in Nat \ {0}
      BY <1>1
    <2> QED BY <1>8, <2>1, BeginExtractKeeps
  <1>9. ASSUME NEW t \in Tags, NEW w \in 1..MaxWorkers, BeginShow(t, w) PROVE Inv'
    <2>1. w \in Nat \ {0}
      BY <1>1
    <2> QED BY <1>9, <2>1, BeginShowKeeps
  <1>10. CASE PreflightDone
    BY <1>10, PreflightDoneKeeps
  <1>11. CASE PreflightFailed
    BY <1>11, PreflightFailedKeeps
  <1>12. CASE ExtractDone
    BY <1>12, ExtractDoneKeeps
  <1>13. CASE ShowDone
    BY <1>13, ShowDoneKeeps
  <1>14. CASE Close
    BY <1>14, CloseKeeps
  <1>15. CASE UNCHANGED vars
    <2>1. /\ index' = index /\ idxFile' = idxFile /\ pushed' = pushed /\ store' = store
          /\ phase' = phase /\ frames' = frames /\ packFile' = packFile /\ threads' = threads
          /\ job' = job /\ result' = result
      BY <1>15 DEF vars
    <2>2. ReadOnly
      BY <2>1 DEF ReadOnly
    <2>3. IndexOK(index', pushed') /\ StoreOK'
      BY <2>1 DEF Inv, StoreOK
    <2>4. phase = "compressing" => Compressing'
      <3> SUFFICES ASSUME phase = "compressing" PROVE Compressing'
        OBVIOUS
      <3>1. PICK ord, P, n, slices, b :
               /\ Plan(index, frames, ord, P, n, slices, b)
               /\ Progress(threads, slices, Seq(1..n), {<<slice, Frame(slice)>> : slice \in Seq(1..n)})
        BY DEF Inv, Compressing
      <3>2. \A slice : Frame(slice)' = Frame(slice)
        BY <2>1 DEF Frame
      <3>3. /\ Plan(index', frames', ord, P, n, slices, b)
            /\ Progress(threads', slices, Seq(1..n), {<<slice, Frame(slice)'>> : slice \in Seq(1..n)})
        BY <2>1, <3>1, <3>2
      <3> QED BY <3>3 DEF Compressing
    <2>5. phase \in {"packed", "reading", "done"} => Packed'
      BY <2>2, ReadOnlyKeeps
    <2>6. phase = "reading" => Working'
      <3>1. ASSUME phase = "reading"
            PROVE  /\ Asked(job.kind, job.tag)' = Asked(job.kind, job.tag)
                   /\ Known(job.tag)' = Known(job.tag)
                   /\ (store = Intact)' = (store = Intact)
        BY <2>1 DEF Asked, Known, Wanted, Recorded, Intact, Bytes
      <3> QED BY <2>1, <3>1 DEF Inv, Working
    <2>7. SuccessIsExact' /\ IntactIsReadable'
      <3>1. Wanted(job.tag)' = Wanted(job.tag)
        BY <2>1 DEF Wanted, Recorded
      <3>2. (store = Intact)' = (store = Intact)
        BY <2>1 DEF Intact, Bytes
      <3>3. SuccessIsExact'
        BY <2>1, <3>1, <3>2 DEF Inv, SuccessIsExact, File, Bytes
      <3>4. IntactIsReadable'
        BY <2>1, <3>1, <3>2 DEF Inv, IntactIsReadable
      <3> QED BY <3>3, <3>4
    <2> QED BY <2>1, <2>3, <2>4, <2>5, <2>6, <2>7 DEF Inv
  <1> QED BY <1>2, <1>3, <1>4, <1>5, <1>6, <1>7, <1>8, <1>9, <1>10, <1>11, <1>12, <1>13, <1>14, <1>15
       DEF Next

\* It is an invariant of the specification.
LEMMA AlwaysInv == Spec => []Inv
  BY InitInv, NextInv, PTL DEF Spec

\* What is saved is parsed back: the tags in order, every snapshot exactly, the
\* counts and the checksums, and the feature an index with links needs.
THEOREM RoundTripHolds == Spec => []RoundTrip
  <1>1. Inv => RoundTrip
    <2> SUFFICES ASSUME Inv PROVE RoundTrip
      OBVIOUS
    <2>1. CASE phase \in {"building", "compressing"}
      BY <2>1 DEF Inv, RoundTrip
    <2>2. CASE phase \in {"packed", "reading", "done"}
      <3>1. IndexOK(index, pushed) /\ \E v : SavedAs(idxFile, index, v)
        BY <2>2 DEF Inv, Packed
      <3> QED BY <3>1, SavedRoundTrip
    <2> QED BY <2>1, <2>2 DEF Inv
  <1> QED BY <1>1, AlwaysInv, PTL

\* The frames of a pack of intact objects tile the stream that the index
\* describes, however they were cut and whichever thread compressed them.
THEOREM FramesTileHolds == Spec => []FramesTile
  <1>1. Inv => FramesTile
    <2> SUFFICES ASSUME Inv PROVE FramesTile
      OBVIOUS
    <2>1. CASE phase \in {"building", "compressing"}
      BY <2>1 DEF Inv, FramesTile
    <2>2. CASE phase \in {"packed", "reading", "done"}
      <3>1. IndexOK(index, pushed) /\ Packed
        BY <2>2 DEF Inv
      <3>2. PICK v : SavedAs(idxFile, index, v)
        BY <3>1 DEF Packed
      <3>3. PICK ord, P, n, slices, b : /\ Plan(index, frames, ord, P, n, slices, b)
                                        /\ Written(packFile, index, store, slices)
        BY <3>1 DEF Packed
      <3> QED BY <3>1, <3>2, <3>3, WrittenTiles
    <2> QED BY <2>1, <2>2 DEF Inv
  <1> QED BY <1>1, AlwaysInv, PTL

\* A command that reports success made exactly the files of the snapshot: with
\* --verify and for show whatever became of the loose objects, without it from
\* intact ones.
THEOREM SuccessIsExactHolds == Spec => []SuccessIsExact
  <1>1. Inv => SuccessIsExact
    BY DEF Inv
  <1> QED BY <1>1, AlwaysInv, PTL

\* A pack of intact objects can be read, but for an empty object without a
\* checksum under --verify.
THEOREM IntactIsReadableHolds == Spec => []IntactIsReadable
  <1>1. Inv => IntactIsReadable
    BY DEF Inv
  <1> QED BY <1>1, AlwaysInv, PTL

=============================================================================
