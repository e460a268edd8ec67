--------------------------- MODULE CheckoutProofs ---------------------------
(***************************************************************************)
(* Proofs about Checkout for any paths, snapshots, links and edits.  One   *)
(* invariant carries all properties of extract: JobInv says what the       *)
(* checks have established and the removals and writes still rely on.      *)
(***************************************************************************)
EXTENDS Checkout, TLAPS

\* What a snapshot, and what the working directory, may hold.
Trees == [Paths -> Values \cup {UserData, None}]
WorkValues == Values \cup {UserData, Dir, None}
WorkTrees == [Paths -> WorkValues]

TypeInv ==
    /\ snap \in [Tags -> Trees \cup {None}]
    /\ where \in [Tags -> SUBSET {"loose", "pack"}]
    /\ tree \in WorkTrees
    /\ newer \subseteq Paths /\ unsaved \subseteq Paths /\ foreign \subseteq Paths
    /\ head \in Tags \cup {None} /\ packHead \in Tags \cup {None}
    /\ headAt \in {"loose", "pack"}
    /\ job \in [tag : Tags \cup {None}, at : {"loose", "pack"}, force : BOOLEAN, reset : BOOLEAN,
                gone : SUBSET Paths, new : SUBSET Paths, base : SUBSET Paths]
    /\ mixed \in BOOLEAN

\* What an index, HEAD, a running pack or an extract names is a consistent snapshot.
IsSnapshot(t) == snap[t] \in Trees /\ Consistent(snap[t])

SnapInv ==
    /\ \A t \in Tags : where[t] # {} => IsSnapshot(t)
    /\ head # None => IsSnapshot(head)
    /\ packHead # None => IsSnapshot(packHead)
    /\ job.tag # None => IsSnapshot(job.tag)

\* The working directory is a tree, and what the user wrote is in it.
TreeInv ==
    /\ \A p \in Paths : tree[p] # None => \A a \in Above(p) : tree[a] = Dir
    /\ \A p \in unsaved : tree[p] \notin {None, Dir}

\* What is removed is not in the snapshot, and what is below it is written again.
GoneInv ==
    /\ job.new \subseteq Entries(snap[job.tag])
    /\ \A p \in job.gone :
          /\ snap[job.tag][p] = None
          /\ \A q \in Below(p) : snap[job.tag][q] = None \/ q \in job.new

\* No link is above what is removed or written, once the removals are done.
LinkInv ==
    /\ \A p \in job.gone : \A a \in Above(p) : tree[a] \notin Links
    /\ \A p \in job.new : \A a \in Above(p) : a \in job.gone \/ tree[a] \notin Links

\* Paths that are done hold what the snapshot has.
RestoreInv ==
    job.reset \/ ~mixed =>
        \A p \in Paths \ foreign : p \in job.gone \cup job.new \/ Content(p) = snap[job.tag][p]

\* What is replaced or removed is tracked, and not fresh.
KeepInv ==
    ~job.force =>
        /\ \A p \in job.gone \cup job.new :
              p \in unsaved => p \in job.base /\ (job.reset \/ p \notin newer)
        /\ \A p \in job.gone : \A q \in Below(p) : tree[q] = None

\* Nothing is in the way, but for untracked files above a new path.
SufficeInv ==
    ~job.force /\ ~job.reset =>
        /\ \A p \in job.gone : \A a \in Above(p) : tree[a] \in {None, Dir}
        /\ \A p \in job.new : \A a \in Above(p) :
              a \in job.gone \/ tree[a] \in {None, Dir} \/ a \notin job.base
        /\ \A p \in job.new : \A q \in Below(p) : tree[q] = None \/ q \in job.gone

\* Without an extract there is nothing left to do.
IdleInv == Idle => job.gone = {} /\ job.new = {}

JobInv == GoneInv /\ LinkInv /\ RestoreInv /\ KeepInv /\ SufficeInv

\* The inductive invariant.
IInv ==
    /\ TypeInv /\ SnapInv /\ TreeInv
    /\ OutsideUntouched /\ CheckoutCorrect
    /\ IdleInv
    /\ ~Idle => JobInv

-----------------------------------------------------------------------------
(* Paths and trees                                                         *)

\* A path is at most one directory deep.
LEMMA PathFacts ==
    ASSUME NEW p \in Paths
    PROVE  /\ Above(p) \subseteq Paths /\ Below(p) \subseteq Paths
           /\ p \notin Above(p) /\ p \notin Below(p)
           /\ \A a \in Paths : a \in Above(p) <=> p \in Below(a)
           /\ \A a \in Above(p) : Above(a) = {} /\ p \in Below(a)
           /\ \A q \in Below(p) : Below(q) = {} /\ Above(q) = {p}
           /\ Below(p) # {} => Above(p) = {}
           /\ \A a \in Above(p) : Above(p) = {a}
  BY CheckoutAssumption DEF Above, Below

\* Putting a file in place makes the directory above it.
LEMMA PutFacts ==
    ASSUME NEW t \in WorkTrees, NEW p \in Paths, NEW c \in WorkValues
    PROVE  /\ Put(t, p, c) \in WorkTrees
           /\ Put(t, p, c)[p] = c
           /\ \A a \in Above(p) : Put(t, p, c)[a] = Dir
           /\ \A q \in Paths : q # p /\ q \notin Above(p) => Put(t, p, c)[q] = t[q]
  BY PathFacts DEF Put, WorkTrees, WorkValues

\* Cutting a path leaves the rest.
LEMMA CutFacts ==
    ASSUME NEW t \in WorkTrees, NEW p \in Paths
    PROVE  /\ Cut(t, p) \in WorkTrees
           /\ \A q \in {p} \cup Below(p) : Cut(t, p)[q] = None
           /\ \A q \in Paths : q \notin {p} \cup Below(p) => Cut(t, p)[q] = t[q]
  BY PathFacts DEF Cut, WorkTrees, WorkValues

\* Removing a path drops the directory above it only when that is empty.
LEMMA RemoveFacts ==
    ASSUME NEW t \in WorkTrees, NEW p \in Paths
    PROVE  LET r == DropEmpty(Cut(t, p), p) IN
           /\ r \in WorkTrees
           /\ \A q \in {p} \cup Below(p) : r[q] = None
           /\ \A q \in Paths : r[q] \in {t[q], None}
           /\ \A q \in Paths : q \notin {p} \cup Below(p) /\ q \notin Above(p) => r[q] = t[q]
           /\ \A a \in Above(p) : \/ r[a] = t[a]
                                  \/ t[a] = Dir /\ r[a] = None /\ \A q \in Below(a) : r[q] = None
  <1> DEFINE c == Cut(t, p)
             r == DropEmpty(c, p)
  <1>1. /\ c \in WorkTrees
        /\ \A q \in {p} \cup Below(p) : c[q] = None
        /\ \A q \in Paths : q \notin {p} \cup Below(p) => c[q] = t[q]
    BY CutFacts
  <1> HIDE DEF c
  <1>2. \A q \in Paths : r[q] = IF q \in Above(p) /\ c[q] = Dir /\ \A s \in Below(q) : c[s] = None
                                THEN None ELSE c[q]
    BY DEF DropEmpty
  <1>3. r \in WorkTrees
    BY <1>1 DEF DropEmpty, WorkTrees, WorkValues
  <1> HIDE DEF r
  <1>4. {p} \cup Below(p) \subseteq Paths /\ Above(p) \subseteq Paths
    BY PathFacts
  <1>5. \A q \in {p} \cup Below(p) : r[q] = None
    BY <1>1, <1>2, <1>4
  <1>6. \A q \in Paths : r[q] \in {t[q], None}
    BY <1>1, <1>2
  <1>7. \A q \in Paths : q \notin {p} \cup Below(p) /\ q \notin Above(p) => r[q] = t[q]
    BY <1>1, <1>2
  <1>8. ASSUME NEW a \in Above(p)
        PROVE  \/ r[a] = t[a]
               \/ t[a] = Dir /\ r[a] = None /\ \A q \in Below(a) : r[q] = None
    <2>1. a \in Paths /\ a \notin {p} \cup Below(p) /\ c[a] = t[a]
      BY <1>1, <1>4, PathFacts
    <2>2. CASE c[a] = Dir /\ \A s \in Below(a) : c[s] = None
      <3>1. \A q \in Below(a) : q \in Paths /\ r[q] \in {c[q], None}
        BY <1>2, <2>1, PathFacts
      <3> QED BY <1>2, <2>1, <2>2, <3>1
    <2>3. CASE ~(c[a] = Dir /\ \A s \in Below(a) : c[s] = None)
      BY <1>2, <2>1, <2>3
    <2> QED BY <2>2, <2>3
  <1> QED BY <1>3, <1>5, <1>6, <1>7, <1>8 DEF r, c

\* The tree of HEAD is a consistent snapshot, or empty.
LEMMA HeadTreeFacts ==
    ASSUME TypeInv, SnapInv
    PROVE  HeadTree \in Trees /\ Consistent(HeadTree)
  BY DEF TypeInv, SnapInv, IsSnapshot, HeadTree, Trees, Consistent

-----------------------------------------------------------------------------
(* The user                                                                *)

\* Nothing is tracked, edited or under way at first.
LEMMA InitIInv == Init => IInv
  <1> SUFFICES ASSUME Init PROVE IInv
    OBVIOUS
  <1>1. PICK s \in [Packed -> Snapshots] :
            snap = [t \in Tags |-> IF t \in Packed THEN s[t] ELSE None]
    BY DEF Init
  <1>2. \A t \in Packed : s[t] \in Trees /\ Consistent(s[t])
    BY CheckoutAssumption DEF Trees
  <1>3. snap \in [Tags -> Trees \cup {None}]
    BY <1>1, <1>2 DEF Tags
  <1>4. TypeInv
    BY <1>3 DEF TypeInv, Init, WorkTrees, WorkValues, NoJob
  <1>5. SnapInv
    BY <1>1, <1>2 DEF SnapInv, Init, NoJob, IsSnapshot, Tags
  <1>6. TreeInv /\ OutsideUntouched /\ CheckoutCorrect
    BY DEF Init, TreeInv, OutsideUntouched, CheckoutCorrect, HoldsHead, Content, HeadTree
  <1> QED BY <1>4, <1>5, <1>6 DEF IInv, Init, Idle, NoJob, IdleInv

\* Edits between commands keep the invariant.
LEMMA EditIInv ==
    ASSUME IInv, NEW p \in Paths, NEW content \in {UserData} \cup Links, Edit(p, content)
    PROVE  IInv'
  <1> USE DEF IInv
  <1>1. /\ Idle /\ tree' = Put(tree, p, content)
        /\ tree[p] # Dir /\ \A a \in Above(p) : tree[a] \in {None, Dir}
        /\ newer' = newer \cup {p} /\ unsaved' \subseteq unsaved \cup {p} /\ foreign' = foreign \cup {p}
        /\ UNCHANGED <<snap, where, head, headAt, packHead, job, outside, mixed>>
    BY DEF Edit
  <1>2. content \in WorkValues /\ content \notin {Dir, None} /\ tree \in WorkTrees
    BY CheckoutAssumption DEF WorkValues, TypeInv
  <1>3. /\ tree' \in WorkTrees /\ tree'[p] = content
        /\ \A a \in Above(p) : tree'[a] = Dir
        /\ \A q \in Paths : q # p /\ q \notin Above(p) => tree'[q] = tree[q]
    BY <1>1, <1>2, PutFacts
  <1>4. TypeInv' /\ SnapInv'
    BY <1>1, <1>3 DEF TypeInv, SnapInv, IsSnapshot
  <1>5. TreeInv'
    <2>1. ASSUME NEW q \in Paths, tree'[q] # None, NEW a \in Above(q)
          PROVE  tree'[a] = Dir
      <3>1. a \in Paths /\ Above(a) = {}
        BY PathFacts
      <3>2. CASE q = p
        BY <1>3, <3>2
      <3>3. CASE q \in Above(p)
        BY <3>3, PathFacts
      <3>4. CASE q # p /\ q \notin Above(p)
        <4>1. tree[a] = Dir
          BY <1>3, <2>1, <3>4 DEF TreeInv
        <4> QED BY <1>1, <1>3, <3>1, <4>1
      <3> QED BY <3>2, <3>3, <3>4
    <2>2. ASSUME NEW q \in unsaved' PROVE tree'[q] \notin {None, Dir}
      <3>1. CASE q = p
        BY <1>2, <1>3, <3>1
      <3>2. CASE q # p
        <4>1. q \in unsaved /\ q \in Paths /\ tree[q] \notin {None, Dir}
          BY <1>1, <2>2, <3>2 DEF TypeInv, TreeInv
        <4> QED BY <1>1, <1>3, <3>2, <4>1
      <3> QED BY <3>1, <3>2
    <2> QED BY <2>1, <2>2 DEF TreeInv
  <1>6. CheckoutCorrect'
    <2>1. HeadTree' = HeadTree
      BY <1>1 DEF HeadTree
    <2>2. \A q \in Paths \ foreign' : Content(q)' = Content(q)
      BY <1>1, <1>3 DEF Content
    <2> QED BY <1>1, <2>1, <2>2 DEF CheckoutCorrect, HoldsHead, Idle
  <1> QED BY <1>1, <1>4, <1>5, <1>6 DEF OutsideUntouched, Idle, IdleInv

\* A removal, which may take the emptied directory with it.
LEMMA DeleteIInv ==
    ASSUME IInv, NEW p \in Paths, Delete(p)
    PROVE  IInv'
  <1> USE DEF IInv
  <1>1. /\ Idle /\ tree' = Cut(tree, p)
        /\ newer' \subseteq newer /\ unsaved' = unsaved \ ({p} \cup Below(p))
        /\ foreign' = foreign \cup {p} \cup Below(p)
        /\ UNCHANGED <<snap, where, head, headAt, packHead, job, outside, mixed>>
    BY DEF Delete
  <1>2. /\ tree' \in WorkTrees /\ \A q \in {p} \cup Below(p) : tree'[q] = None
        /\ \A q \in Paths : q \notin {p} \cup Below(p) => tree'[q] = tree[q]
    BY <1>1, CutFacts DEF TypeInv
  <1>3. TypeInv' /\ SnapInv'
    BY <1>1, <1>2, PathFacts DEF TypeInv, SnapInv, IsSnapshot
  <1>4. TreeInv'
    <2>1. ASSUME NEW q \in Paths, tree'[q] # None, NEW a \in Above(q)
          PROVE  tree'[a] = Dir
      <3>1. q \notin {p} \cup Below(p) /\ tree[a] = Dir
        BY <1>2, <2>1 DEF TreeInv
      <3>2. a \in Paths /\ q \in Below(a) /\ Above(a) = {}
        BY PathFacts
      <3>3. a \notin {p} \cup Below(p)
        BY <3>1, <3>2, PathFacts
      <3> QED BY <1>2, <3>1, <3>2, <3>3
    <2>2. ASSUME NEW q \in unsaved' PROVE tree'[q] \notin {None, Dir}
      BY <1>1, <1>2, <2>2 DEF TypeInv, TreeInv
    <2> QED BY <2>1, <2>2 DEF TreeInv
  <1>5. CheckoutCorrect'
    <2>1. HeadTree' = HeadTree
      BY <1>1 DEF HeadTree
    <2>2. \A q \in Paths \ foreign' : Content(q)' = Content(q)
      BY <1>1, <1>2 DEF Content
    <2> QED BY <1>1, <2>1, <2>2 DEF CheckoutCorrect, HoldsHead, Idle
  <1> QED BY <1>1, <1>3, <1>4, <1>5 DEF OutsideUntouched, Idle, IdleInv

-----------------------------------------------------------------------------
(* extract                                                                 *)

\* The checks establish what the changes rely on.
LEMMA BeginIInv ==
    ASSUME IInv, NEW t \in Tags, NEW at \in {"loose", "pack"}, NEW force \in BOOLEAN,
           NEW reset \in BOOLEAN, ExtractBegin(t, at, force, reset)
    PROVE  IInv'
  <1> USE DEF IInv
  <1> DEFINE new == NewEntries(t, reset)
             old == OldEntries(t, reset)
             gone == old \ new
             T == snap[t]
             H == HeadTree
  <1>1. /\ Idle /\ at \in where[t]
        /\ NoLinkAbove(new \cup old, gone)
        /\ ~force => /\ \A p \in old : Unchanged(p)
                     /\ NoCollision(new, Tracked(force, reset), gone)
        /\ job' = [tag |-> t, at |-> at, force |-> force, reset |-> reset,
                   new |-> new, gone |-> gone, base |-> Entries(H)]
        /\ foreign' = IF reset THEN foreign \cup (Entries(tree) \ Entries(T)) ELSE foreign
        /\ UNCHANGED <<snap, where, tree, newer, head, headAt, packHead, outside, unsaved, mixed>>
    BY DEF ExtractBegin
  <1>2. /\ T \in Trees /\ Consistent(T) /\ H \in Trees /\ Consistent(H)
    BY <1>1, HeadTreeFacts DEF SnapInv, IsSnapshot
  <1>3. /\ job'.tag = t /\ job'.at = at /\ job'.force = force /\ job'.reset = reset
        /\ job'.new = new /\ job'.gone = gone /\ job'.base = Entries(H)
    BY <1>1
  <1>4. None # Dir /\ None # UserData /\ Dir # UserData /\ None \notin Values /\ Dir \notin Values
        /\ t # None /\ Links \subseteq Values
    BY CheckoutAssumption
  <1>5. \A p \in Paths : /\ p \in Entries(T) <=> T[p] # None
                         /\ p \in Entries(H) <=> H[p] # None
    BY <1>2, <1>4 DEF Entries, Trees
  <1>6. /\ reset => new = Entries(T) /\ old = {} /\ gone = {}
        /\ ~reset => /\ new = {p \in Entries(T) : H[p] # T[p]}
                     /\ old = {p \in Entries(H) : T[p] # H[p]}
        /\ new \subseteq Entries(T) /\ old \subseteq Entries(H)
    BY DEF NewEntries, OldEntries, Diff
  <1>7. Entries(T) \subseteq Paths /\ Entries(H) \subseteq Paths /\ Entries(tree) \subseteq Paths
    BY DEF Entries
  <1> HIDE DEF new, old, T, H
  <1>8. new \subseteq Paths /\ old \subseteq Paths /\ gone \subseteq old
    BY <1>6, <1>7
  <1>9. job' \in [tag : Tags \cup {None}, at : {"loose", "pack"}, force : BOOLEAN, reset : BOOLEAN,
                  gone : SUBSET Paths, new : SUBSET Paths, base : SUBSET Paths]
    BY <1>1, <1>7, <1>8
  <1>10. TypeInv'
    BY <1>1, <1>7, <1>9 DEF TypeInv
  <1>11. SnapInv' /\ TreeInv' /\ OutsideUntouched'
    BY <1>1, <1>2, <1>3 DEF SnapInv, IsSnapshot, TreeInv, OutsideUntouched, T
  <1>12. \A p \in gone : T[p] = None /\ H[p] # None /\ ~reset
    BY <1>5, <1>6, <1>7
  <1>13. \A p \in new : T[p] # None
    BY <1>5, <1>6, <1>7
  \* In both trees nothing is above or below an entry.
  <1>14. \A p \in Paths : \A a \in Above(p) : T[p] # None => T[a] = None
    BY <1>2 DEF Consistent
  <1>15. \A p \in Paths : \A a \in Above(p) : H[p] # None => H[a] = None
    BY <1>2 DEF Consistent
  <1>16. \A p \in Paths : \A q \in Below(p) : q \in Paths /\ p \in Above(q) /\ Below(q) = {}
    BY PathFacts
  <1>17. GoneInv'
    <2>1. ASSUME NEW p \in gone, NEW q \in Below(p)
          PROVE  T[q] = None \/ q \in new
      <3>1. H[q] = None /\ q \in Paths
        BY <1>8, <1>12, <1>15, <1>16
      <3> QED BY <1>5, <1>6, <1>12, <3>1
    <2>2. job'.tag = t /\ snap'[t] = T
      BY <1>1, <1>3 DEF T
    <2> QED BY <1>1, <1>3, <1>6, <1>12, <2>1, <2>2 DEF GoneInv, Entries
  <1>18. LinkInv'
    <2>1. ASSUME NEW p \in gone, NEW a \in Above(p) PROVE tree[a] \notin Links
      <3>1. a \notin gone
        BY <1>8, <1>12, <1>15
      <3> QED BY <1>1, <1>8, <3>1 DEF NoLinkAbove
    <2>2. ASSUME NEW p \in new, NEW a \in Above(p) PROVE a \in gone \/ tree[a] \notin Links
      BY <1>1 DEF NoLinkAbove
    <2> QED BY <1>1, <1>3, <2>1, <2>2 DEF LinkInv
  <1>19. RestoreInv'
    <2>1. ASSUME reset \/ ~mixed, NEW p \in Paths \ foreign'
          PROVE  p \in gone \cup new \/ Content(p) = T[p]
      <3>1. CASE reset
        BY <1>1, <1>5, <1>6, <2>1, <3>1 DEF Content, Entries
      <3>2. CASE ~reset
        <4>1. Content(p) = H[p]
          BY <1>1, <2>1, <3>2 DEF CheckoutCorrect, HoldsHead, H
        <4> QED BY <1>5, <1>6, <3>2, <4>1
      <3> QED BY <3>1, <3>2
    <2>2. job'.tag = t /\ snap'[t] = T /\ \A p \in Paths : Content(p)' = Content(p)
      BY <1>1, <1>3 DEF T, Content
    <2> QED BY <1>1, <1>3, <2>1, <2>2 DEF RestoreInv
  \* An old entry that is unchanged is a file or a link: nothing is below it.
  <1>20. ASSUME ~force, NEW p \in old
         PROVE  /\ p \notin newer /\ tree[p] \notin {None, Dir}
                /\ \A a \in Above(p) : tree[a] = Dir
                /\ \A q \in Below(p) : tree[q] = None
    <2>1. Unchanged(p)
      BY <1>1, <1>20
    <2>2. p \in Paths /\ p \notin newer /\ tree[p] \notin {None, Dir}
      BY <1>4, <1>8, <2>1 DEF Unchanged
    <2>3. \A a \in Above(p) : tree[a] = Dir
      BY <2>2 DEF TreeInv
    <2>4. \A q \in Below(p) : tree[q] = None
      BY <1>16, <2>2 DEF TreeInv
    <2> QED BY <2>2, <2>3, <2>4
  <1>21. ASSUME ~force, NEW p \in new
         PROVE  \/ tree[p] = None /\ Below(p) = {}
                \/ \A q \in {p} \cup Below(p) : Owned(q, Entries(H))
    <2>1. CASE Above(p) \cap gone # {}
      <3>1. PICK a \in Above(p) : a \in gone
        BY <2>1
      <3>2. tree[a] # Dir /\ Below(p) = {}
        BY <1>8, <1>20, <1>21, <3>1, PathFacts
      <3> QED BY <1>8, <3>1, <3>2 DEF TreeInv
    <2>2. CASE Above(p) \cap gone = {}
      BY <1>1, <1>21, <2>2 DEF NoCollision, Tracked, H
    <2> QED BY <2>1, <2>2
  <1>22. KeepInv'
    <2>1. ASSUME ~force, NEW p \in gone \cup new, p \in unsaved
          PROVE  p \in Entries(H) /\ (reset \/ p \notin newer)
      <3>1. tree[p] \notin {None, Dir} /\ p \in Paths
        BY <1>8, <2>1 DEF TreeInv
      <3>2. CASE p \in gone
        BY <1>6, <1>8, <1>20, <2>1, <3>2
      <3>3. CASE p \in new
        <4>1. p \in Entries(H)
          BY <1>21, <2>1, <3>1, <3>3 DEF Owned
        <4>2. ~reset => p \in old
          BY <1>6, <3>3, <4>1
        <4> QED BY <1>20, <2>1, <4>1, <4>2
      <3> QED BY <2>1, <3>2, <3>3
    <2>2. ASSUME ~force PROVE \A p \in gone : \A q \in Below(p) : tree[q] = None
      BY <1>8, <1>20, <2>2
    <2> QED BY <1>1, <1>3, <2>1, <2>2 DEF KeepInv
  <1>23. SufficeInv'
    <2>1. ASSUME ~force, NEW p \in gone PROVE \A a \in Above(p) : tree[a] \in {None, Dir}
      BY <1>8, <1>20, <2>1
    <2>2. ASSUME ~force, ~reset, NEW p \in new, NEW a \in Above(p)
          PROVE  a \in gone \/ a \notin Entries(H)
      <3>1. T[a] = None /\ a \in Paths
        BY <1>8, <1>13, <1>14, PathFacts
      <3> QED BY <1>5, <1>6, <1>13, <2>2, <3>1
    <2>3. ASSUME ~force, ~reset, NEW p \in new, NEW q \in Below(p)
          PROVE  tree[q] = None \/ q \in gone
      <3>1. T[q] = None /\ q \in Paths /\ Below(q) = {}
        BY <1>8, <1>13, <1>14, <1>16
      <3>2. tree[q] = None \/ q \in Entries(H)
        BY <1>21, <2>3, <3>1 DEF Owned
      <3> QED BY <1>5, <1>6, <1>13, <2>3, <3>1, <3>2
    <2> QED BY <1>1, <1>3, <2>1, <2>2, <2>3 DEF SufficeInv
  <1> QED BY <1>3, <1>4, <1>10, <1>11, <1>17, <1>18, <1>19, <1>22, <1>23
          DEF Idle, CheckoutCorrect, JobInv, IdleInv

\* A removal: the path and what is below it are gone, and belong to what is done or
\* to what is still to be written.
LEMMA RemoveIInv ==
    ASSUME IInv, NEW p \in Paths, ExtractRemove(p)
    PROVE  IInv'
  <1> USE DEF IInv
  <1> DEFINE T == snap[job.tag]
             gone == job.gone
             new == job.new
  <1>1. /\ p \in gone /\ job' = [job EXCEPT !.gone = gone \ {p}]
        /\ UNCHANGED <<snap, where, head, headAt, packHead, mixed>>
    BY DEF ExtractRemove
  <1>2. ~Idle /\ JobInv /\ job.tag \in Tags
    BY <1>1 DEF IdleInv, Idle, TypeInv
  <1>3. /\ job'.tag = job.tag /\ job'.force = job.force /\ job'.reset = job.reset
        /\ job'.base = job.base /\ job'.new = new /\ job'.gone = gone \ {p}
        /\ job' \in [tag : Tags \cup {None}, at : {"loose", "pack"}, force : BOOLEAN,
                     reset : BOOLEAN, gone : SUBSET Paths, new : SUBSET Paths, base : SUBSET Paths]
    BY <1>1 DEF TypeInv
  <1>4. ~ThroughLink(p)
    BY <1>1, <1>2 DEF JobInv, LinkInv, ThroughLink
  <1>5. /\ tree' = DropEmpty(Cut(tree, p), p)
        /\ newer' = newer \ ({p} \cup Below(p))
        /\ unsaved' = unsaved \ ({p} \cup Below(p))
        /\ foreign' = foreign \ ({p} \cup Below(p))
        /\ outside' = outside
    BY <1>4 DEF ExtractRemove
  <1>6. /\ tree' \in WorkTrees
        /\ \A q \in {p} \cup Below(p) : tree'[q] = None
        /\ \A q \in Paths : tree'[q] \in {tree[q], None}
        /\ \A q \in Paths : q \notin {p} \cup Below(p) /\ q \notin Above(p) => tree'[q] = tree[q]
        /\ \A a \in Above(p) : \/ tree'[a] = tree[a]
                               \/ /\ tree[a] = Dir /\ tree'[a] = None
                                  /\ \A q \in Below(a) : tree'[q] = None
    BY <1>5, RemoveFacts DEF TypeInv
  <1>7. /\ None # Dir /\ None # UserData /\ None \notin Links /\ Dir \notin Links
    BY CheckoutAssumption
  <1>8. /\ gone \subseteq Paths /\ new \subseteq Paths /\ unsaved \subseteq Paths
        /\ \A q \in Paths : Above(q) \subseteq Paths /\ Below(q) \subseteq Paths
    BY PathFacts DEF TypeInv
  <1> HIDE DEF T, gone, new
  <1>9. TypeInv' /\ SnapInv' /\ OutsideUntouched'
    BY <1>1, <1>3, <1>5, <1>6 DEF TypeInv, SnapInv, IsSnapshot, OutsideUntouched
  <1>10. TreeInv'
    <2>1. ASSUME NEW q \in Paths, tree'[q] # None, NEW a \in Above(q)
          PROVE  tree'[a] = Dir
      <3>1. tree[q] # None /\ a \in Paths /\ q \in Below(a) /\ tree[a] = Dir
        BY <1>6, <1>8, <2>1, PathFacts DEF TreeInv
      <3>2. a \notin {p} \cup Below(p)
        <4>1. CASE a = p
          BY <1>6, <2>1, <3>1, <4>1
        <4>2. CASE a \in Below(p)
          BY <3>1, <4>2, PathFacts
        <4> QED BY <4>1, <4>2
      <3>3. CASE a \in Above(p)
        BY <1>6, <2>1, <3>1, <3>3
      <3>4. CASE a \notin Above(p)
        BY <1>6, <3>1, <3>2, <3>4
      <3> QED BY <3>3, <3>4
    <2>2. ASSUME NEW q \in unsaved' PROVE tree'[q] \notin {None, Dir}
      <3>1. q \in unsaved /\ q \notin {p} \cup Below(p) /\ tree[q] \notin {None, Dir} /\ q \in Paths
        BY <1>5, <1>8, <2>2 DEF TreeInv
      <3> QED BY <1>6, <3>1
    <2> QED BY <2>1, <2>2 DEF TreeInv
  <1>11. GoneInv'
    BY <1>1, <1>2, <1>3 DEF JobInv, GoneInv, Entries, gone, new
  <1>12. \A q \in Paths : tree[q] \notin Links => tree'[q] \notin Links
    BY <1>6, <1>7
  <1>13. LinkInv'
    <2>1. ASSUME NEW q \in job'.gone, NEW a \in Above(q) PROVE tree'[a] \notin Links
      BY <1>2, <1>3, <1>8, <1>12, <2>1 DEF JobInv, LinkInv, gone
    <2>2. ASSUME NEW q \in job'.new, NEW a \in Above(q)
          PROVE  a \in job'.gone \/ tree'[a] \notin Links
      <3>1. a \in Paths /\ (a \in gone \/ tree[a] \notin Links)
        BY <1>2, <1>3, <1>8, <2>2 DEF JobInv, LinkInv, gone, new
      <3> QED BY <1>3, <1>6, <1>7, <1>12, <3>1
    <2> QED BY <2>1, <2>2 DEF LinkInv
  <1>14. RestoreInv'
    <2>1. ASSUME job.reset \/ ~mixed, NEW q \in Paths \ foreign'
          PROVE  q \in (gone \ {p}) \cup new \/ Content(q)' = T[q]
      <3>1. CASE q \in {p} \cup Below(p)
        <4>1. Content(q)' = None
          BY <1>6, <1>7, <3>1 DEF Content
        <4>2. T[q] = None \/ q \in new
          BY <1>1, <1>2, <3>1 DEF JobInv, GoneInv, T, gone, new
        <4> QED BY <4>1, <4>2
      <3>2. CASE q \notin {p} \cup Below(p)
        <4>1. q \in gone \cup new \/ Content(q) = T[q]
          BY <1>2, <1>5, <2>1, <3>2 DEF JobInv, RestoreInv, T, gone, new
        <4>2. Content(q)' = Content(q)
          BY <1>6, <1>7, <2>1, <3>2 DEF Content
        <4> QED BY <3>2, <4>1, <4>2
      <3> QED BY <3>1, <3>2
    <2> QED BY <1>1, <1>3, <2>1 DEF RestoreInv, T
  <1>15. KeepInv'
    <2>1. ASSUME ~job.force, NEW q \in (gone \ {p}) \cup new, q \in unsaved'
          PROVE  q \in job.base /\ (job.reset \/ q \notin newer')
      BY <1>2, <1>5, <2>1 DEF JobInv, KeepInv, gone, new
    <2>2. ASSUME ~job.force, NEW q \in gone, NEW r \in Below(q)
          PROVE  tree'[r] = None
      BY <1>2, <1>6, <1>8, <2>2 DEF JobInv, KeepInv, gone
    <2> QED BY <1>3, <2>1, <2>2 DEF KeepInv
  <1>16. SufficeInv'
    <2>1. ASSUME ~job.force, ~job.reset, NEW q \in gone, NEW a \in Above(q)
          PROVE  tree'[a] \in {None, Dir}
      BY <1>2, <1>6, <1>8, <2>1 DEF JobInv, SufficeInv, gone
    <2>2. ASSUME ~job.force, ~job.reset, NEW q \in new, NEW a \in Above(q)
          PROVE  a \in gone \ {p} \/ tree'[a] \in {None, Dir} \/ a \notin job.base
      <3>1. a \in Paths /\ (a \in gone \/ tree[a] \in {None, Dir} \/ a \notin job.base)
        BY <1>2, <1>8, <2>2 DEF JobInv, SufficeInv, gone, new
      <3> QED BY <1>6, <3>1
    <2>3. ASSUME ~job.force, ~job.reset, NEW q \in new, NEW r \in Below(q)
          PROVE  tree'[r] = None \/ r \in gone \ {p}
      <3>1. r \in Paths /\ (r \in gone \/ tree[r] = None)
        BY <1>2, <1>8, <2>3 DEF JobInv, SufficeInv, gone, new
      <3> QED BY <1>6, <3>1
    <2> QED BY <1>3, <2>1, <2>2, <2>3 DEF SufficeInv
  <1> QED BY <1>2, <1>3, <1>9, <1>10, <1>11, <1>13, <1>14, <1>15, <1>16
          DEF Idle, CheckoutCorrect, JobInv, IdleInv

\* A write, after all removals: the path holds what the snapshot has, and the
\* directory above it, which is no entry, is there.
LEMMA WriteIInv ==
    ASSUME IInv, NEW p \in Paths, ExtractWrite(p)
    PROVE  IInv'
  <1> USE DEF IInv
  <1> DEFINE T == snap[job.tag]
             new == job.new
  <1>1. /\ job.gone = {} /\ p \in new /\ CanWrite(p) /\ job' = [job EXCEPT !.new = new \ {p}]
        /\ UNCHANGED <<snap, where, head, headAt, packHead, mixed>>
    BY DEF ExtractWrite
  <1>2. ~Idle /\ JobInv /\ job.tag \in Tags
    BY <1>1 DEF IdleInv, Idle, TypeInv
  <1>3. /\ job'.tag = job.tag /\ job'.force = job.force /\ job'.reset = job.reset
        /\ job'.base = job.base /\ job'.gone = {} /\ job'.new = new \ {p}
        /\ job' \in [tag : Tags \cup {None}, at : {"loose", "pack"}, force : BOOLEAN,
                     reset : BOOLEAN, gone : SUBSET Paths, new : SUBSET Paths, base : SUBSET Paths]
    BY <1>1 DEF TypeInv
  <1>4. ~ThroughLink(p) /\ \A a \in Above(p) : tree[a] \in {None, Dir}
    BY <1>1, <1>2 DEF JobInv, LinkInv, ThroughLink, CanWrite
  <1>5. /\ tree' = Put(tree, p, T[p])
        /\ newer' = newer \cup {p}
        /\ unsaved' = unsaved \ {p}
        /\ foreign' = foreign \ {p}
        /\ outside' = outside
    BY <1>4 DEF ExtractWrite
  <1>6. T \in Trees /\ Consistent(T) /\ new \subseteq Entries(T)
    BY <1>2 DEF SnapInv, IsSnapshot, Idle, JobInv, GoneInv
  <1>7. T[p] \in WorkValues /\ T[p] \notin {None, Dir} /\ tree \in WorkTrees
    BY <1>1, <1>6 DEF Trees, WorkValues, Entries, TypeInv
  <1>8. /\ new \subseteq Paths /\ unsaved \subseteq Paths
        /\ \A q \in Paths : Above(q) \subseteq Paths /\ Below(q) \subseteq Paths
    BY PathFacts DEF TypeInv
  <1> HIDE DEF T, new
  <1>9. /\ tree' \in WorkTrees /\ tree'[p] = T[p]
        /\ \A a \in Above(p) : tree'[a] = Dir
        /\ \A q \in Paths : q # p /\ q \notin Above(p) => tree'[q] = tree[q]
    BY <1>5, <1>7, PutFacts
  <1>10. None # Dir /\ None \notin Links /\ Dir \notin Links
    BY CheckoutAssumption
  <1>11. TypeInv' /\ SnapInv' /\ OutsideUntouched'
    BY <1>1, <1>3, <1>5, <1>9 DEF TypeInv, SnapInv, IsSnapshot, OutsideUntouched
  \* What is written is not above or below the other paths to write.
  <1>12. \A q \in new : p \notin Above(q) /\ p \notin Below(q)
    <2>1. \A q \in new : T[q] # None
      BY <1>6 DEF Entries
    <2>2. \A q \in new : p \notin Above(q)
      BY <1>1, <1>6, <1>8, <2>1 DEF Consistent
    <2>3. \A q \in new : q \notin Above(p)
      BY <1>1, <1>6, <1>8, <2>1 DEF Consistent
    <2> QED BY <1>8, <2>2, <2>3, PathFacts
  <1>13. TreeInv'
    <2>1. ASSUME NEW q \in Paths, tree'[q] # None, NEW a \in Above(q)
          PROVE  tree'[a] = Dir
      <3>1. a \in Paths /\ q \in Below(a) /\ Above(a) = {}
        BY <1>8, PathFacts
      <3>2. CASE q = p
        BY <1>9, <3>2
      <3>3. CASE q \in Above(p)
        BY <3>3, PathFacts
      <3>4. CASE q # p /\ q \notin Above(p)
        <4>1. tree[q] # None /\ tree[a] = Dir
          BY <1>9, <2>1, <3>4 DEF TreeInv
        <4>2. a # p
          BY <1>1, <3>1, <4>1 DEF CanWrite
        <4> QED BY <1>9, <3>1, <4>1, <4>2
      <3> QED BY <3>2, <3>3, <3>4
    <2>2. ASSUME NEW q \in unsaved' PROVE tree'[q] \notin {None, Dir}
      <3>1. q \in unsaved /\ q # p /\ tree[q] \notin {None, Dir} /\ q \in Paths
        BY <1>5, <1>8, <2>2 DEF TreeInv
      <3> QED BY <1>4, <1>9, <3>1
    <2> QED BY <2>1, <2>2 DEF TreeInv
  <1>14. GoneInv'
    BY <1>1, <1>3, <1>6 DEF GoneInv, T
  <1>15. LinkInv'
    <2>1. ASSUME NEW q \in new, NEW a \in Above(q) PROVE tree'[a] \notin Links
      <3>1. a \in Paths /\ tree[a] \notin Links /\ a # p
        BY <1>1, <1>2, <1>8, <1>12, <2>1 DEF JobInv, LinkInv, new
      <3> QED BY <1>9, <1>10, <3>1
    <2> QED BY <1>3, <2>1 DEF LinkInv
  <1>16. RestoreInv'
    <2>1. ASSUME job.reset \/ ~mixed, NEW q \in Paths \ foreign'
          PROVE  q \in new \ {p} \/ Content(q)' = T[q]
      <3>1. CASE q = p
        BY <1>7, <1>9, <3>1 DEF Content
      <3>2. CASE q # p
        <4>1. q \in new \/ Content(q) = T[q]
          BY <1>1, <1>2, <1>5, <2>1, <3>2 DEF JobInv, RestoreInv, T, new
        <4>2. Content(q)' = Content(q)
          BY <1>4, <1>9, <1>10, <2>1, <3>2 DEF Content
        <4> QED BY <3>2, <4>1, <4>2
      <3> QED BY <3>1, <3>2
    <2> QED BY <1>1, <1>3, <2>1 DEF RestoreInv, T
  <1>17. KeepInv'
    BY <1>1, <1>2, <1>3, <1>5 DEF JobInv, KeepInv, new
  <1>18. SufficeInv'
    <2>1. ASSUME ~job.force, ~job.reset, NEW q \in new, NEW a \in Above(q)
          PROVE  tree'[a] \in {None, Dir} \/ a \notin job.base
      <3>1. a \in Paths /\ (tree[a] \in {None, Dir} \/ a \notin job.base) /\ a # p
        BY <1>1, <1>2, <1>8, <1>12, <2>1 DEF JobInv, SufficeInv, new
      <3> QED BY <1>9, <3>1
    <2>2. ASSUME ~job.force, ~job.reset, NEW q \in new, NEW r \in Below(q)
          PROVE  tree'[r] = None
      <3>1. r \in Paths /\ tree[r] = None /\ r # p /\ Below(r) = {}
        BY <1>1, <1>2, <1>8, <1>12, <2>2, PathFacts DEF JobInv, SufficeInv, new
      <3>2. r \notin Above(p)
        BY <3>1, PathFacts
      <3> QED BY <1>9, <3>1, <3>2
    <2> QED BY <1>3, <2>1, <2>2 DEF SufficeInv
  <1> QED BY <1>2, <1>3, <1>11, <1>13, <1>14, <1>15, <1>16, <1>17, <1>18
          DEF Idle, CheckoutCorrect, JobInv, IdleInv

\* An extract ends, with HEAD at its snapshot, or stops where it is.
LEMMA EndIInv ==
    ASSUME IInv, ExtractEnd \/ ExtractStop
    PROVE  IInv'
  <1> USE DEF IInv
  <1>1. /\ ~Idle /\ JobInv /\ job.tag \in Tags /\ job' = NoJob
        /\ UNCHANGED <<snap, where, tree, packHead, outside, unsaved, foreign>>
    BY DEF ExtractEnd, ExtractStop, Idle, TypeInv
  <1>2. /\ job'.tag = None /\ job'.gone = {} /\ job'.new = {}
        /\ job' \in [tag : Tags \cup {None}, at : {"loose", "pack"}, force : BOOLEAN,
                     reset : BOOLEAN, gone : SUBSET Paths, new : SUBSET Paths, base : SUBSET Paths]
    BY <1>1 DEF NoJob
  <1>3. IdleInv' /\ Idle' /\ OutsideUntouched' /\ TreeInv'
    BY <1>1, <1>2 DEF IdleInv, Idle, OutsideUntouched, TreeInv
  <1>4. CASE ExtractEnd
    <2>1. /\ job.gone = {} /\ job.new = {} /\ head' = job.tag /\ headAt' = job.at
          /\ newer' = {} /\ mixed' = (mixed /\ ~job.reset)
      BY <1>4 DEF ExtractEnd, SetHead
    <2>2. TypeInv' /\ SnapInv'
      BY <1>1, <1>2, <2>1 DEF TypeInv, SnapInv, IsSnapshot, Idle
    <2>3. CheckoutCorrect'
      <3>1. HeadTree' = snap[job.tag]
        BY <1>1, <2>1 DEF HeadTree, Idle
      <3>2. \A p \in Paths : Content(p)' = Content(p)
        BY <1>1 DEF Content
      <3>3. ~mixed' => job.reset \/ ~mixed
        BY <2>1
      <3>4. ASSUME ~mixed', NEW p \in Paths \ foreign'
            PROVE  Content(p)' = HeadTree'[p]
        BY <1>1, <2>1, <3>1, <3>2, <3>3, <3>4 DEF JobInv, RestoreInv
      <3> QED BY <3>4 DEF CheckoutCorrect, HoldsHead
    <2> QED BY <1>3, <2>2, <2>3
  <1>5. CASE ExtractStop
    <2>1. mixed' = TRUE /\ UNCHANGED <<newer, head, headAt>>
      BY <1>5 DEF ExtractStop
    <2>2. TypeInv' /\ SnapInv'
      BY <1>1, <1>2, <2>1 DEF TypeInv, SnapInv, IsSnapshot
    <2> QED BY <1>3, <2>1, <2>2 DEF CheckoutCorrect
  <1> QED BY <1>4, <1>5

-----------------------------------------------------------------------------
(* The other commands                                                      *)

\* store: the snapshot is what the working directory holds, and it is consistent, as
\* what is below a file or a link is not listed.
LEMMA StoreIInv ==
    ASSUME IInv, NEW t \in Stored, NEW S \in SUBSET Paths, Store(t, S)
    PROVE  IInv'
  <1> USE DEF IInv
  <1> DEFINE new == [p \in Paths |-> IF p \in S THEN tree[p] ELSE None]
  <1>1. /\ Idle /\ packHead = None /\ \A p \in S : Listable(p)
        /\ snap' = [snap EXCEPT ![t] = new] /\ where' = [where EXCEPT ![t] = {"loose"}]
        /\ head' = t /\ headAt' = "loose" /\ newer' = {}
        /\ unsaved' = unsaved \ S
        /\ foreign' = (foreign \ Entries(tree)) \cup (Entries(tree) \ S)
        /\ mixed' = FALSE /\ UNCHANGED <<tree, packHead, job, outside>>
    BY DEF Store, SetHead
  <1>2. t \in Tags /\ t # None
    BY CheckoutAssumption DEF Tags
  <1>3. \A p \in S : p \in Paths /\ tree[p] \notin {None, Dir} /\ ~ThroughLink(p)
    BY <1>1 DEF Listable, Entries
  <1>4. new \in Trees
    BY <1>3 DEF Trees, TypeInv, WorkTrees, WorkValues
  <1>5. Consistent(new)
    <2> SUFFICES ASSUME NEW p \in Paths, new[p] # None, NEW a \in Above(p)
                 PROVE  new[a] = None
      BY DEF Consistent
    <2>1. p \in S /\ a \in Paths
      BY PathFacts
    <2>2. tree[a] = Dir
      BY <1>3, <2>1 DEF TreeInv
    <2>3. a \notin S
      BY <1>3, <2>2
    <2> QED BY <2>1, <2>3
  <1> HIDE DEF new
  <1>6. /\ snap' \in [Tags -> Trees \cup {None}] /\ snap'[t] = new
        /\ \A u \in Tags : u # t => snap'[u] = snap[u]
        /\ where' \in [Tags -> SUBSET {"loose", "pack"}]
        /\ \A u \in Tags : u # t => where'[u] = where[u]
    BY <1>1, <1>2, <1>4 DEF TypeInv
  <1>7. TypeInv'
    BY <1>1, <1>2, <1>6 DEF TypeInv, Entries
  <1>8. \A u \in Tags : IsSnapshot(u) => IsSnapshot(u)'
    BY <1>4, <1>5, <1>6 DEF IsSnapshot
  <1>9. IsSnapshot(t)'
    BY <1>4, <1>5, <1>6 DEF IsSnapshot
  <1>10. SnapInv'
    BY <1>1, <1>6, <1>8, <1>9 DEF SnapInv, Idle
  <1>11. TreeInv' /\ OutsideUntouched' /\ IdleInv' /\ Idle'
    BY <1>1 DEF TreeInv, OutsideUntouched, IdleInv, Idle
  <1>12. CheckoutCorrect'
    <2>1. HeadTree' = new
      BY <1>1, <1>2, <1>6 DEF HeadTree
    <2>2. ASSUME NEW p \in Paths \ foreign'
          PROVE  Content(p)' = new[p]
      <3>1. CASE p \in S
        BY <1>1, <1>3, <3>1 DEF Content, new
      <3>2. CASE p \notin S
        <4>1. p \notin Entries(tree)
          BY <1>1, <2>2, <3>2
        <4> QED BY <1>1, <2>2, <3>2, <4>1 DEF Content, Entries, new
      <3> QED BY <3>1, <3>2
    <2> QED BY <2>1, <2>2 DEF CheckoutCorrect, HoldsHead
  <1> QED BY <1>7, <1>10, <1>11, <1>12

\* pack, which may run together with an extract, and gc do not touch the working
\* directory or a snapshot.
LEMMA PackIInv ==
    ASSUME IInv, (\E S \in SUBSET Stored : Pack(S)) \/ PackHead \/ Gc
    PROVE  IInv'
  <1> USE DEF IInv
  <1>1. /\ UNCHANGED <<snap, tree, job, outside, unsaved, foreign>>
        /\ \A p \in Paths : Content(p)' = Content(p)
        /\ \A t \in Tags \cup {None} : IsSnapshot(t)' <=> IsSnapshot(t)
    BY DEF Pack, PackHead, Gc, Content, IsSnapshot
  <1>2. TreeInv' /\ OutsideUntouched' /\ IdleInv' /\ (Idle' <=> Idle)
    BY <1>1 DEF TreeInv, OutsideUntouched, IdleInv, Idle
  <1>3. newer' \subseteq newer /\ mixed' \in BOOLEAN /\ (mixed => mixed')
    BY DEF Pack, PackHead, Gc, SetHead, TypeInv
  <1>4. ~Idle => JobInv'
    <2> SUFFICES ASSUME JobInv PROVE JobInv'
      OBVIOUS
    <2>1. GoneInv' /\ LinkInv' /\ SufficeInv'
      BY <1>1 DEF JobInv, GoneInv, LinkInv, SufficeInv
    <2>2. RestoreInv'
      BY <1>1, <1>3 DEF JobInv, RestoreInv
    <2>3. KeepInv'
      BY <1>1, <1>3 DEF JobInv, KeepInv
    <2> QED BY <2>1, <2>2, <2>3 DEF JobInv
  <1>5. ASSUME NEW S \in SUBSET Stored, Pack(S)
        PROVE  TypeInv' /\ SnapInv' /\ HeadTree' = HeadTree /\ mixed' = mixed
    <2>1. /\ \A t \in S : "loose" \in where[t]
          /\ where' = [t \in Tags |-> IF t \in S THEN where[t] \cup {"pack"} ELSE where[t]]
          /\ packHead' = IF head \in S /\ headAt = "loose" THEN head ELSE None
          /\ UNCHANGED <<newer, head, headAt, mixed>>
      BY <1>5 DEF Pack
    <2>2. \A t \in Tags : where'[t] # {} => where[t] # {}
      BY <2>1
    <2>3. packHead' # None => packHead' = head
      BY <2>1
    <2>4. TypeInv'
      BY <1>1, <2>1 DEF TypeInv
    <2>5. SnapInv'
      BY <1>1, <2>1, <2>2, <2>3 DEF SnapInv, IsSnapshot
    <2> QED BY <1>1, <2>1, <2>4, <2>5 DEF HeadTree
  <1>6. CASE PackHead
    <2>1. /\ packHead # None /\ head' = packHead /\ headAt' = "pack" /\ newer' = {}
          /\ mixed' = (mixed \/ head # packHead) /\ packHead' = None /\ UNCHANGED where
      BY <1>6 DEF PackHead, SetHead
    <2>2. TypeInv'
      BY <1>1, <2>1 DEF TypeInv
    <2>3. SnapInv'
      BY <1>1, <2>1 DEF SnapInv, IsSnapshot
    <2>4. CheckoutCorrect'
      <3>1. ~mixed' => ~mixed /\ HeadTree' = HeadTree
        BY <1>1, <2>1 DEF HeadTree
      <3> QED BY <1>1, <1>2, <3>1 DEF CheckoutCorrect, HoldsHead
    <2> QED BY <1>2, <1>4, <2>2, <2>3, <2>4
  <1>7. CASE Gc
    <2>1. /\ UNCHANGED <<newer, head, headAt, packHead, mixed>>
          /\ where' = [t \in Tags |->
                         IF \E u \in Tags : "pack" \in where[u] /\ snap[u] = snap[t]
                         THEN where[t] \ {"loose"} ELSE where[t]]
      BY <1>7 DEF Gc
    <2>2. where' \in [Tags -> SUBSET {"loose", "pack"}] /\ \A t \in Tags : where'[t] \subseteq where[t]
      BY <2>1 DEF TypeInv
    <2>3. TypeInv'
      BY <1>1, <2>1, <2>2 DEF TypeInv
    <2>4. SnapInv'
      BY <1>1, <2>1, <2>2 DEF SnapInv, IsSnapshot
    <2>5. CheckoutCorrect'
      <3>1. HeadTree' = HeadTree
        BY <1>1, <2>1 DEF HeadTree
      <3> QED BY <1>1, <1>2, <2>1, <3>1 DEF CheckoutCorrect, HoldsHead
    <2> QED BY <1>2, <1>4, <2>3, <2>4, <2>5
  <1>8. CASE \E S \in SUBSET Stored : Pack(S)
    <2>1. TypeInv' /\ SnapInv' /\ HeadTree' = HeadTree /\ mixed' = mixed
      BY <1>5, <1>8
    <2> QED BY <1>1, <1>2, <1>4, <2>1 DEF CheckoutCorrect, HoldsHead
  <1> QED BY <1>6, <1>7, <1>8

-----------------------------------------------------------------------------
(* The theorems                                                            *)

\* Every step keeps the invariant.
LEMMA NextIInv == IInv /\ [Next]_vars => IInv'
  <1> SUFFICES ASSUME IInv, [Next]_vars PROVE IInv'
    OBVIOUS
  <1>1. CASE Next
    BY <1>1, EditIInv, DeleteIInv, BeginIInv, RemoveIInv, WriteIInv, EndIInv, StoreIInv, PackIInv
       DEF Next
  <1>2. CASE UNCHANGED vars
    BY <1>2 DEF vars, IInv, TypeInv, SnapInv, IsSnapshot, TreeInv, OutsideUntouched,
                CheckoutCorrect, HoldsHead, Content, HeadTree, IdleInv, Idle, JobInv, GoneInv,
                LinkInv, RestoreInv, KeepInv, SufficeInv
  <1> QED BY <1>1, <1>2

\* The invariant holds in every behaviour.
THEOREM SpecIInv == Spec => []IInv
  BY InitIInv, NextIInv, PTL DEF Spec

\* extract and the difference it applies: between commands the working directory is
\* the snapshot HEAD names on every path the user has not changed, whatever came
\* before, unless an extract was interrupted or a pack put an older HEAD back.
THEOREM CheckoutIsCorrect == Spec => []CheckoutCorrect
  BY SpecIInv, PTL DEF IInv

\* preflight_destination_ancestors and the order of removals and writes: extract
\* never reaches through a symbolic link, whoever made it.
THEOREM NeverOutside == Spec => []OutsideUntouched
  BY SpecIInv, PTL DEF IInv

\* The preflight checks are enough: an extract without --force or --reset that has
\* begun can remove and write all it has to, but for an untracked file where the
\* snapshot has a directory.
THEOREM ChecksAreEnough == Spec => []ChecksSuffice
  <1>1. IInv => ChecksSuffice
    <2> SUFFICES ASSUME IInv, ~Idle, ~job.force, ~job.reset
                 PROVE  /\ \A p \in job.gone : CanRemove(p)
                        /\ job.gone = {} => \A p \in job.new :
                              CanWrite(p) \/ \E a \in Above(p) : a \in Entries(tree) \ job.base
      BY DEF ChecksSuffice
    <2>1. SufficeInv /\ job.gone \subseteq Paths /\ job.new \subseteq Paths
      BY DEF IInv, JobInv, TypeInv
    <2>2. \A p \in job.gone : CanRemove(p)
      BY <2>1 DEF SufficeInv, CanRemove
    <2>3. ASSUME job.gone = {}, NEW p \in job.new,
                 ~\E a \in Above(p) : a \in Entries(tree) \ job.base
          PROVE  CanWrite(p)
      <3>1. \A a \in Above(p) : tree[a] \in {None, Dir}
        BY <2>1, <2>3, PathFacts DEF SufficeInv, Entries
      <3>2. \A q \in Below(p) : tree[q] = None
        BY <2>1, <2>3 DEF SufficeInv
      <3> QED BY <3>1, <3>2 DEF CanWrite
    <2> QED BY <2>2, <2>3
  <1> QED BY <1>1, SpecIInv, PTL

\* A removal or a write of an extract without --force spares what the user wrote in
\* untracked paths and, without --reset, what was written since HEAD was.
LEMMA StepSpares ==
    ASSUME IInv, [Next]_vars, ~Idle, ~job.force, NEW p \in unsaved,
           p \notin job.base \/ (~job.reset /\ p \in newer)
    PROVE  tree'[p] = tree[p]
  <1>1. /\ TypeInv /\ KeepInv /\ LinkInv /\ p \in Paths /\ tree[p] \notin {None, Dir}
        /\ job.gone \subseteq Paths /\ job.new \subseteq Paths /\ tree \in WorkTrees
    BY DEF IInv, JobInv, TypeInv, TreeInv
  <1>2. p \notin job.gone \cup job.new
    BY <1>1 DEF KeepInv
  <1>3. ASSUME NEW q \in Paths, ExtractRemove(q)
        PROVE  tree'[p] = tree[p]
    <2>1. q \in job.gone /\ p # q
      BY <1>2, <1>3 DEF ExtractRemove
    <2>2. p \notin Below(q)
      BY <1>1, <2>1 DEF KeepInv
    <2>3. tree' = tree \/ tree' = DropEmpty(Cut(tree, q), q)
      BY <1>3 DEF ExtractRemove
    <2> QED BY <1>1, <2>1, <2>2, <2>3, RemoveFacts
  <1>4. ASSUME NEW q \in Paths, ExtractWrite(q)
        PROVE  tree'[p] = tree[p]
    <2>1. q \in job.new /\ p # q /\ job.gone = {} /\ CanWrite(q)
      BY <1>2, <1>4 DEF ExtractWrite
    <2>2. p \notin Above(q)
      BY <1>1, <2>1 DEF CanWrite, LinkInv
    <2>3. tree' = tree \/ tree' = Put(tree, q, snap[job.tag][q])
      BY <1>4 DEF ExtractWrite
    <2> QED BY <1>1, <2>1, <2>2, <2>3 DEF Put
  <1>5. CASE UNCHANGED tree
    BY <1>5
  <1>6. CASE ExtractEnd \/ ExtractStop \/ PackHead \/ \E S \in SUBSET Stored : Pack(S)
    BY <1>6 DEF ExtractEnd, ExtractStop, Pack, PackHead
  <1>7. /\ ~\E q \in Paths : Delete(q) \/ \E content \in {UserData} \cup Links : Edit(q, content)
        /\ ~\E t \in Tags, at \in {"loose", "pack"}, force, reset \in BOOLEAN :
               ExtractBegin(t, at, force, reset)
        /\ ~\E t \in Stored, S \in SUBSET Paths : Store(t, S)
        /\ ~Gc
    <2>1. /\ \A q \in Paths : ~Delete(q)
          /\ \A q \in Paths, content \in {UserData} \cup Links : ~Edit(q, content)
      BY DEF Delete, Edit
    <2>2. \A t \in Tags, at \in {"loose", "pack"}, force, reset \in BOOLEAN :
             ~ExtractBegin(t, at, force, reset)
      <3> SUFFICES ASSUME NEW t \in Tags, NEW at \in {"loose", "pack"}, NEW force \in BOOLEAN,
                          NEW reset \in BOOLEAN, ExtractBegin(t, at, force, reset)
                   PROVE  Idle
        OBVIOUS
      <3> QED BY DEF ExtractBegin
    <2>3. \A t \in Stored, S \in SUBSET Paths : ~Store(t, S)
      BY DEF Store
    <2>4. ~Gc
      BY DEF Gc
    <2> QED BY <2>1, <2>2, <2>3, <2>4
  <1>8. CASE Next
    BY <1>3, <1>4, <1>6, <1>7, <1>8 DEF Next
  <1> QED BY <1>5, <1>8 DEF vars

\* preflight_untracked_collisions and check_entry_unchanged_since: an extract without
\* --force or --reset never destroys user data that it could notice.
THEOREM FreshEditsAreKept == Spec => FreshEditsKept
  <1> DEFINE A == ~Idle /\ ~job.force /\ ~job.reset =>
                     \A p \in unsaved : p \in newer \/ p \notin job.base => tree'[p] = tree[p]
  <1>1. IInv /\ [Next]_vars => [A]_vars
    BY StepSpares
  <1>2. Spec => [][A]_vars
    BY <1>1, SpecIInv, PTL DEF Spec
  <1> QED BY <1>2 DEF FreshEditsKept

\* preflight_untracked_collisions with a reset: untracked files survive it as well.
THEOREM UntrackedAreKept == Spec => UntrackedKept
  <1> DEFINE A == ~Idle /\ ~job.force => \A p \in unsaved \ job.base : tree'[p] = tree[p]
  <1>1. IInv /\ [Next]_vars => [A]_vars
    BY StepSpares
  <1>2. Spec => [][A]_vars
    BY <1>1, SpecIInv, PTL DEF Spec
  <1> QED BY <1>2 DEF UntrackedKept
=============================================================================
