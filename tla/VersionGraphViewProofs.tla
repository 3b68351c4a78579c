------------------------ MODULE VersionGraphViewProofs ------------------------
(***************************************************************************)
(* Theorems about VersionGraphView, for every set of branches and every    *)
(* number of revisions: lanes are intervals of time that do not meet, so   *)
(* circles of different branches never cover each other, and at one point  *)
(* of time there is a branch on every lane.                                *)
(***************************************************************************)
EXTENDS VersionGraphView, TLAPS, FiniteSetTheorems, NaturalsInduction, WellFoundedInduction

USE MasterAssumption, BoundsAssumption

(***************************************************************************)
(* What the server leaves.                                                 *)
(***************************************************************************)
Committed(v) == v \in Revisions /\ time[v] # NoCommit

RevisionsTyped ==
    /\ \E n \in Time : Revisions = 0..n
    /\ DOMAIN belongsTo = Revisions
    /\ DOMAIN time = Revisions
    /\ \A v \in Revisions :
          /\ parent[v] = NoRevision \/ (parent[v] \in Revisions /\ parent[v] < v)
          /\ belongsTo[v] \in Branches
          /\ time[v] \in Time \cup {NoCommit}

BranchesTyped ==
    /\ Master \in Branches
    /\ Branches \subseteq Branch \cup {Master}
    /\ DOMAIN derivedFrom = Branches \ {Master}

\* Commits follow each other in time; the revisions of a branch were committed
\* between the one it was created from and its head.
TimesFollow ==
    /\ time[0] = 0
    /\ \A b \in Branches : Committed(head[b])
    /\ \A b \in Branches \ {Master} :
          Committed(derivedFrom[b]) /\ EndTime(b) <= StartTime(b)
    /\ \A v \in Revisions : parent[v] # NoRevision =>
          /\ Committed(parent[v])
          /\ Committed(v) => time[parent[v]] <= time[v]
    /\ \A v \in Revisions : Committed(v) =>
          /\ time[v] <= StartTime(belongsTo[v])
          /\ belongsTo[v] # Master => EndTime(belongsTo[v]) <= time[v]

ServerInv == RevisionsTyped /\ BranchesTyped /\ TimesFollow

(***************************************************************************)
(* What the page has drawn so far.                                         *)
(***************************************************************************)
OnLane(b, j) == b \in DOMAIN position \ {Master} /\ position[b] = j

Lanes == 1..Len(ends)

PageTyped ==
    /\ ends \in Seq(Time)
    /\ page \in {"empty", "placing", "drawn", "broken"}
    /\ page \in {"empty", "broken"} => unplaced = {} /\ position = <<>> /\ ends = <<>>
    /\ page \in {"placing", "drawn"} => Uncommitted = {}
    /\ page = "drawn" => unplaced = {}
    /\ page \in {"placing", "drawn"} =>
          unplaced \subseteq Branches /\ DOMAIN position = Branches \ unplaced
    /\ \A b \in DOMAIN position :
          IF b = Master THEN position[b] = 0 ELSE position[b] \in Lanes

\* Heads from right to left: what is placed starts later than what is not.
HeadsInOrder ==
    \A b \in unplaced, c \in DOMAIN position : StartTime(b) <= StartTime(c)

\* The last branch of a lane ends first.
EndsAreLast ==
    /\ \A j \in Lanes : \E c : OnLane(c, j) /\ ends[j] = EndTime(c)
    /\ \A j \in Lanes : \A c : OnLane(c, j) => ends[j] <= EndTime(c)

LanesDisjoint ==
    \A j \in Lanes : \A b, c : OnLane(b, j) /\ OnLane(c, j) /\ b # c =>
        StartTime(b) < EndTime(c) \/ StartTime(c) < EndTime(b)

\* When the last lane was opened, every other was taken.
LanesWereNeeded ==
    ends # <<>> => \E t \in Time : \A j \in Lanes : \E c : OnLane(c, j) /\ Spans(c, t)

ViewInv ==
    /\ ServerInv
    /\ PageTyped
    /\ HeadsInOrder
    /\ EndsAreLast
    /\ LanesDisjoint
    /\ LanesWereNeeded

-----------------------------------------------------------------------------
LEMMA LeastNatural ==
    ASSUME NEW T, T \subseteq Nat, T # {}
    PROVE  \E x \in T : \A y \in T : x <= y
<1>1. \E x \in T : \A y \in T : ~ (<<y, x>> \in OpToRel(<, Nat))
  BY NatLessThanWellFounded, WFMin
<1>2. PICK x \in T : \A y \in T : ~ (<<y, x>> \in OpToRel(<, Nat))
  BY <1>1
<1>3. \A y \in T : ~ (y < x)
  BY <1>2 DEF OpToRel
<1> QED
  BY <1>3

\* Times and revisions are numbers.
LEMMA TimesAreNumbers ==
    ASSUME RevisionsTyped
    PROVE  /\ Revisions \subseteq Time /\ 0 \in Revisions /\ Time \subseteq Nat
           /\ \A v : Committed(v) => time[v] \in Time
<1>1. Time \subseteq Nat
  BY DEF Time
<1>2. PICK n \in Time : Revisions = 0..n
  BY DEF RevisionsTyped
<1>3. Revisions \subseteq Time /\ 0 \in Revisions
  BY <1>1, <1>2 DEF Time
<1>4. \A v : Committed(v) => time[v] \in Time
  BY DEF Committed, RevisionsTyped
<1> QED
  BY <1>1, <1>3, <1>4

\* No commit is later than the latest one.
LEMMA LatestIsLast ==
    ASSUME RevisionsTyped, TimesFollow
    PROVE  LatestTime \in Time /\ \A v \in Revisions : time[v] <= LatestTime
<1> DEFINE Bounds == {t \in Time : \A v \in Revisions : time[v] <= t}
<1>1. \A v \in Revisions : time[v] \in Time \cup {NoCommit}
  BY DEF RevisionsTyped
<1>2. MaxRevision \in Bounds /\ Bounds \subseteq Nat
  BY <1>1 DEF Time, NoCommit
<1>3. PICK t \in Bounds : \A u \in Bounds : t <= u
  BY <1>2, LeastNatural
<1>4. \E v \in Revisions : time[v] = t
  <2>1. SUFFICES ASSUME \A v \in Revisions : time[v] # t PROVE FALSE
    OBVIOUS
  <2>2. t # 0
    BY <2>1, TimesAreNumbers DEF TimesFollow
  <2>3. t - 1 \in Time /\ t \in Nat
    BY <1>3, <2>2 DEF Time
  <2>4. \A v \in Revisions : time[v] <= t - 1
    BY <1>1, <1>3, <2>1, <2>3 DEF Time, NoCommit
  <2>5. t - 1 \in Bounds
    BY <2>3, <2>4
  <2> QED
    BY <1>3, <2>3, <2>5
<1>5. t \in Time /\ \A v \in Revisions : time[v] <= t
  BY <1>3
<1> QED
  BY <1>4, <1>5 DEF LatestTime

(***************************************************************************)
(* Ancestors are computed along the parents; every ancestor was committed  *)
(* earlier.                                                                *)
(***************************************************************************)
Closed(S) == \A u \in S : parent[u] # NoRevision => parent[u] \in S

Up(v) == {a \in Revisions : \A S \in SUBSET Revisions : v \in S /\ Closed(S) => a \in S}

LEMMA UpUnfolds ==
    ASSUME RevisionsTyped, NEW v \in Revisions
    PROVE  Up(v) = {v} \cup (IF parent[v] = NoRevision THEN {} ELSE Up(parent[v]))
<1> DEFINE T == {v} \cup (IF parent[v] = NoRevision THEN {} ELSE Up(parent[v]))
<1>1. \A u \in Revisions : parent[u] # NoRevision => parent[u] \in Revisions
  BY DEF RevisionsTyped
<1>2. ASSUME NEW a \in T
      PROVE  a \in Up(v)
  <2>1. a \in Revisions
    BY DEF Up
  <2>2. ASSUME NEW S \in SUBSET Revisions, v \in S, Closed(S)
        PROVE  a \in S
    <3>1. parent[v] # NoRevision => parent[v] \in S
      BY <2>2 DEF Closed
    <3> QED
      BY <2>2, <3>1 DEF Up
  <2> QED
    BY <2>1, <2>2 DEF Up
<1>3. T \in SUBSET Revisions /\ v \in T
  BY DEF Up
<1>4. Closed(T)
  <2> SUFFICES ASSUME NEW u \in T, parent[u] # NoRevision PROVE parent[u] \in T
    BY DEF Closed
  <2>1. parent[u] \in Revisions
    BY <1>1, <1>3
  <2>2. CASE u = v
    BY <2>1, <2>2 DEF Up
  <2>3. CASE u # v
    <3>1. parent[v] # NoRevision /\ u \in Up(parent[v])
      BY <2>3
    <3>2. parent[u] \in Up(parent[v])
      BY <2>1, <3>1 DEF Up, Closed
    <3> QED
      BY <3>1, <3>2
  <2> QED
    BY <2>2, <2>3
<1> HIDE DEF T
<1>5. Up(v) \subseteq T
  BY <1>3, <1>4 DEF Up
<1>6. Up(v) = T
  BY <1>2, <1>5
<1> QED
  BY <1>6 DEF T

LEMMA AncestorsUnfold ==
    ASSUME RevisionsTyped, NEW v \in Revisions
    PROVE  Ancestors(v) = {v} \cup (IF parent[v] = NoRevision THEN {} ELSE Ancestors(parent[v]))
<1> DEFINE Solves(f) == f = [u \in Revisions |->
                               {u} \cup (IF parent[u] = NoRevision THEN {} ELSE f[parent[u]])]
           up == CHOOSE f : Solves(f)
           c == [u \in Revisions |-> Up(u)]
<1>1. \A u \in Revisions : Ancestors(u) = up[u]
  BY DEF Ancestors
<1>2. \A u \in Revisions : parent[u] # NoRevision => parent[u] \in Revisions
  BY DEF RevisionsTyped
<1>3. Solves(c)
  <2>1. ASSUME NEW u \in Revisions
        PROVE  Up(u) = {u} \cup (IF parent[u] = NoRevision THEN {} ELSE c[parent[u]])
    BY <1>2, UpUnfolds
  <2> QED
    BY <2>1
<1>4. Solves(up)
  <2> HIDE DEF Solves, c
  <2> QED
    BY <1>3
<1>5. up[v] = {v} \cup (IF parent[v] = NoRevision THEN {} ELSE up[parent[v]])
  <2> HIDE DEF up
  <2> QED
    BY <1>4
<1> HIDE DEF up
<1> QED
  BY <1>1, <1>2, <1>5

LEMMA AncestorsAreEarlier ==
    ASSUME RevisionsTyped, TimesFollow, NEW v, Committed(v), NEW a \in Ancestors(v)
    PROVE  Committed(a) /\ time[a] <= time[v]
<1> DEFINE Earlier(u) == \A x \in Ancestors(u) : Committed(x) /\ time[x] <= time[u]
           bad == {u \in Revisions : Committed(u) /\ ~ Earlier(u)}
<1>1. bad = {}
  <2> SUFFICES ASSUME bad # {} PROVE FALSE
    OBVIOUS
  <2>1. bad \subseteq Nat
    BY TimesAreNumbers
  <2>2. PICK u \in bad : \A w \in bad : u <= w
    BY <2>1, LeastNatural
  <2>3. u \in Revisions /\ Committed(u) /\ time[u] \in Nat /\ u \in Nat
    BY <2>1, <2>2, TimesAreNumbers
  <2>4. Ancestors(u) = {u} \cup (IF parent[u] = NoRevision THEN {} ELSE Ancestors(parent[u]))
    BY <2>3, AncestorsUnfold
  <2>5. CASE parent[u] = NoRevision
    BY <2>2, <2>3, <2>4, <2>5
  <2>6. CASE parent[u] # NoRevision
    <3>1. PICK w : w = parent[u]
      OBVIOUS
    <3>2. w \in Revisions /\ w < u /\ Committed(w) /\ time[w] <= time[u]
      BY <2>3, <2>6, <3>1 DEF RevisionsTyped, TimesFollow
    <3>3. w \in Nat /\ w \notin bad
      BY <2>2, <2>3, <3>2, TimesAreNumbers
    <3>4. Earlier(w)
      BY <3>2, <3>3
    <3>5. ASSUME NEW x \in Ancestors(w)
          PROVE  Committed(x) /\ time[x] <= time[u]
      <4>1. Committed(x) /\ time[x] <= time[w]
        BY <3>4
      <4>2. time[x] \in Nat /\ time[w] \in Nat
        BY <3>2, <4>1, TimesAreNumbers
      <4> QED
        BY <2>3, <3>2, <4>1, <4>2
    <3> QED
      BY <2>2, <2>3, <2>4, <2>6, <3>1, <3>5
  <2> QED
    BY <2>5, <2>6
<1> QED
  BY <1>1 DEF Committed

(***************************************************************************)
(* The steps of the server.                                                *)
(***************************************************************************)
LEMMA WriteRevisionKeepsServer ==
    ASSUME ServerInv, NEW b \in Branches, WriteRevision(b)
    PROVE  ServerInv'
<1>1. RevisionsTyped /\ BranchesTyped /\ TimesFollow
  BY DEF ServerInv
<1>2. PICK k \in Time : Revisions = 0..k
  BY <1>1 DEF RevisionsTyped
<1>3. k \in Nat /\ Cardinality(Revisions) = k + 1
  BY <1>2, FS_Interval DEF Time
<1>4. PICK n : n = k + 1
  OBVIOUS
<1>5. PICK h : h = head[b]
  OBVIOUS
<1>6. /\ n \in Time
      /\ parent' = Extended(parent, n, h)
      /\ belongsTo' = Extended(belongsTo, n, b)
      /\ time' = Extended(time, n, NoCommit)
      /\ head' = head /\ derivedFrom' = derivedFrom
  BY <1>3, <1>4, <1>5 DEF WriteRevision, Time
<1>7. n \notin Revisions /\ Revisions \cup {n} = 0..n
  BY <1>2, <1>3, <1>4
<1>8. /\ Revisions' = Revisions \cup {n}
      /\ DOMAIN belongsTo' = Revisions \cup {n} /\ DOMAIN time' = Revisions \cup {n}
      /\ parent'[n] = h /\ belongsTo'[n] = b /\ time'[n] = NoCommit
      /\ \A v \in Revisions : /\ parent'[v] = parent[v] /\ belongsTo'[v] = belongsTo[v]
                              /\ time'[v] = time[v]
  <2>1. DOMAIN parent = Revisions /\ DOMAIN belongsTo = Revisions /\ DOMAIN time = Revisions
    BY <1>1 DEF Revisions, RevisionsTyped
  <2>2. Revisions' = Revisions \cup {n}
    BY <1>6, <2>1 DEF Revisions, Extended
  <2>3. DOMAIN belongsTo' = Revisions \cup {n} /\ DOMAIN time' = Revisions \cup {n}
    BY <1>6, <2>1 DEF Extended
  <2>4. parent'[n] = h /\ belongsTo'[n] = b /\ time'[n] = NoCommit
    BY <1>6 DEF Extended
  <2>5. \A v \in Revisions : /\ parent'[v] = parent[v] /\ belongsTo'[v] = belongsTo[v]
                             /\ time'[v] = time[v]
    BY <1>6, <1>7, <2>1 DEF Extended
  <2> QED
    BY <2>2, <2>3, <2>4, <2>5
<1>9. h \in Revisions /\ Committed(h) /\ h < n
  BY <1>1, <1>2, <1>3, <1>4, <1>5 DEF TimesFollow, Committed
<1>10. Branches' = Branches
  BY <1>6 DEF Branches
<1>11. RevisionsTyped'
  <2>1. \E m \in Time : Revisions' = 0..m
    BY <1>6, <1>7, <1>8
  <2>2. ASSUME NEW v \in Revisions'
        PROVE  /\ parent'[v] = NoRevision \/ (parent'[v] \in Revisions' /\ parent'[v] < v)
               /\ belongsTo'[v] \in Branches'
               /\ time'[v] \in Time \cup {NoCommit}
    <3>1. CASE v = n
      BY <1>8, <1>9, <1>10, <3>1
    <3>2. CASE v \in Revisions
      BY <1>1, <1>8, <1>10, <3>2 DEF RevisionsTyped
    <3> QED
      BY <1>8, <3>1, <3>2
  <2> QED
    BY <1>8, <2>1, <2>2 DEF RevisionsTyped, Time
<1>12. BranchesTyped'
  BY <1>1, <1>6, <1>10 DEF BranchesTyped
<1>13. \A v : Committed(v)' <=> Committed(v)
  BY <1>7, <1>8 DEF Committed
<1>14. \A v : Committed(v) => time'[v] = time[v]
  BY <1>8 DEF Committed
<1>15. /\ \A c \in Branches : StartTime(c)' = StartTime(c)
       /\ \A c \in Branches \ {Master} : EndTime(c)' = EndTime(c)
  BY <1>1, <1>6, <1>14 DEF StartTime, EndTime, TimesFollow
<1>16. \A v \in Revisions : belongsTo[v] \in Branches
  BY <1>1 DEF RevisionsTyped
<1>17. TimesFollow'
  <2>1. time'[0] = 0
    BY <1>1, <1>8, TimesAreNumbers DEF TimesFollow
  <2>2. \A c \in Branches' : Committed(head[c])'
    BY <1>1, <1>6, <1>10, <1>13 DEF TimesFollow
  <2>3. \A c \in Branches' \ {Master} :
           Committed(derivedFrom[c])' /\ EndTime(c)' <= StartTime(c)'
    BY <1>1, <1>6, <1>10, <1>13, <1>15 DEF TimesFollow
  <2>4. ASSUME NEW v \in Revisions', parent'[v] # NoRevision
        PROVE  Committed(parent[v])' /\ (Committed(v)' => time'[parent'[v]] <= time'[v])
    <3>1. CASE v = n
      BY <1>7, <1>8, <1>9, <1>13, <3>1 DEF Committed
    <3>2. CASE v \in Revisions
      BY <1>1, <1>8, <1>13, <1>14, <2>4, <3>2 DEF TimesFollow
    <3> QED
      BY <1>8, <3>1, <3>2
  <2>5. ASSUME NEW v \in Revisions', Committed(v)'
        PROVE  /\ time'[v] <= StartTime(belongsTo[v])'
               /\ belongsTo'[v] # Master => EndTime(belongsTo[v])' <= time'[v]
    <3>1. v \in Revisions /\ Committed(v)
      BY <1>13, <2>5 DEF Committed
    <3>2. PICK c \in Branches : c = belongsTo[v]
      BY <1>16, <3>1
    <3>3. time[v] <= StartTime(c) /\ (c # Master => EndTime(c) <= time[v])
      BY <1>1, <3>1, <3>2 DEF TimesFollow
    <3>4. belongsTo'[v] = c /\ time'[v] = time[v]
      BY <1>8, <3>1, <3>2
    <3> QED
      BY <1>15, <3>3, <3>4
  <2> QED
    BY <2>1, <2>2, <2>3, <2>4, <2>5 DEF TimesFollow
<1> QED
  BY <1>11, <1>12, <1>17 DEF ServerInv

LEMMA WriteCommitKeepsServer ==
    ASSUME ServerInv, NEW v \in Revisions, NEW t \in Time, WriteCommit(v, t)
    PROVE  ServerInv'
<1>1. RevisionsTyped /\ BranchesTyped /\ TimesFollow
  BY DEF ServerInv
<1>2. PICK b \in Branches : b = belongsTo[v]
  BY <1>1 DEF RevisionsTyped
<1>3. /\ time[v] = NoCommit
      /\ time' = [time EXCEPT ![v] = t]
      /\ head' = [head EXCEPT ![b] = v]
      /\ parent' = parent /\ belongsTo' = belongsTo /\ derivedFrom' = derivedFrom
  BY <1>2 DEF WriteCommit, Uncommitted
<1>4. /\ Revisions' = Revisions /\ Branches' = Branches /\ DOMAIN time' = Revisions
      /\ time'[v] = t /\ head'[b] = v
      /\ \A u \in Revisions : u # v => time'[u] = time[u]
      /\ \A c \in Branches : c # b => head'[c] = head[c]
  BY <1>1, <1>2, <1>3 DEF Revisions, Branches, RevisionsTyped
<1>5. \A u \in Revisions : time[u] <= t
  <2>1. LatestTime \in Nat /\ t \in Nat
    BY <1>1, LatestIsLast DEF Time
  <2>2. LatestTime <= t
    BY <2>1 DEF WriteCommit
  <2>3. \A u \in Revisions : time[u] \in Int /\ time[u] <= LatestTime
    BY <1>1, LatestIsLast DEF RevisionsTyped, Time, NoCommit
  <2> QED
    BY <2>1, <2>2, <2>3
<1>6. RevisionsTyped'
  BY <1>1, <1>3, <1>4 DEF RevisionsTyped
<1>7. BranchesTyped'
  BY <1>1, <1>3, <1>4 DEF BranchesTyped
<1>8. t # NoCommit /\ t \in Nat
  BY DEF Time, NoCommit
<1>9. \A u : Committed(u)' <=> Committed(u) \/ u = v
  BY <1>3, <1>4, <1>8 DEF Committed
<1>10. \A u : Committed(u) => u \in Revisions /\ u # v /\ time'[u] = time[u] /\ time[u] <= t
  BY <1>3, <1>4, <1>5 DEF Committed
<1>11. \A c \in Branches \ {Master} : EndTime(c)' = EndTime(c) /\ EndTime(c) <= t
  BY <1>1, <1>3, <1>10 DEF EndTime, TimesFollow
<1>12. /\ \A c \in Branches : c # b => StartTime(c)' = StartTime(c)
       /\ StartTime(b)' = t
  BY <1>1, <1>4, <1>10 DEF StartTime, TimesFollow
<1>13. TimesFollow'
  <2>1. time'[0] = 0
    <3>1. 0 \in Revisions /\ v # 0
      BY <1>1, <1>3, TimesAreNumbers DEF TimesFollow, NoCommit
    <3> QED
      BY <1>1, <1>4, <3>1 DEF TimesFollow
  <2>2. ASSUME NEW c \in Branches'
        PROVE  Committed(head[c])'
    <3>1. CASE c = b
      BY <1>4, <1>9, <3>1
    <3>2. CASE c # b
      BY <1>1, <1>4, <1>9, <3>2 DEF TimesFollow
    <3> QED
      BY <3>1, <3>2
  <2>3. ASSUME NEW c \in Branches' \ {Master}
        PROVE  Committed(derivedFrom[c])' /\ EndTime(c)' <= StartTime(c)'
    <3>1. Committed(derivedFrom[c])'
      BY <1>1, <1>3, <1>4, <1>9 DEF TimesFollow
    <3>2. CASE c = b
      BY <1>4, <1>11, <1>12, <3>1, <3>2
    <3>3. CASE c # b
      BY <1>1, <1>4, <1>11, <1>12, <3>1, <3>3 DEF TimesFollow
    <3> QED
      BY <3>2, <3>3
  <2>4. ASSUME NEW u \in Revisions', parent'[u] # NoRevision
        PROVE  Committed(parent[u])' /\ (Committed(u)' => time'[parent'[u]] <= time'[u])
    <3>1. PICK w : w = parent[u]
      OBVIOUS
    <3>2. Committed(w) /\ (Committed(u) => time[w] <= time[u])
      BY <1>1, <1>3, <1>4, <2>4, <3>1 DEF TimesFollow
    <3>3. time'[w] = time[w] /\ time[w] <= t
      BY <1>10, <3>2
    <3> QED
      BY <1>3, <1>4, <1>9, <1>10, <3>1, <3>2, <3>3
  <2>5. ASSUME NEW u \in Revisions', Committed(u)'
        PROVE  /\ time'[u] <= StartTime(belongsTo[u])'
               /\ belongsTo'[u] # Master => EndTime(belongsTo[u])' <= time'[u]
    <3>1. CASE u = v
      BY <1>2, <1>3, <1>4, <1>8, <1>11, <1>12, <3>1
    <3>2. CASE u # v
      <4>1. Committed(u) /\ u \in Revisions
        BY <1>9, <2>5, <3>2 DEF Committed
      <4>2. PICK c \in Branches : c = belongsTo[u]
        BY <1>1, <4>1 DEF RevisionsTyped
      <4>3. time[u] <= StartTime(c) /\ (c # Master => EndTime(c) <= time[u])
        BY <1>1, <4>1, <4>2 DEF TimesFollow
      <4>4. time'[u] = time[u] /\ time[u] <= t
        BY <1>10, <4>1
      <4>5. time'[u] <= StartTime(c)' /\ (c # Master => EndTime(c)' <= time'[u])
        BY <1>11, <1>12, <4>2, <4>3, <4>4
      <4> QED
        BY <1>3, <4>2, <4>5
    <3> QED
      BY <3>1, <3>2
  <2> QED
    BY <2>1, <2>2, <2>3, <2>4, <2>5 DEF TimesFollow
<1> QED
  BY <1>6, <1>7, <1>13 DEF ServerInv

LEMMA CreateBranchKeepsServer ==
    ASSUME ServerInv, NEW b \in Branch, NEW v \in Revisions, CreateBranch(b, v)
    PROVE  ServerInv'
<1>1. RevisionsTyped /\ BranchesTyped /\ TimesFollow
  BY DEF ServerInv
<1>2. /\ b \notin Branches /\ Committed(v) /\ b # Master
      /\ head' = Extended(head, b, v)
      /\ derivedFrom' = Extended(derivedFrom, b, v)
      /\ parent' = parent /\ belongsTo' = belongsTo /\ time' = time
  BY DEF CreateBranch, Uncommitted, Committed
<1>3. /\ Revisions' = Revisions /\ Branches' = Branches \cup {b}
      /\ DOMAIN derivedFrom' = (DOMAIN derivedFrom) \cup {b}
      /\ head'[b] = v /\ derivedFrom'[b] = v
      /\ \A c \in Branches : head'[c] = head[c]
      /\ \A c \in Branches \ {Master} : derivedFrom'[c] = derivedFrom[c]
  <2>1. Revisions' = Revisions
    BY <1>2 DEF Revisions
  <2>2. DOMAIN head = Branches /\ DOMAIN derivedFrom = Branches \ {Master}
    BY <1>1 DEF Branches, BranchesTyped
  <2>3. Branches' = Branches \cup {b} /\ DOMAIN derivedFrom' = (DOMAIN derivedFrom) \cup {b}
    BY <1>2, <2>2 DEF Branches, Extended
  <2>4. head'[b] = v /\ derivedFrom'[b] = v
    BY <1>2 DEF Extended
  <2>5. /\ \A c \in Branches : head'[c] = head[c]
        /\ \A c \in Branches \ {Master} : derivedFrom'[c] = derivedFrom[c]
    BY <1>2, <2>2 DEF Extended
  <2> QED
    BY <2>1, <2>3, <2>4, <2>5
<1>4. RevisionsTyped'
  BY <1>1, <1>2, <1>3 DEF RevisionsTyped
<1>5. BranchesTyped'
  BY <1>1, <1>2, <1>3 DEF BranchesTyped
<1>6. \A u : Committed(u)' <=> Committed(u)
  BY <1>2, <1>3 DEF Committed
<1>7. /\ \A c \in Branches : StartTime(c)' = StartTime(c)
      /\ \A c \in Branches \ {Master} : EndTime(c)' = EndTime(c)
      /\ StartTime(b)' = time[v] /\ EndTime(b)' = time[v]
  BY <1>2, <1>3 DEF StartTime, EndTime
<1>8. time[v] \in Nat
  BY <1>1, <1>2, TimesAreNumbers
<1>9. \A u \in Revisions : belongsTo[u] \in Branches
  BY <1>1 DEF RevisionsTyped
<1>10. TimesFollow'
  <2>1. time'[0] = 0
    BY <1>1, <1>2 DEF TimesFollow
  <2>2. \A c \in Branches' : Committed(head[c])'
    BY <1>1, <1>2, <1>3, <1>6 DEF TimesFollow
  <2>3. \A c \in Branches' \ {Master} :
           Committed(derivedFrom[c])' /\ EndTime(c)' <= StartTime(c)'
    BY <1>1, <1>2, <1>3, <1>6, <1>7, <1>8 DEF TimesFollow
  <2>4. \A u \in Revisions' : parent'[u] # NoRevision =>
           Committed(parent[u])' /\ (Committed(u)' => time'[parent'[u]] <= time'[u])
    BY <1>1, <1>2, <1>3, <1>6 DEF TimesFollow
  <2>5. ASSUME NEW u \in Revisions', Committed(u)'
        PROVE  /\ time'[u] <= StartTime(belongsTo[u])'
               /\ belongsTo'[u] # Master => EndTime(belongsTo[u])' <= time'[u]
    <3>1. u \in Revisions /\ Committed(u)
      BY <1>3, <1>6, <2>5
    <3>2. PICK c \in Branches : c = belongsTo[u]
      BY <1>9, <3>1
    <3>3. time[u] <= StartTime(c) /\ (c # Master => EndTime(c) <= time[u])
      BY <1>1, <3>1, <3>2 DEF TimesFollow
    <3> QED
      BY <1>2, <1>7, <3>2, <3>3
  <2> QED
    BY <2>1, <2>2, <2>3, <2>4, <2>5 DEF TimesFollow
<1> QED
  BY <1>4, <1>5, <1>10 DEF ServerInv

LEMMA FastForwardKeepsServer ==
    ASSUME ServerInv, NEW f \in Branches, NEW b \in Branches, FastForward(f, b)
    PROVE  ServerInv'
<1>1. RevisionsTyped /\ BranchesTyped /\ TimesFollow
  BY DEF ServerInv
<1>2. PICK h : h = head[f]
  OBVIOUS
<1>3. /\ head' = [head EXCEPT ![b] = h]
      /\ head[b] \in Ancestors(h)
      /\ parent' = parent /\ belongsTo' = belongsTo /\ time' = time /\ derivedFrom' = derivedFrom
  BY <1>2 DEF FastForward
<1>4. /\ Revisions' = Revisions /\ Branches' = Branches
      /\ head'[b] = h
      /\ \A c \in Branches : c # b => head'[c] = head[c]
  BY <1>3 DEF Revisions, Branches
<1>5. Committed(h) /\ Committed(head[b])
  BY <1>1, <1>2 DEF TimesFollow
<1>6. time[head[b]] <= time[h]
  BY <1>1, <1>3, <1>5, AncestorsAreEarlier
<1>7. RevisionsTyped'
  BY <1>1, <1>3, <1>4 DEF RevisionsTyped
<1>8. BranchesTyped'
  BY <1>1, <1>3, <1>4 DEF BranchesTyped
<1>9. \A u : Committed(u)' <=> Committed(u)
  BY <1>3, <1>4 DEF Committed
<1>10. \A c \in Branches : /\ StartTime(c)' \in Nat /\ StartTime(c) \in Nat
                           /\ StartTime(c) <= StartTime(c)'
  <2>1. ASSUME NEW c \in Branches
        PROVE  StartTime(c) \in Nat /\ Committed(head[c])
    BY <1>1, TimesAreNumbers DEF TimesFollow, StartTime
  <2>2. time[h] \in Nat
    BY <1>1, <1>5, TimesAreNumbers
  <2>3. StartTime(b)' = time[h] /\ StartTime(b) <= time[h]
    BY <1>3, <1>4, <1>6 DEF StartTime
  <2>4. \A c \in Branches : c # b => StartTime(c)' = StartTime(c)
    BY <1>3, <1>4 DEF StartTime
  <2> QED
    BY <2>1, <2>2, <2>3, <2>4
<1>11. \A c : EndTime(c)' = EndTime(c)
  BY <1>3 DEF EndTime
<1>12. TimesFollow'
  <2>1. time'[0] = 0
    BY <1>1, <1>3 DEF TimesFollow
  <2>2. \A c \in Branches' : Committed(head[c])'
    BY <1>1, <1>4, <1>5, <1>9 DEF TimesFollow
  <2>3. ASSUME NEW c \in Branches' \ {Master}
        PROVE  Committed(derivedFrom[c])' /\ EndTime(c)' <= StartTime(c)'
    <3>1. Committed(derivedFrom[c]) /\ EndTime(c) <= StartTime(c)
      BY <1>1, <1>4 DEF TimesFollow
    <3>2. EndTime(c) \in Nat
      BY <1>1, <3>1, TimesAreNumbers DEF EndTime
    <3> QED
      BY <1>3, <1>4, <1>9, <1>10, <1>11, <3>1, <3>2
  <2>4. \A u \in Revisions' : parent'[u] # NoRevision =>
           Committed(parent[u])' /\ (Committed(u)' => time'[parent'[u]] <= time'[u])
    BY <1>1, <1>3, <1>4, <1>9 DEF TimesFollow
  <2>5. ASSUME NEW u \in Revisions', Committed(u)'
        PROVE  /\ time'[u] <= StartTime(belongsTo[u])'
               /\ belongsTo'[u] # Master => EndTime(belongsTo[u])' <= time'[u]
    <3>1. u \in Revisions /\ Committed(u) /\ time[u] \in Nat
      BY <1>1, <1>4, <1>9, <2>5, TimesAreNumbers
    <3>2. PICK c \in Branches : c = belongsTo[u]
      BY <1>1, <3>1 DEF RevisionsTyped
    <3>3. time[u] <= StartTime(c) /\ (c # Master => EndTime(c) <= time[u])
      BY <1>1, <3>1, <3>2 DEF TimesFollow
    <3>4. time[u] <= StartTime(c)' /\ (c # Master => EndTime(c)' <= time[u])
      BY <1>10, <1>11, <3>1, <3>2, <3>3
    <3> QED
      BY <1>3, <3>2, <3>4
  <2> QED
    BY <2>1, <2>2, <2>3, <2>4, <2>5 DEF TimesFollow
<1> QED
  BY <1>7, <1>8, <1>12 DEF ServerInv

(***************************************************************************)
(* The steps of the page.                                                  *)
(***************************************************************************)
LaneInv == PageTyped /\ HeadsInOrder /\ EndsAreLast /\ LanesDisjoint /\ LanesWereNeeded

\* A page that shows nothing.
Blank ==
    page \in {"empty", "broken"} /\ position = <<>> /\ ends = <<>> /\ unplaced = {}

LEMMA BlankPage == Blank => LaneInv
<1> SUFFICES ASSUME Blank PROVE LaneInv
  OBVIOUS
<1>1. PageTyped
  BY DEF Blank, PageTyped
<1>2. Lanes = {}
  BY DEF Blank, Lanes
<1> QED
  BY <1>1, <1>2 DEF Blank, LaneInv, HeadsInOrder, EndsAreLast, LanesDisjoint, LanesWereNeeded

\* Drawing goes by the metadata that was loaded.
LEMMA SameTimes ==
    ASSUME UNCHANGED metadata
    PROVE  /\ \A b : StartTime(b)' = StartTime(b) /\ EndTime(b)' = EndTime(b)
           /\ \A b, t : Spans(b, t)' <=> Spans(b, t)
           /\ Branches' = Branches /\ Uncommitted' = Uncommitted
BY DEF metadata, StartTime, EndTime, Spans, Branches, Uncommitted, Revisions

LEMMA BranchTimes ==
    ASSUME ServerInv, NEW b \in Branches
    PROVE  /\ StartTime(b) \in Time /\ StartTime(b) \in Nat
           /\ b # Master => EndTime(b) \in Time /\ EndTime(b) \in Nat /\ EndTime(b) <= StartTime(b)
<1>1. Committed(head[b]) /\ (b # Master => Committed(derivedFrom[b]) /\ EndTime(b) <= StartTime(b))
  BY DEF ServerInv, TimesFollow
<1> QED
  BY <1>1, TimesAreNumbers DEF ServerInv, StartTime, EndTime

\* The lanes stay when nothing is placed.
LEMMA SameLanes ==
    ASSUME UNCHANGED <<metadata, ends, position>>, unplaced' \subseteq unplaced,
           HeadsInOrder, EndsAreLast, LanesDisjoint, LanesWereNeeded
    PROVE  HeadsInOrder' /\ EndsAreLast' /\ LanesDisjoint' /\ LanesWereNeeded'
<1>1. /\ \A b : StartTime(b)' = StartTime(b) /\ EndTime(b)' = EndTime(b)
      /\ \A b, t : Spans(b, t)' <=> Spans(b, t)
  BY SameTimes
<1>2. /\ Lanes' = Lanes /\ ends' = ends
      /\ \A b, j : OnLane(b, j)' <=> OnLane(b, j)
  BY DEF Lanes, OnLane
<1>3. HeadsInOrder'
  BY <1>1 DEF HeadsInOrder
<1>4. EndsAreLast'
  BY <1>1, <1>2 DEF EndsAreLast
<1>5. LanesDisjoint'
  BY <1>1, <1>2 DEF LanesDisjoint
<1>6. LanesWereNeeded'
  BY <1>1, <1>2 DEF LanesWereNeeded
<1> QED
  BY <1>3, <1>4, <1>5, <1>6

LEMMA LoadKeepsLanes == ASSUME LaneInv, Load PROVE LaneInv'
<1>1. /\ page = "empty" /\ UNCHANGED <<metadata, ends, position>>
      /\ position = <<>> /\ ends = <<>>
  BY DEF LaneInv, PageTyped, Load
<1>2. DOMAIN position = {} /\ ends \in Seq(Time)
  BY <1>1 DEF LaneInv, PageTyped
<1>3. Branches' = Branches /\ Uncommitted' = Uncommitted
  BY <1>1, SameTimes
<1>4. PageTyped'
  BY <1>1, <1>2, <1>3 DEF PageTyped, Load
<1>5. HeadsInOrder' /\ Lanes' = {}
  BY <1>1, <1>2 DEF HeadsInOrder, Lanes
<1> QED
  BY <1>1, <1>4, <1>5 DEF LaneInv, EndsAreLast, LanesDisjoint, LanesWereNeeded

LEMMA DrawKeepsLanes == ASSUME LaneInv, Draw PROVE LaneInv'
<1>1. UNCHANGED <<metadata, unplaced, ends, position>> /\ page = "placing" /\ page' = "drawn"
      /\ unplaced = {}
  BY DEF Draw
<1>2. Branches' = Branches /\ Uncommitted' = Uncommitted
  BY <1>1, SameTimes
<1>3. PageTyped'
  BY <1>1, <1>2 DEF LaneInv, PageTyped, Lanes
<1> QED
  BY <1>1, <1>3, SameLanes DEF LaneInv

LEMMA ReloadKeepsLanes == ASSUME Reload PROVE LaneInv'
<1>1. Blank'
  BY DEF Reload, Blank
<1>2. Blank' => LaneInv'
  BY BlankPage, PTL
<1> QED
  BY <1>1, <1>2

\* The master has the lane above all others.
LEMMA PlaceMasterKeepsLanes == ASSUME ServerInv, LaneInv, PlaceMaster PROVE LaneInv'
<1>1. /\ page = "placing" /\ Master \in unplaced /\ IsFirst(Master)
      /\ unplaced' = unplaced \ {Master}
      /\ position' = Extended(position, Master, 0)
      /\ UNCHANGED <<metadata, page, ends>>
  BY DEF PlaceMaster
<1>2. /\ \A b : StartTime(b)' = StartTime(b) /\ EndTime(b)' = EndTime(b)
      /\ \A b, t : Spans(b, t)' <=> Spans(b, t)
      /\ Branches' = Branches /\ Uncommitted' = Uncommitted
  BY <1>1, SameTimes
<1>3. /\ DOMAIN position' = (DOMAIN position) \cup {Master}
      /\ position'[Master] = 0
      /\ \A b \in (DOMAIN position) \ {Master} : position'[b] = position[b]
  BY <1>1 DEF Extended
<1>4. Lanes' = Lanes /\ \A b, j : OnLane(b, j)' <=> OnLane(b, j)
  BY <1>1, <1>3 DEF Lanes, OnLane
<1>5. unplaced \subseteq Branches /\ DOMAIN position = Branches \ unplaced
  BY <1>1 DEF LaneInv, PageTyped
<1>6. PageTyped'
  BY <1>1, <1>2, <1>3, <1>4, <1>5 DEF LaneInv, PageTyped
<1>7. HeadsInOrder'
  BY <1>1, <1>2, <1>3 DEF LaneInv, HeadsInOrder, IsFirst
<1>8. EndsAreLast'
  BY <1>1, <1>2, <1>4 DEF LaneInv, EndsAreLast
<1>9. LanesDisjoint'
  BY <1>2, <1>4 DEF LaneInv, LanesDisjoint
<1>10. LanesWereNeeded'
  BY <1>1, <1>2, <1>4 DEF LaneInv, LanesWereNeeded
<1> QED
  BY <1>6, <1>7, <1>8, <1>9, <1>10 DEF LaneInv

\* Another branch has the first lane where it ends before all that is there.
LEMMA PlaceBranchKeepsLanes ==
    ASSUME ServerInv, LaneInv, NEW b \in Branch, PlaceBranch(b)
    PROVE  LaneInv'
<1>1. PICK j \in FirstFree(b) :
         /\ ends' = [i \in 1..(IF j > Len(ends) THEN j ELSE Len(ends)) |->
                        IF i = j THEN EndTime(b) ELSE ends[i]]
         /\ position' = Extended(position, b, j)
  BY DEF PlaceBranch
<1>2. /\ page = "placing" /\ b \in unplaced \ {Master} /\ IsFirst(b)
      /\ unplaced' = unplaced \ {b}
      /\ UNCHANGED <<metadata, page>>
  BY DEF PlaceBranch
<1>3. /\ \A c : StartTime(c)' = StartTime(c) /\ EndTime(c)' = EndTime(c)
      /\ \A c, t : Spans(c, t)' <=> Spans(c, t)
      /\ Branches' = Branches /\ Uncommitted' = Uncommitted
  BY <1>2, SameTimes
<1>4. /\ unplaced \subseteq Branches /\ DOMAIN position = Branches \ unplaced
      /\ ends \in Seq(Time)
      /\ \A c \in DOMAIN position \ {Master} : position[c] \in Lanes
      /\ Master \in DOMAIN position => position[Master] = 0
  BY <1>2 DEF LaneInv, PageTyped
<1>5. PICK L \in Nat : L = Len(ends)
  BY <1>4
<1>6. Lanes = 1..L /\ \A i \in Lanes : ends[i] \in Time /\ ends[i] \in Nat
  BY <1>4, <1>5 DEF Lanes, Time
<1>7. PICK e \in Time : e = EndTime(b)
  BY <1>2, <1>4, BranchTimes
<1>8. PICK s \in Time : s = StartTime(b) /\ s \in Nat /\ e \in Nat /\ e <= s
  BY <1>2, <1>4, <1>7, BranchTimes
<1>9. \/ j \in Lanes /\ s < ends[j]
      \/ j = L + 1 /\ \A i \in Lanes : ends[i] <= s
  <2> DEFINE free == {i \in 1..L : s < ends[i]} \cup {L + 1}
  <2>1. {i \in 1..Len(ends) : Fits(b, i)} \cup {Len(ends) + 1} = free
    BY <1>5, <1>8 DEF Fits
  <2>2. j \in free /\ \A i \in free : j <= i
    BY <1>1, <2>1 DEF FirstFree
  <2>3. CASE j \in Lanes
    BY <1>6, <2>2, <2>3
  <2>4. CASE j \notin Lanes
    <3>1. j = L + 1
      BY <1>6, <2>2, <2>4
    <3>2. \A i \in Lanes : ~ (s < ends[i])
      BY <1>6, <2>2, <3>1
    <3> QED
      BY <1>6, <1>8, <3>1, <3>2
  <2> QED
    BY <2>3, <2>4
<1>10. PICK K \in Nat : K = (IF j = L + 1 THEN L + 1 ELSE L)
  OBVIOUS
<1>11. /\ ends' \in Seq(Time) /\ Lanes' = 1..K /\ j \in Lanes' /\ Lanes \subseteq Lanes'
       /\ ends'[j] = e
       /\ \A i \in Lanes : i # j => ends'[i] = ends[i]
       /\ \A i \in Lanes' : i # j => i \in Lanes
  <2>1. (IF j > Len(ends) THEN j ELSE Len(ends)) = K
    BY <1>5, <1>6, <1>9, <1>10
  <2>2. ends' = [i \in 1..K |-> IF i = j THEN e ELSE ends[i]]
    BY <1>1, <1>7, <2>1
  <2>3. \A i \in 1..K : i # j => i \in Lanes
    BY <1>6, <1>9, <1>10
  <2>4. j \in 1..K /\ Lanes \subseteq 1..K
    BY <1>6, <1>9, <1>10
  <2>5. ends' \in Seq(Time) /\ Len(ends') = K
    BY <1>6, <2>2, <2>3
  <2> QED
    BY <2>2, <2>3, <2>4, <2>5 DEF Lanes
<1>12. /\ DOMAIN position' = (DOMAIN position) \cup {b}
       /\ position'[b] = j
       /\ \A c \in (DOMAIN position) \ {b} : position'[c] = position[c]
  BY <1>1 DEF Extended
<1>13. b \notin DOMAIN position /\ b # Master
  BY <1>2, <1>4
<1>14. /\ OnLane(b, j)'
       /\ \A c, i : OnLane(c, i) => OnLane(c, i)' /\ c # b /\ i \in Lanes
       /\ \A c, i : OnLane(c, i)' => OnLane(c, i) \/ (c = b /\ i = j)
  BY <1>4, <1>12, <1>13 DEF OnLane
<1>15. \A c, i : OnLane(c, i) => /\ StartTime(c) \in Nat /\ EndTime(c) \in Nat
                                 /\ EndTime(c) <= StartTime(c) /\ s <= StartTime(c)
  <2> SUFFICES ASSUME NEW c, NEW i, OnLane(c, i)
               PROVE  /\ StartTime(c) \in Nat /\ EndTime(c) \in Nat
                      /\ EndTime(c) <= StartTime(c) /\ s <= StartTime(c)
    OBVIOUS
  <2>1. c \in DOMAIN position /\ c \in Branches /\ c # Master
    BY <1>4 DEF OnLane
  <2>2. s <= StartTime(c)
    BY <1>2, <1>8, <2>1 DEF LaneInv, HeadsInOrder
  <2> QED
    BY <2>1, <2>2, BranchTimes
<1>16. PageTyped'
  <2>1. unplaced' \subseteq Branches' /\ DOMAIN position' = Branches' \ unplaced'
    BY <1>2, <1>3, <1>4, <1>12
  <2>2. ASSUME NEW c \in DOMAIN position'
        PROVE  IF c = Master THEN position'[c] = 0 ELSE position'[c] \in Lanes'
    BY <1>4, <1>11, <1>12, <1>13
  <2>3. Uncommitted' = {}
    BY <1>2, <1>3 DEF LaneInv, PageTyped
  <2> QED
    BY <1>2, <1>11, <2>1, <2>2, <2>3 DEF PageTyped
<1>17. HeadsInOrder'
  <2> SUFFICES ASSUME NEW a \in unplaced', NEW c \in DOMAIN position'
               PROVE  StartTime(a)' <= StartTime(c)'
    BY DEF HeadsInOrder
  <2>1. a \in unplaced
    BY <1>2
  <2>2. CASE c = b
    BY <1>2, <1>3, <2>1, <2>2 DEF IsFirst
  <2>3. CASE c # b
    BY <1>3, <1>12, <2>1, <2>3 DEF LaneInv, HeadsInOrder
  <2> QED
    BY <2>2, <2>3
<1>18. EndsAreLast'
  <2>1. ASSUME NEW i \in Lanes'
        PROVE  \E c : OnLane(c, i)' /\ ends'[i] = EndTime(c)
    <3>1. CASE i = j
      BY <1>7, <1>11, <1>14, <3>1
    <3>2. CASE i # j
      <4>1. i \in Lanes /\ ends'[i] = ends[i]
        BY <1>11, <3>2
      <4> QED
        BY <1>14, <4>1 DEF LaneInv, EndsAreLast
    <3> QED
      BY <3>1, <3>2
  <2>2. ASSUME NEW i \in Lanes', NEW c, OnLane(c, i)'
        PROVE  ends'[i] <= EndTime(c)
    <3>1. CASE c = b
      BY <1>7, <1>8, <1>11, <1>12, <2>2, <3>1 DEF OnLane
    <3>2. CASE c # b
      <4>1. OnLane(c, i) /\ i \in Lanes
        BY <1>14, <2>2, <3>2
      <4>2. ends[i] <= EndTime(c) /\ EndTime(c) \in Nat
        BY <1>15, <4>1 DEF LaneInv, EndsAreLast
      <4>3. CASE i # j
        BY <1>11, <4>1, <4>2, <4>3
      <4>4. CASE i = j
        <5>1. s < ends[i] /\ ends[i] \in Nat
          BY <1>6, <1>9, <4>1, <4>4
        <5> QED
          BY <1>8, <1>11, <4>2, <4>4, <5>1
      <4> QED
        BY <4>3, <4>4
    <3> QED
      BY <3>1, <3>2
  <2> QED
    BY <1>3, <2>1, <2>2 DEF EndsAreLast
<1>19. \A c : OnLane(c, j) => s < EndTime(c)
  <2> SUFFICES ASSUME NEW c, OnLane(c, j) PROVE s < EndTime(c)
    OBVIOUS
  <2>1. j \in Lanes /\ ends[j] <= EndTime(c) /\ EndTime(c) \in Nat
    BY <1>14, <1>15 DEF LaneInv, EndsAreLast
  <2>2. s < ends[j] /\ ends[j] \in Nat
    BY <1>6, <1>9, <2>1
  <2> QED
    BY <1>8, <2>1, <2>2
<1>20. LanesDisjoint'
  <2> SUFFICES ASSUME NEW i \in Lanes', NEW a, NEW c, OnLane(a, i)', OnLane(c, i)', a # c
               PROVE  StartTime(a) < EndTime(c) \/ StartTime(c) < EndTime(a)
    BY <1>3 DEF LanesDisjoint
  <2>1. CASE a = b \/ c = b
    BY <1>8, <1>14, <1>12, <1>19, <2>1 DEF OnLane
  <2>2. CASE a # b /\ c # b
    BY <1>14, <2>2 DEF LaneInv, LanesDisjoint
  <2> QED
    BY <2>1, <2>2
<1>21. LanesWereNeeded'
  <2>1. CASE j = L + 1
    <3>1. ASSUME NEW i \in Lanes'
          PROVE  \E c : OnLane(c, i)' /\ Spans(c, s)'
      <4>1. CASE i = j
        <5>1. Spans(b, s)
          BY <1>7, <1>8 DEF Spans
        <5> QED
          BY <1>3, <1>14, <4>1, <5>1
      <4>2. CASE i # j
        <5>1. i \in Lanes /\ ends[i] <= s
          BY <1>5, <1>6, <1>9, <1>11, <2>1, <4>2
        <5>2. PICK c : OnLane(c, i) /\ ends[i] = EndTime(c)
          BY <5>1 DEF LaneInv, EndsAreLast
        <5>3. Spans(c, s)
          BY <1>15, <5>1, <5>2 DEF Spans
        <5> QED
          BY <1>3, <1>14, <5>2, <5>3
      <4> QED
        BY <4>1, <4>2
    <3> QED
      BY <1>8, <3>1 DEF LanesWereNeeded
  <2>2. CASE j # L + 1
    <3>1. j \in Lanes /\ Lanes' = Lanes
      BY <1>6, <1>9, <1>10, <1>11, <2>2
    <3>2. ends # <<>>
      BY <1>5, <1>6, <3>1
    <3>3. PICK t \in Time : \A i \in Lanes : \E c : OnLane(c, i) /\ Spans(c, t)
      BY <3>2 DEF LaneInv, LanesWereNeeded
    <3> QED
      BY <1>3, <1>14, <3>1, <3>3 DEF LanesWereNeeded
  <2> QED
    BY <2>1, <2>2
<1> QED
  BY <1>16, <1>17, <1>18, <1>20, <1>21 DEF LaneInv

-----------------------------------------------------------------------------
LEMMA SameServer == ASSUME ServerInv, UNCHANGED metadata PROVE ServerInv'
BY DEF ServerInv, RevisionsTyped, BranchesTyped, TimesFollow, Committed, StartTime, EndTime,
   Revisions, Branches, metadata

LEMMA InitViewInv == Init => ViewInv
<1> SUFFICES ASSUME Init PROVE ViewInv
  OBVIOUS
<1>1. /\ parent = [v \in {0} |-> NoRevision] /\ belongsTo = [v \in {0} |-> Master]
      /\ time = [v \in {0} |-> 0] /\ head = [b \in {Master} |-> 0] /\ derivedFrom = <<>>
      /\ page = "empty" /\ unplaced = {} /\ ends = <<>> /\ position = <<>>
  BY DEF Init
<1>2. Revisions = {0} /\ Branches = {Master} /\ 0 \in Time /\ 0..0 = {0}
  BY <1>1 DEF Revisions, Branches, Time
<1>3. RevisionsTyped
  BY <1>1, <1>2 DEF RevisionsTyped
<1>4. BranchesTyped
  BY <1>1, <1>2 DEF BranchesTyped
<1>5. Committed(0)
  BY <1>1, <1>2 DEF Committed, NoCommit
<1>6. TimesFollow
  BY <1>1, <1>2, <1>5 DEF TimesFollow, StartTime
<1> QED
  BY <1>1, <1>3, <1>4, <1>6, BlankPage DEF ViewInv, ServerInv, LaneInv, Blank

LEMMA NextViewInv == ViewInv /\ [Next]_vars => ViewInv'
<1> SUFFICES ASSUME ViewInv, [Next]_vars PROVE ViewInv'
  OBVIOUS
<1>1. ServerInv /\ LaneInv
  BY DEF ViewInv, LaneInv
<1>2. CASE Serve
  <2>1. ServerInv'
    BY <1>1, <1>2, WriteRevisionKeepsServer, WriteCommitKeepsServer, CreateBranchKeepsServer,
       FastForwardKeepsServer DEF Serve
  <2>2. page = "empty" /\ UNCHANGED view
    BY <1>2 DEF Serve, WriteRevision, WriteCommit, CreateBranch, FastForward
  <2>3. Blank'
    BY <1>1, <2>2 DEF LaneInv, PageTyped, view, Blank
  <2>4. Blank' => LaneInv'
    BY BlankPage, PTL
  <2> QED
    BY <2>1, <2>3, <2>4 DEF ViewInv, LaneInv
<1>3. CASE Load \/ PlaceMaster \/ (\E b \in Branch : PlaceBranch(b)) \/ Draw \/ Reload
  <2>1. UNCHANGED metadata
    BY <1>3 DEF Load, PlaceMaster, PlaceBranch, Draw, Reload
  <2>2. ServerInv'
    BY <1>1, <2>1, SameServer
  <2>3. LaneInv'
    BY <1>1, <1>3, LoadKeepsLanes, PlaceMasterKeepsLanes, PlaceBranchKeepsLanes, DrawKeepsLanes,
       ReloadKeepsLanes
  <2> QED
    BY <2>2, <2>3 DEF ViewInv, LaneInv
<1>4. CASE UNCHANGED vars
  <2>1. UNCHANGED metadata /\ UNCHANGED view
    BY <1>4 DEF vars
  <2>2. Branches' = Branches /\ Uncommitted' = Uncommitted
    BY <2>1, SameTimes
  <2>3. PageTyped'
    BY <1>1, <2>1, <2>2 DEF LaneInv, PageTyped, Lanes, view
  <2>4. HeadsInOrder' /\ EndsAreLast' /\ LanesDisjoint' /\ LanesWereNeeded'
    BY <1>1, <2>1, SameLanes DEF LaneInv, view
  <2> QED
    BY <1>1, <2>1, <2>3, <2>4, SameServer DEF ViewInv
<1> QED
  BY <1>2, <1>3, <1>4 DEF Next

-----------------------------------------------------------------------------
\* The inductive invariant: commits follow each other in time along the history
\* and within a branch, and the lanes drawn so far are disjoint intervals of
\* time, all of them taken when the last one was opened.
THEOREM ViewInvariant == Spec => []ViewInv
<1> QED
  BY InitViewInv, NextViewInv, PTL DEF Spec

\* For every set of branches and every number of revisions: the arrays of the
\* page have their types and lanes are numbered without gaps.
THEOREM ViewTyping == Spec => []ViewTypeOK
<1>1. ViewInv => ViewTypeOK
  <2> SUFFICES ASSUME ViewInv PROVE ViewTypeOK
    OBVIOUS
  <2>1. Revisions \subseteq 0..MaxRevision
    BY TimesAreNumbers DEF ViewInv, ServerInv, Time
  <2>2. Branches \subseteq Branch \cup {Master}
    BY DEF ViewInv, ServerInv, BranchesTyped
  <2>3. ends \in Seq(Time) /\ unplaced \subseteq Branches /\ DOMAIN position \subseteq Branches
    BY DEF ViewInv, PageTyped
  <2>4. ASSUME NEW b \in DOMAIN position
        PROVE  position[b] \in 0..Len(ends)
    <3>1. IF b = Master THEN position[b] = 0 ELSE position[b] \in 1..Len(ends)
      BY DEF ViewInv, PageTyped, Lanes
    <3>2. Len(ends) \in Nat
      BY <2>3
    <3> QED
      BY <3>1, <3>2
  <2> QED
    BY <2>1, <2>2, <2>3, <2>4 DEF ViewTypeOK
<1> QED
  BY <1>1, ViewInvariant, PTL

\* For every history, however branches are created from and fast-forwarded over
\* each other and however commits share their milliseconds: the circles of two
\* branches never cover each other.
THEOREM CirclesNeverCollide == Spec => []CirclesDoNotCollide
<1>1. ViewInv => CirclesDoNotCollide
  <2> SUFFICES ASSUME ViewInv, page = "drawn", NEW v \in Revisions, NEW w \in Revisions,
                      position[belongsTo[v]] = position[belongsTo[w]], time[v] = time[w],
                      belongsTo[v] # belongsTo[w]
               PROVE  FALSE
    BY DEF CirclesDoNotCollide
  <2>1. Uncommitted = {} /\ DOMAIN position = Branches
    BY DEF ViewInv, PageTyped
  <2>2. Committed(v) /\ Committed(w)
    BY <2>1 DEF Uncommitted, Committed
  <2>3. PICK b \in Branches, c \in Branches : b = belongsTo[v] /\ c = belongsTo[w]
    BY DEF ViewInv, ServerInv, RevisionsTyped
  <2>4. /\ position[b] = position[c] /\ b # c
        /\ IF b = Master THEN position[b] = 0 ELSE position[b] \in Lanes
        /\ IF c = Master THEN position[c] = 0 ELSE position[c] \in Lanes
    BY <2>1, <2>3 DEF ViewInv, PageTyped
  <2>5. 0 \notin Lanes
    BY DEF Lanes
  <2>6. PICK j \in Lanes : OnLane(b, j) /\ OnLane(c, j)
    BY <2>1, <2>4, <2>5 DEF OnLane
  <2>7. b # Master /\ c # Master
    BY <2>6 DEF OnLane
  <2>8. /\ time[v] <= StartTime(b) /\ EndTime(b) <= time[v]
        /\ time[w] <= StartTime(c) /\ EndTime(c) <= time[w]
    BY <2>2, <2>3, <2>7 DEF ViewInv, ServerInv, TimesFollow
  <2>9. StartTime(b) < EndTime(c) \/ StartTime(c) < EndTime(b)
    BY <2>4, <2>6 DEF ViewInv, LanesDisjoint
  <2>10. /\ StartTime(b) \in Nat /\ EndTime(b) \in Nat
         /\ StartTime(c) \in Nat /\ EndTime(c) \in Nat
    BY <2>7, BranchTimes DEF ViewInv
  <2>11. time[v] \in Nat
    BY <2>2, TimesAreNumbers DEF ViewInv, ServerInv
  <2> QED
    BY <2>8, <2>9, <2>10, <2>11
<1> QED
  BY <1>1, ViewInvariant, PTL

\* For every history: there is a point of time at which exactly as many branches
\* exist as the page has lanes, so that no drawing of intervals has fewer.
THEOREM LanesAreAlwaysFewest == Spec => []LanesAreFewest
<1>1. ViewInv => LanesAreFewest
  <2> SUFFICES ASSUME ViewInv, page = "drawn", ends # <<>>
               PROVE  \E t \in Time :
                         Cardinality({b \in Branches \ {Master} : Spans(b, t)}) = Len(ends)
    BY DEF LanesAreFewest
  <2>1. PICK t \in Time : \A j \in Lanes : \E c : OnLane(c, j) /\ Spans(c, t)
    BY DEF ViewInv, LanesWereNeeded
  <2> DEFINE S == {b \in Branches \ {Master} : Spans(b, t)}
             f == [j \in Lanes |-> CHOOSE c : OnLane(c, j) /\ Spans(c, t)]
  <2>2. DOMAIN position = Branches /\ Len(ends) \in Nat
    BY DEF ViewInv, PageTyped
  <2>3. \A j \in Lanes : OnLane(f[j], j) /\ Spans(f[j], t)
    BY <2>1
  <2>4. \A j \in Lanes : f[j] \in S
    BY <2>2, <2>3 DEF OnLane
  <2>5. \A i, j \in Lanes : f[i] = f[j] => i = j
    BY <2>3 DEF OnLane
  <2>6. ASSUME NEW b \in S
        PROVE  \E j \in Lanes : f[j] = b
    <3>1. b \in DOMAIN position \ {Master}
      BY <2>2
    <3>2. PICK j \in Lanes : OnLane(b, j)
      BY <3>1 DEF ViewInv, PageTyped, OnLane
    <3>3. PICK c \in S : c = f[j]
      BY <2>4
    <3>4. OnLane(c, j) /\ Spans(c, t)
      BY <2>3, <3>3
    <3>5. c # b => StartTime(b) < EndTime(c) \/ StartTime(c) < EndTime(b)
      BY <3>2, <3>4 DEF ViewInv, LanesDisjoint
    <3>6. /\ StartTime(b) \in Nat /\ EndTime(b) \in Nat
          /\ StartTime(c) \in Nat /\ EndTime(c) \in Nat
      BY BranchTimes DEF ViewInv
    <3>7. EndTime(b) <= t /\ t <= StartTime(b) /\ EndTime(c) <= t /\ t <= StartTime(c) /\ t \in Nat
      BY <3>4 DEF Spans, Time
    <3>8. c = b
      BY <3>5, <3>6, <3>7
    <3> QED
      BY <3>3, <3>8
  <2>7. f \in Bijection(1..Len(ends), S)
    <3>1. DOMAIN f = 1..Len(ends)
      BY DEF Lanes
    <3> HIDE DEF f, S
    <3>2. f \in [1..Len(ends) -> S]
      <4>1. f = [j \in Lanes |-> f[j]]
        BY DEF f
      <4> QED
        BY <2>4, <4>1 DEF Lanes
    <3> QED
      BY <2>5, <2>6, <3>1, <3>2 DEF Bijection, Injection, Surjection, IsInjective, Lanes
  <2>8. Cardinality(S) = Len(ends)
    <3> HIDE DEF f, S
    <3>1. ExistsBijection(1..Len(ends), S)
      BY <2>7 DEF ExistsBijection
    <3> QED
      BY <2>2, <3>1, FS_CountingElements
  <2> QED
    BY <2>8
<1> QED
  BY <1>1, ViewInvariant, PTL

=============================================================================
