-------------------------- MODULE ServerPartsProofs --------------------------
(***************************************************************************)
(* The parts of the server, each on its own and then together.  Whatever   *)
(* the release index names is served complete and a channel never goes     *)
(* back, for any releases and however often the server dies; a server that *)
(* has settled after an upgrade fits its database, and a script it lists   *)
(* has its files; a deleted script has no active run, a revision keeps its *)
(* files unless two uploads overlap, and a client that is offline goes by  *)
(* a revoked authorization for a bounded time only.                        *)
(***************************************************************************)
EXTENDS MCServerParts, FiniteSetTheorems, SequenceTheorems, TLAPS

(* Releases *)

(* A publication fits its manifest, and only pruning has directories to delete. *)
PublicationKept ==
    /\ doomed # {} => doing = "prune"
    /\ doing # "nothing" /\ work.version \in Beta => work.channel = "beta"

(* Nothing is promised of what the index does not name; it names finitely many. *)
IndexKept ==
    /\ \A v \in doomed : good[v] = "absent"
    /\ \A v \in Releases : listed[v] = {} => good[v] = "absent"
    /\ IsFiniteSet({v \in Releases : listed[v] # {}})

Intact(v) == v \in interrupted \/ shelf[v] = good[v]

(* What there is of the version that is being published. *)
StageKept ==
    /\ doing = "assemble" => Intact(work.version)
    /\ doing \in {"move in", "index", "undo"} =>
         \/ work.version \in interrupted
         \/ good[work.version] = IF work.aside THEN backup[work.version] ELSE "absent"
    /\ doing = "index" => shelf[work.version] = work.build
    /\ doing \in {"prune", "drop"} =>
         work.version \in doomed \/ shelf[work.version] = good[work.version]

ReleaseInv ==
    ReleaseTypeOK /\ PublicationKept /\ IndexKept /\ StageKept /\ IndexedIsServed

-----------------------------------------------------------------------------
(* The newest of a set of versions *)

LEMMA ReleasesAreNumbers == \A v \in Releases : v \in Nat
  BY ReleaseAssumption

LEMMA NewestAmong ==
    ASSUME NEW S, NEW n \in Nat
    PROVE  NewestOf(n, S) \subseteq S
  BY DEF NewestOf

(* The newest one of a finite set is not less than any other of it. *)
LEMMA TheNewest ==
    ASSUME NEW S \in SUBSET Releases, IsFiniteSet(S), NEW v
    PROVE  v \in NewestOf(1, S) <=> v \in S /\ \A u \in S : v >= u
  <1>1. SUFFICES ASSUME v \in S
                 PROVE  Cardinality({u \in S : u > v}) < 1 <=> \A u \in S : v >= u
    BY DEF NewestOf
  <1> DEFINE Newer == {u \in S : u > v}
  <1>2. IsFiniteSet(Newer)
    BY FS_Subset
  <1>3. Cardinality(Newer) \in Nat /\ (Cardinality(Newer) = 0 <=> Newer = {})
    BY <1>2, FS_CardinalityType, FS_EmptySet
  <1>4. Newer = {} <=> \A u \in S : v >= u
    BY <1>1, ReleasesAreNumbers
  <1> HIDE DEF Newer
  <1>5. Cardinality(Newer) < 1 <=> \A u \in S : v >= u
    BY <1>3, <1>4
  <1> QED
    BY <1>5 DEF Newer

LEMMA OnlyOneNewest ==
    ASSUME NEW S \in SUBSET Releases, IsFiniteSet(S),
           NEW u \in NewestOf(1, S), NEW v \in NewestOf(1, S)
    PROVE  u = v
  <1>1. u \in S /\ v \in S /\ u >= v /\ v >= u
    BY TheNewest
  <1> QED
    BY <1>1, ReleasesAreNumbers

(* Of the newest of two sets both are kept when there is place for two. *)
LEMMA BothAreKept ==
    ASSUME NEW S \in SUBSET Releases, IsFiniteSet(S),
           NEW T \in SUBSET Releases, IsFiniteSet(T), Retention > 1
    PROVE  LET U == NewestOf(1, S) \cup NewestOf(1, T) IN NewestOf(Retention, U) = U
  <1> DEFINE U == NewestOf(1, S) \cup NewestOf(1, T)
  <1>1. ASSUME NEW v \in U PROVE Cardinality({u \in U : u > v}) < Retention
    <2> DEFINE Newer == {u \in U : u > v}
    <2>1. \E x : Newer \subseteq {x}
      <3>1. v \in Releases /\ U \subseteq Releases
        BY NewestAmong DEF NewestOf
      <3>2. CASE v \in NewestOf(1, S)
        <4>1. \A u \in Newer : u \in NewestOf(1, T)
          BY <3>1, <3>2, OnlyOneNewest, ReleasesAreNumbers
        <4>2. \A u, w \in Newer : u = w
          BY <4>1, OnlyOneNewest
        <4> QED
          BY <4>2
      <3>3. CASE v \in NewestOf(1, T)
        <4>1. \A u \in Newer : u \in NewestOf(1, S)
          BY <3>1, <3>3, OnlyOneNewest, ReleasesAreNumbers
        <4>2. \A u, w \in Newer : u = w
          BY <4>1, OnlyOneNewest
        <4> QED
          BY <4>2
      <3> QED
        BY <3>2, <3>3
    <2> HIDE DEF Newer
    <2>2. PICK x : Newer \in SUBSET {x}
      BY <2>1
    <2>3. Cardinality(Newer) <= 1 /\ Cardinality(Newer) \in Nat
      <3>1. IsFiniteSet({x}) /\ Cardinality({x}) = 1
        BY FS_Singleton
      <3>2. IsFiniteSet(Newer) /\ Cardinality(Newer) <= Cardinality({x})
        BY <2>2, <3>1, FS_Subset
      <3> QED
        BY <3>1, <3>2, FS_CardinalityType
    <2>4. Cardinality(Newer) < Retention
      BY <2>3, ReleaseAssumption
    <2> QED
      BY <2>4 DEF Newer
  <1> QED
    BY <1>1 DEF NewestOf

-----------------------------------------------------------------------------
(* What the steps of a publication do *)

Chosen == [version : Releases, channel : Channels]

LEMMA CyclesAreTyped ==
    /\ \A released \in SUBSET Releases : Selected(released) \subseteq Seq(Chosen)
    /\ \A q \in Seq(Chosen) : q # <<>> => Head(q) \in Chosen /\ Tail(q) \in Seq(Chosen)
  <1>1. ASSUME NEW released \in SUBSET Releases, NEW q \in Selected(released)
        PROVE  q \in Seq(Chosen)
    <2>1. \A S \in SUBSET Releases : \A c \in Channels : InChannel(S, c) \subseteq Seq(Chosen)
      <3>1. ASSUME NEW S \in SUBSET Releases, NEW c \in Channels, NEW s \in InChannel(S, c)
            PROVE  s \in Seq(Chosen)
        <4>1. PICK v \in NewestOf(1, S) : s = <<[version |-> v, channel |-> c]>>
          BY <3>1 DEF InChannel
        <4>2. [version |-> v, channel |-> c] \in Chosen
          BY <3>1, NewestAmong DEF Chosen
        <4> QED
          BY <4>1, <4>2
      <3> QED
        BY <3>1
    <2>2. InChannel(released \ Flagged, "stable") \subseteq Seq(Chosen)
      BY <2>1 DEF Channels
    <2>3. InChannel(released, "beta") \subseteq Seq(Chosen) /\ <<>> \in Seq(Chosen)
      BY <2>1 DEF Channels
    <2>4. PICK s \in InChannel(released \ Flagged, "stable") \cup {<<>>},
               b \in InChannel(released, "beta") : q = s \o b
      <3> DEFINE S == InChannel(released \ Flagged, "stable")
                      \cup (IF released \subseteq Flagged THEN {<<>>} ELSE {})
      <3>1. q \in {s \o b : s \in S, b \in InChannel(released, "beta")}
        <4>1. Selected(released) = {s \o b : s \in S, b \in InChannel(released, "beta")}
          BY DEF Selected
        <4> HIDE DEF S
        <4> QED
          BY <4>1, <1>1
      <3>2. S \subseteq InChannel(released \ Flagged, "stable") \cup {<<>>}
        OBVIOUS
      <3> HIDE DEF S
      <3>3. PICK s \in S, b \in InChannel(released, "beta") : q = s \o b
        BY <3>1
      <3> QED
        BY <3>2, <3>3
    <2>5. s \in Seq(Chosen) /\ b \in Seq(Chosen)
      BY <2>2, <2>3, <2>4
    <2> QED
      BY <2>4, <2>5, ConcatProperties
  <1>2. ASSUME NEW q \in Seq(Chosen), q # <<>>
        PROVE  Head(q) \in Chosen /\ Tail(q) \in Seq(Chosen)
    BY <1>2, HeadTailProperties
  <1> QED
    BY <1>1, <1>2

(* The publication that has the lock, as a record of its own. *)
LEMMA PublicationUnderWay ==
    ASSUME ReleaseTypeOK, doing # "nothing"
    PROVE  work \in Publication /\ work.version \in Releases /\ work.build \in Builds
           /\ work.channel \in Channels /\ work.aside \in BOOLEAN
  BY DEF ReleaseTypeOK, Publication

LEMMA NotHalfThere == "absent" \notin Builds /\ "torn" \notin Builds
  BY ReleaseAssumption

-----------------------------------------------------------------------------
(* Publications begin *)

LEMMA BeginningsKeep ==
    ASSUME ReleaseInv,
           (\E v \in Releases, b \in Builds : Uploads(v, b)) \/ \E b \in Builds : Downloads(b)
    PROVE  ReleaseInv'
  <1> USE DEF ReleaseInv
  <1>1. /\ doing = "nothing" /\ doing' = "assemble"
        /\ work' \in Publication /\ (work'.version \in Beta => work'.channel = "beta")
        /\ cycle' \in Seq(Chosen)
        /\ UNCHANGED <<onDisk, doomed, history>>
    <2>1. CASE \E v \in Releases, b \in Builds : Uploads(v, b)
      BY <2>1 DEF Uploads, Publication, ManifestChannel, Channels, ReleaseTypeOK, Chosen
    <2>2. CASE \E b \in Builds : Downloads(b)
      <3>1. PICK b \in Builds : Downloads(b)
        BY <2>2
      <3>2. cycle # <<>> /\ cycle \in Seq(Chosen)
        BY <3>1 DEF Downloads, ReleaseTypeOK, Chosen
      <3>3. PICK p \in Chosen : p = Head(cycle)
        BY <3>2, CyclesAreTyped
      <3>4. p.channel = "stable" => p.version \notin Beta
        BY <3>1, <3>3 DEF Downloads, ManifestFits, ManifestChannel
      <3>5. work' = [version |-> p.version, build |-> b, channel |-> p.channel, aside |-> FALSE]
        BY <3>1, <3>3 DEF Downloads
      <3>6. work' \in Publication /\ (work'.version \in Beta => work'.channel = "beta")
        BY <3>4, <3>5 DEF Chosen, Channels, Publication
      <3>7. cycle' \in Seq(Chosen)
        BY <3>1, <3>2, CyclesAreTyped DEF Downloads
      <3> QED
        BY <3>1, <3>6, <3>7 DEF Downloads
    <2> QED
      BY <2>1, <2>2
  <1>2. doomed = {} /\ doomed' = {}
    BY <1>1 DEF PublicationKept
  <1>3. ReleaseTypeOK'
    BY <1>1 DEF ReleaseTypeOK, onDisk, history, Chosen
  <1>4. work'.version \in Releases
    BY <1>1 DEF Publication
  <1>5. \A v \in Releases : v \in interrupted \/ shelf[v] = good[v]
    BY <1>1 DEF IndexedIsServed, UnderWay
  <1> QED
    BY <1>1, <1>2, <1>3, <1>4, <1>5
    DEF PublicationKept, IndexKept, StageKept, IndexedIsServed, UnderWay, Intact, onDisk, history

LEMMA CyclesKeep == ASSUME ReleaseInv, CycleBegins \/ DownloadFails PROVE ReleaseInv'
  <1> USE DEF ReleaseInv
  <1>1. UNCHANGED <<onDisk, doing, work, doomed, history>>
    BY DEF CycleBegins, DownloadFails
  <1>2. cycle' \in Seq(Chosen)
    BY CyclesAreTyped DEF CycleBegins, DownloadFails, ReleaseTypeOK, Chosen
  <1>3. ReleaseTypeOK'
    BY <1>1, <1>2 DEF ReleaseTypeOK, onDisk, history, Chosen
  <1> QED
    BY <1>1, <1>3 DEF PublicationKept, IndexKept, StageKept, IndexedIsServed, UnderWay, Intact,
                      onDisk, history

-----------------------------------------------------------------------------
(* A publication *)

LEMMA MovesKeep ==
    ASSUME ReleaseInv, MovesAside \/ MovesIn \/ AssemblyFails \/ PublishFails
    PROVE  ReleaseInv'
  <1> USE DEF ReleaseInv
  <1>1. doing # "nothing" /\ doing # "prune" /\ doomed = {}
    BY DEF MovesAside, MovesIn, AssemblyFails, PublishFails, Steps, PublicationKept
  <1>2. PICK p \in Publication : p = work
    BY <1>1, PublicationUnderWay
  <1>3. p.version \in Releases /\ p.build \in Builds
    BY DEF Publication
  <1>4. \A v \in Releases \ {p.version} : Intact(v)
    BY <1>1, <1>2 DEF IndexedIsServed, UnderWay, Intact
  <1>5. UNCHANGED <<listed, doomed, cycle, good, interrupted>>
    BY DEF MovesAside, MovesIn, AssemblyFails, PublishFails, Steps, onDisk, history
  <1>6. ASSUME ReleaseTypeOK', PublicationKept', StageKept',
               \A v \in Releases \ {p.version} : Intact(v)',
               doing' = "nothing" => Intact(p.version)',
               doing' # "nothing" => work'.version = p.version
        PROVE  ReleaseInv'
    <2>1. IndexKept'
      BY <1>5 DEF IndexKept
    <2>2. IndexedIsServed'
      BY <1>6 DEF IndexedIsServed, UnderWay, Intact
    <2> QED
      BY <1>6, <2>1, <2>2
  <1>7. CASE MovesAside
    <2> DEFINE aside == shelf[p.version] # "absent"
    <2>1. doing = "assemble" /\ doing' = "move in" /\ work' = [p EXCEPT !.aside = aside]
          /\ shelf' = [shelf EXCEPT ![p.version] = "absent"]
          /\ backup' = IF aside THEN [backup EXCEPT ![p.version] = shelf[p.version]] ELSE backup
      <3>1. work' = [p EXCEPT !.aside = aside]
        BY <1>2, <1>7 DEF MovesAside
      <3>2. work'.aside = aside
        BY <3>1 DEF Publication
      <3> QED
        BY <1>2, <1>7, <3>1, <3>2 DEF MovesAside
    <2>2. work' \in Publication /\ work'.version = p.version /\ work'.channel = p.channel
          /\ work'.aside = aside
      BY <2>1 DEF Publication
    <2> HIDE DEF aside
    <2>3. ReleaseTypeOK'
      BY <1>3, <1>5, <2>1, <2>2 DEF ReleaseTypeOK
    <2>4. PublicationKept'
      BY <1>1, <1>2, <1>5, <2>1, <2>2 DEF PublicationKept
    <2>5. Intact(p.version)
      BY <1>2, <2>1 DEF StageKept
    <2>8. doing' = "move in"
      BY <2>1
    <2>6. StageKept'
      <3>1. CASE shelf[p.version] # "absent"
        <4>1. work'.aside = TRUE /\ backup'[p.version] = shelf[p.version]
          BY <1>3, <2>1, <2>2, <3>1 DEF aside, ReleaseTypeOK
        <4> QED
          BY <1>5, <2>2, <2>5, <2>8, <4>1 DEF StageKept, Intact
      <3>2. CASE shelf[p.version] = "absent"
        <4>1. work'.aside = FALSE
          BY <2>2, <3>2 DEF aside
        <4> QED
          BY <1>5, <2>2, <2>5, <2>8, <3>2, <4>1 DEF StageKept, Intact
      <3> QED
        BY <3>1, <3>2
    <2>7. \A v \in Releases \ {p.version} : Intact(v)'
      BY <1>3, <1>4, <1>5, <2>1 DEF Intact, ReleaseTypeOK
    <2> QED
      BY <1>6, <2>1, <2>2, <2>3, <2>4, <2>6, <2>7
  <1>8. CASE MovesIn
    <2>1. doing = "move in" /\ doing' = "index" /\ work' = p /\ backup' = backup
          /\ shelf' = [shelf EXCEPT ![p.version] = p.build]
      BY <1>2, <1>8 DEF MovesIn, Steps
    <2>2. ReleaseTypeOK'
      BY <1>3, <1>5, <2>1 DEF ReleaseTypeOK
    <2>3. PublicationKept'
      BY <1>1, <1>2, <1>5, <2>1 DEF PublicationKept
    <2>4. StageKept'
      BY <1>2, <1>3, <1>5, <2>1 DEF StageKept, ReleaseTypeOK
    <2>5. \A v \in Releases \ {p.version} : Intact(v)'
      BY <1>3, <1>4, <1>5, <2>1 DEF Intact, ReleaseTypeOK
    <2> QED
      BY <1>6, <2>1, <2>2, <2>3, <2>4, <2>5
  <1>9. CASE AssemblyFails
    <2>1. doing = "assemble" /\ doing' = "nothing" /\ work' = "nothing"
          /\ UNCHANGED <<shelf, backup>>
      BY <1>9 DEF AssemblyFails, Steps, onDisk
    <2>2. ReleaseTypeOK'
      BY <1>5, <2>1 DEF ReleaseTypeOK
    <2>3. Intact(p.version)' /\ \A v \in Releases \ {p.version} : Intact(v)'
      BY <1>2, <1>4, <1>5, <2>1 DEF StageKept, Intact
    <2> QED
      BY <1>1, <1>5, <1>6, <2>1, <2>2, <2>3 DEF PublicationKept, StageKept
  <1>10. CASE PublishFails
    <2>1. doing \in {"move in", "index"} /\ doing' = "undo" /\ work' = p
          /\ UNCHANGED <<shelf, backup>>
      BY <1>2, <1>10 DEF PublishFails, Steps, onDisk
    <2>2. ReleaseTypeOK'
      BY <1>5, <2>1 DEF ReleaseTypeOK
    <2>3. \A v \in Releases \ {p.version} : Intact(v)'
      BY <1>4, <1>5, <2>1 DEF Intact
    <2>4. PublicationKept' /\ StageKept'
      BY <1>1, <1>2, <1>5, <2>1 DEF PublicationKept, StageKept
    <2> QED
      BY <1>6, <2>1, <2>2, <2>3, <2>4
  <1> QED
    BY <1>7, <1>8, <1>9, <1>10

-----------------------------------------------------------------------------
(* The index *)

Index == [listed EXCEPT ![work.version] = @ \cup {work.channel}]

LEMMA TheIndex ==
    ASSUME ReleaseInv, WritesIndex
    PROVE  /\ Index \in [Releases -> SUBSET Channels]
           /\ \A v \in Releases : listed[v] \subseteq Index[v]
           /\ \A v \in Releases \ {work.version} : Index[v] = listed[v]
           /\ Index[work.version] # {}
           /\ \A v \in Beta : "stable" \notin Index[v]
           /\ IsFiniteSet({v \in Releases : Index[v] # {}})
  <1> USE DEF ReleaseInv
  <1>1. doing = "index"
    BY DEF WritesIndex, Steps
  <1>2. PICK p \in Publication : p = work
    BY <1>1, PublicationUnderWay
  <1>3. p.version \in Releases /\ p.channel \in Channels
        /\ (p.version \in Beta => p.channel = "beta")
    BY <1>1, <1>2 DEF Publication, PublicationKept
  <1>4. Index = [listed EXCEPT ![p.version] = @ \cup {p.channel}]
    BY <1>2 DEF Index
  <1>5. listed \in [Releases -> SUBSET Channels] /\ \A v \in Beta : "stable" \notin listed[v]
    BY DEF ReleaseTypeOK
  <1>6. {v \in Releases : Index[v] # {}}
          \in SUBSET ({v \in Releases : listed[v] # {}} \cup {p.version})
    BY <1>3, <1>4, <1>5
  <1>7. IsFiniteSet({v \in Releases : listed[v] # {}} \cup {p.version})
    BY FS_AddElement DEF IndexKept
  <1>8. IsFiniteSet({v \in Releases : Index[v] # {}})
    BY <1>6, <1>7, FS_Subset
  <1>9. \A v \in Beta : "stable" \notin Index[v]
    <2>1. Beta \subseteq Releases
      BY ReleaseAssumption
    <2> QED
      BY <1>3, <1>4, <1>5, <2>1
  <1> QED
    BY <1>2, <1>3, <1>4, <1>5, <1>8, <1>9

(* What is published is kept or, when the limit leaves no place for it, deleted. *)
LEMMA IndexStepKeeps == ASSUME ReleaseInv, WritesIndex PROVE ReleaseInv'
  <1> USE DEF ReleaseInv
  <1>1. doing = "index" /\ doing' = "prune" /\ work' = work
        /\ UNCHANGED <<shelf, backup, cycle, interrupted>>
    BY DEF WritesIndex, Steps
  <1>2. PICK p \in Publication : p = work
    BY <1>1, PublicationUnderWay
  <1>3. p.version \in Releases /\ p.build \in Builds
    BY DEF Publication
  <1>4. PICK kept : kept = Retained(Index)
    OBVIOUS
  <1>5. /\ listed' = [v \in Releases |-> IF v \in kept THEN Index[v] ELSE {}]
        /\ doomed' = {v \in Releases : Index[v] # {}} \ kept
        /\ good' = [v \in Releases |-> IF v \notin kept THEN "absent"
                                       ELSE IF v = p.version THEN p.build ELSE good[v]]
    <2>1. /\ listed' = [v \in Releases |-> IF v \in Retained(Index) THEN Index[v] ELSE {}]
          /\ doomed' = {v \in Releases : Index[v] # {}} \ Retained(Index)
          /\ good' = [v \in Releases |-> IF v \notin Retained(Index) THEN "absent"
                                         ELSE IF v = work.version THEN work.build ELSE good[v]]
      BY DEF WritesIndex, Index
    <2> QED
      BY <1>2, <1>4, <2>1
  <1>6. \A v \in Releases : good'[v] = IF v \notin kept THEN "absent"
                                       ELSE IF v = p.version THEN p.build ELSE good[v]
    BY <1>5
  <1>7. good' \in [Releases -> Builds \cup {"absent"}]
    BY <1>3, <1>5, <1>6 DEF ReleaseTypeOK
  <1>8. ReleaseTypeOK'
    <2>1. Beta \subseteq Releases
      BY ReleaseAssumption
    <2>2. listed' \in [Releases -> SUBSET Channels]
          /\ \A v \in Beta : "stable" \notin listed'[v]
      BY <1>5, <2>1, TheIndex
    <2>3. doomed' \subseteq Releases
      BY <1>5
    <2> QED
      BY <1>1, <1>7, <2>2, <2>3 DEF ReleaseTypeOK
  <1>9. IndexKept'
    <2>1. ASSUME NEW v \in doomed' PROVE good'[v] = "absent"
      BY <1>5, <1>6, <2>1
    <2>2. ASSUME NEW v \in Releases, listed'[v] = {} PROVE good'[v] = "absent"
      <3>1. CASE v \notin kept
        BY <1>6, <3>1
      <3>2. CASE v \in kept
        <4>1. Index[v] = {}
          BY <1>5, <2>2, <3>2
        <4>2. v # p.version /\ listed[v] = {}
          BY <1>2, <4>1, TheIndex
        <4> QED
          BY <1>6, <4>2 DEF IndexKept
      <3> QED
        BY <3>1, <3>2
    <2>3. {v \in Releases : listed'[v] # {}} \in SUBSET {v \in Releases : Index[v] # {}}
      BY <1>5
    <2>4. IsFiniteSet({v \in Releases : listed'[v] # {}})
      BY <2>3, TheIndex, FS_Subset
    <2> QED
      BY <2>1, <2>2, <2>4 DEF IndexKept
  <1>10. p.version \in doomed' \/ shelf'[p.version] = good'[p.version]
    <2>1. shelf'[p.version] = p.build
      BY <1>1, <1>2 DEF StageKept
    <2> QED
      BY <1>2, <1>3, <1>5, <1>6, <2>1, TheIndex
  <1>11. PublicationKept' /\ StageKept'
    BY <1>1, <1>2, <1>10 DEF PublicationKept, StageKept
  <1>12. IndexedIsServed'
    <2> SUFFICES ASSUME NEW v \in Releases, v # p.version, v \notin doomed', v \notin interrupted'
                 PROVE  shelf'[v] = good'[v]
      BY <1>1, <1>2 DEF IndexedIsServed, UnderWay
    <2>1. shelf[v] = good[v]
      BY <1>1, <1>2 DEF IndexedIsServed, UnderWay, PublicationKept
    <2>2. CASE v \in kept
      BY <1>1, <1>6, <2>1, <2>2
    <2>3. CASE v \notin kept
      <3>1. listed[v] = {}
        BY <1>2, <1>5, <2>3, TheIndex
      <3> QED
        BY <1>1, <1>6, <2>1, <2>3, <3>1 DEF IndexKept
    <2> QED
      BY <2>2, <2>3
  <1> QED
    BY <1>8, <1>9, <1>11, <1>12

-----------------------------------------------------------------------------
(* What the index no longer names, and the end *)

LEMMA PruningKeeps ==
    ASSUME ReleaseInv, (\E v \in Releases : Prunes(v)) \/ Pruned \/ DropsBackup
    PROVE  ReleaseInv'
  <1> USE DEF ReleaseInv
  <1>1. doing \in {"prune", "drop"} /\ UNCHANGED <<listed, cycle, good>>
    BY DEF Prunes, Pruned, DropsBackup, Steps, onDisk, history
  <1>2. PICK p \in Publication : p = work
    BY <1>1, PublicationUnderWay
  <1>3. p.version \in Releases
    BY DEF Publication
  <1>4. p.version \in doomed \/ shelf[p.version] = good[p.version]
    BY <1>1, <1>2 DEF StageKept
  <1>5. CASE \E v \in Releases : Prunes(v)
    <2>1. PICK v \in Releases : Prunes(v)
      BY <1>5
    <2>2. PICK left \in {"torn", "absent"} : shelf' = [shelf EXCEPT ![v] = left]
      BY <2>1 DEF Prunes
    <2>3. /\ doing = "prune" /\ v \in doomed
          /\ doomed' = IF left = "absent" THEN doomed \ {v} ELSE doomed
          /\ UNCHANGED <<backup, doing, work, interrupted>>
      BY <2>1, <2>2 DEF Prunes, history, ReleaseTypeOK
    <2>4. good[v] = "absent"
      BY <2>3 DEF IndexKept
    <2>5. ReleaseTypeOK'
      BY <1>1, <2>2, <2>3 DEF ReleaseTypeOK
    <2>6. \A u \in Releases : shelf'[u] = IF u = v THEN left ELSE shelf[u]
      BY <2>2 DEF ReleaseTypeOK
    <2>7. p.version \in doomed' \/ shelf'[p.version] = good[p.version]
      BY <1>3, <1>4, <2>3, <2>4, <2>6
    <2>8. IndexKept' /\ PublicationKept'
      BY <1>1, <2>3 DEF IndexKept, PublicationKept
    <2>9. IndexedIsServed'
      BY <1>1, <2>3, <2>4, <2>6 DEF IndexedIsServed, UnderWay
    <2> QED
      BY <1>1, <1>2, <2>3, <2>5, <2>7, <2>8, <2>9 DEF StageKept
  <1>6. CASE Pruned
    <2>1. doing = "prune" /\ doing' = "drop" /\ work' = p /\ doomed = {}
          /\ UNCHANGED <<shelf, backup, doomed, interrupted>>
      BY <1>2, <1>6 DEF Pruned, Steps, onDisk, history
    <2>2. ReleaseTypeOK'
      BY <1>1, <2>1 DEF ReleaseTypeOK
    <2> QED
      BY <1>1, <1>2, <1>4, <2>1, <2>2
      DEF PublicationKept, IndexKept, StageKept, IndexedIsServed, UnderWay
  <1>7. CASE DropsBackup
    <2>1. doing = "drop" /\ doing' = "nothing" /\ work' = "nothing"
          /\ interrupted' = interrupted \ {p.version}
          /\ UNCHANGED <<shelf, doomed>>
      BY <1>2, <1>7 DEF DropsBackup, Steps
    <2>2. backup' = backup \/ backup' = [backup EXCEPT ![p.version] = "absent"]
      BY <1>2, <1>7 DEF DropsBackup
    <2>3. doomed = {}
      BY <2>1 DEF PublicationKept
    <2>4. ReleaseTypeOK'
      BY <1>1, <1>3, <2>1, <2>2 DEF ReleaseTypeOK
    <2>5. IndexedIsServed'
      BY <1>1, <1>2, <1>4, <2>1, <2>3 DEF IndexedIsServed, UnderWay
    <2> QED
      BY <1>1, <2>1, <2>3, <2>4, <2>5 DEF PublicationKept, IndexKept, StageKept
  <1> QED
    BY <1>5, <1>6, <1>7

-----------------------------------------------------------------------------
(* A publication is taken back, or the server dies *)

LEMMA UndoingKeeps == ASSUME ReleaseInv, Undoes \/ Restores PROVE ReleaseInv'
  <1> USE DEF ReleaseInv
  <1>1. doing = "undo" /\ doomed = {} /\ UNCHANGED <<listed, doomed, cycle, good, interrupted>>
    BY DEF Undoes, Restores, Steps, history, PublicationKept
  <1>2. PICK p \in Publication : p = work
    BY <1>1, PublicationUnderWay
  <1>3. p.version \in Releases /\ p.aside \in BOOLEAN
    BY DEF Publication
  <1>4. \A v \in Releases \ {p.version} : Intact(v)
    BY <1>1, <1>2 DEF IndexedIsServed, UnderWay, Intact
  <1>5. CASE Undoes
    <2>1. PICK left \in {"torn", "absent"} : shelf' = [shelf EXCEPT ![p.version] = left]
      BY <1>2, <1>5 DEF Undoes
    <2>2. UNCHANGED <<backup, doing, work>>
      BY <1>5 DEF Undoes
    <2>3. ReleaseTypeOK'
      BY <1>1, <1>3, <2>1, <2>2 DEF ReleaseTypeOK
    <2>4. \A v \in Releases \ {p.version} : Intact(v)'
      BY <1>1, <1>3, <1>4, <2>1 DEF Intact, ReleaseTypeOK
    <2>5. IndexedIsServed'
      BY <1>1, <1>2, <2>2, <2>4 DEF IndexedIsServed, UnderWay, Intact
    <2> QED
      BY <1>1, <2>2, <2>3, <2>5 DEF PublicationKept, IndexKept, StageKept
  <1>6. CASE Restores
    <2>1. doing' = "nothing" /\ work' = "nothing" /\ shelf[p.version] = "absent"
      BY <1>2, <1>6 DEF Restores, Steps
    <2>2. \/ /\ p.aside = TRUE
             /\ shelf' = [shelf EXCEPT ![p.version] = backup[p.version]]
             /\ backup' = [backup EXCEPT ![p.version] = "absent"]
          \/ p.aside = FALSE /\ UNCHANGED <<shelf, backup>>
      BY <1>2, <1>3, <1>6 DEF Restores
    <2>3. ReleaseTypeOK'
      BY <1>1, <1>3, <2>1, <2>2 DEF ReleaseTypeOK
    <2>4. \A v \in Releases \ {p.version} : Intact(v)'
      BY <1>1, <1>3, <1>4, <2>2 DEF Intact, ReleaseTypeOK
    <2>5. p.version \in interrupted
          \/ good[p.version] = IF p.aside THEN backup[p.version] ELSE "absent"
      BY <1>1, <1>2 DEF StageKept
    <2>6. Intact(p.version)'
      BY <1>1, <1>3, <2>1, <2>2, <2>5 DEF Intact, ReleaseTypeOK
    <2>7. IndexedIsServed'
      BY <2>4, <2>6 DEF IndexedIsServed, Intact
    <2> QED
      BY <1>1, <2>1, <2>3, <2>7 DEF PublicationKept, IndexKept, StageKept
  <1> QED
    BY <1>5, <1>6

LEMMA DeathKeeps == ASSUME ReleaseInv, ServerDies PROVE ReleaseInv'
  <1> USE DEF ReleaseInv
  <1>1. doing' = "nothing" /\ work' = "nothing" /\ doomed' = {} /\ cycle' = <<>>
        /\ UNCHANGED <<shelf, backup, listed, good>>
    BY DEF ServerDies, onDisk
  <1>2. interrupted' = interrupted \cup doomed
                       \cup (IF doing = "nothing" THEN {} ELSE {work.version})
    BY DEF ServerDies
  <1>3. doing # "nothing" => work.version \in Releases
    BY PublicationUnderWay
  <1>4. interrupted' \subseteq Releases
    BY <1>2, <1>3 DEF ReleaseTypeOK
  <1>5. ReleaseTypeOK'
    <2>1. cycle' \in Seq(Chosen)
      BY <1>1
    <2> QED
      BY <1>1, <1>4, <2>1 DEF ReleaseTypeOK, Chosen
  <1>6. \A v \in Releases : UnderWay(v) => v \in interrupted'
    BY <1>2 DEF UnderWay
  <1>7. IndexedIsServed'
    BY <1>1, <1>2, <1>6 DEF IndexedIsServed
  <1> QED
    BY <1>1, <1>5, <1>7 DEF PublicationKept, IndexKept, StageKept

-----------------------------------------------------------------------------

LEMMA ReleaseInitial == ReleaseInit => ReleaseInv
  <1> SUFFICES ASSUME ReleaseInit PROVE ReleaseInv
    OBVIOUS
  <1>4. cycle \in Seq(Chosen)
    BY DEF ReleaseInit
  <1>5. ReleaseTypeOK
    <2>1. /\ shelf = [v \in Releases |-> "absent"] /\ backup = shelf /\ good = shelf
          /\ listed = [v \in Releases |-> {}]
          /\ doing = "nothing" /\ work = "nothing" /\ doomed = {} /\ interrupted = {}
      BY DEF ReleaseInit
    <2> QED
      BY <1>4, <2>1, ReleaseAssumption DEF ReleaseTypeOK, Chosen
  <1>1. ReleaseTypeOK /\ PublicationKept /\ StageKept /\ IndexedIsServed
    BY <1>5 DEF ReleaseInit, PublicationKept, StageKept, IndexedIsServed
  <1>2. {v \in Releases : listed[v] # {}} = {}
    BY DEF ReleaseInit
  <1>3. IndexKept
    BY <1>2, FS_EmptySet DEF ReleaseInit, IndexKept
  <1> QED
    BY <1>1, <1>3 DEF ReleaseInv

LEMMA ReleaseSteps == ReleaseInv /\ [ReleaseNext]_releaseVars => ReleaseInv'
  <1> SUFFICES ASSUME ReleaseInv, [ReleaseNext]_releaseVars PROVE ReleaseInv'
    OBVIOUS
  <1>1. CASE (\E v \in Releases, b \in Builds : Uploads(v, b)) \/ \E b \in Builds : Downloads(b)
    BY <1>1, BeginningsKeep
  <1>2. CASE CycleBegins \/ DownloadFails
    BY <1>2, CyclesKeep
  <1>3. CASE MovesAside \/ MovesIn \/ AssemblyFails \/ PublishFails
    BY <1>3, MovesKeep
  <1>4. CASE WritesIndex
    BY <1>4, IndexStepKeeps
  <1>5. CASE (\E v \in Releases : Prunes(v)) \/ Pruned \/ DropsBackup
    BY <1>5, PruningKeeps
  <1>6. CASE Undoes \/ Restores
    BY <1>6, UndoingKeeps
  <1>7. CASE ServerDies
    BY <1>7, DeathKeeps
  <1>8. CASE UNCHANGED releaseVars
    BY <1>8 DEF releaseVars, ReleaseInv, ReleaseTypeOK, PublicationKept, IndexKept, StageKept,
                IndexedIsServed, UnderWay, Intact
  <1> QED
    BY <1>1, <1>2, <1>3, <1>4, <1>5, <1>6, <1>7, <1>8 DEF ReleaseNext

THEOREM ReleaseInvariant == ReleaseSpec => []ReleaseInv
  BY ReleaseInitial, ReleaseSteps, PTL DEF ReleaseSpec

(* However publications, failures, prunings and deaths of the server follow one   *)
(* another, what the index sends a client to is the last complete build that was  *)
(* published of that version: what is moved aside comes back unless it was         *)
(* replaced, and only what the index no longer names is deleted.                  *)
THEOREM WhatIsIndexedIsServed == ReleaseSpec => []IndexedIsServed
  BY ReleaseInvariant, PTL DEF ReleaseInv

-----------------------------------------------------------------------------
(* The channels *)

(* The newest version of a channel is kept when there is place for both channels. *)
LEMMA NewestIsKept ==
    ASSUME ReleaseInv, WritesIndex, Retention > 1, NEW c \in Channels,
           NEW m \in NewestOf(1, In(Index, c))
    PROVE  m \in Retained(Index)
  <1> DEFINE S == In(Index, "stable")
             T == In(Index, "beta")
             U == NewestOf(1, S) \cup NewestOf(1, T)
  <1>1. S \in SUBSET Releases /\ T \in SUBSET Releases
    BY DEF In
  <1>2. S \in SUBSET {v \in Releases : Index[v] # {}}
        /\ T \in SUBSET {v \in Releases : Index[v] # {}}
    BY DEF In
  <1>3. IsFiniteSet(S) /\ IsFiniteSet(T)
    BY <1>2, TheIndex, FS_Subset
  <1>4. NewestOf(Retention, U) = U
    BY <1>1, <1>3, BothAreKept
  <1>5. UNION {NewestOf(1, In(Index, x)) : x \in Channels} = U
    BY DEF Channels
  <1>6. m \in U
    BY DEF Channels
  <1>7. m \in NewestOf(Retention, UNION {NewestOf(1, In(Index, x)) : x \in Channels})
    BY <1>4, <1>5, <1>6
  <1> QED
    BY <1>7, Zenon DEF Retained

LEMMA ChannelSteps ==
    ReleaseInv /\ [ReleaseNext]_releaseVars
      => [Retention > 1 =>
            \A c \in Channels : \A v \in Latest(c) : \E u \in Latest(c)' : u >= v]_releaseVars
  <1> SUFFICES ASSUME ReleaseInv, ReleaseNext, Retention > 1,
                      NEW c \in Channels, NEW v \in Latest(c)
               PROVE  \E u \in Latest(c)' : u >= v
    OBVIOUS
  <1> DEFINE S == In(listed, c)
             T == In(Index, c)
  <1>1. S \in SUBSET Releases /\ S \in SUBSET {u \in Releases : listed[u] # {}}
    BY DEF In
  <1>2. IsFiniteSet(S)
    BY <1>1, FS_Subset DEF ReleaseInv, IndexKept
  <1>3. v \in S /\ \A u \in S : v >= u
    BY <1>1, <1>2, TheNewest DEF Latest
  <1>4. v \in Nat /\ v >= v
    BY <1>1, <1>3, ReleasesAreNumbers
  <1>5. CASE WritesIndex
    <2>1. T \in SUBSET Releases /\ T \in SUBSET {u \in Releases : Index[u] # {}}
      BY DEF In
    <2>2. IsFiniteSet(T)
      BY <2>1, <1>5, TheIndex, FS_Subset
    <2>3. S \subseteq T /\ T \subseteq S \cup {work.version}
      BY <1>5, TheIndex DEF In
    <2>4. PICK m \in T : m >= v /\ \A u \in T : m >= u
      <3>1. CASE work.version \in T /\ work.version >= v
        <4>1. \A u \in T : work.version >= u
          BY <1>1, <1>3, <1>4, <2>1, <2>3, <3>1, ReleasesAreNumbers
        <4> QED
          BY <3>1, <4>1
      <3>2. CASE ~(work.version \in T /\ work.version >= v)
        <4>1. \A u \in T : v >= u
          BY <1>1, <1>3, <1>4, <2>1, <2>3, <3>2, ReleasesAreNumbers
        <4> QED
          BY <1>3, <1>4, <2>3, <4>1
      <3> QED
        BY <3>1, <3>2
    <2>5. m \in NewestOf(1, T)
      BY <2>1, <2>2, <2>4, TheNewest
    <2>6. m \in Retained(Index)
      BY <1>5, <2>5, NewestIsKept
    <2>7. listed' = [u \in Releases |-> IF u \in Retained(Index) THEN Index[u] ELSE {}]
      BY <1>5 DEF WritesIndex, Index
    <2>8. m \in In(listed', c) /\ In(listed', c) \in SUBSET T
      BY <2>1, <2>4, <2>6, <2>7 DEF In
    <2>9. IsFiniteSet(In(listed', c)) /\ In(listed', c) \in SUBSET Releases
      BY <2>1, <2>2, <2>8, FS_Subset
    <2>10. m \in NewestOf(1, In(listed', c))
      BY <2>4, <2>8, <2>9, TheNewest
    <2> QED
      BY <2>4, <2>10 DEF Latest
  <1>6. CASE listed' = listed
    BY <1>4, <1>6 DEF Latest, In
  <1>7. WritesIndex \/ listed' = listed
    BY DEF ReleaseNext, Prunes, Uploads, CycleBegins, DownloadFails, Downloads, MovesAside,
           AssemblyFails, MovesIn, Pruned, DropsBackup, PublishFails, Undoes, Restores,
           ServerDies, onDisk
  <1> QED
    BY <1>5, <1>6, <1>7

(* The version that a channel offers is never replaced by an older one or by none *)
(* when the limit leaves a place for each channel: what is published only adds to  *)
(* the index, and of each channel the newest is kept.                              *)
THEOREM AChannelNeverGoesBack == ReleaseSpec => ChannelNeverGoesBack
  BY ReleaseInvariant, ChannelSteps, PTL DEF ReleaseSpec, ChannelNeverGoesBack

-----------------------------------------------------------------------------
(* Upgrades *)

(* What the script has established when it is at a command. *)
CommandKept ==
    /\ command = "none" =>
         Serves /\ (byHand \/ savedEnv # oldImage \/ envFile = running)
    /\ command \in {"backup", "backup files", "pull", "recreate"} =>
         Serves /\ running = oldImage
    /\ command \in {"backup", "backup files", "pull", "recreate", "wait"} =>
         envFile = "new" /\ ~byHand
    /\ command = "wait" => running = "new"
    /\ command = "wait old" => running = oldImage
    /\ command \in Restoring \cup {"start old"} => running = "none"

(* The backup has the files of its scripts and, once the scripts have come to where *)
(* it may be needed, the schema of the image that they go back to.                  *)
CopyKept ==
    /\ command = "backup files" => copy.db.schema = oldImage /\ copy.db.rows \subseteq files
    /\ copy.complete => copy.db.rows \subseteq copy.files
    /\ copy.complete /\ command \notin {"none", "stranded", "backup", "backup files"} =>
         copy.db.schema = oldImage
    /\ command \in {"database in", "files aside", "files in", "start old"} => copy.complete

(* A log that belongs to another file is there. *)
LogKept ==
    /\ foreign => wal # NoDatabase
    /\ command \in {"database in", "files aside", "files in"} /\ previous.wal =>
         wal # NoDatabase

(* What a server that runs finds; between the commands of a restore none does. *)
FoundKept ==
    /\ running # "none" => Visible.rows \subseteq files
    /\ running = "old" => Visible.schema \in {"old", "garbled"}

(* What has been restored. *)
RestoredKept ==
    /\ command \in {"files aside", "files in", "start old"} => Visible \in {copy.db, Garbled}
    /\ command = "start old" => files = copy.files

UpgradeInv ==
    UpgradeOpsTypeOK /\ CommandKept /\ CopyKept /\ LogKept /\ FoundKept /\ RestoredKept

Kept == CommandKept /\ CopyKept /\ LogKept /\ FoundKept /\ RestoredKept

-----------------------------------------------------------------------------
(* Databases *)

LEMMA NoSuchDatabase ==
    /\ NoDatabase \notin Database /\ Garbled \notin Database /\ NoDatabase # Garbled
    /\ NoDatabase.schema = "none" /\ NoDatabase.rows = {}
    /\ Garbled.schema = "garbled" /\ Garbled.rows = {}
  <1>1. "none" \notin Image \cup {"half"} /\ "garbled" \notin Image \cup {"half"}
    BY DEF Image
  <1>2. \A d \in Database : d.schema \in Image \cup {"half"}
    BY DEF Database
  <1> QED
    BY <1>1, <1>2 DEF NoDatabase, Garbled

LEMMA DatabaseFields ==
    ASSUME NEW d \in Database
    PROVE  /\ d.rows \subseteq Stored /\ d.schema \in {"old", "half", "new"}
           /\ \A s \in Stored : [d EXCEPT !.rows = @ \cup {s}] \in Database
           /\ \A s \in Stored : [d EXCEPT !.rows = @ \cup {s}].rows = d.rows \cup {s}
           /\ \A s \in Stored : [d EXCEPT !.rows = @ \cup {s}].schema = d.schema
           /\ \A x \in {"old", "half", "new"} :
                /\ [d EXCEPT !.schema = x] \in Database
                /\ [d EXCEPT !.schema = x].rows = d.rows
                /\ [d EXCEPT !.schema = x].schema = x
  BY DEF Database, Image

LEMMA FoundIsTyped ==
    ASSUME UpgradeOpsTypeOK
    PROVE  /\ Visible \in Database \cup {NoDatabase, Garbled}
           /\ Visible.schema \in {"old", "half", "new"} => Visible \in Database
  <1>1. Visible \in {main, wal, Garbled} /\ (wal = NoDatabase => Visible = main)
    BY Zenon DEF Visible
  <1> QED
    BY <1>1, NoSuchDatabase DEF UpgradeOpsTypeOK

(* What a command leaves alone is found as it was. *)
LEMMA FoundUnchanged ==
    ASSUME UNCHANGED <<main, wal, foreign>>
    PROVE  Visible' = Visible
  BY DEF Visible

(* A server that stops, is killed or moves its log finds the same again. *)
LEMMA FoundAfterStop ==
    ASSUME UpgradeInv, Stopped
    PROVE  /\ Visible' = Visible /\ (foreign' => wal' # NoDatabase)
           /\ main' \in Database \cup {NoDatabase, Garbled}
           /\ wal' \in Database \cup {NoDatabase} /\ foreign' \in BOOLEAN
  <1> USE DEF UpgradeInv
  <1>1. CASE main' = Visible /\ wal' = NoDatabase /\ foreign' = FALSE
    <2>1. Visible' = main'
      BY <1>1, Zenon DEF Visible
    <2> QED
      BY <1>1, <2>1, FoundIsTyped
  <1>2. CASE UNCHANGED <<main, wal, foreign>>
    <2>1. foreign' => wal' # NoDatabase
      BY <1>2, Zenon DEF LogKept
    <2> QED
      BY <1>2, <2>1, FoundUnchanged DEF UpgradeOpsTypeOK
  <1> QED
    BY <1>1, <1>2 DEF Stopped

(* What a server writes is found. *)
LEMMA FoundAfterWrite ==
    ASSUME UpgradeInv, NEW db \in Database, Writes(db), Visible # Garbled
    PROVE  Visible' = db
  BY NoSuchDatabase DEF UpgradeInv, LogKept, UpgradeOpsTypeOK, Writes, Visible

-----------------------------------------------------------------------------
(* The server *)

LEMMA ServerTypes ==
    ASSUME UpgradeInv,
           Migrates \/ Checkpoints \/ \E s \in Stored : StoresFiles(s) \/ CommitsRow(s)
    PROVE  UpgradeOpsTypeOK'
  <1> USE DEF UpgradeInv
  <1>1. CASE \E s \in Stored : StoresFiles(s)
    BY <1>1 DEF StoresFiles, started, UpgradeOpsTypeOK
  <1>2. CASE \E s \in Stored : CommitsRow(s)
    <2>1. PICK s \in Stored : CommitsRow(s)
      BY <1>2
    <2>2. Visible \in Database
      BY <2>1, FoundIsTyped DEF CommitsRow, Serves, UpgradeOpsTypeOK, Image
    <2>3. [Visible EXCEPT !.rows = @ \cup {s}] \in Database
      BY <2>2, DatabaseFields
    <2> QED
      BY <2>1, <2>3 DEF CommitsRow, Writes, started, UpgradeOpsTypeOK
  <1>3. CASE Migrates
    <2>1. Visible \in Database
      BY <1>3, FoundIsTyped DEF Migrates
    <2>2. \A x \in {"half", "new"} : [Visible EXCEPT !.schema = x] \in Database
      BY <2>1, DatabaseFields
    <2> QED
      BY <1>3, <2>2 DEF Migrates, Writes, started, UpgradeOpsTypeOK
  <1>4. CASE Checkpoints
    BY <1>4 DEF Checkpoints, started, UpgradeOpsTypeOK
  <1> QED
    BY <1>1, <1>2, <1>3, <1>4

(* A server stores files before it lists a script, and migrates only under the    *)
(* new image; what it changes is neither the backup nor the command.              *)
LEMMA ServerKeeps ==
    ASSUME UpgradeInv,
           Migrates \/ Checkpoints \/ \E s \in Stored : StoresFiles(s) \/ CommitsRow(s)
    PROVE  Kept'
  <1> USE DEF UpgradeInv
  <1>1. running \in {"old", "new"} /\ command \notin Restoring \cup {"start old"}
        /\ UNCHANGED <<copy, previous, envFile, running, command, oldImage, savedEnv, byHand>>
    BY DEF Migrates, Checkpoints, StoresFiles, CommitsRow, Serves, Writes, CommandKept,
           UpgradeOpsTypeOK, Image, started
  <1>2. ASSUME files \subseteq files', Visible'.rows \subseteq files',
               Visible'.schema = Visible.schema, foreign' => wal' # NoDatabase
        PROVE  Kept'
    <2>1. LogKept'
      BY <1>1, <1>2 DEF LogKept, Restoring
    <2>2. CommandKept'
      BY <1>1, <1>2, Zenon DEF CommandKept, Serves
    <2> QED
      BY <1>1, <1>2, <2>1, <2>2 DEF Kept, CopyKept, FoundKept, RestoredKept, Restoring
  <1>3. CASE \E s \in Stored : StoresFiles(s)
    <2>1. files \subseteq files' /\ UNCHANGED <<main, wal, foreign>>
      BY <1>3 DEF StoresFiles
    <2>2. foreign' => wal' # NoDatabase
      BY <2>1, Zenon DEF LogKept
    <2>3. Visible' = Visible
      BY <2>1, FoundUnchanged
    <2> QED
      BY <1>1, <1>2, <2>1, <2>2, <2>3 DEF FoundKept
  <1>4. CASE \E s \in Stored : CommitsRow(s)
    <2>1. PICK s \in Stored : CommitsRow(s)
      BY <1>4
    <2>2. Visible \in Database
      BY <2>1, FoundIsTyped DEF CommitsRow, Serves, UpgradeOpsTypeOK, Image
    <2>3. PICK db \in Database : db = [Visible EXCEPT !.rows = @ \cup {s}]
      BY <2>2, DatabaseFields
    <2>4. Writes(db)
      BY <2>1, <2>3 DEF CommitsRow
    <2>5. Visible' = db
      BY <2>2, <2>4, FoundAfterWrite, NoSuchDatabase
    <2>6. db.rows = Visible.rows \cup {s} /\ db.schema = Visible.schema
      BY <2>2, <2>3, DatabaseFields
    <2>7. s \in files /\ files' = files /\ (foreign' => wal' # NoDatabase)
      BY <2>1, <2>4, NoSuchDatabase DEF CommitsRow, Writes
    <2> QED
      BY <1>1, <1>2, <2>5, <2>6, <2>7 DEF FoundKept
  <1>5. CASE Migrates
    <2>1. running = "new" /\ Visible \in Database /\ Visible.schema \in {"old", "half"}
      BY <1>5, FoundIsTyped DEF Migrates
    <2>2. PICK x \in {"half", "new"} : Writes([Visible EXCEPT !.schema = x])
      BY <1>5 DEF Migrates
    <2>3. PICK db \in Database : db = [Visible EXCEPT !.schema = x]
      BY <2>1, DatabaseFields
    <2>4. Writes(db)
      BY <2>2, <2>3
    <2>5. Visible' = db
      BY <2>1, <2>4, FoundAfterWrite, NoSuchDatabase
    <2>6. db.rows = Visible.rows
      BY <2>1, <2>3, DatabaseFields
    <2>7. files' = files /\ (foreign' => wal' # NoDatabase)
      BY <2>4, NoSuchDatabase DEF Writes
    <2>8. command \in {"wait", "roll back", "wait old", "stranded"}
      BY <2>1, <1>1 DEF CommandKept, Serves, UpgradeOpsTypeOK, Command
    <2> QED
      BY <1>1, <2>1, <2>5, <2>6, <2>7, <2>8
      DEF Kept, CommandKept, CopyKept, LogKept, FoundKept, RestoredKept, Restoring
  <1>6. CASE Checkpoints
    <2>1. Visible' = Visible /\ ~foreign' /\ files' = files
      BY <1>6 DEF Checkpoints, Visible
    <2> QED
      BY <1>1, <1>2, <2>1 DEF FoundKept
  <1> QED
    BY <1>3, <1>4, <1>5, <1>6

-----------------------------------------------------------------------------
(* The upgrade *)

Upgrades ==
    \/ UpgradeBegins \/ BackupFails \/ BackupStarts \/ BackupEnds \/ Pulls \/ Recreates
    \/ UpgradeIsReady \/ UpgradeFails

LEMMA BackupStartsWithDatabase ==
    ASSUME BackupStarts
    PROVE  copy' = [db |-> Visible, files |-> {}, complete |-> FALSE]
  <1>1. BackupOrder[1] = "db" /\ Live["db"] = Visible
    BY DEF BackupOrder, Live
  <1> QED
    BY <1>1 DEF BackupStarts

LEMMA BackupEndsWithFiles ==
    ASSUME UpgradeOpsTypeOK, BackupEnds
    PROVE  copy' = [db |-> copy.db, files |-> files, complete |-> TRUE]
  <1>1. BackupOrder[2] = "files" /\ Live["files"] = files
    BY DEF BackupOrder, Live
  <1>2. copy' = [copy EXCEPT !.files = files, !.complete = TRUE]
    BY <1>1 DEF BackupEnds
  <1> QED
    BY <1>2 DEF UpgradeOpsTypeOK

LEMMA UpgradeKeeps == ASSUME UpgradeInv, Upgrades PROVE UpgradeInv'
  <1> USE DEF UpgradeInv
  <1>1. ASSUME UNCHANGED <<main, wal, foreign, files, copy, previous>>,
               envFile' \in Image, running' = running, command' \in Command, oldImage' \in Image, savedEnv' \in Image, byHand' \in BOOLEAN,
               CommandKept', command \notin Restoring,
               command' \notin {"backup files", "start old"} \cup Restoring,
               \/ command' \in {"none", "backup"}
               \/ /\ oldImage' = oldImage
                  /\ command \notin {"none", "stranded", "backup", "backup files"}
        PROVE  UpgradeInv'
    <2>1. Visible' = Visible
      BY <1>1, FoundUnchanged
    <2>2. UpgradeOpsTypeOK'
      BY <1>1 DEF UpgradeOpsTypeOK
    <2> QED
      BY <1>1, <2>1, <2>2 DEF CopyKept, LogKept, FoundKept, RestoredKept, Restoring
  <1>2. CASE UpgradeBegins \/ BackupFails \/ Pulls \/ UpgradeIsReady \/ UpgradeFails
    <2>1. UNCHANGED <<main, wal, foreign, files, copy, previous, running>>
      BY <1>2 DEF UpgradeBegins, BackupFails, Pulls, UpgradeIsReady, UpgradeFails, live
    <2>2. Visible' = Visible
      BY <2>1, FoundUnchanged
    <2>3. command \notin Restoring
          /\ command' \in Command \ ({"backup files", "start old"} \cup Restoring)
      BY <1>2 DEF UpgradeBegins, BackupFails, Pulls, UpgradeIsReady, UpgradeFails, Goes,
                  Command, Restoring
    <2>4. envFile' \in Image /\ oldImage' \in Image /\ savedEnv' \in Image /\ byHand' \in BOOLEAN
      BY <1>2 DEF UpgradeBegins, BackupFails, Pulls, UpgradeIsReady, UpgradeFails, Image,
                  UpgradeOpsTypeOK, started, EnvPutBack, Serves
    <2>6. \/ command' \in {"none", "backup"}
          \/ /\ oldImage' = oldImage
             /\ command \notin {"none", "stranded", "backup", "backup files"}
      BY <1>2 DEF UpgradeBegins, BackupFails, Pulls, UpgradeIsReady, UpgradeFails, Goes, started
    <2>5. CommandKept'
      <3>1. CASE UpgradeBegins
        BY <2>1, <2>2, <3>1 DEF UpgradeBegins, Goes, started, CommandKept, Serves, Restoring
      <3>2. CASE BackupFails
        BY <2>1, <2>2, <3>2 DEF BackupFails, started, EnvPutBack, CommandKept, Serves, Restoring
      <3>3. CASE Pulls
        BY <2>1, <2>2, <3>3 DEF Pulls, Goes, started, CommandKept, Serves, Restoring
      <3>4. CASE UpgradeIsReady
        BY <2>1, <2>2, <3>4 DEF UpgradeIsReady, Goes, started, CommandKept, Serves, Restoring
      <3>5. CASE UpgradeFails
        BY <2>1, <2>2, <3>5 DEF UpgradeFails, started, EnvPutBack, CommandKept, Serves, Restoring
      <3> QED
        BY <1>2, <3>1, <3>2, <3>3, <3>4, <3>5
    <2> QED
      BY <1>1, <2>1, <2>3, <2>4, <2>5, <2>6
  <1>3. CASE BackupStarts
    <2>1. Visible \in Database /\ Visible.schema = oldImage /\ Visible.rows \subseteq files
      BY <1>3, FoundIsTyped DEF BackupStarts, Goes, CommandKept, Serves, FoundKept,
                                UpgradeOpsTypeOK, Image
    <2>2. copy' = [db |-> Visible, files |-> {}, complete |-> FALSE]
      BY <1>3, BackupStartsWithDatabase
    <2>3. command = "backup" /\ command' = "backup files"
          /\ UNCHANGED <<main, wal, foreign, files, previous, envFile, running>>
          /\ UNCHANGED <<oldImage, savedEnv, byHand>>
      BY <1>3 DEF BackupStarts, Goes, live, started
    <2>4. UpgradeOpsTypeOK'
      BY <2>1, <2>2, <2>3 DEF UpgradeOpsTypeOK, Command
    <2>5. LogKept'
      BY <2>3 DEF LogKept
    <2>6. Visible' = Visible
      BY <2>3, FoundUnchanged
    <2> QED
      BY <2>1, <2>2, <2>3, <2>4, <2>5, <2>6
      DEF CommandKept, CopyKept, FoundKept, RestoredKept, Serves, Restoring
  <1>4. CASE BackupEnds
    <2>1. copy' = [db |-> copy.db, files |-> files, complete |-> TRUE]
      BY <1>4, BackupEndsWithFiles
    <2>2. command = "backup files" /\ command' = "pull"
          /\ UNCHANGED <<main, wal, foreign, files, previous, envFile, running>>
          /\ UNCHANGED <<oldImage, savedEnv, byHand>>
      BY <1>4 DEF BackupEnds, Goes, live, started
    <2>3. UpgradeOpsTypeOK'
      BY <2>1, <2>2 DEF UpgradeOpsTypeOK, Command
    <2>4. LogKept'
      BY <2>2 DEF LogKept
    <2>5. Visible' = Visible
      BY <2>2, FoundUnchanged
    <2> QED
      BY <2>1, <2>2, <2>3, <2>4, <2>5
      DEF CommandKept, CopyKept, FoundKept, RestoredKept, Serves, Restoring
  <1>5. CASE Recreates
    <2>1. /\ Visible' = Visible /\ (foreign' => wal' # NoDatabase)
          /\ main' \in Database \cup {NoDatabase, Garbled}
          /\ wal' \in Database \cup {NoDatabase} /\ foreign' \in BOOLEAN
      BY <1>5, FoundAfterStop DEF Recreates
    <2>2. command = "recreate" /\ command' = "wait" /\ running' = "new"
          /\ UNCHANGED <<files, copy, previous, envFile, oldImage, savedEnv, byHand>>
      BY <1>5 DEF Recreates, Goes, started
    <2>3. UpgradeOpsTypeOK'
      BY <2>1, <2>2 DEF UpgradeOpsTypeOK, Command, Image
    <2> QED
      BY <2>1, <2>2, <2>3
      DEF CommandKept, CopyKept, LogKept, FoundKept, RestoredKept, Serves, Restoring
  <1> QED
    BY <1>2, <1>3, <1>4, <1>5 DEF Upgrades

-----------------------------------------------------------------------------
(* The way back *)

RollsBack ==
    \/ OperatorRollsBack \/ StopsServer \/ MovesDatabaseAside \/ InstallsDatabase
    \/ MovesFilesAside \/ InstallsFiles \/ RestoreFails \/ StartsOld \/ RolledBack
    \/ RollbackFails \/ ScriptDies

LEMMA RollbackTypes == ASSUME UpgradeInv, RollsBack PROVE UpgradeOpsTypeOK'
  <1> USE DEF UpgradeInv, UpgradeOpsTypeOK
  <1>1. CASE OperatorRollsBack \/ StartsOld \/ RolledBack \/ RollbackFails \/ ScriptDies
    BY <1>1 DEF OperatorRollsBack, StartsOld, RolledBack, RollbackFails, ScriptDies, Goes, live,
                started, EnvPutBack, Command, Image
  <1>2. CASE StopsServer
    <2>1. /\ main' \in Database \cup {NoDatabase, Garbled}
          /\ wal' \in Database \cup {NoDatabase} /\ foreign' \in BOOLEAN
      BY <1>2, FoundAfterStop DEF StopsServer
    <2> QED
      BY <1>2, <2>1 DEF StopsServer, Goes, started, Command, Restoring
  <1>3. CASE MovesDatabaseAside \/ InstallsDatabase \/ MovesFilesAside \/ InstallsFiles
    BY <1>3 DEF MovesDatabaseAside, InstallsDatabase, MovesFilesAside, InstallsFiles, Goes,
                started, Command, Restoring
  <1>4. CASE RestoreFails
    BY <1>4 DEF RestoreFails, started, EnvPutBack, Command, Image
  <1> QED
    BY <1>1, <1>2, <1>3, <1>4 DEF RollsBack

LEMMA RollbackKeeps == ASSUME UpgradeInv, RollsBack PROVE Kept'
  <1> USE DEF UpgradeInv, Kept
  <1>1. CASE OperatorRollsBack \/ StartsOld \/ RolledBack \/ RollbackFails \/ ScriptDies
    <2>1. Visible' = Visible
          /\ UNCHANGED <<main, wal, foreign, files, copy, previous>>
      BY <1>1, FoundUnchanged DEF OperatorRollsBack, StartsOld, RolledBack, RollbackFails,
                                  ScriptDies, live
    <2>2. command' \notin {"backup files", "start old"} \cup Restoring
      BY <1>1 DEF OperatorRollsBack, StartsOld, RolledBack, RollbackFails, ScriptDies, Goes,
                  Restoring
    <2>3. CopyKept' /\ LogKept' /\ RestoredKept'
      <3>1. \/ command' \in {"none", "stranded"}
            \/ command' = "roll back" /\ oldImage' = copy.db.schema
            \/ command = "start old" /\ oldImage' = oldImage
        BY <1>1 DEF OperatorRollsBack, StartsOld, RolledBack, RollbackFails, ScriptDies, Goes,
                    started
      <3> QED
        BY <2>1, <2>2, <3>1 DEF CopyKept, LogKept, RestoredKept, Restoring
    <2>4. FoundKept'
      <3>1. CASE StartsOld
        <4>1. Visible \in {copy.db, Garbled} /\ files = copy.files
              /\ copy.db.schema = oldImage /\ copy.db.rows \subseteq copy.files
              /\ running' = oldImage
          BY <3>1 DEF StartsOld, Goes, CopyKept, RestoredKept
        <4> QED
          BY <2>1, <4>1, NoSuchDatabase DEF FoundKept
      <3>2. CASE running' = running
        BY <2>1, <3>2 DEF FoundKept
      <3> QED
        BY <1>1, <3>1, <3>2 DEF OperatorRollsBack, RolledBack, RollbackFails, ScriptDies
    <2>5. CommandKept'
      BY <1>1, <2>1, <2>2 DEF OperatorRollsBack, StartsOld, RolledBack, RollbackFails, ScriptDies,
         Goes, started, EnvPutBack, CommandKept, Serves, Restoring
    <2> QED
      BY <2>3, <2>4, <2>5
  <1>2. CASE StopsServer
    <2>1. Visible' = Visible /\ (foreign' => wal' # NoDatabase)
      BY <1>2, FoundAfterStop DEF StopsServer
    <2> QED
      BY <1>2, <2>1 DEF StopsServer, Goes, started, CommandKept, CopyKept, LogKept, FoundKept,
                        RestoredKept, Restoring
  <1>3. CASE MovesDatabaseAside
    <2>1. previous'.wal = foreign
      BY <1>3 DEF MovesDatabaseAside, UpgradeOpsTypeOK
    <2> QED
      BY <1>3, <2>1 DEF MovesDatabaseAside, Goes, started, CommandKept, CopyKept, LogKept, FoundKept,
                        RestoredKept, Restoring
  <1>4. CASE InstallsDatabase
    <2>1. Visible' \in {copy.db, Garbled}
      BY <1>4 DEF InstallsDatabase, Visible
    <2> QED
      BY <1>4, <2>1 DEF InstallsDatabase, Goes, started, CommandKept, CopyKept, LogKept, FoundKept,
                        RestoredKept, Restoring
  <1>5. CASE MovesFilesAside \/ InstallsFiles
    <2>1. Visible' = Visible
      BY <1>5, FoundUnchanged DEF MovesFilesAside, InstallsFiles
    <2>2. previous'.wal = previous.wal
      BY <1>5 DEF MovesFilesAside, InstallsFiles, UpgradeOpsTypeOK
    <2>3. LogKept'
      <3>1. /\ command \in {"files aside", "files in"} /\ UNCHANGED <<wal, foreign>>
            /\ command' \in {"files in", "start old"}
        BY <1>5 DEF MovesFilesAside, InstallsFiles, Goes
      <3> QED
        BY <2>2, <3>1 DEF LogKept
    <2> QED
      BY <1>5, <2>1, <2>3 DEF MovesFilesAside, InstallsFiles, Goes, started, CommandKept, CopyKept,
                              FoundKept, RestoredKept, Restoring
  <1>6. CASE RestoreFails
    <2>1. command \in Restoring /\ command' = "stranded" /\ running = "none"
          /\ UNCHANGED <<wal, copy, previous, running>>
      BY <1>6 DEF RestoreFails, started, CommandKept
    <2>2. foreign' \in {foreign, previous.wal}
          /\ (command = "database aside" => foreign' = foreign)
      BY <1>6 DEF RestoreFails
    <2>3. LogKept'
      <3>1. command = "database aside" \/ command \in {"database in", "files aside", "files in"}
        BY <2>1 DEF Restoring
      <3>2. foreign' => wal # NoDatabase
        BY <2>2, <3>1, Zenon DEF LogKept
      <3> QED
        BY <2>1, <3>2 DEF LogKept
    <2> QED
      BY <2>1, <2>3 DEF CommandKept, CopyKept, FoundKept, RestoredKept, Restoring
  <1> QED
    BY <1>1, <1>2, <1>3, <1>4, <1>5, <1>6 DEF RollsBack

-----------------------------------------------------------------------------

LEMMA UpgradeInitial == UpgradeOpsInit => UpgradeInv
  <1> SUFFICES ASSUME UpgradeOpsInit PROVE UpgradeInv
    OBVIOUS
  <1>1. main = [rows |-> {}, schema |-> "old"] /\ Visible = main
    BY DEF UpgradeOpsInit, Visible
  <1>2. main \in Database
    BY <1>1 DEF Database, Image
  <1>3. UpgradeOpsTypeOK
    BY <1>2 DEF UpgradeOpsInit, UpgradeOpsTypeOK, Command, Image
  <1> QED
    BY <1>1, <1>3 DEF UpgradeOpsInit, UpgradeInv, CommandKept, CopyKept, LogKept, FoundKept,
                      RestoredKept, Serves, Restoring

LEMMA UpgradeSteps == UpgradeInv /\ [UpgradeOpsNext]_upgradeVars => UpgradeInv'
  <1> SUFFICES ASSUME UpgradeInv, [UpgradeOpsNext]_upgradeVars PROVE UpgradeInv'
    OBVIOUS
  <1>1. CASE Migrates \/ Checkpoints \/ \E s \in Stored : StoresFiles(s) \/ CommitsRow(s)
    BY <1>1, ServerTypes, ServerKeeps DEF UpgradeInv, Kept
  <1>2. CASE Upgrades
    BY <1>2, UpgradeKeeps
  <1>3. CASE RollsBack
    BY <1>3, RollbackTypes, RollbackKeeps DEF UpgradeInv, Kept
  <1>4. CASE UNCHANGED upgradeVars
    <2>1. Visible' = Visible
      BY <1>4, FoundUnchanged DEF upgradeVars
    <2>2. UNCHANGED <<main, wal, foreign, files, copy, previous, envFile, running, command,
                      oldImage, savedEnv, byHand>>
      BY <1>4 DEF upgradeVars, started
    <2>3. UpgradeOpsTypeOK'
      BY <2>2 DEF UpgradeInv, UpgradeOpsTypeOK
    <2>5. CopyKept' /\ FoundKept' /\ RestoredKept'
      BY <2>1, <2>2 DEF UpgradeInv, CopyKept, FoundKept, RestoredKept
    <2>4. CommandKept' /\ LogKept'
      BY <2>1, <2>2, Zenon DEF UpgradeInv, CommandKept, LogKept, Serves
    <2> QED
      BY <2>3, <2>4, <2>5 DEF UpgradeInv
  <1> QED
    BY <1>1, <1>2, <1>3, <1>4 DEF UpgradeOpsNext, Upgrades, RollsBack

THEOREM UpgradeInvariant == UpgradeOpsSpec => []UpgradeInv
  BY UpgradeInitial, UpgradeSteps, PTL DEF UpgradeOpsSpec

(* Whatever fails and wherever the scripts or the machine stop, a server never    *)
(* lists a script whose files are not there: the backup copies the database        *)
(* before the files, uploads store the files before the row, and nothing runs      *)
(* while only one of the two is restored.                                          *)
THEOREM AListedScriptHasItsFiles == UpgradeOpsSpec => []ListedScriptsHaveFiles
  <1>1. UpgradeInv => ListedScriptsHaveFiles
    BY DEF UpgradeInv, FoundKept, Serves, ListedScriptsHaveFiles
  <1> QED
    BY <1>1, UpgradeInvariant, PTL

(* The old server never runs on a database that was migrated, and a command that   *)
(* is through leaves a server whose image and schema agree and, from a .env file    *)
(* that named the image, one that names it.                                        *)
THEOREM ASettledServerIsConsistent == UpgradeOpsSpec => []SettledServerIsConsistent
  <1>1. UpgradeInv => SettledServerIsConsistent
    <2> SUFFICES ASSUME UpgradeInv, Visible # Garbled PROVE SettledServerIsConsistent
      BY DEF SettledServerIsConsistent
    <2>1. Visible.schema # "garbled"
      <3>1. Visible \in Database \cup {NoDatabase}
        BY FoundIsTyped DEF UpgradeInv
      <3> QED
        BY <3>1, NoSuchDatabase, DatabaseFields
    <2> QED
      BY <2>1 DEF UpgradeInv, CommandKept, FoundKept, Serves, SettledServerIsConsistent
  <1> QED
    BY <1>1, UpgradeInvariant, PTL

-----------------------------------------------------------------------------
(* Scripts *)

Row == [latest : 0..MaxRevision, content : Content, active : BOOLEAN, deleted : BOOLEAN]
Upload == [at : {"idle", "read", "stored"}, revision : 0..MaxRevision]
Created == [status : {"unused", "active", "ended"}, revision : 0..MaxRevision, content : Content]
Access == [script : SUBSET Group, user : SUBSET Group, active : SUBSET Group]

\* Without an overlap there is one upload at a time, of the revision after the latest.
UploadInv ==
    ~overlapped =>
       /\ \A u, w \in Uploader :
             uploading[u].at # "idle" /\ uploading[w].at # "idle" => u = w
       /\ \A u \in Uploader : uploading[u].at # "idle" =>
             row.latest > 0 /\ uploading[u].revision = row.latest + 1
       /\ \A u \in Uploader : uploading[u].at = "stored" =>
             stored[uploading[u].revision] = u

\* The runs have revisions that were committed.
RunInv ==
    ~overlapped => \A a \in Attempt :
       created[a].status # "unused" => created[a].revision \in 1..row.latest

\* The snapshot is at least as old as the authorization that it is of.
AgeInv == snapshot.allowed => since <= snapshot.age

FilesInv == UploadInv /\ RunInv /\ RevisionsKeepTheirFiles

LibraryInv == LibraryTypeOK /\ FilesInv /\ DeletedScriptHasNoActiveRun /\ AgeInv

LEMMA LibraryInvInit == LibraryInit => LibraryInv
  <1> SUFFICES ASSUME LibraryInit PROVE LibraryInv
    OBVIOUS
  <1>1. row \in Row /\ row.latest = 0 /\ ~row.deleted
    BY LibraryAssumption DEF LibraryInit, Row, Content
  <1>2. /\ uploading \in [Uploader -> Upload] /\ \A u \in Uploader : uploading[u].at = "idle"
        /\ created \in [Attempt -> Created] /\ \A a \in Attempt : created[a].status = "unused"
    BY LibraryAssumption DEF LibraryInit, Upload, Created, Content, IdleUpload
  <1>3. access \in Access
    BY DEF LibraryInit, Access
  <1>4. snapshot \in [allowed : BOOLEAN, age : 0..MaxAge + 1] /\ ~snapshot.allowed
        /\ since \in 0..MaxAge + 1
    BY LibraryAssumption DEF LibraryInit
  <1>5. LibraryTypeOK
    BY <1>1, <1>2, <1>3, <1>4, LibraryAssumption
       DEF LibraryInit, LibraryTypeOK, Row, Upload, Created, Access, Revision, Content
  <1> QED
    BY <1>1, <1>2, <1>4, <1>5
       DEF LibraryInv, FilesInv, UploadInv, RunInv, RevisionsKeepTheirFiles,
           DeletedScriptHasNoActiveRun, Active, AgeInv

-----------------------------------------------------------------------------
(* What each action does *)

\* The steps that leave the script, its files and its runs alone.
Aside ==
    \/ \E S \in SUBSET Group : UpdatesScriptGroups(S) \/ UpdatesUserGroups(S)
    \/ \E g \in Group : UpdatesGroup(g)
    \/ \E c \in Creator : CreationBegins(c) \/ CreationLocks(c) \/ CreationRefused(c)
    \/ DeletionLocks \/ Syncs \/ Invalidates \/ TimePasses

LEMMA AsideKeeps == ASSUME Aside PROVE UNCHANGED <<row, uploads, created>>
  BY DEF Aside, UpdatesScriptGroups, UpdatesUserGroups, UpdatesGroup, Grants, CreationBegins,
         CreationLocks, CreationRefused, DeletionLocks, Syncs, Invalidates, TimePasses, uploads,
         runs

LEMMA LibrarySteps ==
    ASSUME LibraryNext
    PROVE  \/ Aside
           \/ Switches
           \/ \E u \in Uploader : \/ \E S \in SUBSET Group : UploadsScript(u, S)
                                  \/ UploadBegins(u) \/ UploadStores(u) \/ UploadCommits(u)
                                  \/ UploadFails(u)
           \/ \E c \in Creator, a \in Attempt : Creates(c, a)
           \/ \E a \in Attempt : AttemptEnds(a)
           \/ Deletes
  BY DEF LibraryNext, Aside

-----------------------------------------------------------------------------
(* Types *)

LEMMA AddTickType == \A n \in 0..MaxAge + 1 : AddTick(n) \in 0..MaxAge + 1
  BY LibraryAssumption DEF AddTick

LEMMA AsideTypes ==
    ASSUME LibraryTypeOK, Aside PROVE LibraryTypeOK'
  <1> USE DEF LibraryTypeOK
  <1>0. UNCHANGED <<row, stored, uploading, overlapped, created>>
    BY AsideKeeps DEF uploads
  <1>1. ASSUME NEW new \in Access, Grants(new) PROVE LibraryTypeOK'
    BY <1>0, <1>1 DEF Grants, Access, runs, clientSide
  <1>2. access \in Access
    BY DEF Access
  <1>3. ASSUME NEW S \in SUBSET Group, UpdatesScriptGroups(S) PROVE LibraryTypeOK'
    <2>1. [access EXCEPT !.script = S] \in Access
      BY <1>2 DEF Access
    <2> QED
      BY <1>1, <1>3, <2>1 DEF UpdatesScriptGroups
  <1>4. ASSUME NEW S \in SUBSET Group, UpdatesUserGroups(S) PROVE LibraryTypeOK'
    <2>1. [access EXCEPT !.user = S] \in Access
      BY <1>2 DEF Access
    <2> QED
      BY <1>1, <1>4, <2>1 DEF UpdatesUserGroups
  <1>5. ASSUME NEW g \in Group, UpdatesGroup(g) PROVE LibraryTypeOK'
    <2> DEFINE S == IF g \in access.active THEN access.active \ {g} ELSE access.active \cup {g}
    <2>1. S \in SUBSET Group
      BY <1>2 DEF Access
    <2>2. [access EXCEPT !.active = S] \in Access
      BY <1>2, <2>1 DEF Access
    <2>3. Grants([access EXCEPT !.active = S])
      BY <1>5 DEF UpdatesGroup
    <2> HIDE DEF S
    <2> QED
      BY <1>1, <2>2, <2>3
  <1>6. ASSUME NEW c \in Creator, CreationBegins(c) \/ CreationLocks(c) \/ CreationRefused(c)
        PROVE  LibraryTypeOK'
    BY <1>0, <1>6 DEF CreationBegins, CreationLocks, CreationRefused, clientSide
  <1>7. CASE DeletionLocks
    BY <1>0, <1>7 DEF DeletionLocks, clientSide
  <1>8. CASE Syncs \/ Invalidates
    <2>1. snapshot' \in [allowed : BOOLEAN, age : 0..MaxAge + 1]
      <3>1. PICK allowed \in BOOLEAN : snapshot' = [allowed |-> allowed, age |-> 0]
        BY <1>8 DEF Syncs, Invalidates, Accessible, Present
      <3> QED
        BY <3>1, LibraryAssumption
    <2>2. since' \in 0..MaxAge + 1
      BY <1>8, LibraryAssumption DEF Syncs, Invalidates
    <2> QED
      BY <1>0, <1>8, <2>1, <2>2 DEF Syncs, Invalidates, runs
  <1>9. CASE TimePasses
    <2>1. snapshot' \in [allowed : BOOLEAN, age : 0..MaxAge + 1]
      BY <1>9, AddTickType DEF TimePasses
    <2>2. since' \in 0..MaxAge + 1
      BY <1>9, AddTickType, LibraryAssumption DEF TimePasses
    <2> QED
      BY <1>0, <1>9, <2>1, <2>2 DEF TimePasses, runs
  <1> QED
    BY <1>3, <1>4, <1>5, <1>6, <1>7, <1>8, <1>9 DEF Aside

\* The upload that is in progress, and the rest of the state of an upload's step.
LEMMA UploadTypes ==
    ASSUME LibraryTypeOK, NEW u \in Uploader,
           \/ \E S \in SUBSET Group : UploadsScript(u, S)
           \/ UploadBegins(u) \/ UploadStores(u) \/ UploadCommits(u) \/ UploadFails(u)
    PROVE  LibraryTypeOK'
  <1> USE DEF LibraryTypeOK
  <1>0. 0 \in 0..MaxRevision /\ 1 \in Revision /\ u \in Content /\ Nobody \in Content
    BY LibraryAssumption DEF Revision, Content
  <1>1. IdleUpload \in Upload
    BY <1>0 DEF IdleUpload, Upload
  <1>2. uploading[u] \in Upload
    BY DEF Upload
  <1>3. ASSUME NEW q \in Upload, uploading' = [uploading EXCEPT ![u] = q]
        PROVE  uploading' \in [Uploader -> Upload]
    BY <1>3 DEF Upload
  <1>4. ASSUME NEW S \in SUBSET Group, UploadsScript(u, S) PROVE LibraryTypeOK'
    <2>1. row' \in Row
      <3>1. row \in Row /\ 1 \in 0..MaxRevision
        BY LibraryAssumption DEF Row
      <3>2. PICK active \in BOOLEAN, deleted \in BOOLEAN, content \in Content, n \in 0..MaxRevision :
               row = [latest |-> n, content |-> content, active |-> active, deleted |-> deleted]
        BY <3>1 DEF Row
      <3>3. row' = [latest |-> 1, content |-> u, active |-> active, deleted |-> deleted]
        BY <1>4, <3>2 DEF UploadsScript
      <3> QED
        BY <1>0, <3>1, <3>3 DEF Row
    <2>2. stored' \in [Revision -> Content]
      BY <1>0, <1>4 DEF UploadsScript
    <2>3. access' \in Access
      BY <1>4 DEF UploadsScript, Access
    <2> QED
      BY <1>4, <2>1, <2>2, <2>3 DEF UploadsScript, Row, Access, runs, clientSide
  <1>5. CASE UploadBegins(u)
    <2>1. row.latest + 1 \in 0..MaxRevision
      BY <1>5, LibraryAssumption DEF UploadBegins
    <2>2. [at |-> "read", revision |-> row.latest + 1] \in Upload
      BY <2>1 DEF Upload
    <2>3. uploading' \in [Uploader -> Upload]
      BY <1>3, <1>5, <2>2 DEF UploadBegins
    <2>4. overlapped' \in BOOLEAN
      BY <1>5 DEF UploadBegins
    <2> QED
      BY <1>5, <2>3, <2>4 DEF UploadBegins, Upload, runs, clientSide
  <1>6. CASE UploadStores(u)
    <2>2. uploading' = [uploading EXCEPT ![u] = [uploading[u] EXCEPT !.at = "stored"]]
      BY <1>6 DEF UploadStores
    <2>3. [uploading[u] EXCEPT !.at = "stored"] \in Upload
      BY <1>2 DEF Upload
    <2>4. uploading' \in [Uploader -> Upload]
      BY <1>3, <2>2, <2>3
    <2>5. stored' \in [Revision -> Content]
      BY <1>0, <1>6 DEF UploadStores
    <2> QED
      BY <1>6, <2>4, <2>5 DEF UploadStores, Upload, runs, clientSide
  <1>7. CASE UploadCommits(u)
    <2>1. row' \in Row
      <3>1. PICK active \in BOOLEAN, deleted \in BOOLEAN, content \in Content, n \in 0..MaxRevision :
               row = [latest |-> n, content |-> content, active |-> active, deleted |-> deleted]
        BY DEF Row
      <3>2. PICK r \in 0..MaxRevision : r = uploading[u].revision
        BY <1>2 DEF Upload
      <3>3. row' = [latest |-> r, content |-> u, active |-> active, deleted |-> deleted]
        BY <1>7, <3>1, <3>2 DEF UploadCommits
      <3> QED
        BY <1>0, <3>3 DEF Row
    <2>2. uploading' \in [Uploader -> Upload]
      BY <1>1, <1>3, <1>7 DEF UploadCommits
    <2> QED
      BY <1>7, <2>1, <2>2 DEF UploadCommits, Row, Upload, runs, clientSide
  <1>8. CASE UploadFails(u)
    <2>1. uploading' \in [Uploader -> Upload]
      BY <1>1, <1>3, <1>8 DEF UploadFails
    <2> QED
      BY <1>8, <2>1 DEF UploadFails, Upload, runs, clientSide
  <1> QED
    BY <1>4, <1>5, <1>6, <1>7, <1>8

\* What creating a run does to the runs.
LEMMA CreatesEffect ==
    ASSUME LibraryTypeOK, NEW c \in Creator, NEW a \in Attempt, Creates(c, a)
    PROVE  LET made == [status |-> "active", revision |-> row.latest,
                        content |-> stored[row.latest]]
           IN  /\ created' = [created EXCEPT ![a] = made] /\ made \in Created
               /\ row.latest \in Revision /\ ~row.deleted /\ UNCHANGED <<row, uploads>>
  <1>1. row.latest \in Revision /\ ~row.deleted
    BY DEF LibraryTypeOK, Creates, Accessible, Present, Revision
  <1>2. stored[row.latest] \in Content /\ row.latest \in 0..MaxRevision
    BY <1>1 DEF LibraryTypeOK, Revision
  <1> QED
    BY <1>1, <1>2 DEF Creates, Created

LEMMA RunTypes ==
    ASSUME LibraryTypeOK,
           \/ \E c \in Creator, a \in Attempt : Creates(c, a)
           \/ \E a \in Attempt : AttemptEnds(a)
           \/ Deletes \/ Switches
    PROVE  LibraryTypeOK'
  <1>1. ASSUME NEW c \in Creator, NEW a \in Attempt, Creates(c, a) PROVE LibraryTypeOK'
    <2>1. created' \in [Attempt -> Created]
      BY <1>1, CreatesEffect DEF LibraryTypeOK, Created
    <2>2. UNCHANGED <<row, stored, uploading, overlapped, deleting, access, snapshot, since>>
      BY <1>1 DEF Creates, uploads, clientSide
    <2>3. creating' \in [Creator -> {"idle", "checked", "locked"}] /\ writer' = Nobody
      BY <1>1 DEF Creates, LibraryTypeOK
    <2> QED
      BY <2>1, <2>2, <2>3 DEF LibraryTypeOK, Created
  <1>2. ASSUME NEW a \in Attempt, AttemptEnds(a) PROVE LibraryTypeOK'
    <2>1. [created[a] EXCEPT !.status = "ended"] \in Created
      BY DEF LibraryTypeOK, Created
    <2>2. created' = [created EXCEPT ![a] = [created[a] EXCEPT !.status = "ended"]]
      BY <1>2 DEF AttemptEnds
    <2>3. created' \in [Attempt -> Created]
      BY <2>1, <2>2 DEF LibraryTypeOK, Created
    <2> QED
      BY <1>2, <2>3 DEF AttemptEnds, LibraryTypeOK, Created, uploads, clientSide
  <1>3. CASE Deletes
    <2>1. row' \in Row
      <3>1. PICK gone \in BOOLEAN : gone = (row.deleted \/ Active = {})
        OBVIOUS
      <3>2. row' = [row EXCEPT !.deleted = gone]
        BY <1>3, <3>1 DEF Deletes
      <3> QED
        BY <3>2 DEF Row, LibraryTypeOK
    <2> QED
      BY <1>3, <2>1 DEF Deletes, LibraryTypeOK, Row, uploads, clientSide
  <1>4. CASE Switches
    <2>1. row' \in Row
      BY <1>4 DEF Switches, Row, LibraryTypeOK
    <2> QED
      BY <1>4, <2>1 DEF Switches, LibraryTypeOK, Row, uploads, runs, clientSide
  <1> QED
    BY <1>1, <1>2, <1>3, <1>4

LEMMA LibraryTypesStep == ASSUME LibraryTypeOK, LibraryNext PROVE LibraryTypeOK'
  BY LibrarySteps, AsideTypes, UploadTypes, RunTypes

-----------------------------------------------------------------------------
(* The files of the revisions *)

LEMMA UploadKeepsFiles ==
    ASSUME LibraryTypeOK, FilesInv, NEW u \in Uploader,
           \/ \E S \in SUBSET Group : UploadsScript(u, S)
           \/ UploadBegins(u) \/ UploadStores(u) \/ UploadCommits(u) \/ UploadFails(u)
    PROVE  FilesInv'
  <1> USE DEF FilesInv, UploadInv, RunInv, RevisionsKeepTheirFiles
  <1> SUFFICES ASSUME ~overlapped'
               PROVE  UploadInv' /\ RunInv' /\ RevisionsKeepTheirFiles'
    OBVIOUS
  <1>0. ~overlapped
    BY DEF UploadsScript, UploadBegins, UploadStores, UploadCommits, UploadFails
  <1>1. row.latest \in 0..MaxRevision /\ MaxRevision \in Nat
    BY LibraryAssumption DEF LibraryTypeOK
  <1>2. uploading \in [Uploader -> Upload] /\ stored \in [Revision -> Content]
        /\ row \in Row /\ created \in [Attempt -> Created]
    BY DEF LibraryTypeOK, Upload, Row, Created
  <1>3. ASSUME NEW S \in SUBSET Group, UploadsScript(u, S) PROVE FilesInv'
    <2>1. row.latest = 0 /\ UNCHANGED <<uploading, created>>
      BY <1>3 DEF UploadsScript, runs
    <2>2. \A w \in Uploader : uploading[w].at = "idle"
      BY <1>0, <2>1
    <2>3. \A a \in Attempt : created[a].status = "unused"
      BY <1>0, <2>1
    <2>4. row'.latest = 1 /\ row'.content = u /\ stored' = [stored EXCEPT ![1] = u]
      BY <1>2, <1>3 DEF UploadsScript, Row
    <2>5. stored'[1] = u
      BY <1>1, <1>2, <2>4, LibraryAssumption DEF Revision
    <2> QED
      BY <2>1, <2>2, <2>3, <2>4, <2>5
  <1>4. CASE UploadBegins(u)
    <2>1. /\ uploading' = [uploading EXCEPT ![u] = [at |-> "read", revision |-> row.latest + 1]]
          /\ row.latest > 0 /\ UNCHANGED <<row, stored, created>>
      BY <1>1, <1>4 DEF UploadBegins, Present, runs
    <2>2. \A w \in Uploader : uploading[w].at = "idle"
      BY <1>4 DEF UploadBegins
    <2>3. \A w \in Uploader : uploading'[w].at # "idle" => w = u
      BY <1>2, <2>1, <2>2
    <2>4. uploading'[u].at = "read" /\ uploading'[u].revision = row.latest + 1
      BY <1>2, <2>1
    <2>5. UploadInv'
      BY <2>1, <2>3, <2>4
    <2>6. RunInv' /\ RevisionsKeepTheirFiles'
      BY <1>0, <2>1
    <2> QED
      BY <2>5, <2>6
  <1>5. CASE UploadStores(u)
    <2> DEFINE r == uploading[u].revision
    <2>1. r = row.latest + 1 /\ row.latest > 0
      BY <1>0, <1>5 DEF UploadStores
    <2>2. r \in Revision
      BY <1>1, <1>2, <2>1 DEF Upload, Revision
    <2>3. stored' = [stored EXCEPT ![r] = u] /\ UNCHANGED <<row, created>>
      BY <1>5 DEF UploadStores, runs
    <2>4. \A v \in 1..row.latest : stored'[v] = stored[v]
      BY <1>1, <1>2, <2>1, <2>2, <2>3 DEF Revision
    <2>5. \A w \in Uploader : uploading[w].at # "idle" => w = u
      BY <1>0, <1>5 DEF UploadStores
    <2>6. uploading' = [uploading EXCEPT ![u] = [uploading[u] EXCEPT !.at = "stored"]]
      BY <1>5 DEF UploadStores
    <2>7. uploading'[u].revision = r /\ \A w \in Uploader : w # u => uploading'[w] = uploading[w]
      BY <1>2, <2>6 DEF Upload
    <2>8. stored'[r] = u
      BY <1>2, <2>2, <2>3
    <2> HIDE DEF r
    <2>9. UploadInv'
      BY <2>1, <2>3, <2>5, <2>7, <2>8
    <2>10. RunInv'
      BY <1>0, <2>3
    <2>11. stored'[row.latest] = stored[row.latest]
      BY <1>1, <2>1, <2>4
    <2>12. ASSUME NEW a \in Attempt, created[a].status # "unused"
           PROVE  stored'[created[a].revision] = created[a].content
      BY <1>0, <2>4, <2>12
    <2> QED
      BY <1>0, <2>1, <2>3, <2>9, <2>10, <2>11, <2>12
  <1>6. CASE UploadCommits(u)
    <2> DEFINE r == uploading[u].revision
    <2>1. r = row.latest + 1 /\ row.latest > 0 /\ stored[r] = u
      BY <1>0, <1>6 DEF UploadCommits
    <2>2. row' = [row EXCEPT !.latest = r, !.content = u] /\ UNCHANGED <<stored, created>>
      BY <1>6 DEF UploadCommits, runs
    <2>3. row'.latest = r /\ row'.content = u
      BY <1>2, <2>2 DEF Row
    <2>4. \A w \in Uploader : uploading'[w].at = "idle"
      <3>1. uploading' = [uploading EXCEPT ![u] = IdleUpload]
        BY <1>6 DEF UploadCommits
      <3>2. \A w \in Uploader : uploading[w].at # "idle" => w = u
        BY <1>0, <1>6 DEF UploadCommits
      <3> QED
        BY <1>2, <3>1, <3>2 DEF IdleUpload
    <2> HIDE DEF r
    <2>5. RunInv'
      BY <1>0, <1>1, <2>1, <2>2, <2>3
    <2> QED
      BY <1>0, <2>1, <2>2, <2>3, <2>4, <2>5
  <1>7. CASE UploadFails(u)
    <2>1. uploading' = [uploading EXCEPT ![u] = IdleUpload] /\ UNCHANGED <<row, stored, created>>
      BY <1>7 DEF UploadFails, runs
    <2>2. uploading'[u].at = "idle" /\ \A w \in Uploader : w # u => uploading'[w] = uploading[w]
      BY <1>2, <2>1 DEF IdleUpload
    <2> QED
      BY <1>0, <2>1, <2>2
  <1> QED
    BY <1>3, <1>4, <1>5, <1>6, <1>7

LEMMA RunKeepsFiles ==
    ASSUME LibraryTypeOK, FilesInv,
           \/ Aside \/ Switches \/ Deletes
           \/ \E c \in Creator, a \in Attempt : Creates(c, a)
           \/ \E a \in Attempt : AttemptEnds(a)
    PROVE  FilesInv'
  <1> USE DEF FilesInv, UploadInv, RunInv, RevisionsKeepTheirFiles, uploads
  <1>1. CASE Aside
    BY <1>1, AsideKeeps
  <1>2. CASE Switches \/ Deletes
    <2>1. UNCHANGED <<uploads, created>>
      BY <1>2 DEF Switches, Deletes, runs
    <2>2. row'.latest = row.latest /\ row'.content = row.content
      BY <1>2 DEF Switches, Deletes, LibraryTypeOK
    <2> QED
      BY <2>1, <2>2
  <1>3. ASSUME NEW c \in Creator, NEW a \in Attempt, Creates(c, a) PROVE FilesInv'
    <2> DEFINE made == [status |-> "active", revision |-> row.latest,
                        content |-> stored[row.latest]]
    <2>1. /\ created' = [created EXCEPT ![a] = made]
          /\ row.latest \in Revision /\ UNCHANGED <<row, uploads>>
      BY <1>3, CreatesEffect
    <2>2. created'[a] = made /\ \A b \in Attempt : b # a => created'[b] = created[b]
      BY <2>1 DEF LibraryTypeOK
    <2>3. row.latest \in 1..row.latest
      BY <2>1, LibraryAssumption DEF Revision
    <2> QED
      BY <2>1, <2>2, <2>3
  <1>4. ASSUME NEW a \in Attempt, AttemptEnds(a) PROVE FilesInv'
    <2>1. created' = [created EXCEPT ![a].status = "ended"] /\ UNCHANGED <<row, uploads>>
      BY <1>4 DEF AttemptEnds
    <2>2. \A b \in Attempt : /\ created'[b].revision = created[b].revision
                             /\ created'[b].content = created[b].content
                             /\ created'[b].status # "unused" => created[b].status # "unused"
      BY <1>4, <2>1 DEF LibraryTypeOK, AttemptEnds
    <2> QED
      BY <2>1, <2>2
  <1> QED
    BY <1>1, <1>2, <1>3, <1>4

-----------------------------------------------------------------------------
(* Deletion, and the age of the snapshot *)

LEMMA DeletionStep ==
    ASSUME LibraryTypeOK, DeletedScriptHasNoActiveRun, LibraryNext
    PROVE  DeletedScriptHasNoActiveRun'
  <1> USE DEF DeletedScriptHasNoActiveRun, Active
  <1>1. CASE UNCHANGED <<row, created>>
    BY <1>1
  <1>2. ASSUME UNCHANGED created, row'.deleted = row.deleted PROVE DeletedScriptHasNoActiveRun'
    BY <1>2
  <1>3. CASE Switches
    BY <1>2, <1>3 DEF Switches, runs, LibraryTypeOK
  <1>4. ASSUME NEW u \in Uploader,
               \/ \E S \in SUBSET Group : UploadsScript(u, S)
               \/ UploadBegins(u) \/ UploadStores(u) \/ UploadCommits(u) \/ UploadFails(u)
        PROVE  DeletedScriptHasNoActiveRun'
    <2>1. UNCHANGED created
      BY <1>4 DEF UploadsScript, UploadBegins, UploadStores, UploadCommits, UploadFails, runs
    <2>2. row'.deleted = row.deleted
      BY <1>4 DEF UploadsScript, UploadBegins, UploadStores, UploadCommits, UploadFails,
                  LibraryTypeOK
    <2> QED
      BY <1>2, <2>1, <2>2
  <1>5. ASSUME NEW c \in Creator, NEW a \in Attempt, Creates(c, a)
        PROVE  DeletedScriptHasNoActiveRun'
    BY <1>5, CreatesEffect
  <1>6. ASSUME NEW a \in Attempt, AttemptEnds(a) PROVE DeletedScriptHasNoActiveRun'
    <2>1. created' = [created EXCEPT ![a].status = "ended"] /\ UNCHANGED row
      BY <1>6 DEF AttemptEnds
    <2>2. \A b \in Attempt : created'[b].status = "active" => created[b].status = "active"
      BY <2>1 DEF LibraryTypeOK
    <2> QED
      BY <2>1, <2>2
  <1>7. CASE Deletes
    <2>1. UNCHANGED created /\ row'.deleted = (row.deleted \/ Active = {})
      BY <1>7 DEF Deletes, LibraryTypeOK
    <2> QED
      BY <2>1
  <1> QED
    BY <1>1, <1>3, <1>4, <1>5, <1>6, <1>7, LibrarySteps, AsideKeeps

LEMMA AgeStep ==
    ASSUME LibraryTypeOK, AgeInv, LibraryNext PROVE AgeInv'
  <1> USE DEF AgeInv
  <1>1. CASE UNCHANGED clientSide
    BY <1>1 DEF clientSide
  <1>2. CASE Syncs \/ Invalidates
    <2>1. snapshot'.allowed => since' = 0 /\ snapshot'.age = 0
      BY <1>2 DEF Syncs, Invalidates
    <2> QED
      BY <2>1
  <1>3. CASE TimePasses
    <2>1. snapshot'.allowed = snapshot.allowed /\ snapshot'.age = AddTick(snapshot.age)
      BY <1>3 DEF TimePasses, LibraryTypeOK
    <2>2. snapshot.age \in 0..MaxAge + 1 /\ since \in 0..MaxAge + 1
      BY DEF LibraryTypeOK
    <2>3. since' = 0 \/ since' = AddTick(since)
      BY <1>3 DEF TimePasses
    <2> QED
      BY <2>1, <2>2, <2>3, LibraryAssumption DEF AddTick
  <1>4. Syncs \/ Invalidates \/ TimePasses \/ UNCHANGED clientSide
    BY DEF LibraryNext, UpdatesScriptGroups, UpdatesUserGroups, UpdatesGroup, Grants, Switches,
           UploadsScript, UploadBegins, UploadStores, UploadCommits, UploadFails, CreationBegins,
           CreationLocks, CreationRefused, Creates, AttemptEnds, DeletionLocks, Deletes, clientSide
  <1> QED
    BY <1>1, <1>2, <1>3, <1>4

-----------------------------------------------------------------------------
(* The invariant *)

LEMMA LibraryInvStep == ASSUME LibraryInv, [LibraryNext]_libraryVars PROVE LibraryInv'
  <1>1. CASE LibraryNext
    <2>1. LibraryTypeOK'
      BY <1>1, LibraryTypesStep DEF LibraryInv
    <2>2. FilesInv'
      BY <1>1, LibrarySteps, UploadKeepsFiles, RunKeepsFiles DEF LibraryInv
    <2> QED
      BY <1>1, <2>1, <2>2, DeletionStep, AgeStep DEF LibraryInv
  <1>2. CASE UNCHANGED libraryVars
    BY <1>2 DEF libraryVars, LibraryInv, LibraryTypeOK, FilesInv, UploadInv, RunInv,
                RevisionsKeepTheirFiles, DeletedScriptHasNoActiveRun, Active, AgeInv
  <1> QED
    BY <1>1, <1>2

(* The inductive invariant of a script, its uploads, its runs and the snapshot.   *)
THEOREM LibraryInvHolds == LibrarySpec => []LibraryInv
  <1>1. LibraryInv /\ [LibraryNext]_libraryVars => LibraryInv'
    BY LibraryInvStep
  <1> QED
    BY <1>1, LibraryInvInit, PTL DEF LibrarySpec

(* Type correctness of the handlers of uploads, groups, runs and deletions and of *)
(* the client's snapshot.                                                         *)
THEOREM LibraryTypeCorrect == LibrarySpec => []LibraryTypeOK
  <1>1. LibraryInv => LibraryTypeOK
    BY DEF LibraryInv
  <1> QED
    BY <1>1, LibraryInvHolds, PTL

(* However many handlers create runs while the script is deleted, no run of a     *)
(* deleted script is pending or running.                                          *)
THEOREM DeletedScriptsHaveNoActiveRun == LibrarySpec => []DeletedScriptHasNoActiveRun
  <1>1. LibraryInv => DeletedScriptHasNoActiveRun
    BY DEF LibraryInv
  <1> QED
    BY <1>1, LibraryInvHolds, PTL

(* Without overlapping uploads no revision of a run ever loses its files, for any *)
(* number of developers, runs and revisions.                                      *)
THEOREM RevisionsAreKept == LibrarySpec => []RevisionsKeepTheirFiles
  <1>1. LibraryInv => RevisionsKeepTheirFiles
    BY DEF LibraryInv, FilesInv
  <1> QED
    BY <1>1, LibraryInvHolds, PTL

(* For any maximum age of the snapshot: offline, a script starts at most that     *)
(* long after the server stopped allowing it.                                     *)
THEOREM RevocationReachesClients == LibrarySpec => []RevokedScriptsStop
  <1>1. LibraryInv => RevokedScriptsStop
    <2> SUFFICES ASSUME LibraryInv, snapshot.allowed, snapshot.age <= MaxAge
                 PROVE  since <= MaxAge
      BY DEF RevokedScriptsStop, MayStartOffline
    <2>1. since <= snapshot.age
      BY DEF LibraryInv, AgeInv
    <2>2. since \in 0..MaxAge + 1 /\ snapshot.age \in 0..MaxAge + 1
      BY DEF LibraryInv, LibraryTypeOK
    <2> QED
      BY <2>1, <2>2, LibraryAssumption
  <1> QED
    BY <1>1, LibraryInvHolds, PTL

-----------------------------------------------------------------------------
(* Together *)

(* The server behaves as each of these parts does, whatever the others do: the     *)
(* release cache, the upgrade scripts and the script library have no state in      *)
(* common (MCServerParts).                                                         *)
THEOREM AServerIsItsParts == Spec => ReleaseSpec /\ UpgradeOpsSpec /\ LibrarySpec
  <1> DEFINE vars == <<part, releaseVars, upgradeVars, libraryVars>>
  <1>1. Init => ReleaseInit /\ UpgradeOpsInit /\ LibraryInit
    BY DEF Init
  <1>2. [Next]_vars => /\ [ReleaseNext]_releaseVars /\ [UpgradeOpsNext]_upgradeVars
                       /\ [LibraryNext]_libraryVars
    BY DEF Next, ReleaseStep, UpgradeStep, ScriptStep
  <1> QED
    BY <1>1, <1>2, PTL DEF Spec, ReleaseSpec, UpgradeOpsSpec, LibrarySpec

(* Every variable of every part of the server keeps its type; no prerelease is     *)
(* listed as stable (_cache_release, _validate_staged, publish).                   *)
THEOREM TheServerIsTyped == Spec => []ServerPartsTypeOK
  <1>1. ReleaseInv => ReleaseTypeOK
    BY DEF ReleaseInv
  <1>2. UpgradeInv => UpgradeOpsTypeOK
    BY DEF UpgradeInv
  <1>3. ReleaseTypeOK /\ UpgradeOpsTypeOK /\ LibraryTypeOK => ServerPartsTypeOK
    BY DEF ServerPartsTypeOK
  <1> QED
    BY <1>1, <1>2, <1>3, AServerIsItsParts, ReleaseInvariant, UpgradeInvariant,
       LibraryTypeCorrect, PTL

=============================================================================
