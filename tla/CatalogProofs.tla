----------------------------- MODULE CatalogProofs -----------------------------
(***************************************************************************)
(* TLAPS proofs about the catalog and its workers, for any number of tasks *)
(* and workers of either kind, any tracks, bitrates and control files.     *)
(* The first part is about FilteredCatalog with any callers, and with the  *)
(* stdin task as its only one; the second about JitPublisher: what the     *)
(* workers do to the catalog they share are calls of its operations, and   *)
(* which tracks the catalog holds as their sessions come and go.           *)
(***************************************************************************)
EXTENDS JitPublisher, TLAPS

\* A configured bitrate turns a configuration into a configuration.
LEMMA WithBitrateType ==
    ASSUME NEW label, NEW config \in Config
    PROVE  WithBitrate(label, config) \in Config
BY CatalogAssumption DEF WithBitrate, Config

\* The catalog computed for subscribers is a catalog.
LEMMA FilteredCatalogType ==
    ASSUME TypeOK
    PROVE  FilteredCatalog \in Catalog
<1>1. ASSUME NEW t \in Tracks
      PROVE  FilteredOf(t) \in Config \cup {Absent}
  <2>1. full[t] \in Config \cup {Absent}
    BY DEF TypeOK, Catalog
  <2>2. QED
    BY <2>1, WithBitrateType DEF FilteredOf
<1>2. QED
  BY <1>1 DEF FilteredCatalog, Catalog

\* What subscribers should see depends on the three maps of the State only.
LEMMA FilteredCatalogFrame ==
    UNCHANGED <<labels, active, full>> => FilteredCatalog' = FilteredCatalog
BY DEF FilteredCatalog, FilteredOf, IsActive, LabelOf

LEMMA SingleTrackType ==
    ASSUME NEW t \in Tracks, NEW config \in Config
    PROVE  SingleTrack(t, config) \in Catalog
BY DEF SingleTrack, EmptyCatalog, Catalog

\* The operation every call ends with keeps the types of what it touches.
LEMMA CallPublishType ==
    ASSUME TypeOK, NEW t \in Threads, CallPublish(t)
    PROVE  /\ pc' \in [Threads -> {"idle", "compute", "write", "record"}]
           /\ UNCHANGED <<lastPublished, live, next, overlapped>>
BY DEF TypeOK, CallPublish

LEMMA UpsertType ==
    ASSUME TypeOK, NEW w \in Workers, NEW c \in Catalog,
           UpsertVideoCatalog(w, w, c)
    PROVE  TypeOK'
<1>1. w \in Label /\ w \in Threads
  BY CatalogAssumption DEF Label, Threads
<1>2. labels' \in [Tracks -> Label \cup {Absent}]
  BY <1>1 DEF UpsertVideoCatalog, TypeOK
<1>3. ASSUME NEW u \in Tracks, c[u] # Absent
      PROVE  WithBitrate(w, c[u]) \in Config
  BY <1>3, WithBitrateType DEF Catalog
<1>4. full' \in Catalog
  BY <1>3 DEF UpsertVideoCatalog, TypeOK, Catalog
<1>5. QED
  BY <1>1, <1>2, <1>4, CallPublishType DEF UpsertVideoCatalog, TypeOK

LEMMA RemoveLabelType ==
    ASSUME TypeOK, NEW w \in Workers, RemoveLabel(w, w)
    PROVE  TypeOK'
<1>1. w \in Threads
  BY DEF Threads
<1>2. labels' \in [Tracks -> Label \cup {Absent}]
  BY DEF RemoveLabel, TypeOK
<1>3. full' \in Catalog
  BY DEF RemoveLabel, TypeOK, Catalog
<1>4. QED
  BY <1>1, <1>2, <1>3, CallPublishType DEF RemoveLabel, TypeOK

LEMMA SetActiveType ==
    ASSUME TypeOK, NEW t \in Watchers, NEW names \in Filter, SetActive(t, names)
    PROVE  TypeOK'
<1>1. t \in Threads
  BY DEF Threads
<1>2. QED
  BY <1>1, CallPublishType DEF SetActive, TypeOK

LEMMA SyncFromType ==
    ASSUME TypeOK, NEW t \in Readers, NEW c \in Catalog, SyncFrom(t, c)
    PROVE  TypeOK'
<1>1. t \in Threads
  BY DEF Threads
<1>2. VideoLabels(c) \in [Tracks -> Label \cup {Absent}]
  BY DEF VideoLabels, Label, Names
<1>3. QED
  BY <1>1, <1>2, CallPublishType DEF SyncFrom, TypeOK

LEMMA PublishStepType ==
    ASSUME TypeOK, NEW t \in Threads, PublishStep(t)
    PROVE  TypeOK'
<1>1. CASE ComputeNext(t)
  BY <1>1, FilteredCatalogType DEF ComputeNext, TypeOK, Publishing
<1>2. CASE WriteProducer(t)
  BY <1>2 DEF WriteProducer, TypeOK
<1>3. CASE RecordPublished(t)
  <2>1. EmptyCatalog \in Catalog
    BY DEF EmptyCatalog, Catalog
  <2>2. QED
    BY <1>3, <2>1 DEF RecordPublished, TypeOK
<1>4. QED
  BY <1>1, <1>2, <1>3 DEF PublishStep

LEMMA TypeInitially == Init => TypeOK
<1> SUFFICES ASSUME NEW names \in SUBSET Names, Start(names)
             PROVE  TypeOK
  BY DEF Init
<1>1. EmptyCatalog \in Catalog
  BY DEF EmptyCatalog, Catalog
<1>2. EmptyCatalog \in [Tracks -> Label \cup {Absent}]
  BY DEF EmptyCatalog
<1>3. InitialFilter(names) \in Filter
  BY DEF InitialFilter, Filter
<1>4. QED
  BY <1>1, <1>2, <1>3 DEF Start, TypeOK

LEMMA TypeInductive == TypeOK /\ [Next]_catalogVars => TypeOK'
<1> SUFFICES ASSUME TypeOK, [Next]_catalogVars
             PROVE  TypeOK'
  OBVIOUS
<1>1. ASSUME NEW w \in Workers, WorkerCall(w)
      PROVE  TypeOK'
  <2>1. CASE RemoveLabel(w, w)
    BY <2>1, RemoveLabelType
  <2>2. CASE \E track \in OwnTracks[w], config \in Config :
                UpsertVideoCatalog(w, w, SingleTrack(track, config))
    <3>1. PICK track \in OwnTracks[w], config \in Config :
                UpsertVideoCatalog(w, w, SingleTrack(track, config))
      BY <2>2
    <3>2. SingleTrack(track, config) \in Catalog
      BY SingleTrackType, CatalogAssumption
    <3>3. QED
      BY <3>1, <3>2, UpsertType
  <2>3. QED
    BY <1>1, <2>1, <2>2 DEF WorkerCall
<1>2. CASE \E t \in Readers, c \in Catalog : SyncFrom(t, c)
  BY <1>2, SyncFromType
<1>3. CASE \E t \in Watchers, names \in Filter : SetActive(t, names)
  BY <1>3, SetActiveType
<1>4. CASE \E t \in Threads : PublishStep(t)
  BY <1>4, PublishStepType
<1>5. CASE UNCHANGED catalogVars
  BY <1>5 DEF TypeOK, catalogVars
<1>6. QED
  BY <1>1, <1>2, <1>3, <1>4, <1>5 DEF Next

\* Every variable keeps its type, whichever tasks call which operations.
THEOREM TypeCorrect == Spec => []TypeOK
BY TypeInitially, TypeInductive, PTL DEF Spec

-----------------------------------------------------------------------------
(* The inductive invariant behind SerialPublishesConverge.  While no two    *)
(* publications overlapped: at most one task is past its first lock, its    *)
(* next is what subscribers should see unless some task is about to compute *)
(* anew, and between publications last_published is what subscribers see.   *)

LastIsLive ==
    live = lastPublished \/ (lastPublished = Absent /\ live = EmptyCatalog)

OnePublisher == \A t, u \in Publishing : t = u

NextIsCurrent ==
    \A t \in Publishing :
        \/ next[t] = FilteredCatalog
        \/ \E u \in Threads : pc[u] = "compute"

RecordedIsLive == \A t \in Threads : pc[t] = "record" => live = next[t]

SerialInv ==
    ~overlapped =>
        /\ OnePublisher
        /\ NextIsCurrent
        /\ RecordedIsLive
        /\ Publishing = {} => LastIsLive
        /\ AllIdle => live = FilteredCatalog

\* An operation only adds a task about to compute.
LEMMA CallPreservesSerialInv ==
    ASSUME TypeOK, SerialInv, NEW t \in Threads, CallPublish(t)
    PROVE  SerialInv'
<1>1. /\ pc'[t] = "compute"
      /\ Publishing' = Publishing
      /\ \A u \in Threads : pc'[u] = "record" => pc[u] = "record"
  BY DEF CallPublish, TypeOK, Publishing
<1>2. UNCHANGED <<lastPublished, live, next, overlapped>>
  BY DEF CallPublish
<1>3. NextIsCurrent' /\ ~AllIdle'
  BY <1>1 DEF NextIsCurrent, AllIdle
<1>4. ~overlapped => OnePublisher' /\ RecordedIsLive'
  BY <1>1, <1>2 DEF SerialInv, OnePublisher, RecordedIsLive
<1>5. (~overlapped /\ Publishing' = {}) => LastIsLive'
  BY <1>1, <1>2 DEF SerialInv, LastIsLive, EmptyCatalog
<1>6. QED
  BY <1>2, <1>3, <1>4, <1>5 DEF SerialInv

LEMMA ComputePreservesSerialInv ==
    ASSUME TypeOK, SerialInv, NEW t \in Threads, ComputeNext(t)
    PROVE  SerialInv'
<1> SUFFICES ASSUME ~overlapped'
             PROVE  /\ OnePublisher' /\ NextIsCurrent' /\ RecordedIsLive'
                    /\ (Publishing = {} => LastIsLive)'
                    /\ (AllIdle => live = FilteredCatalog)'
  BY DEF SerialInv
<1>1. /\ ~overlapped /\ Publishing = {} /\ pc[t] = "compute"
      /\ UNCHANGED <<labels, active, full, lastPublished, live>>
  BY DEF ComputeNext
<1>2. FilteredCatalog' = FilteredCatalog
  BY <1>1, FilteredCatalogFrame
<1>3. LastIsLive
  BY <1>1 DEF SerialInv
<1>4. CASE lastPublished = FilteredCatalog /\ pc' = [pc EXCEPT ![t] = "idle"]
  <2>1. Publishing' = {}
    BY <1>1, <1>4 DEF TypeOK, Publishing
  <2>2. lastPublished # Absent
    BY <1>4, FilteredCatalogType, CatalogAssumption
  <2>3. live = FilteredCatalog
    BY <1>3, <1>4, <2>2 DEF LastIsLive
  <2>4. RecordedIsLive'
    BY <2>1 DEF RecordedIsLive, Publishing
  <2>5. LastIsLive'
    BY <1>1, <1>3 DEF LastIsLive, EmptyCatalog
  <2>6. QED
    BY <1>1, <1>2, <2>1, <2>3, <2>4, <2>5 DEF OnePublisher, NextIsCurrent
<1>5. CASE /\ next' = [next EXCEPT ![t] = FilteredCatalog]
           /\ pc' = [pc EXCEPT ![t] = "write"]
  <2>1. Publishing' = {t} /\ pc'[t] = "write"
    BY <1>1, <1>5 DEF TypeOK, Publishing
  <2>2. next'[t] = FilteredCatalog'
    BY <1>2, <1>5 DEF TypeOK
  <2>3. RecordedIsLive'
    BY <2>1 DEF RecordedIsLive, Publishing
  <2>4. ~AllIdle'
    BY <2>1 DEF AllIdle
  <2>5. QED
    BY <2>1, <2>2, <2>3, <2>4 DEF OnePublisher, NextIsCurrent
<1>6. QED
  BY <1>4, <1>5 DEF ComputeNext

LEMMA WritePreservesSerialInv ==
    ASSUME TypeOK, SerialInv, NEW t \in Threads, WriteProducer(t)
    PROVE  SerialInv'
<1> SUFFICES ASSUME ~overlapped
             PROVE  /\ OnePublisher' /\ NextIsCurrent' /\ RecordedIsLive'
                    /\ (Publishing = {} => LastIsLive)'
                    /\ (AllIdle => live = FilteredCatalog)'
  BY DEF SerialInv, WriteProducer
<1>1. /\ t \in Publishing /\ pc'[t] = "record" /\ Publishing' = Publishing
      /\ \A u \in Threads : pc[u] = "compute" => pc'[u] = "compute"
  BY DEF WriteProducer, TypeOK, Publishing
<1>2. FilteredCatalog' = FilteredCatalog
  BY FilteredCatalogFrame DEF WriteProducer
<1>3. OnePublisher /\ NextIsCurrent
  BY DEF SerialInv
<1>4. OnePublisher'
  BY <1>1, <1>3 DEF OnePublisher
<1>5. NextIsCurrent'
  BY <1>1, <1>2, <1>3 DEF NextIsCurrent, WriteProducer
<1>6. RecordedIsLive'
  <2> SUFFICES ASSUME NEW u \in Threads, pc'[u] = "record"
               PROVE  live' = next'[u]
    BY DEF RecordedIsLive
  <2>1. u = t
    BY <1>1, <1>4 DEF OnePublisher, Publishing
  <2>2. QED
    BY <2>1 DEF WriteProducer
<1>7. ~AllIdle' /\ Publishing' # {}
  BY <1>1 DEF AllIdle
<1>8. QED
  BY <1>4, <1>5, <1>6, <1>7

LEMMA RecordPreservesSerialInv ==
    ASSUME TypeOK, SerialInv, NEW t \in Threads, RecordPublished(t)
    PROVE  SerialInv'
<1> SUFFICES ASSUME ~overlapped
             PROVE  /\ OnePublisher' /\ NextIsCurrent' /\ RecordedIsLive'
                    /\ (Publishing = {} => LastIsLive)'
                    /\ (AllIdle => live = FilteredCatalog)'
  BY DEF SerialInv, RecordPublished
<1>1. t \in Publishing /\ live = next[t]
  BY DEF RecordPublished, Publishing, SerialInv, RecordedIsLive
<1>2. Publishing' = {}
  <2>1. \A u \in Publishing : u = t
    BY <1>1 DEF SerialInv, OnePublisher
  <2>2. QED
    BY <2>1 DEF RecordPublished, TypeOK, Publishing
<1>3. OnePublisher' /\ NextIsCurrent' /\ RecordedIsLive'
  BY <1>2 DEF OnePublisher, NextIsCurrent, RecordedIsLive, Publishing
<1>4. LastIsLive'
  BY <1>1 DEF RecordPublished, LastIsLive
<1>5. ASSUME AllIdle'
      PROVE  live' = FilteredCatalog'
  <2>1. \A u \in Threads : pc[u] # "compute"
    BY <1>5 DEF RecordPublished, TypeOK, AllIdle
  <2>2. next[t] = FilteredCatalog
    BY <1>1, <2>1 DEF SerialInv, NextIsCurrent
  <2>3. FilteredCatalog' = FilteredCatalog
    BY FilteredCatalogFrame DEF RecordPublished
  <2>4. QED
    BY <1>1, <2>2, <2>3 DEF RecordPublished
<1>6. QED
  BY <1>3, <1>4, <1>5

LEMMA SerialInvInductive == TypeOK /\ SerialInv /\ [Next]_catalogVars => SerialInv'
<1> SUFFICES ASSUME TypeOK, SerialInv, [Next]_catalogVars
             PROVE  SerialInv'
  OBVIOUS
<1>1. ASSUME NEW w \in Workers, WorkerCall(w)
      PROVE  SerialInv'
  <2>1. w \in Threads /\ CallPublish(w)
    BY <1>1 DEF Threads, WorkerCall, UpsertVideoCatalog, RemoveLabel
  <2>2. QED
    BY <2>1, CallPreservesSerialInv
<1>2. ASSUME NEW t \in Readers, NEW c \in Catalog, SyncFrom(t, c)
      PROVE  SerialInv'
  BY <1>2, CallPreservesSerialInv DEF Threads, SyncFrom
<1>3. ASSUME NEW t \in Watchers, NEW names \in Filter, SetActive(t, names)
      PROVE  SerialInv'
  BY <1>3, CallPreservesSerialInv DEF Threads, SetActive
<1>4. ASSUME NEW t \in Threads, PublishStep(t)
      PROVE  SerialInv'
  BY <1>4, ComputePreservesSerialInv, WritePreservesSerialInv,
     RecordPreservesSerialInv DEF PublishStep
<1>5. CASE UNCHANGED catalogVars
  <2>1. FilteredCatalog' = FilteredCatalog
    BY <1>5, FilteredCatalogFrame DEF catalogVars
  <2>2. QED
    BY <1>5, <2>1 DEF catalogVars, SerialInv, OnePublisher, NextIsCurrent,
       RecordedIsLive, LastIsLive, AllIdle, Publishing, EmptyCatalog
<1>6. QED
  BY <1>1, <1>2, <1>3, <1>4, <1>5 DEF Next

LEMMA SerialInvInitially == Init => SerialInv
<1> SUFFICES ASSUME NEW names \in SUBSET Names, Start(names)
             PROVE  SerialInv
  BY DEF Init
<1>1. FilteredCatalog = EmptyCatalog
  BY DEF Start, FilteredCatalog, FilteredOf, EmptyCatalog
<1>2. Publishing = {}
  BY DEF Start, Publishing
<1>3. QED
  BY <1>1, <1>2 DEF Start, SerialInv, OnePublisher, NextIsCurrent,
     RecordedIsLive, LastIsLive, Publishing

\* For any number of tasks, tracks and renditions: unless two calls of
\* publish_if_changed overlapped, subscribers see exactly the filtered catalog
\* whenever no call is in progress.
THEOREM SerialConvergence == Spec => []SerialPublishesConverge
<1>1. SerialInv => SerialPublishesConverge
  BY DEF SerialInv, SerialPublishesConverge
<1>2. QED
  BY <1>1, SerialInvInitially, SerialInvInductive, TypeCorrect, PTL DEF Spec

-----------------------------------------------------------------------------
(* With the stdin task as its only caller the catalog implements            *)
(* AdvertisedCatalog: computing the next catalog is the abstract Publish,   *)
(* an operation is a Change, the other locked regions are stutters.         *)

LEMMA StdinIsNext == StdinNext => Next
BY DEF StdinNext, Next, Threads

LEMMA StdinTypes == StdinSpec => []TypeOK
<1>1. TypeOK /\ [StdinNext]_catalogVars => TypeOK'
  BY StdinIsNext, TypeInductive
<1>2. QED
  BY <1>1, TypeInitially, PTL DEF StdinSpec

\* What a lone task is about to write is what subscribers count as seeing.
LEMMA SeenByOne ==
    ASSUME NEW t, Threads = {t}
    PROVE  Seen = IF pc[t] = "write" THEN next[t] ELSE live
<1>1. CASE pc[t] = "write"
  <2>1. {u \in Threads : pc[u] = "write"} = {t}
    BY <1>1
  <2>2. (CHOOSE u \in {t} : TRUE) = t
    OBVIOUS
  <2>3. QED
    BY <1>1, <2>1, <2>2 DEF Seen
<1>2. CASE pc[t] # "write"
  <2>1. {u \in Threads : pc[u] = "write"} = {}
    BY <1>2
  <2>2. QED
    BY <1>2, <2>1 DEF Seen
<1>3. QED
  BY <1>1, <1>2

LEMMA SeenByOneNext ==
    ASSUME NEW t, Threads = {t}
    PROVE  Seen' = IF pc'[t] = "write" THEN next'[t] ELSE live'
<1>1. CASE pc'[t] = "write"
  <2>1. {u \in Threads : pc'[u] = "write"} = {t}
    BY <1>1
  <2>2. (CHOOSE u \in {t} : TRUE) = t
    OBVIOUS
  <2>3. QED
    BY <1>1, <2>1, <2>2 DEF Seen
<1>2. CASE pc'[t] # "write"
  <2>1. {u \in Threads : pc'[u] = "write"} = {}
    BY <1>2
  <2>2. QED
    BY <1>2, <2>1 DEF Seen
<1>3. QED
  BY <1>1, <1>2

LEMMA WantedNext ==
    ASSUME TypeOK'
    PROVE  FilteredCatalog' \in Catalog
<1>1. ASSUME NEW t \in Tracks
      PROVE  FilteredOf(t)' \in Config \cup {Absent}
  <2>1. full'[t] \in Config \cup {Absent}
    BY DEF TypeOK, Catalog
  <2>2. QED
    BY <2>1, WithBitrateType DEF FilteredOf
<1>2. QED
  BY <1>1 DEF FilteredCatalog, Catalog

LEMMA StdinInitially ==
    ASSUME NEW t, Threads = {t}, Init
    PROVE  Advertised!Init
<1>1. PICK names \in SUBSET Names : Start(names)
  BY DEF Init
<1>2. FilteredCatalog = EmptyCatalog
  BY <1>1 DEF Start, FilteredCatalog, FilteredOf, EmptyCatalog
<1>3. Seen = EmptyCatalog
  BY <1>1, SeenByOne DEF Start
<1>4. EmptyCatalog \in Catalog
  BY DEF EmptyCatalog, Catalog
<1>5. QED
  BY <1>2, <1>3, <1>4 DEF Advertised!Init

LEMMA StdinStep ==
    ASSUME NEW t, Readers = {t}, Threads = {t}, TypeOK, TypeOK', [StdinNext]_catalogVars
    PROVE  [Advertised!Next]_Advertised!vars
<1>1. /\ Seen = IF pc[t] = "write" THEN next[t] ELSE live
      /\ Seen' = IF pc'[t] = "write" THEN next'[t] ELSE live'
  BY SeenByOne, SeenByOneNext
<1>2. ASSUME NEW c \in Catalog, SyncFrom(t, c)
      PROVE  Advertised!Change
  <2>1. pc[t] = "idle" /\ pc'[t] = "compute" /\ live' = live
    BY <1>2 DEF SyncFrom, CallPublish, TypeOK
  <2>2. FilteredCatalog' \in Catalog
    BY WantedNext
  <2>3. QED
    BY <1>1, <2>1, <2>2 DEF Advertised!Change
<1>3. CASE ComputeNext(t)
  <2>1. /\ FilteredCatalog' = FilteredCatalog /\ live' = live
        /\ pc[t] = "compute"
    BY <1>3, FilteredCatalogFrame DEF ComputeNext
  <2>2. CASE pc' = [pc EXCEPT ![t] = "idle"]
    <3>1. pc'[t] = "idle"
      BY <2>2 DEF TypeOK
    <3>2. QED
      BY <1>1, <2>1, <3>1 DEF Advertised!vars
  <2>3. CASE /\ next' = [next EXCEPT ![t] = FilteredCatalog]
             /\ pc' = [pc EXCEPT ![t] = "write"]
    <3>1. pc'[t] = "write" /\ next'[t] = FilteredCatalog
      BY <2>3 DEF TypeOK
    <3>2. Advertised!Publish
      BY <1>1, <2>1, <3>1 DEF Advertised!Publish
    <3>3. QED
      BY <3>2 DEF Advertised!Next
  <2>4. QED
    BY <1>3, <2>2, <2>3 DEF ComputeNext
<1>4. CASE WriteProducer(t)
  <2>1. /\ FilteredCatalog' = FilteredCatalog
        /\ pc[t] = "write" /\ pc'[t] = "record" /\ live' = next[t]
    BY <1>4, FilteredCatalogFrame DEF WriteProducer, TypeOK
  <2>2. QED
    BY <1>1, <2>1 DEF Advertised!vars
<1>5. CASE RecordPublished(t)
  <2>1. /\ FilteredCatalog' = FilteredCatalog
        /\ pc[t] = "record" /\ pc'[t] = "idle" /\ live' = live
    BY <1>5, FilteredCatalogFrame DEF RecordPublished, TypeOK
  <2>2. QED
    BY <1>1, <2>1 DEF Advertised!vars
<1>6. CASE UNCHANGED catalogVars
  <2>1. FilteredCatalog' = FilteredCatalog
    BY <1>6, FilteredCatalogFrame DEF catalogVars
  <2>2. QED
    BY <1>1, <1>6, <2>1 DEF Advertised!vars, catalogVars
<1>7. QED
  BY <1>2, <1>3, <1>4, <1>5, <1>6 DEF StdinNext, PublishStep, Advertised!Next

\* For any tracks and renditions: subscribers of a publisher that reads from
\* stdin only ever see catalogs that were wanted, in the order in which they
\* were.  (That they catch up is left to the runs.)
THEOREM StdinImplements ==
    ASSUME NEW t, Readers = {t}, Threads = {t}
    PROVE  StdinSpec => Advertised!Init /\ [][Advertised!Next]_Advertised!vars
<1>1. Init => Advertised!Init
  BY StdinInitially
<1>2. TypeOK /\ TypeOK' /\ [StdinNext]_catalogVars => [Advertised!Next]_Advertised!vars
  BY StdinStep
<1>3. QED
  BY <1>1, <1>2, StdinTypes, PTL DEF StdinSpec

-----------------------------------------------------------------------------
(* The workers                                                             *)

\* The track of a session is one of its worker's own, and there is none before
\* the session is seeded or after it was dropped.
SessionInv ==
    \A w \in Workers :
        IF phase[w] \in {"seeded", "running"}
        THEN current[w] \in OwnTracks[w]
        ELSE current[w] = Absent

JitInv == JitTypeOK /\ SessionInv

-----------------------------------------------------------------------------
(* Facts about the constants *)

LEMMA WorkerFacts ==
    ASSUME NEW w \in Workers
    PROVE  /\ w \in Names /\ w \in Label /\ w \in Threads
           /\ w # Absent
           /\ OwnTracks[w] \subseteq Tracks
           /\ Absent \notin OwnTracks[w]
BY CatalogAssumption DEF Label, Threads

LEMMA OwnTracksDisjoint ==
    ASSUME NEW v \in Workers, NEW w \in Workers, NEW t \in OwnTracks[v],
           t \in OwnTracks[w]
    PROVE  v = w
BY OwnTracksAssumption

LEMMA SingleTrackValue ==
    ASSUME NEW t \in Tracks, NEW config \in Config, NEW u \in Tracks
    PROVE  /\ SingleTrack(t, config)[u] # Absent <=> u = t
           /\ SingleTrack(t, config)[t] = config
BY CatalogAssumption DEF SingleTrack, EmptyCatalog

-----------------------------------------------------------------------------
(* Every step of the publisher is a step of the catalog, or leaves it alone. *)

\* An upsert of a seeded or running session, with the track it is for.
Upserts(w, track) ==
    /\ track \in OwnTracks[w]
    /\ \E config \in Config : UpsertVideoCatalog(w, w, SingleTrack(track, config))

LEMMA SeedUpserts ==
    ASSUME JitInv, NEW w \in Workers, SeedCatalog(w)
    PROVE  /\ \E track \in Tracks : Upserts(w, track) /\ current' = [current EXCEPT ![w] = track]
           /\ phase[w] = "seeding"
           /\ phase' = [phase EXCEPT ![w] = IF w \in Passthrough THEN "seeded" ELSE "running"]
BY WorkerFacts DEF SeedCatalog, Upserts

LEMMA DecodeUpserts ==
    ASSUME JitInv, NEW w \in Workers, DecodeFrame(w)
    PROVE  Upserts(w, current[w]) /\ current[w] \in Tracks
BY WorkerFacts DEF DecodeFrame, Upserts, JitInv, SessionInv

LEMMA UpsertIsCatalogStep ==
    ASSUME NEW w \in Workers, NEW track, Upserts(w, track)
    PROVE  Next
BY DEF Upserts, Next, WorkerCall

LEMMA JitStepIsCatalogStep ==
    ASSUME JitInv, [JitNext]_vars
    PROVE  [Next]_catalogVars
<1>1. ASSUME NEW w \in Workers, WorkerStep(w)
      PROVE  [Next]_catalogVars
  <2>1. CASE SeedCatalog(w)
    BY <2>1, SeedUpserts, UpsertIsCatalogStep
  <2>2. CASE DecodeFrame(w)
    BY <2>2, DecodeUpserts, UpsertIsCatalogStep
  <2>3. CASE Leave(w)
    BY <2>3 DEF Leave, Next, WorkerCall
  <2>4. CASE StartSession(w) \/ OpenSource(w) \/ SessionFails(w) \/ NoticeInactive(w)
    BY <2>4 DEF StartSession, OpenSource, SessionFails, NoticeInactive
  <2>5. QED
    BY <1>1, <2>1, <2>2, <2>3, <2>4 DEF WorkerStep
<1>2. ASSUME NEW t \in Watchers, ApplyControlFile(t)
      PROVE  [Next]_catalogVars
  <2>1. file.names \in Filter
    BY DEF JitInv, JitTypeOK, ControlFile
  <2>2. QED
    BY <1>2, <2>1 DEF ApplyControlFile, Next
<1>3. ASSUME NEW t \in Threads, Publish(t)
      PROVE  [Next]_catalogVars
  BY <1>3 DEF Publish, Next
<1>4. CASE EditFile \/ (\E t \in Watchers : StopWatching(t)) \/ UNCHANGED vars
  BY <1>4 DEF EditFile, StopWatching, vars
<1>5. QED
  BY <1>1, <1>2, <1>3, <1>4 DEF JitNext

-----------------------------------------------------------------------------
LEMMA JitInitially == JitInit => Init /\ JitInv
<1> SUFFICES ASSUME JitInit
             PROVE  Init /\ JitInv
  OBVIOUS
<1>1. file \in ControlFile /\ Missing \in ControlFile
  BY ControlAssumption DEF JitInit, Missing, ControlFile, Filter
<1>2. PICK flags \in SUBSET Names : Start(StartupNames(file, flags))
  BY DEF JitInit
<1>3. StartupNames(file, flags) \in SUBSET Names
  BY <1>1 DEF StartupNames, ControlFile, Filter
<1>4. Init
  BY <1>2, <1>3 DEF Init
<1>5. QED
  BY <1>1, <1>4, TypeInitially DEF JitInv, JitTypeOK, SessionInv, JitInit, Phases

LEMMA JitInvInductive == JitInv /\ [JitNext]_vars => JitInv'
<1> SUFFICES ASSUME JitInv, [JitNext]_vars
             PROVE  JitInv'
  OBVIOUS
<1>1. TypeOK'
  BY JitStepIsCatalogStep, TypeInductive DEF JitInv, JitTypeOK
<1>2. ASSUME NEW w \in Workers, WorkerStep(w)
      PROVE  JitInv'
  <2>1. CASE SeedCatalog(w)
    <3>1. PICK track \in Tracks :
              Upserts(w, track) /\ current' = [current EXCEPT ![w] = track]
      BY <2>1, SeedUpserts
    <3>2. track \in OwnTracks[w]
      BY <3>1 DEF Upserts
    <3>3. QED
      BY <1>1, <2>1, <3>1, <3>2
         DEF SeedCatalog, JitInv, JitTypeOK, SessionInv, Phases, controlVars
  <2>2. CASE DecodeFrame(w)
    BY <1>1, <2>2 DEF DecodeFrame, JitInv, JitTypeOK, SessionInv, Phases, controlVars
  <2>3. CASE StartSession(w) \/ OpenSource(w)
    BY <1>1, <2>3 DEF StartSession, OpenSource, FirstPhase, JitInv, JitTypeOK,
       SessionInv, Phases, controlVars
  <2>4. CASE SessionFails(w) \/ NoticeInactive(w)
    BY <1>1, <2>4 DEF SessionFails, NoticeInactive, JitInv, JitTypeOK,
       SessionInv, Phases, controlVars
  <2>5. CASE Leave(w)
    BY <1>1, <2>5 DEF Leave, JitInv, JitTypeOK, SessionInv, Phases, controlVars
  <2>6. QED
    BY <1>2, <2>1, <2>2, <2>3, <2>4, <2>5 DEF WorkerStep
<1>3. ASSUME NEW t \in Watchers, ApplyControlFile(t) \/ StopWatching(t)
      PROVE  JitInv'
  BY <1>1, <1>3 DEF ApplyControlFile, StopWatching, JitInv, JitTypeOK,
     SessionInv, workerVars
<1>4. CASE EditFile
  BY <1>1, <1>4, ControlAssumption DEF EditFile, JitInv, JitTypeOK, SessionInv, workerVars
<1>5. ASSUME NEW t \in Threads, Publish(t)
      PROVE  JitInv'
  BY <1>1, <1>5 DEF Publish, JitInv, JitTypeOK, SessionInv, workerVars, controlVars
<1>6. CASE UNCHANGED vars
  BY <1>1, <1>6 DEF vars, JitInv, JitTypeOK, SessionInv, workerVars, controlVars
<1>7. QED
  BY <1>2, <1>3, <1>4, <1>5, <1>6 DEF JitNext

LEMMA JitInvHolds == JitSpec => []JitInv
BY JitInitially, JitInvInductive, PTL DEF JitSpec

\* Every variable of the publisher keeps its type.
THEOREM JitTypeCorrect == JitSpec => []JitTypeOK
<1>1. JitInv => JitTypeOK
  BY DEF JitInv
<1>2. QED
  BY <1>1, JitInvHolds, PTL

\* Workers and control file task use the catalog only by its operations: what
\* is proved of the catalog's steps holds of the publisher.
THEOREM JitUsesCatalog == JitSpec => Init /\ [][Next]_catalogVars
BY JitInitially, JitInvHolds, JitStepIsCatalogStep, PTL DEF JitSpec

\* However many workers there are: unless two publications overlapped,
\* subscribers see the filtered catalog whenever none is in progress.
THEOREM JitSerialConvergence == JitSpec => []SerialPublishesConverge
<1>1. SerialInv => SerialPublishesConverge
  BY DEF SerialInv, SerialPublishesConverge
<1>2. QED
  BY <1>1, JitUsesCatalog, SerialInvInitially, SerialInvInductive,
     TypeInitially, TypeInductive, PTL

-----------------------------------------------------------------------------
(* The tracks of the catalog and the sessions that feed them.  The          *)
(* properties are not inductive one by one: that a track other than the     *)
(* session's can only be a leftover needs every label to have one track,    *)
(* and that other workers leave it alone needs labels to stay with their    *)
(* owners.                                                                  *)

OwnLabels ==
    \A w \in Workers : \A t \in OwnTracks[w] : labels[t] \in {w, Absent}

OneTrackPerLabel ==
    \A w \in Workers : \A t, u \in Tracks : labels[t] = w /\ labels[u] = w => t = u

TracksInv ==
    /\ LabelsMatchFull
    /\ OwnLabels
    /\ OneTrackPerLabel
    /\ SessionTrackKnown
    /\ DeadTracksOnlyAfterError

\* What an upsert does to the maps, track by track.
LEMMA UpsertTracks ==
    ASSUME TypeOK, NEW w \in Workers, NEW track \in Tracks, Upserts(w, track),
           NEW u \in Tracks
    PROVE  /\ labels'[u] = IF u = track THEN w
                           ELSE IF labels[u] = w THEN Absent ELSE labels[u]
           /\ full'[u] = Absent <=> (u # track /\ (labels[u] = w \/ full[u] = Absent))
<1>1. PICK config \in Config : UpsertVideoCatalog(w, w, SingleTrack(track, config))
  BY DEF Upserts
<1>2. /\ SingleTrack(track, config)[u] # Absent <=> u = track
      /\ SingleTrack(track, config)[track] = config
  BY SingleTrackValue
<1>3. WithBitrate(w, config) # Absent
  BY WithBitrateType, CatalogAssumption
<1>4. QED
  BY <1>1, <1>2, <1>3 DEF UpsertVideoCatalog

LEMMA RemoveTracks ==
    ASSUME TypeOK, NEW w \in Workers, RemoveLabel(w, w), NEW u \in Tracks
    PROVE  /\ labels'[u] = IF labels[u] = w THEN Absent ELSE labels[u]
           /\ full'[u] = Absent <=> (labels[u] = w \/ full[u] = Absent)
BY DEF RemoveLabel

LEMMA UpsertPreservesTracks ==
    ASSUME JitInv, TracksInv, NEW w \in Workers, NEW track \in Tracks,
           Upserts(w, track),
           current' = [current EXCEPT ![w] = track], UNCHANGED exit,
           \A v \in Workers : v # w => phase'[v] = phase[v]
    PROVE  TracksInv'
<1>1. /\ \A u \in Tracks : labels'[u] = IF u = track THEN w
                               ELSE IF labels[u] = w THEN Absent ELSE labels[u]
      /\ \A u \in Tracks : full'[u] = Absent <=>
                (u # track /\ (labels[u] = w \/ full[u] = Absent))
  BY UpsertTracks DEF JitInv, JitTypeOK
<1>2. track \in OwnTracks[w] /\ w # Absent
  BY WorkerFacts DEF Upserts
<1>3. /\ current'[w] = track
      /\ \A v \in Workers : v # w => current'[v] = current[v]
  BY DEF JitInv, JitTypeOK
<1>4. LabelsMatchFull'
  BY <1>1, <1>2 DEF TracksInv, LabelsMatchFull
<1>5. OwnLabels'
  <2> SUFFICES ASSUME NEW v \in Workers, NEW t \in OwnTracks[v]
               PROVE  labels'[t] \in {v, Absent}
    BY DEF OwnLabels
  <2>1. t \in Tracks /\ (t = track => v = w)
    BY <1>2, WorkerFacts, OwnTracksDisjoint
  <2>2. QED
    BY <1>1, <2>1 DEF TracksInv, OwnLabels
<1>6. OneTrackPerLabel'
  <2> SUFFICES ASSUME NEW v \in Workers, NEW t \in Tracks, NEW u \in Tracks,
                      labels'[t] = v, labels'[u] = v
               PROVE  t = u
    BY DEF OneTrackPerLabel
  <2>1. CASE v = w
    BY <1>1, <1>2, <2>1
  <2>2. CASE v # w
    <3>1. labels[t] = v /\ labels[u] = v
      BY <1>1, <2>2, WorkerFacts
    <3>2. QED
      BY <3>1 DEF TracksInv, OneTrackPerLabel
  <2>3. QED
    BY <2>1, <2>2
<1>7. SessionTrackKnown'
  <2> SUFFICES ASSUME NEW v \in Workers, current'[v] # Absent
               PROVE  labels'[current'[v]] = v
    BY DEF SessionTrackKnown
  <2>1. CASE v = w
    BY <1>1, <1>3, <2>1
  <2>2. CASE v # w
    <3>1. current[v] \in OwnTracks[v] /\ labels[current[v]] = v
      BY <1>3, <2>2 DEF JitInv, SessionInv, TracksInv, SessionTrackKnown
    <3>2. current[v] \in Tracks /\ current[v] # track
      BY <1>2, <2>2, <3>1, WorkerFacts, OwnTracksDisjoint
    <3>3. QED
      BY <1>1, <1>3, <2>2, <3>1, <3>2
  <2>3. QED
    BY <2>1, <2>2
<1>8. DeadTracksOnlyAfterError'
  BY <1>1, <1>2, <1>3, WorkerFacts DEF TracksInv, DeadTracksOnlyAfterError
<1>9. QED
  BY <1>4, <1>5, <1>6, <1>7, <1>8 DEF TracksInv

LEMMA LeavePreservesTracks ==
    ASSUME JitInv, TracksInv, NEW w \in Workers, Leave(w)
    PROVE  TracksInv'
<1>1. RemoveLabel(w, w) /\ UNCHANGED <<current, exit>>
  BY DEF Leave
<1>2. /\ \A u \in Tracks : labels'[u] = IF labels[u] = w THEN Absent ELSE labels[u]
      /\ \A u \in Tracks : full'[u] = Absent <=> (labels[u] = w \/ full[u] = Absent)
  BY <1>1, RemoveTracks DEF JitInv, JitTypeOK
<1>3. current[w] = Absent /\ \A v \in Workers : v # w => phase'[v] = phase[v]
  BY DEF Leave, JitInv, JitTypeOK, SessionInv
<1>4. LabelsMatchFull' /\ OwnLabels' /\ OneTrackPerLabel'
  BY <1>2, WorkerFacts DEF TracksInv, LabelsMatchFull, OwnLabels, OneTrackPerLabel
<1>5. SessionTrackKnown'
  <2> SUFFICES ASSUME NEW v \in Workers, current[v] # Absent
               PROVE  labels'[current[v]] = v
    BY <1>1 DEF SessionTrackKnown
  <2>1. v # w /\ current[v] \in Tracks /\ labels[current[v]] = v
    BY <1>3, WorkerFacts DEF JitInv, SessionInv, TracksInv, SessionTrackKnown
  <2>2. QED
    BY <1>2, <2>1
<1>6. DeadTracksOnlyAfterError'
  BY <1>1, <1>2, <1>3, WorkerFacts DEF TracksInv, DeadTracksOnlyAfterError
<1>7. QED
  BY <1>4, <1>5, <1>6 DEF TracksInv

\* Steps that change no track: a session starts, goes on or ends.
LEMMA SessionPreservesTracks ==
    ASSUME JitInv, TracksInv, NEW w \in Workers,
           StartSession(w) \/ OpenSource(w) \/ SessionFails(w) \/ NoticeInactive(w)
    PROVE  TracksInv'
<1>1. UNCHANGED <<labels, full>>
  BY DEF StartSession, OpenSource, SessionFails, NoticeInactive, catalogVars
<1>2. LabelsMatchFull' /\ OwnLabels' /\ OneTrackPerLabel'
  BY <1>1 DEF TracksInv, LabelsMatchFull, OwnLabels, OneTrackPerLabel
<1>3. CASE StartSession(w) \/ OpenSource(w)
  BY <1>1, <1>2, <1>3 DEF StartSession, OpenSource, FirstPhase, JitInv, JitTypeOK,
     TracksInv, SessionTrackKnown, DeadTracksOnlyAfterError
<1>4. CASE SessionFails(w) \/ NoticeInactive(w)
  BY <1>1, <1>2, <1>4 DEF SessionFails, NoticeInactive, JitInv, JitTypeOK,
     TracksInv, SessionTrackKnown, DeadTracksOnlyAfterError
<1>5. QED
  BY <1>3, <1>4

LEMMA TracksFrame ==
    ASSUME TracksInv, UNCHANGED <<labels, full, workerVars>>
    PROVE  TracksInv'
BY DEF TracksInv, LabelsMatchFull, OwnLabels, OneTrackPerLabel, SessionTrackKnown,
   DeadTracksOnlyAfterError, workerVars

LEMMA TracksInvInductive == JitInv /\ TracksInv /\ [JitNext]_vars => TracksInv'
<1> SUFFICES ASSUME JitInv, TracksInv, [JitNext]_vars
             PROVE  TracksInv'
  OBVIOUS
<1>1. ASSUME NEW w \in Workers, WorkerStep(w)
      PROVE  TracksInv'
  <2>1. CASE SeedCatalog(w)
    <3>1. PICK track \in Tracks :
              Upserts(w, track) /\ current' = [current EXCEPT ![w] = track]
      BY <2>1, SeedUpserts
    <3>2. UNCHANGED exit /\ \A v \in Workers : v # w => phase'[v] = phase[v]
      BY <2>1 DEF SeedCatalog, JitInv, JitTypeOK
    <3>3. QED
      BY <3>1, <3>2, UpsertPreservesTracks
  <2>2. CASE DecodeFrame(w)
    <3>1. Upserts(w, current[w]) /\ current[w] \in Tracks
      BY <2>2, DecodeUpserts
    <3>2. /\ current' = [current EXCEPT ![w] = current[w]]
          /\ UNCHANGED exit
          /\ \A v \in Workers : v # w => phase'[v] = phase[v]
      BY <2>2 DEF DecodeFrame, JitInv, JitTypeOK
    <3>3. QED
      BY <3>1, <3>2, UpsertPreservesTracks
  <2>3. QED
    BY <1>1, <2>1, <2>2, LeavePreservesTracks, SessionPreservesTracks DEF WorkerStep
<1>2. ASSUME NEW t \in Watchers, ApplyControlFile(t) \/ StopWatching(t)
      PROVE  TracksInv'
  BY <1>2, TracksFrame DEF ApplyControlFile, StopWatching, SetActive, catalogVars
<1>3. ASSUME NEW t \in Threads, Publish(t)
      PROVE  TracksInv'
  BY <1>3, TracksFrame
     DEF Publish, PublishStep, ComputeNext, WriteProducer, RecordPublished
<1>4. CASE EditFile \/ UNCHANGED vars
  BY <1>4, TracksFrame DEF EditFile, vars, catalogVars
<1>5. QED
  BY <1>1, <1>2, <1>3, <1>4 DEF JitNext

LEMMA TracksInvHolds == JitSpec => []TracksInv
<1>1. JitInit => TracksInv
  <2> SUFFICES ASSUME JitInit
               PROVE  TracksInv
    OBVIOUS
  <2>1. /\ \A t \in Tracks : labels[t] = Absent /\ full[t] = Absent
        /\ \A w \in Workers : current[w] = Absent
    BY DEF JitInit, Start, EmptyCatalog
  <2>2. QED
    BY <2>1, WorkerFacts DEF TracksInv, LabelsMatchFull, OwnLabels,
       OneTrackPerLabel, SessionTrackKnown, DeadTracksOnlyAfterError
<1>2. QED
  BY <1>1, JitInvHolds, TracksInvInductive, PTL DEF JitSpec

\* For any workers and tracks: a track has a label exactly while it is known.
THEOREM LabelsInStep == JitSpec => []LabelsMatchFull
<1>1. TracksInv => LabelsMatchFull
  BY DEF TracksInv
<1>2. QED
  BY <1>1, TracksInvHolds, PTL

\* While a session publishes, its track stays known under its own label.
THEOREM SessionKeepsTrack == JitSpec => []SessionTrackKnown
<1>1. TracksInv => SessionTrackKnown
  BY DEF TracksInv
<1>2. QED
  BY <1>1, TracksInvHolds, PTL

\* A track without a session is the leftover of a session that failed, until
\* its rendition has a track again or its worker leaves.
THEOREM LeftoversOfErrors == JitSpec => []DeadTracksOnlyAfterError
<1>1. TracksInv => DeadTracksOnlyAfterError
  BY DEF TracksInv
<1>2. QED
  BY <1>1, TracksInvHolds, PTL

-----------------------------------------------------------------------------
(* What subscribers see was computed in one locked region, from labels that *)
(* have one track each.                                                     *)

OneEach(c) ==
    \A w \in Workers : \A t, u \in OwnTracks[w] : c[t] # Absent /\ c[u] # Absent => t = u

ShownInv == OneEach(live) /\ \A t \in Threads : OneEach(next[t])

LEMMA EmptyOneEach == OneEach(EmptyCatalog)
BY WorkerFacts DEF OneEach, EmptyCatalog

LEMMA FilteredOneEach ==
    ASSUME TracksInv
    PROVE  OneEach(FilteredCatalog)
<1> SUFFICES ASSUME NEW w \in Workers, NEW t \in OwnTracks[w], NEW u \in OwnTracks[w],
                    FilteredCatalog[t] # Absent, FilteredCatalog[u] # Absent
             PROVE  t = u
  BY DEF OneEach
<1>1. t \in Tracks /\ u \in Tracks
  BY WorkerFacts
<1>2. full[t] # Absent /\ full[u] # Absent
  BY <1>1 DEF FilteredCatalog, FilteredOf
<1>3. labels[t] = w /\ labels[u] = w
  BY <1>1, <1>2 DEF TracksInv, LabelsMatchFull, OwnLabels
<1>4. QED
  BY <1>1, <1>3 DEF TracksInv, OneTrackPerLabel

LEMMA ShownInvInductive == TypeOK /\ TracksInv /\ ShownInv /\ [Next]_catalogVars => ShownInv'
<1> SUFFICES ASSUME TypeOK, TracksInv, ShownInv, [Next]_catalogVars
             PROVE  ShownInv'
  OBVIOUS
<1>1. CASE UNCHANGED <<live, next>>
  BY <1>1 DEF ShownInv, OneEach
<1>2. ASSUME NEW t \in Threads, PublishStep(t)
      PROVE  ShownInv'
  <2>1. \A u \in Threads : next'[u] \in {next[u], FilteredCatalog, EmptyCatalog}
    BY <1>2 DEF PublishStep, ComputeNext, WriteProducer, RecordPublished, TypeOK
  <2>2. live' \in {live, next[t]}
    BY <1>2 DEF PublishStep, ComputeNext, WriteProducer, RecordPublished
  <2>3. OneEach(FilteredCatalog) /\ OneEach(EmptyCatalog)
    BY FilteredOneEach, EmptyOneEach
  <2>4. OneEach(live') /\ \A u \in Threads : OneEach(next'[u])
    BY <2>1, <2>2, <2>3 DEF ShownInv
  <2>5. QED
    BY <2>4 DEF ShownInv, OneEach
<1>3. QED
  BY <1>1, <1>2 DEF Next, WorkerCall, UpsertVideoCatalog, RemoveLabel, SyncFrom,
     SetActive, CallPublish, catalogVars

\* However many workers there are and however their publications overlap,
\* subscribers never see two tracks of one rendition.
THEOREM OneTrackShown == JitSpec => []OneTrackPerRendition
<1>1. Init => ShownInv
  BY EmptyOneEach DEF Init, Start, ShownInv
<1>2. ShownInv => OneTrackPerRendition
  BY WorkerFacts DEF ShownInv, OneEach, OneTrackPerRendition, Listed
<1>3. JitInv => TypeOK
  BY DEF JitInv, JitTypeOK
<1>4. QED
  BY <1>1, <1>2, <1>3, JitUsesCatalog, JitInvHolds, TracksInvHolds,
     ShownInvInductive, PTL
=============================================================================
