--------------------------- MODULE FilteredCatalog ---------------------------
(***************************************************************************)
(* The broadcast catalog of cstream-moq-publisher                          *)
(* (packages/cstream-cli/moq-publisher/src/catalog.rs).                    *)
(*                                                                         *)
(* One FilteredCatalog is shared by every task of the publisher.  Its      *)
(* State is behind one mutex, the catalog that subscribers read (the       *)
(* producer) behind another.  Every operation changes the State under the  *)
(* first lock, releases it, and calls publish_if_changed, which takes the  *)
(* locks three times: to compute the filtered catalog, to write it to the  *)
(* producer, to remember it.  Each locked region is one action here.       *)
(*                                                                         *)
(* Only the video renditions are modelled: the other sections of a catalog *)
(* are copied from full to the producer untouched.                         *)
(***************************************************************************)
EXTENDS Naturals, Sequences, FiniteSets

CONSTANTS
    Renditions, \* the configured renditions, in order (a sequence of names)
    Bitrate,    \* Bitrate[n]: the bitrate configured for n, NoRate if none
    NoRate,     \* Option::None of a bitrate
    Descs,      \* what a track's VideoConfig holds besides its bitrate
    Rates,      \* the bitrates a VideoConfig can hold, NoRate included
    Tracks,     \* track names, as numbers: BTreeMap iterates them in order
    Absent,     \* no entry for a key of a map
    Workers,    \* rendition workers of jit.rs: one task per configured name
    Readers,    \* the stdin task of main.rs (none when there are workers)
    Watchers,   \* the control file task (none without --catalog-control)
    OwnTracks   \* OwnTracks[w]: the track names imports of worker w create

Names == {Renditions[i] : i \in DOMAIN Renditions}
Label == Names \cup Tracks
Config == [desc : Descs, bitrate : Rates]
Catalog == [Tracks -> Config \cup {Absent}]
\* State.active is an Option: None lets every label through.
AllActive == Label
Filter == (SUBSET Names) \cup {AllActive}
Threads == Workers \cup Readers \cup Watchers

ASSUME CatalogAssumption ==
    /\ Renditions \in Seq(Names)
    /\ Tracks \subseteq Nat
    /\ NoRate \in Rates
    /\ Bitrate \in [Names -> Rates]
    /\ Absent \notin Config /\ Absent \notin Label /\ Absent \notin Catalog
    /\ Workers \subseteq Names
    /\ Workers = {} \/ Readers = {}
    /\ OwnTracks \in [Workers -> SUBSET Tracks]

\* No two workers create a track of the same name: the importers take fresh
\* names from the broadcast they share.
ASSUME OwnTracksAssumption ==
    \A v, w \in Workers : v # w => OwnTracks[v] \cap OwnTracks[w] = {}

VARIABLES
    labels,        \* State.labels: the label of each known track
    active,        \* State.active: the advertised labels, or AllActive
    full,          \* State.full: every known track
    lastPublished, \* State.last_published, Absent before the first one
    live,          \* the producer's catalog, what subscribers see
    pc,            \* pc[t]: the next locked region of task t
    next,          \* next[t]: the local `next` of publish_if_changed
    overlapped     \* history: did two publish_if_changed calls ever overlap?

catalogVars == <<labels, active, full, lastPublished, live, pc, next, overlapped>>

EmptyCatalog == [t \in Tracks |-> Absent]
Listed(c) == {t \in Tracks : c[t] # Absent}

TypeOK ==
    /\ labels \in [Tracks -> Label \cup {Absent}]
    /\ active \in Filter
    /\ full \in Catalog
    /\ lastPublished \in Catalog \cup {Absent}
    /\ live \in Catalog
    /\ pc \in [Threads -> {"idle", "compute", "write", "record"}]
    /\ next \in [Threads -> Catalog]
    /\ overlapped \in BOOLEAN

-----------------------------------------------------------------------------
(* Pure helpers of State *)

\* A configured bitrate replaces the one the stream announced.
WithBitrate(label, config) ==
    IF label \in Names /\ Bitrate[label] # NoRate
    THEN [config EXCEPT !.bitrate = Bitrate[label]]
    ELSE config

IsActive(label) == label \in active

\* A track the State has no label for is filtered by its own name.
LabelOf(track) == IF labels[track] = Absent THEN track ELSE labels[track]

FilteredOf(track) ==
    IF full[track] # Absent /\ IsActive(LabelOf(track))
    THEN WithBitrate(LabelOf(track), full[track])
    ELSE Absent

FilteredCatalog == [t \in Tracks |-> FilteredOf(t)]

\* The i-th track in name order gets the i-th configured name; a track beyond
\* the configured ones is labelled by its own name.
VideoLabels(c) ==
    [t \in Tracks |->
        LET index == Cardinality({u \in Listed(c) : u <= t})
        IN  IF c[t] = Absent THEN Absent
            ELSE IF index \in DOMAIN Renditions THEN Renditions[index] ELSE t]

\* The filter main() builds the catalog with: no name at all means no filter.
InitialFilter(names) == IF names = {} THEN AllActive ELSE names

-----------------------------------------------------------------------------
Start(names) ==
    /\ labels = EmptyCatalog
    /\ active = InitialFilter(names)
    /\ full = EmptyCatalog
    /\ lastPublished = Absent
    /\ live = EmptyCatalog
    /\ pc = [t \in Threads |-> "idle"]
    /\ next = [t \in Threads |-> EmptyCatalog]
    /\ overlapped = FALSE

Init == \E names \in SUBSET Names : Start(names)

(* The operations.  Each changes the State in one locked region and leaves *)
(* its task at the start of publish_if_changed.                            *)

CallPublish(t) ==
    /\ pc[t] = "idle"
    /\ pc' = [pc EXCEPT ![t] = "compute"]
    /\ UNCHANGED <<lastPublished, live, next, overlapped>>

\* Mutant: the label's earlier tracks are not taken out.
UpsertKeepsOld(t, label, c) ==
    /\ labels' = [u \in Tracks |-> IF c[u] # Absent THEN label ELSE labels[u]]
    /\ full' = [u \in Tracks |-> IF c[u] # Absent THEN WithBitrate(label, c[u]) ELSE full[u]]
    /\ UNCHANGED active
    /\ CallPublish(t)

UpsertVideoCatalog(t, label, c) ==
    LET stale(u) == labels[u] = label /\ c[u] = Absent
    IN  /\ labels' = [u \in Tracks |-> IF c[u] # Absent THEN label
                                       ELSE IF stale(u) THEN Absent ELSE labels[u]]
        /\ full' = [u \in Tracks |-> IF c[u] # Absent THEN WithBitrate(label, c[u])
                                     ELSE IF stale(u) THEN Absent ELSE full[u]]
        /\ UNCHANGED active
        /\ CallPublish(t)

RemoveLabel(t, label) ==
    /\ labels' = [u \in Tracks |-> IF labels[u] = label THEN Absent ELSE labels[u]]
    /\ full' = [u \in Tracks |-> IF labels[u] = label THEN Absent ELSE full[u]]
    /\ UNCHANGED active
    /\ CallPublish(t)

\* Mutant: the new filter is not published.
SetActiveUnpublished(t, names) ==
    /\ pc[t] = "idle"
    /\ active' = names
    /\ UNCHANGED <<labels, full, lastPublished, live, pc, next, overlapped>>

SetActive(t, names) ==
    /\ active' = names
    /\ UNCHANGED <<labels, full>>
    /\ CallPublish(t)

SyncFrom(t, c) ==
    /\ full' = c
    /\ labels' = VideoLabels(c)
    /\ UNCHANGED active
    /\ CallPublish(t)

(* publish_if_changed: three locked regions, nothing held between them. *)

Publishing == {t \in Threads : pc[t] \in {"write", "record"}}

\* Mutant: the first publication is the last.
ComputeOnce(t) ==
    /\ pc[t] = "compute"
    /\ overlapped' = (overlapped \/ Publishing # {})
    /\ \/ /\ lastPublished # Absent
          /\ pc' = [pc EXCEPT ![t] = "idle"]
          /\ UNCHANGED next
       \/ /\ lastPublished = Absent
          /\ next' = [next EXCEPT ![t] = FilteredCatalog]
          /\ pc' = [pc EXCEPT ![t] = "write"]
    /\ UNCHANGED <<labels, active, full, lastPublished, live>>

ComputeNext(t) ==
    /\ pc[t] = "compute"
    /\ overlapped' = (overlapped \/ Publishing # {})
    /\ \/ /\ lastPublished = FilteredCatalog
          /\ pc' = [pc EXCEPT ![t] = "idle"]
          /\ UNCHANGED next
       \/ /\ lastPublished # FilteredCatalog
          /\ next' = [next EXCEPT ![t] = FilteredCatalog]
          /\ pc' = [pc EXCEPT ![t] = "write"]
    /\ UNCHANGED <<labels, active, full, lastPublished, live>>

WriteProducer(t) ==
    /\ pc[t] = "write"
    /\ live' = next[t]
    /\ pc' = [pc EXCEPT ![t] = "record"]
    /\ UNCHANGED <<labels, active, full, lastPublished, next, overlapped>>

RecordPublished(t) ==
    /\ pc[t] = "record"
    /\ lastPublished' = next[t]
    /\ next' = [next EXCEPT ![t] = EmptyCatalog]
    /\ pc' = [pc EXCEPT ![t] = "idle"]
    /\ UNCHANGED <<labels, active, full, live, overlapped>>

PublishStep(t) == ComputeNext(t) \/ WriteProducer(t) \/ RecordPublished(t)

-----------------------------------------------------------------------------
(* Who calls what: a worker upserts the one track of its current importer  *)
(* and removes its label; the stdin task syncs whole catalogs; the control *)
(* file task sets the filter.                                              *)

SingleTrack(track, config) == [EmptyCatalog EXCEPT ![track] = config]

WorkerCall(w) ==
    \/ \E track \in OwnTracks[w], config \in Config :
          UpsertVideoCatalog(w, w, SingleTrack(track, config))
    \/ RemoveLabel(w, w)

Next ==
    \/ \E w \in Workers : WorkerCall(w)
    \/ \E t \in Readers, c \in Catalog : SyncFrom(t, c)
    \/ \E t \in Watchers, names \in Filter : SetActive(t, names)
    \/ \E t \in Threads : PublishStep(t)

\* A task that entered publish_if_changed is never abandoned inside it: there
\* is no await in it.  Nothing says a caller ever calls again.
Fairness == \A t \in Threads : WF_catalogVars(PublishStep(t))

Spec == Init /\ [][Next]_catalogVars /\ Fairness

\* A publisher that reads fragmented MP4 from stdin has no other task, as long
\* as it is started without a control file.
StdinNext == \E t \in Readers : (\E c \in Catalog : SyncFrom(t, c)) \/ PublishStep(t)

StdinSpec == Init /\ [][StdinNext]_catalogVars /\ Fairness

-----------------------------------------------------------------------------
(* Properties *)

AllIdle == \A t \in Threads : pc[t] = "idle"

\* As long as no publish_if_changed call ever ran while another was between
\* its first and its last lock, subscribers see exactly the filtered catalog
\* whenever no call is in progress: the early return and last_published lose
\* no change by themselves.
SerialPublishesConverge ==
    (AllIdle /\ ~overlapped) => live = FilteredCatalog

\* upsert_video_catalog and remove_label keep the two maps of the State in
\* step: a track has a label exactly when it is in full, so the fallback in
\* filtered_catalog is never what hides or shows a worker's track.
LabelsMatchFull == \A t \in Tracks : labels[t] = Absent <=> full[t] = Absent

\* However the calls interleave, subscribers never see two generations of one
\* rendition: a catalog is computed in one locked region, and a worker's new
\* track replaces its old one in one locked region.
OneTrackPerRendition ==
    \A w \in Workers :
        \A t, u \in Listed(live) \cap OwnTracks[w] : t = u

(* With one task the detailed publication implements the abstract one: the *)
(* catalog counts as seen from the moment it is computed.                  *)
Seen ==
    LET writers == {t \in Threads : pc[t] = "write"}
    IN  IF writers = {} THEN live ELSE next[CHOOSE t \in writers : TRUE]

Advertised == INSTANCE AdvertisedCatalog
    WITH Catalogs <- Catalog, wanted <- FilteredCatalog, seen <- Seen

\* A publisher whose only task is the stdin loop keeps the abstract promise:
\* subscribers see a catalog that was wanted, and it catches up.
AdvertisedSpec == Advertised!Spec
=============================================================================
