---------------------------- MODULE JitPublisher ----------------------------
(***************************************************************************)
(* The rendition workers of cstream-moq-publisher (moq-publisher/src/jit.rs) *)
(* and its control file task (catalog.rs, main.rs), over the catalog they  *)
(* share.  A worker waits until its rendition is advertised, opens its     *)
(* source (RTSP directly, or through ffmpeg), seeds the catalog, publishes *)
(* frames, and stops when it finds its rendition unadvertised.             *)
(*                                                                         *)
(* A frame matters here only because it calls upsert_video_catalog; media  *)
(* data, timestamps and the ffmpeg processes themselves are abstracted.    *)
(***************************************************************************)
EXTENDS FilteredCatalog

CONSTANTS
    Passthrough,  \* the workers that read RTSP frames without ffmpeg
    InitialFiles, \* the control files the publisher can be started with
    Edits         \* the contents the control file is later changed to

\* A control file: a JSON object (names is the filter it asks for), a file
\* that is not one, none at all, or one that cannot be read (an I/O error, or
\* bytes that are not UTF-8).
ControlFile == [kind : {"valid", "invalid", "missing", "unreadable"}, names : Filter]
Missing == [kind |-> "missing", names |-> {}]

\* main() exits when it cannot read or parse the file it is started with.
ASSUME ControlAssumption ==
    /\ Passthrough \subseteq Workers
    /\ Readers = {}
    /\ InitialFiles \subseteq {f \in ControlFile : f.kind \in {"valid", "missing"}}
    /\ Edits \subseteq ControlFile

VARIABLES
    file,        \* the control file
    lastApplied, \* watch_control_file's last_applied (Missing: none yet)
    watching,    \* is watch_control_file still running?
    phase,       \* phase[w]: where worker w is in run_rendition_worker
    current,     \* current[w]: the track of the session of w, Absent if none
    exit         \* exit[w]: how the last session of w ended

workerVars == <<phase, current, exit>>
controlVars == <<file, lastApplied, watching>>
vars == <<catalogVars, workerVars, controlVars>>

Phases == {"waiting", "opening", "seeding", "seeded", "running", "leaving"}

JitTypeOK ==
    /\ TypeOK
    /\ file \in ControlFile
    /\ lastApplied \in ControlFile
    /\ watching \in BOOLEAN
    /\ phase \in [Workers -> Phases]
    /\ current \in [Workers -> Tracks \cup {Absent}]
    /\ exit \in [Workers -> {"none", "inactive", "error"}]

\* The names main() passes on: those of a valid control file, or those of the
\* --advertise-rendition flags when there is no file yet.
StartupNames(f, flags) ==
    IF f.kind = "missing" THEN flags
    ELSE IF f.names = AllActive THEN {} ELSE f.names

JitInit ==
    /\ file \in InitialFiles
    /\ \E flags \in SUBSET Names : Start(StartupNames(file, flags))
    /\ lastApplied = Missing
    /\ watching = TRUE
    /\ phase = [w \in Workers |-> "waiting"]
    /\ current = [w \in Workers |-> Absent]
    /\ exit = [w \in Workers |-> "none"]

-----------------------------------------------------------------------------
(* run_rendition_worker *)

FirstPhase(w) == IF w \in Passthrough THEN "opening" ELSE "seeding"

\* Mutant: a worker whose session failed never starts another.
StartUnlessFailed(w) ==
    /\ phase[w] = "waiting" /\ pc[w] = "idle" /\ exit[w] # "error"
    /\ IsActive(w)
    /\ phase' = [phase EXCEPT ![w] = FirstPhase(w)]
    /\ UNCHANGED <<catalogVars, current, exit, controlVars>>

\* wait_until_active finds the rendition advertised: ffmpeg is spawned, or
\* the RTSP source is being opened.
StartSession(w) ==
    /\ phase[w] = "waiting" /\ pc[w] = "idle"
    /\ IsActive(w)
    /\ phase' = [phase EXCEPT ![w] = FirstPhase(w)]
    /\ UNCHANGED <<catalogVars, current, exit, controlVars>>

\* The RTSP source answered.
OpenSource(w) ==
    /\ phase[w] = "opening" /\ pc[w] = "idle"
    /\ phase' = [phase EXCEPT ![w] = "seeding"]
    /\ UNCHANGED <<catalogVars, current, exit, controlVars>>

\* The importer has its parameter sets: it creates a track of a fresh name,
\* and the catalog gets it.  (An ffmpeg session is now seeded; a passthrough
\* session still decodes the frame it was seeded with.)
SeedCatalog(w) ==
    /\ phase[w] = "seeding"
    /\ \E track \in {t \in OwnTracks[w] : full[t] = Absent}, config \in Config :
          /\ UpsertVideoCatalog(w, w, SingleTrack(track, config))
          /\ current' = [current EXCEPT ![w] = track]
    /\ phase' = [phase EXCEPT ![w] = IF w \in Passthrough THEN "seeded" ELSE "running"]
    /\ UNCHANGED <<exit, controlVars>>

\* A decoded frame: the catalog gets the importer's current configuration.
DecodeFrame(w) ==
    /\ phase[w] \in {"seeded", "running"}
    /\ \E config \in Config : UpsertVideoCatalog(w, w, SingleTrack(current[w], config))
    /\ phase' = [phase EXCEPT ![w] = "running"]
    /\ UNCHANGED <<current, exit, controlVars>>

\* Any `?` of a session: the source cannot be opened, ends, sends no seed for
\* 15 s, a frame cannot be decoded, ffmpeg cannot be spawned or exits.  The
\* worker only logs it and waits again.
SessionFails(w) ==
    /\ phase[w] \in {"opening", "seeding", "seeded", "running"} /\ pc[w] = "idle"
    /\ phase' = [phase EXCEPT ![w] = "waiting"]
    /\ current' = [current EXCEPT ![w] = Absent]
    /\ exit' = [exit EXCEPT ![w] = "error"]
    /\ UNCHANGED <<catalogVars, controlVars>>

\* The 100 ms tick of a running session: the session is dropped ...
NoticeInactive(w) ==
    /\ phase[w] = "running" /\ pc[w] = "idle"
    /\ ~IsActive(w)
    /\ phase' = [phase EXCEPT ![w] = "leaving"]
    /\ current' = [current EXCEPT ![w] = Absent]
    /\ exit' = [exit EXCEPT ![w] = "inactive"]
    /\ UNCHANGED <<catalogVars, controlVars>>

\* Mutant: the tracks of the dropped session stay in the catalog.
LeaveSilently(w) ==
    /\ phase[w] = "leaving"
    /\ phase' = [phase EXCEPT ![w] = "waiting"]
    /\ UNCHANGED <<catalogVars, current, exit, controlVars>>

\* Mutant: the worker opens the next session without waiting for its turn.
LeaveAndRestart(w) ==
    /\ phase[w] = "leaving"
    /\ RemoveLabel(w, w)
    /\ phase' = [phase EXCEPT ![w] = FirstPhase(w)]
    /\ UNCHANGED <<current, exit, controlVars>>

\* ... and its tracks are taken out of the catalog.
Leave(w) ==
    /\ phase[w] = "leaving"
    /\ RemoveLabel(w, w)
    /\ phase' = [phase EXCEPT ![w] = "waiting"]
    /\ UNCHANGED <<current, exit, controlVars>>

-----------------------------------------------------------------------------
(* watch_control_file: a poll every 250 ms.  A file that is missing or does *)
(* not parse changes nothing but what is logged.                           *)

\* Mutant: only the first control file is applied.
ApplyFirstOnly(t) ==
    /\ watching
    /\ file.kind = "valid" /\ lastApplied = Missing
    /\ SetActive(t, file.names)
    /\ lastApplied' = file
    /\ UNCHANGED <<file, watching, workerVars>>

ApplyControlFile(t) ==
    /\ watching
    /\ file.kind = "valid" /\ file # lastApplied
    /\ SetActive(t, file.names)
    /\ lastApplied' = file
    /\ UNCHANGED <<file, watching, workerVars>>

StopWatching(t) ==
    /\ watching /\ pc[t] = "idle"
    /\ file.kind = "unreadable"
    /\ watching' = FALSE
    /\ UNCHANGED <<catalogVars, file, lastApplied, workerVars>>

\* The operator, or cstream's dynamic control, rewrites the file.
EditFile ==
    /\ file' \in Edits
    /\ UNCHANGED <<catalogVars, lastApplied, watching, workerVars>>

Publish(t) == PublishStep(t) /\ UNCHANGED <<workerVars, controlVars>>

-----------------------------------------------------------------------------
WorkerStep(w) ==
    \/ StartSession(w)
    \/ OpenSource(w)
    \/ SeedCatalog(w)
    \/ DecodeFrame(w)
    \/ SessionFails(w)
    \/ NoticeInactive(w)
    \/ Leave(w)

JitNext ==
    \/ \E w \in Workers : WorkerStep(w)
    \/ \E t \in Watchers : ApplyControlFile(t) \/ StopWatching(t)
    \/ EditFile
    \/ \E t \in Threads : Publish(t)

\* Tasks are scheduled; waiting loops poll; a seeding attempt ends, by its
\* result or by its 15 s timeout; nothing bounds how long a source is opened.
\* tokio::select! picks a random ready branch, so the tick of a running session
\* is not starved by its frames (strong fairness).  Neither frames nor edits of
\* the file need ever come.
JitFairness ==
    /\ \A w \in Workers :
          /\ WF_vars(StartSession(w))
          /\ WF_vars(SeedCatalog(w) \/ (phase[w] = "seeding" /\ SessionFails(w)))
          /\ WF_vars(phase[w] = "seeded" /\ (DecodeFrame(w) \/ SessionFails(w)))
          /\ SF_vars(NoticeInactive(w))
          /\ WF_vars(Leave(w))
    /\ \A t \in Watchers : WF_vars(ApplyControlFile(t)) /\ WF_vars(StopWatching(t))
    /\ \A t \in Threads : WF_vars(Publish(t))

JitSpec == JitInit /\ [][JitNext]_vars /\ JitFairness

-----------------------------------------------------------------------------
(* Properties *)

\* A track that stays known without a session that feeds it is the leftover
\* of a session that ended in an error, and only until the next session of
\* its rendition has a track; a session that stopped because its rendition
\* was unadvertised leaves nothing behind.
DeadTracksOnlyAfterError ==
    \A w \in Workers : \A t \in Tracks :
        (labels[t] = w /\ t # current[w])
            => (current[w] = Absent /\ (phase[w] = "leaving" \/ exit[w] = "error"))

\* While a session publishes, its track stays known under its rendition's
\* name, whatever the other workers and the control file do.
SessionTrackKnown ==
    \A w \in Workers : current[w] # Absent => labels[current[w]] = w

\* A rendition that stays unadvertised stops being encoded or read for good,
\* unless its source leaves an attempt to open it without an answer.
UnadvertisedStops ==
    \A w \in Workers : <>[]~IsActive(w)
        => <>[](phase[w] = "waiting") \/ <>[](phase[w] = "opening")

\* A rendition that stays advertised is started again and again if it has to.
AdvertisedStarts ==
    \A w \in Workers : <>[]IsActive(w) => []<>(phase[w] # "waiting")

\* As long as no two publications overlap, the tracks of a rendition that
\* stays unadvertised leave the live catalog for good.
SerialUnadvertisedLeave ==
    \A w \in Workers :
        ([]~overlapped /\ <>[]~IsActive(w))
            => <>[](Listed(live) \cap OwnTracks[w] = {})

\* While the control file task runs, the last valid control file wins: if the
\* file stops changing, its filter is eventually the one in force for good.
ControlFileApplied ==
    \A f \in Edits : (f.kind = "valid" /\ []watching /\ <>[](file = f))
                        => <>[](active = f.names)

\* README.md:92, "Unadvertised tracks stay out of the live catalog": the tracks
\* of a rendition that stays unadvertised leave the live catalog for good.
UnadvertisedStayOut ==
    \A w \in Workers :
        <>[]~IsActive(w) => <>[](Listed(live) \cap OwnTracks[w] = {})

\* README.md:84, "The optional --catalog-control file is watched while
\* publishing": a valid file that stays in place is eventually in force.
WatchedWhilePublishing ==
    \A f \in Edits : (f.kind = "valid" /\ <>[](file = f)) => <>[](active = f.names)

\* README.md:92, "their encoders remain stopped": a publisher started with a
\* control file that advertises nothing, and never changed, starts no session.
EmptyAdvertiseStartsNothing ==
    (file.kind = "valid" /\ file.names = {}) => \A w \in Workers : phase[w] = "waiting"
=============================================================================
