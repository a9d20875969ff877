----------------------------- MODULE KnowledgeBase -----------------------------
(***************************************************************************)
(* The knowledge base bridge (apps/kb/bridge): a comment /publish on an    *)
(* Outline document copies the document to a branch of the repository and  *)
(* asks for a pull request; /update is meant to refresh it.  Every webhook *)
(* delivery runs its command on its own, with nothing shared but GitHub    *)
(* and Outline themselves, and any call may fail.                          *)
(*                                                                         *)
(* One document is modelled, with its branch.  A text is its revision, so  *)
(* that a later one is greater, and stands for its blob sha too; 0 is no   *)
(* file.  A title stands for the path it gives the file.                   *)
(***************************************************************************)
EXTENDS Naturals, FiniteSets

CONSTANTS
    Titles,        \* the titles the document may have
    PublishEvents, \* the events of comments that say /publish
    UpdateEvents,  \* the events of comments that say /update
    OtherEvents,   \* the events of all other comments
    None,          \* no event yet
    MaxDeliveries, \* bound: deliveries, of the same or of different events
    MaxText,       \* bound: revisions of the document
    MaxMerges,     \* bound: pull requests merged
    MaxFaults      \* bound: calls that fail or time out

ASSUME KnowledgeBaseAssumption ==
    /\ Titles # {}
    /\ PublishEvents \cap (UpdateEvents \cup OtherEvents) = {}
    /\ UpdateEvents \cap OtherEvents = {}
    /\ None \notin PublishEvents \cup UpdateEvents \cup OtherEvents
    /\ MaxDeliveries \in Nat /\ MaxText \in Nat \ {0}
    /\ MaxMerges \in Nat /\ MaxFaults \in Nat

Deliveries == 1..MaxDeliveries
Texts == 1..MaxText
Files == [Titles -> 0..MaxText]
NoFiles == [t \in Titles |-> 0]
Events == PublishEvents \cup UpdateEvents \cup OtherEvents

VARIABLES
    doc,        \* Outline: the document's title and text
    onMain,     \* GitHub: the files of main
    branch,     \* GitHub: the branch kb-<urlId> is there
    files,      \* GitHub: the files of the branch
    fork,       \* GitHub: the files of main that the branch last had in common with it
    pr,         \* GitHub: a pull request of the branch is open
    merges, faults,
    event,      \* event[w], the event that delivery w is of, or None
    place,      \* place[w], where the handling of delivery w is
    snap,       \* snap[w], the document as documents.info gave it to w
    base,       \* base[w], main as getBaseRef gave it to w
    sha,        \* sha[w], what getShaForExistingFile gave to w; 0 is undefined
    report,     \* report[w], what the comment of w in Outline says
    wrote,      \* history: wrote[w], w put its file on the branch
    opened,     \* history: opened[w], w opened a pull request
    later,      \* history: later[w], the publishes that read the document after w
                \* did, and before w ended
    disturbed   \* history: disturbed[w], w shared the time it took with a fault, a
                \* merge or another delivery

githubVars == <<onMain, branch, files, fork, pr>>
workerVars == <<event, place, snap, base, sha, report>>
historyVars == <<wrote, opened, later, disturbed>>
vars == <<doc, githubVars, merges, faults, workerVars, historyVars>>

Steps == {"document", "collection", "report", "ref", "base", "create", "sha", "render",
          "put", "creating", "pull", "live", "updateSha", "updatePut"}
Places == Steps \cup {"none", "ended", "threw"}

TypeOK ==
    /\ doc \in [title : Titles, text : Texts]
    /\ onMain \in Files /\ files \in Files /\ fork \in Files
    /\ branch \in BOOLEAN /\ pr \in BOOLEAN
    /\ merges \in 0..MaxMerges /\ faults \in 0..MaxFaults
    /\ event \in [Deliveries -> Events \cup {None}]
    /\ place \in [Deliveries -> Places]
    /\ snap \in [Deliveries -> [title : Titles, text : Texts]]
    /\ base \in [Deliveries -> Files]
    /\ sha \in [Deliveries -> 0..MaxText]
    /\ report \in [Deliveries -> {"none", "publishing", "creating", "live"}]
    /\ wrote \in [Deliveries -> BOOLEAN] /\ opened \in [Deliveries -> BOOLEAN]
    /\ later \in [Deliveries -> SUBSET Deliveries]
    /\ disturbed \in [Deliveries -> BOOLEAN]

Init ==
    /\ doc \in [title : Titles, text : {1}]
    /\ onMain = NoFiles /\ files = NoFiles /\ fork = NoFiles
    /\ branch = FALSE /\ pr = FALSE /\ merges = 0 /\ faults = 0
    /\ event = [w \in Deliveries |-> None]
    /\ place = [w \in Deliveries |-> "none"]
    /\ snap = [w \in Deliveries |-> doc]
    /\ base = [w \in Deliveries |-> NoFiles]
    /\ sha = [w \in Deliveries |-> 0]
    /\ report = [w \in Deliveries |-> "none"]
    /\ wrote = [w \in Deliveries |-> FALSE] /\ opened = [w \in Deliveries |-> FALSE]
    /\ later = [w \in Deliveries |-> {}]
    /\ disturbed = [w \in Deliveries |-> FALSE]

InFlight(w) == place[w] \in Steps
Disturb(S) == disturbed' = [w \in Deliveries |-> disturbed[w] \/ (w \in S /\ InFlight(w))]

-----------------------------------------------------------------------------
(* The document and the pull request *)

\* Somebody edits the document, and perhaps its title.
Edit ==
    /\ doc.text < MaxText
    /\ \E t \in Titles : doc' = [title |-> t, text |-> doc.text + 1]
    /\ UNCHANGED <<githubVars, merges, faults, workerVars, historyVars>>

\* A maintainer merges the pull request, whose files are not in conflict with
\* main, and may delete its branch.
MergePR ==
    /\ pr /\ merges < MaxMerges
    /\ \A t \in Titles : files[t] = fork[t] \/ onMain[t] = fork[t]
    /\ onMain' = [t \in Titles |-> IF files[t] # fork[t] THEN files[t] ELSE onMain[t]]
    /\ fork' = files
    /\ pr' = FALSE
    /\ merges' = merges + 1
    /\ \/ UNCHANGED <<branch, files>>
       \/ branch' = FALSE /\ files' = NoFiles
    /\ Disturb(Deliveries)
    /\ UNCHANGED <<doc, faults, workerVars, wrote, opened, later>>

-----------------------------------------------------------------------------
(* The webhook *)

Goto(w, p) == place' = [place EXCEPT ![w] = p]

\* A delivery arrives: the event is one seen before or not, nobody remembers.
\* A comment that is no command (the app's own reports are none) is answered.
Receive(w) ==
    /\ place[w] = "none"
    /\ \A v \in 1..(w - 1) : place[v] # "none"
    /\ \E e \in Events :
          /\ event' = [event EXCEPT ![w] = e]
          /\ \/ e \in OtherEvents /\ Goto(w, "ended") /\ UNCHANGED disturbed
             \/ /\ e \notin OtherEvents
                /\ Goto(w, "document")
                /\ LET others == {v \in Deliveries : InFlight(v)}
                   IN  disturbed' = [v \in Deliveries |->
                           disturbed[v] \/ (others # {} /\ v \in others \cup {w})]
    /\ UNCHANGED <<doc, githubVars, merges, faults, snap, base, sha, report,
                   wrote, opened, later>>

\* A step of w that succeeds and one that does not: who answers with an error
\* value ends the command quietly, who throws makes the webhook answer 500.
Moves(w, from, to) ==
    /\ place[w] = from /\ Goto(w, to)
    /\ UNCHANGED <<doc, merges, faults, event, disturbed>>

Fails(w, from, to) ==
    /\ faults < MaxFaults /\ faults' = faults + 1
    /\ place[w] = from /\ Goto(w, to)
    /\ Disturb({w})
    /\ UNCHANGED <<doc, merges, event>>

\* outline returns an error if there is no good answer, and throws if it cannot
\* be parsed.
OutlineFails(w, from, to) == Fails(w, from, to) \/ Fails(w, from, "threw")

\* Mutant: the document may come from a cache.
ReadCached(w) ==
    /\ Moves(w, "document", "collection")
    /\ snap' \in {snap, [snap EXCEPT ![w] = doc]}
    /\ later' = [v \in Deliveries |-> IF InFlight(v) /\ v # w THEN later[v] \cup {w} ELSE later[v]]
    /\ UNCHANGED <<githubVars, base, sha, report, wrote, opened>>

ReadDocument(w) ==
    \/ /\ Moves(w, "document", "collection")
       /\ snap' = [snap EXCEPT ![w] = doc]
       /\ later' = [v \in Deliveries |-> IF InFlight(v) /\ v # w /\ event[w] \in PublishEvents
                                              THEN later[v] \cup {w} ELSE later[v]]
       /\ UNCHANGED <<githubVars, base, sha, report, wrote, opened>>
    \/ /\ OutlineFails(w, "document", "ended")
       /\ UNCHANGED <<githubVars, snap, base, sha, report, wrote, opened, later>>

\* collections.info, then the command of the comment.
ReadCollection(w) ==
    /\ \/ Moves(w, "collection",
                IF event[w] \in PublishEvents THEN "report" ELSE "updateSha")
       \/ OutlineFails(w, "collection", "ended")
    /\ UNCHANGED <<githubVars, snap, base, sha, report, wrote, opened, later>>

-----------------------------------------------------------------------------
(* publishCommand *)

CreateReport(w) ==
    /\ \/ Moves(w, "report", "ref") /\ report' = [report EXCEPT ![w] = "publishing"]
       \/ /\ OutlineFails(w, "report", "ended")
          /\ report' = [report EXCEPT ![w] = "publishing"] \/ UNCHANGED report
    /\ UNCHANGED <<githubVars, snap, base, sha, wrote, opened, later>>

\* Any failure to get the branch is taken for its absence.
GetRef(w) ==
    /\ \/ Moves(w, "ref", IF branch THEN "sha" ELSE "base")
       \/ Fails(w, "ref", "base")
    /\ UNCHANGED <<githubVars, snap, base, sha, report, wrote, opened, later>>

GetBaseRef(w) ==
    /\ \/ Moves(w, "base", "create") /\ base' = [base EXCEPT ![w] = onMain]
       \/ Fails(w, "base", "threw") /\ UNCHANGED base
    /\ UNCHANGED <<githubVars, snap, sha, report, wrote, opened, later>>

CreateRef(w) ==
    /\ \/ /\ ~branch
          /\ Moves(w, "create", "sha")
          /\ branch' = TRUE /\ files' = base[w] /\ fork' = base[w]
       \/ branch /\ Moves(w, "create", "threw") /\ UNCHANGED <<branch, files, fork>>
       \/ Fails(w, "create", "threw") /\ UNCHANGED <<branch, files, fork>>
    /\ UNCHANGED <<onMain, pr, snap, base, sha, report, wrote, opened, later>>

\* Mutant: the sha of the existing file is not asked for.
ForgetSha(w, from, to, without) ==
    /\ Moves(w, from, without)
    /\ UNCHANGED <<githubVars, snap, base, sha, report, wrote, opened, later>>

\* getShaForExistingFile, whose failure is taken for the absence of the file;
\* "to" is where w goes with a sha, "without" where it goes with none.
GetSha(w, from, to, without) ==
    /\ \/ /\ Moves(w, from, IF files[snap[w].title] > 0 THEN to ELSE without)
          /\ sha' = [sha EXCEPT ![w] = files[snap[w].title]]
       \/ Fails(w, from, without) /\ UNCHANGED sha
    /\ UNCHANGED <<githubVars, snap, base, report, wrote, opened, later>>

\* The images and videos of the text: an attachment that cannot be resolved, or
\* a video that is not ready within two minutes, throws.
Render(w) ==
    /\ Moves(w, "render", "put") \/ Fails(w, "render", "threw")
    /\ UNCHANGED <<githubVars, snap, base, sha, report, wrote, opened, later>>

\* createOrUpdateFileContents: GitHub takes the text only if the branch is there
\* and the sha is that of the file to be replaced.
PutFile(w) ==
    LET t == snap[w].title
        accepted == branch /\ sha[w] = files[t]
        written == [files EXCEPT ![t] = snap[w].text]
    IN  /\ \/ /\ accepted
              /\ Moves(w, "put", "creating")
              /\ files' = written
              /\ wrote' = [wrote EXCEPT ![w] = TRUE]
           \/ ~accepted /\ Moves(w, "put", "threw") /\ UNCHANGED <<files, wrote>>
           \/ /\ Fails(w, "put", "threw")
              /\ files' \in {files, IF accepted THEN written ELSE files}
              /\ UNCHANGED wrote
        /\ UNCHANGED <<onMain, branch, fork, pr, snap, base, sha, report, opened, later>>

\* comments.update, whose failure nobody looks at.
UpdateReport(w, from, to, text) ==
    /\ \/ Moves(w, from, to) /\ report' = [report EXCEPT ![w] = text]
       \/ /\ OutlineFails(w, from, to)
          /\ report' = [report EXCEPT ![w] = text] \/ UNCHANGED report
    /\ UNCHANGED <<githubVars, snap, base, sha, wrote, opened, later>>

\* Mutant: a pull request that could not be created is not noticed.
PullUnchecked(w) ==
    /\ Moves(w, "pull", "live")
    /\ IF branch /\ ~pr
       THEN pr' = TRUE /\ opened' = [opened EXCEPT ![w] = TRUE]
       ELSE UNCHANGED <<pr, opened>>
    /\ UNCHANGED <<onMain, branch, files, fork, snap, base, sha, report, wrote, later>>

\* pulls.create is refused when one is open already: the comment keeps saying
\* that it is being created.
CreatePull(w) ==
    /\ \/ /\ branch /\ ~pr
          /\ Moves(w, "pull", "live")
          /\ pr' = TRUE
          /\ opened' = [opened EXCEPT ![w] = TRUE]
       \/ (~branch \/ pr) /\ Moves(w, "pull", "ended") /\ UNCHANGED <<pr, opened>>
       \/ Fails(w, "pull", "ended") /\ pr' \in {pr, branch} /\ UNCHANGED opened
    /\ UNCHANGED <<onMain, branch, files, fork, snap, base, sha, report, wrote, later>>

Publish(w) ==
    \/ CreateReport(w) \/ GetRef(w) \/ GetBaseRef(w) \/ CreateRef(w)
    \/ GetSha(w, "sha", "render", "render") \/ Render(w) \/ PutFile(w)
    \/ UpdateReport(w, "creating", "pull", "creating") \/ CreatePull(w)
    \/ UpdateReport(w, "live", "ended", "live")

-----------------------------------------------------------------------------
(* updateCommand: the sha is that of the published file, the path to write is *)
(* another one, whose file nothing else reads or writes; GitHub may refuse.   *)
Update(w) ==
    \/ GetSha(w, "updateSha", "updatePut", "ended")
    \/ /\ Moves(w, "updatePut", "ended") \/ Moves(w, "updatePut", "threw")
          \/ Fails(w, "updatePut", "threw")
       /\ UNCHANGED <<githubVars, snap, base, sha, report, wrote, opened, later>>

-----------------------------------------------------------------------------
DeliveryStep(w) == ReadDocument(w) \/ ReadCollection(w) \/ Publish(w) \/ Update(w)

Next ==
    \/ Edit \/ MergePR
    \/ \E w \in Deliveries : Receive(w) \/ DeliveryStep(w)

Spec == Init /\ [][Next]_vars

-----------------------------------------------------------------------------
(* Properties *)

\* Whatever the branch, its file and the document's title were left like by
\* earlier commands, merges and failures: a publish that nothing interferes
\* with does not throw, and one whose report was created puts its text on the
\* branch.
UndisturbedSucceeds ==
    \A w \in Deliveries :
        (~disturbed[w] /\ event[w] \in PublishEvents) =>
            /\ place[w] # "threw"
            /\ place[w] = "ended" => wrote[w]

\* A comment never claims more than was done: it says that the pull request is
\* being created only with the text on the branch, and that it is live only
\* when this command opened one.
ReportNeverAhead ==
    \A w \in Deliveries :
        /\ report[w] \in {"creating", "live"} => wrote[w]
        /\ report[w] = "live" => opened[w]

\* A newer text on the branch is replaced by an older one only by a command
\* that was overtaken by the one whose text it replaces: that one read the
\* document after it did.  (So it happens: the sha is read late, the text early.)
AloneNeverRegresses ==
    [][\A t \in Titles :
          (branch /\ branch' /\ files'[t] < files[t])
              => \E w \in Deliveries :
                    /\ place[w] = "put" /\ place'[w] # "put"
                    /\ \E v \in later[w] : snap[v].title = t /\ snap[v].text = files[t]]_vars

=============================================================================
