-------------------------- MODULE KnowledgeBaseProofs --------------------------
(***************************************************************************)
(* TLAPS proofs about KnowledgeBase, for any events and titles and any     *)
(* number of deliveries, revisions, merges and faults.                     *)
(***************************************************************************)
EXTENDS KnowledgeBase, TLAPS

LEMMA ConstantFacts ==
    /\ Titles # {}
    /\ MaxDeliveries \in Nat /\ MaxText \in Nat \ {0} /\ MaxMerges \in Nat /\ MaxFaults \in Nat
    /\ None \notin Events
    /\ \A e \in PublishEvents : e \notin OtherEvents /\ e \notin UpdateEvents /\ e # None
BY KnowledgeBaseAssumption DEF Events

Document == [title : Titles, text : Texts]

\* Every step of a delivery moves it from one place to another.
LEMMA StepTypes ==
    ASSUME TypeOK, NEW w \in Deliveries, NEW from, NEW to \in Places,
           Moves(w, from, to) \/ Fails(w, from, to)
    PROVE  /\ doc' \in Document /\ merges' \in 0..MaxMerges /\ faults' \in 0..MaxFaults
           /\ event' \in [Deliveries -> Events \cup {None}]
           /\ place' \in [Deliveries -> Places]
           /\ disturbed' \in [Deliveries -> BOOLEAN]
<1> USE DEF TypeOK, Document
<1>1. CASE Moves(w, from, to)
  BY <1>1 DEF Moves, Goto
<1>2. CASE Fails(w, from, to)
  <2>1. faults' \in 0..MaxFaults
    BY <1>2, ConstantFacts DEF Fails
  <2>2. disturbed' \in [Deliveries -> BOOLEAN]
    BY <1>2 DEF Fails, Disturb
  <2>3. QED
    BY <1>2, <2>1, <2>2 DEF Fails, Goto
<1>3. QED
  BY <1>1, <1>2

LEMMA EditType ==
    ASSUME TypeOK, Edit
    PROVE  TypeOK'
<1>1. PICK t \in Titles : doc' = [title |-> t, text |-> doc.text + 1]
  BY DEF Edit
<1>2. doc.text + 1 \in Texts
  BY ConstantFacts DEF Edit, TypeOK, Texts
<1>3. QED
  BY <1>1, <1>2 DEF Edit, TypeOK, githubVars, workerVars, historyVars

LEMMA MergeType ==
    ASSUME TypeOK, MergePR
    PROVE  TypeOK'
<1>1. onMain' \in Files /\ fork' \in Files /\ files' \in Files /\ branch' \in BOOLEAN /\ pr' \in BOOLEAN
  <2>1. NoFiles \in Files
    BY ConstantFacts DEF NoFiles, Files
  <2>2. QED
    BY <2>1 DEF MergePR, TypeOK, Files
<1>2. merges' \in 0..MaxMerges /\ disturbed' \in [Deliveries -> BOOLEAN]
  BY ConstantFacts DEF MergePR, Disturb, TypeOK
<1>3. QED
  BY <1>1, <1>2 DEF MergePR, TypeOK, workerVars

LEMMA ReceiveType ==
    ASSUME TypeOK, NEW w \in Deliveries, Receive(w)
    PROVE  TypeOK'
<1>1. event' \in [Deliveries -> Events \cup {None}]
  BY DEF Receive, TypeOK
<1>2. place' \in [Deliveries -> Places]
  BY DEF Receive, Goto, TypeOK, Places, Steps
<1>3. disturbed' \in [Deliveries -> BOOLEAN]
  BY DEF Receive, TypeOK
<1>4. QED
  BY <1>1, <1>2, <1>3 DEF Receive, TypeOK, githubVars

LEMMA DeliveryType ==
    ASSUME TypeOK, NEW w \in Deliveries, DeliveryStep(w)
    PROVE  TypeOK'
<1> USE DEF githubVars
<1>0. /\ Steps \subseteq Places /\ "ended" \in Places /\ "threw" \in Places
      /\ snap[w] \in Document /\ snap[w].title \in Titles /\ snap[w].text \in Texts
      /\ doc \in Document /\ Texts \subseteq 0..MaxText
  BY ConstantFacts DEF Places, TypeOK, Document, Texts
<1>1. CASE ReadDocument(w)
  <2>1. snap' \in [Deliveries -> Document]
    BY <1>0, <1>1 DEF OutlineFails, ReadDocument, TypeOK, Document
  <2>2. later' \in [Deliveries -> SUBSET Deliveries]
    BY <1>1 DEF OutlineFails, ReadDocument, TypeOK
  <2>3. {"collection", "ended", "threw"} \subseteq Places
    BY DEF Places, Steps
  <2>4. QED
    BY <1>1, <2>1, <2>2, <2>3, StepTypes DEF OutlineFails, ReadDocument, TypeOK, Document
<1>2. CASE ReadCollection(w)
  <2>1. {"report", "updateSha", "ended", "threw"} \subseteq Places
    BY DEF Places, Steps
  <2>2. QED
    BY <1>2, <2>1, StepTypes DEF OutlineFails, ReadCollection, TypeOK, Document
<1>3. CASE CreateReport(w) \/ \E from, to, text : UpdateReport(w, from, to, text)
           /\ to \in Places /\ text \in {"creating", "live"}
  <2>1. {"ref", "ended", "threw"} \subseteq Places
    BY DEF Places, Steps
  <2>2. report' \in [Deliveries -> {"none", "publishing", "creating", "live"}]
    BY <1>3 DEF OutlineFails, CreateReport, UpdateReport, TypeOK
  <2>3. QED
    BY <1>3, <2>1, <2>2, StepTypes DEF OutlineFails, CreateReport, UpdateReport, TypeOK, Document
<1>4. CASE GetRef(w) \/ GetBaseRef(w) \/ Render(w)
  <2>1. {"sha", "base", "create", "threw", "put"} \subseteq Places
    BY DEF Places, Steps
  <2>2. base' \in [Deliveries -> Files]
    BY <1>4 DEF GetRef, GetBaseRef, Render, TypeOK
  <2>3. QED
    BY <1>4, <2>1, <2>2, StepTypes DEF GetRef, GetBaseRef, Render, TypeOK, Document
<1>5. CASE CreateRef(w)
  <2>1. {"sha", "threw"} \subseteq Places
    BY DEF Places, Steps
  <2>2. files' \in Files /\ fork' \in Files /\ branch' \in BOOLEAN
    <3>1. CASE branch' = TRUE /\ files' = base[w] /\ fork' = base[w]
      BY <3>1 DEF TypeOK
    <3>2. CASE UNCHANGED <<branch, files, fork>>
      BY <3>2 DEF TypeOK
    <3>3. QED
      BY <1>5, <3>1, <3>2 DEF CreateRef
  <2>3. \E p \in Places : Moves(w, "create", p) \/ Fails(w, "create", p)
    BY <1>5, <2>1 DEF CreateRef
  <2>4. QED
    BY <1>5, <2>2, <2>3, StepTypes DEF CreateRef, TypeOK, Document
<1>6. ASSUME NEW from, NEW to \in Places, NEW without \in Places, GetSha(w, from, to, without)
      PROVE  TypeOK'
  <2>1. sha' \in [Deliveries -> 0..MaxText]
    BY <1>0, <1>6 DEF GetSha, TypeOK, Files
  <2>2. \E p \in Places : Moves(w, from, p) \/ Fails(w, from, p)
    BY <1>6 DEF GetSha
  <2>3. QED
    BY <1>6, <2>1, <2>2, StepTypes DEF GetSha, TypeOK, Document
<1>7. CASE PutFile(w)
  <2>1. {"creating", "threw"} \subseteq Places
    BY DEF Places, Steps
  <2>2. [files EXCEPT ![snap[w].title] = snap[w].text] \in Files
    BY <1>0 DEF TypeOK, Files
  <2>3. files' \in Files /\ wrote' \in [Deliveries -> BOOLEAN]
    BY <1>7, <2>2 DEF PutFile, TypeOK
  <2>4. \E p \in Places : Moves(w, "put", p) \/ Fails(w, "put", p)
    BY <1>7, <2>1 DEF PutFile
  <2>5. QED
    BY <1>7, <2>3, <2>4, StepTypes DEF PutFile, TypeOK, Document
<1>8. CASE CreatePull(w)
  <2>1. {"live", "ended"} \subseteq Places
    BY DEF Places, Steps
  <2>2. pr' \in BOOLEAN /\ opened' \in [Deliveries -> BOOLEAN]
    BY <1>8 DEF CreatePull, TypeOK
  <2>3. QED
    BY <1>8, <2>1, <2>2, StepTypes DEF CreatePull, TypeOK, Document
<1>9. CASE Update(w) /\ ~GetSha(w, "updateSha", "updatePut", "ended")
  <2>1. {"ended", "threw"} \subseteq Places
    BY DEF Places, Steps
  <2>2. QED
    BY <1>9, <2>1, StepTypes DEF Update, TypeOK, Document
<1>10. {"render", "updatePut", "ended", "pull"} \subseteq Places
  BY DEF Places, Steps
<1>11. QED
  BY <1>1, <1>2, <1>3, <1>4, <1>5, <1>6, <1>7, <1>8, <1>9, <1>10 DEF DeliveryStep, Publish, Update

LEMMA InitType == Init => TypeOK
<1> SUFFICES ASSUME Init
             PROVE  TypeOK
  OBVIOUS
<1>1. NoFiles \in Files
  BY ConstantFacts DEF NoFiles, Files
<1>2. doc \in Document /\ {1} \subseteq Texts
  BY ConstantFacts DEF Init, Document, Texts
<1>3. /\ event \in [Deliveries -> Events \cup {None}] /\ place \in [Deliveries -> Places]
      /\ snap \in [Deliveries -> Document] /\ base \in [Deliveries -> Files]
      /\ sha \in [Deliveries -> 0..MaxText]
      /\ report \in [Deliveries -> {"none", "publishing", "creating", "live"}]
  BY <1>1, <1>2, ConstantFacts DEF Init, Places
<1>4. /\ wrote \in [Deliveries -> BOOLEAN] /\ opened \in [Deliveries -> BOOLEAN]
      /\ later \in [Deliveries -> SUBSET Deliveries] /\ disturbed \in [Deliveries -> BOOLEAN]
  BY DEF Init
<1>5. merges \in 0..MaxMerges /\ faults \in 0..MaxFaults
  BY ConstantFacts DEF Init
<1>6. QED
  BY <1>1, <1>2, <1>3, <1>4, <1>5 DEF Init, TypeOK, Document

LEMMA NextType == TypeOK /\ [Next]_vars => TypeOK'
<1> SUFFICES ASSUME TypeOK, [Next]_vars
             PROVE  TypeOK'
  OBVIOUS
<1>1. CASE UNCHANGED vars
  BY <1>1 DEF vars, githubVars, workerVars, historyVars, TypeOK
<1>2. QED
  BY <1>1, EditType, MergeType, ReceiveType, DeliveryType DEF Next

\* Every variable keeps its type.
THEOREM TypeCorrect == Spec => []TypeOK
BY InitType, NextType, PTL DEF Spec

-----------------------------------------------------------------------------
(* A comment never claims more than was done                               *)

\* The places of a publish after its file is on the branch, and after it opened
\* a pull request.
ReportInv(w) ==
    /\ place[w] \in {"creating", "pull", "live"} => wrote[w]
    /\ place[w] = "live" => opened[w]
    /\ report[w] \in {"creating", "live"} => wrote[w]
    /\ report[w] = "live" => opened[w]

\* A step of another delivery leaves all of this alone.
LEMMA ReportUnchanged ==
    ASSUME NEW v \in Deliveries, ReportInv(v),
           \/ place'[v] = place[v]
           \/ place'[v] \notin {"creating", "pull", "live"},
           report'[v] = report[v],
           wrote[v] => wrote'[v], opened[v] => opened'[v]
    PROVE  ReportInv(v)'
BY DEF ReportInv

LEMMA OnlyItsOwn ==
    ASSUME TypeOK, NEW w \in Deliveries, NEW v \in Deliveries, v # w, DeliveryStep(w)
    PROVE  /\ place'[v] = place[v] /\ report'[v] = report[v] /\ wrote'[v] = wrote[v]
           /\ opened'[v] = opened[v] /\ event'[v] = event[v] /\ sha'[v] = sha[v]
           /\ snap'[v] = snap[v] /\ base'[v] = base[v] /\ disturbed'[v] = disturbed[v]
<1> USE DEF Moves, Fails, Goto, TypeOK, githubVars
<1>1. CASE ReadDocument(w) \/ ReadCollection(w)
  BY <1>1 DEF OutlineFails, ReadDocument, ReadCollection, Disturb
<1>2. CASE CreateReport(w) \/ GetRef(w) \/ GetBaseRef(w) \/ Render(w)
  BY <1>2 DEF OutlineFails, CreateReport, GetRef, GetBaseRef, Render, Disturb
<1>3. CASE CreateRef(w) \/ CreatePull(w)
  BY <1>3 DEF CreateRef, CreatePull, Disturb
<1>4. CASE PutFile(w)
  BY <1>4 DEF PutFile, Disturb
<1>5. CASE \/ UpdateReport(w, "creating", "pull", "creating")
           \/ UpdateReport(w, "live", "ended", "live")
  BY <1>5 DEF OutlineFails, UpdateReport, Disturb
<1>6. CASE GetSha(w, "sha", "render", "render") \/ Update(w)
  BY <1>6 DEF GetSha, Update, Disturb
<1>7. QED
  BY <1>1, <1>2, <1>3, <1>4, <1>5, <1>6 DEF DeliveryStep, Publish

LEMMA ReportStep ==
    ASSUME TypeOK, NEW w \in Deliveries, ReportInv(w), DeliveryStep(w)
    PROVE  ReportInv(w)'
<1> USE DEF Moves, Fails, Goto, TypeOK, githubVars
<1>1. CASE ReadDocument(w) \/ ReadCollection(w)
  BY <1>1 DEF OutlineFails, ReadDocument, ReadCollection, ReportInv
<1>2. CASE CreateReport(w) \/ GetRef(w) \/ GetBaseRef(w) \/ Render(w) \/ CreateRef(w)
  BY <1>2 DEF OutlineFails, CreateReport, GetRef, GetBaseRef, Render, CreateRef, ReportInv
<1>3. CASE CreatePull(w)
  BY <1>3 DEF CreatePull, ReportInv
<1>4. CASE PutFile(w)
  BY <1>4 DEF PutFile, ReportInv
<1>5. CASE \/ UpdateReport(w, "creating", "pull", "creating")
           \/ UpdateReport(w, "live", "ended", "live")
  BY <1>5 DEF OutlineFails, UpdateReport, ReportInv
<1>6. CASE GetSha(w, "sha", "render", "render") \/ Update(w)
  BY <1>6 DEF GetSha, Update, ReportInv
<1>7. QED
  BY <1>1, <1>2, <1>3, <1>4, <1>5, <1>6 DEF DeliveryStep, Publish

ReportsInv == \A w \in Deliveries : ReportInv(w)

LEMMA ReportsInductive == TypeOK /\ ReportsInv /\ [Next]_vars => ReportsInv'
<1> SUFFICES ASSUME TypeOK, ReportsInv, [Next]_vars, NEW v \in Deliveries
             PROVE  ReportInv(v)'
  BY DEF ReportsInv
<1>1. ReportInv(v)
  BY DEF ReportsInv
<1>2. CASE Edit \/ MergePR \/ UNCHANGED vars
  BY <1>1, <1>2, ReportUnchanged DEF Edit, MergePR, vars, workerVars, historyVars
<1>3. ASSUME NEW w \in Deliveries, Receive(w)
      PROVE  ReportInv(v)'
  <2>1. /\ UNCHANGED <<report, wrote, opened>>
        /\ place'[v] = place[v] \/ place'[v] \in {"ended", "document"}
    BY <1>3 DEF Receive, Goto, TypeOK
  <2>2. QED
    BY <1>1, <2>1, ReportUnchanged
<1>4. ASSUME NEW w \in Deliveries, DeliveryStep(w)
      PROVE  ReportInv(v)'
  <2>1. CASE v = w
    BY <1>1, <1>4, <2>1, ReportStep
  <2>2. CASE v # w
    BY <1>1, <1>4, <2>2, OnlyItsOwn, ReportUnchanged
  <2>3. QED
    BY <2>1, <2>2
<1>5. QED
  BY <1>2, <1>3, <1>4 DEF Next

\* A comment says that the pull request is being created only with the text on
\* the branch, and that it is live only when its command opened one, whichever
\* calls fail.
THEOREM ReportsTruthful == Spec => []ReportNeverAhead
<1>1. Init => ReportsInv
  BY DEF Init, ReportsInv, ReportInv
<1>2. ReportsInv => ReportNeverAhead
  BY DEF ReportsInv, ReportInv, ReportNeverAhead
<1>3. QED
  BY <1>1, <1>2, InitType, NextType, ReportsInductive, PTL DEF Spec

-----------------------------------------------------------------------------
(* A publish that nothing interferes with succeeds                         *)

Calm(w) == ~disturbed[w] /\ event[w] \in PublishEvents

\* What a publish that nothing has disturbed knows of GitHub is still true.
CalmInv(w) ==
    /\ InFlight(w) => \A v \in Deliveries : v # w => ~InFlight(v)
    /\ place[w] \in {"base", "create"} => ~branch
    /\ place[w] \in {"sha", "render", "put"} => branch
    /\ place[w] \in {"render", "put"} => sha[w] = files[snap[w].title]
    /\ place[w] \in {"creating", "pull", "live", "ended"} => wrote[w]
    /\ place[w] # "threw"

UndisturbedInv(w) ==
    /\ event[w] \in PublishEvents => place[w] \notin {"none", "updateSha", "updatePut"}
    /\ place[w] \in {"none", "document", "collection", "report", "ref", "base", "create", "sha"}
          => sha[w] = 0
    /\ Calm(w) => CalmInv(w)

LEMMA StepInFlight ==
    ASSUME TypeOK, NEW w \in Deliveries, DeliveryStep(w)
    PROVE  InFlight(w)
BY DEF DeliveryStep, Publish, Update, OutlineFails, ReadDocument, ReadCollection, CreateReport, GetRef, GetBaseRef,
   CreateRef, GetSha, Render, PutFile, UpdateReport, CreatePull, Moves, Fails, InFlight, Steps

\* A step that does not fail disturbs nobody; one that fails disturbs its own.
LEMMA FailDisturbs ==
    ASSUME TypeOK, NEW w \in Deliveries, NEW from \in Steps, NEW to, Fails(w, from, to)
    PROVE  disturbed'[w]
BY DEF Fails, Disturb, InFlight, TypeOK

LEMMA CalmStep ==
    ASSUME TypeOK, NEW w \in Deliveries, UndisturbedInv(w), Calm(w), DeliveryStep(w),
           ~disturbed'[w]
    PROVE  UndisturbedInv(w)'
<1>1. /\ InFlight(w) /\ \A v \in Deliveries : v # w => ~InFlight(v)
      /\ event[w] \in PublishEvents
  BY StepInFlight DEF UndisturbedInv, CalmInv, Calm
<1>2. ASSUME NEW v \in Deliveries, v # w
      PROVE  ~InFlight(v)'
  BY <1>1, <1>2, OnlyItsOwn DEF InFlight
<1>3. ASSUME NEW from \in Steps, NEW to
      PROVE  ~Fails(w, from, to)
  BY <1>3, FailDisturbs
<1>4. {"document", "collection", "report", "ref", "base", "create", "sha", "render", "put",
       "creating", "pull", "live", "updateSha", "updatePut"} \subseteq Steps
  BY DEF Steps
<1> USE DEF Moves, Goto, TypeOK, githubVars, UndisturbedInv, Calm, CalmInv
<1>5. CASE ReadDocument(w)
  <2>1. ~OutlineFails(w, "document", "ended")
    BY <1>3, <1>4 DEF OutlineFails
  <2>2. QED
    BY <1>1, <1>2, <1>5, <2>1 DEF ReadDocument
<1>6. CASE ReadCollection(w)
  <2>1. ~OutlineFails(w, "collection", "ended")
    BY <1>3, <1>4 DEF OutlineFails
  <2>2. QED
    BY <1>1, <1>2, <1>6, <2>1 DEF ReadCollection
<1>7. CASE CreateReport(w)
  <2>1. ~OutlineFails(w, "report", "ended")
    BY <1>3, <1>4 DEF OutlineFails
  <2>2. QED
    BY <1>1, <1>2, <1>7, <2>1 DEF CreateReport
<1>8. CASE GetRef(w)
  <2>1. ~Fails(w, "ref", "base")
    BY <1>3, <1>4
  <2>2. QED
    BY <1>1, <1>2, <1>8, <2>1 DEF GetRef
<1>9. CASE GetBaseRef(w)
  <2>1. ~Fails(w, "base", "threw")
    BY <1>3, <1>4
  <2>2. QED
    BY <1>1, <1>2, <1>9, <2>1 DEF GetBaseRef
<1>10. CASE CreateRef(w)
  <2>1. ~Fails(w, "create", "threw")
    BY <1>3, <1>4
  <2>2. QED
    BY <1>1, <1>2, <1>10, <2>1 DEF CreateRef
<1>11. CASE GetSha(w, "sha", "render", "render")
  <2>1. ~Fails(w, "sha", "render")
    BY <1>3, <1>4
  <2>2. Moves(w, "sha", "render") /\ sha'[w] = files[snap[w].title]
    BY <1>11, <2>1 DEF GetSha
  <2>3. UNCHANGED <<githubVars, snap, wrote>> /\ event' = event
    BY <1>11, <2>2 DEF GetSha
  <2>4. place[w] = "sha" /\ place'[w] = "render"
    BY <2>2
  <2>5. QED
    BY <1>1, <1>2, <2>2, <2>3, <2>4
<1>12. CASE Render(w)
  <2>1. ~Fails(w, "render", "threw")
    BY <1>3, <1>4
  <2>2. QED
    BY <1>1, <1>2, <1>12, <2>1 DEF Render
<1>13. CASE PutFile(w)
  <2>1. ~Fails(w, "put", "threw")
    BY <1>3, <1>4
  <2>2. branch /\ sha[w] = files[snap[w].title]
    BY <1>13 DEF PutFile, Fails
  <2>3. Moves(w, "put", "creating") /\ wrote' = [wrote EXCEPT ![w] = TRUE]
    BY <1>13, <2>1, <2>2 DEF PutFile
  <2>4. QED
    BY <1>1, <1>2, <2>3
<1>14. CASE \/ UpdateReport(w, "creating", "pull", "creating")
            \/ UpdateReport(w, "live", "ended", "live")
  <2>1. ~OutlineFails(w, "creating", "pull") /\ ~OutlineFails(w, "live", "ended")
    BY <1>3, <1>4 DEF OutlineFails
  <2>2. QED
    BY <1>1, <1>2, <1>14, <2>1 DEF UpdateReport
<1>15. CASE CreatePull(w)
  <2>1. ~Fails(w, "pull", "ended")
    BY <1>3, <1>4
  <2>2. QED
    BY <1>1, <1>2, <1>15, <2>1 DEF CreatePull
<1>16. CASE Update(w)
  BY <1>1, <1>16 DEF Update, GetSha, Fails
<1>17. QED
  BY <1>5, <1>6, <1>7, <1>8, <1>9, <1>10, <1>11, <1>12, <1>13, <1>14, <1>15, <1>16
     DEF DeliveryStep, Publish

\* The parts of the invariant that hold of every delivery, by its own steps.
LEMMA PlaceStep ==
    ASSUME TypeOK, NEW w \in Deliveries, UndisturbedInv(w), DeliveryStep(w)
    PROVE  /\ event'[w] = event[w]
           /\ disturbed[w] => disturbed'[w]
           /\ event[w] \in PublishEvents => place'[w] \notin {"none", "updateSha", "updatePut"}
           /\ place'[w] \in {"none", "document", "collection", "report", "ref", "base", "create", "sha"}
                 => sha'[w] = 0
<1> USE DEF Moves, Fails, Goto, TypeOK, UndisturbedInv, Disturb
<1>1. CASE ReadDocument(w) \/ ReadCollection(w)
  BY <1>1 DEF OutlineFails, ReadDocument, ReadCollection
<1>2. CASE CreateReport(w) \/ GetRef(w) \/ GetBaseRef(w) \/ Render(w)
  BY <1>2 DEF OutlineFails, CreateReport, GetRef, GetBaseRef, Render
<1>3. CASE CreateRef(w) \/ CreatePull(w) \/ PutFile(w)
  BY <1>3 DEF CreateRef, CreatePull, PutFile
<1>4. CASE \/ UpdateReport(w, "creating", "pull", "creating")
           \/ UpdateReport(w, "live", "ended", "live")
  BY <1>4 DEF OutlineFails, UpdateReport
<1>5. CASE GetSha(w, "sha", "render", "render")
  BY <1>5 DEF GetSha
<1>6. CASE Update(w)
  BY <1>6 DEF Update, GetSha
<1>7. QED
  BY <1>1, <1>2, <1>3, <1>4, <1>5, <1>6 DEF DeliveryStep, Publish

\* A delivery that is not in flight does not look at GitHub any more.
LEMMA AtRest ==
    ASSUME NEW v \in Deliveries, UndisturbedInv(v), ~InFlight(v),
           place'[v] = place[v], event'[v] = event[v], sha'[v] = sha[v],
           wrote'[v] = wrote[v], disturbed'[v] = disturbed[v]
    PROVE  UndisturbedInv(v)'
<1>1. place[v] \notin Steps
  BY DEF InFlight
<1>2. place[v] \notin {"base", "create", "sha", "render", "put"}
  BY <1>1 DEF Steps
<1>3. QED
  BY <1>1, <1>2 DEF UndisturbedInv, Calm, CalmInv, InFlight

\* A delivery that is disturbed by the step, or was before.
LEMMA Disturbed ==
    ASSUME NEW v \in Deliveries, UndisturbedInv(v), disturbed'[v],
           place'[v] = place[v], event'[v] = event[v], sha'[v] = sha[v]
    PROVE  UndisturbedInv(v)'
BY DEF UndisturbedInv, Calm

LEMMA UndisturbedInductive ==
    ASSUME TypeOK, [Next]_vars, NEW v \in Deliveries, UndisturbedInv(v)
    PROVE  UndisturbedInv(v)'
<1>1. CASE Edit \/ UNCHANGED vars
  BY <1>1 DEF Edit, vars, githubVars, workerVars, historyVars, UndisturbedInv, Calm, CalmInv, InFlight
<1>2. CASE MergePR
  <2>1. /\ UNCHANGED <<place, event, sha, wrote>>
        /\ disturbed'[v] = (disturbed[v] \/ InFlight(v))
    BY <1>2 DEF MergePR, Disturb, workerVars
  <2>2. CASE InFlight(v)
    BY <2>1, <2>2, Disturbed
  <2>3. CASE ~InFlight(v)
    <3>1. disturbed'[v] = disturbed[v]
      BY <2>1, <2>3 DEF TypeOK
    <3>2. QED
      BY <2>1, <2>3, <3>1, AtRest
  <2>4. QED
    BY <2>2, <2>3
<1>3. ASSUME NEW w \in Deliveries, Receive(w)
      PROVE  UndisturbedInv(v)'
  <2>1. PICK e \in Events :
           /\ event' = [event EXCEPT ![w] = e]
           /\ \/ e \in OtherEvents /\ Goto(w, "ended") /\ UNCHANGED disturbed
              \/ /\ e \notin OtherEvents
                 /\ Goto(w, "document")
                 /\ LET others == {u \in Deliveries : InFlight(u)}
                    IN  disturbed' = [u \in Deliveries |->
                            disturbed[u] \/ (others # {} /\ u \in others \cup {w})]
    BY <1>3 DEF Receive
  <2>2. /\ place[w] = "none"
        /\ UNCHANGED <<branch, files, sha, snap, wrote>>
    BY <1>3 DEF Receive, githubVars
  <2>3. CASE v = w
    <3>1. event'[v] = e /\ sha'[v] = 0
      BY <2>1, <2>2, <2>3 DEF TypeOK, UndisturbedInv
    <3>2. CASE e \in OtherEvents
      <4>1. event'[v] \notin PublishEvents
        BY <3>1, <3>2, ConstantFacts
      <4>2. QED
        BY <3>1, <4>1 DEF UndisturbedInv, Calm
    <3>3. CASE e \notin OtherEvents
      <4>1. place' = [place EXCEPT ![w] = "document"] /\ place'[v] = "document"
        BY <2>1, <2>3, <3>3 DEF Goto, TypeOK
      <4>2. CASE \A u \in Deliveries : ~InFlight(u)
        <5>1. \A u \in Deliveries : u # v => ~InFlight(u)'
          BY <2>3, <4>1, <4>2 DEF InFlight, TypeOK
        <5>2. QED
          BY <3>1, <4>1, <5>1 DEF UndisturbedInv, CalmInv
      <4>3. CASE \E u \in Deliveries : InFlight(u)
        <5>1. disturbed'[v]
          BY <2>1, <2>3, <3>3, <4>3
        <5>2. QED
          BY <3>1, <4>1, <5>1 DEF UndisturbedInv, Calm
      <4>4. QED
        BY <4>2, <4>3
    <3>4. QED
      BY <3>2, <3>3
  <2>4. CASE v # w
    <3>1. place'[v] = place[v] /\ event'[v] = event[v]
      BY <2>1, <2>4 DEF Goto, TypeOK
    <3>2. CASE e \in OtherEvents
      <4>1. disturbed' = disturbed /\ place' = [place EXCEPT ![w] = "ended"]
        BY <2>1, <3>2 DEF Goto
      <4>2. \A u \in Deliveries : InFlight(u)' => InFlight(u)
        BY <4>1 DEF InFlight, Steps, TypeOK
      <4>3. InFlight(v)' <=> InFlight(v)
        BY <3>1 DEF InFlight
      <4>4. QED
        BY <2>2, <3>1, <4>1, <4>2, <4>3 DEF UndisturbedInv, Calm, CalmInv
    <3>3. CASE e \notin OtherEvents /\ InFlight(v)
      <4>1. disturbed'[v]
        BY <2>1, <3>3
      <4>2. QED
        BY <2>2, <3>1, <4>1, Disturbed
    <3>4. CASE e \notin OtherEvents /\ ~InFlight(v)
      <4>1. disturbed'[v] = (disturbed[v] \/ FALSE)
        BY <2>1, <2>4, <3>4
      <4>2. disturbed'[v] = disturbed[v]
        BY <4>1 DEF TypeOK
      <4>3. QED
        BY <2>2, <3>1, <3>4, <4>2, AtRest
    <3>5. QED
      BY <3>2, <3>3, <3>4
  <2>5. QED
    BY <2>3, <2>4
<1>4. ASSUME NEW w \in Deliveries, DeliveryStep(w)
      PROVE  UndisturbedInv(v)'
  <2>1. CASE v = w
    <3>1. CASE Calm(w) /\ ~disturbed'[w]
      BY <1>4, <2>1, <3>1, CalmStep
    <3>2. CASE ~(Calm(w) /\ ~disturbed'[w])
      <4>1. ~Calm(w)'
        BY <1>4, <2>1, <3>2, PlaceStep DEF Calm
      <4>2. QED
        BY <1>4, <2>1, <4>1, PlaceStep DEF UndisturbedInv
    <3>3. QED
      BY <3>1, <3>2
  <2>2. CASE v # w
    <3>1. InFlight(w)
      BY <1>4, StepInFlight
    <3>2. /\ place'[v] = place[v] /\ event'[v] = event[v] /\ sha'[v] = sha[v]
          /\ wrote'[v] = wrote[v] /\ disturbed'[v] = disturbed[v]
      BY <1>4, <2>2, OnlyItsOwn
    <3>3. CASE InFlight(v)
      <4>1. ~Calm(v)
        BY <2>2, <3>1, <3>3 DEF UndisturbedInv, CalmInv
      <4>2. QED
        BY <3>2, <4>1 DEF UndisturbedInv, Calm
    <3>4. CASE ~InFlight(v)
      BY <3>2, <3>4, AtRest
    <3>5. QED
      BY <3>3, <3>4
  <2>3. QED
    BY <2>1, <2>2
<1>5. QED
  BY <1>1, <1>2, <1>3, <1>4 DEF Next

AllUndisturbed == \A w \in Deliveries : UndisturbedInv(w)

\* Whatever earlier commands, merges and failures left behind, a publish that
\* nothing interferes with does not throw, and it puts its text on the branch.
THEOREM PublishSucceeds == Spec => []UndisturbedSucceeds
<1>1. Init => AllUndisturbed
  BY ConstantFacts DEF Init, AllUndisturbed, UndisturbedInv, Calm, CalmInv
<1>2. TypeOK /\ AllUndisturbed /\ [Next]_vars => AllUndisturbed'
  BY UndisturbedInductive DEF AllUndisturbed
<1>3. AllUndisturbed => UndisturbedSucceeds
  BY DEF AllUndisturbed, UndisturbedInv, Calm, CalmInv, UndisturbedSucceeds
<1>4. QED
  BY <1>1, <1>2, <1>3, InitType, NextType, PTL DEF Spec

-----------------------------------------------------------------------------
(* A newer text is replaced only by a command that was overtaken           *)

\* The publishes that have read the document, or failed to.
HasRead(v) == event[v] \in PublishEvents /\ place[v] \notin {"none", "document"}

\* A text that is anywhere on GitHub was read by some publish.
From(t, n) == n > 0 => \E v \in Deliveries : HasRead(v) /\ snap[v].title = t /\ snap[v].text = n

Sourced ==
    \A t \in Titles :
        /\ From(t, files[t]) /\ From(t, onMain[t])
        /\ \A w \in Deliveries : From(t, base[w][t])

SnapInv(w) ==
    /\ snap[w].text <= doc.text
    /\ place[w] \in {"none", "document"} => snap[w].text = 1
    /\ place[w] \in {"report", "ref", "base", "create", "sha", "render", "put", "creating",
                     "pull", "live"} => event[w] \in PublishEvents

\* Who read a newer text than w did, read it after w did.
Overtakes(w, v) ==
    (InFlight(w) /\ place[w] # "document" /\ HasRead(v) /\ snap[v].text > snap[w].text)
        => v \in later[w]

SnapsInv == \A w \in Deliveries : SnapInv(w)
OvertakenInv == \A w, v \in Deliveries : Overtakes(w, v)
TextInv == Sourced /\ SnapsInv /\ OvertakenInv

LEMMA Numbers ==
    ASSUME TypeOK
    PROVE  /\ doc.text \in Nat \ {0} /\ doc.title \in Titles /\ doc \in Document
           /\ \A w \in Deliveries : /\ snap[w] \in Document /\ snap[w].title \in Titles
                                    /\ snap[w].text \in Nat \ {0}
           /\ \A t \in Titles : /\ files[t] \in Nat /\ onMain[t] \in Nat
                                /\ \A w \in Deliveries : base[w][t] \in Nat
BY ConstantFacts DEF TypeOK, Texts, Files, Document

\* What From says after a step.
FromNext(t, n) ==
    n > 0 => \E v \in Deliveries : HasRead(v)' /\ snap'[v].title = t /\ snap'[v].text = n

\* Steps that forget no publish that has read keep the texts that have a source.
LEMMA SourcedStays ==
    ASSUME Sourced,
           \A v \in Deliveries : HasRead(v) => HasRead(v)' /\ snap'[v] = snap[v],
           \A t \in Titles :
              (/\ FromNext(t, files[t]) /\ FromNext(t, onMain[t])
               /\ \A w \in Deliveries : FromNext(t, base[w][t]))
              => (/\ FromNext(t, files'[t]) /\ FromNext(t, onMain'[t])
                  /\ \A w \in Deliveries : FromNext(t, base'[w][t]))
    PROVE  Sourced'
<1>1. \A t \in Titles : \A n : From(t, n) => FromNext(t, n)
  BY DEF From, FromNext
<1>2. ASSUME NEW t \in Titles
      PROVE  /\ FromNext(t, files'[t]) /\ FromNext(t, onMain'[t])
             /\ \A w \in Deliveries : FromNext(t, base'[w][t])
  BY <1>1 DEF Sourced
<1>3. QED
  BY <1>2 DEF Sourced, From, FromNext

LEMMA SnapStep ==
    ASSUME TypeOK, NEW w \in Deliveries, SnapInv(w), DeliveryStep(w)
    PROVE  /\ SnapInv(w)' /\ doc' = doc
           /\ HasRead(w) => HasRead(w)'
           /\ place'[w] \notin {"none", "document"}
<1> USE DEF Moves, Fails, Goto, TypeOK, SnapInv, HasRead
<1>0. doc.text <= doc.text
  BY Numbers
<1>1. CASE ReadDocument(w)
  BY <1>0, <1>1 DEF OutlineFails, ReadDocument
<1>2. CASE ReadCollection(w)
  BY <1>2 DEF OutlineFails, ReadCollection
<1>3. CASE CreateReport(w) \/ GetRef(w) \/ GetBaseRef(w) \/ Render(w)
  BY <1>3 DEF OutlineFails, CreateReport, GetRef, GetBaseRef, Render
<1>4. CASE CreateRef(w) \/ CreatePull(w) \/ PutFile(w)
  BY <1>4 DEF CreateRef, CreatePull, PutFile
<1>5. CASE \/ UpdateReport(w, "creating", "pull", "creating")
           \/ UpdateReport(w, "live", "ended", "live")
  BY <1>5 DEF OutlineFails, UpdateReport
<1>6. CASE GetSha(w, "sha", "render", "render")
  BY <1>6 DEF GetSha
<1>7. CASE Update(w)
  BY <1>7 DEF Update, GetSha
<1>8. QED
  BY <1>1, <1>2, <1>3, <1>4, <1>5, <1>6, <1>7 DEF DeliveryStep, Publish

\* Only ReadDocument reads the document, or tells the others.
LEMMA SnapChange ==
    ASSUME TypeOK, NEW w \in Deliveries, DeliveryStep(w)
    PROVE  \/ UNCHANGED <<snap, later>> /\ place[w] # "document"
           \/ ReadDocument(w)
BY DEF DeliveryStep, Publish, Update, OutlineFails, ReadCollection, CreateReport, GetRef, GetBaseRef, CreateRef,
   GetSha, Render, PutFile, UpdateReport, CreatePull, Moves, Fails

\* The texts on GitHub change only as the steps say.
LEMMA TextChange ==
    ASSUME TypeOK, NEW w \in Deliveries, DeliveryStep(w)
    PROVE  /\ UNCHANGED onMain
           /\ base' = base \/ (place[w] = "base" /\ base' = [base EXCEPT ![w] = onMain])
           /\ \/ UNCHANGED files
              \/ ~branch /\ files' = base[w]
              \/ place[w] = "put" /\ files' = [files EXCEPT ![snap[w].title] = snap[w].text]
           /\ place[w] # "put" => UNCHANGED files \/ ~branch
           /\ place[w] = "put" => place'[w] # "put"
<1> USE DEF Moves, Fails, Goto, TypeOK, githubVars
<1>1. CASE ReadDocument(w) \/ ReadCollection(w)
  BY <1>1 DEF OutlineFails, ReadDocument, ReadCollection
<1>2. CASE CreateReport(w) \/ GetRef(w) \/ GetBaseRef(w) \/ Render(w)
  BY <1>2 DEF OutlineFails, CreateReport, GetRef, GetBaseRef, Render
<1>3. CASE CreateRef(w) \/ CreatePull(w)
  BY <1>3 DEF CreateRef, CreatePull
<1>4. CASE PutFile(w)
  BY <1>4 DEF PutFile
<1>5. CASE \/ UpdateReport(w, "creating", "pull", "creating")
           \/ UpdateReport(w, "live", "ended", "live")
  BY <1>5 DEF OutlineFails, UpdateReport
<1>6. CASE GetSha(w, "sha", "render", "render")
  BY <1>6 DEF GetSha
<1>7. CASE Update(w)
  BY <1>7 DEF Update, GetSha
<1>8. QED
  BY <1>1, <1>2, <1>3, <1>4, <1>5, <1>6, <1>7 DEF DeliveryStep, Publish

LEMMA TextDelivery ==
    ASSUME TypeOK, TextInv, NEW w \in Deliveries, DeliveryStep(w)
    PROVE  TextInv'
<1>1. /\ SnapInv(w)' /\ doc' = doc /\ (HasRead(w) => HasRead(w)')
      /\ place'[w] \notin {"none", "document"}
  BY SnapStep DEF TextInv, SnapsInv
<1>2. \A v \in Deliveries : v # w =>
         /\ place'[v] = place[v] /\ event'[v] = event[v] /\ snap'[v] = snap[v]
         /\ base'[v] = base[v]
  BY OnlyItsOwn
<1>3. SnapsInv'
  BY <1>1, <1>2 DEF TextInv, SnapsInv, SnapInv
<1>4. \A v \in Deliveries : HasRead(v) => HasRead(v)' /\ snap'[v] = snap[v]
  <2>1. HasRead(w) => snap'[w] = snap[w]
    BY SnapChange DEF HasRead, OutlineFails, ReadDocument, Moves, Fails
  <2>2. QED
    BY <1>1, <1>2, <2>1 DEF HasRead
<1>5. Sourced'
  <2> SUFFICES ASSUME NEW t \in Titles,
                      FromNext(t, files[t]), FromNext(t, onMain[t]),
                      \A v \in Deliveries : FromNext(t, base[v][t])
               PROVE  /\ FromNext(t, files'[t]) /\ FromNext(t, onMain'[t])
                      /\ \A v \in Deliveries : FromNext(t, base'[v][t])
    BY <1>4, SourcedStays DEF TextInv
  <2>1. FromNext(t, onMain'[t])
    BY TextChange
  <2>2. \A v \in Deliveries : FromNext(t, base'[v][t])
    BY TextChange DEF TypeOK
  <2>3. FromNext(t, files'[t])
    <3>1. CASE UNCHANGED files \/ files' = base[w]
      BY <3>1
    <3>2. CASE place[w] = "put" /\ files' = [files EXCEPT ![snap[w].title] = snap[w].text]
      <4>1. HasRead(w)
        BY <3>2 DEF TextInv, SnapsInv, SnapInv, HasRead
      <4>2. FromNext(snap[w].title, snap[w].text)
        BY <1>4, <4>1 DEF FromNext
      <4>3. files'[t] = files[t] \/ (t = snap[w].title /\ files'[t] = snap[w].text)
        BY <3>2 DEF TypeOK, Files
      <4>4. QED
        BY <4>2, <4>3
    <3>3. QED
      BY <3>1, <3>2, TextChange
  <2>4. QED
    BY <2>1, <2>2, <2>3
<1>6. OvertakenInv'
  <2> SUFFICES ASSUME NEW u \in Deliveries, NEW v \in Deliveries,
                      InFlight(u)', place'[u] # "document", HasRead(v)',
                      snap'[v].text > snap'[u].text
               PROVE  v \in later'[u]
    BY DEF OvertakenInv, Overtakes
  <2>1. InFlight(w) /\ place[w] # "none"
    BY StepInFlight DEF InFlight, Steps
  <2>2. event' = event
    BY DEF DeliveryStep, Publish, Update, OutlineFails, ReadDocument, ReadCollection, CreateReport, GetRef,
       GetBaseRef, CreateRef, GetSha, Render, PutFile, UpdateReport, CreatePull, Moves, Fails
  <2>3. CASE UNCHANGED <<snap, later>> /\ place[w] # "document"
    <3>1. InFlight(u) /\ place[u] # "document" /\ HasRead(v)
      BY <1>2, <2>1, <2>2, <2>3 DEF InFlight, HasRead
    <3>2. QED
      BY <2>3, <3>1 DEF TextInv, OvertakenInv, Overtakes
  <2>4. CASE ReadDocument(w)
    <3>1. place[w] = "document"
      BY <2>4 DEF OutlineFails, ReadDocument, Moves, Fails
    <3>2. CASE u = w
      <4>1. snap'[w] = doc
        <5>1. place'[w] \notin {"ended", "threw"}
          BY <3>2 DEF InFlight, Steps
        <5>2. ~OutlineFails(w, "document", "ended")
          BY <5>1 DEF OutlineFails, Fails, Goto, TypeOK
        <5>3. snap' = [snap EXCEPT ![w] = doc]
          BY <2>4, <5>2 DEF ReadDocument
        <5>4. QED
          BY <5>3 DEF TypeOK
      <4>2. snap'[v].text <= doc.text /\ snap'[v].text \in Nat /\ doc.text \in Nat
        <5>1. TypeOK'
          BY NextType DEF Next
        <5>2. snap'[v].text \in Texts /\ doc.text \in Texts
          BY <5>1 DEF TypeOK
        <5>3. Texts \subseteq Nat
          BY ConstantFacts DEF Texts
        <5>4. snap'[v].text <= doc.text
          BY <1>1, <1>3 DEF SnapsInv, SnapInv
        <5>5. QED
          BY <5>2, <5>3, <5>4
      <4>3. QED
        BY <3>2, <4>1, <4>2
    <3>3. CASE u # w /\ v = w
      <4>1. InFlight(u) /\ event[w] \in PublishEvents
        BY <1>2, <2>2, <3>3 DEF InFlight, HasRead
      <4>2. CASE later' = [x \in Deliveries |->
                              IF InFlight(x) /\ x # w /\ event[w] \in PublishEvents
                              THEN later[x] \cup {w} ELSE later[x]]
        BY <3>3, <4>1, <4>2
      <4>3. CASE snap' = snap
        <5>1. snap[w].text = 1 /\ snap[u].text \in Nat /\ snap[u].text >= 1
          BY <3>1, Numbers DEF TextInv, SnapsInv, SnapInv
        <5>2. snap[w].text > snap[u].text
          BY <3>3, <4>3
        <5>3. QED
          BY <5>1, <5>2
      <4>4. QED
        BY <2>4, <4>2, <4>3 DEF OutlineFails, ReadDocument
    <3>4. CASE u # w /\ v # w
      <4>1. v \in later[u]
        BY <1>2, <3>4 DEF TextInv, OvertakenInv, Overtakes, InFlight, HasRead
      <4>2. QED
        BY <2>4, <4>1 DEF OutlineFails, ReadDocument, TypeOK
    <3>5. QED
      BY <3>2, <3>3, <3>4
  <2>5. QED
    BY <2>3, <2>4, SnapChange
<1>7. QED
  BY <1>3, <1>5, <1>6 DEF TextInv

LEMMA TextOther ==
    ASSUME TypeOK, TextInv, Edit \/ MergePR \/ UNCHANGED vars \/ \E w \in Deliveries : Receive(w)
    PROVE  TextInv'
<1>1. ASSUME NEW w \in Deliveries, Receive(w)
      PROVE  TextInv'
  <2>1. /\ UNCHANGED <<doc, files, onMain, base, snap, later>>
        /\ place[w] = "none" /\ place'[w] \in {"ended", "document"}
        /\ \A v \in Deliveries : v # w => place'[v] = place[v] /\ event'[v] = event[v]
        /\ place'[w] = "ended" => event'[w] \in OtherEvents
    BY <1>1 DEF Receive, Goto, TypeOK, githubVars
  <2>2. event'[w] \in PublishEvents => place'[w] = "document"
    BY <2>1, ConstantFacts
  <2>3. \A v \in Deliveries : HasRead(v)' <=> HasRead(v)
    BY <2>1, <2>2 DEF HasRead
  <2>4. SnapsInv'
    BY <2>1 DEF TextInv, SnapsInv, SnapInv
  <2>5. Sourced'
    BY <2>1, <2>3, SourcedStays DEF TextInv
  <2>6. OvertakenInv'
    <3> SUFFICES ASSUME NEW u \in Deliveries, NEW v \in Deliveries,
                        InFlight(u)', place'[u] # "document", HasRead(v)',
                        snap'[v].text > snap'[u].text
                 PROVE  v \in later'[u]
      BY DEF OvertakenInv, Overtakes
    <3>1. u # w
      BY <2>1 DEF InFlight, Steps
    <3>2. InFlight(u) /\ place[u] # "document" /\ HasRead(v)
      BY <2>1, <2>3, <3>1 DEF InFlight
    <3>3. QED
      BY <2>1, <3>2 DEF TextInv, OvertakenInv, Overtakes
  <2>7. QED
    BY <2>4, <2>5, <2>6 DEF TextInv
<1>2. CASE Edit \/ MergePR \/ UNCHANGED vars
  <2>1. /\ UNCHANGED <<place, event, snap, base, later>>
        /\ doc' = doc \/ doc'.text = doc.text + 1
    BY <1>2 DEF Edit, MergePR, vars, workerVars, historyVars
  <2>2. \A v \in Deliveries : (HasRead(v)' <=> HasRead(v)) /\ (InFlight(v)' <=> InFlight(v))
    BY <2>1 DEF HasRead, InFlight
  <2>3. SnapsInv'
    <3>1. doc.text <= doc'.text /\ doc'.text \in Nat
      BY <2>1, Numbers
    <3>2. \A v \in Deliveries : snap[v].text <= doc'.text
      BY <3>1, Numbers DEF TextInv, SnapsInv, SnapInv
    <3>3. QED
      BY <2>1, <3>2 DEF TextInv, SnapsInv, SnapInv
  <2>4. OvertakenInv'
    BY <2>1, <2>2 DEF TextInv, OvertakenInv, Overtakes
  <2>5. Sourced'
    <3> SUFFICES ASSUME NEW t \in Titles,
                        FromNext(t, files[t]), FromNext(t, onMain[t])
                 PROVE  FromNext(t, files'[t]) /\ FromNext(t, onMain'[t])
      BY <2>1, <2>2, SourcedStays DEF TextInv
    <3>1. CASE UNCHANGED githubVars
      BY <3>1 DEF githubVars
    <3>2. CASE MergePR
      <4>1. onMain'[t] \in {files[t], onMain[t]}
        BY <3>2 DEF MergePR
      <4>2. files'[t] = files[t] \/ files'[t] = 0
        BY <3>2 DEF MergePR, NoFiles
      <4>3. FromNext(t, 0)
        BY DEF FromNext
      <4>4. QED
        BY <4>1, <4>2, <4>3
    <3>3. QED
      BY <1>2, <3>1, <3>2 DEF Edit, vars
  <2>6. QED
    BY <2>3, <2>4, <2>5 DEF TextInv
<1>3. QED
  BY <1>1, <1>2

LEMMA TextInductive == TypeOK /\ TextInv /\ [Next]_vars => TextInv'
BY TextDelivery, TextOther DEF Next

LEMMA TextInit == Init => TextInv
<1> SUFFICES ASSUME Init
             PROVE  TextInv
  OBVIOUS
<1>1. doc.text = 1
  BY DEF Init
<1>2. SnapsInv
  BY <1>1 DEF Init, SnapsInv, SnapInv
<1>3. Sourced
  BY DEF Init, Sourced, From, NoFiles
<1>4. OvertakenInv
  BY DEF Init, OvertakenInv, Overtakes, InFlight, Steps
<1>5. QED
  BY <1>2, <1>3, <1>4 DEF TextInv

Regress ==
    \A t \in Titles :
        (branch /\ branch' /\ files'[t] < files[t])
            => \E w \in Deliveries :
                  /\ place[w] = "put" /\ place'[w] # "put"
                  /\ \E v \in later[w] : snap[v].title = t /\ snap[v].text = files[t]

LEMMA RegressStep == TypeOK /\ TextInv /\ [Next]_vars => [Regress]_vars
<1> SUFFICES ASSUME TypeOK, TextInv, Next, NEW t \in Titles,
                    branch, branch', files'[t] < files[t]
             PROVE  \E w \in Deliveries :
                       /\ place[w] = "put" /\ place'[w] # "put"
                       /\ \E v \in later[w] : snap[v].title = t /\ snap[v].text = files[t]
  BY DEF Regress
<1>1. files[t] \in Nat /\ files' # files
  BY Numbers
<1>2. CASE Edit \/ \E w \in Deliveries : Receive(w)
  BY <1>1, <1>2 DEF Edit, Receive, githubVars
<1>3. CASE MergePR
  BY <1>1, <1>3 DEF MergePR
<1>4. ASSUME NEW w \in Deliveries, DeliveryStep(w)
      PROVE  /\ place[w] = "put" /\ place'[w] # "put"
             /\ \E v \in later[w] : snap[v].title = t /\ snap[v].text = files[t]
  <2>1. /\ place[w] = "put" /\ place'[w] # "put"
        /\ files' = [files EXCEPT ![snap[w].title] = snap[w].text]
    BY <1>1, <1>4, TextChange
  <2>2. t = snap[w].title /\ snap[w].text < files[t]
    BY <1>1, <2>1 DEF TypeOK, Files
  <2>3. PICK v \in Deliveries : HasRead(v) /\ snap[v].title = t /\ snap[v].text = files[t]
    BY <1>1, <2>2, Numbers DEF TextInv, Sourced, From
  <2>4. InFlight(w) /\ place[w] # "document"
    BY <2>1 DEF InFlight, Steps
  <2>5. v \in later[w]
    BY <2>2, <2>3, <2>4, Numbers DEF TextInv, OvertakenInv, Overtakes
  <2>6. QED
    BY <2>1, <2>3, <2>5
<1>5. QED
  BY <1>2, <1>3, <1>4 DEF Next

\* An older text replaces a newer one on the branch only by a command that read
\* the document before the one whose text it replaces did.
THEOREM OvertakenOnly == Spec => AloneNeverRegresses
<1>1. AloneNeverRegresses <=> [][Regress]_vars
  BY PTL DEF AloneNeverRegresses, Regress
<1>2. QED
  BY <1>1, RegressStep, TextInductive, TextInit, InitType, NextType, PTL DEF Spec
=============================================================================
