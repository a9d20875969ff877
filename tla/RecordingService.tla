--------------------------- MODULE RecordingService ---------------------------
(***************************************************************************)
(* Recording requests: the manager's recording module                      *)
(* (packages/mtx-manager/src/modules/recording.ts) and the agent beside    *)
(* mediamtx that serves them (packages/mtx-agent/src).  The manager sends  *)
(* a request over the WebSocket of its one active agent and waits for an   *)
(* HTTP call that reports the end of the upload.                           *)
(*                                                                         *)
(* Whenever its control socket connects, the agent is sent metadata, and   *)
(* aborts its current handler and starts another, with a reconnecting      *)
(* queue socket of its own.  Times (reconnection delays) are abstracted.   *)
(***************************************************************************)
EXTENDS Naturals, Sequences, FiniteSets

CONSTANTS
    Requests,    \* the recording requests made of the manager
    MaxHandlers, \* bound: handleRecording calls of the agent
    MaxFaults,   \* bound: broken links, crashes of the agent, restarts of the
                 \* manager, directories not made, failed work and HTTP calls
    None         \* no active agent, no job

ASSUME RecordingAssumption ==
    /\ MaxHandlers \in Nat /\ MaxFaults \in Nat
    /\ None \notin Requests /\ None \notin (1..MaxHandlers) \X {1, 2}

Handlers == 1..MaxHandlers
\* The sockets of a handler's Queue: a new one may be opened while the manager
\* has not yet seen the end of the one before.
Sockets == Handlers \X {1, 2}
Owner(s) == s[1]
SocketsOf(h) == {s \in Sockets : Owner(s) = h}

VARIABLES
    agent,      \* manager: the socket of the active agent, or None
    outcome,    \* manager: outcome[r], what became of request r's promise
    known,      \* manager: the keys of its requests map
    control,    \* the control socket: closed, with the init message or the
                \* metadata on its way, or open
    serverOpen, \* manager: serverOpen[s], its end of socket s is open
    clientOpen, \* agent: its end of socket s is open
    broken,     \* broken[s]: nothing gets through socket s any more
    hello,      \* hello[s]: the init message is on its way to the manager
    inflight,   \* inflight[s]: the requests on their way to the agent
    latest,     \* agent: the number of handlers it ever started
    handler,    \* agent: handler[h], where handleRecording h is
    wanted,     \* agent: the Queue of h keeps reconnecting
    inbox,      \* agent: inbox[h], the messages of the Queue of h
    job,        \* agent: job[h], the request h works on, or None
    uploaded,   \* the requests whose clip is in the object storage
    faults,     \* faults so far
    lost,       \* history: requests that no living handler will come to
    confirmed   \* history: requests whose success the manager confirmed

managerVars == <<agent, outcome, known>>
socketVars == <<serverOpen, clientOpen, broken, hello, inflight>>
handlerVars == <<latest, handler, wanted, inbox, job>>
vars == <<managerVars, control, socketVars, handlerVars, uploaded, faults, lost, confirmed>>

Elements(q) == {q[i] : i \in DOMAIN q}
Outcomes == {"none", "refused", "pending", "success", "error", "forgotten"}
Places == {"none", "starting", "noQueue", "waiting", "working", "completing", "failing",
           "dead", "gone"}

TypeOK ==
    /\ agent \in Sockets \cup {None}
    /\ outcome \in [Requests -> Outcomes]
    /\ known \in SUBSET Requests
    /\ control \in {"closed", "hello", "metadata", "open"}
    /\ serverOpen \in [Sockets -> BOOLEAN] /\ clientOpen \in [Sockets -> BOOLEAN]
    /\ broken \in [Sockets -> BOOLEAN] /\ hello \in [Sockets -> BOOLEAN]
    /\ inflight \in [Sockets -> Seq(Requests)]
    /\ latest \in 0..MaxHandlers
    /\ handler \in [Handlers -> Places]
    /\ wanted \in [Handlers -> BOOLEAN]
    /\ inbox \in [Handlers -> Seq(Requests)]
    /\ job \in [Handlers -> Requests \cup {None}]
    /\ \A h \in Handlers :
          job[h] # None <=> handler[h] \in {"working", "completing", "failing", "dead"}
    /\ uploaded \in SUBSET Requests
    /\ faults \in 0..MaxFaults
    /\ lost \in SUBSET Requests /\ confirmed \in SUBSET Requests

Init ==
    /\ agent = None
    /\ outcome = [r \in Requests |-> "none"]
    /\ known = {} /\ control = "closed"
    /\ serverOpen = [s \in Sockets |-> FALSE] /\ clientOpen = [s \in Sockets |-> FALSE]
    /\ broken = [s \in Sockets |-> FALSE] /\ hello = [s \in Sockets |-> FALSE]
    /\ inflight = [s \in Sockets |-> <<>>]
    /\ latest = 0
    /\ handler = [h \in Handlers |-> "none"]
    /\ wanted = [h \in Handlers |-> FALSE]
    /\ inbox = [h \in Handlers |-> <<>>]
    /\ job = [h \in Handlers |-> None]
    /\ uploaded = {} /\ faults = 0 /\ lost = {} /\ confirmed = {}

Fault == faults < MaxFaults /\ faults' = faults + 1

\* What is on its way over the sockets S is lost with them.
Discard(S) ==
    /\ inflight' = [s \in Sockets |-> IF s \in S THEN <<>> ELSE inflight[s]]
    /\ lost' = lost \cup UNION {Elements(inflight[s]) : s \in S}

-----------------------------------------------------------------------------
(* The agent's control socket *)

\* The reconnecting control socket opens and says hello.
ConnectControl ==
    /\ control = "closed" /\ control' = "hello"
    /\ UNCHANGED <<managerVars, socketVars, handlerVars, uploaded, faults, lost, confirmed>>

\* The manager answers every message of the control socket with the metadata.
SendMetadata ==
    /\ control = "hello" /\ control' = "metadata"
    /\ UNCHANGED <<managerVars, socketVars, handlerVars, uploaded, faults, lost, confirmed>>

BreakControl ==
    /\ Fault
    /\ control # "closed" /\ control' = "closed"
    /\ UNCHANGED <<managerVars, socketVars, handlerVars, uploaded, lost, confirmed>>

\* A metadata message: the previous handler's signal is aborted, which closes
\* its Queue if it has one by now; the new handler first makes its directory.
\* The Queue's messages are not closed: the old loop goes on with its inbox.
ReceiveMetadata ==
    LET h == latest + 1
        aborted == IF latest = 0 \/ handler[latest] = "starting" THEN {} ELSE {latest}
        S == UNION {SocketsOf(a) : a \in aborted}
    IN  /\ control = "metadata" /\ control' = "open"
        /\ latest < MaxHandlers
        /\ latest' = h
        /\ handler' = [handler EXCEPT ![h] = "starting"]
        /\ wanted' = [a \in Handlers |-> wanted[a] /\ a \notin aborted]
        /\ clientOpen' = [s \in Sockets |-> clientOpen[s] /\ s \notin S]
        /\ Discard(S)
        /\ UNCHANGED <<managerVars, serverOpen, broken, hello, inbox, job,
                       uploaded, faults, confirmed>>

-----------------------------------------------------------------------------
(* The queue sockets *)

\* The directory is there and the Queue is constructed.  Its abort listener is
\* registered only now: a signal that was aborted before is never noticed.
ConstructQueue(h) ==
    /\ handler[h] = "starting"
    /\ handler' = [handler EXCEPT ![h] = "waiting"]
    /\ wanted' = [wanted EXCEPT ![h] = TRUE]
    /\ UNCHANGED <<managerVars, control, socketVars, latest, inbox, job, uploaded, faults, lost,
                   confirmed>>

\* The directory cannot be made: handleRecording ends before there is a Queue,
\* and onMetadata, which waits for all its handlers to settle, swallows the error.
NoDirectory(h) ==
    /\ Fault
    /\ handler[h] = "starting"
    /\ handler' = [handler EXCEPT ![h] = "noQueue"]
    /\ UNCHANGED <<managerVars, control, socketVars, latest, wanted, inbox, job, uploaded, lost,
                   confirmed>>

\* The reconnecting socket of the Queue opens a connection and says hello.
Connect(s) ==
    /\ wanted[Owner(s)]
    /\ \A t \in SocketsOf(Owner(s)) : ~clientOpen[t]
    /\ ~serverOpen[s]
    /\ serverOpen' = [serverOpen EXCEPT ![s] = TRUE]
    /\ clientOpen' = [clientOpen EXCEPT ![s] = TRUE]
    /\ broken' = [broken EXCEPT ![s] = FALSE]
    /\ hello' = [hello EXCEPT ![s] = TRUE]
    /\ UNCHANGED <<managerVars, control, inflight, handlerVars, uploaded, faults, lost, confirmed>>

Break(s) ==
    /\ Fault
    /\ clientOpen[s] /\ serverOpen[s] /\ ~broken[s]
    /\ broken' = [broken EXCEPT ![s] = TRUE]
    /\ hello' = [hello EXCEPT ![s] = FALSE]
    /\ Discard({s})
    /\ UNCHANGED <<managerVars, control, serverOpen, clientOpen, handlerVars, uploaded, confirmed>>

\* The agent sees that the manager closed the socket, or that it is broken.
ClientSeesClose(s) ==
    /\ clientOpen[s] /\ (~serverOpen[s] \/ broken[s])
    /\ clientOpen' = [clientOpen EXCEPT ![s] = FALSE]
    /\ UNCHANGED <<managerVars, control, serverOpen, broken, hello, inflight, handlerVars,
                   uploaded, faults, lost, confirmed>>

Deliver(s) ==
    LET h == Owner(s)
        r == Head(inflight[s])
    IN  /\ inflight[s] # <<>>
        /\ inflight' = [inflight EXCEPT ![s] = Tail(@)]
        /\ inbox' = [inbox EXCEPT ![h] = Append(@, r)]
        /\ lost' = IF handler[h] = "dead" THEN lost \cup {r} ELSE lost
        /\ UNCHANGED <<managerVars, control, serverOpen, clientOpen, broken, hello, latest, handler,
                       wanted, job, uploaded, faults, confirmed>>

-----------------------------------------------------------------------------
(* The manager *)

\* Mutant: a socket that says hello replaces the active agent.
HelloReplaces(s) ==
    /\ serverOpen[s] /\ hello[s]
    /\ hello' = [hello EXCEPT ![s] = FALSE]
    /\ agent' = s
    /\ UNCHANGED <<outcome, known, control, serverOpen, clientOpen, broken, inflight,
                   handlerVars, uploaded,
                   faults, lost, confirmed>>

\* onMessage: the socket becomes the active agent's, or is closed if another is.
ReceiveHello(s) ==
    /\ serverOpen[s] /\ hello[s]
    /\ hello' = [hello EXCEPT ![s] = FALSE]
    /\ \/ /\ agent \in {None, s}
          /\ agent' = s
          /\ UNCHANGED serverOpen
       \/ /\ agent \notin {None, s}
          /\ serverOpen' = [serverOpen EXCEPT ![s] = FALSE]
          /\ UNCHANGED agent
    /\ UNCHANGED <<outcome, known, control, clientOpen, broken, inflight, handlerVars, uploaded,
                   faults, lost, confirmed>>

\* Mutant: the agent that disconnects stays the active one.
CloseKeepsAgent(s) ==
    /\ serverOpen[s] /\ (~clientOpen[s] \/ broken[s])
    /\ serverOpen' = [serverOpen EXCEPT ![s] = FALSE]
    /\ hello' = [hello EXCEPT ![s] = FALSE]
    /\ UNCHANGED <<managerVars, control, clientOpen, broken, inflight, handlerVars, uploaded,
                   faults, lost, confirmed>>

\* onClose, which the manager may see long after the agent closed its end.
ServerSeesClose(s) ==
    /\ serverOpen[s] /\ (~clientOpen[s] \/ broken[s])
    /\ serverOpen' = [serverOpen EXCEPT ![s] = FALSE]
    /\ hello' = [hello EXCEPT ![s] = FALSE]
    /\ agent' = IF agent = s THEN None ELSE agent
    /\ UNCHANGED <<outcome, known, control, clientOpen, broken, inflight, handlerVars, uploaded,
                   faults, lost, confirmed>>

\* request: no agent, no request.  A send to a socket whose end the manager
\* has not noticed goes nowhere, or throws.
Request(r) ==
    /\ outcome[r] = "none"
    /\ known' = IF agent = None THEN known ELSE known \cup {r}
    /\ \/ /\ agent = None
          /\ outcome' = [outcome EXCEPT ![r] = "refused"]
          /\ UNCHANGED <<inflight, lost>>
       \/ /\ agent # None /\ clientOpen[agent] /\ ~broken[agent]
          /\ outcome' = [outcome EXCEPT ![r] = "pending"]
          /\ inflight' = [inflight EXCEPT ![agent] = Append(@, r)]
          /\ UNCHANGED lost
       \/ /\ agent # None /\ (~clientOpen[agent] \/ broken[agent])
          /\ \/ outcome' = [outcome EXCEPT ![r] = "pending"] /\ lost' = lost \cup {r}
             \/ outcome' = [outcome EXCEPT ![r] = "error"] /\ UNCHANGED lost
          /\ UNCHANGED inflight
    /\ UNCHANGED <<agent, control, serverOpen, clientOpen, broken, hello, handlerVars,
                   uploaded, faults, confirmed>>

\* The manager is started again, with a new map of requests: whoever waited for
\* a promise is gone too.
Restart ==
    /\ Fault
    /\ agent' = None /\ known' = {}
    /\ outcome' = [r \in Requests |->
                      IF outcome[r] = "pending" THEN "forgotten" ELSE outcome[r]]
    /\ control' = "closed"
    /\ serverOpen' = [s \in Sockets |-> FALSE]
    /\ hello' = [s \in Sockets |-> FALSE]
    /\ Discard(Sockets)
    /\ UNCHANGED <<clientOpen, broken, handlerVars, uploaded, confirmed>>

\* POST /complete: the first report settles the promise.
Settle(r, result) ==
    outcome' = IF outcome[r] = "pending" THEN [outcome EXCEPT ![r] = result] ELSE outcome

-----------------------------------------------------------------------------
(* handleRecording: one request after the other *)

Goto(h, place) == handler' = [handler EXCEPT ![h] = place]

Take(h) ==
    /\ handler[h] = "waiting" /\ inbox[h] # <<>>
    /\ job' = [job EXCEPT ![h] = Head(inbox[h])]
    /\ inbox' = [inbox EXCEPT ![h] = Tail(@)]
    /\ Goto(h, "working")
    /\ UNCHANGED <<managerVars, control, socketVars, latest, wanted, uploaded, faults, lost,
                   confirmed>>

Upload(h) ==
    /\ handler[h] = "working"
    /\ uploaded' = uploaded \cup {job[h]}
    /\ Goto(h, "completing")
    /\ UNCHANGED <<managerVars, control, socketVars, latest, wanted, inbox, job, faults, lost,
                   confirmed>>

\* mediamtx has no recording, the disk is full, the storage refuses the clip,
\* or the clip cannot be removed after its upload.
WorkFails(h) ==
    /\ Fault
    /\ handler[h] = "working"
    /\ uploaded' \in {uploaded, uploaded \cup {job[h]}}
    /\ Goto(h, "failing")
    /\ UNCHANGED <<managerVars, control, socketVars, latest, wanted, inbox, job, lost, confirmed>>

EndJob(h) == Goto(h, "waiting") /\ job' = [job EXCEPT ![h] = None]

Complete(h) ==
    /\ handler[h] = "completing" /\ job[h] \in known
    /\ Settle(job[h], "success")
    /\ confirmed' = confirmed \cup {job[h]}
    /\ EndJob(h)
    /\ UNCHANGED <<agent, known, control, socketVars, latest, wanted, inbox, uploaded, faults,
                   lost>>

\* The call does not reach the manager, or its answer does not come back, or the
\* answer is that the manager knows of no such request.
CompleteFails(h) ==
    /\ handler[h] = "completing"
    /\ \/ Fault /\ (Settle(job[h], "success") \/ UNCHANGED outcome)
       \/ job[h] \notin known /\ UNCHANGED <<faults, outcome>>
    /\ Goto(h, "failing")
    /\ UNCHANGED <<agent, known, control, socketVars, latest, wanted, inbox, job, uploaded, lost,
                   confirmed>>

\* Mutant: a failed recording is reported as complete.
FailAsSuccess(h) ==
    /\ handler[h] = "failing" /\ job[h] \in known
    /\ Settle(job[h], "success")
    /\ EndJob(h)
    /\ UNCHANGED <<agent, known, control, socketVars, latest, wanted, inbox, uploaded, faults,
                   lost, confirmed>>

\* Mutant: a failed recording is only logged.
FailSilently(h) ==
    /\ handler[h] = "failing"
    /\ EndJob(h)
    /\ UNCHANGED <<managerVars, control, socketVars, latest, wanted, inbox, uploaded, faults,
                   lost, confirmed>>

Fail(h) ==
    /\ handler[h] = "failing" /\ job[h] \in known
    /\ Settle(job[h], "error")
    /\ EndJob(h)
    /\ UNCHANGED <<agent, known, control, socketVars, latest, wanted, inbox, uploaded, faults,
                   lost, confirmed>>

\* An error while reporting the error leaves the loop: handleRecording ends,
\* its Queue stays connected.
FailFails(h) ==
    /\ handler[h] = "failing"
    /\ \/ Fault /\ (Settle(job[h], "error") \/ UNCHANGED outcome)
       \/ job[h] \notin known /\ UNCHANGED <<faults, outcome>>
    /\ Goto(h, "dead")
    /\ lost' = lost \cup {job[h]} \cup Elements(inbox[h])
    /\ UNCHANGED <<agent, known, control, socketVars, latest, wanted, inbox, job, uploaded,
                   confirmed>>

\* The agent process ends, with all its handlers, and is started again.
Crash ==
    /\ Fault
    /\ control' = "closed"
    /\ handler' = [h \in Handlers |-> IF h <= latest THEN "gone" ELSE handler[h]]
    /\ wanted' = [h \in Handlers |-> FALSE]
    /\ inbox' = [h \in Handlers |-> <<>>]
    /\ job' = [h \in Handlers |-> None]
    /\ clientOpen' = [s \in Sockets |-> FALSE]
    /\ inflight' = [s \in Sockets |-> <<>>]
    /\ lost' = lost \cup {r \in Requests :
                    \/ \E s \in Sockets : r \in Elements(inflight[s])
                    \/ \E h \in Handlers : r \in Elements(inbox[h]) \/ r = job[h]}
    /\ UNCHANGED <<managerVars, serverOpen, broken, hello, latest, uploaded, confirmed>>

-----------------------------------------------------------------------------
SocketStep(s) ==
    \/ Connect(s) \/ Break(s) \/ ClientSeesClose(s) \/ ServerSeesClose(s)
    \/ ReceiveHello(s) \/ Deliver(s)

Report(h) == Complete(h) \/ CompleteFails(h) \/ Fail(h) \/ FailFails(h)

HandlerStep(h) ==
    ConstructQueue(h) \/ NoDirectory(h) \/ Take(h) \/ Upload(h) \/ WorkFails(h) \/ Report(h)

ControlStep == ConnectControl \/ SendMetadata \/ ReceiveMetadata

Next ==
    \/ ControlStep \/ BreakControl \/ Restart \/ Crash
    \/ \E s \in Sockets : SocketStep(s)
    \/ \E r \in Requests : Request(r)
    \/ \E h \in Handlers : HandlerStep(h)

\* The agent's sockets reconnect and its metadata arrives, both ends learn of a
\* closed socket, messages arrive, and making a directory, a job and a call end,
\* one way or the other.
\* Nothing makes anybody request a recording, and no fault has to happen.
Fairness ==
    /\ WF_vars(ControlStep)
    /\ \A h \in Handlers :
          /\ WF_vars(ConstructQueue(h) \/ NoDirectory(h))
          /\ WF_vars(\E s \in SocketsOf(h) : Connect(s) \/ ClientSeesClose(s))
          /\ WF_vars(Take(h) \/ Upload(h) \/ WorkFails(h) \/ Report(h))
    /\ \A s \in Sockets : WF_vars(ServerSeesClose(s) \/ ReceiveHello(s) \/ Deliver(s))

Spec == Init /\ [][Next]_vars /\ Fairness

-----------------------------------------------------------------------------
(* Properties *)

\* A caller that is told its recording is done finds it in the storage, and
\* whatever the agent was told is confirmed is what the caller was told, also
\* when reports fail, their answers are lost or handlers are replaced.
SuccessIsReal ==
    /\ \A r \in Requests : outcome[r] = "success" => r \in uploaded
    /\ \A r \in confirmed : outcome[r] = "success"

\* Only a socket that is open at the manager is ever the active one, so that
\* the next agent is never locked out by one that is gone.
ActiveIsOpen == agent # None => serverOpen[agent]

\* No request is served twice or by two handlers, and a request that is still
\* pending and not lost is in exactly one place.
PlacesOf(r) ==
    {<<"flight", s>> : s \in {t \in Sockets : r \in Elements(inflight[t])}}
    \cup {<<"inbox", h>> : h \in {g \in Handlers : r \in Elements(inbox[g])}}
    \cup {<<"job", h>> : h \in {g \in Handlers : job[g] = r}}

PendingIsSomewhere ==
    \A r \in Requests :
        /\ Cardinality(PlacesOf(r)) <= 1
        /\ (outcome[r] = "pending" /\ r \notin lost) => PlacesOf(r) # {}

\* An active agent is only ever replaced after it is gone: a second one never
\* takes requests over from a first one that is there.
NoTakeover ==
    [][(agent # None /\ agent' # agent) => (agent' = None /\ ~serverOpen'[agent])]_vars

\* A promise is settled unless its request was lost: by a socket that ended, an
\* agent that crashed, or a handler that died.  (Nothing in the manager settles
\* it then: no deadline, and no reaction to the agent's close.)
PendingSettles == []<>(\A r \in Requests : outcome[r] = "pending" => r \in lost)

\* Once faults and new metadata stop coming, the agent is connected and the
\* active one for good, although the sockets of its handlers compete.  Only if the
\* latest handler ended without a Queue, and no superseded one still has its own,
\* does nobody serve: the agent does not try again before the next metadata.
Serving == agent # None /\ clientOpen[agent] /\ ~broken[agent]
NoQueueLeft ==
    /\ latest > 0 /\ handler[latest] = "noQueue"
    /\ \A h \in Handlers : ~wanted[h]
ServiceRestored == <>[](Serving \/ NoQueueLeft)
=============================================================================
