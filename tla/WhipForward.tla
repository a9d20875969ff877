------------------------------ MODULE WhipForward ------------------------------
(***************************************************************************)
(* cstream webrtc forward: internal/forward.  Run opens an RTSP source and *)
(* a WHIP publisher, starts a goroutine that publishes and one that        *)
(* receives, waits for the first of them to end, for the peer connection   *)
(* to fail or for its context, and takes everything down again.            *)
(*                                                                         *)
(* A Go select that blocks is woken by the first event that happens: the   *)
(* value of a send goes straight to it.  A select that finds several cases *)
(* ready takes any of them.  The model keeps that difference.              *)
(***************************************************************************)
EXTENDS Naturals, Sequences

CONSTANTS
    ChannelBufferSize, \* units the channel between the goroutines holds
    None               \* an empty channel, no unit, no result

\* A keyframe with the parameter sets it needs, or another frame.  A packet that
\* completes no frame changes nothing here; audio is not kept apart.
Frames == {"key", "delta"}
Failures == {"stalled", "write", "receive", "peer"}
Errors == Failures \cup {"canceled", "open"}

ASSUME WhipAssumption == ChannelBufferSize \in Nat /\ None \notin Frames \cup Errors

VARIABLES
    main,       \* where Run is
    result,     \* runErr
    publishing, \* where the publish goroutine is; in Failures: has that error
    receiving,  \* where the receive goroutine is
    waiter,     \* where the goroutine that waits for the RTSP client is
    cancelled,  \* the context is done
    parent,     \* the caller's context is done
    publishErr, receiveErr, failed, \* the channels of size one
    units,      \* the channel of media units
    timer,      \* stallTimer: "off", "armed", "fired"
    callback,   \* the RTP callback: the unit it is about to send, or None
    sentKeyframe, \* H264Processor: a keyframe became a unit
    client,     \* the RTSP client: "none", "open", "lost", "closed"
    peer,       \* the peer connection: "none", "up", "failed", "closed"
    session,    \* the WHIP session: "none", "open", "unlocated" (open, without a
                \* resourceURL), "deleted", "left" (its DELETE failed)
    trouble,    \* history: something failed, or the caller cancelled
    early,      \* history: the context was done before Run waited
    firstVideo, \* history: the first video unit that was published
    missed      \* history: a keyframe found the channel full

runVars == <<main, result>>
workerVars == <<publishing, receiving, waiter>>
channelVars == <<publishErr, receiveErr, failed>>
mediaVars == <<units, callback, sentKeyframe, firstVideo>>
linkVars == <<client, peer, session>>
vars == <<runVars, workerVars, cancelled, parent, channelVars, mediaVars, timer,
          linkVars, trouble, early, missed>>

MainPlaces == {"source", "offer", "answer", "starting", "selecting", "chosen",
               "waiting", "deleting", "hangup", "release", "closing", "returned"}

TypeOK ==
    /\ main \in MainPlaces /\ result \in Errors \cup {None}
    /\ publishing \in {"none", "select", "publish", "reported", "done"} \cup Failures
    /\ receiving \in {"none", "play", "wait", "receive", "canceled", "reported", "done"}
    /\ waiter \in {"none", "waiting", "done"}
    /\ cancelled \in BOOLEAN /\ parent \in BOOLEAN /\ early \in BOOLEAN
    /\ publishErr \in Failures \cup {None}
    /\ receiveErr \in {"receive", "canceled", None} /\ failed \in {"peer", None}
    /\ units \in Seq(Frames) /\ Len(units) <= ChannelBufferSize
    /\ timer \in {"off", "armed", "fired"}
    /\ callback \in Frames \cup {None} /\ firstVideo \in Frames \cup {None}
    /\ sentKeyframe \in BOOLEAN
    /\ client \in {"none", "open", "lost", "closed"}
    /\ peer \in {"none", "up", "failed", "closed"}
    /\ session \in {"none", "open", "unlocated", "deleted", "left"}
    /\ trouble \in BOOLEAN /\ missed \in BOOLEAN

Init ==
    /\ main = "source" /\ result = None
    /\ publishing = "none" /\ receiving = "none" /\ waiter = "none"
    /\ cancelled = FALSE /\ parent = FALSE /\ early = FALSE
    /\ publishErr = None /\ receiveErr = None /\ failed = None
    /\ units = <<>> /\ timer = "off" /\ callback = None /\ firstVideo = None
    /\ sentKeyframe = FALSE
    /\ client = "none" /\ peer = "none" /\ session = "none"
    /\ trouble = FALSE /\ missed = FALSE

-----------------------------------------------------------------------------
(* Channels of size one, the context and the select of Run *)

\* Wakes Run's select with an error, if it waits.
Wakes(error) == main = "selecting" /\ main' = "chosen" /\ result' = error

\* A non-blocking send to one of the channels Run selects from.
Report(channel, error) ==
    \/ Wakes(error) /\ channel' = channel
    \/ /\ main # "selecting"
       /\ channel' = IF channel = None THEN error ELSE channel
       /\ UNCHANGED runVars

Cancel ==
    /\ cancelled' = TRUE
    /\ early' = (early \/ (~cancelled /\ main = "starting"))
    /\ Wakes("canceled") \/ (main # "selecting" /\ UNCHANGED runVars)

\* Mutant: a failure is reported on an unbuffered channel.
ReportUnbuffered(channel, error) ==
    /\ channel' = channel
    /\ Wakes(error) \/ (main # "selecting" /\ UNCHANGED runVars)

ReportFailure(channel, error) == Report(channel, error)

-----------------------------------------------------------------------------
(* Run: open, wait, take down *)

\* An error of source.Open leaves a client that was started as it is.
OpenSource ==
    /\ main = "source"
    /\ \/ client' = "open" /\ main' = "offer" /\ UNCHANGED result
       \/ client' \in {"none", "open"} /\ main' = "returned" /\ result' = "open"
    /\ UNCHANGED <<workerVars, cancelled, parent, channelVars, mediaVars, timer,
                   peer, session, trouble, early, missed>>

\* The peer connection and the POST of its offer; a request that fails here may
\* still have opened a session.  Nothing closes what a failed Open leaves.
PostOffer ==
    /\ main = "offer"
    /\ peer' = "up"
    /\ \/ main' = "answer" /\ session' \in {"open", "unlocated"} /\ UNCHANGED result
       \/ /\ main' = "release" /\ result' = "open"
          /\ session' \in {"none", "unlocated"}
    /\ UNCHANGED <<workerVars, cancelled, parent, channelVars, mediaVars, timer,
                   client, trouble, early, missed>>

\* The answer is read and applied; then the two goroutines are started.
ApplyAnswer ==
    /\ main = "answer"
    /\ \/ /\ main' = "starting" /\ publishing' = "select" /\ receiving' = "play"
          /\ timer' = "armed" /\ early' = cancelled
          /\ UNCHANGED result
       \/ main' = "release" /\ result' = "open" /\ UNCHANGED <<publishing, receiving, timer, early>>
    /\ UNCHANGED <<waiter, cancelled, parent, channelVars, mediaVars, linkVars, trouble, missed>>

Ready ==
    {e \in {publishErr, receiveErr, failed} : e # None}
    \cup IF cancelled THEN {"canceled"} ELSE {}

ReachSelect ==
    /\ main = "starting"
    /\ \/ Ready = {} /\ main' = "selecting" /\ UNCHANGED result
       \/ \E e \in Ready : main' = "chosen" /\ result' = e
    /\ UNCHANGED <<workerVars, cancelled, parent, channelVars, mediaVars, timer,
                   linkVars, trouble, early, missed>>

CancelWorkers ==
    /\ main = "chosen"
    /\ main' = "waiting" /\ cancelled' = TRUE
    /\ UNCHANGED <<result, workerVars, parent, channelVars, mediaVars, timer,
                   linkVars, trouble, early, missed>>

\* Mutant: the goroutines are not waited for.
WaitForNobody ==
    /\ main = "waiting"
    /\ main' = "deleting"
    /\ UNCHANGED <<result, workerVars, cancelled, parent, channelVars, mediaVars, timer,
                   linkVars, trouble, early, missed>>

WaitForWorkers ==
    /\ main = "waiting"
    /\ publishing = "done" /\ receiving = "done"
    /\ main' = "deleting"
    /\ UNCHANGED <<result, workerVars, cancelled, parent, channelVars, mediaVars, timer,
                   linkVars, trouble, early, missed>>

\* publisher.Close: DELETE of the session, if its URL is known ...
DeleteSession ==
    /\ main = "deleting"
    /\ main' = "hangup"
    /\ session' \in IF session = "open" THEN {"deleted", "left"} ELSE {session}
    /\ UNCHANGED <<result, workerVars, cancelled, parent, channelVars, mediaVars, timer,
                   client, peer, trouble, early, missed>>

\* ... and the peer connection's Close, which reports its state once more.
HangUp ==
    /\ main = "hangup"
    /\ main' = "release" /\ peer' = "closed"
    /\ failed' = IF failed = None THEN "peer" ELSE failed
    /\ UNCHANGED <<result, workerVars, cancelled, parent, publishErr, receiveErr, mediaVars,
                   timer, client, session, trouble, early, missed>>

\* source.Close ends the client, which calls back no more, and waits for a
\* callback that is running; Run's deferred cancel is last.
CloseSource ==
    /\ main = "release"
    /\ main' = "closing" /\ client' = "closed"
    /\ UNCHANGED <<result, workerVars, cancelled, parent, channelVars, mediaVars, timer,
                   peer, session, trouble, early, missed>>

Return ==
    /\ main = "closing"
    /\ callback = None
    /\ main' = "returned" /\ cancelled' = TRUE
    /\ UNCHANGED <<result, workerVars, parent, channelVars, mediaVars, timer,
                   linkVars, trouble, early, missed>>

CallerCancels ==
    /\ ~parent /\ main # "returned"
    /\ parent' = TRUE
    /\ trouble' = TRUE
    /\ Cancel
    /\ UNCHANGED <<workerVars, channelVars, mediaVars, timer, linkVars, missed>>

-----------------------------------------------------------------------------
(* The publish goroutine *)

\* The select of the loop takes any case that is ready.
EndPublishing ==
    /\ publishing = "select" /\ cancelled
    /\ publishing' = "done" /\ timer' = "off"
    /\ UNCHANGED <<runVars, receiving, waiter, cancelled, parent, channelVars, mediaVars,
                   linkVars, trouble, early, missed>>

NoticeStall ==
    /\ publishing = "select" /\ timer = "fired"
    /\ publishing' = "stalled" /\ timer' = "off"
    /\ trouble' = TRUE
    /\ UNCHANGED <<runVars, receiving, waiter, cancelled, parent, channelVars, mediaVars,
                   linkVars, early, missed>>

\* Mutant: the timer is stopped, but not armed again.
TakeWithoutReset ==
    /\ publishing = "select" /\ units # <<>>
    /\ publishing' = "publish" /\ timer' = "off"
    /\ firstVideo' = IF firstVideo = None THEN Head(units) ELSE firstVideo
    /\ units' = Tail(units)
    /\ UNCHANGED <<runVars, receiving, waiter, cancelled, parent, channelVars, callback,
                   sentKeyframe, linkVars, trouble, early, missed>>

\* A timer that has fired unseen is stopped too: its value is gone after Stop.
TakeUnit ==
    /\ publishing = "select" /\ units # <<>>
    /\ publishing' = "publish" /\ timer' = "armed"
    /\ firstVideo' = IF firstVideo = None THEN Head(units) ELSE firstVideo
    /\ units' = Tail(units)
    /\ UNCHANGED <<runVars, receiving, waiter, cancelled, parent, channelVars, callback,
                   sentKeyframe, linkVars, trouble, early, missed>>

\* WriteRTP succeeds on a dead peer connection as well, and may fail on any.
Publish ==
    /\ publishing = "publish"
    /\ \/ publishing' = "select" /\ UNCHANGED trouble
       \/ publishing' = "write" /\ trouble' = TRUE
    /\ UNCHANGED <<runVars, receiving, waiter, cancelled, parent, channelVars, mediaVars, timer,
                   linkVars, early, missed>>

\* Mutant: failPublish cancels before it sends the error.
CancelBeforeSend ==
    /\ publishing \in Failures
    /\ Cancel
    /\ publishErr' = publishing
    /\ publishing' = "reported"
    /\ UNCHANGED <<receiving, waiter, parent, receiveErr, failed, mediaVars, timer,
                   linkVars, trouble, missed>>

SendPublishError ==
    /\ publishing \in Failures
    /\ Report(publishErr, publishing)
    /\ publishing' = "reported"
    /\ UNCHANGED <<receiving, waiter, cancelled, parent, receiveErr, failed, mediaVars, timer,
                   linkVars, trouble, early, missed>>

FailPublish ==
    /\ publishing = "reported"
    /\ Cancel
    /\ publishing' = "done" /\ timer' = "off"
    /\ UNCHANGED <<receiving, waiter, parent, channelVars, mediaVars, linkVars, trouble, missed>>

-----------------------------------------------------------------------------
(* The receive goroutine, and the goroutine that waits for the client *)

Play ==
    /\ receiving = "play"
    /\ \/ receiving' = "wait" /\ waiter' = "waiting" /\ UNCHANGED trouble
       \/ receiving' = "receive" /\ trouble' = TRUE /\ UNCHANGED waiter
    /\ UNCHANGED <<runVars, publishing, cancelled, parent, channelVars, mediaVars, timer,
                   linkVars, early, missed>>

ClientEnds ==
    /\ waiter = "waiting" /\ client \in {"lost", "closed"}
    /\ waiter' = "done"
    /\ UNCHANGED <<runVars, publishing, receiving, cancelled, parent, channelVars, mediaVars,
                   timer, linkVars, trouble, early, missed>>

EndReceive ==
    /\ receiving = "wait"
    /\ \/ cancelled /\ receiving' = "canceled" /\ UNCHANGED trouble
       \/ waiter = "done" /\ receiving' = "receive" /\ trouble' = TRUE
    /\ UNCHANGED <<runVars, publishing, waiter, cancelled, parent, channelVars, mediaVars,
                   timer, linkVars, early, missed>>

SendReceiveError ==
    /\ receiving \in {"receive", "canceled"}
    /\ Report(receiveErr, receiving)
    /\ receiving' = "reported"
    /\ UNCHANGED <<publishing, waiter, cancelled, parent, publishErr, failed, mediaVars, timer,
                   linkVars, trouble, early, missed>>

FailReceive ==
    /\ receiving = "reported"
    /\ Cancel
    /\ receiving' = "done"
    /\ UNCHANGED <<publishing, waiter, parent, channelVars, mediaVars, timer, linkVars,
                   trouble, missed>>

-----------------------------------------------------------------------------
(* Media, links and time *)

\* Mutant: any frame becomes a unit.
UnitOfAny(frame) == frame

\* ProcessPacket: no unit before the first keyframe.
UnitOf(frame) == IF sentKeyframe \/ frame = "key" THEN frame ELSE None

ReceiveFrame(frame) ==
    /\ client = "open" /\ waiter # "none" /\ callback = None
    /\ callback' = UnitOf(frame)
    /\ sentKeyframe' = (sentKeyframe \/ UnitOf(frame) = "key")
    /\ UNCHANGED <<runVars, workerVars, cancelled, parent, channelVars, units, timer,
                   firstVideo, linkVars, trouble, early, missed>>

SendUnit ==
    /\ callback # None
    /\ callback' = None
    /\ \/ /\ Len(units) < ChannelBufferSize
          /\ units' = Append(units, callback)
          /\ UNCHANGED missed
       \/ /\ Len(units) >= ChannelBufferSize
          /\ missed' = (missed \/ callback = "key")
          /\ UNCHANGED units
    /\ UNCHANGED <<runVars, workerVars, cancelled, parent, channelVars, timer, sentKeyframe, firstVideo, linkVars, trouble, early>>

TimerFires ==
    /\ timer = "armed"
    /\ timer' = "fired"
    /\ UNCHANGED <<runVars, workerVars, cancelled, parent, channelVars, mediaVars,
                   linkVars, trouble, early, missed>>

ClientLost ==
    /\ client = "open" /\ waiter = "waiting"
    /\ client' = "lost"
    /\ UNCHANGED <<runVars, workerVars, cancelled, parent, channelVars, mediaVars, timer,
                   peer, session, trouble, early, missed>>

\* OnConnectionStateChange: also before Run waits for it.
PeerFails ==
    /\ peer = "up" /\ main \in MainPlaces \ {"source", "offer", "answer"}
    /\ peer' = "failed"
    /\ trouble' = TRUE
    /\ ReportFailure(failed, "peer")
    /\ UNCHANGED <<workerVars, cancelled, parent, publishErr, receiveErr, mediaVars, timer,
                   client, session, early, missed>>

-----------------------------------------------------------------------------
RunStep ==
    \/ OpenSource \/ PostOffer \/ ApplyAnswer \/ ReachSelect \/ CancelWorkers
    \/ WaitForWorkers \/ DeleteSession \/ HangUp \/ CloseSource
    \/ Return

PublishStep ==
    EndPublishing \/ NoticeStall \/ TakeUnit \/ Publish \/ SendPublishError \/ FailPublish

ReceiveStep == Play \/ EndReceive \/ SendReceiveError \/ FailReceive

Next ==
    \/ RunStep \/ PublishStep \/ ReceiveStep \/ ClientEnds
    \/ \E frame \in Frames : ReceiveFrame(frame)
    \/ SendUnit \/ TimerFires \/ ClientLost \/ PeerFails \/ CallerCancels

\* Every goroutine that can go on does, requests end (they have a timeout) and
\* time passes; no packet has to come, no failure has to happen.  A loop that
\* always finds units and a done context ready takes each of them some time.
Fairness ==
    /\ WF_vars(RunStep) /\ WF_vars(PublishStep) /\ WF_vars(ReceiveStep)
    /\ WF_vars(ClientEnds) /\ WF_vars(SendUnit) /\ WF_vars(TimerFires)
    /\ SF_vars(EndPublishing)

Spec == Init /\ [][Next]_vars /\ Fairness

-----------------------------------------------------------------------------
(* Properties *)

\* A failure is what Run returns, not the cancellation that follows from it, as
\* long as it comes when Run waits already: each goroutine sends its error
\* before it cancels.
ErrorSurvives ==
    (main \notin {"starting", "selecting"} /\ result = "canceled") => parent \/ early

\* When Run has returned its goroutines have ended, its client and its peer
\* connection are closed and its WHIP session is deleted, but for what an Open
\* that failed leaves behind, a session without a known URL and a DELETE that
\* failed; and no unit is ever published on a closed peer connection.
Released ==
    /\ main = "returned" =>
          /\ publishing \in {"none", "done"} /\ receiving \in {"none", "done"}
          /\ result # "open" => client = "closed" /\ peer = "closed"
          /\ session = "open" => result = "open"
    /\ peer = "closed" => publishing # "publish"

\* The first video the server gets is a keyframe, unless a keyframe found the
\* channel full: the processor counts it as sent all the same.
KeyframeFirst == firstVideo = "delta" => missed

\* Whatever fails, at whatever moment, Run returns: no goroutine waits for one
\* that has ended, whatever the channels are full of.
FailureEndsRun == trouble ~> (main = "returned")

\* Run does not go on without media: it publishes again and again, or returns.
MediaOrReturn == []<>(publishing = "publish") \/ <>(main = "returned")
=============================================================================
