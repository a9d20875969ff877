--------------------------- MODULE WhipForwardProofs ---------------------------
(***************************************************************************)
(* TLAPS proofs about WhipForward, for any size of the media channel: what *)
(* Run returns, what it leaves behind, and the first video it publishes.   *)
(***************************************************************************)
EXTENDS WhipForward, SequenceTheorems, TLAPS

-----------------------------------------------------------------------------
(* Types *)

Flags ==
    /\ cancelled \in BOOLEAN /\ parent \in BOOLEAN /\ early \in BOOLEAN
    /\ trouble \in BOOLEAN /\ missed \in BOOLEAN /\ sentKeyframe \in BOOLEAN

LEMMA FlagsInductive == Flags /\ [Next]_vars => Flags'
<1> SUFFICES ASSUME Flags, [Next]_vars
             PROVE  Flags'
  OBVIOUS
<1> USE DEF Flags, runVars, workerVars, channelVars, mediaVars, linkVars
<1>1. CASE OpenSource \/ PostOffer
  BY <1>1, Zenon DEF OpenSource, PostOffer
<1>2. CASE ApplyAnswer
  BY <1>2, Zenon DEF ApplyAnswer
<1>3. CASE ReachSelect \/ CancelWorkers \/ WaitForWorkers \/ DeleteSession
  BY <1>3, Zenon DEF ReachSelect, CancelWorkers, WaitForWorkers, DeleteSession
<1>4. CASE HangUp \/ CloseSource \/ Return
  BY <1>4, Zenon DEF HangUp, CloseSource, Return
<1>5. CASE EndPublishing \/ NoticeStall \/ TakeUnit \/ Publish \/ SendPublishError
  BY <1>5, Zenon DEF EndPublishing, NoticeStall, TakeUnit, Publish, SendPublishError
<1>6. CASE FailPublish
  BY <1>6, Zenon DEF FailPublish, Cancel
<1>7. CASE Play \/ EndReceive \/ SendReceiveError \/ ClientEnds
  BY <1>7, Zenon DEF Play, EndReceive, SendReceiveError, ClientEnds
<1>8. CASE FailReceive
  BY <1>8, Zenon DEF FailReceive, Cancel
<1>9. CASE \E frame \in Frames : ReceiveFrame(frame)
  BY <1>9, Zenon DEF ReceiveFrame
<1>10. CASE SendUnit
  BY <1>10, Zenon DEF SendUnit
<1>11. CASE TimerFires \/ ClientLost \/ PeerFails
  BY <1>11, Zenon DEF TimerFires, ClientLost, PeerFails
<1>12. CASE CallerCancels
  BY <1>12, Zenon DEF CallerCancels, Cancel
<1>13. CASE UNCHANGED vars
  BY <1>13, Zenon DEF vars
<1>14. QED
  BY <1>1, <1>2, <1>3, <1>4, <1>5, <1>6, <1>7, <1>8, <1>9, <1>10, <1>11, <1>12, <1>13, Zenon
     DEF Next, RunStep, PublishStep, ReceiveStep

\* The control state: everything but the flags and the media.
Control ==
    /\ main \in MainPlaces /\ result \in Errors \cup {None}
    /\ publishing \in {"none", "select", "publish", "reported", "done"} \cup Failures
    /\ receiving \in {"none", "play", "wait", "receive", "canceled", "reported", "done"}
    /\ waiter \in {"none", "waiting", "done"}
    /\ publishErr \in Failures \cup {None}
    /\ receiveErr \in {"receive", "canceled", None} /\ failed \in {"peer", None}
    /\ timer \in {"off", "armed", "fired"}
    /\ client \in {"none", "open", "lost", "closed"}
    /\ peer \in {"none", "up", "failed", "closed"}
    /\ session \in {"none", "open", "unlocated", "deleted", "left"}

LEMMA ControlInductive == Control /\ [Next]_vars => Control'
<1> SUFFICES ASSUME Control, [Next]_vars
             PROVE  Control'
  OBVIOUS
<1> USE DEF Control, Errors, Failures, MainPlaces, runVars, workerVars, channelVars,
        mediaVars, linkVars
<1>1. CASE OpenSource \/ PostOffer \/ ApplyAnswer
  BY <1>1 DEF OpenSource, PostOffer, ApplyAnswer
<1>2. CASE ReachSelect
  BY <1>2 DEF ReachSelect, Ready
<1>3. CASE CancelWorkers \/ WaitForWorkers \/ DeleteSession
  BY <1>3 DEF CancelWorkers, WaitForWorkers, DeleteSession
<1>4. CASE HangUp \/ CloseSource \/ Return
  BY <1>4 DEF HangUp, CloseSource, Return
<1>5. CASE EndPublishing \/ NoticeStall \/ TakeUnit \/ Publish
  BY <1>5 DEF EndPublishing, NoticeStall, TakeUnit, Publish
<1>6. CASE SendPublishError
  BY <1>6 DEF SendPublishError, Report, Wakes
<1>7. CASE FailPublish \/ FailReceive \/ CallerCancels
  BY <1>7 DEF FailPublish, FailReceive, CallerCancels, Cancel, Wakes
<1>8. CASE Play \/ EndReceive \/ ClientEnds
  BY <1>8 DEF Play, EndReceive, ClientEnds
<1>9. CASE SendReceiveError
  BY <1>9 DEF SendReceiveError, Report, Wakes
<1>10. CASE \E frame \in Frames : ReceiveFrame(frame)
  BY <1>10 DEF ReceiveFrame
<1>11. CASE SendUnit
  BY <1>11 DEF SendUnit
<1>12. CASE TimerFires \/ ClientLost
  BY <1>12 DEF TimerFires, ClientLost
<1>13. CASE PeerFails
  BY <1>13 DEF PeerFails, ReportFailure, Report, Wakes
<1>14. CASE UNCHANGED vars
  BY <1>14 DEF vars
<1>15. QED
  BY <1>1, <1>2, <1>3, <1>4, <1>5, <1>6, <1>7, <1>8, <1>9, <1>10, <1>11, <1>12, <1>13, <1>14
     DEF Next, RunStep, PublishStep, ReceiveStep

\* What is in the channel, on its way there, and published first.
Media ==
    /\ units \in Seq(Frames) /\ Len(units) <= ChannelBufferSize
    /\ callback \in Frames \cup {None} /\ firstVideo \in Frames \cup {None}

MediaStep ==
    \/ TakeUnit \/ SendUnit
    \/ \E frame \in Frames : ReceiveFrame(frame)
    \/ UNCHANGED <<mediaVars, missed>>

LEMMA MediaChanges == [Next]_vars => MediaStep
<1> SUFFICES ASSUME [Next]_vars
             PROVE  MediaStep
  OBVIOUS
<1>1. CASE RunStep
  BY <1>1 DEF RunStep, OpenSource, PostOffer, ApplyAnswer, ReachSelect, CancelWorkers,
     WaitForWorkers, DeleteSession, HangUp, CloseSource, Return, MediaStep
<1>2. CASE PublishStep
  BY <1>2 DEF PublishStep, EndPublishing, NoticeStall, Publish, SendPublishError,
     FailPublish, MediaStep
<1>3. CASE ReceiveStep \/ ClientEnds
  BY <1>3 DEF ReceiveStep, Play, EndReceive, SendReceiveError, FailReceive, ClientEnds, MediaStep
<1>4. CASE TimerFires \/ ClientLost \/ PeerFails \/ CallerCancels
  BY <1>4 DEF TimerFires, ClientLost, PeerFails, CallerCancels, MediaStep
<1>5. CASE UNCHANGED vars
  BY <1>5 DEF vars, MediaStep
<1>6. QED
  BY <1>1, <1>2, <1>3, <1>4, <1>5 DEF Next, MediaStep

\* Taking the first unit out of the channel.
LEMMA TakeFirst ==
    ASSUME NEW s \in Seq(Frames), s # <<>>
    PROVE  /\ Head(s) \in Frames /\ Tail(s) \in Seq(Frames)
           /\ Len(Tail(s)) = Len(s) - 1 /\ Len(s) \in Nat
BY HeadTailProperties, LenProperties

\* Putting another one into it.
LEMMA PutLast ==
    ASSUME NEW s \in Seq(Frames), NEW frame \in Frames
    PROVE  /\ Append(s, frame) \in Seq(Frames) /\ Append(s, frame) # <<>>
           /\ Len(Append(s, frame)) = Len(s) + 1 /\ Len(s) \in Nat
           /\ s = <<>> => Head(Append(s, frame)) = frame
           /\ s # <<>> => Head(Append(s, frame)) = Head(s)
<1>1. /\ Append(s, frame) \in Seq(Frames) /\ Append(s, frame) # <<>>
      /\ Len(Append(s, frame)) = Len(s) + 1 /\ Len(s) \in Nat
      /\ \A i \in 1..Len(s) : Append(s, frame)[i] = s[i]
      /\ Append(s, frame)[Len(s) + 1] = frame
  BY AppendProperties, LenProperties
<1>2. Head(Append(s, frame)) = Append(s, frame)[1]
  BY <1>1, HeadTailProperties
<1>3. CASE s = <<>>
  BY <1>1, <1>2, <1>3
<1>4. CASE s # <<>>
  <2>1. Head(s) = s[1] /\ 1 \in 1..Len(s)
    BY <1>1, <1>4, HeadTailProperties, EmptySeq
  <2>2. QED
    BY <1>1, <1>2, <1>4, <2>1
<1>5. QED
  BY <1>1, <1>3, <1>4

LEMMA MediaInductive == Media /\ [Next]_vars => Media'
<1> SUFFICES ASSUME Media, [Next]_vars
             PROVE  Media'
  OBVIOUS
<1> USE DEF Media, mediaVars
<1>1. MediaStep /\ ChannelBufferSize \in Nat
  BY MediaChanges, WhipAssumption
<1>2. CASE TakeUnit
  BY <1>1, <1>2, TakeFirst DEF TakeUnit
<1>3. CASE SendUnit
  <2>1. CASE units' = units
    BY <1>3, <2>1 DEF SendUnit
  <2>2. CASE Len(units) < ChannelBufferSize /\ units' = Append(units, callback)
    <3>1. callback \in Frames
      BY <1>3 DEF SendUnit
    <3>2. QED
      BY <1>1, <1>3, <2>2, <3>1, PutLast DEF SendUnit
  <2>3. QED
    BY <1>3, <2>1, <2>2 DEF SendUnit
<1>4. ASSUME NEW frame \in Frames, ReceiveFrame(frame)
      PROVE  Media'
  BY <1>4 DEF ReceiveFrame, UnitOf
<1>5. CASE UNCHANGED <<mediaVars, missed>>
  BY <1>5
<1>6. QED
  BY <1>1, <1>2, <1>3, <1>4, <1>5 DEF MediaStep

LEMMA TypeParts == TypeOK <=> Flags /\ Control /\ Media
BY DEF TypeOK, Flags, Control, Media

LEMMA TypeInitially == Init => TypeOK
<1> SUFFICES ASSUME Init
             PROVE  TypeOK
  OBVIOUS
<1>1. Media
  <2>1. <<>> \in Seq(Frames) /\ Len(<<>>) = 0
    OBVIOUS
  <2>2. QED
    BY <2>1, WhipAssumption DEF Init, Media
<1>2. Flags
  BY DEF Init, Flags
<1>3. Control
  BY DEF Init, Control, MainPlaces
<1>4. QED
  BY <1>1, <1>2, <1>3, TypeParts

LEMMA TypeInductive == TypeOK /\ [Next]_vars => TypeOK'
<1>1. TypeOK /\ [Next]_vars => Flags' /\ Control' /\ Media'
  BY TypeParts, FlagsInductive, ControlInductive, MediaInductive
<1>2. Flags' /\ Control' /\ Media' => TypeOK'
  BY DEF TypeOK, Flags, Control, Media
<1>3. QED
  BY <1>1, <1>2

\* Every variable keeps its type, and the channel its size.
THEOREM TypeCorrect == Spec => []TypeOK
BY TypeInitially, TypeInductive, PTL DEF Spec

-----------------------------------------------------------------------------
(* The first video is a keyframe                                           *)

\* Before the first unit was published, the one that will be is a keyframe: it
\* is the first in the channel, or, if that is empty, the callback's.
FirstInv ==
    /\ ~sentKeyframe => callback = None /\ units = <<>> /\ firstVideo = None
    /\ \/ missed
       \/ /\ firstVideo # "delta"
          /\ firstVideo = None /\ units # <<>> => Head(units) = "key"
          /\ firstVideo = None /\ units = <<>> /\ sentKeyframe => callback = "key"

LEMMA FirstInvInductive == TypeOK /\ FirstInv /\ [Next]_vars => FirstInv'
<1> SUFFICES ASSUME TypeOK, FirstInv, [Next]_vars
             PROVE  FirstInv'
  OBVIOUS
<1>1. MediaStep /\ Media /\ sentKeyframe \in BOOLEAN /\ missed \in BOOLEAN
  BY MediaChanges, TypeParts DEF Flags
<1>2. None # "key" /\ None # "delta"
  BY WhipAssumption DEF Frames
<1> USE DEF FirstInv, mediaVars
<1>3. CASE TakeUnit
  <2>1. /\ units # <<>> /\ units' = Tail(units)
        /\ firstVideo' = IF firstVideo = None THEN Head(units) ELSE firstVideo
        /\ UNCHANGED <<callback, sentKeyframe, missed>>
    BY <1>3 DEF TakeUnit
  <2>2. Head(units) \in Frames
    BY <1>1, <2>1, TakeFirst DEF Media
  <2>3. firstVideo' # None /\ sentKeyframe
    BY <1>2, <2>1, <2>2 DEF Frames
  <2>4. missed \/ firstVideo' # "delta"
    BY <2>1
  <2>5. QED
    BY <2>1, <2>3, <2>4
<1>4. CASE SendUnit
  <2>1. /\ callback # None /\ callback' = None
        /\ UNCHANGED <<sentKeyframe, firstVideo>>
    BY <1>4 DEF SendUnit
  <2>2. CASE units' = Append(units, callback) /\ missed' = missed
    <3>1. callback \in Frames
      BY <1>1, <2>1 DEF Media
    <3>2. /\ units' # <<>>
          /\ units = <<>> => Head(units') = callback
          /\ units # <<>> => Head(units') = Head(units)
      BY <1>1, <2>2, <3>1, PutLast DEF Media
    <3>3. QED
      BY <2>1, <2>2, <3>2
  <2>3. CASE units' = units /\ missed' = (missed \/ callback = "key")
    BY <1>1, <2>1, <2>3
  <2>4. QED
    BY <1>4, <2>2, <2>3 DEF SendUnit
<1>5. ASSUME NEW frame \in Frames, ReceiveFrame(frame)
      PROVE  FirstInv'
  <2>1. /\ callback = None /\ callback' = UnitOf(frame)
        /\ sentKeyframe' = (sentKeyframe \/ UnitOf(frame) = "key")
        /\ UNCHANGED <<units, firstVideo, missed>>
    BY <1>5 DEF ReceiveFrame
  <2>2. CASE sentKeyframe
    BY <1>2, <2>1, <2>2
  <2>3. CASE ~sentKeyframe
    BY <1>1, <1>2, <2>1, <2>3 DEF UnitOf, Frames
  <2>4. QED
    BY <2>2, <2>3
<1>6. CASE UNCHANGED <<mediaVars, missed>>
  BY <1>6
<1>7. QED
  BY <1>1, <1>3, <1>4, <1>5, <1>6 DEF MediaStep

\* Whatever the size of the channel and however frames, sends and reads
\* interleave, the first video published is a keyframe unless one was missed.
THEOREM KeyframeIsFirst == Spec => []KeyframeFirst
<1>1. Init => FirstInv
  BY WhipAssumption DEF Init, FirstInv, Frames
<1>2. FirstInv => KeyframeFirst
  BY WhipAssumption DEF FirstInv, KeyframeFirst, Frames
<1>3. QED
  BY <1>1, <1>2, FirstInvInductive, TypeCorrect, PTL DEF Spec

-----------------------------------------------------------------------------
(* What Run returns                                                        *)

Opening == main \in {"source", "offer", "answer"}
NoErrors == publishErr = None /\ receiveErr = None /\ failed = None

\* Before the goroutines are started nothing was reported, and only the caller
\* can have cancelled.
OpeningInv ==
    Opening => /\ result = None /\ publishing = "none" /\ receiving = "none" /\ NoErrors
               /\ cancelled => parent

\* Until Run has chosen, a report that was made is in its channel; and Run waits
\* only as long as there is none, and no cancellation.
WaitInv ==
    /\ main \in {"starting", "selecting"} =>
          /\ result = None
          /\ publishing = "reported" => publishErr # None
          /\ receiving = "reported" => receiveErr # None
    /\ main = "starting" /\ cancelled => early
    /\ main = "selecting" => ~cancelled /\ NoErrors

\* A goroutine that has ended, or reports a cancellation, found one or made it.
CancelInv ==
    /\ publishing = "done" => cancelled
    /\ receiving \in {"canceled", "done"} \/ receiveErr = "canceled" => cancelled

CauseInv == OpeningInv /\ WaitInv /\ CancelInv /\ ErrorSurvives

LEMMA CauseInvInductive == TypeOK /\ CauseInv /\ [Next]_vars => CauseInv'
<1> SUFFICES ASSUME TypeOK, CauseInv, [Next]_vars
             PROVE  CauseInv'
  OBVIOUS
<1>1. /\ None \notin {"stalled", "write", "receive", "peer", "canceled", "open"}
      /\ cancelled \in BOOLEAN /\ parent \in BOOLEAN /\ early \in BOOLEAN
      /\ receiveErr \in {"receive", "canceled", None}
  BY WhipAssumption DEF Errors, Failures, TypeOK
<1> USE <1>1 DEF CauseInv, OpeningInv, WaitInv, CancelInv, ErrorSurvives, Opening, NoErrors,
        runVars, workerVars, channelVars, mediaVars, linkVars
<1>2. CASE OpenSource \/ PostOffer
  BY <1>2 DEF OpenSource, PostOffer
<1>3. CASE ApplyAnswer
  BY <1>3 DEF ApplyAnswer
<1>4. CASE ReachSelect
  <2>1. CASE Ready = {}
    <3>1. NoErrors /\ ~cancelled
      BY <2>1 DEF Ready
    <3>2. QED
      BY <1>4, <2>1, <3>1 DEF ReachSelect
  <2>2. CASE result' = "canceled" /\ main' = "chosen"
    <3>1. "canceled" \in Ready
      BY <1>4, <2>2 DEF ReachSelect
    <3>2. cancelled \/ "canceled" \in {publishErr, receiveErr, failed}
      BY <3>1 DEF Ready
    <3>3. cancelled
      BY <3>2 DEF TypeOK, Failures
    <3>4. QED
      BY <1>4, <2>2, <3>3 DEF ReachSelect
  <2>3. CASE result' # "canceled" /\ main' = "chosen"
    BY <1>4, <2>3 DEF ReachSelect
  <2>4. QED
    BY <1>4, <2>1, <2>2, <2>3 DEF ReachSelect
<1>5. CASE CancelWorkers \/ WaitForWorkers \/ DeleteSession \/ HangUp \/ CloseSource \/ Return
  BY <1>5 DEF CancelWorkers, WaitForWorkers, DeleteSession, HangUp, CloseSource, Return
<1>6. CASE EndPublishing \/ NoticeStall \/ TakeUnit \/ Publish
  BY <1>6 DEF EndPublishing, NoticeStall, TakeUnit, Publish
<1>7. CASE SendPublishError
  BY <1>7 DEF SendPublishError, Report, Wakes, Failures
<1>8. CASE FailPublish
  BY <1>8 DEF FailPublish, Cancel, Wakes
<1>9. CASE Play \/ EndReceive \/ ClientEnds
  BY <1>9 DEF Play, EndReceive, ClientEnds
<1>10. CASE SendReceiveError
  BY <1>10 DEF SendReceiveError, Report, Wakes
<1>11. CASE FailReceive
  BY <1>11 DEF FailReceive, Cancel, Wakes
<1>12. CASE CallerCancels
  BY <1>12 DEF CallerCancels, Cancel, Wakes
<1>13. CASE PeerFails
  BY <1>13 DEF PeerFails, ReportFailure, Report, Wakes
<1>14. CASE (\E frame \in Frames : ReceiveFrame(frame)) \/ SendUnit \/ TimerFires \/ ClientLost
  BY <1>14 DEF ReceiveFrame, SendUnit, TimerFires, ClientLost
<1>15. CASE UNCHANGED vars
  BY <1>15 DEF vars
<1>16. QED
  BY <1>2, <1>3, <1>4, <1>5, <1>6, <1>7, <1>8, <1>9, <1>10, <1>11, <1>12, <1>13, <1>14, <1>15
     DEF Next, RunStep, PublishStep, ReceiveStep

\* Run returns a cancellation only if its caller cancelled, or the context was
\* done before Run waited for it.
THEOREM ErrorReturned == Spec => []ErrorSurvives
<1>1. Init => CauseInv
  BY WhipAssumption
     DEF Init, CauseInv, OpeningInv, WaitInv, CancelInv, ErrorSurvives, NoErrors, Errors, Failures
<1>2. CauseInv => ErrorSurvives
  BY DEF CauseInv
<1>3. QED
  BY <1>1, <1>2, CauseInvInductive, TypeCorrect, PTL DEF Spec

-----------------------------------------------------------------------------
(* What Run leaves behind                                                  *)

Down == {"deleting", "hangup", "release", "closing", "returned"}

\* An Open that failed has started no goroutine.
OpenFailed ==
    result = "open" => /\ main \in {"release", "closing", "returned"}
                       /\ publishing = "none" /\ receiving = "none"

\* Run has a result as soon as it has chosen.
ResultInv ==
    /\ Opening => result = None /\ publishing = "none" /\ receiving = "none"
    /\ main \in {"starting", "selecting"} => result = None
    /\ main \in {"chosen", "waiting"} \cup Down => result # None

\* Each place after a successful Open has done what those before it do.
DownInv ==
    result # "open" =>
        /\ main \in Down => publishing = "done" /\ receiving = "done"
        /\ main \in Down \ {"deleting"} => session # "open"
        /\ main \in Down \ {"deleting", "hangup"} => peer = "closed"
        /\ main \in Down \ {"deleting", "hangup", "release"} => client = "closed"

\* Only HangUp closes the peer connection.
PeerInv ==
    /\ peer = "closed" => main \in Down \ {"deleting", "hangup"} /\ result # "open"
    /\ main \in {"source", "offer"} => peer = "none"
    /\ main \in {"chosen", "waiting"} => result # "open"

LeavesInv == OpenFailed /\ ResultInv /\ DownInv /\ PeerInv

LEMMA LeavesInvInductive == TypeOK /\ LeavesInv /\ [Next]_vars => LeavesInv'
<1> SUFFICES ASSUME TypeOK, LeavesInv, [Next]_vars
             PROVE  LeavesInv'
  OBVIOUS
<1>1. /\ None \notin {"stalled", "write", "receive", "peer", "canceled", "open"}
      /\ publishErr \in Failures \cup {None} /\ failed \in {"peer", None}
      /\ receiveErr \in {"receive", "canceled", None}
  BY WhipAssumption DEF Errors, Failures, TypeOK
<1> USE <1>1 DEF LeavesInv, OpenFailed, ResultInv, DownInv, PeerInv, Opening, Down,
        runVars, workerVars, channelVars, mediaVars, linkVars
<1>2. CASE OpenSource \/ PostOffer
  BY <1>2 DEF OpenSource, PostOffer
<1>3. CASE ApplyAnswer
  BY <1>3 DEF ApplyAnswer
<1>4. CASE ReachSelect
  <2>1. \A e \in Ready : e # None /\ e # "open"
    BY DEF Ready, Failures
  <2>2. QED
    BY <1>4, <2>1 DEF ReachSelect
<1>5. CASE CancelWorkers \/ WaitForWorkers
  BY <1>5 DEF CancelWorkers, WaitForWorkers
<1>6. CASE DeleteSession \/ HangUp
  BY <1>6 DEF DeleteSession, HangUp
<1>7. CASE CloseSource \/ Return
  BY <1>7 DEF CloseSource, Return
<1>8. CASE EndPublishing \/ NoticeStall \/ TakeUnit \/ Publish
  BY <1>8 DEF EndPublishing, NoticeStall, TakeUnit, Publish
<1>9. CASE SendPublishError
  BY <1>9 DEF SendPublishError, Report, Wakes, Failures
<1>10. CASE FailPublish
  BY <1>10 DEF FailPublish, Cancel, Wakes
<1>11. CASE Play \/ EndReceive \/ ClientEnds
  BY <1>11 DEF Play, EndReceive, ClientEnds
<1>12. CASE SendReceiveError
  BY <1>12 DEF SendReceiveError, Report, Wakes
<1>13. CASE FailReceive
  BY <1>13 DEF FailReceive, Cancel, Wakes
<1>14. CASE CallerCancels
  BY <1>14 DEF CallerCancels, Cancel, Wakes
<1>15. CASE PeerFails
  BY <1>15 DEF PeerFails, ReportFailure, Report, Wakes, MainPlaces
<1>16. CASE (\E frame \in Frames : ReceiveFrame(frame)) \/ SendUnit \/ TimerFires \/ ClientLost
  BY <1>16 DEF ReceiveFrame, SendUnit, TimerFires, ClientLost
<1>17. CASE UNCHANGED vars
  BY <1>17 DEF vars
<1>18. QED
  BY <1>2, <1>3, <1>4, <1>5, <1>6, <1>7, <1>8, <1>9, <1>10, <1>11, <1>12, <1>13, <1>14, <1>15,
     <1>16, <1>17
     DEF Next, RunStep, PublishStep, ReceiveStep

\* When Run has returned its goroutines have ended and what it opened is closed,
\* and no unit is published on a closed peer connection.
THEOREM EverythingReleased == Spec => []Released
<1>1. Init => LeavesInv
  BY WhipAssumption
     DEF Init, LeavesInv, OpenFailed, ResultInv, DownInv, PeerInv, Opening, Down, Errors, Failures
<1>2. LeavesInv => Released
  BY DEF LeavesInv, OpenFailed, ResultInv, DownInv, PeerInv, Down, Released
<1>3. QED
  BY <1>1, <1>2, LeavesInvInductive, TypeCorrect, PTL DEF Spec
=============================================================================
