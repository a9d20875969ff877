------------------------------- MODULE MoqProofs -------------------------------
(***************************************************************************)
(* TLAPS proofs about the two commands of internal/moq.  MoqPublish, for   *)
(* any set of updates: the control file is whole while it is read, and     *)
(* what Run returns and leaves behind.  MoqForward, for any media and any  *)
(* pipes: what runPipe returns and leaves behind.                          *)
(***************************************************************************)
EXTENDS MoqPublish, MoqForward, TLAPS

Flags ==
    /\ parent \in BOOLEAN /\ cancelled \in BOOLEAN
    /\ encoder \in BOOLEAN /\ silent \in BOOLEAN /\ piped \in BOOLEAN

\* A task holds an update exactly while it writes it.
Holding == dynamic \in {"write", "rename"} => update \in Updates

LEMMA FlagsInductive == Flags /\ [Next]_vars => Flags'
<1> SUFFICES ASSUME Flags, [Next]_vars
             PROVE  Flags'
  OBVIOUS
<1> USE DEF Flags, mainVars, controlVars, commandVars
<1>1. CASE Seed \/ StartBoth \/ Clean
  BY <1>1, Zenon DEF Seed, StartBoth, Clean
<1>2. CASE Select
  BY <1>2, Zenon DEF Select, Receive
<1>3. CASE Drain \/ CallerCancels
  BY <1>3, Zenon DEF Drain, CallerCancels
<1>4. CASE DynamicStep
  BY <1>4, Zenon DEF DynamicStep, Connect, ReadFails, ReadCanceled, WriteTemporary,
     Rename, ReadUpdate, EndDynamic
<1>5. CASE StartPublisher \/ ReapPublisher
  BY <1>5, Zenon DEF StartPublisher, ReapPublisher
<1>6. CASE ToggleEncoder \/ SourceFallsSilent
  BY <1>6, Zenon DEF ToggleEncoder, SourceFallsSilent
<1>7. CASE PublisherEnds \/ KillPublisher \/ EncoderEnds
  BY <1>7, Zenon DEF PublisherEnds, KillPublisher, EncoderEnds
<1>8. CASE UNCHANGED vars
  BY <1>8, Zenon DEF vars
<1>9. QED
  BY <1>1, <1>2, <1>3, <1>4, <1>5, <1>6, <1>7, <1>8, Zenon
     DEF Next, RunStep, CommandStep

LEMMA TypeInductive == TypeOK /\ Holding /\ [Next]_vars => TypeOK' /\ Holding'
<1> SUFFICES ASSUME TypeOK, Holding, [Next]_vars
             PROVE  TypeOK' /\ Holding'
  OBVIOUS
<1>1. Flags'
  BY FlagsInductive DEF TypeOK, Flags
<1> USE <1>1 DEF TypeOK, Holding, Flags, Results, Channels, mainVars, controlVars, commandVars
<1>2. CASE Seed \/ StartBoth \/ Clean
  BY <1>2 DEF Seed, StartBoth, Clean
<1>3. CASE Select
  BY <1>3 DEF Select, Receive
<1>4. CASE Drain
  BY <1>4 DEF Drain
<1>5. CASE CallerCancels
  BY <1>5 DEF CallerCancels
<1>6. CASE Connect \/ ReadFails \/ ReadCanceled
  BY <1>6 DEF Connect, ReadFails, ReadCanceled, EndDynamic
<1>7. CASE \E u \in Updates : ReadUpdate(u)
  BY <1>7 DEF ReadUpdate
<1>8. CASE WriteTemporary
  BY <1>8 DEF WriteTemporary, EndDynamic
<1>9. CASE Rename
  BY <1>9 DEF Rename, EndDynamic
<1>10. CASE StartPublisher \/ ReapPublisher
  BY <1>10 DEF StartPublisher, ReapPublisher
<1>11. CASE ToggleEncoder \/ SourceFallsSilent \/ PublisherEnds
            \/ KillPublisher \/ EncoderEnds
  BY <1>11 DEF ToggleEncoder, SourceFallsSilent, PublisherEnds, KillPublisher, EncoderEnds
<1>12. CASE UNCHANGED vars
  BY <1>12 DEF vars
<1>13. QED
  BY <1>2, <1>3, <1>4, <1>5, <1>6, <1>7, <1>8, <1>9, <1>10, <1>11, <1>12
     DEF Next, RunStep, DynamicStep, CommandStep

LEMMA TypeInitially == Init => TypeOK /\ Holding
BY DEF Init, TypeOK, Holding, Channels

LEMMA TypeHolds == Spec => [](TypeOK /\ Holding)
BY TypeInitially, TypeInductive, PTL DEF Spec

\* Every variable keeps its type.
THEOREM TypeCorrect == Spec => []TypeOK
BY TypeHolds, PTL

-----------------------------------------------------------------------------
(* What holds between Run and the two goroutines it started.  Each part is  *)
(* needed by the next: a goroutine reports once, at its end; Run is over    *)
(* only when both reported; so nobody writes or reads the control file when *)
(* it is removed.                                                           *)

BeforeStart ==
    main \in {"seed", "start"} =>
        /\ dynamic = "none" /\ dynamicErr = None
        /\ publisher = "none" /\ commandErr = None

ReportsAtEnd ==
    /\ dynamicErr # None => dynamic = "done"
    /\ commandErr # None => publisher = "dead"
    /\ commandErr = "ok" => exit = "ok"

FileInPlace == main \in {"start", "select", "drain"} => file \in {"seed"} \cup Updates

AfterBoth ==
    main \in {"clean", "returned"} =>
        dynamic \in {"none", "done"} /\ publisher \in {"none", "dead"}

FileRemoved == main = "returned" => file = "absent"

RunInv == BeforeStart /\ ReportsAtEnd /\ FileInPlace /\ AfterBoth /\ FileRemoved

LEMMA RunInvInductive ==
    TypeOK /\ Holding /\ RunInv /\ [Next]_vars => RunInv'
<1> SUFFICES ASSUME TypeOK, Holding, RunInv, [Next]_vars
             PROVE  RunInv'
  OBVIOUS
<1> USE DEF RunInv, BeforeStart, ReportsAtEnd, FileInPlace, AfterBoth, FileRemoved,
            mainVars, controlVars, commandVars
<1>1. CASE Seed \/ StartBoth
  BY <1>1 DEF Seed, StartBoth
<1>2. CASE Select
  BY <1>2 DEF Select, Receive
<1>3. CASE Drain \/ Clean
  BY <1>3 DEF Drain, Clean
<1>4. CASE CallerCancels \/ UNCHANGED vars
  BY <1>4 DEF CallerCancels, vars
<1>5. CASE Connect \/ ReadFails \/ ReadCanceled
  BY <1>5 DEF Connect, ReadFails, ReadCanceled, EndDynamic, TypeOK
<1>6. CASE WriteTemporary \/ \E u \in Updates : ReadUpdate(u)
  BY <1>6 DEF WriteTemporary, ReadUpdate, EndDynamic, TypeOK
<1>7. CASE Rename
  BY <1>7 DEF Rename, EndDynamic, TypeOK, Holding
<1>8. CASE StartPublisher \/ ReapPublisher
  BY <1>8, MoqPublishAssumption DEF StartPublisher, ReapPublisher, TypeOK, Results
<1>9. CASE ToggleEncoder \/ SourceFallsSilent \/ PublisherEnds
           \/ KillPublisher \/ EncoderEnds
  <2>1. /\ UNCHANGED <<main, dynamic, dynamicErr, commandErr, file>>
        /\ \/ UNCHANGED <<publisher, exit>>
           \/ publisher = "running" /\ publisher' = "dead"
    BY <1>9 DEF ToggleEncoder, SourceFallsSilent, PublisherEnds, KillPublisher, EncoderEnds
  <2>2. commandErr = "ok" => commandErr # None
    BY MoqPublishAssumption DEF Results
  <2>3. QED
    BY <2>1, <2>2
<1>10. QED
  BY <1>1, <1>2, <1>3, <1>4, <1>5, <1>6, <1>7, <1>8, <1>9
     DEF Next, RunStep, DynamicStep, CommandStep

LEMMA RunInvHolds == Spec => []RunInv
<1>1. Init => RunInv
  BY MoqPublishAssumption DEF Init, RunInv, BeforeStart, ReportsAtEnd, FileInPlace,
     AfterBoth, FileRemoved, Results
<1>2. QED
  BY <1>1, TypeHolds, RunInvInductive, PTL DEF Spec

\* The publisher finds the seed or one whole update, whenever it looks.
THEOREM FileIsWhole == Spec => []ControlFileWhole
<1>1. TypeOK /\ RunInv => ControlFileWhole
  BY DEF TypeOK, RunInv, BeforeStart, FileInPlace, AfterBoth, ControlFileWhole
<1>2. QED
  BY <1>1, TypeCorrect, RunInvHolds, PTL

\* When Run has returned, nothing it started is left.
THEOREM NothingLeft == Spec => []NothingOutlivesRun
<1>1. RunInv => NothingOutlivesRun
  BY DEF RunInv, AfterBoth, FileRemoved, NothingOutlivesRun
<1>2. QED
  BY <1>1, RunInvHolds, PTL

-----------------------------------------------------------------------------
(* Who is to blame.  Until Run has chosen, only the caller can have         *)
(* cancelled; a report of a cancellation that is chosen is therefore the    *)
(* caller's, and it does not change once it is there.                       *)

OnlyCaller == main \in {"seed", "start", "select"} => (cancelled => parent)

CancelReports == dynamicErr = "canceled" \/ commandErr = "canceled" => cancelled

ChosenCause ==
    main = "drain" =>
        /\ chosen # None
        /\ chosen = "dynamic" => dynamicErr # None /\ (dynamicErr = "canceled" => parent)
        /\ chosen = "command" => commandErr # None /\ (commandErr = "canceled" => parent)
        /\ chosen = "context" => parent

ResultCause ==
    main \in {"clean", "returned"} =>
        /\ result = "canceled" => parent
        /\ result = "ok" => exit = "ok" /\ chosen = "command"

CauseInv == OnlyCaller /\ CancelReports /\ ChosenCause /\ ResultCause

LEMMA CauseInvInductive ==
    TypeOK /\ RunInv /\ CauseInv /\ [Next]_vars => CauseInv'
<1> SUFFICES ASSUME TypeOK, RunInv, CauseInv, [Next]_vars
             PROVE  CauseInv'
  OBVIOUS
<1> USE DEF CauseInv, OnlyCaller, CancelReports, ChosenCause, ResultCause,
            mainVars, controlVars, commandVars
<1>1. CASE Seed \/ StartBoth
  BY <1>1 DEF Seed, StartBoth
<1>2. CASE Select
  BY <1>2, MoqPublishAssumption DEF Select, Receive, Channels
<1>3. CASE Drain
  BY <1>3 DEF Drain, TypeOK, Channels, RunInv, ReportsAtEnd
<1>4. CASE Clean
  BY <1>4 DEF Clean
<1>5. CASE CallerCancels \/ UNCHANGED vars
  BY <1>5 DEF CallerCancels, vars
<1>6. CASE Connect \/ ReadFails \/ ReadCanceled
  BY <1>6 DEF Connect, ReadFails, ReadCanceled, EndDynamic, RunInv, ReportsAtEnd
<1>7. CASE WriteTemporary \/ Rename \/ \E u \in Updates : ReadUpdate(u)
  BY <1>7 DEF WriteTemporary, Rename, ReadUpdate, EndDynamic, RunInv, ReportsAtEnd
<1>8. CASE StartPublisher \/ ReapPublisher
  BY <1>8 DEF StartPublisher, ReapPublisher, RunInv, ReportsAtEnd
<1>9. CASE ToggleEncoder \/ SourceFallsSilent \/ PublisherEnds
           \/ KillPublisher \/ EncoderEnds
  BY <1>9 DEF ToggleEncoder, SourceFallsSilent, PublisherEnds, KillPublisher,
     EncoderEnds, RunInv, AfterBoth
<1>10. QED
  BY <1>1, <1>2, <1>3, <1>4, <1>5, <1>6, <1>7, <1>8, <1>9
     DEF Next, RunStep, DynamicStep, CommandStep

\* Run returns what ended it: it is cancelled only by its caller, and done only
\* if the publisher was.
THEOREM CauseReturned == Spec => []ReturnsItsCause
<1>1. Init => CauseInv
  BY MoqPublishAssumption DEF Init, CauseInv, OnlyCaller, CancelReports, ChosenCause,
     ResultCause, Results
<1>2. CauseInv => ReturnsItsCause
  BY DEF CauseInv, ResultCause, ReturnsItsCause
<1>3. QED
  BY <1>1, <1>2, TypeCorrect, RunInvHolds, CauseInvInductive, PTL DEF Spec

-----------------------------------------------------------------------------
(* runPipe: what it returns is true, and nothing of it runs on.  The parts   *)
(* say who exists, what the reports mean, what only a cancellation explains, *)
(* and what has been seen when runPipe waits or has returned.                *)

ForwardFlags ==
    /\ callerDone \in BOOLEAN /\ contextDone \in BOOLEAN /\ stalled \in BOOLEAN
    /\ readerClosed \in BOOLEAN /\ writerClosed \in BOOLEAN

Started ==
    /\ stage = "publisher" => moqCli = "none"
    /\ stage \in {"publisher", "ffmpeg", "reap"} => ffmpeg = "none"
    /\ ffmpeg = "none" <=> output = "none"
    /\ moqCli = "none" <=> input = "none"

FfmpegReported ==
    /\ output = "closed" => ffmpeg \in Ended
    /\ ffmpegDone # Nothing => output = "closed"
    /\ ffmpegDone = "ok" => ffmpeg = "ok" /\ carried = written
    /\ ffmpegDone = "failed" => ~(ffmpeg = "ok" /\ carried = written)

MoqCliReported ==
    /\ moqCliDone # Nothing => Reaped(moqCli, input)
    /\ moqCliDone = "ok" => moqCli = "ok" /\ input = "ended"
    /\ moqCliDone = "failed" => ~(moqCli = "ok" /\ input = "ended")
    /\ moqCli = "ok" => input \in {"ended", "error"} /\ consumed = carried

\* What nobody but a cancellation does.
Undisturbed ==
    ~contextDone =>
        /\ ~readerClosed /\ (writerClosed => output = "closed")
        /\ output # "error" /\ input # "error"
        /\ output \in {"ended", "closed"} => carried = written
        /\ ffmpeg # "killed" /\ moqCli # "killed"

WaitsFor ==
    /\ stage = "failing" => ffmpeg = "failed" /\ ffmpegDone # Nothing
    /\ stage = "draining" => ffmpegDone = "ok" \/ (ffmpegDone = "failed" /\ contextDone)
    /\ stage = "stopping" => moqCliDone # Nothing
    /\ stage \in {"reap", "failing", "stopping", "canceling", "returned"} => contextDone

Settled ==
    /\ outcome # Nothing <=> stage = "returned"
    /\ stage = "returned" =>
        /\ ffmpeg # "running" /\ moqCli # "running"
        /\ output # "copying" /\ input # "copying"
    /\ outcome = "ok" => ffmpegDone = "ok" /\ moqCliDone = "ok"
    /\ outcome = "failed" => ffmpeg \in {"none", "failed"} \/ moqCli = "failed"

ForwardInv ==
    /\ ForwardTypeOK /\ Started /\ FfmpegReported /\ MoqCliReported
    /\ Undisturbed /\ WaitsFor /\ Settled

LEMMA ForwardFlagsInductive == ForwardFlags /\ [ForwardNext]_forwardVars => ForwardFlags'
<1> SUFFICES ASSUME ForwardFlags, [ForwardNext]_forwardVars
             PROVE  ForwardFlags'
  OBVIOUS
<1> USE DEF ForwardFlags, doneVars, pipeVars
<1>1. CASE StartMoqCli \/ StartFfmpeg \/ ReapMoqCli
  BY <1>1, Zenon DEF StartMoqCli, StartFfmpeg, ReapMoqCli, Return
<1>2. CASE FfmpegIsDone \/ MoqCliIsDone \/ ContextIsDone
  BY <1>2, Zenon DEF FfmpegIsDone, MoqCliIsDone, ContextIsDone
<1>3. CASE Finish \/ CallerStops
  BY <1>3, Zenon DEF Finish, CallerStops, Return
<1>4. CASE WaitStep
  BY <1>4, Zenon DEF WaitStep, CloseWriter, ReportFfmpeg, ReportMoqCli
<1>5. CASE CopyStep
  BY <1>5, Zenon DEF CopyStep, Carry, EndOutput, EndInput
<1>6. CASE FfmpegWrites \/ FfmpegEnds \/ SourceStalls
  BY <1>6, Zenon DEF FfmpegWrites, FfmpegEnds, SourceStalls
<1>7. CASE MoqCliReads \/ MoqCliFinishes \/ MoqCliFails \/ Kill
  BY <1>7, Zenon DEF MoqCliReads, MoqCliFinishes, MoqCliFails, Kill
<1>8. CASE UNCHANGED forwardVars
  BY <1>8, Zenon DEF forwardVars
<1>9. QED
  BY <1>1, <1>2, <1>3, <1>4, <1>5, <1>6, <1>7, <1>8, Zenon
     DEF ForwardNext, ForwardStep, ProcessStep

LEMMA ForwardInvInductive == ForwardInv /\ [ForwardNext]_forwardVars => ForwardInv'
<1> SUFFICES ASSUME ForwardInv, [ForwardNext]_forwardVars
             PROVE  ForwardInv'
  OBVIOUS
<1> USE MoqForwardAssumption DEF Outcomes
<1>f. ForwardFlags'
  BY ForwardFlagsInductive DEF ForwardInv, ForwardTypeOK, ForwardFlags
<1> USE <1>f DEF ForwardInv, ForwardFlags, ForwardTypeOK, Started, FfmpegReported,
     MoqCliReported, Undisturbed, WaitsFor, Settled, Processes, Ended, Copiers, Reaped,
     stageVars, doneVars, processVars, pipeVars, channelVars, unitVars
<1>1. CASE StartMoqCli
  BY <1>1 DEF StartMoqCli, Return
<1>2. CASE StartFfmpeg
  BY <1>2 DEF StartFfmpeg
<1>3. CASE ReapMoqCli
  BY <1>3 DEF ReapMoqCli, Return
<1>4. CASE FfmpegIsDone
  BY <1>4 DEF FfmpegIsDone
<1>5. CASE MoqCliIsDone
  BY <1>5 DEF MoqCliIsDone
<1>6. CASE ContextIsDone
  BY <1>6 DEF ContextIsDone
<1>7. CASE Finish
  BY <1>7 DEF Finish, Return, ContextResult
<1>8. CASE CallerStops
  BY <1>8 DEF CallerStops
<1>9. CASE CloseWriter
  BY <1>9 DEF CloseWriter
<1>10. CASE ReportFfmpeg
  BY <1>10 DEF ReportFfmpeg
<1>11. CASE ReportMoqCli
  BY <1>11 DEF ReportMoqCli
<1>12. CASE Carry
  BY <1>12 DEF Carry
<1>13. CASE EndOutput
  BY <1>13 DEF EndOutput
<1>14. CASE EndInput
  BY <1>14 DEF EndInput
<1>15. CASE FfmpegWrites
  BY <1>15 DEF FfmpegWrites
<1>16. CASE FfmpegEnds
  BY <1>16 DEF FfmpegEnds
<1>17. CASE SourceStalls
  BY <1>17 DEF SourceStalls
<1>18. CASE MoqCliReads
  BY <1>18 DEF MoqCliReads
<1>19. CASE MoqCliFinishes
  BY <1>19 DEF MoqCliFinishes
<1>20. CASE MoqCliFails
  BY <1>20 DEF MoqCliFails
<1>21. CASE Kill
  BY <1>21 DEF Kill
<1>22. CASE UNCHANGED forwardVars
  BY <1>22 DEF forwardVars
<1>23. QED
  BY <1>1, <1>2, <1>3, <1>4, <1>5, <1>6, <1>7, <1>8, <1>9, <1>10, <1>11, <1>12, <1>13, <1>14,
     <1>15, <1>16, <1>17, <1>18, <1>19, <1>20, <1>21, <1>22, Zenon
     DEF ForwardNext, ForwardStep, WaitStep, CopyStep, ProcessStep

LEMMA ForwardInvAlways == ForwardSpec => []ForwardInv
<1>1. ForwardInit => ForwardInv
  <2> SUFFICES ASSUME ForwardInit
               PROVE  ForwardInv
    OBVIOUS
  <2> USE MoqForwardAssumption DEF ForwardInit
  <2>0. ForwardFlags
    BY Zenon DEF ForwardFlags
  <2>1. ForwardTypeOK
    BY <2>0 DEF ForwardTypeOK, ForwardFlags, Outcomes, Processes, Copiers
  <2>2. Started
    BY DEF Started
  <2>3. FfmpegReported /\ MoqCliReported
    BY DEF FfmpegReported, MoqCliReported, Outcomes
  <2>4. Undisturbed
    BY DEF Undisturbed
  <2>5. WaitsFor
    BY DEF WaitsFor
  <2>6. Settled
    BY DEF Settled, Outcomes
  <2>7. QED
    BY <2>1, <2>2, <2>3, <2>4, <2>5, <2>6 DEF ForwardInv
<1>2. QED
  BY <1>1, ForwardInvInductive, PTL DEF ForwardSpec

\* Every variable of moq forward keeps its type, for any media and any pipe.
THEOREM ForwardTypeCorrect == ForwardSpec => []ForwardTypeOK
<1>1. ForwardInv => ForwardTypeOK
  BY DEF ForwardInv
<1>2. QED
  BY <1>1, ForwardInvAlways, PTL

\* When runPipe has returned, neither process and no goroutine that copies is
\* left; it succeeds only if all that ffmpeg wrote was read by moq-cli, and fails
\* only if a process did not start or failed.
THEOREM ReturnedIsTrue == ForwardSpec => []ReturnIsTrue
<1>1. ForwardInv => ReturnIsTrue
  BY MoqForwardAssumption
     DEF ForwardInv, ForwardTypeOK, FfmpegReported, MoqCliReported, Settled,
         ReturnIsTrue, Outcomes, Processes, Ended, Copiers
<1>2. QED
  BY <1>1, ForwardInvAlways, PTL
=============================================================================
