------------------------------ MODULE MoqForward ------------------------------
(***************************************************************************)
(* cstream moq forward: runPipe of internal/moq/runner.go.  ffmpeg remuxes *)
(* an RTSP source to its standard output, and moq-cli publishes what it    *)
(* reads from its standard input.  Between them is an io.Pipe of the Go    *)
(* process, with a goroutine of os/exec at either end: one copies ffmpeg's *)
(* output into the pipe, the other copies the pipe into moq-cli.  Wait     *)
(* returns when the process has ended and so has its goroutine.            *)
(*                                                                         *)
(* The media is a number of units; they stay in order, so that how many    *)
(* got how far says which.                                                 *)
(***************************************************************************)
EXTENDS Naturals

CONSTANTS
    MaxUnits, \* bound: units that ffmpeg writes
    Room,     \* bound: units in the operating system's pipe of a process
    Nothing   \* nothing in a channel, no result

Outcomes == {"ok", "failed", "canceled"}

ASSUME MoqForwardAssumption ==
    MaxUnits \in Nat /\ Room \in Nat \ {0} /\ Nothing \notin Outcomes

VARIABLES
    stage,                  \* where runPipe is
    outcome,                \* what it returns
    callerDone,             \* the caller's context is done
    contextDone,            \* runPipe's own context is done
    ffmpeg,                 \* the process: not started, running, or how it ended
    moqCli,                 \* moq-cli, likewise
    output,                 \* the goroutine that copies ffmpeg's output into the pipe
    input,                  \* the goroutine that copies the pipe into moq-cli
    readerClosed,           \* pipeReader is closed
    writerClosed,           \* pipeWriter is closed
    ffmpegDone, moqCliDone, \* the channels of size one
    stalled,                \* the source delivers nothing any more, for good
    written,                \* units ffmpeg wrote
    carried,                \* units that went through the pipe
    consumed                \* units moq-cli read

stageVars == <<stage, outcome>>
doneVars == <<callerDone, contextDone>>
processVars == <<ffmpeg, moqCli>>
pipeVars == <<output, input, readerClosed, writerClosed>>
channelVars == <<ffmpegDone, moqCliDone>>
unitVars == <<written, carried, consumed>>
forwardVars == <<stageVars, doneVars, processVars, pipeVars, channelVars, stalled, unitVars>>

Processes == {"none", "running", "ok", "failed", "killed"}
Ended == {"ok", "failed", "killed"}
Copiers == {"none", "copying", "ended", "error"}

ForwardTypeOK ==
    /\ stage \in {"publisher", "ffmpeg", "reap", "select", "failing", "draining",
                 "stopping", "canceling", "returned"}
    /\ outcome \in Outcomes \cup {Nothing}
    /\ callerDone \in BOOLEAN /\ contextDone \in BOOLEAN
    /\ ffmpeg \in Processes /\ moqCli \in Processes
    /\ output \in Copiers \cup {"closed"} /\ input \in Copiers
    /\ readerClosed \in BOOLEAN /\ writerClosed \in BOOLEAN
    /\ ffmpegDone \in {"ok", "failed", Nothing}
    /\ moqCliDone \in {"ok", "failed", Nothing}
    /\ stalled \in BOOLEAN
    /\ written \in 0..MaxUnits /\ carried \in 0..written /\ consumed \in 0..carried

ForwardInit ==
    /\ stage = "publisher" /\ outcome = Nothing
    /\ callerDone = FALSE /\ contextDone = FALSE
    /\ ffmpeg = "none" /\ moqCli = "none"
    /\ output = "none" /\ input = "none"
    /\ readerClosed = FALSE /\ writerClosed = FALSE
    /\ ffmpegDone = Nothing /\ moqCliDone = Nothing
    /\ stalled = FALSE /\ written = 0 /\ carried = 0 /\ consumed = 0

-----------------------------------------------------------------------------
(* runPipe *)

\* The deferred pipeReader.Close and cancel.
Return(r) ==
    /\ stage' = "returned" /\ outcome' = r
    /\ readerClosed' = TRUE /\ contextDone' = TRUE

\* A context that is done makes Start fail, and so may anything else.
StartMoqCli ==
    /\ stage = "publisher"
    /\ \/ /\ ~contextDone
          /\ stage' = "ffmpeg" /\ moqCli' = "running" /\ input' = "copying"
          /\ UNCHANGED <<outcome, contextDone, readerClosed, writerClosed>>
       \/ Return("failed") /\ writerClosed' = TRUE /\ UNCHANGED <<moqCli, input>>
    /\ UNCHANGED <<callerDone, ffmpeg, output, channelVars, stalled, unitVars>>

\* When ffmpeg does not start, the publisher is cancelled and waited for here.
StartFfmpeg ==
    /\ stage = "ffmpeg"
    /\ \/ /\ ~contextDone
          /\ stage' = "select" /\ ffmpeg' = "running" /\ output' = "copying"
          /\ UNCHANGED <<contextDone, writerClosed>>
       \/ /\ stage' = "reap" /\ writerClosed' = TRUE /\ contextDone' = TRUE
          /\ UNCHANGED <<ffmpeg, output>>
    /\ UNCHANGED <<outcome, callerDone, moqCli, input, readerClosed, channelVars,
                   stalled, unitVars>>

Reaped(process, copier) == process \in Ended /\ copier \in {"ended", "error"}

ReapMoqCli ==
    /\ stage = "reap"
    /\ Reaped(moqCli, input)
    /\ Return("failed")
    /\ UNCHANGED <<callerDone, processVars, output, input, writerClosed,
                   channelVars, stalled, unitVars>>

\* The select, when ffmpeg is done: an error that no cancellation explains ends
\* the publisher too; otherwise the publisher may finish what it was given.
FfmpegIsDone ==
    /\ stage = "select" /\ ffmpegDone # Nothing
    /\ IF ffmpegDone = "failed" /\ ~contextDone
       THEN stage' = "failing" /\ contextDone' = TRUE /\ readerClosed' = TRUE
       ELSE stage' = "draining" /\ UNCHANGED <<contextDone, readerClosed>>
    /\ UNCHANGED <<outcome, callerDone, processVars, output, input, writerClosed,
                   channelVars, stalled, unitVars>>

\* The select, when the publisher is done.
MoqCliIsDone ==
    /\ stage = "select" /\ moqCliDone # Nothing
    /\ stage' = "stopping" /\ contextDone' = TRUE /\ readerClosed' = TRUE
    /\ UNCHANGED <<outcome, callerDone, processVars, output, input, writerClosed,
                   channelVars, stalled, unitVars>>

\* The select, when the context is done.
ContextIsDone ==
    /\ stage = "select" /\ contextDone
    /\ stage' = "canceling" /\ readerClosed' = TRUE /\ writerClosed' = TRUE
    /\ UNCHANGED <<outcome, doneVars, processVars, output, input, channelVars,
                   stalled, unitVars>>

ContextResult == IF contextDone THEN "canceled" ELSE "ok"

\* Mutant: a clean end of ffmpeg is the end.
ReturnEarly ==
    /\ stage \in {"failing", "draining", "stopping", "canceling"}
    /\ \/ stage = "failing" /\ moqCliDone # Nothing /\ Return("failed")
       \/ stage = "draining" /\ Return(ContextResult)
       \/ stage = "stopping" /\ ffmpegDone # Nothing /\ Return("canceled")
       \/ stage = "canceling" /\ ffmpegDone # Nothing /\ moqCliDone # Nothing /\ Return("canceled")
    /\ UNCHANGED <<callerDone, processVars, output, input, writerClosed,
                   channelVars, stalled, unitVars>>

\* The other process is waited for and the result chosen.  When the publisher
\* was first, the context is done by now, whatever the publisher's error.
Finish ==
    /\ \/ stage \in {"failing", "draining"} /\ moqCliDone # Nothing
          /\ Return(IF stage = "failing" \/ (moqCliDone = "failed" /\ ~contextDone)
                    THEN "failed" ELSE ContextResult)
       \/ stage = "stopping" /\ ffmpegDone # Nothing /\ Return(ContextResult)
       \/ stage = "canceling" /\ ffmpegDone # Nothing /\ moqCliDone # Nothing /\ Return(ContextResult)
    /\ UNCHANGED <<callerDone, processVars, output, input, writerClosed,
                   channelVars, stalled, unitVars>>

CallerStops ==
    /\ ~callerDone /\ stage # "returned"
    /\ callerDone' = TRUE /\ contextDone' = TRUE
    /\ UNCHANGED <<stageVars, processVars, pipeVars, channelVars, stalled,
                   unitVars>>

-----------------------------------------------------------------------------
(* The goroutines that wait *)

\* Mutant: the pipe's writer is left open.
CloseForgotten ==
    /\ Reaped(ffmpeg, output)
    /\ output' = "closed"
    /\ UNCHANGED <<stageVars, doneVars, processVars, input, readerClosed,
                   writerClosed, channelVars, stalled, unitVars>>

\* ffmpeg.Wait returned: the pipe is closed first, which moq-cli may notice
\* before anybody is told.
CloseWriter ==
    /\ Reaped(ffmpeg, output)
    /\ writerClosed' = TRUE
    /\ output' = "closed"
    /\ UNCHANGED <<stageVars, doneVars, processVars, input, readerClosed,
                   channelVars, stalled, unitVars>>

\* What Wait returned: nil only if ffmpeg succeeded and its output was copied.
ReportFfmpeg ==
    /\ output = "closed" /\ ffmpegDone = Nothing
    /\ ffmpegDone' = IF ffmpeg = "ok" /\ carried = written THEN "ok" ELSE "failed"
    /\ UNCHANGED <<stageVars, doneVars, processVars, pipeVars, moqCliDone,
                   stalled, unitVars>>

ReportMoqCli ==
    /\ stage \notin {"publisher", "ffmpeg", "reap"} /\ moqCliDone = Nothing
    /\ Reaped(moqCli, input)
    /\ moqCliDone' = IF moqCli = "ok" /\ input = "ended" THEN "ok" ELSE "failed"
    /\ UNCHANGED <<stageVars, doneVars, processVars, pipeVars, ffmpegDone,
                   stalled, unitVars>>

-----------------------------------------------------------------------------
(* The goroutines that copy *)

\* A unit goes through the pipe into moq-cli, or to nobody when that has ended:
\* the error of that write is not one of Wait.
Carry ==
    /\ output = "copying" /\ input = "copying" /\ ~readerClosed /\ ~writerClosed
    /\ carried < written /\ (moqCli = "running" => carried - consumed < Room)
    /\ carried' = carried + 1
    /\ input' = IF moqCli = "running" THEN input ELSE "ended"
    /\ UNCHANGED <<stageVars, doneVars, processVars, output, readerClosed,
                   writerClosed, channelVars, stalled, written, consumed>>

\* ffmpeg's output is at its end, or cannot be written to the pipe.
EndOutput ==
    /\ output = "copying"
    /\ \/ ffmpeg \in Ended /\ carried = written /\ output' = "ended"
       \/ carried < written /\ (readerClosed \/ writerClosed) /\ output' = "error"
    /\ UNCHANGED <<stageVars, doneVars, processVars, input, readerClosed,
                   writerClosed, channelVars, stalled, unitVars>>

\* The pipe is at its end, or its reader is closed.
EndInput ==
    /\ input = "copying"
    /\ \/ readerClosed /\ input' = "error"
       \/ ~readerClosed /\ writerClosed /\ input' = "ended"
    /\ UNCHANGED <<stageVars, doneVars, processVars, output, readerClosed,
                   writerClosed, channelVars, stalled, unitVars>>

-----------------------------------------------------------------------------
(* The processes *)

FfmpegWrites ==
    /\ ffmpeg = "running" /\ output = "copying" /\ ~stalled
    /\ written < MaxUnits /\ written - carried < Room
    /\ written' = written + 1
    /\ UNCHANGED <<stageVars, doneVars, processVars, pipeVars, channelVars,
                   stalled, carried, consumed>>

\* The source ends or fails; or ffmpeg finds that nobody takes its output.
FfmpegEnds ==
    /\ ffmpeg = "running" /\ ~stalled
    /\ \/ output = "copying" /\ ffmpeg' \in {"ok", "failed"}
       \/ output # "copying" /\ ffmpeg' = "failed"
    /\ UNCHANGED <<stageVars, doneVars, moqCli, pipeVars, channelVars, stalled,
                   unitVars>>

SourceStalls ==
    /\ ffmpeg = "running" /\ ~stalled
    /\ stalled' = TRUE
    /\ UNCHANGED <<stageVars, doneVars, processVars, pipeVars, channelVars,
                   unitVars>>

MoqCliReads ==
    /\ moqCli = "running" /\ consumed < carried
    /\ consumed' = consumed + 1
    /\ UNCHANGED <<stageVars, doneVars, processVars, pipeVars, channelVars,
                   stalled, written, carried>>

\* moq-cli succeeds when it has read its input to the end.
MoqCliFinishes ==
    /\ moqCli = "running" /\ input \in {"ended", "error"} /\ consumed = carried
    /\ moqCli' = "ok"
    /\ UNCHANGED <<stageVars, doneVars, ffmpeg, pipeVars, channelVars, stalled,
                   unitVars>>

MoqCliFails ==
    /\ moqCli = "running"
    /\ moqCli' = "failed"
    /\ UNCHANGED <<stageVars, doneVars, ffmpeg, pipeVars, channelVars, stalled,
                   unitVars>>

\* os/exec kills a process whose context is done.
Kill ==
    /\ contextDone
    /\ \/ ffmpeg = "running" /\ ffmpeg' = "killed" /\ UNCHANGED moqCli
       \/ moqCli = "running" /\ moqCli' = "killed" /\ UNCHANGED ffmpeg
    /\ UNCHANGED <<stageVars, doneVars, pipeVars, channelVars, stalled, unitVars>>

-----------------------------------------------------------------------------
ForwardStep ==
    \/ StartMoqCli \/ StartFfmpeg \/ ReapMoqCli
    \/ FfmpegIsDone \/ MoqCliIsDone \/ ContextIsDone \/ Finish

WaitStep == CloseWriter \/ ReportFfmpeg \/ ReportMoqCli

CopyStep == Carry \/ EndOutput \/ EndInput

ProcessStep ==
    \/ FfmpegWrites \/ FfmpegEnds \/ SourceStalls
    \/ MoqCliReads \/ MoqCliFinishes \/ MoqCliFails \/ Kill

ForwardNext == ForwardStep \/ WaitStep \/ CopyStep \/ ProcessStep \/ CallerStops

\* The goroutines run, a killed process dies, moq-cli reads its input and ends
\* at its end, and ffmpeg ends when nobody takes the output it has to write.
\* A source need not end, nor deliver anything, and nothing has to fail; but when
\* the model has no more units for it, it ends or falls silent.
ForwardFairness ==
    /\ WF_forwardVars(ForwardStep)
    /\ WF_forwardVars(CloseWriter)
    /\ WF_forwardVars(ReportFfmpeg) /\ WF_forwardVars(ReportMoqCli)
    /\ WF_forwardVars(Carry) /\ WF_forwardVars(EndOutput) /\ WF_forwardVars(EndInput)
    /\ WF_forwardVars(MoqCliReads \/ MoqCliFinishes)
    /\ WF_forwardVars(output # "copying" /\ FfmpegEnds)
    /\ WF_forwardVars(FfmpegWrites)
    /\ WF_forwardVars(written = MaxUnits /\ (FfmpegEnds \/ SourceStalls))
    /\ WF_forwardVars(Kill)

ForwardSpec == ForwardInit /\ [][ForwardNext]_forwardVars /\ ForwardFairness

-----------------------------------------------------------------------------
(* Properties *)

\* When runPipe has returned, no process and no goroutine of it runs on.  Success
\* means that the whole of ffmpeg's output reached moq-cli and both succeeded; a
\* failure, that one of the two did not start or failed.
ReturnIsTrue ==
    /\ stage = "returned" =>
        /\ {ffmpeg, moqCli} \cap {"running"} = {}
        /\ {output, input} \cap {"copying"} = {}
    /\ outcome = "ok" => (ffmpeg = "ok" /\ moqCli = "ok" /\ consumed = written)
    /\ (outcome = "failed" /\ ffmpeg # "none") => (ffmpeg = "failed" \/ moqCli = "failed")

\* The end of either process, or of the caller's context, ends runPipe, unless
\* moq-cli ends beside a source that has fallen silent: its Wait then waits for
\* the goroutine that reads the pipe.
EitherEnds ==
    /\ (ffmpeg \in Ended) ~> (stage = "returned")
    /\ (moqCli \in Ended) ~> (stage = "returned" \/ stalled)
    /\ callerDone ~> (stage = "returned")
=============================================================================
