------------------------------- MODULE MoqPublish -------------------------------
(***************************************************************************)
(* cstream moq publish with --catalog-control-dynamic: internal/moq.  Run  *)
(* seeds a control file in a directory of its own, then a goroutine copies *)
(* the updates of a WebSocket into that file while another one runs        *)
(* cstream-moq-publisher, which polls it.  The first of the two to end, or *)
(* the caller's context, ends the other one.                               *)
(*                                                                         *)
(* The publisher starts ffmpeg encoders that inherit its standard error.   *)
(* Unless that is a file (--debug), it is a pipe of the Go process, and    *)
(* cmd.Run returns when the last process that holds it has ended.          *)
(***************************************************************************)
EXTENDS Naturals

CONSTANTS
    Updates, \* the control messages that carry an update
    None     \* nothing in a channel, no result

Results == {"ok", "failed", "canceled"}
Channels == {"dynamic", "command", "context"}

ASSUME MoqPublishAssumption ==
    /\ Updates \cap {"absent", "seed", "partial"} = {}
    /\ None \notin Updates \cup Results \cup Channels \cup {"killed"}

VARIABLES
    main,      \* where Run is
    chosen,    \* the channel Run's select received from
    result,    \* what Run returns
    parent,    \* the caller's context is done
    cancelled, \* Run's own context is done
    dynamic,   \* where runDynamicCatalogControl is
    update,    \* the update it writes
    dynamicErr, commandErr, \* the channels of size one
    file,      \* the control file: "absent", "seed", "partial" or an update
    publisher, \* the publisher process: "none", "starting", "running", "dead"
    exit,      \* how it ended
    encoder,   \* an ffmpeg process of the publisher is alive
    silent,    \* the encoder's source delivers nothing, for good
    piped      \* the log writer is not a file

mainVars == <<main, chosen, result>>
controlVars == <<dynamic, update, dynamicErr, file>>
commandVars == <<publisher, exit, encoder, silent, commandErr>>
vars == <<mainVars, parent, cancelled, controlVars, commandVars, piped>>

TypeOK ==
    /\ main \in {"seed", "start", "select", "drain", "clean", "returned"}
    /\ chosen \in Channels \cup {None}
    /\ result \in Results \cup {None}
    /\ parent \in BOOLEAN /\ cancelled \in BOOLEAN
    /\ dynamic \in {"none", "dial", "init", "read", "write", "rename", "done"}
    /\ update \in Updates \cup {None}
    /\ dynamicErr \in {"failed", "canceled", None}
    /\ commandErr \in Results \cup {None}
    /\ file \in {"absent", "seed", "partial"} \cup Updates
    /\ publisher \in {"none", "starting", "running", "dead"}
    /\ exit \in {"ok", "failed", "killed", None}
    /\ encoder \in BOOLEAN /\ silent \in BOOLEAN /\ piped \in BOOLEAN

Init ==
    /\ main = "seed" /\ chosen = None /\ result = None
    /\ parent = FALSE /\ cancelled = FALSE
    /\ dynamic = "none" /\ update = None /\ dynamicErr = None /\ file = "absent"
    /\ publisher = "none" /\ exit = None /\ encoder = FALSE /\ silent = FALSE
    /\ commandErr = None /\ piped \in BOOLEAN

-----------------------------------------------------------------------------
(* Run *)

\* The directory and the seed file; without them there is nothing to run.
Seed ==
    /\ main = "seed"
    /\ \/ file' = "seed" /\ main' = "start" /\ UNCHANGED result
       \/ main' = "clean" /\ result' = "failed" /\ UNCHANGED file
    /\ UNCHANGED <<chosen, parent, cancelled, dynamic, update, dynamicErr, commandVars, piped>>

StartBoth ==
    /\ main = "start"
    /\ main' = "select" /\ dynamic' = "dial" /\ publisher' = "starting"
    /\ UNCHANGED <<chosen, result, parent, cancelled, update, dynamicErr, file,
                   exit, encoder, silent, commandErr, piped>>

Receive(channel) ==
    /\ main = "select"
    /\ main' = "drain" /\ chosen' = channel /\ cancelled' = TRUE
    /\ UNCHANGED <<result, parent, controlVars, commandVars, piped>>

\* Mutant: the other goroutine's context is not cancelled.
SelectWithoutCancel ==
    \/ dynamicErr # None /\ main = "select" /\ main' = "drain" /\ chosen' = "dynamic"
       /\ UNCHANGED <<result, parent, cancelled, controlVars, commandVars, piped>>
    \/ commandErr # None /\ Receive("command")
    \/ cancelled /\ Receive("context")

Select ==
    \/ dynamicErr # None /\ Receive("dynamic")
    \/ commandErr # None /\ Receive("command")
    \/ cancelled /\ Receive("context")

\* Mutant: the other goroutine's error is returned.
DrainOther ==
    /\ main = "drain"
    /\ dynamicErr # None /\ commandErr # None
    /\ main' = "clean"
    /\ result' = IF chosen = "dynamic" THEN commandErr ELSE dynamicErr
    /\ UNCHANGED <<chosen, parent, cancelled, controlVars, commandVars, piped>>

\* Mutant: the publisher is not waited for.
DrainDynamic ==
    /\ main = "drain"
    /\ dynamicErr # None
    /\ main' = "clean" /\ result' = "failed"
    /\ UNCHANGED <<chosen, parent, cancelled, controlVars, commandVars, piped>>

\* Both goroutines are waited for, whichever case the select took.
Drain ==
    /\ main = "drain"
    /\ dynamicErr # None /\ commandErr # None
    /\ main' = "clean"
    /\ result' = CASE chosen = "dynamic" -> dynamicErr
                   [] chosen = "command" -> commandErr
                   [] OTHER              -> "canceled"
    /\ UNCHANGED <<chosen, parent, cancelled, controlVars, commandVars, piped>>

\* The deferred RemoveAll and cancel.
Clean ==
    /\ main = "clean"
    /\ main' = "returned" /\ file' = "absent" /\ cancelled' = TRUE
    /\ UNCHANGED <<chosen, result, parent, dynamic, update, dynamicErr, commandVars, piped>>

CallerCancels ==
    /\ ~parent /\ main # "returned"
    /\ parent' = TRUE /\ cancelled' = TRUE
    /\ UNCHANGED <<mainVars, controlVars, commandVars, piped>>

-----------------------------------------------------------------------------
(* runDynamicCatalogControl *)

EndDynamic(error) ==
    /\ dynamic' = "done" /\ dynamicErr' = error /\ update' = None

\* Dial and the init message; a done context fails them as well.
Connect ==
    /\ dynamic \in {"dial", "init"}
    /\ \/ /\ dynamic' = IF dynamic = "dial" THEN "init" ELSE "read"
          /\ UNCHANGED <<update, dynamicErr>>
       \/ EndDynamic("failed")
       \/ cancelled /\ EndDynamic("canceled")
    /\ UNCHANGED <<mainVars, parent, cancelled, file, commandVars, piped>>

\* A message with only a type changes nothing and is left out.
ReadUpdate(u) ==
    /\ dynamic = "read"
    /\ dynamic' = "write" /\ update' = u
    /\ UNCHANGED <<mainVars, parent, cancelled, dynamicErr, file, commandVars, piped>>

\* The connection ends or a message is malformed: that ends the whole run.
ReadFails ==
    /\ dynamic = "read"
    /\ EndDynamic("failed")
    /\ UNCHANGED <<mainVars, parent, cancelled, file, commandVars, piped>>

ReadCanceled ==
    /\ dynamic = "read" /\ cancelled
    /\ EndDynamic("canceled")
    /\ UNCHANGED <<mainVars, parent, cancelled, file, commandVars, piped>>

\* Mutant: the update is written over the control file.
WriteInPlace ==
    /\ dynamic = "write"
    /\ dynamic' = "rename" /\ file' = "partial"
    /\ UNCHANGED <<mainVars, parent, cancelled, update, dynamicErr, commandVars, piped>>

\* The update goes to a file beside the control file ...
WriteTemporary ==
    /\ dynamic = "write"
    /\ \/ dynamic' = "rename" /\ UNCHANGED <<update, dynamicErr>>
       \/ EndDynamic("failed")
    /\ UNCHANGED <<mainVars, parent, cancelled, file, commandVars, piped>>

\* ... that replaces it.
Rename ==
    /\ dynamic = "rename"
    /\ \/ dynamic' = "read" /\ file' = update /\ update' = None /\ UNCHANGED dynamicErr
       \/ EndDynamic("failed") /\ UNCHANGED file
    /\ UNCHANGED <<mainVars, parent, cancelled, commandVars, piped>>

-----------------------------------------------------------------------------
(* runCommand and the processes it runs *)

StartPublisher ==
    /\ publisher = "starting"
    /\ \/ publisher' = "running" /\ UNCHANGED commandErr
       \/ publisher' = "dead" /\ commandErr' = IF cancelled THEN "canceled" ELSE "failed"
    /\ UNCHANGED <<mainVars, parent, cancelled, controlVars, exit, encoder, silent, piped>>

\* The publisher starts and stops encoders as the control file tells it.
ToggleEncoder ==
    /\ publisher = "running"
    /\ encoder' = ~encoder
    /\ UNCHANGED <<mainVars, parent, cancelled, controlVars, publisher, exit, silent,
                   commandErr, piped>>

SourceFallsSilent ==
    /\ ~silent
    /\ silent' = TRUE
    /\ UNCHANGED <<mainVars, parent, cancelled, controlVars, publisher, exit, encoder,
                   commandErr, piped>>

PublisherEnds ==
    /\ publisher = "running"
    /\ publisher' = "dead" /\ exit' \in {"ok", "failed"}
    /\ UNCHANGED <<mainVars, parent, cancelled, controlVars, encoder, silent, commandErr, piped>>

KillPublisher ==
    /\ publisher = "running" /\ cancelled
    /\ publisher' = "dead" /\ exit' = "killed"
    /\ UNCHANGED <<mainVars, parent, cancelled, controlVars, encoder, silent, commandErr, piped>>

\* The next frame finds nobody who reads it.
EncoderEnds ==
    /\ publisher = "dead" /\ encoder /\ ~silent
    /\ encoder' = FALSE
    /\ UNCHANGED <<mainVars, parent, cancelled, controlVars, publisher, exit, silent,
                   commandErr, piped>>

\* cmd.Run: the process has ended and so has the output that is copied.
ReapPublisher ==
    /\ publisher = "dead" /\ commandErr = None
    /\ piped => ~encoder
    /\ commandErr' = IF cancelled THEN "canceled" ELSE IF exit = "ok" THEN "ok" ELSE "failed"
    /\ UNCHANGED <<mainVars, parent, cancelled, controlVars, publisher, exit, encoder,
                   silent, piped>>

-----------------------------------------------------------------------------
RunStep == Seed \/ StartBoth \/ Select \/ Drain \/ Clean

DynamicStep ==
    \/ Connect \/ ReadFails \/ ReadCanceled \/ WriteTemporary \/ Rename
    \/ \E u \in Updates : ReadUpdate(u)

CommandStep ==
    \/ StartPublisher \/ ToggleEncoder \/ SourceFallsSilent \/ PublisherEnds
    \/ KillPublisher \/ EncoderEnds \/ ReapPublisher

Next == RunStep \/ CallerCancels \/ DynamicStep \/ CommandStep

\* Goroutines go on and calls return; a read is cut short by its context, a
\* killed process ends.  No message, failure or end has to come by itself, and
\* nothing makes a silent source speak.
Fairness ==
    /\ WF_vars(RunStep)
    /\ WF_vars(Connect) /\ WF_vars(WriteTemporary) /\ WF_vars(Rename)
    /\ SF_vars(ReadCanceled)
    /\ WF_vars(StartPublisher) /\ WF_vars(KillPublisher)
    /\ WF_vars(EncoderEnds) /\ WF_vars(ReapPublisher)

Spec == Init /\ [][Next]_vars /\ Fairness

-----------------------------------------------------------------------------
(* Properties *)

\* Whenever the publisher looks, from its start to its end, the control file is
\* there and holds the seed or one whole update.
ControlFileWhole == publisher = "running" => file \in {"seed"} \cup Updates

\* When Run has returned, neither goroutine nor the publisher is left, and the
\* control file is gone.
NothingOutlivesRun ==
    main = "returned" =>
        dynamic \in {"none", "done"} /\ publisher \in {"none", "dead"} /\ file = "absent"

\* Run returns what ended it, not the cancellation it answers it with: it is
\* cancelled only by its caller, and it is done only if the publisher was.
ReturnsItsCause ==
    main = "returned" =>
        /\ result = "canceled" => parent
        /\ result = "ok" => exit = "ok" /\ chosen = "command"

\* The end of either part, or the caller, ends Run, unless an encoder of a dead
\* publisher holds the log pipe and never gets a frame to fail on.
EitherEndsRun ==
    <>(dynamicErr # None \/ publisher = "dead" \/ parent)
        => <>(main = "returned") \/ <>[](piped /\ publisher = "dead" /\ encoder /\ silent)
=============================================================================
