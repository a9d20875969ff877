------------------------------- MODULE AgentLog -------------------------------
(***************************************************************************)
(* The agent ships the log file of mediamtx to the manager                 *)
(* (packages/mtx-agent: internal/connection.ts, handlers/metrics.ts,       *)
(* utils/log.ts, utils/batch.ts).  Every metadata message of the control   *)
(* socket aborts the handler before it and starts another: a Log tails the *)
(* file into a batch queue, the handler posts one batch after the other,   *)
(* and disposing of the Log empties the file.                              *)
(*                                                                         *)
(* Lines are numbered in the order mediamtx writes them; the file holds    *)
(* the lines base+1 .. appended.  A batch queue's ready batches are one    *)
(* sequence of lines and the places where the batches end.                 *)
(***************************************************************************)
EXTENDS Integers, Sequences

CONSTANTS
    MaxHandlers, \* bound: metadata messages
    MaxLines,    \* bound: lines mediamtx writes
    MaxBatch,    \* MAX_BATCH_SIZE
    Malformed,   \* bound: the lines that may be JSON but no log entry, and 0
    MaxFaults    \* bound: posts and writes of the file that fail, crashes of the agent

ASSUME AgentLogAssumption ==
    /\ MaxHandlers \in Nat /\ MaxLines \in Nat /\ MaxFaults \in Nat
    /\ MaxBatch \in Nat \ {0} /\ Malformed \subseteq 0..MaxLines

Handlers == 1..MaxHandlers
Lines == 1..MaxLines

VARIABLES
    exists,      \* the log file is there
    base,        \* the lines up to base were removed from the file
    appended,    \* the lines mediamtx wrote
    malformed,   \* the line that is JSON but no log entry, or 0
    interrupted, \* SIGINT: the agent takes no more metadata
    latest,      \* the handlers started
    aborted,     \* aborted[h], the signal of handler h
    place,       \* place[h], where the loop of handleMetrics is
    log,         \* log[h], the Log of h: who disposes of it, or whether it broke
    pump,        \* pump[h], the readLines of its Log
    pos,         \* pos[h], the last line that the reader of h has passed
    pending,     \* pending[h], the lines of the batch that is being filled
    ready,       \* ready[h], the lines of the ready batches
    ends,        \* ends[h], where in ready[h] each batch ends
    done,        \* done[h], the queue of h is closed
    faults,      \* faults so far
    read,        \* history: read[h], the lines pushed to the queue of h
    sent,        \* history: sent[h], the lines h started to post
    overlap      \* history: overlap[h], whose Log was not disposed of when h opened its own

fileVars == <<exists, base, appended, malformed>>
queueVars == <<pending, ready, ends, done>>
vars == <<fileVars, interrupted, latest, aborted, place, log, pump, pos, queueVars,
          faults, read, sent, overlap>>

Places == {"none", "creating", "idle", "posting", "ended"}
LogStates == {"none", "open", "byListener", "byHandler", "broken", "disposed"}

TypeOK ==
    /\ exists \in BOOLEAN /\ interrupted \in BOOLEAN
    /\ appended \in 0..MaxLines /\ base \in 0..appended
    /\ malformed \in Malformed
    /\ latest \in 0..MaxHandlers
    /\ aborted \in [Handlers -> BOOLEAN]
    /\ place \in [Handlers -> Places]
    /\ log \in [Handlers -> LogStates]
    /\ pump \in [Handlers -> {"off", "running", "ended"}]
    /\ pos \in [Handlers -> Int]
    /\ pending \in [Handlers -> Seq(Lines)] /\ ready \in [Handlers -> Seq(Lines)]
    /\ ends \in [Handlers -> Seq(Int)]
    /\ done \in [Handlers -> BOOLEAN]
    /\ faults \in 0..MaxFaults
    /\ read \in [Handlers -> Seq(Lines)] /\ sent \in [Handlers -> Seq(Lines)]
    /\ overlap \in [Handlers -> SUBSET Handlers]

Init ==
    /\ exists \in BOOLEAN /\ base = 0 /\ appended = 0
    /\ malformed \in Malformed
    /\ interrupted = FALSE /\ latest = 0 /\ faults = 0
    /\ aborted = [h \in Handlers |-> FALSE]
    /\ place = [h \in Handlers |-> "none"]
    /\ log = [h \in Handlers |-> "none"]
    /\ pump = [h \in Handlers |-> "off"]
    /\ pos = [h \in Handlers |-> 0]
    /\ pending = [h \in Handlers |-> <<>>] /\ ready = [h \in Handlers |-> <<>>]
    /\ ends = [h \in Handlers |-> <<>>]
    /\ done = [h \in Handlers |-> FALSE]
    /\ read = [h \in Handlers |-> <<>>] /\ sent = [h \in Handlers |-> <<>>]
    /\ overlap = [h \in Handlers |-> {}]

Fault == faults < MaxFaults /\ faults' = faults + 1

-----------------------------------------------------------------------------
(* The file *)

\* mediamtx writes a line.
WriteLine ==
    /\ appended < MaxLines
    /\ appended' = appended + 1
    /\ exists' = TRUE
    /\ UNCHANGED <<base, malformed, interrupted, latest, aborted, place, log, pump, pos,
                   queueVars, faults, read, sent, overlap>>

\* writeFile(path, ''): the file is empty.  A reader of it starts over, or stays
\* at its offset and skips what is written before it.
Empty(openers) ==
    /\ exists' = TRUE
    /\ base' = appended
    /\ \E keepsOffset \in BOOLEAN :
          pos' = [h \in Handlers |->
                     IF h \in openers THEN appended
                     ELSE IF log[h] = "none" THEN pos[h]
                     ELSE IF keepsOffset THEN appended + (pos[h] - base)
                     ELSE appended]
    /\ UNCHANGED <<appended, malformed>>

-----------------------------------------------------------------------------
(* AsyncBatchQueue *)

\* Mutant: the lines that were flushed stay pending.
FlushKeepsPending(h, p) ==
    /\ UNCHANGED pending
    /\ ready' = [ready EXCEPT ![h] = @ \o p]
    /\ ends' = IF p = <<>> THEN ends ELSE [ends EXCEPT ![h] = Append(@, Len(ready[h]) + Len(p))]

\* flush with the lines p of h being pending.
FlushOf(h, p) ==
    /\ pending' = [pending EXCEPT ![h] = <<>>]
    /\ ready' = [ready EXCEPT ![h] = @ \o p]
    /\ ends' = IF p = <<>> THEN ends ELSE [ends EXCEPT ![h] = Append(@, Len(ready[h]) + Len(p))]

\* close: the queue takes no more lines, what is pending becomes ready.
CloseQueue(h) ==
    /\ done' = [done EXCEPT ![h] = TRUE]
    /\ FlushOf(h, pending[h])

\* The handler's loop is over: nobody takes from its queue any more.
DropQueue(h) ==
    /\ done' = [done EXCEPT ![h] = TRUE]
    /\ pending' = [pending EXCEPT ![h] = <<>>]
    /\ ready' = [ready EXCEPT ![h] = <<>>]
    /\ ends' = [ends EXCEPT ![h] = <<>>]

\* push: the timer is set while lines are pending; a full batch needs none.
Push(h, l) ==
    LET p == Append(pending[h], l)
    IN  /\ read' = [read EXCEPT ![h] = Append(@, l)]
        /\ UNCHANGED done
        /\ IF Len(p) >= MaxBatch
           THEN FlushOf(h, p)
           ELSE pending' = [pending EXCEPT ![h] = p] /\ UNCHANGED <<ready, ends>>

\* Mutant: the first line of a batch sets no timer.
TimerForgotten(h) ==
    /\ Len(pending[h]) > 1
    /\ FlushOf(h, pending[h])
    /\ UNCHANGED <<fileVars, interrupted, latest, aborted, place, log, pump, pos, done,
                   faults, read, sent, overlap>>

TimerFires(h) ==
    /\ pending[h] # <<>>
    /\ FlushOf(h, pending[h])
    /\ UNCHANGED <<fileVars, interrupted, latest, aborted, place, log, pump, pos, done,
                   faults, read, sent, overlap>>

-----------------------------------------------------------------------------
(* Metadata, handlers and their Logs *)

\* The Log of h is constructed: its pump starts at the beginning of the file.
Opened(h) ==
    /\ place' = [place EXCEPT ![h] = "idle"]
    /\ pump' = [pump EXCEPT ![h] = "running"]
    /\ overlap' = [overlap EXCEPT ![h] = {g \in Handlers : log[g] \notin {"none", "disposed"}}]

\* The signal of the current handler is aborted: the listener of its Log, if
\* there is one, closes the reader and the queue before anything else runs.
AbortLatest(newLog) ==
    /\ aborted' = [h \in Handlers |-> aborted[h] \/ h = latest]
    /\ IF latest > 0 /\ log[latest] = "open"
       THEN /\ log' = [newLog EXCEPT ![latest] = "byListener"]
            /\ CloseQueue(latest)
       ELSE log' = newLog /\ UNCHANGED queueVars

ReceiveMetadata ==
    LET h == latest + 1
    IN  /\ latest < MaxHandlers /\ ~interrupted
        /\ latest' = h
        /\ IF exists
           THEN /\ Opened(h)
                /\ pos' = [pos EXCEPT ![h] = base]
                /\ AbortLatest([log EXCEPT ![h] = "open"])
           ELSE /\ place' = [place EXCEPT ![h] = "creating"]
                /\ AbortLatest(log)
                /\ UNCHANGED <<pump, pos, overlap>>
        /\ UNCHANGED <<fileVars, interrupted, faults, read, sent>>

\* The missing file is written and the Log constructed.  If the signal was
\* aborted meanwhile, the listener registered now is never called.
CreateFile(h) ==
    /\ place[h] = "creating"
    /\ Empty({h})
    /\ log' = [log EXCEPT ![h] = "open"]
    /\ Opened(h)
    /\ UNCHANGED <<interrupted, latest, aborted, queueVars, faults, read, sent>>

\* The file cannot be written: handleMetrics ends before it has a Log, and
\* onMetadata, which waits for all its handlers to settle, swallows the error.
CreateFails(h) ==
    /\ Fault
    /\ place[h] = "creating"
    /\ place' = [place EXCEPT ![h] = "ended"]
    /\ UNCHANGED <<fileVars, interrupted, latest, aborted, log, pump, pos, queueVars, read, sent,
                   overlap>>

\* SIGINT: the signal is aborted and the control socket closed for good.
Interrupt ==
    /\ latest > 0 /\ ~interrupted
    /\ interrupted' = TRUE
    /\ AbortLatest(log)
    /\ UNCHANGED <<fileVars, latest, place, pump, pos, faults, read, sent, overlap>>

-----------------------------------------------------------------------------
(* readLines *)

\* The next line is parsed and pushed; a closed queue drops it.
ReadLine(h) ==
    LET l == pos[h] + 1
    IN  /\ pump[h] = "running" /\ pos[h] < appended /\ l # malformed
        /\ pos' = [pos EXCEPT ![h] = l]
        /\ IF done[h] THEN UNCHANGED <<queueVars, read>> ELSE Push(h, l)
        /\ UNCHANGED <<fileVars, interrupted, latest, aborted, place, log, pump, faults,
                       sent, overlap>>

\* Every handler ends with the process, which is started again.
Die ==
    /\ place' = [h \in Handlers |-> IF h <= latest THEN "ended" ELSE place[h]]
    /\ log' = [h \in Handlers |-> IF log[h] \in {"none", "disposed"} THEN log[h] ELSE "broken"]
    /\ pump' = [h \in Handlers |-> IF h <= latest THEN "ended" ELSE pump[h]]
    /\ pending' = [h \in Handlers |-> <<>>] /\ ready' = [h \in Handlers |-> <<>>]
    /\ ends' = [h \in Handlers |-> <<>>]
    /\ UNCHANGED <<fileVars, interrupted, latest, aborted, pos, done, read, sent, overlap>>

\* Somebody awaits the pump of h by the time its rejection is noticed: the loop
\* that finds nothing more to take or leaves, or the loop that disposes.
RejectionHandled(h) ==
    \/ log[h] = "byHandler"
    \/ log[h] = "open" /\ place[h] = "idle" /\ (aborted[h] \/ ready[h] \o pending[h] = <<>>)

\* A line that is JSON but no log entry ends the pump with an error.  The
\* handler ends with it, and leaves the file as it is; or nobody handles the
\* rejection and it ends the process.
ReadMalformed(h) ==
    /\ pump[h] = "running" /\ pos[h] < appended /\ pos[h] + 1 = malformed
    /\ \/ /\ RejectionHandled(h)
          /\ place' = [place EXCEPT ![h] = "ended"]
          /\ log' = [log EXCEPT ![h] = "broken"]
          /\ pump' = [pump EXCEPT ![h] = "ended"]
          /\ DropQueue(h)
          /\ UNCHANGED <<fileVars, interrupted, latest, aborted, pos, read, sent, overlap>>
       \/ ~RejectionHandled(h) /\ Die
    /\ UNCHANGED faults

Crash == Fault /\ latest > 0 /\ Die

\* Mutant: disposing does not close the reader, which goes on tailing.
PumpGoesOn(h) == FALSE /\ UNCHANGED vars

\* The closed reader has nothing more to give.
PumpEnds(h) ==
    /\ pump[h] = "running" /\ log[h] \in {"byListener", "byHandler"}
    /\ pump' = [pump EXCEPT ![h] = "ended"]
    /\ UNCHANGED <<fileVars, interrupted, latest, aborted, place, log, pos, queueVars,
                   faults, read, sent, overlap>>

\* Mutant: a Log that is disposed of leaves the file as it is.
DisposeKeepsFile(h) ==
    /\ log[h] \in {"byListener", "byHandler"} /\ pump[h] = "ended"
    /\ log' = [log EXCEPT ![h] = "disposed"]
    /\ UNCHANGED <<fileVars, interrupted, latest, aborted, place, pump, pos, queueVars,
                   faults, read, sent, overlap>>

\* Whoever disposes of the Log has awaited its pump and empties the file.
Truncate(h) ==
    /\ log[h] \in {"byListener", "byHandler"} /\ pump[h] = "ended"
    /\ log' = [log EXCEPT ![h] = "disposed"]
    /\ Empty({})
    /\ UNCHANGED <<interrupted, latest, aborted, place, pump, queueVars, faults, read, sent, overlap>>

\* The file cannot be emptied.  The handler that disposes ends with the error,
\* after its loop; nobody handles the rejection of the listener's promise.
TruncateFails(h) ==
    /\ Fault
    /\ pump[h] = "ended"
    /\ \/ /\ log[h] = "byHandler"
          /\ log' = [log EXCEPT ![h] = "broken"]
          /\ UNCHANGED <<fileVars, interrupted, latest, aborted, place, pump, pos, queueVars,
                         read, sent, overlap>>
       \/ log[h] = "byListener" /\ Die

-----------------------------------------------------------------------------
(* The loop of handleMetrics *)

\* The loop is left and its Log disposed of, unless the listener does that.
Leave(h) ==
    /\ place' = [place EXCEPT ![h] = "ended"]
    /\ log' = IF log[h] = "open" THEN [log EXCEPT ![h] = "byHandler"] ELSE log
    /\ DropQueue(h)

\* The next batch: posted, unless the signal was aborted.
TakeBatch(h) ==
    LET n == Head(ends[h])
    IN  /\ place[h] = "idle" /\ ends[h] # <<>>
        /\ \/ /\ aborted[h]
              /\ Leave(h)
              /\ UNCHANGED sent
           \/ /\ ~aborted[h]
              /\ place' = [place EXCEPT ![h] = "posting"]
              /\ sent' = [sent EXCEPT ![h] = @ \o SubSeq(ready[h], 1, n)]
              /\ ready' = [ready EXCEPT ![h] = SubSeq(@, n + 1, Len(@))]
              /\ ends' = [ends EXCEPT ![h] = [i \in 1..(Len(@) - 1) |-> @[i + 1] - n]]
              /\ UNCHANGED <<log, pending, done>>
        /\ UNCHANGED <<fileVars, interrupted, latest, aborted, pump, pos, faults, read, overlap>>

\* The post is answered, with whatever status: nobody looks at it.
PostReturns(h) ==
    /\ place[h] = "posting"
    /\ place' = [place EXCEPT ![h] = "idle"]
    /\ UNCHANGED <<fileVars, interrupted, latest, aborted, log, pump, pos, queueVars,
                   faults, read, sent, overlap>>

\* The manager cannot be reached: fetch throws, which leaves the loop.
PostFails(h) ==
    /\ Fault
    /\ place[h] = "posting"
    /\ Leave(h)
    /\ UNCHANGED <<fileVars, interrupted, latest, aborted, pump, pos, read, sent, overlap>>

\* The queue is closed and empty and the pump at its end.
FinishLoop(h) ==
    /\ place[h] = "idle" /\ done[h] /\ ready[h] = <<>> /\ pump[h] = "ended"
    /\ Leave(h)
    /\ UNCHANGED <<fileVars, interrupted, latest, aborted, pump, pos, faults, read, sent, overlap>>

-----------------------------------------------------------------------------
LoopStep(h) == TakeBatch(h) \/ PostReturns(h) \/ PostFails(h) \/ FinishLoop(h)

LogStep(h) ==
    \/ CreateFile(h) \/ CreateFails(h) \/ ReadLine(h) \/ ReadMalformed(h) \/ TimerFires(h)
    \/ PumpEnds(h) \/ Truncate(h) \/ TruncateFails(h)

Next ==
    \/ WriteLine \/ ReceiveMetadata \/ Interrupt \/ Crash
    \/ \E h \in Handlers : LogStep(h) \/ LoopStep(h)

\* Files are written and read, timers fire and posts end, one way or another.
\* Nobody has to write a line, send metadata or stop the agent.
Fairness ==
    \A h \in Handlers :
        /\ WF_vars(CreateFile(h)) /\ WF_vars(ReadLine(h) \/ ReadMalformed(h))
        /\ WF_vars(TimerFires(h)) /\ WF_vars(PumpEnds(h)) /\ WF_vars(Truncate(h))
        /\ WF_vars(LoopStep(h))

Spec == Init /\ [][Next]_vars /\ Fairness
-----------------------------------------------------------------------------
(* Properties *)

SentBy(h) == {sent[h][i] : i \in DOMAIN sent[h]}

\* Batching neither loses nor repeats nor reorders a line: what a handler read
\* is what it has posted, followed by what its queue still holds, whatever the
\* order in which lines, timers, posts and aborts come.
PipelineInOrder ==
    \A h \in Handlers :
        IF place[h] = "ended" THEN sent[h] = SubSeq(read[h], 1, Len(sent[h]))
        ELSE read[h] = sent[h] \o ready[h] \o pending[h]

\* A line is posted by two handlers only if the Log of one was not yet disposed
\* of when the other opened its own: disposing empties the file after the last
\* line was read ("clears log file when Log is disposed", index.test.ts).
NoRepost ==
    \A g, h \in Handlers :
        (g < h /\ g \notin overlap[h] /\ h \notin overlap[g]) => SentBy(g) \cap SentBy(h) = {}

\* A line in the file is posted by every handler that tails it, unless the
\* handler is superseded or ends, or somebody else empties the file.
LiveHandlerShips ==
    \A h \in Handlers, l \in Lines :
        (pump[h] = "running" /\ pos[h] < l /\ l <= appended)
            ~> (l \in SentBy(h) \/ aborted[h] \/ place[h] = "ended" \/ l <= base)

\* A superseded handler ends and lets go of the file.  One that was superseded
\* before it had a Log notices only when there is a line for it to read.
Gone(h) == place[h] = "ended" /\ log[h] \in {"disposed", "broken"}
SupersededEnds ==
    \A h \in Handlers :
        /\ (log[h] = "byListener") ~> Gone(h)
        /\ \A l \in Lines :
              (aborted[h] /\ log[h] = "open" /\ pos[h] < l /\ l <= appended)
                  ~> (Gone(h) \/ l <= base)

-----------------------------------------------------------------------------
\* The promise of a handler about the lines that were pushed to its queue: they are
\* posted in that order, and what is left when its loop ends is not posted.
Delivery(h) == INSTANCE OrderedDelivery
    WITH Message <- Lines, First <- <<>>, accepted <- read[h],
         delivered <- sent[h], open <- (place[h] # "ended")
=============================================================================
