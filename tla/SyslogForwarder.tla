--------------------------- MODULE SyslogForwarder ---------------------------
(***************************************************************************)
(* The syslog forwarder of the Go CLI                                      *)
(* (packages/cstream-cli/internal/logforwarder): one Handle goroutine per  *)
(* connection puts records on a bounded channel, one batcher takes them    *)
(* off and posts batches upstream with retries, Close shuts all down.      *)
(***************************************************************************)
EXTENDS Naturals, Sequences, FiniteSets

CONSTANTS
    Conns,         \* connections, each served by one Handle call
    Closers,       \* callers of Close
    Lines,         \* bound: Lines[c] parsable lines come over connection c
    MaxLines,      \* bound: the most that come over any connection
    QueueSize,     \* Config.QueueSize
    BatchSize,     \* Config.BatchSize
    Retries        \* Config.Retries, the posts tried per batch; 0 sets no limit

ASSUME ForwarderAssumption ==
    /\ MaxLines \in Nat /\ Lines \in [Conns -> 0..MaxLines]
    /\ QueueSize \in Nat /\ BatchSize \in Nat /\ Retries \in Nat

VARIABLES
    handler,    \* handler[c]: where the Handle call of c is
    line,       \* line[c]: parsable lines read from c; names c's records
    done,       \* shutdown began: isClosed, shutdownDoneChannel closed,
                \* context cancelled (one region under the mutex)
    closed,     \* parsedLogRecordsChannel is closed
    queue,      \* the records in parsedLogRecordsChannel
    batcher,    \* where run is: in its select, in SendBatch, in a post, gone
    final,      \* is the flush in progress the one after the drain?
    batch,      \* run's batch
    sending,    \* flush's toSend
    attempt,    \* posts begun by the current SendBatch
    closer,     \* closer[k]: where the Close call of k is ("blocked" in
                \* producers.Wait, "waking" when it has been signalled but
                \* the WaitGroup was used again)
    received,   \* received[r]: how often upstream got record r
    accepted,   \* history: the records enqueue returned true for, in order
    settled,    \* history: the records whose SendBatch returned, in order
    lost,       \* history: those of them whose SendBatch returned an error
    atShutdown  \* history: Len(accepted) when shutdown began

connVars == <<handler, line>>
batchVars == <<batcher, final, batch, sending, attempt>>
upstreamVars == <<received, settled, lost>>
closeVars == <<done, closed, closer, atShutdown>>
vars == <<connVars, batchVars, upstreamVars, closeVars, queue, accepted>>

Record == Conns \X Nat
Elements(s) == {s[i] : i \in DOMAIN s}
CloserPlaces ==
    {"new", "waitProducers", "blocked", "waking", "waitBatcher", "returned", "panicked"}

TypeOK ==
    /\ handler \in [Conns -> {"new", "scanning", "enqueueing", "exited"}]
    /\ line \in [Conns -> Nat]
    /\ done \in BOOLEAN /\ closed \in BOOLEAN
    /\ queue \in Seq(Record)
    /\ batcher \in {"select", "sending", "posting", "exited"}
    /\ final \in BOOLEAN
    /\ batch \in Seq(Record) /\ sending \in Seq(Record)
    /\ attempt \in Nat
    /\ closer \in [Closers -> CloserPlaces]
    /\ received \in [Conns \X (1..MaxLines) -> Nat]
    /\ accepted \in Seq(Record) /\ settled \in Seq(Record)
    /\ lost \in SUBSET Record
    /\ atShutdown \in Nat

Init ==
    /\ handler = [c \in Conns |-> "new"]
    /\ line = [c \in Conns |-> 0]
    /\ done = FALSE /\ closed = FALSE
    /\ queue = <<>>
    /\ batcher = "select" /\ final = FALSE
    /\ batch = <<>> /\ sending = <<>> /\ attempt = 0
    /\ closer = [k \in Closers |-> "new"]
    /\ received = [r \in Conns \X (1..MaxLines) |-> 0]
    /\ accepted = <<>> /\ settled = <<>> /\ lost = {}
    /\ atShutdown = 0

\* The WaitGroup `producers`: the Handle calls between Add and Done.
producers == {c \in Conns : handler[c] \in {"scanning", "enqueueing"}}

-----------------------------------------------------------------------------
(* Handle *)

Goto(c, place) == handler' = [handler EXCEPT ![c] = place]

\* A connection may be handed over at any time, also after Close began, and
\* between the last Done and the moment the waiting Close call runs again.
StartHandle(c) ==
    /\ handler[c] = "new"
    /\ Goto(c, "scanning")
    /\ closer' = [k \in Closers |->
                    IF closer[k] = "blocked" /\ producers = {} THEN "waking" ELSE closer[k]]
    /\ UNCHANGED <<line, batchVars, upstreamVars, done, closed, atShutdown, queue, accepted>>

\* Mutant: the shutdown check before enqueue is missing.
ScanUnchecked(c) ==
    /\ handler[c] = "scanning"
    /\ line[c] < Lines[c]
    /\ line' = [line EXCEPT ![c] = @ + 1]
    /\ Goto(c, "enqueueing")
    /\ UNCHANGED <<batchVars, upstreamVars, closeVars, queue, accepted>>

\* scanner.Scan() returned a line; the shutdown check; the line parses.
ScanRecord(c) ==
    /\ handler[c] = "scanning" /\ ~done
    /\ line[c] < Lines[c]
    /\ line' = [line EXCEPT ![c] = @ + 1]
    /\ Goto(c, "enqueueing")
    /\ UNCHANGED <<batchVars, upstreamVars, closeVars, queue, accepted>>

\* The connection ends, or a line is scanned once shutdown began (a line that
\* does not parse is skipped and changes nothing).
EndHandle(c) ==
    /\ handler[c] = "scanning"
    /\ Goto(c, "exited")
    /\ UNCHANGED <<line, batchVars, upstreamVars, closeVars, queue, accepted>>

Item(c) == <<c, line[c]>>

\* enqueue: the send is ready when the buffer has room.
Enqueue(c) ==
    /\ handler[c] = "enqueueing"
    /\ Len(queue) < QueueSize
    /\ queue' = Append(queue, Item(c))
    /\ accepted' = Append(accepted, Item(c))
    /\ Goto(c, "scanning")
    /\ UNCHANGED <<line, batchVars, upstreamVars, closeVars>>

\* enqueue: shutdown is ready too, and select may choose either.
Abandon(c) ==
    /\ handler[c] = "enqueueing" /\ done
    /\ Goto(c, "exited")
    /\ UNCHANGED <<line, batchVars, upstreamVars, closeVars, queue, accepted>>

-----------------------------------------------------------------------------
(* run *)

\* flush of records b (not empty).
Flush(b) ==
    /\ sending' = b
    /\ batch' = <<>>
    /\ batcher' = "sending"

\* Mutant: a record that finds the batch full is dropped with the flush.
TakeDropsLast(record) ==
    IF Len(batch) + 1 >= BatchSize /\ batch # <<>>
    THEN Flush(batch)
    ELSE batch' = Append(batch, record) /\ UNCHANGED <<sending, batcher>>

Take(record) ==
    IF Len(batch) + 1 >= BatchSize
    THEN Flush(Append(batch, record))
    ELSE batch' = Append(batch, record) /\ UNCHANGED <<sending, batcher>>

Receive ==
    /\ batcher = "select" /\ queue # <<>>
    /\ queue' = Tail(queue)
    /\ Take(Head(queue))
    /\ UNCHANGED <<connVars, final, attempt, upstreamVars, closeVars, accepted>>

\* A send meets the waiting batcher (the only way when QueueSize is 0).
Handoff(c) ==
    /\ handler[c] = "enqueueing"
    /\ batcher = "select" /\ queue = <<>>
    /\ Take(Item(c))
    /\ accepted' = Append(accepted, Item(c))
    /\ Goto(c, "scanning")
    /\ UNCHANGED <<line, final, attempt, upstreamVars, closeVars, queue>>

\* Mutant: a tick flushes only a full batch.
TickWhenFull ==
    /\ batcher = "select" /\ batch # <<>> /\ Len(batch) >= BatchSize
    /\ Flush(batch)
    /\ UNCHANGED <<connVars, final, attempt, upstreamVars, closeVars, queue, accepted>>

Tick ==
    /\ batcher = "select" /\ batch # <<>>
    /\ Flush(batch)
    /\ UNCHANGED <<connVars, final, attempt, upstreamVars, closeVars, queue, accepted>>

\* Mutant: the loop goes on after the last flush.
FlushWithoutReturn ==
    /\ batcher = "select" /\ queue = <<>> /\ closed /\ batch # <<>>
    /\ Flush(batch)
    /\ UNCHANGED <<connVars, final, attempt, upstreamVars, closeVars, queue, accepted>>

\* The receive finds the channel closed and empty.
ReceiveClosed ==
    /\ batcher = "select" /\ queue = <<>> /\ closed
    /\ final' = TRUE
    /\ IF batch = <<>> THEN batcher' = "exited" /\ UNCHANGED <<batch, sending>>
                       ELSE Flush(batch)
    /\ UNCHANGED <<connVars, attempt, upstreamVars, closeVars, queue, accepted>>

(* SendBatch: posts with the forwarder's context until one succeeds, the   *)
(* tries are used up (WithMaxTries(0) sets no limit), backoff's own time   *)
(* limit passes or the context is cancelled.  A post begun under a         *)
(* cancelled context fails at once.                                        *)

\* Mutant: one post too many.
BeginPostAgain ==
    /\ batcher = "sending" /\ ~done /\ (Retries = 0 \/ attempt <= Retries)
    /\ batcher' = "posting"
    /\ attempt' = attempt + 1
    /\ UNCHANGED <<connVars, final, batch, sending, upstreamVars, closeVars, queue, accepted>>

BeginPost ==
    /\ batcher = "sending" /\ ~done /\ (Retries = 0 \/ attempt < Retries)
    /\ batcher' = "posting"
    /\ attempt' = attempt + 1
    /\ UNCHANGED <<connVars, final, batch, sending, upstreamVars, closeVars, queue, accepted>>

UpstreamGets == received' = [r \in DOMAIN received |->
                    received[r] + IF r \in Elements(sending) THEN 1 ELSE 0]

Settle ==
    /\ settled' = settled \o sending
    /\ sending' = <<>>
    /\ attempt' = 0
    /\ batcher' = IF final THEN "exited" ELSE "select"

PostSucceeds ==
    /\ batcher = "posting"
    /\ UpstreamGets
    /\ Settle
    /\ UNCHANGED <<connVars, final, batch, lost, closeVars, queue, accepted>>

\* Upstream refuses it, does not get it, or gets it and its answer is lost.
PostFails ==
    /\ batcher = "posting"
    /\ UpstreamGets \/ UNCHANGED received
    /\ batcher' = "sending"
    /\ UNCHANGED <<connVars, final, batch, sending, attempt, settled, lost, closeVars, queue, accepted>>

\* SendBatch returns an error: it is printed and the batch is gone.
GiveUp ==
    /\ batcher = "sending" /\ (done \/ attempt > 0)
    /\ lost' = lost \cup Elements(sending)
    /\ Settle
    /\ UNCHANGED <<connVars, final, batch, received, closeVars, queue, accepted>>

-----------------------------------------------------------------------------
(* Close *)

BeginClose(k) ==
    /\ closer[k] = "new"
    /\ \/ /\ done
          /\ closer' = [closer EXCEPT ![k] = "returned"]
          /\ UNCHANGED <<done, atShutdown>>
       \/ /\ ~done
          /\ done' = TRUE
          /\ atShutdown' = Len(accepted)
          /\ closer' = [closer EXCEPT ![k] = "waitProducers"]
    /\ UNCHANGED <<connVars, batchVars, upstreamVars, closed, queue, accepted>>

BlockOnProducers(k) ==
    /\ closer[k] = "waitProducers" /\ producers # {}
    /\ closer' = [closer EXCEPT ![k] = "blocked"]
    /\ UNCHANGED <<connVars, batchVars, upstreamVars, done, closed, atShutdown, queue, accepted>>

\* A Wait that returns to a WaitGroup in use panics ("reused before previous
\* Wait has returned").
WakeToReuse(k) ==
    /\ closer[k] = "waking" /\ producers # {}
    /\ closer' = [closer EXCEPT ![k] = "panicked"]
    /\ UNCHANGED <<connVars, batchVars, upstreamVars, done, closed, atShutdown, queue, accepted>>

CloseChannel(k) ==
    /\ closer[k] \in {"waitProducers", "blocked", "waking"} /\ producers = {}
    /\ closed' = TRUE
    /\ closer' = [closer EXCEPT ![k] = "waitBatcher"]
    /\ UNCHANGED <<connVars, batchVars, upstreamVars, done, atShutdown, queue, accepted>>

ReturnClose(k) ==
    /\ closer[k] = "waitBatcher" /\ batcher = "exited"
    /\ closer' = [closer EXCEPT ![k] = "returned"]
    /\ UNCHANGED <<connVars, batchVars, upstreamVars, done, closed, atShutdown, queue, accepted>>

-----------------------------------------------------------------------------
HandleStep(c) ==
    ScanRecord(c) \/ EndHandle(c) \/ Enqueue(c) \/ Handoff(c) \/ Abandon(c)

BatcherStep ==
    \/ Receive \/ Tick \/ ReceiveClosed
    \/ BeginPost \/ PostSucceeds \/ PostFails \/ GiveUp

CloseStep(k) ==
    \/ BeginClose(k) \/ BlockOnProducers(k) \/ WakeToReuse(k)
    \/ CloseChannel(k) \/ ReturnClose(k)

\* A panic in any goroutine ends the whole program.
Panicked == \E k \in Closers : closer[k] = "panicked"

Next ==
    /\ ~Panicked
    /\ \/ \E c \in Conns : StartHandle(c) \/ HandleStep(c)
       \/ BatcherStep
       \/ \E k \in Closers : CloseStep(k)

\* Goroutines that can run are run (it is enough that some handler is), the
\* ticker ticks, a post ends one way or the other, and select does not pass
\* over a ready case forever.  (With Retries = 0, that posting ends is up to
\* backoff's own time limit, which is not stated here.)  Nothing makes a peer
\* send a line or hang up, or anybody call Close.
Fairness ==
    /\ WF_vars(~Panicked /\ \E c \in Conns : Abandon(c))
    /\ SF_vars(~Panicked /\ \E c \in Conns : Enqueue(c) \/ Handoff(c))
    /\ WF_vars(~Panicked /\ BatcherStep)
    /\ SF_vars(~Panicked /\ Tick)
    /\ WF_vars(~Panicked /\ \E k \in Closers : CloseChannel(k) \/ ReturnClose(k))

Spec == Init /\ [][Next]_vars /\ Fairness

-----------------------------------------------------------------------------
(* Properties *)

\* Nobody is at a send on the channel once it is closed (that send would
\* panic), also when a connection is handed over during or after Close: the
\* WaitGroup and the shutdown check of Handle together guarantee it.
NeverSendOnClosed == closed => \A c \in Conns : handler[c] # "enqueueing"

\* Whatever was accepted is, in order and once, settled, being sent, batched
\* or queued: no step of the pipeline loses, repeats or reorders a record.
NothingVanishes == settled \o sending \o batch \o queue = accepted

\* When the batcher is gone (only then does the Close call that shut the
\* forwarder down return), every record that was ever accepted has been taken
\* to SendBatch and SendBatch has returned, and none will be accepted later.
CloseDrains ==
    batcher = "exited" => (settled = accepted /\ closed)

\* A connection adds at most one record after shutdown began, the one it had
\* already checked when it began.
AtMostOneLateRecord ==
    done => \A i, j \in (atShutdown + 1)..Len(accepted) :
                accepted[i][1] = accepted[j][1] => i = j

\* Whatever answers are lost and posts repeated: upstream has nothing of a record
\* that SendBatch was not given yet, has a record that is being sent at most once
\* for each post of its batch so far, has every settled one whose batch was not
\* reported as failed, and has none more often than Retries, if that is a limit.
DeliveryBounds ==
    \A r \in DOMAIN received :
        /\ r \notin Elements(settled) \cup Elements(sending) => received[r] = 0
        /\ r \in Elements(sending) => received[r] <= attempt
        /\ r \in Elements(settled) \ lost => received[r] >= 1
        /\ Retries > 0 => received[r] <= Retries

\* Every accepted record is eventually settled, without waiting for a full
\* batch and without a shutdown: whenever the peers pause, nothing stays back.
EventuallySettled == []<>(settled = accepted \/ Panicked)

\* Close ends, and the batcher with it, if no peer leaves its Handle call in
\* scanner.Scan forever (an idle one does) and no connection is handed over in
\* the middle of Close's wake-up.
CloseTerminates ==
    (\A c \in Conns : []<>(handler[c] # "scanning"))
        => (done ~> (batcher = "exited" \/ Panicked))

-----------------------------------------------------------------------------
\* The promise of the forwarder: accepted by enqueue means given to SendBatch, in
\* the same order, before the batcher goes.
Delivery == INSTANCE OrderedDelivery
    WITH Message <- Conns \X (1..MaxLines), First <- <<>>,
         delivered <- settled, open <- (batcher # "exited")
=============================================================================
