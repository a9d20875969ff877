------------------------ MODULE SyslogForwarderProofs ------------------------
(***************************************************************************)
(* TLAPS proofs about SyslogForwarder, for any connections, closers, queue *)
(* and batch sizes.                                                        *)
(***************************************************************************)
EXTENDS SyslogForwarder, SequenceTheorems, TLAPS

LEMMA ItemType ==
    ASSUME TypeOK, NEW c \in Conns
    PROVE  Item(c) \in Record
BY DEF TypeOK, Item, Record

LEMMA ElementsType ==
    ASSUME NEW s \in Seq(Record)
    PROVE  Elements(s) \in SUBSET Record
BY DEF Elements

\* Taking a record off the channel, by either way, keeps the types.
LEMMA TakeType ==
    ASSUME TypeOK, NEW record \in Record, Take(record)
    PROVE  /\ batch' \in Seq(Record) /\ sending' \in Seq(Record)
           /\ batcher' \in {"select", "sending", "posting", "exited"}
<1>1. Append(batch, record) \in Seq(Record) /\ <<>> \in Seq(Record)
  BY AppendProperties, EmptySeq DEF TypeOK
<1>2. CASE Flush(Append(batch, record))
  BY <1>1, <1>2 DEF Flush
<1>3. CASE batch' = Append(batch, record) /\ UNCHANGED <<sending, batcher>>
  BY <1>1, <1>3 DEF TypeOK
<1>4. QED
  BY <1>2, <1>3 DEF Take

LEMMA SettleType ==
    ASSUME TypeOK, Settle
    PROVE  /\ settled' \in Seq(Record) /\ sending' \in Seq(Record)
           /\ attempt' \in Nat
           /\ batcher' \in {"select", "sending", "posting", "exited"}
BY DEF TypeOK, Settle

LEMMA UpstreamGetsType ==
    ASSUME TypeOK, UpstreamGets
    PROVE  received' \in [Conns \X (1..MaxLines) -> Nat]
BY DEF TypeOK, UpstreamGets

LEMMA HandlerType ==
    ASSUME TypeOK, NEW c \in Conns,
           StartHandle(c) \/ HandleStep(c)
    PROVE  TypeOK'
<1>1. CASE StartHandle(c)
  BY <1>1 DEF StartHandle, Goto, TypeOK, CloserPlaces, batchVars, upstreamVars
<1>2. CASE ScanRecord(c)
  BY <1>2 DEF ScanRecord, Goto, TypeOK, batchVars, upstreamVars, closeVars
<1>3. CASE EndHandle(c)
  BY <1>3 DEF EndHandle, Goto, TypeOK, batchVars, upstreamVars, closeVars
<1>4. CASE Enqueue(c)
  BY <1>4, ItemType DEF Enqueue, Goto, TypeOK, batchVars, upstreamVars, closeVars
<1>5. CASE Handoff(c)
  BY <1>5, ItemType, TakeType DEF Handoff, Goto, TypeOK, upstreamVars, closeVars
<1>6. CASE Abandon(c)
  BY <1>6 DEF Abandon, Goto, TypeOK, batchVars, upstreamVars, closeVars
<1>7. QED
  BY <1>1, <1>2, <1>3, <1>4, <1>5, <1>6 DEF HandleStep

LEMMA BatcherType ==
    ASSUME TypeOK, BatcherStep
    PROVE  TypeOK'
<1>1. CASE Receive
  <2>1. Head(queue) \in Record /\ Tail(queue) \in Seq(Record)
    BY <1>1 DEF Receive, TypeOK
  <2>2. QED
    BY <1>1, <2>1, TakeType DEF Receive, TypeOK, connVars, upstreamVars, closeVars
<1>2. CASE Tick
  BY <1>2 DEF Tick, Flush, TypeOK, connVars, upstreamVars, closeVars
<1>3. CASE ReceiveClosed
  BY <1>3 DEF ReceiveClosed, Flush, TypeOK, connVars, upstreamVars, closeVars
<1>4. CASE BeginPost
  BY <1>4 DEF BeginPost, TypeOK, connVars, upstreamVars, closeVars
<1>5. CASE PostSucceeds
  BY <1>5, SettleType, UpstreamGetsType DEF PostSucceeds, TypeOK, connVars, closeVars
<1>6. CASE PostFails
  BY <1>6, UpstreamGetsType DEF PostFails, TypeOK, connVars, closeVars
<1>7. CASE GiveUp
  BY <1>7, SettleType, ElementsType DEF GiveUp, TypeOK, connVars, closeVars
<1>8. QED
  BY <1>1, <1>2, <1>3, <1>4, <1>5, <1>6, <1>7 DEF BatcherStep

LEMMA CloserType ==
    ASSUME TypeOK, NEW k \in Closers, CloseStep(k)
    PROVE  TypeOK'
<1>1. CASE BeginClose(k)
  <2>1. Len(accepted) \in Nat
    BY DEF TypeOK
  <2>2. QED
    BY <1>1, <2>1 DEF BeginClose, TypeOK, CloserPlaces, connVars, batchVars, upstreamVars
<1>2. CASE CloseChannel(k)
  BY <1>2 DEF CloseChannel, TypeOK, CloserPlaces, connVars, batchVars, upstreamVars
<1>3. CASE ReturnClose(k)
  BY <1>3 DEF ReturnClose, TypeOK, CloserPlaces, connVars, batchVars, upstreamVars
<1>4. CASE BlockOnProducers(k) \/ WakeToReuse(k)
  BY <1>4 DEF BlockOnProducers, WakeToReuse, TypeOK, CloserPlaces, connVars,
     batchVars, upstreamVars
<1>5. QED
  BY <1>1, <1>2, <1>3, <1>4 DEF CloseStep

\* Every variable keeps its type.
THEOREM TypeCorrect == Spec => []TypeOK
<1>1. Init => TypeOK
  <2> SUFFICES ASSUME Init
               PROVE  TypeOK
    OBVIOUS
  <2>1. <<>> \in Seq(Record)
    BY EmptySeq
  <2>2. /\ queue \in Seq(Record) /\ batch \in Seq(Record) /\ sending \in Seq(Record)
        /\ accepted \in Seq(Record) /\ settled \in Seq(Record)
    BY <2>1 DEF Init
  <2>3. received \in [Conns \X (1..MaxLines) -> Nat]
    BY DEF Init
  <2>4. QED
    BY <2>2, <2>3 DEF Init, TypeOK, CloserPlaces
<1>2. TypeOK /\ [Next]_vars => TypeOK'
  <2>1. CASE UNCHANGED vars
    BY <2>1 DEF vars, connVars, batchVars, upstreamVars, closeVars, TypeOK
  <2>2. QED
    BY <2>1, HandlerType, BatcherType, CloserType DEF Next
<1>3. QED
  BY <1>1, <1>2, PTL DEF Spec

-----------------------------------------------------------------------------
(* The channel is never sent on once it is closed.                         *)

\* Close closes the channel only after it announced the shutdown, and then no
\* Handle call can get to its send any more.
ChannelInv ==
    /\ \A k \in Closers :
          closer[k] \in {"waitProducers", "blocked", "waking", "waitBatcher"} => done
    /\ closed => done
    /\ NeverSendOnClosed

LEMMA ChannelInvInductive == TypeOK /\ ChannelInv /\ [Next]_vars => ChannelInv'
<1> SUFFICES ASSUME TypeOK, ChannelInv, [Next]_vars
             PROVE  ChannelInv'
  OBVIOUS
<1> USE DEF TypeOK, ChannelInv, NeverSendOnClosed
<1>1. ASSUME NEW c \in Conns, StartHandle(c) \/ HandleStep(c)
      PROVE  ChannelInv'
  <2>1. /\ UNCHANGED <<done, closed>>
        /\ \A k \in Closers : closer'[k] = closer[k]
              \/ (closer[k] = "blocked" /\ closer'[k] = "waking")
    BY <1>1 DEF StartHandle, HandleStep, ScanRecord, EndHandle, Enqueue,
       Handoff, Abandon, closeVars
  <2>2. ASSUME closed, NEW d \in Conns
        PROVE  handler'[d] # "enqueueing"
    BY <1>1, <2>2 DEF StartHandle, HandleStep, ScanRecord, EndHandle,
       Enqueue, Handoff, Abandon, Goto
  <2>3. QED
    BY <2>1, <2>2
<1>2. CASE BatcherStep
  BY <1>2 DEF BatcherStep, Receive, Tick, ReceiveClosed, BeginPost, PostSucceeds,
     PostFails, GiveUp, connVars, closeVars
<1>3. ASSUME NEW k \in Closers, BeginClose(k)
      PROVE  ChannelInv'
  BY <1>3 DEF BeginClose, connVars
<1>4. ASSUME NEW k \in Closers, CloseChannel(k)
      PROVE  ChannelInv'
  BY <1>4 DEF CloseChannel, connVars, producers
<1>5. ASSUME NEW k \in Closers, ReturnClose(k)
      PROVE  ChannelInv'
  BY <1>5 DEF ReturnClose, connVars
<1>6. ASSUME NEW k \in Closers, BlockOnProducers(k) \/ WakeToReuse(k)
      PROVE  ChannelInv'
  BY <1>6 DEF BlockOnProducers, WakeToReuse, connVars
<1>7. CASE UNCHANGED vars
  BY <1>7 DEF vars, connVars, closeVars
<1>8. QED
  BY <1>1, <1>2, <1>3, <1>4, <1>5, <1>6, <1>7 DEF Next, CloseStep

LEMMA ChannelInvHolds == Spec => []ChannelInv
<1>1. Init => ChannelInv
  BY DEF Init, ChannelInv, NeverSendOnClosed
<1>2. QED
  BY <1>1, TypeCorrect, ChannelInvInductive, PTL DEF Spec

\* Whatever connections arrive before, during or after Close, and however many
\* callers Close has, no Handle call sends on the closed channel.
THEOREM NoSendOnClosed == Spec => []NeverSendOnClosed
<1>1. ChannelInv => NeverSendOnClosed
  BY DEF ChannelInv
<1>2. QED
  BY <1>1, ChannelInvHolds, PTL

-----------------------------------------------------------------------------
(* Nothing accepted vanishes.                                              *)

\* flush empties the batch into toSend, which SendBatch empties again; the
\* final flush comes when no record can be accepted or queued any more.
PipelineInv ==
    /\ NothingVanishes
    /\ batcher \in {"select", "exited"} => sending = <<>>
    /\ final => (closed /\ queue = <<>> /\ batch = <<>> /\ batcher # "select")
    /\ batcher = "exited" => final

\* A record taken off the channel is the last of those in run's hands.
LEMMA TakeOrder ==
    ASSUME TypeOK, NEW record \in Record, Take(record), sending = <<>>
    PROVE  sending' \o batch' = Append(batch, record)
<1>1. Append(batch, record) \in Seq(Record)
  BY AppendProperties DEF TypeOK
<1>2. CASE Flush(Append(batch, record))
  BY <1>1, <1>2, ConcatEmptySeq DEF Flush
<1>3. CASE batch' = Append(batch, record) /\ UNCHANGED <<sending, batcher>>
  BY <1>1, <1>3, ConcatEmptySeq
<1>4. QED
  BY <1>2, <1>3 DEF Take

\* With nothing being sent the pipeline is what is settled, batched, queued.
LEMMA IdlePipeline ==
    ASSUME TypeOK, PipelineInv, batcher = "select"
    PROVE  sending = <<>> /\ ~final /\ accepted = (settled \o batch) \o queue
<1>1. sending = <<>> /\ ~final
  BY DEF PipelineInv
<1>2. settled \o sending = settled
  BY <1>1, ConcatEmptySeq DEF TypeOK
<1>3. QED
  BY <1>1, <1>2 DEF PipelineInv, NothingVanishes

\* Taking `record` extends the settled and batched records by it.
LEMMA TakePipeline ==
    ASSUME TypeOK, PipelineInv, batcher = "select",
           NEW record \in Record, Take(record), settled' = settled
    PROVE  (settled' \o sending') \o batch' = (settled \o batch) \o <<record>>
<1>1. sending = <<>>
  BY DEF PipelineInv
<1>2. sending' \o batch' = batch \o <<record>>
  BY <1>1, TakeOrder, AppendIsConcat DEF TypeOK
<1>3. /\ sending' \in Seq(Record) /\ batch' \in Seq(Record)
      /\ settled \in Seq(Record) /\ batch \in Seq(Record) /\ <<record>> \in Seq(Record)
  BY TakeType DEF TypeOK
<1>4. (settled \o sending') \o batch' = settled \o (sending' \o batch')
  BY <1>3, ConcatAssociative
<1>5. settled \o (batch \o <<record>>) = (settled \o batch) \o <<record>>
  BY <1>3, ConcatAssociative
<1>6. QED
  BY <1>2, <1>4, <1>5

LEMMA ReceivePipeline ==
    ASSUME TypeOK, PipelineInv, Receive
    PROVE  NothingVanishes'
<1> DEFINE front == settled \o batch
           first == <<Head(queue)>>
           rest  == Tail(queue)
<1>1. /\ Head(queue) \in Record /\ rest \in Seq(Record)
      /\ queue = first \o rest
  BY HeadTailProperties DEF Receive, TypeOK
<1>2. (settled' \o sending') \o batch' = front \o first
  BY <1>1, TakePipeline DEF Receive, upstreamVars
<1>3. front \in Seq(Record) /\ first \in Seq(Record)
  BY <1>1, ConcatProperties DEF TypeOK
<1>4. (front \o first) \o rest = front \o (first \o rest)
  <2> HIDE DEF front, first, rest
  <2>1. QED
    BY <1>1, <1>3, ConcatAssociative
<1>5. accepted = front \o queue
  BY IdlePipeline DEF Receive
<1>6. QED
  BY <1>1, <1>2, <1>4, <1>5 DEF Receive, NothingVanishes

LEMMA HandoffPipeline ==
    ASSUME TypeOK, PipelineInv, NEW c \in Conns, Handoff(c)
    PROVE  NothingVanishes'
<1>1. Item(c) \in Record
  BY ItemType
<1>2. (settled' \o sending') \o batch' = (settled \o batch) \o <<Item(c)>>
  BY <1>1, TakePipeline DEF Handoff, upstreamVars
<1>3. settled \o batch \in Seq(Record)
  BY ConcatProperties DEF TypeOK
<1>4. accepted = settled \o batch
  BY <1>3, IdlePipeline, ConcatEmptySeq DEF Handoff
<1>5. accepted' = accepted \o <<Item(c)>>
  BY <1>1, AppendIsConcat DEF Handoff, TypeOK
<1>6. accepted' \in Seq(Record)
  BY <1>1, AppendProperties DEF Handoff, TypeOK
<1>7. accepted' \o <<>> = accepted'
  BY <1>6, ConcatEmptySeq
<1>8. queue' = <<>>
  BY DEF Handoff
<1>9. QED
  BY <1>2, <1>4, <1>5, <1>7, <1>8 DEF NothingVanishes

LEMMA EnqueuePipeline ==
    ASSUME TypeOK, PipelineInv, NEW c \in Conns, Enqueue(c)
    PROVE  NothingVanishes'
<1> DEFINE front == (settled \o sending) \o batch
<1>1. Item(c) \in Record
  BY ItemType
<1>2. front \in Seq(Record)
  BY ConcatProperties DEF TypeOK
<1>3. front' = front
  BY DEF Enqueue, batchVars, upstreamVars
<1>4. queue' = queue \o <<Item(c)>> /\ accepted' = accepted \o <<Item(c)>>
  BY <1>1, AppendIsConcat DEF Enqueue, TypeOK
<1>5. accepted = front \o queue
  BY DEF PipelineInv, NothingVanishes
<1>6. (front \o queue) \o <<Item(c)>> = front \o (queue \o <<Item(c)>>)
  <2>1. queue \in Seq(Record) /\ <<Item(c)>> \in Seq(Record)
    BY <1>1 DEF TypeOK
  <2> HIDE DEF front
  <2>2. QED
    BY <1>2, <2>1, ConcatAssociative
<1>7. QED
  BY <1>3, <1>4, <1>5, <1>6 DEF NothingVanishes

\* flush of run's batch, on a tick or when the channel is found closed.
LEMMA FlushPipeline ==
    ASSUME TypeOK, PipelineInv, batcher = "select", Flush(batch),
           UNCHANGED <<settled, queue, accepted>>
    PROVE  NothingVanishes'
<1>1. settled \o batch \in Seq(Record)
  BY ConcatProperties DEF TypeOK
<1>2. (settled \o batch) \o <<>> = settled \o batch
  BY <1>1, ConcatEmptySeq
<1>3. QED
  BY <1>2, IdlePipeline DEF Flush, NothingVanishes

LEMMA SettlePipeline ==
    ASSUME TypeOK, PipelineInv, Settle, UNCHANGED <<batch, queue, accepted>>
    PROVE  NothingVanishes'
<1>1. settled \o sending \in Seq(Record)
  BY ConcatProperties DEF TypeOK
<1>2. (settled \o sending) \o <<>> = settled \o sending
  BY <1>1, ConcatEmptySeq
<1>3. QED
  BY <1>2 DEF Settle, PipelineInv, NothingVanishes

LEMMA PipelineInvInductive ==
    TypeOK /\ ChannelInv /\ PipelineInv /\ [Next]_vars => PipelineInv'
<1> SUFFICES ASSUME TypeOK, ChannelInv, PipelineInv, [Next]_vars
             PROVE  PipelineInv'
  OBVIOUS
<1>1. ASSUME NEW c \in Conns,
             StartHandle(c) \/ ScanRecord(c) \/ EndHandle(c) \/ Abandon(c)
      PROVE  PipelineInv'
  <2>1. UNCHANGED <<batchVars, settled, closed, queue, accepted>>
    BY <1>1 DEF StartHandle, ScanRecord, EndHandle, Abandon, upstreamVars, closeVars
  <2>2. QED
    BY <2>1 DEF batchVars, PipelineInv, NothingVanishes
<1>2. ASSUME NEW c \in Conns, Enqueue(c)
      PROVE  PipelineInv'
  <2>1. ~closed
    BY <1>2 DEF Enqueue, ChannelInv, NeverSendOnClosed
  <2>2. QED
    BY <1>2, <2>1, EnqueuePipeline DEF Enqueue, batchVars, closeVars, PipelineInv
<1>3. ASSUME NEW c \in Conns, Handoff(c)
      PROVE  PipelineInv'
  <2>1. ~final /\ batcher = "select" /\ sending = <<>>
    BY <1>3, IdlePipeline DEF Handoff
  <2>2. batcher' # "select" \/ sending' = <<>>
    BY <1>3, <2>1 DEF Handoff, Take, Flush
  <2>3. batcher' # "exited"
    BY <1>3, <2>1 DEF Handoff, Take, Flush
  <2>4. QED
    BY <1>3, <2>1, <2>2, <2>3, HandoffPipeline DEF Handoff, PipelineInv
<1>4. CASE Receive
  <2>1. ~final /\ batcher = "select" /\ sending = <<>>
    BY <1>4, IdlePipeline DEF Receive
  <2>2. (batcher' # "select" \/ sending' = <<>>) /\ batcher' # "exited"
    BY <1>4, <2>1 DEF Receive, Take, Flush
  <2>3. QED
    BY <1>4, <2>1, <2>2, ReceivePipeline DEF Receive, PipelineInv
<1>5. CASE Tick
  <2>1. ~final /\ NothingVanishes'
    BY <1>5, IdlePipeline, FlushPipeline DEF Tick, upstreamVars
  <2>2. QED
    BY <1>5, <2>1 DEF Tick, Flush, PipelineInv
<1>6. CASE ReceiveClosed
  <2>1. CASE batch = <<>> /\ batcher' = "exited" /\ UNCHANGED <<batch, sending>>
    BY <1>6, <2>1, IdlePipeline DEF ReceiveClosed, upstreamVars, closeVars,
       PipelineInv, NothingVanishes
  <2>2. CASE Flush(batch)
    <3>1. NothingVanishes'
      BY <1>6, <2>2, FlushPipeline DEF ReceiveClosed, upstreamVars
    <3>2. QED
      BY <1>6, <2>2, <3>1 DEF ReceiveClosed, Flush, closeVars, PipelineInv
  <2>3. QED
    BY <1>6, <2>1, <2>2 DEF ReceiveClosed
<1>7. CASE BeginPost \/ PostFails
  <2>1. /\ UNCHANGED <<settled, sending, batch, queue, accepted, final, closed>>
        /\ batcher' \in {"posting", "sending"} /\ batcher # "select"
    BY <1>7 DEF BeginPost, PostFails, upstreamVars, closeVars
  <2>2. NothingVanishes'
    BY <2>1 DEF PipelineInv, NothingVanishes
  <2>3. QED
    BY <2>1, <2>2 DEF PipelineInv
<1>8. CASE PostSucceeds \/ GiveUp
  <2>1. Settle /\ UNCHANGED <<batch, queue, accepted, final, closed>>
    BY <1>8 DEF PostSucceeds, GiveUp, closeVars
  <2>2. NothingVanishes'
    BY <2>1, SettlePipeline
  <2>3. QED
    BY <2>1, <2>2 DEF Settle, PipelineInv
<1>9. ASSUME NEW k \in Closers, CloseStep(k)
      PROVE  PipelineInv'
  <2>1. UNCHANGED <<batchVars, upstreamVars, queue, accepted>> /\ (closed => closed')
    BY <1>9 DEF CloseStep, BeginClose, BlockOnProducers, WakeToReuse, CloseChannel,
       ReturnClose
  <2>2. QED
    BY <2>1 DEF batchVars, upstreamVars, PipelineInv, NothingVanishes
<1>10. CASE UNCHANGED vars
  BY <1>10 DEF vars, batchVars, upstreamVars, closeVars, PipelineInv, NothingVanishes
<1>11. QED
  BY <1>1, <1>2, <1>3, <1>4, <1>5, <1>6, <1>7, <1>8, <1>9, <1>10
     DEF Next, HandleStep, BatcherStep

LEMMA PipelineInvHolds == Spec => []PipelineInv
<1>1. Init => PipelineInv
  <2>1. <<>> \in Seq(Record)
    BY EmptySeq
  <2>2. <<>> \o <<>> = <<>>
    BY <2>1, ConcatEmptySeq
  <2> SUFFICES ASSUME Init
               PROVE  PipelineInv
    OBVIOUS
  <2>3. ((settled \o sending) \o batch) \o queue = accepted
    BY <2>2, Zenon DEF Init
  <2>4. QED
    BY <2>3 DEF Init, PipelineInv, NothingVanishes
<1>2. QED
  BY <1>1, TypeCorrect, ChannelInvHolds, PipelineInvInductive, PTL DEF Spec

\* For any sizes of queue and batch, at every moment the accepted records are,
\* in order and once each, those settled, being sent, batched and queued.
THEOREM NoRecordVanishes == Spec => []NothingVanishes
<1>1. PipelineInv => NothingVanishes
  BY DEF PipelineInv
<1>2. QED
  BY <1>1, PipelineInvHolds, PTL

\* When the batcher is gone every accepted record has been through SendBatch.
THEOREM ClosedMeansDrained == Spec => []CloseDrains
<1>1. TypeOK /\ PipelineInv => CloseDrains
  <2> SUFFICES ASSUME TypeOK, PipelineInv, batcher = "exited"
               PROVE  settled = accepted /\ closed
    BY DEF CloseDrains
  <2>1. closed /\ queue = <<>> /\ batch = <<>> /\ sending = <<>>
    BY DEF PipelineInv
  <2>2. settled \o <<>> = settled
    BY ConcatEmptySeq DEF TypeOK
  <2>3. QED
    BY <2>1, <2>2 DEF PipelineInv, NothingVanishes
<1>2. QED
  BY <1>1, TypeCorrect, PipelineInvHolds, PTL

-----------------------------------------------------------------------------
(* After shutdown began a connection adds at most the record it had         *)
(* already checked.                                                         *)

Late == (atShutdown + 1)..Len(accepted)

\* A Handle call that is still at its send has added none: nobody gets to the
\* send any more.
LateInv ==
    done =>
        /\ AtMostOneLateRecord
        /\ \A c \in Conns : handler[c] = "enqueueing" => \A i \in Late : accepted[i][1] # c

LEMMA AcceptLate ==
    ASSUME TypeOK, LateInv, NEW c \in Conns, handler[c] = "enqueueing",
           accepted' = Append(accepted, Item(c)), Goto(c, "scanning"),
           UNCHANGED <<done, atShutdown>>
    PROVE  LateInv'
<1> SUFFICES ASSUME done
             PROVE  /\ AtMostOneLateRecord'
                    /\ \A d \in Conns : handler'[d] = "enqueueing" =>
                          \A i \in Late' : accepted'[i][1] # d
  BY DEF LateInv
<1>1. /\ Len(accepted) \in Nat /\ Len(accepted') = Len(accepted) + 1
      /\ \A i \in 1..Len(accepted) : accepted'[i] = accepted[i]
      /\ accepted'[Len(accepted) + 1] = Item(c)
  BY ItemType DEF TypeOK
<1>2. Item(c)[1] = c
  BY DEF Item
<1>3. ASSUME NEW i \in Late'
      PROVE  \/ i \in Late /\ accepted'[i] = accepted[i]
             \/ i = Len(accepted) + 1 /\ accepted'[i][1] = c
  BY <1>1, <1>2 DEF Late, TypeOK
<1>4. \A i \in Late : accepted[i][1] # c
  BY DEF LateInv
<1>5. \A i, j \in Late : accepted[i][1] = accepted[j][1] => i = j
  BY DEF LateInv, AtMostOneLateRecord, Late
<1>6. \A i, j \in Late' : accepted'[i][1] = accepted'[j][1] => i = j
  BY <1>3, <1>4, <1>5
<1>7. AtMostOneLateRecord'
  BY <1>6 DEF AtMostOneLateRecord, Late
<1>8. ASSUME NEW d \in Conns, handler'[d] = "enqueueing", NEW i \in Late'
      PROVE  accepted'[i][1] # d
  <2>1. d # c /\ handler[d] = "enqueueing"
    BY <1>8 DEF Goto, TypeOK
  <2>2. QED
    BY <1>3, <2>1 DEF LateInv
<1>9. QED
  BY <1>7, <1>8

LEMMA LateInvInductive == TypeOK /\ LateInv /\ [Next]_vars => LateInv'
<1> SUFFICES ASSUME TypeOK, LateInv, [Next]_vars
             PROVE  LateInv'
  OBVIOUS
<1>1. ASSUME UNCHANGED <<done, atShutdown, accepted>>,
             \A c \in Conns : (done /\ handler'[c] = "enqueueing") => handler[c] = "enqueueing"
      PROVE  LateInv'
  <2>1. Late' = Late /\ (AtMostOneLateRecord => AtMostOneLateRecord')
    BY <1>1 DEF Late, AtMostOneLateRecord
  <2>2. QED
    BY <1>1, <2>1 DEF LateInv
<1>2. ASSUME NEW c \in Conns, StartHandle(c) \/ ScanRecord(c) \/ EndHandle(c) \/ Abandon(c)
      PROVE  LateInv'
  <2>1. UNCHANGED <<done, atShutdown, accepted>>
    BY <1>2 DEF StartHandle, ScanRecord, EndHandle, Abandon, closeVars
  <2>2. ASSUME NEW d \in Conns, done, handler'[d] = "enqueueing"
        PROVE  handler[d] = "enqueueing"
    BY <1>2, <2>2 DEF StartHandle, ScanRecord, EndHandle, Abandon, Goto, TypeOK
  <2>3. QED
    BY <1>1, <2>1, <2>2
<1>3. ASSUME NEW c \in Conns, Enqueue(c) \/ Handoff(c)
      PROVE  LateInv'
  BY <1>3, AcceptLate DEF Enqueue, Handoff, closeVars
<1>4. CASE BatcherStep
  <2>1. UNCHANGED <<done, atShutdown, accepted, handler>>
    BY <1>4 DEF BatcherStep, Receive, Tick, ReceiveClosed, BeginPost, PostSucceeds,
       PostFails, GiveUp, connVars, closeVars
  <2>2. QED
    BY <1>1, <2>1
<1>5. ASSUME NEW k \in Closers, CloseStep(k)
      PROVE  LateInv'
  <2>1. UNCHANGED <<accepted, handler>>
    BY <1>5 DEF CloseStep, BeginClose, BlockOnProducers, WakeToReuse, CloseChannel,
       ReturnClose, connVars
  <2>2. CASE UNCHANGED <<done, atShutdown>>
    BY <1>1, <2>1, <2>2
  <2>3. CASE atShutdown' = Len(accepted)
    <3>1. Late' = {}
      BY <2>1, <2>3 DEF Late, TypeOK
    <3>2. QED
      BY <3>1 DEF LateInv, AtMostOneLateRecord, Late
  <2>4. QED
    BY <1>5, <2>2, <2>3 DEF CloseStep, BeginClose, BlockOnProducers, WakeToReuse,
       CloseChannel, ReturnClose
<1>6. CASE UNCHANGED vars
  BY <1>1, <1>6 DEF vars, connVars, closeVars
<1>7. QED
  BY <1>2, <1>3, <1>4, <1>5, <1>6 DEF Next, HandleStep

\* For any connections and closers: once shutdown began a connection adds at
\* most one record, however late it is handed over.
THEOREM OneLateRecord == Spec => []AtMostOneLateRecord
<1>1. Init => LateInv
  BY DEF Init, LateInv
<1>2. LateInv => AtMostOneLateRecord
  BY DEF LateInv, AtMostOneLateRecord
<1>3. QED
  BY <1>1, <1>2, TypeCorrect, LateInvInductive, PTL DEF Spec

-----------------------------------------------------------------------------
(* How often a record reaches upstream.                                    *)

\* Records are accepted once: a connection's lines are numbered as they come,
\* and the one a Handle call is about to send is its last.
Numbered ==
    /\ \A c \in Conns : /\ line[c] <= Lines[c]
                        /\ handler[c] = "enqueueing" => line[c] >= 1
    /\ \A i \in 1..Len(accepted) :
          /\ accepted[i][2] \in 1..line[accepted[i][1]]
          /\ handler[accepted[i][1]] = "enqueueing" => accepted[i][2] < line[accepted[i][1]]
    /\ \A i, j \in 1..Len(accepted) : accepted[i] = accepted[j] => i = j

LEMMA LinesType ==
    ASSUME NEW c \in Conns
    PROVE  Lines[c] \in Nat /\ Lines[c] <= MaxLines
<1>1. Lines[c] \in 0..MaxLines /\ MaxLines \in Nat
  BY ForwarderAssumption
<1>2. QED
  BY <1>1

LEMMA AcceptedTypes ==
    ASSUME TypeOK, NEW i \in 1..Len(accepted)
    PROVE  accepted[i][1] \in Conns /\ accepted[i][2] \in Nat
           /\ accepted[i] = <<accepted[i][1], accepted[i][2]>>
<1>1. accepted[i] \in Record
  BY DEF TypeOK
<1>2. QED
  BY <1>1 DEF Record

LEMMA AcceptNumbered ==
    ASSUME TypeOK, Numbered, NEW c \in Conns, handler[c] = "enqueueing",
           accepted' = Append(accepted, Item(c)), Goto(c, "scanning"), UNCHANGED line
    PROVE  Numbered'
<1>1. /\ Len(accepted) \in Nat /\ Len(accepted') = Len(accepted) + 1
      /\ \A i \in 1..Len(accepted) : accepted'[i] = accepted[i]
      /\ accepted'[Len(accepted) + 1] = Item(c)
  BY ItemType DEF TypeOK
<1>2. Item(c) = <<c, line[c]>> /\ line[c] \in Nat /\ line[c] >= 1
  BY DEF Item, Numbered, TypeOK
<1>3. \A i \in 1..Len(accepted') : i \in 1..Len(accepted) \/ i = Len(accepted) + 1
  BY <1>1
<1>4. ASSUME NEW i \in 1..Len(accepted)
      PROVE  /\ accepted[i] # Item(c)
             /\ accepted[i][2] \in 1..line[accepted[i][1]]
             /\ handler'[accepted[i][1]] = "enqueueing" =>
                   accepted[i][2] < line[accepted[i][1]]
  <2>1. accepted[i][1] \in Conns /\ accepted[i][2] \in Nat
    BY AcceptedTypes
  <2>2. accepted[i] # Item(c)
    BY <1>2, <2>1 DEF Numbered
  <2>3. QED
    BY <2>1, <2>2 DEF Numbered, Goto, TypeOK
<1>5. handler'[c] = "scanning"
  BY DEF Goto, TypeOK
<1>6. ASSUME NEW d \in Conns
      PROVE  line'[d] <= Lines[d] /\ (handler'[d] = "enqueueing" => line'[d] >= 1)
  BY DEF Numbered, Goto, TypeOK
<1>7. ASSUME NEW i \in 1..Len(accepted')
      PROVE  /\ accepted'[i][2] \in 1..line'[accepted'[i][1]]
             /\ handler'[accepted'[i][1]] = "enqueueing" =>
                   accepted'[i][2] < line'[accepted'[i][1]]
  BY <1>1, <1>2, <1>3, <1>4, <1>5
<1>8. ASSUME NEW i \in 1..Len(accepted'), NEW j \in 1..Len(accepted'),
             accepted'[i] = accepted'[j]
      PROVE  i = j
  BY <1>1, <1>3, <1>4, <1>8 DEF Numbered
<1>9. QED
  BY <1>6, <1>7, <1>8 DEF Numbered

LEMMA NumberedInductive == TypeOK /\ Numbered /\ [Next]_vars => Numbered'
<1> SUFFICES ASSUME TypeOK, Numbered, [Next]_vars
             PROVE  Numbered'
  OBVIOUS
<1>1. ASSUME UNCHANGED <<line, accepted>>,
             \A c \in Conns : handler'[c] = "enqueueing" => handler[c] = "enqueueing"
      PROVE  Numbered'
  <2>1. \A i \in 1..Len(accepted) : accepted[i][1] \in Conns
    BY AcceptedTypes
  <2>2. QED
    BY <1>1, <2>1 DEF Numbered
<1>2. ASSUME NEW c \in Conns, StartHandle(c) \/ EndHandle(c) \/ Abandon(c)
      PROVE  Numbered'
  <2>1. UNCHANGED <<line, accepted>>
    BY <1>2 DEF StartHandle, EndHandle, Abandon
  <2>2. ASSUME NEW d \in Conns, handler'[d] = "enqueueing"
        PROVE  handler[d] = "enqueueing"
    BY <1>2, <2>2 DEF StartHandle, EndHandle, Abandon, Goto, TypeOK
  <2>3. QED
    BY <1>1, <2>1, <2>2
<1>3. ASSUME NEW c \in Conns, ScanRecord(c)
      PROVE  Numbered'
  <2>1. line[c] \in Nat /\ Lines[c] \in Nat
    BY LinesType DEF TypeOK
  <2>2. /\ line[c] \in Nat /\ Lines[c] \in Nat /\ line[c] < Lines[c]
        /\ line' = [line EXCEPT ![c] = line[c] + 1]
        /\ handler' = [handler EXCEPT ![c] = "enqueueing"] /\ accepted' = accepted
    BY <1>3, <2>1, Zenon DEF ScanRecord, Goto
  <2>3. ASSUME NEW d \in Conns
        PROVE  line'[d] <= Lines[d] /\ (handler'[d] = "enqueueing" => line'[d] >= 1)
    BY <2>2 DEF Numbered, TypeOK
  <2>4. ASSUME NEW i \in 1..Len(accepted)
        PROVE  /\ accepted[i][2] \in 1..line'[accepted[i][1]]
               /\ handler'[accepted[i][1]] = "enqueueing" =>
                     accepted[i][2] < line'[accepted[i][1]]
    <3>1. accepted[i][1] \in Conns /\ accepted[i][2] \in Nat
      BY AcceptedTypes
    <3>2. CASE accepted[i][1] = c
      BY <2>2, <3>1, <3>2 DEF Numbered, TypeOK
    <3>3. CASE accepted[i][1] # c
      BY <2>2, <3>1, <3>3 DEF Numbered, TypeOK
    <3>4. QED
      BY <3>2, <3>3
  <2>5. QED
    BY <2>2, <2>3, <2>4 DEF Numbered
<1>4. ASSUME NEW c \in Conns, Enqueue(c) \/ Handoff(c)
      PROVE  Numbered'
  BY <1>4, AcceptNumbered DEF Enqueue, Handoff
<1>5. CASE BatcherStep
  BY <1>1, <1>5 DEF BatcherStep, Receive, Tick, ReceiveClosed, BeginPost, PostSucceeds,
     PostFails, GiveUp, connVars
<1>6. ASSUME NEW k \in Closers, CloseStep(k)
      PROVE  Numbered'
  BY <1>1, <1>6 DEF CloseStep, BeginClose, BlockOnProducers, WakeToReuse, CloseChannel,
     ReturnClose, connVars
<1>7. CASE UNCHANGED vars
  BY <1>1, <1>7 DEF vars, connVars
<1>8. QED
  BY <1>2, <1>3, <1>4, <1>5, <1>6, <1>7 DEF Next, HandleStep

LEMMA NumberedHolds == Spec => []Numbered
<1>1. Init => Numbered
  BY ForwarderAssumption DEF Init, Numbered
<1>2. QED
  BY <1>1, TypeCorrect, NumberedInductive, PTL DEF Spec

LEMMA ConcatAt ==
    ASSUME NEW s \in Seq(Record), NEW t \in Seq(Record)
    PROVE  /\ s \o t \in Seq(Record) /\ Len(s \o t) = Len(s) + Len(t)
           /\ \A i \in 1..Len(s) : (s \o t)[i] = s[i]
           /\ \A i \in 1..Len(t) : (s \o t)[Len(s) + i] = t[i]
BY ConcatProperties

LEMMA ConcatThree ==
    \A s, t, u \in Seq(Record) : (s \o t) \o u = s \o (t \o u)
BY ConcatAssociative

LEMMA ElementsAt ==
    ASSUME NEW s \in Seq(Record), NEW r
    PROVE  r \in Elements(s) <=> \E i \in 1..Len(s) : s[i] = r
BY DEF Elements

LEMMA ElementsConcat ==
    ASSUME NEW s \in Seq(Record), NEW t \in Seq(Record)
    PROVE  Elements(s \o t) = Elements(s) \cup Elements(t)
<1> DEFINE both == s \o t
<1>1. /\ both \in Seq(Record) /\ Len(both) = Len(s) + Len(t)
      /\ \A i \in 1..Len(s) : both[i] = s[i]
      /\ \A i \in 1..Len(t) : both[Len(s) + i] = t[i]
  BY ConcatAt
<1>2. Len(s) \in Nat /\ Len(t) \in Nat
  OBVIOUS
<1> HIDE DEF both
<1>3. \A r : r \in Elements(both) <=> \E i \in 1..Len(both) : both[i] = r
  BY <1>1, ElementsAt
<1>4. ASSUME NEW r \in Elements(both)
      PROVE  r \in Elements(s) \cup Elements(t)
  <2>1. PICK i \in 1..(Len(s) + Len(t)) : both[i] = r
    BY <1>1, <1>3
  <2>2. CASE i <= Len(s)
    <3>1. i \in 1..Len(s) /\ s[i] = r
      BY <1>1, <1>2, <2>1, <2>2
    <3>2. QED
      BY <3>1, ElementsAt
  <2>3. CASE i > Len(s)
    <3>1. i - Len(s) \in 1..Len(t) /\ i = Len(s) + (i - Len(s))
      BY <1>2, <2>1, <2>3
    <3>2. t[i - Len(s)] = r
      BY <1>1, <2>1, <3>1
    <3>3. QED
      BY <3>1, <3>2, ElementsAt
  <2>4. QED
    BY <1>2, <2>2, <2>3
<1>5. ASSUME NEW r \in Elements(s)
      PROVE  r \in Elements(both)
  <2>1. PICK i \in 1..Len(s) : s[i] = r
    BY ElementsAt
  <2>2. i \in 1..Len(both) /\ both[i] = r
    BY <1>1, <1>2, <2>1
  <2>3. QED
    BY <1>3, <2>2
<1>6. ASSUME NEW r \in Elements(t)
      PROVE  r \in Elements(both)
  <2>1. PICK i \in 1..Len(t) : t[i] = r
    BY ElementsAt
  <2>2. Len(s) + i \in 1..Len(both) /\ both[Len(s) + i] = r
    BY <1>1, <1>2, <2>1
  <2>3. QED
    BY <1>3, <2>2
<1>7. Elements(both) = Elements(s) \cup Elements(t)
  BY <1>4, <1>5, <1>6
<1>8. QED
  BY <1>7 DEF both

\* What is settled was not sent again, and all of it is a record of upstream's.
LEMMA SettledOnce ==
    ASSUME TypeOK, Numbered, NothingVanishes
    PROVE  /\ Elements(settled) \cap Elements(sending) = {}
           /\ Elements(settled) \subseteq Conns \X (1..MaxLines)
<1> DEFINE front == settled \o sending
           rest == batch \o queue
<1>1. /\ settled \in Seq(Record) /\ sending \in Seq(Record) /\ batch \in Seq(Record)
      /\ queue \in Seq(Record)
  BY DEF TypeOK
<1>2. front \in Seq(Record) /\ rest \in Seq(Record) /\ front \o rest = accepted
  <2>1. front \in Seq(Record)
    BY <1>1, ConcatAt
  <2>2. rest \in Seq(Record)
    BY <1>1, ConcatAt
  <2>3. (front \o batch) \o queue = accepted
    BY DEF NothingVanishes
  <2> HIDE DEF front, rest
  <2>4. batch \in Seq(Record) /\ queue \in Seq(Record)
    BY <1>1
  <2>5. (front \o batch) \o queue = front \o (batch \o queue)
    BY <2>1, <2>4, ConcatThree
  <2>6. rest = batch \o queue
    BY DEF rest
  <2>7. QED
    BY <2>1, <2>2, <2>3, <2>5, <2>6
<1>3. /\ Len(front) = Len(settled) + Len(sending)
      /\ \A i \in 1..Len(settled) : front[i] = settled[i]
      /\ \A i \in 1..Len(sending) : front[Len(settled) + i] = sending[i]
  BY <1>1, ConcatAt
<1> HIDE DEF front, rest
<1>4. Len(accepted) = Len(front) + Len(rest) /\ \A i \in 1..Len(front) : accepted[i] = front[i]
  BY <1>2, ConcatAt
<1>5. Len(settled) \in Nat /\ Len(sending) \in Nat /\ Len(rest) \in Nat
  BY <1>1, <1>2
<1>6. ASSUME NEW i \in 1..Len(settled)
      PROVE  i \in 1..Len(accepted) /\ accepted[i] = settled[i]
  BY <1>3, <1>4, <1>5
<1>7. ASSUME NEW j \in 1..Len(sending)
      PROVE  /\ Len(settled) + j \in 1..Len(accepted)
             /\ accepted[Len(settled) + j] = sending[j]
  BY <1>3, <1>4, <1>5
<1>8. ASSUME NEW i \in 1..Len(settled), NEW j \in 1..Len(sending)
      PROVE  settled[i] # sending[j]
  BY <1>5, <1>6, <1>7 DEF Numbered
<1>9. ASSUME NEW i \in 1..Len(accepted)
      PROVE  accepted[i] \in Conns \X (1..MaxLines)
  <2>1. /\ accepted[i][1] \in Conns /\ accepted[i][2] \in Nat
        /\ accepted[i] = <<accepted[i][1], accepted[i][2]>>
    BY AcceptedTypes
  <2>2. /\ accepted[i][2] \in 1..line[accepted[i][1]]
        /\ line[accepted[i][1]] <= Lines[accepted[i][1]]
        /\ line[accepted[i][1]] \in Nat
    BY <2>1 DEF Numbered, TypeOK
  <2>3. accepted[i][2] \in 1..MaxLines
    <3>1. Lines[accepted[i][1]] \in Nat /\ Lines[accepted[i][1]] <= MaxLines
      BY <2>1, LinesType
    <3>2. MaxLines \in Nat
      BY ForwarderAssumption
    <3>3. QED
      BY <2>1, <2>2, <3>1, <3>2
  <2>4. QED
    BY <2>1, <2>3
<1>10. ASSUME NEW r \in Elements(settled)
       PROVE  \E i \in 1..Len(settled) : settled[i] = r
  BY <1>1, ElementsAt
<1>11. ASSUME NEW r \in Elements(settled), r \in Elements(sending)
       PROVE  FALSE
  <2>1. \E i \in 1..Len(sending) : sending[i] = r
    BY <1>1, <1>11, ElementsAt
  <2>2. QED
    BY <1>8, <1>10, <2>1
<1>12. ASSUME NEW r \in Elements(settled)
       PROVE  r \in Conns \X (1..MaxLines)
  <2>1. PICK i \in 1..Len(settled) : settled[i] = r
    BY <1>10
  <2>2. QED
    BY <1>6, <1>9, <2>1
<1>13. QED
  BY <1>11, <1>12

LEMMA SettledOnceNext ==
    TypeOK' /\ Numbered' /\ NothingVanishes'
        => Elements(settled') \cap Elements(sending') = {}
<1> DEFINE Facts == TypeOK /\ Numbered /\ NothingVanishes
           Once == Elements(settled) \cap Elements(sending) = {}
<1>1. Facts => Once
  BY SettledOnce
<1>2. Facts' => Once'
  <2> HIDE DEF Facts, Once
  <2>1. QED
    BY <1>1, PTL
<1>3. QED
  BY <1>2 DEF Elements

\* A record that was not sent yet is unknown upstream; one that is being sent
\* was received at most once per post of this SendBatch that has ended.
BoundsInv ==
    /\ Retries > 0 => attempt <= Retries
    /\ batcher \in {"select", "exited"} => attempt = 0
    /\ \A r \in Conns \X (1..MaxLines) :
          /\ Retries > 0 => received[r] <= Retries
          /\ r \notin Elements(settled) \cup Elements(sending) => received[r] = 0
          /\ r \in Elements(sending) =>
                received[r] + (IF batcher = "posting" THEN 1 ELSE 0) <= attempt
          /\ r \in Elements(settled) \ lost => received[r] >= 1

LEMMA NoneSent == Elements(<<>>) = {}
BY DEF Elements

\* run hands a batch over to SendBatch, or goes on in its select.
LEMMA HandOverBounds ==
    ASSUME TypeOK, BoundsInv, batcher = "select", sending = <<>>,
           batcher' \in {"select", "sending", "exited"},
           UNCHANGED <<attempt, received, settled, lost>>,
           Elements(settled') \cap Elements(sending') = {},
           batcher' \in {"select", "exited"} => sending' = <<>>
    PROVE  BoundsInv'
<1>1. attempt = 0 /\ attempt' = 0 /\ Retries \in Nat
  BY ForwarderAssumption DEF BoundsInv
<1>2. Elements(sending) = {}
  BY NoneSent
<1>3. ASSUME NEW r \in Conns \X (1..MaxLines)
      PROVE  /\ Retries > 0 => received'[r] <= Retries
             /\ r \notin Elements(settled') \cup Elements(sending') => received'[r] = 0
             /\ r \in Elements(sending') =>
                   received'[r] + (IF batcher' = "posting" THEN 1 ELSE 0) <= attempt'
             /\ r \in Elements(settled') \ lost' => received'[r] >= 1
  <2>1. r \notin Elements(settled) => received[r] = 0
    BY <1>2 DEF BoundsInv
  <2>2. QED
    BY <1>1, <2>1 DEF BoundsInv
<1>4. QED
  BY <1>1, <1>3 DEF BoundsInv, Elements

\* A post that reached upstream counts for the records of the batch only.
LEMMA UpstreamCounts ==
    ASSUME TypeOK, UpstreamGets, NEW r \in Conns \X (1..MaxLines)
    PROVE  /\ received[r] \in Nat
           /\ received'[r] = received[r] + IF r \in Elements(sending) THEN 1 ELSE 0
BY DEF TypeOK, UpstreamGets

LEMMA PostBounds ==
    ASSUME TypeOK, BoundsInv, BeginPost \/ PostFails
    PROVE  BoundsInv'
<1>1. attempt \in Nat /\ Retries \in Nat
  BY ForwarderAssumption DEF TypeOK
<1>2. UNCHANGED <<settled, sending, lost>>
  BY DEF BeginPost, PostFails, upstreamVars
<1>3. CASE BeginPost
  <2>1. /\ attempt' = attempt + 1 /\ (Retries > 0 => attempt < Retries) /\ received' = received
        /\ batcher = "sending" /\ batcher' = "posting"
    BY <1>3 DEF BeginPost, upstreamVars
  <2>2. ASSUME NEW r \in Conns \X (1..MaxLines)
        PROVE  received[r] \in Nat
    BY DEF TypeOK
  <2>3. QED
    BY <1>1, <1>2, <2>1, <2>2 DEF BoundsInv
<1>4. CASE PostFails
  <2>1. attempt' = attempt /\ batcher = "posting" /\ batcher' = "sending"
    BY <1>4 DEF PostFails
  <2>2. ASSUME NEW r \in Conns \X (1..MaxLines)
        PROVE  /\ received[r] \in Nat /\ received'[r] \in Nat /\ received[r] <= received'[r]
               /\ received'[r] <= received[r] + 1
               /\ r \notin Elements(sending) => received'[r] = received[r]
    <3>1. CASE UpstreamGets
      BY <3>1, UpstreamCounts
    <3>2. CASE received' = received
      BY <3>2 DEF TypeOK
    <3>3. QED
      BY <1>4, <3>1, <3>2 DEF PostFails
  <2>3. QED
    BY <1>1, <1>2, <2>1, <2>2 DEF BoundsInv
<1>5. QED
  BY <1>3, <1>4

LEMMA SettleBounds ==
    ASSUME TypeOK, BoundsInv, PostSucceeds \/ GiveUp
    PROVE  BoundsInv'
<1>1. attempt \in Nat /\ Retries \in Nat
  BY ForwarderAssumption DEF TypeOK
<1>2. /\ Elements(settled') = Elements(settled) \cup Elements(sending)
      /\ Elements(sending') = {} /\ attempt' = 0
  <2>1. settled' = settled \o sending /\ sending' = <<>> /\ attempt' = 0
    BY DEF PostSucceeds, GiveUp, Settle
  <2>2. QED
    BY <2>1, NoneSent, ElementsConcat DEF TypeOK
<1>3. CASE PostSucceeds
  <2>1. lost' = lost /\ batcher = "posting" /\ UpstreamGets
    BY <1>3 DEF PostSucceeds
  <2>2. ASSUME NEW r \in Conns \X (1..MaxLines)
        PROVE  /\ received[r] \in Nat
               /\ received'[r] = received[r] + IF r \in Elements(sending) THEN 1 ELSE 0
    BY <2>1, UpstreamCounts
  <2>3. QED
    BY <1>1, <1>2, <2>1, <2>2 DEF BoundsInv
<1>4. CASE GiveUp
  <2>1. /\ lost' = lost \cup Elements(sending) /\ batcher = "sending"
        /\ received' = received
    BY <1>4 DEF GiveUp
  <2>2. ASSUME NEW r \in Conns \X (1..MaxLines)
        PROVE  received[r] \in Nat
    BY DEF TypeOK
  <2>3. QED
    BY <1>1, <1>2, <2>1, <2>2 DEF BoundsInv
<1>5. QED
  BY <1>3, <1>4

LEMMA BoundsInvInductive ==
    /\ TypeOK /\ PipelineInv /\ BoundsInv /\ [Next]_vars
    /\ TypeOK' /\ Numbered' /\ NothingVanishes'
    => BoundsInv'
<1> SUFFICES ASSUME TypeOK, PipelineInv, BoundsInv, [Next]_vars,
                    TypeOK', Numbered', NothingVanishes'
             PROVE  BoundsInv'
  OBVIOUS
<1>1. Elements(settled') \cap Elements(sending') = {}
  BY SettledOnceNext
<1>2. batcher = "select" => sending = <<>> /\ ~final
  BY DEF PipelineInv
<1>3. ASSUME UNCHANGED <<batcher, attempt, sending, received, settled, lost>>
      PROVE  BoundsInv'
  BY <1>3 DEF BoundsInv, Elements
<1>4. ASSUME NEW c \in Conns, StartHandle(c) \/ HandleStep(c), ~Handoff(c)
      PROVE  BoundsInv'
  BY <1>3, <1>4 DEF StartHandle, HandleStep, ScanRecord, EndHandle, Enqueue, Abandon,
     batchVars, upstreamVars
<1>5. ASSUME NEW c \in Conns, Handoff(c)
      PROVE  BoundsInv'
  <2>1. batcher' \in {"select", "sending"} /\ (batcher' = "select" => sending' = <<>>)
    BY <1>2, <1>5 DEF Handoff, Take, Flush
  <2>2. QED
    BY <1>1, <1>2, <1>5, <2>1, HandOverBounds DEF Handoff, upstreamVars
<1>6. CASE Receive
  <2>1. batcher' \in {"select", "sending"} /\ (batcher' = "select" => sending' = <<>>)
    BY <1>2, <1>6 DEF Receive, Take, Flush
  <2>2. QED
    BY <1>1, <1>2, <1>6, <2>1, HandOverBounds DEF Receive, upstreamVars
<1>7. CASE Tick
  BY <1>1, <1>2, <1>7, HandOverBounds DEF Tick, Flush, upstreamVars
<1>8. CASE ReceiveClosed
  BY <1>1, <1>2, <1>8, HandOverBounds DEF ReceiveClosed, Flush, upstreamVars
<1>9. ASSUME NEW k \in Closers, CloseStep(k)
      PROVE  BoundsInv'
  BY <1>3, <1>9 DEF CloseStep, BeginClose, BlockOnProducers, WakeToReuse, CloseChannel,
     ReturnClose, batchVars, upstreamVars
<1>10. CASE UNCHANGED vars
  BY <1>3, <1>10 DEF vars, batchVars, upstreamVars
<1>11. QED
  BY <1>4, <1>5, <1>6, <1>7, <1>8, <1>9, <1>10, PostBounds, SettleBounds
     DEF Next, BatcherStep

\* For any sizes, and any limit of the tries or none: upstream has nothing of a
\* record that was not sent yet, at most one copy per post of one that is being
\* sent, a settled one whose batch was not reported as failed at least once, and
\* none more often than the limit.
THEOREM DeliveryIsBounded == Spec => []DeliveryBounds
<1>1. Init => BoundsInv
  <2> SUFFICES ASSUME Init
               PROVE  BoundsInv
    OBVIOUS
  <2>1. Elements(settled) = {} /\ Elements(sending) = {}
    BY NoneSent DEF Init
  <2>2. \A r \in Conns \X (1..MaxLines) : received[r] = 0
    BY DEF Init
  <2>3. QED
    BY <2>1, <2>2, ForwarderAssumption DEF Init, BoundsInv
<1>2. PipelineInv => NothingVanishes
  BY DEF PipelineInv
<1>3. TypeOK /\ BoundsInv => DeliveryBounds
  <2> SUFFICES ASSUME TypeOK, BoundsInv, NEW r \in Conns \X (1..MaxLines)
               PROVE  /\ r \notin Elements(settled) \cup Elements(sending) => received[r] = 0
                      /\ r \in Elements(sending) => received[r] <= attempt
                      /\ r \in Elements(settled) \ lost => received[r] >= 1
                      /\ Retries > 0 => received[r] <= Retries
    BY DEF TypeOK, DeliveryBounds
  <2>1. received[r] \in Nat /\ attempt \in Nat
    BY DEF TypeOK
  <2>2. QED
    BY <2>1 DEF BoundsInv
<1>4. QED
  BY <1>1, <1>2, <1>3, TypeCorrect, NumberedHolds, PipelineInvHolds,
     BoundsInvInductive, PTL DEF Spec

-----------------------------------------------------------------------------
(* OrderedDelivery: a send that enqueue wins is the abstract Accept, the     *)
(* return of SendBatch is Deliver, and the last one, or the end of run       *)
(* without a last flush, is Drain.                                           *)

LEMMA FrontOfConcat ==
    ASSUME NEW s \in Seq(Record), NEW t \in Seq(Record)
    PROVE  /\ SubSeq(s \o t, 1, Len(s)) = s
           /\ Len(s) <= Len(s \o t)
<1>1. /\ Len(s) \in Nat /\ Len(t) \in Nat /\ s \o t \in Seq(Record)
      /\ Len(s \o t) = Len(s) + Len(t)
  BY LenProperties, ConcatProperties
<1>2. \A i \in 1..Len(s) : (s \o t)[i] = s[i]
  BY <1>1, ConcatProperties
<1>3. Len(s) \in 0..Len(s) /\ Len(s) \in 0..Len(s \o t)
  BY <1>1
<1>4. SubSeq(s, 1, Len(s)) = Restrict(s, 1..Len(s))
  BY <1>3, SubSeqRestrict
<1>5. SubSeq(s \o t, 1, Len(s)) = Restrict(s \o t, 1..Len(s))
  BY <1>1, <1>3, SubSeqRestrict
<1>6. Restrict(s \o t, 1..Len(s)) = Restrict(s, 1..Len(s))
  BY <1>2 DEF Restrict
<1>7. QED
  BY <1>1, <1>4, <1>5, <1>6, SubSeqFull

LEMMA ItemIsMessage ==
    ASSUME TypeOK, Numbered, NEW c \in Conns, handler[c] = "enqueueing"
    PROVE  Item(c) \in Conns \X (1..MaxLines)
<1>1. line[c] \in Nat /\ line[c] >= 1 /\ line[c] <= Lines[c]
  BY DEF TypeOK, Numbered
<1>2. Lines[c] \in Nat /\ Lines[c] <= MaxLines /\ MaxLines \in Nat
  BY LinesType, ForwarderAssumption
<1>3. line[c] \in 1..MaxLines
  BY <1>1, <1>2
<1>4. QED
  BY <1>3 DEF Item

\* What SendBatch returned for, once it returns, is a front of what was accepted.
LEMMA SettledIsFront ==
    ASSUME TypeOK, NothingVanishes
    PROVE  /\ SubSeq(accepted, 1, Len(settled \o sending)) = settled \o sending
           /\ Len(settled \o sending) <= Len(accepted)
<1> DEFINE front == settled \o sending
           rest == batch \o queue
<1>1. front \in Seq(Record) /\ rest \in Seq(Record) /\ batch \in Seq(Record) /\ queue \in Seq(Record)
  BY ConcatProperties DEF TypeOK
<1>2. (front \o batch) \o queue = accepted
  BY DEF NothingVanishes
<1>3. front \o rest = accepted
  <2>1. rest = batch \o queue
    OBVIOUS
  <2> HIDE DEF front, rest
  <2>2. front \in Seq(Record) /\ batch \in Seq(Record) /\ queue \in Seq(Record)
    BY <1>1
  <2>3. (front \o batch) \o queue = front \o (batch \o queue)
    BY <2>2, ConcatThree
  <2>4. QED
    BY <1>2, <2>1, <2>3
<1> HIDE DEF rest
<1>4. /\ SubSeq(front \o rest, 1, Len(front)) = front
      /\ Len(front) <= Len(front \o rest)
  <2> HIDE DEF front
  <2>1. QED
    BY <1>1, FrontOfConcat
<1>5. QED
  BY <1>3, <1>4

LEMMA SettleDelivers ==
    ASSUME TypeOK, PipelineInv, Settle, batcher \in {"sending", "posting"},
           UNCHANGED accepted
    PROVE  [Delivery!DrainedNext]_Delivery!vars
<1> DEFINE front == settled \o sending
<1>1. settled' = front /\ front \in Seq(Record)
  BY ConcatProperties DEF Settle, TypeOK
<1>2. SubSeq(accepted, 1, Len(front)) = front /\ Len(front) <= Len(accepted)
  BY SettledIsFront DEF PipelineInv
<1>3. /\ Len(front) = Len(settled) + Len(sending)
      /\ Len(settled) \in Nat /\ Len(sending) \in Nat /\ Len(accepted) \in Nat
  BY ConcatProperties, LenProperties DEF TypeOK
<1>4. CASE final
  <2>1. batch = <<>> /\ queue = <<>> /\ batcher' = "exited"
    BY <1>4 DEF PipelineInv, Settle
  <2>2. (front \o <<>>) \o <<>> = accepted
    BY <2>1 DEF PipelineInv, NothingVanishes
  <2>3. front = accepted
    BY <1>1, <2>2, ConcatEmptySeq
  <2>4. Delivery!Drain
    BY <1>1, <2>1, <2>3 DEF Delivery!Drain
  <2>5. QED
    BY <2>4 DEF Delivery!DrainedNext
<1>5. CASE ~final
  <2>1. batcher' = "select"
    BY <1>5 DEF Settle
  <2>2. CASE sending = <<>>
    <3>1. settled' = settled
      BY <1>1, <2>2, ConcatEmptySeq DEF TypeOK
    <3>2. QED
      BY <2>1, <3>1 DEF Delivery!vars
  <2>3. CASE sending # <<>>
    <3>1. Len(sending) >= 1
      BY <1>3, <2>3, EmptySeq DEF TypeOK
    <3>2. Len(front) \in (Len(settled) + 1)..Len(accepted)
      BY <1>2, <1>3, <3>1
    <3> HIDE DEF front
    <3>3. Delivery!Deliver
      BY <1>1, <1>2, <2>1, <3>2 DEF Delivery!Deliver
    <3>4. QED
      BY <3>3 DEF Delivery!DrainedNext
  <2>4. QED
    BY <2>2, <2>3
<1>6. QED
  BY <1>4, <1>5

LEMMA StepDelivers ==
    ASSUME TypeOK, ChannelInv, PipelineInv, Numbered, [Next]_vars
    PROVE  [Delivery!DrainedNext]_Delivery!vars
<1>1. ASSUME NEW c \in Conns, Enqueue(c) \/ Handoff(c)
      PROVE  Delivery!DrainedNext
  <2>1. batcher # "exited" /\ batcher' # "exited" /\ settled' = settled
    <3>1. CASE Enqueue(c)
      BY <3>1 DEF Enqueue, PipelineInv, ChannelInv, NeverSendOnClosed, batchVars, upstreamVars
    <3>2. CASE Handoff(c)
      BY <3>2 DEF Handoff, Take, Flush, upstreamVars
    <3>3. QED
      BY <1>1, <3>1, <3>2
  <2>2. handler[c] = "enqueueing" /\ accepted' = Append(accepted, Item(c))
    BY <1>1 DEF Enqueue, Handoff
  <2>3. Item(c) \in Conns \X (1..MaxLines)
    BY <2>2, ItemIsMessage
  <2>4. Delivery!Accept
    BY <2>1, <2>2, <2>3 DEF Delivery!Accept
  <2>5. QED
    BY <2>1, <2>4 DEF Delivery!DrainedNext
<1>2. ASSUME UNCHANGED <<accepted, settled>>, batcher # "exited", batcher' # "exited"
      PROVE  UNCHANGED Delivery!vars
  BY <1>2 DEF Delivery!vars
<1>3. ASSUME UNCHANGED <<accepted, settled, batcher>>
      PROVE  UNCHANGED Delivery!vars
  BY <1>3 DEF Delivery!vars
<1>4. ASSUME NEW c \in Conns,
             StartHandle(c) \/ ScanRecord(c) \/ EndHandle(c) \/ Abandon(c)
      PROVE  UNCHANGED Delivery!vars
  BY <1>3, <1>4 DEF StartHandle, ScanRecord, EndHandle, Abandon, batchVars, upstreamVars
<1>5. CASE Receive \/ Tick
  BY <1>2, <1>5 DEF Receive, Tick, Take, Flush, upstreamVars
<1>6. CASE ReceiveClosed
  <2>1. CASE Flush(batch)
    BY <1>2, <1>6, <2>1 DEF ReceiveClosed, Flush, upstreamVars
  <2>2. CASE batch = <<>> /\ batcher' = "exited"
    <3>1. accepted = (settled \o <<>>) \o <<>>
      BY <1>6, <2>2, IdlePipeline DEF ReceiveClosed
    <3>2. accepted = settled
      BY <3>1, ConcatEmptySeq DEF TypeOK
    <3>3. Delivery!Drain
      BY <1>6, <2>2, <3>2 DEF ReceiveClosed, Delivery!Drain, upstreamVars
    <3>4. QED
      BY <3>3 DEF Delivery!DrainedNext
  <2>3. QED
    BY <1>6, <2>1, <2>2 DEF ReceiveClosed
<1>7. CASE BeginPost \/ PostFails
  BY <1>2, <1>7 DEF BeginPost, PostFails, upstreamVars
<1>8. CASE PostSucceeds \/ GiveUp
  BY <1>8, SettleDelivers DEF PostSucceeds, GiveUp
<1>9. ASSUME NEW k \in Closers, CloseStep(k)
      PROVE  UNCHANGED Delivery!vars
  BY <1>3, <1>9 DEF CloseStep, BeginClose, BlockOnProducers, WakeToReuse, CloseChannel,
     ReturnClose, batchVars, upstreamVars
<1>10. CASE UNCHANGED vars
  BY <1>3, <1>10 DEF vars, batchVars, upstreamVars
<1>11. QED
  BY <1>1, <1>4, <1>5, <1>6, <1>7, <1>8, <1>9, <1>10 DEF Next, HandleStep, BatcherStep

\* The forwarder implements OrderedDelivery, with nothing left behind: SendBatch
\* gets the records that enqueue took, in that order and once each, and when
\* run has ended it got them all and enqueue takes no more.
THEOREM ForwarderDelivers ==
    Spec => Delivery!Init /\ [][Delivery!DrainedNext]_Delivery!vars
<1>1. Init => Delivery!Init
  BY DEF Init, Delivery!Init
<1>2. TypeOK /\ ChannelInv /\ PipelineInv /\ Numbered /\ [Next]_vars
        => [Delivery!DrainedNext]_Delivery!vars
  BY StepDelivers
<1>3. QED
  BY <1>1, <1>2, TypeCorrect, ChannelInvHolds, PipelineInvHolds, NumberedHolds, PTL DEF Spec
=============================================================================
