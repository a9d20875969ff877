----------------------------- MODULE AgentLogProofs -----------------------------
(***************************************************************************)
(* TLAPS proofs about AgentLog, for any number of handlers, lines and      *)
(* faults and any batch size.                                              *)
(***************************************************************************)
EXTENDS AgentLog, SequenceTheorems, TLAPS

LEMMA ConstantFacts ==
    /\ MaxHandlers \in Nat /\ MaxLines \in Nat /\ MaxFaults \in Nat
    /\ MaxBatch \in Nat \ {0}
    /\ \A m \in Malformed : m \in 0..MaxLines
BY AgentLogAssumption

-----------------------------------------------------------------------------
(* What the queues, the readers and the handlers look like                 *)

\* The places where batches end grow and lie within the ready lines.
EndsInv(h) ==
    /\ \A i \in 1..Len(ends[h]) : ends[h][i] \in 1..Len(ready[h])
    /\ \A i, j \in 1..Len(ends[h]) : i < j => ends[h][i] < ends[h][j]

\* A reader is never before the beginning of the file.
ReaderInv(h) == pos[h] >= 0 /\ (log[h] # "none" => pos[h] >= base)

\* Handlers are numbered as they start.
UnstartedInv(h) ==
    h > latest => /\ place[h] = "none" /\ pump[h] = "off" /\ log[h] = "none"
                  /\ pending[h] = <<>> /\ ready[h] = <<>>

ShapeInv == \A h \in Handlers : EndsInv(h) /\ ReaderInv(h) /\ UnstartedInv(h)

-----------------------------------------------------------------------------
(* Every step does one of six things to the queues                         *)

Same == UNCHANGED <<pending, ready, ends, read, sent>>
Flush(h) == FlushOf(h, pending[h]) /\ UNCHANGED <<read, sent>>
Drop(h) == DropQueue(h) /\ place'[h] = "ended" /\ UNCHANGED <<read, sent>>
PushOf(h, l) == Push(h, l) /\ UNCHANGED sent
Take(h) ==
    /\ place[h] # "ended" /\ place'[h] # "ended" /\ ends[h] # <<>>
    /\ sent' = [sent EXCEPT ![h] = @ \o SubSeq(ready[h], 1, Head(ends[h]))]
    /\ ready' = [ready EXCEPT ![h] = SubSeq(@, Head(ends[h]) + 1, Len(@))]
    /\ ends' = [ends EXCEPT ![h] = [i \in 1..(Len(@) - 1) |-> @[i + 1] - Head(ends[h])]]
    /\ UNCHANGED <<pending, read>>
DropAll ==
    /\ \A h \in Handlers : h <= latest => place'[h] = "ended"
    /\ pending' = [h \in Handlers |-> <<>>] /\ ready' = [h \in Handlers |-> <<>>]
    /\ ends' = [h \in Handlers |-> <<>>]
    /\ UNCHANGED <<read, sent>>

QueueStep ==
    \/ Same \/ DropAll
    \/ \E h \in Handlers : Flush(h) \/ Drop(h) \/ Take(h)
    \/ \E h \in Handlers : h <= latest /\ \E l \in Lines : PushOf(h, l)

LEMMA AbortChanges ==
    ASSUME TypeOK, NEW newLog, AbortLatest(newLog), UNCHANGED <<read, sent>>
    PROVE  QueueStep
<1>1. CASE latest > 0 /\ CloseQueue(latest)
  <2>1. latest \in Handlers
    BY <1>1, ConstantFacts DEF TypeOK, Handlers
  <2>2. QED
    BY <1>1, <2>1 DEF CloseQueue, QueueStep, Flush
<1>2. CASE UNCHANGED queueVars
  BY <1>2 DEF queueVars, QueueStep, Same
<1>3. QED
  BY <1>1, <1>2 DEF AbortLatest

LEMMA LogChanges ==
    ASSUME TypeOK, ShapeInv, NEW h \in Handlers, LogStep(h)
    PROVE  QueueStep
<1> USE DEF queueVars, TypeOK
<1>1. CASE CreateFile(h) \/ PumpEnds(h) \/ Truncate(h)
  BY <1>1 DEF CreateFile, PumpEnds, Truncate, QueueStep, Same
<1>2. CASE TimerFires(h)
  BY <1>2 DEF TimerFires, QueueStep, Flush
<1>3. CASE ReadLine(h)
  <2>1. pos[h] + 1 \in Lines /\ h <= latest
    <3>1. pos[h] \in Int /\ pos[h] >= 0 /\ pos[h] < appended /\ appended <= MaxLines
      BY <1>3, ConstantFacts DEF ReadLine, ShapeInv, ReaderInv
    <3>2. ~(h > latest) /\ h \in Int /\ latest \in Int
      BY <1>3 DEF ReadLine, ShapeInv, UnstartedInv, Handlers
    <3>3. QED
      BY <3>1, <3>2, ConstantFacts DEF Lines
  <2>2. QED
    BY <1>3, <2>1 DEF ReadLine, QueueStep, PushOf, Same
<1>4. CASE ReadMalformed(h)
  BY <1>4 DEF ReadMalformed, Die, QueueStep, Drop, DropAll, Handlers
<1>5. CASE CreateFails(h) \/ TruncateFails(h)
  BY <1>5 DEF CreateFails, TruncateFails, Die, QueueStep, Same, DropAll, Handlers
<1>6. QED
  BY <1>1, <1>2, <1>3, <1>4, <1>5 DEF LogStep

LEMMA LoopChanges ==
    ASSUME TypeOK, NEW h \in Handlers, LoopStep(h)
    PROVE  QueueStep
<1> USE DEF queueVars, TypeOK
<1>1. CASE TakeBatch(h)
  <2>1. CASE Leave(h) /\ UNCHANGED <<read, sent>>
    BY <2>1 DEF Leave, QueueStep, Drop
  <2>2. CASE place' = [place EXCEPT ![h] = "posting"]
    <3>1. Take(h)
      BY <1>1, <2>2 DEF TakeBatch, Take, Leave
    <3>2. QED
      BY <3>1 DEF QueueStep
  <2>3. QED
    BY <1>1, <2>1, <2>2 DEF TakeBatch
<1>2. CASE PostReturns(h)
  BY <1>2 DEF PostReturns, QueueStep, Same
<1>3. CASE PostFails(h) \/ FinishLoop(h)
  BY <1>3 DEF PostFails, FinishLoop, Leave, QueueStep, Drop
<1>4. QED
  BY <1>1, <1>2, <1>3 DEF LoopStep

LEMMA QueueChanges ==
    ASSUME TypeOK, ShapeInv, [Next]_vars
    PROVE  QueueStep
<1>1. CASE WriteLine \/ UNCHANGED vars
  BY <1>1 DEF WriteLine, vars, queueVars, QueueStep, Same
<1>2. CASE ReceiveMetadata \/ Interrupt
  BY <1>2, AbortChanges DEF ReceiveMetadata, Interrupt
<1>3. CASE Crash
  BY <1>3 DEF Crash, Die, QueueStep, DropAll, TypeOK
<1>4. QED
  BY <1>1, <1>2, <1>3, LogChanges, LoopChanges DEF Next

-----------------------------------------------------------------------------
(* Types, and the shape of the queues                                      *)

QueueTypes ==
    /\ pending \in [Handlers -> Seq(Lines)] /\ ready \in [Handlers -> Seq(Lines)]
    /\ ends \in [Handlers -> Seq(Int)]
    /\ read \in [Handlers -> Seq(Lines)] /\ sent \in [Handlers -> Seq(Lines)]

LEMMA FlushType ==
    ASSUME QueueTypes, \A g \in Handlers : EndsInv(g),
           NEW h \in Handlers, NEW p \in Seq(Lines), FlushOf(h, p)
    PROVE  /\ pending' \in [Handlers -> Seq(Lines)] /\ ready' \in [Handlers -> Seq(Lines)]
           /\ ends' \in [Handlers -> Seq(Int)]
           /\ \A g \in Handlers : EndsInv(g)'
<1> DEFINE n == Len(ready[h]) + Len(p)
<1>1. /\ ready[h] \in Seq(Lines) /\ ends[h] \in Seq(Int)
      /\ Len(ready[h]) \in Nat /\ Len(p) \in Nat /\ Len(ends[h]) \in Nat
  BY LenProperties DEF QueueTypes
<1>2. ready[h] \o p \in Seq(Lines) /\ Len(ready[h] \o p) = n
  BY <1>1, ConcatProperties
<1>3. /\ Append(ends[h], n) \in Seq(Int)
      /\ Len(Append(ends[h], n)) = Len(ends[h]) + 1
      /\ \A i \in 1..Len(ends[h]) : Append(ends[h], n)[i] = ends[h][i]
      /\ Append(ends[h], n)[Len(ends[h]) + 1] = n
  <2>1. n \in Int
    BY <1>1
  <2>2. QED
    BY <1>1, <2>1, AppendProperties
<1>4. /\ pending' = [pending EXCEPT ![h] = <<>>]
      /\ ready' = [ready EXCEPT ![h] = ready[h] \o p]
  BY DEF FlushOf
<1>5. /\ pending' \in [Handlers -> Seq(Lines)] /\ ready' \in [Handlers -> Seq(Lines)]
      /\ ready'[h] = ready[h] \o p
      /\ \A g \in Handlers : g # h => ready'[g] = ready[g]
  <2>1. <<>> \in Seq(Lines)
    OBVIOUS
  <2>2. QED
    BY <1>2, <1>4, <2>1 DEF QueueTypes
<1>6. CASE p = <<>>
  <2>1. ends' = ends /\ Len(p) = 0
    BY <1>6 DEF FlushOf
  <2>2. \A g \in Handlers : Len(ready'[g]) = Len(ready[g])
    BY <1>1, <1>2, <1>5, <2>1
  <2>3. QED
    BY <1>5, <2>1, <2>2 DEF EndsInv, QueueTypes
<1>7. CASE p # <<>>
  <2>1. ends' = [ends EXCEPT ![h] = Append(ends[h], n)] /\ Len(p) > 0
    BY <1>1, <1>7, EmptySeq DEF FlushOf
  <2>2. /\ ends' \in [Handlers -> Seq(Int)] /\ ends'[h] = Append(ends[h], n)
        /\ \A g \in Handlers : g # h => ends'[g] = ends[g]
    BY <1>3, <2>1 DEF QueueTypes
  <2>3. EndsInv(h)'
    <3>1. \A i \in 1..Len(ends[h]) : ends[h][i] \in 1..Len(ready[h])
      BY DEF EndsInv
    <3>2. \A i \in 1..(Len(ends[h]) + 1) : ends'[h][i] \in 1..n
      BY <1>1, <1>3, <2>1, <2>2, <3>1
    <3>3. \A i, j \in 1..Len(ends[h]) : i < j => ends'[h][i] < ends'[h][j]
      BY <1>3, <2>2 DEF EndsInv
    <3>4. \A i \in 1..Len(ends[h]) : ends'[h][i] < n
      BY <1>1, <1>3, <2>1, <2>2, <3>1
    <3>5. \A i, j \in 1..(Len(ends[h]) + 1) : i < j => ends'[h][i] < ends'[h][j]
      <4> SUFFICES ASSUME NEW i \in 1..(Len(ends[h]) + 1), NEW j \in 1..(Len(ends[h]) + 1), i < j
                   PROVE  ends'[h][i] < ends'[h][j]
        OBVIOUS
      <4>1. i \in 1..Len(ends[h])
        BY <1>1
      <4>2. CASE j \in 1..Len(ends[h])
        BY <3>3, <4>1, <4>2
      <4>3. CASE j = Len(ends[h]) + 1
        BY <1>3, <2>2, <3>4, <4>1, <4>3
      <4>4. j \in 1..Len(ends[h]) \/ j = Len(ends[h]) + 1
        <5>1. Len(ends[h]) \in Nat
          BY <1>1
        <5>2. QED
          BY <5>1
      <4>5. QED
        BY <4>2, <4>3, <4>4
    <3>6. QED
      BY <1>2, <1>3, <1>5, <2>2, <3>2, <3>5 DEF EndsInv
  <2>4. QED
    BY <1>5, <2>2, <2>3 DEF EndsInv
<1>8. QED
  BY <1>6, <1>7

\* The first batch is taken: the ends that are left count from its own.
LEMMA TakeType ==
    ASSUME QueueTypes, \A g \in Handlers : EndsInv(g), NEW h \in Handlers, Take(h)
    PROVE  /\ QueueTypes'
           /\ \A g \in Handlers : EndsInv(g)'
           /\ sent'[h] \o ready'[h] = sent[h] \o ready[h]
<1> DEFINE n == Head(ends[h])
           k == Len(ends[h])
           front == SubSeq(ready[h], 1, n)
           back == SubSeq(ready[h], n + 1, Len(ready[h]))
<1>1. /\ ready[h] \in Seq(Lines) /\ sent[h] \in Seq(Lines) /\ ends[h] \in Seq(Int)
      /\ Len(ready[h]) \in Nat /\ k \in Nat \ {0} /\ n = ends[h][1]
  BY LenProperties, EmptySeq DEF QueueTypes, Take
<1>2. n \in 1..Len(ready[h])
  BY <1>1 DEF EndsInv
<1>3. front \in Seq(Lines) /\ back \in Seq(Lines) /\ Len(back) = Len(ready[h]) - n
  <2>1. \A i \in 1..Len(ready[h]) : ready[h][i] \in Lines
    BY <1>1
  <2>2. n \in Int /\ n + 1 \in Int /\ 1 \in Int /\ Len(ready[h]) \in Int
    BY <1>1, <1>2
  <2>3. (\A i \in 1..n : ready[h][i] \in Lines) /\ (\A i \in (n + 1)..Len(ready[h]) : ready[h][i] \in Lines)
    BY <1>1, <1>2, <2>1
  <2>4. front \in Seq(Lines)
    BY <2>2, <2>3, SubSeqProperties
  <2>5. /\ back \in Seq(Lines)
        /\ Len(back) = IF n + 1 <= Len(ready[h]) THEN Len(ready[h]) - (n + 1) + 1 ELSE 0
    BY <2>2, <2>3, SubSeqProperties
  <2>6. QED
    BY <1>1, <1>2, <2>4, <2>5
<1>4. front \o back = ready[h]
  <2>1. /\ 1 \in 1..(Len(ready[h]) + 1) /\ n \in (1 - 1)..Len(ready[h])
        /\ Len(ready[h]) \in n..Len(ready[h])
    BY <1>1, <1>2
  <2>2. front \o back = SubSeq(ready[h], 1, Len(ready[h]))
    BY <1>1, <2>1, ConcatAdjacentSubSeq
  <2>3. QED
    BY <1>1, <2>2, SubSeqFull
<1>5. /\ sent'[h] = sent[h] \o front /\ ready'[h] = back
      /\ ends'[h] = [i \in 1..(k - 1) |-> ends[h][i + 1] - n]
      /\ \A g \in Handlers : g # h => ready'[g] = ready[g] /\ ends'[g] = ends[g]
  BY DEF Take, QueueTypes
<1>6. /\ ends'[h] \in Seq(Int) /\ Len(ends'[h]) = k - 1
      /\ \A i \in 1..(k - 1) : ends'[h][i] = ends[h][i + 1] - n
  <2>1. \A i \in 1..(k - 1) : ends[h][i + 1] - n \in Int
    BY <1>1
  <2>2. k - 1 \in Nat
    BY <1>1
  <2>3. QED
    BY <1>5, <2>1, <2>2
<1>7. QueueTypes'
  <2>1. sent[h] \o front \in Seq(Lines)
    BY <1>1, <1>3, ConcatProperties
  <2>2. QED
    BY <1>3, <1>5, <1>6, <2>1 DEF Take, QueueTypes
<1>8. EndsInv(h)'
  <2>1. \A i \in 1..(k - 1) : ends[h][1] < ends[h][i + 1]
    BY <1>1 DEF EndsInv
  <2>2. \A i \in 1..(k - 1) : ends[h][i + 1] \in 1..Len(ready[h])
    BY <1>1 DEF EndsInv
  <2>3. \A i \in 1..(k - 1) : ends'[h][i] \in 1..Len(back)
    <3> SUFFICES ASSUME NEW i \in 1..(k - 1)
                 PROVE  ends'[h][i] \in 1..Len(back)
      OBVIOUS
    <3>1. /\ n < ends[h][i + 1] /\ ends[h][i + 1] \in 1..Len(ready[h])
          /\ ends'[h][i] = ends[h][i + 1] - n
      BY <1>1, <1>6, <2>1, <2>2
    <3>2. n \in Int /\ Len(ready[h]) \in Int /\ Len(back) = Len(ready[h]) - n
      BY <1>1, <1>2, <1>3
    <3> HIDE DEF n, k, back
    <3>3. QED
      BY <3>1, <3>2
  <2>4. \A i, j \in 1..(k - 1) : i < j => ends[h][i + 1] < ends[h][j + 1]
    BY <1>1 DEF EndsInv
  <2>5. \A i, j \in 1..(k - 1) : i < j => ends'[h][i] < ends'[h][j]
    <3> SUFFICES ASSUME NEW i \in 1..(k - 1), NEW j \in 1..(k - 1), i < j
                 PROVE  ends'[h][i] < ends'[h][j]
      OBVIOUS
    <3>1. /\ ends'[h][i] = ends[h][i + 1] - n /\ ends'[h][j] = ends[h][j + 1] - n
          /\ ends[h][i + 1] < ends[h][j + 1]
      BY <1>6, <2>4
    <3>2. /\ ends[h][i + 1] \in 1..Len(ready[h]) /\ ends[h][j + 1] \in 1..Len(ready[h])
          /\ n \in Int /\ Len(ready[h]) \in Int
      BY <1>1, <1>2, <2>2
    <3> HIDE DEF n, k
    <3>3. QED
      BY <3>1, <3>2
  <2>6. QED
    BY <1>5, <1>6, <2>3, <2>5 DEF EndsInv
<1>9. sent'[h] \o ready'[h] = sent[h] \o ready[h]
  <2>1. (sent[h] \o front) \o back = sent[h] \o (front \o back)
    <3>1. sent[h] \in Seq(Lines) /\ front \in Seq(Lines) /\ back \in Seq(Lines)
      BY <1>1, <1>3
    <3>2. \A s, t, u \in Seq(Lines) : (s \o t) \o u = s \o (t \o u)
      BY ConcatAssociative
    <3> HIDE DEF front, back
    <3>3. QED
      BY <3>1, <3>2
  <2>2. QED
    BY <1>4, <1>5, <2>1
<1>10. QED
  BY <1>5, <1>7, <1>8, <1>9 DEF EndsInv

LEMMA QueueType ==
    ASSUME QueueTypes, \A g \in Handlers : EndsInv(g), QueueStep
    PROVE  QueueTypes' /\ \A g \in Handlers : EndsInv(g)'
<1>1. CASE Same
  BY <1>1 DEF Same, QueueTypes, EndsInv
<1>2. <<>> \in Seq(Lines) /\ <<>> \in Seq(Int) /\ 1..Len(<<>>) = {}
  OBVIOUS
<1>3. CASE DropAll
  BY <1>2, <1>3 DEF DropAll, QueueTypes, EndsInv
<1>4. ASSUME NEW h \in Handlers, Drop(h)
      PROVE  QueueTypes' /\ \A g \in Handlers : EndsInv(g)'
  <2>1. /\ pending' = [pending EXCEPT ![h] = <<>>] /\ ready' = [ready EXCEPT ![h] = <<>>]
        /\ ends' = [ends EXCEPT ![h] = <<>>] /\ UNCHANGED <<read, sent>>
    BY <1>4 DEF Drop, DropQueue
  <2>2. QueueTypes'
    BY <1>2, <2>1 DEF QueueTypes
  <2>3. ends'[h] = <<>> /\ \A g \in Handlers : g # h => ends'[g] = ends[g] /\ ready'[g] = ready[g]
    BY <2>1 DEF QueueTypes
  <2>4. QED
    BY <1>2, <2>2, <2>3 DEF EndsInv
<1>5. ASSUME NEW h \in Handlers, Flush(h)
      PROVE  QueueTypes' /\ \A g \in Handlers : EndsInv(g)'
  <2>1. pending[h] \in Seq(Lines)
    BY DEF QueueTypes
  <2>2. QED
    BY <1>5, <2>1, FlushType DEF Flush, QueueTypes
<1>6. ASSUME NEW h \in Handlers, NEW l \in Lines, PushOf(h, l)
      PROVE  QueueTypes' /\ \A g \in Handlers : EndsInv(g)'
  <2> DEFINE p == Append(pending[h], l)
  <2>1. p \in Seq(Lines) /\ Append(read[h], l) \in Seq(Lines)
    BY AppendProperties DEF QueueTypes
  <2>2. read' = [read EXCEPT ![h] = Append(read[h], l)] /\ sent' = sent
    BY <1>6 DEF PushOf, Push
  <2>3. CASE FlushOf(h, p)
    BY <2>1, <2>2, <2>3, FlushType DEF QueueTypes
  <2>4. CASE pending' = [pending EXCEPT ![h] = p] /\ UNCHANGED <<ready, ends>>
    BY <2>1, <2>2, <2>4 DEF QueueTypes, EndsInv
  <2>5. QED
    BY <1>6, <2>3, <2>4 DEF PushOf, Push
<1>7. QED
  BY <1>1, <1>3, <1>4, <1>5, <1>6, TakeType DEF QueueStep

-----------------------------------------------------------------------------
(* The rest of the types, readers and handlers                             *)

RestTypes ==
    /\ exists \in BOOLEAN /\ interrupted \in BOOLEAN
    /\ appended \in 0..MaxLines /\ base \in 0..appended
    /\ malformed \in Malformed
    /\ latest \in 0..MaxHandlers
    /\ aborted \in [Handlers -> BOOLEAN]
    /\ place \in [Handlers -> Places]
    /\ log \in [Handlers -> LogStates]
    /\ pump \in [Handlers -> {"off", "running", "ended"}]
    /\ pos \in [Handlers -> Int]
    /\ done \in [Handlers -> BOOLEAN]
    /\ faults \in 0..MaxFaults
    /\ overlap \in [Handlers -> SUBSET Handlers]

ReadersInv == \A h \in Handlers : ReaderInv(h)

\* A handler that has not started has no queue, reader or Log.
NotYet == \A h \in Handlers :
    h > latest => place[h] = "none" /\ pump[h] = "off" /\ log[h] = "none"

LEMMA TypesTogether == TypeOK <=> RestTypes /\ QueueTypes
BY DEF TypeOK, RestTypes, QueueTypes

LEMMA EmptyType ==
    ASSUME RestTypes, ReadersInv, NEW openers \in SUBSET Handlers, Empty(openers),
           \A h \in Handlers : log[h] = "none" /\ h \notin openers => log'[h] = "none"
    PROVE  /\ exists' \in BOOLEAN /\ appended' \in 0..MaxLines /\ base' \in 0..appended'
           /\ malformed' \in Malformed
           /\ pos' \in [Handlers -> Int]
           /\ ReadersInv'
<1>1. /\ appended \in Int /\ base \in Int /\ 0 <= appended
      /\ \A h \in Handlers : pos[h] \in Int
  BY ConstantFacts DEF RestTypes
<1>2. PICK keepsOffset \in BOOLEAN :
          pos' = [h \in Handlers |->
                     IF h \in openers THEN appended
                     ELSE IF log[h] = "none" THEN pos[h]
                     ELSE IF keepsOffset THEN appended + (pos[h] - base)
                     ELSE appended]
  BY DEF Empty
<1>3. pos' \in [Handlers -> Int]
  BY <1>1, <1>2
<1>4. base' = appended /\ appended' = appended
  BY DEF Empty
<1>5. ASSUME NEW h \in Handlers
      PROVE  pos'[h] >= 0 /\ (log'[h] # "none" => pos'[h] >= base')
  <2>1. pos[h] >= 0 /\ (log[h] # "none" => pos[h] >= base)
    BY DEF ReadersInv, ReaderInv
  <2>2. CASE log[h] = "none" /\ h \notin openers
    BY <1>2, <2>1, <2>2
  <2>3. CASE ~(log[h] = "none" /\ h \notin openers)
    <3>1. pos'[h] >= appended
      BY <1>1, <1>2, <2>1, <2>3
    <3>2. QED
      BY <1>1, <1>3, <1>4, <3>1
  <2>4. QED
    BY <2>2, <2>3
<1>6. QED
  BY <1>3, <1>4, <1>5, ConstantFacts DEF Empty, RestTypes, ReadersInv, ReaderInv

LEMMA FaultType ==
    ASSUME RestTypes, Fault
    PROVE  faults' \in 0..MaxFaults
BY ConstantFacts DEF Fault, RestTypes

RestInv == RestTypes /\ ReadersInv /\ NotYet

LEMMA AbortRest ==
    ASSUME RestInv, NEW newLog \in [Handlers -> LogStates], AbortLatest(newLog)
    PROVE  /\ aborted' \in [Handlers -> BOOLEAN] /\ done' \in [Handlers -> BOOLEAN]
           /\ log' \in [Handlers -> LogStates]
           /\ \A h \in Handlers : (log'[h] # newLog[h]) => h = latest /\ log[h] = "open"
BY DEF AbortLatest, CloseQueue, queueVars, RestInv, RestTypes, LogStates

LEMMA RestLog ==
    ASSUME RestInv, NEW h \in Handlers, LogStep(h)
    PROVE  RestInv'
<1> USE DEF RestInv, RestTypes, Places, LogStates, fileVars
<1>1. CASE CreateFile(h)
  <2>1. log' = [log EXCEPT ![h] = "open"] /\ {h} \in SUBSET Handlers /\ Empty({h})
    BY <1>1 DEF CreateFile
  <2>2. \A g \in Handlers : log[g] = "none" /\ g \notin {h} => log'[g] = "none"
    BY <2>1
  <2>3. ~(h > latest)
    BY <1>1 DEF CreateFile, NotYet
  <2>4. /\ place' = [place EXCEPT ![h] = "idle"] /\ pump' = [pump EXCEPT ![h] = "running"]
        /\ overlap' \in [Handlers -> SUBSET Handlers]
        /\ UNCHANGED <<interrupted, latest, aborted, done, faults>>
    BY <1>1 DEF CreateFile, Opened, queueVars
  <2>5. NotYet'
    BY <2>1, <2>3, <2>4 DEF NotYet
  <2>6. QED
    BY <2>1, <2>2, <2>4, <2>5, EmptyType
<1>2. CASE ReadLine(h)
  <2>1. pos' = [pos EXCEPT ![h] = pos[h] + 1] /\ UNCHANGED done
    BY <1>2 DEF ReadLine, Push, queueVars
  <2>2. pos' \in [Handlers -> Int] /\ ReadersInv'
    BY <1>2, <2>1 DEF ReadLine, ReadersInv, ReaderInv
  <2>3. QED
    BY <1>2, <2>1, <2>2 DEF ReadLine, NotYet
<1>3. CASE ReadMalformed(h)
  <2>1. CASE Die
    <3>1. \A g \in Handlers : g > latest => ~(g <= latest)
      BY ConstantFacts DEF Handlers
    <3>2. NotYet' /\ ReadersInv'
      BY <2>1, <3>1 DEF Die, NotYet, ReadersInv, ReaderInv
    <3>3. QED
      BY <1>3, <2>1, <3>2 DEF ReadMalformed, Die
  <2>2. CASE /\ RejectionHandled(h)
             /\ place' = [place EXCEPT ![h] = "ended"]
             /\ log' = [log EXCEPT ![h] = "broken"]
             /\ pump' = [pump EXCEPT ![h] = "ended"]
             /\ DropQueue(h)
             /\ UNCHANGED <<fileVars, interrupted, latest, aborted, pos, read, sent, overlap>>
    <3>1. ~(h > latest) /\ log[h] # "none"
      BY <1>3, <2>2 DEF ReadMalformed, NotYet, RejectionHandled
    <3>2. latest' = latest /\ base' = base /\ pos' = pos /\ UNCHANGED faults
      BY <1>3, <2>2 DEF ReadMalformed
    <3>3. NotYet' /\ ReadersInv'
      BY <2>2, <3>1, <3>2 DEF NotYet, ReadersInv, ReaderInv
    <3>4. done' = [done EXCEPT ![h] = TRUE]
      BY <2>2 DEF DropQueue
    <3>5. QED
      BY <2>2, <3>2, <3>3, <3>4
  <2>3. QED
    BY <1>3, <2>1, <2>2 DEF ReadMalformed
<1>4. CASE TimerFires(h)
  BY <1>4 DEF TimerFires, NotYet, ReadersInv, ReaderInv
<1>5. CASE PumpEnds(h)
  BY <1>5 DEF PumpEnds, NotYet, ReadersInv, ReaderInv, queueVars
<1>6. CASE Truncate(h)
  <2>1. log' = [log EXCEPT ![h] = "disposed"] /\ log[h] # "none" /\ Empty({})
    BY <1>6 DEF Truncate
  <2>2. \A g \in Handlers : log[g] = "none" /\ g \notin {} => log'[g] = "none"
    BY <2>1
  <2>3. NotYet'
    BY <1>6, <2>1 DEF Truncate, NotYet
  <2>4. UNCHANGED <<interrupted, latest, aborted, place, pump, done, faults, overlap>>
    BY <1>6 DEF Truncate, queueVars
  <2>5. QED
    BY <2>1, <2>2, <2>3, <2>4, EmptyType
<1>7. CASE CreateFails(h)
  <2>1. /\ place[h] = "creating" /\ place' = [place EXCEPT ![h] = "ended"]
        /\ UNCHANGED <<fileVars, interrupted, latest, aborted, log, pump, pos, done, overlap>>
    BY <1>7 DEF CreateFails, queueVars
  <2>2. NotYet' /\ ReadersInv'
    BY <2>1 DEF NotYet, ReadersInv, ReaderInv
  <2>3. QED
    BY <1>7, <2>1, <2>2, FaultType DEF CreateFails
<1>8. CASE TruncateFails(h)
  <2>1. CASE Die
    <3>1. \A g \in Handlers : g > latest => ~(g <= latest)
      BY ConstantFacts DEF Handlers
    <3>2. NotYet' /\ ReadersInv'
      BY <2>1, <3>1 DEF Die, NotYet, ReadersInv, ReaderInv
    <3>3. QED
      BY <1>8, <2>1, <3>2, FaultType DEF TruncateFails, Die
  <2>2. CASE ~Die
    <3>1. /\ log[h] = "byHandler" /\ log' = [log EXCEPT ![h] = "broken"]
          /\ UNCHANGED <<fileVars, interrupted, latest, aborted, place, pump, pos, done, overlap>>
      BY <1>8, <2>2 DEF TruncateFails, queueVars
    <3>2. NotYet' /\ ReadersInv'
      BY <3>1 DEF NotYet, ReadersInv, ReaderInv
    <3>3. QED
      BY <1>8, <3>1, <3>2, FaultType DEF TruncateFails
  <2>3. QED
    BY <2>1, <2>2
<1>9. QED
  BY <1>1, <1>2, <1>3, <1>4, <1>5, <1>6, <1>7, <1>8 DEF LogStep

LEMMA RestLoop ==
    ASSUME RestInv, NEW h \in Handlers, LoopStep(h)
    PROVE  RestInv'
<1> USE DEF RestInv, RestTypes, Places, LogStates, fileVars, queueVars
<1>1. ASSUME place[h] # "none", Leave(h),
             UNCHANGED <<fileVars, interrupted, latest, aborted, pump, pos, overlap>>,
             faults' \in 0..MaxFaults
      PROVE  RestInv'
  <2>1. /\ place' = [place EXCEPT ![h] = "ended"] /\ done' = [done EXCEPT ![h] = TRUE]
        /\ log' = log \/ (log[h] = "open" /\ log' = [log EXCEPT ![h] = "byHandler"])
    BY <1>1 DEF Leave, DropQueue
  <2>2. NotYet' /\ ReadersInv'
    BY <1>1, <2>1 DEF NotYet, ReadersInv, ReaderInv
  <2>3. QED
    BY <1>1, <2>1, <2>2
<1>2. CASE TakeBatch(h)
  <2>1. CASE Leave(h)
    BY <1>1, <1>2, <2>1 DEF TakeBatch
  <2>2. CASE place' = [place EXCEPT ![h] = "posting"] /\ UNCHANGED <<log, done>>
    BY <1>2, <2>2 DEF TakeBatch, NotYet, ReadersInv, ReaderInv
  <2>3. QED
    BY <1>2, <2>1, <2>2 DEF TakeBatch
<1>3. CASE PostReturns(h)
  BY <1>3 DEF PostReturns, NotYet, ReadersInv, ReaderInv
<1>4. CASE PostFails(h)
  BY <1>1, <1>4, FaultType DEF PostFails
<1>5. CASE FinishLoop(h)
  BY <1>1, <1>5 DEF FinishLoop
<1>6. QED
  BY <1>2, <1>3, <1>4, <1>5 DEF LoopStep

LEMMA RestOther ==
    ASSUME RestInv, WriteLine \/ ReceiveMetadata \/ Interrupt \/ Crash \/ UNCHANGED vars
    PROVE  RestInv'
<1> USE DEF RestInv, RestTypes, Places, LogStates, fileVars, queueVars
<1>1. CASE WriteLine
  BY <1>1, ConstantFacts DEF WriteLine, NotYet, ReadersInv, ReaderInv
<1>2. CASE ReceiveMetadata
  <2> DEFINE h == latest + 1
  <2>1. h \in Handlers /\ latest' = h /\ h \in 0..MaxHandlers /\ h > latest
    BY <1>2, ConstantFacts DEF ReceiveMetadata, Handlers
  <2>2. log[h] = "none" /\ pos[h] >= 0
    BY <2>1 DEF NotYet, ReadersInv, ReaderInv
  <2>3. CASE exists
    <3> DEFINE newLog == [log EXCEPT ![h] = "open"]
    <3>1. /\ newLog \in [Handlers -> LogStates] /\ AbortLatest(newLog)
          /\ place' = [place EXCEPT ![h] = "idle"] /\ pump' = [pump EXCEPT ![h] = "running"]
          /\ overlap' \in [Handlers -> SUBSET Handlers]
          /\ pos' = [pos EXCEPT ![h] = base]
      BY <1>2, <2>1, <2>3 DEF ReceiveMetadata, Opened
    <3>2. /\ aborted' \in [Handlers -> BOOLEAN] /\ done' \in [Handlers -> BOOLEAN]
          /\ log' \in [Handlers -> LogStates]
          /\ \A g \in Handlers : (log'[g] # newLog[g]) => g = latest /\ log[g] = "open"
      BY <3>1, AbortRest
    <3>3. \A g \in Handlers : g > h => g > latest /\ g # h /\ g # latest
      BY <2>1 DEF Handlers
    <3>4. NotYet'
      BY <2>1, <3>1, <3>2, <3>3 DEF NotYet
    <3>5. ReadersInv'
      <4>1. base' = base /\ base \in Int /\ base >= 0
        BY <1>2, ConstantFacts DEF ReceiveMetadata
      <4>2. \A g \in Handlers : g # h => pos'[g] = pos[g] /\ (log'[g] # "none" => log[g] # "none")
        BY <3>1, <3>2
      <4>3. pos'[h] = base
        BY <2>1, <3>1
      <4>4. QED
        BY <4>1, <4>2, <4>3 DEF ReadersInv, ReaderInv
    <3>6. UNCHANGED <<exists, base, appended, malformed, interrupted, faults>>
      BY <1>2 DEF ReceiveMetadata
    <3>7. place' \in [Handlers -> Places] /\ pump' \in [Handlers -> {"off", "running", "ended"}]
      BY <3>1
    <3>8. pos' \in [Handlers -> Int]
      <4>1. base \in Int
        BY ConstantFacts
      <4>2. QED
        BY <3>1, <4>1
    <3>9. QED
      BY <2>1, <3>1, <3>2, <3>4, <3>5, <3>6, <3>7, <3>8
  <2>4. CASE ~exists
    <3>1. /\ AbortLatest(log) /\ UNCHANGED <<pump, pos, overlap>>
          /\ place' = [place EXCEPT ![h] = "creating"]
      BY <1>2, <2>4 DEF ReceiveMetadata
    <3>2. /\ aborted' \in [Handlers -> BOOLEAN] /\ done' \in [Handlers -> BOOLEAN]
          /\ log' \in [Handlers -> LogStates]
          /\ \A g \in Handlers : (log'[g] # log[g]) => g = latest /\ log[g] = "open"
      BY <3>1, AbortRest
    <3>3. \A g \in Handlers : g > h => g > latest /\ g # h /\ g # latest
      BY <2>1 DEF Handlers
    <3>4. NotYet' /\ ReadersInv'
      BY <1>2, <2>1, <3>1, <3>2, <3>3 DEF NotYet, ReadersInv, ReaderInv, ReceiveMetadata
    <3>5. QED
      BY <1>2, <2>1, <3>1, <3>2, <3>4 DEF ReceiveMetadata
  <2>5. QED
    BY <2>3, <2>4
<1>3. CASE Interrupt
  <2>1. AbortLatest(log) /\ log \in [Handlers -> LogStates]
    BY <1>3 DEF Interrupt
  <2>2. /\ aborted' \in [Handlers -> BOOLEAN] /\ done' \in [Handlers -> BOOLEAN]
        /\ log' \in [Handlers -> LogStates]
        /\ \A g \in Handlers : (log'[g] # log[g]) => g = latest /\ log[g] = "open"
    BY <2>1, AbortRest
  <2>3. QED
    BY <1>3, <2>2 DEF Interrupt, NotYet, ReadersInv, ReaderInv
<1>4. CASE Crash
  <2>1. \A g \in Handlers : g > latest => ~(g <= latest)
    BY ConstantFacts DEF Handlers
  <2>2. NotYet' /\ ReadersInv'
    BY <1>4, <2>1 DEF Crash, Die, NotYet, ReadersInv, ReaderInv
  <2>3. QED
    BY <1>4, <2>2, FaultType DEF Crash, Die
<1>5. CASE UNCHANGED vars
  BY <1>5 DEF vars, NotYet, ReadersInv, ReaderInv
<1>6. QED
  BY <1>1, <1>2, <1>3, <1>4, <1>5

\* Nothing is queued for a handler that has not started.
NoQueueYet == \A h \in Handlers : h > latest => pending[h] = <<>> /\ ready[h] = <<>>

LEMMA NoQueueYetInductive ==
    ASSUME TypeOK, ShapeInv, QueueStep, latest' >= latest, latest' \in Nat
    PROVE  NoQueueYet'
<1> SUFFICES ASSUME NEW g \in Handlers, g > latest'
             PROVE  pending'[g] = <<>> /\ ready'[g] = <<>>
  BY DEF NoQueueYet
<1>1. g > latest /\ pending[g] = <<>> /\ ready[g] = <<>>
  BY DEF TypeOK, Handlers, ShapeInv, UnstartedInv
<1>2. CASE Same \/ DropAll
  BY <1>1, <1>2 DEF Same, DropAll
<1>3. ASSUME NEW h \in Handlers, Flush(h)
      PROVE  pending'[g] = <<>> /\ ready'[g] = <<>>
  <2>1. /\ pending' = [pending EXCEPT ![h] = <<>>]
        /\ ready' = [ready EXCEPT ![h] = ready[h] \o pending[h]]
    BY <1>3 DEF Flush, FlushOf
  <2>2. <<>> \o <<>> = <<>>
    OBVIOUS
  <2>3. QED
    BY <1>1, <2>1, <2>2 DEF TypeOK
<1>4. ASSUME NEW h \in Handlers, Drop(h)
      PROVE  pending'[g] = <<>> /\ ready'[g] = <<>>
  BY <1>1, <1>4 DEF Drop, DropQueue, TypeOK
<1>5. ASSUME NEW h \in Handlers, Take(h)
      PROVE  pending'[g] = <<>> /\ ready'[g] = <<>>
  <2>1. g # h
    <3>1. ends[h] # <<>> /\ ends[h] \in Seq(Int) /\ EndsInv(h)
      BY <1>5 DEF Take, TypeOK, ShapeInv
    <3>2. ends[h][1] \in 1..Len(ready[h])
      BY <3>1, EmptySeq DEF EndsInv
    <3>3. QED
      BY <1>1, <3>2
  <2>2. QED
    BY <1>1, <1>5, <2>1 DEF Take
<1>6. ASSUME NEW h \in Handlers, h <= latest, NEW l \in Lines, PushOf(h, l)
      PROVE  pending'[g] = <<>> /\ ready'[g] = <<>>
  <2>1. g # h
    BY <1>1, <1>6 DEF TypeOK, Handlers
  <2>2. QED
    BY <1>1, <1>6, <2>1 DEF PushOf, Push, FlushOf, TypeOK
<1>7. QED
  BY <1>2, <1>3, <1>4, <1>5, <1>6 DEF QueueStep

LEMMA LatestGrows ==
    ASSUME TypeOK, [Next]_vars
    PROVE  latest' \in Nat /\ latest' >= latest
<1>1. latest \in Nat
  BY ConstantFacts DEF TypeOK
<1>2. ASSUME NEW h \in Handlers, LogStep(h) \/ LoopStep(h)
      PROVE  latest' = latest
  BY <1>2 DEF LogStep, LoopStep, CreateFile, CreateFails, ReadLine, ReadMalformed, Die, TimerFires,
     PumpEnds, Truncate, TruncateFails, TakeBatch, PostReturns, PostFails, FinishLoop
<1>3. CASE ReceiveMetadata
  BY <1>1, <1>3 DEF ReceiveMetadata
<1>4. CASE WriteLine \/ Interrupt \/ Crash \/ UNCHANGED vars
  BY <1>1, <1>4 DEF WriteLine, Interrupt, Crash, Die, vars
<1>5. QED
  BY <1>1, <1>2, <1>3, <1>4 DEF Next

LEMMA ShapeParts ==
    ShapeInv <=> (\A h \in Handlers : EndsInv(h)) /\ ReadersInv /\ NotYet /\ NoQueueYet
BY DEF ShapeInv, ReadersInv, NotYet, NoQueueYet, UnstartedInv

LEMMA ShapeInductive ==
    ASSUME TypeOK, ShapeInv, [Next]_vars
    PROVE  TypeOK' /\ ShapeInv' /\ QueueStep
<1>1. RestInv /\ QueueTypes /\ \A h \in Handlers : EndsInv(h)
  BY TypesTogether, ShapeParts DEF RestInv
<1>2. QueueStep
  BY QueueChanges
<1>3. QueueTypes' /\ \A h \in Handlers : EndsInv(h)'
  BY <1>1, <1>2, QueueType
<1>4. RestInv'
  BY <1>1, RestLog, RestLoop, RestOther DEF Next
<1>5. NoQueueYet'
  BY <1>2, LatestGrows, NoQueueYetInductive
<1>6. TypeOK'
  BY <1>3, <1>4 DEF RestInv, TypeOK, RestTypes, QueueTypes
<1>7. ShapeInv'
  BY <1>3, <1>4, <1>5 DEF RestInv, ShapeInv, ReadersInv, NotYet, NoQueueYet, UnstartedInv
<1>8. QED
  BY <1>2, <1>6, <1>7

LEMMA ShapeInit == Init => TypeOK /\ ShapeInv
<1> SUFFICES ASSUME Init
             PROVE  TypeOK /\ ShapeInv
  OBVIOUS
<1>1. <<>> \in Seq(Lines) /\ <<>> \in Seq(Int) /\ 1..Len(<<>>) = {}
  OBVIOUS
<1>2. QueueTypes
  BY <1>1 DEF Init, QueueTypes
<1>3. RestTypes
  <2>1. /\ aborted \in [Handlers -> BOOLEAN] /\ done \in [Handlers -> BOOLEAN]
        /\ interrupted \in BOOLEAN /\ exists \in BOOLEAN
    BY DEF Init
  <2>2. /\ place \in [Handlers -> Places] /\ log \in [Handlers -> LogStates]
        /\ pump \in [Handlers -> {"off", "running", "ended"}]
    BY DEF Init, Places, LogStates
  <2>3. pos \in [Handlers -> Int] /\ overlap \in [Handlers -> SUBSET Handlers]
    BY DEF Init
  <2>4. QED
    BY <2>1, <2>2, <2>3, ConstantFacts DEF Init, RestTypes
<1>4. ShapeInv
  BY <1>1, ConstantFacts DEF Init, ShapeInv, EndsInv, ReaderInv, UnstartedInv
<1>5. QED
  BY <1>2, <1>3, <1>4, TypesTogether

\* Every variable keeps its type.
THEOREM TypeCorrect == Spec => []TypeOK
BY ShapeInit, ShapeInductive, PTL DEF Spec

-----------------------------------------------------------------------------
(* Batching neither loses nor repeats nor reorders a line                  *)

Front(s, t) == Len(s) <= Len(t) /\ s = SubSeq(t, 1, Len(s))

PipelineInv(h) ==
    IF place[h] = "ended" THEN Front(sent[h], read[h])
    ELSE read[h] = sent[h] \o ready[h] \o pending[h]

\* A handler that has ended never goes on.
LEMMA EndedStays ==
    ASSUME TypeOK, ShapeInv, [Next]_vars, NEW g \in Handlers, place[g] = "ended"
    PROVE  place'[g] = "ended"
<1> USE DEF TypeOK
<1>1. ~(g > latest)
  BY DEF ShapeInv, UnstartedInv
<1>2. CASE WriteLine \/ Interrupt \/ UNCHANGED vars
  BY <1>2 DEF WriteLine, Interrupt, vars
<1>3. CASE ReceiveMetadata
  <2>1. g # latest + 1
    BY <1>1, <1>3, ConstantFacts DEF Handlers
  <2>2. QED
    BY <1>3, <2>1 DEF ReceiveMetadata, Opened
<1>4. CASE Crash
  BY <1>4 DEF Crash, Die
<1>5. ASSUME NEW h \in Handlers, LogStep(h)
      PROVE  place'[g] = "ended"
  BY <1>5 DEF LogStep, CreateFile, CreateFails, Opened, ReadLine, ReadMalformed, Die, TimerFires,
     PumpEnds, Truncate, TruncateFails
<1>6. ASSUME NEW h \in Handlers, LoopStep(h)
      PROVE  place'[g] = "ended"
  BY <1>6 DEF LoopStep, TakeBatch, Leave, PostReturns, PostFails, FinishLoop
<1>7. QED
  BY <1>2, <1>3, <1>4, <1>5, <1>6 DEF Next

LEMMA Associative ==
    \A s, t, u \in Seq(Lines) : (s \o t) \o u = s \o (t \o u)
BY ConcatAssociative

LEMMA FrontOfConcat ==
    ASSUME NEW s \in Seq(Lines), NEW t \in Seq(Lines)
    PROVE  Front(s, s \o t)
<1>1. Len(s) \in Nat /\ Len(t) \in Nat /\ s \o t \in Seq(Lines) /\ Len(s \o t) = Len(s) + Len(t)
  BY LenProperties, ConcatProperties
<1>2. \A i \in 1..Len(s) : (s \o t)[i] = s[i]
  BY <1>1, ConcatProperties
<1>3. Len(s) \in 0..Len(s) /\ Len(s) \in 0..Len(s \o t)
  BY <1>1
<1>4. SubSeq(s, 1, Len(s)) = Restrict(s, 1..Len(s))
  BY <1>3, SubSeqRestrict
<1>5. SubSeq(s \o t, 1, Len(s)) = Restrict(s \o t, 1..Len(s))
  BY <1>1, <1>3, SubSeqRestrict
<1>6. Restrict(s \o t, 1..Len(s)) = Restrict(s, 1..Len(s))
  BY <1>2 DEF Restrict
<1>7. QED
  BY <1>1, <1>4, <1>5, <1>6, SubSeqFull DEF Front

LEMMA FrontOfAppend ==
    ASSUME NEW s \in Seq(Lines), NEW t \in Seq(Lines), NEW l \in Lines, Front(s, t)
    PROVE  Front(s, Append(t, l))
<1>1. /\ Len(s) \in Nat /\ Len(t) \in Nat
      /\ Append(t, l) \in Seq(Lines) /\ Len(Append(t, l)) = Len(t) + 1
      /\ \A i \in 1..Len(t) : Append(t, l)[i] = t[i]
  BY LenProperties, AppendProperties
<1>2. Len(s) \in 0..Len(t) /\ Len(s) \in 0..Len(Append(t, l))
  BY <1>1 DEF Front
<1>3. SubSeq(t, 1, Len(s)) = Restrict(t, 1..Len(s))
  BY <1>2, SubSeqRestrict
<1>4. SubSeq(Append(t, l), 1, Len(s)) = Restrict(Append(t, l), 1..Len(s))
  BY <1>1, <1>2, SubSeqRestrict
<1>5. Restrict(Append(t, l), 1..Len(s)) = Restrict(t, 1..Len(s))
  BY <1>1, <1>2 DEF Restrict
<1>6. QED
  BY <1>1, <1>3, <1>4, <1>5 DEF Front

LEMMA Sequences ==
    ASSUME TypeOK, NEW h \in Handlers
    PROVE  /\ pending[h] \in Seq(Lines) /\ ready[h] \in Seq(Lines)
           /\ sent[h] \in Seq(Lines) /\ read[h] \in Seq(Lines)
           /\ sent[h] \o ready[h] \in Seq(Lines)
           /\ ready[h] \o pending[h] \in Seq(Lines)
BY ConcatProperties DEF TypeOK

\* A loop that ends leaves what it has not posted.
LEMMA LeavesFront ==
    ASSUME TypeOK, NEW g \in Handlers, PipelineInv(g)
    PROVE  Front(sent[g], read[g])
<1>1. CASE place[g] = "ended"
  BY <1>1 DEF PipelineInv
<1>2. CASE place[g] # "ended"
  <2>1. read[g] = sent[g] \o (ready[g] \o pending[g])
    BY <1>2, Sequences, Associative DEF PipelineInv
  <2>2. QED
    BY <2>1, Sequences, FrontOfConcat
<1>3. QED
  BY <1>1, <1>2

LEMMA PipelineInductive ==
    ASSUME TypeOK, ShapeInv, [Next]_vars, NEW g \in Handlers, PipelineInv(g)
    PROVE  PipelineInv(g)'
<1>1. QueueStep /\ (place[g] = "ended" => place'[g] = "ended")
  BY ShapeInductive, EndedStays
<1>2. Front(sent[g], read[g])
  BY LeavesFront
<1>3. ASSUME sent'[g] = sent[g], read'[g] = read[g],
             ready'[g] = ready[g], pending'[g] = pending[g]
      PROVE  PipelineInv(g)'
  BY <1>1, <1>2, <1>3 DEF PipelineInv
<1>4. ASSUME place'[g] = "ended", sent'[g] = sent[g], read'[g] = read[g]
      PROVE  PipelineInv(g)'
  BY <1>2, <1>4 DEF PipelineInv
<1>5. CASE Same
  BY <1>3, <1>5 DEF Same
<1>6. CASE DropAll
  <2>1. CASE g <= latest
    BY <1>4, <1>6, <2>1 DEF DropAll
  <2>2. CASE g > latest
    <3>1. pending[g] = <<>> /\ ready[g] = <<>>
      BY <2>2 DEF ShapeInv, UnstartedInv
    <3>2. QED
      BY <1>3, <1>6, <3>1 DEF DropAll
  <2>3. QED
    BY <2>1, <2>2 DEF TypeOK, Handlers
<1>7. ASSUME NEW h \in Handlers, Flush(h)
      PROVE  PipelineInv(g)'
  <2>1. CASE g # h
    BY <1>3, <1>7, <2>1 DEF Flush, FlushOf, TypeOK
  <2>2. CASE g = h
    <3>1. /\ ready'[g] = ready[g] \o pending[g] /\ pending'[g] = <<>>
          /\ sent'[g] = sent[g] /\ read'[g] = read[g]
      BY <1>7, <2>2 DEF Flush, FlushOf, TypeOK
    <3>2. (sent[g] \o (ready[g] \o pending[g])) \o <<>> = (sent[g] \o ready[g]) \o pending[g]
      <4>1. sent[g] \o (ready[g] \o pending[g]) = (sent[g] \o ready[g]) \o pending[g]
        <5>1. sent[g] \in Seq(Lines) /\ ready[g] \in Seq(Lines) /\ pending[g] \in Seq(Lines)
          BY Sequences
        <5>2. QED
          BY <5>1, Associative
      <4>2. sent[g] \o (ready[g] \o pending[g]) \in Seq(Lines)
        BY Sequences, ConcatProperties
      <4>3. \A s \in Seq(Lines) : s \o <<>> = s
        BY ConcatEmptySeq
      <4>4. QED
        BY <4>1, <4>2, <4>3
    <3>3. QED
      BY <1>1, <1>2, <3>1, <3>2 DEF PipelineInv
  <2>3. QED
    BY <2>1, <2>2
<1>8. ASSUME NEW h \in Handlers, Drop(h)
      PROVE  PipelineInv(g)'
  <2>1. CASE g # h
    BY <1>3, <1>8, <2>1 DEF Drop, DropQueue, TypeOK
  <2>2. CASE g = h
    BY <1>4, <1>8, <2>2 DEF Drop
  <2>3. QED
    BY <2>1, <2>2
<1>9. ASSUME NEW h \in Handlers, Take(h)
      PROVE  PipelineInv(g)'
  <2>1. CASE g # h
    BY <1>3, <1>9, <2>1 DEF Take, TypeOK
  <2>2. CASE g = h
    <3>1. sent'[g] \o ready'[g] = sent[g] \o ready[g]
      BY <1>9, <2>2, TakeType, TypesTogether, ShapeParts
    <3>2. /\ place[g] # "ended" /\ place'[g] # "ended"
          /\ pending'[g] = pending[g] /\ read'[g] = read[g]
      BY <1>9, <2>2 DEF Take
    <3>3. QED
      BY <3>1, <3>2 DEF PipelineInv
  <2>3. QED
    BY <2>1, <2>2
<1>10. ASSUME NEW h \in Handlers, NEW l \in Lines, PushOf(h, l)
       PROVE  PipelineInv(g)'
  <2> DEFINE p == Append(pending[h], l)
  <2>1. CASE g # h
    BY <1>3, <1>10, <2>1 DEF PushOf, Push, FlushOf, TypeOK
  <2>2. CASE g = h
    <3>1. /\ read'[g] = Append(read[g], l) /\ sent'[g] = sent[g]
          /\ \/ ready'[g] = ready[g] \o p /\ pending'[g] = <<>>
             \/ ready'[g] = ready[g] /\ pending'[g] = p
      BY <1>10, <2>2 DEF PushOf, Push, FlushOf, TypeOK
    <3>2. Front(sent[g], Append(read[g], l))
      BY <1>2, Sequences, FrontOfAppend
    <3>3. CASE place'[g] = "ended"
      BY <3>1, <3>2, <3>3 DEF PipelineInv
    <3>4. CASE place'[g] # "ended"
      <4>1. read[g] = (sent[g] \o ready[g]) \o pending[g]
        BY <1>1, <3>4 DEF PipelineInv
      <4>2. p \in Seq(Lines) /\ Append(read[g], l) = (sent[g] \o ready[g]) \o p
        <5>1. /\ <<l>> \in Seq(Lines) /\ p = pending[g] \o <<l>> /\ p \in Seq(Lines)
              /\ Append(read[g], l) = read[g] \o <<l>>
          BY <2>2, Sequences, AppendIsConcat, AppendProperties
        <5>2. ((sent[g] \o ready[g]) \o pending[g]) \o <<l>>
                 = (sent[g] \o ready[g]) \o (pending[g] \o <<l>>)
          <6>1. /\ sent[g] \o ready[g] \in Seq(Lines) /\ pending[g] \in Seq(Lines)
                /\ <<l>> \in Seq(Lines)
            BY <5>1, Sequences
          <6>2. QED
            BY <6>1, Associative
        <5>3. QED
          BY <4>1, <5>1, <5>2
      <4>3. (sent[g] \o (ready[g] \o p)) \o <<>> = (sent[g] \o ready[g]) \o p
        <5>1. sent[g] \o (ready[g] \o p) = (sent[g] \o ready[g]) \o p
          <6>1. p \in Seq(Lines) /\ sent[g] \in Seq(Lines) /\ ready[g] \in Seq(Lines)
            BY <4>2, Sequences
          <6> HIDE DEF p
          <6>2. QED
            BY <6>1, Associative
        <5>2. sent[g] \o (ready[g] \o p) \in Seq(Lines)
          <6>1. p \in Seq(Lines) /\ sent[g] \in Seq(Lines) /\ ready[g] \in Seq(Lines)
            BY <4>2, Sequences
          <6> HIDE DEF p
          <6>2. QED
            BY <6>1, ConcatProperties
        <5>3. \A s \in Seq(Lines) : s \o <<>> = s
          BY ConcatEmptySeq
        <5>4. QED
          BY <5>1, <5>2, <5>3
      <4>4. QED
        BY <3>1, <3>4, <4>2, <4>3 DEF PipelineInv
    <3>5. QED
      BY <3>3, <3>4
  <2>3. QED
    BY <2>1, <2>2
<1>11. QED
  BY <1>1, <1>5, <1>6, <1>7, <1>8, <1>9, <1>10 DEF QueueStep

PipelinesInv == \A h \in Handlers : PipelineInv(h)

LEMMA PipelinesStart == Init => PipelinesInv
<1> SUFFICES ASSUME Init, NEW h \in Handlers
             PROVE  PipelineInv(h)
  BY DEF PipelinesInv
<1>1. (<<>> \o <<>>) \o <<>> = <<>>
  OBVIOUS
<1>2. QED
  BY <1>1 DEF Init, PipelineInv

\* What a handler read is what it posted, followed by what its queue still
\* holds, in whatever order lines, timers, posts, aborts and crashes come.
THEOREM LinesInOrder == Spec => []PipelineInOrder
<1>1. Init => PipelinesInv
  BY PipelinesStart
<1>2. TypeOK /\ ShapeInv /\ PipelinesInv /\ [Next]_vars => TypeOK' /\ ShapeInv' /\ PipelinesInv'
  BY ShapeInductive, PipelineInductive DEF PipelinesInv
<1>3. PipelinesInv => PipelineInOrder
  BY DEF PipelinesInv, PipelineInv, Front, PipelineInOrder
<1>4. QED
  BY <1>1, <1>2, <1>3, ShapeInit, PTL DEF Spec
-----------------------------------------------------------------------------
(* A line is read twice only by handlers whose Logs overlapped             *)

ReadBy(h) == {read[h][i] : i \in DOMAIN read[h]}

\* What becomes of a handler that the step is not about.
Kept(g) ==
    /\ log'[g] = "none" <=> log[g] = "none"
    /\ log'[g] = "disposed" <=> log[g] = "disposed"
    /\ pump'[g] = "running" => pump[g] = "running"
    /\ log[g] # "none" => pos'[g] >= pos[g] \/ pos'[g] >= appended
    /\ read'[g] = read[g] /\ overlap'[g] = overlap[g]

Quiet == base' >= base /\ \A g \in Handlers : Kept(g)

Opening(h) ==
    /\ base' >= base /\ pos'[h] >= base'
    /\ log[h] = "none" /\ log'[h] = "open" /\ read'[h] = read[h]
    /\ overlap'[h] = {g \in Handlers : log[g] \notin {"none", "disposed"}}
    /\ \A g \in Handlers \ {h} : Kept(g)

Disposing(h) ==
    /\ base' = appended /\ pump'[h] = "ended"
    /\ log[h] # "none" /\ log'[h] = "disposed" /\ pos'[h] >= appended
    /\ read'[h] = read[h] /\ overlap'[h] = overlap[h]
    /\ \A g \in Handlers \ {h} : Kept(g)

Reading(h) ==
    /\ pump[h] = "running" /\ pos[h] < appended /\ pos'[h] = pos[h] + 1
    /\ UNCHANGED <<base, log, pump, overlap>>
    /\ \E l \in Lines : l = pos[h] + 1 /\ read'[h] \in {read[h], Append(read[h], l)}
    /\ \A g \in Handlers \ {h} : Kept(g)

ReaderStep ==
    /\ appended' >= appended
    /\ Quiet \/ \E h \in Handlers : Opening(h) \/ Disposing(h) \/ Reading(h)

NoLogYet == \A h \in Handlers : place[h] = "creating" => log[h] = "none"

LEMMA NoLogYetInductive ==
    ASSUME TypeOK, ShapeInv, NoLogYet, [Next]_vars
    PROVE  NoLogYet'
<1> USE DEF TypeOK, NoLogYet
<1>1. CASE WriteLine \/ UNCHANGED vars
  BY <1>1 DEF WriteLine, vars
<1>2. CASE ReceiveMetadata
  <2> DEFINE h == latest + 1
  <2>1. h \in Handlers /\ h # latest /\ log[h] = "none"
    BY <1>2, ConstantFacts DEF ReceiveMetadata, Handlers, ShapeInv, UnstartedInv
  <2>2. CASE exists
    <3>1. /\ AbortLatest([log EXCEPT ![h] = "open"])
          /\ place' = [place EXCEPT ![h] = "idle"]
      BY <1>2, <2>2 DEF ReceiveMetadata, Opened
    <3> HIDE DEF h
    <3>2. \A g \in Handlers : g # h => log'[g] = log[g] \/ log[g] = "open"
      BY <2>1, <3>1 DEF AbortLatest
    <3>3. QED
      BY <2>1, <3>1, <3>2
  <2>3. CASE ~exists
    <3>1. AbortLatest(log) /\ place' = [place EXCEPT ![h] = "creating"]
      BY <1>2, <2>3 DEF ReceiveMetadata
    <3> HIDE DEF h
    <3>2. \A g \in Handlers : log'[g] = log[g] \/ log[g] = "open"
      BY <2>1, <3>1 DEF AbortLatest
    <3>3. QED
      BY <2>1, <3>1, <3>2
  <2>4. QED
    BY <2>2, <2>3
<1>3. CASE Interrupt
  BY <1>3 DEF Interrupt, AbortLatest
<1>4. CASE Crash
  BY <1>4 DEF Crash, Die
<1>5. ASSUME NEW h \in Handlers, LogStep(h)
      PROVE  NoLogYet'
  BY <1>5 DEF LogStep, CreateFile, CreateFails, Opened, ReadLine, ReadMalformed, Die, TimerFires,
     PumpEnds, Truncate, TruncateFails
<1>6. ASSUME NEW h \in Handlers, LoopStep(h)
      PROVE  NoLogYet'
  BY <1>6 DEF LoopStep, TakeBatch, Leave, PostReturns, PostFails, FinishLoop
<1>7. QED
  BY <1>1, <1>2, <1>3, <1>4, <1>5, <1>6 DEF Next

\* Whoever has a Log when the file is emptied goes on after what it held.
LEMMA EmptyMoves ==
    ASSUME TypeOK, ShapeInv, NEW openers \in SUBSET Handlers, Empty(openers)
    PROVE  /\ base' = appended /\ base' >= base /\ appended' = appended
           /\ \A g \in Handlers : log[g] # "none" /\ g \notin openers => pos'[g] >= appended
           /\ \A g \in openers : pos'[g] = appended
<1>1. base \in Int /\ appended \in Int /\ base <= appended
  BY ConstantFacts DEF TypeOK
<1>2. \A g \in Handlers : log[g] # "none" => pos[g] \in Int /\ pos[g] >= base
  BY DEF TypeOK, ShapeInv, ReaderInv
<1>3. base' = appended /\ appended' = appended
  BY DEF Empty
<1>4. PICK keeps \in BOOLEAN :
         pos' = [h \in Handlers |->
                    IF h \in openers THEN appended
                    ELSE IF log[h] = "none" THEN pos[h]
                    ELSE IF keeps THEN appended + (pos[h] - base)
                    ELSE appended]
  BY DEF Empty
<1>5. QED
  BY <1>1, <1>2, <1>3, <1>4

\* An abort changes the Log that it closes, and no other.
LEMMA AbortKeeps ==
    ASSUME TypeOK, NEW newLog \in [Handlers -> LogStates], AbortLatest(newLog),
           NEW g \in Handlers, newLog[g] = log[g]
    PROVE  /\ log'[g] = "none" <=> log[g] = "none"
           /\ log'[g] = "disposed" <=> log[g] = "disposed"
<1>1. CASE latest > 0 /\ log[latest] = "open" /\ g = latest
  BY <1>1 DEF AbortLatest
<1>2. CASE ~(latest > 0 /\ log[latest] = "open" /\ g = latest)
  BY <1>2 DEF AbortLatest
<1>3. QED
  BY <1>1, <1>2

LEMMA ReaderOther ==
    ASSUME TypeOK, ShapeInv,
           WriteLine \/ ReceiveMetadata \/ Interrupt \/ Crash \/ UNCHANGED vars
    PROVE  ReaderStep
<1>1. base \in Int /\ appended \in Int /\ \A g \in Handlers : pos[g] \in Int
  BY ConstantFacts DEF TypeOK
<1>2. CASE WriteLine \/ UNCHANGED vars
  <2>1. \A g \in Handlers : Kept(g)
    BY <1>1, <1>2 DEF WriteLine, vars, Kept
  <2>2. QED
    BY <1>1, <1>2, <2>1 DEF WriteLine, vars, fileVars, ReaderStep, Quiet
<1>3. CASE ReceiveMetadata
  <2> DEFINE h == latest + 1
  <2>1. h \in Handlers /\ h # latest /\ log[h] = "none"
    BY <1>3, ConstantFacts DEF ReceiveMetadata, Handlers, ShapeInv, UnstartedInv, TypeOK
  <2>2. UNCHANGED <<base, appended, read>>
    BY <1>3 DEF ReceiveMetadata, fileVars
  <2>3. CASE exists
    <3>1. /\ AbortLatest([log EXCEPT ![h] = "open"]) /\ Opened(h)
          /\ pos' = [pos EXCEPT ![h] = base]
      BY <1>3, <2>3 DEF ReceiveMetadata
    <3> HIDE DEF h
    <3>2. [log EXCEPT ![h] = "open"] \in [Handlers -> LogStates]
      BY DEF TypeOK, LogStates
    <3>3. ASSUME NEW g \in Handlers \ {h}
          PROVE  Kept(g)
      <4>1. /\ log'[g] = "none" <=> log[g] = "none"
            /\ log'[g] = "disposed" <=> log[g] = "disposed"
        BY <3>1, <3>2, AbortKeeps DEF TypeOK
      <4>2. pos'[g] = pos[g] /\ pump'[g] = pump[g] /\ overlap'[g] = overlap[g]
        BY <3>1 DEF Opened, TypeOK
      <4>3. QED
        BY <1>1, <2>2, <4>1, <4>2 DEF Kept
    <3>4. log'[h] = "open"
      BY <2>1, <3>1 DEF AbortLatest, TypeOK
    <3>5. pos'[h] = base /\ overlap'[h] = {g \in Handlers : log[g] \notin {"none", "disposed"}}
      BY <2>1, <3>1 DEF Opened, TypeOK
    <3>6. Opening(h)
      BY <1>1, <2>1, <2>2, <3>3, <3>4, <3>5 DEF Opening
    <3>7. QED
      BY <1>1, <2>1, <2>2, <3>6 DEF ReaderStep
  <2>4. CASE ~exists
    <3>1. AbortLatest(log) /\ UNCHANGED <<pump, pos, overlap>>
      BY <1>3, <2>4 DEF ReceiveMetadata
    <3>2. log \in [Handlers -> LogStates]
      BY DEF TypeOK
    <3>3. \A g \in Handlers : Kept(g)
      BY <1>1, <2>2, <3>1, <3>2, AbortKeeps DEF Kept
    <3>4. QED
      BY <1>1, <2>2, <3>3 DEF ReaderStep, Quiet
  <2>5. QED
    BY <2>3, <2>4
<1>4. CASE Interrupt
  <2>1. AbortLatest(log) /\ UNCHANGED <<base, appended, read, pump, pos, overlap>>
    BY <1>4 DEF Interrupt, fileVars
  <2>2. log \in [Handlers -> LogStates]
    BY DEF TypeOK
  <2>3. \A g \in Handlers : Kept(g)
    BY <1>1, <2>1, <2>2, AbortKeeps DEF Kept
  <2>4. QED
    BY <1>1, <2>1, <2>3 DEF ReaderStep, Quiet
<1>5. CASE Crash
  <2>1. UNCHANGED <<base, appended>>
    BY <1>5 DEF Crash, Die, fileVars
  <2>2. \A g \in Handlers : Kept(g)
    BY <1>1, <1>5 DEF Crash, Die, Kept
  <2>3. QED
    BY <1>1, <2>1, <2>2 DEF ReaderStep, Quiet
<1>6. QED
  BY <1>2, <1>3, <1>4, <1>5

LEMMA ReaderLoop ==
    ASSUME TypeOK, NEW h \in Handlers, LoopStep(h)
    PROVE  ReaderStep
<1>1. base \in Int /\ appended \in Int /\ \A g \in Handlers : pos[g] \in Int
  BY ConstantFacts DEF TypeOK
<1>2. /\ UNCHANGED <<base, appended, pos, pump, read, overlap>>
      /\ log' \in {log, [log EXCEPT ![h] = "byHandler"]}
      /\ log' # log => log[h] = "open"
  BY DEF LoopStep, TakeBatch, Leave, PostReturns, PostFails, FinishLoop, fileVars
<1>3. \A g \in Handlers : Kept(g)
  BY <1>1, <1>2 DEF Kept, TypeOK
<1>4. QED
  BY <1>1, <1>2, <1>3 DEF ReaderStep, Quiet

LEMMA ReaderLog ==
    ASSUME TypeOK, ShapeInv, NoLogYet, NEW h \in Handlers, LogStep(h)
    PROVE  ReaderStep
<1>1. base \in Int /\ appended \in Int /\ \A g \in Handlers : pos[g] \in Int
  BY ConstantFacts DEF TypeOK
<1>2. CASE CreateFile(h)
  <2>1. /\ log[h] = "none" /\ log' = [log EXCEPT ![h] = "open"]
        /\ Empty({h}) /\ Opened(h) /\ UNCHANGED read
    BY <1>2 DEF CreateFile, NoLogYet
  <2>2. /\ base' = appended /\ base' >= base /\ appended' = appended
        /\ \A g \in Handlers : log[g] # "none" /\ g \notin {h} => pos'[g] >= appended
        /\ \A g \in {h} : pos'[g] = appended
    BY <2>1, EmptyMoves
  <2>3. ASSUME NEW g \in Handlers \ {h}
        PROVE  Kept(g)
    BY <2>1, <2>2 DEF Kept, Opened, TypeOK
  <2>4. Opening(h)
    BY <1>1, <2>1, <2>2, <2>3 DEF Opening, Opened, TypeOK
  <2>5. QED
    BY <1>1, <2>2, <2>4 DEF ReaderStep
<1>3. CASE Truncate(h)
  <2>1. /\ log[h] # "none" /\ log' = [log EXCEPT ![h] = "disposed"] /\ pump[h] = "ended"
        /\ Empty({}) /\ UNCHANGED <<pump, read, overlap>>
    BY <1>3 DEF Truncate
  <2>2. /\ base' = appended /\ base' >= base /\ appended' = appended
        /\ \A g \in Handlers : log[g] # "none" /\ g \notin {} => pos'[g] >= appended
    BY <2>1, EmptyMoves
  <2>3. ASSUME NEW g \in Handlers \ {h}
        PROVE  Kept(g)
    BY <2>1, <2>2 DEF Kept, TypeOK
  <2>4. Disposing(h)
    BY <1>1, <2>1, <2>2, <2>3 DEF Disposing, TypeOK
  <2>5. QED
    BY <1>1, <2>2, <2>4 DEF ReaderStep
<1>4. CASE ReadLine(h)
  <2>1. /\ pump[h] = "running" /\ pos[h] < appended
        /\ pos' = [pos EXCEPT ![h] = pos[h] + 1]
        /\ UNCHANGED <<base, appended, log, pump, overlap>>
    BY <1>4 DEF ReadLine, fileVars
  <2>2. pos[h] + 1 \in Lines
    BY <1>1, <2>1, ConstantFacts DEF ShapeInv, ReaderInv, Lines, TypeOK
  <2>3. read' = read \/ read' = [read EXCEPT ![h] = Append(read[h], pos[h] + 1)]
    BY <1>4 DEF ReadLine, Push
  <2>4. ASSUME NEW g \in Handlers \ {h}
        PROVE  Kept(g)
    BY <1>1, <2>1, <2>3 DEF Kept, TypeOK
  <2>5. Reading(h)
    BY <2>1, <2>2, <2>3, <2>4 DEF Reading, TypeOK
  <2>6. QED
    BY <1>1, <2>1, <2>5 DEF ReaderStep
<1>5. CASE ReadMalformed(h)
  <2>1. UNCHANGED <<base, appended, pos, read, overlap>>
    BY <1>5 DEF ReadMalformed, Die, fileVars
  <2>2. ASSUME NEW g \in Handlers
        PROVE  Kept(g)
    <3>1. CASE Die
      BY <1>1, <2>1, <3>1 DEF Die, Kept
    <3>2. CASE ~Die
      <4>1. /\ RejectionHandled(h)
            /\ log' = [log EXCEPT ![h] = "broken"] /\ pump' = [pump EXCEPT ![h] = "ended"]
        BY <1>5, <3>2 DEF ReadMalformed
      <4>2. log[h] \in {"open", "byHandler"}
        BY <4>1 DEF RejectionHandled
      <4>3. QED
        BY <1>1, <2>1, <4>1, <4>2 DEF Kept, TypeOK
    <3>3. QED
      BY <3>1, <3>2
  <2>3. QED
    BY <1>1, <2>1, <2>2 DEF ReaderStep, Quiet
<1>6. CASE TimerFires(h)
  BY <1>1, <1>6 DEF TimerFires, fileVars, Kept, ReaderStep, Quiet
<1>7. CASE PumpEnds(h)
  <2>1. /\ UNCHANGED <<base, appended, pos, read, overlap, log>>
        /\ pump' = [pump EXCEPT ![h] = "ended"]
    BY <1>7 DEF PumpEnds, fileVars
  <2>2. \A g \in Handlers : Kept(g)
    BY <1>1, <2>1 DEF Kept, TypeOK
  <2>3. QED
    BY <1>1, <2>1, <2>2 DEF ReaderStep, Quiet
<1>8. CASE CreateFails(h) \/ TruncateFails(h)
  <2>1. UNCHANGED <<base, appended, pos, read, overlap>>
    BY <1>8 DEF CreateFails, TruncateFails, Die, fileVars
  <2>2. ASSUME NEW g \in Handlers
        PROVE  Kept(g)
    <3>1. CASE Die
      BY <1>1, <2>1, <3>1 DEF Die, Kept
    <3>2. CASE UNCHANGED <<log, pump>>
      BY <1>1, <2>1, <3>2 DEF Kept
    <3>3. CASE log[h] = "byHandler" /\ log' = [log EXCEPT ![h] = "broken"] /\ UNCHANGED pump
      BY <1>1, <2>1, <3>3 DEF Kept, TypeOK
    <3>4. QED
      BY <1>8, <3>1, <3>2, <3>3 DEF CreateFails, TruncateFails
  <2>3. QED
    BY <1>1, <2>1, <2>2 DEF ReaderStep, Quiet
<1>9. QED
  BY <1>2, <1>3, <1>4, <1>5, <1>6, <1>7, <1>8 DEF LogStep

LEMMA ReaderChanges ==
    ASSUME TypeOK, ShapeInv, NoLogYet, [Next]_vars
    PROVE  ReaderStep
BY ReaderOther, ReaderLoop, ReaderLog DEF Next

\* What a handler has read is still in the file or was, before it was emptied.
ReadsInv(h) ==
    /\ \A l \in ReadBy(h) : l <= appended
    /\ log[h] = "none" => pump[h] # "running" /\ ReadBy(h) = {}
    /\ log[h] = "disposed" => pump[h] # "running" /\ \A l \in ReadBy(h) : l <= base

\* The Log of g was disposed of before h read its first line.
Earlier(g, h) ==
    /\ log[g] = "disposed"
    /\ \A l \in ReadBy(g) : l <= pos[h] /\ \A k \in ReadBy(h) : l < k

Apart(g, h) ==
    (/\ log[g] # "none" /\ log[h] # "none"
     /\ g \notin overlap[h] /\ h \notin overlap[g]) => Earlier(g, h) \/ Earlier(h, g)

RereadInv ==
    /\ \A h \in Handlers : ReadsInv(h)
    /\ \A g, h \in Handlers : g # h => Apart(g, h)

LEMMA ReadTypes ==
    ASSUME TypeOK
    PROVE  /\ base \in Int /\ appended \in Int /\ base <= appended
           /\ \A h \in Handlers : pos[h] \in Int
           /\ \A h \in Handlers : \A l \in ReadBy(h) : l \in Int
<1>1. \A h \in Handlers : ReadBy(h) \subseteq Lines
  BY DEF ReadBy, TypeOK
<1>2. QED
  BY <1>1, ConstantFacts DEF TypeOK, Lines

LEMMA ReadMore ==
    ASSUME TypeOK, NEW h \in Handlers, Reading(h)
    PROVE  \A l \in ReadBy(h)' : l \in ReadBy(h) \/ l = pos[h] + 1
<1>1. PICK l \in Lines : l = pos[h] + 1 /\ read'[h] \in {read[h], Append(read[h], l)}
  BY DEF Reading
<1>2. read[h] \in Seq(Lines)
  BY DEF TypeOK
<1>3. CASE read'[h] = read[h]
  BY <1>3 DEF ReadBy
<1>4. CASE read'[h] = Append(read[h], l)
  <2>1. /\ DOMAIN read'[h] = 1..(Len(read[h]) + 1) /\ Len(read[h]) \in Nat
        /\ DOMAIN read[h] = 1..Len(read[h])
        /\ \A i \in 1..Len(read[h]) : read'[h][i] = read[h][i]
        /\ read'[h][Len(read[h]) + 1] = l
    BY <1>2, <1>4
  <2>2. QED
    BY <1>1, <2>1 DEF ReadBy
<1>5. QED
  BY <1>1, <1>3, <1>4

LEMMA KeptReads ==
    ASSUME TypeOK, NEW h \in Handlers, ReadsInv(h), Kept(h), base' >= base, appended' >= appended,
           base' \in Int, appended' \in Int
    PROVE  ReadsInv(h)'
<1>1. ReadBy(h)' = ReadBy(h)
  BY DEF Kept, ReadBy
<1>2. QED
  BY <1>1, ReadTypes DEF ReadsInv, Kept

LEMMA ReadsInductive ==
    ASSUME TypeOK, TypeOK', ReaderStep, NEW h \in Handlers, ReadsInv(h)
    PROVE  ReadsInv(h)'
<1>1. appended' >= appended /\ base' \in Int /\ appended' \in Int
  BY ReadTypes, ConstantFacts DEF ReaderStep, TypeOK
<1>2. CASE Quiet
  BY <1>1, <1>2, KeptReads DEF Quiet
<1>3. ASSUME NEW k \in Handlers, Opening(k)
      PROVE  ReadsInv(h)'
  <2>1. CASE h # k
    BY <1>1, <1>3, <2>1, KeptReads DEF Opening
  <2>2. CASE h = k
    <3>1. log[h] = "none" /\ log'[h] = "open" /\ ReadBy(h)' = ReadBy(h)
      BY <1>3, <2>2 DEF Opening, ReadBy
    <3>2. QED
      BY <3>1 DEF ReadsInv
  <2>3. QED
    BY <2>1, <2>2
<1>4. ASSUME NEW k \in Handlers, Disposing(k)
      PROVE  ReadsInv(h)'
  <2>1. base' >= base
    BY <1>4, ReadTypes DEF Disposing
  <2>2. CASE h # k
    BY <1>1, <1>4, <2>1, <2>2, KeptReads DEF Disposing
  <2>3. CASE h = k
    <3>1. /\ log'[h] = "disposed" /\ pump'[h] = "ended" /\ base' = appended
          /\ ReadBy(h)' = ReadBy(h)
      BY <1>4, <2>3 DEF Disposing, ReadBy
    <3>2. QED
      BY <1>1, <3>1, ReadTypes DEF ReadsInv
  <2>4. QED
    BY <2>2, <2>3
<1>5. ASSUME NEW k \in Handlers, Reading(k)
      PROVE  ReadsInv(h)'
  <2>1. base' >= base
    BY <1>5, ReadTypes DEF Reading
  <2>2. CASE h # k
    BY <1>1, <1>5, <2>1, <2>2, KeptReads DEF Reading
  <2>3. CASE h = k
    <3>1. pump[h] = "running" /\ log' = log /\ pos[h] < appended
      BY <1>5, <2>3 DEF Reading
    <3>2. \A l \in ReadBy(h)' : l \in ReadBy(h) \/ l = pos[h] + 1
      BY <1>5, <2>3, ReadMore
    <3>3. \A l \in ReadBy(h)' : l <= appended'
      BY <1>1, <3>1, <3>2, ReadTypes DEF ReadsInv
    <3>4. QED
      BY <3>1, <3>3 DEF ReadsInv
  <2>4. QED
    BY <2>2, <2>3
<1>6. QED
  BY <1>2, <1>3, <1>4, <1>5 DEF ReaderStep

\* A step that neither opens the Log of a handler nor reads for it.
Calm(g) ==
    /\ log'[g] = "none" <=> log[g] = "none"
    /\ log[g] = "disposed" => log'[g] = "disposed"
    /\ log[g] # "none" => pos'[g] >= pos[g] \/ pos'[g] >= appended
    /\ read'[g] = read[g] /\ overlap'[g] = overlap[g]

LEMMA CalmEarlier ==
    ASSUME TypeOK, TypeOK', NEW g \in Handlers, NEW h \in Handlers, Calm(g), Calm(h),
           ReadsInv(g), log[h] # "none", Earlier(g, h)
    PROVE  Earlier(g, h)'
<1>1. ReadBy(g)' = ReadBy(g) /\ ReadBy(h)' = ReadBy(h)
  BY DEF Calm, ReadBy
<1>2. log'[g] = "disposed"
  BY DEF Calm, Earlier
<1>3. ASSUME NEW l \in ReadBy(g)
      PROVE  l <= pos'[h]
  <2>1. l <= pos[h] /\ l <= appended /\ (pos'[h] >= pos[h] \/ pos'[h] >= appended)
    BY <1>3 DEF Earlier, ReadsInv, Calm
  <2>2. l \in Int /\ pos[h] \in Int /\ appended \in Int
    BY ReadTypes
  <2>3. pos'[h] \in Int
    BY DEF TypeOK
  <2>4. QED
    BY <2>1, <2>2, <2>3
<1>4. QED
  BY <1>1, <1>2, <1>3 DEF Earlier

LEMMA CalmApart ==
    ASSUME TypeOK, TypeOK', NEW g \in Handlers, NEW h \in Handlers, Calm(g), Calm(h),
           ReadsInv(g), ReadsInv(h), Apart(g, h)
    PROVE  Apart(g, h)'
<1> SUFFICES ASSUME log'[g] # "none", log'[h] # "none",
                    g \notin overlap'[h], h \notin overlap'[g]
             PROVE  Earlier(g, h)' \/ Earlier(h, g)'
  BY DEF Apart
<1>1. /\ log[g] # "none" /\ log[h] # "none"
      /\ g \notin overlap[h] /\ h \notin overlap[g]
  BY DEF Calm
<1>2. Earlier(g, h) \/ Earlier(h, g)
  BY <1>1 DEF Apart
<1>3. QED
  BY <1>1, <1>2, CalmEarlier

\* A Log that is opened finds only lines that no disposed Log has read.
LEMMA OpeningApart ==
    ASSUME TypeOK, TypeOK', NEW g \in Handlers, NEW h \in Handlers, g # h,
           ReadsInv(g), ReadsInv(h), Opening(h)
    PROVE  Apart(g, h)'
<1> SUFFICES ASSUME log'[g] # "none", g \notin overlap'[h]
             PROVE  Earlier(g, h)'
  BY DEF Apart
<1>1. Kept(g) /\ log[h] = "none" /\ read'[h] = read[h]
  BY DEF Opening
<1>2. log[g] = "disposed" /\ log'[g] = "disposed"
  BY <1>1 DEF Opening, Kept
<1>3. ReadBy(g)' = ReadBy(g) /\ ReadBy(h)' = {}
  BY <1>1 DEF Kept, ReadBy, ReadsInv
<1>4. ASSUME NEW l \in ReadBy(g)
      PROVE  l <= pos'[h]
  <2>1. l <= base /\ base' >= base /\ pos'[h] >= base'
    BY <1>2, <1>4 DEF ReadsInv, Opening
  <2>2. l \in Int /\ base \in Int
    BY ReadTypes
  <2>3. base' \in Int /\ pos'[h] \in Int
    BY ConstantFacts DEF TypeOK
  <2>4. QED
    BY <2>1, <2>2, <2>3
<1>5. QED
  BY <1>2, <1>3, <1>4 DEF Earlier

\* A line that is read comes after all that the disposed Logs have read.
LEMMA ReadingApart ==
    ASSUME TypeOK, TypeOK', NEW g \in Handlers, NEW h \in Handlers, g # h,
           ReadsInv(h), Apart(g, h), Reading(h)
    PROVE  Apart(g, h)'
<1> SUFFICES ASSUME log[g] # "none", log[h] # "none",
                    g \notin overlap[h], h \notin overlap[g]
             PROVE  Earlier(g, h)'
  BY DEF Apart, Reading
<1>1. Earlier(g, h)
  BY DEF Apart, Earlier, ReadsInv, Reading
<1>2. /\ log'[g] = "disposed" /\ pos'[h] = pos[h] + 1
      /\ ReadBy(g)' = ReadBy(g)
  BY <1>1 DEF Earlier, Reading, Kept, ReadBy
<1>3. \A k \in ReadBy(h)' : k \in ReadBy(h) \/ k = pos[h] + 1
  BY ReadMore
<1>4. QED
  BY <1>1, <1>2, <1>3, ReadTypes DEF Earlier

LEMMA ApartBothWays ==
    ASSUME NEW g, NEW h
    PROVE  Apart(g, h) <=> Apart(h, g)
BY DEF Apart

LEMMA KeptCalm ==
    ASSUME NEW g, Kept(g)
    PROVE  Calm(g)
BY DEF Kept, Calm

LEMMA ApartInductive ==
    ASSUME TypeOK, TypeOK', ReaderStep, NEW g \in Handlers, NEW h \in Handlers, g # h,
           ReadsInv(g), ReadsInv(h), Apart(g, h)
    PROVE  Apart(g, h)'
<1>1. CASE Quiet
  BY <1>1, KeptCalm, CalmApart DEF Quiet
<1>2. ASSUME NEW k \in Handlers, k # g, k # h, Opening(k) \/ Disposing(k) \/ Reading(k)
      PROVE  Apart(g, h)'
  <2>1. Kept(g) /\ Kept(h)
    BY <1>2 DEF Opening, Disposing, Reading
  <2>2. QED
    BY <2>1, KeptCalm, CalmApart
<1>3. CASE Opening(h)
  BY <1>3, OpeningApart
<1>4. CASE Opening(g)
  <2>1. Apart(h, g)'
    BY <1>4, OpeningApart
  <2>2. QED
    BY <2>1 DEF Apart
<1>5. CASE Disposing(h)
  <2>1. Calm(h) /\ Kept(g)
    BY <1>5 DEF Disposing, Calm
  <2>2. QED
    BY <2>1, KeptCalm, CalmApart
<1>6. CASE Disposing(g)
  <2>1. Calm(g) /\ Kept(h)
    BY <1>6 DEF Disposing, Calm
  <2>2. QED
    BY <2>1, KeptCalm, CalmApart
<1>7. CASE Reading(h)
  BY <1>7, ReadingApart
<1>8. CASE Reading(g)
  <2>1. Apart(h, g)'
    BY <1>8, ApartBothWays, ReadingApart
  <2>2. QED
    BY <2>1 DEF Apart
<1>9. QED
  BY <1>1, <1>2, <1>3, <1>4, <1>5, <1>6, <1>7, <1>8 DEF ReaderStep

\* What a handler has posted, it has read.
LEMMA SentIsRead ==
    ASSUME TypeOK, NEW h \in Handlers, PipelineInv(h)
    PROVE  SentBy(h) \subseteq ReadBy(h)
<1>1. /\ Len(sent[h]) <= Len(read[h]) /\ sent[h] = SubSeq(read[h], 1, Len(sent[h]))
      /\ sent[h] \in Seq(Lines) /\ read[h] \in Seq(Lines)
  BY LeavesFront DEF Front, TypeOK
<1> DEFINE n == Len(sent[h])
<1>2. /\ n \in Nat /\ DOMAIN sent[h] = 1..n
      /\ Len(read[h]) \in Nat /\ DOMAIN read[h] = 1..Len(read[h])
  BY <1>1
<1>3. n \in 0..Len(read[h]) /\ sent[h] = SubSeq(read[h], 1, n)
  BY <1>1, <1>2
<1> HIDE DEF n
<1>4. \A i \in 1..n : SubSeq(read[h], 1, n)[i] = read[h][i]
  BY <1>1, <1>2, <1>3
<1>5. \A i \in DOMAIN sent[h] : i \in DOMAIN read[h] /\ sent[h][i] = read[h][i]
  BY <1>2, <1>3, <1>4
<1>6. QED
  BY <1>5 DEF SentBy, ReadBy

LEMMA ApartPosts ==
    ASSUME TypeOK, PipelinesInv, RereadInv
    PROVE  NoRepost
<1> SUFFICES ASSUME NEW g \in Handlers, NEW h \in Handlers, g < h,
                    g \notin overlap[h], h \notin overlap[g]
             PROVE  SentBy(g) \cap SentBy(h) = {}
  BY DEF NoRepost
<1>1. SentBy(g) \subseteq ReadBy(g) /\ SentBy(h) \subseteq ReadBy(h)
  BY SentIsRead DEF PipelinesInv
<1>2. g # h /\ ReadsInv(g) /\ ReadsInv(h)
  BY DEF RereadInv, Handlers
<1>3. CASE log[g] = "none" \/ log[h] = "none"
  BY <1>1, <1>2, <1>3 DEF ReadsInv
<1>4. CASE Earlier(g, h) \/ Earlier(h, g)
  <2>1. \A l \in ReadBy(g), k \in ReadBy(h) : l # k
    BY <1>4, ReadTypes DEF Earlier
  <2>2. QED
    BY <1>1, <2>1
<1>5. QED
  BY <1>2, <1>3, <1>4 DEF RereadInv, Apart

\* A line is posted by two handlers only if the Log of one was still open when
\* the other opened its own.
THEOREM PostedOnce == Spec => []NoRepost
<1> DEFINE Inv == TypeOK /\ ShapeInv /\ NoLogYet /\ PipelinesInv /\ RereadInv
<1>1. Init => Inv
  <2> SUFFICES ASSUME Init
               PROVE  Inv
    OBVIOUS
  <2>1. NoLogYet
    BY DEF Init, NoLogYet
  <2>2. PipelinesInv
    BY PipelinesStart
  <2>3. \A h \in Handlers : ReadBy(h) = {} /\ log[h] = "none" /\ pump[h] = "off"
    BY DEF Init, ReadBy
  <2>4. RereadInv
    BY <2>3 DEF RereadInv, ReadsInv, Apart
  <2>5. QED
    BY <2>1, <2>2, <2>4, ShapeInit
<1>2. Inv /\ [Next]_vars => Inv'
  <2> SUFFICES ASSUME Inv, [Next]_vars
               PROVE  Inv'
    OBVIOUS
  <2>1. TypeOK' /\ ShapeInv' /\ NoLogYet' /\ ReaderStep
    BY ShapeInductive, NoLogYetInductive, ReaderChanges
  <2>2. PipelinesInv'
    BY PipelineInductive DEF PipelinesInv
  <2>3. RereadInv'
    BY <2>1, ReadsInductive, ApartInductive DEF RereadInv
  <2>4. QED
    BY <2>1, <2>2, <2>3
<1>3. Inv => NoRepost
  BY ApartPosts
<1>4. QED
  BY <1>1, <1>2, <1>3, PTL DEF Spec

-----------------------------------------------------------------------------
(* OrderedDelivery: a push is the abstract Accept, and taking a batch to     *)
(* post it is Deliver.                                                       *)

\* The step that reads a line leaves the handlers where they are.
LEMMA ReadingMovesNobody ==
    ASSUME [Next]_vars
    PROVE  read' = read \/ place' = place
<1>1. CASE WriteLine \/ ReceiveMetadata \/ Interrupt \/ Crash \/ UNCHANGED vars
  BY <1>1 DEF WriteLine, ReceiveMetadata, Interrupt, Crash, Die, vars
<1>2. ASSUME NEW h \in Handlers, LogStep(h)
      PROVE  read' = read \/ place' = place
  BY <1>2 DEF LogStep, CreateFile, CreateFails, ReadLine, ReadMalformed, Die, TimerFires, PumpEnds,
     Truncate, TruncateFails
<1>3. ASSUME NEW h \in Handlers, LoopStep(h)
      PROVE  read' = read
  BY <1>3 DEF LoopStep, TakeBatch, PostReturns, PostFails, FinishLoop
<1>4. QED
  BY <1>1, <1>2, <1>3 DEF Next

\* What the loop of g takes is the next of what was pushed to its queue.
LEMMA TakeDelivers ==
    ASSUME TypeOK, ShapeInv, NEW g \in Handlers, PipelineInv(g), Take(g),
           TypeOK', PipelineInv(g)'
    PROVE  Delivery(g)!Deliver
<1>1. /\ place[g] # "ended" /\ place'[g] # "ended" /\ read'[g] = read[g]
      /\ sent'[g] = sent[g] \o SubSeq(ready[g], 1, Head(ends[g]))
  BY DEF Take, TypeOK
<1>2. /\ sent[g] \in Seq(Lines) /\ ready[g] \in Seq(Lines) /\ ends[g] \in Seq(Int)
      /\ sent'[g] \in Seq(Lines) /\ ready'[g] \in Seq(Lines) /\ pending'[g] \in Seq(Lines)
      /\ read'[g] \in Seq(Lines)
  BY DEF TypeOK
<1>3. read'[g] = sent'[g] \o (ready'[g] \o pending'[g])
  BY <1>1, <1>2, Associative DEF PipelineInv
<1>4. Front(sent'[g], read[g])
  <2>1. ready'[g] \o pending'[g] \in Seq(Lines)
    BY <1>2, ConcatProperties
  <2>2. QED
    BY <1>1, <1>2, <1>3, <2>1, FrontOfConcat
<1>5. Len(sent'[g]) > Len(sent[g])
  <2> DEFINE n == Head(ends[g])
             taken == SubSeq(ready[g], 1, n)
  <2>1. ends[g] # <<>> /\ Len(ends[g]) \in Nat \ {0} /\ n = ends[g][1]
    BY <1>2, EmptySeq, LenProperties DEF Take
  <2>2. n \in 1..Len(ready[g]) /\ Len(ready[g]) \in Nat
    BY <1>2, <2>1 DEF ShapeInv, EndsInv
  <2>3. taken \in Seq(Lines) /\ Len(taken) = n
    BY <1>2, <2>2, SubSeqProperties
  <2>4. Len(sent'[g]) = Len(sent[g]) + n /\ Len(sent[g]) \in Nat
    <3>1. sent'[g] = sent[g] \o taken
      BY <1>1
    <3> HIDE DEF taken
    <3>2. QED
      BY <1>2, <2>3, <3>1, ConcatProperties, LenProperties
  <2>5. QED
    BY <2>2, <2>4
<1>6. Len(sent'[g]) \in (Len(sent[g]) + 1)..Len(read[g])
  <2>1. Len(sent[g]) \in Nat /\ Len(sent'[g]) \in Nat /\ Len(read[g]) \in Nat
    <3>1. read[g] \in Seq(Lines)
      BY <1>1, <1>2
    <3>2. QED
      BY <1>2, <3>1, LenProperties
  <2>2. Len(sent'[g]) <= Len(read[g])
    BY <1>4 DEF Front
  <2>3. QED
    BY <1>5, <2>1, <2>2
<1>7. QED
  BY <1>1, <1>4, <1>6 DEF Front, Delivery!Deliver

LEMMA HandlerStepDelivers ==
    ASSUME TypeOK, ShapeInv, NEW g \in Handlers, PipelineInv(g), [Next]_vars
    PROVE  [Delivery(g)!LossyNext]_(Delivery(g)!vars)
<1>1. QueueStep /\ TypeOK' /\ PipelineInv(g)' /\ (place[g] = "ended" => place'[g] = "ended")
  BY ShapeInductive, EndedStays, PipelineInductive
<1>2. ASSUME sent'[g] = sent[g], read'[g] = read[g]
      PROVE  [Delivery(g)!LossyNext]_(Delivery(g)!vars)
  <2>1. CASE (place'[g] # "ended") = (place[g] # "ended")
    BY <1>2, <2>1 DEF Delivery!vars
  <2>2. CASE place[g] # "ended" /\ place'[g] = "ended"
    BY <1>2, <2>2 DEF Delivery!LossyNext, Delivery!End
  <2>3. QED
    BY <1>1, <2>1, <2>2
<1>3. CASE Same \/ DropAll
  BY <1>2, <1>3 DEF Same, DropAll
<1>4. ASSUME NEW h \in Handlers, Flush(h) \/ Drop(h)
      PROVE  [Delivery(g)!LossyNext]_(Delivery(g)!vars)
  BY <1>2, <1>4 DEF Flush, Drop
<1>5. ASSUME NEW h \in Handlers, Take(h)
      PROVE  [Delivery(g)!LossyNext]_(Delivery(g)!vars)
  <2>1. CASE h = g
    BY <1>1, <1>5, <2>1, TakeDelivers DEF Delivery!LossyNext
  <2>2. CASE h # g
    BY <1>2, <1>5, <2>2 DEF Take, TypeOK
  <2>3. QED
    BY <2>1, <2>2
<1>6. ASSUME NEW h \in Handlers, NEW l \in Lines, PushOf(h, l)
      PROVE  [Delivery(g)!LossyNext]_(Delivery(g)!vars)
  <2>1. CASE h = g
    <3>1. read'[g] = Append(read[g], l) /\ sent'[g] = sent[g]
      BY <1>6, <2>1 DEF PushOf, Push, TypeOK
    <3>2. CASE read' = read
      BY <1>2, <3>1, <3>2
    <3>3. CASE place' = place
      BY <3>1, <3>3 DEF Delivery!LossyNext, Delivery!Accept
    <3>4. QED
      BY <3>2, <3>3, ReadingMovesNobody
  <2>2. CASE h # g
    BY <1>2, <1>6, <2>2 DEF PushOf, Push, TypeOK
  <2>3. QED
    BY <2>1, <2>2
<1>7. QED
  BY <1>1, <1>3, <1>4, <1>5, <1>6 DEF QueueStep

\* Every handler implements OrderedDelivery: the lines it posts are those that
\* were pushed to its queue, in that order and once each, up to where it ended.
THEOREM HandlerDelivers ==
    ASSUME NEW g \in Handlers
    PROVE  Spec => Delivery(g)!Init /\ [][Delivery(g)!LossyNext]_(Delivery(g)!vars)
<1>1. Init => Delivery(g)!Init
  BY DEF Init, Delivery!Init
<1>2. TypeOK /\ ShapeInv /\ PipelinesInv /\ [Next]_vars
        => [Delivery(g)!LossyNext]_(Delivery(g)!vars)
  BY HandlerStepDelivers DEF PipelinesInv
<1>3. TypeOK /\ ShapeInv /\ PipelinesInv /\ [Next]_vars => TypeOK' /\ ShapeInv' /\ PipelinesInv'
  BY ShapeInductive, PipelineInductive DEF PipelinesInv
<1>4. Init => TypeOK /\ ShapeInv /\ PipelinesInv
  BY ShapeInit, PipelinesStart
<1>5. QED
  BY <1>1, <1>2, <1>3, <1>4, PTL DEF Spec
=============================================================================
