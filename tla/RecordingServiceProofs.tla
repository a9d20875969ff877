------------------------ MODULE RecordingServiceProofs ------------------------
(***************************************************************************)
(* TLAPS proofs about RecordingService, for any requests and any number of *)
(* handlers and faults.                                                    *)
(***************************************************************************)
EXTENDS RecordingService, SequenceTheorems, FiniteSetTheorems, TLAPS

\* None is neither a socket nor a request, and each socket has its handler.
LEMMA ConstantFacts ==
    /\ None \notin Sockets /\ None \notin Requests
    /\ \A s \in Sockets : Owner(s) \in Handlers
    /\ MaxHandlers \in Nat /\ MaxFaults \in Nat
BY RecordingAssumption DEF Sockets, Handlers, Owner

LEMMA ElementsType ==
    ASSUME NEW q \in Seq(Requests)
    PROVE  Elements(q) \in SUBSET Requests
BY DEF Elements

LEMMA FaultType ==
    ASSUME faults \in 0..MaxFaults, Fault
    PROVE  faults' \in 0..MaxFaults
BY ConstantFacts DEF Fault

LEMMA DiscardType ==
    ASSUME TypeOK, NEW S \in SUBSET Sockets, Discard(S)
    PROVE  /\ inflight' \in [Sockets -> Seq(Requests)]
           /\ lost' \in SUBSET Requests
<1>1. <<>> \in Seq(Requests)
  OBVIOUS
<1>2. \A s \in S : Elements(inflight[s]) \in SUBSET Requests
  BY ElementsType DEF TypeOK
<1>3. QED
  BY <1>1, <1>2 DEF Discard, TypeOK

LEMMA SettleType ==
    ASSUME TypeOK, NEW r, NEW result \in {"success", "error"},
           Settle(r, result) \/ UNCHANGED outcome
    PROVE  outcome' \in [Requests -> Outcomes]
BY DEF Settle, TypeOK, Outcomes

LEMMA SocketType ==
    ASSUME TypeOK, NEW s \in Sockets, SocketStep(s)
    PROVE  TypeOK'
<1> USE DEF TypeOK, managerVars, socketVars, handlerVars
<1>1. CASE Connect(s)
  BY <1>1 DEF Connect
<1>2. CASE Break(s)
  BY <1>2, DiscardType, FaultType DEF Break
<1>3. CASE ClientSeesClose(s)
  BY <1>3 DEF ClientSeesClose
<1>4. CASE ServerSeesClose(s)
  BY <1>4 DEF ServerSeesClose
<1>5. CASE ReceiveHello(s)
  BY <1>5 DEF ReceiveHello
<1>6. CASE Deliver(s)
  <2>1. /\ inflight[s] \in Seq(Requests) /\ inflight[s] # <<>>
        /\ Owner(s) \in Handlers
    BY <1>6, ConstantFacts DEF Deliver
  <2>2. Head(inflight[s]) \in Requests /\ Tail(inflight[s]) \in Seq(Requests)
    BY <2>1, HeadTailProperties
  <2>3. QED
    BY <1>6, <2>1, <2>2, AppendProperties DEF Deliver
<1>7. QED
  BY <1>1, <1>2, <1>3, <1>4, <1>5, <1>6 DEF SocketStep

LEMMA RequestType ==
    ASSUME TypeOK, NEW r \in Requests, Request(r)
    PROVE  TypeOK'
<1>1. outcome' \in [Requests -> Outcomes] /\ known' \in SUBSET Requests
  BY DEF Request, TypeOK, Outcomes
<1>2. lost' \in SUBSET Requests
  BY DEF Request, TypeOK
<1>3. inflight' \in [Sockets -> Seq(Requests)]
  <2>1. CASE UNCHANGED inflight
    BY <2>1 DEF TypeOK
  <2>2. CASE agent # None /\ inflight' = [inflight EXCEPT ![agent] = Append(@, r)]
    <3>1. agent \in Sockets /\ inflight[agent] \in Seq(Requests)
      BY <2>2 DEF TypeOK
    <3>2. QED
      BY <2>2, <3>1, AppendProperties DEF TypeOK
  <2>3. QED
    BY <2>1, <2>2 DEF Request
<1>4. QED
  BY <1>1, <1>2, <1>3 DEF Request, TypeOK, handlerVars

LEMMA HandlerType ==
    ASSUME TypeOK, NEW h \in Handlers, HandlerStep(h)
    PROVE  TypeOK'
<1> USE ConstantFacts DEF TypeOK, managerVars, socketVars, Places, Goto
<1>1. CASE ConstructQueue(h) \/ NoDirectory(h)
  BY <1>1, FaultType DEF ConstructQueue, NoDirectory
<1>2. CASE Take(h)
  <2>1. inbox[h] \in Seq(Requests) /\ inbox[h] # <<>>
    BY <1>2 DEF Take
  <2>2. Head(inbox[h]) \in Requests /\ Tail(inbox[h]) \in Seq(Requests)
    BY <2>1, HeadTailProperties
  <2>3. QED
    BY <1>2, <2>2 DEF Take
<1>3. CASE Upload(h)
  BY <1>3 DEF Upload
<1>4. CASE WorkFails(h)
  BY <1>4, FaultType DEF WorkFails
<1>5. CASE Complete(h)
  BY <1>5, SettleType DEF Complete, EndJob
<1>6. CASE CompleteFails(h)
  BY <1>6, SettleType, FaultType DEF CompleteFails
<1>7. CASE Fail(h)
  BY <1>7, SettleType DEF Fail, EndJob
<1>8. CASE FailFails(h)
  BY <1>8, SettleType, FaultType, ElementsType DEF FailFails
<1>9. QED
  BY <1>1, <1>2, <1>3, <1>4, <1>5, <1>6, <1>7, <1>8 DEF HandlerStep, Report

LEMMA RestartType ==
    ASSUME TypeOK, Restart
    PROVE  TypeOK'
<1>1. inflight' \in [Sockets -> Seq(Requests)] /\ lost' \in SUBSET Requests
  BY DiscardType DEF Restart
<1>2. agent' \in Sockets \cup {None} /\ known' \in SUBSET Requests
  BY DEF Restart
<1>3. outcome' \in [Requests -> Outcomes] /\ faults' \in 0..MaxFaults
  BY FaultType DEF Restart, TypeOK, Outcomes
<1>4. serverOpen' \in [Sockets -> BOOLEAN] /\ hello' \in [Sockets -> BOOLEAN]
  BY DEF Restart
<1>5. QED
  BY <1>1, <1>2, <1>3, <1>4 DEF Restart, TypeOK, handlerVars

LEMMA ControlType ==
    ASSUME TypeOK, ConnectControl \/ SendMetadata \/ BreakControl
    PROVE  TypeOK'
BY FaultType DEF ConnectControl, SendMetadata, BreakControl, TypeOK, managerVars,
   socketVars, handlerVars

\* Handlers are numbered as they start.
Unstarted == \A h \in Handlers : h > latest => handler[h] = "none"

LEMMA UnstartedInductive ==
    ASSUME TypeOK, Unstarted, [Next]_vars
    PROVE  Unstarted'
<1> USE DEF Unstarted, handlerVars
<1>1. ASSUME NEW s \in Sockets, SocketStep(s)
      PROVE  Unstarted'
  BY <1>1 DEF SocketStep, Connect, Break, ClientSeesClose, ServerSeesClose, ReceiveHello, Deliver
<1>2. ASSUME NEW r \in Requests, Request(r)
      PROVE  Unstarted'
  BY <1>2 DEF Request
<1>3. ASSUME NEW h \in Handlers, HandlerStep(h)
      PROVE  Unstarted'
  <2>1. UNCHANGED latest /\ handler[h] # "none"
    BY <1>3 DEF HandlerStep, Report, ConstructQueue, NoDirectory, Take, Upload, WorkFails,
       Complete, CompleteFails, Fail, FailFails
  <2>2. \A g \in Handlers : g # h => handler'[g] = handler[g]
    BY <1>3 DEF HandlerStep, Report, ConstructQueue, NoDirectory, Take, Upload, WorkFails,
       Complete, CompleteFails, Fail, FailFails, Goto, EndJob, TypeOK
  <2>3. QED
    BY <2>1, <2>2
<1>4. CASE ControlStep \/ BreakControl \/ Restart
  BY <1>4, ConstantFacts DEF ControlStep, ConnectControl, SendMetadata, BreakControl,
     ReceiveMetadata, Restart, TypeOK, Handlers
<1>5. CASE Crash
  <2>1. latest' = latest /\ \A h \in Handlers : ~(h <= latest) => handler'[h] = handler[h]
    BY <1>5 DEF Crash
  <2>2. \A h \in Handlers : h > latest => ~(h <= latest)
    BY ConstantFacts DEF TypeOK, Handlers
  <2>3. QED
    BY <2>1, <2>2
<1>6. CASE UNCHANGED vars
  BY <1>6 DEF vars
<1>7. QED
  BY <1>1, <1>2, <1>3, <1>4, <1>5, <1>6 DEF Next

LEMMA MetadataType ==
    ASSUME TypeOK, Unstarted, ReceiveMetadata
    PROVE  TypeOK'
<1> DEFINE h == latest + 1
           aborted == IF latest = 0 \/ handler[latest] = "starting" THEN {} ELSE {latest}
           S == UNION {SocketsOf(a) : a \in aborted}
<1>1. Discard(S) /\ S \in SUBSET Sockets
  BY DEF ReceiveMetadata, SocketsOf
<1>2. inflight' \in [Sockets -> Seq(Requests)] /\ lost' \in SUBSET Requests
  BY <1>1, DiscardType
<1>3. h \in Handlers /\ latest' = h /\ latest' \in 0..MaxHandlers
  BY ConstantFacts DEF ReceiveMetadata, TypeOK, Handlers
<1>4. job[h] = None /\ handler[h] = "none"
  <2>1. h > latest
    BY ConstantFacts DEF TypeOK
  <2>2. handler[h] = "none"
    BY <1>3, <2>1 DEF Unstarted
  <2>3. QED
    BY <1>3, <2>2 DEF TypeOK
<1>5. handler' \in [Handlers -> Places]
  BY <1>3 DEF ReceiveMetadata, TypeOK, Places
<1>6. \A g \in Handlers :
        job'[g] # None <=> handler'[g] \in {"working", "completing", "failing", "dead"}
  BY <1>3, <1>4 DEF ReceiveMetadata, TypeOK
<1>7. wanted' \in [Handlers -> BOOLEAN] /\ clientOpen' \in [Sockets -> BOOLEAN]
  BY DEF ReceiveMetadata, TypeOK
<1>8. QED
  BY <1>2, <1>3, <1>5, <1>6, <1>7 DEF ReceiveMetadata, TypeOK, managerVars

LEMMA CrashType ==
    ASSUME TypeOK, Unstarted, Crash
    PROVE  TypeOK'
<1>1. lost' \in SUBSET Requests
  BY DEF Crash, TypeOK
<1>2. inflight' \in [Sockets -> Seq(Requests)] /\ inbox' \in [Handlers -> Seq(Requests)]
  <2>1. <<>> \in Seq(Requests)
    OBVIOUS
  <2>2. QED
    BY <2>1 DEF Crash
<1>3. handler' \in [Handlers -> Places]
  BY DEF Crash, TypeOK, Places
<1>4. \A h \in Handlers : job'[h] = None /\ handler'[h] \in {"gone", "none"}
  BY ConstantFacts DEF Crash, Unstarted, TypeOK, Handlers
<1>5. \A h \in Handlers :
        job'[h] # None <=> handler'[h] \in {"working", "completing", "failing", "dead"}
  BY <1>4
<1>6. wanted' \in [Handlers -> BOOLEAN] /\ clientOpen' \in [Sockets -> BOOLEAN]
  BY DEF Crash
<1>7. job' \in [Handlers -> Requests \cup {None}] /\ faults' \in 0..MaxFaults
  BY FaultType DEF Crash, TypeOK
<1>8. QED
  BY <1>1, <1>2, <1>3, <1>5, <1>6, <1>7 DEF Crash, TypeOK, managerVars

LEMMA TypeInductive == TypeOK /\ Unstarted /\ [Next]_vars => TypeOK' /\ Unstarted'
<1>1. TypeOK /\ UNCHANGED vars => TypeOK'
  BY DEF TypeOK, vars, managerVars, socketVars, handlerVars
<1>2. QED
  BY <1>1, SocketType, RequestType, HandlerType, MetadataType, ControlType, RestartType,
     CrashType, UnstartedInductive DEF Next, ControlStep

LEMMA TypeHolds == Spec => [](TypeOK /\ Unstarted)
<1>1. Init => TypeOK /\ Unstarted
  <2>1. <<>> \in Seq(Requests)
    OBVIOUS
  <2>2. QED
    BY <2>1, ConstantFacts DEF Init, TypeOK, Unstarted, Places, Outcomes
<1>2. QED
  BY <1>1, TypeInductive, PTL DEF Spec

\* Every variable keeps its type.
THEOREM TypeCorrect == Spec => []TypeOK
BY TypeHolds, PTL

-----------------------------------------------------------------------------
(* The active agent *)

LEMMA ActiveInductive == TypeOK /\ ActiveIsOpen /\ [Next]_vars => ActiveIsOpen'
<1> SUFFICES ASSUME TypeOK, ActiveIsOpen, [Next]_vars
             PROVE  ActiveIsOpen'
  OBVIOUS
<1>1. CASE UNCHANGED <<agent, serverOpen>>
  BY <1>1 DEF ActiveIsOpen
<1>2. ASSUME NEW s \in Sockets, Connect(s)
      PROVE  ActiveIsOpen'
  BY <1>2, ConstantFacts DEF Connect, ActiveIsOpen, TypeOK, managerVars
<1>3. ASSUME NEW s \in Sockets, ReceiveHello(s)
      PROVE  ActiveIsOpen'
  BY <1>3, ConstantFacts DEF ReceiveHello, ActiveIsOpen, TypeOK
<1>4. ASSUME NEW s \in Sockets, ServerSeesClose(s)
      PROVE  ActiveIsOpen'
  BY <1>4, ConstantFacts DEF ServerSeesClose, ActiveIsOpen, TypeOK
<1>5. CASE Restart
  BY <1>5 DEF Restart, ActiveIsOpen
<1>6. QED
  BY <1>1, <1>2, <1>3, <1>4, <1>5 DEF Next, SocketStep, HandlerStep, Report, Break,
     ClientSeesClose, Deliver, ControlStep, ConnectControl, SendMetadata, BreakControl,
     ReceiveMetadata, Request, Crash, ConstructQueue, NoDirectory, Take,
     Upload, WorkFails, Complete, CompleteFails, Fail, FailFails, vars, managerVars, socketVars

\* Whatever the sockets of however many handlers do, the active agent is one
\* whose socket is open at the manager: nobody is locked out by a closed one.
THEOREM ActiveSocketOpen == Spec => []ActiveIsOpen
<1>1. Init => ActiveIsOpen
  BY DEF Init, ActiveIsOpen
<1>2. QED
  BY <1>1, TypeCorrect, ActiveInductive, PTL DEF Spec

\* An active agent is replaced only by none, when its own socket has closed.
THEOREM AgentNeverTakenOver == Spec => NoTakeover
<1>1. TypeOK /\ [Next]_vars =>
          [(agent # None /\ agent' # agent) => (agent' = None /\ ~serverOpen'[agent])]_vars
  <2> SUFFICES ASSUME TypeOK, [Next]_vars, agent # None, agent' # agent
               PROVE  agent' = None /\ ~serverOpen'[agent]
    OBVIOUS
  <2>1. Restart \/ \E s \in Sockets : ReceiveHello(s) \/ ServerSeesClose(s)
    BY DEF Next, ControlStep, ConnectControl, SendMetadata, BreakControl, SocketStep, HandlerStep, Report, Connect, Break, ClientSeesClose,
       Deliver, ReceiveMetadata, Request, Crash, ConstructQueue, NoDirectory, Take, Upload,
       WorkFails, Complete, CompleteFails, Fail, FailFails, vars, managerVars
  <2>2. ASSUME NEW s \in Sockets
        PROVE  ~ReceiveHello(s)
    BY DEF ReceiveHello
  <2>3. QED
    BY <2>1, <2>2 DEF ServerSeesClose, Restart, TypeOK
<1>2. QED
  BY <1>1, TypeCorrect, PTL DEF Spec, NoTakeover

-----------------------------------------------------------------------------
(* Where a request is *)

\* A queue in which no request is twice.
NoRepeats(q) == \A i, j \in DOMAIN q : q[i] = q[j] => i = j

LEMMA ElementsAppend ==
    ASSUME NEW q \in Seq(Requests), NEW r \in Requests
    PROVE  /\ Elements(Append(q, r)) = Elements(q) \cup {r}
           /\ (NoRepeats(q) /\ r \notin Elements(q)) => NoRepeats(Append(q, r))
<1>1. /\ Len(Append(q, r)) = Len(q) + 1 /\ DOMAIN q = 1..Len(q) /\ Len(q) \in Nat
      /\ DOMAIN Append(q, r) = 1..(Len(q) + 1)
      /\ \A i \in 1..Len(q) : Append(q, r)[i] = q[i]
      /\ Append(q, r)[Len(q) + 1] = r
  BY AppendProperties
<1>2. QED
  BY <1>1 DEF Elements, NoRepeats

LEMMA ElementsTail ==
    ASSUME NEW q \in Seq(Requests), q # <<>>
    PROVE  /\ Head(q) \in Elements(q) /\ Head(q) \in Requests
           /\ Elements(Tail(q)) \subseteq Elements(q)
           /\ Elements(q) \subseteq Elements(Tail(q)) \cup {Head(q)}
           /\ Tail(q) \in Seq(Requests)
           /\ NoRepeats(q) => NoRepeats(Tail(q)) /\ Head(q) \notin Elements(Tail(q))
<1>1. /\ DOMAIN q = 1..Len(q) /\ Len(q) \in Nat \ {0} /\ Head(q) = q[1]
      /\ DOMAIN Tail(q) = 1..(Len(q) - 1)
      /\ \A i \in 1..(Len(q) - 1) : Tail(q)[i] = q[i + 1]
      /\ Tail(q) \in Seq(Requests) /\ Head(q) \in Requests
  <2>1. Tail(q) \in Seq(Requests) /\ Head(q) \in Requests /\ Len(Tail(q)) = Len(q) - 1
    BY HeadTailProperties
  <2>2. Len(q) \in Nat \ {0} /\ Head(q) = q[1] /\ DOMAIN q = 1..Len(q)
    BY EmptySeq
  <2>3. DOMAIN Tail(q) = 1..(Len(q) - 1)
    BY <2>1, <2>2
  <2>4. \A i \in 1..(Len(q) - 1) : Tail(q)[i] = q[i + 1]
    BY <2>2
  <2>5. QED
    BY <2>1, <2>2, <2>3, <2>4
<1>2. \A i \in 1..Len(q) : i = 1 \/ (i - 1 \in 1..(Len(q) - 1) /\ q[i] = Tail(q)[i - 1])
  BY <1>1
<1>3. /\ Head(q) \in Elements(q)
      /\ Elements(Tail(q)) \subseteq Elements(q)
      /\ Elements(q) \subseteq Elements(Tail(q)) \cup {Head(q)}
  <2>1. Head(q) \in Elements(q)
    BY <1>1 DEF Elements
  <2>2. ASSUME NEW i \in 1..(Len(q) - 1)
        PROVE  Tail(q)[i] \in Elements(q)
    <3>1. i + 1 \in 1..Len(q) /\ Tail(q)[i] = q[i + 1]
      BY <1>1
    <3>2. QED
      BY <1>1, <3>1 DEF Elements
  <2>3. ASSUME NEW i \in 1..Len(q)
        PROVE  q[i] \in Elements(Tail(q)) \cup {Head(q)}
    BY <1>1, <1>2 DEF Elements
  <2>4. QED
    BY <1>1, <2>1, <2>2, <2>3 DEF Elements
<1>4. ASSUME NoRepeats(q)
      PROVE  NoRepeats(Tail(q)) /\ Head(q) \notin Elements(Tail(q))
  <2>1. \A i, j \in 1..(Len(q) - 1) : q[i + 1] = q[j + 1] => i = j
    BY <1>1, <1>4 DEF NoRepeats
  <2>2. \A i \in 1..(Len(q) - 1) : q[i + 1] # q[1]
    BY <1>1, <1>4 DEF NoRepeats
  <2>3. QED
    BY <1>1, <2>1, <2>2 DEF NoRepeats, Elements
<1>5. QED
  BY <1>1, <1>3, <1>4

\* A request is in one place at most, and so once.
Distinct ==
    /\ \A s \in Sockets : NoRepeats(inflight[s])
    /\ \A h \in Handlers : NoRepeats(inbox[h])

OnePlace(r) == \A x, y \in PlacesOf(r) : x = y

\* Nobody has reported on r yet: it is on its way or being worked on.
Unreported(r) ==
    \/ \E s \in Sockets : r \in Elements(inflight[s])
    \/ \E h \in Handlers : r \in Elements(inbox[h])
    \/ \E h \in Handlers : job[h] = r /\ handler[h] \in {"working", "completing"}

\* The promise of r.
PromiseInv(r) ==
    /\ PlacesOf(r) # {} => outcome[r] \notin {"none", "refused"}
    /\ Unreported(r) => outcome[r] \in {"pending", "forgotten"}
    /\ outcome[r] = "forgotten" => r \notin known
    /\ (outcome[r] = "pending" /\ r \notin lost) => PlacesOf(r) # {}
    /\ \A h \in Handlers : (job[h] = r /\ handler[h] = "completing") => r \in uploaded
    /\ outcome[r] = "success" => r \in uploaded
    /\ r \in confirmed => outcome[r] = "success"

RequestInv == Distinct /\ \A r \in Requests : OnePlace(r) /\ PromiseInv(r)

LEMMA IsPlace ==
    ASSUME NEW r
    PROVE  /\ \A s \in Sockets : <<"flight", s>> \in PlacesOf(r) <=> r \in Elements(inflight[s])
           /\ \A h \in Handlers : <<"inbox", h>> \in PlacesOf(r) <=> r \in Elements(inbox[h])
           /\ \A h \in Handlers : <<"job", h>> \in PlacesOf(r) <=> job[h] = r
           /\ \A x \in PlacesOf(r) :
                 \/ \E s \in Sockets : x = <<"flight", s>> /\ r \in Elements(inflight[s])
                 \/ \E h \in Handlers : x = <<"inbox", h>> /\ r \in Elements(inbox[h])
                 \/ \E h \in Handlers : x = <<"job", h>> /\ job[h] = r
BY DEF PlacesOf

LEMMA IsPlaceNext ==
    ASSUME NEW r
    PROVE  /\ \A s \in Sockets : <<"flight", s>> \in PlacesOf(r)' <=> r \in Elements(inflight'[s])
           /\ \A h \in Handlers : <<"inbox", h>> \in PlacesOf(r)' <=> r \in Elements(inbox'[h])
           /\ \A h \in Handlers : <<"job", h>> \in PlacesOf(r)' <=> job'[h] = r
           /\ \A x \in PlacesOf(r)' :
                 \/ \E s \in Sockets : x = <<"flight", s>> /\ r \in Elements(inflight'[s])
                 \/ \E h \in Handlers : x = <<"inbox", h>> /\ r \in Elements(inbox'[h])
                 \/ \E h \in Handlers : x = <<"job", h>> /\ job'[h] = r
BY DEF PlacesOf, Elements

\* What a step may do with the place of a request: leave it, or move it.
LEMMA StillOnePlace ==
    ASSUME NEW r, OnePlace(r),
           \/ PlacesOf(r)' \subseteq PlacesOf(r)
           \/ \E x \in PlacesOf(r) : \E y : PlacesOf(r)' \subseteq (PlacesOf(r) \ {x}) \cup {y}
    PROVE  OnePlace(r)'
BY DEF OnePlace

\* Steps that touch no request.
LEMMA RequestsUntouched ==
    ASSUME TypeOK, RequestInv,
           UNCHANGED <<inflight, inbox, job, outcome, known, lost, uploaded, confirmed>>,
           \A h \in Handlers : job[h] # None => handler'[h] = handler[h]
    PROVE  RequestInv'
<1>1. \A r \in Requests : PlacesOf(r)' = PlacesOf(r)
  BY DEF PlacesOf, Elements
<1>2. ASSUME NEW r \in Requests
      PROVE  Unreported(r)' => Unreported(r)
  BY ConstantFacts DEF Unreported, Elements
<1>3. ASSUME NEW r \in Requests
      PROVE  OnePlace(r)' /\ PromiseInv(r)'
  BY <1>1, <1>2, <1>3, ConstantFacts DEF RequestInv, OnePlace, PromiseInv
<1>4. QED
  BY <1>3 DEF RequestInv, Distinct, NoRepeats

\* Steps that only lose what is on its way: a link ends, the manager is started
\* again, the agent ends.
LEMMA RequestsLost ==
    ASSUME TypeOK, RequestInv,
           \A s \in Sockets : inflight'[s] = inflight[s] \/ inflight'[s] = <<>>,
           \A h \in Handlers : inbox'[h] = inbox[h] \/ inbox'[h] = <<>>,
           \A h \in Handlers : (job'[h] = job[h] /\ (job[h] # None => handler'[h] = handler[h]))
                              \/ job'[h] = None,
           lost \subseteq lost',
           \A s \in Sockets : inflight'[s] # inflight[s] => Elements(inflight[s]) \subseteq lost',
           \A h \in Handlers : inbox'[h] # inbox[h] => Elements(inbox[h]) \subseteq lost',
           \A h \in Handlers : (job'[h] # job[h]) => job[h] \in lost',
           \A r \in Requests :
              \/ outcome'[r] = outcome[r] /\ (r \in known' => r \in known)
              \/ outcome[r] = "pending" /\ outcome'[r] = "forgotten" /\ r \notin known',
           UNCHANGED <<uploaded, confirmed>>
    PROVE  RequestInv'
<1>1. Elements(<<>>) = {}
  BY DEF Elements
<1>2. /\ \A s \in Sockets : Elements(inflight'[s]) \subseteq Elements(inflight[s])
      /\ \A h \in Handlers : Elements(inbox'[h]) \subseteq Elements(inbox[h])
  BY <1>1
<1>3. Distinct'
  BY DEF RequestInv, Distinct, NoRepeats
<1>4. ASSUME NEW r \in Requests
      PROVE  /\ PlacesOf(r)' \subseteq PlacesOf(r)
             /\ PlacesOf(r)' = {} => PlacesOf(r) = {} \/ r \in lost'
             /\ Unreported(r)' => Unreported(r)
             /\ \A h \in Handlers : (job'[h] = r /\ handler'[h] = "completing")
                                    => (job[h] = r /\ handler[h] = "completing")
  <2>1. r # None
    BY ConstantFacts
  <2>2. PlacesOf(r)' \subseteq PlacesOf(r)
    <3>1. ASSUME NEW s \in Sockets, <<"flight", s>> \in PlacesOf(r)'
          PROVE  <<"flight", s>> \in PlacesOf(r)
      BY <1>2, <3>1, IsPlace, IsPlaceNext
    <3>2. ASSUME NEW h \in Handlers, <<"inbox", h>> \in PlacesOf(r)'
          PROVE  <<"inbox", h>> \in PlacesOf(r)
      BY <1>2, <3>2, IsPlace, IsPlaceNext
    <3>3. ASSUME NEW h \in Handlers, <<"job", h>> \in PlacesOf(r)'
          PROVE  <<"job", h>> \in PlacesOf(r)
      BY <2>1, <3>3, IsPlace, IsPlaceNext
    <3>4. QED
      BY <3>1, <3>2, <3>3, IsPlaceNext
  <2>3. ASSUME NEW x \in PlacesOf(r), r \notin lost'
        PROVE  x \in PlacesOf(r)'
    <3>1. CASE \E s \in Sockets : x = <<"flight", s>>
      BY <3>1, <2>3, IsPlace, IsPlaceNext
    <3>2. CASE \E h \in Handlers : x = <<"inbox", h>>
      BY <3>2, <2>3, IsPlace, IsPlaceNext
    <3>3. CASE \E h \in Handlers : x = <<"job", h>>
      BY <3>3, <2>3, IsPlace, IsPlaceNext
    <3>4. QED
      BY <2>3, <3>1, <3>2, <3>3, IsPlace
  <2>4. Unreported(r)' => Unreported(r)
    BY <1>2, <2>1 DEF Unreported
  <2>5. QED
    BY <2>1, <2>2, <2>3, <2>4
<1>5. ASSUME NEW r \in Requests
      PROVE  OnePlace(r)' /\ PromiseInv(r)'
  <2>1. OnePlace(r) /\ PromiseInv(r)
    BY DEF RequestInv
  <2>2. OnePlace(r)'
    BY <1>4, <2>1, StillOnePlace
  <2>3. \/ outcome'[r] = outcome[r] /\ (r \in known' => r \in known)
        \/ outcome[r] = "pending" /\ outcome'[r] = "forgotten" /\ r \notin known'
    OBVIOUS
  <2>4. PlacesOf(r)' # {} => PlacesOf(r) # {}
    BY <1>4
  <2>5. (outcome'[r] = "pending" /\ r \notin lost') => PlacesOf(r)' # {}
    BY <1>4, <2>1, <2>3 DEF PromiseInv
  <2>6. \A h \in Handlers : (job'[h] = r /\ handler'[h] = "completing") => r \in uploaded'
    BY <1>4, <2>1 DEF PromiseInv
  <2>7. Unreported(r)' => outcome'[r] \in {"pending", "forgotten"}
    BY <1>4, <2>1, <2>3 DEF PromiseInv
  <2>8. /\ PlacesOf(r)' # {} => outcome'[r] \notin {"none", "refused"}
        /\ outcome'[r] = "forgotten" => r \notin known'
        /\ outcome'[r] = "success" => r \in uploaded'
        /\ r \in confirmed' => outcome'[r] = "success"
    BY <2>1, <2>3, <2>4 DEF PromiseInv
  <2>9. PromiseInv(r)'
    BY <2>5, <2>6, <2>7, <2>8 DEF PromiseInv
  <2>10. QED
    BY <2>2, <2>9
<1>6. QED
  BY <1>3, <1>5 DEF RequestInv

\* The manager accepts a request: it is on its way, or was lost at once.
LEMMA RequestKeeps ==
    ASSUME TypeOK, RequestInv, NEW q \in Requests, Request(q)
    PROVE  RequestInv'
<1> USE DEF handlerVars
<1>1. /\ outcome[q] = "none" /\ PlacesOf(q) = {} /\ UNCHANGED <<inbox, job, handler, uploaded, confirmed>>
      /\ \A r \in Requests : r # q => outcome'[r] = outcome[r] /\ (r \in known' => r \in known)
      /\ outcome'[q] \in {"refused", "pending", "error"} /\ lost \subseteq lost'
      /\ q \notin confirmed /\ ~Unreported(q)
  BY DEF Request, RequestInv, PromiseInv, TypeOK
<1>2. \A s \in Sockets : q \notin Elements(inflight[s])
  BY <1>1, IsPlace
<1>3. ASSUME NEW r \in Requests, r # q,
             \A s \in Sockets : r \in Elements(inflight'[s]) <=> r \in Elements(inflight[s])
      PROVE  OnePlace(r)' /\ PromiseInv(r)'
  <2>1. PlacesOf(r)' = PlacesOf(r)
    BY <1>1, <1>3 DEF PlacesOf
  <2>2. Unreported(r)' => Unreported(r)
    BY <1>1, <1>3 DEF Unreported
  <2>3. OnePlace(r) /\ PromiseInv(r)
    BY DEF RequestInv
  <2>4. QED
    BY <1>1, <1>3, <2>1, <2>2, <2>3 DEF OnePlace, PromiseInv
<1>4. CASE UNCHANGED inflight /\ (outcome'[q] # "pending" \/ q \in lost')
  <2>1. PlacesOf(q)' = {} /\ ~Unreported(q)'
    BY <1>1, <1>4 DEF PlacesOf, Unreported, Elements
  <2>2. \A h \in Handlers : job'[h] # q
    BY <1>1, IsPlace
  <2>3. OnePlace(q)' /\ PromiseInv(q)'
    BY <1>1, <1>4, <2>1, <2>2 DEF OnePlace, PromiseInv
  <2>4. Distinct'
    BY <1>1, <1>4 DEF RequestInv, Distinct, NoRepeats
  <2>5. QED
    BY <1>3, <1>4, <2>3, <2>4 DEF RequestInv
<1>5. CASE /\ agent # None /\ outcome'[q] = "pending"
           /\ inflight' = [inflight EXCEPT ![agent] = Append(@, q)]
  <2>1. agent \in Sockets /\ inflight[agent] \in Seq(Requests)
    BY <1>5 DEF TypeOK
  <2>2. /\ inflight'[agent] = Append(inflight[agent], q)
        /\ \A s \in Sockets : s # agent => inflight'[s] = inflight[s]
    BY <1>5, <2>1 DEF TypeOK
  <2>3. /\ Elements(inflight'[agent]) = Elements(inflight[agent]) \cup {q}
        /\ NoRepeats(inflight'[agent])
    BY <1>2, <2>1, <2>2, ElementsAppend DEF RequestInv, Distinct
  <2>4. Distinct'
    BY <1>1, <2>2, <2>3 DEF RequestInv, Distinct, NoRepeats
  <2>5. PlacesOf(q)' = {<<"flight", agent>>}
    <3>1. /\ \A h \in Handlers : q \notin Elements(inbox'[h]) /\ job'[h] # q
          /\ \A s \in Sockets : q \in Elements(inflight'[s]) <=> s = agent
      BY <1>1, <1>2, <2>2, <2>3, IsPlace
    <3>2. QED
      BY <2>1, <3>1, IsPlaceNext
  <2>6. \A h \in Handlers : job'[h] # q
    BY <1>1, IsPlace
  <2>7. OnePlace(q)' /\ PromiseInv(q)'
    BY <1>1, <1>5, <2>5, <2>6 DEF OnePlace, PromiseInv
  <2>8. ASSUME NEW r \in Requests, r # q
        PROVE  OnePlace(r)' /\ PromiseInv(r)'
    BY <1>3, <2>2, <2>3, <2>8
  <2>9. QED
    BY <2>4, <2>7, <2>8 DEF RequestInv
<1>6. QED
  <2>1. CASE agent = None
    BY <1>4, <2>1 DEF Request, TypeOK
  <2>2. CASE agent # None
    BY <1>4, <1>5, <2>2 DEF Request, TypeOK
  <2>3. QED
    BY <2>1, <2>2

\* A request moves from the socket to the inbox of its handler.
LEMMA DeliverKeeps ==
    ASSUME TypeOK, RequestInv, NEW s \in Sockets, Deliver(s)
    PROVE  RequestInv'
<1> DEFINE h == Owner(s)
<1>1. /\ h \in Handlers /\ inflight[s] \in Seq(Requests) /\ inflight[s] # <<>>
      /\ inbox[h] \in Seq(Requests)
  BY ConstantFacts DEF Deliver, TypeOK
<1>2. PICK q \in Requests : q = Head(inflight[s])
  BY <1>1, ElementsTail
<1>3. /\ q \in Elements(inflight[s])
      /\ Elements(Tail(inflight[s])) \subseteq Elements(inflight[s]) \ {q}
      /\ Elements(inflight[s]) \subseteq Elements(Tail(inflight[s])) \cup {q}
      /\ NoRepeats(Tail(inflight[s]))
  BY <1>1, <1>2, ElementsTail DEF RequestInv, Distinct
<1>4. /\ inflight'[s] = Tail(inflight[s]) /\ \A t \in Sockets : t # s => inflight'[t] = inflight[t]
      /\ inbox'[h] = Append(inbox[h], q) /\ \A g \in Handlers : g # h => inbox'[g] = inbox[g]
      /\ UNCHANGED <<job, handler, outcome, known, uploaded, confirmed>> /\ lost \subseteq lost'
  BY <1>1, <1>2 DEF Deliver, TypeOK, managerVars
<1>5. \A x \in PlacesOf(q) : x = <<"flight", s>>
  <2>1. <<"flight", s>> \in PlacesOf(q)
    BY <1>3, IsPlace
  <2>2. QED
    BY <1>3, <2>1 DEF RequestInv, OnePlace
<1>6. q \notin Elements(inbox[h]) /\ \A g \in Handlers : job[g] # q
  BY <1>1, <1>5, IsPlace
<1>7. /\ Elements(inbox'[h]) = Elements(inbox[h]) \cup {q}
      /\ NoRepeats(inbox'[h])
  BY <1>1, <1>4, <1>6, <1>3, ElementsAppend DEF RequestInv, Distinct
<1> HIDE DEF h
<1>8. Distinct'
  BY <1>3, <1>4, <1>7 DEF RequestInv, Distinct
<1>9. OnePlace(q)' /\ PromiseInv(q)'
  <2>1. /\ \A t \in Sockets : q \notin Elements(inflight'[t])
        /\ \A g \in Handlers : q \in Elements(inbox'[g]) <=> g = h
        /\ \A g \in Handlers : job'[g] # q
    <3>1. ASSUME NEW t \in Sockets
          PROVE  q \notin Elements(inflight'[t])
      <4>1. t # s => <<"flight", t>> \notin PlacesOf(q)
        BY <1>5
      <4>2. QED
        BY <1>3, <1>4, <4>1, IsPlace
    <3>2. ASSUME NEW g \in Handlers
          PROVE  (q \in Elements(inbox'[g]) <=> g = h) /\ job'[g] # q
      <4>1. q \notin Elements(inbox[g])
        BY <1>5, IsPlace
      <4>2. job'[g] # q
        BY <1>4, <1>6
      <4>3. QED
        BY <1>4, <1>7, <4>1, <4>2
    <3>3. QED
      BY <3>1, <3>2
  <2>2. <<"inbox", h>> \in PlacesOf(q)' /\ \A x \in PlacesOf(q)' : x = <<"inbox", h>>
    BY <1>1, <2>1, IsPlaceNext
  <2>3. Unreported(q) /\ PromiseInv(q)
    BY <1>3 DEF Unreported, RequestInv
  <2>4. UNCHANGED <<job, outcome, known, uploaded, confirmed>> /\ lost \subseteq lost'
    BY <1>4
  <2>5. QED
    BY <2>1, <2>2, <2>3, <2>4 DEF OnePlace, PromiseInv
<1>10. ASSUME NEW r \in Requests, r # q
      PROVE  OnePlace(r)' /\ PromiseInv(r)'
  <2>1. /\ \A t \in Sockets : r \in Elements(inflight'[t]) <=> r \in Elements(inflight[t])
        /\ \A g \in Handlers : r \in Elements(inbox'[g]) <=> r \in Elements(inbox[g])
    BY <1>3, <1>4, <1>7, <1>10
  <2>2. PlacesOf(r)' = PlacesOf(r) /\ (Unreported(r)' => Unreported(r))
    BY <1>4, <2>1 DEF PlacesOf, Unreported
  <2>3. OnePlace(r) /\ PromiseInv(r)
    BY DEF RequestInv
  <2>4. UNCHANGED <<job, handler, outcome, known, uploaded, confirmed>> /\ lost \subseteq lost'
    BY <1>4
  <2>5. QED
    BY <2>2, <2>3, <2>4 DEF OnePlace, PromiseInv
<1>11. QED
  BY <1>8, <1>9, <1>10 DEF RequestInv

\* A waiting handler takes the next request of its inbox.
LEMMA TakeKeeps ==
    ASSUME TypeOK, RequestInv, NEW h \in Handlers, Take(h)
    PROVE  RequestInv'
<1>1. /\ inbox[h] \in Seq(Requests) /\ inbox[h] # <<>>
      /\ job[h] = None
  BY DEF Take, TypeOK
<1>2. PICK q \in Requests : q = Head(inbox[h])
  BY <1>1, ElementsTail
<1>3. /\ q \in Elements(inbox[h])
      /\ Elements(Tail(inbox[h])) \subseteq Elements(inbox[h]) \ {q}
      /\ Elements(inbox[h]) \subseteq Elements(Tail(inbox[h])) \cup {q}
      /\ NoRepeats(Tail(inbox[h]))
  BY <1>1, <1>2, ElementsTail DEF RequestInv, Distinct
<1>4. /\ inbox'[h] = Tail(inbox[h]) /\ \A g \in Handlers : g # h => inbox'[g] = inbox[g]
      /\ job'[h] = q /\ \A g \in Handlers : g # h => job'[g] = job[g]
      /\ handler'[h] = "working" /\ \A g \in Handlers : g # h => handler'[g] = handler[g]
  BY <1>2 DEF Take, TypeOK, Goto
<1>5. UNCHANGED <<inflight, outcome, known, uploaded, lost, confirmed>>
  BY DEF Take, managerVars, socketVars
<1>6. \A x \in PlacesOf(q) : x = <<"inbox", h>>
  <2>1. <<"inbox", h>> \in PlacesOf(q)
    BY <1>3, IsPlace
  <2>2. QED
    BY <2>1 DEF RequestInv, OnePlace
<1>7. Distinct'
  BY <1>3, <1>4, <1>5 DEF RequestInv, Distinct
<1>8. OnePlace(q)' /\ PromiseInv(q)'
  <2>1. \A s \in Sockets : q \notin Elements(inflight'[s])
    BY <1>5, <1>6, IsPlace
  <2>2. ASSUME NEW g \in Handlers
        PROVE  q \notin Elements(inbox'[g]) /\ (job'[g] = q <=> g = h)
    <3>1. g # h => <<"inbox", g>> \notin PlacesOf(q)
      BY <1>6
    <3>2. job[g] # q
      BY <1>6, IsPlace
    <3>3. QED
      BY <1>3, <1>4, <3>1, <3>2, IsPlace
  <2>3. <<"job", h>> \in PlacesOf(q)' /\ \A x \in PlacesOf(q)' : x = <<"job", h>>
    BY <2>1, <2>2, IsPlaceNext
  <2>4. \A g \in Handlers : job'[g] = q => handler'[g] = "working"
    BY <1>4, <2>2
  <2>5. Unreported(q) /\ PromiseInv(q)
    BY <1>3 DEF Unreported, RequestInv
  <2>6. QED
    BY <1>5, <2>3, <2>4, <2>5 DEF OnePlace, PromiseInv
<1>9. ASSUME NEW r \in Requests, r # q
      PROVE  OnePlace(r)' /\ PromiseInv(r)'
  <2>1. \A g \in Handlers : r \in Elements(inbox'[g]) <=> r \in Elements(inbox[g])
    BY <1>3, <1>4, <1>9
  <2>2. \A g \in Handlers : (job'[g] = r <=> job[g] = r) /\ (job[g] = r => handler'[g] = handler[g])
    BY <1>1, <1>4, <1>9, ConstantFacts
  <2>3. PlacesOf(r)' = PlacesOf(r)
    BY <1>5, <2>1, <2>2 DEF PlacesOf
  <2>4. Unreported(r)' => Unreported(r)
    BY <1>5, <2>1, <2>2 DEF Unreported
  <2>5. \A g \in Handlers : (job'[g] = r /\ handler'[g] = "completing")
                           => (job[g] = r /\ handler[g] = "completing")
    BY <2>2
  <2>6. OnePlace(r) /\ PromiseInv(r)
    BY DEF RequestInv
  <2>7. QED
    BY <1>5, <2>3, <2>4, <2>5, <2>6 DEF OnePlace, PromiseInv
<1>10. QED
  BY <1>7, <1>8, <1>9 DEF RequestInv

\* A handler gets on with its request, or reports on it: no other request is
\* touched, and this one stays with the handler or is settled.
LEMMA JobKeeps ==
    ASSUME TypeOK, RequestInv, NEW h \in Handlers,
           NEW q \in Requests, job[h] = q,
           UNCHANGED <<inflight, inbox, known>>,
           \A g \in Handlers : g # h => job'[g] = job[g] /\ handler'[g] = handler[g],
           \A r \in Requests : r # q => outcome'[r] = outcome[r],
           lost \subseteq lost',
           \A r \in Requests : r # q => (r \in uploaded' <=> r \in uploaded),
           \A r \in Requests : r # q => (r \in confirmed' <=> r \in confirmed),
           PromiseInv(q)',
           job'[h] \in {q, None}
    PROVE  RequestInv'
<1>1. Distinct'
  BY DEF RequestInv, Distinct
<1>2. ASSUME NEW r \in Requests
      PROVE  PlacesOf(r)' \subseteq PlacesOf(r)
  <2>1. \A g \in Handlers : job'[g] = r => job[g] = r
    BY ConstantFacts
  <2>2. QED
    BY <2>1, IsPlace, IsPlaceNext
<1>3. ASSUME NEW r \in Requests, r # q
      PROVE  PromiseInv(r)'
  <2>1. \A g \in Handlers : (job'[g] = r <=> job[g] = r) /\ (job[g] = r => handler'[g] = handler[g])
    BY <1>3, ConstantFacts
  <2>2. PlacesOf(r)' = PlacesOf(r)
    BY <2>1 DEF PlacesOf
  <2>3. Unreported(r)' => Unreported(r)
    BY <2>1 DEF Unreported
  <2>4. \A g \in Handlers : (job'[g] = r /\ handler'[g] = "completing")
                           => (job[g] = r /\ handler[g] = "completing")
    BY <2>1
  <2>5. /\ outcome'[r] = outcome[r]
        /\ r \in uploaded <=> r \in uploaded'
        /\ r \in confirmed <=> r \in confirmed'
    BY <1>3
  <2>6. PromiseInv(r)
    BY DEF RequestInv
  <2>7. QED
    BY <2>2, <2>3, <2>4, <2>5, <2>6 DEF PromiseInv
<1>4. ASSUME NEW r \in Requests
      PROVE  OnePlace(r)'
  BY <1>2, StillOnePlace DEF RequestInv
<1>5. QED
  BY <1>1, <1>3, <1>4 DEF RequestInv

LEMMA HandlerKeeps ==
    ASSUME TypeOK, RequestInv, NEW h \in Handlers,
           Upload(h) \/ WorkFails(h) \/ Report(h)
    PROVE  RequestInv'
<1>1. /\ job[h] # None /\ job[h] \in Requests
      /\ handler[h] \in {"working", "completing", "failing"}
  BY DEF Upload, WorkFails, Report, Complete, CompleteFails, Fail, FailFails, TypeOK
<1>2. PICK q \in Requests : job[h] = q /\ q # None
  BY <1>1
<1>3. OnePlace(q) /\ PromiseInv(q) /\ outcome \in [Requests -> Outcomes]
  BY DEF RequestInv, TypeOK
<1>4. \A x \in PlacesOf(q) : x = <<"job", h>>
  <2>1. <<"job", h>> \in PlacesOf(q)
    BY <1>2, IsPlace
  <2>2. QED
    BY <1>3, <2>1 DEF OnePlace
<1>5. /\ \A s \in Sockets : q \notin Elements(inflight[s])
      /\ \A g \in Handlers : q \notin Elements(inbox[g])
      /\ \A g \in Handlers : job[g] = q => g = h
  BY <1>4, IsPlace
<1>6. outcome[q] \notin {"none", "refused"} /\ (outcome[q] = "forgotten" => q \notin known)
  BY <1>2, <1>3, IsPlace DEF PromiseInv
<1>7. handler[h] \in {"working", "completing"} => outcome[q] \in {"pending", "forgotten"}
  BY <1>2, <1>3 DEF PromiseInv, Unreported
\* What the step does, seen from q.
<1>8. /\ UNCHANGED <<inflight, inbox, known>> /\ lost \subseteq lost'
      /\ \A g \in Handlers : g # h => job'[g] = job[g] /\ handler'[g] = handler[g]
      /\ \A r \in Requests : r # q => outcome'[r] = outcome[r]
      /\ \A r \in Requests : r # q => (r \in uploaded' <=> r \in uploaded)
      /\ \A r \in Requests : r # q => (r \in confirmed' <=> r \in confirmed)
      /\ job'[h] \in {q, None}
  <2> USE <1>2 DEF TypeOK, managerVars, socketVars, Goto, EndJob, Settle
  <2>1. CASE Upload(h)
    BY <2>1 DEF Upload
  <2>2. CASE WorkFails(h)
    BY <2>2 DEF WorkFails
  <2>3. CASE Complete(h)
    BY <2>3 DEF Complete
  <2>4. CASE CompleteFails(h)
    BY <2>4 DEF CompleteFails
  <2>5. CASE Fail(h)
    BY <2>5 DEF Fail
  <2>6. CASE FailFails(h)
    BY <2>6 DEF FailFails
  <2>7. QED
    BY <2>1, <2>2, <2>3, <2>4, <2>5, <2>6 DEF Report
<1>9. \/ /\ handler[h] = "working" /\ handler'[h] = "completing" /\ job'[h] = q
         /\ q \in uploaded' /\ outcome' = outcome /\ confirmed' = confirmed
      \/ /\ handler[h] = "working" /\ handler'[h] = "failing" /\ job'[h] = q
         /\ uploaded \subseteq uploaded' /\ outcome' = outcome /\ confirmed' = confirmed
      \/ /\ handler[h] = "completing" /\ job'[h] = None /\ q \in known
         /\ uploaded' = uploaded
         /\ outcome'[q] = IF outcome[q] = "pending" THEN "success" ELSE outcome[q]
      \/ /\ handler[h] = "completing" /\ handler'[h] = "failing" /\ job'[h] = q
         /\ outcome'[q] = outcome[q] \/ (outcome[q] = "pending" /\ outcome'[q] = "success")
         /\ uploaded' = uploaded /\ confirmed' = confirmed
      \/ /\ handler[h] = "failing" /\ job'[h] = None
         /\ outcome'[q] = IF outcome[q] = "pending" THEN "error" ELSE outcome[q]
         /\ uploaded' = uploaded /\ confirmed' = confirmed
      \/ /\ handler[h] = "failing" /\ handler'[h] = "dead" /\ job'[h] = q /\ q \in lost'
         /\ outcome'[q] = outcome[q] \/ (outcome[q] = "pending" /\ outcome'[q] = "error")
         /\ uploaded' = uploaded /\ confirmed' = confirmed
  <2> USE <1>2 DEF TypeOK, managerVars, Goto, EndJob, Settle
  <2>1. CASE Upload(h)
    BY <2>1 DEF Upload
  <2>2. CASE WorkFails(h)
    BY <2>2 DEF WorkFails
  <2>3. CASE Complete(h)
    BY <2>3 DEF Complete
  <2>4. CASE CompleteFails(h)
    BY <2>4 DEF CompleteFails
  <2>5. CASE Fail(h)
    BY <2>5 DEF Fail
  <2>6. CASE FailFails(h)
    BY <2>6 DEF FailFails
  <2>7. QED
    BY <2>1, <2>2, <2>3, <2>4, <2>5, <2>6 DEF Report
<1>10. /\ \A s \in Sockets : q \notin Elements(inflight'[s])
       /\ \A g \in Handlers : q \notin Elements(inbox'[g])
       /\ \A g \in Handlers : job'[g] = q => g = h
  BY <1>5, <1>8
<1>11. /\ Unreported(q)' => (job'[h] = q /\ handler'[h] \in {"working", "completing"})
       /\ job'[h] = q => PlacesOf(q)' # {}
  BY <1>10, IsPlaceNext DEF Unreported
<1>12. q \in known' <=> q \in known
  BY <1>8
<1>13. PromiseInv(q)'
  <2>1. \A g \in Handlers : (job'[g] = q /\ handler'[g] = "completing") => q \in uploaded'
    <3>1. (job'[h] = q /\ handler'[h] = "completing") => q \in uploaded'
      BY <1>2, <1>9
    <3>2. QED
      BY <1>10, <3>1
  <2>2. (outcome'[q] = "pending" /\ q \notin lost') => PlacesOf(q)' # {}
    BY <1>9, <1>11
  <2>3. outcome'[q] = "success" => q \in uploaded'
    <3>1. /\ handler[h] = "completing" => q \in uploaded
          /\ outcome[q] = "success" => q \in uploaded
      BY <1>2, <1>3 DEF PromiseInv
    <3>2. QED
      BY <1>9, <3>1
  <2>4. Unreported(q)' => outcome'[q] \in {"pending", "forgotten"}
    <3>1. (job'[h] = q /\ handler'[h] \in {"working", "completing"})
              => (handler[h] = "working" /\ outcome'[q] = outcome[q])
      BY <1>2, <1>9
    <3>2. QED
      BY <1>7, <1>11, <3>1
  <2>5. outcome'[q] \notin {"none", "refused"} /\ (outcome'[q] = "forgotten" => q \notin known')
    BY <1>6, <1>9, <1>12
  <2>6. q \in confirmed' => outcome'[q] = "success"
    BY <1>3, <1>6, <1>7, <1>9 DEF PromiseInv
  <2>7. /\ PlacesOf(q)' # {} => outcome'[q] \notin {"none", "refused"}
        /\ outcome'[q] = "forgotten" => q \notin known'
    BY <2>5
  <2>8. QED
    BY <2>1, <2>2, <2>3, <2>4, <2>6, <2>7 DEF PromiseInv
<1>14. QED
  BY <1>2, <1>8, <1>13, JobKeeps

LEMMA MetadataKeeps ==
    ASSUME TypeOK, Unstarted, RequestInv, ReceiveMetadata
    PROVE  RequestInv'
<1> DEFINE n == latest + 1
           aborted == IF latest = 0 \/ handler[latest] = "starting" THEN {} ELSE {latest}
           S == UNION {SocketsOf(a) : a \in aborted}
<1>1. Discard(S) /\ S \in SUBSET Sockets
  BY DEF ReceiveMetadata, SocketsOf
<1> HIDE DEF aborted, S
<1>2. n \in Handlers /\ handler[n] = "none" /\ job[n] = None
  <2>1. latest \in 0 .. MaxHandlers /\ latest < MaxHandlers
    BY DEF ReceiveMetadata, TypeOK
  <2>2. n \in Handlers /\ n > latest
    BY <2>1, ConstantFacts DEF Handlers
  <2>3. handler[n] = "none"
    BY <2>2 DEF Unstarted
  <2>4. QED
    BY <2>2, <2>3 DEF TypeOK
<1>3. \A h \in Handlers : job'[h] = job[h] /\ (job[h] # None => handler'[h] = handler[h])
  BY <1>2 DEF ReceiveMetadata, TypeOK
<1>4. UNCHANGED <<inbox, outcome, known, uploaded, confirmed>>
  BY DEF ReceiveMetadata, managerVars
<1>5. /\ \A s \in Sockets : inflight'[s] = inflight[s] \/ inflight'[s] = <<>>
      /\ lost \subseteq lost'
      /\ \A s \in Sockets : inflight'[s] # inflight[s] => Elements(inflight[s]) \subseteq lost'
  BY <1>1 DEF Discard
<1>6. QED
  BY <1>3, <1>4, <1>5, RequestsLost

LEMMA BreakKeeps ==
    ASSUME TypeOK, RequestInv, NEW s \in Sockets, Break(s)
    PROVE  RequestInv'
<1>1. /\ \A t \in Sockets : inflight'[t] = inflight[t] \/ inflight'[t] = <<>>
      /\ lost \subseteq lost'
      /\ \A t \in Sockets : inflight'[t] # inflight[t] => Elements(inflight[t]) \subseteq lost'
  BY DEF Break, Discard
<1>2. UNCHANGED <<inbox, job, handler, outcome, known, uploaded, confirmed>>
  BY DEF Break, managerVars, handlerVars
<1>3. QED
  BY <1>1, <1>2, RequestsLost

LEMMA RestartKeeps ==
    ASSUME TypeOK, RequestInv, Restart
    PROVE  RequestInv'
<1>1. /\ \A t \in Sockets : inflight'[t] = inflight[t] \/ inflight'[t] = <<>>
      /\ lost \subseteq lost'
      /\ \A t \in Sockets : inflight'[t] # inflight[t] => Elements(inflight[t]) \subseteq lost'
  BY DEF Restart, Discard
<1>2. UNCHANGED <<inbox, job, handler, uploaded, confirmed>> /\ known' = {}
  BY DEF Restart, handlerVars
<1>3. \A r \in Requests :
        \/ outcome'[r] = outcome[r] /\ (r \in known' => r \in known)
        \/ outcome[r] = "pending" /\ outcome'[r] = "forgotten" /\ r \notin known'
  BY <1>2 DEF Restart
<1>4. QED
  BY <1>1, <1>2, <1>3, RequestsLost

LEMMA CrashKeeps ==
    ASSUME TypeOK, RequestInv, Crash
    PROVE  RequestInv'
<1>1. /\ \A s \in Sockets : inflight'[s] = <<>>
      /\ \A h \in Handlers : inbox'[h] = <<>> /\ job'[h] = None
      /\ lost \subseteq lost'
  BY DEF Crash
<1>2. /\ \A s \in Sockets : Elements(inflight[s]) \subseteq Requests
      /\ \A h \in Handlers : Elements(inbox[h]) \subseteq Requests /\ job[h] \in Requests \cup {None}
  BY ElementsType DEF TypeOK
<1>3. /\ \A s \in Sockets : Elements(inflight[s]) \subseteq lost'
      /\ \A h \in Handlers : Elements(inbox[h]) \subseteq lost'
      /\ \A h \in Handlers : job[h] # None => job[h] \in lost'
  BY <1>2 DEF Crash
<1>4. UNCHANGED <<outcome, known, uploaded, confirmed>>
  BY DEF Crash, managerVars
<1>5. \A h \in Handlers : job'[h] # job[h] => job[h] \in lost'
  BY <1>1, <1>3
<1>6. QED
  BY <1>1, <1>3, <1>4, <1>5, RequestsLost

LEMMA RequestsInductive == TypeOK /\ Unstarted /\ RequestInv /\ [Next]_vars => RequestInv'
<1> SUFFICES ASSUME TypeOK, Unstarted, RequestInv, [Next]_vars
             PROVE  RequestInv'
  OBVIOUS
<1>1. CASE ConnectControl \/ SendMetadata \/ BreakControl \/ UNCHANGED vars
  BY <1>1, RequestsUntouched DEF ConnectControl, SendMetadata, BreakControl, vars,
     managerVars, socketVars, handlerVars
<1>2. ASSUME NEW s \in Sockets,
             Connect(s) \/ ClientSeesClose(s) \/ ServerSeesClose(s) \/ ReceiveHello(s)
      PROVE  RequestInv'
  BY <1>2, RequestsUntouched DEF Connect, ClientSeesClose, ServerSeesClose, ReceiveHello,
     managerVars, handlerVars
<1>3. ASSUME NEW h \in Handlers, ConstructQueue(h) \/ NoDirectory(h)
      PROVE  RequestInv'
  <2>1. \A g \in Handlers : job[g] # None => handler'[g] = handler[g]
    BY <1>3 DEF ConstructQueue, NoDirectory, TypeOK
  <2>2. QED
    BY <1>3, <2>1, RequestsUntouched DEF ConstructQueue, NoDirectory, managerVars, socketVars
<1>4. QED
  BY <1>1, <1>2, <1>3, MetadataKeeps, BreakKeeps, RestartKeeps, CrashKeeps, RequestKeeps,
     DeliverKeeps, TakeKeeps, HandlerKeeps
     DEF Next, ControlStep, SocketStep, HandlerStep, Report

LEMMA RequestsHold == Spec => []RequestInv
<1>1. Init => RequestInv
  <2>1. Init => \A r \in Requests : PlacesOf(r) = {} /\ ~Unreported(r)
    BY ConstantFacts DEF Init, PlacesOf, Unreported, Elements
  <2>2. QED
    BY <2>1, ConstantFacts DEF Init, RequestInv, Distinct, NoRepeats, OnePlace, PromiseInv
<1>2. QED
  BY <1>1, TypeHolds, RequestsInductive, PTL DEF Spec

\* A promise that was resolved is of a request whose clip was uploaded, and so
\* is whatever the agent was told is complete, through restarts of either side.
THEOREM SuccessHolds == Spec => []SuccessIsReal
<1>1. RequestInv /\ TypeOK => SuccessIsReal
  BY DEF RequestInv, PromiseInv, SuccessIsReal, TypeOK
<1>2. QED
  BY <1>1, RequestsHold, TypeCorrect, PTL

\* A request is in one place at most, and a pending one that is not known to be
\* lost is in one.
THEOREM PendingIsFound == Spec => []PendingIsSomewhere
<1>1. RequestInv => PendingIsSomewhere
  <2> SUFFICES ASSUME RequestInv, NEW r \in Requests
               PROVE  /\ Cardinality(PlacesOf(r)) <= 1
                      /\ (outcome[r] = "pending" /\ r \notin lost) => PlacesOf(r) # {}
    BY DEF PendingIsSomewhere
  <2>1. CASE PlacesOf(r) = {}
    BY <2>1, FS_EmptySet DEF RequestInv, PromiseInv
  <2>2. CASE PlacesOf(r) # {}
    <3>1. PICK x : PlacesOf(r) = {x}
      BY <2>2 DEF RequestInv, OnePlace
    <3>2. QED
      BY <3>1, FS_Singleton
  <2>3. QED
    BY <2>1, <2>2
<1>2. QED
  BY <1>1, RequestsHold, PTL

-----------------------------------------------------------------------------
(* The way of a request *)

\* How a request can get to a place: it is sent to the active agent when it is
\* made, and comes to an inbox from a socket of that handler, and to a job from
\* that handler's inbox.
Reaches(r, y) ==
    \/ outcome[r] = "none" /\ y = <<"flight", agent>>
    \/ \E s \in Sockets : y = <<"inbox", Owner(s)>> /\ <<"flight", s>> \in PlacesOf(r)
    \/ \E h \in Handlers : y = <<"job", h>> /\ <<"inbox", h>> \in PlacesOf(r)

MovesOn ==
    \A r \in Requests :
        /\ outcome[r] # "none" => outcome'[r] # "none"
        /\ \A y \in PlacesOf(r)' : y \in PlacesOf(r) \/ Reaches(r, y)

\* Every step but Request, Deliver and Take puts nothing anywhere.
LEMMA NothingMoves ==
    ASSUME \A s \in Sockets : inflight'[s] \in {inflight[s], <<>>},
           \A h \in Handlers : inbox'[h] \in {inbox[h], <<>>},
           \A h \in Handlers : job'[h] \in {job[h], None},
           \A r \in Requests : outcome[r] # "none" => outcome'[r] # "none"
    PROVE  MovesOn
<1>1. Elements(<<>>) = {}
  BY DEF Elements
<1>2. ASSUME NEW r \in Requests
      PROVE  PlacesOf(r)' \subseteq PlacesOf(r)
  <2>1. \A s \in Sockets : r \in Elements(inflight'[s]) => r \in Elements(inflight[s])
    BY <1>1
  <2>2. \A h \in Handlers : r \in Elements(inbox'[h]) => r \in Elements(inbox[h])
    BY <1>1
  <2>3. \A h \in Handlers : job'[h] = r => job[h] = r
    BY ConstantFacts
  <2>4. QED
    BY <2>1, <2>2, <2>3, IsPlace, IsPlaceNext
<1>3. QED
  BY <1>2 DEF MovesOn

LEMMA RequestMoves ==
    ASSUME TypeOK, NEW q \in Requests, Request(q)
    PROVE  MovesOn
<1>1. /\ outcome[q] = "none" /\ UNCHANGED <<inbox, job>>
      /\ \A r \in Requests : r # q => outcome'[r] = outcome[r]
  BY DEF Request, TypeOK, handlerVars
<1>2. CASE UNCHANGED inflight
  BY <1>1, <1>2, NothingMoves
<1>3. CASE agent # None /\ inflight' = [inflight EXCEPT ![agent] = Append(@, q)]
  <2>1. agent \in Sockets /\ inflight[agent] \in Seq(Requests)
    BY <1>3 DEF TypeOK
  <2>2. /\ inflight'[agent] = Append(inflight[agent], q)
        /\ \A s \in Sockets : s # agent => inflight'[s] = inflight[s]
    BY <1>3, <2>1 DEF TypeOK
  <2>3. Elements(inflight'[agent]) = Elements(inflight[agent]) \cup {q}
    BY <2>1, <2>2, ElementsAppend
  <2>4. ASSUME NEW r \in Requests, NEW y \in PlacesOf(r)'
        PROVE  y \in PlacesOf(r) \/ (r = q /\ y = <<"flight", agent>>)
    <3>1. CASE \E s \in Sockets : y = <<"flight", s>> /\ r \in Elements(inflight'[s])
      <4>1. PICK s \in Sockets : y = <<"flight", s>> /\ r \in Elements(inflight'[s])
        BY <3>1
      <4>2. r \in Elements(inflight[s]) \/ (s = agent /\ r = q)
        BY <2>2, <2>3, <4>1
      <4>3. QED
        BY <4>1, <4>2, IsPlace
    <3>2. CASE \/ \E h \in Handlers : y = <<"inbox", h>> /\ r \in Elements(inbox'[h])
               \/ \E h \in Handlers : y = <<"job", h>> /\ job'[h] = r
      BY <1>1, <3>2, IsPlace
    <3>3. QED
      BY <3>1, <3>2, IsPlaceNext
  <2>5. QED
    BY <1>1, <2>4 DEF MovesOn, Reaches
<1>4. QED
  BY <1>2, <1>3 DEF Request, TypeOK

LEMMA DeliverMoves ==
    ASSUME TypeOK, NEW s \in Sockets, Deliver(s)
    PROVE  MovesOn
<1> DEFINE h == Owner(s)
           q == Head(inflight[s])
<1>1. /\ h \in Handlers /\ inflight[s] \in Seq(Requests) /\ inflight[s] # <<>>
      /\ inbox[h] \in Seq(Requests)
  BY ConstantFacts DEF Deliver, TypeOK
<1>2. /\ q \in Requests /\ q \in Elements(inflight[s])
      /\ Elements(Tail(inflight[s])) \subseteq Elements(inflight[s])
  BY <1>1, ElementsTail
<1>3. /\ inflight'[s] = Tail(inflight[s]) /\ \A t \in Sockets : t # s => inflight'[t] = inflight[t]
      /\ inbox'[h] = Append(inbox[h], q) /\ \A g \in Handlers : g # h => inbox'[g] = inbox[g]
      /\ UNCHANGED <<job, outcome>>
  BY <1>1 DEF Deliver, TypeOK, managerVars
<1>4. Elements(inbox'[h]) = Elements(inbox[h]) \cup {q}
  BY <1>1, <1>2, <1>3, ElementsAppend
<1> HIDE DEF q
<1>5. ASSUME NEW r \in Requests, NEW y \in PlacesOf(r)'
      PROVE  y \in PlacesOf(r) \/ (r = q /\ y = <<"inbox", h>>)
  <2>1. CASE \E t \in Sockets : y = <<"flight", t>> /\ r \in Elements(inflight'[t])
    <3>1. PICK t \in Sockets : y = <<"flight", t>> /\ r \in Elements(inflight'[t])
      BY <2>1
    <3>2. r \in Elements(inflight[t])
      BY <1>2, <1>3, <3>1
    <3>3. QED
      BY <3>1, <3>2, IsPlace
  <2>2. CASE \E g \in Handlers : y = <<"inbox", g>> /\ r \in Elements(inbox'[g])
    <3>1. PICK g \in Handlers : y = <<"inbox", g>> /\ r \in Elements(inbox'[g])
      BY <2>2
    <3>2. r \in Elements(inbox[g]) \/ (g = h /\ r = q)
      BY <1>3, <1>4, <3>1
    <3>3. QED
      BY <3>1, <3>2, IsPlace
  <2>3. CASE \E g \in Handlers : y = <<"job", g>> /\ job'[g] = r
    BY <1>3, <2>3, IsPlace
  <2>4. QED
    BY <2>1, <2>2, <2>3, IsPlaceNext
<1>6. <<"flight", s>> \in PlacesOf(q)
  BY <1>2, IsPlace
<1>7. QED
  BY <1>3, <1>5, <1>6 DEF MovesOn, Reaches

LEMMA TakeMoves ==
    ASSUME TypeOK, NEW h \in Handlers, Take(h)
    PROVE  MovesOn
<1> DEFINE q == Head(inbox[h])
<1>1. inbox[h] \in Seq(Requests) /\ inbox[h] # <<>>
  BY DEF Take, TypeOK
<1>2. /\ q \in Requests /\ q \in Elements(inbox[h])
      /\ Elements(Tail(inbox[h])) \subseteq Elements(inbox[h])
  BY <1>1, ElementsTail
<1>3. /\ inbox'[h] = Tail(inbox[h]) /\ \A g \in Handlers : g # h => inbox'[g] = inbox[g]
      /\ job'[h] = q /\ \A g \in Handlers : g # h => job'[g] = job[g]
      /\ UNCHANGED <<inflight, outcome>>
  BY DEF Take, TypeOK, managerVars, socketVars
<1> HIDE DEF q
<1>4. ASSUME NEW r \in Requests, NEW y \in PlacesOf(r)'
      PROVE  y \in PlacesOf(r) \/ (r = q /\ y = <<"job", h>>)
  <2>1. CASE \E t \in Sockets : y = <<"flight", t>> /\ r \in Elements(inflight'[t])
    BY <1>3, <2>1, IsPlace
  <2>2. CASE \E g \in Handlers : y = <<"inbox", g>> /\ r \in Elements(inbox'[g])
    BY <1>2, <1>3, <2>2, IsPlace
  <2>3. CASE \E g \in Handlers : y = <<"job", g>> /\ job'[g] = r
    BY <1>3, <2>3, IsPlace
  <2>4. QED
    BY <2>1, <2>2, <2>3, IsPlaceNext
<1>5. <<"inbox", h>> \in PlacesOf(q)
  BY <1>2, IsPlace
<1>6. QED
  BY <1>3, <1>4, <1>5 DEF MovesOn, Reaches

\* The other steps: links that break, ends and restarts, and what a handler does.
LEMMA OthersMove ==
    ASSUME TypeOK, [Next]_vars,
           \A r \in Requests : ~Request(r),
           \A s \in Sockets : ~Deliver(s),
           \A h \in Handlers : ~Take(h)
    PROVE  MovesOn
<1>1. CASE Crash
  <2>1. \A r \in Requests : outcome'[r] = outcome[r]
    BY <1>1 DEF Crash, managerVars
  <2>2. QED
    BY <1>1, <2>1, NothingMoves DEF Crash
<1>2. CASE Restart
  BY <1>2, NothingMoves DEF Restart, Discard, handlerVars
<1>3. CASE ReceiveMetadata
  BY <1>3, NothingMoves DEF ReceiveMetadata, Discard, managerVars
<1>4. ASSUME NEW s \in Sockets, Break(s)
      PROVE  MovesOn
  BY <1>4, NothingMoves DEF Break, Discard, managerVars, handlerVars
<1>5. ASSUME NEW h \in Handlers, Complete(h) \/ CompleteFails(h) \/ Fail(h) \/ FailFails(h)
      PROVE  MovesOn
  <2>1. UNCHANGED <<inflight, inbox>>
    BY <1>5 DEF Complete, CompleteFails, Fail, FailFails, socketVars
  <2>2. \A g \in Handlers : job'[g] \in {job[g], None}
    BY <1>5 DEF Complete, CompleteFails, Fail, FailFails, EndJob, TypeOK
  <2>3. \A r \in Requests : outcome[r] # "none" => outcome'[r] # "none"
    BY <1>5 DEF Complete, CompleteFails, Fail, FailFails, Settle, TypeOK
  <2>4. QED
    BY <2>1, <2>2, <2>3, NothingMoves
<1>6. CASE UNCHANGED <<inflight, inbox, job, outcome>>
  BY <1>6, NothingMoves
<1>7. QED
  BY <1>1, <1>2, <1>3, <1>4, <1>5, <1>6 DEF Next, ControlStep, SocketStep, HandlerStep, Report,
     ConnectControl, SendMetadata, BreakControl, Connect, ClientSeesClose, ServerSeesClose,
     ReceiveHello, ConstructQueue, NoDirectory, Upload, WorkFails, vars, managerVars, socketVars, handlerVars

\* However agents, handlers and sockets come and go, a request that is made is
\* sent once, to the agent that is active then, and goes on only from there to
\* the handler of that socket: it is never sent again, never worked on by
\* another handler, and nothing comes back to a request that left its last place.
THEOREM RequestsMoveOn == Spec => [][MovesOn]_vars
<1>1. TypeOK /\ [Next]_vars => MovesOn
  BY RequestMoves, DeliverMoves, TakeMoves, OthersMove DEF Next, SocketStep, HandlerStep
<1>2. QED
  BY <1>1, TypeCorrect, PTL DEF Spec
=============================================================================
