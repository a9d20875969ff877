------------------------ MODULE DynamicBitrateProofs ------------------------
(***************************************************************************)
(* TLAPS proofs about DynamicBitrate, for any slots of runs, any bitrates  *)
(* and any number of posts and faults.                                     *)
(***************************************************************************)
EXTENDS DynamicBitrate, SequenceTheorems, TLAPS

LEMMA ConstantFacts ==
    /\ MaxPosts \in Nat /\ MaxFaults \in Nat
    /\ Base \in Posted /\ Bitrates \subseteq Posted /\ Bad \in Posted
    /\ None \notin Runs
    /\ Posted \ {Bad} \subseteq Bitrates \cup {Base}
BY DynamicAssumption DEF Posted

-----------------------------------------------------------------------------
(* Types                                                                   *)

LEMMA FaultType ==
    ASSUME TypeOK, Fault
    PROVE  faults' \in 0..MaxFaults
BY ConstantFacts DEF Fault, TypeOK

LEMMA ApplyType ==
    ASSUME TypeOK, NEW r \in Runs, NEW bitrate \in Bitrates \cup {Base}, Apply(r, bitrate)
    PROVE  /\ encoder' \in [Runs -> Bitrates \cup {Base, None}]
           /\ applied' \in [Runs -> Seq(Posted)]
<1>1. bitrate \in Posted /\ applied[r] \in Seq(Posted)
  BY ConstantFacts DEF TypeOK
<1>2. Append(applied[r], bitrate) \in Seq(Posted)
  BY <1>1, AppendProperties
<1>3. QED
  BY <1>2 DEF Apply, TypeOK

LEMMA PublisherType ==
    ASSUME TypeOK, NEW r \in Runs, PublisherStep(r)
    PROVE  TypeOK'
<1> USE DEF TypeOK, runVars, socketVars
<1>1. <<>> \in Seq(Posted)
  OBVIOUS
<1>2. CASE Canceled(r)
  BY <1>1, <1>2 DEF Canceled, Exit
<1>3. CASE BusError(r)
  BY <1>1, <1>3, FaultType DEF BusError, Exit
<1>4. CASE HookReturned(r)
  BY <1>1, <1>4 DEF HookReturned, Exit
<1>5. CASE ApplyBase(r)
  BY <1>5, ApplyType DEF ApplyBase
<1>6. CASE Dial(r)
  BY <1>6, FaultType DEF Dial
<1>7. CASE Read(r)
  <2>1. down[r] \in Seq(Posted) /\ down[r] # <<>>
    BY <1>7 DEF Read
  <2>2. Head(down[r]) \in Posted /\ Tail(down[r]) \in Seq(Posted)
    BY <2>1, HeadTailProperties
  <2>3. CASE Head(down[r]) = Bad
    <3>1. /\ down' = [down EXCEPT ![r] = <<>>]
          /\ hook' = [hook EXCEPT ![r] = "returned"]
          /\ clientOpen' = [clientOpen EXCEPT ![r] = FALSE]
          /\ UNCHANGED <<encoder, applied>>
          /\ UNCHANGED <<source, run, serverOpen, broken, hello, agent, posts, faults, accepted>>
      BY <1>7, <2>3 DEF Read
    <3>2. QED
      BY <1>1, <3>1
  <2>4. CASE Head(down[r]) # Bad
    <3>1. Head(down[r]) \in Bitrates \cup {Base}
      BY <2>2, <2>4, ConstantFacts
    <3>2. Apply(r, Head(down[r]))
      BY <1>7, <2>4 DEF Read
    <3>3. QED
      BY <1>7, <2>2, <2>4, <3>1, <3>2, ApplyType DEF Read
  <2>5. QED
    BY <2>3, <2>4
<1>8. CASE ReadFails(r)
  BY <1>8 DEF ReadFails
<1>9. QED
  BY <1>2, <1>3, <1>4, <1>5, <1>6, <1>7, <1>8 DEF PublisherStep

LEMMA OtherType ==
    ASSUME TypeOK,
           \/ SourceGoes \/ SourceComes \/ SiteRestarts
           \/ \E r \in Runs : Start(r) \/ SiteStep(r) \/ Break(r)
    PROVE  TypeOK'
<1> USE DEF TypeOK, runVars, socketVars
<1>1. <<>> \in Seq(Posted)
  OBVIOUS
<1>2. CASE SourceGoes
  BY <1>2, FaultType DEF SourceGoes
<1>3. CASE SourceComes
  BY <1>3 DEF SourceComes
<1>4. CASE SiteRestarts
  BY <1>1, <1>4, FaultType DEF SiteRestarts
<1>5. ASSUME NEW r \in Runs, Start(r)
      PROVE  TypeOK'
  BY <1>1, <1>5 DEF Start
<1>6. ASSUME NEW r \in Runs, ReceiveHello(r)
      PROVE  TypeOK'
  BY <1>6 DEF ReceiveHello
<1>7. ASSUME NEW r \in Runs, SeeClose(r)
      PROVE  TypeOK'
  BY <1>7 DEF SeeClose
<1>8. ASSUME NEW r \in Runs, Break(r)
      PROVE  TypeOK'
  BY <1>1, <1>8, FaultType DEF Break
<1>9. QED
  BY <1>2, <1>3, <1>4, <1>5, <1>6, <1>7, <1>8 DEF SiteStep

LEMMA PostType ==
    ASSUME TypeOK, NEW bitrate \in Posted, Post(bitrate)
    PROVE  TypeOK'
<1> USE DEF TypeOK, runVars, socketVars
<1>1. CASE agent = None
  BY <1>1, ConstantFacts DEF Post
<1>2. CASE agent # None
  <2>1. agent \in Runs /\ accepted[agent] \in Seq(Posted) /\ down[agent] \in Seq(Posted)
    BY <1>2
  <2>2. /\ Append(accepted[agent], bitrate) \in Seq(Posted)
        /\ Append(down[agent], bitrate) \in Seq(Posted)
    BY <2>1, AppendProperties
  <2>3. posts' \in 0..MaxPosts
    BY ConstantFacts DEF Post
  <2>4. accepted' \in [Runs -> Seq(Posted)] /\ down' \in [Runs -> Seq(Posted)]
    <3>1. /\ accepted' = [accepted EXCEPT ![agent] = Append(accepted[agent], bitrate)]
          /\ down' = [down EXCEPT ![agent] = Append(down[agent], bitrate)] \/ down' = down
      BY <1>2 DEF Post
    <3>2. QED
      BY <2>1, <2>2, <3>1
  <2>5. QED
    BY <2>3, <2>4 DEF Post
<1>3. QED
  BY <1>1, <1>2

\* Every variable keeps its type.
THEOREM TypeCorrect == Spec => []TypeOK
<1>1. Init => TypeOK
  <2> SUFFICES ASSUME Init
               PROVE  TypeOK
    OBVIOUS
  <2>1. <<>> \in Seq(Posted)
    OBVIOUS
  <2>2. /\ down \in [Runs -> Seq(Posted)] /\ accepted \in [Runs -> Seq(Posted)]
        /\ applied \in [Runs -> Seq(Posted)]
    BY <2>1 DEF Init
  <2>3. QED
    BY <2>2, ConstantFacts DEF Init, TypeOK
<1>2. TypeOK /\ [Next]_vars => TypeOK'
  <2>1. CASE UNCHANGED vars
    BY <2>1 DEF vars, runVars, socketVars, TypeOK
  <2>2. QED
    BY <2>1, PublisherType, OtherType, PostType DEF Next
<1>3. QED
  BY <1>1, <1>2, PTL DEF Spec

-----------------------------------------------------------------------------
(* The two ends of a run's socket                                          *)

\* What the place of a run's hook says of its socket, at either end.
SocketInv(r) ==
    /\ hook[r] \in {"base", "dial", "reading"} => run[r] = "playing"
    /\ clientOpen[r] => hook[r] = "reading"
    /\ hook[r] = "reading" => clientOpen[r]
    /\ hook[r] \in {"off", "base", "dial"} => ~serverOpen[r]
    /\ down[r] # <<>> => hook[r] = "reading" /\ serverOpen[r] /\ ~broken[r]
    /\ hello[r] => serverOpen[r] /\ down[r] = <<>>

\* The socket that serves the path is open and has said its hello.
AgentInv == agent \in Runs => serverOpen[agent] /\ ~hello[agent]

SocketsInv == AgentInv /\ \A r \in Runs : SocketInv(r)

LEMMA SocketsPublisher ==
    ASSUME TypeOK, SocketsInv, NEW r \in Runs, PublisherStep(r)
    PROVE  SocketsInv'
<1> USE DEF TypeOK, SocketsInv, SocketInv, AgentInv, runVars, socketVars
<1>1. CASE Canceled(r)
  BY <1>1 DEF Canceled, Exit
<1>2. CASE BusError(r)
  BY <1>2 DEF BusError, Exit
<1>3. CASE HookReturned(r)
  BY <1>3 DEF HookReturned, Exit
<1>4. CASE ApplyBase(r)
  BY <1>4 DEF ApplyBase, Apply
<1>5. CASE Dial(r)
  <2>1. /\ hook[r] = "dial" /\ run[r] = "playing" /\ ~serverOpen[r] /\ down[r] = <<>>
        /\ agent # r
    BY <1>5 DEF Dial
  <2>2. CASE hook'[r] = "returned"
    BY <1>5, <2>1, <2>2 DEF Dial
  <2>3. CASE hook' = [hook EXCEPT ![r] = "reading"]
    BY <1>5, <2>1, <2>3 DEF Dial
  <2>4. QED
    BY <1>5, <2>2, <2>3 DEF Dial
<1>6. CASE Read(r)
  BY <1>6 DEF Read, Apply
<1>7. CASE ReadFails(r)
  BY <1>7 DEF ReadFails
<1>8. QED
  BY <1>1, <1>2, <1>3, <1>4, <1>5, <1>6, <1>7 DEF PublisherStep

LEMMA SocketsOther ==
    ASSUME TypeOK, SocketsInv,
           \/ SourceGoes \/ SourceComes \/ SiteRestarts
           \/ \E r \in Runs : Start(r) \/ SiteStep(r) \/ Break(r)
           \/ \E bitrate \in Posted : Post(bitrate)
    PROVE  SocketsInv'
<1> USE ConstantFacts DEF TypeOK, SocketsInv, SocketInv, AgentInv, runVars, socketVars
<1>1. CASE SourceGoes \/ SourceComes
  BY <1>1 DEF SourceGoes, SourceComes
<1>2. CASE SiteRestarts
  <2>1. /\ agent' \notin Runs /\ UNCHANGED <<run, hook, clientOpen>>
        /\ \A q \in Runs : ~serverOpen'[q] /\ ~hello'[q] /\ down'[q] = <<>>
    BY <1>2 DEF SiteRestarts
  <2>2. QED
    BY <2>1
<1>3. ASSUME NEW r \in Runs, Start(r)
      PROVE  SocketsInv'
  BY <1>3 DEF Start
<1>4. ASSUME NEW r \in Runs, ReceiveHello(r)
      PROVE  SocketsInv'
  BY <1>4 DEF ReceiveHello
<1>5. ASSUME NEW r \in Runs, SeeClose(r)
      PROVE  SocketsInv'
  BY <1>5 DEF SeeClose
<1>6. ASSUME NEW r \in Runs, Break(r)
      PROVE  SocketsInv'
  BY <1>6 DEF Break
<1>7. ASSUME NEW bitrate \in Posted, Post(bitrate)
      PROVE  SocketsInv'
  BY <1>7 DEF Post
<1>8. QED
  BY <1>1, <1>2, <1>3, <1>4, <1>5, <1>6, <1>7 DEF SiteStep

LEMMA SocketsInductive ==
    ASSUME TypeOK, SocketsInv, [Next]_vars
    PROVE  SocketsInv'
<1>1. CASE UNCHANGED vars
  BY <1>1 DEF vars, runVars, socketVars, SocketsInv, SocketInv, AgentInv
<1>2. QED
  BY <1>1, SocketsPublisher, SocketsOther DEF Next

LEMMA SocketsInit == Init => SocketsInv
BY ConstantFacts DEF Init, SocketsInv, SocketInv, AgentInv

\* The path is never served by a socket that the site has closed.
THEOREM AgentStaysOpen == Spec => []AgentIsOpen
<1>1. TypeOK /\ SocketsInv => AgentIsOpen
  BY ConstantFacts DEF TypeOK, SocketsInv, AgentInv, AgentIsOpen
<1>2. QED
  BY <1>1, SocketsInit, SocketsInductive, TypeCorrect, PTL DEF Spec

-----------------------------------------------------------------------------
(* The bitrates of a run                                                   *)

\* A sequence that grows at its end keeps its prefixes, and the beginning of a
\* concatenation is one.
LEMMA PrefixGrows ==
    ASSUME NEW S, NEW s \in Seq(S), NEW t \in Seq(S), NEW e \in S, IsPrefixOf(s, t)
    PROVE  IsPrefixOf(s, Append(t, e))
<1>1. /\ Append(t, e) \in Seq(S) /\ Len(Append(t, e)) = Len(t) + 1
      /\ \A i \in 1..Len(t) : Append(t, e)[i] = t[i]
  BY AppendProperties
<1>2. SubSeq(t, 1, Len(s)) = SubSeq(Append(t, e), 1, Len(s))
  <2>1. Len(s) \in 0..Len(t) /\ Len(s) \in 0..Len(Append(t, e))
    BY <1>1, LenProperties DEF IsPrefixOf
  <2>2. /\ SubSeq(t, 1, Len(s)) = Restrict(t, 1..Len(s))
        /\ SubSeq(Append(t, e), 1, Len(s)) = Restrict(Append(t, e), 1..Len(s))
    BY <1>1, <2>1, SubSeqRestrict
  <2>3. QED
    BY <1>1, <2>1, <2>2 DEF Restrict
<1>3. QED
  BY <1>1, <1>2, LenProperties DEF IsPrefixOf

LEMMA PrefixOfConcat ==
    ASSUME NEW S, NEW s \in Seq(S), NEW t \in Seq(S)
    PROVE  IsPrefixOf(s, s \o t)
<1>1. Len(s) \in Nat /\ Len(t) \in Nat /\ s \o t \in Seq(S) /\ Len(s \o t) = Len(s) + Len(t)
  BY LenProperties, ConcatProperties
<1>2. SubSeq(s \o t, 1, Len(s)) = s
  <2>1. \A i \in 1..Len(s) : (s \o t)[i] = s[i]
    BY <1>1, ConcatProperties
  <2>2. /\ SubSeq(s \o t, 1, Len(s)) = Restrict(s \o t, 1..Len(s))
        /\ SubSeq(s, 1, Len(s)) = Restrict(s, 1..Len(s))
    <3>1. Len(s) \in 0..Len(s) /\ Len(s) \in 0..Len(s \o t)
      BY <1>1
    <3>2. SubSeq(s, 1, Len(s)) = Restrict(s, 1..Len(s))
      BY <3>1, SubSeqRestrict
    <3>3. SubSeq(s \o t, 1, Len(s)) = Restrict(s \o t, 1..Len(s))
      BY <1>1, <3>1, SubSeqRestrict
    <3>4. QED
      BY <3>2, <3>3
  <2>3. Restrict(s \o t, 1..Len(s)) = Restrict(s, 1..Len(s))
    BY <2>1 DEF Restrict
  <2>4. QED
    BY <2>2, <2>3, SubSeqFull
<1>3. QED
  BY <1>1, <1>2 DEF IsPrefixOf

\* Appending to the accepted bitrates, and moving one from down to applied.
LEMMA ConcatAppend ==
    ASSUME NEW S, NEW s \in Seq(S), NEW t \in Seq(S), NEW e \in S
    PROVE  s \o Append(t, e) = Append(s \o t, e)
<1>1. /\ Append(t, e) = t \o <<e>> /\ Append(s \o t, e) = (s \o t) \o <<e>>
      /\ s \o t \in Seq(S) /\ <<e>> \in Seq(S)
  BY AppendIsConcat, ConcatProperties
<1>2. QED
  BY <1>1, ConcatAssociative

LEMMA MoveHead ==
    ASSUME NEW S, NEW s \in Seq(S), NEW t \in Seq(S), t # <<>>
    PROVE  Append(s, Head(t)) \o Tail(t) = s \o t
<1>1. Head(t) \in S /\ Tail(t) \in Seq(S) /\ <<Head(t)>> \in Seq(S)
  BY HeadTailProperties
<1>2. <<Head(t)>> \o Tail(t) = t
  BY <1>1
<1>3. Append(s, Head(t)) = s \o <<Head(t)>>
  BY <1>1, AppendIsConcat
<1>4. (s \o <<Head(t)>>) \o Tail(t) = s \o (<<Head(t)>> \o Tail(t))
  BY <1>1, ConcatAssociative
<1>5. QED
  BY <1>2, <1>3, <1>4


LEMMA BasePrefixes ==
    /\ IsPrefixOf(<<>>, <<Base>> \o <<>>)
    /\ IsPrefixOf(<<Base>>, <<Base>> \o <<>>)
<1>1. <<>> \in Seq(Posted) /\ <<Base>> \in Seq(Posted)
  BY ConstantFacts
<1>2. IsPrefixOf(<<>>, <<>> \o <<Base>>) /\ IsPrefixOf(<<Base>>, <<Base>> \o <<>>)
  BY <1>1, PrefixOfConcat
<1>3. <<>> \o <<Base>> = <<Base>> /\ <<Base>> \o <<>> = <<Base>>
  BY <1>1, ConcatEmptySeq
<1>4. QED
  BY <1>2, <1>3

\* The history of a run's bitrates: what was applied is the beginning of what
\* was wanted, all of it but what is on its way while the socket is whole.
Wanted(r) == <<Base>> \o accepted[r]

StreamInv(r) ==
    /\ hook[r] \in {"off", "base"} => accepted[r] = <<>> /\ applied[r] = <<>>
    /\ hook[r] = "dial" => accepted[r] = <<>> /\ applied[r] = <<Base>>
    /\ IsPrefixOf(applied[r], Wanted(r))
    /\ applied[r] # <<>> => encoder[r] = applied[r][Len(applied[r])]
    /\ (clientOpen[r] /\ ~broken[r]) => Wanted(r) = applied[r] \o down[r]

LEMMA WantedType ==
    ASSUME TypeOK, NEW r \in Runs
    PROVE  /\ applied[r] \in Seq(Posted) /\ accepted[r] \in Seq(Posted) /\ down[r] \in Seq(Posted)
           /\ Wanted(r) \in Seq(Posted)
<1>1. <<Base>> \in Seq(Posted)
  BY ConstantFacts
<1>2. QED
  BY <1>1, ConcatProperties DEF TypeOK, Wanted

\* A step that leaves the bitrates of q alone, and opens no socket for it.
LEMMA StreamUnchanged ==
    ASSUME NEW q \in Runs, StreamInv(q),
           accepted'[q] = accepted[q], applied'[q] = applied[q],
           encoder'[q] = encoder[q],
           hook'[q] = hook[q] \/ hook'[q] = "returned",
           clientOpen'[q] => clientOpen[q] /\ (~broken'[q] => ~broken[q] /\ down'[q] = down[q])
    PROVE  StreamInv(q)'
BY DEF StreamInv, Wanted

LEMMA StreamPublisher ==
    ASSUME TypeOK, SocketsInv, NEW r \in Runs, PublisherStep(r),
           NEW q \in Runs, StreamInv(q)
    PROVE  StreamInv(q)'
<1> USE DEF TypeOK
<1>1. CASE q # r
  <2>1. /\ accepted'[q] = accepted[q] /\ applied'[q] = applied[q] /\ encoder'[q] = encoder[q]
        /\ hook'[q] = hook[q] /\ down'[q] = down[q]
    BY <1>1 DEF PublisherStep, Canceled, BusError, HookReturned, Exit, ApplyBase, Apply, Dial,
       Read, ReadFails, socketVars
  <2>2. clientOpen'[q] = clientOpen[q] /\ broken'[q] = broken[q]
    BY <1>1 DEF PublisherStep, Canceled, BusError, HookReturned, Exit, ApplyBase, Apply, Dial,
       Read, ReadFails, socketVars
  <2>3. QED
    BY <2>1, <2>2, StreamUnchanged
<1>2. CASE Canceled(r) \/ BusError(r) \/ HookReturned(r)
  <2>1. /\ hook'[r] = "returned" /\ ~clientOpen'[r]
        /\ UNCHANGED <<accepted, applied, encoder>>
    BY <1>2 DEF Canceled, BusError, HookReturned, Exit
  <2>2. QED
    BY <1>1, <2>1, StreamUnchanged
<1>3. CASE ReadFails(r)
  <2>1. /\ hook'[r] = "returned" /\ ~clientOpen'[r]
        /\ UNCHANGED <<accepted, applied, encoder>>
    BY <1>3 DEF ReadFails
  <2>2. QED
    BY <1>1, <2>1, StreamUnchanged
<1>4. CASE ApplyBase(r) /\ q = r
  <2>1. /\ hook'[r] = "dial" /\ UNCHANGED <<accepted, clientOpen>> /\ hook[r] = "base"
        /\ encoder'[r] = Base /\ applied'[r] = Append(applied[r], Base)
    BY <1>4 DEF ApplyBase, Apply, socketVars
  <2>2. accepted[r] = <<>> /\ applied[r] = <<>> /\ ~clientOpen[r]
    BY <1>4, <2>1 DEF StreamInv, SocketsInv, SocketInv
  <2>3. applied'[r] = <<Base>> /\ Wanted(r)' = <<Base>> \o <<>>
    BY <2>1, <2>2 DEF Wanted
  <2>4. QED
    BY <1>4, <2>1, <2>2, <2>3, BasePrefixes DEF StreamInv
<1>5. CASE Dial(r) /\ q = r
  <2>1. /\ hook[r] = "dial" /\ UNCHANGED <<accepted, applied, encoder, down>>
        /\ hook'[r] \in {"reading", "returned"} /\ hook'[r] # hook[r]
    BY <1>5 DEF Dial
  <2>2. /\ accepted[r] = <<>> /\ applied[r] = <<Base>> /\ down[r] = <<>>
    BY <1>5, <2>1 DEF StreamInv, SocketsInv, SocketInv
  <2>3. Wanted(r) = applied[r] \o down[r]
    BY <2>2 DEF Wanted
  <2>4. QED
    BY <1>5, <2>1, <2>3 DEF StreamInv, Wanted
<1>6. CASE Read(r) /\ Head(down[r]) = Bad /\ q = r
  <2>1. /\ hook'[r] = "returned" /\ ~clientOpen'[r]
        /\ UNCHANGED <<accepted, applied, encoder>>
    BY <1>6 DEF Read
  <2>2. QED
    BY <1>6, <2>1, StreamUnchanged
<1>7. CASE Read(r) /\ Head(down[r]) # Bad /\ q = r
  <2> DEFINE e == Head(down[r])
  <2>1. /\ hook[r] = "reading" /\ down[r] # <<>>
        /\ down' = [down EXCEPT ![r] = Tail(down[r])]
        /\ Apply(r, e)
        /\ UNCHANGED <<hook, clientOpen, broken, accepted>>
    BY <1>7 DEF Read
  <2>2. /\ encoder'[r] = e /\ applied'[r] = Append(applied[r], e)
        /\ down'[r] = Tail(down[r]) /\ Wanted(r)' = Wanted(r)
        /\ e \in Posted /\ Tail(down[r]) \in Seq(Posted)
    <3>1. down[r] \in Seq(Posted) /\ down[r] # <<>>
      BY <2>1
    <3>2. e \in Posted /\ Tail(down[r]) \in Seq(Posted)
      BY <3>1, HeadTailProperties
    <3>3. QED
      BY <2>1, <3>2 DEF Apply, Wanted
  <2>3. Wanted(r) = applied[r] \o down[r]
    BY <1>7, <2>1 DEF StreamInv, SocketsInv, SocketInv
  <2>4. Wanted(r) = applied'[r] \o down'[r]
    <3>1. Append(applied[r], e) \o Tail(down[r]) = applied[r] \o down[r]
      BY <2>1, WantedType, MoveHead
    <3>2. QED
      BY <2>2, <2>3, <3>1
  <2>5. applied'[r] \in Seq(Posted) /\ applied'[r][Len(applied'[r])] = e
    BY <2>2, WantedType, AppendProperties
  <2>6. IsPrefixOf(applied'[r], Wanted(r))
    BY <2>2, <2>4, <2>5, PrefixOfConcat
  <2>7. QED
    BY <1>7, <2>1, <2>2, <2>4, <2>5, <2>6 DEF StreamInv
<1>8. QED
  BY <1>1, <1>2, <1>3, <1>4, <1>5, <1>6, <1>7 DEF PublisherStep

LEMMA StreamPost ==
    ASSUME TypeOK, SocketsInv, NEW bitrate \in Posted, Post(bitrate),
           NEW q \in Runs, StreamInv(q)
    PROVE  StreamInv(q)'
<1> USE DEF TypeOK
<1>1. UNCHANGED <<hook, encoder, applied, clientOpen, broken>>
  BY DEF Post, runVars
<1>2. CASE agent # q
  <2>1. accepted'[q] = accepted[q] /\ down'[q] = down[q]
    BY <1>2 DEF Post
  <2>2. QED
    BY <1>1, <2>1, StreamUnchanged
<1>3. CASE agent = q
  <2>1. hook[q] \notin {"off", "base", "dial"}
    BY <1>3 DEF SocketsInv, SocketInv, AgentInv
  <2>2. accepted'[q] = Append(accepted[q], bitrate)
    BY <1>3, ConstantFacts DEF Post
  <2>3. (clientOpen[q] /\ ~broken[q]) => down'[q] = Append(down[q], bitrate)
    BY <1>3, ConstantFacts DEF Post
  <2>4. Wanted(q)' = Append(Wanted(q), bitrate)
    <3>1. <<Base>> \in Seq(Posted)
      BY ConstantFacts
    <3>2. <<Base>> \o Append(accepted[q], bitrate) = Append(<<Base>> \o accepted[q], bitrate)
      BY <3>1, WantedType, ConcatAppend
    <3>3. QED
      BY <2>2, <3>2 DEF Wanted
  <2>5. IsPrefixOf(applied[q], Append(Wanted(q), bitrate))
    BY WantedType, PrefixGrows DEF StreamInv
  <2>6. applied[q] \o Append(down[q], bitrate) = Append(applied[q] \o down[q], bitrate)
    BY WantedType, ConcatAppend
  <2>7. QED
    BY <1>1, <2>1, <2>3, <2>4, <2>5, <2>6 DEF StreamInv
<1>4. QED
  BY <1>2, <1>3

LEMMA StreamOther ==
    ASSUME TypeOK, SocketsInv,
           \/ SourceGoes \/ SourceComes \/ SiteRestarts
           \/ \E r \in Runs : Start(r) \/ SiteStep(r) \/ Break(r),
           NEW q \in Runs, StreamInv(q)
    PROVE  StreamInv(q)'
<1> USE DEF TypeOK
<1>1. CASE SourceGoes \/ SourceComes
  BY <1>1, StreamUnchanged DEF SourceGoes, SourceComes, runVars, socketVars
<1>2. CASE SiteRestarts
  <2>1. /\ UNCHANGED <<accepted, applied, encoder, hook, clientOpen>>
        /\ ~broken'[q] => ~broken[q] /\ ~serverOpen[q]
        /\ down'[q] = <<>>
    BY <1>2 DEF SiteRestarts, runVars
  <2>2. ~serverOpen[q] => down[q] = <<>>
    BY DEF SocketsInv, SocketInv
  <2>3. QED
    BY <2>1, <2>2, StreamUnchanged
<1>3. ASSUME NEW r \in Runs, Start(r), q # r
      PROVE  StreamInv(q)'
  BY <1>3, StreamUnchanged DEF Start
<1>4. CASE Start(q)
  <2>1. /\ hook'[q] = "base" /\ accepted'[q] = <<>> /\ applied'[q] = <<>>
        /\ ~clientOpen'[q]
    BY <1>4 DEF Start, SocketsInv, SocketInv
  <2>2. QED
    BY <2>1, BasePrefixes DEF StreamInv, Wanted
<1>5. ASSUME NEW r \in Runs, SiteStep(r)
      PROVE  StreamInv(q)'
  <2>1. UNCHANGED <<accepted, applied, encoder, hook, clientOpen, broken, down>>
    BY <1>5 DEF SiteStep, ReceiveHello, SeeClose, runVars
  <2>2. QED
    BY <2>1, StreamUnchanged
<1>6. ASSUME NEW r \in Runs, Break(r)
      PROVE  StreamInv(q)'
  <2>1. /\ UNCHANGED <<accepted, applied, encoder, hook, clientOpen>>
        /\ ~broken'[q] => ~broken[q] /\ down'[q] = down[q]
    BY <1>6 DEF Break, runVars
  <2>2. QED
    BY <2>1, StreamUnchanged
<1>7. QED
  BY <1>1, <1>2, <1>3, <1>4, <1>5, <1>6

StreamsInv == \A r \in Runs : StreamInv(r)

LEMMA StreamsInit == Init => StreamsInv
<1> SUFFICES ASSUME Init, NEW r \in Runs
             PROVE  StreamInv(r)
  BY DEF StreamsInv
<1>1. QED
  BY BasePrefixes DEF Init, StreamInv, Wanted

LEMMA StreamsInductive ==
    ASSUME TypeOK, SocketsInv, StreamsInv, [Next]_vars
    PROVE  StreamsInv'
<1> SUFFICES ASSUME NEW q \in Runs
             PROVE  StreamInv(q)'
  BY DEF StreamsInv
<1>1. StreamInv(q)
  BY DEF StreamsInv
<1>2. CASE UNCHANGED vars
  BY <1>1, <1>2, StreamUnchanged DEF vars, runVars, socketVars
<1>3. QED
  BY <1>1, <1>2, StreamPublisher, StreamPost, StreamOther DEF Next

\* The encoder of a run is set to the base bitrate and then to the posted ones,
\* each once and in the order they were accepted for this run, over any number
\* of runs, refusals, broken links and restarts of the site.
THEOREM BitratesInOrder == Spec => []AppliedInOrder
<1>1. StreamsInv => AppliedInOrder
  BY DEF StreamsInv, StreamInv, Wanted, AppliedInOrder
<1>2. TypeOK /\ SocketsInv /\ StreamsInv /\ [Next]_vars => SocketsInv' /\ StreamsInv'
  BY SocketsInductive, StreamsInductive
<1>3. QED
  BY <1>1, <1>2, SocketsInit, StreamsInit, TypeCorrect, PTL DEF Spec

-----------------------------------------------------------------------------
(* OrderedDelivery: a post that is answered with success is the abstract     *)
(* Accept for the run that serves the path, setting the encoder is Deliver,  *)
(* and a slot that is started again is Renew.                                *)

Hooked == {"off", "base", "dial", "reading"}

LEMMA NothingToDeliver ==
    ASSUME NEW q \in Runs, accepted'[q] = accepted[q], applied'[q] = applied[q],
           hook'[q] = hook[q] \/ hook'[q] = "returned" \/ {hook[q], hook'[q]} \subseteq Hooked
    PROVE  [Delivery(q)!RenewedNext]_(Delivery(q)!vars)
<1>1. CASE (hook'[q] # "returned") = (hook[q] # "returned")
  BY <1>1 DEF Delivery!vars
<1>2. CASE hook[q] # "returned" /\ hook'[q] = "returned"
  BY <1>2 DEF Delivery!RenewedNext, Delivery!LossyNext, Delivery!End
<1>3. QED
  BY <1>1, <1>2 DEF Hooked

\* Setting the encoder to the next bitrate that was wanted.
LEMMA ApplyDelivers ==
    ASSUME TypeOK, NEW q \in Runs, NEW bitrate \in Posted, Apply(q, bitrate),
           UNCHANGED accepted, hook[q] # "returned", hook'[q] # "returned", StreamInv(q)'
    PROVE  [Delivery(q)!RenewedNext]_(Delivery(q)!vars)
<1>1. /\ applied[q] \in Seq(Posted) /\ Wanted(q) \in Seq(Posted)
      /\ applied'[q] = Append(applied[q], bitrate)
  BY WantedType DEF Apply, TypeOK
<1>2. /\ Len(applied[q]) \in Nat /\ Len(Wanted(q)) \in Nat
      /\ Len(applied'[q]) = Len(applied[q]) + 1
  BY <1>1, LenProperties, AppendProperties
<1>3. Wanted(q)' = Wanted(q)
  BY DEF Wanted
<1>4. Len(applied'[q]) <= Len(Wanted(q)) /\ applied'[q] = SubSeq(Wanted(q), 1, Len(applied'[q]))
  BY <1>3 DEF StreamInv, IsPrefixOf
<1>5. Len(applied'[q]) \in (Len(applied[q]) + 1)..Len(Wanted(q))
  BY <1>2, <1>4
<1>6. Delivery(q)!Deliver
  BY <1>4, <1>5 DEF Wanted, Delivery!Deliver
<1>7. QED
  BY <1>6 DEF Delivery!RenewedNext, Delivery!LossyNext

LEMMA PostAccepts ==
    ASSUME TypeOK, NEW bitrate \in Posted, Post(bitrate), NEW q \in Runs
    PROVE  [Delivery(q)!RenewedNext]_(Delivery(q)!vars)
<1>1. UNCHANGED <<hook, applied>>
  BY DEF Post, runVars
<1>2. CASE agent = q
  <2>1. accepted'[q] = Append(accepted[q], bitrate)
    BY <1>2, ConstantFacts DEF Post, TypeOK
  <2>2. <<Base>> \o Append(accepted[q], bitrate) = Append(<<Base>> \o accepted[q], bitrate)
    <3>1. <<Base>> \in Seq(Posted)
      BY ConstantFacts
    <3>2. QED
      BY <3>1, WantedType, ConcatAppend
  <2>3. Delivery(q)!Accept
    BY <1>1, <2>1, <2>2 DEF Delivery!Accept
  <2>4. QED
    BY <2>3 DEF Delivery!RenewedNext, Delivery!LossyNext
<1>3. CASE agent # q
  BY <1>1, <1>3, NothingToDeliver DEF Post, TypeOK
<1>4. QED
  BY <1>2, <1>3

LEMMA StartRenews ==
    ASSUME TypeOK, SocketsInv, NEW q \in Runs, StreamInv(q), Start(q)
    PROVE  [Delivery(q)!RenewedNext]_(Delivery(q)!vars)
<1>1. /\ hook'[q] = "base" /\ accepted'[q] = <<>> /\ applied'[q] = <<>>
      /\ hook[q] \in {"off", "returned"}
  BY DEF Start, TypeOK, SocketsInv, SocketInv
<1>2. CASE hook[q] = "off"
  BY <1>1, <1>2, NothingToDeliver DEF StreamInv, Hooked
<1>3. CASE hook[q] = "returned"
  <2>1. <<Base>> \o accepted'[q] = <<Base>>
    BY <1>1, BasePrefixes
  <2>2. Delivery(q)!Renew
    BY <1>1, <1>3, <2>1 DEF Delivery!Renew
  <2>3. QED
    BY <2>2 DEF Delivery!RenewedNext
<1>4. QED
  BY <1>1, <1>2, <1>3

LEMMA PublisherDelivers ==
    ASSUME TypeOK, SocketsInv, NEW r \in Runs, PublisherStep(r),
           NEW q \in Runs, StreamInv(q), StreamInv(q)'
    PROVE  [Delivery(q)!RenewedNext]_(Delivery(q)!vars)
<1> USE DEF TypeOK
<1>1. CASE q # r
  <2>1. accepted'[q] = accepted[q] /\ applied'[q] = applied[q] /\ hook'[q] = hook[q]
    BY <1>1 DEF PublisherStep, Canceled, BusError, HookReturned, Exit, ApplyBase, Apply, Dial,
       Read, ReadFails
  <2>2. QED
    BY <2>1, NothingToDeliver
<1>2. CASE Canceled(r) \/ BusError(r) \/ HookReturned(r) \/ ReadFails(r)
  <2>1. hook'[r] = "returned" /\ UNCHANGED <<accepted, applied>>
    BY <1>2 DEF Canceled, BusError, HookReturned, ReadFails, Exit
  <2>2. QED
    BY <1>1, <2>1, NothingToDeliver
<1>3. CASE ApplyBase(r) /\ q = r
  <2>1. /\ Apply(q, Base) /\ Base \in Posted /\ UNCHANGED accepted
        /\ hook[q] = "base" /\ hook'[q] = "dial"
    BY <1>3, ConstantFacts DEF ApplyBase
  <2>2. QED
    BY <2>1, ApplyDelivers
<1>4. CASE Dial(r) /\ q = r
  <2>1. UNCHANGED <<accepted, applied>> /\ hook[q] = "dial" /\ hook'[q] \in {"reading", "returned"}
    BY <1>4 DEF Dial
  <2>2. QED
    BY <2>1, NothingToDeliver DEF Hooked
<1>5. CASE Read(r) /\ Head(down[r]) # Bad /\ q = r
  <2>1. down[q] \in Seq(Posted) /\ down[q] # <<>>
    BY <1>5 DEF Read
  <2>2. Head(down[q]) \in Posted
    BY <2>1, HeadTailProperties
  <2>3. /\ Apply(q, Head(down[q])) /\ UNCHANGED <<accepted, hook>> /\ hook[q] = "reading"
    BY <1>5 DEF Read
  <2>4. QED
    BY <2>2, <2>3, ApplyDelivers
<1>6. CASE Read(r) /\ Head(down[r]) = Bad /\ q = r
  <2>1. hook'[q] = "returned" /\ UNCHANGED <<accepted, applied>>
    BY <1>6 DEF Read
  <2>2. QED
    BY <2>1, NothingToDeliver
<1>7. QED
  BY <1>1, <1>2, <1>3, <1>4, <1>5, <1>6 DEF PublisherStep

LEMMA RunStepDelivers ==
    ASSUME TypeOK, SocketsInv, StreamsInv, StreamsInv', [Next]_vars, NEW q \in Runs
    PROVE  [Delivery(q)!RenewedNext]_(Delivery(q)!vars)
<1>1. StreamInv(q) /\ StreamInv(q)'
  BY DEF StreamsInv
<1>2. ASSUME UNCHANGED <<accepted, applied, hook>>
      PROVE  [Delivery(q)!RenewedNext]_(Delivery(q)!vars)
  BY <1>2, NothingToDeliver
<1>3. CASE SourceGoes \/ SourceComes \/ SiteRestarts \/ UNCHANGED vars
  BY <1>2, <1>3 DEF SourceGoes, SourceComes, SiteRestarts, runVars, vars
<1>4. ASSUME NEW r \in Runs, SiteStep(r) \/ Break(r)
      PROVE  [Delivery(q)!RenewedNext]_(Delivery(q)!vars)
  BY <1>2, <1>4 DEF SiteStep, ReceiveHello, SeeClose, Break, runVars
<1>5. ASSUME NEW r \in Runs, Start(r)
      PROVE  [Delivery(q)!RenewedNext]_(Delivery(q)!vars)
  <2>1. CASE r = q
    BY <1>1, <1>5, <2>1, StartRenews
  <2>2. CASE r # q
    BY <1>5, <2>2, NothingToDeliver DEF Start, TypeOK
  <2>3. QED
    BY <2>1, <2>2
<1>6. QED
  BY <1>1, <1>3, <1>4, <1>5, PublisherDelivers, PostAccepts DEF Next

\* Every run implements OrderedDelivery: while its hook has not returned, the
\* encoder is set to what was accepted for this run, in order and once each.
THEOREM RunDelivers ==
    ASSUME NEW q \in Runs
    PROVE  Spec => Delivery(q)!Init /\ [][Delivery(q)!RenewedNext]_(Delivery(q)!vars)
<1>1. Init => Delivery(q)!Init
  BY BasePrefixes DEF Init, Delivery!Init
<1>2. TypeOK /\ SocketsInv /\ StreamsInv /\ StreamsInv' /\ [Next]_vars
        => [Delivery(q)!RenewedNext]_(Delivery(q)!vars)
  BY RunStepDelivers
<1>3. TypeOK /\ SocketsInv /\ StreamsInv /\ [Next]_vars => SocketsInv' /\ StreamsInv'
  BY SocketsInductive, StreamsInductive
<1>4. QED
  BY <1>1, <1>2, <1>3, SocketsInit, StreamsInit, TypeCorrect, PTL DEF Spec
=============================================================================
