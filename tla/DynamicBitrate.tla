---------------------------- MODULE DynamicBitrate ----------------------------
(***************************************************************************)
(* Dynamic bitrate of one path: the site's dynamic module                  *)
(* (apps/site/api/src/server/routes/index.ts), which forwards each posted  *)
(* bitrate to the one publisher it knows, and that publisher, `cstream     *)
(* publish --dynamic` (internal/cli/dynamic.go, internal/pipeline), which  *)
(* mediamtx starts while the path has a source and starts again when it    *)
(* exits (runOnReadyRestart).                                              *)
(*                                                                         *)
(* Each start of the process is a run with a socket of its own.  The slots *)
(* of runs that are over on both sides are used again.                     *)
(***************************************************************************)
EXTENDS Naturals, Sequences

CONSTANTS
    Runs,      \* slots for runs of the publisher
    Base,      \* --base-bitrate
    Bitrates,  \* other bitrates that are posted
    Bad,       \* posted JSON that is no unsigned integer
    MaxPosts,  \* bound: bitrates posted
    MaxFaults, \* bound: sources that go, broken links, restarts and other errors
    None       \* no publisher, no bitrate yet

ASSUME DynamicAssumption ==
    /\ MaxPosts \in Nat /\ MaxFaults \in Nat
    /\ Bad \notin Bitrates \cup {Base} /\ None \notin Runs \cup Bitrates \cup {Base, Bad}

Posted == Bitrates \cup {Base, Bad}

VARIABLES
    source,     \* mediamtx: the path is ready
    run,        \* run[r], the process: "off", "playing", "exited"
    hook,       \* hook[r], where runDynamicBitrate is
    encoder,    \* encoder[r], the bitrate the encoder was set to, or None
    clientOpen, \* clientOpen[r], the publisher's end of its socket is open
    serverOpen, \* serverOpen[r], the site's end of it is open
    broken,     \* broken[r], nothing gets through the socket any more
    hello,      \* hello[r], the init message is on its way to the site
    down,       \* down[r], the bitrates on their way to the publisher
    agent,      \* the site: the run whose socket serves the path, or None
    posts, faults,
    accepted,   \* history: accepted[r], the posts the site answered with success
    applied     \* history: applied[r], the bitrates set in the encoder of r

socketVars == <<clientOpen, serverOpen, broken, hello, down>>
runVars == <<run, hook, encoder>>
vars == <<source, runVars, socketVars, agent, posts, faults, accepted, applied>>

TypeOK ==
    /\ source \in BOOLEAN
    /\ run \in [Runs -> {"off", "playing", "exited"}]
    /\ hook \in [Runs -> {"off", "base", "dial", "reading", "returned"}]
    /\ encoder \in [Runs -> Bitrates \cup {Base, None}]
    /\ clientOpen \in [Runs -> BOOLEAN] /\ serverOpen \in [Runs -> BOOLEAN]
    /\ broken \in [Runs -> BOOLEAN] /\ hello \in [Runs -> BOOLEAN]
    /\ down \in [Runs -> Seq(Posted)]
    /\ agent \in Runs \cup {None}
    /\ posts \in 0..MaxPosts /\ faults \in 0..MaxFaults
    /\ accepted \in [Runs -> Seq(Posted)] /\ applied \in [Runs -> Seq(Posted)]

Init ==
    /\ source \in BOOLEAN
    /\ run = [r \in Runs |-> "off"] /\ hook = [r \in Runs |-> "off"]
    /\ encoder = [r \in Runs |-> None]
    /\ clientOpen = [r \in Runs |-> FALSE] /\ serverOpen = [r \in Runs |-> FALSE]
    /\ broken = [r \in Runs |-> FALSE] /\ hello = [r \in Runs |-> FALSE]
    /\ down = [r \in Runs |-> <<>>]
    /\ agent = None
    /\ posts = 0 /\ faults = 0
    /\ accepted = [r \in Runs |-> <<>>] /\ applied = [r \in Runs |-> <<>>]

Fault == faults < MaxFaults /\ faults' = faults + 1

-----------------------------------------------------------------------------
(* mediamtx *)

SourceGoes ==
    /\ Fault
    /\ source /\ source' = FALSE
    /\ UNCHANGED <<runVars, socketVars, agent, posts, accepted, applied>>

SourceComes ==
    /\ ~source /\ source' = TRUE
    /\ UNCHANGED <<runVars, socketVars, agent, posts, faults, accepted, applied>>

\* One publisher at a time; the site may still hold the socket of the last one.
Start(r) ==
    /\ source
    /\ \A q \in Runs : run[q] # "playing"
    /\ ~serverOpen[r]
    /\ run' = [run EXCEPT ![r] = "playing"]
    /\ hook' = [hook EXCEPT ![r] = "base"]
    /\ encoder' = [encoder EXCEPT ![r] = None]
    /\ broken' = [broken EXCEPT ![r] = FALSE]
    /\ accepted' = [accepted EXCEPT ![r] = <<>>]
    /\ applied' = [applied EXCEPT ![r] = <<>>]
    /\ UNCHANGED <<source, clientOpen, serverOpen, hello, down, agent, posts, faults>>

\* The process is over, and with it its end of the socket.
Exit(r) ==
    /\ run' = [run EXCEPT ![r] = "exited"]
    /\ hook' = [hook EXCEPT ![r] = "returned"]
    /\ clientOpen' = [clientOpen EXCEPT ![r] = FALSE]
    /\ down' = [down EXCEPT ![r] = <<>>]

-----------------------------------------------------------------------------
(* The publisher: Pipeline.Run waits for its context, the hook and the bus *)

Canceled(r) ==
    /\ run[r] = "playing" /\ ~source
    /\ Exit(r)
    /\ UNCHANGED <<source, encoder, serverOpen, broken, hello, agent, posts, faults, accepted, applied>>

BusError(r) ==
    /\ Fault
    /\ run[r] = "playing"
    /\ Exit(r)
    /\ UNCHANGED <<source, encoder, serverOpen, broken, hello, agent, posts, accepted, applied>>

HookReturned(r) ==
    /\ run[r] = "playing" /\ hook[r] = "returned"
    /\ Exit(r)
    /\ UNCHANGED <<source, encoder, serverOpen, broken, hello, agent, posts, faults, accepted, applied>>

Apply(r, bitrate) ==
    /\ encoder' = [encoder EXCEPT ![r] = bitrate]
    /\ applied' = [applied EXCEPT ![r] = Append(@, bitrate)]

\* The hook starts with the base bitrate.
ApplyBase(r) ==
    /\ hook[r] = "base"
    /\ Apply(r, Base)
    /\ hook' = [hook EXCEPT ![r] = "dial"]
    /\ UNCHANGED <<source, run, socketVars, agent, posts, faults, accepted>>

\* Dial and the init message.
Dial(r) ==
    /\ hook[r] = "dial"
    /\ \/ /\ hook' = [hook EXCEPT ![r] = "reading"]
          /\ clientOpen' = [clientOpen EXCEPT ![r] = TRUE]
          /\ serverOpen' = [serverOpen EXCEPT ![r] = TRUE]
          /\ hello' = [hello EXCEPT ![r] = TRUE]
          /\ UNCHANGED faults
       \/ /\ Fault
          /\ hook' = [hook EXCEPT ![r] = "returned"]
          /\ UNCHANGED <<clientOpen, serverOpen, hello>>
    /\ UNCHANGED <<source, run, encoder, broken, down, agent, posts, accepted, applied>>

\* Mutant: a message that cannot be decoded leaves the encoder alone.
SkipBad(r) ==
    LET bitrate == Head(down[r])
    IN  /\ hook[r] = "reading" /\ down[r] # <<>>
        /\ down' = [down EXCEPT ![r] = Tail(@)]
        /\ IF bitrate = Bad THEN UNCHANGED <<encoder, applied>> ELSE Apply(r, bitrate)
        /\ UNCHANGED <<source, run, hook, clientOpen, serverOpen, broken, hello, agent,
                       posts, faults, accepted>>

\* Mutant: a message that cannot be decoded is tried again.
RetryBad(r) ==
    LET bitrate == Head(down[r])
    IN  /\ hook[r] = "reading" /\ down[r] # <<>> /\ bitrate # Bad
        /\ down' = [down EXCEPT ![r] = Tail(@)]
        /\ Apply(r, bitrate)
        /\ UNCHANGED <<source, run, hook, clientOpen, serverOpen, broken, hello, agent,
                       posts, faults, accepted>>

\* A message that cannot be decoded ends the hook, and with it the run.
Read(r) ==
    LET bitrate == Head(down[r])
    IN  /\ hook[r] = "reading" /\ down[r] # <<>>
        /\ \/ /\ bitrate # Bad
              /\ down' = [down EXCEPT ![r] = Tail(@)]
              /\ Apply(r, bitrate)
              /\ UNCHANGED <<hook, clientOpen>>
           \/ /\ bitrate = Bad
              /\ down' = [down EXCEPT ![r] = <<>>]
              /\ hook' = [hook EXCEPT ![r] = "returned"]
              /\ clientOpen' = [clientOpen EXCEPT ![r] = FALSE]
              /\ UNCHANGED <<encoder, applied>>
        /\ UNCHANGED <<source, run, serverOpen, broken, hello, agent, posts, faults, accepted>>

\* The site closed the socket (1008 when it has a publisher), or it is broken.
ReadFails(r) ==
    /\ hook[r] = "reading" /\ down[r] = <<>>
    /\ ~serverOpen[r] \/ broken[r]
    /\ hook' = [hook EXCEPT ![r] = "returned"]
    /\ clientOpen' = [clientOpen EXCEPT ![r] = FALSE]
    /\ UNCHANGED <<source, run, encoder, serverOpen, broken, hello, down, agent, posts,
                   faults, accepted, applied>>

-----------------------------------------------------------------------------
(* The site *)

\* onMessage: the socket serves the path, unless another one does.
ReceiveHello(r) ==
    /\ serverOpen[r] /\ hello[r]
    /\ hello' = [hello EXCEPT ![r] = FALSE]
    /\ \/ agent \in {None, r} /\ agent' = r /\ UNCHANGED serverOpen
       \/ /\ agent \notin {None, r}
          /\ serverOpen' = [serverOpen EXCEPT ![r] = FALSE]
          /\ UNCHANGED agent
    /\ UNCHANGED <<source, runVars, clientOpen, broken, down, posts, faults, accepted, applied>>

\* Mutant: whichever socket closes, the path is no longer served.
AnyCloseClears(r) ==
    /\ serverOpen[r] /\ (broken[r] \/ (~clientOpen[r] /\ ~hello[r]))
    /\ serverOpen' = [serverOpen EXCEPT ![r] = FALSE]
    /\ hello' = [hello EXCEPT ![r] = FALSE]
    /\ agent' = None
    /\ UNCHANGED <<source, runVars, clientOpen, broken, down, posts, faults, accepted, applied>>

\* onClose, which may come long after the publisher closed its end.
SeeClose(r) ==
    /\ serverOpen[r] /\ (broken[r] \/ (~clientOpen[r] /\ ~hello[r]))
    /\ serverOpen' = [serverOpen EXCEPT ![r] = FALSE]
    /\ hello' = [hello EXCEPT ![r] = FALSE]
    /\ agent' = IF agent = r THEN None ELSE agent
    /\ UNCHANGED <<source, runVars, clientOpen, broken, down, posts, faults, accepted, applied>>

\* POST /bitrate/:path is answered with success once the message is handed to
\* the socket, which may lead nowhere; without a publisher it fails.
Post(bitrate) ==
    /\ posts < MaxPosts /\ posts' = posts + 1
    /\ \/ agent = None /\ UNCHANGED <<down, accepted>>
       \/ /\ agent # None
          /\ accepted' = [accepted EXCEPT ![agent] = Append(@, bitrate)]
          /\ down' = IF clientOpen[agent] /\ ~broken[agent]
                     THEN [down EXCEPT ![agent] = Append(@, bitrate)] ELSE down
    /\ UNCHANGED <<source, runVars, clientOpen, serverOpen, broken, hello, agent, faults, applied>>

-----------------------------------------------------------------------------
(* Failures *)

Break(r) ==
    /\ Fault
    /\ clientOpen[r] /\ serverOpen[r] /\ ~broken[r]
    /\ broken' = [broken EXCEPT ![r] = TRUE]
    /\ hello' = [hello EXCEPT ![r] = FALSE]
    /\ down' = [down EXCEPT ![r] = <<>>]
    /\ UNCHANGED <<source, runVars, clientOpen, serverOpen, agent, posts, accepted, applied>>

\* The site's durable object is started again: its map and sockets are gone.
SiteRestarts ==
    /\ Fault
    /\ agent' = None
    /\ broken' = [r \in Runs |-> broken[r] \/ serverOpen[r]]
    /\ serverOpen' = [r \in Runs |-> FALSE] /\ hello' = [r \in Runs |-> FALSE]
    /\ down' = [r \in Runs |-> <<>>]
    /\ UNCHANGED <<source, runVars, clientOpen, posts, accepted, applied>>

-----------------------------------------------------------------------------
PublisherStep(r) ==
    \/ Canceled(r) \/ BusError(r) \/ HookReturned(r)
    \/ ApplyBase(r) \/ Dial(r) \/ Read(r) \/ ReadFails(r)

SiteStep(r) == ReceiveHello(r) \/ SeeClose(r)

Next ==
    \/ SourceGoes \/ SourceComes \/ SiteRestarts
    \/ \E r \in Runs : Start(r) \/ PublisherStep(r) \/ SiteStep(r) \/ Break(r)
    \/ \E bitrate \in Posted : Post(bitrate)

\* A source that went comes back, mediamtx starts what exited, processes and
\* sockets go on.  Nobody has to post a bitrate and nothing has to fail.
Fairness ==
    /\ WF_vars(SourceComes)
    /\ WF_vars(\E r \in Runs : Start(r))
    /\ \A r \in Runs : WF_vars(PublisherStep(r)) /\ WF_vars(SiteStep(r))

Spec == Init /\ [][Next]_vars /\ Fairness

-----------------------------------------------------------------------------
(* Properties *)

IsPrefixOf(s, t) == Len(s) <= Len(t) /\ s = SubSeq(t, 1, Len(s))

\* The encoder of a run gets the base bitrate and then, in the order the posts
\* were accepted for this run and no other, the posted ones; while its socket
\* is whole, each of them was applied or is on its way.
AppliedInOrder ==
    \A r \in Runs :
        LET wanted == <<Base>> \o accepted[r]
        IN  /\ IsPrefixOf(applied[r], wanted)
            /\ applied[r] # <<>> => encoder[r] = applied[r][Len(applied[r])]
            /\ (clientOpen[r] /\ ~broken[r]) => wanted = applied[r] \o down[r]

\* The path is served by a socket that is open at the site, so that a run is
\* never refused because of one that the site knows to be gone.
AgentIsOpen == agent # None => serverOpen[agent]

\* Once posts, faults and source changes stop, a publisher plays and serves
\* the path for good, although a run may be refused as long as the site has
\* not noticed the end of the run before it.
DynamicRestored ==
    <>[](\E r \in Runs : run[r] = "playing" /\ agent = r /\ clientOpen[r] /\ ~broken[r])

\* A post that was answered with success is set in the encoder of the run it
\* was for, or that run ends: the answer only says that a socket took it.
AcceptedIsApplied ==
    \A r \in Runs, n \in 1..MaxPosts :
        (run[r] = "playing" /\ Len(accepted[r]) >= n)
            ~> (run[r] # "playing" \/ Len(applied[r]) > n)

-----------------------------------------------------------------------------
\* The promise of a run about its bitrates: the base and then the posts for it are
\* set in this order until its hook returns.  The site does not know when that is
\* and goes on accepting; a slot is used again by a later run.
Delivery(r) == INSTANCE OrderedDelivery
    WITH Message <- Posted, First <- <<Base>>, accepted <- <<Base>> \o accepted[r],
         delivered <- applied[r], open <- (hook[r] # "returned")
=============================================================================
