---------------------- MODULE ShoutcastSourceAdapter ----------------------
(***************************************************************************)
(* The gateway's Shoutcast source adapter (adapter/shoutcast-source-       *)
(* adapter.ts): one station, SOURCE requests pushed by encoders, a session *)
(* that survives reconnects, and the two streams the adapter hands to the  *)
(* gateway: session lifecycle events and normalized audio frames.          *)
(*                                                                         *)
(* Node runs one callback at a time, so a callback is one action.  The one *)
(* `await` of the adapter cuts fnHandleSourceRequest in two: everything up *)
(* to the credential lookup, and everything after its answer.  Whether     *)
(* other callbacks can run in between depends on the resolver that was     *)
(* injected: the stub of main.ts settles in a microtask, so nothing can;   *)
(* a resolver that does I/O yields to the event loop.  ResolverYields      *)
(* chooses.                                                                *)
(***************************************************************************)
EXTENDS Integers, Sequences, FiniteSets

CONSTANTS
    Requests,        \* the SOURCE requests that may arrive, each one once
    NoRequest,       \* oActiveRequest = null
    FrameDurations,  \* the durations fnEstimateFrameDurationMs may return
    MaxFrames,       \* bound: frames emitted in a behaviour
    ResolverYields   \* TRUE: other callbacks may run during the lookup

ASSUME NoRequestAssumption == NoRequest \notin Requests
ASSUME DurationsAssumption == FrameDurations \subseteq Nat
ASSUME MaxFramesAssumption == MaxFrames \in Nat
ASSUME YieldsAssumption == ResolverYields \in BOOLEAN

VARIABLES
    configured, \* oConfig # null
    ready,      \* bReady
    session,    \* sSessionId and sStartedAt, 0 for null
    offset,     \* nOffsetMs
    seqNo,      \* nSequenceNo
    reconnects, \* nReconnectCount
    active,     \* oActiveRequest
    endedFlag,  \* bSessionEndedForCurrentConnection
    handler,    \* per request: how far fnHandleSourceRequest got
    wire,       \* per request: what the request stream will still deliver
    minted,     \* how many session ids randomUUID has returned
    events,     \* the session lifecycle events emitted, in order
    frames,     \* the frames emitted, in order
    errors      \* how many times fnErrorHandler was called

lifecycle == <<session, offset, seqNo, reconnects, minted>>
vars == <<configured, ready, lifecycle, active, endedFlag, handler, wire,
          events, frames, errors>>

\* The answers of lines 190, 199, 213, 231 and 288, and the two states before.
HandlerStates == {"absent", "resolving", "unavailable", "busy",
                  "unauthorized", "failed", "accepted"}

\* "open": bytes may come.  "ended"/"broken": the encoder is gone and 'end' or
\* 'error' is due.  "destroyed": fnDisconnect destroyed the stream, which may
\* still report an error.  "silent": nothing will be delivered any more.
WireStates == {"open", "ended", "broken", "destroyed", "silent"}

\* `count` is the event's nReconnectCount; session.ended has no such field, and
\* carries the adapter's counter here for the properties to look at.
Event == [type: {"created", "reconnected", "ended"}, session: Nat,
          count: Nat, reason: {"none", "clean_disconnect", "error"}]

\* `after` is the number of events emitted before the frame: the order of the
\* two streams.  `source` stands for the codec, rate and channels, which are
\* those of the request the bytes came from.
Frame == [session: Nat, seqNo: Nat, offset: Nat, duration: Nat,
          source: Requests, after: Nat]

\* Every variable keeps the shape the code gives it: among others, an event
\* has a type, a count and a reason of the contract's lists.
TypeOK ==
    /\ configured \in BOOLEAN
    /\ ready \in BOOLEAN
    /\ session \in Nat
    /\ offset \in Nat
    /\ seqNo \in Nat
    /\ reconnects \in Nat
    /\ active \in Requests \cup {NoRequest}
    /\ endedFlag \in BOOLEAN
    /\ handler \in [Requests -> HandlerStates]
    /\ wire \in [Requests -> WireStates]
    /\ minted \in Nat
    /\ events \in Seq(Event)
    /\ frames \in Seq(Frame)
    /\ errors \in Nat

Init ==
    /\ configured = FALSE
    /\ ready = FALSE
    /\ session = 0
    /\ offset = 0
    /\ seqNo = 0
    /\ reconnects = 0
    /\ active = NoRequest
    /\ endedFlag = FALSE
    /\ handler = [r \in Requests |-> "absent"]
    /\ wire = [r \in Requests |-> "open"]
    /\ minted = 0
    /\ events = <<>>
    /\ frames = <<>>
    /\ errors = 0

\* With a resolver that does not yield, the continuation of the handler runs
\* before any other callback.
LoopFree == ResolverYields \/ \A r \in Requests : handler[r] # "resolving"

-----------------------------------------------------------------------------
\* A plausible bug: the guard of line 369 is dropped.
EndDue_NoFlag == session # 0 /\ configured

\* fnEmitSessionEnded: once per connection leg, never without a session.
EndDue == ~endedFlag /\ session # 0 /\ configured

\* A plausible bug: the event carries the status the session record will get.
EndedEvent_Status(reason) ==
    [type |-> "ended", session |-> session, count |-> reconnects,
     reason |-> IF reason = "error" THEN "failed" ELSE "ended"]

EndedEvent(reason) == [type |-> "ended", session |-> session,
                       count |-> reconnects, reason |-> reason]

\* fnConnect.  Neither the session nor the active request is touched.
Connect ==
    /\ LoopFree
    /\ configured' = TRUE
    /\ ready' = TRUE
    /\ UNCHANGED <<lifecycle, active, endedFlag, handler, wire, events,
                   frames, errors>>

\* fnResetSessionLifecycleState.
Reset ==
    /\ session' = 0
    /\ offset' = 0
    /\ seqNo' = 0
    /\ reconnects' = 0
    /\ endedFlag' = FALSE

\* fnDisconnect: end the leg once, destroy the active stream, forget the
\* session.  oConfig stays.
Disconnect ==
    /\ LoopFree
    /\ ready' = FALSE
    /\ events' = IF EndDue THEN Append(events, EndedEvent("clean_disconnect"))
                           ELSE events
    /\ active' = NoRequest
    /\ wire' = [r \in Requests |->
                   IF r = active /\ wire[r] # "silent" THEN "destroyed"
                                                       ELSE wire[r]]
    /\ Reset
    /\ UNCHANGED <<configured, minted, handler, frames, errors>>

-----------------------------------------------------------------------------
\* fnHandleSourceRequest before its await.  An answered request changes
\* nothing but its own answer.
Answer(r, answer) ==
    /\ handler' = [handler EXCEPT ![r] = answer]
    /\ UNCHANGED <<configured, ready, lifecycle, active, endedFlag, wire,
                   events, frames>>

Arrives(r) == LoopFree /\ handler[r] = "absent"

AnswerUnavailable(r) ==
    /\ Arrives(r)
    /\ ~configured \/ ~ready
    /\ Answer(r, "unavailable")
    /\ UNCHANGED errors

\* A plausible bug: the check of line 198 is dropped.
SlotTaken_Never == FALSE

SlotTaken == active # NoRequest

AnswerBusy(r) ==
    /\ Arrives(r)
    /\ configured /\ ready
    /\ SlotTaken
    /\ Answer(r, "busy")
    /\ UNCHANGED errors

\* No password, or one that cannot be parsed: 401 without a lookup.
AnswerNoPassword(r) ==
    /\ Arrives(r)
    /\ configured /\ ready
    /\ ~SlotTaken
    /\ Answer(r, "unauthorized")
    /\ UNCHANGED errors

\* A plausible bug: only the config is checked, as if it went with fnDisconnect.
StartLookup_ConfigOnly(r) ==
    /\ Arrives(r)
    /\ configured
    /\ ~SlotTaken
    /\ Answer(r, "resolving")
    /\ UNCHANGED errors

StartLookup(r) ==
    /\ Arrives(r)
    /\ configured /\ ready
    /\ ~SlotTaken
    /\ Answer(r, "resolving")
    /\ UNCHANGED errors

-----------------------------------------------------------------------------
\* fnHandleSourceRequest after its await.  Nothing is checked again here:
\* neither bReady nor oActiveRequest.
LookupFails(r) ==
    /\ handler[r] = "resolving"
    /\ errors' = errors + 1
    /\ Answer(r, "failed")

WrongPassword(r) ==
    /\ handler[r] = "resolving"
    /\ Answer(r, "unauthorized")
    /\ UNCHANGED errors

CreatedEvent(s) == [type |-> "created", session |-> s, count |-> 0,
                    reason |-> "none"]

ReconnectedEvent == [type |-> "reconnected", session |-> session,
                     count |-> reconnects + 1, reason |-> "none"]

\* A plausible bug: each reconnect is a session of its own.
StartSession_AlwaysNew ==
    /\ minted' = minted + 1
    /\ session' = minted'
    /\ events' = Append(events, CreatedEvent(session'))
    /\ UNCHANGED <<offset, seqNo, reconnects>>

\* A plausible bug: the reconnect rewinds the session clock.
StartSession_ResetsClock ==
    IF session = 0
    THEN /\ minted' = minted + 1
         /\ session' = minted'
         /\ events' = Append(events, CreatedEvent(session'))
         /\ UNCHANGED <<offset, seqNo, reconnects>>
    ELSE /\ reconnects' = reconnects + 1
         /\ events' = Append(events, ReconnectedEvent)
         /\ offset' = 0
         /\ UNCHANGED <<session, seqNo, minted>>

\* A plausible bug: the event carries the count from before the reconnect.
StartSession_StaleCount ==
    IF session = 0
    THEN /\ minted' = minted + 1
         /\ session' = minted'
         /\ events' = Append(events, CreatedEvent(session'))
         /\ UNCHANGED <<offset, seqNo, reconnects>>
    ELSE /\ reconnects' = reconnects + 1
         /\ events' = Append(events, [ReconnectedEvent EXCEPT !.count = reconnects])
         /\ UNCHANGED <<session, offset, seqNo, minted>>

\* Step 3: a first connection creates the session, a later one revives it.
StartSession ==
    IF session = 0
    THEN /\ minted' = minted + 1
         /\ session' = minted'
         /\ events' = Append(events, CreatedEvent(session'))
         /\ UNCHANGED <<offset, seqNo, reconnects>>
    ELSE /\ reconnects' = reconnects + 1
         /\ events' = Append(events, ReconnectedEvent)
         /\ UNCHANGED <<session, offset, seqNo, minted>>

\* Steps 3 to 6: 200, and the listeners that stream the request are attached.
Accept(r) ==
    /\ handler[r] = "resolving"
    /\ StartSession
    /\ handler' = [handler EXCEPT ![r] = "accepted"]
    /\ active' = r
    /\ endedFlag' = FALSE
    /\ UNCHANGED <<configured, ready, wire, frames, errors>>

-----------------------------------------------------------------------------
\* The encoder's side of a request (Node's http stream, external).  A clean
\* close is kept until somebody listens; an abort that finds no 'error'
\* listener is never reported again.
EncoderCloses(r) ==
    /\ LoopFree
    /\ handler[r] \in {"resolving", "accepted"}
    /\ wire[r] = "open"
    /\ wire' = [wire EXCEPT ![r] = "ended"]
    /\ UNCHANGED <<configured, ready, lifecycle, active, endedFlag, handler,
                   events, frames, errors>>

EncoderAborts(r) ==
    /\ LoopFree
    /\ handler[r] \in {"resolving", "accepted"}
    /\ wire[r] = "open"
    /\ wire' = [wire EXCEPT ![r] =
                   IF handler[r] = "accepted" THEN "broken" ELSE "silent"]
    /\ UNCHANGED <<configured, ready, lifecycle, active, endedFlag, handler,
                   events, frames, errors>>

-----------------------------------------------------------------------------
\* The 'data' listener.  It looks at bReady, the session and the config, not
\* at oActiveRequest; bytes it drops change nothing.
CanEmit(r) == ready /\ session # 0 /\ configured

NewFrame(r, d) == [session |-> session, seqNo |-> seqNo, offset |-> offset,
                   duration |-> d, source |-> r, after |-> Len(events)]

OnData(r) ==
    /\ LoopFree
    /\ handler[r] = "accepted"
    /\ wire[r] \in {"open", "ended"}
    /\ CanEmit(r)
    /\ Len(frames) < MaxFrames
    /\ \E d \in FrameDurations :
          /\ frames' = Append(frames, NewFrame(r, d))
          /\ offset' = offset + d
    /\ seqNo' = seqNo + 1
    /\ UNCHANGED <<configured, ready, session, reconnects, minted, active,
                   endedFlag, handler, wire, events, errors>>

\* Lines 351 and 358: a request that is no longer the active one is ignored.
Closing(r) == active = r

\* A plausible bug: the terminal event leaves the slot taken.
EndLeg_KeepsSlot(reason) ==
    /\ events' = IF EndDue THEN Append(events, EndedEvent(reason)) ELSE events
    /\ endedFlag' = (endedFlag \/ EndDue)
    /\ UNCHANGED active

\* A plausible bug: a socket error is reported as an error only.
EndLeg_CleanOnly(reason) ==
    /\ active' = NoRequest
    /\ events' = IF EndDue /\ reason # "error"
                 THEN Append(events, EndedEvent(reason)) ELSE events
    /\ endedFlag' = (endedFlag \/ EndDue)

\* What both terminal listeners do first: free the slot, end the leg once.
EndLeg(reason) ==
    /\ active' = NoRequest
    /\ events' = IF EndDue THEN Append(events, EndedEvent(reason)) ELSE events
    /\ endedFlag' = (endedFlag \/ EndDue)

OnEnd(r) ==
    /\ LoopFree
    /\ handler[r] = "accepted"
    /\ wire[r] = "ended"
    /\ wire' = [wire EXCEPT ![r] = "silent"]
    /\ IF Closing(r) THEN EndLeg("clean_disconnect")
                     ELSE UNCHANGED <<active, events, endedFlag>>
    /\ UNCHANGED <<configured, ready, lifecycle, handler, frames, errors>>

OnError(r) ==
    /\ LoopFree
    /\ handler[r] = "accepted"
    /\ wire[r] \in {"broken", "destroyed"}
    /\ wire' = [wire EXCEPT ![r] = "silent"]
    /\ IF Closing(r)
       THEN EndLeg("error") /\ errors' = errors + 1
       ELSE UNCHANGED <<active, events, endedFlag, errors>>
    /\ UNCHANGED <<configured, ready, lifecycle, handler, frames>>

-----------------------------------------------------------------------------
Continue(r) == LookupFails(r) \/ WrongPassword(r) \/ Accept(r)

Next ==
    \/ Connect
    \/ Disconnect
    \/ \E r \in Requests :
          \/ AnswerUnavailable(r)
          \/ AnswerBusy(r)
          \/ AnswerNoPassword(r)
          \/ StartLookup(r)
          \/ LookupFails(r)
          \/ WrongPassword(r)
          \/ Accept(r)
          \/ EncoderCloses(r)
          \/ EncoderAborts(r)
          \/ OnData(r)
          \/ OnEnd(r)
          \/ OnError(r)

Spec == Init /\ [][Next]_vars

\* A lookup is answered and a due 'end' or 'error' is delivered: promises of
\* the event loop.  Nothing is assumed of encoders or of the operator.
Fairness == \A r \in Requests : /\ WF_vars(Continue(r))
                                /\ WF_vars(OnEnd(r))
                                /\ WF_vars(OnError(r))

FairSpec == Spec /\ Fairness

-----------------------------------------------------------------------------
Start == {"created", "reconnected"}

\* Each session's frames are numbered from 0 without a gap and each frame
\* begins where the one before it ends, across reconnects and whatever the
\* number of connections that write ("the clock does not reset", lines 71-75;
\* the overlap rule of DATA-MODEL.md is built on it).
TimelineContiguous ==
    \A i \in 1..Len(frames) :
        IF i > 1 /\ frames[i - 1].session = frames[i].session
        THEN /\ frames[i].seqNo = frames[i - 1].seqNo + 1
             /\ frames[i].offset = frames[i - 1].offset + frames[i - 1].duration
        ELSE /\ frames[i].seqNo = 0
             /\ frames[i].offset = 0
             /\ \A j \in 1..(i - 1) : frames[j].session # frames[i].session

\* The n-th reconnect of a session carries the number n, and a session is
\* created once, before anything else is said of it, never between two events
\* of another session (lines 254-282).
ReconnectsCounted ==
    \A i \in 1..Len(events) :
        LET before == {j \in 1..(i - 1) : events[j].session = events[i].session}
            reopened == {j \in before : events[j].type = "reconnected"}
        IN  /\ events[i].type = "created" => before = {}
            /\ events[i].type = "reconnected" =>
                  i - 1 \in before /\ events[i].count = Cardinality(reopened) + 1
            /\ events[i].type = "ended" =>
                  i - 1 \in before /\ events[i].count = Cardinality(reopened)

\* A session never reports more ends than connections (the flag of line 86:
\* "one connection leg cannot emit duplicate terminal events").
NoDuplicateEnd ==
    \A i \in 1..Len(events) :
        events[i].type = "ended" =>
            /\ i > 1
            /\ events[i - 1].type \in Start
            /\ events[i - 1].session = events[i].session

-----------------------------------------------------------------------------
(* What the check of line 198 is for: these hold of a resolver that does    *)
(* not yield.                                                               *)

\* Two encoders never write into one session timeline (lines 195-197): at most
\* one accepted request can still produce bytes or a terminal event, and it is
\* the active one.
OneSource ==
    \A r \in Requests :
        handler[r] = "accepted" /\ wire[r] \in {"open", "ended", "broken"}
            => active = r

\* A session that is kept without a connection was reported ended: nobody
\* downstream believes a station live that has no source.
IdleIsReported ==
    active = NoRequest /\ session # 0 =>
        /\ events # <<>>
        /\ events[Len(events)].type = "ended"
        /\ events[Len(events)].session = session

\* Between fnDisconnect and the next fnConnect nothing is emitted ("A manual
\* disconnect is terminal for this adapter lifecycle", line 159).
SilentWhenDisconnected ==
    [][~ready /\ ~ready' => UNCHANGED <<events, frames>>]_vars

\* An encoder that goes away stops holding the station: its successor is not
\* refused for ever (docs/BUTT-OPERATOR-SETUP.md:73).
SlotFreed ==
    \A r \in Requests :
        (active = r /\ wire[r] # "open") ~> (active # r)

\* What the adapter promises its consumers: a session is open while there is a
\* current id, and its source is the active request.
Contract == INSTANCE ContributionSession
    WITH Sources <- Requests, NoSource <- NoRequest,
         Durations <- FrameDurations,
         open <- session # 0, source <- active, begun <- minted

\* Every behaviour of the adapter is one of the contribution contract: the
\* flags, counters and guards of the code emit exactly the legs and the
\* timeline that the contract reads off what was emitted before.
ImplementsContract == Contract!Spec
=============================================================================
