-------------------------- MODULE SessionManager --------------------------
(***************************************************************************)
(* The session manager (session/session-manager.ts) and the session store  *)
(* it writes to (session/session-store.ts, local/in-memory-stores.ts):     *)
(* lifecycle events in, writes to one live_sessions row per session out,   *)
(* and a heartbeat timer.                                                  *)
(*                                                                         *)
(* The adapter does not await fnHandleEvent, so the handlers of successive *)
(* events overlap: each is cut at its one await of a store call.  A call   *)
(* to DynamoDB is applied at some moment of its own and answered later, in *)
(* any order with respect to the other calls, and may fail before or after *)
(* it was applied.  The in-memory store applies a call at once and answers *)
(* it in a microtask, before any other callback.                           *)
(***************************************************************************)
EXTENDS Integers, FiniteSets

CONSTANTS
    MaxSessions, \* bound: sessions that may begin
    MaxEvents,   \* bound: lifecycle events delivered
    MaxBeats,    \* bound: heartbeat calls sent
    MaxTries,    \* how often the AWS SDK sends a request (3 by default)
    InMemory     \* bUseInMemoryStores: the in-memory store, not DynamoDB

ASSUME BoundsAssumption ==
    MaxSessions \in Nat /\ MaxEvents \in Nat /\ MaxBeats \in Nat
ASSUME TriesAssumption == MaxTries \in Nat
ASSUME InMemoryAssumption == InMemory \in BOOLEAN

Sessions == 1..MaxSessions

VARIABLES
    current, \* sCurrentStationId and sCurrentSessionId, 0 for null
    timer,   \* oHeartbeatTimer # null
    calls,   \* store calls whose continuation has not run
    sent,    \* how many calls were made
    beats,   \* how many of them were heartbeats
    row,     \* the live_sessions row of each session
    told,    \* per session: heartbeat events passed to the handler
    errors,  \* how many times fnEmitError was called
    last,    \* the latest lifecycle event delivered
    handled  \* how many lifecycle events were delivered

delivered == <<last, handled>>
vars == <<current, timer, calls, sent, beats, row, told, errors, delivered>>

Start == {"created", "reconnected"}
Reasons == {"none", "clean_disconnect", "error"}

Event == [type: {"none", "created", "reconnected", "ended"},
          session: Nat, count: Nat, reason: Reasons]

NoEvent == [type |-> "none", session |-> 0, count |-> 0, reason |-> "none"]

\* A call carries its event; `op` is the store operation it asks for, `tries`
\* how often it was sent.
Call == [id: Nat, op: {"created", "reconnected", "ended", "heartbeat"},
         session: Sessions, count: Nat, reason: Reasons, tries: Nat,
         outcome: {"pending", "ok", "failed"}]

Row == [status: {"absent", "live", "ended", "failed"}, endedAt: BOOLEAN,
        count: Nat, beats: Nat]

\* Every variable keeps the shape the code gives it: among others, a row has
\* one of the four statuses and only named sessions are current.
TypeOK ==
    /\ current \in Sessions \cup {0}
    /\ timer \in BOOLEAN
    /\ calls \subseteq Call
    /\ sent \in Nat
    /\ beats \in Nat
    /\ row \in [Sessions -> Row]
    /\ told \in [Sessions -> Nat]
    /\ errors \in Nat
    /\ last \in Event
    /\ last.type # "none" => last.session \in Sessions
    /\ handled \in Nat

NoRow == [status |-> "absent", endedAt |-> FALSE, count |-> 0, beats |-> 0]

Init ==
    /\ current = 0
    /\ timer = FALSE
    /\ calls = {}
    /\ sent = 0
    /\ beats = 0
    /\ row = [s \in Sessions |-> NoRow]
    /\ told = [s \in Sessions |-> 0]
    /\ errors = 0
    /\ last = NoEvent
    /\ handled = 0

\* With the in-memory store a handler finishes before another callback runs.
LoopFree == ~InMemory \/ calls = {}

-----------------------------------------------------------------------------
\* The store.

Exists(s) == row[s].status # "absent"

\* A plausible bug: the condition of the updates is copied to the create.
Permitted_MustExist(c) == Exists(c.session)

\* attribute_not_exists on create, attribute_exists on the three updates; the
\* in-memory store throws in the same cases.
Permitted(c) == IF c.op = "created" THEN ~Exists(c.session) ELSE Exists(c.session)

\* A plausible bug: reconnect leaves ended_at as it was.
Revived_KeepsEndedAt(c) ==
    [row[c.session] EXCEPT !.status = "live",
                           !.count = IF InMemory THEN c.count ELSE @ + 1]

\* A plausible bug: the row is given the status of the health tracker.
Revived_Reconnecting(c) ==
    [row[c.session] EXCEPT !.status = "reconnecting", !.endedAt = FALSE,
                           !.count = IF InMemory THEN c.count ELSE @ + 1]

\* DynamoDB adds one; the in-memory store sets the adapter's count.
Revived(c) ==
    [row[c.session] EXCEPT !.status = "live", !.endedAt = FALSE,
                           !.count = IF InMemory THEN c.count ELSE @ + 1]

\* The row after the call was applied.
Written(c) ==
    CASE c.op = "created" ->
            [status |-> "live", endedAt |-> FALSE, count |-> 0, beats |-> 0]
      [] c.op = "reconnected" -> Revived(c)
      [] c.op = "heartbeat" -> [row[c.session] EXCEPT !.beats = @ + 1]
      [] c.op = "ended" ->
            [row[c.session] EXCEPT !.endedAt = TRUE,
                !.status = IF c.reason = "error" THEN "failed" ELSE "ended"]

Settle(c, outcome) == calls' = (calls \ {c}) \cup {[c EXCEPT !.outcome = outcome]}

StoreOnly == UNCHANGED <<current, timer, sent, beats, told, errors, delivered>>

\* The store evaluates the condition and applies the call.
StoreAnswers(c) ==
    /\ c.outcome = "pending"
    /\ IF Permitted(c)
       THEN row' = [row EXCEPT ![c.session] = Written(c)] /\ Settle(c, "ok")
       ELSE UNCHANGED row /\ Settle(c, "failed")
    /\ StoreOnly

\* The call never reaches the table.
StoreFails(c) ==
    /\ ~InMemory
    /\ c.outcome = "pending"
    /\ Settle(c, "failed")
    /\ UNCHANGED row
    /\ StoreOnly

\* The call is applied and its answer is lost.
AnswerLost(c) ==
    /\ ~InMemory
    /\ c.outcome = "pending"
    /\ Permitted(c)
    /\ row' = [row EXCEPT ![c.session] = Written(c)]
    /\ Settle(c, "failed")
    /\ StoreOnly

\* The call is applied, its answer is lost, and the SDK sends it again: what is
\* applied between the two is overwritten, and ADD adds twice.
AppliedAndRetried(c) ==
    /\ ~InMemory
    /\ c.outcome = "pending"
    /\ c.tries < MaxTries
    /\ Permitted(c)
    /\ row' = [row EXCEPT ![c.session] = Written(c)]
    /\ calls' = (calls \ {c}) \cup {[c EXCEPT !.tries = @ + 1]}
    /\ StoreOnly

-----------------------------------------------------------------------------
\* The handlers, up to their await.

Send(op, e) ==
    /\ sent' = sent + 1
    /\ calls' = calls \cup
          {[id |-> sent, op |-> op, session |-> e.session, count |-> e.count,
            reason |-> e.reason, tries |-> 1, outcome |-> "pending"]}

Deliver(e) ==
    /\ last' = e
    /\ handled' = handled + 1
    /\ UNCHANGED <<beats, row, told, errors>>

OnSessionCreated(e) ==
    /\ e.type = "created"
    /\ current' = e.session
    /\ Send("created", e)
    /\ UNCHANGED timer

\* A plausible bug: the ids are taken to be those of session.created still.
OnSessionReconnected_KeepsIds(e) ==
    /\ e.type = "reconnected"
    /\ Send("reconnected", e)
    /\ UNCHANGED <<current, timer>>

\* The ids are set again: the end of the leg before has cleared them.
OnSessionReconnected(e) ==
    /\ e.type = "reconnected"
    /\ current' = e.session
    /\ Send("reconnected", e)
    /\ UNCHANGED timer

\* A plausible bug: the manager ignores the end of a leg, since the encoder
\* may come back.
OnSessionEnded_Ignored(e) ==
    /\ e.type = "ended"
    /\ UNCHANGED <<current, timer, calls, sent>>

\* The timer stops first; the current ids stay until the write is answered.
OnSessionEnded(e) ==
    /\ e.type = "ended"
    /\ timer' = FALSE
    /\ Send("ended", e)
    /\ UNCHANGED current

HandleEvent(e) ==
    /\ LoopFree
    /\ OnSessionCreated(e) \/ OnSessionReconnected(e) \/ OnSessionEnded(e)
    /\ Deliver(e)

\* fnOnHeartbeat, which both the timer and a session.heartbeat event call.
SendHeartbeat(s) ==
    /\ beats < MaxBeats
    /\ beats' = beats + 1
    /\ Send("heartbeat", [NoEvent EXCEPT !.session = s])
    /\ UNCHANGED <<current, timer, row, told, errors, delivered>>

\* The interval callback: the ids are read at tick time.
Tick ==
    /\ LoopFree
    /\ timer
    /\ current # 0
    /\ SendHeartbeat(current)

\* session.heartbeat from an adapter, which names its own session.
HandleHeartbeat ==
    /\ LoopFree
    /\ last.type \in Start
    /\ SendHeartbeat(last.session)

-----------------------------------------------------------------------------
\* The handlers, after their await.

Answered(c) ==
    /\ c.outcome # "pending"
    /\ calls' = calls \ {c}
    /\ UNCHANGED <<sent, beats, row, delivered>>

\* A plausible bug: the continuation swallows the failure.
CountError_Never(c) == UNCHANGED errors

CountError(c) == errors' = IF c.outcome = "failed" THEN errors + 1 ELSE errors

\* fnStartHeartbeat and fnRestartHeartbeat: one timer runs afterwards, whether
\* the write succeeded or not.
HeartbeatStarts(c) == timer' = TRUE

StartReturns(c) ==
    /\ c.op \in Start
    /\ Answered(c)
    /\ CountError(c)
    /\ HeartbeatStarts(c)
    /\ UNCHANGED <<current, told>>

\* A plausible bug: a failed end write returns before the ids are cleared.
Forgets_OnSuccess(c) == current' = IF c.outcome = "ok" THEN 0 ELSE current

\* Lines 199-200: whatever session is current by now.
Forgets(c) == current' = 0

EndReturns(c) ==
    /\ c.op = "ended"
    /\ Answered(c)
    /\ CountError(c)
    /\ Forgets(c)
    /\ UNCHANGED <<timer, told>>

\* A plausible bug: the event is passed on whatever the store answered.
Tells_Always(c) == told' = [told EXCEPT ![c.session] = @ + 1]

\* The event is passed on after a write that succeeded.
Tells(c) ==
    told' = IF c.outcome = "ok" THEN [told EXCEPT ![c.session] = @ + 1] ELSE told

HeartbeatReturns(c) ==
    /\ c.op = "heartbeat"
    /\ Answered(c)
    /\ CountError(c)
    /\ Tells(c)
    /\ UNCHANGED <<current, timer>>

-----------------------------------------------------------------------------
\* The events an adapter may deliver next: an end after a start; after an end,
\* or at first, a start: of a session never named before, or of the last one.
Ended(reason) == [type |-> "ended", session |-> last.session,
                  count |-> last.count, reason |-> reason]
Created == [type |-> "created", session |-> last.session + 1, count |-> 0,
            reason |-> "none"]
Reconnected == [type |-> "reconnected", session |-> last.session,
                count |-> last.count + 1, reason |-> "none"]

NextEvents ==
    CASE last.type \in Start -> {Ended("clean_disconnect"), Ended("error")}
      [] last.type = "ended" -> {Created, Reconnected}
      [] last.type = "none" -> {Created}

Next ==
    \/ \E e \in NextEvents :
          handled < MaxEvents /\ e.session \in Sessions /\ HandleEvent(e)
    \/ HandleHeartbeat
    \/ Tick
    \/ \E c \in calls :
          \/ StoreAnswers(c)
          \/ StoreFails(c)
          \/ AnswerLost(c)
          \/ AppliedAndRetried(c)
          \/ StartReturns(c)
          \/ EndReturns(c)
          \/ HeartbeatReturns(c)

Spec == Init /\ [][Next]_vars

-----------------------------------------------------------------------------
(* What holds of every store.                                              *)

EndPending == \E c \in calls : c.op = "ended"

\* Once the last session was reported ended and no end write is under way, no
\* session is current: a timer that a late continuation started has nothing to
\* update (lines 198-200 and the check of line 237).
EndedIsForgotten ==
    last.type # "ended" \/ EndPending \/ current = 0

\* Every heartbeat event downstream sees stands for a write the row received
\* (lines 217-218: "downstream health state reflects persisted heartbeat
\* progress").
HeartbeatsPersisted == \A s \in Sessions : told[s] <= row[s].beats

\* The sessions that were announced, whose writes have all returned, and that are
\* not on record.
Unrecorded ==
    {s \in 1..last.session : (\A c \in calls : c.session # s) /\ ~Exists(s)}

\* No session is lost in silence: an error was reported for each one that is not
\* on record, and no error does for two of them (lines 140-144).
SessionOnRecord == Cardinality(Unrecorded) <= errors

-----------------------------------------------------------------------------
(* What holds when nothing overlaps: the in-memory store.                  *)

Quiet == calls = {}

StatusAfter(e) ==
    IF e.type \in Start THEN "live"
    ELSE IF e.reason = "error" THEN "failed" ELSE "ended"

\* Between handlers, and as long as no error was reported, the row of the last
\* session says what its last event said:
\* live exactly while a source is connected, ended_at set exactly when it is
\* not, and the encoder's own number of reconnects (docs/BUTT-OPERATOR-SETUP.md
\* :71-80; the invariant of session-store.ts:166-168).
RowMatchesLastEvent ==
    Quiet /\ errors = 0 /\ last.type # "none" =>
        LET r == row[last.session] IN
        /\ r.status = StatusAfter(last)
        /\ r.endedAt = (last.type = "ended")
        /\ r.count = last.count

\* While a source is connected its session is the current one and the timer
\* runs, so last_heartbeat_at keeps moving (session-manager.ts:7-12).
LiveSessionTracked ==
    Quiet /\ last.type \in Start => current = last.session /\ timer

\* No heartbeat is sent for a session that was reported ended (lines 180-182).
NoTickAfterEnd == [][last.type = "ended" => beats' = beats]_vars
=============================================================================
