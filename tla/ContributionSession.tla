------------------------ MODULE ContributionSession ------------------------
(***************************************************************************)
(* What an IContributionAdapter promises the gateway (contracts            *)
(* ingest/adapter.ts and ingest/session.ts, as the adapter of the gateway  *)
(* implements them): one session at a time, one source at a time, every    *)
(* leg of a session announced before its audio and reported ended after    *)
(* it, and one gapless timeline per session across its legs.               *)
(*                                                                         *)
(* There are no requests, credentials, flags or counters here: the next    *)
(* frame and the next event follow from what was emitted before.           *)
(***************************************************************************)
EXTENDS Integers, Sequences

CONSTANTS Sources, NoSource, Durations

VARIABLES
    open,   \* there is a session a source may resume
    source, \* the source of the current leg, NoSource between legs
    begun,  \* the latest session
    events,
    frames

vars == <<open, source, begun, events, frames>>

Init ==
    /\ open = FALSE
    /\ source = NoSource
    /\ begun = 0
    /\ events = <<>>
    /\ frames = <<>>

Tell(type, s, count, reason) ==
    events' = Append(events, [type |-> type, session |-> s, count |-> count,
                              reason |-> reason])

\* How often the latest session was resumed.
Count == events[Len(events)].count

\* The first leg of a session.
Begin(src) ==
    /\ ~open /\ source = NoSource
    /\ open' = TRUE
    /\ source' = src
    /\ begun' = begun + 1
    /\ Tell("created", begun + 1, 0, "none")
    /\ UNCHANGED frames

\* A plausible bug: a further leg is announced as a session.
Resume_Created(src) ==
    /\ open /\ source = NoSource
    /\ source' = src
    /\ Tell("created", begun, 0, "none")
    /\ UNCHANGED <<open, begun, frames>>

\* A further leg.
Resume(src) ==
    /\ open /\ source = NoSource
    /\ source' = src
    /\ Tell("reconnected", begun, Count + 1, "none")
    /\ UNCHANGED <<open, begun, frames>>

\* The last frame, when it belongs to the current session.
Continues == frames # <<>> /\ frames[Len(frames)].session = begun

\* A plausible bug: the clock starts over with each leg.
Emit_LegClock(d) ==
    /\ open /\ source # NoSource
    /\ LET last == frames[Len(frames)]
           sameLeg == Continues /\ last.after = Len(events) IN
       frames' = Append(frames,
           [session |-> begun,
            seqNo |-> IF Continues THEN last.seqNo + 1 ELSE 0,
            offset |-> IF sameLeg THEN last.offset + last.duration ELSE 0,
            duration |-> d,
            source |-> source,
            after |-> Len(events)])
    /\ UNCHANGED <<open, source, begun, events>>

\* Audio of the current leg, right after the audio before it.
Emit(d) ==
    /\ open /\ source # NoSource
    /\ LET last == frames[Len(frames)] IN
       frames' = Append(frames,
           [session |-> begun,
            seqNo |-> IF Continues THEN last.seqNo + 1 ELSE 0,
            offset |-> IF Continues THEN last.offset + last.duration ELSE 0,
            duration |-> d,
            source |-> source,
            after |-> Len(events)])
    /\ UNCHANGED <<open, source, begun, events>>

\* The source goes away; the session can be resumed.
Suspend(reason) ==
    /\ open /\ source # NoSource
    /\ source' = NoSource
    /\ Tell("ended", begun, Count, reason)
    /\ UNCHANGED <<open, begun, frames>>

\* The operator disconnects: a running leg ends, and so does the session.
Close ==
    /\ open
    /\ open' = FALSE
    /\ source' = NoSource
    /\ IF source # NoSource THEN Tell("ended", begun, Count, "clean_disconnect")
                            ELSE UNCHANGED events
    /\ UNCHANGED <<begun, frames>>

Next ==
    \/ \E src \in Sources : Begin(src) \/ Resume(src)
    \/ \E d \in Durations : Emit(d)
    \/ \E reason \in {"clean_disconnect", "error"} : Suspend(reason)
    \/ Close

Spec == Init /\ [][Next]_vars
=============================================================================
