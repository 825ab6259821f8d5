------------------------ MODULE IngestHealthTracker ------------------------
(***************************************************************************)
(* The health tracker (health/ingest-health-tracker.ts): what /health says *)
(* of one station, kept up to date by lifecycle events of the adapter,     *)
(* heartbeats of the session manager, completed chunks and errors.         *)
(*                                                                         *)
(* Each handler is a function of the state it finds; IngestGateway calls   *)
(* them.  Events come in the adapter's order; heartbeats and chunks report *)
(* writes that may have been asked for long before, by a leg that is over. *)
(***************************************************************************)
EXTENDS Integers

\* `adapter` is sAdapterType # null and sIngestProtocol # null; session 0 and
\* chunk -1 are null; `known` is FALSE while the map has no entry.
State == [known: BOOLEAN, status: {"online", "offline", "reconnecting"},
          session: Nat, adapter: BOOLEAN, heartbeat: Nat, count: Nat,
          chunk: Nat \cup {-1}, error: BOOLEAN]

\* fnGetHealth answers null: no session of the station was seen yet.
Unknown == [known |-> FALSE, status |-> "offline", session |-> 0,
            adapter |-> FALSE, heartbeat |-> 0, count |-> 0, chunk |-> -1,
            error |-> FALSE]

-----------------------------------------------------------------------------
\* fnHandleSessionEvent.

\* session.created: everything is fresh.
AfterCreated(e, at) ==
    [known |-> TRUE, status |-> "online", session |-> e.session,
     adapter |-> TRUE, heartbeat |-> at, count |-> 0, chunk |-> -1,
     error |-> FALSE]

\* A plausible bug: the tracker counts for itself, from the reset of a session.
AfterReconnected_KeepsCount(h, e, at) ==
    [h EXCEPT !.status = "online", !.session = e.session, !.heartbeat = at]

\* session.reconnected: the leg's end has cleared the session id.
AfterReconnected(h, e, at) ==
    IF h.known
    THEN [h EXCEPT !.status = "online", !.session = e.session,
                   !.count = e.count, !.heartbeat = at]
    ELSE [AfterCreated(e, at) EXCEPT !.adapter = FALSE, !.count = e.count]

\* session.ended.
AfterEnded(h) ==
    IF h.known THEN [h EXCEPT !.status = "offline", !.session = 0, !.adapter = FALSE]
               ELSE h

AfterEvent(h, e, at) ==
    CASE e.type = "created" -> AfterCreated(e, at)
      [] e.type = "reconnected" -> AfterReconnected(h, e, at)
      [] e.type = "ended" -> AfterEnded(h)

\* session.heartbeat, of whatever session.
AfterHeartbeat(h, s, at) == IF h.known THEN [h EXCEPT !.heartbeat = at] ELSE h

\* fnHandleChunkCompleted, of whatever session.
AfterChunk(h, seqNo) == IF h.known THEN [h EXCEPT !.chunk = seqNo] ELSE h

\* fnHandleError.
AfterError(h) == IF h.known THEN [h EXCEPT !.error = TRUE] ELSE h
=============================================================================
