----------------------- MODULE SessionManagerProofs -----------------------
(***************************************************************************)
(* Proofs about the session manager, for any bounds.                       *)
(***************************************************************************)
EXTENDS SessionManager, FiniteSetTheorems, TLAPS

USE BoundsAssumption, InMemoryAssumption

\* An event the adapter may deliver next, of a session within the bound.
LEMMA NextEventTypes ==
    ASSUME TypeOK, NEW e \in NextEvents, e.session \in Sessions
    PROVE  /\ e \in Event
           /\ e.type # "none"
<1>1. \A reason \in {"clean_disconnect", "error"} : Ended(reason) \in Event
  BY DEF Ended, TypeOK, Event, Reasons
<1>2. Created \in Event /\ Reconnected \in Event
  BY DEF Created, Reconnected, TypeOK, Event, Reasons
<1>3. last.type \in {"none", "created", "reconnected", "ended"}
  BY DEF TypeOK, Event
<1>4. \/ e = Created \/ e = Reconnected
      \/ \E reason \in {"clean_disconnect", "error"} : e = Ended(reason)
  BY <1>3 DEF NextEvents, Start
<1> QED
  BY <1>1, <1>2, <1>4 DEF Ended, Created, Reconnected

\* A call made by a handler joins those in flight, as pending.
LEMMA SendTypes ==
    ASSUME TypeOK, NEW op \in {"created", "reconnected", "ended", "heartbeat"},
           NEW e \in Event, e.session \in Sessions, Send(op, e)
    PROVE  calls' \subseteq Call /\ sent' \in Nat
  BY DEF Send, TypeOK, Call, Event

\* A settled call stays a call.
LEMMA SettleTypes ==
    ASSUME TypeOK, NEW c \in calls, NEW outcome \in {"ok", "failed"},
           Settle(c, outcome)
    PROVE  calls' \subseteq Call
<1>1. [c EXCEPT !.outcome = outcome] \in Call
  BY DEF TypeOK, Call
<1> QED
  BY <1>1 DEF Settle, TypeOK

\* A call that is sent again stays a call.
LEMMA RetryTypes ==
    ASSUME TypeOK, NEW c \in calls, AppliedAndRetried(c)
    PROVE  calls' \subseteq Call
<1>1. c \in Call
  BY DEF TypeOK
<1>2. PICK n \in Nat : n = c.tries + 1
  BY <1>1 DEF Call
<1>3. [c EXCEPT !.tries = n] \in Call
  BY <1>1 DEF Call
<1> QED
  BY <1>2, <1>3 DEF AppliedAndRetried, TypeOK

\* Every write leaves a row.
LEMMA WrittenTypes ==
    ASSUME TypeOK, NEW c \in calls
    PROVE  Written(c) \in Row
<1>1. c \in Call /\ row[c.session] \in Row
  BY DEF TypeOK, Call
<1>2. CASE c.op = "created"
  BY <1>1, <1>2 DEF Written, Row
<1>3. CASE c.op = "reconnected"
  <2>1. Revived(c) \in Row
    <3>1. row[c.session].count \in Nat /\ c.count \in Nat
      BY <1>1 DEF Row, Call
    <3>2. CASE InMemory
      BY <1>1, <3>1, <3>2 DEF Revived, Row
    <3>3. CASE ~InMemory
      <4>1. PICK n \in Nat : n = row[c.session].count + 1
        BY <3>1
      <4>2. Revived(c) = [row[c.session] EXCEPT !.status = "live",
                                                !.endedAt = FALSE, !.count = n]
        BY <3>3, <4>1 DEF Revived
      <4> QED
        BY <1>1, <4>2 DEF Row
    <3> QED
      BY <3>2, <3>3
  <2> QED
    BY <1>3, <2>1 DEF Written
<1>4. CASE c.op = "heartbeat"
  BY <1>1, <1>4 DEF Written, Row
<1>5. CASE c.op = "ended"
  BY <1>1, <1>5 DEF Written, Row
<1> QED
  BY <1>1, <1>2, <1>3, <1>4, <1>5 DEF Call

\* A heartbeat is sent in the name of a session.
LEMMA BeatTypes ==
    ASSUME NEW s \in Sessions
    PROVE  /\ [NoEvent EXCEPT !.session = s] \in Event
           /\ [NoEvent EXCEPT !.session = s].session = s
  BY DEF NoEvent, Event, Reasons, Sessions

-----------------------------------------------------------------------------
\* Type correctness: the ids the manager holds, the calls in flight and the rows
\* keep their shape.
LEMMA TypeStep == TypeOK /\ [Next]_vars => TypeOK'
<1> SUFFICES ASSUME TypeOK, [Next]_vars
             PROVE  TypeOK'
  OBVIOUS
<1>1. ASSUME NEW e \in NextEvents, e.session \in Sessions, HandleEvent(e)
      PROVE  TypeOK'
  <2>1. e \in Event /\ e.count \in Nat
    BY <1>1, NextEventTypes DEF Event
  <2>2. Deliver(e)
    BY <1>1 DEF HandleEvent
  <2>3. \E op \in {"created", "reconnected", "ended"} : Send(op, e)
    BY <1>1 DEF HandleEvent, OnSessionCreated, OnSessionReconnected, OnSessionEnded
  <2>4. calls' \subseteq Call /\ sent' \in Nat
    BY <1>1, <2>1, <2>3, SendTypes
  <2>5. current' \in Sessions \cup {0} /\ timer' \in BOOLEAN
    BY <1>1 DEF HandleEvent, OnSessionCreated, OnSessionReconnected,
                OnSessionEnded, TypeOK
  <2>6. last' = e /\ e.type # "none"
    BY <1>1, <2>2, NextEventTypes DEF Deliver
  <2> QED
    BY <1>1, <2>1, <2>2, <2>4, <2>5, <2>6 DEF Deliver, TypeOK
<1>2. ASSUME NEW s \in Sessions, SendHeartbeat(s)
      PROVE  TypeOK'
  <2>1. Send("heartbeat", [NoEvent EXCEPT !.session = s])
    BY <1>2 DEF SendHeartbeat
  <2>2. calls' \subseteq Call /\ sent' \in Nat
    BY <2>1, BeatTypes, SendTypes
  <2> QED
    BY <1>2, <2>2 DEF SendHeartbeat, TypeOK, delivered
<1>3. ASSUME NEW c \in calls,
             StoreAnswers(c) \/ StoreFails(c) \/ AnswerLost(c) \/ AppliedAndRetried(c)
      PROVE  TypeOK'
  <2>1. c.session \in Sessions
    BY DEF TypeOK, Call
  <2>2. \/ \E outcome \in {"ok", "failed"} : Settle(c, outcome)
        \/ AppliedAndRetried(c)
    BY <1>3 DEF StoreAnswers, StoreFails, AnswerLost
  <2>3. calls' \subseteq Call
    BY <2>2, SettleTypes, RetryTypes
  <2>4. row' \in [Sessions -> Row]
    BY <1>3, <2>1, WrittenTypes
    DEF StoreAnswers, StoreFails, AnswerLost, AppliedAndRetried, TypeOK
  <2>5. StoreOnly
    BY <1>3 DEF StoreAnswers, StoreFails, AnswerLost, AppliedAndRetried
  <2> QED
    BY <2>3, <2>4, <2>5 DEF StoreOnly, TypeOK, delivered
<1>4. ASSUME NEW c \in calls,
             StartReturns(c) \/ EndReturns(c) \/ HeartbeatReturns(c)
      PROVE  TypeOK'
  <2>1. Answered(c) /\ CountError(c)
    BY <1>4 DEF StartReturns, EndReturns, HeartbeatReturns
  <2>2. current' \in Sessions \cup {0} /\ timer' \in BOOLEAN
    BY <1>4 DEF StartReturns, EndReturns, HeartbeatReturns, HeartbeatStarts,
                Forgets, TypeOK
  <2>3. told' \in [Sessions -> Nat]
    BY <1>4 DEF StartReturns, EndReturns, HeartbeatReturns, Tells, TypeOK
  <2> QED
    BY <2>1, <2>2, <2>3 DEF Answered, CountError, TypeOK, delivered
<1>5. CASE UNCHANGED vars
  BY <1>5 DEF vars, delivered, TypeOK
<1>6. ASSUME Tick \/ HandleHeartbeat
      PROVE  \E s \in Sessions : SendHeartbeat(s)
  BY <1>6 DEF Tick, HandleHeartbeat, TypeOK, Start
<1> QED
  BY <1>1, <1>2, <1>3, <1>4, <1>5, <1>6 DEF Next

\* Every variable keeps its type, with either store.
THEOREM TypeCorrect == Spec => []TypeOK
<1>1. Init => TypeOK
  <2> SUFFICES ASSUME Init
               PROVE  TypeOK
    OBVIOUS
  <2>1. row \in [Sessions -> Row]
    BY DEF Init, Row, NoRow
  <2>2. last \in Event /\ last.type = "none"
    BY DEF Init, Event, NoEvent, Reasons
  <2> QED
    BY <2>1, <2>2 DEF Init, TypeOK
<1> QED
  BY <1>1, TypeStep, PTL DEF Spec

-----------------------------------------------------------------------------
\* Only a settled end call leaves the set of calls without clearing the ids: a
\* call that is settled is still the call it was.
LEMMA SettleKeepsEnds ==
    ASSUME TypeOK, NEW c \in calls, NEW outcome \in {"ok", "failed"},
           Settle(c, outcome)
    PROVE  EndPending <=> EndPending'
<1>1. [c EXCEPT !.outcome = outcome].op = c.op
  BY DEF TypeOK, Call
<1> QED
  BY <1>1 DEF Settle, EndPending

\* A call that is sent again is the same call.
LEMMA RetryKeepsEnds ==
    ASSUME TypeOK, NEW c \in calls, AppliedAndRetried(c)
    PROVE  EndPending <=> EndPending'
<1>1. [c EXCEPT !.tries = @ + 1].op = c.op
  BY DEF TypeOK, Call
<1> QED
  BY <1>1 DEF AppliedAndRetried, EndPending

\* Once the last session was reported ended and its end write returned, no
\* session is current, whatever the store did with the writes and in whatever
\* order they returned: no heartbeat can be sent for it any more.
THEOREM EndedForgotten == Spec => []EndedIsForgotten
<1>1. Init => EndedIsForgotten
  BY DEF Init, EndedIsForgotten, NoEvent
<1>2. TypeOK /\ EndedIsForgotten /\ [Next]_vars => EndedIsForgotten'
  <2> SUFFICES ASSUME TypeOK, EndedIsForgotten, [Next]_vars
               PROVE  EndedIsForgotten'
    OBVIOUS
  <2>1. ASSUME NEW e \in NextEvents, HandleEvent(e)
        PROVE  EndedIsForgotten'
    <3>1. last' = e
      BY <2>1 DEF HandleEvent, Deliver
    <3>2. CASE OnSessionEnded(e)
      <4> DEFINE c == [id |-> sent, op |-> "ended", session |-> e.session,
                       count |-> e.count, reason |-> e.reason, tries |-> 1,
                       outcome |-> "pending"]
      <4>1. c \in calls'
        BY <3>2 DEF OnSessionEnded, Send
      <4>2. c.op = "ended"
        OBVIOUS
      <4> QED
        BY <4>1, <4>2 DEF EndedIsForgotten, EndPending
    <3>3. CASE OnSessionCreated(e) \/ OnSessionReconnected(e)
      BY <3>1, <3>3 DEF OnSessionCreated, OnSessionReconnected, EndedIsForgotten
    <3> QED
      BY <2>1, <3>2, <3>3 DEF HandleEvent
  <2>2. ASSUME NEW s, SendHeartbeat(s)
        PROVE  EndedIsForgotten'
    BY <2>2 DEF SendHeartbeat, Send, delivered, EndedIsForgotten, EndPending
  <2>3. ASSUME NEW c \in calls,
               StoreAnswers(c) \/ StoreFails(c) \/ AnswerLost(c) \/ AppliedAndRetried(c)
        PROVE  EndedIsForgotten'
    <3>1. \/ \E outcome \in {"ok", "failed"} : Settle(c, outcome)
          \/ AppliedAndRetried(c)
      BY <2>3 DEF StoreAnswers, StoreFails, AnswerLost
    <3>2. UNCHANGED <<current, last>>
      BY <2>3 DEF StoreAnswers, StoreFails, AnswerLost, AppliedAndRetried,
                  StoreOnly, delivered
    <3> QED
      BY <3>1, <3>2, SettleKeepsEnds, RetryKeepsEnds DEF EndedIsForgotten
  <2>4. ASSUME NEW c \in calls, StartReturns(c) \/ HeartbeatReturns(c)
        PROVE  EndedIsForgotten'
    BY <2>4 DEF StartReturns, HeartbeatReturns, Answered, delivered, Start,
                EndedIsForgotten, EndPending
  <2>5. ASSUME NEW c \in calls, EndReturns(c)
        PROVE  EndedIsForgotten'
    BY <2>5 DEF EndReturns, Forgets, EndedIsForgotten
  <2>6. CASE UNCHANGED vars
    BY <2>6 DEF vars, delivered, EndedIsForgotten, EndPending
  <2> QED
    BY <2>1, <2>2, <2>3, <2>4, <2>5, <2>6 DEF Next, Tick, HandleHeartbeat
<1> QED
  BY <1>1, <1>2, TypeCorrect, PTL DEF Spec

-----------------------------------------------------------------------------
(***************************************************************************)
(* Handlers that do not overlap, with either store.  At most one call is   *)
(* in flight then, and it is the one of the last event or a heartbeat of   *)
(* its session.  Until that call is applied the row is still that of the   *)
(* event before; afterwards it is that of the last event.                  *)
(*                                                                         *)
(* Which session is tracked does not depend on what the store answers; the *)
(* row follows the events as long as no call failed and none was sent      *)
(* twice.                                                                  *)
(***************************************************************************)

\* No handler is called while another one awaits the store.
OneAtATime == \A c, d \in calls : c = d

\* No request is sent twice: the in-memory store needs no sending.
SentOnce == InMemory \/ MaxTries <= 1

\* No call has failed so far, and none was sent twice.
Clean == SentOnce /\ errors = 0 /\ \A c \in calls : c.outcome # "failed"

Unwritten(c) == c.outcome = "pending" /\ c.op # "heartbeat"

Matches ==
    /\ row[last.session].status = StatusAfter(last)
    /\ row[last.session].endedAt = (last.type = "ended")
    /\ row[last.session].count = last.count

RowFollows ==
    /\ \A s \in Sessions : s > last.session => row[s].status = "absent"
    /\ Clean /\ last.type # "none" /\ (\A c \in calls : ~Unwritten(c)) => Matches

\* The number of reconnects the call finds in the row.
CountBefore(c) == IF c.op = "reconnected" THEN c.count - 1 ELSE c.count

CallFollows ==
    \A c \in calls :
        /\ c.session = last.session
        /\ c.id < sent
        /\ c.tries >= 1
        /\ c.op = "heartbeat" => last.type \in Start
        /\ c.op # "heartbeat" =>
              c.op = last.type /\ c.count = last.count /\ c.reason = last.reason
        /\ Clean /\ Unwritten(c) => Permitted(c)
        /\ Clean /\ Unwritten(c) /\ c.op # "created" =>
              row[c.session].count = CountBefore(c)

Tracked ==
    /\ last.type \in Start => current = last.session
    /\ last.type \in Start /\ (\A c \in calls : c.op \notin Start) => timer
    /\ last.type = "ended" => ~timer
    /\ last.type = "none" => last.session = 0 /\ current = 0 /\ calls = {}
    /\ last.type = "created" => last.count = 0

AloneInv == RowFollows /\ CallFollows /\ Tracked

\* A call that is sent while none may be in flight is the only one.
LEMMA SentAlone ==
    ASSUME TypeOK, AloneInv, OneAtATime', NEW op, NEW e, Send(op, e)
    PROVE  /\ calls = {}
           /\ calls' = {[id |-> sent, op |-> op, session |-> e.session,
                         count |-> e.count, reason |-> e.reason, tries |-> 1,
                         outcome |-> "pending"]}
<1> DEFINE c0 == [id |-> sent, op |-> op, session |-> e.session,
                  count |-> e.count, reason |-> e.reason, tries |-> 1,
                  outcome |-> "pending"]
<1>1. c0.id = sent
  OBVIOUS
<1>2. calls' = calls \cup {c0}
  BY DEF Send
<1> HIDE DEF c0
<1>3. ASSUME NEW c \in calls PROVE FALSE
  <2>1. c = c0
    BY <1>2 DEF OneAtATime
  <2>2. c.id < sent
    BY DEF AloneInv, CallFollows
  <2> QED
    BY <1>1, <2>1, <2>2 DEF TypeOK
<1> QED
  BY <1>2, <1>3 DEF c0

\* The handler of an event finds no call in flight, and its call is the only one.
LEMMA AloneDeliver ==
    ASSUME TypeOK, AloneInv, OneAtATime', NEW e \in NextEvents,
           e.session \in Sessions, HandleEvent(e)
    PROVE  AloneInv'
<1> DEFINE c0 == [id |-> sent, op |-> e.type, session |-> e.session,
                  count |-> e.count, reason |-> e.reason, tries |-> 1,
                       outcome |-> "pending"]
<1>1. row' = row /\ last' = e /\ errors' = errors
  BY DEF HandleEvent, Deliver
<1>2. Send(e.type, e)
  BY DEF HandleEvent, OnSessionCreated, OnSessionReconnected, OnSessionEnded
<1>3. /\ e.type \in {"created", "reconnected", "ended"}
      /\ e.type \in Start => current' = e.session
      /\ e.type = "ended" => ~timer' /\ current' = current
  BY DEF HandleEvent, OnSessionCreated, OnSessionReconnected, OnSessionEnded, Start
<1>4. calls = {} /\ calls' = {c0} /\ sent' = sent + 1 /\ sent \in Nat
  BY <1>2, SentAlone DEF Send, TypeOK
<1>5. last.type # "none" /\ Clean' => Matches
  BY <1>1, <1>4 DEF AloneInv, RowFollows, Clean
<1>6. /\ last.type \in {"none", "created", "reconnected", "ended"}
      /\ last.session \in Nat /\ last.count \in Nat
  BY DEF TypeOK, Event
<1>7. /\ e.session >= last.session
      /\ e.type = "created" => e.session = last.session + 1
      /\ e.type # "created" => e.session = last.session /\ last.type # "none"
      /\ e.type = "ended" => e.count = last.count
      /\ e.type = "reconnected" => e.count = last.count + 1
  <2>1. \/ e = Created
        \/ e = Reconnected /\ last.type = "ended"
        \/ /\ e = Ended("clean_disconnect") \/ e = Ended("error")
           /\ last.type \in Start
    BY <1>6 DEF NextEvents, Start
  <2> QED
    BY <1>6, <2>1 DEF Created, Reconnected, Ended, Start
<1>8. ASSUME Clean'
      PROVE  IF e.type = "created" THEN row'[e.session].status = "absent"
                                   ELSE row'[e.session].status # "absent"
  <2>1. CASE e.type = "created"
    <3>1. row[e.session].status = "absent"
      BY <1>6, <1>7, <2>1 DEF AloneInv, RowFollows, Sessions
    <3> QED
      BY <1>1, <2>1, <3>1
  <2>2. CASE e.type # "created"
    <3>1. row[e.session].status # "absent"
      BY <1>5, <1>7, <1>8, <2>2 DEF Matches, StatusAfter
    <3> QED
      BY <1>1, <2>2, <3>1
  <2> QED
    BY <2>1, <2>2
<1>9. ASSUME Clean', e.type # "created"
      PROVE  row'[e.session].count
                = IF e.type = "reconnected" THEN e.count - 1 ELSE e.count
  BY <1>1, <1>3, <1>5, <1>6, <1>7, <1>9 DEF Matches
<1>10. CallFollows'
  <2>1. /\ c0.session = e.session /\ c0.op = e.type /\ c0.outcome = "pending"
        /\ c0.count = e.count /\ c0.reason = e.reason /\ e.type # "heartbeat"
        /\ c0.id = sent /\ c0.tries = 1
    BY <1>3
  <2> HIDE DEF c0
  <2>2. \A c \in calls' : c = c0
    BY <1>4
  <2>3. c0.id < sent'
    BY <1>4, <2>1
  <2> QED
    BY <1>1, <1>8, <1>9, <2>1, <2>2, <2>3 DEF CallFollows, Permitted, Exists, CountBefore
<1>11. RowFollows'
  <2>1. Unwritten(c0)
    BY <1>3 DEF Unwritten
  <2>2. \A s \in Sessions : s > e.session => row[s].status = "absent"
    BY <1>6, <1>7 DEF AloneInv, RowFollows, Sessions
  <2> QED
    BY <1>1, <1>4, <2>1, <2>2 DEF RowFollows, Unwritten
<1>12. Tracked'
  <2>1. e.type = "created" => e.count = 0
    BY <1>6 DEF NextEvents, Created, Reconnected, Ended, Start
  <2> QED
    BY <1>1, <1>3, <1>4, <2>1 DEF Tracked
<1> QED
  BY <1>10, <1>11, <1>12 DEF AloneInv

\* A heartbeat is sent only for the session that is connected.
LEMMA AloneBeat ==
    ASSUME TypeOK, AloneInv, OneAtATime', Tick \/ HandleHeartbeat
    PROVE  AloneInv' /\ last.type \in Start
<1>1. last.type \in Start
  BY DEF Tick, HandleHeartbeat, AloneInv, Tracked, TypeOK, Event, Start
<1>2. SendHeartbeat(last.session)
  BY <1>1 DEF Tick, HandleHeartbeat, AloneInv, Tracked
<1>3. UNCHANGED <<current, timer, row, last, errors>>
  BY <1>2 DEF SendHeartbeat, delivered
<1> DEFINE e == [NoEvent EXCEPT !.session = last.session]
<1> DEFINE c0 == [id |-> sent, op |-> "heartbeat", session |-> e.session,
                  count |-> e.count, reason |-> e.reason, tries |-> 1,
                       outcome |-> "pending"]
<1>4. calls = {} /\ calls' = {c0} /\ sent' = sent + 1 /\ sent \in Nat
  BY <1>2, SentAlone DEF SendHeartbeat, Send, TypeOK
<1>5. /\ c0.op = "heartbeat" /\ c0.session = last.session /\ c0.outcome = "pending"
      /\ c0.id = sent /\ c0.tries = 1
  BY DEF NoEvent
<1>6. Clean' => Matches
  BY <1>1, <1>3, <1>4 DEF AloneInv, RowFollows, Clean, Start
<1> HIDE DEF c0
<1>7. CallFollows'
  BY <1>1, <1>3, <1>4, <1>5 DEF CallFollows, Unwritten
<1>8. RowFollows'
  BY <1>3, <1>6 DEF AloneInv, RowFollows, Matches
<1>9. Tracked'
  BY <1>1, <1>3, <1>4, <1>5 DEF AloneInv, Tracked, Start
<1> QED
  BY <1>1, <1>7, <1>8, <1>9 DEF AloneInv

\* The store applies the one call in flight: the row becomes that of the last
\* event.
LEMMA AloneApplied ==
    ASSUME TypeOK, AloneInv, OneAtATime, NEW c \in calls, Clean,
           c.outcome = "pending"
    PROVE  /\ Permitted(c)
           /\ Written(c).status = StatusAfter(last)
           /\ Written(c).endedAt = (last.type = "ended")
           /\ Written(c).count = last.count
<1>1. /\ c \in Call /\ calls = {c} /\ c.session = last.session
      /\ c.session \in Sessions /\ row[c.session] \in Row /\ c.count \in Nat
      /\ c.op = "heartbeat" => last.type \in Start
      /\ c.op # "heartbeat" =>
            c.op = last.type /\ c.count = last.count /\ c.reason = last.reason
  BY DEF AloneInv, CallFollows, OneAtATime, TypeOK, Call
<1>2. c.op = "heartbeat" => Matches
  BY <1>1 DEF AloneInv, RowFollows, Unwritten, Start
<1>3. Permitted(c)
  <2>1. CASE c.op = "heartbeat"
    BY <1>1, <1>2, <2>1 DEF Matches, StatusAfter, Permitted, Exists
  <2>2. CASE c.op # "heartbeat"
    BY <1>1, <2>2 DEF AloneInv, CallFollows, Unwritten
  <2> QED
    BY <2>1, <2>2
<1>4. c.op \notin {"heartbeat", "created"} => row[c.session].count = CountBefore(c)
  BY DEF AloneInv, CallFollows, Unwritten
<1>5. CASE c.op = "heartbeat"
  BY <1>1, <1>2, <1>3, <1>5 DEF Written, Matches, Row
<1>6. CASE c.op = "created"
  <2>1. last.count = 0
    BY <1>1, <1>6 DEF AloneInv, Tracked
  <2> QED
    BY <1>1, <1>3, <1>6, <2>1 DEF Written, StatusAfter, Start
<1>7. CASE c.op = "reconnected"
  <2>1. row[c.session].count + 1 = last.count /\ c.count = last.count
    BY <1>1, <1>4, <1>7 DEF CountBefore, Row
  <2>2. Written(c) = Revived(c)
    BY <1>7, Zenon DEF Written
  <2>3. /\ Revived(c).status = "live" /\ Revived(c).endedAt = FALSE
        /\ Revived(c).count = last.count
    BY <1>1, <2>1 DEF Revived, Row
  <2> QED
    BY <1>1, <1>3, <1>7, <2>2, <2>3 DEF StatusAfter, Start
<1>8. CASE c.op = "ended"
  BY <1>1, <1>3, <1>4, <1>8 DEF Written, StatusAfter, Start, Row, CountBefore
<1> QED
  BY <1>1, <1>5, <1>6, <1>7, <1>8 DEF Call

\* The store answers, fails, or answers in vain, or the request is sent again.
LEMMA AloneStore ==
    ASSUME TypeOK, AloneInv, OneAtATime, NEW c \in calls,
           StoreAnswers(c) \/ StoreFails(c) \/ AnswerLost(c) \/ AppliedAndRetried(c)
    PROVE  AloneInv'
<1>1. /\ c \in Call /\ c.outcome = "pending" /\ calls = {c}
      /\ c.session = last.session /\ c.session \in Sessions
      /\ UNCHANGED <<current, timer, sent, errors, last>>
  BY DEF StoreAnswers, StoreFails, AnswerLost, AppliedAndRetried, StoreOnly,
         delivered, AloneInv, CallFollows, OneAtATime, TypeOK, Call
<1>2. PICK d :
         /\ calls' = {d}
         /\ d.op = c.op /\ d.session = c.session /\ d.count = c.count
         /\ d.reason = c.reason /\ d.id = c.id /\ d.tries >= 1
         /\ \/ d.outcome = "ok" /\ StoreAnswers(c) /\ Permitted(c)
            \/ d.outcome = "failed"
            \/ ~SentOnce
  <2>0. c.tries >= 1 /\ c.tries \in Nat
    BY <1>1 DEF AloneInv, CallFollows, Call
  <2>1. ASSUME NEW outcome, Settle(c, outcome)
        PROVE  LET d == [c EXCEPT !.outcome = outcome] IN
               /\ calls' = {d} /\ d.outcome = outcome
               /\ d.op = c.op /\ d.session = c.session /\ d.count = c.count
               /\ d.reason = c.reason /\ d.id = c.id /\ d.tries >= 1
    BY <1>1, <2>0, <2>1 DEF Settle, Call
  <2>2. CASE StoreAnswers(c)
    <3>1. CASE Permitted(c)
      <4>1. Settle(c, "ok")
        BY <2>2, <3>1 DEF StoreAnswers
      <4> QED
        BY <2>1, <2>2, <3>1, <4>1
    <3>2. CASE ~Permitted(c)
      <4>1. Settle(c, "failed")
        BY <2>2, <3>2 DEF StoreAnswers
      <4> QED
        BY <2>1, <4>1
    <3> QED
      BY <3>1, <3>2
  <2>3. CASE StoreFails(c) \/ AnswerLost(c)
    <3>1. Settle(c, "failed")
      BY <2>3 DEF StoreFails, AnswerLost
    <3> QED
      BY <2>1, <3>1
  <2>4. CASE AppliedAndRetried(c)
    <3> DEFINE d == [c EXCEPT !.tries = @ + 1]
    <3>1. calls' = {d}
      BY <1>1, <2>4 DEF AppliedAndRetried
    <3>2. /\ d.op = c.op /\ d.session = c.session /\ d.count = c.count
          /\ d.reason = c.reason /\ d.id = c.id /\ d.tries = c.tries + 1
      BY <1>1 DEF Call
    <3>3. ~SentOnce
      BY <2>0, <2>4, TriesAssumption DEF AppliedAndRetried, SentOnce
    <3> HIDE DEF d
    <3> QED
      BY <2>0, <3>1, <3>2, <3>3
  <2> QED
    BY <2>2, <2>3, <2>4
<1>3. \A s \in Sessions : s # c.session => row'[s] = row[s]
  <2>1. \/ row' = row
        \/ row' = [row EXCEPT ![c.session] = Written(c)]
    BY DEF StoreAnswers, StoreFails, AnswerLost, AppliedAndRetried
  <2> QED
    BY <2>1 DEF TypeOK
<1>4. Clean' => /\ d.outcome = "ok" /\ StoreAnswers(c) /\ Permitted(c)
                /\ Clean
  BY <1>1, <1>2 DEF Clean
<1>5. CallFollows'
  BY <1>1, <1>2, <1>4 DEF AloneInv, CallFollows, Unwritten
<1>6. Clean' => Matches'
  <2> SUFFICES ASSUME Clean' PROVE Matches'
    OBVIOUS
  <2>1. row'[c.session] = Written(c)
    BY <1>1, <1>4 DEF StoreAnswers, TypeOK
  <2>2. /\ Written(c).status = StatusAfter(last)
        /\ Written(c).endedAt = (last.type = "ended")
        /\ Written(c).count = last.count
    BY <1>1, <1>4, AloneApplied
  <2> QED
    BY <1>1, <2>1, <2>2 DEF Matches, StatusAfter
<1>7. RowFollows'
  <2>1. \A s \in Sessions : s > last.session => row'[s].status = "absent"
    BY <1>1, <1>3 DEF AloneInv, RowFollows, Sessions
  <2> QED
    BY <1>1, <1>6, <2>1 DEF RowFollows
<1>8. Tracked'
  BY <1>1, <1>2 DEF AloneInv, Tracked
<1> QED
  BY <1>5, <1>7, <1>8 DEF AloneInv

\* The handler of the one call in flight ends.
LEMMA AloneReturn ==
    ASSUME TypeOK, AloneInv, OneAtATime, NEW c \in calls,
           StartReturns(c) \/ EndReturns(c) \/ HeartbeatReturns(c)
    PROVE  AloneInv'
<1>1. /\ calls = {c} /\ c.outcome # "pending"
      /\ calls' = {} /\ UNCHANGED <<row, last>> /\ CountError(c)
  BY DEF StartReturns, EndReturns, HeartbeatReturns, Answered, OneAtATime, delivered
<1>2. last.type # "none"
  BY <1>1 DEF AloneInv, Tracked
<1>3. Clean' => Clean
  BY <1>1 DEF Clean, CountError, TypeOK
<1>4. Clean' => Matches
  BY <1>1, <1>2, <1>3 DEF AloneInv, RowFollows, Unwritten
<1>5. CallFollows' /\ RowFollows'
  BY <1>1, <1>4 DEF AloneInv, RowFollows, CallFollows, Matches
<1>6. Tracked'
  <2>1. CASE StartReturns(c)
    BY <1>1, <1>2, <2>1 DEF StartReturns, HeartbeatStarts, AloneInv, Tracked,
                            CallFollows, Start
  <2>2. CASE EndReturns(c)
    BY <1>1, <1>2, <2>2 DEF EndReturns, Forgets, AloneInv, Tracked,
                            CallFollows, Start
  <2>3. CASE HeartbeatReturns(c)
    BY <1>1, <1>2, <2>3 DEF HeartbeatReturns, AloneInv, Tracked, CallFollows, Start
  <2> QED
    BY <2>1, <2>2, <2>3
<1> QED
  BY <1>5, <1>6 DEF AloneInv

\* A step between two moments without overlap keeps AloneInv.
LEMMA AloneStep ==
    ASSUME TypeOK, AloneInv, OneAtATime, OneAtATime', [Next]_vars
    PROVE  AloneInv'
<1>1. CASE UNCHANGED vars
  BY <1>1 DEF vars, delivered, AloneInv, RowFollows, CallFollows, Tracked, Clean,
              Matches, Permitted, Exists
<1> QED
  BY <1>1, AloneDeliver, AloneBeat, AloneStore, AloneReturn DEF Next

\* AloneInv holds initially: no event, no call, no row.
LEMMA AloneInit == Init => AloneInv
  BY DEF Init, AloneInv, RowFollows, CallFollows, Tracked, NoRow, NoEvent, Start

LEMMA AloneAlways == Spec /\ []OneAtATime => []AloneInv
<1>1. TypeOK /\ AloneInv /\ OneAtATime /\ OneAtATime' /\ [Next]_vars => AloneInv'
  BY AloneStep
<1> QED
  BY <1>1, AloneInit, TypeCorrect, PTL DEF Spec

\* As long as no two handlers overlap, a connected session is the current one
\* and its timer runs, whatever the store answers and however often the SDK
\* sends a request: the overlap of an end with a reconnect is what loses it.
THEOREM AloneTracked == Spec /\ []OneAtATime => []LiveSessionTracked
<1>1. AloneInv => LiveSessionTracked
  BY DEF AloneInv, Tracked, LiveSessionTracked, Quiet
<1> QED
  BY <1>1, AloneAlways, PTL

\* As long as no two handlers overlap no heartbeat is sent after the session was
\* reported ended.
THEOREM AloneNoTickAfterEnd == Spec /\ []OneAtATime => NoTickAfterEnd
<1>1. TypeOK /\ AloneInv /\ OneAtATime' /\ [Next]_vars
      => [last.type = "ended" => beats' = beats]_vars
  <2> SUFFICES ASSUME TypeOK, AloneInv, OneAtATime', [Next]_vars, last.type = "ended"
               PROVE  beats' = beats
    OBVIOUS
  <2>1. ~Tick /\ ~HandleHeartbeat
    BY AloneBeat DEF Start
  <2> QED
    BY <2>1 DEF Next, vars, HandleEvent, Deliver, StoreAnswers, StoreFails,
                AnswerLost, AppliedAndRetried, StoreOnly, StartReturns, EndReturns,
                HeartbeatReturns, Answered
<1> QED
  BY <1>1, AloneAlways, TypeCorrect, PTL DEF Spec, NoTickAfterEnd

\* As long as no two handlers overlap and no request is sent twice, the row of
\* the last session says what its last event said, until an error is reported.
THEOREM AloneRows ==
    ASSUME SentOnce
    PROVE  Spec /\ []OneAtATime => []RowMatchesLastEvent
<1>1. AloneInv => RowMatchesLastEvent
  BY DEF AloneInv, RowFollows, Matches, RowMatchesLastEvent, Quiet, Clean
<1> QED
  BY <1>1, AloneAlways, PTL

-----------------------------------------------------------------------------
(***************************************************************************)
(* The in-memory store: no two handlers overlap, and no call fails.        *)
(***************************************************************************)
Healthy == OneAtATime /\ Clean

MemoryInv == AloneInv /\ Healthy

\* A handler that is under way keeps the others out, and its call is applied.
LEMMA MemoryStep ==
    ASSUME TypeOK, MemoryInv, InMemory, [Next]_vars
    PROVE  Healthy'
<1> USE DEF MemoryInv, Healthy
<1>1. ASSUME NEW op, NEW e, Send(op, e), calls = {}, errors' = errors
      PROVE  Healthy'
  BY <1>1 DEF Send, OneAtATime, Clean
<1>2. ASSUME NEW e, HandleEvent(e) PROVE Healthy'
  <2>1. calls = {} /\ Send(e.type, e) /\ errors' = errors
    BY <1>2 DEF HandleEvent, OnSessionCreated, OnSessionReconnected, OnSessionEnded,
                LoopFree, Deliver
  <2> QED
    BY <1>1, <2>1
<1>3. CASE Tick \/ HandleHeartbeat
  <2>1. calls = {} /\ \E s : SendHeartbeat(s)
    BY <1>3 DEF Tick, HandleHeartbeat, LoopFree
  <2> QED
    BY <1>1, <2>1 DEF SendHeartbeat
<1>4. ASSUME NEW c \in calls, StoreAnswers(c) PROVE Healthy'
  <2>1. calls = {c} /\ c.outcome = "pending" /\ c \in Call /\ errors' = errors
    BY <1>4 DEF StoreAnswers, StoreOnly, OneAtATime, TypeOK
  <2>2. Permitted(c)
    BY <2>1, AloneApplied
  <2>3. calls' = {[c EXCEPT !.outcome = "ok"]}
    BY <1>4, <2>1, <2>2 DEF StoreAnswers, Settle
  <2> QED
    BY <2>1, <2>3 DEF OneAtATime, Clean, Call
<1>5. ASSUME NEW c \in calls, StoreFails(c) \/ AnswerLost(c) \/ AppliedAndRetried(c)
      PROVE  FALSE
  BY <1>5 DEF StoreFails, AnswerLost, AppliedAndRetried
<1>6. ASSUME NEW c \in calls, StartReturns(c) \/ EndReturns(c) \/ HeartbeatReturns(c)
      PROVE  Healthy'
  BY <1>6 DEF StartReturns, EndReturns, HeartbeatReturns, Answered, CountError,
              OneAtATime, Clean
<1>7. CASE UNCHANGED vars
  BY <1>7 DEF vars, OneAtATime, Clean
<1> QED
  BY <1>2, <1>3, <1>4, <1>5, <1>6, <1>7 DEF Next

LEMMA MemoryAlways ==
    ASSUME InMemory
    PROVE  Spec => []MemoryInv
<1>1. Init => MemoryInv
  BY AloneInit DEF Init, MemoryInv, Healthy, OneAtATime, Clean, SentOnce
<1>2. TypeOK /\ MemoryInv /\ [Next]_vars => MemoryInv'
  <2> SUFFICES ASSUME TypeOK, MemoryInv, [Next]_vars PROVE MemoryInv'
    OBVIOUS
  <2>1. Healthy'
    BY MemoryStep
  <2>2. AloneInv'
    BY <2>1, AloneStep DEF MemoryInv, Healthy
  <2> QED
    BY <2>1, <2>2 DEF MemoryInv
<1> QED
  BY <1>1, <1>2, TypeCorrect, PTL DEF Spec

\* With the in-memory store the row of the last session says what its last event
\* said, at every moment no handler is under way.
THEOREM MemoryRows ==
    ASSUME InMemory
    PROVE  Spec => []RowMatchesLastEvent
<1>1. SentOnce
  BY DEF SentOnce
<1>2. MemoryInv => OneAtATime
  BY DEF MemoryInv, Healthy
<1> QED
  BY <1>1, <1>2, MemoryAlways, AloneRows, PTL

\* With the in-memory store a connected session is the current one and its timer
\* runs, at every moment no handler is under way.
THEOREM MemoryTracked ==
    ASSUME InMemory
    PROVE  Spec => []LiveSessionTracked
<1>1. MemoryInv => OneAtATime
  BY DEF MemoryInv, Healthy
<1> QED
  BY <1>1, MemoryAlways, AloneTracked, PTL

\* With the in-memory store no heartbeat is sent after a session was reported
\* ended.
THEOREM MemoryNoTickAfterEnd ==
    ASSUME InMemory
    PROVE  Spec => NoTickAfterEnd
<1>1. MemoryInv => OneAtATime
  BY DEF MemoryInv, Healthy
<1> QED
  BY <1>1, MemoryAlways, AloneNoTickAfterEnd, PTL

\* With the in-memory store no write fails, so no error is ever reported.
THEOREM MemoryNoErrors ==
    ASSUME InMemory
    PROVE  Spec => [](errors = 0)
<1>1. MemoryInv => errors = 0
  BY DEF MemoryInv, Healthy, Clean
<1> QED
  BY <1>1, MemoryAlways, PTL

-----------------------------------------------------------------------------
(***************************************************************************)
(* Heartbeats, with either store.  A heartbeat call that was answered ok   *)
(* is accounted for in the row before its continuation passes it on, and a *)
(* row is only created where there was none, so no beat is ever taken back.*)
(***************************************************************************)
OkBeats(s) ==
    {c \in calls : c.op = "heartbeat" /\ c.outcome = "ok" /\ c.session = s}

BeatsInv ==
    /\ IsFiniteSet(calls)
    /\ \A s \in Sessions : told[s] + Cardinality(OkBeats(s)) <= row[s].beats
    /\ \A s \in Sessions : ~Exists(s) => row[s].beats = 0

\* How many answered heartbeats a session has in flight.
LEMMA OkBeatsFinite ==
    ASSUME IsFiniteSet(calls), NEW s
    PROVE  IsFiniteSet(OkBeats(s)) /\ Cardinality(OkBeats(s)) \in Nat
<1>1. IsFiniteSet(OkBeats(s))
  BY FS_Subset DEF OkBeats
<1> QED
  BY <1>1, FS_CardinalityType

\* The call that a step looks at, and what becomes of it.
LEMMA SettledCall ==
    ASSUME TypeOK, NEW c \in calls, NEW outcome \in {"ok", "failed"}
    PROVE  LET d == [c EXCEPT !.outcome = outcome] IN
           /\ d.op = c.op /\ d.session = c.session /\ d.outcome = outcome
  BY DEF TypeOK, Call

LEMMA RetriedCall ==
    ASSUME TypeOK, NEW c \in calls
    PROVE  LET d == [c EXCEPT !.tries = @ + 1] IN
           /\ d.op = c.op /\ d.session = c.session /\ d.outcome = c.outcome
  BY DEF TypeOK, Call

\* A write that is permitted leaves a row that exists, with one beat more if it
\* is a heartbeat.
LEMMA WrittenBeats ==
    ASSUME TypeOK, BeatsInv, NEW c \in calls, Permitted(c)
    PROVE  /\ Written(c).status # "absent"
           /\ c.op = "heartbeat" => Written(c).beats = row[c.session].beats + 1
           /\ c.op # "heartbeat" => Written(c).beats = row[c.session].beats
<1>1. c \in Call /\ c.session \in Sessions /\ row[c.session] \in Row
  BY DEF TypeOK, Call
<1>2. CASE c.op = "created"
  BY <1>1, <1>2 DEF Written, Permitted, BeatsInv
<1>3. CASE c.op = "reconnected"
  BY <1>1, <1>3 DEF Written, Revived, Row
<1>4. CASE c.op = "heartbeat"
  BY <1>1, <1>4 DEF Written, Row, Permitted, Exists
<1>5. CASE c.op = "ended"
  BY <1>1, <1>5 DEF Written, Row
<1> QED
  BY <1>1, <1>2, <1>3, <1>4, <1>5 DEF Call

\* A step that answers no heartbeat and passes none on.
LEMMA BeatsKept ==
    ASSUME TypeOK, TypeOK', BeatsInv, IsFiniteSet(calls'), told' = told,
           \A s \in Sessions : OkBeats(s)' = OkBeats(s),
           \A s \in Sessions : row'[s].beats >= row[s].beats,
           \A s \in Sessions : ~Exists(s)' => row'[s].beats = 0
    PROVE  BeatsInv'
<1>1. ASSUME NEW s \in Sessions
      PROVE  (told[s] + Cardinality(OkBeats(s)) <= row[s].beats)'
  <2>1. Cardinality(OkBeats(s)) \in Nat /\ told[s] \in Nat /\ row[s].beats \in Nat
    BY OkBeatsFinite DEF BeatsInv, TypeOK, Row
  <2>2. row'[s].beats \in Nat /\ Cardinality(OkBeats(s)') = Cardinality(OkBeats(s))
    BY DEF TypeOK, Row
  <2>3. told[s] + Cardinality(OkBeats(s)) <= row[s].beats
    BY DEF BeatsInv
  <2> QED
    BY <2>1, <2>2, <2>3
<1> QED
  BY <1>1 DEF BeatsInv

\* The store applies a call, with whatever answer, or loses it.
LEMMA BeatsStored ==
    ASSUME TypeOK, TypeOK', BeatsInv, NEW c \in calls,
           StoreAnswers(c) \/ StoreFails(c) \/ AnswerLost(c) \/ AppliedAndRetried(c)
    PROVE  BeatsInv'
<1>1. c \in Call /\ c.session \in Sessions /\ c.outcome = "pending" /\ told' = told
  BY DEF TypeOK, Call, StoreAnswers, StoreFails, AnswerLost, AppliedAndRetried,
         StoreOnly
<1>2. PICK d : /\ calls' = (calls \ {c}) \cup {d}
               /\ d.op = c.op /\ d.session = c.session
               /\ \/ /\ d.outcome = "ok" /\ Permitted(c)
                     /\ row' = [row EXCEPT ![c.session] = Written(c)]
                  \/ d.outcome \in {"pending", "failed"}
  <2>1. CASE AppliedAndRetried(c)
    BY <1>1, <2>1, RetriedCall DEF AppliedAndRetried
  <2>2. ASSUME NEW outcome \in {"ok", "failed"}, Settle(c, outcome)
        PROVE  LET e == [c EXCEPT !.outcome = outcome] IN
               /\ calls' = (calls \ {c}) \cup {e}
               /\ e.op = c.op /\ e.session = c.session /\ e.outcome = outcome
    BY <2>2, SettledCall DEF Settle
  <2>3. CASE StoreAnswers(c)
    BY <2>2, <2>3 DEF StoreAnswers
  <2>4. CASE StoreFails(c) \/ AnswerLost(c)
    BY <2>2, <2>4 DEF StoreFails, AnswerLost
  <2> QED
    BY <2>1, <2>3, <2>4
<1>3. IsFiniteSet(calls')
  BY <1>2, FS_AddElement, FS_RemoveElement DEF BeatsInv
<1>4. \/ row' = row
      \/ Permitted(c) /\ row' = [row EXCEPT ![c.session] = Written(c)]
  BY DEF StoreAnswers, StoreFails, AnswerLost, AppliedAndRetried
<1>5. \A s \in Sessions : /\ row'[s].beats >= row[s].beats
                          /\ ~Exists(s)' => row'[s].beats = 0
  <2>1. CASE row' = row
    BY <2>1 DEF BeatsInv, Exists, TypeOK, Row
  <2>2. CASE Permitted(c) /\ row' = [row EXCEPT ![c.session] = Written(c)]
    BY <1>1, <2>2, WrittenBeats DEF BeatsInv, Exists, TypeOK, Row
  <2> QED
    BY <1>4, <2>1, <2>2
<1>6. CASE ~(c.op = "heartbeat" /\ d.outcome = "ok")
  <2>1. \A s \in Sessions : OkBeats(s)' = OkBeats(s)
    BY <1>1, <1>2, <1>6 DEF OkBeats
  <2> QED
    BY <1>1, <1>3, <1>5, <2>1, BeatsKept
<1>7. CASE c.op = "heartbeat" /\ d.outcome = "ok"
  <2>1. Permitted(c) /\ row' = [row EXCEPT ![c.session] = Written(c)]
    BY <1>2, <1>7
  <2>2. ASSUME NEW s \in Sessions
        PROVE  told'[s] + Cardinality(OkBeats(s)') <= row'[s].beats
    <3>1. /\ Cardinality(OkBeats(s)) \in Nat /\ IsFiniteSet(OkBeats(s))
          /\ told[s] \in Nat /\ row[s].beats \in Nat
          /\ told[s] + Cardinality(OkBeats(s)) <= row[s].beats
      BY OkBeatsFinite DEF BeatsInv, TypeOK, Row
    <3>2. CASE s = c.session
      <4>1. OkBeats(s)' = OkBeats(s) \cup {d}
        BY <1>1, <1>2, <1>7, <3>2 DEF OkBeats
      <4>2. Cardinality(OkBeats(s) \cup {d}) <= Cardinality(OkBeats(s)) + 1
        <5>1. Cardinality(OkBeats(s) \cup {d}) =
                 IF d \in OkBeats(s) THEN Cardinality(OkBeats(s))
                                     ELSE Cardinality(OkBeats(s)) + 1
          BY <3>1, FS_AddElement
        <5> HIDE DEF OkBeats
        <5> QED
          BY <3>1, <5>1
      <4>3. Cardinality(OkBeats(s)') \in Nat
        BY <1>3, FS_Subset, FS_CardinalityType DEF OkBeats
      <4>4. row'[s].beats = row[s].beats + 1
        BY <1>1, <1>7, <2>1, <3>2, WrittenBeats DEF TypeOK
      <4> QED
        BY <1>1, <3>1, <4>1, <4>2, <4>3, <4>4
    <3>3. CASE s # c.session
      <4>1. OkBeats(s)' = OkBeats(s)
        BY <1>1, <1>2, <3>3 DEF OkBeats
      <4>2. row'[s] = row[s]
        BY <1>1, <2>1, <3>3 DEF TypeOK
      <4> QED
        BY <1>1, <3>1, <4>1, <4>2
    <3> QED
      BY <3>2, <3>3
  <2> QED
    BY <1>3, <1>5, <2>2 DEF BeatsInv
<1> QED
  BY <1>6, <1>7

\* A handler goes on: an answered heartbeat is passed on and leaves.
LEMMA BeatsReturned ==
    ASSUME TypeOK, TypeOK', BeatsInv, NEW c \in calls,
           StartReturns(c) \/ EndReturns(c) \/ HeartbeatReturns(c)
    PROVE  BeatsInv'
<1>1. /\ c \in Call /\ calls' = calls \ {c} /\ row' = row /\ IsFiniteSet(calls')
      /\ c.outcome # "pending"
  BY FS_RemoveElement
  DEF TypeOK, BeatsInv, StartReturns, EndReturns, HeartbeatReturns, Answered
<1>2. \A s \in Sessions : /\ row'[s].beats >= row[s].beats
                          /\ ~Exists(s)' => row'[s].beats = 0
  BY <1>1 DEF BeatsInv, Exists, TypeOK, Row
<1>3. CASE ~(c.op = "heartbeat" /\ c.outcome = "ok")
  <2>1. \A s \in Sessions : OkBeats(s)' = OkBeats(s)
    BY <1>1, <1>3 DEF OkBeats
  <2>2. told' = told
    BY <1>3 DEF StartReturns, EndReturns, HeartbeatReturns, Tells
  <2> QED
    BY <1>1, <1>2, <2>1, <2>2, BeatsKept
<1>4. CASE c.op = "heartbeat" /\ c.outcome = "ok"
  <2>1. told' = [told EXCEPT ![c.session] = @ + 1]
    BY <1>4 DEF StartReturns, EndReturns, HeartbeatReturns, Tells, Start
  <2>2. ASSUME NEW s \in Sessions
        PROVE  told'[s] + Cardinality(OkBeats(s)') <= row'[s].beats
    <3>1. /\ Cardinality(OkBeats(s)) \in Nat /\ IsFiniteSet(OkBeats(s))
          /\ told[s] \in Nat /\ row[s].beats \in Nat
          /\ told[s] + Cardinality(OkBeats(s)) <= row[s].beats
      BY OkBeatsFinite DEF BeatsInv, TypeOK, Row
    <3>2. CASE s = c.session
      <4>1. OkBeats(s)' = OkBeats(s) \ {c} /\ c \in OkBeats(s)
        BY <1>1, <1>4, <3>2 DEF OkBeats
      <4>2. Cardinality(OkBeats(s)') = Cardinality(OkBeats(s)) - 1
        BY <3>1, <4>1, FS_RemoveElement
      <4>3. told'[s] = told[s] + 1
        BY <2>1, <3>2 DEF TypeOK
      <4> QED
        BY <1>1, <3>1, <4>2, <4>3
    <3>3. CASE s # c.session
      <4>1. OkBeats(s)' = OkBeats(s)
        BY <1>1, <3>3 DEF OkBeats
      <4>2. told'[s] = told[s]
        BY <2>1, <3>3 DEF TypeOK
      <4> QED
        BY <1>1, <3>1, <4>1, <4>2
    <3> QED
      BY <3>2, <3>3
  <2> QED
    BY <1>1, <1>2, <2>2 DEF BeatsInv
<1> QED
  BY <1>3, <1>4

\* A handler begins: its call is not answered yet.
LEMMA BeatsSent ==
    ASSUME TypeOK, TypeOK', BeatsInv, NEW op, NEW e, Send(op, e),
           UNCHANGED <<row, told>>
    PROVE  BeatsInv'
<1> DEFINE d == [id |-> sent, op |-> op, session |-> e.session, count |-> e.count,
                 reason |-> e.reason, tries |-> 1, outcome |-> "pending"]
<1>1. calls' = calls \cup {d} /\ d.outcome = "pending"
  BY DEF Send
<1> HIDE DEF d
<1>2. IsFiniteSet(calls')
  BY <1>1, FS_AddElement DEF BeatsInv
<1>3. \A s \in Sessions : OkBeats(s)' = OkBeats(s)
  BY <1>1 DEF OkBeats
<1>4. \A s \in Sessions : /\ row'[s].beats >= row[s].beats
                          /\ ~Exists(s)' => row'[s].beats = 0
  BY DEF BeatsInv, Exists, TypeOK, Row
<1> QED
  BY <1>2, <1>3, <1>4, BeatsKept

\* Every heartbeat event downstream sees stands for a write the row received,
\* whatever the store does with the calls.
THEOREM BeatsPersisted == Spec => []HeartbeatsPersisted
<1>1. Init => BeatsInv
  <2> SUFFICES ASSUME Init
               PROVE  BeatsInv
    OBVIOUS
  <2>1. calls = {} /\ \A s \in Sessions : OkBeats(s) = {}
    BY DEF Init, OkBeats
  <2>2. \A s \in Sessions : told[s] = 0 /\ row[s].beats = 0
    BY DEF Init, NoRow
  <2> QED
    BY <2>1, <2>2, FS_EmptySet DEF BeatsInv
<1>2. TypeOK /\ TypeOK' /\ BeatsInv /\ [Next]_vars => BeatsInv'
  <2> SUFFICES ASSUME TypeOK, TypeOK', BeatsInv, [Next]_vars
               PROVE  BeatsInv'
    OBVIOUS
  <2>1. ASSUME NEW e \in NextEvents, HandleEvent(e)
        PROVE  BeatsInv'
    <3>1. UNCHANGED <<row, told>> /\ \E op : Send(op, e)
      BY <2>1 DEF HandleEvent, Deliver, OnSessionCreated, OnSessionReconnected,
                  OnSessionEnded
    <3> QED
      BY <3>1, BeatsSent
  <2>2. ASSUME NEW s, SendHeartbeat(s)
        PROVE  BeatsInv'
    <3>1. /\ UNCHANGED <<row, told>>
          /\ Send("heartbeat", [NoEvent EXCEPT !.session = s])
      BY <2>2 DEF SendHeartbeat
    <3> QED
      BY <3>1, BeatsSent
  <2>3. CASE UNCHANGED vars
    BY <2>3 DEF vars, BeatsInv, OkBeats, Exists
  <2> QED
    BY <2>1, <2>2, <2>3, BeatsStored, BeatsReturned DEF Next, Tick, HandleHeartbeat
<1>3. TypeOK /\ BeatsInv => HeartbeatsPersisted
  <2> SUFFICES ASSUME TypeOK, BeatsInv, NEW s \in Sessions
               PROVE  told[s] <= row[s].beats
    BY DEF HeartbeatsPersisted
  <2> QED
    BY OkBeatsFinite DEF BeatsInv, TypeOK, Row
<1> QED
  BY <1>1, <1>2, <1>3, TypeCorrect, PTL DEF Spec

-----------------------------------------------------------------------------
\* Each session that is not on record had an error of its own; and a call is only
\* answered ok when there is a row.
RecordInv ==
    /\ Cardinality(Unrecorded) <= errors
    /\ last.session \in Sessions \cup {0}
    /\ \A c \in calls : c.outcome = "ok" => Exists(c.session)

LEMMA UnrecordedFinite ==
    ASSUME TypeOK
    PROVE  IsFiniteSet(Unrecorded) /\ Cardinality(Unrecorded) \in Nat
<1>1. last.session \in Nat
  BY DEF TypeOK, Event
<1>2. IsFiniteSet(1..last.session)
  BY <1>1, FS_Interval
<1>3. Unrecorded \subseteq 1..last.session
  BY DEF Unrecorded
<1> QED
  BY <1>2, <1>3, FS_Subset, FS_CardinalityType

\* One session that is not on record is enough for an error.
LEMMA UnrecordedReported ==
    ASSUME TypeOK, SessionOnRecord, NEW s \in Unrecorded
    PROVE  errors > 0
<1>1. {s} \in SUBSET Unrecorded
  OBVIOUS
<1>2. Cardinality({s}) = 1 /\ Cardinality({s}) <= Cardinality(Unrecorded)
  BY <1>1, UnrecordedFinite, FS_Singleton, FS_Subset
<1> QED
  BY <1>2, UnrecordedFinite DEF SessionOnRecord, TypeOK

\* As long as no session joins them no error is needed.
LEMMA UnrecordedShrinks ==
    ASSUME TypeOK, TypeOK', Unrecorded' \subseteq Unrecorded, errors' = errors,
           Cardinality(Unrecorded) <= errors
    PROVE  Cardinality(Unrecorded)' <= errors'
<1>1. Cardinality(Unrecorded') <= Cardinality(Unrecorded)
  BY UnrecordedFinite, FS_Subset
<1>2. Cardinality(Unrecorded') \in Nat
  BY UnrecordedFinite, FS_Subset, FS_CardinalityType
<1> QED
  BY <1>1, <1>2, UnrecordedFinite DEF TypeOK

\* A failed call adds one session at most, and one error.
LEMMA UnrecordedGrows ==
    ASSUME TypeOK, NEW s, Unrecorded' \subseteq Unrecorded \cup {s}, errors' = errors + 1,
           Cardinality(Unrecorded) <= errors
    PROVE  Cardinality(Unrecorded)' <= errors'
<1> DEFINE more == Unrecorded \cup {s}
<1>1. IsFiniteSet(more) /\ Cardinality(more) <= Cardinality(Unrecorded) + 1
  BY UnrecordedFinite, FS_AddElement
<1> HIDE DEF more
<1>2. Unrecorded' \in SUBSET more
  BY DEF more
<1>3. Cardinality(Unrecorded') <= Cardinality(more) /\ Cardinality(Unrecorded') \in Nat
  BY <1>1, <1>2, FS_Subset, FS_CardinalityType
<1>4. Cardinality(more) \in Nat
  BY <1>1, FS_CardinalityType
<1> QED
  BY <1>1, <1>3, <1>4, UnrecordedFinite DEF TypeOK

\* No session is lost in silence, whatever the store does with its writes.
THEOREM OnRecord == Spec => []SessionOnRecord
<1>1. Init => RecordInv
  <2> SUFFICES ASSUME Init
               PROVE  RecordInv
    OBVIOUS
  <2>1. Unrecorded = {} /\ calls = {} /\ errors = 0 /\ last.session = 0
    BY DEF Init, NoEvent, Unrecorded
  <2> QED
    BY <2>1, FS_EmptySet DEF RecordInv
<1>2. TypeOK /\ TypeOK' /\ RecordInv /\ [Next]_vars => RecordInv'
  <2> SUFFICES ASSUME TypeOK, TypeOK', RecordInv, [Next]_vars
               PROVE  RecordInv'
    OBVIOUS
  <2>1. ASSUME NEW op, NEW e, Send(op, e), UNCHANGED <<row, errors>>,
               \A s \in 1..last'.session : s \in 1..last.session \/ s = e.session,
               last'.session \in Sessions \cup {0}
        PROVE  RecordInv'
    <3> DEFINE d == [id |-> sent, op |-> op, session |-> e.session,
                     count |-> e.count, reason |-> e.reason, tries |-> 1,
                     outcome |-> "pending"]
    <3>1. calls' = calls \cup {d} /\ d.outcome = "pending" /\ d.session = e.session
      BY <2>1 DEF Send
    <3> HIDE DEF d
    <3>2. Unrecorded' \subseteq Unrecorded
      BY <2>1, <3>1 DEF Unrecorded, Exists
    <3>3. \A c \in calls' : c.outcome = "ok" => Exists(c.session)'
      BY <2>1, <3>1 DEF RecordInv, Exists
    <3> QED
      BY <2>1, <3>2, <3>3, UnrecordedShrinks DEF RecordInv
  <2>2. ASSUME NEW e \in NextEvents, e.session \in Sessions, HandleEvent(e)
        PROVE  RecordInv'
    <3>1. UNCHANGED <<row, errors>> /\ last' = e /\ \E op : Send(op, e)
      BY <2>2 DEF HandleEvent, Deliver, OnSessionCreated, OnSessionReconnected,
                  OnSessionEnded
    <3>2. e.session \in {last.session, last.session + 1} /\ last.session \in Nat
      <4>1. last.type \in {"none", "created", "reconnected", "ended"}
        BY DEF TypeOK, Event
      <4> QED
        BY <4>1 DEF NextEvents, Created, Reconnected, Ended, Start, TypeOK, Event
    <3>3. \A s \in 1..last'.session : s \in 1..last.session \/ s = e.session
      BY <3>1, <3>2
    <3> QED
      BY <2>1, <2>2, <3>1, <3>3
  <2>3. ASSUME NEW s, SendHeartbeat(s)
        PROVE  RecordInv'
    <3>1. /\ UNCHANGED <<row, errors>> /\ last' = last
          /\ Send("heartbeat", [NoEvent EXCEPT !.session = s])
      BY <2>3 DEF SendHeartbeat, delivered
    <3> QED
      BY <2>1, <3>1 DEF RecordInv
  <2>4. ASSUME NEW c \in calls,
               StoreAnswers(c) \/ StoreFails(c) \/ AnswerLost(c) \/ AppliedAndRetried(c)
        PROVE  RecordInv'
    <3>1. c \in Call /\ c.session \in Sessions /\ UNCHANGED <<errors, last>>
      BY <2>4 DEF TypeOK, Call, StoreAnswers, StoreFails, AnswerLost,
                  AppliedAndRetried, StoreOnly, delivered
    <3>2. Permitted(c) => Written(c).status # "absent"
      <4>1. row[c.session] \in Row
        BY <3>1 DEF TypeOK
      <4>2. CASE c.op = "created"
        BY <4>2 DEF Written
      <4>3. CASE c.op = "reconnected"
        BY <4>1, <4>3 DEF Written, Revived, Row
      <4>4. CASE c.op = "heartbeat"
        BY <4>1, <4>4 DEF Written, Row, Permitted, Exists
      <4>5. CASE c.op = "ended"
        BY <4>1, <4>5 DEF Written, Row
      <4> QED
        BY <3>1, <4>2, <4>3, <4>4, <4>5 DEF Call
    <3>3. \A s \in Sessions : Exists(s) => Exists(s)'
      <4>1. \/ row' = row
            \/ Permitted(c) /\ row' = [row EXCEPT ![c.session] = Written(c)]
        BY <2>4 DEF StoreAnswers, StoreFails, AnswerLost, AppliedAndRetried
      <4> QED
        BY <3>1, <3>2, <4>1 DEF Exists, TypeOK
    <3>4. PICK d : /\ calls' = (calls \ {c}) \cup {d} /\ d.session = c.session
                   /\ d.outcome = "ok" => Exists(c.session)'
      <4>1. CASE AppliedAndRetried(c)
        BY <4>1, RetriedCall DEF AppliedAndRetried
      <4>2. CASE StoreFails(c) \/ AnswerLost(c)
        BY <4>2, SettledCall DEF StoreFails, AnswerLost, Settle
      <4>3. CASE StoreAnswers(c) /\ Permitted(c)
        <5>1. Settle(c, "ok") /\ Exists(c.session)'
          BY <3>1, <3>2, <4>3 DEF StoreAnswers, Exists, TypeOK
        <5> QED
          BY <5>1, SettledCall DEF Settle
      <4>4. CASE StoreAnswers(c) /\ ~Permitted(c)
        <5>1. Settle(c, "failed")
          BY <4>4 DEF StoreAnswers
        <5> QED
          BY <5>1, SettledCall DEF Settle
      <4> QED
        BY <2>4, <4>1, <4>2, <4>3, <4>4
    <3>5. \A b \in calls : b.session \in Sessions
      BY DEF TypeOK, Call
    <3>6. 1..last.session \subseteq Sessions
      BY BoundsAssumption DEF RecordInv, Sessions
    <3>7. Unrecorded' \subseteq Unrecorded
      BY <3>1, <3>3, <3>4, <3>6 DEF Unrecorded
    <3>8. \A b \in calls' : b.outcome = "ok" => Exists(b.session)'
      BY <3>1, <3>3, <3>4, <3>5 DEF RecordInv
    <3> QED
      BY <3>1, <3>7, <3>8, UnrecordedShrinks DEF RecordInv
  <2>5. ASSUME NEW c \in calls,
               StartReturns(c) \/ EndReturns(c) \/ HeartbeatReturns(c)
        PROVE  RecordInv'
    <3>1. /\ c \in Call /\ calls' = calls \ {c} /\ c.outcome # "pending"
          /\ row' = row /\ last' = last /\ CountError(c)
      BY <2>5 DEF TypeOK, StartReturns, EndReturns, HeartbeatReturns, Answered, delivered
    <3>2. c.session \in Sessions /\ c.outcome \in {"ok", "failed"} /\ errors \in Nat
      BY <3>1 DEF Call, TypeOK
    <3>3. \A r : Exists(r)' <=> Exists(r)
      BY <3>1 DEF Exists
    <3>4. \A b \in calls' : b.outcome = "ok" => Exists(b.session)'
      BY <3>1, <3>3 DEF RecordInv
    <3>5. CASE c.outcome = "ok"
      <4>1. Exists(c.session) /\ errors' = errors
        BY <3>1, <3>5 DEF RecordInv, CountError
      <4>2. Unrecorded' \subseteq Unrecorded
        BY <3>1, <3>3, <4>1 DEF Unrecorded
      <4> QED
        BY <3>1, <3>4, <4>1, <4>2, UnrecordedShrinks DEF RecordInv
    <3>6. CASE c.outcome = "failed"
      <4>1. errors' = errors + 1
        BY <3>1, <3>6 DEF CountError
      <4>2. Unrecorded' \subseteq Unrecorded \cup {c.session}
        BY <3>1, <3>3 DEF Unrecorded
      <4> QED
        BY <3>1, <3>4, <4>1, <4>2, UnrecordedGrows DEF RecordInv
    <3> QED
      BY <3>2, <3>5, <3>6
  <2>6. CASE UNCHANGED vars
    BY <2>6 DEF vars, delivered, RecordInv, Unrecorded, Exists
  <2> QED
    BY <2>2, <2>3, <2>4, <2>5, <2>6 DEF Next, Tick, HandleHeartbeat
<1>3. RecordInv => SessionOnRecord
  BY DEF RecordInv, SessionOnRecord
<1> QED
  BY <1>1, <1>2, <1>3, TypeCorrect, PTL DEF Spec
=============================================================================
