--------------------------- MODULE GatewayServer ---------------------------
(***************************************************************************)
(* The front door of the gateway: how main.ts starts, which handler gets   *)
(* an HTTP request, and what a source request with its headers and buffers *)
(* becomes.                                                                *)
(*                                                                         *)
(* A start validates what the operator deployed and fails with a report,   *)
(* or binds the port; the operator corrects what was reported and starts   *)
(* again.  fnHandleSourceRequest is one step here: the resolver of main.ts *)
(* settles in a microtask.  What becomes of the frames is IngestGateway's. *)
(***************************************************************************)
EXTENDS GatewayConfig, ShoutcastProtocol, HealthRouter

CONSTANTS
    Deployments, \* what the operator may have deployed at first
    GoodEnv,     \* what the operator corrects a variable to
    GoodRecord,  \* what the operator corrects a field to
    Methods, Targets, \* the request lines
    Auths,       \* the Authorization headers
    Headers,     \* the other headers
    BufferSizes, \* the sizes of the buffers a source sends
    MaxLegs,     \* bound: source connections of one process
    MaxFrames    \* bound: buffers in one leg

\* STATION_CONFIG_JSON: unset or empty, not JSON, JSON of something that is no
\* object, or of a record.
Kinds == {"unset", "notJson", "notObject", "record"}

ASSUME GoodAssumption ==
    /\ EnvErrors(GoodEnv) = {} /\ StationErrors(GoodRecord) = {}
    /\ DOMAIN GoodEnv = EnvVars /\ DOMAIN GoodRecord = StationFields
ASSUME DeploymentsAssumption ==
    \A d \in Deployments : d.kind \in Kinds /\ d.secret \in Seq(STRING)
ASSUME AuthsAssumption == \A auth \in Auths : auth.text \in Seq(STRING)
ASSUME BuffersAssumption == BufferSizes \subseteq Nat

VARIABLES
    env,      \* the environment variables of GatewayConfig
    kind,     \* what STATION_CONFIG_JSON is
    record,   \* the station record in it
    secret,   \* SOURCE_PASSWORD, empty when unset
    stage,    \* of the process
    report,   \* what the latest failed start said
    failures, \* how often each complaint was made since the last start that went well
    ready,    \* the adapter's oConfig and bReady
    active,   \* the adapter's oActiveRequest # null
    legs,     \* the source connections of this process, all of one session
    clock,    \* the adapter's nOffsetMs
    answer    \* the response given by this step, if any

setup == <<env, kind, record, secret>>
deploying == <<setup, report, failures>>
serving == <<ready, active, legs, clock, answer>>
vars == <<deploying, stage, serving>>

\* Between listen and its callback the server is "binding"; fnShutdown runs in
\* "stopping".
Stages == {"down", "failed", "binding", "listening", "stopping"}

\* What a failed start complains of: variables, STATION_CONFIG_JSON being of the
\* wrong kind, or fields of the record in it.  Each is a throw of its own.
Complaints == {"env"} \cup Kinds
Leg == [info: SourceInfo, from: Nat, bytes: Nat, ms: Nat, frames: Nat]
NoReport == [at |-> "none", wrong |-> {}]
NoAnswer == [by |-> "none", code |-> 0]

\* Shapes; among others, whatever the headers say a leg has a bitrate to
\* divide by (shoutcast-protocol.ts:75-76: "fall back to safe defaults").
TypeOK ==
    /\ kind \in Kinds
    /\ secret \in Seq(STRING)
    /\ stage \in Stages
    /\ report.at \in Complaints \cup {"none"}
    /\ stage = "failed" => report.at # "none"
    /\ failures \in [Complaints -> Nat]
    /\ ready \in BOOLEAN
    /\ active \in BOOLEAN
    /\ legs \in Seq(Leg)
    /\ active => legs # <<>>
    /\ clock \in Nat
    /\ answer.code \in {0, 200, 401, 404, 405, 409, 500, 503}

Init ==
    /\ \E d \in Deployments :
          env = d.env /\ kind = d.kind /\ record = d.record /\ secret = d.secret
    /\ stage = "down"
    /\ report = NoReport
    /\ failures = [c \in Complaints |-> 0]
    /\ ready = FALSE /\ active = FALSE
    /\ legs = <<>> /\ clock = 0
    /\ answer = NoAnswer

-----------------------------------------------------------------------------
\* fnMain.

\* fnMain rejects, and the process exits with code 1.
Refused(complaint, wrong) ==
    /\ stage = "down"
    /\ stage' = "failed"
    /\ report' = [at |-> complaint, wrong |-> wrong]
    /\ failures' = [failures EXCEPT ![complaint] = @ + 1]
    /\ UNCHANGED <<setup, serving>>

EnvRefused ==
    /\ EnvErrors(env) # {}
    /\ Refused("env", EnvErrors(env))

\* fnLoadStationConfigStub throws, of one of two things.
JsonRefused ==
    /\ EnvErrors(env) = {}
    /\ kind \in {"unset", "notJson"}
    /\ Refused(kind, {})

\* fnValidateStationConfig returns at once: no field is looked at, and the report
\* names none.
NotObjectRefused ==
    /\ EnvErrors(env) = {}
    /\ kind = "notObject"
    /\ Refused(kind, {})

FieldsRefused ==
    /\ EnvErrors(env) = {}
    /\ kind = "record" /\ StationErrors(record) # {}
    /\ Refused(kind, StationErrors(record))

\* A plausible bug: the server is opened before the adapter has its config.
StartsUp_Unconnected ==
    /\ stage = "down"
    /\ EnvErrors(env) = {}
    /\ kind = "record" /\ StationErrors(record) = {}
    /\ stage' = "binding"
    /\ report' = NoReport /\ failures' = [c \in Complaints |-> 0]
    /\ UNCHANGED <<setup, serving>>

\* Components are built and wired, fnConnect hands the adapter its config, and
\* the server is asked to listen.
StartsUp ==
    /\ stage = "down"
    /\ EnvErrors(env) = {}
    /\ kind = "record" /\ StationErrors(record) = {}
    /\ stage' = "binding"
    /\ report' = NoReport /\ failures' = [c \in Complaints |-> 0]
    /\ ready' = TRUE
    /\ UNCHANGED <<setup, active, legs, clock, answer>>

Listens ==
    /\ stage = "binding"
    /\ stage' = "listening"
    /\ UNCHANGED <<deploying, serving>>

\* fnShutdown: no connection is accepted any more, and fnDisconnect empties the
\* adapter; what was connected before may still send its request.
ShutsDown ==
    /\ stage \in {"binding", "listening"}
    /\ stage' = "stopping"
    /\ ready' = FALSE /\ active' = FALSE
    /\ clock' = 0
    /\ answer' = NoAnswer
    /\ UNCHANGED <<deploying, legs>>

\* The process is gone: the port was taken, it has shut down, it crashed.
Stops ==
    /\ stage \in {"binding", "listening", "stopping"}
    /\ stage' = "down"
    /\ ready' = FALSE /\ active' = FALSE
    /\ legs' = <<>> /\ clock' = 0
    /\ answer' = NoAnswer
    /\ UNCHANGED deploying

\* The operator corrects everything the report named, and nothing else: what is
\* now set may be no JSON, what is now JSON no object, and what is now an object
\* has whatever fields the operator thinks right.
Corrected(old, good) ==
    [name \in DOMAIN good |-> IF name \in report.wrong THEN good[name] ELSE old[name]]

KindsAfter(complaint) ==
    CASE complaint = "env" -> {kind}
      [] complaint = "unset" -> {"notJson", "notObject", "record"}
      [] complaint = "notJson" -> {"notObject", "record"}
      [] complaint \in {"notObject", "record"} -> {"record"}

Corrects ==
    /\ stage = "failed"
    /\ stage' = "down"
    /\ env' = IF report.at = "env" THEN Corrected(env, GoodEnv) ELSE env
    /\ kind' \in KindsAfter(report.at)
    /\ record' = IF report.at = "record" THEN Corrected(record, GoodRecord) ELSE record
    /\ UNCHANGED <<secret, report, failures, serving>>

-----------------------------------------------------------------------------
\* The HTTP server: health routes first, then SOURCE on any path and PUT on
\* /stream, which go to the adapter.
Handler(method, target) ==
    IF HealthRoute(method, target) # "none" THEN "router"
    ELSE IF method = "SOURCE" \/ (method = "PUT" /\ target = "stream") THEN "adapter"
    ELSE "server"

\* The tracker has a state for the station once a session was created.
HealthCode(method, target) ==
    IF HealthRoute(method, target) = "notAllowed" THEN 405
    ELSE IF HealthRoute(method, target) = "station" /\ legs = <<>> THEN 404
    ELSE 200

Serves == stage \in {"listening", "stopping"}

AnswersItself ==
    /\ Serves
    /\ \E method \in Methods, target \in Targets :
          /\ Handler(method, target) # "adapter"
          /\ answer' = [by |-> Handler(method, target),
                        code |-> IF Handler(method, target) = "router"
                                 THEN HealthCode(method, target) ELSE 404]
    /\ UNCHANGED <<deploying, stage, ready, active, legs, clock>>

\* The answer of fnHandleSourceRequest, its checks in their order.  An unset or
\* empty SOURCE_PASSWORD makes the resolver throw.
SourceCode(auth) ==
    IF ~ready THEN 503
    ELSE IF active THEN 409
    ELSE IF ParseSourcePassword(auth) = <<>> THEN 401
    ELSE IF secret = <<>> THEN 500
    ELSE IF Head(ParseSourcePassword(auth)) # secret THEN 401
    ELSE 200

SourceArrives(auth) ==
    /\ Serves
    /\ \E method \in Methods, target \in Targets : Handler(method, target) = "adapter"
    /\ answer' = [by |-> "adapter", code |-> SourceCode(auth), auth |-> auth]

SourceRefused ==
    /\ \E auth \in Auths : SourceArrives(auth) /\ SourceCode(auth) # 200
    /\ UNCHANGED <<deploying, stage, ready, active, legs, clock>>

SourceAccepted ==
    /\ Len(legs) < MaxLegs
    /\ \E auth \in Auths : SourceArrives(auth) /\ SourceCode(auth) = 200
    /\ \E headers \in Headers :
          legs' = Append(legs, [info |-> ParseShoutcastHeaders(headers),
                                from |-> clock, bytes |-> 0, ms |-> 0, frames |-> 0])
    /\ active' = TRUE
    /\ UNCHANGED <<deploying, stage, ready, clock>>

Latest == legs[Len(legs)]

\* How long the data listener takes a buffer of a leg to be.
Lasts(leg, bytes) == EstimateFrameDurationMs(bytes, leg.info.bitrate)

Extended(leg, bytes) ==
    [info |-> leg.info, from |-> leg.from, bytes |-> leg.bytes + bytes,
     ms |-> leg.ms + Lasts(leg, bytes), frames |-> leg.frames + 1]

\* The data listener: a buffer becomes a frame of the length its size suggests.
DataArrives ==
    /\ active
    /\ Latest.frames < MaxFrames
    /\ \E bytes \in BufferSizes :
          /\ legs' = [legs EXCEPT ![Len(legs)] = Extended(Latest, bytes)]
          /\ clock' = clock + Lasts(Latest, bytes)
    /\ answer' = NoAnswer
    /\ UNCHANGED <<deploying, stage, ready, active>>

\* The end and error listeners: the encoder went.
SourceLeaves ==
    /\ active
    /\ active' = FALSE
    /\ answer' = NoAnswer
    /\ UNCHANGED <<deploying, stage, ready, legs, clock>>

Next ==
    \/ EnvRefused \/ JsonRefused \/ NotObjectRefused \/ FieldsRefused
    \/ StartsUp \/ Listens \/ ShutsDown \/ Stops \/ Corrects
    \/ AnswersItself \/ SourceRefused \/ SourceAccepted
    \/ DataArrives \/ SourceLeaves

Spec == Init /\ [][Next]_vars

-----------------------------------------------------------------------------
\* No complaint is made twice to an operator who corrects what was reported: all
\* variables are reported at once (gateway-env.ts:45-47: "so operators can fix
\* all issues in one deployment cycle rather than one at a time"), and so are all
\* fields (station-config.ts:103), after which the next start goes well.  The
\* station's checks stop short three times before they look at the fields
\* (main.ts:65-75, station-config.ts:44-46): a record that was no object is
\* refused a second time when its fields are wrong, and not a third time.
EachComplaintOnce ==
    /\ \A c \in Complaints : failures[c] <= 1
    /\ stage = "down" /\ failures["record"] > 0 =>
           EnvErrors(env) = {} /\ kind = "record" /\ StationErrors(record) = {}

\* A gateway that serves has what its components need: a port, a window that a
\* chunk can fill and an enabled station; and until it shuts down its adapter is
\* ready, so that no source is turned away with 503 (main.ts:17-23;
\* station-config.ts:97).
SafeToServe ==
    stage \in {"binding", "listening", "stopping"} =>
        /\ env["INGEST_PORT"] \in Ports
        /\ env["INGEST_CHUNK_DURATION_MS"] > 0
        /\ kind = "record"
        /\ record["eStatus"] = "active"
        /\ stage # "stopping" => ready /\ answer.code # 503

\* The header carries the password: after a user name without a colon and the
\* colon, or alone when the password has no colon.
Carries(auth, password) ==
    /\ auth.scheme = "Basic"
    /\ \/ auth.text = password /\ Colons(password) = {}
       \/ \E i \in Colons(auth.text) :
             /\ \A j \in Colons(auth.text) : i <= j
             /\ Len(auth.text) = i + Len(password)
             /\ \A k \in 1..Len(password) : auth.text[i + k] = password[k]

\* The credential alone decides between 200 and 401: who is let in carried the
\* station's password, and who carried it is not called unauthorized, whatever
\* user name stands before it and whatever colons are in it
\* (shoutcast-protocol.ts:43-50: "We accept both").
PasswordDecides ==
    answer.by = "adapter" =>
        /\ answer.code = 200 => Carries(answer.auth, secret)
        /\ answer.code = 401 => ~Carries(answer.auth, secret)

\* Over a leg the rounded durations differ from the length its bytes have at
\* its bitrate by half a millisecond per buffer at most.
KeepsUp(leg) ==
    LET drift == leg.info.bitrate * leg.ms - 8 * leg.bytes IN
    /\ 2 * drift <= leg.info.bitrate * leg.frames
    /\ -(2 * drift) <= leg.info.bitrate * leg.frames

\* The session clock keeps up with the audio: in every leg it drifts by half a
\* millisecond per buffer at most, and each leg begins where the one before
\* ended (shoutcast-protocol.ts:121-123: "sub-millisecond drift accumulates").
DriftBounded ==
    /\ \A i \in 1..Len(legs) : KeepsUp(legs[i])
    /\ \A i \in 1..Len(legs) - 1 : legs[i].from + legs[i].ms = legs[i + 1].from
    /\ legs # <<>> /\ stage # "stopping" => Latest.from + Latest.ms = clock
=============================================================================
