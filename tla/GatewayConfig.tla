--------------------------- MODULE GatewayConfig ---------------------------
(***************************************************************************)
(* The validation of the gateway's environment and of its station record   *)
(* (packages/config): which settings are reported as wrong.                *)
(*                                                                         *)
(* A setting is Unset, Blank, what it should be, or Odd: text that is not  *)
(* the number or the word asked for, or a value of another type.  Numbers  *)
(* stand for themselves.                                                   *)
(***************************************************************************)
EXTENDS Integers

CONSTANTS Unset, Blank, Odd

EnvStrings == {"INGEST_NODE_ID", "INGEST_CHUNK_BUCKET", "INGEST_SESSIONS_TABLE",
               "INGEST_CHUNKS_TABLE", "INGEST_STATIONS_TABLE", "AWS_REGION"}

EnvVars == EnvStrings \cup
    {"INGEST_PORT", "INGEST_CHUNK_DURATION_MS", "INGEST_USE_IN_MEMORY_STORES"}

\* The TCP ports a server can be told to listen on.
Ports == 1..65535

Truthy == {"1", "true", "yes", "on"}
Falsy == {"0", "false", "no", "off"}

\* fnRequireEnvString, fnRequireEnvPort, fnRequireEnvPositiveInt and
\* fnReadOptionalEnvBoolean.
EnvAccepts(name, value) ==
    /\ name \in EnvStrings => value \notin {Unset, Blank}
    /\ name = "INGEST_PORT" => value \in Ports
    /\ name = "INGEST_CHUNK_DURATION_MS" => value \in Nat \ {0}
    /\ name = "INGEST_USE_IN_MEMORY_STORES" =>
          value \in {Unset, Blank} \cup Truthy \cup Falsy

\* A plausible bug: the numbers are looked at once the strings are right.
EnvErrors_InTurns(env) ==
    LET wrong == {name \in EnvVars : ~EnvAccepts(name, env[name])} IN
    IF wrong \cap EnvStrings # {} THEN wrong \cap EnvStrings ELSE wrong

\* fnLoadGatewayEnv: every wrong variable, not the first one only.
EnvErrors(env) == {name \in EnvVars : ~EnvAccepts(name, env[name])}

-----------------------------------------------------------------------------
KnownProtocols == {"shoutcast", "icecast", "webrtc_whip"}
KnownStatuses == {"active", "disabled"}
KnownEncoderTypes == {"butt", "ffmpeg", "other"}

StationStrings == {"sStationId", "sName", "sSlug", "sIngestEndpoint",
                   "sCredentialSecretArn", "sCreatedAt", "sUpdatedAt"}

StationFields == StationStrings \cup
    {"eStatus", "ePrimaryIngestProtocol", "eEncoderType", "nRetentionDays",
     "aFutureProtocolsEnabled"}

\* fnRequireString, fnRequireEnum, fnRequirePositiveInt, fnReadProtocolArray,
\* and the rule that refuses a disabled station.
StationAccepts(field, value) ==
    /\ field \in StationStrings => value \notin {Unset, Blank, Odd}
    /\ field = "eStatus" => value \in KnownStatuses \ {"disabled"}
    /\ field = "ePrimaryIngestProtocol" => value \in KnownProtocols
    /\ field = "eEncoderType" => value \in KnownEncoderTypes
    /\ field = "nRetentionDays" => value \in Nat \ {0}
    /\ field = "aFutureProtocolsEnabled" =>
          value = Unset \/ (value \notin {Odd, Blank} /\ value \subseteq KnownProtocols)

\* fnValidateStationConfig of an object.
StationErrors(record) ==
    {field \in StationFields : ~StationAccepts(field, record[field])}
=============================================================================
