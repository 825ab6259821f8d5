-------------------------- MODULE MCGatewayServer --------------------------
(* The front door for TLC: deployments with at most two settings wrong.    *)
EXTENDS GatewayServer

MCGoodEnv ==
    [name \in EnvVars |->
        CASE name \in EnvStrings -> "text"
          [] name = "INGEST_PORT" -> 65535
          [] name = "INGEST_CHUNK_DURATION_MS" -> 1
          [] name = "INGEST_USE_IN_MEMORY_STORES" -> "1"]

MCGoodRecord ==
    [field \in StationFields |->
        CASE field \in StationStrings -> "text"
          [] field = "eStatus" -> "active"
          [] field = "ePrimaryIngestProtocol" -> "shoutcast"
          [] field = "eEncoderType" -> "butt"
          [] field = "nRetentionDays" -> 1
          [] field = "aFutureProtocolsEnabled" -> {"icecast"}]

\* What else a setting may be, with both sides of every limit.
EnvValues(name) ==
    CASE name \in EnvStrings -> {Unset, Blank}
      [] name = "INGEST_PORT" -> {Unset, Odd, 0, 65536}
      [] name = "INGEST_CHUNK_DURATION_MS" -> {Blank, Odd, 0}
      [] name = "INGEST_USE_IN_MEMORY_STORES" -> {Odd, "off"}

FieldValues(field) ==
    CASE field \in StationStrings -> {Blank, Odd}
      [] field = "eStatus" -> {Unset, "disabled"}
      [] field = "ePrimaryIngestProtocol" -> {Odd}
      [] field = "eEncoderType" -> {Unset}
      [] field = "nRetentionDays" -> {Odd, 0}
      [] field = "aFutureProtocolsEnabled" -> {Unset, {Odd}}

\* The variations of a setting, and of two of them.
Once(good, Values(_)) ==
    {good} \cup UNION {{[good EXCEPT ![n] = v] : v \in Values(n)} : n \in DOMAIN good}
Twice(good, Values(_)) ==
    UNION {Once(g, Values) : g \in Once(good, Values)}

Password == <<"p", ":", "q">>

Deployed(envs, kinds, records, secrets) ==
    [env: envs, kind: kinds, record: records, secret: secrets]

MCDeployments ==
    Deployed(Twice(MCGoodEnv, EnvValues), {"record"}, {MCGoodRecord}, {Password})
    \cup Deployed({MCGoodEnv}, {"record"}, Twice(MCGoodRecord, FieldValues), {Password})
    \cup Deployed(Once(MCGoodEnv, EnvValues), Kinds, Once(MCGoodRecord, FieldValues),
                  {Password})
    \cup Deployed({MCGoodEnv}, {"record"}, {MCGoodRecord}, {<<>>, <<"p">>})

MCAuths ==
    {[scheme |-> "none", text |-> <<>>], [scheme |-> "Bearer", text |-> Password]}
    \cup [scheme: {"Basic"},
          text: {<<":", "p", ":", "q">>, <<"s", ":", "p", ":", "q">>,
                 <<"p", ":", "q">>, <<"q">>, <<"p">>, <<":", "p">>, <<":">>}]

\* Absent, repeated, zero and malformed numbers.  At 96 kbps a buffer of 417
\* bytes lasts 34.75 ms, and one of a single byte no time at all.
MCHeaders ==
    [br: {<<0>>, <<Odd, 96>>, <<96, 320>>}, sr: {<<>>}, channels: {<<-1>>},
     type: {<<{"aac", "ogg"}>>}]
=============================================================================
