---------------------------- MODULE HealthRouter ----------------------------
(***************************************************************************)
(* The health routes (health/health-router.ts) and the tracker's reads     *)
(* they answer from.  Both routes only read; the times they add are left   *)
(* out.                                                                    *)
(***************************************************************************)
EXTENDS FiniteSets, Integers

\* Which handler takes the request; "none" leaves it to main.ts.  The targets
\* are "health" for /health, "station" for /health/stations/<id>, each with or
\* without a slash at its end.
HealthRoute(method, target) ==
    IF target \notin {"health", "station"} THEN "none"
    ELSE IF method # "GET" THEN "notAllowed"
    ELSE target

\* fnHandleGatewayHealth over fnGetAllHealth.
GatewayHealth(stations) ==
    [code |-> 200, stationCount |-> Cardinality(stations),
     status |-> IF \E h \in stations : h.status = "online" THEN "healthy"
                                                           ELSE "idle"]

\* fnHandleStationHealth: fnGetHealth copies the state, or finds none.
StationHealth(h) ==
    IF h.known THEN [code |-> 200, body |-> h] ELSE [code |-> 404, body |-> h]
=============================================================================
