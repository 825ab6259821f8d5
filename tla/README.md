# Verification of the ingest gateway

TLA+ models of `services/ingest-gateway`, the running part of this repository,
with the configuration it validates, and of the web shell. The gateway is the
process that accepts a radio station's Shoutcast stream, keeps one session
per broadcast across reconnects, cuts the audio into chunks, writes chunks and
session records to S3 and DynamoDB, and says on `/health` how ingest is doing.
TLC checks the models on small instances; TLAPS proves the main results for
every value of the constants.

Paths below are relative to the repository; `adapter:223` and the like are
lines of the file named in the section.

## 1. Inventory

| component | state it keeps | operations | talks to |
|---|---|---|---|
| `ShoutcastSourceAdapter` (`adapter/shoutcast-source-adapter.ts`) | config, ready flag, session id and clock (offset, sequence number, reconnects), the one active request, the ended flag of the leg | `fnConnect`, `fnDisconnect`, `fnHandleSourceRequest`, and the `data`, `end`, `error` listeners it attaches | credential resolver (await); frame, session and error callbacks |
| `IContributionAdapter` (`packages/contracts/src/ingest`) | - | the contract of any adapter: events and frames | - |
| `SessionManager` (`session/session-manager.ts`) | current session, heartbeat timer | `fnHandleEvent`, the timer's tick | `ISessionStore` (await); error and heartbeat callbacks |
| `DynamoSessionStore`, `InMemorySessionStore` | `live_sessions` rows | `fnCreate`, `fnReconnect`, `fnHeartbeat`, `fnEnd` | DynamoDB |
| `ChunkAssembler` (`chunk/chunk-assembler.ts`) | frame buffer, buffered duration, sequence number | `fnIngestFrame`, `fnFlushRemaining` | audio store, chunk store (two awaits); chunk and error callbacks |
| `S3AudioStore`, `DynamoChunkStore` and their in-memory forms | objects; `audio_chunks` rows | `fnPutChunk`; `fnCreate` | S3, DynamoDB |
| `IngestHealthTracker` (`health/ingest-health-tracker.ts`) | one record per station | `fnHandleSessionEvent`, `fnHandleChunkCompleted`, `fnHandleError`; reads | - |
| `main.ts` | the server's state | start-up from the environment to `listen`; request dispatch; wires the callbacks; `fnShutdown` on SIGTERM and SIGINT | everything above and below |
| health router (`health/health-router.ts`) | - | `/health`, `/health/stations/:id`; reads the tracker | tracker |
| Shoutcast helpers (`adapter/shoutcast-protocol.ts`) | - | credential, header defaults, codec, frame duration | - |
| configuration (`packages/config/src`) | - | validation of environment and station record | - |
| web shell (`apps/web/src/app`) | in-memory session; address, history | guards, routes, sign-in with redirect, sign-out | Angular router |
| Amplify backend, local validation script | declarations; a test driver | - | - |

What is hard here:

* **Interleaving.** Node runs one callback at a time, but every `await` lets
  others in, and `main.ts` awaits neither `fnHandleEvent` nor `fnIngestFrame`:
  handlers of successive events overlap, flushes of successive windows overlap,
  and store writes are applied in any order.
* **Stale state.** Code after an `await` uses fields other callbacks have
  changed: the slot of the adapter, the current ids and the timer of the
  manager.
* **Partial failure.** Two writes per chunk in two services, a lost answer to
  an unconditional `ADD`, a heartbeat to a row that was never created.
* **Long sequences.** One session over many legs: its clock, its sequence
  numbers, its reconnect count and its record must survive each end and start
  over with the next session.
* **Shutdown.** `process.exit` ends whatever is in flight.
* **Start-up.** Validation has stages, each of which should report everything at
  once; the port must not open before the adapter is ready.
* **Rounding.** The session clock is a sum of rounded durations.
* **Navigation.** What a visitor asked for travels through guards, the query, a
  sign-in and the browser's history.

`PROJECT.json` lists every such hazard at its line with the properties aimed at
it.

What makes each component correct:

* adapter: one source at a time; legs that start and end alternately, each
  reported once; one gapless timeline per session across legs; silence after
  `fnDisconnect`; a slot that is freed.
* manager and store: the record of the session says what its last event said;
  the timer runs exactly for a live session; what downstream health is told was
  written.
* assembler and stores: every frame in one window, windows disjoint and
  numbered once; metadata only for stored bytes; no silent loss; downstream told
  once, after both writes.
* tracker: it shows the source's state whatever late results arrive.
* whole gateway: session ended and audio kept at the exit; no error unheard.
* front door: what is served was validated, in one cycle of corrections; the
  credential alone decides; the clock keeps up with the audio.
* web shell: a guarded page is seen by who may; a sign-in ends where the visitor
  wanted to go; no circle of redirects.

## 2. Modules

`EXTENDS`/`INSTANCE` structure:

    ShoutcastSourceAdapter  -- Contract --> ContributionSession
      MCShoutcastSourceAdapter, ShoutcastSourceAdapterProofs
    SessionManager
      SessionManagerProofs
    ChunkAssembler          -- Archive --> AudioArchive
      ChunkAssemblerProofs
    IngestHealthTracker, HealthRouter
    IngestGateway = ContributionSession + SessionManager + ChunkAssembler
                    + IngestHealthTracker + HealthRouter + main.ts
      IngestGatewayProofs, with SessionManagerProofs and ChunkAssemblerProofs
    GatewayServer = GatewayConfig + ShoutcastProtocol + HealthRouter + main.ts
      MCGatewayServer, GatewayServerProofs
    WebShell
      WebShellProofs

**ShoutcastSourceAdapter.** The variables are the fields of the class
(`configured` = `oConfig # null`, `ready`, `session`, `offset`, `seqNo`,
`reconnects`, `active`, `endedFlag`), the progress of each request (`handler`),
what its stream will still deliver (`wire`), and the output (`events`,
`frames`). `fnHandleSourceRequest` is cut at its await: `AnswerUnavailable`,
`AnswerBusy`, `AnswerNoPassword`, `StartLookup` before; `LookupFails`,
`WrongPassword`, `Accept` after. `OnData`, `OnEnd`, `OnError` are the listeners.
`EncoderCloses` and `EncoderAborts` are the encoder's side: an error that
finds no listener is gone, an `end` waits for one. `ResolverYields` says whether
other callbacks may run during the lookup. With the resolver stub of
`main.ts:257` they cannot (it settles in a microtask); with one that does I/O,
which the stub stands in for, they can. Headers are reduced to what decides the
answer; a frame carries the request it came from in place of codec, rate and
channels.

**ContributionSession.** The abstract specification: `Begin`, `Resume`,
`Emit`, `Suspend`, `Close` over an open/closed session, its source, and the
two outputs. It has no counters or flags: the number of the next frame and its
offset are read off what was emitted. The mapping is `open <- session # 0`,
`source <- active`, `begun <- minted`.

**SessionManager.** `current`, `timer`; the calls in flight with their outcome
(`calls`); the rows. A handler up to its await is `HandleEvent` (one disjunct
per event type) or `SendHeartbeat` (from `Tick`, the interval callback, or
`HandleHeartbeat`, an event); the store applies a call in `StoreAnswers`
(condition included), or loses it (`StoreFails`) or its answer (`AnswerLost`);
`AppliedAndRetried` is the AWS SDK, which sends a request again when it got no
answer, `MaxTries` times in all (3 unless configured, and `main.ts` does not);
the continuations are `StartReturns`, `EndReturns`, `HeartbeatReturns`.
`InMemory` chooses the store: with the in-memory one `LoopFree` keeps every
other callback out until the call has returned, and `reconnect_count` is set
instead of added to. Events come as any adapter that meets the contract sends
them (`NextEvents`).

**ChunkAssembler.** `buffer`, `buffered`, `chunkSeq`; flights between `Cut`
(the synchronous part of `fnFlush`), the S3 put and the conditional DynamoDB
create; both stores; what was announced and what was reported. Writes fail
before or after being applied, and `Restart` models the process being stopped
and started: buffer and flights gone, stores kept. `feed` is where the adapter's
timeline stands; legs and sessions advance it (`Reconnect`, `NewSession`).
`flushed`, `ingested`, `born` only record the past.

**AudioArchive.** The abstract specification of the assembler, in which frames
are only numbers: `Accept` takes one into memory, `Store` gives a stretch of
consecutive held ones its metadata, `Report` names one in an error (its metadata
may have been written all the same), `Stop` loses what is held. There are no
windows, chunk numbers, keys, objects or flights. The mapping counts what was
ingested; buffer and flights are held, rows stored. The code
must take frames out once, whole and next to each other, and only a stop of the
process may lose any without an error.

**IngestHealthTracker.** Each handler as a function from the record it finds
to the one it leaves. **HealthRouter.** Which route a request takes, and the two
answers as functions of the tracker's records.

**IngestGateway.** `main.ts`: the callbacks route `ContributionSession`'s events
and frames to the manager, the assembler and the tracker, and `Signal`,
`SignalAgain`, `Exit` are `fnShutdown`. Once what it awaits is over,
`process.exit` runs in the next microtask, so nothing else happens (`ExitDue`).
`main.ts` connects the adapter once, so a process has one session.

**ShoutcastProtocol.** The helpers as operators: `ParseSourcePassword`,
`ParseIntHeader`, the codec, `ParseShoutcastHeaders`, and
`EstimateFrameDurationMs` in integers (`Math.round` rounds halves up). A password
is a sequence of characters, since its colons matter; a header is the list of
its values, each a number or text that is none.

**GatewayConfig.** `EnvErrors` and `StationErrors`: the settings a validation
reports. A setting is unset, blank, odd (not what is asked for) or its value.

**GatewayServer.** `fnMain` and the HTTP server. `EnvRefused`, `JsonRefused`,
`NotObjectRefused` and `FieldsRefused` are the ways a start fails, `StartsUp` and
`Listens` the two steps of one that succeeds (the adapter is ready before the port
is bound; validation, wiring and the call of `listen` run without another callback
in between, so they are one step), `ShutsDown` and `Stops` the end. `Corrects` is
the operator, who corrects exactly what the report named: a missing
`STATION_CONFIG_JSON` may become something that is no JSON, JSON that is no object,
or an object with wrong fields, since none of those was complained of yet. So the
four stages of the station's configuration can each cost a deployment, and
`fnValidateStationConfig` can fail twice in a row: its report on what is no object
names no field. `Handler` is the dispatch, `SourceCode` the order of
checks in `fnHandleSourceRequest`; `SourceAccepted` and `DataArrives` apply the
helpers to a leg's headers and buffers. It is a second view of the process, in
which the stores do not occur; `IngestGateway` has those, and takes the duration
of a frame as given.

**WebShell.** A navigation is `pending` until a guard sends it elsewhere
(`Redirected`) or its page is `Shown`; the visitor opens an address (`Visit`),
follows a link, goes back, signs in with any role, signs out. `asked` and `due`
only record what he wanted.

Operators named `X_Something` right before `X` are deliberately wrong versions
of `X`: with such a version in place of `X`, TLC refutes the property that
`PROJECT.json` lists for it. They are not used by any specification.

## 3. Model checking

Run `tlc -config <name>.cfg <module>`.

| cfg | module | shows |
|---|---|---|
| `AdapterYielding` | `MCShoutcastSourceAdapter` | `TimelineContiguous`, `ReconnectsCounted`, `NoDuplicateEnd`, `IdleIsReported` hold even when other callbacks run during the credential lookup |
| `AdapterStub` | `MCShoutcastSourceAdapter` | with the resolver of `main.ts`: `OneSource`, `SilentWhenDisconnected`, `SlotFreed`, and the refinement `ImplementsContract` |
| `SessionDynamo` | `SessionManager` | with overlapping, reordered, repeated and failing writes: `EndedIsForgotten`, `HeartbeatsPersisted`, `SessionOnRecord` |
| `SessionMemory` | `SessionManager` | with the in-memory store: `RowMatchesLastEvent`, `LiveSessionTracked`, `NoTickAfterEnd` |
| `ChunkStores` | `ChunkAssembler` | `RowHasObject`, `LossIsReported`, `ToldOnlyPersisted`, `WindowsDisjoint`, `FramesOnce`, `WindowsTight`, and the refinement `KeepsArchive` |
| `GatewayLocal` | `IngestGateway` | local validation mode: `EndedAtExit`, `AudioKeptAtExit`, `ChunksHaveSession`; the events satisfy the manager's module (`ManagerAsSpecified`) |
| `GatewayFaults` | `IngestGateway` | AWS stores that fail: `HealthMatchesSource`, `ErrorsShown`, `LastWindowKept`; the frames satisfy the assembler's module (`AssemblerAsSpecified`) |
| `GatewayServer` | `MCGatewayServer` | `EachComplaintOnce` (the variables all at once, the fields all at once, and no more failed starts than one for each kind of complaint), `SafeToServe`, `PasswordDecides`, `DriftBounded` |
| `WebShell` | `WebShell` | `GuardsHold`, `LandsWhereAsked`, `NavigationSettles` |

The modules that hold state check their `TypeOK` in one of these runs; those of
`IngestGateway` and of the web shell are proved only. The remaining configurations, three of them,
each end in a counterexample; they are the divergences of section 5.

Bounds. Three requests let one be active, one late and one refused; a second
reconnect needs three as well. Two frame durations, one of them zero, tell a
clock that advances from one that does not, and three frames reach from one leg
into the next. `SessionDynamo` has two sessions and four events with one
heartbeat: a create, an end, a reconnect or second create, and another end, all
in flight together, which is every pairwise overlap of handlers; more calls only
add pairs. `SessionMemory` is sequential and can afford three sessions and seven
events. `ChunkStores` has a window of 4 and frames of 0, 2 and 5: exactly full,
exceeded, final and empty windows; three frames give up to three flights, three
sessions a restart with a session on each side of it, or two restarts. `GatewayLocal` has three legs and four frames;
`GatewayFaults` has two legs and two frames of half a window, so that at the
signal a window is open, in flight or stored. Two tries of a request tell a
retry from none. `GatewayServer` starts from deployments with up to two settings
wrong, anywhere in the environment or in the record, and from every pair of one
wrong variable and one wrong field with every kind of `STATION_CONFIG_JSON`: a
check that hides another needs two. Numbers are on both sides of each limit.
Its credentials have the password alone, with a user name, with an empty one and
cut short at a colon; its bitrates come from absent, repeated, zero, negative
and malformed headers; two legs of three buffers carry the clock over a reconnect.
`WebShell` is finite and has no bound. The frame, event, beat, leg and signal
bounds are guards of the models; nothing else limits them.

Deadlock is checked for the adapter, which can always reconnect, for the front
door, which can always be started or corrected, and for the web shell. The other
models stop when their bounds are used up, or the process has exited.

Fairness is assumed for two liveness properties. `FairSpec` of the adapter has
weak fairness of the continuation of a lookup and of the delivery of a due `end`
or `error`: promises of the event loop and of a resolver that answers. `FairSpec`
of the web shell has weak fairness of the router's own step (`Redirected` or
`Shown`): guards here are synchronous, so a navigation that was begun goes on.
Encoders, operators, visitors and the frames are under no obligation.

## 4. Proofs

`tlapm <module>.tla` checks them. All are for arbitrary constants satisfying
the named assumptions of the modules.

`ShoutcastSourceAdapterProofs`:

* `TypeCorrect`: `Spec => []TypeOK`.
* `Timeline`: `TimelineContiguous`, for every resolver. `TimelineContiguous`
  alone is not inductive, since it says nothing of the fields the next frame is
  made from; `TimelineInv` adds that `offset` and `seqNo` continue the last
  frame of the current session, and that no session is ahead of `minted`.
* `CountsCorrect`, `EndsOnce`, `IdleReported`: `ReconnectsCounted`,
  `NoDuplicateEnd`, `IdleIsReported`, for every resolver, from one invariant,
  `StoryInv`: every event fits what was told of its session before it
  (`RightStory`), and counter, flag and current session agree with the last
  event (`StoryStands`).
* What a yielding resolver breaks, and by which interleaving. Three conditions on
  the lookups are kept by a resolver that does not yield (`UndisturbedAlways`),
  and each promise is proved, for every resolver, from the one it needs; TLC
  refutes it under the others.
  * `OneLookup`, no two lookups under way together, gives `OneSource`
    (`OneLookupOneSource`) and `Spec => Contract!Spec` (`OneLookupContract`), even
    if `fnDisconnect` runs or an encoder goes away during a lookup. `LegsInv`
    adds to `OneSource` that the active request was accepted and not reported
    ended (`ActiveIsOpen`), that a lookup is under way only with a free slot
    (`LookupFree`), and that a session without a source was reported
    (`SessionReported`). For the contract each action is mapped to an action of
    it or to a stuttering step, from `TypeOK`, `TimelineInv` and `LegsInv`.
  * `LookupsReady`, no `fnDisconnect` during a lookup, gives
    `SilentWhenDisconnected` (`ReadyLookupsSilent`), from `Quiet`: an adapter that
    is not ready has neither source nor session.
  * `LookupsHeard`, no encoder breaks off during its lookup, gives
    `SlotWillBeFreed` (`HeardLookupsFree`): an encoder that is gone and still
    holds the slot has its `end` or `error` ahead and the listener attached. It is
    the safety half of `SlotFreed`; the other half is fairness.
* `SingleSource`, `SilentAfterDisconnect`, `SlotsFree` and
  `AdapterImplementsContract`: the same four without a condition, assuming
  `~ResolverYields`. So everything else that is shown of the contract, the whole
  of `IngestGateway` included, is about this adapter.

`SessionManagerProofs`:

* `TypeCorrect`, and `EndedForgotten` (`EndedIsForgotten`, which is inductive
  with `TypeOK`) for both stores.
* `BeatsPersisted` (`HeartbeatsPersisted`), for both stores: what was told and
  the answered calls that are still to be told, counted together, never exceed
  the row's beats (`BeatsInv`).
* `OnRecord` (`SessionOnRecord`), for both stores: `RecordInv` adds that a call is
  only answered ok when its session has a row, so a session joins those without
  one (`Unrecorded`) only with a failed call, which counts an error of its own.
* `AloneRows`, `AloneTracked` and `AloneNoTickAfterEnd`, for both stores and with
  failing and repeated writes: `RowMatchesLastEvent`, `LiveSessionTracked` and
  `NoTickAfterEnd` hold as long as no handler is called while another awaits the
  store (`[]OneAtATime`; the first needs also that no request is sent twice).
  That hypothesis is the whole difference between the two stores: all three fail
  of the DynamoDB store because handlers overlap, not because writes fail. The
  invariant is `AloneInv`: what the row (`RowFollows`), the one call in flight
  (`CallFollows`), the timer and the current session (`Tracked`) must be, per kind
  of call and outcome.
* `MemoryRows`, `MemoryTracked`, `MemoryNoTickAfterEnd`, assuming `InMemory`, as
  consequences: that store settles before the next handler (`MemoryInv`). And
  `MemoryNoErrors`: none of its writes is refused.

`ChunkAssemblerProofs`: `TypeCorrect`, `RowsHaveObjects`, `ChunksDisjoint`,
`LossReported`, `ToldPersisted`, with and without faults, from one invariant
`ChunkInv`: numbers are used once per session (`Numbering`); object before row
before announcement (`Storing`, `Announcing`); and the buffer starts where the
session's last chunk ended and reaches to where the timeline stands
(`Windows`), without which `WindowsDisjoint` is not preserved by a cut.
`EachFrameOnce` (`FramesOnce`) needs that the buffer is the last stretch of the
input and that chunks and buffer lie apart in it (`FramesInv`); `ChunksTight`
(`WindowsTight`) that the buffer is never full.

`ArchiveKept` is `Spec => KeepsArchive`: `FlushRemaining`, `Reconnect`, `NewSession`
and a put that succeeds are stuttering steps of the archive, the frame `Receive`
takes in is accepted, a failed write reports its chunk and a completed one stores
it. That this takes a *stretch of held* frames out needs `ArchiveInv`: a chunk
whose object is being written has none yet (`PutOnce`), the frames of a chunk are
consecutive numbers, and chunks lie apart in the input (`FramesInv`).

`IngestGatewayProofs`, for any sources, durations, window and bounds:

* `ManagerBehind` and `AssemblerBehind`: `Spec => ManagerAsSpecified` and
  `Spec => AssemblerAsSpecified`. `Wired` says that the adapter's last event is
  the manager's; `Chunked` that the adapter's frames are the assembler's, where a
  chunk in flight is, and that no two chunks start together, so that the
  conditional create is never refused. The theorems of the two components then
  hold of them behind the wiring (`ManagerHolds`, `AssemblerHolds`), by
  instantiating their proof modules.
* `HealthCorrect` (`HealthMatchesSource`) and `ErrorsReachHealth`
  (`ErrorsShown`), for any stores, from `Shown`: the tracker's record has the
  source, the session and the count of the adapter's last event, and an error is
  not cleared, since the one session is created once.
* `ChunkOnHealth`, for any stores: the chunk `/health` shows is the one completed
  last (`LatestChunkShown`), and both stores hold it, by the assembler's
  `ToldPersisted`.
* `TypeCorrect`, and `OpenWindowKept` (`LastWindowKept`), for any stores, from
  `Closing`: a chunk that was cut is in flight, in a row or reported; a frame is
  buffered or in a chunk; after the signal nothing is buffered.
* `MemoryAudioKept`, `MemoryEnded`, `MemoryChunksHaveSession`
  (`AudioKeptAtExit`, `EndedAtExit`, `ChunksHaveSession`), assuming `InMemory`:
  with `MemoryInv` of the manager, the row says what the last event said whenever
  nothing is in flight (`RowSaysLast`). The first two fail of the AWS stores
  (section 5).
* How far the gateway falls short of these with any stores. `ExitDrops`: what one
  signal leaves neither stored nor reported was in flight and is not what
  `fnShutdown` awaits (`ExitDropsFlightsOnly`). `ExitEnds`: as long as no two
  handlers of the manager overlap, a record that is live at the exit has its end
  still under way, or a write failed (`EndOvertaken`). `RecordMissed`: when stored
  audio has no record of its session, a write of it is under way or `/health` shows
  an error (`RecordOrError`).
* `ArchiveBehind`: the gateway implements `AudioArchive`, from the frames the
  adapter emits to the rows in the table, for any stores: `ArchiveKept` behind the
  wiring, with `Chunked` for the way from the adapter to the assembler.

`GatewayServerProofs`, for any deployments, credentials, headers and buffers:
`TypeCorrect`; `DriftCorrect` (`DriftBounded`), from the rounding of one buffer;
`ServesSafely` (`SafeToServe`), with `ServeInv`: all checks hold while the process
serves; `ComplaintsOnce` (`EachComplaintOnce`), with `ComplaintInv`: what was
complained of once is right by now or the report has not been answered, and a
report is true of what was deployed; `PasswordCorrect` (`PasswordDecides`), from the
position of the first colon.

`WebShellProofs`: `TypeCorrect`; `GuardsCorrect` (`GuardsHold`);
`LandingCorrect` (`LandsWhereAsked`), with `LandingInv`: what the visitor asked
for is in the query of the login page or in the navigation under way; and
`OneRedirect`: no navigation is redirected twice (`RedirectedOnce`), the safety half
of `NavigationSettles`.

Only model-checked: the liveness properties `SlotFreed` and `NavigationSettles`,
since the prover does neither fairness nor ENABLED; what they rest on besides
fairness is proved (`SlotsFree`, `OneRedirect`). Everything else that a passing run
checks is proved. Where a property fails in general, the theorem has the
hypothesis under which it holds: in-memory stores or no overlapping handlers for
`NoTickAfterEnd`, `RowMatchesLastEvent` and `LiveSessionTracked`; in-memory stores
for `EndedAtExit`, `AudioKeptAtExit` and `ChunksHaveSession`; a resolver that does
not yield, or lookups that are not disturbed, for `OneSource`,
`SilentWhenDisconnected` and `ImplementsContract`.

## 5. Where code and text disagree

Each of these has a configuration that ends in a counterexample.

1. `SessionDynamoLiveSessionTracked`. A reconnect that arrives while the end of
   the leg before is being written sets the current session, and the end's
   continuation then clears it (`session-manager.ts:199`): the live session gets
   no more heartbeats, and no error says so.
2. `GatewayAwsEndedAtExit`. Nothing in `fnShutdown` awaits the write of the
   session's end (`main.ts:238-244`), so the record can stay live.
3. `GatewayAwsAudioKeptAtExit`. `fnShutdown` awaits the final flush only; a
   window that filled up shortly before may be lost.

The same models show more of the kind when a constant is changed; they have no
configuration of their own.

* With `ResolverYields = TRUE`, `OneSource` fails: the slot is checked before the
  credential lookup (`adapter:198`) and taken after it (`:297`) without looking
  again, so two encoders are accepted together and both append to one session,
  which `adapter:195-197` means to rule out. `SilentWhenDisconnected` fails (a lookup under
  way during `fnDisconnect` is accepted afterwards, `adapter:254`), and so does
  `SlotFreed` (an encoder that breaks off during the lookup becomes active
  before its listeners exist, `:297-363`, and every later request is refused).
* With `InMemory = FALSE`, `RowMatchesLastEvent` fails (an end write applied
  after the reconnect write of the next leg leaves a live session recorded as
  ended; and a reconnect write that the SDK sends twice is counted twice, since
  `ADD` (`session-store.ts:182`) is not idempotent) and so does `NoTickAfterEnd` (a slow create starts the timer of a
  session that is over, `session-manager.ts:151`).
* By reading: a chunk can span a reconnect, since `main.ts:154` does not flush at
  `session.ended` as `chunk-assembler.ts:112-114` asks; a record is written again
  after its end, on every reconnect, against `session-store.ts:76`; the status
  `reconnecting` is never assigned; and a reconnect does not restore the adapter
  type and protocol that the end cleared (`ingest-health-tracker.ts:102-105`),
  though they are null only "when offline" (`:32`).
* A source whose mount path is `/health` is answered 405 by the health router
  (`Handler`), against `docs/BUTT-OPERATOR-SETUP.md:35-37`: "The ingest gateway
  accepts any mount path on a SOURCE request".
* `SOURCE_PASSWORD` is not checked at the start: without it the gateway starts,
  is healthy, and answers every source with credentials 500 (`SourceCode`).
* A station whose primary protocol is `icecast` or `webrtc_whip` validates
  (`StationAccepts`) and is served by the Shoutcast adapter.
* Signing out leaves the guarded page on the screen (`SignOut`).

## 6. Not modelled

* The detail of conversions: Base64, `parseInt`, the search in the content type,
  the rendering of `/health`, and the layout of object keys and items with the
  GSI copies of the status. The models keep what they decide.
* Wall-clock times: chunk start and end are offsets on the session clock. That
  this clock lags the wall clock after a dropout is outside the models.
* Multi-station operation: the process serves one station.
* A crash of the whole gateway is modelled for the chunks (`Restart`), not for
  session records: the code has no recovery for those.
* The pages of the web shell behind the guards, which are placeholders; the
  Amplify backend, which is declarative; `validate-local-e2e.mjs`, which is a
  test.

What could follow: the overlap query of `DATA-MODEL.md:217-230` over several
sessions, once a reader of the chunks exists in the code.
