# TLA+ models of the TobsDB Rust client

The repository has two Rust client bindings for TobsDB, a document database
that is reached over one WebSocket connection:

- the generic client `src/tools/client/rust/src/` (`lib.rs`, `errors.rs`,
  `types.rs`);
- the legacy client `src/client/rust/src/lib.rs`, with untyped JSON maps.

Both clients have the same state machine; the legacy `query` calls a
helper `require_conn` for steps 1 and 2 below. A `Tobsdb` value holds
`conn: Option<WebSocketStream>`:

- `new` starts with `conn: None`.
- `connect` returns at once if `conn` is `Some`. Otherwise it awaits
  `connect_async`; a `tdb-error` response header or an error gives
  `ConnFailed`.
- `disconnect` takes `conn` and awaits `close(..)`, then unwraps the result.
- `query` is private and runs these steps:
  1. it calls `connect`;
  2. it checks `is_none`, which gives `Disconnected`;
  3. it builds the JSON envelope `{action, table, data, where}`;
  4. it awaits `send`; an error gives `QueryFailed`;
  5. it awaits `conn.next()`. A frame is decoded with
     `from_str(..).unwrap()`; the end of the stream gives `NoResponse`.
- The eight public wrappers (`create` .. `delete_many`) call `query` with an
  action name, and with `data` and `where` either `Some` or `None`.

The server and the transport are not in the repository.

## Modules

| module | models |
|---|---|
| `TobsdbWrappers` | the eight wrappers as data: the action names, which actions send `data` and which send `where`, for the generic client (`GenericDataActions`, `GenericWhereActions`) and for the legacy client (`LegacyDataActions`, `LegacyWhereActions`). It also holds the spec's table (`SpecDataActions`, `SpecWhereActions`), which is used only by a property. |
| `TobsdbClient` | one client, its connections, and the server and link at the other end of each connection. |
| `TobsdbSession` | what a client promises its caller: a connection is held or not, one call at a time, and each call's outcome (Ok with its own answer, an error of the kinds its state allows, a decode abort, or the caller's drop). |
| `TobsdbRefinement` | the refinement mapping from `TobsdbClient` to `TobsdbSession`, and the property `SessionSafety`. |
| `TobsdbLegacy` | the legacy client, translated from its own source (`require_conn`, its `query`, `connect`, `disconnect`), in the environment of `TobsdbClient`; the property `ImplementsClient`. |
| `MC_TobsdbClient`, `MC_TobsdbLegacy` | the model values for TLC: the fault sets. |
| `TobsdbClientProofs`, `TobsdbPanicProofs`, `TobsdbEnvelopeProofs`, `TobsdbRefinementProofs`, `TobsdbLegacyProofs` | the TLAPS proofs. |

### State of `TobsdbClient`

| variable | meaning | in the code |
|---|---|---|
| `conn` | the stored connection, with 0 meaning `None` | `self.conn` |
| `nconns` | connections opened so far, each numbered | the successful `connect_async` calls |
| `srv[c]` | the server end of connection c: `none`, `open`, `closing` (a Close frame is queued behind its responses) or `gone` (the link broke) | the server and the transport |
| `dead[c]` | tungstenite has seen that c has ended | the stream's internal state |
| `toServer[c]`, `toClient[c]` | frames in flight | the socket |
| `pc`, `call` | the await point the user's pending call is suspended at, and its arguments | the future of `connect`, `query` or `disconnect` |
| `ret` | the result of the last call | the returned `Result` |
| `nreq` | the number of queries started | none in the code |

A request carries `id`, the number of the query that sent it. A response
carries `for`, the id of the request it answers. Neither field is sent by
the code. They are ghost fields that let a property say which call a frame
belongs to.

### Actions of `TobsdbClient`

Each action is one await point of a handler, with everything the handler
does up to the next await point:

- `Connect`: `connect` called by the user.
- `Query(a)`: the wrapper for action `a` calls `query`, which then calls
  `connect`.
- `HandshakeOk` and `HandshakeFail`: the end of `connect_async`. A handshake
  started by `query` goes on to the send.
- `Send`: the envelope is sent.
- `Receive`: `next()` returns, and the frame is decoded.
- `Disconnect` and `CloseDone`: `take()`, and the end of `close()`.
- `Cancel`: the caller's timeout drops the future at any of its awaits.
  The spec (section 5) tells callers to add such a timeout. What the drop
  leaves depends on the await: during the handshake nothing is stored;
  during `send` the frame may already have been fed to the sink and is then
  written later; during `next()` the answer stays in the stream; during
  `close()` the connection is already taken and is dropped.
- `ServerRespond`, `ServerClose` and `LinkFail`: the environment.

A panic (an `unwrap` on `Err`) is `pc = "crashed"`: the task has ended, so
the state has no successor. That is why every run says
`CHECK_DEADLOCK FALSE`.

The `Disconnected` branch of `query` cannot be reached: after
`connect().await?` returns Ok, `conn` is `Some`. The model has no action for
it. `Query` goes to the handshake when `conn` is 0 and straight to the send
otherwise, and `HandshakeOk` stores the connection before the send.

## Properties and runs

| run | faults, bounds | checks | result |
|---|---|---|---|
| `client_faults` | handshake, close, link; 4 calls, 3 connections | TypeOK, ResponseMatchesRequest, SingleOutstanding, CallReturns | pass |
| `client_timeouts` | all four fault kinds, caller timeouts included; 3 calls, 2 connections | CallReturns | pass |
| `stale_response_after_timeout` | timeout only; 2 calls, 1 connection | ResponseMatchesRequest | violated |
| `close_frame_panics` | close only; 1 call | QueryNeverPanics | violated |
| `stale_shape_panics` | timeout only; 2 calls, 1 connection | QueryNeverPanics | violated |
| `disconnect_after_failure_panics` | link only; 1 call | DisconnectNeverPanics | violated |
| `query_no_panic` | handshake, link; 4 calls, 3 connections | QueryNeverPanics | pass |
| `disconnect_no_panic` | handshake, close, timeout; 3 calls, 3 connections | DisconnectNeverPanics | pass |
| `envelope_shape` | generic client, all four fault kinds; 3 calls, 2 connections | EnvelopeShape | pass |
| `session_refinement` | handshake, close; 4 calls, 3 connections | SessionSafety | pass |
| `legacy_refines_client` | legacy client, all four fault kinds; 3 calls, 2 connections | ImplementsClient | pass |
| `legacy_update_without_data` | legacy client, all faults; 1 call | EnvelopeShape | violated |

What the properties say:

- **ResponseMatchesRequest**: every Ok a query returns is the response to
  its own request.
- **SingleOutstanding**: the stored connection holds at most one frame, and
  only while a query waits in `next()`. The spec assumes this, and the code
  relies on it because it never reads the correlation id.
- **CallReturns**: every call returns or panics. It is checked with broken
  links and server closes, where frames are lost, and again with caller
  timeouts, where stale frames and fed sends are left behind. Because of
  it, the dead connection that `connect`'s early return keeps (there is no
  reconnection, which spec section 7 makes the policy) makes later queries
  fail with `QueryFailed` or `NoResponse`, rather than hang.
- **QueryNeverPanics**, **DisconnectNeverPanics** and **EnvelopeShape**:
  what the spec says of query, disconnect and the envelope.
- **SessionSafety**: `TobsdbClient` implements `TobsdbSession` under the
  mapping of `TobsdbRefinement`. `open` is `conn # None`; every await point
  of `pc` is the session's `busy`; the call and result records drop the
  connection number. Sockets, the server and the `dead` flags have no
  counterpart, so their steps are stutters. The property says, in one
  formula, that an Ok carries the answer to its own request, that
  `ConnFailed` comes only before a connection is stored and `QueryFailed`
  and `NoResponse` only on one, that `Disconnected` never happens, and that
  only a query's decode can abort the task.
- **ImplementsClient**: every behaviour of the legacy client is a
  behaviour of `TobsdbClient` with the legacy wrapper table. Its
  `require_conn` after `connect().await?` takes the same steps as the
  generic `query`'s inline check.

The refinement run leaves out broken links and timeouts, because each of
them breaks the contract in a known way: a broken link makes `disconnect`
panic (finding 3), and a timeout makes the next query return a stale
answer (finding 1). With either fault added, TLC reports SessionSafety
violated by the same traces.

The session's own fairness (`TobsdbSession!Fairness`) is not checked
separately: under the client's fairness it says no more than CallReturns.

The five violations are the findings in `PROJECT.json`:

1. After a caller timeout, the next query returns the stale response of the
   cancelled one. In TLC's shortest trace, the first query is cancelled
   while `send` is pending, after its frame was fed to the sink.
2. A server Close frame makes `query` panic in `from_str(..).unwrap()`,
   where the spec says it fails with `NoResponse`.
3. `disconnect` on a broken link panics in `close().await.unwrap()`.
4. The legacy `update_unqiue` and `update_many` send `data: null`.
5. When the cancelled query and the next one have different result types
   (`TdbResponse` and `TdbResponseMany`), the stale answer makes
   `from_str(..).unwrap()` panic (`stale_shape_panics`).

The runs `query_no_panic` and `disconnect_no_panic` show that query
panics only through findings 2 and 5 (a Close frame, or a timeout), and
disconnect only through finding 3 (a broken link). With every other fault
allowed, the two properties hold. `QuerySafe` and `DisconnectSafe` prove
the same for every bound. Both runs set `CHECK_DEADLOCK FALSE`, because
each allows the fault that makes the *other* call panic, and a panicked
task stops.

### Bounds

The legacy client is checked at the bounds of `client_timeouts`, with every
fault, so that every step of `TobsdbClient` it may take is reached.

Two connections are enough to reach reconnect-after-disconnect with the old
connection still holding frames, and three are enough to do it twice.
Three or four calls are enough for a stale response to reach a later call,
and for a query to follow a disconnect and reconnect. Each violation is
found at the smallest bound that shows it.

The passing runs together fire every action and every disjunct. The
`~Decodes` branch of `Receive` is reached only with timeouts, when a stale
response of the other shape is read.

### Fairness

Fairness is `FairSpec`. Weak fairness holds for the client's own
continuations: `HandshakeOk \/ HandshakeFail`, `Send`, `Receive` and
`CloseDone`. These are what the tokio runtime runs once the awaited I/O is
ready, and each of them ends in an error if the link is gone. Weak fairness
also holds for the server's answer (`ServerRespond`). Nothing is fair for the
caller, the faults or `Cancel`.

CallReturns therefore assumes a server that answers. Without that
assumption, `next()` waits forever: the code has no timeout, as the spec
says.

## Proofs (checked by tlapm)

### `TobsdbClientProofs`

The theorems hold for every wrapper table, fault set and bound allowed by
the module's assumptions (`WrapperAssumption`, `FaultsAssumption`,
`BoundsAssumption`).

- **TypeCorrect**: `Spec => []TypeOK`. TypeOK alone is not inductive, so
  the proof uses `TypeInv == TypeOK /\ PcInv`. `PcInv` records what the
  suspended call was set up with: a query has an action and an id, and a
  handshake only starts while a connection number is left. The proof has
  one lemma per action.
- **ResponsesMatch** and **OneOutstanding**: if `"timeout" \notin Faults`,
  then `Spec => []ResponseMatchesRequest` and `Spec => []SingleOutstanding`.
  The inductive invariant is `IInv == TypeInv /\ WireInv /\
  ResponseMatchesRequest`. `WireInv` has these parts:
  - `Fresh`: connections are numbered in the order they open, an unopened
    connection has empty streams, and `conn <= nconns`.
  - `Drained`: a closed or broken server end has no unread requests.
  - `ClosingInv`: while `close()` runs, `conn` is None and the taken
    connection has no unread requests.
  - `SingleOutstanding`.
  - `Tagged`: every frame on the stored connection carries the current
    call's id.

  Each action has a lemma that preserves `WireInv` and the property. TLC
  checked IInv as an invariant before it was proved.

### `TobsdbPanicProofs`

- **QuerySafe**: if neither `"close"` nor `"timeout"` is in `Faults`, then
  `Spec => []QueryNeverPanics`. Broken links and handshake failures are
  allowed. The inductive invariant is `QInv == IInv /\ NoClosing /\ Shaped
  /\ QueryNeverPanics`:
  - `NoClosing`: no server end is ever `closing`. This rules out the Close
    frame of finding 2.
  - `Shaped`: every frame on the stored connection belongs to the current
    call's action, so every response there decodes as that action's
    `Option<D>`.

  `Shaped` is needed because `Receive` decodes the head of the stream. The
  property alone says nothing about what is still in flight. `Shaped` needs
  `IInv`'s `SingleOutstanding` and `Tagged`: without timeouts, a new query
  starts only on an empty connection.
- **DisconnectSafe**: if `"link" \notin Faults`, then
  `Spec => []DisconnectNeverPanics`. Caller timeouts, Close frames and
  handshake failures are allowed. The inductive invariant is
  `DInv == TypeInv /\ Unopened /\ DeadGone /\ GoneTaken /\ CloseTarget /\
  DisconnectNeverPanics`:
  - a stream is marked dead only when its server end is gone;
  - a gone end is never the stored connection;
  - the connection `close()` works on was opened and is not gone.

  Together these make `CloseDone` return Ok. The invariant has no
  assumption about frames in flight, so timeouts need no special case.

### `TobsdbEnvelopeProofs`

- **GenericEnvelope**: if the wrapper table is the generic client's, then
  `Spec => []EnvelopeShape`, for every fault set and bound. The inductive
  invariant `EnvInv` says that every request in `toServer` has the `data`
  and `where` fields the wrapper table gives its action (`FromTable`). It
  is proved for every table (`EnvelopeFollowsTable`). A step changes a
  request stream in one of four ways, each with its own lemma:
  - it keeps the stream;
  - it appends `Envelope(a, id)` (`Send`, and a fed `Cancel`);
  - it drops the head (`ServerRespond`);
  - it empties the stream (`ServerClose`, `LinkFail`, a `Cancel` of
    `close()`).

  The generic table is the one spec section 8 documents. The legacy table
  is not, which is finding 4 and the `legacy_update_without_data` run.

### `TobsdbRefinementProofs`

- **Implements**: if neither `"timeout"` nor `"link"` is in `Faults`, then
  `Spec => SessionSafety`, for every wrapper table and bound. The proof
  shows that `Init` maps to the session's `Init` and that each step of
  `Next` maps to a session step or a stutter, one case per action. It rests
  on `IInv`, on `ConnInv` (a handshake only starts while `conn` is None)
  and on `NoLinkInv`: no stream is marked
  dead, the stored connection's server end is not `gone`, and neither is
  the end `close()` works on. `NoLinkInv` is what makes a failed `send`
  impossible on a stored connection (the session has no `QueryFailed` step
  that the code could take there without a broken link) and what keeps
  `CloseDone` from panicking.

### `TobsdbLegacyProofs`

- **LegacyImplements**: `Spec => ImplementsClient` for every fault set and
  bound. `LInv` (the counters are in range, a handshake runs only while a
  connection number is left, a query sends on a stored connection) lets
  each legacy step be matched to the generic step at the same await point:
  `require_conn` never takes its `Disconnected` branch after a handshake,
  and a send on a dead stream marks it dead again without a change.
  Through this theorem, what `TobsdbClientProofs` proves for every wrapper
  table also holds of the legacy client.
- **LegacyTypeCorrect**, **LegacyResponsesMatch**,
  **LegacyPanicFree** and **LegacyImplementsSession** carry
  `TypeCorrect`, `ResponsesMatch` with `OneOutstanding`,
  `QuerySafe` with `DisconnectSafe`, and `Implements` over to the legacy
  client, each under the same conditions on `Faults`. How it works:
  - `TobsdbPanicProofs` and `TobsdbRefinementProofs` are instantiated with
    the legacy wrapper table (`Proved`, `Refined`).
  - `LegacyAssumptions` discharges the instances' assumptions.
  - `SameSpec` and `SameRefinedSpec` show that the instance's `Spec` is
    `Client!Spec`.
  - `SameProperties` shows that the instance's properties are `Client`'s.
  - `LegacyImplements` connects the legacy `Spec` to `Client!Spec`.

  The legacy client therefore has findings 1, 2, 3 and 5 exactly where
  the generic one has them, and no other route to them.

Only TLC checks the following:

- CallReturns. It is a liveness property under
  weak fairness, and TLAPS does not reason about ENABLED here.
- The violated properties: ResponseMatchesRequest with timeouts,
  QueryNeverPanics with Close frames or timeouts, DisconnectNeverPanics with broken
  links, and EnvelopeShape for the legacy table. A violation is a trace,
  and TLC's trace is its evidence.
- `ImplementsClient` and `SessionSafety` when all faults are present. The
  theorems assume the faults of findings 1 and 3 are absent, because the
  property is false with them.

## Not modelled

- The URL and schema formatting in `new`, and its `unwrap` on the schema
  file read.
- `Display` for `TdbError`.
- `TdbAuthParms`.
- The `status`, `message` and `__tdb_client_req_id__` fields of responses.
  The client never reads them, although a response that lacks one of them
  makes `from_str(..).unwrap()` panic.
- The tests, which need a live server.
- Concurrent calls on one client. `&mut self` rules them out at compile
  time.

## Plan for later work

- A property that the client recovers after a broken link. It does not,
  because `connect` never replaces a dead `conn`. Decide whether this is a
  finding.
- Liveness stays with TLC. A proof of `CallReturns` would need ENABLED
  reasoning about the fair actions.
