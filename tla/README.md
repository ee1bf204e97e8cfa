# TLA+ models of the dxFeed JavaScript client (`dxfeed.cometd.js`)

This directory holds TLA+ models of the browser-side dxFeed web-service client
of `dxfeed-webservice`. The models are checked with TLC. The client multiplexes many
logical subscriptions onto one CometD (Bayeux) session. It merges overlapping
interest into a minimal subscribe/unsubscribe diff, caches the last events so
that late joiners get them at once, and resubscribes everything after a
reconnection. The models cover the code that does this. Their aim is to show
what holds over all interleavings of user calls, timer callbacks and network
events, and where the code departs from `spec.md`.

All source references are to
`src/dxfeed-webservice/src/main/webapp/js/dxfeed/dxfeed.cometd.js` unless
another file is named.

## 1. Inventory

### Components

| Component | Code | State | Operations |
|---|---|---|---|
| **Sub** (regular) | `Sub` with `timeSeries = false`, l. 474-689 | `subSet` (held symbols), `queue` (type -> symbol -> event waiting for delivery), `notifyTimeout`, `onEvent` callback; `close` replaces the mutators by `nop` | `addSymbols`, `removeSymbols`, `setSymbols`, `close`, `processEvent` (called by FeedImpl), `notify` (timer) |
| **Sub** (time series) | `Sub` with `timeSeries = true` | as above plus `fromTime` (default +Infinity); the queue is type -> symbol -> index -> event | as above plus `setFromTime` |
| **FeedImpl** subscription table | `FeedImpl`, l. 699-902 | `totalSub` / `totalTimeSeriesSub` (type -> symbol -> item with `listeners` array, cached `event`, or `events` by index plus `fromTime` and the `fromTimes` array), pending diffs `addSub`, `removeSub`, `addTimeSeriesSub`, `removeTimeSeriesSub`, `resetSub`, `sendSubTimeout`, `dataScheme` | `sendSubLater`/`sendSub` (timer), `onData` (CometD listener), `onStateChange` |
| **FeedImpl** replay control | `changeState`, `stateChangeAction`, `onDemand` proxies, `feed.replay/pause/setSpeed/stopAndResume/stopAndClear` | `state` = {connected, replaySupported, replay, clear, time, speed} | user calls; `/service/state` messages merge into `state`; the reset in `sendSub` reissues the intended replay state |
| **EndpointImpl** | l. 295-463 | `cometd` instance or null, `connected`, `connectCalled`, `config`, `authToken` | `connect`, `connectIfNeeded`, `disconnect`, `publish`, `/meta/handshake`, `/meta/connect`, `/meta/unsuccessful` and `/service/*` listeners |
| **Symbol attribute utilities** | `dx.symbols.changeAttribute` and helpers, l. 203-288 | none (pure string functions) | `changeAttribute(symbol, key, value)` |
| **QTable widget** | `dxfeed-ui.qtable.js` | rows by symbol, symbol input boxes, effect graph (event fields and user-defined data items), one `Sub` | `updateSymbols` (on keyup), `onEvent` -> `processEventInRow` (fixed-point propagation over the effect graph), `detach` |
| Demo pages | `apps/*.js` | UI | consume the API; `chart-demo` debounces time-series events; its subscription symbol is `ChartSymbol` in `SymbolAttributes` |
| Context path | `dxfeed.context.js` | JSP-generated constant | none |

### How they interact

A consumer creates a `Sub` through `feed.createSubscription` and calls its
mutators. Each mutator updates the shared FeedImpl table synchronously: it
pushes or removes its own `processEvent` in the item's listener array,
creates or deletes items, records add/remove diffs and calls `sendSubLater`.
`sendSubLater` arms one `setTimeout(sendSub, 0)`. `sendSub` calls
`connectIfNeeded`. When the endpoint is connected, it publishes either the
accumulated diffs or, after a (re)connection, a `reset` message holding the
whole table.

CometD listeners call `EndpointImpl.updateConnectedState`. On a change, that
calls `FeedImpl.onStateChange`, which sets `resetSub` on connection. Data
messages call `FeedImpl.onData`. `onData` caches each event in its item and
calls every listener's `processEvent`. `processEvent` puts the event in the
Sub's queue and arms `setTimeout(notify, 0)`. `notify` calls `onEvent` once
for each queued event.

Everything runs on the browser's single thread. The only nesting is the
consumer's `onEvent`, which runs inside `notify` and may call back into the
API.

### What is hard

* **Re-entrancy.** `onEvent` runs inside the for-in loop of `notify`. The loop
  deletes `queue[type]` only after it finishes.
* **Reference counting.** The listener arrays hold one entry per holding Sub.
  A duplicate or a missed entry leaks a server subscription or drops one that
  is still held.
* **Debounced diffs.** Adds and removes within one tick must cancel each other.
  Diffs collected while disconnected must give way to the reset.
* **Reconnection.** After a rehandshake the server session is new and empty.
  Only `resetSub` repairs it. `sendSub` may fire while the session is down and
  is not re-armed until the next connection.
* **Time-series bounds.** The item's `fromTime` is the minimum over
  `fromTimes`. Cached events are replayed to joiners, and incoming events are
  filtered per Sub against its own `fromTime`.
* **Connection state seen by the page.** `disconnect()` bypasses
  `onStateChange`.
* **Pure string index arithmetic** in the attribute utilities.
* **Fixed-point propagation** in `QTable.processEventInRow`, which relies on
  the user-defined data items being acyclic and recomputes an item each time
  one of its dependencies changes, in the engine's for-in order.

### What makes each component correct

* **Sub / FeedImpl table.** An item exists exactly for the symbols some Sub
  holds, and each holder appears once in its listener array. A closed Sub holds
  nothing.
* **Diff flush.** While the session is up, the server's subscription with the
  pending diffs applied equals the table. When no flush is pending, nothing is
  pending. A held symbol eventually reaches the server.
* **Delivery.** The cached event of a held symbol is delivered or still queued.
  Events of a symbol are never shown out of order. A cached event eventually
  reaches every holder.
* **Time series.** The item's bound is the minimum of its holders' bounds, and
  the server gets that bound. No Sub is shown an event earlier than its own
  `fromTime`.
* **Replay control.** After a reconnection, the server's replay mode is the
  one the user last asked for. A control command is published only on a live
  session.
* **Endpoint.** `feed.state.connected` mirrors the endpoint.
* **Attributes.** `changeAttribute` yields the canonical form: keys sorted, no
  duplicates, suffix elided when empty.

## 2. Plan

Modules are listed in build order, most important behaviour first.

1. **`FeedSub`** (done): regular Subs, the FeedImpl table and diff flush,
   `onData`, `notify` with re-entrant callbacks, and EndpointImpl's connection
   transitions. MC module `MCFeedSub`.
2. **`FeedTimeSeries`** (done): time-series Subs, `fromTime`/`fromTimes`, the
   event cache by index, `setFromTime`, and filtered delivery. MC module
   `MCFeedTimeSeries`.
3. **`ReplayControl`** (done): the `state` object, the `changeState` and
   `stateChangeAction` user calls, `/service/state` merges, and the reissue in
   `sendSub`'s reset. The endpoint is abstracted to the flags it shares with
   FeedSub. MC module `MCReplayControl`.
4. **`Feed`** (not built): it would compose FeedSub and ReplayControl on the
   shared `sendSub` reset step. `ReplayControl` already models the reissue of
   the control command in a reset `sendSub`. The subscription part of that
   step is FeedSub's. Section 5 says why the composition is left out.
5. **`SubscriptionAbstract`** (done): the promise of the table and diff flush. The
   server's subscription is the union of held symbols whenever the session is
   quiescent. FeedSub is shown to implement it with `INSTANCE ... WITH` and a
   refinement mapping.
6. **`SymbolAttributes`** (done, with the abstract `AttributeMap`): `changeAttribute` and its helpers as operators over
   character sequences (RECURSIVE for the scan loops). They are checked
   against a reference definition (parse to a key -> value map, then render
   canonically) over all short inputs.
7. **`QTable`** (done): `updateSymbols`' bookkeeping of symbol inputs,
   routing and clearing of rows, over the table's handle, and
   `processEventInRow`'s propagation over the user-defined effect graph
   (in the same module, checked in the same run). The loop on a cyclic
   graph is a hazard with a note: `Propagate` cannot evaluate a cycle.

## 3. Modules and runs

### `FeedSub` (regular subscriptions, diff flush, connection)

State, and the code it stands for:

| Variable | Code |
|---|---|
| `subSet[h]`, `closed[h]`, `queue[h][s]`, `notifyTimeout[h]` | the Sub's `subSet`, the `nop` replacement, `queue`, `notifyTimeout` |
| `total`, `listeners[s]`, `itemEvent[s]` | the keys of `totalSub`, `item.listeners`, `item.event` |
| `addSub`, `removeSub`, `sendSubTimeout`, `resetSub` | the same names in FeedImpl |
| `connectCalled`, `cometd`, `connected`, `stateConnected` | EndpointImpl's flags (`cometd !== null`) and `feedImpl.state.connected` |
| `disconnectCalled` | history: `disconnect()` has run (for `PageConnectedStaleOnlyAfterDisconnect`) |
| `serverSub` | the subscription the server holds for the current session (environment) |
| `notifying`, `startKeys`, `visited` | a `notify` loop in progress: which Sub, the keys its for-in started with, and the keys visited |
| `delivered[h][s]`, `nextEvent` | history: the last event passed to `onEvent`; the events are numbered by arrival |

Actions:

* **User calls.** `AddSymbols`, `RemoveSymbols`, `SetSymbols` and `Close` all
  use `SymbolsImpl(h, A, R)`. It is the loop of `addSymbolsImpl` and
  `removeSymbolsImpl`, including their trailing `sendSubLater` and
  `notifyLater`. `setSymbolsImpl` removes R and then adds A. A and R are
  disjoint and each symbol's step touches only that symbol's entries, so the
  two phases are one update.
* **Timers.** `SendSub` is `sendSub` with `connectIfNeeded`. `NotifyStart`,
  `NotifyStep` and `NotifyEnd` are `notify` split at its `onEvent` calls.
* **Network.** `OnData(s)` is `onData` with `processEvent`. `MetaHandshake`,
  `MetaConnect` and `Disconnect` are the `/meta` listeners and
  `disconnect()`. `Connect` is `feed.connect()`.

A successful handshake opens a new, empty server session, so `serverSub`
becomes `{}`. Subscription messages change `serverSub` as the server applies
them (`ApplySubMessage`): a reset replaces it; add and remove update it.

Abstractions:

* One event type. The type loop of the code runs the same steps per type; only
  the for-in of `notify` crosses types.
* Events are numbers.
* `onEvent` is assumed to be assigned before the first `notify`, as all demo
  pages do.
* The user calls `connect` only when no CometD instance exists. A second
  `connect` on a live instance rehandshakes inside CometD, and what CometD
  reports to the listeners then is outside this repository.

Fairness: the timers are strongly fair. `setTimeout(fn, 0)` callbacks run in
the order they were armed, so a pending callback cannot be overtaken forever by
callbacks armed after it; weak fairness is too weak here, because another Sub's
`notify` keeps disabling this one's while it runs. User calls, server events
and the network get no fairness.

| Run | Cfg | Expect | What it shows |
|---|---|---|---|
| `feedsub_safety` | `MCFeedSub_safety.cfg`: 2 Subs, 2 symbols, 1 event, symmetry on both | pass | `QueuedHasNotifyArmed` (every queued event has the notify timer armed or its `notify` loop running; broken when `processEvent` skips `notifyLater`), `ListenersMatchSubSets`, `ServerViewTracksTotal`, `NoLostCachedEvent` and `PageConnectedStaleOnlyAfterDisconnect` hold, and FeedSub implements `SubscriptionAbstract` (`SubscriptionAbstractRefinement`), over about 183 k distinct states (22 s) |
| `feedsub_liveness` | `MCFeedSub_liveness.cfg`: 2 Subs, 1 symbol, 3 events, no symmetry | pass | `SubscriptionReachesServer` and `CachedEventReachesSubscriber` hold under the timer fairness, and `DeliveryMonotone`: no consumer is shown an older event after a newer one (about 244 k distinct states, 1.4 minutes) |
| `feedsub_reentrant_callback` | `MCFeedSub_reentrant.cfg`: 2 Subs, 2 symbols, 2 events, `ReentrantCallbacks = TRUE` | violation | see finding 1 |

`TypeOK` is still defined in `FeedSub` and in `QTable`, but no run checks
it. The only change that breaks either one is lifting the model's own
`MaxEvents` bound, and that is not a bug the code could have. The
`QueuedHasNotifyArmed` invariant of each module takes its place in the
safety run. It is the safety side of the timer hazard at l. 530.

The bounds are enough for these reasons:

* Two Subs let one Sub join a symbol the other already holds, so the cache
  replay and reference counting come into play.
* Two symbols let `setSymbols` add and remove in one call, and let the callback
  of one symbol subscribe the other.
* One event is enough for the safety invariants, which are about the
  bookkeeping around a cached event, not its value. Monotonicity needs
  supersession, and a rejoin that replays the cache after a newer event, so
  the liveness run has three events on one symbol.
* Connection loss, rehandshake and `disconnect` are unbounded.

#### `SubscriptionAbstract` and the refinement

`SubscriptionAbstract` states what the table and the debounced `sendSub`
promise the server, without diffs, reset flag, listener arrays or events.
Its state is `held` (the symbols the page holds), `server` (the session's
subscription) and `up`. Its actions are `Hold` (any change of `held`),
`Flush` (while up, `server` becomes exactly `held`), `NewSession` (up, with
an empty subscription), `Resume` (up, the session kept) and `Drop`.

`FeedSub` defines `Abstract == INSTANCE SubscriptionAbstract WITH held <-
total, server <- serverSub, up <- connected`, and the `feedsub_safety` run
checks `Abstract!Spec` as the property `SubscriptionAbstractRefinement`.
Each step of FeedSub maps to one abstract step:

* the Sub mutators are `Hold`;
* `SendSub` on a live session is `Flush`;
* a successful `MetaHandshake` is `NewSession`;
* a successful `MetaConnect` after a failure is `Resume`;
* a failed `MetaConnect` and `disconnect()` are `Drop`;
* everything else is a stutter.

So every message `sendSub` sends, whether a diff or the reset after a
(re)connection, leaves the server holding exactly the table. This is the
refinement that plan item 5 names. The mutant that loses the reset branch
(`SendSubIgnoringReset`) sends only the diffs after a new session, and TLC
reports the refinement violated.

### `FeedTimeSeries` (time-series subscriptions)

State, and the code it stands for:

| Variable | Code |
|---|---|
| `subSet[h]`, `closed[h]`, `fromTime[h]`, `queue[h][s]`, `notifyTimeout[h]` | the time-series Sub's `subSet`, the `nop` replacement, `fromTime`, `queue` (times per symbol), `notifyTimeout` |
| `total`, `listeners[s]`, `events[s]`, `itemFrom[s]`, `fromTimes[s]` | the keys of `totalTimeSeriesSub`, and `item.listeners`, `item.events`, `item.fromTime`, `item.fromTimes` |
| `addTS[s]`, `removeTS` | `addTimeSeriesSub[s].fromTime` (`NoTime` if absent) and the keys of `removeTimeSeriesSub` |
| `sendSubTimeout`, `resetSub`, `connected` | FeedImpl's and EndpointImpl's flags |
| `serverTS[s]` | the bound the server holds for the session (environment) |
| `delivered[h][s]` | history: the times passed to `onEvent` |

An event is its time, and its `index` is that time too, so `item.events` is a
set of times and a resend overwrites the same entry. `+Infinity` (the default
`fromTime`) is `Max(Times) + 1`. `NaN`, a model value, is what `setFromTime`
computes from an unparseable time. `JSLess` and `JSGeq` are JavaScript's `<`
and `>=`, which are false when either side is NaN.

`addSymbolsImpl` and `removeSymbolsImpl` are `AddImpl` and `RemoveImpl`. They
are functions from a record of the registry state (`Reg`) to the next one,
because `setFromTimeImpl` runs them in turn with the assignment of `fromTime`
between them, and `setSymbolsImpl` runs removal then addition. Each user call
is one action that commits the composed record. `MinFromTimes` is the loop at
l. 604-608. `OnData(s, t)` is `onData` for one record, with `processEvent`
(`Admits`, `NotifyLater`) for every listener. `Notify(h)` is `notify` in one
step: re-entrant callbacks are FeedSub's subject. `SendSub` sends a reset
(the whole table with each `item.fromTime`) or the pending diffs;
`ServerAfterDiff` is the server's bound after it applies them. The server
sends a record for `s` at time `t` only while it holds `s` from a bound at
most `t`. Its bound may be stale, because the diffs wait for `sendSub`.
`ConnectionLost` is a failed `/meta/connect`. `Reconnect` is a new session:
the server holds nothing, and `onStateChange` sets `resetSub` and calls
`sendSubLater`.

Fairness: weak fairness on `SendSub` and each `Notify(h)`. In this module only
its own run clears a timer flag, so an armed timer stays enabled until it runs.

| Run | Cfg | Expect | What it shows |
|---|---|---|---|
| `timeseries_liveness` | `MCFeedTimeSeries_liveness.cfg`: 2 Subs, 1 symbol, times {1,2}, no symmetry | pass | `AggregateBoundIsMinimum`, `ServerBoundTracksTotal` and `CachedSeriesReplayed` hold, and `ServerEventuallyInSync` and `QueueEventuallyDrained` hold under the timer fairness (about 347 k states, 1.6 minutes) |
| `timeseries_join_replay` | `MCFeedTimeSeries_joinreplay.cfg` | violation | see finding 3 |

The bounds are enough for these reasons:

* Two Subs give an item two holders with different bounds. That is what makes
  the minimum, a raised bound on removal, and a join below or above the
  aggregate bound happen.
* Two times, plus +Infinity, give the three orders two bounds can have.
* One symbol: symbols are independent in this code, because every step
  touches each symbol's entries on their own. Two symbols made the state space
  too large for the run budget and add no interaction the properties tell
  apart.

A behaviour the model shows, which the spec accepts: when the only holder of
a symbol calls `setFromTime`, `removeSymbolsImpl` drops the item with its
cache, and also drops the handle's queue. Events queued but not yet delivered
are gone until the server resends them. The spec defines `setFromTime` as
remove-then-add. `QueueEventuallyDrained` therefore checks only that no
queue is stranded, not that every queued time is delivered.

### `SymbolAttributes` and `AttributeMap` (`dx.symbols.changeAttribute`)

`SymbolAttributes` translates `changeAttribute` (l. 284-288) and its helpers
(l. 203-282) into operators over symbols written as sequences of
one-character strings. Indices follow JavaScript (from 0): `At`,
`Substring`, `SubstringFrom`, `IndexOf` and `LastIndexOf` are `s[i]`,
`substring` and `indexOf`. The `while` loops of `addAttributeInternal` and
`removeAttributeInternal` are the RECURSIVE operators `AddLoop` and
`RemoveLoop`. String order is JavaScript's, from UTF-16 code units (`Code`).
The state is the symbol a page holds. Each step is one `changeAttribute`
call with a key and a value (or `undefined`), as `chart-demo.js` (l. 55-62)
does with the period attribute. `lastCall` records the call.

The reference is `Render(base, map)`: keys ascending, pairs joined by `,`,
and no braces when the map is empty. `DecodeTable` inverts it over all bases
and maps of the bounds. `AttributeMap` is the abstract specification of
spec section 6: a base and a key -> value map, where each call sets or drops
its key.

| Run | Checks | Result |
|---|---|---|
| `attributes_safety` (`MCSymbolAttributes_safety.cfg`) | `TypeOK`, `Canonical` (every reachable symbol is a rendered base and map), `RemoveMatchesReference` (removal from any reachable symbol is the reference's), `PeriodMatchesReference` (chart-demo's `ChartSymbol`, `changeAttribute(s, "", p)` in `updateSub`, gives every reachable symbol the period `p` under the empty key and keeps its other attributes, as the reference does; broken by an `addAttributeInternal` loop that never inserts before a greater key) | pass, 794 states |
| `attributes_refinement` (`MCSymbolAttributes_refinement.cfg`) | `AttributeMapRefinement`: decoded symbols are an `AttributeMap` behaviour | violation (finding 5) |

Bounds: bases `A` and `A{}` (a trailing `{}` is not an attribute list), keys
`""` (chart-demo's period key), `a`, `ab`, `b` (a prefix and an empty key
sort first), values `1` and `D`.

### `ReplayControl` (replay and speed control)

Variables: `st` is the control fields of `feed.state` (`replay`, `clear`,
`time`, `speed`; l. 706-714); `intent` is a history variable, `feed.state`
as the user's last call left it; `connectCalled`, `cometd`, `connected` are
EndpointImpl's; `resetSub`, `sendSubTimeout` are FeedImpl's; `toServer` and
`toClient` are the onDemand commands and `/service/state` patches in
flight; `srv` is the server's state; `thrown` records a TypeError out of a
feed method.

Actions: `Replay`, `SetSpeed`, `Pause`, `StopAndResume`, `StopAndClear`
are the feed methods (l. 943-982), each `ChangeState` (l. 805-808): the
`Merge` of `onStateChange` (l. 781-791), then `StateChangeAction`
(l. 793-803) through the onDemand proxy (l. 764-776) to `Publish`
(`connectIfNeeded` and `cometd.publish`, l. 454-462). `SendSub` is the
reset reissue of `sendSub` (l. 810-848). `OnServiceState` (l. 367-370),
`Connect`, `NewSession`, `ConnectionLost`, `Disconnect` are the endpoint's.
`ServerApply` is the server, from spec section 6: it applies a command as
the client did and echoes its state. A new session starts live. Messages
are FIFO and lost with the connection. No fairness: the properties are
safety properties.

Every reconnection in this module is `NewSession`, a successful rehandshake.
The other path is not modelled: a successful `/meta/connect` after a failed
one (`onMetaConnect`, l. 355-361), where the server keeps the session and
its replay state. That step would set `connected` and run the same
`onStateChange` reset as `NewSession`, so the reissue in `SendSub` still
follows. The difference is only that the server's state survives rather
than restarting live. So `StateMatchesServer` would still need the reissue,
and the property should be unaffected. This has not been checked, though.

| Run | Checks | Result |
|---|---|---|
| `replay_safety` (`MCReplayControl_safety.cfg`) | `TypeOK`, `StateMatchesServer`: when nothing is pending or in flight on a live connection, `feed.state`'s mode is the server's | pass, 90k states |
| `replay_intent` (`MCReplayControl_intent.cfg`) | `IntentHonoured`: then the server's mode is the one the user's last call asked for | violation (finding 6) |
| `replay_throw` (`MCReplayControl_throw.cfg`) | `NoUncaughtError` | violation (finding 7) |

Bounds: one replay time, speeds 0 and 1 (pause and play), at most two
messages in flight each way: enough for an echo of an older command to
overtake a newer call.

### `QTable` (table data binding, `dxfeed-ui.qtable.js`)

Variables: `text` and `lastSymbol` of each symbol input, `inputsBySymbol`,
`shown` (the event each row applied last, `rowObj.data`), `detached`; and
the table handle's view of the feed: `subSet`, `cache` (`item.event`),
`queue`, `notifyTimeout`, and the server's event count `sent`. The table's
handle is the feed's only one, so `setSymbols` drops the item and cache of
a removed symbol and replays nothing for an added one (`SetSymbols`).

Actions: `Edit` (an input changes), `UpdateSymbols` (the keyup handler,
l. 390-415), `Detach` (l. 586-592), `OnData` (`onData` and `processEvent`),
`Notify` (`notify`, then `onEvent` l. 564-573 and `processEventInRow`
l. 520-562 on each row of the symbol).

User-defined columns: the constants `DefineOrder` (the `dx.define` calls in
order), `Deps`, `Bound` (the table's `dx-bind` references), `Inline` (the
anonymous items of `dx-bind` inline code) and `Throwing` fix the effect
graph. `Resolved` is `dx.define`'s binding of each dependency (l. 720-734:
a data item not yet defined is bound to `undefined`), `DataValue` is the
inline code's bridge, which reads `data.dep` as it is (l. 238-282),
`Reach`/`Affects` are `getOrCreateEffect`'s effects and `affects` edges
(l. 167-198), and `Propagate` is the `while` loop over `updatedUserDefSet`
(l. 542-561): an item is deleted and computed; if its function throws, the
exception is caught and nothing else happens; otherwise the value is stored
(unless anonymous), written to its cells (`Apply`, `applyEffect` l. 487-504)
and its affected items are added. The for-in order over keys added during
the loop is the engine's, so `Propagate` returns the set of outcomes of
every order and `ApplyToRows` picks any of them per row. A user function is
`Fn(d, args) == <<d, args>>`: its value records its arguments, so a value
computed from a stale dependency differs from the one computed from the
current one. A function of `Throwing` throws on an `undefined` argument, as
one that dereferences it (`p.toFixed(2)`) does. The variables `userData`
and `cells` are the data-item part of `rowObj.data` and the text of the
row's bound cells.

`UserColumnsConsistent`: in every row that shows an event, each data item
holds its function of the current values of its dependencies, as the
`dx.define` comment promises, and each bound cell shows the current value
of its reference. Its mutant drops the
`addAllFromSet(updatedUserDefSet, effect.affects)` of the loop body.

| Run | Checks | Result |
|---|---|---|
| `qtable_safety` (`MCQTable_safety.cfg`) | `QueuedHasNotifyArmed`: an event in the handle's queue always has the notify timer armed (broken by an `onData` whose `processEvent` skips `notifyLater`); `RowShowsOwnSymbol`: a row never shows an event of another symbol than the one it is bound to; `UserColumnsConsistent` | pass, 42k states |
| `qtable_cached` (`MCQTable_cached.cfg`) | `RowShowsCached`: once keyups and notify are done, each row shows the feed's cached last event of its symbol | violation (finding 8) |

Bounds: symbols `X` (also a static row) and `Y`, two inputs, two events per
symbol: two inputs can swap and share symbols, and an event can be queued
across a keyup. The effect graph is a diamond, `mid` and `spread` from the
field and `label` from both, and an inline expression `_0` over the field
and `mid`, with the field, `label` and `_0` bound: `label` is in
`updatedUserDefSet` twice in some orders and once in others, which is where
a missing recomputation would show. `mid` throws on `undefined`, so a
cleared row takes the catch path, and `label` sees an undefined `mid` when
`spread` is computed first. The definitions are in call
order; a forward reference would violate `UserColumnsConsistent` by design
of `dx.define` (hazard at l. 725) and a cycle would make the loop endless
(hazard at l. 177), so neither is in the checked graph.

## 4. Findings

1. **A re-entrant `onEvent` loses a cached event** (`notify`, l. 503-517).
   Suppose `onEvent` calls `sub.addSymbols(x)` and `x` already has a cached
   event. The event is put in `queue[type]` while the for-in over that same
   map is running. The loop then ends with `delete queue[type]`, which drops
   the event unseen. The second `notify`, armed by `notifyLater`, finds an
   empty queue. `spec.md` section 5 requires the accumulator to be cleared
   *before* the flush handler runs, so that mutations during the flush are not
   lost.
2. **`disconnect()` leaves `feed.state.connected` true** (l. 445-452). The
   endpoint clears its own flag without calling `onStateChange`. Later `/meta`
   replies find `cometd === null` and the flag already false, so they notify
   nothing. This was seen while modelling (the model's `stateConnected` shows
   it). `PageConnectedStaleOnlyAfterDisconnect` (run `feedsub_safety`) shows
   it is the only way the two flags part: every `/meta` path keeps them
   equal, and after `disconnect()` the page is only ever told "connected"
   when the endpoint is not. The history variable `disconnectCalled` records
   that `disconnect()` has run.

3. **A joining time-series handle is handed events before its `fromTime`**
   (`addSymbolsImpl`, l. 560-563). The join replays every entry of
   `item.events` into the new handle's queue, without the
   `event.time >= fromTime` test that `processEvent` applies (l. 526). A
   handle with `fromTime` 3 that joins an item another handle filled from time
   1 gets the event at time 1. `spec.md` 4.2 says the joiner gets the cached
   events at or after the bound, with each handle filtering against its own
   `fromTime`.
4. **The prune after a raised bound deletes nothing** (l. 614-617).
   `delete event.time[event.time]` indexes a number, so `item.events` keeps
   the events before the new bound, and finding 3 then replays them. The spec
   (4.2 and its open questions) says they are dropped. `RemoveImpl` models
   the no-op; no run checks this finding on its own.
5. **`changeAttribute` ignores a key greater than every present key**
   (`addAttributeInternal`, l. 238-262). The loop inserts only before a
   greater key or over the same key. When it runs off the end it returns the
   symbol unchanged: `changeAttribute("A{=1}", "b", "1")` is `"A{=1}"`. The
   abstract map of spec section 6 sets the key.
6. **A reconnect can reissue a stale control state** (`sendSub`, l. 824).
   The reissue sends `feed.state`, which every `/service/state` echo also
   overwrites (l. 369). An echo of an older `stopAndResume` that arrives after
   a newer `replay` makes `feed.state` live. If the connection is lost before
   the newer echo, the new session stays live. Spec 4.2 says the last
   intended state is reissued.
7. **Replay calls after `disconnect()` throw** (l. 456). `disconnect` nulls
   `cometd` but leaves `connectCalled` true, so `connectIfNeeded` does
   nothing and `cometd.publish` runs on `null`, after `feed.state` has been
   changed. Spec 4.1 and 7: publish needs the connected state, and transport
   failures surface only as `connected = false`.
8. **A typed symbol already shown elsewhere stays blank**
   (`dxfeed-ui.qtable.js`, l. 414). The input's row is cleared and indexed
   under the symbol, but the handle already holds it, so `setSymbols`
   replays nothing. The row waits for the symbol's next event although the
   feed caches its last one.
9. **A cleared row keeps derived values of its previous symbol**
   (`dxfeed-ui.qtable.js`, l. 557). When an input's symbol changes,
   `updateSymbols` clears the row with an empty event. A user function that
   dereferences the now undefined field throws; the exception is caught, so
   its item keeps the old symbol's value, its cells still show it, and its
   dependents are not recomputed. The row shows the old symbol's derived
   columns beside the new symbol until the new symbol's first event. This
   was seen while modelling (an invariant that a cleared row holds no
   `mid` value fails under `MCQTable_safety.cfg`'s constants);
   no run checks it.

## 5. Not modelled

* URL and config handling, the auth token, logging and `maxSendMessageSize`.
  They have no effect on the properties.
* The CometD library itself (handshake retry and long polling). It is treated
  as a source of `/meta` messages with a success flag.
* The demo pages and `dxfeed.context.js`. They are UI and a JSP constant.
* The server's reading of a `null` `fromTime`: JSON turns `+Infinity` into
  `null`. The model takes it as "no events".
* Plan item 4, the `Feed` composition of FeedSub and ReplayControl. The two
  share only the `sendSub` reset step, and each module models its own half
  of that step. A product model would add no new interleaving: both halves
  run in one task. It would also multiply two state spaces that are already
  near the time budget of a run.
* `notify()` when `sub.onEvent` is not yet a function. The timer is cleared
  but the queue is kept. The models assume that `onEvent` is assigned in the
  task that creates the Sub. This is listed as a hazard.
* In `ReplayControl`: `feed.state.onChange`, `replaySupported`, and the
  `connected` field. In `QTable`: `dx-class` and `dx-change` effects (a
  class set by two references and then changed by one of them is removed
  although the other still gives it, l. 513; listed as a hazard; the
  model's user functions have distinct symbolic values, so two references
  could never share a class in it),
  the compilation of inline code and formats with `Function` (an inline
  expression is abstract, like a user function), `dx.format`, and the
  jQuery plumbing.
