---------------------------- MODULE FeedTimeSeries ----------------------------
(***************************************************************************)
(* Time-series subscriptions of dxfeed.cometd.js: Sub objects created by  *)
(* createTimeSeriesSubscription (subSet, fromTime, queue), the FeedImpl    *)
(* table totalTimeSeriesSub (listeners, events by index, fromTime and the  *)
(* fromTimes array), the pending diffs addTimeSeriesSub and                *)
(* removeTimeSeriesSub, sendSub and the time-series branch of onData.      *)
(*                                                                         *)
(* One event type. An event is its time; its index is its time, so the    *)
(* cache events[index] is a set of times. The consumer does not call back  *)
(* into the API from onEvent (FeedSub models that), so notify() is one     *)
(* step. The connection is reduced to its effect on the subscription: a   *)
(* session that is lost, and a new session whose connection asks for the  *)
(* reset.                                                                  *)
(*                                                                         *)
(* The mutators of a Sub are written as functions from a record of the     *)
(* registry state to the next one, so that setFromTimeImpl can run         *)
(* removeSymbolsImpl and addSymbolsImpl over the same symbols in turn.     *)
(***************************************************************************)
EXTENDS Naturals, FiniteSets, Sequences, SequencesExt

CONSTANTS
    Handles,    \* the time-series Sub objects
    Symbols,    \* the symbols they may subscribe to
    Times,      \* the event times and fromTime values, a set of positive naturals
    NaN         \* what setFromTime computes from an unparseable time

ASSUME Times \subseteq Nat \ {0} /\ Times # {}

Infinity == Max(Times) + 1          \* Number.POSITIVE_INFINITY
Bounds   == Times \cup {Infinity}   \* the values a fromTime can take
NoTime   == 0                       \* no pending entry / not subscribed

\* JavaScript's a < b on numbers: false whenever an operand is NaN.
JSLess(a, b) == a # NaN /\ b # NaN /\ a < b
JSGeq(a, b)  == a # NaN /\ b # NaN /\ a >= b

VARIABLES
    subSet,          \* Sub.subSet
    closed,          \* close() replaced the symbol mutators by nop
    fromTime,        \* Sub.fromTime
    queue,           \* queue[h][s]: the times waiting for notify
    notifyTimeout,   \* Sub.notifyTimeout !== null
    total,           \* symbols with an item in totalTimeSeriesSub
    listeners,       \* item.listeners
    events,          \* item.events: the cached times
    itemFrom,        \* item.fromTime
    fromTimes,       \* item.fromTimes
    addTS,           \* addTimeSeriesSub[s].fromTime, or NoTime
    removeTS,        \* keys of removeTimeSeriesSub
    sendSubTimeout,  \* FeedImpl.sendSubTimeout !== null
    resetSub,        \* FeedImpl.resetSub
    connected,       \* EndpointImpl.connected
    serverTS,        \* the fromTime the server holds per symbol, or NoTime
    delivered        \* delivered[h][s]: the times passed to h's onEvent

regVars == <<subSet, fromTime, queue, notifyTimeout, total, listeners, events,
             itemFrom, fromTimes, addTS, removeTS, sendSubTimeout>>
envVars == <<resetSub, connected, serverTS, delivered>>
vars == <<regVars, closed, envVars>>

\* The registry state as one record, and the step that installs a new one.
Reg == [subSet |-> subSet, fromTime |-> fromTime, queue |-> queue,
        notifyTimeout |-> notifyTimeout, total |-> total, listeners |-> listeners,
        events |-> events, itemFrom |-> itemFrom, fromTimes |-> fromTimes,
        addTS |-> addTS, removeTS |-> removeTS, sendSubTimeout |-> sendSubTimeout]

Commit(r) ==
    /\ subSet' = r.subSet /\ fromTime' = r.fromTime /\ queue' = r.queue
    /\ notifyTimeout' = r.notifyTimeout /\ total' = r.total
    /\ listeners' = r.listeners /\ events' = r.events /\ itemFrom' = r.itemFrom
    /\ fromTimes' = r.fromTimes /\ addTS' = r.addTS /\ removeTS' = r.removeTS
    /\ sendSubTimeout' = r.sendSubTimeout

\* The minimum the loop of removeSymbolsImpl computes over item.fromTimes.
MinFromTimes(seq) ==
    LET f[i \in 0..Len(seq)] ==
          IF i = 0 THEN Infinity
          ELSE IF JSLess(seq[i], f[i - 1]) THEN seq[i] ELSE f[i - 1]
    IN f[Len(seq)]

-----------------------------------------------------------------------------
\* notifyLater(): arm h's notify timer when a step queued something for it.
NotifyLaterInverted(nt, h, cond) == nt
NotifyLater(nt, h, cond) == [nt EXCEPT ![h] = @ \/ cond]

(***************************************************************************)
(* addSymbolsImpl(A) for a time-series Sub, A the symbols not yet held.    *)
(***************************************************************************)
AddImpl(r, h, A) ==
    LET f       == r.fromTime[h]
        created == A \ r.total
        lowered == {s \in A : JSLess(f, IF s \in created THEN Infinity ELSE r.itemFrom[s])}
        updated == created \cup lowered
        fire    == {s \in A : r.events[s] # {}}
    IN [r EXCEPT
         !.subSet[h] = @ \cup A,
         !.total = @ \cup A,
         !.listeners = [s \in Symbols |-> IF s \in A THEN Append(@[s], h) ELSE @[s]],
         !.fromTimes = [s \in Symbols |-> IF s \in created THEN <<f>>
                                          ELSE IF s \in A THEN Append(@[s], f) ELSE @[s]],
         !.itemFrom  = [s \in Symbols |-> IF s \in lowered THEN f
                                          ELSE IF s \in created THEN Infinity ELSE @[s]],
         !.queue[h]  = [s \in Symbols |-> IF s \in fire THEN @[s] \cup r.events[s] ELSE @[s]],
         !.addTS     = [s \in Symbols |-> IF s \in updated THEN f ELSE @[s]],
         !.removeTS  = @ \ updated,
         !.sendSubTimeout = @ \/ updated # {},
         !.notifyTimeout = NotifyLater(@, h, fire # {})]

RemoveImplNoRaiseDiff(r, h, R) ==
    LET ls      == [s \in Symbols |-> IF s \in R THEN RemoveFirst(r.listeners[s], h)
                                      ELSE r.listeners[s]]
        dropped == {s \in R : ls[s] = <<>>}
        kept    == R \ dropped
        fts     == [s \in Symbols |-> IF s \in kept THEN RemoveFirst(r.fromTimes[s], r.fromTime[h])
                                      ELSE r.fromTimes[s]]
        raised  == {s \in kept : r.itemFrom[s] # MinFromTimes(fts[s])}
    IN [r EXCEPT
         !.subSet[h] = @ \ R,
         !.queue[h]  = [s \in Symbols |-> IF s \in R THEN {} ELSE @[s]],
         !.listeners = ls,
         !.total     = @ \ dropped,
         !.events    = [s \in Symbols |-> IF s \in dropped THEN {} ELSE @[s]],
         !.fromTimes = [s \in Symbols |-> IF s \in dropped THEN <<>> ELSE fts[s]],
         !.itemFrom  = [s \in Symbols |-> IF s \in raised THEN MinFromTimes(fts[s])
                                          ELSE IF s \in dropped THEN Infinity ELSE @[s]],
         !.addTS     = [s \in Symbols |-> IF s \in dropped THEN NoTime ELSE @[s]],
         !.removeTS  = (@ \ raised) \cup dropped,
         !.sendSubTimeout = @ \/ (dropped \cup raised) # {}]

(***************************************************************************)
(* removeSymbolsImpl(R) for a time-series Sub, R the symbols it holds.     *)
(* When the bound rises, the loop meant to drop the cached events before   *)
(* the new bound executes `delete event.time[event.time]`, which deletes   *)
(* nothing: item.events is left as it is.                                  *)
(***************************************************************************)
RemoveImpl(r, h, R) ==
    LET ls      == [s \in Symbols |-> IF s \in R THEN RemoveFirst(r.listeners[s], h)
                                      ELSE r.listeners[s]]
        dropped == {s \in R : ls[s] = <<>>}
        kept    == R \ dropped
        fts     == [s \in Symbols |-> IF s \in kept THEN RemoveFirst(r.fromTimes[s], r.fromTime[h])
                                      ELSE r.fromTimes[s]]
        raised  == {s \in kept : r.itemFrom[s] # MinFromTimes(fts[s])}
    IN [r EXCEPT
         !.subSet[h] = @ \ R,
         !.queue[h]  = [s \in Symbols |-> IF s \in R THEN {} ELSE @[s]],
         !.listeners = ls,
         !.total     = @ \ dropped,
         !.events    = [s \in Symbols |-> IF s \in dropped THEN {} ELSE @[s]],
         !.fromTimes = [s \in Symbols |-> IF s \in dropped THEN <<>> ELSE fts[s]],
         !.itemFrom  = [s \in Symbols |-> IF s \in raised THEN MinFromTimes(fts[s])
                                          ELSE IF s \in dropped THEN Infinity ELSE @[s]],
         !.addTS     = [s \in Symbols |-> IF s \in raised THEN MinFromTimes(fts[s])
                                          ELSE IF s \in dropped THEN NoTime ELSE @[s]],
         !.removeTS  = (@ \ raised) \cup dropped,
         !.sendSubTimeout = @ \/ (dropped \cup raised) # {}]

-----------------------------------------------------------------------------
(***************************************************************************)
(* Sub API. close() replaces addSymbols, removeSymbols, setSymbols and     *)
(* close by nop, but not setFromTime, which keeps working on the now empty *)
(* subSet.                                                                 *)
(***************************************************************************)
AddSymbols(h, syms) ==
    /\ ~closed[h]
    /\ Commit(AddImpl(Reg, h, syms \ subSet[h]))
    /\ UNCHANGED <<closed, envVars>>

RemoveSymbols(h, syms) ==
    /\ ~closed[h]
    /\ Commit(RemoveImpl(Reg, h, syms \cap subSet[h]))
    /\ UNCHANGED <<closed, envVars>>

\* setSymbolsImpl: all removals, then all additions, in one task.
SetSymbols(h, syms) ==
    /\ ~closed[h]
    /\ Commit(AddImpl(RemoveImpl(Reg, h, subSet[h] \ syms), h, syms \ subSet[h]))
    /\ UNCHANGED <<closed, envVars>>

Close(h) ==
    /\ ~closed[h]
    /\ Commit(RemoveImpl(Reg, h, subSet[h]))
    /\ closed' = [closed EXCEPT ![h] = TRUE]
    /\ UNCHANGED envVars

\* setFromTimeImpl: an invalid time (NaN) only logs a warning; a valid one
\* removes every held symbol, stores the new bound and adds them back.
SetFromTimeNoValidate(h, t) ==
    LET removed == RemoveImpl(Reg, h, subSet[h])
    IN /\ Commit(AddImpl([removed EXCEPT !.fromTime[h] = t], h, subSet[h]))
       /\ UNCHANGED <<closed, envVars>>

SetFromTimeAssignFirst(h, t) ==
    /\ t # NaN
    /\ LET r1 == [Reg EXCEPT !.fromTime[h] = t]
       IN Commit(AddImpl(RemoveImpl(r1, h, subSet[h]), h, subSet[h]))
    /\ UNCHANGED <<closed, envVars>>

SetFromTime(h, t) ==
    /\ t # NaN
    /\ LET removed == RemoveImpl(Reg, h, subSet[h])
       IN Commit(AddImpl([removed EXCEPT !.fromTime[h] = t], h, subSet[h]))
    /\ UNCHANGED <<closed, envVars>>

\* notify(): one timer task hands the whole queue to onEvent and empties it.
Notify(h) ==
    /\ notifyTimeout[h]
    /\ delivered' = [delivered EXCEPT ![h] = [s \in Symbols |-> @[s] \cup queue[h][s]]]
    /\ queue' = [queue EXCEPT ![h] = [s \in Symbols |-> {}]]
    /\ notifyTimeout' = [notifyTimeout EXCEPT ![h] = FALSE]
    /\ UNCHANGED <<subSet, fromTime, total, listeners, events, itemFrom, fromTimes,
                   addTS, removeTS, sendSubTimeout, closed, resetSub, connected, serverTS>>

-----------------------------------------------------------------------------
(***************************************************************************)
(* FeedImpl.sendSub, time-series part. While disconnected it only clears   *)
(* the timer and the diffs wait. Connected, a reset sends the whole table  *)
(* with each item's fromTime and drops the diffs; otherwise the pending    *)
(* addTimeSeries and removeTimeSeries are sent and cleared. serverTS is    *)
(* the server's view after it applies the message.                         *)
(***************************************************************************)
ServerAfterDiff(s) ==
    IF addTS[s] # NoTime THEN addTS[s]
    ELSE IF s \in removeTS THEN NoTime ELSE serverTS[s]

SendSub ==
    /\ sendSubTimeout
    /\ sendSubTimeout' = FALSE
    /\ IF connected
       THEN /\ serverTS' = [s \in Symbols |->
                              IF resetSub THEN (IF s \in total THEN itemFrom[s] ELSE NoTime)
                              ELSE ServerAfterDiff(s)]
            /\ addTS' = [s \in Symbols |-> NoTime]
            /\ removeTS' = {}
            /\ resetSub' = FALSE
       ELSE UNCHANGED <<serverTS, addTS, removeTS, resetSub>>
    /\ UNCHANGED <<subSet, fromTime, queue, notifyTimeout, total, listeners, events,
                   itemFrom, fromTimes, closed, connected, delivered>>

\* processEvent's filter: a handle keeps an event at or after its own bound.
AdmitsStrict(t, f) == JSLess(f, t)
Admits(t, f) == JSGeq(t, f)

(***************************************************************************)
(* onData(data, true) for one record (s, t), sent by the server for a     *)
(* symbol it holds from a bound at most t. A symbol with no item is       *)
(* skipped. Otherwise the record overwrites index t of item.events and     *)
(* goes to every listener, which filters it and always calls notifyLater. *)
(***************************************************************************)
OnData(s, t) ==
    /\ connected /\ serverTS[s] # NoTime /\ JSGeq(t, serverTS[s])
    /\ s \in total
    /\ events' = [events EXCEPT ![s] = @ \cup {t}]
    /\ queue' = [h \in Handles |->
                   IF h \in Range(listeners[s]) /\ Admits(t, fromTime[h])
                   THEN [queue[h] EXCEPT ![s] = @ \cup {t}] ELSE queue[h]]
    /\ notifyTimeout' = [h \in Handles |-> notifyTimeout[h] \/ h \in Range(listeners[s])]
    /\ UNCHANGED <<subSet, fromTime, total, listeners, itemFrom, fromTimes, addTS,
                   removeTS, sendSubTimeout, closed, envVars>>

\* A lost connection (failed /meta/connect): the server keeps the session.
ConnectionLost ==
    /\ connected
    /\ connected' = FALSE
    /\ UNCHANGED <<regVars, closed, resetSub, serverTS, delivered>>

\* A new session (successful handshake and connect): the server holds
\* nothing, and onStateChange(connected) sets resetSub and calls sendSubLater.
ReconnectNoSendSub ==
    /\ ~connected
    /\ connected' = TRUE
    /\ serverTS' = [s \in Symbols |-> NoTime]
    /\ resetSub' = TRUE
    /\ UNCHANGED <<regVars, closed, delivered>>

Reconnect ==
    /\ ~connected
    /\ connected' = TRUE
    /\ serverTS' = [s \in Symbols |-> NoTime]
    /\ resetSub' = TRUE
    /\ sendSubTimeout' = TRUE
    /\ UNCHANGED <<subSet, fromTime, queue, notifyTimeout, total, listeners, events,
                   itemFrom, fromTimes, addTS, removeTS, closed, delivered>>

-----------------------------------------------------------------------------
Init ==
    /\ subSet = [h \in Handles |-> {}]
    /\ closed = [h \in Handles |-> FALSE]
    /\ fromTime = [h \in Handles |-> Infinity]
    /\ queue = [h \in Handles |-> [s \in Symbols |-> {}]]
    /\ notifyTimeout = [h \in Handles |-> FALSE]
    /\ total = {}
    /\ listeners = [s \in Symbols |-> <<>>]
    /\ events = [s \in Symbols |-> {}]
    /\ itemFrom = [s \in Symbols |-> Infinity]
    /\ fromTimes = [s \in Symbols |-> <<>>]
    /\ addTS = [s \in Symbols |-> NoTime]
    /\ removeTS = {}
    /\ sendSubTimeout = FALSE
    /\ resetSub = FALSE
    /\ connected = FALSE
    /\ serverTS = [s \in Symbols |-> NoTime]
    /\ delivered = [h \in Handles |-> [s \in Symbols |-> {}]]

Next ==
    \/ \E h \in Handles, syms \in SUBSET Symbols :
          AddSymbols(h, syms) \/ RemoveSymbols(h, syms) \/ SetSymbols(h, syms)
    \/ \E h \in Handles : Close(h) \/ Notify(h)
    \/ \E h \in Handles, t \in Bounds \cup {NaN} : SetFromTime(h, t)
    \/ SendSub
    \/ \E s \in Symbols, t \in Times : OnData(s, t)
    \/ ConnectionLost \/ Reconnect

\* The timers are FIFO tasks that nothing cancels: once armed, sendSub and
\* notify stay enabled until they run.
Fairness == WF_vars(SendSub) /\ \A h \in Handles : WF_vars(Notify(h))

Spec == Init /\ [][Next]_vars /\ Fairness

-----------------------------------------------------------------------------
(***************************************************************************)
(* Properties                                                              *)
(***************************************************************************)
Holders(s) == {h \in Handles : s \in subSet[h]}

\* The bag of the bounds of the handles holding s.
HolderBounds(s) ==
    [t \in {fromTime[h] : h \in Holders(s)} |->
        Cardinality({h \in Holders(s) : fromTime[h] = t})]

\* The server bound the pending diffs will leave once sendSub publishes them.
ExpectedServerBound(s) == IF s \in total THEN itemFrom[s] ELSE NoTime

TypeOK ==
    /\ subSet \in [Handles -> SUBSET Symbols]
    /\ closed \in [Handles -> BOOLEAN]
    /\ fromTime \in [Handles -> Bounds]
    /\ queue \in [Handles -> [Symbols -> SUBSET Times]]
    /\ notifyTimeout \in [Handles -> BOOLEAN]
    /\ total \subseteq Symbols
    /\ listeners \in [Symbols -> BoundedSeq(Handles, Cardinality(Handles))]
    /\ events \in [Symbols -> SUBSET Times]
    /\ itemFrom \in [Symbols -> Bounds]
    /\ fromTimes \in [Symbols -> BoundedSeq(Bounds, Cardinality(Handles))]
    /\ addTS \in [Symbols -> Bounds \cup {NoTime}]
    /\ removeTS \subseteq Symbols
    /\ sendSubTimeout \in BOOLEAN /\ resetSub \in BOOLEAN /\ connected \in BOOLEAN
    /\ serverTS \in [Symbols -> Bounds \cup {NoTime}]
    /\ delivered \in [Handles -> [Symbols -> SUBSET Times]]

\* The aggregate item of s exists exactly while some handle holds s; its
\* listeners list each holder once, item.fromTimes is the bag of their
\* bounds and item.fromTime their minimum (spec section 8). removeSymbolsImpl
\* finds the entry to drop from fromTimes by the handle's current fromTime,
\* so this is about the order of the steps of setFromTimeImpl.
AggregateBoundIsMinimum ==
    \A s \in Symbols :
        /\ s \in total <=> Holders(s) # {}
        /\ Len(listeners[s]) = Cardinality(Holders(s))
        /\ Range(listeners[s]) = Holders(s)
        /\ s \in total =>
              /\ ToBag(fromTimes[s]) = HolderBounds(s)
              /\ itemFrom[s] = Min({fromTime[h] : h \in Holders(s)})

\* While connected and no reset is pending, the server's bounds with the
\* pending addTimeSeries/removeTimeSeries diffs applied are the aggregate
\* table's bounds, the two diff sets are disjoint, and with no sendSub timer
\* armed nothing is pending: the incremental diffs of add, remove and
\* setFromTime, and the reset after a new session, lose no change.
ServerBoundTracksTotal ==
    /\ \A s \in removeTS : addTS[s] = NoTime
    /\ connected /\ ~resetSub =>
          /\ \A s \in Symbols : ServerAfterDiff(s) = ExpectedServerBound(s)
          /\ ~sendSubTimeout => (removeTS = {} /\ \A s \in Symbols : addTS[s] = NoTime)

\* Every cached event of a held symbol at or after the handle's own bound
\* has reached its onEvent or waits in its queue: processEvent's filter and
\* the replay of item.events on join (and on setFromTime) drop nothing.
CachedSeriesReplayed ==
    \A h \in Handles, s \in Symbols :
        s \in subSet[h] =>
            \A t \in events[s] : JSGeq(t, fromTime[h]) =>
                t \in delivered[h][s] \cup queue[h][s]

\* A handle is only ever handed events at or after its own fromTime
\* (spec 4.2: the cached events delivered to a joining handle are those at
\* or after the bound, each handle filtering against its own fromTime).
QueuedNotBeforeFromTime ==
    \A h \in Handles, s \in Symbols, t \in Times :
        t \in queue[h][s] => JSGeq(t, fromTime[h])

\* Infinitely often the server holds exactly the aggregate table's bounds,
\* or the connection is down: after every change, and after every new
\* session, sendSub eventually brings the server up to date.
ServerEventuallyInSync ==
    []<>(~connected \/ \A s \in Symbols : serverTS[s] = ExpectedServerBound(s))

\* Each handle's queue is emptied infinitely often: whatever a step queues
\* (processEvent, or the replay of addSymbolsImpl) has armed the notify
\* timer, so it is handed to onEvent or dropped by a removal, and never
\* sits in the queue with no task left to deliver it.
QueueEventuallyDrained ==
    \A h \in Handles : []<>(\A s \in Symbols : queue[h][s] = {})

=====
