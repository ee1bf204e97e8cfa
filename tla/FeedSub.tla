------------------------------- MODULE FeedSub -------------------------------
(***************************************************************************)
(* Regular (non time-series) subscriptions of dxfeed.cometd.js: the Sub    *)
(* objects (subSet, queue, notifyTimeout, notify), the FeedImpl aggregate  *)
(* table totalSub with its listener arrays and cached last events, the     *)
(* pending diffs addSub/removeSub flushed by sendSub, and the connection   *)
(* state of EndpointImpl that triggers the full "reset" resubscription.    *)
(*                                                                         *)
(* The page is single threaded: every action is one task of the event     *)
(* loop (a user call, a setTimeout(fn, 0) callback, a CometD listener).    *)
(* The only nesting is the consumer callback sub.onEvent, called from      *)
(* inside notify(); notify is therefore split into steps, and while it     *)
(* runs only the consumer's own calls into the Sub API may interleave      *)
(* (and only when ReentrantCallbacks is TRUE).                             *)
(*                                                                         *)
(* One event type is modelled: a key of the aggregate table is a symbol.  *)
(* Events are numbered by arrival; an event is its number.                 *)
(***************************************************************************)
EXTENDS Naturals, FiniteSets, Sequences, SequencesExt

CONSTANTS
    Handles,            \* the Sub objects created by createSubscription
    Symbols,            \* the symbols the consumers may subscribe to
    MaxEvents,          \* bound on the number of events the server pushes
    ReentrantCallbacks, \* may sub.onEvent call back into the Sub API?
    None                \* no notify() loop is running

ASSUME MaxEvents \in Nat \ {0}
ASSUME ReentrantCallbacks \in BOOLEAN
ASSUME None \notin Handles

NoEvent == 0            \* item.event === null / no queue entry
Events == 1..MaxEvents

VARIABLES
    \* ---- Sub (one per handle) ----
    subSet,          \* subSet: the symbols the handle holds
    closed,          \* close() replaced the mutators by nop
    queue,           \* queue[h][s]: event waiting for notify, or NoEvent
    notifyTimeout,   \* notifyTimeout !== null
    \* ---- FeedImpl ----
    total,           \* symbols having an item in totalSub
    listeners,       \* item.listeners, an array of handles (processEvent)
    itemEvent,       \* item.event, the cached last event
    addSub,          \* pending additions
    removeSub,       \* pending removals
    sendSubTimeout,  \* sendSubTimeout !== null
    resetSub,        \* the next sendSub must send the whole table
    \* ---- EndpointImpl ----
    connectCalled,   \* connect() was called once
    cometd,          \* cometd !== null
    connected,       \* endpoint's connected flag
    stateConnected,  \* feedImpl.state.connected, seen by the page
    disconnectCalled, \* history: disconnect() has dropped a CometD instance
    \* ---- environment and history ----
    serverSub,       \* the subscription the server holds for this session
    nextEvent,       \* number of events pushed so far
    notifying,       \* the handle whose notify() loop is running, or None
    startKeys,       \* the keys the running for-in loop started with
    visited,         \* the keys it has visited so far
    delivered        \* delivered[h][s]: last event passed to h's onEvent

subVars      == <<subSet, closed, queue, notifyTimeout>>
feedVars     == <<total, listeners, itemEvent, addSub, removeSub, sendSubTimeout, resetSub>>
endpointVars == <<connectCalled, cometd, connected, stateConnected, disconnectCalled>>
envVars      == <<serverSub, nextEvent, notifying, startKeys, visited, delivered>>
vars == <<subVars, feedVars, endpointVars, envVars>>

Queued(h) == {s \in Symbols : queue[h][s] # NoEvent}

-----------------------------------------------------------------------------
(***************************************************************************)
(* Sub API. addSymbolsImpl and removeSymbolsImpl loop over the symbols;    *)
(* the per-symbol steps touch only that symbol's entries, so the loop is   *)
(* the simultaneous update below. A are the symbols added, R the symbols   *)
(* removed; setSymbolsImpl is the removal of R followed by the addition of *)
(* A with A and R disjoint, which is the same update.                      *)
(***************************************************************************)
\* The joined symbols whose item already has a cached event: the event is
\* copied into the handle's queue and notifyLater is called.
\* Mutant: the join-time replay of item.event is missing.
CachedOnJoinNone(A) == {}

CachedOnJoin(A) == {s \in A : itemEvent[s] # NoEvent}

SymbolsImpl(h, A, R) ==
    LET ls      == [s \in Symbols |->
                      IF s \in A THEN Append(listeners[s], h)
                      ELSE IF s \in R THEN RemoveFirst(listeners[s], h)
                      ELSE listeners[s]]
        created == A \ total                       \* if (!item) ... updated
        dropped == {s \in R : ls[s] = <<>>}        \* listeners.length === 0
        fire    == CachedOnJoin(A)
    IN  /\ subSet' = [subSet EXCEPT ![h] = (@ \ R) \cup A]
        /\ listeners' = ls
        /\ total' = (total \ dropped) \cup A
        /\ itemEvent' = [s \in Symbols |-> IF s \in dropped THEN NoEvent ELSE itemEvent[s]]
        /\ addSub' = (addSub \ dropped) \cup created
        /\ removeSub' = (removeSub \ created) \cup dropped
        /\ sendSubTimeout' = (sendSubTimeout \/ created \cup dropped # {})
        /\ queue' = [queue EXCEPT ![h] =
                       [s \in Symbols |-> IF s \in R THEN NoEvent
                                          ELSE IF s \in fire THEN itemEvent[s]
                                          ELSE @[s]]]
        /\ notifyTimeout' = [notifyTimeout EXCEPT ![h] = @ \/ fire # {}]
        /\ UNCHANGED resetSub

\* User code runs when no task is running, or from inside an onEvent call
\* (the one for the key visited last) when the consumer calls back into the API.
ConsumerMayRun == notifying = None \/ (ReentrantCallbacks /\ visited # {})

\* Mutant: the `if (inSet(subSet, symbol)) return` check is missing.
AddSymbolsNoHeldCheck(h, syms) ==
    /\ ConsumerMayRun /\ ~closed[h]
    /\ SymbolsImpl(h, syms, {})
    /\ UNCHANGED <<closed, endpointVars, envVars>>

AddSymbols(h, syms) ==
    /\ ConsumerMayRun /\ ~closed[h]
    /\ SymbolsImpl(h, syms \ subSet[h], {})
    /\ UNCHANGED <<closed, endpointVars, envVars>>

RemoveSymbols(h, syms) ==
    /\ ConsumerMayRun /\ ~closed[h]
    /\ SymbolsImpl(h, {}, syms \cap subSet[h])
    /\ UNCHANGED <<closed, endpointVars, envVars>>

SetSymbols(h, syms) ==
    /\ ConsumerMayRun /\ ~closed[h]
    /\ SymbolsImpl(h, syms \ subSet[h], subSet[h] \ syms)
    /\ UNCHANGED <<closed, endpointVars, envVars>>

Close(h) ==
    /\ ConsumerMayRun /\ ~closed[h]
    /\ SymbolsImpl(h, {}, subSet[h])
    /\ closed' = [closed EXCEPT ![h] = TRUE]
    /\ UNCHANGED <<endpointVars, envVars>>

-----------------------------------------------------------------------------
(***************************************************************************)
(* notify(): notifyTimeout = null, then for-in over queue calling onEvent  *)
(* for every entry, then delete queue[type]. The for-in loop visits the    *)
(* keys present when it started that are still present; a key added by    *)
(* onEvent during the loop may or may not be visited.                      *)
(***************************************************************************)
NotifyStart(h) ==
    /\ notifying = None /\ notifyTimeout[h]
    /\ notifyTimeout' = [notifyTimeout EXCEPT ![h] = FALSE]
    /\ notifying' = h
    /\ startKeys' = Queued(h)
    /\ visited' = {}
    /\ UNCHANGED <<subSet, closed, queue, feedVars, endpointVars, serverSub, nextEvent, delivered>>

NotifyStep(h) ==
    /\ notifying = h
    /\ \E s \in Queued(h) \ visited :
          /\ delivered' = [delivered EXCEPT ![h][s] = queue[h][s]]
          /\ visited' = visited \cup {s}
    /\ UNCHANGED <<subVars, feedVars, endpointVars, serverSub, nextEvent, notifying, startKeys>>

NotifyEnd(h) ==
    /\ notifying = h
    /\ startKeys \cap Queued(h) \subseteq visited
    /\ queue' = [queue EXCEPT ![h] = [s \in Symbols |-> NoEvent]]
    /\ notifying' = None
    /\ startKeys' = {} /\ visited' = {}
    /\ UNCHANGED <<subSet, closed, notifyTimeout, feedVars, endpointVars, serverSub, nextEvent, delivered>>

-----------------------------------------------------------------------------
(***************************************************************************)
(* FeedImpl.sendSub (setTimeout callback) and onData (CometD listener).    *)
(***************************************************************************)
\* endpointImpl.connectIfNeeded(): the first use calls connect().
ConnectIfNeeded ==
    /\ connectCalled' = TRUE
    /\ cometd' = (cometd \/ ~connectCalled)

\* The server's view after a "sub" message: reset replaces it.
ApplySubMessage(reset, add, remove) ==
    IF reset THEN add ELSE (serverSub \ remove) \cup add

\* Mutant: the reset branch is lost; only the pending diffs are sent.
SendSubIgnoringReset ==
    /\ notifying = None /\ sendSubTimeout
    /\ sendSubTimeout' = FALSE
    /\ ConnectIfNeeded
    /\ IF connected
         THEN /\ addSub' = {} /\ removeSub' = {} /\ resetSub' = FALSE
              /\ serverSub' = ApplySubMessage(FALSE, addSub, removeSub)
         ELSE UNCHANGED <<addSub, removeSub, resetSub, serverSub>>
    /\ UNCHANGED <<subVars, total, listeners, itemEvent, connected, stateConnected, disconnectCalled,
                   nextEvent, notifying, startKeys, visited, delivered>>

SendSub ==
    /\ notifying = None /\ sendSubTimeout
    /\ sendSubTimeout' = FALSE
    /\ ConnectIfNeeded
    /\ IF connected
         THEN /\ addSub' = {} /\ removeSub' = {} /\ resetSub' = FALSE
              /\ serverSub' = IF resetSub THEN ApplySubMessage(TRUE, total, {})
                                          ELSE ApplySubMessage(FALSE, addSub, removeSub)
         ELSE UNCHANGED <<addSub, removeSub, resetSub, serverSub>>
    /\ UNCHANGED <<subVars, total, listeners, itemEvent, connected, stateConnected, disconnectCalled,
                   nextEvent, notifying, startKeys, visited, delivered>>

\* item.event = event: the item caches the last event.
\* Mutant: only the first event is cached.
CacheEventFirstOnly(s, e) == [itemEvent EXCEPT ![s] = IF @ = NoEvent THEN e ELSE @]
CacheEvent(s, e) == [itemEvent EXCEPT ![s] = e]

\* processEvent of each listener: mapPut(queue, ...) and notifyLater().
\* Mutant: notifyLater() is not called.
ProcessEventNoNotify(hs, s, e) ==
    /\ queue' = [h \in Handles |-> IF h \in hs THEN [queue[h] EXCEPT ![s] = e] ELSE queue[h]]
    /\ UNCHANGED notifyTimeout
ProcessEvent(hs, s, e) ==
    /\ queue' = [h \in Handles |-> IF h \in hs THEN [queue[h] EXCEPT ![s] = e] ELSE queue[h]]
    /\ notifyTimeout' = [h \in Handles |-> notifyTimeout[h] \/ h \in hs]

\* Mutant: the number of events is not bounded by MaxEvents.
OnDataUnbounded(s) ==
    /\ notifying = None /\ connected
    /\ s \in serverSub
    /\ nextEvent' = nextEvent + 1
    /\ IF s \in total
         THEN /\ itemEvent' = CacheEvent(s, nextEvent + 1)
              /\ ProcessEvent(ToSet(listeners[s]), s, nextEvent + 1)
         ELSE UNCHANGED <<itemEvent, queue, notifyTimeout>>
    /\ UNCHANGED <<subSet, closed, total, listeners, addSub, removeSub, sendSubTimeout,
                   resetSub, endpointVars, serverSub, notifying, startKeys, visited, delivered>>

\* onData for a symbol of this session's subscription: the record is cached
\* in its item and passed to processEvent of every listener.
OnData(s) ==
    /\ notifying = None /\ connected
    /\ s \in serverSub
    /\ nextEvent < MaxEvents
    /\ nextEvent' = nextEvent + 1
    /\ IF s \in total
         THEN /\ itemEvent' = CacheEvent(s, nextEvent + 1)
              /\ ProcessEvent(ToSet(listeners[s]), s, nextEvent + 1)
         ELSE UNCHANGED <<itemEvent, queue, notifyTimeout>>
    /\ UNCHANGED <<subSet, closed, total, listeners, addSub, removeSub, sendSubTimeout,
                   resetSub, endpointVars, serverSub, notifying, startKeys, visited, delivered>>

-----------------------------------------------------------------------------
(***************************************************************************)
(* EndpointImpl: connect(), disconnect() and the /meta listeners.          *)
(***************************************************************************)
\* updateConnectedState followed by FeedImpl.onStateChange({connected}).
\* FeedImpl.onStateChange({connected: c}): a connection asks for the reset
\* resubscription; the flag is copied into the page-visible state.
\* Mutant: the reset is not requested.
OnStateChangeNoReset(c) ==
    /\ stateConnected' = c
    /\ UNCHANGED <<resetSub, sendSubTimeout>>
OnStateChange(c) ==
    /\ stateConnected' = c
    /\ IF c THEN resetSub' = TRUE /\ sendSubTimeout' = TRUE
            ELSE UNCHANGED <<resetSub, sendSubTimeout>>

\* updateConnectedState notifying the feed of a new connection only.
UpdateConnectedStateOnConnectOnly(newConnected) ==
    IF connected # newConnected
      THEN connected' = newConnected /\
           IF newConnected THEN OnStateChange(newConnected)
           ELSE UNCHANGED <<stateConnected, resetSub, sendSubTimeout>>
      ELSE UNCHANGED <<connected, stateConnected, resetSub, sendSubTimeout>>

\* EndpointImpl.updateConnectedState: notifies only on a change.
UpdateConnectedState(newConnected) ==
    IF connected # newConnected
      THEN connected' = newConnected /\ OnStateChange(newConnected)
      ELSE UNCHANGED <<connected, stateConnected, resetSub, sendSubTimeout>>

Connect ==
    /\ notifying = None /\ ~cometd
    /\ connectCalled' = TRUE /\ cometd' = TRUE
    /\ UNCHANGED <<subVars, feedVars, connected, stateConnected, disconnectCalled, envVars>>

\* onMetaHandshake: a handshake is made while not connected; when it
\* succeeds the server has opened a new session holding no subscription.
\* A reply after disconnect() finds cometd === null and reports false.
MetaHandshake(successful) ==
    /\ notifying = None /\ connectCalled /\ ~connected
    /\ UpdateConnectedState(cometd /\ successful)
    /\ serverSub' = IF cometd /\ successful THEN {} ELSE serverSub
    /\ UNCHANGED <<subVars, total, listeners, itemEvent, addSub, removeSub,
                   connectCalled, cometd, disconnectCalled, nextEvent, notifying, startKeys,
                   visited, delivered>>

\* onMetaConnect (the session's long poll, successful or not) and
\* onMetaUnsuccessful (always false): the server session is kept.
MetaConnect(successful) ==
    /\ notifying = None /\ connectCalled
    /\ UpdateConnectedState(cometd /\ successful)
    /\ UNCHANGED <<subVars, total, listeners, itemEvent, addSub, removeSub,
                   connectCalled, cometd, disconnectCalled, envVars>>

\* disconnect(): drops the CometD instance and sets connected = false
\* directly, without onStateChange.
Disconnect ==
    /\ notifying = None /\ cometd
    /\ cometd' = FALSE /\ connected' = FALSE /\ disconnectCalled' = TRUE
    /\ UNCHANGED <<subVars, feedVars, connectCalled, stateConnected, envVars>>

-----------------------------------------------------------------------------
Init ==
    /\ subSet = [h \in Handles |-> {}]
    /\ closed = [h \in Handles |-> FALSE]
    /\ queue = [h \in Handles |-> [s \in Symbols |-> NoEvent]]
    /\ notifyTimeout = [h \in Handles |-> FALSE]
    /\ total = {}
    /\ listeners = [s \in Symbols |-> <<>>]
    /\ itemEvent = [s \in Symbols |-> NoEvent]
    /\ addSub = {} /\ removeSub = {}
    /\ sendSubTimeout = FALSE /\ resetSub = FALSE
    /\ connectCalled = FALSE /\ cometd = FALSE
    /\ connected = FALSE /\ stateConnected = FALSE /\ disconnectCalled = FALSE
    /\ serverSub = {} /\ nextEvent = 0
    /\ notifying = None /\ startKeys = {} /\ visited = {}
    /\ delivered = [h \in Handles |-> [s \in Symbols |-> NoEvent]]

Next ==
    \/ \E h \in Handles, syms \in SUBSET Symbols :
          \/ AddSymbols(h, syms) \/ RemoveSymbols(h, syms) \/ SetSymbols(h, syms)
    \/ \E h \in Handles : Close(h) \/ NotifyStart(h) \/ NotifyStep(h) \/ NotifyEnd(h)
    \/ SendSub
    \/ \E s \in Symbols : OnData(s)
    \/ Connect \/ Disconnect
    \/ \E ok \in BOOLEAN : MetaHandshake(ok) \/ MetaConnect(ok)

\* setTimeout(fn, 0) callbacks run eventually and in the order they were
\* scheduled, so a pending one cannot be overtaken forever by callbacks
\* scheduled after it: strong fairness on starting them. A running notify()
\* loop finishes. The user, the server and the network owe nothing.
Fairness ==
    /\ SF_vars(SendSub)
    /\ \A h \in Handles : SF_vars(NotifyStart(h)) /\ WF_vars(NotifyStep(h)) /\ WF_vars(NotifyEnd(h))

Spec == Init /\ [][Next]_vars /\ Fairness

-----------------------------------------------------------------------------
(***************************************************************************)
(* Properties                                                              *)
(***************************************************************************)
TypeOK ==
    /\ subSet \in [Handles -> SUBSET Symbols]
    /\ closed \in [Handles -> BOOLEAN]
    /\ queue \in [Handles -> [Symbols -> {NoEvent} \cup Events]]
    /\ notifyTimeout \in [Handles -> BOOLEAN]
    /\ total \subseteq Symbols
    /\ \A s \in Symbols : listeners[s] \in Seq(Handles)
    /\ itemEvent \in [Symbols -> {NoEvent} \cup Events]
    /\ addSub \subseteq Symbols /\ removeSub \subseteq Symbols
    /\ {sendSubTimeout, resetSub, connectCalled, cometd, connected, stateConnected,
        disconnectCalled} \subseteq BOOLEAN
    /\ serverSub \subseteq Symbols
    /\ nextEvent \in 0..MaxEvents
    /\ notifying \in Handles \cup {None}
    /\ visited \subseteq Symbols /\ startKeys \subseteq Symbols
    /\ delivered \in [Handles -> [Symbols -> {NoEvent} \cup Events]]

\* Reference counting of addSymbolsImpl/removeSymbolsImpl/close: an item of
\* totalSub exists exactly for the symbols some handle holds, its listener
\* array names each holder exactly once, and a closed Sub holds nothing.
ListenersMatchSubSets ==
    /\ total = UNION {subSet[h] : h \in Handles}
    /\ \A s \in Symbols, h \in Handles :
          Len(SelectSeq(listeners[s], LAMBDA x : x = h)) = IF s \in subSet[h] THEN 1 ELSE 0
    /\ \A h \in Handles : closed[h] => subSet[h] = {}

\* feed.state.connected, which the page sees, follows the endpoint's flag
\* through every /meta handshake, connect and unsuccessful reply (each goes
\* through updateConnectedState, which notifies on a change): the two
\* disagree only after disconnect(), which clears the endpoint's flag
\* without onStateChange, and then the page is told it is still connected.
PageConnectedStaleOnlyAfterDisconnect ==
    stateConnected # connected => stateConnected /\ ~connected /\ disconnectCalled

\* FeedSub implements SubscriptionAbstract under the mapping held <- total,
\* server <- serverSub, up <- connected: every subscription message sendSub
\* sends, a diff or the reset after a (re)connect, leaves the server holding
\* exactly FeedImpl's table; only a new session's handshake empties it.
Abstract == INSTANCE SubscriptionAbstract WITH held <- total, server <- serverSub, up <- connected
SubscriptionAbstractRefinement == Abstract!Spec

\* Every event waiting in a Sub's queue has a task that will hand it to
\* onEvent: processEvent and the join replay of addSymbolsImpl arm the
\* notify timer (notifyLater) whenever they queue, and notify() clears the
\* timer only as it starts the loop that delivers and empties the queue.
QueuedHasNotifyArmed ==
    \A h \in Handles : Queued(h) # {} => notifyTimeout[h] \/ notifying = h

\* The debounced diff of sendSub is right: while the session is up and no
\* reset is owed, the server's subscription with the pending diffs applied
\* is the aggregate table, and once no sendSub is scheduled nothing is pending.
ServerViewTracksTotal ==
    connected /\ ~resetSub =>
        /\ ApplySubMessage(FALSE, addSub, removeSub) = total
        /\ ~sendSubTimeout => addSub = {} /\ removeSub = {}

\* A cached item.event that a holder of the symbol has not been shown is
\* still waiting in its queue: notify() and the join-time replay of
\* addSymbolsImpl never drop the last event of a held symbol.
NoLostCachedEvent ==
    \A h \in Handles, s \in Symbols :
        s \in subSet[h] /\ itemEvent[s] # NoEvent =>
            itemEvent[s] \in {delivered[h][s], queue[h][s]}

\* A consumer is never shown an older event of a symbol after a newer one:
\* the join-time replay of the cache and onData keep the order of events.
DeliveryMonotone ==
    [][\A h \in Handles, s \in Symbols : delivered'[h][s] >= delivered[h][s]]_delivered

\* While the session stays up, a symbol some handle holds reaches the
\* server's subscription: sendSubLater is scheduled for every diff and for
\* the reset after a (re)connect.
SubscriptionReachesServer ==
    \A s \in Symbols :
        (connected /\ s \in total) ~> (~connected \/ s \notin total \/ s \in serverSub)

\* The cached event of a held symbol is eventually passed to onEvent unless
\* it is superseded or the symbol is dropped.
CachedEventReachesSubscriber ==
    \A h \in Handles, s \in Symbols, e \in Events :
        (s \in subSet[h] /\ itemEvent[s] = e) ~>
            (delivered[h][s] = e \/ itemEvent[s] # e \/ s \notin subSet[h])

=============================================================================
