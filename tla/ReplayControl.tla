---------------------------- MODULE ReplayControl ----------------------------
(***************************************************************************)
(* The replay and speed control of dxfeed.cometd.js: feed.replay, pause,   *)
(* setSpeed, stopAndResume and stopAndClear (changeState), onStateChange's *)
(* merge of a state patch into feed.state, stateChangeAction and the       *)
(* onDemand proxy that publishes the command, the reissue of the control   *)
(* state in a reset sendSub, and /service/state patches from the server.   *)
(*                                                                         *)
(* The server is the environment, modelled from the wire protocol of       *)
(* spec.md section 6: it applies each onDemand command to its own state as *)
(* the client applied it to feed.state, and answers with its whole state   *)
(* as a /service/state patch; a new session starts live. Messages in      *)
(* flight either way are FIFO and are lost with the connection.           *)
(***************************************************************************)
EXTENDS Naturals, Sequences

CONSTANTS
    Times,        \* replay times a page may pass (0 is feed.state's initial time)
    Speeds,       \* replay speeds, 0 included (pause)
    MaxInFlight   \* bound on the messages in flight in each direction

Fields == {"replay", "clear", "time", "speed"}
States == [replay : BOOLEAN, clear : BOOLEAN, time : Times \cup {0}, speed : Speeds]
LiveState == [replay |-> FALSE, clear |-> FALSE, time |-> 0, speed |-> 0]
Ops == {"replay", "setSpeed", "stopAndResume", "stopAndClear"}
Commands == [op : Ops, time : Times \cup {0}, speed : Speeds]
NoCommand == [op |-> "none"]

VARIABLES
    st,             \* the control fields of feed.state
    intent,         \* history: feed.state as the user's last call left it
    connectCalled,  \* EndpointImpl.connectCalled
    cometd,         \* EndpointImpl.cometd !== null
    connected,      \* EndpointImpl.connected
    resetSub,       \* FeedImpl.resetSub
    sendSubTimeout, \* FeedImpl.sendSubTimeout !== null
    toServer,       \* onDemand commands published and not yet applied
    toClient,       \* /service/state patches sent and not yet received
    srv,            \* the server's replay state for the session
    thrown          \* history: a feed call threw out of the onDemand proxy

vars == <<st, intent, connectCalled, cometd, connected, resetSub, sendSubTimeout,
          toServer, toClient, srv, thrown>>

\* onStateChange's forMap: present keys overwrite, absent keys are kept.
Merge(s, patch) == [f \in Fields |-> IF f \in DOMAIN patch THEN patch[f] ELSE s[f]]

\* The state patches of the public feed methods.
ReplayPatch(t, v) == [replay |-> TRUE, clear |-> FALSE, time |-> t, speed |-> v]
SpeedPatch(v)     == [replay |-> TRUE, clear |-> FALSE, speed |-> v]
ResumePatch       == [replay |-> FALSE, clear |-> FALSE, speed |-> 0]
ClearPatch        == [replay |-> FALSE, clear |-> TRUE, speed |-> 0]

\* The patch the server applies for a command: the one the client applied.
CommandPatch(c) ==
    CASE c.op = "replay"        -> ReplayPatch(c.time, c.speed)
      [] c.op = "setSpeed"      -> SpeedPatch(c.speed)
      [] c.op = "stopAndResume" -> ResumePatch
      [] c.op = "stopAndClear"  -> ClearPatch

Command(op, s) == [op |-> op, time |-> s.time, speed |-> s.speed]

\* stateChangeAction(stateChange, shouldSignalResume) over the merged state s.
StateChangeAction(s, patch, signalResume) ==
    IF s.clear THEN Command("stopAndClear", s)
    ELSE IF s.replay
         THEN IF "time" \in DOMAIN patch THEN Command("replay", s) ELSE Command("setSpeed", s)
    ELSE IF signalResume THEN Command("stopAndResume", s)
    ELSE NoCommand

(***************************************************************************)
(* onDemand[method]: connectIfNeeded(), then endpointImpl.publish, which   *)
(* calls cometd.publish. With no CometD instance (after disconnect(), when *)
(* connectCalled stays true) that is a TypeError thrown to the caller.    *)
(* A command published while not connected is lost.                       *)
(***************************************************************************)
Publish(c) ==
    LET hasCometd == cometd \/ ~connectCalled
    IN /\ connectCalled' = TRUE
       /\ cometd' = hasCometd
       /\ toServer' = IF hasCometd /\ connected THEN Append(toServer, c) ELSE toServer
       /\ thrown' = (thrown \/ ~hasCometd)

-----------------------------------------------------------------------------
\* changeState(patch): onStateChange(patch), then stateChangeAction(patch, true).
ChangeState(patch) ==
    LET s == Merge(st, patch)
    IN /\ Len(toServer) < MaxInFlight
       /\ st' = s
       /\ intent' = s
       /\ Publish(StateChangeAction(s, patch, TRUE))
       /\ UNCHANGED <<connected, resetSub, sendSubTimeout, toClient, srv>>

Replay(t, v) == ChangeState(ReplayPatch(t, v))
SetSpeed(v) == ChangeState(SpeedPatch(v))
Pause == SetSpeed(0)
StopAndResume == ChangeState(ResumePatch)
StopAndClear == ChangeState(ClearPatch)

\* onServiceState: a /service/state patch goes through onStateChange.
OnServiceState ==
    /\ toClient # <<>>
    /\ st' = Merge(st, Head(toClient))
    /\ toClient' = Tail(toClient)
    /\ UNCHANGED <<intent, connectCalled, cometd, connected, resetSub, sendSubTimeout,
                   toServer, srv, thrown>>

\* The server applies the oldest command and answers with its state.
ServerApply ==
    /\ toServer # <<>> /\ Len(toClient) < MaxInFlight
    /\ srv' = Merge(srv, CommandPatch(Head(toServer)))
    /\ toServer' = Tail(toServer)
    /\ toClient' = Append(toClient, srv')
    /\ UNCHANGED <<st, intent, connectCalled, cometd, connected, resetSub, sendSubTimeout, thrown>>

\* sendSub with the reset, but without the reissue of the control state.
SendSubNoReissue ==
    /\ sendSubTimeout
    /\ sendSubTimeout' = FALSE
    /\ resetSub' = IF connected THEN FALSE ELSE resetSub
    /\ connectCalled' = TRUE
    /\ cometd' = (cometd \/ ~connectCalled)
    /\ UNCHANGED <<st, intent, connected, toClient, srv, thrown, toServer>>

\* sendSub publishing the reissue even when stateChangeAction issues nothing.
SendSubPublishAlways ==
    /\ sendSubTimeout
    /\ sendSubTimeout' = FALSE
    /\ IF connected /\ resetSub
       THEN /\ toServer' = Append(toServer, StateChangeAction(st, st, FALSE))
            /\ resetSub' = FALSE
       ELSE UNCHANGED <<toServer, resetSub>>
    /\ connectCalled' = TRUE
    /\ cometd' = (cometd \/ ~connectCalled)
    /\ UNCHANGED <<st, intent, connected, toClient, srv, thrown>>

(***************************************************************************)
(* sendSub, control part: with a reset pending on a live connection,       *)
(* stateChangeAction(feedImpl.state, false) reissues the control state;   *)
(* feed.state always has a time, so a replay state is sent as replay.     *)
(***************************************************************************)
SendSub ==
    /\ sendSubTimeout
    /\ sendSubTimeout' = FALSE
    /\ IF connected /\ resetSub
       THEN LET c == StateChangeAction(st, st, FALSE)
            IN /\ toServer' = IF c = NoCommand THEN toServer ELSE Append(toServer, c)
               /\ resetSub' = FALSE
       ELSE UNCHANGED <<toServer, resetSub>>
    /\ connectCalled' = TRUE
    /\ cometd' = (cometd \/ ~connectCalled)
    /\ UNCHANGED <<st, intent, connected, toClient, srv, thrown>>

-----------------------------------------------------------------------------
\* feed.connect(): a new CometD instance when there is none.
Connect ==
    /\ ~cometd
    /\ connectCalled' = TRUE /\ cometd' = TRUE
    /\ UNCHANGED <<st, intent, connected, resetSub, sendSubTimeout, toServer, toClient, srv, thrown>>

\* A successful handshake: a new session that starts live;
\* updateConnectedState calls onStateChange({connected: true}), which sets
\* resetSub and schedules sendSub.
NewSession ==
    /\ cometd /\ ~connected
    /\ connected' = TRUE
    /\ srv' = LiveState
    /\ toServer' = <<>>
    /\ toClient' = <<>>
    /\ resetSub' = TRUE
    /\ sendSubTimeout' = TRUE
    /\ UNCHANGED <<st, intent, connectCalled, cometd, thrown>>

\* A failed /meta/connect: what is in flight is lost.
ConnectionLost ==
    /\ connected
    /\ connected' = FALSE
    /\ toServer' = <<>> /\ toClient' = <<>>
    /\ UNCHANGED <<st, intent, connectCalled, cometd, resetSub, sendSubTimeout, srv, thrown>>

\* feed.disconnect(): drops the CometD instance; connectCalled stays true.
Disconnect ==
    /\ cometd
    /\ cometd' = FALSE /\ connected' = FALSE
    /\ toServer' = <<>> /\ toClient' = <<>>
    /\ UNCHANGED <<st, intent, connectCalled, resetSub, sendSubTimeout, srv, thrown>>

-----------------------------------------------------------------------------
Init ==
    /\ st = LiveState /\ intent = LiveState
    /\ connectCalled = FALSE /\ cometd = FALSE /\ connected = FALSE
    /\ resetSub = FALSE /\ sendSubTimeout = FALSE
    /\ toServer = <<>> /\ toClient = <<>>
    /\ srv = LiveState
    /\ thrown = FALSE

Next ==
    \/ \E t \in Times, v \in Speeds : Replay(t, v)
    \/ \E v \in Speeds : SetSpeed(v)
    \/ Pause \/ StopAndResume \/ StopAndClear
    \/ OnServiceState \/ ServerApply \/ SendSub
    \/ Connect \/ NewSession \/ ConnectionLost \/ Disconnect

Spec == Init /\ [][Next]_vars

-----------------------------------------------------------------------------
\* The four states of spec section 4.2 a control state stands for.
Mode(s) ==
    IF s.clear THEN "Cleared"
    ELSE IF s.replay THEN (IF s.speed = 0 THEN "Paused" ELSE "Replaying")
    ELSE "Live"

\* Nothing is pending or in flight on a live connection.
Quiescent ==
    /\ connected /\ ~resetSub /\ ~sendSubTimeout
    /\ toServer = <<>> /\ toClient = <<>>

TypeOK ==
    /\ st \in States /\ intent \in States /\ srv \in States
    /\ connectCalled \in BOOLEAN /\ cometd \in BOOLEAN /\ connected \in BOOLEAN
    /\ resetSub \in BOOLEAN /\ sendSubTimeout \in BOOLEAN /\ thrown \in BOOLEAN
    /\ toServer \in Seq(Commands) /\ Len(toServer) <= MaxInFlight + 1
    /\ toClient \in Seq(States) /\ Len(toClient) <= MaxInFlight + 1

\* Once nothing is pending or in flight, the server is in the state the
\* user's last call asked for, across lost connections and new sessions
\* (spec 4.2: the last intended control state is reissued on reconnect).
IntentHonoured == Quiescent => Mode(srv) = Mode(intent)

\* Once nothing is pending or in flight, feed.state shows the mode the
\* server is in: echoes of older commands that overwrote it have been
\* followed by the echo of the latest one, and what was lost with a
\* connection has been reissued by the reset sendSub.
StateMatchesServer == Quiescent => Mode(st) = Mode(srv)

\* No feed method throws (spec section 7: transport failures surface only
\* as connected = false).
NoUncaughtError == ~thrown

=============================================================================
