------------------------- MODULE SubscriptionAbstract -------------------------
(***************************************************************************)
(* What FeedImpl's aggregate table and debounced sendSub promise the       *)
(* server (spec.md, subscriptions): the page holds a set of symbols; the   *)
(* server session holds a subscription, which changes only in two ways:   *)
(* a flush while the session is up makes it exactly the held set, and a   *)
(* new session starts with none. Pending diffs, the reset flag, the       *)
(* listener arrays and the events are below this level of detail.         *)
(***************************************************************************)
CONSTANTS Symbols

VARIABLES held,     \* the symbols some subscription of the page holds
          server,   \* the server session's subscription
          up        \* the session is connected

absVars == <<held, server, up>>

Init == held = {} /\ server = {} /\ up = FALSE

\* The page subscribes, unsubscribes or closes a subscription.
Hold == held' \in SUBSET Symbols /\ UNCHANGED <<server, up>>

\* A subscription message brings the server up to date with the page.
Flush == up /\ server # held /\ server' = held /\ UNCHANGED <<held, up>>

\* A successful handshake opens a new session holding nothing; a
\* successful connect reply resumes the session the server kept.
NewSession == ~up /\ up' = TRUE /\ server' = {} /\ UNCHANGED held
Resume     == ~up /\ up' = TRUE /\ UNCHANGED <<held, server>>

\* The connection is lost or closed; the server keeps the session.
Drop == up /\ up' = FALSE /\ UNCHANGED <<held, server>>

Next == Hold \/ Flush \/ NewSession \/ Resume \/ Drop

Spec == Init /\ [][Next]_absVars
=============================================================================
