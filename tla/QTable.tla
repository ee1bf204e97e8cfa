-------------------------------- MODULE QTable --------------------------------
(***************************************************************************)
(* The data binding of dxfeed-ui.qtable.js: rows with a fixed symbol,      *)
(* rows whose symbol is typed into a text input, updateSymbols (the keyup  *)
(* handler) with its clearing of a row whose symbol changed and its        *)
(* inputsBySymbol index, onEvent's routing of an event to the rows of its  *)
(* symbol, processEventInRow for one bound field, and detach.              *)
(*                                                                         *)
(* The table's subscription is the only handle of the feed, so the feed    *)
(* part is the handle's view of dxfeed.cometd.js: the symbols it holds,    *)
(* the cached last event of each (item.event), the per-symbol queue and    *)
(* notify. An event is a symbol and a version number; a row shows the     *)
(* last event applied to it, or nothing.                                   *)
(*                                                                         *)
(* The row's user-defined columns (dx.define) and the anonymous items of   *)
(* dx-bind inline code depend on the bound event field and on each other; *)
(* processEventInRow recomputes them through updatedUserDefSet and         *)
(* applyEffect writes them into the bound cells. A user function is left  *)
(* abstract: its value is the name applied to its arguments, so stale      *)
(* arguments show; the functions of Throwing throw on undefined.           *)
(***************************************************************************)
EXTENDS Naturals, FiniteSets, Sequences, SequencesExt

CONSTANTS
    Symbols,     \* symbols the table may show
    StaticRows,  \* the symbols of rows with the symbol in their cell
    Inputs,      \* the symbol inputs (symbolInputs indices)
    Blank,       \* the empty input value ""
    MaxEvents,   \* bound on the events the server sends per symbol
    Field,       \* the bound event field ("Type.field")
    Undef,       \* the value undefined
    DefineOrder, \* the names given to dx.define, in call order
    Deps,        \* name -> the dependencies passed to dx.define
    Bound,       \* the references bound by the table's dx-bind attributes
    Inline,      \* the anonymous items of dx-bind inline code ("_0", ...)
    Throwing,    \* the items whose function throws on an undefined argument
    Empty        \* the cell text ""

ASSUME StaticRows \subseteq Symbols /\ Blank \notin Symbols

Rows == StaticRows \cup Inputs
Events == [sym : Symbols, v : 1..MaxEvents]
NoEvent == [sym |-> Blank, v |-> 0]   \* createEmptyEvent: the field undefined
FieldValue(e) == IF e = NoEvent THEN Undef ELSE e.v

Defs == Range(DefineOrder)
Items == Defs \cup Inline

\* dx.define binds each dependency when it is called: an event field, a
\* data item defined by an earlier call, or else undefined (with a warning).
Resolved(d, k) ==
    LET dep == Deps[d][k]
    IN IF dep = Field \/ \E i, j \in DOMAIN DefineOrder :
                             i < j /\ DefineOrder[i] = dep /\ DefineOrder[j] = d
       THEN dep ELSE Undef

\* getOrCreateEffect from the bound references (and createAnonEffect for
\* inline code): every item reached through the dependency names gets an
\* effect.
RECURSIVE Reach(_)
Reach(S) ==
    LET N == S \cup UNION {Range(Deps[d]) : d \in S \cap Items}
    IN IF N = S THEN S ELSE Reach(N)

Effects == Reach(Bound) \cap Items
Named == Effects \cap Defs      \* stored in rowData; anonymous ones are not

\* effect.affects: the items that name x as a dependency.
Affects(x) == {d \in Effects : x \in Range(Deps[d])}

\* The user function's value for its arguments, and whether it throws:
\* a function of Throwing dereferences its arguments and throws a
\* TypeError on undefined.
Fn(d, args) == <<d, args>>
Throws(d, args) == d \in Throwing /\ Undef \in Range(args)

\* applyEffect: a number is shown as its string, anything else as "".
CellText(v) == IF v = Undef THEN Empty ELSE v

\* The value of a reference in the row's data.
DataValue(fv, data, x) ==
    IF x = Field THEN fv ELSE IF x \in Named THEN data[x] ELSE Undef

\* dataFn over the row's data: dx.define passes what it bound at define
\* time; inline code (compileInlineCodeEffect) reads data.dep as it is.
Args(fv, data, d) ==
    [k \in DOMAIN Deps[d] |->
        IF d \in Defs /\ Resolved(d, k) = Undef THEN Undef
        ELSE DataValue(fv, data, Deps[d][k])]

\* A computed value: stored in rowData unless anonymous, and written by
\* applyEffect to the cells the item is bound to.
Apply(row, d, v) ==
    [data |-> IF d \in Named THEN [row.data EXCEPT ![d] = v] ELSE row.data,
     cell |-> IF d \in Bound THEN [row.cell EXCEPT ![d] = CellText(v)] ELSE row.cell]

\* The loop without adding the affected items of a recomputed one.
RECURSIVE PropagateNoRequeue(_, _, _)
PropagateNoRequeue(fv, row, work) ==
    IF work = {} THEN {row}
    ELSE UNION {LET a == Args(fv, row.data, d)
                IN IF Throws(d, a) THEN PropagateNoRequeue(fv, row, work \ {d})
                   ELSE PropagateNoRequeue(fv, Apply(row, d, Fn(d, a)), work \ {d}) : d \in work}

(***************************************************************************)
(* The while loop over updatedUserDefSet: each item is deleted and         *)
(* recomputed; unless the function throws (caught and logged), its value  *)
(* is stored and applied and its affected items are added. for-in order    *)
(* over keys added during the iteration is left to the engine, so any item *)
(* may be next: the result is the set of every outcome.                    *)
(***************************************************************************)
RECURSIVE Propagate(_, _, _)
Propagate(fv, row, work) ==
    IF work = {} THEN {row}
    ELSE UNION {LET a == Args(fv, row.data, d)
                IN IF Throws(d, a) THEN Propagate(fv, row, work \ {d})
                   ELSE Propagate(fv, Apply(row, d, Fn(d, a)), (work \ {d}) \cup Affects(d)) : d \in work}

\* processEventInRow: a changed field value is stored and applied to the
\* field's cells, and the loop starts at the field's affected items.
ProcessEventInRow(oldFv, fv, row) ==
    IF fv = oldFv THEN {row}
    ELSE Propagate(fv, [row EXCEPT !.cell = IF Field \in Bound
                                            THEN [@ EXCEPT ![Field] = CellText(fv)] ELSE @],
                   Affects(Field))

VARIABLES
    text,           \* input.$input.val()
    lastSymbol,     \* input.lastSymbol
    inputsBySymbol, \* Symbol -> set of input indices
    shown,          \* the event applied last to each row (rowObj.data)
    userData,       \* the user-defined data items of each row (rowObj.data)
    cells,          \* the text of each row's bound cells (row.cells[i].$obj)
    detached,       \* detach() was called
    subSet,         \* the table subscription's symbols
    cache,          \* item.event of each held symbol (0: null)
    queue,          \* the subscription's queue: symbol -> event version (0: none)
    notifyTimeout,  \* the subscription's notifyTimeout !== null
    sent            \* the server's event count per symbol

vars == <<text, lastSymbol, inputsBySymbol, shown, userData, cells, cells, detached, subSet, cache, queue,
          notifyTimeout, sent>>

\* The symbol whose events a row shows.
SymbolOf(r) == IF r \in StaticRows THEN r ELSE lastSymbol[r]

\* The symbols updateSymbols passes to setSymbols: the static rows' and
\* every non-empty input value.
TableSymbols(txt) == StaticRows \cup {txt[i] : i \in {j \in Inputs : txt[j] # Blank}}

\* setSymbols on the sole handle: removed symbols lose their queue entry
\* and, their listener array being empty, their item and cached event;
\* added symbols get a new item with no event, so nothing is replayed.
SetSymbols(syms) ==
    /\ subSet' = syms
    /\ cache' = [s \in Symbols |-> IF s \in syms /\ s \in subSet THEN cache[s] ELSE 0]
    /\ queue' = [s \in Symbols |-> IF s \in syms THEN queue[s] ELSE 0]

\* Rows take the events in newShown: processEventInRow on each row whose
\* field value changes, with any outcome of its loop.
ApplyToRows(newShown) ==
    LET Outcomes(r) == ProcessEventInRow(FieldValue(shown[r]), FieldValue(newShown[r]),
                                         [data |-> userData[r], cell |-> cells[r]])
    IN /\ shown' = newShown
       /\ \E f \in [Rows -> UNION {Outcomes(r) : r \in Rows}] :
              /\ \A r \in Rows : f[r] \in Outcomes(r)
              /\ userData' = [r \in Rows |-> f[r].data]
              /\ cells' = [r \in Rows |-> f[r].cell]

-----------------------------------------------------------------------------
\* The user edits an input without a keyup (paste with the mouse); after
\* detach the input still changes but nothing listens.
Edit(i, s) ==
    /\ text' = [text EXCEPT ![i] = s]
    /\ UNCHANGED <<lastSymbol, inputsBySymbol, shown, userData, cells, detached, subSet, cache, queue,
                   notifyTimeout, sent>>

\* A changed input clears its row and moves in inputsBySymbol.
Changed(i) == text[i] # lastSymbol[i]

\* updateSymbols leaving the old values in a row whose symbol changed.
UpdateSymbolsNoClear ==
    /\ ~detached
    /\ lastSymbol' = text
    /\ inputsBySymbol' = [s \in Symbols |-> {i \in Inputs : text[i] = s}]
    /\ UNCHANGED <<shown, userData, cells>>
    /\ SetSymbols(TableSymbols(text))
    /\ UNCHANGED <<text, detached, notifyTimeout, sent>>

\* updateSymbols leaving a changed input indexed under its old symbol.
UpdateSymbolsNoUnindex ==
    /\ ~detached
    /\ lastSymbol' = text
    /\ inputsBySymbol' = [s \in Symbols |-> inputsBySymbol[s] \cup {i \in Inputs : text[i] = s}]
    /\ ApplyToRows([r \in Rows |-> IF r \in Inputs /\ Changed(r) /\ lastSymbol[r] # Blank
                                    THEN NoEvent ELSE shown[r]])
    /\ SetSymbols(TableSymbols(text))
    /\ UNCHANGED <<text, detached, notifyTimeout, sent>>

\* updateSymbols, the keyup handler of every input: for each input whose
\* value changed, clear the row of the old symbol and unindex it, index it
\* under the new one; then sub.setSymbols with all symbols.
UpdateSymbols ==
    /\ ~detached
    /\ lastSymbol' = text
    /\ inputsBySymbol' = [s \in Symbols |->
                            {i \in inputsBySymbol[s] : ~Changed(i)}
                            \cup {i \in Inputs : Changed(i) /\ text[i] = s}]
    /\ ApplyToRows([r \in Rows |-> IF r \in Inputs /\ Changed(r) /\ lastSymbol[r] # Blank
                                    THEN NoEvent ELSE shown[r]])
    /\ SetSymbols(TableSymbols(text))
    /\ UNCHANGED <<text, detached, notifyTimeout, sent>>

\* detach: sub.close() and the keyup handlers are removed.
Detach ==
    /\ ~detached
    /\ detached' = TRUE
    /\ SetSymbols({})
    /\ UNCHANGED <<text, lastSymbol, inputsBySymbol, shown, userData, cells, notifyTimeout, sent>>

\* onData without the bound on the server's events.
OnDataUnbounded(s) ==
    /\ s \in subSet
    /\ sent' = [sent EXCEPT ![s] = @ + 1]
    /\ cache' = [cache EXCEPT ![s] = sent'[s]]
    /\ queue' = [queue EXCEPT ![s] = sent'[s]]
    /\ notifyTimeout' = TRUE
    /\ UNCHANGED <<text, lastSymbol, inputsBySymbol, shown, userData, cells, detached, subSet>>

OnData(s) ==
    /\ s \in subSet /\ sent[s] < MaxEvents
    /\ sent' = [sent EXCEPT ![s] = @ + 1]
    /\ cache' = [cache EXCEPT ![s] = sent'[s]]
    /\ queue' = [queue EXCEPT ![s] = sent'[s]]
    /\ notifyTimeout' = TRUE
    /\ UNCHANGED <<text, lastSymbol, inputsBySymbol, shown, userData, cells, detached, subSet>>

\* onEvent of the table: the static row of the symbol and every input
\* row indexed under it.
RowsFor(s) == {r \in StaticRows : r = s} \cup inputsBySymbol[s]

\* notify: every queued event goes to onEvent, in one task; onEvent runs
\* processEventInRow on each of the symbol's rows, applying the event.
Notify ==
    /\ notifyTimeout
    /\ notifyTimeout' = FALSE
    /\ queue' = [s \in Symbols |-> 0]
    /\ ApplyToRows([r \in Rows |->
                      IF \E s \in Symbols : queue[s] # 0 /\ r \in RowsFor(s)
                      THEN LET s == CHOOSE x \in Symbols : queue[x] # 0 /\ r \in RowsFor(x)
                           IN [sym |-> s, v |-> queue[s]]
                      ELSE shown[r]])
    /\ UNCHANGED <<text, lastSymbol, inputsBySymbol, detached, subSet, cache, sent>>

-----------------------------------------------------------------------------
\* The table after its init code: rows scanned with empty data, the
\* subscription created and updateSymbols run over the inputs' values.
Init ==
    /\ text \in [Inputs -> Symbols \cup {Blank}]
    /\ lastSymbol = text
    /\ inputsBySymbol = [s \in Symbols |-> {i \in Inputs : text[i] = s}]
    /\ shown = [r \in Rows |-> NoEvent]
    /\ userData = [r \in Rows |-> [d \in Named |-> Undef]]
    /\ cells = [r \in Rows |-> [b \in Bound |-> Empty]]
    /\ detached = FALSE
    /\ subSet = TableSymbols(text)
    /\ cache = [s \in Symbols |-> 0]
    /\ queue = [s \in Symbols |-> 0]
    /\ notifyTimeout = FALSE
    /\ sent = [s \in Symbols |-> 0]

Next ==
    \/ \E i \in Inputs, s \in Symbols \cup {Blank} : Edit(i, s)
    \/ UpdateSymbols
    \/ Detach
    \/ \E s \in Symbols : OnData(s)
    \/ Notify

Spec == Init /\ [][Next]_vars

-----------------------------------------------------------------------------
TypeOK ==
    /\ text \in [Inputs -> Symbols \cup {Blank}]
    /\ lastSymbol \in [Inputs -> Symbols \cup {Blank}]
    /\ inputsBySymbol \in [Symbols -> SUBSET Inputs]
    /\ shown \in [Rows -> Events \cup {NoEvent}]
    /\ \A r \in Rows : DOMAIN userData[r] = Named /\ DOMAIN cells[r] = Bound
    /\ detached \in BOOLEAN /\ notifyTimeout \in BOOLEAN
    /\ subSet \subseteq Symbols
    /\ cache \in [Symbols -> 0..MaxEvents] /\ queue \in [Symbols -> 0..MaxEvents]
    /\ sent \in [Symbols -> 0..MaxEvents]

\* A row never shows an event of a symbol other than the one it is bound
\* to: after an input's symbol changes, its old values are cleared and
\* events of the old symbol, queued or later, are no longer routed to it.
RowShowsOwnSymbol ==
    \A r \in Rows : shown[r] = NoEvent \/ shown[r].sym = SymbolOf(r)

\* The value each dependency of d currently has in row r.
DependencyValues(r, d) ==
    [k \in DOMAIN Deps[d] |-> DataValue(FieldValue(shown[r]), userData[r], Deps[d][k])]

\* What a bound cell of row r should show: the field's value, the stored
\* value of a data item, or an inline expression over its dependencies.
CurrentValue(r, b) ==
    IF b \in Inline THEN Fn(b, DependencyValues(r, b))
    ELSE DataValue(FieldValue(shown[r]), userData[r], b)

\* In a row that shows an event, every user-defined data item holds its
\* function of the current values of its dependencies (dx.define: fn takes
\* the dependency values) and every bound cell shows its current value,
\* whatever order the loop of processEventInRow visits updatedUserDefSet
\* in and although a function that throws on a still undefined dependency
\* is skipped with its dependents: an item computed from a dependency that
\* is recomputed later is computed again.
UserColumnsConsistent ==
    \A r \in Rows : shown[r] # NoEvent =>
        /\ \A d \in Named : userData[r][d] = Fn(d, DependencyValues(r, d))
        /\ \A b \in Bound : cells[r][b] = CellText(CurrentValue(r, b))

\* An event queued for the table's handle always has the notify timer armed
\* to deliver it: onData's processEvent arms it, updateSymbols' setSymbols
\* and detach's close only drop queue entries, and notify empties the
\* whole queue in the task that clears the timer.
QueuedHasNotifyArmed ==
    (\E s \in Symbols : queue[s] # 0) => notifyTimeout

\* Once updateSymbols has seen every input and every queued event has been
\* delivered, each bound row shows the feed's cached last event of its
\* symbol (a symbol typed into an input shows the value the feed holds).
RowShowsCached ==
    (~detached /\ ~notifyTimeout /\ text = lastSymbol) =>
        \A r \in Rows : SymbolOf(r) # Blank => shown[r].v = cache[SymbolOf(r)]

=============================================================================
