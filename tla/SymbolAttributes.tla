--------------------------- MODULE SymbolAttributes ---------------------------
(***************************************************************************)
(* dx.symbols.changeAttribute of dxfeed.cometd.js and the helpers it       *)
(* calls, translated over symbols as sequences of one-character strings.   *)
(* Indices are JavaScript's (from 0): At(s, i) is s[i], Substring(s, i, j) *)
(* is s.substring(i, j). The state is the symbol a page holds, changed by  *)
(* successive changeAttribute calls, as chart-demo.js does with the period *)
(* attribute of the symbol the user typed.                                 *)
(***************************************************************************)
EXTENDS Integers, Sequences, SequencesExt

CONSTANTS
    Bases,      \* symbols without attributes the user may type
    Keys,       \* attribute keys (the empty key is chart-demo's period key)
    Values,     \* attribute values
    Undefined,  \* the value undefined (or null): remove the key
    Null        \* getKeyInternal's null

VARIABLES
    symbol,     \* the symbol string the page holds
    lastCall    \* the key and value of the last changeAttribute call

\* UTF-16 code units of the characters used, for JavaScript's string order.
Code == ("," :> 44) @@ ("1" :> 49) @@ ("2" :> 50) @@ ("=" :> 61) @@ ("A" :> 65)
        @@ ("D" :> 68) @@ ("a" :> 97) @@ ("b" :> 98) @@ ("{" :> 123) @@ ("}" :> 125)
Alphabet == DOMAIN Code

\* s < t on strings: the first differing code unit decides, a prefix is less.
StrLess(s, t) ==
    \E i \in 0..Len(s) :
        /\ i <= Len(t)
        /\ SubSeq(s, 1, i) = SubSeq(t, 1, i)
        /\ \/ i = Len(s) /\ i < Len(t)
           \/ i < Len(s) /\ i < Len(t) /\ Code[s[i + 1]] < Code[t[i + 1]]

At(s, i) == s[i + 1]
Substring(s, i, j) == SubSeq(s, i + 1, j)
SubstringFrom(s, i) == SubSeq(s, i + 1, Len(s))

\* s.indexOf(c, from) and s.lastIndexOf(c), -1 when absent.
IndexOf(s, c, from) ==
    SelectInSubSeq(s, from + 1, Len(s), LAMBDA x : x = c) - 1
LastIndexOf(s, c) == SelectLastInSeq(s, LAMBDA x : x = c) - 1

\* key=value as it is spliced into the symbol.
KeyValue(key, value) == key \o <<"=">> \o value

-----------------------------------------------------------------------------
GetLengthNoAttributes(s) == Len(s)

\* Trailing "{}" and anything shorter than 3 characters carry no attributes.
GetLengthWithoutAttributes(s) ==
    IF Len(s) < 3 \/ At(s, Len(s) - 1) # "}" THEN Len(s)
    ELSE LET i == LastIndexOf(s, "{")
         IN IF i < 0 \/ i >= Len(s) - 2 THEN Len(s) ELSE i

GetKeyWithAssign(s, i) ==
    LET val == IndexOf(s, "=", i) IN IF val < 0 THEN Null ELSE Substring(s, i, val + 1)

GetKey(s, i) ==
    LET val == IndexOf(s, "=", i) IN IF val < 0 THEN Null ELSE Substring(s, i, val)

GetNextKey(s, i) ==
    LET val == IndexOf(s, "=", i) + 1
        sep == IndexOf(s, ",", val)
    IN IF sep < 0 THEN Len(s) ELSE sep + 1

DropKeyAndValueKeepComma(s, length, i, j) ==
    IF j = Len(s)
    THEN IF i = length + 1 THEN Substring(s, 0, length)
         ELSE Substring(s, 0, i - 1) \o SubstringFrom(s, j - 1)
    ELSE Substring(s, 0, i) \o SubstringFrom(s, j - 1)

\* Drops the pair at [i, j): with its braces when it is the only one, with
\* the comma before it when it is the last, with the comma after it else.
DropKeyAndValue(s, length, i, j) ==
    IF j = Len(s)
    THEN IF i = length + 1 THEN Substring(s, 0, length)
         ELSE Substring(s, 0, i - 1) \o SubstringFrom(s, j - 1)
    ELSE Substring(s, 0, i) \o SubstringFrom(s, j)

\* addAttributeInternal's loop that only replaces the key where it is found
\* and never inserts it before a greater key.
RECURSIVE AddLoopNoInsert(_, _, _, _, _, _)
AddLoopNoInsert(s, key, value, length, i, added) ==
    IF i >= Len(s) \/ GetKey(s, i) = Null THEN s
    ELSE LET cur  == GetKey(s, i)
             j    == GetNextKey(s, i)
             next == i + Len(key) + Len(value) + 2
         IN IF cur = key /\ added
            THEN AddLoopNoInsert(DropKeyAndValue(s, length, i, j), key, value, length, i, added)
            ELSE IF cur = key
            THEN AddLoopNoInsert(Substring(s, 0, i) \o KeyValue(key, value) \o SubstringFrom(s, j - 1),
                                 key, value, length, next, TRUE)
            ELSE AddLoopNoInsert(s, key, value, length, j, added)

(***************************************************************************)
(* The while loop of addAttributeInternal from index i, with added; it     *)
(* replaces the key's value, inserts the pair before the first greater     *)
(* key, and drops later duplicates of the key. When the loop ends the      *)
(* symbol is returned as it is.                                            *)
(***************************************************************************)
RECURSIVE AddLoop(_, _, _, _, _, _)
AddLoop(s, key, value, length, i, added) ==
    IF i >= Len(s) \/ GetKey(s, i) = Null THEN s
    ELSE LET cur  == GetKey(s, i)
             j    == GetNextKey(s, i)
             next == i + Len(key) + Len(value) + 2
         IN IF cur = key /\ added
            THEN AddLoop(DropKeyAndValue(s, length, i, j), key, value, length, i, added)
            ELSE IF cur = key
            THEN AddLoop(Substring(s, 0, i) \o KeyValue(key, value) \o SubstringFrom(s, j - 1),
                         key, value, length, next, TRUE)
            ELSE IF StrLess(key, cur) /\ ~added
            THEN AddLoop(Substring(s, 0, i) \o KeyValue(key, value) \o <<",">> \o SubstringFrom(s, i),
                         key, value, length, next, TRUE)
            ELSE AddLoop(s, key, value, length, j, added)

AddAttribute(s, key, value) ==
    LET length == GetLengthWithoutAttributes(s)
    IN IF length = Len(s) THEN s \o <<"{">> \o KeyValue(key, value) \o <<"}">>
       ELSE AddLoop(s, key, value, length, length + 1, FALSE)

\* The while loop of removeAttributeInternal: drops every pair of the key.
RECURSIVE RemoveLoop(_, _, _, _)
RemoveLoop(s, key, length, i) ==
    IF i >= Len(s) \/ GetKey(s, i) = Null THEN s
    ELSE IF GetKey(s, i) = key
         THEN RemoveLoop(DropKeyAndValue(s, length, i, GetNextKey(s, i)), key, length, i)
         ELSE RemoveLoop(s, key, length, GetNextKey(s, i))

RemoveAttribute(s, key) ==
    LET length == GetLengthWithoutAttributes(s)
    IN IF length = Len(s) THEN s ELSE RemoveLoop(s, key, length, length + 1)

ChangeAttribute(s, key, value) ==
    IF value = Undefined THEN RemoveAttribute(s, key) ELSE AddAttribute(s, key, value)

\* chart-demo's updateSub: the typed symbol with the period as the
\* attribute of the empty key, changeAttribute(s, "", p).
ChartSymbol(s, p) == ChangeAttribute(s, <<>>, p)

-----------------------------------------------------------------------------
Init == symbol \in Bases /\ lastCall = <<>>

Next == \E key \in Keys, value \in Values \cup {Undefined} :
            /\ symbol' = ChangeAttribute(symbol, key, value)
            /\ lastCall' = <<key, value>>

Spec == Init /\ [][Next]_<<symbol, lastCall>>

-----------------------------------------------------------------------------
(***************************************************************************)
(* The reference: the canonical text of a base and an attribute map (keys  *)
(* ascending, pairs joined by ",", the suffix elided when there are none), *)
(* and the decoding of a symbol as the base and map that render to it.     *)
(***************************************************************************)
AttrMaps == UNION {[D -> Values] : D \in SUBSET Keys}

Render(b, a) ==
    LET ks == SetToSortSeq(DOMAIN a, StrLess)
        pairs == [i \in 1..Len(ks) |->
                    IF i = 1 THEN KeyValue(ks[i], a[ks[i]])
                    ELSE <<",">> \o KeyValue(ks[i], a[ks[i]])]
    IN IF ks = <<>> THEN b ELSE b \o <<"{">> \o FlattenSeq(pairs) \o <<"}">>

\* The canonical texts of every base and map, and their decodings; both are
\* constant, so they are computed once.
Candidates == [base : Bases, attrs : AttrMaps]
CanonicalText == [p \in Candidates |-> Render(p.base, p.attrs)]
DecodeTable == [s \in Range(CanonicalText) |-> CHOOSE p \in Candidates : CanonicalText[p] = s]

Decode(s) == DecodeTable[s]

MaxLen ==
    LET longest(S) == Max({Len(x) : x \in S})
    IN longest(Bases) + 2 + Cardinality(Keys) * (longest(Keys) + longest(Values) + 2)

TypeOK == symbol \in Seq(Alphabet) /\ Len(symbol) <= MaxLen /\ lastCall \in {<<>>} \cup (Keys \X (Values \cup {Undefined}))

\* Every symbol reached by changeAttribute calls from a plain symbol is the
\* canonical text of some base and attribute map: keys ascending and
\* distinct, no empty "{}" left behind by a removal, no stray comma.
Canonical == symbol \in DOMAIN DecodeTable

\* removeAttributeInternal, from any reachable symbol and for any key,
\* yields the canonical text of the same base and map without that key.
RemoveMatchesReference ==
    \A key \in Keys :
        LET p == Decode(symbol)
        IN Render(p.base, [x \in DOMAIN p.attrs \ {key} |-> p.attrs[x]])
             = RemoveAttribute(symbol, key)

\* chart-demo's subscription symbol, for any canonical symbol the user
\* types and any period, is the canonical text of the same base and map
\* with the period set: the empty key is below every other key, so
\* addAttributeInternal must insert it in front of the first pair (or
\* replace the period already there), never drop it at the end of the loop.
PeriodMatchesReference ==
    \A p \in Values :
        LET d == Decode(symbol)
            t == ChartSymbol(symbol, p)
        IN /\ t \in DOMAIN DecodeTable
           /\ Decode(t) = [base |-> d.base,
                           attrs |-> [x \in DOMAIN d.attrs \cup {<<>>} |->
                                        IF x = <<>> THEN p ELSE d.attrs[x]]]

\* The successive symbols, read through Decode, are a behaviour of the
\* abstract AttributeMap: each changeAttribute call sets, replaces or
\* removes exactly its key (spec.md section 6).
Abstract == INSTANCE AttributeMap WITH base <- Decode(symbol).base,
                                       attrs <- Decode(symbol).attrs,
                                       lastCall <- lastCall
AttributeMapRefinement == Abstract!Spec

=============================================================================
