-------------------------- MODULE MCSymbolAttributes --------------------------
EXTENDS SymbolAttributes

\* "A", and "A{}" whose trailing braces are not an attribute list.
MCBases  == {<<"A">>, <<"A", "{", "}">>}
\* The empty key (chart-demo's period), two keys of which one is a prefix
\* of the other, and a key after both.
MCKeys   == {<<>>, <<"a">>, <<"a", "b">>, <<"b">>}
MCValues == {<<"1">>, <<"D">>}
=============================================================================
