-------------------------------- MODULE MCQTable -------------------------------
EXTENDS QTable

CONSTANTS X, Y, F

MCSymbols == {X, Y}
MCStaticRows == {X}

\* A diamond of user-defined columns over the field F, defined in order:
\* mid and spread from F, label from both, and an inline expression
\* "_0" over F and mid; mid's function throws on undefined. The table
\* binds F, label and the inline expression.
MCDefineOrder == <<"mid", "spread", "label">>
MCDeps == ("mid" :> <<F>>) @@ ("spread" :> <<F>>) @@ ("label" :> <<"mid", "spread">>)
              @@ ("_0" :> <<F, "mid">>)
MCBound == {F, "label", "_0"}
MCInline == {"_0"}
MCThrowing == {"mid"}
=============================================================================
