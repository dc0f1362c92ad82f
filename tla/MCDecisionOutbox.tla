--------------------------- MODULE MCDecisionOutbox ---------------------------
\* DecisionOutbox for TLC: two passes over one operation with both targets.
EXTENDS DecisionOutbox

MCOperation == <<"a", "a">>
MCTarget == <<"identity", "balance">>
=============================================================================
