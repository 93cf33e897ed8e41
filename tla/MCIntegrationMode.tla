------------------------- MODULE MCIntegrationMode -------------------------
EXTENDS IntegrationMode, TLC

CONSTANTS c1, c2

Symmetric == Permutations(Children)
=============================================================================
