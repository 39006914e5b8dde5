---------------------------- MODULE MCXnsRouted -----------------------------
EXTENDS XnsRouted
CONSTANTS a, b

\* Three networks in a row.
ChainLinks == {<<a, 1>>, <<a, 2>>, <<b, 2>>, <<b, 3>>}
=============================================================================
