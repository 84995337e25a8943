---------------------------- MODULE MCWokLayout -----------------------------
EXTENDS WokLayout
\* Bound: the output never falls far behind three per token.
Dense == excess >= -3
=============================================================================
