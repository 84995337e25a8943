----------------------------- MODULE MCWokParse ------------------------------
EXTENDS WokParse, MCPrograms
=============================================================================
