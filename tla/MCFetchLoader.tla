--------------------------- MODULE MCFetchLoader ----------------------------
EXTENDS FetchLoader
=============================================================================
