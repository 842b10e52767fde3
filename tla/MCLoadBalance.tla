--------------------------- MODULE MCLoadBalance ---------------------------
EXTENDS LoadBalance
=============================================================================
