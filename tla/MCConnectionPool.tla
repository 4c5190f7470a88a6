--------------------------- MODULE MCConnectionPool ----------------------------
EXTENDS ConnectionPool

CONSTANTS k1, k2, k3
================================================================================
