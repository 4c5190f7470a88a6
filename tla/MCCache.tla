-------------------------------- MODULE MCCache --------------------------------
EXTENDS Cache, TLC

CONSTANTS A, B, c1, c2, c3

\* Two clients race on one replica, the third shares L2 only.
MCHomeOf == (c1 :> A) @@ (c2 :> A) @@ (c3 :> B)
================================================================================
