------------------------ MODULE MCAnalyticsConsumer ------------------------
(* Two partitions of two messages; p1 holds events, p2 an intervention and *)
(* a message that cannot be parsed.                                        *)
EXTENDS AnalyticsConsumer

CONSTANTS p1, p2

Mixed == [m \in Messages |->
            IF m[1] = p1 THEN "event" ELSE IF m[2] = 1 THEN "intervention" ELSE "reject"]
=============================================================================
