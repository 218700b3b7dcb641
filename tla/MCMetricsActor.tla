--------------------------- MODULE MCMetricsActor ---------------------------
(* The modes a configuration file cannot write.                            *)
EXTENDS MetricsActor

Mode(async, nexto, interval, window) ==
    [async |-> async, nexto |-> nexto, interval |-> interval, window |-> window]

SomeModes == {Mode(TRUE, nexto, 1, 1) : nexto \in BOOLEAN}
             \cup {Mode(TRUE, FALSE, 1, 2), Mode(TRUE, TRUE, 2, 2), Mode(FALSE, TRUE, 1, 1)}
=============================================================================
