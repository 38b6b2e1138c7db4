--------------------------- MODULE MCEventConsumer ---------------------------
(* Small instances of EventConsumer.                                        *)
EXTENDS EventConsumer

CONSTANTS k1, k2, m1, m2
=============================================================================
