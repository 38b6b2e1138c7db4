---------------------------- MODULE MCOutboxRelay ----------------------------
(* Small instances of OutboxRelay.                                          *)
EXTENDS OutboxRelay

CONSTANTS r1, r2
=============================================================================
