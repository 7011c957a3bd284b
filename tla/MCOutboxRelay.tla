---------------------------- MODULE MCOutboxRelay ----------------------------
(***************************************************************************)
(* Instances of OutboxRelay: the names of the relays.                      *)
(***************************************************************************)
EXTENDS OutboxRelay

CONSTANTS r1, r2
=============================================================================
