---------------------------- MODULE MCTransport ----------------------------
(* Two caller threads, two events each, a reconnection timeout of two     *)
(* ticks: enough for a retry to queue behind the other caller's events,    *)
(* for a failure to recur during the backoff, and for stop() to race both  *)
(* callers.                                                                *)
EXTENDS Transport

CONSTANTS c1, c2

MCClients == {c1, c2}
=============================================================================
