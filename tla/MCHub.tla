------------------------------- MODULE MCHub -------------------------------
(* Two caller threads making two Hub calls each, one message, a ceiling of *)
(* two per one-second window and a three-second clock: four captures of    *)
(* the message are enough to reach the ceiling, cross a window boundary    *)
(* and overflow the two-slot breadcrumb list.  A 50% sample rate lets the *)
(* per-second draw go either way.                                          *)
EXTENDS Hub, TLC

CONSTANTS t1, t2, NoMsg

MCThreads == {t1, t2}

(* The threads are interchangeable. *)
ThreadSymmetry == Permutations(MCThreads)
=============================================================================
