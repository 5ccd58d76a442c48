------------------------------ MODULE LoggerMC ------------------------------
(***************************************************************************)
(* Two threads, two loggers of one file and two calls: a message without   *)
(* text makes a line that fits the buffer, one with text a line that does  *)
(* not; one write may fail.                                                *)
(***************************************************************************)
EXTENDS Logger

CONSTANTS t1, t2, l1, l2

MCThreads == {t1, t2}
MCLoggers == {l1, l2}
=============================================================================
