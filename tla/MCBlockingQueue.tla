-------------------------- MODULE MCBlockingQueue --------------------------
(* BlockingQueue with three threads, each of which may call every operation. *)
EXTENDS BlockingQueue
CONSTANTS t1, t2, t3, unit, signal
MCThreads == {t1, t2, t3}
MCElements == {unit, signal}
=============================================================================
