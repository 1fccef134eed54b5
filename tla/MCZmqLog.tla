------------------------------ MODULE MCZmqLog ------------------------------
(* One process with its collector and its loggers.                         *)
EXTENDS ZmqLog
=============================================================================
