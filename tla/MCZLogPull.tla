----------------------------- MODULE MCZLogPull -----------------------------
(* The collector on small instances.                                       *)
EXTENDS ZLogPull

(* Every endpoint but the in-process one can be taken by another process.  *)
NetworkEndpoints == Sockets \ {"inp"}
=============================================================================
