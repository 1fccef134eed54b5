--------------------------- MODULE MCZLogFrontend ---------------------------
(* Collectors that share a host, and the loggers that look for one.        *)
EXTENDS ZLogFrontend
=============================================================================
