------------------------------- MODULE MCZLog -------------------------------
(* One logger, several calling threads.                                    *)
EXTENDS ZLog
=============================================================================
