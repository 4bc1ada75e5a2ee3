------------------------------ MODULE MCProbe -------------------------------
(* Four zones for two places, so that goroutines wait for the semaphore;   *)
(* the timeouts of handlers and server as they are; a resolver that may    *)
(* take longer than the server's timeout, so that answers are lost.        *)
EXTENDS Probe

ASSUME ResolvingMayTakeTooLong == MaxResolving > WriteTimeout
=============================================================================
