------------------------------- MODULE MCSync -------------------------------
(* Sync on a few tools, one of them named like the driver.  *)
EXTENDS Sync, TLC
=============================================================================
