------------------------------ MODULE MCInvoke ------------------------------
(* Invoke with a tool that ends well, with an error, with the code that    *)
(* the driver has for its own failures, or killed.                         *)
EXTENDS Invoke

MCCodes == {0, 3, 128}
=============================================================================
