------------------------------ MODULE MCUartRx ------------------------------
(* Instances of UartRx for TLC.                                            *)
EXTENDS UartRx
=============================================================================
