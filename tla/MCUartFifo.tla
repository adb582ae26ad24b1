----------------------------- MODULE MCUartFifo -----------------------------
(* Small rings for TLC: three places to send from, two to receive into.    *)
EXTENDS UartFifo

MCByte == {0, 1}
=============================================================================
