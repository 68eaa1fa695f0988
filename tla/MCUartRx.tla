------------------------------ MODULE MCUartRx ------------------------------
(* A small instance of UartRx: the frames that are sent.                   *)
EXTENDS UartRx

\* Payload bytes that look like the LEN of a frame.
FourPayloads == << <<1>>, <<3, 1>>, <<0>>, <<1>> >>
\* Noise that makes LENs and bad CRCs.
Confusing == {0, 3}
=============================================================================
