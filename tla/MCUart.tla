------------------------------- MODULE MCUart -------------------------------
(* Buffers of three bytes with the sender's trigger level at one; messages   *)
(* shorter and longer than the buffer, and bursts of one and two bytes.      *)
EXTENDS Uart, TLC

MCData == {<<0>>, <<1, 0>>, <<1, 0, 0, 1>>, <<0, 1, 1, 0>>}
MCChunks == {<<0>>, <<1>>, <<0, 1>>}
=============================================================================
