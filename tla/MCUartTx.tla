------------------------------ MODULE MCUartTx ------------------------------
(***************************************************************************)
(* UartTx with a buffer of 4: commands of every length that fits, one that *)
(* fills the buffer, the empty one, and one that is too long.              *)
(***************************************************************************)
EXTENDS UartTx

MCByte == 1..5
MCStrings == {<<>>, <<1>>, <<1, 2>>, <<2, 1, 3>>, <<1, 2, 3, 4>>}
MCSizeError == <<5, 5>>
=============================================================================
