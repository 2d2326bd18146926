--------------------------- MODULE MCUartReceiver ---------------------------
(* A small instance of UartLine.                                           *)
EXTENDS UartLine

MCDelimiter == <<"CR", "LF">>

\* An empty message, one that fits the line buffer and one that does not.
MCMessages == {<<>>, <<"x">>, <<"x", "x", "x">>}

ASSUME MCAssumption == CleanMessages

\* What is put in the stream in one piece, and in three.
MCTransmissions == {1, 5}
=============================================================================
