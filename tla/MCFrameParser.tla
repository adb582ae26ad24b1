---------------------------- MODULE MCFrameParser ----------------------------
(* Bytes of ten values for TLC: the marks are 2 to 4, and a size of 5 or    *)
(* more is out of the write position's reach, as 251 is with 256 values.     *)
EXTENDS FrameParser

MCCrc(s) == <<(s[3] + s[Len(s)]) % 2, Len(s) % 2>>
Msg(i, b) == [addr |-> 1, index |-> i, body |-> b]

\* Bodies with the marks that end and start a frame, with the token, and without.
MCMarks == {Msg(1, <<3, 4>>), Msg(0, <<2>>), Msg(1, <<0>>)}
\* A body with a value that is out of reach and the token after it.
MCToken == {Msg(1, <<5, 2>>), Msg(1, <<0>>)}
=============================================================================
