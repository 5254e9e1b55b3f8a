--------------------------- MODULE MCSimpleCodec ---------------------------
(***************************************************************************)
(* Model-checking instance of SimpleCodec: bytes have five values, so that *)
(* one byte is a length up to 1, three bytes one up to 24 and five bytes   *)
(* one from 25 on.  The messages are a keep-alive, one of each form of     *)
(* length, and two whose bytes read as lengths.                            *)
(***************************************************************************)
EXTENDS SimpleCodec

SomeMessages ==
  { <<>>, <<1>>, <<2, 0, 3>>, <<0, 4>>, [i \in 1..25 |-> i % Base] }

\* Lengths survive the encoding, in all its four forms, and one that is not 0
\* is never mistaken for a keep-alive.
LengthsRoundTrip ==
  \A n \in 0..(Base ^ 4 + Base) :
    LET e == VarIntEncode(n) IN
      /\ Len(e) = 1 + Width(e[1])
      /\ VarIntDecode(e[1], Tail(e)) = n
      /\ e[1] = 0 <=> n = 0

ASSUME RoundTripChecked == LengthsRoundTrip
============================================================================
