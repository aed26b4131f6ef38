--------------------------- MODULE MCNodeNetwork ---------------------------
(* Node ids and numbers for TLC: the ends of the range of ids, an encoder  *)
(* and none, a pin that is not there.                                      *)
EXTENDS NodeNetwork

SomeNetworks ==
  [motor : {1}, encoder : {127}, pin : {0}] \cup [motor : {127}, encoder : {0}, pin : {3}]

(* Four different bytes, the highest with the sign and the ends of bytes   *)
(* between: 0x80FF8301.                                                    *)
FarLeft == {-2130738431}

Volts == {-1, 16384}

=============================================================================
