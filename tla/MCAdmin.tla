------------------------------- MODULE MCAdmin -------------------------------
(* Every operation over two invocations, under timeouts shorter and longer *)
(* than the interval.                                                      *)
EXTENDS Admin

CONSTANTS i1, i2

TwoInvocations == {i1, i2}
SomeTimeouts == {0, 1, 8}
=============================================================================
