------------------------------ MODULE MCWatch ------------------------------
(* Watch over two invocations, each new or left by an earlier scenario. *)
EXTENDS Watch

CONSTANTS i1, i2, f1, k1

TwoInvocations == {i1, i2}
OneFailure == {f1}
OneCommand == {k1}
=============================================================================
