----------------------------- MODULE MCEndpoint -----------------------------
(* Endpoint with two connections and three streams on either of them. *)
EXTENDS Endpoint

CONSTANTS c1, c2, s1, s2, s3

TwoConnections == {c1, c2}
ThreeStreams == {s1, s2, s3}
=============================================================================
