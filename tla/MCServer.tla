------------------------------ MODULE MCServer ------------------------------
(***************************************************************************)
(* Two concurrent launches, two pids, one directory an earlier process     *)
(* left, and a signal of each kind.                                        *)
(***************************************************************************)
EXTENDS Server

CONSTANTS first, second, p1, p2

TwoLaunches == {first, second}
TwoPids == {p1, p2}
LeftBehind == {1}
=============================================================================
