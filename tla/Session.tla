------------------------------- MODULE Session -------------------------------
(***************************************************************************)
(* A suite, from its gate to the results its tests read: Launch, and once  *)
(* its server is ready - no journal is written or read before - Results.   *)
(***************************************************************************)
EXTENDS Launch, Results

CONSTANT Asking (* bound: the suites, as they start, whose tests go on to ask for results *)

Starting == [spec |-> spec, policy |-> policy, env |-> env]

sessionVars == <<launchVars, resultsVars>>

SessionInit == LaunchInit /\ ResultsInit

(* launcher_or_skip, launch and ready are over before the test has a server. *)
Launches == LaunchNext /\ UNCHANGED resultsVars

Questioned == phase = "ready" /\ Starting \in Asking /\ ResultsNext /\ UNCHANGED launchVars

SessionNext == Launches \/ Questioned

SessionSpec == SessionInit /\ [][SessionNext]_sessionVars

=============================================================================
