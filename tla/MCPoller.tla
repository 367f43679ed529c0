------------------------------ MODULE MCPoller ------------------------------
(* Poller on a few configurations: each limit alone, both, neither, the     *)
(* timeout of zero, and the ones PollerBuilder::build must refuse.          *)
EXTENDS Poller

Config(interval, timeout, attempts) ==
  [interval |-> interval, timeout |-> timeout, maxAttempts |-> attempts]

MCRequested ==
  {Config(1, 2, 3), Config(2, 2, None), Config(2, None, 2), Config(1, None, None),
   Config(1, 0, 2), Config(0, 2, None), Config(1, None, 0), Config(3, None, 2),
   Config(1, 3, 2)}
=============================================================================
