------------------------------ MODULE MCSession ------------------------------
(* Every launch of MCLaunch, and MCResults' questions after one of them. *)
EXTENDS Session, MCLaunch, MCResults

AtBothUrls ==
  {[spec |-> s, policy |-> "allowed",
    env |-> ("RESTATE_ADMIN_URL" :> "http://admin") @@ ("RESTATE_INGRESS_URL" :> "http://ingress")] :
     s \in {t \in SomeSpecs : t.features = <<Off(Scoped), On(Queues)>>}}
=============================================================================
