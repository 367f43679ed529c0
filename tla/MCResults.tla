------------------------------ MODULE MCResults ------------------------------
(* Two runs may share a name or have none, and complete in either order. *)
EXTENDS Results

SomeNames == {"a", ""}
PlainBytes == <<0>>
LeakyBytes == <<0, 7, 7>>
SecretBytes == <<7, 7>>
=============================================================================
