--------------------------- MODULE MCSecretChats ---------------------------
(***************************************************************************)
(* Instances of SecretChats for TLC: one device invites an account of two. *)
(***************************************************************************)
EXTENDS SecretChats, TLC

CONSTANTS a1, b1, b2, alice, bob, c1

MCOwner == (a1 :> alice) @@ (b1 :> bob) @@ (b2 :> bob)
MCInviter == c1 :> a1
MCInvited == c1 :> bob
=============================================================================
