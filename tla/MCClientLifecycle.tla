-------------------------- MODULE MCClientLifecycle --------------------------
(* Two connects over one transport, one server to register. *)
EXTENDS ClientLifecycle
=============================================================================
