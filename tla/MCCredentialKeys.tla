-------------------------- MODULE MCCredentialKeys --------------------------
(* Instances of CredentialKeys for TLC. *)
EXTENDS CredentialKeys
=============================================================================
