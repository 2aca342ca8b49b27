---------------------------- MODULE MCIdeaInbox ----------------------------
(* Instances of IdeaInbox for TLC. *)
EXTENDS IdeaInbox
=============================================================================
