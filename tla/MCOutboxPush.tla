---------------------------- MODULE MCOutboxPush ----------------------------
(* Instances of OutboxPush for TLC. *)
EXTENDS OutboxPush, TLC

\* The pushers are interchangeable.
PusherSymmetry == Permutations(Pushers)
=============================================================================
