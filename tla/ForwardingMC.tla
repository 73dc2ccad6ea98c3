---------------------------- MODULE ForwardingMC ----------------------------
(* Instances for model checking. *)
EXTENDS Forwarding, TLC

\* Launches are alike, and so are command lines.
Alike == Permutations(App) \cup Permutations(Cmd)
=============================================================================
