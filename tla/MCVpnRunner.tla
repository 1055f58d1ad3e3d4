---------------------------- MODULE MCVpnRunner ----------------------------
(* Small instances of VpnRunner.  Sessions are interchangeable.            *)
EXTENDS VpnRunner, TLC

Sessions == Permutations(Session)
=============================================================================
