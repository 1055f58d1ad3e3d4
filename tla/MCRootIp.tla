------------------------------ MODULE MCRootIp ------------------------------
(***************************************************************************)
(* Instances of RootIp for TLC.  The text of address a is a part of that   *)
(* of b; the pages list the addresses in two orders, one leaves some out,  *)
(* and the page may be unreadable.                                         *)
(***************************************************************************)
EXTENDS RootIp, TLC

CONSTANTS a, b, d

Addresses == {a, b, d}
PageLists == {<<>>, <<a, b>>, <<b, d, a>>}
Parts == {<<a, b>>}

=============================================================================
