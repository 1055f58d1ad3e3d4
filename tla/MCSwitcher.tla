----------------------------- MODULE MCSwitcher -----------------------------
(* Small instances of Switcher.                                            *)
EXTENDS Switcher

=============================================================================
