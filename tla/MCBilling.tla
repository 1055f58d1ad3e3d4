----------------------------- MODULE MCBilling ------------------------------
(***************************************************************************)
(* Billing for TLC: one purchase, or two purchases of different plans.     *)
(***************************************************************************)
EXTENDS Billing, TLC

CONSTANTS p1, p2

OneSku == p1 :> "day"
TwoSkus == p1 :> "day" @@ p2 :> "week"

=============================================================================
