--------------------------- MODULE MCCreditLedger ---------------------------
(***************************************************************************)
(* A small account for TLC: an allowance of three credits, spent before a  *)
(* purchase of two; two transcriptions, the second of which takes both     *)
(* grants to cover, under the cap of one company.                          *)
(***************************************************************************)
EXTENDS CreditLedger, TLC

TwoGrants == 1 :> 3 @@ 2 :> 2

TwoOps == {"speech1", "speech2"}
TwoMaximums == "speech1" :> 2 @@ "speech2" :> 3
TwoCalls == "speech1" :> "c1" @@ "speech2" :> "c2"
TwoScopes == "speech1" :> {"company"} @@ "speech2" :> {"company"}

Names == Permutations(Workers)
=============================================================================
