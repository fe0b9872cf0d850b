----------------------------- MODULE MCPromotion -----------------------------
(* Promotion on small instances.                                             *)
EXTENDS Promotion, TLC

\* Two workers for the channels and one for the sources.
SmallPools == "channel" :> 2 @@ "source" :> 1
=============================================================================
