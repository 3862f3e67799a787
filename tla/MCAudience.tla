----------------------------- MODULE MCAudience -----------------------------
(* Customer p1 replies STOP, p2 replies STOP without a message id; a segment *)
(* that asks for the consent and a campaign that the policy does not ask.    *)
EXTENDS Audience, Migrations, TLC

CONSTANTS p1, p2, m1, m2, s1, c1

MCSenderOf == m1 :> p1 @@ m2 :> p2
MCIntentOf == m1 :> "stop" @@ m2 :> "stop"
MCMatching == s1 :> {p1, p2}
MCSegmentOf == c1 :> s1
MCCategoryOf == c1 :> "otp"
=============================================================================
