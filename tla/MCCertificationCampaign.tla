----------------------- MODULE MCCertificationCampaign -----------------------
(* An instance for TLC: an account with two entitlements of one reviewer, and *)
(* an item without entitlements of another.                                   *)
EXTENDS CertificationCampaign, TLC

CONSTANTS account, other, read, write, ann, ben

MCItemOf == [e \in Entitlement |-> account]
MCReviewerOf == [i \in Item |-> IF i = account THEN ann ELSE ben]
=============================================================================
