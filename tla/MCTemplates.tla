---------------------------- MODULE MCTemplates ----------------------------
(* Instances of Templates for TLC.                                         *)
EXTENDS Templates

Data == INSTANCE TemplateData

TwoApps == Data!TwoApps
ThreeItems == Data!ThreeItems
ThreeTriggers == Data!ThreeTriggers
=============================================================================
