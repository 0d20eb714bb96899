---------------------------- MODULE MCLiveUpdates ----------------------------
(* Instances of LiveUpdates: a tab of a household member, with the
   streams its past connections left behind. *)
EXTENDS LiveUpdates

CONSTANTS ann, d1, s1, s2, s3

OneUser == [d \in Tabs |-> ann]
=============================================================================
