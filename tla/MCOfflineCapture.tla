--------------------------- MODULE MCOfflineCapture ---------------------------
(* Instances of OfflineCapture: one device of a household. *)
EXTENDS OfflineCapture, TLC

CONSTANTS ann, bob, t1, t2

AllKinds == {"reject", "lost", "undo", "offline", "expire", "logout", "reload"}
SwitchKinds == {"offline", "logout"}

TabSymmetry == Permutations(Tabs)
DeviceSymmetry == Permutations(Tabs) \cup Permutations(Users)

\* Bounds of the instances: a second user who comes to the device counts as one
\* of the mishaps, so one user alone meets MaxFaults and two one less; and once
\* both have been there no capture is taken back, given up or refused, and nobody
\* signs out.
VARIABLE met

Present == {cookie, remembered} \cup {tab[t].user : t \in Tabs}

OnlySwitching ==
  /\ undone = {} /\ orphans = {}
  /\ \A t \in Tabs : leaving[t] = Staying
  /\ \A k \in DOMAIN queue : queue[k] = 0

BoundedInit == Init /\ met = {}

BoundedNext ==
  /\ Next
  /\ met' = met \cup (Present' \ {None})
  /\ faults' + Cardinality(met') <= MaxFaults + 1
  /\ Cardinality(met') = 2 => OnlySwitching'

BoundedSpec == BoundedInit /\ [][BoundedNext]_<<vars, met>>
=============================================================================
