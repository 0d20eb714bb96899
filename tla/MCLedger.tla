------------------------------ MODULE MCLedger ------------------------------
(* Instances of Ledger: a small household, and the request mixes the runs use. *)
EXTENDS Ledger, TLC

CONSTANTS ann, bob, k1, t1, t2, c1, n1, n2, s1, s2

MCAdmins == {ann}

\* a retried capture against everything members and admins do to its row
RetryKinds == {"create", "edit", "delete", "restore", "restoreAll", "purge", "deleteUser"}

\* one request at a time, bulk writers, renames and restarts included
SerialKinds ==
  {"create", "batchCreate", "edit", "batchUpdate", "filterUpdate", "delete", "batchDelete",
   "filterDelete", "restore", "batchRestore", "restoreAll", "purge", "purgeAll", "rename",
   "deleteUser", "crash"}

EditRaceKinds == {"create", "edit", "delete"}
AccountRaceKinds == {"create", "deleteUser"}

SlotSymmetry == Permutations(Slots)
=============================================================================
