---------------------------- MODULE Submissions ----------------------------
(***************************************************************************)
(* What the ledger promises a client that retries: a submission is         *)
(* recorded as one row, and a success answer is given only for a recorded  *)
(* submission.  The row may go to the trash and back; it is destroyed only *)
(* out of the trash, or with its owner's account, and that frees the       *)
(* submission.  One call may move several submissions at once.             *)
(***************************************************************************)
CONSTANTS Users, Keys

VARIABLES
  entry,     \* what became of each submission
  answered,  \* submissions that got a success answer
  accounts   \* open accounts

Subs == Users \X Keys

Init ==
  /\ entry = [s \in Subs |-> "absent"]
  /\ answered = {}
  /\ accounts = Users

Moves == {<<"absent", "live">>, <<"live", "trashed">>, <<"trashed", "live">>, <<"trashed", "absent">>}

Next ==
  /\ accounts' \subseteq accounts
  /\ entry' \in [Subs -> {"absent", "live", "trashed"}]
  /\ \A s \in Subs :
       \/ entry'[s] = entry[s]
       \/ <<entry[s], entry'[s]>> \in Moves
       \/ s[1] \in accounts \ accounts' /\ entry'[s] = "absent"
  /\ answered \subseteq answered' /\ answered' \subseteq Subs
  /\ \A s \in answered' \ answered : entry'[s] # "absent"

Spec == Init /\ [][Next]_<<entry, answered, accounts>>
=============================================================================
