---------------------------- MODULE HouseholdUsers ----------------------------
(***************************************************************************)
(* The administrator's user list: renaming, role changes, password resets, *)
(* deletion and additions, each a request followed by a refresh of the     *)
(* list.  On a phone they start from one Manage dialog that hands over to  *)
(* the confirmations; on a table each row has its own buttons.  The        *)
(* dialogs are opened without a trigger, so where focus goes when one      *)
(* closes is the section's own doing.  An account is 0 when it does not    *)
(* exist and otherwise a number that every change of its name or role      *)
(* raises; a password is not on the list.  Accounts are numbered as they   *)
(* are created and no number is used twice (AUTOINCREMENT).                *)
(***************************************************************************)
EXTENDS Integers, Sequences, FiniteSets

CONSTANTS UserCount, MaxUserActs, MaxUserFaults

ASSUME UserAssumption == UserCount \in Nat \ {0} /\ {MaxUserActs, MaxUserFaults} \subseteq Nat

Users == 1..UserCount
Self == 1     \* the administrator looking at the list

VARIABLES
    accounts, lastUserId,   \* server
    users,               \* the list on screen
    isMobile,
    userDialog,          \* the dialog on screen and its request
    changes,             \* requests no dialog stays open for: roles, additions, Manage's names
    userLoads,           \* GETs under way, in the order they were sent
    userExiting,         \* dialogs whose exit animation runs
    confirmHandoff, confirmOpener, deleteSucceeded, lastTarget,
    userFocus,
    userBudget, userNotes

accountTable == <<accounts, lastUserId>>
userVars == <<accountTable, users, isMobile, userDialog, changes, userLoads, userExiting,
              confirmHandoff, confirmOpener, deleteSucceeded, lastTarget, userFocus, userBudget,
              userNotes>>
userRefs == <<confirmHandoff, confirmOpener, deleteSucceeded, lastTarget>>

UserAct   == userBudget.acts < MaxUserActs /\ userBudget' = [userBudget EXCEPT !.acts = @ + 1]
UserFault == /\ userBudget.faults < MaxUserFaults
             /\ userBudget' = [userBudget EXCEPT !.faults = @ + 1]

NoUserDialog == [kind |-> "none", user |-> 0, phase |-> "open"]
UserLoad == [phase |-> "asked", data |-> [u \in Users |-> 0]]
Listed == {u \in Users : users[u] # 0}
Nowhere == [on |-> "body", named |-> "", user |-> 0]
Heading == [on |-> "heading", named |-> "", user |-> 0]
Inside(kind) == [on |-> "dialog", named |-> kind, user |-> 0]
Button(named, u) == [on |-> "button", named |-> named, user |-> u]

\* A row's button, if the row is there; the card's heading otherwise.
Anchor(named, u) == IF u \in Listed THEN Button(named, u) ELSE Heading

UserInit ==
    /\ accounts = [u \in Users |-> IF u = UserCount THEN 0 ELSE 1]
    /\ lastUserId = UserCount - 1
    /\ users = [u \in Users |-> 0] /\ isMobile \in BOOLEAN
    /\ userDialog = NoUserDialog /\ changes = {} /\ userLoads = <<UserLoad>>
    /\ userExiting = {} /\ confirmHandoff = FALSE /\ confirmOpener = "none"
    /\ deleteSucceeded = FALSE /\ lastTarget = 0 /\ userFocus = Heading
    /\ userBudget = [acts |-> 0, faults |-> 0] /\ userNotes = {}

----------------------------------------------------------------------------
(* The list.                                                               *)

\* A request may be read before one that was sent earlier.
ServeUserLoad ==
    \E i \in DOMAIN userLoads :
        /\ userLoads[i].phase = "asked"
        /\ \/ /\ userLoads' = [userLoads EXCEPT ![i] = [phase |-> "ok", data |-> accounts]]
              /\ userNotes' = IF \E j \in 1..(i - 1) : userLoads[j].phase = "asked"
                              THEN userNotes \cup {"overtaken"} ELSE userNotes
              /\ UNCHANGED userBudget
           \/ /\ UserFault /\ userLoads' = [userLoads EXCEPT ![i].phase = "failed"]
              /\ UNCHANGED userNotes
        /\ UNCHANGED <<accountTable, users, isMobile, userDialog, changes, userExiting, userRefs,
                       userFocus>>

\* A row that goes takes the focus of its buttons with it.
FetchUsers ==
    \E i \in DOMAIN userLoads :
        LET load == userLoads[i]
        IN  /\ load.phase # "asked"
            /\ userLoads' = SubSeq(userLoads, 1, i - 1) \o SubSeq(userLoads, i + 1, Len(userLoads))
            /\ users' = IF load.phase = "ok" THEN load.data ELSE users
            /\ userFocus' = IF userFocus.user # 0 /\ users'[userFocus.user] = 0
                            THEN Nowhere ELSE userFocus
            /\ userNotes' = userNotes \cup (IF load.phase = "failed" THEN {"failed"} ELSE {})
                                      \cup (IF i > 1 /\ load.phase = "ok" THEN {"crossed"} ELSE {})
            /\ UNCHANGED <<accountTable, isMobile, userDialog, changes, userExiting, userRefs,
                           userBudget>>

\* Another administrator deletes an account.
DeletedElsewhere ==
    /\ UserFault
    /\ \E u \in Users \ {Self} : accounts[u] # 0 /\ accounts' = [accounts EXCEPT ![u] = 0]
    /\ userNotes' = userNotes \cup {"elsewhere"}
    /\ UNCHANGED <<lastUserId, users, isMobile, userDialog, changes, userLoads, userExiting, userRefs,
                   userFocus>>

----------------------------------------------------------------------------
(* Opening and closing dialogs.                                            *)

\* The user is slower than the 200 ms of an exit animation.
NoOverlay == userDialog = NoUserDialog /\ userExiting = {}
Open(kind, u) ==
    /\ userDialog' = [kind |-> kind, user |-> u, phase |-> "open"]
    /\ userFocus' = Inside(kind)
    /\ userNotes' = IF u # 0 /\ accounts[u] = 0 THEN userNotes \cup {"gone"} ELSE userNotes

OpenManage ==
    /\ isMobile /\ NoOverlay /\ userBudget.acts < MaxUserActs
    /\ \E u \in Listed : Open("manage", u) /\ lastTarget' = u
    /\ UNCHANGED <<accountTable, users, isMobile, changes, userLoads, userExiting, confirmHandoff,
                   confirmOpener, deleteSucceeded, userBudget>>

OpenRename ==
    /\ ~isMobile /\ NoOverlay /\ userBudget.acts < MaxUserActs
    /\ \E u \in Listed : Open("rename", u) /\ lastTarget' = u
    /\ UNCHANGED <<accountTable, users, isMobile, changes, userLoads, userExiting, confirmHandoff,
                   confirmOpener, deleteSucceeded, userBudget>>

\* Reset is not offered for oneself.
Confirmable == {<<"reset", u>> : u \in Listed \ {Self}} \cup {<<"delete", u>> : u \in Listed}

OpenFromTable ==
    /\ ~isMobile /\ NoOverlay /\ userBudget.acts < MaxUserActs
    /\ \E c \in Confirmable : Open(c[1], c[2]) /\ confirmOpener' = c[1] /\ lastTarget' = c[2]
    /\ UNCHANGED <<accountTable, users, isMobile, changes, userLoads, userExiting, confirmHandoff,
                   deleteSucceeded, userBudget>>

\* The Manage dialog closes and the confirmation opens at once: its exit is
\* still to come, and must not take the focus.
ConfirmFromManage ==
    /\ userDialog.kind = "manage" /\ userDialog.phase = "open"
    /\ \E kind \in {"reset", "delete"} :
          /\ kind = "reset" => userDialog.user # Self
          /\ Open(kind, userDialog.user)
    /\ confirmHandoff' = TRUE /\ confirmOpener' = "manage"
    /\ userExiting' = userExiting \cup {"manage"}
    /\ UNCHANGED <<accountTable, users, isMobile, changes, userLoads, deleteSucceeded, lastTarget, userBudget>>

OpenAdd ==
    /\ NoOverlay /\ userBudget.acts < MaxUserActs
    /\ Open("add", 0)
    /\ UNCHANGED <<accountTable, users, isMobile, changes, userLoads, userExiting, userRefs, userBudget>>

Saving == \E c \in changes : c.kind = "manage"

\* No dialog closes on the user while its request is under way, but for Add.
Close ==
    /\ userDialog.kind # "none" /\ userDialog.phase = "open"
    /\ userDialog.kind = "manage" => ~Saving
    /\ userDialog' = NoUserDialog
    /\ userExiting' = userExiting \cup {userDialog.kind}
    /\ UNCHANGED <<accountTable, users, isMobile, changes, userLoads, userRefs, userFocus,
                   userBudget, userNotes>>

\* onCloseAutoFocus of the dialog whose exit has ended.
FocusAfterConfirmClose(removed) ==
    /\ confirmOpener' = "none"
    /\ userFocus' = IF removed \/ confirmOpener = "none" THEN Heading
                    ELSE Anchor(confirmOpener, lastTarget)

DialogExited ==
    \E kind \in userExiting :
        /\ userExiting' = userExiting \ {kind}
        /\ CASE kind = "add" -> userFocus' = Button("add", 0) /\ UNCHANGED userRefs
             [] kind = "rename" -> userFocus' = Anchor("rename", lastTarget) /\ UNCHANGED userRefs
             [] kind = "manage" ->
                  /\ userFocus' = IF confirmHandoff THEN userFocus ELSE Anchor("manage", lastTarget)
                  /\ confirmHandoff' = FALSE
                  /\ UNCHANGED <<confirmOpener, deleteSucceeded, lastTarget>>
             [] kind = "reset" ->
                  /\ FocusAfterConfirmClose(FALSE)
                  /\ UNCHANGED <<confirmHandoff, deleteSucceeded, lastTarget>>
             [] kind = "delete" ->
                  /\ FocusAfterConfirmClose(deleteSucceeded)
                  /\ deleteSucceeded' = FALSE
                  /\ UNCHANGED <<confirmHandoff, lastTarget>>
        /\ UNCHANGED <<accountTable, users, isMobile, userDialog, changes, userLoads, userBudget,
                       userNotes>>

----------------------------------------------------------------------------
(* Requests.                                                               *)

SubmitDialog ==
    /\ userDialog.kind \in {"rename", "reset", "delete"} /\ userDialog.phase = "open" /\ UserAct
    /\ userDialog' = [userDialog EXCEPT !.phase = "asked"]
    /\ UNCHANGED <<accountTable, users, isMobile, changes, userLoads, userExiting, userRefs,
                   userFocus, userNotes>>

Create == lastUserId' = lastUserId + 1 /\ accounts' = [accounts EXCEPT ![lastUserId + 1] = 1]

Done(kind, u) ==
    CASE kind = "delete" -> accounts' = [accounts EXCEPT ![u] = 0] /\ UNCHANGED lastUserId
      [] kind = "add"    -> Create
      [] kind = "reset"  -> UNCHANGED accountTable
      [] OTHER           -> accounts' = [accounts EXCEPT ![u] = @ + 1] /\ UNCHANGED lastUserId
\* A name may be taken (see ServeChange); UserCount bounds the accounts ever created.
Accepted(kind, u) ==
    CASE kind = "add"    -> lastUserId < UserCount
      [] kind = "delete" -> u # Self /\ accounts[u] # 0
      [] kind = "role"   -> u # Self /\ accounts[u] # 0   \* one's own can only be lowered
      [] OTHER           -> accounts[u] # 0

ServeDialog ==
    /\ userDialog.phase = "asked"
    /\ LET kind == userDialog.kind
           u == userDialog.user
           answer(p) == userDialog' = [userDialog EXCEPT !.phase = p]
       IN  \/ Accepted(kind, u) /\ Done(kind, u) /\ answer("ok") /\ UNCHANGED <<userBudget, userNotes>>
           \/ /\ ~Accepted(kind, u) /\ answer("failed")
              /\ UNCHANGED <<accountTable, userBudget, userNotes>>
           \/ /\ Accepted(kind, u) /\ UserFault /\ answer("failed")
              /\ \/ Done(kind, u) /\ userNotes' = userNotes \cup {"lost"}
                 \/ UNCHANGED <<accountTable, userNotes>>
    /\ UNCHANGED <<users, isMobile, changes, userLoads, userExiting, userRefs, userFocus>>

\* A success closes the dialog and reads the list again, but for a password
\* reset; a failure leaves it open.
DialogAnswered ==
    /\ userDialog.phase \in {"ok", "failed"}
    /\ IF userDialog.phase = "ok"
       THEN /\ userDialog' = NoUserDialog
            /\ userExiting' = userExiting \cup {userDialog.kind}
            /\ deleteSucceeded' = (deleteSucceeded \/ userDialog.kind = "delete")
            /\ userLoads' = IF userDialog.kind = "reset" THEN userLoads
                            ELSE Append(userLoads, UserLoad)
       ELSE /\ userDialog' = [userDialog EXCEPT !.phase = "open"]
            /\ UNCHANGED <<userExiting, deleteSucceeded, userLoads>>
    /\ UNCHANGED <<accountTable, users, isMobile, changes, confirmHandoff, confirmOpener,
                   lastTarget, userFocus, userBudget, userNotes>>

\* Several may be under way for one user, or one several times: nth tells them apart.
Start(kind, u) ==
    /\ UserAct
    /\ \E n \in 1..MaxUserActs :
          /\ \A c \in changes : c.nth # n
          /\ \A m \in 1..(n - 1) : \E c \in changes : c.nth = m
          /\ changes' = changes \cup {[kind |-> kind, user |-> u, phase |-> "asked", nth |-> n]}
    /\ UNCHANGED <<accountTable, users, isMobile, userDialog, userLoads, userExiting, userRefs,
                   userFocus, userNotes>>

\* The role select of a row, or of the Manage dialog.
HandleRoleChange ==
    \E u \in IF isMobile THEN {userDialog.user} ELSE Listed :
        /\ IF isMobile THEN userDialog.kind = "manage" ELSE NoOverlay
        /\ Start("role", u)

\* The buttons that leave for a confirmation stay enabled meanwhile.
OnSaveManagedName == userDialog.kind = "manage" /\ ~Saving /\ Start("manage", userDialog.user)

OnAddUser == userDialog.kind = "add" /\ Start("add", 0)

ServeChange ==
    \E c \in changes :
        LET answer(p) == changes' = (changes \ {c}) \cup {[c EXCEPT !.phase = p]}
        IN  /\ c.phase = "asked"
            /\ \/ /\ Accepted(c.kind, c.user) /\ Done(c.kind, c.user) /\ answer("ok")
                  /\ UNCHANGED <<userBudget, userNotes>>
               \/ /\ ~Accepted(c.kind, c.user) \/ c.kind = "add"
                  /\ answer("failed") /\ UNCHANGED <<accountTable, userBudget, userNotes>>
               \/ /\ UserFault /\ answer("failed")
                  /\ \/ UNCHANGED <<accountTable, userNotes>>
                     \/ /\ Accepted(c.kind, c.user) /\ Done(c.kind, c.user)
                        /\ userNotes' = userNotes \cup {"lost"}
            /\ UNCHANGED <<users, isMobile, userDialog, userLoads, userExiting, userRefs, userFocus>>

\* A success closes the dialog it came from, if that is open or open again.
Changed ==
    \E c \in changes :
        LET closes == c.phase = "ok" /\ userDialog.kind = c.kind
        IN  /\ c.phase # "asked"
            /\ changes' = changes \ {c}
            /\ userLoads' = IF c.phase = "ok" THEN Append(userLoads, UserLoad) ELSE userLoads
            /\ userDialog' = IF closes THEN NoUserDialog ELSE userDialog
            /\ userExiting' = IF closes THEN userExiting \cup {c.kind} ELSE userExiting
            /\ UNCHANGED <<accountTable, users, isMobile, userRefs, userFocus, userBudget, userNotes>>

UserNext ==
    \/ ServeUserLoad \/ FetchUsers \/ DeletedElsewhere \/ OpenManage \/ OpenRename \/ OpenFromTable
    \/ ConfirmFromManage \/ OpenAdd \/ Close \/ DialogExited \/ SubmitDialog \/ ServeDialog
    \/ DialogAnswered \/ HandleRoleChange \/ OnSaveManagedName
    \/ OnAddUser \/ ServeChange \/ Changed

----------------------------------------------------------------------------
UserTypeOK ==
    /\ \A u \in Users : accounts[u] \in Nat /\ users[u] \in Nat
    /\ lastUserId \in 0..UserCount
    /\ userDialog.user \in {0} \cup Users /\ lastTarget \in {0} \cup Users
    /\ userExiting \subseteq {"manage", "rename", "reset", "delete", "add"}
    /\ {confirmHandoff, deleteSucceeded, isMobile} \subseteq BOOLEAN

\* With nothing under way, the list is the server's; unless a list failed or came
\* before an earlier one, a change was made elsewhere, or an answer was lost.
UsersShownAreTrue ==
    /\ userDialog.phase = "open" /\ changes = {} /\ userLoads = <<>>
    /\ userNotes \subseteq {"gone", "overtaken"}
    => users = accounts

\* Focus is in the dialog that is open, a confirmation that took over from
\* Manage included, and when all is closed it is on something that is there: a
\* deleted row does not take it along.  Accounts deleted elsewhere, deletions
\* whose answer was lost, lists read or received out of order, and dialogs opened on a row that is
\* gone already are left aside.
UserFocusKept ==
    userNotes \subseteq {"failed"}
    => IF userDialog.kind # "none" THEN userFocus = Inside(userDialog.kind)
       ELSE userFocus # Nowhere
=============================================================================
