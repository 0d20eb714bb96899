------------------------------ MODULE ApiTokens ------------------------------
(***************************************************************************)
(* The API tokens of the settings page.  A created token's plaintext is    *)
(* answered once and shown in a dialog the page keeps above the section;   *)
(* the section itself (list, create dialog, revoke confirmations) is       *)
(* mounted anew when the viewport crosses the phone breakpoint, and what   *)
(* is answered to the old one is dropped.  A closing dialog gives focus    *)
(* back when its exit animation ends, which may be after the next dialog   *)
(* has opened.  Names, expiry and last use are left out.                   *)
(***************************************************************************)
EXTENDS Integers, FiniteSets

CONSTANTS MaxTokens, MaxTokenActs, MaxTokenFaults, MaxRotations

ASSUME TokenAssumption ==
    MaxTokens \in Nat \ {0} /\ {MaxTokenActs, MaxTokenFaults, MaxRotations} \subseteq Nat

TokenIds == 1..MaxTokens

VARIABLES
    liveTokens, minted,    \* server: tokens that work, tokens ever created
    mount,                 \* which mounting of the section is on screen
    tokens,                \* the list of that section
    createOpen,
    creations,             \* POSTs under way: mount, phase, id
    tokenLists,            \* GETs under way: mount, phase, data, crossed
    revealed, saved,       \* the plaintext on screen or 0; those the user kept
    answered,              \* tokens whose plaintext reached the browser
    revoking,              \* the confirmation: target (0 all, -1 none), phase
    opener,                \* what a revoke confirmation was opened from
    exiting,               \* dialogs whose exit animation runs
    handoff,               \* revealHandoffRef
    tokenFocus,
    tokenBudget, tokenNotes

tokenVars == <<liveTokens, minted, mount, tokens, createOpen, creations, tokenLists, revealed,
               saved, answered, revoking, opener, exiting, handoff, tokenFocus, tokenBudget,
               tokenNotes>>

TokenWithin == tokenBudget.acts < MaxTokenActs
TokenAct   == TokenWithin /\ tokenBudget' = [tokenBudget EXCEPT !.acts = @ + 1]
TokenFault == /\ tokenBudget.faults < MaxTokenFaults
              /\ tokenBudget' = [tokenBudget EXCEPT !.faults = @ + 1]

NoRevoke == [target |-> -1, phase |-> "closed"]
TokenGet(m) == [mount |-> m, phase |-> "asked", data |-> {}, crossed |-> FALSE]
\* The confirmation's close guard, and what a modal dialog leaves to the user,
\* who is slower than the 200 ms of an exit animation.
creating == \E c \in creations : c.mount = mount
SectionUsable == revealed = 0 /\ ~createOpen /\ revoking.phase = "closed" /\ exiting = {}

TokenInit ==
    /\ liveTokens = {1} /\ minted = 1 /\ mount = 1 /\ tokens = {} /\ createOpen = FALSE
    /\ creations = {} /\ tokenLists = {TokenGet(1)} /\ revealed = 0 /\ saved = {1}
    /\ answered = {1} /\ revoking = NoRevoke /\ opener = -1 /\ exiting = {}
    /\ handoff = FALSE /\ tokenFocus = "body"
    /\ tokenBudget = [acts |-> 0, faults |-> 0, rotations |-> 0] /\ tokenNotes = {}

----------------------------------------------------------------------------
(* The list.                                                               *)

ServeTokenList ==
    \E g \in tokenLists :
        /\ g.phase = "asked"
        /\ \/ /\ tokenLists' = (tokenLists \ {g}) \cup
                               {[g EXCEPT !.phase = "ok", !.data = liveTokens]}
              /\ UNCHANGED tokenBudget
           \/ /\ TokenFault
              /\ tokenLists' = (tokenLists \ {g}) \cup {[g EXCEPT !.phase = "failed"]}
        /\ UNCHANGED <<liveTokens, minted, mount, tokens, createOpen, creations, revealed, saved,
                       answered, revoking, opener, exiting, handoff, tokenFocus, tokenNotes>>

\* fetchTokens: a failure is swallowed and leaves the list as it is.
FetchTokens ==
    \E g \in tokenLists :
        /\ g.phase # "asked"
        /\ tokenLists' = tokenLists \ {g}
        /\ tokens' = IF g.phase = "ok" /\ g.mount = mount THEN g.data ELSE tokens
        /\ tokenNotes' = IF g.mount # mount THEN tokenNotes
                         ELSE tokenNotes \cup (IF g.phase = "failed" THEN {"failed"} ELSE {})
                                         \cup (IF g.crossed THEN {"crossed"} ELSE {})
        /\ UNCHANGED <<liveTokens, minted, mount, createOpen, creations, revealed, saved, answered,
                       revoking, opener, exiting, handoff, tokenFocus, tokenBudget>>

----------------------------------------------------------------------------
(* Creating a token and keeping its plaintext.                             *)

OpenCreate ==
    /\ SectionUsable /\ ~creating /\ TokenWithin
    /\ createOpen' = TRUE /\ tokenFocus' = "create dialog"
    /\ UNCHANGED <<liveTokens, minted, mount, tokens, creations, tokenLists, revealed, saved,
                   answered, revoking, opener, exiting, handoff, tokenBudget, tokenNotes>>

\* Refused while the POST is under way.
CloseCreate ==
    /\ createOpen /\ ~creating /\ revealed = 0
    /\ createOpen' = FALSE /\ exiting' = exiting \cup {"create"}
    /\ UNCHANGED <<liveTokens, minted, mount, tokens, creations, tokenLists, revealed, saved,
                   answered, revoking, opener, handoff, tokenFocus, tokenBudget, tokenNotes>>

SubmitCreate ==
    /\ createOpen /\ ~creating /\ revealed = 0 /\ minted + Cardinality(creations) < MaxTokens
    /\ TokenAct
    /\ creations' = creations \cup {[mount |-> mount, phase |-> "asked", id |-> 0]}
    /\ tokenNotes' = IF creations = {} THEN tokenNotes ELSE tokenNotes \cup {"twice"}
    /\ UNCHANGED <<liveTokens, minted, mount, tokens, createOpen, tokenLists, revealed, saved,
                   answered, revoking, opener, exiting, handoff, tokenFocus>>

\* The server writes the token before it answers.
ServeCreate ==
    \E c \in creations :
        /\ c.phase = "asked"
        /\ \/ /\ minted' = minted + 1
              /\ liveTokens' = liveTokens \cup {minted + 1}
              /\ \/ /\ creations' = (creations \ {c}) \cup
                                    {[c EXCEPT !.phase = "ok", !.id = minted + 1]}
                    /\ UNCHANGED tokenBudget
                 \/ /\ TokenFault
                    /\ creations' = (creations \ {c}) \cup {[c EXCEPT !.phase = "failed"]}
           \/ /\ TokenFault
              /\ creations' = (creations \ {c}) \cup {[c EXCEPT !.phase = "failed"]}
              /\ UNCHANGED <<liveTokens, minted>>
        /\ UNCHANGED <<mount, tokens, createOpen, tokenLists, revealed, saved, answered, revoking,
                       opener, exiting, handoff, tokenFocus, tokenNotes>>

\* History: the lists asked for before a creation was answered.
Crossed(lists) == {[g EXCEPT !.crossed = TRUE] : g \in lists}

\* The plaintext goes to the provider above the section, whichever mounting of
\* the section had asked; the list row and the dialogs belong to that mounting.
RevealToken(c) ==
    /\ revealed' = c.id
    /\ answered' = answered \cup {c.id}
    /\ tokenFocus' = "reveal"
    /\ tokenLists' = Crossed(tokenLists)
    /\ IF c.mount = mount
       THEN /\ handoff' = createOpen
            /\ createOpen' = FALSE
            /\ exiting' = IF createOpen THEN exiting \cup {"create"} ELSE exiting
            /\ tokens' = tokens \cup {c.id}
            /\ UNCHANGED tokenNotes
       ELSE /\ tokenNotes' = tokenNotes \cup {"rotated"}
            /\ UNCHANGED <<handoff, createOpen, exiting, tokens>>

\* A create that failed may have been recorded: the list is read again.
CreateFailed(c) ==
    /\ tokenLists' = Crossed(tokenLists) \cup {TokenGet(c.mount)}
    /\ tokenNotes' = IF c.mount = mount THEN tokenNotes ELSE tokenNotes \cup {"rotated"}
    /\ UNCHANGED <<tokens, createOpen, revealed, answered, exiting, handoff, tokenFocus>>

OnCreate ==
    \E c \in creations :
        /\ c.phase # "asked"
        /\ creations' = creations \ {c}
        /\ IF c.phase = "ok" THEN RevealToken(c) ELSE CreateFailed(c)
        /\ UNCHANGED <<liveTokens, minted, mount, saved, revoking, opener, tokenBudget>>

\* The only way out of the reveal: its button.
RevealClosed ==
    /\ revealed # 0
    /\ saved' = saved \cup {revealed}
    /\ revealed' = 0 /\ exiting' = exiting \cup {"reveal"}
    /\ UNCHANGED <<liveTokens, minted, mount, tokens, createOpen, creations, tokenLists, answered,
                   revoking, opener, handoff, tokenFocus, tokenBudget, tokenNotes>>

----------------------------------------------------------------------------
(* Revoking one token, or all.                                             *)

\* The buttons on screen: one per listed token, and all of them.
OpenRevoke ==
    /\ SectionUsable /\ TokenWithin /\ tokens # {}
    /\ \E t \in tokens \cup {0} :
          revoking' = [target |-> t, phase |-> "open"] /\ opener' = t
    /\ tokenFocus' = "revoke dialog"
    /\ UNCHANGED <<liveTokens, minted, mount, tokens, createOpen, creations, tokenLists, revealed,
                   saved, answered, exiting, handoff, tokenBudget, tokenNotes>>

CancelRevoke ==
    /\ revoking.phase = "open" /\ revealed = 0
    /\ revoking' = NoRevoke /\ exiting' = exiting \cup {"revoke"}
    /\ UNCHANGED <<liveTokens, minted, mount, tokens, createOpen, creations, tokenLists, revealed,
                   saved, answered, opener, handoff, tokenFocus, tokenBudget, tokenNotes>>

ConfirmRevoke ==
    /\ revoking.phase = "open" /\ revealed = 0 /\ TokenAct
    /\ revoking' = [revoking EXCEPT !.phase = "asked"]
    /\ UNCHANGED <<liveTokens, minted, mount, tokens, createOpen, creations, tokenLists, revealed,
                   saved, answered, opener, exiting, handoff, tokenFocus, tokenNotes>>

Revoked(t) == IF t = 0 THEN liveTokens ELSE {t}

ServeRevoke ==
    /\ revoking.phase = "asked"
    /\ \/ /\ liveTokens' = liveTokens \ Revoked(revoking.target)
          /\ revoking' = [revoking EXCEPT !.phase = "ok"]
          /\ UNCHANGED tokenBudget
       \/ /\ TokenFault
          /\ liveTokens' \in {liveTokens, liveTokens \ Revoked(revoking.target)}
          /\ revoking' = [revoking EXCEPT !.phase = "failed"]
    /\ UNCHANGED <<minted, mount, tokens, createOpen, creations, tokenLists, revealed, saved,
                   answered, opener, exiting, handoff, tokenFocus, tokenNotes>>

\* A failure leaves the confirmation open.
OnConfirmRevoke ==
    /\ revoking.phase \in {"ok", "failed"}
    /\ IF revoking.phase = "failed"
       THEN revoking' = [revoking EXCEPT !.phase = "open"] /\ UNCHANGED <<tokens, exiting>>
       ELSE /\ revoking' = NoRevoke /\ exiting' = exiting \cup {"revoke"}
            /\ tokens' = IF revoking.target = 0 THEN {} ELSE tokens \ {revoking.target}
    /\ UNCHANGED <<liveTokens, minted, mount, createOpen, creations, tokenLists, revealed, saved,
                   answered, opener, handoff, tokenFocus, tokenBudget, tokenNotes>>

----------------------------------------------------------------------------
(* Focus when an exit animation ends, and the phone breakpoint.            *)

\* Radix restores focus to the trigger unless this close handed over to the
\* reveal.
CreateExited ==
    /\ "create" \in exiting
    /\ exiting' = exiting \ {"create"} /\ handoff' = FALSE
    /\ tokenFocus' = IF handoff THEN tokenFocus ELSE "create"
    /\ UNCHANGED <<liveTokens, minted, mount, tokens, createOpen, creations, tokenLists, revealed,
                   saved, answered, revoking, opener, tokenBudget, tokenNotes>>

\* The Revoke button that opened the confirmation, if it is still there.
RevokeExited ==
    /\ "revoke" \in exiting
    /\ exiting' = exiting \ {"revoke"} /\ opener' = -1
    /\ tokenFocus' = IF opener \in tokens THEN "revoke"
                     ELSE IF opener = 0 /\ tokens # {} THEN "revoke all" ELSE "create"
    /\ UNCHANGED <<liveTokens, minted, mount, tokens, createOpen, creations, tokenLists, revealed,
                   saved, answered, revoking, handoff, tokenBudget, tokenNotes>>

RevealExited ==
    /\ "reveal" \in exiting
    /\ exiting' = exiting \ {"reveal"} /\ tokenFocus' = "create"
    /\ UNCHANGED <<liveTokens, minted, mount, tokens, createOpen, creations, tokenLists, revealed,
                   saved, answered, revoking, opener, handoff, tokenBudget, tokenNotes>>

\* mutant: the reveal belongs to the section and goes with it
RotateWithReveal ==
    /\ tokenBudget.rotations < MaxRotations
    /\ tokenBudget' = [tokenBudget EXCEPT !.rotations = @ + 1]
    /\ mount' = mount + 1 /\ tokens' = {} /\ createOpen' = FALSE /\ revealed' = 0
    /\ tokenLists' = tokenLists \cup {TokenGet(mount + 1)}
    /\ revoking' = NoRevoke /\ opener' = -1 /\ handoff' = FALSE /\ exiting' = {}
    /\ tokenFocus' = "body"
    /\ UNCHANGED <<liveTokens, minted, creations, saved, answered, tokenNotes>>

\* Every state of the section is lost; the reveal stays.
Rotate ==
    /\ tokenBudget.rotations < MaxRotations
    /\ tokenBudget' = [tokenBudget EXCEPT !.rotations = @ + 1]
    /\ mount' = mount + 1 /\ tokens' = {} /\ createOpen' = FALSE
    /\ tokenLists' = tokenLists \cup {TokenGet(mount + 1)}
    /\ revoking' = NoRevoke /\ opener' = -1 /\ handoff' = FALSE
    /\ exiting' = exiting \cap {"reveal"}
    /\ tokenFocus' = IF tokenFocus = "reveal" THEN "reveal" ELSE "body"
    /\ tokenNotes' = IF revoking.phase \in {"asked", "ok", "failed"}
                     THEN tokenNotes \cup {"rotated"} ELSE tokenNotes
    /\ UNCHANGED <<liveTokens, minted, creations, revealed, saved, answered>>

TokenNext ==
    \/ ServeTokenList \/ FetchTokens \/ OpenCreate \/ CloseCreate \/ SubmitCreate \/ ServeCreate
    \/ OnCreate \/ RevealClosed \/ OpenRevoke \/ CancelRevoke \/ ConfirmRevoke \/ ServeRevoke
    \/ OnConfirmRevoke \/ CreateExited \/ RevokeExited \/ RevealExited \/ Rotate

----------------------------------------------------------------------------
TokenTypeOK ==
    /\ liveTokens \subseteq TokenIds /\ tokens \subseteq TokenIds /\ minted \in TokenIds
    /\ revealed \in {0} \cup TokenIds /\ revoking.target \in -1..MaxTokens
    /\ exiting \subseteq {"create", "revoke", "reveal"}

\* A token whose plaintext reached the browser is on screen until the user says
\* it is saved, across rotations before and after the answer; unless a second
\* create was submitted while one was under way for a section that is gone.
TokenShownUntilSaved ==
    "twice" \notin tokenNotes => answered \subseteq saved \cup {revealed}

\* With nothing under way, every token that works is listed, with a button to
\* revoke it, those included whose creation seemed to fail; unless a list could
\* not be read, was read before a creation and answered after it, or something
\* was answered to a section that is gone.
LiveTokensListed ==
    creations = {} /\ tokenLists = {} /\ revoking.phase \in {"closed", "open"} /\ tokenNotes = {}
    => liveTokens \subseteq tokens

\* While the plaintext is on screen, focus is in its dialog: no other dialog's
\* close takes it away, unless the plaintext came to a section that is gone.
RevealKeepsFocus == revealed # 0 /\ "rotated" \notin tokenNotes => tokenFocus = "reveal"
=============================================================================
