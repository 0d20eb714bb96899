----------------------------- MODULE BudgetsGuard -----------------------------
(***************************************************************************)
(* What keeps unsaved budget edits from being lost by leaving the page.    *)
(* While there are some, an extra history entry stands on top of the       *)
(* page's own, so that Back stays on the page and asks; a click on a link  *)
(* is caught before the router sees it.  history.back() and go() are       *)
(* carried out later, in the order they were asked for.  A visit of the    *)
(* page ends when the router shows another one.                            *)
(***************************************************************************)
EXTENDS Integers, Sequences

CONSTANTS MaxGuardActs

ASSUME GuardAssumption == MaxGuardActs \in Nat

VARIABLES
    entries, position,    \* the session history: "other", "budgets", "guard"
    traversals,           \* history.go calls not yet carried out
    isDirty,
    pendingHref, pendingBack,   \* the dialogs
    selfNav,              \* selfNavRef
    left,                 \* how the visit ended: "no", "asked", "silently", "clean"
    guardActs, guardNotes

guardVars == <<entries, position, traversals, isDirty, pendingHref, pendingBack, selfNav, left,
               guardActs, guardNotes>>

GuardAct == left = "no" /\ guardActs < MaxGuardActs /\ guardActs' = guardActs + 1
AtPage == left = "no"
Blocked == pendingHref \/ pendingBack      \* a modal dialog is open

\* The page was reached from another one, or opened by its address.
GuardInit ==
    /\ entries \in {<<"other", "budgets">>, <<"budgets">>} /\ position = Len(entries)
    /\ traversals = <<>> /\ isDirty = FALSE /\ pendingHref = FALSE /\ pendingBack = FALSE
    /\ selfNav = FALSE /\ left = "no" /\ guardActs = 0 /\ guardNotes = {}

\* pushState drops what lies ahead.
Pushed(entry, at) == SubSeq(entries, 1, at) \o <<entry>>

\* mutant: no entry is pushed on top of the page's own
BecomeDirtyUnguarded ==
    /\ AtPage /\ ~Blocked /\ ~isDirty /\ GuardAct
    /\ isDirty' = TRUE
    /\ UNCHANGED <<entries, position, traversals, pendingHref, pendingBack, selfNav, left, guardNotes>>

\* An edit: the effect pushes the guard entry.
BecomeDirty ==
    /\ AtPage /\ ~Blocked /\ ~isDirty /\ GuardAct
    /\ isDirty' = TRUE
    /\ entries' = Pushed("guard", position) /\ position' = position + 1
    /\ guardNotes' = IF traversals = <<>> THEN guardNotes ELSE guardNotes \cup {"flip"}
    /\ UNCHANGED <<traversals, pendingHref, pendingBack, selfNav, left>>

\* A save, or edits taken back: the effect's cleanup takes the guard away.
BecomeClean ==
    /\ AtPage /\ isDirty /\ GuardAct
    /\ isDirty' = FALSE
    /\ traversals' = IF entries[position] = "guard" THEN Append(traversals, -1) ELSE traversals
    /\ guardNotes' = IF traversals = <<>> /\ ~pendingBack THEN guardNotes
                     ELSE guardNotes \cup {"flip"}
    /\ UNCHANGED <<entries, position, pendingHref, pendingBack, selfNav, left>>

\* The browser's Back button.
PressBack ==
    /\ AtPage /\ position > 1 /\ GuardAct
    /\ traversals' = Append(traversals, -1)
    /\ guardNotes' = IF traversals = <<>> THEN guardNotes ELSE guardNotes \cup {"twice"}
    /\ UNCHANGED <<entries, position, isDirty, pendingHref, pendingBack, selfNav, left>>

\* popstate: the router shows the entry's page; the handler, there while there
\* are edits, lets one navigation of its own through and stops any other.
Popstate ==
    /\ AtPage /\ traversals # <<>>
    /\ traversals' = Tail(traversals)
    /\ LET to == position + Head(traversals)
       IN  IF to < 1
           THEN /\ guardNotes' = guardNotes \cup {"first"}
                /\ UNCHANGED <<entries, position, pendingBack, selfNav, left>>
           ELSE /\ UNCHANGED guardNotes
                /\ IF isDirty /\ ~selfNav
                   THEN /\ entries' = Pushed("guard", to) /\ position' = to + 1
                        /\ pendingBack' = TRUE /\ UNCHANGED selfNav
                   ELSE /\ position' = to /\ selfNav' = FALSE
                        /\ UNCHANGED <<entries, pendingBack>>
                /\ left' = IF entries[to] # "other" THEN "no"
                           ELSE IF ~isDirty THEN "clean"
                           ELSE IF selfNav THEN "asked" ELSE "silently"
    /\ UNCHANGED <<isDirty, pendingHref, guardActs>>

\* A link inside the application, caught in the capture phase.
ClickLink ==
    /\ AtPage /\ ~Blocked /\ GuardAct
    /\ IF isDirty THEN pendingHref' = TRUE /\ UNCHANGED left
       ELSE left' = "clean" /\ UNCHANGED pendingHref
    /\ UNCHANGED <<entries, position, traversals, isDirty, pendingBack, selfNav, guardNotes>>

AnswerLink ==
    /\ AtPage /\ pendingHref
    /\ pendingHref' = FALSE
    /\ left' \in {"no", "asked"}
    /\ UNCHANGED <<entries, position, traversals, isDirty, pendingBack, selfNav, guardActs, guardNotes>>

\* Leaving steps over the guard and the page's own entry.
AnswerBack ==
    /\ AtPage /\ pendingBack
    /\ pendingBack' = FALSE
    /\ \/ UNCHANGED <<traversals, selfNav>>
       \/ selfNav' = TRUE /\ traversals' = Append(traversals, -2)
    /\ guardNotes' = IF traversals = <<>> THEN guardNotes ELSE guardNotes \cup {"twice"}
    /\ UNCHANGED <<entries, position, isDirty, pendingHref, left, guardActs>>

GuardNext ==
    \/ BecomeDirty \/ BecomeClean \/ PressBack \/ Popstate \/ ClickLink \/ AnswerLink \/ AnswerBack

----------------------------------------------------------------------------
GuardTypeOK ==
    /\ position \in 1..Len(entries) /\ \A d \in 1..Len(traversals) : traversals[d] \in {-1, -2}
    /\ left \in {"no", "asked", "silently", "clean"}
    /\ {isDirty, pendingHref, pendingBack, selfNav} \subseteq BOOLEAN

\* The page is not left with unsaved edits unless the user was asked; and with
\* no traversal under way the guard entry is on top exactly while there are
\* edits, so that Back asks when it should and leaves at once when it need not.
\* Set aside: a second Back before the first was carried out, edits that come
\* or go while a traversal or the question is pending, and a confirmed Back of
\* a page with no page before it.
EditsAreGuarded ==
    guardNotes = {} =>
        /\ left # "silently"
        /\ left = "no" /\ traversals = <<>> => (isDirty <=> entries[position] = "guard")
=============================================================================
