---------------------------- MODULE Notifications ----------------------------
(***************************************************************************)
(* The notification settings.  The household's preferences are one         *)
(* document: a change is shown at once, the whole document is sent, the    *)
(* answer replaces it, a failure restores what was shown before.  The      *)
(* device's push subscription lives in the browser and on the server;      *)
(* opening the page registers it again, and the browser may replace it at  *)
(* any time.  A preference is a boolean; the two ends of the quiet hours   *)
(* are two of them that are only sent together.                            *)
(***************************************************************************)
EXTENDS Integers, FiniteSets

CONSTANTS Toggles,          \* preferences changed one at a time
          MaxEndpoints, MaxNotifyActs, MaxNotifyFaults

ASSUME NotifyAssumption == {MaxEndpoints, MaxNotifyActs, MaxNotifyFaults} \subseteq Nat

QuietEnds == {"quiet_start", "quiet_end"}

ASSUME TogglesAssumption == Toggles \cap QuietEnds = {}

Prefs == [Toggles \cup QuietEnds -> BOOLEAN]
Endpoints == 1..MaxEndpoints

VARIABLES
    prefs, asked,           \* server; history: what the user last asked for
    settings,               \* on screen, {} before it is loaded
    typedQuiet,             \* the two quiet-hour fields
    prefsLoad, updates,     \* the GET; PUTs under way: document, previous, phase
    subscription,           \* the browser's endpoint, 0 for none
    registered,             \* the server's endpoints
    permission, subscribed,
    pushTask,               \* the enable or disable under way, and how far it is
    reconcile,              \* the registration sent when the page opened
    rotation,               \* the service worker's registration of a new endpoint
    endpoints,              \* endpoints ever given out
    notifyBudget, prefsNotes, pushNotes

prefsVars == <<prefs, asked, settings, typedQuiet, prefsLoad, updates, prefsNotes>>
pushVars  == <<subscription, registered, permission, subscribed, pushTask, reconcile, rotation,
               endpoints, pushNotes>>
notifyVars == <<prefs, asked, settings, typedQuiet, prefsLoad, updates, subscription, registered,
                permission, subscribed, pushTask, reconcile, rotation, endpoints, notifyBudget,
                prefsNotes, pushNotes>>

NotifyWithin == notifyBudget.acts < MaxNotifyActs
NotifyAct   == NotifyWithin /\ notifyBudget' = [notifyBudget EXCEPT !.acts = @ + 1]
NotifyFault == /\ notifyBudget.faults < MaxNotifyFaults
               /\ notifyBudget' = [notifyBudget EXCEPT !.faults = @ + 1]

NoTask == [kind |-> "none", at |-> "done", endpoint |-> 0]
AllOff == [p \in Toggles \cup QuietEnds |-> FALSE]
QuietOf(doc) == [q \in QuietEnds |-> doc[q]]

NotifyInit ==
    /\ prefs = AllOff /\ asked = AllOff /\ settings = {} /\ typedQuiet = QuietOf(AllOff)
    /\ prefsLoad = "asked" /\ updates = {}
    /\ subscription = 0 /\ registered = {} /\ permission = "default" /\ subscribed = FALSE
    /\ pushTask = NoTask /\ reconcile = 0 /\ rotation = 0 /\ endpoints = 0
    /\ notifyBudget = [acts |-> 0, faults |-> 0] /\ prefsNotes = {} /\ pushNotes = {}

----------------------------------------------------------------------------
(* The household's preferences (an administrator's screen).                *)

LoadPrefs ==
    /\ prefsLoad = "asked"
    /\ \/ /\ settings' = {prefs} /\ typedQuiet' = QuietOf(prefs) /\ prefsLoad' = "ok"
          /\ UNCHANGED notifyBudget
       \/ /\ NotifyFault /\ prefsLoad' = "failed" /\ UNCHANGED <<settings, typedQuiet>>
    /\ UNCHANGED <<prefs, asked, updates, prefsNotes, pushVars>>

\* Nothing is sent before the document is loaded.
Update(partial) ==
    \E previous \in settings :
        LET next == [p \in DOMAIN previous |-> IF p \in DOMAIN partial THEN partial[p] ELSE previous[p]]
            again == [p \in DOMAIN asked |-> IF p \in DOMAIN partial THEN partial[p] ELSE asked[p]]
        IN  /\ settings' = {next}
            /\ asked' = again
            /\ updates' = updates \cup {[doc |-> next, previous |-> previous, phase |-> "asked"]}
            /\ prefsNotes' = IF updates = {} THEN prefsNotes ELSE prefsNotes \cup {"overlap"}

HandleTypeToggle ==
    /\ NotifyAct
    /\ \E previous \in settings, t \in Toggles : Update([p \in {t} |-> ~previous[p]])
    /\ UNCHANGED <<prefs, typedQuiet, prefsLoad, pushVars>>

TypeQuiet ==
    /\ settings # {} /\ NotifyAct
    /\ \E q \in QuietEnds : typedQuiet' = [typedQuiet EXCEPT ![q] = ~@]
    /\ UNCHANGED <<prefs, asked, settings, prefsLoad, updates, prefsNotes, pushVars>>

\* One end without the other is not sent.
HandleQuietWindow ==
    /\ settings # {}
    /\ typedQuiet["quiet_start"] = typedQuiet["quiet_end"]
    /\ \A previous \in settings : typedQuiet # QuietOf(previous)
    /\ Update(typedQuiet)
    /\ UNCHANGED <<prefs, typedQuiet, prefsLoad, notifyBudget, pushVars>>

ServeUpdate ==
    \E u \in updates :
        /\ u.phase = "asked"
        /\ \/ /\ prefs' = u.doc /\ updates' = (updates \ {u}) \cup {[u EXCEPT !.phase = "ok"]}
              /\ UNCHANGED notifyBudget
           \/ /\ NotifyFault /\ prefs' \in {prefs, u.doc}
              /\ updates' = (updates \ {u}) \cup {[u EXCEPT !.phase = "failed"]}
        /\ UNCHANGED <<asked, settings, typedQuiet, prefsLoad, prefsNotes, pushVars>>

\* The answer is the document the server stored; a field is drawn anew when its
\* own value changes.
UpdateAnswered ==
    \E u \in updates :
        LET shown == IF u.phase = "ok" THEN u.doc ELSE u.previous
        IN  /\ u.phase # "asked"
            /\ updates' = updates \ {u}
            /\ settings' = {shown}
            /\ typedQuiet' = [q \in QuietEnds |->
                                IF \E s \in settings : s[q] = shown[q] THEN typedQuiet[q] ELSE shown[q]]
            /\ asked' = IF u.phase = "ok" THEN asked ELSE u.previous
            /\ prefsNotes' = IF u.phase = "failed" /\ prefs = u.doc
                             THEN prefsNotes \cup {"lost"} ELSE prefsNotes
            /\ UNCHANGED <<prefs, prefsLoad, notifyBudget, pushVars>>

----------------------------------------------------------------------------
(* This device's push subscription.                                        *)

busy == pushTask.kind # "none"
PushOnly == UNCHANGED <<prefs, asked, settings, typedQuiet, prefsLoad, updates, prefsNotes>>

\* mutant: opening the page shows the browser's subscription without registering it
OpenNotificationsShows ==
    /\ NotifyAct
    /\ subscribed' = (subscription # 0) /\ pushTask' = NoTask /\ reconcile' = 0
    /\ pushNotes' = IF busy \/ rotation # 0 \/ reconcile # 0
                    THEN pushNotes \cup {"overlap"} ELSE pushNotes \ {"failed", "dropped"}
    /\ PushOnly
    /\ UNCHANGED <<subscription, registered, permission, rotation, endpoints>>

\* The page opens: what the browser holds is shown and registered again.
OpenNotifications ==
    /\ NotifyAct
    /\ subscribed' = (subscription # 0) /\ pushTask' = NoTask
    /\ reconcile' = IF permission = "granted" THEN subscription ELSE 0
    /\ pushNotes' = IF busy \/ rotation # 0 \/ reconcile # 0
                    THEN pushNotes \cup {"overlap"} ELSE pushNotes \ {"failed", "dropped"}
    /\ PushOnly
    /\ UNCHANGED <<subscription, registered, permission, rotation, endpoints>>

\* A failure of it is swallowed.
Reconciled ==
    /\ reconcile # 0
    /\ \/ registered' = registered \cup {reconcile} /\ UNCHANGED <<notifyBudget, pushNotes>>
       \/ NotifyFault /\ pushNotes' = pushNotes \cup {"failed"} /\ UNCHANGED registered
    /\ reconcile' = 0
    /\ PushOnly
    /\ UNCHANGED <<subscription, permission, subscribed, pushTask, rotation, endpoints>>

\* The switch.  Permission is asked for once; refused, nothing is sent.
Enable ==
    /\ ~subscribed /\ ~busy /\ permission # "denied" /\ NotifyAct
    /\ permission' \in IF permission = "default" THEN {"default", "granted", "denied"} ELSE {permission}
    /\ pushTask' = IF permission' = "granted" THEN [NoTask EXCEPT !.kind = "enable", !.at = "subscribe"]
                   ELSE NoTask
    /\ PushOnly
    /\ UNCHANGED <<subscription, registered, subscribed, reconcile, rotation, endpoints, pushNotes>>

\* An existing subscription is used; no worker or no key ends the task.
Subscribe ==
    /\ pushTask.at = "subscribe"
    /\ \/ /\ subscription # 0
          /\ pushTask' = [pushTask EXCEPT !.at = "register", !.endpoint = subscription]
          /\ UNCHANGED <<subscription, endpoints, notifyBudget>>
       \/ /\ subscription = 0 /\ endpoints < MaxEndpoints
          /\ endpoints' = endpoints + 1 /\ subscription' = endpoints'
          /\ pushTask' = [pushTask EXCEPT !.at = "register", !.endpoint = endpoints']
          /\ UNCHANGED notifyBudget
       \/ NotifyFault /\ pushTask' = NoTask /\ UNCHANGED <<subscription, endpoints>>
    /\ PushOnly
    /\ UNCHANGED <<registered, permission, subscribed, reconcile, rotation, pushNotes>>

Register ==
    /\ pushTask.at = "register"
    /\ \/ /\ registered' = registered \cup {pushTask.endpoint} /\ subscribed' = TRUE
          /\ pushNotes' = IF pushTask.endpoint = subscription THEN pushNotes
                          ELSE pushNotes \cup {"overlap"}
          /\ UNCHANGED notifyBudget
       \/ /\ NotifyFault /\ registered' \in {registered, registered \cup {pushTask.endpoint}}
          /\ UNCHANGED <<subscribed, pushNotes>>
    /\ pushTask' = NoTask
    /\ PushOnly
    /\ UNCHANGED <<subscription, permission, reconcile, rotation, endpoints>>

\* The browser's subscription goes first, the server's after it.
Disable ==
    /\ subscribed /\ ~busy /\ NotifyAct
    /\ IF subscription = 0 THEN subscribed' = FALSE /\ UNCHANGED <<subscription, pushTask>>
       ELSE /\ subscription' = 0 /\ UNCHANGED subscribed
            /\ pushTask' = [kind |-> "disable", at |-> "unregister", endpoint |-> subscription]
    /\ pushNotes' = IF reconcile # 0 \/ rotation # 0 THEN pushNotes \cup {"overlap"} ELSE pushNotes
    /\ PushOnly
    /\ UNCHANGED <<registered, permission, reconcile, rotation, endpoints>>

\* A failure leaves the switch on.
Unregister ==
    /\ pushTask.at = "unregister"
    /\ \/ /\ registered' = registered \ {pushTask.endpoint} /\ subscribed' = FALSE
          /\ UNCHANGED <<notifyBudget, pushNotes>>
       \/ /\ NotifyFault /\ registered' \in {registered, registered \ {pushTask.endpoint}}
          /\ pushNotes' = pushNotes \cup {"failed", "left"} /\ UNCHANGED subscribed
    /\ pushTask' = NoTask
    /\ PushOnly
    /\ UNCHANGED <<subscription, permission, reconcile, rotation, endpoints>>

\* pushsubscriptionchange: the worker subscribes anew and registers that; without a key, or when
\* it cannot subscribe, the browser is left with nothing and nobody is told.
PushSubscriptionChange ==
    /\ subscription # 0 /\ rotation = 0 /\ NotifyAct
    /\ \/ /\ endpoints < MaxEndpoints /\ endpoints' = endpoints + 1
          /\ subscription' = endpoints' /\ rotation' = endpoints'
          /\ pushNotes' = pushNotes \cup {"left"} \cup (IF busy \/ reconcile # 0 THEN {"overlap"} ELSE {})
       \/ /\ subscription' = 0 /\ UNCHANGED <<rotation, endpoints>>
          /\ pushNotes' = pushNotes \cup {"left", "dropped"}
                              \cup (IF busy \/ reconcile # 0 THEN {"overlap"} ELSE {})
    /\ PushOnly
    /\ UNCHANGED <<registered, permission, subscribed, pushTask, reconcile>>

RotationRegistered ==
    /\ rotation # 0
    /\ \/ registered' = registered \cup {rotation} /\ UNCHANGED <<notifyBudget, pushNotes>>
       \/ NotifyFault /\ pushNotes' = pushNotes \cup {"failed"} /\ UNCHANGED registered
    /\ rotation' = 0
    /\ PushOnly
    /\ UNCHANGED <<subscription, permission, subscribed, pushTask, reconcile, endpoints>>

NotifyNext ==
    \/ LoadPrefs \/ HandleTypeToggle \/ TypeQuiet \/ HandleQuietWindow \/ ServeUpdate
    \/ UpdateAnswered \/ OpenNotifications \/ Reconciled \/ Enable \/ Subscribe \/ Register
    \/ Disable \/ Unregister \/ PushSubscriptionChange \/ RotationRegistered

----------------------------------------------------------------------------
NotifyTypeOK ==
    /\ {prefs, asked} \subseteq Prefs /\ settings \subseteq Prefs
    /\ registered \subseteq Endpoints /\ {subscription, reconcile, rotation} \subseteq {0} \cup Endpoints
    /\ permission \in {"default", "granted", "denied"} /\ subscribed \in BOOLEAN

\* With no update under way, the preferences are those the user asked for, the
\* screen shows them, and the quiet hours have both ends or none; unless two
\* updates were under way at once or an answer was lost.
PrefsAreAsAsked ==
    updates = {} /\ prefsNotes = {} =>
        /\ prefs = asked
        /\ \A shown \in settings : shown = prefs
        /\ prefs["quiet_start"] = prefs["quiet_end"]

\* A device whose switch is on, with nothing under way, can be reached: the
\* server holds the endpoint the browser has, after the endpoint was replaced
\* too.  A registration that failed, and a subscription the browser dropped and
\* the worker could not renew, show when the page is opened again; two tasks
\* that overlapped (the page opened, the switch moved or the endpoint replaced
\* while another was under way) may leave the two apart.
PushIsRegistered ==
    subscribed /\ ~busy /\ reconcile = 0 /\ rotation = 0
    /\ pushNotes \cap {"failed", "dropped", "overlap"} = {}
    => subscription \in registered

\* A device whose switch is off has no endpoint left on the server, unless one
\* was replaced or dropped, its removal failed, or two tasks overlapped.
PushIsGone ==
    ~subscribed /\ ~busy /\ reconcile = 0 /\ rotation = 0 /\ pushNotes = {}
    => registered \subseteq {subscription}
=============================================================================
