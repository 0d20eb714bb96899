------------------------------ MODULE Household ------------------------------
(* What the members of a household share: the list of transactions they all change, the
   settings (pages/Settings.tsx, pages/Categories.tsx), and the jobs the server runs for them
   beside their requests: backups, the migrations of a start, the login rate limit, the budget
   alerts.  The client's parts share no state and one of them is mounted at a time; the jobs
   share none with one another, each having a directory, a table or a limiter of its own.  A
   behaviour here is a behaviour of the part that `part` names, the others standing where they
   start. *)
EXTENDS TransactionsPage, CategoriesPage, CurrencyRates, HouseholdUsers, ApiTokens,
        Notifications, Backups, MigrationSnapshots, RateLimit, BudgetAlerts

Parts ==
    {"list", "categories", "rates", "users", "tokens", "notify", "backup", "migration", "login",
     "alerts"}

VARIABLE part

householdVars ==
    <<listVars, categoryVars, rateVars, userVars, tokenVars, notifyVars, backupVars, migrationVars,
      rateLimitVars, alertVars, part>>

\* a part that is not looked at stands at one of its starting states
Standing ==
    /\ part # "users" => ~isMobile
    /\ part # "migration" => shipped = 1

HouseholdInit ==
    /\ part \in Parts
    /\ ListInit /\ CategoriesInit /\ RateInit /\ UserInit /\ TokenInit /\ NotifyInit /\ BackupInit
    /\ MigrationInit /\ RateLimitInit /\ AlertInit
    /\ Standing

HouseholdNext ==
    /\ UNCHANGED part
    /\ \/ part = "list" /\ ListNext
       \/ part # "list" /\ UNCHANGED listVars
    /\ \/ part = "categories" /\ CategoriesNext
       \/ part # "categories" /\ UNCHANGED categoryVars
    /\ \/ part = "rates" /\ RateNext
       \/ part # "rates" /\ UNCHANGED rateVars
    /\ \/ part = "users" /\ UserNext
       \/ part # "users" /\ UNCHANGED userVars
    /\ \/ part = "tokens" /\ TokenNext
       \/ part # "tokens" /\ UNCHANGED tokenVars
    /\ \/ part = "notify" /\ NotifyNext
       \/ part # "notify" /\ UNCHANGED notifyVars
    /\ \/ part = "backup" /\ BackupNext
       \/ part # "backup" /\ UNCHANGED backupVars
    /\ \/ part = "migration" /\ MigrationNext
       \/ part # "migration" /\ UNCHANGED migrationVars
    /\ \/ part = "login" /\ RateLimitNext
       \/ part # "login" /\ UNCHANGED rateLimitVars
    /\ \/ part = "alerts" /\ AlertNext
       \/ part # "alerts" /\ UNCHANGED alertVars

HouseholdSpec == HouseholdInit /\ [][HouseholdNext]_householdVars

----------------------------------------------------------------------------
\* The state of every part is of its type.
HouseholdTypeOK ==
    /\ part \in Parts
    /\ ListTypeOK /\ CategoriesTypeOK /\ RateTypeOK /\ UserTypeOK /\ TokenTypeOK /\ NotifyTypeOK
    /\ BackupTypeOK /\ MigrationTypeOK /\ RateLimitTypeOK /\ AlertTypeOK

\* With nothing under way a section shows what the server holds: categories, rates,
\* users, tokens that work, notification preferences; unless a list failed, an answer was
\* lost, or lists and updates overlapped, as each section says.
ShownIsTrue ==
    /\ part = "categories" => CategoriesShownAreTrue
    /\ part = "rates" => RatesShownAreTrue /\ RatesSavedAsShown
    /\ part = "users" => UsersShownAreTrue
    /\ part = "tokens" => LiveTokensListed
    /\ part = "notify" => PrefsAreAsAsked

\* Keyboard focus is not lost when dialogs close, hand over to one another, or take the
\* row they were opened from with them, but for lists emptied or out of order, rows gone
\* already, lost answers and a rotation that leaves a section behind.
FocusIsKept ==
    /\ part = "categories" => CategoryFocusKept
    /\ part = "users" => UserFocusKept
    /\ part = "tokens" => RevealKeepsFocus

\* The endpoints the server holds are those of the devices whose switch is on, after the
\* browser replaced one too; but for a request that failed, an endpoint replaced or dropped
\* without a report, and a rotation that overlapped another task.
PushFollowsTheSwitch == part = "notify" => PushIsRegistered /\ PushIsGone
=============================================================================
