------------------------------ MODULE Sessions ------------------------------
(***************************************************************************)
(* Accounts and sessions.  Registering looks for the address and then       *)
(* inserts the account, whose address is unique.  Signing in inserts a      *)
(* session that expires a lifetime later by the clock of the process that   *)
(* serves it, and gives the browser a cookie; signing out deletes the       *)
(* session and clears the cookie.  Every other request is admitted by the   *)
(* process it reaches.                                                      *)
(*                                                                         *)
(* The browser has one tab.  Its pages look at the account query: without a *)
(* cached answer they wait for one, on an answer of nobody they open the    *)
(* login page.  A query is fetched when a page that uses it is opened or    *)
(* looked at again; the login page does not use it.  A fetch that fails     *)
(* leaves the answer there is.                                              *)
(***************************************************************************)
EXTENDS DemoClock, FiniteSets

CONSTANTS Registrations,  \* requests to register the one address
          Tokens,         \* the session tokens issued
          NoToken,
          Lifetime        \* how long a session lasts (7 days in the code)

ASSUME SessionsAssumption == NoToken \notin Tokens /\ Lifetime \in Nat

VARIABLES account,       \* whether the address has an account
          registration,  \* how far each registration has got
          sessions,      \* the session table: when each token expires
          issued,        \* every token there has been
          cookie,        \* the browser's token
          cookieEnds,    \* the instant after which the browser keeps it back
          page, me,      \* the tab's page, and what the account query has found
          meFetch,       \* what its fetch will bring, or how the last one ended
          leaving,       \* whether a sign-out waits for that fetch to open the login page
          signedOut,     \* whether the tab has signed out since it last signed in
          turnedAway     \* whether a refusal came, or was on its way, since the last sign-in

accountVars == <<account, registration>>
tableVars == <<sessions, issued, cookie, cookieEnds>>
tabVars == <<page, me, meFetch, leaving, signedOut, turnedAway>>
sessionVars == <<accountVars, tableVars, tabVars>>

(* The browser sends a cookie until it ends by real time.                    *)
Sent == IF wall <= cookieEnds THEN {cookie} ELSE {}

(* The guard of the API, at a process.                                      *)
Admitted(p) == \E t \in Sent \cap DOMAIN sessions : Now(p) <= sessions[t]

SessionsTypeOK ==
    /\ account \in BOOLEAN
    /\ registration \in [Registrations -> {"none", "insert", "registered", "refused", "failed"}]
    /\ DOMAIN sessions \subseteq issued /\ issued \subseteq Tokens
    /\ \A t \in DOMAIN sessions : sessions[t] \in Nat
    /\ cookie \in Tokens \cup {NoToken} /\ cookieEnds \in Nat
    /\ page \in {"home", "login"}
    /\ me \in {"unknown", "nobody", "account"}
    /\ meFetch \in {"idle", "failed", "asked", "nobody", "account"}
    /\ leaving \in BOOLEAN /\ signedOut \in BOOLEAN /\ turnedAway \in BOOLEAN

SessionsInit ==
    /\ account = FALSE
    /\ registration = [q \in Registrations |-> "none"]
    /\ sessions = <<>> /\ issued = {}
    /\ cookie = NoToken /\ cookieEnds = 0
    /\ page \in {"home", "login"} /\ me = "unknown"
    /\ meFetch = IF page = "home" THEN "asked" ELSE "idle"
    /\ leaving = FALSE /\ signedOut = FALSE /\ turnedAway = FALSE

-----------------------------------------------------------------------------
(* Two registrations may both find the address free; the unique index stops  *)
(* the second, whose request fails instead of being refused.                *)
LookForAddress(q) ==
    /\ registration[q] = "none"
    /\ registration' = [registration EXCEPT ![q] = IF account THEN "refused" ELSE "insert"]
    /\ UNCHANGED <<account, tableVars, tabVars>>

InsertAccount(q) ==
    /\ registration[q] = "insert"
    /\ registration' = [registration EXCEPT ![q] = IF account THEN "failed" ELSE "registered"]
    /\ account' = TRUE
    /\ UNCHANGED <<tableVars, tabVars>>

-----------------------------------------------------------------------------
(* Nothing is under way: the last fetch succeeded or failed, or none was made. *)
AtRest == meFetch \in {"idle", "failed"}

(* Variant: a cached answer is not asked for again.                         *)
GoHomeCached ==
    /\ page' = IF me = "nobody" THEN "login" ELSE "home"
    /\ meFetch' = IF AtRest /\ me = "unknown" THEN "asked" ELSE meFetch

(* A guarded page asks again, and meanwhile goes by the answer it has.       *)
GoHome ==
    /\ page' = IF me = "nobody" THEN "login" ELSE "home"
    /\ meFetch' = IF AtRest THEN "asked" ELSE meFetch

NewSession(p, t) ==
    /\ t \in Tokens \ issued /\ issued' = issued \cup {t}
    /\ sessions' = [s \in DOMAIN sessions \cup {t} |->
                      IF s = t THEN Now(p) + Lifetime ELSE sessions[s]]

(* Invalidating the account query fetches nothing: the login page does not   *)
(* use it.                                                                  *)
SignIn(p, t) ==
    /\ page = "login" /\ account
    /\ NewSession(p, t)
    /\ cookie' = t /\ cookieEnds' = Now(p) + Lifetime
    /\ GoHome
    /\ signedOut' = FALSE /\ turnedAway' = (meFetch = "nobody")
    /\ UNCHANGED <<accountVars, me, leaving>>

(* The answer is lost, and with it the cookie: the session is nobody's.      *)
SignInUnheard(p, t) ==
    /\ page = "login" /\ account
    /\ NewSession(p, t)
    /\ UNCHANGED <<accountVars, cookie, cookieEnds, tabVars>>

Forgotten == [t \in DOMAIN sessions \ Sent |-> sessions[t]]

(* Variant: a fetch under way is not asked again.                           *)
SignOutJoining ==
    /\ page = "home" /\ me = "account"
    /\ sessions' = Forgotten
    /\ cookie' = NoToken
    /\ meFetch' = IF AtRest THEN "asked" ELSE meFetch
    /\ leaving' = TRUE /\ signedOut' = TRUE
    /\ page' = IF leaving THEN "login" ELSE page
    /\ UNCHANGED <<accountVars, issued, cookieEnds, me, turnedAway>>

(* Invalidating the account query throws the answer on its way away; the     *)
(* login page opens when the new fetch has ended, or is thrown away by      *)
(* signing out once more.                                                   *)
SignOut ==
    /\ page = "home" /\ me = "account"
    /\ sessions' = Forgotten
    /\ cookie' = NoToken
    /\ meFetch' = "asked"
    /\ leaving' = TRUE /\ signedOut' = TRUE
    /\ page' = IF leaving THEN "login" ELSE page
    /\ UNCHANGED <<accountVars, issued, cookieEnds, me, turnedAway>>

SignOutUnheard ==
    /\ page = "home" /\ me = "account"
    /\ sessions' = Forgotten
    /\ UNCHANGED <<accountVars, issued, cookie, cookieEnds, tabVars>>

AnswerMe(p) ==
    /\ meFetch = "asked"
    /\ meFetch' = IF Admitted(p) THEN "account" ELSE "nobody"
    /\ turnedAway' = (turnedAway \/ ~Admitted(p))
    /\ UNCHANGED <<accountVars, tableVars, page, me, leaving, signedOut>>

DeliverMe ==
    /\ meFetch \in {"nobody", "account"}
    /\ me' = meFetch /\ meFetch' = "idle" /\ leaving' = FALSE
    /\ page' = IF leaving \/ meFetch = "nobody" THEN "login" ELSE page
    /\ UNCHANGED <<accountVars, tableVars, signedOut, turnedAway>>

(* Anything but an answer or a 401 is a failure, and the query keeps what it *)
(* had: a page that has the account stays, and one that has none opens the  *)
(* login page.                                                              *)
FailMe ==
    /\ meFetch = "asked"
    /\ meFetch' = "failed" /\ leaving' = FALSE
    /\ page' = IF leaving \/ me # "account" THEN "login" ELSE page
    /\ UNCHANGED <<accountVars, tableVars, me, signedOut, turnedAway>>

LookAgain ==
    /\ page = "home" /\ AtRest
    /\ meFetch' = "asked"
    /\ UNCHANGED <<accountVars, tableVars, page, me, leaving, signedOut, turnedAway>>

(* Back to a guarded page in the same tab, with what the tab still has.      *)
GoBack ==
    /\ page = "login"
    /\ GoHome
    /\ UNCHANGED <<accountVars, tableVars, me, leaving, signedOut, turnedAway>>

Reload(p) ==
    /\ page' = p /\ me' = "unknown"
    /\ meFetch' = IF p = "home" THEN "asked" ELSE "idle"
    /\ leaving' = FALSE
    /\ UNCHANGED <<accountVars, tableVars, signedOut, turnedAway>>

SessionsStep ==
    \/ \E q \in Registrations : LookForAddress(q) \/ InsertAccount(q)
    \/ \E p \in Processes : \/ AnswerMe(p)
                            \/ \E t \in Tokens : SignIn(p, t) \/ SignInUnheard(p, t)
    \/ SignOut \/ SignOutUnheard \/ DeliverMe \/ FailMe \/ LookAgain \/ GoBack
    \/ \E p \in {"home", "login"} : Reload(p)

-----------------------------------------------------------------------------
(* Signing in may lead straight back to the login page, which goes by the    *)
(* answer of nobody it still has; but once the fetch it asks for has         *)
(* succeeded, and unless a refusal came since or was on its way already,     *)
(* that answer is gone, so that signing in again leads home (login.tsx       *)
(* against the pages' guards).  A fetch that fails heals nothing: the tab    *)
(* goes by the answer of nobody until another one succeeds.                  *)
SignInHeals ==
    page = "login" /\ meFetch = "idle" /\ cookie # NoToken /\ ~signedOut /\ ~turnedAway
      => me # "nobody"

(* Once a tab has signed out and a fetch has succeeded since, no answer that *)
(* was on its way, no restart and no clock put back shows it the account    *)
(* again.  The fetch the sign-out asks for may fail, and the account then    *)
(* stays in the tab, which shows it when it is led back, until one succeeds  *)
(* or the tab is reloaded.                                                   *)
SignOutHolds == signedOut /\ meFetch = "idle" => me # "account"
=============================================================================
