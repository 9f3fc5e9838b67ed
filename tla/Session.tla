------------------------------ MODULE Session ------------------------------
(***************************************************************************)
(* Who is signed in, and whose profile a tab shows: AuthProvider.tsx above *)
(* the dashboard, the proxy in front of it, the log-in page and the OAuth  *)
(* callback that lead to it.                                               *)
(*                                                                         *)
(* session is Supabase's session, which every tab of the browser shares,   *)
(* and storedProfile the one kept in localStorage.  page, access, profile, *)
(* authLoading and authError are of this tab.  load() is asynchronous, may  *)
(* be started again before it ends: loads[i] is one call of it.  mine says *)
(* that the provider that started it is still mounted: only then does it   *)
(* set state, but storage, session and route are changed all the same.     *)
(* A profile is the user it belongs to.                                    *)
(***************************************************************************)
EXTENDS Naturals

CONSTANTS
    Accounts,        \* users
    NoUser,
    Calls,           \* bound: calls of load() at a time
    RoleOf,          \* the role the backend has for each account
    AccountRoles     \* what the picker of the log-in page offers

ASSUME NoUserIsNoAccount == NoUser \notin Accounts
ASSUME RolesAreKnown == RoleOf \in [Accounts -> AccountRoles] /\ "passenger" \in AccountRoles

VARIABLES session, storedProfile, page, access, profile, authLoading, authError, loads, login

tabVars == <<page, access, profile, authLoading, authError>>
sessionVars == <<session, storedProfile, tabVars, loads, login>>

MaybeUser == Accounts \cup {NoUser}

\* The stages of load(): waiting for getSession, for the answer of /auth/me to
\* a request sent as user "as", for the next attempt, or for signOut.
NoCall == [at |-> "idle", as |-> NoUser, cached |-> NoUser, mine |-> FALSE, optimistic |-> FALSE]
CallStates == [at : {"idle", "session", "answer", "backoff", "signOut"},
               as : MaybeUser, cached : MaybeUser, mine : BOOLEAN, optimistic : BOOLEAN]

\* The log-in form: nothing under way, waiting for Supabase, for the profile,
\* or for the signOut of somebody who picked another role.
LoginStates == [at : {"idle", "signIn", "profile", "signOut"},
                user : MaybeUser, selectedRole : AccountRoles]
NoLogin == [at |-> "idle", user |-> NoUser, selectedRole |-> "passenger"]

SessionTypeOK ==
    /\ session \in MaybeUser /\ storedProfile \in MaybeUser
    /\ page \in {"login", "dashboard"}
    /\ access \in {"checking", "authorized", "redirecting"}
    /\ profile \in MaybeUser
    /\ authLoading \in BOOLEAN /\ authError \in BOOLEAN
    /\ loads \in [Calls -> CallStates]
    /\ login \in LoginStates

SessionInit ==
    /\ session = NoUser /\ storedProfile = NoUser
    /\ page = "login" /\ access = "checking"
    /\ profile = NoUser /\ authLoading = FALSE /\ authError = FALSE
    /\ loads = [i \in Calls |-> NoCall]
    /\ login = NoLogin

-----------------------------------------------------------------------------
\* setState of a call reaches only a provider that is still mounted.
SetIf(mine, new, old) == IF mine THEN new ELSE old

Ended(i) == loads' = [loads EXCEPT ![i] = NoCall]

\* The listener of onAuthStateChange and load(): each starts a call in a free
\* slot.  L is the table the call is added to.
Started(L) ==
    LET free == {i \in Calls : L[i].at = "idle"} IN
    /\ free # {}
    /\ loads' = [L EXCEPT ![CHOOSE i \in free : TRUE] =
                    [NoCall EXCEPT !.at = "session", !.mine = TRUE]]

\* The page of the dashboard mounts its provider; calls of an older one go on.
MountProvider ==
    /\ page' = "dashboard" /\ access' = "checking"
    /\ profile' = NoUser /\ authLoading' = TRUE /\ authError' = FALSE
    /\ Started(loads)

\* Mutant of LeaveForLogin: the content stays until the route has changed.
LeaveForLoginLate ==
    /\ profile' = NoUser /\ storedProfile' = NoUser
    /\ UNCHANGED access

\* A SIGNED_OUT event: this tab forgets the profile and leaves.
LeaveForLogin ==
    /\ profile' = NoUser /\ storedProfile' = NoUser
    /\ access' = "redirecting"

\* getSession has answered (getUser too, when it found nothing).
SessionKnown(i) ==
    LET call == loads[i] IN
    /\ call.at = "session"
    /\ IF session = NoUser
       THEN /\ access' = SetIf(call.mine, "redirecting", access)
            /\ authLoading' = SetIf(call.mine, FALSE, authLoading)
            /\ Ended(i)
       ELSE /\ access' = SetIf(call.mine, "authorized", access)
            /\ loads' = [loads EXCEPT ![i] = [call EXCEPT !.at = "answer", !.as = session,
                                        !.cached = storedProfile, !.optimistic = storedProfile # NoUser]]
            /\ UNCHANGED authLoading
    /\ UNCHANGED <<session, storedProfile, page, profile, authError, login>>

\* The cached profile is shown while the server takes its time.
OptimisticTimer(i) ==
    LET call == loads[i] IN
    /\ call.optimistic /\ call.at \in {"answer", "backoff"}
    /\ profile' = SetIf(call.mine, call.cached, profile)
    /\ authLoading' = SetIf(call.mine, FALSE, authLoading)
    /\ loads' = [loads EXCEPT ![i].optimistic = FALSE]
    /\ UNCHANGED <<session, storedProfile, page, access, authError, login>>

\* fetchProfileWithRetry: the server knows the token, ...
ProfileFetched(i) ==
    LET call == loads[i] IN
    /\ call.at = "answer" /\ call.as # NoUser
    /\ profile' = SetIf(call.mine, call.as, profile)
    /\ authError' = SetIf(call.mine, FALSE, authError)
    /\ authLoading' = SetIf(call.mine, FALSE, authLoading)
    /\ storedProfile' = call.as
    /\ Ended(i)
    /\ UNCHANGED <<session, page, access, login>>

\* ... or refuses it (there was none, it was revoked, the account is closed):
\* the call signs out.
ProfileRefused(i) ==
    /\ loads[i].at = "answer"
    /\ loads' = [loads EXCEPT ![i].at = "signOut", ![i].optimistic = FALSE]
    /\ UNCHANGED <<session, storedProfile, tabVars, login>>

\* ... or cannot be reached: the next attempt waits and takes the token anew.
AttemptFails(i) ==
    /\ loads[i].at = "answer"
    /\ loads' = [loads EXCEPT ![i].at = "backoff"]
    /\ UNCHANGED <<session, storedProfile, tabVars, login>>

NextAttempt(i) ==
    /\ loads[i].at = "backoff"
    /\ loads' = [loads EXCEPT ![i].at = "answer", ![i].as = session]
    /\ UNCHANGED <<session, storedProfile, tabVars, login>>

\* Mutant of BudgetSpent: giving up leaves the spinner on.
BudgetSpentLoading(i) ==
    LET call == loads[i] IN
    /\ call.at = "answer"
    /\ profile' = SetIf(call.mine /\ profile = NoUser, call.cached, profile)
    /\ authError' = SetIf(call.mine, TRUE, authError)
    /\ Ended(i)
    /\ UNCHANGED <<session, storedProfile, page, access, authLoading, login>>

\* The budget is spent: the last known profile stays, with an error.
BudgetSpent(i) ==
    LET call == loads[i] IN
    /\ call.at = "answer"
    /\ profile' = SetIf(call.mine /\ profile = NoUser, call.cached, profile)
    /\ authError' = SetIf(call.mine, TRUE, authError)
    /\ authLoading' = SetIf(call.mine, FALSE, authLoading)
    /\ Ended(i)
    /\ UNCHANGED <<session, storedProfile, page, access, login>>

\* signOut ends whatever session there is by now.
SignedOutByCall(i) ==
    LET call == loads[i] IN
    /\ call.at = "signOut"
    /\ session' = NoUser /\ storedProfile' = NoUser
    /\ profile' = IF page = "dashboard" THEN NoUser ELSE profile
    /\ access' = IF page = "dashboard" THEN "redirecting" ELSE access
    /\ authLoading' = SetIf(call.mine, FALSE, authLoading)
    /\ Ended(i)
    /\ UNCHANGED <<page, authError, login>>

-----------------------------------------------------------------------------
\* Sign-out by the user here, or in another tab: the event reaches this tab.
SignOut ==
    /\ session # NoUser
    /\ session' = NoUser
    /\ IF page = "dashboard" THEN LeaveForLogin ELSE UNCHANGED <<storedProfile, access, profile>>
    /\ UNCHANGED <<page, authLoading, authError, loads, login>>

\* Another tab signs in somebody, or the token is refreshed: load() again.
SignedInElsewhere(u) ==
    /\ page = "dashboard"
    /\ session' = u
    /\ authLoading' = TRUE /\ authError' = FALSE
    /\ Started(loads)
    /\ UNCHANGED <<storedProfile, page, access, profile, login>>

\* router.replace("/login") has arrived: the provider is gone.
ArriveAtLogin ==
    /\ page = "dashboard" /\ access = "redirecting"
    /\ page' = "login"
    /\ access' = "checking" /\ profile' = NoUser /\ authLoading' = FALSE /\ authError' = FALSE
    /\ loads' = [i \in Calls |-> [loads[i] EXCEPT !.mine = FALSE]]
    /\ login' = NoLogin
    /\ UNCHANGED <<session, storedProfile>>

\* A visit to a dashboard route: the proxy sends it back without a session.
\* A full page load also drops what the old page still had under way.
Visit ==
    /\ page = "login" /\ login.at = "idle"
    /\ session # NoUser
    /\ MountProvider
    /\ UNCHANGED <<session, storedProfile, login>>

Reload ==
    /\ page = "dashboard"
    /\ IF session # NoUser
       THEN /\ page' = "dashboard" /\ access' = "checking" /\ authLoading' = TRUE
            /\ Started([i \in Calls |-> NoCall])
       ELSE /\ page' = "login" /\ access' = "checking" /\ authLoading' = FALSE
            /\ loads' = [i \in Calls |-> NoCall]
    /\ profile' = NoUser /\ authError' = FALSE
    /\ UNCHANGED <<session, storedProfile, login>>

\* handleEmailLogin and handleVerifyOtp, up to Supabase's answer
SubmitLogin(u, role) ==
    /\ page = "login" /\ login.at = "idle"
    /\ login' = [at |-> "signIn", user |-> u, selectedRole |-> role]
    /\ UNCHANGED <<session, storedProfile, tabVars, loads>>

SignInAnswered ==
    /\ login.at = "signIn"
    /\ \/ session' = login.user /\ login' = [login EXCEPT !.at = "profile"]
       \/ UNCHANGED session /\ login' = NoLogin
    /\ UNCHANGED <<storedProfile, tabVars, loads>>

\* completeLogin: the account must have the role that was picked; an error,
\* also of the request itself, ends the handler and leaves the session alone.
CompleteLogin ==
    /\ login.at = "profile"
    /\ \/ /\ session # NoUser
          /\ IF RoleOf[session] = login.selectedRole
             THEN MountProvider /\ login' = NoLogin
             ELSE login' = [login EXCEPT !.at = "signOut"] /\ UNCHANGED <<tabVars, loads>>
       \/ login' = NoLogin /\ UNCHANGED <<tabVars, loads>>
    /\ UNCHANGED <<session, storedProfile>>

WrongRoleSignedOut ==
    /\ login.at = "signOut"
    /\ session' = NoUser
    /\ login' = NoLogin
    /\ UNCHANGED <<storedProfile, tabVars, loads>>

\* handleGoogleLogin leaves the site; the callback exchanges the code for a
\* session and opens the dashboard as a new page, or the log-in page again.
GoogleLogin(u) ==
    /\ page = "login" /\ login.at = "idle"
    /\ session' = u
    /\ page' = "dashboard" /\ access' = "checking"
    /\ profile' = NoUser /\ authLoading' = TRUE /\ authError' = FALSE
    /\ Started([i \in Calls |-> NoCall])
    /\ UNCHANGED <<storedProfile, login>>

CallStep(i) ==
    \/ SessionKnown(i) \/ OptimisticTimer(i)
    \/ ProfileFetched(i) \/ ProfileRefused(i) \/ AttemptFails(i) \/ BudgetSpent(i)
    \/ NextAttempt(i) \/ SignedOutByCall(i)

SessionNext ==
    \/ \E i \in Calls : CallStep(i)
    \/ SignOut \/ ArriveAtLogin \/ Visit \/ Reload
    \/ SignInAnswered \/ CompleteLogin \/ WrongRoleSignedOut
    \/ \E u \in Accounts : SignedInElsewhere(u) \/ GoogleLogin(u)
    \/ \E u \in Accounts, role \in AccountRoles : SubmitLogin(u, role)

\* Requests are answered or fail, the attempts of a call have a budget, and a
\* redirect arrives.
SessionFairness ==
    /\ \A i \in Calls :
          /\ WF_sessionVars(SessionKnown(i)) /\ WF_sessionVars(SignedOutByCall(i))
          /\ WF_sessionVars(NextAttempt(i))
          /\ SF_sessionVars(ProfileFetched(i) \/ ProfileRefused(i) \/ BudgetSpent(i))
    /\ WF_sessionVars(ArriveAtLogin)

SessionSpec == SessionInit /\ [][SessionNext]_sessionVars /\ SessionFairness

-----------------------------------------------------------------------------
\* Content is mounted only while somebody is signed in, although several calls
\* of load() decide on it and sign-outs come from anywhere.
ContentNeedsSession ==
    page = "dashboard" /\ access = "authorized" => session # NoUser

\* A tab whose session has ended leaves the dashboard.
SignedOutLeaves ==
    page = "dashboard" /\ session = NoUser ~> page = "login" \/ session # NoUser

\* The dashboard's spinner ends, unless the user or another tab keeps starting
\* it anew.
SpinnerEnds ==
    <>[][~Reload /\ ~\E u \in Accounts : SignedInElsewhere(u)]_sessionVars
        => (page = "dashboard" /\ authLoading ~> ~authLoading \/ page = "login")
=============================================================================
