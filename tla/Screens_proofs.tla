----------------------------- MODULE Screens_proofs -----------------------------
(***************************************************************************)
(* Proofs about the screens of the client outside the panels of the        *)
(* dashboard: signing in (Session, AuthForms), the profile page            *)
(* (ProfileDetails, StationPreference), the pages with rows to act on      *)
(* (ListPages), the notification centre (NotificationScreens), the banner  *)
(* and the popups (LiveNotices) and the chat (ChatWidget), for any users,  *)
(* numbers, cities, rows and notifications, any number of calls under way  *)
(* and any length of queues and threads.                                   *)
(***************************************************************************)
EXTENDS Session, AuthForms, ProfileDetails, StationPreference, ListPages,
        NotificationScreens, LiveNotices, ChatWidget, FiniteOrders, SequenceTheorems, TLAPS

-----------------------------------------------------------------------------
\* A log-in form that is busy is on the log-in page: the sign-out of a wrong
\* role cannot end a session under a dashboard that is open.
ContentInv ==
    /\ ContentNeedsSession
    /\ login.at # "idle" => page = "login"

LEMMA ContentStep == ContentInv /\ [SessionNext]_sessionVars => ContentInv'
<1> SUFFICES ASSUME ContentInv, [SessionNext]_sessionVars PROVE ContentInv'
  OBVIOUS
<1> USE DEF ContentInv, ContentNeedsSession
<1>1. ASSUME NEW i \in Calls, CallStep(i)
      PROVE  ContentInv'
  <2>1. CASE SessionKnown(i)
    BY <2>1 DEF SessionKnown, SetIf
  <2>2. CASE \/ OptimisticTimer(i) \/ ProfileFetched(i) \/ ProfileRefused(i) \/ AttemptFails(i)
             \/ BudgetSpent(i) \/ NextAttempt(i)
    <3>1. UNCHANGED <<session, page, access, login>>
      BY <2>2 DEF OptimisticTimer, ProfileFetched, ProfileRefused, AttemptFails, BudgetSpent,
                  NextAttempt, tabVars
    <3>2. QED
      BY <3>1
  <2>3. CASE SignedOutByCall(i)
    BY <2>3 DEF SignedOutByCall
  <2>4. QED
    BY <1>1, <2>1, <2>2, <2>3 DEF CallStep
<1>2. CASE SignOut
  BY <1>2 DEF SignOut, LeaveForLogin
<1>3. CASE ArriveAtLogin
  BY <1>3 DEF ArriveAtLogin
<1>4. CASE Visit \/ CompleteLogin
  BY <1>4 DEF Visit, CompleteLogin, MountProvider, NoLogin, tabVars
<1>5. CASE Reload
  BY <1>5 DEF Reload
<1>6. CASE SignInAnswered \/ WrongRoleSignedOut
  BY <1>6 DEF SignInAnswered, WrongRoleSignedOut, tabVars
<1>7. ASSUME NEW u \in Accounts, SignedInElsewhere(u) \/ GoogleLogin(u)
      PROVE  ContentInv'
  BY <1>7, NoUserIsNoAccount DEF SignedInElsewhere, GoogleLogin
<1>8. ASSUME NEW u \in Accounts, NEW role \in AccountRoles, SubmitLogin(u, role)
      PROVE  ContentInv'
  BY <1>8 DEF SubmitLogin, tabVars
<1>9. CASE UNCHANGED sessionVars
  BY <1>9 DEF sessionVars, tabVars
<1>10. QED
  BY <1>1, <1>2, <1>3, <1>4, <1>5, <1>6, <1>7, <1>8, <1>9 DEF SessionNext

\* The types, in three parts: the users, the tab, and the calls under way.
UsersOK ==
    /\ session \in MaybeUser /\ storedProfile \in MaybeUser /\ profile \in MaybeUser
    /\ loads \in [Calls -> CallStates] /\ login \in LoginStates
TabOK ==
    /\ page \in {"login", "dashboard"}
    /\ access \in {"checking", "authorized", "redirecting"}
SpinnerOK == authLoading \in BOOLEAN /\ authError \in BOOLEAN

LEMMA NoCallIsCall == NoCall \in CallStates /\ NoLogin \in LoginStates
  BY RolesAreKnown DEF NoCall, CallStates, NoLogin, LoginStates, MaybeUser

LEMMA StartedTypes ==
    ASSUME NEW L \in [Calls -> CallStates], Started(L)
    PROVE  loads' \in [Calls -> CallStates]
<1>1. [NoCall EXCEPT !.at = "session", !.mine = TRUE] \in CallStates
  BY DEF NoCall, CallStates, MaybeUser
<1>2. QED
  BY <1>1 DEF Started

LEMMA CallTypesStep ==
    ASSUME UsersOK, NEW i \in Calls, CallStep(i)
    PROVE  UsersOK'
<1> USE DEF UsersOK, MaybeUser
<1> DEFINE call == loads[i]
<1>0. /\ call \in CallStates /\ call.as \in MaybeUser /\ call.cached \in MaybeUser
      /\ call.mine \in BOOLEAN /\ NoCall \in CallStates
  BY NoCallIsCall DEF CallStates
<1>1. CASE SessionKnown(i)
  <2>1. [call EXCEPT !.at = "answer", !.as = session, !.cached = storedProfile,
                     !.optimistic = storedProfile # NoUser] \in CallStates
    BY <1>0 DEF CallStates
  <2>2. loads' \in [Calls -> CallStates]
    BY <1>0, <1>1, <2>1 DEF SessionKnown, Ended
  <2>3. QED
    BY <1>1, <2>2 DEF SessionKnown
<1>2. CASE OptimisticTimer(i)
  <2>1. [call EXCEPT !.optimistic = FALSE] \in CallStates
    BY <1>0 DEF CallStates
  <2>2. loads' \in [Calls -> CallStates]
    BY <1>2, <2>1 DEF OptimisticTimer
  <2>3. QED
    BY <1>0, <1>2, <2>2 DEF OptimisticTimer, SetIf
<1>3. CASE ProfileFetched(i) \/ BudgetSpent(i)
  BY <1>0, <1>3 DEF ProfileFetched, BudgetSpent, Ended, SetIf
<1>4. CASE ProfileRefused(i) \/ AttemptFails(i) \/ NextAttempt(i)
  <2>1. /\ [call EXCEPT !.at = "signOut", !.optimistic = FALSE] \in CallStates
        /\ [call EXCEPT !.at = "backoff"] \in CallStates
        /\ [call EXCEPT !.at = "answer", !.as = session] \in CallStates
    BY <1>0 DEF CallStates
  <2>2. /\ UNCHANGED <<session, storedProfile, profile, login>>
        /\ \/ loads' = [loads EXCEPT ![i] = [call EXCEPT !.at = "signOut", !.optimistic = FALSE]]
           \/ loads' = [loads EXCEPT ![i] = [call EXCEPT !.at = "backoff"]]
           \/ loads' = [loads EXCEPT ![i] = [call EXCEPT !.at = "answer", !.as = session]]
    BY <1>4 DEF ProfileRefused, AttemptFails, NextAttempt, tabVars
  <2>3. QED
    BY <2>1, <2>2
<1>5. CASE SignedOutByCall(i)
  BY <1>0, <1>5 DEF SignedOutByCall, Ended
<1>6. QED
  BY <1>1, <1>2, <1>3, <1>4, <1>5 DEF CallStep

LEMMA UsersStep == UsersOK /\ [SessionNext]_sessionVars => UsersOK'
<1> SUFFICES ASSUME UsersOK, [SessionNext]_sessionVars PROVE UsersOK'
  OBVIOUS
<1> USE DEF UsersOK, MaybeUser
<1>0. [i \in Calls |-> NoCall] \in [Calls -> CallStates] /\ NoLogin \in LoginStates
  BY NoCallIsCall
<1>1. ASSUME NEW i \in Calls, CallStep(i) PROVE UsersOK'
  BY <1>1, CallTypesStep
<1>2. CASE SignOut
  BY <1>2 DEF SignOut, LeaveForLogin
<1>3. CASE ArriveAtLogin
  <2>1. \A i \in Calls : [loads[i] EXCEPT !.mine = FALSE] \in CallStates
    BY DEF CallStates
  <2>2. QED
    BY <1>0, <1>3, <2>1 DEF ArriveAtLogin
<1>4. CASE Visit
  <2>1. loads' \in [Calls -> CallStates]
    BY <1>4, StartedTypes DEF Visit, MountProvider
  <2>2. QED
    BY <1>4, <2>1 DEF Visit, MountProvider
<1>5. CASE Reload
  <2>1. loads' \in [Calls -> CallStates]
    BY <1>0, <1>5, StartedTypes DEF Reload
  <2>2. QED
    BY <1>5, <2>1 DEF Reload
<1>6. CASE SignInAnswered \/ WrongRoleSignedOut
  <2>1. login.user \in MaybeUser /\ [login EXCEPT !.at = "profile"] \in LoginStates
    BY DEF LoginStates
  <2>2. QED
    BY <1>0, <1>6, <2>1 DEF SignInAnswered, WrongRoleSignedOut, tabVars
<1>7. CASE CompleteLogin
  <2>1. [login EXCEPT !.at = "signOut"] \in LoginStates
    BY DEF LoginStates
  <2>2. login' \in LoginStates
    BY <1>0, <1>7, <2>1 DEF CompleteLogin
  <2>3. loads' \in [Calls -> CallStates] /\ profile' \in MaybeUser
    BY <1>7, StartedTypes DEF CompleteLogin, MountProvider, tabVars
  <2>4. QED
    BY <1>7, <2>2, <2>3 DEF CompleteLogin
<1>8. ASSUME NEW u \in Accounts, SignedInElsewhere(u) \/ GoogleLogin(u)
      PROVE  UsersOK'
  <2>1. loads' \in [Calls -> CallStates]
    BY <1>0, <1>8, StartedTypes DEF SignedInElsewhere, GoogleLogin
  <2>2. QED
    BY <1>8, <2>1 DEF SignedInElsewhere, GoogleLogin
<1>9. ASSUME NEW u \in Accounts, NEW role \in AccountRoles, SubmitLogin(u, role)
      PROVE  UsersOK'
  BY <1>9 DEF SubmitLogin, LoginStates, tabVars
<1>10. CASE UNCHANGED sessionVars
  BY <1>10 DEF sessionVars, tabVars
<1>11. QED
  BY <1>1, <1>2, <1>3, <1>4, <1>5, <1>6, <1>7, <1>8, <1>9, <1>10 DEF SessionNext

LEMMA TabStep == TabOK /\ [SessionNext]_sessionVars => TabOK'
  BY DEF TabOK, SessionNext, CallStep, SessionKnown, OptimisticTimer, ProfileFetched, ProfileRefused,
         AttemptFails, BudgetSpent, NextAttempt, SignedOutByCall, SetIf, SignOut, LeaveForLogin,
         ArriveAtLogin, Visit, CompleteLogin, MountProvider, Reload, SignInAnswered,
         WrongRoleSignedOut, SignedInElsewhere, GoogleLogin, SubmitLogin, sessionVars, tabVars

LEMMA SpinnerStep == SpinnerOK /\ [SessionNext]_sessionVars => SpinnerOK'
  BY DEF SpinnerOK, SessionNext, CallStep, SessionKnown, OptimisticTimer, ProfileFetched, ProfileRefused,
         AttemptFails, BudgetSpent, NextAttempt, SignedOutByCall, SetIf, SignOut,
         ArriveAtLogin, Visit, CompleteLogin, MountProvider, Reload, SignInAnswered,
         WrongRoleSignedOut, SignedInElsewhere, GoogleLogin, SubmitLogin, sessionVars, tabVars

SessionInv == UsersOK /\ TabOK /\ SpinnerOK /\ ContentInv

LEMMA SessionStep == SessionInv /\ [SessionNext]_sessionVars => SessionInv'
  BY ContentStep, UsersStep, TabStep, SpinnerStep DEF SessionInv

LEMMA SessionStarts == SessionInit => SessionInv
<1> SUFFICES ASSUME SessionInit PROVE SessionInv
  OBVIOUS
<1>1. UsersOK
  BY NoCallIsCall DEF SessionInit, UsersOK, MaybeUser
<1>2. QED
  BY <1>1 DEF SessionInit, SessionInv, TabOK, SpinnerOK, ContentInv, ContentNeedsSession, NoLogin

LEMMA SessionHolds == SessionInv => SessionTypeOK /\ ContentNeedsSession
  BY DEF SessionInv, SessionTypeOK, UsersOK, TabOK, SpinnerOK, ContentInv

\* However many calls of load() are under way and wherever somebody signs out,
\* content is mounted only while there is a session.
THEOREM ContentHasSession == SessionSpec => [](SessionTypeOK /\ ContentNeedsSession)
  BY SessionStarts, SessionStep, SessionHolds, PTL DEF SessionSpec

-----------------------------------------------------------------------------
FormRecord ==
    [method : {"email", "phone"}, phone : Phones \cup {NoPhone},
     otpSent : BOOLEAN, busy : BOOLEAN,
     call : FormCalls, sent : Phones \cup {NoPhone},
     googleBusy : BOOLEAN, google : BOOLEAN,
     notice : {"none", "error", "done"}]

\* The types say that a number with "+" is one somebody has typed.
FormsInv == FormsTypeOK /\ CodeGoesWithNumber /\ FormsUnlock

LEMMA EmptyFormIsSafe ==
    ASSUME form' = EmptyForm, formPage' \in FormPages, resetTimer' \in BOOLEAN,
           coded' \subseteq Numbers
    PROVE  FormsInv'
<1>1. EmptyForm \in FormRecord
  BY DEF EmptyForm, FormRecord, FormCalls
<1>2. QED
  BY <1>1 DEF FormRecord, EmptyForm, FormsInv, FormsTypeOK, CodeGoesWithNumber, FormsUnlock

LEMMA NumberIsTyped ==
    ASSUME NEW p \in Phones \cup {NoPhone}
    PROVE  /\ NormalizePhone(p) \in Phones \cup {NoPhone}
           /\ NormalizePhone(p).of = p.of
           /\ p.as = "plus" => p \in Phones
  BY DEF NormalizePhone, Phones, NoPhone, Spellings

\* A call that begins locks the form; verify takes the number under the code.
LEMMA CallingIsSafe ==
    ASSUME FormsInv, NEW call \in FormCalls \ {"none"}, NEW called \in Phones \cup {NoPhone},
           call = "verify" => called.of \in coded,
           Calling(call, called), UNCHANGED <<formPage, resetTimer, coded>>
    PROVE  FormsInv'
<1>1. form \in FormRecord
  BY DEF FormsInv, FormsTypeOK, FormRecord
<1>2. form' \in FormRecord /\ form'.busy = TRUE /\ form'.call = call /\ form'.sent = called
      /\ form'.otpSent = form.otpSent /\ form'.phone = form.phone
      /\ form'.google = form.google /\ form'.googleBusy = form.googleBusy
  BY <1>1 DEF Calling, FormRecord
<1>3. QED
  BY <1>2 DEF FormsInv, FormsTypeOK, FormRecord, CodeGoesWithNumber, FormsUnlock

\* A click or an edit: no call begins or ends.
LEMMA ClickIsSafe ==
    ASSUME FormsInv, UNCHANGED <<formPage, resetTimer, coded>>,
           \/ \E next \in {"email", "phone"} : SwitchMethod(next)
           \/ \E p \in Phones : TypePhone(p)
           \/ ForgetNumber \/ HandleGoogle \/ GoogleFailed \/ Mismatch
    PROVE  FormsInv'
<1>1. form \in FormRecord
  BY DEF FormsInv, FormsTypeOK, FormRecord
<1>2. /\ form' \in FormRecord /\ UNCHANGED <<form.busy, form.call, form.sent>>
      /\ form'.otpSent => form.otpSent /\ form'.phone = form.phone
      /\ \/ form'.googleBusy = form.googleBusy /\ form'.google = form.google
         \/ form'.googleBusy = form'.google
  <2>1. CASE \E next \in {"email", "phone"} : SwitchMethod(next)
    BY <1>1, <2>1 DEF SwitchMethod, FormRecord
  <2>2. CASE \E p \in Phones : TypePhone(p)
    BY <1>1, <2>2 DEF TypePhone, PhoneIsOpen, FormRecord
  <2>3. CASE ForgetNumber
    BY <1>1, <2>3 DEF ForgetNumber, FormRecord
  <2>4. CASE HandleGoogle
    BY <1>1, <2>4 DEF HandleGoogle, FormRecord
  <2>5. CASE GoogleFailed
    BY <1>1, <2>5 DEF GoogleFailed, FormRecord
  <2>6. CASE Mismatch
    BY <1>1, <2>6 DEF Mismatch, FormRecord
  <2>7. QED
    BY <2>1, <2>2, <2>3, <2>4, <2>5, <2>6
<1>3. CodeGoesWithNumber'
  BY <1>2 DEF FormsInv, CodeGoesWithNumber
<1>4. FormsUnlock'
  BY <1>2 DEF FormsInv, FormsUnlock
<1>5. FormsTypeOK'
  BY <1>2 DEF FormsInv, FormsTypeOK, FormRecord
<1>6. QED
  BY <1>3, <1>4, <1>5 DEF FormsInv

\* A call that ends, well or not, unlocks the form.
LEMMA AnswerIsSafe ==
    ASSUME FormsInv, CallFailed \/ CallDone
    PROVE  FormsInv'
<1>1. form \in FormRecord
  BY DEF FormsInv, FormsTypeOK, FormRecord
<1>2. /\ form' \in FormRecord /\ form'.busy = FALSE /\ form'.call = "none"
      /\ UNCHANGED <<form.otpSent, form.phone, form.googleBusy, form.google>>
  BY <1>1 DEF CallFailed, CallDone, Answered, FormRecord, FormCalls
<1>3. UNCHANGED <<formPage, coded>> /\ resetTimer' \in BOOLEAN
  BY DEF CallFailed, CallDone, FormsInv, FormsTypeOK
<1>4. QED
  BY <1>2, <1>3 DEF FormsInv, FormsTypeOK, FormRecord, CodeGoesWithNumber, FormsUnlock

\* The code that arrives names its number in the field.
LEMMA OtpSentIsSafe ==
    ASSUME FormsInv, OtpSent
    PROVE  FormsInv'
<1>1. form \in FormRecord
  BY DEF FormsInv, FormsTypeOK, FormRecord
<1>2. form.sent \in Phones
  BY <1>1, NumberIsTyped DEF OtpSent, FormRecord
<1>3. /\ form' \in FormRecord /\ form'.busy = FALSE /\ form'.call = "none"
      /\ form'.phone = form.sent
      /\ UNCHANGED <<form.googleBusy, form.google>>
  BY <1>1 DEF OtpSent, Answered, FormRecord, FormCalls
<1>4. coded' \subseteq Numbers /\ form.sent.of \in coded'
  BY <1>2 DEF OtpSent, FormsInv, FormsTypeOK, Phones
<1>5. UNCHANGED <<formPage, resetTimer>>
  BY DEF OtpSent
<1>6. QED
  BY <1>3, <1>4, <1>5 DEF FormsInv, FormsTypeOK, FormRecord, CodeGoesWithNumber, FormsUnlock

LEMMA FormsStep == FormsInv /\ [FormsNext]_formsVars => FormsInv'
<1> SUFFICES ASSUME FormsInv, [FormsNext]_formsVars PROVE FormsInv'
  OBVIOUS
<1>0. form \in FormRecord /\ formPage \in FormPages /\ coded \subseteq Numbers /\ resetTimer \in BOOLEAN
  BY DEF FormsInv, FormsTypeOK, FormRecord
<1>1. ASSUME NEW p, p \in Links(formPage) \/ p = "reset-password", OpenForm(p)
      PROVE  FormsInv'
  <2>1. p \in FormPages
    BY <1>1, <1>0 DEF Links, FormPages
  <2>2. QED
    BY <1>1, <1>0, <2>1, EmptyFormIsSafe DEF OpenForm
<1>2. CASE LoggedIn
  BY <1>2, <1>0, EmptyFormIsSafe DEF LoggedIn, FormPages
<1>3. CASE GoogleLeaves
  <2>1. EmptyForm \in FormRecord
    BY DEF EmptyForm, FormRecord, FormCalls
  <2>2. PICK n \in {"none", "error"} : form' = [EmptyForm EXCEPT !.notice = n]
    BY <1>3 DEF GoogleLeaves
  <2>3. form' \in FormRecord /\ form'.busy = FALSE /\ form'.call = "none" /\ form'.otpSent = FALSE
        /\ form'.google = FALSE /\ form'.googleBusy = FALSE
    BY <2>1, <2>2 DEF EmptyForm, FormRecord
  <2>4. formPage' \in FormPages /\ resetTimer' \in BOOLEAN /\ coded' = coded
    BY <1>3 DEF GoogleLeaves, FormPages
  <2>5. QED
    BY <2>3, <2>4, <1>0 DEF FormsInv, FormsTypeOK, FormRecord, CodeGoesWithNumber, FormsUnlock
<1>4. CASE RedirectAfterReset
  <2>1. CASE formPage = "login"
    BY <1>4, <2>1 DEF RedirectAfterReset, FormsInv, FormsTypeOK, CodeGoesWithNumber, FormsUnlock
  <2>2. CASE formPage # "login"
    BY <1>4, <2>2, <1>0, EmptyFormIsSafe DEF RedirectAfterReset, FormPages
  <2>3. QED
    BY <2>1, <2>2
<1>5. CASE HandleEmailLogin \/ HandleSignup \/ HandleReset \/ SendResetLink
  <2>1. PICK call \in {"email", "signUp", "update", "sendLink"} : Calling(call, NoPhone)
    BY <1>5 DEF HandleEmailLogin, HandleSignup, HandleReset, SendResetLink
  <2>2. UNCHANGED <<formPage, resetTimer, coded>>
    BY <1>5 DEF HandleEmailLogin, HandleSignup, HandleReset, SendResetLink
  <2>3. QED
    BY <2>1, <2>2, CallingIsSafe DEF FormCalls
<1>6. CASE HandleSendOtp
  <2>1. NormalizePhone(form.phone) \in Phones \cup {NoPhone}
    BY <1>0, NumberIsTyped DEF FormRecord
  <2>2. "send" \in FormCalls \ {"none"} /\ "send" # "verify"
    BY DEF FormCalls
  <2>3. QED
    BY <1>6, <2>1, <2>2, CallingIsSafe DEF HandleSendOtp
<1>7. CASE HandleVerifyOtp
  <2>1. NormalizePhone(form.phone) \in Phones \cup {NoPhone}
        /\ NormalizePhone(form.phone).of = form.phone.of
    BY <1>0, NumberIsTyped DEF FormRecord
  <2>2. form.phone.of \in coded
    BY <1>7 DEF HandleVerifyOtp, CodeIsOpen, FormsInv, CodeGoesWithNumber
  <2>3. "verify" \in FormCalls \ {"none"}
    BY DEF FormCalls
  <2>4. QED
    BY <1>7, <2>1, <2>2, <2>3, CallingIsSafe DEF HandleVerifyOtp
<1>8. ASSUME \/ \E next \in {"email", "phone"} : SwitchMethod(next)
             \/ \E p \in Phones : TypePhone(p)
             \/ ForgetNumber \/ HandleGoogle \/ GoogleFailed \/ Mismatch
      PROVE  FormsInv'
  <2>1. UNCHANGED <<formPage, resetTimer, coded>>
    BY <1>8 DEF SwitchMethod, TypePhone, ForgetNumber, HandleGoogle, GoogleFailed, Mismatch
  <2>2. QED
    BY <1>8, <2>1, ClickIsSafe
<1>9. CASE UNCHANGED formsVars
  BY <1>9 DEF formsVars, FormsInv, FormsTypeOK, CodeGoesWithNumber, FormsUnlock
<1>10. QED
  BY <1>1, <1>2, <1>3, <1>4, <1>5, <1>6, <1>7, <1>8, <1>9, AnswerIsSafe, OtpSentIsSafe DEF FormsNext

LEMMA FormsStart == FormsInit => FormsInv
<1> SUFFICES ASSUME FormsInit PROVE FormsInv
  OBVIOUS
<1>1. EmptyForm \in FormRecord
  BY DEF EmptyForm, FormRecord, FormCalls
<1>2. QED
  BY <1>1 DEF FormsInit, FormRecord, EmptyForm, FormsInv, FormsTypeOK, CodeGoesWithNumber,
              FormsUnlock, FormPages

\* For any numbers: a code is only ever checked against the number it went to,
\* and no form stays locked after its call.
THEOREM CodesGoWithNumbers == FormsSpec => [](FormsTypeOK /\ CodeGoesWithNumber /\ FormsUnlock)
<1>1. FormsInv => FormsTypeOK /\ CodeGoesWithNumber /\ FormsUnlock
  BY DEF FormsInv
<1>2. QED
  BY <1>1, FormsStart, FormsStep, PTL DEF FormsSpec

-----------------------------------------------------------------------------
\* Why the number under the code cannot change: it is not blank, so no profile
\* is taken over into it, because none was blank when its code was asked for.
LinkInv ==
    /\ LinksConfirmedNumber
    /\ otpSent => linkPhone # NoMobile
    /\ linkCall.kind = "send" => linkCall.number # NoMobile

\* What saving and editing do to the card is at most AdoptPhone.
LEMMA FormStep ==
    ASSUME LinkInv, NEW p, AdoptPhone(p) \/ UNCHANGED linkPhone,
           UNCHANGED <<authPhone, pendingPhone, status, linkedPhone, otpSent, linkCall>>
    PROVE  LinkInv'
  BY DEF LinkInv, LinksConfirmedNumber, AdoptPhone

LEMMA LinkStep == LinkInv /\ [ProfileNext]_profileVars => LinkInv'
<1> SUFFICES ASSUME LinkInv, [ProfileNext]_profileVars PROVE LinkInv'
  OBVIOUS
<1>1. CASE ProfileArrives \/ SaveDone
  <2>1. PICK p : AdoptPhone(p)
    BY <1>1 DEF ProfileArrives, SaveDone
  <2>2. UNCHANGED <<authPhone, pendingPhone, status, linkedPhone, otpSent, linkCall>>
    BY <1>1 DEF ProfileArrives, SaveDone, serverVars
  <2>3. QED
    BY <2>1, <2>2, FormStep
<1>2. ASSUME \/ StartEdit \/ cancelEdit \/ saveProfile \/ SaveRow \/ SaveMail \/ SaveFails
             \/ MailConfirmed \/ PhoneSynced \/ SyncFails \/ (\E d \in Details : Edit(d))
             \/ UNCHANGED profileVars
      PROVE  LinkInv'
  <2>1. UNCHANGED <<authPhone, pendingPhone, status, linkedPhone, linkPhone, otpSent, linkCall>>
    BY <1>2 DEF StartEdit, cancelEdit, saveProfile, SaveRow, SaveMail, SaveFails, MailConfirmed,
                PhoneSynced, SyncFails, Edit, profileVars, serverVars, linkVars
  <2>2. QED
    BY <2>1, FormStep
<1>3. CASE loadStatus
  BY <1>3 DEF loadStatus, LinkInv, LinksConfirmedNumber, serverVars
<1>4. CASE \E p \in AnyPhone : TypeLinkPhone(p)
  BY <1>4 DEF TypeLinkPhone, LinkFieldOpen, LinkInv, LinksConfirmedNumber, serverVars
<1>5. CASE sendCode
  BY <1>5 DEF sendCode, LinkFieldOpen, LinkInv, LinksConfirmedNumber, serverVars
<1>6. CASE CodeSent
  BY <1>6 DEF CodeSent, NoLink, LinkInv, LinksConfirmedNumber
<1>7. CASE verifyCode
  BY <1>7 DEF verifyCode, LinkInv, LinksConfirmedNumber, serverVars
<1>8. CASE LinkFails
  BY <1>8 DEF LinkFails, NoLink, LinkInv, LinksConfirmedNumber, serverVars
<1>9. CASE Verified
  BY <1>9 DEF Verified, NoLink, LinkInv, LinksConfirmedNumber
<1>10. QED
  BY <1>1, <1>2, <1>3, <1>4, <1>5, <1>6, <1>7, <1>8, <1>9 DEF ProfileNext

\* The types, in three parts: the service and the card, the form, the flags.
CardOK ==
    /\ row \in AnyPhone /\ mail \in Mails
    /\ authPhone \in AnyPhone /\ pendingPhone \in AnyPhone
    /\ status \in {"checking", "verified", "unverified"}
    /\ linkedPhone \in AnyPhone /\ linkPhone \in AnyPhone
    /\ linkCall \in [kind : {"none", "send", "verify"}, number : AnyPhone]
    /\ syncing \in AnyPhone
EditorOK ==
    /\ profileForm \in Details /\ savedProfile \in Details
    /\ saving \in SaveSteps \cup {NoSave}
EditFlagsOK == loadedProfile \in BOOLEAN /\ isEditing \in BOOLEAN /\ otpSent \in BOOLEAN

\* What a save that has begun works on.
LEMMA SavingIsSave ==
    ASSUME EditorOK, saving.step # "none"
    PROVE  /\ saving \in SaveSteps
           /\ saving.values \in Details /\ saving.newMail \in BOOLEAN
           /\ saving.values.phone \in AnyPhone
  BY DEF EditorOK, NoSave, SaveSteps, Details

LEMMA CardStep == CardOK /\ EditorOK /\ [ProfileNext]_profileVars => CardOK'
<1> SUFFICES ASSUME CardOK, EditorOK, [ProfileNext]_profileVars PROVE CardOK'
  OBVIOUS
<1> USE DEF CardOK, serverVars, linkVars
<1>1. NoMobile \in AnyPhone
  BY DEF AnyPhone
<1>2. CASE ProfileArrives
  BY <1>2 DEF ProfileArrives, AdoptPhone
<1>3. CASE SaveDone
  <2>1. linkPhone' \in AnyPhone
    BY <1>3, SavingIsSave DEF SaveDone, AdoptPhone
  <2>2. QED
    BY <1>3, <2>1 DEF SaveDone
<1>4. CASE SaveRow
  <2>1. row' \in AnyPhone
    BY <1>4, SavingIsSave DEF SaveRow
  <2>2. QED
    BY <1>4, <2>1 DEF SaveRow
<1>5. CASE \/ StartEdit \/ cancelEdit \/ saveProfile \/ SaveMail \/ SaveFails
           \/ MailConfirmed \/ \E d \in Details : Edit(d)
  BY <1>5 DEF StartEdit, cancelEdit, saveProfile, SaveMail, SaveFails, MailConfirmed, Edit
<1>6. CASE loadStatus \/ \E p \in AnyPhone : TypeLinkPhone(p)
  BY <1>6 DEF loadStatus, TypeLinkPhone
<1>7. CASE sendCode \/ verifyCode
  BY <1>7 DEF sendCode, verifyCode
<1>8. CASE CodeSent \/ LinkFails \/ Verified
  BY <1>1, <1>8 DEF CodeSent, LinkFails, Verified, NoLink
<1>9. CASE PhoneSynced \/ SyncFails
  BY <1>1, <1>9 DEF PhoneSynced, SyncFails
<1>10. CASE UNCHANGED profileVars
  BY <1>10 DEF profileVars
<1>11. QED
  BY <1>2, <1>3, <1>4, <1>5, <1>6, <1>7, <1>8, <1>9, <1>10 DEF ProfileNext

LEMMA EditorStep == CardOK /\ EditorOK /\ [ProfileNext]_profileVars => EditorOK'
<1> SUFFICES ASSUME CardOK, EditorOK, [ProfileNext]_profileVars PROVE EditorOK'
  OBVIOUS
<1> USE DEF EditorOK, formVars
<1>1. ServerDetails \in Details
  BY DEF ServerDetails, Details, CardOK
<1>2. CASE ProfileArrives
  BY <1>1, <1>2 DEF ProfileArrives
<1>3. CASE SaveDone
  BY <1>1, <1>3, SavingIsSave DEF SaveDone
<1>4. CASE SaveRow \/ SaveMail
  <2>1. saving \in SaveSteps
    BY <1>4, SavingIsSave DEF SaveRow, SaveMail
  <2>2. saving' \in SaveSteps
    BY <1>4, <2>1 DEF SaveRow, SaveMail, SaveSteps
  <2>3. QED
    BY <1>4, <2>2 DEF SaveRow, SaveMail
<1>5. CASE saveProfile
  <2>1. saving' \in SaveSteps
    BY <1>5 DEF saveProfile, SaveSteps
  <2>2. QED
    BY <1>5, <2>1 DEF saveProfile
<1>6. CASE StartEdit \/ cancelEdit \/ SaveFails \/ \E d \in Details : Edit(d)
  BY <1>6 DEF StartEdit, cancelEdit, SaveFails, Edit
<1>7. CASE PhoneSynced
  <2>1. /\ [profileForm EXCEPT !.phone = syncing] \in Details
        /\ [savedProfile EXCEPT !.phone = syncing] \in Details
    BY DEF Details, CardOK
  <2>2. QED
    BY <1>7, <2>1 DEF PhoneSynced
<1>8. CASE \/ MailConfirmed \/ loadStatus \/ sendCode \/ CodeSent \/ verifyCode \/ LinkFails
           \/ Verified \/ SyncFails \/ \E p \in AnyPhone : TypeLinkPhone(p)
  <2>1. UNCHANGED formVars
    BY <1>8 DEF MailConfirmed, loadStatus, sendCode, CodeSent, verifyCode, LinkFails, Verified,
                SyncFails, TypeLinkPhone
  <2>2. QED
    BY <2>1
<1>9. CASE UNCHANGED profileVars
  BY <1>9 DEF profileVars
<1>10. QED
  BY <1>2, <1>3, <1>4, <1>5, <1>6, <1>7, <1>8, <1>9 DEF ProfileNext

LEMMA EditFlagsStep == EditFlagsOK /\ [ProfileNext]_profileVars => EditFlagsOK'
  BY DEF EditFlagsOK, ProfileNext, ProfileArrives, StartEdit, cancelEdit, Edit, saveProfile, SaveRow,
         SaveMail, SaveFails, SaveDone, MailConfirmed, loadStatus, sendCode, CodeSent, verifyCode,
         LinkFails, Verified, TypeLinkPhone, PhoneSynced, SyncFails, formVars, linkVars, profileVars

ProfileInv == CardOK /\ EditorOK /\ EditFlagsOK /\ LinkInv

LEMMA ProfileStep == ProfileInv /\ [ProfileNext]_profileVars => ProfileInv'
  BY LinkStep, CardStep, EditorStep, EditFlagsStep DEF ProfileInv

LEMMA ProfileStart == ProfileInit => ProfileInv
<1> SUFFICES ASSUME ProfileInit PROVE ProfileInv
  OBVIOUS
<1>1. NoMobile \in AnyPhone
  BY DEF AnyPhone
<1>2. CardOK
  BY <1>1 DEF ProfileInit, CardOK, NoLink
<1>3. EditorOK
  BY <1>1 DEF ProfileInit, EditorOK, Details
<1>4. EditFlagsOK
  BY DEF ProfileInit, EditFlagsOK
<1>5. LinkInv
  BY DEF ProfileInit, NoLink, LinkInv, LinksConfirmedNumber
<1>6. QED
  BY <1>2, <1>3, <1>4, <1>5 DEF ProfileInv

LEMMA ProfileHolds == ProfileInv => ProfileTypeOK /\ LinksConfirmedNumber
  BY DEF ProfileInv, ProfileTypeOK, CardOK, EditorOK, EditFlagsOK, LinkInv

\* The card never asks a code for a number other than the one it was sent to,
\* and names no number as linked but the one that is.
THEOREM LinksStayConfirmed == ProfileSpec => [](ProfileTypeOK /\ LinksConfirmedNumber)
  BY ProfileStart, ProfileStep, ProfileHolds, PTL DEF ProfileSpec

-----------------------------------------------------------------------------
\* Whatever the account holds, what is read of it is a station of its city.
LEMMA ReadIsGood ==
    ASSUME NEW p \in AnyChoice \cup {NoChoice}
    PROVE  AsRead(p) \in GoodChoices
<1> DEFINE c == IF p.city \in MetroCities THEN p.city ELSE HomeCity
           s == IF p.stop \in StopsOf[c] THEN p.stop ELSE FirstStop[c]
<1>1. c \in MetroCities
  BY CitiesHaveStops
<1>2. s \in StopsOf[c] /\ StopsOf[c] \subseteq MetroStops
  BY <1>1, CitiesHaveStops
<1>3. [city |-> c, stop |-> s] \in GoodChoices
  BY <1>1, <1>2 DEF GoodChoices, AnyChoice
<1>4. QED
  BY <1>3 DEF AsRead

PreferenceInv == PreferenceTypeOK /\ StationIsInCity

LEMMA PreferenceStep == PreferenceInv /\ [PreferenceNext]_preferenceVars => PreferenceInv'
<1> SUFFICES ASSUME PreferenceInv, [PreferenceNext]_preferenceVars PROVE PreferenceInv'
  OBVIOUS
<1> USE DEF PreferenceInv, PreferenceTypeOK, StationIsInCity
<1>1. CASE MetadataRead
  <2>1. AsRead(metadata) \in GoodChoices /\ GoodChoices \subseteq AnyChoice
    BY ReadIsGood DEF GoodChoices
  <2>2. QED
    BY <1>1, <2>1 DEF MetadataRead
<1>2. ASSUME NEW c \in MetroCities, handleCityChange(c)
      PROVE  PreferenceInv'
  <2>1. [city |-> c, stop |-> FirstStop[c]] \in GoodChoices
    BY CitiesHaveStops DEF GoodChoices, AnyChoice
  <2>2. QED
    BY <1>2, <2>1 DEF handleCityChange, GoodChoices
<1>3. ASSUME NEW s \in MetroStops, handleStationChange(s)
      PROVE  PreferenceInv'
  <2>1. [choice EXCEPT !.stop = s] \in GoodChoices
    BY <1>3 DEF handleStationChange, GoodChoices, AnyChoice
  <2>2. QED
    BY <1>3, <2>1 DEF handleStationChange, GoodChoices
<1>4. CASE saveLocationPreference
  BY <1>4 DEF saveLocationPreference
<1>5. CASE PreferenceSaved
  BY <1>5 DEF PreferenceSaved
<1>6. CASE OthersWrite
  BY <1>6 DEF OthersWrite
<1>7. CASE requestLocationAccess \/ LocationAnswered
  BY <1>7 DEF requestLocationAccess, LocationAnswered
<1>8. CASE UNCHANGED preferenceVars
  BY <1>8 DEF preferenceVars
<1>9. QED
  BY <1>1, <1>2, <1>3, <1>4, <1>5, <1>6, <1>7, <1>8 DEF PreferenceNext

LEMMA PreferenceStart == PreferenceInit => PreferenceInv
<1>1. HomeChoice \in GoodChoices
  BY CitiesHaveStops DEF HomeChoice, GoodChoices, AnyChoice
<1>2. QED
  BY <1>1 DEF PreferenceInit, PreferenceInv, PreferenceTypeOK, StationIsInCity, GoodChoices

\* The page never shows, saves or remembers a station of another city,
\* whatever other clients write to the account.
THEOREM StationStaysInCity == PreferenceSpec => [](PreferenceTypeOK /\ StationIsInCity)
<1>1. PreferenceInv => PreferenceTypeOK /\ StationIsInCity
  BY DEF PreferenceInv
<1>2. QED
  BY <1>1, PreferenceStart, PreferenceStep, PTL DEF PreferenceSpec

-----------------------------------------------------------------------------
\* Rows only count up, what is confirmed has happened, and an answer that was
\* read after the last refresh contains it.
PagesInv ==
    /\ kept \in [ListRows -> Nat] /\ acked \in [ListRows -> Nat]
    /\ calls \in [Locks -> [ListRows -> Nat]]
    /\ busyId \in ListRows \cup {NoRow} /\ notifyingId \in ListRows \cup {NoRow}
    /\ listFetch.st \in {"idle", "asked", "read"}
    /\ listFetch = [st |-> listFetch.st, rows |-> listFetch.rows]
    /\ \A r \in ListRows : acked[r] <= kept[r]
    /\ openPage # "scheduling" /\ listFetch.st = "read"
          => \A r \in ListRows : listFetch.rows[r] >= acked[r]
    /\ OwnChangesShow
    /\ LocksOpen

LEMMA PagesStart == ListInit => PagesInv
<1>1. NoCalls \in [Locks -> [ListRows -> Nat]] /\ \A r \in ListRows : NoCalls["card"][r] = 0
  BY DEF NoCalls, Locks
<1>2. QED
  BY <1>1 DEF ListInit, PagesInv, OwnChangesShow, LocksOpen

LEMMA OpenIsSafe == ASSUME PagesInv, NEW p \in ListPageNames, OpenPage(p) PROVE PagesInv'
<1>1. NoCalls \in [Locks -> [ListRows -> Nat]] /\ \A r \in ListRows : NoCalls["card"][r] = 0
  BY DEF NoCalls, Locks
<1>2. QED
  BY <1>1 DEF OpenPage, PagesInv, OwnChangesShow, LocksOpen

\* The list: what was confirmed stays where it is.
LEMMA ListIsSafe ==
    ASSUME PagesInv, ListRefresh \/ ListRead \/ ListAnswered \/ ListFails PROVE PagesInv'
<1> USE DEF PagesInv, OwnChangesShow, LocksOpen, lockVars
<1>1. CASE ListRefresh
  BY <1>1 DEF ListRefresh, AskAgain
<1>2. CASE ListRead
  <2>1. PICK answer \in Changes : MayBeRead(answer) /\ listFetch' = [st |-> "read", rows |-> answer]
    BY <1>2 DEF ListRead
  <2>2. openPage # "scheduling" => \A r \in ListRows : answer[r] >= acked[r]
    BY <2>1 DEF MayBeRead
  <2>3. QED
    BY <1>2, <2>1, <2>2 DEF ListRead
<1>3. CASE ListAnswered
  BY <1>3 DEF ListAnswered
<1>4. CASE ListFails
  BY <1>4 DEF ListFails
<1>5. QED
  BY <1>1, <1>2, <1>3, <1>4

\* A call begins: it takes the lock of its row.
LEMMA CallIsSafe ==
    ASSUME PagesInv, NEW lock \in Locks, NEW r \in ListRows, Call(lock, r),
           lock = "card" => calls["card"][r] = 0
    PROVE  PagesInv'
<1> USE DEF PagesInv, OwnChangesShow, LocksOpen, Locks
<1>1. /\ calls' \in [Locks -> [ListRows -> Nat]]
      /\ calls'[lock][r] = calls[lock][r] + 1
      /\ \A l \in Locks, q \in ListRows : l # lock \/ q # r => calls'[l][q] = calls[l][q]
  BY DEF Call
<1>2. LocksOpen'
  <2>1. busyId' # NoRow => calls'["row"][busyId'] > 0
    BY <1>1 DEF Call
  <2>2. notifyingId' # NoRow => calls'["notify"][notifyingId'] > 0
    BY <1>1 DEF Call
  <2>3. \A q \in ListRows : calls'["card"][q] <= 1
    BY <1>1
  <2>4. QED
    BY <2>1, <2>2, <2>3
<1>3. QED
  BY <1>1, <1>2 DEF Call, listingVars

\* A call ends: the lock of its kind opens, and a change that was made asks for
\* the list again.
LEMMA EndOfCallIsSafe ==
    ASSUME PagesInv, NEW lock \in Locks, NEW r \in ListRows,
           CallSucceeds(lock, r) \/ RowCallFails(lock, r)
    PROVE  PagesInv'
<1> USE DEF PagesInv, Locks, Unlock
<1>1. /\ calls' = [calls EXCEPT ![lock][r] = @ - 1] /\ calls[lock][r] > 0
      /\ Unlock(lock) /\ openPage' = openPage
  BY DEF CallSucceeds, RowCallFails
<1>2. /\ calls' \in [Locks -> [ListRows -> Nat]]
      /\ \A l \in Locks, q \in ListRows : calls'[l][q] <= calls[l][q]
      /\ \A l \in Locks \ {lock}, q \in ListRows : calls'[l][q] = calls[l][q]
  BY <1>1
<1>3. LocksOpen'
  <2>1. busyId' # NoRow => calls'["row"][busyId'] > 0
    BY <1>1, <1>2 DEF LocksOpen
  <2>2. notifyingId' # NoRow => calls'["notify"][notifyingId'] > 0
    BY <1>1, <1>2 DEF LocksOpen
  <2>3. \A q \in ListRows : calls'["card"][q] <= 1
    <3>1. SUFFICES ASSUME NEW q \in ListRows PROVE calls'["card"][q] <= 1
      OBVIOUS
    <3>2. calls'["card"][q] <= calls["card"][q] /\ calls["card"][q] <= 1
      BY <1>2 DEF LocksOpen
    <3>3. calls'["card"][q] \in Nat /\ calls["card"][q] \in Nat
      BY <1>2
    <3>4. QED
      BY <3>2, <3>3
  <2>4. QED
    BY <2>1, <2>2, <2>3 DEF LocksOpen
<1>4. CASE UNCHANGED <<kept, acked, listFetch>>
  BY <1>1, <1>2, <1>3, <1>4 DEF CallSucceeds, RowCallFails, OwnChangesShow, listingVars
<1>5. CASE /\ kept' = [kept EXCEPT ![r] = @ + 1]
           /\ acked' = [acked EXCEPT ![r] = kept'[r]]
           /\ AskAgain
  <2>1. /\ kept' \in [ListRows -> Nat] /\ acked' \in [ListRows -> Nat]
        /\ \A q \in ListRows : acked'[q] <= kept'[q]
    BY <1>5
  <2>2. listFetch'.st = "asked" /\ listFetch' = [st |-> listFetch'.st, rows |-> listFetch'.rows]
    BY <1>5 DEF AskAgain
  <2>3. QED
    BY <1>1, <1>2, <1>3, <2>1, <2>2 DEF OwnChangesShow
<1>6. QED
  BY <1>4, <1>5 DEF CallSucceeds, RowCallFails, listingVars

LEMMA PagesStep == PagesInv /\ [PageNext]_pageVars => PagesInv'
<1> SUFFICES ASSUME PagesInv, [PageNext]_pageVars PROVE PagesInv'
  OBVIOUS
<1>1. ASSUME NEW p \in ListPageNames, OpenPage(p) PROVE PagesInv'
  BY <1>1, OpenIsSafe
<1>2. CASE ListRefresh \/ ListRead \/ ListAnswered \/ ListFails
  BY <1>2, ListIsSafe
<1>3. ASSUME NEW r \in ListRows, OthersChange(r) PROVE PagesInv'
  BY <1>3 DEF OthersChange, PagesInv, OwnChangesShow, LocksOpen, listingVars, lockVars
<1>4. ASSUME NEW r \in ListRows,
             \/ HandleResolve(r) \/ ToggleOrDelete(r) \/ ReportDelayOrAdjust(r)
             \/ HandleRoleOrActive(r) \/ HandleCheckInOut(r)
      PROVE  PagesInv'
  <2>1. Call("row", r)
    BY <1>4 DEF HandleResolve, ToggleOrDelete, ReportDelayOrAdjust, HandleRoleOrActive,
                HandleCheckInOut
  <2>2. QED
    BY <2>1, CallIsSafe DEF Locks
<1>5. ASSUME NEW r \in ListRows, HandleNotifyDelay(r) PROVE PagesInv'
  BY <1>5, CallIsSafe DEF HandleNotifyDelay, Locks
<1>6. ASSUME NEW r \in ListRows, HandleReply(r) PROVE PagesInv'
  BY <1>6, CallIsSafe DEF HandleReply, ReplyOffered, Locks
<1>7. ASSUME NEW lock \in Locks, NEW r \in ListRows,
             CallSucceeds(lock, r) \/ RowCallFails(lock, r)
      PROVE  PagesInv'
  BY <1>7, EndOfCallIsSafe
<1>8. CASE \/ ToggleForm \/ RaiseAlert \/ PublishNews \/ SendEnquiry \/ ToggleDelivery
           \/ DeliveryAnswered \/ \E r \in ListRows : Respond(r)
  <2>1. UNCHANGED <<openPage, kept, acked, listed, listFetch, listError, busyId, notifyingId, calls>>
    BY <1>8 DEF ToggleForm, RaiseAlert, PublishNews, SendEnquiry, Submitted, ToggleDelivery,
                DeliveryAnswered, Respond, listingVars
  <2>2. QED
    BY <2>1 DEF PagesInv, OwnChangesShow, LocksOpen
<1>9. CASE CreateAnswered
  BY <1>9 DEF CreateAnswered, AskAgain, PagesInv, OwnChangesShow, LocksOpen
<1>10. CASE UNCHANGED pageVars
  BY <1>10 DEF pageVars, listingVars, lockVars, PagesInv, OwnChangesShow, LocksOpen
<1>11. QED
  BY <1>1, <1>2, <1>3, <1>4, <1>5, <1>6, <1>7, <1>8, <1>9, <1>10 DEF PageNext

\* The types of the pages: what they count, and what is open on them.
CountsOK ==
    /\ openPage \in ListPageNames
    /\ kept \in Changes /\ acked \in Changes /\ listed \in Changes
FetchOK == listFetch \in [st : {"idle", "asked", "read"}, rows : Changes]
LocksOK ==
    /\ busyId \in ListRows \cup {NoRow} /\ notifyingId \in ListRows \cup {NoRow}
    /\ calls \in [Locks -> [ListRows -> Nat]] /\ replying \subseteq ListRows
ErrorOK == listError \in BOOLEAN
FormOK == createForm \in [open : BOOLEAN, submitting : BOOLEAN]
DeliveryOK == delivery \in [open : BOOLEAN, logs : BOOLEAN, loading : Nat]

LEMMA PageTypesSplit ==
    ListTypeOK <=> CountsOK /\ FetchOK /\ LocksOK /\ ErrorOK /\ FormOK /\ DeliveryOK
  BY DEF ListTypeOK, CountsOK, FetchOK, LocksOK, ErrorOK, FormOK, DeliveryOK

LEMMA PageTypesStart == ListInit => ListTypeOK
<1> SUFFICES ASSUME ListInit PROVE ListTypeOK
  OBVIOUS
<1>0. [r \in ListRows |-> 0] \in Changes
  BY ListBounds DEF Changes
<1>1. CountsOK /\ FetchOK
  BY <1>0 DEF ListInit, CountsOK, FetchOK
<1>2. LocksOK
  BY DEF ListInit, LocksOK, NoCalls, Locks
<1>3. ErrorOK /\ FormOK
  BY DEF ListInit, ErrorOK, FormOK, ClosedForm
<1>4. DeliveryOK
  BY DEF ListInit, DeliveryOK, NoDelivery
<1>5. QED
  BY <1>1, <1>2, <1>3, <1>4, PageTypesSplit

\* The handlers of a row, up to their await.
RowHandler(r) ==
    \/ HandleResolve(r) \/ ToggleOrDelete(r) \/ ReportDelayOrAdjust(r) \/ HandleNotifyDelay(r)
    \/ HandleRoleOrActive(r) \/ HandleCheckInOut(r) \/ HandleReply(r)

LEMMA HandlersCall ==
    ASSUME NEW r \in ListRows, RowHandler(r) PROVE \E lock \in Locks : Call(lock, r)
  BY DEF RowHandler, HandleResolve, ToggleOrDelete, ReportDelayOrAdjust, HandleNotifyDelay,
         HandleRoleOrActive, HandleCheckInOut, HandleReply, Locks

\* The steps of a page, with the handlers as the one step that they are.
LEMMA PageSteps ==
    ASSUME [PageNext]_pageVars
    PROVE  \/ \E p \in ListPageNames : OpenPage(p)
           \/ ListRefresh \/ ListRead \/ ListAnswered \/ ListFails
           \/ \E r \in ListRows : OthersChange(r) \/ Respond(r)
           \/ \E lock \in Locks, r \in ListRows :
                 Call(lock, r) \/ CallSucceeds(lock, r) \/ RowCallFails(lock, r)
           \/ ToggleForm \/ Submitted \/ CreateAnswered \/ ToggleDelivery \/ DeliveryAnswered
           \/ UNCHANGED pageVars
<1>1. \A r \in ListRows : RowHandler(r) => \E lock \in Locks : Call(lock, r)
  BY HandlersCall
<1>2. QED
  BY <1>1 DEF PageNext, RowHandler, RaiseAlert, PublishNews, SendEnquiry

LEMMA CountsStep ==
    ASSUME CountsOK, FetchOK, [PageNext]_pageVars PROVE CountsOK' /\ FetchOK'
<1> USE DEF CountsOK, FetchOK
<1>0. [r \in ListRows |-> 0] \in Changes
  BY ListBounds DEF Changes
<1>1. ASSUME NEW p \in ListPageNames, OpenPage(p) PROVE CountsOK' /\ FetchOK'
  BY <1>0, <1>1 DEF OpenPage
<1>2. CASE ListRefresh \/ ListRead \/ ListAnswered \/ ListFails
  BY <1>2 DEF ListRefresh, AskAgain, ListRead, ListAnswered, ListFails
<1>3. ASSUME NEW r \in ListRows, kept[r] < MaxChanges, kept' = [kept EXCEPT ![r] = @ + 1]
      PROVE  kept' \in Changes /\ kept'[r] \in 0..MaxChanges
  BY <1>3, ListBounds DEF Changes
<1>4. ASSUME NEW r \in ListRows, OthersChange(r) PROVE CountsOK' /\ FetchOK'
  BY <1>3, <1>4 DEF OthersChange, listingVars
<1>5. ASSUME NEW lock \in Locks, NEW r \in ListRows, CallSucceeds(lock, r)
      PROVE  CountsOK' /\ FetchOK'
  <2>1. CASE UNCHANGED <<kept, acked, listFetch>>
    BY <1>5, <2>1 DEF CallSucceeds
  <2>2. CASE /\ kept[r] < MaxChanges /\ kept' = [kept EXCEPT ![r] = @ + 1]
             /\ acked' = [acked EXCEPT ![r] = kept'[r]] /\ AskAgain
    <3>1. kept' \in Changes /\ kept'[r] \in 0..MaxChanges
      BY <1>3, <2>2
    <3>2. acked' \in Changes
      BY <2>2, <3>1 DEF Changes
    <3>3. QED
      BY <1>5, <2>2, <3>1, <3>2 DEF CallSucceeds, AskAgain
  <2>3. QED
    BY <1>5, <2>1, <2>2 DEF CallSucceeds
<1>6. CASE CreateAnswered
  BY <1>6 DEF CreateAnswered, AskAgain
<1>7. CASE \/ \E r \in ListRows : Respond(r)
           \/ \E lock \in Locks, r \in ListRows : Call(lock, r) \/ RowCallFails(lock, r)
           \/ ToggleForm \/ Submitted \/ ToggleDelivery \/ DeliveryAnswered \/ UNCHANGED pageVars
  <2>1. UNCHANGED <<openPage, kept, acked, listed, listFetch>>
    BY <1>7 DEF Respond, Call, RowCallFails, ToggleForm, Submitted, ToggleDelivery,
                DeliveryAnswered, pageVars, listingVars
  <2>2. QED
    BY <2>1
<1>8. QED
  BY <1>1, <1>2, <1>4, <1>5, <1>6, <1>7, PageSteps

LEMMA LocksStep == ASSUME LocksOK, [PageNext]_pageVars PROVE LocksOK'
<1> USE DEF LocksOK
<1>1. ASSUME NEW p \in ListPageNames, OpenPage(p) PROVE LocksOK'
  BY <1>1 DEF OpenPage, NoCalls, Locks
<1>2. ASSUME NEW lock \in Locks, NEW r \in ListRows, Call(lock, r) PROVE LocksOK'
  BY <1>2 DEF Call
<1>3. ASSUME NEW lock \in Locks, NEW r \in ListRows,
             CallSucceeds(lock, r) \/ RowCallFails(lock, r)
      PROVE  LocksOK'
  <2>1. calls[lock][r] \in Nat /\ calls[lock][r] > 0 /\ calls' = [calls EXCEPT ![lock][r] = @ - 1]
    BY <1>3 DEF CallSucceeds, RowCallFails
  <2>2. calls' \in [Locks -> [ListRows -> Nat]]
    BY <2>1
  <2>3. QED
    BY <1>3, <2>2 DEF CallSucceeds, RowCallFails, Unlock
<1>4. ASSUME NEW r \in ListRows, Respond(r) PROVE LocksOK'
  BY <1>4 DEF Respond
<1>5. CASE \/ ListRefresh \/ ListRead \/ ListAnswered \/ ListFails
           \/ \E r \in ListRows : OthersChange(r)
           \/ ToggleForm \/ Submitted \/ CreateAnswered \/ ToggleDelivery \/ DeliveryAnswered
           \/ UNCHANGED pageVars
  BY <1>5 DEF ListRefresh, ListRead, ListAnswered, ListFails, OthersChange, ToggleForm, Submitted,
              CreateAnswered, ToggleDelivery, DeliveryAnswered, pageVars, lockVars
<1>6. QED
  BY <1>1, <1>2, <1>3, <1>4, <1>5, PageSteps

LEMMA ErrorStep == ErrorOK /\ [PageNext]_pageVars => ErrorOK'
<1> SUFFICES ASSUME ErrorOK, [PageNext]_pageVars PROVE ErrorOK'
  OBVIOUS
<1>1. listError' = TRUE \/ listError' = FALSE \/ listError' = listError
  BY PageSteps DEF OpenPage, ListRefresh, ListRead, ListAnswered, ListFails, OthersChange, Respond,
                   Call, CallSucceeds, RowCallFails, ToggleForm, Submitted, CreateAnswered,
                   ToggleDelivery, DeliveryAnswered, pageVars, listingVars
<1>2. QED
  BY <1>1 DEF ErrorOK

LEMMA CreateFormStep == FormOK /\ [PageNext]_pageVars => FormOK'
<1> SUFFICES ASSUME FormOK, [PageNext]_pageVars PROVE FormOK'
  OBVIOUS
<1>1. \/ createForm' = createForm \/ createForm' = ClosedForm
      \/ createForm' = [createForm EXCEPT !.open = ~@]
      \/ createForm' = [createForm EXCEPT !.submitting = TRUE]
      \/ createForm' = [createForm EXCEPT !.submitting = FALSE]
  BY PageSteps DEF OpenPage, ListRefresh, ListRead, ListAnswered, ListFails, OthersChange, Respond,
                   Call, CallSucceeds, RowCallFails, ToggleForm, Submitted, CreateAnswered,
                   ToggleDelivery, DeliveryAnswered, pageVars, lockVars
<1>2. CASE createForm' = [createForm EXCEPT !.open = ~@]
  BY <1>2 DEF FormOK
<1>3. CASE createForm' = [createForm EXCEPT !.submitting = TRUE]
  BY <1>3 DEF FormOK
<1>4. CASE createForm' = [createForm EXCEPT !.submitting = FALSE]
  BY <1>4 DEF FormOK
<1>5. ClosedForm \in [open : BOOLEAN, submitting : BOOLEAN]
  BY DEF ClosedForm
<1>6. CASE createForm' = createForm \/ createForm' = ClosedForm
  BY <1>5, <1>6 DEF FormOK
<1>7. QED
  BY <1>1, <1>2, <1>3, <1>4, <1>6

LEMMA DeliveryStep == ASSUME DeliveryOK, [PageNext]_pageVars PROVE DeliveryOK'
<1> USE DEF DeliveryOK
<1>1. CASE \E p \in ListPageNames : OpenPage(p)
  BY <1>1 DEF OpenPage, NoDelivery
<1>2. ASSUME delivery' = [delivery EXCEPT !.open = ~@] PROVE DeliveryOK'
  BY <1>2
<1>3. ASSUME NEW n \in Nat, delivery' = [delivery EXCEPT !.loading = n] PROVE DeliveryOK'
  BY <1>3
<1>4. CASE \/ ListRefresh \/ ListRead \/ ListAnswered \/ ListFails
           \/ \E r \in ListRows : OthersChange(r) \/ Respond(r)
           \/ \E lock \in Locks, r \in ListRows :
                 Call(lock, r) \/ CallSucceeds(lock, r) \/ RowCallFails(lock, r)
           \/ ToggleForm \/ Submitted \/ CreateAnswered \/ UNCHANGED pageVars
  BY <1>4 DEF ListRefresh, ListRead, ListAnswered, ListFails, OthersChange, Respond, Call,
              CallSucceeds, RowCallFails, ToggleForm, Submitted, CreateAnswered, pageVars, lockVars
<1>5. CASE ToggleDelivery
  <2>1. delivery.loading + 1 \in Nat
    OBVIOUS
  <2>2. \/ delivery' = [delivery EXCEPT !.open = ~@]
        \/ delivery' = [delivery EXCEPT !.loading = delivery.loading + 1]
    BY <1>5 DEF ToggleDelivery
  <2>3. QED
    BY <1>2, <1>3, <2>1, <2>2
<1>6. CASE DeliveryAnswered
  <2>1. delivery.loading - 1 \in Nat
    BY <1>6 DEF DeliveryAnswered
  <2>2. \/ delivery' = [open |-> ~delivery.open, logs |-> TRUE, loading |-> delivery.loading - 1]
        \/ delivery' = [delivery EXCEPT !.loading = delivery.loading - 1]
    BY <1>6 DEF DeliveryAnswered
  <2>3. ASSUME NEW n \in Nat, delivery' = [open |-> ~delivery.open, logs |-> TRUE, loading |-> n]
        PROVE  DeliveryOK'
    BY <2>3
  <2>4. QED
    BY <1>3, <2>1, <2>2, <2>3
<1>7. QED
  BY <1>1, <1>4, <1>5, <1>6, PageSteps

LEMMA PageTypesStep == ListTypeOK /\ [PageNext]_pageVars => ListTypeOK'
  BY PageTypesSplit, CountsStep, LocksStep, ErrorStep, CreateFormStep, DeliveryStep, PTL

\* Whatever calls end in whatever order: a lock never outlasts the calls of its
\* row, a reply is sent once, and a list that is shown as settled contains what
\* was confirmed here.
THEOREM PagesKeepUp == PageSpec => [](ListTypeOK /\ LocksOpen /\ OwnChangesShow)
<1>1. PagesInv => LocksOpen /\ OwnChangesShow
  BY DEF PagesInv
<1>2. ListInit => PagesInv
  BY PagesStart
<1>3. QED
  BY <1>1, <1>2, PagesStep, PageTypesStart, PageTypesStep, PTL DEF PageSpec

-----------------------------------------------------------------------------
\* What is left of a sequence without its k-th element.
LEMMA RemovedAt ==
    ASSUME NEW s \in Seq(Nat), NEW k \in 1..Len(s)
    PROVE  /\ RemoveAt(s, k) \in Seq(Nat) /\ Len(RemoveAt(s, k)) = Len(s) - 1
           /\ \A i \in 1..(Len(s) - 1) : RemoveAt(s, k)[i] = s[IF i < k THEN i ELSE i + 1]
<1> DEFINE n == Len(s)
           a == SubSeq(s, 1, k - 1)
           b == SubSeq(s, k + 1, n)
<1>1. n \in Nat /\ k \in Nat /\ 1 <= k /\ k <= n /\ \A i \in 1..n : s[i] \in Nat
  OBVIOUS
<1>2. RemoveAt(s, k) = a \o b
  BY DEF RemoveAt
<1>3. a \in Seq(Nat) /\ Len(a) = k - 1 /\ \A i \in 1..(k - 1) : a[i] = s[i]
  <2>1. 1 \in Int /\ k - 1 \in Int /\ \A i \in 1..(k - 1) : s[i] \in Nat
    BY <1>1
  <2>2. /\ a \in Seq(Nat) /\ Len(a) = IF 1 <= k - 1 THEN (k - 1) - 1 + 1 ELSE 0
        /\ \A i \in 1..((k - 1) - 1 + 1) : a[i] = s[1 + i - 1]
    BY <2>1, SubSeqProperties
  <2> HIDE DEF a
  <2>3. QED
    BY <1>1, <2>2
<1>4. b \in Seq(Nat) /\ Len(b) = n - k /\ \A i \in 1..(n - k) : b[i] = s[k + i]
  <2>1. k + 1 \in Int /\ n \in Int /\ \A i \in (k + 1)..n : s[i] \in Nat
    BY <1>1
  <2>2. /\ b \in Seq(Nat) /\ Len(b) = IF k + 1 <= n THEN n - (k + 1) + 1 ELSE 0
        /\ \A i \in 1..(n - (k + 1) + 1) : b[i] = s[(k + 1) + i - 1]
    BY <2>1, SubSeqProperties
  <2> HIDE DEF b, n
  <2>3. Len(b) = n - k /\ n - (k + 1) + 1 = n - k
    BY <1>1, <2>2
  <2>4. ASSUME NEW i \in 1..(n - k) PROVE b[i] = s[k + i]
    <3>1. (k + 1) + i - 1 = k + i
      BY <1>1
    <3>2. i \in 1..(n - (k + 1) + 1)
      BY <2>3
    <3>3. QED
      BY <2>2, <3>1, <3>2
  <2>5. QED
    BY <2>2, <2>3, <2>4
<1> HIDE DEF a, b, n
<1>5. /\ a \o b \in Seq(Nat) /\ Len(a \o b) = Len(a) + Len(b)
      /\ \A i \in 1..(Len(a) + Len(b)) : (a \o b)[i] = IF i <= Len(a) THEN a[i] ELSE b[i - Len(a)]
  BY <1>3, <1>4, ConcatProperties
<1>6. Len(a) + Len(b) = n - 1
  BY <1>1, <1>3, <1>4
<1>7. ASSUME NEW i \in 1..(n - 1)
      PROVE  (a \o b)[i] = s[IF i < k THEN i ELSE i + 1]
  <2>1. CASE i < k
    <3>1. i \in 1..(k - 1) /\ i <= Len(a)
      BY <1>1, <1>3, <2>1
    <3>2. QED
      BY <1>3, <1>5, <1>6, <2>1, <3>1
  <2>2. CASE ~(i < k)
    <3>1. ~(i <= Len(a)) /\ i - Len(a) \in 1..(n - k) /\ k + (i - Len(a)) = i + 1
      BY <1>1, <1>3, <2>2
    <3>2. QED
      BY <1>4, <1>5, <1>6, <2>2, <3>1
  <2>3. QED
    BY <2>1, <2>2
<1>8. QED
  BY <1>2, <1>5, <1>6, <1>7 DEF n

\* A sequence without repetitions, from which t is taken: the others stay, each once.
LEMMA RemovedFirst ==
    ASSUME NEW s \in Seq(Nat), NEW t,
           \A i, j \in 1..Len(s) : s[i] = s[j] => i = j
    PROVE  LET r == RemoveFirst(s, t) IN
           /\ r \in Seq(Nat) /\ ToSet(r) \subseteq ToSet(s) \ {t}
           /\ \A i, j \in 1..Len(r) : r[i] = r[j] => i = j
<1>0. Len(s) \in Nat /\ DOMAIN s = 1..Len(s) /\ \A i \in 1..Len(s) : s[i] \in Nat
  OBVIOUS
<1>1. CASE ~\E i \in 1..Len(s) : s[i] = t
  BY <1>0, <1>1 DEF RemoveFirst, ToSet
<1>2. ASSUME NEW k \in 1..Len(s), s[k] = t
      PROVE  LET r == RemoveFirst(s, t) IN
             /\ r \in Seq(Nat) /\ ToSet(r) \subseteq ToSet(s) \ {t}
             /\ \A i, j \in 1..Len(r) : r[i] = r[j] => i = j
  <2> DEFINE I == {i \in 1..Len(s) : s[i] = t}
             r == RemoveFirst(s, t)
  <2>1. I = {k} /\ I \in SUBSET Nat
    BY <1>2
  <2>2. Min(I) = k
    BY <2>1, MinIsSmallest
  <2>3. SelectInSeq(s, LAMBDA v : v = t) = k
    BY <2>1, <2>2 DEF SelectInSeq
  <2>4. r = RemoveAt(s, k)
    BY <1>2, <2>3 DEF RemoveFirst
  <2>6. /\ r \in Seq(Nat) /\ Len(r) = Len(s) - 1
        /\ \A i \in 1..Len(r) : r[i] = s[IF i < k THEN i ELSE i + 1]
    <3>1. /\ RemoveAt(s, k) \in Seq(Nat) /\ Len(RemoveAt(s, k)) = Len(s) - 1
          /\ \A i \in 1..(Len(s) - 1) : RemoveAt(s, k)[i] = s[IF i < k THEN i ELSE i + 1]
      BY RemovedAt
    <3> HIDE DEF r
    <3>2. QED
      BY <2>4, <3>1
  <2> HIDE DEF r
  <2>7. DOMAIN r = 1..Len(r) /\ k \in Nat /\ Len(r) \in Nat
    BY <2>6, <1>0
  <2>8. ASSUME NEW i \in 1..Len(r)
        PROVE  \E j \in 1..Len(s) : j # k /\ r[i] = s[j] /\ j = IF i < k THEN i ELSE i + 1
    <3>1. Len(r) = Len(s) - 1 /\ k \in 1..Len(s)
      BY <2>6
    <3>2. CASE i < k
      BY <1>0, <2>6, <2>7, <3>1, <3>2
    <3>3. CASE ~(i < k)
      <4>1. i + 1 \in 1..Len(s) /\ i + 1 # k
        BY <1>0, <2>7, <3>1, <3>3
      <4>2. r[i] = s[i + 1]
        BY <2>6, <3>3
      <4>3. QED
        BY <3>3, <4>1, <4>2
    <3>4. QED
      BY <3>2, <3>3
  <2>9. ToSet(r) \subseteq ToSet(s) \ {t}
    <3>1. ASSUME NEW i \in 1..Len(r)
          PROVE  r[i] \in ToSet(s) /\ r[i] # t
      <4>1. PICK j \in 1..Len(s) : j # k /\ r[i] = s[j]
        BY <2>8
      <4>2. QED
        BY <1>0, <1>2, <4>1 DEF ToSet
    <3>2. QED
      BY <2>7, <3>1 DEF ToSet
  <2>10. ASSUME NEW i \in 1..Len(r), NEW j \in 1..Len(r), r[i] = r[j]
         PROVE  i = j
    <3>1. (IF i < k THEN i ELSE i + 1) = (IF j < k THEN j ELSE j + 1)
      BY <2>8, <2>10
    <3>2. QED
      BY <2>7, <3>1
  <2>11. QED
    BY <2>6, <2>9, <2>10 DEF r
<1>3. QED
  BY <1>1, <1>2

-----------------------------------------------------------------------------
\* The popups on the screen are distinct, and each has its timer.
EmergenciesOK ==
    /\ emergency \in [Emergencies -> {"none", "active", "resolved"}]
    /\ alertEvents \in Seq([alert : Emergencies, state : {"active", "resolved"}])
BannerOK ==
    /\ initial \subseteq Emergencies /\ liveAlerts \subseteq Emergencies
    /\ initialFetch \in [st : {"asked", "read", "idle"}, active : SUBSET Emergencies]
StackOK ==
    /\ nextToast \in Nat \ {0} /\ toasts \in Seq(Nat)
    /\ \A i, j \in 1..Len(toasts) : toasts[i] = toasts[j] => i = j
    /\ ToSet(toasts) \subseteq timers /\ timers \subseteq 1..(nextToast - 1)

OverlayInv == EmergenciesOK /\ BannerOK /\ StackOK

LEMMA OverlayStart == OverlayInit => OverlayInv
<1> SUFFICES ASSUME OverlayInit PROVE OverlayInv
  OBVIOUS
<1>1. EmergenciesOK /\ BannerOK
  BY DEF OverlayInit, EmergenciesOK, BannerOK
<1>2. StackOK
  BY DEF OverlayInit, StackOK, ToSet
<1>3. QED
  BY <1>1, <1>2 DEF OverlayInv

LEMMA EmergenciesStep ==
    ASSUME EmergenciesOK, [OverlayNext]_overlayVars PROVE EmergenciesOK'
<1> USE DEF EmergenciesOK
<1>1. ASSUME NEW a \in Emergencies, AlertChanges(a) PROVE EmergenciesOK'
  <2>1. emergency' \in [Emergencies -> {"none", "active", "resolved"}]
    BY <1>1 DEF AlertChanges
  <2>2. emergency'[a] \in {"active", "resolved"}
    BY <1>1 DEF AlertChanges
  <2>3. [alert |-> a, state |-> emergency'[a]] \in [alert : Emergencies, state : {"active", "resolved"}]
    BY <2>2
  <2>4. alertEvents' \in Seq([alert : Emergencies, state : {"active", "resolved"}])
    BY <1>1, <2>3, AppendProperties DEF AlertChanges
  <2>5. QED
    BY <2>1, <2>4
<1>2. CASE LinkDrops
  BY <1>2 DEF LinkDrops
<1>3. CASE StationAlert
  BY <1>3, HeadTailProperties DEF StationAlert
<1>4. CASE \/ LinkReturns \/ InitialRead \/ InitialDone \/ NotificationPops
           \/ \E a \in Emergencies : dismissEmergency(a)
           \/ \E t \in 1..MaxToasts : ToastTimerFires(t) \/ DismissClicked(t)
           \/ UNCHANGED overlayVars
  BY <1>4 DEF LinkReturns, InitialRead, InitialDone, NotificationPops, dismissEmergency,
              ToastTimerFires, DismissClicked, dismiss, overlayVars, alertVars
<1>5. QED
  BY <1>1, <1>2, <1>3, <1>4 DEF OverlayNext

LEMMA BannerStep ==
    ASSUME EmergenciesOK, BannerOK, [OverlayNext]_overlayVars PROVE BannerOK'
<1> USE DEF BannerOK
<1>1. CASE LinkReturns \/ InitialRead \/ InitialDone
  BY <1>1 DEF LinkReturns, InitialRead, InitialDone, Active
<1>2. CASE StationAlert
  <2>1. Head(alertEvents).alert \in Emergencies
    <3>1. alertEvents # <<>> /\ alertEvents \in Seq([alert : Emergencies, state : {"active", "resolved"}])
      BY <1>2 DEF StationAlert, EmergenciesOK
    <3>2. Head(alertEvents) \in [alert : Emergencies, state : {"active", "resolved"}]
      BY <3>1, HeadTailProperties
    <3>3. QED
      BY <3>2
  <2>2. QED
    BY <1>2, <2>1 DEF StationAlert
<1>3. CASE \/ LinkDrops \/ NotificationPops
           \/ \E a \in Emergencies : AlertChanges(a) \/ dismissEmergency(a)
           \/ \E t \in 1..MaxToasts : ToastTimerFires(t) \/ DismissClicked(t)
           \/ UNCHANGED overlayVars
  BY <1>3 DEF LinkDrops, AlertChanges, NotificationPops, dismissEmergency, ToastTimerFires,
              DismissClicked, dismiss, overlayVars, bannerVars
<1>4. QED
  BY <1>1, <1>2, <1>3 DEF OverlayNext

\* A new popup is pushed on the stack, which is cut at its end.
LEMMA PushKeepsStack == ASSUME StackOK, NotificationPops PROVE StackOK'
<1> DEFINE all == <<nextToast>> \o toasts
           m == IF Len(all) < MAX_VISIBLE_TOASTS THEN Len(all) ELSE MAX_VISIBLE_TOASTS
<1>1. /\ nextToast \in Nat \ {0} /\ nextToast' = nextToast + 1
      /\ timers' = timers \cup {nextToast} /\ toasts' = SubSeq(all, 1, m)
  BY DEF StackOK, NotificationPops, Visible
<1>2. /\ Len(toasts) \in Nat /\ DOMAIN toasts = 1..Len(toasts)
      /\ \A i \in 1..Len(toasts) : toasts[i] \in timers /\ toasts[i] < nextToast
  BY DEF StackOK, ToSet
<1>3. /\ all \in Seq(Nat) /\ Len(all) = 1 + Len(toasts) /\ all[1] = nextToast
      /\ \A i \in 2..(1 + Len(toasts)) : all[i] = toasts[i - 1]
  <2>1. <<nextToast>> \in Seq(Nat) /\ Len(<<nextToast>>) = 1 /\ toasts \in Seq(Nat)
    BY DEF StackOK
  <2>2. /\ all \in Seq(Nat) /\ Len(all) = 1 + Len(toasts)
        /\ \A i \in 1..(1 + Len(toasts)) : all[i] = IF i <= 1 THEN <<nextToast>>[i] ELSE toasts[i - 1]
    BY <2>1, ConcatProperties
  <2> HIDE DEF all
  <2>3. QED
    BY <1>2, <2>2
<1> HIDE DEF all
<1>4. m \in Nat /\ m <= 1 + Len(toasts)
  BY <1>2, <1>3, NoticeBounds
<1>5. /\ toasts' \in Seq(Nat) /\ Len(toasts') = m
      /\ \A i \in 1..m : toasts'[i] = all[i]
  <2>1. 1 \in Int /\ m \in Int /\ \A i \in 1..m : all[i] \in Nat
    BY <1>2, <1>3, <1>4
  <2>2. /\ SubSeq(all, 1, m) \in Seq(Nat) /\ Len(SubSeq(all, 1, m)) = IF 1 <= m THEN m - 1 + 1 ELSE 0
        /\ \A i \in 1..(m - 1 + 1) : SubSeq(all, 1, m)[i] = all[1 + i - 1]
    BY <2>1, SubSeqProperties
  <2> HIDE DEF m
  <2>3. QED
    BY <1>1, <1>4, <2>2
<1> HIDE DEF m
<1>6. ASSUME NEW i \in 1..m
      PROVE  \/ i = 1 /\ toasts'[i] = nextToast
             \/ i - 1 \in 1..Len(toasts) /\ toasts'[i] = toasts[i - 1]
  <2>1. Len(toasts) \in Nat /\ i \in Nat /\ 1 <= i /\ i <= 1 + Len(toasts)
    BY <1>2, <1>4
  <2>2. toasts'[i] = all[i]
    BY <1>5
  <2>3. CASE i = 1
    BY <1>3, <2>2, <2>3
  <2>4. CASE i # 1
    <3>1. i \in 2..(1 + Len(toasts)) /\ i - 1 \in 1..Len(toasts)
      BY <2>1, <2>4
    <3>2. QED
      BY <1>3, <2>2, <3>1
  <2>5. QED
    BY <2>3, <2>4
<1>7. DOMAIN toasts' = 1..m
  BY <1>4, <1>5
<1>8. ToSet(toasts') \subseteq timers'
  BY <1>1, <1>2, <1>6, <1>7 DEF ToSet
<1>9. ASSUME NEW i \in 1..m, NEW j \in 1..m, toasts'[i] = toasts'[j]
      PROVE  i = j
  <2>1. i \in Nat /\ j \in Nat /\ \A k \in 1..Len(toasts) : toasts[k] # nextToast
    BY <1>2, <1>4 DEF StackOK
  <2>2. CASE i = 1 \/ j = 1
    BY <1>6, <1>9, <2>1, <2>2
  <2>3. CASE i # 1 /\ j # 1
    <3>1. i - 1 \in 1..Len(toasts) /\ j - 1 \in 1..Len(toasts) /\ toasts[i - 1] = toasts[j - 1]
      BY <1>6, <1>9, <2>3
    <3>2. i - 1 = j - 1
      BY <3>1 DEF StackOK
    <3>3. QED
      BY <2>1, <3>2
  <2>4. QED
    BY <2>2, <2>3
<1>10. timers' \subseteq 1..(nextToast' - 1)
  BY <1>1 DEF StackOK
<1>11. QED
  BY <1>1, <1>5, <1>8, <1>9, <1>10 DEF StackOK

LEMMA StackStep ==
    ASSUME StackOK, [OverlayNext]_overlayVars PROVE StackOK'
<1>1. CASE NotificationPops
  BY <1>1, PushKeepsStack
<1>2. ASSUME NEW t \in 1..MaxToasts, dismiss(t) PROVE StackOK'
  <2>1. /\ toasts \in Seq(Nat) /\ \A i, j \in 1..Len(toasts) : toasts[i] = toasts[j] => i = j
    BY DEF StackOK
  <2>2. /\ toasts' \in Seq(Nat) /\ ToSet(toasts') \subseteq ToSet(toasts) \ {t}
        /\ \A i, j \in 1..Len(toasts') : toasts'[i] = toasts'[j] => i = j
    BY <1>2, <2>1, RemovedFirst DEF dismiss
  <2>3. nextToast' = nextToast /\ timers' = timers \ {t}
    BY <1>2 DEF dismiss
  <2>4. QED
    BY <2>2, <2>3 DEF StackOK
<1>3. CASE UNCHANGED toastVars
  BY <1>3 DEF toastVars, StackOK
<1>4. CASE \/ LinkDrops \/ LinkReturns \/ InitialRead \/ InitialDone \/ StationAlert
           \/ \E a \in Emergencies : AlertChanges(a) \/ dismissEmergency(a)
           \/ UNCHANGED overlayVars
  BY <1>3, <1>4 DEF LinkDrops, LinkReturns, InitialRead, InitialDone, StationAlert, AlertChanges,
                    dismissEmergency, overlayVars
<1>5. QED
  BY <1>1, <1>2, <1>4 DEF OverlayNext, ToastTimerFires, DismissClicked

LEMMA OverlayStep == OverlayInv /\ [OverlayNext]_overlayVars => OverlayInv'
  BY EmergenciesStep, BannerStep, StackStep DEF OverlayInv

LEMMA OverlayHolds == OverlayInv => OverlayTypeOK /\ ToastsWillGo
  BY DEF OverlayInv, EmergenciesOK, BannerOK, StackOK, OverlayTypeOK, ToastsWillGo

\* However many popups come, however the stack is cut and whatever is dismissed
\* first: each popup on the screen has its timer and goes away by itself.
THEOREM PopupsWillGo == OverlaySpec => [](OverlayTypeOK /\ ToastsWillGo)
  BY OverlayStart, OverlayStep, OverlayHolds, PTL DEF OverlaySpec

-----------------------------------------------------------------------------
\* The notification centre: its rows and events, its lists, its marks.
RowsOK == rows \in [Notes -> Rows]
EventsOK == events \in Seq(Events) /\ Len(events) <= MaxEvents
ListsOK ==
    /\ tab \in Tabs
    /\ list \in Lists \cup {NoList}
    /\ listCache \in [Tabs -> Lists \cup {NoList}]
    /\ fetch \in Lists \cup {NoList} \cup {NoFetch}
MarksOK ==
    /\ liveItems \in [Notes -> {"absent", "unread", "read"}]
    /\ removedIds \subseteq Notes /\ deleting \subseteq Notes
TimersOK == lost \in BOOLEAN /\ refreshTimer \in BOOLEAN

LEMMA NoticeTypesSplit == NoticeTypeOK <=> RowsOK /\ EventsOK /\ ListsOK /\ MarksOK /\ TimersOK
  BY DEF NoticeTypeOK, RowsOK, EventsOK, ListsOK, MarksOK, TimersOK

LEMMA NoticeStart == NoticeInit => NoticeTypeOK
<1> SUFFICES ASSUME NoticeInit PROVE NoticeTypeOK
  OBVIOUS
<1>1. RowsOK
  BY DEF NoticeInit, RowsOK, Rows
<1>2. EventsOK
  BY EventsAreBounded DEF NoticeInit, EventsOK
<1>3. ListsOK
  BY DEF NoticeInit, ListsOK, Tabs
<1>4. MarksOK
  BY DEF NoticeInit, MarksOK, NoLive
<1>5. TimersOK
  BY DEF NoticeInit, TimersOK
<1>6. QED
  BY <1>1, <1>2, <1>3, <1>4, <1>5, NoticeTypesSplit

\* A change of the rows, here or on another device, and its event.
RowsChange ==
    \/ \E n \in Notes : NewNotification(n) \/ MarkRead(n) \/ Delete(n)
    \/ MarkAllRead \/ DeleteAll

LEMMA RowsChangeOK == ASSUME RowsOK, EventsOK, RowsChange PROVE RowsOK' /\ EventsOK'
<1>1. ASSUME NEW kind \in {"notification", "read", "allRead", "deleted", "allDeleted"},
             NEW S \in SUBSET Notes, Emit(kind, S)
      PROVE  EventsOK'
  <2>1. [kind |-> kind, note |-> S] \in Events
    BY DEF Events
  <2>2. events \in Seq(Events) /\ Len(events) < MaxEvents
    BY <1>1 DEF Emit, EventsOK
  <2>3. events' = Append(events, [kind |-> kind, note |-> S])
    BY <1>1 DEF Emit
  <2>4. events' \in Seq(Events) /\ Len(events') = Len(events) + 1
    BY <2>1, <2>2, <2>3, AppendProperties
  <2>5. Len(events) \in Nat
    BY <2>2
  <2>6. QED
    BY <2>2, <2>4, <2>5, EventsAreBounded DEF EventsOK
<1>2. EventsOK'
  BY <1>1 DEF RowsChange, NewNotification, MarkRead, Delete, MarkAllRead, DeleteAll
<1>3. RowsOK'
  <2> USE DEF RowsOK, Rows
  <2>1. ASSUME NEW n \in Notes, NewNotification(n) \/ MarkRead(n) \/ Delete(n)
        PROVE  RowsOK'
    BY <2>1 DEF NewNotification, MarkRead, Delete
  <2>2. CASE MarkAllRead
    BY <2>2 DEF MarkAllRead
  <2>3. CASE DeleteAll
    BY <2>3 DEF DeleteAll
  <2>4. QED
    BY <2>1, <2>2, <2>3 DEF RowsChange
<1>4. QED
  BY <1>2, <1>3

\* Every step is a change of the rows, or leaves them alone and adds no event.
LEMMA RowsStep ==
    ASSUME RowsOK, EventsOK, [NoticeNext]_noticeVars PROVE RowsOK' /\ EventsOK'
<1>1. CASE RowsChange
  BY <1>1, RowsChangeOK
<1>2. CASE UNCHANGED <<rows, events>>
  BY <1>2 DEF RowsOK, EventsOK
<1>3. CASE LoseEvents
  BY <1>3, EventsAreBounded DEF LoseEvents, RowsOK, EventsOK
<1>4. CASE EventArrives
  <2>1. events # <<>> /\ events' = Tail(events) /\ rows' = rows
    BY <1>4 DEF EventArrives
  <2>2. events' \in Seq(Events) /\ Len(events') = Len(events) - 1
    BY <2>1, HeadTailProperties DEF EventsOK
  <2>3. Len(events) \in Nat
    BY DEF EventsOK
  <2>4. QED
    BY <2>1, <2>2, <2>3, EventsAreBounded DEF RowsOK, EventsOK
<1>5. RowsChange \/ UNCHANGED <<rows, events>> \/ LoseEvents \/ EventArrives
  BY DEF NoticeNext, OtherDevice, RowsChange, CenterStep, SelectTab, FetchRead, FetchDone, ListPoll,
         RefreshTimerFires, HandleRead, HandleDelete, DeleteAnswered, HandleMarkAll,
         HandleDeleteAll, noticeVars, noticeServerVars
<1>6. QED
  BY <1>1, <1>2, <1>3, <1>4, <1>5

LEMMA ListsStep ==
    ASSUME RowsOK, ListsOK, [NoticeNext]_noticeVars PROVE ListsOK'
<1> USE DEF ListsOK
<1>1. ASSUME NEW t \in Tabs, SelectTab(t) PROVE ListsOK'
  BY <1>1 DEF SelectTab, ShowList, RefreshList
<1>2. CASE FetchRead
  BY <1>2 DEF FetchRead, Lists
<1>3. CASE FetchDone
  BY <1>3 DEF FetchDone, ShowList
<1>4. CASE /\ UNCHANGED <<tab, list, listCache>>
           /\ RefreshList \/ UNCHANGED fetch
  BY <1>4 DEF RefreshList
<1>5. \/ \E t \in Tabs : SelectTab(t)
      \/ FetchRead \/ FetchDone
      \/ UNCHANGED <<tab, list, listCache>> /\ (RefreshList \/ UNCHANGED fetch)
  BY DEF NoticeNext, OtherDevice, LoseEvents, EventArrives, CenterHandles, CenterStep, ListPoll,
         RefreshTimerFires, HandleRead, HandleDelete, DeleteAnswered, HandleMarkAll,
         HandleDeleteAll, noticeVars, centerVars, listVars
<1>6. QED
  BY <1>1, <1>2, <1>3, <1>4, <1>5

LEMMA MarksStep ==
    ASSUME EventsOK, MarksOK, [NoticeNext]_noticeVars PROVE MarksOK'
<1> USE DEF MarksOK
<1>0. NoLive \in [Notes -> {"absent", "unread", "read"}]
  BY DEF NoLive
<1>1. CASE EventArrives
  <2>1. events # <<>> /\ CenterHandles(Head(events)) /\ deleting' = deleting
    BY <1>1 DEF EventArrives
  <2>2. Head(events) \in Events
    BY <2>1, HeadTailProperties DEF EventsOK
  <2>3. Head(events).note \subseteq Notes
    BY <2>2 DEF Events
  <2>4. liveItems' \in [Notes -> {"absent", "unread", "read"}]
    BY <1>0, <2>1 DEF CenterHandles
  <2>5. removedIds' \subseteq Notes
    BY <2>1, <2>3 DEF CenterHandles
  <2>6. QED
    BY <2>1, <2>4, <2>5
<1>2. ASSUME NEW n \in Notes, HandleRead(n) \/ HandleDelete(n) \/ DeleteAnswered(n)
      PROVE  MarksOK'
  BY <1>2 DEF HandleRead, HandleDelete, DeleteAnswered
<1>3. CASE HandleMarkAll \/ HandleDeleteAll
  BY <1>0, <1>3 DEF HandleMarkAll, HandleDeleteAll
<1>4. CASE (\E t \in Tabs : SelectTab(t)) \/ FetchDone
  BY <1>0, <1>4 DEF SelectTab, FetchDone, ShowList
<1>5. CASE OtherDevice \/ LoseEvents \/ FetchRead \/ ListPoll \/ RefreshTimerFires \/ UNCHANGED noticeVars
  BY <1>5 DEF OtherDevice, LoseEvents, FetchRead, ListPoll, RefreshTimerFires, noticeVars, centerVars
<1>6. QED
  BY <1>1, <1>2, <1>3, <1>4, <1>5 DEF NoticeNext, CenterStep

LEMMA TimersStep == TimersOK /\ [NoticeNext]_noticeVars => TimersOK'
  BY DEF TimersOK, NoticeNext, OtherDevice, LoseEvents, EventArrives, CenterHandles, CenterStep,
         SelectTab, FetchRead, FetchDone, ListPoll, RefreshTimerFires, HandleRead, HandleDelete,
         DeleteAnswered, HandleMarkAll, HandleDeleteAll, noticeVars, noticeServerVars, centerVars,
         listVars

LEMMA NoticeStep == NoticeTypeOK /\ [NoticeNext]_noticeVars => NoticeTypeOK'
  BY NoticeTypesSplit, RowsStep, ListsStep, MarksStep, TimersStep, PTL

\* The notification centre keeps to its types, however many notifications and
\* events there are.
THEOREM NoticesKeepToTypes == NoticeSpec => []NoticeTypeOK
  BY NoticeStart, NoticeStep, PTL DEF NoticeSpec

-----------------------------------------------------------------------------
\* While an answer is awaited its question is the last of the thread.
ChatInv ==
    /\ thread \in Seq(Says) /\ Len(thread) \in 1..(MaxThread + 1)
    /\ sent \in Seq(Says)
    /\ RepliesFollow
    /\ sending => Len(thread) <= MaxThread /\ thread[Len(thread)] = "user"
ChatFlagsOK ==
    chatOpen \in BOOLEAN /\ draft \in BOOLEAN /\ sending \in BOOLEAN /\ chatError \in BOOLEAN

LEMMA ChatStart == ChatInit => ChatInv /\ ChatFlagsOK
<1> SUFFICES ASSUME ChatInit PROVE ChatInv /\ ChatFlagsOK
  OBVIOUS
<1>1. ChatFlagsOK
  BY DEF ChatInit, ChatFlagsOK
<1>2. ChatInv
  BY ThreadBounds DEF ChatInit, ChatInv, WelcomeMessage, Says, RepliesFollow
<1>3. QED
  BY <1>1, <1>2

LEMMA ChatFlagsStep == ChatFlagsOK /\ [ChatNext]_chatVars => ChatFlagsOK'
  BY DEF ChatFlagsOK, ChatNext, ToggleChat, TypeQuestion, HandleSend, ReplyArrives, SendFails,
         LeaveChat, chatVars

LEMMA ChatStep == ChatInv /\ [ChatNext]_chatVars => ChatInv'
<1> SUFFICES ASSUME ChatInv, [ChatNext]_chatVars PROVE ChatInv'
  OBVIOUS
<1>0. Len(thread) \in Nat /\ thread \in Seq(Says) /\ sent \in Seq(Says)
  BY DEF ChatInv
<1>1. CASE HandleSend
  <2>1. /\ thread' = Append(thread, "user") /\ sent' = thread' /\ Len(thread) < MaxThread
    BY <1>1 DEF HandleSend
  <2>2. /\ thread' \in Seq(Says) /\ Len(thread') = Len(thread) + 1
        /\ \A i \in 1..Len(thread) : thread'[i] = thread[i]
        /\ thread'[Len(thread) + 1] = "user"
    BY <1>0, <2>1, AppendProperties DEF Says
  <2>3. ASSUME NEW i \in 2..Len(thread'), thread'[i] # "user"
        PROVE  thread'[i - 1] = "user"
    BY <1>0, <2>2, <2>3 DEF ChatInv, RepliesFollow
  <2>4. QED
    BY <1>0, <2>1, <2>2, <2>3, ThreadBounds DEF ChatInv, RepliesFollow
<1>2. CASE ReplyArrives
  <2>1. PICK reply \in {"assistant", "unfit"} : thread' = Append(thread, reply)
    BY <1>2 DEF ReplyArrives
  <2>2. /\ thread' \in Seq(Says) /\ Len(thread') = Len(thread) + 1
        /\ \A i \in 1..Len(thread) : thread'[i] = thread[i]
    BY <1>0, <2>1, AppendProperties DEF Says
  <2>3. sending /\ ~sending' /\ sent' = <<>>
    BY <1>2 DEF ReplyArrives
  <2>4. 1 <= Len(thread) /\ Len(thread) <= MaxThread /\ thread[Len(thread)] = "user"
    BY <2>3 DEF ChatInv
  <2>5. ASSUME NEW i \in 2..Len(thread'), thread'[i] # "user"
        PROVE  thread'[i - 1] = "user"
    <3>1. CASE i = Len(thread) + 1
      BY <1>0, <2>2, <2>4, <3>1
    <3>2. CASE i # Len(thread) + 1
      <4>1. i \in 2..Len(thread) /\ i - 1 \in 1..Len(thread) /\ i \in 1..Len(thread)
        BY <1>0, <2>2, <3>2
      <4>2. thread[i] # "user" /\ thread'[i - 1] = thread[i - 1]
        BY <2>2, <2>5, <4>1
      <4>3. QED
        BY <4>1, <4>2 DEF ChatInv, RepliesFollow
    <3>3. QED
      BY <3>1, <3>2
  <2>6. Len(thread') \in 1..(MaxThread + 1)
    BY <1>0, <2>2, <2>4, ThreadBounds
  <2>7. QED
    BY <2>2, <2>3, <2>5, <2>6 DEF ChatInv, RepliesFollow
<1>3. CASE LeaveChat
  BY <1>3, ThreadBounds DEF LeaveChat, ChatInv, WelcomeMessage, Says, RepliesFollow
<1>4. CASE SendFails
  BY <1>4 DEF SendFails, ChatInv, RepliesFollow
<1>5. CASE ToggleChat \/ TypeQuestion \/ UNCHANGED chatVars
  <2>1. UNCHANGED <<thread, sent, sending>>
    BY <1>5 DEF ToggleChat, TypeQuestion, chatVars
  <2>2. QED
    BY <2>1 DEF ChatInv, RepliesFollow
<1>6. QED
  BY <1>1, <1>2, <1>3, <1>4, <1>5 DEF ChatNext

LEMMA ChatHolds == ChatInv /\ ChatFlagsOK => ChatTypeOK /\ RepliesFollow
  BY DEF ChatInv, ChatFlagsOK, ChatTypeOK

\* Whatever is opened, closed or typed meanwhile and whichever answers fail:
\* a reply stands directly under its question, in a thread of any length.
THEOREM RepliesStandUnderQuestions == ChatSpec => [](ChatTypeOK /\ RepliesFollow)
  BY ChatStart, ChatStep, ChatFlagsStep, ChatHolds, PTL DEF ChatSpec
=============================================================================
