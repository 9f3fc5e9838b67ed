---------------------------- MODULE ProfileDetails ----------------------------
(***************************************************************************)
(* The profile page (ProfilePage.tsx) and the card on it that links a      *)
(* phone number for signing in (PhoneVerification.tsx).                    *)
(*                                                                         *)
(* A profile is kept in two places: user_profiles holds the name and the   *)
(* phone, the authentication service the e-mail and the linked number.     *)
(* The name goes the way of the phone and is left out.  Both services are  *)
(* external; one device is signed in.                                      *)
(***************************************************************************)
CONSTANTS Mobiles, NoMobile, Mails

ASSUME NoMobileIsNone == NoMobile \notin Mobiles

VARIABLES
    row, mail,                          \* stored phone, confirmed e-mail
    authPhone, pendingPhone,            \* linked number, the one a code went to
    loadedProfile, profileForm, savedProfile, isEditing, saving,
    status, linkedPhone, linkPhone, otpSent, linkCall, syncing

serverVars == <<row, mail, authPhone, pendingPhone>>
formVars == <<loadedProfile, profileForm, savedProfile, isEditing, saving>>
linkVars == <<status, linkedPhone, linkPhone, otpSent, linkCall, syncing>>
profileVars == <<serverVars, formVars, linkVars>>

AnyPhone == Mobiles \cup {NoMobile}
Details == [phone : AnyPhone, mail : Mails]
NoSave == [step |-> "none"]
NoLink == [kind |-> "none", number |-> NoMobile]
SaveSteps == [step : {"row", "mail", "refresh"}, values : Details, newMail : BOOLEAN]

ProfileInit ==
    /\ row \in AnyPhone /\ mail \in Mails
    /\ authPhone \in AnyPhone /\ pendingPhone = NoMobile
    /\ loadedProfile = FALSE
    /\ profileForm = [phone |-> NoMobile, mail |-> mail] /\ savedProfile = profileForm
    /\ isEditing = FALSE /\ saving = NoSave
    /\ status = "checking" /\ linkedPhone = NoMobile /\ linkPhone = NoMobile
    /\ otpSent = FALSE /\ linkCall = NoLink /\ syncing = NoMobile

-----------------------------------------------------------------------------
\* The effect on [profile]: whatever is in the form is replaced, also while it
\* is being edited.  AuthProvider loads the profile when it mounts, on refresh()
\* and on every event of the session.
ServerDetails == [phone |-> row, mail |-> mail]

\* PhoneVerification takes savedProfile.phone over while its own field is blank.
AdoptPhone(p) == linkPhone' = IF linkPhone = NoMobile THEN p ELSE linkPhone

ProfileArrives ==
    /\ loadedProfile' = TRUE
    /\ profileForm' = ServerDetails /\ savedProfile' = ServerDetails
    /\ AdoptPhone(row)
    /\ UNCHANGED <<serverVars, isEditing, saving, status, linkedPhone, otpSent, linkCall, syncing>>

StartEdit ==
    /\ loadedProfile /\ isEditing' = TRUE
    /\ UNCHANGED <<serverVars, loadedProfile, profileForm, savedProfile, saving, linkVars>>

Edit(d) ==
    /\ loadedProfile /\ isEditing
    /\ profileForm' = d
    /\ UNCHANGED <<serverVars, loadedProfile, savedProfile, isEditing, saving, linkVars>>

cancelEdit ==
    /\ isEditing
    /\ profileForm' = savedProfile /\ isEditing' = FALSE
    /\ UNCHANGED <<serverVars, loadedProfile, savedProfile, saving, linkVars>>

\* saveProfile works on the values it was called with: the row first, then the
\* e-mail if it is not the saved one, then a refresh.
saveProfile ==
    /\ loadedProfile /\ isEditing /\ saving = NoSave
    /\ saving' = [step |-> "row", values |-> profileForm, newMail |-> profileForm.mail # savedProfile.mail]
    /\ UNCHANGED <<serverVars, loadedProfile, profileForm, savedProfile, isEditing, linkVars>>

SaveRow ==
    /\ saving.step = "row"
    /\ row' = saving.values.phone
    /\ saving' = [saving EXCEPT !.step = IF saving.newMail THEN "mail" ELSE "refresh"]
    /\ UNCHANGED <<mail, authPhone, pendingPhone, loadedProfile, profileForm, savedProfile, isEditing, linkVars>>

\* The service sends a letter; the address changes when it is confirmed.
SaveMail ==
    /\ saving.step = "mail"
    /\ saving' = [saving EXCEPT !.step = "refresh"]
    /\ UNCHANGED <<serverVars, loadedProfile, profileForm, savedProfile, isEditing, linkVars>>

MailConfirmed ==
    /\ mail' \in Mails \ {mail}
    /\ UNCHANGED <<row, authPhone, pendingPhone, formVars, linkVars>>

SaveFails ==
    /\ saving.step \in {"row", "mail"}
    /\ saving' = NoSave
    /\ UNCHANGED <<serverVars, loadedProfile, profileForm, savedProfile, isEditing, linkVars>>

\* The refresh sets the form by the effect, unless it failed; the continuation
\* then sets savedProfile to what was typed.
SaveDone ==
    /\ saving.step = "refresh"
    /\ profileForm' \in {ServerDetails, profileForm}
    /\ savedProfile' = saving.values
    /\ AdoptPhone(saving.values.phone)
    /\ isEditing' = FALSE /\ saving' = NoSave
    /\ UNCHANGED <<serverVars, loadedProfile, status, linkedPhone, otpSent, linkCall, syncing>>

-----------------------------------------------------------------------------
\* PhoneVerification.  loadStatus runs once, when the card mounts.
loadStatus ==
    /\ status = "checking"
    /\ IF authPhone # NoMobile
       THEN status' = "verified" /\ linkedPhone' = authPhone
       ELSE status' = "unverified" /\ UNCHANGED linkedPhone
    /\ UNCHANGED <<serverVars, formVars, linkPhone, otpSent, linkCall, syncing>>

\* Mutant of LinkFieldOpen: the number can be edited after the code was sent.
LinkFieldOpenAlways == status # "checking" /\ linkCall = NoLink

LinkFieldOpen == status # "checking" /\ ~otpSent /\ linkCall = NoLink

TypeLinkPhone(p) ==
    /\ LinkFieldOpen
    /\ linkPhone' = p
    /\ UNCHANGED <<serverVars, formVars, status, linkedPhone, otpSent, linkCall, syncing>>

\* updateUser({phone}) sends a code to the number.  Nothing takes otpSent back
\* but a code that is accepted: there is no way to ask for another one.
sendCode ==
    /\ LinkFieldOpen /\ linkPhone # NoMobile
    /\ linkCall' = [kind |-> "send", number |-> linkPhone]
    /\ UNCHANGED <<serverVars, formVars, status, linkedPhone, linkPhone, otpSent, syncing>>

CodeSent ==
    /\ linkCall.kind = "send" /\ linkCall' = NoLink
    /\ pendingPhone' = linkCall.number /\ linkPhone' = linkCall.number
    /\ otpSent' = TRUE
    /\ UNCHANGED <<row, mail, authPhone, formVars, status, linkedPhone, syncing>>

verifyCode ==
    /\ otpSent /\ linkCall = NoLink
    /\ linkCall' = [kind |-> "verify", number |-> linkPhone]
    /\ UNCHANGED <<serverVars, formVars, status, linkedPhone, linkPhone, otpSent, syncing>>

LinkFails ==
    /\ linkCall # NoLink /\ linkCall' = NoLink
    /\ UNCHANGED <<serverVars, formVars, status, linkedPhone, linkPhone, otpSent, syncing>>

\* The right code for the number it was sent to; onVerified starts the sync.
Verified ==
    /\ linkCall.kind = "verify" /\ pendingPhone = linkCall.number
    /\ authPhone' = linkCall.number
    /\ status' = "verified" /\ linkedPhone' = linkCall.number
    /\ otpSent' = FALSE /\ linkCall' = NoLink
    /\ syncing' = linkCall.number
    /\ UNCHANGED <<row, mail, pendingPhone, formVars, linkPhone>>

\* handlePhoneVerified: the row, then the form.  Its refresh is ProfileArrives.
PhoneSynced ==
    /\ syncing # NoMobile
    /\ row' = syncing /\ syncing' = NoMobile
    /\ profileForm' = [profileForm EXCEPT !.phone = syncing]
    /\ savedProfile' = [savedProfile EXCEPT !.phone = syncing]
    /\ UNCHANGED <<mail, authPhone, pendingPhone, loadedProfile, isEditing, saving,
                   status, linkedPhone, linkPhone, otpSent, linkCall>>

SyncFails ==
    /\ syncing # NoMobile /\ syncing' = NoMobile
    /\ UNCHANGED <<serverVars, formVars, status, linkedPhone, linkPhone, otpSent, linkCall>>

ProfileNext ==
    \/ ProfileArrives \/ StartEdit \/ cancelEdit
    \/ \E d \in Details : Edit(d)
    \/ saveProfile \/ SaveRow \/ SaveMail \/ SaveFails \/ SaveDone \/ MailConfirmed
    \/ loadStatus \/ sendCode \/ CodeSent \/ verifyCode \/ LinkFails \/ Verified
    \/ \E p \in AnyPhone : TypeLinkPhone(p)
    \/ PhoneSynced \/ SyncFails

ProfileSpec == ProfileInit /\ [][ProfileNext]_profileVars

-----------------------------------------------------------------------------
ProfileTypeOK ==
    /\ row \in AnyPhone /\ mail \in Mails
    /\ authPhone \in AnyPhone /\ pendingPhone \in AnyPhone
    /\ loadedProfile \in BOOLEAN /\ profileForm \in Details /\ savedProfile \in Details
    /\ isEditing \in BOOLEAN /\ saving \in SaveSteps \cup {NoSave}
    /\ status \in {"checking", "verified", "unverified"}
    /\ linkedPhone \in AnyPhone /\ linkPhone \in AnyPhone
    /\ otpSent \in BOOLEAN /\ linkCall \in [kind : {"none", "send", "verify"}, number : AnyPhone]
    /\ syncing \in AnyPhone

\* The number the card asks a code for is the one the code went to, whatever
\* profile arrives and whatever is typed in between; and the number it shows
\* as linked is the one the service has linked.
LinksConfirmedNumber ==
    /\ otpSent => linkPhone = pendingPhone
    /\ status = "verified" => linkedPhone = authPhone
=============================================================================
