----------------------------- MODULE AuthForms -----------------------------
(***************************************************************************)
(* The forms in front of the dashboard: log-in with its two methods,       *)
(* sign-up, forgotten and new password.                                    *)
(*                                                                         *)
(* One of them is open at a time (formPage) and form is its state; leaving *)
(* it forgets that state, while a call it made still reaches Supabase.     *)
(* busy, googleBusy, otpSent and phone are the source's variables, call    *)
(* and google are the calls under way, and notice what the form tells.     *)
(* A phone number is a person's number in one of three spellings, the      *)
(* ones normalizePhone distinguishes.                                      *)
(***************************************************************************)
EXTENDS Naturals

CONSTANTS Numbers, NoNumber

VARIABLES
    formPage, form,
    resetTimer,     \* the 900 ms between a new password and the log-in page
    coded           \* Supabase: the numbers it sent a sign-in code to

formsVars == <<formPage, form, resetTimer, coded>>

FormPages == {"login", "signup", "forgot-password", "reset-password"}
Spellings == {"local", "plus", "short"}     \* 10 digits, with "+", too few
Phones == [of : Numbers, as : Spellings]
NoPhone == [of |-> NoNumber, as |-> "short"]

\* What is sent is NoPhone for every call that carries no number.
FormCalls == {"none", "email", "send", "verify", "signUp", "sendLink", "update"}
EmptyForm ==
    [method |-> "email", phone |-> NoPhone, otpSent |-> FALSE, busy |-> FALSE,
     call |-> "none", sent |-> NoPhone, googleBusy |-> FALSE, google |-> FALSE,
     notice |-> "none"]

FormsTypeOK ==
    /\ formPage \in FormPages
    /\ form \in [method : {"email", "phone"}, phone : Phones \cup {NoPhone},
                 otpSent : BOOLEAN, busy : BOOLEAN,
                 call : FormCalls, sent : Phones \cup {NoPhone},
                 googleBusy : BOOLEAN, google : BOOLEAN,
                 notice : {"none", "error", "done"}]
    /\ resetTimer \in BOOLEAN
    /\ coded \subseteq Numbers

FormsInit ==
    /\ formPage = "login" /\ form = EmptyForm
    /\ resetTimer = FALSE /\ coded = {}

-----------------------------------------------------------------------------
\* E.164 where the number can be told, the text as typed otherwise.
NormalizePhone(p) == IF p.as = "local" THEN [p EXCEPT !.as = "plus"] ELSE p

\* setBusy(true), then the request.
Calling(call, sent) ==
    form' = [form EXCEPT !.busy = TRUE, !.notice = "none", !.call = call, !.sent = sent]

\* The form has answered: with an error, ...
Answered(f) == [f EXCEPT !.busy = FALSE, !.call = "none", !.sent = NoPhone]
CallFailed ==
    /\ form.call # "none"
    /\ form' = [Answered(form) EXCEPT !.notice = "error"]
    /\ UNCHANGED <<formPage, resetTimer, coded>>

\* Every link and redirect opens another page with its own, empty form.  A code
\* that was being sent may still go out.
OpenForm(p) ==
    /\ p # formPage
    /\ formPage' = p /\ form' = EmptyForm
    /\ coded' \in {coded, coded \cup ({form.sent.of} \cap Numbers)}
    /\ UNCHANGED resetTimer

\* What the pages link to.
Links(p) ==
    CASE p = "login" -> {"signup", "forgot-password"}
      [] p = "signup" -> {"login"}
      [] p = "forgot-password" -> {"login"}
      [] OTHER -> {"login"}

-----------------------------------------------------------------------------
\* The log-in page.  Its tabs stay usable while a call is under way.
SwitchMethod(next) ==
    /\ formPage = "login"
    /\ form' = [form EXCEPT !.method = next, !.notice = "none", !.otpSent = FALSE]
    /\ UNCHANGED <<formPage, resetTimer, coded>>

\* What the page offers.  A number can be typed until a code has been sent, also
\* while it is sent.
EmailIsOpen == formPage = "login" /\ form.method = "email"
PhoneIsOpen == formPage = "login" /\ form.method = "phone" /\ ~form.otpSent
CodeIsOpen == formPage = "login" /\ form.method = "phone" /\ form.otpSent

TypePhone(p) ==
    /\ PhoneIsOpen
    /\ form' = [form EXCEPT !.phone = p]
    /\ UNCHANGED <<formPage, resetTimer, coded>>

\* "Use a different number"
ForgetNumber ==
    /\ CodeIsOpen
    /\ form' = [form EXCEPT !.otpSent = FALSE, !.notice = "none"]
    /\ UNCHANGED <<formPage, resetTimer, coded>>

HandleEmailLogin ==
    /\ EmailIsOpen /\ ~form.busy
    /\ Calling("email", NoPhone)
    /\ UNCHANGED <<formPage, resetTimer, coded>>

HandleSendOtp ==
    /\ PhoneIsOpen /\ ~form.busy /\ form.phone # NoPhone
    /\ Calling("send", NormalizePhone(form.phone))
    /\ UNCHANGED <<formPage, resetTimer, coded>>

\* Mutant of OtpSent: the field keeps what was typed in the meantime.
OtpSentFieldKept ==
    /\ form.call = "send" /\ form.sent.as = "plus"
    /\ coded' = coded \cup {form.sent.of}
    /\ form' = [Answered(form) EXCEPT !.otpSent = TRUE]
    /\ UNCHANGED <<formPage, resetTimer>>

\* The code has gone out; the field is set to the number it went to.
OtpSent ==
    /\ form.call = "send" /\ form.sent.as = "plus"
    /\ coded' = coded \cup {form.sent.of}
    /\ form' = [Answered(form) EXCEPT !.phone = form.sent, !.otpSent = TRUE]
    /\ UNCHANGED <<formPage, resetTimer>>

HandleVerifyOtp ==
    /\ CodeIsOpen /\ ~form.busy
    /\ Calling("verify", NormalizePhone(form.phone))
    /\ UNCHANGED <<formPage, resetTimer, coded>>

\* Signed in, with the role that was picked: the form makes way.  (The session
\* and the role check are in Session.)
LoggedIn ==
    /\ form.call \in {"email", "verify"}
    /\ formPage' = "login" /\ form' = EmptyForm
    /\ UNCHANGED <<resetTimer, coded>>

-----------------------------------------------------------------------------
\* Google sign-in, from log-in or sign-up: it leaves the site or fails.
HandleGoogle ==
    /\ formPage \in {"login", "signup"} /\ ~form.googleBusy
    /\ form' = [form EXCEPT !.googleBusy = TRUE, !.google = TRUE, !.notice = "none"]
    /\ UNCHANGED <<formPage, resetTimer, coded>>

GoogleFailed ==
    /\ form.google
    /\ form' = [form EXCEPT !.googleBusy = FALSE, !.google = FALSE, !.notice = "error"]
    /\ UNCHANGED <<formPage, resetTimer, coded>>

\* The callback may come back with ?error=, which the page shows.
GoogleLeaves ==
    /\ form.google
    /\ formPage' = "login"
    /\ form' \in {[EmptyForm EXCEPT !.notice = n] : n \in {"none", "error"}}
    /\ resetTimer' = FALSE
    /\ UNCHANGED coded

\* The other pages: a form each, whose button is off while it calls.
SignupIsOpen == formPage = "signup" /\ ~form.busy
ResetIsOpen == formPage = "reset-password" /\ ~form.busy

\* Sign-up and new password compare the two passwords before they call.
Mismatch ==
    /\ SignupIsOpen \/ ResetIsOpen
    /\ form' = [form EXCEPT !.notice = "error"]
    /\ UNCHANGED <<formPage, resetTimer, coded>>

HandleSignup ==
    /\ SignupIsOpen
    /\ Calling("signUp", NoPhone)
    /\ UNCHANGED <<formPage, resetTimer, coded>>

HandleReset ==
    /\ ResetIsOpen
    /\ Calling("update", NoPhone)
    /\ UNCHANGED <<formPage, resetTimer, coded>>

SendResetLink ==
    /\ formPage = "forgot-password" /\ ~form.busy
    /\ Calling("sendLink", NoPhone)
    /\ UNCHANGED <<formPage, resetTimer, coded>>

\* The account is requested, the password changed or the link sent.
CallDone ==
    /\ form.call \in {"signUp", "update", "sendLink"}
    /\ form' = [Answered(form) EXCEPT !.notice = "done"]
    /\ resetTimer' = (resetTimer \/ form.call = "update")
    /\ UNCHANGED <<formPage, coded>>

\* A changed password leads to the log-in page.  Nobody clears that timer: it
\* fires on whatever page is open by then.
RedirectAfterReset ==
    /\ resetTimer /\ resetTimer' = FALSE
    /\ formPage' = "login"
    /\ form' = IF formPage = "login" THEN form ELSE EmptyForm
    /\ coded' = coded

FormsNext ==
    \/ \E p \in Links(formPage) : OpenForm(p)
    \/ formPage = "forgot-password" /\ OpenForm("reset-password")   \* the mail's link
    \/ \E next \in {"email", "phone"} : SwitchMethod(next)
    \/ \E p \in Phones : TypePhone(p)
    \/ ForgetNumber \/ HandleEmailLogin \/ HandleSendOtp \/ OtpSent \/ HandleVerifyOtp
    \/ LoggedIn \/ HandleGoogle \/ GoogleFailed \/ GoogleLeaves
    \/ Mismatch \/ HandleSignup \/ HandleReset \/ SendResetLink
    \/ CallDone \/ CallFailed \/ RedirectAfterReset

FormsSpec == FormsInit /\ [][FormsNext]_formsVars

-----------------------------------------------------------------------------
\* A code is checked against the number it was sent to, although the field can
\* be edited, and the method switched to and fro, while it is being sent.
CodeGoesWithNumber ==
    (form.otpSent => form.phone.of \in coded) /\ (form.call = "verify" => form.sent.of \in coded)

\* No form stays locked, and none can be submitted twice: the button is off
\* exactly while a call is under way, whatever was clicked meanwhile.
FormsUnlock ==
    /\ form.busy <=> form.call # "none"
    /\ form.googleBusy <=> form.google
=============================================================================
