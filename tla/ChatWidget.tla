------------------------------ MODULE ChatWidget ------------------------------
(***************************************************************************)
(* The chat in the corner of every page of the dashboard.  The thread is   *)
(* kept in the widget and sent as a whole with each question.  A question  *)
(* that was not answered stays in it.                                      *)
(*                                                                         *)
(* "unfit" is a reply the chatbot would not take back as part of a thread: *)
(* an empty one, or one of more than 4000 characters.                      *)
(***************************************************************************)
EXTENDS Naturals, Sequences

CONSTANTS
    ThreadLimit,    \* the longest thread the chatbot takes: 40 in the code
    MaxThread       \* bound: messages in a thread

ASSUME ThreadBounds == ThreadLimit \in Nat \ {0} /\ MaxThread \in Nat

VARIABLES chatOpen, draft, thread, sending, chatError, sent

chatVars == <<chatOpen, draft, thread, sending, chatError, sent>>

Says == {"user", "assistant", "unfit"}
WelcomeMessage == <<"assistant">>

ChatTypeOK ==
    /\ chatOpen \in BOOLEAN /\ draft \in BOOLEAN /\ sending \in BOOLEAN /\ chatError \in BOOLEAN
    /\ thread \in Seq(Says) /\ Len(thread) \in 1..(MaxThread + 1)
    /\ sent \in Seq(Says)

ChatInit ==
    /\ chatOpen = FALSE /\ draft = FALSE /\ thread = WelcomeMessage
    /\ sending = FALSE /\ chatError = FALSE /\ sent = <<>>

ToggleChat ==
    /\ chatOpen' = ~chatOpen
    /\ UNCHANGED <<draft, thread, sending, chatError, sent>>

TypeQuestion ==
    /\ chatOpen /\ draft' = ~draft
    /\ UNCHANGED <<chatOpen, thread, sending, chatError, sent>>

\* Enter or the button; one question at a time, also while the chat is closed
\* and opened again.
HandleSend ==
    /\ chatOpen /\ draft /\ ~sending
    /\ Len(thread) < MaxThread
    /\ thread' = Append(thread, "user") /\ sent' = thread'
    /\ draft' = FALSE /\ sending' = TRUE /\ chatError' = FALSE
    /\ UNCHANGED chatOpen

Taken(messages) ==
    /\ Len(messages) <= ThreadLimit
    /\ \A i \in DOMAIN messages : messages[i] # "unfit"

ReplyArrives ==
    /\ sending /\ Taken(sent)
    /\ \E reply \in {"assistant", "unfit"} : thread' = Append(thread, reply)
    /\ sending' = FALSE /\ sent' = <<>>
    /\ UNCHANGED <<chatOpen, draft, chatError>>

SendFails ==
    /\ sending /\ sending' = FALSE /\ sent' = <<>> /\ chatError' = TRUE
    /\ UNCHANGED <<chatOpen, draft, thread>>

\* Mutant of LeaveChat: the welcome is forgotten too.
LeaveChatEmpty ==
    /\ chatOpen' = FALSE /\ draft' = FALSE /\ thread' = <<>>
    /\ sending' = FALSE /\ chatError' = FALSE /\ sent' = <<>>

\* The dashboard is left: whatever was said is forgotten.
LeaveChat ==
    /\ chatOpen' = FALSE /\ draft' = FALSE /\ thread' = WelcomeMessage
    /\ sending' = FALSE /\ chatError' = FALSE /\ sent' = <<>>

ChatNext ==
    \/ ToggleChat \/ TypeQuestion \/ HandleSend
    \/ ReplyArrives \/ SendFails \/ LeaveChat

ChatSpec == ChatInit /\ [][ChatNext]_chatVars

-----------------------------------------------------------------------------
\* Every reply stands directly under the question it answers, although the
\* chat can be closed, opened and typed in while the answer is awaited.
RepliesFollow ==
    /\ \A i \in 2..Len(thread) : thread[i] # "user" => thread[i - 1] = "user"
    /\ sending => sent = thread
=============================================================================
