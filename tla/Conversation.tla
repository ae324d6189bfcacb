----------------------------- MODULE Conversation -----------------------------
(***************************************************************************)
(* What the bot promises one chat: questions are asked in one order, each  *)
(* answer leads to the next question, and a profile is registered only at  *)
(* the end, when everything the API needs has been answered.  Module Bot   *)
(* implements it, with its crashes, redeliveries, failures and expiry.     *)
(***************************************************************************)
EXTENDS ConversationSteps

VARIABLES
    step,        \* the question the chat is at
    given,       \* the fields the chat has answered
    registered   \* the profiles registered for the chat

vars == <<step, given, registered>>

\* The order of the questions, and the field each one fills.
NextStep == [ASK_LANGUAGE |-> "ASK_LOCATION", ASK_LOCATION |-> "ASK_NAME",
             ASK_NAME     |-> "ASK_DATE",     ASK_DATE     |-> "ASK_TIME",
             ASK_TIME     |-> "ASK_CONTEXT",  ASK_CONTEXT  |-> "ASK_DURATION",
             ASK_DURATION |-> "CONFIRM"]
Asked == [ASK_LANGUAGE |-> "language",   ASK_LOCATION |-> "location",
          ASK_NAME     |-> "name",       ASK_DATE     |-> "event_date",
          ASK_TIME     |-> "event_datetime", ASK_CONTEXT |-> "context",
          ASK_DURATION |-> "duration_hours"]

\* A chat may be anywhere in a conversation that an earlier process began.
Init ==
    /\ step \in Steps
    /\ given \in SUBSET Fields
    /\ registered = {}

Begin ==
    /\ step = "IDLE"
    /\ step' = "ASK_LANGUAGE"
    /\ given' = {}
    /\ UNCHANGED registered

\* The chat answers.  Its earlier answers are kept, unless they expired.
Answer ==
    /\ step \in Questions
    /\ step' = NextStep[step]
    /\ given' \in {given \union {Asked[step]}, {Asked[step]}}
    /\ UNCHANGED registered

\* The conversation is over: registered, cancelled or expired.
End ==
    /\ step' = "IDLE"
    /\ given' = {}
    /\ UNCHANGED registered

\* It goes on until the registration is known to have succeeded.
Register ==
    /\ step = "CONFIRM"
    /\ Required \subseteq given
    /\ \E profile \in registered' \ registered : registered' = registered \union {profile}
    /\ UNCHANGED <<step, given>>

Next == Begin \/ Answer \/ End \/ Register

Spec == Init /\ [][Next]_vars
=============================================================================
