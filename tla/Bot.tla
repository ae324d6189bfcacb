--------------------------------- MODULE Bot ---------------------------------
(***************************************************************************)
(* The Telegram bot: the polling loop of skygent/bot.py and the handlers   *)
(* of skygent/integrations/telegram_bot.py, with Telegram's queue of       *)
(* updates and the API as its environment.                                 *)
(*                                                                         *)
(* The loop is one thread.  A step is a call of getUpdates, a transaction  *)
(* on the conversation's row, or a POST; a handler's loading and saving of *)
(* the row is one step, since no one else writes it.  What can come        *)
(* between two steps is time, a crash, and more updates.  A message sent   *)
(* as the last act of a handler changes nothing, sent or not, and is left  *)
(* out; a message whose failure cuts the handler short is a Raise.         *)
(***************************************************************************)
EXTENDS Integers, Sequences, ConversationSteps

CONSTANTS
    Chats,        \* chats that have seen every keyboard in earlier conversations
    EarlierRows,  \* the rows an earlier process may have left
    Inputs,       \* what users send in this instance
    FaultKinds,   \* the faults that may occur in this instance
    MaxUpdates,   \* bound: updates users send
    MaxFaults,    \* bound: faults
    NoProfile

\* Buttons stay on the screen: any of them can be pressed at any time.
Buttons  == {"language", "context", "duration", "confirm_yes", "confirm_no"}
\* "sticker" is any message without text or location; "edit" is no message.
Messages == {"/start", "/cancel", "/forecast", "text", "location", "sticker", "edit"}

\* "foreign": what a button of another question wrote into the field.
Data  == [Fields -> {"missing", "given", "foreign"}]
Empty == [f \in Fields |-> "missing"]

\* ConversationStateRow.  A row's step may be one this version does not know.
\* The talk tells conversations apart (it is not a column).
Row   == [step : Steps \union {"OUTDATED"}, data : Data, talk : Nat]
NoRow == [step |-> "IDLE", data |-> Empty, talk |-> 0]

Update  == [chat : Chats, input : Buttons \union Messages]
Profile == [id : Nat, chat : Chats, talk : Nat, by : Buttons]

ASSUME BotAssumption ==
    /\ EarlierRows \subseteq {r \in Row : r.talk = 0}
    /\ Inputs \subseteq Buttons \union Messages
    /\ MaxUpdates \in Nat
    /\ MaxFaults \in Nat
    /\ NoProfile \notin Profile

VARIABLES
    \* Telegram.
    updates,    \* all updates sent; the index is the update_id
    acked,      \* updates up to this one are confirmed and not delivered again
    \* The polling loop.
    offset,     \* of the next getUpdates; 0 is None
    next, last, \* the update being dispatched and the last one of its batch
    pc,         \* what the loop is at
    step,       \* what dispatch read from the row
    data,       \* what handle_confirm read from the row
    reg,        \* the profile that handle_confirm has registered
    \* The database.
    conv,       \* ConversationStateRow; NoRow where there is none
    stale,      \* chats whose row is older than CONVERSATION_EXPIRY_HOURS
    made,       \* how many profiles the API has created for the bot
    profiles,   \* these profiles
    routed,     \* those with telegram_chat_id patched
    \* History.
    talks,      \* conversations so far
    done,       \* updates up to this one have been dispatched
    forgotten,  \* profiles whose registration the bot did not get to record
    unpatched,  \* profiles whose patch was given up
    restarts,   \* crashes so far
    faults      \* faults so far, crashes included

telegram == <<updates, acked>>
loop     == <<offset, next, last, pc, step, data, reg>>
rows     == <<conv, stale, talks>>
created  == <<made, profiles, routed, forgotten, unpatched>>
history  == <<done, restarts, faults>>
vars     == <<telegram, loop, rows, created, history>>

Fault(kind) == /\ kind \in FaultKinds
               /\ faults < MaxFaults
               /\ faults' = faults + 1

Init ==
    /\ updates = <<>> /\ acked = 0
    /\ offset = 0 /\ next = 0 /\ last = 0 /\ pc = "polling"
    /\ step = "IDLE" /\ data = Empty /\ reg = NoProfile
    /\ conv \in [Chats -> EarlierRows]
    /\ stale = {} /\ talks = 0
    /\ made = 0 /\ profiles = {} /\ routed = {} /\ forgotten = {} /\ unpatched = {}
    /\ done = 0 /\ restarts = 0 /\ faults = 0

-----------------------------------------------------------------------------
\* The row of a chat.

\* _load_state finds no row, or one that it clears: expired, or unknown.
Gone(c) == c \in stale \/ conv[c].step \notin Steps \ {"IDLE"}

\* What _load_state returns, and what it leaves in the table.
Loaded(c) == IF Gone(c) THEN NoRow ELSE conv[c]
Load(c)   == /\ conv' = [conv EXCEPT ![c] = Loaded(c)]
             /\ stale' = stale \ {c}
             /\ talks' = talks

\* _save_state.  A row made from nothing begins a conversation.
Save(c, s, d) ==
    LET talk == IF Gone(c) THEN talks + 1 ELSE conv[c].talk
    IN  /\ conv' = [conv EXCEPT ![c] = [step |-> s, data |-> d, talk |-> talk]]
        /\ stale' = stale \ {c}
        /\ talks' = IF Gone(c) THEN talks + 1 ELSE talks

\* _clear_state.
Clear(c) == /\ conv' = [conv EXCEPT ![c] = NoRow]
            /\ stale' = stale \ {c}
            /\ talks' = talks

-----------------------------------------------------------------------------
\* The loop.

Chat  == updates[next].chat
Input == updates[next].input

\* Mutation of Finish: the offset is that of the update, not the next one.
FinishOffByOne ==
    /\ offset' = next
    /\ done' = IF next > done THEN next ELSE done
    /\ IF next < last
         THEN next' = next + 1 /\ last' = last /\ pc' = "routing"
         ELSE next' = 0 /\ last' = 0 /\ pc' = "polling"
    /\ step' = "IDLE" /\ data' = Empty /\ reg' = NoProfile

\* dispatch returned or raised: advance the offset, go on with the batch.
Finish ==
    /\ offset' = next + 1
    /\ done' = IF next > done THEN next ELSE done
    /\ IF next < last
         THEN next' = next + 1 /\ last' = last /\ pc' = "routing"
         ELSE next' = 0 /\ last' = 0 /\ pc' = "polling"
    /\ step' = "IDLE" /\ data' = Empty /\ reg' = NoProfile

\* The first update getUpdates asks for; it confirms all earlier ones.
First == IF offset = 0 THEN acked + 1 ELSE offset

\* Mutation of GetUpdates: what is returned is confirmed at once.
GetUpdatesAcksBatch ==
    /\ pc = "polling"
    /\ acked' = Len(updates)
    /\ IF First <= Len(updates)
         THEN next' = First /\ last' = Len(updates) /\ pc' = "routing"
         ELSE UNCHANGED <<next, last, pc>>
    /\ UNCHANGED <<updates, offset, step, data, reg, rows, created, history>>

GetUpdates ==
    /\ pc = "polling"
    /\ acked' = First - 1
    /\ IF First <= Len(updates)
         THEN next' = First /\ last' = Len(updates) /\ pc' = "routing"
         ELSE UNCHANGED <<next, last, pc>>
    /\ UNCHANGED <<updates, offset, step, data, reg, rows, created, history>>

\* An error is an empty batch, whether or not Telegram took note of the offset.
GetUpdatesFails ==
    /\ pc = "polling"
    /\ Fault("poll")
    /\ acked' \in {acked, First - 1}
    /\ UNCHANGED <<updates, loop, rows, created, done, restarts>>

-----------------------------------------------------------------------------
\* dispatch: commands, and the handler of the step the row is at.

ButtonSteps  == {"ASK_LANGUAGE", "ASK_CONTEXT", "ASK_DURATION", "CONFIRM"}
HasHandler(input, s) == IF input \in Buttons THEN s \in ButtonSteps
                        ELSE s \notin ButtonSteps

Unchanged == UNCHANGED <<telegram, created, restarts, faults>>

CancelCommand ==
    /\ pc = "routing"
    /\ Input = "/cancel"
    /\ Clear(Chat)
    /\ Finish
    /\ Unchanged

\* /start goes on as a message to an idle chat.
StartCommand ==
    /\ pc = "routing"
    /\ Input = "/start"
    /\ Clear(Chat)
    /\ pc' = "handling"
    /\ step' = "IDLE"
    /\ UNCHANGED <<telegram, offset, next, last, data, reg, created, history>>

\* /forecast only reads; a button or a message the step is not waiting for
\* is answered with a hint, or not at all.
NoHandler ==
    /\ pc = "routing"
    /\ Input \notin {"/cancel", "/start", "edit"}
    /\ Input = "/forecast" \/ ~HasHandler(Input, Loaded(Chat).step)
    /\ Load(Chat)
    /\ Finish
    /\ Unchanged

\* An update without a message does not even load the row.
NoMessage ==
    /\ pc = "routing"
    /\ Input = "edit"
    /\ Finish
    /\ UNCHANGED rows /\ Unchanged

Route ==
    /\ pc = "routing"
    /\ Input \notin {"/cancel", "/start", "/forecast", "edit"}
    /\ HasHandler(Input, Loaded(Chat).step)
    /\ Load(Chat)
    /\ pc' = "handling"
    /\ step' = Loaded(Chat).step
    /\ UNCHANGED <<telegram, offset, next, last, data, reg, created, history>>

-----------------------------------------------------------------------------
\* The handlers of the steps before CONFIRM.  Each loads the row again: what
\* it saves is based on nothing if the row has expired since dispatch read it.

Handling(s) == pc = "handling" /\ step = s

\* The handler saves its answer and leads to step s.
Answered(field, value, s) ==
    /\ Save(Chat, s, [Loaded(Chat).data EXCEPT ![field] = value])
    /\ Finish
    /\ Unchanged

\* Mutation of Refused: an update that raised is asked for again.
RefusedRetries ==
    /\ Load(Chat)
    /\ pc' = "polling" /\ next' = 0 /\ last' = 0 /\ step' = "IDLE"
    /\ UNCHANGED <<offset, data, reg, done>>
    /\ Unchanged

\* Mutation of Refused: an update that raised is dispatched again at once.
RefusedRepeats ==
    /\ Load(Chat)
    /\ pc' = "routing" /\ step' = "IDLE"
    /\ UNCHANGED <<offset, next, last, data, reg, done>>
    /\ Unchanged

\* The handler asks again, or raises, and saves nothing.
Refused == Load(Chat) /\ Finish /\ Unchanged

\* Greet and ask for the language.  The message goes out before the row.
HandleIdle ==
    /\ Handling("IDLE")
    /\ Save(Chat, "ASK_LANGUAGE", Empty)
    /\ Finish
    /\ Unchanged

\* Any button is a language, English if in doubt; nothing is loaded.
HandleAskLanguage ==
    /\ Handling("ASK_LANGUAGE")
    /\ Save(Chat, "ASK_LOCATION", [Empty EXCEPT !["language"] = "given"])
    /\ Finish
    /\ Unchanged

HandleAskLocation ==
    /\ Handling("ASK_LOCATION")
    /\ IF Input = "location" THEN Answered("location", "given", "ASK_NAME")
                             ELSE Refused

\* Any text is a name, an unknown command included.
HandleAskName ==
    /\ Handling("ASK_NAME")
    /\ IF Input = "text" THEN Answered("name", "given", "ASK_DATE") ELSE Refused

\* The text may be no date, or a date in the past.
HandleAskDate ==
    /\ Handling("ASK_DATE")
    /\ \/ Input = "text" /\ Answered("event_date", "given", "ASK_TIME")
       \/ Refused

\* The text may be no time.  The past is not looked for here.
HandleAskTime ==
    /\ Handling("ASK_TIME")
    /\ \/ Input = "text" /\ Answered("event_datetime", "given", "ASK_CONTEXT")
       \/ Refused

\* Mutation of HandleAskContext: the confirmation follows at once.
HandleAskContextSkips ==
    /\ Handling("ASK_CONTEXT")
    /\ Answered("context", IF Input = "context" THEN "given" ELSE "foreign", "CONFIRM")

\* What the button says is stored, whichever question it belongs to.
HandleAskContext ==
    /\ Handling("ASK_CONTEXT")
    /\ Answered("context", IF Input = "context" THEN "given" ELSE "foreign",
                "ASK_DURATION")

\* int() raises for a button that is not a number.
HandleAskDuration ==
    /\ Handling("ASK_DURATION")
    /\ IF Input = "duration" THEN Answered("duration_hours", "given", "CONFIRM")
                             ELSE Refused

-----------------------------------------------------------------------------
\* handle_confirm.

ConfirmNo ==
    /\ Handling("CONFIRM")
    /\ Input = "confirm_no"
    /\ Clear(Chat)
    /\ Finish
    /\ Unchanged

\* Every other button registers.
ConfirmOther ==
    /\ Handling("CONFIRM")
    /\ Input # "confirm_no"
    /\ Load(Chat)
    /\ pc' = "posting"
    /\ data' = Loaded(Chat).data
    /\ UNCHANGED <<telegram, offset, next, last, step, reg, created, history>>

Complete   == \A f \in Required : data[f] # "missing"

\* Mutation of Acceptable: the API takes any string for the context.
AcceptableAnyContext == Complete

Acceptable == Complete /\ data["context"] # "foreign"
New == [id |-> made + 1, chat |-> Chat, talk |-> conv[Chat].talk, by |-> Input]

\* Mutation of Create: the API answers without having saved the row.
CreateUnsaved == /\ made' = made + 1
                 /\ profiles' = profiles

\* POST /profiles: the row is saved (module Scheduler has the detail).
Create == /\ made' = made + 1
          /\ profiles' = profiles \union {New}

\* data["name"] and the like are evaluated outside the try block.
PostRaises ==
    /\ pc = "posting"
    /\ ~Complete
    /\ Finish
    /\ UNCHANGED rows /\ Unchanged

\* A 422 (the event may have passed, or the context is not one), or the API is
\* not there: the conversation stays at CONFIRM.
PostRefused ==
    /\ pc = "posting"
    /\ Complete
    /\ Finish
    /\ UNCHANGED rows /\ Unchanged

\* Mutation of PostCreates: the chat is not patched.
PostCreatesUnpatched ==
    /\ pc = "posting"
    /\ Acceptable
    /\ Create
    /\ reg' = New
    /\ pc' = "clearing"
    /\ UNCHANGED <<telegram, offset, next, last, step, data, rows, routed,
                   forgotten, unpatched, history>>

PostCreates ==
    /\ pc = "posting"
    /\ Acceptable
    /\ Create
    /\ reg' = New
    /\ pc' = "patching"
    /\ UNCHANGED <<telegram, offset, next, last, step, data, rows, routed,
                   forgotten, unpatched, history>>

\* The API creates the profile, and the bot times out before the answer.
PostUnanswered ==
    /\ pc = "posting"
    /\ Acceptable
    /\ Fault("unanswered")
    /\ Create
    /\ forgotten' = forgotten \union {New}
    /\ Finish
    /\ UNCHANGED <<telegram, rows, routed, unpatched, restarts>>

PatchChat ==
    /\ pc = "patching"
    /\ routed' = routed \union {reg}
    /\ pc' = "clearing"
    /\ UNCHANGED <<telegram, offset, next, last, step, data, reg, rows, made,
                   profiles, forgotten, unpatched, history>>

\* The row was not there in three attempts; the handler goes on.
PatchGivesUp ==
    /\ pc = "patching"
    /\ unpatched' = unpatched \union {reg}
    /\ pc' = "clearing"
    /\ UNCHANGED <<telegram, offset, next, last, step, data, reg, rows, made,
                   profiles, routed, forgotten, history>>

\* Mutation of ClearRegistered: the row stays.
ClearRegisteredKeeps ==
    /\ pc = "clearing"
    /\ Finish
    /\ UNCHANGED rows /\ Unchanged

\* The registration is recorded by clearing the row; the welcome follows.
ClearRegistered ==
    /\ pc = "clearing"
    /\ Clear(Chat)
    /\ Finish
    /\ Unchanged

-----------------------------------------------------------------------------
\* What may happen meanwhile.

\* A transaction or a message fails and the handler raises.
Raise ==
    /\ pc # "polling"
    /\ Fault("raise")
    /\ forgotten' = forgotten \union ({reg} \ {NoProfile})
    /\ Finish
    /\ UNCHANGED <<telegram, rows, made, profiles, routed, unpatched, restarts>>

\* The process ends, and is started again: the offset was in memory.
Crash ==
    /\ Fault("crash")
    /\ restarts' = restarts + 1
    /\ forgotten' = forgotten \union ({reg} \ {NoProfile})
    /\ offset' = 0 /\ next' = 0 /\ last' = 0 /\ pc' = "polling"
    /\ step' = "IDLE" /\ data' = Empty /\ reg' = NoProfile
    /\ UNCHANGED <<telegram, rows, made, profiles, routed, unpatched, done>>

UserSends(c, input) ==
    /\ Len(updates) < MaxUpdates
    /\ updates' = Append(updates, [chat |-> c, input |-> input])
    /\ UNCHANGED <<acked, loop, rows, created, history>>

RowExpires(c) ==
    /\ conv[c] # NoRow
    /\ c \notin stale
    /\ stale' = stale \union {c}
    /\ UNCHANGED <<telegram, loop, conv, talks, created, history>>

-----------------------------------------------------------------------------
Dispatch == CancelCommand \/ StartCommand \/ NoHandler \/ NoMessage \/ Route
Handler  == \/ HandleIdle \/ HandleAskLanguage \/ HandleAskLocation
            \/ HandleAskName \/ HandleAskDate \/ HandleAskTime
            \/ HandleAskContext \/ HandleAskDuration
            \/ ConfirmNo \/ ConfirmOther
Register == \/ PostRaises \/ PostRefused \/ PostCreates \/ PostUnanswered
            \/ PatchChat \/ PatchGivesUp \/ ClearRegistered

\* The loop's own steps, without the failures of its calls.
Loop == GetUpdates \/ Dispatch \/ Handler \/ Register

Next ==
    \/ Loop \/ GetUpdatesFails \/ Raise \/ Crash
    \/ \E c \in Chats : \/ RowExpires(c)
                        \/ \E input \in Inputs : UserSends(c, input)

Spec == Init /\ [][Next]_vars

\* The loop runs for ever and its calls have timeouts.
FairSpec == Spec /\ WF_vars(Loop)
=============================================================================
