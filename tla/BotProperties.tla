---------------------------- MODULE BotProperties ----------------------------
(***************************************************************************)
(* What the bot has to get right, whatever users press, in whatever order, *)
(* and whenever it crashes, fails or is answered too late.                 *)
(***************************************************************************)
EXTENDS Bot

TypeOK ==
    /\ updates \in Seq(Update)
    /\ acked \in Nat /\ offset \in Nat /\ next \in Nat /\ last \in Nat
    /\ pc \in {"polling", "routing", "handling", "posting", "patching", "clearing"}
    /\ step \in Steps
    /\ data \in Data
    /\ reg \in profiles \union {NoProfile}
    /\ conv \in [Chats -> Row]
    /\ stale \subseteq Chats
    /\ talks \in Nat
    /\ made \in Nat
    /\ profiles \subseteq Profile
    /\ routed \subseteq profiles
    /\ forgotten \subseteq profiles
    /\ unpatched \subseteq profiles
    /\ done \in Nat
    /\ restarts \in Nat
    /\ faults \in Nat

\* Telegram is never told to forget an update before its dispatch has ended,
\* wherever the process is cut off between a batch and the next getUpdates
\* (run_bot, get_updates).
NoUpdateLost == acked <= done

\* As long as the process lives, no update is dispatched twice, failures of
\* getUpdates and of handlers included (run_bot, the offset).
RepeatedOnlyAfterCrash == (next # 0 /\ next <= done) => restarts > 0

\* When one conversation makes two profiles, the bot had not got to record the
\* earlier one: its POST was not answered in time, or a crash or an exception
\* came before the row was cleared (handle_confirm).
DuplicatesOnlyOfForgotten ==
    \A p, q \in profiles :
        p.chat = q.chat /\ p.talk = q.talk /\ p.id < q.id => p \in forgotten

\* A profile that the bot made sends its alerts to the bot's chat, or its
\* registration was forgotten, or its patch was given up, or it is being
\* patched (_patch_telegram_chat_id, handle_confirm).
RoutedUnlessLost ==
    \A p \in profiles : p \in routed \union forgotten \union unpatched \union {reg}

\* A conversation that has made a profile is over, or it is still at its
\* confirmation and all that it holds are answers to their own questions: no
\* redelivered update and no button of another question takes it back to a
\* question, and one that such a button got into (handle_ask_context stores what
\* any button says) never registers, however often the user confirms.
RegisteredAtConfirm ==
    \A p \in profiles :
        (conv[p.chat].talk = p.talk /\ conv[p.chat] # NoRow)
            => conv[p.chat].step = "CONFIRM" /\ conv[p.chat].data["context"] # "foreign"

\* Every chat's conversation keeps the order of the questions and registers at
\* its end only, with all that is required, although its steps are shared with
\* redelivered updates, buttons of other questions and expiry (dispatch and the
\* handlers).
Given(c) == {f \in Fields : conv[c].data[f] # "missing"}
StepOf(c) == IF conv[c].step \in Steps THEN conv[c].step ELSE "IDLE"
Of(c) == INSTANCE Conversation WITH
            step       <- StepOf(c),
            given      <- Given(c),
            registered <- {p \in profiles : p.chat = c}
ConversationsBegin  == \A c \in Chats : Of(c)!Init
ConversationsStep   == \A c \in Chats : [Of(c)!Next]_(Of(c)!vars)
FollowsConversation == ConversationsBegin /\ [][ConversationsStep]_vars

\* Every update is dispatched in the end, the ones after an update whose handler
\* raised, and the ones a crash interrupted, included (run_bot).
UpdatesDispatched == \A n \in 1..MaxUpdates : (Len(updates) >= n) ~> (done >= n)

\* "Register the profile or cancel based on user choice" (handle_confirm): only
\* the Yes button registers.
RegisteredByChoice == \A p \in profiles : p.by = "confirm_yes"

\* What is left to do for the update at hand.
ToFinish == [polling |-> 0, clearing |-> 1, patching |-> 2, posting |-> 3,
             handling |-> 4, routing |-> 5]

LeftOfBatch == IF pc = "polling" THEN 0 ELSE 5 * (last - next) + ToFinish[pc]

\* No update holds up the ones behind it: each step of the loop, a handler that
\* raises, an unanswered POST and a patch that is given up included, brings it
\* closer to the next getUpdates, and while a batch is dispatched nobody adds to
\* it (run_bot, dispatch, handle_confirm).
BatchIsBounded ==
    /\ [](LeftOfBatch \in Nat /\ (LeftOfBatch = 0 <=> pc = "polling"))
    /\ [][pc # "polling" => UNCHANGED loop \/ LeftOfBatch' < LeftOfBatch]_vars

-----------------------------------------------------------------------------
\* Why the properties hold: the invariants of the proofs.

Registering == {"patching", "clearing"}

\* Offset and batch follow what has been dispatched; without a crash, exactly.
QueueInv ==
    /\ acked <= done
    /\ offset <= done + 1
    /\ pc = "polling" <=> next = 0
    /\ next # 0 => next <= last /\ last <= Len(updates) /\ next <= done + 1
    /\ restarts = 0 => /\ offset = 0 => acked = 0 /\ done = 0
                       /\ offset # 0 => offset = done + 1
                       /\ next # 0 => next = done + 1

\* What a handler holds is what the row of its chat says, or the row is gone.
HandlerInv ==
    /\ reg = NoProfile <=> pc \notin Registering
    /\ pc \in Registering => reg.chat = Chat
    /\ pc = "handling" => HasHandler(Input, step) /\ conv[Chat].step = step
    /\ pc = "posting" => /\ Input \in Buttons
                         /\ data = conv[Chat].data
                         /\ conv[Chat].step = "CONFIRM" \/ conv[Chat] = NoRow

\* Talks and ids are fresh.  The profiles of a conversation that goes on are
\* forgotten, but for the one in hand.
TalkInv ==
    /\ \A c \in Chats : conv[c].talk <= talks
    /\ \A p \in profiles : p.id <= made /\ p.talk <= talks
    /\ \A p \in profiles :
          conv[p.chat].step # "IDLE" /\ conv[p.chat].talk = p.talk
             => p \in forgotten \union {reg}
    /\ DuplicatesOnlyOfForgotten

RouteInv ==
    /\ pc = "clearing" => reg \in routed \union unpatched
    /\ RoutedUnlessLost

BotInv == TypeOK /\ QueueInv /\ HandlerInv /\ TalkInv /\ RouteInv
=============================================================================
