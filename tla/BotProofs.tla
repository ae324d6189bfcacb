------------------------------ MODULE BotProofs ------------------------------
(***************************************************************************)
(* Theorems about the bot, for any chats, rows, inputs, faults and bounds. *)
(* BotInv is inductive as a whole: what a handler may write depends on     *)
(* where the queue is, and what it holds on the row it read.               *)
(***************************************************************************)
EXTENDS BotProperties, TLAPS

\* The constants a row is made of.
LEMMA RowConstants ==
    /\ Empty \in Data
    /\ NoRow \in Row
    /\ \A f \in Fields : Empty[f] = "missing"
BY DEF Empty, NoRow, Row, Data, Steps

\* While an update is dispatched, it is one that was sent.
LEMMA CurrentUpdate ==
    ASSUME TypeOK, QueueInv, pc # "polling"
    PROVE  /\ next \in 1..Len(updates)
           /\ Chat \in Chats
           /\ Input \in Buttons \union Messages
<1>1. next \in 1..Len(updates)
  BY DEF TypeOK, QueueInv
<1>2. updates[next] \in Update
  BY <1>1 DEF TypeOK
<1>. QED
  BY <1>1, <1>2 DEF Update, Chat, Input

\* What _load_state returns is a row with a step this version knows.
LEMMA LoadedRow ==
    ASSUME TypeOK, NEW c \in Chats
    PROVE  /\ Loaded(c) \in Row
           /\ Loaded(c).step \in Steps
           /\ Loaded(c).data \in Data
BY RowConstants DEF Loaded, Gone, TypeOK, Row, NoRow, Steps

LoopTyped ==
    /\ updates \in Seq(Update)
    /\ acked \in Nat /\ offset \in Nat /\ next \in Nat /\ last \in Nat
    /\ pc \in {"polling", "routing", "handling", "posting", "patching", "clearing"}
    /\ step \in Steps
    /\ data \in Data
    /\ done \in Nat /\ restarts \in Nat /\ faults \in Nat
RowsTyped == conv \in [Chats -> Row] /\ stale \subseteq Chats /\ talks \in Nat
CreatedTyped ==
    /\ reg \in profiles \union {NoProfile}
    /\ made \in Nat
    /\ profiles \subseteq Profile
    /\ routed \subseteq profiles /\ forgotten \subseteq profiles
    /\ unpatched \subseteq profiles

LEMMA TypeParts == TypeOK <=> LoopTyped /\ RowsTyped /\ CreatedTyped
BY DEF TypeOK, LoopTyped, RowsTyped, CreatedTyped

\* Loading, clearing and saving keep the table's type.
LEMMA LoadTyped ==
    ASSUME TypeOK, NEW c \in Chats, Load(c) PROVE RowsTyped'
BY LoadedRow DEF TypeOK, Load, RowsTyped

LEMMA ClearTyped ==
    ASSUME TypeOK, NEW c \in Chats, Clear(c) PROVE RowsTyped'
BY RowConstants DEF TypeOK, Clear, RowsTyped

LEMMA SaveTyped ==
    ASSUME TypeOK, NEW c \in Chats, NEW s \in Steps, NEW d \in Data, Save(c, s, d)
    PROVE  RowsTyped'
<1>1. (IF Gone(c) THEN talks + 1 ELSE conv[c].talk) \in Nat
  BY DEF TypeOK, Row
<1>2. [step |-> s, data |-> d, talk |-> IF Gone(c) THEN talks + 1 ELSE conv[c].talk] \in Row
  BY <1>1 DEF Row
<1>. QED
  BY <1>2 DEF TypeOK, Save, RowsTyped

\* The end of a dispatch keeps the loop's type, whatever else it does.
LEMMA FinishTyped ==
    ASSUME TypeOK, QueueInv, Finish
    PROVE  /\ offset' \in Nat /\ next' \in Nat /\ last' \in Nat /\ done' \in Nat
           /\ pc' \in {"polling", "routing"} /\ step' \in Steps /\ data' \in Data
           /\ reg' = NoProfile
BY RowConstants DEF TypeOK, Finish, Steps

-----------------------------------------------------------------------------
\* The actions that leave the POST's results alone, by what they do.

\* The dispatch ends here, after loading, clearing or saving the row.
Ends ==
    /\ pc \in {"routing", "handling", "posting", "clearing"}
    /\ \/ Load(Chat) \/ Clear(Chat) \/ UNCHANGED rows
       \/ /\ pc = "handling" /\ step # "CONFIRM"
          /\ \E s \in Steps \ {"IDLE"}, d \in Data : Save(Chat, s, d)
    /\ pc = "clearing" => Clear(Chat)
    /\ Finish
    /\ Unchanged

LEMMA AnsweredSaves ==
    ASSUME TypeOK, Chat \in Chats, NEW f \in Fields, NEW v \in {"given", "foreign"},
           NEW s \in Steps \ {"IDLE"}, Answered(f, v, s)
    PROVE  /\ \E d \in Data : Save(Chat, s, d)
           /\ Finish /\ Unchanged
<1>1. [Loaded(Chat).data EXCEPT ![f] = v] \in Data
  BY LoadedRow DEF Data
<1>. QED
  BY <1>1 DEF Answered

\* Most actions only end the dispatch.
LEMMA EndsSteps ==
    ASSUME TypeOK, QueueInv, Chat \in Chats,
           \/ CancelCommand \/ NoHandler \/ NoMessage \/ HandleIdle
           \/ HandleAskLanguage \/ HandleAskLocation \/ HandleAskName
           \/ HandleAskDate \/ HandleAskTime \/ HandleAskContext
           \/ HandleAskDuration \/ ConfirmNo \/ PostRaises \/ PostRefused
           \/ ClearRegistered
    PROVE  Ends
<1>1. CASE CancelCommand \/ NoHandler \/ NoMessage \/ ConfirmNo \/ PostRaises
             \/ PostRefused \/ ClearRegistered
  BY <1>1 DEF CancelCommand, NoHandler, NoMessage, ConfirmNo, PostRaises,
              PostRefused, ClearRegistered, Ends, Handling
<1>2. CASE HandleIdle
  BY <1>2, RowConstants DEF HandleIdle, Ends, Handling, Steps, Questions
<1>3. CASE HandleAskLanguage
  <2>1. [Empty EXCEPT !["language"] = "given"] \in Data
    BY RowConstants DEF Data
  <2>. QED
    BY <1>3, <2>1 DEF HandleAskLanguage, Ends, Handling, Steps, Questions
<1>4. CASE HandleAskLocation
  BY <1>4, AnsweredSaves
     DEF HandleAskLocation, Ends, Handling, Refused, Steps, Questions, Fields
<1>5. CASE HandleAskName
  BY <1>5, AnsweredSaves
     DEF HandleAskName, Ends, Handling, Refused, Steps, Questions, Fields
<1>6. CASE HandleAskDate
  BY <1>6, AnsweredSaves
     DEF HandleAskDate, Ends, Handling, Refused, Steps, Questions, Fields
<1>7. CASE HandleAskTime
  BY <1>7, AnsweredSaves
     DEF HandleAskTime, Ends, Handling, Refused, Steps, Questions, Fields
<1>8. CASE HandleAskContext
  BY <1>8, AnsweredSaves DEF HandleAskContext, Ends, Handling, Steps, Questions, Fields
<1>9. CASE HandleAskDuration
  BY <1>9, AnsweredSaves
     DEF HandleAskDuration, Ends, Handling, Refused, Steps, Questions, Fields
<1>. QED
  BY <1>1, <1>2, <1>3, <1>4, <1>5, <1>6, <1>7, <1>8, <1>9

\* What a step can be, by its effect.
Effects ==
    \/ Ends
    \/ StartCommand \/ Route \/ ConfirmOther
    \/ PostCreates \/ PostUnanswered \/ PatchChat \/ PatchGivesUp
    \/ GetUpdates \/ GetUpdatesFails \/ Raise \/ Crash
    \/ \E c \in Chats : RowExpires(c) \/ \E input \in Inputs : UserSends(c, input)
    \/ UNCHANGED vars

LEMMA StepEffects == TypeOK /\ QueueInv /\ [Next]_vars => Effects
<1> SUFFICES ASSUME TypeOK, QueueInv, Next PROVE Effects
  BY DEF Effects
<1>1. pc # "polling" => Chat \in Chats
  BY CurrentUpdate
<1>2. CASE Dispatch
  BY <1>1, <1>2, EndsSteps
     DEF Dispatch, Effects, CancelCommand, NoHandler, NoMessage
<1>3. CASE Handler
  BY <1>1, <1>3, EndsSteps
     DEF Handler, Effects, Handling, HandleIdle, HandleAskLanguage, HandleAskLocation,
         HandleAskName, HandleAskDate, HandleAskTime, HandleAskContext,
         HandleAskDuration, ConfirmNo
<1>4. CASE Register
  BY <1>1, <1>4, EndsSteps
     DEF Register, Effects, PostRaises, PostRefused, ClearRegistered
<1>5. CASE GetUpdates \/ GetUpdatesFails \/ Raise \/ Crash
  BY <1>5 DEF Effects
<1>. QED
  BY <1>2, <1>3, <1>4, <1>5 DEF Next, Loop, Effects

-----------------------------------------------------------------------------
\* BotInv is inductive, part by part.

LEMMA TypeStep == BotInv /\ [Next]_vars => TypeOK'
<1> SUFFICES ASSUME BotInv, Effects PROVE LoopTyped' /\ RowsTyped' /\ CreatedTyped'
  BY StepEffects, TypeParts DEF BotInv, TypeOK, LoopTyped, RowsTyped, CreatedTyped
<1> USE DEF BotInv
<1>a. LoopTyped /\ RowsTyped /\ CreatedTyped
  BY TypeParts
<1>b. pc # "polling" => Chat \in Chats /\ Input \in Buttons \union Messages
  BY CurrentUpdate
<1>1. CASE Ends
  <2>1. Chat \in Chats
    BY <1>1, <1>b DEF Ends
  <2>2. LoopTyped'
    BY <1>1, <1>a, FinishTyped DEF Ends, Unchanged, telegram, LoopTyped
  <2>3. RowsTyped'
    BY <1>1, <1>a, <2>1, LoadTyped, ClearTyped, SaveTyped DEF Ends, rows, RowsTyped
  <2>4. CreatedTyped'
    BY <1>1, <1>a, FinishTyped DEF Ends, Unchanged, created, CreatedTyped
  <2>. QED
    BY <2>2, <2>3, <2>4
<1>2. CASE StartCommand
  <2>1. RowsTyped'
    BY <1>2, <1>b, ClearTyped DEF StartCommand
  <2>. QED
    BY <1>2, <1>a, <2>1
       DEF StartCommand, telegram, created, history, LoopTyped, CreatedTyped, Steps
<1>3. CASE Route
  <2>1. RowsTyped' /\ Loaded(Chat).step \in Steps
    BY <1>3, <1>b, LoadTyped, LoadedRow DEF Route
  <2>. QED
    BY <1>3, <1>a, <2>1 DEF Route, telegram, created, history, LoopTyped, CreatedTyped
<1>4. CASE ConfirmOther
  <2>1. RowsTyped' /\ Loaded(Chat).data \in Data
    BY <1>4, <1>b, LoadTyped, LoadedRow DEF ConfirmOther, Handling
  <2>. QED
    BY <1>4, <1>a, <2>1
       DEF ConfirmOther, telegram, created, history, LoopTyped, CreatedTyped
<1>5. CASE PostCreates \/ PostUnanswered
  <2>1. New \in Profile
    <3>1. Chat \in Chats /\ Input \in Buttons
      BY <1>5, <1>b DEF PostCreates, PostUnanswered, HandlerInv
    <3>2. conv[Chat].talk \in Nat /\ made + 1 \in Nat
      BY <3>1, <1>a DEF RowsTyped, CreatedTyped, Row
    <3>. QED
      BY <3>1, <3>2 DEF New, Profile
  <2>2. CASE PostCreates
    BY <2>1, <2>2, <1>a
       DEF PostCreates, Create, telegram, rows, history, LoopTyped, RowsTyped, CreatedTyped
  <2>3. CASE PostUnanswered
    <3>1. LoopTyped'
      BY <2>3, <1>a, FinishTyped DEF PostUnanswered, Fault, telegram, LoopTyped
    <3>. QED
      BY <2>1, <2>3, <3>1, <1>a, FinishTyped
         DEF PostUnanswered, Create, rows, RowsTyped, CreatedTyped
  <2>. QED
    BY <1>5, <2>2, <2>3
<1>6. CASE PatchChat \/ PatchGivesUp
  BY <1>6, <1>a
     DEF PatchChat, PatchGivesUp, HandlerInv, Registering, telegram, rows, history,
         LoopTyped, RowsTyped, CreatedTyped
<1>7. CASE GetUpdates
  <2>1. First - 1 \in Nat /\ First \in Nat /\ Len(updates) \in Nat
    BY <1>a DEF First, LoopTyped
  <2>. QED
    BY <1>7, <1>a, <2>1
       DEF GetUpdates, rows, created, history, LoopTyped, RowsTyped, CreatedTyped
<1>8. CASE GetUpdatesFails
  <2>1. First - 1 \in Nat
    BY <1>a DEF First, LoopTyped
  <2>. QED
    BY <1>8, <1>a, <2>1
       DEF GetUpdatesFails, Fault, loop, rows, created, LoopTyped, RowsTyped, CreatedTyped
<1>9. CASE Raise
  <2>1. LoopTyped'
    BY <1>9, <1>a, FinishTyped DEF Raise, Fault, telegram, LoopTyped
  <2>. QED
    BY <1>9, <2>1, <1>a, FinishTyped DEF Raise, rows, RowsTyped, CreatedTyped
<1>10. CASE Crash
  BY <1>10, <1>a, RowConstants
     DEF Crash, Fault, telegram, rows, LoopTyped, RowsTyped, CreatedTyped, Steps
<1>11. CASE \E c \in Chats : RowExpires(c)
  BY <1>11, <1>a
     DEF RowExpires, telegram, loop, created, history, LoopTyped, RowsTyped, CreatedTyped
<1>12. CASE \E c \in Chats : \E input \in Inputs : UserSends(c, input)
  <2>1. updates' \in Seq(Update)
    BY <1>12, <1>a, BotAssumption DEF UserSends, Update, LoopTyped
  <2>. QED
    BY <1>12, <2>1, <1>a
       DEF UserSends, loop, rows, created, history, LoopTyped, RowsTyped, CreatedTyped
<1>13. CASE UNCHANGED vars
  BY <1>13, <1>a
     DEF vars, telegram, loop, rows, created, history, LoopTyped, RowsTyped, CreatedTyped
<1>. QED
  BY <1>1, <1>2, <1>3, <1>4, <1>5, <1>6, <1>7, <1>8, <1>9, <1>10, <1>11, <1>12, <1>13
     DEF Effects

\* Dispatch advances done and offset together; getUpdates starts after done.
LEMMA QueueStep == BotInv /\ [Next]_vars => QueueInv'
<1> SUFFICES ASSUME BotInv, Effects PROVE QueueInv'
  BY StepEffects DEF BotInv
<1> USE DEF BotInv, QueueInv
<1>a. LoopTyped /\ Len(updates) \in Nat
  BY TypeParts DEF LoopTyped
<1>f. ASSUME Finish, pc # "polling", UNCHANGED <<updates, acked>>, restarts' = restarts
      PROVE  QueueInv'
  BY <1>a, <1>f DEF Finish, LoopTyped
<1>1. CASE Ends
  BY <1>1, <1>f DEF Ends, Unchanged, telegram
<1>2. CASE \/ StartCommand \/ Route \/ ConfirmOther \/ PostCreates
           \/ PatchChat \/ PatchGivesUp
  BY <1>2, <1>a
     DEF StartCommand, Route, ConfirmOther, Handling, PostCreates, PatchChat,
         PatchGivesUp, telegram, history
<1>3. CASE PostUnanswered
  BY <1>3, <1>f DEF PostUnanswered, telegram
<1>4. CASE GetUpdates
  BY <1>4, <1>a DEF GetUpdates, First, history, LoopTyped
<1>5. CASE GetUpdatesFails
  BY <1>5, <1>a DEF GetUpdatesFails, First, loop, LoopTyped
<1>6. CASE Raise
  BY <1>6, <1>f DEF Raise, telegram
<1>7. CASE Crash
  BY <1>7, <1>a DEF Crash, telegram, LoopTyped
<1>8. CASE \E c \in Chats : RowExpires(c)
  BY <1>8, <1>a DEF RowExpires, telegram, loop, history
<1>9. CASE \E c \in Chats : \E input \in Inputs : UserSends(c, input)
  <2>1. Len(updates') = Len(updates) + 1
    BY <1>9, <1>a DEF UserSends, LoopTyped
  <2>. QED
    BY <1>9, <2>1, <1>a DEF UserSends, loop, history, LoopTyped
<1>10. CASE UNCHANGED vars
  BY <1>10, <1>a DEF vars, telegram, loop, history
<1>. QED
  BY <1>1, <1>2, <1>3, <1>4, <1>5, <1>6, <1>7, <1>8, <1>9, <1>10 DEF Effects

\* No one else writes the row while a handler holds what it read.
LEMMA HandlerStep == BotInv /\ [Next]_vars => HandlerInv'
<1> SUFFICES ASSUME BotInv, Effects PROVE HandlerInv'
  BY StepEffects DEF BotInv
<1> USE DEF BotInv, Registering
<1>a. TypeOK /\ QueueInv /\ HandlerInv
  OBVIOUS
<1>b. pc # "polling" => Chat \in Chats /\ Input \in Buttons \union Messages
  BY CurrentUpdate
<1>f. ASSUME Finish PROVE HandlerInv'
  BY <1>f DEF Finish, HandlerInv
<1>1. CASE Ends \/ PostUnanswered \/ Raise
  BY <1>1, <1>f DEF Ends, PostUnanswered, Raise
<1>2. CASE StartCommand
  <2>1. conv'[Chat].step = "IDLE" /\ Chat' = Chat /\ Input' = Input
    BY <1>2, <1>b DEF StartCommand, Clear, NoRow, Chat, Input, telegram, TypeOK
  <2>2. HasHandler(Input, "IDLE")
    BY <1>2 DEF StartCommand, HasHandler, ButtonSteps, Buttons
  <2>. QED
    BY <1>2, <2>1, <2>2 DEF StartCommand, HandlerInv, HasHandler
<1>3. CASE Route
  <2>1. conv'[Chat].step = Loaded(Chat).step /\ Chat' = Chat /\ Input' = Input
    BY <1>3, <1>b DEF Route, Load, Chat, Input, telegram, TypeOK
  <2>. QED
    BY <1>3, <2>1 DEF Route, HandlerInv, HasHandler
<1>4. CASE ConfirmOther
  <2>1. conv'[Chat] = Loaded(Chat) /\ Chat' = Chat /\ Input' = Input
    BY <1>4, <1>b DEF ConfirmOther, Handling, Load, Chat, Input, telegram, TypeOK
  <2>2. Loaded(Chat) = NoRow \/ Loaded(Chat).step = "CONFIRM"
    BY <1>4 DEF ConfirmOther, Handling, HandlerInv, Loaded
  <2>3. Input \in Buttons
    BY <1>4 DEF ConfirmOther, Handling, HandlerInv, HasHandler, ButtonSteps
  <2>. QED
    BY <1>4, <2>1, <2>2, <2>3 DEF ConfirmOther, Handling, HandlerInv
<1>5. CASE PostCreates
  <2>1. New \in Profile /\ New.chat = Chat
    <3>1. Chat \in Chats /\ Input \in Buttons
      BY <1>5, <1>b DEF PostCreates, HandlerInv
    <3>2. conv[Chat].talk \in Nat /\ made + 1 \in Nat
      BY <3>1 DEF TypeOK, Row
    <3>. QED
      BY <3>1, <3>2 DEF New, Profile
  <2>2. Chat' = Chat
    BY <1>5 DEF PostCreates, Chat, telegram
  <2>. QED
    BY <1>5, <2>1, <2>2, BotAssumption DEF PostCreates, HandlerInv
<1>6. CASE PatchChat \/ PatchGivesUp
  <2>1. Chat' = Chat
    BY <1>6 DEF PatchChat, PatchGivesUp, Chat, telegram
  <2>. QED
    BY <1>6, <2>1 DEF PatchChat, PatchGivesUp, HandlerInv
<1>7. CASE GetUpdates \/ GetUpdatesFails \/ Crash
  BY <1>7 DEF GetUpdates, GetUpdatesFails, Crash, loop, HandlerInv
<1>8. CASE \E c \in Chats : RowExpires(c)
  <2>1. Chat' = Chat /\ Input' = Input /\ UNCHANGED <<loop, conv>>
    BY <1>8 DEF RowExpires, Chat, Input, telegram, loop
  <2>. QED
    BY <2>1 DEF HandlerInv, HasHandler, loop
<1>9. CASE \E c \in Chats : \E input \in Inputs : UserSends(c, input)
  <2>1. UNCHANGED <<loop, conv>>
    BY <1>9 DEF UserSends, rows
  <2>2. pc # "polling" => Chat' = Chat /\ Input' = Input
    <3> SUFFICES ASSUME pc # "polling" PROVE Chat' = Chat /\ Input' = Input
      OBVIOUS
    <3>1. next \in 1..Len(updates) /\ next' = next
      BY <2>1, CurrentUpdate DEF loop
    <3>2. updates'[next] = updates[next]
      BY <1>9, <3>1 DEF UserSends, TypeOK
    <3>. QED
      BY <3>1, <3>2 DEF Chat, Input
  <2>. QED
    BY <2>1, <2>2 DEF HandlerInv, HasHandler, loop
<1>10. CASE UNCHANGED vars
  BY <1>10 DEF vars, telegram, loop, rows, HandlerInv, HasHandler, Chat, Input
<1>. QED
  BY <1>1, <1>2, <1>3, <1>4, <1>5, <1>6, <1>7, <1>8, <1>9, <1>10 DEF Effects

\* A row goes on with its conversation, or begins a new one, or is gone.
GoesOn(c) == conv[c].step # "IDLE" /\ conv'[c].talk = conv[c].talk
TalksMove ==
    /\ talks' \in Nat /\ talks <= talks'
    /\ \A c \in Chats : /\ conv'[c].talk <= talks'
                        /\ \/ conv'[c].step = "IDLE"
                           \/ talks < conv'[c].talk
                           \/ GoesOn(c)

LEMMA TalksMoveOn ==
    ASSUME TypeOK, TalkInv, NEW c \in Chats,
           \/ Load(c) \/ Clear(c)
           \/ UNCHANGED <<conv, talks>>
           \/ \E s \in Steps \ {"IDLE"}, d \in Data : Save(c, s, d)
    PROVE  TalksMove
<1>a. \A d \in Chats : conv[d].talk \in Nat /\ conv[d].talk <= talks
  BY DEF TypeOK, Row, TalkInv
<1>b. talks \in Nat /\ conv \in [Chats -> Row]
  BY DEF TypeOK
<1>1. CASE UNCHANGED <<conv, talks>>
  BY <1>1, <1>a, <1>b DEF TalksMove, GoesOn
<1>2. CASE Load(c) \/ Clear(c)
  <2>1. conv' = [conv EXCEPT ![c] = NoRow] \/ conv' = conv
    BY <1>2, <1>b DEF Load, Clear, Loaded
  <2>. QED
    BY <1>2, <2>1, <1>a, <1>b DEF Load, Clear, NoRow, TalksMove, GoesOn
<1>3. CASE \E s \in Steps \ {"IDLE"}, d \in Data : Save(c, s, d)
  BY <1>3, <1>a, <1>b DEF Save, Gone, TalksMove, GoesOn
<1>. QED
  BY <1>1, <1>2, <1>3

\* What keeps TalkInv in the steps that create no profile.
LEMMA TalkKept ==
    ASSUME TypeOK, TalkInv, TalksMove, UNCHANGED <<made, profiles>>,
           forgotten \subseteq forgotten',
           \/ reg \in forgotten' \union {reg', NoProfile}
           \/ conv'[reg.chat].step = "IDLE"
    PROVE  TalkInv'
<1>1. \A p \in profiles : p.chat \in Chats /\ p.talk \in Nat /\ p # NoProfile
  BY BotAssumption DEF TypeOK, Profile
<1>2. \A p \in profiles : p.talk <= talks /\ talks \in Nat
  BY DEF TypeOK, TalkInv
<1>3. ASSUME NEW p \in profiles, conv'[p.chat].step # "IDLE", conv'[p.chat].talk = p.talk
      PROVE  p \in forgotten' \union {reg'}
  <2>1. GoesOn(p.chat)
    BY <1>1, <1>2, <1>3 DEF TalksMove
  <2>2. p \in forgotten \union {reg}
    BY <1>3, <2>1 DEF GoesOn, TalkInv
  <2>. QED
    BY <1>1, <1>3, <2>2
<1>. QED
  BY <1>1, <1>2, <1>3 DEF TalkInv, TalksMove, TypeOK, DuplicatesOnlyOfForgotten

\* A POST is made for a conversation that goes on, and so whose earlier profiles
\* are all forgotten.
LEMMA TalkCreated ==
    ASSUME TypeOK, TalkInv, HandlerInv, New \in Profile, New.chat = Chat,
           pc = "posting", conv[Chat].step # "IDLE", Create, UNCHANGED rows,
           \/ forgotten' = forgotten /\ reg' = New
           \/ forgotten' = forgotten \union {New}
    PROVE  TalkInv'
<1>1. /\ New.id = made + 1 /\ New.talk = conv[Chat].talk /\ New.talk <= talks
      /\ Chat \in Chats /\ made \in Nat /\ talks \in Nat
  BY DEF New, TalkInv, TypeOK, Profile
<1>2. \A p \in profiles : p.id \in Nat /\ p.id <= made /\ p.talk <= talks /\ p # NoProfile
  BY BotAssumption DEF TalkInv, TypeOK, Profile
<1>3. \A p \in profiles : p.chat = New.chat /\ p.talk = New.talk => p \in forgotten
  BY <1>1, <1>2 DEF TalkInv, HandlerInv, Registering
<1>4. DuplicatesOnlyOfForgotten'
  <2> SUFFICES ASSUME NEW p \in profiles', NEW q \in profiles',
                      p.chat = q.chat, p.talk = q.talk, p.id < q.id
               PROVE  p \in forgotten'
    BY DEF DuplicatesOnlyOfForgotten
  <2>1. p \in profiles
    BY <1>1, <1>2 DEF Create
  <2>2. CASE q \in profiles
    BY <2>1, <2>2 DEF TalkInv, DuplicatesOnlyOfForgotten
  <2>3. CASE q = New
    BY <2>1, <2>3, <1>3
  <2>. QED
    BY <2>2, <2>3 DEF Create
<1>5. \A p \in profiles' : conv'[p.chat].step # "IDLE" /\ conv'[p.chat].talk = p.talk
                              => p \in forgotten' \union {reg'}
  <2> SUFFICES ASSUME NEW p \in profiles, conv[p.chat].step # "IDLE",
                      conv[p.chat].talk = p.talk
               PROVE  p \in forgotten
    BY DEF Create, rows
  <2>. QED
    BY <1>2 DEF TalkInv, HandlerInv, Registering
<1>. QED
  BY <1>1, <1>2, <1>4, <1>5 DEF TalkInv, Create, rows

\* The POST is complete, so its row was there when handle_confirm read it.
LEMMA CompleteRow ==
    ASSUME HandlerInv, pc = "posting", Complete
    PROVE  conv[Chat].step = "CONFIRM"
<1>1. Empty["name"] = "missing" /\ "name" \in Required
  BY RowConstants DEF Fields, Required
<1>2. conv[Chat] # NoRow
  BY <1>1 DEF HandlerInv, Complete, NoRow
<1>. QED
  BY <1>2 DEF HandlerInv

LEMMA NewTyped ==
    ASSUME BotInv, pc = "posting" PROVE New \in Profile /\ New.chat = Chat
<1>1. Chat \in Chats /\ Input \in Buttons
  BY CurrentUpdate DEF BotInv, HandlerInv
<1>2. conv[Chat].talk \in Nat /\ made + 1 \in Nat
  BY <1>1 DEF BotInv, TypeOK, Row
<1>. QED
  BY <1>1, <1>2 DEF New, Profile

LEMMA TalkStep == BotInv /\ [Next]_vars => TalkInv'
<1> SUFFICES ASSUME BotInv, Effects PROVE TalkInv'
  BY StepEffects DEF BotInv
<1>a. TypeOK /\ QueueInv /\ HandlerInv /\ TalkInv
  BY DEF BotInv
<1>b. pc # "polling" => Chat \in Chats
  BY <1>a, CurrentUpdate
<1>c. pc \notin Registering => reg = NoProfile
  BY <1>a DEF HandlerInv
\* Rows untouched, and the profile in hand kept or forgotten.
<1>k. ASSUME UNCHANGED <<conv, talks, made, profiles>>,
             forgotten \subseteq forgotten', reg \in forgotten' \union {reg', NoProfile}
      PROVE  TalkInv'
  <2>1. TalksMove
    <3>1. \A d \in Chats : conv[d].talk <= talks
      BY <1>a DEF TalkInv
    <3>. QED
      BY <1>k, <3>1, <1>a DEF TalksMove, GoesOn, TypeOK
  <2>. QED
    BY <2>1, <1>k, <1>a, TalkKept
<1>1. CASE Ends
  <2>1. TalksMove
    BY <1>1, <1>a, <1>b, TalksMoveOn DEF Ends, rows
  <2>2. UNCHANGED <<made, profiles>> /\ forgotten' = forgotten
    BY <1>1 DEF Ends, Unchanged, created
  <2>3. CASE pc = "clearing"
    <3>1. conv'[reg.chat].step = "IDLE"
      BY <1>1, <2>3, <1>a, <1>b
         DEF Ends, Clear, NoRow, HandlerInv, Registering, TypeOK
    <3>. QED
      BY <2>1, <2>2, <3>1, <1>a, TalkKept
  <2>4. CASE pc # "clearing"
    <3>1. reg = NoProfile
      BY <1>1, <2>4, <1>c DEF Ends, Registering
    <3>. QED
      BY <2>1, <2>2, <3>1, <1>a, TalkKept
  <2>. QED
    BY <2>3, <2>4
<1>2. CASE StartCommand \/ Route \/ ConfirmOther
  <2>1. TalksMove
    BY <1>2, <1>a, <1>b, TalksMoveOn DEF StartCommand, Route, ConfirmOther, Handling
  <2>2. UNCHANGED <<made, profiles, forgotten, reg>>
    BY <1>2 DEF StartCommand, Route, ConfirmOther, created
  <2>. QED
    BY <2>1, <2>2, <1>a, TalkKept
<1>3. CASE PostCreates \/ PostUnanswered
  <2>1. conv[Chat].step = "CONFIRM" /\ New \in Profile /\ New.chat = Chat
    BY <1>3, <1>a, CompleteRow, NewTyped DEF PostCreates, PostUnanswered, Acceptable
  <2>. QED
    BY <1>3, <2>1, <1>a, TalkCreated DEF PostCreates, PostUnanswered
<1>4. CASE PatchChat \/ PatchGivesUp \/ GetUpdates \/ GetUpdatesFails
  BY <1>4, <1>k
     DEF PatchChat, PatchGivesUp, GetUpdates, GetUpdatesFails, loop, rows, created
<1>5. CASE Raise \/ Crash
  BY <1>5, <1>k DEF Raise, Crash, rows
<1>6. CASE \E c \in Chats : RowExpires(c) \/ \E input \in Inputs : UserSends(c, input)
  BY <1>6, <1>k DEF RowExpires, UserSends, loop, rows, created
<1>7. CASE UNCHANGED vars
  BY <1>7, <1>k DEF vars, loop, rows, created
<1>. QED
  BY <1>1, <1>2, <1>3, <1>4, <1>5, <1>6, <1>7 DEF Effects

LEMMA RouteStep == BotInv /\ [Next]_vars => RouteInv'
<1> SUFFICES ASSUME BotInv, Effects PROVE RouteInv'
  BY StepEffects DEF BotInv
<1> USE DEF RouteInv, RoutedUnlessLost
<1>a. TypeOK /\ HandlerInv /\ RouteInv
  BY DEF BotInv
<1>b. \A p \in profiles : p # NoProfile
  BY <1>a, BotAssumption DEF TypeOK
<1>c. pc \notin Registering => reg = NoProfile
  BY <1>a DEF HandlerInv
<1>1. CASE Ends
  BY <1>1, <1>a, <1>b, <1>c DEF Ends, Unchanged, created, Finish, Registering
<1>2. CASE StartCommand \/ Route \/ ConfirmOther
  BY <1>2, <1>a DEF StartCommand, Route, ConfirmOther, created
<1>3. CASE PostCreates
  BY <1>3, <1>a, <1>b, <1>c DEF PostCreates, Create, Registering
<1>4. CASE PostUnanswered
  BY <1>4, <1>a, <1>b, <1>c DEF PostUnanswered, Create, Finish, Registering
<1>5. CASE PatchChat \/ PatchGivesUp
  BY <1>5, <1>a DEF PatchChat, PatchGivesUp
<1>6. CASE GetUpdates \/ GetUpdatesFails
  BY <1>6, <1>a DEF GetUpdates, GetUpdatesFails, loop, created
<1>7. CASE Raise \/ Crash
  BY <1>7, <1>a, <1>b DEF Raise, Crash, Finish
<1>8. CASE \E c \in Chats : RowExpires(c) \/ \E input \in Inputs : UserSends(c, input)
  BY <1>8, <1>a DEF RowExpires, UserSends, loop, created
<1>9. CASE UNCHANGED vars
  BY <1>9, <1>a DEF vars, loop, created
<1>. QED
  BY <1>1, <1>2, <1>3, <1>4, <1>5, <1>6, <1>7, <1>8, <1>9 DEF Effects

LEMMA BotInductive == Spec => []BotInv
<1>1. Init => BotInv
  <2> SUFFICES ASSUME Init PROVE BotInv
    OBVIOUS
  <2>1. conv \in [Chats -> Row] /\ \A c \in Chats : conv[c].talk = 0
    BY BotAssumption DEF Init
  <2>2. TypeOK
    BY <2>1, RowConstants DEF Init, TypeOK, Steps
  <2>3. QueueInv /\ HandlerInv
    BY DEF Init, QueueInv, HandlerInv, Registering
  <2>4. TalkInv /\ RouteInv
    BY <2>1 DEF Init, TalkInv, RouteInv, DuplicatesOnlyOfForgotten, RoutedUnlessLost
  <2>. QED
    BY <2>2, <2>3, <2>4 DEF BotInv
<1>2. BotInv /\ [Next]_vars => BotInv'
  BY TypeStep, QueueStep, HandlerStep, TalkStep, RouteStep DEF BotInv
<1>. QED
  BY <1>1, <1>2, PTL DEF Spec

-----------------------------------------------------------------------------
\* The tables, the loop's variables and the profiles have their types.
THEOREM BotTypeCorrect == Spec => []TypeOK
<1>1. BotInv => TypeOK
  BY DEF BotInv
<1>. QED
  BY <1>1, BotInductive, PTL

\* Telegram forgets no update before its dispatch has ended, whenever the
\* process is cut off (run_bot).
THEOREM UpdatesNotLost == Spec => []NoUpdateLost
<1>1. BotInv => NoUpdateLost
  BY DEF BotInv, QueueInv, NoUpdateLost
<1>. QED
  BY <1>1, BotInductive, PTL

\* Without a crash no update is dispatched twice, failing calls of getUpdates
\* and raising handlers included (run_bot).
THEOREM RepeatsNeedCrash == Spec => []RepeatedOnlyAfterCrash
<1>1. BotInv => RepeatedOnlyAfterCrash
  BY DEF BotInv, TypeOK, QueueInv, RepeatedOnlyAfterCrash
<1>. QED
  BY <1>1, BotInductive, PTL

\* A conversation makes a second profile only if the bot did not get to record
\* the first (handle_confirm).
THEOREM DuplicatesExplained == Spec => []DuplicatesOnlyOfForgotten
<1>1. BotInv => DuplicatesOnlyOfForgotten
  BY DEF BotInv, TalkInv
<1>. QED
  BY <1>1, BotInductive, PTL

\* A profile without its chat was forgotten or its patch was given up
\* (_patch_telegram_chat_id).
THEOREM UnroutedExplained == Spec => []RoutedUnlessLost
<1>1. BotInv => RoutedUnlessLost
  BY DEF BotInv, RouteInv
<1>. QED
  BY <1>1, BotInductive, PTL

-----------------------------------------------------------------------------
\* A conversation saves answers before its confirmation only, and a POST is made
\* from the row as it is, so that the row of a profile stays as it was.

LEMMA ConfirmKept ==
    ASSUME RegisteredAtConfirm, TypeOK, NEW c \in Chats,
           Load(c) \/ Clear(c) \/ UNCHANGED conv, UNCHANGED profiles
    PROVE  RegisteredAtConfirm'
<1>1. \A p \in profiles : p.chat \in Chats
  BY DEF TypeOK, Profile
<1>2. \A d \in Chats : conv'[d] \in {conv[d], NoRow}
  BY DEF Load, Clear, Loaded, TypeOK
<1>. QED
  BY <1>1, <1>2 DEF RegisteredAtConfirm

LEMMA ConfirmSaved ==
    ASSUME RegisteredAtConfirm, BotInv, Chat \in Chats, pc = "handling", step # "CONFIRM",
           NEW s \in Steps, NEW d \in Data, Save(Chat, s, d), UNCHANGED profiles
    PROVE  RegisteredAtConfirm'
<1> SUFFICES ASSUME NEW p \in profiles, conv'[p.chat].talk = p.talk, p.chat = Chat
             PROVE  FALSE
  <2>1. \A p \in profiles : p.chat \in Chats
    BY DEF BotInv, TypeOK, Profile
  <2>2. \A c \in Chats : c # Chat => conv'[c] = conv[c]
    BY DEF BotInv, TypeOK, Save
  <2>. QED
    BY <2>1, <2>2 DEF RegisteredAtConfirm
<1>1. p.talk <= talks /\ talks \in Nat /\ p.talk \in Nat
  BY DEF BotInv, TalkInv, TypeOK, Profile
<1>2. p.talk = IF Gone(Chat) THEN talks + 1 ELSE conv[Chat].talk
  BY DEF Save, BotInv, TypeOK
<1>3. ~Gone(Chat) /\ conv[Chat].talk = p.talk
  BY <1>1, <1>2
<1>4. conv[Chat] # NoRow
  BY <1>3 DEF Gone, NoRow
<1>5. conv[Chat].step # "CONFIRM"
  BY DEF BotInv, HandlerInv
<1>. QED
  BY <1>3, <1>4, <1>5 DEF RegisteredAtConfirm

LEMMA ConfirmStep ==
    BotInv /\ RegisteredAtConfirm /\ [Next]_vars => RegisteredAtConfirm'
<1> SUFFICES ASSUME BotInv, RegisteredAtConfirm, Effects PROVE RegisteredAtConfirm'
  BY StepEffects DEF BotInv
<1>a. TypeOK /\ QueueInv /\ HandlerInv
  BY DEF BotInv
<1>b. pc # "polling" => Chat \in Chats
  BY <1>a, CurrentUpdate
<1>k. ASSUME UNCHANGED <<conv, profiles>> PROVE RegisteredAtConfirm'
  BY <1>k DEF RegisteredAtConfirm
<1>1. CASE Ends
  <2>1. Chat \in Chats /\ UNCHANGED profiles
    BY <1>1, <1>b DEF Ends, Unchanged, created
  <2>2. CASE Load(Chat) \/ Clear(Chat) \/ UNCHANGED rows
    BY <2>1, <2>2, <1>a, ConfirmKept DEF rows
  <2>3. CASE /\ pc = "handling" /\ step # "CONFIRM"
             /\ \E s \in Steps \ {"IDLE"}, d \in Data : Save(Chat, s, d)
    BY <2>1, <2>3, ConfirmSaved
  <2>. QED
    BY <1>1, <2>2, <2>3 DEF Ends
<1>2. CASE StartCommand \/ Route \/ ConfirmOther
  <2>1. Chat \in Chats /\ UNCHANGED profiles /\ (Load(Chat) \/ Clear(Chat))
    BY <1>2, <1>b DEF StartCommand, Route, ConfirmOther, Handling, created
  <2>. QED
    BY <2>1, <1>a, ConfirmKept
<1>3. CASE PostCreates \/ PostUnanswered
  <2>1. pc = "posting" /\ Acceptable /\ Create /\ UNCHANGED conv
    BY <1>3 DEF PostCreates, PostUnanswered, rows
  <2>2. conv[Chat].step = "CONFIRM" /\ New.chat = Chat
    BY <2>1, <1>a, CompleteRow, NewTyped DEF Acceptable
  <2>3. conv[Chat].data["context"] # "foreign"
    BY <2>1, <1>a, CompleteRow DEF Acceptable, HandlerInv
  <2>. QED
    BY <2>1, <2>2, <2>3 DEF RegisteredAtConfirm, Create
<1>4. CASE \/ PatchChat \/ PatchGivesUp \/ GetUpdates \/ GetUpdatesFails \/ Raise
           \/ Crash \/ UNCHANGED vars
           \/ \E c \in Chats : RowExpires(c) \/ \E input \in Inputs : UserSends(c, input)
  BY <1>4, <1>k
     DEF PatchChat, PatchGivesUp, GetUpdates, GetUpdatesFails, Raise, Crash, vars,
         RowExpires, UserSends, rows, created
<1>. QED
  BY <1>1, <1>2, <1>3, <1>4 DEF Effects

\* A conversation that made a profile stays at its confirmation with acceptable
\* answers, or ends (handle_ask_context, handle_confirm, dispatch).
THEOREM RegisteredStaysAtConfirm == Spec => []RegisteredAtConfirm
<1>1. Init => RegisteredAtConfirm
  BY DEF Init, RegisteredAtConfirm
<1>. QED
  BY <1>1, ConfirmStep, BotInductive, PTL DEF Spec

-----------------------------------------------------------------------------
\* A batch ends, whatever happens to its updates.

LEMMA RankOfPc ==
    /\ ToFinish["polling"] = 0 /\ ToFinish["clearing"] = 1 /\ ToFinish["patching"] = 2
    /\ ToFinish["posting"] = 3 /\ ToFinish["handling"] = 4 /\ ToFinish["routing"] = 5
BY DEF ToFinish

LEMMA BatchCounted ==
    ASSUME BotInv
    PROVE  /\ LeftOfBatch \in Nat
           /\ LeftOfBatch = 0 <=> pc = "polling"
<1>1. pc \in {"polling", "routing", "handling", "posting", "patching", "clearing"}
  BY DEF BotInv, TypeOK
<1>2. CASE pc = "polling"
  BY <1>2 DEF LeftOfBatch
<1>3. CASE pc # "polling"
  <2>1. last - next \in Nat
    BY <1>3 DEF BotInv, QueueInv, TypeOK
  <2>2. ToFinish[pc] \in 1..5
    BY <1>1, <1>3, RankOfPc
  <2>. QED
    BY <1>3, <2>1, <2>2 DEF LeftOfBatch
<1>. QED
  BY <1>2, <1>3

\* The end of a dispatch leaves the rest of the batch, or none.
LEMMA FinishLeavesLess ==
    ASSUME BotInv, pc # "polling", Finish
    PROVE  LeftOfBatch' < LeftOfBatch
<1>1. /\ next \in Nat /\ last \in Nat /\ next <= last
      /\ pc \in {"routing", "handling", "posting", "patching", "clearing"}
  BY DEF BotInv, TypeOK, QueueInv
<1>2. LeftOfBatch = 5 * (last - next) + ToFinish[pc] /\ ToFinish[pc] \in 1..5
  BY <1>1, RankOfPc DEF LeftOfBatch
<1>3. CASE next < last
  <2>1. next' = next + 1 /\ last' = last /\ pc' = "routing"
    BY <1>3 DEF Finish
  <2>2. LeftOfBatch' = 5 * (last - (next + 1)) + 5
    BY <2>1, RankOfPc DEF LeftOfBatch, ToFinish
  <2>. QED
    BY <1>1, <1>2, <2>2
<1>4. CASE ~(next < last)
  <2>1. pc' = "polling"
    BY <1>4 DEF Finish
  <2>2. LeftOfBatch' = 0
    BY <2>1 DEF LeftOfBatch
  <2>. QED
    BY <1>1, <1>2, <2>2
<1>. QED
  BY <1>3, <1>4

\* A step to a later part of the same dispatch.
LEMMA LaterPart ==
    ASSUME BotInv, UNCHANGED <<next, last>>,
           \/ pc = "routing" /\ pc' = "handling"
           \/ pc = "handling" /\ pc' = "posting"
           \/ pc = "posting" /\ pc' = "patching"
           \/ pc = "patching" /\ pc' = "clearing"
    PROVE  LeftOfBatch' < LeftOfBatch
<1>1. next \in Nat /\ last \in Nat
  BY DEF BotInv, TypeOK
<1>2. /\ LeftOfBatch = 5 * (last - next) + ToFinish[pc]
      /\ LeftOfBatch' = 5 * (last - next) + ToFinish[pc']
  BY DEF LeftOfBatch, ToFinish
<1>3. ToFinish[pc'] < ToFinish[pc] /\ ToFinish[pc] \in Nat /\ ToFinish[pc'] \in Nat
  BY RankOfPc
<1>. QED
  BY <1>1, <1>2, <1>3

\* Whatever handlers, Telegram and the API do, a batch comes to its end in at
\* most five steps for each of its updates (run_bot, dispatch, handle_confirm).
THEOREM BatchesEnd == Spec => BatchIsBounded
<1>1. BotInv => LeftOfBatch \in Nat /\ (LeftOfBatch = 0 <=> pc = "polling")
  BY BatchCounted
<1>2. BotInv /\ [Next]_vars
         => [pc # "polling" => UNCHANGED loop \/ LeftOfBatch' < LeftOfBatch]_vars
  <2> SUFFICES ASSUME BotInv, Effects, pc # "polling"
               PROVE  UNCHANGED loop \/ LeftOfBatch' < LeftOfBatch
    BY StepEffects DEF BotInv
  <2>1. CASE Ends \/ PostUnanswered \/ Raise
    BY <2>1, FinishLeavesLess DEF Ends, PostUnanswered, Raise
  <2>2. CASE StartCommand \/ Route \/ ConfirmOther
    BY <2>2, LaterPart DEF StartCommand, Route, ConfirmOther, Handling
  <2>3. CASE PostCreates \/ PatchChat \/ PatchGivesUp
    BY <2>3, LaterPart DEF PostCreates, PatchChat, PatchGivesUp
  <2>4. CASE Crash
    <3>1. LeftOfBatch' = 0
      BY <2>4 DEF Crash, LeftOfBatch
    <3>. QED
      BY <3>1, BatchCounted
  <2>5. CASE \/ GetUpdates \/ GetUpdatesFails \/ UNCHANGED vars
             \/ \E c \in Chats : RowExpires(c) \/ \E input \in Inputs : UserSends(c, input)
    BY <2>5 DEF GetUpdates, GetUpdatesFails, vars, RowExpires, UserSends
  <2>. QED
    BY <2>1, <2>2, <2>3, <2>4, <2>5 DEF Effects
<1>. QED
  BY <1>1, <1>2, BotInductive, PTL DEF Spec, BatchIsBounded

-----------------------------------------------------------------------------
\* The conversation of each chat implements Conversation.

Registered(c) == {p \in profiles : p.chat = c}

LEMMA ConversationFrame ==
    ASSUME NEW c \in Chats, UNCHANGED <<conv[c], Registered(c)>>
    PROVE  UNCHANGED Of(c)!vars
  BY DEF Of!vars, StepOf, Given, Registered

\* Clearing the row ends the conversation.
LEMMA ClearedEnds ==
    ASSUME NEW c \in Chats, conv'[c] = NoRow, UNCHANGED profiles PROVE Of(c)!End
<1>1. Given(c)' = {}
  BY RowConstants DEF Given, NoRow
<1>. QED
  BY <1>1 DEF Of!End, StepOf, NoRow, Steps

LEMMA LoadedKeepsOrEnds ==
    ASSUME TypeOK, NEW c \in Chats, Load(c) \/ Clear(c), UNCHANGED profiles
    PROVE  [Of(c)!Next]_(Of(c)!vars)
<1>1. conv'[c] = conv[c] \/ conv'[c] = NoRow
  BY DEF Load, Clear, Loaded, TypeOK
<1>. QED
  BY <1>1, ConversationFrame, ClearedEnds DEF Registered, Of!Next

\* The handler of a question leads to the next one, with its field given.
LEMMA AnsweredAnswers ==
    ASSUME TypeOK, NEW q \in Questions, NEW s \in Steps, NEW v \in {"given", "foreign"},
           NEW c \in Chats, c = Chat, conv[c].step = q, s = Of(c)!NextStep[q],
           Answered(Of(c)!Asked[q], v, s)
    PROVE  Of(c)!Answer
<1> DEFINE f == Of(c)!Asked[q]
           before == Loaded(c).data
<1>1. f \in Fields
  BY DEF Of!Asked, Questions, Fields
<1>2. /\ conv'[c].step = s /\ conv'[c].data = [before EXCEPT ![f] = v]
      /\ UNCHANGED profiles
  BY DEF Answered, Save, Unchanged, created, TypeOK
<1>3. before \in Data
  BY LoadedRow
<1>4. Given(c)' = {g \in Fields : before[g] # "missing"} \union {f}
  BY <1>1, <1>2, <1>3 DEF Given, Data
<1>5. before = Empty \/ before = conv[c].data
  BY DEF Loaded, NoRow
<1>6. {g \in Fields : before[g] # "missing"} \in {{}, Given(c)}
  BY <1>5, RowConstants DEF Given
<1>7. StepOf(c) = q /\ StepOf(c)' = s
  BY <1>2 DEF StepOf, Steps
<1>. QED
  BY <1>2, <1>4, <1>6, <1>7 DEF Of!Answer, Of!Questions, Questions

LEMMA HandlerAnswers ==
    ASSUME BotInv, NEW c \in Chats, c = Chat, Handler \/ Dispatch
    PROVE  [Of(c)!Next]_(Of(c)!vars)
<1>a. TypeOK /\ (pc = "handling" => conv[c].step = step)
  BY DEF BotInv, HandlerInv
<1>u. Unchanged => UNCHANGED profiles
  BY DEF Unchanged, created
<1>r. Refused => [Of(c)!Next]_(Of(c)!vars)
  BY <1>a, <1>u, LoadedKeepsOrEnds DEF Refused
<1>1. CASE Dispatch
  <2>1. CASE CancelCommand \/ StartCommand \/ NoHandler \/ Route
    BY <2>1, <1>a, <1>u, LoadedKeepsOrEnds
       DEF CancelCommand, StartCommand, NoHandler, Route, created
  <2>2. CASE NoMessage
    BY <2>2, <1>u, ConversationFrame DEF NoMessage, rows, Registered
  <2>. QED
    BY <1>1, <2>1, <2>2 DEF Dispatch
<1>2. CASE ConfirmNo \/ ConfirmOther
  BY <1>2, <1>a, <1>u, LoadedKeepsOrEnds DEF ConfirmNo, ConfirmOther, created
<1>3. CASE HandleIdle
  <2>1. conv'[c].step = "ASK_LANGUAGE" /\ conv'[c].data = Empty
    BY <1>3, <1>a DEF HandleIdle, Save, TypeOK
  <2>2. Given(c)' = {}
    BY <2>1, RowConstants DEF Given
  <2>3. StepOf(c) = "IDLE" /\ StepOf(c)' = "ASK_LANGUAGE"
    BY <1>3, <1>a, <2>1 DEF HandleIdle, Handling, StepOf, Steps, Questions
  <2>. QED
    BY <1>3, <1>u, <2>2, <2>3 DEF HandleIdle, Of!Begin, Of!Next
<1>4. CASE HandleAskLanguage
  <2>1. /\ conv'[c].step = "ASK_LOCATION"
        /\ conv'[c].data = [Empty EXCEPT !["language"] = "given"]
    BY <1>4, <1>a DEF HandleAskLanguage, Save, TypeOK
  <2>2. Given(c)' = {"language"}
    BY <2>1, RowConstants DEF Given, Fields, Data
  <2>3. StepOf(c) = "ASK_LANGUAGE" /\ StepOf(c)' = "ASK_LOCATION"
    BY <1>4, <1>a, <2>1 DEF HandleAskLanguage, Handling, StepOf, Steps, Questions
  <2>. QED
    BY <1>4, <1>u, <2>2, <2>3
       DEF HandleAskLanguage, Of!Answer, Of!Next, Of!NextStep, Of!Asked, Of!Questions
<1>5. CASE \/ HandleAskLocation \/ HandleAskName \/ HandleAskDate \/ HandleAskTime
           \/ HandleAskContext \/ HandleAskDuration
  <2>1. \/ Refused
        \/ \E q \in Questions, s \in Steps, v \in {"given", "foreign"} :
              /\ conv[c].step = q /\ s = Of(c)!NextStep[q]
              /\ Answered(Of(c)!Asked[q], v, s)
    <3> USE <1>a DEF Handling, Of!NextStep, Of!Asked, Steps, Questions
    <3>1. CASE HandleAskLocation
      BY <3>1 DEF HandleAskLocation
    <3>2. CASE HandleAskName
      BY <3>2 DEF HandleAskName
    <3>3. CASE HandleAskDate
      BY <3>3 DEF HandleAskDate
    <3>4. CASE HandleAskTime
      BY <3>4 DEF HandleAskTime
    <3>5. CASE HandleAskContext
      BY <3>5 DEF HandleAskContext
    <3>6. CASE HandleAskDuration
      BY <3>6 DEF HandleAskDuration
    <3>. QED
      BY <1>5, <3>1, <3>2, <3>3, <3>4, <3>5, <3>6
  <2>. QED
    BY <1>a, <1>r, <2>1, AnsweredAnswers DEF Of!Next
<1>. QED
  BY <1>1, <1>2, <1>3, <1>4, <1>5 DEF Handler

LEMMA PostRegisters ==
    ASSUME BotInv, NEW c \in Chats, c = Chat, PostCreates \/ PostUnanswered
    PROVE  Of(c)!Register
<1>1. HandlerInv /\ pc = "posting" /\ Acceptable /\ Create /\ UNCHANGED rows
  BY DEF BotInv, PostCreates, PostUnanswered
<1>2. conv[c].step = "CONFIRM" /\ New \in Profile /\ New.chat = Chat
  BY <1>1, CompleteRow, NewTyped DEF Acceptable
<1>3. StepOf(c) = "CONFIRM"
  BY <1>2 DEF StepOf, Steps
<1>4. Required \subseteq Given(c)
  BY <1>1 DEF Acceptable, Complete, HandlerInv, Given, Required, Fields
<1>5. New \notin profiles
  <2>1. \A p \in profiles : p.id <= made /\ made \in Nat
    BY DEF BotInv, TalkInv, TypeOK
  <2>. QED
    BY <2>1 DEF New
<1>6. Registered(c)' = Registered(c) \union {New} /\ New \notin Registered(c)
  BY <1>1, <1>2, <1>5 DEF Registered, Create
<1>7. New \in Registered(c)' \ Registered(c)
  BY <1>6
<1>. QED
  BY <1>1, <1>3, <1>4, <1>6, <1>7 DEF Of!Register, Of!Required, Required, Registered, StepOf, Given, rows

LEMMA ConversationStep ==
    ASSUME BotInv, [Next]_vars, NEW c \in Chats
    PROVE  [Of(c)!Next]_(Of(c)!vars)
<1>a. TypeOK /\ (pc # "polling" => Chat \in Chats)
  BY CurrentUpdate DEF BotInv
<1>1. CASE Handler \/ Dispatch
  <2>1. CASE c = Chat
    BY <1>1, <2>1, HandlerAnswers
  <2>2. CASE c # Chat
    <3>1. UNCHANGED profiles
      BY <1>1
         DEF Handler, Dispatch, Unchanged, created, CancelCommand, StartCommand, NoHandler,
             NoMessage, Route, HandleIdle, HandleAskLanguage, HandleAskLocation,
             HandleAskName, HandleAskDate, HandleAskTime, HandleAskContext,
             HandleAskDuration, ConfirmNo, ConfirmOther, Answered, Refused
    <3>2. conv'[c] = conv[c]
      BY <1>1, <1>a, <2>2
         DEF Handler, Dispatch, CancelCommand, StartCommand, NoHandler, NoMessage, Route,
             HandleIdle, HandleAskLanguage, HandleAskLocation, HandleAskName,
             HandleAskDate, HandleAskTime, HandleAskContext, HandleAskDuration, ConfirmNo,
             ConfirmOther, Answered, Refused, Load, Clear, Save, rows, TypeOK
    <3>. QED
      BY <3>1, <3>2, ConversationFrame DEF Registered
  <2>. QED
    BY <2>1, <2>2
<1>2. CASE PostCreates \/ PostUnanswered
  <2>1. pc = "posting" /\ UNCHANGED rows /\ Create
    BY <1>2 DEF PostCreates, PostUnanswered
  <2>2. CASE c = Chat
    BY <1>2, <2>2, PostRegisters DEF Of!Next
  <2>3. CASE c # Chat
    BY <2>1, <2>3, NewTyped, ConversationFrame DEF Create, Registered, rows
  <2>. QED
    BY <2>2, <2>3
<1>3. CASE ClearRegistered
  <2>1. Clear(Chat) /\ UNCHANGED profiles /\ Chat \in Chats
    BY <1>3, <1>a DEF ClearRegistered, Unchanged, created
  <2>2. CASE c = Chat
    BY <2>1, <2>2, <1>a, LoadedKeepsOrEnds
  <2>3. CASE c # Chat
    BY <2>1, <2>3, <1>a, ConversationFrame DEF Clear, Registered, TypeOK
  <2>. QED
    BY <2>2, <2>3
<1>4. CASE \/ PostRaises \/ PostRefused \/ PatchChat \/ PatchGivesUp \/ GetUpdates
           \/ GetUpdatesFails \/ Raise \/ Crash \/ UNCHANGED vars
           \/ \E d \in Chats : RowExpires(d) \/ \E input \in Inputs : UserSends(d, input)
  <2>1. UNCHANGED <<conv, profiles>>
    BY <1>4
       DEF PostRaises, PostRefused, PatchChat, PatchGivesUp, GetUpdates, GetUpdatesFails,
           Raise, Crash, vars, RowExpires, UserSends, Unchanged, rows, created
  <2>. QED
    BY <2>1, ConversationFrame DEF Registered
<1>. QED
  BY <1>1, <1>2, <1>3, <1>4 DEF Next, Loop, Register

\* Every chat's conversation keeps the order of the questions and registers at
\* its end only, with all that is required (dispatch and the handlers).
THEOREM BotFollowsConversation == Spec => FollowsConversation
<1>1. Init => ConversationsBegin
  <2> SUFFICES ASSUME Init, NEW c \in Chats PROVE Of(c)!Init
    BY DEF ConversationsBegin
  <2>1. StepOf(c) \in Steps /\ Given(c) \in SUBSET Fields
    BY DEF StepOf, Given, Steps
  <2>. QED
    BY <2>1 DEF Init, Of!Init, Of!Steps, Of!Questions, Of!Fields, Steps, Questions, Fields
<1>2. BotInv /\ [Next]_vars => [ConversationsStep]_vars
  BY ConversationStep DEF ConversationsStep
<1>. QED
  BY <1>1, <1>2, BotInductive, PTL DEF Spec, FollowsConversation
=============================================================================
