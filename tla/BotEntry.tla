-------------------------------- MODULE BotEntry --------------------------------
(***************************************************************************)
(* How the operator's messages reach the bot (telegram_app/polling_runner, *)
(* the routing of app_service.handle_update) and the wizard that signs a   *)
(* managed account in (telegram_app/auth).                                 *)
(*                                                                         *)
(* Telegram hands out updates from an offset; the runner handles them one  *)
(* after the other, sends the answers and then keeps the update's id in    *)
(* its cursor file.  The registry, the wizard's state and the cursor are   *)
(* files of their own; the bot may die between any two of them.            *)
(***************************************************************************)
EXTENDS Naturals, Sequences, FiniteSets

CONSTANTS
    MaxUpdates,       \* bound: messages the operator sends
    MaxBotDeaths,     \* bound: deaths of the bot
    MaxFailures       \* bound: turns that raise and answers Telegram does not take

ASSUME BotConstantsOK == MaxUpdates \in Nat \ {0} /\ MaxBotDeaths \in Nat /\ MaxFailures \in Nat

\* A photo is an update without text; a secret is a login code or a password.
Texts == {"photo", "addaccount", "cancelauth", "command", "phone", "secret"}
Steps == {"none", "waiting_phone", "waiting_code", "waiting_password", "completed", "cancelled"}
BotStages == {"poll", "take", "onboard", "finish", "answer", "mark"}

VARIABLES
    updates,        \* the texts of the updates, by id
    cursor,         \* last_processed_update_id: [disk, memory]
    batch,          \* ids of the getUpdates answer still to be handled
    bot_stage,      \* where the runner is with the first of them
    wizard,         \* the operator's PendingAuthState: step and phone_code_hash
    telegram,       \* the account at Telegram: newest code, is it good, two factors, signed in
    registered,     \* the account is in the registry
    bot_deaths, failures,
    handled,        \* history: how often each update was handled to its end
    cut             \* history: updates the bot died over, or whose answer failed

bot_vars == <<updates, cursor, batch, bot_stage, wizard, telegram, registered, bot_deaths, failures,
              handled, cut>>
world == <<bot_deaths, failures, handled, cut>>

Active == wizard.step \in {"waiting_phone", "waiting_code", "waiting_password"}
Id == Head(batch)
Said == updates[Id]
Taking == bot_stage = "take" /\ batch # <<>>
AlreadyProcessed(i) == i <= cursor.memory
Handling == Taking /\ ~AlreadyProcessed(Id) /\ Said # "photo"

------------------------------------------------------------------------------
(* The world: the operator and Telegram.                                   *)

Receive ==
    /\ Len(updates) < MaxUpdates
    /\ \E t \in Texts : updates' = Append(updates, t)
    /\ UNCHANGED <<cursor, batch, bot_stage, wizard, telegram, registered>> /\ UNCHANGED world

CodeExpires ==
    /\ telegram.good /\ telegram' = [telegram EXCEPT !.good = FALSE]
    /\ UNCHANGED <<updates, cursor, batch, bot_stage, wizard, registered>> /\ UNCHANGED world

------------------------------------------------------------------------------
(* TelegramPollingRunner.                                                  *)

\* getUpdates from the offset; an update processed before may come once more.
GetUpdates ==
    /\ bot_stage = "poll" /\ Len(updates) > cursor.memory
    /\ \E first \in {cursor.memory, cursor.memory + 1} \ {0} :
         batch' = [i \in 1..(Len(updates) + 1 - first) |-> first + i - 1]
    /\ bot_stage' = "take"
    /\ UNCHANGED <<updates, cursor, wizard, telegram, registered>> /\ UNCHANGED world

PollAgain ==
    /\ bot_stage = "take" /\ batch = <<>>
    /\ bot_stage' = "poll"
    /\ UNCHANGED <<updates, cursor, batch, wizard, telegram, registered>> /\ UNCHANGED world

SkipProcessed ==
    /\ Taking /\ AlreadyProcessed(Id)
    /\ batch' = Tail(batch)
    /\ UNCHANGED <<updates, cursor, bot_stage, wizard, telegram, registered>> /\ UNCHANGED world

SkipUnsupported ==
    /\ Taking /\ ~AlreadyProcessed(Id) /\ Said = "photo"
    /\ bot_stage' = "mark"
    /\ UNCHANGED <<updates, cursor, batch, wizard, telegram, registered>> /\ UNCHANGED world

\* Mutant: the rest of the batch is handled after a failure.
NextOne == Tail(batch)
\* An exception: the rest of the batch is dropped, the same offset asked for again.
RestOfBatch == <<>>

HandlerRaises ==
    /\ Handling /\ failures < MaxFailures
    /\ failures' = failures + 1
    /\ batch' = RestOfBatch
    /\ UNCHANGED <<updates, cursor, bot_stage, wizard, telegram, registered, bot_deaths, handled,
                   cut>>

AnswerSent ==
    /\ bot_stage = "answer"
    /\ bot_stage' = "mark"
    /\ UNCHANGED <<updates, cursor, batch, wizard, telegram, registered>> /\ UNCHANGED world

AnswerFails ==
    /\ bot_stage = "answer" /\ failures < MaxFailures
    /\ failures' = failures + 1 /\ cut' = cut \cup {Id}
    /\ batch' = RestOfBatch /\ bot_stage' = "take"
    /\ UNCHANGED <<updates, cursor, wizard, telegram, registered, bot_deaths, handled>>

MarkProcessed ==
    /\ bot_stage = "mark"
    /\ cursor' = [disk |-> Id, memory |-> Id]
    /\ batch' = Tail(batch) /\ bot_stage' = "take"
    /\ UNCHANGED <<updates, wizard, telegram, registered>> /\ UNCHANGED world

BotDies ==
    /\ bot_deaths < MaxBotDeaths /\ bot_stage # "poll"
    /\ bot_deaths' = bot_deaths + 1
    /\ cut' = IF bot_stage \in {"onboard", "finish", "answer", "mark"} THEN cut \cup {Id} ELSE cut
    /\ cursor' = [cursor EXCEPT !.memory = cursor.disk]
    /\ batch' = <<>> /\ bot_stage' = "poll"
    /\ UNCHANGED <<updates, wizard, telegram, registered, failures, handled>>

------------------------------------------------------------------------------
(* TelegramAppService.handle_update and AuthManager.                       *)

Handled ==
    /\ handled' = [handled EXCEPT ![Id] = @ + 1]
    /\ bot_stage' = "answer"
    /\ UNCHANGED <<updates, cursor, batch, bot_deaths, failures, cut>>

\* No wizard: the message belongs to the account list or to a turn of the orchestrator.
OtherTurn ==
    /\ Handling /\ ~Active /\ Said # "addaccount"
    /\ Handled /\ UNCHANGED <<wizard, telegram, registered>>

\* In the wizard: "/addaccount" repeats the question, other commands are refused, and so
\* is a text the step cannot use.
NoProgress ==
    /\ Handling /\ Active
    /\ \/ Said \in {"addaccount", "command"}
       \/ wizard.step = "waiting_phone" /\ Said = "secret"
       \/ wizard.step = "waiting_code" /\ Said = "phone"
       \/ wizard.step = "waiting_phone" /\ Said = "phone"       \* onboarded, or no code to be had
    /\ Handled /\ UNCHANGED <<wizard, telegram, registered>>

StartWizard ==
    /\ Handling /\ ~Active /\ Said = "addaccount"
    /\ wizard' = [step |-> "waiting_phone", hash |-> 0]
    /\ Handled /\ UNCHANGED <<telegram, registered>>

CancelWizard ==
    /\ Handling /\ Active /\ Said = "cancelauth"
    /\ wizard' = [wizard EXCEPT !.step = "cancelled"]
    /\ Handled /\ UNCHANGED <<telegram, registered>>

NewCode == [telegram EXCEPT !.hash = @ + 1, !.good = TRUE]

\* request_login_code, for a number that is not in the registry.
EnterPhone ==
    /\ Handling /\ wizard.step = "waiting_phone" /\ Said = "phone" /\ ~registered
    /\ telegram' = NewCode
    /\ wizard' = [step |-> "waiting_code", hash |-> telegram.hash + 1]
    /\ Handled /\ UNCHANGED registered

\* sign_in_with_code succeeds: the code is the newest one and there is no second factor.
CodeIsEnough == ~telegram.two_factors
CodeIsGood == telegram.good /\ wizard.hash = telegram.hash

EnterCode ==
    /\ Handling /\ wizard.step = "waiting_code" /\ Said = "secret" /\ CodeIsGood
    /\ telegram' = [telegram EXCEPT !.good = FALSE, !.signed_in = ~telegram.two_factors]
    /\ IF CodeIsEnough
       THEN bot_stage' = "onboard" /\ UNCHANGED <<wizard, updates, cursor, batch>> /\ UNCHANGED world
       ELSE wizard' = [wizard EXCEPT !.step = "waiting_password"] /\ Handled
    /\ UNCHANGED registered

\* A wrong code counts as an attempt.  One that has expired is replaced, and when Telegram
\* gives no other the wizard asks for the number again.
CodeRefused ==
    /\ Handling /\ wizard.step = "waiting_code" /\ Said = "secret"
    /\ \/ UNCHANGED <<wizard, telegram>>
       \/ /\ ~CodeIsGood
          /\ \/ telegram' = NewCode /\ wizard' = [wizard EXCEPT !.hash = telegram.hash + 1]
             \/ wizard' = [step |-> "waiting_phone", hash |-> 0] /\ UNCHANGED telegram
    /\ Handled /\ UNCHANGED registered

EnterPassword ==
    /\ Handling /\ wizard.step = "waiting_password" /\ Said \in {"secret", "phone"}
    /\ \/ /\ telegram' = [telegram EXCEPT !.signed_in = TRUE] /\ bot_stage' = "onboard"
          /\ UNCHANGED <<updates, cursor, batch>> /\ UNCHANGED world
       \/ Handled /\ UNCHANGED telegram                          \* a wrong password
    /\ UNCHANGED <<wizard, registered>>

\* _finalize_success: the registry first, then the wizard's state.
SaveAccount ==
    /\ bot_stage = "onboard"
    /\ registered' = TRUE /\ bot_stage' = "finish"
    /\ UNCHANGED <<updates, cursor, batch, wizard, telegram>> /\ UNCHANGED world

CompleteWizard ==
    /\ bot_stage = "finish"
    /\ wizard' = [wizard EXCEPT !.step = "completed"]
    /\ Handled /\ UNCHANGED <<telegram, registered>>

------------------------------------------------------------------------------
BotInit ==
    /\ updates = <<>> /\ cursor = [disk |-> 0, memory |-> 0] /\ batch = <<>> /\ bot_stage = "poll"
    /\ wizard = [step |-> "none", hash |-> 0]
    /\ \E two \in BOOLEAN :
         telegram = [hash |-> 0, good |-> FALSE, two_factors |-> two, signed_in |-> FALSE]
    /\ registered = FALSE /\ bot_deaths = 0 /\ failures = 0
    /\ handled = [i \in 1..MaxUpdates |-> 0] /\ cut = {}

BotNext ==
    \/ Receive \/ CodeExpires
    \/ GetUpdates \/ PollAgain \/ SkipProcessed \/ SkipUnsupported \/ HandlerRaises
    \/ AnswerSent \/ AnswerFails \/ MarkProcessed \/ BotDies
    \/ OtherTurn \/ NoProgress \/ StartWizard \/ CancelWizard \/ EnterPhone \/ EnterCode
    \/ CodeRefused \/ EnterPassword \/ SaveAccount \/ CompleteWizard

BotSpec == BotInit /\ [][BotNext]_bot_vars

------------------------------------------------------------------------------
BotTypeOK ==
    /\ updates \in Seq(Texts) /\ cursor \in [disk : 0..MaxUpdates, memory : 0..MaxUpdates]
    /\ batch \in Seq(1..MaxUpdates) /\ bot_stage \in BotStages
    /\ wizard \in [step : Steps, hash : Nat]
    /\ telegram \in [hash : Nat, good : BOOLEAN, two_factors : BOOLEAN, signed_in : BOOLEAN]
    /\ registered \in BOOLEAN /\ bot_deaths \in 0..MaxBotDeaths /\ failures \in 0..MaxFailures
    /\ handled \in [1..MaxUpdates -> Nat] /\ cut \subseteq 1..MaxUpdates

\* The cursor passes no message that was not handled, whatever fails or dies.
NoneSkipped == \A i \in 1..cursor.disk : updates[i] # "photo" => handled[i] > 0

\* A message is handled twice only when its answer failed or the bot died over it.
HandledAgainAfterTrouble == \A i \in 1..MaxUpdates : handled[i] > 1 => i \in cut

\* An account is in the registry once Telegram has signed it in, and then the wizard
\* waits for nothing more of the operator unless the bot died before it was completed.
OnboardingAgrees ==
    /\ registered => telegram.signed_in
    /\ registered /\ Active /\ cut = {} => bot_stage = "finish" \/ wizard.step = "waiting_phone"

\* Whatever fails or dies, no message is lost, none is repeated without a trouble, and the
\* wizard that several messages drive agrees with Telegram and the registry.
TurnsSurviveTrouble == NoneSkipped /\ HandledAgainAfterTrouble /\ OnboardingAgrees
=============================================================================
