----------------------------- MODULE Extension -----------------------------
(***************************************************************************)
(* The browser extension of one buyer (apps/extension/src: the service     *)
(* worker, the content script, the side panel) driving a shopping task of  *)
(* the server.  Its calls are the actions of ShoppingTask; what is added   *)
(* is the worker's storage, the handlers in progress and the shop's page.  *)
(*                                                                         *)
(* A handler runs concurrently with every other: one step is a call of the *)
(* server with the storage writes that follow its answer, or a message to  *)
(* the page.  `running` covers a handler of advance only up to the first   *)
(* await of a promise it RETURNS from its try block ("return revalidate"), *)
(* as finally runs before that promise settles.                            *)
(***************************************************************************)
EXTENDS ShoppingTask

CONSTANTS
    Extension,      \* its installation id
    Handlers,       \* handlers in progress at the same time
    NoHandler,
    Labels,         \* the final controls the shop's pages show
    MaxFaults       \* bound of the faults

ASSUME ExtensionAssumption ==
    /\ Extension \in Installations /\ NoHandler \notin Handlers
    /\ MaxFaults \in Nat

VARIABLES
    flow,           \* storage: flow.phase, as far as a handler tests it
    grant,          \* storage: an executionGrant is kept
    handler,        \* handlers in progress: where, what they saw, what they report
    window,         \* the handler whose approval window is the newest
    operator,       \* the operator commands in hand, by number: how far each is
    tab,            \* what the shop's tab shows
    orders,         \* orders the shop has accepted
    faults

clientVars == <<flow, grant, handler, window, operator, tab, orders, faults>>
extensionVars == <<vars, clientVars>>

Phases == {"other", "approval_window_open", "checkout_configuring"}
Views == {"browse", "checkout", "confirmed", "refused", "unclear"}
Guarded == {"report", "tell", "resume", "configure", "observe"}
Places == Guarded \cup
    {"idle", "late_report", "late_tell", "save", "continue", "window", "inspect", "claim",
     "click", "resend", "store", "not_submitted", "finalize", "outcome"}
Idle == [at |-> "idle", seen |-> NoSnapshot, say |-> "none"]

ExtensionInit ==
    /\ Init
    /\ flow = "other"
    /\ grant = FALSE
    /\ handler = [h \in Handlers |-> Idle]
    /\ window = NoHandler
    /\ operator = [k \in 1..MaxCommands |-> "none"]
    /\ tab = "browse"
    /\ orders = 0
    /\ faults = 0

At(h, place) == handler[h].at = place
Go(h, place) == handler' = [handler EXCEPT ![h] = [Idle EXCEPT !.at = place]]
Say(h, place, status) ==
    handler' = [handler EXCEPT ![h] = [Idle EXCEPT !.at = place, !.say = status]]
Saw(h, place, s) ==
    handler' = [handler EXCEPT ![h] = [Idle EXCEPT !.at = place, !.seen = s]]
Done(h) == handler' = [handler EXCEPT ![h] = Idle]

(* advance begins: nothing else of it runs in its guarded part.             *)
Advances(h) == At(h, "idle") /\ \A g \in Handlers : handler[g].at \notin Guarded

OnlyHandlers == UNCHANGED <<vars, flow, grant, window, operator, tab, orders, faults>>

-----------------------------------------------------------------------------
(* The side panel and the product pages the buyer opens.                    *)

Connect ==
    /\ RegisterInstallation(Extension)
    /\ UNCHANGED clientVars

(* Handlers in progress keep their values, storage does not.                *)
Disconnect ==
    /\ RevokeInstallation(Extension)
    /\ flow' = "other" /\ grant' = FALSE
    /\ UNCHANGED <<handler, window, operator, tab, orders, faults>>

OpenTask(h) ==
    /\ At(h, "idle")
    /\ task.status = "waiting_for_extension"
    /\ Say(h, "late_report", "searching")
    /\ OnlyHandlers

(* A candidate from the panel, which tests nothing itself, or a product     *)
(* page the buyer opened.                                                   *)
ProposeProduct(p) ==
    /\ Propose(Extension, p)
    /\ flow' = "other"
    /\ UNCHANGED <<grant, handler, window, operator, tab, orders, faults>>

ConfirmProposal(h) ==
    /\ At(h, "idle")
    /\ ConfirmCandidate(Extension)
    /\ Say(h, "late_report", "navigating")
    /\ UNCHANGED <<flow, grant, window, operator, tab, orders, faults>>

DismissProposal ==
    /\ DismissCandidate(Extension)
    /\ flow' = "other"
    /\ UNCHANGED <<grant, handler, window, operator, tab, orders, faults>>

GrantFirst(reset) ==                                \* mutant of DropsGrant
    (reset \/ UNCHANGED vars) /\ grant' = FALSE
DropsGrant(reset) == reset /\ grant' = FALSE

ChangeProduct ==
    /\ DropsGrant(Restart)
    /\ flow' = "other" /\ tab' = "browse"
    /\ UNCHANGED <<handler, window, operator, orders, faults>>

(* What the page answers.  One that wants a login, a captcha or an OTP of   *)
(* the buyer says so instead; Cash on Delivery may not be offered.          *)
PaymentAnswers(payment) ==
    {"user_action_required",
     IF payment = "online" THEN "payment_action_required" ELSE "checkout_configuring"}

ChoosePayment(h, payment) ==
    /\ At(h, "idle")
    /\ SetPaymentPreference(Extension, payment)
    /\ \E answer \in PaymentAnswers(payment) : Say(h, "late_report", answer)
    /\ UNCHANGED <<flow, grant, window, operator, tab, orders, faults>>

-----------------------------------------------------------------------------
(* advance, up to the approval.                                             *)

(* inspect: the page shows candidates, or asks something of the buyer.      *)
Search(h) ==
    /\ Advances(h)
    /\ task.status = "searching" /\ task.selected = NoProduct
    /\ Go(h, "save") \/ Say(h, "late_tell", "user_action_required")
    /\ OnlyHandlers

SaveFound(h) ==
    /\ At(h, "save")
    /\ SaveCandidates(Extension)
    /\ Done(h) /\ flow' = "other"
    /\ UNCHANGED <<grant, window, operator, tab, orders, faults>>

SelectionConfirmed(h) ==
    /\ Advances(h)
    /\ task.status = "selection_confirmed"
    /\ Say(h, "tell", "navigating")
    /\ OnlyHandlers

(* Not ready: try again later, or after three times ask the buyer; how many *)
(* times is not counted.                                                    *)
RetryOrPause(h) ==
    \/ Done(h)
    \/ Say(h, "late_report", "user_action_required")

(* The page finds its control and opens the checkout, or it does not.       *)
ClickBuyNow == {"clicked", "not_found"}

BuyNow(h) ==
    /\ Advances(h)
    /\ task.status = "navigating" /\ task.selected # NoProduct
    /\ flow # "checkout_configuring"
    /\ flow' = "other"
    /\ \E answer \in ClickBuyNow :
        IF answer = "clicked"
        THEN Say(h, "report", "checkout_configuring") /\ tab' = "checkout"
        ELSE RetryOrPause(h) /\ UNCHANGED tab
    /\ UNCHANGED <<vars, grant, window, operator, orders, faults>>

ConfiguringStatuses ==
    {"checkout_configuring", "payment_choice_required", "payment_action_required"}

(* The page advances a step, is not ready, asks something of the buyer, or  *)
(* is the final review.                                                     *)
CheckoutAnswers ==
    {"advanced", "not_ready", "user_action_required",
     IF task.preference = NoPreference THEN "payment_choice_required" ELSE "final_review"}
    \cup (IF task.preference = "online" THEN {"payment_action_required"} ELSE {})

(* What a checkout page shows, with the payment the task asks for.          *)
PageEvidence ==
    {[product |-> p, payment |-> task.preference, details |-> x] :
        p \in Products, x \in Details}

Configure(h) ==
    /\ \/ /\ Advances(h)
          /\ task.status \in ConfiguringStatuses
          /\ task.status = "payment_choice_required" => task.preference # NoPreference
       \/ At(h, "configure")
    /\ \E answer \in CheckoutAnswers :
        CASE answer = "advanced" -> Done(h) /\ flow' = "checkout_configuring"
          [] answer = "not_ready" -> RetryOrPause(h) /\ UNCHANGED flow
          [] answer = "final_review" ->
                /\ tab = "checkout"
                /\ \E s \in PageEvidence : Saw(h, "observe", s)
                /\ flow' = "other"
          [] OTHER -> Say(h, "report", answer) /\ UNCHANGED flow
    /\ UNCHANGED <<vars, grant, window, operator, tab, orders, faults>>

(* The buyer says the visible step is done.                                 *)
Resume(h) ==
    /\ Advances(h)
    /\ task.status = "user_action_required"
    /\ Say(h, "resume", "checkout_configuring")
    /\ OnlyHandlers

PhaseOf(say) == IF say = "checkout_configuring" THEN say ELSE "other"

(* Every status report of a handler, with the phase it saves afterwards     *)
(* unless it only tells.                                                    *)
Report(h) ==
    /\ handler[h].at \in {"report", "late_report", "tell", "late_tell", "resume"}
    /\ ReportStatus(Extension, handler[h].say)
    /\ IF At(h, "resume") THEN Go(h, "configure") ELSE Done(h)
    /\ flow' = IF handler[h].at \in {"report", "late_report"}
               THEN PhaseOf(handler[h].say) ELSE flow
    /\ UNCHANGED <<grant, window, operator, tab, orders, faults>>

Observe(h) ==
    /\ At(h, "observe")
    /\ \E sound \in BOOLEAN : ObserveCheckout(Extension, handler[h].seen, sound)
    /\ IF task'.status = "pending_approval"
       THEN Go(h, "continue") /\ flow' = "approval_window_open"
       ELSE Done(h) /\ UNCHANGED flow
    /\ UNCHANGED <<grant, window, operator, tab, orders, faults>>

-----------------------------------------------------------------------------
(* The approval window.                                                     *)

(* On its own account the worker opens one window; the buyer's button opens *)
(* another whatever the phase.                                              *)
OpenApproval(h, pressed) ==
    /\ At(h, "idle")
    /\ task.status = "pending_approval"
    /\ IF pressed THEN UNCHANGED flow
       ELSE /\ Advances(h)
            /\ flow # "approval_window_open" /\ flow' = "approval_window_open"
    /\ Go(h, "continue")
    /\ UNCHANGED <<vars, grant, window, operator, tab, orders, faults>>

Continue(h) ==
    /\ At(h, "continue")
    /\ CreateApprovalContinuation(Extension)
    /\ Go(h, "window") /\ window' = h
    /\ UNCHANGED <<flow, grant, operator, tab, orders, faults>>

(* The callback reaches the handler of that window if it still waits.       *)
Answers(h) == window = h /\ At(h, "window")
NobodyWaits == \A h \in Handlers : ~Answers(h)

WindowApproved ==
    /\ CompleteApprovalContinuation
    /\ \/ \E h \in Handlers : Answers(h) /\ Go(h, "inspect") /\ flow' = "other"
       \/ NobodyWaits /\ UNCHANGED <<handler, flow>>
    /\ UNCHANGED <<grant, window, operator, tab, orders, faults>>

WindowCancelled ==
    /\ \/ \E h \in Handlers :
            /\ Answers(h) /\ Done(h)
            /\ DropsGrant(CancelApprovalContinuation)
            /\ flow' = "other" /\ tab' = "browse"
       \/ NobodyWaits /\ CancelApprovalContinuation /\ UNCHANGED <<handler, grant, flow, tab>>
    /\ UNCHANGED <<window, operator, orders, faults>>

PhaseKept == flow                                   \* mutant of PhaseReset
PhaseReset == "other"

WindowClosed(h) ==
    /\ At(h, "window")
    /\ Done(h) /\ flow' = PhaseReset
    /\ UNCHANGED <<vars, grant, window, operator, tab, orders, faults>>

-----------------------------------------------------------------------------
(* Revalidation and the final submission.                                   *)

Inspect(h) ==
    /\ (Advances(h) /\ task.status = "approved") \/ At(h, "inspect")
    /\ tab = "checkout" /\ task.preference # NoPreference
    /\ \E s \in PageEvidence : Saw(h, "claim", s)
    /\ OnlyHandlers

AlwaysSubmits(status) == TRUE                       \* mutant of Submits
Submits(status) == status = "submitting"

Claim(h) ==
    /\ At(h, "claim")
    /\ \E sound \in BOOLEAN :
        \/ ClaimExecution(Extension, handler[h].seen, sound)
        \/ DenyExecution(Extension, handler[h].seen, sound)
    /\ IF Submits(task'.status)
       THEN Saw(h, "click", handler[h].seen) /\ UNCHANGED flow
       ELSE Done(h) /\ flow' = "other"
    /\ UNCHANGED <<grant, window, operator, tab, orders, faults>>

(* The patterns of submitLive and of operatorAction.                        *)
FinalLabels(payment) ==
    IF payment = "cash_on_delivery" THEN {"place order", "confirm order"}
    ELSE {"place order", "continue to payment", "pay now", "buy credits", "add to balance",
          "add to credit balance", "complete purchase"}
BlockedLabels ==
    {"place order", "confirm purchase", "buy credits", "add to balance", "pay now",
     "subscribe", "start trial", "complete purchase"}

(* The shop takes the order, refuses it, or leaves it open.                 *)
ClickFinal ==
    /\ tab = "checkout"
    /\ \/ tab' \in {"confirmed", "unclear"} /\ orders' = orders + 1
       \/ tab' \in {"refused", "unclear"} /\ UNCHANGED orders

Recognised(h) == Labels \cap FinalLabels(handler[h].seen.payment) # {}

(* The page clicks what it shows by now; nothing compares it with the claim.*)
Click(h) ==
    /\ handler[h].at \in {"click", "resend"}
    /\ \/ Recognised(h) /\ ClickFinal /\ Go(h, "store")
       \/ Go(h, "not_submitted") /\ UNCHANGED <<tab, orders>>
    /\ UNCHANGED <<vars, flow, grant, window, operator, faults>>

(* The page clicked and its answer is lost: commandTab sends the command    *)
(* a second time.                                                           *)
AnswerLost(h) ==
    /\ faults < MaxFaults
    /\ At(h, "click")
    /\ Recognised(h) /\ ClickFinal
    /\ Saw(h, "resend", handler[h].seen) /\ faults' = faults + 1
    /\ UNCHANGED <<vars, flow, grant, window, operator>>

StoreGrant(h) ==
    /\ At(h, "store")
    /\ grant' = TRUE /\ flow' = "other"
    /\ Done(h)
    /\ UNCHANGED <<vars, window, operator, tab, orders, faults>>

NotSubmitted(h) ==
    /\ At(h, "not_submitted")
    /\ ReportExecution(Extension, "failed")
    /\ Done(h)
    /\ UNCHANGED <<flow, grant, window, operator, tab, orders, faults>>

Finalize(h) ==
    /\ Advances(h)
    /\ task.status = "submitting" /\ grant
    /\ Go(h, "finalize")
    /\ OnlyHandlers

PageAsItIs(view) == view                            \* mutant of OutcomeOf
UnclearFails(view) ==                               \* mutant of OutcomeOf
    IF view = "confirmed" THEN "completed" ELSE "failed"
OutcomeOf(view) ==
    CASE view = "confirmed" -> "completed"
      [] view = "refused" -> "failed"
      [] OTHER -> "reconciliation_required"

ExecutionOutcome(h) ==
    /\ At(h, "finalize")
    /\ \E outcome \in {OutcomeOf(tab), "user_action_required"} : Say(h, "outcome", outcome)
    /\ OnlyHandlers

ReportOutcome(h) ==
    /\ At(h, "outcome")
    /\ ReportExecution(Extension, handler[h].say)
    /\ grant' = FALSE /\ flow' = "other"
    /\ Done(h)
    /\ UNCHANGED <<window, operator, tab, orders, faults>>

-----------------------------------------------------------------------------
(* The operator, and what goes wrong.                                       *)

(* Every alarm claims the oldest command, also while another is in hand.    *)
PollOperator ==
    /\ ClaimOperatorCommand(Extension)
    /\ \E k \in Oldest : operator' = [operator EXCEPT ![k] = "claimed"]
    /\ UNCHANGED <<flow, grant, handler, window, tab, orders, faults>>

(* A command moves the tab or clicks a control of the page, which may go    *)
(* away with its answer; or the page declines it.                           *)
OperatorActs(k) ==
    /\ operator[k] = "claimed"
    /\ \E result \in CommandResults :
        /\ operator' = [operator EXCEPT ![k] = result]
        /\ \/ result \in {"blocked", "failed"} /\ UNCHANGED <<tab, orders>>
           \/ /\ result \in {"completed", "failed"}
              /\ \/ tab' \in {"browse", "checkout"} /\ UNCHANGED orders
                 \/ Labels \ BlockedLabels # {} /\ ClickFinal
    /\ UNCHANGED <<vars, flow, grant, handler, window, faults>>

(* Its result is reported, or the server refuses the report.                *)
OperatorReports(k) ==
    /\ operator[k] \in CommandResults
    /\ operator' = [operator EXCEPT ![k] = "none"]
    /\ \/ CompleteOperatorCommand(Extension, k, operator[k])
       \/ ~LockedBy(Extension) /\ UNCHANGED vars
    /\ UNCHANGED <<flow, grant, handler, window, tab, orders, faults>>

(* The buyer or the shop changes the page.                                  *)
PageMoves ==
    /\ tab' \in {"browse", "checkout"} \ {tab}
    /\ UNCHANGED <<vars, flow, grant, handler, window, operator, orders, faults>>

(* A call the server refuses ends its handler, as does a lost precondition. *)
Refusable(h) ==
    CASE handler[h].at = "save" -> task.status \notin SearchStatuses \/ reviewed # {}
      [] handler[h].at = "continue" -> task.status # "pending_approval"
      [] handler[h].at = "observe" ->
            task.selected = NoProduct \/ task.status \notin ObservableStatuses
      [] handler[h].at = "inspect" -> tab # "checkout" \/ task.preference = NoPreference
      [] handler[h].at = "claim" -> ~MayClaim(Extension) \/ (task.mode = "live" /\ ~live)
      [] handler[h].at \in {"not_submitted", "outcome"} ->
            ~Reportable \/ ~GrantValid(Extension)
      [] OTHER -> FALSE

Refused(h) ==
    /\ Refusable(h) \/ (handler[h].at \notin {"idle", "window", "store"} /\ ~LockedBy(Extension))
    /\ Done(h)
    /\ OnlyHandlers

(* A call fails on its way, or the approval window ends in an exception.    *)
CallFails(h) ==
    /\ faults < MaxFaults
    /\ ~At(h, "idle")
    /\ Done(h) /\ faults' = faults + 1
    /\ UNCHANGED <<vars, flow, grant, window, operator, tab, orders>>

(* The browser stops the worker: storage stays, everything in progress goes.*)
WorkerStops ==
    /\ faults < MaxFaults
    /\ handler' = [h \in Handlers |-> Idle]
    /\ operator' = [k \in 1..MaxCommands |-> "none"]
    /\ faults' = faults + 1
    /\ UNCHANGED <<vars, flow, grant, window, tab, orders>>

-----------------------------------------------------------------------------
HandlerNext(h) ==
    \/ OpenTask(h) \/ ConfirmProposal(h)
    \/ \E payment \in Payments : ChoosePayment(h, payment)
    \/ Search(h) \/ SaveFound(h) \/ SelectionConfirmed(h) \/ BuyNow(h)
    \/ Configure(h) \/ Resume(h) \/ Report(h) \/ Observe(h)
    \/ \E pressed \in BOOLEAN : OpenApproval(h, pressed)
    \/ Continue(h) \/ WindowClosed(h)
    \/ Inspect(h) \/ Claim(h) \/ Click(h) \/ AnswerLost(h) \/ StoreGrant(h)
    \/ NotSubmitted(h) \/ Finalize(h) \/ ExecutionOutcome(h) \/ ReportOutcome(h)
    \/ Refused(h) \/ CallFails(h)

(* The buyer on the dashboard and the approval page, and the agent.         *)
BuyerActs ==
    /\ \/ \E enabled \in BOOLEAN : SetLiveMode(enabled)
       \/ \E siteLive \in BOOLEAN : CreateTask(siteLive)
       \/ Restart
       \/ QueueOperatorAction
       \/ \E own \in BOOLEAN : OpenPage(own)
       \/ ShoppingApprovalOptions \/ AnswerChallenge \/ DeclineChallenge
       \/ Approve \/ ApproveRefused
       \/ Tick
    /\ UNCHANGED clientVars

ExtensionNext ==
    \/ Connect \/ Disconnect
    \/ \E p \in Products : ProposeProduct(p)
    \/ DismissProposal \/ ChangeProduct
    \/ WindowApproved \/ WindowCancelled
    \/ PollOperator \/ PageMoves \/ WorkerStops
    \/ \E k \in 1..MaxCommands : OperatorActs(k) \/ OperatorReports(k)
    \/ BuyerActs
    \/ \E h \in Handlers : HandlerNext(h)

ExtensionSpec == ExtensionInit /\ [][ExtensionNext]_extensionVars

-----------------------------------------------------------------------------
(* Properties.                                                              *)

ExtensionTypeOK ==
    /\ TypeOK
    /\ flow \in Phases
    /\ grant \in BOOLEAN
    /\ handler \in [Handlers -> [at : Places, seen : Snapshots \cup {NoSnapshot},
                                 say : TaskStatuses \cup Outcomes]]
    /\ window \in Handlers \cup {NoHandler}
    /\ operator \in [1..MaxCommands -> {"none", "claimed"} \cup CommandResults]
    /\ tab \in Views
    /\ orders \in Nat
    /\ faults \in 0..MaxFaults

(* What the shop was ordered to do was claimed first, by a live task, and   *)
(* done once: also when two handlers revalidate at the same time, the       *)
(* operator clicks on, or the buyer changes the product.  A lost answer is  *)
(* the exception: commandTab repeats the click (service-worker.ts:305).     *)
OrderedOnceClaimed ==
    /\ orders > 0 => task.mode = "live" /\ attempt.status \notin {"none", "prepared"}
    /\ orders <= 1 + faults

(* What README.md:328 says of the operator: "cannot approve or submit".     *)
(* Whatever the page of a shop shows, acting on a command orders nothing.   *)
OperatorNeverSubmits ==
    [][\A k \in 1..MaxCommands :
        operator[k] = "claimed" /\ operator'[k] \in CommandResults =>
            orders' = orders]_extensionVars

(* An execution is recorded as failed only if the shop took no order.       *)
FailedMeansNoOrder == attempt.status = "failed" /\ faults = 0 => orders = 0

(* While a claimed execution can be reported, within the life of its grant, *)
(* that grant is with a handler or in storage, whatever product changes,    *)
(* cancelled windows and second handlers do meanwhile.                      *)
GrantIsHeld ==
    task.status = "submitting" /\ GrantValid(Extension)
    /\ installs[Extension] = "active" /\ faults = 0 =>
        \/ grant
        \/ \E h \in Handlers : handler[h].at \in {"click", "resend", "store", "not_submitted"}

(* The phase that keeps the worker from opening a second approval window    *)
(* is set only while a first one is open or being opened, or once the task  *)
(* no longer waits for approval: otherwise it would wait for ever.          *)
WindowBehindPhase ==
    flow = "approval_window_open" /\ task.status = "pending_approval"
    /\ installs[Extension] = "active" /\ faults = 0 =>
        \E h \in Handlers : handler[h].at \in {"continue", "window"}
=============================================================================
