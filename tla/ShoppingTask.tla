---------------------------- MODULE ShoppingTask ----------------------------
(***************************************************************************)
(* One browser shopping task on the server: the transactions of            *)
(* apps/server/src/browser-agent.ts, the passkey approval around them      *)
(* (apps/server/src/webauthn.ts), the evidence check of                    *)
(* packages/core/src/shopping.ts, and the buyer's approval page            *)
(* (apps/web/src/pages/ShoppingTaskPage.tsx).                              *)
(*                                                                         *)
(* Every handler locks the task row first (lockTask, FOR UPDATE), so one   *)
(* action is one committed transaction; a handler that throws rolls back   *)
(* and is no step.  The extension and the page are not trusted to call     *)
(* the handlers in any order: every call is possible whenever the server   *)
(* would accept it.                                                        *)
(*                                                                         *)
(* Checkout evidence is a product, a payment choice and everything else    *)
(* the page showed (seller, address, total, ...), one value of Details;    *)
(* its hash is the evidence itself, observedAt being excluded from both.   *)
(***************************************************************************)
EXTENDS Integers, Sequences

CONSTANTS
    Products,           \* canonicalProductId values
    Details,            \* the other evidence of a checkout
    Installations,      \* browser_installations ids of the buyer
    NoProduct, NoSnapshot, NoInstallation,
    ProposalTtl,        \* life of a product proposal: 15 minutes
    PermitTtl,          \* life of a browser purchase permit: 10 minutes
    ContinuationTtl,    \* life of an approval continuation: 5 minutes
    ChallengeTtl,       \* life of a WebAuthn challenge: 5 minutes
    GrantTtl,           \* life of an execution grant: 2 minutes
    TaskTtl,            \* expiresInMinutes
    Reports,            \* the statuses an extension reports
    MaxNow,             \* bound of the clock
    MaxContinuations,   \* bound of the approval continuations
    MaxCommands         \* bound of the operator's commands

ASSUME DurationsAssumption ==
    /\ ProposalTtl \in Nat /\ PermitTtl \in Nat /\ ContinuationTtl \in Nat
    /\ ChallengeTtl \in Nat /\ GrantTtl \in Nat /\ TaskTtl \in Nat
    /\ MaxNow \in Nat /\ MaxContinuations \in Nat /\ MaxCommands \in Nat
ASSUME NoneAssumption == NoProduct \notin Products

Payments == {"cash_on_delivery", "online"}
Snapshots == [product : Products, payment : Payments, details : Details]

ProgressStatuses ==
    {"searching", "navigating", "checkout_configuring", "payment_choice_required",
     "payment_action_required", "user_action_required", "failed"}

ASSUME ReportsAssumption == Reports \subseteq ProgressStatuses
ASSUME NoSnapshotAssumption == NoSnapshot \notin Snapshots

VARIABLES
    now,            \* the database clock
    live,           \* users.browser_live_purchase_enabled
    installs,       \* browser_installations
    task,           \* the shopping_tasks row
    reviewed,       \* candidates a shopping_selection_proposals row refers to
    proposal,       \* the pending proposal
    permit,         \* the browser_purchase_permits row of the task
    continuation,   \* the unconsumed browser_approval_continuations row, how many were made
    page,           \* the buyer's approval page and its WebAuthn challenge
    passkey,        \* evidence named by the last PASSKEY_VERIFIED event
    attempt,        \* the browser_execution_attempts row of the task
    commands        \* browser_operator_commands, by sequence

serverVars == <<live, installs, commands>>
vars == <<now, serverVars, task, reviewed, proposal, permit, continuation,
          page, passkey, attempt>>

-----------------------------------------------------------------------------
(* Rows and statuses.                                                       *)

(* A task's status: an execution has left its mark in FinalStatuses.        *)
FinalStatuses == {"submitting", "prepared", "completed", "reconciliation_required"}
TaskStatuses == FinalStatuses \cup ProgressStatuses \cup
    {"none", "waiting_for_extension", "selection_required", "product_review_required",
     "selection_confirmed", "operator_navigating", "pending_approval", "approved",
     "denied"}
SearchStatuses == {"waiting_for_extension", "searching"}
PaymentStatuses ==
    {"navigating", "checkout_configuring", "payment_choice_required",
     "payment_action_required"}
WithApproved ==                                     \* mutant of ObservableStatuses
    {"navigating", "checkout_configuring", "payment_action_required", "pending_approval",
     "approved"}
ObservableStatuses ==
    {"navigating", "checkout_configuring", "payment_action_required", "pending_approval"}
OperatorBlocked == FinalStatuses \cup {"pending_approval", "approved", "denied"}
PermitStatuses == FinalStatuses \cup {"none", "pending_confirmation", "confirmed", "denied"}
Outcomes == {"completed", "user_action_required", "reconciliation_required", "failed"}
AttemptStatuses == Outcomes \cup {"none", "claimed", "prepared"}
CommandResults == {"completed", "blocked", "failed"}
PageSteps == {"closed", "review", "challenged", "verified", "approved", "other"}
NoPreference == "none"

Task ==
    [status : TaskStatuses, mode : {"live", "prepare_only"}, expiresAt : Nat,
     selected : Products \cup {NoProduct}, permit : BOOLEAN,
     snapshot : Snapshots \cup {NoSnapshot}, preference : Payments \cup {NoPreference}]
Permit ==
    [status : PermitStatuses, snapshot : Snapshots \cup {NoSnapshot},
     confirmed : BOOLEAN, expiresAt : Nat]
Continuation == [made : 0..MaxContinuations, open : BOOLEAN, expiresAt : Nat]
Page ==
    [step : PageSteps, shown : Snapshots \cup {NoSnapshot}, own : BOOLEAN, expiresAt : Nat]
Attempt ==
    [status : AttemptStatuses, installation : Installations \cup {NoInstallation},
     evidence : Snapshots \cup {NoSnapshot}, expiresAt : Nat]
Command ==
    [status : {"queued", "claimed"} \cup CommandResults,
     installation : Installations \cup {NoInstallation}]

NoTask ==
    [status |-> "none", mode |-> "prepare_only", expiresAt |-> 0,
     selected |-> NoProduct, permit |-> FALSE, snapshot |-> NoSnapshot,
     preference |-> NoPreference]
NoProposal == [product |-> NoProduct, expiresAt |-> 0]
NoPermit ==
    [status |-> "none", snapshot |-> NoSnapshot, confirmed |-> FALSE, expiresAt |-> 0]
NoContinuation == [made |-> 0, open |-> FALSE, expiresAt |-> 0]
Consumed(c) == [c EXCEPT !.open = FALSE, !.expiresAt = 0]
ClosedPage == [step |-> "closed", shown |-> NoSnapshot, own |-> FALSE, expiresAt |-> 0]
NoAttempt ==
    [status |-> "none", installation |-> NoInstallation, evidence |-> NoSnapshot,
     expiresAt |-> 0]

Init ==
    /\ now = 0
    /\ live = FALSE
    /\ installs = [i \in Installations |-> "new"]
    /\ task = NoTask
    /\ reviewed = {}
    /\ proposal = NoProposal
    /\ permit = NoPermit
    /\ continuation = NoContinuation
    /\ page = ClosedPage
    /\ passkey = NoSnapshot
    /\ attempt = NoAttempt
    /\ commands = <<>>

(* lockTask finds the row of a created task.                                *)
Locked == task.status # "none"

(* ... and assertInstallation an installation that is not revoked.          *)
LockedBy(i) == Locked /\ installs[i] = "active"

Pending == proposal.product # NoProduct

(* No row of browser_execution_attempts; the task has at most one.          *)
NotBeingExecuted == attempt.status # "claimed"      \* mutant of Unexecuted
Unexecuted == attempt.status = "none"

(* The product is no longer chosen, and the permit with it.                 *)
Deselected(t) ==
    [t EXCEPT !.selected = NoProduct, !.permit = FALSE, !.snapshot = NoSnapshot]

(* UPDATE ... SET status='denied' WHERE id=purchase_permit_id AND status IN  *)
(* ('pending_confirmation','confirmed').                                    *)
Withdrawn ==
    IF task.permit /\ permit.status \in {"pending_confirmation", "confirmed"}
    THEN [permit EXCEPT !.status = "denied"]
    ELSE permit

-----------------------------------------------------------------------------
(* Clock, live mode and installations.                                      *)

Tick ==
    /\ now < MaxNow
    /\ now' = now + 1
    /\ UNCHANGED <<serverVars, task, reviewed, proposal, permit, continuation,
                   page, passkey, attempt>>

SetLiveMode(enabled) ==
    /\ live # enabled
    /\ live' = enabled
    /\ UNCHANGED <<now, installs, commands, task, reviewed, proposal, permit,
                   continuation, page, passkey, attempt>>

(* An id that was revoked stays revoked.                                    *)
RegisterInstallation(i) ==
    /\ installs[i] # "revoked"
    /\ installs' = [installs EXCEPT ![i] = "active"]
    /\ UNCHANGED <<now, live, commands, task, reviewed, proposal, permit,
                   continuation, page, passkey, attempt>>

RevokeInstallation(i) ==
    /\ installs[i] = "active"
    /\ installs' = [installs EXCEPT ![i] = "revoked"]
    /\ UNCHANGED <<now, live, commands, task, reviewed, proposal, permit,
                   continuation, page, passkey, attempt>>

(* The mode is fixed here: live for a buyer who opted in, on a site whose   *)
(* own flag allows it.                                                      *)
CreateTask(siteLive) ==
    /\ ~Locked
    /\ task' = [task EXCEPT !.status = "waiting_for_extension",
                            !.mode = IF live /\ siteLive THEN "live" ELSE "prepare_only",
                            !.expiresAt = now + TaskTtl]
    /\ UNCHANGED <<now, serverVars, reviewed, proposal, permit, continuation,
                   page, passkey, attempt>>

-----------------------------------------------------------------------------
(* Product selection.                                                       *)

(* saveCandidates deletes the task's candidates before it inserts new ones: *)
(* the foreign key of a proposal to its candidate refuses that.  Which      *)
(* candidates are saved is not kept: a proposal may bring its own.          *)
SaveCandidates(i) ==
    /\ LockedBy(i)
    /\ task.status \in SearchStatuses
    /\ reviewed = {}
    /\ task' = [task EXCEPT !.status = "selection_required"]
    /\ UNCHANGED <<now, serverVars, reviewed, proposal, permit, continuation,
                   page, passkey, attempt>>

Propose(i, p) ==
    /\ LockedBy(i)
    /\ task.status \notin FinalStatuses
    /\ reviewed' = reviewed \cup {p}
    /\ proposal' = [product |-> p, expiresAt |-> now + ProposalTtl]
    /\ permit' = Withdrawn
    /\ task' = [Deselected(task) EXCEPT !.status = "product_review_required"]
    /\ UNCHANGED <<now, serverVars, continuation, page, passkey, attempt>>

(* A candidate over budget is refused: whether it is, is left open.         *)
ConfirmCandidate(i) ==
    /\ LockedBy(i)
    /\ Pending /\ now < proposal.expiresAt
    /\ proposal' = NoProposal
    /\ task' = [task EXCEPT !.selected = proposal.product,
                            !.status = "selection_confirmed"]
    /\ UNCHANGED <<now, serverVars, reviewed, permit, continuation, page,
                   passkey, attempt>>

DismissCandidate(i) ==
    /\ LockedBy(i)
    /\ Pending
    /\ proposal' = NoProposal
    /\ task' = [task EXCEPT !.status = "selection_required"]
    /\ UNCHANGED <<now, serverVars, reviewed, permit, continuation, page,
                   passkey, attempt>>

(* resetProductSelection; nothing in the server sets the status "expired"   *)
(* it also refuses.                                                         *)
ResetProductSelection ==
    /\ Locked
    /\ task.status \notin FinalStatuses
    /\ Unexecuted
    /\ proposal' = NoProposal
    /\ permit' = Withdrawn
    /\ continuation' = Consumed(continuation)
    /\ task' = [Deselected(task) EXCEPT !.preference = NoPreference,
                                        !.status = "searching"]
    /\ UNCHANGED <<now, serverVars, reviewed, passkey, attempt>>

(* By the extension, or by the buyer on the page without a continuation.    *)
Restart ==
    /\ ResetProductSelection
    /\ UNCHANGED page

-----------------------------------------------------------------------------
(* Progress reports, payment choice and the operator.                       *)

(* reportStatus looks at nothing but the lock and the installation.         *)
ReportStatus(i, status) ==
    /\ LockedBy(i)
    /\ task' = [task EXCEPT !.status = status]
    /\ UNCHANGED <<now, serverVars, reviewed, proposal, permit, continuation,
                   page, passkey, attempt>>

SetPaymentPreference(i, payment) ==
    /\ LockedBy(i)
    /\ task.selected # NoProduct /\ task.status \in PaymentStatuses
    /\ task' = [task EXCEPT !.preference = payment,
                            !.status = IF payment = "online" THEN "payment_action_required"
                                       ELSE "checkout_configuring"]
    /\ UNCHANGED <<now, serverVars, reviewed, proposal, permit, continuation,
                   page, passkey, attempt>>

(* Queued by the buyer's agent over MCP; no installation is needed.         *)
QueueOperatorAction ==
    /\ Locked
    /\ task.status \notin OperatorBlocked
    /\ Len(commands) < MaxCommands
    /\ commands' = Append(commands, [status |-> "queued", installation |-> NoInstallation])
    /\ task' = [task EXCEPT !.status = "operator_navigating"]
    /\ UNCHANGED <<now, live, installs, reviewed, proposal, permit, continuation,
                   page, passkey, attempt>>

AnyQueued == {k \in DOMAIN commands : commands[k].status = "queued"}   \* mutant of Oldest
Queued == {k \in DOMAIN commands : commands[k].status = "queued"}
Oldest == {k \in Queued : \A j \in Queued : k <= j}

(* The oldest queued command, whatever the task's status is by now.         *)
ClaimOperatorCommand(i) ==
    /\ LockedBy(i)
    /\ \E k \in Oldest :
        commands' = [commands EXCEPT ![k] = [status |-> "claimed", installation |-> i]]
    /\ UNCHANGED <<now, live, installs, task, reviewed, proposal, permit,
                   continuation, page, passkey, attempt>>

CompleteOperatorCommand(i, k, result) ==
    /\ LockedBy(i)
    /\ k \in DOMAIN commands
    /\ commands[k] = [status |-> "claimed", installation |-> i]
    /\ commands' = [commands EXCEPT ![k].status = result]
    /\ UNCHANGED <<now, live, installs, task, reviewed, proposal, permit,
                   continuation, page, passkey, attempt>>

-----------------------------------------------------------------------------
(* Checkout evidence and its approval.                                      *)

(* evaluateBrowserCheckout without a permit: "sound" stands for the checks *)
(* on the rest of the evidence: host, quantity, budget, recurrence, dates.  *)
AnyProduct(s) == TRUE                               \* mutant of RightProduct
RightProduct(s) == s.product = task.selected

Acceptable(s, sound) ==
    /\ sound
    /\ RightProduct(s)
    /\ s.payment = task.preference
    /\ now < task.expiresAt

(* ... and the checks it adds when there is one.                            *)
SameTerms(s) ==                                     \* mutant of SameEvidence
    s.product = permit.snapshot.product /\ s.payment = permit.snapshot.payment
SameEvidence(s) == s = permit.snapshot

Unchanged(s) ==
    /\ now < permit.expiresAt
    /\ permit.confirmed
    /\ permit.status \notin {"prepared", "submitting", "completed"}
    /\ SameEvidence(s)

(* A second observation overwrites the permit the first one created; only   *)
(* confirmed_at survives.  A refused one leaves the permit alone.           *)
ObserveCheckout(i, s, sound) ==
    /\ LockedBy(i)
    /\ task.selected # NoProduct /\ task.status \in ObservableStatuses
    /\ IF Acceptable(s, sound)
       THEN /\ permit' = [permit EXCEPT !.status = "pending_confirmation",
                                        !.snapshot = s, !.expiresAt = now + PermitTtl]
            /\ task' = [task EXCEPT !.status = "pending_approval", !.permit = TRUE,
                                    !.snapshot = s]
       ELSE /\ task' = [task EXCEPT !.status = "denied"]
            /\ UNCHANGED permit
    /\ UNCHANGED <<now, serverVars, reviewed, proposal, continuation, page,
                   passkey, attempt>>

(* A new continuation deletes the unconsumed one a page may still hold.     *)
CreateApprovalContinuation(i) ==
    /\ LockedBy(i)
    /\ task.status = "pending_approval"
    /\ continuation.made < MaxContinuations
    /\ continuation' = [made |-> continuation.made + 1, open |-> TRUE,
                        expiresAt |-> now + ContinuationTtl]
    /\ page' = [page EXCEPT !.own = FALSE]
    /\ UNCHANGED <<now, serverVars, task, reviewed, proposal, permit, passkey, attempt>>

(* The buyer loads the page, in the window the extension opened for the     *)
(* continuation or in a tab of their own; it asks for approval of the       *)
(* evidence it shows only if the task is awaiting it.                       *)
OpenPage(own) ==
    /\ Locked
    /\ own => continuation.open
    /\ page' = CASE task.status = "pending_approval" ->
                    [step |-> "review", shown |-> permit.snapshot, own |-> own, expiresAt |-> 0]
               [] task.status = "approved" -> [ClosedPage EXCEPT !.step = "approved", !.own = own]
               [] OTHER -> [ClosedPage EXCEPT !.step = "other", !.own = own]
    /\ UNCHANGED <<now, serverVars, task, reviewed, proposal, permit, continuation,
                   passkey, attempt>>

(* shoppingApprovalOptions: the challenge names the task, not the evidence. *)
ShoppingApprovalOptions ==
    /\ page.step = "review"
    /\ task.status = "pending_approval"
    /\ permit.status = "pending_confirmation" /\ now < permit.expiresAt
    /\ page' = [page EXCEPT !.step = "challenged", !.expiresAt = now + ChallengeTtl]
    /\ UNCHANGED <<now, serverVars, task, reviewed, proposal, permit, continuation,
                   passkey, attempt>>

(* approveShoppingTask consumes the challenge and verifies the assertion in *)
(* transactions of their own; a late answer, or a buyer who declines,       *)
(* leaves the page as it was.                                               *)
AnswerChallenge ==
    /\ page.step = "challenged"
    /\ page' = [page EXCEPT !.step = IF now < page.expiresAt THEN "verified" ELSE "review",
                            !.expiresAt = 0]
    /\ UNCHANGED <<now, serverVars, task, reviewed, proposal, permit, continuation,
                   passkey, attempt>>

DeclineChallenge ==
    /\ page.step = "challenged"
    /\ page' = [page EXCEPT !.step = "review", !.expiresAt = 0]
    /\ UNCHANGED <<now, serverVars, task, reviewed, proposal, permit, continuation,
                   passkey, attempt>>

CanApprove == task.status = "pending_approval" /\ task.permit

(* approve confirms whatever evidence the permit holds by now.              *)
Approve ==
    /\ page.step = "verified"
    /\ CanApprove
    /\ permit' = [permit EXCEPT !.status = "confirmed", !.confirmed = TRUE]
    /\ task' = [task EXCEPT !.status = "approved"]
    /\ passkey' = task.snapshot
    /\ page' = [ClosedPage EXCEPT !.step = "approved", !.own = page.own]
    /\ UNCHANGED <<now, serverVars, reviewed, proposal, continuation, attempt>>

ApproveRefused ==
    /\ page.step = "verified"
    /\ ~CanApprove
    /\ page' = [page EXCEPT !.step = "review"]
    /\ UNCHANGED <<now, serverVars, task, reviewed, proposal, permit, continuation,
                   passkey, attempt>>

CompleteApprovalContinuation ==
    /\ page.step = "approved" /\ page.own
    /\ task.status = "approved"
    /\ continuation.open /\ now < continuation.expiresAt
    /\ continuation' = Consumed(continuation)
    /\ page' = ClosedPage
    /\ UNCHANGED <<now, serverVars, task, reviewed, proposal, permit, passkey, attempt>>

CancelApprovalContinuation ==
    /\ page.step \in {"review", "approved", "other"} /\ page.own
    /\ continuation.open /\ now < continuation.expiresAt
    /\ ResetProductSelection
    /\ page' = ClosedPage

-----------------------------------------------------------------------------
(* Execution.                                                               *)

(* The attempt of an allowed claim carries the evidence that               *)
(* FINAL_REVALIDATION_PASSED records.                                       *)
Claimed(i, s, status) ==
    [status |-> status, installation |-> i, evidence |-> s,
     expiresAt |-> IF status = "claimed" THEN now + GrantTtl ELSE 0]

MayClaim(i) ==
    /\ LockedBy(i)
    /\ Unexecuted
    /\ task.status = "approved" /\ task.permit

(* A live task whose buyer has switched live purchases off stays approved.  *)
ClaimExecution(i, s, sound) ==
    /\ MayClaim(i)
    /\ Acceptable(s, sound) /\ Unchanged(s)
    /\ \E status \in {"prepared", "submitting"} :
        /\ IF task.mode = "prepare_only" THEN status = "prepared"
           ELSE status = "submitting" /\ live
        /\ task' = [task EXCEPT !.status = status]
        /\ permit' = [permit EXCEPT !.status = status]
        /\ attempt' = Claimed(i, s, IF status = "prepared" THEN "prepared" ELSE "claimed")
    /\ UNCHANGED <<now, serverVars, reviewed, proposal, continuation, page, passkey>>

(* A checkout that is no longer the approved one ends the task.             *)
DenyExecution(i, s, sound) ==
    /\ MayClaim(i)
    /\ ~(Acceptable(s, sound) /\ Unchanged(s))
    /\ task' = [task EXCEPT !.status = "denied"]
    /\ permit' = [permit EXCEPT !.status = "denied"]
    /\ UNCHANGED <<now, serverVars, reviewed, proposal, continuation, page,
                   passkey, attempt>>

RawOutcome(outcome) == outcome                      \* mutant of PermitOutcome
PermitOutcome(outcome) ==
    IF outcome \in {"completed", "reconciliation_required"} THEN outcome ELSE "denied"

GrantValid(i) ==
    /\ attempt.installation = i /\ attempt.status = "claimed"
    /\ now < attempt.expiresAt

Reportable == task.status = "submitting" /\ task.permit

ReportExecution(i, outcome) ==
    /\ LockedBy(i)
    /\ Reportable
    /\ GrantValid(i)
    /\ attempt' = [attempt EXCEPT !.status = outcome]
    /\ task' = [task EXCEPT !.status = outcome]
    /\ permit' = [permit EXCEPT !.status = PermitOutcome(outcome)]
    /\ UNCHANGED <<now, serverVars, reviewed, proposal, continuation, page, passkey>>

-----------------------------------------------------------------------------
InstallationNext(i) ==
    \/ RegisterInstallation(i)
    \/ RevokeInstallation(i)
    \/ SaveCandidates(i)
    \/ \E p \in Products : Propose(i, p)
    \/ ConfirmCandidate(i)
    \/ DismissCandidate(i)
    \/ \E status \in Reports : ReportStatus(i, status)
    \/ \E payment \in Payments : SetPaymentPreference(i, payment)
    \/ ClaimOperatorCommand(i)
    \/ \E k \in 1..MaxCommands, result \in CommandResults :
            CompleteOperatorCommand(i, k, result)
    \/ \E s \in Snapshots, sound \in BOOLEAN : ObserveCheckout(i, s, sound)
    \/ CreateApprovalContinuation(i)
    \/ \E s \in Snapshots, sound \in BOOLEAN : ClaimExecution(i, s, sound)
    \/ \E s \in Snapshots, sound \in BOOLEAN : DenyExecution(i, s, sound)
    \/ \E outcome \in Outcomes : ReportExecution(i, outcome)

BuyerNext ==
    \/ \E enabled \in BOOLEAN : SetLiveMode(enabled)
    \/ \E siteLive \in BOOLEAN : CreateTask(siteLive)
    \/ Restart
    \/ QueueOperatorAction
    \/ \E own \in BOOLEAN : OpenPage(own)
    \/ ShoppingApprovalOptions
    \/ AnswerChallenge
    \/ DeclineChallenge
    \/ Approve
    \/ ApproveRefused
    \/ CompleteApprovalContinuation
    \/ CancelApprovalContinuation

Next == Tick \/ BuyerNext \/ \E i \in Installations : InstallationNext(i)

Spec == Init /\ [][Next]_vars

-----------------------------------------------------------------------------
(* Invariants.                                                              *)

TypeOK ==
    /\ now \in 0..MaxNow
    /\ live \in BOOLEAN
    /\ installs \in [Installations -> {"new", "active", "revoked"}]
    /\ task \in Task
    /\ reviewed \subseteq Products
    /\ proposal \in [product : Products \cup {NoProduct}, expiresAt : Nat]
    /\ permit \in Permit
    /\ continuation \in Continuation
    /\ page \in Page
    /\ passkey \in Snapshots \cup {NoSnapshot}
    /\ attempt \in Attempt
    /\ commands \in Seq(Command)

(* A product under review has displaced the confirmed one and its permit.   *)
ReviewDisplaces == Pending => task.selected = NoProduct /\ ~task.permit

(* A permit the task still points at is for the product still selected and  *)
(* carries the hash the task row carries.                                   *)
PermitFitsTask ==
    task.permit =>
        /\ task.snapshot = permit.snapshot /\ permit.snapshot \in Snapshots
        /\ permit.snapshot.product = task.selected

(* The buyer is asked only about live evidence with the payment they chose. *)
OfferIsOpen ==
    task.status = "pending_approval" =>
        /\ task.permit /\ permit.status = "pending_confirmation"
        /\ permit.snapshot.payment = task.preference

(* "approved" means a passkey was verified for what the permit holds.       *)
ApprovalIsSealed ==
    task.status = "approved" =>
        /\ task.permit /\ permit.status = "confirmed" /\ permit.confirmed
        /\ permit.snapshot = passkey
        /\ permit.snapshot.payment = task.preference

(* A task being submitted has a live attempt, on the approved evidence.     *)
SubmissionIsSealed ==
    task.status = "submitting" =>
        /\ task.permit /\ permit.status = "submitting" /\ attempt.status = "claimed"
        /\ attempt.evidence = permit.snapshot /\ attempt.evidence = passkey

(* A finished purchase is the outcome of the one attempt, and its permit    *)
(* says the same.                                                           *)
OutcomeIsAttempts ==
    task.status \in FinalStatuses \ {"submitting"} =>
        attempt.status = task.status /\ permit.status = task.status

(* Selection, permit, approval, attempt and outcome of a task agree in      *)
(* every state, however proposals, restarts, progress reports, repeated     *)
(* observations, stale pages and late execution reports interleave          *)
(* (browser-agent.ts:161-562).                                              *)
SealInvariant ==
    /\ ReviewDisplaces
    /\ PermitFitsTask
    /\ OfferIsOpen
    /\ ApprovalIsSealed
    /\ SubmissionIsSealed
    /\ OutcomeIsAttempts

-----------------------------------------------------------------------------
(* Action properties and the abstract specification.                        *)

(* An execution attempt comes into being only on the evidence the last      *)
(* passkey approval named, with the product and payment still chosen, and   *)
(* within the permit's and the task's life, all at the same instant         *)
(* (claimExecution, browser-agent.ts:448-491).                              *)
ExecutesWhatWasSealed ==
    [][attempt.status = "none" /\ attempt' # attempt =>
        /\ attempt'.evidence = passkey
        /\ passkey.product = task.selected /\ passkey.payment = task.preference
        /\ now < permit.expiresAt /\ now < task.expiresAt]_vars

(* Commands of the operator start in the order they were queued, whichever  *)
(* installation polls for them (claimOperatorCommand,                       *)
(* browser-agent.ts:313-320).                                               *)
OperatorInOrder ==
    \A j, k \in DOMAIN commands :
        j < k /\ commands[j].status = "queued" => commands[k].status = "queued"

(* Once the task has left "submitting" for any reason, also a progress      *)
(* report that overtook the result, the grant is dead: no later report or   *)
(* claim changes the attempt or submits again, whatever is sealed anew      *)
(* (browser-agent.ts:453-456, 507-521).                                     *)
OneAttemptOneEnd ==
    [][attempt.status # "none" /\ task.status # "submitting" =>
        attempt' = attempt /\ task'.status # "submitting"]_vars

(* The transactions implement the Purchase Seal.                            *)
Seal == INSTANCE PurchaseSeal WITH
    Seals <- Snapshots,
    NoSeal <- NoSnapshot,
    offered <- IF task.status \in {"pending_approval", "approved"}
               THEN task.snapshot ELSE NoSnapshot,
    approved <- IF task.status = "approved" THEN task.snapshot ELSE NoSnapshot,
    executed <- attempt.evidence

SealSpec == Seal!Spec

(* What the button says: "Approve exact Purchase Seal"                      *)
(* (ShoppingTaskPage.tsx:163).  The passkey confirms the evidence that was  *)
(* on the page when the buyer pressed it.                                   *)
ApprovedWhatWasShown ==
    [][task.status # "approved" /\ task'.status = "approved" =>
        task'.snapshot = page.shown]_vars
=============================================================================
