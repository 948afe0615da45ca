------------------------- MODULE ShoppingTaskProofs -------------------------
(***************************************************************************)
(* What holds of a shopping task for every number of products, kinds of    *)
(* evidence, installations and ticks: the invariant that keeps selection,  *)
(* permit, approval and attempt together, what follows from it for the     *)
(* execution, and that the transactions implement the Purchase Seal.       *)
(***************************************************************************)
EXTENDS ShoppingTask, SequenceTheorems, TLAPS

(* The statuses the actions assign are statuses of their columns.           *)
LEMMA Statuses ==
    /\ Reports \cup Outcomes \cup FinalStatuses \subseteq TaskStatuses
    /\ {"waiting_for_extension", "selection_required", "product_review_required",
        "selection_confirmed", "searching", "operator_navigating", "pending_approval",
        "approved", "denied", "checkout_configuring", "payment_action_required",
        "prepared", "submitting"} \subseteq TaskStatuses
    /\ {"pending_confirmation", "confirmed", "denied", "prepared", "submitting"}
            \subseteq PermitStatuses
    /\ \A outcome \in Outcomes : PermitOutcome(outcome) \in PermitStatuses
    /\ Outcomes \cup {"claimed", "prepared"} \subseteq AttemptStatuses
  BY ReportsAssumption
  DEF TaskStatuses, FinalStatuses, ProgressStatuses, Outcomes, PermitStatuses,
      PermitOutcome, AttemptStatuses

(* Updates of single columns keep a row well typed.                         *)
LEMMA RowUpdates ==
    ASSUME TypeOK
    PROVE  /\ \A s \in TaskStatuses : [task EXCEPT !.status = s] \in Task
           /\ \A s \in PermitStatuses : [permit EXCEPT !.status = s] \in Permit
           /\ Deselected(task) \in Task
           /\ Withdrawn \in Permit
           /\ Consumed(continuation) \in Continuation
           /\ ClosedPage \in Page
  <1>1. /\ \A s \in TaskStatuses : [task EXCEPT !.status = s] \in Task
        /\ Deselected(task) \in Task
    BY DEF TypeOK, Task, Deselected
  <1>2. \A s \in PermitStatuses : [permit EXCEPT !.status = s] \in Permit
    BY DEF TypeOK, Permit
  <1>3. Withdrawn \in Permit
    BY <1>2, Statuses DEF TypeOK, Withdrawn
  <1>4. Consumed(continuation) \in Continuation
    BY DEF TypeOK, Continuation, Consumed
  <1>5. ClosedPage \in Page
    BY DEF ClosedPage, Page, PageSteps
  <1>6. QED
    BY <1>1, <1>2, <1>3, <1>4, <1>5

(* The steps of one installation keep the rows well typed.                  *)
LEMMA TypeOKInstallation ==
    ASSUME TypeOK, NEW i \in Installations, InstallationNext(i)
    PROVE  TypeOK'
  <1> USE DEF serverVars
  <1>1. CASE RegisterInstallation(i) \/ RevokeInstallation(i)
    BY <1>1 DEF TypeOK, RegisterInstallation, RevokeInstallation
  <1>2. CASE SaveCandidates(i)
    BY <1>2, RowUpdates, Statuses DEF TypeOK, SaveCandidates
  <1>3. ASSUME NEW p \in Products, Propose(i, p)
        PROVE  TypeOK'
    <2>1. now + ProposalTtl \in Nat
      BY DurationsAssumption DEF TypeOK
    <2>2. proposal' \in [product : Products \cup {NoProduct}, expiresAt : Nat]
      BY <1>3, <2>1 DEF Propose
    <2>3. task' \in Task
      BY <1>3, RowUpdates, Statuses DEF Propose, Task
    <2>4. QED
      BY <1>3, <2>2, <2>3, RowUpdates DEF TypeOK, Propose
  <1>4. CASE ConfirmCandidate(i)
    <2>1. task' \in Task
      BY <1>4, Statuses DEF TypeOK, ConfirmCandidate, Task
    <2>2. NoProposal \in [product : Products \cup {NoProduct}, expiresAt : Nat]
      BY DEF NoProposal
    <2>3. QED
      BY <1>4, <2>1, <2>2 DEF TypeOK, ConfirmCandidate
  <1>5. CASE DismissCandidate(i)
    <2>1. NoProposal \in [product : Products \cup {NoProduct}, expiresAt : Nat]
      BY DEF NoProposal
    <2>2. QED
      BY <1>5, <2>1, RowUpdates, Statuses DEF TypeOK, DismissCandidate
  <1>6. ASSUME NEW status \in Reports, ReportStatus(i, status)
        PROVE  TypeOK'
    BY <1>6, RowUpdates, Statuses DEF TypeOK, ReportStatus
  <1>7. ASSUME NEW payment \in Payments, SetPaymentPreference(i, payment)
        PROVE  TypeOK'
    <2>1. task' \in Task
      BY <1>7, Statuses DEF TypeOK, SetPaymentPreference, Task
    <2>2. QED
      BY <1>7, <2>1 DEF TypeOK, SetPaymentPreference
  <1>8. CASE ClaimOperatorCommand(i)
    <2>1. [status |-> "claimed", installation |-> i] \in Command
      BY DEF Command
    <2>2. PICK k \in Oldest :
            commands' = [commands EXCEPT ![k] = [status |-> "claimed", installation |-> i]]
      BY <1>8 DEF ClaimOperatorCommand
    <2>3. k \in 1 .. Len(commands) /\ commands \in Seq(Command)
      BY <2>2, LenProperties DEF TypeOK, Oldest, Queued
    <2>4. commands' \in Seq(Command)
      BY <2>1, <2>2, <2>3, ExceptSeq
    <2>5. QED
      BY <1>8, <2>4 DEF TypeOK, ClaimOperatorCommand
  <1>9. ASSUME NEW k \in 1 .. MaxCommands, NEW result \in CommandResults,
               CompleteOperatorCommand(i, k, result)
        PROVE  TypeOK'
    <2>1. k \in 1 .. Len(commands) /\ commands \in Seq(Command)
      BY <1>9, LenProperties DEF TypeOK, CompleteOperatorCommand
    <2>2. commands[k] \in Command
      BY <2>1, ElementOfSeq
    <2>3. [commands[k] EXCEPT !.status = result] \in Command
      BY <2>2 DEF Command
    <2>4. [commands EXCEPT ![k] = [commands[k] EXCEPT !.status = result]] \in Seq(Command)
      BY <2>1, <2>3, ExceptSeq
    <2>5. commands' = [commands EXCEPT ![k] = [commands[k] EXCEPT !.status = result]]
      BY <1>9 DEF CompleteOperatorCommand
    <2>6. QED
      BY <1>9, <2>4, <2>5 DEF TypeOK, CompleteOperatorCommand
  <1>10. ASSUME NEW s \in Snapshots, NEW sound \in BOOLEAN, ObserveCheckout(i, s, sound)
         PROVE  TypeOK'
    <2>1. now + PermitTtl \in Nat
      BY DurationsAssumption DEF TypeOK
    <2>2. /\ [permit EXCEPT !.status = "pending_confirmation", !.snapshot = s,
                            !.expiresAt = now + PermitTtl] \in Permit
          /\ [task EXCEPT !.status = "pending_approval", !.permit = TRUE,
                          !.snapshot = s] \in Task
      BY <2>1, Statuses DEF TypeOK, Task, Permit
    <2>3. [task EXCEPT !.status = "denied"] \in Task
      BY RowUpdates, Statuses
    <2>4. task' \in Task /\ permit' \in Permit
      BY <1>10, <2>2, <2>3 DEF TypeOK, ObserveCheckout
    <2>5. QED
      BY <1>10, <2>4 DEF TypeOK, ObserveCheckout
  <1>11. CASE CreateApprovalContinuation(i)
    <2>1. now + ContinuationTtl \in Nat
      BY DurationsAssumption DEF TypeOK
    <2>2. continuation' \in Continuation
      BY <1>11, <2>1, DurationsAssumption
      DEF TypeOK, CreateApprovalContinuation, Continuation
    <2>3. page' \in Page
      BY <1>11 DEF TypeOK, CreateApprovalContinuation, Page
    <2>4. QED
      BY <1>11, <2>2, <2>3 DEF TypeOK, CreateApprovalContinuation
  <1>12. ASSUME NEW s \in Snapshots, NEW sound \in BOOLEAN, ClaimExecution(i, s, sound)
         PROVE  TypeOK'
    <2>1. now + GrantTtl \in Nat
      BY DurationsAssumption DEF TypeOK
    <2>2. PICK status \in {"prepared", "submitting"} :
            /\ task' = [task EXCEPT !.status = status]
            /\ permit' = [permit EXCEPT !.status = status]
            /\ attempt' = Claimed(i, s, IF status = "prepared" THEN "prepared" ELSE "claimed")
      BY <1>12 DEF ClaimExecution
    <2>3. attempt' \in Attempt
      BY <2>1, <2>2, Statuses DEF Attempt, Claimed
    <2>4. task' \in Task /\ permit' \in Permit
      BY <2>2, RowUpdates, Statuses
    <2>5. QED
      BY <1>12, <2>3, <2>4 DEF TypeOK, ClaimExecution
  <1>13. ASSUME NEW s \in Snapshots, NEW sound \in BOOLEAN, DenyExecution(i, s, sound)
         PROVE  TypeOK'
    BY <1>13, RowUpdates, Statuses DEF TypeOK, DenyExecution
  <1>14. ASSUME NEW outcome \in Outcomes, ReportExecution(i, outcome)
         PROVE  TypeOK'
    <2>1. attempt' \in Attempt
      BY <1>14, Statuses DEF TypeOK, ReportExecution, Attempt
    <2>2. QED
      BY <1>14, <2>1, RowUpdates, Statuses DEF TypeOK, ReportExecution
  <1>15. QED
    BY <1>1, <1>2, <1>3, <1>4, <1>5, <1>6, <1>7, <1>8, <1>9, <1>10, <1>11, <1>12,
       <1>13, <1>14 DEF InstallationNext

(* ... and so do the steps of the buyer and of the clock.                   *)
LEMMA TypeOKStep ==
    ASSUME TypeOK, [Next]_vars
    PROVE  TypeOK'
  <1> USE DEF serverVars
  <1>1. CASE Tick
    BY <1>1, DurationsAssumption DEF TypeOK, Tick
  <1>2. ASSUME NEW enabled \in BOOLEAN, SetLiveMode(enabled)
        PROVE  TypeOK'
    BY <1>2 DEF TypeOK, SetLiveMode
  <1>3. ASSUME NEW siteLive \in BOOLEAN, CreateTask(siteLive)
        PROVE  TypeOK'
    <2>1. now + TaskTtl \in Nat
      BY DurationsAssumption DEF TypeOK
    <2>2. task' \in Task
      BY <1>3, <2>1, Statuses DEF TypeOK, CreateTask, Task
    <2>3. QED
      BY <1>3, <2>2 DEF TypeOK, CreateTask
  <1>4. ASSUME ResetProductSelection, page' \in Page
        PROVE  TypeOK'
    <2>1. task' \in Task
      BY <1>4, RowUpdates, Statuses DEF ResetProductSelection, Task
    <2>2. NoProposal \in [product : Products \cup {NoProduct}, expiresAt : Nat]
      BY DEF NoProposal
    <2>3. QED
      BY <1>4, <2>1, <2>2, RowUpdates DEF TypeOK, ResetProductSelection
  <1>5. CASE Restart
    BY <1>4, <1>5 DEF TypeOK, Restart
  <1>6. CASE CancelApprovalContinuation
    BY <1>4, <1>6, RowUpdates DEF CancelApprovalContinuation
  <1>7. CASE QueueOperatorAction
    <2>1. [status |-> "queued", installation |-> NoInstallation] \in Command
      BY DEF Command
    <2>2. commands' \in Seq(Command)
      BY <1>7, <2>1, AppendProperties DEF TypeOK, QueueOperatorAction
    <2>3. QED
      BY <1>7, <2>2, RowUpdates, Statuses DEF TypeOK, QueueOperatorAction
  <1>8. ASSUME NEW own \in BOOLEAN, OpenPage(own)
        PROVE  TypeOK'
    <2>1. page' \in Page
      BY <1>8 DEF TypeOK, OpenPage, Page, PageSteps, ClosedPage, Permit
    <2>2. QED
      BY <1>8, <2>1 DEF TypeOK, OpenPage
  <1>9. CASE ShoppingApprovalOptions
    <2>1. now + ChallengeTtl \in Nat
      BY DurationsAssumption DEF TypeOK
    <2>2. page' \in Page
      BY <1>9, <2>1 DEF TypeOK, ShoppingApprovalOptions, Page, PageSteps
    <2>3. QED
      BY <1>9, <2>2 DEF TypeOK, ShoppingApprovalOptions
  <1>10. CASE AnswerChallenge \/ DeclineChallenge \/ ApproveRefused
    <2>1. PICK step \in {"verified", "review"}, e \in {0, page.expiresAt} :
            page' = [page EXCEPT !.step = step, !.expiresAt = e]
      <3>1. CASE AnswerChallenge \/ DeclineChallenge
        BY <3>1 DEF AnswerChallenge, DeclineChallenge
      <3>2. CASE ApproveRefused
        BY <3>2 DEF TypeOK, Page, ApproveRefused
      <3>3. QED
        BY <1>10, <3>1, <3>2
    <2>2. page \in Page /\ e \in Nat /\ step \in PageSteps
      BY DEF TypeOK, Page, PageSteps
    <2>3. page' \in Page
      BY <2>1, <2>2 DEF Page
    <2>4. QED
      BY <1>10, <2>3 DEF TypeOK, AnswerChallenge, DeclineChallenge, ApproveRefused
  <1>11. CASE Approve
    <2>1. page' \in Page
      BY <1>11 DEF TypeOK, Approve, Page, PageSteps, ClosedPage
    <2>2. [permit EXCEPT !.status = "confirmed", !.confirmed = TRUE] \in Permit
      BY Statuses DEF TypeOK, Permit
    <2>3. task.snapshot \in Snapshots \cup {NoSnapshot}
      BY DEF TypeOK, Task
    <2>4. [task EXCEPT !.status = "approved"] \in Task
      BY RowUpdates, Statuses
    <2>5. task' \in Task /\ permit' \in Permit /\ passkey' \in Snapshots \cup {NoSnapshot}
      BY <1>11, <2>2, <2>3, <2>4 DEF Approve
    <2>6. QED
      BY <1>11, <2>1, <2>5 DEF TypeOK, Approve
  <1>12. CASE CompleteApprovalContinuation
    BY <1>12, RowUpdates DEF TypeOK, CompleteApprovalContinuation
  <1>13. ASSUME NEW i \in Installations, InstallationNext(i)
         PROVE  TypeOK'
    BY <1>13, TypeOKInstallation
  <1>14. CASE UNCHANGED vars
    BY <1>14 DEF TypeOK, vars
  <1>15. QED
    BY <1>1, <1>2, <1>3, <1>5, <1>6, <1>7, <1>8, <1>9, <1>10, <1>11, <1>12, <1>13,
       <1>14 DEF Next, BuyerNext

(* The rows of a task that was not created yet are well typed.              *)
LEMMA TypeOKInit == Init => TypeOK
  <1>1. NoTask \in Task /\ NoPermit \in Permit
    BY DEF NoTask, NoPermit, Task, Permit, TaskStatuses, PermitStatuses, NoPreference
  <1>2. NoContinuation \in Continuation /\ ClosedPage \in Page
    BY DurationsAssumption DEF NoContinuation, ClosedPage, Continuation, Page, PageSteps
  <1>3. NoAttempt \in Attempt
    BY DEF NoAttempt, Attempt, AttemptStatuses
  <1>4. NoProposal \in [product : Products \cup {NoProduct}, expiresAt : Nat]
    BY DEF NoProposal
  <1>5. <<>> \in Seq(Command)
    BY EmptySeq
  <1>6. ASSUME Init
        PROVE  installs \in [Installations -> {"new", "active", "revoked"}]
    BY <1>6 DEF Init
  <1>7. ASSUME Init
        PROVE  /\ now \in 0 .. MaxNow
               /\ passkey \in Snapshots \cup {NoSnapshot} /\ reviewed \subseteq Products
    BY <1>7, DurationsAssumption DEF Init
  <1>8. Init => live \in BOOLEAN
    BY DEF Init
  <1>9. QED
    BY <1>1, <1>2, <1>3, <1>4, <1>5, <1>6, <1>7, <1>8 DEF Init, TypeOK

(* Every row of a shopping task is well typed.                              *)
THEOREM TypeCorrect == Spec => []TypeOK
  <1>1. Init => TypeOK
    BY TypeOKInit
  <1>2. TypeOK /\ [Next]_vars => TypeOK'
    BY TypeOKStep
  <1>3. QED
    BY <1>1, <1>2, PTL DEF Spec

-----------------------------------------------------------------------------
(* The seal invariant looks only at the task, its proposal, its permit, its *)
(* attempt and the last approval.                                           *)
LEMMA SealFrame ==
    ASSUME SealInvariant, UNCHANGED <<task, proposal, permit, attempt, passkey>>
    PROVE  SealInvariant'
  BY DEF SealInvariant, ReviewDisplaces, PermitFitsTask, OfferIsOpen, ApprovalIsSealed,
         SubmissionIsSealed, OutcomeIsAttempts, Pending

(* A status outside the sealed ones asks nothing of permit and attempt.     *)
LEMMA OnlyStatusChanges ==
    ASSUME TypeOK, SealInvariant, NEW status,
           status \notin FinalStatuses \cup {"pending_approval", "approved"},
           task' = [task EXCEPT !.status = status],
           UNCHANGED <<proposal, permit, attempt, passkey>>
    PROVE  SealInvariant'
  BY DEF TypeOK, Task, FinalStatuses, SealInvariant, ReviewDisplaces, PermitFitsTask,
         OfferIsOpen, ApprovalIsSealed, SubmissionIsSealed, OutcomeIsAttempts, Pending

(* Reviews, confirmations and restarts keep the seal invariant.             *)
LEMMA SealSelection ==
    ASSUME TypeOK, SealInvariant
    PROVE  /\ \A i \in Installations, p \in Products : Propose(i, p) => SealInvariant'
           /\ \A i \in Installations : ConfirmCandidate(i) => SealInvariant'
           /\ \A i \in Installations : DismissCandidate(i) => SealInvariant'
           /\ ResetProductSelection => SealInvariant'
  <1> USE DEF SealInvariant, ReviewDisplaces, PermitFitsTask, OfferIsOpen, ApprovalIsSealed,
              SubmissionIsSealed, OutcomeIsAttempts, FinalStatuses
  <1>1. ASSUME NEW i \in Installations, NEW p \in Products, Propose(i, p)
        PROVE  SealInvariant'
    BY <1>1 DEF TypeOK, Task, Propose, Deselected
  <1>2. ASSUME NEW i \in Installations, ConfirmCandidate(i)
        PROVE  SealInvariant'
    BY <1>2 DEF TypeOK, Task, ConfirmCandidate, NoProposal, Pending
  <1>3. ASSUME NEW i \in Installations, DismissCandidate(i)
        PROVE  SealInvariant'
    BY <1>3 DEF TypeOK, Task, DismissCandidate, NoProposal, Pending
  <1>4. ASSUME ResetProductSelection
        PROVE  SealInvariant'
    BY <1>4 DEF TypeOK, Task, ResetProductSelection, Deselected, NoProposal, Pending
  <1>5. QED
    BY <1>1, <1>2, <1>3, <1>4

(* Observation and approval keep it: an observation replaces evidence only  *)
(* while it is not approved, and an approval is of the evidence the permit  *)
(* holds.                                                                   *)
LEMMA SealApproval ==
    ASSUME TypeOK, SealInvariant
    PROVE  /\ \A i \in Installations, s \in Snapshots, sound \in BOOLEAN :
                ObserveCheckout(i, s, sound) => SealInvariant'
           /\ Approve => SealInvariant'
  <1> USE DEF SealInvariant, ReviewDisplaces, PermitFitsTask, OfferIsOpen, ApprovalIsSealed,
              SubmissionIsSealed, OutcomeIsAttempts, FinalStatuses
  <1>1. ASSUME NEW i \in Installations, NEW s \in Snapshots, NEW sound \in BOOLEAN,
               ObserveCheckout(i, s, sound)
        PROVE  SealInvariant'
    <2>1. CASE Acceptable(s, sound)
      <3>1. /\ task' = [task EXCEPT !.status = "pending_approval", !.permit = TRUE,
                                    !.snapshot = s]
            /\ permit' = [permit EXCEPT !.status = "pending_confirmation",
                                        !.snapshot = s, !.expiresAt = now + PermitTtl]
            /\ UNCHANGED <<proposal, attempt, passkey>>
            /\ task.selected # NoProduct
        BY <1>1, <2>1 DEF ObserveCheckout
      <3>2. s.product = task.selected /\ s.payment = task.preference
        BY <2>1 DEF Acceptable, RightProduct
      <3>3. QED
        BY <3>1, <3>2 DEF TypeOK, Task, Permit, Pending
    <2>2. CASE ~Acceptable(s, sound)
      BY <1>1, <2>2, OnlyStatusChanges DEF ObserveCheckout
    <2>3. QED
      BY <2>1, <2>2
  <1>2. ASSUME Approve
        PROVE  SealInvariant'
    BY <1>2 DEF TypeOK, Task, Permit, Approve, CanApprove, Pending
  <1>3. QED
    BY <1>1, <1>2

(* Claims and reports keep it: the attempt carries the approved evidence.   *)
LEMMA SealExecution ==
    ASSUME TypeOK, SealInvariant, NEW i \in Installations
    PROVE  /\ \A s \in Snapshots, sound \in BOOLEAN :
                ClaimExecution(i, s, sound) => SealInvariant'
           /\ \A s \in Snapshots, sound \in BOOLEAN :
                DenyExecution(i, s, sound) => SealInvariant'
           /\ \A outcome \in Outcomes : ReportExecution(i, outcome) => SealInvariant'
  <1> USE DEF SealInvariant, ReviewDisplaces, PermitFitsTask, OfferIsOpen, ApprovalIsSealed,
              SubmissionIsSealed, OutcomeIsAttempts, FinalStatuses
  <1>1. ASSUME NEW s \in Snapshots, NEW sound \in BOOLEAN, ClaimExecution(i, s, sound)
        PROVE  SealInvariant'
    <2>1. PICK status \in {"prepared", "submitting"} :
            /\ task' = [task EXCEPT !.status = status]
            /\ permit' = [permit EXCEPT !.status = status]
            /\ attempt' = Claimed(i, s, IF status = "prepared" THEN "prepared" ELSE "claimed")
      BY <1>1 DEF ClaimExecution
    <2>2. /\ task.status = "approved" /\ task.permit /\ s = permit.snapshot
          /\ UNCHANGED <<proposal, passkey>>
      BY <1>1 DEF ClaimExecution, MayClaim, Unchanged, SameEvidence
    <2>3. QED
      BY <2>1, <2>2 DEF TypeOK, Task, Permit, Claimed, Pending
  <1>2. ASSUME NEW s \in Snapshots, NEW sound \in BOOLEAN, DenyExecution(i, s, sound)
        PROVE  SealInvariant'
    BY <1>2 DEF TypeOK, Task, Permit, DenyExecution, Pending
  <1>3. ASSUME NEW outcome \in Outcomes, ReportExecution(i, outcome)
        PROVE  SealInvariant'
    BY <1>3 DEF TypeOK, Task, Permit, Attempt, ReportExecution, Reportable, Outcomes,
                PermitOutcome, Pending
  <1>4. QED
    BY <1>1, <1>2, <1>3

(* Every step keeps the seal invariant.                                     *)
LEMMA SealStep ==
    ASSUME TypeOK, SealInvariant, [Next]_vars
    PROVE  SealInvariant'
  <1>1. CASE Tick \/ AnswerChallenge \/ DeclineChallenge \/ ShoppingApprovalOptions
              \/ ApproveRefused \/ CompleteApprovalContinuation
              \/ (\E enabled \in BOOLEAN : SetLiveMode(enabled))
              \/ (\E own \in BOOLEAN : OpenPage(own))
    <2>1. UNCHANGED <<task, proposal, permit, attempt, passkey>>
      BY <1>1 DEF Tick, AnswerChallenge, DeclineChallenge, ShoppingApprovalOptions,
                  ApproveRefused, CompleteApprovalContinuation, SetLiveMode, OpenPage
    <2>2. QED
      BY <2>1, SealFrame
  <1>2. ASSUME NEW siteLive \in BOOLEAN, CreateTask(siteLive)
        PROVE  SealInvariant'
    BY <1>2 DEF TypeOK, Task, CreateTask, Locked, FinalStatuses, SealInvariant,
        ReviewDisplaces, PermitFitsTask, OfferIsOpen, ApprovalIsSealed,
        SubmissionIsSealed, OutcomeIsAttempts, Pending
  <1>3. CASE QueueOperatorAction
    BY <1>3, OnlyStatusChanges DEF QueueOperatorAction, FinalStatuses
  <1>4. CASE Restart \/ CancelApprovalContinuation
    BY <1>4, SealSelection DEF Restart, CancelApprovalContinuation
  <1>5. CASE Approve
    BY <1>5, SealApproval
  <1>6. ASSUME NEW i \in Installations, InstallationNext(i)
        PROVE  SealInvariant'
    <2>1. CASE RegisterInstallation(i) \/ RevokeInstallation(i) \/ ClaimOperatorCommand(i)
                \/ CreateApprovalContinuation(i)
                \/ (\E k \in 1 .. MaxCommands, result \in CommandResults :
                        CompleteOperatorCommand(i, k, result))
      <3>1. UNCHANGED <<task, proposal, permit, attempt, passkey>>
        BY <2>1 DEF RegisterInstallation, RevokeInstallation, ClaimOperatorCommand,
                    CreateApprovalContinuation, CompleteOperatorCommand
      <3>2. QED
        BY <3>1, SealFrame
    <2>2. CASE SaveCandidates(i)
      BY <2>2, OnlyStatusChanges DEF SaveCandidates, FinalStatuses
    <2>3. ASSUME NEW status \in Reports, ReportStatus(i, status)
          PROVE  SealInvariant'
      BY <2>3, OnlyStatusChanges, ReportsAssumption
      DEF ReportStatus, FinalStatuses, ProgressStatuses
    <2>4. ASSUME NEW payment \in Payments, SetPaymentPreference(i, payment)
          PROVE  SealInvariant'
      BY <2>4 DEF TypeOK, Task, SetPaymentPreference, FinalStatuses, SealInvariant,
          ReviewDisplaces, PermitFitsTask, OfferIsOpen, ApprovalIsSealed,
          SubmissionIsSealed, OutcomeIsAttempts, Pending
    <2>5. CASE \/ \E p \in Products : Propose(i, p)
               \/ ConfirmCandidate(i) \/ DismissCandidate(i)
      BY <2>5, SealSelection
    <2>6. CASE \E s \in Snapshots, sound \in BOOLEAN : ObserveCheckout(i, s, sound)
      BY <2>6, SealApproval
    <2>7. CASE \/ \E s \in Snapshots, sound \in BOOLEAN :
                    ClaimExecution(i, s, sound) \/ DenyExecution(i, s, sound)
               \/ \E outcome \in Outcomes : ReportExecution(i, outcome)
      BY <2>7, SealExecution
    <2>8. QED
      BY <1>6, <2>1, <2>2, <2>3, <2>4, <2>5, <2>6, <2>7 DEF InstallationNext
  <1>7. CASE UNCHANGED vars
    BY <1>7, SealFrame DEF vars
  <1>8. QED
    BY <1>1, <1>2, <1>3, <1>4, <1>5, <1>6, <1>7 DEF Next, BuyerNext

(* Of a task that was not created yet there is nothing to agree on.         *)
LEMMA SealInit == Init => SealInvariant
  BY DEF Init, NoTask, NoProposal, FinalStatuses, SealInvariant, ReviewDisplaces,
         PermitFitsTask, OfferIsOpen, ApprovalIsSealed, SubmissionIsSealed,
         OutcomeIsAttempts, Pending

(* Selection, permit, approval, attempt and outcome of a task agree in      *)
(* every reachable state.                                                   *)
THEOREM SealHolds == Spec => [](TypeOK /\ SealInvariant)
  <1>1. Init => SealInvariant
    BY SealInit
  <1>2. TypeOK /\ SealInvariant /\ [Next]_vars => SealInvariant'
    BY SealStep
  <1>3. QED
    BY <1>1, <1>2, TypeCorrect, PTL DEF Spec

-----------------------------------------------------------------------------
(* What the steps do to an attempt, and to the status of its task: only a  *)
(* claim of an unexecuted task and a report of a submitting one touch the   *)
(* attempt, and only a claim submits.                                       *)
LEMMA AttemptStep ==
    ASSUME TypeOK, Next
    PROVE  \/ attempt' = attempt /\ (task' = task \/ task'.status # "submitting")
           \/ \E i \in Installations, s \in Snapshots, sound \in BOOLEAN :
                ClaimExecution(i, s, sound)
           \/ \E i \in Installations, outcome \in Outcomes : ReportExecution(i, outcome)
  <1> DEFINE Kept == attempt' = attempt /\ (task' = task \/ task'.status # "submitting")
  <1>1. CASE Tick \/ BuyerNext
    BY <1>1 DEF TypeOK, Task, Tick, BuyerNext, SetLiveMode, CreateTask, Restart,
        ResetProductSelection, Deselected, QueueOperatorAction, OpenPage,
        ShoppingApprovalOptions, AnswerChallenge, DeclineChallenge, Approve,
        ApproveRefused, CompleteApprovalContinuation, CancelApprovalContinuation
  <1>2. ASSUME NEW i \in Installations, InstallationNext(i)
        PROVE  \/ Kept
               \/ \E s \in Snapshots, sound \in BOOLEAN : ClaimExecution(i, s, sound)
               \/ \E outcome \in Outcomes : ReportExecution(i, outcome)
    <2>1. CASE \/ RegisterInstallation(i) \/ RevokeInstallation(i)
               \/ ClaimOperatorCommand(i) \/ CreateApprovalContinuation(i)
               \/ \E k \in 1 .. MaxCommands, result \in CommandResults :
                    CompleteOperatorCommand(i, k, result)
      BY <2>1 DEF RegisterInstallation, RevokeInstallation, ClaimOperatorCommand,
                  CreateApprovalContinuation, CompleteOperatorCommand
    <2>2. CASE \/ SaveCandidates(i) \/ ConfirmCandidate(i) \/ DismissCandidate(i)
               \/ \E p \in Products : Propose(i, p)
      BY <2>2 DEF TypeOK, Task, SaveCandidates, ConfirmCandidate, DismissCandidate,
                  Propose, Deselected
    <2>3. ASSUME NEW status \in Reports, ReportStatus(i, status)
          PROVE  Kept
      BY <2>3, ReportsAssumption DEF TypeOK, Task, ReportStatus, ProgressStatuses
    <2>4. ASSUME NEW payment \in Payments, SetPaymentPreference(i, payment)
          PROVE  Kept
      BY <2>4 DEF TypeOK, Task, SetPaymentPreference
    <2>5. ASSUME NEW s \in Snapshots, NEW sound \in BOOLEAN,
                 ObserveCheckout(i, s, sound) \/ DenyExecution(i, s, sound)
          PROVE  Kept
      BY <2>5 DEF TypeOK, Task, ObserveCheckout, DenyExecution
    <2>6. QED
      BY <1>2, <2>1, <2>2, <2>3, <2>4, <2>5 DEF InstallationNext
  <1>3. QED
    BY <1>1, <1>2 DEF Next

(* A grant that ended stays dead: nothing changes its attempt or submits    *)
(* the task again.                                                          *)
THEOREM AttemptsEndOnce == Spec => OneAttemptOneEnd
  <1>1. ASSUME TypeOK, [Next]_vars
        PROVE  [attempt.status # "none" /\ task.status # "submitting" =>
                    attempt' = attempt /\ task'.status # "submitting"]_vars
    <2>1. SUFFICES ASSUME Next, attempt.status # "none", task.status # "submitting"
                   PROVE  attempt' = attempt /\ task'.status # "submitting"
      BY <1>1
    <2>2. ~ \E i \in Installations, s \in Snapshots, sound \in BOOLEAN :
                ClaimExecution(i, s, sound)
      BY <2>1 DEF ClaimExecution, MayClaim, Unexecuted
    <2>3. ~ \E i \in Installations, outcome \in Outcomes : ReportExecution(i, outcome)
      BY <2>1 DEF ReportExecution, Reportable
    <2>4. QED
      BY <1>1, <2>1, <2>2, <2>3, AttemptStep
  <1>2. QED
    BY <1>1, TypeCorrect, PTL DEF Spec, OneAttemptOneEnd

(* What the steps do to the operator's commands: one is queued behind the   *)
(* others, the oldest is claimed, or a claimed one gets its result.         *)
LEMMA CommandStep ==
    ASSUME TypeOK, [Next]_vars
    PROVE  \/ commands' = commands
           \/ QueueOperatorAction
           \/ \E i \in Installations : ClaimOperatorCommand(i)
           \/ \E i \in Installations, k \in 1 .. MaxCommands, result \in CommandResults :
                CompleteOperatorCommand(i, k, result)
  <1>1. CASE Tick \/ BuyerNext
    BY <1>1 DEF Tick, BuyerNext, SetLiveMode, CreateTask, Restart, ResetProductSelection,
        OpenPage, ShoppingApprovalOptions, AnswerChallenge, DeclineChallenge, Approve,
        ApproveRefused, CompleteApprovalContinuation, CancelApprovalContinuation, serverVars
  <1>2. ASSUME NEW i \in Installations, InstallationNext(i)
        PROVE  \/ commands' = commands
               \/ ClaimOperatorCommand(i)
               \/ \E k \in 1 .. MaxCommands, result \in CommandResults :
                    CompleteOperatorCommand(i, k, result)
    BY <1>2 DEF InstallationNext, RegisterInstallation, RevokeInstallation, SaveCandidates,
        Propose, ConfirmCandidate, DismissCandidate, ReportStatus, SetPaymentPreference,
        ObserveCheckout, CreateApprovalContinuation, ClaimExecution, DenyExecution,
        ReportExecution, serverVars
  <1>3. CASE UNCHANGED vars
    BY <1>3 DEF vars, serverVars
  <1>4. QED
    BY <1>1, <1>2, <1>3 DEF Next

(* Whichever command is queued, claimed or completed, no command starts     *)
(* before one that was queued earlier.                                      *)
LEMMA OrderStep ==
    ASSUME TypeOK, OperatorInOrder, [Next]_vars
    PROVE  OperatorInOrder'
  <1> SUFFICES ASSUME NEW j \in DOMAIN commands', NEW k \in DOMAIN commands',
                      j < k, commands'[j].status = "queued"
               PROVE  commands'[k].status = "queued"
    BY DEF OperatorInOrder
  <1>1. commands \in Seq(Command) /\ Len(commands) \in Nat
        /\ DOMAIN commands = 1 .. Len(commands)
    BY LenProperties DEF TypeOK
  <1>2. \A n \in DOMAIN commands : commands[n] \in Command
    BY <1>1, ElementOfSeq
  <1>3. CASE commands' = commands
    BY <1>3 DEF OperatorInOrder
  <1>4. CASE QueueOperatorAction
    <2> DEFINE new == [status |-> "queued", installation |-> NoInstallation]
    <2>1. new \in Command
      BY DEF Command
    <2>2. commands' = Append(commands, new)
      BY <1>4 DEF QueueOperatorAction
    <2>3. /\ DOMAIN commands' = 1 .. Len(commands) + 1
          /\ \A n \in 1 .. Len(commands) : commands'[n] = commands[n]
          /\ commands'[Len(commands) + 1] = new
      BY <1>1, <2>1, <2>2, AppendProperties
    <2>4. CASE k = Len(commands) + 1
      BY <2>3, <2>4
    <2>5. CASE k # Len(commands) + 1
      <3>1. j \in DOMAIN commands /\ k \in DOMAIN commands
        BY <1>1, <2>3, <2>5
      <3>2. commands'[j] = commands[j] /\ commands'[k] = commands[k]
        BY <1>1, <2>3, <3>1
      <3>3. QED
        BY <3>1, <3>2 DEF OperatorInOrder
    <2>6. QED
      BY <2>4, <2>5
  <1>5. ASSUME NEW i \in Installations, ClaimOperatorCommand(i)
        PROVE  commands'[k].status = "queued"
    <2>1. PICK n \in Oldest :
            commands' = [commands EXCEPT ![n] = [status |-> "claimed", installation |-> i]]
      BY <1>5 DEF ClaimOperatorCommand
    <2>2. j \in DOMAIN commands /\ k \in DOMAIN commands /\ n \in DOMAIN commands
      BY <2>1 DEF Oldest, Queued
    <2>3. j # n /\ commands[j].status = "queued"
      BY <2>1, <2>2
    <2>4. n <= j
      BY <2>1, <2>2, <2>3 DEF Oldest, Queued
    <2>5. k # n
      BY <1>1, <2>2, <2>4
    <2>6. QED
      BY <2>1, <2>2, <2>3, <2>5 DEF OperatorInOrder
  <1>6. ASSUME NEW i \in Installations, NEW n \in 1 .. MaxCommands,
               NEW result \in CommandResults, CompleteOperatorCommand(i, n, result)
        PROVE  commands'[k].status = "queued"
    <2>1. n \in DOMAIN commands /\ commands[n].status = "claimed"
          /\ commands' = [commands EXCEPT ![n].status = result]
      BY <1>6 DEF CompleteOperatorCommand
    <2>2. j \in DOMAIN commands /\ k \in DOMAIN commands
      BY <2>1
    <2>3. j # n /\ commands[j].status = "queued"
      BY <1>2, <2>1, <2>2 DEF Command, CommandResults
    <2>4. commands[k].status = "queued"
      BY <2>2, <2>3 DEF OperatorInOrder
    <2>5. QED
      BY <2>1, <2>2, <2>4
  <1>7. QED
    BY <1>3, <1>4, <1>5, <1>6, CommandStep

(* Commands of the operator start in the order they were queued             *)
(* (claimOperatorCommand, browser-agent.ts:313-320).                        *)
THEOREM CommandsStartInOrder == Spec => []OperatorInOrder
  <1>1. Init => OperatorInOrder
    BY DEF Init, OperatorInOrder
  <1>2. TypeOK /\ OperatorInOrder /\ [Next]_vars => OperatorInOrder'
    BY OrderStep
  <1>3. QED
    BY <1>1, <1>2, TypeCorrect, PTL DEF Spec

(* Whatever is executed is what the last passkey sealed, for the product    *)
(* and payment chosen now, within the life of permit and task.              *)
THEOREM SealedIsExecuted == Spec => ExecutesWhatWasSealed
  <1>1. ASSUME TypeOK, SealInvariant, [Next]_vars
        PROVE  [attempt.status = "none" /\ attempt' # attempt =>
                    /\ attempt'.evidence = passkey
                    /\ passkey.product = task.selected /\ passkey.payment = task.preference
                    /\ now < permit.expiresAt /\ now < task.expiresAt]_vars
    <2>1. SUFFICES ASSUME Next, attempt.status = "none", attempt' # attempt
                   PROVE  /\ attempt'.evidence = passkey
                          /\ passkey.product = task.selected
                          /\ passkey.payment = task.preference
                          /\ now < permit.expiresAt /\ now < task.expiresAt
      BY <1>1
    <2>2. ~ \E i \in Installations, outcome \in Outcomes : ReportExecution(i, outcome)
      BY <2>1 DEF ReportExecution, GrantValid
    <2>3. PICK i \in Installations, s \in Snapshots, sound \in BOOLEAN :
            ClaimExecution(i, s, sound)
      BY <1>1, <2>1, <2>2, AttemptStep
    <2>4. task.status = "approved" /\ Acceptable(s, sound) /\ Unchanged(s)
      BY <2>3 DEF ClaimExecution, MayClaim
    <2>5. s = passkey
      BY <1>1, <2>4 DEF Unchanged, SameEvidence, SealInvariant, ApprovalIsSealed
    <2>6. attempt'.evidence = s
      BY <2>3 DEF ClaimExecution, Claimed
    <2>7. QED
      BY <2>4, <2>5, <2>6 DEF Acceptable, RightProduct, Unchanged
  <1>2. QED
    BY <1>1, SealHolds, PTL DEF Spec, ExecutesWhatWasSealed

-----------------------------------------------------------------------------
(* A task without an attempt row has executed nothing.                      *)
NothingExecuted == attempt.status = "none" => attempt.evidence = NoSnapshot

(* claimExecution writes both or neither.                                   *)
LEMMA NothingExecutedHolds == Spec => []NothingExecuted
  <1>1. Init => NothingExecuted
    BY DEF Init, NoAttempt, NothingExecuted
  <1>2. TypeOK /\ NothingExecuted /\ [Next]_vars => NothingExecuted'
    <2>1. SUFFICES ASSUME TypeOK, NothingExecuted, [Next]_vars
                   PROVE  NothingExecuted'
      OBVIOUS
    <2>2. CASE attempt' = attempt
      BY <2>1, <2>2 DEF NothingExecuted
    <2>3. ASSUME NEW i \in Installations, NEW s \in Snapshots, NEW sound \in BOOLEAN,
                 ClaimExecution(i, s, sound)
          PROVE  NothingExecuted'
      BY <2>3 DEF ClaimExecution, Claimed, NothingExecuted
    <2>4. ASSUME NEW i \in Installations, NEW outcome \in Outcomes,
                 ReportExecution(i, outcome)
          PROVE  NothingExecuted'
      BY <2>1, <2>4 DEF TypeOK, Attempt, Outcomes, ReportExecution, NothingExecuted
    <2>5. CASE UNCHANGED vars
      BY <2>2, <2>5 DEF vars
    <2>6. QED
      BY <2>1, <2>2, <2>3, <2>4, <2>5, AttemptStep
  <1>3. QED
    BY <1>1, <1>2, TypeCorrect, PTL DEF Spec

(* A step that leaves the attempt alone and ends in a status without an     *)
(* offer withdraws, one that leaves the offer alone stutters.               *)
LEMMA Withdrawals ==
    ASSUME attempt'.evidence = attempt.evidence
    PROVE  /\ task'.status \notin {"pending_approval", "approved"} => Seal!Withdraw
           /\ task' = task => UNCHANGED Seal!vars
  BY DEF Seal!Withdraw, Seal!vars

(* Every transaction is a step of the Purchase Seal or leaves it alone.     *)
LEMMA SealSimulation ==
    ASSUME TypeOK, SealInvariant, NothingExecuted, [Next]_vars
    PROVE  [Seal!Next]_(Seal!vars)
  <1> USE DEF Seal!Next
  <1>1. CASE UNCHANGED vars
    BY <1>1, Withdrawals DEF vars
  <1>2. CASE Tick \/ BuyerNext
    <2>1. CASE Approve
      <3>1. task.status = "pending_approval" /\ task.permit
        BY <2>1 DEF Approve, CanApprove
      <3>2. task.snapshot \in Snapshots /\ task.snapshot # NoSnapshot
        BY <3>1, NoSnapshotAssumption DEF SealInvariant, PermitFitsTask
      <3>3. /\ task'.status = "approved" /\ task'.snapshot = task.snapshot
            /\ attempt' = attempt
        BY <2>1 DEF TypeOK, Task, Approve
      <3>4. Seal!Approve
        BY <3>1, <3>2, <3>3 DEF Seal!Approve
      <3>5. QED
        BY <3>4
    <2>2. CASE ~Approve
      <3>1. attempt' = attempt
        BY <1>2, <2>2 DEF Tick, BuyerNext, SetLiveMode, CreateTask, Restart,
            ResetProductSelection, QueueOperatorAction, OpenPage,
            ShoppingApprovalOptions, AnswerChallenge, DeclineChallenge,
            ApproveRefused, CompleteApprovalContinuation, CancelApprovalContinuation
      <3>2. task' = task \/ task'.status \notin {"pending_approval", "approved"}
        BY <1>2, <2>2 DEF TypeOK, Task, Tick, BuyerNext, SetLiveMode, CreateTask, Restart,
            ResetProductSelection, Deselected, QueueOperatorAction, OpenPage,
            ShoppingApprovalOptions, AnswerChallenge, DeclineChallenge,
            ApproveRefused, CompleteApprovalContinuation, CancelApprovalContinuation
      <3>3. QED
        BY <3>1, <3>2, Withdrawals
    <2>3. QED
      BY <2>1, <2>2
  <1>3. ASSUME NEW i \in Installations, InstallationNext(i)
        PROVE  [Seal!Next]_(Seal!vars)
    <2>1. ASSUME NEW s \in Snapshots, NEW sound \in BOOLEAN, ObserveCheckout(i, s, sound)
          PROVE  [Seal!Next]_(Seal!vars)
      <3>1. attempt' = attempt
        BY <2>1 DEF ObserveCheckout
      <3>2. CASE Acceptable(s, sound)
        <4>1. /\ task.status \in ObservableStatuses
              /\ task'.status = "pending_approval" /\ task'.snapshot = s
          BY <2>1, <3>2 DEF TypeOK, Task, ObserveCheckout
        <4>2. Seal!Offer(s)
          BY <3>1, <4>1 DEF Seal!Offer, ObservableStatuses
        <4>3. QED
          BY <4>2
      <3>3. CASE ~Acceptable(s, sound)
        <4>1. task'.status = "denied"
          BY <2>1, <3>3 DEF TypeOK, Task, ObserveCheckout
        <4>2. QED
          BY <3>1, <4>1, Withdrawals
      <3>4. QED
        BY <3>2, <3>3
    <2>2. ASSUME NEW s \in Snapshots, NEW sound \in BOOLEAN, ClaimExecution(i, s, sound)
          PROVE  [Seal!Next]_(Seal!vars)
      <3>1. /\ task.status = "approved" /\ task.permit /\ attempt.status = "none"
            /\ s = permit.snapshot
        BY <2>2 DEF ClaimExecution, MayClaim, Unexecuted, Unchanged, SameEvidence
      <3>2. task.snapshot = s /\ s # NoSnapshot
        BY <3>1, NoSnapshotAssumption DEF SealInvariant, PermitFitsTask
      <3>3. task'.status \in {"prepared", "submitting"} /\ attempt'.evidence = s
        BY <2>2 DEF TypeOK, Task, ClaimExecution, Claimed
      <3>4. Seal!Execute
        BY <3>1, <3>2, <3>3 DEF Seal!Execute, NothingExecuted
      <3>5. QED
        BY <3>4
    <2>3. ASSUME NEW outcome \in Outcomes, ReportExecution(i, outcome)
          PROVE  [Seal!Next]_(Seal!vars)
      <3>1. task'.status = outcome /\ attempt'.evidence = attempt.evidence
        BY <2>3 DEF TypeOK, Task, Attempt, ReportExecution
      <3>2. QED
        BY <3>1, Withdrawals DEF Outcomes
    <2>4. CASE \/ RegisterInstallation(i) \/ RevokeInstallation(i)
               \/ ClaimOperatorCommand(i) \/ CreateApprovalContinuation(i)
               \/ \E k \in 1 .. MaxCommands, result \in CommandResults :
                    CompleteOperatorCommand(i, k, result)
      <3>1. attempt' = attempt /\ task' = task
        BY <2>4 DEF RegisterInstallation, RevokeInstallation, ClaimOperatorCommand,
                    CreateApprovalContinuation, CompleteOperatorCommand
      <3>2. QED
        BY <3>1, Withdrawals
    <2>5. CASE \/ SaveCandidates(i) \/ ConfirmCandidate(i) \/ DismissCandidate(i)
               \/ \E p \in Products : Propose(i, p)
      <3>1. /\ attempt' = attempt
            /\ task'.status \notin {"pending_approval", "approved"}
        BY <2>5 DEF TypeOK, Task, SaveCandidates, ConfirmCandidate, DismissCandidate,
                    Propose, Deselected
      <3>2. QED
        BY <3>1, Withdrawals
    <2>6. ASSUME NEW status \in Reports, ReportStatus(i, status)
          PROVE  [Seal!Next]_(Seal!vars)
      <3>1. /\ attempt' = attempt
            /\ task'.status \notin {"pending_approval", "approved"}
        BY <2>6, ReportsAssumption DEF TypeOK, Task, ReportStatus, ProgressStatuses
      <3>2. QED
        BY <3>1, Withdrawals
    <2>7. ASSUME NEW payment \in Payments, SetPaymentPreference(i, payment)
          PROVE  [Seal!Next]_(Seal!vars)
      <3>1. /\ attempt' = attempt
            /\ task'.status \notin {"pending_approval", "approved"}
        BY <2>7 DEF TypeOK, Task, SetPaymentPreference
      <3>2. QED
        BY <3>1, Withdrawals
    <2>8. ASSUME NEW s \in Snapshots, NEW sound \in BOOLEAN, DenyExecution(i, s, sound)
          PROVE  [Seal!Next]_(Seal!vars)
      <3>1. attempt' = attempt /\ task'.status = "denied"
        BY <2>8 DEF TypeOK, Task, DenyExecution
      <3>2. QED
        BY <3>1, Withdrawals
    <2>9. QED
      BY <1>3, <2>1, <2>2, <2>3, <2>4, <2>5, <2>6, <2>7, <2>8 DEF InstallationNext
  <1>4. QED
    BY <1>1, <1>2, <1>3 DEF Next

(* The transactions implement the Purchase Seal: offered evidence is        *)
(* approved as it stands, and executed once, as approved.                   *)
THEOREM ImplementsSeal == Spec => SealSpec
  <1>1. Init => Seal!Init
    BY DEF Init, Seal!Init, NoTask, NoAttempt
  <1>2. TypeOK /\ SealInvariant /\ NothingExecuted /\ [Next]_vars
            => [Seal!Next]_(Seal!vars)
    BY SealSimulation
  <1>3. QED
    BY <1>1, <1>2, SealHolds, NothingExecutedHolds, PTL DEF Spec, SealSpec, Seal!Spec
=============================================================================
