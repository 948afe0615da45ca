--------------------------- MODULE ExtensionProofs ---------------------------
(***************************************************************************)
(* What holds of the browser extension for every number of handlers in     *)
(* progress, products, labels and faults: every call it makes is a         *)
(* transaction of ShoppingTask, so that what is proved of a task holds of  *)
(* a task the extension drives; a claimed execution is with one handler or *)
(* its grant in storage; and, on a shop whose final controls the operator  *)
(* may not click, what was ordered was claimed and done once.              *)
(***************************************************************************)
EXTENDS Extension, ShoppingTaskProofs

Row == [at : Places, seen : Snapshots \cup {NoSnapshot}, say : TaskStatuses \cup Outcomes]

(* A handler has seen the evidence it is to send, and says what it may.     *)
RowFits(row) ==
    /\ row.at \in {"report", "late_report", "tell", "late_tell", "resume"} =>
            row.say \in ProgressStatuses
    /\ row.at = "outcome" => row.say \in Outcomes
    /\ row.at \in {"observe", "claim", "click", "resend"} => row.seen \in Snapshots
HandlersFit == \A h \in Handlers : handler[h] \in Row /\ RowFits(handler[h])

Executed == attempt.status \notin {"none", "prepared"}

(* A handler between an allowed claim and the storage of its grant, and one *)
(* that looks for the outcome of a stored one.                              *)
Submitters == {"click", "resend", "store", "not_submitted"}
Submitting(h) == handler[h].at \in Submitters
Finishing(h) == handler[h].at \in {"finalize", "outcome"}

(* One handler submits, and only the attempt it claimed itself: a stored    *)
(* grant, a second handler or an outcome cannot be there at the same time.  *)
GrantInvariant ==
    /\ \A h \in Handlers :
        Submitting(h) =>
            /\ attempt.status = "claimed" /\ task.mode = "live" /\ ~grant
            /\ \A g \in Handlers : (Submitting(g) => g = h) /\ ~Finishing(g)
    /\ \A h \in Handlers : Finishing(h) => Executed /\ task.mode = "live"
    /\ grant => Executed /\ task.mode = "live"
    /\ task.status = "none" => attempt.status = "none"
    /\ installs[Extension] = "new" =>
            attempt.status = "none" /\ task.status # "pending_approval"

(* What the shop was ordered to do, and how much of it the faults explain.  *)
OrderInvariant ==
    /\ orders > 0 => Executed /\ task.mode = "live"
    /\ orders <= 1 + faults
    /\ attempt.status = "failed" \/ tab = "refused" => orders <= faults
    /\ \A h \in Handlers :
        /\ At(h, "click") => orders = 0
        /\ At(h, "resend") \/ At(h, "not_submitted") => orders <= faults
        /\ At(h, "outcome") /\ handler[h].say = "failed" => orders <= faults

-----------------------------------------------------------------------------
(* The handlers.                                                            *)

Saying == {"report", "late_report", "tell", "late_tell", "resume"}
Seeing == {"observe", "claim", "click", "resend"}

(* Moving one handler keeps the others, and fits if what it is to say or to *)
(* send fits its place.                                                     *)
LEMMA Moves ==
    ASSUME HandlersFit, handler \in [Handlers -> Row], NEW h \in Handlers
    PROVE  LET Fits == handler' \in [Handlers -> Row] /\ HandlersFit'
           IN  /\ Done(h) => Fits
               /\ \A place \in Places \ (Saying \cup Seeing \cup {"outcome"}) :
                    Go(h, place) => Fits
               /\ \A place \in Saying, status \in ProgressStatuses :
                    Say(h, place, status) => Fits
               /\ \A status \in Outcomes : Say(h, "outcome", status) => Fits
               /\ \A place \in Seeing, s \in Snapshots : Saw(h, place, s) => Fits
  <1>1. ASSUME NEW row \in Row, RowFits(row), handler' = [handler EXCEPT ![h] = row]
        PROVE  handler' \in [Handlers -> Row] /\ HandlersFit'
    BY <1>1 DEF HandlersFit
  <1>2. /\ Idle \in Row /\ RowFits(Idle)
        /\ \A place \in Places \ (Saying \cup Seeing \cup {"outcome"}) :
            [Idle EXCEPT !.at = place] \in Row /\ RowFits([Idle EXCEPT !.at = place])
    BY DEF Idle, Row, RowFits, Places, Guarded, Saying, Seeing, TaskStatuses
  <1>3. \A place \in Saying, status \in ProgressStatuses :
            LET row == [Idle EXCEPT !.at = place, !.say = status]
            IN  row \in Row /\ RowFits(row)
    BY DEF Idle, Row, RowFits, Places, Guarded, Saying, TaskStatuses
  <1>4. \A status \in Outcomes :
            LET row == [Idle EXCEPT !.at = "outcome", !.say = status]
            IN  row \in Row /\ RowFits(row)
    BY DEF Idle, Row, RowFits, Places
  <1>5. \A place \in Seeing, s \in Snapshots :
            LET row == [Idle EXCEPT !.at = place, !.seen = s]
            IN  row \in Row /\ RowFits(row)
    BY DEF Idle, Row, RowFits, Places, Guarded, Seeing, TaskStatuses
  <1>6. QED
    BY <1>1, <1>2, <1>3, <1>4, <1>5 DEF Done, Go, Say, Saw

(* The statuses the handlers report are progress.                           *)
LEMMA WhatIsSaid ==
    /\ {"searching", "navigating", "user_action_required", "checkout_configuring",
        "payment_action_required", "payment_choice_required"} \subseteq ProgressStatuses
    /\ \A payment \in Payments : PaymentAnswers(payment) \subseteq ProgressStatuses
    /\ CheckoutAnswers \ {"advanced", "not_ready", "final_review"} \subseteq ProgressStatuses
    /\ \A view \in Views : OutcomeOf(view) \in Outcomes
    /\ {"failed", "user_action_required"} \subseteq Outcomes
  BY DEF ProgressStatuses, PaymentAnswers, CheckoutAnswers, Outcomes, OutcomeOf, Views

(* What a checkout page shows for a payment already chosen is evidence.     *)
LEMMA EvidenceIsTyped ==
    ASSUME TypeOK, task.preference # NoPreference
    PROVE  PageEvidence \subseteq Snapshots
  BY DEF TypeOK, Task, PageEvidence, Snapshots

(* After every step a handler is well typed and its row fits its place.     *)
LEMMA HandlersStep ==
    ASSUME ExtensionTypeOK, HandlersFit, ExtensionNext
    PROVE  handler' \in [Handlers -> Row] /\ HandlersFit'
  <1> DEFINE Fits == handler' \in [Handlers -> Row] /\ HandlersFit'
  <1>1. handler \in [Handlers -> Row]
    BY DEF ExtensionTypeOK, Row
  <1>2. CASE handler' = handler
    BY <1>1, <1>2 DEF HandlersFit
  <1>3. ASSUME NEW h \in Handlers, HandlerNext(h)
        PROVE  Fits
    <2>1. CASE OpenTask(h) \/ ConfirmProposal(h) \/ SelectionConfirmed(h) \/ Resume(h)
               \/ (\E payment \in Payments : ChoosePayment(h, payment)) \/ BuyNow(h)
      BY <1>1, <2>1, Moves, WhatIsSaid
      DEF OpenTask, ConfirmProposal, SelectionConfirmed, Resume, ChoosePayment, BuyNow,
          RetryOrPause, Saying
    <2>2. CASE SaveFound(h) \/ WindowClosed(h) \/ StoreGrant(h) \/ NotSubmitted(h)
               \/ ReportOutcome(h) \/ Refused(h) \/ CallFails(h)
      BY <1>1, <2>2, Moves
      DEF SaveFound, WindowClosed, StoreGrant, NotSubmitted, ReportOutcome, Refused, CallFails
    <2>3. CASE Search(h) \/ Report(h) \/ (\E pressed \in BOOLEAN : OpenApproval(h, pressed))
               \/ Continue(h) \/ Click(h) \/ Finalize(h) \/ Observe(h)
      BY <1>1, <2>3, Moves, WhatIsSaid
      DEF Search, Report, OpenApproval, Continue, Click, Finalize, Observe, Places, Guarded,
          Saying, Seeing
    <2>4. CASE Configure(h)
      <3>1. PICK answer \in CheckoutAnswers :
              CASE answer = "advanced" -> Done(h)
                [] answer = "not_ready" -> RetryOrPause(h)
                [] answer = "final_review" -> \E s \in PageEvidence : Saw(h, "observe", s)
                [] OTHER -> Say(h, "report", answer)
        BY <2>4 DEF Configure
      <3>2. CASE answer \in {"advanced", "not_ready"}
        BY <1>1, <3>1, <3>2, Moves, WhatIsSaid DEF RetryOrPause, Saying
      <3>3. CASE answer = "final_review"
        <4>1. task.preference # NoPreference
          BY <3>3 DEF CheckoutAnswers
        <4>2. PICK s \in Snapshots : Saw(h, "observe", s)
          BY <3>1, <3>3, <4>1, EvidenceIsTyped DEF ExtensionTypeOK
        <4>3. QED
          BY <1>1, <4>2, Moves DEF Seeing
      <3>4. CASE answer \notin {"advanced", "not_ready", "final_review"}
        BY <1>1, <3>1, <3>4, Moves, WhatIsSaid DEF Saying
      <3>5. QED
        BY <3>2, <3>3, <3>4
    <2>5. CASE Inspect(h)
      <3>1. PICK s \in Snapshots : Saw(h, "claim", s)
        BY <2>5, EvidenceIsTyped DEF Inspect, ExtensionTypeOK
      <3>2. QED
        BY <1>1, <3>1, Moves DEF Seeing
    <2>6. CASE Claim(h) \/ AnswerLost(h)
      <3>1. handler[h].seen \in Snapshots
        BY <2>6 DEF Claim, AnswerLost, At, HandlersFit, RowFits
      <3>2. Done(h) \/ Saw(h, "click", handler[h].seen) \/ Saw(h, "resend", handler[h].seen)
        BY <2>6 DEF Claim, AnswerLost
      <3>3. QED
        BY <1>1, <3>1, <3>2, Moves DEF Seeing
    <2>7. CASE ExecutionOutcome(h)
      <3>1. PICK outcome \in Outcomes : Say(h, "outcome", outcome)
        BY <2>7, WhatIsSaid DEF ExecutionOutcome, ExtensionTypeOK
      <3>2. QED
        BY <1>1, <3>1, Moves
    <2>8. QED
      BY <1>3, <2>1, <2>2, <2>3, <2>4, <2>5, <2>6, <2>7 DEF HandlerNext
  <1>4. CASE WorkerStops
    BY <1>4 DEF WorkerStops, HandlersFit, Idle, Row, RowFits, Places, TaskStatuses
  <1>5. CASE WindowApproved \/ WindowCancelled
    BY <1>1, <1>2, <1>5, Moves DEF WindowApproved, WindowCancelled, Places, Guarded,
        Saying, Seeing
  <1>6. CASE Connect \/ Disconnect \/ (\E p \in Products : ProposeProduct(p))
             \/ DismissProposal \/ ChangeProduct \/ PollOperator \/ PageMoves \/ BuyerActs
             \/ (\E k \in 1..MaxCommands : OperatorActs(k) \/ OperatorReports(k))
    BY <1>2, <1>6 DEF Connect, Disconnect, ProposeProduct, DismissProposal, ChangeProduct,
        PollOperator, OperatorActs, OperatorReports, PageMoves, BuyerActs, clientVars
  <1>7. QED
    BY <1>3, <1>4, <1>5, <1>6 DEF ExtensionNext
-----------------------------------------------------------------------------
(* The task.                                                                *)

(* Every step of the extension is one transaction of the task, or none; the *)
(* statuses it reports are progress.                                        *)
LEMMA TaskStep ==
    ASSUME ExtensionTypeOK, HandlersFit, ExtensionNext
    PROVE  \/ [Next]_vars
           \/ \E status \in ProgressStatuses : ReportStatus(Extension, status)
  <1> USE ExtensionAssumption
  <1>1. CASE BuyerActs
    BY <1>1 DEF BuyerActs, Next, BuyerNext
  <1>2. CASE WindowApproved \/ WindowCancelled \/ ChangeProduct
    BY <1>2 DEF WindowApproved, WindowCancelled, ChangeProduct, DropsGrant, Next, BuyerNext
  <1>3. CASE PageMoves \/ WorkerStops
    BY <1>3 DEF PageMoves, WorkerStops
  <1>4. CASE Connect \/ Disconnect \/ (\E p \in Products : ProposeProduct(p))
             \/ DismissProposal \/ PollOperator
    BY <1>4 DEF Connect, Disconnect, ProposeProduct, DismissProposal, PollOperator,
        Next, InstallationNext
  <1>5. ASSUME NEW k \in 1..MaxCommands, OperatorActs(k) \/ OperatorReports(k)
        PROVE  [Next]_vars
    <2>1. CASE vars' = vars
      BY <2>1
    <2>2. CASE OperatorReports(k) /\ CompleteOperatorCommand(Extension, k, operator[k])
      BY <2>2 DEF OperatorReports, Next, InstallationNext
    <2>3. QED
      BY <1>5, <2>1, <2>2 DEF OperatorActs, OperatorReports
  <1>6. ASSUME NEW h \in Handlers, HandlerNext(h)
        PROVE  \/ [Next]_vars
               \/ \E status \in ProgressStatuses : ReportStatus(Extension, status)
    <2>1. CASE OpenTask(h) \/ Search(h) \/ SelectionConfirmed(h) \/ BuyNow(h) \/ Configure(h)
               \/ Resume(h) \/ (\E pressed \in BOOLEAN : OpenApproval(h, pressed))
               \/ WindowClosed(h) \/ Inspect(h) \/ Click(h) \/ AnswerLost(h) \/ StoreGrant(h)
               \/ Finalize(h) \/ ExecutionOutcome(h) \/ Refused(h) \/ CallFails(h)
      BY <2>1 DEF OpenTask, Search, SelectionConfirmed, BuyNow, Configure, Resume,
          OpenApproval, WindowClosed, Inspect, Click, AnswerLost, StoreGrant, Finalize,
          ExecutionOutcome, Refused, CallFails, OnlyHandlers
    <2>2. CASE ConfirmProposal(h) \/ (\E payment \in Payments : ChoosePayment(h, payment))
               \/ SaveFound(h) \/ Continue(h)
      BY <2>2 DEF ConfirmProposal, ChoosePayment, SaveFound, Continue, Next, InstallationNext
    <2>3. CASE Report(h)
      BY <2>3 DEF Report, HandlersFit, RowFits
    <2>4. CASE Observe(h) \/ Claim(h)
      <3>1. handler[h].seen \in Snapshots
        BY <2>4 DEF Observe, Claim, At, HandlersFit, RowFits
      <3>2. QED
        BY <2>4, <3>1 DEF Observe, Claim, Next, InstallationNext
    <2>5. CASE NotSubmitted(h)
      BY <2>5, WhatIsSaid DEF NotSubmitted, Next, InstallationNext
    <2>6. CASE ReportOutcome(h)
      <3>1. handler[h].say \in Outcomes
        BY <2>6 DEF ReportOutcome, At, HandlersFit, RowFits
      <3>2. QED
        BY <2>6, <3>1 DEF ReportOutcome, Next, InstallationNext
    <2>7. QED
      BY <1>6, <2>1, <2>2, <2>3, <2>4, <2>5, <2>6 DEF HandlerNext
  <1>7. QED
    BY <1>1, <1>2, <1>3, <1>4, <1>5, <1>6 DEF ExtensionNext

(* A progress report is kept track of like any other step of the task.      *)
LEMMA ReportKeeps ==
    ASSUME TypeOK, SealInvariant, OperatorInOrder, NEW i \in Installations,
           NEW status \in ProgressStatuses, ReportStatus(i, status)
    PROVE  TypeOK' /\ SealInvariant' /\ OperatorInOrder'
  <1>1. status \in TaskStatuses
    BY DEF TaskStatuses
  <1>2. TypeOK'
    BY <1>1, RowUpdates DEF TypeOK, ReportStatus, serverVars
  <1>3. SealInvariant'
    BY OnlyStatusChanges DEF ReportStatus, FinalStatuses, ProgressStatuses
  <1>4. OperatorInOrder'
    BY DEF OperatorInOrder, ReportStatus, serverVars
  <1>5. QED
    BY <1>2, <1>3, <1>4

(* The queue of commands stays within its bound.                            *)
CommandsBounded == Len(commands) <= MaxCommands

(* queueOperatorAction tests the bound; nothing else adds a command.        *)
LEMMA CommandsStay ==
    ASSUME TypeOK, CommandsBounded, [Next]_vars
    PROVE  CommandsBounded'
  <1>1. Len(commands) \in Nat /\ commands \in Seq(Command)
    BY LenProperties DEF TypeOK
  <1>2. CASE commands' = commands
    BY <1>2 DEF CommandsBounded
  <1>3. CASE QueueOperatorAction
    <2> DEFINE new == [status |-> "queued", installation |-> NoInstallation]
    <2>1. new \in Command
      BY DEF Command
    <2>2. Len(commands') = Len(commands) + 1
      BY <1>1, <1>3, <2>1, AppendProperties DEF QueueOperatorAction
    <2>3. QED
      BY <1>1, <1>3, <2>2, DurationsAssumption DEF QueueOperatorAction, CommandsBounded
  <1>4. ASSUME NEW k, NEW row, commands' = [commands EXCEPT ![k] = row]
        PROVE  CommandsBounded'
    BY <1>1, <1>4 DEF CommandsBounded
  <1>5. CASE \/ \E i \in Installations : ClaimOperatorCommand(i)
             \/ \E i \in Installations, k \in 1 .. MaxCommands, result \in CommandResults :
                  CompleteOperatorCommand(i, k, result)
    BY <1>4, <1>5 DEF ClaimOperatorCommand, CompleteOperatorCommand
  <1>6. QED
    BY <1>2, <1>3, <1>5, CommandStep

(* What holds of a task on the server holds of one the extension drives.    *)
LEMMA TaskKept ==
    ASSUME ExtensionTypeOK, SealInvariant, OperatorInOrder, CommandsBounded, HandlersFit,
           ExtensionNext
    PROVE  TypeOK' /\ SealInvariant' /\ OperatorInOrder' /\ CommandsBounded'
  <1>1. TypeOK
    BY DEF ExtensionTypeOK
  <1>2. CASE [Next]_vars
    BY <1>1, <1>2, TypeOKStep, SealStep, OrderStep, CommandsStay
  <1>3. ASSUME NEW status \in ProgressStatuses, ReportStatus(Extension, status)
        PROVE  TypeOK' /\ SealInvariant' /\ OperatorInOrder' /\ CommandsBounded'
    <2>1. TypeOK' /\ SealInvariant' /\ OperatorInOrder'
      BY <1>1, <1>3, ReportKeeps, ExtensionAssumption
    <2>2. CommandsBounded'
      BY <1>3 DEF CommandsBounded, ReportStatus, serverVars
    <2>3. QED
      BY <2>1, <2>2
  <1>4. QED
    BY <1>2, <1>3, TaskStep

(* The other variables of the extension stay well typed.                    *)
LEMMA ClientTyped ==
    ASSUME ExtensionTypeOK, CommandsBounded, HandlersFit, ExtensionNext
    PROVE  /\ flow' \in Phases /\ grant' \in BOOLEAN /\ window' \in Handlers \cup {NoHandler}
           /\ tab' \in Views /\ orders' \in Nat /\ faults' \in 0 .. MaxFaults
           /\ operator' \in [1..MaxCommands -> {"none", "claimed"} \cup CommandResults]
  <1> USE DEF ExtensionTypeOK, ExtensionNext, HandlerNext, OpenTask, ConfirmProposal,
       ChoosePayment, Search, SaveFound, SelectionConfirmed, BuyNow, Resume, Report,
       PhaseOf,
       Observe, OpenApproval, Continue, WindowClosed, Inspect, Claim, Click, AnswerLost,
       StoreGrant, NotSubmitted, Finalize, ExecutionOutcome, ReportOutcome, Refused, CallFails,
       OnlyHandlers, Connect, Disconnect, ProposeProduct, DismissProposal, ChangeProduct,
       WindowApproved, WindowCancelled, OperatorActs, OperatorReports, PageMoves,
       WorkerStops, BuyerActs,
       clientVars
  <1>1. flow' \in Phases
    <2>1. ASSUME NEW h \in Handlers, Configure(h)
          PROVE  flow' = flow \/ flow' \in Phases
      BY <2>1 DEF Configure, Phases
    <2>2. QED
      BY <2>1 DEF Phases, PhaseReset, PollOperator
  <1>2. grant' \in BOOLEAN
    BY DEF Configure, DropsGrant, PollOperator
  <1>3. window' \in Handlers \cup {NoHandler}
    BY DEF Configure, PollOperator
  <1>4. tab' \in Views /\ orders' \in Nat
    BY DEF Configure, ClickFinal, Views, PollOperator
  <1>5. faults' \in 0 .. MaxFaults
    BY ExtensionAssumption DEF Configure, PollOperator
  <1>6. operator' \in [1..MaxCommands -> {"none", "claimed"} \cup CommandResults]
    <2>1. ASSUME NEW k, NEW step \in {"none", "claimed"} \cup CommandResults,
                 operator' = [operator EXCEPT ![k] = step]
          PROVE  operator' \in [1..MaxCommands -> {"none", "claimed"} \cup CommandResults]
      BY <2>1
    <2>2. CASE PollOperator
      BY <2>1, <2>2 DEF PollOperator
    <2>3. CASE \E k \in 1..MaxCommands : OperatorActs(k) \/ OperatorReports(k)
      BY <2>1, <2>3
    <2>4. CASE operator' \in {operator, [k \in 1..MaxCommands |-> "none"]}
      BY <2>4
    <2>5. QED
      BY <2>2, <2>3, <2>4 DEF Configure
  <1>7. QED
    BY <1>1, <1>2, <1>3, <1>4, <1>5, <1>6

-----------------------------------------------------------------------------
(* What the steps do.                                                       *)

(* The steps that touch the attempt or ask for approval are those of        *)
(* handlers that say so; the others leave the task as it is, or in a status *)
(* from which nothing is approved or submitted.                             *)
Inert == {"none", "submitting", "pending_approval"}
TaskCalm ==
    /\ attempt' = attempt
    /\ task' = task \/ task'.status \notin Inert
    /\ task.status # "none" => task'.mode = task.mode

(* A step that is none of four leaves the attempt alone, and moves the task *)
(* neither to the approval nor to the submission.                           *)
LEMMA TaskMoves ==
    ASSUME ExtensionTypeOK, HandlersFit, ExtensionNext
    PROVE  \/ TaskCalm
           \/ \E h \in Handlers :
                Observe(h) \/ Claim(h) \/ NotSubmitted(h) \/ ReportOutcome(h)
  <1> USE DEF ExtensionTypeOK, TypeOK, Task, Inert, TaskCalm
  <1>1. CASE BuyerActs
    BY <1>1 DEF BuyerActs, SetLiveMode, CreateTask, Locked, Restart, ResetProductSelection,
        Deselected, QueueOperatorAction, OpenPage, ShoppingApprovalOptions, AnswerChallenge,
        DeclineChallenge, Approve, ApproveRefused, Tick
  <1>2. CASE WindowApproved \/ WindowCancelled \/ ChangeProduct
    BY <1>2 DEF WindowApproved, WindowCancelled, ChangeProduct, DropsGrant, Restart,
        ResetProductSelection, Deselected, CompleteApprovalContinuation,
        CancelApprovalContinuation
  <1>3. CASE \/ Connect \/ Disconnect \/ PollOperator \/ PageMoves \/ WorkerStops
             \/ \E k \in 1..MaxCommands : OperatorActs(k) \/ OperatorReports(k)
    BY <1>3 DEF Connect, Disconnect, PollOperator, OperatorActs, OperatorReports,
        PageMoves, WorkerStops,
        RegisterInstallation, RevokeInstallation, ClaimOperatorCommand,
        CompleteOperatorCommand, vars
  <1>4. CASE (\E p \in Products : ProposeProduct(p)) \/ DismissProposal
    BY <1>4 DEF ProposeProduct, DismissProposal, Propose, DismissCandidate, Deselected
  <1>5. ASSUME NEW h \in Handlers, HandlerNext(h)
        PROVE  TaskCalm \/ Observe(h) \/ Claim(h) \/ NotSubmitted(h) \/ ReportOutcome(h)
    <2>1. CASE UNCHANGED vars
      BY <2>1 DEF vars
    <2>2. CASE ConfirmProposal(h) \/ (\E payment \in Payments : ChoosePayment(h, payment))
               \/ SaveFound(h) \/ Continue(h)
      BY <2>2 DEF ConfirmProposal, ChoosePayment, SaveFound, Continue, ConfirmCandidate,
          SetPaymentPreference, SaveCandidates, CreateApprovalContinuation
    <2>3. CASE Report(h)
      <3>1. PICK status \in ProgressStatuses : ReportStatus(Extension, status)
        BY <2>3 DEF Report, HandlersFit, RowFits
      <3>2. QED
        BY <3>1 DEF ReportStatus, ProgressStatuses
    <2>4. QED
      BY <1>5, <2>1, <2>2, <2>3
      DEF HandlerNext, OpenTask, Search, SelectionConfirmed, BuyNow, Configure, Resume,
          OpenApproval, WindowClosed, Inspect, Click, AnswerLost, StoreGrant, Finalize,
          ExecutionOutcome, Refused, CallFails, OnlyHandlers
  <1>6. QED
    BY <1>1, <1>2, <1>3, <1>4, <1>5 DEF ExtensionNext

(* An installation is never again as it was before it was connected.        *)
LEMMA InstallMoves ==
    ASSUME ExtensionTypeOK, HandlersFit, ExtensionNext
    PROVE  /\ installs'[Extension] = "new" => installs[Extension] = "new"
           /\ installs[Extension] = "revoked" => installs'[Extension] = "revoked"
  <1>1. installs \in [Installations -> {"new", "active", "revoked"}]
    BY DEF ExtensionTypeOK, TypeOK
  <1>2. ASSUME NEW i \in Installations, RegisterInstallation(i) \/ RevokeInstallation(i)
        PROVE  /\ installs'[Extension] = "new" => installs[Extension] = "new"
               /\ installs[Extension] = "revoked" => installs'[Extension] = "revoked"
    BY <1>1, <1>2, ExtensionAssumption DEF RegisterInstallation, RevokeInstallation
  <1>3. CASE installs' = installs
    BY <1>3
  <1>4. ASSUME [Next]_vars
        PROVE  installs' = installs \/ \E i \in Installations :
                    RegisterInstallation(i) \/ RevokeInstallation(i)
    BY <1>4 DEF Next, BuyerNext, InstallationNext, Tick, SetLiveMode, CreateTask, Restart,
        ResetProductSelection, QueueOperatorAction, OpenPage, ShoppingApprovalOptions,
        AnswerChallenge, DeclineChallenge, Approve, ApproveRefused,
        CompleteApprovalContinuation, CancelApprovalContinuation, SaveCandidates, Propose,
        ConfirmCandidate, DismissCandidate, ReportStatus, SetPaymentPreference,
        ClaimOperatorCommand, CompleteOperatorCommand, ObserveCheckout,
        CreateApprovalContinuation, ClaimExecution, DenyExecution, ReportExecution,
        serverVars, vars
  <1>5. ASSUME NEW status \in ProgressStatuses, ReportStatus(Extension, status)
        PROVE  installs' = installs
    BY <1>5 DEF ReportStatus, serverVars
  <1>6. QED
    BY <1>2, <1>3, <1>4, <1>5, TaskStep

(* Only the handlers that execute hold a claim or a grant.                  *)
HandlersCalm ==
    /\ grant' => grant
    /\ \A h \in Handlers :
        handler'[h] = handler[h] \/ handler'[h].at \notin Submitters \cup {"finalize", "outcome"}
ExecutionNext(h) ==
    \/ Claim(h) \/ Click(h) \/ AnswerLost(h) \/ StoreGrant(h) \/ NotSubmitted(h)
    \/ Finalize(h) \/ ExecutionOutcome(h) \/ ReportOutcome(h)

(* Every step is by a handler that executes, or leaves those and the grant. *)
LEMMA HandlerMoves ==
    ASSUME ExtensionTypeOK, ExtensionNext
    PROVE  HandlersCalm \/ \E h \in Handlers : ExecutionNext(h)
  <1>1. handler \in [Handlers -> Row]
    BY DEF ExtensionTypeOK, Row
  <1> DEFINE Calm == \A g \in Handlers :
                handler'[g] = handler[g]
                \/ handler'[g].at \notin Submitters \cup {"finalize", "outcome"}
  <1>2. ASSUME NEW h \in Handlers
        PROVE  /\ Done(h) => Calm
               /\ \A place \in Places \ (Submitters \cup {"finalize", "outcome"}) :
                    Go(h, place) => Calm
               /\ \A place \in Saying : \A status : Say(h, place, status) => Calm
               /\ \A place \in {"observe", "claim"} : \A s : Saw(h, place, s) => Calm
    <2>1. ASSUME NEW row, row.at \notin Submitters \cup {"finalize", "outcome"},
                 handler' = [handler EXCEPT ![h] = row]
          PROVE  Calm
      BY <1>1, <2>1
    <2> HIDE DEF Calm
    <2>2. /\ Idle.at = "idle"
          /\ \A place : [Idle EXCEPT !.at = place].at = place
          /\ \A place, status : [Idle EXCEPT !.at = place, !.say = status].at = place
          /\ \A place, s : [Idle EXCEPT !.at = place, !.seen = s].at = place
      BY DEF Idle
    <2>3. Done(h) => Calm
      BY <2>1, <2>2 DEF Done, Submitters
    <2>4. \A place \in Places \ (Submitters \cup {"finalize", "outcome"}) :
                Go(h, place) => Calm
      <3> SUFFICES ASSUME NEW place \in Places,
                          place \notin Submitters \cup {"finalize", "outcome"}, Go(h, place)
                   PROVE  Calm
        OBVIOUS
      <3> DEFINE row == [Idle EXCEPT !.at = place]
      <3>1. row.at \notin Submitters \cup {"finalize", "outcome"}
        BY <2>2
      <3>2. handler' = [handler EXCEPT ![h] = row]
        BY DEF Go
      <3> HIDE DEF row
      <3>3. QED
        BY <2>1, <3>1, <3>2
    <2>5. \A place \in Saying : \A status : Say(h, place, status) => Calm
      BY <2>1, <2>2 DEF Say, Saying, Submitters
    <2>6. \A place \in {"observe", "claim"} : \A s : Saw(h, place, s) => Calm
      BY <2>1, <2>2 DEF Saw, Submitters
    <2>7. QED
      BY <2>3, <2>4, <2>5, <2>6
  <1> HIDE DEF Calm
  <1>3. ASSUME handler' = handler
        PROVE  Calm
    BY <1>3 DEF Calm
  <1>4. ASSUME NEW h \in Handlers, HandlerNext(h), ~ExecutionNext(h)
        PROVE  Calm /\ grant' = grant
    <2>1. CASE \/ OpenTask(h) \/ ConfirmProposal(h) \/ Search(h) \/ SaveFound(h)
               \/ SelectionConfirmed(h) \/ BuyNow(h) \/ Resume(h) \/ Report(h)
               \/ (\E payment \in Payments : ChoosePayment(h, payment))
      BY <1>2, <2>1 DEF OpenTask, ConfirmProposal, ChoosePayment, Search, SaveFound,
          SelectionConfirmed, BuyNow, Resume, Report, PhaseOf, RetryOrPause,
          OnlyHandlers, Saying,
          Places, Guarded, Submitters
    <2>2. CASE Configure(h)
      BY <1>2, <2>2 DEF Configure, RetryOrPause, Saying
    <2>3. CASE \/ Observe(h) \/ (\E pressed \in BOOLEAN : OpenApproval(h, pressed))
               \/ Continue(h) \/ WindowClosed(h) \/ Inspect(h) \/ Refused(h) \/ CallFails(h)
      BY <1>2, <2>3 DEF Observe, OpenApproval, Continue, WindowClosed, Inspect, Refused,
          CallFails, OnlyHandlers, Places, Guarded, Submitters
    <2>4. QED
      BY <1>4, <2>1, <2>2, <2>3 DEF HandlerNext, ExecutionNext
  <1>5. CASE WorkerStops
    BY <1>5 DEF WorkerStops, Calm, Idle, Submitters, HandlersCalm
  <1>6. CASE WindowApproved \/ WindowCancelled
    <2>1. Calm
      BY <1>2, <1>3, <1>6 DEF WindowApproved, WindowCancelled, Places, Guarded, Submitters
    <2>2. grant' => grant
      BY <1>6 DEF WindowApproved, WindowCancelled, DropsGrant
    <2>3. QED
      BY <2>1, <2>2 DEF Calm, HandlersCalm
  <1>7. CASE Connect \/ Disconnect \/ (\E p \in Products : ProposeProduct(p))
             \/ DismissProposal \/ ChangeProduct \/ PollOperator \/ PageMoves \/ BuyerActs
             \/ (\E k \in 1..MaxCommands : OperatorActs(k) \/ OperatorReports(k))
    BY <1>3, <1>7 DEF Connect, Disconnect, ProposeProduct, DismissProposal, ChangeProduct,
        PollOperator, OperatorActs, OperatorReports, PageMoves, BuyerActs, clientVars,
        DropsGrant, Calm,
        HandlersCalm
  <1>8. QED
    BY <1>4, <1>5, <1>6, <1>7 DEF ExtensionNext, Calm, HandlersCalm
-----------------------------------------------------------------------------
(* Claims and grants.                                                       *)

(* A step that neither executes nor touches the attempt keeps the claim     *)
(* where it is.                                                             *)
LEMMA GrantFrame ==
    ASSUME GrantInvariant, HandlersCalm, attempt' = attempt,
           task'.status = "none" => task.status = "none",
           task.status # "none" => task'.mode = task.mode,
           installs'[Extension] = "new" =>
                /\ installs[Extension] = "new"
                /\ task'.status = "pending_approval" => task.status = "pending_approval"
    PROVE  GrantInvariant'
  <1>1. \A h \in Handlers : (Submitting(h)' => Submitting(h)) /\ (Finishing(h)' => Finishing(h))
    BY DEF HandlersCalm, Submitting, Finishing
  <1>2. (grant' => grant) /\ (Executed' <=> Executed)
    BY DEF HandlersCalm, Executed
  <1>3. Executed \/ attempt.status = "claimed" => task.status # "none"
    BY DEF GrantInvariant, Executed
  <1>4. ASSUME NEW h \in Handlers, Submitting(h)'
        PROVE  /\ attempt'.status = "claimed" /\ task'.mode = "live" /\ ~grant'
               /\ \A g \in Handlers : (Submitting(g)' => g = h) /\ ~Finishing(g)'
    BY <1>1, <1>2, <1>3, <1>4 DEF GrantInvariant
  <1>5. ASSUME NEW h \in Handlers, Finishing(h)'
        PROVE  Executed' /\ task'.mode = "live"
    BY <1>1, <1>2, <1>3, <1>5 DEF GrantInvariant
  <1>6. grant' => Executed' /\ task'.mode = "live"
    BY <1>2, <1>3 DEF GrantInvariant
  <1>7. task'.status = "none" => attempt'.status = "none"
    BY DEF GrantInvariant
  <1>8. installs'[Extension] = "new" =>
            attempt'.status = "none" /\ task'.status # "pending_approval"
    BY DEF GrantInvariant
  <1>9. QED
    BY <1>4, <1>5, <1>6, <1>7, <1>8 DEF GrantInvariant

(* The effect of a move on where the handlers are.                          *)
LEMMA Whereabouts ==
    ASSUME ExtensionTypeOK, NEW h \in Handlers
    PROVE  LET Alone == \A g \in Handlers \ {h} : handler'[g] = handler[g]
           IN  /\ Done(h) => Alone /\ handler'[h] = Idle
               /\ \A place : Go(h, place) =>
                    Alone /\ handler'[h].at = place
               /\ \A place, status : Say(h, place, status) =>
                    Alone /\ handler'[h].at = place /\ handler'[h].say = status
               /\ \A place, s : Saw(h, place, s) =>
                    Alone /\ handler'[h].at = place /\ handler'[h].seen = s
  BY DEF ExtensionTypeOK, Done, Go, Say, Saw, Idle

(* Whatever is claimed, clicked, stored, refused and recorded: one handler  *)
(* at most holds the claim, or its grant is in storage.                     *)
LEMMA GrantStep ==
    ASSUME ExtensionTypeOK, HandlersFit, GrantInvariant, ExtensionNext
    PROVE  GrantInvariant'
  <1> DEFINE Others(h) == \A g \in Handlers \ {h} : handler'[g] = handler[g]
  <1>1. CASE HandlersCalm /\ TaskCalm
    BY <1>1, GrantFrame, InstallMoves DEF TaskCalm, Inert
  <1>2. ASSUME NEW h \in Handlers, Observe(h)
        PROVE  GrantInvariant'
    <2>1. Others(h) /\ handler'[h].at \in {"idle", "continue"} /\ grant' = grant
      BY <1>2, Whereabouts DEF Observe, Idle
    <2>2. HandlersCalm
      BY <2>1 DEF HandlersCalm, Submitters
    <2>3. /\ attempt' = attempt /\ task'.mode = task.mode /\ task'.status # "none"
          /\ installs' = installs /\ installs[Extension] = "active"
      BY <1>2 DEF Observe, ObserveCheckout, LockedBy, ExtensionTypeOK, TypeOK, Task, serverVars
    <2>4. QED
      BY <2>2, <2>3, GrantFrame
  <1>3. ASSUME NEW h \in Handlers, Claim(h)
        PROVE  GrantInvariant'
    <2>1. /\ attempt.status = "none" /\ ~grant /\ task.status = "approved"
          /\ \A g \in Handlers : ~Submitting(g) /\ ~Finishing(g)
          /\ installs[Extension] = "active" /\ installs' = installs
      BY <1>3 DEF Claim, ClaimExecution, DenyExecution, MayClaim, LockedBy, Unexecuted,
                  GrantInvariant, Executed, serverVars
    <2>2. Others(h) /\ handler'[h].at \in {"idle", "click"} /\ ~grant'
          /\ (handler'[h].at = "click" => task'.status = "submitting")
      BY <1>3, <2>1, Whereabouts DEF Claim, Submits, Idle
    <2>3. /\ task'.status \notin {"none", "pending_approval"}
          /\ task'.status = "submitting" => attempt'.status = "claimed" /\ task'.mode = "live"
      BY <1>3, <2>1 DEF Claim, ClaimExecution, DenyExecution, Claimed, ExtensionTypeOK, TypeOK,
                        Task
    <2>4. \A g \in Handlers : ~Finishing(g)' /\ (Submitting(g)' => g = h)
      BY <2>1, <2>2 DEF Submitting, Finishing
    <2>5. Submitting(h)' => attempt'.status = "claimed" /\ task'.mode = "live"
      BY <2>2, <2>3 DEF Submitting, Submitters
    <2>6. QED
      BY <2>1, <2>2, <2>3, <2>4, <2>5 DEF GrantInvariant
  <1>4. ASSUME NEW h \in Handlers, NotSubmitted(h)
        PROVE  GrantInvariant'
    <2>1. Submitting(h) /\ ~grant
      BY <1>4 DEF NotSubmitted, At, Submitting, Submitters, GrantInvariant
    <2>2. Others(h) /\ handler'[h].at = "idle" /\ ~grant'
      BY <1>4, <2>1, Whereabouts DEF NotSubmitted, Idle
    <2>3. \A g \in Handlers : ~Submitting(g)' /\ ~Finishing(g)'
      BY <2>1, <2>2 DEF GrantInvariant, Submitting, Finishing, Submitters
    <2>4. /\ task'.status = "failed" /\ installs[Extension] = "active" /\ installs' = installs
      BY <1>4 DEF NotSubmitted, ReportExecution, LockedBy, ExtensionTypeOK, TypeOK, Task,
                  serverVars
    <2>5. QED
      BY <2>2, <2>3, <2>4 DEF GrantInvariant
  <1>5. ASSUME NEW h \in Handlers, ReportOutcome(h)
        PROVE  GrantInvariant'
    <2>1. Finishing(h) /\ task.mode = "live" /\ \A g \in Handlers : ~Submitting(g)
      BY <1>5 DEF ReportOutcome, At, Finishing, GrantInvariant
    <2>2. Others(h) /\ handler'[h].at = "idle" /\ ~grant'
      BY <1>5, Whereabouts DEF ReportOutcome, Idle
    <2>3. \A g \in Handlers : ~Submitting(g)'
      BY <2>1, <2>2 DEF Submitting, Submitters
    <2>4. handler[h].say \in Outcomes
      BY <1>5 DEF ReportOutcome, At, HandlersFit, RowFits
    <2>5. /\ task'.status = handler[h].say /\ task'.mode = task.mode
          /\ attempt'.status = handler[h].say
          /\ installs[Extension] = "active" /\ installs' = installs
      BY <1>5 DEF ReportOutcome, ReportExecution, LockedBy, ExtensionTypeOK, TypeOK, Task,
                  Attempt, serverVars
    <2>6. Executed' /\ task'.status \notin {"none", "pending_approval"}
      BY <2>4, <2>5 DEF Executed, Outcomes
    <2>7. QED
      BY <2>1, <2>2, <2>3, <2>5, <2>6 DEF GrantInvariant
  <1>6. ASSUME NEW h \in Handlers,
               \/ Click(h) \/ AnswerLost(h) \/ StoreGrant(h) \/ Finalize(h)
               \/ ExecutionOutcome(h)
        PROVE  GrantInvariant'
    <2>1. UNCHANGED <<task, attempt, installs>>
      BY <1>6 DEF Click, AnswerLost, StoreGrant, Finalize, ExecutionOutcome, OnlyHandlers,
                  vars, serverVars
    <2>2. Executed' <=> Executed
      BY <2>1 DEF Executed
    <2>3. CASE Click(h) \/ AnswerLost(h)
      <3>1. Submitting(h) /\ ~grant
        BY <2>3 DEF Click, AnswerLost, At, Submitting, Submitters, GrantInvariant
      <3>2. Others(h) /\ handler'[h].at \in Submitters /\ ~grant'
        BY <2>3, <3>1, Whereabouts DEF Click, AnswerLost, Submitters
      <3>3. \A g \in Handlers : (Submitting(g)' => g = h) /\ ~Finishing(g)'
        BY <3>1, <3>2 DEF GrantInvariant, Submitting, Finishing, Submitters
      <3>4. attempt.status = "claimed" /\ task.mode = "live"
        BY <3>1 DEF GrantInvariant
      <3>5. QED
        BY <2>1, <3>2, <3>3, <3>4 DEF GrantInvariant
    <2>4. CASE StoreGrant(h)
      <3>1. Submitting(h)
        BY <2>4 DEF StoreGrant, At, Submitting, Submitters
      <3>2. Others(h) /\ handler'[h].at = "idle"
        BY <2>4, Whereabouts DEF StoreGrant, Idle
      <3>3. \A g \in Handlers : ~Submitting(g)' /\ ~Finishing(g)'
        BY <3>1, <3>2 DEF GrantInvariant, Submitting, Finishing, Submitters
      <3>4. Executed /\ task.mode = "live"
        BY <3>1 DEF GrantInvariant, Executed
      <3>5. QED
        BY <2>1, <2>2, <3>3, <3>4 DEF GrantInvariant
    <2>5. CASE Finalize(h) \/ ExecutionOutcome(h)
      <3>1. /\ \A g \in Handlers : ~Submitting(g)
            /\ Executed /\ task.mode = "live" /\ grant' = grant
        BY <2>5 DEF Finalize, ExecutionOutcome, At, Finishing, GrantInvariant, OnlyHandlers
      <3>2. Others(h) /\ handler'[h].at \in {"finalize", "outcome"}
        BY <2>5, Whereabouts DEF Finalize, ExecutionOutcome
      <3>3. \A g \in Handlers : ~Submitting(g)'
        BY <3>1, <3>2 DEF Submitting, Submitters
      <3>4. QED
        BY <2>1, <2>2, <3>1, <3>3 DEF GrantInvariant
    <2>6. QED
      BY <1>6, <2>3, <2>4, <2>5
  <1>7. QED
    BY <1>1, <1>2, <1>3, <1>4, <1>5, <1>6, TaskMoves, HandlerMoves DEF ExecutionNext
-----------------------------------------------------------------------------
(* Claims stay held, windows stay open.                                     *)

(* A step moves one handler, on its own account or by the answer of its     *)
(* window, unless the worker stops.                                         *)
LEMMA OneMoves ==
    ASSUME ExtensionTypeOK, ExtensionNext, NEW h \in Handlers
    PROVE  \/ handler'[h] = handler[h] \/ HandlerNext(h)
           \/ WindowApproved \/ WindowCancelled \/ WorkerStops
  <1>1. ASSUME NEW g \in Handlers \ {h}, HandlerNext(g)
        PROVE  handler'[h] = handler[h]
    <2> DEFINE Kept == handler'[h] = handler[h]
    <2>1. /\ Done(g) => Kept
          /\ \A place : Go(g, place) => Kept
          /\ \A place, status : Say(g, place, status) => Kept
          /\ \A place, s : Saw(g, place, s) => Kept
      BY Whereabouts
    <2> HIDE DEF Kept
    <2>2. ASSUME Configure(g)
          PROVE  Kept
      BY <2>1, <2>2 DEF Configure, RetryOrPause
    <2>3. ASSUME ~Configure(g)
          PROVE  Kept
      BY <1>1, <2>1, <2>3 DEF HandlerNext, OpenTask, ConfirmProposal, ChoosePayment, Search,
          SaveFound, SelectionConfirmed, BuyNow, RetryOrPause, Resume, Report, PhaseOf,
          Observe,
          OpenApproval, Continue, WindowClosed, Inspect, Claim, Click, AnswerLost, StoreGrant,
          NotSubmitted, Finalize, ExecutionOutcome, ReportOutcome, Refused, CallFails
    <2>4. QED
      BY <2>2, <2>3 DEF Kept
  <1>2. CASE Connect \/ Disconnect \/ (\E p \in Products : ProposeProduct(p))
             \/ DismissProposal \/ ChangeProduct \/ PollOperator \/ PageMoves \/ BuyerActs
             \/ (\E k \in 1..MaxCommands : OperatorActs(k) \/ OperatorReports(k))
    BY <1>2 DEF Connect, Disconnect, ProposeProduct, DismissProposal, ChangeProduct,
        PollOperator, OperatorActs, OperatorReports, PageMoves, BuyerActs, clientVars
  <1>3. QED
    BY <1>1, <1>2 DEF ExtensionNext

(* Faults are counted, and the clock does not go back.                      *)
LEMMA FaultsCount ==
    ASSUME ExtensionTypeOK, HandlersFit, ExtensionNext
    PROVE  /\ faults \in Nat /\ faults' \in {faults, faults + 1}
           /\ WorkerStops \/ (\E h \in Handlers : CallFails(h) \/ AnswerLost(h)) =>
                faults' = faults + 1
           /\ now \in Nat /\ now' \in {now, now + 1}
  <1>1. faults \in Nat /\ now \in Nat
    BY ExtensionAssumption, DurationsAssumption DEF ExtensionTypeOK, TypeOK
  <1>2. WorkerStops \/ (\E h \in Handlers : CallFails(h) \/ AnswerLost(h)) =>
            faults' = faults + 1
    BY DEF WorkerStops, CallFails, AnswerLost
  <1>3. faults' \in {faults, faults + 1}
    BY DEF ExtensionNext, HandlerNext, OpenTask, ConfirmProposal, ChoosePayment, Search,
       SaveFound, SelectionConfirmed, BuyNow, Configure, Resume, Report, PhaseOf,
       Observe, OpenApproval,
       Continue, WindowClosed, Inspect, Claim, Click, AnswerLost, StoreGrant, NotSubmitted,
       Finalize, ExecutionOutcome, ReportOutcome, Refused, CallFails, OnlyHandlers, Connect,
       Disconnect, ProposeProduct, DismissProposal, ChangeProduct, WindowApproved,
       WindowCancelled, PollOperator, OperatorActs, OperatorReports, PageMoves,
       WorkerStops, BuyerActs, clientVars
  <1>4. now' \in {now, now + 1}
    <2>1. ASSUME [Next]_vars
          PROVE  now' \in {now, now + 1}
      BY <2>1 DEF Next, BuyerNext, InstallationNext, Tick, SetLiveMode, CreateTask, Restart,
        ResetProductSelection, QueueOperatorAction, OpenPage, ShoppingApprovalOptions,
        AnswerChallenge, DeclineChallenge, Approve, ApproveRefused,
        CompleteApprovalContinuation, CancelApprovalContinuation, RegisterInstallation,
        RevokeInstallation, SaveCandidates, Propose, ConfirmCandidate, DismissCandidate,
        ReportStatus, SetPaymentPreference, ClaimOperatorCommand, CompleteOperatorCommand,
        ObserveCheckout, CreateApprovalContinuation, ClaimExecution, DenyExecution,
        ReportExecution, vars
    <2>2. ASSUME NEW status \in ProgressStatuses, ReportStatus(Extension, status)
          PROVE  now' \in {now, now + 1}
      BY <2>2 DEF ReportStatus
    <2>3. QED
      BY <2>1, <2>2, TaskStep
  <1>5. QED
    BY <1>1, <1>2, <1>3, <1>4

(* A handler that submits goes on, stores its grant, records that it could  *)
(* not submit, is refused, or fails.                                        *)
LEMMA SubmitterMoves ==
    ASSUME ExtensionTypeOK, HandlersFit, ExtensionNext, NEW h \in Handlers, Submitting(h)
    PROVE  \/ Submitting(h)' \/ StoreGrant(h) \/ NotSubmitted(h) \/ Refused(h)
           \/ faults' = faults + 1
  <1>1. CASE handler'[h] = handler[h]
    BY <1>1 DEF Submitting
  <1>2. CASE HandlerNext(h)
    <2>1. CASE Click(h)
      BY <2>1, Whereabouts DEF Click, Submitting, Submitters
    <2>2. CASE CallFails(h) \/ AnswerLost(h)
      BY <2>2, FaultsCount
    <2>3. QED
      BY <1>2, <2>1, <2>2
      DEF Submitting, Submitters, HandlerNext, OpenTask, ConfirmProposal, ChoosePayment, Search,
          SaveFound, SelectionConfirmed, BuyNow, Configure, Resume, Report, PhaseOf,
          Observe,
          OpenApproval, Continue, WindowClosed, Inspect, Claim, Finalize, ExecutionOutcome,
          ReportOutcome, Advances, At
  <1>3. CASE WindowApproved \/ WindowCancelled
    <2>1. \A g \in Handlers : Answers(g) => g # h
      BY DEF Answers, At, Submitting, Submitters
    <2>2. handler'[h] = handler[h]
      BY <1>3, <2>1, Whereabouts DEF WindowApproved, WindowCancelled
    <2>3. QED
      BY <2>2 DEF Submitting
  <1>4. CASE WorkerStops
    BY <1>4, FaultsCount
  <1>5. QED
    BY <1>1, <1>2, <1>3, <1>4, OneMoves

(* A stored grant goes with the installation, the product, or its report.   *)
LEMMA GrantMoves ==
    ASSUME ExtensionTypeOK, ExtensionNext, grant, task' = task, task.status = "submitting"
    PROVE  grant' \/ installs'[Extension] = "revoked" \/ \E h \in Handlers : ReportOutcome(h)
  <1>1. CASE Disconnect
    BY <1>1, ExtensionAssumption DEF Disconnect, RevokeInstallation, ExtensionTypeOK, TypeOK
  <1>2. ~ChangeProduct /\ ~CancelApprovalContinuation
    BY DEF ChangeProduct, DropsGrant, Restart, CancelApprovalContinuation,
           ResetProductSelection, FinalStatuses
  <1>3. QED
    BY <1>1, <1>2 DEF ExtensionNext, HandlerNext, OpenTask, ConfirmProposal, ChoosePayment,
       Search, SaveFound, SelectionConfirmed, BuyNow, Configure, Resume, Report,
       PhaseOf, Observe,
       OpenApproval, Continue, WindowClosed, Inspect, Claim, Click, AnswerLost, StoreGrant,
       NotSubmitted, Finalize, ExecutionOutcome, Refused, CallFails, OnlyHandlers, Connect,
       ProposeProduct, DismissProposal, WindowApproved, WindowCancelled, DropsGrant,
       PollOperator, OperatorActs, OperatorReports, PageMoves, WorkerStops, BuyerActs,
       clientVars
(* While a claim can be reported its grant is kept, in a handler or in      *)
(* storage.                                                                 *)
LEMMA HeldStep ==
    ASSUME ExtensionTypeOK, HandlersFit, SealInvariant, GrantInvariant, GrantIsHeld,
           ExtensionNext
    PROVE  GrantIsHeld'
  <1> SUFFICES ASSUME task'.status = "submitting", GrantValid(Extension)',
                      installs'[Extension] = "active", faults' = 0
               PROVE  grant' \/ \E h \in Handlers : Submitting(h)'
    BY DEF GrantIsHeld, Submitting, Submitters
  <1>1. ASSUME NEW h \in Handlers, Claim(h)
        PROVE  Submitting(h)'
    BY <1>1, Whereabouts DEF Claim, Submits, Submitting, Submitters
  <1>2. ASSUME NEW h \in Handlers
        PROVE  ~Observe(h) /\ ~NotSubmitted(h) /\ ~ReportOutcome(h)
    <2>1. ~Observe(h)
      BY DEF Observe, ObserveCheckout, ExtensionTypeOK, TypeOK, Task
    <2>2. ~NotSubmitted(h)
      BY DEF NotSubmitted, ReportExecution, ExtensionTypeOK, TypeOK, Task
    <2>3. ~ReportOutcome(h)
      BY DEF ReportOutcome, At, HandlersFit, RowFits, ReportExecution, ExtensionTypeOK, TypeOK,
             Task, Outcomes
    <2>4. QED
      BY <2>1, <2>2, <2>3
  <1>3. ASSUME TaskCalm
        PROVE  grant' \/ \E h \in Handlers : Submitting(h)'
    <2>1. attempt' = attempt /\ task' = task
      BY <1>3 DEF TaskCalm, Inert
    <2>2. GrantValid(Extension)
      BY <2>1, FaultsCount DEF GrantValid, ExtensionTypeOK, TypeOK, Attempt
    <2>3. installs[Extension] = "active" /\ faults = 0
      <3>1. installs[Extension] \in {"new", "active", "revoked"}
        BY ExtensionAssumption DEF ExtensionTypeOK, TypeOK
      <3>2. installs[Extension] # "new"
        BY <2>2 DEF GrantInvariant, GrantValid
      <3>3. QED
        BY <3>1, <3>2, InstallMoves, FaultsCount
    <2>4. CASE grant
      BY <1>2, <2>1, <2>4, GrantMoves
    <2>5. ASSUME NEW h \in Handlers, Submitting(h)
          PROVE  grant' \/ Submitting(h)'
      <3>1. ~Refused(h)
        <4>1. LockedBy(Extension)
          BY <2>1, <2>3 DEF LockedBy, Locked
        <4>2. Reportable
          BY <2>1 DEF Reportable, SealInvariant, SubmissionIsSealed
        <4>3. ~Refusable(h)
          BY <2>2, <2>5, <4>2 DEF Refusable, Submitting, Submitters
        <4>4. QED
          BY <4>1, <4>3 DEF Refused
      <3>2. StoreGrant(h) => grant'
        BY DEF StoreGrant
      <3>3. faults' # faults + 1
        BY <2>3
      <3>4. QED
        BY <1>2, <2>5, <3>1, <3>2, <3>3, SubmitterMoves
    <2>6. QED
      BY <2>1, <2>2, <2>3, <2>4, <2>5 DEF GrantIsHeld, Submitting, Submitters
  <1>4. QED
    BY <1>1, <1>2, <1>3, TaskMoves

(* A handler that opens or watches a window goes on, hears from it, is      *)
(* refused, or fails.                                                       *)
Waiting(h) == handler[h].at \in {"continue", "window"}

(* How a handler with an approval window open can stop waiting for it.      *)
LEMMA WaiterMoves ==
    ASSUME ExtensionTypeOK, HandlersFit, ExtensionNext, NEW h \in Handlers, Waiting(h)
    PROVE  \/ Waiting(h)' \/ WindowClosed(h) \/ WindowApproved \/ WindowCancelled
           \/ Refused(h) \/ faults' = faults + 1
  <1>1. CASE handler'[h] = handler[h]
    BY <1>1 DEF Waiting
  <1>2. CASE HandlerNext(h)
    <2>1. CASE Continue(h)
      BY <2>1, Whereabouts DEF Continue, Waiting
    <2>2. CASE CallFails(h) \/ AnswerLost(h)
      BY <2>2, FaultsCount
    <2>3. QED
      BY <1>2, <2>1, <2>2
      DEF Waiting, HandlerNext, OpenTask, ConfirmProposal, ChoosePayment, Search, SaveFound,
          SelectionConfirmed, BuyNow, Configure, Resume, Report, PhaseOf, Observe,
          OpenApproval,
          Inspect, Claim, Click, StoreGrant, NotSubmitted, Finalize, ExecutionOutcome,
          ReportOutcome, Advances, At
  <1>3. CASE WorkerStops
    BY <1>3, FaultsCount
  <1>4. QED
    BY <1>1, <1>2, <1>3, OneMoves

(* The phase of an open window is written only by a handler that opens one. *)
LEMMA PhaseMoves ==
    ASSUME ExtensionTypeOK, ExtensionNext, flow' = "approval_window_open"
    PROVE  \/ flow = "approval_window_open"
           \/ \E h \in Handlers : Waiting(h)'
  <1>1. ASSUME NEW h \in Handlers, Observe(h)
        PROVE  flow = "approval_window_open" \/ Waiting(h)'
    BY <1>1, Whereabouts DEF Observe, Waiting
  <1>2. ASSUME NEW h \in Handlers, NEW pressed \in BOOLEAN, OpenApproval(h, pressed)
        PROVE  Waiting(h)'
    BY <1>2, Whereabouts DEF OpenApproval, Waiting
  <1>3. ASSUME NEW h \in Handlers, Configure(h)
        PROVE  flow = "approval_window_open"
    BY <1>3 DEF Configure
  <1>4. QED
    BY <1>1, <1>2, <1>3
    DEF ExtensionNext, HandlerNext, OpenTask, ConfirmProposal, ChoosePayment, Search, SaveFound,
        SelectionConfirmed, BuyNow, Resume, Report, PhaseOf, Continue, WindowClosed,
        Inspect, Claim,
        Click, AnswerLost, StoreGrant, NotSubmitted, Finalize, ExecutionOutcome, ReportOutcome,
        Refused, CallFails, OnlyHandlers, Connect, Disconnect, ProposeProduct, DismissProposal,
        ChangeProduct, WindowApproved, WindowCancelled, PollOperator, OperatorActs,
        OperatorReports, PageMoves,
        WorkerStops, BuyerActs, clientVars, PhaseReset

(* While the task waits for approval, a window is open or being opened, or  *)
(* the phase lets the worker open one.                                      *)
LEMMA WindowStep ==
    ASSUME ExtensionTypeOK, HandlersFit, GrantInvariant, WindowBehindPhase, ExtensionNext
    PROVE  WindowBehindPhase'
  <1> SUFFICES ASSUME flow' = "approval_window_open", task'.status = "pending_approval",
                      installs'[Extension] = "active", faults' = 0
               PROVE  \E h \in Handlers : Waiting(h)'
    BY DEF WindowBehindPhase, Waiting
  <1>1. ASSUME NEW h \in Handlers, Observe(h)
        PROVE  Waiting(h)'
    BY <1>1, Whereabouts DEF Observe, Waiting
  <1>2. ASSUME NEW h \in Handlers
        PROVE  ~Claim(h) /\ ~NotSubmitted(h) /\ ~ReportOutcome(h)
    <2>1. ~Claim(h)
      BY DEF Claim, ClaimExecution, DenyExecution, ExtensionTypeOK, TypeOK, Task
    <2>2. ~NotSubmitted(h)
      BY DEF NotSubmitted, ReportExecution, ExtensionTypeOK, TypeOK, Task
    <2>3. ~ReportOutcome(h)
      BY DEF ReportOutcome, At, HandlersFit, RowFits, ReportExecution, ExtensionTypeOK, TypeOK,
             Task, Outcomes
    <2>4. QED
      BY <2>1, <2>2, <2>3
  <1>3. ASSUME TaskCalm, flow = "approval_window_open"
        PROVE  \E h \in Handlers : Waiting(h)'
    <2>1. task' = task
      BY <1>3 DEF TaskCalm, Inert
    <2>2. installs[Extension] = "active" /\ faults = 0
      <3>1. installs[Extension] \in {"new", "active", "revoked"}
        BY ExtensionAssumption DEF ExtensionTypeOK, TypeOK
      <3>2. installs[Extension] # "new"
        BY <2>1 DEF GrantInvariant
      <3>3. QED
        BY <3>1, <3>2, InstallMoves, FaultsCount
    <2>3. PICK h \in Handlers : Waiting(h)
      BY <1>3, <2>1, <2>2 DEF WindowBehindPhase, Waiting
    <2>4. ~WindowClosed(h)
      BY DEF WindowClosed, PhaseReset
    <2>5. ~WindowApproved
      BY <2>1 DEF WindowApproved, CompleteApprovalContinuation
    <2>6. ~WindowCancelled
      BY <2>1 DEF WindowCancelled, DropsGrant, CancelApprovalContinuation,
                  ResetProductSelection, Deselected, ExtensionTypeOK, TypeOK, Task
    <2>7. ~Refused(h)
      BY <2>1, <2>2, <2>3 DEF Refused, Refusable, Waiting, LockedBy, Locked
    <2>8. faults' # faults + 1
      BY <2>2
    <2>9. QED
      BY <2>3, <2>4, <2>5, <2>6, <2>7, <2>8, WaiterMoves
  <1>4. QED
    BY <1>1, <1>2, <1>3, TaskMoves, PhaseMoves
-----------------------------------------------------------------------------
(* Orders.  The operator can click any control that is not on its list of   *)
(* blocked ones: what follows holds of shops whose final controls are.      *)
OperatorStopped == Labels \subseteq BlockedLabels

(* Only the click of a handler that submits orders, or makes the shop refuse. *)
LEMMA OrderMoves ==
    ASSUME OperatorStopped, ExtensionTypeOK, ExtensionNext
    PROVE  \/ orders' = orders /\ (tab' = "refused" => tab = "refused")
           \/ \E h \in Handlers : Click(h) \/ AnswerLost(h)
  <1>1. CASE \E k \in 1..MaxCommands : OperatorActs(k) \/ OperatorReports(k)
    BY <1>1 DEF OperatorActs, OperatorReports, OperatorStopped
  <1>2. CASE ~(\E k \in 1..MaxCommands : OperatorActs(k) \/ OperatorReports(k))
    BY <1>2 DEF ExtensionNext, HandlerNext, OpenTask, ConfirmProposal, ChoosePayment, Search,
       SaveFound, SelectionConfirmed, BuyNow, Configure, Resume, Report, PhaseOf,
       Observe, OpenApproval,
       Continue, WindowClosed, Inspect, Claim, StoreGrant, NotSubmitted, Finalize,
       ExecutionOutcome, ReportOutcome, Refused, CallFails, OnlyHandlers, Connect, Disconnect,
       ProposeProduct, DismissProposal, ChangeProduct, WindowApproved, WindowCancelled,
       PollOperator, PageMoves, WorkerStops, BuyerActs, clientVars
  <1>3. QED
    BY <1>1, <1>2

(* An execution that was claimed stays on record, in the mode it was        *)
(* claimed in; "failed" is recorded by a handler that says so.              *)
LEMMA ExecutionStays ==
    ASSUME ExtensionTypeOK, HandlersFit, GrantInvariant, ExtensionNext
    PROVE  /\ Executed /\ task.mode = "live" => Executed' /\ task'.mode = "live"
           /\ attempt'.status = "failed" =>
                \/ attempt.status = "failed"
                \/ \E h \in Handlers : At(h, "not_submitted")
                \/ \E h \in Handlers : At(h, "outcome") /\ handler[h].say = "failed"
  <1>1. CASE TaskCalm
    BY <1>1 DEF TaskCalm, Executed, GrantInvariant
  <1>2. ASSUME NEW h \in Handlers, Observe(h)
        PROVE  attempt' = attempt /\ task'.mode = task.mode
    BY <1>2 DEF Observe, ObserveCheckout, ExtensionTypeOK, TypeOK, Task
  <1>3. ASSUME NEW h \in Handlers, Claim(h)
        PROVE  attempt.status = "none" /\ attempt'.status # "failed"
    BY <1>3 DEF Claim, ClaimExecution, DenyExecution, MayClaim, Unexecuted, Claimed
  <1>4. ASSUME NEW h \in Handlers, NotSubmitted(h)
        PROVE  At(h, "not_submitted") /\ attempt'.status = "failed" /\ task'.mode = task.mode
    BY <1>4 DEF NotSubmitted, ReportExecution, ExtensionTypeOK, TypeOK, Task, Attempt
  <1>5. ASSUME NEW h \in Handlers, ReportOutcome(h)
        PROVE  /\ At(h, "outcome") /\ attempt'.status = handler[h].say
               /\ handler[h].say \in Outcomes /\ task'.mode = task.mode
    BY <1>5 DEF ReportOutcome, At, HandlersFit, RowFits, ReportExecution, ExtensionTypeOK,
                TypeOK, Task, Attempt
  <1>6. QED
    BY <1>1, <1>2, <1>3, <1>4, <1>5, TaskMoves DEF Executed, Outcomes

(* No fault, no second order, and none that was not claimed.                *)
LEMMA OrdersStep ==
    ASSUME OperatorStopped, ExtensionTypeOK, HandlersFit, GrantInvariant, GrantInvariant',
           OrderInvariant, ExtensionNext
    PROVE  OrderInvariant'
  <1>1. orders \in Nat /\ faults \in Nat /\ faults' \in {faults, faults + 1}
    BY FaultsCount DEF ExtensionTypeOK
  <1>2. ASSUME orders' = orders, tab' = "refused" => tab = "refused",
               ~ \E h \in Handlers : Click(h) \/ AnswerLost(h)
        PROVE  OrderInvariant'
    <2>1. orders' > 0 => Executed' /\ task'.mode = "live"
      BY <1>2, ExecutionStays DEF OrderInvariant
    <2>2. orders' <= 1 + faults'
      BY <1>1, <1>2 DEF OrderInvariant
    <2>3. attempt'.status = "failed" \/ tab' = "refused" => orders' <= faults'
      <3>1. attempt'.status = "failed" \/ tab' = "refused" => orders <= faults
        BY <1>2, ExecutionStays DEF OrderInvariant
      <3>2. QED
        BY <1>1, <1>2, <3>1
    <2>4. ASSUME NEW h \in Handlers
          PROVE  /\ handler'[h].at = "click" => orders' = 0
                 /\ handler'[h].at \in {"resend", "not_submitted"} => orders' <= faults'
                 /\ handler'[h].at = "outcome" /\ handler'[h].say = "failed" =>
                        orders' <= faults'
      <3>1. CASE handler'[h] = handler[h]
        BY <1>1, <1>2, <3>1 DEF OrderInvariant, At
      <3>2. CASE Claim(h)
        <4>1. attempt.status = "none"
          BY <3>2 DEF Claim, ClaimExecution, DenyExecution, MayClaim, Unexecuted
        <4>2. orders = 0
          BY <1>1, <4>1 DEF OrderInvariant, Executed
        <4>3. QED
          BY <1>1, <1>2, <4>2
      <3>3. CASE ExecutionOutcome(h)
        <4>1. PICK outcome \in {OutcomeOf(tab), "user_action_required"} : Say(h, "outcome", outcome)
          BY <3>3 DEF ExecutionOutcome
        <4>2. handler'[h].at = "outcome" /\ handler'[h].say = outcome
          BY <4>1, Whereabouts
        <4>3. outcome = "failed" => tab = "refused"
          BY <4>1 DEF OutcomeOf
        <4>4. QED
          BY <1>1, <1>2, <4>2, <4>3 DEF OrderInvariant
      <3>4. CASE handler'[h].at \notin {"click", "resend", "not_submitted", "outcome"}
        BY <3>4
      <3>5. \/ handler'[h] = handler[h] \/ Claim(h) \/ ExecutionOutcome(h)
            \/ handler'[h].at \notin {"click", "resend", "not_submitted", "outcome"}
        <4>1. CASE HandlersCalm
          BY <4>1 DEF HandlersCalm, Submitters
        <4>2. ASSUME NEW g \in Handlers, ExecutionNext(g)
              PROVE  \/ handler'[h] = handler[h]
                     \/ g = h /\ (Claim(h) \/ ExecutionOutcome(h))
                     \/ handler'[h].at \notin {"click", "resend", "not_submitted", "outcome"}
          BY <1>2, <4>2, Whereabouts
          DEF ExecutionNext, Claim, StoreGrant, NotSubmitted, Finalize, ExecutionOutcome,
              ReportOutcome, Idle
        <4>3. QED
          BY <4>1, <4>2, HandlerMoves
      <3>6. QED
        BY <3>1, <3>2, <3>3, <3>4, <3>5
    <2>5. QED
      BY <2>1, <2>2, <2>3, <2>4 DEF OrderInvariant, At, Executed
  <1>3. ASSUME NEW h \in Handlers, Click(h) \/ AnswerLost(h)
        PROVE  OrderInvariant'
    <2>1. Submitting(h) /\ attempt.status = "claimed" /\ task.mode = "live"
      BY <1>3 DEF Click, AnswerLost, At, Submitting, Submitters, GrantInvariant
    <2>2. UNCHANGED <<task, attempt>>
      BY <1>3 DEF Click, AnswerLost, vars
    <2>3. /\ handler'[h].at \in Submitters
          /\ \A g \in Handlers \ {h} : handler'[g].at \notin Submitters \cup {"finalize", "outcome"}
      <3>1. handler'[h].at \in Submitters
        BY <1>3, Whereabouts DEF Click, AnswerLost, Submitters
      <3>2. QED
        BY <3>1 DEF GrantInvariant, Submitting, Finishing
    <2>4. CASE Click(h)
      <3>1. orders <= faults /\ faults' = faults
        BY <1>1, <2>4 DEF Click, At, OrderInvariant
      <3>2. /\ handler'[h].at \in {"store", "not_submitted"}
            /\ orders' \in {orders, orders + 1}
            /\ handler'[h].at = "not_submitted" \/ tab' = "refused" => orders' = orders
        BY <2>4, Whereabouts DEF Click, ClickFinal
      <3>3. /\ orders' <= 1 + faults'
            /\ handler'[h].at = "not_submitted" \/ tab' = "refused" => orders' <= faults'
        BY <1>1, <3>1, <3>2
      <3>4. Executed' /\ task'.mode = "live" /\ attempt'.status # "failed"
        BY <2>1, <2>2 DEF Executed
      <3>5. \A g \in Handlers : handler'[g].at \notin {"click", "resend", "outcome"}
                /\ (handler'[g].at = "not_submitted" => orders' <= faults')
        BY <2>3, <3>2, <3>3 DEF Submitters
      <3>6. QED
        BY <3>3, <3>4, <3>5 DEF OrderInvariant, At, Executed
    <2>5. CASE AnswerLost(h)
      <3>1. orders = 0 /\ faults' = faults + 1 /\ handler'[h].at = "resend"
            /\ orders' \in {0, 1}
        BY <1>1, <2>5, Whereabouts DEF AnswerLost, At, ClickFinal, OrderInvariant
      <3>2. QED
        BY <1>1, <2>1, <2>2, <2>3, <3>1 DEF OrderInvariant, At, Executed, Submitters
    <2>6. QED
      BY <1>3, <2>4, <2>5
  <1>4. QED
    BY <1>2, <1>3, OrderMoves
-----------------------------------------------------------------------------
(* The theorems.                                                            *)

ExtensionInvariant ==
    /\ ExtensionTypeOK /\ HandlersFit
    /\ SealInvariant /\ OperatorInOrder /\ CommandsBounded
    /\ GrantInvariant /\ GrantIsHeld /\ WindowBehindPhase

(* The invariants hold of an extension that was just installed.             *)
LEMMA InitialRows ==
    ASSUME ExtensionInit
    PROVE  ExtensionInvariant /\ OrderInvariant
  <1>1. Idle \in Row /\ RowFits(Idle)
    BY DEF Idle, Row, RowFits, Places, TaskStatuses
  <1>2. Init
    BY DEF ExtensionInit
  <1>3. TypeOK /\ SealInvariant /\ OperatorInOrder
    BY <1>2, TypeOKInit, SealInit DEF Init, OperatorInOrder
  <1>4. CommandsBounded
    BY <1>2, DurationsAssumption DEF Init, CommandsBounded
  <1>5. HandlersFit /\ \A h \in Handlers : handler[h] = Idle
    BY <1>1 DEF ExtensionInit, HandlersFit
  <1>6. ExtensionTypeOK
    <2>1. handler \in [Handlers -> Row]
      BY <1>1 DEF ExtensionInit
    <2>2. 0 \in 0 .. MaxCommands /\ 0 \in 0 .. MaxFaults
      BY DurationsAssumption, ExtensionAssumption
    <2>3. QED
      BY <1>3, <2>1, <2>2 DEF ExtensionInit, ExtensionTypeOK, Row, Phases, Views
  <1>7. GrantInvariant
    BY <1>2, <1>5, ExtensionAssumption
    DEF ExtensionInit, Init, NoTask, NoAttempt, Idle, GrantInvariant, Submitting, Submitters,
        Finishing
  <1>8. GrantIsHeld /\ WindowBehindPhase
    BY <1>2 DEF ExtensionInit, Init, NoTask, GrantIsHeld, WindowBehindPhase
  <1>9. OrderInvariant
    BY <1>2, <1>5 DEF ExtensionInit, Init, NoAttempt, Idle, OrderInvariant, At
  <1>10. QED
    BY <1>3, <1>4, <1>5, <1>6, <1>7, <1>8, <1>9 DEF ExtensionInvariant

(* The extension's invariant is inductive.                                  *)
LEMMA InvariantStep ==
    ASSUME ExtensionInvariant, [ExtensionNext]_extensionVars
    PROVE  ExtensionInvariant'
  <1> USE DEF ExtensionInvariant
  <1>1. CASE UNCHANGED extensionVars
    BY <1>1 DEF extensionVars, clientVars, vars, serverVars, ExtensionTypeOK, TypeOK,
        HandlersFit, SealInvariant, ReviewDisplaces, PermitFitsTask, OfferIsOpen,
        ApprovalIsSealed, SubmissionIsSealed, OutcomeIsAttempts, Pending, OperatorInOrder,
        CommandsBounded, GrantInvariant, Submitting, Finishing, Executed, GrantIsHeld,
        GrantValid, WindowBehindPhase
  <1>2. CASE ExtensionNext
    <2>1. TypeOK' /\ SealInvariant' /\ OperatorInOrder' /\ CommandsBounded'
      BY <1>2, TaskKept
    <2>2. handler' \in [Handlers -> Row] /\ HandlersFit'
      BY <1>2, HandlersStep
    <2>3. ExtensionTypeOK'
      BY <1>2, <2>1, <2>2, ClientTyped DEF ExtensionTypeOK, Row
    <2>4. GrantInvariant' /\ GrantIsHeld' /\ WindowBehindPhase'
      BY <1>2, GrantStep, HeldStep, WindowStep
    <2>5. QED
      BY <2>1, <2>2, <2>3, <2>4
  <1>3. QED
    BY <1>1, <1>2

(* The task, the worker's storage, its handlers and its windows fit         *)
(* together in every reachable state.                                       *)
THEOREM ExtensionInvariantHolds == ExtensionSpec => []ExtensionInvariant
  <1>1. ExtensionInit => ExtensionInvariant
    BY InitialRows
  <1>2. ExtensionInvariant /\ [ExtensionNext]_extensionVars => ExtensionInvariant'
    BY InvariantStep
  <1>3. QED
    BY <1>1, <1>2, PTL DEF ExtensionSpec

(* The worker's storage, its handlers, the shop's tab and the rows of the   *)
(* server are well typed.                                                   *)
THEOREM ExtensionTypeCorrect == ExtensionSpec => []ExtensionTypeOK
  <1>1. ExtensionInvariant => ExtensionTypeOK
    BY DEF ExtensionInvariant
  <1>2. QED
    BY <1>1, ExtensionInvariantHolds, PTL

(* While a claimed execution can be reported, its grant is with a handler   *)
(* or in storage (service-worker.ts).                                       *)
THEOREM GrantIsHeldHolds == ExtensionSpec => []GrantIsHeld
  <1>1. ExtensionInvariant => GrantIsHeld
    BY DEF ExtensionInvariant
  <1>2. QED
    BY <1>1, ExtensionInvariantHolds, PTL

(* The phase that keeps the worker from opening a window stands for one.    *)
THEOREM WindowBehindPhaseHolds == ExtensionSpec => []WindowBehindPhase
  <1>1. ExtensionInvariant => WindowBehindPhase
    BY DEF ExtensionInvariant
  <1>2. QED
    BY <1>1, ExtensionInvariantHolds, PTL

(* Also when the extension drives the task, commands start in the order     *)
(* they were queued.                                                        *)
THEOREM ExtensionCommandsInOrder == ExtensionSpec => []OperatorInOrder
  <1>1. ExtensionInvariant => OperatorInOrder
    BY DEF ExtensionInvariant
  <1>2. QED
    BY <1>1, ExtensionInvariantHolds, PTL

(* The extension is a client of the server like any other: whatever its     *)
(* handlers do, a task that may be told of every progress status sees only  *)
(* the transactions of ShoppingTask, so that its theorems hold of it.       *)
THEOREM ImplementsTask ==
    ASSUME ProgressStatuses \subseteq Reports
    PROVE  ExtensionSpec => Spec
  <1>1. ExtensionInit => Init
    BY DEF ExtensionInit
  <1>2. ExtensionInvariant /\ [ExtensionNext]_extensionVars => [Next]_vars
    <2>1. SUFFICES ASSUME ExtensionInvariant, [ExtensionNext]_extensionVars
                   PROVE  [Next]_vars
      OBVIOUS
    <2>2. CASE UNCHANGED extensionVars
      BY <2>2 DEF extensionVars
    <2>3. CASE ExtensionNext
      <3>1. ASSUME NEW status \in ProgressStatuses, ReportStatus(Extension, status)
            PROVE  Next
        BY <3>1, ExtensionAssumption DEF Next, InstallationNext
      <3>2. QED
        BY <2>1, <2>3, <3>1, TaskStep DEF ExtensionInvariant
    <2>4. QED
      BY <2>1, <2>2, <2>3
  <1>3. QED
    BY <1>1, <1>2, ExtensionInvariantHolds, PTL DEF ExtensionSpec, Spec

(* What the extension executes is what the last passkey sealed, and once,   *)
(* however its handlers overlap, its calls fail and windows close.          *)
THEOREM ExtensionExecutesWhatWasSealed ==
    ASSUME ProgressStatuses \subseteq Reports
    PROVE  ExtensionSpec => ExecutesWhatWasSealed /\ OneAttemptOneEnd
  BY ImplementsTask, SealedIsExecuted, AttemptsEndOnce, PTL

(* On a shop whose final controls the operator may not click, nothing was   *)
(* ordered that was not claimed, and nothing twice without a fault.         *)
THEOREM OrdersFit ==
    ASSUME OperatorStopped
    PROVE  ExtensionSpec => []OrderInvariant
  <1>1. ExtensionInit => OrderInvariant
    BY InitialRows
  <1>2. /\ ExtensionInvariant /\ ExtensionInvariant' /\ OrderInvariant
        /\ [ExtensionNext]_extensionVars
        => OrderInvariant'
    <2>1. SUFFICES ASSUME ExtensionInvariant, ExtensionInvariant', OrderInvariant,
                          [ExtensionNext]_extensionVars
                   PROVE  OrderInvariant'
      OBVIOUS
    <2>2. CASE UNCHANGED extensionVars
      BY <2>1, <2>2 DEF extensionVars, clientVars, vars, OrderInvariant, Executed, At
    <2>3. CASE ExtensionNext
      BY <2>1, <2>3, OrdersStep DEF ExtensionInvariant
    <2>4. QED
      BY <2>1, <2>2, <2>3
  <1>3. QED
    BY <1>1, <1>2, ExtensionInvariantHolds, PTL DEF ExtensionSpec

(* There, what was ordered was claimed first, by a live task, and once but  *)
(* for lost answers.                                                        *)
THEOREM OrderedOnceClaimedHolds ==
    ASSUME OperatorStopped
    PROVE  ExtensionSpec => []OrderedOnceClaimed
  <1>1. OrderInvariant => OrderedOnceClaimed
    BY DEF OrderInvariant, OrderedOnceClaimed, Executed
  <1>2. QED
    BY <1>1, OrdersFit, PTL

(* There, an execution is recorded as failed only if nothing was ordered.   *)
THEOREM FailedMeansNoOrderHolds ==
    ASSUME OperatorStopped
    PROVE  ExtensionSpec => []FailedMeansNoOrder
  <1>1. ExtensionTypeOK /\ OrderInvariant => FailedMeansNoOrder
    BY DEF OrderInvariant, FailedMeansNoOrder, ExtensionTypeOK
  <1>2. QED
    BY <1>1, OrdersFit, ExtensionTypeCorrect, PTL
=============================================================================
