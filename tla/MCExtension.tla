---------------------------- MODULE MCExtension ----------------------------
(* Instances of Extension for TLC.                                          *)
EXTENDS Extension, TLC

(* Handlers are only compared for equality.                                 *)
Symmetry == Permutations(Handlers)

(* The dashboard's switch stays as it was when the task was created, and    *)
(* the approval page is there while there is something to approve: other    *)
(* orders of these are explored without the extension.  The extension is    *)
(* disconnected only under a command it is working on.                      *)
BuyerAttends ==
    /\ task.status # "none" => live = (task.mode = "live")
    /\ page.step # "closed" =>
        /\ task.status \in {"pending_approval", "approved"}
        /\ page.own /\ page.step # "other"
    /\ installs[Extension] = "revoked" => \E k \in 1..MaxCommands : operator[k] # "none"

(* Time passes, or a call fails, between a claim and its outcome.           *)
LateTrouble ==
    now + faults > 0 =>
        /\ now + faults = 1
        /\ attempt.status # "none"
        /\ task.status \in FinalStatuses \cup {"user_action_required", "failed"}

(* The operator works while no handler is in progress and nothing fails;    *)
(* once the checkout was observed, on the one command it still has.         *)
OperatorApart ==
    /\ commands # <<>> =>
        /\ \A h \in Handlers : At(h, "idle")
        /\ faults = 0 /\ now = 0
    /\ permit.status # "none" =>
        /\ Len(commands) < 2
        /\ \A k \in DOMAIN commands : commands[k].status \in {"queued", "claimed"}

(* Two handlers at a time in a live task.  One that only prepares differs   *)
(* at the claim, and a cash order from a paid one in the calls that         *)
(* configure it: one handler goes through these, two through the approval   *)
(* and the execution of both orders.                                        *)
OneAtATime == \E h \in Handlers : \A k \in Handlers \ {h} : At(k, "idle")
TwoInPlay ==
    /\ task.mode = "live"
    /\ task.preference = "cash_on_delivery" =>
        \/ attempt.status # "none"
        \/ task.status \in {"pending_approval", "approved", "submitting"}

Explored == BuyerAttends /\ LateTrouble /\ OperatorApart /\ (OneAtATime \/ TwoInPlay)
=============================================================================
