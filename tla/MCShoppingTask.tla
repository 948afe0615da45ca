--------------------------- MODULE MCShoppingTask ---------------------------
(* Instances of ShoppingTask for TLC.                                       *)
EXTENDS ShoppingTask, FiniteSets, TLC

(* Products, evidence and installations are only compared for equality.     *)
Symmetry ==
    Permutations(Products) \cup Permutations(Details) \cup Permutations(Installations)

(* One product, whose evidence and clock change and whose execution is      *)
(* followed to its end.                                                     *)
OneProduct ==
    Cardinality(reviewed) <= 1 /\ continuation.made = 0 /\ commands = <<>>

(* Two products, with an approval window of the extension, until one of     *)
(* them is executed; the operator until the first checkout is sealed (later *)
(* on it is in MCExtension).                                                *)
EvidenceInPlay ==
    {task.snapshot, permit.snapshot, page.shown, passkey} \ {NoSnapshot}
TwoProducts ==
    /\ now = 0 /\ attempt.status = "none"
    /\ Cardinality({s.details : s \in EvidenceInPlay}) <= 1
    /\ commands # <<>> => permit.status = "none"

(* The dashboard's switch changes where it is read: before the task is      *)
(* created, and while it waits for its claim.                               *)
SwitchInPlay == live # (task.mode = "live") => task.status \in {"none", "approved"}

ExploredTasks == SwitchInPlay /\ (OneProduct \/ TwoProducts)
=============================================================================
