--------------------------- MODULE ActionPromise ---------------------------
(***************************************************************************)
(* What the recovery transaction promises about each idempotency key,      *)
(* whatever crashes, failed writes and concurrent workers do: it is opened *)
(* at most once, alone on its target; while it is open it has at most one  *)
(* side effect; and it is closed by one final verdict, which is never      *)
(* Failed for an input that was sent and never Succeeded for one that was  *)
(* not.  A key that is closed is never opened again.                       *)
(***************************************************************************)
EXTENDS Naturals

CONSTANTS Keys,       \* records with a field target
          InputKeys   \* the keys of actions that type into a pane

VARIABLES verdict, effects

Verdicts == {"Succeeded", "Failed", "HumanRequired"}

Init ==
    /\ verdict = [k \in Keys |-> "none"]
    /\ effects = [k \in Keys |-> 0]

Open(k) ==
    /\ verdict[k] = "none"
    /\ \A other \in Keys : other.target = k.target => verdict[other] # "open"
    /\ verdict' = [verdict EXCEPT ![k] = "open"]
    /\ UNCHANGED effects

Perform(k) ==
    /\ verdict[k] = "open"
    /\ effects[k] = 0
    /\ effects' = [effects EXCEPT ![k] = 1]
    /\ UNCHANGED verdict

Close(k, v) ==
    /\ verdict[k] = "open"
    /\ v = "Failed" /\ k \in InputKeys => effects[k] = 0
    /\ v = "Succeeded" => effects[k] = 1
    /\ verdict' = [verdict EXCEPT ![k] = v]
    /\ UNCHANGED effects

Next == \E k \in Keys : Open(k) \/ Perform(k) \/ \E v \in Verdicts : Close(k, v)

Spec == Init /\ [][Next]_<<verdict, effects>>
=============================================================================
