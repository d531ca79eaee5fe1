----------------------------- MODULE WriteOnce ------------------------------
(***************************************************************************)
(* What the application is promised about its writes: each takes effect at *)
(* most once, those of a transaction all at once, one that is reported     *)
(* done has taken effect, and one reported as having written nothing has   *)
(* not and never will.                                                     *)
(***************************************************************************)
EXTENDS Naturals

CONSTANTS Tasks, MaxOps

VARIABLES
    called,   \* how many operations each task has called
    effect,   \* how often the write of an operation took effect
    claim     \* what the task's last operation reported about its write

vars == <<called, effect, claim>>

Ids == Tasks \X (1..MaxOps)
Claims == {"none", "unknown", "done", "nothing"}

Init ==
    /\ called = [t \in Tasks |-> 0]
    /\ effect = [id \in Ids |-> 0]
    /\ claim = [t \in Tasks |-> "none"]

(* The writes in S take effect, each for the first time.                   *)
Effect(S) ==
    /\ \A id \in S : /\ effect[id] = 0 /\ id[2] <= called[id[1]]
                     /\ ~(id[2] = called[id[1]] /\ claim[id[1]] = "nothing")
    /\ effect' = [id \in Ids |-> IF id \in S THEN 1 ELSE effect[id]]

NewlyApplied == {id \in Ids : effect'[id] # effect[id]}

Call(t) ==
    /\ called' = [called EXCEPT ![t] = @ + 1]
    /\ claim' = [claim EXCEPT ![t] = "none"]
    /\ UNCHANGED effect

TakeEffect == Effect(NewlyApplied) /\ UNCHANGED <<called, claim>>

Report(t) ==
    /\ claim[t] = "none"
    /\ Effect(NewlyApplied)
    /\ \E c \in Claims \ {"none"} :
          /\ claim' = [claim EXCEPT ![t] = c]
          /\ c = "done" => effect'[<<t, called[t]>>] = 1
          /\ c = "nothing" => effect'[<<t, called[t]>>] = 0
    /\ UNCHANGED called

(* The application goes on to something that is not a write.               *)
Forget(t) == claim' = [claim EXCEPT ![t] = "none"] /\ UNCHANGED <<called, effect>>

Next == TakeEffect \/ \E t \in Tasks : Call(t) \/ Report(t) \/ Forget(t)

Spec == Init /\ [][Next]_vars
=============================================================================
