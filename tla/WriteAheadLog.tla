----------------------------- MODULE WriteAheadLog -----------------------------
(***************************************************************************)
(* What a write-ahead delivery log promises: an entry that was taken is    *)
(* there until it is acknowledged, failed deliveries are counted one by    *)
(* one, and after MaxRetries of them the entry is no longer retried. Files *)
(* and crashes do not show.                                                *)
(***************************************************************************)
EXTENDS Naturals

CONSTANTS Id, MaxRetries

VARIABLES state,      \* "unknown", "pending", "failed" or "settled"
          attempts    \* the failed deliveries of an entry that is held

vars == <<state, attempts>>

Held(i) == state[i] \in {"pending", "failed"}

Init == /\ state = [i \in Id |-> "unknown"]
        /\ attempts = [i \in Id |-> 0]

Take(i) ==
    /\ state[i] = "unknown"
    /\ state' = [state EXCEPT ![i] = "pending"]
    /\ UNCHANGED attempts

CountFailure(i) ==
    /\ Held(i)
    /\ attempts' = [attempts EXCEPT ![i] = @ + 1]
    /\ state' = [state EXCEPT ![i] = IF attempts'[i] >= MaxRetries THEN "failed" ELSE "pending"]

Settle(i) ==
    /\ Held(i)
    /\ state' = [state EXCEPT ![i] = "settled"]
    /\ attempts' = [attempts EXCEPT ![i] = 0]

Next == \E i \in Id : Take(i) \/ CountFailure(i) \/ Settle(i)

Spec == Init /\ [][Next]_vars

=============================================================================
