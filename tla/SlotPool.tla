------------------------------ MODULE SlotPool ------------------------------
(***************************************************************************)
(* What the task queue promises its callers, with no counter, no promise   *)
(* and no timer: a pool of Capacity slots and a line of callers.           *)
(*                                                                         *)
(*   - at most Capacity callers hold a slot at any moment;                 *)
(*   - a caller waits only while every slot is held;                       *)
(*   - a slot that is given back goes, in the same instant, to the caller  *)
(*     that has been in line longest;                                      *)
(*   - closing the pool turns the whole line away and everyone after it,   *)
(*     and takes no slot from its holder.                                  *)
(*                                                                         *)
(* TaskQueue is shown to implement this module.                            *)
(***************************************************************************)
EXTENDS Naturals, Sequences, FiniteSets

CONSTANTS Caller,     \* everyone who may ask for a slot, once
          Capacity,   \* how many may hold one at the same time
          Bound       \* how many may stand in line; 0 is no bound

VARIABLES status,     \* what each caller has been told so far
          line,       \* the callers in line, longest first
          open        \* the pool still takes callers

vars == <<status, line, open>>

Holders == {c \in Caller : status[c] = "holding"}

Init == /\ status = [c \in Caller |-> "new"]
        /\ line = <<>>
        /\ open = TRUE

Admit(c) == /\ open
            /\ status[c] = "new"
            /\ Cardinality(Holders) < Capacity
            /\ line = <<>>
            /\ status' = [status EXCEPT ![c] = "holding"]
            /\ UNCHANGED <<line, open>>

StandInLine(c) == /\ open
                  /\ status[c] = "new"
                  /\ Cardinality(Holders) = Capacity
                  /\ Bound = 0 \/ Len(line) < Bound
                  /\ status' = [status EXCEPT ![c] = "inLine"]
                  /\ line' = Append(line, c)
                  /\ UNCHANGED open

TurnAway(c) == /\ status[c] = "new"
               /\ open => /\ Cardinality(Holders) = Capacity
                          /\ Bound > 0 /\ Len(line) = Bound
               /\ status' = [status EXCEPT ![c] = "turnedAway"]
               /\ UNCHANGED <<line, open>>

Leave(c) == /\ status[c] = "holding"
            /\ line = <<>>
            /\ status' = [status EXCEPT ![c] = "left"]
            /\ UNCHANGED <<line, open>>

PassOn(c) == /\ status[c] = "holding"
             /\ line # <<>>
             /\ status' = [status EXCEPT ![c] = "left", ![Head(line)] = "holding"]
             /\ line' = Tail(line)
             /\ UNCHANGED open

Close == /\ open
         /\ open' = FALSE
         /\ status' = [c \in Caller |-> IF status[c] = "inLine" THEN "turnedAway"
                                                                ELSE status[c]]
         /\ line' = <<>>

Next == \/ Close
        \/ \E c \in Caller : Admit(c) \/ StandInLine(c) \/ TurnAway(c) \/ Leave(c) \/ PassOn(c)

Spec == Init /\ [][Next]_vars

=============================================================================
