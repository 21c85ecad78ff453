---------------------------- MODULE RequestLedger ----------------------------
(* What the inbox promises of each request, whatever nodes, ticks and        *)
(* transactions are: it waits until it is settled; it is acted upon at most  *)
(* once, and only while it waits; settled as done or as a duplicate it stays *)
(* so; refused it may be sent again.                                         *)
EXTENDS Naturals

CONSTANT Requests

VARIABLES state,   \* of each request
          acted    \* how often each request had an effect

States == {"none", "waiting", "done", "refused", "duplicate", "forgotten"}

Init == /\ state = [r \in Requests |-> "none"]
        /\ acted = [r \in Requests |-> 0]

Receive(r) == /\ state[r] = "none"
              /\ state' = [state EXCEPT ![r] = "waiting"]
              /\ UNCHANGED acted

SendAgain(r) == /\ state[r] = "refused"
                /\ state' = [state EXCEPT ![r] = "waiting"]
                /\ UNCHANGED acted

Act(r) == /\ state[r] = "waiting" /\ acted[r] = 0
          /\ acted' = [acted EXCEPT ![r] = 1]
          /\ UNCHANGED state

\* Several requests are settled, or forgotten, at once.
Settle == /\ state' \in [Requests -> States]
          /\ \A r \in Requests : \/ state'[r] = state[r]
                                 \/ /\ state[r] = "waiting"
                                    /\ state'[r] \in {"done", "refused", "duplicate"}
          /\ UNCHANGED acted

Forget == /\ state' \in [Requests -> States]
          /\ \A r \in Requests : \/ state'[r] = state[r]
                                 \/ /\ state[r] \in {"done", "refused", "duplicate"}
                                    /\ state'[r] = "forgotten"
          /\ UNCHANGED acted

Next == \/ \E r \in Requests : Receive(r) \/ SendAgain(r) \/ Act(r)
        \/ Settle \/ Forget

Spec == Init /\ [][Next]_<<state, acted>>
=============================================================================
