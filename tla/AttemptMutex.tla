---------------------------- MODULE AttemptMutex ----------------------------
(***************************************************************************)
(* What a caller of a control-plane lock may count on: each attempt, named *)
(* by its owner token, is let in at most once, alone, and is over for good *)
(* when it leaves, gives up or dies.                                       *)
(***************************************************************************)
CONSTANT Token

VARIABLE phase

Init == phase = [t \in Token |-> "out"]

LetIn(t) ==
  /\ phase[t] = "out"
  /\ \A u \in Token : phase[u] # "in"
  /\ phase' = [phase EXCEPT ![t] = "in"]

Finish(t) ==
  /\ phase[t] # "over"
  /\ phase' = [phase EXCEPT ![t] = "over"]

Next == \E t \in Token : LetIn(t) \/ Finish(t)

Spec == Init /\ [][Next]_phase
=============================================================================
