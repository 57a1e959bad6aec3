---------------------------- MODULE GoalCampaign ----------------------------
(***************************************************************************)
(* What the execution of goal runs promises, seen from outside: runs one   *)
(* after another, each closing its authorities in an order the             *)
(* dependencies allow and reopening them only together with everything     *)
(* that depends on them; a run gives way to the next only when it is       *)
(* finished, and it is finished only with all its authorities closed.      *)
(***************************************************************************)
EXTENDS Naturals

CONSTANTS Authority, Deps

VARIABLES
  run,      \* the version of the run that is executed
  done,     \* its closed authorities
  status    \* "none" before the first run, then "open" or "finished"

campaign == <<run, done, status>>

Init == run = 0 /\ done = {} /\ status = "none"

StartRun ==
  /\ status # "open"
  /\ run' \in Nat /\ run' > run
  /\ done' = {} /\ status' = "open"

CloseAuthority(a) ==
  /\ status = "open" /\ a \notin done /\ Deps[a] \subseteq done
  /\ done' = done \cup {a}
  /\ UNCHANGED <<run, status>>

(* The rest still rests on nothing that was reopened. *)
Reopen ==
  /\ status # "none"
  /\ done' \subseteq done /\ done' # Authority
  /\ \A a \in done' : Deps[a] \subseteq done'
  /\ status' = "open" /\ UNCHANGED run

Finish ==
  /\ status = "open" /\ done = Authority
  /\ status' = "finished" /\ UNCHANGED <<run, done>>

Next ==
  \/ StartRun
  \/ \E a \in Authority : CloseAuthority(a)
  \/ Reopen
  \/ Finish

Spec == Init /\ [][Next]_campaign
=============================================================================
