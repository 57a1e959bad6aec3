----------------------------- MODULE ControlLog -----------------------------
(* What the control store of requirement records promises to its callers   *)
(* as long as no two of them recover a record, or ask for the same event,  *)
(* at once (Serial and NoTwins in ControlStore): each record has one       *)
(* growing log of control events.  An append takes effect at one moment of *)
(* the call or not at all, an event is in the log of a record once, and an *)
(* authoritative read answers with the log as it was at one moment of the  *)
(* call.  A call may fail, and it may even fail although its event was     *)
(* appended; it never succeeds without.                                    *)
EXTENDS Sequences, SequencesExt

CONSTANTS Proc, Record, Event, Nobody

VARIABLES
  log,    \* the committed control events of each record
  call    \* the call of each process: what it asks for and how far it is

Idle == [phase |-> "idle", rec |-> Nobody, ev |-> Nobody, value |-> <<>>]

Init ==
  /\ log = [r \in Record |-> <<>>]
  /\ call = [p \in Proc |-> Idle]

(* appendControlEventAndReplay asks for an event, the authoritative read   *)
(* for none (Nobody).                                                      *)
Ask(p) ==
  /\ call[p] = Idle
  /\ \E r \in Record, e \in Event \cup {Nobody} :
       call' = [call EXCEPT ![p] = [Idle EXCEPT !.phase = "asked", !.rec = r, !.ev = e]]
  /\ UNCHANGED log

Commit(p) ==
  /\ call[p].phase = "asked" /\ call[p].ev \in Event
  /\ call[p].ev \notin ToSet(log[call[p].rec])
  /\ log' = [log EXCEPT ![call[p].rec] = Append(@, call[p].ev)]
  /\ call' = [call EXCEPT ![p].phase = "done"]

Read(p) ==
  /\ call[p].phase = "asked" /\ call[p].ev = Nobody
  /\ call' = [call EXCEPT ![p].phase = "done", ![p].value = log[call[p].rec]]
  /\ UNCHANGED log

Fail(p) ==
  /\ call[p].phase \in {"asked", "done"}
  /\ call' = [call EXCEPT ![p].phase = "failed", ![p].value = <<>>]
  /\ UNCHANGED log

Reply(p) ==
  /\ call[p].phase \in {"done", "failed"}
  /\ call' = [call EXCEPT ![p] = Idle]
  /\ UNCHANGED log

(* A process that dies is not answered; another one takes its place.       *)
Die(p) ==
  /\ call' = [call EXCEPT ![p] = Idle]
  /\ UNCHANGED log

Next ==
  \E p \in Proc : Ask(p) \/ Commit(p) \/ Read(p) \/ Fail(p) \/ Reply(p) \/ Die(p)

Spec == Init /\ [][Next]_<<log, call>>
=============================================================================
