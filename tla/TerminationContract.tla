------------------------- MODULE TerminationContract -------------------------
(***************************************************************************)
(* What one worker process promises whoever watches it from outside, with  *)
(* no tasks, guards or commands in sight: it gives at most one reason for  *)
(* its end, it composes no heartbeat once it has decided on one, and it is *)
(* struck off the active set only after a reason other than a pause was    *)
(* received.  HeartbeatLifecycle implements this specification.            *)
(***************************************************************************)
CONSTANTS
  Reasons,  \* what a termination signal may say
  Pause     \* the one after which the registration must stay

VARIABLES
  verdict,  \* NoVerdict, one that was sent, one that was received, or Lost
  beating,  \* does the process compose heartbeats?
  listed    \* is the instance in the active set?

vars == <<verdict, beating, listed>>

NoVerdict   == [state |-> "none"]
Lost        == [state |-> "lost"]
Sent(r)     == [state |-> "sent", reason |-> r]
Received(r) == [state |-> "received", reason |-> r]

Verdict == {NoVerdict, Lost} \cup {Sent(r) : r \in Reasons} \cup {Received(r) : r \in Reasons}

Init == verdict = NoVerdict /\ beating = FALSE /\ listed = FALSE

StartBeating ==
  /\ verdict = NoVerdict
  /\ beating' = TRUE
  /\ UNCHANGED <<verdict, listed>>

\* The process ends, or falls silent.
StopBeating ==
  /\ beating' = FALSE
  /\ UNCHANGED <<verdict, listed>>

\* One decision, and with it silence; where no control plane is configured the
\* verdict is lost from the start.
Decide ==
  /\ verdict = NoVerdict
  /\ verdict' \in {Lost} \cup {Sent(r) : r \in Reasons}
  /\ beating' = FALSE
  /\ UNCHANGED listed

Deliver ==
  /\ \E r \in Reasons : verdict = Sent(r) /\ verdict' \in {Received(r), Lost}
  /\ UNCHANGED <<beating, listed>>

\* A heartbeat lands, at once or long after it was composed.
List ==
  /\ listed' = TRUE
  /\ UNCHANGED <<verdict, beating>>

Strike ==
  /\ \E r \in Reasons \ {Pause} : verdict = Received(r)
  /\ listed' = FALSE
  /\ UNCHANGED <<verdict, beating>>

Next == StartBeating \/ StopBeating \/ Decide \/ Deliver \/ List \/ Strike

Spec == Init /\ [][Next]_vars
=============================================================================
