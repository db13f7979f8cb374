----------------------------- MODULE AnswerRelay -----------------------------
(***************************************************************************)
(* What the receiver of a generated answer is promised, with no batches,   *)
(* counters or handlers in sight: of each part of the answer it hears a    *)
(* prefix of what the engine has said, each token once and in its place,   *)
(* and the answer counts as complete only when all of it has been heard.   *)
(* TokenStream implements this specification.                              *)
(***************************************************************************)
EXTENDS Naturals

CONSTANTS
  Parts   \* the alternative answers that are generated side by side

VARIABLES
  said,   \* how many tokens of each part the engine has produced
  heard,  \* the numbers of the tokens of each part that were delivered, in order
  status  \* "open", "complete" or "broken"

vars == <<said, heard, status>>

\* The first k tokens.
Upto(k) == [j \in 1..k |-> j]

Init ==
  /\ said = [p \in Parts |-> 0]
  /\ heard = [p \in Parts |-> Upto(0)]
  /\ status = "open"

Say ==
  /\ status = "open"
  /\ \A p \in Parts : said'[p] >= said[p]
  /\ UNCHANGED <<heard, status>>

\* Some parts advance, none falls back and none runs ahead of the engine.
Hear ==
  /\ status = "open"
  /\ \A p \in Parts :
       \E k \in 0..said[p] : (\A j \in DOMAIN heard[p] : j <= k) /\ heard'[p] = Upto(k)
  /\ UNCHANGED <<said, status>>

Complete ==
  /\ status = "open"
  /\ \A p \in Parts : heard'[p] = Upto(said[p])
  /\ status' = "complete"
  /\ UNCHANGED said

Break ==
  /\ status = "open"
  /\ status' = "broken"
  /\ UNCHANGED <<said, heard>>

Next == Say \/ Hear \/ Complete \/ Break

Spec == Init /\ [][Next]_vars
=============================================================================
