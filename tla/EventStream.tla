----------------------------- MODULE EventStream -----------------------------
(***************************************************************************)
(* What a stream of events promises its consumer, whatever pieces the      *)
(* network delivers it in: the items of the response in their order, each  *)
(* once, and then the end.  If the connection fails, the consumer is told  *)
(* once, in place of what was not received; the line that was cut off may  *)
(* follow, whole or as one that does not parse.                            *)
(***************************************************************************)
EXTENDS Sequences

CONSTANTS Scripts, NetworkError, ParseError

VARIABLES
    state,      \* "closed", "open", "failed" (the connection is gone) or "over"
    left,       \* the items the consumer has yet to get
    got         \* the items it got
vars == <<state, left, got>>

Init == state = "closed" /\ left = <<>> /\ got = <<>>

Open ==
    /\ state = "closed"
    /\ state' = "open" /\ left' \in Scripts /\ got' = <<>>

Deliver ==
    /\ state \in {"open", "failed"} /\ left # <<>>
    /\ got' = Append(got, Head(left)) /\ left' = Tail(left)
    /\ UNCHANGED state

Fail ==
    /\ state = "open"
    /\ state' = "failed" /\ got' = Append(got, NetworkError)
    /\ left' \in {<<>>, <<ParseError>>} \cup {<<item>> : item \in {left[k] : k \in DOMAIN left \cap {1}}}

Finish ==
    /\ state \in {"open", "failed"} /\ left = <<>>
    /\ state' = "over" /\ UNCHANGED <<left, got>>

Next == Open \/ Deliver \/ Fail \/ Finish

\* An open stream comes to its end.
Spec == Init /\ [][Next]_vars /\ WF_vars(Deliver \/ Fail \/ Finish)

=============================================================================
