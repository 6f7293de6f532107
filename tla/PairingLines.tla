----------------------------- MODULE PairingLines -----------------------------
(***************************************************************************)
(* What random matchmaking promises: each tier is one line of requests,    *)
(* new requests go to its end and a match takes the two at its front.      *)
(* Only a failure removes a request in another way, and only from the      *)
(* front.                                                                  *)
(***************************************************************************)
EXTENDS Integers, Sequences

CONSTANTS Requests, Tiers

VARIABLES line,    \* the requests that wait in each tier, first come first
          matches  \* the pairs that were matched

Init ==
    /\ line = [t \in Tiers |-> <<>>]
    /\ matches = {}

Arrive(r, t) ==
    /\ line' = [line EXCEPT ![t] = Append(@, r)]
    /\ UNCHANGED matches

Pair(t) ==
    /\ Len(line[t]) >= 2
    /\ matches' = matches \cup {<<line[t][1], line[t][2]>>}
    /\ line' = [line EXCEPT ![t] = Tail(Tail(@))]

\* A failure loses the one or two requests that were about to be matched.
Lose(t) ==
    /\ \/ /\ Len(line[t]) >= 1
          /\ line' = [line EXCEPT ![t] = Tail(@)]
       \/ /\ Len(line[t]) >= 2
          /\ line' = [line EXCEPT ![t] = Tail(Tail(@))]
    /\ UNCHANGED matches

Next == \E t \in Tiers : Pair(t) \/ Lose(t) \/ \E r \in Requests : Arrive(r, t)

Spec == Init /\ [][Next]_<<line, matches>>
=============================================================================
