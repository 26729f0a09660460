------------------------------ MODULE ContentMap -------------------------------
(***************************************************************************)
(* What the content cache promises, without tiers: a map from cache keys   *)
(* to contents that may forget, but never brings back a content that was   *)
(* replaced.  A store takes effect between its call and its return; when   *)
(* it returns, the key leads to what was stored, or to nothing.            *)
(***************************************************************************)
CONSTANTS Keys, Contents, Nothing

VARIABLES
    held,      \* held[k]: the content a lookup of k leads to, or Nothing
    offered    \* offered[k]: what the stores under way want to put there

vars == <<held, offered>>

Init ==
    /\ held = [k \in Keys |-> Nothing]
    /\ offered = [k \in Keys |-> {}]

Offer(k, c) ==
    /\ offered' = [offered EXCEPT ![k] = @ \cup {c}]
    /\ UNCHANGED held

Take(k) ==
    /\ \E c \in offered[k] : held' = [held EXCEPT ![k] = c]
    /\ UNCHANGED offered

Forget(k) ==
    /\ held' = [held EXCEPT ![k] = Nothing]
    /\ UNCHANGED offered

\* The content of k goes to a key it is offered to.
Move(k, l) ==
    /\ held[k] \in offered[l]
    /\ held' = [held EXCEPT ![l] = held[k], ![k] = Nothing]
    /\ UNCHANGED offered

\* The store of c under k returns.
Return(k, c) ==
    /\ c \in offered[k]
    /\ offered' = [offered EXCEPT ![k] = @ \ {c}]
    /\ \E left \in {c, Nothing} : held' = [held EXCEPT ![k] = left]

\* The stores under way stop where they are: with or without an effect, or
\* with what they replace already gone.
Crash ==
    /\ offered' = [k \in Keys |-> {}]
    /\ held' \in [Keys -> Contents \cup {Nothing}]
    /\ \A k \in Keys : held'[k] \in {held[k], Nothing} \cup offered[k]

Next ==
    \/ \E k \in Keys : Take(k) \/ Forget(k)
    \/ \E k \in Keys, c \in Contents : Offer(k, c) \/ Return(k, c)
    \/ \E k, l \in Keys : Move(k, l)
    \/ Crash

Spec == Init /\ [][Next]_vars

===============================================================================
