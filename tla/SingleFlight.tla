----------------------------- MODULE SingleFlight -----------------------------
(***************************************************************************)
(* What the queue manager promises its callers, without channels, workers, *)
(* epochs or priorities: identical requests share one flight, the outcome  *)
(* of a flight is decided once (by one call to Drive, or by giving it up), *)
(* and when it lands everybody aboard is answered, once.                   *)
(***************************************************************************)
CONSTANTS Callers, Keys

VARIABLES
    inFlight,   \* the keys somebody is taking care of
    decided,    \* those whose outcome is known
    aboard,     \* aboard[k]: the callers waiting for the flight of k
    answered    \* the callers who have an answer they have not taken yet

vars == <<inFlight, decided, aboard, answered>>

Init ==
    /\ inFlight = {}
    /\ decided = {}
    /\ aboard = [k \in Keys |-> {}]
    /\ answered = {}

Free(c) == c \notin answered /\ \A k \in Keys : c \notin aboard[k]

\* A request that does not wait.
Launch(k) ==
    /\ k \notin inFlight
    /\ inFlight' = inFlight \cup {k}
    /\ UNCHANGED <<decided, aboard, answered>>

\* A request that waits: it joins the flight or starts one.
Board(c, k) ==
    /\ Free(c)
    /\ inFlight' = inFlight \cup {k}
    /\ aboard' = [aboard EXCEPT ![k] = @ \cup {c}]
    /\ UNCHANGED <<decided, answered>>

Decide(k) ==
    /\ k \in inFlight \ decided
    /\ decided' = decided \cup {k}
    /\ UNCHANGED <<inFlight, aboard, answered>>

Land(k) ==
    /\ k \in decided
    /\ inFlight' = inFlight \ {k}
    /\ decided' = decided \ {k}
    /\ answered' = answered \cup aboard[k]
    /\ aboard' = [aboard EXCEPT ![k] = {}]

Return(c) ==
    /\ c \in answered
    /\ answered' = answered \ {c}
    /\ UNCHANGED <<inFlight, decided, aboard>>

Next ==
    \/ \E k \in Keys : Launch(k) \/ Decide(k) \/ Land(k)
    \/ \E c \in Callers, k \in Keys : Board(c, k)
    \/ \E c \in Callers : Return(c)

Spec == Init /\ [][Next]_vars

FairSpec ==
    /\ Spec
    /\ \A k \in Keys : WF_vars(Decide(k)) /\ WF_vars(Land(k))
    /\ \A c \in Callers : WF_vars(Return(c))

===============================================================================
