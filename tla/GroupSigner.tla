---------------------------- MODULE GroupSigner ----------------------------
(***************************************************************************)
(* What FROSTCoordinator promises to the contracts that use one of its     *)
(* groups, Consensus in the first place: a group becomes ready at most     *)
(* once, a ready group numbers the messages it is asked to sign, and each  *)
(* request completes at most once, for the message it was opened with and  *)
(* with one signature that is never replaced.                              *)
(***************************************************************************)
EXTENDS Naturals, Sequences

CONSTANTS
    Messages,
    Signatures

VARIABLES
    ready,      \* groupKey answers: the group is FINALIZED
    requests,   \* the messages of the signature IDs, in sequence order
    completed   \* the positions in requests that have a valid signature, with it

gsVars == <<ready, requests, completed>>

GSInit ==
    /\ ready = FALSE
    /\ requests = << >>
    /\ completed = {}

BecomeReady ==
    /\ ready' = TRUE
    /\ UNCHANGED <<requests, completed>>

Request(m) ==
    /\ ready
    /\ requests' = Append(requests, m)
    /\ UNCHANGED <<ready, completed>>

Complete(i, signature) ==
    /\ ready
    /\ i \in DOMAIN requests
    /\ \A done \in completed : done[1] # i
    /\ completed' = completed \cup {<<i, signature>>}
    /\ UNCHANGED <<ready, requests>>

GSNext ==
    \/ BecomeReady
    \/ \E m \in Messages : Request(m)
    \/ \E i \in DOMAIN requests, signature \in Signatures : Complete(i, signature)

GSSpec == GSInit /\ [][GSNext]_gsVars
============================================================================
