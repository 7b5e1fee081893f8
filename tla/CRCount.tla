------------------------------ MODULE CRCount -------------------------------
(***************************************************************************)
(* What the spec (section 5) promises of the full-recomputation path: a    *)
(* recomputation is one atomic step.  An observer of the gauge sees either *)
(* the value before it or the value derived from the API server's current *)
(* CertificateRequests, never a partly reset and partly repopulated one.   *)
(* A failed list leaves the gauge as it was.                               *)
(***************************************************************************)
EXTENDS Naturals

CONSTANTS Keys, MaxChanges

VARIABLES
    live,     \* the CertificateRequests stored in the API server
    changes,  \* number of API changes so far
    queued,   \* events not yet handled
    gauge     \* the exposed current_certificate_request_count children

vars == <<live, changes, queued, gauge>>

Counted(S) == [k \in Keys |-> IF k \in S THEN 1 ELSE 0]

Init ==
    /\ live \in SUBSET Keys
    /\ changes = 0
    /\ queued \in Nat
    /\ gauge = Counted({})

\* A create, update or delete of a CertificateRequest queues one event.
Change ==
    /\ changes < MaxChanges
    /\ \E S \in SUBSET Keys :
          /\ \/ \E k \in Keys \ live : S = live \cup {k}
             \/ \E k \in live : S = live \/ S = live \ {k}
          /\ live' = S
    /\ changes' = changes + 1
    /\ queued' = queued + 1
    /\ UNCHANGED gauge

\* One event is handled in one step: the gauge becomes the live count.
Recount ==
    /\ queued > 0
    /\ queued' = queued - 1
    /\ gauge' = Counted(live)
    /\ UNCHANGED <<live, changes>>

\* One event is handled and the list fails: the gauge keeps its value.
RecountFailed ==
    /\ queued > 0
    /\ queued' = queued - 1
    /\ UNCHANGED <<live, changes, gauge>>

Next == Change \/ Recount \/ RecountFailed

Spec == Init /\ [][Next]_vars
=============================================================================
