--------------------------- MODULE SingleFlight ---------------------------
(***************************************************************************)
(* What the webhook's work queue promises, with no queue, channel or       *)
(* worker in sight: a key that is requested is served once, requests that  *)
(* arrive while the key is pending or being served are merged into the     *)
(* request already there, and every pending key is served in the end.      *)
(***************************************************************************)
CONSTANT Keys     \* the (namespace, service account) pairs

VARIABLE phase    \* phase[k]: what has become of the last request for k

Init == phase = [k \in Keys |-> "idle"]

\* A request for a key that nobody is serving.
Request(k) ==
  /\ phase[k] = "idle"
  /\ phase' = [phase EXCEPT ![k] = "pending"]

\* Some worker begins to serve the key.
Start(k) ==
  /\ phase[k] = "pending"
  /\ phase' = [phase EXCEPT ![k] = "active"]

\* That worker is done with the key, whether or not it succeeded.
Finish(k) ==
  /\ phase[k] = "active"
  /\ phase' = [phase EXCEPT ![k] = "idle"]

\* The process is replaced and forgets every request.
Forget == phase' = [k \in Keys |-> "idle"]

Next ==
  \/ \E k \in Keys : Request(k) \/ Start(k) \/ Finish(k)
  \/ Forget

Fairness == \A k \in Keys : WF_phase(Start(k)) /\ WF_phase(Finish(k))

Safe == Init /\ [][Next]_phase

Spec == Safe /\ Fairness
===========================================================================
