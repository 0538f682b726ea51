------------------------------ MODULE Upsert ------------------------------
(***************************************************************************)
(* What everyone but the controller may rely on about the                  *)
(* ResolvedCloudRoleBinding of one service account: a replica of the       *)
(* webhook writes it in two requests, the spec and then the status of one  *)
(* outcome, one outcome at a time, and the second request may never come   *)
(* (upsert_resolved in merge.rs, called by at most one worker per service  *)
(* account in each replica); replicas do not wait for one another.         *)
(* Reconcile shows that the controller does no more than this; Workload    *)
(* builds on it what admission and the federation service make of the      *)
(* object.                                                                 *)
(***************************************************************************)
CONSTANTS
  Writers,   \* the replicas of the webhook
  Outcomes,  \* what a merge can come to: records of a spec and a status
  Absent     \* an object that does not exist, a field never written

VARIABLES
  resolved,  \* the object: its spec and status
  writing    \* writing[v]: the outcome whose status v has still to write, or Absent

upsertVars == <<resolved, writing>>

Init ==
  /\ resolved = [spec |-> Absent, status |-> Absent]
  /\ writing = [v \in Writers |-> Absent]

\* api.patch: creates the object, or replaces its spec and leaves its status.
PatchSpec(v, o) ==
  /\ writing[v] = Absent
  /\ resolved' = [resolved EXCEPT !.spec = o.spec]
  /\ writing' = [writing EXCEPT ![v] = o]

\* api.patch_status
PatchStatus(v) ==
  /\ writing[v] # Absent
  /\ resolved' = [resolved EXCEPT !.status = writing[v].status]
  /\ writing' = [writing EXCEPT ![v] = Absent]

\* The request fails, or the process ends before it.
Abandon(v) ==
  /\ writing[v] # Absent
  /\ writing' = [writing EXCEPT ![v] = Absent]
  /\ UNCHANGED resolved

Next ==
  \E v \in Writers :
    (\E o \in Outcomes : PatchSpec(v, o)) \/ PatchStatus(v) \/ Abandon(v)

Step == [Next]_upsertVars

Spec == Init /\ [][Next]_upsertVars
===========================================================================
