------------------------------ MODULE Claims ------------------------------
(***************************************************************************)
(* What a token says (AwsClaims in jwt.rs, and the end of mint in http.rs  *)
(* of kif-federation), of the configuration that merging yields: the last  *)
(* part of the way from the users' CloudRoleBindings to the cloud.         *)
(*                                                                         *)
(* Audience and lifetime are part of the AWS block, which is an opaque     *)
(* value here as in Merge; the times of a token are in Refresh.            *)
(***************************************************************************)
EXTENDS MergeLoop

CONSTANT NoClaim   \* a claim that is left out

ASSUME NoClaimAssumption == NoClaim # <<"subject", "pod">>

\* Attributes without includeProvenance include it.
IncludesProvenance(spec) == spec.prov # "false"

\* (has the claims of kif only with provenance)
AwsClaimsWithProvenance(spec, subject, pod) ==
  [sub |-> subject,
   aws |-> spec.aws,
   k8s |-> IF IncludesProvenance(spec) THEN <<subject, pod>> ELSE NoClaim,
   attributes |-> IF spec.extra # {} /\ IncludesProvenance(spec) THEN spec.extra ELSE NoClaim]

\* Namespace, service account and pod if provenance is included; the extra
\* attributes if there are any, whether or not it is.
AwsClaims(spec, subject, pod) ==
  [sub |-> subject,
   aws |-> spec.aws,
   k8s |-> IF IncludesProvenance(spec) THEN <<subject, pod>> ELSE NoClaim,
   attributes |-> IF spec.extra # {} THEN spec.extra ELSE NoClaim]

(***************************************************************************)
(* Property.                                                               *)
(***************************************************************************)
\* A token has the audience and lifetime of the one binding that sets an AWS
\* block, names the pod unless some binding says not to, and has every extra
\* attribute of every binding, and no other (attributes of crds.rs).
TokenCarriesBindings ==
  result # <<>> /\ result[1].ok =>
    LET claims == AwsClaims(result[1].spec, "subject", "pod") IN
    /\ \A n \in DOMAIN inputs : inputs[n].aws \in {NoAws, claims.aws}
    /\ claims.k8s = NoClaim <=> \E n \in DOMAIN inputs : inputs[n].prov = "false"
    /\ IF \A n \in DOMAIN inputs : inputs[n].extra = {}
       THEN claims.attributes = NoClaim
       ELSE claims.attributes = UNION {inputs[n].extra : n \in DOMAIN inputs}
===========================================================================
