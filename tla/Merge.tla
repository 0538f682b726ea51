------------------------------ MODULE Merge ------------------------------
(***************************************************************************)
(* What merging the CloudRoleBindings of one service account yields        *)
(* (merge.rs), as functions of the bindings that were listed.              *)
(*                                                                         *)
(* A binding is named by its place in the list the API server returns (it  *)
(* lists the objects of a namespace in the order of their names), so a     *)
(* list of bindings is a function from a set of numbers to their specs,    *)
(* visited in increasing order.  An AWS provider block and an entry of     *)
(* attributes.extra are opaque values; azure and gcp only ever count as    *)
(* "some other provider".  MergeLoop has the loop of the code, step by     *)
(* step, and shows that it computes MergeInputs.                           *)
(***************************************************************************)
EXTENDS Naturals, FiniteSets

CONSTANTS
  Names,       \* the bindings of the namespace, numbered in list order
  Roles,       \* the AWS provider blocks (role, audience, TTL)
  NoAws,       \* providers.aws is not set
  ExtraKeys,   \* keys of attributes.extra
  ExtraValues, \* their values
  Bodies       \* the binding specs considered

Provenance == {"unset", "true", "false"}   \* attributes.includeProvenance

\* The providers and attributes of a CloudRoleBindingSpec.
BindingSpec ==
  [aws   : Roles \union {NoAws},
   other : BOOLEAN,
   prov  : Provenance,
   extra : SUBSET (ExtraKeys \X ExtraValues)]

ASSUME NamesAssumption == Names \subseteq Nat /\ IsFiniteSet(Names)
ASSUME NoAwsAssumption == NoAws \notin Roles
ASSUME BodiesAssumption ==   \* attributes.extra is a map
  /\ Bodies \subseteq BindingSpec
  /\ \A b \in Bodies : \A d, e \in b.extra : d[1] = e[1] => d = e

\* Every list of bindings that reconcile can read.
Inputs == UNION {[S -> Bodies] : S \in SUBSET Names}

(***************************************************************************)
(* What is wrong with binding n, given the ones before it.                 *)
(***************************************************************************)
KeysOf(body) == {e[1] : e \in body.extra}

Before(inputs, n) == {m \in DOMAIN inputs : m < n}

NoProvider(inputs, n) == inputs[n].aws = NoAws /\ ~inputs[n].other

SecondAws(inputs, n) ==
  /\ inputs[n].aws # NoAws
  /\ \E m \in Before(inputs, n) : inputs[m].aws # NoAws

ProvenanceDiffers(inputs, n) ==
  /\ inputs[n].prov # "unset"
  /\ \E m \in Before(inputs, n) : inputs[m].prov \notin {"unset", inputs[n].prov}

ExtraKeyRepeats(inputs, n) ==
  \E m \in Before(inputs, n) : KeysOf(inputs[m]) \intersect KeysOf(inputs[n]) # {}

Bad(inputs, n) ==
  \/ NoProvider(inputs, n)
  \/ SecondAws(inputs, n)
  \/ ProvenanceDiffers(inputs, n)
  \/ ExtraKeyRepeats(inputs, n)

IsFirst(n, S) == n \in S /\ \A m \in S : n <= m

First(S) == CHOOSE n \in S : \A m \in S : n <= m

(***************************************************************************)
(* MergeIssue and the merged spec.                                         *)
(***************************************************************************)
Issue(type, reason, message, affected) ==
  [type |-> type, reason |-> reason, message |-> message, affected |-> affected]

NoProviderIssue(n) ==
  Issue("InvalidSpec", "ValidationFailed", "no provider block", {n})
SecondAwsIssue(m, n) ==
  Issue("Conflict", "ProviderConflict", "aws set twice", {m, n})
ProvenanceIssue(inputs) ==
  Issue("Conflict", "AttributeConflict", "includeProvenance differs", DOMAIN inputs)
ExtraKeyIssue(inputs) ==
  Issue("Conflict", "AttributeConflict", "duplicate extra key", DOMAIN inputs)
NoAwsIssue(inputs) ==
  Issue("InvalidSpec", "ValidationFailed", "no providers after merge", DOMAIN inputs)

\* The binding before n that sets aws.
AwsSetter(inputs, n) == CHOOSE m \in Before(inputs, n) : inputs[m].aws # NoAws

\* The issue the loop returns at the first bad binding: the checks are made
\* in this order, and a second aws block blames the binding that set the first.
IssueAt(inputs, n) ==
  IF NoProvider(inputs, n) THEN NoProviderIssue(n)
  ELSE IF SecondAws(inputs, n) THEN SecondAwsIssue(AwsSetter(inputs, n), n)
  ELSE IF ProvenanceDiffers(inputs, n) THEN ProvenanceIssue(inputs)
  ELSE ExtraKeyIssue(inputs)

Failure(issue) == [ok |-> FALSE, issue |-> issue]
Success(spec) == [ok |-> TRUE, spec |-> spec]

\* The merged spec; provenance is included unless some binding says not to.
MergedSpec(aws, prov, extra) ==
  [aws |-> aws, prov |-> IF prov = "unset" THEN "true" ELSE prov, extra |-> extra]

\* Some binding that sets aws, or includeProvenance.
SettingAws(inputs) == CHOOSE n \in DOMAIN inputs : inputs[n].aws # NoAws
SettingProv(inputs) == CHOOSE n \in DOMAIN inputs : inputs[n].prov # "unset"

AwsOf(inputs) ==
  IF \E n \in DOMAIN inputs : inputs[n].aws # NoAws
  THEN inputs[SettingAws(inputs)].aws ELSE NoAws

ProvOf(inputs) ==
  IF \E n \in DOMAIN inputs : inputs[n].prov # "unset"
  THEN inputs[SettingProv(inputs)].prov ELSE "unset"

ExtraOf(inputs) == UNION {inputs[n].extra : n \in DOMAIN inputs}

BadOnes(inputs) == {n \in DOMAIN inputs : Bad(inputs, n)}

\* merge_inputs
MergeInputs(inputs) ==
  IF BadOnes(inputs) # {} THEN Failure(IssueAt(inputs, First(BadOnes(inputs))))
  ELSE IF AwsOf(inputs) = NoAws THEN Failure(NoAwsIssue(inputs))
  ELSE Success(MergedSpec(AwsOf(inputs), ProvOf(inputs), ExtraOf(inputs)))

(***************************************************************************)
(* The objects built from the result.                                      *)
(***************************************************************************)
\* The SHA-256 of the merged spec's JSON: different specs, different hashes.
ConfigHash(spec) == [sha256 |-> spec]
NoHash == [sha256 |-> "none"]

\* ResolvedCloudRoleBindingSpec with no providers and no attributes.
EmptySpec == [aws |-> NoAws, prov |-> "unset", extra |-> {}]

\* build_resolved_from_spec and build_failed_resolved; the sources are the
\* bindings that were listed.
Resolved(spec, sources) ==
  [spec   |-> spec,
   status |-> [ready |-> TRUE, reason |-> "Validated", message |-> "resolved and validated",
               hash |-> ConfigHash(spec), sources |-> sources]]
FailedResolved(issue, sources) ==
  [spec   |-> EmptySpec,
   status |-> [ready |-> FALSE, reason |-> issue.reason, message |-> issue.message,
               hash |-> NoHash, sources |-> sources]]

\* The ResolvedCloudRoleBinding that reconcile upserts for a list of bindings.
Outcome(inputs) ==
  LET merged == MergeInputs(inputs) IN
  IF merged.ok THEN Resolved(merged.spec, DOMAIN inputs)
  ELSE FailedResolved(merged.issue, DOMAIN inputs)

\* The bindings whose status reconcile writes: all of them on success, the
\* affected ones on failure.
Marked(inputs) ==
  LET merged == MergeInputs(inputs) IN
  IF merged.ok THEN DOMAIN inputs ELSE DOMAIN inputs \intersect merged.issue.affected

\* build_crb_status: the Ready condition, and the condition that is true
\* besides it (on success Conflict and InvalidSpec are cleared).
CrbStatus(inputs) ==
  LET merged == MergeInputs(inputs) IN
  IF merged.ok THEN [ready |-> TRUE, problem |-> "none", message |-> "validated"]
  ELSE [ready |-> FALSE, problem |-> merged.issue.type, message |-> merged.issue.message]

NoCrbStatus == [ready |-> FALSE, problem |-> "none", message |-> "no status"]

(***************************************************************************)
(* When a set of bindings should merge, with no order among them.          *)
(***************************************************************************)
Mergeable(inputs) ==
  /\ \A n \in DOMAIN inputs : inputs[n].aws # NoAws \/ inputs[n].other
  /\ \E n \in DOMAIN inputs : inputs[n].aws # NoAws
  /\ \A m, n \in DOMAIN inputs : m # n =>
       /\ NoAws \in {inputs[m].aws, inputs[n].aws}
       /\ "unset" \in {inputs[m].prov, inputs[n].prov} \/ inputs[m].prov = inputs[n].prov
       /\ KeysOf(inputs[m]) \intersect KeysOf(inputs[n]) = {}

Only(inputs, S) == [n \in DOMAIN inputs \intersect S |-> inputs[n]]
==========================================================================
