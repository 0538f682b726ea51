---------------------------- MODULE MergeLoop ----------------------------
(***************************************************************************)
(* The loop of merge_inputs (merge.rs): one step per binding, in list      *)
(* order, with the early returns of its body, and the two ends after it.   *)
(***************************************************************************)
EXTENDS Merge

VARIABLES
  inputs,       \* the bindings of the service account, as listed
  todo,         \* those the loop has not visited
  aws,          \* the aws block seen, or NoAws
  aws_set_by,   \* the binding it came from (0 while there is none)
  include_prov, \* the includeProvenance seen, or "unset"
  extra,        \* the extra entries seen
  result        \* <<>> until the function returns, then <<what it returned>>

acc == <<aws, aws_set_by, include_prov, extra>>
vars == <<inputs, todo, aws, aws_set_by, include_prov, extra, result>>

Init ==
  /\ inputs \in Inputs
  /\ todo = DOMAIN inputs
  /\ aws = NoAws
  /\ aws_set_by = 0
  /\ include_prov = "unset"
  /\ extra = {}
  /\ result = <<>>

Running(n) == result = <<>> /\ IsFirst(n, todo)

Return(r) == result' = <<r>> /\ UNCHANGED <<inputs, todo, acc>>

(***************************************************************************)
(* The checks of the loop's body, against what was accumulated.            *)
(***************************************************************************)
Provides(n) == inputs[n].aws # NoAws \/ inputs[n].other
AwsClash(n) == inputs[n].aws # NoAws /\ aws # NoAws
ProvClash(n) ==
  /\ inputs[n].prov # "unset"
  /\ include_prov # "unset"
  /\ include_prov # inputs[n].prov
\* (never finds one)
KeyClashNever(n) == FALSE

KeyClash(n) == \E e \in extra : e[1] \in KeysOf(inputs[n])

RejectNoProvider(n) ==
  /\ Running(n)
  /\ ~Provides(n)
  /\ Return(Failure(NoProviderIssue(n)))

\* (blames the second of the two only)
RejectSecondAwsBlaming(n) ==
  /\ Running(n)
  /\ Provides(n) /\ AwsClash(n)
  /\ Return(Failure(SecondAwsIssue(n, n)))

RejectSecondAws(n) ==
  /\ Running(n)
  /\ Provides(n) /\ AwsClash(n)
  /\ Return(Failure(SecondAwsIssue(aws_set_by, n)))

RejectProvenance(n) ==
  /\ Running(n)
  /\ Provides(n) /\ ~AwsClash(n) /\ ProvClash(n)
  /\ Return(Failure(ProvenanceIssue(inputs)))

RejectExtraKey(n) ==
  /\ Running(n)
  /\ Provides(n) /\ ~AwsClash(n) /\ ~ProvClash(n) /\ KeyClash(n)
  /\ Return(Failure(ExtraKeyIssue(inputs)))

\* (remembers the last value, set or not)
AbsorbForgets(n) ==
  /\ Running(n)
  /\ Provides(n) /\ ~AwsClash(n) /\ ~ProvClash(n) /\ ~KeyClash(n)
  /\ aws' = IF inputs[n].aws # NoAws THEN inputs[n].aws ELSE aws
  /\ aws_set_by' = IF inputs[n].aws # NoAws THEN n ELSE aws_set_by
  /\ include_prov' = inputs[n].prov
  /\ extra' = extra \union inputs[n].extra
  /\ todo' = todo \ {n}
  /\ UNCHANGED <<inputs, result>>

\* No check fails: the binding is added to what was accumulated.
Absorb(n) ==
  /\ Running(n)
  /\ Provides(n) /\ ~AwsClash(n) /\ ~ProvClash(n) /\ ~KeyClash(n)
  /\ aws' = IF inputs[n].aws # NoAws THEN inputs[n].aws ELSE aws
  /\ aws_set_by' = IF inputs[n].aws # NoAws THEN n ELSE aws_set_by
  /\ include_prov' = IF include_prov = "unset" THEN inputs[n].prov ELSE include_prov
  /\ extra' = extra \union inputs[n].extra
  /\ todo' = todo \ {n}
  /\ UNCHANGED <<inputs, result>>

\* After the loop: only AWS counts for now.
FinishWithoutAws ==
  /\ result = <<>> /\ todo = {}
  /\ aws = NoAws
  /\ Return(Failure(NoAwsIssue(inputs)))

Finish ==
  /\ result = <<>> /\ todo = {}
  /\ aws # NoAws
  /\ Return(Success(MergedSpec(aws, include_prov, extra)))

Next ==
  \/ \E n \in Names :
       \/ RejectNoProvider(n) \/ RejectSecondAws(n)
       \/ RejectProvenance(n) \/ RejectExtraKey(n)
       \/ Absorb(n)
  \/ FinishWithoutAws
  \/ Finish

Spec == Init /\ [][Next]_vars

(***************************************************************************)
(* Properties.                                                             *)
(***************************************************************************)
\* Types; aws and aws_set_by are set together.
TypeOK ==
  /\ inputs \in Inputs
  /\ todo \subseteq DOMAIN inputs
  /\ aws \in Roles \union {NoAws}
  /\ aws_set_by \in Names \union {0}
  /\ aws # NoAws => aws_set_by \in DOMAIN inputs \ todo
  /\ include_prov \in Provenance
  /\ extra \subseteq ExtraKeys \X ExtraValues

\* The loop, which stops at its first complaint and only remembers what it
\* accumulated, returns what MergeInputs says of the whole list: the other
\* modules may use MergeInputs for merge_inputs.
ReturnsMerge == result # <<>> => result[1] = MergeInputs(inputs)

\* The order in which bindings are listed (their names) decides only which
\* issue is reported, never whether there is one (merge_inputs).
AcceptsMergeable == result # <<>> => (result[1].ok <=> Mergeable(inputs))

\* A merged configuration is the one role, every extra entry and the agreed
\* provenance of the bindings it came from, and nothing else (merge_inputs).
MergesEverything ==
  result # <<>> /\ result[1].ok =>
    LET spec == result[1].spec IN
    /\ \E n \in DOMAIN inputs : inputs[n].aws = spec.aws /\ spec.aws # NoAws
    /\ spec.extra = ExtraOf(inputs)
    /\ \A n \in DOMAIN inputs : inputs[n].prov \in {"unset", spec.prov}
    /\ spec.prov = "false" => \E n \in DOMAIN inputs : inputs[n].prov = "false"

\* The bindings an issue marks are enough to cause it, and changing others alone
\* does not help: of the listed bindings no selection merges that has all the
\* marked ones, so that it is not enough to mark none, or one that is not at
\* fault (affected_crb_names).
BlameSuffices ==
  result # <<>> /\ ~result[1].ok =>
    LET blamed == result[1].issue.affected IN
    /\ blamed \subseteq DOMAIN inputs
    /\ \A S \in SUBSET DOMAIN inputs : blamed \subseteq S => ~Mergeable(Only(inputs, S))
==========================================================================
