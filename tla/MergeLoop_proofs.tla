------------------------- MODULE MergeLoop_proofs -------------------------
(***************************************************************************)
(* Proofs about merge_inputs for any bindings: the loop computes           *)
(* MergeInputs, which accepts exactly the mergeable lists, blames enough   *)
(* of the others, and yields what a token then says.                       *)
(***************************************************************************)
EXTENDS Claims, TLAPS

(***************************************************************************)
(* The loop invariant: what was accumulated stands for the bindings seen,  *)
(* and none of them is bad.                                                *)
(***************************************************************************)
Seen == DOMAIN inputs \ todo

Accumulated ==
  /\ \A m \in Seen, n \in todo : m < n
  /\ \A m \in Seen : ~Bad(inputs, m)
  /\ aws = NoAws => \A m \in Seen : inputs[m].aws = NoAws
  /\ aws # NoAws => aws_set_by \in Seen /\ inputs[aws_set_by].aws = aws
  /\ \A m \in Seen : inputs[m].prov \in {"unset", include_prov}
  /\ include_prov # "unset" => \E m \in Seen : inputs[m].prov = include_prov
  /\ extra = UNION {inputs[m].extra : m \in Seen}

LInv == TypeOK /\ Accumulated

\* What a list of bindings consists of.
LEMMA InputsType ==
  ASSUME NEW i \in Inputs
  PROVE  /\ DOMAIN i \subseteq Names
         /\ \A n \in DOMAIN i : /\ n \in Nat
                                /\ i[n] \in Bodies
                                /\ i[n].aws \in Roles \union {NoAws}
                                /\ i[n].other \in BOOLEAN
                                /\ i[n].prov \in Provenance
                                /\ i[n].extra \subseteq ExtraKeys \X ExtraValues
<1>1. PICK S \in SUBSET Names : i \in [S -> Bodies]
  BY DEF Inputs
<1>2. QED
  BY <1>1, NamesAssumption, BodiesAssumption DEF BindingSpec

\* In a list with no bad binding at or before some place, at most one of the
\* bindings there sets aws (the reason why aws_set_by is enough).
LEMMA OneAws ==
  ASSUME NEW i \in Inputs, NEW m \in DOMAIN i, NEW n \in DOMAIN i,
         ~Bad(i, m), ~Bad(i, n), i[m].aws # NoAws, i[n].aws # NoAws
  PROVE  m = n
<1>1. m \in Nat /\ n \in Nat
  BY InputsType
<1>2. ~SecondAws(i, m) /\ ~SecondAws(i, n)
  BY DEF Bad
<1>3. ~(m < n) /\ ~(n < m)
  BY <1>2 DEF SecondAws, Before
<1>4. QED
  BY <1>1, <1>3

(***************************************************************************)
(* At the binding the loop visits, its checks against what it accumulated  *)
(* are those of Merge against the bindings before.                         *)
(***************************************************************************)
LEMMA ChecksAgree ==
  ASSUME LInv, NEW n \in Names, Running(n)
  PROVE  /\ n \in DOMAIN inputs
         /\ Before(inputs, n) = Seen
         /\ Provides(n) <=> ~NoProvider(inputs, n)
         /\ AwsClash(n) <=> SecondAws(inputs, n)
         /\ ProvClash(n) <=> ProvenanceDiffers(inputs, n)
         /\ KeyClash(n) <=> ExtraKeyRepeats(inputs, n)
<1>0. inputs \in Inputs /\ todo \subseteq DOMAIN inputs /\ Accumulated
  BY DEF LInv, TypeOK
<1>1. n \in DOMAIN inputs /\ n \in todo
  BY <1>0 DEF Running, IsFirst
<1>2. Before(inputs, n) = Seen
  BY <1>0, <1>1, InputsType DEF Before, Seen, Running, IsFirst, Accumulated
<1>3. Provides(n) <=> ~NoProvider(inputs, n)
  BY <1>0, <1>1, InputsType DEF Provides, NoProvider
<1>4. AwsClash(n) <=> SecondAws(inputs, n)
  BY <1>0, <1>1, <1>2 DEF AwsClash, SecondAws, Accumulated
<1>5. ProvClash(n) <=> ProvenanceDiffers(inputs, n)
  BY <1>0, <1>1, <1>2 DEF ProvClash, ProvenanceDiffers, Accumulated
<1>6. KeyClash(n) <=> ExtraKeyRepeats(inputs, n)
  <2>1. \A e : e \in extra <=> \E m \in Seen : e \in inputs[m].extra
    BY <1>0 DEF Accumulated
  <2>2. ExtraKeyRepeats(inputs, n) <=>
          \E m \in Seen : \E e \in inputs[m].extra : e[1] \in KeysOf(inputs[n])
    BY <1>2 DEF ExtraKeyRepeats, KeysOf
  <2> QED
    BY <2>1, <2>2 DEF KeyClash
<1>7. QED
  BY <1>1, <1>2, <1>3, <1>4, <1>5, <1>6

LEMMA InitLInv == Init => LInv
<1> SUFFICES ASSUME Init PROVE LInv
  OBVIOUS
<1>1. TypeOK
  BY DEF Init, TypeOK, Provenance
<1>2. Seen = {}
  BY DEF Init, Seen
<1>3. Accumulated
  BY <1>2 DEF Init, Accumulated
<1>4. QED
  BY <1>1, <1>3 DEF LInv

LEMMA AbsorbLInv == ASSUME LInv, NEW n \in Names, Absorb(n) PROVE LInv'
<1>0. /\ inputs \in Inputs /\ todo \subseteq DOMAIN inputs
      /\ Accumulated /\ Running(n)
      /\ inputs' = inputs /\ todo' = todo \ {n}
  BY DEF LInv, TypeOK, Absorb
<1>1. /\ n \in DOMAIN inputs /\ n \in todo /\ Before(inputs, n) = Seen
      /\ ~Bad(inputs, n)
  BY <1>0, ChecksAgree DEF Absorb, Bad, Running, IsFirst
<1>2. Seen' = Seen \union {n}
  BY <1>0, <1>1 DEF Seen
<1>3. /\ n \in Nat /\ inputs[n].aws \in Roles \union {NoAws}
      /\ inputs[n].prov \in Provenance
      /\ inputs[n].extra \subseteq ExtraKeys \X ExtraValues
      /\ \A m \in todo : m \in Nat
  BY <1>0, <1>1, InputsType
<1>4. TypeOK'
  BY <1>0, <1>1, <1>3 DEF LInv, TypeOK, Absorb, Provenance
<1>5. Accumulated'
  <2>1. \A m \in Seen', k \in todo' : m < k
    BY <1>0, <1>1, <1>2, <1>3 DEF Accumulated, Running, IsFirst
  <2>2. \A m \in Seen' : ~Bad(inputs, m)
    BY <1>0, <1>1, <1>2 DEF Accumulated
  <2>3. /\ aws' = NoAws => \A m \in Seen' : inputs[m].aws = NoAws
        /\ aws' # NoAws => aws_set_by' \in Seen' /\ inputs[aws_set_by'].aws = aws'
    BY <1>0, <1>2 DEF Accumulated, Absorb
  <2>4. /\ \A m \in Seen' : inputs[m].prov \in {"unset", include_prov'}
        /\ include_prov' # "unset" => \E m \in Seen' : inputs[m].prov = include_prov'
    BY <1>0, <1>2 DEF Accumulated, Absorb, ProvClash
  <2>5. extra' = UNION {inputs[m].extra : m \in Seen'}
    BY <1>0, <1>2 DEF Accumulated, Absorb
  <2>6. QED
    BY <1>0, <2>1, <2>2, <2>3, <2>4, <2>5 DEF Accumulated
<1>6. QED
  BY <1>4, <1>5 DEF LInv

\* Returning changes nothing the invariant speaks of.
LEMMA StableLInv == ASSUME LInv, UNCHANGED <<inputs, todo, acc>> PROVE LInv'
  BY DEF LInv, TypeOK, Accumulated, Seen, acc

LEMMA StepLInv == LInv /\ [Next]_vars => LInv'
<1> SUFFICES ASSUME LInv, [Next]_vars PROVE LInv'
  OBVIOUS
<1>1. ASSUME NEW n \in Names, Absorb(n) PROVE LInv'
  BY <1>1, AbsorbLInv
<1>2. ASSUME NEW n \in Names,
             \/ RejectNoProvider(n) \/ RejectSecondAws(n)
             \/ RejectProvenance(n) \/ RejectExtraKey(n)
      PROVE  UNCHANGED <<inputs, todo, acc>>
  BY <1>2 DEF RejectNoProvider, RejectSecondAws, RejectProvenance, RejectExtraKey, Return
<1>3. ASSUME FinishWithoutAws \/ Finish \/ UNCHANGED vars
      PROVE  UNCHANGED <<inputs, todo, acc>>
  BY <1>3 DEF FinishWithoutAws, Finish, Return, vars, acc
<1>4. QED
  BY <1>1, <1>2, <1>3, StableLInv DEF Next

(***************************************************************************)
(* What the function returns.                                              *)
(***************************************************************************)
\* The binding at which the loop returns is the first bad one.
LEMMA StopsAtFirstBad ==
  ASSUME LInv, NEW n \in Names, Running(n), Bad(inputs, n)
  PROVE  BadOnes(inputs) # {} /\ First(BadOnes(inputs)) = n
<1>0. inputs \in Inputs /\ todo \subseteq DOMAIN inputs /\ Accumulated
  BY DEF LInv, TypeOK
<1>1. n \in DOMAIN inputs /\ n \in BadOnes(inputs)
  BY ChecksAgree DEF BadOnes
<1>2. \A m \in BadOnes(inputs) : m \in todo
  BY <1>0 DEF BadOnes, Accumulated, Seen
<1>3. \A m \in BadOnes(inputs) : n <= m /\ m \in Nat
  BY <1>0, <1>2, InputsType DEF Running, IsFirst
<1>4. First(BadOnes(inputs)) \in BadOnes(inputs)
      /\ \A m \in BadOnes(inputs) : First(BadOnes(inputs)) <= m
  BY <1>1, <1>3 DEF First
<1>5. QED
  BY <1>0, <1>1, <1>3, <1>4, InputsType

LEMMA RejectReturnsMerge ==
  ASSUME LInv, NEW n \in Names,
         \/ RejectNoProvider(n) \/ RejectSecondAws(n)
         \/ RejectProvenance(n) \/ RejectExtraKey(n)
  PROVE  ReturnsMerge'
<1>0. /\ inputs \in Inputs /\ Accumulated /\ Running(n) /\ inputs' = inputs
  BY DEF LInv, TypeOK, RejectNoProvider, RejectSecondAws, RejectProvenance,
         RejectExtraKey, Return
<1>1. /\ Provides(n) <=> ~NoProvider(inputs, n)
      /\ AwsClash(n) <=> SecondAws(inputs, n)
      /\ ProvClash(n) <=> ProvenanceDiffers(inputs, n)
      /\ KeyClash(n) <=> ExtraKeyRepeats(inputs, n)
      /\ Before(inputs, n) = Seen
  BY <1>0, ChecksAgree
<1>2. Bad(inputs, n)
  BY <1>1 DEF Bad, RejectNoProvider, RejectSecondAws, RejectProvenance, RejectExtraKey
<1>3. MergeInputs(inputs) = Failure(IssueAt(inputs, n))
  BY <1>0, <1>2, StopsAtFirstBad DEF MergeInputs
<1>4. result' = <<Failure(IssueAt(inputs, n))>>
  <2>1. CASE RejectNoProvider(n)
    BY <2>1, <1>1 DEF RejectNoProvider, Return, IssueAt
  <2>2. CASE RejectSecondAws(n)
    <3>1. ~NoProvider(inputs, n) /\ SecondAws(inputs, n) /\ aws # NoAws
      BY <2>2, <1>1 DEF RejectSecondAws, AwsClash
    <3>2. aws_set_by \in Seen /\ inputs[aws_set_by].aws # NoAws
      BY <1>0, <3>1 DEF Accumulated
    <3>3. \A m \in Seen : inputs[m].aws # NoAws => m = aws_set_by
      BY <1>0, <3>2, OneAws DEF Accumulated, Seen
    <3>4. AwsSetter(inputs, n) = aws_set_by
      <4>1. \E m \in Before(inputs, n) : inputs[m].aws # NoAws
        BY <1>1, <3>2
      <4>2. /\ AwsSetter(inputs, n) \in Before(inputs, n)
            /\ inputs[AwsSetter(inputs, n)].aws # NoAws
        BY <4>1, Zenon DEF AwsSetter
      <4>3. QED
        BY <1>1, <3>3, <4>2
    <3>5. QED
      BY <2>2, <3>1, <3>4 DEF RejectSecondAws, Return, IssueAt
  <2>3. CASE RejectProvenance(n)
    BY <2>3, <1>1 DEF RejectProvenance, Return, IssueAt
  <2>4. CASE RejectExtraKey(n)
    BY <2>4, <1>1 DEF RejectExtraKey, Return, IssueAt
  <2>5. QED
    BY <2>1, <2>2, <2>3, <2>4
<1>5. QED
  BY <1>0, <1>3, <1>4 DEF ReturnsMerge

\* Whether some binding sets aws, and what AwsOf and ProvOf choose.
LEMMA Choices ==
  ASSUME NEW i \in Inputs
  PROVE  /\ AwsOf(i) # NoAws => \E n \in DOMAIN i : i[n].aws = AwsOf(i)
         /\ AwsOf(i) = NoAws => \A n \in DOMAIN i : i[n].aws = NoAws
         /\ ProvOf(i) # "unset" => \E n \in DOMAIN i : i[n].prov = ProvOf(i)
         /\ ProvOf(i) = "unset" => \A n \in DOMAIN i : i[n].prov = "unset"
<1> DEFINE AwsChosen ==
             /\ AwsOf(i) # NoAws => \E n \in DOMAIN i : i[n].aws = AwsOf(i)
             /\ AwsOf(i) = NoAws => \A n \in DOMAIN i : i[n].aws = NoAws
<1> DEFINE ProvChosen ==
             /\ ProvOf(i) # "unset" => \E n \in DOMAIN i : i[n].prov = ProvOf(i)
             /\ ProvOf(i) = "unset" => \A n \in DOMAIN i : i[n].prov = "unset"
<1>1. AwsChosen
  <2>1. CASE \E n \in DOMAIN i : i[n].aws # NoAws
    <3>1. SettingAws(i) \in DOMAIN i /\ i[SettingAws(i)].aws # NoAws
      BY <2>1, Zenon DEF SettingAws
    <3>2. AwsOf(i) = i[SettingAws(i)].aws
      BY <2>1 DEF AwsOf
    <3>3. QED
      BY <3>1, <3>2
  <2>2. CASE ~\E n \in DOMAIN i : i[n].aws # NoAws
    BY <2>2 DEF AwsOf
  <2>3. QED
    BY <2>1, <2>2
<1>2. ProvChosen
  <2>1. CASE \E n \in DOMAIN i : i[n].prov # "unset"
    <3>1. SettingProv(i) \in DOMAIN i /\ i[SettingProv(i)].prov # "unset"
      BY <2>1, Zenon DEF SettingProv
    <3>2. ProvOf(i) = i[SettingProv(i)].prov
      BY <2>1 DEF ProvOf
    <3>3. QED
      BY <3>1, <3>2
  <2>2. CASE ~\E n \in DOMAIN i : i[n].prov # "unset"
    BY <2>2 DEF ProvOf
  <2>3. QED
    BY <2>1, <2>2
<1>3. QED
  BY <1>1, <1>2

LEMMA FinishReturnsMerge ==
  ASSUME LInv, FinishWithoutAws \/ Finish
  PROVE  ReturnsMerge'
<1>0. /\ inputs \in Inputs /\ Accumulated /\ inputs' = inputs
      /\ todo = {} /\ Seen = DOMAIN inputs
  BY DEF LInv, TypeOK, FinishWithoutAws, Finish, Return, Seen
<1>1. BadOnes(inputs) = {}
  BY <1>0 DEF BadOnes, Accumulated
<1>2. AwsOf(inputs) = aws
  <2>1. CASE aws = NoAws
    BY <2>1, <1>0, Choices DEF Accumulated
  <2>2. CASE aws # NoAws
    <3>1. aws_set_by \in DOMAIN inputs /\ inputs[aws_set_by].aws = aws
      BY <2>2, <1>0 DEF Accumulated
    <3>2. \A m \in DOMAIN inputs : inputs[m].aws # NoAws => m = aws_set_by
      BY <2>2, <1>0, <3>1, OneAws DEF Accumulated
    <3>3. QED
      BY <2>2, <1>0, <3>1, <3>2, Choices
  <2>3. QED
    BY <2>1, <2>2
<1>3. ProvOf(inputs) = include_prov
  BY <1>0, Choices DEF Accumulated
<1>4. ExtraOf(inputs) = extra
  BY <1>0 DEF Accumulated, ExtraOf
<1>5. QED
  BY <1>0, <1>1, <1>2, <1>3, <1>4
  DEF FinishWithoutAws, Finish, Return, ReturnsMerge, MergeInputs

LEMMA StepReturnsMerge == LInv /\ ReturnsMerge /\ [Next]_vars => ReturnsMerge'
<1> SUFFICES ASSUME LInv, ReturnsMerge, [Next]_vars PROVE ReturnsMerge'
  OBVIOUS
<1>1. ASSUME NEW n \in Names, Absorb(n) PROVE ReturnsMerge'
  BY <1>1 DEF Absorb, Running, ReturnsMerge
<1>2. ASSUME NEW n \in Names,
             \/ RejectNoProvider(n) \/ RejectSecondAws(n)
             \/ RejectProvenance(n) \/ RejectExtraKey(n)
      PROVE  ReturnsMerge'
  BY <1>2, RejectReturnsMerge
<1>3. CASE FinishWithoutAws \/ Finish
  BY <1>3, FinishReturnsMerge
<1>4. CASE UNCHANGED vars
  BY <1>4 DEF vars, ReturnsMerge
<1>5. QED
  BY <1>1, <1>2, <1>3, <1>4 DEF Next

LEMMA AlwaysLoop == Spec => [](LInv /\ ReturnsMerge)
<1>1. Init => ReturnsMerge
  BY DEF Init, ReturnsMerge
<1>2. QED
  BY <1>1, InitLInv, StepLInv, StepReturnsMerge, PTL DEF Spec

\* For every list of bindings, of any length and over any roles and extra
\* entries, merge_inputs returns what MergeInputs says.
THEOREM LoopComputesMerge == Spec => []ReturnsMerge
  BY AlwaysLoop, PTL

(***************************************************************************)
(* What MergeInputs says, in terms that do not depend on the list order.   *)
(***************************************************************************)
\* No binding is bad exactly when every binding has a provider and no two of
\* them clash, whichever comes first.
LEMMA NoneBad ==
  ASSUME NEW i \in Inputs
  PROVE  BadOnes(i) = {} <=>
           /\ \A n \in DOMAIN i : i[n].aws # NoAws \/ i[n].other
           /\ \A m, n \in DOMAIN i : m # n =>
                /\ NoAws \in {i[m].aws, i[n].aws}
                /\ "unset" \in {i[m].prov, i[n].prov} \/ i[m].prov = i[n].prov
                /\ KeysOf(i[m]) \intersect KeysOf(i[n]) = {}
<1> DEFINE Apart(m, n) ==
             /\ NoAws \in {i[m].aws, i[n].aws}
             /\ "unset" \in {i[m].prov, i[n].prov} \/ i[m].prov = i[n].prov
             /\ KeysOf(i[m]) \intersect KeysOf(i[n]) = {}
<1>1. \A n \in DOMAIN i :
        ~Bad(i, n) <=> /\ i[n].aws # NoAws \/ i[n].other
                       /\ \A m \in Before(i, n) : Apart(m, n)
  BY DEF Bad, NoProvider, SecondAws, ProvenanceDiffers, ExtraKeyRepeats
<1>2. \A m, n \in DOMAIN i : Apart(m, n) <=> Apart(n, m)
  OBVIOUS
<1>3. \A m, n \in DOMAIN i : m # n => m \in Before(i, n) \/ n \in Before(i, m)
  BY InputsType DEF Before
<1>4. \A n \in DOMAIN i : \A m \in Before(i, n) : m \in DOMAIN i /\ m # n
  BY InputsType DEF Before
<1>5. BadOnes(i) = {} <=> \A n \in DOMAIN i : ~Bad(i, n)
  BY DEF BadOnes
<1> HIDE DEF Apart
<1>6. BadOnes(i) = {} <=>
        /\ \A n \in DOMAIN i : i[n].aws # NoAws \/ i[n].other
        /\ \A m, n \in DOMAIN i : m # n => Apart(m, n)
  BY <1>1, <1>2, <1>3, <1>4, <1>5
<1>7. QED
  BY <1>6 DEF Apart

LEMMA AcceptsIff == \A i \in Inputs : MergeInputs(i).ok <=> Mergeable(i)
<1> SUFFICES ASSUME NEW i \in Inputs PROVE MergeInputs(i).ok <=> Mergeable(i)
  OBVIOUS
<1>1. AwsOf(i) # NoAws <=> \E n \in DOMAIN i : i[n].aws # NoAws
  BY Choices
<1>2. MergeInputs(i).ok <=> BadOnes(i) = {} /\ AwsOf(i) # NoAws
  BY DEF MergeInputs, Failure, Success
<1>3. QED
  BY <1>1, <1>2, NoneBad DEF Mergeable

\* For every list of bindings merge_inputs succeeds exactly when they are
\* mergeable, which does not depend on their names or their order.
THEOREM LoopAcceptsMergeable == Spec => []AcceptsMergeable
<1>1. LInv /\ ReturnsMerge => AcceptsMergeable
  BY AcceptsIff DEF LInv, TypeOK, ReturnsMerge, AcceptsMergeable
<1>2. QED
  BY <1>1, AlwaysLoop, PTL

LEMMA MergedFromAll ==
  ASSUME NEW i \in Inputs, MergeInputs(i).ok
  PROVE  /\ \E n \in DOMAIN i : i[n].aws = MergeInputs(i).spec.aws
         /\ MergeInputs(i).spec.aws # NoAws
         /\ MergeInputs(i).spec.extra = ExtraOf(i)
         /\ \A n \in DOMAIN i : i[n].prov \in {"unset", MergeInputs(i).spec.prov}
         /\ MergeInputs(i).spec.prov = "false" =>
              \E n \in DOMAIN i : i[n].prov = "false"
<1>1. /\ BadOnes(i) = {} /\ AwsOf(i) # NoAws
      /\ MergeInputs(i).spec = MergedSpec(AwsOf(i), ProvOf(i), ExtraOf(i))
  BY DEF MergeInputs, Failure, Success
<1>2. \A n \in DOMAIN i : i[n].prov \in {"unset", ProvOf(i)}
  BY <1>1, NoneBad, Choices
<1>3. QED
  BY <1>1, <1>2, Choices DEF MergedSpec

\* For every list of bindings the merged spec is made of all of them and of
\* nothing else.
THEOREM LoopMergesEverything == Spec => []MergesEverything
<1>1. LInv /\ ReturnsMerge => MergesEverything
  <2> SUFFICES ASSUME LInv, ReturnsMerge, result # <<>>, result[1].ok
               PROVE  MergesEverything
    BY DEF MergesEverything
  <2>1. inputs \in Inputs /\ result[1] = MergeInputs(inputs)
    BY DEF LInv, TypeOK, ReturnsMerge
  <2>2. QED
    BY <2>1, MergedFromAll DEF MergesEverything
<1>2. QED
  BY <1>1, AlwaysLoop, PTL

(***************************************************************************)
(* The names of the bindings, and with them the order in which they are    *)
(* listed, decide which issue is reported and nothing else.                *)
(***************************************************************************)
\* The list j has the bindings of i under other names.
Renamed(i, j) ==
  \E f \in [DOMAIN i -> DOMAIN j] :
    /\ \A n \in DOMAIN i : j[f[n]] = i[n]
    /\ \A m, n \in DOMAIN i : m # n => f[m] # f[n]
    /\ \A l \in DOMAIN j : \E n \in DOMAIN i : f[n] = l

LEMMA RenamedStaysMergeable ==
  ASSUME NEW i \in Inputs, NEW j \in Inputs, Renamed(i, j)
  PROVE  Mergeable(i) <=> Mergeable(j)
<1> DEFINE Apart(a, b) ==
             /\ NoAws \in {a.aws, b.aws}
             /\ "unset" \in {a.prov, b.prov} \/ a.prov = b.prov
             /\ KeysOf(a) \intersect KeysOf(b) = {}
<1> DEFINE MayMerge(l) ==
             /\ \A n \in DOMAIN l : l[n].aws # NoAws \/ l[n].other
             /\ \E n \in DOMAIN l : l[n].aws # NoAws
             /\ \A m, n \in DOMAIN l : m # n => Apart(l[m], l[n])
<1>1. PICK f \in [DOMAIN i -> DOMAIN j] :
        /\ \A n \in DOMAIN i : j[f[n]] = i[n]
        /\ \A m, n \in DOMAIN i : m # n => f[m] # f[n]
        /\ \A l \in DOMAIN j : \E n \in DOMAIN i : f[n] = l
  BY DEF Renamed
<1>2. (Mergeable(i) <=> MayMerge(i)) /\ (Mergeable(j) <=> MayMerge(j))
  BY DEF Mergeable
<1> HIDE DEF Apart
<1>3. ASSUME MayMerge(i) PROVE MayMerge(j)
  BY <1>1, <1>3
<1>4. ASSUME MayMerge(j) PROVE MayMerge(i)
  BY <1>1, <1>4
<1> QED
  BY <1>2, <1>3, <1>4

\* What a mergeable list says is in its bindings: the one block, the one value
\* of includeProvenance, all extra entries.
LEMMA SameParts ==
  ASSUME NEW i \in Inputs, NEW j \in Inputs, Mergeable(j),
         \A n \in DOMAIN i : \E l \in DOMAIN j : j[l] = i[n],
         \A l \in DOMAIN j : \E n \in DOMAIN i : i[n] = j[l]
  PROVE  AwsOf(i) = AwsOf(j) /\ ProvOf(i) = ProvOf(j) /\ ExtraOf(i) = ExtraOf(j)
<1>1. \A l, m \in DOMAIN j : j[l].aws # NoAws /\ j[m].aws # NoAws => j[l].aws = j[m].aws
  BY DEF Mergeable
<1>2. \A l, m \in DOMAIN j : j[l].prov # "unset" /\ j[m].prov # "unset" => j[l].prov = j[m].prov
  BY DEF Mergeable
<1>3. AwsOf(i) = AwsOf(j)
  <2>1. /\ AwsOf(i) # NoAws => \E n \in DOMAIN i : i[n].aws = AwsOf(i)
        /\ AwsOf(i) = NoAws => \A n \in DOMAIN i : i[n].aws = NoAws
    BY Choices
  <2>2. /\ AwsOf(j) # NoAws => \E n \in DOMAIN j : j[n].aws = AwsOf(j)
        /\ AwsOf(j) = NoAws => \A n \in DOMAIN j : j[n].aws = NoAws
    BY Choices
  <2> QED
    BY <1>1, <2>1, <2>2
<1>4. ProvOf(i) = ProvOf(j)
  <2>1. /\ ProvOf(i) # "unset" => \E n \in DOMAIN i : i[n].prov = ProvOf(i)
        /\ ProvOf(i) = "unset" => \A n \in DOMAIN i : i[n].prov = "unset"
    BY Choices
  <2>2. /\ ProvOf(j) # "unset" => \E n \in DOMAIN j : j[n].prov = ProvOf(j)
        /\ ProvOf(j) = "unset" => \A n \in DOMAIN j : j[n].prov = "unset"
    BY Choices
  <2> QED
    BY <1>2, <2>1, <2>2
<1>5. ExtraOf(i) = ExtraOf(j)
  BY DEF ExtraOf
<1> QED
  BY <1>3, <1>4, <1>5

\* Renaming the bindings of a service account changes neither the spec nor the
\* hash of its ResolvedCloudRoleBinding, whether they merge or not: no pod that
\* was injected before has to restart for it (merge_inputs, config_hash).
THEOREM NamesAreIrrelevant ==
  ASSUME NEW i \in Inputs, NEW j \in Inputs, Renamed(i, j)
  PROVE  /\ Outcome(i).spec = Outcome(j).spec
         /\ Outcome(i).status.hash = Outcome(j).status.hash
         /\ Outcome(i).status.ready <=> Outcome(j).status.ready
<1>1. MergeInputs(i).ok <=> MergeInputs(j).ok
  BY AcceptsIff, RenamedStaysMergeable
<1>2. CASE MergeInputs(i).ok
  <2>1. /\ BadOnes(i) = {} /\ AwsOf(i) # NoAws /\ BadOnes(j) = {} /\ AwsOf(j) # NoAws
        /\ MergeInputs(i).spec = MergedSpec(AwsOf(i), ProvOf(i), ExtraOf(i))
        /\ MergeInputs(j).spec = MergedSpec(AwsOf(j), ProvOf(j), ExtraOf(j))
    BY <1>1, <1>2 DEF MergeInputs, Failure, Success
  <2>2. Mergeable(j)
    BY <1>1, <1>2, AcceptsIff
  <2>3. AwsOf(i) = AwsOf(j) /\ ProvOf(i) = ProvOf(j) /\ ExtraOf(i) = ExtraOf(j)
    <3>1. PICK f \in [DOMAIN i -> DOMAIN j] :
            /\ \A n \in DOMAIN i : j[f[n]] = i[n]
            /\ \A l \in DOMAIN j : \E n \in DOMAIN i : f[n] = l
      BY DEF Renamed
    <3>2. /\ \A n \in DOMAIN i : \E l \in DOMAIN j : j[l] = i[n]
          /\ \A l \in DOMAIN j : \E n \in DOMAIN i : i[n] = j[l]
      BY <3>1
    <3>3. QED
      BY <2>2, <3>2, SameParts
  <2>4. MergeInputs(i).spec = MergeInputs(j).spec
    BY <2>1, <2>3
  <2>5. /\ Outcome(i) = Resolved(MergeInputs(i).spec, DOMAIN i)
        /\ Outcome(j) = Resolved(MergeInputs(j).spec, DOMAIN j)
    BY <1>1, <1>2 DEF Outcome
  <2>6. \A spec, srcs : /\ Resolved(spec, srcs).spec = spec
                      /\ Resolved(spec, srcs).status.hash = ConfigHash(spec)
                      /\ Resolved(spec, srcs).status.ready
    BY DEF Resolved
  <2> QED
    BY <2>4, <2>5, <2>6
<1>3. CASE ~MergeInputs(i).ok
  <2>1. /\ Outcome(i) = FailedResolved(MergeInputs(i).issue, DOMAIN i)
        /\ Outcome(j) = FailedResolved(MergeInputs(j).issue, DOMAIN j)
    BY <1>1, <1>3 DEF Outcome
  <2> QED
    BY <2>1 DEF FailedResolved
<1> QED
  BY <1>2, <1>3

(***************************************************************************)
(* The bindings that are blamed.                                           *)
(***************************************************************************)
\* All bindings are enough to cause whatever is wrong with them.
LEMMA AllSuffice ==
  ASSUME NEW i \in Inputs, ~MergeInputs(i).ok
  PROVE  \A S \in SUBSET DOMAIN i : DOMAIN i \subseteq S => ~Mergeable(Only(i, S))
<1>1. \A S \in SUBSET DOMAIN i : DOMAIN i \subseteq S => Only(i, S) = i
  BY DEF Only, Inputs
<1>2. QED
  BY <1>1, AcceptsIff

LEMMA RejectBlames ==
  ASSUME LInv, NEW n \in Names, RejectNoProvider(n) \/ RejectSecondAws(n)
  PROVE  BlameSuffices'
<1>0. /\ inputs \in Inputs /\ Accumulated /\ Running(n) /\ inputs' = inputs
      /\ aws_set_by \in Names \union {0} /\ aws # NoAws => aws_set_by \in DOMAIN inputs \ todo
  BY DEF LInv, TypeOK, RejectNoProvider, RejectSecondAws, Return
<1>1. n \in DOMAIN inputs /\ n \in todo
  BY <1>0, ChecksAgree DEF Running, IsFirst
<1>2. CASE RejectNoProvider(n)
  <2>1. result'[1].issue.affected = {n}
    BY <1>2 DEF RejectNoProvider, Return, Failure, NoProviderIssue, Issue
  <2>2. \A S \in SUBSET DOMAIN inputs : Only(inputs, S) = [m \in S |-> inputs[m]]
    BY DEF Only
  <2>3. ASSUME NEW S \in SUBSET DOMAIN inputs, {n} \subseteq S
        PROVE  ~Mergeable(Only(inputs, S))
    BY <1>2, <2>2, <2>3 DEF Mergeable, RejectNoProvider, Provides
  <2>4. QED
    BY <1>0, <1>1, <2>1, <2>3 DEF BlameSuffices
<1>3. CASE RejectSecondAws(n)
  <2> DEFINE two == {aws_set_by, n}
  <2>1. result'[1].issue.affected = two
    BY <1>3 DEF RejectSecondAws, Return, Failure, SecondAwsIssue, Issue
  <2>2. /\ inputs[n].aws # NoAws /\ inputs[aws_set_by].aws # NoAws
        /\ aws_set_by \in DOMAIN inputs /\ aws_set_by # n
    BY <1>0, <1>1, <1>3 DEF RejectSecondAws, AwsClash, Accumulated, Seen
  <2>3. \A S \in SUBSET DOMAIN inputs : Only(inputs, S) = [m \in S |-> inputs[m]]
    BY DEF Only
  <2>4. ASSUME NEW S \in SUBSET DOMAIN inputs, two \subseteq S
        PROVE  ~Mergeable(Only(inputs, S))
    BY <2>2, <2>3, <2>4 DEF Mergeable
  <2>5. QED
    BY <1>0, <1>1, <2>1, <2>2, <2>4 DEF BlameSuffices
<1>4. QED
  BY <1>2, <1>3

LEMMA StepBlames ==
  LInv /\ ReturnsMerge' /\ BlameSuffices /\ [Next]_vars => BlameSuffices'
<1> SUFFICES ASSUME LInv, ReturnsMerge', BlameSuffices, [Next]_vars PROVE BlameSuffices'
  OBVIOUS
<1>0. inputs \in Inputs
  BY DEF LInv, TypeOK
<1>1. ASSUME NEW n \in Names, Absorb(n) PROVE BlameSuffices'
  BY <1>1 DEF Absorb, Running, BlameSuffices
<1>2. ASSUME NEW n \in Names, RejectNoProvider(n) \/ RejectSecondAws(n)
      PROVE  BlameSuffices'
  BY <1>2, RejectBlames
<1>3. /\ inputs' = inputs /\ result' # <<>>
      /\ ~result'[1].ok => result'[1].issue.affected = DOMAIN inputs
      => BlameSuffices'
  BY <1>0, AllSuffice DEF BlameSuffices, ReturnsMerge
<1>4. ASSUME NEW n \in Names, RejectProvenance(n) \/ RejectExtraKey(n)
      PROVE  BlameSuffices'
  <2>1. /\ inputs' = inputs
        /\ result' = <<Failure(ProvenanceIssue(inputs))>>
             \/ result' = <<Failure(ExtraKeyIssue(inputs))>>
    BY <1>4 DEF RejectProvenance, RejectExtraKey, Return
  <2>2. Failure(ProvenanceIssue(inputs)).issue.affected = DOMAIN inputs
    BY DEF Failure, ProvenanceIssue, Issue
  <2>3. Failure(ExtraKeyIssue(inputs)).issue.affected = DOMAIN inputs
    BY DEF Failure, ExtraKeyIssue, Issue
  <2>4. QED
    BY <1>3, <2>1, <2>2, <2>3
<1>5. CASE FinishWithoutAws \/ Finish
  <2>1. CASE FinishWithoutAws
    <3>1. inputs' = inputs /\ result' = <<Failure(NoAwsIssue(inputs))>>
      BY <2>1 DEF FinishWithoutAws, Return
    <3>2. result' # <<>> /\ result'[1].issue.affected = DOMAIN inputs
      BY <3>1 DEF Failure, NoAwsIssue, Issue
    <3>3. QED
      BY <1>3, <3>1, <3>2
  <2>2. CASE Finish
    <3>1. result' = <<Success(MergedSpec(aws, include_prov, extra))>>
      BY <2>2 DEF Finish, Return
    <3>2. result'[1].ok
      BY <3>1 DEF Success
    <3>3. QED
      BY <3>2 DEF BlameSuffices
  <2>3. QED
    BY <1>5, <2>1, <2>2
<1>6. CASE UNCHANGED vars
  BY <1>6 DEF vars, BlameSuffices
<1>7. QED
  BY <1>1, <1>2, <1>4, <1>5, <1>6 DEF Next

\* For every list of bindings that does not merge, those that merge_inputs
\* names in the issue (the bindings whose status will say so) merge neither by
\* themselves nor with any of the others.
THEOREM LoopBlamesEnough == Spec => []BlameSuffices
<1>1. Init => BlameSuffices
  BY DEF Init, BlameSuffices
<1>2. QED
  BY <1>1, StepBlames, AlwaysLoop, PTL DEF Spec

(***************************************************************************)
(* The claims.                                                             *)
(***************************************************************************)
\* For every list of bindings that merges, the claims of a token have the AWS
\* block of the one binding that sets it, provenance unless a binding says not
\* to, and every extra attribute.
THEOREM TokensCarryBindings == Spec => []TokenCarriesBindings
<1>1. LInv /\ ReturnsMerge => TokenCarriesBindings
  <2> SUFFICES ASSUME LInv, ReturnsMerge, result # <<>>, result[1].ok
               PROVE  TokenCarriesBindings
    BY DEF TokenCarriesBindings
  <2> DEFINE spec == MergeInputs(inputs).spec
             claims == AwsClaims(spec, "subject", "pod")
  <2>1. inputs \in Inputs /\ result[1] = MergeInputs(inputs) /\ MergeInputs(inputs).ok
    BY DEF LInv, TypeOK, ReturnsMerge
  <2>2. Mergeable(inputs)
    BY <2>1, AcceptsIff
  <2>3. \A n \in DOMAIN inputs : inputs[n].aws \in {NoAws, claims.aws}
    BY <2>1, <2>2, MergedFromAll DEF Mergeable, AwsClaims
  <2>4. claims.k8s = NoClaim <=> \E n \in DOMAIN inputs : inputs[n].prov = "false"
    BY <2>1, MergedFromAll, NoClaimAssumption DEF AwsClaims, IncludesProvenance
  <2>5. spec.extra = ExtraOf(inputs)
    BY <2>1, MergedFromAll
  <2>6. IF \A n \in DOMAIN inputs : inputs[n].extra = {}
        THEN claims.attributes = NoClaim
        ELSE claims.attributes = UNION {inputs[n].extra : n \in DOMAIN inputs}
    <3>1. ExtraOf(inputs) = {} <=> \A n \in DOMAIN inputs : inputs[n].extra = {}
      BY DEF ExtraOf
    <3>2. QED
      BY <2>5, <3>1 DEF AwsClaims, ExtraOf
  <2>7. QED
    BY <2>1, <2>3, <2>4, <2>6 DEF TokenCarriesBindings
<1>2. QED
  BY <1>1, AlwaysLoop, PTL

\* The variables of merge_inputs keep their types; aws_set_by is a binding
\* that was seen whenever aws is set.
THEOREM LoopTypeCorrect == Spec => []TypeOK
<1>1. LInv => TypeOK
  BY DEF LInv
<1>2. QED
  BY <1>1, AlwaysLoop, PTL
===========================================================================
