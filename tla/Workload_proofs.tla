-------------------------- MODULE Workload_proofs --------------------------
(***************************************************************************)
(* Proofs about Workload, for every set of pods, shapes and outcomes, any  *)
(* number of replicas of the webhook and any budget: first what the patch  *)
(* does to a pod, then the inductive invariant, then the theorems.         *)
(***************************************************************************)
EXTENDS Workload, SequenceTheorems, FiniteSetTheorems, WellFoundedInduction, TLAPS

(***************************************************************************)
(* Every set of numbers has a least one: what FirstPlace chooses.          *)
(***************************************************************************)
LEMMA LeastNumber ==
  ASSUME NEW S \in SUBSET Nat, S # {}
  PROVE  \E m \in S : \A n \in S : m <= n
<1> DEFINE R == StrictSubsetOrdering(Nat)
<1> DEFINE T == {0 .. m : m \in S}
<1>1. IsWellFoundedOn(R, FiniteSubsetsOf(Nat))
  BY FS_StrictSubsetOrderingWellFounded
<1>2. T \subseteq FiniteSubsetsOf(Nat) /\ T # {}
  <2>1. ASSUME NEW m \in S PROVE 0 .. m \in FiniteSubsetsOf(Nat)
    <3>1. IsFiniteSet(0 .. m)
      BY FS_Interval
    <3>2. 0 .. m \in SUBSET Nat
      OBVIOUS
    <3> QED
      BY <3>1, <3>2 DEF FiniteSubsetsOf
  <2> QED
    BY <2>1
<1>3. PICK x \in T : \A y \in T : ~ (<<y, x>> \in R)
  <2> HIDE DEF T, R
  <2> QED
    BY <1>1, <1>2, WFMin
<1>4. PICK m \in S : x = 0 .. m
  OBVIOUS
<1>5. ASSUME NEW n \in S, n < m
      PROVE  FALSE
  <2>1. 0 .. n \in T /\ 0 .. n \subseteq 0 .. m /\ 0 .. n # 0 .. m
    BY <1>5
  <2>2. <<0 .. n, x>> \in R
    BY <1>4, <2>1 DEF StrictSubsetOrdering
  <2> QED
    BY <1>3, <2>1, <2>2
<1> QED
  BY <1>5

(***************************************************************************)
(* The environment of a container.                                         *)
(***************************************************************************)
IsEnv(env) == env \in Seq(ToSet(env))

\* Some entry gives the variable the value.
Given(env, name, value) == \E i \in Places(env, name) : env[i][2] = value

\* Of the variable there is one entry at most.
SetOnce(env, name) == \A i, j \in Places(env, name) : i = j

\* From env to new only these variables change, and none comes to be set twice.
ChangesOnly(env, new, names) ==
  /\ IsEnv(new)
  /\ \A name : SetOnce(env, name) => SetOnce(new, name)
  /\ \A name, value : name \notin names /\ Given(env, name, value) => Given(new, name, value)
  /\ \A e \in ToSet(env) : e[1] \notin names => e \in ToSet(new)

LEMMA EnvPlaces ==
  ASSUME NEW env, IsEnv(env)
  PROVE  /\ Len(env) \in Nat /\ DOMAIN env = 1 .. Len(env)
         /\ \A name : /\ Places(env, name) \subseteq DOMAIN env
                      /\ Places(env, name) # {} => FirstPlace(env, name) \in Places(env, name)
<1>1. Len(env) \in Nat /\ DOMAIN env = 1 .. Len(env)
  BY LenProperties DEF IsEnv
<1>2. ASSUME NEW name, Places(env, name) # {}
      PROVE  FirstPlace(env, name) \in Places(env, name)
  <2>1. Places(env, name) \in SUBSET Nat
    BY <1>1 DEF Places
  <2>2. \E i \in Places(env, name) : \A j \in Places(env, name) : i <= j
    BY <1>2, <2>1, LeastNumber
  <2> QED
    BY <2>2 DEF FirstPlace
<1> QED
  BY <1>1, <1>2 DEF Places

\* upsert_env gives its variable the value, and changes no other.
LEMMA UpsertEnvSets ==
  ASSUME NEW env, IsEnv(env), NEW name, NEW value
  PROVE  LET new == UpsertEnv(env, <<name, value>>) IN
         Given(new, name, value) /\ ChangesOnly(env, new, {name})
<1> DEFINE entry == <<name, value>>
<1> DEFINE new == UpsertEnv(env, entry)
<1>0. entry[1] = name /\ entry[2] = value
  OBVIOUS
<1> HIDE DEF entry
<1>1. PICK n \in Nat : n = Len(env) /\ DOMAIN env = 1 .. n
  BY EnvPlaces
<1>2. PICK k \in DOMAIN new :
        /\ new[k] = entry
        /\ IsEnv(new)
        /\ DOMAIN env \subseteq DOMAIN new
        /\ \A i \in DOMAIN env : i # k => new[i] = env[i]
        /\ DOMAIN new \subseteq DOMAIN env \union {k}
        /\ k \in DOMAIN env => env[k][1] = name
        /\ k \notin DOMAIN env => Places(env, name) = {}
  <2>1. CASE Places(env, name) = {}
    <3>1. new = Append(env, entry)
      BY <1>0, <2>1 DEF UpsertEnv
    <3>2. env \in Seq(ToSet(env) \union {entry})
      BY DEF IsEnv
    <3>3. /\ new \in Seq(ToSet(env) \union {entry})
          /\ DOMAIN new = 1 .. (n + 1) /\ new[n + 1] = entry
          /\ \A i \in 1 .. n : new[i] = env[i]
      BY <1>1, <3>1, <3>2, AppendProperties, LenProperties
    <3>4. IsEnv(new)
      BY <3>3 DEF IsEnv, ToSet
    <3>5. 1 .. (n + 1) = (1 .. n) \union {n + 1} /\ n + 1 \notin 1 .. n
      OBVIOUS
    <3> QED
      BY <1>1, <2>1, <3>3, <3>4, <3>5
  <2>2. CASE Places(env, name) # {}
    <3> DEFINE k == FirstPlace(env, name)
    <3>1. new = [env EXCEPT ![k] = entry]
      BY <1>0, <2>2 DEF UpsertEnv
    <3>2. k \in DOMAIN env /\ env[k][1] = name
      BY <2>2, EnvPlaces DEF Places
    <3> HIDE DEF k
    <3>3. DOMAIN new = 1 .. n /\ new = [i \in 1 .. n |-> new[i]]
      BY <1>1, <3>1 DEF IsEnv
    <3>4. IsEnv(new)
      BY <3>3 DEF IsEnv, ToSet
    <3> QED
      BY <1>1, <3>1, <3>2, <3>3, <3>4
  <2> QED
    BY <2>1, <2>2
<1> HIDE DEF new
<1>3. Given(new, name, value)
  BY <1>0, <1>2 DEF Given, Places
<1>4. ASSUME NEW m, m # name, NEW i \in Places(env, m)
      PROVE  i \in Places(new, m) /\ new[i] = env[i]
  <2>1. i \in DOMAIN env /\ env[i][1] = m
    BY <1>4 DEF Places
  <2> QED
    BY <1>2, <1>4, <2>1 DEF Places
<1>5. \A m, v : m # name /\ Given(env, m, v) => Given(new, m, v)
  BY <1>4 DEF Given
<1>6. ASSUME NEW e \in ToSet(env), e[1] # name
      PROVE  e \in ToSet(new)
  <2>1. PICK i \in DOMAIN env : e = env[i]
    BY DEF ToSet
  <2> QED
    BY <1>2, <1>6, <2>1 DEF ToSet
<1>7. ASSUME NEW m, SetOnce(env, m) PROVE SetOnce(new, m)
  <2>1. CASE m # name
    <3>1. Places(new, m) \subseteq Places(env, m)
      BY <1>0, <1>2, <2>1 DEF Places
    <3> QED
      BY <1>7, <3>1 DEF SetOnce
  <2>2. CASE m = name
    <3>1. Places(new, name) \subseteq Places(env, name) \union {k}
      BY <1>2 DEF Places
    <3>2. k \in DOMAIN env => k \in Places(env, name)
      BY <1>2 DEF Places
    <3> QED
      BY <1>2, <1>7, <2>2, <3>1, <3>2 DEF SetOnce
  <2> QED
    BY <2>1, <2>2
<1>8. ChangesOnly(env, new, {name})
  BY <1>2, <1>5, <1>6, <1>7 DEF ChangesOnly
<1> QED
  BY <1>3, <1>8 DEF new, entry

LEMMA ChangesCompose ==
  ASSUME NEW a, NEW b, NEW c, NEW M, NEW N, ChangesOnly(a, b, M), ChangesOnly(b, c, N)
  PROVE  ChangesOnly(a, c, M \union N)
BY DEF ChangesOnly

LEMMA NothingChanges ==
  ASSUME NEW env, IsEnv(env)
  PROVE  ChangesOnly(env, env, {})
BY DEF ChangesOnly

\* Two variables are set one after the other.
LEMMA UpsertTwo ==
  ASSUME NEW env, IsEnv(env), NEW m, NEW v, NEW n, NEW w, m # n
  PROVE  LET new == UpsertEnv(UpsertEnv(env, <<m, v>>), <<n, w>>) IN
         /\ Given(new, m, v) /\ Given(new, n, w)
         /\ ChangesOnly(env, new, {m, n})
<1> DEFINE mid == UpsertEnv(env, <<m, v>>)
<1> DEFINE new == UpsertEnv(mid, <<n, w>>)
<1>1. Given(mid, m, v) /\ ChangesOnly(env, mid, {m}) /\ IsEnv(mid)
  BY UpsertEnvSets DEF ChangesOnly
<1> HIDE DEF mid
<1>2. Given(new, n, w) /\ ChangesOnly(mid, new, {n})
  BY <1>1, UpsertEnvSets
<1> HIDE DEF new
<1>3. Given(new, m, v)
  BY <1>1, <1>2 DEF ChangesOnly
<1>4. {m} \union {n} = {m, n}
  OBVIOUS
<1>5. ChangesOnly(env, new, {m, n})
  BY <1>1, <1>2, <1>4, ChangesCompose
<1> QED
  BY <1>2, <1>3, <1>5 DEF new, mid

\* The names of some settings.
NamesIn(E) == {e[1] : e \in E}
Asked(aws) == NamesIn(AwsEnv(aws))

\* The settings of an AWS block are all given, and nothing else changes.
LEMMA SettingsGiven ==
  ASSUME NEW env, IsEnv(env), NEW aws
  PROVE  LET new == SetSts(SetRegion(SetRole(env, aws), aws), aws) IN
         /\ \A e \in AwsEnv(aws) : Given(new, e[1], e[2])
         /\ ChangesOnly(env, new, Asked(aws))
<1> DEFINE a == SetRole(env, aws)
<1> DEFINE b == SetRegion(a, aws)
<1> DEFINE c == SetSts(b, aws)
<1> DEFINE A == {"AWS_ROLE_ARN", "AWS_WEB_IDENTITY_TOKEN_FILE"}
<1> DEFINE B == IF aws.region = NoRegion THEN {} ELSE {"AWS_REGION", "AWS_DEFAULT_REGION"}
<1> DEFINE C == IF aws.sts THEN {"AWS_STS_REGIONAL_ENDPOINTS"} ELSE {}
<1>1. /\ Given(a, "AWS_ROLE_ARN", aws.role)
      /\ Given(a, "AWS_WEB_IDENTITY_TOKEN_FILE", TokenFile)
      /\ ChangesOnly(env, a, A) /\ IsEnv(a)
  BY UpsertTwo DEF SetRole, ChangesOnly
<1> HIDE DEF a
<1>2. /\ aws.region # NoRegion =>
           /\ Given(b, "AWS_REGION", aws.region)
           /\ Given(b, "AWS_DEFAULT_REGION", aws.region)
      /\ ChangesOnly(a, b, B) /\ IsEnv(b)
  <2>1. CASE aws.region = NoRegion
    BY <1>1, <2>1, NothingChanges DEF SetRegion
  <2>2. CASE aws.region # NoRegion
    BY <1>1, <2>2, UpsertTwo DEF SetRegion, ChangesOnly
  <2> QED
    BY <2>1, <2>2
<1> HIDE DEF b
<1>3. /\ aws.sts => Given(c, "AWS_STS_REGIONAL_ENDPOINTS", "regional")
      /\ ChangesOnly(b, c, C)
  <2>1. CASE ~aws.sts
    BY <1>2, <2>1, NothingChanges DEF SetSts
  <2>2. CASE aws.sts
    BY <1>2, <2>2, UpsertEnvSets DEF SetSts
  <2> QED
    BY <2>1, <2>2
<1> HIDE DEF c
<1>4. /\ Given(b, "AWS_ROLE_ARN", aws.role)
      /\ Given(b, "AWS_WEB_IDENTITY_TOKEN_FILE", TokenFile)
  BY <1>1, <1>2 DEF ChangesOnly
<1>5. /\ Given(c, "AWS_ROLE_ARN", aws.role)
      /\ Given(c, "AWS_WEB_IDENTITY_TOKEN_FILE", TokenFile)
  BY <1>3, <1>4 DEF ChangesOnly
<1>6. aws.region # NoRegion =>
        /\ Given(c, "AWS_REGION", aws.region)
        /\ Given(c, "AWS_DEFAULT_REGION", aws.region)
  BY <1>2, <1>3 DEF ChangesOnly
<1>7. \A e \in AwsEnv(aws) : Given(c, e[1], e[2])
  BY <1>3, <1>5, <1>6 DEF AwsEnv
<1>8. (A \union B) \union C = Asked(aws)
  <2>1. PICK EA, EB, EC :
          /\ EA = {<<"AWS_ROLE_ARN", aws.role>>, <<"AWS_WEB_IDENTITY_TOKEN_FILE", TokenFile>>}
          /\ EB = IF aws.region = NoRegion THEN {}
                  ELSE {<<"AWS_REGION", aws.region>>, <<"AWS_DEFAULT_REGION", aws.region>>}
          /\ EC = IF aws.sts THEN {<<"AWS_STS_REGIONAL_ENDPOINTS", "regional">>} ELSE {}
    OBVIOUS
  <2>2. A = NamesIn(EA)
    BY <2>1 DEF NamesIn
  <2>3. B = NamesIn(EB)
    <3>1. CASE aws.region = NoRegion
      <4>1. B = {} /\ EB = {}
        BY <2>1, <3>1
      <4> QED
        BY <4>1 DEF NamesIn
    <3>2. CASE aws.region # NoRegion
      <4>1. /\ B = {"AWS_REGION", "AWS_DEFAULT_REGION"}
            /\ EB = {<<"AWS_REGION", aws.region>>, <<"AWS_DEFAULT_REGION", aws.region>>}
        BY <2>1, <3>2
      <4> HIDE DEF B
      <4> QED
        BY <4>1 DEF NamesIn
    <3> QED
      BY <3>1, <3>2
  <2>4. C = NamesIn(EC)
    <3>1. CASE aws.sts
      <4>1. /\ C = {"AWS_STS_REGIONAL_ENDPOINTS"}
            /\ EC = {<<"AWS_STS_REGIONAL_ENDPOINTS", "regional">>}
        BY <2>1, <3>1
      <4> HIDE DEF C
      <4> QED
        BY <4>1 DEF NamesIn
    <3>2. CASE ~aws.sts
      <4>1. C = {} /\ EC = {}
        BY <2>1, <3>2
      <4> QED
        BY <4>1 DEF NamesIn
    <3> QED
      BY <3>1, <3>2
  <2>5. AwsEnv(aws) = EA \union EB \union EC
    BY <2>1 DEF AwsEnv
  <2> HIDE DEF A, B, C
  <2> QED
    BY <2>2, <2>3, <2>4, <2>5 DEF Asked, NamesIn
<1>9. ChangesOnly(env, c, Asked(aws))
  <2> HIDE DEF A, B, C
  <2>1. ChangesOnly(env, b, A \union B)
    BY <1>1, <1>2, ChangesCompose
  <2> QED
    BY <1>3, <1>8, <2>1, ChangesCompose
<1> QED
  BY <1>7, <1>9 DEF a, b, c

(***************************************************************************)
(* The patch.                                                              *)
(***************************************************************************)
\* A container that is injected keeps its name, mounts the token's volume beside
\* its own unless it did, and has the settings in its environment, which else
\* stays as it was.
LEMMA InjectedContainer ==
  ASSUME NEW c, IsContainer(c), NEW aws
  PROVE  /\ IsContainer(InjectAws(c, aws))
         /\ InjectAws(c, aws).name = c.name
         /\ c.mounts \subseteq InjectAws(c, aws).mounts
         /\ MountedElsewhere(c) \/ TokenMount \in InjectAws(c, aws).mounts
         /\ \A e \in AwsEnv(aws) : Given(InjectAws(c, aws).env, e[1], e[2])
         /\ ChangesOnly(c.env, InjectAws(c, aws).env, Asked(aws))
<1> DEFINE env == SetSts(SetRegion(SetRole(c.env, aws), aws), aws)
<1> DEFINE mounts == EnsureMount(c.mounts)
<1> DEFINE new == InjectAws(c, aws)
<1>1. new = [c EXCEPT !.env = env, !.mounts = mounts]
  BY DEF InjectAws
<1>2. IsEnv(c.env) /\ c \in [name : {c.name}, env : Seq(ToSet(c.env)), mounts : {c.mounts}]
  BY DEF IsContainer, IsEnv
<1>3. /\ \A e \in AwsEnv(aws) : Given(env, e[1], e[2])
      /\ ChangesOnly(c.env, env, Asked(aws))
  BY <1>2, SettingsGiven
<1>4. env \in Seq(ToSet(env))
  BY <1>3 DEF ChangesOnly, IsEnv
<1>7. c.mounts \subseteq mounts /\ (MountedElsewhere(c) \/ TokenMount \in mounts)
  BY DEF EnsureMount, MountedElsewhere
<1> HIDE DEF env, mounts, new
<1>5. /\ new.name = c.name /\ new.env = env /\ new.mounts = mounts
      /\ new \in [name : {c.name}, env : Seq(ToSet(env)), mounts : {mounts}]
  BY <1>1, <1>2, <1>4
<1>6. IsContainer(new)
  BY <1>5 DEF IsContainer
<1> QED
  BY <1>3, <1>5, <1>6, <1>7 DEF new

LEMMA AgentIsContainer ==
  ASSUME NEW account, NEW hash
  PROVE  /\ IsContainer(AgentContainer(account, hash))
         /\ AgentContainer(account, hash).name = Agent
<1> DEFINE env == << <<"SERVICE_ACCOUNT_NAME", account>>, <<"CONFIG_HASH", hash>> >>
<1> DEFINE mounts == {SaMount, TokenMount}
<1>1. AgentContainer(account, hash) = [name |-> Agent, env |-> env, mounts |-> mounts]
  BY DEF AgentContainer
<1>2. env \in Seq(ToSet(env))
  BY DEF ToSet
<1> HIDE DEF env, mounts
<1> DEFINE c == AgentContainer(account, hash)
<1>3. c.name = Agent /\ c.env = env /\ c.mounts = mounts
  BY <1>1
<1>4. c \in [name : {c.name}, env : Seq(ToSet(env)), mounts : {mounts}]
  BY <1>1, <1>2
<1> QED
  BY <1>3, <1>4 DEF IsContainer

LEMMA PodOfParts ==
  ASSUME NEW a \in BOOLEAN, NEW v,
         NEW i, i \in Seq(ToSet(i)), NEW c, c \in Seq(ToSet(c)),
         \A x \in ToSet(i) \union ToSet(c) : IsContainer(x)
  PROVE  IsPod([automount |-> a, volumes |-> v, init |-> i, containers |-> c])
<1> DEFINE new == [automount |-> a, volumes |-> v, init |-> i, containers |-> c]
<1>1. new.volumes = v /\ new.init = i /\ new.containers = c
  OBVIOUS
<1>2. new \in [automount : BOOLEAN, volumes : {v}, init : Seq(ToSet(i)),
              containers : Seq(ToSet(c))]
  OBVIOUS
<1> HIDE DEF new
<1>3. IsPod(new)
  BY <1>1, <1>2 DEF IsPod
<1> QED
  BY <1>3 DEF new

LEMMA PatchedPod ==
  ASSUME NEW pd, IsPod(pd), NEW account, NEW hash, NEW aws,
         NEW new, new = BuildPodPatch(pd, account, hash, aws)
  PROVE  /\ IsPod(new)
         /\ Len(new.init) = Len(pd.init) + 1
         /\ new.init[1] = AgentContainer(account, hash)
         /\ \A i \in 1..Len(pd.init) : new.init[i + 1] = InjectAws(pd.init[i], aws)
         /\ Len(new.containers) = Len(pd.containers)
         /\ \A i \in 1..Len(pd.containers) :
              new.containers[i] = InjectAws(pd.containers[i], aws)
<1> DEFINE a == AgentContainer(account, hash)
<1> DEFINE f(c) == InjectAws(c, aws)
<1> DEFINE rest == [i \in DOMAIN pd.init |-> f(pd.init[i])]
<1> DEFINE S == {a} \union {f(c) : c \in ToSet(pd.init)}
<1> DEFINE cs == [i \in DOMAIN pd.containers |-> f(pd.containers[i])]
<1>0. /\ pd.init \in Seq(ToSet(pd.init))
      /\ pd.containers \in Seq(ToSet(pd.containers))
  BY DEF IsPod
<1>1. rest \in Seq(S) /\ Len(rest) = Len(pd.init)
  <2> HIDE DEF f, a
  <2>1. DOMAIN pd.init = 1..Len(pd.init) /\ Len(pd.init) \in Nat
    BY <1>0
  <2>2. \A i \in 1..Len(pd.init) : f(pd.init[i]) \in S
    BY <2>1 DEF ToSet
  <2> QED
    BY <2>1, <2>2
<1>2. <<a>> \in Seq(S) /\ Len(<<a>>) = 1 /\ <<a>>[1] = a
  OBVIOUS
<1>3. /\ new.init = <<a>> \o rest
      /\ new.containers = cs
      /\ new = [automount |-> FALSE, volumes |-> new.volumes, init |-> new.init,
                containers |-> new.containers]
  BY DEF BuildPodPatch
<1>4. cs \in Seq({f(c) : c \in ToSet(pd.containers)}) /\ Len(cs) = Len(pd.containers)
  <2> HIDE DEF f, a
  <2>1. DOMAIN pd.containers = 1..Len(pd.containers) /\ Len(pd.containers) \in Nat
    BY <1>0
  <2> QED
    BY <2>1 DEF ToSet
<1>5. /\ new.init \in Seq(S)
      /\ Len(new.init) = Len(pd.init) + 1
      /\ new.init[1] = a
      /\ \A i \in 1..Len(pd.init) : new.init[i + 1] = rest[i]
  <2> HIDE DEF rest, S, a, f
  <2> QED
    BY <1>0, <1>1, <1>2, <1>3
<1>6. \A i \in 1..Len(pd.init) : rest[i] = f(pd.init[i])
  <2> HIDE DEF f
  <2> QED
    BY <1>0
<1>7. \A i \in 1..Len(pd.containers) : cs[i] = f(pd.containers[i])
  <2> HIDE DEF f
  <2> QED
    BY <1>0
<1>8. IsContainer(a) /\ \A c \in ToSet(pd.init) \union ToSet(pd.containers) : IsContainer(f(c))
  BY AgentIsContainer, InjectedContainer DEF IsPod
<1>9. \A c \in ToSet(new.init) \union ToSet(new.containers) : IsContainer(c)
  <2> HIDE DEF f, a
  <2>1. \A c \in ToSet(new.init) : c \in S
    BY <1>5 DEF ToSet
  <2>2. \A c \in ToSet(new.containers) : c \in {f(d) : d \in ToSet(pd.containers)}
    <3> HIDE DEF cs
    <3> QED
      BY <1>3, <1>4 DEF ToSet
  <2> QED
    BY <2>1, <2>2, <1>8
<1>10. /\ new.init \in Seq(ToSet(new.init))
       /\ new.containers \in Seq(ToSet(new.containers))
  <2> HIDE DEF cs, S, f, a
  <2>1. \A s, T : s \in Seq(T) => s \in Seq(ToSet(s))
    BY DEF ToSet
  <2> QED
    BY <2>1, <1>3, <1>4, <1>5
<1>11. IsPod(new)
  <2>1. FALSE \in BOOLEAN
    OBVIOUS
  <2>2. \A b \in BOOLEAN : IsPod([automount |-> b, volumes |-> new.volumes, init |-> new.init,
                                containers |-> new.containers])
    <3> HIDE DEF a, f, rest, S, cs
    <3> QED
      BY <1>9, <1>10, PodOfParts
  <2> QED
    BY <1>3, <2>1, <2>2
<1> QED
  BY <1>3, <1>4, <1>5, <1>6, <1>7, <1>11

LEMMA Lengths ==
  ASSUME NEW pd, IsPod(pd)
  PROVE  /\ Len(pd.init) \in Nat /\ DOMAIN pd.init = 1..Len(pd.init)
         /\ Len(pd.containers) \in Nat /\ DOMAIN pd.containers = 1..Len(pd.containers)
<1>1. pd.init \in Seq(ToSet(pd.init)) /\ pd.containers \in Seq(ToSet(pd.containers))
  BY DEF IsPod
<1> QED
  BY <1>1, LenProperties

\* A pod without an agent gets one, in front, that asks with the hash.
LEMMA PatchAddsAgent ==
  ASSUME NEW pd, IsPod(pd), ~HasContainer(pd, Agent), NEW account, NEW hash, NEW aws,
         NEW new, new = BuildPodPatch(pd, account, hash, aws)
  PROVE  /\ RunsAgent(new) /\ HasContainer(new, Agent)
         /\ AgentFirst(new)
         /\ HashOf(new) = hash
<1> DEFINE a == AgentContainer(account, hash)
<1>1. /\ IsPod(new)
      /\ Len(new.init) = Len(pd.init) + 1
      /\ new.init[1] = a
      /\ \A i \in 1..Len(pd.init) : new.init[i + 1] = InjectAws(pd.init[i], aws)
      /\ Len(new.containers) = Len(pd.containers)
      /\ \A i \in 1..Len(pd.containers) :
           new.containers[i] = InjectAws(pd.containers[i], aws)
  BY PatchedPod
<1>2. a.name = Agent
  BY AgentIsContainer
<1>3. PICK n \in Nat, m \in Nat :
        /\ n = Len(pd.init) /\ DOMAIN pd.init = 1..n
        /\ m = Len(pd.containers) /\ DOMAIN pd.containers = 1..m
  BY Lengths
<1>4. DOMAIN new.init = 1..(n + 1) /\ DOMAIN new.containers = 1..m
  BY <1>1, <1>3, Lengths
<1> DEFINE f(c) == InjectAws(c, aws)
<1>5. \A c : IsContainer(c) => f(c).name = c.name
  BY InjectedContainer
<1>6. /\ \A i \in 1..n : pd.init[i].name # Agent /\ IsContainer(pd.init[i])
      /\ \A i \in 1..m : pd.containers[i].name # Agent /\ IsContainer(pd.containers[i])
  BY <1>3 DEF HasContainer, ToSet, IsPod
<1>7. /\ \A i \in 1..n : new.init[i + 1] = f(pd.init[i])
      /\ \A i \in 1..m : new.containers[i] = f(pd.containers[i])
  BY <1>1, <1>3
<1> HIDE DEF a, f
<1>8. \A i \in DOMAIN new.init : i # 1 => new.init[i].name # Agent
  <2> SUFFICES ASSUME NEW i \in DOMAIN new.init, i # 1 PROVE new.init[i].name # Agent
    OBVIOUS
  <2>1. i \in 1..(n + 1)
    BY <1>4
  <2>2. i - 1 \in 1..n /\ i = (i - 1) + 1
    BY <2>1
  <2> QED
    BY <1>5, <1>6, <1>7, <2>2
<1>a. \A c \in ToSet(new.containers) : c.name # Agent
  BY <1>4, <1>5, <1>6, <1>7 DEF ToSet
<1>b. 1 \in DOMAIN new.init
  BY <1>4
<1>c. a \in ToSet(new.init) /\ \A c \in ToSet(new.init) : c.name = Agent => c = a
  BY <1>1, <1>2, <1>8, <1>b DEF ToSet
<1>d. AgentFirst(new)
  BY <1>1, <1>2, <1>8, <1>a DEF AgentFirst
<1>9. AgentOf(new) = a
  BY <1>2, <1>c DEF AgentOf
<1>10. ValueOf(a, "CONFIG_HASH") = hash
  <2> DEFINE env == << <<"SERVICE_ACCOUNT_NAME", account>>, <<"CONFIG_HASH", hash>> >>
  <2>1. a.env = env
    BY DEF a, AgentContainer
  <2>2. DOMAIN env = {1, 2} /\ env[1][1] = "SERVICE_ACCOUNT_NAME" /\ env[2][1] = "CONFIG_HASH"
        /\ env[2][2] = hash
    OBVIOUS
  <2> HIDE DEF env
  <2>3. Places(env, "CONFIG_HASH") = {2}
    BY <2>2 DEF Places
  <2>4. LastPlace(env, "CONFIG_HASH") = 2
    BY <2>3 DEF LastPlace
  <2> QED
    BY <2>1, <2>2, <2>4 DEF ValueOf
<1> QED
  BY <1>2, <1>9, <1>10, <1>c, <1>d DEF RunsAgent, HasContainer, HashOf

\* A container that is appended changes nothing of it.
LEMMA AppendedContainer ==
  ASSUME NEW pd, IsPod(pd), NEW d, IsContainer(d), d.name # Agent,
         NEW new, new = [pd EXCEPT !.containers = Append(pd.containers, d)]
  PROVE  /\ IsPod(new)
         /\ HashOf(new) = HashOf(pd)
         /\ RunsAgent(new) = RunsAgent(pd)
         /\ AgentFirst(pd) => AgentFirst(new)
<1> DEFINE S == ToSet(pd.containers) \union {d}
<1>1. /\ pd.init \in Seq(ToSet(pd.init))
      /\ pd.containers \in Seq(S) /\ d \in S
      /\ \A c \in ToSet(pd.init) \union S : IsContainer(c)
  BY DEF IsPod
<1>2. /\ new.init = pd.init /\ new.containers = Append(pd.containers, d)
      /\ new = [automount |-> pd.automount, volumes |-> pd.volumes, init |-> pd.init,
                containers |-> new.containers]
      /\ pd.automount \in BOOLEAN
  BY DEF IsPod
<1>3. ToSet(new.containers) = S /\ new.containers \in Seq(S)
  <2> HIDE DEF S
  <2>1. PICK n \in Nat : n = Len(pd.containers) /\ DOMAIN pd.containers = 1..n
    BY Lengths
  <2>2. /\ new.containers \in Seq(S) /\ DOMAIN new.containers = 1..(n + 1)
        /\ \A i \in 1..n : new.containers[i] = pd.containers[i]
        /\ new.containers[n + 1] = d
    BY <1>1, <1>2, <2>1, AppendProperties, LenProperties
  <2>3. ToSet(new.containers) \subseteq ToSet(pd.containers) \union {d}
    BY <2>1, <2>2 DEF ToSet
  <2>4. ToSet(pd.containers) \union {d} \subseteq ToSet(new.containers)
    BY <2>1, <2>2 DEF ToSet
  <2> QED
    BY <2>2, <2>3, <2>4 DEF S
<1> HIDE DEF S
<1>4. IsPod(new)
  <2>1. pd.init \in Seq(ToSet(pd.init)) /\ new.containers \in Seq(ToSet(new.containers))
    BY <1>1, <1>3
  <2>2. \A c \in ToSet(pd.init) \union ToSet(new.containers) : IsContainer(c)
    BY <1>1, <1>3
  <2>3. IsPod([automount |-> pd.automount, volumes |-> pd.volumes, init |-> pd.init,
               containers |-> new.containers])
    BY <1>2, <2>1, <2>2, PodOfParts
  <2> QED
    BY <1>2, <2>3
<1>5. AgentFirst(pd) => AgentFirst(new)
  BY <1>2, <1>3 DEF AgentFirst, S
<1> QED
  BY <1>2, <1>4, <1>5 DEF HashOf, AgentOf, RunsAgent

(***************************************************************************)
(* The inductive invariant.                                                *)
(***************************************************************************)
Types ==
  /\ TypeOK
  /\ resolved \in [spec : Specs \union {Absent}, status : Statuses \union {Absent}]
  /\ object = [p \in Pods |-> object[p]]
  /\ submitted = [p \in Pods |-> submitted[p]]
  /\ reply \in [Pods -> Replies \union {Absent}]
  /\ ready \in [Pods -> BOOLEAN]
  /\ file \in [Pods -> Specs \union {Absent}]
  /\ started \in [Pods -> BOOLEAN]
  /\ torn \in [Pods -> BOOLEAN]

\* A pod that has been submitted is one, and if it has an agent it comes first;
\* only a review injects.
PodOK(p) ==
  /\ stage[p] = "none" => object[p] = Absent
  /\ stage[p] \in {"none", "submitted"} => injected[p] = NoAws
  /\ stage[p] # "none" =>
       /\ IsPod(object[p])
       /\ RunsAgent(object[p]) => AgentFirst(object[p])

\* Nothing runs before the pod does, and an agent is ready once it wrote a token.
AgentOK(p) ==
  /\ stage[p] # "running" => agent[p] = "none" /\ file[p] = Absent /\ ~started[p]
  /\ ready[p] => file[p] # Absent
  /\ HasAgent(p) /\ started[p] => file[p] # Absent

\* The spec is of an outcome with the hash that the pod was given.
OfHash(p, spec) ==
  \E o \in Outcomes : o.spec = spec /\ o.status.hash = HashOf(object[p])

\* Unless the object was read between two requests, the settings, the token on
\* its way and the token in the file are all of outcomes with the pod's hash.
Fits(p) ==
  injected[p] # NoAws /\ ~torn[p] =>
    /\ HashOf(object[p]) # NoHash
    /\ \E o \in Outcomes :
         o.spec.aws = injected[p] /\ o.status.hash = HashOf(object[p])
    /\ file[p] # Absent => OfHash(p, file[p])
    /\ reply[p] # Absent /\ reply[p].kind = "token" => OfHash(p, reply[p].spec)

\* The pod new is the pod old with the settings of an AWS block, and what other
\* webhooks added.
Patched(old, new, aws) ==
  /\ IsPod(old)
  /\ old.volumes \subseteq new.volumes /\ TokenVolume[1] \in Volumes(new)
  /\ Len(new.init) = Len(old.init) + 1
  /\ \A i \in 1 .. Len(old.init) : new.init[i + 1] = InjectAws(old.init[i], aws)
  /\ Len(new.containers) >= Len(old.containers)
  /\ \A i \in 1 .. Len(old.containers) :
       new.containers[i] = InjectAws(old.containers[i], aws)

\* The pod is as the webhook sees it, or as it has left it.
PatchOK(p) ==
  /\ stage[p] = "submitted" => submitted[p] = object[p]
  /\ injected[p] # NoAws => Patched(submitted[p], object[p], injected[p])

PodInv(p) == PodOK(p) /\ AgentOK(p) /\ Fits(p) /\ PatchOK(p)

IInv == Types /\ \A p \in Pods : PodInv(p)

\* The patch, and a container that another webhook appends to its result.
LEMMA PatchPatches ==
  ASSUME NEW pd, IsPod(pd), ~HasContainer(pd, Agent), NEW account, NEW hash, NEW aws,
         NEW new, new = BuildPodPatch(pd, account, hash, aws)
  PROVE  Patched(pd, new, aws)
<1>1. /\ Len(new.init) = Len(pd.init) + 1
      /\ new.init[1].name = Agent
      /\ \A i \in 1..Len(pd.init) : new.init[i + 1] = InjectAws(pd.init[i], aws)
      /\ Len(new.containers) = Len(pd.containers)
      /\ \A i \in 1..Len(pd.containers) :
           new.containers[i] = InjectAws(pd.containers[i], aws)
  BY PatchedPod, AgentIsContainer
<1>2. new.volumes = EnsureVolume(EnsureVolume(pd.volumes, SaVolume), TokenVolume)
  BY DEF BuildPodPatch
<1>3. /\ pd.volumes \subseteq new.volumes
      /\ \E v \in new.volumes : v[1] = TokenVolume[1]
  <2>1. \A S, v : S \subseteq EnsureVolume(S, v) /\ \E u \in EnsureVolume(S, v) : u[1] = v[1]
    BY DEF EnsureVolume
  <2> QED
    BY <1>2, <2>1
<1>4. Len(pd.containers) \in Nat
  BY Lengths
<1> QED
  BY <1>1, <1>3, <1>4 DEF Patched, Volumes

LEMMA AppendKeepsPatched ==
  ASSUME NEW old, NEW pd, IsPod(pd), NEW aws, Patched(old, pd, aws),
         NEW d,
         NEW new, new = [pd EXCEPT !.containers = Append(pd.containers, d)]
  PROVE  Patched(old, new, aws)
<1>1. PICK m \in Nat, n \in Nat, k \in Nat :
        /\ m = Len(old.init) /\ DOMAIN old.init = 1 .. m
        /\ n = Len(old.containers) /\ DOMAIN old.containers = 1 .. n
        /\ k = Len(pd.containers) /\ DOMAIN pd.containers = 1 .. k
        /\ DOMAIN pd.init = 1 .. (m + 1)
  BY Lengths DEF Patched
<1>2. new.init = pd.init /\ new.volumes = pd.volumes
  BY DEF IsPod
<1>3. /\ Len(new.containers) = k + 1
      /\ \A i \in 1 .. k : new.containers[i] = pd.containers[i]
      /\ new.containers[k + 1] = d
  <2>1. pd.containers \in Seq(ToSet(pd.containers) \union {d})
    BY DEF IsPod
  <2>2. new.containers = Append(pd.containers, d)
    BY DEF IsPod
  <2> QED
    BY <1>1, <2>1, <2>2, AppendProperties, LenProperties
<1>4. /\ \A i \in 1 .. n : i \in 1 .. k
      /\ \A i \in 1 .. (k + 1) : i \in 1 .. k \/ i = k + 1
  BY <1>1 DEF Patched
<1> QED
  BY <1>1, <1>2, <1>3, <1>4 DEF Patched, Volumes

LEMMA InitIInv == Init => IInv
<1> SUFFICES ASSUME Init PROVE IInv
  OBVIOUS
<1> USE DEF Init, Up!Init
<1>1. TypeOK
  BY BudgetsAssumption DEF TypeOK
<1>2. Types
  BY <1>1 DEF Types
<1>3. ASSUME NEW p \in Pods PROVE PodInv(p)
  BY DEF PodInv, PodOK, AgentOK, Fits, PatchOK
<1> QED
  BY <1>2, <1>3 DEF IInv

\* What mint answers.
LEMMA Answers ==
  ASSUME Types, NEW p \in Pods
  PROVE  /\ Answer(p) \in Replies /\ Answer(p) # Absent
         /\ Answer(p).kind = "token" =>
              /\ Exists
              /\ Answer(p).spec = resolved.spec
              /\ resolved.status.hash = HashOf(object[p])
<1> DEFINE account == AccountOf(object[p])
<1> DEFINE hash == HashOf(object[p])
<1> HIDE DEF account, hash
<1>1. Answer(p) = MintReply(account, hash)
  BY DEF Answer, account, hash
<1>2. resolved.spec # Absent => resolved.spec \in Specs
  BY DEF Types
<1>3. /\ MintReply(account, hash) \in Replies
      /\ MintReply(account, hash).kind = "token" =>
           /\ resolved.spec # Absent
           /\ MintReply(account, hash).spec = resolved.spec
           /\ resolved.status.hash = hash
  BY <1>2 DEF MintReply, ObjectOf, Replies, Retry, Conflict, Token
<1> QED
  BY <1>1, <1>3, AbsentAssumption DEF Exists, hash

LEMMA UseKeepsBudget ==
  ASSUME budget \in [{"abandons", "faults", "deaths", "sidecars", "overlaps"} -> Nat],
         NEW bound \in {"abandons", "faults", "deaths", "sidecars", "overlaps"},
         Use(bound) \/ UNCHANGED budget
  PROVE  budget' \in [{"abandons", "faults", "deaths", "sidecars", "overlaps"} -> Nat]
BY DEF Use

LEMMA ControllersKeepTypes ==
  ASSUME Types, NEW v \in Writers, Write(v) \/ Abandon(v)
  PROVE  Types'
<1>1. UNCHANGED <<mode, stage, object, submitted, injected, agent, reply, ready, file, started,
                  torn>>
  BY DEF Write, Abandon, pod, agents
<1>2. budget' \in [{"abandons", "faults", "deaths", "sidecars", "overlaps"} -> Nat]
  BY UseKeepsBudget DEF Write, Abandon, Types, TypeOK
<1>3. /\ resolved' \in [spec : Specs \union {Absent}, status : Statuses \union {Absent}]
      /\ writing' \in [Writers -> Outcomes \union {Absent}]
  <2>1. CASE Write(v) /\ Up!PatchStatus(v)
    <3>1. writing[v] \in Outcomes
      BY <2>1 DEF Up!PatchStatus, Types, TypeOK
    <3>2. writing[v].status \in Statuses
      BY <3>1 DEF Statuses
    <3> QED
      BY <2>1, <3>2 DEF Up!PatchStatus, Types, TypeOK
  <2>2. ASSUME NEW o \in Outcomes, Up!PatchSpec(v, o)
        PROVE  /\ resolved' \in [spec : Specs \union {Absent}, status : Statuses \union {Absent}]
               /\ writing' \in [Writers -> Outcomes \union {Absent}]
    <3>1. o.spec \in Specs
      BY DEF Specs
    <3> QED
      BY <2>2, <3>1 DEF Up!PatchSpec, Types, TypeOK
  <2>3. CASE Abandon(v)
    BY <2>3 DEF Abandon, Up!Abandon, Types, TypeOK
  <2> QED
    BY <2>1, <2>2, <2>3 DEF Write
<1> QED
  BY <1>1, <1>2, <1>3 DEF Types, TypeOK

LEMMA ReviewsKeepTypes ==
  ASSUME Types, NEW p \in Pods,
         Submit(p) \/ Sidecar(p) \/ Pass(p) \/ Refuse(p) \/ Inject(p) \/ ReviewFails(p)
  PROVE  Types'
<1>1. UNCHANGED <<mode, resolved, writing, agent, reply, ready, file, started>>
  BY DEF Submit, Sidecar, Pass, Refuse, Inject, ReviewFails, upsert, agents
<1>2. budget' \in [{"abandons", "faults", "deaths", "sidecars", "overlaps"} -> Nat]
  BY UseKeepsBudget
  DEF Submit, Sidecar, Pass, Refuse, Inject, ReviewFails, Types, TypeOK
<1>3. stage' \in [Pods -> {"none", "submitted", "reviewed", "denied", "running"}]
  BY DEF Submit, Sidecar, Pass, Refuse, Inject, ReviewFails, FailOrSkip, Decide, Types, TypeOK
<1>4. object' = [q \in Pods |-> object'[q]]
  <2>1. CASE Sidecar(p)
    BY <2>1 DEF Sidecar, Types
  <2>2. CASE Inject(p)
    BY <2>2 DEF Inject, Types
  <2>3. CASE Submit(p)
    BY <2>3 DEF Submit, Types
  <2>4. CASE Pass(p) \/ Refuse(p) \/ ReviewFails(p)
    BY <2>4 DEF Pass, Refuse, ReviewFails, FailOrSkip, Types
  <2> QED
    BY <2>1, <2>2, <2>3, <2>4
<1>6. submitted' = [q \in Pods |-> submitted'[q]]
  BY DEF Submit, Sidecar, Pass, Refuse, Inject, ReviewFails, Types
<1>5. injected' \in [Pods -> Blocks \union {NoAws}] /\ torn' \in [Pods -> BOOLEAN]
  <2>1. CASE Inject(p)
    <3>1. resolved.spec \in Specs
      BY <2>1 DEF Inject, Exists, Types
    <3>2. resolved.spec.aws \in Blocks \union {NoAws}
      BY <3>1, BlocksAssumption DEF Specs
    <3>3. (~Whole) \in BOOLEAN
      BY DEF Whole
    <3> QED
      BY <2>1, <3>2, <3>3 DEF Inject, Types, TypeOK
  <2>2. CASE ~Inject(p)
    BY <2>2 DEF Submit, Sidecar, Pass, Refuse, ReviewFails, FailOrSkip, Types, TypeOK
  <2> QED
    BY <2>1, <2>2
<1> QED
  BY <1>1, <1>2, <1>3, <1>4, <1>5, <1>6 DEF Types, TypeOK

LEMMA RunKeepsTypes ==
  ASSUME Types, NEW p \in Pods, AgentOK(p), Run(p)
  PROVE  Types'
<1>1. UNCHANGED <<mode, resolved, writing, object, submitted, injected, reply, ready, file, torn,
                  budget>>
  BY DEF Run, upsert
<1>2. /\ stage' \in [Pods -> {"none", "submitted", "reviewed", "denied", "running"}]
      /\ agent' \in [Pods -> {"none", "ask", "wait", "sleep", "ended"}]
      /\ started' \in [Pods -> BOOLEAN]
      /\ \A q \in Pods : (agent[q] = "wait") = (agent'[q] = "wait")
  BY DEF Run, Decide, AgentOK, Types, TypeOK
<1> QED
  BY <1>1, <1>2 DEF Types, TypeOK

LEMMA AgentsKeepTypes ==
  ASSUME Types, NEW p \in Pods,
         \/ Mint(p) \/ LoseReply(p) \/ WriteToken(p) \/ MintFailed(p)
         \/ Mismatch(p) \/ Wake(p) \/ Die(p) \/ StartOthers(p)
  PROVE  Types'
<1>1. UNCHANGED <<mode, resolved, writing, stage, object, submitted, injected>>
  BY DEF Mint, LoseReply, WriteToken, MintFailed, Mismatch, Wake, Die, StartOthers,
    upsert, pod
<1>2. budget' \in [{"abandons", "faults", "deaths", "sidecars", "overlaps"} -> Nat]
  BY UseKeepsBudget
  DEF Mint, LoseReply, WriteToken, MintFailed, Mismatch, Wake, Die, StartOthers, Types, TypeOK
<1>3. /\ agent' \in [Pods -> {"none", "ask", "wait", "sleep", "ended"}]
      /\ reply' \in [Pods -> Replies \union {Absent}]
      /\ \A q \in Pods : (reply'[q] # Absent) = (agent'[q] = "wait")
  <2>1. CASE Mint(p)
    <3>1. Answer(p) \in Replies /\ Answer(p) # Absent
      BY Answers
    <3> QED
      BY <2>1, <3>1 DEF Mint, Become, Types, TypeOK
  <2>2. CASE ~Mint(p)
    BY <2>2
    DEF LoseReply, WriteToken, MintFailed, Mismatch, Wake, Die, StartOthers, Become,
      Types, TypeOK
  <2> QED
    BY <2>1, <2>2
<1>4. file' \in [Pods -> Specs \union {Absent}]
  <2>1. CASE WriteToken(p)
    <3>1. reply[p] \in Replies
      BY <2>1 DEF WriteToken, Types, TypeOK
    <3>2. reply[p].spec \in Specs
      BY <2>1, <3>1 DEF WriteToken, Replies, Retry, Conflict, Token
    <3> QED
      BY <2>1, <3>2 DEF WriteToken, Types
  <2>2. CASE ~WriteToken(p)
    BY <2>2 DEF Mint, LoseReply, MintFailed, Mismatch, Wake, Die, StartOthers, Types
  <2> QED
    BY <2>1, <2>2
<1>5. ready' \in [Pods -> BOOLEAN] /\ started' \in [Pods -> BOOLEAN]
  BY DEF Mint, LoseReply, WriteToken, MintFailed, Mismatch, Wake, Die, StartOthers, Types
<1>6. torn' \in [Pods -> BOOLEAN]
  <2>1. CASE Mint(p)
    <3> DEFINE t == torn[p] \/ (Answer(p).kind = "token" /\ ~Whole)
    <3>1. t \in BOOLEAN
      BY DEF Types, Whole
    <3>2. torn' = [torn EXCEPT ![p] = t]
      BY <2>1 DEF Mint
    <3> HIDE DEF t
    <3> QED
      BY <3>1, <3>2 DEF Types
  <2>2. CASE ~Mint(p)
    BY <2>2 DEF LoseReply, WriteToken, MintFailed, Mismatch, Wake, Die, StartOthers, Types
  <2> QED
    BY <2>1, <2>2
<1> QED
  BY <1>1, <1>2, <1>3, <1>4, <1>5, <1>6 DEF Types, TypeOK

LEMMA TypesStep ==
  ASSUME IInv, [Next]_vars
  PROVE  Types'
<1>1. CASE UNCHANGED vars
  BY <1>1 DEF vars, upsert, pod, agents, IInv, Types, TypeOK
<1>2. CASE Next
  BY <1>2, ControllersKeepTypes, ReviewsKeepTypes, RunKeepsTypes, AgentsKeepTypes
  DEF Next, IInv, PodInv
<1> QED
  BY <1>1, <1>2

(***************************************************************************)
(* The steps.                                                              *)
(***************************************************************************)
Same(q) ==
  /\ stage'[q] = stage[q] /\ object'[q] = object[q] /\ injected'[q] = injected[q]
  /\ agent'[q] = agent[q] /\ reply'[q] = reply[q] /\ ready'[q] = ready[q]
  /\ file'[q] = file[q] /\ started'[q] = started[q] /\ torn'[q] = torn[q]
  /\ submitted'[q] = submitted[q]

LEMMA SameKeeps ==
  ASSUME NEW q \in Pods, PodInv(q), Same(q)
  PROVE  PodInv(q)'
BY DEF Same, PodInv, PodOK, AgentOK, Fits, OfHash, HasAgent, PatchOK

\* A step of one pod is no step of another.
LEMMA OnePod ==
  ASSUME Types, NEW p \in Pods, NEW q \in Pods, p # q,
         \/ Submit(p) \/ Sidecar(p) \/ Pass(p) \/ Refuse(p) \/ Inject(p) \/ ReviewFails(p)
         \/ Run(p) \/ Mint(p) \/ LoseReply(p) \/ WriteToken(p) \/ MintFailed(p)
         \/ Mismatch(p) \/ Wake(p) \/ Die(p) \/ StartOthers(p)
  PROVE  Same(q)
<1> USE DEF Same, pod, agents, Decide, Become, Types, TypeOK
<1>1. CASE Submit(p) \/ Sidecar(p) \/ Pass(p) \/ Refuse(p) \/ Inject(p) \/ ReviewFails(p)
  BY <1>1 DEF Submit, Sidecar, Pass, Refuse, Inject, ReviewFails, FailOrSkip
<1>2. CASE Run(p) \/ Mint(p) \/ LoseReply(p) \/ WriteToken(p) \/ MintFailed(p)
  BY <1>2 DEF Run, Mint, LoseReply, WriteToken, MintFailed
<1>3. CASE Mismatch(p) \/ Wake(p) \/ Die(p) \/ StartOthers(p)
  BY <1>3 DEF Mismatch, Wake, Die, StartOthers
<1> QED
  BY <1>1, <1>2, <1>3

LEMMA SubmitStep ==
  ASSUME Types, NEW p \in Pods, PodInv(p), Submit(p)
  PROVE  PodInv(p)'
<1>1. PICK new \in Shapes : /\ object' = [object EXCEPT ![p] = new]
                            /\ submitted' = [submitted EXCEPT ![p] = new]
  BY DEF Submit
<1>2. object'[p] = new /\ submitted'[p] = new /\ stage'[p] = "submitted"
  BY <1>1 DEF Submit, Decide, Types, TypeOK
<1>3. UNCHANGED <<injected, agent, reply, ready, file, started, torn>>
  BY DEF Submit, agents
<1>4. PodOK(p)'
  BY <1>2, <1>3, ShapesAssumption DEF Submit, PodInv, PodOK
<1>5. AgentOK(p)'
  BY <1>2, <1>3 DEF Submit, PodInv, AgentOK
<1>6. Fits(p)' /\ PatchOK(p)'
  BY <1>2, <1>4 DEF PodOK, Fits, PatchOK
<1> QED
  BY <1>4, <1>5, <1>6 DEF PodInv

LEMMA SidecarStep ==
  ASSUME Types, NEW p \in Pods, PodInv(p), Sidecar(p)
  PROVE  PodInv(p)'
<1> DEFINE old == object[p]
<1>1. PICK name \in Sidecars :
        LET added == [name |-> name, env |-> <<>>, mounts |-> {}] IN
        /\ ~HasContainer(old, name)
        /\ object' = [object EXCEPT ![p].containers = Append(@, added)]
        /\ submitted' = IF stage[p] = "submitted"
                        THEN [submitted EXCEPT ![p].containers = Append(@, added)]
                        ELSE submitted
  BY DEF Sidecar
<1> DEFINE added == [name |-> name, env |-> <<>>, mounts |-> {}]
<1> DEFINE With(pd) == [pd EXCEPT !.containers = Append(pd.containers, added)]
<1> DEFINE new == With(old)
<1>2. added.name = name /\ IsContainer(added) /\ added.name # Agent
  <2>1. added = [name |-> added.name, env |-> added.env, mounts |-> added.mounts]
    OBVIOUS
  <2>2. added.env \in Seq(ToSet(added.env))
    OBVIOUS
  <2>3. IsContainer(added)
    <3> HIDE DEF added
    <3> QED
      BY <2>1, <2>2 DEF IsContainer
  <2> QED
    BY <2>3, SidecarsAssumption
<1>3. stage[p] \in {"submitted", "reviewed"} /\ IsPod(old)
  BY DEF Sidecar, PodInv, PodOK
<1>4. /\ object'[p] = new
      /\ stage[p] = "submitted" => submitted'[p] = With(submitted[p])
      /\ stage[p] # "submitted" => submitted'[p] = submitted[p]
  BY <1>1 DEF Types
<1>5. UNCHANGED <<stage, injected, agent, reply, ready, file, started, torn>>
  BY DEF Sidecar, agents
<1>6. /\ IsPod(new)
      /\ HashOf(new) = HashOf(old)
      /\ RunsAgent(new) = RunsAgent(old)
      /\ AgentFirst(old) => AgentFirst(new)
  <2> HIDE DEF added, old
  <2> QED
    BY <1>2, <1>3, AppendedContainer
<1>7. ASSUME NEW pd, NEW aws, Patched(pd, old, aws)
      PROVE  Patched(pd, new, aws)
  <2> HIDE DEF added, old
  <2> QED
    BY <1>3, <1>7, AppendKeepsPatched
<1> HIDE DEF new, added
<1>8. PodOK(p)'
  BY <1>3, <1>4, <1>5, <1>6 DEF PodInv, PodOK
<1>9. AgentOK(p)'
  BY <1>3, <1>5 DEF PodInv, AgentOK
<1>10. Fits(p)'
  BY <1>3, <1>4, <1>5, <1>6 DEF PodInv, AgentOK, Fits, OfHash, Types, TypeOK
<1>11. PatchOK(p)'
  <2>1. CASE stage[p] = "submitted"
    BY <1>4, <1>5, <2>1 DEF PodInv, PodOK, PatchOK, new
  <2>2. CASE stage[p] # "submitted"
    BY <1>4, <1>5, <1>7, <2>2 DEF PodInv, PatchOK
  <2> QED
    BY <2>1, <2>2
<1> QED
  BY <1>8, <1>9, <1>10, <1>11 DEF PodInv

\* A review that leaves the pod as it is.
LEMMA PassStep ==
  ASSUME Types, NEW p \in Pods, PodInv(p), Pass(p) \/ Refuse(p) \/ ReviewFails(p)
  PROVE  PodInv(p)'
<1>1. /\ stage[p] = "submitted" /\ stage'[p] \in {"reviewed", "denied"}
      /\ UNCHANGED <<object, submitted, injected, agent, reply, ready, file, started, torn>>
  BY DEF Pass, Refuse, ReviewFails, FailOrSkip, Decide, agents, Types, TypeOK
<1> QED
  BY <1>1 DEF PodInv, PodOK, AgentOK, Fits, PatchOK

LEMMA InjectStep ==
  ASSUME Types, NEW p \in Pods, PodInv(p), Inject(p)
  PROVE  PodInv(p)'
<1> DEFINE new ==
      BuildPodPatch(object[p], Account, resolved.status.hash, resolved.spec.aws)
<1>1. /\ stage[p] = "submitted" /\ stage'[p] = "reviewed"
      /\ object'[p] = new
      /\ injected'[p] = resolved.spec.aws
      /\ torn'[p] = ~Whole
      /\ UNCHANGED <<submitted, agent, reply, ready, file, started>>
  BY DEF Inject, Decide, agents, Types, TypeOK
<1>2. IsPod(object[p]) /\ ~HasContainer(object[p], Agent)
  BY <1>1 DEF Inject, PodInv, PodOK
<1>3. /\ IsPod(new) /\ AgentFirst(new)
      /\ HashOf(new) = resolved.status.hash
      /\ Patched(object[p], new, resolved.spec.aws)
  BY <1>2, PatchedPod, PatchAddsAgent, PatchPatches
<1> HIDE DEF new
<1>4. PodOK(p)'
  BY <1>1, <1>3 DEF PodOK
<1>5. AgentOK(p)' /\ file[p] = Absent /\ reply[p] = Absent
  BY <1>1 DEF PodInv, AgentOK, Types, TypeOK
<1>6. Fits(p)'
  <2> SUFFICES ASSUME Whole PROVE Fits(p)'
    BY <1>1 DEF Fits
  <2>1. PICK o \in Outcomes : resolved = [spec |-> o.spec, status |-> o.status]
    BY DEF Whole, Inject
  <2>2. /\ resolved.status.hash = o.status.hash
        /\ resolved.spec.aws = o.spec.aws
        /\ resolved.status.hash # NoHash
    BY <2>1 DEF Inject, IsComplete
  <2> QED
    BY <1>1, <1>3, <1>5, <2>2 DEF Fits
<1>7. PatchOK(p)'
  BY <1>1, <1>3 DEF PodInv, PatchOK
<1> QED
  BY <1>4, <1>5, <1>6, <1>7 DEF PodInv

LEMMA RunStep ==
  ASSUME Types, NEW p \in Pods, PodInv(p), Run(p)
  PROVE  PodInv(p)'
<1>1. /\ stage[p] = "reviewed" /\ stage'[p] = "running"
      /\ HasAgent(p) => started'[p] = started[p]
      /\ UNCHANGED <<object, submitted, injected, reply, ready, file, torn>>
  BY DEF Run, Decide, Types, TypeOK
<1>2. HasAgent(p)' = HasAgent(p)
  BY <1>1 DEF HasAgent
<1> QED
  BY <1>1, <1>2 DEF PodInv, PodOK, AgentOK, Fits, OfHash, PatchOK

LEMMA MintStep ==
  ASSUME Types, NEW p \in Pods, PodInv(p), Mint(p)
  PROVE  PodInv(p)'
<1>1. /\ agent[p] = "ask" /\ reply'[p] = Answer(p)
      /\ torn'[p] = (torn[p] \/ (Answer(p).kind = "token" /\ ~Whole))
      /\ UNCHANGED <<stage, object, submitted, injected, ready, file, started>>
  BY DEF Mint, pod, Types, TypeOK
<1>2. stage[p] = "running"
  BY <1>1 DEF PodInv, AgentOK
<1>3. PodOK(p)' /\ AgentOK(p)' /\ PatchOK(p)'
  BY <1>1, <1>2 DEF PodInv, PodOK, AgentOK, HasAgent, PatchOK
<1>4. ASSUME Answer(p).kind = "token", Whole
      PROVE  OfHash(p, Answer(p).spec)
  BY <1>4, Answers DEF OfHash, Whole
<1>5. Fits(p)'
  BY <1>1, <1>4 DEF PodInv, Fits, OfHash
<1> QED
  BY <1>3, <1>5 DEF PodInv

LEMMA WriteTokenStep ==
  ASSUME Types, NEW p \in Pods, PodInv(p), WriteToken(p)
  PROVE  PodInv(p)'
<1>1. /\ agent[p] = "wait" /\ reply[p] # Absent /\ reply[p].kind = "token"
      /\ file'[p] = reply[p].spec /\ ready'[p] /\ reply'[p] = Absent
      /\ UNCHANGED <<stage, object, submitted, injected, started, torn>>
  BY DEF WriteToken, pod, Types, TypeOK
<1>2. file'[p] # Absent
  BY <1>1, AbsentAssumption DEF Types, Replies, Retry, Conflict, Token
<1>3. stage[p] = "running"
  BY <1>1 DEF PodInv, AgentOK
<1> QED
  BY <1>1, <1>2, <1>3 DEF PodInv, PodOK, AgentOK, HasAgent, Fits, OfHash, PatchOK

LEMMA AgentStep ==
  ASSUME Types, NEW p \in Pods, PodInv(p),
         \/ LoseReply(p) \/ MintFailed(p) \/ Mismatch(p) \/ Wake(p) \/ Die(p)
         \/ StartOthers(p)
  PROVE  PodInv(p)'
<1>1. /\ UNCHANGED <<stage, object, submitted, injected, file, torn>>
      /\ reply'[p] = reply[p] \/ reply'[p] = Absent
      /\ ready'[p] => ready[p]
      /\ started'[p] => started[p] \/ ready[p]
      /\ agent[p] = "none" => UNCHANGED <<agent, ready>>
  BY DEF LoseReply, MintFailed, Mismatch, Wake, Die, StartOthers, Become, pod, Types, TypeOK
<1>2. PodOK(p)' /\ PatchOK(p)'
  BY <1>1 DEF PodInv, PodOK, PatchOK
<1>3. AgentOK(p)'
  BY <1>1 DEF PodInv, AgentOK, HasAgent
<1>4. Fits(p)'
  BY <1>1 DEF PodInv, Fits, OfHash
<1> QED
  BY <1>2, <1>3, <1>4 DEF PodInv

LEMMA StepIInv == IInv /\ [Next]_vars => IInv'
<1> SUFFICES ASSUME IInv, [Next]_vars, NEW q \in Pods PROVE PodInv(q)'
  BY TypesStep DEF IInv
<1>1. Types /\ PodInv(q)
  BY DEF IInv
<1>2. ASSUME Same(q) PROVE PodInv(q)'
  BY <1>1, <1>2, SameKeeps
<1>3. CASE UNCHANGED vars
  BY <1>2, <1>3 DEF Same, vars, pod, agents
<1>4. ASSUME NEW v \in Writers, Write(v) \/ Abandon(v) PROVE PodInv(q)'
  BY <1>2, <1>4 DEF Same, Write, Abandon, pod, agents
<1>5. ASSUME NEW p \in Pods,
             \/ Submit(p) \/ Sidecar(p) \/ Pass(p) \/ Refuse(p) \/ Inject(p) \/ ReviewFails(p)
             \/ Run(p) \/ Mint(p) \/ LoseReply(p) \/ WriteToken(p) \/ MintFailed(p)
             \/ Mismatch(p) \/ Wake(p) \/ Die(p) \/ StartOthers(p)
      PROVE  PodInv(q)'
  <2>1. CASE p # q
    BY <1>1, <1>2, <1>5, <2>1, OnePod
  <2>2. CASE p = q
    BY <1>1, <1>5, <2>2, SubmitStep, SidecarStep, PassStep, InjectStep, RunStep, MintStep,
      WriteTokenStep, AgentStep
  <2> QED
    BY <2>1, <2>2
<1> QED
  BY <1>3, <1>4, <1>5 DEF Next

THEOREM Invariance == Spec => []IInv
BY InitIInv, StepIInv, PTL DEF Spec

(***************************************************************************)
(* The theorems.                                                           *)
(***************************************************************************)
\* Every reachable state has its types, and an agent waits exactly for as long
\* as the answer of mint has not arrived.
THEOREM TypeCorrect == Spec => []TypeOK
<1>1. IInv => TypeOK
  BY DEF IInv, Types
<1> QED
  BY <1>1, Invariance, PTL

\* The startup probe of the agent holds the other containers back until there is
\* a token in the file, whatever fails and restarts before.
THEOREM TokensBeforeContainers == Spec => []StartsWithToken
<1>1. IInv => StartsWithToken
  BY DEF IInv, PodInv, AgentOK, StartsWithToken, Types
<1> QED
  BY <1>1, Invariance, PTL

\* mint never answers a pod with a token for another service account.
THEOREM SubjectsAreCompared == Spec => []OwnTokensOnly
<1>1. IInv => OwnTokensOnly
  BY OthersAssumption DEF IInv, Types, OwnTokensOnly
<1> QED
  BY <1>1, Invariance, PTL

\* The comparison of hashes in mint keeps the token of a pod with its settings,
\* if its object was never read between the two requests that write it.
THEOREM HashTiesTokenToRole == Spec => []TokenFitsRole
<1>1. IInv => TokenFitsRole
  <2> SUFFICES ASSUME IInv, NEW p \in Pods, injected[p] # NoAws, file[p] # Absent, ~torn[p]
               PROVE  file[p].aws = injected[p]
    BY DEF TokenFitsRole, IInv, Types
  <2>1. Fits(p)
    BY DEF IInv, PodInv
  <2>2. PICK o \in Outcomes : o.spec.aws = injected[p] /\ o.status.hash = HashOf(object[p])
    BY <2>1 DEF Fits
  <2>3. PICK q \in Outcomes : q.spec = file[p] /\ q.status.hash = HashOf(object[p])
    BY <2>1 DEF Fits, OfHash
  <2>4. o.spec = q.spec
    BY <2>1, <2>2, <2>3, HashAssumption DEF Fits
  <2> QED
    BY <2>2, <2>3, <2>4
<1> QED
  BY <1>1, Invariance, PTL

\* The patch puts the agent first, and a pod that has one is not patched again.
THEOREM AgentPrecedesOthers == Spec => []OneAgentFirst
<1>1. IInv => OneAgentFirst
  BY DEF IInv, PodInv, PodOK, OneAgentFirst, HasAgent
<1> QED
  BY <1>1, Invariance, PTL

\* Where the containers of a pod are.
LEMMA ContainersOf ==
  ASSUME NEW pd, IsPod(pd)
  PROVE  \E m, n \in Nat :
           /\ Len(pd.init) = m /\ Len(pd.containers) = n
           /\ \E S : AllContainers(pd) \in Seq(S)
           /\ Len(AllContainers(pd)) = m + n
           /\ \A i \in 1 .. m : AllContainers(pd)[i] = pd.init[i]
           /\ \A i \in 1 .. n : AllContainers(pd)[m + i] = pd.containers[i]
           /\ \A i \in 1 .. m : pd.init[i] \in ToSet(pd.init) /\ IsContainer(pd.init[i])
           /\ \A i \in 1 .. n : /\ pd.containers[i] \in ToSet(pd.containers)
                                /\ IsContainer(pd.containers[i])
<1> DEFINE S == ToSet(pd.init) \union ToSet(pd.containers)
<1>1. PICK init, cs : init = pd.init /\ cs = pd.containers
  OBVIOUS
<1>2. /\ pd.init \in Seq(ToSet(pd.init)) /\ pd.containers \in Seq(ToSet(pd.containers))
      /\ \A c \in S : IsContainer(c)
  BY DEF IsPod
<1>3. PICK m \in Nat, n \in Nat :
        /\ Len(pd.init) = m /\ DOMAIN pd.init = 1 .. m
        /\ Len(pd.containers) = n /\ DOMAIN pd.containers = 1 .. n
  BY Lengths
<1>4. /\ \A i \in 1 .. m : pd.init[i] \in ToSet(pd.init)
      /\ \A i \in 1 .. n : pd.containers[i] \in ToSet(pd.containers)
  BY <1>3 DEF ToSet
<1>5. init \in Seq(S) /\ cs \in Seq(S)
  BY <1>1, <1>2
<1>6. /\ \A i \in 1 .. m : IsContainer(pd.init[i])
      /\ \A i \in 1 .. n : IsContainer(pd.containers[i])
  BY <1>2, <1>4
<1> HIDE DEF S
<1>7. /\ init \o cs \in Seq(S)
      /\ Len(init \o cs) = m + n
      /\ \A i \in 1 .. m + n : (init \o cs)[i] = IF i <= m THEN init[i] ELSE cs[i - m]
  BY <1>1, <1>3, <1>5, ConcatProperties
<1>8. \A i \in 1 .. m : (init \o cs)[i] = init[i]
  <2> SUFFICES ASSUME NEW i \in 1 .. m PROVE (init \o cs)[i] = init[i]
    OBVIOUS
  <2>1. i \in 1 .. m + n /\ i <= m
    OBVIOUS
  <2> QED
    BY <1>7, <2>1
<1>9. \A i \in 1 .. n : (init \o cs)[m + i] = cs[i]
  <2> SUFFICES ASSUME NEW i \in 1 .. n PROVE (init \o cs)[m + i] = cs[i]
    OBVIOUS
  <2>1. m + i \in 1 .. m + n /\ ~(m + i <= m) /\ (m + i) - m = i
    OBVIOUS
  <2> QED
    BY <1>7, <2>1
<1>10. AllContainers(pd) = init \o cs
  BY <1>1 DEF AllContainers
<1>11. /\ Len(AllContainers(pd)) = m + n
       /\ \A i \in 1 .. m : AllContainers(pd)[i] = pd.init[i]
       /\ \A i \in 1 .. n : AllContainers(pd)[m + i] = pd.containers[i]
  BY <1>1, <1>7, <1>8, <1>9, <1>10
<1>12. \E T : AllContainers(pd) \in Seq(T)
  BY <1>7, <1>10
<1> WITNESS m \in Nat, n \in Nat
<1> QED
  BY <1>3, <1>4, <1>6, <1>11, <1>12

\* Of a variable that is set once every reader sees the one value.
LEMMA GivenIsSeen ==
  ASSUME NEW c, IsEnv(c.env), NEW name, NEW value,
         Given(c.env, name, value), SetOnce(c.env, name)
  PROVE  IsSet(c, name) /\ ValueOf(c, name) = value
<1>1. PICK i \in Places(c.env, name) : c.env[i][2] = value
  BY DEF Given
<1>2. \A j \in Places(c.env, name) : j = i
  BY <1>1 DEF SetOnce
<1>3. PICK e, P : e = c.env /\ P = Places(c.env, name)
  OBVIOUS
<1>4. P = {i} /\ i \in Nat
  <2>1. DOMAIN c.env = 1 .. Len(c.env)
    BY EnvPlaces
  <2> QED
    BY <1>1, <1>2, <1>3, <2>1 DEF Places
<1>5. LastPlace(c.env, name) = CHOOSE l \in P : \A j \in P : l >= j
  BY <1>3 DEF LastPlace
<1>6. (CHOOSE l \in P : \A j \in P : l >= j) \in P
  BY <1>4
<1> QED
  BY <1>1, <1>3, <1>4, <1>5, <1>6 DEF IsSet, ValueOf

\* The containers of a patched pod are the agent, those that were there, in their
\* order and injected, and what was appended since.
LEMMA ContainersAreInjected ==
  ASSUME NEW pd, NEW ob, IsPod(pd), IsPod(ob), NEW aws, Patched(pd, ob, aws)
  PROVE  LET old == AllContainers(pd)
             new == Tail(AllContainers(ob)) IN
         /\ Len(old) <= Len(new)
         /\ \A i \in DOMAIN old : IsContainer(old[i]) /\ new[i] = InjectAws(old[i], aws)
<1> DEFINE old == AllContainers(pd)
<1> DEFINE new == Tail(AllContainers(ob))
<1>2. PICK m \in Nat, n \in Nat :
        /\ Len(pd.init) = m /\ Len(pd.containers) = n
        /\ Len(old) = m + n
        /\ \E S : old \in Seq(S)
        /\ \A i \in 1 .. m : old[i] = pd.init[i]
        /\ \A i \in 1 .. n : old[m + i] = pd.containers[i]
        /\ \A i \in 1 .. m : IsContainer(pd.init[i])
        /\ \A i \in 1 .. n : IsContainer(pd.containers[i])
  BY ContainersOf
<1> DEFINE all == AllContainers(ob)
<1>3. PICK k \in Nat :
        /\ all = AllContainers(ob) /\ n <= k
        /\ Len(all) = m + 1 + k
        /\ \E S : all \in Seq(S)
        /\ \A i \in 1 .. m + 1 : all[i] = ob.init[i]
        /\ \A i \in 1 .. k : all[m + 1 + i] = ob.containers[i]
  <2>1. PICK l \in Nat, k \in Nat :
          /\ Len(ob.init) = l /\ Len(ob.containers) = k
          /\ Len(AllContainers(ob)) = l + k
          /\ \E S : AllContainers(ob) \in Seq(S)
          /\ \A i \in 1 .. l : AllContainers(ob)[i] = ob.init[i]
          /\ \A i \in 1 .. k : AllContainers(ob)[l + i] = ob.containers[i]
    BY ContainersOf
  <2>2. l = m + 1 /\ n <= k
    BY <1>2, <2>1 DEF Patched
  <2> QED
    BY <2>1, <2>2
<1> HIDE DEF all
<1>4. /\ Len(new) = m + k
      /\ \A i \in 1 .. m + k : new[i] = all[i + 1]
  <2>1. new = Tail(all)
    BY <1>3
  <2>2. PICK S : all \in Seq(S)
    BY <1>3
  <2>3. all # <<>>
    BY <1>3, <2>2
  <2>4. /\ Len(Tail(all)) = Len(all) - 1
        /\ \A i \in 1 .. Len(Tail(all)) : Tail(all)[i] = all[i + 1]
    BY <2>2, <2>3, HeadTailProperties
  <2>5. Len(Tail(all)) = m + k
    BY <1>3, <2>4
  <2> QED
    BY <2>1, <2>4, <2>5
<1>5. /\ \A i \in 1 .. m : new[i] = ob.init[i + 1]
      /\ \A i \in 1 .. n : new[m + i] = ob.containers[i]
  <2>1. ASSUME NEW i \in 1 .. m PROVE new[i] = ob.init[i + 1]
    <3>1. i \in 1 .. m + k /\ i + 1 \in 1 .. m + 1
      OBVIOUS
    <3> HIDE DEF new
    <3> QED
      BY <1>3, <1>4, <3>1
  <2>2. ASSUME NEW i \in 1 .. n PROVE new[m + i] = ob.containers[i]
    <3>1. m + i \in 1 .. m + k /\ i \in 1 .. k /\ (m + i) + 1 = m + 1 + i
      BY <1>3
    <3> HIDE DEF new
    <3> QED
      BY <1>3, <1>4, <3>1
  <2> HIDE DEF new
  <2> QED
    BY <2>1, <2>2
<1>6. DOMAIN old = 1 .. m + n
  <2>1. PICK S, s : s = old /\ s \in Seq(S)
    BY <1>2
  <2> QED
    BY <1>2, <2>1, LenProperties
<1> HIDE DEF old, new
<1>7. ASSUME NEW i \in DOMAIN old
      PROVE  IsContainer(old[i]) /\ new[i] = InjectAws(old[i], aws)
  <2>1. /\ \A j \in 1 .. m : ob.init[j + 1] = InjectAws(pd.init[j], aws)
        /\ \A j \in 1 .. n : ob.containers[j] = InjectAws(pd.containers[j], aws)
    BY <1>2 DEF Patched
  <2>2. CASE i \in 1 .. m
    BY <1>2, <1>5, <2>1, <2>2
  <2>3. CASE i \notin 1 .. m
    <3>1. i - m \in 1 .. n /\ i = m + (i - m)
      BY <1>6, <2>3
    <3>2. PICK j \in 1 .. n : i = m + j
      BY <3>1
    <3> QED
      BY <1>2, <1>5, <2>1, <3>2
  <2> QED
    BY <2>2, <2>3
<1>8. Len(old) <= Len(new)
  <2>1. Len(old) = m + n /\ Len(new) = m + k
    BY <1>2, <1>4
  <2> QED
    BY <1>3, <2>1
<1> QED
  BY <1>7, <1>8 DEF old, new

\* Unless it sets a variable twice or mounts the token's volume elsewhere, a
\* container gets the settings of the AWS block and the directory with the token,
\* whatever it set before.
THEOREM SettingsArrive == Spec => []SettingsReachContainers
<1>1. IInv => SettingsReachContainers
  <2> SUFFICES ASSUME IInv, NEW p \in Pods, injected[p] # NoAws
               PROVE  LET old == AllContainers(submitted[p])
                          new == Tail(AllContainers(object[p])) IN
                      /\ TokenMount[1] \in Volumes(object[p])
                      /\ \A i \in DOMAIN old :
                           /\ MountedElsewhere(old[i]) \/ TokenMount \in new[i].mounts
                           /\ \A e \in AwsEnv(injected[p]) :
                                \/ SetTwice(old[i], e[1])
                                \/ IsSet(new[i], e[1]) /\ ValueOf(new[i], e[1]) = e[2]
    BY DEF SettingsReachContainers
  <2> DEFINE old == AllContainers(submitted[p])
  <2> DEFINE new == Tail(AllContainers(object[p]))
  <2>1. IsPod(object[p]) /\ IsPod(submitted[p])
        /\ Patched(submitted[p], object[p], injected[p])
    BY DEF IInv, PodInv, PodOK, PatchOK, Types, TypeOK, Patched
  <2>2. \A i \in DOMAIN old : IsContainer(old[i]) /\ new[i] = InjectAws(old[i], injected[p])
    BY <2>1, ContainersAreInjected
  <2> HIDE DEF old, new
  <2>3. ASSUME NEW i \in DOMAIN old
        PROVE  /\ MountedElsewhere(old[i]) \/ TokenMount \in new[i].mounts
               /\ \A e \in AwsEnv(injected[p]) :
                    \/ SetTwice(old[i], e[1])
                    \/ IsSet(new[i], e[1]) /\ ValueOf(new[i], e[1]) = e[2]
    <3>1. PICK c, d : c = old[i] /\ d = new[i]
      OBVIOUS
    <3>2. IsContainer(c) /\ d = InjectAws(c, injected[p])
      BY <2>2, <3>1
    <3>3. /\ MountedElsewhere(c) \/ TokenMount \in d.mounts
          /\ \A e \in AwsEnv(injected[p]) : Given(d.env, e[1], e[2])
          /\ ChangesOnly(c.env, d.env, Asked(injected[p]))
      BY <3>2, InjectedContainer
    <3>4. IsEnv(d.env) /\ \A name : SetOnce(c.env, name) => SetOnce(d.env, name)
      BY <3>3 DEF ChangesOnly
    <3>5. ASSUME NEW e \in AwsEnv(injected[p]), ~SetTwice(c, e[1])
          PROVE  IsSet(d, e[1]) /\ ValueOf(d, e[1]) = e[2]
      <4>1. SetOnce(d.env, e[1])
        BY <3>4, <3>5 DEF SetOnce, SetTwice
      <4> QED
        BY <3>3, <3>4, <4>1, GivenIsSeen
    <3> QED
      BY <3>1, <3>3, <3>5
  <2>4. TokenMount[1] \in Volumes(object[p])
    BY <2>1 DEF Patched, TokenMount, TokenVolume
  <2> QED
    BY <2>3, <2>4 DEF old, new
<1> QED
  BY <1>1, Invariance, PTL

\* The patch adds, and takes nothing away but the variables that it sets.
THEOREM RestIsKept == Spec => []PatchKeepsTheRest
<1>1. IInv => PatchKeepsTheRest
  <2> SUFFICES ASSUME IInv, NEW p \in Pods, injected[p] # NoAws
               PROVE  LET old == AllContainers(submitted[p])
                          new == Tail(AllContainers(object[p])) IN
                      /\ submitted[p].volumes \subseteq object[p].volumes
                      /\ Len(old) <= Len(new)
                      /\ \A i \in DOMAIN old :
                           /\ old[i].name = new[i].name
                           /\ old[i].mounts \subseteq new[i].mounts
                           /\ \A e \in ToSet(old[i].env) :
                                e[1] \notin {s[1] : s \in AwsEnv(injected[p])}
                                  => e \in ToSet(new[i].env)
    BY DEF PatchKeepsTheRest
  <2> DEFINE pd == submitted[p]
  <2> DEFINE ob == object[p]
  <2> DEFINE aws == injected[p]
  <2> DEFINE old == AllContainers(pd)
  <2> DEFINE new == Tail(AllContainers(ob))
  <2>1. IsPod(ob) /\ IsPod(pd) /\ Patched(pd, ob, aws)
    BY DEF IInv, PodInv, PodOK, PatchOK, Types, TypeOK, Patched
  <2> HIDE DEF pd, ob, aws
  <2>2. /\ Len(old) <= Len(new)
        /\ \A i \in DOMAIN old : IsContainer(old[i]) /\ new[i] = InjectAws(old[i], aws)
    BY <2>1, ContainersAreInjected
  <2> HIDE DEF old, new
  <2>3. ASSUME NEW i \in DOMAIN old
        PROVE  /\ old[i].name = new[i].name
               /\ old[i].mounts \subseteq new[i].mounts
               /\ \A e \in ToSet(old[i].env) :
                    e[1] \notin Asked(aws) => e \in ToSet(new[i].env)
    BY <2>2, InjectedContainer DEF ChangesOnly
  <2>4. pd.volumes \subseteq ob.volumes
    BY <2>1 DEF Patched
  <2>5. Asked(aws) = {s[1] : s \in AwsEnv(aws)}
    BY DEF Asked, NamesIn
  <2> QED
    BY <2>2, <2>3, <2>4, <2>5 DEF pd, ob, aws, old, new
<1> QED
  BY <1>1, Invariance, PTL

\* In mode Fail, a review that allows a pod to which bindings apply has found an
\* agent or added one.
THEOREM FailModeHolds == Spec => FailModeInjects
<1> DEFINE Reviewed(p) == mode = "Fail" /\ Exists /\ stage[p] = "submitted" /\ stage'[p] = "reviewed"
<1>1. ASSUME IInv, [Next]_vars, NEW q \in Pods, Reviewed(q)
      PROVE  HasContainer(object'[q], Agent)
  <2>1. Types /\ stage \in [Pods -> {"none", "submitted", "reviewed", "denied", "running"}]
    BY <1>1 DEF IInv, Types, TypeOK
  <2>2. stage'[q] # stage[q]
    BY <1>1
  <2>3. ~Same(q) /\ stage' # stage
    BY <2>2 DEF Same
  <2>4. PICK p \in Pods :
          \/ Submit(p) \/ Sidecar(p) \/ Pass(p) \/ Refuse(p) \/ Inject(p) \/ ReviewFails(p)
          \/ Run(p) \/ Mint(p) \/ LoseReply(p) \/ WriteToken(p) \/ MintFailed(p)
          \/ Mismatch(p) \/ Wake(p) \/ Die(p) \/ StartOthers(p)
    BY <1>1, <2>3 DEF Next, Write, Abandon, vars, pod
  <2>5. p = q
    BY <2>1, <2>3, <2>4, OnePod
  <2>6. Pass(q) \/ Refuse(q) \/ Inject(q) \/ ReviewFails(q)
    BY <1>1, <2>1, <2>3, <2>4, <2>5
    DEF Submit, Sidecar, Run, Mint, LoseReply, WriteToken, MintFailed, Mismatch, Wake, Die,
      StartOthers, Decide, pod
  <2>7. CASE Pass(q)
    BY <1>1, <2>7 DEF Pass
  <2>8. CASE Refuse(q) \/ ReviewFails(q)
    BY <1>1, <2>1, <2>8 DEF Refuse, ReviewFails, FailOrSkip, Decide
  <2>9. CASE Inject(q)
    <3> DEFINE new ==
          BuildPodPatch(object[q], Account, resolved.status.hash, resolved.spec.aws)
    <3>1. IsPod(object[q]) /\ ~HasContainer(object[q], Agent) /\ object'[q] = new
      BY <1>1, <2>1, <2>9 DEF Inject, IInv, PodInv, PodOK, Types
    <3> HIDE DEF new
    <3>2. \A b : b = new => HasContainer(b, Agent)
      BY <3>1, PatchAddsAgent DEF new
    <3> QED
      BY <3>1, <3>2
  <2> QED
    BY <2>6, <2>7, <2>8, <2>9
<1>2. IInv /\ [Next]_vars =>
        [\A p \in Pods : Reviewed(p) => HasContainer(object'[p], Agent)]_vars
  BY <1>1
<1> QED
  BY <1>2, Invariance, PTL DEF Spec, FailModeInjects

============================================================================
