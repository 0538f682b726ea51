------------------------------ MODULE Inject ------------------------------
(***************************************************************************)
(* The patch that kif-webhook makes to a pod (mutate.rs).                  *)
(*                                                                         *)
(* A container is its name, its environment (a sequence of <<variable,     *)
(* value>>: Kubernetes takes the last of several entries for a variable)   *)
(* and its mounts (<<volume, place>>, the place being the mountPath and    *)
(* what part of the volume appears there); a pod is its volumes (<<name,   *)
(* kind>>), init containers and containers.  An AWS provider block is its  *)
(* role, region and sts_regional_endpoints, with whatever else the token   *)
(* is made from.                                                           *)
(***************************************************************************)
EXTENDS Naturals, SequencesExt

CONSTANTS
  NoRegion   \* aws.region is not set

Agent == "kif-agent"
TokenVolume == <<"kif-aws", "emptyDir">>
SaVolume == <<"kif-sa-token", "projected">>
TokenMount == <<"kif-aws", "/var/run/kif/aws">>
SaMount == <<"kif-sa-token", "/var/run/secrets/kubernetes.io/serviceaccount">>
TokenFile == "/var/run/kif/aws/token"

Volumes(pod) == {v[1] : v \in pod.volumes}

HasContainer(pod, name) ==
  \E c \in ToSet(pod.containers) \union ToSet(pod.init) : c.name = name

\* Adds a volume unless the pod has one of that name, of whatever kind.
EnsureVolume(volumes, volume) ==
  IF volume[1] \in {v[1] : v \in volumes} THEN volumes ELSE volumes \union {volume}

\* Mounts the token's volume unless the container mounts it, wherever.
EnsureMount(mounts) ==
  IF TokenMount[1] \in {m[1] : m \in mounts} THEN mounts ELSE mounts \union {TokenMount}

(***************************************************************************)
(* Environment variables.                                                  *)
(***************************************************************************)
Places(env, name) == {i \in DOMAIN env : env[i][1] = name}

FirstPlace(env, name) ==
  CHOOSE i \in Places(env, name) : \A j \in Places(env, name) : i <= j

\* Sets the first entry of the variable, or adds one.
UpsertEnv(env, entry) ==
  IF Places(env, entry[1]) = {} THEN Append(env, entry)
  ELSE [env EXCEPT ![FirstPlace(env, entry[1])] = entry]

\* The settings of an AWS block, in the order they are set: the role and the
\* file always, the region under two names, and the STS endpoints.
SetRole(env, aws) ==
  UpsertEnv(UpsertEnv(env, <<"AWS_ROLE_ARN", aws.role>>),
            <<"AWS_WEB_IDENTITY_TOKEN_FILE", TokenFile>>)

SetRegion(env, aws) ==
  IF aws.region = NoRegion THEN env
  ELSE UpsertEnv(UpsertEnv(env, <<"AWS_REGION", aws.region>>),
                 <<"AWS_DEFAULT_REGION", aws.region>>)

SetSts(env, aws) ==
  IF aws.sts THEN UpsertEnv(env, <<"AWS_STS_REGIONAL_ENDPOINTS", "regional">>) ELSE env

(***************************************************************************)
(* The patch.                                                              *)
(***************************************************************************)
\* inject_aws_into_app_container
InjectAws(c, aws) ==
  [c EXCEPT !.env = SetSts(SetRegion(SetRole(@, aws), aws), aws),
            !.mounts = EnsureMount(@)]

\* build_agent_container: the agent asks for tokens in the name of account.
AgentContainer(account, hash) ==
  [name   |-> Agent,
   env    |-> << <<"SERVICE_ACCOUNT_NAME", account>>, <<"CONFIG_HASH", hash>> >>,
   mounts |-> {SaMount, TokenMount}]

\* (leaves the init containers as they are)
BuildPodPatchMainOnly(pod, account, hash, aws) ==
  [automount  |-> FALSE,
   volumes    |-> EnsureVolume(EnsureVolume(pod.volumes, SaVolume), TokenVolume),
   init       |-> <<AgentContainer(account, hash)>> \o pod.init,
   containers |-> [i \in DOMAIN pod.containers |-> InjectAws(pod.containers[i], aws)]]

\* (forgets the volumes that were there)
BuildPodPatchDropsVolumes(pod, account, hash, aws) ==
  [automount  |-> FALSE,
   volumes    |-> {SaVolume, TokenVolume},
   init       |-> <<AgentContainer(account, hash)>>
                    \o [i \in DOMAIN pod.init |-> InjectAws(pod.init[i], aws)],
   containers |-> [i \in DOMAIN pod.containers |-> InjectAws(pod.containers[i], aws)]]

\* build_pod_patch: the agent is the first init container, and every other
\* container is given the token and the settings of the role.
BuildPodPatch(pod, account, hash, aws) ==
  [automount  |-> FALSE,
   volumes    |-> EnsureVolume(EnsureVolume(pod.volumes, SaVolume), TokenVolume),
   init       |-> <<AgentContainer(account, hash)>>
                    \o [i \in DOMAIN pod.init |-> InjectAws(pod.init[i], aws)],
   containers |-> [i \in DOMAIN pod.containers |-> InjectAws(pod.containers[i], aws)]]

(***************************************************************************)
(* Reading a pod.                                                          *)
(***************************************************************************)
AllContainers(pod) == pod.init \o pod.containers

IsContainer(c) == c \in [name : {c.name}, env : Seq(ToSet(c.env)), mounts : {c.mounts}]

\* What the patch takes a pod to be.
IsPod(pod) ==
  /\ pod \in [automount : BOOLEAN, volumes : {pod.volumes},
               init : Seq(ToSet(pod.init)), containers : Seq(ToSet(pod.containers))]
  /\ \A c \in ToSet(pod.init) \union ToSet(pod.containers) : IsContainer(c)

\* The value a container sees for a variable, if it is set at all.
IsSet(c, name) == Places(c.env, name) # {}
LastPlace(env, name) ==
  CHOOSE i \in Places(env, name) : \A j \in Places(env, name) : i >= j
ValueOf(c, name) == c.env[LastPlace(c.env, name)][2]

\* What the patch leaves as it finds it: the further entries of a variable, and
\* mounts of the token's volume at other places.
SetTwice(c, name) == \E i, j \in Places(c.env, name) : i # j
MountedElsewhere(c) == \E m \in c.mounts : m[1] = TokenMount[1] /\ m # TokenMount

\* What a container that uses an AWS block has to have set.
AwsEnv(aws) ==
  {<<"AWS_ROLE_ARN", aws.role>>, <<"AWS_WEB_IDENTITY_TOKEN_FILE", TokenFile>>}
  \union (IF aws.region = NoRegion THEN {}
          ELSE {<<"AWS_REGION", aws.region>>, <<"AWS_DEFAULT_REGION", aws.region>>})
  \union (IF aws.sts THEN {<<"AWS_STS_REGIONAL_ENDPOINTS", "regional">>} ELSE {})

RunsAgent(pod) == \E c \in ToSet(pod.init) : c.name = Agent

\* The agent precedes every other container, and there is one of it.
AgentFirst(pod) ==
  /\ pod.init[1].name = Agent
  /\ \A i \in DOMAIN pod.init : pod.init[i].name = Agent => i = 1
  /\ \A c \in ToSet(pod.containers) : c.name # Agent

\* The agent runs as an init container, in the environment that it was given.
AgentOf(pod) == CHOOSE c \in ToSet(pod.init) : c.name = Agent
AccountOf(pod) == ValueOf(AgentOf(pod), "SERVICE_ACCOUNT_NAME")
HashOf(pod) == ValueOf(AgentOf(pod), "CONFIG_HASH")
===========================================================================
