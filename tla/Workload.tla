----------------------------- MODULE Workload -----------------------------
(***************************************************************************)
(* The life of the pods of one service account: admission by kif-webhook   *)
(* (admission.rs), the agent that kif-webhook put into them (main.rs of    *)
(* kif-agent) and the tokens that it gets from kif-federation (mint in     *)
(* http.rs), while the controller rewrites the service account's           *)
(* ResolvedCloudRoleBinding as Upsert says.                                *)
(*                                                                         *)
(* Admission and mint each read the object once, spec and status together, *)
(* but at moments of their own; the only thing that ties a pod's settings  *)
(* to its tokens is the hash in the status.                                *)
(***************************************************************************)
EXTENDS Inject

CONSTANTS
  Pods,
  Shapes,       \* the pods that users submit, copies of injected ones among them
  Sidecars,     \* the names of containers that other webhooks add
  Blocks,       \* the AWS provider blocks in use
  NoAws,        \* providers.aws is not set
  Writers,      \* the replicas of the webhook, whose controllers write the object
  Outcomes,     \* what merging the bindings of the service account may yield
  Account,      \* the service account
  OthersObject, \* the ResolvedCloudRoleBinding of another service account
  NoHash,       \* status.configHash is not set
  Absent,       \* an object that does not exist, a field never written
  Modes,        \* values of ADMISSION_FAILURE_MODE and failurePolicy to look at
  Budgets       \* bounds: how many status requests never come (abandons), reviews
                \* and answers of mint fail (faults), agents end for reasons of
                \* their own (deaths), containers other webhooks add (sidecars) and
                \* replicas write while another one does (overlaps)

ASSUME SidecarsAssumption == Agent \notin Sidecars

ASSUME ModesAssumption == Modes \subseteq {"Fail", "Ignore"}

Specs == {o.spec : o \in Outcomes}
Statuses == {o.status : o \in Outcomes}

Retry == [kind |-> "retry"]
Conflict == [kind |-> "conflict"]
Token(spec) == [kind |-> "token", spec |-> spec]
Replies == {Retry, Conflict} \union {Token(spec) : spec \in Specs}

ASSUME AbsentAssumption ==
  Absent \notin Outcomes \union Specs \union Statuses \union Shapes \union Replies

ASSUME BudgetsAssumption ==
  Budgets \subseteq [{"abandons", "faults", "deaths", "sidecars", "overlaps"} -> Nat]

\* The hash in a status is of the spec it belongs to (SHA-256 in merge.rs).
ASSUME HashAssumption ==
  \A o, q \in Outcomes :
    o.status.hash = q.status.hash /\ o.status.hash # NoHash => o.spec = q.spec

ASSUME BlocksAssumption == \A o \in Outcomes : o.spec.aws \in Blocks \union {NoAws}

ASSUME OthersAssumption == OthersObject.spec \notin Specs \union {Absent}

\* Pods are submitted with an agent only if they were copied from pods that the
\* webhook injected.
ASSUME ShapesAssumption ==
  \A s \in Shapes : IsPod(s) /\ (RunsAgent(s) => AgentFirst(s))

VARIABLES
  mode,       \* ADMISSION_FAILURE_MODE, which the chart makes failurePolicy too
  resolved, writing,   \* as in Upsert
  stage,      \* stage[p]: how far pod p has come
  object,     \* object[p]: the pod, or Absent
  agent,      \* agent[p]: what the agent of p does
  reply,      \* reply[p]: the answer of mint on its way to p, or Absent
  ready,      \* ready[p]: the readiness flag of p's agent (startupz)
  file,       \* file[p]: the spec that the token in p's file was minted from
  started,    \* started[p]: the containers behind the agent have started
  \* What the model remembers.
  submitted,  \* submitted[p]: the pod as the webhook first saw it
  injected,   \* injected[p]: the AWS block that the webhook gave p
  torn,       \* torn[p]: p was admitted, or its token minted, from a spec and
              \* a status of two outcomes
  budget      \* what is left of the budget of this behaviour

upsert == <<resolved, writing>>
pod == <<stage, object, submitted, injected>>
agents == <<agent, reply, ready, file, started>>
vars == <<mode, upsert, pod, agents, torn, budget>>

Up == INSTANCE Upsert

Use(bound) ==
  /\ budget[bound] > 0
  /\ budget' = [budget EXCEPT ![bound] = @ - 1]

Exists == resolved.spec # Absent

\* Nothing of the object, or all of it, is of one outcome.
Whole ==
  \/ ~Exists
  \/ \E o \in Outcomes : resolved = [spec |-> o.spec, status |-> o.status]

Init ==
  /\ mode \in Modes
  /\ Up!Init
  /\ stage = [p \in Pods |-> "none"]
  /\ object = [p \in Pods |-> Absent]
  /\ agent = [p \in Pods |-> "none"]
  /\ reply = [p \in Pods |-> Absent]
  /\ ready = [p \in Pods |-> FALSE]
  /\ file = [p \in Pods |-> Absent]
  /\ started = [p \in Pods |-> FALSE]
  /\ submitted = [p \in Pods |-> Absent]
  /\ injected = [p \in Pods |-> NoAws]
  /\ torn = [p \in Pods |-> FALSE]
  /\ budget \in Budgets

(***************************************************************************)
(* The controllers.                                                        *)
(***************************************************************************)
Write(v) ==
  /\ \/ /\ \E o \in Outcomes : Up!PatchSpec(v, o)
        /\ IF \E u \in Writers : writing[u] # Absent THEN Use("overlaps")
           ELSE UNCHANGED budget
     \/ Up!PatchStatus(v) /\ UNCHANGED budget
  /\ UNCHANGED <<mode, pod, agents, torn>>

Abandon(v) ==
  /\ Up!Abandon(v)
  /\ Use("abandons")
  /\ UNCHANGED <<mode, pod, agents, torn>>

(***************************************************************************)
(* Pods are submitted, and change in the hands of other webhooks.          *)
(***************************************************************************)
\* A pod as users write it, or a copy of one that was injected before.
Submit(p) ==
  /\ stage[p] = "none"
  /\ \E new \in Shapes :
       /\ object' = [object EXCEPT ![p] = new]
       /\ submitted' = [submitted EXCEPT ![p] = new]
  /\ stage' = [stage EXCEPT ![p] = "submitted"]
  /\ UNCHANGED <<mode, upsert, injected, agents, torn, budget>>

\* Another webhook appends a container, before or after this one is called (it
\* is called once: the chart sets no reinvocationPolicy).  The API server takes
\* no two containers of one name.
Sidecar(p) ==
  /\ stage[p] \in {"submitted", "reviewed"}
  /\ Use("sidecars")
  /\ \E name \in Sidecars :
     LET added == [name |-> name, env |-> <<>>, mounts |-> {}] IN
     /\ ~HasContainer(object[p], name)
     /\ object' = [object EXCEPT ![p].containers = Append(@, added)]
     /\ submitted' = IF stage[p] = "submitted"
                     THEN [submitted EXCEPT ![p].containers = Append(@, added)]
                     ELSE submitted
  /\ UNCHANGED <<mode, upsert, stage, injected, agents, torn>>

(***************************************************************************)
(* Admission: handle.                                                      *)
(***************************************************************************)
Decide(p, what) == stage' = [stage EXCEPT ![p] = what]

\* (allows the pod whatever the mode)
FailOrSkipAllows(p) ==
  /\ Decide(p, "reviewed")
  /\ UNCHANGED <<object, injected, torn>>

\* fail_or_skip, and what the API server does when the webhook fails.
FailOrSkip(p) ==
  /\ Decide(p, IF mode = "Fail" THEN "denied" ELSE "reviewed")
  /\ UNCHANGED <<object, injected, torn>>

IsReady == resolved.status # Absent /\ resolved.status.ready

\* What the patch is made from is there.  (The schema of the bindings keeps
\* roles from being blank, which would be an error as well.)
IsComplete == resolved.status.hash # NoHash /\ resolved.spec.aws # NoAws

\* The pod has an agent, or its service account no ResolvedCloudRoleBinding.
Pass(p) ==
  /\ stage[p] = "submitted"
  /\ HasContainer(object[p], Agent) \/ ~Exists
  /\ Decide(p, "reviewed")
  /\ UNCHANGED <<mode, upsert, object, submitted, injected, agents, torn, budget>>

\* The object is not ready, or is incomplete, which is an error of the handler.
Refuse(p) ==
  /\ stage[p] = "submitted"
  /\ ~HasContainer(object[p], Agent) /\ Exists
  /\ ~(IsReady /\ IsComplete)
  /\ FailOrSkip(p)
  /\ UNCHANGED <<mode, upsert, submitted, agents, budget>>

\* (injects whether or not there is an agent)
InjectAgain(p) ==
  /\ stage[p] = "submitted"
  /\ Exists /\ IsReady /\ IsComplete
  /\ object' = [object EXCEPT
       ![p] = BuildPodPatch(@, Account, resolved.status.hash, resolved.spec.aws)]
  /\ injected' = [injected EXCEPT ![p] = resolved.spec.aws]
  /\ torn' = [torn EXCEPT ![p] = ~Whole]
  /\ Decide(p, "reviewed")
  /\ UNCHANGED <<mode, upsert, submitted, agents, budget>>

\* The patch takes the AWS block from the spec, and the hash from the status.
Inject(p) ==
  /\ stage[p] = "submitted"
  /\ ~HasContainer(object[p], Agent) /\ Exists
  /\ IsReady /\ IsComplete
  /\ object' = [object EXCEPT
       ![p] = BuildPodPatch(@, Account, resolved.status.hash, resolved.spec.aws)]
  /\ injected' = [injected EXCEPT ![p] = resolved.spec.aws]
  /\ torn' = [torn EXCEPT ![p] = ~Whole]
  /\ Decide(p, "reviewed")
  /\ UNCHANGED <<mode, upsert, submitted, agents, budget>>

\* The request for the object fails, or the API server cannot reach the webhook.
ReviewFails(p) ==
  /\ stage[p] = "submitted"
  /\ Use("faults")
  /\ FailOrSkip(p)
  /\ UNCHANGED <<mode, upsert, submitted, agents>>

Review(p) == Pass(p) \/ Refuse(p) \/ Inject(p)

\* The pod is stored and scheduled; its agent, if it has one, is started first.
HasAgent(p) == object[p] # Absent /\ RunsAgent(object[p])

Run(p) ==
  /\ stage[p] = "reviewed"
  /\ Decide(p, "running")
  /\ IF HasAgent(p)
     THEN agent' = [agent EXCEPT ![p] = "ask"] /\ UNCHANGED started
     ELSE started' = [started EXCEPT ![p] = TRUE] /\ UNCHANGED agent
  /\ UNCHANGED <<mode, upsert, object, submitted, injected, reply, ready, file, torn, budget>>

(***************************************************************************)
(* The agent: refresh_loop, and mint of kif-federation.                    *)
(***************************************************************************)
Become(p, what) == agent' = [agent EXCEPT ![p] = what]

\* get_resolved_binding: the object of the service account that a request names.
ObjectOf(account) == IF account = Account THEN resolved ELSE OthersObject

\* (compares no hashes)
MintReplyUnchecked(account, hash) ==
  LET binding == ObjectOf(account) IN
  IF account # Account THEN Retry
  ELSE IF binding.spec = Absent THEN Retry
  ELSE IF binding.spec.aws = NoAws THEN Retry
  ELSE IF binding.status = Absent THEN Retry
  ELSE Token(binding.spec)

\* (takes the request's word for who asks)
MintReplyToAnyone(account, hash) ==
  LET binding == ObjectOf(account) IN
  IF binding.spec = Absent THEN Retry
  ELSE IF binding.spec.aws = NoAws THEN Retry
  ELSE IF binding.status = Absent THEN Retry
  ELSE IF binding.status.hash = NoHash THEN Retry
  ELSE IF binding.status.hash # hash THEN Conflict
  ELSE Token(binding.spec)

\* What mint answers to a request that names a service account and a hash: 403
\* if the agent's token, which says whose pod it runs in, is of another account,
\* 404 without an object, 400 without an AWS block, 500 without a hash, 409 if
\* the hash is another one.
MintReply(account, hash) ==
  LET binding == ObjectOf(account) IN
  IF account # Account THEN Retry
  ELSE IF binding.spec = Absent THEN Retry
  ELSE IF binding.spec.aws = NoAws THEN Retry
  ELSE IF binding.status = Absent THEN Retry
  ELSE IF binding.status.hash = NoHash THEN Retry
  ELSE IF binding.status.hash # hash THEN Conflict
  ELSE Token(binding.spec)

Answer(p) == MintReply(AccountOf(object[p]), HashOf(object[p]))

\* The federation service reads the object and answers.
Mint(p) ==
  /\ agent[p] = "ask"
  /\ reply' = [reply EXCEPT ![p] = Answer(p)]
  /\ torn' = [torn EXCEPT ![p] = @ \/ (Answer(p).kind = "token" /\ ~Whole)]
  /\ Become(p, "wait")
  /\ UNCHANGED <<mode, upsert, pod, ready, file, started, budget>>

\* (the answer is still taken after the timeout)
LoseReplyLate(p) ==
  /\ agent[p] \in {"ask", "wait"}
  /\ Use("faults")
  /\ Become(p, "sleep")
  /\ UNCHANGED <<mode, upsert, pod, reply, ready, file, started, torn>>

\* The request or its answer is lost or takes more than 10 seconds, or the review
\* of the agent's token fails (401).
LoseReply(p) ==
  /\ agent[p] \in {"ask", "wait"}
  /\ Use("faults")
  /\ reply' = [reply EXCEPT ![p] = Absent]
  /\ Become(p, "sleep")
  /\ UNCHANGED <<mode, upsert, pod, ready, file, started, torn>>

\* (is ready as soon as it has asked)
WriteTokenAnyway(p) ==
  /\ agent[p] = "wait"
  /\ reply[p].kind # "conflict"
  /\ IF reply[p].kind = "token" THEN file' = [file EXCEPT ![p] = reply[p].spec]
     ELSE UNCHANGED file
  /\ ready' = [ready EXCEPT ![p] = TRUE]
  /\ reply' = [reply EXCEPT ![p] = Absent]
  /\ Become(p, "sleep")
  /\ UNCHANGED <<mode, upsert, pod, started, torn, budget>>

\* atomic_write, then the readiness flag.
WriteToken(p) ==
  /\ agent[p] = "wait"
  /\ reply[p].kind = "token"
  /\ file' = [file EXCEPT ![p] = reply[p].spec]
  /\ ready' = [ready EXCEPT ![p] = TRUE]
  /\ reply' = [reply EXCEPT ![p] = Absent]
  /\ Become(p, "sleep")
  /\ UNCHANGED <<mode, upsert, pod, started, torn, budget>>

\* Any other failure than a mismatch of hashes.
MintFailed(p) ==
  /\ agent[p] = "wait"
  /\ reply[p].kind = "retry"
  /\ reply' = [reply EXCEPT ![p] = Absent]
  /\ Become(p, "sleep")
  /\ UNCHANGED <<mode, upsert, pod, ready, file, started, torn, budget>>

\* ConfigHashMismatch: the agent ends with an error.
Mismatch(p) ==
  /\ agent[p] = "wait"
  /\ reply[p].kind = "conflict"
  /\ reply' = [reply EXCEPT ![p] = Absent]
  /\ ready' = [ready EXCEPT ![p] = FALSE]
  /\ Become(p, "ended")
  /\ UNCHANGED <<mode, upsert, pod, file, started, torn, budget>>

\* (does not try again after a request that failed)
WakeNever(p) ==
  /\ agent[p] = "ended"
  /\ Become(p, "ask")
  /\ UNCHANGED <<mode, upsert, pod, reply, ready, file, started, torn, budget>>

\* The sleep before the next attempt is over, or the kubelet has restarted the
\* agent (restartPolicy: Always), with the environment it had.
Wake(p) ==
  /\ agent[p] \in {"sleep", "ended"}
  /\ Become(p, "ask")
  /\ UNCHANGED <<mode, upsert, pod, reply, ready, file, started, torn, budget>>

\* The agent ends for a reason of its own: a write failed, or the startup probe.
\* The volume with the token outlives it.
Die(p) ==
  /\ agent[p] \in {"ask", "wait", "sleep"}
  /\ Use("deaths")
  /\ reply' = [reply EXCEPT ![p] = Absent]
  /\ ready' = [ready EXCEPT ![p] = FALSE]
  /\ Become(p, "ended")
  /\ UNCHANGED <<mode, upsert, pod, file, started, torn>>

\* The startup probe of the agent succeeds, and the other containers start.
StartOthers(p) ==
  /\ ~started[p]
  /\ ready[p]
  /\ started' = [started EXCEPT ![p] = TRUE]
  /\ UNCHANGED <<mode, upsert, pod, agent, reply, ready, file, torn, budget>>

(***************************************************************************)
(* The specification.                                                      *)
(***************************************************************************)
Next ==
  \/ \E v \in Writers : Write(v) \/ Abandon(v)
  \/ \E p \in Pods :
       \/ Submit(p) \/ Sidecar(p) \/ Pass(p) \/ Refuse(p) \/ Inject(p) \/ ReviewFails(p)
       \/ Run(p) \/ Mint(p) \/ LoseReply(p) \/ WriteToken(p) \/ MintFailed(p)
       \/ Mismatch(p) \/ Wake(p) \/ Die(p) \/ StartOthers(p)

Loop(p) == Mint(p) \/ WriteToken(p) \/ MintFailed(p) \/ Mismatch(p) \/ Wake(p)

\* Requests are answered, the kubelet runs and restarts agents and probes them,
\* and a worker that wrote a spec goes on to the status.
Fairness ==
  /\ \A v \in Writers :
       WF_vars(Up!PatchStatus(v) /\ UNCHANGED <<mode, pod, agents, torn, budget>>)
  /\ \A p \in Pods : /\ WF_vars(Run(p))
                     /\ WF_vars(Loop(p))
                     /\ WF_vars(StartOthers(p))

Spec == Init /\ [][Next]_vars /\ Fairness
(***************************************************************************)
(* Properties.                                                             *)
(***************************************************************************)
\* Types; an answer is on its way only while the agent waits for it.
TypeOK ==
  /\ mode \in Modes
  /\ resolved.spec \in Specs \union {Absent}
  /\ resolved.status \in Statuses \union {Absent}
  /\ writing \in [Writers -> Outcomes \union {Absent}]
  /\ stage \in [Pods -> {"none", "submitted", "reviewed", "denied", "running"}]
  /\ agent \in [Pods -> {"none", "ask", "wait", "sleep", "ended"}]
  /\ \A p \in Pods : (reply[p] # Absent) = (agent[p] = "wait")
  /\ file \in [Pods -> Specs \union {OthersObject.spec, Absent}]
  /\ injected \in [Pods -> Blocks \union {NoAws}]
  /\ budget \in [{"abandons", "faults", "deaths", "sidecars", "overlaps"} -> Nat]

\* However often its agent ends and starts again, none of the other containers
\* of a pod with an agent starts before there is a token to read (main.rs: "We
\* don't want to start the main containers until we have our minted tokens").
StartsWithToken == \A p \in Pods : HasAgent(p) /\ started[p] => file[p] # Absent

\* The containers of a pod that the webhook injected run with a role, and the
\* token in its file is for the AWS block of that role: unless the webhook or
\* the federation service read the object between the two requests that write
\* it.  The hash keeps settings and tokens together through any number of
\* changes of the bindings and restarts of the agent.
TokenFitsRole ==
  \A p \in Pods :
    injected[p] # NoAws /\ file[p] # Absent /\ file[p].aws # injected[p] => torn[p]

\* No pod gets a token for the configuration of another service account, also
\* when its agent was copied from a pod of that account and asks in its name
\* (the subject comparison in mint).
OwnTokensOnly == \A p \in Pods : file[p] # OthersObject.spec

\* Every container, init containers too, that was in an injected pod when the
\* webhook saw it is given the settings of the role, and the directory with the
\* token at the place that AWS_WEB_IDENTITY_TOKEN_FILE names.  Two kinds of
\* container are left out, which the code does not serve: of a variable that a
\* container sets twice only the first entry changes, and one that mounts a
\* volume named kif-aws at another place gets no mount where the file should be.
SettingsReachContainers ==
  \A p \in Pods : injected[p] # NoAws =>
    LET old == AllContainers(submitted[p])
        new == Tail(AllContainers(object[p])) IN
    /\ TokenMount[1] \in Volumes(object[p])
    /\ \A i \in DOMAIN old :
         /\ MountedElsewhere(old[i]) \/ TokenMount \in new[i].mounts
         /\ \A e \in AwsEnv(injected[p]) :
              SetTwice(old[i], e[1]) \/ (IsSet(new[i], e[1]) /\ ValueOf(new[i], e[1]) = e[2])

\* The agent precedes every other init container, and there is one of it, also
\* in a pod copied from an injected one.
OneAgentFirst ==
  \A p \in Pods : stage[p] = "running" /\ HasAgent(p) => AgentFirst(object[p])

\* What the user asked for survives the patch: containers in their order, what
\* they mount, their other variables, and the volumes.
PatchKeepsTheRest ==
  \A p \in Pods : injected[p] # NoAws =>
    LET old == AllContainers(submitted[p])
        new == Tail(AllContainers(object[p])) IN
    /\ submitted[p].volumes \subseteq object[p].volumes
    /\ Len(old) <= Len(new)
    /\ \A i \in DOMAIN old :
         /\ old[i].name = new[i].name
         /\ old[i].mounts \subseteq new[i].mounts
         /\ \A e \in ToSet(old[i].env) :
              e[1] \notin {s[1] : s \in AwsEnv(injected[p])} => e \in ToSet(new[i].env)

\* In mode Fail no pod of a service account with a ResolvedCloudRoleBinding
\* gets past the webhook without an agent (or a container that bears its name),
\* whichever of the object's two parts is missing, empty or failed when it is
\* read, and whatever fails meanwhile.
FailModeInjects ==
  [][\A p \in Pods :
       mode = "Fail" /\ Exists /\ stage[p] = "submitted" /\ stage'[p] = "reviewed"
         => HasContainer(object'[p], Agent)]_vars

\* Nothing keeps a pod with an agent from starting but a configuration that
\* cannot be minted from, or a hash that is not the pod's own: lost answers,
\* retries and restarts of the agent come to an end.
Mintable(p) == HasAgent(p) /\ Answer(p).kind = "token"

StartsUnlessChanged ==
  \A p \in Pods :
    (stage[p] = "running" /\ HasAgent(p)) ~> (started[p] \/ ~Mintable(p))

(***************************************************************************)
(* What the documentation says, and the code does not do.                  *)
(***************************************************************************)
\* "Lets you cheaply detect when the effective config changed" (crds.rs), which
\* is what mint compares it for: every token is for the configuration whose
\* hash the pod was admitted with.
ChangeIsDetected ==
  \A p \in Pods : injected[p] # NoAws /\ file[p] # Absent =>
    \E o \in Outcomes : o.spec = file[p] /\ o.status.hash = HashOf(object[p])
===========================================================================
