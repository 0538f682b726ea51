# A TLA+ development of kubernetes-identity-federation (kif)

kif lets a pod's Kubernetes ServiceAccount assume a cloud role. Users write
`CloudRoleBinding`s (CRB); a controller merges those of one service account into
a `ResolvedCloudRoleBinding` (RCRB); a mutating webhook puts an agent into the
pods of that service account; the agent exchanges the pod's token for one that
AWS accepts, which a federation service signs; a public issuer serves the keys
to verify it. This directory models those parts in TLA+, checks them with TLC
on small instances, and proves some of the results with TLAPS for all of them.

Paths below are relative to `src/app/crates/`.

## 1. The system

| Part | State | Operations | Hard in it |
|---|---|---|---|
| Work queue, `kif-webhook/src/queue.rs` | bounded channel, set of keys in flight (process memory) | `enqueue`, `recv`, `done` | the watcher waits inside `enqueue` for a full channel while workers need the set; a key that leaks from the set is never served again |
| Controller, `kif-webhook/src/reconcile.rs`, `main.rs` | CRBs, RCRBs (API server); in each replica of the webhook a watch stream, a queue, workers, a readiness flag | watch (initial list, apply, delete), reconcile: list, `replace_status` per binding, two requests of `upsert_resolved` | events dropped by deduplication, 409s, failures that nobody retries, restarts, status writes that cause the next reconcile, replicas that overlap (none is elected) |
| Merge, `kif-webhook/src/merge.rs` | none | `merge_inputs`, the objects built from its result | the first clash ends the loop: result and blame must not depend on more than the bindings |
| Admission, `kif-webhook/src/admission.rs`, `mutate.rs`, `http.rs` | none (reads the RCRB) | `handle`, `fail_or_skip`, `build_pod_patch` | pods of any shape, other webhooks, an RCRB in any stage of being written, two failure modes |
| Federation keys, `kif-federation/src/k8s.rs` | signing Secret, JWKS Secret | `ensure_signing_and_jwks` at startup | replicas start together; ends between two writes |
| Mint, `kif-federation/src/http.rs`, `jwt.rs`, `k8s.rs` | signing key in memory (reads the RCRB) | `mint`: `token_review`, comparison of subject and hash, `AwsClaims::new`, `sign_rs256` | reads at another moment than admission did, for whoever asks; signs with the key of its start |
| Issuer, `kif-issuer/src/main.rs`, `kube_watch.rs`, `jwks.rs`, `http.rs` | `JwksStore` | load from a volume, watch, `get_jwks` | versions that arrive by three ways, damaged ones among them; clients that keep what they fetched |
| Agent, `kif-agent/src/main.rs`, `federation.rs`, `http.rs` | readiness flag, token file and its temporary file | `refresh_loop`, `atomic_write`, `/startupz` | timing of refreshes, outages, ends between any two steps of a write, readers of the file, crashes of the node |
| Discovery document, CRD generator, configuration, chart, e2e | - | - | not modelled, see section 8 |

They interact through objects of the API server only (CRB, RCRB, two Secrets,
the pod), except for the agent's HTTP request to the federation service, the
kubelet's probe of the agent, and the file through which the agent hands tokens
to the other containers. Nothing reads two of these objects in one
transaction, and no write but `replace_status` carries a resourceVersion: that
is where most of the hazards in `PROJECT.json` come from.

What makes each part correct: the queue serves every key, one worker at a time;
a reconcile leaves the RCRB and the bindings' status as the merge of the current
bindings says, or will be followed by one that does; merging depends on the set
of bindings; an admitted pod has an agent, its settings, and tokens of the same
configuration and of its own service account; a token carries what its bindings
say; federation replicas share one published key; the issuer serves a good JWKS
and never an older one, and tokens verify with it; the token in the file has not
expired, and whoever reads the file gets a whole token, none older than before.

## 2. Modules

    SingleFlight <-- refined by -- WorkQueue <-- refined by, per replica -- Reconcile
                                                                               |  EXTENDS
    Claims -- EXTENDS --> MergeLoop -- computes --> Merge <--------------------+
                                                                               |  refines, per
                              Upsert <-----------------------------------------+  service account
                                ^
                                |  instance in
                     Inject <-- Workload        Refresh        SigningKeys <-- Issuer

    AtomicFile <-- refined by -- TokenFile

* **WorkQueue**: `enqueue` is two steps, since the lock is released before the
  send: `Accept` (insert in the set; the watcher now holds the key in `sending`)
  or `Ignore` (it was there), then `Send`, enabled when the channel has room.
  One watcher task calls it, so a second `enqueue` waits for the first.
  `Recv(w)` takes a key, `Done(w)` removes it from the set. `Restart` is a new
  process. **SingleFlight** is the promise without queue or workers: a key is
  idle, pending or active.
* **Merge**: `MergeInputs` as a definition over the whole list (the first bad
  binding, with `IssueAt` giving which check it fails first), the RCRB built
  from either result (`Outcome`), the bindings marked and their status
  (`Marked`, `CrbStatus`). A binding is its place in the list; a list is a
  function on a set of places. `ConfigHash` is injective, which SHA-256 of the
  JSON stands for. **MergeLoop** is the loop of `merge_inputs` with its four
  accumulators, one binding per step. **Claims** is what `mint` and
  `AwsClaims::new` make of the merged spec: it extends MergeLoop so that its
  property speaks of the whole way from the bindings to the token.
* **Reconcile**: one namespace, and the replicas of the webhook. A replica has a
  watch stream (`events[r]`, and `replay[r]` for the initial list), the state of
  its queue, a readiness flag and the workers with `home[w] = r`; which worker
  belongs where is chosen by the behaviour's budget, so that one specification
  has one replica with two workers and two replicas with one each. Each request
  to the API server is one action (`List`, `MarkStatus`, `PatchSpec`,
  `PatchStatus`), so anything may happen between two; `MarkRefused` is the 409
  or 404 of a `replace_status` whose resourceVersion is old (`intact` stands for
  the resourceVersions); `Fail` is any request that fails for another reason.
  `MarkStatus` may or may not produce an event when the status is as it was,
  because every reconcile stamps the conditions with the current second.
  `Restart(r)` ends one process and replays the initial list to the next. The
  history variable `lost[r][k]` notes how `r` missed a change of `k`'s bindings;
  it is emptied when a worker of `r` lists again. It is only used in properties.
* **Upsert**: the RCRB as everyone else may rely on it: each writer (a replica)
  writes the spec, then the status, of one outcome at a time, and the status may
  never come; writers do not wait for one another. `Reconcile` is shown to
  implement it for each service account (`ImplementsUpsert`), and **Workload**
  uses it as its controllers.
* **Inject**: `build_pod_patch` as a function of the pod, down to names of
  volumes, mounts (a volume and the place where it, or a part of it, appears) and
  the order of environment entries, among them the two that the agent asks with
  (`SERVICE_ACCOUNT_NAME`, `CONFIG_HASH`).
* **Workload**: pods of one service account through other webhooks (`Sidecar`),
  `handle` (`Pass`, `Refuse`, `Inject`, `ReviewFails`), scheduling (`Run`), the
  agent's loop (`Mint`, `WriteToken`, `MintFailed`, `Mismatch`, `LoseReply`,
  `Wake`, `Die`) and the startup probe (`StartOthers`). `MintReply(account,
  hash)` is `mint` in the order of its checks; `account` and `hash` come from the
  agent's environment, whoever put the agent into the pod, and the comparison of
  subjects is with the service account that the pod really has. A sidecar has a
  name of `Sidecars` that the pod does not use yet. `torn[p]`
  remembers that admission or mint read spec and status of two outcomes.
* **Refresh**: the agent's loop in seconds, for when tokens expire. `Tick` does
  not pass the end of a sleep or of the request's timeout.
* **TokenFile**: `atomic_write` step by step over a directory of two names and
  some inodes (`Create`, `WritePiece`, `SyncAll`, `Rename`), the agent around it
  (`Start`, `Mint`, `SetReady`, `End`), the probe, and containers that open the
  file, read it piece by piece and close it. `Crash` leaves every synchronised
  inode, any prefix of the others, and the name the file system committed last.
  **AtomicFile** is the promise: a number that grows at once, and readers.
* **SigningKeys**: `ensure_signing_and_jwks` in any number of replicas that
  start, end and start again. **Issuer** extends it: the JWKS Secret's versions
  are a log; an issuer loads from its volume (which lags), then lists, then is
  told the versions one by one. Replicas sign tokens at any time (`Sign`), and
  AWS fetches the JWKS from any issuer and keeps it (`GetJwks`).

In the modules, a definition whose comment is in parentheses, such as "(forgets
the skew)", is a faulty variant of the next one. It is not part of the
specification: each property has one that breaks it, named under "mutants" in
`PROJECT.json`.

## 3. Runs

| Run | Shows |
|---|---|
| `workqueue` | in-flight set exact, one worker per key, every key released, `SingleFlight` implemented, with more keys than places and restarts |
| `merge_loop` | the loop returns `MergeInputs`, accepts what merges pairwise, loses nothing, and blames bindings that merge neither by themselves nor with any of the others, for every list of up to three bindings over the specs of `MCMergeLoop`; the claims carry every binding's attributes |
| `reconcile_safety` | whenever an RCRB or a binding's status is stale, a reconcile is announced or under way in some replica, or `lost` names one of five reasons; one replica leaves an RCRB whose spec and status are of two merges only when a request failed or its process ended |
| `reconcile_live` | without further disturbances everything not lost catches up and stays; each replica's queue is a `WorkQueue` and releases every key; the RCRB is written as `Upsert` says |
| `issuer` | one key for all unless a second was stored; last good JWKS, never back; tokens signed at any time verify with what issuers serve and AWS has kept; issuers come up |
| `workload` | settings, tokens and hash stay together in every interleaving; no pod gets another account's token; no container starts before the token; mode Fail injects or denies; the patch keeps the rest of the pod; pods start |
| `refresh` | the token in the file outlasts an outage that fits the skew; attempts are spaced |
| `token_file` | the file and what is read of it are whole tokens, never older than before, through ends of the agent and a crash of the node; `AtomicFile` implemented |

Four runs expect a violation. Each checks something the documentation says and
the code does not do; the quotes are under "findings":

* `reconcile_dropped`: a worker has listed the bindings of a service account;
  one changes; the watch calls `enqueue`, which finds the key in flight and
  drops it (queue.rs:30). The worker writes the result of the old bindings.
* `reconcile_offline`: a binding is created, a reconcile lists it and completes, so
  that the RCRB is Ready; the binding is deleted, and the process ends before its
  watch has read that event, with nothing of the service account in flight (`lost`
  says "offline"): a deletion between the end of a process and its successor's list
  is no different. The next process enqueues only what exists (reconcile.rs:29), so
  the RCRB stays Ready with the deleted role.
* `keys_race`: two federation replicas find no signing Secret, each generates a
  key and force-applies it (kif-federation/src/k8s.rs:152); the earlier one
  serves with a key that is no longer stored and, once the other has published,
  no longer published.
* `workload_torn`: between the two requests of `upsert_resolved` (merge.rs:342)
  the new spec stands beside the old hash, so `mint` compares equal and signs
  for the new configuration, and admission injects it with the old hash.

Two replicas. When two workers of different replicas overlap on one service
account, the older may write last: its replica has then dropped or will serve
the event of the change it did not read, so the object is stale only if `lost`
says "ignored" (or one of the others) for that replica; `StaleIsExplained` holds
with both. What stays then may be torn, the spec of one outcome beside the hash
of another, until something enqueues the key again. `TornIsExplained` says that one
replica, the chart's default, leaves such an object only when a request failed
or the process ended between the two; it is about states in which one replica
has all the workers (`Running = {r}`), since two replicas break it.

Known divergences without a run of their own. `lost` in `Reconcile` has three
further reasons: an edited subject leaves the old service account as it was
(reconcile.rs:34), a failed reconcile is not retried (reconcile.rs:74), and a
process may end with the reconcile of a last deletion in its hands ("ended").
README.md:69 says that pods get the mounts they need: a container that mounts a
volume named `kif-aws` at another place gets none where its
`AWS_WEB_IDENTITY_TOKEN_FILE` points (mutate.rs:244), and of a variable that it
sets twice only the first entry changes (mutate.rs:269), which the kubelet does
not look at; `SettingsReachContainers` leaves both out. A
malformed signing Secret is never fixed, in spite of the comment at
kif-federation/src/config.rs:47 (`ReadMalformed`). README.md:71 says `Fail`
denies pods without a valid RCRB; one without any is admitted (admission.rs:55
to 65, with the reason). An account whose last binding was deleted keeps an RCRB
that is marked failed, so that mode Fail denies its pods although nothing binds
it any more. README.md:72 names a mode `Skip`; the code and the
chart know `Ignore`. README.md:41 says merging happens at admission; it happens
in the controller. README.md:54 describes rotation with old keys retained; the
endpoint answers 501 (kif-federation/src/http.rs:191). A token that lives no
longer than `MIN_REFRESH_SECONDS` expires before it is refreshed (main.rs:150 of
the agent). The chart's `agent.config.*` seconds are not passed to the agent,
which uses its defaults. kif-federation/src/config.rs:24 says that a watcher
updates the signing key in memory; nothing does.

## 4. Bounds, and why they are enough

* `workqueue`: five keys, three workers, a channel of one: the channel is full,
  the watcher waits and all workers are busy at once with a key to spare.
* `merge_loop`: three places, specs that reach every check from every position;
  three are needed for an order among two that clash and one that does not.
* `reconcile_*`: two bindings, two service accounts, two workers, a channel of
  one, two specs (an AWS role, another provider only). A conflict needs two
  bindings, a moved one two service accounts, a race two workers. `Budgets`
  bounds a behaviour and says where the workers are. One replica: three changes
  by users undisturbed, or two with one failure and one restart (safety), or two
  with one of either (live). Two replicas: two changes, with a restart of one of
  them when they are of one service account (safety), or one change with one
  failure or one restart (live, one service account). Two overlapping reconciles with different lists need one change
  between them, a second one needs to be dropped. `pending` bounds only events
  that change nothing (a timestamp); in the live run they are unlimited in
  number, but wait until the stream is short; safety with two replicas has none
  of them. Symmetry is used in the safety run only.
* `issuer`: two replicas, two keys and one issuer, three initial contents of the
  Secret, two spoils of it, one end of each kind: the second key is what the
  race of two replicas needs, the second spoil a damage after the repair.
* `keys_race`: the same startup without an issuer.
* `workload`: one pod (pods meet only in the RCRB, which none of them writes),
  two configurations that merge and one that does not, in any order and number,
  both failure modes, two replicas that write the object, and seven shapes:
  plain; with a volume that it mounts, an init container and variables of its own;
  with a volume of the webhook's name, one container that has a role of its own and
  mounts that volume elsewhere, and one that mounts it where the webhook would; with
  a variable set twice; with a container of the agent's name; and copies of
  injected pods, of its own and of another service account. A behaviour has one
  failed review or lost answer together with a status write that never comes or
  with an end of the agent, or else one sidecar of another webhook, or else one
  write of a replica that begins while the other is between its two requests.
* `token_file`: two readers, tokens of two pieces (the least that can be torn),
  three tokens (an older, a newer, and one to be written over a temporary file
  that was left), two ends of the agent, one crash of the node, and five inodes:
  file, temporary file, the one on the disk, and two held open. With symmetry;
  all its properties are of safety.
* `refresh`: seconds scaled so that the outage is the longest the theorem
  allows (`Slack` is one less than `Skew`), a lifetime from which skew and jitter
  leave sleeps above the minimum and at it (3, 2 and 2 for jitters of 0, 1 and
  2), and a horizon of several refreshes. The theorem itself has no bounds.

`CHECK_DEADLOCK FALSE` is said where the system may really come to rest:
`Reconcile` and `SigningKeys` when nobody changes anything and budgets are used
up, `MergeLoop` when it has its result, `TokenFile` when all tokens are minted,
`Refresh` at its horizon.

## 5. Fairness

Weak fairness only, and of the program's own steps: the runtime polls tasks
that can run, requests to the API server are answered (well or badly), the
kubelet restarts containers that ended, probes them and refreshes volumes, the
watch delivers, and AWS asks for the JWKS again. It is stated per replica, worker,
issuer and pod, so that none can starve behind another. Users, faults, restarts
and other webhooks are never fair. TokenFile has none: its properties are of
safety. `reconcile_live` does not assume that reconciles stop: status writes with
new timestamps may go on for ever, and `Converges` says that the objects settle
all the same. `StartsUnlessChanged` lets an agent whose hash is out of date end and
restart for ever, as it does.

## 6. What is proved

TLAPS proves these for every value of the constants (with the named assumptions
of the modules). `PROJECT.json` lists them under "theorems".

* `WorkQueue_proofs`: `TypeCorrect`, `InFlightIsExact`, `OneWorkerPerKey`, and
  `QueueRefinesSingleFlight` (initial states and steps map to those of
  `SingleFlight`). The inductive invariant is types, `InFlightExact` (set =
  sending + channel + held, each key in one place only) and one worker per key.
  Each needs the others: `Recv` keeps the last only because a key in the channel
  is not held, and `Send` the second only because the key being sent is nowhere
  else.
* `MergeLoop_proofs`: `LoopTypeCorrect`, `LoopComputesMerge`,
  `LoopAcceptsMergeable`, `LoopMergesEverything`, `LoopBlamesEnough`,
  `TokensCarryBindings`: every property of the run, and the types, which
  are proved only. The invariant says that the
  accumulators are AWS setter, provenance and attributes of the bindings visited
  so far, and that none of those is bad; no induction on the list is needed,
  since the loop's state says which bindings are left. `NamesAreIrrelevant`:
  lists that differ in the bindings' names only, and so in their order, have
  resolved objects of one spec, hash and readiness; it follows from the
  definition of what merges (`Mergeable`), which knows no order. Which issue is
  reported does depend on it.
* `SigningKeys_proofs`: `TypeCorrect`; `OneKeyUnlessOverwritten`, from an
  invariant that everything written to either Secret, and every key a replica
  past its write has, is among the keys the signing Secret has held (`applied`);
  `InstalledKeyIsShared`: with a usable Secret from the start no replica ever
  generates one.
* `Issuer_proofs`, with the keys' part of the same invariant:
  `IssuerTypeCorrect`, `LastGoodIsKept`, `TokensAlwaysVerify`,
  `KeyIsSharedBesideIssuers`, `IssuersNeverGoBack`. Every version of the JWKS
  Secret, every key in a replica's memory and so every key of a token is damaged
  or among `applied`; with one key in `applied` they are all that key. A store is
  filled from the file only while it is empty, by a list with the latest version,
  and then is never later than what the watch has delivered, so the version that
  the watch delivers next is later still.
* `TokenFile_proofs`: `TypeCorrect`, `TokenFileIsWhole`, `WholeTokensRead`,
  `TokensAreNewer`, `FileRefinesAtomicFile`. The invariant follows the inodes:
  what the file's name leads to, in memory and on the disk, is whole and
  synchronised, the temporary file is another inode that no reader has open, and
  tokens grow along disk, file and mint. That no reader meets an older token
  after a crash needs the readiness flag: the others start again only after the
  new agent has written a token newer than all before.
* `Workload_proofs`: `TypeCorrect`, `HashTiesTokenToRole`,
  `TokensBeforeContainers`, `SubjectsAreCompared`, `AgentPrecedesOthers`,
  `SettingsArrive`, `RestIsKept`, `FailModeHolds`: every safety property of the
  run. It begins with lemmas about the patch. `UpsertEnvSets` says what
  `upsert_env` does to a container's variables: some entry of the one it sets has
  the value, the others stay, and none that was set once comes to be set twice, so
  that what was not set twice is seen as it was set (`GivenIsSeen`). Changes of that
  kind compose (`ChangesCompose`), so the six of `InjectAws` need no induction;
  "the first place of a name" is a least number, whose existence is by
  well-foundedness (`LeastNumber`). A pod without an agent
  gets one that comes first and asks with the hash it was given. The invariant
  then says, of each pod, that nothing of its agent is set before it runs, that a
  ready agent has written a token, and that (unless `torn`) the injected block,
  the token on its way and the token in the file are of outcomes that have the
  hash in the agent's environment. Torn or not, an injected pod is its submitted
  form with the patch of its block (`Patched`, which sidecars keep): container by
  container, in their order (`ContainersAreInjected`). The assumptions: a
  hash that is set belongs to one spec (SHA-256, `HashAssumption`), pods are
  submitted with an agent only as copies of injected ones (`ShapesAssumption`),
  and no sidecar has the agent's name (`SidecarsAssumption`).
* `Reconcile_proofs`: `TypeCorrect`, `QueuesAreWorkQueues`,
  `WritesImplementUpsert`, `StaleExplained`, `StatusExplained`, `TornExplained`.
  First, the queue of each replica, so that no two workers of a replica are on one
  service account (`QueueInv`); that is all `WritesImplementUpsert` needs. For `StaleExplained`
  it is not enough that some replica is about to see to a stale object: the
  invariant (`Answered`) names, for the spec and for the status of each object, a
  replica that answers for that part. Its workers that wrote the part wrote what
  they had listed, and either one of them still holds the service account, or a
  change of its bindings is announced, or the part is what the bindings come to;
  unless the replica missed a change. A worker that writes the part over a newer
  one makes its own replica the one that answers, and what a worker listed is
  current, or its replica is still to hear of the change (`Heard`). For
  `StatusExplained` there is the same of the status of each binding
  (`StatusAnswered`): a status is written only by a worker on the binding's
  service account, while nobody has written the binding since it was listed, and
  a write that changes it is announced to every replica. `TornExplained` needs
  that a replica has one worker per service account, that this worker, between
  its two writes, has written the spec that it listed, and that a torn object
  nobody is at is announced before anybody takes it up (`AloneWhole`).
* `Refresh_proofs`: `TypeCorrect`; `AttemptsAreSpaced`; `TokensOutlastOutages`:
  if `Outage + 3 * Timeout + MinRefresh < Skew` and `Skew + MinRefresh <= Ttl`
  the token in the file has never expired. The invariant bounds how late, after
  the token was signed, each stage of the loop can be; with the defaults (300
  and 30 seconds, timeout 10) outages of up to 239 seconds are ridden out.

## 7. What is only model-checked

Liveness (`KeyServed`, `Converges`, the last part of `ImplementsWorkQueue`,
`IssuersComeUp`, `StartsUnlessChanged`, the fairness part of
`ImplementsSingleFlight`): out of the prover's reach. Every invariant and action
property of the passing runs, and the safety part of every refinement, has a theorem.

## 8. What is not modelled, and why

The TokenReview itself is the API server's: `mint` learns from it which service
account the caller's pod has. `kid`s that coincide within a second: no property
here is about them. The issuer's discovery document is one text for ever and its
probes report whether the store is loaded. `kif-crdgen`, configuration parsing,
logging and the chart are pure text. Images, probes' numbers, the read-only flags
of mounts and the warning event of mode Ignore are left out of the patch, and with
them pods that the API server or the kubelet then refuses: those that already mount
something else at `/var/run/kif/aws`, and those whose volume of the webhook's name
is of a kind that the agent cannot write to or read its token from. The CRD's schema
keeps role ARNs from being blank, so the error for a blank one is unreachable.
Prepended init containers of other webhooks, field ownership of server-side apply
(a conflict is one of the failing requests) and writers of RCRBs other than the
controllers are left out. The namespace is one: no operation relates two. The
queue's receiver is never dropped while the watcher sends, so the error branch of
`enqueue` (queue.rs:37) is only reached at the end of the process.

## 9. Plan

Done, in this order: WorkQueue and SingleFlight with proofs; Merge and
MergeLoop with proofs; Reconcile and Upsert; SigningKeys with proofs, Issuer;
Inject and Workload; Refresh with proofs; TokenFile and AtomicFile with proofs;
tokens in Issuer, with proofs; Claims, and the rest of MergeLoop's proofs; the
subject of a request in Workload; replicas in Reconcile, Upsert and Workload;
Workload's proofs; Reconcile's proofs; the patch's proofs (settings, what it
keeps), torn objects in Reconcile with proof, independence of names in
MergeLoop.

Next: prepended init containers in Workload, which start before the agent.
