---------------------------- MODULE Reconcile ----------------------------
(***************************************************************************)
(* The controller of kif-webhook (reconcile.rs): the watch on the          *)
(* CloudRoleBindings of one namespace, the work queue, and the workers     *)
(* that turn the bindings of a service account into its                    *)
(* ResolvedCloudRoleBinding, with the API server and its users around it.  *)
(* Every replica of the webhook runs a controller, with a watch, a queue   *)
(* and workers of its own (main.rs); none of them is elected.              *)
(*                                                                         *)
(* Each request to the API server is one step, so everything else may      *)
(* happen between two requests of one reconcile.  A replace_status carries *)
(* the resourceVersion that was listed and is refused if the binding was   *)
(* written or deleted since; a server-side apply carries none.             *)
(***************************************************************************)
EXTENDS Merge, Sequences, Functions

CONSTANTS
  Keys,        \* the service accounts of the namespace
  Replicas,    \* the replicas of the webhook
  Workers, Capacity, NoKey,   \* as in WorkQueue, the workers of all replicas
  Absent,      \* an object that does not exist, a field never written
  Budgets      \* bounds: how many changes users make to bindings (ops), requests
               \* fail for reasons of their own (faults) and processes are
               \* restarted (restarts) in one behaviour, how many events may be
               \* pending when a status write refreshes a timestamp (pending),
               \* which service accounts bindings name (keys), and which replica
               \* each worker belongs to (home)

VARIABLES
  \* The API server.
  crb,       \* crb[n]: the binding's subject, spec and status, or Absent
  resolved,  \* resolved[k]: spec and status of the ResolvedCloudRoleBinding
  events,    \* events[r]: r's watch stream after InitDone: the keys of its events
  replay,    \* replay[r][n]: the key of the InitApply still to come for n, or NoKey
  \* The replicas.
  ready,     \* ready[r]: the readiness flag (startupz)
  inFlight, sending, chan,   \* each replica's queue: see WorkQueue
  current,   \* current[w]: the key worker w received and has not done() yet
  pc,        \* pc[w]: the request worker w makes next
  listed,    \* listed[w]: the bindings w listed
  todo,      \* todo[w]: the listed bindings whose status w has yet to write
  \* What the model remembers.
  intact,    \* intact[w]: the listed bindings nobody else wrote since
  lost,      \* lost[r][k]: how changes of k's bindings went unnoticed by r
  budget,    \* what is left of the budget of this behaviour
  home       \* home[w]: the replica that w works in; never changes

server == <<crb, resolved, events, replay>>
queue == <<inFlight, sending, chan, current>>
worker == <<pc, listed, todo, intact>>
vars == <<server, ready, queue, worker, lost, budget, home>>

Running == Range(home)

Staff(r) == {w \in Workers : home[w] = r}

ASSUME QueueAssumption == Capacity \in Nat \ {0} /\ Workers # {} /\ NoKey \notin Keys

ASSUME BudgetsAssumption ==
  \A b \in Budgets :
    /\ b.home \in [Workers -> Replicas]
    /\ {"ops", "faults", "restarts", "pending", "keys"} \subseteq DOMAIN b
    /\ \A bound \in {"ops", "faults", "restarts", "pending"} : b[bound] \in Nat
    /\ b.keys \subseteq Keys

ASSUME AbsentAssumption ==
  /\ \A k \in Keys, b \in Bodies : \A s \in {CrbStatus(i) : i \in Inputs} \union {NoCrbStatus} :
       [subject |-> k, spec |-> b, status |-> s] # Absent
  /\ \A i \in Inputs :
       Outcome(i) # Absent /\ Outcome(i).spec # Absent /\ Outcome(i).status # Absent

(***************************************************************************)
(* State.                                                                  *)
(***************************************************************************)
Statuses == {CrbStatus(i) : i \in Inputs} \union {NoCrbStatus}
Crb == [subject : Keys, spec : Bodies, status : Statuses]
Outcomes == {Outcome(i) : i \in Inputs}
Reasons == {"ignored", "failed", "moved", "offline", "ended"}

Never == [spec |-> Absent, status |-> Absent]
NoBindings == [n \in {} |-> Absent]

\* The bindings of k, as a list call filtered by subject returns them.
View(k) ==
  [n \in {m \in Names : crb[m] # Absent /\ crb[m].subject = k} |-> crb[n].spec]

Use(bound) ==
  /\ budget[bound] > 0
  /\ budget' = [budget EXCEPT ![bound] = @ - 1]

Lose(r, k, why) == lost' = [lost EXCEPT ![r][k] = @ \union {why}]

\* Every watch reports a change of k's bindings.
Announce(k) ==
  events' = [r \in Replicas |-> IF r \in Running THEN Append(events[r], k) ELSE <<>>]

\* Everyone else's copy of binding n is out of date.
Outdate(n, writers) ==
  intact' = [w \in Workers |-> IF w \in writers THEN intact[w] ELSE intact[w] \ {n}]

Init ==
  /\ \E b \in Budgets : home = b.home /\ budget = [x \in DOMAIN b \ {"home"} |-> b[x]]
  /\ crb = [n \in Names |-> Absent]
  /\ resolved = [k \in Keys |-> Never]
  /\ events = [r \in Replicas |-> <<>>]
  /\ replay = [r \in Replicas |-> [n \in Names |-> NoKey]]
  /\ ready = [r \in Replicas |-> FALSE]
  /\ inFlight = [r \in Replicas |-> {}]
  /\ sending = [r \in Replicas |-> NoKey]
  /\ chan = [r \in Replicas |-> <<>>]
  /\ current = [w \in Workers |-> NoKey]
  /\ pc = [w \in Workers |-> "idle"]
  /\ listed = [w \in Workers |-> NoBindings]
  /\ todo = [w \in Workers |-> {}]
  /\ intact = [w \in Workers |-> {}]
  /\ lost = [r \in Replicas |-> [k \in Keys |-> {}]]

(***************************************************************************)
(* Users change bindings; the watch will report each change.               *)
(***************************************************************************)
Create(n, k, b) ==
  /\ crb[n] = Absent
  /\ Use("ops")
  /\ crb' = [crb EXCEPT ![n] = [subject |-> k, spec |-> b, status |-> NoCrbStatus]]
  /\ Announce(k)
  /\ Outdate(n, {})
  /\ UNCHANGED <<resolved, replay, ready, queue, pc, listed, todo, lost, home>>

\* An edit of the spec.  Nothing forbids a new subject, and the watch reports
\* the new object only: nobody is told that the old subject lost a binding.
Update(n, k, b) ==
  /\ crb[n] # Absent
  /\ <<k, b>> # <<crb[n].subject, crb[n].spec>>
  /\ Use("ops")
  /\ crb' = [crb EXCEPT ![n].subject = k, ![n].spec = b]
  /\ Announce(k)
  /\ Outdate(n, {})
  /\ lost' = IF k = crb[n].subject THEN lost
             ELSE [r \in Replicas |-> IF r \in Running
                     THEN [lost[r] EXCEPT ![crb[n].subject] = @ \union {"moved"}]
                     ELSE lost[r]]
  /\ UNCHANGED <<resolved, replay, ready, queue, pc, listed, todo, home>>

Delete(n) ==
  /\ crb[n] # Absent
  /\ Use("ops")
  /\ crb' = [crb EXCEPT ![n] = Absent]
  /\ Announce(crb[n].subject)
  /\ Outdate(n, {})
  /\ UNCHANGED <<resolved, replay, ready, queue, pc, listed, todo, lost, home>>

(***************************************************************************)
(* The watcher task: watch_cloud_role_bindings.                            *)
(***************************************************************************)
\* What w listed is still what the API server has.
UpToDate(w) == listed[w] = View(current[w]) /\ intact[w] = DOMAIN listed[w]

\* enqueue(k) in replica r, as in WorkQueue.  A request for a key in flight is
\* dropped, also when the worker on it read the bindings before the change that
\* this event reports.
Enqueue(r, k) ==
  /\ sending[r] = NoKey
  /\ \/ /\ k \notin inFlight[r]
        /\ inFlight' = [inFlight EXCEPT ![r] = @ \union {k}]
        /\ sending' = [sending EXCEPT ![r] = k]
        /\ UNCHANGED <<chan, current, lost>>
     \/ /\ k \in inFlight[r]
        /\ IF \E w \in Staff(r) : current[w] = k /\ pc[w] # "list" /\ ~UpToDate(w)
           THEN Lose(r, k, "ignored") ELSE UNCHANGED lost
        /\ UNCHANGED queue

\* (also enqueues for an object that names no service account)
InitApplyAny(r, n) ==
  /\ Enqueue(r, replay[r][n])
  /\ replay' = [replay EXCEPT ![r][n] = NoKey]
  /\ UNCHANGED <<crb, resolved, events, ready, worker, budget, home>>

InitApply(r, n) ==
  /\ IsFirst(n, {m \in Names : replay[r][m] # NoKey})
  /\ Enqueue(r, replay[r][n])
  /\ replay' = [replay EXCEPT ![r][n] = NoKey]
  /\ UNCHANGED <<crb, resolved, events, ready, worker, budget, home>>

InitDone(r) ==
  /\ r \in Running /\ ~ready[r]
  /\ \A n \in Names : replay[r][n] = NoKey
  /\ sending[r] = NoKey
  /\ ready' = [ready EXCEPT ![r] = TRUE]
  /\ UNCHANGED <<server, queue, worker, lost, budget, home>>

\* Event::Apply and Event::Delete.
Deliver(r) ==
  /\ ready[r]
  /\ events[r] # <<>>
  /\ Enqueue(r, Head(events[r]))
  /\ events' = [events EXCEPT ![r] = Tail(@)]
  /\ UNCHANGED <<crb, resolved, replay, ready, worker, budget, home>>

\* The rest of enqueue: send().await, once the channel has room.
Send(r) ==
  /\ sending[r] # NoKey
  /\ Len(chan[r]) < Capacity
  /\ chan' = [chan EXCEPT ![r] = Append(@, sending[r])]
  /\ sending' = [sending EXCEPT ![r] = NoKey]
  /\ UNCHANGED <<server, ready, inFlight, current, worker, lost, budget, home>>

(***************************************************************************)
(* The workers: run_workers and reconcile.                                 *)
(***************************************************************************)
At(w, step) == pc[w] = step

Goto(w, step) == pc' = [pc EXCEPT ![w] = step]

\* (releases the key when it takes it)
RecvReleases(w) ==
  LET k == Head(chan[home[w]]) IN
  /\ At(w, "idle")
  /\ chan[home[w]] # <<>>
  /\ current' = [current EXCEPT ![w] = k]
  /\ chan' = [chan EXCEPT ![home[w]] = Tail(@)]
  /\ inFlight' = [inFlight EXCEPT ![home[w]] = @ \ {k}]
  /\ Goto(w, "list")
  /\ UNCHANGED <<server, ready, sending, listed, todo, intact, lost, budget, home>>

\* A free worker takes the oldest key of its replica's channel.
Recv(w) ==
  /\ At(w, "idle")
  /\ chan[home[w]] # <<>>
  /\ current' = [current EXCEPT ![w] = Head(chan[home[w]])]
  /\ chan' = [chan EXCEPT ![home[w]] = Tail(@)]
  /\ Goto(w, "list")
  /\ UNCHANGED <<server, ready, inFlight, sending, listed, todo, intact, lost, budget, home>>

\* crb_api.list, the filter, and merge_inputs on what was listed.
List(w) ==
  /\ At(w, "list")
  /\ LET view == View(current[w]) IN
     /\ listed' = [listed EXCEPT ![w] = view]
     /\ intact' = [intact EXCEPT ![w] = DOMAIN view]
     /\ todo' = [todo EXCEPT ![w] = Marked(view)]
  /\ Goto(w, "mark")
  /\ lost' = [lost EXCEPT ![home[w]][current[w]] = {}]
  /\ UNCHANGED <<server, ready, queue, budget, home>>

\* replace_status for the next binding, which nobody wrote since it was listed.
\* The write is seen by the watch, unless it is identical to what is stored:
\* the same conditions with the same timestamps.  Every reconcile stamps the
\* conditions anew, so a reconcile may cause the next one, without end.
MarkStatus(w, n) ==
  /\ At(w, "mark")
  /\ IsFirst(n, todo[w])
  /\ n \in intact[w]
  /\ LET status == CrbStatus(listed[w]) IN
     \/ /\ crb[n].status # status
        /\ crb' = [crb EXCEPT ![n].status = status]
        /\ Announce(crb[n].subject)
        /\ Outdate(n, {w})
     \/ /\ crb[n].status = status
        /\ \A r \in Running : Len(events[r]) < budget.pending
        /\ Announce(crb[n].subject)
        /\ Outdate(n, {w})
        /\ UNCHANGED crb
     \/ /\ crb[n].status = status
        /\ UNCHANGED <<crb, events, intact>>
  /\ todo' = [todo EXCEPT ![w] = @ \ {n}]
  /\ UNCHANGED <<resolved, replay, ready, queue, pc, listed, lost, budget, home>>

\* replace_status for a binding that was written or deleted since: 409 or 404,
\* and the whole reconcile ends with that error.
MarkRefused(w, n) ==
  /\ At(w, "mark")
  /\ IsFirst(n, todo[w])
  /\ n \notin intact[w]
  /\ Goto(w, "done")
  /\ Lose(home[w], current[w], "failed")
  /\ UNCHANGED <<server, ready, queue, listed, todo, intact, budget, home>>

\* (does not wait for the statuses to be written)
PatchSpecEarly(w) ==
  /\ At(w, "mark")
  /\ resolved' = [resolved EXCEPT ![current[w]].spec = Outcome(listed[w]).spec]
  /\ Goto(w, "patch")
  /\ UNCHANGED <<crb, events, replay, ready, queue, listed, todo, intact, lost, budget, home>>

\* upsert_resolved, first request: api.patch of the object, which creates it or
\* replaces its spec.
PatchSpec(w) ==
  /\ At(w, "mark")
  /\ todo[w] = {}
  /\ resolved' = [resolved EXCEPT ![current[w]].spec = Outcome(listed[w]).spec]
  /\ Goto(w, "patch")
  /\ UNCHANGED <<crb, events, replay, ready, queue, listed, todo, intact, lost, budget, home>>

\* Second request: api.patch_status.
PatchStatus(w) ==
  /\ At(w, "patch")
  /\ resolved' = [resolved EXCEPT ![current[w]].status = Outcome(listed[w]).status]
  /\ Goto(w, "done")
  /\ UNCHANGED <<crb, events, replay, ready, queue, listed, todo, intact, lost, budget, home>>

\* (the task ends with the error, and done is never called)
FailEndsTask(w) ==
  /\ pc[w] \in {"list", "mark", "patch"}
  /\ Use("faults")
  /\ Goto(w, "ended")
  /\ Lose(home[w], current[w], "failed")
  /\ UNCHANGED <<server, ready, queue, listed, todo, intact, home>>

\* Any request fails: the error is logged and nothing tries again.
Fail(w) ==
  /\ pc[w] \in {"list", "mark", "patch"}
  /\ Use("faults")
  /\ Goto(w, "done")
  /\ Lose(home[w], current[w], "failed")
  /\ UNCHANGED <<server, ready, queue, listed, todo, intact, home>>

\* done()
Finish(w) ==
  /\ At(w, "done")
  /\ inFlight' = [inFlight EXCEPT ![home[w]] = @ \ {current[w]}]
  /\ current' = [current EXCEPT ![w] = NoKey]
  /\ Goto(w, "idle")
  /\ listed' = [listed EXCEPT ![w] = NoBindings]
  /\ todo' = [todo EXCEPT ![w] = {}]
  /\ intact' = [intact EXCEPT ![w] = {}]
  /\ UNCHANGED <<server, ready, sending, chan, lost, budget, home>>

(***************************************************************************)
(* The processes.                                                          *)
(***************************************************************************)
\* The webhook keeps nothing on disk: what the ResolvedCloudRoleBindings say,
\* and the bindings there are, is all a new process can know.
Reflects(k) ==
  \/ resolved[k] = Outcome(View(k))
  \/ View(k) = NoBindings /\ resolved[k] = Never

\* A change of k's bindings is on its way to a worker of r.
Announced(r, k) ==
  \/ k \in Range(events[r]) \union Range(replay[r])
  \/ sending[r] = k
  \/ k \in Range(chan[r])
  \/ \E w \in Staff(r) : current[w] = k /\ pc[w] = "list"

BeingServed(r, k) == \E w \in Staff(r) : current[w] = k /\ pc[w] \in {"mark", "patch"}

\* A replica will see to k, or missed a change of its bindings.
Explained(r, k) == Announced(r, k) \/ BeingServed(r, k) \/ lost[r][k] # {}

\* What a process that starts anew has in memory.
Reset(r) ==
  LET idle(f, value) == [w \in Workers |-> IF home[w] = r THEN value ELSE f[w]] IN
  /\ events' = [events EXCEPT ![r] = <<>>]
  /\ ready' = [ready EXCEPT ![r] = FALSE]
  /\ inFlight' = [inFlight EXCEPT ![r] = {}]
  /\ sending' = [sending EXCEPT ![r] = NoKey]
  /\ chan' = [chan EXCEPT ![r] = <<>>]
  /\ current' = idle(current, NoKey)
  /\ pc' = idle(pc, "idle")
  /\ listed' = idle(listed, NoBindings)
  /\ todo' = idle(todo, {})
  /\ intact' = idle(intact, {})

\* (the successor watches without listing first)
RestartNoReplay(r) ==
  /\ r \in Running
  /\ Use("restarts")
  /\ Reset(r)
  /\ replay' = [replay EXCEPT ![r] = [n \in Names |-> NoKey]]
  /\ UNCHANGED <<crb, resolved, lost, home>>

\* Why r, which ends, will not see to k, which has no binding left: nothing of k
\* was in flight and the event of the deletion is unread, as of any deletion
\* between the end of a process and its successor's list; or r ends with k in
\* its hands.
Unseen(r, k) == IF k \in inFlight[r] THEN "ended" ELSE "offline"

\* The process ends, on a watch error (the ? in the loop) or for a reason of
\* its own, and its successor lists the bindings anew.  What was under way is
\* gone, and for a service account whose last binding was deleted for good.
Restart(r) ==
  /\ r \in Running
  /\ Use("restarts")
  /\ Reset(r)
  /\ replay' = [replay EXCEPT
       ![r] = [n \in Names |-> IF crb[n] = Absent THEN NoKey ELSE crb[n].subject]]
  /\ lost' = [lost EXCEPT
       ![r] = [k \in Keys |->
                IF View(k) = NoBindings /\ (Announced(r, k) \/ BeingServed(r, k))
                THEN @[k] \union {Unseen(r, k)} ELSE @[k]]]
  /\ UNCHANGED <<crb, resolved, home>>

Next ==
  \/ \E n \in Names, k \in budget.keys, b \in Bodies : Create(n, k, b) \/ Update(n, k, b)
  \/ \E n \in Names : Delete(n)
  \/ \E r \in Replicas :
       \/ (\E n \in Names : InitApply(r, n)) \/ InitDone(r) \/ Deliver(r) \/ Send(r)
       \/ Restart(r)
  \/ \E w \in Workers :
       \/ Recv(w) \/ List(w) \/ PatchSpec(w) \/ PatchStatus(w) \/ Fail(w) \/ Finish(w)
       \/ \E n \in Names : MarkStatus(w, n) \/ MarkRefused(w, n)

\* What worker w does next, if its request is answered.
Work(w) ==
  \/ Recv(w) \/ List(w) \/ PatchSpec(w) \/ PatchStatus(w) \/ Finish(w)
  \/ \E n \in Names : MarkStatus(w, n) \/ MarkRefused(w, n)

\* The processes' own tasks are scheduled and their requests are answered; users,
\* faults and restarts may always stay away.
Fairness ==
  /\ \A r \in Replicas :
       /\ WF_vars(\E n \in Names : InitApply(r, n))
       /\ WF_vars(InitDone(r)) /\ WF_vars(Deliver(r)) /\ WF_vars(Send(r))
  /\ \A w \in Workers : WF_vars(Work(w))

Spec == Init /\ [][Next]_vars /\ Fairness
(***************************************************************************)
(* Properties.                                                             *)
(***************************************************************************)
\* The queue of r.
WQ(r) ==
  INSTANCE WorkQueue WITH
    inFlight <- inFlight[r], sending <- sending[r], chan <- chan[r],
    current <- [w \in Workers |-> IF home[w] = r THEN current[w] ELSE NoKey]

\* Types of the server's objects, of the streams and of the workers' state.
TypeOK ==
  /\ crb \in [Names -> Crb \union {Absent}]
  /\ \A k \in Keys : /\ resolved[k].spec \in {o.spec : o \in Outcomes} \union {Absent}
                      /\ resolved[k].status \in {o.status : o \in Outcomes} \union {Absent}
  /\ events \in [Replicas -> Seq(Keys)]
  /\ replay \in [Replicas -> [Names -> Keys \union {NoKey}]]
  /\ ready \in [Replicas -> BOOLEAN]
  /\ \A r \in Replicas : WQ(r)!TypeOK
  /\ pc \in [Workers -> {"idle", "list", "mark", "patch", "done"}]
  /\ listed \in [Workers -> Inputs]
  /\ \A w \in Workers : todo[w] \subseteq DOMAIN listed[w] /\ intact[w] \subseteq DOMAIN listed[w]
  /\ lost \in [Replicas -> [Keys -> SUBSET Reasons]]
  /\ \A bound \in {"ops", "faults", "restarts", "pending"} : budget[bound] \in Nat
  /\ home \in [Workers -> Replicas]

\* Every stale ResolvedCloudRoleBinding is about to be computed again by some
\* replica, or its bindings changed in one of five ways that a controller misses:
\* an event dropped by enqueue while a worker held older bindings, a request that
\* failed, an edited subject, a last binding deleted while no process watched, or
\* while the process that was to see to it ended.  There is no sixth: in
\* particular no worker, of its own replica or of another, overwrites a newer
\* result with an older one for good, which server-side apply without a
\* resourceVersion would not stop.
StaleIsExplained ==
  \A k \in Keys : ~Reflects(k) => \E r \in Replicas : Explained(r, k)

StatusReflects(k) ==
  \A n \in Marked(View(k)) : crb[n].status = CrbStatus(View(k))

\* The same of the status of the bindings themselves: whenever nothing is under
\* way and nothing was lost, each binding that the merge marks says what the
\* merge of the current bindings says, although the workers of two service
\* accounts or replicas may write the status of one binding (replace_status, one
\* per binding).
StatusIsExplained ==
  \A k \in Keys : ~StatusReflects(k) => \E r \in Replicas : Explained(r, k)

\* The spec of one merge stands beside the status, and the hash, of another.
Torn(k) == resolved[k] \notin Outcomes \union {Never}

\* One replica (the chart's default) leaves no such object behind, whatever its
\* workers and the watch do meanwhile, unless a request failed or the process
\* ended: upsert_resolved is not atomic, but at most one worker is on a service
\* account.  Until it is whole again some worker is at it or about to be.
TornIsExplained ==
  \A r \in Replicas, k \in Keys :
    Running = {r} /\ Torn(k) =>
      \/ Announced(r, k) \/ BeingServed(r, k)
      \/ lost[r][k] \intersect {"failed", "offline", "ended"} # {}

\* Once users, faults and restarts leave the controllers alone every service
\* account's ResolvedCloudRoleBinding and statuses catch up with its bindings
\* and stay so, but for the changes they cannot see, although a reconcile that
\* refreshes the timestamps of statuses may cause the next one for ever, and
\* replicas answer one another's.
Converges ==
  <>[](\A k \in Keys :
         (\A r \in Replicas : lost[r][k] = {}) => Reflects(k) /\ StatusReflects(k))

\* In each replica at most one worker per service account is between the two
\* requests of upsert_resolved, so that readers may see a spec and a status of
\* two outcomes while a replica is between them, or when two replicas overlap,
\* and never else; nor a status without its spec before it.
Writing(k) ==
  [r \in Replicas |->
    LET writers == {w \in Staff(r) : current[w] = k /\ At(w, "patch")} IN
    IF writers = {} THEN Absent ELSE Outcome(listed[CHOOSE w \in writers : TRUE])]

Up(k) == INSTANCE Upsert WITH Writers <- Replicas, resolved <- resolved[k], writing <- Writing(k)

ImplementsUpsert ==
  /\ \A k \in Keys : Up(k)!Init
  /\ [][\A k \in Keys : Up(k)!Step]_vars

\* The queue of each replica is a WorkQueue, whatever the others do and however
\* its reconciles end.
QueuesKeepToWorkQueue ==
  /\ \A r \in Replicas : WQ(r)!Init
  /\ [][\A r \in Replicas : WQ(r)!Next \/ UNCHANGED WQ(r)!vars]_vars

\* And also with reconciles that end badly every key is released and can be
\* enqueued again (q.done after the if let).
ImplementsWorkQueue ==
  /\ QueuesKeepToWorkQueue
  /\ \A r \in Replicas, k \in Keys : []<>(k \notin inFlight[r])

(***************************************************************************)
(* What the documentation says of a ResolvedCloudRoleBinding, and the code *)
(* does not do.                                                            *)
(***************************************************************************)
\* Nothing is left to do.
Settled ==
  \A r \in Running :
    /\ ready[r] /\ events[r] = <<>>
    /\ inFlight[r] = {} /\ sending[r] = NoKey

LostOnlyTo(k, why) == (UNION {lost[r][k] : r \in Running}) = {why}

\* "This is the merged output of all applicable CloudRoleBindings" (crds.rs):
\* not when enqueue drops the event of a change that its worker did not read.
DroppedEventsAreHarmless ==
  Settled => \A k \in Keys : LostOnlyTo(k, "ignored") => Reflects(k)

\* A whole and ready ResolvedCloudRoleBinding: what pods are admitted with.
InUse(k) == resolved[k] \in Outcomes /\ resolved[k].status.ready

\* Nor, of an object that a reconcile has completed, when the last binding is
\* deleted while no process watches.
OfflineDeletionIsNoticed ==
  Settled => \A k \in Keys : LostOnlyTo(k, "offline") /\ InUse(k) => Reflects(k)

==========================================================================
