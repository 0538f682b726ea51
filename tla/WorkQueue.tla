---------------------------- MODULE WorkQueue ----------------------------
(***************************************************************************)
(* The deduplicating work queue between the CloudRoleBinding watcher and   *)
(* the reconcile workers of kif-webhook (queue.rs, and the receive loop    *)
(* of run_workers in reconcile.rs).                                        *)
(*                                                                         *)
(* One task (the watcher) enqueues.  Each critical section of the          *)
(* in_flight mutex and each channel operation is one step; enqueue is two, *)
(* because the lock is released before send().await, which waits while     *)
(* the bounded channel is full.                                            *)
(***************************************************************************)
EXTENDS Naturals, Sequences, Functions

CONSTANTS
  Keys,      \* the keys: (namespace, service account) pairs
  Workers,   \* the spawned worker tasks
  Capacity,  \* the buffer of the mpsc channel (2048 in main.rs)
  NoKey      \* "no key": the watcher sends nothing, the worker holds nothing

ASSUME CapacityAssumption == Capacity \in Nat \ {0}
ASSUME WorkersAssumption == Workers # {}   \* run_workers: workers.max(1)
ASSUME NoKeyAssumption == NoKey \notin Keys

VARIABLES
  inFlight,  \* Queue.in_flight
  sending,   \* the key the watcher is awaiting send() for
  chan,      \* the channel's buffer
  current    \* current[w]: the key worker w received and has not done() yet

vars == <<inFlight, sending, chan, current>>

(***************************************************************************)
(* State.                                                                  *)
(***************************************************************************)
\* Type correctness of the queue.
TypeOK ==
  /\ inFlight \in SUBSET Keys
  /\ sending \in Keys \union {NoKey}
  /\ chan \in Seq(Keys)
  /\ Len(chan) <= Capacity
  /\ current \in [Workers -> Keys \union {NoKey}]

Init ==
  /\ inFlight = {}
  /\ sending = NoKey
  /\ chan = <<>>
  /\ current = [w \in Workers |-> NoKey]

Held == Range(current) \ {NoKey}

(***************************************************************************)
(* The watcher: enqueue(k).                                                *)
(***************************************************************************)
\* (a faulty enqueue that does not look at the set)
AcceptUnchecked(k) ==
  /\ sending = NoKey
  /\ inFlight' = inFlight \union {k}
  /\ sending' = k
  /\ UNCHANGED <<chan, current>>

\* The first half of enqueue for a key that is not in the set: it is
\* inserted, the lock is released, and the task goes on to send().await.
Accept(k) ==
  /\ sending = NoKey
  /\ k \notin inFlight
  /\ inFlight' = inFlight \union {k}
  /\ sending' = k
  /\ UNCHANGED <<chan, current>>

\* enqueue for a key that is in the set returns early.
Ignore(k) ==
  /\ sending = NoKey
  /\ k \in inFlight
  /\ UNCHANGED vars

\* (a faulty enqueue that uses try_send and loses the key when full)
TrySend ==
  /\ sending # NoKey
  /\ chan' = IF Len(chan) < Capacity THEN Append(chan, sending) ELSE chan
  /\ sending' = NoKey
  /\ UNCHANGED <<inFlight, current>>

\* (an unbounded channel)
SendUnbounded ==
  /\ sending # NoKey
  /\ chan' = Append(chan, sending)
  /\ sending' = NoKey
  /\ UNCHANGED <<inFlight, current>>

\* The second half: send() completes once the channel has room.  (It fails
\* only if the receiver is gone, and run_workers owns it for as long as the
\* process lives.)
Send ==
  /\ sending # NoKey
  /\ Len(chan) < Capacity
  /\ chan' = Append(chan, sending)
  /\ sending' = NoKey
  /\ UNCHANGED <<inFlight, current>>

(***************************************************************************)
(* The workers.                                                            *)
(***************************************************************************)
\* (a faulty worker that releases the key when it takes it)
RecvReleases(w) ==
  /\ current[w] = NoKey
  /\ chan # <<>>
  /\ current' = [current EXCEPT ![w] = Head(chan)]
  /\ chan' = Tail(chan)
  /\ inFlight' = inFlight \ {Head(chan)}
  /\ UNCHANGED sending

\* A free worker that has got the receiver's mutex takes the oldest key.
Recv(w) ==
  /\ current[w] = NoKey
  /\ chan # <<>>
  /\ current' = [current EXCEPT ![w] = Head(chan)]
  /\ chan' = Tail(chan)
  /\ UNCHANGED <<inFlight, sending>>

\* (a faulty worker that forgets to release the key)
DoneLeaks(w) ==
  /\ current[w] # NoKey
  /\ current' = [current EXCEPT ![w] = NoKey]
  /\ UNCHANGED <<inFlight, sending, chan>>

\* (done() when enqueue keeps the set locked across send().await)
DoneLockedOut(w) ==
  /\ current[w] # NoKey
  /\ sending = NoKey
  /\ inFlight' = inFlight \ {current[w]}
  /\ current' = [current EXCEPT ![w] = NoKey]
  /\ UNCHANGED <<sending, chan>>

\* done(): after reconcile returned, with or without an error.
Done(w) ==
  /\ current[w] # NoKey
  /\ inFlight' = inFlight \ {current[w]}
  /\ current' = [current EXCEPT ![w] = NoKey]
  /\ UNCHANGED <<sending, chan>>

(***************************************************************************)
(* The process.                                                            *)
(***************************************************************************)
\* The process ends (a task of main's select! returned, or the container was
\* killed) and is started again: main builds an empty queue.
Restart ==
  /\ inFlight' = {}
  /\ sending' = NoKey
  /\ chan' = <<>>
  /\ current' = [w \in Workers |-> NoKey]

Next ==
  \/ \E k \in Keys : Accept(k) \/ Ignore(k)
  \/ Send
  \/ \E w \in Workers : Recv(w) \/ Done(w)
  \/ Restart

\* The runtime polls every task that can make progress, and reconcile
\* returns in the end (its requests to the API server do).
Fairness ==
  /\ WF_vars(Send)
  /\ WF_vars(\E w \in Workers : Recv(w))
  /\ \A w \in Workers : WF_vars(Done(w))

Spec == Init /\ [][Next]_vars /\ Fairness

(***************************************************************************)
(* Properties.                                                             *)
(***************************************************************************)
\* The set names exactly the keys that are on their way or being served, and
\* each of them is in one place only: a key left behind in the set could
\* never be enqueued again, and a key in two places would be served twice
\* (queue.rs: insert before send, remove only in done).
InFlightExact ==
  /\ inFlight = ({sending} \ {NoKey}) \union Range(chan) \union Held
  /\ IsInjective(chan)
  /\ sending \notin Range(chan) \union Held
  /\ Range(chan) \intersect Held = {}

\* No two workers reconcile the same key at the same time, although they
\* share nothing but the queue (run_workers).
SingleFlightPerKey ==
  \A v, w \in Workers : v # w /\ current[v] # NoKey => current[v] # current[w]

\* A key never stays in the set for ever: with any number of keys waiting for
\* a bounded channel, the watcher and the workers never wait on each other.
KeyServed == \A k \in Keys : k \in inFlight ~> k \notin inFlight

(***************************************************************************)
(* The queue implements SingleFlight.                                      *)
(***************************************************************************)
phaseOf ==
  [k \in Keys |-> IF k \in Held THEN "active"
                  ELSE IF k \in inFlight THEN "pending" ELSE "idle"]

SF == INSTANCE SingleFlight WITH phase <- phaseOf

\* Each step of the queue is a step of SingleFlight or invisible to it, and
\* the runtime's fairness serves every pending key.
ImplementsSingleFlight == SF!Spec
===========================================================================
