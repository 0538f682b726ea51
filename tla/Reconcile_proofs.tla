------------------------- MODULE Reconcile_proofs -------------------------
(***************************************************************************)
(* Proofs about Reconcile, for any namespace, service accounts, replicas,  *)
(* workers, capacity of the channel and budget.                            *)
(***************************************************************************)
EXTENDS Reconcile, TLAPS

(***************************************************************************)
(* Sequences of keys.                                                      *)
(***************************************************************************)
LEMMA AppendKey ==
  ASSUME NEW S, NEW s \in Seq(S), NEW e \in S
  PROVE  /\ Append(s, e) \in Seq(S)
         /\ Range(Append(s, e)) = Range(s) \union {e}
         /\ Len(Append(s, e)) = Len(s) + 1
         /\ IsInjective(s) /\ e \notin Range(s) => IsInjective(Append(s, e))
<1>1. /\ Append(s, e) \in Seq(S)
      /\ Len(Append(s, e)) = Len(s) + 1
      /\ DOMAIN s = 1..Len(s)
      /\ DOMAIN Append(s, e) = 1..(Len(s) + 1)
      /\ \A i \in 1..Len(s) : Append(s, e)[i] = s[i]
      /\ Append(s, e)[Len(s) + 1] = e
  OBVIOUS
<1>2. Range(Append(s, e)) = Range(s) \union {e}
  BY <1>1 DEF Range
<1>3. ASSUME IsInjective(s), e \notin Range(s)
      PROVE  IsInjective(Append(s, e))
  BY <1>1, <1>3 DEF Range, IsInjective
<1> QED
  BY <1>1, <1>2, <1>3

LEMMA TakeHead ==
  ASSUME NEW S, NEW s \in Seq(S), s # <<>>
  PROVE  /\ Head(s) \in S
         /\ Tail(s) \in Seq(S)
         /\ Len(Tail(s)) <= Len(s)
         /\ Range(s) = Range(Tail(s)) \union {Head(s)}
         /\ IsInjective(s) =>
              IsInjective(Tail(s)) /\ Head(s) \notin Range(Tail(s))
<1>1. /\ Len(s) \in Nat \ {0}
      /\ DOMAIN s = 1..Len(s)
      /\ Head(s) = s[1] /\ s[1] \in S
      /\ Tail(s) \in Seq(S)
      /\ Len(Tail(s)) = Len(s) - 1
      /\ DOMAIN Tail(s) = 1..(Len(s) - 1)
      /\ \A i \in 1..(Len(s) - 1) : Tail(s)[i] = s[i + 1]
  OBVIOUS
<1>2. Range(Tail(s)) \union {Head(s)} \subseteq Range(s)
  BY <1>1 DEF Range
<1>3. \A i \in 1..Len(s) : s[i] \in Range(Tail(s)) \union {Head(s)}
  <2> SUFFICES ASSUME NEW i \in 1..Len(s), i # 1 PROVE s[i] \in Range(Tail(s))
    BY <1>1
  <2>1. i - 1 \in 1..(Len(s) - 1) /\ Tail(s)[i - 1] = s[i]
    BY <1>1
  <2> QED
    BY <1>1, <2>1 DEF Range
<1>4. Range(s) = Range(Tail(s)) \union {Head(s)}
  BY <1>1, <1>2, <1>3 DEF Range
<1>5. ASSUME IsInjective(s)
      PROVE  IsInjective(Tail(s)) /\ Head(s) \notin Range(Tail(s))
  BY <1>1, <1>5 DEF Range, IsInjective
<1> QED
  BY <1>1, <1>4, <1>5

(***************************************************************************)
(* The types.                                                              *)
(***************************************************************************)
Bounds == {"ops", "faults", "restarts", "pending"}

Types ==
  /\ crb \in [Names -> Crb \union {Absent}]
  /\ resolved \in [Keys -> [spec : {o.spec : o \in Outcomes} \union {Absent},
                           status : {o.status : o \in Outcomes} \union {Absent}]]
  /\ events \in [Replicas -> Seq(Keys)]
  /\ replay \in [Replicas -> [Names -> Keys \union {NoKey}]]
  /\ ready \in [Replicas -> BOOLEAN]
  /\ inFlight \in [Replicas -> SUBSET Keys]
  /\ sending \in [Replicas -> Keys \union {NoKey}]
  /\ chan \in [Replicas -> Seq(Keys)]
  /\ \A r \in Replicas : Len(chan[r]) <= Capacity
  /\ current \in [Workers -> Keys \union {NoKey}]
  /\ pc \in [Workers -> {"idle", "list", "mark", "patch", "done"}]
  /\ listed \in [Workers -> Inputs]
  /\ todo \in [Workers -> SUBSET Names]
  /\ intact \in [Workers -> SUBSET Names]
  /\ \A w \in Workers :
       /\ todo[w] \subseteq DOMAIN listed[w] /\ intact[w] \subseteq DOMAIN listed[w]
       /\ \A n \in intact[w] : crb[n] # Absent
       /\ pc[w] = "idle" <=> current[w] = NoKey
  /\ lost \in [Replicas -> [Keys -> SUBSET Reasons]]
  /\ budget = [x \in DOMAIN budget |-> budget[x]]
  /\ Bounds \union {"keys"} \subseteq DOMAIN budget
  /\ \A bound \in Bounds : budget[bound] \in Nat
  /\ budget.keys \subseteq Keys
  /\ home \in [Workers -> Replicas]

LEMMA TypesSuffice == Types => TypeOK
<1> SUFFICES ASSUME Types PROVE TypeOK
  OBVIOUS
<1>1. ASSUME NEW r \in Replicas PROVE WQ(r)!TypeOK
  BY DEF Types, WQ!TypeOK
<1>2. \A k \in Keys : /\ resolved[k].spec \in {o.spec : o \in Outcomes} \union {Absent}
                      /\ resolved[k].status \in {o.status : o \in Outcomes} \union {Absent}
  BY DEF Types
<1> QED
  BY <1>1, <1>2 DEF Types, TypeOK, Bounds

LEMMA InitTypes == Init => Types
<1> SUFFICES ASSUME Init PROVE Types
  OBVIOUS
<1>1. PICK b \in Budgets :
        home = b.home /\ budget = [x \in DOMAIN b \ {"home"} |-> b[x]]
  BY DEF Init
<1>2. /\ home \in [Workers -> Replicas]
      /\ budget = [x \in DOMAIN budget |-> budget[x]]
      /\ Bounds \union {"keys"} \subseteq DOMAIN budget
      /\ \A bound \in Bounds : budget[bound] \in Nat
      /\ budget.keys \subseteq Keys
  BY <1>1, BudgetsAssumption DEF Bounds
<1>3. NoBindings \in Inputs
  BY DEF NoBindings, Inputs
<1>4. \A k \in Keys : Never \in [spec : {o.spec : o \in Outcomes} \union {Absent},
                               status : {o.status : o \in Outcomes} \union {Absent}]
  BY DEF Never
<1>5. /\ chan \in [Replicas -> Seq(Keys)] /\ \A r \in Replicas : Len(chan[r]) <= Capacity
      /\ events \in [Replicas -> Seq(Keys)]
  BY QueueAssumption DEF Init
<1>6. lost \in [Replicas -> [Keys -> SUBSET Reasons]]
  BY DEF Init
<1>7. /\ todo \in [Workers -> SUBSET Names] /\ intact \in [Workers -> SUBSET Names]
      /\ listed \in [Workers -> Inputs] /\ pc \in [Workers -> {"idle", "list", "mark", "patch", "done"}]
      /\ \A w \in Workers :
           /\ todo[w] = {} /\ intact[w] = {}
           /\ pc[w] = "idle" <=> current[w] = NoKey
  BY <1>3 DEF Init
<1>8. /\ crb \in [Names -> Crb \union {Absent}]
      /\ replay \in [Replicas -> [Names -> Keys \union {NoKey}]]
      /\ ready \in [Replicas -> BOOLEAN]
      /\ inFlight \in [Replicas -> SUBSET Keys]
      /\ sending \in [Replicas -> Keys \union {NoKey}]
      /\ current \in [Workers -> Keys \union {NoKey}]
  BY DEF Init
<1>9. resolved \in [Keys -> [spec : {o.spec : o \in Outcomes} \union {Absent},
                           status : {o.status : o \in Outcomes} \union {Absent}]]
  BY <1>4 DEF Init
<1> QED
  BY <1>2, <1>5, <1>6, <1>7, <1>8, <1>9 DEF Types

\* What a list call returns can be merged, and is a record of bindings.
LEMMA ViewType ==
  ASSUME Types, NEW k \in Keys
  PROVE  /\ View(k) \in Inputs
         /\ DOMAIN View(k) \subseteq Names
         /\ Marked(View(k)) \subseteq DOMAIN View(k)
         /\ \A n \in DOMAIN View(k) : crb[n] # Absent
<1> DEFINE S == {m \in Names : crb[m] # Absent /\ crb[m].subject = k}
<1>1. View(k) = [n \in S |-> crb[n].spec]
  BY DEF View
<1>2. \A n \in S : crb[n] \in Crb
  BY DEF Types
<1>3. \A n \in S : crb[n].spec \in Bodies
  BY <1>2 DEF Crb
<1>4. S \in SUBSET Names /\ \A n \in S : crb[n] # Absent
  OBVIOUS
<1>5. View(k) \in [S -> Bodies] /\ DOMAIN View(k) = S
  <2> HIDE DEF S
  <2> QED
    BY <1>1, <1>3
<1> HIDE DEF S
<1>6. View(k) \in Inputs
  BY <1>4, <1>5 DEF Inputs
<1> QED
  BY <1>4, <1>5, <1>6 DEF Marked

LEMMA UseKeeps ==
  ASSUME Types, NEW bound \in {"ops", "faults", "restarts"}, Use(bound)
  PROVE  /\ budget' = [x \in DOMAIN budget' |-> budget'[x]]
         /\ DOMAIN budget' = DOMAIN budget
         /\ \A other \in Bounds : budget'[other] \in Nat
         /\ budget'.keys = budget.keys
<1> DEFINE D == DOMAIN budget
<1> DEFINE less == budget[bound] - 1
<1>1. /\ budget = [x \in D |-> budget[x]]
      /\ Bounds \subseteq D /\ bound \in Bounds
      /\ \A other \in Bounds : budget[other] \in Nat
      /\ budget[bound] > 0
  BY DEF Use, Types, Bounds
<1>2. budget' = [budget EXCEPT ![bound] = less]
  BY DEF Use
<1>3. less \in Nat
  BY <1>1
<1> HIDE DEF D, less
<1>4. budget' = [x \in D |-> IF x = bound THEN less ELSE budget[x]]
  BY <1>1, <1>2
<1>5. DOMAIN budget' = D
  BY <1>4
<1>6. budget'["keys"] = budget["keys"]
  <2>1. CASE "keys" \in D
    BY <1>4, <2>1
  <2>2. "keys" \in D
    BY DEF Types, D, Bounds
  <2> QED
    BY <2>1, <2>2
<1>7. \A other \in Bounds : budget'[other] \in Nat
  BY <1>1, <1>3, <1>4
<1> QED
  BY <1>4, <1>5, <1>6, <1>7 DEF D

LEMMA AnnounceType ==
  ASSUME Types, NEW k \in Keys, Announce(k)
  PROVE  /\ events' \in [Replicas -> Seq(Keys)]
         /\ \A r \in Replicas : Range(events[r]) \subseteq Range(events'[r]) \/ r \notin Running
         /\ \A r \in Running \intersect Replicas : k \in Range(events'[r])
<1>1. \A r \in Replicas :
        events'[r] = (IF r \in Running THEN Append(events[r], k) ELSE <<>>)
  BY DEF Announce
<1>2. \A r \in Replicas : events[r] \in Seq(Keys)
  BY DEF Types
<1>3. \A r \in Replicas : /\ Append(events[r], k) \in Seq(Keys)
                          /\ Range(Append(events[r], k)) = Range(events[r]) \union {k}
  BY <1>2, AppendKey
<1>4. <<>> \in Seq(Keys)
  OBVIOUS
<1>5. events' = [r \in Replicas |-> events'[r]]
  BY DEF Announce
<1> QED
  BY <1>1, <1>3, <1>4, <1>5

(***************************************************************************)
(* Every step keeps them.                                                  *)
(***************************************************************************)
\* A change of binding n by a user.
Change(n) ==
  \/ \E k \in budget.keys, b \in Bodies : Create(n, k, b) \/ Update(n, k, b)
  \/ Delete(n)

LEMMA ChangeCrb ==
  ASSUME Types, NEW n \in Names, Change(n)
  PROVE  /\ crb' \in [Names -> Crb \union {Absent}]
         /\ \A m \in Names : m # n => crb'[m] = crb[m]
<1>1. ASSUME NEW k \in budget.keys, NEW b \in Bodies, Create(n, k, b)
      PROVE  crb' \in [Names -> Crb \union {Absent}] /\ \A m \in Names : m # n => crb'[m] = crb[m]
  <2>1. [subject |-> k, spec |-> b, status |-> NoCrbStatus] \in Crb
    BY DEF Types, Crb, Statuses
  <2> QED
    BY <1>1, <2>1 DEF Create, Types
<1>2. ASSUME NEW k \in budget.keys, NEW b \in Bodies, Update(n, k, b)
      PROVE  crb' \in [Names -> Crb \union {Absent}] /\ \A m \in Names : m # n => crb'[m] = crb[m]
  <2>1. crb[n] \in Crb /\ k \in Keys
    BY <1>2 DEF Update, Types
  <2>2. [crb[n] EXCEPT !.subject = k, !.spec = b] \in Crb
    BY <2>1 DEF Crb
  <2>3. crb' = [crb EXCEPT ![n] = [crb[n] EXCEPT !.subject = k, !.spec = b]]
    BY <1>2 DEF Update, Types
  <2> QED
    BY <2>2, <2>3 DEF Types
<1>3. CASE Delete(n)
  BY <1>3 DEF Delete, Types
<1> QED
  BY <1>1, <1>2, <1>3 DEF Change

LEMMA ChangeAnnounces ==
  ASSUME Types, NEW n \in Names, Change(n)
  PROVE  \E k \in Keys :
           /\ Announce(k)
           /\ \/ lost' = lost
              \/ /\ crb[n] # Absent
                 /\ lost' = [r \in Replicas |-> IF r \in Running
                      THEN [lost[r] EXCEPT ![crb[n].subject] = @ \union {"moved"}]
                      ELSE lost[r]]
           /\ \A j \in Keys :
                \/ j = k
                \/ View(j)' = View(j) /\ \A m \in DOMAIN View(j) : crb'[m] = crb[m]
                \/ /\ crb[n] # Absent /\ crb[n].subject = j
                   /\ lost' = [r \in Replicas |-> IF r \in Running
                      THEN [lost[r] EXCEPT ![crb[n].subject] = @ \union {"moved"}]
                      ELSE lost[r]]
<1>0. \A m \in Names : m # n => crb'[m] = crb[m]
  BY ChangeCrb
<1>1. ASSUME NEW j \in Keys,
             ~(crb[n] # Absent /\ crb[n].subject = j),
             ~(crb'[n] # Absent /\ crb'[n].subject = j)
      PROVE  View(j)' = View(j) /\ \A m \in DOMAIN View(j) : crb'[m] = crb[m]
  <2>1. {m \in Names : crb'[m] # Absent /\ crb'[m].subject = j}
          = {m \in Names : crb[m] # Absent /\ crb[m].subject = j}
    BY <1>0, <1>1
  <2>2. \A m \in {m \in Names : crb[m] # Absent /\ crb[m].subject = j} : crb'[m].spec = crb[m].spec
    BY <1>0, <1>1
  <2>3. \A m \in DOMAIN View(j) : crb'[m] = crb[m]
    BY <1>0, <1>1 DEF View
  <2> QED
    BY <2>1, <2>2, <2>3 DEF View
<1>2. ASSUME NEW k \in budget.keys, NEW b \in Bodies, Create(n, k, b)
      PROVE  k \in Keys /\ Announce(k) /\ lost' = lost /\ crb[n] = Absent /\ crb'[n].subject = k
  BY <1>2 DEF Create, Types
<1>3. ASSUME NEW k \in budget.keys, NEW b \in Bodies, Update(n, k, b)
      PROVE  /\ k \in Keys /\ Announce(k) /\ crb[n] # Absent /\ crb'[n].subject = k
             /\ \/ crb[n].subject = k /\ lost' = lost
                \/ lost' = [r \in Replicas |-> IF r \in Running
                      THEN [lost[r] EXCEPT ![crb[n].subject] = @ \union {"moved"}]
                      ELSE lost[r]]
  <2>1. crb[n] \in Crb
    BY <1>3 DEF Update, Types
  <2>2. crb'[n] = [crb[n] EXCEPT !.subject = k, !.spec = b]
    BY <1>3 DEF Update, Types
  <2> QED
    BY <1>3, <2>1, <2>2 DEF Update, Types, Crb
<1>4. ASSUME Delete(n)
      PROVE  /\ crb[n].subject \in Keys /\ Announce(crb[n].subject) /\ lost' = lost
             /\ crb'[n] = Absent
  BY <1>4 DEF Delete, Types, Crb
<1> DEFINE Moved == lost' = [r \in Replicas |-> IF r \in Running
                      THEN [lost[r] EXCEPT ![crb[n].subject] = @ \union {"moved"}]
                      ELSE lost[r]]
<1> DEFINE Same(j) == View(j)' = View(j) /\ \A m \in DOMAIN View(j) : crb'[m] = crb[m]
<1> DEFINE Goal(k) ==
           /\ Announce(k)
           /\ lost' = lost \/ (crb[n] # Absent /\ Moved)
           /\ \A j \in Keys :
                j = k \/ Same(j) \/ (crb[n] # Absent /\ crb[n].subject = j /\ Moved)
<1>9. \A j \in Keys :
         \/ (crb[n] # Absent /\ crb[n].subject = j)
         \/ (crb'[n] # Absent /\ crb'[n].subject = j)
         \/ Same(j)
  BY <1>1
<1> HIDE DEF Moved, Same
<1>5. ASSUME NEW k \in budget.keys, NEW b \in Bodies, Create(n, k, b)
      PROVE  k \in Keys /\ Goal(k)
  BY <1>9, <1>2, <1>5
<1>6. ASSUME NEW k \in budget.keys, NEW b \in Bodies, Update(n, k, b)
      PROVE  k \in Keys /\ Goal(k)
  BY <1>9, <1>3, <1>6 DEF Moved
<1>7. ASSUME Delete(n) PROVE crb[n].subject \in Keys /\ Goal(crb[n].subject)
  BY <1>9, <1>4, <1>7
<1>8. \E k \in Keys : Goal(k)
  <2> HIDE DEF Goal
  <2> QED
    BY <1>5, <1>6, <1>7 DEF Change
<1> QED
  BY <1>8 DEF Moved, Same

LEMMA ChangeKeepsTypes ==
  ASSUME Types, NEW n \in Names, Change(n)
  PROVE  Types'
<1>1. /\ UNCHANGED <<resolved, replay, ready, inFlight, sending, chan, current, pc, listed, todo, home>>
      /\ Outdate(n, {}) /\ Use("ops")
  BY DEF Change, Create, Update, Delete, queue
<1>2. /\ budget' = [x \in DOMAIN budget' |-> budget'[x]]
      /\ DOMAIN budget' = DOMAIN budget
      /\ \A other \in Bounds : budget'[other] \in Nat
      /\ budget'.keys = budget.keys
  BY <1>1, UseKeeps
<1>3. /\ intact' \in [Workers -> SUBSET Names]
      /\ \A w \in Workers : intact'[w] \subseteq intact[w] /\ n \notin intact'[w]
  BY <1>1 DEF Outdate, Types
<1>4. PICK k \in Keys :
           /\ Announce(k)
           /\ \/ lost' = lost
              \/ /\ crb[n] # Absent
                 /\ lost' = [r \in Replicas |-> IF r \in Running
                      THEN [lost[r] EXCEPT ![crb[n].subject] = @ \union {"moved"}]
                      ELSE lost[r]]
  BY ChangeAnnounces
<1>5. events' \in [Replicas -> Seq(Keys)]
  BY <1>4, AnnounceType
<1>6. lost' \in [Replicas -> [Keys -> SUBSET Reasons]]
  <2>1. CASE lost' = lost
    BY <2>1 DEF Types
  <2>2. CASE lost' # lost
    <3> DEFINE j == crb[n].subject
    <3>1. j \in Keys
      BY <1>4, <2>2 DEF Types, Crb
    <3>2. "moved" \in Reasons
      BY DEF Reasons
    <3>3. lost' = [r \in Replicas |-> IF r \in Running
                      THEN [lost[r] EXCEPT ![j] = @ \union {"moved"}] ELSE lost[r]]
      BY <1>4, <2>2
    <3> HIDE DEF j
    <3>4. \A r \in Replicas : [lost[r] EXCEPT ![j] = @ \union {"moved"}] \in [Keys -> SUBSET Reasons]
      BY <3>1, <3>2 DEF Types
    <3> QED
      BY <3>3, <3>4 DEF Types
  <2> QED
    BY <2>1, <2>2
<1>7. crb' \in [Names -> Crb \union {Absent}] /\ \A m \in Names : m # n => crb'[m] = crb[m]
  BY ChangeCrb
<1>8. \A w \in Workers : /\ intact'[w] \subseteq DOMAIN listed[w]
                         /\ \A m \in intact'[w] : crb'[m] # Absent
  BY <1>3, <1>7 DEF Types
<1> QED
  BY <1>1, <1>2, <1>3, <1>5, <1>6, <1>7, <1>8 DEF Types

LEMMA LoseType ==
  ASSUME Types, NEW r \in Replicas, NEW k \in Keys, NEW why \in Reasons, Lose(r, k, why)
  PROVE  /\ lost' \in [Replicas -> [Keys -> SUBSET Reasons]]
         /\ lost'[r][k] # {}
         /\ \A s \in Replicas, j \in Keys : lost[s][j] \subseteq lost'[s][j]
<1> DEFINE more == [lost[r] EXCEPT ![k] = @ \union {why}]
<1>1. lost \in [Replicas -> [Keys -> SUBSET Reasons]]
  BY DEF Types
<1>2. lost' = [lost EXCEPT ![r] = more]
  BY <1>1 DEF Lose
<1>3. /\ more \in [Keys -> SUBSET Reasons] /\ more[k] # {}
      /\ \A j \in Keys : lost[r][j] \subseteq more[j]
  BY <1>1
<1> HIDE DEF more
<1>4. lost' \in [Replicas -> [Keys -> SUBSET Reasons]]
  BY <1>1, <1>2, <1>3
<1>5. lost'[r] = more /\ \A s \in Replicas : s # r => lost'[s] = lost[s]
  BY <1>1, <1>2
<1> QED
  BY <1>3, <1>4, <1>5

LEMMA EnqueueKeepsTypes ==
  ASSUME Types, NEW r \in Replicas, NEW k \in Keys, Enqueue(r, k)
  PROVE  /\ inFlight' \in [Replicas -> SUBSET Keys]
         /\ sending' \in [Replicas -> Keys \union {NoKey}]
         /\ lost' \in [Replicas -> [Keys -> SUBSET Reasons]]
         /\ UNCHANGED <<chan, current>>
<1>1. "ignored" \in Reasons
  BY DEF Reasons
<1>2. lost' = lost \/ Lose(r, k, "ignored")
  BY DEF Enqueue
<1>3. lost' \in [Replicas -> [Keys -> SUBSET Reasons]]
  <2>1. CASE lost' = lost
    BY <2>1 DEF Types
  <2>2. CASE Lose(r, k, "ignored")
    BY <1>1, <2>2, LoseType
  <2> QED
    BY <1>2, <2>1, <2>2
<1>4. /\ inFlight' \in [Replicas -> SUBSET Keys]
      /\ sending' \in [Replicas -> Keys \union {NoKey}]
      /\ UNCHANGED <<chan, current>>
  <2>0. /\ inFlight \in [Replicas -> SUBSET Keys]
        /\ sending \in [Replicas -> Keys \union {NoKey}]
    BY DEF Types
  <2>1. CASE k \notin inFlight[r]
    <3> DEFINE K == inFlight[r] \union {k}
    <3>1. inFlight' = [inFlight EXCEPT ![r] = K] /\ K \in SUBSET Keys
      BY <2>0, <2>1 DEF Enqueue
    <3>2. sending' = [sending EXCEPT ![r] = k] /\ UNCHANGED <<chan, current>>
      BY <2>1 DEF Enqueue
    <3> HIDE DEF K
    <3> QED
      BY <2>0, <3>1, <3>2
  <2>2. CASE k \in inFlight[r]
    BY <2>0, <2>2 DEF Enqueue, queue
  <2> QED
    BY <2>1, <2>2
<1> QED
  BY <1>3, <1>4

\* The steps of r's watcher task.
Watch(r) == (\E n \in Names : InitApply(r, n)) \/ InitDone(r) \/ Deliver(r) \/ Send(r)

LEMMA WatchKeepsTypes ==
  ASSUME Types, NEW r \in Replicas, Watch(r)
  PROVE  Types'
<1>1. ASSUME NEW n \in Names, InitApply(r, n) PROVE Types'
  <2>1. replay[r][n] \in Keys
    BY <1>1 DEF InitApply, IsFirst, Types
  <2>2. /\ inFlight' \in [Replicas -> SUBSET Keys]
        /\ sending' \in [Replicas -> Keys \union {NoKey}]
        /\ lost' \in [Replicas -> [Keys -> SUBSET Reasons]]
        /\ UNCHANGED <<chan, current>>
    BY <1>1, <2>1, EnqueueKeepsTypes DEF InitApply
  <2>3. replay' \in [Replicas -> [Names -> Keys \union {NoKey}]]
    BY <1>1 DEF InitApply, Types
  <2>4. UNCHANGED <<crb, resolved, events, ready, pc, listed, todo, intact, budget, home>>
    BY <1>1 DEF InitApply, worker
  <2> QED
    BY <2>2, <2>3, <2>4 DEF Types
<1>2. CASE InitDone(r)
  BY <1>2 DEF InitDone, server, queue, worker, Types
<1>3. CASE Deliver(r)
  <2>1. events[r] \in Seq(Keys) /\ events[r] # <<>>
    BY <1>3 DEF Deliver, Types
  <2>2. Head(events[r]) \in Keys /\ Tail(events[r]) \in Seq(Keys)
    BY <2>1, TakeHead
  <2>3. /\ inFlight' \in [Replicas -> SUBSET Keys]
        /\ sending' \in [Replicas -> Keys \union {NoKey}]
        /\ lost' \in [Replicas -> [Keys -> SUBSET Reasons]]
        /\ UNCHANGED <<chan, current>>
    BY <1>3, <2>2, EnqueueKeepsTypes DEF Deliver
  <2>4. events' \in [Replicas -> Seq(Keys)]
    BY <1>3, <2>2 DEF Deliver, Types
  <2>5. UNCHANGED <<crb, resolved, replay, ready, pc, listed, todo, intact, budget, home>>
    BY <1>3 DEF Deliver, worker
  <2> QED
    BY <2>3, <2>4, <2>5 DEF Types
<1>4. CASE Send(r)
  <2>1. sending[r] \in Keys /\ chan[r] \in Seq(Keys) /\ Len(chan[r]) < Capacity
    BY <1>4 DEF Send, Types
  <2>2. /\ Append(chan[r], sending[r]) \in Seq(Keys)
        /\ Len(Append(chan[r], sending[r])) = Len(chan[r]) + 1
    BY <2>1, AppendKey
  <2>3. Len(chan[r]) + 1 <= Capacity
    BY <2>1, QueueAssumption
  <2>4. chan' = [chan EXCEPT ![r] = Append(chan[r], sending[r])]
    BY <1>4 DEF Send
  <2>5. /\ chan' \in [Replicas -> Seq(Keys)]
        /\ \A s \in Replicas : Len(chan'[s]) <= Capacity
    BY <2>2, <2>3, <2>4 DEF Types
  <2>6. sending' \in [Replicas -> Keys \union {NoKey}]
    BY <1>4 DEF Send, Types
  <2> QED
    BY <1>4, <2>5, <2>6 DEF Send, server, worker, Types
<1> QED
  BY <1>1, <1>2, <1>3, <1>4 DEF Watch

\* The steps of worker w.
Worker(w) ==
  \/ Recv(w) \/ List(w) \/ PatchSpec(w) \/ PatchStatus(w) \/ Fail(w) \/ Finish(w)
  \/ \E n \in Names : MarkStatus(w, n) \/ MarkRefused(w, n)

LEMMA RecvKeepsTypes ==
  ASSUME Types, NEW w \in Workers, Recv(w)
  PROVE  Types'
<1> DEFINE r == home[w]
<1>1. r \in Replicas /\ chan[r] \in Seq(Keys) /\ chan[r] # <<>>
  BY DEF Recv, Types
<1>2. /\ Head(chan[r]) \in Keys /\ Tail(chan[r]) \in Seq(Keys)
      /\ Len(Tail(chan[r])) <= Len(chan[r])
  BY <1>1, TakeHead
<1>3. Len(chan[r]) <= Capacity /\ Len(chan[r]) \in Nat /\ Len(Tail(chan[r])) \in Nat
  BY <1>1, <1>2 DEF Types
<1>4. chan' = [chan EXCEPT ![r] = Tail(chan[r])] /\ current' = [current EXCEPT ![w] = Head(chan[r])]
  BY DEF Recv
<1> HIDE DEF r
<1>5. chan' \in [Replicas -> Seq(Keys)] /\ \A s \in Replicas : Len(chan'[s]) <= Capacity
  BY <1>1, <1>2, <1>3, <1>4, QueueAssumption DEF Types
<1>6. /\ current' \in [Workers -> Keys \union {NoKey}]
      /\ pc' \in [Workers -> {"idle", "list", "mark", "patch", "done"}]
      /\ \A v \in Workers : pc'[v] = "idle" <=> current'[v] = NoKey
  BY <1>2, <1>4, QueueAssumption DEF Recv, At, Goto, Types
<1> QED
  BY <1>5, <1>6 DEF Recv, server, Types

LEMMA GotoKeeps ==
  ASSUME Types, NEW w \in Workers, pc[w] # "idle",
         NEW step \in {"list", "mark", "patch", "done"}, Goto(w, step)
  PROVE  /\ pc' \in [Workers -> {"idle", "list", "mark", "patch", "done"}]
         /\ \A v \in Workers : pc'[v] = "idle" <=> current[v] = NoKey
         /\ current[w] \in Keys /\ home[w] \in Replicas
BY DEF Goto, Types

LEMMA ListKeepsTypes ==
  ASSUME Types, NEW w \in Workers, List(w)
  PROVE  Types'
<1> DEFINE view == View(current[w])
<1>1. /\ pc' \in [Workers -> {"idle", "list", "mark", "patch", "done"}]
      /\ \A v \in Workers : pc'[v] = "idle" <=> current[v] = NoKey
      /\ current[w] \in Keys /\ home[w] \in Replicas
  BY GotoKeeps DEF List, At
<1>2. /\ view \in Inputs /\ DOMAIN view \subseteq Names
      /\ Marked(view) \subseteq DOMAIN view
      /\ \A n \in DOMAIN view : crb[n] # Absent
  BY <1>1, ViewType
<1>3. /\ listed' = [listed EXCEPT ![w] = view]
      /\ intact' = [intact EXCEPT ![w] = DOMAIN view]
      /\ todo' = [todo EXCEPT ![w] = Marked(view)]
      /\ lost' = [lost EXCEPT ![home[w]][current[w]] = {}]
      /\ UNCHANGED <<crb, resolved, events, replay, ready, inFlight, sending, chan, current,
                     budget, home>>
  BY DEF List, server, queue
<1> HIDE DEF view
<1>4. /\ listed' \in [Workers -> Inputs]
      /\ todo' \in [Workers -> SUBSET Names] /\ intact' \in [Workers -> SUBSET Names]
      /\ \A v \in Workers :
           /\ todo'[v] \subseteq DOMAIN listed'[v] /\ intact'[v] \subseteq DOMAIN listed'[v]
           /\ \A n \in intact'[v] : crb[n] # Absent
  BY <1>2, <1>3 DEF Types
<1>5. lost' \in [Replicas -> [Keys -> SUBSET Reasons]]
  BY <1>1, <1>3 DEF Types
<1> QED
  BY <1>1, <1>3, <1>4, <1>5 DEF Types

LEMMA MarkStatusKeepsTypes ==
  ASSUME Types, NEW w \in Workers, NEW n \in Names, MarkStatus(w, n)
  PROVE  /\ Types'
         /\ \A k \in Keys : View(k)' = View(k)
         /\ UNCHANGED <<resolved, replay, ready, queue, pc, listed, lost, budget, home>>
         /\ \A r \in Running \intersect Replicas : Range(events[r]) \subseteq Range(events'[r])
<1> DEFINE status == CrbStatus(listed[w])
<1>1. /\ crb[n] \in Crb /\ crb[n].subject \in Keys
      /\ status \in Statuses
  BY DEF MarkStatus, Types, Crb, Statuses
<1>2. [crb[n] EXCEPT !.status = status] \in Crb
  BY <1>1 DEF Crb
<1>3. crb' = crb \/ crb' = [crb EXCEPT ![n] = [crb[n] EXCEPT !.status = status]]
  BY DEF MarkStatus
<1>4. /\ crb' \in [Names -> Crb \union {Absent}]
      /\ \A m \in Names : /\ (crb'[m] = Absent) = (crb[m] = Absent)
                          /\ m # n => crb'[m] = crb[m]
  <2>1. [crb[n] EXCEPT !.status = status] # Absent
    <3>1. \E k \in Keys, b \in Bodies : \E t \in Statuses :
            [crb[n] EXCEPT !.status = status] = [subject |-> k, spec |-> b, status |-> t]
      BY <1>1 DEF Crb
    <3> QED
      BY <3>1, AbsentAssumption DEF Statuses
  <2>2. crb[n] # Absent
    BY DEF MarkStatus, Types
  <2> DEFINE marked == [crb[n] EXCEPT !.status = status]
  <2>3. marked \in Crb /\ marked # Absent /\ (crb' = crb \/ crb' = [crb EXCEPT ![n] = marked])
    BY <1>2, <1>3, <2>1
  <2>4. crb \in [Names -> Crb \union {Absent}]
    BY DEF Types
  <2> HIDE DEF marked
  <2>5. \A m \in Names : IF m = n THEN crb'[m] = crb[m] \/ crb'[m] = marked ELSE crb'[m] = crb[m]
    BY <2>3, <2>4
  <2>6. crb' \in [Names -> Crb \union {Absent}]
    BY <2>3, <2>4
  <2> QED
    BY <2>2, <2>3, <2>5, <2>6
<1>5. crb'[n].subject = crb[n].subject /\ crb'[n].spec = crb[n].spec
  BY <1>1, <1>3 DEF Types, Crb
<1>6. ASSUME NEW k \in Keys PROVE View(k)' = View(k)
  <2>1. {m \in Names : crb'[m] # Absent /\ crb'[m].subject = k}
          = {m \in Names : crb[m] # Absent /\ crb[m].subject = k}
    BY <1>4, <1>5
  <2>2. \A m \in Names : crb'[m].spec = crb[m].spec
    BY <1>4, <1>5
  <2> QED
    BY <2>1, <2>2 DEF View
<1>7. /\ events' \in [Replicas -> Seq(Keys)]
      /\ \A r \in Running \intersect Replicas : Range(events[r]) \subseteq Range(events'[r])
  <2>1. Announce(crb[n].subject) \/ events' = events
    BY DEF MarkStatus
  <2>2. CASE Announce(crb[n].subject)
    BY <1>1, <2>2, AnnounceType
  <2>3. CASE events' = events
    BY <2>3 DEF Types
  <2> QED
    BY <2>1, <2>2, <2>3
<1>8. /\ intact' \in [Workers -> SUBSET Names]
      /\ \A v \in Workers : intact'[v] \subseteq intact[v]
  <2>1. Outdate(n, {w}) \/ intact' = intact
    BY DEF MarkStatus
  <2>2. intact \in [Workers -> SUBSET Names]
    BY DEF Types
  <2> QED
    BY <2>1, <2>2 DEF Outdate
<1>9. /\ todo' \in [Workers -> SUBSET Names]
      /\ \A v \in Workers : todo'[v] \subseteq todo[v]
  BY DEF MarkStatus, Types
<1>10. UNCHANGED <<resolved, replay, ready, queue, pc, listed, lost, budget, home>>
  BY DEF MarkStatus
<1>11. \A v \in Workers :
         /\ todo'[v] \subseteq DOMAIN listed'[v] /\ intact'[v] \subseteq DOMAIN listed'[v]
         /\ \A m \in intact'[v] : crb'[m] # Absent
  BY <1>4, <1>8, <1>9, <1>10 DEF Types
<1>12. Types'
  BY <1>4, <1>7, <1>8, <1>9, <1>10, <1>11 DEF Types, queue
<1> QED
  BY <1>6, <1>7, <1>10, <1>12

LEMMA FailingKeepsTypes ==
  ASSUME Types, NEW w \in Workers, Fail(w) \/ \E n \in Names : MarkRefused(w, n)
  PROVE  /\ Types'
         /\ UNCHANGED <<server, ready, queue, listed, todo, intact, home>>
         /\ pc[w] # "idle" /\ pc' = [pc EXCEPT ![w] = "done"]
         /\ lost'[home[w]][current[w]] # {}
         /\ \A s \in Replicas, j \in Keys : lost[s][j] \subseteq lost'[s][j]
<1>1. /\ UNCHANGED <<server, ready, queue, listed, todo, intact, home>>
      /\ pc[w] # "idle" /\ Goto(w, "done") /\ Lose(home[w], current[w], "failed")
  BY DEF Fail, MarkRefused, At
<1>2. /\ pc' \in [Workers -> {"idle", "list", "mark", "patch", "done"}]
      /\ \A v \in Workers : pc'[v] = "idle" <=> current[v] = NoKey
      /\ current[w] \in Keys /\ home[w] \in Replicas
  BY <1>1, GotoKeeps
<1>3. /\ lost' \in [Replicas -> [Keys -> SUBSET Reasons]]
      /\ lost'[home[w]][current[w]] # {}
      /\ \A s \in Replicas, j \in Keys : lost[s][j] \subseteq lost'[s][j]
  <2>1. "failed" \in Reasons
    BY DEF Reasons
  <2> QED
    BY <1>1, <1>2, <2>1, LoseType
<1>4. /\ budget' = [x \in DOMAIN budget' |-> budget'[x]]
      /\ DOMAIN budget' = DOMAIN budget
      /\ \A other \in Bounds : budget'[other] \in Nat
      /\ budget'.keys = budget.keys
  <2>1. Use("faults") \/ budget' = budget
    BY DEF Fail, MarkRefused
  <2>2. CASE Use("faults")
    BY <2>2, UseKeeps
  <2>3. CASE budget' = budget
    BY <2>3 DEF Types
  <2> QED
    BY <2>1, <2>2, <2>3
<1>5. Types'
  BY <1>1, <1>2, <1>3, <1>4 DEF Types, server, queue
<1> QED
  BY <1>1, <1>3, <1>5 DEF Goto

\* PatchSpec and PatchStatus write a part of the outcome of what was listed.
LEMMA PatchKeepsTypes ==
  ASSUME Types, NEW w \in Workers, PatchSpec(w) \/ PatchStatus(w)
  PROVE  Types'
<1> DEFINE o == Outcome(listed[w])
<1>1. o \in Outcomes
  BY DEF Types, Outcomes
<1>2. /\ pc' \in [Workers -> {"idle", "list", "mark", "patch", "done"}]
      /\ \A v \in Workers : pc'[v] = "idle" <=> current[v] = NoKey
      /\ current[w] \in Keys /\ home[w] \in Replicas
  BY GotoKeeps DEF PatchSpec, PatchStatus, At
<1>3. \/ resolved' = [resolved EXCEPT ![current[w]].spec = o.spec]
      \/ resolved' = [resolved EXCEPT ![current[w]].status = o.status]
  BY DEF PatchSpec, PatchStatus
<1>4. o.spec \in {q.spec : q \in Outcomes} /\ o.status \in {q.status : q \in Outcomes}
  BY <1>1
<1> HIDE DEF o
<1>5. resolved' \in [Keys -> [spec : {q.spec : q \in Outcomes} \union {Absent},
                             status : {q.status : q \in Outcomes} \union {Absent}]]
  <2> DEFINE A == {q.spec : q \in Outcomes} \union {Absent}
  <2> DEFINE B == {q.status : q \in Outcomes} \union {Absent}
  <2> DEFINE k == current[w]
  <2>1. o.spec \in A /\ o.status \in B /\ k \in Keys /\ resolved \in [Keys -> [spec : A, status : B]]
    BY <1>2, <1>4 DEF Types
  <2>2. \/ resolved' = [resolved EXCEPT ![k] = [resolved[k] EXCEPT !.spec = o.spec]]
        \/ resolved' = [resolved EXCEPT ![k] = [resolved[k] EXCEPT !.status = o.status]]
    BY <1>3, <2>1
  <2> HIDE DEF A, B, k
  <2>3. /\ [resolved[k] EXCEPT !.spec = o.spec] \in [spec : A, status : B]
        /\ [resolved[k] EXCEPT !.status = o.status] \in [spec : A, status : B]
    BY <2>1
  <2>4. resolved' \in [Keys -> [spec : A, status : B]]
    BY <2>1, <2>2, <2>3
  <2> QED
    BY <2>4 DEF A, B
<1>6. UNCHANGED <<crb, events, replay, ready, queue, listed, todo, intact, lost, budget, home>>
  BY DEF PatchSpec, PatchStatus
<1> QED
  BY <1>2, <1>5, <1>6 DEF Types, queue

LEMMA FinishKeepsTypes ==
  ASSUME Types, NEW w \in Workers, Finish(w)
  PROVE  Types'
<1>1. home[w] \in Replicas /\ current[w] \in Keys
  BY DEF Finish, At, Types
<1>2. inFlight' \in [Replicas -> SUBSET Keys]
  BY <1>1 DEF Finish, Types
<1>3. /\ current' \in [Workers -> Keys \union {NoKey}]
      /\ pc' \in [Workers -> {"idle", "list", "mark", "patch", "done"}]
      /\ \A v \in Workers : pc'[v] = "idle" <=> current'[v] = NoKey
  BY DEF Finish, Goto, Types
<1>4. NoBindings \in Inputs
  BY DEF NoBindings, Inputs
<1>5. /\ listed' \in [Workers -> Inputs]
      /\ todo' \in [Workers -> SUBSET Names] /\ intact' \in [Workers -> SUBSET Names]
      /\ \A v \in Workers :
           /\ todo'[v] \subseteq DOMAIN listed'[v] /\ intact'[v] \subseteq DOMAIN listed'[v]
           /\ \A n \in intact'[v] : crb[n] # Absent
  BY <1>4 DEF Finish, Types
<1>6. UNCHANGED <<server, ready, sending, chan, lost, budget, home>>
  BY DEF Finish
<1> QED
  BY <1>2, <1>3, <1>5, <1>6 DEF Types, server

LEMMA RestartKeepsTypes ==
  ASSUME Types, NEW r \in Replicas, Restart(r)
  PROVE  Types'
<1>1. Reset(r) /\ Use("restarts") /\ UNCHANGED <<crb, resolved, home>>
  BY DEF Restart
<1>2. /\ budget' = [x \in DOMAIN budget' |-> budget'[x]]
      /\ DOMAIN budget' = DOMAIN budget
      /\ \A other \in Bounds : budget'[other] \in Nat
      /\ budget'.keys = budget.keys
  BY <1>1, UseKeeps
<1>3. /\ events' \in [Replicas -> Seq(Keys)] /\ ready' \in [Replicas -> BOOLEAN]
      /\ inFlight' \in [Replicas -> SUBSET Keys]
      /\ sending' \in [Replicas -> Keys \union {NoKey}]
      /\ chan' \in [Replicas -> Seq(Keys)]
      /\ \A s \in Replicas : Len(chan'[s]) <= Capacity
  <2>1. <<>> \in Seq(Keys) /\ Len(<<>>) <= Capacity
    BY QueueAssumption
  <2> QED
    BY <1>1, <2>1 DEF Reset, Types
<1>4. NoBindings \in Inputs
  BY DEF NoBindings, Inputs
<1>5. /\ current' \in [Workers -> Keys \union {NoKey}]
      /\ pc' \in [Workers -> {"idle", "list", "mark", "patch", "done"}]
      /\ listed' \in [Workers -> Inputs]
      /\ todo' \in [Workers -> SUBSET Names] /\ intact' \in [Workers -> SUBSET Names]
      /\ \A v \in Workers :
           /\ pc'[v] = "idle" <=> current'[v] = NoKey
           /\ todo'[v] \subseteq DOMAIN listed'[v] /\ intact'[v] \subseteq DOMAIN listed'[v]
           /\ \A n \in intact'[v] : crb[n] # Absent
  BY <1>1, <1>4 DEF Reset, Types
<1>6. replay' \in [Replicas -> [Names -> Keys \union {NoKey}]]
  <2> DEFINE again == [n \in Names |-> IF crb[n] = Absent THEN NoKey ELSE crb[n].subject]
  <2>1. \A n \in Names : crb[n] # Absent => crb[n].subject \in Keys
    BY DEF Types, Crb
  <2>2. again \in [Names -> Keys \union {NoKey}]
    BY <2>1
  <2>3. replay' = [replay EXCEPT ![r] = again]
    BY DEF Restart
  <2> HIDE DEF again
  <2> QED
    BY <2>2, <2>3 DEF Types
<1>7. lost' \in [Replicas -> [Keys -> SUBSET Reasons]]
  <2> DEFINE now == [k \in Keys |->
                IF View(k) = NoBindings /\ (Announced(r, k) \/ BeingServed(r, k))
                THEN lost[r][k] \union {Unseen(r, k)} ELSE lost[r][k]]
  <2>1. \A k \in Keys : Unseen(r, k) \in Reasons
    BY DEF Reasons, Unseen
  <2>2. now \in [Keys -> SUBSET Reasons]
    BY <2>1 DEF Types
  <2>3. lost' = [lost EXCEPT ![r] = now]
    BY DEF Restart
  <2> HIDE DEF now
  <2> QED
    BY <2>2, <2>3 DEF Types
<1> QED
  BY <1>1, <1>2, <1>3, <1>5, <1>6, <1>7 DEF Types

\* Whose step it is.
LEMMA Steps ==
  ASSUME [Next]_vars
  PROVE  \/ UNCHANGED vars
         \/ \E n \in Names : Change(n)
         \/ \E r \in Replicas : Watch(r) \/ Restart(r)
         \/ \E w \in Workers : Worker(w)
<1>1. CASE Next
  BY <1>1 DEF Next, Change, Watch, Worker
<1> QED
  BY <1>1

LEMMA TypesStep ==
  ASSUME Types, [Next]_vars
  PROVE  Types'
<1>1. CASE UNCHANGED vars
  BY <1>1 DEF vars, server, queue, worker, Types
<1>2. ASSUME NEW n \in Names, Change(n) PROVE Types'
  BY <1>2, ChangeKeepsTypes
<1>3. ASSUME NEW r \in Replicas, Watch(r) \/ Restart(r) PROVE Types'
  BY <1>3, WatchKeepsTypes, RestartKeepsTypes
<1>4. ASSUME NEW w \in Workers, Worker(w) PROVE Types'
  BY <1>4, RecvKeepsTypes, ListKeepsTypes, PatchKeepsTypes, FailingKeepsTypes, FinishKeepsTypes,
    MarkStatusKeepsTypes DEF Worker
<1> QED
  BY <1>1, <1>2, <1>3, <1>4, Steps

LEMMA TypesInvariant == Spec => []Types
BY InitTypes, TypesStep, PTL DEF Spec

THEOREM TypeCorrect == Spec => []TypeOK
BY TypesInvariant, TypesSuffice, PTL

(***************************************************************************)
(* The queue of a replica: a key is in flight while it is sent, in the     *)
(* channel or with one worker, and in one of these places only.            *)
(***************************************************************************)
QueueInv(r) ==
  /\ \A k \in Keys :
       k \in inFlight[r] <=> \/ sending[r] = k
                             \/ k \in Range(chan[r])
                             \/ \E w \in Staff(r) : current[w] = k
  /\ IsInjective(chan[r])
  /\ sending[r] \notin Range(chan[r])
  /\ \A w \in Staff(r) :
       current[w] # NoKey => current[w] # sending[r] /\ current[w] \notin Range(chan[r])
  /\ \A v, w \in Staff(r) : v # w /\ current[v] # NoKey => current[v] # current[w]

QInv == Types /\ \A r \in Replicas : QueueInv(r)

LEMMA InitQInv == Init => QInv
<1> SUFFICES ASSUME Init PROVE QInv
  OBVIOUS
<1>1. ASSUME NEW r \in Replicas PROVE QueueInv(r)
  <2>1. /\ inFlight[r] = {} /\ sending[r] = NoKey /\ chan[r] = <<>>
        /\ \A w \in Staff(r) : current[w] = NoKey
    BY DEF Init, Staff
  <2>2. Range(<<>>) = {} /\ IsInjective(<<>>)
    BY DEF Range, IsInjective
  <2> QED
    BY <2>1, <2>2, QueueAssumption DEF QueueInv
<1> QED
  BY <1>1, InitTypes DEF QInv

LEMMA QueueSame ==
  ASSUME NEW r \in Replicas, QueueInv(r), home' = home,
         inFlight'[r] = inFlight[r], sending'[r] = sending[r], chan'[r] = chan[r],
         \A w \in Staff(r) : current'[w] = current[w]
  PROVE  QueueInv(r)'
<1>1. Staff(r)' = Staff(r)
  BY DEF Staff
<1> QED
  BY <1>1 DEF QueueInv

LEMMA EnqueueQueue ==
  ASSUME QInv, NEW r \in Replicas, NEW k \in Keys, Enqueue(r, k), home' = home
  PROVE  \A s \in Replicas : QueueInv(s)'
<1> SUFFICES ASSUME NEW s \in Replicas PROVE QueueInv(s)'
  OBVIOUS
<1>0. QueueInv(s) /\ UNCHANGED <<chan, current>>
  BY EnqueueKeepsTypes DEF QInv
<1>1. CASE s # r \/ k \in inFlight[r]
  <2>1. inFlight'[s] = inFlight[s] /\ sending'[s] = sending[s]
    BY <1>1 DEF Enqueue, queue, QInv, Types
  <2> QED
    BY <1>0, <2>1, QueueSame
<1>2. CASE s = r /\ k \notin inFlight[r]
  <2>1. /\ inFlight'[r] = inFlight[r] \union {k} /\ sending'[r] = k /\ sending[r] = NoKey
    BY <1>2 DEF Enqueue, QInv, Types
  <2>2. /\ k \notin Range(chan[r]) /\ \A w \in Staff(r) : current[w] # k
    BY <1>0, <1>2 DEF QueueInv
  <2>3. Staff(r)' = Staff(r)
    BY DEF Staff
  <2> QED
    BY <1>0, <1>2, <2>1, <2>2, <2>3, QueueAssumption DEF QueueInv
<1> QED
  BY <1>1, <1>2

LEMMA SendQueue ==
  ASSUME QInv, NEW r \in Replicas, Send(r)
  PROVE  \A s \in Replicas : QueueInv(s)'
<1> SUFFICES ASSUME NEW s \in Replicas PROVE QueueInv(s)'
  OBVIOUS
<1> DEFINE k == sending[r]
<1>0. QueueInv(s) /\ UNCHANGED <<inFlight, current, home>>
  BY DEF QInv, Send
<1>1. CASE s # r
  <2>1. chan'[s] = chan[s] /\ sending'[s] = sending[s]
    BY <1>1 DEF Send, QInv, Types
  <2> QED
    BY <1>0, <2>1, QueueSame
<1>2. CASE s = r
  <2>1. k \in Keys /\ chan[r] \in Seq(Keys)
    BY DEF Send, QInv, Types
  <2>2. chan'[r] = Append(chan[r], k) /\ sending'[r] = NoKey
    BY DEF Send, QInv, Types
  <2>3. k \notin Range(chan[r]) /\ IsInjective(chan[r])
    BY <1>0, <1>2 DEF QueueInv
  <2>4. Range(chan'[r]) = Range(chan[r]) \union {k} /\ IsInjective(chan'[r])
    BY <2>1, <2>2, <2>3, AppendKey
  <2>5. NoKey \notin Range(chan'[r])
    <3>1. \A i \in DOMAIN chan[r] : chan[r][i] \in Keys
      BY <2>1
    <3> QED
      BY <2>1, <2>4, <3>1, QueueAssumption DEF Range
  <2>6. Staff(r)' = Staff(r)
    BY <1>0 DEF Staff
  <2> HIDE DEF k
  <2>7. \A j \in Keys : k = j <=> sending[r] = j
    BY DEF k
  <2> QED
    BY <1>0, <1>2, <2>1, <2>2, <2>4, <2>5, <2>6, <2>7, QueueAssumption DEF QueueInv, k
<1> QED
  BY <1>1, <1>2

LEMMA RecvQueue ==
  ASSUME QInv, NEW u \in Workers, Recv(u)
  PROVE  \A s \in Replicas : QueueInv(s)'
<1> SUFFICES ASSUME NEW s \in Replicas PROVE QueueInv(s)'
  OBVIOUS
<1> DEFINE r == home[u]
<1> DEFINE k == Head(chan[r])
<1>0. /\ QueueInv(s) /\ UNCHANGED <<inFlight, sending, home>>
      /\ r \in Replicas /\ u \in Staff(r)
      /\ current[u] = NoKey
  BY DEF QInv, Recv, At, Types, Staff
<1>a. chan' = [chan EXCEPT ![r] = Tail(chan[r])] /\ current' = [current EXCEPT ![u] = k]
  BY DEF Recv
<1>b. chan \in [Replicas -> Seq(Keys)] /\ current \in [Workers -> Keys \union {NoKey}]
  BY DEF QInv, Types
<1>c. Staff(s)' = Staff(s) /\ \A w \in Staff(s) : w \in Workers /\ home[w] = s
  BY <1>0 DEF Staff
<1>1. CASE s # r
  <2>1. chan'[s] = chan[s] /\ \A w \in Staff(s) : w # u /\ current'[w] = current[w]
    BY <1>1, <1>a, <1>b, <1>c
  <2> QED
    BY <1>0, <2>1, QueueSame
<1>2. CASE s = r
  <2>1. chan[r] # <<>> /\ chan[r] \in Seq(Keys)
    BY <1>0, <1>b DEF Recv
  <2>2. /\ k \in Keys
        /\ Range(chan[r]) = Range(Tail(chan[r])) \union {k}
        /\ IsInjective(Tail(chan[r])) /\ k \notin Range(Tail(chan[r]))
    BY <1>0, <1>2, <2>1, TakeHead DEF QueueInv
  <2>3. chan'[r] = Tail(chan[r]) /\ current'[u] = k
        /\ \A w \in Workers : w # u => current'[w] = current[w]
    BY <1>0, <1>a, <1>b
  <2>4. /\ \A w \in Staff(r) : current[w] # k
        /\ sending[r] # k
    BY <1>0, <1>2, <2>2, QueueAssumption DEF QueueInv
  <2> HIDE DEF r, k
  <2>5. \A j \in Keys : (\E w \in Staff(r) : current'[w] = j)
                          <=> (j = k \/ \E w \in Staff(r) : current[w] = j)
    BY <1>0, <1>2, <1>c, <2>3, QueueAssumption
  <2>6. \A j \in Keys :
          j \in inFlight'[r] <=> \/ sending'[r] = j
                                 \/ j \in Range(chan'[r])
                                 \/ \E w \in Staff(r) : current'[w] = j
    BY <1>0, <1>2, <2>2, <2>3, <2>5 DEF QueueInv
  <2>7. \A w \in Staff(r) :
          current'[w] # NoKey => current'[w] # sending'[r] /\ current'[w] \notin Range(chan'[r])
    BY <1>0, <1>2, <1>c, <2>2, <2>3, <2>4 DEF QueueInv
  <2>8. \A v, w \in Staff(r) : v # w /\ current'[v] # NoKey => current'[v] # current'[w]
    BY <1>0, <1>2, <1>c, <2>2, <2>3, <2>4, QueueAssumption DEF QueueInv
  <2>9. IsInjective(chan'[r]) /\ sending'[r] \notin Range(chan'[r])
    BY <1>0, <1>2, <2>2, <2>3 DEF QueueInv
  <2> QED
    BY <1>2, <1>c, <2>6, <2>7, <2>8, <2>9 DEF QueueInv
<1> QED
  BY <1>1, <1>2

LEMMA FinishQueue ==
  ASSUME QInv, NEW u \in Workers, Finish(u)
  PROVE  \A s \in Replicas : QueueInv(s)'
<1> SUFFICES ASSUME NEW s \in Replicas PROVE QueueInv(s)'
  OBVIOUS
<1> DEFINE r == home[u]
<1> DEFINE k == current[u]
<1>0. /\ QueueInv(s) /\ UNCHANGED <<sending, chan, home>>
      /\ r \in Replicas /\ u \in Staff(r)
      /\ k \in Keys
  BY DEF QInv, Finish, At, Types, Staff
<1>a. /\ inFlight' = [inFlight EXCEPT ![r] = inFlight[r] \ {k}]
      /\ current' = [current EXCEPT ![u] = NoKey]
  BY DEF Finish
<1>b. inFlight \in [Replicas -> SUBSET Keys] /\ current \in [Workers -> Keys \union {NoKey}]
  BY DEF QInv, Types
<1>c. Staff(s)' = Staff(s) /\ \A w \in Staff(s) : w \in Workers /\ home[w] = s
  BY <1>0 DEF Staff
<1>1. CASE s # r
  <2>1. inFlight'[s] = inFlight[s] /\ \A w \in Staff(s) : w # u /\ current'[w] = current[w]
    BY <1>1, <1>a, <1>b, <1>c
  <2> QED
    BY <1>0, <2>1, QueueSame
<1>2. CASE s = r
  <2>1. /\ inFlight'[r] = inFlight[r] \ {k} /\ current'[u] = NoKey
        /\ \A w \in Workers : w # u => current'[w] = current[w]
    BY <1>0, <1>a, <1>b
  <2>2. /\ sending[r] # k /\ k \notin Range(chan[r])
        /\ \A w \in Staff(r) : w # u => current[w] # k
    BY <1>0, <1>2, QueueAssumption DEF QueueInv
  <2>3. current[u] = k
    OBVIOUS
  <2> HIDE DEF r, k
  <2>4. \A j \in Keys : (\E w \in Staff(r) : current'[w] = j)
                          <=> (j # k /\ \E w \in Staff(r) : current[w] = j)
    BY <1>0, <1>2, <1>c, <2>1, <2>2, <2>3, QueueAssumption
  <2>5. \A j \in Keys :
          j \in inFlight'[r] <=> \/ sending'[r] = j
                                 \/ j \in Range(chan'[r])
                                 \/ \E w \in Staff(r) : current'[w] = j
    BY <1>0, <1>2, <2>1, <2>2, <2>4 DEF QueueInv
  <2>6. \A w \in Staff(r) : current'[w] = NoKey \/ (w # u /\ current'[w] = current[w])
    BY <1>2, <1>c, <2>1
  <2>7. /\ \A w \in Staff(r) :
             current'[w] # NoKey => current'[w] # sending'[r] /\ current'[w] \notin Range(chan'[r])
        /\ \A v, w \in Staff(r) : v # w /\ current'[v] # NoKey => current'[v] # current'[w]
    BY <1>0, <1>2, <2>6 DEF QueueInv
  <2> QED
    BY <1>0, <1>2, <1>c, <2>5, <2>7 DEF QueueInv
<1> QED
  BY <1>1, <1>2

LEMMA RestartQueue ==
  ASSUME QInv, NEW r \in Replicas, Restart(r)
  PROVE  \A s \in Replicas : QueueInv(s)'
<1> SUFFICES ASSUME NEW s \in Replicas PROVE QueueInv(s)'
  OBVIOUS
<1>0. QueueInv(s) /\ home' = home /\ Reset(r)
  BY DEF QInv, Restart
<1>c. Staff(s)' = Staff(s) /\ \A w \in Staff(s) : w \in Workers /\ home[w] = s
  BY <1>0 DEF Staff
<1>1. CASE s # r
  <2>1. /\ inFlight'[s] = inFlight[s] /\ sending'[s] = sending[s] /\ chan'[s] = chan[s]
        /\ \A w \in Staff(s) : current'[w] = current[w]
    BY <1>0, <1>1, <1>c DEF Reset, QInv, Types
  <2> QED
    BY <1>0, <2>1, QueueSame
<1>2. CASE s = r
  <2>1. /\ inFlight'[r] = {} /\ sending'[r] = NoKey /\ chan'[r] = <<>>
        /\ \A w \in Staff(r) : current'[w] = NoKey
    BY <1>0, <1>2, <1>c DEF Reset, QInv, Types
  <2>2. Range(<<>>) = {} /\ IsInjective(<<>>)
    BY DEF Range, IsInjective
  <2> QED
    BY <1>2, <1>c, <2>1, <2>2, QueueAssumption DEF QueueInv
<1> QED
  BY <1>1, <1>2

LEMMA QInvStep == QInv /\ [Next]_vars => QInv'
<1> SUFFICES ASSUME QInv, [Next]_vars PROVE QInv'
  OBVIOUS
<1>0. Types'
  BY TypesStep DEF QInv
<1>1. ASSUME inFlight' = inFlight, sending' = sending, chan' = chan, current' = current, home' = home
      PROVE  \A r \in Replicas : QueueInv(r)'
  <2> SUFFICES ASSUME NEW r \in Replicas PROVE QueueInv(r)'
    OBVIOUS
  <2>1. QueueInv(r)
    BY DEF QInv
  <2> QED
    BY <1>1, <2>1, QueueSame
<1>2. CASE UNCHANGED vars
  <2>1. inFlight' = inFlight /\ sending' = sending /\ chan' = chan /\ current' = current /\ home' = home
    BY <1>2 DEF vars, server, queue, worker
  <2> QED
    BY <1>0, <1>1, <2>1 DEF QInv
<1>3. ASSUME NEW n \in Names, Change(n) PROVE \A r \in Replicas : QueueInv(r)'
  BY <1>1, <1>3 DEF Change, Create, Update, Delete, queue
<1>4. ASSUME NEW r \in Replicas, Watch(r) PROVE \A s \in Replicas : QueueInv(s)'
  <2>1. ASSUME NEW n \in Names, InitApply(r, n) PROVE \A s \in Replicas : QueueInv(s)'
    <3>1. replay[r][n] \in Keys /\ Enqueue(r, replay[r][n]) /\ home' = home
      BY <2>1 DEF InitApply, IsFirst, QInv, Types
    <3> QED
      BY <3>1, EnqueueQueue
  <2>2. CASE Deliver(r)
    <3>1. events[r] \in Seq(Keys) /\ events[r] # <<>>
      BY <2>2 DEF Deliver, QInv, Types
    <3>2. Head(events[r]) \in Keys /\ Enqueue(r, Head(events[r])) /\ home' = home
      BY <2>2, <3>1, TakeHead DEF Deliver
    <3> QED
      BY <3>2, EnqueueQueue
  <2>3. CASE InitDone(r)
    BY <1>1, <2>3 DEF InitDone, queue
  <2> QED
    BY <1>4, <2>1, <2>2, <2>3, SendQueue DEF Watch
<1>5. ASSUME NEW w \in Workers, Worker(w) PROVE \A s \in Replicas : QueueInv(s)'
  <2>1. Recv(w) \/ Finish(w) \/ UNCHANGED <<inFlight, sending, chan, current, home>>
    BY <1>5 DEF Worker, List, PatchSpec, PatchStatus, Fail, MarkStatus, MarkRefused, queue
  <2> QED
    BY <1>1, <2>1, RecvQueue, FinishQueue
<1>6. ASSUME NEW r \in Replicas, Restart(r) PROVE \A s \in Replicas : QueueInv(s)'
  BY <1>6, RestartQueue
<1> QED
  BY <1>0, <1>2, <1>3, <1>4, <1>5, <1>6, Steps DEF QInv

LEMMA QueueInvariant == Spec => []QInv
BY InitQInv, QInvStep, PTL DEF Spec

(***************************************************************************)
(* The queue of each replica is a WorkQueue.                               *)
(***************************************************************************)
QueueStep(r) == WQ(r)!Next \/ UNCHANGED WQ(r)!vars

\* The workers as r's queue sees them.
HeldIn(r) == [w \in Workers |-> IF home[w] = r THEN current[w] ELSE NoKey]

LEMMA QueueStays ==
  ASSUME NEW r \in Replicas, home' = home,
         inFlight'[r] = inFlight[r], sending'[r] = sending[r], chan'[r] = chan[r],
         \A w \in Workers : home[w] = r => current'[w] = current[w]
  PROVE  QueueStep(r)
BY DEF QueueStep, WQ!vars

LEMMA EnqueueIsQueueStep ==
  ASSUME Types, NEW r \in Replicas, NEW k \in Keys, Enqueue(r, k), home' = home
  PROVE  \A s \in Replicas : QueueStep(s)
<1> SUFFICES ASSUME NEW s \in Replicas PROVE QueueStep(s)
  OBVIOUS
<1>0. chan' = chan /\ current' = current
  BY EnqueueKeepsTypes
<1>1. CASE s # r \/ k \in inFlight[r]
  <2>1. inFlight'[s] = inFlight[s] /\ sending'[s] = sending[s]
    BY <1>1 DEF Enqueue, queue, Types
  <2> QED
    BY <1>0, <2>1, QueueStays
<1>2. CASE s = r /\ k \notin inFlight[r]
  <2>1. /\ inFlight'[r] = inFlight[r] \union {k} /\ sending'[r] = k /\ sending[r] = NoKey
    BY <1>2 DEF Enqueue, Types
  <2>2. WQ(r)!Accept(k)
    BY <1>0, <1>2, <2>1 DEF WQ!Accept
  <2> QED
    BY <1>2, <2>2 DEF QueueStep, WQ!Next
<1> QED
  BY <1>1, <1>2

LEMMA WatchIsQueueStep ==
  ASSUME Types, NEW r \in Replicas, Watch(r)
  PROVE  \A s \in Replicas : QueueStep(s)
<1>1. ASSUME NEW n \in Names, InitApply(r, n) PROVE \A s \in Replicas : QueueStep(s)
  <2>1. replay[r][n] \in Keys /\ Enqueue(r, replay[r][n]) /\ home' = home
    BY <1>1 DEF InitApply, IsFirst, Types
  <2> QED
    BY <2>1, EnqueueIsQueueStep
<1>2. CASE Deliver(r)
  <2>1. events[r] \in Seq(Keys) /\ events[r] # <<>>
    BY <1>2 DEF Deliver, Types
  <2>2. Head(events[r]) \in Keys /\ Enqueue(r, Head(events[r])) /\ home' = home
    BY <1>2, <2>1, TakeHead DEF Deliver
  <2> QED
    BY <2>2, EnqueueIsQueueStep
<1>3. CASE InitDone(r)
  BY <1>3, QueueStays DEF InitDone, queue
<1>4. ASSUME Send(r), NEW s \in Replicas PROVE QueueStep(s)
  <2>1. /\ inFlight' = inFlight /\ current' = current /\ home' = home
        /\ sending[r] # NoKey /\ Len(chan[r]) < Capacity
        /\ chan'[r] = Append(chan[r], sending[r]) /\ sending'[r] = NoKey
        /\ s # r => chan'[s] = chan[s] /\ sending'[s] = sending[s]
    BY <1>4 DEF Send, Types
  <2>2. WQ(r)!Send
    BY <2>1 DEF WQ!Send
  <2>3. CASE s = r
    BY <2>2, <2>3 DEF QueueStep, WQ!Next
  <2>4. CASE s # r
    BY <2>1, <2>4, QueueStays
  <2> QED
    BY <2>3, <2>4
<1> QED
  BY <1>1, <1>2, <1>3, <1>4 DEF Watch

LEMMA WorkerIsQueueStep ==
  ASSUME Types, NEW w \in Workers, Recv(w) \/ Finish(w)
  PROVE  \A s \in Replicas : QueueStep(s)
<1> SUFFICES ASSUME NEW s \in Replicas PROVE QueueStep(s)
  OBVIOUS
<1>1. PICK r \in Replicas : r = home[w]
  BY DEF Types
<1>2. /\ home' = home /\ sending' = sending
      /\ \A q \in Replicas : q # r => inFlight'[q] = inFlight[q] /\ chan'[q] = chan[q]
      /\ \A v \in Workers : v # w => current'[v] = current[v]
  BY <1>1 DEF Recv, Finish, server, Types
<1>3. CASE s # r
  BY <1>1, <1>2, <1>3, QueueStays
<1>4. HeldIn(r)[w] = current[w] /\ HeldIn(r)' = [HeldIn(r) EXCEPT ![w] = current'[w]]
  BY <1>1, <1>2 DEF HeldIn
<1>5. ASSUME Recv(w) PROVE WQ(r)!Recv(w)
  <2>1. /\ current[w] = NoKey /\ chan[r] # <<>> /\ current'[w] = Head(chan[r])
        /\ chan'[r] = Tail(chan[r]) /\ inFlight' = inFlight
    BY <1>1, <1>5 DEF Recv, At, Types
  <2> QED
    BY <1>2, <1>4, <2>1 DEF WQ!Recv, HeldIn
<1>6. ASSUME Finish(w) PROVE WQ(r)!Done(w)
  <2>1. /\ current[w] # NoKey /\ current'[w] = NoKey
        /\ inFlight'[r] = inFlight[r] \ {current[w]} /\ chan' = chan
    BY <1>1, <1>6 DEF Finish, At, Types
  <2> QED
    BY <1>2, <1>4, <2>1 DEF WQ!Done, HeldIn
<1>7. CASE s = r
  BY <1>5, <1>6, <1>7 DEF QueueStep, WQ!Next
<1> QED
  BY <1>3, <1>7

LEMMA RestartIsQueueStep ==
  ASSUME Types, NEW r \in Replicas, Restart(r), NEW s \in Replicas
  PROVE  QueueStep(s)
<1>1. Reset(r) /\ home' = home
  BY DEF Restart
<1>2. CASE s # r
  <2>1. /\ inFlight'[s] = inFlight[s] /\ sending'[s] = sending[s] /\ chan'[s] = chan[s]
        /\ \A w \in Workers : home[w] = s => current'[w] = current[w]
    BY <1>1, <1>2 DEF Reset, Types
  <2> QED
    BY <1>1, <2>1, QueueStays
<1>3. CASE s = r
  <2>1. /\ inFlight'[r] = {} /\ sending'[r] = NoKey /\ chan'[r] = <<>>
        /\ HeldIn(r)' = [w \in Workers |-> NoKey]
    BY <1>1 DEF Reset, Types, HeldIn
  <2>2. WQ(r)!Restart
    BY <2>1 DEF WQ!Restart, HeldIn
  <2> QED
    BY <1>3, <2>2 DEF QueueStep, WQ!Next
<1> QED
  BY <1>2, <1>3

LEMMA EveryStepIsQueueStep ==
  ASSUME Types, [Next]_vars, NEW s \in Replicas
  PROVE  QueueStep(s)
<1>0. ASSUME inFlight' = inFlight, sending' = sending, chan' = chan, current' = current, home' = home
      PROVE  QueueStep(s)
  BY <1>0, QueueStays
<1>1. CASE UNCHANGED vars
  <2>1. inFlight' = inFlight /\ sending' = sending /\ chan' = chan /\ current' = current /\ home' = home
    BY <1>1 DEF vars, server, queue, worker
  <2> QED
    BY <1>0, <2>1
<1>2. ASSUME NEW n \in Names, Change(n) PROVE QueueStep(s)
  BY <1>0, <1>2 DEF Change, Create, Update, Delete, queue
<1>3. ASSUME NEW r \in Replicas, Watch(r) \/ Restart(r) PROVE QueueStep(s)
  BY <1>3, WatchIsQueueStep, RestartIsQueueStep
<1>4. ASSUME NEW w \in Workers, Worker(w) PROVE QueueStep(s)
  <2>1. \/ Recv(w) \/ Finish(w)
        \/ UNCHANGED <<inFlight, sending, chan, current, home>>
    BY <1>4 DEF Worker, List, PatchSpec, PatchStatus, Fail, MarkStatus, MarkRefused, queue
  <2> QED
    BY <1>0, <2>1, WorkerIsQueueStep
<1> QED
  BY <1>1, <1>2, <1>3, <1>4, Steps

\* Whatever the others do, each replica's queue only does what WorkQueue says
\* (queue.rs, run_workers): the safety half of ImplementsWorkQueue.
THEOREM QueuesAreWorkQueues == Spec => QueuesKeepToWorkQueue
<1>1. Init => \A r \in Replicas : WQ(r)!Init
  BY DEF Init, WQ!Init
<1>2. Types /\ [Next]_vars => [\A r \in Replicas : WQ(r)!Next \/ UNCHANGED WQ(r)!vars]_vars
  BY EveryStepIsQueueStep DEF QueueStep
<1> QED
  BY <1>1, <1>2, TypesInvariant, PTL DEF Spec, QueuesKeepToWorkQueue

(***************************************************************************)
(* The writes of a ResolvedCloudRoleBinding: what a replica has still to   *)
(* write is what its one worker on the service account listed.             *)
(***************************************************************************)
Patching(k, w) == current[w] = k /\ pc[w] = "patch"

WritesOne ==
  \A k \in Keys, r \in Replicas :
    /\ (\A w \in Staff(r) : ~Patching(k, w)) => Writing(k)[r] = Absent
    /\ \A w \in Staff(r) : Patching(k, w) => Writing(k)[r] = Outcome(listed[w])

LEMMA WritingIs == QInv => WritesOne
<1> SUFFICES ASSUME QInv, NEW k \in Keys, NEW r \in Replicas
             PROVE  /\ (\A w \in Staff(r) : ~Patching(k, w)) => Writing(k)[r] = Absent
                    /\ \A w \in Staff(r) : Patching(k, w) => Writing(k)[r] = Outcome(listed[w])
  BY DEF WritesOne
<1> DEFINE S == {w \in Staff(r) : current[w] = k /\ At(w, "patch")}
<1>1. Writing(k)[r] = (IF S = {} THEN Absent ELSE Outcome(listed[CHOOSE w \in S : TRUE]))
  BY DEF Writing
<1>2. \A w \in Staff(r) : w \in S <=> Patching(k, w)
  BY DEF Patching, At
<1>3. \A v, w \in S : v = w
  BY QueueAssumption DEF QInv, QueueInv
<1>4. S \subseteq Staff(r)
  OBVIOUS
<1> HIDE DEF S
<1>5. ASSUME NEW w \in S PROVE (CHOOSE v \in S : TRUE) = w
  BY <1>3
<1> QED
  BY <1>1, <1>2, <1>4, <1>5

LEMMA WritingIsNext == QInv' => WritesOne'
BY WritingIs, PTL

\* A step that leaves the workers of r on k alone leaves what r has to write.
LEMMA WritingSame ==
  ASSUME QInv, QInv', home' = home, NEW k \in Keys, NEW r \in Replicas,
         \A w \in Staff(r) : Patching(k, w)' <=> Patching(k, w),
         \A w \in Staff(r) : Patching(k, w) => listed'[w] = listed[w]
  PROVE  Writing(k)'[r] = Writing(k)[r]
<1>1. WritesOne /\ WritesOne' /\ Staff(r)' = Staff(r)
  BY WritingIs, WritingIsNext DEF Staff
<1>2. CASE \A w \in Staff(r) : ~Patching(k, w)
  BY <1>1, <1>2 DEF WritesOne
<1>3. CASE \E w \in Staff(r) : Patching(k, w)
  <2>1. PICK w \in Staff(r) : Patching(k, w)
    BY <1>3
  <2>2. Writing(k)[r] = Outcome(listed[w])
    BY <1>1, <2>1 DEF WritesOne
  <2>3. Writing(k)'[r] = Outcome(listed'[w])
    BY <1>1, <2>1 DEF WritesOne
  <2> QED
    BY <2>1, <2>2, <2>3
<1> QED
  BY <1>2, <1>3

LEMMA WritingDomain ==
  ASSUME NEW k \in Keys
  PROVE  /\ Writing(k) = [r \in Replicas |-> Writing(k)[r]]
         /\ Writing(k)' = [r \in Replicas |-> Writing(k)'[r]]
BY DEF Writing

\* A step that leaves k's object and the workers on it alone.
LEMMA UpsertStays ==
  ASSUME QInv, QInv', home' = home, NEW k \in Keys, resolved'[k] = resolved[k],
         \A w \in Workers : Patching(k, w)' <=> Patching(k, w),
         \A w \in Workers : Patching(k, w) => listed'[w] = listed[w]
  PROVE  Up(k)!Step
<1>1. \A r \in Replicas : Writing(k)'[r] = Writing(k)[r]
  BY WritingSame DEF Staff
<1>2. Writing(k)' = Writing(k)
  BY <1>1, WritingDomain
<1> QED
  BY <1>2 DEF Up!Step, Up!upsertVars

\* A step of one worker: the other replicas' writes stay.
LEMMA UpsertOthers ==
  ASSUME QInv, QInv', home' = home, NEW k \in Keys, NEW w \in Workers,
         pc' = [pc EXCEPT ![w] = pc'[w]], UNCHANGED <<current, listed>>
  PROVE  Writing(k)' = [Writing(k) EXCEPT ![home[w]] = Writing(k)'[home[w]]]
<1>1. ASSUME NEW r \in Replicas, r # home[w] PROVE Writing(k)'[r] = Writing(k)[r]
  <2>1. \A v \in Staff(r) : v \in Workers /\ v # w /\ pc'[v] = pc[v]
    BY <1>1 DEF Staff, QInv, Types
  <2> QED
    BY <2>1, WritingSame DEF Patching
<1>2. home[w] \in Replicas
  BY DEF QInv, Types
<1> HIDE DEF Writing
<1> QED
  BY <1>1, <1>2, WritingDomain

LEMMA PatchSpecImplements ==
  ASSUME QInv, QInv', NEW w \in Workers, PatchSpec(w), NEW k \in Keys
  PROVE  Up(k)!Step
<1>0. /\ home' = home /\ UNCHANGED <<current, listed>>
      /\ pc[w] = "mark" /\ pc' = [pc EXCEPT ![w] = "patch"] /\ pc'[w] = "patch"
      /\ resolved' = [resolved EXCEPT ![current[w]].spec = Outcome(listed[w]).spec]
  BY DEF PatchSpec, At, Goto, queue, QInv, Types
<1>1. CASE k # current[w]
  <2>1. resolved'[k] = resolved[k]
    BY <1>0, <1>1 DEF QInv, Types
  <2>2. \A v \in Workers : (Patching(k, v)' <=> Patching(k, v)) /\ listed'[v] = listed[v]
    BY <1>0, <1>1 DEF Patching, QInv, Types
  <2> QED
    BY <1>0, <2>1, <2>2, UpsertStays
<1>2. CASE k = current[w]
  <2> DEFINE r == home[w]
  <2>1. r \in Replicas /\ w \in Staff(r) /\ w \in Staff(r)'
    BY <1>0 DEF Staff, QInv, Types
  <2>2. \A v \in Staff(r) : ~Patching(k, v)
    BY <1>0, <1>2, <2>1, QueueAssumption DEF QInv, QueueInv, Patching
  <2>3. Writing(k)[r] = Absent
    BY <2>1, <2>2, WritingIs DEF WritesOne
  <2>4. Patching(k, w)'
    BY <1>0, <1>2 DEF Patching
  <2>5. Writing(k)'[r] = Outcome(listed[w])
    BY <1>0, <2>1, <2>4, WritingIsNext DEF WritesOne
  <2>6. Writing(k)' = [Writing(k) EXCEPT ![r] = Outcome(listed[w])]
    BY <1>0, <2>5, UpsertOthers
  <2>7. resolved'[k] = [resolved[k] EXCEPT !.spec = Outcome(listed[w]).spec]
    BY <1>0, <1>2 DEF QInv, Types
  <2>8. Outcome(listed[w]) \in Outcomes
    BY DEF Outcomes, QInv, Types
  <2>9. Up(k)!PatchSpec(r, Outcome(listed[w]))
    BY <2>3, <2>6, <2>7 DEF Up!PatchSpec
  <2> QED
    BY <2>1, <2>8, <2>9 DEF Up!Step, Up!Next
<1> QED
  BY <1>1, <1>2

\* The second request, or none: it fails.
LEMMA PatchStatusImplements ==
  ASSUME QInv, QInv', NEW w \in Workers, NEW k \in Keys,
         PatchStatus(w) \/ Fail(w) \/ \E n \in Names : MarkRefused(w, n)
  PROVE  Up(k)!Step
<1>0. /\ home' = home /\ UNCHANGED <<current, listed>>
      /\ pc' = [pc EXCEPT ![w] = "done"] /\ pc'[w] = "done"
      /\ \/ resolved' = resolved
         \/ pc[w] = "patch"
            /\ resolved' = [resolved EXCEPT ![current[w]].status = Outcome(listed[w]).status]
  BY DEF PatchStatus, Fail, MarkRefused, At, Goto, queue, server, QInv, Types
<1>1. CASE ~Patching(k, w)
  <2>1. resolved'[k] = resolved[k]
    BY <1>0, <1>1 DEF QInv, Types, Patching
  <2>2. \A v \in Workers : (Patching(k, v)' <=> Patching(k, v)) /\ listed'[v] = listed[v]
    BY <1>0, <1>1 DEF Patching, QInv, Types
  <2> QED
    BY <1>0, <2>1, <2>2, UpsertStays
<1>2. CASE Patching(k, w)
  <2>0. PICK r \in Replicas : r = home[w]
    BY DEF QInv, Types
  <2>1. w \in Staff(r) /\ Staff(r)' = Staff(r) /\ k = current[w] /\ current[w] # NoKey
    BY <1>0, <1>2, <2>0, QueueAssumption DEF Staff, QInv, Types, Patching
  <2>2. Writing(k)[r] = Outcome(listed[w]) /\ Writing(k)[r] # Absent
    <3>1. listed[w] \in Inputs
      BY DEF QInv, Types
    <3>2. Outcome(listed[w]) # Absent
      BY <3>1, AbsentAssumption
    <3>3. Writing(k)[r] = Outcome(listed[w])
      BY <1>2, <2>1, WritingIs DEF WritesOne
    <3> QED
      BY <3>2, <3>3
  <2>3. \A v \in Staff(r)' : ~Patching(k, v)'
    BY <1>0, <2>1 DEF QInv, QueueInv, Patching
  <2>4. Writing(k)'[r] = Absent
    BY <2>1, <2>3, WritingIsNext DEF WritesOne
  <2>5. Writing(k)' = [Writing(k) EXCEPT ![r] = Absent]
    BY <1>0, <2>0, <2>4, UpsertOthers
  <2>6. \/ resolved'[k] = resolved[k]
        \/ resolved'[k] = [resolved[k] EXCEPT !.status = Outcome(listed[w]).status]
    BY <1>0, <2>1 DEF QInv, Types
  <2>7. Up(k)!PatchStatus(r) \/ Up(k)!Abandon(r)
    BY <2>2, <2>5, <2>6 DEF Up!PatchStatus, Up!Abandon
  <2> QED
    BY <2>1, <2>7 DEF Up!Step, Up!Next
<1> QED
  BY <1>1, <1>2

LEMMA RestartImplements ==
  ASSUME QInv, QInv', NEW r \in Replicas, Restart(r), NEW k \in Keys
  PROVE  Up(k)!Step
<1>0. /\ home' = home /\ resolved' = resolved
      /\ \A w \in Workers : IF home[w] = r THEN pc'[w] = "idle"
           ELSE pc'[w] = pc[w] /\ current'[w] = current[w] /\ listed'[w] = listed[w]
  BY DEF Restart, Reset
<1>1. \A s \in Replicas : s # r => Writing(k)'[s] = Writing(k)[s]
  BY <1>0, WritingSame DEF Staff, Patching
<1>2. Writing(k)'[r] = Absent
  <2>1. \A w \in Staff(r)' : ~Patching(k, w)'
    BY <1>0 DEF Staff, Patching
  <2> QED
    BY <2>1, WritingIsNext DEF WritesOne
<1>3. Writing(k)' = [Writing(k) EXCEPT ![r] = Absent]
  BY <1>1, <1>2, WritingDomain
<1>4. CASE Writing(k)[r] = Absent
  <2>1. Writing(k)' = Writing(k)
    BY <1>3, <1>4, WritingDomain
  <2> QED
    BY <1>0, <2>1 DEF Up!Step, Up!upsertVars
<1>5. CASE Writing(k)[r] # Absent
  BY <1>0, <1>3, <1>5 DEF Up!Step, Up!Next, Up!Abandon
<1> QED
  BY <1>4, <1>5

\* Every step that does not write k's object.
LEMMA OthersImplement ==
  ASSUME QInv, QInv', home' = home, resolved' = resolved, NEW k \in Keys,
         NEW w \in Workers, pc[w] # "patch", pc'[w] # "patch",
         \A v \in Workers : v # w =>
            current'[v] = current[v] /\ pc'[v] = pc[v] /\ listed'[v] = listed[v]
  PROVE  Up(k)!Step
<1>1. ~Patching(k, w) /\ ~Patching(k, w)'
  BY DEF Patching
<1>2. \A v \in Workers : /\ Patching(k, v)' <=> Patching(k, v)
                         /\ Patching(k, v) => listed'[v] = listed[v]
  BY <1>1 DEF Patching
<1> QED
  BY <1>2, UpsertStays

LEMMA UpsertStep ==
  ASSUME QInv, QInv', [Next]_vars, NEW k \in Keys
  PROVE  Up(k)!Step
<1>1. ASSUME home' = home, resolved' = resolved, current' = current, pc' = pc, listed' = listed
      PROVE  Up(k)!Step
  BY <1>1, UpsertStays DEF Patching
<1>2. CASE UNCHANGED vars
  <2>1. home' = home /\ resolved' = resolved /\ current' = current /\ pc' = pc /\ listed' = listed
    BY <1>2 DEF vars, server, queue, worker
  <2> QED
    BY <1>1, <2>1
<1>3. ASSUME NEW n \in Names, Change(n) PROVE Up(k)!Step
  <2>1. home' = home /\ resolved' = resolved /\ current' = current /\ pc' = pc /\ listed' = listed
    BY <1>3 DEF Change, Create, Update, Delete, queue
  <2> QED
    BY <1>1, <2>1
<1>4. ASSUME NEW r \in Replicas, Watch(r) PROVE Up(k)!Step
  <2>1. home' = home /\ resolved' = resolved /\ current' = current /\ pc' = pc /\ listed' = listed
    BY <1>4 DEF Watch, InitApply, InitDone, Deliver, Send, Enqueue, server, queue, worker
  <2> QED
    BY <1>1, <2>1
<1>5. ASSUME NEW w \in Workers, Worker(w) PROVE Up(k)!Step
  <2>1. CASE Recv(w) \/ List(w) \/ Finish(w)
    <3>1. /\ home' = home /\ resolved' = resolved
          /\ pc[w] # "patch" /\ pc'[w] # "patch"
          /\ \A v \in Workers : v # w =>
               current'[v] = current[v] /\ pc'[v] = pc[v] /\ listed'[v] = listed[v]
      BY <2>1 DEF Recv, List, Finish, At, Goto, server, queue, QInv, Types
    <3> QED
      BY <3>1, OthersImplement
  <2>2. ASSUME NEW n \in Names, MarkStatus(w, n) PROVE Up(k)!Step
    <3>1. home' = home /\ resolved' = resolved /\ current' = current /\ pc' = pc /\ listed' = listed
      BY <2>2 DEF MarkStatus, queue
    <3> QED
      BY <1>1, <3>1
  <2> QED
    BY <1>5, <2>1, <2>2, PatchSpecImplements, PatchStatusImplements DEF Worker
<1>6. ASSUME NEW r \in Replicas, Restart(r) PROVE Up(k)!Step
  BY <1>6, RestartImplements
<1> QED
  BY <1>2, <1>3, <1>4, <1>5, <1>6, Steps

LEMMA UpsertInit == ASSUME Init, NEW k \in Keys PROVE Up(k)!Init
<1>1. QInv /\ \A w \in Workers : pc[w] = "idle"
  BY InitQInv DEF Init
<1>2. \A r \in Replicas : Writing(k)[r] = Absent
  BY <1>1, WritingIs DEF WritesOne, Staff, Patching
<1>3. Writing(k) = [r \in Replicas |-> Absent]
  BY <1>2, WritingDomain
<1>4. resolved[k] = [spec |-> Absent, status |-> Absent]
  BY DEF Init, Never
<1> QED
  BY <1>3, <1>4 DEF Up!Init

\* The object of a service account is written as Upsert says, by any number of
\* replicas that do not wait for one another: the spec and then the status of one
\* outcome (upsert_resolved), by one worker of each replica at a time.
THEOREM WritesImplementUpsert == Spec => ImplementsUpsert
<1>1. Init => \A k \in Keys : Up(k)!Init
  BY UpsertInit
<1>2. QInv /\ QInv' /\ [Next]_vars => [\A k \in Keys : Up(k)!Step]_vars
  BY UpsertStep
<1> QED
  BY <1>1, <1>2, QueueInvariant, PTL DEF Spec, ImplementsUpsert

(***************************************************************************)
(* Why a stale object is always explained: for each part of it some        *)
(* replica r answers.  Every worker of r that wrote the part wrote what it *)
(* listed; and r is at k, or will be, or the part is what the bindings     *)
(* there are come to -- unless r missed a change.                          *)
(***************************************************************************)
Part(o, part) == IF part = "spec" THEN o.spec ELSE o.status

Parts == {"spec", "status"}

\* Worker w listed the bindings of k and has not called done() yet.
Holds(w, k) == current[w] = k /\ pc[w] \in {"mark", "patch", "done"}

\* It wrote the part, unless a request failed.
Wrote(w, k, part) ==
  current[w] = k /\ (pc[w] = "done" \/ (part = "spec" /\ pc[w] = "patch"))

\* What worker w listed is what there is, or its replica hears of the change.
Heard(w, k) ==
  \/ listed[w] = View(k)
  \/ k \in Range(events[home[w]])
  \/ lost[home[w]][k] # {}

\* The part says what the bindings there are come to.
Fresh(k, part) ==
  \/ Part(resolved[k], part) = Part(Outcome(View(k)), part)
  \/ View(k) = NoBindings /\ resolved[k] = Never

Cares(r, k, part) ==
  (\E w \in Staff(r) : Holds(w, k)) \/ Fresh(k, part) \/ Announced(r, k)

Answers(r, k, part) ==
  \/ lost[r][k] # {}
  \/ /\ Cares(r, k, part)
     /\ \A w \in Staff(r) :
          Wrote(w, k, part) => Part(resolved[k], part) = Part(Outcome(listed[w]), part)

Answered ==
  /\ QInv
  /\ \A w \in Workers, k \in Keys :
       /\ Holds(w, k) => Heard(w, k)
       /\ current[w] = k /\ pc[w] = "patch" => resolved[k].spec # Absent
  /\ \A k \in Keys, part \in Parts : \E r \in Running : Answers(r, k, part)

LEMMA OutcomeParts ==
  ASSUME NEW i
  PROVE  Outcome(i) = [spec |-> Outcome(i).spec, status |-> Outcome(i).status]
BY DEF Outcome, Resolved, FailedResolved

LEMMA RunningReplicas == Types => Running \subseteq Replicas /\ Running # {}
                                  /\ \A w \in Workers : home[w] \in Running
BY QueueAssumption DEF Types, Running, Range

LEMMA AnsweredSuffices == Answered => StaleIsExplained
<1> SUFFICES ASSUME Answered, NEW k \in Keys, \A r \in Replicas : ~Explained(r, k)
             PROVE  Reflects(k)
  BY DEF StaleIsExplained
<1>1. Types /\ Running \subseteq Replicas
  BY RunningReplicas DEF Answered, QInv
<1>2. ASSUME NEW part \in Parts PROVE Fresh(k, part)
  <2>1. PICK r \in Running : Answers(r, k, part)
    BY DEF Answered
  <2>2. lost[r][k] = {} /\ ~Announced(r, k) /\ ~BeingServed(r, k)
    BY <1>1 DEF Explained
  <2>3. CASE \E w \in Staff(r) : Holds(w, k)
    <3>1. PICK w \in Staff(r) : Holds(w, k)
      BY <2>3
    <3>2. w \in Workers /\ home[w] = r /\ pc[w] = "done" /\ current[w] = k
      BY <2>2, <3>1 DEF Staff, Holds, BeingServed
    <3>3. Heard(w, k)
      BY <3>1, <3>2 DEF Answered
    <3>4. listed[w] = View(k)
      BY <2>2, <3>2, <3>3 DEF Heard, Announced
    <3>5. Wrote(w, k, part)
      BY <3>2 DEF Wrote
    <3> QED
      BY <2>1, <2>2, <3>4, <3>5 DEF Answers, Fresh
  <2> QED
    BY <2>1, <2>2, <2>3 DEF Answers, Cares
<1>3. /\ \/ resolved[k].spec = Outcome(View(k)).spec
         \/ (View(k) = NoBindings /\ resolved[k] = Never)
      /\ \/ resolved[k].status = Outcome(View(k)).status
         \/ (View(k) = NoBindings /\ resolved[k] = Never)
  <2>1. Fresh(k, "spec") /\ Fresh(k, "status")
    BY <1>2 DEF Parts
  <2> QED
    BY <2>1 DEF Fresh, Part
<1>4. resolved[k] = [spec |-> resolved[k].spec, status |-> resolved[k].status]
  BY <1>1 DEF Types
<1> QED
  BY <1>3, <1>4, OutcomeParts DEF Reflects

LEMMA InitAnswered == Init => Answered
<1> SUFFICES ASSUME Init PROVE Answered
  OBVIOUS
<1>1. QInv /\ Types
  BY InitQInv DEF QInv
<1>2. ASSUME NEW k \in Keys PROVE View(k) = NoBindings /\ resolved[k] = Never
  <2>1. {m \in Names : crb[m] # Absent /\ crb[m].subject = k} = {}
    BY DEF Init
  <2> QED
    BY <2>1 DEF View, NoBindings, Init
<1>3. \A w \in Workers : pc[w] = "idle"
  BY DEF Init
<1>4. ASSUME NEW k \in Keys, NEW part \in Parts, NEW r \in Running
      PROVE  Answers(r, k, part)
  BY <1>2, <1>3 DEF Answers, Cares, Fresh, Wrote, Staff
<1> QED
  BY <1>1, <1>3, <1>4, RunningReplicas DEF Answered, Holds

(***************************************************************************)
(* The steps of users and watcher tasks, and the writes of statuses.       *)
(***************************************************************************)
LEMMA HoldersHeard ==
  ASSUME Answered, NEW w \in Workers, NEW k \in Keys, Holds(w, k)
  PROVE  Heard(w, k) /\ home[w] \in Running /\ w \in Staff(home[w])
BY RunningReplicas DEF Answered, QInv, Staff

\* The bindings of k stay, and so do their statuses.
Kept(k) == View(k)' = View(k) /\ \A m \in DOMAIN View(k) : crb'[m] = crb[m]

\* What r knows of k after a step that touches no worker and no object.
Told(r, k) ==
  \/ lost'[r][k] # {}
  \/ /\ lost[r][k] = {}
     /\ Kept(k) \/ k \in Range(events'[r])
     /\ Announced(r, k) =>
          Announced(r, k)' \/ \E w \in Staff(r) : Holds(w, k) /\ UpToDate(w)
     /\ \A w \in Staff(r) :
          Holds(w, k) /\ k \in Range(events[r]) =>
            listed[w] = View(k)' \/ k \in Range(events'[r])

\* And what it does not forget: a loss, and what was announced, unless a worker
\* has listed the bindings of k since.
StillSees(r, k) ==
  /\ lost[r][k] \subseteq lost'[r][k]
  /\ Announced(r, k) => Announced(r, k)' \/ \E w \in Staff(r) : Holds(w, k)

LEMMA QuietStep ==
  ASSUME Answered, QInv', home' = home, current' = current, pc' = pc, listed' = listed,
         resolved' = resolved, \A r \in Running, k \in Keys : Told(r, k)
  PROVE  Answered'
<1>1. /\ Running' = Running /\ \A r \in Running : Staff(r)' = Staff(r)
      /\ \A w \in Workers, k \in Keys : Holds(w, k)' <=> Holds(w, k)
      /\ \A w \in Workers, k \in Keys, part \in Parts : Wrote(w, k, part)' <=> Wrote(w, k, part)
  BY DEF Running, Staff, Holds, Wrote
<1>2. ASSUME NEW w \in Workers, NEW k \in Keys, Holds(w, k) PROVE Heard(w, k)'
  <2>1. PICK r \in Running : r = home[w] /\ w \in Staff(r) /\ Heard(w, k)
    BY <1>2, HoldersHeard
  <2>2. Told(r, k)
    OBVIOUS
  <2> QED
    BY <1>2, <2>1, <2>2 DEF Heard, Told, Kept
<1>3. ASSUME NEW k \in Keys, NEW part \in Parts, NEW r \in Running, Answers(r, k, part)
      PROVE  Answers(r, k, part)'
  <2>1. CASE lost'[r][k] # {}
    BY <2>1 DEF Answers
  <2>2. CASE lost'[r][k] = {}
    <3>1. /\ lost[r][k] = {}
          /\ View(k)' = View(k) \/ k \in Range(events'[r])
          /\ Announced(r, k) => Announced(r, k)' \/ \E w \in Staff(r) : Holds(w, k)
      BY <2>2 DEF Told, Kept
    <3>2. Cares(r, k, part) /\ \A w \in Staff(r) :
          Wrote(w, k, part) => Part(resolved[k], part) = Part(Outcome(listed[w]), part)
      BY <1>3, <3>1 DEF Answers
    <3>3. Staff(r) \subseteq Workers
      BY DEF Staff
    <3>4. CASE k \in Range(events'[r])
      <4>1. Announced(r, k)'
        BY <3>4 DEF Announced
      <4> QED
        BY <1>1, <3>2, <3>3, <4>1 DEF Answers, Cares
    <3>5. CASE View(k)' = View(k)
      <4>1. Fresh(k, part)' <=> Fresh(k, part)
        BY <3>5 DEF Fresh
      <4>2. Cares(r, k, part)'
        BY <1>1, <3>1, <3>2, <3>3, <4>1 DEF Cares
      <4> QED
        BY <1>1, <3>2, <3>3, <4>2 DEF Answers
    <3> QED
      BY <3>1, <3>4, <3>5
  <2> QED
    BY <2>1, <2>2
<1>4. \A k \in Keys, part \in Parts : \E r \in Running' : Answers(r, k, part)'
  BY <1>1, <1>3 DEF Answered
<1>5. \A w \in Workers, k \in Keys :
        (current[w] = k /\ pc[w] = "patch" => resolved[k].spec # Absent)'
  BY DEF Answered
<1> QED
  BY <1>1, <1>2, <1>4, <1>5 DEF Answered

LEMMA StutterTold ==
  ASSUME UNCHANGED vars, NEW r \in Running, NEW k \in Keys
  PROVE  Told(r, k)
<1>1. /\ crb' = crb /\ events' = events /\ replay' = replay /\ lost' = lost /\ home' = home
      /\ sending' = sending /\ chan' = chan /\ current' = current /\ pc' = pc
  BY DEF vars, server, queue, worker
<1>2. View(k)' = View(k) /\ (Announced(r, k) => Announced(r, k)')
  BY <1>1 DEF View, Announced, Staff
<1> QED
  BY <1>1, <1>2 DEF Told, Kept

\* Once more events, an announcement stays one.
LEMMA StaysAnnounced ==
  ASSUME NEW r \in Replicas, NEW k \in Keys, home' = home, current' = current, pc' = pc,
         Range(events[r]) \subseteq Range(events'[r]), replay'[r] = replay[r],
         sending'[r] = sending[r], chan'[r] = chan[r], Announced(r, k)
  PROVE  Announced(r, k)'
BY DEF Announced, Staff

LEMMA ChangeTold ==
  ASSUME Types, NEW n \in Names, Change(n), NEW r \in Running, NEW k \in Keys
  PROVE  Told(r, k)
<1>1. UNCHANGED <<resolved, replay, ready, inFlight, sending, chan, current, pc, listed, todo, home>>
  BY DEF Change, Create, Update, Delete, queue
<1>2. Running \subseteq Replicas
  BY RunningReplicas
<1> DEFINE Moved == lost' = [q \in Replicas |-> IF q \in Running
                      THEN [lost[q] EXCEPT ![crb[n].subject] = @ \union {"moved"}]
                      ELSE lost[q]]
<1>3. PICK j \in Keys :
        /\ Announce(j)
        /\ lost' = lost \/ (crb[n] # Absent /\ Moved)
        /\ \/ k = j
           \/ Kept(k)
           \/ (crb[n] # Absent /\ crb[n].subject = k /\ Moved)
  BY ChangeAnnounces DEF Kept
<1>4. Range(events[r]) \subseteq Range(events'[r]) /\ j \in Range(events'[r])
  BY <1>2, <1>3, AnnounceType
<1>5. ASSUME crb[n] # Absent, Moved
      PROVE  /\ lost[r][k] # {} => lost'[r][k] # {}
             /\ crb[n].subject = k => lost'[r][k] # {}
  <2>1. r \in Replicas /\ lost[r] \in [Keys -> SUBSET Reasons]
    BY <1>2 DEF Types
  <2>2. lost'[r] = [lost[r] EXCEPT ![crb[n].subject] = @ \union {"moved"}]
    BY <1>5, <2>1
  <2> QED
    BY <2>1, <2>2
<1> HIDE DEF Moved
<1>6. Announced(r, k) => Announced(r, k)'
  BY <1>1, <1>2, <1>4, StaysAnnounced
<1>7. lost[r][k] # {} => lost'[r][k] # {}
  BY <1>3, <1>5
<1>8. Kept(k) \/ k \in Range(events'[r]) \/ lost'[r][k] # {}
  BY <1>3, <1>4, <1>5
<1> QED
  BY <1>4, <1>6, <1>7, <1>8 DEF Told

LEMMA ChangeSeen ==
  ASSUME Types, NEW n \in Names, Change(n), NEW r \in Running, NEW k \in Keys
  PROVE  StillSees(r, k)
<1>1. UNCHANGED <<resolved, replay, ready, inFlight, sending, chan, current, pc, listed, todo, home>>
  BY DEF Change, Create, Update, Delete, queue
<1>2. r \in Replicas /\ lost[r] \in [Keys -> SUBSET Reasons]
  BY RunningReplicas DEF Types
<1> DEFINE Moved == lost' = [q \in Replicas |-> IF q \in Running
                      THEN [lost[q] EXCEPT ![crb[n].subject] = @ \union {"moved"}]
                      ELSE lost[q]]
<1>3. PICK j \in Keys : Announce(j) /\ (lost' = lost \/ Moved)
  BY ChangeAnnounces
<1>4. Announced(r, k) => Announced(r, k)'
  BY <1>1, <1>2, <1>3, AnnounceType, StaysAnnounced
<1>5. ASSUME Moved PROVE lost[r][k] \subseteq lost'[r][k]
  <2>1. lost'[r] = [lost[r] EXCEPT ![crb[n].subject] = @ \union {"moved"}]
    BY <1>2, <1>5
  <2> QED
    BY <1>2, <2>1
<1> HIDE DEF Moved
<1> QED
  BY <1>3, <1>4, <1>5 DEF StillSees

LEMMA ChangeAnswered ==
  ASSUME Answered, QInv', NEW n \in Names, Change(n)
  PROVE  Answered'
<1>1. resolved' = resolved /\ current' = current /\ pc' = pc /\ listed' = listed /\ home' = home
  BY DEF Change, Create, Update, Delete, queue
<1>2. \A r \in Running, k \in Keys : Told(r, k)
  BY ChangeTold DEF Answered, QInv
<1> QED
  BY <1>1, <1>2, QuietStep

LEMMA MarkStatusTold ==
  ASSUME Types, NEW w \in Workers, NEW n \in Names, MarkStatus(w, n)
  PROVE  /\ \A r \in Running, k \in Keys : Told(r, k)
         /\ resolved' = resolved /\ replay' = replay /\ pc' = pc /\ listed' = listed
         /\ lost' = lost /\ home' = home /\ sending' = sending /\ chan' = chan /\ current' = current
<1>1. Running \subseteq Replicas
  BY RunningReplicas
<1>2. /\ \A k \in Keys : View(k)' = View(k)
      /\ UNCHANGED <<resolved, replay, ready, queue, pc, listed, lost, budget, home>>
      /\ \A r \in Running \intersect Replicas : Range(events[r]) \subseteq Range(events'[r])
  BY <1>1, MarkStatusKeepsTypes
<1>3. /\ resolved' = resolved /\ replay' = replay /\ pc' = pc /\ listed' = listed
      /\ lost' = lost /\ home' = home /\ sending' = sending /\ chan' = chan /\ current' = current
  BY <1>2 DEF queue
<1>4. /\ crb[n].subject \in Keys
      /\ \/ crb' = crb
         \/ Announce(crb[n].subject) /\ crb' = [crb EXCEPT ![n].status = CrbStatus(listed[w])]
  BY DEF MarkStatus, Types, Crb
<1>5. ASSUME NEW r \in Running, NEW k \in Keys PROVE Told(r, k)
  <2>1. Announced(r, k) => Announced(r, k)'
    BY <1>1, <1>2, <1>3, StaysAnnounced
  <2>2. Kept(k) \/ k \in Range(events'[r])
    <3>1. CASE crb' = crb
      BY <1>2, <3>1 DEF Kept
    <3>2. CASE Announce(crb[n].subject) /\ k = crb[n].subject
      BY <1>1, <1>4, <3>2, AnnounceType
    <3>3. CASE crb' = [crb EXCEPT ![n].status = CrbStatus(listed[w])] /\ k # crb[n].subject
      <4>1. \A m \in DOMAIN View(k) : m \in Names /\ m # n
        BY <3>3 DEF View
      <4> QED
        BY <1>2, <3>3, <4>1 DEF Kept, Types
    <3> QED
      BY <1>4, <3>1, <3>2, <3>3
  <2> QED
    BY <1>1, <1>2, <1>3, <2>1, <2>2 DEF Told
<1> QED
  BY <1>3, <1>5

LEMMA MarkStatusSeen ==
  ASSUME Types, NEW w \in Workers, NEW n \in Names, MarkStatus(w, n),
         NEW r \in Running, NEW k \in Keys
  PROVE  StillSees(r, k)
<1>1. r \in Replicas
  BY RunningReplicas
<1>2. Range(events[r]) \subseteq Range(events'[r])
  BY <1>1, MarkStatusKeepsTypes
<1> QED
  BY <1>1, <1>2, MarkStatusTold, StaysAnnounced DEF StillSees

LEMMA MarkStatusAnswered ==
  ASSUME Answered, QInv', NEW w \in Workers, NEW n \in Names, MarkStatus(w, n)
  PROVE  Answered'
BY MarkStatusTold, QuietStep DEF Answered, QInv

\* enqueue(k): afterwards the key is on its way, or with a worker that listed
\* its bindings; and if these are not the bindings there are, that is a loss.
LEMMA EnqueueTold ==
  ASSUME QInv, NEW r \in Replicas, NEW k \in Keys, Enqueue(r, k), UNCHANGED <<home, pc, listed, crb>>
  PROVE  /\ chan' = chan /\ current' = current /\ sending[r] = NoKey
         /\ \A s \in Replicas : s # r => sending'[s] = sending[s]
         /\ \A s \in Replicas, j \in Keys : lost[s][j] \subseteq lost'[s][j]
         /\ Announced(r, k)' \/ \E w \in Staff(r) : Holds(w, k)
         /\ \A w \in Staff(r) : Holds(w, k) => UpToDate(w) \/ lost'[r][k] # {}
<1>1. Types /\ QueueInv(r)
  BY DEF QInv
<1>2. chan' = chan /\ current' = current /\ sending[r] = NoKey /\ Staff(r)' = Staff(r)
  BY <1>1, EnqueueKeepsTypes DEF Enqueue, Staff
<1>3. \A s \in Replicas : s # r => sending'[s] = sending[s]
  BY <1>1 DEF Enqueue, queue, Types
<1>4. "ignored" \in Reasons
  BY DEF Reasons
<1>5. \A s \in Replicas, j \in Keys : lost[s][j] \subseteq lost'[s][j]
  <2>1. lost' = lost \/ Lose(r, k, "ignored")
    BY DEF Enqueue
  <2> QED
    BY <1>1, <1>4, <2>1, LoseType
<1>6. CASE k \notin inFlight[r]
  <2>1. sending'[r] = k
    BY <1>1, <1>6 DEF Enqueue, Types
  <2>2. Announced(r, k)'
    BY <2>1 DEF Announced
  <2>3. \A w \in Staff(r) : ~Holds(w, k)
    BY <1>1, <1>6 DEF QueueInv, Holds
  <2> QED
    BY <1>2, <1>3, <1>5, <2>2, <2>3
<1>7. CASE k \in inFlight[r]
  <2>1. sending' = sending
    BY <1>7 DEF Enqueue, queue
  <2>2. k \in Range(chan[r]) \/ \E w \in Staff(r) : current[w] = k
    BY <1>1, <1>2, <1>7, QueueAssumption DEF QueueInv
  <2>3. \A w \in Staff(r) : w \in Workers /\ (current[w] = k => pc[w] = "list" \/ Holds(w, k))
    BY <1>1, QueueAssumption DEF Staff, Holds, Types
  <2>4. Announced(r, k)' \/ \E w \in Staff(r) : Holds(w, k)
    <3>1. CASE k \in Range(chan[r])
      BY <1>2, <3>1 DEF Announced
    <3>2. CASE \E w \in Staff(r) : current[w] = k
      BY <1>2, <2>3, <3>2 DEF Announced
    <3> QED
      BY <2>2, <3>1, <3>2
  <2>5. ASSUME NEW w \in Staff(r), Holds(w, k), ~UpToDate(w) PROVE lost'[r][k] # {}
    <3>1. current[w] = k /\ pc[w] # "list" /\ ~UpToDate(w)
      BY <2>5 DEF Holds
    <3>2. Lose(r, k, "ignored")
      BY <1>7, <3>1 DEF Enqueue
    <3> QED
      BY <1>1, <1>4, <3>2, LoseType
  <2> QED
    BY <1>2, <1>3, <1>5, <2>4, <2>5
<1> QED
  BY <1>6, <1>7

\* The watcher task takes k off the stream or the replay of r and enqueues it.
LEMMA TakeTold ==
  ASSUME Answered, NEW r \in Replicas, NEW k \in Keys, Enqueue(r, k),
         UNCHANGED <<home, pc, listed, crb>>, NEW s \in Running, NEW j \in Keys,
         j \in Range(events[s]) => j \in Range(events'[s]) \/ (s = r /\ j = k),
         j \in Range(replay[s]) => j \in Range(replay'[s]) \/ (s = r /\ j = k)
  PROVE  Told(s, j) /\ StillSees(s, j)
<1>1. QInv /\ s \in Replicas /\ View(j)' = View(j)
  BY RunningReplicas DEF Answered, QInv, View
<1>2. /\ chan' = chan /\ current' = current /\ sending[r] = NoKey
      /\ s # r => sending'[s] = sending[s]
      /\ lost[s][j] \subseteq lost'[s][j]
      /\ Announced(r, k)' \/ \E w \in Staff(r) : Holds(w, k)
      /\ \A w \in Staff(r) : Holds(w, k) => UpToDate(w) \/ lost'[r][k] # {}
  BY <1>1, EnqueueTold
<1>3. CASE s = r /\ j = k
  <2>1. \A w \in Staff(r) : Holds(w, k) /\ UpToDate(w) => listed[w] = View(k)
    BY DEF Holds, UpToDate
  <2> QED
    BY <1>1, <1>2, <1>3, <2>1 DEF Told, Kept, StillSees
<1>4. CASE s # r \/ j # k
  <2>1. Announced(s, j) => Announced(s, j)'
    <3>1. /\ sending[s] = j => sending'[s] = j
          /\ Staff(s)' = Staff(s)
      BY <1>2, QueueAssumption DEF Staff
    <3> QED
      BY <1>2, <1>4, <3>1 DEF Announced
  <2> QED
    BY <1>1, <1>2, <1>4, <2>1 DEF Told, Kept, StillSees
<1> QED
  BY <1>3, <1>4

LEMMA WatchTold ==
  ASSUME Answered, NEW r \in Replicas, Watch(r)
  PROVE  /\ \A s \in Running, j \in Keys : Told(s, j) /\ StillSees(s, j)
         /\ home' = home /\ resolved' = resolved /\ current' = current /\ pc' = pc
         /\ listed' = listed /\ crb' = crb /\ todo' = todo /\ intact' = intact
<1>1. Types /\ Running \subseteq Replicas /\ QInv
  BY RunningReplicas DEF Answered, QInv
<1>2. /\ home' = home /\ resolved' = resolved /\ current' = current /\ pc' = pc
      /\ listed' = listed /\ crb' = crb /\ todo' = todo /\ intact' = intact
  BY DEF Watch, InitApply, InitDone, Deliver, Send, Enqueue, server, queue, worker
<1>3. ASSUME NEW n \in Names, InitApply(r, n), NEW s \in Running, NEW j \in Keys PROVE Told(s, j) /\ StillSees(s, j)
  <2> DEFINE k == replay[r][n]
  <2>1. k \in Keys /\ Enqueue(r, k) /\ events' = events /\ replay' = [replay EXCEPT ![r][n] = NoKey]
    BY <1>1, <1>3 DEF InitApply, IsFirst, Types
  <2>2. j \in Range(replay[s]) => j \in Range(replay'[s]) \/ (s = r /\ j = k)
    <3>1. CASE s # r
      BY <1>1, <2>1, <3>1 DEF Types
    <3>2. CASE s = r
      <4>1. replay'[r] = [replay[r] EXCEPT ![n] = NoKey] /\ DOMAIN replay[r] = Names
            /\ DOMAIN replay'[r] = Names
        BY <1>1, <2>1 DEF Types
      <4>2. \A m \in Names : m # n => replay'[r][m] = replay[r][m]
        BY <4>1
      <4> QED
        BY <3>2, <4>1, <4>2 DEF Range
    <3> QED
      BY <3>1, <3>2
  <2> HIDE DEF k
  <2> QED
    BY <1>2, <2>1, <2>2, TakeTold
<1>4. ASSUME Deliver(r), NEW s \in Running, NEW j \in Keys PROVE Told(s, j) /\ StillSees(s, j)
  <2> DEFINE k == Head(events[r])
  <2>1. events[r] \in Seq(Keys) /\ events[r] # <<>>
    BY <1>1, <1>4 DEF Deliver, Types
  <2>2. k \in Keys /\ Range(events[r]) = Range(Tail(events[r])) \union {k}
    BY <2>1, TakeHead
  <2>3. Enqueue(r, k) /\ replay' = replay /\ events' = [events EXCEPT ![r] = Tail(events[r])]
    BY <1>4 DEF Deliver
  <2> HIDE DEF k
  <2>4. j \in Range(events[s]) => j \in Range(events'[s]) \/ (s = r /\ j = k)
    BY <1>1, <2>2, <2>3 DEF Types
  <2> QED
    BY <1>2, <2>2, <2>3, <2>4, TakeTold
<1>5. ASSUME InitDone(r) \/ Send(r), NEW s \in Running, NEW j \in Keys PROVE Told(s, j) /\ StillSees(s, j)
  <2>1. /\ events' = events /\ replay' = replay /\ lost' = lost /\ View(j)' = View(j)
        /\ s \in Replicas /\ Staff(s)' = Staff(s)
    BY <1>1, <1>2, <1>5 DEF InitDone, Send, server, View, Staff
  <2>2. sending[s] = j \/ j \in Range(chan[s]) => sending'[s] = j \/ j \in Range(chan'[s])
    <3>1. CASE InitDone(r)
      BY <3>1 DEF InitDone, queue
    <3>2. CASE Send(r)
      <4>1. sending[r] \in Keys /\ chan[r] \in Seq(Keys)
        BY <1>1, <3>2 DEF Send, Types
      <4>2. Range(Append(chan[r], sending[r])) = Range(chan[r]) \union {sending[r]}
        BY <4>1, AppendKey
      <4>3. /\ chan' = [chan EXCEPT ![r] = Append(chan[r], sending[r])]
            /\ sending' = [sending EXCEPT ![r] = NoKey]
        BY <3>2 DEF Send
      <4> QED
        BY <1>1, <2>1, <4>2, <4>3 DEF Types
    <3> QED
      BY <1>5, <3>1, <3>2
  <2>3. Announced(s, j) => Announced(s, j)'
    BY <1>2, <2>1, <2>2 DEF Announced
  <2> QED
    BY <1>2, <2>1, <2>3 DEF Told, Kept, StillSees
<1>6. \A s \in Running, j \in Keys : Told(s, j) /\ StillSees(s, j)
  BY <1>3, <1>4, <1>5 DEF Watch
<1> QED
  BY <1>2, <1>6

LEMMA WatchAnswered ==
  ASSUME Answered, QInv', NEW r \in Replicas, Watch(r)
  PROVE  Answered'
BY WatchTold, QuietStep

(***************************************************************************)
(* The steps of the workers and the restarts.                              *)
(***************************************************************************)
LEMMA HeardStays ==
  ASSUME NEW v \in Workers, NEW k \in Keys, home' = home, UNCHANGED <<crb, listed[v]>>,
         events'[home[v]] = events[home[v]], lost[home[v]][k] \subseteq lost'[home[v]][k],
         Heard(v, k)
  PROVE  Heard(v, k)'
<1>1. View(k)' = View(k)
  BY DEF View
<1> QED
  BY <1>1 DEF Heard

\* r's answer for a part that is not written, by workers that go on.
LEMMA AnswerStays ==
  ASSUME NEW r \in Replicas, NEW k \in Keys, NEW part \in Parts, home' = home, crb' = crb,
         Part(resolved'[k], part) = Part(resolved[k], part),
         resolved[k] = Never => resolved'[k] = Never,
         lost[r][k] \subseteq lost'[r][k],
         Announced(r, k) => Announced(r, k)',
         \A v \in Staff(r) : Holds(v, k) => Holds(v, k)',
         \A v \in Staff(r) : Wrote(v, k, part)' => Wrote(v, k, part) /\ listed'[v] = listed[v],
         Answers(r, k, part)
  PROVE  Answers(r, k, part)'
<1>1. View(k)' = View(k) /\ Staff(r)' = Staff(r)
  BY DEF View, Staff
<1>2. Fresh(k, part) => Fresh(k, part)'
  BY <1>1 DEF Fresh
<1>3. Cares(r, k, part) => Cares(r, k, part)'
  BY <1>1, <1>2 DEF Cares
<1> QED
  BY <1>1, <1>3 DEF Answers

\* A step of worker w on key k that leaves r's other keys, the other replicas
\* and all objects alone.
LEMMA Elsewhere ==
  ASSUME NEW w \in Workers, NEW r \in Replicas, NEW k \in Keys, NEW part \in Parts,
         UNCHANGED <<home, crb, events, replay, sending>>, resolved'[k] = resolved[k],
         \A v \in Workers : v # w =>
           current'[v] = current[v] /\ pc'[v] = pc[v] /\ listed'[v] = listed[v],
         home[w] # r \/ (current[w] # k /\ current'[w] # k),
         lost[r][k] \subseteq lost'[r][k],
         k \in Range(chan[r]) => k \in Range(chan'[r]),
         Answers(r, k, part)
  PROVE  Answers(r, k, part)'
<1>1. \A v \in Staff(r) :
        \/ v \in Workers /\ v # w /\ current'[v] = current[v] /\ pc'[v] = pc[v] /\ listed'[v] = listed[v]
        \/ current[v] # k /\ current'[v] # k
  BY DEF Staff
<1>2. Announced(r, k) => Announced(r, k)'
  <2>1. Staff(r)' = Staff(r)
    BY DEF Staff
  <2> QED
    BY <1>1, <2>1 DEF Announced
<1>3. \A v \in Staff(r) : /\ Holds(v, k) => Holds(v, k)'
                          /\ Wrote(v, k, part)' => Wrote(v, k, part) /\ listed'[v] = listed[v]
  BY <1>1 DEF Holds, Wrote
<1> QED
  BY <1>2, <1>3, AnswerStays

\* What is left to show of a step of w.
LEMMA WorkerStep ==
  ASSUME Answered, QInv', NEW w \in Workers,
         UNCHANGED <<home, crb, events>>,
         \A v \in Workers : v # w =>
           current'[v] = current[v] /\ pc'[v] = pc[v] /\ listed'[v] = listed[v],
         \A v \in Workers, j \in Keys :
           v # w /\ Holds(v, j) => lost[home[v]][j] \subseteq lost'[home[v]][j],
         \A j \in Keys : Holds(w, j)' => Heard(w, j)',
         \A j \in Keys : (current[w] = j /\ pc[w] = "patch" => resolved[j].spec # Absent)',
         \A j \in Keys : resolved[j].spec # Absent => resolved'[j].spec # Absent,
         \A j \in Keys, part \in Parts, r \in Running :
           Answers(r, j, part) => \E s \in Running : Answers(s, j, part)'
  PROVE  Answered'
<1>1. ASSUME NEW v \in Workers, NEW j \in Keys, Holds(v, j)' PROVE Heard(v, j)'
  <2>1. CASE v # w
    <3>1. Holds(v, j) /\ listed'[v] = listed[v]
      BY <1>1, <2>1 DEF Holds
    <3>2. Heard(v, j) /\ lost[home[v]][j] \subseteq lost'[home[v]][j]
      BY <2>1, <3>1 DEF Answered
    <3> QED
      BY <3>1, <3>2, HeardStays
  <2> QED
    BY <1>1, <2>1
<1>2. ASSUME NEW v \in Workers, NEW j \in Keys
      PROVE  (current[v] = j /\ pc[v] = "patch" => resolved[j].spec # Absent)'
  BY DEF Answered
<1>3. ASSUME NEW j \in Keys, NEW part \in Parts PROVE \E r \in Running' : Answers(r, j, part)'
  BY DEF Answered, Running
<1> QED
  BY <1>1, <1>2, <1>3 DEF Answered

LEMMA RecvAnswered ==
  ASSUME Answered, QInv', NEW w \in Workers, Recv(w)
  PROVE  Answered'
<1>1. PICK r \in Running : r = home[w] /\ r \in Replicas
  BY RunningReplicas DEF Answered, QInv
<1>2. /\ Types /\ Running \subseteq Replicas
      /\ UNCHANGED <<home, crb, resolved, events, replay, sending, listed, lost>>
  BY RunningReplicas DEF Recv, server, Answered, QInv
<1>3. chan[r] \in Seq(Keys) /\ chan[r] # <<>>
  BY <1>1, <1>2 DEF Recv, Types
<1>4. PICK k \in Keys : k = Head(chan[r]) /\ Range(chan[r]) = Range(Tail(chan[r])) \union {k}
  BY <1>3, TakeHead
<1>5. /\ chan' = [chan EXCEPT ![r] = Tail(chan[r])]
      /\ current' = [current EXCEPT ![w] = k] /\ pc' = [pc EXCEPT ![w] = "list"]
      /\ current[w] = NoKey
  BY <1>1, <1>2, <1>4 DEF Recv, Goto, At, Types
<1>6. /\ current'[w] = k /\ pc'[w] = "list"
      /\ \A v \in Workers : v # w => current'[v] = current[v] /\ pc'[v] = pc[v] /\ listed'[v] = listed[v]
  BY <1>2, <1>5 DEF Types
<1>7. ASSUME NEW j \in Keys, NEW part \in Parts, NEW s \in Running, Answers(s, j, part)
      PROVE  Answers(s, j, part)'
  <2>1. s \in Replicas
    BY <1>2
  <2>2. CASE s # r \/ j # k
    <3>1. j \in Range(chan[s]) => j \in Range(chan'[s])
      BY <1>2, <1>4, <1>5, <2>1, <2>2 DEF Types
    <3>2. s # home[w] \/ (current[w] # j /\ current'[w] # j)
      BY <1>1, <1>5, <1>6, <2>2, QueueAssumption
    <3> QED
      BY <1>2, <1>6, <1>7, <2>1, <3>1, <3>2, Elsewhere
  <2>3. CASE s = r /\ j = k
    <3>1. Staff(r)' = Staff(r) /\ w \in Staff(r) /\ \A v \in Staff(r) : v \in Workers
      BY <1>1, <1>2 DEF Staff
    <3>2. Announced(r, k)'
      BY <1>6, <3>1 DEF Announced
    <3>3. \A v \in Staff(r) : /\ Holds(v, k) => Holds(v, k)'
                              /\ Wrote(v, k, part)' => Wrote(v, k, part) /\ listed'[v] = listed[v]
      BY <1>5, <1>6, <3>1, QueueAssumption DEF Holds, Wrote
    <3> QED
      BY <1>2, <1>7, <2>1, <2>3, <3>2, <3>3, AnswerStays
  <2> QED
    BY <2>2, <2>3
<1>8. \A j \in Keys : ~Holds(w, j)' /\ pc'[w] # "patch"
  BY <1>6 DEF Holds
<1> QED
  BY <1>2, <1>6, <1>7, <1>8, WorkerStep

LEMMA ListAnswered ==
  ASSUME Answered, QInv', NEW w \in Workers, List(w)
  PROVE  Answered'
<1>1. PICK r \in Running : r = home[w] /\ r \in Replicas
  BY RunningReplicas DEF Answered, QInv
<1>2. /\ Types /\ Running \subseteq Replicas
      /\ UNCHANGED <<home, crb, resolved, events, replay, sending, chan, current>>
  BY RunningReplicas DEF List, server, queue, Answered, QInv
<1>3. PICK k \in Keys : k = current[w]
  BY <1>2, QueueAssumption DEF List, At, Types
<1>4. /\ listed' = [listed EXCEPT ![w] = View(k)] /\ pc' = [pc EXCEPT ![w] = "mark"]
      /\ lost' = [lost EXCEPT ![r][k] = {}] /\ pc[w] = "list"
  BY <1>1, <1>3 DEF List, Goto, At
<1>5. /\ listed'[w] = View(k) /\ pc'[w] = "mark" /\ current'[w] = k
      /\ \A v \in Workers : v # w => current'[v] = current[v] /\ pc'[v] = pc[v] /\ listed'[v] = listed[v]
  BY <1>2, <1>3, <1>4 DEF Types
<1>6. \A s \in Replicas, j \in Keys : s # r \/ j # k => lost'[s][j] = lost[s][j]
  BY <1>1, <1>2, <1>4 DEF Types
<1>7. /\ w \in Staff(r) /\ Staff(r)' = Staff(r) /\ \A v \in Staff(r) : v \in Workers
      /\ \A v \in Staff(r) : v # w => current[v] # k
  BY <1>1, <1>2, <1>3, QueueAssumption DEF Staff, Answered, QInv, QueueInv
<1>8. View(k)' = View(k)
  BY <1>2 DEF View
<1>9. ASSUME NEW j \in Keys, NEW part \in Parts, NEW s \in Running, Answers(s, j, part)
      PROVE  Answers(s, j, part)'
  <2>1. CASE s = r /\ j = k
    <3>1. Holds(w, k)'
      BY <1>5 DEF Holds
    <3>2. Cares(r, k, part)'
      BY <1>7, <3>1 DEF Cares
    <3>3. \A v \in Staff(r) : ~Wrote(v, k, part)'
      BY <1>5, <1>7 DEF Wrote
    <3> QED
      BY <1>7, <2>1, <3>2, <3>3 DEF Answers
  <2>2. CASE s # r \/ j # k
    <3>1. lost'[s][j] = lost[s][j] /\ s \in Replicas
      BY <1>2, <1>6, <2>2
    <3>2. home[w] # s \/ (current[w] # j /\ current'[w] # j)
      BY <1>1, <1>3, <1>5, <2>2
    <3> QED
      BY <1>2, <1>5, <1>9, <3>1, <3>2, Elsewhere
  <2> QED
    BY <2>1, <2>2
<1>10. ASSUME NEW v \in Workers, NEW j \in Keys, v # w, Holds(v, j)
       PROVE  lost'[home[v]][j] = lost[home[v]][j]
  <2>1. home[v] \in Replicas /\ (home[v] = r => v \in Staff(r)) /\ current[v] = j
    BY <1>2, <1>10 DEF Types, Staff, Holds
  <2> QED
    BY <1>6, <1>7, <1>10, <2>1
<1>11. \A j \in Keys : Holds(w, j)' => Heard(w, j)'
  BY <1>5, <1>8 DEF Holds, Heard
<1> QED
  BY <1>2, <1>5, <1>9, <1>10, <1>11, WorkerStep

LEMMA FailingAnswered ==
  ASSUME Answered, QInv', NEW w \in Workers, Fail(w) \/ \E n \in Names : MarkRefused(w, n)
  PROVE  Answered'
<1>1. PICK r \in Running : r = home[w] /\ r \in Replicas
  BY RunningReplicas DEF Answered, QInv
<1>2. Types /\ Running \subseteq Replicas
  BY RunningReplicas DEF Answered, QInv
<1>3. /\ UNCHANGED <<server, ready, queue, listed, todo, intact, home>>
      /\ pc[w] # "idle" /\ pc' = [pc EXCEPT ![w] = "done"]
      /\ lost'[home[w]][current[w]] # {}
      /\ \A s \in Replicas, j \in Keys : lost[s][j] \subseteq lost'[s][j]
  BY <1>2, FailingKeepsTypes
<1>4. UNCHANGED <<home, crb, resolved, events, replay, sending, chan, current, listed>>
  BY <1>3 DEF server, queue
<1>5. PICK k \in Keys : k = current[w]
  BY <1>2, <1>3, QueueAssumption DEF Types
<1>6. /\ pc'[w] = "done" /\ current'[w] = k /\ lost'[r][k] # {}
      /\ \A v \in Workers : v # w => current'[v] = current[v] /\ pc'[v] = pc[v] /\ listed'[v] = listed[v]
  BY <1>1, <1>2, <1>3, <1>4, <1>5 DEF Types
<1>7. ASSUME NEW j \in Keys, NEW part \in Parts, NEW s \in Running, Answers(s, j, part)
      PROVE  Answers(s, j, part)'
  <2>1. CASE s = r /\ j = k
    BY <1>6, <2>1 DEF Answers
  <2>2. CASE s # r \/ j # k
    <3>1. home[w] # s \/ (current[w] # j /\ current'[w] # j)
      BY <1>1, <1>5, <1>6, <2>2
    <3>2. s \in Replicas /\ lost[s][j] \subseteq lost'[s][j] /\ resolved'[j] = resolved[j] /\ chan' = chan
      BY <1>2, <1>3, <1>4
    <3> QED
      BY <1>4, <1>6, <1>7, <3>1, <3>2, Elsewhere
  <2> QED
    BY <2>1, <2>2
<1>8. \A v \in Workers, j \in Keys : lost[home[v]][j] \subseteq lost'[home[v]][j]
  BY <1>2, <1>3 DEF Types
<1>9. \A j \in Keys : Holds(w, j)' => Heard(w, j)'
  BY <1>1, <1>4, <1>6 DEF Holds, Heard
<1> QED
  BY <1>4, <1>6, <1>7, <1>8, <1>9, WorkerStep

LEMMA PatchSpecAnswered ==
  ASSUME Answered, QInv', NEW w \in Workers, PatchSpec(w)
  PROVE  Answered'
<1>1. PICK r \in Running : r = home[w] /\ r \in Replicas
  BY RunningReplicas DEF Answered, QInv
<1>2. Types /\ Running \subseteq Replicas
  BY RunningReplicas DEF Answered, QInv
<1>3. /\ UNCHANGED <<home, crb, events, replay, sending, chan, current, listed, lost>>
      /\ pc[w] = "mark" /\ pc' = [pc EXCEPT ![w] = "patch"]
      /\ resolved' = [resolved EXCEPT ![current[w]].spec = Outcome(listed[w]).spec]
  BY DEF PatchSpec, queue, At, Goto
<1>4. PICK k \in Keys : k = current[w]
  BY <1>2, <1>3, QueueAssumption DEF Types
<1>5. /\ pc'[w] = "patch" /\ current'[w] = k
      /\ \A v \in Workers : v # w => current'[v] = current[v] /\ pc'[v] = pc[v] /\ listed'[v] = listed[v]
  BY <1>2, <1>3, <1>4 DEF Types
<1>6. /\ resolved'[k].spec = Outcome(listed[w]).spec
      /\ resolved'[k].spec # Absent
      /\ \A j \in Keys : j # k => resolved'[j] = resolved[j]
  <2>1. Outcome(listed[w]).spec # Absent
    BY <1>2, AbsentAssumption DEF Types
  <2> QED
    BY <1>2, <1>3, <1>4, <2>1 DEF Types
<1>7. /\ w \in Staff(r) /\ Staff(r)' = Staff(r) /\ \A v \in Staff(r) : v \in Workers
      /\ \A v \in Staff(r) : v # w => current[v] # k
  BY <1>1, <1>2, <1>3, <1>4, QueueAssumption DEF Staff, Answered, QInv, QueueInv
<1>8. ASSUME NEW part \in Parts PROVE Answers(r, k, part)'
  <2>1. Holds(w, k)'
    BY <1>5 DEF Holds
  <2>2. Cares(r, k, part)'
    BY <1>7, <2>1 DEF Cares
  <2>3. ASSUME NEW v \in Staff(r), Wrote(v, k, part)'
        PROVE  Part(resolved'[k], part) = Part(Outcome(listed'[v]), part)
    <3>1. v = w /\ part = "spec"
      BY <1>5, <1>7, <2>3 DEF Wrote
    <3> QED
      BY <1>3, <1>6, <3>1 DEF Part
  <2> QED
    BY <1>7, <2>2, <2>3 DEF Answers
<1>9. ASSUME NEW j \in Keys, NEW part \in Parts, NEW s \in Running, Answers(s, j, part)
      PROVE  \E t \in Running : Answers(t, j, part)'
  <2>1. CASE j # k
    <3>1. current[w] # j /\ current'[w] # j
      BY <1>4, <1>5, <2>1
    <3>2. s \in Replicas /\ resolved'[j] = resolved[j] /\ lost' = lost /\ chan' = chan
      BY <1>2, <1>3, <1>6, <2>1
    <3> QED
      BY <1>3, <1>5, <1>9, <3>1, <3>2, Elsewhere
  <2> QED
    BY <1>8, <2>1
<1>10. ASSUME NEW j \in Keys, Holds(w, j)' PROVE Heard(w, j)'
  <2>1. j = k /\ Holds(w, k)
    BY <1>3, <1>4, <1>5, <1>10 DEF Holds
  <2>2. Heard(w, k)
    BY <2>1 DEF Answered
  <2> QED
    BY <1>3, <2>1, <2>2, HeardStays
<1>11. \A j \in Keys : /\ (current[w] = j /\ pc[w] = "patch" => resolved[j].spec # Absent)'
                       /\ resolved[j].spec # Absent => resolved'[j].spec # Absent
  BY <1>5, <1>6
<1> QED
  BY <1>3, <1>5, <1>9, <1>10, <1>11, WorkerStep

LEMMA PatchStatusAnswered ==
  ASSUME Answered, QInv', NEW w \in Workers, PatchStatus(w)
  PROVE  Answered'
<1>1. PICK r \in Running : r = home[w] /\ r \in Replicas
  BY RunningReplicas DEF Answered, QInv
<1>2. Types /\ Running \subseteq Replicas
  BY RunningReplicas DEF Answered, QInv
<1>3. /\ UNCHANGED <<home, crb, events, replay, sending, chan, current, listed, lost>>
      /\ pc[w] = "patch" /\ pc' = [pc EXCEPT ![w] = "done"]
      /\ resolved' = [resolved EXCEPT ![current[w]].status = Outcome(listed[w]).status]
  BY DEF PatchStatus, queue, At, Goto
<1>4. PICK k \in Keys : k = current[w]
  BY <1>2, <1>3, QueueAssumption DEF Types
<1>5. /\ pc'[w] = "done" /\ current'[w] = k
      /\ \A v \in Workers : v # w => current'[v] = current[v] /\ pc'[v] = pc[v] /\ listed'[v] = listed[v]
  BY <1>2, <1>3, <1>4 DEF Types
<1>6. /\ resolved'[k].status = Outcome(listed[w]).status
      /\ \A j \in Keys : resolved'[j].spec = resolved[j].spec
      /\ \A j \in Keys : j # k => resolved'[j] = resolved[j]
  BY <1>2, <1>3, <1>4 DEF Types
<1>7. /\ w \in Staff(r) /\ Staff(r)' = Staff(r) /\ \A v \in Staff(r) : v \in Workers
      /\ \A v \in Staff(r) : v # w => current[v] # k
  BY <1>1, <1>2, <1>3, <1>4, QueueAssumption DEF Staff, Answered, QInv, QueueInv
<1>8. resolved[k] # Never
  <2>1. resolved[k].spec # Absent
    BY <1>3, <1>4 DEF Answered
  <2> QED
    BY <2>1 DEF Never
<1>9. Answers(r, k, "status")'
  <2>1. Holds(w, k)'
    BY <1>5 DEF Holds
  <2>2. Cares(r, k, "status")'
    BY <1>7, <2>1 DEF Cares
  <2>3. ASSUME NEW v \in Staff(r), Wrote(v, k, "status")'
        PROVE  Part(resolved'[k], "status") = Part(Outcome(listed'[v]), "status")
    <3>1. v = w
      BY <1>5, <1>7, <2>3 DEF Wrote
    <3> QED
      BY <1>3, <1>6, <3>1 DEF Part
  <2> QED
    BY <1>7, <2>2, <2>3 DEF Answers
<1>10. ASSUME NEW s \in Running, Answers(s, k, "spec") PROVE Answers(s, k, "spec")'
  <2>1. s \in Replicas /\ "spec" \in Parts /\ Staff(s)' = Staff(s) /\ \A v \in Staff(s) : v \in Workers
    BY <1>2, <1>3 DEF Parts, Staff
  <2>2. Part(resolved'[k], "spec") = Part(resolved[k], "spec")
    BY <1>6 DEF Part
  <2>3. \A v \in Staff(s) : /\ Holds(v, k) => Holds(v, k)'
                            /\ Wrote(v, k, "spec")' => Wrote(v, k, "spec") /\ listed'[v] = listed[v]
    BY <1>3, <1>4, <1>5, <2>1 DEF Holds, Wrote
  <2>4. Announced(s, k) => Announced(s, k)'
    BY <1>3, <1>5, <2>1 DEF Announced
  <2>5. lost' = lost /\ crb' = crb /\ home' = home
    BY <1>3
  <2> QED
    BY <1>8, <1>10, <2>1, <2>2, <2>3, <2>4, <2>5, AnswerStays
<1>11. ASSUME NEW j \in Keys, NEW part \in Parts, NEW s \in Running, Answers(s, j, part)
       PROVE  \E t \in Running : Answers(t, j, part)'
  <2>1. CASE j # k
    <3>1. current[w] # j /\ current'[w] # j
      BY <1>4, <1>5, <2>1
    <3>2. s \in Replicas /\ resolved'[j] = resolved[j] /\ lost' = lost /\ chan' = chan
      BY <1>2, <1>3, <1>6, <2>1
    <3> QED
      BY <1>3, <1>5, <1>11, <3>1, <3>2, Elsewhere
  <2>2. CASE j = k
    BY <1>9, <1>10, <1>11, <2>2 DEF Parts
  <2> QED
    BY <2>1, <2>2
<1>12. ASSUME NEW j \in Keys, Holds(w, j)' PROVE Heard(w, j)'
  <2>1. j = k /\ Holds(w, k)
    BY <1>3, <1>4, <1>5, <1>12 DEF Holds
  <2>2. Heard(w, k)
    BY <2>1 DEF Answered
  <2> QED
    BY <1>3, <2>1, <2>2, HeardStays
<1>13. \A j \in Keys : /\ (current[w] = j /\ pc[w] = "patch" => resolved[j].spec # Absent)'
                       /\ resolved[j].spec # Absent => resolved'[j].spec # Absent
  BY <1>5, <1>6
<1> QED
  BY <1>3, <1>5, <1>11, <1>12, <1>13, WorkerStep

LEMMA FinishAnswered ==
  ASSUME Answered, QInv', NEW w \in Workers, Finish(w)
  PROVE  Answered'
<1>1. PICK r \in Running : r = home[w] /\ r \in Replicas
  BY RunningReplicas DEF Answered, QInv
<1>2. Types /\ Running \subseteq Replicas
  BY RunningReplicas DEF Answered, QInv
<1>3. /\ UNCHANGED <<home, crb, resolved, events, replay, sending, chan, lost>>
      /\ pc[w] = "done" /\ pc' = [pc EXCEPT ![w] = "idle"]
      /\ current' = [current EXCEPT ![w] = NoKey]
      /\ listed' = [listed EXCEPT ![w] = NoBindings]
  BY DEF Finish, server, At, Goto
<1>4. PICK k \in Keys : k = current[w]
  BY <1>2, <1>3, QueueAssumption DEF Types
<1>5. /\ pc'[w] = "idle" /\ current'[w] \notin Keys
      /\ \A v \in Workers : v # w => current'[v] = current[v] /\ pc'[v] = pc[v] /\ listed'[v] = listed[v]
  BY <1>2, <1>3, QueueAssumption DEF Types
<1>6. /\ w \in Staff(r) /\ Staff(r)' = Staff(r) /\ \A v \in Staff(r) : v \in Workers
      /\ View(k)' = View(k)
  BY <1>1, <1>2, <1>3 DEF Staff, View
<1>7. ASSUME NEW part \in Parts, Answers(r, k, part) PROVE Answers(r, k, part)'
  <2>1. CASE lost[r][k] # {}
    BY <1>3, <2>1 DEF Answers
  <2>2. CASE lost[r][k] = {}
    <3>1. /\ \A v \in Staff(r) :
               Wrote(v, k, part) => Part(resolved[k], part) = Part(Outcome(listed[v]), part)
          /\ Wrote(w, k, part) /\ Holds(w, k)
      BY <1>3, <1>4, <1>7, <2>2 DEF Answers, Wrote, Holds
    <3>2. listed[w] = View(k) \/ k \in Range(events[r])
      BY <1>1, <2>2, <3>1 DEF Answered, Heard
    <3>3. Fresh(k, part)' \/ Announced(r, k)'
      BY <1>3, <1>6, <3>1, <3>2 DEF Fresh, Announced
    <3>4. \A v \in Staff(r) : Wrote(v, k, part)' => Wrote(v, k, part) /\ listed'[v] = listed[v]
      BY <1>5, <1>6 DEF Wrote
    <3> QED
      BY <1>3, <1>6, <3>1, <3>3, <3>4 DEF Answers, Cares
  <2> QED
    BY <2>1, <2>2
<1>8. ASSUME NEW j \in Keys, NEW part \in Parts, NEW s \in Running, Answers(s, j, part)
      PROVE  Answers(s, j, part)'
  <2>1. CASE s = r /\ j = k
    BY <1>7, <1>8, <2>1
  <2>2. CASE s # r \/ j # k
    <3>1. home[w] # s \/ (current[w] # j /\ current'[w] # j)
      BY <1>1, <1>4, <1>5, <2>2
    <3>2. s \in Replicas /\ resolved'[j] = resolved[j] /\ lost' = lost /\ chan' = chan
      BY <1>2, <1>3
    <3> QED
      BY <1>3, <1>5, <1>8, <3>1, <3>2, Elsewhere
  <2> QED
    BY <2>1, <2>2
<1>9. \A j \in Keys : ~Holds(w, j)' /\ pc'[w] # "patch"
  BY <1>5 DEF Holds
<1> QED
  BY <1>3, <1>5, <1>8, <1>9, WorkerStep

\* The successor's first list names every service account that has a binding.
LEMMA RestartReplays ==
  ASSUME Types, NEW r \in Replicas, Restart(r), NEW k \in Keys, View(k) # NoBindings
  PROVE  Announced(r, k)'
<1>1. PICK n \in Names : crb[n] # Absent /\ crb[n].subject = k
  BY DEF View, NoBindings
<1>2. replay' = [replay EXCEPT
         ![r] = [m \in Names |-> IF crb[m] = Absent THEN NoKey ELSE crb[m].subject]]
  BY DEF Restart
<1>3. k \in Range(replay'[r])
  BY <1>1, <1>2 DEF Types, Range
<1> QED
  BY <1>3 DEF Announced

\* And the model notes what was under way of the others.
LEMMA RestartLoses ==
  ASSUME Types, NEW r \in Replicas, Restart(r), NEW k \in Keys
  PROVE  lost'[r][k] = IF View(k) = NoBindings /\ (Announced(r, k) \/ BeingServed(r, k))
                       THEN lost[r][k] \union {Unseen(r, k)} ELSE lost[r][k]
<1> DEFINE now == [j \in Keys |->
            IF View(j) = NoBindings /\ (Announced(r, j) \/ BeingServed(r, j))
            THEN lost[r][j] \union {Unseen(r, j)} ELSE lost[r][j]]
<1>1. lost' = [lost EXCEPT ![r] = now]
  BY DEF Restart
<1>2. lost'[r] = now
  <2> HIDE DEF now
  <2> QED
    BY <1>1 DEF Types
<1> QED
  BY <1>2

LEMMA RestartAnswered ==
  ASSUME Answered, QInv', NEW r \in Replicas, Restart(r)
  PROVE  Answered'
<1>1. Types /\ Running \subseteq Replicas /\ Running' = Running /\ r \in Running
  BY RunningReplicas DEF Restart, Running, Answered, QInv
<1>2. /\ home' = home /\ crb' = crb /\ resolved' = resolved
      /\ \A s \in Replicas : s # r =>
           /\ events'[s] = events[s] /\ replay'[s] = replay[s] /\ lost'[s] = lost[s]
           /\ sending'[s] = sending[s] /\ chan'[s] = chan[s]
  BY <1>1 DEF Restart, Reset, Types
<1>3. \A w \in Workers : IF home[w] = r THEN pc'[w] = "idle"
           ELSE pc'[w] = pc[w] /\ current'[w] = current[w] /\ listed'[w] = listed[w]
  BY DEF Restart, Reset
<1>4. \A k \in Keys : View(k)' = View(k)
  BY <1>2 DEF View
<1>5. ASSUME NEW k \in Keys, NEW part \in Parts, NEW s \in Running, s # r, Answers(s, k, part)
      PROVE  Answers(s, k, part)'
  <2>1. /\ s \in Replicas /\ Staff(s)' = Staff(s)
        /\ \A v \in Staff(s) : pc'[v] = pc[v] /\ current'[v] = current[v] /\ listed'[v] = listed[v]
    BY <1>1, <1>2, <1>3, <1>5 DEF Staff
  <2>2. Announced(s, k) => Announced(s, k)'
    BY <1>2, <1>5, <2>1 DEF Announced
  <2>3. \A v \in Staff(s) : /\ Holds(v, k) => Holds(v, k)'
                            /\ Wrote(v, k, part)' => Wrote(v, k, part) /\ listed'[v] = listed[v]
    BY <2>1 DEF Holds, Wrote
  <2>4. lost[s][k] \subseteq lost'[s][k]
    BY <1>2, <1>5, <2>1
  <2> QED
    BY <1>2, <1>5, <2>1, <2>2, <2>3, <2>4, AnswerStays
<1>6. ASSUME NEW k \in Keys, NEW part \in Parts, Answers(r, k, part)
      PROVE  Answers(r, k, part)'
  <2>1. lost'[r][k] = (IF View(k) = NoBindings /\ (Announced(r, k) \/ BeingServed(r, k))
                       THEN lost[r][k] \union {Unseen(r, k)} ELSE lost[r][k])
    BY <1>1, RestartLoses
  <2>2. CASE lost[r][k] # {}
    BY <2>1, <2>2 DEF Answers
  <2>3. CASE View(k) = NoBindings /\ (Announced(r, k) \/ BeingServed(r, k))
    BY <2>1, <2>3 DEF Answers
  <2>4. CASE lost[r][k] = {} /\ ~(View(k) = NoBindings /\ (Announced(r, k) \/ BeingServed(r, k)))
    <3>1. \A w \in Staff(r)' : ~Wrote(w, k, part)'
      BY <1>2, <1>3 DEF Staff, Wrote
    <3>2. Announced(r, k)' \/ Fresh(k, part)'
      <4>1. CASE View(k) # NoBindings
        BY <1>1, <4>1, RestartReplays
      <4>2. CASE View(k) = NoBindings /\ \E w \in Staff(r) : Holds(w, k)
        <5>1. PICK w \in Staff(r) : Holds(w, k)
          BY <4>2
        <5>2. w \in Workers /\ home[w] = r /\ pc[w] = "done" /\ current[w] = k
          BY <2>4, <4>2, <5>1 DEF Staff, Holds, BeingServed
        <5>3. listed[w] = View(k)
          BY <2>4, <4>2, <5>1, <5>2 DEF Answered, Heard, Announced
        <5>4. Part(resolved[k], part) = Part(Outcome(listed[w]), part)
          BY <1>6, <2>4, <5>1, <5>2 DEF Answers, Wrote
        <5> QED
          BY <1>2, <1>4, <5>3, <5>4 DEF Fresh
      <4>3. CASE View(k) = NoBindings /\ ~\E w \in Staff(r) : Holds(w, k)
        BY <1>2, <1>4, <1>6, <2>4, <4>3 DEF Answers, Cares, Fresh
      <4> QED
        BY <4>1, <4>2, <4>3
    <3> QED
      BY <3>1, <3>2 DEF Answers, Cares
  <2> QED
    BY <2>2, <2>3, <2>4
<1>7. ASSUME NEW w \in Workers, NEW k \in Keys, Holds(w, k)' PROVE Heard(w, k)'
  <2>1. home[w] # r /\ home[w] \in Replicas /\ Holds(w, k) /\ listed'[w] = listed[w]
    BY <1>1, <1>3, <1>7 DEF Holds, Types
  <2>2. Heard(w, k) /\ events'[home[w]] = events[home[w]] /\ lost'[home[w]] = lost[home[w]]
    BY <1>2, <2>1 DEF Answered
  <2> QED
    BY <1>2, <2>1, <2>2, HeardStays
<1>8. \A w \in Workers, k \in Keys :
        (current[w] = k /\ pc[w] = "patch" => resolved[k].spec # Absent)'
  BY <1>2, <1>3 DEF Answered
<1>9. \A k \in Keys, part \in Parts : \E s \in Running' : Answers(s, k, part)'
  BY <1>1, <1>5, <1>6 DEF Answered
<1> QED
  BY <1>7, <1>8, <1>9 DEF Answered

LEMMA AnsweredStep == Answered /\ QInv' /\ [Next]_vars => Answered'
<1> SUFFICES ASSUME Answered, QInv', [Next]_vars PROVE Answered'
  OBVIOUS
<1>1. CASE UNCHANGED vars
  <2>1. home' = home /\ resolved' = resolved /\ current' = current /\ pc' = pc /\ listed' = listed
    BY <1>1 DEF vars, server, queue, worker
  <2>2. \A r \in Running, k \in Keys : Told(r, k)
    BY <1>1, StutterTold
  <2> QED
    BY <2>1, <2>2, QuietStep
<1>2. ASSUME NEW n \in Names, Change(n) PROVE Answered'
  BY <1>2, ChangeAnswered
<1>3. ASSUME NEW r \in Replicas, Watch(r) \/ Restart(r) PROVE Answered'
  BY <1>3, WatchAnswered, RestartAnswered
<1>4. ASSUME NEW w \in Workers, Worker(w) PROVE Answered'
  BY <1>4, RecvAnswered, ListAnswered, PatchSpecAnswered, PatchStatusAnswered, FailingAnswered,
     FinishAnswered, MarkStatusAnswered DEF Worker
<1> QED
  BY <1>1, <1>2, <1>3, <1>4, Steps

LEMMA AnsweredInvariant == Spec => []Answered
BY InitAnswered, AnsweredStep, QueueInvariant, PTL DEF Spec

\* Every stale ResolvedCloudRoleBinding has one of the five reasons, for any
\* number of replicas and workers that write it without waiting for one another
\* (reconcile), and whatever requests fail and processes restart.
THEOREM StaleExplained == Spec => []StaleIsExplained
BY AnsweredInvariant, AnsweredSuffices, PTL

(***************************************************************************)
(* Why one replica leaves no torn object: its one worker on a service      *)
(* account writes both parts, unless it fails or its process ends.         *)
(***************************************************************************)
Excused(r, k) == lost[r][k] \intersect {"failed", "offline", "ended"} # {}

WholeAgain(r, k) ==
  \/ Excused(r, k)
  \/ BeingServed(r, k)
  \/ Announced(r, k) /\ \A w \in Staff(r) : ~Holds(w, k)

Whole(r, k) ==
  /\ \A w \in Staff(r) : Patching(k, w) => resolved[k].spec = Outcome(listed[w]).spec
  /\ Torn(k) => WholeAgain(r, k)

AloneWhole == \A r \in Replicas, k \in Keys : Running = {r} => Whole(r, k)

LEMMA AloneWholeSuffices == AloneWhole => TornIsExplained
BY DEF AloneWhole, Whole, WholeAgain, Excused, TornIsExplained

LEMMA InitAloneWhole == Init => AloneWhole
BY DEF Init, AloneWhole, Whole, Patching, Torn, Staff

\* Steps that touch no worker and no object.
LEMMA QuietWhole ==
  ASSUME Types, AloneWhole, home' = home, current' = current, pc' = pc, listed' = listed,
         resolved' = resolved, \A r \in Running, k \in Keys : StillSees(r, k)
  PROVE  AloneWhole'
<1> SUFFICES ASSUME NEW r \in Replicas, NEW k \in Keys, Running' = {r} PROVE Whole(r, k)'
  BY DEF AloneWhole
<1>1. Running = {r} /\ Whole(r, k) /\ StillSees(r, k) /\ Staff(r)' = Staff(r)
  BY DEF Running, AloneWhole, Staff
<1>2. /\ \A w \in Staff(r) : Patching(k, w)' <=> Patching(k, w)
      /\ \A w \in Staff(r) : Holds(w, k)' <=> Holds(w, k)
      /\ BeingServed(r, k)' <=> BeingServed(r, k)
      /\ Torn(k)' <=> Torn(k)
  BY <1>1 DEF Patching, Holds, BeingServed, Torn
<1>3. Excused(r, k) => Excused(r, k)'
  BY <1>1 DEF Excused, StillSees
<1>4. WholeAgain(r, k) => WholeAgain(r, k)'
  BY <1>1, <1>2, <1>3 DEF WholeAgain, StillSees
<1> QED
  BY <1>1, <1>2, <1>4 DEF Whole

\* A step of worker w leaves the other service accounts alone.
LEMMA WholeElsewhere ==
  ASSUME NEW w \in Workers, NEW r \in Replicas, NEW k \in Keys,
         UNCHANGED <<home, events, replay, sending>>, resolved'[k] = resolved[k],
         \A v \in Workers : v # w =>
           current'[v] = current[v] /\ pc'[v] = pc[v] /\ listed'[v] = listed[v],
         current[w] # k, current'[w] # k,
         lost[r][k] \subseteq lost'[r][k],
         k \in Range(chan[r]) => k \in Range(chan'[r]),
         Whole(r, k)
  PROVE  Whole(r, k)'
<1>1. Staff(r)' = Staff(r)
  BY DEF Staff
<1>2. \A v \in Staff(r) :
        \/ v \in Workers /\ v # w /\ current'[v] = current[v] /\ pc'[v] = pc[v] /\ listed'[v] = listed[v]
        \/ current[v] # k /\ current'[v] # k
  BY DEF Staff
<1>3. Announced(r, k) => Announced(r, k)'
  BY <1>1, <1>2 DEF Announced
<1>4. /\ \A v \in Staff(r) : Patching(k, v)' => Patching(k, v) /\ listed'[v] = listed[v]
      /\ \A v \in Staff(r) : Holds(v, k)' <=> Holds(v, k)
      /\ BeingServed(r, k) => BeingServed(r, k)'
      /\ Torn(k)' <=> Torn(k)
  BY <1>1, <1>2 DEF Patching, Holds, BeingServed, Torn
<1>5. Excused(r, k) => Excused(r, k)'
  BY DEF Excused
<1>6. WholeAgain(r, k) => WholeAgain(r, k)'
  BY <1>1, <1>3, <1>4, <1>5 DEF WholeAgain
<1> QED
  BY <1>1, <1>4, <1>6 DEF Whole

\* A replica has one worker on a service account.
LEMMA OneWorker ==
  ASSUME QInv, NEW w \in Workers, NEW v \in Workers, home[v] = home[w],
         current[w] # NoKey, current[v] = current[w]
  PROVE  v = w
<1>1. home[w] \in Replicas /\ v \in Staff(home[w]) /\ w \in Staff(home[w])
  BY DEF QInv, Types, Staff
<1> QED
  BY <1>1 DEF QInv, QueueInv

LEMMA RecvWhole ==
  ASSUME QInv, QInv', AloneWhole, NEW w \in Workers, Recv(w)
  PROVE  AloneWhole'
<1> SUFFICES ASSUME NEW r \in Replicas, NEW k \in Keys, Running' = {r} PROVE Whole(r, k)'
  BY DEF AloneWhole
<1>1. Types /\ UNCHANGED <<home, crb, resolved, events, replay, sending, listed, lost>>
  BY DEF Recv, server, QInv
<1>2. Running = {r} /\ Whole(r, k) /\ home[w] = r /\ Staff(r)' = Staff(r) /\ w \in Staff(r)
  BY <1>1, RunningReplicas DEF Running, AloneWhole, Staff
<1>3. chan[r] \in Seq(Keys) /\ chan[r] # <<>>
  BY <1>1, <1>2 DEF Recv, Types
<1>4. PICK j \in Keys : j = Head(chan[r]) /\ Range(chan[r]) = Range(Tail(chan[r])) \union {j}
  BY <1>3, TakeHead
<1>5. /\ chan' = [chan EXCEPT ![r] = Tail(chan[r])]
      /\ current' = [current EXCEPT ![w] = j] /\ pc' = [pc EXCEPT ![w] = "list"]
      /\ current[w] = NoKey
  BY <1>1, <1>2, <1>4 DEF Recv, Goto, At, Types
<1>6. /\ current'[w] = j /\ pc'[w] = "list"
      /\ \A v \in Workers : v # w => current'[v] = current[v] /\ pc'[v] = pc[v] /\ listed'[v] = listed[v]
  BY <1>1, <1>5 DEF Types
<1>7. CASE k # j
  <2>1. k \in Range(chan[r]) => k \in Range(chan'[r])
    BY <1>1, <1>4, <1>5, <1>7 DEF Types
  <2> QED
    BY <1>1, <1>2, <1>5, <1>6, <1>7, <2>1, WholeElsewhere, QueueAssumption
<1>8. CASE k = j
  <2>1. Announced(r, k)'
    BY <1>2, <1>6, <1>8 DEF Announced
  <2>2. \A v \in Staff(r) : v # w => current'[v] # k
    BY <1>1, <1>2, <1>6, <1>8, QueueAssumption DEF QInv, QueueInv
  <2>3. \A v \in Staff(r) : ~Holds(v, k)' /\ ~Patching(k, v)'
    BY <1>6, <2>2 DEF Holds, Patching
  <2> QED
    BY <1>2, <2>1, <2>3 DEF Whole, WholeAgain
<1> QED
  BY <1>7, <1>8

\* The steps of a worker that has a key and keeps it.
LEMMA ServingWhole ==
  ASSUME QInv, QInv', AloneWhole, NEW w \in Workers,
         \/ List(w) \/ PatchSpec(w) \/ PatchStatus(w) \/ Fail(w)
         \/ \E n \in Names : MarkRefused(w, n)
  PROVE  AloneWhole'
<1> SUFFICES ASSUME NEW r \in Replicas, NEW k \in Keys, Running' = {r} PROVE Whole(r, k)'
  BY DEF AloneWhole
<1>1. /\ Types /\ UNCHANGED <<home, crb, events, replay, sending, chan, current>>
      /\ pc[w] \in {"list", "mark", "patch"}
  BY DEF List, PatchSpec, PatchStatus, Fail, MarkRefused, At, server, queue, QInv
<1>2. Running = {r} /\ Whole(r, k) /\ home[w] = r /\ Staff(r)' = Staff(r) /\ w \in Staff(r)
  BY <1>1, RunningReplicas DEF Running, AloneWhole, Staff
<1>3. current[w] \in Keys /\ current[w] # NoKey
  BY <1>1, QueueAssumption DEF Types
<1>4. \A v \in Workers : v # w => pc'[v] = pc[v] /\ listed'[v] = listed[v]
  BY <1>1 DEF List, PatchSpec, PatchStatus, Fail, MarkRefused, Goto, Types
<1>5. CASE k # current[w]
  <2>1. resolved'[k] = resolved[k]
    BY <1>1, <1>5 DEF List, PatchSpec, PatchStatus, Fail, MarkRefused, server, Types
  <2>2. lost[r][k] \subseteq lost'[r][k]
    <3>1. CASE List(w)
      BY <1>1, <1>2, <1>3, <1>5, <3>1 DEF List, Types
    <3>2. CASE PatchSpec(w) \/ PatchStatus(w)
      BY <3>2 DEF PatchSpec, PatchStatus
    <3>3. CASE Lose(home[w], current[w], "failed")
      BY <1>1, <1>2, <1>3, <1>5, <3>3 DEF Lose, Types
    <3> QED
      BY <3>1, <3>2, <3>3 DEF Fail, MarkRefused
  <2> QED
    BY <1>1, <1>2, <1>4, <1>5, <2>1, <2>2, WholeElsewhere
<1>6. CASE k = current[w]
  <2>1. \A v \in Staff(r) : v # w => ~Patching(k, v)'
    BY <1>1, <1>2, <1>3, <1>6, OneWorker DEF Patching, Staff
  <2>2. CASE List(w)
    <3>1. pc'[w] = "mark"
      BY <1>1, <2>2 DEF List, Goto, Types
    <3> QED
      BY <1>1, <1>2, <1>6, <2>1, <3>1 DEF Whole, WholeAgain, BeingServed, Patching
  <2>3. CASE PatchSpec(w)
    <3>1. pc'[w] = "patch" /\ listed'[w] = listed[w] /\ resolved'[k].spec = Outcome(listed[w]).spec
      BY <1>1, <1>6, <2>3 DEF PatchSpec, Goto, Types
    <3> QED
      BY <1>1, <1>2, <1>6, <2>1, <3>1 DEF Whole, WholeAgain, BeingServed, Patching
  <2>4. CASE PatchStatus(w)
    <3>1. /\ pc'[w] = "done" /\ listed'[w] = listed[w]
          /\ resolved'[k] = [resolved[k] EXCEPT !.status = Outcome(listed[w]).status]
      BY <1>1, <1>6, <2>4 DEF PatchStatus, Goto, Types
    <3>2. resolved[k].spec = Outcome(listed[w]).spec
      BY <1>2, <1>6, <2>4 DEF PatchStatus, At, Whole, Patching
    <3>3. resolved[k] = [spec |-> resolved[k].spec, status |-> resolved[k].status]
      BY <1>1 DEF Types
    <3>4. resolved'[k] = Outcome(listed[w])
      BY <3>1, <3>2, <3>3, OutcomeParts
    <3>5. ~Torn(k)'
      BY <1>1, <3>4 DEF Torn, Outcomes, Types
    <3> QED
      BY <1>2, <2>1, <3>1, <3>5 DEF Whole, Patching
  <2>5. CASE Fail(w) \/ \E n \in Names : MarkRefused(w, n)
    <3>1. pc'[w] = "done" /\ Lose(home[w], current[w], "failed")
      BY <1>1, <2>5 DEF Fail, MarkRefused, Goto, Types
    <3>2. "failed" \in lost'[r][k]
      BY <1>1, <1>2, <1>6, <3>1 DEF Lose, Types
    <3> QED
      BY <1>2, <2>1, <3>1, <3>2 DEF Whole, WholeAgain, Excused, Patching
  <2> QED
    BY <2>2, <2>3, <2>4, <2>5
<1> QED
  BY <1>5, <1>6

\* A worker that is done with an object that is torn has failed.
LEMMA FinishWhole ==
  ASSUME QInv, QInv', AloneWhole, NEW w \in Workers, Finish(w)
  PROVE  AloneWhole'
<1> SUFFICES ASSUME NEW r \in Replicas, NEW k \in Keys, Running' = {r} PROVE Whole(r, k)'
  BY DEF AloneWhole
<1>1. /\ Types /\ UNCHANGED <<home, crb, resolved, events, replay, sending, chan, lost>>
      /\ pc[w] = "done" /\ current'[w] = NoKey
      /\ \A v \in Workers : v # w => current'[v] = current[v] /\ pc'[v] = pc[v] /\ listed'[v] = listed[v]
  BY DEF Finish, At, Goto, server, QInv, Types
<1>2. Running = {r} /\ Whole(r, k) /\ home[w] = r /\ Staff(r)' = Staff(r) /\ w \in Staff(r)
  BY <1>1, RunningReplicas DEF Running, AloneWhole, Staff
<1>3. current[w] \in Keys /\ current[w] # NoKey
  BY <1>1, QueueAssumption DEF Types
<1>4. CASE k # current[w]
  BY <1>1, <1>2, <1>4, QueueAssumption, WholeElsewhere
<1>5. CASE k = current[w]
  <2>1. \A v \in Staff(r) : v # w => current[v] # k
    BY <1>2, <1>3, <1>5, OneWorker DEF Staff
  <2>2. \A v \in Staff(r) : ~Patching(k, v)'
    BY <1>1, <1>2, <2>1, QueueAssumption DEF Patching, Staff
  <2>3. Torn(k) => Excused(r, k)
    <3>1. Holds(w, k)
      BY <1>1, <1>5 DEF Holds
    <3>2. ~BeingServed(r, k)
      BY <1>1, <2>1 DEF BeingServed
    <3> QED
      BY <1>2, <3>1, <3>2 DEF Whole, WholeAgain
  <2> QED
    BY <1>1, <1>2, <2>2, <2>3 DEF Whole, WholeAgain, Excused, Torn
<1> QED
  BY <1>4, <1>5

\* The process ends: its successor is told of every service account that has
\* bindings, and of the others the model notes what was under way.
LEMMA RestartWhole ==
  ASSUME QInv, QInv', AloneWhole, NEW s \in Replicas, Restart(s)
  PROVE  AloneWhole'
<1> SUFFICES ASSUME NEW r \in Replicas, NEW k \in Keys, Running' = {r} PROVE Whole(r, k)'
  BY DEF AloneWhole
<1>1. Types /\ home' = home /\ resolved' = resolved /\ s \in Running
  BY DEF Restart, Reset, QInv
<1>2. Running = {r} /\ Whole(r, k) /\ s = r /\ Staff(r)' = Staff(r)
  BY <1>1 DEF Running, AloneWhole, Staff
<1>3. \A w \in Staff(r) : pc'[w] = "idle"
  BY <1>2 DEF Restart, Reset, Staff
<1>4. \A w \in Staff(r) : ~Patching(k, w)' /\ ~Holds(w, k)'
  BY <1>3 DEF Patching, Holds
<1>5. lost'[r][k] = IF View(k) = NoBindings /\ (Announced(r, k) \/ BeingServed(r, k))
                    THEN lost[r][k] \union {Unseen(r, k)} ELSE lost[r][k]
  BY <1>1, <1>2, RestartLoses
<1>6. ASSUME Torn(k) PROVE WholeAgain(r, k)'
  <2>1. CASE View(k) # NoBindings
    BY <1>2, <1>1, <1>4, <2>1, RestartReplays DEF WholeAgain
  <2>2. CASE View(k) = NoBindings
    <3>1. Excused(r, k) \/ Unseen(r, k) \in lost'[r][k]
      BY <1>2, <1>5, <1>6, <2>2 DEF Whole, WholeAgain
    <3> QED
      BY <1>5, <3>1 DEF WholeAgain, Excused, Unseen
  <2> QED
    BY <2>1, <2>2
<1> QED
  BY <1>1, <1>2, <1>4, <1>6 DEF Whole, Torn

LEMMA AloneWholeStep == Answered /\ QInv' /\ AloneWhole /\ [Next]_vars => AloneWhole'
<1> SUFFICES ASSUME Answered, QInv', AloneWhole, [Next]_vars PROVE AloneWhole'
  OBVIOUS
<1>0. QInv /\ Types
  BY DEF Answered, QInv
<1>1. CASE UNCHANGED vars
  <2>1. home' = home /\ resolved' = resolved /\ current' = current /\ pc' = pc /\ listed' = listed
    BY <1>1 DEF vars, server, queue, worker
  <2>2. \A r \in Running, k \in Keys : StillSees(r, k)
    BY <1>1 DEF vars, server, queue, worker, StillSees, Announced, Staff
  <2> QED
    BY <1>0, <2>1, <2>2, QuietWhole
<1>2. ASSUME NEW n \in Names, Change(n) PROVE AloneWhole'
  <2>1. home' = home /\ resolved' = resolved /\ current' = current /\ pc' = pc /\ listed' = listed
    BY <1>2 DEF Change, Create, Update, Delete, queue
  <2> QED
    BY <1>0, <1>2, <2>1, ChangeSeen, QuietWhole
<1>3. ASSUME NEW r \in Replicas, Watch(r) PROVE AloneWhole'
  BY <1>0, <1>3, WatchTold, QuietWhole
<1>4. ASSUME NEW w \in Workers, NEW n \in Names, MarkStatus(w, n) PROVE AloneWhole'
  BY <1>0, <1>4, MarkStatusTold, MarkStatusSeen, QuietWhole
<1>5. ASSUME NEW w \in Workers, Worker(w) PROVE AloneWhole'
  BY <1>0, <1>4, <1>5, RecvWhole, ServingWhole, FinishWhole DEF Worker
<1>6. ASSUME NEW r \in Replicas, Restart(r) PROVE AloneWhole'
  BY <1>0, <1>6, RestartWhole
<1> QED
  BY <1>1, <1>2, <1>3, <1>5, <1>6, Steps

\* One replica, whatever its workers interleave and its watch drops, leaves the
\* two parts of an object (upsert_resolved) of one merge, unless a request failed
\* or the process ended, for any number of workers and service accounts.
THEOREM TornExplained == Spec => []TornIsExplained
BY AnsweredInvariant, QueueInvariant, InitAloneWhole, AloneWholeStep, AloneWholeSuffices, PTL DEF Spec

(***************************************************************************)
(* The same of the statuses of the bindings.  A status is written by a     *)
(* worker on the binding's service account only, for as long as nobody     *)
(* wrote the binding since; and a write that changes it is announced.      *)
(***************************************************************************)
\* Worker w has yet to write the status of binding n.
Marks(w, k, n) == current[w] = k /\ pc[w] = "mark" /\ n \in todo[w]

\* Worker w wrote the status of n, or will, unless it may not or failed.
Settles(w, k, n) ==
  \/ Marks(w, k, n)
  \/ n \notin intact[w]
  \/ crb[n].status = CrbStatus(listed[w])
  \/ lost[home[w]][k] # {}

\* Some replica r answers for the status of a binding that is to be marked.
Minds(r, k, n) ==
  \/ lost[r][k] # {}
  \/ Announced(r, k)
  \/ crb[n].status = CrbStatus(View(k))
  \/ \E w \in Staff(r) : Marks(w, k, n)

Owned == \A w \in Workers : \A n \in intact[w] : crb[n].subject = current[w]

MarksSettled ==
  \A w \in Workers, k \in Keys :
    Holds(w, k) => \A n \in Marked(listed[w]) : Settles(w, k, n)

Minded ==
  \A k \in Keys : \A n \in Marked(View(k)) : \E r \in Running : Minds(r, k, n)

StatusAnswered == Answered /\ Owned /\ MarksSettled /\ Minded

LEMMA MarkedBindings ==
  ASSUME Types, NEW k \in Keys, NEW n \in Marked(View(k))
  PROVE  n \in Names /\ crb[n] # Absent /\ crb[n].subject = k /\ n \in DOMAIN View(k)
<1>1. n \in DOMAIN View(k)
  BY DEF Marked
<1>2. View(k) = [m \in {p \in Names : crb[p] # Absent /\ crb[p].subject = k} |-> crb[m].spec]
  BY DEF View
<1> QED
  BY <1>1, <1>2

LEMMA StatusAnsweredSuffices == StatusAnswered => StatusIsExplained
<1> SUFFICES ASSUME StatusAnswered, NEW k \in Keys, ~StatusReflects(k)
             PROVE  \E r \in Replicas : Explained(r, k)
  BY DEF StatusIsExplained
<1>1. PICK n \in Marked(View(k)) : crb[n].status # CrbStatus(View(k))
  BY DEF StatusReflects
<1>2. PICK r \in Running : Minds(r, k, n)
  BY DEF StatusAnswered, Minded
<1>3. r \in Replicas
  BY RunningReplicas DEF StatusAnswered, Answered, QInv
<1>4. (\E w \in Staff(r) : Marks(w, k, n)) => BeingServed(r, k)
  BY DEF Marks, BeingServed
<1> QED
  BY <1>1, <1>2, <1>3, <1>4 DEF Minds, Explained

LEMMA InitStatusAnswered == Init => StatusAnswered
<1> SUFFICES ASSUME Init PROVE StatusAnswered
  OBVIOUS
<1>1. Answered /\ Types
  BY InitAnswered DEF Answered, QInv
<1>2. \A k \in Keys : Marked(View(k)) = {}
  BY <1>1, MarkedBindings DEF Init
<1> QED
  BY <1>1, <1>2 DEF StatusAnswered, Owned, MarksSettled, Minded, Holds, Init

\* Steps that touch no worker, seen from the bindings whose views stay.
LEMMA QuietMinded ==
  ASSUME StatusAnswered, home' = home, current' = current, pc' = pc,
         \A r \in Running, k \in Keys : Told(r, k),
         \A w \in Workers, k \in Keys, n \in Names :
           Marks(w, k, n) => \/ Marks(w, k, n)'
                             \/ k \in Range(events'[home[w]])
                             \/ lost'[home[w]][k] # {}
                             \/ listed[w] = View(k) /\ crb[n].status = CrbStatus(listed[w])
  PROVE  Minded'
<1> SUFFICES ASSUME NEW k \in Keys, NEW n \in Marked(View(k))'
             PROVE  \E r \in Running : Minds(r, k, n)'
  BY DEF Minded, Running
<1>1. CASE \E r \in Running : lost'[r][k] # {} \/ Announced(r, k)'
  BY <1>1 DEF Minds
<1>2. CASE \A r \in Running : lost'[r][k] = {} /\ ~Announced(r, k)'
  <2>1. \A r \in Running : k \notin Range(events'[r])
    BY <1>2 DEF Announced
  <2>2. ASSUME NEW r \in Running
        PROVE  /\ lost[r][k] = {} /\ Kept(k)
               /\ Announced(r, k) => \E w \in Staff(r) : Holds(w, k) /\ UpToDate(w)
    BY <1>2, <2>1 DEF Told
  <2>3. Types /\ Running # {} /\ \A w \in Workers : home[w] \in Running
    BY RunningReplicas DEF StatusAnswered, Answered, QInv
  <2>4. Kept(k)
    BY <2>2, <2>3
  <2>5. n \in Marked(View(k)) /\ n \in DOMAIN View(k) /\ n \in Names
    <3>1. n \in Marked(View(k))
      BY <2>4 DEF Kept
    <3> QED
      BY <2>3, <3>1, MarkedBindings
  <2>6. PICK r \in Running : Minds(r, k, n)
    BY <2>5 DEF StatusAnswered, Minded
  <2>7. ASSUME crb[n].status = CrbStatus(View(k)) PROVE Minds(r, k, n)'
    BY <2>4, <2>5, <2>7 DEF Kept, Minds
  <2>8. ASSUME NEW w \in Staff(r), Marks(w, k, n) PROVE Minds(r, k, n)'
    <3>1. w \in Workers /\ home[w] = r /\ w \in Staff(r)'
      BY DEF Staff
    <3>2. \/ Marks(w, k, n)'
          \/ listed[w] = View(k) /\ crb[n].status = CrbStatus(listed[w])
      BY <1>2, <2>1, <2>5, <2>8, <3>1
    <3> QED
      BY <2>7, <3>1, <3>2 DEF Minds
  <2>9. ASSUME Announced(r, k) PROVE Minds(r, k, n)'
    <3>1. PICK w \in Staff(r) : Holds(w, k) /\ UpToDate(w)
      BY <2>2, <2>9
    <3>2. w \in Workers /\ home[w] = r /\ listed[w] = View(k) /\ intact[w] = DOMAIN View(k)
      BY <3>1 DEF Staff, Holds, UpToDate
    <3>3. Settles(w, k, n)
      BY <2>5, <3>1, <3>2 DEF StatusAnswered, MarksSettled
    <3>4. Marks(w, k, n) \/ crb[n].status = CrbStatus(View(k))
      BY <2>2, <2>5, <3>2, <3>3 DEF Settles
    <3> QED
      BY <2>7, <2>8, <3>4
  <2> QED
    BY <2>2, <2>6, <2>7, <2>8, <2>9 DEF Minds
<1> QED
  BY <1>1, <1>2

LEMMA QuietStatus ==
  ASSUME StatusAnswered, Answered', home' = home, current' = current, pc' = pc,
         todo' = todo, listed' = listed,
         \A r \in Running, k \in Keys : Told(r, k),
         \A w \in Workers : /\ intact'[w] \subseteq intact[w]
                            /\ \A n \in intact'[w] : crb'[n] = crb[n]
  PROVE  StatusAnswered'
<1>1. Types /\ \A w \in Workers : home[w] \in Running
  BY RunningReplicas DEF StatusAnswered, Answered, QInv
<1>2. Owned'
  BY DEF StatusAnswered, Owned
<1>3. MarksSettled'
  <2> SUFFICES ASSUME NEW w \in Workers, NEW k \in Keys, Holds(w, k)', NEW n \in Marked(listed'[w])
               PROVE  Settles(w, k, n)'
    BY DEF MarksSettled
  <2>1. Settles(w, k, n)
    BY DEF StatusAnswered, MarksSettled, Holds
  <2>2. lost[home[w]][k] # {} => lost'[home[w]][k] # {}
    BY <1>1 DEF Told
  <2> QED
    BY <2>1, <2>2 DEF Settles, Marks
<1>4. Minded'
  BY QuietMinded DEF Marks
<1> QED
  BY <1>2, <1>3, <1>4 DEF StatusAnswered

LEMMA ChangeStatus ==
  ASSUME StatusAnswered, Answered', NEW n \in Names, Change(n)
  PROVE  StatusAnswered'
<1>1. /\ home' = home /\ current' = current /\ pc' = pc /\ todo' = todo /\ listed' = listed
      /\ Outdate(n, {})
  BY DEF Change, Create, Update, Delete, queue
<1>2. Types
  BY DEF StatusAnswered, Answered, QInv
<1>3. \A r \in Running, k \in Keys : Told(r, k)
  BY <1>2, ChangeTold
<1>4. \A w \in Workers : /\ intact'[w] \subseteq intact[w]
                         /\ \A m \in intact'[w] : crb'[m] = crb[m]
  <2>1. \A w \in Workers : intact'[w] = intact[w] \ {n} /\ intact[w] \subseteq Names
    BY <1>1, <1>2 DEF Outdate, Types
  <2> QED
    BY <1>2, <2>1, ChangeCrb
<1> QED
  BY <1>1, <1>3, <1>4, QuietStatus

LEMMA WatchStatus ==
  ASSUME StatusAnswered, Answered', NEW r \in Replicas, Watch(r)
  PROVE  StatusAnswered'
BY WatchTold, QuietStatus DEF StatusAnswered

LEMMA MarkStatusStatus ==
  ASSUME StatusAnswered, Answered', NEW w \in Workers, NEW n \in Names, MarkStatus(w, n)
  PROVE  StatusAnswered'
<1>1. Types /\ Answered /\ \A v \in Workers : home[v] \in Running /\ home[v] \in Replicas
  BY RunningReplicas DEF StatusAnswered, Answered, QInv
<1>2. /\ \A r \in Running, k \in Keys : Told(r, k)
      /\ home' = home /\ current' = current /\ pc' = pc /\ listed' = listed /\ lost' = lost
  BY <1>1, MarkStatusTold
<1>3. /\ pc[w] = "mark" /\ n \in intact[w]
      /\ todo' = [todo EXCEPT ![w] = todo[w] \ {n}]
      /\ \/ /\ crb' = [crb EXCEPT ![n].status = CrbStatus(listed[w])]
            /\ Outdate(n, {w})
         \/ /\ crb' = crb /\ crb[n].status = CrbStatus(listed[w])
            /\ Outdate(n, {w}) \/ intact' = intact
  BY DEF MarkStatus, At
<1>4. /\ crb[n] \in Crb
      /\ crb'[n].subject = crb[n].subject /\ crb'[n].status = CrbStatus(listed[w])
      /\ \A m \in Names : m # n => crb'[m] = crb[m]
  <2>1. crb[n] \in Crb
    BY <1>1, <1>3 DEF Types
  <2> QED
    BY <1>1, <1>3, <2>1 DEF Types, Crb
<1>5. /\ \A v \in Workers : intact'[v] \subseteq intact[v] /\ intact'[v] \subseteq Names
      /\ intact'[w] = intact[w]
      /\ \A v \in Workers : v # w /\ n \in intact'[v] => crb' = crb
  <2>0. intact \in [Workers -> SUBSET Names]
    BY <1>1 DEF Types
  <2>1. CASE Outdate(n, {w})
    <3>1. \A v \in Workers : intact'[v] = IF v = w THEN intact[v] ELSE intact[v] \ {n}
      BY <2>1 DEF Outdate
    <3> QED
      BY <2>0, <3>1
  <2>2. CASE intact' = intact /\ crb' = crb
    BY <2>0, <2>2
  <2> QED
    BY <1>3, <2>1, <2>2
<1>6. \A v \in Workers, k \in Keys, m \in Names :
        Marks(v, k, m) => Marks(v, k, m)' \/ (v = w /\ m = n)
  BY <1>1, <1>2, <1>3 DEF Marks, Types
<1>7. Owned'
  <2> SUFFICES ASSUME NEW v \in Workers, NEW m \in intact'[v] PROVE crb'[m].subject = current[v]
    BY <1>2 DEF Owned
  <2>1. m \in Names /\ crb[m].subject = current[v]
    BY <1>5 DEF StatusAnswered, Owned
  <2> QED
    BY <1>4, <2>1
<1>8. MarksSettled'
  <2> SUFFICES ASSUME NEW v \in Workers, NEW k \in Keys, Holds(v, k), NEW m \in Marked(listed[v])
               PROVE  Settles(v, k, m)'
    BY <1>2 DEF MarksSettled, Holds
  <2>1. Settles(v, k, m)
    BY DEF StatusAnswered, MarksSettled
  <2>2. CASE m = n /\ v = w
    BY <1>2, <1>4, <2>2 DEF Settles
  <2>3. CASE m = n /\ v # w
    <3>1. m \in Names /\ (m \in intact'[v] => crb' = crb /\ m \in intact[v])
      BY <1>5, <2>3
    <3> QED
      BY <1>2, <1>6, <2>1, <2>3, <3>1 DEF Settles
  <2>4. CASE m # n
    <3>1. m \in Names \/ m \notin intact'[v]
      BY <1>5
    <3> QED
      BY <1>2, <1>4, <1>5, <1>6, <2>1, <2>4, <3>1 DEF Settles
  <2> QED
    BY <2>2, <2>3, <2>4
<1>9. Minded'
  <2>1. ASSUME NEW v \in Workers, NEW k \in Keys, NEW m \in Names, Marks(v, k, m)
        PROVE  \/ Marks(v, k, m)'
               \/ k \in Range(events'[home[v]])
               \/ lost'[home[v]][k] # {}
               \/ listed[v] = View(k) /\ crb[m].status = CrbStatus(listed[v])
    <3>1. CASE v = w /\ m = n
      <4>1. current[w] = k /\ crb[n].subject = k /\ Holds(w, k)
        BY <1>3, <2>1, <3>1 DEF Marks, StatusAnswered, Owned, Holds
      <4>2. Heard(w, k)
        BY <1>1, <4>1 DEF Answered
      <4>3. Range(events[home[w]]) \subseteq Range(events'[home[w]])
        BY <1>1, MarkStatusKeepsTypes
      <4>4. crb[n].status = CrbStatus(listed[w]) \/ k \in Range(events'[home[w]])
        <5>1. crb[n].status = CrbStatus(listed[w]) \/ Announce(k)
          BY <4>1 DEF MarkStatus
        <5> QED
          BY <1>1, <5>1, AnnounceType
      <4> QED
        BY <1>2, <3>1, <4>2, <4>3, <4>4 DEF Heard
    <3> QED
      BY <1>6, <2>1, <3>1
  <2> QED
    BY <1>2, <2>1, QuietMinded
<1> QED
  BY <1>7, <1>8, <1>9 DEF StatusAnswered

\* A step of worker w, seen from the statuses.
LEMMA WorkerStatus ==
  ASSUME StatusAnswered, Answered', NEW w \in Workers,
         UNCHANGED <<home, crb>>,
         \A v \in Workers : v # w =>
           /\ current'[v] = current[v] /\ pc'[v] = pc[v] /\ listed'[v] = listed[v]
           /\ todo'[v] = todo[v] /\ intact'[v] = intact[v],
         \A v \in Workers, j \in Keys :
           v # w /\ Holds(v, j) => lost[home[v]][j] \subseteq lost'[home[v]][j],
         \A n \in intact'[w] : crb[n].subject = current'[w],
         \A j \in Keys, n \in Names :
           Holds(w, j)' /\ n \in Marked(listed'[w]) => Settles(w, j, n)',
         \A j \in Keys, n \in Names, r \in Running :
           n \in Marked(View(j)) /\ Minds(r, j, n) => \E s \in Running : Minds(s, j, n)'
  PROVE  StatusAnswered'
<1>1. Types /\ Types'
  BY DEF StatusAnswered, Answered, QInv
<1>2. Owned'
  BY DEF StatusAnswered, Owned
<1>3. MarksSettled'
  <2> SUFFICES ASSUME NEW v \in Workers, NEW k \in Keys, Holds(v, k)', NEW n \in Marked(listed'[v])
               PROVE  Settles(v, k, n)'
    BY DEF MarksSettled
  <2>1. CASE v = w
    <3>1. listed'[w] \in Inputs
      BY <1>1 DEF Types
    <3>2. n \in Names
      BY <2>1, <3>1 DEF Marked, Inputs
    <3> QED
      BY <2>1, <3>2
  <2>2. CASE v # w
    <3>1. Settles(v, k, n) /\ lost[home[v]][k] \subseteq lost'[home[v]][k]
      BY <2>2 DEF StatusAnswered, MarksSettled, Holds
    <3> QED
      BY <2>2, <3>1 DEF Settles, Marks
  <2> QED
    BY <2>1, <2>2
<1>4. Minded'
  <2> SUFFICES ASSUME NEW k \in Keys, NEW n \in Marked(View(k))'
               PROVE  \E r \in Running : Minds(r, k, n)'
    BY DEF Minded, Running
  <2>1. n \in Marked(View(k))
    BY DEF View
  <2>2. n \in Names
    BY <1>1, <2>1, MarkedBindings
  <2> QED
    BY <2>1, <2>2 DEF StatusAnswered, Minded
<1> QED
  BY <1>2, <1>3, <1>4 DEF StatusAnswered

\* An answer for a binding's status, when worker w does something else.
LEMMA MindsStays ==
  ASSUME NEW w \in Workers, NEW r \in Replicas, NEW k \in Keys, NEW n \in Names,
         UNCHANGED <<home, crb, events, replay, sending>>,
         \A v \in Workers : v # w =>
           current'[v] = current[v] /\ pc'[v] = pc[v] /\ todo'[v] = todo[v],
         home[w] # r \/ (~Marks(w, k, n) /\ (current[w] = k /\ pc[w] = "list"
                                              => current'[w] = k /\ pc'[w] = "list")),
         lost[r][k] \subseteq lost'[r][k],
         k \in Range(chan[r]) =>
           \/ k \in Range(chan'[r])
           \/ (home[w] = r /\ current'[w] = k /\ pc'[w] = "list"),
         Minds(r, k, n)
  PROVE  Minds(r, k, n)'
<1>1. Staff(r)' = Staff(r) /\ View(k)' = View(k) /\ \A v \in Staff(r) : v \in Workers /\ home[v] = r
  BY DEF Staff, View
<1>2. Announced(r, k) => Announced(r, k)'
  <2>1. ASSUME home[w] = r, current'[w] = k, pc'[w] = "list" PROVE Announced(r, k)'
    BY <2>1 DEF Announced, Staff
  <2>2. ASSUME NEW v \in Staff(r), current[v] = k, pc[v] = "list" PROVE Announced(r, k)'
    <3>1. current'[v] = k /\ pc'[v] = "list"
      BY <1>1, <2>2
    <3> QED
      BY <1>1, <3>1 DEF Announced
  <2> QED
    BY <2>1, <2>2 DEF Announced
<1>3. \A v \in Staff(r) : Marks(v, k, n) => Marks(v, k, n)'
  BY <1>1 DEF Marks
<1> QED
  BY <1>1, <1>2, <1>3 DEF Minds

LEMMA RecvStatus ==
  ASSUME StatusAnswered, Answered', NEW w \in Workers, Recv(w)
  PROVE  StatusAnswered'
<1>1. Types /\ Running \subseteq Replicas
  BY RunningReplicas DEF StatusAnswered, Answered, QInv
<1>2. /\ UNCHANGED <<home, crb, resolved, events, replay, sending, listed, todo, intact, lost>>
      /\ pc[w] = "idle" /\ current[w] = NoKey
  BY <1>1 DEF Recv, server, At, Types
<1>3. PICK r \in Replicas : r = home[w] /\ chan[r] \in Seq(Keys) /\ chan[r] # <<>>
  BY <1>1 DEF Recv, Types
<1>4. PICK k \in Keys : k = Head(chan[r]) /\ Range(chan[r]) = Range(Tail(chan[r])) \union {k}
  BY <1>3, TakeHead
<1>5. /\ chan' = [chan EXCEPT ![r] = Tail(chan[r])]
      /\ current'[w] = k /\ pc'[w] = "list"
      /\ \A v \in Workers : v # w => current'[v] = current[v] /\ pc'[v] = pc[v]
  BY <1>1, <1>3, <1>4 DEF Recv, Goto, Types
<1>6. \A s \in Running, j \in Keys : j \in Range(chan[s]) =>
        \/ j \in Range(chan'[s])
        \/ (home[w] = s /\ current'[w] = j /\ pc'[w] = "list")
  <2> SUFFICES ASSUME NEW s \in Running, NEW j \in Keys, j \in Range(chan[s])
               PROVE  j \in Range(chan'[s]) \/ (r = s /\ j = k)
    BY <1>3, <1>5
  <2>1. chan \in [Replicas -> Seq(Keys)] /\ s \in Replicas
    BY <1>1 DEF Types
  <2> QED
    BY <1>4, <1>5, <2>1
<1>7. intact'[w] = {}
  <2>1. \A n \in intact[w] : crb[n] \in Crb /\ crb[n].subject = NoKey
    BY <1>1, <1>2 DEF Types, StatusAnswered, Owned
  <2> QED
    BY <1>2, <2>1, QueueAssumption DEF Crb
<1>8. \A j \in Keys, n \in Names : ~Marks(w, j, n) /\ ~Holds(w, j)'
  BY <1>2, <1>5 DEF Marks, Holds
<1>9. ASSUME NEW j \in Keys, NEW n \in Names, NEW s \in Running, Minds(s, j, n)
      PROVE  Minds(s, j, n)'
  <2>1. s \in Replicas /\ pc[w] # "list"
    BY <1>1, <1>2
  <2> QED
    BY <1>2, <1>5, <1>6, <1>8, <1>9, <2>1, MindsStays
<1> QED
  BY <1>2, <1>5, <1>7, <1>8, <1>9, WorkerStatus

LEMMA ListStatus ==
  ASSUME StatusAnswered, Answered', NEW w \in Workers, List(w)
  PROVE  StatusAnswered'
<1>1. PICK r \in Running : r = home[w] /\ r \in Replicas
  BY RunningReplicas DEF StatusAnswered, Answered, QInv
<1>2. /\ Types /\ Running \subseteq Replicas
      /\ UNCHANGED <<home, crb, resolved, events, replay, sending, chan, current>>
  BY RunningReplicas DEF List, server, queue, StatusAnswered, Answered, QInv
<1>3. PICK k \in Keys : k = current[w]
  BY <1>2, QueueAssumption DEF List, At, Types
<1>4. /\ listed' = [listed EXCEPT ![w] = View(k)] /\ pc' = [pc EXCEPT ![w] = "mark"]
      /\ intact' = [intact EXCEPT ![w] = DOMAIN View(k)]
      /\ todo' = [todo EXCEPT ![w] = Marked(View(k))]
      /\ lost' = [lost EXCEPT ![r][k] = {}] /\ pc[w] = "list"
  BY <1>1, <1>3 DEF List, Goto, At
<1>5. /\ listed'[w] = View(k) /\ pc'[w] = "mark" /\ current'[w] = k
      /\ intact'[w] = DOMAIN View(k) /\ todo'[w] = Marked(View(k))
      /\ \A v \in Workers : v # w =>
           /\ current'[v] = current[v] /\ pc'[v] = pc[v] /\ listed'[v] = listed[v]
           /\ todo'[v] = todo[v] /\ intact'[v] = intact[v]
  BY <1>2, <1>3, <1>4 DEF Types
<1>6. \A s \in Replicas, j \in Keys : s # r \/ j # k => lost'[s][j] = lost[s][j]
  BY <1>1, <1>2, <1>4 DEF Types
<1>7. /\ w \in Staff(r)' /\ \A v \in Staff(r) : v # w => current[v] # k
  BY <1>1, <1>2, <1>3, QueueAssumption DEF Staff, StatusAnswered, Answered, QInv, QueueInv
<1>8. ASSUME NEW v \in Workers, NEW j \in Keys, v # w, Holds(v, j)
      PROVE  lost'[home[v]][j] = lost[home[v]][j]
  <2>1. home[v] \in Replicas /\ (home[v] = r => v \in Staff(r)) /\ current[v] = j
    BY <1>2, <1>8 DEF Types, Staff, Holds
  <2> QED
    BY <1>6, <1>7, <1>8, <2>1
<1>9. \A n \in intact'[w] : crb[n].subject = current'[w]
  BY <1>5 DEF View
<1>10. ASSUME NEW j \in Keys, NEW n \in Names, Holds(w, j)', n \in Marked(listed'[w])
       PROVE  Settles(w, j, n)'
  BY <1>5, <1>10 DEF Holds, Settles, Marks
<1>11. ASSUME NEW j \in Keys, NEW n \in Names, n \in Marked(View(j)), NEW s \in Running, Minds(s, j, n)
       PROVE  \E t \in Running : Minds(t, j, n)'
  <2>1. CASE j = k
    <3>1. Marks(w, k, n)'
      BY <1>5, <1>11, <2>1 DEF Marks
    <3> QED
      BY <1>7, <2>1, <3>1 DEF Minds
  <2>2. CASE j # k
    <3>1. /\ s \in Replicas /\ lost[s][j] \subseteq lost'[s][j] /\ chan' = chan
          /\ ~Marks(w, j, n) /\ current[w] # j
      BY <1>2, <1>3, <1>6, <2>2 DEF Marks
    <3> QED
      BY <1>2, <1>5, <1>11, <3>1, MindsStays
  <2> QED
    BY <2>1, <2>2
<1> QED
  BY <1>2, <1>5, <1>8, <1>9, <1>10, <1>11, WorkerStatus

\* w has written the statuses and goes on.
LEMMA PatchesStatus ==
  ASSUME StatusAnswered, Answered', NEW w \in Workers, PatchSpec(w) \/ PatchStatus(w)
  PROVE  StatusAnswered'
<1>1. Types /\ Running \subseteq Replicas
  BY RunningReplicas DEF StatusAnswered, Answered, QInv
<1>2. /\ UNCHANGED <<home, crb, events, replay, sending, chan, current, listed, todo, intact, lost>>
      /\ (pc[w] = "mark" /\ todo[w] = {}) \/ pc[w] = "patch"
      /\ pc' = [pc EXCEPT ![w] = pc'[w]] /\ pc'[w] \in {"patch", "done"}
  BY <1>1 DEF PatchSpec, PatchStatus, queue, At, Goto, Types
<1>3. \A v \in Workers : v # w => pc'[v] = pc[v]
  BY <1>1, <1>2 DEF Types
<1>4. \A j \in Keys, n \in Names : ~Marks(w, j, n)
  BY <1>2 DEF Marks
<1>5. \A n \in intact'[w] : crb[n].subject = current'[w]
  BY <1>2 DEF StatusAnswered, Owned
<1>6. ASSUME NEW j \in Keys, NEW n \in Names, Holds(w, j)', n \in Marked(listed'[w])
      PROVE  Settles(w, j, n)'
  <2>1. Settles(w, j, n)
    BY <1>2, <1>6 DEF StatusAnswered, MarksSettled, Holds
  <2> QED
    BY <1>2, <1>4, <2>1 DEF Settles
<1>7. ASSUME NEW j \in Keys, NEW n \in Names, NEW s \in Running, Minds(s, j, n)
      PROVE  Minds(s, j, n)'
  <2>1. s \in Replicas /\ pc[w] # "list"
    BY <1>1, <1>2
  <2> QED
    BY <1>2, <1>3, <1>4, <1>7, <2>1, MindsStays
<1> QED
  BY <1>2, <1>3, <1>5, <1>6, <1>7, WorkerStatus

LEMMA FailingStatus ==
  ASSUME StatusAnswered, Answered', NEW w \in Workers, Fail(w) \/ \E n \in Names : MarkRefused(w, n)
  PROVE  StatusAnswered'
<1>1. Types /\ Running \subseteq Replicas
  BY RunningReplicas DEF StatusAnswered, Answered, QInv
<1>2. /\ UNCHANGED <<server, ready, queue, listed, todo, intact, home>>
      /\ pc[w] # "idle" /\ pc' = [pc EXCEPT ![w] = "done"]
      /\ lost'[home[w]][current[w]] # {}
      /\ \A s \in Replicas, j \in Keys : lost[s][j] \subseteq lost'[s][j]
  BY <1>1, FailingKeepsTypes
<1>3. UNCHANGED <<home, crb, events, replay, sending, chan, current, listed, todo, intact>>
  BY <1>2 DEF server, queue
<1>4. pc'[w] = "done" /\ \A v \in Workers : v # w => pc'[v] = pc[v]
  BY <1>1, <1>2 DEF Types
<1>5. \A n \in intact'[w] : crb[n].subject = current'[w]
  BY <1>3 DEF StatusAnswered, Owned
<1>6. \A j \in Keys, n \in Names : Holds(w, j)' => Settles(w, j, n)'
  BY <1>2, <1>3 DEF Settles, Holds
<1>7. \A v \in Workers, j \in Keys : lost[home[v]][j] \subseteq lost'[home[v]][j]
  BY <1>1, <1>2 DEF Types
<1>8. ASSUME NEW j \in Keys, NEW n \in Names, NEW s \in Running, Minds(s, j, n)
      PROVE  Minds(s, j, n)'
  <2>1. s \in Replicas /\ lost[s][j] \subseteq lost'[s][j]
    BY <1>1, <1>2
  <2>2. CASE home[w] = s /\ current[w] = j
    BY <1>2, <2>2 DEF Minds
  <2>3. CASE home[w] # s \/ current[w] # j
    <3>1. home[w] # s \/ (~Marks(w, j, n) /\ current[w] # j)
      BY <2>3 DEF Marks
    <3> QED
      BY <1>3, <1>4, <1>8, <2>1, <3>1, MindsStays
  <2> QED
    BY <2>2, <2>3
<1> QED
  BY <1>3, <1>4, <1>5, <1>6, <1>7, <1>8, WorkerStatus

LEMMA FinishStatus ==
  ASSUME StatusAnswered, Answered', NEW w \in Workers, Finish(w)
  PROVE  StatusAnswered'
<1>1. Types /\ Running \subseteq Replicas
  BY RunningReplicas DEF StatusAnswered, Answered, QInv
<1>2. /\ UNCHANGED <<home, crb, events, replay, sending, chan, lost>> /\ pc[w] = "done"
  BY DEF Finish, server, At
<1>3. /\ pc'[w] = "idle" /\ intact'[w] = {}
      /\ \A v \in Workers : v # w =>
           /\ current'[v] = current[v] /\ pc'[v] = pc[v] /\ listed'[v] = listed[v]
           /\ todo'[v] = todo[v] /\ intact'[v] = intact[v]
  BY <1>1 DEF Finish, Goto, Types
<1>4. \A j \in Keys, n \in Names : ~Marks(w, j, n) /\ ~Holds(w, j)'
  BY <1>2, <1>3 DEF Marks, Holds
<1>5. ASSUME NEW j \in Keys, NEW n \in Names, NEW s \in Running, Minds(s, j, n)
      PROVE  Minds(s, j, n)'
  <2>1. s \in Replicas /\ pc[w] # "list"
    BY <1>1, <1>2
  <2> QED
    BY <1>2, <1>3, <1>4, <1>5, <2>1, MindsStays
<1> QED
  BY <1>2, <1>3, <1>4, <1>5, WorkerStatus

\* A binding that is to be marked exists, so a restart has it listed anew.
LEMMA RestartStatus ==
  ASSUME StatusAnswered, Answered', NEW r \in Replicas, Restart(r)
  PROVE  StatusAnswered'
<1>1. Types /\ r \in Running
  BY DEF Restart, StatusAnswered, Answered, QInv
<1>2. /\ home' = home /\ crb' = crb
      /\ \A s \in Replicas : s # r => lost'[s] = lost[s]
  BY <1>1 DEF Restart, Types
<1>3. \A w \in Workers :
        IF home[w] = r THEN pc'[w] = "idle" /\ intact'[w] = {}
        ELSE /\ pc'[w] = pc[w] /\ current'[w] = current[w] /\ listed'[w] = listed[w]
             /\ todo'[w] = todo[w] /\ intact'[w] = intact[w]
  BY DEF Restart, Reset
<1>4. Owned'
  BY <1>2, <1>3 DEF StatusAnswered, Owned
<1>5. MarksSettled'
  <2> SUFFICES ASSUME NEW w \in Workers, NEW k \in Keys, Holds(w, k)', NEW n \in Marked(listed'[w])
               PROVE  Settles(w, k, n)'
    BY DEF MarksSettled
  <2>1. home[w] # r /\ home[w] \in Replicas
    BY <1>1, <1>3 DEF Holds, Types
  <2>2. Settles(w, k, n)
    BY <1>3, <2>1 DEF StatusAnswered, MarksSettled, Holds
  <2> QED
    BY <1>2, <1>3, <2>1, <2>2 DEF Settles, Marks
<1>6. Minded'
  <2> SUFFICES ASSUME NEW k \in Keys, NEW n \in Marked(View(k))' PROVE Minds(r, k, n)'
    BY <1>1, <1>2 DEF Minded, Running
  <2>1. n \in Marked(View(k))
    BY <1>2 DEF View
  <2>2. View(k) # NoBindings
    BY <1>1, <2>1, MarkedBindings DEF NoBindings
  <2> QED
    BY <1>1, <2>2, RestartReplays DEF Minds
<1> QED
  BY <1>4, <1>5, <1>6 DEF StatusAnswered

LEMMA StatusAnsweredStep == StatusAnswered /\ Answered' /\ [Next]_vars => StatusAnswered'
<1> SUFFICES ASSUME StatusAnswered, Answered', [Next]_vars PROVE StatusAnswered'
  OBVIOUS
<1>1. CASE UNCHANGED vars
  <2>1. /\ home' = home /\ current' = current /\ pc' = pc /\ todo' = todo /\ listed' = listed
        /\ intact' = intact /\ crb' = crb
    BY <1>1 DEF vars, server, queue, worker
  <2>2. \A r \in Running, k \in Keys : Told(r, k)
    BY <1>1, StutterTold
  <2> QED
    BY <2>1, <2>2, QuietStatus
<1>2. ASSUME NEW n \in Names, Change(n) PROVE StatusAnswered'
  BY <1>2, ChangeStatus
<1>3. ASSUME NEW r \in Replicas, Watch(r) \/ Restart(r) PROVE StatusAnswered'
  BY <1>3, WatchStatus, RestartStatus
<1>4. ASSUME NEW w \in Workers, Worker(w) PROVE StatusAnswered'
  BY <1>4, RecvStatus, ListStatus, PatchesStatus, FailingStatus, FinishStatus, MarkStatusStatus
  DEF Worker
<1> QED
  BY <1>1, <1>2, <1>3, <1>4, Steps

\* The same of the statuses that the workers write back on the bindings
\* (replace_status, one per binding).
THEOREM StatusExplained == Spec => []StatusIsExplained
BY AnsweredInvariant, InitStatusAnswered, StatusAnsweredStep, StatusAnsweredSuffices, PTL DEF Spec
============================================================================
