------------------------- MODULE WorkQueue_proofs -------------------------
(***************************************************************************)
(* Proofs about WorkQueue for any set of keys, any workers and any         *)
(* capacity: its safety invariants, and that every step is a step of       *)
(* SingleFlight or leaves SingleFlight's state alone.                      *)
(***************************************************************************)
EXTENDS WorkQueue, TLAPS

(***************************************************************************)
(* Two facts about the keys in a channel.                                  *)
(***************************************************************************)
\* Sending a key that is not in the channel adds that key and keeps the keys
\* of the channel distinct (the channel operation of Queue::enqueue).
LEMMA AppendKey ==
  ASSUME NEW S, NEW s \in Seq(S), NEW e \in S
  PROVE  /\ Append(s, e) \in Seq(S)
         /\ Range(Append(s, e)) = Range(s) \union {e}
         /\ Len(Append(s, e)) = Len(s) + 1
         /\ IsInjective(s) /\ e \notin Range(s) => IsInjective(Append(s, e))
<1>1. /\ Append(s, e) \in Seq(S)
      /\ Len(Append(s, e)) = Len(s) + 1
      /\ DOMAIN s = 1..Len(s)
      /\ DOMAIN Append(s, e) = 1..(Len(s) + 1)
      /\ \A i \in 1..Len(s) : Append(s, e)[i] = s[i]
      /\ Append(s, e)[Len(s) + 1] = e
  OBVIOUS
<1>2. Range(Append(s, e)) = Range(s) \union {e}
  BY <1>1 DEF Range
<1>3. ASSUME IsInjective(s), e \notin Range(s)
      PROVE  IsInjective(Append(s, e))
  BY <1>1, <1>3 DEF Range, IsInjective
<1>4. QED
  BY <1>1, <1>2, <1>3

\* Receiving takes the head out of a channel of distinct keys and leaves the
\* others where they were (the recv() of run_workers).
LEMMA TakeHead ==
  ASSUME NEW S, NEW s \in Seq(S), s # <<>>
  PROVE  /\ Head(s) \in S
         /\ Head(s) \in Range(s)
         /\ Tail(s) \in Seq(S)
         /\ Len(Tail(s)) <= Len(s)
         /\ Range(Tail(s)) \subseteq Range(s)
         /\ Range(s) = Range(Tail(s)) \union {Head(s)}
         /\ IsInjective(s) =>
              IsInjective(Tail(s)) /\ Head(s) \notin Range(Tail(s))
<1>1. /\ Len(s) \in Nat \ {0}
      /\ DOMAIN s = 1..Len(s)
      /\ Head(s) = s[1] /\ s[1] \in S
      /\ Tail(s) \in Seq(S)
      /\ Len(Tail(s)) = Len(s) - 1
      /\ DOMAIN Tail(s) = 1..(Len(s) - 1)
      /\ \A i \in 1..(Len(s) - 1) : Tail(s)[i] = s[i + 1]
  OBVIOUS
<1>2. Head(s) \in Range(s)
  BY <1>1 DEF Range
<1>3. Range(Tail(s)) \subseteq Range(s)
  BY <1>1 DEF Range
<1>4. Range(s) \subseteq Range(Tail(s)) \union {Head(s)}
  <2> SUFFICES ASSUME NEW i \in 1..Len(s)
               PROVE  s[i] \in Range(Tail(s)) \union {Head(s)}
    BY <1>1 DEF Range
  <2>1. CASE i = 1
    BY <2>1, <1>1
  <2>2. CASE i # 1
    <3>1. i - 1 \in 1..(Len(s) - 1) /\ Tail(s)[i - 1] = s[i]
      BY <2>2, <1>1
    <3>2. QED
      BY <3>1, <1>1 DEF Range
  <2>3. QED
    BY <2>1, <2>2
<1>5. ASSUME IsInjective(s)
      PROVE  IsInjective(Tail(s)) /\ Head(s) \notin Range(Tail(s))
  BY <1>1, <1>5 DEF Range, IsInjective
<1>6. QED
  BY <1>1, <1>2, <1>3, <1>4, <1>5

(***************************************************************************)
(* The inductive invariant.  Exactness of the set needs single flight (or  *)
(* done() would drop a key another worker still holds), and single flight  *)
(* needs exactness (or a key in service could be accepted again).          *)
(***************************************************************************)
IInv == TypeOK /\ InFlightExact /\ SingleFlightPerKey

LEMMA InitIInv == Init => IInv
<1> SUFFICES ASSUME Init PROVE IInv
  OBVIOUS
<1>1. TypeOK
  BY CapacityAssumption DEF Init, TypeOK
<1>2. InFlightExact
  BY DEF Init, InFlightExact, Held, Range, IsInjective
<1>3. SingleFlightPerKey
  BY DEF Init, SingleFlightPerKey
<1>4. QED
  BY <1>1, <1>2, <1>3 DEF IInv

LEMMA RestartIInv == Restart => IInv'
<1> SUFFICES ASSUME Restart PROVE IInv'
  OBVIOUS
<1>1. TypeOK'
  BY CapacityAssumption DEF Restart, TypeOK
<1>2. InFlightExact'
  BY DEF Restart, InFlightExact, Held, Range, IsInjective
<1>3. SingleFlightPerKey'
  BY DEF Restart, SingleFlightPerKey
<1>4. QED
  BY <1>1, <1>2, <1>3 DEF IInv

\* The keys the workers hold after one of them takes a key, or lets one go.
LEMMA HeldAfter ==
  ASSUME TypeOK, NEW w \in Workers, NEW k \in Keys
  PROVE  /\ current[w] = NoKey /\ current' = [current EXCEPT ![w] = k] =>
              Held' = Held \union {k}
         /\ SingleFlightPerKey /\ current[w] # NoKey
              /\ current' = [current EXCEPT ![w] = NoKey] =>
              Held' = Held \ {current[w]} /\ current[w] \in Held
  BY NoKeyAssumption DEF TypeOK, Held, Range, SingleFlightPerKey

LEMMA AcceptIInv == ASSUME IInv, NEW k \in Keys, Accept(k) PROVE IInv'
  BY NoKeyAssumption
  DEF IInv, Accept, TypeOK, InFlightExact, SingleFlightPerKey, Held

LEMMA SendIInv == ASSUME IInv, Send PROVE IInv'
<1>1. sending \in Keys /\ chan \in Seq(Keys) /\ sending \notin Range(chan)
      /\ IsInjective(chan)
  BY DEF IInv, Send, TypeOK, InFlightExact
<1>2. /\ chan' \in Seq(Keys)
      /\ Range(chan') = Range(chan) \union {sending}
      /\ Len(chan') = Len(chan) + 1
      /\ IsInjective(chan')
  BY <1>1, AppendKey DEF Send
<1>3. TypeOK'
  BY <1>2, CapacityAssumption DEF IInv, Send, TypeOK
<1>4. InFlightExact'
  <2>1. Held' = Held /\ NoKey \notin Held
    BY DEF Send, Held
  <2>2. NoKey \notin Range(chan')
    BY <1>2, NoKeyAssumption DEF Range
  <2>3. QED
    BY <1>1, <1>2, <2>1, <2>2 DEF IInv, Send, InFlightExact
<1>5. SingleFlightPerKey'
  BY DEF IInv, Send, SingleFlightPerKey
<1>6. QED
  BY <1>3, <1>4, <1>5 DEF IInv

LEMMA RecvIInv == ASSUME IInv, NEW w \in Workers, Recv(w) PROVE IInv'
<1> DEFINE k == Head(chan)
<1>1. /\ k \in Keys /\ k \in Range(chan)
      /\ chan' \in Seq(Keys)
      /\ Len(chan') <= Len(chan)
      /\ Range(chan) = Range(chan') \union {k}
      /\ IsInjective(chan') /\ k \notin Range(chan')
  BY TakeHead DEF IInv, Recv, TypeOK, InFlightExact
<1>2. Held' = Held \union {k} /\ k \notin Held
  BY <1>1, HeldAfter DEF IInv, Recv, InFlightExact
<1>3. TypeOK'
  BY <1>1, CapacityAssumption DEF IInv, Recv, TypeOK
<1>4. InFlightExact'
  BY <1>1, <1>2 DEF IInv, Recv, InFlightExact
<1>5. SingleFlightPerKey'
  BY <1>1, <1>2, NoKeyAssumption
  DEF IInv, Recv, TypeOK, SingleFlightPerKey, Held, Range
<1>6. QED
  BY <1>3, <1>4, <1>5 DEF IInv

LEMMA DoneIInv == ASSUME IInv, NEW w \in Workers, Done(w) PROVE IInv'
<1>1. current[w] \in Keys
  BY DEF IInv, Done, TypeOK
<1>2. Held' = Held \ {current[w]} /\ current[w] \in Held
  BY <1>1, HeldAfter DEF IInv, Done
<1>3. TypeOK'
  BY DEF IInv, Done, TypeOK
<1>4. InFlightExact'
  BY <1>1, <1>2 DEF IInv, Done, InFlightExact
<1>5. SingleFlightPerKey'
  BY DEF IInv, Done, TypeOK, SingleFlightPerKey
<1>6. QED
  BY <1>3, <1>4, <1>5 DEF IInv

LEMMA StepIInv == IInv /\ [Next]_vars => IInv'
<1> SUFFICES ASSUME IInv, [Next]_vars PROVE IInv'
  OBVIOUS
<1>1. ASSUME NEW k \in Keys, Accept(k) PROVE IInv'
  BY <1>1, AcceptIInv
<1>2. CASE UNCHANGED vars
  BY <1>2 DEF vars, IInv, TypeOK, InFlightExact, SingleFlightPerKey, Held
<1>3. ASSUME NEW k \in Keys, Ignore(k) PROVE IInv'
  BY <1>2, <1>3 DEF Ignore
<1>4. CASE Send
  BY <1>4, SendIInv
<1>5. ASSUME NEW w \in Workers, Recv(w) PROVE IInv'
  BY <1>5, RecvIInv
<1>6. ASSUME NEW w \in Workers, Done(w) PROVE IInv'
  BY <1>6, DoneIInv
<1>7. CASE Restart
  BY <1>7, RestartIInv
<1>8. QED
  BY <1>1, <1>2, <1>3, <1>4, <1>5, <1>6, <1>7 DEF Next

LEMMA AlwaysIInv == Spec => []IInv
  BY InitIInv, StepIInv, PTL DEF Spec

(***************************************************************************)
(* Safety of the queue.                                                    *)
(***************************************************************************)
\* The queue's state is well typed, and the channel never holds more than its
\* capacity (Queue, run_workers).
THEOREM TypeCorrect == Spec => []TypeOK
<1>1. IInv => TypeOK
  BY DEF IInv
<1>2. QED
  BY AlwaysIInv, <1>1, PTL

\* For any number of keys and workers and any capacity, the set of keys in
\* flight is exact and each of them is in one place (Queue::enqueue, done).
THEOREM InFlightIsExact == Spec => []InFlightExact
<1>1. IInv => InFlightExact
  BY DEF IInv
<1>2. QED
  BY AlwaysIInv, <1>1, PTL

\* For any number of keys and workers, no two workers of run_workers ever
\* reconcile the same key at the same time.
THEOREM OneWorkerPerKey == Spec => []SingleFlightPerKey
<1>1. IInv => SingleFlightPerKey
  BY DEF IInv
<1>2. QED
  BY AlwaysIInv, <1>1, PTL

(***************************************************************************)
(* Refinement.                                                             *)
(***************************************************************************)
LEMMA InitRefines == Init => SF!Init
  BY NoKeyAssumption DEF Init, SF!Init, phaseOf, Held, Range

LEMMA StepRefines == IInv /\ IInv' /\ [Next]_vars => [SF!Next]_phaseOf
<1> SUFFICES ASSUME IInv, IInv', [Next]_vars PROVE [SF!Next]_phaseOf
  OBVIOUS
<1>1. ASSUME NEW k \in Keys, Accept(k) PROVE SF!Request(k)
  <2>1. Held' = Held /\ k \notin Held /\ k \notin inFlight
        /\ inFlight' = inFlight \union {k}
    BY <1>1 DEF Accept, Held, IInv, InFlightExact
  <2>2. QED
    BY <2>1 DEF SF!Request, phaseOf
<1>2. CASE UNCHANGED vars
  BY <1>2 DEF vars, phaseOf, Held
<1>3. ASSUME NEW k \in Keys, Ignore(k) PROVE UNCHANGED phaseOf
  BY <1>2, <1>3 DEF Ignore, vars, phaseOf, Held
<1>4. CASE Send
  BY <1>4 DEF Send, phaseOf, Held
<1>5. ASSUME NEW w \in Workers, Recv(w) PROVE SF!Start(Head(chan))
  <2> DEFINE k == Head(chan)
  <2>1. k \in Keys /\ k \in Range(chan)
    BY <1>5, TakeHead DEF Recv, IInv, TypeOK
  <2>2. k \in inFlight /\ k \notin Held
    BY <2>1 DEF IInv, InFlightExact
  <2>3. Held' = Held \union {k} /\ inFlight' = inFlight
    BY <1>5, <2>1, HeldAfter DEF Recv, IInv
  <2>4. QED
    BY <2>1, <2>2, <2>3 DEF SF!Start, phaseOf
<1>6. ASSUME NEW w \in Workers, Done(w) PROVE SF!Finish(current[w])
  <2>1. current[w] \in Keys
    BY <1>6 DEF Done, IInv, TypeOK
  <2>2. Held' = Held \ {current[w]} /\ current[w] \in Held
        /\ inFlight' = inFlight \ {current[w]}
    BY <1>6, <2>1, HeldAfter DEF Done, IInv
  <2>3. QED
    BY <2>1, <2>2 DEF SF!Finish, phaseOf
<1>7. CASE Restart
  BY <1>7, NoKeyAssumption DEF Restart, SF!Forget, SF!Next, phaseOf, Held, Range
<1>8. \A w \in Workers : /\ Recv(w) => Head(chan) \in Keys
                         /\ Done(w) => current[w] \in Keys
  BY TakeHead DEF Recv, Done, IInv, TypeOK
<1>9. QED
  BY <1>1, <1>2, <1>3, <1>4, <1>5, <1>6, <1>7, <1>8 DEF Next, SF!Next

\* The queue, with its channel, set and workers, does only what SingleFlight
\* allows: the safety half of ImplementsSingleFlight, for every instance.
THEOREM QueueRefinesSingleFlight == Spec => SF!Safe
BY AlwaysIInv, InitRefines, StepRefines, PTL DEF Spec, SF!Safe
===========================================================================
