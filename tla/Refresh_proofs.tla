--------------------------- MODULE Refresh_proofs ---------------------------
(***************************************************************************)
(* For all lifetimes, skews, jitters, timeouts and outages: the agent      *)
(* keeps an unexpired token through any outage shorter than the skew less  *)
(* three timeouts and one retry, and never asks more often than            *)
(* MIN_REFRESH_SECONDS.                                                    *)
(*                                                                         *)
(* The invariant bounds, while there is a token, when the attempt that     *)
(* replaces it may begin: Due if no attempt has failed since, and at most  *)
(* Outage + Timeout + MinRefresh after the first failed one otherwise.     *)
(***************************************************************************)
EXTENDS Refresh, TLAPS

(***************************************************************************)
(* Types.                                                                  *)
(***************************************************************************)
\* compute_sleep_seconds is at least the minimum, and at most the skew before
\* the end of the token's life unless that is the minimum.
LEMMA SleepBounds ==
  ASSUME NEW jitter \in 0..MaxJitter
  PROVE  /\ SleepSeconds(Ttl, jitter) \in Nat
         /\ SleepSeconds(Ttl, jitter) >= MinRefresh
         /\ SleepSeconds(Ttl, jitter) <= Larger(Ttl - Skew, MinRefresh)
BY SecondsAssumption DEF SleepSeconds, Larger, SaturatingSub

\* Each variable has its type, and no sleep or request outlives its limit.
THEOREM TypeCorrect == Spec => []TypeOK
<1>1. ASSUME Init PROVE TypeOK
  <2>1. failing \in BOOLEAN /\ hasToken \in BOOLEAN
    BY <1>1 DEF Init
  <2> QED
    BY <1>1, <2>1, SecondsAssumption DEF Init, TypeOK
<1>2. TypeOK /\ [Next]_vars => TypeOK'
  <2> SUFFICES ASSUME TypeOK, [Next]_vars PROVE TypeOK'
    OBVIOUS
  <2> USE SecondsAssumption DEF TypeOK
  <2>1. CASE Send
    BY <2>1 DEF Send
  <2>2. CASE Mint
    BY <2>2 DEF Mint
  <2>3. CASE Succeed
    <3>1. PICK jitter \in 0..MaxJitter : wake' = now + SleepSeconds(Ttl, jitter)
      BY <2>3 DEF Succeed
    <3>2. wake' \in Nat /\ now <= wake'
      BY <3>1, SleepBounds
    <3> QED
      BY <2>3, <3>2 DEF Succeed
  <2>4. CASE ReadFails
    BY <2>4 DEF ReadFails, Failed
  <2>5. CASE MintFails
    BY <2>5 DEF MintFails, Failed
  <2>6. CASE Wake
    BY <2>6 DEF Wake
  <2>7. CASE Tick
    BY <2>7 DEF Tick
  <2>8. CASE UNCHANGED vars
    BY <2>8 DEF vars
  <2> QED
    BY <2>1, <2>2, <2>3, <2>4, <2>5, <2>6, <2>7, <2>8 DEF Next
<1> QED
  BY <1>1, <1>2, PTL DEF Spec

(***************************************************************************)
(* The file never holds an expired token.                                  *)
(***************************************************************************)
\* When the first attempt to replace the token begins at the latest.
Due == stamp + Timeout + Larger(Ttl - Skew, MinRefresh)

\* When an attempt begins at the latest.
LastStart == IF failing THEN spell + Outage + Timeout + MinRefresh ELSE Due

InTime ==
  hasToken =>
    /\ failing => spell <= Due
    /\ pc = "send" => now <= LastStart
    /\ pc = "sleep" => wake <= LastStart
    /\ pc \in {"pending", "minted"} => sent <= LastStart

LEMMA InTimeInit == Init => InTime
BY DEF Init, InTime

LEMMA InTimeStep == TypeOK /\ InTime /\ [Next]_vars => InTime'
<1> SUFFICES ASSUME TypeOK, InTime, [Next]_vars PROVE InTime'
  OBVIOUS
<1> USE SecondsAssumption DEF TypeOK, InTime, LastStart, Due
<1>0. Larger(Ttl - Skew, MinRefresh) \in Nat
  BY DEF Larger
<1>1. CASE Send
  BY <1>0, <1>1 DEF Send
<1>2. CASE Mint
  BY <1>0, <1>2 DEF Mint
<1>3. CASE Succeed
  <2>1. PICK jitter \in 0..MaxJitter : wake' = now + SleepSeconds(Ttl, jitter)
    BY <1>3 DEF Succeed
  <2>2. /\ SleepSeconds(Ttl, jitter) \in Nat
        /\ SleepSeconds(Ttl, jitter) <= Larger(Ttl - Skew, MinRefresh)
    BY SleepBounds
  <2>3. stamp' = minted /\ now <= minted + Timeout
    BY <1>3 DEF Succeed
  <2>4. wake' <= Due'
    BY <1>0, <2>1, <2>2, <2>3
  <2> QED
    BY <1>3, <2>4 DEF Succeed
<1>4. CASE ReadFails
  <2>1. spell' <= Due' \/ ~hasToken
    BY <1>0, <1>4 DEF ReadFails, Failed
  <2>2. now <= spell' + Outage
    BY <1>4 DEF ReadFails, Failed, MayFail
  <2> QED
    BY <1>0, <1>4, <2>1, <2>2 DEF ReadFails, Failed
<1>5. CASE MintFails
  <2>1. spell' <= Due' \/ ~hasToken
    BY <1>0, <1>5 DEF MintFails, Failed
  <2>2. now <= spell' + Outage + Timeout
    BY <1>5 DEF MintFails, Failed, MayFail
  <2> QED
    BY <1>0, <1>5, <2>1, <2>2 DEF MintFails, Failed
<1>6. CASE Wake
  BY <1>0, <1>6 DEF Wake
<1>7. CASE Tick
  BY <1>0, <1>7 DEF Tick
<1>8. CASE UNCHANGED vars
  BY <1>8 DEF vars
<1> QED
  BY <1>1, <1>2, <1>3, <1>4, <1>5, <1>6, <1>7, <1>8 DEF Next

LEMMA InTimeSuffices == TypeOK /\ InTime => FreshThroughOutage
<1> SUFFICES ASSUME TypeOK, InTime, Slack < Skew, Skew + MinRefresh <= Ttl, hasToken
             PROVE  now < stamp + Ttl
  BY DEF FreshThroughOutage, TokenFresh
<1> USE SecondsAssumption DEF TypeOK, Slack
<1>1. Larger(Ttl - Skew, MinRefresh) = Ttl - Skew
  BY DEF Larger
<1>2. Due = stamp + Timeout + (Ttl - Skew)
  BY <1>1 DEF Due
<1>3. LastStart <= Due + Outage + Timeout + MinRefresh
  BY <1>2 DEF LastStart, InTime
<1>4. LastStart \in Int
  BY <1>2 DEF LastStart
<1>5. now <= LastStart + Timeout
  BY <1>4 DEF InTime
<1> QED
  BY <1>2, <1>3, <1>4, <1>5

\* A token lives to see its successor.
THEOREM TokensOutlastOutages == Spec => []FreshThroughOutage
<1>1. Spec => [](TypeOK /\ InTime)
  BY TypeCorrect, InTimeInit, InTimeStep, PTL DEF Spec
<1> QED
  BY <1>1, InTimeSuffices, PTL

(***************************************************************************)
(* Attempts are spaced.                                                    *)
(***************************************************************************)
Waited ==
  failing \/ hasToken =>
    /\ pc = "sleep" => wake >= sent + MinRefresh
    /\ pc = "send" => now >= sent + MinRefresh

LEMMA WaitedStep == TypeOK /\ Waited /\ [Next]_vars => Waited'
<1> SUFFICES ASSUME TypeOK, Waited, [Next]_vars PROVE Waited'
  OBVIOUS
<1> USE SecondsAssumption DEF TypeOK, Waited
<1>1. CASE Succeed
  <2>1. PICK jitter \in 0..MaxJitter : wake' = now + SleepSeconds(Ttl, jitter)
    BY <1>1 DEF Succeed
  <2>2. wake' >= now + MinRefresh
    BY <2>1, SleepBounds
  <2> QED
    BY <1>1, <2>2 DEF Succeed
<1>2. CASE Send \/ Mint \/ ReadFails \/ MintFails \/ Wake \/ Tick
  BY <1>2 DEF Send, Mint, ReadFails, MintFails, Failed, Wake, Tick
<1>3. CASE UNCHANGED vars
  BY <1>3 DEF vars
<1> QED
  BY <1>1, <1>2, <1>3 DEF Next

\* No two attempts begin within MIN_REFRESH_SECONDS of each other.
THEOREM AttemptsAreSpaced == Spec => Spaced
<1>1. Init => Waited
  BY DEF Init, Waited
<1>2. TypeOK /\ Waited /\ [Next]_vars =>
        [pc = "send" /\ pc' # "send" /\ (failing \/ hasToken) => now >= sent + MinRefresh]_vars
  BY DEF TypeOK, Waited
<1> QED
  BY <1>1, <1>2, WaitedStep, TypeCorrect, PTL DEF Spec, Spaced
=============================================================================
