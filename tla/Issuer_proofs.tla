---------------------------- MODULE Issuer_proofs ----------------------------
(***************************************************************************)
(* For any number of federation replicas, issuers, restarts and damages to *)
(* the JWKS Secret: an issuer serves a good JWKS and never an older one,   *)
(* and as long as the signing Secret has held one key only, every token    *)
(* verifies with what issuers serve and with what AWS has fetched.         *)
(*                                                                         *)
(* The invariant: whatever replicas sign with is among the keys that the   *)
(* signing Secret has held (Keys), so is every version of the JWKS Secret  *)
(* unless damaged (Logged), and an issuer's store is a good version not    *)
(* later than the one its watch has delivered (Issuing).                   *)
(***************************************************************************)
EXTENDS Issuer, TLAPS

Keys ==
  /\ signing \in SigningKeySet \union {NoSecret, Malformed}
  /\ pc \in [Replicas -> {"down", "read", "generate", "apply", "publish", "serve"}]
  /\ material \in [Replicas -> SigningKeySet \union {NoSecret}]
  /\ generated \subseteq SigningKeySet
  /\ applied \subseteq SigningKeySet
  /\ tokens \subseteq applied
  /\ \A r \in Replicas : pc[r] = "apply" => material[r] \in SigningKeySet
  /\ \A r \in Replicas : pc[r] \in {"publish", "serve"} => material[r] \in applied
  /\ signing \in SigningKeySet => signing \in applied
  /\ applied # {} => signing \in applied

\* Without damage the published key is one that the signing Secret has held,
\* and it is published once somebody serves.
Undamaged ==
  /\ spoils \in Nat
  /\ spoils = 0 => jwks \in applied \union {NoSecret}
  /\ spoils = 0 => \A r \in Replicas : pc[r] = "serve" => jwks \in applied

Logged ==
  /\ log \in Seq(SigningKeySet \union {BadJwks})
  /\ \A v \in 1..Len(log) : log[v] \in applied \union {BadJwks}
  /\ jwks = NoSecret \/ (Len(log) > 0 /\ jwks = log[Len(log)])

Issuing ==
  /\ file \in [Issuers -> 0..Len(log)]
  /\ ipc \in [Issuers -> {"down", "load", "list", "watch"}]
  /\ store \in [Issuers -> 0..Len(log)]
  /\ seen \in [Issuers -> 0..Len(log)]
  /\ cached \in 0..Len(log)
  /\ cached # 0 => Good(cached)
  /\ \A i \in Issuers : store[i] # 0 => Good(store[i])
  /\ \A i \in Issuers : ipc[i] \in {"list", "watch"} => store[i] # 0
  /\ \A i \in Issuers : ipc[i] \in {"down", "load"} => store[i] = 0
  /\ \A i \in Issuers : ipc[i] = "watch" => store[i] <= seen[i]

IInv == Keys /\ Undamaged /\ Logged /\ Issuing

LEMMA IInvInit == IssuerInit => IInv
<1> SUFFICES ASSUME IssuerInit PROVE IInv
  OBVIOUS
<1> USE InstallAssumption, JwksAssumption DEF IssuerInit, Init
<1>1. Keys
  BY DEF Keys
<1>2. Undamaged
  BY DEF Undamaged
<1>3. Logged
  BY DEF Logged
<1>4. Issuing
  BY DEF Issuing
<1> QED
  BY <1>1, <1>2, <1>3, <1>4 DEF IInv

(***************************************************************************)
(* The federation replicas.                                                *)
(***************************************************************************)
\* Conjuncts of Keys but the one about tokens, after a step of a replica.
LEMMA KeysNext ==
  ASSUME IInv, Next, UNCHANGED tokens
  PROVE  Keys'
<1> USE InstallAssumption, JwksAssumption DEF IInv, Keys, Goto
<1>1. ASSUME NEW r \in Replicas, Start(r) PROVE Keys'
  BY <1>1 DEF Start
<1>2. ASSUME NEW r \in Replicas, ReadExisting(r) PROVE Keys'
  BY <1>2 DEF ReadExisting
<1>3. ASSUME NEW r \in Replicas, ReadMalformed(r) PROVE Keys'
  BY <1>3 DEF ReadMalformed
<1>4. ASSUME NEW r \in Replicas, ReadMissing(r) PROVE Keys'
  BY <1>4 DEF ReadMissing
<1>5. ASSUME NEW r \in Replicas, Generate(r) PROVE Keys'
  BY <1>5 DEF Generate
<1>6. ASSUME NEW r \in Replicas, ApplySigning(r) PROVE Keys'
  BY <1>6 DEF ApplySigning
<1>7. ASSUME NEW r \in Replicas, Publish(r) PROVE Keys'
  BY <1>7 DEF Publish
<1>8. ASSUME NEW r \in Replicas, Stop(r) PROVE Keys'
  BY <1>8 DEF Stop
<1> QED
  BY <1>1, <1>2, <1>3, <1>4, <1>5, <1>6, <1>7, <1>8 DEF Next, Boot

LEMMA UndamagedNext ==
  ASSUME IInv, Next, UNCHANGED spoils
  PROVE  Undamaged'
<1> USE InstallAssumption, JwksAssumption DEF IInv, Keys, Undamaged, Goto
<1>1. ASSUME NEW r \in Replicas, Start(r) PROVE Undamaged'
  BY <1>1 DEF Start
<1>2. ASSUME NEW r \in Replicas, ReadExisting(r) PROVE Undamaged'
  BY <1>2 DEF ReadExisting
<1>3. ASSUME NEW r \in Replicas, ReadMalformed(r) PROVE Undamaged'
  BY <1>3 DEF ReadMalformed
<1>4. ASSUME NEW r \in Replicas, ReadMissing(r) PROVE Undamaged'
  BY <1>4 DEF ReadMissing
<1>5. ASSUME NEW r \in Replicas, Generate(r) PROVE Undamaged'
  BY <1>5 DEF Generate
<1>6. ASSUME NEW r \in Replicas, ApplySigning(r) PROVE Undamaged'
  BY <1>6 DEF ApplySigning
<1>7. ASSUME NEW r \in Replicas, Publish(r) PROVE Undamaged'
  BY <1>7 DEF Publish
<1>8. ASSUME NEW r \in Replicas, Stop(r) PROVE Undamaged'
  BY <1>8 DEF Stop
<1> QED
  BY <1>1, <1>2, <1>3, <1>4, <1>5, <1>6, <1>7, <1>8 DEF Next, Boot

\* A replica writes to the JWKS Secret the key it serves with, which was applied.
LEMMA NextPublishes ==
  ASSUME IInv, Next
  PROVE  applied \subseteq applied' /\ (jwks' = jwks \/ jwks' \in applied)
BY DEF IInv, Keys, Next, Boot, Start, ReadExisting, ReadMalformed, ReadMissing, Generate,
  ApplySigning, Publish, Stop

\* The log keeps its versions.
LogGrows ==
  /\ Len(log) \in Nat /\ Len(log') \in Nat
  /\ Len(log) <= Len(log')
  /\ \A v \in 1..Len(log) : log'[v] = log[v]

LEMMA LoggedAppend ==
  ASSUME IInv, NEW key \in SigningKeySet \union {BadJwks}, log' = Append(log, key)
  PROVE  /\ LogGrows
         /\ log' \in Seq(SigningKeySet \union {BadJwks})
         /\ Len(log') = Len(log) + 1 /\ log'[Len(log')] = key
BY DEF IInv, Logged, LogGrows

\* Issuers and AWS do not notice that the log grows.
LEMMA IssuingGrows ==
  ASSUME IInv, LogGrows, UNCHANGED <<file, ipc, store, seen, cached>>
  PROVE  Issuing'
<1> USE DEF IInv, Issuing, LogGrows
<1>1. \A v \in 1..Len(log) : Good(v)' <=> Good(v)
  BY DEF Good
<1>2. /\ file' \in [Issuers -> 0..Len(log')]
      /\ store' \in [Issuers -> 0..Len(log')]
      /\ seen' \in [Issuers -> 0..Len(log')]
      /\ cached' \in 0..Len(log')
  OBVIOUS
<1>3. cached' # 0 => Good(cached)'
  BY <1>1
<1>4. \A i \in Issuers : store'[i] # 0 => Good(store[i])'
  BY <1>1
<1> QED
  BY <1>2, <1>3, <1>4

LEMMA FederationStep == IInv /\ Federation => IInv'
<1> SUFFICES ASSUME IInv, Federation PROVE IInv'
  OBVIOUS
<1> USE DEF Federation, partyVars
<1>1. Keys' /\ Undamaged'
  BY KeysNext, UndamagedNext
<1>2. CASE jwks' = jwks
  <2>1. LogGrows
    BY <1>2 DEF IInv, Logged, LogGrows
  <2>2. Logged'
    BY <1>2, NextPublishes DEF IInv, Logged
  <2> QED
    BY <1>1, <2>1, <2>2, IssuingGrows DEF IInv
<1>3. CASE jwks' # jwks
  <2>1. jwks' \in applied /\ jwks' \in SigningKeySet \union {BadJwks} /\ applied \subseteq applied'
    BY <1>3, NextPublishes DEF IInv, Keys
  <2>2. log' = Append(log, jwks')
    BY <1>3
  <2>3. /\ LogGrows
        /\ log' \in Seq(SigningKeySet \union {BadJwks})
        /\ Len(log') = Len(log) + 1 /\ log'[Len(log')] = jwks'
    BY <2>1, <2>2, LoggedAppend
  <2>4. Logged'
    BY <2>1, <2>3 DEF IInv, Logged, LogGrows
  <2> QED
    BY <1>1, <2>3, <2>4, IssuingGrows DEF IInv
<1> QED
  BY <1>2, <1>3

LEMMA SpoilStep == IInv /\ Spoil => IInv'
<1> SUFFICES ASSUME IInv, Spoil PROVE IInv'
  OBVIOUS
<1> USE DEF Spoil, partyVars
<1>1. Keys' /\ Undamaged'
  BY DEF IInv, Keys, Undamaged
<1>2. CASE log' = Append(log, BadJwks) /\ jwks' = BadJwks
  <2>1. /\ LogGrows
        /\ log' \in Seq(SigningKeySet \union {BadJwks})
        /\ Len(log') = Len(log) + 1 /\ log'[Len(log')] = BadJwks
    BY <1>2, LoggedAppend
  <2>2. Logged'
    BY <1>2, <2>1 DEF IInv, Logged, LogGrows
  <2> QED
    BY <1>1, <2>1, <2>2, IssuingGrows DEF IInv
<1>3. CASE log' = log /\ jwks' = NoSecret
  <2>1. LogGrows
    BY <1>3 DEF IInv, Logged, LogGrows
  <2>2. Logged'
    BY <1>3 DEF IInv, Logged
  <2> QED
    BY <1>1, <2>1, <2>2, IssuingGrows DEF IInv
<1> QED
  BY <1>2, <1>3

(***************************************************************************)
(* The issuers and AWS.                                                    *)
(***************************************************************************)
\* They write to neither Secret.
LEMMA IssuersWriteNothing ==
  ASSUME IInv, UNCHANGED <<keyVars, log, spoils>>, tokens' \subseteq applied
  PROVE  Keys' /\ Undamaged' /\ Logged'
BY DEF IInv, Keys, Undamaged, Logged, keyVars

LEMMA SignStep == ASSUME NEW r \in Replicas PROVE IInv /\ Sign(r) => IInv'
<1> SUFFICES ASSUME IInv, Sign(r) PROVE IInv'
  OBVIOUS
<1>1. tokens' \subseteq applied
  BY DEF Sign, Serving, IInv, Keys
<1>2. Issuing'
  BY DEF Sign, IInv, Issuing, Good
<1> QED
  BY <1>1, <1>2, IssuersWriteNothing DEF Sign, IInv

LEMMA SyncStep == ASSUME NEW i \in Issuers PROVE IInv /\ Sync(i) => IInv'
<1> SUFFICES ASSUME IInv, Sync(i) PROVE IInv'
  OBVIOUS
<1> USE DEF Sync, partyVars
<1>1. Keys' /\ Undamaged' /\ Logged'
  BY IssuersWriteNothing DEF IInv, Keys
<1>2. Issuing'
  BY DEF IInv, Issuing, Logged, Good, Become
<1> QED
  BY <1>1, <1>2 DEF IInv

LEMMA LaunchStep == ASSUME NEW i \in Issuers PROVE IInv /\ Launch(i) => IInv'
<1> SUFFICES ASSUME IInv, Launch(i) PROVE IInv'
  OBVIOUS
<1> USE DEF Launch, partyVars
<1>1. Keys' /\ Undamaged' /\ Logged'
  BY IssuersWriteNothing DEF IInv, Keys
<1>2. Issuing'
  BY DEF IInv, Issuing, Logged, Good, Become
<1> QED
  BY <1>1, <1>2 DEF IInv

LEMMA LoadStep == ASSUME NEW i \in Issuers PROVE IInv /\ Load(i) => IInv'
<1> SUFFICES ASSUME IInv, Load(i) PROVE IInv'
  OBVIOUS
<1> USE DEF Load, partyVars
<1>1. Keys' /\ Undamaged' /\ Logged'
  BY IssuersWriteNothing DEF IInv, Keys
<1>2. Issuing'
  BY DEF IInv, Issuing, Logged, Good, Become
<1> QED
  BY <1>1, <1>2 DEF IInv

LEMMA LoadFailsStep == ASSUME NEW i \in Issuers PROVE IInv /\ LoadFails(i) => IInv'
<1> SUFFICES ASSUME IInv, LoadFails(i) PROVE IInv'
  OBVIOUS
<1> USE DEF LoadFails, partyVars
<1>1. Keys' /\ Undamaged' /\ Logged'
  BY IssuersWriteNothing DEF IInv, Keys
<1>2. Issuing'
  BY DEF IInv, Issuing, Logged, Good, Become
<1> QED
  BY <1>1, <1>2 DEF IInv

\* A list leaves the store as it was, or puts the last version into it.
LEMMA ListTakes ==
  ASSUME IInv, NEW i \in Issuers, List(i)
  PROVE  /\ Len(log) \in Nat
         /\ \/ store' = store
            \/ /\ Len(log) > 0 /\ Good(Len(log))
               /\ store' = [store EXCEPT ![i] = Len(log)]
<1>1. CASE jwks = NoSecret
  BY <1>1 DEF IInv, Logged, List
<1>2. CASE jwks # NoSecret
  <2>1. Len(log) \in Nat /\ Len(log) > 0
    BY <1>2 DEF IInv, Logged
  <2>2. Take(i, Len(log))
    BY <1>2 DEF List
  <2> QED
    BY <2>1, <2>2 DEF Take
<1> QED
  BY <1>1, <1>2

LEMMA ListStep == ASSUME NEW i \in Issuers PROVE IInv /\ List(i) => IInv'
<1> SUFFICES ASSUME IInv, List(i) PROVE IInv'
  OBVIOUS
<1>1. Keys' /\ Undamaged' /\ Logged'
  BY IssuersWriteNothing DEF IInv, Keys, List, partyVars
<1>2. Issuing'
  <2>1. ipc' = [ipc EXCEPT ![i] = "watch"] /\ seen' = [seen EXCEPT ![i] = Len(log)]
    BY DEF List, Become
  <2>2. log' = log /\ file' = file /\ cached' = cached /\ ipc[i] \in {"list", "watch"}
    BY DEF List, partyVars
  <2>3. CASE store' = store
    BY <2>1, <2>2, <2>3, ListTakes DEF IInv, Issuing, Good
  <2>4. CASE Len(log) > 0 /\ Good(Len(log)) /\ store' = [store EXCEPT ![i] = Len(log)]
    BY <2>1, <2>2, <2>4, ListTakes DEF IInv, Issuing, Good
  <2> QED
    BY <2>3, <2>4, ListTakes
<1> QED
  BY <1>1, <1>2 DEF IInv

LEMMA DeliverStep == ASSUME NEW i \in Issuers PROVE IInv /\ Deliver(i) => IInv'
<1> SUFFICES ASSUME IInv, Deliver(i) PROVE IInv'
  OBVIOUS
<1> USE DEF Deliver, partyVars
<1>1. Keys' /\ Undamaged' /\ Logged'
  BY IssuersWriteNothing DEF IInv, Keys
<1>2. Issuing'
  BY DEF IInv, Issuing, Logged, Good, Become, Take
<1> QED
  BY <1>1, <1>2 DEF IInv

LEMMA ExitStep == ASSUME NEW i \in Issuers PROVE IInv /\ Exit(i) => IInv'
<1> SUFFICES ASSUME IInv, Exit(i) PROVE IInv'
  OBVIOUS
<1> USE DEF Exit, partyVars
<1>1. Keys' /\ Undamaged' /\ Logged'
  BY IssuersWriteNothing DEF IInv, Keys
<1>2. Issuing'
  BY DEF IInv, Issuing, Logged, Good, Become
<1> QED
  BY <1>1, <1>2 DEF IInv

LEMMA GetJwksStep == ASSUME NEW i \in Issuers PROVE IInv /\ GetJwks(i) => IInv'
<1> SUFFICES ASSUME IInv, GetJwks(i) PROVE IInv'
  OBVIOUS
<1> USE DEF GetJwks, partyVars
<1>1. Keys' /\ Undamaged' /\ Logged'
  BY IssuersWriteNothing DEF IInv, Keys
<1>2. Issuing'
  BY DEF IInv, Issuing, Logged, Good, Become
<1> QED
  BY <1>1, <1>2 DEF IInv

IssuerStep(i) ==
  Sync(i) \/ Launch(i) \/ Load(i) \/ LoadFails(i) \/ List(i) \/ Deliver(i) \/ Exit(i) \/ GetJwks(i)

LEMMA IInvStep == IInv /\ [IssuerNext]_vars => IInv'
<1> SUFFICES ASSUME IInv, [IssuerNext]_vars PROVE IInv'
  OBVIOUS
<1>1. CASE Federation \/ Spoil
  BY <1>1, FederationStep, SpoilStep
<1>2. ASSUME NEW r \in Replicas, Sign(r) PROVE IInv'
  BY <1>2, SignStep
<1>3. ASSUME NEW i \in Issuers, IssuerStep(i) PROVE IInv'
  BY <1>3, SyncStep, LaunchStep, LoadStep, LoadFailsStep, ListStep, DeliverStep, ExitStep,
    GetJwksStep DEF IssuerStep
<1>4. CASE UNCHANGED vars
  BY <1>4 DEF vars, keyVars, issuerVars, partyVars, IInv, Keys, Undamaged, Logged, Issuing, Good
<1> QED
  BY <1>1, <1>2, <1>3, <1>4 DEF IssuerNext, IssuerStep

LEMMA Invariance == IssuerSpec => []IInv
BY IInvInit, IInvStep, PTL DEF IssuerSpec

(***************************************************************************)
(* Theorems.                                                               *)
(***************************************************************************)
\* Each variable has its type.
THEOREM IssuerTypeCorrect == IssuerSpec => []IssuerTypeOK
<1>1. IInv => IssuerTypeOK
  BY DEF IInv, Keys, Logged, Issuing, IssuerTypeOK
<1> QED
  BY <1>1, Invariance, PTL

\* An issuer that has a JWKS has a good one, and keeps having one.
THEOREM LastGoodIsKept == IssuerSpec => []KeepsLastGood
<1>1. IInv => KeepsLastGood
  BY DEF IInv, Issuing, KeepsLastGood
<1> QED
  BY <1>1, Invariance, PTL

\* With one key, tokens verify whenever they were signed and wherever the JWKS
\* was fetched.
THEOREM TokensAlwaysVerify == IssuerSpec => []TokensVerify
<1>1. IInv => TokensVerify
  <2> SUFFICES ASSUME IInv, OneKey, NEW k \in tokens
               PROVE  /\ \A i \in Issuers : store[i] # 0 => log[store[i]] = k
                      /\ cached # 0 => log[cached] = k
    BY DEF TokensVerify
  <2>1. \A v \in 1..Len(log) : Good(v) => log[v] = k
    BY DEF IInv, Keys, Logged, OneKey, Good
  <2>2. Len(log) \in Nat
    BY DEF IInv, Logged
  <2>3. ASSUME NEW i \in Issuers, store[i] # 0 PROVE log[store[i]] = k
    <3>1. store[i] \in 1..Len(log) /\ Good(store[i])
      BY <2>2, <2>3 DEF IInv, Issuing
    <3> QED
      BY <2>1, <3>1
  <2>4. ASSUME cached # 0 PROVE log[cached] = k
    <3>1. cached \in 1..Len(log) /\ Good(cached)
      BY <2>2, <2>4 DEF IInv, Issuing
    <3> QED
      BY <2>1, <3>1
  <2> QED
    BY <2>3, <2>4
<1> QED
  BY <1>1, Invariance, PTL

\* Without damage to the JWKS Secret the replicas share the one key.
THEOREM KeyIsSharedBesideIssuers == IssuerSpec => []KeysStayShared
<1>1. IInv => KeysStayShared
  BY DEF IInv, Keys, Undamaged, KeysStayShared, SharedUnlessOverwritten, KeyIsShared, Serving
<1> QED
  BY <1>1, Invariance, PTL

\* An issuer never goes back to an older version.
THEOREM IssuersNeverGoBack == IssuerSpec => NeverBack
<1>1. IInv /\ [IssuerNext]_vars =>
        [\A i \in Issuers : ipc'[i] # "down" => store'[i] >= store[i]]_vars
  <2> SUFFICES ASSUME IInv, [IssuerNext]_vars, NEW i \in Issuers, ipc'[i] # "down"
               PROVE  store'[i] >= store[i]
    OBVIOUS
  <2> USE DEF IInv, Issuing, Logged
  <2>1. CASE Federation \/ Spoil \/ (\E r \in Replicas : Sign(r)) \/ UNCHANGED vars
    BY <2>1 DEF Federation, Spoil, Sign, vars, issuerVars
  <2>2. ASSUME NEW j \in Issuers, IssuerStep(j) PROVE store'[i] >= store[i]
    <3>1. CASE Sync(j) \/ Launch(j) \/ LoadFails(j) \/ GetJwks(j)
      BY <3>1 DEF Sync, Launch, LoadFails, GetJwks
    <3>2. CASE Load(j)
      BY <3>2 DEF Load
    <3>3. CASE List(j)
      BY <3>3, ListTakes
    <3>4. CASE Deliver(j)
      BY <3>4 DEF Deliver, Take
    <3>5. CASE Exit(j)
      BY <3>5 DEF Exit, Become
    <3> QED
      BY <2>2, <3>1, <3>2, <3>3, <3>4, <3>5 DEF IssuerStep
  <2> QED
    BY <2>1, <2>2 DEF IssuerNext, IssuerStep
<1> QED
  BY <1>1, Invariance, PTL DEF IssuerSpec, NeverBack
==============================================================================
