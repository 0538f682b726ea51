------------------------- MODULE SigningKeys_proofs -------------------------
(***************************************************************************)
(* For any number of replicas, keys, restarts: the replicas of             *)
(* kif-federation share one key unless the signing Secret was overwritten, *)
(* and it never is if it was there, usable, when they first started.       *)
(*                                                                         *)
(* The invariant: whatever a replica signs with, whatever is published and *)
(* whatever the Secret holds now is among the keys the Secret has held.    *)
(***************************************************************************)
EXTENDS SigningKeys, TLAPS

(***************************************************************************)
(* Types.                                                                  *)
(***************************************************************************)
LEMMA TypeInit == Init => TypeOK
BY InstallAssumption DEF Init, TypeOK

LEMMA TypeStep == TypeOK /\ [Next]_keyVars => TypeOK'
<1> SUFFICES ASSUME TypeOK, [Next]_keyVars PROVE TypeOK'
  OBVIOUS
<1> USE InstallAssumption DEF TypeOK, Goto
<1>1. ASSUME NEW r \in Replicas, Start(r) PROVE TypeOK'
  BY <1>1 DEF Start
<1>2. ASSUME NEW r \in Replicas, ReadExisting(r) PROVE TypeOK'
  BY <1>2 DEF ReadExisting
<1>3. ASSUME NEW r \in Replicas, ReadMalformed(r) PROVE TypeOK'
  BY <1>3 DEF ReadMalformed
<1>4. ASSUME NEW r \in Replicas, ReadMissing(r) PROVE TypeOK'
  BY <1>4 DEF ReadMissing
<1>5. ASSUME NEW r \in Replicas, Generate(r) PROVE TypeOK'
  BY <1>5 DEF Generate
<1>6. ASSUME NEW r \in Replicas, ApplySigning(r) PROVE TypeOK'
  BY <1>6 DEF ApplySigning
<1>7. ASSUME NEW r \in Replicas, Publish(r) PROVE TypeOK'
  BY <1>7 DEF Publish
<1>8. ASSUME NEW r \in Replicas, Stop(r) PROVE TypeOK'
  BY <1>8 DEF Stop
<1>9. CASE UNCHANGED keyVars
  BY <1>9 DEF keyVars
<1> QED
  BY <1>1, <1>2, <1>3, <1>4, <1>5, <1>6, <1>7, <1>8, <1>9 DEF Next, Boot

\* Each variable has its type, and whoever has got past reading has a key.
THEOREM TypeCorrect == Spec => []TypeOK
BY TypeInit, TypeStep, PTL DEF Spec

(***************************************************************************)
(* One key, unless overwritten.                                            *)
(***************************************************************************)
FromTheSecret ==
  /\ \A r \in Replicas : pc[r] \in {"publish", "serve"} => material[r] \in applied
  /\ \A r \in Replicas : pc[r] = "serve" => jwks \in applied
  /\ jwks \in applied \union {NoSecret}
  /\ signing \in SigningKeySet => signing \in applied
  /\ applied # {} => signing \in applied

LEMMA FromTheSecretInit == Init => FromTheSecret
BY InstallAssumption DEF Init, FromTheSecret

LEMMA FromTheSecretStep ==
  TypeOK /\ FromTheSecret /\ [Next]_keyVars => FromTheSecret'
<1> SUFFICES ASSUME TypeOK, FromTheSecret, [Next]_keyVars PROVE FromTheSecret'
  OBVIOUS
<1> USE InstallAssumption DEF TypeOK, FromTheSecret, Goto
<1>1. ASSUME NEW r \in Replicas, Start(r) PROVE FromTheSecret'
  BY <1>1 DEF Start
<1>2. ASSUME NEW r \in Replicas, ReadExisting(r) PROVE FromTheSecret'
  BY <1>2 DEF ReadExisting
<1>3. ASSUME NEW r \in Replicas, ReadMalformed(r) PROVE FromTheSecret'
  BY <1>3 DEF ReadMalformed
<1>4. ASSUME NEW r \in Replicas, ReadMissing(r) PROVE FromTheSecret'
  BY <1>4 DEF ReadMissing
<1>5. ASSUME NEW r \in Replicas, Generate(r) PROVE FromTheSecret'
  BY <1>5 DEF Generate
<1>6. ASSUME NEW r \in Replicas, ApplySigning(r) PROVE FromTheSecret'
  BY <1>6 DEF ApplySigning
<1>7. ASSUME NEW r \in Replicas, Publish(r) PROVE FromTheSecret'
  BY <1>7 DEF Publish
<1>8. ASSUME NEW r \in Replicas, Stop(r) PROVE FromTheSecret'
  BY <1>8 DEF Stop
<1>9. CASE UNCHANGED keyVars
  BY <1>9 DEF keyVars
<1> QED
  BY <1>1, <1>2, <1>3, <1>4, <1>5, <1>6, <1>7, <1>8, <1>9 DEF Next, Boot

LEMMA FromTheSecretAlways == Spec => [](TypeOK /\ FromTheSecret)
BY TypeCorrect, FromTheSecretInit, FromTheSecretStep, PTL DEF Spec

\* Every serving replica signs with the stored key, and the published JWKS is
\* that key's, as long as the Secret has held one key.
THEOREM OneKeyUnlessOverwritten == Spec => []SharedUnlessOverwritten
<1>1. FromTheSecret => SharedUnlessOverwritten
  BY DEF FromTheSecret, SharedUnlessOverwritten, KeyIsShared, Serving
<1> QED
  BY <1>1, FromTheSecretAlways, PTL

(***************************************************************************)
(* A Secret that was there from the beginning.                             *)
(***************************************************************************)
NeverGenerates ==
  /\ \A r \in Replicas : pc[r] \notin {"generate", "apply"}
  /\ applied = {signing}
  /\ signing \in SigningKeySet

LEMMA NeverGeneratesStep ==
  TypeOK /\ NeverGenerates /\ [Next]_keyVars => NeverGenerates'
<1> SUFFICES ASSUME TypeOK, NeverGenerates, [Next]_keyVars PROVE NeverGenerates'
  OBVIOUS
<1> USE InstallAssumption DEF TypeOK, NeverGenerates, Goto
<1>1. ASSUME NEW r \in Replicas, Boot(r) PROVE NeverGenerates'
  BY <1>1 DEF Boot, Start, ReadExisting, ReadMalformed, ReadMissing, Generate,
              ApplySigning, Publish
<1>2. ASSUME NEW r \in Replicas, Stop(r) PROVE NeverGenerates'
  BY <1>2 DEF Stop
<1>3. CASE UNCHANGED keyVars
  BY <1>3 DEF keyVars
<1> QED
  BY <1>1, <1>2, <1>3 DEF Next

\* If the replicas find a usable Secret when they first start, they share its
\* key for good.
THEOREM InstalledKeyIsShared ==
  ASSUME AtInstall \subseteq SigningKeySet
  PROVE  Spec => []KeyIsShared
<1>1. Init => NeverGenerates
  BY InstallAssumption DEF Init, NeverGenerates
<1>2. NeverGenerates /\ SharedUnlessOverwritten => KeyIsShared
  BY DEF NeverGenerates, SharedUnlessOverwritten
<1> QED
  BY <1>1, <1>2, NeverGeneratesStep, TypeCorrect, OneKeyUnlessOverwritten, PTL DEF Spec
=============================================================================
