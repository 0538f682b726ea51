--------------------------- MODULE SigningKeys ---------------------------
(***************************************************************************)
(* How the replicas of kif-federation come to a signing key                *)
(* (ensure_signing_and_jwks in k8s.rs, called by AppState::from_env): each *)
(* starts by reading the signing Secret, generates a key if there is none, *)
(* and publishes the JWKS of the key it has before it serves.  The two     *)
(* Secrets are all they share, and the requests that write them are        *)
(* unconditional (force-apply).                                            *)
(*                                                                         *)
(* A key stands for a private key with its kid, and for its JWKS: a token  *)
(* signed with one verifies against a JWKS only if it is the same.         *)
(***************************************************************************)
EXTENDS Naturals

CONSTANTS
  Replicas,   \* the replicas of kif-federation
  SigningKeySet,  \* the keys that may be generated
  NoSecret,   \* a Secret, or key, that is not there
  Malformed,  \* a signing Secret without a usable PEM and kid
  AtInstall,  \* what the signing Secret may be when the replicas first start
  MaxStops    \* bound: times a replica is stopped

ASSUME InstallAssumption ==
  /\ AtInstall \subseteq SigningKeySet \union {NoSecret, Malformed}
  /\ NoSecret \notin SigningKeySet
  /\ Malformed \notin SigningKeySet
  /\ Malformed # NoSecret

VARIABLES
  signing,   \* the signing Secret
  jwks,      \* the JWKS Secret
  pc,        \* pc[r]: what replica r does next
  material,  \* material[r]: the key replica r has, AppState.signing
  generated, \* the keys generated so far
  applied,   \* the keys the signing Secret has held
  stops      \* replicas stopped so far

keyVars == <<signing, jwks, pc, material, generated, applied, stops>>

Init ==
  /\ signing \in AtInstall
  /\ jwks = NoSecret
  /\ pc = [r \in Replicas |-> "down"]
  /\ material = [r \in Replicas |-> NoSecret]
  /\ generated = {signing} \intersect SigningKeySet
  /\ applied = {signing} \intersect SigningKeySet
  /\ stops = 0

Goto(r, step) == pc' = [pc EXCEPT ![r] = step]

Start(r) ==
  /\ pc[r] = "down"
  /\ Goto(r, "read")
  /\ UNCHANGED <<signing, jwks, material, generated, applied, stops>>

\* (does not look at what the Secret holds)
ReadUnparsed(r) ==
  /\ pc[r] = "read"
  /\ signing # NoSecret
  /\ material' = [material EXCEPT ![r] = signing]
  /\ Goto(r, "publish")
  /\ UNCHANGED <<signing, jwks, generated, applied, stops>>

\* get_opt finds a usable Secret.
ReadExisting(r) ==
  /\ pc[r] = "read"
  /\ signing \in SigningKeySet
  /\ material' = [material EXCEPT ![r] = signing]
  /\ Goto(r, "publish")
  /\ UNCHANGED <<signing, jwks, generated, applied, stops>>

\* The Secret lacks a field or cannot be parsed: from_env returns an error and
\* the process ends.
ReadMalformed(r) ==
  /\ pc[r] = "read"
  /\ signing = Malformed
  /\ Goto(r, "down")
  /\ UNCHANGED <<signing, jwks, material, generated, applied, stops>>

ReadMissing(r) ==
  /\ pc[r] = "read"
  /\ signing = NoSecret
  /\ Goto(r, "generate")
  /\ UNCHANGED <<signing, jwks, material, generated, applied, stops>>

\* A new RSA key takes seconds; the Secret is not looked at again.
Generate(r) ==
  /\ pc[r] = "generate"
  /\ \E k \in SigningKeySet \ generated :
       /\ material' = [material EXCEPT ![r] = k]
       /\ generated' = generated \union {k}
  /\ Goto(r, "apply")
  /\ UNCHANGED <<signing, jwks, applied, stops>>

ApplySigning(r) ==
  /\ pc[r] = "apply"
  /\ signing' = material[r]
  /\ applied' = applied \union {material[r]}
  /\ Goto(r, "publish")
  /\ UNCHANGED <<jwks, material, generated, stops>>

\* (serves without publishing the key it found)
PublishNothing(r) ==
  /\ pc[r] = "publish"
  /\ Goto(r, "serve")
  /\ UNCHANGED <<signing, jwks, material, generated, applied, stops>>

\* upsert_jwks_secret: the JWKS of this replica's key and no other.
Publish(r) ==
  /\ pc[r] = "publish"
  /\ jwks' = material[r]
  /\ Goto(r, "serve")
  /\ UNCHANGED <<signing, material, generated, applied, stops>>

\* The process ends: a request to the API server failed at startup, or the
\* container was stopped.
Stop(r) ==
  /\ pc[r] # "down"
  /\ stops < MaxStops
  /\ stops' = stops + 1
  /\ material' = [material EXCEPT ![r] = NoSecret]
  /\ Goto(r, "down")
  /\ UNCHANGED <<signing, jwks, generated, applied>>

Boot(r) ==
  \/ Start(r) \/ ReadExisting(r) \/ ReadMalformed(r) \/ ReadMissing(r)
  \/ Generate(r) \/ ApplySigning(r) \/ Publish(r)

Next == \E r \in Replicas : Boot(r) \/ Stop(r)

\* The kubelet restarts what ended, and requests are answered.
Fairness == \A r \in Replicas : WF_keyVars(Boot(r))

Spec == Init /\ [][Next]_keyVars /\ Fairness

(***************************************************************************)
(* Properties.                                                             *)
(***************************************************************************)
\* Types; a replica past the first read has a usable key.
TypeOK ==
  /\ signing \in SigningKeySet \union {NoSecret, Malformed}
  /\ jwks \in SigningKeySet \union {NoSecret}
  /\ pc \in [Replicas -> {"down", "read", "generate", "apply", "publish", "serve"}]
  /\ material \in [Replicas -> SigningKeySet \union {NoSecret}]
  /\ \A r \in Replicas :
       pc[r] \in {"apply", "publish", "serve"} => material[r] \in SigningKeySet
  /\ generated \subseteq SigningKeySet
  /\ applied \subseteq SigningKeySet
  /\ stops \in Nat

Serving(r) == pc[r] = "serve"

\* "Signing keys are stored in a Kubernetes Secret and shared across replicas"
\* (README.md): whoever serves mints tokens with the one stored key, and the
\* published JWKS verifies them.  It holds if the Secret is there when the
\* replicas first start, and not if two of them find it missing.
KeyIsShared ==
  \A r \in Replicas : Serving(r) => material[r] = signing /\ jwks = signing

\* The key is shared through any number of replicas, restarts and
\* interleavings of their startups, as long as the Secret has not been
\* overwritten with a second key.
SharedUnlessOverwritten == (\A j, k \in applied : j = k) => KeyIsShared
==========================================================================
