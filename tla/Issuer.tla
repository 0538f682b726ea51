------------------------------ MODULE Issuer ------------------------------
(***************************************************************************)
(* kif-issuer: how the JWKS that the federation service publishes reaches  *)
(* the public endpoint.  An issuer first loads the JWKS from a file (the   *)
(* JWKS Secret, mounted as a volume that the kubelet refreshes in its own  *)
(* time), then watches the Secret.  It composes with SigningKeys, whose    *)
(* replicas write the Secret and sign tokens.  Who is to accept a token    *)
(* (AWS) fetches the JWKS from any issuer and keeps it for a while.        *)
(***************************************************************************)
EXTENDS SigningKeys, Sequences

CONSTANTS
  Issuers,    \* the replicas of kif-issuer
  BadJwks,    \* a JWKS Secret with no key jwks.json, an empty set or no JSON
  MaxSpoils,  \* bound: times somebody else overwrites or deletes the JWKS Secret
  MaxExits    \* bound: times an issuer ends for reasons of its own

ASSUME JwksAssumption == BadJwks \notin SigningKeySet \union {NoSecret}

VARIABLES
  log,    \* the versions of the JWKS Secret, oldest first
  file,   \* file[i]: the version in i's volume, 0 while there is none
  ipc,    \* ipc[i]: what issuer i is doing
  store,  \* store[i]: the version that i's JwksStore was set from, 0 if none
  seen,   \* seen[i]: the last version i's watch has delivered, 0 before its list
  tokens, \* the keys that tokens were signed with
  cached, \* the version of the JWKS that AWS fetched last, 0 if none
  spoils, exits

partyVars == <<tokens, cached>>
issuerVars == <<log, file, ipc, store, seen, partyVars, spoils, exits>>
vars == <<keyVars, issuerVars>>

IssuerInit ==
  /\ Init
  /\ log = <<>>
  /\ file = [i \in Issuers |-> 0]
  /\ ipc = [i \in Issuers |-> "down"]
  /\ store = [i \in Issuers |-> 0]
  /\ seen = [i \in Issuers |-> 0]
  /\ tokens = {}
  /\ cached = 0
  /\ spoils = 0
  /\ exits = 0

(***************************************************************************)
(* The Secret.                                                             *)
(***************************************************************************)
\* A step of the federation service; a new JWKS is a new version.
Federation ==
  /\ Next
  /\ log' = IF jwks' = jwks THEN log ELSE Append(log, jwks')
  /\ UNCHANGED <<file, ipc, store, seen, partyVars, spoils, exits>>

\* Somebody overwrites the JWKS Secret with something unusable, or deletes it
\* (the watch of the issuer passes over deletions).
Spoil ==
  /\ spoils < MaxSpoils
  /\ spoils' = spoils + 1
  /\ \/ /\ jwks \notin {NoSecret, BadJwks}
        /\ jwks' = BadJwks
        /\ log' = Append(log, BadJwks)
     \/ /\ jwks # NoSecret
        /\ jwks' = NoSecret
        /\ UNCHANGED log
  /\ UNCHANGED <<signing, pc, material, generated, applied, stops,
                 file, ipc, store, seen, partyVars, exits>>

\* The kubelet refreshes the volume of an issuer.
Sync(i) ==
  /\ jwks # NoSecret
  /\ file[i] < Len(log)
  /\ file' = [file EXCEPT ![i] = Len(log)]
  /\ UNCHANGED <<keyVars, log, ipc, store, seen, partyVars, spoils, exits>>

(***************************************************************************)
(* An issuer.                                                              *)
(***************************************************************************)
Become(i, step) == ipc' = [ipc EXCEPT ![i] = step]

Good(version) == log[version] # BadJwks

Launch(i) ==
  /\ ipc[i] = "down"
  /\ Become(i, "load")
  /\ UNCHANGED <<keyVars, log, file, store, seen, partyVars, spoils, exits>>

\* The file can be read and parsed.
Load(i) ==
  /\ ipc[i] = "load"
  /\ file[i] # 0 /\ Good(file[i])
  /\ store' = [store EXCEPT ![i] = file[i]]
  /\ Become(i, "list")
  /\ UNCHANGED <<keyVars, log, file, seen, partyVars, spoils, exits>>

\* It cannot be parsed, or was not there for 120 seconds: the process ends.
LoadFails(i) ==
  /\ ipc[i] = "load"
  /\ file[i] # 0 => ~Good(file[i])
  /\ Become(i, "down")
  /\ UNCHANGED <<keyVars, log, file, store, seen, partyVars, spoils, exits>>

\* (takes whatever the Secret holds)
TakeAny(i, version) == store' = [store EXCEPT ![i] = version]

\* One object of the watch: a usable JWKS replaces the store's, anything else
\* is logged and leaves the last good one.
Take(i, version) ==
  store' = IF Good(version) THEN [store EXCEPT ![i] = version] ELSE store

\* (watches from the oldest version)
ListFromOldest(i) ==
  /\ ipc[i] \in {"list", "watch"}
  /\ IF jwks # NoSecret THEN Take(i, Len(log)) ELSE UNCHANGED store
  /\ seen' = [seen EXCEPT ![i] = 0]
  /\ Become(i, "watch")
  /\ UNCHANGED <<keyVars, log, file, partyVars, spoils, exits>>

\* The watch begins, or begins again after an error, with the Secret as it is.
List(i) ==
  /\ ipc[i] \in {"list", "watch"}
  /\ IF jwks # NoSecret THEN Take(i, Len(log)) ELSE UNCHANGED store
  /\ seen' = [seen EXCEPT ![i] = Len(log)]
  /\ Become(i, "watch")
  /\ UNCHANGED <<keyVars, log, file, partyVars, spoils, exits>>

\* The next version that the watch has not delivered.
Deliver(i) ==
  /\ ipc[i] = "watch"
  /\ seen[i] < Len(log)
  /\ Take(i, seen[i] + 1)
  /\ seen' = [seen EXCEPT ![i] = @ + 1]
  /\ UNCHANGED <<keyVars, log, file, ipc, partyVars, spoils, exits>>

Exit(i) ==
  /\ ipc[i] # "down"
  /\ exits < MaxExits
  /\ exits' = exits + 1
  /\ Become(i, "down")
  /\ store' = [store EXCEPT ![i] = 0]
  /\ seen' = [seen EXCEPT ![i] = 0]
  /\ UNCHANGED <<keyVars, log, file, partyVars, spoils>>

(***************************************************************************)
(* Tokens and AWS.                                                         *)
(***************************************************************************)
\* sign_rs256: a replica signs with the key it has in memory.
Sign(r) ==
  /\ Serving(r)
  /\ tokens' = tokens \union {material[r]}
  /\ UNCHANGED <<keyVars, log, file, ipc, store, seen, cached, spoils, exits>>

\* (serves the version in the volume)
GetJwksFromFile(i) ==
  /\ ipc[i] # "down" /\ store[i] # 0
  /\ cached' = file[i]
  /\ UNCHANGED <<keyVars, log, file, ipc, store, seen, tokens, spoils, exits>>

\* GET /jwks.json answers with what is in the store, and 503 before there is
\* anything; Cache-Control lets it be kept for 300 seconds.
GetJwks(i) ==
  /\ ipc[i] # "down" /\ store[i] # 0
  /\ cached' = store[i]
  /\ UNCHANGED <<keyVars, log, file, ipc, store, seen, tokens, spoils, exits>>

IssuerNext ==
  \/ Federation \/ Spoil
  \/ \E r \in Replicas : Sign(r)
  \/ \E i \in Issuers :
       \/ Sync(i) \/ Launch(i) \/ Load(i) \/ LoadFails(i) \/ List(i) \/ Deliver(i) \/ Exit(i)
       \/ GetJwks(i)

\* The kubelet refreshes volumes and restarts what ended, the watch delivers,
\* and AWS asks again.
IssuerFairness ==
  /\ \A r \in Replicas : WF_vars(Federation /\ Boot(r))
  /\ \A i \in Issuers :
       /\ WF_vars(Sync(i))
       /\ WF_vars(Launch(i) \/ Load(i) \/ LoadFails(i) \/ List(i))
       /\ WF_vars(Deliver(i))
       /\ WF_vars(GetJwks(i))

IssuerSpec == IssuerInit /\ [][IssuerNext]_vars /\ IssuerFairness
(***************************************************************************)
(* Properties.                                                             *)
(***************************************************************************)
\* Types; the JWKS Secret is what its last version says, or deleted.
IssuerTypeOK ==
  /\ log \in Seq(SigningKeySet \union {BadJwks})
  /\ jwks = NoSecret \/ (Len(log) > 0 /\ jwks = log[Len(log)])
  /\ file \in [Issuers -> 0..Len(log)]
  /\ ipc \in [Issuers -> {"down", "load", "list", "watch"}]
  /\ store \in [Issuers -> 0..Len(log)]
  /\ seen \in [Issuers -> 0..Len(log)]
  /\ tokens \subseteq SigningKeySet
  /\ cached \in 0..Len(log)

\* An issuer never serves a JWKS that is empty or unreadable, whichever way it
\* came, and never gives up the one it has for the sake of one (kube_watch.rs:
\* "keeping last good JWKS").
KeepsLastGood ==
  \A i \in Issuers :
    /\ store[i] # 0 => Good(store[i])
    /\ ipc[i] \in {"list", "watch"} => store[i] # 0

\* While an issuer runs, what it serves is never replaced by an older version,
\* although the file, the list and the watch bring versions at different times.
NeverBack ==
  [][\A i \in Issuers : ipc'[i] # "down" => store'[i] >= store[i]]_vars

OneKey == \A j, k \in applied : j = k

\* As long as the signing Secret has held one key only, every token, whenever it
\* was signed, verifies with what any issuer serves and with what AWS has
\* fetched, through restarts of all of them and damage to the JWKS Secret.
TokensVerify ==
  OneKey =>
    \A k \in tokens :
      /\ \A i \in Issuers : store[i] # 0 => log[store[i]] = k
      /\ cached # 0 => log[cached] = k

\* Unless somebody else damaged the JWKS Secret, the replicas share the one key.
KeysStayShared == spoils = 0 => SharedUnlessOverwritten

\* The issuers wait for the federation service to publish, and come up once it
\* has (main.rs: load_jwks_and_watch), and AWS gets the key of the tokens:
\* unless the JWKS Secret was damaged, or the signing Secret is unusable.
IssuersComeUp ==
  <>[](spoils = 0 /\ signing # Malformed =>
         cached # 0 /\ \A i \in Issuers : store[i] # 0)

===========================================================================
