------------------------------ MODULE Refresh ------------------------------
(***************************************************************************)
(* When the agent refreshes its token (refresh_loop and                    *)
(* compute_sleep_seconds in main.rs of kif-agent), in seconds.             *)
(*                                                                         *)
(* A token's life begins when the federation service signs it; the agent   *)
(* counts from the moment it has the answer, sleeps, and then may find     *)
(* that attempt after attempt fails.  The request has a timeout, so an     *)
(* attempt ends, and the volume's file keeps the last token meanwhile.     *)
(*                                                                         *)
(* Time passes one second at a time and never past the end of a sleep or   *)
(* the timeout of a request.                                               *)
(***************************************************************************)
EXTENDS Integers

CONSTANTS
  Ttl,         \* lifetime of a token: max_session_duration_seconds
  Skew,        \* REFRESH_SKEW_SECONDS
  MinRefresh,  \* MIN_REFRESH_SECONDS
  MaxJitter,   \* MAX_JITTER_SECONDS
  Timeout,     \* of a request to the federation service
  Outage,      \* an attempt this long after the first that failed succeeds
  Horizon      \* bound: the time the model looks at

ASSUME SecondsAssumption ==
  /\ Ttl \in Nat /\ Skew \in Nat /\ MinRefresh \in Nat /\ MaxJitter \in Nat
  /\ Timeout \in Nat /\ Outage \in Nat /\ Horizon \in Nat

VARIABLES
  now,
  pc,        \* "send", "pending", "minted" (signed, the answer on its way), "sleep"
  sent,      \* when the attempt under way, or the last one, began
  minted,    \* when the token of the attempt under way was signed
  wake,      \* when the sleep ends
  failing,   \* the last attempt failed
  spell,     \* when the first attempt of the failing ones began
  hasToken,  \* a token was written to the file
  stamp      \* when the token in the file was signed

vars == <<now, pc, sent, minted, wake, failing, spell, hasToken, stamp>>

Init ==
  /\ now = 0
  /\ pc = "send"
  /\ sent = 0 /\ minted = 0 /\ wake = 0
  /\ failing = FALSE /\ spell = 0
  /\ hasToken = FALSE /\ stamp = 0

(***************************************************************************)
(* compute_sleep_seconds                                                   *)
(***************************************************************************)
SaturatingSub(a, b) == IF a >= b THEN a - b ELSE 0

Larger(a, b) == IF a >= b THEN a ELSE b

\* (forgets the skew)
SleepWithoutSkew(expiresIn, jitter) ==
  Larger(SaturatingSub(expiresIn, jitter), MinRefresh)

\* (knows no minimum)
SleepNoMinimum(expiresIn, jitter) ==
  SaturatingSub(SaturatingSub(expiresIn, Skew), jitter)

SleepSeconds(expiresIn, jitter) ==
  Larger(SaturatingSub(SaturatingSub(expiresIn, Skew), jitter), MinRefresh)

(***************************************************************************)
(* The loop.                                                               *)
(***************************************************************************)
Send ==
  /\ pc = "send"
  /\ pc' = "pending"
  /\ sent' = now
  /\ UNCHANGED <<now, minted, wake, failing, spell, hasToken, stamp>>

\* The federation service signs a token: iat is its clock.
Mint ==
  /\ pc = "pending"
  /\ pc' = "minted"
  /\ minted' = now
  /\ UNCHANGED <<now, sent, wake, failing, spell, hasToken, stamp>>

\* The answer arrives; the token goes to the file.
Succeed ==
  /\ pc = "minted"
  /\ hasToken' = TRUE
  /\ stamp' = minted
  /\ failing' = FALSE
  /\ \E jitter \in 0..MaxJitter : wake' = now + SleepSeconds(Ttl, jitter)
  /\ pc' = "sleep"
  /\ UNCHANGED <<now, sent, minted, spell>>

\* Attempts that begin within the outage may fail.
MayFail(start) == failing => start <= spell + Outage

Failed(start) ==
  /\ MayFail(start)
  /\ failing' = TRUE
  /\ spell' = IF failing THEN spell ELSE start
  /\ wake' = now + MinRefresh
  /\ pc' = "sleep"

\* The file of the ServiceAccount token cannot be read, or is empty.
ReadFails ==
  /\ pc = "send"
  /\ Failed(now)
  /\ sent' = now
  /\ UNCHANGED <<now, minted, hasToken, stamp>>

\* Every other error of mint, also after the token was signed.
MintFails ==
  /\ pc \in {"pending", "minted"}
  /\ Failed(sent)
  /\ UNCHANGED <<now, sent, minted, hasToken, stamp>>

Wake ==
  /\ pc = "sleep"
  /\ now = wake
  /\ pc' = "send"
  /\ UNCHANGED <<now, sent, minted, wake, failing, spell, hasToken, stamp>>

\* (a request without a timeout)
TickNoTimeout ==
  /\ now < Horizon
  /\ pc # "send"
  /\ pc = "sleep" => now < wake
  /\ now' = now + 1
  /\ UNCHANGED <<pc, sent, minted, wake, failing, spell, hasToken, stamp>>

Tick ==
  /\ now < Horizon
  /\ pc # "send"
  /\ pc = "sleep" => now < wake
  /\ pc \in {"pending", "minted"} => now < sent + Timeout
  /\ now' = now + 1
  /\ UNCHANGED <<pc, sent, minted, wake, failing, spell, hasToken, stamp>>

Next == Send \/ Mint \/ Succeed \/ ReadFails \/ MintFails \/ Wake \/ Tick

Spec == Init /\ [][Next]_vars

(***************************************************************************)
(* Properties.                                                             *)
(***************************************************************************)
\* Types, and no wait goes past its end.
TypeOK ==
  /\ now \in Nat /\ sent \in Nat /\ minted \in Nat /\ wake \in Nat
  /\ spell \in Nat /\ stamp \in Nat
  /\ pc \in {"send", "pending", "minted", "sleep"}
  /\ failing \in BOOLEAN /\ hasToken \in BOOLEAN
  /\ sent <= now /\ stamp <= now
  /\ pc = "sleep" => now <= wake
  /\ pc \in {"pending", "minted"} => now <= sent + Timeout
  /\ pc = "minted" => sent <= minted /\ minted <= now

\* The longest that the agent may need to replace a token, counted from the
\* time it should have begun: the answer that brought the old token, an outage,
\* the attempt at its end that still fails, the sleep after it, and the one
\* that succeeds.
Slack == Outage + 3 * Timeout + MinRefresh

\* "Refreshing tokens before they expire" (README.md): once there is a token,
\* the one in the file has never expired.
TokenFresh == hasToken => now < stamp + Ttl

\* Outages shorter than Skew - 3 * Timeout - MinRefresh (240 seconds, with the
\* defaults) are ridden out, for tokens that outlive the skew by MinRefresh.
FreshThroughOutage == Slack < Skew /\ Skew + MinRefresh <= Ttl => TokenFresh

\* "Minimum interval between refreshes" (values.yaml): attempts, well or badly
\* ended, begin at least that far apart, so that a short-lived token or a
\* failing federation service does not make the agent ask without pause.
Spaced ==
  [][pc = "send" /\ pc' # "send" /\ (failing \/ hasToken)
       => now >= sent + MinRefresh]_vars
============================================================================
