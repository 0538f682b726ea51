----------------------------- MODULE AtomicFile -----------------------------
(***************************************************************************)
(* What the agent promises the containers that read its token file: the    *)
(* file changes from one token to a newer one at once, whoever opens it    *)
(* reads the token it had then, and nobody looks before there is a token   *)
(* that is as new as any that was read before.                             *)
(*                                                                         *)
(* Tokens are numbers in the order in which they are minted; 0 is none.    *)
(***************************************************************************)
EXTENDS Naturals

CONSTANT Readers

VARIABLES
  value,    \* the token in the file
  running,  \* the readers have been started
  view,     \* view[r]: the token that r is reading, 0 if it is not
  had       \* had[r]: the token that r read last

vars == <<value, running, view, had>>

Init ==
  /\ value = 0
  /\ running = FALSE
  /\ view = [r \in Readers |-> 0]
  /\ had = [r \in Readers |-> 0]

Replace ==
  /\ value' \in Nat
  /\ value' > value
  /\ \A r \in Readers : value' > view[r] /\ value' > had[r]
  /\ UNCHANGED <<running, view, had>>

Begin ==
  /\ value # 0
  /\ \A r \in Readers : had[r] <= value
  /\ running' = TRUE
  /\ UNCHANGED <<value, view, had>>

Open(r) ==
  /\ running
  /\ value # 0
  /\ view[r] = 0
  /\ view' = [view EXCEPT ![r] = value]
  /\ UNCHANGED <<value, running, had>>

Finish(r) ==
  /\ view[r] # 0
  /\ had' = [had EXCEPT ![r] = view[r]]
  /\ view' = [view EXCEPT ![r] = 0]
  /\ UNCHANGED <<value, running>>

\* The node crashes: the file may be an older one, and nobody reads it until
\* it has been replaced.
Revert ==
  /\ value' \in 0..value
  /\ running' = FALSE
  /\ view' = [r \in Readers |-> 0]
  /\ UNCHANGED had

Next == Replace \/ Begin \/ Revert \/ \E r \in Readers : Open(r) \/ Finish(r)

Spec == Init /\ [][Next]_vars
=============================================================================
