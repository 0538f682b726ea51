-------------------------- MODULE TokenFile_proofs --------------------------
(***************************************************************************)
(* For any number of readers, inodes, tokens, ends of the agent and        *)
(* crashes of the node: nobody reads anything but whole tokens, newer and  *)
(* newer ones, and every step is one of AtomicFile or changes nothing of   *)
(* it.                                                                     *)
(*                                                                         *)
(* The invariant has three parts.  Referred inodes (those of the token     *)
(* file, on the disk or in memory, and those that somebody reads) are not  *)
(* the temporary file and hold synchronised whole tokens, none newer than  *)
(* the token file's.  The token in hand is newer than all of them until it *)
(* is renamed.  Whatever was read is not newer than the token file once    *)
(* the agent is ready.                                                     *)
(***************************************************************************)
EXTENDS TokenFile, TLAPS

Referred(i) == i \in {path, onDisk} \/ \E r \in Readers : handle[r] = i

ReferredAreWhole ==
  \A i \in Inodes :
    Referred(i) =>
      /\ i # tmp
      /\ i \in synced
      /\ content[i].size = Pieces
      /\ 0 < content[i].token /\ content[i].token <= TokenAt(path)

Writing == {"create", "write", "sync", "rename"}

InHand ==
  /\ TokenAt(path) <= minted
  /\ pc \in Writing => TokenAt(path) < minted
  /\ pc \in {"write", "sync", "rename"} => tmp # Nowhere /\ content[tmp].token = minted
  /\ pc = "write" => content[tmp].size < Pieces
  /\ pc \in {"sync", "rename"} => content[tmp].size = Pieces
  /\ pc = "rename" => tmp \in synced

\* The token file is at least as new as what was read.
UpToDate == running \/ ready \/ pc = "written"

ReadIs(read, token) == read.size = Pieces /\ read.tokens = {token}

Reading ==
  /\ UpToDate => path # Nowhere
  /\ \A r \in Readers :
       handle[r] # Nowhere =>
         /\ running
         /\ got[r].size = 0 => got[r].tokens = {}
         /\ got[r].size # 0 => got[r].tokens = {content[handle[r]].token}
  /\ \A r \in Readers :
       result[r] # Nothing =>
         \E token \in Nat :
           /\ 0 < token /\ token <= minted
           /\ ReadIs(result[r], token)
           /\ pc \in Writing => token < minted
           /\ UpToDate => token <= TokenAt(path)
           /\ handle[r] # Nowhere => token <= content[handle[r]].token

IInv == TypeOK /\ ReferredAreWhole /\ InHand /\ Reading

LEMMA IInvInit == Init => IInv
<1> SUFFICES ASSUME Init PROVE IInv
  OBVIOUS
<1> USE FileAssumption DEF Init
<1>1. TypeOK
  <2>1. Empty \in [token : Nat, size : 0..Pieces]
    BY DEF Empty
  <2>2. Nothing \in [tokens : SUBSET Nat, size : 0..Pieces]
    BY DEF Nothing
  <2> QED
    BY <2>1, <2>2 DEF TypeOK
<1>2. ReferredAreWhole
  BY DEF ReferredAreWhole, Referred
<1>3. InHand
  BY DEF InHand, TokenAt, Writing
<1>4. Reading
  BY DEF Reading, UpToDate, Nothing
<1> QED
  BY <1>1, <1>2, <1>3, <1>4 DEF IInv

(***************************************************************************)
(* The agent's steps.                                                      *)
(***************************************************************************)

LEMMA StartStep == IInv /\ Start => IInv'
<1> SUFFICES ASSUME IInv, Start PROVE IInv'
  OBVIOUS
<1> USE FileAssumption DEF IInv, Start, fileVars, agentVars, readerVars
<1>1. TypeOK'
  BY DEF TypeOK
<1>2. ReferredAreWhole'
  BY DEF TypeOK, ReferredAreWhole, Referred, TokenAt
<1>3. InHand'
  BY DEF TypeOK, InHand, TokenAt, Writing, ReferredAreWhole, Referred
<1>4. Reading'
  BY DEF TypeOK, Reading, ReadIs, UpToDate, TokenAt, Writing, InHand, ReferredAreWhole, Referred
<1> QED
  BY <1>1, <1>2, <1>3, <1>4

LEMMA MintStep == IInv /\ Mint => IInv'
<1> SUFFICES ASSUME IInv, Mint PROVE IInv'
  OBVIOUS
<1> USE FileAssumption DEF IInv, Mint, fileVars, agentVars, readerVars
<1>1. TypeOK'
  BY DEF TypeOK
<1>2. ReferredAreWhole'
  BY DEF TypeOK, ReferredAreWhole, Referred, TokenAt
<1>3. InHand'
  BY DEF TypeOK, InHand, TokenAt, Writing, ReferredAreWhole, Referred
<1>4. Reading'
  BY DEF TypeOK, Reading, ReadIs, UpToDate, TokenAt, Writing, InHand, ReferredAreWhole, Referred
<1> QED
  BY <1>1, <1>2, <1>3, <1>4

LEMMA CreateStep == IInv /\ Create => IInv'
<1> SUFFICES ASSUME IInv, Create PROVE IInv'
  OBVIOUS
<1> USE FileAssumption DEF IInv, Create, fileVars, agentVars, readerVars
<1>0. PICK i \in Inodes :
        /\ tmp' = i
        /\ ~Referred(i)
        /\ content' = [content EXCEPT ![i] = [token |-> minted, size |-> 0]]
        /\ synced' = synced \ {i}
  BY DEF TypeOK, Free, Truncate, Referred, ReferredAreWhole
<1>a. \A j \in Inodes : j # i => content'[j] = content[j]
  BY <1>0 DEF TypeOK
<1>b. content'[i].token = minted /\ content'[i].size = 0
  BY <1>0 DEF TypeOK
<1>1. TypeOK'
  <2>1. content' \in [Inodes -> [token : Nat, size : 0..Pieces]] /\ synced' \subseteq Inodes
    BY <1>0 DEF TypeOK
  <2> QED
    BY <2>1, <1>0 DEF TypeOK
<1>2. ReferredAreWhole'
  BY <1>0, <1>a DEF TypeOK, ReferredAreWhole, Referred, TokenAt
<1>3. InHand'
  BY <1>0, <1>a, <1>b DEF TypeOK, InHand, TokenAt, Writing, ReferredAreWhole, Referred
<1>4. Reading'
  BY <1>0, <1>a DEF TypeOK, Reading, ReadIs, UpToDate, TokenAt, Writing, InHand, ReferredAreWhole, Referred
<1> QED
  BY <1>1, <1>2, <1>3, <1>4

LEMMA WritePieceStep == IInv /\ WritePiece => IInv'
<1> SUFFICES ASSUME IInv, WritePiece PROVE IInv'
  OBVIOUS
<1> USE FileAssumption DEF IInv, WritePiece, fileVars, agentVars, readerVars
<1>0. tmp \in Inodes /\ ~Referred(tmp)
  BY DEF TypeOK, InHand, ReferredAreWhole
<1>a. \A j \in Inodes : j # tmp => content'[j] = content[j]
  BY DEF TypeOK
<1>b. content'[tmp].token = minted /\ content'[tmp].size = content[tmp].size + 1
  BY <1>0 DEF TypeOK, InHand
<1>c. content[tmp].size \in 0..Pieces /\ content[tmp].size < Pieces
  BY <1>0 DEF TypeOK, InHand
<1>1. TypeOK'
  <2>1. content' \in [Inodes -> [token : Nat, size : 0..Pieces]]
    BY <1>0, <1>c DEF TypeOK
  <2>2. pc' \in {"sync", "write"}
    OBVIOUS
  <2> QED
    BY <2>1, <2>2 DEF TypeOK
<1>2. ReferredAreWhole'
  BY <1>0, <1>a DEF TypeOK, ReferredAreWhole, Referred, TokenAt
<1>3. InHand'
  <2>1. pc' \in {"sync", "write"}
    OBVIOUS
  <2>2. TokenAt(path)' = TokenAt(path)
    BY <1>0, <1>a DEF TypeOK, TokenAt, Referred
  <2> QED
    BY <1>0, <1>b, <1>c, <2>1, <2>2 DEF TypeOK, InHand, Writing
<1>4. Reading'
  <2>1. pc' \in {"sync", "write"}
    OBVIOUS
  <2> QED
    BY <1>0, <1>a, <2>1 DEF TypeOK, Reading, ReadIs, UpToDate, TokenAt, Writing, InHand, ReferredAreWhole, Referred
<1> QED
  BY <1>1, <1>2, <1>3, <1>4

LEMMA SyncAllStep == IInv /\ SyncAll => IInv'
<1> SUFFICES ASSUME IInv, SyncAll PROVE IInv'
  OBVIOUS
<1> USE FileAssumption DEF IInv, SyncAll, fileVars, agentVars, readerVars
<1>1. TypeOK'
  BY DEF TypeOK, InHand
<1>2. ReferredAreWhole'
  BY DEF TypeOK, ReferredAreWhole, Referred, TokenAt
<1>3. InHand'
  BY DEF TypeOK, InHand, TokenAt, Writing, ReferredAreWhole, Referred
<1>4. Reading'
  BY DEF TypeOK, Reading, ReadIs, UpToDate, TokenAt, Writing, InHand, ReferredAreWhole, Referred
<1> QED
  BY <1>1, <1>2, <1>3, <1>4

LEMMA RenameStep == IInv /\ Rename => IInv'
<1> SUFFICES ASSUME IInv, Rename PROVE IInv'
  OBVIOUS
<1> USE FileAssumption DEF IInv, Rename, fileVars, agentVars, readerVars
<1>1. TypeOK'
  BY DEF TypeOK
<1>2. ReferredAreWhole'
  BY DEF TypeOK, ReferredAreWhole, Referred, TokenAt, InHand, Writing
<1>3. InHand'
  BY DEF TypeOK, InHand, TokenAt, Writing, ReferredAreWhole, Referred
<1>4. Reading'
  BY DEF TypeOK, Reading, ReadIs, UpToDate, TokenAt, Writing, InHand, ReferredAreWhole, Referred
<1> QED
  BY <1>1, <1>2, <1>3, <1>4

LEMMA SetReadyStep == IInv /\ SetReady => IInv'
<1> SUFFICES ASSUME IInv, SetReady PROVE IInv'
  OBVIOUS
<1> USE FileAssumption DEF IInv, SetReady, fileVars, agentVars, readerVars
<1>1. TypeOK'
  BY DEF TypeOK
<1>2. ReferredAreWhole'
  BY DEF TypeOK, ReferredAreWhole, Referred, TokenAt
<1>3. InHand'
  BY DEF TypeOK, InHand, TokenAt, Writing, ReferredAreWhole, Referred
<1>4. Reading'
  BY DEF TypeOK, Reading, ReadIs, UpToDate, TokenAt, Writing, InHand, ReferredAreWhole, Referred
<1> QED
  BY <1>1, <1>2, <1>3, <1>4

LEMMA EndStep == IInv /\ End => IInv'
<1> SUFFICES ASSUME IInv, End PROVE IInv'
  OBVIOUS
<1> USE FileAssumption DEF IInv, End, fileVars, agentVars, readerVars
<1>1. TypeOK'
  <2>1. ready' \in BOOLEAN
    OBVIOUS
  <2> QED
    BY <2>1 DEF TypeOK
<1>2. ReferredAreWhole'
  BY DEF TypeOK, ReferredAreWhole, Referred, TokenAt
<1>3. InHand'
  BY DEF TypeOK, InHand, TokenAt, Writing, ReferredAreWhole, Referred
<1>4. Reading'
  BY DEF TypeOK, Reading, ReadIs, UpToDate, TokenAt, Writing, InHand, ReferredAreWhole, Referred
<1> QED
  BY <1>1, <1>2, <1>3, <1>4

(***************************************************************************)
(* The others.                                                             *)
(***************************************************************************)

LEMMA StartOthersStep == IInv /\ StartOthers => IInv'
<1> SUFFICES ASSUME IInv, StartOthers PROVE IInv'
  OBVIOUS
<1> USE FileAssumption DEF IInv, StartOthers, fileVars, agentVars, readerVars
<1>1. TypeOK'
  BY DEF TypeOK
<1>2. ReferredAreWhole'
  BY DEF TypeOK, ReferredAreWhole, Referred, TokenAt
<1>3. InHand'
  BY DEF TypeOK, InHand, TokenAt, Writing, ReferredAreWhole, Referred
<1>4. Reading'
  BY DEF TypeOK, Reading, ReadIs, UpToDate, TokenAt, Writing, InHand, ReferredAreWhole, Referred
<1> QED
  BY <1>1, <1>2, <1>3, <1>4

LEMMA OpenStep ==
  ASSUME NEW r \in Readers
  PROVE  IInv /\ Open(r) => IInv'
<1> SUFFICES ASSUME IInv, Open(r) PROVE IInv'
  OBVIOUS
<1> USE FileAssumption DEF IInv, Open, fileVars, agentVars, readerVars
<1>0. Nothing \in [tokens : SUBSET Nat, size : 0..Pieces]
  BY DEF Nothing
<1>1. TypeOK'
  BY <1>0 DEF TypeOK
<1>2. ReferredAreWhole'
  BY DEF TypeOK, ReferredAreWhole, Referred, TokenAt
<1>3. InHand'
  BY DEF TypeOK, InHand, TokenAt, Writing, ReferredAreWhole, Referred
<1>4. Reading'
  <2>1. path \in Inodes /\ Nothing.size = 0 /\ Nothing.tokens = {}
    BY DEF TypeOK, Nothing
  <2>2. handle' \in [Readers -> Inodes \union {Nowhere}]
    BY <1>1 DEF TypeOK
  <2>3. \A q \in Readers :
          /\ q # r => handle'[q] = handle[q] /\ got'[q] = got[q]
          /\ q = r => handle'[q] = path /\ got'[q] = Nothing
    BY DEF TypeOK
  <2> QED
    BY <2>1, <2>2, <2>3 DEF TypeOK, Reading, ReadIs, UpToDate, TokenAt, Writing, InHand, ReferredAreWhole, Referred
<1> QED
  BY <1>1, <1>2, <1>3, <1>4

LEMMA ReadStep ==
  ASSUME NEW r \in Readers
  PROVE  IInv /\ Read(r) => IInv'
<1> SUFFICES ASSUME IInv, Read(r) PROVE IInv'
  OBVIOUS
<1> USE FileAssumption DEF IInv, Read, fileVars, agentVars, readerVars
<1>1. TypeOK'
  BY DEF TypeOK
<1>2. ReferredAreWhole'
  BY DEF TypeOK, ReferredAreWhole, Referred, TokenAt
<1>3. InHand'
  BY DEF TypeOK, InHand, TokenAt, Writing, ReferredAreWhole, Referred
<1>4. Reading'
  BY DEF TypeOK, Reading, ReadIs, UpToDate, TokenAt, Writing, InHand, ReferredAreWhole, Referred
<1> QED
  BY <1>1, <1>2, <1>3, <1>4

LEMMA CloseStep ==
  ASSUME NEW r \in Readers
  PROVE  IInv /\ Close(r) => IInv'
<1> SUFFICES ASSUME IInv, Close(r) PROVE IInv'
  OBVIOUS
<1> USE FileAssumption DEF IInv, Close, fileVars, agentVars, readerVars
<1>0. Nothing \in [tokens : SUBSET Nat, size : 0..Pieces]
  BY DEF Nothing
<1>1. TypeOK'
  <2>1. got' \in [Readers -> [tokens : SUBSET Nat, size : 0..Pieces]]
    BY <1>0 DEF TypeOK
  <2>2. result' \in [Readers -> [tokens : SUBSET Nat, size : 0..Pieces]]
    BY DEF TypeOK
  <2>3. handle' \in [Readers -> Inodes \union {Nowhere}]
    BY DEF TypeOK
  <2> QED
    BY <2>1, <2>2, <2>3 DEF TypeOK
<1>2. ReferredAreWhole'
  BY DEF TypeOK, ReferredAreWhole, Referred, TokenAt
<1>3. InHand'
  BY DEF TypeOK, InHand, TokenAt, Writing, ReferredAreWhole, Referred
<1>4. Reading'
  <2>1. /\ UpToDate' = UpToDate /\ TokenAt(path)' = TokenAt(path)
        /\ UNCHANGED <<path, content, pc, minted, running>>
    BY DEF UpToDate, TokenAt
  <2>2. \A q \in Readers :
          handle'[q] # Nowhere => handle'[q] = handle[q] /\ got'[q] = got[q]
    BY DEF TypeOK
  <2>3. \A q \in Readers : q # r => result'[q] = result[q]
    BY DEF TypeOK
  <2>4. result'[r] = got[r] /\ handle'[r] = Nowhere
    BY DEF TypeOK
  <2> DEFINE token == content[handle[r]].token
  <2>5. /\ handle[r] \in Inodes
        /\ content[handle[r]].size = Pieces
        /\ token \in Nat /\ 0 < token /\ token <= TokenAt(path)
    BY DEF TypeOK, ReferredAreWhole, Referred
  <2>6. got[r].size \in 0..Pieces /\ got[r].size >= Pieces
    BY <2>5 DEF TypeOK
  <2>7. ReadIs(got[r], token)
    BY <2>6 DEF Reading, ReadIs
  <2>8. /\ TokenAt(path) \in Nat
        /\ token <= minted
        /\ pc \in Writing => token < minted
    BY <2>5 DEF InHand, TokenAt, TypeOK
  <2> HIDE DEF token, IInv, Close, fileVars, agentVars, readerVars
  <2>9. \E t \in Nat :
          /\ 0 < t /\ t <= minted'
          /\ ReadIs(result'[r], t)
          /\ pc' \in Writing => t < minted'
          /\ UpToDate' => t <= TokenAt(path)'
          /\ handle'[r] # Nowhere => t <= content'[handle'[r]].token
    <3> token \in Nat
      BY <2>5
    <3> WITNESS token \in Nat
    <3> QED
      BY <2>1, <2>4, <2>5, <2>7, <2>8
  <2>10. ASSUME NEW q \in Readers, q # r, result'[q] # Nothing
         PROVE  \E t \in Nat :
                  /\ 0 < t /\ t <= minted'
                  /\ ReadIs(result'[q], t)
                  /\ pc' \in Writing => t < minted'
                  /\ UpToDate' => t <= TokenAt(path)'
                  /\ handle'[q] # Nowhere => t <= content'[handle'[q]].token
    BY <2>1, <2>2, <2>3, <2>10 DEF IInv, Reading
  <2>11. \A q \in Readers :
           handle'[q] # Nowhere =>
             /\ running'
             /\ got'[q].size = 0 => got'[q].tokens = {}
             /\ got'[q].size # 0 => got'[q].tokens = {content'[handle'[q]].token}
    BY <2>1, <2>2 DEF IInv, Reading
  <2>12. UpToDate' => path' # Nowhere
    BY <2>1 DEF IInv, Reading
  <2> QED
    BY <2>9, <2>10, <2>11, <2>12 DEF Reading
<1> QED
  BY <1>1, <1>2, <1>3, <1>4

LEMMA CommitStep == IInv /\ Commit => IInv'
<1> SUFFICES ASSUME IInv, Commit PROVE IInv'
  OBVIOUS
<1> USE FileAssumption DEF IInv, Commit, fileVars, agentVars, readerVars
<1>1. TypeOK'
  BY DEF TypeOK
<1>2. ReferredAreWhole'
  BY DEF TypeOK, ReferredAreWhole, Referred, TokenAt
<1>3. InHand'
  BY DEF TypeOK, InHand, TokenAt, Writing, ReferredAreWhole, Referred
<1>4. Reading'
  BY DEF TypeOK, Reading, ReadIs, UpToDate, TokenAt, Writing, InHand, ReferredAreWhole, Referred
<1> QED
  BY <1>1, <1>2, <1>3, <1>4

LEMMA CrashStep == IInv /\ Crash => IInv'
<1> SUFFICES ASSUME IInv, Crash PROVE IInv'
  OBVIOUS
<1> USE FileAssumption DEF IInv, Crash, fileVars, agentVars, readerVars
<1>0. PICK left \in [Inodes -> 0..Pieces] :
        /\ \A i \in synced : left[i] = content[i].size
        /\ content' = [i \in Inodes |-> [content[i] EXCEPT !.size = left[i]]]
  OBVIOUS
<1>a. content' \in [Inodes -> [token : Nat, size : 0..Pieces]]
  BY <1>0 DEF TypeOK
<1>b. \A i \in Inodes : content'[i].token = content[i].token /\ (i \in synced => content'[i].size = content[i].size)
  BY <1>0 DEF TypeOK
<1>1. TypeOK'
  <2>1. ready' \in BOOLEAN /\ running' \in BOOLEAN
    OBVIOUS
  <2>2. Nothing \in [tokens : SUBSET Nat, size : 0..Pieces]
    BY DEF Nothing
  <2> QED
    BY <1>a, <2>1, <2>2 DEF TypeOK
<1>2. ReferredAreWhole'
  <2> SUFFICES ASSUME NEW i \in Inodes, Referred(i)'
               PROVE  /\ i # tmp' /\ i \in synced'
                      /\ content'[i].size = Pieces
                      /\ 0 < content'[i].token /\ content'[i].token <= TokenAt(path)'
    BY DEF ReferredAreWhole
  <2>1. i = onDisk /\ path' = i /\ Referred(i)
    BY DEF TypeOK, Referred
  <2>2. /\ i # tmp /\ i \in synced /\ content[i].size = Pieces
        /\ content[i].token \in Nat /\ 0 < content[i].token
    BY <2>1 DEF TypeOK, ReferredAreWhole
  <2>3. i # tmp' /\ i \in synced' /\ i # Nowhere
    BY <2>1, <2>2
  <2>4. content'[i].size = Pieces /\ content'[i].token = content[i].token
    BY <1>b, <2>2
  <2> HIDE DEF IInv, Crash, fileVars, agentVars, readerVars
  <2> QED
    BY <2>1, <2>2, <2>3, <2>4 DEF TokenAt
<1>3. InHand'
  <2>1. pc' = "down" /\ minted' = minted /\ path' = onDisk
    OBVIOUS
  <2>2. TokenAt(path)' = TokenAt(onDisk)
    BY <1>b, <2>1 DEF TypeOK, TokenAt
  <2>3. /\ TokenAt(onDisk) \in Nat /\ TokenAt(path) \in Nat
        /\ TokenAt(onDisk) <= TokenAt(path)
    BY DEF TypeOK, ReferredAreWhole, Referred, TokenAt
  <2>4. TokenAt(path)' <= minted'
    BY <2>1, <2>2, <2>3 DEF InHand, TypeOK
  <2> HIDE FileAssumption
  <2> HIDE DEF IInv, Crash, fileVars, agentVars, readerVars
  <2> QED
    BY <2>1, <2>4 DEF InHand, Writing
<1>4. Reading'
  <2>1. ~UpToDate' /\ pc' \notin Writing /\ UNCHANGED <<minted, result>>
    BY DEF UpToDate, Writing
  <2>2. \A r \in Readers : handle'[r] = Nowhere
    OBVIOUS
  <2>3. \A r \in Readers :
          result'[r] # Nothing =>
            \E token \in Nat : 0 < token /\ token <= minted' /\ ReadIs(result'[r], token)
    BY <2>1 DEF Reading, ReadIs
  <2> HIDE FileAssumption
  <2> HIDE DEF IInv, Crash, fileVars, agentVars, readerVars
  <2> QED
    BY <2>1, <2>2, <2>3 DEF Reading
<1> QED
  BY <1>1, <1>2, <1>3, <1>4

LEMMA IInvStep == IInv /\ [Next]_vars => IInv'
<1> SUFFICES ASSUME IInv, [Next]_vars PROVE IInv'
  OBVIOUS
<1>1. CASE Start \/ Mint \/ SetReady \/ End \/ StartOthers \/ Commit \/ Crash
  BY <1>1, StartStep, MintStep, SetReadyStep, EndStep, StartOthersStep, CommitStep, CrashStep
<1>2. CASE AtomicWrite
  BY <1>2, CreateStep, WritePieceStep, SyncAllStep, RenameStep DEF AtomicWrite
<1>3. CASE \E r \in Readers : Open(r) \/ Read(r) \/ Close(r)
  BY <1>3, OpenStep, ReadStep, CloseStep
<1>4. CASE UNCHANGED vars
  BY <1>4 DEF vars, fileVars, agentVars, readerVars, IInv, TypeOK, ReferredAreWhole,
    Referred, TokenAt, InHand, Writing, Reading, UpToDate, ReadIs
<1> QED
  BY <1>1, <1>2, <1>3, <1>4 DEF Next

LEMMA Invariance == Spec => []IInv
BY IInvInit, IInvStep, PTL DEF Spec

(***************************************************************************)
(* Invariants and steps.                                                   *)
(***************************************************************************)
\* Each variable has its type.
THEOREM TypeCorrect == Spec => []TypeOK
<1>1. IInv => TypeOK
  BY DEF IInv
<1> QED
  BY <1>1, Invariance, PTL

\* Whenever somebody looks, the token file is not there or a whole token.
THEOREM TokenFileIsWhole == Spec => []FileIsWhole
<1>1. IInv => FileIsWhole
  BY DEF IInv, TypeOK, ReferredAreWhole, Referred, Reading, UpToDate, FileIsWhole
<1> QED
  BY <1>1, Invariance, PTL

\* What a container has read is one token.
THEOREM WholeTokensRead == Spec => []ReadsAreWhole
<1>1. IInv => ReadsAreWhole
  BY DEF IInv, Reading, ReadIs, ReadsAreWhole
<1> QED
  BY <1>1, Invariance, PTL

\* A read that ends gives the token of the inode.
LEMMA ReadGivesToken ==
  ASSUME IInv, NEW r \in Readers, Close(r)
  PROVE  /\ handle[r] \in Inodes
         /\ ReadIs(got[r], content[handle[r]].token)
         /\ got[r] # Nothing
<1>1. handle[r] \in Inodes /\ Referred(handle[r])
  BY DEF IInv, TypeOK, Close, Referred
<1>2. content[handle[r]].size = Pieces /\ got[r].size \in 0..Pieces
  BY <1>1 DEF IInv, TypeOK, ReferredAreWhole
<1>3. got[r].size = Pieces /\ got[r].size # 0
  BY <1>2, FileAssumption DEF Close
<1> QED
  BY <1>1, <1>3 DEF IInv, Reading, Close, ReadIs, Nothing

\* A container's tokens are newer and newer.
THEOREM TokensAreNewer == Spec => NeverOlder
<1>1. IInv /\ [Next]_vars =>
        [\A r \in Readers :
           \A old \in result[r].tokens, new \in result'[r].tokens : old <= new]_vars
  <2> SUFFICES ASSUME IInv, [Next]_vars, NEW r \in Readers,
                      NEW old \in result[r].tokens, NEW new \in result'[r].tokens
               PROVE  old <= new
    OBVIOUS
  <2>0. /\ result[r] # Nothing
        /\ old \in Nat /\ result[r].tokens = {old}
        /\ handle[r] # Nowhere => old <= content[handle[r]].token
    BY DEF IInv, Reading, ReadIs, Nothing
  <2>1. CASE result'[r] = result[r]
    BY <2>0, <2>1
  <2>2. CASE Close(r)
    <3>1. result'[r] = got[r]
      BY <2>2 DEF Close, IInv, TypeOK
    <3> QED
      BY <2>0, <2>2, <3>1, ReadGivesToken, FileAssumption DEF ReadIs, IInv, TypeOK
  <2>3. result'[r] = result[r] \/ Close(r)
    BY DEF Next, AtomicWrite, vars, fileVars, agentVars, readerVars, IInv, TypeOK, Start, Mint,
      Create, WritePiece, SyncAll, Rename, SetReady, End, StartOthers, Commit, Crash, Open, Read, Close
  <2> QED
    BY <2>1, <2>2, <2>3
<1> QED
  BY <1>1, Invariance, PTL DEF Spec, NeverOlder

(***************************************************************************)
(* The file changes at once.                                               *)
(***************************************************************************)
\* TokenOf gives the token that was read.
LEMMA TokenRead ==
  ASSUME NEW read, NEW token \in Nat, ReadIs(read, token), read # Nothing
  PROVE  TokenOf(read) = token
BY DEF TokenOf, ReadIs

\* What was read last is a token not newer than the latest, and not newer than
\* the token file if the containers run or may run.
LEMMA TokensHad ==
  ASSUME IInv, NEW r \in Readers
  PROVE  /\ TokenOf(result[r]) \in Nat
         /\ TokenOf(result[r]) <= minted
         /\ pc \in Writing => TokenOf(result[r]) < minted
         /\ UpToDate => TokenOf(result[r]) <= TokenAt(path)
<1>1. /\ minted \in Nat /\ TokenAt(path) \in Nat
      /\ pc \in Writing => TokenAt(path) < minted
  BY DEF IInv, TypeOK, TokenAt, InHand
<1>2. CASE result[r] = Nothing
  BY <1>1, <1>2 DEF TokenOf
<1>3. CASE result[r] # Nothing
  BY <1>1, <1>3, TokenRead DEF IInv, Reading
<1> QED
  BY <1>2, <1>3

\* What somebody reads is a token not newer than the token file's.
LEMMA TokensViewed ==
  ASSUME IInv, NEW r \in Readers
  PROVE  /\ TokenAt(handle[r]) \in Nat
         /\ TokenAt(handle[r]) <= TokenAt(path)
         /\ handle[r] # Nowhere => TokenAt(handle[r]) # 0
BY DEF IInv, TypeOK, TokenAt, ReferredAreWhole, Referred

View == [r \in Readers |-> TokenAt(handle[r])]

Had == [r \in Readers |-> TokenOf(result[r])]

LEMMA RefineInit == Init => Abstract!Init
BY DEF Init, Abstract!Init, TokenAt, TokenOf

\* Renaming replaces the token by one newer than all.
LEMMA RenameReplaces == IInv /\ Rename => Abstract!Replace
<1> SUFFICES ASSUME IInv, Rename PROVE Abstract!Replace
  OBVIOUS
<1>1. TokenAt(path)' = minted /\ minted \in Nat /\ TokenAt(path) < minted
  BY DEF IInv, TypeOK, InHand, Writing, Rename, TokenAt
<1>2. TokenAt(path) \in Nat
  BY DEF IInv, TypeOK, TokenAt
<1>3. ASSUME NEW r \in Readers
      PROVE  TokenAt(handle[r]) < minted /\ TokenOf(result[r]) < minted
  BY <1>1, <1>2, TokensViewed, TokensHad DEF Rename, Writing
<1>4. View' = View /\ Had' = Had /\ running' = running
  BY DEF View, Had, Rename, readerVars, TokenAt
<1> QED
  BY <1>1, <1>2, <1>3, <1>4 DEF Abstract!Replace, View, Had

LEMMA StartOthersBegins == IInv /\ StartOthers => Abstract!Begin
<1> SUFFICES ASSUME IInv, StartOthers PROVE Abstract!Begin
  OBVIOUS
<1>1. TokenAt(path) # 0
  BY DEF IInv, TypeOK, Reading, UpToDate, StartOthers, ReferredAreWhole, Referred, TokenAt
<1>2. \A r \in Readers : TokenOf(result[r]) <= TokenAt(path)
  BY TokensHad DEF StartOthers, UpToDate
<1>3. View' = View /\ Had' = Had /\ TokenAt(path)' = TokenAt(path) /\ running' = TRUE
  BY DEF View, Had, StartOthers, fileVars, TokenAt
<1> QED
  BY <1>1, <1>2, <1>3 DEF Abstract!Begin, View, Had

LEMMA OpenOpens == ASSUME NEW r \in Readers PROVE IInv /\ Open(r) => Abstract!Open(r)
<1> SUFFICES ASSUME IInv, Open(r) PROVE Abstract!Open(r)
  OBVIOUS
<1>1. running /\ TokenAt(path) # 0 /\ View[r] = 0
  BY DEF IInv, TypeOK, Open, ReferredAreWhole, Referred, TokenAt, View
<1>2. View' = [View EXCEPT ![r] = TokenAt(path)]
  BY DEF IInv, TypeOK, Open, TokenAt, View, fileVars
<1>3. Had' = Had /\ TokenAt(path)' = TokenAt(path) /\ running' = running
  BY DEF Had, Open, fileVars, TokenAt
<1> QED
  BY <1>1, <1>2, <1>3 DEF Abstract!Open, View, Had

LEMMA CloseFinishes == ASSUME NEW r \in Readers PROVE IInv /\ Close(r) => Abstract!Finish(r)
<1> SUFFICES ASSUME IInv, Close(r) PROVE Abstract!Finish(r)
  OBVIOUS
<1>1. handle[r] # Nowhere /\ View[r] # 0
  BY TokensViewed DEF View, Close
<1>2. TokenOf(got[r]) = View[r]
  BY ReadGivesToken, TokenRead DEF View, TokenAt, IInv, TypeOK, Close
<1>3. Had' = [Had EXCEPT ![r] = View[r]]
  BY <1>2 DEF Had, Close, IInv, TypeOK
<1>4. View' = [View EXCEPT ![r] = 0]
  BY DEF IInv, TypeOK, View, TokenAt, Close, fileVars
<1>5. TokenAt(path)' = TokenAt(path) /\ running' = running
  BY DEF Close, fileVars, TokenAt
<1> QED
  BY <1>1, <1>3, <1>4, <1>5 DEF Abstract!Finish, View, Had

LEMMA CrashReverts == IInv /\ Crash => Abstract!Revert
<1> SUFFICES ASSUME IInv, Crash PROVE Abstract!Revert
  OBVIOUS
<1>1. TokenAt(path)' = TokenAt(onDisk)
  BY DEF IInv, TypeOK, Crash, TokenAt
<1>2. TokenAt(onDisk) \in 0..TokenAt(path)
  BY DEF IInv, TypeOK, ReferredAreWhole, Referred, TokenAt
<1>3. View' = [r \in Readers |-> 0] /\ Had' = Had /\ running' = FALSE
  BY DEF Crash, View, Had, TokenAt
<1> QED
  BY <1>1, <1>2, <1>3 DEF Abstract!Revert, View, Had

AbstractVars == <<TokenAt(path), running, View, Had>>

\* The steps that readers do not see.
LEMMA OthersStutter ==
  ASSUME IInv,
         \/ Start \/ Mint \/ Create \/ WritePiece \/ SyncAll \/ SetReady \/ End \/ Commit
         \/ \E r \in Readers : Read(r)
  PROVE  UNCHANGED AbstractVars
<1>1. path' = path /\ handle' = handle /\ running' = running /\ result' = result
  BY DEF Start, Mint, Create, WritePiece, SyncAll, SetReady, End, Commit, Read,
    fileVars, agentVars, readerVars
<1>2. \A i \in Inodes : Referred(i) => content'[i].token = content[i].token
  <2>1. CASE Create
    BY <2>1 DEF Create, Free, Truncate, IInv, TypeOK, ReferredAreWhole, Referred
  <2>2. CASE WritePiece
    BY <2>2 DEF WritePiece, IInv, TypeOK, ReferredAreWhole
  <2>3. CASE content' = content
    BY <2>3
  <2>4. Create \/ WritePiece \/ content' = content
    BY DEF Start, Mint, SyncAll, SetReady, End, Commit, Read, fileVars
  <2> QED
    BY <2>1, <2>2, <2>3, <2>4
<1>3. TokenAt(path)' = TokenAt(path)
  BY <1>1, <1>2 DEF TokenAt, IInv, TypeOK, Referred
<1>4. \A r \in Readers : TokenAt(handle[r])' = TokenAt(handle[r])
  BY <1>1, <1>2 DEF TokenAt, IInv, TypeOK, Referred
<1> QED
  BY <1>1, <1>3, <1>4 DEF AbstractVars, View, Had

LEMMA RefineStep == IInv /\ [Next]_vars => [Abstract!Next]_(Abstract!vars)
<1> SUFFICES ASSUME IInv, [Next]_vars PROVE Abstract!Next \/ UNCHANGED Abstract!vars
  OBVIOUS
<1>1. CASE Start \/ Mint \/ Create \/ WritePiece \/ SyncAll \/ SetReady \/ End \/ Commit
  BY <1>1, OthersStutter DEF AbstractVars, View, Had, Abstract!vars
<1>2. CASE Rename
  BY <1>2, RenameReplaces DEF Abstract!Next
<1>3. CASE StartOthers
  BY <1>3, StartOthersBegins DEF Abstract!Next
<1>4. CASE Crash
  BY <1>4, CrashReverts DEF Abstract!Next
<1>5. ASSUME NEW r \in Readers, Open(r) \/ Read(r) \/ Close(r)
      PROVE  Abstract!Next \/ UNCHANGED Abstract!vars
  <2>1. CASE Open(r)
    BY <2>1, OpenOpens DEF Abstract!Next
  <2>2. CASE Close(r)
    BY <2>2, CloseFinishes DEF Abstract!Next
  <2>3. CASE Read(r)
    BY <2>3, OthersStutter DEF AbstractVars, View, Had, Abstract!vars
  <2> QED
    BY <1>5, <2>1, <2>2, <2>3
<1>6. CASE UNCHANGED vars
  BY <1>6 DEF vars, fileVars, readerVars, TokenAt, TokenOf, Abstract!vars
<1> QED
  BY <1>1, <1>2, <1>3, <1>4, <1>5, <1>6 DEF Next, AtomicWrite

\* Every behaviour of the token file is one of a file that changes at once.
THEOREM FileRefinesAtomicFile == Spec => ImplementsAtomicFile
BY Invariance, RefineInit, RefineStep, PTL DEF Spec, ImplementsAtomicFile, Abstract!Spec
=============================================================================
