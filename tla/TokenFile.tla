----------------------------- MODULE TokenFile -----------------------------
(***************************************************************************)
(* The file through which kif-agent hands its tokens to the containers of  *)
(* the pod: atomic_write in federation.rs, step by step, and containers    *)
(* that open the file and read it piece by piece.                          *)
(*                                                                         *)
(* The directory has two names, the token file and the temporary one, and  *)
(* a name leads to an inode; whoever opened a name keeps the inode.  The   *)
(* agent may end between any two steps (an error of atomic_write ends it   *)
(* too) and begins again with what its predecessor left.  The node may     *)
(* crash: the disk then has every inode that was synchronised, any prefix  *)
(* of one that was not, and the token file it had when the file system     *)
(* last committed a rename, which it does in its own time.                 *)
(*                                                                         *)
(* A token is a number, in the order of minting, and Pieces pieces long.   *)
(***************************************************************************)
EXTENDS Naturals

CONSTANTS
  Readers,    \* containers that read the file
  Inodes,     \* of the emptyDir volume
  Nowhere,    \* a name that leads nowhere
  Pieces,     \* what write_all writes of a token, in this many writes
  MaxTokens,  \* bound: tokens minted
  MaxEnds,    \* bound: ends of the agent
  MaxCrashes  \* bound: crashes of the node

ASSUME FileAssumption ==
  /\ Nowhere \notin Inodes
  /\ Pieces \in Nat \ {0}
  /\ MaxTokens \in Nat /\ MaxEnds \in Nat /\ MaxCrashes \in Nat

VARIABLES
  path,     \* the inode of the token file
  tmp,      \* the inode of the temporary file
  content,  \* content[i]: what is in inode i, a token and how much of it
  synced,   \* the inodes whose content is on the disk
  onDisk,   \* the inode of the token file on the disk
  pc,       \* what the agent does next
  minted,   \* the token it has, or had: the latest
  ready,    \* its flag for /startupz
  running,  \* the other containers have been started
  handle,   \* handle[r]: the inode that r has open
  got,      \* got[r]: what r has read of it: tokens, and how many pieces
  result,   \* result[r]: what r read last
  ends, crashes

fileVars == <<path, tmp, content, synced, onDisk>>
agentVars == <<pc, minted, ready, ends>>
readerVars == <<running, handle, got, result>>
vars == <<fileVars, agentVars, readerVars, crashes>>

Empty == [token |-> 0, size |-> 0]

Nothing == [tokens |-> {}, size |-> 0]

Init ==
  /\ path = Nowhere /\ tmp = Nowhere /\ onDisk = Nowhere
  /\ content = [i \in Inodes |-> Empty]
  /\ synced = {}
  /\ pc = "down"
  /\ minted = 0
  /\ ready = FALSE /\ running = FALSE
  /\ handle = [r \in Readers |-> Nowhere]
  /\ got = [r \in Readers |-> Nothing]
  /\ result = [r \in Readers |-> Nothing]
  /\ ends = 0 /\ crashes = 0

(***************************************************************************)
(* The agent.                                                              *)
(***************************************************************************)
Start ==
  /\ pc = "down"
  /\ pc' = "mint"
  /\ UNCHANGED <<fileVars, readerVars, minted, ready, ends, crashes>>

\* refresh_loop gets a token from the federation service.
Mint ==
  /\ pc = "mint"
  /\ minted < MaxTokens
  /\ minted' = minted + 1
  /\ pc' = "create"
  /\ UNCHANGED <<fileVars, readerVars, ready, ends, crashes>>

\* Nothing refers to inode i: the file system may use it for a new file.
Free(i) ==
  /\ i \notin {path, tmp, onDisk}
  /\ \A r \in Readers : handle[r] # i

Truncate(i) ==
  /\ content' = [content EXCEPT ![i] = [token |-> minted, size |-> 0]]
  /\ synced' = synced \ {i}

\* (writes to the token file itself)
CreateInPlace ==
  /\ pc = "create"
  /\ \/ /\ path = Nowhere
        /\ \E i \in Inodes : Free(i) /\ path' = i /\ tmp' = i /\ Truncate(i)
     \/ path # Nowhere /\ path' = path /\ tmp' = path /\ Truncate(path)
  /\ pc' = "write"
  /\ UNCHANGED <<onDisk, minted, ready, ends, readerVars, crashes>>

\* File::create: a new inode, or the one that an earlier agent left, emptied.
Create ==
  /\ pc = "create"
  /\ \/ tmp = Nowhere /\ \E i \in Inodes : Free(i) /\ tmp' = i /\ Truncate(i)
     \/ tmp # Nowhere /\ Truncate(tmp) /\ UNCHANGED tmp
  /\ pc' = "write"
  /\ UNCHANGED <<path, onDisk, minted, ready, ends, readerVars, crashes>>

\* (takes one write for all)
WriteOnce ==
  /\ pc = "write"
  /\ content' = [content EXCEPT ![tmp].size = @ + 1]
  /\ pc' = "sync"
  /\ UNCHANGED <<path, tmp, synced, onDisk, minted, ready, ends, readerVars, crashes>>

\* (one write too many)
WritePast ==
  /\ pc = "write"
  /\ content' = [content EXCEPT ![tmp].size = @ + 1]
  /\ pc' = IF content[tmp].size = Pieces THEN "sync" ELSE "write"
  /\ UNCHANGED <<path, tmp, synced, onDisk, minted, ready, ends, readerVars, crashes>>

\* One write of write_all.
WritePiece ==
  /\ pc = "write"
  /\ content' = [content EXCEPT ![tmp].size = @ + 1]
  /\ pc' = IF content[tmp].size + 1 = Pieces THEN "sync" ELSE "write"
  /\ UNCHANGED <<path, tmp, synced, onDisk, minted, ready, ends, readerVars, crashes>>

\* (leaves it to the kernel)
SyncLater ==
  /\ pc = "sync"
  /\ pc' = "rename"
  /\ UNCHANGED <<fileVars, minted, ready, ends, readerVars, crashes>>

SyncAll ==
  /\ pc = "sync"
  /\ synced' = synced \union {tmp}
  /\ pc' = "rename"
  /\ UNCHANGED <<path, tmp, content, onDisk, minted, ready, ends, readerVars, crashes>>

Rename ==
  /\ pc = "rename"
  /\ path' = tmp
  /\ tmp' = Nowhere
  /\ pc' = "written"
  /\ UNCHANGED <<content, synced, onDisk, minted, ready, ends, readerVars, crashes>>

\* The flag is set, and after a sleep comes the next token.
SetReady ==
  /\ pc = "written"
  /\ ready' = TRUE
  /\ pc' = "mint"
  /\ UNCHANGED <<fileVars, minted, ends, readerVars, crashes>>

\* The agent ends: killed, or an error of atomic_write.
End ==
  /\ pc # "down"
  /\ ends < MaxEnds
  /\ ends' = ends + 1
  /\ pc' = "down"
  /\ ready' = FALSE
  /\ UNCHANGED <<fileVars, minted, readerVars, crashes>>

(***************************************************************************)
(* The other containers.                                                   *)
(***************************************************************************)
\* (does not wait for the startup probe)
StartOthersAtOnce ==
  /\ pc # "down" /\ path # Nowhere
  /\ running' = TRUE
  /\ UNCHANGED <<fileVars, agentVars, handle, got, result, crashes>>

\* The startup probe of the agent succeeds.
StartOthers ==
  /\ ~running /\ ready
  /\ running' = TRUE
  /\ UNCHANGED <<fileVars, agentVars, handle, got, result, crashes>>

Open(r) ==
  /\ running /\ handle[r] = Nowhere
  /\ path # Nowhere
  /\ handle' = [handle EXCEPT ![r] = path]
  /\ got' = [got EXCEPT ![r] = Nothing]
  /\ UNCHANGED <<fileVars, agentVars, running, result, crashes>>

Read(r) ==
  /\ handle[r] # Nowhere
  /\ got[r].size < content[handle[r]].size
  /\ got' = [got EXCEPT ![r] = [tokens |-> @.tokens \union {content[handle[r]].token},
                                size |-> @.size + 1]]
  /\ UNCHANGED <<fileVars, agentVars, running, handle, result, crashes>>

\* The end of the file: r has the token.
Close(r) ==
  /\ handle[r] # Nowhere
  /\ got[r].size >= content[handle[r]].size
  /\ result' = [result EXCEPT ![r] = got[r]]
  /\ handle' = [handle EXCEPT ![r] = Nowhere]
  /\ got' = [got EXCEPT ![r] = Nothing]
  /\ UNCHANGED <<fileVars, agentVars, running, crashes>>

(***************************************************************************)
(* The node.                                                               *)
(***************************************************************************)
\* The file system commits the renames so far.
Commit ==
  /\ onDisk # path
  /\ onDisk' = path
  /\ UNCHANGED <<path, tmp, content, synced, agentVars, readerVars, crashes>>

\* The node crashes and comes back; the kubelet starts the pod's containers
\* again, the agent first.  The temporary file may be there or not, and is the
\* one that had been renamed if the rename is undone.
Crash ==
  /\ crashes < MaxCrashes
  /\ crashes' = crashes + 1
  /\ path' = onDisk
  /\ tmp' \in {Nowhere, tmp} \union ({path} \ {onDisk})
  /\ \E left \in [Inodes -> 0..Pieces] :
       /\ \A i \in Inodes : left[i] <= content[i].size
       /\ \A i \in synced : left[i] = content[i].size
       /\ content' = [i \in Inodes |-> [content[i] EXCEPT !.size = left[i]]]
  /\ synced' = Inodes
  /\ pc' = "down" /\ ready' = FALSE /\ running' = FALSE
  /\ handle' = [r \in Readers |-> Nowhere]
  /\ got' = [r \in Readers |-> Nothing]
  /\ UNCHANGED <<onDisk, minted, ends, result>>

AtomicWrite == Create \/ WritePiece \/ SyncAll \/ Rename

Next ==
  \/ Start \/ Mint \/ AtomicWrite \/ SetReady \/ End
  \/ StartOthers \/ Commit \/ Crash
  \/ \E r \in Readers : Open(r) \/ Read(r) \/ Close(r)

Spec == Init /\ [][Next]_vars
(***************************************************************************)
(* Properties.                                                             *)
(***************************************************************************)
\* Types.
TypeOK ==
  /\ path \in Inodes \union {Nowhere}
  /\ tmp \in Inodes \union {Nowhere}
  /\ onDisk \in Inodes \union {Nowhere}
  /\ content \in [Inodes -> [token : Nat, size : 0..Pieces]]
  /\ synced \subseteq Inodes
  /\ pc \in {"down", "mint", "create", "write", "sync", "rename", "written"}
  /\ minted \in Nat
  /\ ready \in BOOLEAN /\ running \in BOOLEAN
  /\ handle \in [Readers -> Inodes \union {Nowhere}]
  /\ got \in [Readers -> [tokens : SUBSET Nat, size : 0..Pieces]]
  /\ result \in [Readers -> [tokens : SUBSET Nat, size : 0..Pieces]]
  /\ ends \in Nat /\ crashes \in Nat

\* "We don't want the main containers reading a partially-written file"
\* (federation.rs): whenever somebody looks, after any end of the agent and any
\* crash of the node, the token file is not there or a whole token, and it is
\* there once the other containers run.
FileIsWhole ==
  /\ path # Nowhere => content[path].size = Pieces
  /\ running => path # Nowhere

\* Whatever is written while a container reads, what it gets is one token, from
\* its first piece to its last.
ReadsAreWhole ==
  \A r \in Readers :
    result[r] # Nothing =>
      result[r].size = Pieces /\ \E token \in result[r].tokens : result[r].tokens = {token}

\* A container never reads an older token after a newer one, not even when a
\* crash of the node has undone the last rename.
NeverOlder ==
  [][\A r \in Readers :
       \A old \in result[r].tokens, new \in result'[r].tokens : old <= new]_vars

\* The token of a read that ended; no token is MaxTokens + 1, which stands for
\* what is not a token.
TokenOf(read) ==
  IF read = Nothing THEN 0
  ELSE IF read.size = Pieces /\ \E token \in read.tokens : read.tokens = {token}
    THEN CHOOSE token \in read.tokens : TRUE
    ELSE MaxTokens + 1

TokenAt(inode) == IF inode = Nowhere THEN 0 ELSE content[inode].token

Abstract ==
  INSTANCE AtomicFile WITH
    value <- TokenAt(path),
    view <- [r \in Readers |-> TokenAt(handle[r])],
    had <- [r \in Readers |-> TokenOf(result[r])]

\* For those who read it the file changes from one token to a newer one at once.
ImplementsAtomicFile == Abstract!Spec
=============================================================================
