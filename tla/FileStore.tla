------------------------------ MODULE FileStore ------------------------------
(***************************************************************************)
(* The store of deleted files (journal/filestore.rs): the directory        *)
(* .fsyncer-deleted holds one file per token, up to max_size bytes in all. *)
(* An unlinked file is renamed into it under the next token, which the     *)
(* bilog entry remembers; to make room the files of the oldest tokens are  *)
(* deleted one after the other; an undo links the file back.               *)
(* Calls come under the JOURNAL lock, so one store runs at a time, but     *)
(* each file system call is a step and the process may die in between.     *)
(***************************************************************************)
EXTENDS Integers, FiniteSets, Functions

CONSTANTS
  Files,       \* the files of the tree that get deleted
  SizeOf,      \* their sizes
  NoFile,      \* no file
  MaxSize,     \* max_size
  MaxTokens,   \* bound: tokens handed out
  MaxRestarts  \* bound: restarts of the server

VARIABLES
  pc,         \* "idle", "storing" or "failed"
  file,       \* the file that store is called for
  store,      \* the directory: token -> file
  current_size, oldest_token, current_token,
  tree,       \* the files that are linked in the tree
  refs,       \* history: <<token, file>> of every completed store
  holes,      \* history: tokens whose file could not be renamed
  restarts

vars == <<pc, file, store, current_size, oldest_token, current_token, tree, refs,
          holes, restarts>>
counters == <<current_size, oldest_token, current_token>>

Total(s) == FoldFunction(LAMBDA f, acc : SizeOf[f] + acc, 0, s)

Init ==
  /\ pc = "idle" /\ file = NoFile
  /\ store = << >> /\ tree = Files /\ refs = {} /\ holes = {}
  /\ restarts = 0
  /\ current_size = 0 /\ oldest_token = 0 /\ current_token = 0

(* store: a file of the tree is to be moved into the store. *)
StoreCall(f) ==
  /\ pc = "idle" /\ f \in tree /\ current_token < MaxTokens
  /\ pc' = "storing" /\ file' = f
  /\ UNCHANGED <<store, counters, tree, refs, holes, restarts>>

FullUncounted == SizeOf[file] > MaxSize
Full == current_size + SizeOf[file] > MaxSize

(* store: one turn of the loop that makes room, delete(oldest_token). *)
Evict ==
  /\ pc = "storing" /\ Full /\ oldest_token \in DOMAIN store
  /\ store' = Restrict(store, DOMAIN store \ {oldest_token})
  /\ current_size' = current_size - SizeOf[store[oldest_token]]
  /\ oldest_token' = oldest_token + 1
  /\ UNCHANGED <<pc, file, current_token, tree, refs, holes, restarts>>

(* delete finds no file under the oldest token: store returns the error. *)
EvictFails ==
  /\ pc = "storing" /\ Full /\ oldest_token \notin DOMAIN store
  /\ pc' = "failed"
  /\ UNCHANGED <<file, store, counters, tree, refs, holes, restarts>>

(* rename replaces a file that has the token already. *)
PutFile(t) == [x \in DOMAIN store \cup {t} |-> IF x = t THEN file ELSE store[x]]

NextToken == current_token + 1

(* The token that store returns for the bilog entry. *)
GivenLate == current_token + 1
Given == current_token

(* store: there is room, the file gets the next token. *)
StoreFile ==
  /\ pc = "storing" /\ ~Full
  /\ store' = PutFile(current_token)
  /\ refs' = refs \cup {<<Given, file>>}
  /\ tree' = tree \ {file}
  /\ current_token' = NextToken
  /\ current_size' = current_size + SizeOf[file]
  /\ pc' = "idle" /\ file' = NoFile
  /\ UNCHANGED <<oldest_token, holes, restarts>>

(* store: there is room and the token is taken, but rename fails. *)
StoreFails ==
  /\ pc = "storing" /\ ~Full
  /\ current_token' = NextToken
  /\ holes' = holes \cup {current_token}
  /\ pc' = "failed"
  /\ UNCHANGED <<file, store, current_size, oldest_token, tree, refs, restarts>>

(* The caller goes on after the error. *)
Failed ==
  /\ pc = "failed" /\ pc' = "idle" /\ file' = NoFile
  /\ UNCHANGED <<store, counters, tree, refs, holes, restarts>>

(* recover: the undo of a deletion links the token's file into the tree. *)
Recover(r) ==
  /\ pc = "idle" /\ r \in refs /\ r[1] \in DOMAIN store
  /\ store[r[1]] \notin tree
  /\ tree' = tree \cup {store[r[1]]}
  /\ UNCHANGED <<pc, file, store, counters, refs, holes, restarts>>

(* Crash and new: the sizes are summed up, the tokens are those of the first
   and of the last directory entry in directory order, which is any order. *)
RestartPairs ==
  IF DOMAIN store = {} THEN {<<0, 0>>}
  ELSE {p \in (DOMAIN store) \X (DOMAIN store) :
          p[1] = p[2] => Cardinality(DOMAIN store) = 1}

Restart ==
  /\ restarts < MaxRestarts /\ restarts' = restarts + 1
  /\ current_size' = Total(store)
  /\ \E p \in RestartPairs : oldest_token' = p[1] /\ current_token' = p[2]
  /\ pc' = "idle" /\ file' = NoFile
  /\ UNCHANGED <<store, tree, refs, holes>>

Next ==
  \/ \E f \in Files : StoreCall(f)
  \/ Evict \/ EvictFails \/ StoreFile \/ StoreFails \/ Failed \/ Restart
  \/ \E r \in refs : Recover(r)

(* A store that has begun goes on to its end. *)
Making == Evict \/ EvictFails \/ StoreFile \/ StoreFails

Spec == Init /\ [][Next]_vars /\ WF_vars(Making)

-----------------------------------------------------------------------------

TypeOK ==
  /\ pc \in {"idle", "storing", "failed"}
  /\ file \in Files \cup {NoFile} /\ (pc = "storing" => file \in Files)
  /\ DOMAIN store \subseteq Nat /\ Range(store) \subseteq Files
  /\ {current_size, oldest_token, current_token, restarts} \subseteq Nat
  /\ tree \subseteq Files /\ refs \subseteq Nat \X Files /\ holes \subseteq Nat

(* filestore.rs, store and delete with new after a restart: whatever order
   the directory is read in, the files kept never take more than max_size. *)
DiskBounded == Total(store) <= MaxSize

(* filestore.rs, store: while the server runs, the tokens on disk are the ones
   from the oldest to the one before the next, but for those whose rename
   failed, so eviction deletes in order of age; it fails for a file that is
   larger than the whole store and when it comes to such a hole. *)
EvictsInOrder ==
  restarts = 0 =>
    /\ DOMAIN store = (oldest_token..current_token - 1) \ holes
    /\ pc = "failed" /\ Full => \/ oldest_token \in holes
                                \/ SizeOf[file] > MaxSize /\ store = << >>

(* filestore.rs, store: the limit is kept, by deleting the oldest files. *)
StoreBounded == DiskBounded /\ EvictsInOrder

(* filestore.rs, recover: while the server runs, the token of a bilog entry
   leads to the file it was handed out for, or to none; after a restart it may
   also lead to a file that was given the same token, and to no other. *)
TokensKept ==
  \A r \in refs : r[1] \in DOMAIN store =>
    \/ store[r[1]] = r[2]
    \/ restarts > 0 /\ <<r[1], store[r[1]]>> \in refs

(* filestore.rs, store: the loop that makes room ends. *)
StoreEnds == pc = "storing" ~> pc # "storing"
=============================================================================
