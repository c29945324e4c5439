----------------------------- MODULE MCRestart ------------------------------
(***************************************************************************)
(* What a server keeps on disk and finds again when it is restarted: the    *)
(* journal (JournalReaders), the store of deleted files (FileStore) and the *)
(* two directories (StartUp).  They share no state, so a behaviour is one   *)
(* of one of them, named by part, in which the others stay as they are.     *)
(***************************************************************************)
EXTENDS JournalReaders, TLC

CONSTANTS f1, f2, f3, f4, NoFile,
          MaxTokens, MaxRestarts,   \* bounds of FileStore
          MaxStarts, MaxGrabs       \* bounds of StartUp

VARIABLES
  part,
  storing, stored, store, current_size, oldest_token, current_token, linked,
  refs, holes, restarts,
  setting, at, mount, backing, mount_exists, secured, recreated, failures, grabs

(* Two blocks of 15 units.  With payloads of 6 and 7 units no entry ends
   exactly at the end of its block; with 6 and 9 one may, and the process does
   not crash. *)
Settings == {[payloads |-> {6, 7}, crashes |-> 2],
             [payloads |-> {6, 9}, crashes |-> 0]}

(* Four files, one of them empty, one larger than the whole store. *)
Small == (f1 :> 2) @@ (f2 :> 3) @@ (f3 :> 0) @@ (f4 :> 6)

F == INSTANCE FileStore WITH
       Files <- {f1, f2, f3, f4}, SizeOf <- Small, MaxSize <- 5,
       pc <- storing, file <- stored, tree <- linked
S == INSTANCE StartUp WITH
       MaxCrashes <- MaxStarts, conf <- setting, pc <- at, crashes <- failures

storeVars == <<storing, stored, store, current_size, oldest_token,
               current_token, linked, refs, holes, restarts>>
startVars == <<setting, at, mount, backing, mount_exists, secured, recreated,
               failures, grabs>>
all == <<part, vars, storeVars, startVars>>

Parts == {"journal", "store", "start"}
Plain == [windows |-> FALSE, explicit |-> FALSE, volume |-> FALSE, make |-> TRUE]

RestartInit ==
  /\ part \in Parts
  /\ Init /\ (part = "journal" \/ conf = CHOOSE c \in Confs : TRUE)
  /\ F!Init
  /\ S!Init /\ (part = "start" \/ (setting = Plain /\ mount = "data"))

InJournal == part = "journal" /\ UNCHANGED <<part, storeVars, startVars>>
InStore == part = "store" /\ UNCHANGED <<part, vars, startVars>>
InStart == part = "start" /\ UNCHANGED <<part, vars, storeVars>>

RestartNext ==
  \/ InJournal /\ Next
  \/ InStore /\ F!Next
  \/ InStart /\ S!Next

(* The fairness of each part, while it is the one that runs. *)
RestartSpec ==
  /\ RestartInit /\ [][RestartNext]_all
  /\ WF_all(InJournal /\ Walk)
  /\ WF_all(InStore /\ F!Making)
  /\ WF_all(InStart /\ S!Server) /\ WF_all(InStart /\ S!Prepare)

-----------------------------------------------------------------------------
(* The ring with its header, the store of deleted files and the directories of
   a starting server stay within their types. *)
RestartTypeOK == TypeOK /\ F!TypeOK /\ S!TypeOK

(* filestore.rs, store and delete with new after a restart: the files kept
   never take more than max_size, and while the server runs the oldest go
   first, until eviction comes to a token whose rename had failed. *)
StoreBounded == F!StoreBounded

(* filestore.rs, recover: while the server runs, the token of a bilog entry
   leads to the file it was handed out for, or to none; after a restart it may
   lead to a file that was given the same token. *)
TokensKept == F!TokensKept

(* figure_out_paths, check_mount and copy_security over crashed and failed
   starts: only the user's data is served, it is at one of the two paths at
   every moment, and a mount path the server has made has the store's security
   unless an earlier start crashed. *)
ServesSafely == S!ServesSafely

(* The walk of Journal::open and the loop of FileStore::store that makes room
   end. *)
LoopsEnd == RecoveryEnds /\ F!StoreEnds

(* server_main, started again and again, comes up unless no start can: a mount
   that a crashed server has left is found on Windows and must be unmounted by
   the caller on Unix. *)
EventuallyServes == part = "start" => S!EventuallyServes
=============================================================================
