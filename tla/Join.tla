-------------------------------- MODULE Join --------------------------------
(***************************************************************************)
(* How a replica joins: client_main and ConnectionBuilder on its side       *)
(* (client/mod.rs), the listener thread of server_main and                  *)
(* Client::from_stream on the server's (server/mod.rs, server/client.rs),   *)
(* with hash_metadata (common/mod.rs), against the calls that the mounted   *)
(* file system keeps replicating to the clients in SYNC_LIST.               *)
(*                                                                          *)
(* A tree gives each file what hash_metadata looks at and what it does not, *)
(* or has no such file. The walk of hash_metadata lists the directory and   *)
(* then looks at file by file; rsync copies file by file.                   *)
(***************************************************************************)
EXTENDS Naturals, Sequences, FiniteSets, SequencesExt

CONSTANTS
    Clients,
    NumFiles,    \* files of the tree; the walk is sorted
    Metas, Datas,
    Rsync,       \* clients started with --rsync
    dont_check,  \* --dont-check
    Stdio,       \* the url is stdio:, otherwise a socket
    Deletes,     \* whether files are unlinked while the server runs
    MaxWrites    \* bound on the calls of the file system

VARIABLES
    tree,      \* the backing store of the server
    replica,   \* the directory of each client
    client,    \* what client_main of each client is doing
    init,      \* the dsthash of the InitMsg of each client
    backlog,   \* connections not yet accepted
    serving,   \* the connection from_stream works on, and how far it is
    list,      \* SYNC_LIST
    dropped,   \* connections the server has given up
    link,      \* calls on their way to each client
    mounted,   \* start_fuse has mounted the file system
    writes,    \* calls made so far
    calls,     \* calls that have been sent and are not done here yet
    missed     \* history: files changed behind the back of each client

vars == <<tree, replica, client, init, backlog, serving, list, dropped, link,
          mounted, writes, calls, missed>>

Order == 1 .. NumFiles
Absent == [meta |-> 0, data |-> 0]
Content == [meta : Metas, data : Datas]
Trees == [Order -> Content \cup {Absent}]
Present(t) == {f \in Order : t[f] # Absent}

NoHash == <<>>
Nobody == [client |-> "nobody", at |-> "accept", hash |-> NoHash, file |-> 0,
           names |-> {}]

\* A client with --rsync starts from an empty directory.
Init ==
    /\ tree \in Trees
    /\ replica \in {r \in [Clients -> Trees] :
                        \A c \in Rsync : Present(r[c]) = {}}
    /\ client = [c \in Clients |-> "start"]
    /\ init = [c \in Clients |-> NoHash]
    /\ backlog = <<>> /\ serving = Nobody
    /\ list = {} /\ dropped = {}
    /\ link = [c \in Clients |-> <<>>]
    /\ mounted = FALSE /\ writes = 0 /\ calls = {}
    /\ missed = [c \in Clients |-> {}]

\* What hash_metadata of a tree depends on, file by file.
Hashed(content) == content.meta
hash_metadata(t) == [f \in Order |-> Hashed(t[f])]

-----------------------------------------------------------------------------
(* client_main *)

\* The hash is computed before the connection is made.
ClientHashes(c) ==
    /\ client[c] = "start"
    /\ init' = [init EXCEPT ![c] = hash_metadata(replica[c])]
    /\ client' = [client EXCEPT ![c] = "hashed"]
    /\ UNCHANGED <<tree, replica, backlog, serving, list, dropped, link,
                   mounted, writes, calls, missed>>

\* with_url and with_net: connect and send the InitMsg.
ClientConnects(c) ==
    /\ client[c] = "hashed" /\ serving.at # "panicked"
    /\ backlog' = Append(backlog, c)
    /\ client' = [client EXCEPT ![c] = IF c \in Rsync THEN "rsync" ELSE "build"]
    /\ UNCHANGED <<tree, replica, init, serving, list, dropped, link, mounted,
                   writes, calls, missed>>

\* Nobody listens any more: with_url fails and the client stops.
ClientRefused(c) ==
    /\ client[c] = "hashed" /\ serving.at = "panicked"
    /\ client' = [client EXCEPT ![c] = "stopped"]
    /\ UNCHANGED <<tree, replica, init, backlog, serving, list, dropped, link,
                   mounted, writes, calls, missed>>

\* build, and the loop of process_ops.
ClientBuilds(c) ==
    /\ client[c] = "build"
    /\ client' = [client EXCEPT ![c] = "process"]
    /\ UNCHANGED <<tree, replica, init, backlog, serving, list, dropped, link,
                   mounted, writes, calls, missed>>

\* The tree t after a call: the file f is as the call leaves it.
Applied(t, call) == [t EXCEPT ![call[1]] = call[2]]

ClientApplies(c) ==
    /\ client[c] = "process" /\ link[c] # <<>>
    /\ replica' = [replica EXCEPT ![c] = Applied(@, Head(link[c]))]
    /\ link' = [link EXCEPT ![c] = Tail(@)]
    /\ UNCHANGED <<tree, client, init, backlog, serving, list, dropped,
                   mounted, writes, calls, missed>>

\* The connection is closed: rsync or process_ops fails and the client stops.
ClientStops(c) ==
    /\ client[c] \in {"rsync", "process"} /\ c \in dropped
    /\ client' = [client EXCEPT ![c] = "stopped"]
    /\ UNCHANGED <<tree, replica, init, backlog, serving, list, dropped, link,
                   mounted, writes, calls, missed>>

-----------------------------------------------------------------------------
(* The listener thread: one connection at a time, from accept to push. *)

Serve(at) == serving' = [serving EXCEPT !.at = at]

Accept ==
    /\ serving.at = "accept" /\ backlog # <<>>
    /\ serving' = [Nobody EXCEPT !.client = Head(backlog), !.at = "init"]
    /\ backlog' = Tail(backlog)
    /\ UNCHANGED <<tree, replica, client, init, list, dropped, link, mounted,
                   writes, calls, missed>>

\* Whether from_stream compares the hashes.
Checks(c) == ~(dont_check \/ c \in Rsync)

ReadInit ==
    /\ serving.at = "init"
    /\ Serve(IF Checks(serving.client) THEN "names"
             ELSE IF serving.client \in Rsync THEN "rsync" ELSE "start")
    /\ UNCHANGED <<tree, replica, client, init, backlog, list, dropped, link,
                   mounted, writes, calls, missed>>

\* hash_metadata of the backing store: the sorted names of the directory, then
\* the metadata of one after the other.
HashNames ==
    /\ serving.at = "names"
    /\ serving' = [serving EXCEPT !.at = "hash", !.names = Present(tree)]
    /\ UNCHANGED <<tree, replica, client, init, backlog, list, dropped, link,
                   mounted, writes, calls, missed>>

HashFile ==
    /\ serving.at = "hash" /\ serving.file < NumFiles
    /\ LET f == serving.file + 1
           x == IF f \in serving.names THEN tree[f] ELSE Absent
       IN  /\ f \in serving.names => tree[f] # Absent
           /\ serving' = [serving EXCEPT !.file = f, !.hash = Append(@, Hashed(x))]
    /\ UNCHANGED <<tree, replica, client, init, backlog, list, dropped, link,
                   mounted, writes, calls, missed>>

\* A file that was listed is gone: the expect panics, and the thread ends with
\* the socket, the connection it works on and the ones not yet accepted.
HashFails ==
    /\ serving.at = "hash" /\ serving.file < NumFiles
    /\ serving.file + 1 \in serving.names
    /\ tree[serving.file + 1] = Absent
    /\ serving' = [Nobody EXCEPT !.at = "panicked"]
    /\ dropped' = dropped \cup {serving.client} \cup ToSet(backlog)
    /\ backlog' = <<>>
    /\ UNCHANGED <<tree, replica, client, init, list, link, mounted, writes,
                   calls, missed>>

\* Mutant: the hash of the first file alone is compared.
SameFirst(c) == init[c][1] = serving.hash[1]

SameHash(c) == init[c] = serving.hash

\* Mutant: the client is told off and kept.
CompareAndKeep ==
    /\ serving.at = "hash" /\ serving.file = NumFiles
    /\ Serve("start")
    /\ dropped' = IF SameHash(serving.client) THEN dropped
                  ELSE dropped \cup {serving.client}
    /\ UNCHANGED <<tree, replica, client, init, backlog, list, link, mounted,
                   writes, calls, missed>>

Compare ==
    /\ serving.at = "hash" /\ serving.file = NumFiles
    /\ IF SameHash(serving.client)
       THEN Serve("start") /\ UNCHANGED dropped
       ELSE /\ serving' = Nobody
            /\ dropped' = dropped \cup {serving.client}
    /\ UNCHANGED <<tree, replica, client, init, backlog, list, link, mounted,
                   writes, calls, missed>>

\* rsync::server and rsync::client: the files are copied one after the other.
RsyncFile ==
    /\ serving.at = "rsync" /\ serving.file < NumFiles
    /\ client[serving.client] = "rsync"
    /\ serving' = [serving EXCEPT !.file = @ + 1]
    /\ LET f == serving.file + 1
       IN  replica' = [replica EXCEPT ![serving.client][f] = tree[f]]
    /\ UNCHANGED <<tree, client, init, backlog, list, dropped, link, mounted,
                   writes, calls, missed>>

RsyncDone ==
    /\ serving.at = "rsync" /\ serving.file = NumFiles
    /\ Serve("start")
    /\ client' = [client EXCEPT ![serving.client] = "build"]
    /\ UNCHANGED <<tree, replica, init, backlog, list, dropped, link, mounted,
                   writes, calls, missed>>

\* Mutant: the thread handles one connection and ends.
PushOnce ==
    /\ serving.at = "start"
    /\ serving' = [Nobody EXCEPT !.at = "panicked"]
    /\ list' = IF Stdio THEN list ELSE list \cup {serving.client}
    /\ UNCHANGED <<tree, replica, client, init, backlog, dropped, link, mounted,
                   writes, calls, missed>>

\* The rest of from_stream and, for a socket, the push. The thread of stdio ends
\* with the client it has made; the connection stays open in the reader.
Push ==
    /\ serving.at = "start"
    /\ serving' = Nobody
    /\ list' = IF Stdio THEN list ELSE list \cup {serving.client}
    /\ UNCHANGED <<tree, replica, client, init, backlog, dropped, link, mounted,
                   writes, calls, missed>>

-----------------------------------------------------------------------------
(* The file system, mounted some time after the listener thread started. *)

Mount ==
    /\ ~mounted /\ mounted' = TRUE
    /\ UNCHANGED <<tree, replica, client, init, backlog, serving, list,
                   dropped, link, writes, calls, missed>>

\* pre_op: under the read lock of SYNC_LIST, which Push takes for writing, the
\* call goes to every client that is in it. The kernel keeps a second call on
\* the file out until the first has returned.
pre_op(f, content) ==
    /\ mounted /\ writes < MaxWrites /\ tree[f] # content
    /\ \A k \in calls : k.file # f
    /\ link' = [c \in Clients |-> IF c \in list
                                  THEN Append(link[c], <<f, content>>)
                                  ELSE link[c]]
    /\ calls' = calls \cup {[file |-> f, content |-> content, to |-> list]}
    /\ writes' = writes + 1
    /\ UNCHANGED <<tree, replica, client, init, backlog, serving, list, dropped,
                   mounted, missed>>

\* The file f has been looked at for c, by the walk or by the copy.
LookedAt(c, f) ==
    \/ c \in list
    \/ /\ serving.client = c
       /\ \/ serving.at = "start"
          \/ serving.at \in {"hash", "rsync"} /\ f <= serving.file
          \/ serving.at = "hash" /\ f \notin serving.names

\* The xmp_ function of the handler, after pre_op has given back its locks.
Perform(k) ==
    /\ k \in calls /\ calls' = calls \ {k}
    /\ tree' = Applied(tree, <<k.file, k.content>>)
    /\ missed' = [c \in Clients |-> IF LookedAt(c, k.file) /\ c \notin k.to
                                    THEN missed[c] \cup {k.file}
                                    ELSE missed[c]]
    /\ UNCHANGED <<replica, client, init, backlog, serving, list, dropped, link,
                   mounted, writes>>

Listener == Accept \/ ReadInit \/ HashNames \/ HashFile \/ HashFails \/ Compare \/ RsyncFile \/ RsyncDone
            \/ Push
ClientMain(c) == ClientHashes(c) \/ ClientConnects(c) \/ ClientRefused(c)
                 \/ ClientBuilds(c) \/ ClientApplies(c) \/ ClientStops(c)

Next ==
    \/ \E c \in Clients : ClientMain(c)
    \/ Listener
    \/ Mount
    \/ \E f \in Order :
        \/ \E x \in Content : pre_op(f, x)
        \/ Deletes /\ pre_op(f, Absent)
    \/ \E k \in calls : Perform(k)

Spec == Init /\ [][Next]_vars

\* The listener thread or some client runs when it can; nobody need work on the
\* files.
Progress == Listener \/ \E c \in Clients : ClientMain(c)

FairSpec == Spec /\ WF_vars(Progress)

-----------------------------------------------------------------------------
TypeOK ==
    /\ tree \in Trees /\ replica \in [Clients -> Trees]
    /\ client \in [Clients -> {"start", "hashed", "rsync", "build", "process",
                               "stopped"}]
    /\ serving.client \in Clients \cup {"nobody"}
    /\ serving.file \in 0 .. NumFiles /\ Len(serving.hash) <= NumFiles
    /\ list \subseteq Clients /\ dropped \subseteq Clients \ list
    /\ mounted \in BOOLEAN /\ writes \in 0 .. MaxWrites
    /\ calls \subseteq [file : Order, content : Content \cup {Absent},
                        to : SUBSET Clients]

\* The client's tree once it has applied what is on its way.
Ahead(c) == FoldLeft(Applied, replica[c], link[c])

\* What joining establishes: the metadata, or with rsync all of a file.
AgreesOn(c, f) ==
    IF c \in Rsync THEN Ahead(c)[f] = tree[f]
    ELSE Hashed(Ahead(c)[f]) = Hashed(tree[f])

\* The file f is as no call has yet to make it.
Settled(f) == \A k \in calls : k.file # f

(* A client in SYNC_LIST that was compared or copied agrees with the server,  *)
(* after what is on its way to it, on every file that no call is changing:    *)
(* what was done before the walk or the copy looked at the file is in what it *)
(* saw, what was sent after the push is on its way. The calls in neither, sent *)
(* before the push and done after the look, are the ones that go missing.     *)
ListedAgrees ==
    \A c \in list : ~dont_check =>
        \A f \in Order \ missed[c] : Settled(f) => AgreesOn(c, f)

(* Every client gets its answer from the listener thread: it ends up in       *)
(* SYNC_LIST, or it is compared, dropped and learns of it, or it stops        *)
(* because the thread has died of a file that vanished under its walk.        *)
EveryoneServed ==
    \A c \in Clients :
        <>(c \in list \/ /\ client[c] = "stopped"
                         /\ serving.at = "panicked" \/ (Checks(c) /\ c \in dropped))
=============================================================================
