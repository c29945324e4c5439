----------------------------- MODULE Replication -----------------------------
(***************************************************************************)
(* The replication path of fsyncd: FUSE worker threads that run            *)
(* pre_op / xmp_* / post_op (server/mod.rs), the connections to replicas   *)
(* and control programs (server/client.rs), the server's harvester, flush  *)
(* and reader threads, and the message loop of a replica (client/mod.rs).  *)
(***************************************************************************)
EXTENDS Naturals, Sequences, FiniteSets, Functions

CONSTANTS
  Threads,      \* FUSE worker threads of the server
  Clients,      \* connections of replicas
  Controls,     \* connections of "fsyncd control" programs, one command each
  Mode,         \* ClientMode of every replica
  Workers,      \* dispatch threads of every replica; 1 is inline dispatch
  Cmd,          \* the command of every control program
  Boot,         \* replicas that are connected when the model starts
  Kinds,        \* kinds of file system call the threads make
  JournalType,  \* "Off", "Forward" or "Bilog"
  Faulty,       \* peers whose connection may break
  Slow,         \* replicas that may exceed CLIENT_RESPONSE_TIMEOUT
  MaxOps        \* bound on the number of file system calls

Peers == Clients \cup Controls

\* A response slot is keyed by the ThreadId of the thread that waits on it: a
\* FUSE worker, or the reader thread of a control connection inside cork().
Tids == Threads \cup Controls

Modes == {"ASYNC", "SEMISYNC", "SYNC", "FLUSHSYNC"}

\* client_main refuses several dispatch threads in any mode but MODE_SYNC;
\* BilogEntry::try_from panics on fsync.
ASSUME ConstantsAssumption ==
  /\ Clients \cap Controls = {} /\ Threads \cap Peers = {}
  /\ Mode \in [Clients -> Modes]
  /\ Workers \in [Clients -> Nat \ {0}]
  /\ \A c \in Clients : Workers[c] # 1 => Mode[c] = "SYNC"
  /\ Cmd \in [Controls -> {"cork", "uncork"}]
  /\ Boot \in Seq(Clients)
  /\ IsInjective(Boot)
  /\ Kinds \subseteq {"write", "unlink", "fsync"}
  /\ JournalType \in {"Off", "Forward", "Bilog"}
  /\ JournalType = "Bilog" => "fsync" \notin Kinds
  /\ Faulty \subseteq Peers /\ Slow \subseteq Clients
  /\ MaxOps \in Nat

VARIABLES
  cork,      \* value of the CORK mutex
  list,      \* SYNC_LIST
  stage,     \* peer -> "off", "open" (from_stream returned), "listed", "harvested"
  status,    \* peer -> ClientStatus
  parked,    \* replica -> tid -> its ClientResponse slot
  journal,   \* operations in the order they reached the journal
  local,     \* operations in the order xmp_* applied them on the server
  pc,        \* FUSE worker -> where it is in a do_* handler
  cur,       \* FUSE worker -> its operation
  pos,       \* FUSE worker -> index into SYNC_LIST of the loop in pre_op
  waits,     \* FUSE worker -> OpRef.waits, the replicas still to wait for
  rpc,       \* peer -> where its reader thread is
  rpos,      \* control -> index into SYNC_LIST of the loop in (un)cork_server
  out,       \* peer -> every message written to it
  flushed,   \* peer -> how many of those have left the server's buffers
  got,       \* peer -> how many of those it has read
  back,      \* replica -> acknowledgements on their way to the server
  up,        \* peer -> its process runs and is connected
  queue,     \* replica -> messages read and not yet dispatched
  applied,   \* replica -> operations in the order it applied them
  log,       \* history: the operations in the order they took CORK
  since,     \* history: Len(log) when the replica entered SYNC_LIST
  gaveup,    \* history: <<t, c>> such that t left a response of c unconsumed
  barrier    \* history: controls whose cork no uncork has undone

threadVars  == <<journal, local, pc, cur, pos, waits, log>>
serverVars  == <<cork, list, stage, since, barrier>>
readerVars  == <<rpc, rpos>>
sendVars    == <<status, out, flushed>>
replicaVars == <<got, back, up, queue, applied>>

peerVars    == <<parked, status, out, flushed, got, back, up, queue, applied,
                 gaveup>>
outside     == <<cork, list, stage, since, barrier, rpc, rpos, parked, status,
                 out, flushed, got, back, up, queue, applied, gaveup>>
serverSide  == <<journal, local, pc, cur, pos, waits, log, cork, list, stage,
                 since, barrier, rpc, rpos, parked>>

vars == <<journal, local, pc, cur, pos, waits, log, cork, list, stage, since,
          barrier, rpc, rpos, parked, status, out, flushed, got, back, up, queue,
          applied, gaveup>>

-----------------------------------------------------------------------------
(* Messages *)

\* FsyncerMsg from the server. The tid of AsyncOp and Uncork is history.
Msg == [type : {"SyncOp", "AsyncOp", "Cork", "Uncork"}, op : Nat, tid : Tids]

\* FsyncerMsg from a replica. An answer names the thread, not the operation.
AckMsg == [type : {"Ack", "AckCork"}, tid : Tids]

Ops == 1 .. Len(log)

\* pre_op sends nothing to control connections, and no fsync to a replica
\* that does not wait for it.
Wants(c, kind) ==
  ~ (kind = "fsync" /\ Mode[c] \in {"ASYNC", "SEMISYNC"})

Skips(p, kind) == p \in Controls \/ ~ Wants(p, kind)

\* Whether pre_op sends a SyncOp, flushes it and waits for the answer.
IsSync(c, kind) ==
  Mode[c] \in {"SYNC", "SEMISYNC"} \/ (Mode[c] = "FLUSHSYNC" /\ kind = "fsync")

\* need_ack of process_ops: the answer follows the dispatch.
AcksAfter(c) == Mode[c] \in {"SYNC", "FLUSHSYNC"}

\* Mutant: a synchronous replica answers on reception too.
AcksBeforeAlways(c) == Mode[c] \in {"SEMISYNC", "SYNC"}

\* A semi-synchronous replica answers before it dispatches.
AcksBefore(c) == Mode[c] = "SEMISYNC"

Inline == {c \in Clients : Workers[c] = 1}

Alive(p) == status[p] # "DEAD"

\* The answer of c may take longer than CLIENT_RESPONSE_TIMEOUT, or never come.
Overdue(c) == c \in Slow \/ ~ up[c] \/ status[c] = "DEAD"

-----------------------------------------------------------------------------
(* Locks *)

\* Mutant: pre_op gives CORK back before its loop over the list.
CorkFreeEarly == TRUE

\* CORK is held from the start of pre_op to drop(corked).
CorkFree == \A t \in Threads : pc[t] # "send"

\* Holders of SYNC_LIST.read(): in pre_op the guard lives until the return.
ListFree ==
  /\ \A t \in Threads : pc[t] \notin {"send", "journal"}
  /\ \A k \in Controls : rpc[k] \notin {"cork", "corkwait", "uncork"}

-----------------------------------------------------------------------------
(* Client::response_msg *)

\* A slot is created on first use; one that exists keeps what it holds.
Park(c, t) ==
  parked' = [parked EXCEPT ![c][t] = IF @ = "absent" THEN "empty" ELSE @]

\* Mutant: a flush accounts for one message too many.
TransmitOffByOne(p, m, flush) ==
  /\ out' = [out EXCEPT ![p] = Append(@, m)]
  /\ flushed' = IF flush THEN [flushed EXCEPT ![p] = Len(out[p]) + 2]
                         ELSE flushed
  /\ UNCHANGED status

\* The message goes into the write buffer, and on to the network on a flush.
Transmit(p, m, flush) ==
  /\ out' = [out EXCEPT ![p] = Append(@, m)]
  /\ flushed' = IF flush THEN [flushed EXCEPT ![p] = Len(out[p]) + 1]
                         ELSE flushed
  /\ UNCHANGED status

\* Mutant: a failed write does not mark the client dead.
WriteErrorIgnored(p) ==
  /\ p \in Faulty \/ ~ up[p]
  /\ UNCHANGED <<status, out, flushed>>

\* The write fails and the message is lost with the connection.
WriteError(p) ==
  /\ p \in Faulty \/ ~ up[p]
  /\ status' = [status EXCEPT ![p] = "DEAD"]
  /\ UNCHANGED <<out, flushed>>

-----------------------------------------------------------------------------
(* A FUSE worker: do_* of fuse_hl/write_unix.rs, pre_op and post_op *)

Goto(t, l) == pc' = [pc EXCEPT ![t] = l]

\* Operations that have been returned to the caller.
Returned == Ops \ {cur[t] : t \in Threads}

\* The kernel hands a call to an idle worker, which enters pre_op.
Call(t) ==
  /\ pc[t] = "idle"
  /\ Len(log) + Cardinality({u \in Threads : pc[u] \in {"lock", "corked"}}) < MaxOps
  /\ Goto(t, "lock")
  /\ UNCHANGED <<journal, local, cur, pos, waits, log, outside>>

\* CORK_VAR.wait gives the mutex back until uncork_server notifies.
LockCorked(t) ==
  /\ pc[t] = "lock" /\ CorkFree /\ cork
  /\ Goto(t, "corked")
  /\ UNCHANGED <<journal, local, cur, pos, waits, log, outside>>

\* CORK and SYNC_LIST.read() are taken; the loop over the list starts.
Lock(t, kind) ==
  /\ pc[t] = "lock" /\ CorkFree /\ ~ cork
  /\ log' = Append(log, [kind |-> kind, tid |-> t, before |-> Returned])
  /\ cur' = [cur EXCEPT ![t] = Len(log) + 1]
  /\ pos' = [pos EXCEPT ![t] = 1]
  /\ waits' = [waits EXCEPT ![t] = <<>>]
  /\ Goto(t, "send")
  /\ UNCHANGED <<journal, local, outside>>

AtPeer(t, p) ==
  /\ pc[t] = "send"
  /\ pos[t] \in DOMAIN list /\ list[pos[t]] = p
  /\ pos' = [pos EXCEPT ![t] = @ + 1]

\* The kind of the call worker t is in.
KindOf(t) == log[cur[t]].kind

OpMsg(t, c) ==
  [type |-> IF IsSync(c, KindOf(t)) THEN "SyncOp" ELSE "AsyncOp",
   op |-> cur[t], tid |-> t]

\* The call does not concern this peer, or response_msg finds it dead.
SendSkip(t, p) ==
  /\ AtPeer(t, p)
  /\ Skips(p, KindOf(t)) \/ status[p] = "DEAD"
  /\ UNCHANGED <<journal, local, pc, cur, waits, log, outside>>

SendOp(t, c) ==
  LET sync == IsSync(c, KindOf(t)) IN
  /\ AtPeer(t, c)
  /\ ~ Skips(c, KindOf(t)) /\ status[c] # "DEAD"
  /\ IF sync THEN Park(c, t) ELSE UNCHANGED parked
  /\ \/ /\ Transmit(c, OpMsg(t, c), sync)
        /\ waits' = IF sync THEN [waits EXCEPT ![t] = Append(@, c)] ELSE waits
     \/ WriteError(c) /\ UNCHANGED waits
  /\ UNCHANGED <<journal, local, pc, cur, log, serverVars, readerVars,
                 replicaVars, gaveup>>

\* drop(corked); without a journal the list guard goes too.
SendDone(t) ==
  /\ pc[t] = "send" /\ pos[t] \notin DOMAIN list
  /\ Goto(t, IF JournalType = "Off" THEN "local" ELSE "journal")
  /\ UNCHANGED <<journal, local, cur, pos, waits, log, outside>>

\* Under bilog the unlink of a file becomes a filestore entry, opref.ret is
\* set, and the handler returns without xmp_unlink and without post_op.
Bypass(t) == JournalType = "Bilog" /\ KindOf(t) = "unlink"

Finish(t) ==
  /\ Goto(t, "idle")
  /\ cur' = [cur EXCEPT ![t] = 0]
  /\ waits' = [waits EXCEPT ![t] = <<>>]

\* Mutant: the early return of unlink comes before the journal entry.
WriteJournalLate(t) ==
  /\ pc[t] = "journal"
  /\ IF Bypass(t)
       THEN Finish(t) /\ gaveup' = gaveup \cup ({t} \X Range(waits[t]))
                      /\ UNCHANGED journal
       ELSE /\ Goto(t, "local")
            /\ journal' = Append(journal, cur[t])
            /\ UNCHANGED <<cur, waits, gaveup>>
  /\ UNCHANGED <<local, pos, log, serverVars, readerVars, parked, sendVars,
                 replicaVars>>

\* The JOURNAL mutex covers write_entry only.
WriteJournal(t) ==
  /\ pc[t] = "journal"
  /\ journal' = Append(journal, cur[t])
  /\ IF Bypass(t)
       THEN Finish(t) /\ gaveup' = gaveup \cup ({t} \X Range(waits[t]))
       ELSE Goto(t, "local") /\ UNCHANGED <<cur, waits, gaveup>>
  /\ UNCHANGED <<local, pos, log, serverVars, readerVars, parked, sendVars,
                 replicaVars>>

\* xmp_* on the server's own backing store.
ApplyLocal(t) ==
  /\ pc[t] = "local"
  /\ local' = Append(local, cur[t])
  /\ Goto(t, "wait")
  /\ UNCHANGED <<journal, cur, pos, waits, log, outside>>

\* ClientResponse::wait takes the data out of the slot.
WaitAnswer(t) ==
  /\ pc[t] = "wait" /\ waits[t] # <<>>
  /\ parked[Head(waits[t])][t] \in {"ack", "dead"}
  /\ parked' = [parked EXCEPT ![Head(waits[t])][t] = "empty"]
  /\ waits' = [waits EXCEPT ![t] = Tail(@)]
  /\ UNCHANGED <<journal, local, pc, cur, pos, log, serverVars, readerVars,
                 sendVars, replicaVars, gaveup>>

\* wait_timeout expires: the slot stays parked and may be filled later.
WaitTimeout(t) ==
  /\ pc[t] = "wait" /\ waits[t] # <<>>
  /\ Overdue(Head(waits[t])) /\ parked[Head(waits[t])][t] = "empty"
  /\ waits' = [waits EXCEPT ![t] = Tail(@)]
  /\ gaveup' = gaveup \cup {<<t, Head(waits[t])>>}
  /\ UNCHANGED <<journal, local, pc, cur, pos, log, serverVars, readerVars,
                 parked, sendVars, replicaVars>>

\* post_op has gone through opref.waits.
Return(t) ==
  /\ pc[t] = "wait" /\ waits[t] = <<>>
  /\ Finish(t)
  /\ UNCHANGED <<journal, local, pos, log, outside>>

-----------------------------------------------------------------------------
(* The reader thread of a control connection: cork_server, uncork_server *)

RGoto(k, l) == rpc' = [rpc EXCEPT ![k] = l]

CorkMsg(k) == [type |-> "Cork", op |-> 0, tid |-> k]

UncorkMsg(k) == [type |-> "Uncork", op |-> 0, tid |-> k]

\* CORK is set under its mutex, then SYNC_LIST.read() is taken.
CorkStart(k) ==
  /\ rpc[k] = "cmd" /\ Cmd[k] = "cork" /\ CorkFree
  /\ cork' = TRUE
  /\ barrier' = barrier \cup {k}
  /\ rpos' = [rpos EXCEPT ![k] = 1]
  /\ RGoto(k, "cork")
  /\ UNCHANGED <<threadVars, list, stage, since, peerVars>>

\* Client::cork: a replica is waited for, a control connection is not, and a
\* peer that cannot be written to is passed over.
CorkPeer(k, p) ==
  /\ rpc[k] = "cork"
  /\ rpos[k] \in DOMAIN list /\ list[rpos[k]] = p
  /\ \/ /\ status[p] = "DEAD"
        /\ rpos' = [rpos EXCEPT ![k] = @ + 1]
        /\ UNCHANGED <<rpc, parked, sendVars>>
     \/ /\ status[p] # "DEAD"
        /\ IF p \in Clients THEN Park(p, k) ELSE UNCHANGED parked
        /\ \/ /\ Transmit(p, CorkMsg(k), TRUE)
              /\ IF p \in Clients
                   THEN RGoto(k, "corkwait") /\ UNCHANGED rpos
                   ELSE UNCHANGED rpc /\ rpos' = [rpos EXCEPT ![k] = @ + 1]
           \/ /\ WriteError(p)
              /\ rpos' = [rpos EXCEPT ![k] = @ + 1]
              /\ UNCHANGED rpc
  /\ UNCHANGED <<threadVars, serverVars, replicaVars, gaveup>>

\* Mutant: cork does not wait for the acknowledgement.
CorkAnswerEarly(k) ==
  /\ rpc[k] = "corkwait"
  /\ rpos' = [rpos EXCEPT ![k] = @ + 1]
  /\ RGoto(k, "cork")
  /\ UNCHANGED <<threadVars, serverVars, peerVars>>

\* The wait in cork returns an acknowledgement (or Dead).
CorkAnswer(k) ==
  /\ rpc[k] = "corkwait"
  /\ parked[list[rpos[k]]][k] \in {"ack", "dead"}
  /\ parked' = [parked EXCEPT ![list[rpos[k]]][k] = "empty"]
  /\ rpos' = [rpos EXCEPT ![k] = @ + 1]
  /\ RGoto(k, "cork")
  /\ UNCHANGED <<threadVars, serverVars, sendVars, replicaVars, gaveup>>

\* Mutant: the wait in cork has no timeout.
CorkPanicNever(k) == FALSE /\ UNCHANGED vars

\* expect("Client did not respond") ends the thread; CORK stays true.
CorkPanic(k) ==
  /\ rpc[k] = "corkwait"
  /\ Overdue(list[rpos[k]]) /\ parked[list[rpos[k]]][k] = "empty"
  /\ RGoto(k, "panicked")
  /\ UNCHANGED <<threadVars, serverVars, rpos, peerVars>>

CorkDone(k) ==
  /\ rpc[k] = "cork" /\ rpos[k] \notin DOMAIN list
  /\ RGoto(k, "corked")
  /\ UNCHANGED <<threadVars, serverVars, rpos, peerVars>>

UncorkStart(k) ==
  /\ rpc[k] = "cmd" /\ Cmd[k] = "uncork"
  /\ rpos' = [rpos EXCEPT ![k] = 1]
  /\ RGoto(k, "uncork")
  /\ UNCHANGED <<threadVars, serverVars, peerVars>>

UncorkPeer(k, p) ==
  /\ rpc[k] = "uncork"
  /\ rpos[k] \in DOMAIN list /\ list[rpos[k]] = p
  /\ \/ status[p] = "DEAD" /\ UNCHANGED sendVars
     \/ /\ status[p] # "DEAD"
        /\ Transmit(p, UncorkMsg(k), FALSE) \/ WriteError(p)
  /\ rpos' = [rpos EXCEPT ![k] = @ + 1]
  /\ UNCHANGED <<threadVars, serverVars, rpc, parked, replicaVars, gaveup>>

\* drop(list)
UncorkListDone(k) ==
  /\ rpc[k] = "uncork" /\ rpos[k] \notin DOMAIN list
  /\ RGoto(k, "release")
  /\ UNCHANGED <<threadVars, serverVars, rpos, peerVars>>

\* Mutant: nobody is notified.
ReleaseSilent(k) ==
  /\ rpc[k] = "release" /\ CorkFree
  /\ cork' = FALSE
  /\ barrier' = {}
  /\ RGoto(k, "uncorked")
  /\ UNCHANGED <<threadVars, list, stage, since, rpos, peerVars>>

\* CORK is cleared and CORK_VAR.notify_all wakes the workers waiting on it.
Release(k) ==
  /\ rpc[k] = "release" /\ CorkFree
  /\ cork' = FALSE
  /\ barrier' = {}
  /\ pc' = [t \in Threads |-> IF pc[t] = "corked" THEN "lock" ELSE pc[t]]
  /\ RGoto(k, "uncorked")
  /\ UNCHANGED <<journal, local, cur, pos, waits, log, list, stage, since, rpos, peerVars>>

-----------------------------------------------------------------------------
(* Connections: accept loop, reader threads, harvester, flush thread *)

\* Client::from_stream in the accept loop, which serves one peer at a time.
\* The reader thread runs before the peer is in SYNC_LIST, and a control
\* program sends its command as soon as it is connected.
Connect(p) ==
  /\ stage[p] = "off" /\ \A q \in Peers : stage[q] # "open"
  /\ stage' = [stage EXCEPT ![p] = "open"]
  /\ up' = [up EXCEPT ![p] = TRUE]
  /\ RGoto(p, IF p \in Controls THEN "cmd" ELSE "read")
  /\ UNCHANGED <<threadVars, cork, list, since, barrier, rpos, parked,
                 sendVars, got, back, queue, applied, gaveup>>

\* SYNC_LIST.write().unwrap().push(client)
Push(p) ==
  /\ stage[p] = "open" /\ ListFree
  /\ stage' = [stage EXCEPT ![p] = "listed"]
  /\ list' = Append(list, p)
  /\ since' = [since EXCEPT ![p] = Len(log)]
  /\ UNCHANGED <<threadVars, cork, barrier, readerVars, peerVars>>

\* Client::reader on Ack and AckCork. The slot of an Ack is created on demand.
ReadAck(c) ==
  LET a == Head(back[c]) IN
  /\ rpc[c] = "read" /\ back[c] # <<>>
  /\ back' = [back EXCEPT ![c] = Tail(@)]
  /\ IF a.type = "Ack" \/ parked[c][a.tid] # "absent"
       THEN parked' = [parked EXCEPT ![c][a.tid] = "ack"]
       ELSE UNCHANGED parked
  /\ UNCHANGED <<threadVars, serverVars, readerVars, sendVars, got, up, queue,
                 applied, gaveup>>

\* Client::reader on an error: the thread ends, nobody is notified yet.
ReadError(p) ==
  /\ rpc[p] \in {"read", "cmd", "corked", "uncorked"}
  /\ ~ up[p]
  /\ rpc[p] = "cmd" => p \in Faulty
  /\ RGoto(p, "gone")
  /\ status' = [status EXCEPT ![p] = "DEAD"]
  /\ UNCHANGED <<threadVars, serverVars, rpos, parked, out, flushed,
                 replicaVars, gaveup>>

\* retain(|c| c.status() != DEAD) of harvester_thread: the clients that are kept
\* keep their order; f lists their indices.
RetainAlive ==
  \E n \in 0 .. Len(list) : \E f \in [1 .. n -> DOMAIN list] :
    /\ \A i, j \in 1 .. n : i < j => f[i] < f[j]
    /\ \A i \in DOMAIN list : Alive(list[i]) <=> \E j \in 1 .. n : f[j] = i
    /\ list' = [j \in 1 .. n |-> list[f[j]]]

\* Mutant: a dropped client leaves its slots alone.
HarvestSilent ==
  /\ ListFree
  /\ \E i \in DOMAIN list : ~ Alive(list[i])
  /\ RetainAlive
  /\ stage' = [p \in Peers |-> IF stage[p] = "listed" /\ ~ Alive(p)
                               THEN "harvested" ELSE stage[p]]
  /\ UNCHANGED <<threadVars, cork, since, barrier, readerVars, peerVars>>

\* harvester_thread, with Drop for Client notifying every parked slot.
Harvest ==
  /\ ListFree
  /\ \E i \in DOMAIN list : ~ Alive(list[i])
  /\ RetainAlive
  /\ stage' = [p \in Peers |-> IF stage[p] = "listed" /\ ~ Alive(p)
                               THEN "harvested" ELSE stage[p]]
  /\ parked' = [c \in Clients |-> [t \in Tids |->
                  IF stage[c] = "listed" /\ ~ Alive(c) /\ parked[c][t] # "absent"
                  THEN "dead" ELSE parked[c][t]]]
  /\ UNCHANGED <<threadVars, cork, since, barrier, readerVars,
                 sendVars, replicaVars, gaveup>>

\* Mutant: the flush thread filters on the wrong mode.
FlushWrongMode(c) ==
  /\ c \in Range(list) /\ Mode[c] = "FLUSHSYNC"
  /\ flushed[c] < Len(out[c])
  /\ flushed' = [flushed EXCEPT ![c] = Len(out[c])]
  /\ UNCHANGED <<serverSide, status, out, replicaVars, gaveup>>

\* flush_thread: Client::flush on the asynchronous replicas. A flush that fails
\* is reported and no more, unless the stream is compressed: then it is a message
\* of its own, and response_msg marks the client dead.
Flush(c) ==
  /\ c \in Range(list) /\ Mode[c] = "ASYNC"
  /\ flushed[c] < Len(out[c])
  /\ \/ flushed' = [flushed EXCEPT ![c] = Len(out[c])] /\ UNCHANGED <<status, out>>
     \/ status[c] # "DEAD" /\ WriteError(c)
  /\ UNCHANGED <<serverSide, replicaVars, gaveup>>

\* The compressor or the kernel passes buffered bytes on by itself.
Drain(p) ==
  /\ flushed[p] < Len(out[p])
  /\ flushed' = [flushed EXCEPT ![p] = @ + 1]
  /\ UNCHANGED <<serverSide, status, out,
                 replicaVars, gaveup>>

-----------------------------------------------------------------------------
(* A replica: process_ops of client/mod.rs; the control program *)

HasMail(p) == up[p] /\ got[p] < flushed[p]

NextMsg(p) == out[p][got[p] + 1]

Reply(c, type, m) ==
  back' = [back EXCEPT ![c] = Append(@, [type |-> type, tid |-> m.tid])]

\* read_msg and the match on it. An inline replica reads on only when it has
\* dispatched; a SEMISYNC replica answers before it dispatches; a Cork is
\* answered at once and the other messages are ignored.
Receive(c) ==
  LET m == NextMsg(c) IN
  /\ HasMail(c) /\ (Workers[c] = 1 => queue[c] = <<>>)
  /\ got' = [got EXCEPT ![c] = @ + 1]
  /\ queue' = IF m.type \in {"SyncOp", "AsyncOp"}
              THEN [queue EXCEPT ![c] = Append(@, m)] ELSE queue
  /\ \/ m.type = "SyncOp" /\ AcksBefore(c) /\ Reply(c, "Ack", m)
     \/ m.type = "Cork" /\ Reply(c, "AckCork", m)
     \/ /\ m.type # "Cork" /\ ~ (m.type = "SyncOp" /\ AcksBefore(c))
        /\ UNCHANGED back
  /\ UNCHANGED <<serverSide, sendVars, up,
                 applied, gaveup>>

\* s without its i-th element.
Without(s, i) == SubSeq(s, 1, i - 1) \o SubSeq(s, i + 1, Len(s))

\* callback dispatches the call, then need_ack sends the return code. The
\* thread pool starts tasks in order and runs Workers[c] of them at a time.
Execute(c, i) ==
  LET m == queue[c][i] IN
  /\ up[c] /\ i \in DOMAIN queue[c] /\ i <= Workers[c]
  /\ applied' = [applied EXCEPT ![c] = Append(@, m.op)]
  /\ queue' = [queue EXCEPT ![c] = Without(@, i)]
  /\ IF m.type = "SyncOp" /\ AcksAfter(c) THEN Reply(c, "Ack", m) ELSE UNCHANGED back
  /\ UNCHANGED <<serverSide, sendVars, got,
                 up, gaveup>>

\* ServerConnection::cork_server reads until a Cork arrives, acknowledges it
\* (the server finds no slot for that) and the program exits.
CtlReceive(k) ==
  /\ HasMail(k) /\ Cmd[k] = "cork"
  /\ got' = [got EXCEPT ![k] = @ + 1]
  /\ up' = [up EXCEPT ![k] = NextMsg(k).type # "Cork"]
  /\ UNCHANGED <<serverSide, sendVars, back,
                 queue, applied, gaveup>>

\* A crash of the peer or a broken connection; the end of an uncork program.
Disconnect(p) ==
  /\ up[p] /\ (p \in Faulty \/ (p \in Controls /\ Cmd[p] = "uncork"))
  /\ up' = [up EXCEPT ![p] = FALSE]
  /\ UNCHANGED <<serverSide, sendVars, got,
                 back, queue, applied, gaveup>>

-----------------------------------------------------------------------------
Init ==
  /\ cork = FALSE
  /\ list = Boot
  /\ stage = [p \in Peers |-> IF p \in Range(Boot) THEN "listed" ELSE "off"]
  /\ status = [p \in Peers |-> "ALIVE"]
  /\ parked = [c \in Clients |-> [t \in Tids |-> "absent"]]
  /\ journal = <<>> /\ local = <<>>
  /\ pc = [t \in Threads |-> "idle"]
  /\ cur = [t \in Threads |-> 0]
  /\ pos = [t \in Threads |-> 1]
  /\ waits = [t \in Threads |-> <<>>]
  /\ rpc = [p \in Peers |-> IF p \in Range(Boot) THEN "read" ELSE "off"]
  /\ rpos = [k \in Controls |-> 1]
  /\ out = [p \in Peers |-> <<>>]
  /\ flushed = [p \in Peers |-> 0]
  /\ got = [p \in Peers |-> 0]
  /\ back = [c \in Clients |-> <<>>]
  /\ up = [p \in Peers |-> p \in Range(Boot)]
  /\ queue = [c \in Clients |-> <<>>]
  /\ applied = [c \in Clients |-> <<>>]
  /\ log = <<>>
  /\ since = [p \in Peers |-> 0]
  /\ gaveup = {}
  /\ barrier = {}

\* One step of a FUSE worker that is inside a handler.
Work(t) ==
  \/ LockCorked(t)
  \/ \E kind \in Kinds : Lock(t, kind)
  \/ \E p \in Peers : SendSkip(t, p)
  \/ \E c \in Clients : SendOp(t, c)
  \/ SendDone(t) \/ WriteJournal(t) \/ ApplyLocal(t) \/ WaitAnswer(t) \/ Return(t)

\* One step of the reader thread of a control connection.
Command(k) ==
  \/ CorkStart(k) \/ CorkAnswer(k) \/ CorkPanic(k) \/ CorkDone(k)
  \/ UncorkStart(k) \/ UncorkListDone(k) \/ Release(k)
  \/ \E p \in Peers : CorkPeer(k, p) \/ UncorkPeer(k, p)

\* Nothing is left to do: every call made has returned or waits for an uncork.
Quiet ==
  /\ \A t \in Threads : \/ pc[t] = "idle" /\ Len(log) = MaxOps
                        \/ pc[t] = "corked" /\ cork
                        \/ pc[t] = "idle" /\ cork
  /\ \A k \in Controls : rpc[k] \in {"corked", "uncorked", "panicked", "gone"}
  /\ UNCHANGED vars

Next ==
  \/ \E t \in Threads : Call(t) \/ Work(t) \/ WaitTimeout(t)
  \/ \E k \in Controls : Command(k) \/ CtlReceive(k)
  \/ \E p \in Peers : Connect(p) \/ Push(p) \/ ReadError(p) \/ Drain(p) \/ Disconnect(p)
  \/ \E c \in Clients : ReadAck(c) \/ Flush(c) \/ Receive(c)
  \/ \E c \in Clients : \E i \in DOMAIN queue[c] : Execute(c, i)
  \/ Harvest
  \/ Quiet

Spec == Init /\ [][Next]_vars

\* The scheduler runs every thread that can run, the network delivers to a
\* peer that is up, and the periodic threads come round. No peer has to fail
\* or to connect, no buffer has to drain by itself, and no worker has to wait
\* for its timeout.
Fairness ==
  /\ \A t \in Threads : WF_vars(Work(t))
  /\ \A k \in Controls : WF_vars(Command(k)) /\ WF_vars(CtlReceive(k))
  /\ \A p \in Peers : WF_vars(Push(p)) /\ WF_vars(ReadError(p))
  /\ \A c \in Clients : /\ WF_vars(ReadAck(c)) /\ WF_vars(Flush(c))
                        /\ WF_vars(Receive(c))
                        /\ WF_vars(\E i \in DOMAIN queue[c] : Execute(c, i))
  /\ WF_vars(Harvest)

FairSpec == Spec /\ Fairness

-----------------------------------------------------------------------------
(* Safety *)

Labels == {"idle", "lock", "corked", "send", "journal", "local", "wait"}

ReaderLabels == {"off", "read", "cmd", "cork", "corkwait", "corked", "panicked",
                 "uncork", "release", "uncorked", "gone"}

ThreadOK ==
  /\ journal \in Seq(Nat) /\ local \in Seq(Nat)
  /\ pc \in [Threads -> Labels]
  /\ cur \in [Threads -> Nat]
  /\ pos \in [Threads -> Nat \ {0}]
  /\ waits \in [Threads -> Seq(Clients)]
  /\ log \in Seq([kind : Kinds, tid : Threads, before : SUBSET Nat])

ServerOK ==
  /\ cork \in BOOLEAN
  /\ list \in Seq(Peers)
  /\ stage \in [Peers -> {"off", "open", "listed", "harvested"}]
  /\ since \in [Peers -> Nat]
  /\ barrier \subseteq Controls

ReaderOK ==
  /\ rpc \in [Peers -> ReaderLabels]
  /\ rpos \in [Controls -> Nat \ {0}]

SlotOK ==
  /\ parked \in [Clients -> [Tids -> {"absent", "empty", "ack", "dead"}]]
  /\ gaveup \subseteq Threads \X Clients

StreamOK ==
  /\ status \in [Peers -> {"ALIVE", "DEAD"}]
  /\ out \in [Peers -> Seq(Msg)]
  /\ flushed \in [Peers -> Nat]
  /\ got \in [Peers -> Nat]
  /\ \A p \in Peers : got[p] <= flushed[p] /\ flushed[p] <= Len(out[p])

ReplicaOK ==
  /\ up \in [Peers -> BOOLEAN]
  /\ back \in [Clients -> Seq(AckMsg)]
  /\ queue \in [Clients -> Seq(Msg)]
  /\ applied \in [Clients -> Seq(Nat)]

\* The type invariant: SYNC_LIST holds peers, cursors stay inside the messages
\* written, slots and program counters take the values the code gives them.
TypeOK == ThreadOK /\ ServerOK /\ ReaderOK /\ SlotOK /\ StreamOK /\ ReplicaOK

\* Operation n was made for c to apply.
Addressed(c, n) == since[c] < n /\ Wants(c, log[n].kind)

\* c has applied everything pre_op has ever meant for it.
Drained(c) == \A n \in Ops : Addressed(c, n) => n \in Range(applied[c])

\* An inline replica applies the operations that took the CORK mutex in that
\* order, each at most once and none left out: what it has applied is a prefix
\* of what the server sent since it entered SYNC_LIST, even when its
\* connection breaks, a write to it fails or the server gives up waiting.
ReplicaPrefix ==
  \A c \in Inline :
    /\ \A i, j \in DOMAIN applied[c] : i < j => applied[c][i] < applied[c][j]
    /\ \A n \in Range(applied[c]) :
         /\ n \in Ops /\ Addressed(c, n)
         /\ \A m \in 1 .. n : Addressed(c, m) => m \in Range(applied[c])

\* When the slot of a waiting worker holds the answer of a replica that
\* acknowledges after dispatch, that replica has applied the worker's own
\* operation, and an inline one every operation before it. Excepted are the
\* slots in which the worker has left an earlier answer behind.
AckMeansApplied ==
  \A t \in Threads : \A c \in Range(waits[t]) :
    /\ AcksAfter(c) /\ <<t, c>> \notin gaveup /\ parked[c][t] = "ack"
    => /\ cur[t] \in Range(applied[c])
       /\ c \in Inline => \A m \in 1 .. cur[t] :
                            Addressed(c, m) => m \in Range(applied[c])

\* In s, operation n comes only after operation m.
Follows(s, n, m) ==
  \A i \in DOMAIN s : s[i] = n => \E j \in 1 .. i : s[j] = m

\* An operation that had returned when another one entered pre_op comes before
\* it in the journal, on the server's own store and on every replica that
\* answered it after dispatch, whatever the number of dispatch threads.
ReturnOrder ==
  \A n \in Ops : \A m \in log[n].before :
    /\ JournalType # "Off" => Follows(journal, n, m)
    /\ ~ (JournalType = "Bilog" /\ log[m].kind = "unlink") => Follows(local, n, m)
    /\ \A c \in Clients :
         /\ IsSync(c, log[m].kind) /\ AcksAfter(c) /\ Addressed(c, m)
         /\ <<log[m].tid, c>> \notin gaveup
         => Follows(applied[c], n, m)

\* Once cork_server has passed an inline replica that is still alive, that
\* replica has applied every operation sent to it, and it stays so until an
\* uncork: "Cork done" means that nothing is in flight.
CorkBarrier ==
  \A k \in barrier : \A i \in DOMAIN list :
    /\ list[i] \in Inline /\ Alive(list[i])
    /\ \/ rpc[k] = "corked"
       \/ rpc[k] \in {"cork", "corkwait"} /\ i < rpos[k]
    => Drained(list[i])

\* cork() is never ended by its timeout for a peer already known to be dead:
\* "Unblock all threads that could be waiting on this client" (Drop for Client).
DeadPeerUnblocksCork ==
  [][\A k \in Controls :
       rpc[k] = "corkwait" /\ rpc'[k] = "panicked" => Alive(list[rpos[k]])]_vars

-----------------------------------------------------------------------------
(* Liveness, under Fairness *)

\* A call that waits for replicas returns without the help of its timeout: a
\* replica answers, or it is found dead, harvested, and Drop fills its slot.
WaitEnds == \A t \in Threads : pc[t] = "wait" ~> pc[t] = "idle"

\* A worker sleeps on CORK_VAR for ever only if the server stays corked: no
\* wake-up of uncork_server is lost.
SleepsOnlyCorked ==
  \A t \in Threads : <>[](pc[t] = "corked") => <>[]cork

\* A command read from a control connection is carried out or abandoned by
\* the panic in cork(); the locks never leave it stuck.
CommandEnds ==
  \A k \in Controls :
    rpc[k] = "cmd" ~> rpc[k] \in {"corked", "uncorked", "panicked", "gone"}

\* Every call meant for a replica whose connection holds is applied by it,
\* also when the call is only buffered: flush_thread sees to the ASYNC ones.
\* A FLUSHSYNC replica may have to wait for the next fsync.
Delivered ==
  \A c \in Clients \ Faulty : \A n \in 1 .. MaxOps :
    stage[c] = "listed" /\ n \in Ops /\ Addressed(c, n) /\ Mode[c] # "FLUSHSYNC"
      ~> n \in Range(applied[c])

=============================================================================
