-------------------------------- MODULE Mirror --------------------------------
(* The backing tree of the server and the tree of one replica, while worker   *)
(* threads run calls concurrently (fuse_hl/write_unix.rs, server/mod.rs,      *)
(* client/mod.rs process_ops): a call goes to the replica in pre_op, is done  *)
(* locally after that, and in a synchronous mode is answered before its       *)
(* worker returns.  The order of the calls on the wire is not their order in  *)
(* the server's tree; what keeps the trees together is that the kernel lets   *)
(* no two calls in that disagree about their order.                           *)
(*                                                                            *)
(* Connections, corking and the loss of a connection are in Replication.      *)
EXTENDS FuseOps
CONSTANTS
    Workers,          \* threads of libfuse
    Confs,            \* configurations, with the name of a workload each
    Workload,         \* name -> the calls that are made, the trees to begin with
    MaxCalls          \* bound: calls made

VARIABLES conf,       \* the configuration
          srv, rep,   \* the two trees
          work,       \* the workers
          queue,      \* messages on their way to the replica, oldest first
          pool,       \* calls handed to the replica's dispatch threads
          acks,       \* response slots: the answers a worker may take
          alive,      \* no process has panicked
          told,       \* history: post_op has said that a response does not match
          made        \* number of calls made
vars == <<conf, srv, rep, work, queue, pool, acks, alive, told, made>>

Mode == conf.mode              \* the ClientMode of the replica
Pool == conf.pool              \* the replica has several dispatch threads
Timeouts == conf.timeouts      \* wait() may give up on the replica
DIFF_WRITES == conf.diff_writes
Calls == Workload[conf.name].calls

Idle == [pc |-> "idle"]
None == <<>>
Ack == 100           \* ClientAck::Ack, which is no return code
NameOps == {"mknod", "mkdir", "unlink", "rmdir", "symlink", "rename", "link", "create"}
Named(c) == IF c.op \in {"rename", "link"} THEN {c.from, c.to}
            ELSE IF c.op = "symlink" THEN {c.to} ELSE {c.path}

\* The locks of the kernel: one call per file, one change of names per directory.
Locked(c) == \E v \in Workers :
    /\ work[v] # Idle
    /\ \/ Named(c) \cap Named(work[v].call) # {}
       \/ c.op \in NameOps /\ work[v].call.op \in NameOps

Skips(c) == c.op = "fsync" /\ Mode \in {"async", "semisync"}
Synced(c) == /\ ~Skips(c)
             /\ Mode \in {"sync", "semisync"} \/ (Mode = "flushsync" /\ c.op = "fsync")

Init ==
    /\ conf \in Confs
    /\ \E t \in Workload[conf.name].trees :
           /\ srv = [t EXCEPT !.room = conf.srv_room]
           /\ rep = [t EXCEPT !.room = conf.rep_room]
    /\ work = [w \in Workers |-> Idle]
    /\ queue = <<>> /\ pool = {} /\ acks = [w \in Workers |-> None]
    /\ alive = TRUE /\ told = FALSE /\ made = 0

\* The handler up to the end of pre_op.
PreOp(w, c) ==
    /\ alive /\ work[w] = Idle /\ made < MaxCalls
    /\ Sent(srv, c) /\ ~Locked(c)
    /\ made' = made + 1
    /\ IF Differs(srv, c, DIFF_WRITES) /\ SliceFails(srv, c)
       THEN alive' = FALSE /\ UNCHANGED <<work, queue>>
       ELSE /\ work' = [work EXCEPT ![w] = [pc |-> "local", call |-> c, id |-> made',
                  buf |-> IF c.op = "write" THEN WrittenBuf(srv, c, DIFF_WRITES) ELSE <<>>]]
            /\ queue' = IF Skips(c) THEN queue
                        ELSE Append(queue, [call |-> SentCall(srv, c, DIFF_WRITES), tid |-> w,
                                            sync |-> Synced(c), id |-> made'])
            /\ UNCHANGED alive
    /\ UNCHANGED <<conf, srv, rep, pool, acks, told>>

\* The system call on the server's own tree.
LocalOp(w) ==
    /\ alive /\ work[w] # Idle /\ work[w].pc = "local"
    /\ LET r == local(srv, work[w].call, work[w].buf)
       IN /\ srv' = r.fs
          /\ work' = [work EXCEPT ![w] = [pc |-> "wait", call |-> @.call, id |-> @.id, ret |-> r.ret]]
    /\ UNCHANGED <<conf, rep, queue, pool, acks, alive, told, made>>

\* post_op: the answer is compared, and the call returns.  A plain Ack matches
\* any result.
Differing(w) == Synced(work[w].call) /\ acks[w][1].ret \notin {Ack, work[w].ret}
PostOpQuiet(w) ==
    /\ alive /\ work[w] # Idle /\ work[w].pc = "wait"
    /\ Synced(work[w].call) => acks[w] # None
    /\ acks' = [acks EXCEPT ![w] = IF Synced(work[w].call) THEN None ELSE @]
    /\ told' = (told \/ (Differing(w) /\ acks[w][1].ret < 0))
    /\ work' = [work EXCEPT ![w] = Idle]
    /\ UNCHANGED <<conf, srv, rep, queue, pool, alive, made>>
PostOp(w) ==
    /\ alive /\ work[w] # Idle /\ work[w].pc = "wait"
    /\ Synced(work[w].call) => acks[w] # None
    /\ acks' = [acks EXCEPT ![w] = IF Synced(work[w].call) THEN None ELSE @]
    /\ told' = (told \/ Differing(w))
    /\ work' = [work EXCEPT ![w] = Idle]
    /\ UNCHANGED <<conf, srv, rep, queue, pool, alive, made>>
Timeout(w) ==
    /\ Timeouts /\ alive /\ work[w] # Idle /\ work[w].pc = "wait"
    /\ Synced(work[w].call) /\ acks[w] = None
    /\ work' = [work EXCEPT ![w] = Idle]
    /\ UNCHANGED <<conf, srv, rep, queue, pool, acks, alive, told, made>>

\* A dispatch, and the answer, which names the thread and not the call.
DispatchAcksZero(m) ==
    LET r == dispatch(rep, m.call)
    IN /\ rep' = r.fs /\ alive' = (r.ret # Panic)
       /\ acks' = IF m.sync /\ Mode # "semisync" /\ r.ret # Panic
                  THEN [acks EXCEPT ![m.tid] = <<[ret |-> 0, id |-> m.id]>>] ELSE acks
Dispatch(m) ==
    LET r == dispatch(rep, m.call)
    IN /\ rep' = r.fs /\ alive' = (r.ret # Panic)
       /\ acks' = IF m.sync /\ Mode # "semisync" /\ r.ret # Panic
                  THEN [acks EXCEPT ![m.tid] = <<[ret |-> r.ret, id |-> m.id]>>] ELSE acks

\* process_ops: inline, to the pool, or answered first and then done.
ReadOp ==
    /\ alive /\ queue # <<>> /\ ~(Pool /\ Head(queue).sync) /\ Mode # "semisync"
    /\ Dispatch(Head(queue)) /\ queue' = Tail(queue)
    /\ UNCHANGED <<conf, srv, work, pool, told, made>>
ReadSemisync ==
    /\ alive /\ queue # <<>> /\ Mode = "semisync"
    /\ LET m == Head(queue)
       IN /\ Head(queue).sync
          /\ acks' = [acks EXCEPT ![m.tid] = <<[ret |-> Ack, id |-> m.id]>>]
          /\ queue' = <<[m EXCEPT !.sync = FALSE]>> \o Tail(queue)
    /\ UNCHANGED <<conf, srv, rep, work, pool, alive, told, made>>
DispatchSemisync ==
    /\ alive /\ queue # <<>> /\ Mode = "semisync" /\ ~Head(queue).sync
    /\ Dispatch(Head(queue)) /\ queue' = Tail(queue)
    /\ UNCHANGED <<conf, srv, work, pool, told, made>>
ReadAllToPool ==
    /\ alive /\ queue # <<>> /\ Pool
    /\ pool' = pool \cup {Head(queue)} /\ queue' = Tail(queue)
    /\ UNCHANGED <<conf, srv, rep, work, acks, alive, told, made>>
ReadToPool ==
    /\ alive /\ queue # <<>> /\ Pool /\ Head(queue).sync
    /\ pool' = pool \cup {Head(queue)} /\ queue' = Tail(queue)
    /\ UNCHANGED <<conf, srv, rep, work, acks, alive, told, made>>
PoolOp(m) ==
    /\ alive /\ m \in pool
    /\ Dispatch(m) /\ pool' = pool \ {m}
    /\ UNCHANGED <<conf, srv, work, queue, told, made>>

Next ==
    \/ \E w \in Workers : \/ \E c \in Calls : PreOp(w, c)
                          \/ LocalOp(w) \/ PostOp(w) \/ Timeout(w)
    \/ ReadOp \/ ReadSemisync \/ DispatchSemisync \/ ReadToPool
    \/ \E m \in pool : PoolOp(m)
Spec == Init /\ [][Next]_vars

----------------------------------------------------------------------------
\* The tree after a set or a sequence of calls still to be done.
Pending == {w \in Workers : work[w] # Idle /\ work[w].pc = "local"}
Finished(t) ==
    LET ids == {work[w].id : w \in Pending}
        call[i \in ids] == CHOOSE w \in Pending : work[w].id = i
        upto[n \in 0 .. MaxCalls] ==
            IF n = 0 THEN t
            ELSE IF n \in ids THEN local(upto[n - 1], work[call[n]].call, work[call[n]].buf).fs
            ELSE upto[n - 1]
    IN upto[MaxCalls]
Drained(t) ==
    LET msgs == pool \cup {queue[i] : i \in DOMAIN queue}
        upto[n \in 0 .. MaxCalls] ==
            IF n = 0 THEN t
            ELSE IF \E m \in msgs : m.id = n
                 THEN dispatch(upto[n - 1], (CHOOSE m \in msgs : m.id = n).call).fs
            ELSE upto[n - 1]
    IN upto[MaxCalls]

(* However the workers and the replica's threads interleave, the replica,     *)
(* once it has done what it was sent, has the tree that the server has once   *)
(* it has done the calls it is in the middle of (pre_op sends, the handler    *)
(* works afterwards), as long as both have room for their files or neither    *)
(* has: a call that fails on the server fails on the replica.                 *)
Alike == srv.room = rep.room
CatchUp == alive /\ Alike => View(Drained(rep)) = View(Finished(srv))

(* post_op does not have to say "Response from client {} does not match       *)
(* server {}" of two sides with the same room: the replica ends a call as the *)
(* server did, although it runs it in another state of the tree.              *)
ResponsesMatch ==
    \A w \in Workers :
        (Alike /\ work[w] # Idle /\ work[w].pc = "wait" /\ acks[w] # None /\ acks[w][1].id = work[w].id)
            => acks[w][1].ret \in {Ack, work[w].ret}

(* A call that succeeds on one side only, because the other has no room for   *)
(* it, does not pass in silence: when every call has returned and a replica   *)
(* that is asked for all its results has none left to do, either the trees    *)
(* agree or post_op has said that a response does not match.                  *)
Quiet == queue = <<>> /\ pool = {} /\ \A w \in Workers : work[w] = Idle
MismatchTold ==
    Mode = "sync" /\ ~Timeouts /\ alive /\ Quiet => told \/ View(rep) = View(srv)
=============================================================================
