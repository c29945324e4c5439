---------------------------- MODULE MCConnection ----------------------------
(***************************************************************************)
(* What happens on the connection of a replica: it joins (Join), by way of  *)
(* rsync (RsyncBridge), and its calls go through a limiter (LimitWriter).   *)
(* The three models share no state, so a behaviour is one of one of them,   *)
(* named by part, in which the others stay as they are.                     *)
(***************************************************************************)
EXTENDS Naturals

CONSTANTS
    Clients, Rsync, NumFiles, Metas, Datas, MaxWrites,
    Chunks, Replies, MaxMsgs,
    PerSecond, Limits, Sizes, MaxTime, MaxWritten

VARIABLES
    part,
    tree, replica, client, init, backlog, serving, list, dropped, link,
    mounted, writes, calls, missed,
    down, up, sender, receiver, failed, pipes, main, thread, joined,
    serverGoes, msgs, misread,
    bps, bytes_left, last_updated, blocking, partial_writes, now, wake, len,
    written, waits, panicked

J == INSTANCE Join WITH dont_check <- FALSE, Stdio <- FALSE, Deletes <- TRUE
R == INSTANCE RsyncBridge
L == INSTANCE LimitWriter

joinVars == <<tree, replica, client, init, backlog, serving, list, dropped,
              link, mounted, writes, calls, missed>>
rsyncVars == <<down, up, sender, receiver, failed, pipes, main, thread, joined,
               serverGoes, msgs, misread>>
limitVars == <<bps, bytes_left, last_updated, blocking, partial_writes, now,
               wake, len, written, waits, panicked>>
all == <<part, joinVars, rsyncVars, limitVars>>

\* The data the files have before the first call is all alike: hash_metadata
\* does not look at it and rsync copies it whatever it is.
ConnectionInit ==
    /\ part \in {"join", "rsync", "limit"}
    /\ J!Init
    /\ R!Init
    /\ L!Init
    /\ part = "join" \/ \A t \in {tree} \cup {replica[c] : c \in Clients} :
                            J!Present(t) = {}
    /\ \A t \in {tree} \cup {replica[c] : c \in Clients} :
           \A f \in J!Order : t[f].data = 0
    /\ part = "limit" \/ (bps = 0 /\ blocking /\ ~partial_writes)

InJoin == part = "join" /\ UNCHANGED <<part, rsyncVars, limitVars>>
InRsync == part = "rsync" /\ UNCHANGED <<part, joinVars, limitVars>>
InLimit == part = "limit" /\ UNCHANGED <<part, joinVars, rsyncVars>>

ConnectionNext ==
    \/ InJoin /\ J!Next
    \/ InRsync /\ R!Next
    \/ InLimit /\ L!Next

\* The fairness of each part, while it is the one that runs.
ConnectionSpec ==
    /\ ConnectionInit /\ [][ConnectionNext]_all
    /\ WF_all(InJoin /\ J!Progress)
    /\ WF_all(InRsync /\ R!Progress)

-----------------------------------------------------------------------------
(* The connection in its three stages stays within its types. *)
ConnectionTypeOK == J!TypeOK /\ R!TypeOK /\ L!TypeOK

(* Client::from_stream and pre_op: a client in SYNC_LIST agrees with the      *)
(* server, once it has applied what is on its way, on every file but those    *)
(* of a call that was sent before the push and done after the walk or the     *)
(* copy had looked at the file.                                               *)
ListedAgrees == J!ListedAgrees

(* The listener thread gives every client its answer, or has died of a file   *)
(* that vanished under hash_metadata.                                         *)
EveryoneServed == part = "join" => J!EveryoneServed

(* rsync_bridge: both sides go on after a complete synchronisation, nothing   *)
(* of the bridge is read as a message and no message as a part of the bridge, *)
(* unless an rsync has failed.                                                *)
Handover == R!Handover

(* rsync::server always returns, rsync::client does unless an rsync failed.   *)
BothGoOn == part = "rsync" => R!BothGoOn

(* LimitWriter::write: the bytes let through are what the limit allows in the *)
(* time since the connection was set up, the credit it started with, and less *)
(* than a millisecond's bytes for each write that waited, whose wait is       *)
(* rounded down; an idle time is credited up to a second and a buffer.        *)
LimitHeld == L!LimitHeld
=============================================================================
