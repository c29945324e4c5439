---------------------------- MODULE RsyncBridge -----------------------------
(***************************************************************************)
(* The initial synchronisation over the replication connection              *)
(* (common/rsync.rs): rsync_bridge runs in the client and, under the name   *)
(* fakeshell, as the remote shell of the server's rsync.  Each side has a    *)
(* thread that takes frames off the connection and a main loop that puts    *)
(* what its rsync says on it, a length and then the bytes.  A frame of      *)
(* length 0 ends the stream; the server then uses the connection for its    *)
(* own messages.                                                            *)
(*                                                                          *)
(* rsync itself is external: the sender writes Chunks pieces and reads      *)
(* Replies of them, the receiver exits when it has done its part, the       *)
(* sender when its shell has exited.  One of them may fail before that.     *)
(***************************************************************************)
EXTENDS Naturals, Sequences

CONSTANTS Chunks, Replies,
          MaxMsgs  \* bound on the messages the server sends afterwards

VARIABLES
    down, up,    \* the connection, server to client and back
    sender,      \* rsync at the server: [state, sent, got]
    receiver,    \* rsync at the client: [state, sent, got]
    failed,      \* one of them has failed
    pipes,       \* pieces in the four pipes between an rsync and its bridge
    main,        \* main loop of each bridge
    thread,      \* second thread of each bridge
    joined,      \* client_main goes on with ConnectionBuilder::build
    serverGoes,  \* Client::from_stream goes on after rsync::server
    msgs,        \* messages the server has sent since
    misread      \* something was taken for what it was not

vars == <<down, up, sender, receiver, failed, pipes, main, thread, joined,
          serverGoes, msgs, misread>>

Sides == {"client", "shell"}

Init ==
    /\ down = <<>> /\ up = <<>>
    /\ sender = [state |-> "running", sent |-> 0, got |-> 0]
    /\ receiver = [state |-> "running", sent |-> 0, got |-> 0]
    /\ failed = FALSE
    /\ pipes = [toShell |-> 0, fromShell |-> 0, toClient |-> 0,
                fromClient |-> 0]
    /\ main = [s \in Sides |-> "read"]
    /\ thread = [s \in Sides |-> "length"]
    /\ joined = FALSE /\ serverGoes = FALSE
    /\ msgs = 0 /\ misread = FALSE

ShellAlive == main["shell"] # "exited"

-----------------------------------------------------------------------------
(* rsync, external. *)

SenderWrites ==
    /\ sender.state = "running" /\ sender.sent < Chunks
    /\ sender' = [sender EXCEPT !.sent = @ + 1]
    /\ pipes' = [pipes EXCEPT !.toShell = @ + 1]
    /\ UNCHANGED <<down, up, receiver, main, thread, joined, serverGoes, msgs,
                   misread, failed>>

SenderReads ==
    /\ sender.state = "running" /\ pipes.fromShell > 0
    /\ sender' = [sender EXCEPT !.got = @ + 1]
    /\ pipes' = [pipes EXCEPT !.fromShell = @ - 1]
    /\ UNCHANGED <<down, up, receiver, main, thread, joined, serverGoes, msgs,
                   misread, failed>>

\* The sender waits for its shell before it exits, unless it fails.
SenderExits ==
    /\ sender.state = "running" /\ ~ShellAlive
    /\ sender' = [sender EXCEPT !.state = "exited"]
    /\ UNCHANGED <<down, up, receiver, pipes, main, thread, joined, serverGoes,
                   msgs, misread, failed>>

SenderFails ==
    /\ sender.state = "running" /\ ~failed /\ failed' = TRUE
    /\ sender' = [sender EXCEPT !.state = "exited"]
    /\ UNCHANGED <<down, up, receiver, pipes, main, thread, joined, serverGoes,
                   msgs, misread>>

ReceiverReads ==
    /\ receiver.state = "running" /\ pipes.fromClient > 0
    /\ receiver' = [receiver EXCEPT !.got = @ + 1]
    /\ pipes' = [pipes EXCEPT !.fromClient = @ - 1]
    /\ UNCHANGED <<down, up, sender, main, thread, joined, serverGoes, msgs,
                   misread, failed>>

ReceiverWrites ==
    /\ receiver.state = "running" /\ receiver.got > 0
    /\ receiver.sent < Replies
    /\ receiver' = [receiver EXCEPT !.sent = @ + 1]
    /\ pipes' = [pipes EXCEPT !.toClient = @ + 1]
    /\ UNCHANGED <<down, up, sender, main, thread, joined, serverGoes, msgs,
                   misread, failed>>

ReceiverExits ==
    /\ receiver.state = "running"
    /\ \/ receiver.got = Chunks /\ receiver.sent = Replies
       \/ thread["client"] = "ended" /\ pipes.fromClient = 0
    /\ receiver' = [receiver EXCEPT !.state = "exited"]
    /\ UNCHANGED <<down, up, sender, pipes, main, thread, joined, serverGoes,
                   msgs, misread, failed>>

ReceiverFails ==
    /\ receiver.state = "running" /\ ~failed /\ failed' = TRUE
    /\ receiver' = [receiver EXCEPT !.state = "exited"]
    /\ UNCHANGED <<down, up, sender, pipes, main, thread, joined, serverGoes,
                   msgs, misread>>

-----------------------------------------------------------------------------
(* The main loops: from rsync to the connection. *)

\* What the bridge of side s reads from its rsync, and what it writes to.
Incoming(s) == IF s = "shell" THEN pipes.toShell ELSE pipes.toClient

Taken(s) == IF s = "shell" THEN [pipes EXCEPT !.toShell = @ - 1]
            ELSE [pipes EXCEPT !.toClient = @ - 1]
RsyncOf(s) == IF s = "shell" THEN sender ELSE receiver
Put(s, x) == IF s = "shell" THEN down' = Append(down, x) /\ UNCHANGED up
             ELSE up' = Append(up, x) /\ UNCHANGED down

\* rout.read and write_u32 of the length; the lock is given back in between.
MainReads(s) ==
    /\ main[s] = "read" /\ Incoming(s) > 0
    /\ pipes' = Taken(s)
    /\ Put(s, "length")
    /\ main' = [main EXCEPT ![s] = "bytes"]
    /\ UNCHANGED <<sender, receiver, thread, joined, serverGoes, msgs, misread, failed>>

MainWrites(s) ==
    /\ main[s] = "bytes"
    /\ Put(s, "bytes")
    /\ main' = [main EXCEPT ![s] = "read"]
    /\ UNCHANGED <<sender, receiver, pipes, thread, joined, serverGoes, msgs,
                   misread, failed>>

\* Mutant: nothing to read for the moment is taken for the end.
MainEndsEarly(s) ==
    /\ main[s] = "read" /\ Incoming(s) = 0
    /\ Put(s, "zero")
    /\ main' = [main EXCEPT ![s] = "join"]
    /\ UNCHANGED <<sender, receiver, pipes, thread, joined, serverGoes, msgs,
                   misread, failed>>

\* Ok(0): rsync has closed its end.
MainEnds(s) ==
    /\ main[s] = "read" /\ Incoming(s) = 0 /\ RsyncOf(s).state = "exited"
    /\ Put(s, "zero")
    /\ main' = [main EXCEPT ![s] = "join"]
    /\ UNCHANGED <<sender, receiver, pipes, thread, joined, serverGoes, msgs,
                   misread, failed>>

\* handle.join: the shell process ends, the client goes on unless the thread
\* came back with an error (client_main then panics).
MainJoins(s) ==
    /\ main[s] = "join" /\ thread[s] \in {"ended", "error"}
    /\ main' = [main EXCEPT ![s] = "exited"]
    /\ joined' = (joined \/ (s = "client" /\ thread[s] = "ended"))
    /\ UNCHANGED <<down, up, sender, receiver, pipes, thread, serverGoes, msgs,
                   misread, failed>>

-----------------------------------------------------------------------------
(* The second threads: from the connection to rsync. *)

Alive(s) == s = "shell" => ShellAlive
Received(s) == IF s = "shell" THEN up ELSE down
Pop(s) == IF s = "shell" THEN up' = Tail(up) /\ UNCHANGED down
          ELSE down' = Tail(down) /\ UNCHANGED up

ThreadReadsLength(s) ==
    /\ Alive(s) /\ thread[s] = "length"
    /\ Received(s) # <<>> /\ Head(Received(s)) # "zero"
    /\ Pop(s)
    /\ misread' = (misread \/ Head(Received(s)) # "length")
    /\ thread' = [thread EXCEPT ![s] = "bytes"]
    /\ UNCHANGED <<sender, receiver, pipes, main, joined, serverGoes, msgs, failed>>

\* read_exact, then rin.write_all, which fails when rsync is gone.
ThreadReadsBytes(s) ==
    /\ Alive(s) /\ thread[s] = "bytes" /\ Received(s) # <<>>
    /\ Pop(s)
    /\ misread' = (misread \/ Head(Received(s)) # "bytes")
    /\ IF RsyncOf(s).state = "exited"
       THEN /\ thread' = [thread EXCEPT ![s] = "error"]
            /\ UNCHANGED pipes
       ELSE /\ thread' = [thread EXCEPT ![s] = "length"]
            /\ pipes' = IF s = "shell" THEN [pipes EXCEPT !.fromShell = @ + 1]
                        ELSE [pipes EXCEPT !.fromClient = @ + 1]
    /\ UNCHANGED <<sender, receiver, main, joined, serverGoes, msgs, failed>>

\* Length 0 in the client: the thread returns the connection.
ClientThreadEnds ==
    /\ thread["client"] = "length" /\ down # <<>> /\ Head(down) = "zero"
    /\ down' = Tail(down)
    /\ thread' = [thread EXCEPT !["client"] = "ended"]
    /\ UNCHANGED <<up, sender, receiver, pipes, main, joined, serverGoes, msgs,
                   misread, failed>>

\* Mutant: the shell answers and its thread returns, as the client's does.
ShellStays ==
    /\ ShellAlive /\ thread["shell"] = "length"
    /\ up # <<>> /\ Head(up) = "zero"
    /\ up' = Tail(up)
    /\ down' = Append(down, "zero")
    /\ thread' = [thread EXCEPT !["shell"] = "ended"]
    /\ UNCHANGED <<sender, receiver, pipes, main, joined, serverGoes, msgs,
                   misread, failed>>

\* Length 0 in the shell: the answer, and the end of the process, whatever
\* its main loop is doing.
ShellTerminates ==
    /\ ShellAlive /\ thread["shell"] = "length"
    /\ up # <<>> /\ Head(up) = "zero"
    /\ up' = Tail(up)
    /\ down' = Append(down, "zero")
    /\ main' = [main EXCEPT !["shell"] = "exited"]
    /\ UNCHANGED <<sender, receiver, pipes, thread, joined, serverGoes, msgs,
                   misread, failed>>

-----------------------------------------------------------------------------
(* The server and the client after the bridge. *)

\* rsync::server: wait() of the rsync process, whatever its exit status.
ServerContinues ==
    /\ ~serverGoes /\ sender.state = "exited"
    /\ serverGoes' = TRUE
    /\ UNCHANGED <<down, up, sender, receiver, pipes, main, thread, joined,
                   msgs, misread, failed>>

ServerSends ==
    /\ serverGoes /\ msgs < MaxMsgs
    /\ down' = Append(down, "message")
    /\ msgs' = msgs + 1
    /\ UNCHANGED <<up, sender, receiver, pipes, main, thread, joined,
                   serverGoes, misread, failed>>

\* ServerConnection::read_msg of the client.
ClientReceives ==
    /\ joined /\ down # <<>>
    /\ down' = Tail(down)
    /\ misread' = (misread \/ Head(down) # "message")
    /\ UNCHANGED <<up, sender, receiver, pipes, main, thread, joined,
                   serverGoes, msgs, failed>>

Bridge(s) ==
    \/ MainReads(s) \/ MainWrites(s) \/ MainEnds(s) \/ MainJoins(s)
    \/ ThreadReadsLength(s) \/ ThreadReadsBytes(s)

Next ==
    \/ SenderWrites \/ SenderReads \/ SenderExits
    \/ ReceiverReads \/ ReceiverWrites \/ ReceiverExits
    \/ SenderFails \/ ReceiverFails
    \/ \E s \in Sides : Bridge(s)
    \/ ClientThreadEnds \/ ShellTerminates
    \/ ServerContinues \/ ServerSends \/ ClientReceives

Spec == Init /\ [][Next]_vars

\* What the bridge and the two rsyncs do to come to an end.
Progress ==
    \/ SenderWrites \/ SenderReads \/ SenderExits
    \/ ReceiverReads \/ ReceiverWrites \/ ReceiverExits
    \/ \E s \in Sides : Bridge(s)
    \/ ClientThreadEnds \/ ShellTerminates \/ ServerContinues

\* Some process or thread that can run does.
FairSpec == Spec /\ WF_vars(Progress)

-----------------------------------------------------------------------------
TypeOK ==
    /\ {sender.state, receiver.state} \subseteq {"running", "exited"}
    /\ sender.sent \in 0 .. Chunks /\ receiver.sent \in 0 .. Replies
    /\ sender.got + pipes.fromShell \in 0 .. Replies
    /\ receiver.got + pipes.fromClient \in 0 .. Chunks + MaxMsgs
    /\ pipes.toShell \in 0 .. Chunks /\ pipes.toClient \in 0 .. Replies
    /\ main \in [Sides -> {"read", "bytes", "join", "exited"}]
    /\ thread \in [Sides -> {"length", "bytes", "ended", "error"}]
    /\ {joined, serverGoes, misread, failed} \subseteq BOOLEAN
    /\ msgs \in 0 .. MaxMsgs

(* Normal communication may proceed over the connection once the client's    *)
(* second thread has returned (rsync.rs:13): nothing of the bridge is read   *)
(* as a message, no message as a frame, no length as bytes, in either        *)
(* direction, unless an rsync has failed.                                    *)
HandoverClean ==
    ~failed =>
        /\ ~misread
        /\ joined => \A k \in DOMAIN down : down[k] = "message"
        /\ serverGoes => \A k \in DOMAIN up : up[k] = "message"

(* Whichever side goes on does so after a complete synchronisation: the      *)
(* client's rsync has had everything, the server's rsync has sent it, unless *)
(* an rsync has failed.                                                      *)
Complete ==
    ~failed =>
        /\ joined => receiver.got = Chunks
        /\ serverGoes => sender.sent = Chunks /\ receiver.got = Chunks

(* The connection is handed over after a complete copy, and clean.           *)
Handover == Complete /\ HandoverClean

(* The server always gets past rsync::server, also when an rsync has failed; *)
(* the client goes on as well unless one has.                                *)
BothGoOn == <>[](serverGoes /\ (failed \/ joined))
=============================================================================
