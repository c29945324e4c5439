-------------------------- MODULE ReplicationProofs --------------------------
(***************************************************************************)
(* Type correctness of Replication, for every number of workers, replicas  *)
(* and control connections, every assignment of modes and dispatch         *)
(* threads, every set of faulty and slow peers, and any number of calls.   *)
(***************************************************************************)
EXTENDS Replication, TLAPS

USE DEF threadVars, serverVars, readerVars, sendVars, replicaVars, peerVars,
        outside, serverSide

\* A queue of a family of queues grows.
LEMMA AppendAt ==
  ASSUME NEW S, NEW T, NEW f \in [S -> Seq(T)], NEW x \in S, NEW e \in T
  PROVE  [f EXCEPT ![x] = Append(@, e)] \in [S -> Seq(T)]
OBVIOUS

\* What a step leaves alone keeps its type.
LEMMA Frame ==
  /\ ThreadOK /\ UNCHANGED threadVars => ThreadOK'
  /\ ServerOK /\ UNCHANGED serverVars => ServerOK'
  /\ ReaderOK /\ UNCHANGED readerVars => ReaderOK'
  /\ SlotOK /\ UNCHANGED <<parked, gaveup>> => SlotOK'
  /\ StreamOK /\ UNCHANGED <<sendVars, got>> => StreamOK'
  /\ ReplicaOK /\ UNCHANGED <<back, up, queue, applied>> => ReplicaOK'
BY DEF ThreadOK, ServerOK, ReaderOK, SlotOK, StreamOK, ReplicaOK

\* The server starts with the replicas of Boot in SYNC_LIST and nothing sent.
LEMMA TypeInit == Init => TypeOK
<1> SUFFICES ASSUME Init PROVE TypeOK
  OBVIOUS
<1>1. ThreadOK
  <2>1. waits \in [Threads -> Seq(Clients)]
    BY DEF Init
  <2>2. pc \in [Threads -> Labels]
    BY DEF Init, Labels
  <2>3. pos \in [Threads -> Nat \ {0}]
    BY DEF Init
  <2>4. log \in Seq([kind : Kinds, tid : Threads, before : SUBSET Nat])
    BY DEF Init
  <2> QED
    BY <2>1, <2>2, <2>3, <2>4 DEF Init, ThreadOK
<1>2. ServerOK
  <2>1. list \in Seq(Peers)
    BY ConstantsAssumption DEF Init, Peers
  <2> QED
    BY <2>1, Zenon DEF Init, ServerOK
<1>3. ReaderOK
  BY DEF Init, ReaderOK, ReaderLabels
<1>4. SlotOK
  BY DEF Init, SlotOK
<1>5. StreamOK
  BY DEF Init, StreamOK
<1>6. ReplicaOK
  BY DEF Init, ReplicaOK
<1> QED
  BY <1>1, <1>2, <1>3, <1>4, <1>5, <1>6 DEF TypeOK

-----------------------------------------------------------------------------
(* The pieces of response_msg and of the loops over SYNC_LIST *)

\* A write into the buffer of a connection.
LEMMA TransmitType ==
  ASSUME StreamOK, NEW p \in Peers, NEW m \in Msg, NEW flush \in BOOLEAN,
         Transmit(p, m, flush), UNCHANGED got
  PROVE  StreamOK'
BY DEF StreamOK, Transmit

\* A write that fails.
LEMMA WriteErrorType ==
  ASSUME StreamOK, NEW p \in Peers, WriteError(p), UNCHANGED got
  PROVE  StreamOK'
BY DEF StreamOK, WriteError

\* A new response slot.
LEMMA ParkType ==
  ASSUME SlotOK, NEW c \in Clients, NEW t \in Tids, Park(c, t), UNCHANGED gaveup
  PROVE  SlotOK'
BY DEF SlotOK, Park

\* The loop of pre_op moves on by one peer.
LEMMA AtPeerType ==
  ASSUME ThreadOK, NEW t \in Threads, NEW p, AtPeer(t, p)
  PROVE  pos' \in [Threads -> Nat \ {0}]
BY DEF ThreadOK, AtPeer

\* The loop of cork_server or uncork_server moves on by one peer.
LEMMA RposType ==
  ASSUME ReaderOK, NEW k \in Controls, rpos' = [rpos EXCEPT ![k] = @ + 1]
  PROVE  rpos' \in [Controls -> Nat \ {0}]
BY DEF ReaderOK

\* An answer of a replica.
LEMMA ReplyType ==
  ASSUME ReplicaOK, NEW c \in Clients, NEW m \in Msg,
         NEW type \in {"Ack", "AckCork"}, Reply(c, type, m)
  PROVE  back' \in [Clients -> Seq(AckMsg)]
<1>1. [type |-> type, tid |-> m.tid] \in AckMsg
  BY DEF AckMsg, Msg
<1> QED
  BY <1>1 DEF ReplicaOK, Reply

-----------------------------------------------------------------------------
(* One step per action *)

\* A step of a FUSE worker inside a do_* handler preserves the type invariant.
LEMMA TypeWork ==
  ASSUME TypeOK, NEW t \in Threads, Call(t) \/ Work(t) \/ WaitTimeout(t)
  PROVE  TypeOK'
<1>1. CASE Call(t)
  <2>1. ThreadOK'
    BY <1>1 DEF TypeOK, ThreadOK, Call, Goto, Labels
  <2> QED
    BY <1>1, <2>1, Frame DEF TypeOK, Call
<1>2. CASE LockCorked(t)
  <2>1. ThreadOK'
    BY <1>2 DEF TypeOK, ThreadOK, LockCorked, Goto, Labels
  <2> QED
    BY <1>2, <2>1, Frame DEF TypeOK, LockCorked
<1>3. ASSUME NEW kind \in Kinds, Lock(t, kind) PROVE TypeOK'
  <2>1. ThreadOK'
    BY <1>3 DEF TypeOK, ThreadOK, Lock, Goto, Labels, Returned, Ops
  <2> QED
    BY <1>3, <2>1, Frame DEF TypeOK, Lock
<1>4. ASSUME NEW p \in Peers, SendSkip(t, p) PROVE TypeOK'
  <2>1. ThreadOK'
    <3>1. pos' \in [Threads -> Nat \ {0}]
      BY <1>4, AtPeerType DEF TypeOK, SendSkip
    <3>2. UNCHANGED <<journal, local, pc, cur, waits, log>>
      BY <1>4 DEF SendSkip
    <3> QED
      BY <3>1, <3>2 DEF TypeOK, ThreadOK
  <2> QED
    BY <1>4, <2>1, Frame DEF TypeOK, SendSkip
<1>5. ASSUME NEW c \in Clients, SendOp(t, c) PROVE TypeOK'
  <2>1. ThreadOK'
    <3>1. pos' \in [Threads -> Nat \ {0}]
      BY <1>5, AtPeerType DEF TypeOK, SendOp
    <3>2. waits' = waits \/ waits' = [waits EXCEPT ![t] = Append(@, c)]
      BY <1>5, Zenon DEF SendOp
    <3>3. waits \in [Threads -> Seq(Clients)]
      BY DEF TypeOK, ThreadOK
    <3>4. waits' \in [Threads -> Seq(Clients)]
      BY <3>2, <3>3, SMTT(30)
    <3>5. UNCHANGED <<journal, local, pc, cur, log>>
      BY <1>5 DEF SendOp
    <3> QED
      BY <3>1, <3>4, <3>5 DEF TypeOK, ThreadOK
  <2>2. SlotOK'
    BY <1>5, ParkType, Frame DEF TypeOK, SendOp, Tids
  <2>3. StreamOK'
    <3>1. OpMsg(t, c) \in Msg
      BY DEF OpMsg, Msg, Tids, TypeOK, ThreadOK
    <3>2. IsSync(c, KindOf(t)) \in BOOLEAN
      BY DEF IsSync
    <3> QED
      BY <1>5, <3>1, <3>2, TransmitType, WriteErrorType
      DEF TypeOK, SendOp, Peers
  <2> QED
    BY <1>5, <2>1, <2>2, <2>3, Frame DEF TypeOK, SendOp
<1>6. CASE SendDone(t)
  <2>1. ThreadOK'
    BY <1>6 DEF TypeOK, ThreadOK, SendDone, Goto, Labels
  <2> QED
    BY <1>6, <2>1, Frame, Zenon DEF TypeOK, SendDone
<1>7. CASE WriteJournal(t)
  <2>1. ThreadOK'
    <3>1. journal' \in Seq(Nat)
      BY <1>7 DEF TypeOK, ThreadOK, WriteJournal
    <3>2. pc' \in [Threads -> Labels]
      BY <1>7, Zenon DEF TypeOK, ThreadOK, WriteJournal, Finish, Goto, Labels
    <3>3. cur' \in [Threads -> Nat] /\ waits' \in [Threads -> Seq(Clients)]
      <4>1. CASE Finish(t)
        BY <4>1 DEF TypeOK, ThreadOK, Finish
      <4>2. CASE UNCHANGED <<cur, waits>>
        BY <4>2, SMTT(30) DEF TypeOK, ThreadOK
      <4> QED
        BY <1>7, <4>1, <4>2 DEF WriteJournal
    <3>4. UNCHANGED <<local, pos, log>>
      BY <1>7 DEF WriteJournal
    <3> QED
      BY <3>1, <3>2, <3>3, <3>4 DEF TypeOK, ThreadOK
  <2>2. SlotOK'
    BY <1>7, SMTT(30) DEF TypeOK, ThreadOK, SlotOK, WriteJournal, Range
  <2> QED
    BY <1>7, <2>1, <2>2, Frame, Zenon DEF TypeOK, WriteJournal
<1>8. CASE ApplyLocal(t)
  <2>1. ThreadOK'
    BY <1>8 DEF TypeOK, ThreadOK, ApplyLocal, Goto, Labels
  <2> QED
    BY <1>8, <2>1, Frame DEF TypeOK, ApplyLocal
<1>9. CASE WaitAnswer(t)
  <2>1. ThreadOK'
    BY <1>9, SMTT(30) DEF TypeOK, ThreadOK, WaitAnswer
  <2>2. SlotOK'
    BY <1>9, Zenon DEF TypeOK, ThreadOK, SlotOK, WaitAnswer, Tids
  <2> QED
    BY <1>9, <2>1, <2>2, Frame DEF TypeOK, WaitAnswer
<1>10. CASE WaitTimeout(t)
  <2>1. ThreadOK'
    BY <1>10 DEF TypeOK, ThreadOK, WaitTimeout
  <2>2. SlotOK'
    BY <1>10 DEF TypeOK, ThreadOK, SlotOK, WaitTimeout
  <2> QED
    BY <1>10, <2>1, <2>2, Frame, SMTT(30) DEF TypeOK, WaitTimeout
<1>11. CASE Return(t)
  <2>1. ThreadOK'
    BY <1>11 DEF TypeOK, ThreadOK, Return, Finish, Goto, Labels
  <2> QED
    BY <1>11, <2>1, Frame DEF TypeOK, Return
<1> QED
  BY <1>1, <1>2, <1>3, <1>4, <1>5, <1>6, <1>7, <1>8, <1>9, <1>10, <1>11, SMTT(30) DEF Work

\* A step of cork_server or uncork_server preserves the type invariant.
LEMMA TypeCommand ==
  ASSUME TypeOK, NEW k \in Controls, Command(k) \/ CtlReceive(k)
  PROVE  TypeOK'
<1>1. CASE CorkStart(k)
  <2>1. ServerOK'
    BY <1>1 DEF TypeOK, ServerOK, CorkStart
  <2>2. ReaderOK'
    <3>1. rpos' \in [Controls -> Nat \ {0}]
      BY <1>1, RposType DEF TypeOK, ReaderOK, CorkStart
    <3>2. rpc' \in [Peers -> ReaderLabels]
      BY <1>1, ZenonT(30) DEF TypeOK, ReaderOK, CorkStart, RGoto, ReaderLabels
    <3> QED
      BY <3>1, <3>2 DEF ReaderOK
  <2> QED
    BY <1>1, <2>1, <2>2, Frame, SMTT(30) DEF TypeOK, CorkStart
<1>2. ASSUME NEW p \in Peers, CorkPeer(k, p) PROVE TypeOK'
  <2>1. ReaderOK'
    <3>1. rpos' \in [Controls -> Nat \ {0}]
      BY <1>2, RposType, Zenon DEF TypeOK, ReaderOK, CorkPeer
    <3>2. rpc' = rpc \/ RGoto(k, "corkwait")
      BY <1>2, Zenon DEF CorkPeer
    <3> QED
      BY <3>1, <3>2 DEF TypeOK, ReaderOK, RGoto, ReaderLabels
  <2>2. SlotOK'
    BY <1>2, ParkType, Frame, Zenon DEF TypeOK, CorkPeer, Tids
  <2>3. StreamOK'
    <3>1. CorkMsg(k) \in Msg
      BY DEF CorkMsg, Msg, Tids
    <3> QED
      BY <1>2, <3>1, TransmitType, WriteErrorType, Frame, Zenon
      DEF TypeOK, CorkPeer
  <2> QED
    BY <1>2, <2>1, <2>2, <2>3, Frame DEF TypeOK, CorkPeer
<1>3. CASE CorkAnswer(k)
  <2>1. ReaderOK'
    <3>1. rpos' \in [Controls -> Nat \ {0}]
      BY <1>3, RposType DEF TypeOK, ReaderOK, CorkAnswer
    <3>2. rpc' \in [Peers -> ReaderLabels]
      BY <1>3, Zenon DEF TypeOK, ReaderOK, CorkAnswer, RGoto, ReaderLabels
    <3> QED
      BY <3>1, <3>2 DEF ReaderOK
  <2>2. SlotOK'
    BY <1>3, Zenon DEF TypeOK, SlotOK, CorkAnswer
  <2> QED
    BY <1>3, <2>1, <2>2, Frame DEF TypeOK, CorkAnswer
<1>4. CASE CorkPanic(k)
  <2>1. ReaderOK'
    BY <1>4, Zenon DEF TypeOK, ReaderOK, CorkPanic, RGoto, ReaderLabels
  <2> QED
    BY <1>4, <2>1, Frame DEF TypeOK, CorkPanic
<1>5. CASE CorkDone(k)
  <2>1. ReaderOK'
    BY <1>5, Zenon DEF TypeOK, ReaderOK, CorkDone, RGoto, ReaderLabels
  <2> QED
    BY <1>5, <2>1, Frame DEF TypeOK, CorkDone
<1>6. CASE UncorkStart(k)
  <2>1. ReaderOK'
    <3>1. rpos' \in [Controls -> Nat \ {0}]
      BY <1>6, RposType DEF TypeOK, ReaderOK, UncorkStart
    <3>2. rpc' \in [Peers -> ReaderLabels]
      BY <1>6, ZenonT(30) DEF TypeOK, ReaderOK, UncorkStart, RGoto, ReaderLabels
    <3> QED
      BY <3>1, <3>2 DEF ReaderOK
  <2> QED
    BY <1>6, <2>1, Frame DEF TypeOK, UncorkStart
<1>7. ASSUME NEW p \in Peers, UncorkPeer(k, p) PROVE TypeOK'
  <2>1. ReaderOK'
    BY <1>7, RposType DEF TypeOK, ReaderOK, UncorkPeer
  <2>2. StreamOK'
    <3>1. UncorkMsg(k) \in Msg
      BY DEF UncorkMsg, Msg, Tids
    <3> QED
      BY <1>7, <3>1, TransmitType, WriteErrorType, Frame, Zenon
      DEF TypeOK, UncorkPeer
  <2> QED
    BY <1>7, <2>1, <2>2, Frame, SMTT(30) DEF TypeOK, UncorkPeer
<1>8. CASE UncorkListDone(k)
  <2>1. ReaderOK'
    BY <1>8, Zenon DEF TypeOK, ReaderOK, UncorkListDone, RGoto, ReaderLabels
  <2> QED
    BY <1>8, <2>1, Frame DEF TypeOK, UncorkListDone
<1>9. CASE Release(k)
  <2>1. ThreadOK'
    BY <1>9 DEF TypeOK, ThreadOK, Release, Labels
  <2>2. ServerOK'
    BY <1>9, Zenon DEF TypeOK, ServerOK, Release
  <2>3. ReaderOK'
    BY <1>9, Zenon DEF TypeOK, ReaderOK, Release, RGoto, ReaderLabels
  <2> QED
    BY <1>9, <2>1, <2>2, <2>3, Frame DEF TypeOK, Release
<1>10. CASE CtlReceive(k)
  <2>1. StreamOK'
    BY <1>10 DEF TypeOK, StreamOK, CtlReceive, HasMail, Peers
  <2>2. ReplicaOK'
    BY <1>10, Zenon DEF TypeOK, ReplicaOK, CtlReceive
  <2> QED
    BY <1>10, <2>1, <2>2, Frame DEF TypeOK, CtlReceive
<1> QED
  BY <1>1, <1>2, <1>3, <1>4, <1>5, <1>6, <1>7, <1>8, <1>9, <1>10, SMTT(30) DEF Command

\* So do the accept loop, the reader thread at its end, the network, and faults.
LEMMA TypePeer ==
  ASSUME TypeOK, NEW p \in Peers,
         Connect(p) \/ Push(p) \/ ReadError(p) \/ Drain(p) \/ Disconnect(p)
  PROVE  TypeOK'
<1>1. CASE Connect(p)
  <2>1. ServerOK'
    BY <1>1 DEF TypeOK, ServerOK, Connect
  <2>2. ReaderOK'
    BY <1>1 DEF TypeOK, ReaderOK, Connect, RGoto, ReaderLabels
  <2>3. ReplicaOK'
    BY <1>1 DEF TypeOK, ReplicaOK, Connect
  <2> QED
    BY <1>1, <2>1, <2>2, <2>3, Frame, SMTT(30) DEF TypeOK, Connect
<1>2. CASE Push(p)
  <2>1. ServerOK'
    BY <1>2, SMTT(30) DEF TypeOK, ServerOK, ThreadOK, Push
  <2> QED
    BY <1>2, <2>1, Frame DEF TypeOK, Push
<1>3. CASE ReadError(p)
  <2>1. ReaderOK'
    BY <1>3, SMTT(30) DEF TypeOK, ReaderOK, ReadError, RGoto, ReaderLabels
  <2>2. StreamOK'
    BY <1>3 DEF TypeOK, StreamOK, ReadError
  <2> QED
    BY <1>3, <2>1, <2>2, Frame DEF TypeOK, ReadError
<1>4. CASE Drain(p)
  <2>1. StreamOK'
    BY <1>4, SMTT(30) DEF TypeOK, StreamOK, Drain
  <2> QED
    BY <1>4, <2>1, Frame DEF TypeOK, Drain
<1>5. CASE Disconnect(p)
  <2>1. ReplicaOK'
    BY <1>5 DEF TypeOK, ReplicaOK, Disconnect
  <2> QED
    BY <1>5, <2>1, Frame DEF TypeOK, Disconnect
<1> QED
  BY <1>1, <1>2, <1>3, <1>4, <1>5, SMTT(30)

\* So does the harvester.
LEMMA TypeHarvest == TypeOK /\ Harvest => TypeOK'
<1> SUFFICES ASSUME TypeOK, Harvest PROVE TypeOK'
  BY SMTT(30)
<1>1. ServerOK'
  <2>1. list' \in Seq(Peers)
    <3>1. PICK n \in 0 .. Len(list) : \E f \in [1 .. n -> DOMAIN list] :
                 list' = [j \in 1 .. n |-> list[f[j]]]
      BY Zenon DEF Harvest, RetainAlive
    <3>2. PICK f \in [1 .. n -> DOMAIN list] : list' = [j \in 1 .. n |-> list[f[j]]]
      BY <3>1, Zenon
    <3>3. list \in Seq(Peers)
      BY DEF TypeOK, ServerOK
    <3> QED
      BY <3>2, <3>3
  <2> QED
    BY <2>1 DEF TypeOK, ServerOK, Harvest
<1>2. SlotOK'
  BY Zenon DEF TypeOK, SlotOK, Harvest
<1> QED
  BY <1>1, <1>2, Frame DEF TypeOK, Harvest

\* So do the message loop of a replica and the reader thread it answers to.
LEMMA TypeClient ==
  ASSUME TypeOK, NEW c \in Clients, ReadAck(c) \/ Flush(c) \/ Receive(c)
  PROVE  TypeOK'
<1>1. CASE ReadAck(c)
  <2>1. back[c] \in Seq(AckMsg) /\ back[c] # <<>>
    BY <1>1 DEF TypeOK, ReplicaOK, ReadAck
  <2>2. Head(back[c]) \in AckMsg /\ Tail(back[c]) \in Seq(AckMsg)
    BY <2>1, SMTT(30)
  <2>3. SlotOK'
    <3> DEFINE a == Head(back[c])
    <3>1. a.tid \in Tids
      BY <2>2, SMTT(30) DEF AckMsg
    <3>2. parked' = parked \/ parked' = [parked EXCEPT ![c][a.tid] = "ack"]
      BY <1>1, SMTT(30) DEF ReadAck
    <3> HIDE DEF a
    <3> QED
      BY <1>1, <3>1, <3>2 DEF TypeOK, SlotOK, ReadAck
  <2>4. ReplicaOK'
    BY <1>1, <2>2, SMTT(30) DEF TypeOK, ReplicaOK, ReadAck
  <2> QED
    BY <1>1, <2>3, <2>4, Frame, SMTT(30) DEF TypeOK, ReadAck
<1>2. CASE Flush(c)
  <2>1. UNCHANGED <<serverSide, replicaVars, gaveup>>
    BY <1>2, Zenon DEF Flush
  <2>2. StreamOK'
    <3>1. CASE WriteError(c)
      BY <2>1, <3>1, WriteErrorType, Zenon DEF TypeOK, Peers
    <3>2. CASE ~ WriteError(c)
      <4>1. flushed' = [flushed EXCEPT ![c] = Len(out[c])] /\ UNCHANGED <<status, out>>
        BY <1>2, <3>2, Zenon DEF Flush
      <4> QED
        BY <2>1, <4>1, SMTT(30) DEF TypeOK, StreamOK, Peers
    <3> QED
      BY <3>1, <3>2, Zenon
  <2> QED
    BY <2>1, <2>2, Frame, Zenon DEF TypeOK
<1>3. CASE Receive(c)
  <2>1. /\ HasMail(c)
        /\ got' = [got EXCEPT ![c] = @ + 1]
        /\ UNCHANGED <<status, out, flushed>>
    BY <1>3, Zenon DEF Receive
  <2>2. NextMsg(c) \in Msg
    BY <2>1 DEF TypeOK, StreamOK, HasMail, NextMsg, Peers
  <2>3. StreamOK'
    BY <2>1 DEF TypeOK, StreamOK, HasMail, Peers
  <2>4. back' \in [Clients -> Seq(AckMsg)]
    <3>1. \/ back' = back
          \/ Reply(c, "Ack", NextMsg(c)) \/ Reply(c, "AckCork", NextMsg(c))
      BY <1>3, Zenon DEF Receive
    <3> QED
      BY <2>2, <3>1, ReplyType DEF TypeOK, ReplicaOK
  <2>5. queue' \in [Clients -> Seq(Msg)]
    <3>1. \/ queue' = queue
          \/ queue' = [queue EXCEPT ![c] = Append(@, NextMsg(c))]
      BY <1>3, Zenon DEF Receive
    <3>2. queue \in [Clients -> Seq(Msg)]
      BY DEF TypeOK, ReplicaOK
    <3>3. [queue EXCEPT ![c] = Append(@, NextMsg(c))] \in [Clients -> Seq(Msg)]
      BY <2>2, <3>2, AppendAt, ZenonT(30)
    <3> QED
      BY <3>1, <3>2, <3>3, Zenon
  <2>6. ReplicaOK'
    BY <1>3, <2>4, <2>5 DEF TypeOK, ReplicaOK, Receive
  <2> QED
    BY <1>3, <2>3, <2>6, Frame DEF TypeOK, Receive
<1> QED
  BY <1>1, <1>2, <1>3, SMTT(30)

\* So does a dispatch.
LEMMA TypeExecute ==
  ASSUME TypeOK, NEW c \in Clients, NEW i \in DOMAIN queue[c], Execute(c, i)
  PROVE  TypeOK'
<1>1. queue[c][i] \in Msg /\ queue[c][i].op \in Nat
  <2>1. queue[c] \in Seq(Msg)
    BY DEF TypeOK, ReplicaOK
  <2>2. queue[c][i] \in Msg
    BY <2>1
  <2> QED
    BY <2>2 DEF Msg
<1>2. Without(queue[c], i) \in Seq(Msg)
  BY SMTT(30) DEF TypeOK, ReplicaOK, Without
<1>3. back' \in [Clients -> Seq(AckMsg)]
  <2>1. back' = back \/ Reply(c, "Ack", queue[c][i])
    BY ZenonT(30) DEF Execute
  <2> QED
    BY <1>1, <2>1, ReplyType DEF TypeOK, ReplicaOK
<1>4. applied' \in [Clients -> Seq(Nat)]
  <2>1. applied' = [applied EXCEPT ![c] = Append(@, queue[c][i].op)]
    BY Zenon DEF Execute
  <2> QED
    BY <1>1, <2>1 DEF TypeOK, ReplicaOK
<1>5. ReplicaOK'
  BY <1>2, <1>3, <1>4, Zenon DEF TypeOK, ReplicaOK, Execute
<1> QED
  BY <1>5, Frame, Zenon DEF TypeOK, Execute

\* TypeOK is preserved by every step.
LEMMA TypeNext == TypeOK /\ [Next]_vars => TypeOK'
<1> SUFFICES ASSUME TypeOK, [Next]_vars PROVE TypeOK'
  OBVIOUS
<1>1. CASE UNCHANGED vars
  BY <1>1, Frame DEF TypeOK, vars
<1>2. CASE Quiet
  BY <1>1, <1>2 DEF Quiet
<1> QED
  BY <1>1, <1>2, TypeWork, TypeCommand, TypePeer, TypeHarvest, TypeClient,
     TypeExecute DEF Next

\* TypeOK holds in every reachable state of the replication path, for all
\* values of the constants.
THEOREM TypeCorrect == Spec => []TypeOK
BY TypeInit, TypeNext, PTL DEF Spec

=============================================================================
