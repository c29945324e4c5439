--------------------------- MODULE DeliveryProofs ---------------------------
(***************************************************************************)
(* An inline replica applies a prefix of the server's order.               *)
(***************************************************************************)
EXTENDS ReplicationProofs

IsOp(m) == m.type \in {"SyncOp", "AsyncOp"}

\* The operations among the first j messages of s.
OpsIn(s, j) == {s[i].op : i \in {k \in 1 .. j : IsOp(s[k])}}

\* Only one worker is in the loop of pre_op, with the latest operation.
Turn ==
  \A t \in Threads : pc[t] = "send" =>
    cur[t] = Len(log) /\ \A u \in Threads : pc[u] = "send" => u = t

\* A peer joins between two operations.
Joined ==
  \A p \in Peers : /\ since[p] <= Len(log)
                   /\ \A t \in Threads : pc[t] = "send" => since[p] < cur[t]

\* SYNC_LIST holds every listed peer once; only dead peers are harvested.
Listing ==
  /\ \A i, j \in DOMAIN list : list[i] = list[j] => i = j
  /\ \A p \in Peers : (\E i \in DOMAIN list : list[i] = p) <=> stage[p] = "listed"
  /\ \A p \in Peers : stage[p] = "harvested" => status[p] = "DEAD"

\* Nothing is sent to a peer before it is in SYNC_LIST.
Fresh ==
  \A c \in Clients : stage[c] \in {"off", "open"} =>
    out[c] = <<>> /\ queue[c] = <<>> /\ applied[c] = <<>>

\* What is sent to c is meant for it, in the order of CORK, without a gap.
SentOrder ==
  \A c \in Clients : \A j \in DOMAIN out[c] : IsOp(out[c][j]) =>
    /\ out[c][j].op \in Ops /\ Addressed(c, out[c][j].op)
    /\ out[c][j].tid \in Threads
    /\ \A i \in 1 .. j - 1 : IsOp(out[c][i]) => out[c][i].op < out[c][j].op
    /\ \A m \in 1 .. out[c][j].op : Addressed(c, m) => m \in OpsIn(out[c], j)

\* The loop of pre_op has yet to come to c with operation m.
ToCome(c, m) ==
  \E t \in Threads : /\ pc[t] = "send" /\ cur[t] = m
                     /\ \E i \in DOMAIN list : i >= pos[t] /\ list[i] = c

\* A listed replica that is alive has been sent all that is meant for it, but
\* for the operation whose worker has not come to it yet.
SentAll ==
  \A c \in Clients : stage[c] = "listed" /\ Alive(c) =>
    \A m \in Ops : Addressed(c, m) => m \in OpsIn(out[c], Len(out[c])) \/ ToCome(c, m)

\* And that one has not been sent twice.
SentOnce ==
  \A c \in Clients : \A m \in Ops : ToCome(c, m) => m \notin OpsIn(out[c], Len(out[c]))

\* How many messages an inline replica has dealt with.
Done(c) == IF queue[c] = <<>> THEN got[c] ELSE got[c] - 1

\* An inline replica dispatches the message it has read before the next one.
ReadOne ==
  \A c \in Inline : queue[c] # <<>> =>
    /\ Len(queue[c]) = 1 /\ got[c] >= 1
    /\ queue[c][1] = out[c][got[c]] /\ IsOp(queue[c][1])

\* It has applied the operations among the messages it has dealt with, in order.
AppliedDone ==
  \A c \in Inline :
    /\ Range(applied[c]) = OpsIn(out[c], Done(c))
    /\ \A i, j \in DOMAIN applied[c] : i < j => applied[c][i] < applied[c][j]

DeliveryInv ==
  /\ TypeOK /\ Turn /\ Joined /\ Listing /\ Fresh /\ SentOrder /\ SentAll /\ SentOnce
  /\ ReadOne /\ AppliedDone

-----------------------------------------------------------------------------
(* Operations in a sequence of messages *)

\* A message appended to a stream adds its operation, if it is one.
LEMMA OpsInAppend ==
  ASSUME NEW s \in Seq(Msg), NEW m \in Msg
  PROVE  /\ \A j \in 0 .. Len(s) : OpsIn(Append(s, m), j) = OpsIn(s, j)
         /\ OpsIn(Append(s, m), Len(s) + 1) =
              OpsIn(s, Len(s)) \cup (IF IsOp(m) THEN {m.op} ELSE {})
<1>1. ASSUME NEW j \in 0 .. Len(s) PROVE OpsIn(Append(s, m), j) = OpsIn(s, j)
  BY DEF OpsIn
<1>2. Append(s, m)[Len(s) + 1] = m
  OBVIOUS
<1>3. \A i \in 1 .. Len(s) : Append(s, m)[i] = s[i]
  OBVIOUS
<1>4. OpsIn(Append(s, m), Len(s) + 1) \subseteq
        OpsIn(s, Len(s)) \cup (IF IsOp(m) THEN {m.op} ELSE {})
  BY <1>2, <1>3 DEF OpsIn
<1>5. OpsIn(s, Len(s)) \subseteq OpsIn(Append(s, m), Len(s) + 1)
  BY <1>3 DEF OpsIn
<1>6. IsOp(m) => m.op \in OpsIn(Append(s, m), Len(s) + 1)
  BY <1>2 DEF OpsIn
<1> QED
  BY <1>1, <1>4, <1>5, <1>6

\* Reading one message further adds its operation, if it is one.
LEMMA OpsInNext ==
  ASSUME NEW s \in Seq(Msg), NEW j \in Nat, j < Len(s)
  PROVE  OpsIn(s, j + 1) = OpsIn(s, j) \cup (IF IsOp(s[j + 1]) THEN {s[j + 1].op} ELSE {})
<1>1. OpsIn(s, j + 1) \subseteq
        OpsIn(s, j) \cup (IF IsOp(s[j + 1]) THEN {s[j + 1].op} ELSE {})
  BY DEF OpsIn
<1>2. OpsIn(s, j) \subseteq OpsIn(s, j + 1)
  BY DEF OpsIn
<1>3. IsOp(s[j + 1]) => s[j + 1].op \in OpsIn(s, j + 1)
  BY DEF OpsIn
<1> QED
  BY <1>1, <1>2, <1>3

-----------------------------------------------------------------------------
(* What a step leaves alone *)

\* The step does not touch the loop of pre_op.
SameSenders ==
  \A t \in Threads :
    /\ pc'[t] = "send" <=> pc[t] = "send"
    /\ pc[t] = "send" => cur'[t] = cur[t] /\ pos'[t] = pos[t]

\* Who is still to be sent what depends on the loop of pre_op and the list.
LEMMA ToComeFrame ==
  ASSUME SameSenders, UNCHANGED list, NEW c, NEW m
  PROVE  ToCome(c, m)' <=> ToCome(c, m)
BY DEF SameSenders, ToCome

\* What a step must leave alone for each conjunct of DeliveryInv to stay true.
LEMMA DeliveryFrame ==
  /\ Turn /\ SameSenders /\ UNCHANGED log => Turn'
  /\ Joined /\ SameSenders /\ UNCHANGED <<since, log>> => Joined'
  /\ Listing /\ UNCHANGED <<list, stage, status>> => Listing'
  /\ Fresh /\ UNCHANGED <<stage, out, queue, applied>> => Fresh'
  /\ SentOrder /\ UNCHANGED <<out, log, since>> => SentOrder'
  /\ SentAll /\ SameSenders /\ UNCHANGED <<stage, status, list, log, since, out>>
       => SentAll'
  /\ SentOnce /\ SameSenders /\ UNCHANGED <<list, log, out>> => SentOnce'
  /\ ReadOne /\ UNCHANGED <<queue, got, out>> => ReadOne'
  /\ AppliedDone /\ UNCHANGED <<applied, queue, got, out>> => AppliedDone'
<1>1. Turn /\ SameSenders /\ UNCHANGED log => Turn'
  BY DEF Turn, SameSenders
<1>9. Joined /\ SameSenders /\ UNCHANGED <<since, log>> => Joined'
  BY DEF Joined, SameSenders
<1>2. Listing /\ UNCHANGED <<list, stage, status>> => Listing'
  BY DEF Listing
<1>3. Fresh /\ UNCHANGED <<stage, out, queue, applied>> => Fresh'
  BY DEF Fresh
<1>4. SentOrder /\ UNCHANGED <<out, log, since>> => SentOrder'
  BY DEF SentOrder, Ops, Addressed
<1>5. SentAll /\ SameSenders /\ UNCHANGED <<stage, status, list, log, since, out>>
       => SentAll'
  BY ToComeFrame DEF SentAll, Ops, Addressed, Alive
<1>6. SentOnce /\ SameSenders /\ UNCHANGED <<list, log, out>> => SentOnce'
  BY ToComeFrame DEF SentOnce, Ops
<1>7. ReadOne /\ UNCHANGED <<queue, got, out>> => ReadOne'
  BY DEF ReadOne
<1>8. AppliedDone /\ UNCHANGED <<applied, queue, got, out>> => AppliedDone'
  BY DEF AppliedDone, Done
<1> QED
  BY <1>1, <1>2, <1>3, <1>4, <1>5, <1>6, <1>7, <1>8, <1>9

-----------------------------------------------------------------------------
(* One step per action *)

USE DEF threadVars, serverVars, readerVars, sendVars, replicaVars, peerVars,
        outside, serverSide

\* Nothing that DeliveryInv speaks of changes.
LEMMA DeliveryStutter ==
  ASSUME DeliveryInv, TypeOK', SameSenders,
         UNCHANGED <<log, list, stage, status, since, out, queue, got, applied>>
  PROVE  DeliveryInv'
BY DeliveryFrame, Zenon DEF DeliveryInv

\* A worker outside the loop of pre_op.
LEMMA DeliveryIdle ==
  ASSUME DeliveryInv, TypeOK', NEW t \in Threads,
         \/ Call(t) \/ LockCorked(t) \/ WriteJournal(t) \/ ApplyLocal(t)
         \/ WaitAnswer(t) \/ WaitTimeout(t) \/ Return(t)
  PROVE  DeliveryInv'
<1>1. pc \in [Threads -> Labels]
  BY SMTT(30) DEF DeliveryInv, TypeOK, ThreadOK
<1>2. pc[t] # "send" /\ \A u \in Threads \ {t} : pc'[u] = pc[u]
  BY <1>1, SMTT(30) DEF Call, LockCorked, WriteJournal, ApplyLocal, WaitAnswer, WaitTimeout,
              Return, Finish, Goto
<1>3. pc'[t] # "send"
  BY <1>1 DEF Call, LockCorked, WriteJournal, ApplyLocal, WaitAnswer, WaitTimeout,
              Return, Finish, Goto
<1>4. \A u \in Threads \ {t} : cur'[u] = cur[u] /\ pos'[u] = pos[u]
  BY Zenon
  DEF DeliveryInv, TypeOK, ThreadOK, Call, LockCorked, WriteJournal, ApplyLocal,
      WaitAnswer, WaitTimeout, Return, Finish
<1>5. SameSenders
  BY <1>2, <1>3, <1>4, SMTT(30) DEF SameSenders
<1>6. UNCHANGED <<log, list, stage, status, since, out, queue, got, applied>>
  BY DEF Call, LockCorked, WriteJournal, ApplyLocal, WaitAnswer, WaitTimeout, Return
<1> QED
  BY <1>5, <1>6, DeliveryStutter

\* pre_op takes CORK: the operation gets its place in the order.
LEMMA DeliveryLock ==
  ASSUME DeliveryInv, TypeOK', NEW t \in Threads, NEW kind \in Kinds, Lock(t, kind)
  PROVE  DeliveryInv'
<1>1. /\ CorkFree /\ log \in Seq([kind : Kinds, tid : Threads, before : SUBSET Nat])
      /\ cur' = [cur EXCEPT ![t] = Len(log) + 1]
      /\ pos' = [pos EXCEPT ![t] = 1]
      /\ pc' = [pc EXCEPT ![t] = "send"]
      /\ \E e : log' = Append(log, e)
      /\ UNCHANGED <<list, stage, status, since, out, queue, got, applied>>
  BY DEF DeliveryInv, TypeOK, ThreadOK, Lock, Goto
<1>2. Len(log') = Len(log) + 1 /\ \A n \in Ops : log'[n] = log[n]
  BY <1>1, SMTT(30) DEF Ops
<1>3. cur'[t] = Len(log) + 1 /\ pos'[t] = 1 /\ pc'[t] = "send"
  BY <1>1, SMTT(30) DEF DeliveryInv, TypeOK, ThreadOK
<1>4. \A u \in Threads : pc'[u] = "send" => u = t
  BY <1>1 DEF DeliveryInv, TypeOK, ThreadOK, CorkFree
<1>5. Turn'
  BY <1>2, <1>3, <1>4 DEF Turn
<1>6. \A c \in Clients : \A n \in Ops : Addressed(c, n)' <=> Addressed(c, n)
  BY <1>1, <1>2, ZenonT(30) DEF Addressed
<1>7. \A c \in Clients : OpsIn(out[c], Len(out[c])) \subseteq Ops
  BY SMTT(30) DEF DeliveryInv, SentOrder, OpsIn, TypeOK, StreamOK, Peers
<1>8. Ops' = Ops \cup {Len(log) + 1} /\ Len(log) + 1 \notin Ops
  BY <1>1, <1>2, SMTT(30) DEF Ops
<1>9. SentOrder'
  <2>1. ASSUME NEW c \in Clients, NEW j \in DOMAIN out[c], IsOp(out[c][j])
        PROVE  /\ out[c][j].op \in Ops /\ Addressed(c, out[c][j].op)
               /\ 1 .. out[c][j].op \subseteq Ops
    BY <2>1 DEF DeliveryInv, SentOrder, Ops
  <2> QED
    BY <1>1, <1>6, <1>8, <2>1, ZenonT(30) DEF DeliveryInv, SentOrder
<1>10. ASSUME NEW c \in Clients, stage[c] = "listed", NEW m, m = Len(log) + 1
       PROVE  ToCome(c, m)'
  <2>1. PICK i \in DOMAIN list : list[i] = c
    BY <1>10 DEF DeliveryInv, Listing, Peers
  <2>2. i >= 1
    BY DEF DeliveryInv, TypeOK, ServerOK
  <2> QED
    BY <1>1, <1>3, <1>10, <2>1, <2>2 DEF ToCome
<1>11. \A c \in Clients : \A m \in Ops : ~ ToCome(c, m)
  BY <1>1 DEF ToCome, CorkFree
<1>12. SentAll'
  BY <1>1, <1>6, <1>8, <1>10, <1>11, SMTT(30) DEF DeliveryInv, SentAll, Alive
<1>13. \A c \in Clients, m \in Ops : ~ ToCome(c, m)'
  BY <1>3, <1>4, <1>8 DEF ToCome
<1>14. SentOnce'
  BY <1>1, <1>7, <1>8, <1>13, SMTT(30) DEF SentOnce
<1>15. Joined'
  BY <1>1, <1>2, <1>3, <1>4, SMTT(30) DEF DeliveryInv, TypeOK, ThreadOK, ServerOK, Joined
<1> QED
  BY <1>1, <1>5, <1>9, <1>12, <1>14, <1>15, DeliveryFrame, ZenonT(30) DEF DeliveryInv

\* A message is written to a peer of SYNC_LIST.
LEMMA DeliveryWrite ==
  ASSUME DeliveryInv, NEW p \in Peers, NEW m \in Msg, stage[p] = "listed",
         out' = [out EXCEPT ![p] = Append(@, m)],
         UNCHANGED <<stage, queue, got, applied>>
  PROVE  Fresh' /\ ReadOne' /\ AppliedDone'
<1>1. /\ \A c \in Clients : out[c] \in Seq(Msg) /\ got[c] \in 0 .. Len(out[c])
      /\ Inline \subseteq Clients /\ Clients \subseteq Peers
      /\ out \in [Peers -> Seq(Msg)]
  BY DEF DeliveryInv, TypeOK, StreamOK, Peers, Inline
<1>2. \A c \in Clients : out'[c] = IF c = p THEN Append(out[c], m) ELSE out[c]
  BY <1>1
<1>3. Fresh'
  BY <1>2 DEF DeliveryInv, Fresh
<1>4. ASSUME NEW c \in Clients, NEW j \in 1 .. got[c] PROVE out'[c][j] = out[c][j]
  BY <1>1, <1>2
<1>5. ReadOne'
  BY <1>1, <1>4 DEF DeliveryInv, ReadOne
<1>6. ASSUME NEW c \in Inline PROVE OpsIn(out'[c], Done(c)) = OpsIn(out[c], Done(c))
  <2>1. Done(c) \in 0 .. Len(out[c])
    BY <1>1 DEF DeliveryInv, ReadOne, Done
  <2>2. CASE c = p
    BY <1>1, <1>2, <2>1, <2>2, OpsInAppend, SMTT(30)
  <2>3. CASE c # p
    BY <1>1, <1>2, <2>3, SMTT(30)
  <2> QED
    BY <2>2, <2>3
<1>7. AppliedDone'
  BY <1>6 DEF DeliveryInv, AppliedDone, Done
<1> QED
  BY <1>3, <1>5, <1>7

\* The loop of pre_op passes a peer: ToCome loses that peer and no other.
LEMMA PassPeer ==
  ASSUME DeliveryInv, NEW t \in Threads, NEW p \in Peers, AtPeer(t, p),
         UNCHANGED <<pc, cur, list>>
  PROVE  /\ stage[p] = "listed" /\ cur[t] = Len(log) /\ cur[t] \in Ops
         /\ ToCome(p, cur[t])
         /\ \A c, m : ToCome(c, m)' <=> ToCome(c, m) /\ c # p
         /\ \A c, m : ToCome(c, m) => m = cur[t]
<1>1. /\ pc[t] = "send" /\ pos[t] \in DOMAIN list /\ list[pos[t]] = p
      /\ pos' = [pos EXCEPT ![t] = @ + 1]
      /\ pos \in [Threads -> Nat \ {0}] /\ cur \in [Threads -> Nat]
      /\ DOMAIN list \subseteq Nat /\ Len(log) \in Nat
  BY SMTT(30) DEF AtPeer, DeliveryInv, TypeOK, ThreadOK, ServerOK
<1>2. cur[t] = Len(log) /\ \A u \in Threads : pc[u] = "send" => u = t
  BY <1>1 DEF DeliveryInv, Turn
<1>3. stage[p] = "listed"
  BY <1>1 DEF DeliveryInv, Listing
<1>4. cur[t] \in Ops
  BY <1>1, <1>2 DEF DeliveryInv, Joined, Ops, TypeOK, ServerOK
<1>5. \A i \in DOMAIN list : list[i] = p => i = pos[t]
  BY <1>1 DEF DeliveryInv, Listing
<1>6. pos'[t] = pos[t] + 1
  BY <1>1
<1>7. ASSUME NEW c, NEW m
      PROVE  ToCome(c, m) <=> /\ cur[t] = m
                              /\ \E i \in DOMAIN list : i >= pos[t] /\ list[i] = c
  BY <1>1, <1>2 DEF ToCome
<1>8. ASSUME NEW c, NEW m
      PROVE  ToCome(c, m)' <=> /\ cur[t] = m
                               /\ \E i \in DOMAIN list : i >= pos[t] + 1 /\ list[i] = c
  BY <1>1, <1>2, <1>6 DEF ToCome
<1>9. \A c, m : ToCome(c, m)' <=> ToCome(c, m) /\ c # p
  BY <1>1, <1>5, <1>7, <1>8
<1>10. ToCome(p, cur[t])
  BY <1>1, <1>7
<1> QED
  BY <1>2, <1>3, <1>4, <1>7, <1>9, <1>10

\* response_msg is not called, or finds the client dead.
LEMMA DeliverySkip ==
  ASSUME DeliveryInv, TypeOK', NEW t \in Threads, NEW p \in Peers, SendSkip(t, p)
  PROVE  DeliveryInv'
<1>1. /\ AtPeer(t, p)
      /\ Skips(p, KindOf(t)) \/ status[p] = "DEAD"
      /\ UNCHANGED <<pc, cur, log, list, stage, status, since, out, queue, got, applied>>
  BY ZenonT(30) DEF SendSkip
<1>2. /\ \A c, m : ToCome(c, m)' <=> ToCome(c, m) /\ c # p
      /\ \A c, m : ToCome(c, m) => m = cur[t]
  BY <1>1, PassPeer
<1>3. Turn' /\ Joined'
  BY <1>1, ZenonT(30) DEF DeliveryInv, Turn, Joined
<1>4. p \in Clients /\ Alive(p) => ~ Addressed(p, cur[t])
  BY <1>1, ConstantsAssumption DEF Skips, KindOf, Addressed, Alive
<1>5. \A c, m : Addressed(c, m)' <=> Addressed(c, m)
  BY <1>1, Zenon DEF Addressed
<1>6. SentAll'
  <2>1. SUFFICES ASSUME NEW c \in Clients, stage[c] = "listed", Alive(c),
                        NEW m \in Ops, Addressed(c, m)
                 PROVE  m \in OpsIn(out[c], Len(out[c])) \/ ToCome(c, m)'
    BY <1>1, <1>5, Zenon DEF SentAll, Alive, Ops
  <2>2. m \in OpsIn(out[c], Len(out[c])) \/ ToCome(c, m)
    BY <2>1, Zenon DEF DeliveryInv, SentAll
  <2> QED
    BY <2>1, <2>2, <1>2, <1>4, Zenon
<1>7. SentOnce'
  BY <1>1, <1>2, Zenon DEF DeliveryInv, SentOnce, Ops
<1> QED
  BY <1>1, <1>3, <1>6, <1>7, DeliveryFrame, Zenon DEF DeliveryInv

\* The loop of pre_op has come to its end: nobody is left to come to.
LEMMA DeliverySendDone ==
  ASSUME DeliveryInv, TypeOK', NEW t \in Threads, SendDone(t)
  PROVE  DeliveryInv'
<1>1. /\ pc[t] = "send" /\ pos[t] \notin DOMAIN list
      /\ pc' = [pc EXCEPT ![t] = IF JournalType = "Off" THEN "local" ELSE "journal"]
      /\ UNCHANGED <<cur, pos, log, list, stage, status, since, out, queue, got, applied>>
  BY ZenonT(30) DEF SendDone, Goto
<1>2. \A u \in Threads : pc'[u] # "send"
  BY <1>1 DEF DeliveryInv, Turn, TypeOK, ThreadOK
<1>3. pos[t] \in Nat \ {0} /\ DOMAIN list = 1 .. Len(list) /\ Len(list) \in Nat
  BY DEF DeliveryInv, TypeOK, ThreadOK, ServerOK
<1>4. \A c, m : ~ ToCome(c, m)
  BY <1>1, <1>3 DEF DeliveryInv, Turn, ToCome
<1>5. \A c, m : ~ ToCome(c, m)'
  BY <1>2 DEF ToCome
<1>6. Turn' /\ Joined'
  BY <1>1, <1>2, Zenon DEF DeliveryInv, Turn, Joined
<1>7. \A c, m : Addressed(c, m)' <=> Addressed(c, m)
  BY <1>1, Zenon DEF Addressed
<1>8. SentAll' /\ SentOnce'
  BY <1>1, <1>4, <1>5, <1>7, Zenon DEF DeliveryInv, SentAll, SentOnce, Alive, Ops
<1> QED
  BY <1>1, <1>6, <1>8, DeliveryFrame, Zenon DEF DeliveryInv

\* The connection of a peer of SYNC_LIST is found broken: fewer promises hold.
LEMMA DeliveryDead ==
  ASSUME DeliveryInv, NEW p \in Peers, status' = [status EXCEPT ![p] = "DEAD"],
         UNCHANGED <<list, stage>>
  PROVE  /\ Listing'
         /\ \A c \in Peers : Alive(c)' => Alive(c) /\ c # p
<1>1. status \in [Peers -> {"ALIVE", "DEAD"}]
  BY DEF DeliveryInv, TypeOK, StreamOK
<1>2. \A c \in Peers : Alive(c)' => Alive(c) /\ c # p
  BY <1>1 DEF Alive
<1>3. \A c \in Peers : status[c] = "DEAD" => status'[c] = "DEAD"
  BY <1>1
<1>4. Listing'
  BY <1>3, ZenonT(30) DEF DeliveryInv, Listing
<1> QED
  BY <1>2, <1>4

\* response_msg fails to write an operation.
LEMMA DeliverySendFails ==
  ASSUME DeliveryInv, TypeOK', NEW t \in Threads, NEW p \in Clients, SendOp(t, p),
         WriteError(p)
  PROVE  DeliveryInv'
<1>1. /\ AtPeer(t, p) /\ p \in Peers
      /\ status' = [status EXCEPT ![p] = "DEAD"]
      /\ UNCHANGED <<pc, cur, log, list, stage, since, out, queue, got, applied>>
  BY Zenon DEF SendOp, WriteError, Peers
<1>2. /\ \A c, m : ToCome(c, m)' <=> ToCome(c, m) /\ c # p
  BY <1>1, PassPeer, Zenon
<1>3. Turn' /\ Joined'
  BY <1>1, Zenon DEF DeliveryInv, Turn, Joined
<1>4. Listing' /\ \A c \in Clients : Alive(c)' => Alive(c) /\ c # p
  BY <1>1, DeliveryDead, Zenon DEF Peers
<1>5. \A c, m : Addressed(c, m)' <=> Addressed(c, m)
  BY <1>1, Zenon DEF Addressed
<1>6. SentAll'
  <2>1. SUFFICES ASSUME NEW c \in Clients, stage[c] = "listed", Alive(c)',
                        NEW m \in Ops, Addressed(c, m)
                 PROVE  m \in OpsIn(out[c], Len(out[c])) \/ ToCome(c, m)'
    BY <1>1, <1>5, Zenon DEF SentAll, Ops
  <2>2. m \in OpsIn(out[c], Len(out[c])) \/ ToCome(c, m)
    BY <1>4, <2>1, Zenon DEF DeliveryInv, SentAll
  <2> QED
    BY <2>1, <2>2, <1>2, <1>4, Zenon
<1>7. SentOnce'
  BY <1>1, <1>2, Zenon DEF DeliveryInv, SentOnce, Ops
<1> QED
  BY <1>1, <1>3, <1>4, <1>6, <1>7, DeliveryFrame, Zenon DEF DeliveryInv

\* response_msg writes an operation: it is the next one in the order of CORK.
LEMMA DeliverySend ==
  ASSUME DeliveryInv, TypeOK', NEW t \in Threads, NEW p \in Clients, SendOp(t, p),
         NEW flush \in BOOLEAN, Transmit(p, OpMsg(t, p), flush)
  PROVE  DeliveryInv'
<1> DEFINE n == cur[t]
           msg == OpMsg(t, p)
           old == out[p]
<1>1. /\ AtPeer(t, p) /\ ~ Skips(p, KindOf(t)) /\ p \in Peers
      /\ out' = [out EXCEPT ![p] = Append(@, msg)]
      /\ UNCHANGED <<pc, cur, log, list, stage, status, since, queue, got, applied>>
  BY Zenon DEF SendOp, Transmit, Peers
<1>2. /\ \A c, m : ToCome(c, m)' <=> ToCome(c, m) /\ c # p
      /\ \A c, m : ToCome(c, m) => m = n
      /\ ToCome(p, n) /\ stage[p] = "listed" /\ n = Len(log) /\ n \in Ops
  BY <1>1, PassPeer, ZenonT(30)
<1>3. Turn' /\ Joined'
  BY <1>1, Zenon DEF DeliveryInv, Turn, Joined
<1>4. msg \in Msg /\ IsOp(msg) /\ msg.op = n /\ msg.tid = t
  BY DEF OpMsg, IsOp, Msg, Tids, DeliveryInv, TypeOK, ThreadOK
<1>5. Fresh' /\ ReadOne' /\ AppliedDone'
  BY <1>1, <1>2, <1>4, DeliveryWrite, Zenon
<1>6. \A c \in Clients : \A m : Addressed(c, m)' <=> Addressed(c, m)
  BY <1>1, ZenonT(30) DEF Addressed
<1>7. Addressed(p, n) /\ pc[t] = "send"
  BY <1>1 DEF DeliveryInv, Joined, Skips, KindOf, Addressed, AtPeer
<1>8. /\ old \in Seq(Msg) /\ out'[p] = Append(old, msg)
      /\ \A c \in Clients \ {p} : out'[c] = out[c]
  BY <1>1, SMTT(30) DEF DeliveryInv, TypeOK, StreamOK, Peers
<1>9. /\ \A j \in 0 .. Len(old) : OpsIn(out'[p], j) = OpsIn(old, j)
      /\ OpsIn(out'[p], Len(old) + 1) = OpsIn(old, Len(old)) \cup {n}
      /\ Len(out'[p]) = Len(old) + 1
      /\ \A j \in 1 .. Len(old) : out'[p][j] = old[j]
      /\ out'[p][Len(old) + 1] = msg
      /\ DOMAIN old = 1 .. Len(old) /\ Len(old) \in Nat
  <2> HIDE DEF n, msg, old
  <2>1. /\ Len(Append(old, msg)) = Len(old) + 1
        /\ \A j \in 1 .. Len(old) : Append(old, msg)[j] = old[j]
        /\ Append(old, msg)[Len(old) + 1] = msg
        /\ DOMAIN old = 1 .. Len(old) /\ Len(old) \in Nat
    BY <1>4, <1>8
  <2>2. /\ \A j \in 0 .. Len(old) : OpsIn(Append(old, msg), j) = OpsIn(old, j)
        /\ OpsIn(Append(old, msg), Len(old) + 1) =
             OpsIn(old, Len(old)) \cup (IF IsOp(msg) THEN {msg.op} ELSE {})
    BY <1>4, <1>8, OpsInAppend, Zenon
  <2> QED
    BY <1>4, <1>8, <2>1, <2>2
<1>10. Alive(p)
  BY DEF SendOp, Alive
<1>11. \A m \in Ops : Addressed(p, m) => m = n \/ m \in OpsIn(old, Len(old))
  BY <1>2, <1>10, Zenon DEF DeliveryInv, SentAll
<1>12. \A i \in 1 .. Len(old) : IsOp(old[i]) => old[i].op \in Ops /\ old[i].op # n
  <2>1. \A i \in 1 .. Len(old) : IsOp(old[i]) => old[i].op \in OpsIn(old, Len(old))
    BY <1>9, Zenon DEF OpsIn
  <2>2. n \notin OpsIn(old, Len(old))
    BY <1>2, Zenon DEF DeliveryInv, SentOnce
  <2>3. \A i \in 1 .. Len(old) : IsOp(old[i]) => old[i].op \in Ops
    BY <1>9, Zenon DEF DeliveryInv, SentOrder
  <2> QED
    BY <2>1, <2>2, <2>3, Zenon
<1>13. SentOrder'
  <2>1. ASSUME NEW j \in 1 .. Len(old), IsOp(old[j])
        PROVE  /\ old[j].op \in Ops /\ Addressed(p, old[j].op)
               /\ old[j].tid \in Threads
               /\ \A i \in 1 .. j - 1 : IsOp(old[i]) => old[i].op < old[j].op
               /\ \A m \in 1 .. old[j].op : Addressed(p, m) => m \in OpsIn(old, j)
    BY <1>9, <2>1, SMTT(30) DEF DeliveryInv, SentOrder
  <2>2. ASSUME NEW j \in 1 .. Len(old) + 1, IsOp(out'[p][j])
        PROVE  /\ out'[p][j].op \in Ops /\ Addressed(p, out'[p][j].op)
               /\ out'[p][j].tid \in Threads
               /\ \A i \in 1 .. j - 1 :
                    IsOp(out'[p][i]) => out'[p][i].op < out'[p][j].op
               /\ \A m \in 1 .. out'[p][j].op :
                    Addressed(p, m) => m \in OpsIn(out'[p], j)
    <3>1. CASE j \in 1 .. Len(old)
      <4>1. out'[p][j] = old[j] /\ OpsIn(out'[p], j) = OpsIn(old, j) /\ IsOp(old[j])
        BY <1>9, <2>2, <3>1, SMTT(30)
      <4>2. \A i \in 1 .. j - 1 : i \in 1 .. Len(old) /\ out'[p][i] = old[i]
        BY <1>9, <3>1, SMTT(30)
      <4> QED
        BY <2>1, <3>1, <4>1, <4>2, ZenonT(30)
    <3>2. CASE j = Len(old) + 1
      <4>1. \A i \in 1 .. j - 1 : IsOp(out'[p][i]) => out'[p][i].op < n
        BY <1>2, <1>9, <1>12, <3>2, SMTT(30) DEF Ops
      <4>2. \A m \in 1 .. n : Addressed(p, m) => m \in OpsIn(out'[p], j)
        BY <1>2, <1>9, <1>11, <3>2, SMTT(30) DEF Ops
      <4> QED
        BY <1>2, <1>4, <1>7, <1>9, <3>2, <4>1, <4>2, ZenonT(30)
    <3> QED
      BY <1>9, <3>1, <3>2
  <2>3. DOMAIN out'[p] = 1 .. Len(old) + 1
    BY <1>8, <1>9, SMTT(30)
  <2>4. ASSUME NEW c \in Clients, NEW j \in DOMAIN out'[c], IsOp(out'[c][j])
        PROVE  /\ out'[c][j].op \in Ops /\ Addressed(c, out'[c][j].op)
               /\ out'[c][j].tid \in Threads
               /\ \A i \in 1 .. j - 1 :
                    IsOp(out'[c][i]) => out'[c][i].op < out'[c][j].op
               /\ \A m \in 1 .. out'[c][j].op :
                    Addressed(c, m) => m \in OpsIn(out'[c], j)
    <3>1. CASE c = p
      BY <2>2, <2>3, <2>4, <3>1, Zenon
    <3>2. CASE c # p
      BY <1>8, <2>4, <3>2, Zenon DEF DeliveryInv, SentOrder
    <3> QED
      BY <3>1, <3>2
  <2> QED
    BY <1>1, <1>6, <2>4, ZenonT(30) DEF SentOrder, Ops
<1>14. SentAll'
  <2>1. SUFFICES ASSUME NEW c \in Clients, stage[c] = "listed", Alive(c),
                        NEW m \in Ops, Addressed(c, m)
                 PROVE  m \in OpsIn(out'[c], Len(out'[c])) \/ ToCome(c, m)'
    BY <1>1, <1>6, ZenonT(30) DEF SentAll, Ops, Alive
  <2>2. CASE c = p
    BY <1>9, <1>11, <2>1, <2>2
  <2>3. CASE c # p
    BY <1>2, <1>8, <2>1, <2>3, Zenon DEF DeliveryInv, SentAll
  <2> QED
    BY <2>2, <2>3
<1>15. SentOnce'
  BY <1>1, <1>2, <1>8, Zenon DEF DeliveryInv, SentOnce, Ops
<1> QED
  BY <1>1, <1>3, <1>5, <1>13, <1>14, <1>15, DeliveryFrame, Zenon DEF DeliveryInv

\* A Cork or an Uncork is written: no operation is added to a stream.
LEMMA DeliveryQuietWrite ==
  ASSUME DeliveryInv, TypeOK', SameSenders, NEW p \in Peers, NEW msg \in Msg,
         ~ IsOp(msg), stage[p] = "listed", out' = [out EXCEPT ![p] = Append(@, msg)],
         UNCHANGED <<log, list, stage, status, since, queue, got, applied>>
  PROVE  DeliveryInv'
<1>1. Fresh' /\ ReadOne' /\ AppliedDone'
  BY DeliveryWrite, ZenonT(30)
<1>2. \A c \in Clients : out[c] \in Seq(Msg)
  BY DEF DeliveryInv, TypeOK, StreamOK, Peers
<1>3. \A c \in Clients : out'[c] = out[c] \/ out'[c] = Append(out[c], msg)
  BY SMTT(30) DEF DeliveryInv, TypeOK, StreamOK, Peers
<1>4. ASSUME NEW c \in Clients
      PROVE  /\ \A j \in 0 .. Len(out[c]) : OpsIn(out'[c], j) = OpsIn(out[c], j)
             /\ OpsIn(out'[c], Len(out'[c])) = OpsIn(out[c], Len(out[c]))
             /\ \A j \in DOMAIN out'[c] : IsOp(out'[c][j]) =>
                  /\ j \in DOMAIN out[c]
                  /\ \A i \in 1 .. j : out'[c][i] = out[c][i]
  <2>1. CASE out'[c] = out[c]
    BY <1>2, <2>1, Zenon
  <2>2. CASE out'[c] = Append(out[c], msg)
    <3>1. /\ Len(Append(out[c], msg)) = Len(out[c]) + 1
          /\ \A j \in 1 .. Len(out[c]) : Append(out[c], msg)[j] = out[c][j]
          /\ Append(out[c], msg)[Len(out[c]) + 1] = msg
          /\ DOMAIN out[c] = 1 .. Len(out[c]) /\ Len(out[c]) \in Nat
          /\ DOMAIN Append(out[c], msg) = 1 .. Len(out[c]) + 1
      BY <1>2
    <3>2. /\ \A j \in 0 .. Len(out[c]) : OpsIn(Append(out[c], msg), j) = OpsIn(out[c], j)
          /\ OpsIn(Append(out[c], msg), Len(out[c]) + 1) = OpsIn(out[c], Len(out[c]))
      BY <1>2, OpsInAppend, ZenonT(30)
    <3>3. \A j \in 1 .. Len(out[c]) + 1 :
            IsOp(out'[c][j]) => j \in 1 .. Len(out[c])
      BY <2>2, <3>1, SMTT(30)
    <3>4. \A j \in 1 .. Len(out[c]) : \A i \in 1 .. j : out'[c][i] = out[c][i]
      BY <2>2, <3>1
    <3> QED
      BY <2>2, <3>1, <3>2, <3>3, <3>4, ZenonT(30)
  <2> QED
    BY <1>3, <2>1, <2>2
<1>5. SentOrder'
  <2>1. ASSUME NEW c \in Clients, NEW j \in DOMAIN out'[c], IsOp(out'[c][j])
        PROVE  /\ out'[c][j].op \in Ops /\ Addressed(c, out'[c][j].op)
               /\ out'[c][j].tid \in Threads
               /\ \A i \in 1 .. j - 1 :
                    IsOp(out'[c][i]) => out'[c][i].op < out'[c][j].op
               /\ \A m \in 1 .. out'[c][j].op :
                    Addressed(c, m) => m \in OpsIn(out'[c], j)
    <3>1. j \in DOMAIN out[c] /\ \A i \in 1 .. j : out'[c][i] = out[c][i]
      BY <1>4, <2>1, Zenon
    <3>2. j \in 0 .. Len(out[c]) /\ j \in 1 .. j /\ \A i \in 1 .. j - 1 : i \in 1 .. j
      BY <1>2, <3>1
    <3> QED
      BY <1>4, <2>1, <3>1, <3>2, Zenon DEF DeliveryInv, SentOrder
  <2> QED
    BY <2>1, ZenonT(30) DEF SentOrder, Ops, Addressed
<1>6. SentAll'
  BY <1>4, ToComeFrame, Zenon DEF DeliveryInv, SentAll, Ops, Addressed, Alive
<1>7. SentOnce'
  BY <1>4, ToComeFrame, Zenon DEF DeliveryInv, SentOnce, Ops
<1> QED
  BY <1>1, <1>5, <1>6, <1>7, DeliveryFrame, Zenon DEF DeliveryInv

\* A connection is found broken by its reader, or by a write of Cork or Uncork.
LEMMA DeliveryBroken ==
  ASSUME DeliveryInv, TypeOK', SameSenders, NEW p \in Peers,
         status' = [status EXCEPT ![p] = "DEAD"],
         UNCHANGED <<log, list, stage, since, out, queue, got, applied>>
  PROVE  DeliveryInv'
<1>1. Listing' /\ \A c \in Clients : Alive(c)' => Alive(c)
  BY DeliveryDead, Zenon DEF Peers
<1>2. SentAll'
  BY <1>1, ToComeFrame, Zenon DEF DeliveryInv, SentAll, Ops, Addressed
<1> QED
  BY <1>1, <1>2, DeliveryFrame, Zenon DEF DeliveryInv

\* The workers' program counters do not change.
LEMMA SameThreads == UNCHANGED <<pc, cur, pos>> => SameSenders
BY DEF SameSenders

\* cork_server and uncork_server at one peer of SYNC_LIST.
LEMMA DeliveryCommandPeer ==
  ASSUME DeliveryInv, TypeOK', NEW k \in Controls, NEW p \in Peers,
         CorkPeer(k, p) \/ UncorkPeer(k, p)
  PROVE  DeliveryInv'
<1>1. /\ UNCHANGED <<pc, cur, pos, log, list, stage, since, queue, got, applied>>
      /\ SameSenders
  BY SameThreads, Zenon DEF CorkPeer, UncorkPeer
<1>2. stage[p] = "listed"
  BY Zenon DEF CorkPeer, UncorkPeer, DeliveryInv, Listing
<1>3. \/ UNCHANGED <<status, out>>
      \/ UNCHANGED out /\ status' = [status EXCEPT ![p] = "DEAD"]
      \/ UNCHANGED status /\ out' = [out EXCEPT ![p] = Append(@, CorkMsg(k))]
      \/ UNCHANGED status /\ out' = [out EXCEPT ![p] = Append(@, UncorkMsg(k))]
  BY Zenon DEF CorkPeer, UncorkPeer, Transmit, WriteError
<1>4. /\ CorkMsg(k) \in Msg /\ ~ IsOp(CorkMsg(k))
      /\ UncorkMsg(k) \in Msg /\ ~ IsOp(UncorkMsg(k))
  BY DEF CorkMsg, UncorkMsg, Msg, IsOp, Tids
<1>5. CASE UNCHANGED <<status, out>>
  BY <1>1, <1>5, DeliveryStutter, Zenon
<1>6. CASE UNCHANGED out /\ status' = [status EXCEPT ![p] = "DEAD"]
  BY <1>1, <1>6, DeliveryBroken, Zenon
<1>7. CASE UNCHANGED status /\ out' = [out EXCEPT ![p] = Append(@, CorkMsg(k))]
  BY <1>1, <1>2, <1>4, <1>7, DeliveryQuietWrite, Zenon
<1>8. CASE UNCHANGED status /\ out' = [out EXCEPT ![p] = Append(@, UncorkMsg(k))]
  BY <1>1, <1>2, <1>4, <1>8, DeliveryQuietWrite, Zenon
<1> QED
  BY <1>3, <1>5, <1>6, <1>7, <1>8, Zenon

\* The other steps of a control connection and of the control program.
LEMMA DeliveryCommand ==
  ASSUME DeliveryInv, TypeOK', NEW k \in Controls, Command(k) \/ CtlReceive(k)
  PROVE  DeliveryInv'
<1>1. CASE \/ CorkStart(k) \/ CorkAnswer(k) \/ CorkPanic(k) \/ CorkDone(k)
           \/ UncorkStart(k) \/ UncorkListDone(k)
  <2>1. UNCHANGED <<pc, cur, pos, log, list, stage, status, since, out, queue, got, applied>>
    BY <1>1, Zenon DEF CorkStart, CorkAnswer, CorkPanic, CorkDone, UncorkStart,
                       UncorkListDone
  <2> QED
    BY <2>1, SameThreads, DeliveryStutter, Zenon
<1>2. CASE Release(k)
  <2>1. /\ pc' = [t \in Threads |-> IF pc[t] = "corked" THEN "lock" ELSE pc[t]]
        /\ UNCHANGED <<cur, pos, log, list, stage, status, since, out, queue, got, applied>>
    BY <1>2, ZenonT(30) DEF Release
  <2>2. SameSenders
    BY <2>1 DEF SameSenders
  <2> QED
    BY <2>1, <2>2, DeliveryStutter, Zenon
<1>3. CASE \E p \in Peers : CorkPeer(k, p) \/ UncorkPeer(k, p)
  BY <1>3, DeliveryCommandPeer, Zenon
<1>4. CASE CtlReceive(k)
  <2>1. /\ got' = [got EXCEPT ![k] = @ + 1]
        /\ UNCHANGED <<pc, cur, pos, log, list, stage, status, since, out, queue, applied>>
        /\ SameSenders
    BY <1>4, SameThreads, ZenonT(30) DEF CtlReceive
  <2>2. \A c \in Clients : got'[c] = got[c]
    BY <2>1, ConstantsAssumption DEF DeliveryInv, TypeOK, StreamOK, Peers
  <2>3. ReadOne' /\ AppliedDone'
    BY <2>1, <2>2, Zenon DEF DeliveryInv, ReadOne, AppliedDone, Done, Inline
  <2> QED
    BY <2>1, <2>3, DeliveryFrame, Zenon DEF DeliveryInv
<1> QED
  BY <1>1, <1>2, <1>3, <1>4, Zenon DEF Command

\* from_stream: a new peer is not in SYNC_LIST yet.
LEMMA DeliveryConnect ==
  ASSUME DeliveryInv, TypeOK', NEW p \in Peers, Connect(p)
  PROVE  DeliveryInv'
<1>1. /\ stage[p] = "off" /\ stage' = [stage EXCEPT ![p] = "open"]
      /\ UNCHANGED <<pc, cur, pos, log, list, status, since, out, queue, got, applied>>
      /\ SameSenders
  BY SameThreads, Zenon DEF Connect
<1>2. \A q \in Peers : /\ stage'[q] = "listed" <=> stage[q] = "listed"
                       /\ stage'[q] = "harvested" <=> stage[q] = "harvested"
                       /\ stage'[q] \in {"off", "open"} => stage[q] \in {"off", "open"}
  BY <1>1 DEF DeliveryInv, TypeOK, ServerOK
<1>3. Listing' /\ Fresh'
  BY <1>1, <1>2, ZenonT(30) DEF DeliveryInv, Listing, Fresh, Peers
<1>4. SentAll'
  BY <1>1, <1>2, ToComeFrame, Zenon
  DEF DeliveryInv, SentAll, Ops, Addressed, Alive, Peers
<1> QED
  BY <1>1, <1>3, <1>4, DeliveryFrame, Zenon DEF DeliveryInv

\* push onto SYNC_LIST: no operation is meant for the newcomer yet.
LEMMA DeliveryPush ==
  ASSUME DeliveryInv, TypeOK', NEW p \in Peers, Push(p)
  PROVE  DeliveryInv'
<1>1. /\ stage[p] = "open" /\ ListFree
      /\ stage' = [stage EXCEPT ![p] = "listed"]
      /\ list' = Append(list, p)
      /\ since' = [since EXCEPT ![p] = Len(log)]
      /\ UNCHANGED <<pc, cur, pos, log, status, out, queue, got, applied>>
      /\ SameSenders
  BY SameThreads, Zenon DEF Push
<1>2. \A t \in Threads : pc[t] # "send"
  BY <1>1 DEF ListFree
<1>3. (\A c, m : ~ ToCome(c, m)) /\ (\A c, m : ~ ToCome(c, m)')
  BY <1>1, <1>2 DEF ToCome
<1>4. Turn' /\ Joined'
  <2>1. \A q \in Peers : since'[q] = since[q] \/ since'[q] = Len(log)
    BY <1>1, Zenon DEF DeliveryInv, TypeOK, ServerOK
  <2>2. Len(log) \in Nat
    BY DEF DeliveryInv, TypeOK, ThreadOK
  <2>3. Len(log) <= Len(log)
    BY <2>2
  <2> QED
    BY <1>1, <1>2, <2>1, <2>3, Zenon DEF DeliveryInv, Turn, Joined
<1>5. /\ stage'[p] = "listed" /\ since'[p] = Len(log)
      /\ \A q \in Peers \ {p} : stage'[q] = stage[q] /\ since'[q] = since[q]
  BY <1>1 DEF DeliveryInv, TypeOK, ServerOK
<1>6. /\ list \in Seq(Peers) /\ DOMAIN list' = DOMAIN list \cup {Len(list) + 1}
      /\ \A i \in DOMAIN list : list'[i] = list[i]
      /\ list'[Len(list) + 1] = p
  <2>1. list \in Seq(Peers)
    BY DEF DeliveryInv, TypeOK, ServerOK
  <2>2. list' = Append(list, p)
    BY <1>1, ZenonT(30)
  <2> QED
    BY <2>1, <2>2
<1>7. \A i \in DOMAIN list : list[i] # p
  BY <1>1, SMTT(30) DEF DeliveryInv, Listing
<1>8. Listing'
  BY <1>1, <1>5, <1>6, <1>7 DEF DeliveryInv, Listing
<1>9. Fresh'
  BY <1>1, <1>5, Zenon DEF DeliveryInv, Fresh, Peers
<1>10. \A c \in Clients \ {p} : \A m : Addressed(c, m)' <=> Addressed(c, m)
  BY <1>1, <1>5, Zenon DEF Addressed, Peers
<1>11. p \in Clients => out[p] = <<>> /\ \A m \in Ops : ~ Addressed(p, m)'
  <2>1. p \in Clients => out[p] = <<>>
    BY <1>1, Zenon DEF DeliveryInv, Fresh
  <2>2. \A m \in Ops : ~ since'[p] < m
    <3>1. Len(log) \in Nat
      BY DEF DeliveryInv, TypeOK, ThreadOK
    <3> QED
      BY <1>5, <3>1 DEF Ops
  <2> QED
    BY <2>1, <2>2, Zenon DEF Addressed
<1>12. SentOrder'
  <2>1. ASSUME NEW c \in Clients, NEW j \in DOMAIN out[c] PROVE c # p
    BY <1>11, <2>1
  <2> QED
    BY <1>1, <1>10, <2>1, ZenonT(30) DEF DeliveryInv, SentOrder, Ops
<1>13. SentAll'
  <2>1. SUFFICES ASSUME NEW c \in Clients, stage'[c] = "listed", Alive(c),
                        NEW m \in Ops, Addressed(c, m)'
                 PROVE  m \in OpsIn(out[c], Len(out[c]))
    BY <1>1, ZenonT(30) DEF SentAll, Ops, Alive
  <2>2. c # p /\ stage[c] = "listed"
    BY <1>5, <1>11, <2>1 DEF Peers
  <2> QED
    BY <1>3, <1>10, <2>1, <2>2, Zenon DEF DeliveryInv, SentAll
<1>14. SentOnce'
  BY <1>3, Zenon DEF SentOnce
<1> QED
  BY <1>1, <1>4, <1>8, <1>9, <1>12, <1>13, <1>14, DeliveryFrame, Zenon DEF DeliveryInv

\* The harvester takes the dead clients out of SYNC_LIST, no loop being under way.
LEMMA DeliveryHarvest ==
  ASSUME DeliveryInv, TypeOK', Harvest
  PROVE  DeliveryInv'
<1>1. /\ ListFree /\ RetainAlive
      /\ stage' = [p \in Peers |-> IF stage[p] = "listed" /\ ~ Alive(p)
                                   THEN "harvested" ELSE stage[p]]
      /\ UNCHANGED <<pc, cur, pos, log, status, since, out, queue, got, applied>>
      /\ SameSenders
  BY SameThreads, Zenon DEF Harvest
<1>2. \A t \in Threads : pc[t] # "send"
  BY <1>1, SMTT(30) DEF ListFree
<1>3. (\A c, m : ~ ToCome(c, m)) /\ (\A c, m : ~ ToCome(c, m)')
  BY <1>1, <1>2 DEF ToCome
<1>4. PICK n \in 0 .. Len(list) : \E f \in [1 .. n -> DOMAIN list] :
        /\ \A i, j \in 1 .. n : i < j => f[i] < f[j]
        /\ \A i \in DOMAIN list : Alive(list[i]) <=> \E j \in 1 .. n : f[j] = i
        /\ list' = [j \in 1 .. n |-> list[f[j]]]
  BY <1>1, Zenon DEF RetainAlive
<1>5. PICK f \in [1 .. n -> DOMAIN list] :
        /\ \A i, j \in 1 .. n : i < j => f[i] < f[j]
        /\ \A i \in DOMAIN list : Alive(list[i]) <=> \E j \in 1 .. n : f[j] = i
        /\ list' = [j \in 1 .. n |-> list[f[j]]]
  BY <1>4, Zenon
<1>6. /\ DOMAIN list' = 1 .. n
      /\ \A j \in 1 .. n : /\ list'[j] = list[f[j]] /\ f[j] \in DOMAIN list
                            /\ Alive(list[f[j]])
  BY <1>5, Zenon
<1>7. ASSUME NEW i \in 1 .. n, NEW j \in 1 .. n, f[i] = f[j] PROVE i = j
  <2>1. n \in Nat /\ DOMAIN list \subseteq Nat
    BY DEF DeliveryInv, TypeOK, ServerOK
  <2>2. f[i] \in Nat /\ f[j] \in Nat /\ (i < j => f[i] < f[j]) /\ (j < i => f[j] < f[i])
    BY <1>5, <1>6, <2>1, Zenon
  <2> QED
    BY <1>7, <2>1, <2>2, SMTT(30)
<1>8. ASSUME NEW i \in 1 .. n, NEW j \in 1 .. n, list'[i] = list'[j] PROVE i = j
  <2>1. f[i] \in DOMAIN list /\ f[j] \in DOMAIN list /\ list[f[i]] = list[f[j]]
    BY <1>6, <1>8, Zenon
  <2>2. \A a, b \in DOMAIN list : list[a] = list[b] => a = b
    BY Zenon DEF DeliveryInv, Listing
  <2> QED
    BY <1>7, <2>1, <2>2, Zenon
<1>9. ASSUME NEW p \in Peers
      PROVE  (\E i \in DOMAIN list' : list'[i] = p) <=> stage'[p] = "listed"
  <2>1. stage'[p] = "listed" <=> stage[p] = "listed" /\ Alive(p)
    BY <1>1
  <2>2. stage[p] = "listed" <=> \E i \in DOMAIN list : list[i] = p
    BY Zenon DEF DeliveryInv, Listing
  <2>3. ASSUME NEW j \in 1 .. n, list'[j] = p PROVE stage'[p] = "listed"
    BY <1>6, <2>1, <2>2, <2>3, Zenon
  <2>4. ASSUME NEW i \in DOMAIN list, list[i] = p, Alive(p)
        PROVE  \E j \in 1 .. n : list'[j] = p
    <3>1. PICK j \in 1 .. n : f[j] = i
      BY <1>5, <2>4, ZenonT(30)
    <3> QED
      BY <1>6, <2>4, <3>1, Zenon
  <2> QED
    BY <1>6, <2>1, <2>2, <2>3, <2>4, ZenonT(30)
<1>10. \A p \in Peers : stage'[p] = "harvested" => status'[p] = "DEAD"
  BY <1>1 DEF DeliveryInv, Listing, Alive
<1>11. Listing'
  BY <1>6, <1>8, <1>9, <1>10, ZenonT(30) DEF Listing
<1>12. \A c \in Clients : /\ stage'[c] = "listed" => stage[c] = "listed"
                          /\ stage'[c] \in {"off", "open"} => stage[c] = stage'[c]
  BY <1>1 DEF Peers
<1>13. Fresh'
  BY <1>1, <1>12, Zenon DEF DeliveryInv, Fresh
<1>14. SentAll' /\ SentOnce'
  BY <1>1, <1>3, <1>12, Zenon
  DEF DeliveryInv, SentAll, SentOnce, Ops, Addressed, Alive
<1> QED
  BY <1>1, <1>11, <1>13, <1>14, DeliveryFrame, Zenon DEF DeliveryInv

\* A reader thread, the flush thread, buffers that drain, a connection that breaks.
LEMMA DeliveryPeer ==
  ASSUME DeliveryInv, TypeOK', NEW p \in Peers,
         \/ ReadError(p) \/ Drain(p) \/ Disconnect(p)
         \/ p \in Clients /\ (ReadAck(p) \/ Flush(p))
  PROVE  DeliveryInv'
<1>1. CASE ReadError(p)
  <2>1. /\ status' = [status EXCEPT ![p] = "DEAD"]
        /\ UNCHANGED <<pc, cur, pos, log, list, stage, since, out, queue, got, applied>>
    BY <1>1, Zenon DEF ReadError
  <2> QED
    BY <2>1, SameThreads, DeliveryBroken, Zenon
<1>2. CASE Drain(p) \/ Disconnect(p) \/ (p \in Clients /\ (ReadAck(p) \/ Flush(p)))
  <2>1. /\ UNCHANGED <<pc, cur, pos, log, list, stage, since, out, queue, got, applied>>
        /\ UNCHANGED status \/ status' = [status EXCEPT ![p] = "DEAD"]
    BY <1>2, Zenon DEF Drain, Disconnect, ReadAck, Flush, WriteError
  <2> QED
    BY <2>1, SameThreads, DeliveryStutter, DeliveryBroken, Zenon
<1> QED
  BY <1>1, <1>2, Zenon

\* read_msg: a replica takes the next message of its stream.
LEMMA DeliveryReceive ==
  ASSUME DeliveryInv, TypeOK', NEW c \in Clients, Receive(c)
  PROVE  DeliveryInv'
<1> DEFINE m == out[c][got[c] + 1]
<1>1. /\ got[c] < flushed[c] /\ (Workers[c] = 1 => queue[c] = <<>>)
      /\ got' = [got EXCEPT ![c] = @ + 1]
      /\ IF IsOp(m) THEN queue' = [queue EXCEPT ![c] = Append(@, m)] ELSE queue' = queue
      /\ UNCHANGED <<pc, cur, pos, log, list, stage, status, since, out, applied>>
      /\ SameSenders
  BY SameThreads, ZenonT(30) DEF Receive, HasMail, NextMsg, IsOp
<1>2. /\ out[c] \in Seq(Msg) /\ got[c] \in Nat /\ got[c] < Len(out[c]) /\ m \in Msg
      /\ queue[c] \in Seq(Msg)
  BY <1>1, SMTT(30) DEF DeliveryInv, TypeOK, StreamOK, ReplicaOK, Peers
<1>3. /\ got'[c] = got[c] + 1
      /\ queue'[c] = IF IsOp(m) THEN Append(queue[c], m) ELSE queue[c]
      /\ \A d \in Clients \ {c} : got'[d] = got[d] /\ queue'[d] = queue[d]
  BY <1>1, SMTT(30) DEF DeliveryInv, TypeOK, StreamOK, ReplicaOK, Peers
<1>4. stage[c] \notin {"off", "open"}
  <2>1. out[c] # <<>>
    BY <1>2
  <2> QED
    BY <2>1, Zenon DEF DeliveryInv, Fresh
<1>5. Fresh'
  BY <1>1, <1>3, <1>4, Zenon DEF DeliveryInv, Fresh
<1>6. ASSUME c \in Inline
      PROVE  /\ queue[c] = <<>> /\ Done(c) = got[c]
             /\ IsOp(m) => queue'[c] = <<m>> /\ Done(c)' = got[c]
             /\ ~ IsOp(m) => queue'[c] = <<>> /\ Done(c)' = got[c] + 1
  <2>1. queue[c] = <<>>
    BY <1>1, <1>6, ZenonT(30) DEF Inline
  <2>2. IsOp(m) => queue'[c] = <<m>>
    <3> HIDE DEF m
    <3>1. Append(<<>>, m) = <<m>>
      BY <1>2
    <3> QED
      BY <1>3, <2>1, <3>1, Zenon
  <2>3. Done(c) = got[c]
    BY <2>1 DEF Done
  <2>4. IsOp(m) => queue'[c] # <<>> /\ Done(c)' = got[c]
    <3>1. <<m>> # <<>> /\ (got[c] + 1) - 1 = got[c]
      BY <1>2
    <3> QED
      BY <1>3, <2>2, <3>1, ZenonT(30) DEF Done
  <2>5. ~ IsOp(m) => queue'[c] = <<>> /\ Done(c)' = got[c] + 1
    BY <1>3, <2>1, Zenon DEF Done
  <2> QED
    BY <2>1, <2>2, <2>3, <2>4, <2>5, ZenonT(30)
<1>7. ReadOne'
  <2>1. ASSUME c \in Inline, queue'[c] # <<>>
        PROVE  /\ Len(queue'[c]) = 1 /\ got'[c] >= 1
               /\ queue'[c][1] = out[c][got'[c]] /\ IsOp(queue'[c][1])
    <3>1. Len(<<m>>) = 1 /\ <<m>>[1] = m /\ got[c] + 1 >= 1
      BY <1>2
    <3> QED
      BY <1>3, <1>6, <2>1, <3>1, Zenon
  <2> QED
    BY <1>1, <1>3, <2>1, ZenonT(30) DEF DeliveryInv, ReadOne, Inline
<1>8. c \in Inline => OpsIn(out[c], Done(c)') = OpsIn(out[c], Done(c))
  <2>1. ~ IsOp(m) => OpsIn(out[c], got[c] + 1) = OpsIn(out[c], got[c])
    <3>1. OpsIn(out[c], got[c] + 1) =
            OpsIn(out[c], got[c]) \cup (IF IsOp(m) THEN {m.op} ELSE {})
      BY <1>2, OpsInNext, ZenonT(30)
    <3> QED
      BY <3>1, Zenon
  <2> QED
    BY <1>6, <2>1, Zenon
<1>9. \A d \in Clients \ {c} : Done(d)' = Done(d)
  BY <1>3 DEF Done
<1>10. AppliedDone'
  <2>1. \A d \in Inline : OpsIn(out[d], Done(d)') = OpsIn(out[d], Done(d))
    BY <1>8, <1>9, Zenon DEF Inline
  <2> QED
    BY <1>1, <2>1, Zenon DEF DeliveryInv, AppliedDone
<1> QED
  BY <1>1, <1>5, <1>7, <1>10, DeliveryFrame, Zenon DEF DeliveryInv

\* A queue of one element is empty without it.
LEMMA WithoutOnly ==
  ASSUME NEW s \in Seq(Msg), Len(s) = 1
  PROVE  Without(s, 1) = <<>>
<1>1. SubSeq(s, 1, 0) = <<>> /\ SubSeq(s, 2, 1) = <<>>
  OBVIOUS
<1> QED
  BY <1>1 DEF Without

\* What a sequence holds once an element is appended.
LEMMA RangeAppend ==
  ASSUME NEW s \in Seq(Nat), NEW n \in Nat
  PROVE  Range(Append(s, n)) = Range(s) \cup {n}
<1>1. /\ DOMAIN Append(s, n) = 1 .. Len(s) + 1
      /\ \A i \in 1 .. Len(s) : Append(s, n)[i] = s[i]
      /\ Append(s, n)[Len(s) + 1] = n
      /\ DOMAIN s = 1 .. Len(s) /\ Len(s) \in Nat
  OBVIOUS
<1>2. \A i \in 1 .. Len(s) + 1 : i \in 1 .. Len(s) \/ i = Len(s) + 1
  BY <1>1
<1>3. 1 .. Len(s) \subseteq 1 .. Len(s) + 1 /\ Len(s) + 1 \in 1 .. Len(s) + 1
  BY <1>1
<1> QED
  BY <1>1, <1>2, <1>3, ZenonT(30) DEF Range

\* callback: a replica dispatches a message it has read.
LEMMA DeliveryExecute ==
  ASSUME DeliveryInv, TypeOK', NEW c \in Clients, NEW i \in DOMAIN queue[c], Execute(c, i)
  PROVE  DeliveryInv'
<1> DEFINE n == queue[c][i].op
<1>1. /\ i <= Workers[c]
      /\ applied' = [applied EXCEPT ![c] = Append(@, n)]
      /\ queue' = [queue EXCEPT ![c] = Without(@, i)]
      /\ UNCHANGED <<pc, cur, pos, log, list, stage, status, since, out, got>>
      /\ SameSenders
  BY SameThreads, ZenonT(30) DEF Execute
<1>2. /\ queue[c] \in Seq(Msg) /\ applied[c] \in Seq(Nat) /\ n \in Nat
      /\ out[c] \in Seq(Msg) /\ got[c] \in Nat /\ got[c] <= Len(out[c])
  <2>1. /\ queue[c] \in Seq(Msg) /\ applied[c] \in Seq(Nat)
        /\ out[c] \in Seq(Msg) /\ got[c] \in Nat /\ got[c] <= Len(out[c])
    BY SMTT(30) DEF DeliveryInv, TypeOK, ReplicaOK, StreamOK, Peers
  <2>2. queue[c][i] \in Msg
    BY <2>1, SMTT(30)
  <2> QED
    BY <2>1, <2>2, SMTT(30) DEF Msg
<1>3. /\ queue'[c] = Without(queue[c], i)
      /\ applied'[c] = Append(applied[c], n)
      /\ \A d \in Clients \ {c} : applied'[d] = applied[d] /\ queue'[d] = queue[d]
  BY <1>1 DEF DeliveryInv, TypeOK, ReplicaOK
<1>4. queue[c] # <<>>
  BY <1>2
<1>5. Fresh'
  BY <1>1, <1>3, <1>4, ZenonT(30) DEF DeliveryInv, Fresh
<1>6. ASSUME c \in Inline
      PROVE  /\ got[c] >= 1 /\ IsOp(out[c][got[c]]) /\ n = out[c][got[c]].op
             /\ Done(c) = got[c] - 1 /\ queue'[c] = <<>> /\ Done(c)' = got[c]
  <2>1. /\ Len(queue[c]) = 1 /\ got[c] >= 1
        /\ queue[c][1] = out[c][got[c]] /\ IsOp(queue[c][1])
    BY <1>4, <1>6, ZenonT(30) DEF DeliveryInv, ReadOne
  <2>2. i = 1
    BY <1>2, <2>1, SMTT(30)
  <2>3. queue'[c] = <<>>
    BY <1>2, <1>3, <2>1, <2>2, WithoutOnly, ZenonT(30)
  <2> QED
    BY <1>1, <1>4, <2>1, <2>2, <2>3 DEF Done
<1>7. ReadOne'
  BY <1>1, <1>3, <1>6, ZenonT(30) DEF DeliveryInv, ReadOne, Inline
<1>8. ASSUME c \in Inline
      PROVE  /\ Range(applied'[c]) = OpsIn(out[c], Done(c)')
             /\ \A a, b \in DOMAIN applied'[c] : a < b => applied'[c][a] < applied'[c][b]
  <2>1. OpsIn(out[c], got[c]) = OpsIn(out[c], got[c] - 1) \cup {n}
    <3>1. got[c] - 1 \in Nat /\ got[c] - 1 < Len(out[c]) /\ (got[c] - 1) + 1 = got[c]
      BY <1>2, <1>6, <1>8, SMTT(30)
    <3> QED
      BY <1>2, <1>6, <1>8, <3>1, OpsInNext, ZenonT(30)
  <2>2. /\ Range(applied[c]) = OpsIn(out[c], got[c] - 1)
        /\ \A a, b \in DOMAIN applied[c] : a < b => applied[c][a] < applied[c][b]
    BY <1>6, <1>8, Zenon DEF DeliveryInv, AppliedDone
  <2>3. Range(applied'[c]) = OpsIn(out[c], Done(c)')
    BY <1>2, <1>3, <1>6, <1>8, <2>1, <2>2, RangeAppend, ZenonT(30)
  <2>4. \A x \in OpsIn(out[c], got[c] - 1) : x < n
    <3>1. got[c] \in DOMAIN out[c]
      BY <1>2, <1>6, <1>8
    <3>2. \A j \in 1 .. got[c] - 1 : IsOp(out[c][j]) => out[c][j].op < n
      BY <1>6, <1>8, <3>1, Zenon DEF DeliveryInv, SentOrder
    <3> QED
      BY <3>2, ZenonT(30) DEF OpsIn
  <2>5. \A a \in DOMAIN applied[c] : applied[c][a] < n
    BY <2>2, <2>4, ZenonT(30) DEF Range
  <2>6. /\ DOMAIN applied'[c] = 1 .. Len(applied[c]) + 1
        /\ \A a \in 1 .. Len(applied[c]) : applied'[c][a] = applied[c][a]
        /\ applied'[c][Len(applied[c]) + 1] = n
        /\ DOMAIN applied[c] = 1 .. Len(applied[c]) /\ Len(applied[c]) \in Nat
    BY <1>2, <1>3
  <2>7. ASSUME NEW a \in 1 .. Len(applied[c]) + 1, NEW b \in 1 .. Len(applied[c]) + 1, a < b
        PROVE  applied'[c][a] < applied'[c][b]
    <3>1. a \in 1 .. Len(applied[c]) /\ (b \in 1 .. Len(applied[c]) \/ b = Len(applied[c]) + 1)
      BY <2>6, <2>7, SMTT(30)
    <3> QED
      BY <2>2, <2>5, <2>6, <2>7, <3>1, ZenonT(30)
  <2> QED
    BY <2>3, <2>6, <2>7, Zenon
<1>9. \A d \in Clients \ {c} : Done(d)' = Done(d)
  BY <1>1, <1>3 DEF Done
<1>10. AppliedDone'
  BY <1>1, <1>3, <1>8, <1>9, ZenonT(30) DEF DeliveryInv, AppliedDone, Inline
<1> QED
  BY <1>1, <1>5, <1>7, <1>10, DeliveryFrame, Zenon DEF DeliveryInv

-----------------------------------------------------------------------------
(* The theorem *)

\* The server starts with empty streams and no call under way.
LEMMA DeliveryInit == Init => DeliveryInv
<1> SUFFICES ASSUME Init PROVE DeliveryInv
  OBVIOUS
<1>1. TypeOK
  BY TypeInit
<1>2. Turn /\ Joined
  BY DEF Init, Turn, Joined
<1>3. Listing
  <2>1. /\ list = Boot /\ Boot \in Seq(Clients)
        /\ \A i, j \in DOMAIN Boot : Boot[i] = Boot[j] => i = j
    BY ConstantsAssumption DEF Init, IsInjective
  <2>2. \A p \in Peers : stage[p] = "listed" <=> p \in Range(Boot)
    BY DEF Init
  <2>3. \A p \in Peers : stage[p] # "harvested"
    BY SMTT(30) DEF Init
  <2> QED
    BY <2>1, <2>2, <2>3, SMTT(30) DEF Listing, Range
<1>4. \A c \in Clients : out[c] = <<>> /\ queue[c] = <<>> /\ applied[c] = <<>> /\ got[c] = 0
  BY SMTT(30) DEF Init, Peers
<1>5. log = <<>> /\ Ops = {}
  BY DEF Init, Ops
<1>6. Fresh
  BY <1>4, SMTT(30) DEF Fresh
<1>7. SentOrder /\ SentAll /\ SentOnce
  BY <1>4, <1>5, SMTT(30) DEF SentOrder, SentAll, SentOnce
<1>8. ReadOne
  BY <1>4, SMTT(30) DEF ReadOne, Inline
<1>9. AppliedDone
  BY <1>4 DEF AppliedDone, Inline, OpsIn, Done, Range
<1> QED
  BY <1>1, <1>2, <1>3, <1>6, <1>7, <1>8, <1>9 DEF DeliveryInv

\* Every step of workers, commands, replicas and the list keeps DeliveryInv.
LEMMA DeliveryNext == DeliveryInv /\ [Next]_vars => DeliveryInv'
<1> SUFFICES ASSUME DeliveryInv, [Next]_vars PROVE DeliveryInv'
  OBVIOUS
<1>1. TypeOK'
  BY TypeNext, Zenon DEF DeliveryInv
<1>2. CASE UNCHANGED vars
  BY <1>1, <1>2, SameThreads, DeliveryStutter, Zenon DEF vars
<1>3. ASSUME NEW t \in Threads, Call(t) \/ Work(t) \/ WaitTimeout(t) PROVE DeliveryInv'
  <2>1. ASSUME NEW c \in Clients, SendOp(t, c) PROVE DeliveryInv'
    <3>1. \/ WriteError(c)
          \/ \E flush \in BOOLEAN : Transmit(c, OpMsg(t, c), flush)
      <4>1. IsSync(c, KindOf(t)) \in BOOLEAN
        BY DEF IsSync
      <4> QED
        BY <2>1, <4>1, Zenon DEF SendOp
    <3> QED
      BY <1>1, <2>1, <3>1, DeliverySendFails, DeliverySend, Zenon
  <2> QED
    BY <1>1, <1>3, <2>1, DeliveryIdle, DeliveryLock, DeliverySkip, DeliverySendDone, Zenon
    DEF Work
<1>4. ASSUME NEW k \in Controls, Command(k) \/ CtlReceive(k) PROVE DeliveryInv'
  BY <1>1, <1>4, DeliveryCommand, Zenon
<1>5. ASSUME NEW p \in Peers,
             Connect(p) \/ Push(p) \/ ReadError(p) \/ Drain(p) \/ Disconnect(p)
      PROVE  DeliveryInv'
  BY <1>1, <1>5, DeliveryConnect, DeliveryPush, DeliveryPeer, Zenon
<1>6. ASSUME NEW c \in Clients, ReadAck(c) \/ Flush(c) \/ Receive(c) PROVE DeliveryInv'
  BY <1>1, <1>6, DeliveryPeer, DeliveryReceive, Zenon DEF Peers
<1>7. ASSUME NEW c \in Clients, NEW i \in DOMAIN queue[c], Execute(c, i) PROVE DeliveryInv'
  BY <1>1, <1>7, DeliveryExecute, Zenon
<1>8. CASE Harvest
  BY <1>1, <1>8, DeliveryHarvest, Zenon
<1>9. CASE Quiet
  BY <1>2, <1>9, Zenon DEF Quiet
<1> QED
  BY <1>2, <1>3, <1>4, <1>5, <1>6, <1>7, <1>8, <1>9, ZenonT(30) DEF Next

\* What a replica has dealt with is a prefix of what was sent to it.
LEMMA DeliveryPrefix == DeliveryInv => ReplicaPrefix
<1> SUFFICES ASSUME DeliveryInv, NEW c \in Inline
             PROVE  /\ \A i, j \in DOMAIN applied[c] : i < j => applied[c][i] < applied[c][j]
                    /\ \A n \in Range(applied[c]) :
                         /\ n \in Ops /\ Addressed(c, n)
                         /\ \A m \in 1 .. n : Addressed(c, m) => m \in Range(applied[c])
  BY Zenon DEF ReplicaPrefix
<1>1. /\ Range(applied[c]) = OpsIn(out[c], Done(c))
      /\ \A i, j \in DOMAIN applied[c] : i < j => applied[c][i] < applied[c][j]
  BY ZenonT(30) DEF DeliveryInv, AppliedDone
<1>2. c \in Clients /\ Done(c) \in 0 .. Len(out[c]) /\ DOMAIN out[c] = 1 .. Len(out[c])
  BY DEF DeliveryInv, ReadOne, TypeOK, StreamOK, Inline, Done, Peers
<1>3. ASSUME NEW n \in Range(applied[c])
      PROVE  /\ n \in Ops /\ Addressed(c, n)
             /\ \A m \in 1 .. n : Addressed(c, m) => m \in Range(applied[c])
  <2>1. PICK j \in 1 .. Done(c) : IsOp(out[c][j]) /\ n = out[c][j].op
    BY <1>1, <1>3, ZenonT(30) DEF OpsIn
  <2>2. j \in DOMAIN out[c] /\ 1 .. j \subseteq 1 .. Done(c)
    BY <1>2
  <2>3. OpsIn(out[c], j) \subseteq OpsIn(out[c], Done(c))
    BY <2>2, Zenon DEF OpsIn
  <2> QED
    BY <1>1, <1>2, <2>1, <2>2, <2>3, Zenon DEF DeliveryInv, SentOrder
<1> QED
  BY <1>1, <1>3, Zenon

\* However many workers, replicas and control programs there are, and however
\* connections break, an inline replica of process_ops has applied a prefix of
\* the operations pre_op meant for it, in the order they took CORK.
THEOREM PrefixCorrect == Spec => []ReplicaPrefix
<1>1. Init => DeliveryInv
  BY DeliveryInit
<1>2. DeliveryInv /\ [Next]_vars => DeliveryInv'
  BY DeliveryNext
<1>3. DeliveryInv => ReplicaPrefix
  BY DeliveryPrefix
<1> QED
  BY <1>1, <1>2, <1>3, PTL DEF Spec

=============================================================================
