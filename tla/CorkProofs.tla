----------------------------- MODULE CorkProofs -----------------------------
(***************************************************************************)
(* A replica that cork_server has passed has applied everything.           *)
(***************************************************************************)
EXTENDS DeliveryProofs

\* No worker is in the loop of pre_op while CORK is true.
CorkStops == cork => CorkFree

\* A cork that no uncork has undone keeps CORK true.
BarrierCorked == barrier # {} => cork

\* The replica owes nothing, or is dead.
Settled(c) == Alive(c) => Drained(c)

\* What a replica has read and not dispatched are operations of workers.
QueueTids ==
  \A c \in Clients : \A i \in DOMAIN queue[c] : queue[c][i].tid \in Threads

\* A reader thread exists once its peer has connected.
ReaderStarts == \A p \in Peers : stage[p] = "off" => rpc[p] = "off"

\* The reader thread of k has not read its command.
Early(k) == rpc[k] \in {"off", "cmd"}

\* Nothing that concerns c bears the thread id of k.
Unknown(c, k) ==
  /\ parked[c][k] = "absent"
  /\ \A i \in DOMAIN out[c] : out[c][i].type = "Cork" => out[c][i].tid # k
  /\ \A i \in DOMAIN back[c] : back[c][i].tid # k

\* A command is read once; before that nobody knows its reader thread.
OneCommand ==
  \A k \in Controls : Early(k) => \A c \in Clients : Unknown(c, k)

\* No operation follows the Cork of a standing barrier.
CorkLast ==
  \A k \in barrier : \A c \in Inline : \A i, j \in DOMAIN out[c] :
    out[c][i].type = "Cork" /\ out[c][i].tid = k /\ i < j => ~ IsOp(out[c][j])

\* An answer to the Cork of a standing barrier comes from a settled replica.
AnswerSettled ==
  \A k \in barrier : \A c \in Inline :
    /\ parked[c][k] = "ack" => Settled(c)
    /\ \A i \in DOMAIN back[c] : back[c][i].tid = k => Settled(c)

\* Only Drop for Client puts Dead into a slot.
DeadSlots ==
  \A c \in Clients : stage[c] # "harvested" => \A t \in Tids : parked[c][t] # "dead"

\* cork() waits for a replica.
Waiting ==
  \A k \in Controls : rpc[k] = "corkwait" =>
    rpos[k] \in DOMAIN list /\ list[rpos[k]] \in Clients

\* cork_server has passed the i-th peer.
Passed(k, i) ==
  rpc[k] = "corked" \/ (rpc[k] \in {"cork", "corkwait"} /\ i < rpos[k])

\* CorkBarrier: the replicas that a standing cork has passed are settled.
PassedSettled ==
  \A k \in barrier : \A i \in DOMAIN list :
    list[i] \in Inline /\ Passed(k, i) => Settled(list[i])

CorkInv ==
  /\ DeliveryInv /\ CorkStops /\ BarrierCorked /\ QueueTids /\ ReaderStarts
  /\ OneCommand /\ CorkLast /\ AnswerSettled /\ DeadSlots /\ Waiting /\ PassedSettled

-----------------------------------------------------------------------------
(* What a step leaves alone *)

\* Slots change only by being emptied, by a thread that has begun.
SlotsEmptied ==
  \A c \in Clients : \A t \in Tids :
    \/ parked'[c][t] = parked[c][t]
    \/ parked'[c][t] = "empty" /\ (t \in Controls => ~ Early(t))

\* No reader thread starts over.
ReadersGoOn ==
  \A p \in Peers : /\ Early(p)' => Early(p)
                   /\ stage'[p] = "off" /\ rpc[p] = "off" => rpc'[p] = "off"

\* What nobody knows stays unknown.
UnknownStays ==
  \A k \in Controls : \A c \in Clients :
    Early(k) /\ Unknown(c, k) => Unknown(c, k)'

\* What a step must leave alone for each conjunct of CorkInv to stay true.
LEMMA CorkFrame ==
  /\ CorkStops /\ UNCHANGED cork /\ (CorkFree => CorkFree') => CorkStops'
  /\ BarrierCorked /\ UNCHANGED <<cork, barrier>> => BarrierCorked'
  /\ QueueTids /\ UNCHANGED queue => QueueTids'
  /\ ReaderStarts /\ ReadersGoOn /\ UNCHANGED stage => ReaderStarts'
  /\ OneCommand /\ ReadersGoOn /\ UnknownStays => OneCommand'
  /\ CorkLast /\ UNCHANGED <<barrier, out>> => CorkLast'
  /\ DeadSlots /\ UNCHANGED stage /\ SlotsEmptied => DeadSlots'
  /\ Waiting /\ UNCHANGED <<rpc, rpos, list>> => Waiting'
  /\ SlotsEmptied /\ UNCHANGED <<out, back>> => UnknownStays
  /\ UNCHANGED rpc => ReadersGoOn
<1>1. CorkStops /\ UNCHANGED cork /\ (CorkFree => CorkFree') => CorkStops'
  BY DEF CorkStops
<1>2. BarrierCorked /\ UNCHANGED <<cork, barrier>> => BarrierCorked'
  BY DEF BarrierCorked
<1>3. QueueTids /\ UNCHANGED queue => QueueTids'
  BY DEF QueueTids
<1>4. ReaderStarts /\ ReadersGoOn /\ UNCHANGED stage => ReaderStarts'
  BY DEF ReaderStarts, ReadersGoOn
<1>5. OneCommand /\ ReadersGoOn /\ UnknownStays => OneCommand'
  BY Zenon DEF OneCommand, UnknownStays, ReadersGoOn, Peers
<1>6. CorkLast /\ UNCHANGED <<barrier, out>> => CorkLast'
  BY DEF CorkLast
<1>7. DeadSlots /\ UNCHANGED stage /\ SlotsEmptied => DeadSlots'
  BY DEF DeadSlots, SlotsEmptied
<1>8. Waiting /\ UNCHANGED <<rpc, rpos, list>> => Waiting'
  BY DEF Waiting
<1>9. SlotsEmptied /\ UNCHANGED <<out, back>> => UnknownStays
  BY DEF UnknownStays, Unknown, SlotsEmptied, Tids
<1>10. UNCHANGED rpc => ReadersGoOn
  BY DEF ReadersGoOn, Early
<1> QED
  BY <1>1, <1>2, <1>3, <1>4, <1>5, <1>6, <1>7, <1>8, <1>9, <1>10

\* Settled replicas stay so while no operation is added.
SettledStays == \A c \in Inline : Settled(c) => Settled(c)'

\* Answers and passed replicas stay settled when settled replicas do.
LEMMA SettledFrame ==
  /\ UNCHANGED <<log, since, status, applied>> => SettledStays
  /\ AnswerSettled /\ SettledStays /\ SlotsEmptied /\ barrier \subseteq Controls
       /\ UNCHANGED <<barrier, back>> => AnswerSettled'
  /\ PassedSettled /\ SettledStays /\ UNCHANGED <<barrier, list, rpc, rpos>>
       => PassedSettled'
<1>1. UNCHANGED <<log, since, status, applied>> => SettledStays
  BY DEF SettledStays, Settled, Alive, Drained, Ops, Addressed
<1>2. AnswerSettled /\ SettledStays /\ SlotsEmptied /\ barrier \subseteq Controls
        /\ UNCHANGED <<barrier, back>> => AnswerSettled'
  BY DEF AnswerSettled, SettledStays, SlotsEmptied, Inline, Tids
<1>3. PassedSettled /\ SettledStays /\ UNCHANGED <<barrier, list, rpc, rpos>>
        => PassedSettled'
  BY DEF PassedSettled, SettledStays, Passed
<1> QED
  BY <1>1, <1>2, <1>3

\* Without a standing cork there is nothing to show of it.
LEMMA NoBarrier ==
  barrier' = {} => BarrierCorked' /\ CorkLast' /\ AnswerSettled' /\ PassedSettled'
BY DEF BarrierCorked, CorkLast, AnswerSettled, PassedSettled

-----------------------------------------------------------------------------
(* FUSE workers *)

USE DEF threadVars, serverVars, readerVars, sendVars, replicaVars, peerVars,
        outside, serverSide

\* Of what CorkInv speaks of, at most slots are emptied.
LEMMA CorkStutter ==
  ASSUME CorkInv, DeliveryInv', CorkFree => CorkFree', SlotsEmptied,
         UNCHANGED <<cork, barrier, list, stage, rpc, rpos, out, back, queue, log,
                     since, status, applied>>
  PROVE  CorkInv'
<1>1. barrier \subseteq Controls
  BY Zenon DEF CorkInv, DeliveryInv, TypeOK, ServerOK
<1>2. SettledStays
  BY SettledFrame, Zenon
<1> QED
  BY <1>1, <1>2, CorkFrame, SettledFrame, Zenon DEF CorkInv

\* A slot that is left as it is, or one of a worker that is emptied.
LEMMA SlotsQuiet ==
  ASSUME TypeOK, NEW t \in Tids, t \in Controls => ~ Early(t), NEW c \in Clients,
         \/ UNCHANGED parked
         \/ parked' = [parked EXCEPT ![c][t] = "empty"]
         \/ Park(c, t)
  PROVE  SlotsEmptied
<1>1. parked \in [Clients -> [Tids -> {"absent", "empty", "ack", "dead"}]]
  BY Zenon DEF TypeOK, SlotOK
<1>3. CASE UNCHANGED parked
  BY <1>3 DEF SlotsEmptied
<1>4. CASE parked' = [parked EXCEPT ![c][t] = "empty"]
  BY <1>1, <1>4 DEF SlotsEmptied
<1>5. CASE Park(c, t)
  BY <1>1, <1>5 DEF SlotsEmptied, Park
<1> QED
  BY <1>3, <1>4, <1>5

\* The thread id of a worker is not the one of a reader thread.
LEMMA WorkerTid == \A t \in Threads : t \in Tids /\ t \notin Controls
BY ConstantsAssumption DEF Peers, Tids

\* A worker that sends nothing.
LEMMA CorkIdle ==
  ASSUME CorkInv, DeliveryInv', NEW t \in Threads,
         \/ Call(t) \/ LockCorked(t) \/ WriteJournal(t) \/ ApplyLocal(t) \/ WaitAnswer(t)
         \/ WaitTimeout(t) \/ Return(t) \/ SendDone(t)
         \/ \E p \in Peers : SendSkip(t, p)
  PROVE  CorkInv'
<1>1. pc \in [Threads -> Labels] /\ TypeOK
  BY SMTT(30) DEF CorkInv, DeliveryInv, TypeOK, ThreadOK
<1>2. UNCHANGED <<cork, barrier, list, stage, rpc, rpos, out, back, queue, log,
                  since, status, applied>>
  BY SMTT(30) DEF Call, LockCorked, WriteJournal, ApplyLocal, WaitAnswer, WaitTimeout, Return,
         SendDone, SendSkip
<1>3. \/ UNCHANGED pc
      \/ \E l \in Labels \ {"send"} : pc' = [pc EXCEPT ![t] = l]
  BY ZenonT(30) DEF Call, LockCorked, WriteJournal, ApplyLocal, WaitAnswer, WaitTimeout, Return,
         SendDone, SendSkip, Goto, Finish, Labels
<1>4. CorkFree => CorkFree'
  BY <1>1, <1>3 DEF CorkFree
<1>5. SlotsEmptied
  <2>1. CASE UNCHANGED parked
    BY <2>1 DEF SlotsEmptied
  <2>2. CASE WaitAnswer(t)
    <3>1. /\ waits[t] # <<>> /\ waits[t] \in Seq(Clients)
          /\ parked' = [parked EXCEPT ![Head(waits[t])][t] = "empty"]
      BY <1>1, <2>2 DEF WaitAnswer, TypeOK, ThreadOK
    <3>2. Head(waits[t]) \in Clients
      BY <3>1
    <3> QED
      BY <1>1, <3>1, <3>2, WorkerTid, SlotsQuiet, Zenon
  <2> QED
    BY <2>1, <2>2, Zenon DEF Call, LockCorked, WriteJournal, ApplyLocal, WaitTimeout,
                             Return, SendDone, SendSkip
<1> QED
  BY <1>2, <1>4, <1>5, CorkStutter, ZenonT(30)

\* pre_op gets past the flag only when it is false: no cork stands.
LEMMA CorkLock ==
  ASSUME CorkInv, DeliveryInv', NEW t \in Threads, NEW kind \in Kinds, Lock(t, kind)
  PROVE  CorkInv'
<1>1. /\ ~ cork /\ UNCHANGED <<cork, barrier, list, stage, rpc, rpos, parked, out, back,
                               queue>>
  BY Zenon DEF Lock
<1>2. barrier' = {} /\ CorkStops'
  BY <1>1, Zenon DEF CorkInv, BarrierCorked, CorkStops
<1>3. SlotsEmptied
  BY <1>1, Zenon DEF SlotsEmptied
<1> QED
  BY <1>1, <1>2, <1>3, NoBarrier, CorkFrame, Zenon DEF CorkInv

\* Where the elements of a sequence come from once one is appended.
LEMMA AppendParts ==
  ASSUME NEW S, NEW s \in Seq(S), NEW m \in S, NEW i \in DOMAIN Append(s, m)
  PROVE  \/ i \in DOMAIN s /\ Append(s, m)[i] = s[i]
         \/ i = Len(s) + 1 /\ Append(s, m)[i] = m
<1>1. i \in 1 .. Len(s) + 1 /\ Len(s) \in Nat /\ DOMAIN s = 1 .. Len(s)
  OBVIOUS
<1>2. CASE i = Len(s) + 1
  BY <1>2
<1>3. CASE i # Len(s) + 1
  <2>1. i \in 1 .. Len(s)
    BY <1>1, <1>3
  <2> QED
    BY <1>1, <2>1
<1> QED
  BY <1>2, <1>3

\* A message does not make a reader thread known before its command.
LEMMA UnknownWrite ==
  ASSUME TypeOK, NEW p \in Peers, NEW m \in Msg, SlotsEmptied,
         m.type = "Cork" => m.tid \in Controls /\ ~ Early(m.tid),
         out' = [out EXCEPT ![p] = Append(@, m)] \/ UNCHANGED out, UNCHANGED back
  PROVE  UnknownStays
<1>1. \A c \in Clients : /\ out[c] \in Seq(Msg)
                         /\ out'[c] = out[c] \/ out'[c] = Append(out[c], m)
  BY DEF TypeOK, StreamOK, Peers
<1>2. ASSUME NEW c \in Clients, NEW i \in DOMAIN out'[c]
      PROVE  (i \in DOMAIN out[c] /\ out'[c][i] = out[c][i]) \/ out'[c][i] = m
  <2>1. CASE out'[c] = out[c]
    BY <2>1
  <2>2. CASE out'[c] = Append(out[c], m)
    <3>1. out[c] \in Seq(Msg) /\ i \in DOMAIN Append(out[c], m)
      BY <1>1, <2>2, Zenon
    <3> QED
      BY <2>2, <3>1, AppendParts, ZenonT(30)
  <2> QED
    BY <1>1, <2>1, <2>2, Zenon
<1>3. ASSUME NEW c \in Clients, NEW k \in Controls, Early(k), parked[c][k] = "absent"
      PROVE  parked'[c][k] = "absent"
  BY <1>3, Zenon DEF SlotsEmptied, Tids
<1> QED
  BY <1>2, <1>3, ZenonT(30) DEF UnknownStays, Unknown

\* A worker that sends holds CORK: no cork stands.
LEMMA CorkSend ==
  ASSUME CorkInv, DeliveryInv', NEW t \in Threads, NEW c \in Clients, SendOp(t, c)
  PROVE  CorkInv'
<1>1. /\ pc[t] = "send" /\ UNCHANGED <<pc, cork, barrier, list, stage, rpc, rpos, back, queue>>
      /\ UNCHANGED parked \/ Park(c, t)
      /\ out' = [out EXCEPT ![c] = Append(@, OpMsg(t, c))] \/ UNCHANGED out
      /\ TypeOK /\ c \in Peers
  BY Zenon DEF SendOp, AtPeer, Transmit, WriteError, CorkInv, DeliveryInv, Peers
<1>2. ~ CorkFree /\ ~ cork
  BY <1>1, Zenon DEF CorkFree, CorkInv, CorkStops
<1>3. barrier' = {} /\ CorkStops'
  BY <1>1, <1>2, Zenon DEF CorkInv, BarrierCorked, CorkStops
<1>4. SlotsEmptied
  BY <1>1, WorkerTid, SlotsQuiet, ZenonT(30)
<1>5. OpMsg(t, c) \in Msg /\ OpMsg(t, c).type # "Cork"
  BY <1>1 DEF OpMsg, Msg, Tids, TypeOK, ThreadOK
<1>6. UnknownStays
  BY <1>1, <1>4, <1>5, UnknownWrite, Zenon
<1> QED
  BY <1>1, <1>3, <1>4, <1>6, NoBarrier, CorkFrame, Zenon DEF CorkInv

-----------------------------------------------------------------------------
(* Commands *)

\* A control's reader thread goes on, beyond the reading of its command.
LEMMA ReaderMoves ==
  ASSUME TypeOK, NEW k \in Controls, NEW l \in ReaderLabels \ {"off", "cmd"},
         rpc[k] # "off", rpc' = [rpc EXCEPT ![k] = l]
  PROVE  ReadersGoOn
<1>1. rpc \in [Peers -> ReaderLabels]
  BY Zenon DEF TypeOK, ReaderOK
<1> QED
  BY <1>1 DEF ReadersGoOn, Early, Peers

\* What is passed in the new state was passed before, or is settled.
PassedStays ==
  \A k \in barrier' : \A i \in DOMAIN list : list[i] \in Inline /\ Passed(k, i)' =>
    (k \in barrier /\ Passed(k, i)) \/ Settled(list[i])'

\* The replicas passed stay settled when a step passes no unsettled one.
LEMMA PassedFrame ==
  ASSUME PassedSettled, PassedStays, SettledStays, UNCHANGED list
  PROVE  PassedSettled'
BY DEF PassedSettled, PassedStays, SettledStays

\* cork_server sets CORK while no worker holds it.
LEMMA CorkBegins ==
  ASSUME CorkInv, DeliveryInv', NEW k \in Controls, CorkStart(k)
  PROVE  CorkInv'
<1>1. /\ rpc[k] = "cmd" /\ CorkFree /\ cork' = TRUE /\ barrier' = barrier \cup {k}
      /\ rpos' = [rpos EXCEPT ![k] = 1] /\ rpc' = [rpc EXCEPT ![k] = "cork"]
      /\ UNCHANGED <<pc, list, stage, parked, out, back, queue, log, since, status, applied>>
  BY Zenon DEF CorkStart, RGoto
<1>2. TypeOK /\ rpc \in [Peers -> ReaderLabels] /\ rpos \in [Controls -> Nat \ {0}]
      /\ list \in Seq(Peers)
  BY Zenon DEF CorkInv, DeliveryInv, TypeOK, ReaderOK, ServerOK
<1>3. CorkStops' /\ BarrierCorked'
  BY <1>1, Zenon DEF CorkStops, CorkFree, BarrierCorked
<1>4. ReadersGoOn
  BY <1>1, <1>2, ReaderMoves, ZenonT(30) DEF ReaderLabels
<1>5. SlotsEmptied /\ SettledStays
  BY <1>1, SettledFrame, Zenon DEF SlotsEmptied
<1>6. \A c \in Inline : Unknown(c, k)
  BY <1>1 DEF CorkInv, OneCommand, Early, Inline
<1>7. CorkLast'
  <2>1. \A c \in Inline : \A i \in DOMAIN out[c] : out[c][i].type = "Cork" => out[c][i].tid # k
    BY <1>6, Zenon DEF Unknown
  <2>2. CorkLast
    BY Zenon DEF CorkInv
  <2> QED
    BY <1>1, <2>1, <2>2 DEF CorkLast
<1>8. AnswerSettled'
  <2>1. ASSUME NEW c \in Inline
        PROVE  parked[c][k] # "ack" /\ \A i \in DOMAIN back[c] : back[c][i].tid # k
    BY <1>6 DEF Unknown
  <2> QED
    BY <1>1, <1>5, <2>1, ZenonT(30) DEF CorkInv, AnswerSettled, SettledStays
<1>9. \A j \in Controls \ {k} : rpc'[j] = rpc[j] /\ rpos'[j] = rpos[j]
  BY <1>1, <1>2 DEF Peers
<1>10. rpc'[k] = "cork" /\ rpos'[k] = 1
  BY <1>1, <1>2 DEF Peers
<1>11. Waiting'
  BY <1>1, <1>9, <1>10 DEF CorkInv, Waiting
<1>12. PassedStays
  <2>1. ASSUME NEW i \in DOMAIN list PROVE ~ Passed(k, i)'
    BY <1>2, <1>10 DEF Passed
  <2>2. barrier' \subseteq Controls
    BY DEF DeliveryInv, TypeOK, ServerOK
  <2> QED
    BY <1>1, <1>9, <2>1, <2>2 DEF PassedStays, Passed
<1>13. PassedSettled'
  BY <1>1, <1>5, <1>12, PassedFrame, Zenon DEF CorkInv
<1> QED
  BY <1>1, <1>3, <1>4, <1>5, <1>7, <1>8, <1>11, <1>13, CorkFrame, ZenonT(30) DEF CorkInv

\* A reader thread goes on without touching a peer. CorkDone is the only step
\* among these that passes peers, and it passes none that was not passed.
LEMMA CorkMoves ==
  ASSUME CorkInv, DeliveryInv', NEW k \in Controls,
         \/ CorkPanic(k) \/ CorkDone(k) \/ UncorkStart(k) \/ UncorkListDone(k)
  PROVE  CorkInv'
<1>1. UNCHANGED <<pc, cork, barrier, list, stage, parked, out, back, queue, log, since,
                  status, applied>>
  BY ZenonT(30) DEF CorkPanic, CorkDone, UncorkStart, UncorkListDone
<1>2. PICK l \in {"panicked", "corked", "uncork", "release"} :
        /\ rpc' = [rpc EXCEPT ![k] = l] /\ rpc[k] # "off"
        /\ l = "corked" => rpc[k] = "cork" /\ rpos[k] \notin DOMAIN list
        /\ UNCHANGED rpos \/ rpos' = [rpos EXCEPT ![k] = 1]
  BY DEF CorkPanic, CorkDone, UncorkStart, UncorkListDone, RGoto
<1>3. TypeOK /\ rpc \in [Peers -> ReaderLabels] /\ rpos \in [Controls -> Nat \ {0}]
      /\ list \in Seq(Peers) /\ barrier \subseteq Controls
  BY Zenon DEF CorkInv, DeliveryInv, TypeOK, ReaderOK, ServerOK
<1>4. ReadersGoOn
  BY <1>2, <1>3, ReaderMoves, ZenonT(30) DEF ReaderLabels
<1>5. SlotsEmptied /\ SettledStays
  BY <1>1, SettledFrame, Zenon DEF SlotsEmptied
<1>6. \A j \in Controls \ {k} : rpc'[j] = rpc[j] /\ rpos'[j] = rpos[j]
  BY <1>2, <1>3 DEF Peers
<1>7. rpc'[k] = l
  BY <1>2, <1>3 DEF Peers
<1>8. Waiting'
  BY <1>1, <1>6, <1>7 DEF CorkInv, Waiting
<1>9. ASSUME NEW i \in DOMAIN list, Passed(k, i)' PROVE Passed(k, i)
  BY <1>2, <1>3, <1>7, <1>9 DEF Passed
<1>10. PassedStays
  BY <1>1, <1>3, <1>6, <1>9 DEF PassedStays, Passed
<1>11. PassedSettled'
  BY <1>1, <1>5, <1>10, PassedFrame, Zenon DEF CorkInv
<1>12. CorkStops'
  BY <1>1, Zenon DEF CorkInv, CorkStops, CorkFree
<1> QED
  BY <1>1, <1>3, <1>4, <1>5, <1>8, <1>11, <1>12, CorkFrame, SettledFrame, ZenonT(30) DEF CorkInv

\* uncork_server undoes every cork.
LEMMA CorkReleased ==
  ASSUME CorkInv, DeliveryInv', NEW k \in Controls, Release(k)
  PROVE  CorkInv'
<1>1. /\ rpc[k] = "release" /\ cork' = FALSE /\ barrier' = {}
      /\ rpc' = [rpc EXCEPT ![k] = "uncorked"]
      /\ UNCHANGED <<list, stage, rpos, parked, out, back, queue>>
  BY Zenon DEF Release, RGoto
<1>2. TypeOK /\ rpc \in [Peers -> ReaderLabels]
  BY Zenon DEF CorkInv, DeliveryInv, TypeOK, ReaderOK
<1>3. ReadersGoOn
  BY <1>1, <1>2, ReaderMoves, ZenonT(30) DEF ReaderLabels
<1>4. SlotsEmptied /\ CorkStops'
  BY <1>1, Zenon DEF SlotsEmptied, CorkStops
<1>5. Waiting'
  BY <1>1, <1>2 DEF CorkInv, Waiting, Peers
<1> QED
  BY <1>1, <1>3, <1>4, <1>5, CorkFrame, NoBarrier, ZenonT(30) DEF CorkInv

\* cork() returns: the answer comes from a settled replica, and a slot that
\* Drop for Client has filled is not one of a listed replica.
LEMMA CorkAnswered ==
  ASSUME CorkInv, DeliveryInv', NEW k \in Controls, CorkAnswer(k)
  PROVE  CorkInv'
<1> DEFINE c == list[rpos[k]]
<1>1. /\ rpc[k] = "corkwait" /\ parked[c][k] \in {"ack", "dead"}
      /\ parked' = [parked EXCEPT ![c][k] = "empty"]
      /\ rpos' = [rpos EXCEPT ![k] = @ + 1] /\ rpc' = [rpc EXCEPT ![k] = "cork"]
      /\ UNCHANGED <<pc, cork, barrier, list, stage, out, back, queue, log, since,
                     status, applied>>
  BY Zenon DEF CorkAnswer, RGoto
<1>2. TypeOK /\ rpc \in [Peers -> ReaderLabels] /\ rpos \in [Controls -> Nat \ {0}]
      /\ list \in Seq(Peers) /\ barrier \subseteq Controls
  BY Zenon DEF CorkInv, DeliveryInv, TypeOK, ReaderOK, ServerOK
<1>3. c \in Clients /\ rpos[k] \in DOMAIN list
  BY <1>1, Zenon DEF CorkInv, Waiting
<1>4. ReadersGoOn
  BY <1>1, <1>2, ReaderMoves, ZenonT(30) DEF ReaderLabels
<1>5. SlotsEmptied
  <2>1. ~ Early(k) /\ k \in Tids
    BY <1>1 DEF Early, Tids
  <2> QED
    BY <1>1, <1>2, <1>3, <2>1, SlotsQuiet, Zenon
<1>6. SettledStays
  BY <1>1, SettledFrame, Zenon
<1>7. \A j \in Controls \ {k} : rpc'[j] = rpc[j] /\ rpos'[j] = rpos[j]
  BY <1>1, <1>2 DEF Peers
<1>8. rpc'[k] = "cork" /\ rpos'[k] = rpos[k] + 1
  BY <1>1, <1>2, SMTT(30) DEF Peers
<1>9. Waiting'
  BY <1>1, <1>7, <1>8 DEF CorkInv, Waiting
<1>10. k \in barrier /\ c \in Inline => Settled(c)
  <2>1. stage[c] = "listed" /\ k \in Tids
    BY <1>3 DEF CorkInv, DeliveryInv, Listing, Peers, Tids
  <2>2. parked[c][k] = "ack"
    BY <1>1, <1>3, <2>1, SMTT(30) DEF CorkInv, DeadSlots
  <2> QED
    BY <2>2, ZenonT(30) DEF CorkInv, AnswerSettled
<1>11. ASSUME NEW i \in DOMAIN list, Passed(k, i)' PROVE Passed(k, i) \/ list[i] = c
  BY <1>1, <1>2, <1>8, <1>11, SMTT(30) DEF Passed
<1>12. PassedStays
  <2> SUFFICES ASSUME NEW j \in barrier', NEW i \in DOMAIN list, list[i] \in Inline,
                      Passed(j, i)'
               PROVE  (j \in barrier /\ Passed(j, i)) \/ Settled(list[i])'
    BY DEF PassedStays
  <2>1. CASE j = k
    BY <1>1, <1>6, <1>10, <1>11, <2>1, ZenonT(30) DEF SettledStays
  <2>2. CASE j # k
    BY <1>1, <1>2, <1>7, <2>2 DEF Passed
  <2> QED
    BY <2>1, <2>2
<1>13. PassedSettled'
  BY <1>1, <1>6, <1>12, PassedFrame, Zenon DEF CorkInv
<1>14. CorkStops'
  BY <1>1, ZenonT(30) DEF CorkInv, CorkStops, CorkFree
<1> QED
  BY <1>1, <1>2, <1>4, <1>5, <1>6, <1>9, <1>13, <1>14, CorkFrame, SettledFrame, Zenon
     DEF CorkInv

\* Cork and Uncork are not operations.
LEMMA CorkLastWrite ==
  ASSUME TypeOK, CorkLast, UNCHANGED barrier, NEW p \in Peers, NEW m \in Msg, ~ IsOp(m),
         out' = [out EXCEPT ![p] = Append(@, m)] \/ UNCHANGED out
  PROVE  CorkLast'
<1>1. \A c \in Clients : /\ out[c] \in Seq(Msg)
                         /\ out'[c] = out[c] \/ out'[c] = Append(out[c], m)
  BY DEF TypeOK, StreamOK, Peers
<1>2. ASSUME NEW c \in Clients, NEW i \in DOMAIN out'[c], NEW j \in DOMAIN out'[c],
             i < j, IsOp(out'[c][j])
      PROVE  /\ i \in DOMAIN out[c] /\ out'[c][i] = out[c][i]
             /\ j \in DOMAIN out[c] /\ out'[c][j] = out[c][j]
  <2>1. CASE out'[c] = out[c]
    BY <1>2, <2>1
  <2>2. CASE out'[c] = Append(out[c], m)
    <3>1. out[c] \in Seq(Msg) /\ i \in DOMAIN Append(out[c], m) /\ j \in DOMAIN Append(out[c], m)
      BY <1>1, <1>2, <2>2, Zenon
    <3>2. j \in DOMAIN out[c] /\ Append(out[c], m)[j] = out[c][j]
      BY <1>2, <2>2, <3>1, AppendParts, ZenonT(30)
    <3>3. i # Len(out[c]) + 1
      BY <1>2, <3>1, <3>2
    <3>4. i \in DOMAIN out[c] /\ Append(out[c], m)[i] = out[c][i]
      BY <3>1, <3>3, AppendParts, Zenon
    <3> QED
      BY <2>2, <3>2, <3>4, Zenon
  <2> QED
    BY <1>1, <2>1, <2>2, ZenonT(30)
<1>3. SUFFICES ASSUME NEW k \in barrier', NEW c \in Inline, NEW i \in DOMAIN out'[c],
                      NEW j \in DOMAIN out'[c], out'[c][i].type = "Cork",
                      out'[c][i].tid = k, i < j, IsOp(out'[c][j])
               PROVE  FALSE
  BY Zenon DEF CorkLast, IsOp
<1>4. c \in Clients
  BY DEF Inline
<1>5. /\ i \in DOMAIN out[c] /\ out'[c][i] = out[c][i]
      /\ j \in DOMAIN out[c] /\ out'[c][j] = out[c][j]
  BY <1>2, <1>3, <1>4, ZenonT(30)
<1>6. IsOp(out[c][j])
  BY <1>3, <1>5 DEF IsOp
<1> QED
  BY <1>3, <1>5, <1>6 DEF CorkLast

\* A write that fails settles the peer: it is dead.
LEMMA SettledDead ==
  ASSUME TypeOK, NEW p \in Peers, UNCHANGED <<log, since, applied>>,
         UNCHANGED status \/ status' = [status EXCEPT ![p] = "DEAD"]
  PROVE  SettledStays
<1>1. status \in [Peers -> {"ALIVE", "DEAD"}]
  BY Zenon DEF TypeOK, StreamOK
<1>2. \A c \in Clients : Alive(c)' => Alive(c)
  BY <1>1 DEF Alive, Peers
<1>3. \A c \in Clients : Drained(c)' <=> Drained(c)
  BY DEF Drained, Ops, Addressed
<1> QED
  BY <1>2, <1>3, Zenon DEF SettledStays, Settled, Inline

\* Client::cork has a slot for its answer.
LEMMA CorkSlot ==
  ASSUME NEW k \in Controls, NEW p \in Peers, CorkPeer(k, p)
  PROVE  UNCHANGED parked \/ (p \in Clients /\ Park(p, k))
<1>1. CASE status[p] = "DEAD"
  BY <1>1, Zenon DEF CorkPeer
<1>2. CASE status[p] # "DEAD"
  <2>1. IF p \in Clients THEN Park(p, k) ELSE UNCHANGED parked
    BY <1>2, Zenon DEF CorkPeer
  <2> QED
    BY <2>1, Zenon
<1> QED
  BY <1>1, <1>2

\* Client::uncork waits for nothing.
LEMMA UncorkSlot ==
  ASSUME NEW k \in Controls, NEW p \in Peers, UncorkPeer(k, p)
  PROVE  UNCHANGED parked
BY Zenon DEF UncorkPeer

\* Client::cork and Client::uncork.
LEMMA CorkAtPeer ==
  ASSUME CorkInv, DeliveryInv', NEW k \in Controls, NEW p \in Peers,
         CorkPeer(k, p) \/ UncorkPeer(k, p)
  PROVE  CorkInv'
<1>1. /\ UNCHANGED <<pc, cork, barrier, list, stage, back, queue, log, since, applied>>
      /\ rpc[k] \in {"cork", "uncork"} /\ rpos[k] \in DOMAIN list /\ list[rpos[k]] = p
  BY ZenonT(30) DEF CorkPeer, UncorkPeer
<1>2. \/ /\ rpc[k] = "cork" /\ p \in Clients
         /\ rpc' = [rpc EXCEPT ![k] = "corkwait"] /\ UNCHANGED rpos
      \/ /\ UNCHANGED rpc /\ rpos' = [rpos EXCEPT ![k] = @ + 1]
         /\ \/ rpc[k] = "uncork" \/ p \notin Clients
            \/ status[p] = "DEAD" /\ UNCHANGED status
            \/ status' = [status EXCEPT ![p] = "DEAD"]
  BY Zenon DEF CorkPeer, UncorkPeer, RGoto, WriteError, Transmit
<1>3. UNCHANGED parked \/ (p \in Clients /\ Park(p, k))
  BY CorkSlot, UncorkSlot, Zenon
<1>4. \/ UNCHANGED out
      \/ out' = [out EXCEPT ![p] = Append(@, CorkMsg(k))]
      \/ out' = [out EXCEPT ![p] = Append(@, UncorkMsg(k))]
  BY Zenon DEF CorkPeer, UncorkPeer, WriteError, Transmit
<1>5. UNCHANGED status \/ status' = [status EXCEPT ![p] = "DEAD"]
  BY Zenon DEF CorkPeer, UncorkPeer, WriteError, Transmit
<1>6. TypeOK /\ rpc \in [Peers -> ReaderLabels] /\ rpos \in [Controls -> Nat \ {0}]
      /\ list \in Seq(Peers) /\ barrier \subseteq Controls
      /\ status \in [Peers -> {"ALIVE", "DEAD"}]
  BY Zenon DEF CorkInv, DeliveryInv, TypeOK, ReaderOK, ServerOK, StreamOK
<1>7. ReadersGoOn
  BY <1>1, <1>2, <1>6, ReaderMoves, CorkFrame DEF ReaderLabels
<1>8. ~ Early(k) /\ k \in Tids
  BY <1>1 DEF Early, Tids
<1>9. SlotsEmptied
  BY <1>3, <1>6, <1>8, SlotsQuiet, ZenonT(30) DEF SlotsEmptied
<1>10. /\ CorkMsg(k) \in Msg /\ UncorkMsg(k) \in Msg
       /\ ~ IsOp(CorkMsg(k)) /\ ~ IsOp(UncorkMsg(k))
       /\ CorkMsg(k).tid = k /\ UncorkMsg(k).tid = k
  BY DEF CorkMsg, UncorkMsg, Msg, IsOp, Tids
<1>11. UnknownStays
  <2>1. /\ UncorkMsg(k).type # "Cork"
        /\ UNCHANGED back /\ TypeOK
    BY <1>1, <1>6 DEF UncorkMsg
  <2>2. CASE UNCHANGED out
    BY <1>9, <2>1, <2>2, CorkFrame, ZenonT(30)
  <2>3. CASE out' = [out EXCEPT ![p] = Append(@, CorkMsg(k))]
    BY <1>8, <1>9, <1>10, <2>1, <2>3, UnknownWrite, ZenonT(30)
  <2>4. CASE out' = [out EXCEPT ![p] = Append(@, UncorkMsg(k))]
    BY <1>9, <1>10, <2>1, <2>4, UnknownWrite, ZenonT(30)
  <2> QED
    BY <1>4, <2>2, <2>3, <2>4, ZenonT(30)
<1>12. CorkLast'
  BY <1>1, <1>4, <1>6, <1>10, CorkLastWrite, ZenonT(30) DEF CorkInv
<1>13. SettledStays
  BY <1>1, <1>5, <1>6, SettledDead, ZenonT(30)
<1>14. \A j \in Controls \ {k} : rpc'[j] = rpc[j] /\ rpos'[j] = rpos[j]
  BY <1>2, <1>6, SMTT(30) DEF Peers
<1>15. \/ rpc'[k] = "corkwait" /\ rpc[k] = "cork" /\ p \in Clients /\ rpos'[k] = rpos[k]
       \/ /\ rpc'[k] = rpc[k] /\ rpos'[k] = rpos[k] + 1
          /\ rpc[k] = "uncork" \/ p \notin Clients \/ ~ Alive(p)'
  BY <1>2, <1>6, SMTT(30) DEF Peers, Alive
<1>16. Waiting'
  BY <1>1, <1>14, <1>15 DEF CorkInv, Waiting
<1>17. ASSUME NEW i \in DOMAIN list, Passed(k, i)', list[i] \in Inline
       PROVE  Passed(k, i) \/ Settled(list[i])'
  <2>1. Passed(k, i) \/ (list[i] = p /\ (p \notin Clients \/ ~ Alive(p)'))
    BY <1>1, <1>6, <1>15, <1>17, SMTT(30) DEF Passed
  <2> QED
    BY <1>1, <1>17, <2>1, ZenonT(30) DEF Settled, Inline
<1>18. PassedStays
  <2> SUFFICES ASSUME NEW j \in barrier', NEW i \in DOMAIN list, list[i] \in Inline,
                      Passed(j, i)'
               PROVE  (j \in barrier /\ Passed(j, i)) \/ Settled(list[i])'
    BY DEF PassedStays
  <2>1. CASE j = k
    BY <1>1, <1>17, <2>1, ZenonT(30)
  <2>2. CASE j # k
    BY <1>1, <1>6, <1>14, <2>2 DEF Passed
  <2> QED
    BY <2>1, <2>2, SMTT(30)
<1>19. PassedSettled'
  BY <1>1, <1>13, <1>18, PassedFrame, ZenonT(30) DEF CorkInv
<1>20. CorkStops'
  BY <1>1, Zenon DEF CorkInv, CorkStops, CorkFree
<1> QED
  BY <1>1, <1>6, <1>7, <1>9, <1>11, <1>12, <1>13, <1>16, <1>19, <1>20, CorkFrame,
     SettledFrame, ZenonT(30) DEF CorkInv

-----------------------------------------------------------------------------
(* Replicas and the network *)

\* Steps of peers that CorkInv does not notice.
LEMMA CorkPeerQuiet ==
  ASSUME CorkInv, DeliveryInv', NEW p \in Peers,
         Drain(p) \/ Disconnect(p) \/ (p \in Controls /\ CtlReceive(p))
  PROVE  CorkInv'
<1>1. UNCHANGED <<pc, cork, barrier, list, stage, rpc, rpos, parked, out, back, queue, log,
                  since, status, applied>>
  BY Zenon DEF Drain, Disconnect, CtlReceive
<1>2. SlotsEmptied /\ (CorkFree => CorkFree')
  BY <1>1, Zenon DEF SlotsEmptied, CorkFree
<1> QED
  BY <1>1, <1>2, CorkStutter, Zenon

\* flush_thread, whether the flush succeeds or marks the replica dead.
LEMMA CorkFlush ==
  ASSUME CorkInv, DeliveryInv', NEW c \in Clients, Flush(c)
  PROVE  CorkInv'
<1>1. /\ UNCHANGED status \/ status' = [status EXCEPT ![c] = "DEAD"]
      /\ UNCHANGED <<pc, cork, barrier, list, stage, rpc, rpos, parked, out, back, queue, log,
                     since, applied>>
  BY Zenon DEF Flush, WriteError
<1>2. TypeOK /\ barrier \subseteq Controls
  BY Zenon DEF CorkInv, DeliveryInv, TypeOK, ServerOK
<1>3. SlotsEmptied /\ (CorkFree => CorkFree')
  BY <1>1, Zenon DEF SlotsEmptied, CorkFree
<1>4. SettledStays
  BY <1>1, <1>2, SettledDead, ZenonT(30) DEF Peers
<1> QED
  BY <1>1, <1>2, <1>3, <1>4, CorkFrame, SettledFrame, ZenonT(30) DEF CorkInv

\* A reader thread that finds its peer gone marks it dead.
LEMMA CorkReadError ==
  ASSUME CorkInv, DeliveryInv', NEW p \in Peers, ReadError(p)
  PROVE  CorkInv'
<1>1. /\ rpc[p] \in {"read", "cmd", "corked", "uncorked"}
      /\ rpc' = [rpc EXCEPT ![p] = "gone"]
      /\ status' = [status EXCEPT ![p] = "DEAD"]
      /\ UNCHANGED <<pc, cork, barrier, list, stage, rpos, parked, out, back, queue, log,
                     since, applied>>
  BY Zenon DEF ReadError, RGoto
<1>2. TypeOK /\ rpc \in [Peers -> ReaderLabels] /\ barrier \subseteq Controls
  BY Zenon DEF CorkInv, DeliveryInv, TypeOK, ReaderOK, ServerOK
<1>3. \A q \in Peers : rpc'[q] = rpc[q] \/ (rpc'[q] = "gone" /\ rpc[q] # "off")
  <2>1. rpc[p] # "off"
    BY <1>1
  <2>2. \A q \in Peers : rpc'[q] = IF q = p THEN "gone" ELSE rpc[q]
    BY <1>1, <1>2, ZenonT(30)
  <2> QED
    BY <2>1, <2>2, ZenonT(30)
<1>4. ReadersGoOn
  BY <1>3 DEF ReadersGoOn, Early
<1>5. SlotsEmptied
  BY <1>1, Zenon DEF SlotsEmptied
<1>6. SettledStays
  BY <1>1, <1>2, SettledDead, ZenonT(30)
<1>7. Waiting'
  BY <1>1, <1>3, SMTT(30) DEF CorkInv, Waiting, Peers
<1>8. PassedStays
  BY <1>1, <1>2, <1>3 DEF PassedStays, Passed, Peers
<1>9. PassedSettled'
  BY <1>1, <1>6, <1>8, PassedFrame, ZenonT(30) DEF CorkInv
<1>10. CorkStops'
  BY <1>1, Zenon DEF CorkInv, CorkStops, CorkFree
<1> QED
  BY <1>1, <1>2, <1>4, <1>5, <1>6, <1>7, <1>9, <1>10, CorkFrame, SettledFrame, ZenonT(30)
     DEF CorkInv

\* Client::reader puts an answer into the slot of the thread it names.
LEMMA CorkReadAck ==
  ASSUME CorkInv, DeliveryInv', NEW c \in Clients, ReadAck(c)
  PROVE  CorkInv'
<1> DEFINE a == Head(back[c])
<1>1. /\ rpc[c] = "read" /\ back[c] # <<>> /\ back' = [back EXCEPT ![c] = Tail(@)]
      /\ UNCHANGED parked \/ parked' = [parked EXCEPT ![c][a.tid] = "ack"]
      /\ UNCHANGED <<pc, cork, barrier, list, stage, rpc, rpos, out, queue, log, since,
                     status, applied>>
  BY Zenon DEF ReadAck
<1>2. /\ back \in [Clients -> Seq(AckMsg)]
      /\ parked \in [Clients -> [Tids -> {"absent", "empty", "ack", "dead"}]]
      /\ barrier \subseteq Controls
  BY Zenon DEF CorkInv, DeliveryInv, TypeOK, ReplicaOK, SlotOK, ServerOK
<1>3. back[c] \in Seq(AckMsg) /\ 1 \in DOMAIN back[c] /\ a = back[c][1]
  BY <1>1, <1>2
<1>4. a.tid \in Tids
  <2>1. back[c][1] \in AckMsg
    BY <1>3
  <2> QED
    BY <1>3, <2>1, ZenonT(30) DEF AckMsg
<1>5. \A d \in Clients : \A i \in DOMAIN back'[d] :
        \E j \in DOMAIN back[d] : back'[d][i] = back[d][j]
  <2>1. \A i \in DOMAIN Tail(back[c]) : i + 1 \in DOMAIN back[c] /\ Tail(back[c])[i] = back[c][i + 1]
    BY <1>1, <1>3, SMTT(30)
  <2> QED
    BY <1>1, <1>2, <2>1, SMTT(30)
<1>6. \A d \in Clients : \A t \in Tids :
        parked'[d][t] = parked[d][t] \/ (d = c /\ t = a.tid /\ parked'[d][t] = "ack")
  BY <1>1, <1>2, <1>4, SMTT(30)
<1> HIDE DEF a
<1>7. UnknownStays
  BY <1>3, <1>5, <1>6, <1>1 DEF UnknownStays, Unknown, Tids
<1>8. SettledStays
  BY <1>1, SettledFrame, ZenonT(30)
<1>9. AnswerSettled'
  BY <1>1, <1>2, <1>3, <1>5, <1>6, <1>8, SMTT(30) DEF CorkInv, AnswerSettled, SettledStays, Inline, Tids
<1>10. DeadSlots'
  BY <1>1, <1>6 DEF CorkInv, DeadSlots
<1>11. CorkStops' /\ ReadersGoOn
  BY <1>1, CorkFrame, Zenon DEF CorkInv, CorkStops, CorkFree
<1> QED
  BY <1>1, <1>7, <1>8, <1>9, <1>10, <1>11, CorkFrame, SettledFrame, ZenonT(30) DEF CorkInv

\* A replica answers with a thread id; the step is sound when an answer that
\* names a control comes from a Cork sent to it, and settled.
LEMMA AnswerWrite ==
  ASSUME CorkInv, NEW c \in Clients, NEW a \in AckMsg, SettledStays,
         UNCHANGED <<barrier, parked, out>>,
         UNCHANGED back \/ back' = [back EXCEPT ![c] = Append(@, a)],
         \A k \in Controls : Early(k) => a.tid # k,
         a.tid \in barrier /\ c \in Inline => Settled(c)
  PROVE  UnknownStays /\ AnswerSettled'
<1>1. back \in [Clients -> Seq(AckMsg)] /\ barrier \subseteq Controls
  BY ZenonT(30) DEF CorkInv, DeliveryInv, TypeOK, ReplicaOK, ServerOK
<1>2. ASSUME NEW d \in Clients, NEW i \in DOMAIN back'[d]
      PROVE  \/ i \in DOMAIN back[d] /\ back'[d][i] = back[d][i]
             \/ d = c /\ back'[d][i] = a
  <2>1. CASE back'[d] = back[d]
    BY <2>1
  <2>2. CASE d = c /\ back'[d] = Append(back[d], a)
    <3>1. back[d] \in Seq(AckMsg) /\ i \in DOMAIN Append(back[d], a)
      BY <1>1, <2>2, Zenon
    <3>2. \/ i \in DOMAIN back[d] /\ Append(back[d], a)[i] = back[d][i]
          \/ Append(back[d], a)[i] = a
      BY <3>1, AppendParts, Zenon
    <3> QED
      BY <2>2, <3>2, Zenon
  <2> QED
    BY <1>1, <2>1, <2>2, SMTT(30)
<1>3. UnknownStays
  BY <1>2, ZenonT(30) DEF UnknownStays, Unknown
<1>4. AnswerSettled'
  BY <1>1, <1>2, SMTT(30) DEF CorkInv, AnswerSettled, SettledStays, Inline
<1> QED
  BY <1>3, <1>4

\* An inline replica that comes to the Cork of a standing barrier has applied
\* everything: nothing is left in its queue, no operation follows the Cork,
\* and no worker is still to send one.
LEMMA CorkReached ==
  ASSUME CorkInv, NEW c \in Inline, NEW k \in barrier, Receive(c),
         NextMsg(c).type = "Cork", NextMsg(c).tid = k
  PROVE  Settled(c)
<1> DEFINE n == got[c] + 1
<1>1. /\ c \in Clients /\ Workers[c] = 1 /\ queue[c] = <<>>
      /\ got[c] < flushed[c] /\ out[c][n].type = "Cork" /\ out[c][n].tid = k
  BY Zenon DEF Receive, HasMail, NextMsg, Inline
<1>2. out[c] \in Seq(Msg) /\ got[c] \in Nat /\ flushed[c] \in Nat /\ flushed[c] <= Len(out[c])
  BY <1>1, SMTT(30) DEF CorkInv, DeliveryInv, TypeOK, StreamOK, Peers
<1>3. n \in DOMAIN out[c] /\ out[c] # <<>>
  BY <1>1, <1>2
<1>4. SUFFICES ASSUME Alive(c) PROVE Drained(c)
  BY DEF Settled
<1>5. stage[c] = "listed"
  <2>1. stage[c] \in {"off", "open", "listed", "harvested"} /\ c \in Peers
    BY <1>1, SMTT(30) DEF CorkInv, DeliveryInv, TypeOK, ServerOK, Peers
  <2>2. stage[c] # "harvested"
    BY <1>4, <2>1 DEF CorkInv, DeliveryInv, Listing, Alive
  <2>3. stage[c] \notin {"off", "open"}
    BY <1>1, <1>3, Zenon DEF CorkInv, DeliveryInv, Fresh
  <2> QED
    BY <2>1, <2>2, <2>3, SMTT(30)
<1>6. \A m : ~ ToCome(c, m)
  <2>1. CorkFree
    BY Zenon DEF CorkInv, CorkStops, BarrierCorked
  <2> QED
    BY <2>1, Zenon DEF CorkFree, ToCome
<1>7. \A m \in Ops : Addressed(c, m) => m \in OpsIn(out[c], Len(out[c]))
  BY <1>1, <1>4, <1>5, <1>6, ZenonT(30) DEF CorkInv, DeliveryInv, SentAll
<1>8. Range(applied[c]) = OpsIn(out[c], got[c])
  BY <1>1, SMTT(30) DEF CorkInv, DeliveryInv, AppliedDone, Done
<1>9. \A j \in 1 .. Len(out[c]) : IsOp(out[c][j]) => j \in 1 .. got[c]
  <2>1. ASSUME NEW j \in 1 .. Len(out[c]), IsOp(out[c][j]) PROVE ~ (n < j)
    BY <1>1, <1>2, <1>3, <2>1, SMTT(30) DEF CorkInv, CorkLast
  <2>2. ~ IsOp(out[c][n])
    BY <1>1 DEF IsOp
  <2> QED
    BY <1>2, <2>1, <2>2, SMTT(30)
<1>10. OpsIn(out[c], Len(out[c])) \subseteq OpsIn(out[c], got[c])
  BY <1>9, Zenon DEF OpsIn
<1> QED
  BY <1>7, <1>8, <1>10, Zenon DEF Drained

\* process_ops reads a message.
LEMMA CorkReceive ==
  ASSUME CorkInv, DeliveryInv', NEW c \in Clients, Receive(c)
  PROVE  CorkInv'
<1> DEFINE m == NextMsg(c)
           a == [type |-> IF m.type = "Cork" THEN "AckCork" ELSE "Ack", tid |-> m.tid]
<1>1. /\ got[c] < flushed[c]
      /\ UNCHANGED <<pc, cork, barrier, list, stage, rpc, rpos, parked, out, log, since,
                     status, applied>>
  BY Zenon DEF Receive, HasMail
<1>2. UNCHANGED queue \/ (IsOp(m) /\ queue' = [queue EXCEPT ![c] = Append(@, m)])
  BY ZenonT(30) DEF Receive, IsOp
<1>3. \/ UNCHANGED back
      \/ /\ m.type \in {"Cork", "SyncOp"} /\ back' = [back EXCEPT ![c] = Append(@, a)]
  BY SMTT(30) DEF Receive, Reply
<1>4. /\ out[c] \in Seq(Msg) /\ got[c] \in Nat /\ flushed[c] \in Nat
      /\ flushed[c] <= Len(out[c])
  BY DEF CorkInv, DeliveryInv, TypeOK, StreamOK, Peers
<1>5. queue \in [Clients -> Seq(Msg)] /\ barrier \subseteq Controls
  BY ZenonT(30) DEF CorkInv, DeliveryInv, TypeOK, ReplicaOK, ServerOK
<1>6. got[c] + 1 \in DOMAIN out[c]
  BY <1>1, <1>4, SMTT(30)
<1>7. m \in Msg
  BY <1>4, <1>6, SMTT(30) DEF NextMsg
<1>8. IsOp(m) => m.tid \in Threads
  BY <1>6, Zenon DEF CorkInv, DeliveryInv, SentOrder, NextMsg
<1>9. m.type = "Cork" => \A k \in Controls : Early(k) => m.tid # k
  BY <1>6, Zenon DEF CorkInv, OneCommand, Unknown, NextMsg
<1>10. m.type = "Cork" /\ m.tid \in barrier /\ c \in Inline => Settled(c)
  BY CorkReached, Zenon
<1>11. m.type = "SyncOp" => IsOp(m)
  BY DEF IsOp
<1>12. a \in AckMsg /\ a.tid = m.tid
  BY <1>7 DEF AckMsg, Msg
<1> HIDE DEF m, a
<1>13. SettledStays
  BY <1>1, SettledFrame, Zenon
<1>14. UnknownStays /\ AnswerSettled'
  <2>1. CASE UNCHANGED back
    <3>1. SlotsEmptied
      BY <1>1, Zenon DEF SlotsEmptied
    <3> QED
      BY <1>1, <1>5, <1>13, <2>1, <3>1, CorkFrame, SettledFrame, ZenonT(30) DEF CorkInv
  <2>2. CASE m.type \in {"Cork", "SyncOp"} /\ back' = [back EXCEPT ![c] = Append(@, a)]
    <3>1. \A k \in Controls : Early(k) => a.tid # k
      BY <1>8, <1>9, <1>11, <1>12, <2>2, WorkerTid, SMTT(30)
    <3>2. a.tid \in barrier /\ c \in Inline => Settled(c)
      BY <1>5, <1>8, <1>10, <1>11, <1>12, <2>2, WorkerTid, SMTT(30)
    <3> QED
      BY <1>1, <1>12, <1>13, <2>2, <3>1, <3>2, AnswerWrite, ZenonT(30)
  <2> QED
    BY <1>3, <2>1, <2>2, ZenonT(30)
<1>15. QueueTids'
  <2>1. CASE UNCHANGED queue
    BY <2>1, CorkFrame, ZenonT(30) DEF CorkInv
  <2>2. CASE IsOp(m) /\ queue' = [queue EXCEPT ![c] = Append(@, m)]
    <3> SUFFICES ASSUME NEW d \in Clients, NEW i \in DOMAIN queue'[d]
                 PROVE  queue'[d][i].tid \in Threads
      BY DEF QueueTids
    <3>1. CASE d # c
      BY <1>5, <2>2, <3>1, SMTT(30) DEF CorkInv, QueueTids
    <3>2. CASE d = c
      <4>1. /\ queue'[d] = Append(queue[c], m) /\ queue[c] \in Seq(Msg)
            /\ i \in DOMAIN Append(queue[c], m)
        BY <1>5, <2>2, <3>2
      <4>2. \/ i \in DOMAIN queue[c] /\ Append(queue[c], m)[i] = queue[c][i]
            \/ Append(queue[c], m)[i] = m
        BY <1>7, <4>1, AppendParts, ZenonT(30)
      <4> QED
        BY <1>8, <2>2, <4>1, <4>2, SMTT(30) DEF CorkInv, QueueTids
    <3> QED
      BY <3>1, <3>2
  <2> QED
    BY <1>2, <2>1, <2>2, ZenonT(30)
<1>16. SlotsEmptied /\ ReadersGoOn /\ CorkStops'
  BY <1>1, CorkFrame, Zenon DEF CorkInv, CorkStops, CorkFree, SlotsEmptied
<1> QED
  BY <1>1, <1>13, <1>14, <1>15, <1>16, CorkFrame, SettledFrame, ZenonT(30) DEF CorkInv

\* What is left of a sequence are elements of it.
LEMMA WithoutFrom ==
  ASSUME NEW S, NEW s \in Seq(S), NEW i \in DOMAIN s
  PROVE  Without(s, i) \in Seq(S)
<1>1. SubSeq(s, 1, i - 1) \in Seq(S) /\ SubSeq(s, i + 1, Len(s)) \in Seq(S)
  OBVIOUS
<1> QED
  BY <1>1 DEF Without

\* callback applies an operation: that owes nobody anything new.
LEMMA CorkExecute ==
  ASSUME CorkInv, DeliveryInv', NEW c \in Clients, NEW i \in DOMAIN queue[c], Execute(c, i)
  PROVE  CorkInv'
<1> DEFINE m == queue[c][i]
           a == [type |-> "Ack", tid |-> m.tid]
           S == {x \in Msg : x.tid \in Threads}
<1>1. /\ applied' = [applied EXCEPT ![c] = Append(@, m.op)]
      /\ queue' = [queue EXCEPT ![c] = Without(@, i)]
      /\ UNCHANGED back \/ back' = [back EXCEPT ![c] = Append(@, a)]
      /\ UNCHANGED <<pc, cork, barrier, list, stage, rpc, rpos, parked, out, log, since,
                     status>>
  BY ZenonT(30) DEF Execute, Reply
<1>2. /\ queue \in [Clients -> Seq(Msg)] /\ barrier \subseteq Controls
      /\ applied \in [Clients -> Seq(Nat)]
  BY Zenon DEF CorkInv, DeliveryInv, TypeOK, ReplicaOK, ServerOK
<1>3. queue[c] \in Seq(Msg)
  BY <1>2, SMTT(30)
<1>4. m \in Msg /\ m.tid \in Threads /\ m.op \in Nat
  <2>1. queue[c][i] \in Msg
    BY <1>3
  <2>2. queue[c][i].tid \in Threads
    BY Zenon DEF CorkInv, QueueTids
  <2>3. queue[c][i].op \in Nat
    BY <2>1, SMTT(30) DEF Msg
  <2> QED
    BY <2>1, <2>2, <2>3, SMTT(30)
<1>5. a \in AckMsg /\ a.tid \in Threads
  BY <1>4, SMTT(30) DEF AckMsg, Tids
<1>6. QueueTids'
  <2>1. queue[c] \in Seq(S)
    <3>1. \A j \in DOMAIN queue[c] : queue[c][j] \in S
      BY <1>3 DEF CorkInv, QueueTids
    <3> HIDE DEF S
    <3> QED
      BY <1>3, <3>1
  <2>2. Without(queue[c], i) \in Seq(S)
    BY <2>1, WithoutFrom, ZenonT(30)
  <2>3. \A j \in DOMAIN Without(queue[c], i) : Without(queue[c], i)[j].tid \in Threads
    <3>1. \A j \in DOMAIN Without(queue[c], i) : Without(queue[c], i)[j] \in S
      BY <2>2
    <3> QED
      BY <3>1
  <2> QED
    BY <1>1, <1>2, <2>3 DEF CorkInv, QueueTids
<1> HIDE DEF m, a, S
<1>7. SettledStays
  <2>1. \A d \in Clients : Range(applied[d]) \subseteq Range(applied'[d])
    <3>1. Range(Append(applied[c], m.op)) = Range(applied[c]) \cup {m.op}
      BY <1>2, <1>4, RangeAppend, SMTT(30)
    <3>2. \A d \in Clients : applied'[d] = IF d = c THEN Append(applied[c], m.op) ELSE applied[d]
      BY <1>1, <1>2, Zenon
    <3> QED
      BY <3>1, <3>2, SMTT(30)
  <2> QED
    BY <1>1, <2>1, ZenonT(30) DEF SettledStays, Settled, Alive, Drained, Ops, Addressed, Inline
<1>8. UnknownStays /\ AnswerSettled'
  <2>1. \A k \in Controls : a.tid # k
    BY <1>5, WorkerTid
  <2>2. a.tid \notin barrier
    BY <1>2, <2>1
  <2> QED
    BY <1>1, <1>5, <1>7, <2>1, <2>2, AnswerWrite, ZenonT(30)
<1>9. SlotsEmptied /\ ReadersGoOn /\ CorkStops'
  BY <1>1, CorkFrame, Zenon DEF CorkInv, CorkStops, CorkFree, SlotsEmptied
<1> QED
  BY <1>1, <1>6, <1>7, <1>8, <1>9, CorkFrame, SettledFrame, ZenonT(30) DEF CorkInv

-----------------------------------------------------------------------------
(* SYNC_LIST *)

\* from_stream starts a reader thread.
LEMMA CorkConnect ==
  ASSUME CorkInv, DeliveryInv', NEW p \in Peers, Connect(p)
  PROVE  CorkInv'
<1>1. /\ stage[p] = "off" /\ stage' = [stage EXCEPT ![p] = "open"]
      /\ rpc' = [rpc EXCEPT ![p] = IF p \in Controls THEN "cmd" ELSE "read"]
      /\ UNCHANGED <<pc, cork, barrier, list, rpos, parked, out, back, queue, log, since,
                     status, applied>>
  BY Zenon DEF Connect, RGoto
<1>2. /\ stage \in [Peers -> {"off", "open", "listed", "harvested"}]
      /\ rpc \in [Peers -> ReaderLabels] /\ barrier \subseteq Controls
  BY Zenon DEF CorkInv, DeliveryInv, TypeOK, ReaderOK, ServerOK
<1>3. rpc[p] = "off"
  BY <1>1, ZenonT(30) DEF CorkInv, ReaderStarts
<1>4. \A q \in Peers : \/ q # p /\ rpc'[q] = rpc[q] /\ stage'[q] = stage[q]
                       \/ q = p /\ rpc'[q] \in {"cmd", "read"} /\ stage'[q] = "open"
  BY <1>1, <1>2, SMTT(30)
<1>5. ReaderStarts' /\ ReadersGoOn
  BY <1>3, <1>4 DEF CorkInv, ReaderStarts, ReadersGoOn, Early
<1>6. SlotsEmptied
  BY <1>1, Zenon DEF SlotsEmptied
<1>7. SettledStays
  BY <1>1, SettledFrame, ZenonT(30)
<1>8. DeadSlots'
  BY <1>1, <1>4, ZenonT(30) DEF CorkInv, DeadSlots, Peers
<1>9. Waiting'
  BY <1>1, <1>4 DEF CorkInv, Waiting, Peers
<1>10. PassedStays
  BY <1>1, <1>2, <1>4 DEF PassedStays, Passed, Peers
<1>11. PassedSettled'
  BY <1>1, <1>7, <1>10, PassedFrame, Zenon DEF CorkInv
<1>12. CorkStops'
  BY <1>1, ZenonT(30) DEF CorkInv, CorkStops, CorkFree
<1> QED
  BY <1>1, <1>2, <1>5, <1>6, <1>7, <1>8, <1>9, <1>11, <1>12, CorkFrame, SettledFrame, ZenonT(30)
     DEF CorkInv

\* With the write lock on SYNC_LIST, no cork() is under way.
LEMMA NoCorkUnderWay ==
  ASSUME ListFree, UNCHANGED <<rpc, rpos>>
  PROVE  /\ Waiting'
         /\ \A k \in Controls : \A i : Passed(k, i)' => rpc[k] = "corked"
         /\ \A k \in Controls : \A i : rpc[k] = "corked" => Passed(k, i)
BY DEF ListFree, Waiting, Passed

\* A replica that enters SYNC_LIST owes nothing yet.
LEMMA CorkPush ==
  ASSUME CorkInv, DeliveryInv', NEW p \in Peers, Push(p)
  PROVE  CorkInv'
<1>1. /\ stage[p] = "open" /\ ListFree /\ stage' = [stage EXCEPT ![p] = "listed"]
      /\ list' = Append(list, p) /\ since' = [since EXCEPT ![p] = Len(log)]
      /\ UNCHANGED <<pc, cork, barrier, rpc, rpos, parked, out, back, queue, log, status,
                     applied>>
  BY ZenonT(30) DEF Push
<1>2. /\ stage \in [Peers -> {"off", "open", "listed", "harvested"}]
      /\ list \in Seq(Peers) /\ since \in [Peers -> Nat] /\ barrier \subseteq Controls
      /\ Len(log) \in Nat
  BY DEF CorkInv, DeliveryInv, TypeOK, ServerOK, ThreadOK
<1>3. \A q \in Peers : \/ stage'[q] = stage[q]
                       \/ stage'[q] = "listed" /\ stage[q] = "open"
  BY <1>1, <1>2, SMTT(30)
<1>4. ReaderStarts' /\ DeadSlots'
  BY <1>1, <1>3 DEF CorkInv, ReaderStarts, DeadSlots, Peers
<1>5. SlotsEmptied /\ ReadersGoOn /\ CorkStops' /\ Waiting'
  BY <1>1, NoCorkUnderWay, CorkFrame, Zenon DEF CorkInv, CorkStops, CorkFree, SlotsEmptied
<1>6. p \in Clients => Drained(p)'
  <2>1. since'[p] = Len(log)
    BY <1>1, <1>2, SMTT(30)
  <2>2. \A n \in Ops' : ~ (since'[p] < n)
    BY <1>1, <1>2, <2>1 DEF Ops
  <2> QED
    BY <2>2, ZenonT(30) DEF Drained, Addressed
<1>7. SettledStays
  <2>1. \A c \in Clients : c # p => since'[c] = since[c]
    BY <1>1, <1>2 DEF Peers
  <2>2. \A c \in Clients : c # p => (Settled(c) => Settled(c)')
    BY <1>1, <2>1, ZenonT(30) DEF Settled, Alive, Drained, Ops, Addressed
  <2> QED
    BY <1>6, <2>2, ZenonT(30) DEF SettledStays, Settled, Inline
<1>8. PassedSettled'
  <2> SUFFICES ASSUME NEW k \in barrier', NEW i \in DOMAIN list', list'[i] \in Inline,
                      Passed(k, i)'
               PROVE  Settled(list[i])'
    BY Zenon DEF PassedSettled
  <2>1. k \in barrier /\ k \in Controls /\ Passed(k, i)
    BY <1>1, <1>2, NoCorkUnderWay, Zenon
  <2>2. \/ i \in DOMAIN list /\ list'[i] = list[i]
        \/ list'[i] = p
    BY <1>1, <1>2, AppendParts, ZenonT(30)
  <2>3. CASE i \in DOMAIN list /\ list'[i] = list[i]
    <3>1. Settled(list[i]) /\ list[i] \in Inline
      BY <2>1, <2>3, Zenon DEF CorkInv, PassedSettled
    <3> QED
      BY <1>7, <2>3, <3>1 DEF SettledStays
  <2>4. CASE list'[i] = p
    BY <1>6, <2>4, Zenon DEF Settled, Inline
  <2> QED
    BY <2>2, <2>3, <2>4
<1> QED
  BY <1>1, <1>2, <1>4, <1>5, <1>7, <1>8, CorkFrame, SettledFrame, ZenonT(30) DEF CorkInv

\* The harvester takes dead clients off SYNC_LIST and fills their slots.
LEMMA CorkHarvest ==
  ASSUME CorkInv, DeliveryInv', Harvest
  PROVE  CorkInv'
<1>1. /\ ListFree /\ RetainAlive
      /\ stage' = [p \in Peers |-> IF stage[p] = "listed" /\ ~ Alive(p)
                                   THEN "harvested" ELSE stage[p]]
      /\ parked' = [c \in Clients |-> [t \in Tids |->
                      IF stage[c] = "listed" /\ ~ Alive(c) /\ parked[c][t] # "absent"
                      THEN "dead" ELSE parked[c][t]]]
      /\ UNCHANGED <<pc, cork, barrier, rpc, rpos, out, back, queue, log, since, status,
                     applied>>
  BY Zenon DEF Harvest
<1>2. list \in Seq(Peers) /\ barrier \subseteq Controls
  BY ZenonT(30) DEF CorkInv, DeliveryInv, TypeOK, ServerOK
<1>3. \A p \in Peers : \/ stage'[p] = stage[p]
                       \/ stage'[p] = "harvested" /\ stage[p] = "listed"
  BY <1>1, SMTT(30)
<1>4. \A c \in Clients : \A t \in Tids :
        \/ parked'[c][t] = parked[c][t]
        \/ parked'[c][t] = "dead" /\ stage'[c] = "harvested" /\ parked[c][t] # "absent"
  BY <1>1, SMTT(30) DEF Peers
<1>5. ReaderStarts'
  BY <1>1, <1>3, SMTT(30) DEF CorkInv, ReaderStarts
<1>6. DeadSlots'
  BY <1>3, <1>4 DEF CorkInv, DeadSlots, Peers
<1>7. SettledStays /\ ReadersGoOn /\ CorkStops' /\ Waiting'
  BY <1>1, NoCorkUnderWay, CorkFrame, SettledFrame, ZenonT(30) DEF CorkInv, CorkStops, CorkFree
<1>8. UnknownStays
  BY <1>1, <1>4, ZenonT(30) DEF UnknownStays, Unknown, Tids
<1>9. AnswerSettled'
  <2> SUFFICES ASSUME NEW k \in barrier, NEW c \in Inline
               PROVE  /\ parked'[c][k] = "ack" => Settled(c)'
                      /\ \A i \in DOMAIN back[c] : back[c][i].tid = k => Settled(c)'
    BY <1>1, Zenon DEF AnswerSettled
  <2>1. /\ parked[c][k] = "ack" => Settled(c)
        /\ \A i \in DOMAIN back[c] : back[c][i].tid = k => Settled(c)
    BY Zenon DEF CorkInv, AnswerSettled
  <2>2. Settled(c) => Settled(c)'
    BY <1>7, Zenon DEF SettledStays
  <2>3. c \in Clients /\ k \in Tids
    BY <1>2 DEF Inline, Tids
  <2>4. parked'[c][k] = "ack" => parked[c][k] = "ack"
    BY <1>4, <2>3
  <2> QED
    BY <2>1, <2>2, <2>4, Zenon
<1>10. \A j \in DOMAIN list' : \E i \in DOMAIN list : list'[j] = list[i]
  BY <1>1, SMTT(30) DEF RetainAlive
<1>11. PassedSettled'
  <2> SUFFICES ASSUME NEW k \in barrier', NEW j \in DOMAIN list', list'[j] \in Inline,
                      Passed(k, j)'
               PROVE  Settled(list[j])'
    BY ZenonT(30) DEF PassedSettled
  <2>1. PICK i \in DOMAIN list : list'[j] = list[i]
    BY <1>10
  <2>2. k \in barrier /\ k \in Controls /\ Passed(k, i)
    BY <1>1, <1>2, NoCorkUnderWay, ZenonT(30)
  <2>3. Settled(list[i]) /\ list[i] \in Inline
    BY <2>1, <2>2, Zenon DEF CorkInv, PassedSettled
  <2> QED
    BY <1>7, <2>1, <2>3, SMTT(30) DEF SettledStays
<1> QED
  BY <1>1, <1>5, <1>6, <1>7, <1>8, <1>9, <1>11, CorkFrame, ZenonT(30) DEF CorkInv

-----------------------------------------------------------------------------
\* The server starts uncorked, with no command read.
LEMMA CorkInit == Init => CorkInv
<1> SUFFICES ASSUME Init PROVE CorkInv
  OBVIOUS
<1>1. DeliveryInv
  BY DeliveryInit, SMTT(30)
<1>2. cork = FALSE /\ barrier = {}
  BY SMTT(30) DEF Init
<1>3. CorkStops /\ BarrierCorked /\ CorkLast /\ AnswerSettled /\ PassedSettled
  BY <1>2, SMTT(30) DEF CorkStops, BarrierCorked, CorkLast, AnswerSettled, PassedSettled
<1>4. QueueTids /\ DeadSlots
  BY SMTT(30) DEF Init, QueueTids, DeadSlots
<1>5. ReaderStarts /\ Waiting
  BY SMTT(30) DEF Init, ReaderStarts, Waiting, Peers
<1>6. OneCommand
  BY DEF Init, OneCommand, Unknown, Tids, Peers
<1> QED
  BY <1>1, <1>3, <1>4, <1>5, <1>6, ZenonT(30) DEF CorkInv

\* Every step of workers, commands, replicas and the list keeps CorkInv.
LEMMA CorkNext == CorkInv /\ [Next]_vars => CorkInv'
<1> SUFFICES ASSUME CorkInv, [Next]_vars PROVE CorkInv'
  OBVIOUS
<1>1. DeliveryInv'
  BY DeliveryNext, Zenon DEF CorkInv
<1>2. ASSUME NEW t \in Threads, Call(t) \/ Work(t) \/ WaitTimeout(t) PROVE CorkInv'
  BY <1>1, <1>2, CorkIdle, CorkLock, CorkSend, ZenonT(30) DEF Work
<1>3. ASSUME NEW k \in Controls, Command(k) PROVE CorkInv'
  BY <1>1, <1>3, CorkBegins, CorkMoves, CorkReleased, CorkAnswered, CorkAtPeer, ZenonT(30)
     DEF Command
<1>4. ASSUME NEW k \in Controls, CtlReceive(k) PROVE CorkInv'
  BY <1>1, <1>4, CorkPeerQuiet, Zenon DEF Peers
<1>5. ASSUME NEW p \in Peers, Connect(p) \/ Push(p) \/ ReadError(p) \/ Drain(p) \/ Disconnect(p)
      PROVE  CorkInv'
  BY <1>1, <1>5, CorkConnect, CorkPush, CorkReadError, CorkPeerQuiet, ZenonT(30)
<1>6. ASSUME NEW c \in Clients, ReadAck(c) \/ Flush(c) \/ Receive(c) PROVE CorkInv'
  BY <1>1, <1>6, CorkReadAck, CorkFlush, CorkReceive, ZenonT(30)
<1>7. ASSUME NEW c \in Clients, NEW i \in DOMAIN queue[c], Execute(c, i) PROVE CorkInv'
  BY <1>1, <1>7, CorkExecute, Zenon
<1>8. CASE Harvest
  BY <1>1, <1>8, CorkHarvest, ZenonT(30)
<1>9. CASE UNCHANGED vars
  <2>1. UNCHANGED <<pc, cork, barrier, list, stage, rpc, rpos, parked, out, back, queue, log,
                    since, status, applied>>
    BY <1>9, Zenon DEF vars
  <2>2. SlotsEmptied /\ (CorkFree => CorkFree')
    BY <2>1, Zenon DEF SlotsEmptied, CorkFree
  <2> QED
    BY <1>1, <2>1, <2>2, CorkStutter, ZenonT(30)
<1>10. CASE Quiet
  BY <1>9, <1>10, Zenon DEF Quiet
<1> QED
  BY <1>2, <1>3, <1>4, <1>5, <1>6, <1>7, <1>8, <1>9, <1>10, ZenonT(30) DEF Next

\* Once cork_server has passed an inline replica that is alive, the replica has
\* applied every operation meant for it, until an uncork: for any number of
\* workers, replicas, commands and operations, with connections that break and
\* replicas that join or are harvested while the server is corked.
THEOREM CorkCorrect == Spec => []CorkBarrier
<1>1. Init => CorkInv
  BY CorkInit
<1>2. CorkInv /\ [Next]_vars => CorkInv'
  BY CorkNext
<1>3. CorkInv => CorkBarrier
  BY Zenon DEF CorkInv, PassedSettled, CorkBarrier, Passed, Settled
<1> QED
  BY <1>1, <1>2, <1>3, PTL DEF Spec

=============================================================================
