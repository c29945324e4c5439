------------------------------- MODULE Journal -------------------------------
(***************************************************************************)
(* The journal file of the server (journal/store.rs, opened by             *)
(* open_journal of server/mod.rs): a ring of blocks behind a header.       *)
(* Entries never span a block.  Offsets only grow; the place of an offset  *)
(* in the file is the offset modulo the ring size.  The header goes to the *)
(* file only when the tail moves to a new block, so an open has to find    *)
(* the tail by walking the entries from the header's tail on.              *)
(*                                                                         *)
(* The unit of space is abstract: W units stand for the 4 bytes of a u32   *)
(* field.  An entry of sz units begins with its size field (W units), its  *)
(* transaction number (W units) and goes on with content and checksum.     *)
(* A write call of the operating system is one step; the process may die   *)
(* between any two of them (Crash) and is started again (Reopen).          *)
(***************************************************************************)
EXTENDS Integers, Sequences, FiniteSets

CONSTANTS
  B,            \* BLOCK_SIZE
  W,            \* width of a u32 field in units of space
  NB,           \* blocks of the file when it is created
  Sizes,        \* numbers of blocks a server may be configured with
  TimeSize,     \* serialized size of a time entry
  TxMod,        \* 2^32, the range of trans_ctr
  FirstCtr,     \* trans_ctr of the first entry (0 in the code)
  Junk,         \* sizes that misaligned bytes may be read as
  MaxWrites,    \* bound: entries written in a behaviour
  Confs         \* settings a behaviour is run with, see conf

ASSUME SpaceAssumption ==
  /\ {B, W, NB, TimeSize, TxMod} \subseteq Nat \ {0}
  /\ NB \in Sizes /\ Sizes \subseteq Nat \ {0}
  /\ \A c \in Confs : \A s \in c.payloads \cup {TimeSize} : 3 * W <= s /\ s < B

VARIABLES
  conf,    \* payloads: serialized sizes of payload entries; crashes: their bound
  pc,      \* what the process is doing with the journal
  nblk,    \* size of the ring in blocks
  head, tail, ctr,  \* Journal.header in memory
  hdr,     \* the header in the file
  disk,    \* the ring in the file
  queue,   \* write_inner calls that the running write_entry has still to make
  rec,     \* new_tail and tx_max of a running open
  log,     \* history: every entry whose write was completed, with its offset
  stale,   \* history: an open took bytes that no completed entry put there
  crashes  \* history: number of crashes

vars == <<conf, pc, nblk, head, tail, ctr, hdr, disk, queue, rec, log, stale, crashes>>
memory == <<head, tail, ctr>>
file == <<nblk, hdr, disk>>

PayloadSizes == conf.payloads
MaxCrashes == conf.crashes

(* A cell of the ring: unit k of entry number n; n = 0 is a zero byte. *)
Zero == [n |-> 0, k |-> 0, sz |-> 0, tx |-> 0]
Cells(e) == [k \in 0..e.sz - 1 |-> [n |-> e.n, k |-> k, sz |-> e.sz, tx |-> e.tx]]

Up(off) == (off \div B + 1) * B
Down(off) == off - (off % B)
Off(off) == off % (nblk * B)

(* write_all_at: c at the place of offset off.  Bytes past the ring are the
   unused rest of the file and read as zero. *)
Put(d, off, c) ==
  [i \in DOMAIN d |-> IF i - Off(off) \in DOMAIN c THEN c[i - Off(off)] ELSE d[i]]
Cell(off, i) == IF Off(off) + i \in DOMAIN disk THEN disk[Off(off) + i] ELSE Zero
ZeroSize == [k \in 0..W - 1 |-> Zero]

(* The values a u32 read at unit k of the entry assumed at off may have:
   exact on the bytes of one entry in place, anything in other on bytes
   that belong to several entries or lie elsewhere in one. *)
Field(off, k, name, other) ==
  LET c == [i \in 0..W - 1 |-> Cell(off, k + i)] IN
  IF \A i \in DOMAIN c : c[i].n = 0 THEN {0}
  ELSE IF \A i \in DOMAIN c : c[i].n = c[0].n /\ c[i].k = k + i
       THEN {c[0][name]} ELSE other

FSize(off) == Field(off, 0, "sz", Junk)
TransId(off) == Field(off, W, "tx", 0..TxMod - 1)

-----------------------------------------------------------------------------

Blank == [head |-> 0, tail |-> 0, ctr |-> 0, ty |-> "Invalid"]

Init ==
  /\ conf \in Confs
  /\ pc = "open" /\ nblk = NB
  /\ head = 0 /\ tail = 0 /\ ctr = FirstCtr
  /\ hdr = Blank
  /\ disk = [i \in 0..NB * B - 1 |-> Zero]
  /\ queue = <<>> /\ rec = [tail |-> 0, tx |-> 0]
  /\ log = <<>> /\ stale = FALSE /\ crashes = 0

(* write_entry: a time entry goes first when the last one is old. *)
WriteEntry(s, timed) ==
  /\ pc = "open" /\ Len(log) + 2 <= MaxWrites
  /\ queue' = (IF timed THEN <<TimeSize>> ELSE <<>>) \o <<s>>
  /\ pc' = "inner"
  /\ UNCHANGED <<memory, file, rec, log, stale, crashes, conf>>

Space == Up(tail) - tail

WriteZeroDropped ==
  /\ pc = "inner" /\ Space < Head(queue)
  /\ pc' = "switch"
  /\ UNCHANGED <<memory, file, queue, rec, log, stale, crashes, conf>>

(* write_inner, entry does not fit: the zero size that ends the block. *)
WriteZero ==
  /\ pc = "inner" /\ Space < Head(queue)
  /\ disk' = IF Space >= W THEN Put(disk, tail, ZeroSize) ELSE disk
  /\ pc' = "switch"
  /\ UNCHANGED <<memory, nblk, hdr, queue, rec, log, stale, crashes, conf>>

HeadAfter(t) == IF head + nblk * B = t THEN head + B ELSE head

SwitchBlockHeaderFirst ==
  /\ pc = "switch"
  /\ tail' = Up(tail)
  /\ head' = HeadAfter(tail')
  /\ hdr' = [head |-> head', tail |-> tail, ctr |-> ctr, ty |-> "Forward"]
  /\ pc' = "data"
  /\ UNCHANGED <<ctr, nblk, disk, queue, rec, log, stale, crashes, conf>>

(* write_inner, entry does not fit: next block, head out of the way, header. *)
SwitchBlock ==
  /\ pc = "switch"
  /\ tail' = Up(tail)
  /\ head' = HeadAfter(tail')
  /\ hdr' = [head |-> head', tail |-> tail', ctr |-> ctr, ty |-> "Forward"]
  /\ pc' = "data"
  /\ UNCHANGED <<ctr, nblk, disk, queue, rec, log, stale, crashes, conf>>

NewEntry == [n |-> Len(log) + 1, sz |-> Head(queue), tx |-> ctr]

(* write_inner: the entry itself. *)
WriteData ==
  /\ pc = "data" \/ (pc = "inner" /\ Space >= Head(queue))
  /\ disk' = Put(disk, tail, Cells(NewEntry))
  /\ log' = Append(log, [off |-> tail, e |-> NewEntry])
  /\ tail' = tail + Head(queue)
  /\ ctr' = (ctr + 1) % TxMod
  /\ queue' = Tail(queue)
  /\ pc' = IF queue' = <<>> THEN "open" ELSE "inner"
  /\ UNCHANGED <<head, nblk, hdr, rec, stale, crashes, conf>>

(* The process dies: what was in memory is gone, the file is as written. *)
Crash ==
  /\ pc \in {"open", "inner", "switch", "data", "recover"} /\ crashes < MaxCrashes
  /\ pc' = "down" /\ crashes' = crashes + 1
  /\ head' = 0 /\ tail' = 0 /\ ctr' = 0
  /\ queue' = <<>> /\ rec' = [tail |-> 0, tx |-> 0]
  /\ UNCHANGED <<file, log, stale, conf>>

(* open_journal on a file that exists: refused when it is smaller than the
   configured size, otherwise cut to that size; then open reads the header. *)
Resize(n) == [i \in 0..n * B - 1 |-> disk[i]]

Reopen(n) ==
  /\ pc = "down"
  /\ UNCHANGED <<memory, hdr, queue, log, stale, crashes, conf>>
  /\ \/ nblk < n /\ pc' = "panicked" /\ UNCHANGED <<nblk, disk, rec>>
     \/ nblk >= n /\ nblk' = n /\ disk' = Resize(n)
        /\ \/ hdr.ty # "Forward" /\ pc' = "refused" /\ UNCHANGED rec
           \/ hdr.ty = "Forward" /\ pc' = "recover"
              /\ rec' = [tail |-> hdr.tail, tx |-> hdr.ctr - 1]

(* A server that did not start is started again with another size. *)
Retry ==
  /\ pc = "panicked" /\ pc' = "down"
  /\ UNCHANGED <<memory, file, queue, rec, log, stale, crashes, conf>>

RecoveredShort(t, tx) ==
  /\ pc' = "open" /\ head' = hdr.head /\ tail' = t /\ ctr' = tx % TxMod
  /\ rec' = [tail |-> 0, tx |-> 0]

(* open, the end of the walk: tail and trans_ctr as found. *)
Recovered(t, tx) ==
  /\ pc' = "open" /\ head' = hdr.head /\ tail' = t /\ ctr' = (tx + 1) % TxMod
  /\ rec' = [tail |-> 0, tx |-> 0]

WalkOver ==
  \/ rec.tail > Up(hdr.tail)
  \/ Up(rec.tail) - rec.tail < W

Fresh(off) == \E i \in DOMAIN log : log[i].off = off

StepForgotten(f, t) == rec' = rec /\ UNCHANGED <<pc, memory>>
Step(f, t) == rec' = [tail |-> rec.tail + f, tx |-> t] /\ UNCHANGED <<pc, memory>>

MismatchRestart(f) == Recovered(hdr.tail, rec.tx)
Mismatch(f) == Recovered(rec.tail + f, rec.tx)

(* open, one turn of the walk: the size found is added before the
   transaction number is looked at. *)
Walk ==
  /\ pc = "recover"
  /\ UNCHANGED <<file, queue, log, crashes, conf>>
  /\ \/ /\ WalkOver \/ 0 \in FSize(rec.tail)
        /\ Recovered(rec.tail, rec.tx) /\ UNCHANGED stale
     \/ /\ ~WalkOver
        /\ stale' = (stale \/ ~Fresh(rec.tail))
        /\ \E f \in FSize(rec.tail) \ {0}, t \in TransId(rec.tail) :
             \/ t # (rec.tx + 1) % TxMod /\ Mismatch(f)
             \/ t = (rec.tx + 1) % TxMod /\ Step(f, t)

Next ==
  \/ \E s \in PayloadSizes, timed \in BOOLEAN : WriteEntry(s, timed)
  \/ WriteZero \/ SwitchBlock \/ WriteData
  \/ Crash \/ Retry \/ Walk
  \/ \E n \in Sizes : Reopen(n)

Spec == Init /\ [][Next]_vars
FairSpec == Spec /\ WF_vars(Walk)
=============================================================================
