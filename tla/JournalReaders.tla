--------------------------- MODULE JournalReaders ----------------------------
(***************************************************************************)
(* The two iterators over a journal (journal/store.rs) and what they and   *)
(* the recovery of Journal have to deliver.  An iterator borrows the       *)
(* journal, so no write runs while it is used: each is the sequence of     *)
(* entries it returns from a copy of the header, followed by Err when it   *)
(* stops on an error or runs past the tail.                                *)
(***************************************************************************)
EXTENDS Journal, SequencesExt

Err == [n |-> -1, sz |-> 0, tx |-> 0]

(* The entry whose bytes lie in place at off, Err when there is none. *)
EntryAt(off) ==
  LET c == Cell(off, 0)
      e == [n |-> c.n, sz |-> c.sz, tx |-> c.tx] IN
  IF c.n # 0 /\ \A k \in 0..c.sz - 1 : Cell(off, k) = Cells(e)[k] THEN e ELSE Err

ZeroAt(off) == \A k \in 0..W - 1 : Cell(off, k).n = 0

(* JournalIterator<Forward>::next: skip the rest of a block that is too
   short or begins with a zero size, then take the entry. *)
ForwardPos(h) == IF Up(h) - h < W \/ ZeroAt(h) THEN Up(h) ELSE h

RECURSIVE ForwardFrom(_, _)
ForwardFrom(h, out) ==
  LET e == EntryAt(ForwardPos(h)) IN
  IF h = tail THEN out
  ELSE IF e = Err \/ Len(out) > MaxWrites THEN Append(out, Err)
  ELSE ForwardFrom(ForwardPos(h) + e.sz, Append(out, e))

ReadForward == ForwardFrom(head, <<>>)

(* JournalIterator<Reverse>::next, the loop that decodes one block up to t. *)
RECURSIVE DecodeBlock(_, _, _)
DecodeBlock(d, t, out) ==
  LET e == EntryAt(d) IN
  IF t - d < W \/ ZeroAt(d) THEN out
  ELSE IF e = Err \/ e.sz > Up(d) - d THEN Append(out, Err)
  ELSE DecodeBlock(d + e.sz, t, Append(out, e))

(* The block that a Reverse iterator at t decodes. *)
BlockOf(t) == IF t % B # 0 THEN Down(t) ELSE t - B

(* The entries a Reverse iterator returns, block by block.  A block without
   entries ends it. *)
RECURSIVE ReverseFrom(_)
ReverseFrom(t) ==
  LET block == DecodeBlock(BlockOf(t), t, <<>>) IN
  IF t = head \/ t = 0 \/ block = <<>> THEN <<>>
  ELSE IF Last(block) = Err THEN <<Err>>
  ELSE Reverse(block) \o ReverseFrom(BlockOf(t))

ReadReverse == ReverseFrom(tail)

-----------------------------------------------------------------------------

TypeOK ==
  /\ pc \in {"open", "inner", "switch", "data", "down", "panicked", "refused", "recover"}
  /\ conf \in Confs /\ nblk \in Sizes
  /\ {head, tail, rec.tail} \subseteq Nat /\ ctr \in 0..TxMod - 1
  /\ hdr.head % B = 0 /\ hdr.tail % B = 0 /\ head % B = 0
  /\ DOMAIN disk = 0..nblk * B - 1
  /\ queue \in Seq(PayloadSizes \cup {TimeSize})
  /\ stale \in BOOLEAN

(* The entries that have not been given up to make room. *)
Retained == LET kept == SelectSeq(log, LAMBDA r : r.off >= head)
            IN [i \in DOMAIN kept |-> kept[i].e]

(* Some entry ended exactly at the end of its block. *)
FilledABlock == \E i \in DOMAIN log : (log[i].off + log[i].e.sz) % B = 0

(* The block of the header's tail held entries of an earlier lap. *)
Lapped == hdr.tail >= nblk * B

(* The tail is at a block that has been entered but not written to: the
   process died between write_header and the write of the entry. *)
AtGap == tail # head /\ tail % B = 0 /\ ~FilledABlock

(* journal/store.rs, Forward::next after any number of writes, laps and
   restarts: it returns the retained entries, oldest first, and stops. *)
ForwardReads ==
  pc = "open" /\ ~stale /\ ~FilledABlock /\ ~AtGap => ReadForward = Retained

(* journal/store.rs, Reverse::next: the same entries, newest first, also when
   a crash left the tail at the start of an empty block. *)
ReverseReads ==
  pc = "open" /\ ~stale /\ ~FilledABlock => ReadReverse = Reverse(Retained)

(* Until the ring is full an entry that fills its block does no harm to the
   readers: the next block starts where it ends. *)
FilledBlockReads ==
  pc = "open" /\ crashes = 0 /\ tail <= nblk * B =>
    ReadForward = Retained /\ ReadReverse = Reverse(Retained)

(* journal/store.rs, both iterators: what is read back, in either direction,
   is what was written and has not been given up to make room. *)
ReadersExact == ForwardReads /\ ReverseReads /\ FilledBlockReads

EndOf(r) == r.off + r.e.sz

(* Journal::open after a crash between any two writes, before the ring has
   been lapped: the recovered tail is behind every completed entry with
   nothing but the unused end of a block in between, and the next transaction
   number is the one after the last entry, modulo 2^32. *)
RecoveryExact ==
  [][ pc = "recover" /\ pc' = "open" /\ ~Lapped /\ ~FilledABlock /\ log # <<>> =>
        /\ tail' \in {EndOf(Last(log)), Up(EndOf(Last(log)))}
        /\ ctr' = (Last(log).e.tx + 1) % TxMod ]_vars

(* Journal::open loses no completed entry when the ring has been lapped: the
   walk may go too far over old bytes, but never stops short of the end. *)
RecoveryKeeps ==
  [][ pc = "recover" /\ pc' = "open" /\ ~stale /\ ~FilledABlock /\ log # <<>> =>
        tail' >= EndOf(Last(log)) ]_vars

(* The walk of Journal::open ends. *)
RecoveryEnds == pc = "recover" ~> pc # "recover"
=============================================================================
