---------------------------- MODULE MCReplication ----------------------------
(***************************************************************************)
(* Instances of Replication for TLC.                                       *)
(***************************************************************************)
EXTENDS ReplicationRefinement, TLC

CONSTANTS t1, t2, c1, c2, k1, k2

ThreadSymmetry == Permutations(Threads)

AllInline == [c \in Clients |-> 1]

\* Modes of c1 and c2.
SyncAsync == (c1 :> "SYNC" @@ c2 :> "ASYNC")

FlushSemi == (c1 :> "FLUSHSYNC" @@ c2 :> "SEMISYNC")

SyncOnly == (c1 :> "SYNC")

BothSync == (c1 :> "SYNC" @@ c2 :> "SYNC")

\* c2 has a pool of two dispatch threads.
PoolSecond == (c1 :> 1 @@ c2 :> 2)

BootAll == <<c1, c2>>

BootFirst == <<c1>>

\* The empty list, and the function with an empty domain.
Nobody == <<>>

CorkOnly == (k1 :> "cork")

CorkUncork == (k1 :> "cork" @@ k2 :> "uncork")

=============================================================================
