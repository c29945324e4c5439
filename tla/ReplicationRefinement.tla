------------------------ MODULE ReplicationRefinement ------------------------
(***************************************************************************)
(* The replication path implements the ordered delivery that fsyncd        *)
(* promises to a replica that dispatches inline.                           *)
(***************************************************************************)
EXTENDS Replication

\* Taking CORK orders a call, entering SYNC_LIST joins, and a dispatch applies
\* the next call.
Delivery == INSTANCE OrderedDelivery WITH
  Replicas <- Inline,
  Wanted <- [c \in Inline |-> {kind \in Kinds : Wants(c, kind)}],
  ops <- [n \in Ops |-> log[n].kind],
  start <- [c \in Inline |-> since[c]],
  seen <- [c \in Inline |-> applied[c]]

\* Every step of the server, the network and the replicas is a step of the
\* ordered delivery or invisible to it, with faults, timeouts and corks: what
\* pre_op orders under CORK is what process_ops applies, in that order.
RefinesDelivery == Delivery!Spec

=============================================================================
