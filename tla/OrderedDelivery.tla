--------------------------- MODULE OrderedDelivery ---------------------------
(***************************************************************************)
(* What fsyncd promises a replica: the server orders the file system calls *)
(* once, and every replica applies the calls that concern it in that       *)
(* order, from the moment it joined, each exactly once and none skipped.   *)
(* A replica may fall behind or stop for good; it never diverges.          *)
(***************************************************************************)
EXTENDS Naturals, Sequences, Functions

CONSTANTS
  Replicas,
  Kinds,
  Wanted     \* replica -> the kinds of call it has to apply

VARIABLES
  ops,       \* the calls in the order the server fixed
  start,     \* replica -> how many calls were ordered before it joined
  seen       \* replica -> the calls it applied, as indices into ops

vars == <<ops, start, seen>>

Init ==
  /\ ops = <<>>
  /\ start = [c \in Replicas |-> 0]
  /\ seen = [c \in Replicas |-> <<>>]

\* The server orders a call.
Publish(kind) ==
  /\ ops' = Append(ops, kind)
  /\ UNCHANGED <<start, seen>>

\* A replica that has applied nothing starts at the present.
Join(c) ==
  /\ seen[c] = <<>>
  /\ start' = [start EXCEPT ![c] = Len(ops)]
  /\ UNCHANGED <<ops, seen>>

\* The calls c has to apply.
Due(c) == {n \in start[c] + 1 .. Len(ops) : ops[n] \in Wanted[c]}

\* A replica applies the first call it has not applied.
Apply(c) ==
  \E n \in Due(c) \ Range(seen[c]) :
    /\ \A m \in Due(c) : m < n => m \in Range(seen[c])
    /\ seen' = [seen EXCEPT ![c] = Append(@, n)]
    /\ UNCHANGED <<ops, start>>

Next ==
  \/ \E kind \in Kinds : Publish(kind)
  \/ \E c \in Replicas : Join(c) \/ Apply(c)

Spec == Init /\ [][Next]_vars

=============================================================================
