---------------------------- MODULE LimitWriter -----------------------------
(***************************************************************************)
(* The rate limiter of a connection (iolimit/src/lib.rs), between the        *)
(* messages of Client::response_msg and the socket.  Time is in             *)
(* milliseconds; PerSecond is the number of them in a second (1000 in the    *)
(* code), so that the bounds can be small.  Init is LimitWriter::new followed *)
(* by set_blocking and set_partial_writes; fsyncd leaves new's choice, TRUE   *)
(* and FALSE.                                                                 *)
(***************************************************************************)
EXTENDS Integers, FiniteSetsExt

CONSTANTS
    PerSecond,   \* milliseconds in a second
    Limits,      \* values of iolimit_bps in the InitMsg; 0 is no limit
    Sizes,       \* lengths of the buffers that are written
    MaxTime,     \* bound on the clock
    MaxWritten   \* bound on the bytes written

VARIABLES
    bps, bytes_left, last_updated, blocking, partial_writes,
    now,         \* the clock
    wake,        \* sleep_until: the instant a blocked write waits for, or -1
    len,         \* length of the buffer of that write
    written,     \* bytes handed to the socket so far
    waits,       \* history: writes that have waited
    panicked

mode == <<bps, blocking, partial_writes>>
vars == <<bytes_left, last_updated, mode, now, wake, len, written, waits,
          panicked>>

Awake == -1

Init ==
    /\ bps \in Limits /\ bytes_left = bps
    /\ blocking \in BOOLEAN /\ partial_writes \in BOOLEAN
    /\ last_updated = 0 /\ now = 0
    /\ wake = Awake /\ len = 0
    /\ written = 0 /\ waits = 0 /\ panicked = FALSE

Rate == bps \div PerSecond

\* The credit for the time since last_updated, capped.
Refilled(n) ==
    bytes_left + Min({(now - last_updated) * Rate,
                      Max({n - bytes_left, bps})})

\* inner.write takes some of the bytes; the credit goes down, not below 0.
Written(n, credit) ==
    \E k \in 1 .. n :
        /\ written' = written + k
        /\ bytes_left' = credit - Min({k, credit})

Unlimited(n) == bps = 0 \/ bytes_left >= n

\* write, up to the point where it may have to wait.
Write(n) ==
    /\ ~panicked /\ wake = Awake /\ written < MaxWritten
    /\ IF Unlimited(n)
       THEN Written(n, bytes_left)
            /\ UNCHANGED <<last_updated, wake, len, panicked>>
       ELSE IF partial_writes /\ bytes_left # 0
       THEN Written(Min({bytes_left, n}), bytes_left)
            /\ UNCHANGED <<last_updated, wake, len, panicked>>
       ELSE IF Refilled(n) >= n
       THEN /\ Written(n, Refilled(n))
            /\ last_updated' = now
            /\ UNCHANGED <<wake, len, panicked>>
       ELSE IF ~blocking
       THEN /\ bytes_left' = Refilled(n)
            /\ last_updated' = now
            /\ UNCHANGED <<wake, len, written, panicked>>
       ELSE IF Rate = 0
       THEN /\ panicked' = TRUE
            /\ UNCHANGED <<bytes_left, last_updated, wake, len, written>>
       ELSE /\ bytes_left' = Refilled(n)
            /\ last_updated' = now
            /\ wake' = now + ((n - Refilled(n)) \div Rate)
            /\ len' = n
            /\ UNCHANGED <<written, panicked>>
    /\ UNCHANGED <<now, mode, waits>>

\* Mutant: the writer goes on without waiting.
WakeAtOnce ==
    /\ wake # Awake
    /\ last_updated' = now /\ wake' = Awake /\ len' = 0
    /\ Written(len, bytes_left)
    /\ waits' = waits + 1
    /\ UNCHANGED <<now, mode, panicked>>

\* sleep_until returns strictly after the instant (the clock is finer than a
\* millisecond, so the same millisecond may do); then the write.
Wake ==
    /\ wake # Awake /\ wake <= now
    /\ last_updated' = now /\ wake' = Awake /\ len' = 0
    /\ Written(len, bytes_left)
    /\ waits' = waits + 1
    /\ UNCHANGED <<now, mode, panicked>>

Tick ==
    /\ now < MaxTime
    /\ now' = now + 1
    /\ UNCHANGED <<bytes_left, last_updated, mode, wake, len, written, waits,
                   panicked>>

Next == (\E n \in Sizes : Write(n)) \/ Wake \/ Tick

Spec == Init /\ [][Next]_vars

-----------------------------------------------------------------------------
TypeOK ==
    /\ bps \in Limits /\ bytes_left \in Nat /\ last_updated \in 0 .. MaxTime
    /\ now \in 0 .. MaxTime /\ wake \in Nat \cup {Awake}
    /\ len \in Sizes \cup {0} /\ {written, waits} \subseteq Nat
    /\ {blocking, partial_writes, panicked} \subseteq BOOLEAN

Longest == Max(Sizes)

(* The connection carries no more than the limit: in any time since it was   *)
(* set up at most what the rate allows in that time and the credit of one    *)
(* second it starts with, and less than a millisecond's bytes more for each  *)
(* write that waited: its wait is a whole number of milliseconds, rounded    *)
(* down, and the bytes it had too few are not taken from the credit.         *)
RateHeld == bps # 0 => written <= bps + now * Rate + waits * (Rate - 1)

(* The credit never exceeds a second and a buffer: a connection that was     *)
(* idle does not burst for the whole of its idle time.                       *)
CreditCapped == bps # 0 => bytes_left < bps + Longest

(* The limit holds over all of the time and over the bursts within it.       *)
LimitHeld == RateHeld /\ CreditCapped
=============================================================================
