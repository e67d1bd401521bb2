----------------------------- MODULE TotpReplay -----------------------------
(***************************************************************************)
(* The life of a TOTP code against the life of its replay key              *)
(* (totp.service.ts, validate-mfa-code.use-case.ts).  A code of period k   *)
(* is accepted from one period before k to one after; the key that         *)
(* remembers it is set when it is first accepted and lasts ReplayTtl       *)
(* seconds.  The code is verified first and the key set after an await,    *)
(* which may take up to Latency seconds.  Time is in seconds.              *)
(***************************************************************************)
EXTENDS Naturals

CONSTANTS
    ReplayTtl,  \* the TTL of the replay key (90 in the code)
    Latency,    \* the longest time from the check to the key being set
    Counter,    \* the TOTP periods considered
    Slot,       \* slots for the requests in flight together
    MaxTime     \* the end of the model's time

ASSUME TotpAssumption ==
    /\ ReplayTtl \in Nat
    /\ Latency \in Nat
    /\ Counter \subseteq Nat \ {0}
    /\ MaxTime \in Nat

VARIABLES
    now,      \* seconds
    key,      \* when the replay key of a code expires; 0: never set
    pending,  \* the requests between the check and the key
    accepted, \* how often each code was accepted
    first     \* and when it first was; no action reads these two

replayVars == <<now, key, pending, accepted, first>>

Period == 30
Drift == 1

\* The code of period k passes verifyToken from Opens(k) to before Closes(k).
Opens(k) == (k - Drift) * Period
Closes(k) == (k + Drift + 1) * Period

Idle == [code |-> 0, since |-> 0]

ReplayInit ==
    /\ now = 0
    /\ key = [k \in Counter |-> 0]
    /\ pending = [r \in Slot |-> Idle]
    /\ accepted = [k \in Counter |-> 0]
    /\ first = [k \in Counter |-> 0]

\* verifyToken, with its window of one period on either side.
VerifyToken(r) ==
    /\ pending[r] = Idle
    /\ \E k \in Counter :
        /\ Opens(k) <= now /\ now < Closes(k)
        /\ pending' = [pending EXCEPT ![r] = [code |-> k, since |-> now]]
    /\ UNCHANGED <<now, key, accepted, first>>

Accept(k) ==
    /\ accepted' = [accepted EXCEPT ![k] = @ + 1]
    /\ first' = IF accepted[k] = 0 THEN [first EXCEPT ![k] = now] ELSE first

\* Mutant: the key lives for two periods.
SetReplayKeyShort(r) ==
    /\ pending[r] # Idle
    /\ LET k == pending[r].code
       IN  \/ /\ key[k] <= now
              /\ key' = [key EXCEPT ![k] = now + 2 * Period]
              /\ Accept(k)
           \/ key[k] > now /\ UNCHANGED <<key, accepted, first>>
    /\ pending' = [pending EXCEPT ![r] = Idle]
    /\ UNCHANGED now

\* setIfNotExists: only the request that sets the key has its code accepted.
SetReplayKey(r) ==
    /\ pending[r] # Idle
    /\ LET k == pending[r].code
       IN  \/ /\ key[k] <= now
              /\ key' = [key EXCEPT ![k] = now + ReplayTtl]
              /\ Accept(k)
           \/ key[k] > now /\ UNCHANGED <<key, accepted, first>>
    /\ pending' = [pending EXCEPT ![r] = Idle]
    /\ UNCHANGED now

\* Time passes, but no request waits longer than Latency.
Tick ==
    /\ now < MaxTime
    /\ \A r \in Slot : pending[r] # Idle => now < pending[r].since + Latency
    /\ now' = now + 1
    /\ UNCHANGED <<key, pending, accepted, first>>

ReplayNext == Tick \/ \E r \in Slot : VerifyToken(r) \/ SetReplayKey(r)

ReplaySpec == ReplayInit /\ [][ReplayNext]_replayVars

-----------------------------------------------------------------------------

\* The times are natural numbers, the codes known ones.
ReplayTypeOK ==
    /\ now \in Nat
    /\ key \in [Counter -> Nat]
    /\ pending \in [Slot -> {Idle} \cup [code: Counter, since: Nat]]
    /\ accepted \in [Counter -> Nat]
    /\ first \in [Counter -> Nat]

\* A TOTP code is accepted once in its whole life, at the edges of its periods
\* too, unless it was first accepted so soon after it opened that its key can
\* expire before the last request that checked it has asked for the key.  With
\* the 90 seconds of the code that is within Latency of the opening.
CodeAcceptedOnce ==
    \A k \in Counter :
        first[k] + ReplayTtl >= Closes(k) + Latency => accepted[k] <= 1

\* Why: a code is accepted after it opened, its key lasts from the first time
\* at least, and a pending code was checked before it closed, not too long ago.
KeyCoversCode ==
    \A k \in Counter :
        accepted[k] > 0 => first[k] >= Opens(k) /\ key[k] >= first[k] + ReplayTtl

PendingIsRecent ==
    \A r \in Slot :
        pending[r] # Idle =>
            /\ Opens(pending[r].code) <= pending[r].since
            /\ pending[r].since < Closes(pending[r].code)
            /\ pending[r].since <= now
            /\ now <= pending[r].since + Latency

ReplayInv == ReplayTypeOK /\ CodeAcceptedOnce /\ KeyCoversCode /\ PendingIsRecent
=============================================================================
