------------------------------ MODULE RequestGate ------------------------------
(***************************************************************************)
(* What a request passes before it is served: the rate limit of its        *)
(* isolate (src/rate-limit.js) and authentication (src/auth.js).           *)
(*                                                                         *)
(* One isolate without a RATE_LIMITER binding: its buckets live in its     *)
(* memory.  Their key is a hash of the organization, the address and the   *)
(* token of the request; with one organization, and one address for each   *)
(* user, a key is a token, and a user who gets a new one has a new bucket. *)
(***************************************************************************)
EXTENDS Integers, FiniteSets, Functions

CONSTANTS
    Users,
    Limit,          \* API_RATE_LIMIT_PER_MINUTE
    MaxBuckets,     \* buckets above which old ones are deleted (10000)
    WindowLength,   \* a minute, in units of the clock
    TokenLife,      \* from the issue of a token to its exp
    Skew,           \* by which a token is accepted after its exp (30 seconds)
    Modes,          \* where a deployment finds memberships
    MaxClock,       \* bound: the last time
    MaxCount,       \* bound: the requests a bucket counts
    MaxTokens       \* bound: the tokens that are issued

ASSUME GateAssumption ==
    /\ {Limit, MaxBuckets, WindowLength, MaxClock, MaxCount, MaxTokens} \subseteq Nat \ {0}
    /\ {TokenLife, Skew} \subseteq Nat
    /\ Modes \subseteq {"store", "embedded", "open"}

VARIABLES
    clock,      \* Date.now()
    buckets,    \* rate-limit.js: a function of the tokens that have a bucket
    admitted,   \* history: the requests let through in this window, by token
    mode,       \* "store": a membership table; "embedded": the token's claims;
                \* "open": the bootstrap token, or no authentication configured
    member,     \* whether each user is an active member now
    lapsed,     \* history: when each user last ceased to be one (0 for never)
    tokens      \* the tokens that have been issued

gateVars == <<clock, buckets, admitted, mode, member, lapsed, tokens>>

Times == 1..MaxClock

WindowStart(now) == now - (now % WindowLength)

Windows == {WindowStart(now) : now \in Times}

Bucket == [window: Windows, count: 1..MaxCount]

\* A token carries its user, its exp and, as a claim, whether the user was a member.
Token == [user: Users, expires: 1..(MaxClock + TokenLife), member: BOOLEAN]

GateTypeOK ==
    /\ clock \in Times
    /\ DOMAIN buckets \subseteq Token /\ Range(buckets) \subseteq Bucket
    /\ DOMAIN admitted \subseteq Token /\ Range(admitted) \subseteq 1..MaxCount
    /\ mode \in Modes
    /\ member \in [Users -> BOOLEAN]
    /\ lapsed \in [Users -> 0..MaxClock]
    /\ tokens \subseteq Token

GateInit ==
    /\ clock = 1
    /\ buckets = <<>>
    /\ admitted = <<>>
    /\ mode \in Modes
    /\ member = [u \in Users |-> TRUE]
    /\ lapsed = [u \in Users |-> 0]
    /\ tokens = {}

-----------------------------------------------------------------------------
(***************************************************************************)
(* memoryLimit.                                                            *)
(***************************************************************************)

\* Mutant: the first request of a window is not counted.
CountedFromZero(t) ==
    [window |-> WindowStart(clock),
     count |-> IF t \in DOMAIN buckets /\ buckets[t].window = WindowStart(clock)
               THEN buckets[t].count + 1
               ELSE 0]

\* The bucket of the token for this window, with this request counted.
CountedBucket(t) ==
    [window |-> WindowStart(clock),
     count |-> IF t \in DOMAIN buckets /\ buckets[t].window = WindowStart(clock)
               THEN buckets[t].count + 1
               ELSE 1]

\* Mutant: the buckets of the current window go too.
PurgedEarly(all) ==
    IF Cardinality(DOMAIN all) > MaxBuckets
    THEN Restrict(all, {t \in DOMAIN all : ~ all[t].window <= WindowStart(clock)})
    ELSE all

\* Mutant: the buckets are deleted one request late.
PurgedLate(all) ==
    IF Cardinality(DOMAIN all) > MaxBuckets + 1
    THEN Restrict(all, {t \in DOMAIN all : ~ all[t].window < WindowStart(clock)})
    ELSE all

\* With too many buckets, those of earlier windows are deleted.
Purged(all) ==
    IF Cardinality(DOMAIN all) > MaxBuckets
    THEN Restrict(all, {t \in DOMAIN all : ~ all[t].window < WindowStart(clock)})
    ELSE all

\* Map.set.
Set(map, key, value) ==
    [k \in DOMAIN map \cup {key} |-> IF k = key THEN value ELSE map[k]]

Count(t) ==
    /\ CountedBucket(t).count <= MaxCount
    /\ buckets' = Purged(Set(buckets, t, CountedBucket(t)))
    /\ UNCHANGED <<clock, mode, member, lapsed, tokens>>

Admit(t) ==
    /\ CountedBucket(t).count <= Limit
    /\ Count(t)
    /\ admitted' = Set(admitted, t, IF t \in DOMAIN admitted THEN admitted[t] + 1 ELSE 1)

\* 429, with the request counted all the same.
RefuseRate(t) ==
    /\ CountedBucket(t).count > Limit
    /\ Count(t)
    /\ UNCHANGED admitted

-----------------------------------------------------------------------------
(***************************************************************************)
(* authenticateRequest.                                                    *)
(***************************************************************************)

\* Mutant: exp is not looked at.
AcceptedForever(t) == TRUE

\* validateRegisteredClaims.
Accepted(t) == ~ t.expires < clock - Skew

\* resolveMembership: from the table as it is now, or from the claims.
ActiveMember(t) == IF mode = "embedded" THEN t.member ELSE member[t.user]

-----------------------------------------------------------------------------
(***************************************************************************)
(* External: time, the identity provider and the administrators.           *)
(***************************************************************************)
Tick ==
    /\ clock < MaxClock
    /\ clock' = clock + 1
    /\ admitted' = IF WindowStart(clock') = WindowStart(clock) THEN admitted ELSE <<>>
    /\ UNCHANGED <<buckets, mode, member, lapsed, tokens>>

\* A token, with the membership the provider knows of at that time where the
\* deployment embeds it.
Issue(u) ==
    /\ Cardinality(tokens) < MaxTokens
    /\ tokens' = tokens \cup
           {[user |-> u, expires |-> clock + TokenLife, member |-> mode = "embedded" /\ member[u]]}
    /\ UNCHANGED <<clock, buckets, admitted, mode, member, lapsed>>

SetMembership(u) ==
    /\ mode # "open"
    /\ member' = [member EXCEPT ![u] = ~@]
    /\ lapsed' = IF member[u] THEN [lapsed EXCEPT ![u] = clock] ELSE lapsed
    /\ UNCHANGED <<clock, buckets, admitted, mode, tokens>>

-----------------------------------------------------------------------------
(***************************************************************************)
(* Properties.                                                             *)
(***************************************************************************)

\* The rate limit holds whatever is deleted: with one token no more requests
\* than the limit are let through in a window.
AdmittedWithinLimit ==
    \A t \in DOMAIN admitted : admitted[t] <= Limit

\* The memory of the isolate is bounded: above the threshold only buckets of
\* one window are kept, those of the tokens seen in it.
BucketsPurged ==
    Cardinality(DOMAIN buckets) > MaxBuckets
        => \A t, o \in DOMAIN buckets : buckets[t].window = buckets[o].window
=============================================================================
