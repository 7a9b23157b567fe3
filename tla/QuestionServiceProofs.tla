-------------------------- MODULE QuestionServiceProofs --------------------------
(***************************************************************************)
(* Theorems of QuestionService, for any users, handlers, limits and        *)
(* lengths of a window, of a token's life and of its skew.                 *)
(***************************************************************************)
EXTENDS QuestionService, TLAPS

-----------------------------------------------------------------------------
(***************************************************************************)
(* Windows and buckets.                                                    *)
(***************************************************************************)
LEMMA TimesOrdered ==
    ASSUME NEW w \in Nat, NEW a \in Int, NEW b \in Int, a < b
    PROVE  w * a + w <= w * b
  <1>1. PICK d \in Nat : b = a + 1 + d
    BY SMT
  <1>2. w * b = w * a + w + w * d /\ w * d >= 0
    BY <1>1, SMT
  <1> QED BY <1>2, SMT

LEMMA WindowStartType ==
    ASSUME NEW now \in Nat
    PROVE  /\ WindowStart(now) \in Int
           /\ WindowStart(now) <= now
  BY GateAssumption DEF WindowStart

\* A window begins no earlier than the one before.
LEMMA WindowsGoOn ==
    ASSUME NEW now \in Nat
    PROVE  WindowStart(now) <= WindowStart(now + 1)
  <1> DEFINE w == WindowLength
             q == now \div w
             p == (now + 1) \div w
  <1>1. w \in Nat /\ w > 0
    BY GateAssumption
  <1>2. /\ q \in Int /\ p \in Int /\ w * q \in Int /\ w * p \in Int
        /\ w * q <= now /\ now < w * q + w
        /\ w * p <= now + 1 /\ now + 1 < w * p + w
        /\ WindowStart(now) = w * q /\ WindowStart(now + 1) = w * p
    BY <1>1 DEF WindowStart
  <1> HIDE DEF w, q, p
  <1>3. ~(p < q)
    <2>1. p < q => w * p + w <= w * q
      BY <1>1, <1>2, TimesOrdered
    <2> QED BY <1>1, <1>2, <2>1
  <1>4. CASE p = q
    BY <1>2, <1>4
  <1>5. CASE q < p
    <2>1. w * q + w <= w * p
      BY <1>1, <1>2, <1>5, TimesOrdered
    <2> QED BY <1>1, <1>2, <2>1
  <1> QED BY <1>2, <1>3, <1>4, <1>5

\* Deleting buckets changes none of those that are left, and deletes none of
\* the current window.
LEMMA PurgedKeeps ==
    ASSUME NEW all
    PROVE  /\ DOMAIN Purged(all) \subseteq DOMAIN all
           /\ \A t \in DOMAIN Purged(all) : Purged(all)[t] = all[t]
           /\ \A t \in DOMAIN all :
                 ~(all[t].window < WindowStart(clock)) => t \in DOMAIN Purged(all)
           /\ Cardinality(DOMAIN Purged(all)) > MaxBuckets =>
                 \A t \in DOMAIN Purged(all) :
                    Cardinality(DOMAIN all) > MaxBuckets => ~(all[t].window < WindowStart(clock))
  BY DEF Purged, Restrict

LEMMA SetSets ==
    ASSUME NEW map, NEW key, NEW value
    PROVE  /\ DOMAIN Set(map, key, value) = DOMAIN map \cup {key}
           /\ Set(map, key, value)[key] = value
           /\ \A k \in DOMAIN map : k # key => Set(map, key, value)[k] = map[k]
  BY DEF Set

-----------------------------------------------------------------------------
(***************************************************************************)
(* The gate.  No bucket is of a window to come; whatever was let through   *)
(* in this window is counted by a bucket that is still there; and a token  *)
(* that says its user was a member was issued while that was so.           *)
(***************************************************************************)
Counted ==
    \A t \in DOMAIN admitted :
        /\ t \in DOMAIN buckets
        /\ buckets[t].window = WindowStart(clock)
        /\ admitted[t] <= buckets[t].count
        /\ admitted[t] <= Limit

NoneToCome == \A t \in DOMAIN buckets : buckets[t].window <= WindowStart(clock)

Witnessed ==
    \A t \in tokens :
        /\ t.expires - TokenLife <= clock
        /\ t.member => member[t.user] \/ t.expires - TokenLife <= lapsed[t.user]

GateInv ==
    /\ GateTypeOK
    /\ Counted
    /\ NoneToCome
    /\ BucketsPurged
    /\ Witnessed

\* What the assumptions say of the constants.
LEMMA GateConstants ==
    /\ Limit \in Nat /\ MaxBuckets \in Nat /\ WindowLength \in Nat /\ MaxClock \in Nat
    /\ MaxCount \in Nat /\ Limit > 0 /\ WindowLength > 0 /\ MaxClock > 0 /\ MaxCount > 0
    /\ TokenLife \in Nat /\ Skew \in Nat
  BY GateAssumption

LEMMA BucketRange ==
    ASSUME GateTypeOK, NEW t \in DOMAIN buckets
    PROVE  buckets[t].window \in Int /\ buckets[t].count \in 1..MaxCount
  <1>1. buckets[t] \in Bucket
    BY DEF GateTypeOK, Range
  <1>2. \A now \in Times : WindowStart(now) \in Int
    BY WindowStartType, GateConstants DEF Times
  <1> QED BY <1>1, <1>2 DEF Bucket, Windows

\* A request that is counted leaves the buckets as follows.
LEMMA CountKeeps ==
    ASSUME GateInv, NEW t \in tokens, Count(t)
    PROVE  /\ DOMAIN buckets' \subseteq Token /\ Range(buckets') \subseteq Bucket
           /\ NoneToCome' /\ BucketsPurged'
           /\ t \in DOMAIN buckets' /\ buckets'[t] = CountedBucket(t)
           /\ \A o \in DOMAIN buckets :
                 o # t /\ buckets[o].window = WindowStart(clock)
                     => o \in DOMAIN buckets' /\ buckets'[o] = buckets[o]
  <1> DEFINE b == CountedBucket(t)
             all == Set(buckets, t, b)
  <1>1. clock \in Times /\ clock \in Nat /\ t \in Token /\ clock' = clock
    BY GateConstants DEF GateInv, GateTypeOK, Count, Times
  <1>2. WindowStart(clock) \in Int
    BY <1>1, WindowStartType
  <1>3. b.window = WindowStart(clock) /\ b \in Bucket
    <2>1. b.count \in Nat /\ b.count >= 1
      BY BucketRange, GateConstants DEF CountedBucket, GateInv
    <2>2. b.count <= MaxCount /\ b = [window |-> WindowStart(clock), count |-> b.count]
      BY DEF CountedBucket, Count
    <2>3. WindowStart(clock) \in Windows
      BY <1>1 DEF Windows
    <2> QED BY <2>1, <2>2, <2>3, GateConstants DEF Bucket
  <1> HIDE DEF b
  <1>4. /\ DOMAIN all = DOMAIN buckets \cup {t} /\ all[t] = b
        /\ \A o \in DOMAIN buckets : o # t => all[o] = buckets[o]
    BY DEF Set
  <1>5. /\ buckets' = Purged(all)
        /\ DOMAIN buckets' \subseteq DOMAIN all
        /\ \A o \in DOMAIN buckets' : buckets'[o] = all[o]
        /\ \A o \in DOMAIN all : ~(all[o].window < WindowStart(clock)) => o \in DOMAIN buckets'
        /\ Cardinality(DOMAIN buckets') > MaxBuckets =>
              \A o \in DOMAIN buckets' :
                 Cardinality(DOMAIN all) > MaxBuckets => ~(all[o].window < WindowStart(clock))
        /\ ~(Cardinality(DOMAIN all) > MaxBuckets) => buckets' = all
    <2>1. buckets' = Purged(all)
      BY DEF Count, b
    <2> HIDE DEF all
    <2>2. ~(Cardinality(DOMAIN all) > MaxBuckets) => Purged(all) = all
      BY DEF Purged
    <2> QED BY <2>1, <2>2, PurgedKeeps
  <1> HIDE DEF all
  <1>6. \A o \in DOMAIN all : all[o] \in Bucket /\ all[o].window <= WindowStart(clock) /\ all[o].window \in Int
    BY <1>2, <1>3, <1>4, BucketRange DEF GateInv, GateTypeOK, NoneToCome, Range
  <1>7. DOMAIN buckets' \subseteq Token /\ Range(buckets') \subseteq Bucket
    BY <1>1, <1>4, <1>5, <1>6 DEF GateInv, GateTypeOK, Range
  <1>8. NoneToCome'
    BY <1>1, <1>5, <1>6 DEF NoneToCome
  <1>9. BucketsPurged'
    <2> SUFFICES ASSUME Cardinality(DOMAIN buckets') > MaxBuckets,
                        NEW o \in DOMAIN buckets', NEW d \in DOMAIN buckets'
                 PROVE  buckets'[o].window = buckets'[d].window
      BY DEF BucketsPurged
    <2>1. Cardinality(DOMAIN all) > MaxBuckets
      BY <1>5
    <2>2. all[o].window = WindowStart(clock) /\ all[d].window = WindowStart(clock)
      BY <1>2, <1>5, <1>6, <2>1
    <2> QED BY <1>5, <2>2
  <1>10. t \in DOMAIN buckets' /\ buckets'[t] = b
    BY <1>2, <1>3, <1>4, <1>5
  <1>11. ASSUME NEW o \in DOMAIN buckets, o # t, buckets[o].window = WindowStart(clock)
         PROVE  o \in DOMAIN buckets' /\ buckets'[o] = buckets[o]
    BY <1>2, <1>4, <1>5, <1>11
  <1> QED BY <1>7, <1>8, <1>9, <1>10, <1>11 DEF b

LEMMA AdmitPreserves ==
    ASSUME GateInv, NEW t \in tokens, Admit(t)
    PROVE  GateInv'
  <1> DEFINE b == CountedBucket(t)
             n == IF t \in DOMAIN admitted THEN admitted[t] + 1 ELSE 1
  <1>1. Count(t) /\ t \in Token
    BY DEF Admit, GateInv, GateTypeOK
  <1>2. /\ DOMAIN admitted' = DOMAIN admitted \cup {t} /\ admitted'[t] = n
        /\ \A o \in DOMAIN admitted : o # t => admitted'[o] = admitted[o]
    BY DEF Admit, Set
  <1>3. \A o \in DOMAIN admitted : admitted[o] \in 1..MaxCount
    BY DEF GateInv, GateTypeOK, Range
  <1>4. n <= b.count /\ n \in 1..MaxCount /\ n <= Limit
    <2>1. CASE t \in DOMAIN admitted
      <3>1. b.count = buckets[t].count + 1 /\ admitted[t] <= buckets[t].count
        BY <2>1 DEF GateInv, Counted, CountedBucket
      <3>2. buckets[t].count \in 1..MaxCount
        BY <2>1, BucketRange DEF GateInv, Counted
      <3> QED BY <1>3, <2>1, <3>1, <3>2, GateConstants DEF Admit, Count
    <2>2. CASE t \notin DOMAIN admitted
      <3>1. b.count \in Nat /\ b.count >= 1
        BY BucketRange, GateConstants DEF CountedBucket, GateInv
      <3> QED BY <2>2, <3>1, GateConstants
    <2> QED BY <2>1, <2>2
  <1>5. GateTypeOK'
    <2>1. DOMAIN admitted' \subseteq Token /\ Range(admitted') \subseteq 1..MaxCount
      BY <1>1, <1>2, <1>3, <1>4 DEF GateInv, GateTypeOK, Range
    <2> QED BY <1>1, <2>1, CountKeeps DEF GateInv, GateTypeOK, Count
  <1>6. Counted'
    <2> SUFFICES ASSUME NEW o \in DOMAIN admitted'
                 PROVE  /\ o \in DOMAIN buckets'
                        /\ buckets'[o].window = WindowStart(clock)
                        /\ admitted'[o] <= buckets'[o].count
                        /\ admitted'[o] <= Limit
      BY <1>1 DEF Counted, Count, WindowStart
    <2>1. CASE o = t
      <3>1. b.window = WindowStart(clock)
        BY DEF CountedBucket
      <3> QED BY <1>1, <1>2, <1>4, <2>1, <3>1, CountKeeps
    <2>2. CASE o # t
      BY <1>1, <1>2, <2>2, CountKeeps DEF GateInv, Counted
    <2> QED BY <2>1, <2>2
  <1>7. Witnessed'
    BY <1>1 DEF Count, GateInv, Witnessed
  <1> QED BY <1>1, <1>5, <1>6, <1>7, CountKeeps DEF GateInv

LEMMA RefusePreserves ==
    ASSUME GateInv, NEW t \in tokens, RefuseRate(t)
    PROVE  GateInv'
  <1>1. Count(t) /\ admitted' = admitted
    BY DEF RefuseRate
  <1>2. GateTypeOK'
    BY <1>1, CountKeeps DEF GateInv, GateTypeOK, Count
  <1>3. Counted'
    <2> SUFFICES ASSUME NEW o \in DOMAIN admitted
                 PROVE  /\ o \in DOMAIN buckets'
                        /\ buckets'[o].window = WindowStart(clock)
                        /\ admitted[o] <= buckets'[o].count
                        /\ admitted[o] <= Limit
      BY <1>1 DEF Counted, Count, WindowStart
    <2>1. CASE o = t
      <3>1. /\ CountedBucket(t).count = buckets[t].count + 1
            /\ CountedBucket(t).window = WindowStart(clock)
            /\ admitted[t] <= buckets[t].count /\ admitted[t] <= Limit
        BY <2>1 DEF GateInv, Counted, CountedBucket
      <3>2. buckets[t].count \in 1..MaxCount /\ admitted[t] \in 1..MaxCount
        BY <2>1, BucketRange DEF GateInv, Counted, GateTypeOK, Range
      <3> QED BY <1>1, <2>1, <3>1, <3>2, GateConstants, CountKeeps
    <2>2. CASE o # t
      BY <1>1, <2>2, CountKeeps DEF GateInv, Counted
    <2> QED BY <2>1, <2>2
  <1>4. Witnessed'
    BY <1>1 DEF Count, GateInv, Witnessed
  <1> QED BY <1>1, <1>2, <1>3, <1>4, CountKeeps DEF GateInv

\* Time goes on: in a new window nothing has been let through yet.
LEMMA TickPreserves ==
    ASSUME GateInv, Tick
    PROVE  GateInv'
  <1>1. /\ clock \in Nat /\ clock \in Times /\ clock' = clock + 1 /\ clock' \in Times
        /\ UNCHANGED <<buckets, mode, member, lapsed, tokens>>
    BY GateConstants DEF GateInv, GateTypeOK, Tick, Times
  <1>2. /\ WindowStart(clock) \in Int /\ WindowStart(clock') \in Int
        /\ WindowStart(clock) <= WindowStart(clock')
    BY <1>1, WindowStartType, WindowsGoOn
  <1>3. \/ WindowStart(clock') = WindowStart(clock) /\ admitted' = admitted
        \/ admitted' = <<>>
    BY DEF Tick
  <1>4. GateTypeOK'
    BY <1>1, <1>3 DEF GateInv, GateTypeOK, Range
  <1>5. Counted'
    <2>1. CASE WindowStart(clock') = WindowStart(clock) /\ admitted' = admitted
      <3>1. WindowStart(clock)' = WindowStart(clock')
        BY DEF WindowStart
      <3> QED BY <1>1, <2>1, <3>1 DEF GateInv, Counted
    <2>2. CASE admitted' = <<>>
      BY <2>2 DEF Counted
    <2> QED BY <1>3, <2>1, <2>2
  <1>6. NoneToCome'
    <2>1. WindowStart(clock)' = WindowStart(clock')
      BY DEF WindowStart
    <2>2. \A t \in DOMAIN buckets : buckets[t].window \in Int
      BY BucketRange DEF GateInv
    <2> QED BY <1>1, <1>2, <2>1, <2>2 DEF GateInv, NoneToCome
  <1>7. BucketsPurged'
    BY <1>1 DEF GateInv, BucketsPurged
  <1>8. Witnessed'
    <2>1. \A t \in tokens : t.expires - TokenLife \in Int
      BY GateConstants DEF GateInv, GateTypeOK, Token
    <2> QED BY <1>1, <2>1 DEF GateInv, Witnessed
  <1> QED BY <1>4, <1>5, <1>6, <1>7, <1>8 DEF GateInv

LEMMA IssuePreserves ==
    ASSUME GateInv, NEW u \in Users, Issue(u)
    PROVE  GateInv'
  <1> DEFINE t == [user |-> u, expires |-> clock + TokenLife,
                   member |-> mode = "embedded" /\ member[u]]
  <1>1. /\ UNCHANGED <<clock, buckets, admitted, mode, member, lapsed>>
        /\ tokens' = tokens \cup {t}
    BY DEF Issue
  <1>2. t \in Token /\ t.expires - TokenLife = clock /\ (t.member => member[t.user])
    <2>1. clock + TokenLife \in 1..(MaxClock + TokenLife) /\ clock \in Nat
      BY GateConstants DEF GateInv, GateTypeOK, Times
    <2>2. (mode = "embedded" /\ member[u]) \in BOOLEAN
      OBVIOUS
    <2>3. ASSUME NEW e \in 1..(MaxClock + TokenLife), NEW m \in BOOLEAN
          PROVE  [user |-> u, expires |-> e, member |-> m] \in Token
      BY DEF Token
    <2>4. t \in Token
      BY <2>1, <2>2, <2>3, Zenon
    <2>5. t.expires = clock + TokenLife /\ t.user = u
      OBVIOUS
    <2>6. t.member => member[u]
      BY Zenon
    <2> QED BY <2>1, <2>4, <2>5, <2>6, GateConstants
  <1> HIDE DEF t
  <1>3. GateTypeOK'
    BY <1>1, <1>2 DEF GateInv, GateTypeOK
  <1>4. Counted' /\ NoneToCome' /\ BucketsPurged'
    BY <1>1 DEF GateInv, Counted, NoneToCome, BucketsPurged, WindowStart
  <1>5. Witnessed'
    <2>1. clock <= clock
      BY GateConstants DEF GateInv, GateTypeOK, Times
    <2> QED BY <1>1, <1>2, <2>1 DEF GateInv, Witnessed
  <1> QED BY <1>3, <1>4, <1>5 DEF GateInv

\* Who ceases to be a member was one until now, and every token is older.
LEMMA MembershipPreserves ==
    ASSUME GateInv, NEW u \in Users, SetMembership(u)
    PROVE  GateInv'
  <1>1. UNCHANGED <<clock, buckets, admitted, mode, tokens>>
    BY DEF SetMembership
  <1>2. /\ member \in [Users -> BOOLEAN] /\ lapsed \in [Users -> 0..MaxClock]
        /\ clock \in 1..MaxClock
    BY DEF GateInv, GateTypeOK, Times
  <1>3. /\ member' = [member EXCEPT ![u] = ~@]
        /\ lapsed' = IF member[u] THEN [lapsed EXCEPT ![u] = clock] ELSE lapsed
    BY DEF SetMembership
  <1>4. member' \in [Users -> BOOLEAN] /\ lapsed' \in [Users -> 0..MaxClock]
    BY <1>2, <1>3, GateConstants
  <1>5. GateTypeOK'
    BY <1>1, <1>4 DEF GateInv, GateTypeOK
  <1>6. Counted' /\ NoneToCome' /\ BucketsPurged'
    BY <1>1 DEF GateInv, Counted, NoneToCome, BucketsPurged, WindowStart
  <1>7. ASSUME NEW t \in tokens
        PROVE  /\ t.expires - TokenLife <= clock
               /\ t.member => member'[t.user] \/ t.expires - TokenLife <= lapsed'[t.user]
    <2>1. t.user \in Users /\ t.expires \in Nat
      BY GateConstants DEF GateInv, GateTypeOK, Token
    <2>2. /\ t.expires - TokenLife <= clock
          /\ t.member => member[t.user] \/ t.expires - TokenLife <= lapsed[t.user]
      BY DEF GateInv, Witnessed
    <2>3. CASE t.user # u
      BY <1>2, <1>3, <2>1, <2>2, <2>3
    <2>4. CASE t.user = u /\ member[u]
      BY <1>2, <1>3, <2>1, <2>2, <2>4
    <2>5. CASE t.user = u /\ ~member[u]
      BY <1>2, <1>3, <2>1, <2>2, <2>5
    <2> QED BY <2>3, <2>4, <2>5
  <1>8. Witnessed'
    BY <1>1, <1>7 DEF Witnessed
  <1> QED BY <1>5, <1>6, <1>8 DEF GateInv

LEMMA GateStarts ==
    ASSUME GateInit
    PROVE  GateInv
  <1>1. GateTypeOK
    BY GateConstants DEF GateInit, GateTypeOK, Times, Range
  <1> QED BY <1>1 DEF GateInit, GateInv, Counted, NoneToCome, BucketsPurged, Witnessed

-----------------------------------------------------------------------------
(***************************************************************************)
(* The service.  What a handler r holds is true of the tokens, the mode,   *)
(* the active version and the latest ingestion: the token was issued, a    *)
(* membership is looked up only where one is stored, the version was       *)
(* active since the request came, and the label was earned by data that    *)
(* can only have become newer.                                             *)
(***************************************************************************)
Holds(r, issued, where, version, latest) ==
    /\ r.pc \in {"verifying", "resolving"} => r.token \in issued
    /\ r.pc = "resolving" => where = "store"
    /\ r.since <= version
    /\ r.pc \in {"reading", "measuring", "asking", "answered"} =>
           r.since <= r.version /\ r.version <= version
    /\ r.data <= latest
    /\ r.label = "fresh" =>
           r.pc \in {"asking", "answered"} /\ r.data # 0 /\ r.now - r.data <= Threshold

ServiceInv ==
    /\ GateInv
    /\ inserted \in 0..clock
    /\ active \in 1..MaxVersion
    /\ handler \in [Handlers -> Handler]
    /\ \A h \in Handlers : Holds(handler[h], tokens, mode, active, inserted)

LEMMA ServiceTypes ==
    ASSUME ServiceInv
    PROVE  /\ TypeOK
           /\ clock \in Nat /\ inserted \in Nat /\ active \in Nat
           /\ clock <= MaxClock /\ inserted <= clock /\ active >= 1
           /\ clock \in 0..MaxClock /\ inserted \in 0..MaxClock /\ active \in 0..MaxVersion
  BY GateConstants, ServiceAssumption DEF ServiceInv, GateInv, GateTypeOK, TypeOK, Times

LEMMA HandlerFields ==
    ASSUME NEW r \in Handler
    PROVE  /\ r.since \in Nat /\ r.version \in Nat /\ r.now \in Nat /\ r.data \in Nat
           /\ r.since <= MaxVersion /\ r.version <= MaxVersion
           /\ r.now <= MaxClock /\ r.data <= MaxClock
           /\ r.token \in Token \cup {NoToken}
  BY GateConstants, ServiceAssumption DEF Handler

\* More tokens, a later version and later data change nothing of it.
LEMMA HoldsOn ==
    ASSUME NEW r \in Handler, NEW issued, NEW more, issued \subseteq more, NEW where,
           NEW a \in Nat, NEW b \in Nat, a <= b, NEW i \in Nat, NEW j \in Nat, i <= j,
           Holds(r, issued, where, a, i)
    PROVE  Holds(r, more, where, b, j)
  BY HandlerFields DEF Holds

\* A step of one handler that leaves the rest of the service as it is.
LEMMA HandlerStep ==
    ASSUME ServiceInv, GateInv', UNCHANGED <<clock, tokens, mode, inserted, active>>,
           NEW h \in Handlers, NEW r \in Handler,
           handler' = [handler EXCEPT ![h] = r],
           Holds(r, tokens, mode, active, inserted)
    PROVE  ServiceInv'
  BY DEF ServiceInv

LEMMA ReleasedHolds ==
    ASSUME ServiceInv
    PROVE  /\ Handling("failed", NoToken) \in Handler
           /\ Handling("idle", NoToken) \in Handler
           /\ Holds(Handling("failed", NoToken), tokens, mode, active, inserted)
           /\ Holds(Handling("idle", NoToken), tokens, mode, active, inserted)
  <1>1. ASSUME NEW pc \in {"failed", "idle"}
        PROVE  /\ Handling(pc, NoToken) \in Handler
               /\ Holds(Handling(pc, NoToken), tokens, mode, active, inserted)
    <2>1. 0 \in 0..MaxVersion /\ 0 \in 0..MaxClock
      BY GateConstants, ServiceAssumption
    <2>2. Handling(pc, NoToken) \in Handler
      BY <2>1 DEF Handling, Handler, Ended
    <2>3. Holds(Handling(pc, NoToken), tokens, mode, active, inserted)
      BY ServiceTypes DEF Handling, Holds, None
    <2> QED BY <2>2, <2>3
  <1> QED BY <1>1

LEMMA FailPreserves ==
    ASSUME ServiceInv, GateInv', UNCHANGED <<clock, tokens, mode, inserted, active>>,
           NEW h \in Handlers, Fails(h)
    PROVE  ServiceInv'
  BY ReleasedHolds, HandlerStep DEF Fails

LEMMA ArrivePreserves ==
    ASSUME ServiceInv, NEW h \in Handlers, Arrive(h)
    PROVE  ServiceInv'
  <1>1. PICK t \in tokens :
           \/ /\ Admit(t)
              /\ handler' = [handler EXCEPT ![h] = [Handling("verifying", t) EXCEPT !.since = active]]
           \/ /\ RefuseRate(t)
              /\ Fails(h)
    BY DEF Arrive
  <1>2. UNCHANGED <<clock, tokens, mode, inserted, active>>
    BY <1>1 DEF Arrive, Admit, RefuseRate, Count
  <1>3. GateInv'
    BY <1>1, AdmitPreserves, RefusePreserves DEF ServiceInv
  <1>4. CASE RefuseRate(t) /\ Fails(h)
    BY <1>2, <1>3, <1>4, FailPreserves
  <1>5. CASE handler' = [handler EXCEPT ![h] = [Handling("verifying", t) EXCEPT !.since = active]]
    <2> DEFINE r == [Handling("verifying", t) EXCEPT !.since = active]
    <2>1. r \in Handler
      BY GateConstants, ServiceAssumption DEF ServiceInv, GateInv, GateTypeOK, Handling, Handler, Ended
    <2>2. Holds(r, tokens, mode, active, inserted)
      BY ServiceTypes DEF Handling, Holds, None
    <2> HIDE DEF r
    <2>3. handler' = [handler EXCEPT ![h] = r]
      BY <1>5 DEF r
    <2> QED BY <1>2, <1>3, <2>1, <2>2, <2>3, HandlerStep
  <1> QED BY <1>1, <1>4, <1>5

\* What a handler holds after each of its steps.
After(h, r) ==
    /\ handler' = [handler EXCEPT ![h] = r]
    /\ r \in Handler
    /\ Holds(r, tokens, mode, active, inserted)

LEMMA AuthenticatedAfter ==
    ASSUME ServiceInv, NEW h \in Handlers, Authenticated(h),
           handler[h].pc \in {"verifying", "resolving"}
    PROVE  After(h, [handler[h] EXCEPT !.pc = "loading", !.token = NoToken])
  <1>1. handler[h] \in Handler /\ Holds(handler[h], tokens, mode, active, inserted)
    BY DEF ServiceInv
  <1>2. handler' = [handler EXCEPT ![h] = [handler[h] EXCEPT !.pc = "loading", !.token = NoToken]]
    BY DEF Authenticated, ServiceInv
  <1> QED BY <1>1, <1>2 DEF After, Handler, Holds

LEMMA ServePreserves ==
    ASSUME ServiceInv, NEW h \in Handlers, Serve(h)
    PROVE  ServiceInv'
  <1> DEFINE s == handler[h]
  <1>1. s \in Handler /\ Holds(s, tokens, mode, active, inserted)
    BY DEF ServiceInv
  <1>2. UNCHANGED <<clock, tokens, mode, inserted, active>> /\ UNCHANGED gateVars
    BY DEF Serve, Verify, Resolve, Load, Measure, Ask, Answer, gateVars
  <1>3. GateInv'
    BY <1>2 DEF ServiceInv, GateInv, gateVars, GateTypeOK, Counted, NoneToCome, BucketsPurged,
                Witnessed, WindowStart
  <1>4. ASSUME NEW r, After(h, r)
        PROVE  ServiceInv'
    BY <1>2, <1>3, <1>4, HandlerStep DEF After
  <1>5. ASSUME Fails(h) PROVE ServiceInv'
    BY <1>2, <1>3, <1>5, FailPreserves
  <1>6. ASSUME Authenticated(h), s.pc \in {"verifying", "resolving"} PROVE ServiceInv'
    BY <1>4, <1>6, AuthenticatedAfter
  <1>7. CASE Verify(h)
    <2>1. \/ Authenticated(h) \/ Fails(h)
          \/ /\ s.pc = "verifying" /\ mode = "store"
             /\ handler' = [handler EXCEPT ![h].pc = "resolving"]
      <3>1. mode \in {"store", "embedded", "open"}
        BY GateAssumption DEF ServiceInv, GateInv, GateTypeOK
      <3>2. CASE mode = "open"
        BY <1>7, <3>2 DEF Verify
      <3>3. CASE mode = "embedded"
        BY <1>7, <3>3 DEF Verify
      <3>4. CASE mode = "store"
        BY <1>7, <3>4 DEF Verify, Is
      <3> QED BY <3>1, <3>2, <3>3, <3>4
    <2>2. CASE s.pc = "verifying" /\ mode = "store" /\ handler' = [handler EXCEPT ![h].pc = "resolving"]
      <3>1. After(h, [s EXCEPT !.pc = "resolving"])
        <4> DEFINE r == [s EXCEPT !.pc = "resolving"]
        <4>1. handler' = [handler EXCEPT ![h] = r]
          BY <2>2 DEF ServiceInv
        <4>2. r \in Handler
          BY <1>1, <2>2 DEF Handler, Ended
        <4>3. Holds(r, tokens, mode, active, inserted)
          BY <1>1, <2>2 DEF Holds, Handler
        <4> QED BY <4>1, <4>2, <4>3 DEF After
      <3> QED BY <1>4, <3>1
    <2> QED BY <1>5, <1>6, <1>7, <2>1, <2>2 DEF Verify, Is
  <1>8. CASE Resolve(h)
    BY <1>5, <1>6, <1>8 DEF Resolve, Is
  <1>9. CASE Load(h)
    <2>1. CASE s.pc = "loading" /\ handler' = [handler EXCEPT ![h].pc = "reading", ![h].version = active]
      <3>1. After(h, [s EXCEPT !.pc = "reading", !.version = active])
        <4> DEFINE r == [s EXCEPT !.pc = "reading", !.version = active]
        <4>1. handler' = [handler EXCEPT ![h] = r]
          BY <2>1 DEF ServiceInv
        <4>2. r \in Handler
          BY <1>1, <2>1, ServiceTypes, ServiceAssumption DEF Handler, Ended
        <4>3. Holds(r, tokens, mode, active, inserted)
          BY <1>1, <2>1, ServiceTypes, ServiceAssumption DEF Holds, Handler
        <4> QED BY <4>1, <4>2, <4>3 DEF After
      <3> QED BY <1>4, <3>1
    <2> QED BY <1>5, <1>9, <2>1 DEF Load, Is
  <1>10. CASE Measure(h)
    <2>1. CASE s.pc = "reading" /\ handler' = [handler EXCEPT ![h].pc = "measuring", ![h].now = clock]
      <3>1. After(h, [s EXCEPT !.pc = "measuring", !.now = clock])
        <4> DEFINE r == [s EXCEPT !.pc = "measuring", !.now = clock]
        <4>1. handler' = [handler EXCEPT ![h] = r]
          BY <2>1 DEF ServiceInv
        <4>2. r \in Handler
          BY <1>1, <2>1, ServiceTypes, GateConstants DEF Handler, Ended
        <4>3. Holds(r, tokens, mode, active, inserted)
          BY <1>1, <2>1, ServiceTypes, GateConstants DEF Holds, Handler
        <4> QED BY <4>1, <4>2, <4>3 DEF After
      <3> QED BY <1>4, <3>1
    <2> QED BY <1>5, <1>10, <2>1 DEF Measure, Is
  <1>11. CASE Ask(h)
    <2> DEFINE l == Freshness(inserted, s.now)
    <2>1. CASE /\ s.pc = "measuring"
               /\ handler' = [handler EXCEPT ![h].pc = "asking", ![h].label = l, ![h].data = inserted]
      <3>1. /\ l \in {None, "unknown", "fresh", "stale"}
            /\ l = "fresh" => inserted # 0 /\ s.now - inserted <= Threshold
        BY <1>1, HandlerFields, ServiceTypes, ServiceAssumption DEF Freshness
      <3> HIDE DEF l
      <3>2. After(h, [s EXCEPT !.pc = "asking", !.label = l, !.data = inserted])
        <4> DEFINE r == [s EXCEPT !.pc = "asking", !.label = l, !.data = inserted]
        <4>1. handler' = [handler EXCEPT ![h] = r]
          BY <2>1 DEF ServiceInv
        <4>2. r \in Handler
          BY <1>1, <2>1, <3>1, ServiceTypes, GateConstants DEF Handler, Ended
        <4>3. Holds(r, tokens, mode, active, inserted)
          BY <1>1, <2>1, <3>1, ServiceTypes, GateConstants DEF Holds, Handler
        <4> QED BY <4>1, <4>2, <4>3 DEF After
      <3> QED BY <1>4, <3>2
    <2> QED BY <1>5, <1>11, <2>1 DEF Ask, Is
  <1>12. CASE Answer(h)
    <2>1. CASE s.pc = "asking" /\ handler' = [handler EXCEPT ![h].pc = "answered", ![h].data = inserted]
      <3>1. /\ s.label = "fresh" => inserted # 0 /\ s.now - inserted <= Threshold
            /\ inserted \in 0..MaxClock
        BY <1>1, HandlerFields, ServiceTypes, ServiceAssumption, GateConstants DEF Holds
      <3>2. After(h, [s EXCEPT !.pc = "answered", !.data = inserted])
        <4> DEFINE r == [s EXCEPT !.pc = "answered", !.data = inserted]
        <4>1. handler' = [handler EXCEPT ![h] = r]
          BY <2>1 DEF ServiceInv
        <4>2. r \in Handler
          BY <1>1, <2>1, <3>1, ServiceTypes DEF Handler, Ended
        <4>3. Holds(r, tokens, mode, active, inserted)
          BY <1>1, <2>1, <3>1, ServiceTypes DEF Holds, Handler
        <4> QED BY <4>1, <4>2, <4>3 DEF After
      <3> QED BY <1>4, <3>2
    <2> QED BY <1>5, <1>12, <2>1 DEF Answer, Is
  <1> QED BY <1>7, <1>8, <1>9, <1>10, <1>11, <1>12 DEF Serve

\* Time, tokens and memberships, and what is ingested and activated, take
\* nothing from what the handlers hold.
LEMMA OthersPreserve ==
    ASSUME ServiceInv,
           \/ /\ Tick \/ \E u \in Users : Issue(u) \/ SetMembership(u)
              /\ UNCHANGED <<inserted, active, handler>>
           \/ Activate \/ Ingest \/ UNCHANGED vars
    PROVE  ServiceInv'
  <1>1. GateInv'
    <2>1. CASE UNCHANGED gateVars
      BY <2>1 DEF ServiceInv, GateInv, gateVars, GateTypeOK, Counted, NoneToCome, BucketsPurged,
                  Witnessed, WindowStart
    <2>2. CASE Activate \/ Ingest \/ UNCHANGED vars
      BY <2>1, <2>2 DEF Activate, Ingest, vars, gateVars
    <2>3. CASE Tick \/ \E u \in Users : Issue(u) \/ SetMembership(u)
      BY <2>3, TickPreserves, IssuePreserves, MembershipPreserves DEF ServiceInv
    <2> QED BY <2>2, <2>3
  <1>2. handler' = handler /\ mode' = mode /\ tokens \subseteq tokens'
    BY DEF Tick, Issue, SetMembership, Activate, Ingest, vars, gateVars
  <1>3. /\ active' \in Nat /\ active <= active' /\ active' \in 1..MaxVersion
        /\ inserted' \in Nat /\ inserted <= inserted' /\ inserted' \in 0..clock'
    BY ServiceTypes, ServiceAssumption, GateConstants
       DEF ServiceInv, Tick, Issue, SetMembership, Activate, Ingest, vars, gateVars
  <1>4. ASSUME NEW h \in Handlers
        PROVE  Holds(handler[h], tokens', mode, active', inserted')
    BY <1>2, <1>3, ServiceTypes, HoldsOn DEF ServiceInv
  <1> QED BY <1>1, <1>2, <1>3, <1>4 DEF ServiceInv

LEMMA ServiceInvariant == Spec => []ServiceInv
  <1>1. Init => ServiceInv
    <2> SUFFICES ASSUME Init PROVE ServiceInv
      OBVIOUS
    <2>1. GateInv
      BY GateStarts DEF Init
    <2>2. /\ inserted \in 0..clock /\ active \in 1..MaxVersion
          /\ inserted \in Nat /\ active \in Nat
      BY ServiceAssumption DEF Init, GateInit
    <2>3. Handling("idle", NoToken) \in Handler
      <3>1. 0 \in 0..MaxVersion /\ 0 \in 0..MaxClock
        BY GateConstants, ServiceAssumption
      <3> QED BY <3>1 DEF Handling, Handler, Ended
    <2>4. Holds(Handling("idle", NoToken), tokens, mode, active, inserted)
      BY <2>2 DEF Handling, Holds, None
    <2>5. handler = [h \in Handlers |-> Handling("idle", NoToken)]
      BY DEF Init
    <2> QED BY <2>1, <2>2, <2>3, <2>4, <2>5 DEF ServiceInv
  <1>2. ServiceInv /\ [Next]_vars => ServiceInv'
    BY ArrivePreserves, ServePreserves, OthersPreserve DEF Next
  <1> QED BY <1>1, <1>2, PTL DEF Spec

\* Whatever is requested, counted, forgotten and reloaded, every variable
\* keeps its type; in particular no bucket outgrows its bound.
THEOREM ServiceTypeCorrect == Spec => []TypeOK
  <1>1. ServiceInv => TypeOK
    BY ServiceTypes
  <1> QED BY <1>1, ServiceInvariant, PTL

\* No token gets more than the limit through in a window, although buckets are
\* deleted while its window lasts (memoryLimit).
THEOREM RateIsLimited == Spec => []AdmittedWithinLimit
  <1>1. ServiceInv => AdmittedWithinLimit
    BY DEF ServiceInv, GateInv, Counted, AdmittedWithinLimit
  <1> QED BY <1>1, ServiceInvariant, PTL

\* Above the threshold the isolate keeps the buckets of one window only
\* (memoryLimit).
THEOREM MemoryIsBounded == Spec => []BucketsPurged
  <1>1. ServiceInv => BucketsPurged
    BY DEF ServiceInv, GateInv
  <1> QED BY <1>1, ServiceInvariant, PTL

\* An answer names a version that was active between its request and itself
\* (worker.js, one snapshot for a request).
THEOREM AnswersAreGoverned == Spec => []AnswersGoverned
  <1>1. ServiceInv => AnswersGoverned
    <2> SUFFICES ASSUME ServiceInv, NEW h \in Handlers, Is(h, "answered")
                 PROVE  handler[h].version \in handler[h].since..active
      BY DEF AnswersGoverned
    <2>1. handler[h] \in Handler /\ Holds(handler[h], tokens, mode, active, inserted)
      BY DEF ServiceInv
    <2> QED BY <2>1, HandlerFields, ServiceTypes DEF Is, Holds
  <1> QED BY <1>1, ServiceInvariant, PTL

\* What is called fresh is within the threshold, whatever arrives between the
\* query for the freshness and the query for the data (worker.js, freshness.js).
THEOREM FreshIsFresh == Spec => []FreshAnswersAreFresh
  <1>1. ServiceInv => FreshAnswersAreFresh
    BY DEF ServiceInv, Holds, FreshAnswersAreFresh
  <1> QED BY <1>1, ServiceInvariant, PTL

\* Whoever is let in is a member, or was one until the life of a token and its
\* skew before, and that only where the token carries the membership (auth.js).
THEOREM RemovedAreKeptOut == Spec => RemovedMembersKeptOut
  <1> DEFINE Kept(h) ==
        mode # "open" /\ handler[h].pc # "loading" /\ handler'[h].pc = "loading" =>
            \/ member[handler[h].token.user]
            \/ mode = "embedded" /\ clock <= lapsed[handler[h].token.user] + TokenLife + Skew
  <1>1. ASSUME ServiceInv, [Next]_vars, NEW h \in Handlers
        PROVE  Kept(h)
    <2> SUFFICES ASSUME mode # "open", handler[h].pc # "loading", handler'[h].pc = "loading"
                 PROVE  \/ member[handler[h].token.user]
                        \/ /\ mode = "embedded"
                           /\ clock <= lapsed[handler[h].token.user] + TokenLife + Skew
      OBVIOUS
    <2> DEFINE t == handler[h].token
    <2>1. handler \in [Handlers -> Handler] /\ Holds(handler[h], tokens, mode, active, inserted)
      BY <1>1 DEF ServiceInv
    <2>2. Verify(h) \/ Resolve(h)
      <3>1. PICK g \in Handlers : Arrive(g) \/ Serve(g)
        BY <1>1 DEF Next, vars, Activate, Ingest
      <3>2. CASE Arrive(g)
        BY <2>1, <3>2 DEF Arrive, Fails, Handling
      <3>3. CASE Load(g) \/ Measure(g) \/ Ask(g) \/ Answer(g)
        <4>1. CASE Fails(g)
          BY <2>1, <4>1 DEF Fails, Handling
        <4>2. CASE Load(g)
          BY <2>1, <4>1, <4>2 DEF Load, Handler
        <4>3. CASE Measure(g)
          BY <2>1, <4>1, <4>3 DEF Measure, Handler
        <4>4. CASE Ask(g)
          BY <2>1, <4>1, <4>4 DEF Ask, Handler
        <4>5. CASE Answer(g)
          BY <2>1, <4>1, <4>5 DEF Answer, Handler
        <4> QED BY <3>3, <4>2, <4>3, <4>4, <4>5
      <3>4. CASE Verify(g) \/ Resolve(g)
        <4>1. g = h
          <5>1. \A o \in Handlers : o # g => handler'[o] = handler[o]
            <6>1. mode \in {"store", "embedded"}
              BY <1>1, GateAssumption DEF ServiceInv, GateInv, GateTypeOK
            <6>2. CASE mode = "embedded"
              BY <2>1, <3>4, <6>2 DEF Verify, Resolve, Fails, Authenticated
            <6>3. CASE mode = "store"
              BY <2>1, <3>4, <6>3 DEF Verify, Resolve, Fails, Authenticated
            <6> QED BY <6>1, <6>2, <6>3
          <5> QED BY <5>1
        <4> QED BY <3>4, <4>1
      <3> QED BY <3>1, <3>2, <3>3, <3>4 DEF Serve
    <2>3. t \in tokens /\ t \in Token /\ mode \in {"store", "embedded"}
      BY <1>1, <2>1, <2>2, GateAssumption
         DEF Holds, Verify, Resolve, Is, ServiceInv, GateInv, GateTypeOK
    <2>4. CASE mode = "store"
      <3>1. Resolve(h)
        BY <2>1, <2>2, <2>4 DEF Verify, Fails, Handling, Handler
      <3> QED BY <2>1, <2>4, <3>1 DEF Resolve, ActiveMember, Fails, Handling
    <2>5. CASE mode = "embedded"
      <3>1. Accepted(t) /\ t.member
        BY <2>1, <2>2, <2>5 DEF Verify, Resolve, Is, Holds, Fails, Handling, ActiveMember
      <3>2. member[t.user] \/ t.expires - TokenLife <= lapsed[t.user]
        BY <1>1, <2>3, <3>1 DEF ServiceInv, GateInv, Witnessed
      <3>3. t.expires \in Nat /\ lapsed[t.user] \in Nat /\ clock \in Nat
        BY <1>1, <2>3, ServiceTypes, GateConstants DEF ServiceInv, GateInv, GateTypeOK, Token
      <3>4. t.expires >= clock - Skew
        BY <3>1, <3>3, GateConstants DEF Accepted
      <3> QED BY <2>5, <3>2, <3>3, <3>4, GateConstants
    <2> QED BY <2>3, <2>4, <2>5
  <1>2. ServiceInv /\ [Next]_vars => \A h \in Handlers : Kept(h)
    BY <1>1
  <1>3. Spec => [][\A h \in Handlers : Kept(h)]_vars
    BY <1>2, ServiceInvariant, PTL DEF Spec
  <1> QED BY <1>3 DEF RemovedMembersKeptOut
=============================================================================
