----------------------- MODULE MonitoringSchedulerProofs -----------------------
(***************************************************************************)
(* Theorems of MonitoringScheduler, for any rules, destinations,           *)
(* invocations and bounds.                                                 *)
(*                                                                         *)
(* Invocations overlap without a lock.  What keeps them apart is the claim *)
(* of a window: no two of them work on one window, a window nobody claimed *)
(* has left no trace, and so all that is recorded of a window is what its  *)
(* one worker did, whose accounts balance: what was told and what is left  *)
(* is what the rule listed, a destination as often as it is listed, and    *)
(* the calls are those of what was told and of the destination at hand.    *)
(***************************************************************************)
EXTENDS MonitoringScheduler, FiniteSetTheorems, TLAPS

WorkingStages == {"running", "sending", "recording", "completing"}

Statuses == {"delivered", "dead_letter"}

Working(i) == invocation[i].pc \in WorkingStages

\* The window an invocation in this stage is working on: its Window.
At(q) == <<Head(q.queue).id, WindowStart(Head(q.queue).rule, q.now)>>

\* How often a destination was told of a window.
Told(w, d) == Recorded(w, d, "delivered") + Recorded(w, d, "dead_letter")

\* The calls a record stands for at least, and those all of them stand for.
Cost(status) == IF status = "delivered" THEN 1 ELSE 3

Spent(w, d) == Recorded(w, d, "delivered") + 3 * Recorded(w, d, "dead_letter")

\* The calls of a window are those of its records, and between low and high for
\* the destination that is called now.
Accounted(w, current, low, high) ==
    \A d \in Destinations :
        /\ Spent(w, d) + (IF d = current THEN low ELSE 0) <= Tries(w, d)
        /\ Tries(w, d) <= 3 * Told(w, d) + (IF d = current THEN high ELSE 0)

\* What was told and what is left is what was listed.
Remaining(w, left) ==
    /\ left # <<>>
    /\ \A d \in Destinations : Told(w, d) + Times(left, d) = Times(listed[w], d)

Untold(w) ==
    \A d \in Destinations :
        /\ Tries(w, d) = 0
        /\ \A status \in Statuses : Recorded(w, d, status) = 0

\* Who was told when a run is completed: all that were listed, or nobody.
Concluded(w, alert) ==
    \A d \in Destinations : Told(w, d) = IF alert = TRUE THEN Times(listed[w], d) ELSE 0

\* An invocation that works has claimed its window, has not completed it, and
\* has left of it what its stage says.
OnTrack(q) ==
    q.pc \in WorkingStages =>
        /\ q.queue # <<>>
        /\ At(q) \in claims
        /\ ~Completed(At(q))
        /\ q.pc = "running" => Untold(At(q)) /\ listed[At(q)] = Head(q.queue).rule.destinations
        /\ q.pc \in {"sending", "recording"} => q.alert = TRUE /\ Remaining(At(q), q.left)
        /\ q.pc = "sending" => Accounted(At(q), Head(q.left), q.attempt - 1, q.attempt - 1)
        /\ q.pc = "recording" =>
               /\ Accounted(At(q), Head(q.left), Cost(q.status), 3)
               /\ q.status = "delivered" => Arrived(At(q), Head(q.left))
        /\ q.pc = "completing" => Concluded(At(q), q.alert)

Apart ==
    \A i, j \in Invocations :
        i # j /\ Working(i) /\ Working(j) => At(invocation[i]) # At(invocation[j])

\* A window nobody claimed.
Untouched(w) == ~Completed(w) /\ Untold(w)

SchedulerInv ==
    /\ TypeOK
    /\ AttemptsBounded
    /\ DeliveriesTrue
    /\ \A w \in (Rules \X Hours) \ claims : Untouched(w)
    /\ \A i \in Invocations : OnTrack(invocation[i])
    /\ Apart

\* A step may change what is known of the window w, and of no other.
OnlyOf(w) ==
    /\ claims \subseteq claims'
    /\ claims' \subseteq claims \cup {w}
    /\ arrived \subseteq arrived'
    /\ \A v \in (Rules \X Hours) \ {w} :
          /\ Completed(v)' <=> Completed(v)
          /\ listed'[v] = listed[v]
          /\ \A d \in Destinations :
                /\ Tries(v, d)' = Tries(v, d)
                /\ \A status \in Statuses : Recorded(v, d, status)' = Recorded(v, d, status)

-----------------------------------------------------------------------------
(***************************************************************************)
(* Counting.                                                               *)
(***************************************************************************)
\* The places where a sequence holds an element are finitely many.
LEMMA PlacesFinite ==
    ASSUME NEW S, NEW list \in Seq(S), NEW e
    PROVE  IsFiniteSet({m \in DOMAIN list : list[m] = e})
  <1>1. DOMAIN list = 1..Len(list) /\ Len(list) \in Nat
    OBVIOUS
  <1>2. IsFiniteSet(1..Len(list))
    BY <1>1, FS_Interval
  <1> QED BY <1>1, <1>2, FS_Subset

\* A count is a natural number, and positive of what the sequence begins with.
LEMMA TimesType ==
    ASSUME NEW S, NEW list \in Seq(S), NEW e
    PROVE  /\ Times(list, e) \in Nat
           /\ list # <<>> /\ e = Head(list) => Times(list, e) > 0
  <1> DEFINE places == {m \in DOMAIN list : list[m] = e}
  <1>1. IsFiniteSet(places)
    BY PlacesFinite
  <1>2. Cardinality(places) \in Nat
    BY <1>1, FS_CardinalityType
  <1>3. ASSUME list # <<>>, e = Head(list) PROVE Cardinality(places) > 0
    <2>1. 1 \in places
      BY <1>3
    <2>2. Cardinality(places) # 0
      <3> HIDE DEF places
      <3> QED BY <1>1, <2>1, FS_EmptySet
    <2> HIDE DEF places
    <2> QED BY <1>2, <2>2
  <1> QED BY <1>2, <1>3 DEF Times

LEMMA TimesEmpty == \A e : Times(<<>>, e) = 0
  BY FS_EmptySet DEF Times

LEMMA TimesAppend ==
    ASSUME NEW S, NEW list \in Seq(S), NEW last \in S, NEW e
    PROVE  Times(Append(list, last), e) = Times(list, e) + (IF e = last THEN 1 ELSE 0)
  <1> DEFINE places == {m \in DOMAIN list : list[m] = e}
             longer == {m \in DOMAIN Append(list, last) : Append(list, last)[m] = e}
             n == Len(list)
  <1>1. /\ n \in Nat /\ DOMAIN list = 1..n /\ DOMAIN Append(list, last) = 1..(n + 1)
        /\ \A m \in 1..n : Append(list, last)[m] = list[m]
        /\ Append(list, last)[n + 1] = last
    OBVIOUS
  <1>2. IsFiniteSet(places) /\ Cardinality(places) \in Nat
    BY PlacesFinite, FS_CardinalityType
  <1>3. n + 1 \notin places
    BY <1>1
  <1>4. CASE e = last
    <2>1. longer = places \cup {n + 1}
      BY <1>1, <1>4
    <2>2. Cardinality(longer) = Cardinality(places) + 1
      <3> HIDE DEF places, longer
      <3> QED BY <1>2, <1>3, <2>1, FS_AddElement
    <2> QED BY <1>4, <2>2 DEF Times
  <1>5. CASE e # last
    <2>1. longer = places
      BY <1>1, <1>5
    <2> HIDE DEF longer
    <2>2. Cardinality(longer) = Cardinality(places) + 0
      <3> HIDE DEF places
      <3> QED BY <1>2, <2>1
    <2> QED BY <1>5, <2>2 DEF Times, longer
  <1> QED BY <1>4, <1>5

LEMMA TimesTail ==
    ASSUME NEW S, NEW list \in Seq(S), list # <<>>, NEW e
    PROVE  Times(Tail(list), e) = Times(list, e) - (IF e = Head(list) THEN 1 ELSE 0)
  <1> DEFINE places == {m \in DOMAIN list : list[m] = e}
             later == places \ {1}
             shorter == {m \in DOMAIN Tail(list) : Tail(list)[m] = e}
             n == Len(list)
             next == [m \in shorter |-> m + 1]
  <1>1. /\ n \in Nat /\ n > 0 /\ DOMAIN list = 1..n /\ DOMAIN Tail(list) = 1..(n - 1)
        /\ \A m \in 1..(n - 1) : Tail(list)[m] = list[m + 1]
        /\ Head(list) = list[1]
    OBVIOUS
  <1>2. IsFiniteSet(places) /\ Cardinality(places) \in Nat
    BY PlacesFinite, FS_CardinalityType
  <1>3. IsFiniteSet(shorter)
    <2>1. Tail(list) \in Seq(S)
      OBVIOUS
    <2> QED BY <2>1, PlacesFinite
  <1>4. next \in Bijection(shorter, later)
    <2>1. \A m \in shorter : m \in Nat /\ m + 1 \in later
      BY <1>1
    <2>2. \A k \in later : k - 1 \in shorter /\ (k - 1) + 1 = k
      BY <1>1
    <2> HIDE DEF shorter, later
    <2>3. next \in [shorter -> later]
      BY <2>1
    <2>4. \A k \in later : \E m \in shorter : next[m] = k
      BY <2>2
    <2>5. \A m, k \in shorter : next[m] = next[k] => m = k
      BY <2>1
    <2> HIDE DEF next
    <2>6. next \in Injection(shorter, later)
      BY <2>3, <2>5 DEF Injection, IsInjective
    <2>7. next \in Surjection(shorter, later)
      BY <2>3, <2>4 DEF Surjection
    <2> QED BY <2>6, <2>7 DEF Bijection
  <1>5. Cardinality(shorter) = Cardinality(later)
    <2>1. ExistsBijection(shorter, later)
      BY <1>4, Zenon DEF ExistsBijection
    <2> HIDE DEF shorter, later
    <2> QED BY <1>3, <2>1, FS_Bijection
  <1>6. 1 \in places <=> e = Head(list)
    BY <1>1
  <1>7. Cardinality(later) = IF 1 \in places THEN Cardinality(places) - 1 ELSE Cardinality(places)
    <2> HIDE DEF places
    <2> QED BY <1>2, FS_RemoveElement
  <1>8. Cardinality(shorter) = Cardinality(places) - (IF e = Head(list) THEN 1 ELSE 0)
    <2> HIDE DEF places, shorter, later
    <2> QED BY <1>2, <1>5, <1>6, <1>7
  <1> QED BY <1>8 DEF Times

-----------------------------------------------------------------------------
(***************************************************************************)
(* Types.                                                                  *)
(***************************************************************************)
LEMMA WindowType ==
    ASSUME NEW rule \in RuleRecords, NEW now \in Hours
    PROVE  WindowStart(rule, now) \in Hours
  <1>1. rule.period \in Nat /\ rule.period > 0
    BY RuleRecordsAssumption DEF RuleRecord
  <1>2. now \in Nat /\ now <= MaxHour /\ MaxHour \in Nat
    BY BoundsAssumption DEF Hours
  <1> DEFINE p == rule.period
  <1>3. \A a \in Nat, b \in Nat \ {0} : a % b \in Nat /\ a % b <= a
    OBVIOUS
  <1>4. now % p \in Nat /\ now % p <= now
    BY <1>1, <1>2, <1>3
  <1> HIDE DEF p
  <1>5. now - (now % p) \in 0..MaxHour
    BY <1>2, <1>4
  <1> QED BY <1>5 DEF WindowStart, Hours, p

LEMMA AtType ==
    ASSUME NEW q \in Invocation, q.queue # <<>>
    PROVE  /\ Head(q.queue) \in Due
           /\ Head(q.queue).id \in Rules
           /\ Head(q.queue).rule \in RuleRecords
           /\ At(q) \in Rules \X Hours
           /\ Tail(q.queue) \in Seq(Due)
  <1>1. q.queue \in Seq(Due) /\ q.now \in Hours
    BY DEF Invocation
  <1>2. Head(q.queue) \in Due /\ Tail(q.queue) \in Seq(Due)
    BY <1>1
  <1>3. Head(q.queue).id \in Rules /\ Head(q.queue).rule \in RuleRecords
    BY <1>2 DEF Due
  <1> QED BY <1>1, <1>2, <1>3, WindowType DEF At

LEMMA StartedType ==
    ASSUME NEW pc \in {"idle", "looping", "done", "failed"}, NEW now \in Hours,
           NEW queue \in Seq(Due)
    PROVE  /\ Started(pc, now, queue) \in Invocation
           /\ Started(pc, now, queue).pc \notin WorkingStages
  BY DEF Started, Invocation, WorkingStages, MaxAttempts

\* The numbers of a window.
LEMMA NumbersType ==
    ASSUME TypeOK, NEW w \in Rules \X Hours, NEW d \in Destinations
    PROVE  /\ Tries(w, d) \in Nat
           /\ \A status : Recorded(w, d, status) \in Nat
           /\ Told(w, d) \in Nat /\ Spent(w, d) \in Nat
           /\ listed[w] \in Seq(Destinations)
           /\ Times(listed[w], d) \in Nat
  <1>1. Tries(w, d) \in Nat
    BY DEF TypeOK, Tries
  <1>2. ASSUME NEW status PROVE Recorded(w, d, status) \in Nat
    <2> DEFINE Delivery == [rule: Rules, window: Hours, destination: Destinations,
                            status: {"delivered", "dead_letter"}]
    <2>1. deliveries \in Seq(Delivery)
      BY DEF TypeOK
    <2> HIDE DEF Delivery
    <2> QED BY <2>1, TimesType DEF Recorded
  <1>3. listed[w] \in Seq(Destinations)
    BY DEF TypeOK
  <1>4. Times(listed[w], d) \in Nat
    BY <1>3, TimesType
  <1>5. Told(w, d) \in Nat /\ Spent(w, d) \in Nat
    BY <1>2 DEF Told, Spent
  <1> QED BY <1>1, <1>2, <1>3, <1>4, <1>5

\* A record more counts for its own window, destination and status.
LEMMA RecordedAppend ==
    ASSUME TypeOK, NEW w \in Rules \X Hours, NEW d \in Destinations, NEW status \in Statuses,
           deliveries' = Append(deliveries, [rule |-> w[1], window |-> w[2],
                                             destination |-> d, status |-> status]),
           NEW v \in Rules \X Hours, NEW e \in Destinations, NEW other \in Statuses
    PROVE  Recorded(v, e, other)' =
               Recorded(v, e, other) + (IF v = w /\ e = d /\ other = status THEN 1 ELSE 0)
  <1> DEFINE Delivery == [rule: Rules, window: Hours, destination: Destinations,
                          status: {"delivered", "dead_letter"}]
             entry == [rule |-> w[1], window |-> w[2], destination |-> d, status |-> status]
             counted == [rule |-> v[1], window |-> v[2], destination |-> e, status |-> other]
  <1>1. deliveries \in Seq(Delivery)
    BY DEF TypeOK
  <1>2. entry \in Delivery
    BY DEF Statuses
  <1>3. counted = entry <=> v = w /\ e = d /\ other = status
    <2>1. counted = entry => v[1] = w[1] /\ v[2] = w[2] /\ e = d /\ other = status
      OBVIOUS
    <2>2. v = w <=> v[1] = w[1] /\ v[2] = w[2]
      OBVIOUS
    <2> QED BY <2>1, <2>2
  <1> HIDE DEF Delivery, entry, counted
  <1>4. Times(Append(deliveries, entry), counted) =
            Times(deliveries, counted) + (IF counted = entry THEN 1 ELSE 0)
    BY <1>1, <1>2, TimesAppend
  <1>5. deliveries' = Append(deliveries, entry)
    BY DEF entry
  <1>6. Times(deliveries, counted)' = Times(Append(deliveries, entry), counted)
    BY <1>5 DEF Times, counted
  <1>7. /\ Recorded(v, e, other) = Times(deliveries, counted)
        /\ Recorded(v, e, other)' = Times(deliveries, counted)'
    BY DEF Recorded, counted
  <1> QED BY <1>3, <1>4, <1>6, <1>7

-----------------------------------------------------------------------------
(***************************************************************************)
(* What a step of one invocation leaves of the others.                     *)
(***************************************************************************)
\* A step about another window leaves an invocation on track.
LEMMA Elsewhere ==
    ASSUME NEW q \in Invocation, OnTrack(q), NEW w, OnlyOf(w),
           q.pc \in WorkingStages => At(q) # w
    PROVE  OnTrack(q)'
  <1>1. CASE q.pc \notin WorkingStages
    BY <1>1 DEF OnTrack
  <1>2. CASE q.pc \in WorkingStages
    <2> DEFINE v == At(q)
    <2>1. v \in (Rules \X Hours) \ {w} /\ At(q)' = v
      BY <1>2, AtType DEF OnTrack, At, WindowStart
    <2>2. /\ Completed(v)' <=> Completed(v)
          /\ listed'[v] = listed[v]
          /\ \A d \in Destinations :
                /\ Tries(v, d)' = Tries(v, d)
                /\ \A status \in Statuses : Recorded(v, d, status)' = Recorded(v, d, status)
          /\ claims \subseteq claims' /\ arrived \subseteq arrived'
      BY <2>1 DEF OnlyOf
    <2>3. \A d \in Destinations : Told(v, d)' = Told(v, d) /\ Spent(v, d)' = Spent(v, d)
      BY <2>2 DEF Told, Spent, Statuses
    <2> HIDE DEF v
    <2>4. /\ q.queue # <<>> /\ v \in claims' /\ ~Completed(v)'
      BY <1>2, <2>2 DEF OnTrack, v
    <2>5. CASE q.pc = "running"
      BY <2>1, <2>2, <2>4, <2>5 DEF OnTrack, Untold, v
    <2>6. CASE q.pc = "completing"
      BY <2>1, <2>2, <2>3, <2>4, <2>6 DEF OnTrack, Concluded, v
    <2>7. CASE q.pc \in {"sending", "recording"}
      <3>1. q.alert = TRUE /\ Remaining(v, q.left)
        BY <1>2, <2>7 DEF OnTrack, v
      <3>2. Remaining(v, q.left)'
        BY <2>2, <2>3, <3>1 DEF Remaining, Times
      <3>3. q.pc = "sending" => Accounted(v, Head(q.left), q.attempt - 1, q.attempt - 1)'
        BY <1>2, <2>2, <2>3 DEF OnTrack, Accounted, v
      <3>4. q.pc = "recording" => /\ Accounted(v, Head(q.left), Cost(q.status), 3)'
                                  /\ q.status = "delivered" => Arrived(v, Head(q.left))'
        BY <1>2, <2>2, <2>3 DEF OnTrack, Accounted, Cost, Arrived, v
      <3> QED BY <2>1, <2>4, <2>7, <3>1, <3>2, <3>3, <3>4 DEF OnTrack
    <2> QED BY <1>2, <2>5, <2>6, <2>7 DEF WorkingStages
  <1> QED BY <1>1, <1>2

\* So does a step that leaves what is stored.
LEMMA Unmoved ==
    ASSUME NEW q, OnTrack(q),
           UNCHANGED <<claims, completions, deliveries, attempts, arrived, listed>>
    PROVE  OnTrack(q)'
  <1> DEFINE v == At(q)
  <1>1. \A d, status : /\ Recorded(v, d, status)' = Recorded(v, d, status)
                       /\ Tries(v, d)' = Tries(v, d)
                       /\ Arrived(v, d)' <=> Arrived(v, d)
    BY DEF Recorded, Times, Tries, Arrived
  <1>2. \A d : Told(v, d)' = Told(v, d) /\ Spent(v, d)' = Spent(v, d)
    BY <1>1 DEF Told, Spent
  <1>3. /\ At(q)' = v /\ claims' = claims /\ listed' = listed
        /\ Completed(v)' <=> Completed(v)
    BY DEF At, WindowStart, Completed
  <1> HIDE DEF v
  <1>4. /\ Untold(v)' <=> Untold(v)
        /\ Concluded(v, q.alert)' <=> Concluded(v, q.alert)
        /\ Remaining(v, q.left)' <=> Remaining(v, q.left)
    BY <1>1, <1>2, <1>3 DEF Untold, Concluded, Remaining, Times
  <1>5. \A d, low, high : Accounted(v, d, low, high)' <=> Accounted(v, d, low, high)
    BY <1>1, <1>2 DEF Accounted
  <1>6. Cost(q.status)' = Cost(q.status)
    BY DEF Cost
  <1> QED BY <1>1, <1>3, <1>4, <1>5, <1>6 DEF OnTrack, v

\* And the numbers that are stored.
LEMMA SameRecords ==
    ASSUME UNCHANGED <<deliveries, attempts, arrived, listed>>
    PROVE  /\ AttemptsBounded' <=> AttemptsBounded
           /\ DeliveriesTrue' <=> DeliveriesTrue
           /\ \A v : Untold(v)' <=> Untold(v)
  <1>1. \A v, d, status : /\ Recorded(v, d, status)' = Recorded(v, d, status)
                          /\ Tries(v, d)' = Tries(v, d)
                          /\ Arrived(v, d)' <=> Arrived(v, d)
    BY DEF Recorded, Times, Tries, Arrived
  <1>2. AttemptsBounded' <=> AttemptsBounded
    BY <1>1 DEF AttemptsBounded, Times
  <1>3. DeliveriesTrue' <=> DeliveriesTrue
    BY <1>1 DEF DeliveriesTrue
  <1>4. \A v : Untold(v)' <=> Untold(v)
    BY <1>1 DEF Untold
  <1> QED BY <1>2, <1>3, <1>4

LEMMA SameNumbers ==
    ASSUME UNCHANGED <<completions, deliveries, attempts, arrived, listed>>
    PROVE  /\ AttemptsBounded' <=> AttemptsBounded
           /\ DeliveriesTrue' <=> DeliveriesTrue
           /\ \A v : Untouched(v)' <=> Untouched(v)
  BY SameRecords DEF Untouched, Completed

\* A step of i, about its window w, on which no other works.
LEMMA WorkStep ==
    ASSUME SchedulerInv, NEW i \in Invocations, NEW q \in Invocation,
           invocation' = [invocation EXCEPT ![i] = q],
           NEW w \in Rules \X Hours, OnlyOf(w), w \in claims',
           \A j \in Invocations \ {i} : Working(j) => At(invocation[j]) # w,
           q.pc \in WorkingStages => At(q) = w,
           OnTrack(q)'
    PROVE  /\ \A j \in Invocations : OnTrack(invocation[j])'
           /\ Apart'
           /\ \A v \in (Rules \X Hours) \ claims' : Untouched(v)'
  <1>1. \A j \in Invocations : invocation'[j] = IF j = i THEN q ELSE invocation[j]
    BY DEF SchedulerInv, TypeOK
  <1>2. ASSUME NEW j \in Invocations PROVE OnTrack(invocation[j])'
    <2>1. CASE j = i
      <3>1. invocation'[j] = q
        BY <1>1, <2>1
      <3> QED BY <3>1 DEF OnTrack, At
    <2>2. CASE j # i
      <3>1. PICK p \in Invocation : p = invocation[j]
        BY DEF SchedulerInv, TypeOK
      <3>2. invocation'[j] = p
        BY <1>1, <2>2, <3>1
      <3>3. p.pc \in WorkingStages => At(p) # w
        BY <2>2, <3>1 DEF Working
      <3>4. OnTrack(p)
        BY <3>1 DEF SchedulerInv
      <3>5. OnTrack(p)'
        BY <3>3, <3>4, Elsewhere
      <3> QED BY <3>2, <3>5 DEF OnTrack, At
    <2> QED BY <2>1, <2>2
  <1>3. Apart'
    <2> SUFFICES ASSUME NEW j \in Invocations, NEW k \in Invocations, j # k,
                        Working(j)', Working(k)'
                 PROVE  At(invocation'[j]) # At(invocation'[k])
      BY DEF Apart, At
    <2>1. CASE j # i /\ k # i
      BY <1>1, <2>1 DEF SchedulerInv, Apart, Working
    <2>2. CASE j = i
      BY <1>1, <2>2 DEF Working
    <2>3. CASE k = i
      BY <1>1, <2>3 DEF Working
    <2> QED BY <2>1, <2>2, <2>3
  <1>4. ASSUME NEW v \in (Rules \X Hours) \ claims' PROVE Untouched(v)'
    BY DEF SchedulerInv, OnlyOf, Untouched, Untold
  <1> QED BY <1>2, <1>3, <1>4

\* A step that changes nothing that is stored, and leaves i without a window.
LEMMA RestStep ==
    ASSUME SchedulerInv, NEW i \in Invocations, NEW q \in Invocation,
           invocation' = [invocation EXCEPT ![i] = q],
           q.pc \notin WorkingStages,
           UNCHANGED <<claims, completions, deliveries, attempts, arrived, listed>>,
           clock' \in Hours, rules' \in [Rules -> RuleRecords]
    PROVE  SchedulerInv'
  <1>1. \A j \in Invocations : invocation'[j] = IF j = i THEN q ELSE invocation[j]
    BY DEF SchedulerInv, TypeOK
  <1>2. TypeOK'
    BY DEF SchedulerInv, TypeOK
  <1>3. AttemptsBounded' /\ DeliveriesTrue'
    BY SameNumbers DEF SchedulerInv
  <1>4. ASSUME NEW v \in (Rules \X Hours) \ claims' PROVE Untouched(v)'
    BY SameNumbers DEF SchedulerInv
  <1>5. ASSUME NEW j \in Invocations PROVE OnTrack(invocation[j])'
    <2>1. CASE j = i
      BY <1>1, <2>1 DEF OnTrack
    <2>2. CASE j # i
      <3>1. PICK p \in Invocation : p = invocation[j] /\ p = invocation'[j]
        BY <1>1, <2>2 DEF SchedulerInv, TypeOK
      <3>2. OnTrack(p)
        BY <3>1 DEF SchedulerInv
      <3>3. OnTrack(p)'
        BY <3>2, Unmoved
      <3> QED BY <3>1, <3>3 DEF OnTrack, At
    <2> QED BY <2>1, <2>2
  <1>6. Apart'
    BY <1>1 DEF SchedulerInv, Apart, Working, At
  <1> QED BY <1>2, <1>3, <1>4, <1>5, <1>6 DEF SchedulerInv

-----------------------------------------------------------------------------
(***************************************************************************)
(* The steps that begin and end the work on a window.                      *)
(***************************************************************************)
LEMMA DueListsType ==
    ASSUME TypeOK, NEW now, NEW queue \in DueLists(now)
    PROVE  queue \in Seq(Due)
  <1> DEFINE due == {id \in Rules : rules[id].enabled /\ rules[id].nextRun <= now}
  <1>1. PICK ids \in SetToSeqs(due) :
            queue = [k \in 1..Min({Batch, Len(ids)}) |-> [id |-> ids[k], rule |-> rules[ids[k]]]]
    BY DEF DueLists
  <1>2. Cardinality(due) \in Nat
    BY BoundsAssumption, FS_Subset, FS_CardinalityType
  <1>3. ids \in [1..Cardinality(due) -> due]
    BY <1>1 DEF SetToSeqs
  <1>4. Len(ids) = Cardinality(due)
    BY <1>2, <1>3
  <1> DEFINE n == Min({Batch, Len(ids)})
  <1>5. n \in Nat /\ n <= Len(ids)
    <2>1. \E x \in {Batch, Len(ids)} : \A y \in {Batch, Len(ids)} : x =< y
      BY <1>2, <1>4, BoundsAssumption
    <2> QED BY <1>2, <1>4, <2>1, BoundsAssumption DEF Min
  <1>6. ASSUME NEW k \in 1..n PROVE [id |-> ids[k], rule |-> rules[ids[k]]] \in Due
    <2>1. ids[k] \in Rules
      BY <1>2, <1>3, <1>4, <1>5
    <2> QED BY <2>1 DEF TypeOK, Due
  <1>7. queue = [k \in 1..n |-> [id |-> ids[k], rule |-> rules[ids[k]]]]
    BY <1>1
  <1> HIDE DEF n, due
  <1>8. queue \in [1..n -> Due]
    BY <1>6, <1>7
  <1> QED BY <1>5, <1>8

LEMMA TriggerStep ==
    ASSUME SchedulerInv, NEW i \in Invocations, Trigger(i)
    PROVE  SchedulerInv'
  <1>1. PICK now \in Hours : \E queue \in DueLists(now) :
            /\ clock' = now
            /\ invocation' = [invocation EXCEPT ![i] = Started("looping", now, queue)]
    BY DEF Trigger
  <1>2. PICK queue \in DueLists(now) :
            /\ invocation' = [invocation EXCEPT ![i] = Started("looping", now, queue)]
    BY <1>1
  <1>3. queue \in Seq(Due)
    BY DueListsType DEF SchedulerInv
  <1>4. /\ Started("looping", now, queue) \in Invocation
        /\ Started("looping", now, queue).pc \notin WorkingStages
    BY <1>3, StartedType
  <1>5. /\ UNCHANGED <<claims, completions, deliveries, attempts, arrived, listed>>
        /\ rules' \in [Rules -> RuleRecords]
    BY DEF Trigger, SchedulerInv, TypeOK
  <1> QED BY <1>1, <1>2, <1>4, <1>5, RestStep

\* Finish, Throw and Abort leave the invocation without a queue.
LEMMA StopStep ==
    ASSUME SchedulerInv, NEW i \in Invocations, Finish(i) \/ Throw(i) \/ Abort(i)
    PROVE  SchedulerInv'
  <1>1. PICK pc \in {"done", "failed"} :
            invocation' = [invocation EXCEPT ![i] = Started(pc, 0, <<>>)]
    BY DEF Finish, Throw, Abort
  <1>2. /\ Started(pc, 0, <<>>) \in Invocation
        /\ Started(pc, 0, <<>>).pc \notin WorkingStages
    <2>1. 0 \in Hours /\ <<>> \in Seq(Due)
      BY BoundsAssumption DEF Hours
    <2> QED BY <2>1, StartedType
  <1>3. /\ UNCHANGED <<claims, completions, deliveries, attempts, arrived, listed>>
        /\ clock' \in Hours /\ rules' \in [Rules -> RuleRecords]
    BY DEF Finish, Throw, Abort, SchedulerInv, TypeOK
  <1> QED BY <1>1, <1>2, <1>3, RestStep

LEMMA SkipStep ==
    ASSUME SchedulerInv, NEW i \in Invocations, Skip(i)
    PROVE  SchedulerInv'
  <1>1. PICK p \in Invocation : p = invocation[i]
    BY DEF SchedulerInv, TypeOK
  <1> DEFINE q == [p EXCEPT !.queue = Tail(p.queue)]
  <1>2. invocation' = [invocation EXCEPT ![i] = q] /\ p.pc = "looping" /\ p.queue # <<>>
    BY <1>1 DEF Skip
  <1>3. q \in Invocation /\ q.pc = "looping"
    BY <1>2, AtType DEF Invocation
  <1>4. /\ UNCHANGED <<claims, completions, deliveries, attempts, arrived, listed>>
        /\ clock' \in Hours /\ rules' \in [Rules -> RuleRecords]
    BY DEF Skip, SchedulerInv, TypeOK
  <1> HIDE DEF q
  <1> QED BY <1>2, <1>3, <1>4, RestStep DEF WorkingStages

LEMMA SaveRuleStep ==
    ASSUME SchedulerInv, NEW id \in Rules, NEW rule \in RuleRecords, SaveRule(id, rule)
    PROVE  SchedulerInv'
  <1>1. TypeOK'
    BY DEF SaveRule, SchedulerInv, TypeOK
  <1>2. AttemptsBounded' /\ DeliveriesTrue' /\ Apart'
    BY SameNumbers DEF SaveRule, SchedulerInv, Apart, Working, At
  <1>3. ASSUME NEW v \in (Rules \X Hours) \ claims' PROVE Untouched(v)'
    BY SameNumbers DEF SaveRule, SchedulerInv
  <1>4. ASSUME NEW j \in Invocations PROVE OnTrack(invocation[j])'
    <2>1. PICK p \in Invocation : p = invocation[j] /\ p = invocation'[j]
      BY DEF SaveRule, SchedulerInv, TypeOK
    <2>2. OnTrack(p)'
      BY <2>1, Unmoved DEF SaveRule, SchedulerInv
    <2> QED BY <2>1, <2>2 DEF OnTrack, At
  <1> QED BY <1>1, <1>2, <1>3, <1>4 DEF SchedulerInv

\* The insert finds no row, so nobody has worked on the window.
LEMMA ClaimStep ==
    ASSUME SchedulerInv, NEW i \in Invocations, Claim(i)
    PROVE  SchedulerInv'
  <1>1. PICK p \in Invocation : p = invocation[i]
    BY DEF SchedulerInv, TypeOK
  <1> DEFINE q == [p EXCEPT !.pc = "running"]
             w == At(p)
             all == Head(p.queue).rule.destinations
  <1>2. /\ invocation' = [invocation EXCEPT ![i] = q] /\ p.queue # <<>>
        /\ w \notin claims /\ claims' = claims \cup {w}
        /\ listed' = [listed EXCEPT ![w] = all]
        /\ UNCHANGED <<clock, rules, completions, deliveries, attempts, arrived>>
    BY <1>1 DEF Claim, Window, At
  <1>3. q \in Invocation /\ q.pc = "running" /\ q.queue = p.queue /\ At(q) = w
    BY DEF Invocation, At
  <1>4. w \in Rules \X Hours /\ all \in Seq(Destinations)
    BY <1>2, AtType, RuleRecordsAssumption DEF RuleRecord
  <1>5. At(q)' = w /\ Head(q.queue).rule.destinations = all
    BY <1>3 DEF At, WindowStart
  <1> HIDE DEF q, w, all
  <1>6. \A v \in Rules \X Hours : listed'[v] = IF v = w THEN all ELSE listed[v]
    BY <1>2, <1>4 DEF SchedulerInv, TypeOK
  <1>7. /\ \A v : Completed(v)' <=> Completed(v)
        /\ \A v, d : Tries(v, d)' = Tries(v, d) /\ (Arrived(v, d)' <=> Arrived(v, d))
        /\ \A v, d, status : Recorded(v, d, status)' = Recorded(v, d, status)
    BY <1>2 DEF Completed, Tries, Arrived, Recorded, Times
  <1>8. OnlyOf(w)
    BY <1>2, <1>6, <1>7 DEF OnlyOf
  <1>9. Untouched(w)
    BY <1>2, <1>4 DEF SchedulerInv
  <1>10. Untold(w)' /\ ~Completed(w)'
    BY <1>7, <1>9 DEF Untouched, Untold
  <1>11. OnTrack(q)'
    BY <1>2, <1>3, <1>4, <1>5, <1>6, <1>10 DEF OnTrack
  <1>12. \A j \in Invocations \ {i} : Working(j) => At(invocation[j]) # w
    BY <1>2 DEF SchedulerInv, OnTrack, Working
  <1>13. /\ \A j \in Invocations : OnTrack(invocation[j])'
         /\ Apart'
         /\ \A v \in (Rules \X Hours) \ claims' : Untouched(v)'
    BY <1>2, <1>3, <1>4, <1>8, <1>11, <1>12, WorkStep
  <1>14. TypeOK'
    BY <1>2, <1>3, <1>4 DEF SchedulerInv, TypeOK
  <1>15. AttemptsBounded'
    <2> SUFFICES ASSUME NEW v \in Rules \X Hours, NEW d \in Destinations
                 PROVE  Tries(v, d)' <= 3 * Times(listed'[v], d)
      BY DEF AttemptsBounded, MaxAttempts, Times
    <2>1. Tries(v, d)' = Tries(v, d)
      BY <1>7
    <2>2. CASE v = w
      <3>1. Tries(v, d)' = 0
        BY <1>9, <2>1, <2>2 DEF Untouched, Untold
      <3>2. Times(listed'[v], d) \in Nat
        BY <1>4, <1>6, <2>2, TimesType
      <3> QED BY <3>1, <3>2
    <2>3. CASE v # w
      BY <1>6, <2>1, <2>3 DEF SchedulerInv, AttemptsBounded, MaxAttempts
    <2> QED BY <2>2, <2>3
  <1>16. DeliveriesTrue'
    BY <1>7 DEF SchedulerInv, DeliveriesTrue
  <1> QED BY <1>13, <1>14, <1>15, <1>16 DEF SchedulerInv

-----------------------------------------------------------------------------
(***************************************************************************)
(* The steps of the worker of a window.                                    *)
(***************************************************************************)
\* The one that works on a window is the only one, and the window is claimed.
LEMMA WorkerAlone ==
    ASSUME SchedulerInv, NEW i \in Invocations, Working(i)
    PROVE  /\ Window(i) = At(invocation[i])
           /\ invocation[i].queue # <<>>
           /\ At(invocation[i]) \in claims
           /\ At(invocation[i]) \in Rules \X Hours
           /\ \A j \in Invocations \ {i} : Working(j) => At(invocation[j]) # At(invocation[i])
  <1>1. invocation[i] \in Invocation
    BY DEF SchedulerInv, TypeOK
  <1>2. invocation[i].queue # <<>> /\ At(invocation[i]) \in claims
    BY DEF SchedulerInv, OnTrack, Working
  <1>3. At(invocation[i]) \in Rules \X Hours
    BY <1>1, <1>2, AtType
  <1>4. \A j \in Invocations \ {i} : Working(j) => At(invocation[j]) # At(invocation[i])
    BY DEF SchedulerInv, Apart
  <1> QED BY <1>2, <1>3, <1>4 DEF Window, At

\* An invocation that has destinations to tell, and one that has none.
Telling(p, left) ==
    [p EXCEPT !.pc = "sending", !.alert = TRUE, !.left = left, !.attempt = 1]

Closing(p) ==
    [p EXCEPT !.pc = "completing", !.alert = FALSE, !.left = <<>>, !.attempt = 1]

LEMMA TellingType ==
    ASSUME NEW p \in Invocation, NEW left \in Seq(Destinations)
    PROVE  /\ Telling(p, left) \in Invocation
           /\ Telling(p, left).pc = "sending"
           /\ Telling(p, left).alert = TRUE
           /\ Telling(p, left).left = left
           /\ Telling(p, left).attempt = 1
           /\ Telling(p, left).now = p.now
           /\ Telling(p, left).queue = p.queue
  <1>1. PICK first \in 1..MaxAttempts : first = 1
    BY DEF MaxAttempts
  <1> DEFINE r == [p EXCEPT !.pc = "sending", !.alert = TRUE, !.left = left, !.attempt = first]
  <1>2. /\ r \in Invocation
        /\ r.pc = "sending" /\ r.alert = TRUE /\ r.left = left /\ r.attempt = first
        /\ r.now = p.now /\ r.queue = p.queue
    BY DEF Invocation
  <1>3. Telling(p, left) = r
    BY <1>1 DEF Telling
  <1> HIDE DEF r
  <1> QED BY <1>1, <1>2, <1>3

LEMMA ClosingType ==
    ASSUME NEW p \in Invocation
    PROVE  /\ Closing(p) \in Invocation
           /\ Closing(p).pc = "completing"
           /\ Closing(p).alert = FALSE
           /\ Closing(p).now = p.now
           /\ Closing(p).queue = p.queue
  <1>1. PICK first \in 1..MaxAttempts : first = 1
    BY DEF MaxAttempts
  <1>2. PICK none \in Seq(Destinations) : none = <<>>
    <2>1. <<>> \in Seq(Destinations)
      OBVIOUS
    <2> QED BY <2>1, Zenon
  <1> DEFINE r == [p EXCEPT !.pc = "completing", !.alert = FALSE, !.left = none, !.attempt = first]
  <1>3. /\ r \in Invocation
        /\ r.pc = "completing" /\ r.alert = FALSE /\ r.now = p.now /\ r.queue = p.queue
    BY DEF Invocation
  <1>4. Closing(p) = r
    BY <1>1, <1>2 DEF Closing
  <1> HIDE DEF r
  <1> QED BY <1>3, <1>4

\* An alert is one outside the cooldown.
LEMMA EvaluateCases ==
    ASSUME SchedulerInv, NEW i \in Invocations, Evaluate(i),
           NEW p \in Invocation, p = invocation[i]
    PROVE  \/ /\ invocation' = [invocation EXCEPT
                                    ![i] = Telling(p, Head(p.queue).rule.destinations)]
              /\ ~IsCoolingDown(Head(p.queue).id, Head(p.queue).rule, p.now)
           \/ invocation' = [invocation EXCEPT ![i] = Closing(p)]
  <1> DEFINE all == Head(p.queue).rule.destinations
             cold == ~IsCoolingDown(Head(p.queue).id, Head(p.queue).rule, p.now)
  <1>1. \E alert \in BOOLEAN :
            /\ alert => cold
            /\ invocation' = [invocation EXCEPT
                   ![i].pc = IF alert THEN "sending" ELSE "completing",
                   ![i].alert = alert,
                   ![i].left = IF alert THEN all ELSE <<>>,
                   ![i].attempt = 1]
    BY Zenon DEF Evaluate, Triggers
  <1> HIDE DEF cold
  <1>2. \/ /\ cold
           /\ invocation' = [invocation EXCEPT
                 ![i].pc = "sending", ![i].alert = TRUE, ![i].left = all, ![i].attempt = 1]
        \/ invocation' = [invocation EXCEPT
                 ![i].pc = "completing", ![i].alert = FALSE, ![i].left = <<>>, ![i].attempt = 1]
    BY <1>1, Zenon
  <1> QED BY <1>2 DEF SchedulerInv, TypeOK, Telling, Closing, cold

\* All destinations of the rule are left to tell, or none is to be told.
LEMMA EvaluateStep ==
    ASSUME SchedulerInv, NEW i \in Invocations, Evaluate(i)
    PROVE  SchedulerInv'
  <1>1. PICK p \in Invocation : p = invocation[i]
    BY DEF SchedulerInv, TypeOK
  <1> DEFINE w == At(p)
             all == Head(p.queue).rule.destinations
             telling == Telling(p, all)
             closing == Closing(p)
  <1>2. p.pc = "running" /\ Working(i)
    BY <1>1 DEF Evaluate, Working, WorkingStages
  <1>3. /\ p.queue # <<>> /\ w \in claims /\ w \in Rules \X Hours
        /\ \A j \in Invocations \ {i} : Working(j) => At(invocation[j]) # w
    BY <1>1, <1>2, WorkerAlone
  <1>4. \E r \in {telling, closing} : invocation' = [invocation EXCEPT ![i] = r]
    BY <1>1, EvaluateCases
  <1>5. UNCHANGED <<clock, rules, claims, completions, deliveries, attempts, arrived, listed>>
    BY DEF Evaluate
  <1>6. all \in Seq(Destinations) /\ all # <<>>
    <2>1. Head(p.queue).rule \in RuleRecords
      BY <1>3, AtType
    <2>2. all \in Seq(Destinations) /\ Len(all) \in 1..5
      BY <2>1, RuleRecordsAssumption DEF RuleRecord
    <2> HIDE DEF all
    <2> QED BY <2>2
  <1>7. Untold(w) /\ ~Completed(w) /\ listed[w] = all
    <2>1. OnTrack(p)
      BY <1>1 DEF SchedulerInv
    <2> QED BY <1>2, <2>1 DEF OnTrack, WorkingStages
  <1> HIDE DEF all
  <1>8. PICK r \in Invocation :
            /\ invocation' = [invocation EXCEPT ![i] = r]
            /\ r.queue = p.queue /\ r.now = p.now
            /\ \/ r.pc = "sending" /\ r.alert = TRUE /\ r.left = all /\ r.attempt = 1
               \/ r.pc = "completing" /\ r.alert = FALSE
    <2>1. all \in Seq(Destinations)
      BY <1>6
    <2>2. /\ telling \in Invocation /\ telling.queue = p.queue /\ telling.now = p.now
          /\ telling.pc = "sending" /\ telling.alert = TRUE
          /\ telling.left = all /\ telling.attempt = 1
      BY <2>1, TellingType
    <2>3. /\ closing \in Invocation /\ closing.queue = p.queue /\ closing.now = p.now
          /\ closing.pc = "completing" /\ closing.alert = FALSE
      BY ClosingType
    <2> HIDE DEF telling, closing
    <2> QED BY <1>4, <2>2, <2>3
  <1>9. At(r) = w /\ At(r)' = w
    BY <1>8 DEF At, WindowStart
  <1> HIDE DEF w
  <1>10. /\ w \in claims' /\ listed'[w] = all /\ ~Completed(w)'
         /\ \A d \in Destinations : /\ Tries(w, d)' = 0
                                    /\ \A status \in Statuses : Recorded(w, d, status)' = 0
    BY <1>3, <1>5, <1>7 DEF Untold, Completed, Tries, Recorded, Times
  <1>11. \A d \in Destinations : Told(w, d)' = 0 /\ Spent(w, d)' = 0
    BY <1>10 DEF Told, Spent, Statuses
  <1>12. OnTrack(r)'
    <2>1. CASE r.pc = "sending" /\ r.alert = TRUE /\ r.left = all /\ r.attempt = 1
      <3>1. \A d \in Destinations : Times(all, d) \in Nat
        BY <1>6, TimesType
      <3>2. Remaining(w, r.left)'
        BY <1>6, <1>10, <1>11, <2>1, <3>1 DEF Remaining, Times
      <3>3. Accounted(w, Head(r.left), r.attempt - 1, r.attempt - 1)'
        BY <1>10, <1>11, <2>1 DEF Accounted
      <3> QED BY <1>3, <1>8, <1>9, <1>10, <2>1, <3>2, <3>3 DEF OnTrack
    <2>2. CASE r.pc = "completing" /\ r.alert = FALSE
      <3>1. Concluded(w, r.alert)'
        BY <1>11, <2>2 DEF Concluded
      <3> QED BY <1>3, <1>8, <1>9, <1>10, <2>2, <3>1 DEF OnTrack
    <2> QED BY <1>8, <2>1, <2>2
  <1>13. OnlyOf(w)
    BY <1>5 DEF OnlyOf, Completed, Tries, Recorded, Times
  <1>14. /\ \A j \in Invocations : OnTrack(invocation[j])'
         /\ Apart'
         /\ \A v \in (Rules \X Hours) \ claims' : Untouched(v)'
    BY <1>3, <1>8, <1>9, <1>10, <1>12, <1>13, WorkStep
  <1>15. TypeOK'
    BY <1>5, <1>8 DEF SchedulerInv, TypeOK
  <1>16. AttemptsBounded' /\ DeliveriesTrue'
    BY <1>5, SameNumbers DEF SchedulerInv
  <1> QED BY <1>14, <1>15, <1>16 DEF SchedulerInv

\* One more call for the first of those that are left: no other window, and no
\* other destination, is concerned, and the first of those that are left has not
\* been told as often as it is listed.
LEMMA SendStep ==
    ASSUME SchedulerInv, NEW i \in Invocations, Send(i)
    PROVE  SchedulerInv'
  <1>1. PICK p \in Invocation : p = invocation[i]
    BY DEF SchedulerInv, TypeOK
  <1> DEFINE w == At(p)
             d == Head(p.left)
             again == [p EXCEPT !.attempt = @ + 1]
             result(status) == [p EXCEPT !.pc = "recording", !.status = status]
  <1>2. p.pc = "sending" /\ Working(i)
    BY <1>1 DEF Send, Working, WorkingStages
  <1>3. /\ Window(i) = w /\ p.queue # <<>> /\ w \in claims /\ w \in Rules \X Hours
        /\ \A j \in Invocations \ {i} : Working(j) => At(invocation[j]) # w
    BY <1>1, <1>2, WorkerAlone
  <1>4. /\ p.alert = TRUE /\ Remaining(w, p.left) /\ ~Completed(w)
        /\ Accounted(w, d, p.attempt - 1, p.attempt - 1)
    BY <1>1, <1>2 DEF SchedulerInv, OnTrack, WorkingStages
  <1>5. /\ p.left \in Seq(Destinations) /\ p.left # <<>> /\ d \in Destinations
        /\ p.attempt \in 1..3 /\ p.now \in Hours
    BY <1>4 DEF Invocation, Remaining, MaxAttempts
  <1>6. /\ attempts' = [attempts EXCEPT ![<<w[1], w[2], d>>] = @ + 1]
        /\ UNCHANGED <<clock, rules, claims, completions, deliveries, listed>>
    BY <1>1, <1>3 DEF Send
  <1>7. \E reaches, answers \in BOOLEAN :
            /\ answers => reaches
            /\ arrived' = IF ~reaches THEN arrived
                          ELSE arrived \cup {[rule |-> w[1], window |-> w[2],
                                              destination |-> d, at |-> p.now]}
            /\ invocation' = IF answers THEN [invocation EXCEPT ![i] = result("delivered")]
                             ELSE IF p.attempt < MaxAttempts
                             THEN [invocation EXCEPT ![i] = again]
                             ELSE [invocation EXCEPT ![i] = result("dead_letter")]
    BY <1>1, <1>3 DEF Send, SchedulerInv, TypeOK
  <1>8. /\ arrived \subseteq arrived'
        /\ arrived' \subseteq [rule: Rules, window: Hours, destination: Destinations, at: Hours]
    BY <1>3, <1>5, <1>7 DEF SchedulerInv, TypeOK
  <1>9. \E r \in {again, result("delivered"), result("dead_letter")} :
            /\ invocation' = [invocation EXCEPT ![i] = r]
            /\ \/ r = again /\ p.attempt < 3
               \/ r = result("delivered") /\ Arrived(w, d)'
               \/ r = result("dead_letter") /\ p.attempt = 3
    <2> HIDE DEF again, result, w, d
    <2>1. PICK reaches \in BOOLEAN : \E answers \in BOOLEAN :
            /\ answers => reaches
            /\ arrived' = IF ~reaches THEN arrived
                          ELSE arrived \cup {[rule |-> w[1], window |-> w[2],
                                              destination |-> d, at |-> p.now]}
            /\ invocation' = IF answers THEN [invocation EXCEPT ![i] = result("delivered")]
                             ELSE IF p.attempt < MaxAttempts
                             THEN [invocation EXCEPT ![i] = again]
                             ELSE [invocation EXCEPT ![i] = result("dead_letter")]
      BY <1>7
    <2>2. \/ /\ arrived' = arrived \cup {[rule |-> w[1], window |-> w[2],
                                          destination |-> d, at |-> p.now]}
             /\ invocation' = [invocation EXCEPT ![i] = result("delivered")]
          \/ invocation' = [invocation EXCEPT ![i] = again] /\ p.attempt < MaxAttempts
          \/ invocation' = [invocation EXCEPT ![i] = result("dead_letter")] /\ ~(p.attempt < MaxAttempts)
      BY <2>1, Zenon
    <2>3. CASE /\ arrived' = arrived \cup {[rule |-> w[1], window |-> w[2],
                                             destination |-> d, at |-> p.now]}
               /\ invocation' = [invocation EXCEPT ![i] = result("delivered")]
      <3> DEFINE n == [rule |-> w[1], window |-> w[2], destination |-> d, at |-> p.now]
      <3>1. n \in arrived' /\ n.rule = w[1] /\ n.window = w[2] /\ n.destination = d
        BY <2>3
      <3>2. Arrived(w, d)'
        BY <3>1 DEF Arrived, w, d
      <3> QED BY <2>3, <3>2
    <2>4. CASE invocation' = [invocation EXCEPT ![i] = again] /\ p.attempt < MaxAttempts
      BY <2>4 DEF MaxAttempts
    <2>5. CASE invocation' = [invocation EXCEPT ![i] = result("dead_letter")] /\ ~(p.attempt < MaxAttempts)
      <3>1. p.attempt = 3
        BY <1>5, <2>5 DEF MaxAttempts
      <3> QED BY <2>5, <3>1
    <2> QED BY <2>2, <2>3, <2>4, <2>5
  <1>10. PICK r \in Invocation :
            /\ invocation' = [invocation EXCEPT ![i] = r]
            /\ r.queue = p.queue /\ r.now = p.now /\ r.alert = p.alert /\ r.left = p.left
            /\ \/ r.pc = "sending" /\ r.attempt = p.attempt + 1
               \/ r.pc = "recording" /\ r.status = "delivered" /\ Arrived(w, d)'
               \/ r.pc = "recording" /\ r.status = "dead_letter" /\ p.attempt = 3
    <2>1. ASSUME p.attempt < 3
          PROVE  /\ again \in Invocation
                 /\ again.queue = p.queue /\ again.now = p.now /\ again.alert = p.alert
                 /\ again.left = p.left /\ again.pc = "sending" /\ again.attempt = p.attempt + 1
      BY <1>2, <1>5, <2>1 DEF Invocation, MaxAttempts
    <2>2. ASSUME NEW status \in {"delivered", "dead_letter"}
          PROVE  /\ result(status) \in Invocation
                 /\ result(status).queue = p.queue /\ result(status).now = p.now
                 /\ result(status).alert = p.alert /\ result(status).left = p.left
                 /\ result(status).pc = "recording" /\ result(status).status = status
      BY DEF Invocation
    <2> HIDE DEF again, result, w, d
    <2> QED BY <1>9, <2>1, <2>2
  <1>11. At(r) = w /\ At(r)' = w /\ w' = w /\ d' = d
    BY <1>10 DEF At, WindowStart
  <1> HIDE DEF again, result, w, d
  <1>12. /\ attempts' \in [Rules \X Hours \X Destinations -> Nat]
         /\ \A v \in Rules \X Hours, e \in Destinations :
               Tries(v, e)' = IF v = w /\ e = d THEN Tries(v, e) + 1 ELSE Tries(v, e)
    <2>1. attempts \in [Rules \X Hours \X Destinations -> Nat]
      BY DEF SchedulerInv, TypeOK
    <2>2. ASSUME NEW v \in Rules \X Hours, NEW e \in Destinations
          PROVE  /\ <<v[1], v[2], e>> \in Rules \X Hours \X Destinations
                 /\ <<v[1], v[2], e>> = <<w[1], w[2], d>> <=> v = w /\ e = d
      BY <1>3
    <2>3. <<w[1], w[2], d>> \in Rules \X Hours \X Destinations
      BY <1>3, <1>5
    <2> DEFINE key == <<w[1], w[2], d>>
    <2>4. /\ attempts' \in [Rules \X Hours \X Destinations -> Nat]
          /\ \A other \in Rules \X Hours \X Destinations :
                attempts'[other] = IF other = key THEN attempts[other] + 1 ELSE attempts[other]
      <3>1. attempts' = [attempts EXCEPT ![key] = @ + 1]
            /\ key \in Rules \X Hours \X Destinations
        BY <1>6, <2>3
      <3> HIDE DEF key
      <3> QED BY <2>1, <3>1
    <2> QED BY <2>2, <2>4 DEF Tries
  <1>13. /\ \A v : Completed(v)' <=> Completed(v)
         /\ \A v, e, status : Recorded(v, e, status)' = Recorded(v, e, status)
         /\ \A v, e : Told(v, e)' = Told(v, e) /\ Spent(v, e)' = Spent(v, e)
    BY <1>6 DEF Completed, Recorded, Times, Told, Spent
  <1>14. OnlyOf(w)
    BY <1>6, <1>8, <1>12, <1>13 DEF OnlyOf
  <1>15. Remaining(w, p.left)'
    BY <1>4, <1>6, <1>13 DEF Remaining, Times
  <1>16. \A e \in Destinations :
             /\ Tries(w, e) \in Nat /\ Told(w, e) \in Nat /\ Spent(w, e) \in Nat
             /\ Tries(w, e)' = IF e = d THEN Tries(w, e) + 1 ELSE Tries(w, e)
             /\ Told(w, e)' = Told(w, e) /\ Spent(w, e)' = Spent(w, e)
    BY <1>3, <1>12, <1>13, NumbersType DEF SchedulerInv
  <1>accounts. ASSUME NEW low \in Nat, NEW high \in Nat, low <= p.attempt, p.attempt <= high
         PROVE  Accounted(w, d, low, high)'
    <2> SUFFICES ASSUME NEW e \in Destinations
                 PROVE  /\ Spent(w, e)' + (IF e = d THEN low ELSE 0) <= Tries(w, e)'
                        /\ Tries(w, e)' <= 3 * Told(w, e)' + (IF e = d THEN high ELSE 0)
      BY <1>11 DEF Accounted
    <2>1. /\ Spent(w, e) + (IF e = d THEN p.attempt - 1 ELSE 0) <= Tries(w, e)
          /\ Tries(w, e) <= 3 * Told(w, e) + (IF e = d THEN p.attempt - 1 ELSE 0)
      BY <1>4 DEF Accounted
    <2>2. /\ Tries(w, e) \in Nat /\ Told(w, e) \in Nat /\ Spent(w, e) \in Nat
          /\ Tries(w, e)' = IF e = d THEN Tries(w, e) + 1 ELSE Tries(w, e)
          /\ Told(w, e)' = Told(w, e) /\ Spent(w, e)' = Spent(w, e)
      BY <1>16
    <2>3. p.attempt \in Nat
      BY <1>5
    <2>4. CASE e = d
      <3>1. /\ Spent(w, e)' + low <= Tries(w, e)'
            /\ Tries(w, e)' <= 3 * Told(w, e)' + high
        BY <1>accounts, <2>1, <2>2, <2>3, <2>4
      <3> QED BY <2>4, <3>1
    <2>5. CASE e # d
      <3>1. /\ Spent(w, e)' + 0 <= Tries(w, e)'
            /\ Tries(w, e)' <= 3 * Told(w, e)' + 0
        BY <2>1, <2>2, <2>5
      <3> QED BY <2>5, <3>1
    <2> QED BY <2>4, <2>5
  <1>17. OnTrack(r)'
    <2>1. /\ r.queue # <<>> /\ w \in claims' /\ ~Completed(w)'
          /\ r.alert = TRUE /\ Remaining(w, r.left)' /\ Head(r.left) = d
      BY <1>3, <1>4, <1>6, <1>10, <1>13, <1>15 DEF d
    <2>2. CASE r.pc = "sending" /\ r.attempt = p.attempt + 1
      <3>1. Accounted(w, d, r.attempt - 1, r.attempt - 1)'
        BY <1>5, <1>accounts, <2>2
      <3> QED BY <1>11, <2>1, <2>2, <3>1 DEF OnTrack
    <2>3. CASE r.pc = "recording" /\ r.status = "delivered" /\ Arrived(w, d)'
      <3>1. Accounted(w, d, Cost(r.status), 3)'
        BY <1>5, <1>accounts, <2>3 DEF Cost
      <3> QED BY <1>11, <2>1, <2>3, <3>1 DEF OnTrack
    <2>4. CASE r.pc = "recording" /\ r.status = "dead_letter" /\ p.attempt = 3
      <3>1. Accounted(w, d, Cost(r.status), 3)'
        BY <1>5, <1>accounts, <2>4 DEF Cost
      <3> QED BY <1>11, <2>1, <2>4, <3>1 DEF OnTrack
    <2> QED BY <1>10, <2>2, <2>3, <2>4
  <1>18. /\ \A j \in Invocations : OnTrack(invocation[j])'
         /\ Apart'
         /\ \A v \in (Rules \X Hours) \ claims' : Untouched(v)'
    BY <1>3, <1>6, <1>10, <1>11, <1>14, <1>17, WorkStep
  <1>19. TypeOK'
    BY <1>6, <1>8, <1>10, <1>12 DEF SchedulerInv, TypeOK
  <1>20. AttemptsBounded'
    <2> SUFFICES ASSUME NEW v \in Rules \X Hours, NEW e \in Destinations
                 PROVE  Tries(v, e)' <= 3 * Times(listed[v], e)
      BY <1>6 DEF AttemptsBounded, MaxAttempts
    <2>1. Tries(v, e) <= 3 * Times(listed[v], e)
      BY DEF SchedulerInv, AttemptsBounded, MaxAttempts
    <2>2. CASE v = w /\ e = d
      <3>1. Times(p.left, d) \in Nat /\ Times(p.left, d) > 0
        BY <1>5, TimesType DEF d
      <3>2. Told(w, d) + Times(p.left, d) = Times(listed[w], d)
        BY <1>4, <1>5 DEF Remaining
      <3>3. Tries(w, d) <= 3 * Told(w, d) + (p.attempt - 1)
        BY <1>4, <1>5 DEF Accounted
      <3>4. Tries(w, d)' = Tries(w, d) + 1 /\ Tries(w, d) \in Nat /\ Told(w, d) \in Nat
        BY <1>5, <1>16
      <3>5. Times(listed[w], d) \in Nat
        BY <1>3, <1>5, NumbersType DEF SchedulerInv
      <3>6. Tries(w, d)' <= 3 * Times(listed[w], d)
        BY <1>5, <3>1, <3>2, <3>3, <3>4, <3>5
      <3> QED BY <1>11, <2>2, <3>6
    <2>3. CASE ~(v = w /\ e = d)
      BY <1>12, <2>1, <2>3
    <2> QED BY <2>2, <2>3
  <1>21. DeliveriesTrue'
    <2> SUFFICES ASSUME NEW v \in Rules \X Hours, NEW e \in Destinations
                 PROVE  /\ Recorded(v, e, "delivered")' > 0 => Arrived(v, e)'
                        /\ Tries(v, e)' >= 3 * Recorded(v, e, "dead_letter")'
                                            + Recorded(v, e, "delivered")'
      BY DEF DeliveriesTrue, MaxAttempts
    <2>1. /\ Recorded(v, e, "delivered") > 0 => Arrived(v, e)
          /\ Tries(v, e) >= 3 * Recorded(v, e, "dead_letter") + Recorded(v, e, "delivered")
      BY DEF SchedulerInv, DeliveriesTrue, MaxAttempts
    <2>2. Arrived(v, e) => Arrived(v, e)'
      BY <1>8 DEF Arrived
    <2>3. /\ Tries(v, e) \in Nat /\ Recorded(v, e, "dead_letter") \in Nat
          /\ Recorded(v, e, "delivered") \in Nat
      BY NumbersType DEF SchedulerInv
    <2>4. Tries(v, e)' = Tries(v, e) + 1 \/ Tries(v, e)' = Tries(v, e)
      BY <1>12
    <2>5. \A status : Recorded(v, e, status)' = Recorded(v, e, status)
      BY <1>13
    <2> QED BY <2>1, <2>2, <2>3, <2>4, <2>5
  <1> QED BY <1>18, <1>19, <1>20, <1>21 DEF SchedulerInv

\* The result of the first of those that are left is put on record.
LEMMA RecordStep ==
    ASSUME SchedulerInv, NEW i \in Invocations, Record(i)
    PROVE  SchedulerInv'
  <1>1. PICK p \in Invocation : p = invocation[i]
    BY DEF SchedulerInv, TypeOK
  <1> DEFINE w == At(p)
             d == Head(p.left)
             rest == Tail(p.left)
             entry == [rule |-> w[1], window |-> w[2], destination |-> d, status |-> p.status]
             stage == IF rest = <<>> THEN "completing" ELSE "sending"
             r == [p EXCEPT !.left = rest, !.attempt = 1, !.pc = stage]
  <1>2. p.pc = "recording" /\ Working(i)
    BY <1>1 DEF Record, Working, WorkingStages
  <1>3. /\ Window(i) = w /\ p.queue # <<>> /\ w \in claims /\ w \in Rules \X Hours
        /\ \A j \in Invocations \ {i} : Working(j) => At(invocation[j]) # w
    BY <1>1, <1>2, WorkerAlone
  <1>4. /\ p.alert = TRUE /\ Remaining(w, p.left) /\ ~Completed(w)
        /\ Accounted(w, d, Cost(p.status), 3)
        /\ p.status = "delivered" => Arrived(w, d)
    BY <1>1, <1>2 DEF SchedulerInv, OnTrack, WorkingStages
  <1>5. /\ p.left \in Seq(Destinations) /\ p.left # <<>> /\ d \in Destinations
        /\ rest \in Seq(Destinations) /\ p.status \in Statuses
    BY <1>4 DEF Invocation, Remaining, Statuses
  <1>6. /\ deliveries' = Append(deliveries, entry)
        /\ UNCHANGED <<clock, rules, claims, completions, attempts, arrived, listed>>
    BY <1>1, <1>3 DEF Record
  <1>7. invocation' = [invocation EXCEPT ![i] = r]
    BY <1>1 DEF Record, SchedulerInv, TypeOK
  <1>8. /\ r \in Invocation /\ r.queue = p.queue /\ r.now = p.now /\ r.alert = p.alert
        /\ r.left = rest /\ r.attempt = 1 /\ r.pc = stage
    <2>1. PICK first \in 1..MaxAttempts : first = 1
      BY DEF MaxAttempts
    <2>2. stage \in {"completing", "sending"}
      OBVIOUS
    <2> DEFINE q == [p EXCEPT !.left = rest, !.attempt = first, !.pc = stage]
    <2>3. r = q
      BY <2>1
    <2> HIDE DEF stage, rest, r
    <2>4. /\ q \in Invocation /\ q.queue = p.queue /\ q.now = p.now /\ q.alert = p.alert
          /\ q.left = rest /\ q.attempt = first /\ q.pc = stage
      BY <1>5, <2>2 DEF Invocation
    <2> HIDE DEF q
    <2> QED BY <2>1, <2>3, <2>4
  <1>9. At(r) = w /\ At(r)' = w /\ w' = w /\ d' = d
    BY <1>8 DEF At, WindowStart
  <1> HIDE DEF r
  <1>10. \A e \in Destinations : Times(rest, e) = Times(p.left, e) - (IF e = d THEN 1 ELSE 0)
    BY <1>5, TimesTail
  <1>11. deliveries' \in Seq([rule: Rules, window: Hours, destination: Destinations,
                              status: {"delivered", "dead_letter"}])
    <2> DEFINE Delivery == [rule: Rules, window: Hours, destination: Destinations,
                            status: {"delivered", "dead_letter"}]
    <2>1. entry \in Delivery
      BY <1>3, <1>5 DEF Statuses
    <2>2. deliveries \in Seq(Delivery)
      BY DEF SchedulerInv, TypeOK
    <2> HIDE DEF Delivery, entry
    <2>3. deliveries' \in Seq(Delivery)
      BY <1>6, <2>1, <2>2
    <2> QED BY <2>3 DEF Delivery
  <1>12. ASSUME NEW v \in Rules \X Hours, NEW e \in Destinations, NEW status \in Statuses
         PROVE  Recorded(v, e, status)' =
                    Recorded(v, e, status) + (IF v = w /\ e = d /\ status = p.status THEN 1 ELSE 0)
    <2> HIDE DEF w, d, rest
    <2> QED BY <1>3, <1>5, <1>6, RecordedAppend DEF SchedulerInv
  <1> HIDE DEF entry, w, d, rest
  <1>13. /\ \A v : Completed(v)' <=> Completed(v)
         /\ \A v, e : Tries(v, e)' = Tries(v, e) /\ (Arrived(v, e)' <=> Arrived(v, e))
    BY <1>6 DEF Completed, Tries, Arrived
  <1>14. OnlyOf(w)
    <2>1. ASSUME NEW v \in (Rules \X Hours) \ {w}, NEW e \in Destinations, NEW status \in Statuses
          PROVE  Recorded(v, e, status)' = Recorded(v, e, status)
      <3>1. Recorded(v, e, status) \in Nat
        BY NumbersType DEF SchedulerInv
      <3> QED BY <1>12, <3>1
    <2> QED BY <1>6, <1>13, <2>1 DEF OnlyOf
  <1>15. ASSUME NEW e \in Destinations
         PROVE  /\ Told(w, e)' = Told(w, e) + (IF e = d THEN 1 ELSE 0)
                /\ Spent(w, e)' = Spent(w, e) + (IF e = d THEN Cost(p.status) ELSE 0)
                /\ Told(w, e) \in Nat /\ Spent(w, e) \in Nat /\ Tries(w, e) \in Nat
                /\ Tries(w, e)' = Tries(w, e)
                /\ Times(p.left, e) \in Nat /\ Times(listed[w], e) \in Nat
    <2>1. \A status \in Statuses :
              /\ Recorded(w, e, status) \in Nat
              /\ Recorded(w, e, status)' =
                     Recorded(w, e, status) + (IF e = d /\ status = p.status THEN 1 ELSE 0)
      BY <1>3, <1>12, NumbersType DEF SchedulerInv
    <2>2. /\ Recorded(w, e, "delivered") \in Nat /\ Recorded(w, e, "dead_letter") \in Nat
          /\ Recorded(w, e, "delivered")' =
                 Recorded(w, e, "delivered") + (IF e = d /\ p.status = "delivered" THEN 1 ELSE 0)
          /\ Recorded(w, e, "dead_letter")' =
                 Recorded(w, e, "dead_letter") + (IF e = d /\ p.status # "delivered" THEN 1 ELSE 0)
      BY <1>5, <2>1 DEF Statuses
    <2>3. Told(w, e)' = Told(w, e) + (IF e = d THEN 1 ELSE 0)
      BY <1>9, <2>2 DEF Told
    <2>4. Spent(w, e)' = Spent(w, e) + (IF e = d THEN Cost(p.status) ELSE 0)
      BY <1>9, <2>2 DEF Spent, Cost
    <2> QED BY <1>3, <1>5, <1>13, <2>3, <2>4, NumbersType, TimesType DEF SchedulerInv
  <1>16. \A e \in Destinations : Told(w, e)' + Times(rest, e) = Times(listed'[w], e)
    <2> TAKE e \in Destinations
    <2>1. Told(w, e) + Times(p.left, e) = Times(listed[w], e)
      BY <1>4 DEF Remaining
    <2> QED BY <1>6, <1>10, <1>15, <2>1
  <1>17. ASSUME rest = <<>> PROVE OnTrack(r)'
    <2>1. r.pc = "completing" /\ r.alert = TRUE
      BY <1>4, <1>8, <1>17
    <2>2. ASSUME NEW e \in Destinations PROVE Told(w, e)' = Times(listed'[w], e)
      <3>1. Told(w, e)' + 0 = Times(listed'[w], e)
        BY <1>16, <1>17, TimesEmpty
      <3>2. Told(w, e)' \in Nat
        BY <1>15
      <3> QED BY <3>1, <3>2
    <2>3. Concluded(w, r.alert)'
      BY <2>1, <2>2 DEF Concluded, Times
    <2> QED BY <1>3, <1>4, <1>6, <1>8, <1>9, <1>13, <2>1, <2>3 DEF OnTrack
  <1>18. ASSUME rest # <<>> PROVE OnTrack(r)'
    <2>1. r.pc = "sending" /\ r.alert = TRUE /\ r.left = rest /\ r.attempt = 1
      BY <1>4, <1>8, <1>18
    <2>2. Remaining(w, rest)'
      BY <1>16, <1>18 DEF Remaining, Times
    <2>3. Accounted(w, Head(rest), 0, 0)'
      <3> SUFFICES ASSUME NEW e \in Destinations
                   PROVE  /\ Spent(w, e)' + (IF e = Head(rest) THEN 0 ELSE 0) <= Tries(w, e)'
                          /\ Tries(w, e)' <= 3 * Told(w, e)' + (IF e = Head(rest) THEN 0 ELSE 0)
        BY <1>9 DEF Accounted, rest
      <3>1. /\ Spent(w, e) + (IF e = d THEN Cost(p.status) ELSE 0) <= Tries(w, e)
            /\ Tries(w, e) <= 3 * Told(w, e) + (IF e = d THEN 3 ELSE 0)
        BY <1>4 DEF Accounted
      <3>2. Cost(p.status) \in Nat
        BY DEF Cost
      <3>3. Spent(w, e)' <= Tries(w, e)' /\ Tries(w, e)' <= 3 * Told(w, e)'
        BY <1>15, <3>1, <3>2
      <3>4. Spent(w, e)' \in Nat /\ Told(w, e)' \in Nat
        BY <1>15, <3>2
      <3> QED BY <3>3, <3>4
    <2> HIDE DEF rest
    <2> QED BY <1>3, <1>4, <1>6, <1>8, <1>9, <1>13, <2>1, <2>2, <2>3 DEF OnTrack
  <1>19. /\ \A j \in Invocations : OnTrack(invocation[j])'
         /\ Apart'
         /\ \A v \in (Rules \X Hours) \ claims' : Untouched(v)'
    BY <1>3, <1>6, <1>7, <1>8, <1>9, <1>14, <1>17, <1>18, WorkStep
  <1>20. TypeOK'
    BY <1>6, <1>7, <1>8, <1>11 DEF SchedulerInv, TypeOK
  <1>21. AttemptsBounded'
    BY <1>6, <1>13 DEF SchedulerInv, AttemptsBounded, Times
  <1>22. DeliveriesTrue'
    <2> SUFFICES ASSUME NEW v \in Rules \X Hours, NEW e \in Destinations
                 PROVE  /\ Recorded(v, e, "delivered")' > 0 => Arrived(v, e)
                        /\ Tries(v, e) >= 3 * Recorded(v, e, "dead_letter")'
                                           + Recorded(v, e, "delivered")'
      BY <1>13 DEF DeliveriesTrue, MaxAttempts
    <2>1. /\ Recorded(v, e, "delivered") > 0 => Arrived(v, e)
          /\ Tries(v, e) >= 3 * Recorded(v, e, "dead_letter") + Recorded(v, e, "delivered")
      BY DEF SchedulerInv, DeliveriesTrue, MaxAttempts
    <2>2. /\ Recorded(v, e, "delivered") \in Nat /\ Recorded(v, e, "dead_letter") \in Nat
          /\ Tries(v, e) \in Nat
      BY NumbersType DEF SchedulerInv
    <2>3. CASE v = w /\ e = d
      <3>1. Spent(w, d) + Cost(p.status) <= Tries(w, d)
        BY <1>4, <1>5 DEF Accounted
      <3>2. /\ Recorded(v, e, "delivered")' =
                   Recorded(v, e, "delivered") + (IF p.status = "delivered" THEN 1 ELSE 0)
            /\ Recorded(v, e, "dead_letter")' =
                   Recorded(v, e, "dead_letter") + (IF p.status = "dead_letter" THEN 1 ELSE 0)
        BY <1>12, <2>3 DEF Statuses
      <3>3. Recorded(v, e, "delivered") + 3 * Recorded(v, e, "dead_letter") + Cost(p.status)
                <= Tries(v, e)
        BY <2>3, <3>1 DEF Spent
      <3>4. CASE p.status = "delivered"
        BY <1>4, <2>2, <2>3, <3>2, <3>3, <3>4 DEF Cost
      <3>5. CASE p.status = "dead_letter"
        BY <2>1, <2>2, <3>2, <3>3, <3>5 DEF Cost
      <3> QED BY <1>5, <3>4, <3>5 DEF Statuses
    <2>4. CASE ~(v = w /\ e = d)
      <3>1. /\ Recorded(v, e, "delivered")' = Recorded(v, e, "delivered")
            /\ Recorded(v, e, "dead_letter")' = Recorded(v, e, "dead_letter")
        BY <1>12, <2>2, <2>4 DEF Statuses
      <3> QED BY <2>1, <3>1
    <2> QED BY <2>3, <2>4
  <1> QED BY <1>19, <1>20, <1>21, <1>22 DEF SchedulerInv

\* The run that is completed is the one of the window that was worked on.
LEMMA RunAppended ==
    ASSUME SchedulerInv, NEW i \in Invocations, Complete(i)
    PROVE  /\ completions' \in Seq([rule: Rules, window: Hours, alert: BOOLEAN, at: Hours,
                                    cooldown: Nat])
           /\ DOMAIN completions' = DOMAIN completions \cup {Len(completions) + 1}
           /\ \A k \in DOMAIN completions : completions'[k] = completions[k]
           /\ completions'[Len(completions) + 1] =
                  [rule |-> At(invocation[i])[1], window |-> At(invocation[i])[2],
                   alert |-> invocation[i].alert, at |-> invocation[i].now,
                   cooldown |-> Head(invocation[i].queue).rule.cooldown]
           /\ UNCHANGED <<clock, rules, claims, deliveries, attempts, arrived, listed>>
  <1>1. PICK p \in Invocation : p = invocation[i]
    BY DEF SchedulerInv, TypeOK
  <1> DEFINE w == At(p)
             run == [rule |-> w[1], window |-> w[2], alert |-> p.alert, at |-> p.now,
                     cooldown |-> Head(p.queue).rule.cooldown]
             Run == [rule: Rules, window: Hours, alert: BOOLEAN, at: Hours, cooldown: Nat]
  <1>2. Working(i)
    BY DEF Complete, Working, WorkingStages
  <1>3. Window(i) = w /\ p.queue # <<>> /\ w \in Rules \X Hours
    BY <1>1, <1>2, WorkerAlone
  <1>4. /\ completions' = Append(completions, run)
        /\ UNCHANGED <<clock, rules, claims, deliveries, attempts, arrived, listed>>
    BY <1>1, <1>3 DEF Complete
  <1>5. run \in Run
    <2>1. Head(p.queue).rule.cooldown \in Nat
      BY <1>3, AtType, RuleRecordsAssumption DEF RuleRecord
    <2>2. p.alert \in BOOLEAN /\ p.now \in Hours
      BY DEF Invocation
    <2> QED BY <1>3, <2>1, <2>2
  <1>6. completions \in Seq(Run)
    BY DEF SchedulerInv, TypeOK
  <1> HIDE DEF Run, run
  <1>7. /\ completions' \in Seq(Run)
        /\ DOMAIN completions' = DOMAIN completions \cup {Len(completions) + 1}
        /\ \A k \in DOMAIN completions : completions'[k] = completions[k]
        /\ completions'[Len(completions) + 1] = run
    BY <1>4, <1>5, <1>6
  <1> QED BY <1>1, <1>4, <1>7 DEF Run, run

\* The window is completed, and nobody works on it any more.
LEMMA CompleteStep ==
    ASSUME SchedulerInv, NEW i \in Invocations, Complete(i)
    PROVE  /\ SchedulerInv'
           /\ \A v : Completed(v)' <=> Completed(v) \/ v = At(invocation[i])
           /\ \A v : Alerted(v)' <=>
                  Alerted(v) \/ (v = At(invocation[i]) /\ invocation[i].alert = TRUE)
  <1>1. PICK p \in Invocation : p = invocation[i]
    BY DEF SchedulerInv, TypeOK
  <1> DEFINE w == At(p)
             run == [rule |-> w[1], window |-> w[2], alert |-> p.alert, at |-> p.now,
                     cooldown |-> Head(p.queue).rule.cooldown]
             r == [p EXCEPT !.pc = "looping", !.queue = Tail(@), !.alert = FALSE]
  <1>2. p.pc = "completing" /\ Working(i)
    BY <1>1 DEF Complete, Working, WorkingStages
  <1>3. /\ p.queue # <<>> /\ w \in claims /\ w \in Rules \X Hours
        /\ \A j \in Invocations \ {i} : Working(j) => At(invocation[j]) # w
    BY <1>1, <1>2, WorkerAlone
  <1>4. /\ completions' \in Seq([rule: Rules, window: Hours, alert: BOOLEAN, at: Hours,
                                 cooldown: Nat])
        /\ DOMAIN completions' = DOMAIN completions \cup {Len(completions) + 1}
        /\ \A k \in DOMAIN completions : completions'[k] = completions[k]
        /\ completions'[Len(completions) + 1] = run
        /\ UNCHANGED <<clock, rules, claims, deliveries, attempts, arrived, listed>>
    BY <1>1, RunAppended
  <1>5. invocation' = [invocation EXCEPT ![i] = r]
    BY <1>1 DEF Complete, SchedulerInv, TypeOK
  <1>6. r \in Invocation /\ r.pc \notin WorkingStages
    <2>1. Tail(p.queue) \in Seq(Due)
      BY <1>3, AtType
    <2> QED BY <2>1 DEF Invocation, WorkingStages
  <1>7. <<run.rule, run.window>> = w /\ run.alert = p.alert
    BY <1>3
  <1> HIDE DEF r, run, w
  <1>8. \A v : Alerted(v)' <=> Alerted(v) \/ (v = w /\ p.alert = TRUE)
    BY <1>4, <1>7 DEF Alerted
  <1>9. \A v : Completed(v)' <=> Completed(v) \/ v = w
    BY <1>4, <1>7 DEF Completed
  <1>10. OnlyOf(w)
    BY <1>4, <1>9 DEF OnlyOf, Recorded, Times, Tries
  <1>11. OnTrack(r)'
    BY <1>6 DEF OnTrack
  <1>12. /\ \A j \in Invocations : OnTrack(invocation[j])'
         /\ Apart'
         /\ \A v \in (Rules \X Hours) \ claims' : Untouched(v)'
    BY <1>3, <1>4, <1>5, <1>6, <1>10, <1>11, WorkStep
  <1>13. TypeOK'
    BY <1>4, <1>5, <1>6 DEF SchedulerInv, TypeOK
  <1>14. AttemptsBounded' /\ DeliveriesTrue'
    BY <1>4, SameRecords DEF SchedulerInv
  <1> QED BY <1>1, <1>8, <1>9, <1>12, <1>13, <1>14 DEF SchedulerInv, w

-----------------------------------------------------------------------------
LEMMA SchedulerStep ==
    ASSUME SchedulerInv, [Next]_vars
    PROVE  SchedulerInv'
  <1>1. ASSUME NEW i \in Invocations, Trigger(i) \/ Progress(i) \/ Abort(i)
        PROVE  SchedulerInv'
    BY <1>1, TriggerStep, ClaimStep, SkipStep, EvaluateStep, SendStep, RecordStep, CompleteStep,
       StopStep DEF Progress, Work
  <1>2. CASE UNCHANGED vars
    <2>1. TypeOK' /\ Apart'
      BY <1>2 DEF vars, SchedulerInv, TypeOK, Apart, Working, At
    <2>2. /\ AttemptsBounded' /\ DeliveriesTrue'
          /\ \A v \in (Rules \X Hours) \ claims' : Untouched(v)'
      BY <1>2, SameNumbers DEF vars, SchedulerInv
    <2>3. ASSUME NEW j \in Invocations PROVE OnTrack(invocation[j])'
      <3>1. PICK p \in Invocation : p = invocation[j] /\ p = invocation'[j]
        BY <1>2 DEF vars, SchedulerInv, TypeOK
      <3>2. OnTrack(p)'
        BY <1>2, <3>1, Unmoved DEF vars, SchedulerInv
      <3> QED BY <3>1, <3>2 DEF OnTrack, At
    <2> QED BY <2>1, <2>2, <2>3 DEF SchedulerInv
  <1> QED BY <1>1, <1>2, SaveRuleStep DEF Next

LEMMA SchedulerInit == Init => SchedulerInv
  <1> SUFFICES ASSUME Init PROVE SchedulerInv
    OBVIOUS
  <1>1. 0 \in Hours /\ <<>> \in Seq(Due)
    BY BoundsAssumption DEF Hours
  <1>2. Started("idle", 0, <<>>) \in Invocation /\ Started("idle", 0, <<>>).pc \notin WorkingStages
    BY <1>1, StartedType
  <1>3. TypeOK
    BY <1>1, <1>2 DEF Init, TypeOK
  <1>4. ASSUME NEW v \in Rules \X Hours, NEW d \in Destinations
        PROVE  /\ Tries(v, d) = 0 /\ listed[v] = <<>>
               /\ \A status : Recorded(v, d, status) = 0
    BY TimesEmpty DEF Init, Tries, Recorded
  <1>5. AttemptsBounded /\ DeliveriesTrue
    BY <1>4, TimesEmpty DEF AttemptsBounded, DeliveriesTrue, MaxAttempts
  <1>6. ASSUME NEW v \in Rules \X Hours PROVE Untouched(v)
    BY <1>4 DEF Init, Untouched, Untold, Completed
  <1>7. \A i \in Invocations : invocation[i].pc \notin WorkingStages
    BY <1>2 DEF Init
  <1>8. Apart /\ \A i \in Invocations : OnTrack(invocation[i])
    BY <1>7 DEF Apart, Working, OnTrack
  <1> QED BY <1>3, <1>5, <1>6, <1>8 DEF SchedulerInv

LEMMA SchedulerInvariant == Spec => []SchedulerInv
  BY SchedulerInit, SchedulerStep, PTL DEF Spec

\* Every reachable state is well typed.
THEOREM SchedulerTypeCorrect == Spec => []TypeOK
  BY SchedulerInvariant, PTL DEF SchedulerInv

\* For one window of one rule a destination is called three times at most for each
\* time the rule lists it, however many invocations overlap, are repeated or die.
THEOREM AttemptsAreBounded == Spec => []AttemptsBounded
  BY SchedulerInvariant, PTL DEF SchedulerInv

\* What the delivery history calls delivered has arrived, and behind its records
\* stand three calls for each dead letter and one for each delivery.
THEOREM DeliveryHistoryIsTrue == Spec => []DeliveriesTrue
  BY SchedulerInvariant, PTL DEF SchedulerInv

-----------------------------------------------------------------------------
(***************************************************************************)
(* The scheduler keeps the ledger.                                         *)
(***************************************************************************)
\* The windows as the ledger sees them.
Windows == [w \in Rules \X Hours |-> WindowState(w)]

\* The ledger counts as the scheduler does.
LEMMA LedgerCounts ==
    /\ \A list, e : Ledger!Times(list, e) = Times(list, e)
    /\ \A w, d : Ledger!Told(w, d) = Told(w, d)
  <1>1. ASSUME NEW list, NEW e PROVE Ledger!Times(list, e) = Times(list, e)
    BY Zenon DEF Ledger!Times, Times, Ledger!Cardinality, Cardinality
  <1>2. ASSUME NEW w, NEW d, NEW status
        PROVE  Ledger!Recorded(w, d, status) = Recorded(w, d, status)
    BY <1>1, Zenon DEF Ledger!Recorded, Recorded
  <1> QED BY <1>1, <1>2 DEF Ledger!Told, Told

\* A step that moves one window at most moves the ledger so.
LEMMA WindowMoves ==
    ASSUME NEW w \in Rules \X Hours, NEW to,
           WindowState(w)' = to,
           \A v \in (Rules \X Hours) \ {w} : WindowState(v)' = WindowState(v)
    PROVE  Windows' = [Windows EXCEPT ![w] = to]
  BY DEF Windows

LEMMA ClaimKept ==
    ASSUME SchedulerInv, NEW i \in Invocations, Claim(i)
    PROVE  Ledger!Next
  <1>1. PICK p \in Invocation : p = invocation[i]
    BY DEF SchedulerInv, TypeOK
  <1> DEFINE w == At(p)
             rule == Head(p.queue).rule
             Lists == {record.destinations : record \in RuleRecords}
  <1>2. /\ p.queue # <<>> /\ w \notin claims /\ claims' = claims \cup {w}
        /\ listed' = [listed EXCEPT ![w] = rule.destinations]
        /\ UNCHANGED <<completions, deliveries>>
    BY <1>1 DEF Claim, Window, At
  <1>3. w \in Rules \X Hours /\ rule.destinations \in Lists
    BY <1>2, AtType
  <1> HIDE DEF w, rule
  <1>4. ~Completed(w)'
    BY <1>2, <1>3 DEF SchedulerInv, Untouched, Completed
  <1>5. WindowState(w) = "unclaimed" /\ WindowState(w)' = "running"
    BY <1>2, <1>4 DEF WindowState
  <1>6. \A v \in (Rules \X Hours) \ {w} : WindowState(v)' = WindowState(v)
    BY <1>2 DEF WindowState, Completed, Alerted
  <1>7. Windows' = [Windows EXCEPT ![w] = "running"] /\ Windows[w] = "unclaimed"
    BY <1>3, <1>5, <1>6, WindowMoves DEF Windows
  <1>8. Ledger!Claim(w, rule.destinations)
    BY <1>2, <1>7 DEF Ledger!Claim, Windows
  <1> QED BY <1>3, <1>8 DEF Ledger!Next

LEMMA RecordKept ==
    ASSUME SchedulerInv, NEW i \in Invocations, Record(i)
    PROVE  Ledger!Next
  <1>1. PICK p \in Invocation : p = invocation[i]
    BY DEF SchedulerInv, TypeOK
  <1> DEFINE w == At(p)
             d == Head(p.left)
  <1>2. p.pc = "recording" /\ Working(i)
    BY <1>1 DEF Record, Working, WorkingStages
  <1>3. Window(i) = w /\ w \in claims /\ w \in Rules \X Hours
    BY <1>1, <1>2, WorkerAlone
  <1>4. Remaining(w, p.left) /\ ~Completed(w)
    BY <1>1, <1>2 DEF SchedulerInv, OnTrack, WorkingStages
  <1>5. /\ p.left \in Seq(Destinations) /\ p.left # <<>> /\ d \in Destinations
        /\ p.status \in Ledger!Statuses
    BY <1>4 DEF Invocation, Remaining, Ledger!Statuses
  <1>6. Told(w, d) < Times(listed[w], d)
    <2>1. Told(w, d) + Times(p.left, d) = Times(listed[w], d)
      BY <1>4, <1>5 DEF Remaining
    <2>2. Times(p.left, d) \in Nat /\ Times(p.left, d) > 0
      BY <1>5, TimesType
    <2>3. Told(w, d) \in Nat /\ Times(listed[w], d) \in Nat
      BY <1>3, <1>5, NumbersType DEF SchedulerInv
    <2> QED BY <2>1, <2>2, <2>3
  <1>7. /\ deliveries' = Append(deliveries, [rule |-> w[1], window |-> w[2], destination |-> d,
                                             status |-> p.status])
        /\ UNCHANGED <<claims, completions, listed>>
    BY <1>1, <1>3 DEF Record
  <1> HIDE DEF w, d
  <1>8. WindowState(w) = "running"
    BY <1>3, <1>4 DEF WindowState
  <1>9. Windows' = Windows /\ Windows[w] = "running"
    BY <1>3, <1>7, <1>8 DEF Windows, WindowState, Completed, Alerted
  <1>10. Ledger!Told(w, d) < Ledger!Times(listed[w], d)
    BY <1>6, LedgerCounts
  <1>11. Ledger!Tell(w, d, p.status)
    BY <1>7, <1>9, <1>10 DEF Ledger!Tell, Windows
  <1> QED BY <1>3, <1>5, <1>11 DEF Ledger!Next

LEMMA CompleteKept ==
    ASSUME SchedulerInv, NEW i \in Invocations, Complete(i)
    PROVE  Ledger!Next
  <1>1. PICK p \in Invocation : p = invocation[i]
    BY DEF SchedulerInv, TypeOK
  <1> DEFINE w == At(p)
             outcome == IF p.alert = TRUE THEN "alerted" ELSE "quiet"
  <1>2. p.pc = "completing" /\ Working(i)
    BY <1>1 DEF Complete, Working, WorkingStages
  <1>3. w \in claims /\ w \in Rules \X Hours
    BY <1>1, <1>2, WorkerAlone
  <1>4. ~Completed(w) /\ Concluded(w, p.alert)
    BY <1>1, <1>2 DEF SchedulerInv, OnTrack, WorkingStages
  <1>5. /\ \A v : Completed(v)' <=> Completed(v) \/ v = w
        /\ \A v : Alerted(v)' <=> Alerted(v) \/ (v = w /\ p.alert = TRUE)
        /\ UNCHANGED <<claims, deliveries, listed>>
    BY <1>1, CompleteStep, RunAppended
  <1> HIDE DEF w
  <1>6. ~Alerted(w)
    BY <1>4 DEF Alerted, Completed
  <1>7. WindowState(w) = "running" /\ WindowState(w)' = outcome
    BY <1>3, <1>4, <1>5, <1>6 DEF WindowState
  <1>8. \A v \in (Rules \X Hours) \ {w} : WindowState(v)' = WindowState(v)
    BY <1>5 DEF WindowState
  <1>9. Windows' = [Windows EXCEPT ![w] = outcome] /\ Windows[w] = "running"
    <2> HIDE DEF outcome
    <2> QED BY <1>3, <1>7, <1>8, WindowMoves DEF Windows
  <1>10. CASE p.alert = TRUE
    <2>1. \A d \in Destinations : Ledger!Told(w, d) = Ledger!Times(listed[w], d)
      BY <1>4, <1>10, LedgerCounts DEF Concluded
    <2>2. Windows' = [Windows EXCEPT ![w] = "alerted"]
      BY <1>9, <1>10
    <2>3. Ledger!CloseAlerted(w)
      BY <1>5, <1>9, <2>1, <2>2 DEF Ledger!CloseAlerted, Windows
    <2> QED BY <1>3, <2>3 DEF Ledger!Next
  <1>11. CASE p.alert # TRUE
    <2>1. \A d \in Destinations : Ledger!Told(w, d) = 0
      BY <1>4, <1>11, LedgerCounts DEF Concluded
    <2>2. Windows' = [Windows EXCEPT ![w] = "quiet"]
      BY <1>9, <1>11
    <2>3. Ledger!CloseQuiet(w)
      BY <1>5, <1>9, <2>1, <2>2 DEF Ledger!CloseQuiet, Windows
    <2> QED BY <1>3, <2>3 DEF Ledger!Next
  <1> QED BY <1>10, <1>11

\* Every other step leaves the ledger.
LEMMA LedgerStep ==
    ASSUME SchedulerInv, [Next]_vars
    PROVE  [Ledger!Next]_(<<[w \in Rules \X Hours |-> WindowState(w)], listed, deliveries>>)
  <1>1. ASSUME UNCHANGED <<claims, completions, deliveries, listed>>
        PROVE  UNCHANGED <<[w \in Rules \X Hours |-> WindowState(w)], listed, deliveries>>
    BY <1>1 DEF WindowState, Completed, Alerted
  <1>2. ASSUME NEW i \in Invocations, Trigger(i) \/ Progress(i) \/ Abort(i)
        PROVE  Ledger!Next \/ UNCHANGED <<claims, completions, deliveries, listed>>
    <2>1. CASE Claim(i) \/ Record(i) \/ Complete(i)
      BY <2>1, ClaimKept, RecordKept, CompleteKept
    <2>2. CASE Trigger(i) \/ Skip(i) \/ Evaluate(i) \/ Throw(i) \/ Send(i) \/ Finish(i) \/ Abort(i)
      BY <2>2 DEF Trigger, Skip, Evaluate, Throw, Send, Finish, Abort
    <2> QED BY <1>2, <2>1, <2>2 DEF Progress, Work
  <1>3. ASSUME NEW id \in Rules, NEW rule \in RuleRecords, SaveRule(id, rule)
        PROVE  UNCHANGED <<claims, completions, deliveries, listed>>
    BY <1>3 DEF SaveRule
  <1>4. CASE UNCHANGED vars
    BY <1>1, <1>4 DEF vars
  <1> QED BY <1>1, <1>2, <1>3, <1>4 DEF Next

\* Scheduled monitoring is the ledger it promises: of each window one claim, of
\* each destination one record at most for each time the rule lists it, and one
\* end, quiet when nobody was told and as an alert when all that are listed were.
THEOREM SchedulerKeepsLedger == Spec => LedgerSpec
  <1>1. Init => Ledger!Init
    BY DEF Init, Ledger!Init, WindowState
  <1> QED BY <1>1, LedgerStep, SchedulerInvariant, PTL
          DEF Spec, LedgerSpec, Ledger!Spec, Ledger!ledger

-----------------------------------------------------------------------------
(***************************************************************************)
(* The cooldown, when invocations do not overlap.                          *)
(***************************************************************************)
\* Invocations come one after another.
Serial == \A i, j \in Invocations : i = j

\* The clock stands still while an invocation is on.
OnTime(p) == p.pc \in WorkingStages \cup {"looping"} => p.now = clock

\* An alert that is about to be recorded is a cooldown after all that are.
Spaced(p) ==
    p.pc \in {"sending", "recording", "completing"} /\ p.alert = TRUE =>
        \A k \in Triggered(Head(p.queue).id) :
            p.now - completions[k].at >= Head(p.queue).rule.cooldown

\* The last completed run is the latest one: the cooldown looks only at it.
Chronological ==
    /\ \A k \in DOMAIN completions : completions[k].at <= clock
    /\ \A j, k \in DOMAIN completions : j <= k => completions[j].at <= completions[k].at
    /\ \A id \in Rules : Triggered(id) # {} => LatestTriggered(id) # {}

SpacedInv ==
    /\ Chronological
    /\ AlertsSpaced
    /\ \A i \in Invocations : OnTime(invocation[i]) /\ Spaced(invocation[i])

LEMMA RunType ==
    ASSUME TypeOK, NEW k \in DOMAIN completions
    PROVE  /\ completions[k] \in [rule: Rules, window: Hours, alert: BOOLEAN, at: Hours,
                                  cooldown: Nat]
           /\ completions[k].at \in Nat /\ completions[k].cooldown \in Nat
           /\ k \in 1..Len(completions)
  <1> DEFINE Run == [rule: Rules, window: Hours, alert: BOOLEAN, at: Hours, cooldown: Nat]
  <1>1. completions \in Seq(Run)
    BY DEF TypeOK
  <1>2. completions[k] \in Run /\ k \in 1..Len(completions)
    <2> HIDE DEF Run
    <2> QED BY <1>1
  <1> QED BY <1>2, BoundsAssumption DEF Hours

\* A step that completes nothing keeps the spacing, if what is left of i is spaced.
LEMMA NothingCompleted ==
    ASSUME Serial, SchedulerInv, SpacedInv, NEW i \in Invocations, NEW p \in Invocation,
           invocation'[i] = p,
           completions' = completions, clock' \in Hours, clock <= clock',
           p.pc \in WorkingStages \cup {"looping"} => p.now = clock',
           Spaced(p)
    PROVE  SpacedInv'
  <1>1. \A j \in Invocations : invocation'[j] = p
    BY DEF Serial
  <1>2. Chronological'
    <2>1. \A k \in DOMAIN completions : completions[k].at <= clock'
      <3>1. clock \in Nat /\ clock' \in Nat
        BY BoundsAssumption DEF SchedulerInv, TypeOK, Hours
      <3> QED BY <3>1, RunType DEF SpacedInv, Chronological, SchedulerInv
    <2> QED BY <2>1 DEF SpacedInv, Chronological, Triggered, LatestTriggered
  <1>3. AlertsSpaced'
    BY DEF SpacedInv, AlertsSpaced
  <1>4. Spaced(p)'
    BY DEF Spaced, Triggered
  <1> QED BY <1>1, <1>2, <1>3, <1>4 DEF SpacedInv, OnTime, Spaced

\* The latest of the triggered runs decides for all of them.
LEMMA EvaluateSpaced ==
    ASSUME Serial, SchedulerInv, SpacedInv, NEW i \in Invocations, Evaluate(i)
    PROVE  SpacedInv'
  <1>1. PICK p \in Invocation : p = invocation[i]
    BY DEF SchedulerInv, TypeOK
  <1> DEFINE id == Head(p.queue).id
             rule == Head(p.queue).rule
  <1>2. /\ p.pc = "running" /\ p.queue # <<>>
        /\ completions' = completions /\ clock' = clock /\ clock \in Hours
        /\ p.now = clock
    BY <1>1, WorkerAlone DEF Evaluate, Working, WorkingStages, SchedulerInv, TypeOK, SpacedInv, OnTime
  <1>3. id \in Rules /\ rule \in RuleRecords
    BY <1>2, AtType
  <1>4. rule.destinations \in Seq(Destinations) /\ rule.cooldown \in Nat /\ clock \in Nat
    BY <1>2, <1>3, RuleRecordsAssumption, BoundsAssumption DEF RuleRecord, Hours
  <1>5. clock' \in Hours /\ clock <= clock' /\ p.now = clock'
    BY <1>2, <1>4
  <1>6. CASE /\ invocation' = [invocation EXCEPT ![i] = Telling(p, rule.destinations)]
             /\ ~IsCoolingDown(id, rule, p.now)
    <2> DEFINE r == Telling(p, rule.destinations)
    <2>1. r \in Invocation /\ r.now = p.now /\ r.queue = p.queue
      BY <1>4, TellingType
    <2>2. ASSUME NEW k \in Triggered(id) PROVE p.now - completions[k].at >= rule.cooldown
      <3>1. PICK latest \in LatestTriggered(id) : TRUE
        BY <1>3 DEF SpacedInv, Chronological
      <3>2. /\ latest \in DOMAIN completions /\ k \in DOMAIN completions /\ k <= latest
            /\ rule.cooldown = 0 \/ ~(p.now - completions[latest].at < rule.cooldown)
        BY <1>6, <3>1 DEF IsCoolingDown, LatestTriggered, Triggered
      <3>3. completions[k].at <= completions[latest].at /\ completions[k].at <= p.now
        BY <1>2, <3>2 DEF SpacedInv, Chronological
      <3>4. completions[k].at \in Nat /\ completions[latest].at \in Nat
        BY <3>2, RunType DEF SchedulerInv
      <3> QED BY <1>2, <1>4, <3>2, <3>3, <3>4
    <2>3. Spaced(r)
      BY <2>1, <2>2 DEF Spaced
    <2>4. invocation'[i] = r /\ r.now = clock' /\ completions' = completions
      BY <1>2, <1>5, <1>6, <2>1 DEF SchedulerInv, TypeOK
    <2> HIDE DEF r
    <2> QED BY <1>5, <2>1, <2>3, <2>4, NothingCompleted
  <1>7. CASE invocation' = [invocation EXCEPT ![i] = Closing(p)]
    <2>1. /\ Closing(p) \in Invocation /\ Closing(p).now = p.now /\ Closing(p).alert = FALSE
      BY ClosingType
    <2>2. Spaced(Closing(p))
      BY <2>1 DEF Spaced
    <2>3. invocation'[i] = Closing(p) /\ Closing(p).now = clock'
      BY <1>5, <1>7, <2>1 DEF SchedulerInv, TypeOK
    <2> QED BY <1>2, <1>5, <2>1, <2>2, <2>3, NothingCompleted
  <1> QED BY <1>1, <1>6, <1>7, EvaluateCases

\* The stages between the evaluation and the record keep what was evaluated.
LEMMA ContinueSpaced ==
    ASSUME Serial, SchedulerInv, SpacedInv, NEW i \in Invocations,
           Claim(i) \/ Send(i) \/ Record(i)
    PROVE  SpacedInv'
  <1>1. PICK p \in Invocation : p = invocation[i]
    BY DEF SchedulerInv, TypeOK
  <1>2. PICK r \in Invocation : r = invocation'[i]
    BY ClaimStep, SendStep, RecordStep DEF SchedulerInv, TypeOK
  <1>3. /\ r.now = p.now /\ r.queue = p.queue /\ r.alert = p.alert
        /\ p.pc \in {"looping", "sending", "recording"}
        /\ r.pc = "running" \/ p.pc \in {"sending", "recording"}
    <2>1. invocation \in [Invocations -> Invocation]
      BY DEF SchedulerInv, TypeOK
    <2>2. CASE Claim(i)
      BY <1>1, <1>2, <2>1, <2>2 DEF Claim, Invocation
    <2>3. CASE Send(i)
      BY <1>1, <1>2, <2>1, <2>3 DEF Send, Invocation
    <2>4. CASE Record(i)
      BY <1>1, <1>2, <2>1, <2>4 DEF Record, Invocation
    <2> QED BY <2>2, <2>3, <2>4
  <1>4. completions' = completions /\ clock' = clock /\ clock \in Nat
    BY BoundsAssumption DEF Claim, Send, Record, SchedulerInv, TypeOK, Hours
  <1>5. p.now = clock
    BY <1>1, <1>3 DEF SpacedInv, OnTime, WorkingStages
  <1>6. Spaced(r)
    <2>1. Spaced(p)
      BY <1>1 DEF SpacedInv
    <2> QED BY <1>3, <2>1 DEF Spaced
  <1>7. clock' \in Hours /\ clock <= clock' /\ r.now = clock'
    BY <1>3, <1>4, <1>5 DEF SchedulerInv, TypeOK
  <1> QED BY <1>2, <1>4, <1>6, <1>7, NothingCompleted

\* What begins, is skipped or ends has no alert to record.
LEMMA OtherSpaced ==
    ASSUME Serial, SchedulerInv, SpacedInv, NEW i \in Invocations,
           Trigger(i) \/ Skip(i) \/ Finish(i) \/ Throw(i) \/ Abort(i)
    PROVE  SpacedInv'
  <1>1. PICK p \in Invocation : p = invocation[i]
    BY DEF SchedulerInv, TypeOK
  <1>2. PICK r \in Invocation : r = invocation'[i]
    BY TriggerStep, SkipStep, StopStep DEF SchedulerInv, TypeOK
  <1>3. clock \in Nat /\ clock' \in Hours /\ clock <= clock'
    BY BoundsAssumption DEF Trigger, Skip, Finish, Throw, Abort, SchedulerInv, TypeOK, Hours
  <1>4. CASE Trigger(i)
    <2>1. r.pc = "looping" /\ r.now = clock' /\ completions' = completions
      BY <1>2, <1>4 DEF Trigger, Started, SchedulerInv, TypeOK
    <2>2. Spaced(r)
      BY <2>1 DEF Spaced
    <2> QED BY <1>2, <1>3, <2>1, <2>2, NothingCompleted
  <1>5. CASE Skip(i)
    <2>1. /\ p.pc = "looping" /\ r.pc = "looping" /\ r.now = p.now
          /\ completions' = completions /\ clock' = clock
      BY <1>1, <1>2, <1>5 DEF Skip, SchedulerInv, TypeOK, Invocation
    <2>2. Spaced(r) /\ r.now = clock'
      BY <1>1, <2>1 DEF Spaced, SpacedInv, OnTime
    <2> QED BY <1>2, <1>3, <2>1, <2>2, NothingCompleted
  <1>6. CASE Finish(i) \/ Throw(i) \/ Abort(i)
    <2>1. r.pc \in {"done", "failed"} /\ completions' = completions
      BY <1>2, <1>6 DEF Finish, Throw, Abort, Started, SchedulerInv, TypeOK
    <2>2. Spaced(r)
      BY <2>1 DEF Spaced
    <2> QED BY <1>2, <1>3, <2>1, <2>2, NothingCompleted DEF WorkingStages
  <1> QED BY <1>4, <1>5, <1>6

\* The run that is recorded is the latest one, and spaced if it alerts.
LEMMA CompleteSpaced ==
    ASSUME Serial, SchedulerInv, SpacedInv, NEW i \in Invocations, Complete(i)
    PROVE  SpacedInv'
  <1>1. PICK p \in Invocation : p = invocation[i]
    BY DEF SchedulerInv, TypeOK
  <1>2. PICK r \in Invocation : r = invocation'[i]
    BY CompleteStep DEF SchedulerInv, TypeOK
  <1> DEFINE last == Len(completions) + 1
             id == Head(p.queue).id
             cooldown == Head(p.queue).rule.cooldown
  <1>3. /\ p.pc = "completing" /\ r.pc = "looping" /\ r.now = p.now
        /\ clock' = clock /\ clock \in Nat /\ p.now = clock
    <2>1. p.pc = "completing" /\ r.pc = "looping" /\ r.now = p.now /\ clock' = clock
      BY <1>1, <1>2 DEF Complete, SchedulerInv, TypeOK, Invocation
    <2> QED BY <1>1, <2>1, BoundsAssumption
            DEF SpacedInv, OnTime, WorkingStages, SchedulerInv, TypeOK, Hours
  <1>4. /\ DOMAIN completions' = DOMAIN completions \cup {last}
        /\ \A k \in DOMAIN completions : completions'[k] = completions[k]
        /\ completions'[last].rule = id /\ completions'[last].alert = p.alert
        /\ completions'[last].at = clock /\ completions'[last].cooldown = cooldown
    <2> DEFINE run == [rule |-> At(p)[1], window |-> At(p)[2], alert |-> p.alert, at |-> p.now,
                       cooldown |-> cooldown]
    <2>1. /\ DOMAIN completions' = DOMAIN completions \cup {last}
          /\ \A k \in DOMAIN completions : completions'[k] = completions[k]
          /\ completions'[last] = run
      BY <1>1, RunAppended
    <2>2. /\ run.rule = id /\ run.alert = p.alert /\ run.at = clock /\ run.cooldown = cooldown
      BY <1>3 DEF At
    <2> HIDE DEF run
    <2> QED BY <2>1, <2>2
  <1>5. /\ last \in Nat
        /\ \A k \in DOMAIN completions : k \in Nat /\ k < last
        /\ \A k \in DOMAIN completions : completions[k].at \in Nat
    <2>1. Len(completions) \in Nat
      BY DEF SchedulerInv, TypeOK
    <2> QED BY <2>1, RunType DEF SchedulerInv
  <1> HIDE DEF last, id, cooldown
  <1>6. /\ \A k \in DOMAIN completions' : completions'[k].at <= clock'
        /\ \A j, k \in DOMAIN completions' : j <= k => completions'[j].at <= completions'[k].at
    BY <1>3, <1>4, <1>5 DEF SpacedInv, Chronological
  <1>7. ASSUME NEW other \in Rules, Triggered(other)' # {} PROVE LatestTriggered(other)' # {}
    <2>1. CASE last \in Triggered(other)'
      <3>1. \A j \in Triggered(other)' : j <= last
        BY <1>4, <1>5 DEF Triggered
      <3> QED BY <2>1, <3>1 DEF LatestTriggered
    <2>2. CASE last \notin Triggered(other)'
      <3>1. Triggered(other)' = Triggered(other)
        BY <1>4, <1>5, <2>2 DEF Triggered
      <3>2. LatestTriggered(other)' = LatestTriggered(other)
        BY <3>1 DEF LatestTriggered
      <3> QED BY <1>7, <3>1, <3>2 DEF SpacedInv, Chronological
    <2> QED BY <2>1, <2>2
  <1>8. AlertsSpaced'
    <2> SUFFICES ASSUME NEW j \in DOMAIN completions', NEW k \in DOMAIN completions', j < k,
                        completions'[j].rule = completions'[k].rule,
                        completions'[j].alert, completions'[k].alert
                 PROVE  completions'[k].at - completions'[j].at >= completions'[k].cooldown
      BY DEF AlertsSpaced
    <2>1. CASE k # last
      BY <1>4, <1>5, <2>1 DEF SpacedInv, AlertsSpaced
    <2>2. CASE k = last
      <3>1. j \in DOMAIN completions
        BY <1>4, <1>5, <2>2
      <3>2. j \in Triggered(id) /\ p.alert = TRUE
        BY <1>4, <2>2, <3>1 DEF Triggered
      <3>3. Spaced(p)
        BY <1>1 DEF SpacedInv
      <3>4. p.now - completions[j].at >= cooldown
        BY <1>3, <3>2, <3>3 DEF Spaced, id, cooldown
      <3> QED BY <1>3, <1>4, <2>2, <3>1, <3>4
    <2> QED BY <2>1, <2>2
  <1>9. Chronological'
    BY <1>6, <1>7 DEF Chronological
  <1>10. Spaced(r)' /\ OnTime(r)'
    BY <1>3 DEF Spaced, OnTime
  <1>11. \A j \in Invocations : invocation'[j] = r
    BY <1>2 DEF Serial
  <1> QED BY <1>8, <1>9, <1>10, <1>11 DEF SpacedInv, OnTime, Spaced

LEMMA SpacedStep ==
    ASSUME Serial, SchedulerInv, SpacedInv, [Next]_vars
    PROVE  SpacedInv'
  <1>1. ASSUME NEW i \in Invocations, Trigger(i) \/ Progress(i) \/ Abort(i)
        PROVE  SpacedInv'
    BY <1>1, EvaluateSpaced, ContinueSpaced, CompleteSpaced, OtherSpaced DEF Progress, Work
  <1>2. ASSUME UNCHANGED <<clock, completions, invocation>> PROVE SpacedInv'
    BY <1>2 DEF SpacedInv, Chronological, AlertsSpaced, OnTime, Spaced, Triggered, LatestTriggered
  <1>3. ASSUME NEW id \in Rules, NEW rule \in RuleRecords, SaveRule(id, rule)
        PROVE  SpacedInv'
    BY <1>2, <1>3 DEF SaveRule
  <1> QED BY <1>1, <1>2, <1>3 DEF Next, vars

LEMMA SpacedInit == Init => SpacedInv
  BY DEF Init, SpacedInv, Chronological, AlertsSpaced, OnTime, Spaced, Triggered, LatestTriggered,
         Started, WorkingStages

\* When invocations do not overlap, two recorded alerts of a rule are at least its
\* cooldown apart, whichever invocations died in between.
THEOREM RecordedAlertsAreSpaced ==
    ASSUME Serial PROVE Spec => []AlertsSpaced
  <1>1. SchedulerInv /\ SpacedInv /\ [Next]_vars => SpacedInv'
    BY SpacedStep
  <1> QED BY <1>1, SpacedInit, SchedulerInvariant, PTL DEF Spec, SpacedInv
=============================================================================
