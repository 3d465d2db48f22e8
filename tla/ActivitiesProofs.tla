-------------------------- MODULE ActivitiesProofs --------------------------
(***************************************************************************)
(* Proofs about Activities, for any number of moments, any leeway, any     *)
(* lifetime of an invoice and any number of activities asked for.          *)
(*                                                                         *)
(* The argument has two parts.  About cutting a sorted list (Latest): if   *)
(* keys are distinct, the number of members above one tells it from the    *)
(* others, so k are left at most (CutToLimit), and where k are above a     *)
(* limit, k of those that are left are (LatestAreAbove).  About the        *)
(* sources: what the SDK answered is how things were when the call began   *)
(* (AnswerIsPast) and payments only go forward from there (Follows); the   *)
(* rows read later hold whatever may still be paid and the last of what    *)
(* expired (RowsAreLast).  So the items are complete, no two of the        *)
(* completed ones have the same time (Times), and what is true of the list *)
(* when it is cut stays true until it is returned (CutIsRight).            *)
(***************************************************************************)
EXTENDS Activities, FiniteSetTheorems, TLAPS

-----------------------------------------------------------------------------
(* What is sorted and cut                                                    *)

Above(S, key, t) == {b \in S : key[b] > t}

Distinct(S, key) == \A a, b \in S : key[a] = key[b] => a = b

\* As many as are above a limit is a number, no larger than that of all.
LEMMA AboveIsFinite ==
  ASSUME NEW S, IsFiniteSet(S), NEW key, NEW t
  PROVE  /\ IsFiniteSet(Above(S, key, t))
         /\ Cardinality(Above(S, key, t)) \in Nat
         /\ Cardinality(Above(S, key, t)) <= Cardinality(S)
<1>1. Above(S, key, t) \in SUBSET S
  BY DEF Above
<1> QED BY <1>1, FS_Subset, FS_CardinalityType

\* There are n numbers below n.
LEMMA RanksBelow ==
  ASSUME NEW n \in Nat
  PROVE  IsFiniteSet(0..(n - 1)) /\ Cardinality(0..(n - 1)) = n
<1>1. 0 \in Int /\ n - 1 \in Int /\ (0 > n - 1 <=> n = 0) /\ (n - 1) - 0 + 1 = n
  OBVIOUS
<1> QED BY <1>1, FS_Interval

\* The fewer are above a member, the later it is.
LEMMA RankOrders ==
  ASSUME NEW S, IsFiniteSet(S), NEW key \in [S -> Int], NEW a \in S, NEW t \in Int, key[a] > t
  PROVE  Cardinality(Above(S, key, key[a])) < Cardinality(Above(S, key, t))
<1> DEFINE A == Above(S, key, key[a])
           B == Above(S, key, t)
<1>1. A \in SUBSET B /\ a \in B /\ a \notin A
  BY DEF Above
<1>2. IsFiniteSet(B) /\ Cardinality(A) \in Nat /\ Cardinality(B) \in Nat
  BY AboveIsFinite
<1>3. Cardinality(A) <= Cardinality(B) /\ (Cardinality(B) = Cardinality(A) => B = A)
  <2> HIDE DEF A, B
  <2> QED BY <1>1, <1>2, FS_Subset
<1> QED BY <1>1, <1>2, <1>3

\* Of two members with distinct keys more are above one than above the other.
LEMMA RanksDiffer ==
  ASSUME NEW S, IsFiniteSet(S), NEW key \in [S -> Int], Distinct(S, key),
         NEW a \in S, NEW b \in S, a # b
  PROVE  Cardinality(Above(S, key, key[a])) # Cardinality(Above(S, key, key[b]))
<1>1. /\ Cardinality(Above(S, key, key[a])) \in Nat
      /\ Cardinality(Above(S, key, key[b])) \in Nat
  BY AboveIsFinite
<1>2. CASE key[a] > key[b]
  <2>1. Cardinality(Above(S, key, key[a])) < Cardinality(Above(S, key, key[b]))
    BY <1>2, RankOrders
  <2> QED BY <1>1, <2>1
<1>3. CASE key[b] > key[a]
  <2>1. Cardinality(Above(S, key, key[b])) < Cardinality(Above(S, key, key[a]))
    BY <1>3, RankOrders
  <2> QED BY <1>1, <2>1
<1> QED BY <1>2, <1>3 DEF Distinct

\* No more than a limit: nothing is cut.
LEMMA NothingIsCut ==
  ASSUME NEW S, IsFiniteSet(S), NEW key \in [S -> Int], NEW k \in Nat, Cardinality(S) <= k
  PROVE  Latest(S, key, k) = S
<1> SUFFICES ASSUME NEW a \in S PROVE Cardinality(Above(S, key, key[a])) < k
  BY DEF Latest, Above
<1>1. Above(S, key, key[a]) \in SUBSET (S \ {a})
  BY DEF Above
<1>2. IsFiniteSet(S \ {a}) /\ Cardinality(S \ {a}) = Cardinality(S) - 1
  BY FS_RemoveElement
<1>3. Cardinality(Above(S, key, key[a])) <= Cardinality(S \ {a})
  BY <1>1, <1>2, FS_Subset
<1>4. Cardinality(Above(S, key, key[a])) \in Nat /\ Cardinality(S) \in Nat
  BY AboveIsFinite, FS_CardinalityType
<1> QED BY <1>2, <1>3, <1>4

\* Of members with distinct keys no more than k are left.
LEMMA CutToLimit ==
  ASSUME NEW S, IsFiniteSet(S), NEW key \in [S -> Int], Distinct(S, key), NEW k \in Nat
  PROVE  IsFiniteSet(Latest(S, key, k)) /\ Cardinality(Latest(S, key, k)) <= k
<1> DEFINE L == Latest(S, key, k)
           rank == [a \in L |-> Cardinality(Above(S, key, key[a]))]
<1>1. \A a \in L : rank[a] \in 0..(k - 1)
  <2> SUFFICES ASSUME NEW a \in L PROVE rank[a] \in 0..(k - 1)
    OBVIOUS
  <2>1. a \in S /\ Cardinality(Above(S, key, key[a])) < k
    BY DEF Latest, Above
  <2>2. Cardinality(Above(S, key, key[a])) \in Nat
    BY <2>1, AboveIsFinite
  <2> QED BY <2>1, <2>2
<1>2. \A a, b \in L : rank[a] = rank[b] => a = b
  BY RanksDiffer DEF Latest
<1> HIDE DEF L
<1>3. rank \in Injection(L, 0..(k - 1))
  <2> HIDE DEF rank
  <2>1. rank \in [L -> 0..(k - 1)]
    BY <1>1 DEF rank
  <2> QED BY <1>2, <2>1 DEF Injection, IsInjective
<1>4. IsFiniteSet(0..(k - 1)) /\ Cardinality(0..(k - 1)) = k
  BY RanksBelow
<1> QED BY <1>3, <1>4, FS_Injection DEF L

\* Where k or more are above a limit, the k that are left are above it.
LEMMA LatestAreAbove ==
  ASSUME NEW S, IsFiniteSet(S), NEW key \in [S -> Int], Distinct(S, key), NEW k \in Nat,
         NEW t \in Int, Cardinality(Above(S, key, t)) >= k
  PROVE  Cardinality(Above(Latest(S, key, k), key, t)) = k
<1> DEFINE U == Above(S, key, t)
           rank == [a \in U |-> Cardinality(Above(S, key, key[a]))]
           n == Cardinality(U)
           L == Above(Latest(S, key, k), key, t)
<1>1. IsFiniteSet(U) /\ n \in Nat
  BY AboveIsFinite
<1>2. \A a \in U : rank[a] \in 0..(n - 1)
  <2> SUFFICES ASSUME NEW a \in U PROVE rank[a] \in 0..(n - 1)
    OBVIOUS
  <2>1. a \in S /\ key[a] > t
    BY DEF Above
  <2>2. rank[a] < n /\ rank[a] \in Nat
    BY <2>1, RankOrders, AboveIsFinite
  <2> QED BY <1>1, <2>2
<1>3. \A a, b \in U : rank[a] = rank[b] => a = b
  BY RanksDiffer DEF Above
<1>4. L = {a \in U : rank[a] < k}
  BY DEF Latest, Above
<1> HIDE DEF U, L, rank
<1>5. DOMAIN rank = U
  BY DEF rank
<1>6. rank \in Surjection(U, 0..(n - 1))
  <2> HIDE DEF n
  <2>1. rank \in [U -> 0..(n - 1)]
    BY <1>2, <1>5 DEF rank, n
  <2>2. rank \in Injection(U, 0..(n - 1))
    BY <1>3, <2>1 DEF Injection, IsInjective
  <2>3. IsFiniteSet(0..(n - 1)) /\ Cardinality(0..(n - 1)) = n
    BY <1>1, RanksBelow DEF n
  <2>4. rank \in Surjection(U, 0..(n - 1)) <=> Cardinality(U) = Cardinality(0..(n - 1))
    BY <2>2, <2>3, FS_Injection
  <2> QED BY <2>3, <2>4 DEF n
<1> DEFINE low == [a \in L |-> rank[a]]
<1> HIDE DEF n
<1>7. low \in Bijection(L, 0..(k - 1))
  <2>1. low \in [L -> 0..(k - 1)]
    BY <1>1, <1>2, <1>4
  <2>2. \A a, b \in L : low[a] = low[b] => a = b
    BY <1>3, <1>4
  <2>3. \A i \in 0..(k - 1) : \E a \in L : low[a] = i
    <3> SUFFICES ASSUME NEW i \in 0..(k - 1) PROVE \E a \in L : low[a] = i
      OBVIOUS
    <3>1. i \in 0..(n - 1) /\ i < k
      BY <1>1 DEF n, U
    <3>2. PICK a \in U : rank[a] = i
      BY <1>6, <3>1 DEF Surjection
    <3> QED BY <1>4, <3>1, <3>2
  <2> HIDE DEF low
  <2> QED BY <2>1, <2>2, <2>3 DEF Bijection, Injection, Surjection, IsInjective
<1>8. IsFiniteSet(L)
  <2>1. L \in SUBSET U
    BY <1>4
  <2> QED BY <1>1, <2>1, FS_Subset
<1>9. Cardinality(0..(k - 1)) = Cardinality(L)
  <2> HIDE DEF low
  <2> QED BY <1>7, <1>8, FS_Bijection DEF ExistsBijection
<1>10. Cardinality(0..(k - 1)) = k
  BY RanksBelow
<1> QED BY <1>9, <1>10 DEF L

-----------------------------------------------------------------------------
(* The invariant                                                             *)

Snapshots == [Moments -> Activity]

CallTypes ==
  [at : {"idle"}]
    \cup [at : {"asked"}, n : Requested, since : 0..MaxTime, sdk : Snapshots]
    \cup [at : {"read"}, n : Requested, since : 0..MaxTime, sdk : Snapshots, rows : SUBSET Moments]
    \cup [at : {"cut", "listed"}, n : Requested, since : 0..MaxTime, sdk : Snapshots,
          pending : SUBSET Items, completed : SUBSET Items]
    \cup [at : {"missed", "got"}, id : Moments, by : {"sdk", "row"}, sdk : Snapshots]

ListTypeOK == now \in 0..MaxTime /\ act \in Snapshots /\ call \in CallTypes

\* Only what there is has a status, and only what has been paid a moment of payment.
WellFormed(a) ==
  \A i \in Moments :
    /\ a[i].kind = "none" => a[i].status = "unknown"
    /\ a[i].kind = "invoice" => a[i].status # "pending"
    /\ a[i].kind \in {"sent", "close"} => a[i].paid = i
    /\ a[i].status # "unknown" => a[i].paid # 0

\* Whatever happens has a moment of its own: no two payments have the same, and
\* none has that of another activity's beginning.
OwnMoments(a) ==
  \A i, j \in Moments :
    i # j /\ a[i].paid # 0 => a[i].paid # a[j].paid /\ (a[j].kind # "none" => a[i].paid # j)

\* Nothing in a happened later than upto.
Past(a, upto) == \A i \in Moments : (a[i].kind # "none" => i <= upto) /\ a[i].paid <= upto

History(a, upto) == a \in Snapshots /\ WellFormed(a) /\ OwnMoments(a) /\ Past(a, upto)

\* What may become of the activities that are as in s at the moment upto.
Follows(s, a, upto) ==
  \A i \in Moments :
    /\ i <= upto => a[i].kind = s[i].kind
    /\ s[i].status \in {"complete", "failed"} => a[i] = s[i]
    /\ s[i].status = "pending" => a[i].status # "unknown"

Listing == call.at \in {"asked", "read", "cut", "listed"}

\* The SDK's answer is how things were when the call began.
AnswerIsPast ==
  Listing =>
    /\ History(call.sdk, call.since) /\ call.since <= now
    /\ Follows(call.sdk, act, call.since)

\* The rows hold every invoice of then that may still be paid, and the last of
\* those that had expired.
RowsAreLast ==
  call.at = "read" =>
    /\ \A i \in call.rows : act[i].kind = "invoice"
    /\ \A i \in Moments :
         act[i].kind = "invoice" =>
           /\ i <= call.since /\ ~Expired(i) => i \in call.rows
           /\ call.since > i + Lifetime =>
                \/ i \in call.rows
                \/ Cardinality({j \in call.rows : j > i /\ Expired(j)}) >= call.n

\* The properties, from where the list is cut.
Sorted == AreItems(call.pending, "pending") /\ AreItems(call.completed, "completed")

NotAwaited ==
  \A a \in call.pending \cup call.completed :
    a.by = "row" /\ a.id \in KnownThen =>
      Cardinality({i \in KnownThen : call.sdk[i].paid > call.sdk[a.id].paid}) >= call.n + Leeway

CompletedIn ==
  Cardinality(KnownThen) <= call.n + Leeway =>
    \A i \in CompletedThroughout :
      \/ \E a \in call.completed : a.id = i
      \/ Cardinality({a \in call.completed : Time(a) > SortedBy(i)}) = call.n

PendingIn == Cardinality(KnownThen) <= Leeway => \A i \in PendingThroughout : InPending(i)

SwapIn == \A i \in InProgress : i <= call.since => InPending(i)

CutIsRight ==
  call.at \in {"cut", "listed"} =>
    /\ Sorted /\ Cardinality(call.completed) <= call.n
    /\ NotAwaited /\ CompletedIn /\ PendingIn
    /\ call.at = "listed" => SwapIn

\* get() looks into the table only for what the SDK did not know.
GetMissed ==
  call.at = "missed" \/ (call.at = "got" /\ call.by = "row") =>
    call.sdk[call.id].status = "unknown"

ActivitiesInv ==
  /\ ListTypeOK /\ History(act, now)
  /\ AnswerIsPast /\ RowsAreLast /\ CutIsRight /\ GetMissed

-----------------------------------------------------------------------------
(* What happens                                                              *)

USE ActivitiesAssumption

\* What a call holds where it is.
LEMMA CallShape ==
  ASSUME ListTypeOK
  PROVE  /\ Listing => /\ call.n \in Nat /\ call.n \in Requested /\ call.since \in 0..MaxTime
                        /\ call.sdk \in Snapshots
         /\ call.at = "read" => call.rows \in SUBSET Moments
         /\ call.at \in {"cut", "listed"} =>
              /\ call.pending \in SUBSET Items /\ call.completed \in SUBSET Items
              /\ call \in [at : {"cut", "listed"}, n : Requested, since : 0..MaxTime,
                           sdk : Snapshots, pending : SUBSET Items, completed : SUBSET Items]
         /\ call.at \in {"missed", "got"} =>
              call \in [at : {"missed", "got"}, id : Moments, by : {"sdk", "row"}, sdk : Snapshots]
  BY DEF ListTypeOK, CallTypes, Listing

\* There are finitely many moments, hence activities.
LEMMA MomentsFinite == IsFiniteSet(Moments)
<1>1. 1 \in Int /\ MaxTime \in Int
  OBVIOUS
<1> QED BY <1>1, FS_Interval DEF Moments

\* The initial states satisfy the invariant.
LEMMA InitActivities == Init => ActivitiesInv
<1> SUFFICES ASSUME Init PROVE ActivitiesInv
  OBVIOUS
<1>1. act \in Snapshots /\ now \in 0..MaxTime
  BY DEF Init, Snapshots, Activity, Nothing, Status
<1>2. call \in CallTypes /\ call.at = "idle"
  BY DEF Init, CallTypes
<1>3. History(act, now)
  BY <1>1 DEF Init, History, WellFormed, OwnMoments, Past, Nothing
<1> QED BY <1>1, <1>2, <1>3 DEF ActivitiesInv, ListTypeOK, AnswerIsPast, Listing, RowsAreLast,
                               CutIsRight, GetMissed

\* What the program's actions do to the one activity they are about.
Proper(i, kind, status, paid) ==
  /\ i \in Moments /\ kind \in Kinds /\ status \in Status
  /\ \/ i = Soon /\ paid \in {0, Soon}
     \/ /\ i <= now /\ act[i].kind = kind /\ paid \in {act[i].paid, Soon}
        /\ act[i].status \notin {"complete", "failed"}
        /\ act[i].status = "pending" => status # "unknown"
  /\ kind = "invoice" => status # "pending"
  /\ kind \in {"sent", "close"} => paid = i
  /\ status # "unknown" => paid # 0

\* The activities stay consistent, and none goes back.
LEMMA HappensKeeps ==
  ASSUME ListTypeOK, History(act, now), NEW i, NEW kind, NEW status, NEW paid,
         Proper(i, kind, status, paid), Happens(i, kind, status, paid)
  PROVE  /\ UNCHANGED call /\ now' = now + 1 /\ now' \in 0..MaxTime
         /\ History(act', now') /\ Follows(act, act', now)
<1>1. now \in Nat /\ now' = now + 1 /\ now' \in 0..MaxTime /\ MaxTime \in Nat
  BY DEF ListTypeOK, Happens
<1>2. paid \in 0..MaxTime /\ paid <= now'
  <2>1. CASE paid \in {0, Soon}
    BY <1>1, <2>1 DEF Soon
  <2>2. CASE paid = act[i].paid
    BY <1>1, <2>2 DEF ListTypeOK, History, Past, Proper, Snapshots, Activity
  <2> QED BY <2>1, <2>2 DEF Proper
<1>3. /\ act'[i] = [kind |-> kind, status |-> status, paid |-> paid]
      /\ \A j \in Moments : j # i => act'[j] = act[j]
      /\ act' \in Snapshots
  BY <1>2 DEF ListTypeOK, Happens, Proper, Snapshots, Activity
<1>4. WellFormed(act')
  BY <1>3 DEF History, WellFormed, Proper, Kinds
<1>5. \A j \in Moments : act[j].paid \in Nat /\ act[j].paid <= now
  BY DEF ListTypeOK, History, Past, Snapshots, Activity
<1>6. OwnMoments(act')
  <2> SUFFICES ASSUME NEW x \in Moments, NEW y \in Moments, x # y, act'[x].paid # 0
               PROVE  act'[x].paid # act'[y].paid /\ (act'[y].kind # "none" => act'[x].paid # y)
    BY DEF OwnMoments
  <2>1. /\ act[x].paid <= now /\ act[y].paid <= now /\ act[x].paid \in Nat /\ act[y].paid \in Nat
        /\ (act[x].kind # "none" => x <= now) /\ (act[y].kind # "none" => y <= now)
        /\ x \in Nat /\ y \in Nat
    BY <1>5 DEF History, Past, Moments
  <2>2. /\ act[x].paid # 0 => act[x].paid # act[y].paid /\ (act[y].kind # "none" => act[x].paid # y)
        /\ act[y].paid # 0 => act[x].paid # act[y].paid
    BY DEF History, OwnMoments
  <2>3. CASE x = i
    <3>1. act'[x].paid = paid /\ act'[y] = act[y]
      BY <1>3, <2>3
    <3>2. CASE paid = Soon
      BY <1>1, <2>1, <3>1, <3>2 DEF Soon
    <3>3. CASE paid # Soon
      BY <2>2, <2>3, <3>1, <3>3 DEF Proper
    <3> QED BY <3>2, <3>3
  <2>4. CASE y = i
    <3>1. act'[y].paid = paid /\ act'[x] = act[x]
      BY <1>3, <2>4
    <3>2. CASE i = Soon
      BY <1>1, <2>1, <3>1, <3>2, <2>4 DEF Proper, Soon
    <3>3. CASE i # Soon
      <4>1. act[y].kind # "none" /\ paid \in {act[y].paid, Soon}
        BY <2>4, <3>3 DEF Proper, Kinds
      <4> QED BY <1>1, <2>1, <2>2, <3>1, <4>1 DEF Soon
    <3> QED BY <3>2, <3>3
  <2>5. CASE x # i /\ y # i
    BY <1>3, <2>2, <2>5
  <2> QED BY <2>3, <2>4, <2>5
<1>7. Past(act', now')
  <2> SUFFICES ASSUME NEW j \in Moments
               PROVE  (act'[j].kind # "none" => j <= now') /\ act'[j].paid <= now'
    BY DEF Past
  <2>1. CASE j = i
    <3>1. act'[j].paid = paid /\ i <= now'
      BY <1>1, <1>3, <2>1 DEF Proper, Soon, Moments
    <3> QED BY <1>2, <2>1, <3>1
  <2>2. CASE j # i
    BY <1>1, <1>3, <1>5, <2>2 DEF History, Past, Moments
  <2> QED BY <2>1, <2>2
<1>8. Follows(act, act', now)
  <2> SUFFICES ASSUME NEW j \in Moments PROVE Follows(act, act', now)!(j)
    BY DEF Follows
  <2>1. CASE j = Soon /\ j = i
    <3>1. ~(j <= now) /\ act[j].status = "unknown"
      BY <1>1, <2>1 DEF Soon, History, Past, WellFormed
    <3> QED BY <3>1
  <2>2. CASE j = i /\ j # Soon
    BY <1>3, <2>2 DEF Proper
  <2>3. CASE j # i
    BY <1>3, <2>3
  <2> QED BY <2>1, <2>2, <2>3
<1>9. UNCHANGED call
  BY DEF Happens
<1> QED BY <1>1, <1>3, <1>4, <1>6, <1>7, <1>8, <1>9 DEF History

\* Whatever happens is proper: each action of the world, and time that passes.
LEMMA WorldKeeps ==
  ASSUME ListTypeOK, History(act, now), World
  PROVE  /\ UNCHANGED call /\ now' = now + 1 /\ now' \in 0..MaxTime
         /\ History(act', now') /\ Follows(act, act', now)
<1> DEFINE Goal == /\ UNCHANGED call /\ now' = now + 1 /\ now' \in 0..MaxTime
                   /\ History(act', now') /\ Follows(act, act', now)
<1>1. now \in Nat /\ MaxTime \in Nat
  BY DEF ListTypeOK
<1>2. now < MaxTime => Soon \in Moments
  BY <1>1 DEF Soon, Moments
<1> USE DEF Kinds, Status
<1>3. CASE CreateInvoice \/ Send \/ CloseStarts \/ SwapStarts
  <2>1. PICK kind \in Kinds, status \in Status, paid \in {0, Soon} :
          Proper(Soon, kind, status, paid) /\ Happens(Soon, kind, status, paid)
    BY <1>1, <1>2, <1>3 DEF CreateInvoice, Send, CloseStarts, SwapStarts, Happens, Proper, Soon
  <2> QED BY <2>1, HappensKeeps
<1>4. ASSUME NEW i \in Moments, Receive(i) PROVE Goal
  <2>1. i <= now /\ Proper(i, "invoice", "complete", Soon) /\ Happens(i, "invoice", "complete", Soon)
    BY <1>1, <1>4 DEF Receive, Proper, Soon, History, Past
  <2> QED BY <2>1, HappensKeeps
<1>5. ASSUME NEW i \in Moments, SwapRedeemed(i) PROVE Goal
  <2>1. i <= now /\ Proper(i, "swap", "complete", Soon) /\ Happens(i, "swap", "complete", Soon)
    BY <1>1, <1>5 DEF SwapRedeemed, InProgress, Proper, Soon, History, Past
  <2> QED BY <2>1, HappensKeeps
<1>6. ASSUME NEW i \in Moments, NEW s \in {"complete", "failed"}, Ends(i, s) PROVE Goal
  <2>1. act[i].status = "pending" /\ act[i].kind \in Kinds /\ act[i].kind # "invoice"
    BY <1>6 DEF Ends, ListTypeOK, Snapshots, Activity, History, WellFormed
  <2>2. Proper(i, act[i].kind, s, act[i].paid) /\ Happens(i, act[i].kind, s, act[i].paid)
    BY <1>6, <2>1 DEF Ends, Proper, History, WellFormed, Past
  <2> QED BY <2>2, HappensKeeps
<1>7. CASE TimePasses
  <2>1. UNCHANGED <<act, call>> /\ now' = now + 1 /\ now' \in 0..MaxTime
    BY <1>1, <1>7 DEF TimePasses
  <2>2. \A i \in Moments : act[i].paid \in Nat /\ i \in Nat
    BY DEF ListTypeOK, Snapshots, Activity, Moments
  <2>3. History(act', now')
    BY <1>1, <2>1, <2>2 DEF History, WellFormed, OwnMoments, Past
  <2>4. Follows(act, act', now)
    BY <2>1 DEF Follows
  <2> QED BY <2>1, <2>3, <2>4
<1> QED BY <1>3, <1>4, <1>5, <1>6, <1>7 DEF World

\* What was listed or read stays true of what it says, whatever happens next.
LEMMA WorldInv == ASSUME ActivitiesInv, World PROVE ActivitiesInv'
<1>1. /\ UNCHANGED call /\ now' = now + 1 /\ now' \in 0..MaxTime
      /\ History(act', now') /\ Follows(act, act', now)
  BY WorldKeeps DEF ActivitiesInv
<1>2. ListTypeOK' /\ History(act, now)' /\ GetMissed'
  BY <1>1 DEF ActivitiesInv, ListTypeOK, History, GetMissed
<1>3. AnswerIsPast'
  <2> SUFFICES ASSUME Listing PROVE AnswerIsPast'
    BY <1>1 DEF AnswerIsPast, Listing
  <2>1. /\ History(call.sdk, call.since) /\ call.since <= now
        /\ Follows(call.sdk, act, call.since)
    BY DEF ActivitiesInv, AnswerIsPast
  <2>2. call.since \in Nat /\ now \in Nat
    BY CallShape DEF ActivitiesInv, ListTypeOK
  <2>3. Follows(call.sdk, act', call.since)
    <3> SUFFICES ASSUME NEW i \in Moments PROVE Follows(call.sdk, act', call.since)!(i)
      BY DEF Follows
    <3>1. i <= call.since => i <= now
      BY <2>1, <2>2 DEF Moments
    <3>2. act[i].status \in Status
      BY DEF ActivitiesInv, ListTypeOK, Snapshots, Activity
    <3>3. /\ Follows(call.sdk, act, call.since)!(i)
          /\ Follows(act, act', now)!(i)
      BY <1>1, <2>1 DEF Follows
    <3> QED BY <3>1, <3>2, <3>3 DEF Status
  <2> QED BY <1>1, <2>1, <2>2, <2>3 DEF AnswerIsPast
\* An expired invoice has been there since before now.
<1>4. RowsAreLast'
  <2> SUFFICES ASSUME call.at = "read" PROVE RowsAreLast'
    BY <1>1 DEF RowsAreLast
  <2>1. /\ call.since \in Nat /\ call.since <= now /\ now \in Nat /\ call.n \in Nat
        /\ call.rows \in SUBSET Moments
    BY CallShape DEF ActivitiesInv, ListTypeOK, AnswerIsPast, Listing
  <2>2. \A i \in call.rows : act'[i].kind = "invoice"
    BY <1>1, <2>1 DEF ActivitiesInv, RowsAreLast, Follows, History, Past
  <2>3. ASSUME NEW i \in Moments, act'[i].kind = "invoice"
        PROVE  /\ i <= call.since /\ ~Expired(i)' => i \in call.rows
               /\ call.since > i + Lifetime =>
                    \/ i \in call.rows
                    \/ Cardinality({j \in call.rows : j > i /\ Expired(j)'}) >= call.n
    <3>1. i <= call.since => act[i].kind = "invoice"
      BY <1>1, <2>1, <2>3 DEF Follows, Moments
    <3>2. \A j \in Moments : Expired(j) => Expired(j)'
      BY <1>1, <2>1 DEF Expired, Moments
    <3>3. i <= call.since /\ ~Expired(i)' => i \in call.rows
      BY <3>1, <3>2 DEF ActivitiesInv, RowsAreLast
    <3>4. ASSUME call.since > i + Lifetime, i \notin call.rows
          PROVE  Cardinality({j \in call.rows : j > i /\ Expired(j)'}) >= call.n
      <4> DEFINE A == {j \in call.rows : j > i /\ Expired(j)}
                 B == {j \in call.rows : j > i /\ Expired(j)'}
      <4>1. i <= call.since
        BY <2>1, <3>4 DEF Moments
      <4>2. Cardinality(A) >= call.n
        BY <3>1, <3>4, <4>1 DEF ActivitiesInv, RowsAreLast
      <4>3. A \in SUBSET B /\ B \in SUBSET Moments
        BY <2>1, <3>2
      <4> HIDE DEF A, B
      <4>4. IsFiniteSet(B) /\ Cardinality(A) <= Cardinality(B)
        BY <4>3, MomentsFinite, FS_Subset
      <4>5. Cardinality(A) \in Nat /\ Cardinality(B) \in Nat
        BY <4>3, <4>4, FS_Subset, FS_CardinalityType
      <4> QED BY <2>1, <4>2, <4>4, <4>5 DEF B
    <3> QED BY <3>3, <3>4
  <2> QED BY <1>1, <2>2, <2>3 DEF RowsAreLast
<1>5. CutIsRight'
  <2> SUFFICES ASSUME call.at \in {"cut", "listed"} PROVE CutIsRight'
    BY <1>1 DEF CutIsRight
  <2>1. /\ call.since \in Nat /\ call.since <= now /\ now \in Nat
        /\ History(call.sdk, call.since) /\ Follows(call.sdk, act, call.since)
    BY CallShape DEF ActivitiesInv, ListTypeOK, AnswerIsPast, Listing
  <2>2. /\ Sorted' /\ (Cardinality(call.completed) <= call.n)' /\ NotAwaited'
    BY <1>1 DEF ActivitiesInv, CutIsRight, Sorted, AreItems, Items, NotAwaited, KnownThen
  <2>3. KnownThen' = KnownThen /\ \A i \in KnownThen : i <= call.since
    BY <1>1, <2>1 DEF KnownThen, History, WellFormed, Past
  <2>4. \A i \in Moments : i <= call.since => act'[i].kind = act[i].kind
    BY <1>1, <2>1 DEF Follows, Moments
  <2>5. ASSUME NEW i \in CompletedThroughout'
        PROVE  i \in CompletedThroughout /\ SortedBy(i)' = SortedBy(i)
    <3>1. CASE i \in KnownThen /\ call.sdk[i].status # "pending"
      <4>1. call.sdk[i].status \in {"complete", "failed"} /\ i \in Moments
        BY <2>1, <3>1 DEF KnownThen, History, Snapshots, Activity, Status
      <4>2. act[i] = call.sdk[i] /\ act'[i] = act[i]
        BY <1>1, <2>1, <4>1 DEF Follows
      <4> QED BY <3>1, <4>2 DEF CompletedThroughout, SortedBy
    <3>2. CASE ~(i \in KnownThen /\ call.sdk[i].status # "pending")
      <4>1. /\ i \in Moments /\ act'[i].kind = "invoice" /\ act'[i].status = "unknown"
            /\ call.since > i + Lifetime
        BY <1>1, <2>3, <3>2 DEF CompletedThroughout
      <4>2. i <= call.since
        BY <2>1, <4>1 DEF Moments
      <4>3. act[i].kind = "invoice" /\ act[i].status = "unknown"
        BY <1>1, <2>4, <4>1, <4>2
           DEF Follows, ActivitiesInv, ListTypeOK, Snapshots, Activity, Status
      <4> QED BY <4>1, <4>3 DEF CompletedThroughout, SortedBy
    <3> QED BY <3>1, <3>2
  <2>6. CompletedIn'
    <3>1. \A a : Time(a)' = Time(a)
      BY <1>1 DEF Time
    <3> QED BY <1>1, <2>3, <2>5, <3>1 DEF ActivitiesInv, CutIsRight, CompletedIn
  <2>7. PendingThroughout' \subseteq PendingThroughout
    <3> SUFFICES ASSUME NEW i \in PendingThroughout' PROVE i \in PendingThroughout
      OBVIOUS
    <3>1. CASE i \in KnownThen /\ act'[i].status = "pending"
      BY <1>1, <2>1, <3>1 DEF PendingThroughout, KnownThen, Follows, ActivitiesInv, ListTypeOK,
                              History, Snapshots, Activity, Status
    <3>2. CASE ~(i \in KnownThen /\ act'[i].status = "pending")
      <4>1. /\ i \in 1..call.since /\ act'[i].kind = "invoice" /\ act'[i].status = "unknown"
            /\ ~Expired(i)'
        BY <1>1, <2>3, <3>2 DEF PendingThroughout
      <4>2. i \in Moments /\ i <= call.since /\ ~Expired(i)
        BY <1>1, <2>1, <4>1 DEF Moments, Expired, ActivitiesInv, ListTypeOK
      <4>3. act[i].kind = "invoice" /\ act[i].status = "unknown"
        BY <1>1, <2>4, <4>1, <4>2
           DEF Follows, ActivitiesInv, ListTypeOK, Snapshots, Activity, Status
      <4> QED BY <4>1, <4>2, <4>3 DEF PendingThroughout
    <3> QED BY <3>1, <3>2
  <2>8. PendingIn'
    BY <1>1, <2>3, <2>7 DEF ActivitiesInv, CutIsRight, PendingIn, InPending
  <2>9. call.at = "listed" => SwapIn'
    <3>1. \A i \in InProgress' : i <= call.since => i \in InProgress
      BY <1>1, <2>4 DEF InProgress, Follows, ActivitiesInv, ListTypeOK, Snapshots, Activity, Status
    <3> QED BY <1>1, <3>1 DEF ActivitiesInv, CutIsRight, SwapIn, InPending
  <2> QED BY <1>1, <2>2, <2>6, <2>8, <2>9 DEF CutIsRight
<1> QED BY <1>2, <1>3, <1>4, <1>5 DEF ActivitiesInv

-----------------------------------------------------------------------------
(* What the call reads                                                       *)

\* The call begins: the SDK answers with how things are.
LEMMA ListInv == ASSUME ActivitiesInv, NEW n \in Requested, List(n) PROVE ActivitiesInv'
<1>1. call' = [at |-> "asked", n |-> n, since |-> now, sdk |-> act] /\ UNCHANGED <<now, act>>
  BY DEF List
<1>2. ListTypeOK' /\ History(act, now)'
  BY <1>1 DEF ActivitiesInv, ListTypeOK, CallTypes
<1>3. AnswerIsPast'
  BY <1>1 DEF AnswerIsPast, ActivitiesInv, ListTypeOK, Follows
<1>4. RowsAreLast' /\ CutIsRight' /\ GetMissed'
  BY <1>1 DEF RowsAreLast, CutIsRight, GetMissed
<1> QED BY <1>2, <1>3, <1>4 DEF ActivitiesInv

\* What get() learns, and the end of either.
LEMMA GetInv ==
  ASSUME ActivitiesInv, (\E i \in Moments : Get(i)) \/ ReadRow \/ Return PROVE ActivitiesInv'
<1> DEFINE Gets == /\ call'.at \in {"missed", "got", "idle"}
                   /\ call' \in CallTypes /\ GetMissed'
<1>1. UNCHANGED <<now, act>>
  BY DEF Get, ReadRow, Return
<1>2. Gets
  <2>1. ASSUME NEW i \in Moments, Get(i) PROVE Gets
    BY <2>1 DEF Get, GetMissed, ActivitiesInv, ListTypeOK, CallTypes
  <2>2. CASE ReadRow /\ act[call.id].kind = "invoice"
    <3>1. call \in [at : {"missed", "got"}, id : Moments, by : {"sdk", "row"}, sdk : Snapshots]
      BY <2>2, CallShape DEF ReadRow, ActivitiesInv
    <3>2. call' = [call EXCEPT !.at = "got", !.by = "row"] /\ call.at = "missed"
      BY <2>2 DEF ReadRow
    <3>3. call.sdk[call.id].status = "unknown"
      BY <3>2 DEF ActivitiesInv, GetMissed
    <3> QED BY <3>1, <3>2, <3>3 DEF CallTypes, GetMissed
  <2>3. CASE Return \/ (ReadRow /\ act[call.id].kind # "invoice")
    BY <2>3 DEF Return, ReadRow, GetMissed, CallTypes
  <2> QED BY <2>1, <2>2, <2>3
<1> QED BY <1>1, <1>2 DEF ActivitiesInv, ListTypeOK, AnswerIsPast, Listing, RowsAreLast, CutIsRight

\* The table is read.  Expired invoices are left out only for as many later ones.
LEMMA ReadRowsInv == ASSUME ActivitiesInv, ReadRows PROVE ActivitiesInv'
<1>1. /\ call' = [at |-> "read", n |-> call.n, since |-> call.since, sdk |-> call.sdk,
                  rows |-> CreatedInvoices(call.n)]
      /\ call.at = "asked" /\ UNCHANGED <<now, act>>
  BY DEF ReadRows
<1>2. /\ call.n \in Nat /\ call.n \in Requested /\ call.since \in 0..MaxTime
      /\ call.sdk \in Snapshots /\ call.since <= now /\ now \in Nat
  BY <1>1, CallShape DEF ActivitiesInv, ListTypeOK, AnswerIsPast, Listing
<1>3. CreatedInvoices(call.n) \in SUBSET Moments
  BY DEF CreatedInvoices, Latest
<1>4. ListTypeOK' /\ History(act, now)' /\ AnswerIsPast'
  BY <1>1, <1>2, <1>3 DEF ActivitiesInv, ListTypeOK, CallTypes, AnswerIsPast, Listing
<1>5. RowsAreLast'
  <2> DEFINE rows == CreatedInvoices(call.n)
             expired == {i \in Moments : act[i].kind = "invoice" /\ Expired(i)}
             key == [i \in expired |-> i]
  <2>1. \A i \in rows : act[i].kind = "invoice"
    BY DEF CreatedInvoices, Latest
  <2>2. ASSUME NEW i \in Moments, act[i].kind = "invoice"
        PROVE  /\ i <= call.since /\ ~Expired(i) => i \in rows
               /\ call.since > i + Lifetime =>
                    \/ i \in rows
                    \/ Cardinality({j \in rows : j > i /\ Expired(j)}) >= call.n
    <3>1. ~Expired(i) => i \in rows
      BY <2>2 DEF CreatedInvoices
    <3>2. ASSUME call.since > i + Lifetime, i \notin rows
          PROVE  Cardinality({j \in rows : j > i /\ Expired(j)}) >= call.n
      <4>1. i \in expired /\ i \in Int
        BY <1>2, <2>2, <3>1, <3>2 DEF Moments
      <4>2. IsFiniteSet(expired) /\ key \in [expired -> Int] /\ Distinct(expired, key)
        BY MomentsFinite, FS_Subset DEF Distinct, Moments
      <4>3. i \notin Latest(expired, key, call.n)
        BY <3>2, <4>1 DEF CreatedInvoices
      <4>4. ~(Cardinality(Above(expired, key, i)) < call.n)
        BY <4>1, <4>3 DEF Latest, Above
      <4>5. Cardinality(Above(expired, key, i)) \in Nat
        BY <4>2, AboveIsFinite
      <4>6. Cardinality(Above(Latest(expired, key, call.n), key, i)) = call.n
        <5> HIDE DEF expired, key
        <5>1. Cardinality(Above(expired, key, i)) >= call.n
          BY <1>2, <4>4, <4>5
        <5> QED BY <1>2, <4>1, <4>2, <5>1, LatestAreAbove
      <4>7. Above(Latest(expired, key, call.n), key, i) \in SUBSET {j \in rows : j > i /\ Expired(j)}
        BY DEF Above, Latest, CreatedInvoices
      <4>8. /\ IsFiniteSet({j \in rows : j > i /\ Expired(j)})
            /\ {j \in rows : j > i /\ Expired(j)} \in SUBSET Moments
        BY <1>3, MomentsFinite, FS_Subset
      <4>9. Cardinality({j \in rows : j > i /\ Expired(j)}) \in Nat
        BY <4>8, FS_CardinalityType
      <4>10. call.n <= Cardinality({j \in rows : j > i /\ Expired(j)})
        BY <4>6, <4>7, <4>8, FS_Subset
      <4> QED BY <1>2, <4>9, <4>10
    <3> QED BY <3>1, <3>2
  <2>3. \A i : Expired(i)' = Expired(i)
    BY <1>1 DEF Expired
  <2> HIDE DEF rows
  <2>4. call'.rows = rows /\ call'.since = call.since /\ call'.n = call.n
    BY <1>1 DEF rows
  <2> QED BY <1>1, <2>1, <2>2, <2>3, <2>4 DEF RowsAreLast
<1>6. CutIsRight' /\ GetMissed'
  BY <1>1 DEF CutIsRight, GetMissed
<1> QED BY <1>4, <1>5, <1>6 DEF ActivitiesInv

\* The swap in progress is added.
LEMMA ReadSwapInv == ASSUME ActivitiesInv, ReadSwap PROVE ActivitiesInv'
<1> DEFINE ofSwap == {[id |-> i, by |-> "swap", state |-> "pending"] : i \in InProgress}
<1>1. /\ call.at = "cut" /\ call'.at = "listed" /\ UNCHANGED <<now, act>>
      /\ call'.pending = call.pending \cup ofSwap /\ call'.completed = call.completed
      /\ call'.n = call.n /\ call'.since = call.since /\ call'.sdk = call.sdk
      /\ call' \in [at : {"cut", "listed"}, n : Requested, since : 0..MaxTime,
                    sdk : Snapshots, pending : SUBSET Items, completed : SUBSET Items]
  <2>1. ofSwap \in SUBSET Items
    BY DEF Items, InProgress
  <2> HIDE DEF ofSwap
  <2>2. /\ call.at = "cut" /\ UNCHANGED <<now, act>>
        /\ call' = [call EXCEPT !.at = "listed", !.pending = call.pending \cup ofSwap]
    BY DEF ReadSwap, ofSwap
  <2>3. /\ call.pending \in SUBSET Items
        /\ call \in [at : {"cut", "listed"}, n : Requested, since : 0..MaxTime,
                     sdk : Snapshots, pending : SUBSET Items, completed : SUBSET Items]
    BY <2>2, CallShape DEF ActivitiesInv
  <2> QED BY <2>1, <2>2, <2>3
<1>2. ListTypeOK' /\ History(act, now)' /\ AnswerIsPast' /\ GetMissed' /\ RowsAreLast'
  <2>1. call' \in CallTypes
    BY <1>1 DEF CallTypes
  <2> QED BY <1>1, <2>1 DEF ActivitiesInv, ListTypeOK, AnswerIsPast, Listing, GetMissed, RowsAreLast
<1>3. Sorted /\ NotAwaited /\ CompletedIn /\ PendingIn /\ Cardinality(call.completed) <= call.n
  BY <1>1 DEF ActivitiesInv, CutIsRight
<1>4. KnownThen' = KnownThen
  BY <1>1 DEF KnownThen
<1>5. Sorted'
  BY <1>1, <1>3 DEF Sorted, AreItems, Items, InProgress
<1>6. NotAwaited'
  <2>1. \A a \in ofSwap : a.by # "row"
    OBVIOUS
  <2> HIDE DEF ofSwap
  <2> QED BY <1>1, <1>3, <1>4, <2>1 DEF NotAwaited
<1>7. CompletedIn'
  <2>1. CompletedThroughout' = CompletedThroughout
    BY <1>1, <1>4 DEF CompletedThroughout
  <2>2. \A i : SortedBy(i)' = SortedBy(i) /\ Time(i)' = Time(i)
    BY <1>1 DEF SortedBy, Time
  <2> HIDE DEF ofSwap
  <2> QED BY <1>1, <1>3, <1>4, <2>1, <2>2 DEF CompletedIn
<1>8. PendingIn' /\ SwapIn'
  <2>1. PendingThroughout' = PendingThroughout /\ InProgress' = InProgress
    BY <1>1, <1>4 DEF PendingThroughout, InProgress, Expired
  <2>2. ASSUME NEW i \in InProgress PROVE \E a \in ofSwap : a.id = i
    <3> WITNESS [id |-> i, by |-> "swap", state |-> "pending"] \in ofSwap
    <3> QED OBVIOUS
  <2> HIDE DEF ofSwap
  <2> QED BY <1>1, <1>3, <1>4, <2>1, <2>2 DEF PendingIn, SwapIn, InPending
<1> QED BY <1>1, <1>2, <1>3, <1>5, <1>6, <1>7, <1>8 DEF ActivitiesInv, CutIsRight

-----------------------------------------------------------------------------
(* The list is cut                                                           *)

\* What has been read, and how it relates.
LEMMA ReadFacts ==
  ASSUME ActivitiesInv, call.at = "read"
  PROVE  /\ call.n \in Nat /\ call.n \in Requested /\ call.since \in 0..MaxTime
         /\ call.since <= now /\ now \in Nat
         /\ call.sdk \in Snapshots /\ call.rows \in SUBSET Moments
         /\ History(call.sdk, call.since) /\ Follows(call.sdk, act, call.since)
         /\ KnownThen \in SUBSET Moments /\ IsFiniteSet(KnownThen)
         /\ IsFiniteSet(call.rows) /\ Cardinality(call.rows) \in Nat
         /\ SdkPayments \in SUBSET KnownThen
<1>1. /\ call.n \in Nat /\ call.n \in Requested /\ call.since \in 0..MaxTime
      /\ call.since <= now /\ now \in Nat
      /\ call.sdk \in Snapshots /\ call.rows \in SUBSET Moments
      /\ History(call.sdk, call.since) /\ Follows(call.sdk, act, call.since)
  BY CallShape DEF ActivitiesInv, ListTypeOK, AnswerIsPast, Listing
<1>2. KnownThen \in SUBSET Moments /\ SdkPayments \in SUBSET KnownThen
  BY DEF KnownThen, SdkPayments, Latest
<1>3. IsFiniteSet(KnownThen) /\ IsFiniteSet(call.rows)
  BY <1>1, <1>2, MomentsFinite, FS_Subset
<1> QED BY <1>1, <1>2, <1>3, FS_CardinalityType

\* One item for each payment, and for each invoice without one.
LEMMA Multiplex ==
  ASSUME ActivitiesInv, call.at = "read"
  PROVE  /\ Multiplexed \in SUBSET Items /\ IsFiniteSet(Multiplexed)
         /\ \A a \in Multiplexed :
              \/ a.by = "sdk" /\ a.id \in SdkPayments /\ a = FromSdk(a.id)
              \/ a.by = "row" /\ a.id \in UnpaidRows /\ a = FromRow(a.id)
         /\ \A a, b \in Multiplexed : a.id = b.id => a = b
         /\ Cardinality(Multiplexed) \in Nat
         /\ Cardinality(Multiplexed) <= Cardinality(SdkPayments) + Cardinality(call.rows)
<1> DEFINE ids == SdkPayments \cup UnpaidRows
           id == [a \in Multiplexed |-> a.id]
<1>1. SdkPayments \in SUBSET Moments /\ UnpaidRows \in SUBSET call.rows
      /\ UnpaidRows \in SUBSET Moments /\ IsFiniteSet(call.rows) /\ IsFiniteSet(SdkPayments)
  BY ReadFacts, FS_Subset DEF UnpaidRows
<1>2. Multiplexed \in SUBSET Items
  BY <1>1 DEF Multiplexed, FromSdk, FromRow, Items
<1>3. \A a \in Multiplexed :
        \/ a.by = "sdk" /\ a.id \in SdkPayments /\ a = FromSdk(a.id)
        \/ a.by = "row" /\ a.id \in UnpaidRows /\ a = FromRow(a.id)
  BY DEF Multiplexed, FromSdk, FromRow
<1>4. \A a, b \in Multiplexed : a.id = b.id => a = b
  BY <1>3 DEF UnpaidRows
<1>5. id \in Injection(Multiplexed, ids)
  <2>1. id \in [Multiplexed -> ids] /\ \A a, b \in Multiplexed : id[a] = id[b] => a = b
    BY <1>3, <1>4
  <2> HIDE DEF id, ids
  <2> QED BY <2>1 DEF Injection, IsInjective
<1>6. /\ IsFiniteSet(ids) /\ IsFiniteSet(UnpaidRows)
      /\ Cardinality(ids) =
           Cardinality(SdkPayments) + Cardinality(UnpaidRows) - Cardinality(SdkPayments \cap UnpaidRows)
      /\ Cardinality(UnpaidRows) <= Cardinality(call.rows)
  BY <1>1, FS_Subset, FS_Union
<1>7. Cardinality(SdkPayments \cap UnpaidRows) = 0
  <2>1. SdkPayments \cap UnpaidRows = {}
    BY DEF UnpaidRows
  <2> QED BY <2>1, FS_EmptySet
<1>8. IsFiniteSet(Multiplexed) /\ Cardinality(Multiplexed) <= Cardinality(ids)
  <2> HIDE DEF id, ids
  <2> QED BY <1>5, <1>6, FS_Injection
<1>9. /\ Cardinality(Multiplexed) \in Nat /\ Cardinality(SdkPayments) \in Nat
      /\ Cardinality(UnpaidRows) \in Nat /\ Cardinality(call.rows) \in Nat
      /\ Cardinality(ids) \in Nat
  <2> HIDE DEF ids
  <2> QED BY <1>1, <1>6, <1>8, FS_CardinalityType
<1> HIDE DEF ids
<1>10. Cardinality(ids) = Cardinality(SdkPayments) + Cardinality(UnpaidRows)
  BY <1>6, <1>7, <1>9
<1>11. Cardinality(Multiplexed) <= Cardinality(SdkPayments) + Cardinality(call.rows)
  BY <1>6, <1>8, <1>9, <1>10
<1> QED BY <1>2, <1>3, <1>4, <1>8, <1>9, <1>11

CompletedItems == {a \in Multiplexed : a.state = "completed"}

TimeOf == [a \in Multiplexed |-> Time(a)]

\* The items are sorted by numbers, completed ones by the moment of the invoice or
\* the payment, which is their own.
LEMMA Times ==
  ASSUME ActivitiesInv, call.at = "read"
  PROVE  /\ \A a \in Multiplexed : Time(a) \in Int
         /\ \A a \in CompletedItems :
              Time(a) = IF a.by = "row" \/ call.sdk[a.id].kind = "invoice"
                          THEN a.id ELSE call.sdk[a.id].paid
         /\ \A a, b \in CompletedItems : Time(a) = Time(b) => a = b
<1>1. /\ \A i \in Moments : /\ i \in Int /\ call.sdk[i].paid \in Int
                              /\ call.sdk[i].status \in Status
      /\ MaxTime \in Int
  BY ReadFacts DEF Snapshots, Activity, Moments
<1>2. \A a \in Multiplexed : a.id \in Moments
  BY Multiplex DEF Items
\* The SDK's answer has another kind for none of the rows.
<1>3. ASSUME NEW j \in call.rows PROVE call.sdk[j].kind # "close"
  <2>1. act[j].kind = "invoice" /\ j \in Moments
    BY ReadFacts DEF ActivitiesInv, RowsAreLast
  <2>2. j <= call.since => call.sdk[j].kind = "invoice"
    BY <2>1, ReadFacts DEF Follows
  <2>3. call.sdk[j].kind # "none" => j <= call.since
    BY <2>1, ReadFacts DEF History, Past
  <2> QED BY <2>2, <2>3
<1>4. \A a \in Multiplexed : a.by = "row" => call.sdk[a.id].kind # "close"
  BY <1>3, Multiplex DEF UnpaidRows
<1>5. \A a \in Multiplexed : Time(a) \in Int
  BY <1>1, <1>2, <1>4 DEF Time
<1>6. ASSUME NEW a \in CompletedItems
      PROVE  Time(a) = IF a.by = "row" \/ call.sdk[a.id].kind = "invoice"
                         THEN a.id ELSE call.sdk[a.id].paid
  <2>1. a \in Multiplexed /\ a.state = "completed"
    BY DEF CompletedItems
  <2>2. a.by = "sdk" => call.sdk[a.id].status # "pending"
    BY <2>1, Multiplex DEF FromSdk
  <2>3. a.by = "sdk" \/ a.by = "row"
    BY <2>1, Multiplex
  <2> QED BY <1>4, <2>1, <2>2, <2>3 DEF Time
\* A row the SDK's answer does not know was created after it.
<1>7. ASSUME NEW j \in call.rows, NEW i \in Moments, i # j, call.sdk[i].status # "unknown"
      PROVE  call.sdk[i].paid # j
  <2>1. /\ call.sdk[i].paid # 0 /\ call.sdk[i].paid <= call.since /\ j \in Moments
        /\ call.sdk[j].kind # "none" => call.sdk[i].paid # j
    BY <1>7, ReadFacts DEF History, WellFormed, OwnMoments, Past
  <2>2. act[j].kind = "invoice"
    BY <1>7 DEF ActivitiesInv, RowsAreLast
  <2>3. j <= call.since => call.sdk[j].kind = "invoice"
    BY <2>1, <2>2, ReadFacts DEF Follows
  <2> QED BY <1>1, <2>1, <2>3, ReadFacts
<1>8. ASSUME NEW a \in CompletedItems, NEW b \in CompletedItems, a # b, Time(a) = Time(b)
      PROVE  FALSE
  <2>1. a \in Multiplexed /\ b \in Multiplexed /\ a.id \in Moments /\ b.id \in Moments
    BY <1>2 DEF CompletedItems
  <2>2. a.id # b.id
    BY <1>8, <2>1, Multiplex
  <2>3. \A c \in {a, b} :
          \/ c.by = "sdk" /\ call.sdk[c.id].status # "unknown"
          \/ c.by = "row" /\ c.id \in call.rows
    BY <2>1, Multiplex, ReadFacts DEF KnownThen, UnpaidRows
  <2> DEFINE byId(c) == c.by = "row" \/ call.sdk[c.id].kind = "invoice"
  <2>4. ASSUME NEW c \in {a, b}, NEW d \in {a, b}, c.id # d.id, byId(c), ~byId(d)
        PROVE  call.sdk[d.id].paid # c.id
    <3>1. call.sdk[d.id].status # "unknown" /\ d.id \in Moments /\ c.id \in Moments
      BY <2>1, <2>3, <2>4
    <3>2. CASE c.by = "row"
      BY <1>7, <2>3, <2>4, <3>1, <3>2
    <3>3. CASE call.sdk[c.id].kind = "invoice"
      BY <2>4, <3>1, <3>3, ReadFacts DEF History, WellFormed, OwnMoments
    <3> QED BY <2>4, <3>2, <3>3
  <2>5. CASE byId(a) /\ byId(b)
    BY <1>6, <1>8, <2>2, <2>5
  <2>6. CASE byId(a) /\ ~byId(b)
    BY <1>6, <1>8, <2>2, <2>4, <2>6
  <2>7. CASE ~byId(a) /\ byId(b)
    BY <1>6, <1>8, <2>2, <2>4, <2>7
  <2>8. CASE ~byId(a) /\ ~byId(b)
    <3>1. call.sdk[a.id].paid # call.sdk[b.id].paid
      BY <2>1, <2>2, <2>3, <2>8, ReadFacts DEF History, WellFormed, OwnMoments
    <3> QED BY <1>6, <1>8, <2>8, <3>1
  <2> QED BY <2>5, <2>6, <2>7, <2>8
<1> QED BY <1>5, <1>6, <1>8

\* With no more payments than it asks for the SDK answers with all of them.
LEMMA AllPayments ==
  ASSUME ActivitiesInv, call.at = "read", NEW k \in Nat, k <= call.n + Leeway,
         Cardinality(KnownThen) <= k
  PROVE  SdkPayments = KnownThen
<1> DEFINE paid == [i \in KnownThen |-> call.sdk[i].paid]
<1>1. paid \in [KnownThen -> Int]
  BY ReadFacts DEF Snapshots, Activity
<1>2. Cardinality(KnownThen) \in Nat /\ IsFiniteSet(KnownThen) /\ call.n + Leeway \in Nat
  BY ReadFacts, FS_CardinalityType
<1>3. Cardinality(KnownThen) <= call.n + Leeway
  BY <1>2
<1>4. SdkPayments = Latest(KnownThen, paid, call.n + Leeway)
  BY DEF SdkPayments, KnownThen
<1> HIDE DEF paid
<1> QED BY <1>1, <1>2, <1>3, <1>4, NothingIsCut

\* What is cut off: a member, or as many later ones are left as there is room for.
LEMMA LeftOut ==
  ASSUME ActivitiesInv, call.at = "read", NEW t \in Int,
         \/ \E a \in CompletedItems : Time(a) = t /\ a \notin Completed
         \/ Cardinality({a \in CompletedItems : Time(a) > t}) >= call.n
  PROVE  Cardinality({a \in Completed : Time(a) > t}) = call.n
<1> DEFINE key == [a \in CompletedItems |-> Time(a)]
<1>1. /\ CompletedItems \in SUBSET Multiplexed /\ IsFiniteSet(CompletedItems)
      /\ call.n \in Nat
  BY Multiplex, ReadFacts, FS_Subset DEF CompletedItems
<1>2. key \in [CompletedItems -> Int] /\ Distinct(CompletedItems, key)
  BY <1>1, Times DEF Distinct
<1>3. Completed = Latest(CompletedItems, key, call.n)
  BY DEF Completed, LatestOf, CompletedItems
<1>4. Above(CompletedItems, key, t) = {a \in CompletedItems : Time(a) > t}
  BY DEF Above
<1>5. Above(Completed, key, t) = {a \in Completed : Time(a) > t}
  BY <1>3 DEF Above, Latest
<1>6. Cardinality(Above(CompletedItems, key, t)) >= call.n
  <2>1. CASE \E a \in CompletedItems : Time(a) = t /\ a \notin Completed
    <3>1. PICK a \in CompletedItems : key[a] = t /\ a \notin Latest(CompletedItems, key, call.n)
      BY <1>3, <2>1
    <3> HIDE DEF key
    <3>2. ~(Cardinality(Above(CompletedItems, key, t)) < call.n)
      BY <3>1 DEF Latest, Above
    <3> QED BY <1>1, <3>2, AboveIsFinite
  <2> QED BY <1>4, <2>1
<1> HIDE DEF key
<1> QED BY <1>1, <1>2, <1>3, <1>5, <1>6, LatestAreAbove

\* Every payment of then that is not left out by its rank has its item, every
\* invoice that expired before has one, or as many later ones have.
LEMMA CompletedIsListed ==
  ASSUME ActivitiesInv, call.at = "read", Cardinality(KnownThen) <= call.n + Leeway,
         NEW i \in CompletedThroughout
  PROVE  \/ \E a \in Completed : a.id = i
         \/ Cardinality({a \in Completed : Time(a) > SortedBy(i)}) = call.n
<1>1. SdkPayments = KnownThen
  BY ReadFacts, AllPayments
<1>2. i \in Moments /\ i \in Int /\ call.n \in Nat /\ now \in Nat
  BY ReadFacts DEF CompletedThroughout, Moments
<1>3. SortedBy(i) \in Int
  BY <1>2 DEF SortedBy, ActivitiesInv, ListTypeOK, Snapshots, Activity
<1>4. ASSUME NEW a \in CompletedItems, a.id = i, Time(a) = SortedBy(i)
      PROVE  \/ \E b \in Completed : b.id = i
             \/ Cardinality({b \in Completed : Time(b) > SortedBy(i)}) = call.n
  BY <1>3, <1>4, LeftOut
<1>5. CASE i \in KnownThen /\ call.sdk[i].status # "pending"
  <2>1. FromSdk(i) \in CompletedItems /\ FromSdk(i).id = i /\ FromSdk(i).by = "sdk"
    BY <1>1, <1>5 DEF CompletedItems, Multiplexed, FromSdk
  <2>2. call.sdk[i].status \in {"complete", "failed"}
    BY <1>2, <1>5, ReadFacts DEF KnownThen, Snapshots, Activity, Status
  <2>3. act[i] = call.sdk[i]
    BY <1>2, <2>2, ReadFacts DEF Follows
  <2>4. Time(FromSdk(i)) = SortedBy(i)
    BY <2>1, <2>3, Times DEF SortedBy
  <2> QED BY <1>4, <2>1, <2>4
<1>6. CASE ~(i \in KnownThen /\ call.sdk[i].status # "pending")
  <2>1. act[i].kind = "invoice" /\ act[i].status = "unknown" /\ call.since > i + Lifetime
    BY <1>6 DEF CompletedThroughout
  <2>2. Expired(i) /\ SortedBy(i) = i
    BY <1>2, <2>1, ReadFacts DEF Expired, SortedBy
\* The item of a row that has expired.
  <2>3. ASSUME NEW j \in call.rows, Expired(j)
        PROVE  \E a \in CompletedItems : a.id = j /\ Time(a) = j
    <3>1. act[j].kind = "invoice" /\ j \in Moments
      BY ReadFacts DEF ActivitiesInv, RowsAreLast
    <3>2. CASE j \in SdkPayments
      <4>1. call.sdk[j].status # "unknown" /\ call.sdk[j].kind # "none" /\ j <= call.since
        BY <1>1, <3>1, <3>2, ReadFacts DEF KnownThen, History, WellFormed, Past
      <4>2. call.sdk[j].kind = "invoice" /\ call.sdk[j].status # "pending"
        BY <3>1, <4>1, ReadFacts DEF Follows, History, WellFormed
      <4>3. FromSdk(j) \in CompletedItems /\ FromSdk(j).id = j
        BY <3>2, <4>2 DEF CompletedItems, Multiplexed, FromSdk
      <4>4. Time(FromSdk(j)) = j
        BY <4>2, <4>3, Times
      <4> QED BY <4>3, <4>4
    <3>3. CASE j \notin SdkPayments
      <4>1. FromRow(j) \in CompletedItems /\ FromRow(j).id = j /\ FromRow(j).by = "row"
        BY <2>3, <3>3 DEF CompletedItems, Multiplexed, UnpaidRows, FromRow
      <4>2. Time(FromRow(j)) = j
        BY <4>1, Times
      <4> QED BY <4>1, <4>2
    <3> QED BY <3>2, <3>3
  <2>4. CASE i \in call.rows
    BY <1>4, <2>2, <2>3, <2>4
  <2>5. CASE i \notin call.rows
    <3> DEFINE J == {j \in call.rows : j > i /\ Expired(j)}
               later == {a \in CompletedItems : Time(a) > i}
               item == [j \in J |-> CHOOSE a \in CompletedItems : a.id = j /\ Time(a) = j]
    <3>1. Cardinality(J) >= call.n
      BY <1>2, <2>1, <2>5 DEF ActivitiesInv, RowsAreLast
    <3>2. ASSUME NEW j \in J PROVE item[j] \in later /\ item[j].id = j
      <4>1. \E a \in CompletedItems : a.id = j /\ Time(a) = j
        BY <2>3
      <4>2. item[j] \in CompletedItems /\ item[j].id = j /\ Time(item[j]) = j
        BY <4>1
      <4> QED BY <4>2
    <3>3. item \in Injection(J, later)
      <4>1. item \in [J -> later] /\ \A j, k \in J : item[j] = item[k] => j = k
        BY <3>2
      <4> HIDE DEF item, J, later
      <4> QED BY <4>1 DEF Injection, IsInjective
    <3>4. IsFiniteSet(later)
      <4>1. later \in SUBSET Multiplexed
        BY DEF CompletedItems
      <4> HIDE DEF later
      <4> QED BY <4>1, Multiplex, FS_Subset
    <3> HIDE DEF J, later, item
    <3>5. /\ Cardinality(J) <= Cardinality(later) /\ Cardinality(J) \in Nat
          /\ Cardinality(later) \in Nat
      BY <3>3, <3>4, FS_Injection, FS_CardinalityType
    <3>6. Cardinality(later) >= call.n
      BY <1>2, <3>1, <3>5
    <3> QED BY <1>2, <2>2, <3>6, LeftOut DEF later
  <2> QED BY <2>4, <2>5
<1> QED BY <1>5, <1>6

\* The head of the list is all of it when the SDK has no more than the leeway.
LEMMA PendingIsListed ==
  ASSUME ActivitiesInv, call.at = "read", Cardinality(KnownThen) <= Leeway,
         NEW i \in PendingThroughout
  PROVE  \E a \in Pending : a.id = i
<1>1. SdkPayments = KnownThen
  <2>1. Leeway <= call.n + Leeway
    BY ReadFacts
  <2> QED BY <2>1, AllPayments
<1>2. Head = Multiplexed
  <2> DEFINE key == [a \in Multiplexed |-> Time(a)]
  <2>1. key \in [Multiplexed -> Int]
    BY Times
  <2>2. /\ Cardinality(Multiplexed) <= Leeway + Cardinality(call.rows)
        /\ Leeway + Cardinality(call.rows) \in Nat
    <3>1. /\ Cardinality(KnownThen) \in Nat /\ Cardinality(call.rows) \in Nat
          /\ Cardinality(Multiplexed) \in Nat
          /\ Cardinality(Multiplexed) <= Cardinality(KnownThen) + Cardinality(call.rows)
      BY <1>1, Multiplex, ReadFacts, FS_CardinalityType
    <3> QED BY <3>1
  <2>3. Head = Latest(Multiplexed, key, Leeway + Cardinality(call.rows))
    BY DEF Head, LatestOf, LookForPending
  <2> HIDE DEF key
  <2> QED BY <2>1, <2>2, <2>3, Multiplex, NothingIsCut
<1>3. i \in Moments /\ call.sdk[i].status \in Status
  BY ReadFacts DEF PendingThroughout, Snapshots, Activity, Moments, ActivitiesInv, ListTypeOK
<1>4. CASE i \in KnownThen /\ act[i].status = "pending"
  <2>1. call.sdk[i].status = "pending"
    BY <1>3, <1>4, ReadFacts DEF KnownThen, Follows, Status
  <2>2. FromSdk(i) \in Pending /\ FromSdk(i).id = i
    BY <1>1, <1>2, <1>4, <2>1 DEF Pending, Multiplexed, FromSdk
  <2> QED BY <2>2
<1>5. CASE ~(i \in KnownThen /\ act[i].status = "pending")
  <2>1. i <= call.since /\ act[i].kind = "invoice" /\ act[i].status = "unknown" /\ ~Expired(i)
    BY <1>5, ReadFacts DEF PendingThroughout
  <2>2. i \in call.rows
    BY <1>3, <2>1 DEF ActivitiesInv, RowsAreLast
  <2>3. i \notin KnownThen
    BY <1>3, <2>1, ReadFacts DEF KnownThen, Follows, Status
  <2>4. FromRow(i) \in Pending /\ FromRow(i).id = i
    BY <1>1, <1>2, <2>1, <2>2, <2>3 DEF Pending, Multiplexed, UnpaidRows, FromRow
  <2> QED BY <2>4
<1> QED BY <1>4, <1>5

\* The list is cut: what it leaves out makes room for as many later items.
LEMMA PartitionInv == ASSUME ActivitiesInv, Partition PROVE ActivitiesInv'
<1>1. /\ call.at = "read" /\ UNCHANGED <<now, act>>
      /\ call' = [at |-> "cut", n |-> call.n, since |-> call.since, sdk |-> call.sdk,
                  pending |-> Pending, completed |-> Completed]
  BY DEF Partition
<1>2. Pending \in SUBSET Multiplexed /\ Completed \in SUBSET CompletedItems
  BY DEF Pending, Head, Completed, LatestOf, Latest, CompletedItems
<1>3. Pending \in SUBSET Items /\ Completed \in SUBSET Items
  BY <1>1, <1>2, Multiplex DEF CompletedItems
<1>4. ListTypeOK' /\ History(act, now)' /\ AnswerIsPast' /\ RowsAreLast' /\ GetMissed'
  <2>1. call' \in CallTypes
    BY <1>1, <1>3, ReadFacts DEF CallTypes
  <2> QED BY <1>1, <2>1 DEF ActivitiesInv, ListTypeOK, AnswerIsPast, Listing, RowsAreLast, GetMissed
<1>5. /\ call'.pending = Pending /\ call'.completed = Completed /\ call'.n = call.n
      /\ call'.since = call.since /\ call'.sdk = call.sdk /\ call'.at = "cut"
  BY <1>1
<1>6. KnownThen' = KnownThen
  BY <1>5 DEF KnownThen
<1>7. Sorted'
  BY <1>3, <1>5 DEF Sorted, AreItems, Items, Pending, Completed, LatestOf, Latest
<1>8. Cardinality(Completed) <= call.n
  <2> DEFINE key == [a \in CompletedItems |-> Time(a)]
  <2>1. key \in [CompletedItems -> Int] /\ Distinct(CompletedItems, key)
    BY <1>1, Times DEF Distinct, CompletedItems
  <2>2. Completed = Latest(CompletedItems, key, call.n)
    BY DEF Completed, LatestOf, CompletedItems
  <2>3. IsFiniteSet(CompletedItems)
    <3>1. CompletedItems \in SUBSET Multiplexed
      BY DEF CompletedItems
    <3> QED BY <1>1, <3>1, Multiplex, FS_Subset
  <2> HIDE DEF key
  <2> QED BY <1>1, <2>1, <2>2, <2>3, ReadFacts, CutToLimit
<1>9. NotAwaited'
  <2>1. ASSUME NEW a \in Pending \cup Completed, a.by = "row", a.id \in KnownThen
        PROVE  Cardinality({i \in KnownThen : call.sdk[i].paid > call.sdk[a.id].paid}) >= call.n + Leeway
    <3> DEFINE paid == [i \in KnownThen |-> call.sdk[i].paid]
    <3>1. a \in Multiplexed
      BY <1>2 DEF CompletedItems
    <3>2. a.id \notin SdkPayments
      BY <1>1, <2>1, <3>1, Multiplex DEF UnpaidRows
    <3>3. SdkPayments = Latest(KnownThen, paid, call.n + Leeway)
      BY DEF SdkPayments, KnownThen
    <3>4. ~(Cardinality(Above(KnownThen, paid, paid[a.id])) < call.n + Leeway)
      BY <2>1, <3>2, <3>3 DEF Latest, Above
    <3>5. Cardinality(Above(KnownThen, paid, paid[a.id])) \in Nat /\ call.n + Leeway \in Nat
      BY <1>1, ReadFacts, AboveIsFinite
    <3>6. Above(KnownThen, paid, paid[a.id]) =
            {i \in KnownThen : call.sdk[i].paid > call.sdk[a.id].paid}
      BY <2>1 DEF Above
    <3> HIDE DEF paid
    <3> QED BY <3>4, <3>5, <3>6
  <2> QED BY <1>5, <1>6, <2>1 DEF NotAwaited
<1>10. CompletedIn'
  <2>1. CompletedThroughout' = CompletedThroughout
    BY <1>1, <1>5, <1>6 DEF CompletedThroughout
  <2>2. \A i : SortedBy(i)' = SortedBy(i) /\ Time(i)' = Time(i)
    BY <1>1, <1>5 DEF SortedBy, Time
  <2>3. ASSUME Cardinality(KnownThen) <= call.n + Leeway, NEW i \in CompletedThroughout
        PROVE  \/ \E a \in Completed : a.id = i
               \/ Cardinality({a \in Completed : Time(a) > SortedBy(i)}) = call.n
    BY <1>1, <2>3, CompletedIsListed
  <2> QED BY <1>5, <1>6, <2>1, <2>2, <2>3 DEF CompletedIn
<1>11. PendingIn'
  <2>1. PendingThroughout' = PendingThroughout
    BY <1>1, <1>5, <1>6 DEF PendingThroughout, Expired
  <2> QED BY <1>1, <1>5, <1>6, <2>1, PendingIsListed DEF PendingIn, InPending
<1> QED BY <1>4, <1>5, <1>7, <1>8, <1>9, <1>10, <1>11 DEF ActivitiesInv, CutIsRight

-----------------------------------------------------------------------------
(* The theorems                                                              *)

\* Every step preserves the invariant.
LEMMA NextActivities == ActivitiesInv /\ [Next]_vars => ActivitiesInv'
<1> SUFFICES ASSUME ActivitiesInv, [Next]_vars PROVE ActivitiesInv'
  OBVIOUS
<1>1. CASE World
  BY <1>1, WorldInv
<1>2. CASE App
  BY <1>2, ListInv, ReadRowsInv, PartitionInv, ReadSwapInv, GetInv DEF App
<1>3. CASE UNCHANGED vars
  BY <1>3 DEF vars, ActivitiesInv, ListTypeOK, History, AnswerIsPast, Listing, RowsAreLast,
              Expired, CutIsRight, Sorted, AreItems, Items, NotAwaited, KnownThen, CompletedIn,
              CompletedThroughout, SortedBy, Time, PendingIn, PendingThroughout, InPending,
              SwapIn, InProgress, GetMissed
<1> QED BY <1>1, <1>2, <1>3 DEF Next

\* The invariant holds in every behaviour.
THEOREM ActivitiesInvariant == Spec => []ActivitiesInv
  BY InitActivities, NextActivities, PTL DEF Spec

\* Types, and that list() returns no more completed activities than were asked
\* for: no two of them are sorted by the same moment.
THEOREM ActivitiesTypes == Spec => []TypeOK
<1>1. ActivitiesInv => TypeOK
  BY CallShape DEF ActivitiesInv, ListTypeOK, Snapshots, TypeOK, CutIsRight, Sorted, CallTypes
<1> QED BY <1>1, ActivitiesInvariant, PTL

\* A payment the SDK knew when a call began is not shown as an unpaid invoice.
THEOREM PaidAreNotAwaited == Spec => []PaidIsNotAwaited
<1>1. ActivitiesInv => PaidIsNotAwaited
  <2> SUFFICES ASSUME ActivitiesInv PROVE PaidIsNotAwaited
    OBVIOUS
  <2>1. call.at = "got" /\ call.by = "row" => call.id \notin KnownThen
    BY DEF ActivitiesInv, GetMissed, KnownThen
  <2> QED BY <2>1 DEF ActivitiesInv, CutIsRight, NotAwaited, PaidIsNotAwaited
<1> QED BY <1>1, ActivitiesInvariant, PTL

\* The completed activities of a list are the latest.
THEOREM LatestAreShown == Spec => []LatestShown
<1>1. ActivitiesInv => LatestShown
  BY DEF ActivitiesInv, CutIsRight, CompletedIn, LatestShown
<1> QED BY <1>1, ActivitiesInvariant, PTL

\* Nothing pending is missing from a list.
THEOREM PendingAreShown == Spec => []PendingShown
<1>1. ActivitiesInv => PendingShown
  BY DEF ActivitiesInv, CutIsRight, PendingIn, SwapIn, PendingShown
<1> QED BY <1>1, ActivitiesInvariant, PTL
=============================================================================
