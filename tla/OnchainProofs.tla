--------------------------- MODULE OnchainProofs ---------------------------
(***************************************************************************)
(* Funds on the chain, payments, actions required and topups, for every    *)
(* number of channels, swaps and payments and for every amount: what the   *)
(* variables hold, that promises are kept, that a hidden swap comes back,  *)
(* that what is sent to a swap is within its limits although the code      *)
(* subtracts without a check, that an offered swap is not refused, and     *)
(* that claimed topups are not listed.                                     *)
(***************************************************************************)
EXTENDS ActionsRequired, FiatTopup, SequenceTheorems, WellFoundedInduction, TLAPS

-----------------------------------------------------------------------------
(* Numbers                                                                   *)

\* The induction the proofs about sums need: a set of naturals has a least
\* element.
LEMMA Least ==
  ASSUME NEW T, T \subseteq Nat, T # {}
  PROVE  \E x \in T : \A y \in T : x <= y
<1> DEFINE R == OpToRel(<, Nat)
<1>1. IsWellFoundedOn(R, Nat)
  BY NatLessThanWellFounded
<1>2. PICK x \in T : \A y \in T : ~(<<y, x>> \in R)
  <2> HIDE DEF R
  <2> QED BY <1>1, WFMin
<1>3. \A y \in Nat : \A z \in Nat : y < z => <<y, z>> \in R
  BY DEF OpToRel
<1> HIDE DEF R
<1>4. ASSUME NEW y \in T
      PROVE  x <= y
  <2>1. x \in Nat /\ y \in Nat
    OBVIOUS
  <2>2. ~(y < x)
    BY <1>2, <1>3, <2>1
  <2> QED
    BY <2>1, <2>2
<1> QED
  BY <1>4

LEMMA MaxOfTwo ==
  ASSUME NEW a \in Int, NEW b \in Int
  PROVE  /\ Max({a, b}) \in {a, b}
         /\ Max({a, b}) >= a /\ Max({a, b}) >= b
<1>1. \E x \in {a, b} : \A y \in {a, b} : x >= y
  OBVIOUS
<1> QED
  BY <1>1 DEF Max

LEMMA MinOfTwo ==
  ASSUME NEW a \in Int, NEW b \in Int
  PROVE  /\ Min({a, b}) \in {a, b}
         /\ Min({a, b}) <= a /\ Min({a, b}) <= b
<1>1. \E x \in {a, b} : \A y \in {a, b} : x <= y
  OBVIOUS
<1> QED
  BY <1>1 DEF Min

LEMMA MaxOfBounded ==
  ASSUME NEW S, S \subseteq Nat, S # {}, NEW b \in Nat, \A x \in S : x <= b
  PROVE  Max(S) \in S /\ \A x \in S : x <= Max(S)
<1> DEFINE Below == {b - x : x \in S}
<1>1. Below \subseteq Nat /\ Below # {}
  <2>1. \A x \in S : b - x \in Nat
    OBVIOUS
  <2> QED
    BY <2>1
<1>2. PICK d \in Below : \A e \in Below : d <= e
  BY <1>1, Least
<1>3. PICK m \in S : d = b - m
  OBVIOUS
<1>4. \A x \in S : m >= x
  <2> TAKE x \in S
  <2>1. b - m <= b - x
    BY <1>2, <1>3
  <2> QED
    BY <2>1
<1> QED
  BY <1>4 DEF Max

\* A sum of naturals is a natural.
LEMMA TotalIsNat ==
  ASSUME NEW s \in Seq(Nat)
  PROVE  Total(s) \in Nat
<1> DEFINE Sums(f, n) == f = [i \in 0..n |-> IF i = 0 THEN 0 ELSE f[i - 1] + s[i]]
<1> DEFINE Bad == {n \in 0..Len(s) : ~\E f : Sums(f, n)}
<1>1. Bad = {}
  <2> SUFFICES ASSUME Bad # {} PROVE FALSE
    OBVIOUS
  <2>0. Bad \subseteq Nat
    OBVIOUS
  <2>1. PICK n \in Bad : \A m \in Bad : n <= m
    <3> HIDE DEF Bad
    <3> QED BY <2>0, Least
  <2>2. n \in 0..Len(s) /\ ~\E f : Sums(f, n)
    OBVIOUS
  <2>3. n # 0
    <3>1. Sums([i \in 0..0 |-> 0], 0)
      OBVIOUS
    <3> QED
      BY <3>1
  <2>4. n - 1 \in 0..Len(s) /\ n \in 1..Len(s)
    BY <2>2, <2>3
  <2>5. n - 1 \notin Bad
    <3> HIDE DEF Bad
    <3> QED BY <2>1, <2>4
  <2>6. PICK f : Sums(f, n - 1)
    BY <2>4, <2>5
  <2> DEFINE g == [i \in 0..n |-> IF i = n THEN f[n - 1] + s[n] ELSE f[i]]
  <2>7. \A i \in 0..n : g[i] = IF i = 0 THEN 0 ELSE g[i - 1] + s[i]
    <3> TAKE i \in 0..n
    <3>1. CASE i = n
      BY <2>3, <2>4, <3>1
    <3>2. CASE i # n
      <4>1. i \in 0..(n - 1)
        BY <2>4, <3>2
      <4> QED
        BY <2>4, <2>6, <4>1
    <3> QED
      BY <3>1, <3>2
  <2>8. Sums(g, n)
    BY <2>7
  <2> QED
    BY <2>2, <2>8
<1> DEFINE sum == CHOOSE f : Sums(f, Len(s))
<1>2. Sums(sum, Len(s))
  <2>1. \E f : Sums(f, Len(s))
    BY <1>1
  <2> QED
    BY <2>1
<1>3. Total(s) = sum[Len(s)]
  BY DEF Total
<1> DEFINE Off == {n \in 0..Len(s) : sum[n] \notin Nat}
<1>4. Off = {}
  <2> SUFFICES ASSUME Off # {} PROVE FALSE
    OBVIOUS
  <2>0. Off \subseteq Nat
    OBVIOUS
  <2>1. PICK n \in Off : \A m \in Off : n <= m
    <3> HIDE DEF Off
    <3> QED BY <2>0, Least
  <2>2. n \in 0..Len(s) /\ sum[n] \notin Nat
    OBVIOUS
  <2>3. sum[n] = IF n = 0 THEN 0 ELSE sum[n - 1] + s[n]
    BY <1>2, <2>2
  <2> HIDE DEF sum
  <2>4. n # 0
    BY <2>2, <2>3
  <2>5. n - 1 \in 0..Len(s) /\ n \in 1..Len(s)
    BY <2>2, <2>4
  <2>6. n - 1 \notin Off
    <3> HIDE DEF Off
    <3> QED BY <2>1, <2>5
  <2> QED
    BY <2>2, <2>3, <2>4, <2>5, <2>6
<1> QED
  BY <1>3, <1>4

\* The values of a sequence of naturals have a bound.
LEMMA SequenceIsBounded ==
  ASSUME NEW s \in Seq(Nat)
  PROVE  \E b \in Nat : \A i \in 1..Len(s) : s[i] <= b
<1>0. Len(s) \in Nat /\ \A i \in 1..Len(s) : s[i] \in Nat
  OBVIOUS
<1> DEFINE Bounds(b, n) == \A i \in 1..n : s[i] <= b
<1> DEFINE Bad == {n \in 0..Len(s) : ~\E b \in Nat : Bounds(b, n)}
<1>1. Bad = {}
  <2> SUFFICES ASSUME Bad # {} PROVE FALSE
    OBVIOUS
  <2>0. Bad \subseteq Nat
    OBVIOUS
  <2>1. PICK n \in Bad : \A m \in Bad : n <= m
    <3> HIDE DEF Bad
    <3> QED BY <2>0, Least
  <2>2. n \in 0..Len(s) /\ ~\E b \in Nat : Bounds(b, n)
    OBVIOUS
  <2>3. n # 0
    <3>1. Bounds(0, 0)
      OBVIOUS
    <3> QED
      BY <2>2, <3>1
  <2>4. n - 1 \in 0..Len(s) /\ n \in 1..Len(s)
    BY <1>0, <2>2, <2>3
  <2>5. n - 1 \notin Bad
    <3> HIDE DEF Bad
    <3> QED BY <2>1, <2>4
  <2>6. PICK b \in Nat : Bounds(b, n - 1)
    BY <2>4, <2>5
  <2> HIDE DEF Bad
  <2>7. b + s[n] \in Nat /\ s[n] \in Nat
    BY <1>0, <2>4
  <2>8. Bounds(b + s[n], n)
    <3> TAKE i \in 1..n
    <3>1. CASE i = n
      BY <2>7, <3>1
    <3>2. CASE i # n
      <4>1. i \in 1..(n - 1) /\ s[i] \in Nat
        BY <1>0, <2>4, <3>2
      <4> QED
        BY <2>6, <2>7, <4>1
    <3> QED
      BY <3>1, <3>2
  <2> QED
    BY <2>2, <2>7, <2>8
<1>2. Len(s) \in 0..Len(s)
  BY <1>0
<1> QED
  BY <1>1, <1>2

LEMMA SmallRest == \A w \in Nat : \A x \in 0..(w - 1) : x % w = x
  OBVIOUS

LEMMA RestRange == \A w \in Nat \ {0} : \A x \in Int : x % w \in 0..(w - 1)
  OBVIOUS

LEMMA DivGrows == \A d \in Nat \ {0} : \A a, b \in Nat : a <= b => a \div d <= b \div d
  OBVIOUS

LEMMA DivIsNat == \A d \in Nat \ {0} : \A a \in Nat : a \div d \in Nat /\ a \div d <= a
  OBVIOUS

-----------------------------------------------------------------------------
(* The world: channels hold no more than their capacity, so that balances    *)
(* and fees are naturals.                                                    *)

Channel == {c \in [capacity : Nat, local : Nat] : c.local <= c.capacity}

Statuses == {"waiting", "redeemable", "refundable", "completed", "refunded"}

WorldTypes ==
  /\ channels \in Seq(Channel)
  /\ closing \in Seq(Nat) /\ closed \in Seq(Nat)
  /\ swaps \in Seq([status : Statuses, sats : Nat])
  /\ rate \in Rates

LEMMA IsSequence ==
  ASSUME NEW S, NEW n \in Nat, NEW f, f = [i \in 1..n |-> f[i]], \A i \in 1..n : f[i] \in S
  PROVE  f \in Seq(S)
<1>1. f \in [1..n -> S]
  OBVIOUS
<1> QED
  BY <1>1, SeqDef

LEMMA Balances ==
  ASSUME WorldTypes
  PROVE  /\ Locals \in Seq(Nat) /\ Rooms \in Seq(Nat)
         /\ DOMAIN Locals = DOMAIN channels /\ DOMAIN Rooms = DOMAIN channels
         /\ Balance \in Nat /\ Inbound \in Nat /\ OnchainBalance \in Nat
<1>1. \A i \in DOMAIN channels :
        /\ channels[i] \in Channel
        /\ channels[i].local \in Nat /\ channels[i].capacity - channels[i].local \in Nat
  BY DEF WorldTypes, Channel
<1>0. Len(channels) \in Nat /\ DOMAIN channels = 1..Len(channels)
  BY DEF WorldTypes
<1>2. Locals \in Seq(Nat)
  BY <1>0, <1>1, IsSequence DEF Locals
<1>3. Rooms \in Seq(Nat)
  BY <1>0, <1>1, IsSequence DEF Rooms
<1>4. closed \in Seq(Nat)
  BY DEF WorldTypes
<1>5. DOMAIN Locals = DOMAIN channels /\ DOMAIN Rooms = DOMAIN channels
  BY DEF Locals, Rooms
<1> QED
  BY <1>2, <1>3, <1>4, <1>5, TotalIsNat DEF Balance, Inbound, OnchainBalance

\* No part of an amount is more than what it is taken from.
LEMMA TakenIsThere ==
  ASSUME NEW sizes \in Seq(Nat), NEW amount \in Nat, NEW i \in DOMAIN sizes
  PROVE  Taken(sizes, amount)[i] \in Nat /\ Taken(sizes, amount)[i] <= sizes[i]
<1>1. i \in 1..Len(sizes) /\ sizes[i] \in Nat
  OBVIOUS
<1>2. SubSeq(sizes, 1, i - 1) \in Seq(Nat)
  BY <1>1
<1> DEFINE before == Total(SubSeq(sizes, 1, i - 1))
           wanted == Max({0, amount - before})
<1>3. before \in Nat
  BY <1>2, TotalIsNat
<1>4. wanted \in Nat
  <2> HIDE DEF before
  <2>1. amount - before \in Int /\ 0 \in Int
    BY <1>3
  <2>2. Max({0, amount - before}) \in {0, amount - before} /\ Max({0, amount - before}) >= 0
    BY <2>1, MaxOfTwo, Zenon
  <2> QED
    BY <2>1, <2>2
<1>5. Taken(sizes, amount)[i] = Min({sizes[i], wanted})
  BY DEF Taken
<1> HIDE DEF wanted
<1>6. Min({sizes[i], wanted}) \in {sizes[i], wanted} /\ Min({sizes[i], wanted}) <= sizes[i]
  <2>1. sizes[i] \in Int /\ wanted \in Int
    BY <1>1, <1>4
  <2> QED
    BY <2>1, MinOfTwo, Zenon
<1> QED
  BY <1>1, <1>4, <1>5, <1>6

LEMMA OpeningFeeIsNat ==
  ASSUME WorldTypes, NEW amount \in Nat
  PROVE  LspOpeningFee(amount) \in Nat
<1>1. amount \div OpeningShare \in Nat /\ MinOpeningFee \in Nat
  BY BreezServicesAssumption, DivIsNat
<1>2. Max({MinOpeningFee, amount \div OpeningShare})
        \in {MinOpeningFee, amount \div OpeningShare}
  BY <1>1, MaxOfTwo
<1> QED
  BY <1>1, <1>2 DEF LspOpeningFee

LEMMA ReceivingKeepsChannels ==
  ASSUME WorldTypes, NEW amount \in Nat, CanReceive(amount)
  PROVE  ChannelsAfterReceiving(amount) \in Seq(Channel)
<1>1. CASE amount <= Inbound
  <2> DEFINE after == [i \in DOMAIN channels |->
                        [channels[i] EXCEPT !.local = @ + Taken(Rooms, amount)[i]]]
  <2>1. ASSUME NEW i \in DOMAIN channels
        PROVE  after[i] \in Channel
    <3>1. channels[i] \in Channel
      BY DEF WorldTypes
    <3>2. Taken(Rooms, amount)[i] \in Nat /\ Taken(Rooms, amount)[i] <= Rooms[i]
      BY Balances, TakenIsThere
    <3>3. Rooms[i] = channels[i].capacity - channels[i].local
      BY DEF Rooms
    <3>4. channels[i].local + Taken(Rooms, amount)[i] \in Nat
          /\ channels[i].local + Taken(Rooms, amount)[i] <= channels[i].capacity
      BY <3>1, <3>2, <3>3 DEF Channel
    <3> QED
      BY <3>1, <3>4 DEF Channel
  <2>2. after \in Seq(Channel)
    <3>1. DOMAIN channels = 1..Len(channels) /\ Len(channels) \in Nat
      BY DEF WorldTypes
    <3>2. after = [i \in 1..Len(channels) |-> after[i]]
      BY <3>1
    <3> HIDE DEF after
    <3> QED BY <2>1, <3>1, <3>2, IsSequence
  <2> QED
    BY <1>1, <2>2 DEF ChannelsAfterReceiving
<1>2. CASE ~(amount <= Inbound)
  <2> DEFINE new == [capacity |-> amount + AddedLiquidity,
                     local |-> amount - LspOpeningFee(amount)]
  <2>1. LspOpeningFee(amount) \in Nat /\ LspOpeningFee(amount) <= amount
    BY OpeningFeeIsNat DEF CanReceive
  <2>2. new \in Channel
    BY <2>1, BreezServicesAssumption DEF Channel
  <2>3. Append(channels, new) \in Seq(Channel)
    BY <2>2 DEF WorldTypes
  <2> QED
    BY <1>2, <2>3 DEF ChannelsAfterReceiving
<1> QED
  BY <1>1, <1>2

LEMMA SendingKeepsChannels ==
  ASSUME WorldTypes, NEW amount \in Nat
  PROVE  ChannelsAfterSending(amount) \in Seq(Channel)
<1> DEFINE after == [i \in DOMAIN channels |->
                      [channels[i] EXCEPT !.local = @ - Taken(Locals, amount)[i]]]
<1>1. ASSUME NEW i \in DOMAIN channels
      PROVE  after[i] \in Channel
  <2>1. channels[i] \in Channel
    BY DEF WorldTypes
  <2>2. Taken(Locals, amount)[i] \in Nat /\ Taken(Locals, amount)[i] <= Locals[i]
    BY Balances, TakenIsThere
  <2>3. Locals[i] = channels[i].local
    BY DEF Locals
  <2>4. channels[i].local - Taken(Locals, amount)[i] \in Nat
        /\ channels[i].local - Taken(Locals, amount)[i] <= channels[i].capacity
    BY <2>1, <2>2, <2>3 DEF Channel
  <2> QED
    BY <2>1, <2>4 DEF Channel
<1>2. after \in Seq(Channel)
  <2>1. DOMAIN channels = 1..Len(channels) /\ Len(channels) \in Nat
    BY DEF WorldTypes
  <2>2. after = [i \in 1..Len(channels) |-> after[i]]
    BY <2>1
  <2> HIDE DEF after
  <2> QED BY <1>1, <2>1, <2>2, IsSequence
<1> QED
  BY <1>2 DEF ChannelsAfterSending

\* There is a channel with the largest balance.
LEMMA LargestIsThere ==
  ASSUME WorldTypes, channels # <<>>
  PROVE  Largest \in 1..Len(channels)
<1> DEFINE values == Range(Locals)
           top == {i \in DOMAIN channels : Locals[i] = Max(Range(Locals))}
<1>1. Locals \in Seq(Nat) /\ DOMAIN Locals = DOMAIN channels
  BY Balances
<1>2. Len(channels) \in Nat \ {0} /\ DOMAIN channels = 1..Len(channels)
  BY DEF WorldTypes
<1>3. values = {Locals[i] : i \in DOMAIN channels}
  BY <1>1 DEF Range
<1>4. Len(Locals) = Len(channels)
  BY <1>1, <1>2
<1>5. PICK b \in Nat : \A i \in 1..Len(channels) : Locals[i] <= b
  BY <1>1, <1>4, SequenceIsBounded
<1>6. /\ values \subseteq Nat /\ values # {}
      /\ \A x \in values : x <= b
  <2>1. \A i \in DOMAIN channels : Locals[i] \in Nat
    BY <1>1
  <2>2. Locals[1] \in values
    BY <1>2, <1>3
  <2> QED
    BY <1>2, <1>3, <1>5, <2>1, <2>2
<1>7. Max(values) \in values
  <2> HIDE DEF values
  <2> QED BY <1>6, MaxOfBounded
<1>8. top # {}
  BY <1>3, <1>7
<1>9. top \subseteq Nat /\ \A i \in top : i <= Len(channels)
  BY <1>2
<1>10. Max(top) \in top
  <2> HIDE DEF top
  <2> QED BY <1>2, <1>8, <1>9, MaxOfBounded
<1> QED
  BY <1>2, <1>10 DEF Largest

LEMMA RemovingKeepsType ==
  ASSUME NEW S, NEW s \in Seq(S), NEW i \in 1..Len(s)
  PROVE  RemoveAt(s, i) \in Seq(S)
<1>1. SubSeq(s, 1, i - 1) \in Seq(S)
  OBVIOUS
<1>2. SubSeq(s, i + 1, Len(s)) \in Seq(S)
  OBVIOUS
<1> QED
  BY <1>1, <1>2 DEF RemoveAt
\* What a step of the world changes, by what it disturbs.
Effect(what) ==
  /\ Disturbs(what)
  /\ WorldTypes'
  /\ what # "channels" => channels' = channels
  /\ what # "funds" => closed' = closed
  /\ what # "rate" => rate' = rate
  /\ what \notin {"swaps", "channels"} => swaps' = swaps
  /\ what # "swaps" => /\ WithStatus("refundable")' = WithStatus("refundable")
                       /\ SwapInProgress' => SwapInProgress
  /\ DOMAIN swaps \subseteq DOMAIN swaps'
  /\ \A i \in DOMAIN swaps : swaps'[i].sats = swaps[i].sats
  /\ \A i \in DOMAIN swaps' \ DOMAIN swaps : swaps'[i].sats \in Deposits

Aspects == {"channels", "funds", "swaps", "rate"}

LEMMA SwapRecords ==
  ASSUME WorldTypes, NEW i \in DOMAIN swaps
  PROVE  swaps[i] \in [status : Statuses, sats : Nat]
<1>1. swaps \in Seq([status : Statuses, sats : Nat])
  BY DEF WorldTypes
<1>2. i \in 1..Len(swaps)
  BY <1>1
<1> QED
  BY <1>1, <1>2, ElementOfSeq

\* A swap that gets another status keeps its amount.
LEMMA StatusChanges ==
  ASSUME WorldTypes, NEW i \in DOMAIN swaps, NEW to \in Statuses,
         swaps' = [swaps EXCEPT ![i].status = to]
  PROVE  /\ swaps' \in Seq([status : Statuses, sats : Nat])
         /\ DOMAIN swaps' = DOMAIN swaps
         /\ \A j \in DOMAIN swaps : swaps'[j].sats = swaps[j].sats
         /\ \A j \in DOMAIN swaps :
              swaps'[j].status = IF j = i THEN to ELSE swaps[j].status
<1>1. swaps \in Seq([status : Statuses, sats : Nat]) /\ swaps[i] \in [status : Statuses, sats : Nat]
  BY SwapRecords DEF WorldTypes
<1>2. [swaps[i] EXCEPT !.status = to] \in [status : Statuses, sats : Nat]
  BY <1>1
<1>3. swaps' = [swaps EXCEPT ![i] = [swaps[i] EXCEPT !.status = to]]
  BY <1>1
<1> QED
  BY <1>1, <1>2, <1>3

LEMMA WorldHasEffect ==
  ASSUME WorldTypes, World
  PROVE  \E what \in Aspects : Effect(what)
<1>1. CASE (\E a \in Payments : ReceivePayment(a) \/ SendPayment(a, RoutingFee)) /\ Disturbs("channels")
  <2>1. PICK a \in Payments : ReceivePayment(a) \/ SendPayment(a, RoutingFee)
    BY <1>1
  <2>2. a \in Nat /\ a + RoutingFee \in Nat
    BY BreezServicesAssumption DEF RoutingFee
  <2>3. channels' \in Seq(Channel)
    BY <2>1, <2>2, ReceivingKeepsChannels, SendingKeepsChannels DEF ReceivePayment, SendPayment
  <2>4. UNCHANGED <<closing, closed, swaps, rate>>
    BY <2>1 DEF ReceivePayment, SendPayment
  <2>5. Effect("channels")
    BY <1>1, <2>3, <2>4 DEF Effect, WorldTypes, WithStatus, SwapInProgress
  <2> QED
    BY <2>5 DEF Aspects
<1>2. CASE CloseLargestChannel /\ Disturbs("channels")
  <2>1. channels' \in Seq(Channel) /\ channels[Largest].local \in Nat
    <3>1. Largest \in 1..Len(channels)
      BY <1>2, LargestIsThere DEF CloseLargestChannel
    <3>2. channels \in Seq(Channel) /\ channels[Largest] \in Channel
      BY <3>1 DEF WorldTypes
    <3>3. RemoveAt(channels, Largest) \in Seq(Channel)
      BY <3>1, <3>2, RemovingKeepsType
    <3> QED
      BY <1>2, <3>2, <3>3 DEF CloseLargestChannel, Channel
  <2>2. closing' \in Seq(Nat)
    BY <1>2, <2>1 DEF CloseLargestChannel, WorldTypes
  <2>3. UNCHANGED <<closed, swaps, rate>>
    BY <1>2 DEF CloseLargestChannel
  <2>4. Effect("channels")
    BY <1>2, <2>1, <2>2, <2>3 DEF Effect, WorldTypes, WithStatus, SwapInProgress
  <2> QED
    BY <2>4 DEF Aspects
<1>3. CASE RedeemSwap /\ Disturbs("channels")
  <2>1. PICK i \in WithStatus("redeemable") :
          /\ swaps' = [swaps EXCEPT ![i].status = "completed"]
          /\ channels' = IF CanReceive(swaps[i].sats)
                           THEN ChannelsAfterReceiving(swaps[i].sats) ELSE channels
          /\ UNCHANGED <<closing, closed, rate, payments>>
    BY <1>3 DEF RedeemSwap
  <2>2. i \in DOMAIN swaps /\ swaps[i].status = "redeemable" /\ swaps[i].sats \in Nat
    BY SwapRecords DEF WithStatus
  <2>3. channels' \in Seq(Channel)
    BY <2>1, <2>2, ReceivingKeepsChannels DEF WorldTypes
  <2>4. /\ swaps' \in Seq([status : Statuses, sats : Nat])
        /\ DOMAIN swaps' = DOMAIN swaps
        /\ \A j \in DOMAIN swaps : swaps'[j].sats = swaps[j].sats
        /\ \A j \in DOMAIN swaps :
             swaps'[j].status = IF j = i THEN "completed" ELSE swaps[j].status
    BY <2>1, <2>2, StatusChanges DEF Statuses
  <2>5. /\ WithStatus("refundable")' = WithStatus("refundable")
        /\ SwapInProgress' => SwapInProgress
    BY <2>2, <2>4 DEF WithStatus, SwapInProgress
  <2>6. Effect("channels")
    BY <1>3, <2>1, <2>3, <2>4, <2>5 DEF Effect, WorldTypes
  <2> QED
    BY <2>6 DEF Aspects
<1>4. CASE ConfirmCloses /\ Disturbs("funds")
  <2>1. closed' \in Seq(Nat) /\ closing' \in Seq(Nat)
    BY <1>4 DEF ConfirmCloses, WorldTypes
  <2>2. UNCHANGED <<channels, swaps, rate>>
    BY <1>4 DEF ConfirmCloses
  <2>3. Effect("funds")
    BY <1>4, <2>1, <2>2 DEF Effect, WorldTypes, WithStatus, SwapInProgress
  <2> QED
    BY <2>3 DEF Aspects
<1>5. CASE (ConfirmSwap \/ ExpireSwap) /\ Disturbs("swaps")
  <2>1. PICK from \in Statuses, to \in Statuses : Becomes(from, to)
    BY <1>5 DEF ConfirmSwap, ExpireSwap, Statuses
  <2>2. PICK i \in WithStatus(from) : swaps' = [swaps EXCEPT ![i].status = to]
    BY <2>1 DEF Becomes
  <2>3. i \in DOMAIN swaps
    BY DEF WithStatus
  <2>4. /\ swaps' \in Seq([status : Statuses, sats : Nat])
        /\ DOMAIN swaps' = DOMAIN swaps
        /\ \A j \in DOMAIN swaps : swaps'[j].sats = swaps[j].sats
    BY <2>2, <2>3, StatusChanges
  <2>5. UNCHANGED <<channels, closing, closed, rate>>
    BY <1>5 DEF ConfirmSwap, ExpireSwap
  <2>6. Effect("swaps")
    BY <1>5, <2>4, <2>5 DEF Effect, WorldTypes
  <2> QED
    BY <2>6 DEF Aspects
<1>6. CASE (\E d \in Deposits : StartSwap(d)) /\ Disturbs("swaps")
  <2>1. PICK d \in Deposits : StartSwap(d)
    BY <1>6
  <2>2. [status |-> "waiting", sats |-> d] \in [status : Statuses, sats : Nat]
    BY BreezServicesAssumption DEF Statuses
  <2>3. /\ swaps' = Append(swaps, [status |-> "waiting", sats |-> d])
        /\ UNCHANGED <<channels, closing, closed, rate>>
    BY <2>1 DEF StartSwap, Deposited
  <2>4. /\ swaps' \in Seq([status : Statuses, sats : Nat])
        /\ DOMAIN swaps \subseteq DOMAIN swaps'
        /\ \A j \in DOMAIN swaps : swaps'[j].sats = swaps[j].sats
        /\ \A j \in DOMAIN swaps' \ DOMAIN swaps : swaps'[j].sats = d
    BY <2>2, <2>3 DEF WorldTypes
  <2>5. Effect("swaps")
    BY <1>6, <2>3, <2>4 DEF Effect, WorldTypes
  <2> QED
    BY <2>5 DEF Aspects
<1>7. CASE RateChanges /\ Disturbs("rate")
  <2>1. rate' \in Rates /\ UNCHANGED <<channels, closing, closed, swaps>>
    BY <1>7 DEF RateChanges
  <2>2. Effect("rate")
    BY <1>7, <2>1 DEF Effect, WorldTypes, WithStatus, SwapInProgress
  <2> QED
    BY <2>2 DEF Aspects
<1> QED
  BY <1>1, <1>2, <1>3, <1>4, <1>5, <1>6, <1>7 DEF World
-----------------------------------------------------------------------------
(* What the library computes of the funds.                                   *)

LEMMA DifferenceIsNat ==
  ASSUME NEW a \in Nat, NEW b \in Nat
  PROVE  Minus(a, b) \in Nat
<1>1. Minus(a, b) \in 0..(Width - 1)
  BY AmountsAssumption, RestRange DEF Minus
<1> QED
  BY <1>1, AmountsAssumption

LEMMA RatesAreNat ==
  ASSUME NEW r \in Nat
  PROVE  TxFee(r) \in Nat /\ TxFee(r) + 0 = TxFee(r) /\ TxFee(r) + Reserve \in Nat
BY DEF TxFee, Reserve

LEMMA SwappedIsNat ==
  ASSUME NEW funds, NEW amount \in Nat, NEW r \in Nat
  PROVE  SwappedAmount(funds, amount, r) \in Nat
<1>1. SatsDown(amount) \in Nat /\ TxFee(r) + (IF funds = Closes THEN Reserve ELSE 0) \in Nat
  BY RatesAreNat DEF SatsDown
<1> QED
  BY <1>1, DifferenceIsNat DEF SwappedAmount

LEMMA SweptIsNat ==
  ASSUME WorldTypes, NEW funds, NEW amount \in Nat, NEW r \in Nat
  PROVE  SweptAmount(funds, amount, r) \in Nat
<1> DEFINE whole == IF funds = Closes THEN OnchainBalance ELSE amount
<1>1. whole \in Nat /\ TxFee(r) \in Nat
  BY Balances, RatesAreNat
<1> HIDE DEF whole
<1>2. SatsDown(whole) \in Nat
  BY <1>1 DEF SatsDown
<1> QED
  BY <1>1, <1>2, DifferenceIsNat DEF SweptAmount, whole

-----------------------------------------------------------------------------
(* One call at a time, which knows of the funds it works on.                 *)

Goal == {"none", "list", "determine", "swap", "sweep", "pay", "receive", "clear"}

Steps == {"done", "swaps", "hidden", "funds", "address", "rate", "prepare", "fee", "send",
          "told", "prepared"}

Funds == {Closes} \cup DOMAIN swaps

CallSet == [goal : Goal, funds : Nat, at : Steps, amount : Nat, rate : Nat, sent : Nat,
            open : BOOLEAN, advised : BOOLEAN]

CallTypes ==
  /\ call \in CallSet
  /\ call.funds \in Funds
  /\ advice.about \in {"swap", "nothing"} /\ advice.funds \in Funds /\ advice.rate \in Nat
  /\ Idle => call = NoCall
  /\ ~Idle => outcome = NoOutcome /\ advice = NoAdvice
  /\ call.goal = "list" => call.funds = Closes

FundsTypes == WorldTypes /\ CallTypes

\* The amount a call was told is still that of the funds.
Current(funds, amount) ==
  IF funds = Closes THEN Still({"funds"}) => amount = OnchainBalance
                    ELSE amount = Msats(swaps[funds].sats)

Undisturbed == Still({"funds", "channels", "swaps"})

\* A swap that was offered can be made.
Stands(funds, r) ==
  /\ CanResolve(funds, AmountOf(funds), r)
  /\ Offers(SweptAmount(funds, AmountOf(funds), r), AmountOf(funds), TRUE)
  /\ ~SwapInProgress

\* An operation works on funds that are there, by the amount it asked for.
AmountInv ==
  call.goal \in {"determine", "swap"} => Current(call.funds, call.amount)

\* While determine_resolving_fees asks, no swap is in progress once it was told
\* so, and what was prepared can be; and what it offered stands until the world
\* changes.
DetermineInv ==
  /\ call.goal = "determine" =>
       /\ call.at \in {"rate", "prepare", "fee"} /\ call.open /\ Still({"swaps"})
          => ~SwapInProgress
       /\ call.at = "fee" /\ Undisturbed =>
            /\ CanResolve(call.funds, call.amount, call.rate)
            /\ call.sent = SweptAmount(call.funds, call.amount, call.rate)
  /\ advice.about = "swap" /\ Undisturbed => Stands(advice.funds, advice.rate)

\* swap() has checked the limits before it asks for the opening fee, and that
\* before it sends, as long as the channels stay; what was offered stands on its
\* way there.
SwapInv ==
  call.goal = "swap" =>
    LET sent == SwappedAmount(call.funds, call.amount, call.rate) IN
    /\ call.at \in {"address", "prepare", "fee"} /\ call.advised /\ Undisturbed
       => Stands(call.funds, call.rate)
    /\ call.at \in {"fee", "send"} => call.sent = sent /\ sent \in MinDeposit..MaxDeposit
    /\ call.at = "send" /\ Still({"channels"}) => sent > OpeningFee(sent, Inbound, LongerTerms)

\* What the SDK reports are integers of this width, and so are what swaps hold.
AmountsFit == SatsDown(OnchainBalance) < Width

SwapsFit == \A i \in DOMAIN swaps : swaps[i].sats < Width

ResolveInv == AmountInv /\ DetermineInv /\ SwapInv /\ SwapsFit

\* A call that was told it would succeed finds the channels that told it.
PromiseInv ==
  /\ call.goal = "pay" =>
       /\ call.amount \in Payments
       /\ call.advised /\ Still({"channels"}) => TellsAffordable(call.amount)
  /\ call.goal = "receive" =>
       /\ call.amount \in Payments
       /\ call.advised /\ Still({"channels"}) => Receivable(SatsDown(call.amount), Inbound)
  /\ call.goal = "clear" /\ call.advised /\ Still({"channels"}) =>
       /\ Feasible
       /\ call.at = "prepared" =>
            call.amount = Msats(Max({0, SatsDown(Balance) - SwapperFee}))

\* A hidden swap that a list leaves out.
LeftOut(s) == s \in hiddenSwaps /\ (swaps[s].sats <= TxFee(rate) \/ s \in unanswered)

\* What a list does not show of the swaps is hidden, and yet to be tried or
\* left out; the closes it asks about are hidden ones.
ListInv ==
  call.goal = "list" /\ Still({"funds", "rate", "swaps"}) =>
    /\ call.at # "swaps" =>
         \A s \in WithStatus("refundable") \ shown :
           s \in untried \cap hiddenSwaps \/ LeftOut(s)
    /\ call.at \notin {"swaps", "hidden"} => untried = {}
    /\ call.at \in {"address", "rate", "prepare", "fee"} => IsHidden /\ call.amount = OnchainBalance
    /\ call.at = "prepare" => call.rate = rate
-----------------------------------------------------------------------------
\* A step of the world leaves the call as it is, and notes what it disturbed
\* for whoever was told something.
LEMMA DisturbsKeeps ==
  ASSUME CallTypes, NEW what \in Aspects, Disturbs(what)
  PROVE  /\ call' = call /\ advice' = advice /\ outcome' = NoOutcome
         /\ Idle' = Idle
         /\ ~Idle \/ advice # NoAdvice => disturbed' = disturbed \cup ({what} \cap Concerns)
BY DEF Disturbs, Idle

LEMMA WorldKeepsTypes ==
  ASSUME FundsTypes, World
  PROVE  FundsTypes'
<1>1. PICK what \in Aspects : Effect(what)
  BY WorldHasEffect DEF FundsTypes
<1>2. call' = call /\ advice' = advice /\ outcome' = NoOutcome /\ Idle' = Idle
  BY <1>1, DisturbsKeeps DEF FundsTypes, Effect
<1>3. Funds \subseteq Funds'
  BY <1>1 DEF Effect, Funds
<1>4. CallTypes'
  BY <1>2, <1>3 DEF FundsTypes, CallTypes
<1> QED
  BY <1>1, <1>4 DEF FundsTypes, Effect

LEMMA AmountsAreNat ==
  ASSUME WorldTypes, NEW funds \in Funds
  PROVE  AmountOf(funds) \in Nat /\ funds \in Nat
<1>1. CASE funds = Closes
  BY <1>1, Balances DEF AmountOf, Closes
<1>2. CASE funds # Closes
  <2>1. funds \in DOMAIN swaps /\ swaps[funds].sats \in Nat
    BY <1>2, SwapRecords DEF Funds
  <2>2. funds \in Nat
    BY <2>1 DEF WorldTypes
  <2> QED
    BY <1>2, <2>1, <2>2 DEF AmountOf, Msats
<1> QED
  BY <1>1, <1>2

LEMMA UnresolvedAreFunds == Unresolved \subseteq Funds
BY DEF Unresolved, Funds, WithStatus

LEMMA InitTypes == FundsInit => FundsTypes
<1> SUFFICES ASSUME FundsInit PROVE FundsTypes
  OBVIOUS
<1>1. WorldTypes
  BY DEF FundsInit, WorldInit, WorldTypes
<1>2. CallTypes
  BY DEF FundsInit, OnchainInit, CallTypes, CallSet, NoCall, NoAdvice, NoOutcome, Idle, Goal, Steps,
         Funds, Closes
<1> QED
  BY <1>1, <1>2 DEF FundsTypes

\* Calls that begin.
LEMMA BeginKeepsTypes ==
  ASSUME FundsTypes, NEW goal \in Goal \ {"none"}, NEW funds \in Funds, NEW step \in Steps,
         Begins(goal, funds, step), goal = "list" => funds = Closes
  PROVE  FundsTypes'
<1>1. WorldTypes' /\ Funds' = Funds
  BY DEF Begins, worldVars, FundsTypes, WorldTypes, Funds
<1>2. AmountOf(funds) \in Nat /\ funds \in Nat
  BY AmountsAreNat DEF FundsTypes
<1>3. call' = [goal |-> goal, funds |-> funds, at |-> step, amount |-> AmountOf(funds),
               rate |-> 0, sent |-> 0, open |-> FALSE, advised |-> FALSE]
  BY DEF Begins, NoCall
<1>4. advice' = NoAdvice /\ outcome' = NoOutcome
  BY DEF Begins
<1>5. CallTypes'
  BY <1>1, <1>2, <1>3, <1>4 DEF CallTypes, CallSet, NoAdvice, Idle, Funds, Closes
<1> QED
  BY <1>1, <1>5 DEF FundsTypes

\* A call that goes on changes where it is and what it was told.
LEMMA GoingOnKeepsTypes ==
  ASSUME FundsTypes, ~Idle, UNCHANGED worldVars, UNCHANGED <<advice, outcome>>,
         call' \in CallSet,
         call'.goal = call.goal, call'.funds = call.funds
  PROVE  FundsTypes'
<1>1. WorldTypes' /\ Funds' = Funds
  BY DEF worldVars, FundsTypes, WorldTypes, Funds
<1>2. CallTypes'
  BY <1>1 DEF FundsTypes, CallTypes, Idle
<1> QED
  BY <1>1, <1>2 DEF FundsTypes

\* A call that ends leaves nothing but its outcome.
LEMMA EndingKeepsTypes ==
  ASSUME FundsTypes, WorldTypes', NEW result, Ends(result)
  PROVE  FundsTypes'
BY DEF FundsTypes, CallTypes, CallSet, Ends, NoCall, NoAdvice, Idle, Goal, Steps, Funds, Closes

LEMMA ResolveKeepsTypes ==
  ASSUME FundsTypes, Resolve
  PROVE  FundsTypes'
<1> USE DEF Goal, Steps
<1>0. /\ WorldTypes /\ Unresolved \subseteq Funds /\ call \in CallSet
      /\ \A r \in Rates : r \in Nat
  BY UnresolvedAreFunds, BreezServicesAssumption DEF FundsTypes, CallTypes, CallSet
<1>1. ASSUME NEW funds \in Unresolved, BeginDetermine(funds) \/ BeginSweep(funds)
      PROVE  FundsTypes'
  <2>1. CASE BeginDetermine(funds)
    <3>1. Begins("determine", funds, "address")
      BY <2>1 DEF BeginDetermine
    <3> QED
      BY <1>0, <3>1, BeginKeepsTypes
  <2>2. CASE BeginSweep(funds)
    <3>1. Begins("sweep", funds, "rate")
      BY <2>2 DEF BeginSweep
    <3> QED
      BY <1>0, <3>1, BeginKeepsTypes
  <2> QED
    BY <1>1, <2>1, <2>2
<1>2. ASSUME NEW funds \in Unresolved, NEW r \in Rates, BeginSwap(funds, r)
      PROVE  FundsTypes'
  <2>1. AmountOf(funds) \in Nat /\ funds \in Nat /\ funds \in Funds
    BY <1>0, AmountsAreNat
  <2>2. WorldTypes' /\ Funds' = Funds
    BY <1>2 DEF BeginSwap, worldVars, FundsTypes, WorldTypes, Funds
  <2> DEFINE advised == advice.about = "swap" /\ advice.funds = funds /\ advice.rate = r
  <2>3. call' = [goal |-> "swap", funds |-> funds, at |-> "address", amount |-> AmountOf(funds),
                 rate |-> r, sent |-> 0, open |-> FALSE, advised |-> advised]
    BY <1>2 DEF BeginSwap, NoCall
  <2>4. advised \in BOOLEAN /\ advice' = NoAdvice /\ outcome' = NoOutcome
    BY <1>2 DEF BeginSwap
  <2> HIDE DEF advised
  <2>5. CallTypes'
    BY <1>0, <2>1, <2>2, <2>3, <2>4 DEF CallTypes, CallSet, NoAdvice, Idle, Funds, Closes
  <2> QED
    BY <2>2, <2>5 DEF FundsTypes
<1>3. CASE AskAddress \/ AskRate \/ AskPrepare
  <2>1. /\ ~Idle /\ UNCHANGED worldVars /\ UNCHANGED <<advice, outcome>>
    BY <1>3 DEF AskAddress, AskRate, AskPrepare, Determines, Idle
  <2> DEFINE swept == SweptAmount(call.funds, call.amount, call.rate)
  <2>2. \/ \E open \in {FALSE, ~SwapInProgress} :
             call' = [call EXCEPT !.at = "rate", !.open = open]
        \/ call' = [call EXCEPT !.at = "prepare", !.rate = rate]
        \/ call' = [call EXCEPT !.at = "fee", !.sent = swept]
    BY <1>3 DEF AskAddress, AskRate, AskPrepare
  <2>3. {FALSE, ~SwapInProgress} \subseteq BOOLEAN /\ rate \in Nat
    BY <1>0 DEF SwapInProgress, WorldTypes
  <2>4. swept \in Nat
    BY <1>0, SweptIsNat DEF CallSet
  <2> HIDE DEF swept
  <2>5. call' \in CallSet /\ call'.goal = call.goal /\ call'.funds = call.funds
    BY <1>0, <2>2, <2>3, <2>4 DEF CallSet
  <2> QED
    BY <2>1, <2>5, GoingOnKeepsTypes DEF CallSet
<1>4. CASE NothingFound \/ Determine
  <2>1. WorldTypes' /\ Funds' = Funds
    BY <1>4 DEF NothingFound, Determine, Says, worldVars, FundsTypes, WorldTypes, Funds
  <2>2. /\ call' = NoCall /\ outcome' = NoOutcome
        /\ \/ advice' = NoAdvice
           \/ advice' = [about |-> "swap", funds |-> call.funds, rate |-> call.rate,
                         fee |-> ShownOpeningFee(call.amount)]
    BY <1>4 DEF NothingFound, Determine, Says
  <2>3. call.funds \in Funds /\ call.rate \in Nat
    BY <1>0 DEF FundsTypes, CallTypes, CallSet
  <2>4. CallTypes'
    BY <2>1, <2>2, <2>3 DEF CallTypes, CallSet, NoCall, NoAdvice, Idle, Funds, Closes
  <2> QED
    BY <2>1, <2>4 DEF FundsTypes
<1>5. ASSUME NEW step \in Steps, ~Idle, GoesTo(step)
      PROVE  FundsTypes'
  <2>1. call' = [call EXCEPT !.at = step]
    BY <1>5 DEF GoesTo
  <2>2. call' \in CallSet /\ call'.goal = call.goal /\ call'.funds = call.funds
    BY <1>0, <2>1 DEF CallSet
  <2> QED
    BY <1>5, <2>2, GoingOnKeepsTypes DEF CallSet, GoesTo
<1>6. ASSUME NEW result, Ends(result), UNCHANGED worldVars
      PROVE  FundsTypes'
  <2>1. WorldTypes'
    BY <1>0, <1>6 DEF worldVars, WorldTypes
  <2> QED
    BY <1>6, <2>1, EndingKeepsTypes
<1>7. CASE CreateAddress \/ AskOpeningFee \/ PrepareSweep
  <2>1. ~Idle
    BY <1>7 DEF CreateAddress, AskOpeningFee, PrepareSweep, At, Idle
  <2>2. \/ GoesTo("prepare") \/ GoesTo("send")
        \/ Ends(Refused) /\ UNCHANGED worldVars
    BY <1>7 DEF CreateAddress, AskOpeningFee, PrepareSweep
  <2> QED
    BY <1>5, <1>6, <2>1, <2>2
<1>9. CASE PrepareSwap
  <2> DEFINE swapped == SwappedAmount(call.funds, call.amount, call.rate)
  <2>1. /\ ~Idle /\ UNCHANGED worldVars
        /\ \/ Ends(Refused)
           \/ call' = [call EXCEPT !.at = "fee", !.sent = swapped]
              /\ UNCHANGED <<advice, disturbed, outcome>>
    BY <1>9 DEF PrepareSwap, At, Idle
  <2>2. swapped \in Nat
    BY <1>0, SwappedIsNat DEF CallSet
  <2> HIDE DEF swapped
  <2>3. CASE call' = [call EXCEPT !.at = "fee", !.sent = swapped]
             /\ UNCHANGED <<advice, disturbed, outcome>>
    <3>1. call' \in CallSet /\ call'.goal = call.goal /\ call'.funds = call.funds
      BY <1>0, <2>2, <2>3 DEF CallSet
    <3> QED
      BY <2>1, <2>3, <3>1, GoingOnKeepsTypes
  <2> QED
    BY <1>6, <2>1, <2>3
<1>8. CASE SendSwap \/ Sweep
  <2>1. CanSend /\ FundsSpent /\ UNCHANGED <<channels, closing, rate>>
    BY <1>8 DEF SendSwap, Sweep
  <2>2. Sent \in Int /\ Sent > 0
    <3>1. call.funds # Closes => swaps[call.funds].sats \in Nat
      BY <1>0, SwapRecords DEF FundsTypes, CallTypes, Funds
    <3>2. OnchainBalance \in Nat /\ call.rate \in Nat
      BY <1>0, Balances DEF CallSet
    <3> QED
      BY <2>1, <3>1, <3>2 DEF CanSend, Sent, Redeemed, TxFee, Reserve
  <2>3. closed' \in Seq(Nat)
    <3>1. <<Msats(Reserve)>> \in Seq(Nat)
      <4>1. Msats(Reserve) \in Nat
        BY DEF Msats, Reserve
      <4> HIDE DEF Msats, Reserve
      <4> QED BY <4>1
    <3> QED
      BY <1>0, <2>1, <3>1 DEF FundsSpent, WorldTypes
  <2>4. Refunded \in Seq([status : Statuses, sats : Nat])
    <3>1. CASE call.funds = Closes
      BY <1>0, <3>1 DEF Refunded, WorldTypes
    <3>2. CASE call.funds # Closes
      <4>1. call.funds \in 1..Len(swaps) /\ swaps[call.funds] \in [status : Statuses, sats : Nat]
        <5>1. call.funds \in DOMAIN swaps
          BY <3>2 DEF FundsTypes, CallTypes, Funds
        <5> QED
          BY <1>0, <5>1, SwapRecords DEF WorldTypes
      <4>2. [swaps[call.funds] EXCEPT !.status = "refunded"] \in [status : Statuses, sats : Nat]
        BY <4>1 DEF Statuses
      <4>3. Refunded = [swaps EXCEPT ![call.funds] =
                          [swaps[call.funds] EXCEPT !.status = "refunded"]]
        BY <1>0, <3>2, <4>1 DEF Refunded, WorldTypes
      <4> QED
        BY <1>0, <4>1, <4>2, <4>3 DEF WorldTypes
    <3> QED
      BY <3>1, <3>2
  <2>5. [status |-> "waiting", sats |-> Sent] \in [status : Statuses, sats : Nat]
    BY <2>2 DEF Statuses
  <2>6. swaps' \in Seq([status : Statuses, sats : Nat])
    <3>1. Append(Refunded, [status |-> "waiting", sats |-> Sent])
            \in Seq([status : Statuses, sats : Nat])
      BY <2>4, <2>5, AppendProperties
    <3> QED
      BY <1>8, <2>4, <3>1 DEF SendSwap, Sweep, Deposited
  <2>7. WorldTypes'
    BY <1>0, <2>1, <2>3, <2>6 DEF WorldTypes
  <2>8. \E result : Ends(result)
    BY <1>8 DEF SendSwap, Sweep
  <2> QED
    BY <2>7, <2>8, EndingKeepsTypes
<1> QED
  BY <1>1, <1>2, <1>3, <1>4, <1>7, <1>8, <1>9 DEF Resolve

LEMMA UseKeepsTypes ==
  ASSUME FundsTypes, Use
  PROVE  FundsTypes'
<1> USE DEF Goal, Steps
<1>0. /\ WorldTypes /\ call \in CallSet /\ Balance \in Nat
      /\ Payments \subseteq Nat /\ {SwapperFee, MinReverse, MaxReverse} \subseteq Nat
  BY Balances, BreezServicesAssumption, SwapperAssumption DEF FundsTypes, CallTypes, CallSet
<1>1. ASSUME NEW goal \in {"pay", "receive", "clear"}, NEW amount \in Nat, NEW advised \in BOOLEAN,
             Asks(goal, amount, advised)
      PROVE  FundsTypes'
  <2>1. WorldTypes' /\ Funds' = Funds
    BY <1>0, <1>1 DEF Asks, worldVars, WorldTypes, Funds
  <2>2. call' = [goal |-> goal, funds |-> Closes, at |-> "told", amount |-> amount,
                 rate |-> 0, sent |-> 0, open |-> FALSE, advised |-> advised]
    BY <1>1 DEF Asks, NoCall
  <2>3. advice' = NoAdvice /\ outcome' = NoOutcome
    BY <1>1 DEF Asks
  <2>4. CallTypes'
    BY <2>1, <2>2, <2>3 DEF CallTypes, CallSet, NoAdvice, Idle, Funds, Closes
  <2> QED
    BY <2>1, <2>4 DEF FundsTypes
<1>2. ASSUME NEW amount \in Payments, AskPayment(amount) \/ AskReceive(amount)
      PROVE  FundsTypes'
  <2>1. /\ TellsAffordable(amount) \in BOOLEAN
        /\ Receivable(SatsDown(amount), Inbound) \in BOOLEAN
    BY DEF TellsAffordable, Affordable, Receivable
  <2> QED
    BY <1>0, <1>1, <1>2, <2>1 DEF AskPayment, AskReceive
<1>3. CASE AskClear
  <2>1. Feasible \in BOOLEAN
    BY DEF Feasible
  <2> QED
    BY <1>1, <1>3, <2>1 DEF AskClear
<1>4. ASSUME NEW result, Ends(result), WorldTypes'
      PROVE  FundsTypes'
  BY <1>4, EndingKeepsTypes
<1>5. ASSUME NEW amount \in Nat, ReceivePayment(amount)
      PROVE  WorldTypes'
  <2>1. channels' \in Seq(Channel)
    BY <1>0, <1>5, ReceivingKeepsChannels DEF ReceivePayment
  <2> QED
    BY <1>0, <1>5, <2>1 DEF ReceivePayment, WorldTypes
<1>6. ASSUME NEW amount \in Nat, NEW fee \in Nat, SendPayment(amount, fee)
      PROVE  WorldTypes'
  <2>1. channels' \in Seq(Channel)
    <3>1. amount + fee \in Nat
      OBVIOUS
    <3> QED
      BY <1>0, <1>6, <3>1, SendingKeepsChannels DEF SendPayment
  <2> QED
    BY <1>0, <1>6, <2>1 DEF SendPayment, WorldTypes
<1>7. UNCHANGED worldVars => WorldTypes'
  BY <1>0 DEF worldVars, WorldTypes
<1>8. call.amount \in Nat
  BY <1>0 DEF CallSet
<1>9. CASE Pay
  <2>1. RoutingFee \in Nat /\ MaxRoutingFee(SatsDown(call.amount)) \in Nat
    BY <1>8, AmountsAssumption DEF RoutingFee, MaxRoutingFee, RoutingShare, SatsDown, Msats
  <2>2. \E result : Ends(result)
    BY <1>9 DEF Pay
  <2>3. WorldTypes'
    BY <1>6, <1>7, <1>8, <1>9, <2>1 DEF Pay
  <2> QED
    BY <1>4, <2>2, <2>3
<1>10. CASE Receive
  <2>1. WorldTypes' /\ \E result : Ends(result)
    BY <1>5, <1>7, <1>8, <1>10 DEF Receive
  <2> QED
    BY <1>4, <2>1
<1>11. CASE PrepareClear
  <2>1. SatsDown(Balance) - SwapperFee \in Int /\ 0 \in Int
    BY <1>0 DEF SatsDown
  <2>2. /\ Max({0, SatsDown(Balance) - SwapperFee}) \in {0, SatsDown(Balance) - SwapperFee}
        /\ Max({0, SatsDown(Balance) - SwapperFee}) >= 0
    BY <2>1, MaxOfTwo, Zenon
  <2>3. Msats(Max({0, SatsDown(Balance) - SwapperFee})) \in Nat
    BY <2>1, <2>2 DEF Msats
  <2>4. /\ call' \in CallSet /\ call'.goal = call.goal /\ call'.funds = call.funds
        /\ ~Idle
    BY <1>0, <1>11, <2>3 DEF PrepareClear, CallSet, At, Idle
  <2> QED
    BY <1>11, <2>4, GoingOnKeepsTypes DEF CallSet, PrepareClear
<1>12. CASE ClearWallet
  <2>1. Msats(SwapperFee) \in Nat
    BY <1>0 DEF Msats
  <2>2. WorldTypes' /\ \E result : Ends(result)
    BY <1>6, <1>7, <1>8, <1>12, <2>1 DEF ClearWallet
  <2> QED
    BY <1>4, <2>2
<1> QED
  BY <1>2, <1>3, <1>9, <1>10, <1>11, <1>12 DEF Use

LEMMA ListKeepsTypes ==
  ASSUME FundsTypes, List
  PROVE  FundsTypes'
<1> USE DEF Goal, Steps
<1>0. WorldTypes /\ call \in CallSet /\ OnchainBalance \in Nat
  BY Balances DEF FundsTypes, CallTypes, CallSet
<1>1. CASE BeginList
  <2>1. Begins("list", Closes, "swaps") /\ Closes \in Funds
    BY <1>1 DEF BeginList, Funds
  <2> QED
    BY <2>1, BeginKeepsTypes
<1>2. ASSUME NEW step \in Steps, ~Idle, GoesTo(step)
      PROVE  FundsTypes'
  <2>1. call' = [call EXCEPT !.at = step]
    BY <1>2 DEF GoesTo
  <2>2. call' \in CallSet /\ call'.goal = call.goal /\ call'.funds = call.funds
    BY <1>0, <2>1 DEF CallSet
  <2> QED
    BY <1>2, <2>2, GoingOnKeepsTypes DEF CallSet, GoesTo
<1>3. ASSUME NEW result, Ends(result), UNCHANGED worldVars
      PROVE  FundsTypes'
  <2>1. WorldTypes'
    BY <1>0, <1>3 DEF worldVars, WorldTypes
  <2> QED
    BY <1>3, <2>1, EndingKeepsTypes
<1>4. CASE ListSwaps \/ \E swap \in 1..MaxSwaps : TryHiddenSwap(swap)
  <2>1. ~Idle /\ (GoesTo("funds") \/ GoesTo("hidden"))
    BY <1>4 DEF ListSwaps, TryHiddenSwap, At, Idle
  <2> QED
    BY <1>2, <2>1
<1>5. CASE ListCloses
  <2>1. CASE /\ call' = [call EXCEPT !.at = "address", !.amount = OnchainBalance]
             /\ UNCHANGED <<advice, disturbed, outcome>>
    <3>1. /\ call' \in CallSet /\ call'.goal = call.goal /\ call'.funds = call.funds
          /\ ~Idle
      BY <1>0, <1>5, <2>1 DEF ListCloses, CallSet, At, Idle
    <3> QED
      BY <1>5, <2>1, <3>1, GoingOnKeepsTypes DEF CallSet, ListCloses
  <2>2. CASE \E closes, lost : Listed(closes, lost)
    BY <1>3, <1>5, <2>2 DEF Listed, ListCloses
  <2> QED
    BY <1>5, <2>1, <2>2 DEF ListCloses
<1>6. CASE ListHiddenCloses
  BY <1>3, <1>6 DEF ListHiddenCloses, Listed
<1>7. CASE HideCloses \/ \E swap \in 1..MaxSwaps : HideSwap(swap)
  BY <1>3, <1>7 DEF HideCloses, HideSwap
<1> QED
  BY <1>1, <1>4, <1>5, <1>6, <1>7 DEF List

LEMMA NextKeepsTypes ==
  ASSUME FundsTypes, [FundsNext]_fundsVars
  PROVE  FundsTypes'
<1>1. CASE CallFails
  <2>1. Ends(NoOutcome) /\ WorldTypes'
    BY <1>1 DEF CallFails, worldVars, FundsTypes, WorldTypes
  <2> QED
    BY <2>1, EndingKeepsTypes
<1>2. CASE UNCHANGED fundsVars
  BY <1>2 DEF fundsVars, worldVars, callVars, FundsTypes, WorldTypes, CallTypes, Idle, Funds
<1> QED
  BY <1>1, <1>2, WorldKeepsTypes, ResolveKeepsTypes, UseKeepsTypes, ListKeepsTypes DEF FundsNext

\* Channels never hold more than their capacity or less than nothing, amounts
\* are naturals, and a call works on funds there are.
THEOREM FundsAreTyped == FundsSpec => []FundsTypes
<1>1. FundsTypes /\ [FundsNext]_fundsVars => FundsTypes'
  BY NextKeepsTypes
<1> QED
  BY InitTypes, <1>1, PTL DEF FundsSpec
-----------------------------------------------------------------------------
(* What is promised before paying, receiving and clearing.  Each lemma here  *)
(* compares the library's rounded numbers with the exact ones of the SDK.    *)

LEMMA WholeSatoshi ==
  ASSUME NEW amount \in Payments
  PROVE  amount \in Nat /\ SatsDown(amount) \in Nat /\ amount = Msats(SatsDown(amount))
<1>1. amount \in Nat /\ amount % 1000 = 0
  BY BreezServicesAssumption, LightningAssumption
<1> QED
  BY <1>1 DEF SatsDown, Msats

LEMMA FeesAreAllowed ==
  ASSUME NEW sats \in Nat
  PROVE  /\ MaxRoutingFee(sats) \in Nat /\ RoutingFee \in Nat
         /\ RoutingFee <= MaxRoutingFee(sats)
<1>1. RoutingShare(sats) \in Nat /\ Msats(ExemptFee) \in Nat /\ RoutingFee \in Nat
  BY AmountsAssumption DEF RoutingShare, Msats, RoutingFee
<1>2. RoutingFee <= Msats(ExemptFee)
  BY LightningAssumption
<1> QED
  BY <1>1, <1>2 DEF MaxRoutingFee

LEMMA AffordableIsPaid ==
  ASSUME WorldTypes, NEW amount \in Payments, TellsAffordable(amount),
         NEW fee \in {RoutingFee, MaxRoutingFee(SatsDown(amount))}
  PROVE  ~(amount + fee > Balance)
<1>1. amount \in Nat /\ SatsDown(amount) \in Nat /\ amount = Msats(SatsDown(amount))
  BY WholeSatoshi
<1>2. /\ MaxRoutingFee(SatsDown(amount)) \in Nat /\ fee \in Nat
      /\ fee <= MaxRoutingFee(SatsDown(amount))
  BY <1>1, FeesAreAllowed
<1>3. amount + MaxRoutingFee(SatsDown(amount)) <= Balance
  BY <1>1 DEF TellsAffordable, Affordable
<1> QED
  BY <1>1, <1>2, <1>3, Balances

\* A payment that needs a channel pays for it.
LEMMA ReceivableIsReceived ==
  ASSUME WorldTypes, NEW amount \in Payments, Receivable(SatsDown(amount), Inbound)
  PROVE  CanReceive(amount)
<1>1. amount \in Nat /\ SatsDown(amount) \in Nat /\ amount = Msats(SatsDown(amount))
  BY WholeSatoshi
<1>2. Inbound \in Nat /\ MinOpeningFee \in Nat
  BY Balances, BreezServicesAssumption
<1>3. CASE amount <= Inbound
  BY <1>1, <1>3 DEF CanReceive, LspOpeningFee
<1>4. CASE amount > Inbound
  <2>1. amount \div OpeningShare \in Nat /\ amount \div OpeningShare <= amount
    BY <1>1, DivIsNat, BreezServicesAssumption
  <2>2. /\ SatsUp(CheaperTerms.min) \in Nat /\ MinOpeningFee <= Msats(SatsUp(CheaperTerms.min))
    <3>1. CheaperTerms.min \in Nat /\ MinOpeningFee <= CheaperTerms.min
      BY AmountsAssumption, LightningAssumption
    <3> QED
      BY <1>2, <3>1 DEF SatsUp, Msats
  <2>3. /\ SmallestSetup \in Nat /\ SatsUp(CheaperTerms.min) <= SmallestSetup
    <3>1. \A m \in Nat : \A k \in Nat \ {0} : m * k \in Nat /\ m <= m * k
      OBVIOUS
    <3> QED
      BY <2>2, <3>1, AmountsAssumption DEF SmallestSetup
  <2>4. SmallestSetup <= SatsDown(amount)
    <3>1. SatsDown(Inbound) <= SatsDown(amount) /\ SatsDown(Inbound) \in Nat
      BY <1>1, <1>2, <1>4 DEF SatsDown
    <3>2. SatsDown(Inbound) < SmallestSetup => SatsDown(amount) >= SmallestSetup
      BY DEF Receivable
    <3> QED
      BY <1>1, <2>3, <3>1, <3>2
  <2>5. MinOpeningFee <= amount
    BY <1>1, <1>2, <2>2, <2>3, <2>4 DEF Msats
  <2>6. Max({MinOpeningFee, amount \div OpeningShare})
          \in {MinOpeningFee, amount \div OpeningShare}
    <3>1. MinOpeningFee \in Int /\ amount \div OpeningShare \in Int
      BY <1>2, <2>1
    <3> QED
      BY <3>1, MaxOfTwo, Zenon
  <2> QED
    BY <1>1, <1>2, <1>4, <2>1, <2>5, <2>6 DEF CanReceive, LspOpeningFee
<1> QED
  BY <1>1, <1>2, <1>3, <1>4

\* The wallet is just above the minimum, and the swapper's fee takes it below.
JustAbove == SatsDown(Balance) \in SmallestClear..(MinReverse + SwapperFee - 1)

LEMMA FeasibleIsCleared ==
  ASSUME WorldTypes, Feasible, ~JustAbove, NEW amount,
         amount = Msats(Max({0, SatsDown(Balance) - SwapperFee}))
  PROVE  Clearable(SatsDown(amount)) /\ ~(amount + Msats(SwapperFee) > Balance)
<1> DEFINE rest == SatsDown(Balance) - SwapperFee
<1>1. /\ Balance \in Nat /\ SatsDown(Balance) \in Nat
      /\ SwapperFee \in Nat /\ MinReverse \in Nat /\ MaxReverse \in Nat
  BY Balances, SwapperAssumption DEF SatsDown
<1>2. RoutingShare(MinReverse) \in Nat
  BY <1>1, AmountsAssumption DEF RoutingShare
<1>3. SmallestClear \in Nat
  BY <1>1, <1>2 DEF SmallestClear, SatsUp
<1>4. SatsDown(Balance) >= SmallestClear /\ SatsDown(Balance) <= MaxReverse
  BY DEF Feasible
<1>5. rest \in Nat /\ rest >= MinReverse /\ rest <= MaxReverse
  BY <1>1, <1>3, <1>4 DEF JustAbove
<1>6. Max({0, rest}) = rest
  <2>1. rest \in Int /\ 0 \in Int
    BY <1>5
  <2>2. Max({0, rest}) \in {0, rest} /\ Max({0, rest}) >= rest
    BY <2>1, MaxOfTwo, Zenon
  <2> QED
    BY <1>5, <2>2
<1>7. Msats(rest) + Msats(SwapperFee) <= Balance
  BY <1>1 DEF Msats, SatsDown
<1>8. SatsDown(Msats(rest)) = rest /\ Msats(rest) \in Nat /\ Msats(SwapperFee) \in Nat
  <2> HIDE DEF rest
  <2> QED BY <1>1, <1>5 DEF Msats, SatsDown
<1>9. amount = Msats(rest)
  BY <1>6
<1> HIDE DEF rest
<1> QED
  BY <1>1, <1>5, <1>7, <1>8, <1>9 DEF Clearable

Promises == PromiseInv /\ PromisesKept

\* While the channels are left alone, so is everything that was computed.
LEMMA WorldKeepsPromises ==
  ASSUME FundsTypes, PromiseInv, World
  PROVE  PromiseInv' /\ PromisesKept'
<1>1. PICK what \in Aspects : Effect(what)
  BY WorldHasEffect DEF FundsTypes
<1>2. /\ call' = call /\ outcome' = NoOutcome
      /\ ~Idle => disturbed' = disturbed \cup ({what} \cap Concerns)
  BY <1>1, DisturbsKeeps DEF FundsTypes, Effect
<1>3. PromisesKept'
  BY <1>2 DEF PromisesKept, NoOutcome
<1>4. CASE call.goal \in {"pay", "receive", "clear"}
  <2>1. Still({"channels"})' => what # "channels" /\ Still({"channels"})
    BY <1>2, <1>4 DEF Still, Concerns, Idle
  <2>2. what # "channels" => Balance' = Balance /\ Inbound' = Inbound
    BY <1>1 DEF Effect, Balance, Inbound, Locals, Rooms
  <2> QED
    BY <1>2, <1>3, <2>1, <2>2 DEF PromiseInv, TellsAffordable, Feasible
<1>5. CASE call.goal \notin {"pay", "receive", "clear"}
  BY <1>2, <1>3, <1>5 DEF PromiseInv
<1> QED
  BY <1>4, <1>5

LEMMA UseKeepsPromises ==
  ASSUME FundsTypes, PromiseInv, Use
  PROVE  PromiseInv' /\ PromisesKept'
<1>0. WorldTypes
  BY DEF FundsTypes
<1>1. ASSUME NEW goal, NEW amount, NEW advised, Asks(goal, amount, advised),
             \/ goal = "pay" /\ amount \in Payments /\ advised = TellsAffordable(amount)
             \/ goal = "receive" /\ amount \in Payments
                /\ advised = Receivable(SatsDown(amount), Inbound)
             \/ goal = "clear" /\ advised = Feasible
      PROVE  PromiseInv' /\ PromisesKept'
  <2>1. /\ call' = [NoCall EXCEPT !.goal = goal, !.at = "told", !.amount = amount,
                                  !.advised = advised]
        /\ outcome' = NoOutcome /\ UNCHANGED worldVars
    BY <1>1 DEF Asks
  <2>2. /\ call'.goal = goal /\ call'.at = "told" /\ call'.amount = amount
        /\ call'.advised = advised
    BY <2>1 DEF NoCall
  <2>3. Balance' = Balance /\ Inbound' = Inbound
    BY <2>1 DEF worldVars, Balance, Inbound, Locals, Rooms
  <2> QED
    BY <1>1, <2>1, <2>2, <2>3 DEF PromiseInv, PromisesKept, NoOutcome, TellsAffordable, Feasible
<1>2. ASSUME NEW done \in BOOLEAN, Ends(Result(done)),
             done = FALSE /\ call.advised /\ Still({"channels"}) =>
               call.goal = "clear" /\ JustAbove /\ channels' = channels
      PROVE  PromiseInv' /\ PromisesKept'
  <2>1. /\ call'.goal = "none"
        /\ outcome' = [goal |-> call.goal, advised |-> call.advised, done |-> done]
        /\ disturbed' = disturbed
    BY <1>2 DEF Ends, NoCall, Result, NoOutcome
  <2>2. channels' = channels => JustAbove' = JustAbove
    BY DEF JustAbove, Balance, Locals
  <2> QED
    BY <1>2, <2>1, <2>2 DEF PromiseInv, PromisesKept, Still, JustAbove
<1>3. CASE \E amount \in Payments : AskPayment(amount) \/ AskReceive(amount)
  BY <1>1, <1>3 DEF AskPayment, AskReceive
<1>4. CASE AskClear
  BY <1>1, <1>4 DEF AskClear
<1>5. CASE Pay
  <2>0. call.goal = "pay"
    BY <1>5 DEF Pay, At
  <2>1. CASE Ends(Result(TRUE))
    BY <1>2, <2>1
  <2>2. CASE \E fee \in {RoutingFee, MaxRoutingFee(SatsDown(call.amount))} :
               call.amount + fee > Balance /\ Ends(Result(FALSE))
    <3>1. ~(call.advised /\ Still({"channels"}))
      BY <1>0, <2>0, <2>2, AffordableIsPaid DEF PromiseInv
    <3> QED
      BY <1>2, <2>2, <3>1
  <2> QED
    BY <1>5, <2>1, <2>2 DEF Pay
<1>6. CASE Receive
  <2>0. call.goal = "receive"
    BY <1>6 DEF Receive, At
  <2>1. CASE Ends(Result(TRUE))
    BY <1>2, <2>1
  <2>2. CASE ~CanReceive(call.amount) /\ Ends(Result(FALSE))
    <3>1. ~(call.advised /\ Still({"channels"}))
      BY <1>0, <2>0, <2>2, ReceivableIsReceived DEF PromiseInv
    <3> QED
      BY <1>2, <2>2, <3>1
  <2> QED
    BY <1>6, <2>1, <2>2 DEF Receive
<1>7. CASE PrepareClear
  <2>1. /\ call.goal = "clear" /\ outcome = NoOutcome
        /\ call' = [call EXCEPT !.at = "prepared",
                                !.amount = Msats(Max({0, SatsDown(Balance) - SwapperFee}))]
        /\ UNCHANGED <<disturbed, outcome>> /\ UNCHANGED worldVars
    BY <1>7 DEF PrepareClear, At, FundsTypes, CallTypes, Idle
  <2>2. /\ call'.goal = "clear" /\ call'.advised = call.advised
        /\ call'.amount = Msats(Max({0, SatsDown(Balance) - SwapperFee}))
    BY <2>1 DEF FundsTypes, CallTypes
  <2>3. Balance' = Balance
    BY <2>1 DEF worldVars, Balance, Locals
  <2> QED
    BY <2>1, <2>2, <2>3 DEF PromiseInv, PromisesKept, NoOutcome, Feasible, Still
<1>8. CASE ClearWallet
  <2>0. call.goal = "clear" /\ call.at = "prepared"
    BY <1>8 DEF ClearWallet, At
  <2>1. CASE Ends(Result(TRUE))
    BY <1>2, <2>1
  <2>2. CASE /\ Clearable(SatsDown(call.amount)) => call.amount + Msats(SwapperFee) > Balance
             /\ Ends(Result(FALSE)) /\ UNCHANGED worldVars
    <3>1. ASSUME call.advised, Still({"channels"})
          PROVE  JustAbove
      <4>1. Feasible /\ call.amount = Msats(Max({0, SatsDown(Balance) - SwapperFee}))
        BY <2>0, <3>1 DEF PromiseInv
      <4> QED
        BY <1>0, <2>2, <4>1, FeasibleIsCleared
    <3>2. channels' = channels
      BY <2>2 DEF worldVars
    <3> QED
      BY <1>2, <2>0, <2>2, <3>1, <3>2
  <2> QED
    BY <1>8, <2>1, <2>2 DEF ClearWallet
<1> QED
  BY <1>3, <1>4, <1>5, <1>6, <1>7, <1>8 DEF Use
\* What the other calls leave behind.
LEMMA ResolveOutcomes ==
  ASSUME FundsTypes, Resolve
  PROVE  /\ call'.goal \in {"none", "determine", "swap", "sweep", "list"}
         /\ outcome'.goal \in {"none", "swap"}
<1>1. \A result : Ends(result) => call'.goal = "none" /\ outcome' = result
  BY DEF Ends, NoCall
<1>2. ~Idle => outcome.goal = "none"
  BY DEF FundsTypes, CallTypes, NoOutcome
<1>3. call.goal \in Goal /\ call = [call EXCEPT !.goal = call.goal]
  BY DEF FundsTypes, CallTypes, CallSet
<1>4. CASE \E funds \in Unresolved : BeginDetermine(funds) \/ BeginSweep(funds)
  <2>1. PICK funds \in Unresolved, goal \in {"determine", "sweep"},
            step \in {"address", "rate"} :
            Begins(goal, funds, step)
    BY <1>4 DEF BeginDetermine, BeginSweep
  <2>2. /\ call' = [NoCall EXCEPT !.goal = goal, !.funds = funds, !.at = step,
                                  !.amount = AmountOf(funds)]
        /\ outcome' = NoOutcome
    BY <2>1 DEF Begins
  <2> QED
    BY <2>1, <2>2 DEF NoCall, NoOutcome
<1>5. CASE \E funds \in Unresolved, r \in Rates : BeginSwap(funds, r)
  BY <1>5 DEF BeginSwap, NoCall, NoOutcome
<1>6. CASE AskAddress \/ AskRate \/ AskPrepare \/ PrepareSweep
  <2>1. call.goal \in {"determine", "list", "sweep"} /\ outcome' = outcome
        /\ (\E step, x : \/ call' = [call EXCEPT !.at = step]
                         \/ call' = [call EXCEPT !.at = step, !.rate = x]
                         \/ call' = [call EXCEPT !.at = step, !.sent = x]
                         \/ call' = [call EXCEPT !.at = step, !.open = x])
    BY <1>6 DEF AskAddress, AskRate, AskPrepare, PrepareSweep, Determines, GoesTo, At
  <2>2. call'.goal = call.goal
    BY <1>3, <2>1 DEF FundsTypes, CallTypes, CallSet
  <2> QED
    BY <1>2, <2>1, <2>2 DEF Idle
<1>7. CASE NothingFound \/ Determine
  BY <1>7 DEF NothingFound, Determine, Says, NoCall, NoOutcome
<1>8. CASE CreateAddress \/ PrepareSwap \/ AskOpeningFee
  <2>1. call.goal = "swap"
    BY <1>8 DEF CreateAddress, PrepareSwap, AskOpeningFee, At
  <2>2. CASE /\ outcome' = outcome
             /\ \E step, x : \/ call' = [call EXCEPT !.at = step]
                            \/ call' = [call EXCEPT !.at = step, !.sent = x]
    <3>1. call'.goal = "swap" /\ outcome' = outcome
      BY <1>3, <2>1, <2>2 DEF FundsTypes, CallTypes, CallSet
    <3> QED
      BY <1>2, <2>1, <3>1 DEF Idle
  <2>3. CASE Ends(Refused)
    BY <1>1, <2>3 DEF Refused
  <2> QED
    BY <1>8, <2>2, <2>3 DEF CreateAddress, PrepareSwap, AskOpeningFee, GoesTo
<1>9. CASE SendSwap
  <2>1. [Refused EXCEPT !.sent = TRUE, !.sats = Sent].goal = "swap"
    BY DEF Refused
  <2>2. Ends([Refused EXCEPT !.sent = TRUE, !.sats = Sent])
    BY <1>9 DEF SendSwap
  <2> QED
    BY <1>1, <2>1, <2>2
<1>10. CASE Sweep
  BY <1>1, <1>10 DEF Sweep, NoOutcome
<1> QED
  BY <1>4, <1>5, <1>6, <1>7, <1>8, <1>9, <1>10 DEF Resolve

LEMMA ListOutcomes ==
  ASSUME FundsTypes, List
  PROVE  /\ call'.goal \in {"none", "list"}
         /\ outcome'.goal \in {"none", "list"}
<1>1. \A result : Ends(result) => call'.goal = "none" /\ outcome' = result
  BY DEF Ends, NoCall
<1>2. ~Idle => outcome.goal = "none"
  BY DEF FundsTypes, CallTypes, NoOutcome
<1>3. CASE BeginList
  BY <1>3 DEF BeginList, Begins, NoCall, NoOutcome
<1>4. CASE ListSwaps \/ \E swap \in 1..MaxSwaps : TryHiddenSwap(swap)
  <2>1. call.goal = "list" /\ outcome' = outcome /\ \E step : call' = [call EXCEPT !.at = step]
    BY <1>4 DEF ListSwaps, TryHiddenSwap, GoesTo, At
  <2>2. call'.goal = "list"
    BY <2>1 DEF FundsTypes, CallTypes
  <2> QED
    BY <1>2, <2>1, <2>2 DEF Idle
<1>5. CASE ListCloses
  <2>1. call.goal = "list"
    BY <1>5 DEF ListCloses, At
  <2>2. CASE /\ call' = [call EXCEPT !.at = "address", !.amount = OnchainBalance]
             /\ UNCHANGED <<advice, disturbed, outcome>>
    <3>1. call'.goal = "list" /\ outcome' = outcome
      BY <2>1, <2>2 DEF FundsTypes, CallTypes
    <3> QED
      BY <1>2, <2>1, <3>1 DEF Idle
  <2>3. CASE \E closes, lost : Listed(closes, lost)
    BY <1>1, <2>3 DEF Listed
  <2> QED
    BY <1>5, <2>2, <2>3 DEF ListCloses
<1>6. CASE ListHiddenCloses
  BY <1>1, <1>6 DEF ListHiddenCloses, Listed
<1>7. CASE HideCloses \/ \E swap \in 1..MaxSwaps : HideSwap(swap)
  BY <1>1, <1>7 DEF HideCloses, HideSwap, NoOutcome
<1> QED
  BY <1>3, <1>4, <1>5, <1>6, <1>7 DEF List

LEMMA FailingOutcome ==
  ASSUME CallFails
  PROVE  call'.goal = "none" /\ outcome'.goal = "none" /\ advice' = NoAdvice
BY DEF CallFails, Ends, NoCall, NoOutcome

LEMMA NextKeepsPromises ==
  ASSUME FundsTypes, Promises, [FundsNext]_fundsVars
  PROVE  Promises'
<1>1. CASE World
  BY <1>1, WorldKeepsPromises DEF Promises
<1>2. CASE Use
  BY <1>2, UseKeepsPromises DEF Promises
<1>3. CASE CallFails \/ Resolve \/ List
  <2>1. /\ call'.goal \notin {"pay", "receive", "clear"}
        /\ outcome'.goal \notin {"pay", "receive", "clear"}
    BY <1>3, FailingOutcome, ResolveOutcomes, ListOutcomes
  <2> QED
    BY <2>1 DEF Promises, PromiseInv, PromisesKept
<1>4. CASE UNCHANGED fundsVars
  <2>1. UNCHANGED <<channels, call, outcome, disturbed>>
    BY <1>4 DEF fundsVars, worldVars, callVars
  <2>2. Balance' = Balance /\ Inbound' = Inbound
    BY <2>1 DEF Balance, Inbound, Locals, Rooms
  <2> QED
    BY <2>1, <2>2 DEF Promises, PromiseInv, PromisesKept, TellsAffordable, Feasible, Still
<1> QED
  BY <1>1, <1>2, <1>3, <1>4 DEF FundsNext

\* What determine_payment_affordability, determine_receive_amount_limits and
\* determine_clear_wallet_feasibility allow succeeds unless the channels
\* change, for any balances, fees and limits.
THEOREM PromisesAreKept == FundsSpec => []PromisesKept
<1>1. FundsInit => Promises
  BY DEF FundsInit, OnchainInit, NoCall, NoOutcome, Promises, PromiseInv, PromisesKept
<1>2. FundsTypes /\ Promises /\ [FundsNext]_fundsVars => Promises'
  BY NextKeepsPromises
<1>3. Promises => PromisesKept
  BY DEF Promises
<1> QED
  BY <1>1, <1>2, <1>3, FundsAreTyped, PTL DEF FundsSpec
-----------------------------------------------------------------------------
(* What a list leaves out.                                                   *)

LEMMA BeginsGoal ==
  ASSUME NEW goal, NEW funds, NEW step, Begins(goal, funds, step)
  PROVE  call'.goal = goal /\ call'.at = step /\ outcome' = NoOutcome
BY DEF Begins, NoCall

LEMMA UseOutcomes ==
  ASSUME FundsTypes, Use
  PROVE  /\ call'.goal \in {"none", "pay", "receive", "clear"}
         /\ outcome'.goal \in {"none", "pay", "receive", "clear"}
<1>1. \A result : Ends(result) => call'.goal = "none" /\ outcome' = result
  BY DEF Ends, NoCall
<1>2. CASE \E amount, advised : \E goal \in {"pay", "receive", "clear"} :
              Asks(goal, amount, advised)
  <2>1. PICK amount, advised : \E g \in {"pay", "receive", "clear"} : Asks(g, amount, advised)
    BY <1>2
  <2>2. PICK goal \in {"pay", "receive", "clear"} : Asks(goal, amount, advised)
    BY <2>1
  <2>3. /\ call' = [NoCall EXCEPT !.goal = goal, !.at = "told", !.amount = amount,
                                  !.advised = advised]
        /\ outcome' = NoOutcome
    BY <2>2 DEF Asks
  <2> QED
    BY <2>2, <2>3 DEF NoCall, NoOutcome
<1>3. CASE Pay \/ Receive \/ ClearWallet
  <2>1. call.goal \in {"pay", "receive", "clear"}
    BY <1>3 DEF Pay, Receive, ClearWallet, At
  <2>2. \E done : Ends(Result(done))
    BY <1>3 DEF Pay, Receive, ClearWallet
  <2>3. \A done : Result(done).goal = call.goal
    BY DEF Result
  <2> QED
    BY <1>1, <2>1, <2>2, <2>3
<1>4. CASE PrepareClear
  BY <1>4 DEF PrepareClear, At, FundsTypes, CallTypes, Idle, NoOutcome
<1>5. (\E amount \in Payments : AskPayment(amount) \/ AskReceive(amount)) \/ AskClear
        => \E amount, advised : \E goal \in {"pay", "receive", "clear"} :
              Asks(goal, amount, advised)
  BY DEF AskPayment, AskReceive, AskClear
<1> QED
  BY <1>2, <1>3, <1>4, <1>5 DEF Use

Lists == ListInv /\ HiddenItemsReturn

Settled == Still({"funds", "rate", "swaps"})

LEMMA WorldKeepsList ==
  ASSUME FundsTypes, Lists, World, UNCHANGED listVars
  PROVE  Lists'
<1>1. PICK what \in Aspects : Effect(what)
  BY WorldHasEffect DEF FundsTypes
<1>2. /\ call' = call /\ outcome' = NoOutcome
      /\ ~Idle => disturbed' = disturbed \cup ({what} \cap Concerns)
  BY <1>1, DisturbsKeeps DEF FundsTypes, Effect
<1>3. HiddenItemsReturn'
  BY <1>2 DEF HiddenItemsReturn, NoOutcome
<1>4. SUFFICES ASSUME call.goal = "list", Settled'
               PROVE  ListInv'
  BY <1>2, <1>3 DEF Lists, ListInv, Settled
<1>5. what = "channels" /\ Settled
  BY <1>2, <1>4 DEF Settled, Still, Concerns, Idle, Aspects
<1>6. /\ closed' = closed /\ rate' = rate
      /\ WithStatus("refundable")' = WithStatus("refundable")
      /\ \A s \in WithStatus("refundable") : swaps'[s].sats = swaps[s].sats
  BY <1>1, <1>5 DEF Effect, WithStatus
<1>7. OnchainBalance' = OnchainBalance
  BY <1>6 DEF OnchainBalance
<1>8. UNCHANGED <<hiddenAmount, hiddenSwaps, shown, untried, unanswered>>
  BY DEF listVars
<1> QED
  BY <1>2, <1>4, <1>5, <1>6, <1>7, <1>8
  DEF Lists, ListInv, Settled, LeftOut, IsHidden, OnchainSats

\* The questions about closed channels that a list shares with a call of the
\* user's.
LEMMA ResolveKeepsList ==
  ASSUME FundsTypes, Lists, Resolve, UNCHANGED listVars
  PROVE  Lists'
<1>1. HiddenItemsReturn'
  BY ResolveOutcomes DEF HiddenItemsReturn
<1>2. CASE call'.goal # "list"
  BY <1>1, <1>2 DEF Lists, ListInv
<1>3. CASE call'.goal = "list"
  <2>1. AskAddress \/ AskRate \/ AskPrepare
    <3>1. \A goal, funds, step : Begins(goal, funds, step) => call'.goal = goal
      BY BeginsGoal
    <3>2. \A result : Ends(result) => call'.goal = "none"
      BY DEF Ends, NoCall
    <3>3. CASE \E funds \in Unresolved : BeginDetermine(funds) \/ BeginSweep(funds)
      BY <1>3, <3>1, <3>3 DEF BeginDetermine, BeginSweep
    <3>4. CASE \E funds \in Unresolved, r \in Rates : BeginSwap(funds, r)
      BY <1>3, <3>4 DEF BeginSwap, NoCall
    <3>5. CASE NothingFound \/ Determine
      BY <1>3, <3>5 DEF NothingFound, Determine, Says, NoCall
    <3>6. CASE CreateAddress \/ PrepareSwap \/ AskOpeningFee \/ PrepareSweep
      BY <1>3, <3>2, <3>6 DEF CreateAddress, PrepareSwap, AskOpeningFee, PrepareSweep, GoesTo, At,
                              FundsTypes, CallTypes, CallSet
    <3>7. CASE SendSwap \/ Sweep
      BY <1>3, <3>2, <3>7 DEF SendSwap, Sweep
    <3> QED
      BY <3>3, <3>4, <3>5, <3>6, <3>7 DEF Resolve
  <2>2. /\ UNCHANGED <<closed, rate, swaps, disturbed, outcome>>
        /\ UNCHANGED <<hiddenAmount, hiddenSwaps, shown, untried, unanswered>>
    BY <2>1 DEF AskAddress, AskRate, AskPrepare, worldVars, listVars
  <2>3. /\ OnchainBalance' = OnchainBalance /\ WithStatus("refundable")' = WithStatus("refundable")
        /\ Settled' = Settled
    BY <2>2 DEF OnchainBalance, WithStatus, Settled, Still
  <2>4. /\ call.goal = "list" /\ call'.amount = call.amount
        /\ call.at \in {"address", "rate", "prepare"} /\ call'.at \in {"rate", "prepare", "fee"}
        /\ call'.at = "prepare" => call'.rate = rate
    BY <1>3, <2>1 DEF AskAddress, AskRate, AskPrepare, FundsTypes, CallTypes, CallSet
  <2> QED
    BY <1>1, <2>2, <2>3, <2>4
    DEF Lists, ListInv, Settled, LeftOut, IsHidden, OnchainSats
<1> QED
  BY <1>2, <1>3

\* A swap that is tried and not shown costs more than it holds.
LEMMA TriedSwaps ==
  ASSUME WorldTypes, NEW s \in WithStatus("refundable"), ~CanPrepare(s, AmountOf(s), rate)
  PROVE  swaps[s].sats <= TxFee(rate)
<1>1. s \in DOMAIN swaps /\ swaps[s].sats \in Nat
  BY SwapRecords DEF WithStatus
<1>2. s # Closes
  BY <1>1 DEF WorldTypes, Closes
<1>3. SatsDown(Msats(swaps[s].sats)) = swaps[s].sats
  BY <1>1 DEF SatsDown, Msats
<1>4. TxFee(rate) \in Nat
  BY BreezServicesAssumption DEF WorldTypes, TxFee
<1> QED
  BY <1>1, <1>2, <1>3, <1>4 DEF CanPrepare, AmountOf

\* Closed channels that stay hidden cannot be recovered.
LEMMA TriedCloses ==
  ASSUME WorldTypes, OnchainSats > Reserve, ~CanResolve(Closes, OnchainBalance, rate)
  PROVE  2 * SweepFee(Closes, rate) > OnchainSats
<1>1. OnchainBalance \in Nat /\ rate \in Nat
  BY Balances, BreezServicesAssumption DEF WorldTypes
<1>2. /\ SweepFee(Closes, rate) \in Nat /\ TxFee(rate) \in Nat
      /\ TxFee(rate) <= SweepFee(Closes, rate)
  BY <1>1 DEF SweepFee, TxFee, Reserve
<1>3. OnchainSats \in Nat /\ OnchainSats > 0
  BY <1>1 DEF OnchainSats, SatsDown, Reserve
<1>4. CASE ~CanRedeem(rate)
  <2>1. OnchainSats <= TxFee(rate)
    BY <1>1, <1>2, <1>4 DEF CanRedeem, OnchainSats, SatsDown
  <2> QED
    BY <1>2, <1>3, <2>1
<1>5. CASE CanRedeem(rate)
  BY <1>2, <1>3, <1>5 DEF CanResolve, CanPrepare, OnchainSats
<1> QED
  BY <1>4, <1>5

LEMMA ListKeepsList ==
  ASSUME FundsTypes, Lists, List
  PROVE  Lists'
<1>0. WorldTypes /\ (~Idle => outcome = NoOutcome)
  BY DEF FundsTypes, CallTypes
<1>1. CASE BeginList \/ HideCloses \/ \E swap \in 1..MaxSwaps : HideSwap(swap)
  <2>1. /\ outcome' = NoOutcome
        /\ call'.goal = "list" => call'.at = "swaps"
    <3>1. CASE BeginList
      BY <3>1, BeginsGoal DEF BeginList
    <3>2. CASE HideCloses \/ \E swap \in 1..MaxSwaps : HideSwap(swap)
      BY <3>2 DEF HideCloses, HideSwap, Ends, NoCall
    <3> QED
      BY <1>1, <3>1, <3>2
  <2> QED
    BY <2>1 DEF Lists, ListInv, HiddenItemsReturn, NoOutcome
<1>2. CASE ListSwaps \/ \E swap \in 1..MaxSwaps : TryHiddenSwap(swap)
  <2>1. /\ call.goal = "list" /\ outcome = NoOutcome /\ outcome' = outcome
        /\ UNCHANGED <<disturbed, hiddenAmount, hiddenSwaps>> /\ UNCHANGED worldVars
        /\ \E step : call' = [call EXCEPT !.at = step]
    BY <1>0, <1>2 DEF ListSwaps, TryHiddenSwap, At, GoesTo, Idle
  <2>2. /\ HiddenItemsReturn' /\ call'.goal = "list"
        /\ Settled' = Settled /\ swaps' = swaps /\ rate' = rate
        /\ WithStatus("refundable")' = WithStatus("refundable")
    BY <2>1 DEF HiddenItemsReturn, NoOutcome, FundsTypes, CallTypes, CallSet, Settled, Still,
                worldVars, WithStatus
  <2>3. CASE ListSwaps
    <3>1. /\ shown' = WithStatus("refundable") \ (WithStatus("refundable") \cap hiddenSwaps)
          /\ untried' = WithStatus("refundable") \cap hiddenSwaps
          /\ \/ call'.at = "hidden"
             \/ call'.at = "funds" /\ untried' = {}
      BY <2>3 DEF ListSwaps, GoesTo, FundsTypes, CallTypes, CallSet
    <3> QED
      BY <2>1, <2>2, <3>1 DEF Lists, ListInv
  <2>4. ASSUME NEW swap \in 1..MaxSwaps, TryHiddenSwap(swap)
        PROVE  Lists'
    <3>1. /\ call.at = "hidden" /\ untried' = untried \ {swap}
          /\ \/ call'.at = "hidden"
             \/ call'.at = "funds" /\ untried' = {}
          /\ shown \subseteq shown' /\ unanswered \subseteq unanswered'
          /\ ~CanPrepare(swap, AmountOf(swap), rate) \/ swap \in shown' \/ swap \in unanswered'
      BY <2>4 DEF TryHiddenSwap, At, GoesTo, FundsTypes, CallTypes, CallSet
    <3>2. ASSUME Settled, NEW s \in WithStatus("refundable") \ shown'
          PROVE  s \in untried' \cap hiddenSwaps \/ LeftOut(s)'
      <4>1. s \in untried \cap hiddenSwaps \/ LeftOut(s)
        BY <2>1, <3>1, <3>2 DEF Lists, ListInv, Settled
      <4>2. CASE s = swap /\ s \in hiddenSwaps
        <5>1. swaps[s].sats <= TxFee(rate) \/ s \in unanswered'
          BY <1>0, <3>1, <3>2, <4>2, TriedSwaps
        <5> QED
          BY <2>1, <2>2, <4>2, <5>1 DEF LeftOut, TxFee
      <4>3. CASE s # swap \/ s \notin hiddenSwaps
        BY <2>1, <2>2, <3>1, <4>1, <4>3 DEF LeftOut, TxFee
      <4> QED
        BY <4>2, <4>3
    <3> QED
      BY <2>1, <2>2, <3>1, <3>2 DEF Lists, ListInv, Settled
  <2> QED
    BY <1>2, <2>3, <2>4
<1>3. ASSUME NEW closes, NEW lost, Listed(closes, lost), unanswered \subseteq lost,
             call.goal = "list", call.at \notin {"swaps", "hidden"},
             UNCHANGED worldVars, UNCHANGED listVars,
             Settled /\ OnchainSats > Reserve /\ ~closes =>
               IsHidden /\ (2 * SweepFee(Closes, rate) > OnchainSats \/ Closes \in lost)
      PROVE  Lists'
  <2>1. /\ call'.goal = "none" /\ disturbed' = disturbed
        /\ outcome' = [goal |-> "list", swaps |-> shown, closes |-> closes, unanswered |-> lost]
    BY <1>3 DEF Listed, Ends, NoCall, NoOutcome
  <2>2. UNCHANGED <<closed, rate, swaps, hiddenAmount, hiddenSwaps, shown>>
    BY <1>3 DEF worldVars, listVars
  <2>3. /\ OnchainSats' = OnchainSats /\ WithStatus("refundable")' = WithStatus("refundable")
        /\ Settled' = Settled /\ SweepFee(Closes, rate)' = SweepFee(Closes, rate)
    BY <2>1, <2>2 DEF OnchainSats, OnchainBalance, WithStatus, Settled, Still, SweepFee, HasReserve
  <2>4. Settled => \A s \in WithStatus("refundable") \ shown : LeftOut(s)
    BY <1>3 DEF Lists, ListInv, Settled
  <2>5. Settled => \A s \in WithStatus("refundable") \ shown :
                     s \in hiddenSwaps /\ (swaps[s].sats <= TxFee(rate) \/ s \in lost)
    BY <1>3, <2>4 DEF LeftOut
  <2>6. TxFee(rate)' = TxFee(rate)
    BY <2>2 DEF TxFee
  <2> QED
    BY <1>3, <2>1, <2>2, <2>3, <2>5, <2>6 DEF Lists, ListInv, HiddenItemsReturn, Settled, IsHidden
<1>4. CASE ListCloses
  <2>1. call.goal = "list" /\ call.at = "funds" /\ UNCHANGED worldVars /\ UNCHANGED listVars
    BY <1>4 DEF ListCloses, At
  <2>2. CASE Listed(OnchainSats > Reserve, unanswered)
    BY <1>3, <2>1, <2>2
  <2>3. CASE /\ IsHidden
             /\ call' = [call EXCEPT !.at = "address", !.amount = OnchainBalance]
             /\ UNCHANGED <<advice, disturbed, outcome>>
    <3>1. call'.goal = "list" /\ call'.at = "address" /\ call'.amount = OnchainBalance
      BY <2>1, <2>3 DEF FundsTypes, CallTypes, CallSet
    <3>2. UNCHANGED <<closed, rate, swaps, hiddenAmount, hiddenSwaps, shown, untried, unanswered>>
      BY <2>1 DEF worldVars, listVars
    <3>3. /\ OnchainSats' = OnchainSats /\ WithStatus("refundable")' = WithStatus("refundable")
          /\ OnchainBalance' = OnchainBalance /\ Settled' = Settled
      BY <2>3, <3>2 DEF OnchainSats, OnchainBalance, WithStatus, Settled, Still
    <3>4. HiddenItemsReturn'
      BY <1>0, <2>1, <2>3 DEF HiddenItemsReturn, NoOutcome, Idle
    <3> QED
      BY <2>1, <2>3, <3>1, <3>2, <3>3, <3>4 DEF Lists, ListInv, Settled, LeftOut, IsHidden
  <2> QED
    BY <1>4, <2>2, <2>3 DEF ListCloses
<1>5. CASE ListHiddenCloses
  <2>1. /\ call.goal = "list" /\ call.at \in {"rate", "prepare", "fee"}
        /\ UNCHANGED worldVars /\ UNCHANGED listVars
    BY <1>5 DEF ListHiddenCloses, At
  <2>2. Settled => /\ IsHidden /\ call.amount = OnchainBalance
                   /\ call.at = "prepare" => call.rate = rate
    BY <2>1 DEF Lists, ListInv, Settled
  <2>3. CASE Listed(FALSE, unanswered \cup {Closes})
    BY <1>3, <2>1, <2>2, <2>3
  <2>4. CASE /\ call.at = "prepare" /\ ~CanResolve(Closes, call.amount, call.rate)
             /\ Listed(FALSE, unanswered)
    <3>1. Settled /\ OnchainSats > Reserve => 2 * SweepFee(Closes, rate) > OnchainSats
      BY <1>0, <2>2, <2>4, TriedCloses
    <3> QED
      BY <1>3, <2>1, <2>2, <2>4, <3>1
  <2>5. CASE Listed(TRUE, unanswered)
    BY <1>3, <2>1, <2>5
  <2> QED
    BY <1>5, <2>3, <2>4, <2>5 DEF ListHiddenCloses, At
<1> QED
  BY <1>1, <1>2, <1>4, <1>5 DEF List

LEMMA NextKeepsList ==
  ASSUME FundsTypes, Lists, [FundsNext]_fundsVars
  PROVE  Lists'
<1>1. CASE World /\ UNCHANGED listVars
  BY <1>1, WorldKeepsList
<1>2. CASE Resolve /\ UNCHANGED listVars
  BY <1>2, ResolveKeepsList
<1>3. CASE List
  BY <1>3, ListKeepsList
<1>4. CASE CallFails \/ Use
  <2>1. call'.goal # "list" /\ outcome'.goal # "list"
    BY <1>4, FailingOutcome, UseOutcomes
  <2> QED
    BY <2>1 DEF Lists, ListInv, HiddenItemsReturn
<1>5. CASE UNCHANGED fundsVars
  <2>1. UNCHANGED <<closed, rate, swaps, call, outcome, disturbed, listVars>>
    BY <1>5 DEF fundsVars, worldVars, callVars, listVars
  <2>2. /\ OnchainSats' = OnchainSats /\ WithStatus("refundable")' = WithStatus("refundable")
        /\ OnchainBalance' = OnchainBalance /\ SweepFee(Closes, rate)' = SweepFee(Closes, rate)
    BY <2>1 DEF OnchainSats, OnchainBalance, WithStatus, SweepFee, HasReserve
  <2> QED
    BY <2>1, <2>2 DEF Lists, ListInv, HiddenItemsReturn, LeftOut, IsHidden, Still, listVars, TxFee
<1> QED
  BY <1>1, <1>2, <1>3, <1>4, <1>5 DEF FundsNext

\* A list leaves out only what the user hid with the same amount, and what still
\* cannot be recovered or could not be asked about, whatever became of funds and
\* fees in between.
THEOREM HiddenItemsDoReturn == FundsSpec => []HiddenItemsReturn
<1>1. FundsInit => Lists
  BY DEF FundsInit, OnchainInit, NoCall, NoOutcome, Lists, ListInv, HiddenItemsReturn
<1>2. FundsTypes /\ Lists /\ [FundsNext]_fundsVars => Lists'
  BY NextKeepsList
<1>3. Lists => HiddenItemsReturn
  BY DEF Lists
<1> QED
  BY <1>1, <1>2, <1>3, FundsAreTyped, PTL DEF FundsSpec
-----------------------------------------------------------------------------
(* Swaps of funds: what swap() sends, and what it refuses.                   *)

\* A difference that is not below zero is taken as it is.
LEMMA PlainDifference ==
  ASSUME NEW a \in Nat, NEW b \in Nat, b <= a, a < Width
  PROVE  Minus(a, b) = a - b
<1>1. Width \in Nat /\ a - b \in 0..(Width - 1)
  BY AmountsAssumption
<1> QED
  BY <1>1, SmallRest DEF Minus

\* The larger a payment, the larger its fee.
LEMMA OpeningFeeGrows ==
  ASSUME WorldTypes, NEW a \in Nat, NEW b \in Nat, a <= b
  PROVE  /\ OpeningFee(a, Inbound, LongerTerms) \in Nat
         /\ OpeningFee(b, Inbound, LongerTerms) \in Nat
         /\ OpeningFee(a, Inbound, LongerTerms) <= OpeningFee(b, Inbound, LongerTerms)
<1> DEFINE d == LongerTerms.share
           m == LongerTerms.min
           fee(x) == Max({Msats(x \div d), m})
<1>1. d \in Nat \ {0} /\ m \in Nat /\ SatsDown(Inbound) \in Nat
  BY Balances, AmountsAssumption DEF SatsDown
<1>2. a \div d \in Nat /\ b \div d \in Nat /\ a \div d <= b \div d
  <2> HIDE DEF d
  <2> QED BY <1>1, DivIsNat, DivGrows
<1>3. ASSUME NEW x \in {a, b}
      PROVE  fee(x) \in {Msats(x \div d), m} /\ fee(x) >= Msats(x \div d) /\ fee(x) >= m
  <2>1. Msats(x \div d) \in Int /\ m \in Int
    BY <1>1, <1>2 DEF Msats
  <2> QED
    BY <2>1, MaxOfTwo, Zenon
<1>4. Msats(a \div d) \in Nat /\ Msats(b \div d) \in Nat /\ Msats(a \div d) <= Msats(b \div d)
  <2> HIDE DEF d
  <2> QED BY <1>2 DEF Msats
<1>5. fee(a) \in Nat /\ fee(b) \in Nat /\ fee(a) <= fee(b)
  <2>1. /\ fee(a) \in {Msats(a \div d), m} /\ fee(a) >= Msats(a \div d) /\ fee(a) >= m
        /\ fee(b) \in {Msats(b \div d), m} /\ fee(b) >= Msats(b \div d) /\ fee(b) >= m
    BY <1>3
  <2> HIDE DEF d, m, fee
  <2> QED BY <1>1, <1>4, <2>1
<1>6. SatsUp(fee(a)) \in Nat /\ SatsUp(fee(b)) \in Nat /\ SatsUp(fee(a)) <= SatsUp(fee(b))
  <2> HIDE DEF fee
  <2> QED BY <1>5 DEF SatsUp
<1>7. \A x \in {a, b} : OpeningFee(x, Inbound, LongerTerms) =
                          IF x > SatsDown(Inbound) THEN SatsUp(fee(x)) ELSE 0
  BY DEF OpeningFee
<1> HIDE DEF d, m, fee
<1> QED
  BY <1>1, <1>6, <1>7

\* A failed swap that was offered to be swapped again is accepted.
LEMMA OfferIsAccepted ==
  ASSUME WorldTypes, SwapsFit, NEW funds \in DOMAIN swaps, NEW r \in Nat, Stands(funds, r)
  PROVE  LET sent == SwappedAmount(funds, Msats(swaps[funds].sats), r) IN
         /\ Accepts(funds, Msats(swaps[funds].sats), r)
         /\ sent > OpeningFee(sent, Inbound, LongerTerms)
<1> DEFINE sats == swaps[funds].sats
           fee == TxFee(r)
<1>1. sats \in Nat /\ sats < Width /\ funds # Closes
  BY SwapRecords DEF SwapsFit, WorldTypes, Closes
<1>2. AmountOf(funds) = Msats(sats) /\ SatsDown(Msats(sats)) = sats /\ sats <= Msats(sats)
      /\ Msats(sats) \in Nat
  BY <1>1 DEF AmountOf, SatsDown, Msats
<1>3. fee \in Nat /\ fee + 0 = fee
  BY RatesAreNat
<1>4. sats > fee
  BY <1>1, <1>2 DEF Stands, CanResolve, CanPrepare
<1>5. Minus(sats, fee) = sats - fee
  <2> HIDE DEF sats, fee
  <2> QED BY <1>1, <1>3, <1>4, PlainDifference
<1>6. SweptAmount(funds, Msats(sats), r) = sats - fee
  BY <1>1, <1>2, <1>5 DEF SweptAmount
<1>7. SwappedAmount(funds, Msats(sats), r) = sats - fee
  BY <1>1, <1>2, <1>3, <1>5 DEF SwappedAmount
<1>8. /\ sats - fee >= MinDeposit /\ sats - fee <= MaxDeposit
      /\ sats - fee > OpeningFee(Msats(sats), Inbound, LongerTerms)
  BY <1>2, <1>6 DEF Stands, Offers, ShownOpeningFee
<1>9. sats - fee \in Nat /\ sats - fee <= Msats(sats)
  <2> HIDE DEF sats, fee
  <2> QED BY <1>1, <1>2, <1>3, <1>4
<1>10. sats - fee > OpeningFee(sats - fee, Inbound, LongerTerms)
  <2>1. /\ OpeningFee(sats - fee, Inbound, LongerTerms) \in Nat
        /\ OpeningFee(Msats(sats), Inbound, LongerTerms) \in Nat
        /\ OpeningFee(sats - fee, Inbound, LongerTerms)
             <= OpeningFee(Msats(sats), Inbound, LongerTerms)
    BY <1>2, <1>9, OpeningFeeGrows
  <2> QED
    BY <1>8, <1>9, <2>1
<1> QED
  BY <1>1, <1>7, <1>8, <1>10 DEF Accepts

\* What is sent is what was accepted, though the accepted amount is a
\* difference that was not checked.
LEMMA SentAsAccepted ==
  ASSUME FundsTypes, SwapsFit, AmountsFit, CanSend, Current(call.funds, call.amount),
         call.funds # Closes \/ Still({"funds"})
  PROVE  Sent = SwappedAmount(call.funds, call.amount, call.rate)
<1>1. WorldTypes /\ call.rate \in Nat /\ call.funds \in Funds
  BY DEF FundsTypes, CallTypes, CallSet
<1>2. TxFee(call.rate) \in Nat /\ TxFee(call.rate) + 0 = TxFee(call.rate)
  BY <1>1, RatesAreNat
<1>3. CASE call.funds = Closes
  <2>1. call.amount = OnchainBalance /\ OnchainBalance \in Nat
    BY <1>1, <1>3, Balances DEF Current
  <2>2. SatsDown(OnchainBalance) \in Nat /\ SatsDown(OnchainBalance) < Width
    BY <2>1 DEF SatsDown, AmountsFit
  <2>3. /\ TxFee(call.rate) + Reserve \in Nat
        /\ TxFee(call.rate) + Reserve <= SatsDown(OnchainBalance)
        /\ Sent = SatsDown(OnchainBalance) - (TxFee(call.rate) + Reserve)
    BY <1>2, <1>3, <2>2 DEF CanSend, Sent, Redeemed, Reserve, SatsDown
  <2> QED
    BY <1>3, <2>1, <2>2, <2>3, PlainDifference DEF SwappedAmount
<1>4. CASE call.funds # Closes
  <2>1. call.funds \in DOMAIN swaps
    BY <1>1, <1>4 DEF Funds
  <2>2. swaps[call.funds].sats \in Nat /\ swaps[call.funds].sats < Width
    BY <1>1, <2>1, SwapRecords DEF SwapsFit
  <2>3. SatsDown(call.amount) = swaps[call.funds].sats
    BY <1>4, <2>2 DEF Current, SatsDown, Msats
  <2>4. /\ TxFee(call.rate) <= swaps[call.funds].sats
        /\ Sent = swaps[call.funds].sats - TxFee(call.rate)
    BY <1>2, <1>4, <2>2 DEF CanSend, Sent
  <2> QED
    BY <1>2, <1>4, <2>2, <2>3, <2>4, PlainDifference DEF SwappedAmount
<1> QED
  BY <1>3, <1>4

LEMMA SentFits ==
  ASSUME FundsTypes, SwapsFit, AmountsFit
  PROVE  Sent < Width
<1>1. WorldTypes /\ call.rate \in Nat /\ call.funds \in Funds
  BY DEF FundsTypes, CallTypes, CallSet
<1>2. TxFee(call.rate) \in Nat /\ OnchainBalance \in Nat /\ Width \in Nat
  BY <1>1, RatesAreNat, Balances, AmountsAssumption
<1>3. CASE call.funds = Closes
  BY <1>2, <1>3 DEF AmountsFit, SatsDown, Sent, Redeemed, Reserve
<1>4. CASE call.funds # Closes
  <2>1. call.funds \in DOMAIN swaps
    BY <1>1, <1>4 DEF Funds
  <2>2. swaps[call.funds].sats \in Nat /\ swaps[call.funds].sats < Width
    BY <1>1, <2>1, SwapRecords DEF SwapsFit
  <2> QED
    BY <1>2, <1>4, <2>2 DEF Sent
<1> QED
  BY <1>3, <1>4
-----------------------------------------------------------------------------
Swaps == ResolveInv /\ DepositWithinLimits /\ OfferedSwapSucceeds

\* What was computed from these holds as long as they are left alone.
LEMMA SameWorld ==
  ASSUME UNCHANGED <<channels, closed, swaps>>
  PROVE  /\ Inbound' = Inbound /\ OnchainBalance' = OnchainBalance
         /\ SwapInProgress' = SwapInProgress
         /\ \A funds : AmountOf(funds)' = AmountOf(funds)
         /\ \A funds, amount, r :
              /\ CanResolve(funds, amount, r)' = CanResolve(funds, amount, r)
              /\ SweptAmount(funds, amount, r)' = SweptAmount(funds, amount, r)
         /\ \A funds, r : Stands(funds, r)' = Stands(funds, r)
<1>1. /\ Inbound' = Inbound /\ OnchainBalance' = OnchainBalance
      /\ SwapInProgress' = SwapInProgress
  BY DEF Inbound, Rooms, OnchainBalance, SwapInProgress, WithStatus
<1>2. \A funds : AmountOf(funds)' = AmountOf(funds)
  BY <1>1 DEF AmountOf
<1>3. \A funds, amount, r :
        /\ CanResolve(funds, amount, r)' = CanResolve(funds, amount, r)
        /\ SweptAmount(funds, amount, r)' = SweptAmount(funds, amount, r)
  BY <1>1 DEF CanResolve, CanPrepare, CanRedeem, SweptAmount, SweepFee, HasReserve
<1>4. \A funds, r : Stands(funds, r)' = Stands(funds, r)
  BY <1>1, <1>2, <1>3 DEF Stands, Offers, ShownOpeningFee
<1> QED
  BY <1>1, <1>2, <1>3, <1>4

\* After a step that leaves neither a call for funds nor an offer.
LEMMA NothingPending ==
  ASSUME call'.goal \notin {"determine", "swap"}, advice' = NoAdvice, SwapsFit'
  PROVE  ResolveInv'
BY DEF ResolveInv, AmountInv, DetermineInv, SwapInv, NoAdvice

LEMMA WorldKeepsSwaps ==
  ASSUME FundsTypes, ResolveInv, World
  PROVE  Swaps'
<1>1. PICK what \in Aspects : Effect(what)
  BY WorldHasEffect DEF FundsTypes
<1>2. /\ call' = call /\ advice' = advice /\ outcome' = NoOutcome
      /\ ~Idle \/ advice # NoAdvice => disturbed' = disturbed \cup ({what} \cap Concerns)
  BY <1>1, DisturbsKeeps DEF FundsTypes, Effect
<1>3. DepositWithinLimits' /\ OfferedSwapSucceeds'
  BY <1>2 DEF DepositWithinLimits, OfferedSwapSucceeds, Swapped, NoOutcome
<1>4. SwapsFit'
  <2>1. \A i \in DOMAIN swaps' : swaps'[i].sats < Width
    BY <1>1, OnchainAssumption DEF Effect, ResolveInv, SwapsFit
  <2> QED
    BY <2>1 DEF SwapsFit
<1>5. Undisturbed' /\ (call.goal \in {"determine", "swap"} \/ advice.about = "swap")
        => what = "rate" /\ Undisturbed
  BY <1>2 DEF Undisturbed, Still, Concerns, Idle, Aspects, FundsTypes, CallTypes, NoAdvice
<1>6. \A a \in {"funds", "channels", "swaps"} :
        Still({a})' /\ call.goal \in {"determine", "swap"} => what # a /\ Still({a})
  BY <1>2 DEF Still, Concerns, Idle
<1>7. what = "rate" =>
        /\ \A funds, r : Stands(funds, r)' = Stands(funds, r)
        /\ \A funds, amount, r :
             /\ CanResolve(funds, amount, r)' = CanResolve(funds, amount, r)
             /\ SweptAmount(funds, amount, r)' = SweptAmount(funds, amount, r)
  BY <1>1, SameWorld DEF Effect
<1>8. AmountInv'
  <2> SUFFICES ASSUME call.goal \in {"determine", "swap"}
               PROVE  Current(call.funds, call.amount)'
    BY <1>2 DEF AmountInv
  <2>1. Current(call.funds, call.amount) /\ call.funds \in Funds
    BY DEF ResolveInv, AmountInv, FundsTypes, CallTypes
  <2>2. CASE call.funds = Closes
    <3>1. Still({"funds"})' => OnchainBalance' = OnchainBalance /\ Still({"funds"})
      BY <1>1, <1>6 DEF Effect, OnchainBalance
    <3> QED
      BY <1>2, <2>1, <2>2, <3>1 DEF Current
  <2>3. CASE call.funds # Closes
    BY <1>1, <1>2, <2>1, <2>3 DEF Current, Funds, Effect
  <2> QED
    BY <2>2, <2>3
<1>9. DetermineInv'
  <2>1. call.goal = "determine" /\ Still({"swaps"})' => (SwapInProgress' => SwapInProgress)
    BY <1>1, <1>6 DEF Effect
  <2>2. advice.about = "swap" /\ Undisturbed'
          => Stands(advice.funds, advice.rate)'
    <3> SUFFICES ASSUME advice.about = "swap", Undisturbed'
                 PROVE  Stands(advice.funds, advice.rate)'
      OBVIOUS
    <3>1. Stands(advice.funds, advice.rate)
      BY <1>5 DEF ResolveInv, DetermineInv
    <3> QED
      BY <1>2, <1>5, <1>7, <3>1
  <2>3. ASSUME call.goal = "determine", call.at = "fee", Undisturbed'
        PROVE  /\ CanResolve(call.funds, call.amount, call.rate)'
               /\ call.sent = SweptAmount(call.funds, call.amount, call.rate)'
    <3>1. /\ CanResolve(call.funds, call.amount, call.rate)
          /\ call.sent = SweptAmount(call.funds, call.amount, call.rate)
      BY <1>5, <2>3 DEF ResolveInv, DetermineInv
    <3> QED
      BY <1>2, <1>5, <1>7, <2>3, <3>1
  <2> QED
    BY <1>2, <1>6, <2>1, <2>2, <2>3 DEF ResolveInv, DetermineInv
<1>10. SwapInv'
  <2> SUFFICES ASSUME call.goal = "swap"
               PROVE  SwapInv'
    BY <1>2 DEF SwapInv
  <2>1. call.at \in {"address", "prepare", "fee"} /\ call.advised /\ Undisturbed'
          => Stands(call.funds, call.rate)'
    <3> SUFFICES ASSUME call.at \in {"address", "prepare", "fee"}, call.advised, Undisturbed'
                 PROVE  Stands(call.funds, call.rate)'
      OBVIOUS
    <3>1. Stands(call.funds, call.rate)
      BY <1>5 DEF ResolveInv, SwapInv
    <3> QED
      BY <1>2, <1>5, <1>7, <3>1
  <2>2. Still({"channels"})' => Inbound' = Inbound /\ Still({"channels"})
    BY <1>1, <1>6 DEF Effect, Inbound, Rooms
  <2> QED
    BY <1>2, <2>1, <2>2 DEF ResolveInv, SwapInv
<1> QED
  BY <1>3, <1>4, <1>8, <1>9, <1>10 DEF Swaps, ResolveInv
LEMMA BeginKeepsSwaps ==
  ASSUME FundsTypes, ResolveInv, NEW goal \in {"determine", "sweep", "list"}, NEW funds, NEW step,
         Begins(goal, funds, step), step = "address" \/ goal # "determine"
  PROVE  Swaps'
<1>1. /\ call' = [NoCall EXCEPT !.goal = goal, !.funds = funds, !.at = step,
                                !.amount = AmountOf(funds)]
      /\ advice' = NoAdvice /\ outcome' = NoOutcome /\ UNCHANGED worldVars
  BY DEF Begins
<1>2. /\ call'.goal = goal /\ call'.funds = funds /\ call'.at = step
      /\ call'.amount = AmountOf(funds)
  BY <1>1 DEF NoCall
<1>3. OnchainBalance' = OnchainBalance /\ swaps' = swaps
  BY <1>1 DEF worldVars, OnchainBalance
<1>4. Current(call.funds, call.amount)'
  BY <1>2, <1>3 DEF Current, AmountOf
<1>5. SwapsFit'
  BY <1>3 DEF ResolveInv, SwapsFit
<1> QED
  BY <1>1, <1>2, <1>4, <1>5
  DEF Swaps, ResolveInv, AmountInv, DetermineInv, SwapInv, NoAdvice, NoOutcome,
      DepositWithinLimits, OfferedSwapSucceeds, Swapped

LEMMA BeginSwapKeepsSwaps ==
  ASSUME FundsTypes, ResolveInv, NEW funds, NEW r, BeginSwap(funds, r)
  PROVE  Swaps'
<1> DEFINE advised == advice.about = "swap" /\ advice.funds = funds /\ advice.rate = r
<1>1. /\ call' = [NoCall EXCEPT !.goal = "swap", !.funds = funds, !.at = "address",
                                !.amount = AmountOf(funds), !.rate = r, !.advised = advised]
      /\ disturbed' = IF advised THEN disturbed ELSE {}
      /\ advice' = NoAdvice /\ outcome' = NoOutcome /\ UNCHANGED worldVars
  BY DEF BeginSwap
<1>2. /\ call'.goal = "swap" /\ call'.funds = funds /\ call'.at = "address"
      /\ call'.amount = AmountOf(funds) /\ call'.rate = r /\ call'.advised = advised
  <2> HIDE DEF advised
  <2> QED BY <1>1 DEF NoCall
<1>3. UNCHANGED <<channels, closed, swaps>>
  BY <1>1 DEF worldVars
<1>4. Current(call.funds, call.amount)'
  BY <1>2, <1>3, SameWorld DEF Current, AmountOf
<1>5. advised /\ Undisturbed' => Stands(call.funds, call.rate)'
  <2> SUFFICES ASSUME advised, Undisturbed'
               PROVE  Stands(call.funds, call.rate)'
    OBVIOUS
  <2>1. Undisturbed
    BY <1>1 DEF Undisturbed, Still
  <2>2. Stands(advice.funds, advice.rate)
    BY <2>1 DEF ResolveInv, DetermineInv
  <2>3. Stands(funds, r)
    BY <2>2
  <2> QED
    BY <1>2, <1>3, <2>3, SameWorld
<1>6. SwapsFit'
  BY <1>3 DEF ResolveInv, SwapsFit
<1> HIDE DEF advised
<1> QED
  BY <1>1, <1>2, <1>4, <1>5, <1>6
  DEF Swaps, ResolveInv, AmountInv, DetermineInv, SwapInv, NoAdvice, NoOutcome,
      DepositWithinLimits, OfferedSwapSucceeds, Swapped

LEMMA AskingKeepsSwaps ==
  ASSUME FundsTypes, ResolveInv, AskAddress \/ AskRate \/ AskPrepare
  PROVE  Swaps'
<1>1. /\ call.goal \in {"determine", "list", "sweep"} /\ outcome = NoOutcome /\ advice = NoAdvice
      /\ UNCHANGED <<advice, disturbed, outcome>> /\ UNCHANGED <<channels, closed, swaps>>
  BY DEF AskAddress, AskRate, AskPrepare, Determines, FundsTypes, CallTypes, Idle, worldVars
<1>2. /\ call'.goal = call.goal /\ call'.funds = call.funds /\ call'.amount = call.amount
      /\ \/ call'.at = "rate" /\ call'.open \in {FALSE, ~SwapInProgress}
         \/ call.at = "rate" /\ call'.at = "prepare" /\ call'.open = call.open
         \/ /\ call.at = "prepare" /\ call'.at = "fee" /\ call'.open = call.open
            /\ CanResolve(call.funds, call.amount, call.rate)
            /\ call'.rate = call.rate
            /\ call'.sent = SweptAmount(call.funds, call.amount, call.rate)
  BY DEF AskAddress, AskRate, AskPrepare, FundsTypes, CallTypes, CallSet
<1>3. SwapInProgress' = SwapInProgress /\ OnchainBalance' = OnchainBalance /\ swaps' = swaps
  BY <1>1, SameWorld
<1>4. AmountInv'
  BY <1>1, <1>2, <1>3 DEF ResolveInv, AmountInv, Current, Still
<1>5. DetermineInv'
  <2>1. call'.goal = "determine" /\ call'.at = "fee" =>
          /\ CanResolve(call.funds, call.amount, call.rate)'
          /\ call'.sent = SweptAmount(call.funds, call.amount, call.rate)'
    BY <1>1, <1>2, SameWorld
  <2> QED
    BY <1>1, <1>2, <1>3, <2>1 DEF ResolveInv, DetermineInv, NoAdvice, Still
<1>6. SwapInv' /\ SwapsFit'
  BY <1>1, <1>2 DEF ResolveInv, SwapInv, SwapsFit
<1> QED
  BY <1>1, <1>4, <1>5, <1>6
  DEF Swaps, ResolveInv, NoOutcome, DepositWithinLimits, OfferedSwapSucceeds, Swapped

\* An offer is made for what there still is.
LEMMA DetermineKeepsSwaps ==
  ASSUME FundsTypes, ResolveInv, NothingFound \/ Determine
  PROVE  Swaps'
<1> DEFINE offer == [about |-> "swap", funds |-> call.funds, rate |-> call.rate,
                     fee |-> ShownOpeningFee(call.amount)]
<1>1. /\ call.goal = "determine"
      /\ call' = NoCall /\ outcome' = NoOutcome /\ UNCHANGED <<channels, closed, swaps>>
      /\ \/ advice' = NoAdvice
         \/ /\ advice' = offer /\ call.at = "fee"
            /\ Offers(call.sent, call.amount, call.open)
      /\ advice' # NoAdvice => disturbed' = disturbed
  BY DEF NothingFound, Determine, Says, At, worldVars
<1>2. SwapsFit'
  BY <1>1 DEF ResolveInv, SwapsFit
<1>3. ASSUME advice' = offer, call.at = "fee", Offers(call.sent, call.amount, call.open),
             Undisturbed'
      PROVE  Stands(advice.funds, advice.rate)'
  <2>1. Undisturbed
    BY <1>1, <1>3 DEF Undisturbed, Still, NoAdvice
  <2>2. call.open
    BY <1>3 DEF Offers
  <2>3. ~SwapInProgress
    BY <1>1, <1>3, <2>1, <2>2 DEF ResolveInv, DetermineInv, Undisturbed, Still
  <2>4. call.amount = AmountOf(call.funds)
    BY <1>1, <2>1 DEF ResolveInv, AmountInv, Current, AmountOf, Undisturbed, Still
  <2>5. /\ CanResolve(call.funds, call.amount, call.rate)
        /\ call.sent = SweptAmount(call.funds, call.amount, call.rate)
    BY <1>1, <1>3, <2>1 DEF ResolveInv, DetermineInv
  <2>6. Stands(call.funds, call.rate)
    BY <1>3, <2>2, <2>3, <2>4, <2>5 DEF Stands, Offers
  <2> QED
    BY <1>1, <1>3, <2>6, SameWorld
<1>4. DetermineInv'
  BY <1>1, <1>3 DEF DetermineInv, NoCall, NoAdvice
<1> QED
  BY <1>1, <1>2, <1>4
  DEF Swaps, ResolveInv, AmountInv, SwapInv, NoCall, NoOutcome, DepositWithinLimits,
      OfferedSwapSucceeds, Swapped

\* swap() goes on, and refuses what was offered in the one case there is.
LEMMA SwapStepKeepsSwaps ==
  ASSUME FundsTypes, ResolveInv, CreateAddress \/ PrepareSwap \/ AskOpeningFee
  PROVE  Swaps'
<1>1. /\ call.goal = "swap" /\ outcome = NoOutcome /\ advice = NoAdvice
      /\ UNCHANGED <<channels, closed, swaps>>
  BY DEF CreateAddress, PrepareSwap, AskOpeningFee, At, GoesTo, worldVars, FundsTypes, CallTypes,
         Idle
<1>2. WorldTypes /\ call.amount \in Nat /\ call.rate \in Nat /\ call.funds \in Funds
  BY DEF FundsTypes, CallTypes, CallSet
<1>3. Inbound' = Inbound /\ OnchainBalance' = OnchainBalance
  BY <1>1, SameWorld
<1>4. SwapsFit'
  BY <1>1 DEF ResolveInv, SwapsFit
<1> DEFINE sent == SwappedAmount(call.funds, call.amount, call.rate)
<1>5. sent \in Nat
  BY <1>2, SwappedIsNat
<1>6. ASSUME NEW step \in {"prepare", "fee", "send"}, NEW told,
             call' = [call EXCEPT !.at = step, !.sent = told],
             UNCHANGED <<advice, disturbed, outcome>>,
             step = "prepare" => call.at = "address",
             step = "fee" => call.at = "prepare",
             step # "prepare" => told = sent /\ sent \in MinDeposit..MaxDeposit,
             step = "send" => sent > OpeningFee(sent, Inbound, LongerTerms)
      PROVE  Swaps'
  <2>1. /\ call'.goal = "swap" /\ call'.at = step /\ call'.funds = call.funds
        /\ call'.amount = call.amount /\ call'.rate = call.rate /\ call'.advised = call.advised
        /\ call'.sent = told
    BY <1>1, <1>6 DEF FundsTypes, CallTypes, CallSet
  <2>2. AmountInv'
    BY <1>1, <1>3, <1>6, <2>1 DEF ResolveInv, AmountInv, Current, Still
  <2>3. DetermineInv'
    BY <1>1, <1>6, <2>1 DEF DetermineInv, NoAdvice
  <2>4. step # "send" /\ call'.advised /\ Undisturbed' => Stands(call.funds, call.rate)'
    <3>1. step # "send" /\ call.advised /\ Undisturbed => Stands(call.funds, call.rate)
      BY <1>1, <1>6 DEF ResolveInv, SwapInv
    <3>2. Undisturbed' = Undisturbed
      BY <1>6 DEF Undisturbed, Still
    <3> QED
      BY <1>1, <2>1, <3>1, <3>2, SameWorld
  <2>5. SwappedAmount(call.funds, call.amount, call.rate)' = sent
    BY <2>1 DEF SwappedAmount
  <2> HIDE DEF sent
  <2>6. SwapInv'
    BY <1>3, <1>6, <2>1, <2>4, <2>5 DEF SwapInv
  <2> QED
    BY <1>1, <1>4, <1>6, <2>2, <2>3, <2>6
    DEF Swaps, ResolveInv, NoOutcome, DepositWithinLimits, OfferedSwapSucceeds, Swapped
<1>7. ASSUME Ends(Refused),
             call.advised /\ Undisturbed =>
               /\ call.funds = Closes
               /\ \/ sent > MaxDeposit
                  \/ sent < MinDeposit
                  \/ sent <= OpeningFee(sent, Inbound, LongerTerms)
      PROVE  Swaps'
  <2>1. Refused # NoOutcome
    BY DEF Refused, NoOutcome
  <2>2. /\ call' = NoCall /\ advice' = NoAdvice /\ disturbed' = disturbed
        /\ outcome' = [goal |-> "swap", funds |-> call.funds, rate |-> call.rate,
                       sent |-> FALSE, sats |-> sent, advised |-> call.advised]
    BY <1>7, <2>1 DEF Ends, Refused
  <2> HIDE DEF sent
  <2>3. ResolveInv'
    BY <1>4, <2>2, NothingPending DEF NoCall
  <2>4. Undisturbed' = Undisturbed
    BY <2>2 DEF Undisturbed, Still
  <2>5. OfferedSwapSucceeds'
    BY <1>3, <1>7, <2>2, <2>4 DEF OfferedSwapSucceeds, Swapped, Undisturbed
  <2>6. DepositWithinLimits'
    BY <2>2 DEF DepositWithinLimits, Swapped
  <2> QED
    BY <2>3, <2>5, <2>6 DEF Swaps
<1>8. call.at \in {"address", "prepare", "fee"} /\ call.advised /\ Undisturbed
        => Stands(call.funds, call.rate) /\ Current(call.funds, call.amount)
  BY <1>1 DEF ResolveInv, AmountInv, SwapInv
<1>9. ASSUME call.at \in {"prepare", "fee"}, call.advised, Undisturbed, call.funds # Closes
      PROVE  /\ Accepts(call.funds, call.amount, call.rate)
             /\ sent > OpeningFee(sent, Inbound, LongerTerms)
  <2>1. Stands(call.funds, call.rate) /\ Current(call.funds, call.amount)
    BY <1>8, <1>9
  <2>2. call.funds \in DOMAIN swaps
    BY <1>2, <1>9 DEF Funds
  <2>3. call.amount = Msats(swaps[call.funds].sats)
    BY <1>9, <2>1 DEF Current
  <2> QED
    BY <1>2, <2>1, <2>2, <2>3, OfferIsAccepted DEF ResolveInv
<1>10. CASE CreateAddress
  <2>1. call.at = "address"
    BY <1>10 DEF CreateAddress, At
  <2>2. CASE GoesTo("prepare")
    <3>1. call' = [call EXCEPT !.at = "prepare", !.sent = call.sent]
      BY <2>2 DEF GoesTo, FundsTypes, CallTypes, CallSet
    <3> QED
      BY <1>6, <2>1, <2>2, <3>1 DEF GoesTo
  <2>3. CASE SwapInProgress /\ Ends(Refused)
    <3>1. ~(call.advised /\ Undisturbed)
      BY <1>8, <2>1, <2>3 DEF Stands
    <3> QED
      BY <1>7, <2>3, <3>1
  <2> QED
    BY <1>10, <2>2, <2>3 DEF CreateAddress
<1>11. CASE PrepareSwap
  <2>1. call.at = "prepare"
    BY <1>11 DEF PrepareSwap, At
  <2>2. CASE /\ Accepts(call.funds, call.amount, call.rate)
             /\ call' = [call EXCEPT !.at = "fee", !.sent = sent]
             /\ UNCHANGED <<advice, disturbed, outcome>>
    <3>1. sent \in MinDeposit..MaxDeposit
      BY <1>5, <2>2, BreezServicesAssumption DEF Accepts
    <3> HIDE DEF sent
    <3> QED
      BY <1>6, <2>1, <2>2, <3>1
  <2>3. CASE ~Accepts(call.funds, call.amount, call.rate) /\ Ends(Refused)
    <3>1. ASSUME call.advised, Undisturbed
          PROVE  call.funds = Closes /\ (sent > MaxDeposit \/ sent < MinDeposit)
      <4>1. call.funds = Closes
        BY <1>9, <2>1, <2>3, <3>1
      <4>2. CanRedeem(call.rate)
        BY <1>8, <2>1, <3>1, <4>1 DEF Stands, CanResolve, CanPrepare
      <4> QED
        BY <1>5, <2>3, <4>1, <4>2, BreezServicesAssumption DEF Accepts
    <3> QED
      BY <1>7, <2>3, <3>1
  <2> QED
    BY <1>11, <2>2, <2>3 DEF PrepareSwap
<1>12. CASE AskOpeningFee
  <2>1. call.at = "fee" /\ call.sent = sent /\ sent \in MinDeposit..MaxDeposit
    BY <1>1, <1>12 DEF AskOpeningFee, At, ResolveInv, SwapInv
  <2>2. CASE call.sent > OpeningFee(call.sent, Inbound, LongerTerms) /\ GoesTo("send")
    <3>1. call' = [call EXCEPT !.at = "send", !.sent = sent]
      BY <2>1, <2>2 DEF GoesTo, FundsTypes, CallTypes, CallSet
    <3> HIDE DEF sent
    <3> QED
      BY <1>6, <2>1, <2>2, <3>1 DEF GoesTo
  <2>3. CASE call.sent <= OpeningFee(call.sent, Inbound, LongerTerms) /\ Ends(Refused)
    <3>1. OpeningFee(sent, Inbound, LongerTerms) \in Nat
      BY <1>2, <1>5, OpeningFeeGrows
    <3>2. ~(sent > OpeningFee(sent, Inbound, LongerTerms))
      <4> HIDE DEF sent
      <4> QED BY <1>5, <2>1, <2>3, <3>1
    <3>3. call.advised /\ Undisturbed => call.funds = Closes
      BY <1>9, <2>1, <3>2
    <3> HIDE DEF sent
    <3> QED
      BY <1>7, <2>1, <2>3, <3>3
  <2> QED
    BY <1>12, <2>2, <2>3 DEF AskOpeningFee
<1> QED
  BY <1>10, <1>11, <1>12
\* What swap() and sweep() leave of the swaps.
LEMMA SentSwapsFit ==
  ASSUME FundsTypes, SwapsFit, AmountsFit, CanSend, swaps' \in {Refunded, Deposited(Refunded, Sent)}
  PROVE  SwapsFit'
<1>1. WorldTypes /\ Sent < Width
  BY SentFits DEF FundsTypes
<1>2. Refunded \in Seq([status : Statuses, sats : Nat])
      /\ \A i \in DOMAIN Refunded : Refunded[i].sats < Width
  <2>1. CASE call.funds = Closes
    BY <1>1, <2>1 DEF Refunded, WorldTypes, SwapsFit
  <2>2. CASE call.funds # Closes
    <3>1. call.funds \in DOMAIN swaps
      BY <2>2 DEF FundsTypes, CallTypes, Funds
    <3>2. swaps[call.funds] \in [status : Statuses, sats : Nat]
      BY <1>1, <3>1, SwapRecords
    <3>3. /\ [swaps[call.funds] EXCEPT !.status = "refunded"] \in [status : Statuses, sats : Nat]
          /\ [swaps[call.funds] EXCEPT !.status = "refunded"].sats = swaps[call.funds].sats
      BY <3>2 DEF Statuses
    <3>4. Refunded = [swaps EXCEPT ![call.funds] =
                        [swaps[call.funds] EXCEPT !.status = "refunded"]]
      BY <1>1, <2>2, <3>1 DEF Refunded, WorldTypes
    <3>5. call.funds \in 1..Len(swaps) /\ swaps \in Seq([status : Statuses, sats : Nat])
      BY <1>1, <3>1 DEF WorldTypes
    <3>6. Refunded \in Seq([status : Statuses, sats : Nat])
      BY <3>3, <3>4, <3>5
    <3>7. ASSUME NEW i \in DOMAIN Refunded
          PROVE  Refunded[i].sats < Width
      <4>1. i \in DOMAIN swaps /\ Refunded[i].sats = swaps[i].sats
        BY <3>1, <3>3, <3>4, <3>5
      <4> QED
        BY <4>1 DEF SwapsFit
    <3> QED
      BY <3>6, <3>7
  <2> QED
    BY <2>1, <2>2
<1>3. Sent \in Nat
  <2>1. /\ OnchainBalance \in Nat /\ call.rate \in Nat
        /\ call.funds # Closes => swaps[call.funds].sats \in Nat
    BY <1>1, Balances, SwapRecords DEF FundsTypes, CallTypes, CallSet, Funds
  <2> QED
    BY <2>1 DEF CanSend, Sent, Redeemed, TxFee, Reserve
<1>4. CASE swaps' = Refunded
  BY <1>2, <1>4 DEF SwapsFit
<1>5. CASE swaps' = Deposited(Refunded, Sent)
  <2> DEFINE new == [status |-> "waiting", sats |-> Sent]
  <2>1. new \in [status : Statuses, sats : Nat] /\ new.sats = Sent
    BY <1>3 DEF Statuses
  <2>2. swaps' = Append(Refunded, new)
    BY <1>5 DEF Deposited
  <2> HIDE DEF new
  <2>3. ASSUME NEW i \in DOMAIN swaps'
        PROVE  swaps'[i].sats < Width
    <3>1. /\ Len(Append(Refunded, new)) = Len(Refunded) + 1 /\ Len(Refunded) \in Nat
          /\ \A j \in 1..Len(Refunded) : Append(Refunded, new)[j] = Refunded[j]
          /\ Append(Refunded, new)[Len(Refunded) + 1] = new
          /\ Append(Refunded, new) \in Seq([status : Statuses, sats : Nat])
      BY <1>2, <2>1, AppendProperties
    <3>2. i \in 1..(Len(Refunded) + 1)
      BY <2>2, <3>1
    <3>3. CASE i = Len(Refunded) + 1
      BY <1>1, <2>1, <2>2, <3>1, <3>3
    <3>4. CASE i \in 1..Len(Refunded)
      BY <1>2, <2>2, <3>1, <3>4
    <3> QED
      BY <3>1, <3>2, <3>3, <3>4
  <2> QED
    BY <2>3 DEF SwapsFit
<1> QED
  BY <1>4, <1>5

LEMMA SendingKeepsSwaps ==
  ASSUME FundsTypes, ResolveInv, AmountsFit, SendSwap \/ Sweep
  PROVE  Swaps'
<1>1. SwapsFit'
  <2>1. swaps' \in {Refunded, Deposited(Refunded, Sent)} /\ CanSend
    BY DEF SendSwap, Sweep
  <2> QED
    BY <2>1, SentSwapsFit DEF ResolveInv
<1>2. CASE Sweep
  <2>1. call' = NoCall /\ advice' = NoAdvice /\ outcome' = NoOutcome
    BY <1>2 DEF Sweep, Ends
  <2>2. ResolveInv'
    BY <1>1, <2>1, NothingPending DEF NoCall
  <2> QED
    BY <2>1, <2>2 DEF Swaps, NoOutcome, DepositWithinLimits, OfferedSwapSucceeds, Swapped
<1>3. CASE SendSwap
  <2> DEFINE result == [Refused EXCEPT !.sent = TRUE, !.sats = Sent]
  <2>1. /\ call.goal = "swap" /\ call.at = "send" /\ CanSend
        /\ Ends(result) /\ channels' = channels
    BY <1>3 DEF SendSwap, At
  <2>2. /\ result.goal = "swap" /\ result.funds = call.funds /\ result.sent = TRUE
        /\ result.sats = Sent /\ result # NoOutcome
    BY DEF Refused, NoOutcome
  <2> HIDE DEF result
  <2>3. call' = NoCall /\ advice' = NoAdvice /\ outcome' = result /\ disturbed' = disturbed
    BY <2>1, <2>2 DEF Ends
  <2>4. ResolveInv'
    BY <1>1, <2>3, NothingPending DEF NoCall
  <2>5. Inbound' = Inbound
    BY <2>1 DEF Inbound, Rooms
  <2>6. ASSUME call.funds # Closes \/ Still({"funds"})
        PROVE  /\ Sent \in MinDeposit..MaxDeposit
               /\ Still({"channels"}) => Sent > OpeningFee(Sent, Inbound, LongerTerms)
    <3>1. Sent = SwappedAmount(call.funds, call.amount, call.rate)
      BY <2>1, <2>6, SentAsAccepted DEF ResolveInv, AmountInv
    <3> QED
      BY <2>1, <3>1 DEF ResolveInv, SwapInv
  <2>7. DepositWithinLimits'
    BY <2>2, <2>3, <2>5, <2>6, BreezServicesAssumption DEF DepositWithinLimits, Swapped, Still
  <2>8. OfferedSwapSucceeds'
    BY <2>2, <2>3 DEF OfferedSwapSucceeds, Swapped
  <2> QED
    BY <2>4, <2>7, <2>8 DEF Swaps
<1> QED
  BY <1>2, <1>3

\* Calls that are not about funds on the chain.
LEMMA OthersKeepSwaps ==
  ASSUME FundsTypes, ResolveInv, Use \/ List \/ CallFails \/ PrepareSweep
  PROVE  Swaps'
<1>1. \A result : Ends(result) => advice' = NoAdvice
  BY DEF Ends
<1>2. ~Idle => advice = NoAdvice
  BY DEF FundsTypes, CallTypes
<1>3. ~BeginList => advice' = NoAdvice /\ swaps' = swaps
  <2>1. CASE Use
    <3>1. CASE \/ \E amount \in Payments : AskPayment(amount) \/ AskReceive(amount)
               \/ AskClear
      BY <3>1 DEF AskPayment, AskReceive, AskClear, Asks, worldVars
    <3>2. CASE Pay \/ Receive \/ ClearWallet
      <4>1. swaps' = swaps
        BY <3>2 DEF Pay, Receive, ClearWallet, ReceivePayment, SendPayment, worldVars
      <4>2. \E result : Ends(result)
        BY <3>2 DEF Pay, Receive, ClearWallet
      <4> QED
        BY <1>1, <4>1, <4>2
    <3>3. CASE PrepareClear
      BY <1>2, <3>3 DEF PrepareClear, At, Idle, worldVars
    <3> QED
      BY <2>1, <3>1, <3>2, <3>3 DEF Use
  <2>2. CASE CallFails
    BY <1>1, <2>2 DEF CallFails, worldVars
  <2>3. CASE PrepareSweep
    BY <1>2, <2>3 DEF PrepareSweep, At, Idle, GoesTo, worldVars
  <2>4. CASE List /\ ~BeginList
    <3>1. CASE ListSwaps \/ \E swap \in 1..MaxSwaps : TryHiddenSwap(swap)
      BY <1>2, <3>1 DEF ListSwaps, TryHiddenSwap, At, Idle, GoesTo, worldVars
    <3>2. CASE ListCloses \/ ListHiddenCloses
      BY <1>1, <1>2, <3>2 DEF ListCloses, ListHiddenCloses, At, Idle, Listed, worldVars
    <3>3. CASE HideCloses \/ \E swap \in 1..MaxSwaps : HideSwap(swap)
      BY <1>1, <3>3 DEF HideCloses, HideSwap, worldVars
    <3> QED
      BY <2>4, <3>1, <3>2, <3>3 DEF List
  <2> QED
    BY <2>1, <2>2, <2>3, <2>4
<1>4. CASE BeginList
  BY <1>4, BeginKeepsSwaps DEF BeginList
<1>5. CASE ~BeginList
  <2>1. call'.goal \notin {"determine", "swap"} /\ outcome'.goal # "swap"
    <3>1. PrepareSweep => call'.goal = "sweep" /\ outcome'.goal = "none"
      BY DEF PrepareSweep, At, GoesTo, FundsTypes, CallTypes, Idle, NoOutcome
    <3> QED
      BY <3>1, UseOutcomes, ListOutcomes, FailingOutcome
  <2>2. SwapsFit'
    BY <1>3, <1>5 DEF ResolveInv, SwapsFit
  <2>3. ResolveInv'
    BY <1>3, <1>5, <2>1, <2>2, NothingPending
  <2> QED
    BY <2>1, <2>3 DEF Swaps, DepositWithinLimits, OfferedSwapSucceeds, Swapped
<1> QED
  BY <1>4, <1>5

LEMMA NextKeepsSwaps ==
  ASSUME FundsTypes, Swaps, AmountsFit, [FundsNext]_fundsVars
  PROVE  Swaps'
<1>0. ResolveInv
  BY DEF Swaps
<1>1. CASE World
  BY <1>0, <1>1, WorldKeepsSwaps
<1>2. CASE Resolve
  <2>1. CASE \E funds \in Unresolved : BeginDetermine(funds) \/ BeginSweep(funds)
    BY <1>0, <2>1, BeginKeepsSwaps DEF BeginDetermine, BeginSweep
  <2>2. CASE \E funds \in Unresolved, r \in Rates : BeginSwap(funds, r)
    BY <1>0, <2>2, BeginSwapKeepsSwaps
  <2> QED
    BY <1>0, <1>2, <2>1, <2>2, AskingKeepsSwaps, DetermineKeepsSwaps, SwapStepKeepsSwaps,
       SendingKeepsSwaps, OthersKeepSwaps DEF Resolve
<1>3. CASE Use \/ List \/ CallFails
  BY <1>0, <1>3, OthersKeepSwaps
<1>4. CASE UNCHANGED fundsVars
  <2>1. UNCHANGED <<channels, closed, swaps, call, advice, outcome, disturbed>>
    BY <1>4 DEF fundsVars, worldVars, callVars
  <2>2. /\ Inbound' = Inbound /\ OnchainBalance' = OnchainBalance
        /\ SwapInProgress' = SwapInProgress
        /\ Stands(advice.funds, advice.rate)' = Stands(advice.funds, advice.rate)
        /\ Stands(call.funds, call.rate)' = Stands(call.funds, call.rate)
        /\ CanResolve(call.funds, call.amount, call.rate)' = CanResolve(call.funds, call.amount, call.rate)
        /\ SweptAmount(call.funds, call.amount, call.rate)'
             = SweptAmount(call.funds, call.amount, call.rate)
    BY <2>1, SameWorld
  <2> QED
    BY <2>1, <2>2 DEF Swaps, ResolveInv, AmountInv, DetermineInv, SwapInv, SwapsFit, Current,
                      Undisturbed, Still, DepositWithinLimits, OfferedSwapSucceeds, Swapped
<1> QED
  BY <1>1, <1>2, <1>3, <1>4 DEF FundsNext

LEMMA InitSwaps == FundsInit => Swaps
<1> SUFFICES ASSUME FundsInit PROVE Swaps
  OBVIOUS
<1>1. call = NoCall /\ advice = NoAdvice /\ outcome = NoOutcome /\ swaps = <<>>
  BY DEF FundsInit, WorldInit, OnchainInit
<1> QED
  BY <1>1 DEF NoCall, NoAdvice, NoOutcome, Swaps, ResolveInv, AmountInv, DetermineInv, SwapInv,
              SwapsFit, DepositWithinLimits, OfferedSwapSucceeds, Swapped

\* What swap() sends is within the limits of a swap and worth more than the
\* channel it may open, although it subtracts without a check: the wrapped
\* result of a subtraction is never what is sent.  The balance the SDK reports
\* is an integer of the width, as its type says.
THEOREM DepositsAreWithinLimits == FundsSpec /\ []AmountsFit => []DepositWithinLimits
<1>1. FundsTypes /\ Swaps /\ AmountsFit /\ [FundsNext]_fundsVars => Swaps'
  BY NextKeepsSwaps
<1>2. Swaps => DepositWithinLimits
  BY DEF Swaps
<1> QED
  BY InitSwaps, <1>1, <1>2, FundsAreTyped, PTL DEF FundsSpec

\* A swap that determine_resolving_fees offered is not refused in an unchanged
\* world, but for the reserve of closed channels.
THEOREM OfferedSwapsSucceed == FundsSpec /\ []AmountsFit => []OfferedSwapSucceeds
<1>1. FundsTypes /\ Swaps /\ AmountsFit /\ [FundsNext]_fundsVars => Swaps'
  BY NextKeepsSwaps
<1>2. Swaps => OfferedSwapSucceeds
  BY DEF Swaps
<1> QED
  BY InitSwaps, <1>1, <1>2, FundsAreTyped, PTL DEF FundsSpec
-----------------------------------------------------------------------------
(* Topups                                                                    *)

\* Each payment received is for an offer, or for something else.
Received == received \in Seq((1..MaxOffers) \cup {NoOffer})

LEMMA ReceivedIsKept ==
  ASSUME Received, [TopupNext]_topupVars
  PROVE  Received'
<1> DEFINE S == (1..MaxOffers) \cup {NoOffer}
<1>1. received \in Seq(S) /\ NoOffer \in S
  BY DEF Received
<1>2. ASSUME NEW o \in 1..MaxOffers, PayOut(o)
      PROVE  Received'
  <2>1. received' = Append(received, o) /\ o \in S
    BY <1>2 DEF PayOut
  <2> HIDE DEF S
  <2>2. received' \in Seq(S)
    BY <1>1, <2>1, AppendProperties
  <2> QED
    BY <2>2 DEF Received, S
<1>3. CASE ReceiveOther
  <2>1. received' = Append(received, NoOffer)
    BY <1>3 DEF ReceiveOther
  <2> HIDE DEF S
  <2>2. received' \in Seq(S)
    BY <1>1, <2>1, AppendProperties
  <2> QED
    BY <2>2 DEF Received, S
<1>4. CASE received' = received
  BY <1>4 DEF Received
<1>5. ASSUME NEW o \in 1..MaxOffers, Withdraw(o) \/ Dismiss(o) \/ SettleOffer(o)
      PROVE  received' = received
  BY <1>5 DEF Withdraw, Dismiss, SettleOffer
<1>6. CASE Register \/ Reset \/ HideOffer \/ StoreClaim \/ QueryOffers \/ ListOffers
  BY <1>4, <1>6 DEF Register, Reset, HideOffer, StoreClaim, QueryOffers, ListOffers
<1>7. CASE UNCHANGED topupVars
  BY <1>4, <1>7 DEF topupVars
<1> QED
  BY <1>2, <1>3, <1>4, <1>5, <1>6, <1>7 DEF TopupNext, Collect

\* The window a list looks at holds each of the latest payments.
LEMMA WindowHoldsLatest ==
  ASSUME Received, NEW i \in DOMAIN received, Len(received) - i < Latest
  PROVE  received[i] \in LatestReceived
<1> DEFINE S == (1..MaxOffers) \cup {NoOffer}
           n == Len(received)
           first == Max({1, n - Latest + 1})
           window == SubSeq(received, first, n)
<1>1. received \in Seq(S) /\ n \in Nat /\ i \in 1..n /\ Latest \in Nat
  BY FiatTopupAssumption DEF Received
<1>2. first \in Int /\ first >= 1 /\ first <= i
  <2>1. n - Latest + 1 \in Int /\ 1 \in Int
    BY <1>1
  <2>2. first \in {1, n - Latest + 1} /\ first >= 1
    <3> HIDE DEF n
    <3> QED BY <2>1, MaxOfTwo, Zenon
  <2> HIDE DEF first
  <2> QED
    BY <1>1, <2>1, <2>2
<1> HIDE DEF first, S
<1>3. window = [j \in 1..(n - first + 1) |-> received[j + first - 1]]
  BY <1>1, <1>2
<1>4. i - first + 1 \in 1..(n - first + 1) /\ (i - first + 1) + first - 1 = i
  BY <1>1, <1>2
<1>5. window[i - first + 1] = received[i] /\ i - first + 1 \in DOMAIN window
  BY <1>3, <1>4
<1> HIDE DEF window
<1>6. received[i] \in Range(window)
  BY <1>5 DEF Range
<1> QED
  BY <1>6 DEF window, first, LatestReceived

Offer == [status : {"ready", "failed", "refunded", "settled"}, hidden : BOOLEAN]

HiddenOffers == {o \in DOMAIN offers : offers[o].hidden}

\* A collection works on an offer there is, and hides it before it is known to
\* be claimed.
CollectInv ==
  /\ offers \in Seq(Offer)
  /\ collecting \in [offer : Nat \cup {NoOffer}, at : {"done", "hide", "store"}]
  /\ collecting.at = "hide" => collecting.offer \in DOMAIN offers
  /\ collecting.at = "store" => collecting.offer \in HiddenOffers
  /\ claims \subseteq HiddenOffers

\* What was known to be claimed is not found.
FoundInv == listing.at = "payments" => listing.known \cap listing.found = {}

TopupInv == Received /\ CollectInv /\ FoundInv

LEMMA HidingKeepsOffers ==
  ASSUME CollectInv, NEW o \in DOMAIN offers,
         offers' = [offers EXCEPT ![o].hidden = TRUE]
  PROVE  /\ offers' \in Seq(Offer) /\ DOMAIN offers' = DOMAIN offers
         /\ HiddenOffers \cup {o} \subseteq HiddenOffers'
<1>1. offers \in Seq(Offer) /\ o \in 1..Len(offers) /\ offers[o] \in Offer
  BY DEF CollectInv
<1>2. /\ [offers[o] EXCEPT !.hidden = TRUE] \in Offer
      /\ [offers[o] EXCEPT !.hidden = TRUE].hidden
  BY <1>1 DEF Offer
<1>3. offers' = [offers EXCEPT ![o] = [offers[o] EXCEPT !.hidden = TRUE]]
  BY <1>1
<1> QED
  BY <1>1, <1>2, <1>3 DEF HiddenOffers

\* Whatever becomes of the offers, those that are hidden stay so.
LEMMA OffersStayHidden ==
  ASSUME CollectInv, TopupNext
  PROVE  /\ offers' \in Seq(Offer) /\ DOMAIN offers \subseteq DOMAIN offers'
         /\ HiddenOffers \subseteq HiddenOffers'
<1>0. offers \in Seq(Offer)
  BY DEF CollectInv
<1>1. CASE UNCHANGED offers
  BY <1>0, <1>1 DEF HiddenOffers
<1>2. CASE Register
  <2>1. PICK new \in Offer : offers' = Append(offers, new)
    <3>1. PICK status \in {"ready", "failed", "refunded"} :
            offers' = Append(offers, [status |-> status, hidden |-> FALSE])
      BY <1>2 DEF Register
    <3>2. [status |-> status, hidden |-> FALSE] \in Offer
      BY DEF Offer
    <3> QED
      BY <3>1, <3>2
  <2>2. /\ Append(offers, new) \in Seq(Offer) /\ Len(offers) \in Nat
        /\ Len(Append(offers, new)) = Len(offers) + 1
        /\ \A i \in 1..Len(offers) : Append(offers, new)[i] = offers[i]
    BY <1>0, AppendProperties
  <2>3. DOMAIN offers = 1..Len(offers) /\ DOMAIN offers' = 1..(Len(offers) + 1)
    BY <1>0, <2>1, <2>2
  <2> QED
    BY <2>1, <2>2, <2>3 DEF HiddenOffers
<1>3. CASE HideOffer
  <2>1. \/ UNCHANGED offers
        \/ /\ collecting.offer \in DOMAIN offers
           /\ offers' = [offers EXCEPT ![collecting.offer].hidden = TRUE]
    BY <1>3 DEF HideOffer, CollectInv
  <2> QED
    BY <1>1, <2>1, HidingKeepsOffers
<1>4. ASSUME NEW o \in 1..MaxOffers, Dismiss(o)
      PROVE  /\ offers' \in Seq(Offer) /\ DOMAIN offers \subseteq DOMAIN offers'
             /\ HiddenOffers \subseteq HiddenOffers'
  BY <1>4, HidingKeepsOffers DEF Dismiss
<1>5. ASSUME NEW o \in 1..MaxOffers, SettleOffer(o)
      PROVE  /\ offers' \in Seq(Offer) /\ DOMAIN offers \subseteq DOMAIN offers'
             /\ HiddenOffers \subseteq HiddenOffers'
  <2>1. offers' = [offers EXCEPT ![o].status = "settled"]
    BY <1>5 DEF SettleOffer
  <2>2. CASE o \notin DOMAIN offers
    <3>1. offers' = offers
      BY <1>0, <2>1, <2>2
    <3> QED
      BY <1>1, <3>1
  <2>3. CASE o \in DOMAIN offers
    <3>1. o \in 1..Len(offers) /\ offers[o] \in Offer
      BY <1>0, <2>3
    <3>2. /\ [offers[o] EXCEPT !.status = "settled"] \in Offer
          /\ [offers[o] EXCEPT !.status = "settled"].hidden = offers[o].hidden
      BY <3>1 DEF Offer
    <3>3. offers' = [offers EXCEPT ![o] = [offers[o] EXCEPT !.status = "settled"]]
      BY <1>0, <2>1, <3>1
    <3> QED
      BY <1>0, <3>1, <3>2, <3>3 DEF HiddenOffers
  <2> QED
    BY <2>2, <2>3
<1>6. ASSUME NEW o \in 1..MaxOffers, Withdraw(o) \/ PayOut(o)
      PROVE  UNCHANGED offers
  BY <1>6 DEF Withdraw, PayOut
<1>7. CASE Reset \/ StoreClaim \/ ReceiveOther \/ QueryOffers \/ ListOffers
  BY <1>1, <1>7 DEF Reset, StoreClaim, ReceiveOther, QueryOffers, ListOffers
<1> QED
  BY <1>1, <1>2, <1>3, <1>4, <1>5, <1>6, <1>7 DEF TopupNext, Collect

LEMMA CollectionIsKept ==
  ASSUME CollectInv, TopupNext
  PROVE  CollectInv'
<1>0. /\ offers' \in Seq(Offer) /\ DOMAIN offers \subseteq DOMAIN offers'
      /\ HiddenOffers \subseteq HiddenOffers'
      /\ collecting \in [offer : Nat \cup {NoOffer}, at : {"done", "hide", "store"}]
  BY OffersStayHidden DEF CollectInv
<1>1. CASE UNCHANGED <<collecting, claims>>
  BY <1>0, <1>1 DEF CollectInv
<1>2. ASSUME NEW o \in 1..MaxOffers, Withdraw(o)
      PROVE  CollectInv'
  <2>1. /\ o \in DOMAIN offers /\ o \in Nat /\ claims' = claims
        /\ collecting' = collecting \/ collecting' = [offer |-> o, at |-> "hide"]
    BY <1>2 DEF Withdraw
  <2> QED
    BY <1>0, <1>1, <2>1 DEF CollectInv
<1>3. CASE HideOffer
  <2>1. collecting.at = "hide" /\ collecting.offer \in DOMAIN offers /\ claims' = claims
    BY <1>3 DEF HideOffer, CollectInv
  <2>2. CASE collecting' = [collecting EXCEPT !.at = AfterFailedHide]
    BY <1>0, <2>1, <2>2 DEF CollectInv, AfterFailedHide
  <2>3. CASE /\ collecting' = [collecting EXCEPT !.at = "store"]
             /\ offers' = [offers EXCEPT ![collecting.offer].hidden = TRUE]
    <3>1. collecting.offer \in HiddenOffers'
      BY <2>1, <2>3, HidingKeepsOffers
    <3>2. /\ collecting'.offer = collecting.offer /\ collecting'.at = "store"
          /\ collecting' \in [offer : Nat \cup {NoOffer}, at : {"done", "hide", "store"}]
      BY <1>0, <2>3
    <3> QED
      BY <1>0, <2>1, <3>1, <3>2 DEF CollectInv
  <2> QED
    BY <1>3, <2>2, <2>3 DEF HideOffer
<1>4. CASE StoreClaim
  <2>1. /\ collecting.offer \in HiddenOffers
        /\ claims' \subseteq claims \cup {collecting.offer}
        /\ collecting' = [collecting EXCEPT !.at = "done"]
    BY <1>4 DEF StoreClaim, CollectInv
  <2>2. /\ collecting'.at = "done"
        /\ collecting' \in [offer : Nat \cup {NoOffer}, at : {"done", "hide", "store"}]
    BY <1>0, <2>1
  <2> QED
    BY <1>0, <2>1, <2>2 DEF CollectInv
<1>5. ASSUME NEW o \in 1..MaxOffers, Dismiss(o) \/ PayOut(o) \/ SettleOffer(o)
      PROVE  UNCHANGED <<collecting, claims>>
  BY <1>5 DEF Dismiss, PayOut, SettleOffer
<1>6. CASE Register \/ Reset \/ ReceiveOther \/ QueryOffers \/ ListOffers
  BY <1>1, <1>6 DEF Register, Reset, ReceiveOther, QueryOffers, ListOffers
<1> QED
  BY <1>1, <1>2, <1>3, <1>4, <1>5, <1>6 DEF TopupNext, Collect

\* The steps of a list.
LEMMA ListingSteps ==
  ASSUME TopupNext
  PROVE  listing' = listing \/ QueryOffers \/ ListOffers
<1>1. ASSUME NEW o \in 1..MaxOffers, Withdraw(o) \/ Dismiss(o) \/ PayOut(o) \/ SettleOffer(o)
      PROVE  listing' = listing
  BY <1>1 DEF Withdraw, Dismiss, PayOut, SettleOffer
<1>2. CASE Register \/ Reset \/ HideOffer \/ StoreClaim \/ ReceiveOther
  BY <1>2 DEF Register, Reset, HideOffer, StoreClaim, ReceiveOther
<1> QED
  BY <1>1, <1>2 DEF TopupNext, Collect

LEMMA TopupsAreKept ==
  ASSUME TopupInv, [TopupNext]_topupVars
  PROVE  TopupInv'
<1>1. Received'
  BY ReceivedIsKept DEF TopupInv
<1>2. CASE UNCHANGED topupVars
  BY <1>1, <1>2 DEF TopupInv, topupVars, CollectInv, FoundInv, HiddenOffers
<1>3. CASE TopupNext
  <2>1. CollectInv'
    BY <1>3, CollectionIsKept DEF TopupInv
  <2>2. CASE listing' = listing
    BY <1>1, <2>1, <2>2 DEF TopupInv, FoundInv
  <2>3. CASE QueryOffers
    <3>1. listing' = [at |-> "payments", found |-> Uncompleted, known |-> claims]
      BY <2>3 DEF QueryOffers
    <3>2. Uncompleted \cap HiddenOffers = {} /\ claims \subseteq HiddenOffers
      BY DEF Uncompleted, HiddenOffers, TopupInv, CollectInv
    <3> HIDE DEF Uncompleted
    <3> QED
      BY <1>1, <2>1, <3>1, <3>2 DEF TopupInv, FoundInv
  <2>4. CASE ListOffers
    BY <1>1, <2>1, <2>4 DEF TopupInv, FoundInv, ListOffers, NoListing
  <2> QED
    BY <1>3, <2>2, <2>3, <2>4, ListingSteps
<1> QED
  BY <1>2, <1>3

LEMMA ListingLeavesOut ==
  ASSUME TopupInv, TopupNext, listing.at = "payments", listing'.at = "done"
  PROVE  \A o \in listed' \cap claims :
           /\ o \notin listing.known
           /\ \A i \in DOMAIN received : received[i] = o => Len(received) - i >= Latest
<1>1. ListOffers
  <2>1. listing' # listing
    OBVIOUS
  <2>2. ~QueryOffers
    BY DEF QueryOffers
  <2> QED
    BY <2>1, <2>2, ListingSteps
<1>2. listed' = listing.found \ RecentlyClaimed
  BY <1>1 DEF ListOffers
<1>3. ASSUME NEW o \in listed' \cap claims
      PROVE  o \notin listing.known
  BY <1>2, <1>3 DEF TopupInv, FoundInv
<1>4. ASSUME NEW o \in listed' \cap claims, NEW i \in DOMAIN received, received[i] = o
      PROVE  Len(received) - i >= Latest
  <2>1. ~(Len(received) - i < Latest)
    <3>1. Len(received) - i < Latest => received[i] \in RecentlyClaimed
      BY <1>4, WindowHoldsLatest DEF RecentlyClaimed, TopupInv
    <3> QED
      BY <1>2, <1>4, <3>1
  <2>2. Len(received) \in Int /\ i \in Int /\ Latest \in Int
    BY FiatTopupAssumption DEF TopupInv, Received
  <2> QED
    BY <2>1, <2>2
<1> QED
  BY <1>3, <1>4

\* FiatTopup::query_uncompleted_offers, whatever the window and the number of
\* payments: an offer that is known to be claimed is listed only if it became
\* known after the service was asked and its payment has left the window.
THEOREM ClaimedAreNotListed == TopupSpec => ClaimedNotListed
<1>1. TopupInit => TopupInv
  <2> SUFFICES ASSUME TopupInit PROVE TopupInv
    OBVIOUS
  <2>1. /\ received = <<>> /\ offers = <<>> /\ claims = {} /\ listing = NoListing
        /\ collecting = [offer |-> NoOffer, at |-> "done"]
    BY DEF TopupInit
  <2>2. <<>> \in Seq((1..MaxOffers) \cup {NoOffer}) /\ <<>> \in Seq(Offer)
    OBVIOUS
  <2> QED
    BY <2>1, <2>2 DEF TopupInv, Received, CollectInv, FoundInv, NoListing
<1>2. TopupInv /\ [TopupNext]_topupVars => TopupInv'
  BY TopupsAreKept
<1>3. TopupInv /\ [TopupNext]_topupVars
        => [listing.at = "payments" /\ listing'.at = "done" =>
              \A o \in listed' \cap claims :
                /\ o \notin listing.known
                /\ \A i \in DOMAIN received :
                     received[i] = o => Len(received) - i >= Latest]_topupVars
  BY ListingLeavesOut
<1> QED
  BY <1>1, <1>2, <1>3, PTL DEF TopupSpec, ClaimedNotListed
=============================================================================
