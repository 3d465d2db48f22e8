----------------------------- MODULE Recipients -----------------------------
(***************************************************************************)
(* The recipients the app offers for the next payment: the lightning       *)
(* addresses paid so far, phone numbers shown as such, from the SDK's list *)
(* of sent payments.                                                       *)
(***************************************************************************)
EXTENDS PhoneNumbers

CONSTANTS
  Payees,      \* lightning addresses, as texts
  Rank,        \* their lexical order
  MaxPayments, \* bound: payments
  MaxClock     \* bound: seconds

VARIABLES
  sent,   \* the SDK's list of sent payments, failed ones among them
  clock,  \* the second it is
  shown   \* what list_recipients answered last

recipientVars == <<sent, clock, shown>>

\* Of a payment to a node, or by an lnurl without address, no address is known.
NoAddress == <<>>

Sent == [to : Payees \cup {NoAddress}, at : 0..MaxClock]

Recipient == [type : {"PhoneNumber", "LightningAddress"}, text : Seq(Characters)]

RecipientsInit == sent = <<>> /\ clock = 0 /\ shown = <<>>

-----------------------------------------------------------------------------
(* list_recipients                                                           *)

\* Mutant: the time is not negated, so the first payment to an address counts.
Oldest(p, q) ==
  \/ Rank[p.to] < Rank[q.to]
  \/ p.to = q.to /\ p.at < q.at

\* lightning_addresses.sort(): by address, and the latest payment first.
ByAddress(p, q) ==
  \/ Rank[p.to] < Rank[q.to]
  \/ p.to = q.to /\ p.at > q.at

\* sort_by_key is stable: with equal times the order by address stays.
Latest(p, q) ==
  \/ p.at > q.at
  \/ p.at = q.at /\ Rank[p.to] < Rank[q.to]

\* Of neighbours with one address the first is kept.
Dedup(s) ==
  LET first == {i \in DOMAIN s : i = 1 \/ s[i].to # s[i - 1].to}
  IN  [i \in 1..Cardinality(first) |->
         s[CHOOSE k \in first : Cardinality({j \in first : j <= k}) = i]]

FromLightningAddress(address) ==
  LET e164 == ToPhoneNumber(address)
  IN  IF e164 = NoNumber
      THEN [type |-> "LightningAddress", text |-> address]
      ELSE [type |-> "PhoneNumber", text |-> e164]

ListRecipients ==
  LET HasAddress(p) == p.to # NoAddress
      byAddress == SortSeq(SelectSeq(sent, HasAddress), ByAddress)
      latest == SortSeq(Dedup(byAddress), Latest)
  IN  [i \in DOMAIN latest |-> FromLightningAddress(latest[i].to)]

-----------------------------------------------------------------------------
\* The SDK lists a payment where it likes, so the order of the list says nothing.
Pay(address) ==
  /\ Len(sent) < MaxPayments
  /\ \E i \in 1..(Len(sent) + 1) : sent' = InsertAt(sent, i, [to |-> address, at |-> clock])
  /\ UNCHANGED <<clock, shown>>

Wait ==
  /\ clock < MaxClock
  /\ clock' = clock + 1
  /\ UNCHANGED <<sent, shown>>

Show ==
  /\ shown' = ListRecipients
  /\ UNCHANGED <<sent, clock>>

RecipientsNext ==
  \/ \E address \in Payees \cup {NoAddress} : Pay(address)
  \/ Wait
  \/ Show

RecipientsSpec == RecipientsInit /\ [][RecipientsNext]_recipientVars

-----------------------------------------------------------------------------
(* Properties                                                                *)

LastPaid(address) == Max({p.at : p \in {q \in ToSet(sent) : q.to = address}})

\* "From the most recent used" (lib.rs:802): whoever was paid is offered once, as what
\* the user knows them by, and nobody who was paid later comes after.
RecentFirst ==
  [][Show =>
       LET paid == {p.to : p \in ToSet(sent)} \ {NoAddress}
           Of(r) == IF r.type = "PhoneNumber" THEN ToLightningAddress(r.text) ELSE r.text
           offered == [i \in DOMAIN shown' |-> Of(shown'[i])]
       IN  /\ ToSet(offered) = paid /\ Len(shown') = Cardinality(paid)
           /\ \A i, j \in DOMAIN offered :
                i < j => LastPaid(offered[i]) >= LastPaid(offered[j])]_recipientVars
=============================================================================
