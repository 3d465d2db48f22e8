------------------------------ MODULE LspFees ------------------------------
(***************************************************************************)
(* The terms the LSP opens a channel on: the task that asks for them keeps *)
(* the cheapest ones and the cheapest that stay valid for 48 hours, each   *)
(* under a mutex of its own.  Every answer of the LSP is a list; the lists *)
(* are numbered.                                                           *)
(***************************************************************************)
EXTENDS RepeatingTask, Naturals

CONSTANT MaxOffers  \* bound: how often the LSP changes its list

ASSUME FeesAssumption == MaxOffers \in Nat

NoList == 0

VARIABLES
  offers,  \* the LSP's list; 0 before it has one
  heard,   \* the list each task was answered with
  fees,    \* what is cached: the list each kind of terms is from, or NoList
  read,    \* history: the last list that came as an answer
  lacking  \* history: the kinds that list had no terms for

feeVars == <<taskVars, offers, heard, fees, read, lacking>>

-----------------------------------------------------------------------------
FeeSteps == {"asking", "cheaper", "longer"}

Terms == {"cheaper", "longer"}

FeesInit ==
  /\ TaskInit
  /\ offers = NoList
  /\ heard = [t \in Tasks |-> NoList]
  /\ fees = [k \in Terms |-> NoList]
  /\ read = NoList
  /\ lacking = {}

FeesForeground(t) ==
  /\ Spawn(t)
  /\ UNCHANGED <<offers, heard, fees, read, lacking>>

FeesBackground ==
  /\ StopAll
  /\ UNCHANGED <<offers, heard, fees, read, lacking>>

\* Nothing of it is stored.
FeesCrash ==
  /\ TasksDie
  /\ heard' = [t \in Tasks |-> NoList]
  /\ fees' = [k \in Terms |-> NoList]
  /\ read' = NoList
  /\ lacking' = {}
  /\ UNCHANGED offers

FeesTick(t) == TickTo(t, "asking") /\ UNCHANGED <<offers, heard, fees, read, lacking>>

FeesStop(t) == Stops(t) /\ UNCHANGED <<offers, heard, fees, read, lacking>>

LspFails(t) ==
  /\ Step(t, "asking", "waiting")
  /\ UNCHANGED <<offers, heard, fees, read, lacking>>

LspAnswers(t) ==
  /\ Step(t, "asking", "cheaper")
  /\ heard' = [heard EXCEPT ![t] = offers]
  /\ read' = offers
  /\ UNCHANGED <<offers, fees, lacking>>

\* Mutant: terms the list lacks end the iteration.
LeavesEarly(kind, found) == IF found /\ kind = "cheaper" THEN "longer" ELSE "waiting"

\* The longer valid terms are looked for whether or not there were cheaper ones.
Following(kind, found) == IF kind = "cheaper" THEN "longer" ELSE "waiting"

\* A list may lack either kind of terms; then what is cached stays.
CacheFee(t, kind) ==
  \E found \in BOOLEAN :
    /\ found => heard[t] # NoList
    /\ Step(t, kind, Following(kind, found))
    /\ fees' = IF found THEN [fees EXCEPT ![kind] = heard[t]] ELSE fees
    /\ lacking' = IF found THEN lacking \ {kind} ELSE lacking \cup {kind}
    /\ UNCHANGED <<offers, heard, read>>

FeesStep(t) ==
  \/ FeesTick(t) \/ FeesStop(t) \/ LspFails(t) \/ LspAnswers(t)
  \/ \E kind \in Terms : CacheFee(t, kind)

OffersChange ==
  /\ offers < MaxOffers
  /\ offers' = offers + 1
  /\ UNCHANGED <<taskVars, heard, fees, read, lacking>>

FeesNext ==
  \/ \E t \in Tasks : FeesForeground(t) \/ FeesStep(t)
  \/ FeesBackground \/ FeesCrash
  \/ OffersChange

-----------------------------------------------------------------------------
(* TaskManager::start_lsp_fee_update.  Both kinds are cached from one answer *)
(* in two steps, and either may be missing in it.  Whatever the other kind's *)
(* fate, terms the last answer had are the ones that are cached, unless an   *)
(* iteration is between its steps or tasks have overlapped.                  *)
PairIsOneAnswer ==
  LET Between == \E t \in Tasks : At(t, "cheaper") \/ At(t, "longer")
  IN  Up /\ ~overlap /\ ~Between => \A k \in Terms \ lacking : fees[k] = read

FeesSpec == FeesInit /\ [][FeesNext]_feeVars
=============================================================================
