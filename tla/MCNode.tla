------------------------------- MODULE MCNode -------------------------------
(***************************************************************************)
(* What a node holds in memory beside what is stored or asked for: the     *)
(* rates, the terms of the LSP, and the preferences with the start that    *)
(* reads them.  The three share nothing but the way tasks are started and  *)
(* stopped, so a behaviour is about one of them.                           *)
(***************************************************************************)
EXTENDS ExchangeRates, LspFees, NodeStart, TLC

VARIABLE checked  \* what this behaviour is about

feesAlone == <<offers, heard, fees, read, lacking>>
ratesAlone == <<quotes, answer, saved, rates, unwritten, seconds, history, payment>>

all == <<taskVars, feesAlone, ratesAlone, startVars, checked>>

\* Which slot, payment or thread is which makes no difference.
MCSymmetry == Permutations(Tasks) \cup Permutations(Payments) \cup Permutations(Threads)

MCInit ==
  /\ RatesInit /\ FeesInit /\ StartInit
  /\ checked \in {"rates", "fees", "start"}

MCNext ==
  \/ checked = "rates" /\ RatesNext /\ UNCHANGED <<feesAlone, startVars, checked>>
  \/ checked = "fees" /\ FeesNext /\ UNCHANGED <<ratesAlone, startVars, checked>>
  \/ checked = "start" /\ StartNext /\ UNCHANGED <<taskVars, feesAlone, ratesAlone, checked>>

MCSpec == MCInit /\ [][MCNext]_all
=============================================================================
