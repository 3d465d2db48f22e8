----------------------------- MODULE MCOnchain -----------------------------
(***************************************************************************)
(* The user resolves funds on the chain, pays and receives, or looks at    *)
(* what is to be done, while the world goes on; and the topups, which have *)
(* nothing to do with it.  A behaviour is about one of these.              *)
(***************************************************************************)
EXTENDS ActionsRequired, FiatTopup

VARIABLE checked  \* what this behaviour is about

Cheaper == [min |-> 500000, share |-> 20000]
Longer == [min |-> 600000, share |-> 10000]

Goals ==
  [funds    |-> {"none", "determine", "swap", "sweep"},
   payments |-> {"none", "pay", "receive", "clear"},
   list     |-> {"none", "list"},
   topups   |-> {"none"}]

MCInit == FundsInit /\ TopupInit /\ checked \in DOMAIN Goals

MCNext ==
  \/ /\ checked # "topups" /\ FundsNext
     /\ call'.goal \in Goals[checked]
     /\ checked = "list" \/ listVars' = listVars
     /\ UNCHANGED <<topupVars, checked>>
  \/ checked = "topups" /\ TopupNext /\ UNCHANGED <<fundsVars, checked>>

MCSpec == MCInit /\ [][MCNext]_<<fundsVars, topupVars, checked>>
=============================================================================
