---------------------------- MODULE MCAddresses ----------------------------
(***************************************************************************)
(* The wallet's own addresses, and whom it pays: a field to type an        *)
(* address or a phone number in, or a choice among those paid before.  The *)
(* three share no state, so a behaviour is about one of them.              *)
(*                                                                         *)
(* Two countries share the calling code 1, of which the app allows one;    *)
(* the code of the third has two digits, and no other code begins with     *)
(* its first.  What is pasted leads to each kind of label.                 *)
(***************************************************************************)
EXTENDS Addresses, InputField, Recipients

VARIABLE checked  \* what this behaviour is about

all == <<vars, fieldVars, recipientVars, checked>>

\* Threads are interchangeable, and so are phone numbers.
Symmetry == Permutations(Threads) \cup Permutations(Phones)

MCCountries == {"US", "CA", "CH"}
MCCode == [c \in MCCountries |-> IF c = "CH" THEN <<"4", "1">> ELSE <<"1">>]
MCNumbers == {<<"4", "1", "4">>, <<"1", "1">>, <<"1", "4">>}
MCCountryOf ==
  [n \in MCNumbers |->
     CASE n = <<"4", "1", "4">> -> "CH"
       [] n = <<"1", "1">> -> "US"
       [] n = <<"1", "4">> -> "CA"]
MCDomain == <<"@", "l", ".", "l", "l">>

MCPasted ==
  [address |->
     {<<>>,
      <<" ", "l", "@">>,
      <<"l", "@", "l">>,
      <<"l", "@", "f", ".">>,
      <<"l", "@", "4", ".", "l", "l">>,
      <<"l", "@", "x", "n", "-">>,
      <<"l", "@", "l", ".", "x", "n">>,
      <<"l", "@", "l", ".", "x", "n", "-", "-", "l", "4">>},
   phone |-> {<<>>, <<" ", "+">>, <<"+", "4">>, <<"+", "1", " ", "4">>}]

\* The address of a phone number, one that looks like it elsewhere, and another.
MCPhone == <<"-", "1", "1">> \o MCDomain
MCElsewhere == <<"-", "1", "1", "@", "n", ".", "l", "l">>
MCFriend == <<"l">> \o MCDomain
MCPayees == {MCPhone, MCElsewhere, MCFriend}
MCRank == (MCPhone :> 1) @@ (MCElsewhere :> 2) @@ (MCFriend :> 3)

MCInit ==
  /\ Init /\ FieldInit /\ RecipientsInit
  /\ checked \in {"addresses", "field", "recipients"}
  /\ checked # "field" => kind = "phone" /\ text = <<>>

MCNext ==
  \/ checked = "addresses" /\ Next /\ UNCHANGED <<fieldVars, recipientVars, checked>>
  \/ checked = "field" /\ FieldNext /\ UNCHANGED <<vars, recipientVars, checked>>
  \/ checked = "recipients" /\ RecipientsNext /\ UNCHANGED <<vars, fieldVars, checked>>

MCSpec == MCInit /\ [][MCNext]_all
=============================================================================
