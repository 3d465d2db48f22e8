---------------------------- MODULE PhoneNumbers ----------------------------
(***************************************************************************)
(* Phone numbers: which prefixes are refused while a number is typed,      *)
(* which numbers are accepted in the end, and the lightning address each   *)
(* stands for.                                                             *)
(*                                                                         *)
(* What numbers there are is known to the phonenumber crate: a table here. *)
(* Countries may share a calling code.                                     *)
(***************************************************************************)
EXTENDS Parser, SequencesExt

CONSTANTS
  Countries,   \* countries the crate knows
  Code,        \* calling code of each, a sequence of digits
  Numbers,     \* valid numbers, the digits of each from the calling code on
  CountryOf,   \* country of each number
  Allowed,     \* countries the app is configured for
  LipaDomain   \* the domain of lipa's own lightning addresses, with its "@"

\* A number begins with the code of its country; codes and numbers are digits.
\* After any user name LipaDomain makes a lightning address.
ASSUME PhoneNumbersAssumption ==
  /\ Allowed \subseteq Countries
  /\ Code \in [Countries -> Seq(Digits) \ {<<>>}]
  /\ CountryOf \in [Numbers -> Countries]
  /\ \A n \in Numbers : n \in Seq(Digits) /\ IsPrefix(Code[CountryOf[n]], n)
  /\ LipaDomain \in Seq(Characters) \ {<<>>}
  /\ Head(LipaDomain) = "@"
  /\ ParseLightningAddress(<<"l">> \o LipaDomain).is = "valid"

AllowedCodes == {Code[c] : c \in Allowed}

\* PhoneNumberPrefixParser::parse.
PrefixVerdict(s) ==
  LET v == ParsePhoneNumber(s)
      digits == DigitsOf(s, PhoneNumber(s))
  IN  CASE v.is = "incomplete" -> v
        [] v.is \in {"excess", "unexpected"} -> [v EXCEPT !.is = "invalid"]
        [] v.is = "valid" ->
             CASE \E c \in AllowedCodes : IsPrefix(c, digits) -> v
               [] (\A c \in AllowedCodes : ~IsPrefix(c, digits))
                  /\ (\E c \in AllowedCodes : IsPrefix(digits, c)) -> Incomplete
               [] OTHER -> [is |-> "unsupported", at |-> 0]

-----------------------------------------------------------------------------
(* Complete numbers                                                          *)

\* The crate reads digits and skips symbols; without a "+" there is no country.
Number(s) == IF "+" \in ToSet(s) THEN DigitsAmong(s, Len(s)) ELSE <<>>

\* PhoneNumberRecipient::parse and the check of the country in parse_phone_number.
Accepts(s) == Number(s) \in Numbers /\ CountryOf[Number(s)] \in Allowed

E164(s) == <<"+">> \o Number(s)

\* Mutant: the plus is kept, which no user name may have.
WithPlus(e164) == e164 \o LipaDomain

ToLightningAddress(e164) == ReplaceFirstSubSeq(<<"-">>, <<"+">>, e164) \o LipaDomain

IsOfLipa(address) == address # <<>> /\ Head(address) = "-" /\ IsSuffix(LipaDomain, Tail(address))

NoNumber == <<>>

\* lightning_address_to_phone_number.
ToPhoneNumber(address) ==
  LET username == SubSeq(address, 2, Len(address) - Len(LipaDomain))
  IN  IF IsOfLipa(address) /\ ToSet(username) \subseteq Digits
      THEN <<"+">> \o username
      ELSE NoNumber

\* PhoneNumber::get of a table whose enabled addresses are these, oldest first.
GetNumber(addresses) ==
  LET ofPhone == {i \in DOMAIN addresses : addresses[i] # <<>> /\ Head(addresses[i]) = "-"}
  IN  IF ofPhone = {} THEN NoNumber ELSE ToPhoneNumber(addresses[Min(ofPhone)])
=============================================================================
