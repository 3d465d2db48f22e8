----------------------------- MODULE InputField -----------------------------
(***************************************************************************)
(* A field of the app in which the user types or pastes whom to pay: a     *)
(* lightning address or a phone number.  With every change the app asks    *)
(* the parser and, as its errors tell it, waits for more or cuts off what  *)
(* has to be removed.                                                      *)
(***************************************************************************)
EXTENDS PhoneNumbers

CONSTANTS
  Pasted,   \* what a field of each kind may start with
  MaxTyped  \* bound: characters in a field beyond what was pasted

\* The app takes numbers of at least one country; what is pasted is a text.
ASSUME InputFieldAssumption ==
  /\ MaxTyped \in Nat
  /\ \A k \in {"address", "phone"} : Pasted[k] \subseteq Seq(Characters)
  /\ Allowed # {}

VARIABLES
  kind,     \* what the field is for: "address" or "phone"
  room,     \* characters that still may be typed
  text,     \* what is in the field
  verdict   \* what the parser said of it

fieldVars == <<kind, room, text, verdict>>

\* parse_lightning_address, or parse_prefix of a phone number.
VerdictOn(s) == IF kind = "address" THEN ParseLightningAddress(s) ELSE PrefixVerdict(s)

\* The app shows what the parser says of the text it has now.
Shows(s) ==
  /\ text' = s
  /\ verdict' = VerdictOn(s)
  /\ UNCHANGED kind

IsValid == verdict.is = "valid"
IsIncomplete == verdict.is = "incomplete"
HasPosition == verdict.is \in {"unexpected", "excess", "invalid"}
Refused == ~IsValid /\ ~IsIncomplete

-----------------------------------------------------------------------------
FieldInit ==
  /\ kind \in {"address", "phone"}
  /\ room = MaxTyped
  /\ text \in Pasted[kind]
  /\ verdict = VerdictOn(text)

\* After an error the user may type on.
Type(c) ==
  /\ room > 0
  /\ room' = room - 1
  /\ Shows(Append(text, c))

Erase ==
  /\ text # <<>>
  /\ Shows(Front(text))
  /\ room' = Min({room + 1, MaxTyped})

\* "The suffix has to be removed", "the character has to be removed": with all
\* that comes after it.
CutOff ==
  /\ HasPosition
  /\ Shows(SubSeq(text, 1, verdict.at))
  /\ room' = Min({room + Len(text) - verdict.at, MaxTyped})

FieldNext ==
  \/ \E c \in Characters : Type(c)
  \/ Erase
  \/ CutOff

FieldSpec == FieldInit /\ [][FieldNext]_fieldVars

-----------------------------------------------------------------------------
(* Properties                                                                *)

\* What makes a whole of any beginning of an address; of a number any code does.
Endings ==
  IF kind = "address"
  THEN Suffixes(<<"l", "@", "l", ".", "l", "l">>) \cup {<<"l", "l", "l", "l">>}
  ELSE AllowedCodes \cup {<<"+">> \o c : c \in AllowedCodes}
       \cup UNION {Suffixes(c) : c \in AllowedCodes}

\* "Incomplete makes the parsed string a valid prefix of a valid string"
\* (parser/src/lib.rs:17): an app that waits for more does not wait in vain.
IncompleteCanBecomeValid ==
  IsIncomplete => \E e \in Endings : VerdictOn(text \o e).is = "valid"

\* "The character has to be removed", "the suffix has to be removed": what was
\* refused stays so whatever is typed after it, at the same position, so that the
\* user is not sent to another place by typing on.
ErrorsStay ==
  [][(\E c \in Characters : text' = Append(text, c)) /\ Refused
       => Refused' /\ (HasPosition => verdict' = verdict)]_fieldVars

\* An error is at the first character that is wrong: what is left when it is cut off
\* is not refused for a character again, and of an address with an excess suffix the
\* address is left.
CutIsAccepted ==
  [][CutOff => /\ ~HasPosition'
               /\ verdict.is = "excess" => IsValid'
               /\ verdict.is = "unexpected" => IsIncomplete']_fieldVars

\* The parsers agree on numbers.  No prefix of one that parse_to_lightning_address accepts
\* is refused while it is typed, as far as it is typed in characters of a number; its
\* lightning address is one the app may enter as an address and pay; and the owner of
\* that is shown the number again (PhoneNumber::get), whatever other address the wallet
\* has, so that no two numbers share an address.
NumbersAgree ==
  kind = "phone" /\ Accepts(text)
    => /\ verdict.is # "invalid" =>
            \A p \in Prefixes(text) : PrefixVerdict(p).is \in {"valid", "incomplete"}
       /\ LET address == ToLightningAddress(E164(text))
          IN  /\ ParseLightningAddress(address).is = "valid"
              /\ GetNumber(<<<<"l">> \o LipaDomain, address>>) = E164(text)
=============================================================================
