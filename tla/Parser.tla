------------------------------- MODULE Parser -------------------------------
(***************************************************************************)
(* The parser that tells what of a typed lightning address or phone number *)
(* is wrong while it is being typed.                                       *)
(*                                                                         *)
(* A text is a sequence of characters, of which there is one for each      *)
(* class the parser tells apart: "l" stands for the ASCII letters other    *)
(* than those of the punycode tag, "x" and "n"; "f" for characters outside *)
(* ASCII, "m" for those that combine with the one before (which make one   *)
(* grapheme with it).  Positions count characters, those of the code bytes *)
(* of the same text.                                                       *)
(***************************************************************************)
EXTENDS Naturals, Sequences, FiniteSetsExt

Letters == {"l", "x", "n"}
Digits == {"1", "4"}
Alphanumeric == Letters \cup Digits
Foreign == {"f", "m"}
Blanks == {" "}

LabelChars == Alphanumeric \cup Foreign
PunycodeChars == Alphanumeric \cup {"-"}
UsernameChars == Alphanumeric \cup {"-", "_", "."}
DigitsAndSymbols == Digits \cup Blanks \cup {"-", "."}

Characters == UsernameChars \cup Foreign \cup Blanks \cup {"@", "+", "!"}

-----------------------------------------------------------------------------
(* What a parser makes of a text from some position on: it reads it up to a  *)
(* position, or fails at one.                                                *)

Reads(i) == [ok |-> TRUE, at |-> i]
Fails(i) == [ok |-> FALSE, at |-> i]

Is(s, i, C) == i \in DOMAIN s /\ s[i] \in C

\* Where the characters of C that are at i end.
RunEnd(s, i, C) == Min({j \in i..(Len(s) + 1) : ~Is(s, j, C)})

\* Parsers one after the other: P(j) from where the first one ends.
Then(r, P(_)) == IF r.ok THEN P(r.at) ELSE r

Chars(s, i, C) == Reads(RunEnd(s, i, C))

\* At least one.
Chars1(s, i, C) == IF Is(s, i, C) THEN Chars(s, i, C) ELSE Fails(i)

Char(s, i, c) == IF Is(s, i, {c}) THEN Reads(i + 1) ELSE Fails(i)

-----------------------------------------------------------------------------
(* Domains                                                                   *)

\* Mutant: a tag counts only when a label follows.
TagWithLabel(s, i) ==
  /\ \A k \in 1..4 : Is(s, i + k - 1, {<<"x", "n", "-", "-">>[k]})
  /\ Is(s, i + 4, PunycodeChars)

HasTag(s, i) == \A k \in 1..4 : Is(s, i + k - 1, {<<"x", "n", "-", "-">>[k]})

\* A hyphen belongs to a label when it is followed by a character of it.
InLabel(s, i) ==
  \/ Is(s, i, LabelChars)
  \/ Is(s, i, {"-"}) /\ Is(s, i + 1, LabelChars)

LabelEnd(s, i) == Min({j \in i..(Len(s) + 1) : ~InLabel(s, j)})

UnicodeLabel(s, i) ==
  IF ~Is(s, i, LabelChars) THEN Fails(i)
  ELSE LET e == LabelEnd(s, i)
       IN  IF Is(s, e, {"-"}) THEN Fails(e + 1) ELSE Reads(e)

Label(s, i) ==
  IF HasTag(s, i) THEN Chars1(s, i + 4, PunycodeChars) ELSE UnicodeLabel(s, i)

Graphemes(s, i, e) == Cardinality({j \in i..(e - 1) : j = i \/ s[j] # "m"})

\* is_valid_top_level_domain of the label that begins at i and ends before e.
IsTopLevel(s, i, e) ==
  IF HasTag(s, i) THEN e - (i + 4) >= 4
  ELSE /\ \A j \in i..(e - 1) : s[j] \in Letters \cup Foreign
       /\ Graphemes(s, i, e) >= 2

\* Labels with dots between them, more than one, the last a top level domain.
Domain(s, i) ==
  LET from[k \in 1..(Len(s) + 1)] ==
        LET l == Label(s, k)
        IN  CASE l.ok /\ Is(s, l.at, {"."}) -> from[l.at + 1]
              [] l.ok /\ ~Is(s, l.at, {"."}) /\ k # i /\ IsTopLevel(s, k, l.at) -> l
              [] OTHER -> Fails(l.at)
  IN  from[i]

-----------------------------------------------------------------------------
(* Addresses and numbers, with blanks around them                            *)

LightningAddress(s) ==
  LET Username(i) == Chars1(s, i, UsernameChars)
      Separator(i) == Char(s, i, "@")
      Host(i) == Domain(s, i)
      Trailing(i) == Chars(s, i, Blanks)
  IN  Then(Then(Then(Then(Chars(s, 1, Blanks), Username), Separator), Host), Trailing)

PhoneNumber(s) ==
  LET Plus(i) == Char(s, i, "+")
      Number(i) == Chars(s, i, DigitsAndSymbols)
      Trailing(i) == Chars(s, i, Blanks)
  IN  Then(Then(Then(Chars(s, 1, Blanks), Plus), Number), Trailing)

\* The digits among the first n characters.
DigitsAmong(s, n) ==
  LET among[m \in 0..n] ==
        IF m = 0 THEN <<>>
        ELSE IF s[m] \in Digits THEN Append(among[m - 1], s[m]) ELSE among[m - 1]
  IN  among[n]

\* The digits of what was read as a number.
DigitsOf(s, r) == DigitsAmong(s, r.at - 1)

\* Positions are counted from zero, as the app sees them.  Mutants: the last
\* character taken for the end; an excess suffix that is reported one late.
LastIsEnd(s, r) ==
  CASE r.ok /\ r.at > Len(s) -> [is |-> "valid", at |-> 0]
    [] r.ok /\ r.at <= Len(s) -> [is |-> "excess", at |-> r.at - 1]
    [] ~r.ok /\ r.at >= Len(s) -> [is |-> "incomplete", at |-> 0]
    [] ~r.ok /\ r.at < Len(s) -> [is |-> "unexpected", at |-> r.at - 1]

ExcessLate(s, r) ==
  CASE r.ok /\ r.at > Len(s) -> [is |-> "valid", at |-> 0]
    [] r.ok /\ r.at <= Len(s) -> [is |-> "excess", at |-> r.at]
    [] ~r.ok /\ r.at > Len(s) -> [is |-> "incomplete", at |-> 0]
    [] ~r.ok /\ r.at <= Len(s) -> [is |-> "unexpected", at |-> r.at - 1]

Verdict(s, r) ==
  CASE r.ok /\ r.at > Len(s) -> [is |-> "valid", at |-> 0]
    [] r.ok /\ r.at <= Len(s) -> [is |-> "excess", at |-> r.at - 1]
    [] ~r.ok /\ r.at > Len(s) -> [is |-> "incomplete", at |-> 0]
    [] ~r.ok /\ r.at <= Len(s) -> [is |-> "unexpected", at |-> r.at - 1]

Incomplete == [is |-> "incomplete", at |-> 0]

ParseLightningAddress(s) == Verdict(s, LightningAddress(s))

ParsePhoneNumber(s) ==
  LET v == Verdict(s, PhoneNumber(s))
  IN  IF v.is = "valid" /\ DigitsOf(s, PhoneNumber(s)) = <<>> THEN Incomplete ELSE v
=============================================================================
