----------------------------- MODULE UrlText -----------------------------
(***************************************************************************)
(* The text functions of Util that the target of a request goes through.   *)
(* A text is a sequence of bytes.                                          *)
(***************************************************************************)
EXTENDS Naturals, Sequences, FiniteSets, FiniteSetsExt, SequencesExt

Nul == 0
Space == 32
Hash == 35
Percent == 37
Ampersand == 38
Plus == 43
Dot == 46
Slash == 47
Equal == 61
Backslash == 92

Digits == 48 .. 57
Upper == 65 .. 90
Lower == 97 .. 122
Unreserved == Digits \cup Upper \cup Lower \cup {45, 95, Dot, 126}
HexDigits == Digits \cup 65 .. 70 \cup 97 .. 102

HexValue(ch) ==
  CASE ch \in Digits -> ch - 48
    [] ch \in Upper -> ch - 55
    [] ch \in Lower -> ch - 87

HexDigit(value) == IF value < 10 THEN 48 + value ELSE 55 + value

Escape(ch) == <<Percent, HexDigit(ch \div 16), HexDigit(ch % 16)>>

UrlEncode(url, convert_space) ==
  FlattenSeq([i \in DOMAIN url |->
    CASE url[i] \in Unreserved -> <<url[i]>>
      [] url[i] = Space /\ convert_space -> <<Plus>>
      [] OTHER -> Escape(url[i])])

\* A '%' that is not followed by two hexadecimal digits.
BrokenEscape(url) ==
  \E i \in DOMAIN url :
    /\ url[i] = Percent
    /\ ~(i + 2 <= Len(url) /\ {url[i + 1], url[i + 2]} \subseteq HexDigits)

\* The places of a set, the first one first.
InSequence(S) ==
  [k \in 1 .. Cardinality(S) |-> CHOOSE i \in S : Cardinality({j \in S : j < i}) = k - 1]

\* Where the bytes of the decoded text begin: not inside an escape.
ByteStarts(url) ==
  {i \in DOMAIN url : \A j \in {i - 1, i - 2} \cap DOMAIN url : url[j] # Percent}

\* UrlDecode of a text that has no broken escape.
UrlDecode(url, convert_plus) ==
  LET starts == InSequence(ByteStarts(url))
      Byte(i) == CASE url[i] = Percent ->
                        16 * HexValue(url[i + 1]) + HexValue(url[i + 2])
                   [] url[i] = Plus /\ convert_plus -> Space
                   [] OTHER -> url[i]
  IN  [k \in DOMAIN starts |-> Byte(starts[k])]

\* The parts between the separators, the empty ones left out.
Split(str, sep) ==
  LET begins == InSequence({i \in DOMAIN str :
                              str[i] # sep /\ (i > 1 => str[i - 1] = sep)})
      Part(i) == SubSeq(str, i, Max({j \in i .. Len(str) :
                                       \A k \in i .. j : str[k] # sep}))
  IN  [k \in DOMAIN begins |-> Part(begins[k])]

Here == <<Dot>>
Above == <<Dot, Dot>>

\* No prefix of the path has climbed more often than it has descended.
StaysBelow(names) ==
  \A k \in DOMAIN names :
    Cardinality({j \in 1 .. k : names[j] = Above})
      <= Cardinality({j \in 1 .. k : names[j] \notin {Here, Above}})

\* Mutant: only what the whole path comes to is looked at.
ValidPathInTotal(path) ==
  /\ path # <<>>
  /\ ToSet(path) \cap {Nul, Backslash} = {}
  /\ LET names == Split(path, Slash)
     IN  Cardinality({j \in DOMAIN names : names[j] = Above})
           <= Cardinality({j \in DOMAIN names : names[j] \notin {Here, Above}})

ValidPath(path) ==
  /\ path # <<>>
  /\ ToSet(path) \cap {Nul, Backslash} = {}
  /\ StaysBelow(Split(path, Slash))
=============================================================================
