---------------------------- MODULE RegexConversion ----------------------------
(* Pattern constraints: a regular expression of ECMA-262, as JSON Schema has   *)
(* them, is rewritten for Go's regexp package (runtime/ogenregex/convert.go);  *)
(* what cannot be rewritten, or what Go refuses afterwards, goes to regexp2,   *)
(* which reads ECMA itself (ogenregex.go).  Convert is one pass over the       *)
(* pattern, one action per turn of its loops; what ECMA and Go read in a text  *)
(* are the two readers at the end.                                             *)
EXTENDS Integers, SequencesExt

CONSTANT Patterns   \* sequences of characters

VARIABLES
  pattern,
  at,        \* index of the current character; Len(pattern) + 1 is EOF
  rewritten, \* passOffset, -1 once characters are written, and goRegexp
  depth,     \* calls of scanGroup under way
  bracket,   \* in scanBracket
  verdict    \* "scanning", "converted" or "refused"

regexVars == <<pattern, at, rewritten, depth, bracket, verdict>>

HexDigits == <<"0", "1", "2", "3", "4", "5", "6", "7", "8", "9", "a", "b", "c", "d", "e", "f">>
digitValue(c) == IF Contains(HexDigits, c) THEN (CHOOSE k \in DOMAIN HexDigits : HexDigits[k] = c) - 1 ELSE 16
Letters == {"a", "b", "c", "d", "n", "p", "s", "u", "x", "L", "S"}
Control == [a |-> 1, b |-> 2, c |-> 3, d |-> 4, n |-> 14, p |-> 16, s |-> 19, u |-> 21, x |-> 24, L |-> 12, S |-> 19]

\* The fixed texts that stand for ".", a class of white space, [] and [^].
re2Dot == "[^EOL]"
whitespaceChars == "SPACES"
Nothing == "[NONE]"
Everything == "[ALL]"

-----------------------------------------------------------------------------
(* The writer.  Offsets count from 0, as in the code: an offset is the number  *)
(* of characters before it.                                                    *)
Char(i) == IF i \in 1..Len(pattern) THEN pattern[i] ELSE "EOF"
chrOffset == at - 1
Text(from, to) == SubSeq(pattern, from + 1, to)

StopPassing(w) ==
  IF w.passed = -1 THEN w ELSE [passed |-> -1, out |-> Text(0, w.passed)]
Write(w, s) == LET v == StopPassing(w) IN [v EXCEPT !.out = @ \o s]
PassString(w, from, to) ==
  IF w.passed = from THEN [w EXCEPT !.passed = to] ELSE Write(w, Text(from, to))
\* pass, with the current character at index i
Pass(w, i) == IF w.passed = i - 1 THEN [w EXCEPT !.passed = i] ELSE Write(w, <<pattern[i]>>)

Goes(next, w) ==
  at' = next /\ rewritten' = w /\ UNCHANGED <<pattern, depth, bracket, verdict>>
GiveUp == verdict' = "refused" /\ UNCHANGED <<pattern, at, rewritten, depth, bracket>>

-----------------------------------------------------------------------------
(* scan, scanGroup and scanBracket: one turn of their loops.                   *)
OpenGroup ==
  /\ Char(at) = "(" /\ ~bracket
  /\ IF Len(pattern) > at + 1 /\ Char(at + 1) = "?" /\ Char(at + 2) # ":"
     THEN GiveUp
     ELSE /\ at' = at + 1 /\ rewritten' = Pass(rewritten, at) /\ depth' = depth + 1
          /\ UNCHANGED <<pattern, bracket, verdict>>

CloseGroup ==
  /\ Char(at) = ")" /\ ~bracket
  /\ IF depth = 0
     THEN GiveUp
     ELSE /\ at' = at + 1 /\ rewritten' = Pass(rewritten, at) /\ depth' = depth - 1
          /\ UNCHANGED <<pattern, bracket, verdict>>

Dot == Char(at) = "." /\ ~bracket /\ Goes(at + 1, Write(rewritten, <<re2Dot>>))

EmptyBracket ==
  /\ Char(at) = "[" /\ ~bracket
  /\ \/ Char(at + 1) = "]" /\ Goes(at + 2, Write(rewritten, <<Nothing>>))
     \/ Char(at + 1) = "^" /\ Char(at + 2) = "]" /\ Goes(at + 3, Write(rewritten, <<Everything>>))

OpenBracket ==
  /\ Char(at) = "[" /\ ~bracket
  /\ Char(at + 1) # "]" /\ ~(Char(at + 1) = "^" /\ Char(at + 2) = "]")
  /\ at' = at + 1 /\ rewritten' = Pass(rewritten, at) /\ bracket' = TRUE
  /\ UNCHANGED <<pattern, depth, verdict>>

CloseBracket ==
  /\ Char(at) = "]" /\ bracket
  /\ at' = at + 1 /\ rewritten' = Pass(rewritten, at) /\ bracket' = FALSE
  /\ UNCHANGED <<pattern, depth, verdict>>

PassChar ==
  /\ Char(at) \notin {"EOF", "\\"}
  /\ IF bracket THEN Char(at) # "]" ELSE Char(at) \notin {"(", ")", "[", "."}
  /\ Goes(at + 1, Pass(rewritten, at))

EndOfPattern ==
  /\ Char(at) = "EOF"
  /\ verdict' = IF depth = 0 /\ ~bracket THEN "converted" ELSE "refused"
  /\ UNCHANGED <<pattern, at, rewritten, depth, bracket>>

-----------------------------------------------------------------------------
(* scanEscape: the character after the backslash decides.                      *)
Escaped(cs) == Char(at) = "\\" /\ Char(at + 1) \in cs

\* The first index from i on whose character is no digit of the base.
DigitsEnd(i, base) ==
  CHOOSE j \in i..Len(pattern) + 1 : digitValue(Char(j)) >= base /\ \A k \in i..j - 1 : digitValue(Char(k)) < base
\* The first index from i on, at most i + n, that ends a run of hex digits.
HexEnd(i, n) == IF DigitsEnd(i, 16) < i + n THEN DigitsEnd(i, 16) ELSE i + n

ValueOf(s, base) == FoldLeft(LAMBDA v, c : base * v + digitValue(c), 0, s)
AppendInt16(n) ==
  LET len == CHOOSE k \in 1..7 : n < 16^k /\ (k = 1 \/ n >= 16^(k - 1))
  IN [k \in 1..len |-> HexDigits[((n \div 16^(len - k)) % 16) + 1]]
HexEscape(n) == (IF n >= 16 THEN <<"\\", "x">> ELSE <<"\\", "x", "0">>) \o AppendInt16(n)

\* All octal digits that follow are read; a single one but 0 is a backreference.
EscapeOctal ==
  /\ Escaped({"0", "1", "2", "3", "4", "5", "6", "7"})
  /\ LET end == DigitsEnd(at + 1, 8)
         value == ValueOf(Text(at, end - 1), 8)
     IN IF end > at + 2 THEN Goes(end, Write(rewritten, HexEscape(value)))
        ELSE IF value # 0 THEN GiveUp
        ELSE Goes(end, PassString(rewritten, chrOffset, end - 1))

EscapeRefused == (Escaped({"8", "9"}) \/ (bracket /\ Escaped({"S"}))) /\ GiveUp

\* \xhh stays, \uhhhh and \u{h} become \x{h}, and what is no escape loses its backslash.
EscapeHex ==
  /\ Escaped({"x", "u"})
  /\ LET braced == Char(at + 1) = "u" /\ Char(at + 2) = "{"
         start == IF braced THEN at + 3 ELSE at + 2
         length == IF Char(at + 1) = "x" THEN 2 ELSE 4
         end == IF braced THEN DigitsEnd(start, 16) ELSE HexEnd(start, length)
         whole == IF braced THEN Char(end) \in {"}", "EOF"} ELSE end = start + length
     IN Goes(end, IF ~whole THEN PassString(rewritten, at, end - 1)
                  ELSE IF Char(at + 1) = "x" THEN PassString(rewritten, chrOffset, end - 1)
                  ELSE LET w == PassString(Write(rewritten, <<"\\", "x", "{">>), start - 1, end - 1)
                       IN IF braced THEN w ELSE Write(w, <<"}">>))

EscapeControl ==
  /\ Escaped({"c"})
  /\ IF Char(at + 2) \in Letters
     THEN Goes(at + 3, Write(rewritten, HexEscape(Control[Char(at + 2)])))
     ELSE Goes(at + 2, Write(rewritten, <<"c">>))

\* Mutant: the brackets are written inside a class too.
EscapeSpaceInBrackets ==
  \/ Escaped({"s"}) /\ Goes(at + 2, Write(rewritten, <<"[", whitespaceChars, "]">>))
  \/ Escaped({"S"}) /\ ~bracket /\ Goes(at + 2, Write(rewritten, <<"[", "^", whitespaceChars, "]">>))

EscapeSpace ==
  \/ Escaped({"s"}) /\ Goes(at + 2, Write(rewritten, IF bracket THEN <<whitespaceChars>>
                                                     ELSE <<"[", whitespaceChars, "]">>))
  \/ Escaped({"S"}) /\ ~bracket /\ Goes(at + 2, Write(rewritten, <<"[", "^", whitespaceChars, "]">>))

\* \b is a word boundary outside and a backspace inside a class.
EscapePassed ==
  \/ Escaped({"b"}) /\ bracket /\ Goes(at + 2, Write(rewritten, <<"\\", "x", "0", "8">>))
  \/ /\ Escaped({"d", "\\", "n"} \cup IF bracket THEN {} ELSE {"b"})
     /\ Goes(at + 2, PassString(rewritten, chrOffset, at + 1))

\* \p{...} stays, whatever its name.
EscapeProperty ==
  /\ Escaped({"p"})
  /\ LET close == SelectInSubSeq(pattern, at + 4, Len(pattern), LAMBDA c : c = "}")
         w == Write(rewritten, <<"\\">>)
     IN IF Char(at + 2) # "{" \/ Char(at + 3) = "}" \/ close = 0
        THEN GiveUp
        ELSE Goes(close + 1, Write(w, Text(at, close)))

\* Whatever else is no identifier character keeps its backslash, the rest loses it.
EscapeOther ==
  \/ /\ Char(at) = "\\"
     /\ Char(at + 1) \in {"{", "}", "[", "]", "^", "-", "(", ")", "?", ":", "=", ".", "$"}
     /\ Goes(at + 2, PassString(rewritten, chrOffset, at + 1))
  \/ Char(at) = "\\" /\ Char(at + 1) = "EOF" /\ Goes(at + 1, PassString(rewritten, chrOffset, at))
  \/ Escaped({"a", "L"}) /\ Goes(at + 2, Write(rewritten, <<Char(at + 1)>>))

RegexInit ==
  /\ pattern \in Patterns
  /\ at = 1 /\ rewritten = [passed |-> 0, out |-> <<>>]
  /\ depth = 0 /\ bracket = FALSE /\ verdict = "scanning"
RegexNext ==
  /\ verdict = "scanning"
  /\ \/ OpenGroup \/ CloseGroup \/ Dot \/ EmptyBracket \/ OpenBracket \/ CloseBracket \/ PassChar
     \/ EscapeOctal \/ EscapeRefused \/ EscapeHex \/ EscapeControl \/ EscapeSpace \/ EscapePassed
     \/ EscapeProperty \/ EscapeOther \/ EndOfPattern

ResultString == IF rewritten.passed # -1 THEN Text(0, rewritten.passed) ELSE rewritten.out

-----------------------------------------------------------------------------
(* What a text says: a sequence of <<kind, code points>>, "fail" where it is   *)
(* no pattern.  A range of code points is a pair; \d is one, white space some. *)
Only(n) == {<<n, n>>}
CodeOf(c) ==
  IF digitValue(c) < 10 THEN 48 + digitValue(c) ELSE IF digitValue(c) < 16 THEN 87 + digitValue(c)
  ELSE ([n |-> 110, p |-> 112, s |-> 115, u |-> 117, x |-> 120, L |-> 76, S |-> 83]
        @@ ("\\" :> 92 @@ "{" :> 123 @@ "}" :> 125 @@ "[" :> 91 @@ "]" :> 93 @@ "^" :> 94 @@ "-" :> 45
            @@ "(" :> 40 @@ ")" :> 41 @@ "?" :> 63 @@ ":" :> 58 @@ "=" :> 61 @@ "." :> 46 @@ "$" :> 36))[c]
Spaces == <<32, 9, 65279>>   \* some of whitespaceChars, in its order
SpaceSet == {<<n, n>> : n \in Range(Spaces)}
Digits == {<<48, 57>>}
LetterL == {<<-1, 76>>}

CharAt(s, i) == IF i \in 1..Len(s) THEN s[i] ELSE "EOF"
Item(kind, of, next) == [kind |-> kind, of |-> of, next |-> next]
Literal(n, next) == Item("char", Only(n), next)
Fail(next) == Item("fail", {}, next)
HexRun(s, i) == CHOOSE j \in i..Len(s) + 1 :
  digitValue(CharAt(s, j)) >= 16 /\ \A k \in i..j - 1 : digitValue(s[k]) < 16
OctalRun(s, i, n) == CHOOSE j \in i..i + n :
  /\ \A k \in i..j - 1 : digitValue(CharAt(s, k)) < 8
  /\ j = i + n \/ digitValue(CharAt(s, j)) >= 8
NumberIn(s, from, to, base) == ValueOf(SubSeq(s, from, to), base)
NamedL(s, i) == CharAt(s, i) = "{" /\ CharAt(s, i + 1) = "L" /\ CharAt(s, i + 2) = "}"

\* The escape whose letter is s[i], as Go's regexp/syntax reads it.
GoEscape(s, i, class) ==
  LET c == CharAt(s, i)
      hex == IF CharAt(s, i + 1) = "{" THEN HexRun(s, i + 2) ELSE i + 3
  IN CASE c = "0" -> LET j == OctalRun(s, i, 3) IN Literal(NumberIn(s, i, j - 1, 8), j)
       [] c = "x" /\ CharAt(s, i + 1) = "{" ->
            IF CharAt(s, hex) = "}" /\ hex > i + 2 THEN Literal(NumberIn(s, i + 2, hex - 1, 16), hex + 1) ELSE Fail(i)
       [] c = "x" /\ CharAt(s, i + 1) # "{" ->
            IF HexRun(s, i + 1) >= hex THEN Literal(NumberIn(s, i + 1, hex - 1, 16), hex) ELSE Fail(i)
       [] c = "d" -> Item("class", Digits, i + 1)
       [] c = "n" -> Literal(10, i + 1)
       [] c = "b" /\ ~class -> Item("boundary", {}, i + 1)
       [] c = "p" -> IF NamedL(s, i + 1) THEN Item("class", LetterL, i + 4) ELSE Fail(i)
       [] digitValue(c) >= 16 /\ c \notin Letters \cup {"EOF"} -> Literal(CodeOf(c), i + 1)
       [] OTHER -> Fail(i)

\* The same as ECMA-262 reads it: octal escapes end before 0o400, \u{h} and \p{name} are
\* the ones of Unicode patterns, and letters without a meaning stand for themselves.
EcmaEscape(s, i, class) ==
  LET c == CharAt(s, i)
      octal == OctalRun(s, i, IF digitValue(c) < 4 THEN 3 ELSE 2)
      braced == HexRun(s, i + 2)
  IN CASE digitValue(c) < 8 ->
            IF octal = i + 1 /\ c # "0" THEN Fail(i) ELSE Literal(NumberIn(s, i, octal - 1, 8), octal)
       [] c = "x" -> IF HexRun(s, i + 1) >= i + 3 THEN Literal(NumberIn(s, i + 1, i + 2, 16), i + 3)
                     ELSE Literal(CodeOf(c), i + 1)
       [] c = "u" -> IF CharAt(s, i + 1) = "{" /\ CharAt(s, braced) = "}" /\ braced > i + 2
                     THEN Literal(NumberIn(s, i + 2, braced - 1, 16), braced + 1)
                     ELSE IF HexRun(s, i + 1) >= i + 5 THEN Literal(NumberIn(s, i + 1, i + 4, 16), i + 5)
                     ELSE Literal(CodeOf(c), i + 1)
       [] c = "c" -> IF CharAt(s, i + 1) \in Letters THEN Literal(Control[CharAt(s, i + 1)], i + 2) ELSE Fail(i)
       [] c = "b" -> IF class THEN Literal(8, i + 1) ELSE Item("boundary", {}, i + 1)
       [] c = "d" -> Item("class", Digits, i + 1)
       [] c = "s" -> Item("class", SpaceSet, i + 1)
       [] c = "S" -> IF class THEN Fail(i) ELSE Item("not", SpaceSet, i + 1)
       [] c = "n" -> Literal(10, i + 1)
       [] c = "p" -> IF NamedL(s, i + 1) THEN Item("class", LetterL, i + 4) ELSE Fail(i)
       [] c \in {"8", "EOF"} -> Fail(i)
       [] OTHER -> Literal(CodeOf(c), i + 1)

Escape(go, s, i, class) == IF go THEN GoEscape(s, i, class) ELSE EcmaEscape(s, i, class)

\* The members of a class from index i on, to its bracket: characters, classes, and "-".
RECURSIVE Members(_, _, _, _)
MemberAt(go, s, i) ==
  IF CharAt(s, i) = "\\" THEN Escape(go, s, i + 1, TRUE)
  ELSE IF CharAt(s, i) = "-" THEN Item("-", Only(45), i + 1) ELSE Literal(CodeOf(CharAt(s, i)), i + 1)
MembersFrom(go, s, item) ==
  IF item.kind = "fail" THEN <<item>> ELSE <<item>> \o Members(go, s, item.next, FALSE)
Members(go, s, i, first) ==
  LET c == CharAt(s, i)
  IN CASE c = "EOF" \/ (go /\ c = "[" /\ CharAt(s, i + 1) = ":") -> <<Fail(i)>>
       [] c = "]" /\ ~(go /\ first) -> <<Item("]", {}, i + 1)>>
       [] c = whitespaceChars ->
            [k \in DOMAIN Spaces |-> Literal(Spaces[k], i + 1)] \o Members(go, s, i + 1, FALSE)
       [] OTHER -> MembersFrom(go, s, MemberAt(go, s, i))

\* The code points of a list of members; {} when a range is none.
RECURSIVE Ranges(_)
Ranges(ms) ==
  IF ms = <<>> THEN {}
  ELSE IF Len(ms) >= 3 /\ ms[2].kind = "-"
  THEN LET lo == ms[1].of hi == ms[3].of
           bounds == {<<l[1], h[1]>> : l \in lo, h \in hi}
       IN IF "class" \in {ms[1].kind, ms[3].kind} \/ \E b \in bounds : b[1] > b[2] THEN {<<0, -1>>}
          ELSE bounds \cup Ranges(SubSeq(ms, 4, Len(ms)))
  ELSE ms[1].of \cup Ranges(Tail(ms))

ClassOf(negated, end, of) ==
  IF end.kind = "fail" \/ <<0, -1>> \in of THEN Fail(end.next)
  ELSE IF of = {} THEN Item(IF negated THEN Everything ELSE Nothing, {}, end.next)
  ELSE Item(IF negated THEN "not" ELSE "class", of, end.next)
ClassWith(negated, ms) == ClassOf(negated, Last(ms), Ranges(Front(ms)))
Class(go, s, i) ==
  LET negated == CharAt(s, i) = "^"
  IN ClassWith(negated, Members(go, s, IF negated THEN i + 1 ELSE i, TRUE))

RECURSIVE Items(_, _, _)
ItemAt(go, s, i) ==
  LET c == CharAt(s, i) IN
  CASE c = "\\" -> Escape(go, s, i + 1, FALSE)
    [] c = "[" -> Class(go, s, i + 1)
    [] c = "." -> Item(IF go THEN "dot" ELSE re2Dot, {}, i + 1)
    [] c \in {re2Dot, Nothing, Everything, "(", ")", "?", "^", "$"} -> Item(c, {}, i + 1)
    [] OTHER -> Literal(CodeOf(c), i + 1)
ItemsFrom(go, s, item) ==
  <<<<item.kind, item.of>>>> \o (IF item.kind = "fail" THEN <<>> ELSE Items(go, s, item.next))
Items(go, s, i) == IF i > Len(s) THEN <<>> ELSE ItemsFrom(go, s, ItemAt(go, s, i))

Reads(go, s) == Items(go, s, 1)
Understood(items) == \A k \in DOMAIN items : items[k][1] # "fail"
SameWhereUnderstood(items, others) == Understood(items) /\ Understood(others) => items = others
\* An octal escape of more digits than ECMA reads: Convert takes them all for one number.
LongOctal(s) ==
  \E i \in 1..Len(s) : /\ s[i] = "\\" /\ digitValue(CharAt(s, i + 1)) < 8
                       /\ OctalRun(s, i + 1, 4) > i + (IF digitValue(s[i + 1]) < 4 THEN 4 ELSE 3)

\* What Go compiles of the rewritten pattern means what ECMA reads in the one written
\* (Convert and Compile): however escapes, classes and groups follow each other, and
\* wherever the untouched prefix ends, no character is lost, doubled or read as another.
\* Octal escapes that are too long are the exception.
ConvertedReadsTheSame ==
  verdict = "converted" =>
    LongOctal(pattern) \/ SameWhereUnderstood(Reads(TRUE, ResultString), Reads(FALSE, pattern))

===============================================================================
