------------------------------- MODULE FxJson -------------------------------
(***************************************************************************)
(* The JSON of the connection services' arguments: src/Fx/src/FxJson.cpp.  *)
(*                                                                         *)
(* A text is a sequence of tokens; white space, which the parser skips     *)
(* before every token, is left out.  A string token is the sequence of its *)
(* pieces - a raw byte, an escaped letter, a \u escape - and a number      *)
(* token the sequence of its characters.                                   *)
(***************************************************************************)
EXTENDS Integers, Sequences, SequencesExt, FiniteSets

CONSTANTS
  MaxDepth,       \* kMaxDepth, 16 in the code
  MaxInputBytes,  \* kMaxInputBytes, 64 KiB in the code
  NumberValue     \* the stream conversion: the number texts it accepts and their values

Punctuation(c) == [token |-> c]
StringToken(pieces) == [token |-> "string", pieces |-> pieces]
NumberToken(text) == [token |-> "number", text |-> text]
LiteralToken(text) == [token |-> "literal", text |-> text]

Raw(byte) == [piece |-> "raw", byte |-> byte]
Escape(letter) == [piece |-> "escape", letter |-> letter]
Unicode(codePoint) == [piece |-> "unicode", codePoint |-> codePoint]

\* JsonValue: its kind and the one member of it that the kind uses.
Null == [kind |-> "null"]
Boolean(b) == [kind |-> "boolean", boolean |-> b]
Number(n) == [kind |-> "number", number |-> n]
String(bytes) == [kind |-> "string", string |-> bytes]
Object(members) == [kind |-> "object", members |-> members]

-----------------------------------------------------------------------------
(* Strings. *)

SingleEscapes ==
  [letter \in {"quote", "backslash", "slash", "b", "f", "n", "r", "t"} |->
     CASE letter = "quote" -> 34 [] letter = "backslash" -> 92 [] letter = "slash" -> 47
       [] letter = "b" -> 8 [] letter = "f" -> 12 [] letter = "n" -> 10
       [] letter = "r" -> 13 [] letter = "t" -> 9]

\* appendUtf8, for the code points \u can name.
Utf8(codePoint) ==
  IF codePoint < 128 THEN <<codePoint>>
  ELSE IF codePoint < 2048 THEN <<192 + codePoint \div 64, 128 + (codePoint % 64)>>
  ELSE <<224 + codePoint \div 4096, 128 + ((codePoint \div 64) % 64), 128 + (codePoint % 64)>>

Surrogates == 55296 .. 57343

\* No raw control character, no unknown escape, no half of a surrogate pair.
PieceAccepted(p) ==
  CASE p.piece = "raw" -> p.byte >= 32
    [] p.piece = "escape" -> p.letter \in DOMAIN SingleEscapes
    [] p.piece = "unicode" -> p.codePoint \notin Surrogates

PieceBytes(p) ==
  CASE p.piece = "raw" -> <<p.byte>>
    [] p.piece = "escape" -> <<SingleEscapes[p.letter]>>
    [] p.piece = "unicode" -> Utf8(p.codePoint)

StringAccepted(token) == \A i \in DOMAIN token.pieces : PieceAccepted(token.pieces[i])

StringBytes(token) ==
  FlattenSeq([i \in DOMAIN token.pieces |-> PieceBytes(token.pieces[i])])

-----------------------------------------------------------------------------
(* Numbers: the grammar as an automaton that reads as far as it can. *)

Digits == {"0", "1"}       \* one digit that may lead a number and one that may not

NumberStep(state, c) ==
  CASE state = "start" /\ c = "-" -> "minus"
    [] state \in {"start", "minus"} /\ c = "0" -> "zero"
    [] state \in {"start", "minus", "integer"} /\ c = "1" -> "integer"
    [] state = "integer" /\ c = "0" -> "integer"
    [] state \in {"zero", "integer"} /\ c = "." -> "point"
    [] state \in {"point", "fraction"} /\ c \in Digits -> "fraction"
    [] state \in {"zero", "integer", "fraction"} /\ c = "e" -> "e"
    [] state = "e" /\ c \in {"+", "-"} -> "sign"
    [] state \in {"e", "sign", "exponent"} /\ c \in Digits -> "exponent"
    [] OTHER -> "stuck"

\* A text the automaton leaves half way is followed by what no member list
\* can contain, so only a text read to its end counts.
NumberAccepted(token) ==
  /\ FoldLeft(NumberStep, "start", token.text) \in {"zero", "integer", "fraction", "exponent"}
  /\ token.text \in DOMAIN NumberValue

-----------------------------------------------------------------------------
(* The recursive descent.  A result is what is left, the value and "ok". *)

Fail(rest) == [rest |-> rest, value |-> Null, ok |-> FALSE]
Got(rest, value) == [rest |-> rest, value |-> value, ok |-> TRUE]

Next(tokens, c) == tokens # <<>> /\ Head(tokens).token = c

RECURSIVE ParseMembers(_, _, _)

\* parseObject after its brace; the depth counts the objects that are open.
ParseObject(tokens, depth) ==
  IF depth > MaxDepth \/ ~Next(tokens, "{") THEN Fail(tokens)
  ELSE IF Next(Tail(tokens), "}") THEN Got(Tail(Tail(tokens)), Object(<<>>))
  ELSE ParseMembers(Tail(tokens), <<>>, depth)

ParseLiteral(token) ==
  CASE token.text = "true" -> Boolean(TRUE)
    [] token.text = "false" -> Boolean(FALSE)
    [] token.text = "null" -> Null

\* Arrays, and every other token, are refused.
ParseValue(tokens, depth) ==
  IF Next(tokens, "{") THEN ParseObject(tokens, depth + 1)
  ELSE IF Next(tokens, "string") /\ StringAccepted(Head(tokens))
  THEN Got(Tail(tokens), String(StringBytes(Head(tokens))))
  ELSE IF Next(tokens, "literal") /\ Head(tokens).text \in {"true", "false", "null"}
  THEN Got(Tail(tokens), ParseLiteral(Head(tokens)))
  ELSE IF Next(tokens, "number") /\ NumberAccepted(Head(tokens))
  THEN Got(Tail(tokens), Number(NumberValue[Head(tokens).text]))
  ELSE Fail(tokens)

\* Faulty variant of NewName: the name is compared as it is written.
NewAsWritten(token, members) ==
  \A name \in DOMAIN members : [i \in DOMAIN name |-> Raw(name[i])] # token.pieces

\* The name as it reads, not as it is written, is new to the object.
NewName(token, members) == StringBytes(token) \notin DOMAIN members

ParseMembers(tokens, members, depth) ==
  IF ~(Next(tokens, "string") /\ StringAccepted(Head(tokens)) /\ NewName(Head(tokens), members)
       /\ Next(Tail(tokens), ":"))
  THEN Fail(tokens)
  ELSE LET name == StringBytes(Head(tokens))
           v == ParseValue(Tail(Tail(tokens)), depth)
           all == [n \in DOMAIN members \cup {name} |-> IF n = name THEN v.value ELSE members[n]]
       IN  IF ~v.ok THEN v
           ELSE IF Next(v.rest, ",") THEN ParseMembers(Tail(v.rest), all, depth)
           ELSE IF Next(v.rest, "}") THEN Got(Tail(v.rest), Object(all))
           ELSE Fail(v.rest)

\* parseDocument: one object and nothing after it.
ParseDocument(tokens) ==
  LET r == ParseObject(tokens, 1) IN IF r.ok /\ r.rest # <<>> THEN Fail(r.rest) ELSE r

PieceLength(p) == CASE p.piece = "raw" -> 1 [] p.piece = "escape" -> 2 [] p.piece = "unicode" -> 6

LiteralLength == [null |-> 4, true |-> 4, false |-> 5]

TokenBytes(token) ==
  CASE token.token = "string" -> FoldLeft(LAMBDA n, p : n + PieceLength(p), 2, token.pieces)
    [] token.token = "number" -> Len(token.text)
    [] token.token = "literal" -> LiteralLength[token.text]
    [] OTHER -> 1

InputBytes(tokens) == FoldLeft(LAMBDA n, t : n + TokenBytes(t), 0, tokens)

ParseJsonObject(tokens) ==
  IF InputBytes(tokens) > MaxInputBytes THEN Fail(tokens)
  ELSE ParseDocument(tokens)
-----------------------------------------------------------------------------
(* Output. *)

\* appendEscaped: the short escape where there is one, \u for the other
\* control characters, everything else as it is.  "/" is not escaped.
AppendEscaped(bytes) ==
  LET short(b) == {e \in DOMAIN SingleEscapes \ {"slash"} : SingleEscapes[e] = b}
      piece(b) == IF short(b) # {} THEN Escape(CHOOSE e \in short(b) : TRUE)
                  ELSE IF b < 32 THEN Unicode(b) ELSE Raw(b)
  IN  StringToken([i \in DOMAIN bytes |-> piece(bytes[i])])

\* The order of std::map: by bytes.
Before(a, b) ==
  \/ IsStrictPrefix(a, b)
  \/ \E i \in DOMAIN a \cap DOMAIN b :
       a[i] < b[i] /\ SubSeq(a, 1, i - 1) = SubSeq(b, 1, i - 1)

\* formatNumber: a text that reads back as the value (the precision is
\* raised until it does).
FormatNumber(n) == CHOOSE text \in DOMAIN NumberValue : NumberValue[text] = n

RECURSIVE SerializeValue(_)

SerializeMembers(members) ==
  LET names == SetToSortSeq(DOMAIN members, Before)
      member(i) == (IF i > 1 THEN <<Punctuation(",")>> ELSE <<>>)
                   \o <<AppendEscaped(names[i]), Punctuation(":")>>
                   \o SerializeValue(members[names[i]])
  IN  FlattenSeq([i \in 1 .. Len(names) |-> member(i)])

SerializeValue(v) ==
  CASE v.kind = "null" -> <<LiteralToken("null")>>
    [] v.kind = "boolean" -> <<LiteralToken(IF v.boolean THEN "true" ELSE "false")>>
    [] v.kind = "number" -> <<NumberToken(FormatNumber(v.number))>>
    [] v.kind = "string" -> <<AppendEscaped(v.string)>>
    [] v.kind = "object" -> <<Punctuation("{")>> \o SerializeMembers(v.members) \o <<Punctuation("}")>>
=============================================================================
