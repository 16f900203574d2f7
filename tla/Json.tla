-------------------------------- MODULE Json --------------------------------
(***************************************************************************)
(* The JSON values of include/json.hpp, and their writer and reader in     *)
(* src/json.cpp.  A text is a sequence of bytes.  A value is a pair of its *)
(* type and what it holds; an object holds its members in the order set.   *)
(* The reader is modelled for texts of the writer, whole or cut: on others *)
(* stoi(), stoll() and stod() accept more than is said here.               *)
(***************************************************************************)
EXTENDS Ascii, SequencesExt, FiniteSetsExt

Null == <<"Null", 0>>
Bool(b) == <<"Bool", b>>
Number(n) == <<"Int", n>>
String(s) == <<"String", s>>
Array(values) == <<"Array", values>>
Object(members) == <<"Object", members>>

Quote == 34
Backslash == 92
Comma == 44
Colon == 58
Minus == 45
LetterU == 117
Open == [Array |-> 91, Object |-> 123]
Shut == [Array |-> 93, Object |-> 125]
Blank == {32, 9, 10, 13}
Word == [null |-> <<110, 117, 108, 108>>, true |-> <<116, 114, 117, 101>>,
         false |-> <<102, 97, 108, 115, 101>>]

\* The escapes of one letter: " \ n r t b f, and / when reading.
Written == 34 :> 34 @@ 92 :> 92 @@ 10 :> 110 @@ 13 :> 114 @@ 9 :> 116 @@ 8 :> 98 @@ 12 :> 102
Read == 34 :> 34 @@ 92 :> 92 @@ 47 :> 47 @@ 110 :> 10 @@ 114 :> 13 @@ 116 :> 9 @@ 98 :> 8 @@ 102 :> 12

-----------------------------------------------------------------------------
(***************************************************************************)
(* dump()                                                                  *)
(***************************************************************************)
EscapeSome(c) == IF c \in {Quote, Backslash} THEN <<Backslash, c>> ELSE <<c>>
EscapeDecimal(c) ==
    IF c \in DOMAIN Written THEN <<Backslash, Written[c]>>
    ELSE IF c < 32 THEN <<Backslash, LetterU, 48, 48, 48 + c \div 10, 48 + (c % 10)>>
    ELSE <<c>>

Escape(c) ==
    IF c \in DOMAIN Written THEN <<Backslash, Written[c]>>
    ELSE IF c < 32 THEN <<Backslash, LetterU>> \o Hex(4, c)
    ELSE <<c>>

DumpString(s) == <<Quote>> \o FlattenSeq([i \in DOMAIN s |-> Escape(s[i])]) \o <<Quote>>

RECURSIVE ToDigits(_)
ToDigits(n) == IF n < 10 THEN <<48 + n>> ELSE Append(ToDigits(n \div 10), 48 + (n % 10))

Listed(type, texts) ==
    LET text(i) == IF i = 1 THEN texts[i] ELSE <<Comma>> \o texts[i]
    IN  <<Open[type]>> \o FlattenSeq([i \in DOMAIN texts |-> text(i)]) \o <<Shut[type]>>

RECURSIVE Dump(_)
Dump(j) ==
    CASE j[1] = "Null" -> Word.null
      [] j[1] = "Bool" -> IF j[2] THEN Word.true ELSE Word.false
      [] j[1] = "Int" -> IF j[2] < 0 THEN <<Minus>> \o ToDigits(-j[2]) ELSE ToDigits(j[2])
      [] j[1] = "String" -> DumpString(j[2])
      [] j[1] = "Array" -> Listed("Array", [i \in DOMAIN j[2] |-> Dump(j[2][i])])
      [] j[1] = "Object" ->
            Listed("Object", [i \in DOMAIN j[2] |->
                                 DumpString(j[2][i][1]) \o <<Colon>> \o Dump(j[2][i][2])])

-----------------------------------------------------------------------------
(***************************************************************************)
(* The Parser.  Each operator reads from a position on and returns what it *)
(* read and the position behind it, or Fail where the code throws.         *)
(***************************************************************************)
Ok(value, pos) == [ok |-> TRUE, value |-> value, pos |-> pos]
Fail == [ok |-> FALSE, value |-> <<"Throws", 0>>, pos |-> 0]

At(text, pos, c) == pos <= Len(text) /\ text[pos] = c

\* The first position from pos on with a character outside the set.
Past(text, pos, set) == Min({Len(text) + 1} \cup {p \in pos..Len(text) : text[p] \notin set})
SkipWs(text, pos) == Past(text, pos, Blank)

\* A character of the basic plane as one, two or three bytes.
Utf8(code) ==
    IF code < 128 THEN <<code>>
    ELSE IF code < 2048 THEN <<192 + code \div 64, 128 + (code % 64)>>
    ELSE <<224 + code \div 4096, 128 + ((code \div 64) % 64), 128 + (code % 64)>>

RECURSIVE ParseRawString(_, _, _)
ParseRawString(text, pos, out) ==
    IF pos > Len(text) THEN Fail
    ELSE IF text[pos] = Quote THEN Ok(out, pos + 1)
    ELSE IF text[pos] # Backslash THEN ParseRawString(text, pos + 1, Append(out, text[pos]))
    ELSE IF pos + 1 > Len(text) THEN Fail
    ELSE IF text[pos + 1] \in DOMAIN Read
      THEN ParseRawString(text, pos + 2, Append(out, Read[text[pos + 1]]))
    ELSE IF text[pos + 1] = LetterU /\ pos + 5 <= Len(text)
      THEN ParseRawString(text, pos + 6, out \o Utf8(HexValue(SubSeq(text, pos + 2, pos + 5))))
    ELSE Fail

\* A number with anything but digits behind its sign is read as a double.
ParseNumber(text, pos) ==
    LET from == IF text[pos] = Minus THEN pos + 1 ELSE pos
        stop == Past(text, from, Digit \cup {46, 69, 101, 43, Minus})
        token == SubSeq(text, from, stop - 1)
        n == FoldLeft(LAMBDA v, d : 10 * v + d - 48, 0, token)
    IN  IF token = <<>> THEN Fail
        ELSE IF ToSet(token) \subseteq Digit THEN Ok(Number(IF from > pos THEN -n ELSE n), stop)
        ELSE Ok(<<"Double", SubSeq(text, pos, stop - 1)>>, stop)

ParseWord(text, pos, word, value) ==
    IF pos + Len(word) - 1 <= Len(text) /\ SubSeq(text, pos, pos + Len(word) - 1) = word
      THEN Ok(value, pos + Len(word))
      ELSE Fail

RECURSIVE ParseValue(_, _), ParseItems(_, _, _, _)

ParseMember(text, from) ==
    LET pos == SkipWs(text, from)
        key == ParseRawString(text, pos + 1, <<>>)
        colon == SkipWs(text, key.pos)
        value == ParseValue(text, colon + 1)
    IN  IF At(text, pos, Quote) /\ key.ok /\ At(text, colon, Colon) /\ value.ok
          THEN Ok(<<key.value, value.value>>, value.pos)
          ELSE Fail

\* parse_array() and parse_object() behind the bracket and an item or none.
ParseItems(text, from, items, type) ==
    LET item == IF type = "Object" THEN ParseMember(text, from) ELSE ParseValue(text, from)
        pos == SkipWs(text, item.pos)
        now == Append(items, item.value)
    IN  IF ~item.ok THEN Fail
        ELSE IF At(text, pos, Comma) THEN ParseItems(text, pos + 1, now, type)
        ELSE IF At(text, pos, Shut[type]) THEN Ok(<<type, now>>, pos + 1)
        ELSE Fail

ParseList(text, pos, type) ==
    LET next == SkipWs(text, pos + 1)
    IN  IF At(text, next, Shut[type])
          THEN Ok(<<type, <<>>>>, next + 1)
          ELSE ParseItems(text, next, <<>>, type)

ParseValue(text, from) ==
    LET pos == SkipWs(text, from)
        str == ParseRawString(text, pos + 1, <<>>)
    IN  IF pos > Len(text) THEN Fail
        ELSE IF text[pos] = Open.Object THEN ParseList(text, pos, "Object")
        ELSE IF text[pos] = Open.Array THEN ParseList(text, pos, "Array")
        ELSE IF text[pos] = Quote THEN IF str.ok THEN Ok(String(str.value), str.pos) ELSE Fail
        ELSE IF text[pos] = Word.true[1] THEN ParseWord(text, pos, Word.true, Bool(TRUE))
        ELSE IF text[pos] = Word.false[1] THEN ParseWord(text, pos, Word.false, Bool(FALSE))
        ELSE IF text[pos] = Word.null[1] THEN ParseWord(text, pos, Word.null, Null)
        ELSE ParseNumber(text, pos)

\* parse(): what stands behind the value is not looked at.
Parse(text) == ParseValue(text, 1)
Parsed(text) == Parse(text).value

\* find(): the value of the first member with this key, Fail without one.
Find(j, key) ==
    LET i == SelectInSeq(j[2], LAMBDA m : m[1] = key)
    IN  IF i = 0 THEN Fail ELSE Ok(j[2][i][2], i)
=============================================================================
