-------------------------------- MODULE Text ---------------------------------
(* The conversions between values and texts (util.cpp), and the arguments a   *)
(* command handler takes out of its line (cli.cpp).  A text is a sequence of  *)
(* characters without its null; a number with a fraction is a count of        *)
(* eighths, which both binary and decimal digits represent.                   *)
EXTENDS Integers, Sequences, SequencesExt

CONSTANTS W,          \* width of int and of unsigned_t
          MaxLine,    \* size of the buffer the arguments are put together in
          Values      \* the arguments that are written: records [kind, value, base or precision]

VARIABLES written, line     \* the arguments, and the line they were written to
textVars == <<written, line>>

Digits == <<"0", "1", "2", "3", "4", "5", "6", "7", "8", "9", "A", "B", "C", "D", "E", "F">>
Decimal == SubSeq(Digits, 1, 10)
Lowercase == [d \in {"a", "b", "c", "d", "e", "f"} |->
                CASE d = "a" -> 10 [] d = "b" -> 11 [] d = "c" -> 12
                  [] d = "d" -> 13 [] d = "e" -> 14 [] d = "f" -> 15]
Spaces == {" ", "\t", "\r", "\n"}
Q_MAX_FTOA_PRECISION == 10
Unsigned(n) == n % (2 ^ W)
Signed(n) == IF Unsigned(n) >= 2 ^ (W - 1) THEN Unsigned(n) - 2 ^ W ELSE Unsigned(n)
Least(m, n) == IF m < n THEN m ELSE n
-----------------------------------------------------------------------------
(* Strings.  strcat appends maxlen - 1 characters when src does not fit.      *)
strlen(s, maxlen) == Least(Len(s), maxlen)
strcat(dst, src, maxlen) ==
  IF strlen(dst, maxlen) = maxlen THEN dst
  ELSE IF Len(src) < maxlen - Len(dst) THEN dst \o src
  ELSE dst \o SubSeq(src, 1, Least(Len(src), maxlen - 1))
swapBytes(s) == Reverse(s)

(* outputString(): the characters, one call of the output function each.      *)
outputString(out, s) == out \o s

(* The part of s from its first character on that is not in C.                *)
From(s, C) ==
  LET first == SelectInSeq(s, LAMBDA c : c \notin C)
  IN IF first = 0 THEN <<>> ELSE SubSeq(s, first, Len(s))
(* The longest beginning of s with all characters in C.                       *)
While(s, C) ==
  LET end == SelectInSeq(s, LAMBDA c : c \notin C)
  IN IF end = 0 THEN s ELSE SubSeq(s, 1, end - 1)

discardWhitespaces(s) == From(s, Spaces)
checkStrSign(s) ==
  IF s # <<>> /\ s[1] \in {"-", "+"}
    THEN [sgn |-> IF s[1] = "-" THEN -1 ELSE 1, rest |-> Tail(s)]
    ELSE [sgn |-> 1, rest |-> s]
-----------------------------------------------------------------------------
(* Mutant: the digits are left as the division yields them.                   *)
xBaseUtoAUnswapped(num, base) ==
  LET low[n \in 0 .. num] ==
        IF n = 0 THEN <<>> ELSE <<Digits[(n % base) + 1]>> \o low[n \div base]
  IN IF num = 0 \/ base = 0 THEN <<"0">> ELSE low[num]

(* xBaseUtoA(): the digits from the lowest on, then swapped.                  *)
xBaseUtoA(num, base) ==
  LET low[n \in 0 .. num] ==
        IF n = 0 THEN <<>> ELSE <<Digits[(n % base) + 1]>> \o low[n \div base]
  IN IF num = 0 \/ base = 0 THEN <<"0">> ELSE swapBytes(low[num])

unsignedToString(num, base) == xBaseUtoA(num, base)

(* The sign is written in base 10 only.                                       *)
integerToString(num, base) ==
  (IF num < 0 /\ base = 10 THEN <<"-">> ELSE <<>>)
    \o xBaseUtoA(Unsigned(IF num < 0 THEN -num ELSE num), base)

pointerToString(ptr) ==
  IF ptr = 0 THEN <<"n", "u", "l", "l">> ELSE <<"0", "x">> \o xBaseUtoA(ptr, 16)
boolToString(b) ==
  IF b THEN <<"t", "r", "u", "e">> ELSE <<"f", "a", "l", "s", "e">>

nibbleToX(v) == Digits[(v % 16) + 1]
printXData(bytes, eol) ==
  FlattenSeq([i \in DOMAIN bytes |-> <<nibbleToX(bytes[i] \div 16), nibbleToX(bytes[i]), " ">>])
    \o IF eol THEN <<"\r", "\n">> ELSE <<>>

(* floatToString(), doubleToString(): digit by digit, cut and not rounded.    *)
floatToString(num, precision) ==
  LET m == IF num < 0 THEN -num ELSE num
      places == Least(precision, Q_MAX_FTOA_PRECISION)
      fraction[i \in 0 .. places] == IF i = 0 THEN m % 8 ELSE (10 * fraction[i - 1]) % 8
  IN IF num = 0 THEN <<"0", ".", "0">>
     ELSE (IF num < 0 THEN <<"-">> ELSE <<>>)
            \o xBaseUtoA(m \div 8, 10)
            \o IF places = 0 THEN <<>>
               ELSE <<".">> \o [i \in 1 .. places |-> Digits[((10 * fraction[i - 1]) \div 8) + 1]]
-----------------------------------------------------------------------------
hexCharToUnsigned(c) ==
  IF c \in DOMAIN Lowercase THEN Lowercase[c] ELSE SelectInSeq(Digits, LAMBDA d : d = c) - 1
IsHex(c) == c \in ToSet(Digits) \cup DOMAIN Lowercase

Number(digits, base) ==
  FoldLeft(LAMBDA n, c : n * base + hexCharToUnsigned(c), 0, digits)

(* The first 8 digits, spaces between them skipped.                           *)
hexStringToUnsigned(s) ==
  LET digits == SelectSeq(While(s, ToSet(Digits) \cup DOMAIN Lowercase \cup Spaces), IsHex)
  IN Number(SubSeq(digits, 1, Least(Len(digits), 8)), 16)

stringToInt(s) ==
  LET signed == checkStrSign(discardWhitespaces(s))
  IN Signed(signed.sgn * Number(While(signed.rest, ToSet(Decimal)), 10))

(* stringToFloat() stops at the first character that is neither a digit nor a *)
(* point; every digit after a point counts as a decimal place.                *)
stringToFloat(s) ==
  LET signed == checkStrSign(discardWhitespaces(s))
      taken == While(signed.rest, ToSet(Decimal) \cup {"."})
      point == SelectInSeq(taken, LAMBDA c : c = ".")
      digits == SelectSeq(taken, LAMBDA c : c # ".")
  IN [mantissa |-> signed.sgn * Number(digits, 10),
      places |-> IF point = 0 THEN 0 ELSE Len(SelectSeq(SubSeq(taken, point, Len(taken)), LAMBDA c : c # "."))]
-----------------------------------------------------------------------------
(* commandHandler::getArgPtr( n ): what follows the delimiter n - 1.          *)
getArgPtr(data, n) ==
  LET after == {i \in DOMAIN data :
                  data[i] = "," /\ Len(SelectSeq(SubSeq(data, 1, i), LAMBDA c : c = ",")) = n - 1}
  IN IF n = 1 THEN data ELSE SubSeq(data, (CHOOSE i \in after : TRUE) + 1, Len(data))

getArgInt(data, n) == stringToInt(getArgPtr(data, n))
getArgFloat(data, n) == stringToFloat(getArgPtr(data, n))
getArgHex(data, n) == hexStringToUnsigned(getArgPtr(data, n))

(* getArgString( n, pOut ): an empty field leaves pOut as it was.             *)
getArgString(data, n, pOut) ==
  LET field == While(getArgPtr(data, n), UNION {{data[i]} : i \in DOMAIN data} \ {","})
  IN IF field = <<>> THEN pOut ELSE field
-----------------------------------------------------------------------------
Init == written = <<>> /\ line = <<>>

Printed(v) ==
  CASE v.kind = "int" -> integerToString(v.value, 10)
    [] v.kind = "hex" -> unsignedToString(v.value, 16)
    [] v.kind = "dump" -> printXData(v.value, FALSE)
    [] v.kind = "float" -> floatToString(v.value, v.precision)
    [] v.kind = "pointer" -> pointerToString(v.value)
    [] v.kind = "bool" -> boolToString(v.value)
    [] OTHER -> v.value

(* The peer builds a line of arguments with the conversions of the library,   *)
(* and sends it character by character.                                       *)
Write(v) ==
  /\ Len(written) < 2 /\ written' = Append(written, v)
  /\ LET delimited == IF written = <<>> THEN line ELSE strcat(line, <<",">>, MaxLine)
     IN line' = outputString(<<>>, strcat(delimited, Printed(v), MaxLine))

Again == Len(written) = 2 /\ written' = <<>> /\ line' = <<>>

Next == (\E v \in Values : Write(v)) \/ Again
Spec == Init /\ [][Next]_textVars
-----------------------------------------------------------------------------
(* num / 8, cut after the decimal places a float was printed with.            *)
Cut(num, precision) ==
  LET m == IF num < 0 THEN -num ELSE num
  IN (m * 10 ^ Least(precision, 4)) \div 8

(* Each argument of a line is read back, by the call for its kind, as the     *)
(* value it was printed from, whatever the other arguments are; the digits of *)
(* a fraction are cut at the precision (util.cpp 128-149, 220-241, 286-529;   *)
(* cli.cpp 381-455).                                                          *)
ArgumentsReadBack ==
  \A n \in DOMAIN written :
    LET v == written[n]
        f == getArgFloat(line, n)
        m == IF f.mantissa < 0 THEN -f.mantissa ELSE f.mantissa
    IN CASE v.kind = "int" -> getArgInt(line, n) = v.value
         [] v.kind = "hex" -> getArgHex(line, n) = v.value
         [] v.kind = "dump" -> getArgHex(line, n) = FoldLeft(LAMBDA h, b : 256 * h + b, 0, v.value)
         [] v.kind = "float" ->
              /\ f.mantissa < 0 => v.value < 0
              /\ v.value # 0 => f.places = v.precision /\ m = Cut(v.value, v.precision)
              /\ v.value = 0 => m = 0
         [] v.kind = "pointer" /\ v.value # 0 ->
              LET field == getArgString(line, n, <<>>)
              IN hexStringToUnsigned(SubSeq(field, 3, Len(field))) = v.value
         [] OTHER -> getArgString(line, n, <<>>) = Printed(v)
=============================================================================
