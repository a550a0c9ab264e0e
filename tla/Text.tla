-------------------------------- MODULE Text --------------------------------
(***************************************************************************)
(* How numbers become characters: alt_printf(), the formatter behind       *)
(* ALT_LOG_PRINTF (alt_log_printf.c), and the routines of the camera       *)
(* programs.  The initial state is a call, a step one character of its     *)
(* format; a routine without a format is one step.                         *)
(***************************************************************************)
EXTENDS Integers, Sequences, FiniteSets

CONSTANTS
    WordBits,        \* width of an unsigned long: 32
    Values,          \* numbers to print
    Widths,          \* numbers given as the width in a format, each a string of digits
    Precisions       \* what may follow the width

\* What the constants may be.
TextAssumption == /\ WordBits % 8 = 0 /\ WordBits > 0
                  /\ Values \subseteq 0 .. 2 ^ WordBits - 1

Numeral == <<"0", "1", "2", "3", "4", "5", "6", "7", "8", "9",
             "a", "b", "c", "d", "e", "f">>
UpperNumeral == SubSeq(Numeral, 1, 10) \o <<"A", "B", "C", "D", "E", "F">>
DigitChars == {Numeral[i] : i \in 1 .. 10}
DigitOf(c) == CHOOSE d \in 0 .. 9 : Numeral[d + 1] = c

Repeat(c, n) == [i \in 1 .. n |-> c]

VARIABLES
    printer,         \* the routine called
    fmt, arg,        \* its format, if it takes one, and its argument
    w,               \* the next character of the format
    state,           \* "chars", "firstFmtChar", "otherFmtChar", "done"
    conversion,      \* fmtLeadingZero, fmtBase, fmtSigned, fmtCase, fmtBeforeDecimal, fmtAfterDecimal
    out              \* the characters put out
vars == <<printer, fmt, arg, w, state, conversion, out>>

Letters == {"d", "i", "u", "o", "x", "X"}

LogFormats == {<<"t", "%">> \o zero \o width \o precision \o long \o <<letter>> :
                  zero \in {<<>>, <<"0">>}, width \in Widths, precision \in Precisions,
                  long \in {<<>>, <<"l">>}, letter \in Letters}
OtherFormats == {<<"t", "%", "%">>} \cup {<<"t", "%">> \o width \o <<letter>> :
                                             width \in Widths, letter \in {"c", "s"}}
PrintfFormats == {<<"t", "%", "x">>, <<"t", "%", "c">>, <<"t", "%", "s">>, <<"t", "%", "%">>}

\* What a %c and a %s are given.
Letter == "q"
String == <<"q", "r">>

Fresh == [zero |-> FALSE, base |-> 10, signed |-> TRUE, upper |-> FALSE,
          before |-> -1, after |-> -1]

Init == /\ \/ printer = "alt_log_printf" /\ fmt \in LogFormats \cup OtherFormats
           \/ printer = "alt_printf" /\ fmt \in PrintfFormats
           \/ printer \in {"byte2bcd", "byte2bcd4", "word2ascii", "long_word2ascii",
                           "dword2decimal"} /\ fmt = <<>>
        /\ arg \in Values
        /\ printer = "byte2bcd" => arg < 256
        /\ printer = "byte2bcd4" => arg < 10000
        /\ printer = "word2ascii" => arg < 2 ^ (WordBits \div 2)
        /\ w = 1 /\ state = "chars" /\ conversion = Fresh /\ out = <<>>

-----------------------------------------------------------------------------
(***************************************************************************)
(* Digits.                                                                 *)
(***************************************************************************)
Places(v, base) ==
    LET places[x \in Nat] == IF x < base THEN 1 ELSE 1 + places[x \div base] IN places[v]
Digit(v, base, place) == (v \div base ^ place) % base
Figures(v, base, first, numeral) ==
    [i \in 1 .. first + 1 |-> numeral[Digit(v, base, first + 1 - i) + 1]]

\* alt_printf's %x: from the first nibble that is not zero.
PrintHex(v) == IF v = 0 THEN <<"0">>
               ELSE LET used == {n \in 0 .. WordBits \div 4 - 1 : Digit(v, 16, n) # 0}
                    IN Figures(v, 16, CHOOSE n \in used : \A m \in used : n >= m, Numeral)

\* Mutant: the sign is not counted as a character of the field.
doIntegerPrint_SignFree(v, f) ==
    LET sign == f.signed /\ v >= 2 ^ (WordBits - 1)
        magnitude == IF sign THEN 2 ^ WordBits - v ELSE v
        count == Places(magnitude, f.base)
        minus == IF sign THEN <<"-">> ELSE <<>>
        figures == Figures(magnitude, f.base, count - 1,
                           IF f.upper THEN UpperNumeral ELSE Numeral)
    IN IF f.zero THEN minus \o Repeat("0", f.before - count) \o figures
                 ELSE Repeat(" ", f.before - count) \o minus \o figures

\* The number of alt_log_private_printf: the sign is stripped by two's
\* complement, the field is filled with zeros behind it or blanks before it.
doIntegerPrint(v, f) ==
    LET sign == f.signed /\ v >= 2 ^ (WordBits - 1)
        magnitude == IF sign THEN 2 ^ WordBits - v ELSE v
        count == Places(magnitude, f.base)
        minus == IF sign THEN <<"-">> ELSE <<>>
        fill == f.before - count - Len(minus)
        figures == Figures(magnitude, f.base, count - 1,
                           IF f.upper THEN UpperNumeral ELSE Numeral)
    IN IF f.zero THEN minus \o Repeat("0", fill) \o figures
                 ELSE Repeat(" ", fill) \o minus \o figures

HEX2ASCII(d) == UpperNumeral[d + 1]

\* The tens are left out whenever they are zero, the hundreds or not.
byte2bcd(v) == LET bcd2 == v \div 100
                   bcd1 == (v % 100) \div 10
               IN (IF bcd2 # 0 THEN <<HEX2ASCII(bcd2)>> ELSE <<>>)
                  \o (IF bcd1 # 0 THEN <<HEX2ASCII(bcd1)>> ELSE <<>>)
                  \o <<HEX2ASCII(v % 10)>>

byte2bcd4(v) == LET bcd == [i \in 0 .. 3 |-> Digit(v, 10, i)]
                    shown(i) == i = 0 \/ \E j \in i .. 3 : bcd[j] # 0
                IN [i \in 1 .. 4 |-> IF shown(4 - i) THEN HEX2ASCII(bcd[4 - i]) ELSE " "]

word2ascii(v) == Figures(v, 16, WordBits \div 8 - 1, UpperNumeral)
long_word2ascii(v) == Figures(v, 16, WordBits \div 4 - 1, UpperNumeral)

\* The digits are stored from the last, and put out from the first.
dword2decimal(v) == IF v = 0 THEN <<"0">> ELSE Figures(v, 10, Places(v, 10) - 1, Numeral)

-----------------------------------------------------------------------------
(***************************************************************************)
(* The steps.                                                              *)
(***************************************************************************)
Formatted == printer \in {"alt_printf", "alt_log_printf"}
Char == fmt[w]
Reading(s) == Formatted /\ state = s /\ w <= Len(fmt) /\ w' = w + 1
Put(chars) == out' = out \o chars
Keep == UNCHANGED <<printer, fmt, arg>>

\* The end of the format, or of a routine without one.
End == /\ Formatted /\ state # "done" /\ w > Len(fmt)
       /\ state' = "done" /\ UNCHANGED <<w, conversion, out>> /\ Keep

Routine == /\ ~Formatted /\ state # "done"
           /\ Put(CASE printer = "byte2bcd" -> byte2bcd(arg)
                    [] printer = "byte2bcd4" -> byte2bcd4(arg)
                    [] printer = "word2ascii" -> word2ascii(arg)
                    [] printer = "long_word2ascii" -> long_word2ascii(arg)
                    [] printer = "dword2decimal" -> dword2decimal(arg))
           /\ state' = "done" /\ UNCHANGED <<w, conversion>> /\ Keep

PlainChar == /\ Reading("chars") /\ Char # "%"
             /\ Put(<<Char>>)
             /\ UNCHANGED <<state, conversion>> /\ Keep

StartConversion == /\ Reading("chars") /\ Char = "%"
                   /\ state' = "firstFmtChar" /\ conversion' = Fresh
                   /\ UNCHANGED out /\ Keep

\* alt_printf: one letter, and nothing before it.
Printf == /\ printer = "alt_printf" /\ Reading("firstFmtChar")
          /\ Put(CASE Char = "%" -> <<"%">>
                   [] Char = "c" -> <<Letter>>
                   [] Char = "s" -> String
                   [] Char = "x" -> PrintHex(arg))
          /\ state' = "chars" /\ UNCHANGED conversion /\ Keep

Percent == /\ printer = "alt_log_printf" /\ Reading("firstFmtChar") /\ Char = "%"
           /\ Put(<<"%">>)
           /\ state' = "chars" /\ UNCHANGED conversion /\ Keep

LeadingZero == /\ printer = "alt_log_printf" /\ Reading("firstFmtChar") /\ Char = "0"
               /\ conversion' = [conversion EXCEPT !.zero = TRUE]
               /\ state' = "otherFmtChar" /\ UNCHANGED out /\ Keep

\* The first character, unless it is one of those two, is read like the others.
ReadingSpec == /\ printer = "alt_log_printf"
               /\ \/ Reading("otherFmtChar")
                  \/ Reading("firstFmtChar") /\ Char \notin {"%", "0"}

Point == /\ ReadingSpec /\ Char = "."
         /\ conversion' = [conversion EXCEPT !.after = 0]
         /\ state' = "otherFmtChar" /\ UNCHANGED out /\ Keep

FieldDigit == /\ ReadingSpec /\ Char \in DigitChars
              /\ LET more(n) == (IF n < 0 THEN 0 ELSE n * 10) + DigitOf(Char)
                 IN conversion' = IF conversion.after < 0
                                  THEN [conversion EXCEPT !.before = more(@)]
                                  ELSE [conversion EXCEPT !.after = more(@)]
              /\ state' = "otherFmtChar" /\ UNCHANGED out /\ Keep

\* int and long are as wide.
Long == /\ ReadingSpec /\ Char = "l"
        /\ state' = "otherFmtChar" /\ UNCHANGED <<conversion, out>> /\ Keep

Number == /\ ReadingSpec /\ Char \in Letters
          /\ conversion' = [conversion EXCEPT
                               !.signed = Char \in {"d", "i"}, !.upper = Char = "X",
                               !.base = CASE Char = "o" -> 8 [] Char \in {"x", "X"} -> 16
                                          [] OTHER -> 10]
          /\ Put(doIntegerPrint(arg, conversion'))
          /\ state' = "chars" /\ Keep

CharOrString == /\ ReadingSpec /\ Char \in {"c", "s"}
                /\ LET chars == IF Char = "c" THEN <<Letter>> ELSE String
                   IN Put(Repeat(" ", conversion.before - Len(chars)) \o chars)
                /\ state' = "chars" /\ UNCHANGED conversion /\ Keep

Next == \/ End \/ Routine \/ PlainChar \/ StartConversion \/ Printf \/ Percent \/ LeadingZero
        \/ Point \/ FieldDigit \/ Long \/ Number \/ CharOrString

Spec == Init /\ [][Next]_vars

-----------------------------------------------------------------------------
(***************************************************************************)
(* What the characters say.                                                *)
(***************************************************************************)
\* Digits, the most significant first, as a number.
Said(digits, base) ==
    LET said[k \in 0 .. Len(digits)] == IF k = 0 THEN 0 ELSE said[k - 1] * base + digits[k]
    IN said[Len(digits)]

IsNumeral(chars, n, base, numeral) ==
    /\ \A i \in DOMAIN chars : \E d \in 0 .. base - 1 : chars[i] = numeral[d + 1]
    /\ Said([i \in DOMAIN chars |-> CHOOSE d \in 0 .. base - 1 : numeral[d + 1] = chars[i]], base) = n
    /\ Len(chars) > 1 => chars[1] # "0"

\* n, with a minus sign if minus, in a field of the width, filled up with c.
IsField(chars, n, minus, base, numeral, width, c) ==
    LET sign == IF minus THEN <<"-">> ELSE <<>>
        fill(k) == Repeat(c, width - k - Len(sign))
    IN \E i \in DOMAIN chars :
          LET figures == SubSeq(chars, i, Len(chars))
          IN /\ IsNumeral(figures, n, base, numeral)
             /\ chars = IF c = "0" THEN sign \o fill(Len(figures)) \o figures
                                   ELSE fill(Len(figures)) \o sign \o figures

\* The width a format gives, its letter, and what follows the character before
\* the conversion.
WidthOf(format) ==
    LET digits == {i \in 3 .. Len(format) : /\ format[i] \in DigitChars
                                            /\ \A j \in 3 .. i : format[j] \in DigitChars}
    IN Said([i \in 1 .. Cardinality(digits) |-> DigitOf(format[i + 2])], 10)
Body == Tail(out)

LogRight(letter) ==
    CASE letter = "%" -> Body = <<"%">>
      [] letter = "c" -> Body = Repeat(" ", WidthOf(fmt) - 1) \o <<Letter>>
      [] letter = "s" -> Body = Repeat(" ", WidthOf(fmt) - 2) \o String
      [] OTHER ->
            LET negative == letter \in {"d", "i"} /\ arg >= 2 ^ (WordBits - 1)
            IN IsField(Body, IF negative THEN 2 ^ WordBits - arg ELSE arg, negative,
                       CASE letter = "o" -> 8 [] letter \in {"x", "X"} -> 16 [] OTHER -> 10,
                       IF letter = "X" THEN UpperNumeral ELSE Numeral,
                       WidthOf(fmt), IF fmt[3] = "0" THEN "0" ELSE " ")

\* The characters that a call puts out are the number it was given, in the base
\* and the field the format asks for; the routines of the camera programs, which
\* have no format, put out plain, aligned or hexadecimal numbers.  (byte2bcd()
\* does not from 100 to 109 and from 200 to 209.)
TextRight ==
    state = "done" =>
        CASE printer = "alt_log_printf" -> LogRight(fmt[Len(fmt)])
          [] printer = "alt_printf" -> /\ fmt[3] = "x" => IsNumeral(Body, arg, 16, Numeral)
                                       /\ fmt[3] = "c" => Body = <<Letter>>
                                       /\ fmt[3] = "s" => Body = String
                                       /\ fmt[3] = "%" => Body = <<"%">>
          [] printer = "byte2bcd" -> \/ arg > 99 /\ arg % 100 < 10
                                     \/ IsNumeral(out, arg, 10, Numeral)
          [] printer = "byte2bcd4" -> IsField(out, arg, FALSE, 10, Numeral, 4, " ")
          [] printer = "word2ascii" -> IsField(out, arg, FALSE, 16, UpperNumeral, WordBits \div 8, "0")
          [] printer = "long_word2ascii" -> IsField(out, arg, FALSE, 16, UpperNumeral, WordBits \div 4, "0")
          [] printer = "dword2decimal" -> IsNumeral(out, arg, 10, Numeral)
=============================================================================
