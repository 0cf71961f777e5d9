------------------------------ MODULE Formats ------------------------------
(***************************************************************************)
(* io::Output writing numbers and strings as characters, and io::Input     *)
(* scanning characters for numbers, words and lines.  Input keeps one      *)
(* character in hand (back()), and flags that stay until they are reset.   *)
(*                                                                         *)
(* A character is a number: a digit is its value, up to f, and the others  *)
(* have the names below.  Integers have W1 bits (long) or W2 bits (long    *)
(* long).  A decimal number is <<m, k>>, m / 10^k: the roundings of double *)
(* are left out.                                                           *)
(***************************************************************************)
EXTENDS Integers, Sequences, SequencesExt

CONSTANTS W1, W2,     \* width of a long and of a long long
          BufSize,    \* characters the buffer of an IntFormat may hold
          Items,      \* what the program may print
          Texts,      \* texts that were not printed by the program
          MaxItems    \* bound on the items printed or scanned

Parameters ==
  /\ 0 < W1 /\ W1 < W2 /\ MaxItems \in Nat
  /\ \A x \in Items : x.kind \in {"int", "float", "string", "bool"}

VARIABLES text,      \* what the stream holds
          printed,   \* the items that were printed
          n,         \* the Input: see FreshInput
          broken,    \* whether the stream ends with an error
          scans,     \* history: what was scanned, from where to where
          pc         \* "print", "scan" or "foreign"

vars == <<text, printed, n, broken, scans, pc>>

Letter_x == 20
Minus == 21
Plus == 22
Blank == 23
NewLine == 24
Dot == 25
Letter_t == 26
True == <<Letter_t, 27, 28, 14>>
False == <<15, 10, 29, 30, 14>>
isspace(c) == c \in {Blank, NewLine}

-----------------------------------------------------------------------------
(* Output                                                                   *)

RECURSIVE horner(_, _)
horner(v, base) ==
  IF v < base THEN <<v>> ELSE Append(horner(v \div base, base), v % base)

Spaces(k) == [j \in 1 .. k |-> Blank]

\* The padding of IntFormat and StringFormat; a width too small adds none.
Padded(s, width, align) ==
  LET room == IF width > Len(s) THEN width - Len(s) ELSE 0
      before == CASE align = "left" -> 0 [] align = "right" -> room [] OTHER -> room \div 2
  IN  Spaces(before) \o s \o Spaces(room - before)

\* print(IntFormat): the value is held in a long long; bin(), oct() and hex()
\* clear the sign.
Digits(f) ==
  LET neg == f.sign /\ f.val < 0
      uval == (IF neg THEN -f.val ELSE f.val) % 2^W2
      kept == IF ~f.sign /\ f.w # W2 THEN uval % 2^f.w ELSE uval
  IN  (IF f.plus /\ f.val > 0 THEN <<Plus>> ELSE IF neg THEN <<Minus>> ELSE <<>>)
      \o horner(kept, f.base)

printInt(f) == Padded(Digits(f), f.width, f.align)

\* print(FloatFormat) of decimal style: the digits from the last, without the
\* zeros that end the fraction.
RECURSIVE Fraction(_, _, _, _)
Fraction(v, prec, f, s) ==
  IF v = 0 THEN <<f, s>>
  ELSE LET keep == v % 10 # 0 \/ prec < 0 \/ f
           more == IF keep THEN <<v % 10>> \o s ELSE s
       IN  IF prec = 1 THEN Fraction(v \div 10, 0, TRUE, <<Dot>> \o more)
           ELSE Fraction(v \div 10, prec - 1, keep, more)

\* x * 10^prec, truncated.
Scaled(x, prec) ==
  IF x[2] <= prec THEN x[1] * 10^(prec - x[2]) ELSE x[1] \div 10^(x[2] - prec)

Completed(r) ==
  IF ~r[1] THEN <<0, Dot>> ELSE IF r[2][1] = Dot THEN <<0>> \o r[2] ELSE r[2]

printFloat(f) ==
  LET prec == IF f.decw = 0 THEN 6 ELSE f.decw
      s == Completed(Fraction(Scaled(f.val, prec), prec, FALSE, <<>>))
  IN  Padded(IF f.neg THEN <<Minus>> \o s ELSE s, f.width, f.align)

\* print(StringFormat): a string too long for the width is cut.
printString(f) ==
  IF f.width # 0 /\ Len(f.val) >= f.width THEN SubSeq(f.val, 1, f.width)
  ELSE Padded(f.val, f.width, f.align)

Chars(f) ==
  CASE f.kind = "int"    -> printInt(f)
    [] f.kind = "float"  -> printFloat(f)
    [] f.kind = "string" -> printString(f)
    [] f.kind = "bool"   -> IF f.val THEN True ELSE False

-----------------------------------------------------------------------------
(* Input: the place in the stream, the character in hand (-1: none), the    *)
(* flags; and of one call the last character, the result, the exception.    *)

FreshInput ==
  [pos |-> 0, buf |-> -1, state |-> {}, chr |-> -1, res |-> 0, exc |-> FALSE]

Flag(i, s) == [i EXCEPT !.state = @ \cup s]

get(i) ==
  CASE i.buf >= 0         -> [i EXCEPT !.chr = i.buf, !.buf = -1]
    [] i.pos < Len(text)  -> [i EXCEPT !.chr = text[i.pos + 1], !.pos = @ + 1]
    [] broken             -> [Flag(i, {"failed", "error"}) EXCEPT !.chr = -1, !.exc = TRUE]
    [] OTHER              -> [Flag(i, {"ended"}) EXCEPT !.chr = -2]

RECURSIVE skipFrom(_)
skipFrom(i) == IF isspace(i.chr) THEN skipFrom(get(i)) ELSE i

skip(i) == skipFrom(get(i))

back(i, c) == [i EXCEPT !.buf = c]

\* Mutation: the character that ended a number or a word is dropped.
backDropped(i) == i

backLast(i) == IF i.chr >= 0 THEN back(i, i.chr) ELSE i

Fail(i) == IF i.exc THEN i ELSE Flag(i, {"failed"})

\* scanBool() sets all the flags.
FailAll(i) == IF i.exc THEN i ELSE Flag(i, {"failed", "error", "ended"})

Result(i, v) == [i EXCEPT !.res = v]

\* The pattern is read as far as it matches; a failure sets all the flags.
RECURSIVE Matched(_, _, _, _)
Matched(i, pattern, k, v) ==
  IF i.chr # pattern[k] THEN Result(FailAll(i), FALSE)
  ELSE IF k = Len(pattern) THEN Result(i, v)
  ELSE Matched(get(i), pattern, k + 1, v)

BoolFrom(i) ==
  CASE i.chr \in {0, 1}    -> Result(i, i.chr = 1)
    [] i.chr = True[1]     -> Matched(i, True, 1, TRUE)
    [] i.chr = False[1]    -> Matched(i, False, 1, FALSE)
    [] OTHER               -> Result(FailAll(i), FALSE)

scanBool(i) == BoolFrom(get(i))

test_base(c, base) == IF c >= 0 /\ c < base THEN c ELSE -1

\* The prefix tells the base: 0x, 0b, 0 or none.
Prefixed(i, base) ==
  IF base # 0 THEN <<i, base, FALSE>>
  ELSE IF i.chr # 0 THEN <<i, 10, FALSE>>
  ELSE LET j == get(i)
       IN  CASE j.chr = Letter_x -> <<get(j), 16, FALSE>>
             [] j.chr = 11       -> <<get(j), 2, FALSE>>
             [] OTHER            -> <<j, 8, TRUE>>

\* The digits, with the test of overflow of the code: the last value, which
\* it keeps in a long, against the new one.
RECURSIVE Number(_, _, _, _, _)
Number(i, base, val, one, w) ==
  LET d == test_base(i.chr, base)
      new == (val * base + d) % 2^w
  IN  IF d < 0
      THEN Result(backLast(IF one THEN i ELSE Fail(i)), val)
      ELSE IF new < val % 2^W1 THEN Result(Fail(i), 0)
      ELSE Number(get(i), base, new, TRUE, w)

NumberFrom(p, w) == Number(p[1], p[2], 0, p[3], w)

\* scanULong() and scanULLong()
scanUnsigned(i, base, w) == NumberFrom(Prefixed(skip(i), base), w)

\* scanLong() and scanLLong(): the most negative number is refused.
Negated(i, neg, w) ==
  IF i.res >= 2^(w - 1) THEN Result(Fail(i), 0)
  ELSE Result(i, IF neg THEN -i.res ELSE i.res)

SignFrom(i, base, w) ==
  CASE i.chr = Minus -> Negated(scanUnsigned(i, base, w), TRUE, w)
    [] i.chr = Plus  -> Negated(scanUnsigned(i, base, w), FALSE, w)
    [] i.chr < 0     -> Result(Fail(i), 0)
    [] OTHER         -> Negated(scanUnsigned(back(i, i.chr), base, w), FALSE, w)

scanSigned(i, base, w) == SignFrom(skip(i), base, w)

\* scanDouble(): the result is <<negative, m, k>>; the sign of the exponent is
\* read and forgotten.  A run of digits: <<input, m, k, one>>.
RECURSIVE Decimals(_, _, _, _, _)
Decimals(i, m, k, step, one) ==
  IF i.chr \in 0 .. 9 THEN Decimals(get(i), m * 10 + i.chr, k + step, step, TRUE)
  ELSE <<i, m, k, one>>

PointFrom(d) == IF d[1].chr = Dot THEN Decimals(get(d[1]), d[2], d[3], 1, d[4]) ELSE d

SignSkipped(i) == IF i.chr \in {Minus, Plus} THEN get(i) ELSE i

NoDouble(i) == Result(Fail(i), <<FALSE, 0, 0>>)

ExponentFrom(d, e, neg) ==
  IF ~e[4] THEN NoDouble(e[1]) ELSE Result(backLast(e[1]), <<neg, d[2], d[3] - e[2]>>)

DoubleFrom(d, neg) ==
  CASE ~d[4]          -> NoDouble(d[1])
    [] d[1].chr = 14  -> ExponentFrom(d, Decimals(SignSkipped(get(d[1])), 0, 0, 0, FALSE), neg)
    [] OTHER          -> Result(backLast(d[1]), <<neg, d[2], d[3]>>)

DoubleSigned(i) == DoubleFrom(PointFrom(Decimals(SignSkipped(i), 0, 0, 0, FALSE)), i.chr = Minus)

scanDouble(i) == DoubleSigned(skip(i))

RECURSIVE Until(_, _, _)
\* The characters up to one of the set, or to the end; last: with that one.
Until(i, stop, s) ==
  IF i.chr < 0 \/ i.chr \in stop THEN Result(i, s)
  ELSE Until(get(i), stop, Append(s, i.chr))

WordFrom(i) == IF i.res = <<>> THEN Fail(backLast(i)) ELSE backLast(i)

scanWord(i) == WordFrom(Until(skip(i), {Blank, NewLine}, <<>>))

LineFrom(i) == IF i.chr = NewLine THEN Result(i, Append(i.res, NewLine)) ELSE i

scanLine(i) == LineFrom(Until(get(i), {NewLine}, <<>>))

CharFrom(i) == IF i.chr < 0 THEN [i EXCEPT !.exc = TRUE] ELSE Result(i, <<i.chr>>)

scanChar(i) == CharFrom(get(i))

\* swallow() of a string: the expected character is put back, not the one read.
SwallowFrom(i, c) ==
  IF i.exc \/ i.chr = c THEN i ELSE [back(i, c) EXCEPT !.exc = TRUE]

swallow(i, s) == FoldLeft(LAMBDA j, c : IF j.exc THEN j ELSE SwallowFrom(get(j), c), i, s)

swallowBlank(i) == LET j == skip(i) IN IF j.exc THEN j ELSE back(j, j.chr)

-----------------------------------------------------------------------------
(* The program prints items and scans them back, or scans a text it did not *)
(* print, resetting the flags after a failure.                              *)

\* A call starts without a result or an exception.
Start(i) == [i EXCEPT !.res = 0, !.exc = FALSE]

Scanned(op, i) ==
  CASE op[1] = "unsigned" -> scanUnsigned(i, op[2], op[3])
    [] op[1] = "signed"   -> scanSigned(i, op[2], op[3])
    [] op[1] = "double"   -> scanDouble(i)
    [] op[1] = "bool"     -> scanBool(i)
    [] op[1] = "word"     -> scanWord(i)
    [] op[1] = "line"     -> scanLine(i)
    [] op[1] = "char"     -> scanChar(i)
    [] op[1] = "swallow"  -> swallow(i, op[2])
    [] op[1] = "blank"    -> swallowBlank(i)

Ops ==
  ({"unsigned", "signed"} \X {0, 10, 16} \X {W1, W2})
  \cup {<<"double">>, <<"bool">>, <<"word">>, <<"line">>, <<"char">>, <<"blank">>,
        <<"swallow", True>>}

\* How the program scans an item: decimal numbers with the default base.
OpFor(x) ==
  CASE x.kind = "int"   -> <<IF x.sign THEN "signed" ELSE "unsigned",
                             IF x.base = 10 THEN 0 ELSE x.base, x.w>>
    [] x.kind = "float" -> <<"double">>
    [] x.kind = "bool"  -> <<"bool">>
    [] OTHER            -> <<"word">>

Init ==
  /\ printed = <<>> /\ n = FreshInput /\ scans = <<>>
  /\ \/ pc = "print" /\ text = <<>> /\ broken = FALSE
     \/ pc = "foreign" /\ text \in Texts /\ broken \in BOOLEAN

print(x) ==
  /\ pc = "print" /\ Len(printed) < MaxItems
  /\ text' = text \o Chars(x) \o <<Blank>>
  /\ printed' = Append(printed, x)
  /\ UNCHANGED <<n, broken, scans, pc>>

rewind ==
  /\ pc = "print" /\ printed # <<>>
  /\ pc' = "scan" /\ UNCHANGED <<text, printed, n, broken, scans>>

scan(op, i) ==
  /\ n' = Scanned(op, Start(i))
  /\ scans' = Append(scans, [op |-> op, before |-> i, after |-> n'])
  /\ UNCHANGED <<text, printed, broken, pc>>

scanItem ==
  /\ pc = "scan" /\ Len(scans) < Len(printed) /\ n.state = {}
  /\ LET x == printed[Len(scans) + 1]
     IN  scan(OpFor(x), IF x.kind = "bool" THEN swallowBlank(n) ELSE n)

scanForeign ==
  /\ pc = "foreign" /\ Len(scans) < MaxItems /\ n.state \cap {"failed", "error"} = {}
  /\ \E op \in Ops : scan(op, n)

resetState ==
  /\ pc = "foreign" /\ n.state \cap {"failed", "error"} # {}
  /\ n' = [n EXCEPT !.state = @ \ {"failed", "error"}]
  /\ UNCHANGED <<text, printed, broken, scans, pc>>

Next == (\E x \in Items : print(x)) \/ rewind \/ scanItem \/ scanForeign \/ resetState

-----------------------------------------------------------------------------
(* What printing and scanning are for.                                      *)

\* The digits that an IntFormat writes in its buffer, in the bases it offers
\* (two only for a long without a sign).
DigitsFit ==
  \A k \in DOMAIN printed :
    printed[k].kind = "int"
    /\ (printed[k].base >= 8 \/ (printed[k].w = W1 /\ ~printed[k].sign /\ ~printed[k].plus))
      => Len(Digits(printed[k])) <= BufSize

\* The decimals of a FloatFormat.
Precision(x) == IF x.decw = 0 THEN 6 ELSE x.decw

SameDecimal(m, k, p, q) == m * 10^q = p * 10^k

ReadBack(x, i) ==
  CASE x.kind = "int"    -> IF x.sign /\ x.val = -(2^(x.w - 1)) THEN "failed" \in i.state
                            ELSE "failed" \notin i.state
                                 /\ i.res = IF x.sign THEN x.val ELSE x.val % 2^x.w
    [] x.kind = "float"  -> /\ "failed" \notin i.state
                            /\ i.res[1] = x.neg
                            /\ SameDecimal(i.res[2], i.res[3],
                                           Scaled(x.val, Precision(x)), Precision(x))
    [] x.kind = "bool"   -> "failed" \notin i.state /\ i.res = x.val
    [] x.kind = "string" -> "failed" \notin i.state
                            /\ i.res = IF x.width = 0 \/ Len(x.val) < x.width THEN x.val
                                       ELSE SubSeq(x.val, 1, x.width)

\* A decimal is printed with its point when it has a digit just after it.
PointPrinted(x) ==
  x.kind = "float" => LET s == Scaled(x.val, Precision(x))
                      IN  s = 0 \/ s >= 10^(Precision(x) - 1)

\* Items printed one after the other, in any format, are scanned back as they
\* were, whatever padding stands between them.
PrintedIsRead ==
  pc = "scan" =>
    \A k \in DOMAIN scans : PointPrinted(printed[k]) => ReadBack(printed[k], scans[k].after)

\* What the comments of print(FloatFormat) say of the decimal style.
DecimalIsRead ==
  pc = "scan" => \A k \in DOMAIN scans :
                   printed[k].kind = "float" => ReadBack(printed[k], scans[k].after)

\* What remains to be read.
Unread(i) == (IF i.buf >= 0 THEN <<i.buf>> ELSE <<>>) \o SubSeq(text, i.pos + 1, Len(text))

FirstNot(s, S) ==
  Min({Len(s) + 1} \cup {j \in DOMAIN s : s[j] \notin S})

Blanks == {Blank, NewLine}

After(s, j) == SubSeq(s, j, Len(s))

\* The number at the start of a text: its value and the text behind it.
Denoted(s, base) ==
  LET b == CASE base # 0                                   -> base
             [] s = <<>> \/ s[1] # 0                       -> 10
             [] Len(s) > 1 /\ s[2] = Letter_x              -> 16
             [] Len(s) > 1 /\ s[2] = 11                    -> 2
             [] OTHER                                      -> 8
      d == IF base = 0 /\ b \in {2, 16} THEN After(s, 3) ELSE s
      len == FirstNot(d, 0 .. b - 1) - 1
  IN  [has  |-> len > 0,
       val  |-> FoldLeft(LAMBDA v, c : v * b + c, 0, SubSeq(d, 1, len)),
       rest |-> After(d, len + 1)]

Trimmed(s) == After(s, FirstNot(s, Blanks))

\* A number that fits is scanned exactly and no character behind it is lost;
\* a text without a number is a failure.
NumbersExact ==
  \A k \in DOMAIN scans :
    LET x == scans[k]
        s == Trimmed(Unread(x.before))
        neg == x.op[1] = "signed" /\ s # <<>> /\ s[1] = Minus
        signed == x.op[1] = "signed" /\ s # <<>> /\ s[1] \in {Minus, Plus}
        d == Denoted(IF signed THEN Trimmed(After(s, 2)) ELSE s, x.op[2])
        fits == d.val < IF x.op[1] = "signed" THEN 2^(x.op[3] - 1) ELSE 2^x.op[3]
    IN  x.op[1] \in {"unsigned", "signed"} /\ ~x.after.exc =>
          /\ d.has /\ fits => /\ "failed" \notin x.after.state
                              /\ x.after.res = IF neg THEN -d.val ELSE d.val
                              /\ Unread(x.after) = d.rest
          /\ ~d.has => "failed" \in x.after.state

\* Words and lines: what is returned and what remains make what there was.
WordsExact ==
  \A k \in DOMAIN scans :
    LET x == scans[k]
        was == Unread(x.before)
    IN  ~x.after.exc =>
          /\ x.op[1] \in {"line", "char"} => was = x.after.res \o Unread(x.after)
          /\ x.op[1] = "word" => Trimmed(was) = x.after.res \o Unread(x.after)
          /\ x.op[1] = "blank" => Trimmed(was) = Unread(x.after)
=============================================================================
