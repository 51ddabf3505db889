------------------------------- MODULE Format --------------------------------
(***************************************************************************)
(* vprintfmt and vsnprintf of lib/printfmt.c.  A format is a sequence of   *)
(* characters, a string argument too; the other arguments are numbers of   *)
(* wbits bits, and long long is wide enough for them.  The conversions c,  *)
(* e and p and the flags # and l are left out.                             *)
(***************************************************************************)
EXTENDS Integers, Sequences, SequencesExt

wbits  == 8
NUL    == "nul"  \* the character 0
Symbol == <<"0", "1", "2", "3", "4", "5", "6", "7", "8", "9", "a", "b", "c", "d", "e", "f">>
Number == [c \in {Symbol[i] : i \in 1..10} |-> CHOOSE i \in 0..9 : Symbol[i + 1] = c]
Times(c, n) == [i \in 1..(IF n > 0 THEN n ELSE 0) |-> c]

-----------------------------------------------------------------------------
RECURSIVE printnum(_, _, _, _)
printnum(num, base, width, padc) ==
    Append(IF num >= base THEN printnum(num \div base, base, width - 1, padc) ELSE Times(padc, width - 1),
           Symbol[(num % base) + 1])

getuint(arg) == IF arg < 0 THEN arg + 2^wbits ELSE arg

\* Case 's': a precision of -1 takes all of the string.
PrintString(p, spec) ==
    LET n == IF spec.precision < 0 \/ spec.precision > Len(p) THEN Len(p) ELSE spec.precision
        pad == spec.width - n
    IN  IF spec.padc = "-" THEN SubSeq(p, 1, n) \o Times(" ", pad) ELSE Times(spec.padc, pad) \o SubSeq(p, 1, n)

\* Case 'd': the sign is not part of the number that printnum pads.
PrintInt(num, spec) ==
    IF num < 0 THEN <<"-">> \o printnum(-num, 10, spec.width, spec.padc) ELSE printnum(num, 10, spec.width, spec.padc)

\* process_precision: the first number is the width, a second one the precision.
WithNumber(spec, n) == IF spec.width < 0 THEN [spec EXCEPT !.width = n] ELSE [spec EXCEPT !.precision = n]

Unset == [padc |-> " ", width |-> -1, precision |-> -1]
DigitsAt(fmt) == CHOOSE n \in 0..Len(fmt) : /\ \A i \in 1..n : fmt[i] \in DOMAIN Number
                                            /\ n < Len(fmt) => fmt[n + 1] \notin DOMAIN Number
ValueOf(digits) == FoldLeft(LAMBDA v, c : 10 * v + Number[c], 0, digits)

\* From reswitch on.  whole is the format behind the %, with which an escape that nobody
\* knows is printed as it is.
RECURSIVE vprintfmt(_, _), Escape(_, _, _, _)
Escape(fmt, args, spec, whole) ==
    LET c == Head(fmt)
        rest == Tail(fmt)
        n == DigitsAt(fmt)
        Then(out) == out \o vprintfmt(rest, Tail(args))
    IN  IF fmt = <<>> THEN <<"%">> \o vprintfmt(whole, args)
        ELSE CASE c \in {"-", "0"} -> Escape(rest, args, [spec EXCEPT !.padc = c], whole)
               [] c \in DOMAIN Number /\ c # "0" ->
                    Escape(SubSeq(fmt, n + 1, Len(fmt)), args, WithNumber(spec, ValueOf(SubSeq(fmt, 1, n))), whole)
               [] c = "*" -> Escape(rest, Tail(args), WithNumber(spec, Head(args)), whole)
               [] c = "." -> Escape(rest, args, [spec EXCEPT !.width = IF @ < 0 THEN 0 ELSE @], whole)
               [] c = "s" -> Then(PrintString(Head(args), spec))
               [] c = "d" -> Then(PrintInt(Head(args), spec))
               [] c = "u" -> Then(printnum(getuint(Head(args)), 10, spec.width, spec.padc))
               [] c = "o" -> Then(printnum(getuint(Head(args)), 8, spec.width, spec.padc))
               [] c = "x" -> Then(printnum(getuint(Head(args)), 16, spec.width, spec.padc))
               [] c = "%" -> <<"%">> \o vprintfmt(rest, args)
               [] OTHER -> <<"%">> \o vprintfmt(whole, args)
vprintfmt(fmt, args) ==
    IF fmt = <<>> THEN <<>>
    ELSE IF Head(fmt) = "%" THEN Escape(Tail(fmt), args, Unset, Tail(fmt))
    ELSE <<Head(fmt)>> \o vprintfmt(Tail(fmt), args)

\* What is in the buffer, and the number that is returned.
vsnprintf(n, fmt, args) ==
    LET out == vprintfmt(fmt, args)
    IN  IF n < 1 THEN [buf |-> <<>>, r |-> -3]  \* -E_INVAL
        ELSE [buf |-> Append(SubSeq(out, 1, IF Len(out) < n THEN Len(out) ELSE n - 1), NUL), r |-> Len(out)]

-----------------------------------------------------------------------------
\* The number that digits write in a base.
ReadBack(digits, base) ==
    FoldLeft(LAMBDA v, c : base * v + (CHOOSE i \in 0..15 : Symbol[i + 1] = c), 0, digits)
Zeros(s) == {i \in DOMAIN s : \A j \in 1..i : s[j] = "0"}

\* A number is written in its base, in at least as many characters as its width, which 0
\* or blanks in front of it fill (printfmt.c:44-59, 199-236).  A sign comes before all of
\* them and is not counted.
ASSUME NumbersArePrinted ==
    \A num \in {-128, -17, -1, 0, 7, 8, 99, 127}, width \in 0..4, flag \in {<<>>, <<"0">>}, conv \in {"d", "u", "o", "x"} :
        LET out == vprintfmt(<<"%">> \o flag \o (IF width = 0 THEN <<>> ELSE <<Symbol[width + 1]>>) \o <<conv>>, <<num>>)
            signed == conv = "d" /\ num < 0
            body == IF signed THEN Tail(out) ELSE out
            base == CASE conv = "o" -> 8 [] conv = "x" -> 16 [] OTHER -> 10
            fill == {i \in DOMAIN body : body[i] = " "} \cup (Zeros(body) \ {Len(body)})
            digits == SelectSeq(body, LAMBDA c : c # " ")
        IN  /\ signed => Head(out) = "-"
            /\ ReadBack(digits, base) = IF signed THEN -num ELSE getuint(num)
            /\ Len(body) >= width /\ (Len(body) > width => fill = {})
            /\ \A i \in fill : body[i] = IF flag = <<>> THEN " " ELSE "0"
            /\ \E k \in 0..Len(body) : fill = 1..k

\* A string is cut to its precision and then filled up to its width, on the left or,
\* after a "-", on the right, also when * takes them from the arguments
\* (printfmt.c:183-197).
ASSUME StringsArePrinted ==
    \A len, width, precision \in 0..3, left \in BOOLEAN, star \in BOOLEAN :
        LET p == SubSeq(<<"x", "y", "z">>, 1, len)
            minus == IF left THEN <<"-">> ELSE <<>>
            cut == SubSeq(p, 1, IF precision < len THEN precision ELSE len)
            fmt == IF star THEN <<"%">> \o minus \o <<"*", ".", "*", "s">>
                   ELSE <<"%">> \o minus \o <<Symbol[width + 1], ".", Symbol[precision + 1], "s">>
            fill == Times(" ", width - Len(cut))
        IN  star \/ (width > 0 /\ precision > 0) =>
              vprintfmt(fmt, IF star THEN <<width, precision, p>> ELSE <<p>>) = IF left THEN cut \o fill ELSE fill \o cut

\* vsnprintf never writes more than n characters, ends them with 0, cuts what does not
\* fit and returns the length of all of it; an escape that it does not know is printed as
\* it stands, and the arguments are still taken in order (printfmt.c:243-292).
ASSUME BufferIsBounded ==
    \A fmt \in UNION {[1..k -> {"a", "%", "d", "-", "q"}] : k \in 0..5}, n \in 0..4 :
        LET args == <<7, 8, 9, 10, 11>>
            out == vprintfmt(fmt, args)
            res == vsnprintf(n, fmt, args)
        IN  /\ Len(res.buf) <= n
            /\ n > 0 => /\ res.buf = Append(SubSeq(out, 1, Len(res.buf) - 1), NUL) /\ res.r = Len(out)
                        /\ Len(res.buf) < n => res.r = Len(res.buf) - 1
            /\ (\A i \in DOMAIN fmt : fmt[i] = "%" => i < Len(fmt) /\ fmt[i + 1] = "q") => out = fmt
            /\ SelectSeq(out, LAMBDA c : c \in DOMAIN Number /\ Number[c] > 6) =
                 SubSeq(<<"7", "8", "9">>, 1, Len(SelectSeq(out, LAMBDA c : c \in DOMAIN Number /\ Number[c] > 6)))
=============================================================================
