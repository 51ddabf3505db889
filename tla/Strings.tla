------------------------------- MODULE Strings -------------------------------
(***************************************************************************)
(* lib/string.c: the functions that copy and compare, and strtol.  Memory  *)
(* is a function from addresses to bytes, a string the sequence of its     *)
(* characters, without the 0 behind them.                                  *)
(***************************************************************************)
EXTENDS Integers, Sequences, SequencesExt

WordSize == 2  \* 4 in the code
MemSize  == 9

-----------------------------------------------------------------------------
\* rep movs: count units of so many bytes, from the address of the first unit on, or
\* from that of the last one back.
RepMovs(mem, dst, src, count, unit, back) ==
    LET Moved[k \in 0..count] ==
          IF k = 0 THEN mem
          ELSE LET at == unit * (IF back THEN count - k ELSE k - 1)
                   m == Moved[k - 1]
               IN  [a \in DOMAIN m |-> IF a - dst - at \in 0..unit - 1 THEN m[a - dst + src] ELSE m[a]]
    IN  Moved[count]

memmove(mem, dst, src, n) ==
    LET back == src < dst /\ src + n > dst
        words == (src + (IF back THEN n ELSE 0)) % WordSize = 0 /\ (dst + (IF back THEN n ELSE 0)) % WordSize = 0 /\ n % WordSize = 0
    IN  IF words THEN RepMovs(mem, dst, src, n \div WordSize, WordSize, back) ELSE RepMovs(mem, dst, src, n, 1, back)

\* A copy leaves at the destination what was at the source before, and changes nothing
\* else, whichever way the two overlap (string.c:151-169).
ASSUME MoveIsExact ==
    LET mem == [a \in 0..MemSize - 1 |-> a]
    IN  \A dst, src, n \in 0..MemSize : dst + n <= MemSize /\ src + n <= MemSize =>
            memmove(mem, dst, src, n) = [a \in 0..MemSize - 1 |-> IF a \in dst..dst + n - 1 THEN mem[a - dst + src] ELSE mem[a]]

-----------------------------------------------------------------------------
\* What is written at the destination, and the number that is returned.
strlcpy(src, size) ==
    IF size = 0 THEN [to |-> <<>>, r |-> 0]
    ELSE LET n == IF Len(src) < size - 1 THEN Len(src) ELSE size - 1
         IN  [to |-> SubSeq(src, 1, n) \o <<0>>, r |-> n]
strncpy(src, size) == [i \in 1..size |-> IF i <= Len(src) THEN src[i] ELSE 0]

\* Both strings go on with a 0 behind them.
CharAt(s, i) == IF i <= Len(s) THEN s[i] ELSE 0
strncmp(p, q, n) ==
    LET stops == {i \in 1..n : CharAt(p, i) = 0 \/ CharAt(p, i) # CharAt(q, i)}
        first == CHOOSE i \in stops : \A j \in stops : i <= j
    IN  IF stops = {} THEN 0 ELSE CharAt(p, first) - CharAt(q, first)
strcmp(p, q) == strncmp(p, q, Len(p) + 1)

\* strcmp orders strings as a dictionary does, strncmp their first n characters; a copy
\* with strlcpy never takes more than size bytes and compares equal as far as it goes,
\* and strncpy need not end the string (string.c:50-96).
Precedes(p, q) ==
    \/ p # q /\ IsPrefix(p, q)
    \/ \E i \in 1..Len(p) : i <= Len(q) /\ SubSeq(p, 1, i - 1) = SubSeq(q, 1, i - 1) /\ p[i] < q[i]
ASSUME StringsAreOrdered ==
    \A p, q \in UNION {[1..n -> 1..3] : n \in 0..3}, n \in 0..4 :
        LET Cut(s) == SubSeq(s, 1, IF n < Len(s) THEN n ELSE Len(s))
        IN  /\ strcmp(p, q) < 0 <=> Precedes(p, q)
            /\ strcmp(p, q) = 0 <=> p = q
            /\ strncmp(p, q, n) = strcmp(Cut(p), Cut(q))
            /\ Len(strlcpy(p, n).to) <= n /\ (n > 0 => strncmp(strlcpy(p, n).to, p, strlcpy(p, n).r) = 0)
            /\ Len(strncpy(p, n)) = n /\ (0 \in Range(strncpy(p, n)) <=> Len(p) < n)

-----------------------------------------------------------------------------
\* Characters of a number; any other one ends it.
Digits == [c \in {"0", "7", "9", "a"} |-> CASE c = "0" -> 0 [] c = "7" -> 7 [] c = "9" -> 9 [] c = "a" -> 10]
FirstOf(s) == IF s = <<>> THEN "end" ELSE Head(s)
DropFirst(s, n) == SubSeq(s, n + 1, Len(s))

RECURSIVE GobbleBlanks(_)
GobbleBlanks(s) == IF FirstOf(s) = " " THEN GobbleBlanks(Tail(s)) ELSE s

\* val, and what *endptr points to.
RECURSIVE Accumulate(_, _, _)
Accumulate(s, base, val) ==
    IF FirstOf(s) \in DOMAIN Digits /\ Digits[FirstOf(s)] < base
    THEN Accumulate(Tail(s), base, val * base + Digits[Head(s)]) ELSE [val |-> val, end |-> s]

strtol(s, base) ==
    LET t == GobbleBlanks(s)
        u == IF FirstOf(t) \in {"+", "-"} THEN Tail(t) ELSE t
        hex == base \in {0, 16} /\ Len(u) > 1 /\ u[1] = "0" /\ u[2] = "x"
        octal == base = 0 /\ FirstOf(u) = "0"
        res == IF hex THEN Accumulate(DropFirst(u, 2), 16, 0)
               ELSE IF octal THEN Accumulate(Tail(u), 8, 0)
               ELSE Accumulate(u, IF base = 0 THEN 10 ELSE base, 0)
    IN  IF FirstOf(t) = "-" THEN [res EXCEPT !.val = -@] ELSE res

\* The number is the one that its digits write in the base that its beginning shows, and
\* *endptr is the first character that is no digit of it (string.c:257-285).  A prefix or a
\* sign without digits behind it is taken all the same.  The numbers here fit in a long.
ASSUME NumbersAreRead ==
    \A s \in UNION {[1..n -> {" ", "-", "0", "x", "7", "9", "a"}] : n \in 0..4}, base \in {0, 8, 10, 16} :
        LET res == strtol(s, base)
            taken == SubSeq(s, 1, Len(s) - Len(res.end))
            shown == IF \E i \in 1..Len(taken) - 1 : taken[i] = "0" /\ taken[i + 1] = "x" THEN 16
                     ELSE IF \E i \in 1..Len(taken) : taken[i] = "0" /\ \A j \in 1..i - 1 : taken[j] \in {" ", "-"} THEN 8 ELSE 10
            b == IF base = 0 THEN shown ELSE base
            place(i) == Len(taken) - i
        IN  /\ taken \o res.end = s
            /\ FirstOf(res.end) \in DOMAIN Digits => Digits[FirstOf(res.end)] >= b
            /\ \A c \in Range(taken) : c \in DOMAIN Digits => Digits[c] < b
            /\ res.val = (IF "-" \in Range(taken) THEN -1 ELSE 1) *
                    FoldFunction(+, 0, [i \in {j \in DOMAIN taken : taken[j] \in DOMAIN Digits} |-> Digits[taken[i]] * b^place(i)])
=============================================================================
