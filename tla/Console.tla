------------------------------- MODULE Console -------------------------------
(***************************************************************************)
(* kern/console.c and lib/readline.c: from the codes that a keyboard sends *)
(* to the line that a program reads, with the screen that shows it.        *)
(***************************************************************************)
EXTENDS Integers, Sequences
LOCAL INSTANCE SequencesExt

\* Small sizes.
CONSBUFSIZE == 3
BUFLEN      == 5
CRT_COLS    == 3
CRT_SIZE    == 3 * CRT_COLS

NO == "NO"  \* no character: 0 in the code

-----------------------------------------------------------------------------
(***************************************************************************)
(* The keyboard sends <<"down", code>> and <<"up", code>>, and "E0" in     *)
(* front for a key that shares its code with an older one.  The tables are *)
(* indexed by the code and whether it had the prefix.                      *)
(***************************************************************************)
shiftcode(key) ==
    IF key \in {<<"lshift", FALSE>>, <<"rshift", FALSE>>} THEN {"SHIFT"}
    ELSE IF key[1] = "ctrl" THEN {"CTL"} ELSE IF key[1] = "alt" THEN {"ALT"} ELSE {}
togglecode(key) == IF key = <<"caps", FALSE>> THEN {"CAPSLOCK"} ELSE {}

keypad(key, other) == IF key = <<"dot", TRUE>> THEN "KEY_DEL" ELSE other
normalmap(key) ==
    IF key = <<"seven", TRUE>> THEN "KEY_HOME" ELSE IF key = <<"seven", FALSE>> THEN "7"
    ELSE keypad(key, IF key = <<"a", FALSE>> THEN "a" ELSE IF key = <<"dot", FALSE>> THEN "." ELSE NO)
shiftmap(key) == IF key = <<"a", FALSE>> THEN "A" ELSE normalmap(key)
ctlmap(key) == keypad(key, IF key = <<"a", FALSE>> THEN "^A" ELSE NO)
charcode(shift, key) ==
    IF "CTL" \in shift THEN ctlmap(key) ELSE IF "SHIFT" \in shift THEN shiftmap(key) ELSE normalmap(key)

\* The static variable shift, the character and whether the machine restarts.
kbd_proc_data(shift, data) ==
    IF data = "E0" THEN [shift |-> shift \cup {"E0ESC"}, c |-> NO, reboot |-> FALSE]
    ELSE LET key == <<data[2], "E0ESC" \in shift>>
             plain == shift \ {"E0ESC"}
             held == plain \cup shiftcode(key)
             now == (held \ togglecode(key)) \cup (togglecode(key) \ held)
             c == charcode(now, key)
             swapped == IF c = "a" THEN "A" ELSE IF c = "A" THEN "a" ELSE c
         IN  IF data[1] = "up" THEN [shift |-> plain \ shiftcode(key), c |-> NO, reboot |-> FALSE]
             ELSE [shift |-> now, c |-> IF "CAPSLOCK" \in now THEN swapped ELSE c,
                   reboot |-> {"CTL", "ALT"} \subseteq now /\ c = "KEY_DEL"]

-----------------------------------------------------------------------------
(***************************************************************************)
(* The circular buffer of characters that wait for a reader.               *)
(***************************************************************************)
NextPos(pos) == IF pos + 1 = CONSBUFSIZE THEN 0 ELSE pos + 1

cons_intr(cons, c) == IF c = NO THEN cons ELSE [cons EXCEPT !.buf[cons.wpos] = c, !.wpos = NextPos(@)]

\* The buffer and the character; the characters that the devices have are polled first.
cons_getc(cons0, polled) ==
    LET cons == FoldLeft(cons_intr, cons0, polled)
    IN  IF cons.rpos = cons.wpos THEN [cons |-> cons, c |-> NO]
        ELSE [cons |-> [cons EXCEPT !.rpos = NextPos(@)], c |-> cons.buf[cons.rpos]]

-----------------------------------------------------------------------------
(***************************************************************************)
(* The screen, and a line that is typed on it.                             *)
(***************************************************************************)
Scrolled(scr) ==
    IF scr.pos < CRT_SIZE THEN scr
    ELSE [buf |-> [i \in 0..CRT_SIZE - 1 |-> IF i < CRT_SIZE - CRT_COLS THEN scr.buf[i + CRT_COLS] ELSE " "],
          pos |-> scr.pos - CRT_COLS]
LineStart(pos) == pos - (pos % CRT_COLS)

RECURSIVE cga_putc(_, _)
cga_putc(scr, c) ==
    Scrolled(CASE c = "BS" -> IF scr.pos > 0 THEN [buf |-> [scr.buf EXCEPT ![scr.pos - 1] = " "], pos |-> scr.pos - 1] ELSE scr
               [] c = "NL" -> [scr EXCEPT !.pos = LineStart(@ + CRT_COLS)]
               [] c = "CR" -> [scr EXCEPT !.pos = LineStart(@)]
               [] c = "TAB" -> FoldLeft(cga_putc, scr, <<" ", " ", " ", " ", " ">>)
               [] OTHER -> [buf |-> [scr.buf EXCEPT ![scr.pos] = c], pos |-> scr.pos + 1])

\* One character of readline; st is what it has in buf, whether it returned, the screen.
Typed(st, c) ==
    IF st.done THEN st
    ELSE IF c \in {"BS", "DEL"} /\ st.line # <<>> THEN [st EXCEPT !.line = Front(@), !.scr = cga_putc(@, "BS")]
    ELSE IF c \notin {"BS", "TAB", "NL", "CR"} /\ Len(st.line) < BUFLEN - 1
    THEN [st EXCEPT !.line = Append(@, c), !.scr = cga_putc(@, c)]
    ELSE IF c \in {"NL", "CR"} THEN [st EXCEPT !.done = TRUE, !.scr = cga_putc(@, "NL")]
    ELSE st

Blank(pos) == [buf |-> [i \in 0..CRT_SIZE - 1 |-> " "], pos |-> pos]
readline(scr, prompt, keys) ==
    FoldLeft(Typed, [line |-> <<>>, done |-> FALSE, scr |-> FoldLeft(cga_putc, scr, prompt)], keys)

-----------------------------------------------------------------------------
\* The keys of a keyboard, as code and prefix, and what they send.
Keyboard == {<<"a", FALSE>>, <<"lshift", FALSE>>, <<"rshift", FALSE>>, <<"caps", FALSE>>, <<"ctrl", FALSE>>,
             <<"ctrl", TRUE>>, <<"alt", FALSE>>, <<"dot", TRUE>>, <<"seven", TRUE>>}
Modifiers(m) == {key \in Keyboard : m \in shiftcode(key)}

\* Keys that are pressed and let go in turn: keys[i] changes.
Held(keys, n) == {key \in Keyboard : Len(SelectSeq(SubSeq(keys, 1, n), LAMBDA k : k = key)) % 2 = 1}
Codes(keys) == FlattenSeq([i \in DOMAIN keys |->
    LET code == <<<<IF keys[i] \in Held(keys, i) THEN "down" ELSE "up", keys[i][1]>>>>
    IN  IF keys[i][2] THEN <<"E0">> \o code ELSE code])
Sent(keys) == FoldLeft(LAMBDA st, data : kbd_proc_data(st.shift, data), [shift |-> {}, c |-> NO, reboot |-> FALSE], Codes(keys))

\* As long as no two keys with the same function are held at once, the key that is
\* pressed gives the character that the held keys ask for: Control before Shift, Caps
\* Lock for letters only, and Control-Alt-Delete restarts the machine (console.c:340-367).
\* Home gives nothing with Control.
ASSUME KeysAreTyped ==
    \A keys \in UNION {[1..n -> Keyboard] : n \in 1..4} :
        LET held == Held(keys, Len(keys))
            Down(m) == Modifiers(m) \cap held # {}
            key == keys[Len(keys)]
            locked == Len(SelectSeq(keys, LAMBDA k : k = <<"caps", FALSE>>)) % 4 \in {1, 2}
            alone == \A n \in DOMAIN keys, m \in {"SHIFT", "CTL"} : ~Modifiers(m) \subseteq Held(keys, n)
        IN  alone => /\ Sent(keys).c = IF key \notin held THEN NO
                                       ELSE IF key = <<"a", FALSE>>
                                       THEN IF Down("CTL") THEN "^A" ELSE IF locked # Down("SHIFT") THEN "A" ELSE "a"
                                       ELSE IF key = <<"dot", TRUE>> THEN "KEY_DEL"
                                       ELSE IF key = <<"seven", TRUE>> /\ ~Down("CTL") THEN "KEY_HOME" ELSE NO
                     /\ Sent(keys).reboot <=> (key = <<"dot", TRUE>> /\ key \in held /\ Down("CTL") /\ Down("ALT"))

\* The buffer is a queue that forgets everything when its last place is taken: cons_intr
\* does not look where the reader is (console.c:411), and equal positions mean empty.
Queued(q, c) == IF Len(q) + 1 = CONSBUFSIZE THEN <<>> ELSE Append(q, c)
Step(st, e) ==
    IF e # "get" THEN [st EXCEPT !.cons = cons_intr(@, e), !.q = Queued(@, e)]
    ELSE LET r == cons_getc(st.cons, <<>>)
         IN  [cons |-> r.cons, q |-> IF st.q = <<>> THEN <<>> ELSE Tail(st.q),
              same |-> st.same /\ r.c = IF st.q = <<>> THEN NO ELSE Head(st.q)]
ASSUME InputIsQueued ==
    \A events \in [1..7 -> {"x", "y", "get"}] :
        FoldLeft(Step, [cons |-> [buf |-> [i \in 0..CONSBUFSIZE - 1 |-> NO], rpos |-> 0, wpos |-> 0], q |-> <<>>, same |-> TRUE],
                 events).same

\* Wherever the line begins, the screen shows the prompt and what readline has of the
\* line, and nothing else, although the line wraps, the screen scrolls and characters
\* are rubbed out (readline.c:28-35, console.c:174-207).
ASSUME EchoIsLine ==
    \A pos \in 0..CRT_SIZE - 1, keys \in UNION {[1..n -> {"x", "BS", "DEL", "TAB"}] : n \in 0..6} :
        LET st == readline(Blank(pos), <<"$">>, keys)
            text == <<"$">> \o st.line
            Shows(up) == \A i \in 0..CRT_SIZE - 1 :
                LET k == i + CRT_COLS * up - pos + 1 IN st.scr.buf[i] = IF k \in DOMAIN text THEN text[k] ELSE " "
        IN  \E up \in 0..3 : st.scr.pos = pos + Len(text) - CRT_COLS * up /\ Shows(up)
=============================================================================
