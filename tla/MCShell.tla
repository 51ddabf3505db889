------------------------------- MODULE MCShell ------------------------------
(* Model-checking instances of Shell, on lines that Parsing parsed. *)
EXTENDS Shell, Parsing

Typing  == {<<"arg", "&">>, <<"arg", "in", "out">>, <<"arg", "|", "arg", "opt", "|", "arg">>}
MCLines == {parse_line(words) : words \in Typing} \cup {[type |-> type] : type \in {"CD", "PWD", "EMPTY", "EXIT"}}
=============================================================================
