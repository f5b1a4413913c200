------------------------------ MODULE JsonText ------------------------------
(***************************************************************************)
(* How the JSON library writes text: the growing buffer of printbuf.c, the *)
(* escaping of strings in json_object.c and the layout of objects and      *)
(* arrays.                                                                 *)
(*                                                                         *)
(* A string is a sequence of characters.  One that needs no escape is any  *)
(* value; "NUL", "QUOTE", "BACKSLASH", "LF" (for all that get a letter of  *)
(* their own) and "CTRL" (for the other control characters) stand for the  *)
(* rest.  A piece of layout, whatever its length, counts as one character. *)
(***************************************************************************)
EXTENDS Naturals, Sequences

CONSTANT PrintbufSize       \* 32: characters a new printbuf has room for

\* What the C string functions see of s: strdup and strndup copy this.
CString(s) ==
    LET ends == {i \in DOMAIN s : s[i] = "NUL"}
    IN  IF ends = {} THEN s
        ELSE SubSeq(s, 1, (CHOOSE i \in ends : \A j \in ends : i <= j) - 1)

\* `fits`: no byte, the final NUL included, was written outside the memory.
printbuf_new == [size |-> PrintbufSize, buf |-> <<>>, fits |-> TRUE]

\* Mutation: a string that leaves no room for the NUL does not make it grow.
printbuf_memappend_NoNul(p, s) ==
    LET bpos == Len(p.buf)
        size == IF p.size - bpos >= Len(s) THEN p.size
                ELSE LET a == 2 * p.size
                         b == bpos + Len(s) + 8
                     IN  IF a > b THEN a ELSE b
    IN  [size |-> size, buf |-> p.buf \o s,
         fits |-> p.fits /\ bpos + Len(s) + 1 <= size]

printbuf_memappend(p, s) ==
    LET bpos == Len(p.buf)
        size == IF p.size - bpos > Len(s) THEN p.size
                ELSE LET a == 2 * p.size
                         b == bpos + Len(s) + 8
                     IN  IF a > b THEN a ELSE b
    IN  [size |-> size, buf |-> p.buf \o s,
         fits |-> p.fits /\ bpos + Len(s) + 1 <= size]

\* What a character is written as.
Escape(c) == CASE c = "QUOTE"     -> <<"\\", "\"">>
               [] c = "BACKSLASH" -> <<"\\", "\\">>
               [] c = "LF"        -> <<"\\", "n">>
               [] c = "CTRL"      -> <<"\\", "u", "0", "0", "1", "f">>
               [] OTHER           -> <<c>>

\* Characters from start up to pos that have not been written yet.
Unflushed(p, s, start, pos) ==
    IF pos > start THEN printbuf_memappend(p, SubSeq(s, start, pos - 1)) ELSE p

\* json_escape_str: characters without an escape are written in runs, when
\* the next escape or the end is met.
json_escape_str(p, s) ==
    LET at[pos \in 0 .. Len(s)] ==
            IF pos = 0 THEN [p |-> p, start |-> 1]
            ELSE LET a == at[pos - 1]
                 IN  IF Escape(s[pos]) = <<s[pos]>> THEN a
                     ELSE [p |-> printbuf_memappend(Unflushed(a.p, s, a.start, pos),
                                                    Escape(s[pos])),
                           start |-> pos + 1]
    IN  Unflushed(at[Len(s)].p, s, at[Len(s)].start, Len(s) + 1)

-----------------------------------------------------------------------------
(* Layout.  A text is a sequence of pieces: layout, or strings to escape. *)

Plain(x) == << [escape |-> FALSE, s |-> <<x>>] >>
Quoted(s) == << [escape |-> TRUE, s |-> s] >>

StringText(s) == Plain("\"") \o Quoted(s) \o Plain("\"")

\* The sequences of ss, one behind the other.
Joined(ss) ==
    LET to[i \in 0 .. Len(ss)] == IF i = 0 THEN <<>> ELSE to[i - 1] \o ss[i]
    IN  to[Len(ss)]

\* The pieces of a container's elements, with what stands before each.
Elements(E, first, next) ==
    Joined([i \in DOMAIN E |-> (IF i = 1 THEN first ELSE next) \o E[i]])

ObjectText(fields) ==
    Plain("{")
    \o Elements([i \in DOMAIN fields |->
                    Plain(" \"") \o Quoted(fields[i][1]) \o Plain("\": ") \o fields[i][2]],
                <<>>, Plain(","))
    \o Plain(" }")

ArrayText(elems) == Plain("[") \o Elements(elems, Plain(" "), Plain(", ")) \o Plain(" ]")

\* The buffer after all pieces were written.
Printed(text) ==
    LET to[i \in 0 .. Len(text)] ==
            IF i = 0 THEN printbuf_new
            ELSE IF text[i].escape THEN json_escape_str(to[i - 1], text[i].s)
            ELSE printbuf_memappend(to[i - 1], text[i].s)
    IN  to[Len(text)]

\* Reference: what the text has to be, one character after the other.
Reference(text) ==
    Joined([i \in DOMAIN text |->
        IF text[i].escape
        THEN Joined([j \in DOMAIN text[i].s |-> Escape(text[i].s[j])])
        ELSE text[i].s])

=============================================================================
