----------------------------- MODULE MCPairing ------------------------------
EXTENDS Pairing

MCAdjectives == <<"RED", "PURPLE">>
MCNouns == <<"FISH", "SUN">>
MCSize == [w \in {"RED", "PURPLE", "FISH", "SUN", "other"} |->
              CASE w = "RED" -> 3 [] w = "PURPLE" -> 6 [] w = "FISH" -> 4
                [] w = "SUN" -> 3 [] OTHER -> 1]

MCDrawn == {[adjective |-> 1, noun |-> 2, number |-> 7]}

\* Every code of some numbers as it is shown, and variants: the words in
\* another order or of neither list; numbers with more or fewer zeros, above
\* the limit of a code and above that of an u8, none at all; a text that is
\* too long; two and four fields.
MCDigits == {<<>>, <<5>>, <<0, 5>>, <<9, 9>>, <<1, 0, 0>>, <<2, 6, 1>>,
             <<0, 0, 0, 0, 0, 0, 0, 0, 4, 2>>}
MCFields ==
    {<<WordField(a, TRUE), WordField(n, u), NumberField(u, d)>> :
        a \in {"RED", "PURPLE", "SUN"}, n \in {"FISH", "SUN", "other"},
        u \in BOOLEAN, d \in MCDigits}
    \union {<<WordField("RED", TRUE), NumberField(FALSE, <<0, 0, 0, 0, 5>>)>>,
            <<WordField("RED", FALSE), WordField("SUN", FALSE), NumberField(FALSE, <<5>>)>>,
            <<WordField("RED", TRUE), WordField("SUN", TRUE),
              NumberField(FALSE, <<5>>), NumberField(FALSE, <<5>>)>>}
MCTyped == {[pad |-> Len(f) = 3 /\ f[3].plus, fields |-> f] : f \in MCFields}
               \union {Encode(c) : c \in {c \in Code : c.number \in {0, 42, 99}}}
=============================================================================
