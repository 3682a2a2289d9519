---------------------------- MODULE PairingCode -----------------------------
(***************************************************************************)
(* Pairing codes (src/net/pairing.rs): what a code is, how it is shown,    *)
(* and how what a user types is read back.                                 *)
(*                                                                         *)
(* A text is kept as its fields, the parts between the dashes, with the    *)
(* blanks around it.  A field is a word in some case, or digits with an    *)
(* optional plus sign; the rest of what can be typed is the word NoWord.   *)
(***************************************************************************)
EXTENDS Integers, Sequences

CONSTANTS ADJECTIVES,   \* word lists, in the order of their indices
          NOUNS,
          NoWord,       \* a field that is in neither list
          Size,         \* [word]: its length in bytes
          InvalidCode   \* the error of parse

Words == {ADJECTIVES[i] : i \in DOMAIN ADJECTIVES}
            \union {NOUNS[i] : i \in DOMAIN NOUNS} \union {NoWord}

\* The three fields that PairingCode's hash is made of; its created_at and
\* validity belong to the session that holds it.
Code == [adjective : DOMAIN ADJECTIVES, noun : DOMAIN NOUNS, number : 0 .. 99]

ASSUME CodeAssumption ==
    /\ ADJECTIVES \in Seq(Words) /\ NOUNS \in Seq(Words)
    /\ \A i \in DOMAIN ADJECTIVES : ADJECTIVES[i] # NoWord
    /\ \A i \in DOMAIN NOUNS : NOUNS[i] # NoWord
    /\ \A i, j \in DOMAIN ADJECTIVES : ADJECTIVES[i] = ADJECTIVES[j] => i = j
    /\ \A i, j \in DOMAIN NOUNS : NOUNS[i] = NOUNS[j] => i = j
    /\ Size \in [Words -> Nat]
    /\ \A w \in Words \ {NoWord} : Size[w] >= 3
    /\ InvalidCode \notin Code

Digit == 0 .. 9
WordField(w, upper) == [kind |-> "word", word |-> w, upper |-> upper]
NumberField(plus, digits) == [kind |-> "number", plus |-> plus, digits |-> digits]
Field ==
    [kind : {"word"}, word : Words, upper : BOOLEAN]
        \union [kind : {"number"}, plus : BOOLEAN, digits : Seq(Digit)]
Text == [pad : BOOLEAN, fields : Seq(Field)]

-----------------------------------------------------------------------------
\* to_compact and Display: upper case, and two digits.
Encode(c) ==
    [pad |-> FALSE,
     fields |-> <<WordField(ADJECTIVES[c.adjective], TRUE),
                  WordField(NOUNS[c.noun], TRUE),
                  NumberField(FALSE, <<c.number \div 10, c.number % 10>>)>>]

FieldSize(f) ==
    IF f.kind = "word" THEN Size[f.word] ELSE Len(f.digits) + (IF f.plus THEN 1 ELSE 0)

\* The bytes of a trimmed text of three fields, with its two dashes.
TextSize(fields) == FieldSize(fields[1]) + FieldSize(fields[2]) + FieldSize(fields[3]) + 2

\* Mutant: the text is compared as it was typed.
ToUpper_Identity(f) == f

\* to_uppercase
ToUpper(f) == IF f.kind = "word" THEN [f EXCEPT !.upper = TRUE] ELSE f

\* find_adjective and find_noun: the word of a list that a field is.
Find(list, f) == {i \in DOMAIN list : f = WordField(list[i], TRUE)}

\* The number that digits write.
Value(digits) ==
    LET upTo[i \in 0 .. Len(digits)] ==
            IF i = 0 THEN 0 ELSE 10 * upTo[i - 1] + digits[i]
    IN  upTo[Len(digits)]

\* str::parse::<u8>: at least one digit, and no more than 255.
ParseU8(f) ==
    IF f.kind = "number" /\ f.digits # <<>> /\ Value(f.digits) <= 255
    THEN {Value(f.digits)}
    ELSE {}

\* Mutant: every u8 will do.
InRange_AnyU8(n) == n \in 0 .. 255

\* number >= 100 is an error.
InRange(n) == n \in 0 .. 99

\* The codes that fields read as: exactly two dashes, then a word of each list
\* and a number.
Reads(fields) ==
    IF Len(fields) # 3 \/ TextSize(fields) \notin 7 .. 20
    THEN {}
    ELSE {[adjective |-> a, noun |-> n, number |-> k] :
             a \in Find(ADJECTIVES, ToUpper(fields[1])),
             n \in Find(NOUNS, ToUpper(fields[2])),
             k \in {k \in ParseU8(fields[3]) : InRange(k)}}

\* PairingCode::parse; trim drops the blanks.
Parse(t) ==
    IF Reads(t.fields) = {} THEN InvalidCode ELSE CHOOSE c \in Reads(t.fields) : TRUE

-----------------------------------------------------------------------------
\* The reference: t says c, in whatever case, with blanks around it, with any
\* leading zeros and a plus sign.
Says(t, c) ==
    /\ Len(t.fields) = 3
    /\ \E u, v \in BOOLEAN :
          /\ t.fields[1] = WordField(ADJECTIVES[c.adjective], u)
          /\ t.fields[2] = WordField(NOUNS[c.noun], v)
    /\ t.fields[3].kind = "number"
    /\ t.fields[3].digits # <<>> /\ Value(t.fields[3].digits) = c.number
=============================================================================
