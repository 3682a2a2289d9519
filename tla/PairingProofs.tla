---------------------------- MODULE PairingProofs ---------------------------
(***************************************************************************)
(* Proofs about Pairing, for any word lists, any texts, any number of      *)
(* callers and any validity.                                               *)
(***************************************************************************)
EXTENDS Pairing, TLAPS

-----------------------------------------------------------------------------
(* What parse does.                                                        *)

LEMMA ReadsCodes == ASSUME NEW fields, NEW c \in Reads(fields) PROVE c \in Code
<1>1. PICK a \in Find(ADJECTIVES, ToUpper(fields[1])),
           n \in Find(NOUNS, ToUpper(fields[2])),
           k \in {k \in ParseU8(fields[3]) : InRange(k)} :
              c = [adjective |-> a, noun |-> n, number |-> k]
    BY DEF Reads
<1>2. a \in DOMAIN ADJECTIVES /\ n \in DOMAIN NOUNS /\ k \in 0 .. 99
    BY DEF Find, InRange
<1> QED  BY <1>1, <1>2 DEF Code

LEMMA ParseType == \A t : Parse(t) \in Code \union {InvalidCode}
BY ReadsCodes DEF Parse

LEMMA WordFieldInjective ==
    ASSUME NEW w, NEW u, NEW x, NEW v, WordField(w, u) = WordField(x, v)
    PROVE  w = x /\ u = v
<1>1. WordField(w, u).word = w /\ WordField(w, u).upper = u
    BY DEF WordField
<1>2. WordField(x, v).word = x /\ WordField(x, v).upper = v
    BY DEF WordField
<1> QED  BY <1>1, <1>2

\* to_uppercase and the list lookup find exactly the word that was typed.
LEMMA FindsWord ==
    ASSUME NEW list, NEW f \in Field, NEW i \in DOMAIN list
    PROVE  i \in Find(list, ToUpper(f)) <=> \E u \in BOOLEAN : f = WordField(list[i], u)
<1>1. CASE f \in [kind : {"word"}, word : Words, upper : BOOLEAN]
    <2>1. ToUpper(f) = [f EXCEPT !.upper = TRUE] /\ f = WordField(f.word, f.upper)
        BY <1>1 DEF ToUpper, WordField
    <2>2. ToUpper(f) = WordField(f.word, TRUE)
        BY <1>1, <2>1 DEF WordField
    <2>3. ToUpper(f) = WordField(list[i], TRUE) <=> f.word = list[i]
        BY <2>2, WordFieldInjective
    <2>4. (\E u \in BOOLEAN : f = WordField(list[i], u)) <=> f.word = list[i]
        BY <1>1, <2>1 DEF WordField
    <2> QED  BY <2>3, <2>4 DEF Find
<1>2. CASE f \in [kind : {"number"}, plus : BOOLEAN, digits : Seq(Digit)]
    <2>1. f.kind = "number" /\ ToUpper(f) = f
        BY <1>2 DEF ToUpper
    <2>2. \A w, u : f # WordField(w, u)
        BY <2>1 DEF WordField
    <2> QED  BY <2>1, <2>2 DEF Find
<1> QED  BY <1>1, <1>2 DEF Field

\* At most one code is read from a text.
LEMMA ReadsOne ==
    ASSUME NEW fields, NEW c \in Reads(fields), NEW d \in Reads(fields)
    PROVE  c = d
<1>1. PICK a \in Find(ADJECTIVES, ToUpper(fields[1])),
           n \in Find(NOUNS, ToUpper(fields[2])),
           k \in {k \in ParseU8(fields[3]) : InRange(k)} :
              c = [adjective |-> a, noun |-> n, number |-> k]
    BY DEF Reads
<1>2. PICK b \in Find(ADJECTIVES, ToUpper(fields[1])),
           m \in Find(NOUNS, ToUpper(fields[2])),
           l \in {l \in ParseU8(fields[3]) : InRange(l)} :
              d = [adjective |-> b, noun |-> m, number |-> l]
    BY DEF Reads
<1>3. a = b
    <2>1. a \in DOMAIN ADJECTIVES /\ b \in DOMAIN ADJECTIVES
        BY DEF Find
    <2>2. WordField(ADJECTIVES[a], TRUE) = WordField(ADJECTIVES[b], TRUE)
        BY DEF Find
    <2>3. ADJECTIVES[a] = ADJECTIVES[b]
        BY <2>2 DEF WordField
    <2> QED  BY <2>1, <2>3, CodeAssumption
<1>4. n = m
    <2>1. n \in DOMAIN NOUNS /\ m \in DOMAIN NOUNS
        BY DEF Find
    <2>2. WordField(NOUNS[n], TRUE) = WordField(NOUNS[m], TRUE)
        BY DEF Find
    <2>3. NOUNS[n] = NOUNS[m]
        BY <2>2 DEF WordField
    <2> QED  BY <2>1, <2>3, CodeAssumption
<1>5. k = l
    BY DEF ParseU8
<1> QED  BY <1>1, <1>2, <1>3, <1>4, <1>5

\* The sizes of the fields that say a code: never below parse's limit of 7.
LEMMA SaysSize ==
    ASSUME NEW t \in Text, NEW c \in Code, Says(t, c)
    PROVE  TextSize(t.fields) \in Int /\ TextSize(t.fields) >= 7
<1>1. PICK u \in BOOLEAN, v \in BOOLEAN :
          /\ t.fields[1] = WordField(ADJECTIVES[c.adjective], u)
          /\ t.fields[2] = WordField(NOUNS[c.noun], v)
    BY DEF Says
<1>2. c.adjective \in DOMAIN ADJECTIVES /\ c.noun \in DOMAIN NOUNS
    BY DEF Code
<1>3. \A w \in Words \ {NoWord} : Size[w] \in Nat /\ Size[w] >= 3
    BY CodeAssumption
<1>4. FieldSize(t.fields[1]) \in Nat /\ FieldSize(t.fields[1]) >= 3
    <2>1. ADJECTIVES[c.adjective] \in Words \ {NoWord}
        BY <1>2, CodeAssumption DEF Words
    <2>2. FieldSize(t.fields[1]) = Size[ADJECTIVES[c.adjective]]
        BY <1>1 DEF FieldSize, WordField
    <2> QED  BY <1>3, <2>1, <2>2
<1>5. FieldSize(t.fields[2]) \in Nat /\ FieldSize(t.fields[2]) >= 3
    <2>1. NOUNS[c.noun] \in Words \ {NoWord}
        BY <1>2, CodeAssumption DEF Words
    <2>2. FieldSize(t.fields[2]) = Size[NOUNS[c.noun]]
        BY <1>1 DEF FieldSize, WordField
    <2> QED  BY <1>3, <2>1, <2>2
<1>6. FieldSize(t.fields[3]) \in Nat
    <2>1. t.fields[3] \in Field /\ t.fields[3].kind = "number"
        BY DEF Says, Text
    <2>2. t.fields[3].digits \in Seq(Digit)
        BY <2>1 DEF Field
    <2>3. Len(t.fields[3].digits) \in Nat
        BY <2>2
    <2>4. \/ FieldSize(t.fields[3]) = Len(t.fields[3].digits) + 1
          \/ FieldSize(t.fields[3]) = Len(t.fields[3].digits) + 0
        BY <2>1, Zenon DEF FieldSize
    <2> QED  BY <2>3, <2>4
<1> QED  BY <1>4, <1>5, <1>6 DEF TextSize

\* parse reads a code from a text exactly when the text says it in 20 bytes.
LEMMA ReadsRight ==
    ASSUME NEW t \in Text, NEW c \in Code
    PROVE  c \in Reads(t.fields) <=> Says(t, c) /\ TextSize(t.fields) <= 20
<1>1. c.adjective \in DOMAIN ADJECTIVES /\ c.noun \in DOMAIN NOUNS /\ c.number \in 0 .. 99
    BY DEF Code
<1>2. c = [adjective |-> c.adjective, noun |-> c.noun, number |-> c.number]
    BY DEF Code
<1>3. ASSUME Len(t.fields) = 3
      PROVE  /\ c.adjective \in Find(ADJECTIVES, ToUpper(t.fields[1]))
             /\ c.noun \in Find(NOUNS, ToUpper(t.fields[2]))
             <=> \E u, v \in BOOLEAN :
                    /\ t.fields[1] = WordField(ADJECTIVES[c.adjective], u)
                    /\ t.fields[2] = WordField(NOUNS[c.noun], v)
    <2>1. t.fields[1] \in Field /\ t.fields[2] \in Field
        BY <1>3 DEF Text
    <2> QED  BY <1>1, <2>1, FindsWord
<1>4. c.number \in {k \in ParseU8(t.fields[3]) : InRange(k)}
      <=> /\ t.fields[3].kind = "number"
          /\ t.fields[3].digits # <<>> /\ Value(t.fields[3].digits) = c.number
    <2>1. ASSUME c.number \in ParseU8(t.fields[3])
          PROVE  /\ t.fields[3].kind = "number"
                 /\ t.fields[3].digits # <<>> /\ Value(t.fields[3].digits) = c.number
        BY <2>1 DEF ParseU8
    <2>2. ASSUME t.fields[3].kind = "number",
                 t.fields[3].digits # <<>>, Value(t.fields[3].digits) = c.number
          PROVE  c.number \in ParseU8(t.fields[3])
        <3>1. Value(t.fields[3].digits) <= 255
            <4>1. c.number \in Int /\ c.number <= 255
                BY <1>1
            <4> QED  BY <2>2, <4>1
        <3> QED  BY <2>2, <3>1 DEF ParseU8
    <2> QED  BY <1>1, <2>1, <2>2 DEF InRange
<1>5. ASSUME Len(t.fields) = 3, TextSize(t.fields) \in 7 .. 20
      PROVE  c \in Reads(t.fields)
             <=> /\ c.adjective \in Find(ADJECTIVES, ToUpper(t.fields[1]))
                 /\ c.noun \in Find(NOUNS, ToUpper(t.fields[2]))
                 /\ c.number \in {k \in ParseU8(t.fields[3]) : InRange(k)}
    BY <1>2, <1>5 DEF Reads
<1>6. c \in Reads(t.fields) => Len(t.fields) = 3 /\ TextSize(t.fields) \in 7 .. 20
    BY DEF Reads
<1>7. Says(t, c) /\ TextSize(t.fields) <= 20 => TextSize(t.fields) \in 7 .. 20
    BY SaysSize
<1>8. Says(t, c) => Len(t.fields) = 3
    BY DEF Says
<1> QED  BY <1>3, <1>4, <1>5, <1>6, <1>7, <1>8 DEF Says

LEMMA ParseRight ==
    ASSUME NEW t \in Text, NEW c \in Code
    PROVE  Parse(t) = c <=> Says(t, c) /\ TextSize(t.fields) <= 20
<1>1. Parse(t) = c <=> c \in Reads(t.fields)
    BY ReadsOne, CodeAssumption DEF Parse
<1> QED  BY <1>1, ReadsRight

-----------------------------------------------------------------------------
(* The session.                                                            *)

\* TypedIsRead holds of the text typed last because nothing is typed once
\* there is a session, and only a text that is accepted makes one.
ReadOnce == typed # None => code = Parse(typed)

\* CancelHolds needs that a wait on a cancelled session finds it cancelled when
\* it gets to its state: only connect takes the session out of Cancelled.
StaysCancelled == \A c \in Callers : cut[c] /\ pc[c] = "read" => state = Cancelled

IInv == TypeOK /\ ReadOnce /\ StaysCancelled /\ CancelHolds

LEMMA Kinds ==
    /\ Absent \notin PairingState
    /\ WaitingForPeer \in PairingState /\ Exchanging \in PairingState
    /\ Failed \in PairingState /\ Cancelled \in PairingState
    /\ \A p \in Peers : Completed(p) \in PairingState
    /\ Cancelled.kind = "Cancelled"
    /\ \A s \in PairingState : s.kind = "Completed" => s.peer \in Peers
<1>1. \A s \in PairingState : s.kind # "Absent"
    BY DEF PairingState, WaitingForPeer, Exchanging, Failed, Cancelled, Completed
<1>2. Absent.kind = "Absent" /\ Cancelled.kind = "Cancelled"
    BY DEF Absent, Cancelled
<1>3. ASSUME NEW s \in PairingState, s.kind = "Completed" PROVE s.peer \in Peers
    <2>1. WaitingForPeer.kind # "Completed" /\ Exchanging.kind # "Completed"
              /\ Failed.kind # "Completed" /\ Cancelled.kind # "Completed"
        BY DEF WaitingForPeer, Exchanging, Failed, Cancelled
    <2>2. PICK p \in Peers : s = Completed(p)
        BY <1>3, <2>1 DEF PairingState
    <2> QED  BY <2>2 DEF Completed
<1>4. /\ WaitingForPeer \in PairingState /\ Exchanging \in PairingState
      /\ Failed \in PairingState /\ Cancelled \in PairingState
      /\ \A p \in Peers : Completed(p) \in PairingState
    BY DEF PairingState
<1> QED  BY <1>1, <1>2, <1>3, <1>4

LEMMA AnswerKinds ==
    /\ NoAnswer \in Answers /\ NoAnswer.kind # "peer"
    /\ \A e \in Error : Failure(e) \in Answers /\ Failure(e).kind # "peer"
    /\ \A p \in Peers : Answer(p) \in Answers
BY DEF Answers, NoAnswer, Failure, Answer

LEMMA InitHolds == Init => IInv
BY AnswerKinds, PairingAssumption, Kinds
   DEF Init, IInv, TypeOK, ReadOnce, StaysCancelled, CancelHolds

LEMMA StepHolds == IInv /\ [Next]_vars => IInv'
<1> SUFFICES ASSUME IInv, [Next]_vars PROVE IInv'
    OBVIOUS
<1> USE PairingAssumption, Kinds, AnswerKinds DEF IInv
<1>1. ASSUME NEW c \in Drawn, NewInitiator(c) PROVE IInv'
    BY <1>1, CodeAssumption DEF NewInitiator, TypeOK, ReadOnce, StaysCancelled, CancelHolds
<1>2. ASSUME NEW t \in Typed, NewJoiner(t) PROVE IInv'
    <2>1. TypeOK'
        BY <1>2, ParseType, CodeAssumption DEF NewJoiner, TypeOK
    <2> QED  BY <1>2, <2>1 DEF NewJoiner, TypeOK, ReadOnce, StaysCancelled, CancelHolds
<1>3. CASE Tick
    BY <1>3 DEF Tick, IsExpired, TypeOK, ReadOnce, StaysCancelled, CancelHolds
<1>4. ASSUME NEW c \in Callers, NEW next \in {"read", "write"}, Call(c, next) PROVE IInv'
    <2>1. TypeOK' /\ ReadOnce'
        BY <1>4 DEF Call, Ends, Error, TypeOK, ReadOnce
    <2>2. StaysCancelled' /\ CancelHolds'
        BY <1>4 DEF Call, Ends, Error, TypeOK, StaysCancelled, CancelHolds
    <2> QED  BY <2>1, <2>2
<1>5. ASSUME NEW c \in Callers, ReadState(c) PROVE IInv'
    <2>1. state \in PairingState
        BY <1>5 DEF ReadState, TypeOK, WaitingForPeer, Exchanging, Failed, Cancelled, Absent
    <2>2. TypeOK' /\ ReadOnce'
        BY <1>5, <2>1 DEF ReadState, Ends, Error, TypeOK, ReadOnce
    <2>3. StaysCancelled' /\ CancelHolds'
        BY <1>5 DEF ReadState, Ends, Error, TypeOK, StaysCancelled, CancelHolds
    <2> QED  BY <2>2, <2>3
<1>6. ASSUME NEW c \in Callers, Wake(c) PROVE IInv'
    BY <1>6 DEF Wake, Ends, Error, TypeOK, ReadOnce, StaysCancelled, CancelHolds
<1>7. ASSUME NEW c \in Callers, WriteExchanging(c) PROVE IInv'
    <2>1. \A d \in Callers : ~cut'[d]
        BY <1>7 DEF WriteExchanging
    <2>2. cut' \in [Callers -> BOOLEAN]
        BY <1>7 DEF WriteExchanging
    <2>3. state # Absent
        BY <1>7 DEF WriteExchanging, TypeOK
    <2>4. TypeOK'
        BY <1>7, <2>2, <2>3 DEF WriteExchanging, Ends, Error, TypeOK
    <2>5. ReadOnce'
        BY <1>7 DEF WriteExchanging, ReadOnce
    <2> QED  BY <2>1, <2>4, <2>5 DEF StaysCancelled, CancelHolds
<1>8. CASE Cancel
    BY <1>8 DEF Cancel, Sets, TypeOK, ReadOnce, StaysCancelled, CancelHolds, Absent
<1>9. CASE Fail
    BY <1>9 DEF Fail, Sets, TypeOK, ReadOnce, StaysCancelled, CancelHolds, Absent
<1>10. ASSUME NEW p \in Peers, Complete(p) PROVE IInv'
    BY <1>10 DEF Complete, Sets, TypeOK, ReadOnce, StaysCancelled, CancelHolds
<1>11. CASE UNCHANGED vars
    BY <1>11 DEF vars, TypeOK, ReadOnce, StaysCancelled, CancelHolds
<1> QED
    BY <1>1, <1>2, <1>3, <1>4, <1>5, <1>6, <1>7, <1>8, <1>9, <1>10, <1>11 DEF Next, CallerStep

LEMMA Inductive == Spec => []IInv
BY InitHolds, StepHolds, PTL DEF Spec

\* A session's code is one the generator could have drawn, and there is a
\* session exactly when there is a code.
THEOREM TypeCorrect == Spec => []TypeOK
<1>1. IInv => TypeOK
    BY DEF IInv
<1> QED  BY <1>1, Inductive, PTL

\* parse accepts what says a code, as that code, and nothing else: for any word
\* lists without duplicates or words of fewer than three letters.
THEOREM ReadAsTyped == Spec => []TypedIsRead
<1>1. IInv => TypedIsRead
    <2> SUFFICES ASSUME IInv, typed # None, NEW c \in Code
                 PROVE  code = c <=> Says(typed, c) /\ TextSize(typed.fields) <= 20
        BY DEF TypedIsRead
    <2>1. typed \in Text /\ code = Parse(typed)
        BY PairingAssumption DEF IInv, TypeOK, ReadOnce
    <2> QED  BY <2>1, ParseRight
<1> QED  BY <1>1, Inductive, PTL

\* A wait that begins on a cancelled session gives no peer unless somebody
\* connects the session meanwhile, for any number of concurrent callers.
THEOREM CancelIsKept == Spec => []CancelHolds
<1>1. IInv => CancelHolds
    BY DEF IInv
<1> QED  BY <1>1, Inductive, PTL
=============================================================================
