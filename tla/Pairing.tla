------------------------------- MODULE Pairing ------------------------------
(***************************************************************************)
(* A pairing session (src/net/pairing.rs) of one device: the code it draws *)
(* and shows, or the code its user types, and the calls that wait on the   *)
(* session, connect, cancel, fail and complete it.  The sessions of two    *)
(* devices do not exchange anything yet.                                   *)
(*                                                                         *)
(* wait_for_peer and connect_to_peer run in tasks of their own: they look  *)
(* at the clock, then at the state under its lock, and a wait sleeps.      *)
(* cancel, fail and complete are one critical section each.                *)
(***************************************************************************)
EXTENDS PairingCode

CONSTANTS Drawn,     \* what the generator may draw
          Typed,     \* what the user may type
          Peers,     \* public keys a session can be completed with
          Callers,   \* tasks that call wait_for_peer or connect_to_peer
          Validity,  \* CODE_VALIDITY, in units of the clock
          None       \* nothing typed

ASSUME PairingAssumption ==
    /\ Drawn \subseteq Code
    /\ Typed \subseteq Text /\ None \notin Typed
    /\ Validity \in Nat

VARIABLES code,    \* the session's code, if there is a session
          typed,   \* the text typed last
          state,   \* PairingState
          age,     \* time since the code was created, capped
          pc,      \* [caller]: where it is in its call
          answer,  \* [caller]: what its last call returned
          cut      \* [caller]: the session is cancelled since before its call

vars == <<code, typed, state, age, pc, answer, cut>>

\* PairingState
Absent == [kind |-> "Absent"]    \* no session yet
WaitingForPeer == [kind |-> "WaitingForPeer"]
Exchanging == [kind |-> "Exchanging"]
Failed == [kind |-> "Failed"]
Cancelled == [kind |-> "Cancelled"]
Completed(p) == [kind |-> "Completed", peer |-> p]
PairingState == {WaitingForPeer, Exchanging, Failed, Cancelled}
                    \union {Completed(p) : p \in Peers}

Error == {"CodeExpired", "NotActive", "Timeout", "PeerNotFound"}
NoAnswer == [kind |-> "none"]
Failure(e) == [kind |-> "error", error |-> e]
Answer(p) == [kind |-> "peer", peer |-> p]
Answers == {NoAnswer} \union {Failure(e) : e \in Error} \union {Answer(p) : p \in Peers}

Init ==
    /\ code = InvalidCode /\ typed = None
    /\ state = Absent /\ age = 0
    /\ pc = [c \in Callers |-> "idle"]
    /\ answer = [c \in Callers |-> NoAnswer]
    /\ cut = [c \in Callers |-> FALSE]

-----------------------------------------------------------------------------
\* PairingCode::generate draws each part; new_initiator makes the session.
NewInitiator(c) ==
    /\ state = Absent /\ typed = None
    /\ code' = c /\ state' = WaitingForPeer
    /\ UNCHANGED <<typed, age, pc, answer, cut>>

\* PairingCode::parse of what the user types, until a text is accepted: then
\* new_joiner makes a session for the code, whose validity starts now.
NewJoiner(t) ==
    /\ state = Absent
    /\ typed' = t /\ code' = Parse(t)
    /\ state' = IF Parse(t) = InvalidCode THEN Absent ELSE WaitingForPeer
    /\ UNCHANGED <<age, pc, answer, cut>>

IsExpired == age > Validity

\* The clock; a code that is past its validity stays so.
Tick ==
    /\ state # Absent /\ ~IsExpired
    /\ age' = age + 1
    /\ UNCHANGED <<code, typed, state, pc, answer, cut>>

-----------------------------------------------------------------------------
Ends(c, a) == pc' = [pc EXCEPT ![c] = "idle"] /\ answer' = [answer EXCEPT ![c] = a]

\* Both calls look at the validity first.
Call(c, next) ==
    /\ pc[c] = "idle" /\ state # Absent
    /\ cut' = [cut EXCEPT ![c] = state = Cancelled]
    /\ IF IsExpired
       THEN Ends(c, Failure("CodeExpired"))
       ELSE pc' = [pc EXCEPT ![c] = next] /\ answer' = [answer EXCEPT ![c] = NoAnswer]
    /\ UNCHANGED <<code, typed, state, age>>

\* wait_for_peer: the state is cloned under its lock.
ReadState(c) ==
    /\ pc[c] = "read"
    /\ \/ state.kind = "Completed" /\ Ends(c, Answer(state.peer))
       \/ state \in {Failed, Cancelled} /\ Ends(c, Failure("NotActive"))
       \/ /\ state \in {WaitingForPeer, Exchanging}
          /\ pc' = [pc EXCEPT ![c] = "sleep"]
          /\ UNCHANGED answer
    /\ UNCHANGED <<code, typed, state, age, cut>>

\* Mutant: the sleep is ended by a change of the state alone.
Wake_OnChange(c) ==
    /\ pc[c] = "sleep" /\ state \notin {WaitingForPeer, Exchanging}
    /\ Ends(c, Failure("Timeout"))
    /\ UNCHANGED <<code, typed, state, age, cut>>

\* The sleep is over when nothing remains of the validity, and the state is
\* not looked at again.
Wake(c) ==
    /\ pc[c] = "sleep" /\ age >= Validity
    /\ Ends(c, Failure("Timeout"))
    /\ UNCHANGED <<code, typed, state, age, cut>>

\* connect_to_peer: the state is overwritten, whatever it is.
WriteExchanging(c) ==
    /\ pc[c] = "write"
    /\ state' = Exchanging
    /\ cut' = [d \in Callers |-> FALSE]
    /\ Ends(c, Failure("PeerNotFound"))
    /\ UNCHANGED <<code, typed, age>>

Sets(new) == state' = new /\ UNCHANGED <<code, typed, age, pc, answer, cut>>

Cancel == state.kind \notin {"Absent", "Completed"} /\ Sets(Cancelled)

Fail == state.kind \notin {"Absent", "Completed", "Cancelled"} /\ Sets(Failed)

\* Mutant: a cancelled session is completed too.
Complete_Any(p) == state # Absent /\ Sets(Completed(p))

Complete(p) == state \notin {Absent, Cancelled} /\ Sets(Completed(p))

CallerStep(c) == ReadState(c) \/ Wake(c) \/ WriteExchanging(c)

Next ==
    \/ \E c \in Drawn : NewInitiator(c)
    \/ \E t \in Typed : NewJoiner(t)
    \/ Tick
    \/ \E c \in Callers, next \in {"read", "write"} : Call(c, next)
    \/ \E c \in Callers : CallerStep(c)
    \/ Cancel \/ Fail \/ \E p \in Peers : Complete(p)

\* Time passes, and the runtime polls a task that is ready.
Fairness == WF_vars(Tick) /\ \A c \in Callers : WF_vars(CallerStep(c))

Spec == Init /\ [][Next]_vars /\ Fairness

-----------------------------------------------------------------------------
\* Types: a session's code is one that the generator could have drawn, and
\* there is a session exactly when there is a code, and during any call.
TypeOK ==
    /\ code \in Code \union {InvalidCode}
    /\ typed \in Typed \union {None}
    /\ state \in PairingState \union {Absent}
    /\ (state = Absent) <=> (code = InvalidCode)
    /\ age \in 0 .. Validity + 1
    /\ pc \in [Callers -> {"idle", "read", "sleep", "write"}]
    /\ state = Absent => \A c \in Callers : pc[c] = "idle"
    /\ answer \in [Callers -> Answers]
    /\ cut \in [Callers -> BOOLEAN]

\* What is typed is read as the code it says, in whatever case, with blanks
\* around it and zeros before the number, and rejected when it says none:
\* the cheap length test of parse turns away no code as it is shown.
TypedIsRead ==
    typed # None =>
        \A c \in Code :
            code = c <=> Says(typed, c) /\ TextSize(typed.fields) <= 20

\* A session that was cancelled before wait_for_peer was called, and that
\* nobody has connected since, gives that call no peer: whoever cancels,
\* fails, completes or waits at the same time.
CancelHolds == \A c \in Callers : cut[c] => answer[c].kind # "peer"

\* A wait ends, though nobody completes or cancels its session and whatever
\* the others do: its sleep is over with the code's validity.
WaitEnds == \A c \in Callers : pc[c] \in {"read", "sleep"} ~> pc[c] = "idle"
=============================================================================
