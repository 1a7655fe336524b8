---------------------------- MODULE AuthChannel ----------------------------
(***************************************************************************)
(* What a signing transport and a verifying middleware promise together:   *)
(* the handler behind the middleware is only ever given what a principal   *)
(* stated, whole, and not later than Window after it was stated.  Nothing  *)
(* else is promised of the network: a statement may be lost, and may be    *)
(* served as often as it is delivered within the window.                   *)
(***************************************************************************)
EXTENDS Integers

CONSTANTS
    Deliveries,   \* requests that reach the server
    Contents,     \* what a principal may state
    Window,       \* for how long a statement may be served
    MaxTime,      \* bound on the clock
    Unserved      \* no content

VARIABLES now, statements, answers
vars == <<now, statements, answers>>

Answer(state, content) == [state |-> state, content |-> content]
None == Answer("none", Unserved)
Init ==
    /\ now = 1
    /\ statements = {}
    /\ answers = [d \in Deliveries |-> None]

State(content) ==
    /\ statements' = statements \union {[content |-> content, at |-> now]}
    /\ UNCHANGED <<now, answers>>
Arrive(d) ==
    /\ answers[d].state = "none"
    /\ answers' = [answers EXCEPT ![d] = Answer("checking", Unserved)]
    /\ UNCHANGED <<now, statements>>
Serve(d) ==
    /\ answers[d].state = "checking"
    /\ \E s \in statements :
          now <= s.at + Window /\ answers' = [answers EXCEPT ![d] = Answer("served", s.content)]
    /\ UNCHANGED <<now, statements>>
Refuse(d) ==
    /\ answers[d].state \in {"none", "checking"}
    /\ answers' = [answers EXCEPT ![d] = Answer("refused", Unserved)]
    /\ UNCHANGED <<now, statements>>
Tick ==
    /\ now < MaxTime
    /\ now' = now + 1
    /\ UNCHANGED <<statements, answers>>

Decide(d) == answers[d].state = "checking" /\ (Serve(d) \/ Refuse(d))
Next ==
    \/ \E content \in Contents : State(content)
    \/ \E d \in Deliveries : Arrive(d) \/ Serve(d) \/ Refuse(d)
    \/ Tick

\* What may never happen ...
Safety == Init /\ [][Next]_vars
\* ... and whatever is being checked is decided.
Spec == Safety /\ \A d \in Deliveries : WF_vars(Decide(d))
=============================================================================
