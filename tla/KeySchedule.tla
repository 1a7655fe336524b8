---------------------------- MODULE KeySchedule ----------------------------
(***************************************************************************)
(* What package keyscope promises its callers, without stages, hand-offs   *)
(* or memo: a goroutine that asks for the key of a scope is answered, once *)
(* and at any later time, with the key the root secret has for that scope: *)
(* the prefix applied once and every step's input absorbed in order.       *)
(***************************************************************************)
CONSTANTS Threads, Prefix, SecretValues, Scopes, Idle, Pending

VARIABLE asked, answer   \* per goroutine: the scope asked for, the answer

ScheduleKey(secret, scope) == [prefix |-> Prefix, secret |-> secret, rungs |-> scope]

Init ==
    /\ asked = [t \in Threads |-> Idle]
    /\ answer = [t \in Threads |-> Pending]

Ask(t) ==
    /\ asked[t] = Idle
    /\ asked'[t] \in SecretValues \X Scopes
    /\ asked' = [asked EXCEPT ![t] = asked'[t]]
    /\ UNCHANGED answer

Answer(t) ==
    /\ asked[t] # Idle
    /\ answer[t] = Pending
    /\ answer' = [answer EXCEPT ![t] = ScheduleKey(asked[t][1], asked[t][2])]
    /\ UNCHANGED asked

Done(t) ==
    /\ answer[t] # Pending
    /\ asked' = [asked EXCEPT ![t] = Idle]
    /\ answer' = [answer EXCEPT ![t] = Pending]

Next == \E t \in Threads :
    \/ Ask(t)
    \/ Answer(t)
    \/ Done(t)

scheduleVars == <<asked, answer>>
SafetySpec == Init /\ [][Next]_scheduleVars
Spec == SafetySpec /\ \A t \in Threads : WF_scheduleVars(Answer(t))
=============================================================================
