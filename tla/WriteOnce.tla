------------------------------ MODULE WriteOnce ------------------------------
(***************************************************************************)
(* What the provider-effect ledger and the operation ledger promise the    *)
(* attempts of one activity: a register that is decided at most once, and  *)
(* every attempt that gets an answer gets the decided one.  An attempt may *)
(* decide the register and take its answer in one step.                    *)
(***************************************************************************)
CONSTANTS
    Clients,    \* the attempts that may ask
    Values,     \* the responses a provider can give, the results of an activity
    None        \* no value yet

VARIABLES
    value,      \* the decided value, or None
    answer      \* answer[c]: the value client c went on with, or None

Init ==
    /\ value = None
    /\ answer = [c \in Clients |-> None]

Decide ==
    /\ value = None
    /\ value' \in Values
    /\ UNCHANGED answer

DecideAndAnswer(c) ==
    /\ value = None
    /\ answer[c] = None
    /\ value' \in Values
    /\ answer' = [answer EXCEPT ![c] = value']

Answer(c) ==
    /\ value # None
    /\ answer[c] = None
    /\ answer' = [answer EXCEPT ![c] = value]
    /\ UNCHANGED value

Next ==
    \/ Decide
    \/ \E c \in Clients : DecideAndAnswer(c) \/ Answer(c)

Spec == Init /\ [][Next]_<<value, answer>>
=============================================================================
