------------------------------ MODULE PairCall ------------------------------
(***************************************************************************)
(* What setOFDSettings and getOFDSettings promise to the threads that call *)
(* them, as if the address and the port were one register: a call that     *)
(* writes changes the pair once, when it ends; one that has failed has     *)
(* written nothing, the first part, or both; a call that reads answers     *)
(* with the pair there is when it ends.                                    *)
(***************************************************************************)
CONSTANTS Threads,
          Values,   \* what either part can be
          Nothing   \* no answer

VARIABLES stored,  \* the pair
          calls,   \* calls[t]: what thread t is about, "none", "put" or "get"
          wanted,  \* wanted[t]: what its last "put" is to write
          ended,   \* ended[t]: whether its last call has succeeded
          answer   \* answer[t]: the pair that call has answered with, or Nothing

vars == <<stored, calls, wanted, ended, answer>>

Whole(v) == [first |-> v, second |-> v]

Init == /\ \E v \in Values : stored = Whole(v) /\ wanted = [t \in Threads |-> v]
        /\ calls = [t \in Threads |-> "none"]
        /\ ended = [t \in Threads |-> FALSE]
        /\ answer = [t \in Threads |-> Nothing]

\* A call begins; "none" is one of another kind, or one whose arguments are rejected.
Ask(t, call, v) ==
  /\ calls[t] = "none" /\ calls' = [calls EXCEPT ![t] = call]
  /\ wanted' = [wanted EXCEPT ![t] = v]
  /\ ended' = [ended EXCEPT ![t] = FALSE] /\ answer' = [answer EXCEPT ![t] = Nothing]
  /\ UNCHANGED stored

End(t, b) == /\ calls' = [calls EXCEPT ![t] = "none"]
             /\ ended' = [ended EXCEPT ![t] = b]
             /\ UNCHANGED wanted

Put(t, b) ==
  /\ calls[t] = "put" /\ End(t, b)
  /\ \/ stored' = Whole(wanted[t])
     \/ ~b /\ stored' = [stored EXCEPT !.first = wanted[t]]
     \/ ~b /\ stored' = stored
  /\ UNCHANGED answer

Get(t, b) ==
  /\ calls[t] = "get" /\ End(t, b)
  /\ answer' = IF b THEN [answer EXCEPT ![t] = stored] ELSE answer
  /\ UNCHANGED stored

Next == \E t \in Threads :
          \/ \E call \in {"none", "put", "get"}, v \in Values : Ask(t, call, v)
          \/ \E b \in BOOLEAN : Put(t, b) \/ Get(t, b)

Spec == Init /\ [][Next]_vars

=============================================================================
