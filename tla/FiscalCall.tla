----------------------------- MODULE FiscalCall -----------------------------
(***************************************************************************)
(* What the document calls of class BIOS promise to the threads that make  *)
(* them: each call makes at most one document fiscal, at one moment while  *)
(* it is pending, with a content that accounts for the request; `true' is  *)
(* answered only from a fiscal document.  A call may answer `false' though *)
(* the document is fiscal: an answer of the printer may be lost.           *)
(***************************************************************************)
CONSTANTS Threads,
          Requests,   \* what can be asked for
          Content,    \* Content[r]: the fiscal documents that may come of r
          NoRequest,  \* the request of a call that names no receipt
          Nothing     \* no document

VARIABLES pending,  \* the threads whose document call is under way
          request,  \* request[t]: what the last call of t asked for
          fiscal,   \* fiscal[t]: what that call has made fiscal, or Nothing
          verdict   \* verdict[t]: whether it has answered true

vars == <<pending, request, fiscal, verdict>>

TypeOK == /\ pending \subseteq Threads
          /\ request \in [Threads -> Requests]
          /\ fiscal \in [Threads -> UNION {Content[r] : r \in Requests} \cup {Nothing}]
          /\ verdict \in [Threads -> BOOLEAN]

Init == /\ pending = {}
        /\ request = [t \in Threads |-> NoRequest]
        /\ fiscal = [t \in Threads |-> Nothing]
        /\ verdict = [t \in Threads |-> FALSE]

Reset(t, r) == /\ request' = [request EXCEPT ![t] = r]
               /\ fiscal' = [fiscal EXCEPT ![t] = Nothing]
               /\ verdict' = [verdict EXCEPT ![t] = FALSE]

\* A document call begins.
Ask(t, r) == /\ t \notin pending /\ pending' = pending \cup {t}
             /\ Reset(t, r)

\* A call that makes no document, or a null pointer.
Pass(t) == t \notin pending /\ Reset(t, NoRequest) /\ UNCHANGED pending

\* The document becomes fiscal.
Commit(t) == /\ t \in pending /\ fiscal[t] = Nothing
             /\ \E d \in Content[request[t]] : fiscal' = [fiscal EXCEPT ![t] = d]
             /\ UNCHANGED <<pending, request, verdict>>

Answer(t, b) == /\ t \in pending /\ pending' = pending \ {t}
                /\ b => fiscal[t] # Nothing
                /\ verdict' = [verdict EXCEPT ![t] = b]
                /\ UNCHANGED <<request, fiscal>>

\* The application dies with its calls.
Crash == /\ pending' = {}
         /\ request' = [t \in Threads |-> NoRequest]
         /\ fiscal' = [t \in Threads |-> Nothing]
         /\ verdict' = [t \in Threads |-> FALSE]

Next == \/ Crash
        \/ \E t \in Threads : \/ Pass(t) \/ Commit(t)
                              \/ \E r \in Requests : Ask(t, r)
                              \/ \E b \in BOOLEAN : Answer(t, b)

Spec == Init /\ [][Next]_vars

=============================================================================
