--------------------------- MODULE BiosInitProofs ---------------------------
(***************************************************************************)
(* What waitInitConnection answers, for any number of threads and waits.   *)
(***************************************************************************)
EXTENDS BiosInit, TLAPS

\* Every variable keeps its type: no waiter enters initConnection's places.
THEOREM TypeCorrect == Spec => []TypeOK
<1>1. Init => TypeOK
  <2>1. Init => DataTypeOK
    BY InitAssumption DEF Init, DataTypeOK, WaiterPlaces, ConnectorPlaces
  <2>2. Init => FlagTypeOK
    BY DEF Init, FlagTypeOK
  <2> QED
    BY <2>1, <2>2 DEF TypeOK
<1>2. TypeOK /\ [Next]_vars => TypeOK'
  <2> SUFFICES ASSUME TypeOK, [Next]_vars PROVE TypeOK'
    OBVIOUS
  <2> USE InitAssumption DEF TypeOK, DataTypeOK, FlagTypeOK, WaiterPlaces, ConnectorPlaces,
                             Goto, Store, Answer, flags, wait, vars
  <2>1. ASSUME NEW w \in Waiters, Wait(w) PROVE TypeOK'
    BY <2>1 DEF Wait
  <2>2. ASSUME NEW w \in Waiters, Lock(w) PROVE TypeOK'
    BY <2>2 DEF Lock
  <2>3. ASSUME NEW w \in Waiters, Test(w) PROVE TypeOK'
    BY <2>3 DEF Test
  <2>4. ASSUME NEW w \in Waiters, Block(w) PROVE TypeOK'
    BY <2>4 DEF Block
  <2>5. ASSUME NEW w \in Waiters, TimeOut(w) \/ WakeSpuriously(w) PROVE TypeOK'
    BY <2>5 DEF TimeOut, WakeSpuriously, Wake
  <2>6. ASSUME NEW w \in Waiters, Relock(w) PROVE TypeOK'
    BY <2>6 DEF Relock, AfterWake
  <2>7. ASSUME NEW w \in Waiters, Deadline(w) PROVE TypeOK'
    BY <2>7 DEF Deadline, Expire
  <2>8. ASSUME NEW c \in Connectors, Connect(c) \/ Enter(c) PROVE TypeOK'
    BY <2>8 DEF Connect, Enter
  <2>9. ASSUME NEW c \in Connectors, Command(c) PROVE TypeOK'
    BY <2>9 DEF Command
  <2>10. ASSUME NEW c \in Connectors, Notify(c) PROVE TypeOK'
    BY <2>10 DEF Notify
  <2>11. ASSUME NEW c \in Connectors, Copy(c) \/ Return(c) PROVE TypeOK'
    BY <2>11 DEF Copy, Return
  <2>12. CASE SetConnected
    BY <2>12 DEF SetConnected
  <2>13. CASE UNCHANGED vars
    BY <2>13
  <2> QED
    BY <2>1, <2>2, <2>3, <2>4, <2>5, <2>6, <2>7, <2>8, <2>9, <2>10, <2>11, <2>12, <2>13
    DEF Next, WaiterStep, ConnectorStep
<1> QED
  BY <1>1, <1>2, PTL DEF Spec

\* The answers are right because a thread that waits while the flag is set has
\* been told so (FlagSeen), wherever it is.
THEOREM WaitInvariant == Spec => []WaitInv
<1>1. Init => WaitInv
  BY InitAssumption
  DEF Init, WaitInv, FlagSeen, FalseOnlyAfterDeadline, TrueOnlyIfConnected, Answered
<1>2. TypeOK /\ WaitInv /\ [Next]_vars => WaitInv'
  <2> SUFFICES ASSUME TypeOK, WaitInv, [Next]_vars PROVE WaitInv'
    OBVIOUS
  <2> USE InitAssumption DEF TypeOK, DataTypeOK, FlagTypeOK, WaitInv, FlagSeen,
            FalseOnlyAfterDeadline, TrueOnlyIfConnected, Answered,
            Goto, Store, Answer, flags, wait, vars
  <2>1. ASSUME NEW w \in Waiters, Wait(w) PROVE WaitInv'
    BY <2>1 DEF Wait
  <2>2. ASSUME NEW w \in Waiters, Lock(w) PROVE WaitInv'
    BY <2>2 DEF Lock
  <2>3. ASSUME NEW w \in Waiters, Test(w) PROVE WaitInv'
    BY <2>3 DEF Test
  <2>4. ASSUME NEW w \in Waiters, Block(w) PROVE WaitInv'
    BY <2>4 DEF Block
  <2>5. ASSUME NEW w \in Waiters, TimeOut(w) \/ WakeSpuriously(w) PROVE WaitInv'
    BY <2>5 DEF TimeOut, WakeSpuriously, Wake
  <2>6. ASSUME NEW w \in Waiters, Relock(w) PROVE WaitInv'
    BY <2>6 DEF Relock, AfterWake
  <2>7. ASSUME NEW w \in Waiters, Deadline(w) PROVE WaitInv'
    BY <2>7 DEF Deadline, Expire
  <2>8. ASSUME NEW c \in Connectors, Connect(c) \/ Enter(c) PROVE WaitInv'
    BY <2>8 DEF Connect, Enter
  <2>9. ASSUME NEW c \in Connectors, Command(c) PROVE WaitInv'
    BY <2>9 DEF Command
  <2>10. ASSUME NEW c \in Connectors, Notify(c) PROVE WaitInv'
    BY <2>10 DEF Notify
  <2>11. ASSUME NEW c \in Connectors, Copy(c) \/ Return(c) PROVE WaitInv'
    BY <2>11 DEF Copy, Return
  <2>12. CASE SetConnected
    BY <2>12 DEF SetConnected
  <2>13. CASE UNCHANGED vars
    BY <2>13
  <2> QED
    BY <2>1, <2>2, <2>3, <2>4, <2>5, <2>6, <2>7, <2>8, <2>9, <2>10, <2>11, <2>12, <2>13
    DEF Next, WaiterStep, ConnectorStep
<1> QED
  BY <1>1, <1>2, TypeCorrect, PTL DEF Spec

\* waitInitConnection answers false only after its deadline.
THEOREM FalseMeansTimeOut == Spec => []FalseOnlyAfterDeadline
BY WaitInvariant, PTL DEF WaitInv

\* It answers true only if the connection was there during the wait.
THEOREM TrueMeansConnected == Spec => []TrueOnlyIfConnected
BY WaitInvariant, PTL DEF WaitInv

=============================================================================
