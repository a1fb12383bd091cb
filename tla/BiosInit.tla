------------------------------ MODULE BiosInit ------------------------------
(***************************************************************************)
(* Waiting for the connection with the printer: BIOS::waitInitConnection   *)
(* (kf_files/FisGo_BIOS.cpp:744), BIOS::initConnection (566) and           *)
(* BIOS::setConnected (FisGo_BIOS.h:350), at the grain of the condition    *)
(* variable.  BiosReceipt takes initConnection for one step; here it is    *)
(* the loads, stores and the notification it consists of.                  *)
(*                                                                         *)
(* A waiter tests the flag and then blocks, both under initBiosMutex; the  *)
(* flag is stored under mutex_bios, or under no mutex, so that a store and *)
(* its notification may fall between the test and the blocking.            *)
(***************************************************************************)
EXTENDS Naturals

CONSTANTS Waiters,     \* threads that call waitInitConnection
          Connectors,  \* threads that call initConnection
          Nobody,      \* no thread
          SetTo,       \* the values setConnected is called with
          MaxWaits     \* bound: how often one thread calls waitInitConnection

ASSUME InitAssumption == /\ Nobody \notin Waiters \cup Connectors
                         /\ Waiters \cap Connectors = {}
                         /\ SetTo \subseteq BOOLEAN
                         /\ MaxWaits \in Nat

VARIABLES isConnected,    \* BIOS::isConnected, atomic
          rfConnected,    \* RUS::isConnected
          mutexBios,      \* mutex_bios: its holder, or Nobody
          initBiosMutex,  \* initBiosMutex: its holder, or Nobody
          pc,             \* where each thread is
          result,         \* what its last call returned
          expired,        \* whether the 300 seconds of the current wait are over
          waits,          \* how often a thread has called waitInitConnection
          seen            \* history: the flag was set at some time of the current wait

flags == <<isConnected, rfConnected>>
wait == <<expired, waits>>
vars == <<flags, mutexBios, initBiosMutex, pc, result, wait, seen>>

WaiterPlaces == {"idle", "lock", "test", "block", "blocked", "relock"}
ConnectorPlaces == {"idle", "enter", "command", "notify", "copy", "return"}

FlagTypeOK == isConnected \in BOOLEAN /\ rfConnected \in BOOLEAN

DataTypeOK ==
  /\ mutexBios \in Connectors \cup {Nobody}
  /\ initBiosMutex \in Waiters \cup {Nobody}
  /\ pc \in [Waiters \cup Connectors -> WaiterPlaces \cup ConnectorPlaces]
  /\ \A w \in Waiters : pc[w] \in WaiterPlaces
  /\ \A c \in Connectors : pc[c] \in ConnectorPlaces
  /\ result \in [Waiters \cup Connectors -> BOOLEAN]
  /\ expired \in [Waiters -> BOOLEAN]
  /\ waits \in [Waiters -> 0..MaxWaits]
  /\ seen \in [Waiters -> BOOLEAN]

TypeOK == DataTypeOK /\ FlagTypeOK

Init ==
  /\ isConnected = FALSE /\ rfConnected = FALSE
  /\ mutexBios = Nobody /\ initBiosMutex = Nobody
  /\ pc = [t \in Waiters \cup Connectors |-> "idle"]
  /\ result = [t \in Waiters \cup Connectors |-> FALSE]
  /\ expired = [w \in Waiters |-> FALSE]
  /\ waits = [w \in Waiters |-> 0]
  /\ seen = [w \in Waiters |-> FALSE]

Goto(t, place) == pc' = [pc EXCEPT ![t] = place]

\* The flag is stored; whoever is waiting now has seen it set.
Store(b) ==
  /\ isConnected' = b
  /\ seen' = [w \in Waiters |-> seen[w] \/ b]

-----------------------------------------------------------------------------
(* waitInitConnection: wait_until with a predicate is the loop              *)
(*   while (!isConnected) if (wait_until(...) == timeout) return isConnected *)
(* and the clock is read again after each waking.                           *)

Wait(w) ==
  /\ pc[w] = "idle" /\ waits[w] < MaxWaits /\ Goto(w, "lock")
  /\ expired' = [expired EXCEPT ![w] = FALSE]
  /\ waits' = [waits EXCEPT ![w] = @ + 1]
  /\ seen' = [seen EXCEPT ![w] = isConnected]
  /\ UNCHANGED <<flags, mutexBios, initBiosMutex, result>>

Lock(w) ==
  /\ pc[w] = "lock" /\ initBiosMutex = Nobody
  /\ initBiosMutex' = w /\ Goto(w, "test")
  /\ UNCHANGED <<flags, mutexBios, result, wait, seen>>

Answer(w, b) ==
  /\ result' = [result EXCEPT ![w] = b]
  /\ initBiosMutex' = Nobody /\ Goto(w, "idle")

Test(w) ==
  /\ pc[w] = "test"
  /\ \/ isConnected /\ Answer(w, TRUE)
     \/ ~isConnected /\ Goto(w, "block") /\ UNCHANGED <<initBiosMutex, result>>
  /\ UNCHANGED <<flags, mutexBios, wait, seen>>

\* The mutex is given back and the thread blocks, in one step.
Block(w) ==
  /\ pc[w] = "block"
  /\ initBiosMutex' = Nobody /\ Goto(w, "blocked")
  /\ UNCHANGED <<flags, mutexBios, result, wait, seen>>

\* The 300 seconds go by.  (Mutant: the wait has no deadline.)
ExpireNever(w) == FALSE /\ expired' = expired
Expire(w) == pc[w] # "idle" /\ ~expired[w] /\ expired' = [expired EXCEPT ![w] = TRUE]

Deadline(w) ==
  /\ Expire(w)
  /\ UNCHANGED <<flags, mutexBios, initBiosMutex, pc, result, waits, seen>>

Wake(w) ==
  /\ pc[w] = "blocked" /\ Goto(w, "relock")
  /\ UNCHANGED <<flags, mutexBios, initBiosMutex, result, wait, seen>>

TimeOut(w) == expired[w] /\ Wake(w)
WakeSpuriously(w) == ~expired[w] /\ Wake(w)

\* Before the deadline a woken thread tests again.  (Mutants: wait_until without
\* a predicate; its result is taken for true.)
AfterWakeAnswers(w) == Answer(w, isConnected)
AfterWakeTrue(w) == Answer(w, TRUE)
AfterWake(w) ==
  \/ expired[w] /\ Answer(w, isConnected)
  \/ ~expired[w] /\ initBiosMutex' = w /\ Goto(w, "test") /\ UNCHANGED result

Relock(w) ==
  /\ pc[w] = "relock" /\ initBiosMutex = Nobody
  /\ AfterWake(w)
  /\ UNCHANGED <<flags, mutexBios, wait, seen>>

-----------------------------------------------------------------------------
(* initConnection                                                           *)

Connect(c) ==
  /\ pc[c] = "idle" /\ Goto(c, "enter")
  /\ UNCHANGED <<flags, mutexBios, initBiosMutex, result, wait, seen>>

Enter(c) ==
  /\ pc[c] = "enter" /\ mutexBios = Nobody
  /\ \/ /\ isConnected /\ Goto(c, "idle")
        /\ result' = [result EXCEPT ![c] = TRUE] /\ UNCHANGED mutexBios
     \/ /\ ~isConnected /\ Goto(c, "command")
        /\ mutexBios' = c /\ UNCHANGED result
  /\ UNCHANGED <<flags, initBiosMutex, wait, seen>>

\* commandStart and the store of its result.
Command(c) ==
  /\ pc[c] = "command" /\ Goto(c, "notify")
  /\ \E answered \in BOOLEAN : Store(answered)
  /\ UNCHANGED <<rfConnected, mutexBios, initBiosMutex, result, wait>>

\* The flag is loaded again; notify_all wakes those that are blocked now.  (Mutant: the
\* thread then waits like them.)
NotifyAndWait(c) ==
  /\ pc[c] = "notify"
  /\ pc' = [t \in DOMAIN pc |->
              IF t = c \/ (isConnected /\ pc[t] = "blocked") THEN "relock" ELSE pc[t]]
  /\ UNCHANGED <<flags, mutexBios, initBiosMutex, result, wait, seen>>

Notify(c) ==
  /\ pc[c] = "notify"
  /\ pc' = [t \in DOMAIN pc |->
              IF t = c THEN "copy"
              ELSE IF isConnected /\ pc[t] = "blocked" THEN "relock" ELSE pc[t]]
  /\ UNCHANGED <<flags, mutexBios, initBiosMutex, result, wait, seen>>

\* And again, for RF.
Copy(c) ==
  /\ pc[c] = "copy" /\ Goto(c, "return")
  /\ rfConnected' = isConnected
  /\ UNCHANGED <<isConnected, mutexBios, initBiosMutex, result, wait, seen>>

Return(c) ==
  /\ pc[c] = "return" /\ Goto(c, "idle")
  /\ result' = [result EXCEPT ![c] = isConnected]
  /\ mutexBios' = Nobody
  /\ UNCHANGED <<flags, initBiosMutex, wait, seen>>

\* setConnected, from any thread and under no mutex; it notifies nobody.
SetConnected ==
  /\ \E b \in SetTo : Store(b)
  /\ UNCHANGED <<rfConnected, mutexBios, initBiosMutex, pc, result, wait>>

-----------------------------------------------------------------------------
WaiterStep(w) == Lock(w) \/ Test(w) \/ Block(w) \/ TimeOut(w) \/ Relock(w)
ConnectorStep(c) == Enter(c) \/ Command(c) \/ Notify(c) \/ Copy(c) \/ Return(c)

Next == \/ \E w \in Waiters : Wait(w) \/ WaiterStep(w) \/ Deadline(w) \/ WakeSpuriously(w)
        \/ \E c \in Connectors : Connect(c) \/ ConnectorStep(c)
        \/ SetConnected

Spec == Init /\ [][Next]_vars

\* A thread that can go on does, and time goes by.  Nothing is assumed of
\* initConnection, of setConnected or of spurious wake-ups.
FairSpec == /\ Spec
            /\ \A w \in Waiters : WF_vars(WaiterStep(w)) /\ WF_vars(Deadline(w))

-----------------------------------------------------------------------------
(* Properties                                                               *)

Answered(w) == pc[w] = "idle" /\ waits[w] > 0

\* waitInitConnection answers false only after its 300 seconds, whatever wakes
\* it and however the flag changes meanwhile.
FalseOnlyAfterDeadline == \A w \in Waiters : Answered(w) /\ ~result[w] => expired[w]

\* It answers true only if the connection was there at some time of the wait.
TrueOnlyIfConnected == \A w \in Waiters : Answered(w) /\ result[w] => seen[w]

\* Every wait ends, even one whose notification came before the thread blocked.
WaitReturns == \A w \in Waiters : pc[w] # "idle" ~> pc[w] = "idle"

\* FisGo_BIOS.h:152 calls initBiosCv the "cv of the flag of the initialisation of
\* BIOS": a thread does not sleep on when the flag is set and nobody is left to
\* notify it.
NoMissedWakeup ==
  \A w \in Waiters :
    pc[w] = "blocked" /\ ~expired[w] /\ isConnected => \E c \in Connectors : pc[c] = "notify"

-----------------------------------------------------------------------------
(* The inductive invariant                                                  *)

FlagSeen == \A w \in Waiters : pc[w] # "idle" /\ isConnected => seen[w]

WaitInv == FlagSeen /\ FalseOnlyAfterDeadline /\ TrueOnlyIfConnected

=============================================================================
