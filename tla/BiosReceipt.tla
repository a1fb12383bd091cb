---------------------------- MODULE BiosReceipt ----------------------------
(***************************************************************************)
(* Class BIOS of kf_files/FisGo_BIOS.cpp as the threads of the application *)
(* use it to fill documents: receipt_send_rf_bios, RUS::insRes, the shift  *)
(* and report commands, the two cancel calls, the status calls and the     *)
(* connection flags, over one printer (module Pirit) and one mutex_bios.   *)
(*                                                                         *)
(* Every library call is one step, so that the steps of other threads fall *)
(* between them; a call that takes the mutex for one library call only is  *)
(* one action.  RF->recPayTypes and the receipt are taken as the call's    *)
(* arguments.                                                              *)
(***************************************************************************)
EXTENDS Pirit, FiniteSets

CONSTANTS Receipts,   \* the receipts that may be sent
          NoReceipt,  \* a null pointer
          Cash,       \* PIRIT_RECEIPT_CASH
          NoType,     \* a typePayment that is not below MAX_PAY_TYPES
          Calls       \* Calls[t]: the calls thread t makes

\* The commands that cancel an open document first, then send one command.
FiscalOps == {"openShift", "closeShift", "calcStateReport", "closeFN", "registerKKT_BIOS"}
DocumentOps == {"receipt", "insRes"}
LockedOps == DocumentOps \cup FiscalOps
ShortOps == {"cancelDoc", "cancelDocBIOS", "getStatusBIOS", "fs_status_get",
             "initConnection", "connected", "disconnected"}
Ops == LockedOps \cup ShortOps

\* positions: their number; discounted, those with discountRubSum # 0;
\* unprintable, those of them that printDiscount rejects (below 0.01);
\* single: payment.typePayment; list: the keys of recPayTypes, zeros those with
\* a zero sum; addRecReq: whether the additional requisite is not empty.
ReceiptType == [positions : Nat, discounted : SUBSET Nat, unprintable : SUBSET Nat,
                single : PayTypes \cup {NoType}, list : SUBSET PayTypes,
                zeros : SUBSET PayTypes, addRecReq : BOOLEAN]

ASSUME ReceiptAssumption == /\ Receipts \subseteq ReceiptType
                            /\ NoReceipt \notin Receipts
                            /\ Cash \in PayTypes
                            /\ NoType \notin PayTypes
                            /\ Calls \in [Threads -> SUBSET Ops]
                            /\ IsFiniteSet(PayTypes)
                            /\ NoDoc \notin [pos : Nat, pays : SUBSET PayTypes, cash : BOOLEAN]

VARIABLES mutex,        \* mutex_bios: its holder, or Nobody
          pc,           \* where thread t is
          op,           \* the call it makes, "none" before the first
          rcpt,         \* the receipt of that call
          ok,           \* the call's `ok', its result once pc is "idle"
          idx,          \* how many positions of the receipt were accepted
          paid,         \* the payment types accepted
          isConnected,  \* BIOS::isConnected
          rfConnected,  \* RUS::isConnected
          isDocOpen,    \* RUS::isDocOpen, the cached flag
          events,       \* history of the call: "failed", "closeLost", "preCancelled"
          leak          \* history: why a document may be open outside a call

local == <<op, rcpt, idx, paid>>
flags == <<isConnected, rfConnected, isDocOpen>>
pirit == <<doc, archive>>
vars == <<doc, archive, mutex, pc, op, rcpt, ok, idx, paid, isConnected,
          rfConnected, isDocOpen, events, leak>>

Places == {"idle", "enter", "preCancel", "open", "position", "posDiscount", "payment",
           "totalDiscount", "requisite", "cashInOut", "close", "cancel", "command",
           "return", "cbCheck", "cbCancel"}
\* Where a thread has mutex_bios.
LockedPlaces == Places \ {"idle", "enter", "cbCheck", "cbCancel"}
Events == {"failed", "closeLost", "preCancelled"}
Leaks == {"openLost", "cancelFailed", "restart"}

FlagTypeOK == isConnected \in BOOLEAN /\ rfConnected \in BOOLEAN /\ isDocOpen \in BOOLEAN

DataTypeOK ==
  /\ PiritTypeOK
  /\ mutex \in Threads \cup {Nobody}
  /\ pc \in [Threads -> Places]
  /\ op \in [Threads -> Ops \cup {"none"}]
  /\ rcpt \in [Threads -> Receipts \cup {NoReceipt}]
  /\ ok \in [Threads -> BOOLEAN]
  /\ idx \in [Threads -> Nat]
  /\ paid \in [Threads -> SUBSET PayTypes]
  /\ events \in [Threads -> SUBSET Events]
  /\ leak \in SUBSET Leaks

TypeOK == DataTypeOK /\ FlagTypeOK

Init ==
  /\ PiritInit
  /\ mutex = Nobody
  /\ pc = [t \in Threads |-> "idle"]
  /\ op = [t \in Threads |-> "none"]
  /\ rcpt = [t \in Threads |-> NoReceipt]
  /\ ok = [t \in Threads |-> FALSE]
  /\ idx = [t \in Threads |-> 0]
  /\ paid = [t \in Threads |-> {}]
  /\ isConnected = FALSE /\ rfConnected = FALSE /\ isDocOpen = FALSE
  /\ events = [t \in Threads |-> {}]
  /\ leak = {}

Goto(t, place) == pc' = [pc EXCEPT ![t] = place]
SetOk(t, b) == ok' = [ok EXCEPT ![t] = b]
Note(t, S) == events' = [events EXCEPT ![t] = @ \cup S]

\* A lock_guard around one library call: the whole call is one step.  (Mutant:
\* the guard is missing.)
NoLock == TRUE
BriefLock == mutex = Nobody

-----------------------------------------------------------------------------
(* Calling and returning                                                    *)

Fresh(t, o, r) ==
  /\ op' = [op EXCEPT ![t] = o]
  /\ rcpt' = [rcpt EXCEPT ![t] = r]
  /\ idx' = [idx EXCEPT ![t] = 0]
  /\ paid' = [paid EXCEPT ![t] = {}]
  /\ events' = [events EXCEPT ![t] = {}]
  /\ archive' = [archive EXCEPT ![t] = NoDoc]
  /\ SetOk(t, FALSE)
  /\ UNCHANGED <<doc, leak, mutex, flags>>

Call(t, o) ==
  /\ pc[t] = "idle" /\ o \in Calls[t]
  /\ Goto(t, "enter")
  /\ \E r \in IF o = "receipt" THEN Receipts ELSE {NoReceipt} : Fresh(t, o, r)

\* A null receipt or document: false, before the mutex is taken.
CallNull(t, o) ==
  /\ pc[t] = "idle" /\ o \in Calls[t] \cap DocumentOps
  /\ Fresh(t, o, NoReceipt)
  /\ UNCHANGED pc

\* What follows the cancelling of an earlier document.
AfterPreCancel(o) == IF o \in DocumentOps THEN "open" ELSE "command"
NeedsConnection == {"openShift", "closeShift"}

\* Mutant: the mutex is not waited for.
EnterUnlocked(t) ==
  /\ pc[t] = "enter" /\ op[t] \in LockedOps /\ mutex' = t
  /\ op[t] \in NeedsConnection => rfConnected
  /\ Goto(t, IF isDocOpen THEN "preCancel" ELSE AfterPreCancel(op[t]))
  /\ UNCHANGED <<local, ok, flags, events, leak, pirit>>

Enter(t) ==
  /\ pc[t] = "enter" /\ op[t] \in LockedOps
  /\ mutex = Nobody /\ mutex' = t
  /\ op[t] \in NeedsConnection => rfConnected
  /\ Goto(t, IF isDocOpen THEN "preCancel" ELSE AfterPreCancel(op[t]))
  /\ UNCHANGED <<local, ok, flags, events, leak, pirit>>

\* An early return with the mutex taken: no connection, or a field that registration
\* finds empty, too long or out of range.
EnterFails(t) ==
  /\ pc[t] = "enter"
  /\ \/ op[t] \in NeedsConnection /\ ~rfConnected
     \/ op[t] = "registerKKT_BIOS"
  /\ mutex = Nobody /\ mutex' = t
  /\ SetOk(t, FALSE) /\ Goto(t, "return")
  /\ UNCHANGED <<local, flags, events, leak, pirit>>

\* The locals and the lock_guard are destroyed; a document left in the printer is
\* nobody's.
Return(t) ==
  /\ pc[t] = "return" /\ Goto(t, "idle")
  /\ mutex' = Nobody
  /\ idx' = [idx EXCEPT ![t] = 0] /\ paid' = [paid EXCEPT ![t] = {}]
  /\ doc' = IF doc # NoDoc /\ doc.owner = t THEN [doc EXCEPT !.owner = Nobody] ELSE doc
  /\ UNCHANGED <<op, rcpt, ok, flags, events, leak, archive>>

-----------------------------------------------------------------------------
(* RUS::cancelDoc, called with the mutex held except by cancelDocBIOS.      *)

RfCancelDoc ==
  /\ \/ ~rfConnected /\ UNCHANGED pirit
     \/ rfConnected /\ \E o \in Outcomes : CancelDocument(o)
  /\ leak' = IF doc' = NoDoc THEN {} ELSE leak \cup {"cancelFailed"}

\* Mutant: the public BIOS::cancelDoc, which takes the mutex itself.
PreCancelLocks(t) ==
  /\ pc[t] = "preCancel" /\ BriefLock /\ Goto(t, AfterPreCancel(op[t]))
  /\ RfCancelDoc /\ Note(t, {"preCancelled"})
  /\ UNCHANGED <<local, ok, flags, mutex>>

PreCancel(t) ==
  /\ pc[t] = "preCancel" /\ Goto(t, AfterPreCancel(op[t]))
  /\ RfCancelDoc /\ Note(t, {"preCancelled"})
  /\ UNCHANGED <<local, ok, flags, mutex>>

-----------------------------------------------------------------------------
(* Filling a document                                                       *)

Rejected(t, place) ==
  /\ SetOk(t, FALSE) /\ Goto(t, place)
  /\ UNCHANGED <<local, flags, mutex, leak, pirit>>

\* Where a call goes from openDoc.
AfterOpen(t, o) == IF ~Completed(o) THEN "return"
                   ELSE IF op[t] = "receipt" THEN "position" ELSE "cashInOut"

Open(t) ==
  /\ pc[t] = "open"
  /\ \/ ~rfConnected /\ Rejected(t, "return") /\ UNCHANGED events
     \/ /\ rfConnected
        /\ \E o \in Outcomes :
             /\ OpenDocument(o, t)
             /\ SetOk(t, Completed(o))
             /\ leak' = IF Completed(o) THEN {}
                        ELSE IF o = "lost" THEN leak \cup {"openLost"} ELSE leak
             /\ Goto(t, AfterOpen(t, o))
        /\ UNCHANGED <<local, flags, mutex, events>>

\* Where a failed receipt goes: the requisite is printed whatever `ok' is.
\* (Mutants: it is closed all the same; it is not cancelled.)
AfterFailureCloses(t) == IF rcpt[t].addRecReq THEN "requisite" ELSE "close"
AfterFailureLeaves(t) == IF rcpt[t].addRecReq THEN "requisite" ELSE "return"
AfterFailure(t) == IF rcpt[t].addRecReq THEN "requisite" ELSE "cancel"
AfterSuccess(t) == IF rcpt[t].addRecReq THEN "requisite" ELSE "close"

\* Where `ok' and the history go after the command o of thread t.
Went(t, o, next) ==
  /\ SetOk(t, Completed(o))
  /\ Goto(t, IF Completed(o) THEN next ELSE AfterFailure(t))
  /\ Note(t, IF Completed(o) THEN {} ELSE {"failed"})

\* A receipt's command that the code refuses to send.
NotSent(t) == Rejected(t, AfterFailure(t)) /\ Note(t, {"failed"})

Position(t) ==
  /\ pc[t] = "position" /\ idx[t] < rcpt[t].positions
  /\ \/ ~rfConnected /\ NotSent(t)
     \/ /\ rfConnected
        /\ \E o \in Outcomes :
             /\ AddPosition(o)
             /\ idx' = [idx EXCEPT ![t] = IF Completed(o) THEN @ + 1 ELSE @]
             /\ Went(t, o, IF idx[t] + 1 \in rcpt[t].discounted THEN "posDiscount"
                                                                ELSE "position")
        /\ UNCHANGED <<op, rcpt, paid, flags, mutex, leak>>

PositionsDone(t) ==
  /\ pc[t] = "position" /\ idx[t] = rcpt[t].positions
  /\ Goto(t, "payment")
  /\ UNCHANGED <<local, ok, flags, mutex, events, leak, pirit>>

PosDiscount(t) ==
  /\ pc[t] = "posDiscount"
  /\ \/ idx[t] \in rcpt[t].unprintable /\ NotSent(t)
     \/ /\ idx[t] \notin rcpt[t].unprintable
        /\ \E o \in Outcomes : PrintText(o) /\ Went(t, o, "position")
        /\ UNCHANGED <<local, flags, mutex, leak>>

\* The payments of a receipt: the single one, else the listed non-zero ones,
\* else the only listed one even if it is zero.  (Mutant: zero sums are paid too.)
DueWithZeros(r) == IF r.single # NoType THEN {r.single} ELSE r.list
Due(r) ==
  IF r.single # NoType THEN {r.single}
  ELSE IF r.list \ r.zeros # {} THEN r.list \ r.zeros
  ELSE IF Cardinality(r.list) = 1 THEN r.list ELSE {}

\* The loop over recPayTypes is in key order and leaves the cash for the end.
Earlier(p, q) == IF q = Cash THEN TRUE ELSE p # Cash /\ p < q

NextPayment(t, p) ==
  /\ p \in Due(rcpt[t]) \ paid[t]
  /\ \A q \in Due(rcpt[t]) \ paid[t] : p = q \/ Earlier(p, q)

HasPayment(r) == r.single # NoType \/ r.list # {}

Payment(t) ==
  /\ pc[t] = "payment"
  /\ \E p \in PayTypes :
       /\ NextPayment(t, p)
       /\ \/ ~isConnected /\ NotSent(t)
          \/ /\ isConnected
             /\ \E o \in Outcomes :
                  /\ AddPayment(o, p)
                  /\ paid' = [paid EXCEPT ![t] = IF Completed(o) THEN @ \cup {p} ELSE @]
                  /\ Went(t, o, "payment")
             /\ UNCHANGED <<op, rcpt, idx, flags, mutex, leak>>

NoPayment(t) ==
  /\ pc[t] = "payment" /\ ~HasPayment(rcpt[t])
  /\ NotSent(t)

PaymentsDone(t) ==
  /\ pc[t] = "payment" /\ HasPayment(rcpt[t]) /\ Due(rcpt[t]) \subseteq paid[t]
  /\ Goto(t, IF rcpt[t].discounted \cap 1..rcpt[t].positions # {}
             THEN "totalDiscount" ELSE AfterSuccess(t))
  /\ UNCHANGED <<local, ok, flags, mutex, events, leak, pirit>>

TotalDiscount(t) ==
  /\ pc[t] = "totalDiscount"
  /\ \E o \in Outcomes : PrintText(o) /\ Went(t, o, AfterSuccess(t))
  /\ UNCHANGED <<local, flags, mutex, leak>>

\* `ok' becomes the result of this command alone, compared with EXIT_SUCCESS.
Requisite(t) ==
  /\ pc[t] = "requisite"
  /\ \E o \in Outcomes :
       /\ PrintText(o)
       /\ SetOk(t, o = "ok")
       /\ Goto(t, IF o = "ok" THEN "close" ELSE "cancel")
       /\ Note(t, IF o = "ok" THEN {} ELSE {"failed"})
  /\ UNCHANGED <<local, flags, mutex, leak>>

\* insRes compares the code of libCashInOut with 0.
CashInOut(t) ==
  /\ pc[t] = "cashInOut"
  /\ \E o \in Outcomes :
       /\ CashInOutDocument(o)
       /\ SetOk(t, o = "ok")
       /\ Goto(t, IF o = "ok" THEN "close" ELSE "cancel")
       /\ Note(t, IF o = "ok" THEN {} ELSE {"failed"})
  /\ UNCHANGED <<local, flags, mutex, leak>>

\* Mutant: the result of closeDoc is not assigned to `ok'.
CloseUnassigned(t) ==
  /\ pc[t] = "close" /\ Goto(t, "return")
  /\ \/ ~rfConnected /\ UNCHANGED <<pirit, leak>>
     \/ rfConnected /\ \E o \in Outcomes :
          CloseDocument(o, t) /\ leak' = IF Executed(o) THEN {} ELSE leak
  /\ UNCHANGED <<local, ok, flags, mutex, events>>

Close(t) ==
  /\ pc[t] = "close"
  /\ \/ ~rfConnected /\ Rejected(t, "cancel") /\ Note(t, {"failed"})
     \/ /\ rfConnected
        /\ \E o \in Outcomes :
             /\ CloseDocument(o, t)
             /\ SetOk(t, Completed(o))
             /\ Goto(t, IF Completed(o) THEN "return" ELSE "cancel")
             /\ Note(t, IF Completed(o) THEN {}
                        ELSE IF o = "lost" THEN {"failed", "closeLost"} ELSE {"failed"})
             /\ leak' = IF Executed(o) THEN {} ELSE leak
        /\ UNCHANGED <<local, flags, mutex>>

\* The last step of a document that failed after it was opened.
Cancel(t) ==
  /\ pc[t] = "cancel" /\ Goto(t, "return")
  /\ RfCancelDoc
  /\ UNCHANGED <<local, ok, flags, mutex, events>>

\* The one command of a call of FiscalOps.
Command(t) ==
  /\ pc[t] = "command" /\ Goto(t, "return")
  /\ \E o \in Outcomes : OtherCommand /\ SetOk(t, Completed(o))
  /\ UNCHANGED <<local, flags, mutex, events, leak>>

-----------------------------------------------------------------------------
(* Calls with one library call under the mutex, or without the mutex        *)

Short(t, o) == pc[t] = "enter" /\ op[t] = o /\ UNCHANGED <<local, events, mutex>>

\* Mutant: the document state is cached, not whether there is one.
FsStatusGetState(t) ==
  /\ BriefLock
  /\ \E o \in Outcomes :
       SetOk(t, Completed(o)) /\ isDocOpen' = IF Completed(o) THEN doc ELSE isDocOpen
  /\ UNCHANGED <<isConnected, rfConnected, leak, pirit>>

\* RUS::fs_status_get refreshes the cached flag only if the command completed.
FsStatusGet(t) ==
  /\ BriefLock
  /\ \E o \in Outcomes :
       /\ SetOk(t, Completed(o))
       /\ isDocOpen' = IF Completed(o) THEN doc # NoDoc ELSE isDocOpen
  /\ UNCHANGED <<isConnected, rfConnected, leak, pirit>>

FsStatus(t) == Short(t, "fs_status_get") /\ FsStatusGet(t) /\ Goto(t, "idle")

\* getStatusBIOS uses the flags whatever the result; they are 0 if no answer
\* came.  fatal is the printer's FS_ERR bit.
GetStatusBIOS(t) ==
  /\ Short(t, "getStatusBIOS") /\ Goto(t, "idle")
  /\ BriefLock
  /\ \E o \in Outcomes, fatal \in BOOLEAN :
       /\ SetOk(t, Completed(o))
       /\ rfConnected' = ~(Completed(o) /\ fatal)
       /\ isDocOpen' = (Completed(o) /\ doc # NoDoc)
  /\ UNCHANGED <<isConnected, leak, pirit>>

\* BIOS::cancelDoc
CancelDoc(t) ==
  /\ Short(t, "cancelDoc") /\ Goto(t, "idle")
  /\ BriefLock
  /\ RfCancelDoc
  /\ \E b \in BOOLEAN : (b => rfConnected /\ doc' = NoDoc) /\ SetOk(t, b)
  /\ UNCHANGED flags

\* BIOS::cancelDocBIOS: the flag is read and the document cancelled after
\* fs_status_get has given the mutex back.
CancelDocBIOS(t) ==
  /\ Short(t, "cancelDocBIOS") /\ FsStatusGet(t) /\ Goto(t, "cbCheck")

CbCheck(t) ==
  /\ pc[t] = "cbCheck" /\ Goto(t, IF isDocOpen THEN "cbCancel" ELSE "idle")
  /\ UNCHANGED <<local, ok, flags, mutex, events, leak, pirit>>

CbCancel(t) ==
  /\ pc[t] = "cbCancel" /\ Goto(t, "idle")
  /\ RfCancelDoc
  /\ UNCHANGED <<local, ok, flags, mutex, events>>

\* initConnection copies the flag to RF only when it sent commandStart.
InitConnection(t) ==
  /\ Short(t, "initConnection") /\ Goto(t, "idle")
  /\ BriefLock
  /\ \/ isConnected /\ SetOk(t, TRUE) /\ UNCHANGED <<isConnected, rfConnected>>
     \/ /\ ~isConnected
        /\ \E answered \in BOOLEAN :
             isConnected' = answered /\ rfConnected' = answered /\ SetOk(t, answered)
  /\ UNCHANGED <<isDocOpen, leak, pirit>>

\* setConnected: the atomic flag, without the mutex.
SetConnected(t) ==
  /\ \E o \in {"connected", "disconnected"} :
       Short(t, o) /\ isConnected' = (o = "connected")
  /\ Goto(t, "idle")
  /\ UNCHANGED <<ok, rfConnected, isDocOpen, leak, pirit>>

-----------------------------------------------------------------------------
\* The application dies and starts again: its memory is that of the
\* constructors, the printer keeps its document.
Restart ==
  /\ mutex' = Nobody
  /\ pc' = [t \in Threads |-> "idle"]
  /\ op' = [t \in Threads |-> "none"]
  /\ rcpt' = [t \in Threads |-> NoReceipt]
  /\ ok' = [t \in Threads |-> FALSE]
  /\ idx' = [t \in Threads |-> 0]
  /\ paid' = [t \in Threads |-> {}]
  /\ isConnected' = FALSE /\ rfConnected' = FALSE /\ isDocOpen' = FALSE
  /\ events' = [t \in Threads |-> {}]
  /\ archive' = [t \in Threads |-> NoDoc]
  /\ doc' = IF doc = NoDoc THEN NoDoc ELSE [doc EXCEPT !.owner = Nobody]
  /\ leak' = IF doc = NoDoc THEN {} ELSE leak \cup {"restart"}

Fill(t) == \/ Position(t) \/ PositionsDone(t) \/ PosDiscount(t)
           \/ Payment(t) \/ NoPayment(t) \/ PaymentsDone(t)
           \/ TotalDiscount(t) \/ Requisite(t) \/ CashInOut(t)

\* The steps of a thread that has the mutex.
Inside(t) == \/ PreCancel(t) \/ Open(t) \/ Fill(t) \/ Close(t) \/ Cancel(t)
             \/ Command(t) \/ Return(t)

Outside(t) == \/ Enter(t) \/ EnterFails(t)
              \/ FsStatus(t) \/ GetStatusBIOS(t) \/ CancelDoc(t) \/ CancelDocBIOS(t)
              \/ CbCheck(t) \/ CbCancel(t) \/ InitConnection(t) \/ SetConnected(t)

ThreadStep(t) == \/ \E o \in Ops : Call(t, o) \/ CallNull(t, o)
                 \/ Inside(t) \/ Outside(t)

Next == Restart \/ \E t \in Threads : ThreadStep(t)

Spec == Init /\ [][Next]_vars

\* Every library call returns (the library has its own time-outs), so a thread
\* that has the mutex goes on.  Nothing is assumed of a thread that waits.
FairSpec == Spec /\ \A t \in Threads : WF_vars(Inside(t))

-----------------------------------------------------------------------------
(* Properties                                                               *)

\* What the caller of receipt_send_rf_bios asked for: every position and,
\* of the payments, the single one, or those listed with a sum (a zero one
\* only if it stands alone).
Wanted(r) ==
  [pos  |-> r.positions,
   pays |-> IF r.single # NoType THEN {r.single}
            ELSE {p \in r.list : p \notin r.zeros \/ r.list = {p}},
   cash |-> FALSE]
WantedCash == [pos |-> 0, pays |-> {}, cash |-> TRUE]

\* What may be missing from a receipt with an additional requisite, of which a failed
\* command is forgotten: its last positions with all payments, or some payments.
Beginnings(d) == {b \in [pos : 0..d.pos, pays : SUBSET d.pays, cash : {d.cash}] :
                    b.pos < d.pos => b.pays = {}}

Fiscal(r) == IF r = NoReceipt THEN {WantedCash}
             ELSE IF r.addRecReq THEN Beginnings(Wanted(r)) ELSE {Wanted(r)}

Contents(d) == [pos |-> d.pos, pays |-> d.pays, cash |-> d.cash]

\* A document that a call makes fiscal holds all that was asked for, neither
\* less nor more, whatever commands failed on the way and whatever other
\* threads did meanwhile.  With an additional requisite it may hold less (see
\* FailureCancels), but no payment of a receipt that lacks a position, and never more.
ArchivedIsWhole ==
  \A t \in Threads :
    archive[t] # NoDoc => archive[t].owner = t /\ Contents(archive[t]) \in Fiscal(rcpt[t])

\* The result of a document call tells whether it is in the fiscal memory: true
\* means it is; false that it is not, except when the answer to the closing
\* command was the one that got lost.
VerdictMatchesArchive ==
  \A t \in Threads :
    pc[t] = "idle" /\ op[t] \in DocumentOps =>
      /\ ok[t] => archive[t] # NoDoc
      /\ ~ok[t] /\ archive[t] # NoDoc => "closeLost" \in events[t]

Filling == {"position", "posDiscount", "payment", "totalDiscount", "requisite",
            "cashInOut", "close"}

\* Two documents never mix: the one in the printer belongs to the thread that has
\* the mutex and is where the library calls fill, close or cancel it, or to no call
\* at all; and while a call fills a document the printer holds that one or none:
\* nothing left by an earlier call gets its positions.
DocumentHasOneWriter ==
  /\ doc # NoDoc /\ doc.owner \in Threads =>
       /\ mutex = doc.owner
       /\ pc[doc.owner] \in Filling \cup {"cancel", "return"}
  /\ \A t \in Threads : pc[t] \in Filling /\ doc # NoDoc => doc.owner = t

\* A document is left open between calls only if the answer to its opening was
\* lost, if the printer refused to cancel it, or if the application died.
LeakIsExplained == mutex = Nobody /\ doc # NoDoc => leak # {}

\* Once a call has opened a document, RUS::isConnected cannot change before the
\* document is closed or cancelled: the closing and the cancelling command are
\* not swallowed by the check in closeDoc and cancelDoc.
CancelReachesPrinter ==
  \A t \in Threads : pc[t] \in Filling \cup {"cancel"} => rfConnected

\* Only the thread that fills a document changes or removes it, the death of
\* the application aside, and cancelDocBIOS, which cancels without the mutex.
Undisturbed ==
  [][ \A t \in Threads :
        doc # NoDoc /\ doc.owner = t /\ doc' # doc =>
          \/ <<pc[t], idx[t], paid[t]>>' # <<pc[t], idx[t], paid[t]>>
          \/ Restart
          \/ \E u \in Threads : pc[u] = "cbCancel" /\ pc'[u] = "idle" ]_vars

\* mutex_bios is always given back: no call keeps the others out for ever.
MutexReleased == \A t \in Threads : mutex = t ~> mutex # t

\* What FisGo_BIOS.cpp:977 says of receipt_send_rf_bios: "cancel the document if
\* anything went wrong after the opening".  Stated of the receipts that have all
\* their positions and payments, which no printer has a reason to refuse: none of
\* them is closed and answered with true after one of its commands failed.
FailureCancels ==
  \A t \in Threads :
    pc[t] = "idle" /\ op[t] = "receipt" /\ ok[t] /\ archive[t] # NoDoc =>
      (Contents(archive[t]) = Wanted(rcpt[t]) => "failed" \notin events[t])

\* What is true of it: true after a failed command is answered for a receipt with an
\* additional requisite only, never for another receipt and never for insRes.
FailureIsReported ==
  \A t \in Threads :
    pc[t] = "idle" /\ op[t] \in DocumentOps /\ ok[t] /\ "failed" \in events[t] =>
      op[t] = "receipt" /\ rcpt[t].addRecReq

\* What FisGo_BIOS.cpp:797 says: a document opened earlier is closed, if there
\* is one, before the receipt is opened.
EarlierDocumentCancelled ==
  \A t \in Threads :
    pc[t] = "open" /\ rfConnected /\ doc # NoDoc => "preCancelled" \in events[t]

-----------------------------------------------------------------------------
(* The inductive invariants behind them                                     *)

\* From the opened document to the last command about it.
Live == Filling \cup {"cancel"}

MutexMatches == \A t \in Threads : pc[t] \in LockedPlaces <=> mutex = t
OwnerIsLive  == doc # NoDoc /\ doc.owner \in Threads => pc[doc.owner] \in Live \cup {"return"}
LiveIsOwner  == \A t \in Threads : pc[t] \in Live /\ doc # NoDoc => doc.owner = t
LeakIsKnown  == doc # NoDoc /\ leak = {} => doc.owner \in Threads /\ pc[doc.owner] \in Live

DocumentInv == MutexMatches /\ OwnerIsLive /\ LiveIsOwner /\ CancelReachesPrinter /\ LeakIsKnown

\* From the call to the opened document.
Opening == {"enter", "preCancel", "open"}
\* Where nothing of a document has failed yet, and where a forgotten failure may lie behind.
Exact == {"position", "posDiscount", "payment", "totalDiscount", "cashInOut"}
Ending == {"requisite", "close"}

\* Where a call is and what it has been asked for.
OpMatches(t) ==
  /\ pc[t] \in LockedPlaces => op[t] \in LockedOps
  /\ pc[t] \in Live \cup {"open"} => op[t] \in DocumentOps
  /\ pc[t] \in (Exact \cup {"requisite"}) \ {"cashInOut"} => op[t] = "receipt"
  /\ pc[t] = "requisite" => rcpt[t].addRecReq
  /\ pc[t] = "cashInOut" => op[t] = "insRes"
  /\ pc[t] = "command" => op[t] \in FiscalOps
  /\ pc[t] \in {"cbCheck", "cbCancel"} => op[t] = "cancelDocBIOS"
  /\ op[t] = "insRes" => rcpt[t] = NoReceipt
  /\ op[t] = "receipt" /\ pc[t] # "idle" => rcpt[t] # NoReceipt

\* How far it has come.
Progress(t) ==
  /\ pc[t] \in Opening \cup {"cashInOut"} => idx[t] = 0 /\ paid[t] = {}
  /\ pc[t] \in {"position", "posDiscount"} => idx[t] <= rcpt[t].positions /\ paid[t] = {}
  /\ pc[t] \in {"payment", "totalDiscount"} => idx[t] = rcpt[t].positions
  /\ pc[t] = "payment" => paid[t] \subseteq Due(rcpt[t])
  /\ pc[t] = "totalDiscount" => paid[t] = Due(rcpt[t])

\* What the printer holds of it.
DocMatches(t) ==
  doc # NoDoc =>
    /\ pc[t] \in Exact => Contents(doc) = [pos |-> idx[t], pays |-> paid[t], cash |-> FALSE]
    /\ pc[t] \in Ending => Contents(doc) \in Fiscal(rcpt[t])

\* What it knows of the fiscal memory.
ArchiveMatches(t) ==
  /\ pc[t] \in Opening \cup Filling => archive[t] = NoDoc
  /\ pc[t] \in Opening \cup {"cancel"} => ~ok[t]
  /\ pc[t] \in {"idle", "cancel", "return"} /\ op[t] \in DocumentOps =>
       /\ ok[t] => archive[t] # NoDoc
       /\ ~ok[t] /\ archive[t] # NoDoc => "closeLost" \in events[t]

ContentInv == /\ ArchivedIsWhole
              /\ \A t \in Threads : OpMatches(t) /\ Progress(t) /\ DocMatches(t)
                                    /\ ArchiveMatches(t)

\* After a failed command that is not forgotten there is only the end of the call.
FailureEndsIt ==
  \A t \in Threads :
    op[t] \in DocumentOps /\ "failed" \in events[t] =>
      \/ op[t] = "receipt" /\ rcpt[t].addRecReq
      \/ pc[t] \in {"cancel", "return", "idle"} /\ ~ok[t]

-----------------------------------------------------------------------------
\* To its callers the class is the atomic FiscalCall: a call is answered from
\* nothing or from one document that its request accounts for.
Abstract == INSTANCE FiscalCall WITH
  Requests  <- Receipts \cup {NoReceipt},
  Content   <- [r \in Receipts \cup {NoReceipt} |-> Fiscal(r)],
  NoRequest <- NoReceipt,
  Nothing   <- NoDoc,
  pending   <- {t \in Threads : pc[t] # "idle" /\ op[t] \in DocumentOps},
  request   <- rcpt,
  fiscal    <- [t \in Threads |-> IF archive[t] = NoDoc THEN NoDoc
                                  ELSE Contents(archive[t])],
  verdict   <- [t \in Threads |-> pc[t] = "idle" /\ op[t] \in DocumentOps /\ ok[t]]

AbstractSpec == Abstract!Spec

=============================================================================
