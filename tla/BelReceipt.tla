----------------------------- MODULE BelReceipt -----------------------------
(***************************************************************************)
(* Class BIOS of kf_files/FisGo_BIOS.cpp in a BIOS_RB build (Belarus):     *)
(* receipt_send_rb_bios, BEL::insRes, the shift commands, the cancel calls *)
(* and the connection flags, over one printer (module Pirit) and one       *)
(* mutex_bios.  The class shares nothing with RUS but the printer; it opens*)
(* documents differently, pays them differently and cancels less.          *)
(*                                                                         *)
(* Every library call is one step; a call that takes the mutex for one     *)
(* library call only is one action.  The sums of margins are left out, and *)
(* RB->recPayTypes and the receipt are taken as the call's arguments.      *)
(***************************************************************************)
EXTENDS Pirit

CONSTANTS Receipts,   \* the receipts that may be sent
          NoReceipt,  \* a null pointer
          Cash,       \* PIRIT_RECEIPT_CASH
          NoType,     \* a typePayment that is not below MAX_PAY_TYPES
          Calls       \* Calls[t]: the calls thread t makes

DocumentOps == {"receipt", "insRes"}
ShiftOps == {"openShift", "closeShift", "cancelDocBel", "curShiftNum"}
ShortOps == {"kca_flgs_get", "cancelDoc", "cancelDocBIOS", "initConnection",
             "connected", "disconnected"}
Ops == DocumentOps \cup ShiftOps \cup ShortOps

\* positions: their number; marked, those with a margin; margin: whether there
\* is one on the whole receipt; single: payment.typePayment; list: the keys of
\* recPayTypes, zeros those with a zero sum.
ReceiptType == [positions : Nat, marked : SUBSET Nat, margin : BOOLEAN,
                single : PayTypes \cup {NoType}, list : SUBSET PayTypes,
                zeros : SUBSET PayTypes]

ASSUME BelAssumption == /\ Receipts \subseteq ReceiptType
                        /\ NoReceipt \notin Receipts
                        /\ Cash \in PayTypes
                        /\ NoType \notin PayTypes
                        /\ Calls \in [Threads -> SUBSET Ops]
                        /\ NoDoc \notin [pos : Nat, pays : SUBSET PayTypes, cash : BOOLEAN]

VARIABLES mutex,        \* mutex_bios: its holder, or Nobody
          pc,           \* where thread t is
          op,           \* the call it makes, "none" before the first
          rcpt,         \* the receipt of that call
          ok,           \* the call's `ok', its result once pc is "idle"
          idx,          \* how many positions of the receipt were accepted
          paid,         \* the payment types accepted
          isConnected,  \* BIOS::isConnected
          rbConnected,  \* BEL::isConnected
          isDocOpened,  \* BEL::isDocOpened, the cached flag
          closeLost,    \* history: the calls whose closing command got no answer
          leak          \* history: why a document may be open outside a call

local == <<op, rcpt, idx, paid>>
flags == <<isConnected, rbConnected, isDocOpened>>
pirit == <<doc, archive>>
history == <<closeLost, leak>>
vars == <<pirit, mutex, pc, local, ok, flags, history>>

Filling == {"position", "posMargin", "subTotal", "margin", "payment", "cashInOut", "close"}
LockedPlaces == Filling \cup {"preCancel", "open", "cancel", "return"}
Places == LockedPlaces \cup {"idle", "enter", "cbCheck", "cbCancel"}
Leaks == {"openLost", "openWarned", "cancelFailed", "restart"}

FlagTypeOK == isConnected \in BOOLEAN /\ rbConnected \in BOOLEAN /\ isDocOpened \in BOOLEAN

TypeOK ==
  /\ FlagTypeOK
  /\ PiritTypeOK
  /\ mutex \in Threads \cup {Nobody}
  /\ pc \in [Threads -> Places]
  /\ op \in [Threads -> Ops \cup {"none"}]
  /\ rcpt \in [Threads -> Receipts \cup {NoReceipt}]
  /\ ok \in [Threads -> BOOLEAN]
  /\ idx \in [Threads -> Nat]
  /\ paid \in [Threads -> SUBSET PayTypes]
  /\ closeLost \subseteq Threads
  /\ leak \subseteq Leaks

\* The constructor of BEL sets neither of its flags: they have any value.
Init ==
  /\ PiritInit
  /\ mutex = Nobody
  /\ pc = [t \in Threads |-> "idle"]
  /\ op = [t \in Threads |-> "none"]
  /\ rcpt = [t \in Threads |-> NoReceipt]
  /\ ok = [t \in Threads |-> FALSE]
  /\ idx = [t \in Threads |-> 0]
  /\ paid = [t \in Threads |-> {}]
  /\ isConnected = FALSE /\ rbConnected \in BOOLEAN /\ isDocOpened \in BOOLEAN
  /\ closeLost = {}
  /\ leak = {}

Goto(t, place) == pc' = [pc EXCEPT ![t] = place]
SetOk(t, b) == ok' = [ok EXCEPT ![t] = b]

\* A lock_guard around one library call, on mutex_bios or on *mutex_rb, which is
\* its address: the whole call is one step.  (Mutant: the guard is missing.)
NoLock == TRUE
BriefLock == mutex = Nobody

-----------------------------------------------------------------------------
(* Calling and returning                                                    *)

Fresh(t, o, r) ==
  /\ op' = [op EXCEPT ![t] = o]
  /\ rcpt' = [rcpt EXCEPT ![t] = r]
  /\ idx' = [idx EXCEPT ![t] = 0]
  /\ paid' = [paid EXCEPT ![t] = {}]
  /\ archive' = [archive EXCEPT ![t] = NoDoc]
  /\ closeLost' = closeLost \ {t}
  /\ SetOk(t, FALSE)
  /\ UNCHANGED <<doc, leak, mutex, flags>>

Call(t, o) ==
  /\ pc[t] = "idle" /\ o \in Calls[t]
  /\ Goto(t, "enter")
  /\ \E r \in IF o = "receipt" THEN Receipts \cup {NoReceipt} ELSE {NoReceipt} : Fresh(t, o, r)

\* insRes looks at the document before it takes the mutex.
InsResNull(t) ==
  /\ pc[t] = "idle" /\ "insRes" \in Calls[t]
  /\ Fresh(t, "insRes", NoReceipt)
  /\ UNCHANGED pc

\* receipt_send_rb_bios looks at the receipt with the mutex taken, and cancels
\* no earlier document; insRes cancels the one the cached flag tells of.
FirstPlace(t) ==
  CASE op[t] = "receipt" /\ rcpt[t] = NoReceipt -> "return"
    [] op[t] = "insRes" /\ isDocOpened          -> "preCancel"
    [] OTHER                                    -> "open"

Enter(t) ==
  /\ pc[t] = "enter" /\ op[t] \in DocumentOps
  /\ mutex = Nobody /\ mutex' = t
  /\ Goto(t, FirstPlace(t))
  /\ UNCHANGED <<local, ok, flags, history, pirit>>

\* The locals and the lock_guard are destroyed; a document left in the printer is
\* nobody's.
Return(t) ==
  /\ pc[t] = "return" /\ Goto(t, "idle")
  /\ mutex' = Nobody
  /\ idx' = [idx EXCEPT ![t] = 0] /\ paid' = [paid EXCEPT ![t] = {}]
  /\ doc' = IF doc # NoDoc /\ doc.owner = t THEN [doc EXCEPT !.owner = Nobody] ELSE doc
  /\ UNCHANGED <<op, rcpt, ok, flags, history, archive>>

-----------------------------------------------------------------------------
(* Filling a document                                                       *)

\* BEL::cancelDoc, called with the mutex held except by cancelDocBIOS.
RbCancelDoc ==
  /\ \/ ~rbConnected /\ UNCHANGED pirit
     \/ rbConnected /\ \E o \in Outcomes : CancelDocument(o)
  /\ leak' = IF doc' = NoDoc THEN {} ELSE leak \cup {"cancelFailed"}
  /\ UNCHANGED closeLost

\* Mutant: the public BIOS::cancelDoc, which takes the mutex itself.
PreCancelLocks(t) ==
  /\ pc[t] = "preCancel" /\ BriefLock /\ Goto(t, "open")
  /\ RbCancelDoc
  /\ UNCHANGED <<local, ok, flags, mutex>>

PreCancel(t) ==
  /\ pc[t] = "preCancel" /\ Goto(t, "open")
  /\ RbCancelDoc
  /\ UNCHANGED <<local, ok, flags, mutex>>

\* BEL::openDoc answers whether the code is 0: after a non-critical one the
\* document is open and the call returns.  (Mutant: the result is not looked at.)
AfterOpenUnchecked(t, o) == IF op[t] = "receipt" THEN "position" ELSE "cashInOut"
AfterOpen(t, o) == IF o # "ok" THEN "return"
                   ELSE IF op[t] = "receipt" THEN "position" ELSE "cashInOut"

OpenLeaves(o) == CASE o = "lost" -> {"openLost"}
                   [] o = "warn" -> {"openWarned"}
                   [] OTHER      -> {}

Open(t) ==
  /\ pc[t] = "open"
  /\ \/ /\ ~rbConnected
        /\ SetOk(t, FALSE) /\ Goto(t, "return")
        /\ UNCHANGED <<pirit, leak>>
     \/ /\ rbConnected
        /\ \E o \in Outcomes :
             /\ OpenDocument(o, t)
             /\ SetOk(t, o = "ok")
             /\ leak' = IF o = "ok" THEN {} ELSE leak \cup OpenLeaves(o)
             /\ Goto(t, AfterOpen(t, o))
  /\ UNCHANGED <<local, flags, mutex, closeLost>>

\* Where a failed command of a document leads.  (Mutants: it is closed all the
\* same; it is left.)
AfterFailureCloses(t) == "close"
AfterFailureLeaves(t) == "return"
AfterFailure(t) == "cancel"

\* Where the command o of thread t leads.
Went(t, o, next) ==
  /\ SetOk(t, Completed(o))
  /\ Goto(t, IF Completed(o) THEN next ELSE AfterFailure(t))
  /\ UNCHANGED <<flags, mutex, history>>

\* A command that is not sent, for want of a connection or of a payment.
NotSent(t) ==
  /\ SetOk(t, FALSE) /\ Goto(t, AfterFailure(t))
  /\ UNCHANGED <<local, flags, mutex, history, pirit>>

Position(t) ==
  /\ pc[t] = "position" /\ idx[t] < rcpt[t].positions
  /\ \/ ~rbConnected /\ NotSent(t)
     \/ /\ rbConnected
        /\ \E o \in Outcomes :
             /\ AddPosition(o)
             /\ idx' = [idx EXCEPT ![t] = IF Completed(o) THEN @ + 1 ELSE @]
             /\ Went(t, o, IF idx[t] + 1 \in rcpt[t].marked THEN "posMargin"
                                                            ELSE "position")
        /\ UNCHANGED <<op, rcpt, paid>>

PositionsDone(t) ==
  /\ pc[t] = "position" /\ idx[t] = rcpt[t].positions
  /\ Goto(t, "subTotal")
  /\ UNCHANGED <<local, ok, flags, mutex, history, pirit>>

\* addMarginRubles and subTotal: a line of the open document.
Line(t, next) ==
  \/ ~rbConnected /\ NotSent(t)
  \/ /\ rbConnected
     /\ \E o \in Outcomes : PrintText(o) /\ Went(t, o, next)
     /\ UNCHANGED local

PosMargin(t) == pc[t] = "posMargin" /\ Line(t, "position")
SubTotal(t)  == pc[t] = "subTotal" /\ Line(t, IF rcpt[t].margin THEN "margin" ELSE "payment")
Margin(t)    == pc[t] = "margin" /\ Line(t, "payment")

\* The payments of a receipt: the single one, else the listed ones that have a
\* sum and the cash if it is listed.  (Mutant: the cash needs a sum too.)
DueWithoutZeroCash(r) == IF r.single # NoType THEN {r.single} ELSE r.list \ r.zeros
Due(r) == IF r.single # NoType THEN {r.single}
          ELSE (r.list \ r.zeros) \cup (r.list \cap {Cash})

\* The loop over recPayTypes is in key order and leaves the cash for the end.
Earlier(p, q) == p # Cash /\ (q = Cash \/ p < q)

NextPayment(t, p) ==
  /\ p \in Due(rcpt[t]) \ paid[t]
  /\ \A q \in Due(rcpt[t]) \ paid[t] : p = q \/ Earlier(p, q)

Payment(t) ==
  /\ pc[t] = "payment" /\ isConnected
  /\ \E p \in PayTypes, o \in Outcomes :
       /\ NextPayment(t, p) /\ AddPayment(o, p)
       /\ paid' = [paid EXCEPT ![t] = IF Completed(o) THEN @ \cup {p} ELSE @]
       /\ Went(t, o, "payment")
  /\ UNCHANGED <<op, rcpt, idx>>

HasPayment(r) == r.single # NoType \/ r.list # {}

\* Neither one payment nor a list, or no connection for the next one.
PaymentNotSent(t) ==
  /\ pc[t] = "payment"
  /\ \/ ~HasPayment(rcpt[t])
     \/ ~isConnected /\ ~(Due(rcpt[t]) \subseteq paid[t])
  /\ NotSent(t)

PaymentsDone(t) ==
  /\ pc[t] = "payment" /\ HasPayment(rcpt[t]) /\ Due(rcpt[t]) \subseteq paid[t]
  /\ Goto(t, "close")
  /\ UNCHANGED <<local, ok, flags, mutex, history, pirit>>

\* insRes compares the code of libCashInOut with 0.
CashInOut(t) ==
  /\ pc[t] = "cashInOut"
  /\ \E o \in Outcomes :
       /\ CashInOutDocument(o)
       /\ SetOk(t, o = "ok")
       /\ Goto(t, IF o = "ok" THEN "close" ELSE "cancel")
  /\ UNCHANGED <<local, flags, mutex, history>>

\* Mutant: the answer of closeDoc is not assigned to `ok'.
CloseUnassigned(t) ==
  /\ pc[t] = "close" /\ rbConnected /\ Goto(t, "return")
  /\ \E o \in Outcomes :
       CloseDocument(o, t) /\ leak' = IF Executed(o) THEN {} ELSE leak
  /\ UNCHANGED <<local, ok, flags, mutex, closeLost>>

Close(t) ==
  /\ pc[t] = "close"
  /\ \/ ~rbConnected /\ NotSent(t)
     \/ /\ rbConnected
        /\ \E o \in Outcomes :
             /\ CloseDocument(o, t)
             /\ SetOk(t, Completed(o))
             /\ Goto(t, IF Completed(o) THEN "return" ELSE "cancel")
             /\ closeLost' = IF o = "lost" THEN closeLost \cup {t} ELSE closeLost
             /\ leak' = IF Executed(o) THEN {} ELSE leak
        /\ UNCHANGED <<local, flags, mutex>>

\* The last step of a document that failed after it was opened.
Cancel(t) ==
  /\ pc[t] = "cancel" /\ Goto(t, "return")
  /\ RbCancelDoc
  /\ UNCHANGED <<local, ok, flags, mutex>>

-----------------------------------------------------------------------------
(* Calls with one library call under the mutex, or without the mutex        *)

Short(t, S) == pc[t] = "enter" /\ op[t] \in S /\ UNCHANGED <<local, mutex, closeLost>>

\* openShift looks at the code alone, the others at isCommandComplete.
Shift(t) ==
  /\ Short(t, ShiftOps) /\ BriefLock /\ Goto(t, "idle")
  /\ \/ ~rbConnected /\ SetOk(t, FALSE)
     \/ rbConnected /\ \E o \in Outcomes :
          SetOk(t, Completed(o) /\ (op[t] = "openShift" => o = "ok"))
  /\ OtherCommand /\ UNCHANGED <<flags, leak>>

\* Mutant: the document state is cached, not whether there is one.
KcaFlgsGetState(t) ==
  /\ BriefLock
  /\ \E o \in Outcomes :
       isDocOpened' = (IF Completed(o) THEN doc ELSE isDocOpened) /\ SetOk(t, Completed(o))
  /\ UNCHANGED <<isConnected, rbConnected, leak, pirit>>

\* BEL::kca_flgs_get: the cached flag is renewed if the command completed, even
\* when a state the code does not know makes the call answer false.
KcaFlgsGet(t) ==
  /\ BriefLock
  /\ \E o \in Outcomes, known \in BOOLEAN :
       /\ isDocOpened' = IF Completed(o) THEN doc # NoDoc ELSE isDocOpened
       /\ SetOk(t, Completed(o) /\ known)
  /\ UNCHANGED <<isConnected, rbConnected, leak, pirit>>

KcaFlgs(t) == Short(t, {"kca_flgs_get"}) /\ KcaFlgsGet(t) /\ Goto(t, "idle")

\* BIOS::cancelDoc
CancelDoc(t) ==
  /\ Short(t, {"cancelDoc"}) /\ BriefLock /\ Goto(t, "idle")
  /\ RbCancelDoc
  /\ \E b \in BOOLEAN : (b => rbConnected /\ doc' = NoDoc) /\ SetOk(t, b)
  /\ UNCHANGED flags

\* BIOS::cancelDocBIOS: the flag is read, and the document cancelled, after
\* kca_flgs_get has given the mutex back.
CancelDocBIOS(t) == Short(t, {"cancelDocBIOS"}) /\ KcaFlgsGet(t) /\ Goto(t, "cbCheck")

CbCheck(t) ==
  /\ pc[t] = "cbCheck" /\ Goto(t, IF isDocOpened THEN "cbCancel" ELSE "idle")
  /\ UNCHANGED <<local, ok, flags, mutex, history, pirit>>

CbCancel(t) ==
  /\ pc[t] = "cbCancel" /\ Goto(t, "idle")
  /\ RbCancelDoc
  /\ UNCHANGED <<local, ok, flags, mutex>>

\* initConnection copies the flag to RB only when it sent commandStart.
InitConnection(t) ==
  /\ Short(t, {"initConnection"}) /\ BriefLock /\ Goto(t, "idle")
  /\ \/ isConnected /\ SetOk(t, TRUE) /\ UNCHANGED <<isConnected, rbConnected>>
     \/ /\ ~isConnected
        /\ \E answered \in BOOLEAN :
             isConnected' = answered /\ rbConnected' = answered /\ SetOk(t, answered)
  /\ UNCHANGED <<isDocOpened, leak, pirit>>

\* setConnected: the atomic flag, without the mutex.
SetConnected(t) ==
  /\ Short(t, {"connected", "disconnected"}) /\ Goto(t, "idle")
  /\ isConnected' = (op[t] = "connected")
  /\ UNCHANGED <<ok, rbConnected, isDocOpened, leak, pirit>>

-----------------------------------------------------------------------------
\* The application dies and starts again; the printer keeps its document.
Restart ==
  /\ mutex' = Nobody
  /\ pc' = [t \in Threads |-> "idle"]
  /\ op' = [t \in Threads |-> "none"]
  /\ rcpt' = [t \in Threads |-> NoReceipt]
  /\ ok' = [t \in Threads |-> FALSE]
  /\ idx' = [t \in Threads |-> 0]
  /\ paid' = [t \in Threads |-> {}]
  /\ isConnected' = FALSE /\ rbConnected' \in BOOLEAN /\ isDocOpened' \in BOOLEAN
  /\ closeLost' = {}
  /\ archive' = [t \in Threads |-> NoDoc]
  /\ doc' = IF doc = NoDoc THEN NoDoc ELSE [doc EXCEPT !.owner = Nobody]
  /\ leak' = IF doc = NoDoc THEN {} ELSE leak \cup {"restart"}

Fill(t) == \/ Position(t) \/ PositionsDone(t) \/ PosMargin(t)
           \/ SubTotal(t) \/ Margin(t) \/ Payment(t) \/ PaymentNotSent(t)
           \/ PaymentsDone(t) \/ CashInOut(t)

\* The steps of a thread that has the mutex.
Inside(t) == PreCancel(t) \/ Open(t) \/ Fill(t) \/ Close(t) \/ Cancel(t) \/ Return(t)

Outside(t) == \/ Enter(t) \/ Shift(t) \/ KcaFlgs(t) \/ CancelDoc(t) \/ CancelDocBIOS(t)
              \/ CbCheck(t) \/ CbCancel(t) \/ InitConnection(t) \/ SetConnected(t)

ThreadStep(t) == \/ \E o \in Ops : Call(t, o)
                 \/ InsResNull(t) \/ Inside(t) \/ Outside(t)

Next == Restart \/ \E t \in Threads : ThreadStep(t)

Spec == Init /\ [][Next]_vars

\* Every library call returns (the library has its own time-outs), so a thread
\* that has the mutex goes on.  Nothing is assumed of a thread that waits.
FairSpec == Spec /\ \A t \in Threads : WF_vars(Inside(t))

-----------------------------------------------------------------------------
(* Properties                                                               *)

\* What the caller of receipt_send_rb_bios asked for: every position and, of
\* the payments, the single one, or the listed ones with a sum and the cash.
Wanted(r) ==
  [pos  |-> r.positions,
   pays |-> IF r.single # NoType THEN {r.single}
            ELSE {p \in r.list : p \in r.zeros => p = Cash},
   cash |-> FALSE]
WantedCash == [pos |-> 0, pays |-> {}, cash |-> TRUE]
Fiscal(r) == IF r = NoReceipt THEN {WantedCash} ELSE {Wanted(r)}

Contents(d) == [pos |-> d.pos, pays |-> d.pays, cash |-> d.cash]

\* A document that a call makes fiscal holds all that this call was asked for,
\* and no more, whatever commands failed on the way, whatever document an
\* earlier call or another start left, and whatever other threads did.
ArchivedIsWhole ==
  \A t \in Threads :
    archive[t] # NoDoc => archive[t].owner = t /\ Contents(archive[t]) \in Fiscal(rcpt[t])

\* `true' means that the document is in the fiscal memory; `false' that it is
\* not, except when the answer to the closing command was the one that got lost.
VerdictMatchesArchive ==
  \A t \in Threads :
    pc[t] = "idle" /\ op[t] \in DocumentOps =>
      /\ ok[t] => archive[t] # NoDoc
      /\ ~ok[t] /\ archive[t] # NoDoc => t \in closeLost

\* Two documents never mix: the one in the printer belongs to the thread that
\* has the mutex and is filling, closing or cancelling it, or to no call at all;
\* and while a call fills a document the printer holds no other.
DocumentHasOneWriter ==
  /\ doc # NoDoc /\ doc.owner \in Threads =>
       mutex = doc.owner /\ pc[doc.owner] \in Filling \cup {"cancel", "return"}
  /\ \A t \in Threads : pc[t] \in Filling /\ doc # NoDoc => doc.owner = t

\* A document stays open between calls only if the answer to its opening was
\* lost or was a warning, if the printer refused to cancel it, or if the
\* application died: no other failure of a receipt blocks the next one.
LeakIsExplained == mutex = Nobody /\ doc # NoDoc => leak # {}

\* While a document is filled BEL::isConnected stays true, although the
\* constructor leaves it undefined and initConnection may clear it: no command,
\* and not the cancelling one either, is swallowed by its test.
CancelReachesPrinter ==
  \A t \in Threads : pc[t] \in Filling \cup {"cancel"} => rbConnected

\* Only the thread that fills a document changes or removes it, the death of
\* the application aside, and cancelDocBIOS, which cancels without the mutex.
Undisturbed ==
  [][ \A t \in Threads :
        doc # NoDoc /\ doc.owner = t /\ doc' # doc =>
          \/ <<pc[t], idx[t], paid[t]>>' # <<pc[t], idx[t], paid[t]>>
          \/ Restart
          \/ \E u \in Threads : pc[u] = "cbCancel" /\ pc'[u] = "idle" ]_vars

\* mutex_bios is always given back: no call keeps the others out for ever.
MutexReleased == \A t \in Threads : mutex = t ~> mutex # t

-----------------------------------------------------------------------------
(* The inductive invariant behind them                                      *)

\* From the opened document to the last command about it.
Live == Filling \cup {"cancel"}
\* From the call to the opened document.
Opening == {"enter", "preCancel", "open"}
InReceipt == {"position", "posMargin", "subTotal", "margin", "payment"}

MutexMatches == \A t \in Threads : pc[t] \in LockedPlaces <=> mutex = t
OwnerIsLive  == doc # NoDoc /\ doc.owner \in Threads => pc[doc.owner] \in Live \cup {"return"}
LiveIsOwner  == \A t \in Threads : pc[t] \in Live /\ doc # NoDoc => doc.owner = t
LeakIsKnown  == doc # NoDoc /\ leak = {} => doc.owner \in Threads /\ pc[doc.owner] \in Live

DocumentInv == MutexMatches /\ OwnerIsLive /\ LiveIsOwner /\ CancelReachesPrinter /\ LeakIsKnown

\* Where a call is and what it has been asked for.
OpMatches(t) ==
  /\ pc[t] \in Places \ {"idle", "enter", "cbCheck", "cbCancel"} => op[t] \in DocumentOps
  /\ pc[t] \in InReceipt => op[t] = "receipt"
  /\ pc[t] = "cashInOut" => op[t] = "insRes"
  /\ pc[t] \in {"cbCheck", "cbCancel"} => op[t] = "cancelDocBIOS"
  /\ op[t] = "insRes" => rcpt[t] = NoReceipt
  /\ op[t] = "receipt" /\ pc[t] \in Live \cup {"preCancel", "open"} => rcpt[t] # NoReceipt

\* How far it has come.
Progress(t) ==
  /\ pc[t] \in Opening \cup {"cashInOut"} => idx[t] = 0 /\ paid[t] = {}
  /\ pc[t] \in InReceipt \ {"payment"} => paid[t] = {}
  /\ pc[t] \in {"subTotal", "margin", "payment"} => idx[t] = rcpt[t].positions
  /\ pc[t] = "payment" => paid[t] \subseteq Due(rcpt[t])
  /\ pc[t] = "close" /\ op[t] = "receipt" =>
       idx[t] = rcpt[t].positions /\ paid[t] = Due(rcpt[t])
  /\ pc[t] = "close" /\ op[t] = "insRes" => idx[t] = 0 /\ paid[t] = {}

\* What the printer holds of it.
DocMatches(t) ==
  pc[t] \in Filling /\ doc # NoDoc =>
    Contents(doc) = [pos |-> idx[t], pays |-> paid[t],
                     cash |-> op[t] = "insRes" /\ pc[t] = "close"]

\* What it knows of the fiscal memory.
ArchiveMatches(t) ==
  /\ pc[t] \in Opening \cup Filling => archive[t] = NoDoc
  /\ pc[t] \in Opening \cup {"cancel"} => ~ok[t]
  /\ pc[t] \in {"idle", "cancel", "return"} /\ op[t] \in DocumentOps =>
       /\ ok[t] => archive[t] # NoDoc
       /\ ~ok[t] /\ archive[t] # NoDoc => t \in closeLost

ContentInv == /\ ArchivedIsWhole
              /\ \A t \in Threads : OpMatches(t) /\ Progress(t) /\ DocMatches(t)
                                    /\ ArchiveMatches(t)

-----------------------------------------------------------------------------
\* To its callers the class is the atomic FiscalCall, as the Russian one is.
Abstract == INSTANCE FiscalCall WITH
  Requests  <- Receipts \cup {NoReceipt},
  Content   <- [r \in Receipts \cup {NoReceipt} |-> Fiscal(r)],
  NoRequest <- NoReceipt,
  Nothing   <- NoDoc,
  pending   <- {t \in Threads : pc[t] # "idle" /\ op[t] \in DocumentOps},
  request   <- rcpt,
  fiscal    <- [t \in Threads |-> IF archive[t] = NoDoc THEN NoDoc
                                  ELSE Contents(archive[t])],
  verdict   <- [t \in Threads |-> pc[t] = "idle" /\ op[t] \in DocumentOps /\ ok[t]]

AbstractSpec == Abstract!Spec

=============================================================================
