-------------------------- MODULE BiosReceiptProofs --------------------------
(***************************************************************************)
(* What BiosReceipt guarantees for any number of threads, any receipts and *)
(* any calls: type correctness, and the invariants about the document in   *)
(* the printer, the mutex and the connection flag.                         *)
(***************************************************************************)
EXTENDS BiosReceipt, TLAPS

-----------------------------------------------------------------------------
(* Type correctness                                                         *)

LEMMA TypeInit == Init => TypeOK
<1>1. Init => DataTypeOK
  BY PiritAssumption, ReceiptAssumption
     DEF Init, DataTypeOK, PiritInit, PiritTypeOK, Places
<1>2. Init => FlagTypeOK
  BY DEF Init, FlagTypeOK
<1>3. QED
  BY <1>1, <1>2 DEF TypeOK

\* Calling, entering and returning.
LEMMA TypeCall ==
  ASSUME TypeOK, NEW t \in Threads,
         \/ \E o \in Ops : Call(t, o) \/ CallNull(t, o)
         \/ Enter(t) \/ EnterFails(t) \/ Return(t)
  PROVE  DataTypeOK'
<1> USE ReceiptAssumption, PiritAssumption
    DEF TypeOK, DataTypeOK, PiritTypeOK, Goto, SetOk, Note, Fresh, local, flags, pirit
<1>1. CASE \E o \in Ops : Call(t, o)
  <2>1. PICK o \in Ops : Call(t, o)
    BY <1>1
  <2>2. QED BY <2>1 DEF Call, Places
<1>2. CASE \E o \in Ops : CallNull(t, o)
  <2>1. PICK o \in Ops : CallNull(t, o)
    BY <1>2
  <2>2. QED BY <2>1 DEF CallNull
<1>3. CASE Enter(t)
  BY <1>3 DEF Enter, AfterPreCancel, Places
<1>4. CASE EnterFails(t)
  BY <1>4 DEF EnterFails, Places
<1>5. CASE Return(t)
  BY <1>5 DEF Return, Places, Docs
<1>6. QED
  BY <1>1, <1>2, <1>3, <1>4, <1>5

\* The printer's side of any command.
LEMMA PiritType ==
  ASSUME PiritTypeOK, NEW t \in Threads, NEW o \in Outcomes, NEW p \in PayTypes,
         \/ OpenDocument(o, t) \/ AddPosition(o) \/ AddPayment(o, p)
         \/ CashInOutDocument(o) \/ PrintText(o) \/ CloseDocument(o, t)
         \/ CancelDocument(o) \/ OtherCommand
  PROVE  PiritTypeOK'
<1> USE DEF PiritTypeOK, Docs
<1>1. CASE OpenDocument(o, t)
  BY <1>1 DEF OpenDocument, EmptyDoc
<1>2. CASE AddPosition(o)
  BY <1>2 DEF AddPosition
<1>3. CASE AddPayment(o, p)
  BY <1>3 DEF AddPayment
<1>4. CASE CashInOutDocument(o)
  BY <1>4 DEF CashInOutDocument
<1>5. CASE CloseDocument(o, t)
  BY <1>5 DEF CloseDocument
<1>6. CASE PrintText(o) \/ CancelDocument(o) \/ OtherCommand
  BY <1>6 DEF PrintText, CancelDocument, OtherCommand
<1>7. QED
  BY <1>1, <1>2, <1>3, <1>4, <1>5, <1>6

\* A command that the code does not send.
LEMMA RejectedType ==
  ASSUME DataTypeOK, NEW t \in Threads, NEW place \in Places,
         Rejected(t, place), events' \in [Threads -> SUBSET Events]
  PROVE  DataTypeOK'
BY DEF DataTypeOK, PiritTypeOK, Rejected, SetOk, Goto, Note, local, flags, pirit

\* The opening, the closing and the cancelling of a document.
LEMMA TypeInside ==
  ASSUME TypeOK, NEW t \in Threads,
         PreCancel(t) \/ Open(t) \/ Close(t) \/ Cancel(t) \/ Command(t)
  PROVE  DataTypeOK'
<1> USE ReceiptAssumption, PiritAssumption
    DEF TypeOK, DataTypeOK, Goto, SetOk, Note, local, flags, Places, Leaks, Events
<1>1. CASE PreCancel(t)
  BY <1>1, PiritType DEF PreCancel, AfterPreCancel, RfCancelDoc, pirit, PiritTypeOK
<1>2. CASE Open(t)
  <2>1. CASE ~rfConnected
    BY <1>2, <2>1, RejectedType DEF Open
  <2>2. CASE rfConnected
    <3>1. PICK o \in Outcomes :
            /\ OpenDocument(o, t) /\ SetOk(t, Completed(o)) /\ Goto(t, AfterOpen(t, o))
            /\ leak' = IF Completed(o) THEN {}
                       ELSE IF o = "lost" THEN leak \cup {"openLost"} ELSE leak
            /\ UNCHANGED <<local, flags, mutex, events>>
      BY <1>2, <2>2 DEF Open
    <3>2. PiritTypeOK'
      BY <3>1, PiritType
    <3>3. QED
      BY <3>1, <3>2 DEF AfterOpen, Completed
  <2>3. QED
    BY <2>1, <2>2
<1>3. CASE Close(t)
  <2>1. CASE ~rfConnected
    <3>1. Rejected(t, "cancel") /\ events' \in [Threads -> SUBSET Events]
      BY <1>3, <2>1 DEF Close
    <3>2. QED
      BY <3>1, RejectedType
  <2>2. CASE rfConnected
    <3>1. PICK o \in Outcomes :
            /\ CloseDocument(o, t) /\ SetOk(t, Completed(o))
            /\ Goto(t, IF Completed(o) THEN "return" ELSE "cancel")
            /\ Note(t, IF Completed(o) THEN {}
                       ELSE IF o = "lost" THEN {"failed", "closeLost"} ELSE {"failed"})
            /\ leak' = IF Executed(o) THEN {} ELSE leak
            /\ UNCHANGED <<local, flags, mutex>>
      BY <1>3, <2>2 DEF Close
    <3>2. PiritTypeOK'
      BY <3>1, PiritType
    <3>3. QED
      BY <3>1, <3>2 DEF Completed
  <2>3. QED
    BY <2>1, <2>2
<1>4. CASE Cancel(t)
  BY <1>4, PiritType DEF Cancel, RfCancelDoc, pirit, PiritTypeOK
<1>5. CASE Command(t)
  BY <1>5, PiritType DEF Command, Completed
<1>6. QED
  BY <1>1, <1>2, <1>3, <1>4, <1>5

\* A command of a receipt that was sent.
LEMMA WentType ==
  ASSUME DataTypeOK, NEW t \in Threads, NEW o \in Outcomes, NEW next \in Places,
         Went(t, o, next)
  PROVE  /\ ok' \in [Threads -> BOOLEAN]
         /\ pc' \in [Threads -> Places]
         /\ events' \in [Threads -> SUBSET Events]
BY DEF DataTypeOK, Went, SetOk, Goto, Note, AfterFailure, Completed, Places, Events

\* The filling of a document.
LEMMA TypeFill ==
  ASSUME TypeOK, NEW t \in Threads, Fill(t)
  PROVE  DataTypeOK'
<1> USE ReceiptAssumption, PiritAssumption DEF TypeOK, DataTypeOK, local, flags, Places
<1>1. CASE NotSent(t)
  BY <1>1, RejectedType DEF NotSent, AfterFailure, Events, Note
<1>2. CASE Position(t) /\ ~NotSent(t)
  <2>1. PICK o \in Outcomes :
          /\ AddPosition(o)
          /\ idx' = [idx EXCEPT ![t] = IF Completed(o) THEN @ + 1 ELSE @]
          /\ Went(t, o, IF idx[t] + 1 \in rcpt[t].discounted THEN "posDiscount"
                                                             ELSE "position")
    BY <1>2 DEF Position
  <2>2. PiritTypeOK'
    BY <2>1, PiritType
  <2>3. idx' \in [Threads -> Nat]
    BY <2>1
  <2>4. QED
    BY <1>2, <2>1, <2>2, <2>3, WentType DEF Position
<1>3. CASE PosDiscount(t) /\ ~NotSent(t)
  <2>1. PICK o \in Outcomes : PrintText(o) /\ Went(t, o, "position")
    BY <1>3 DEF PosDiscount
  <2>2. PiritTypeOK'
    BY <2>1, PiritType
  <2>3. QED
    BY <1>3, <2>1, <2>2, WentType DEF PosDiscount
<1>4. CASE Payment(t) /\ ~NotSent(t)
  <2>1. PICK p \in PayTypes, o \in Outcomes :
          /\ AddPayment(o, p)
          /\ paid' = [paid EXCEPT ![t] = IF Completed(o) THEN @ \cup {p} ELSE @]
          /\ Went(t, o, "payment")
          /\ UNCHANGED <<op, rcpt, idx, flags, mutex, leak>>
    BY <1>4 DEF Payment
  <2>2. PiritTypeOK'
    BY <2>1, PiritType
  <2>3. paid' \in [Threads -> SUBSET PayTypes]
    BY <2>1
  <2>4. QED
    BY <2>1, <2>2, <2>3, WentType
<1>5. CASE PositionsDone(t) \/ PaymentsDone(t)
  BY <1>5 DEF PositionsDone, PaymentsDone, Goto, AfterSuccess, pirit, PiritTypeOK
<1>6. CASE TotalDiscount(t)
  <2>1. PICK o \in Outcomes : PrintText(o) /\ Went(t, o, AfterSuccess(t))
    BY <1>6 DEF TotalDiscount
  <2>2. PiritTypeOK'
    BY <2>1, PiritType
  <2>3. QED
    BY <1>6, <2>1, <2>2, WentType DEF TotalDiscount, AfterSuccess
<1>7. CASE Requisite(t) \/ CashInOut(t)
  <2>1. PICK o \in Outcomes :
          /\ PrintText(o) \/ CashInOutDocument(o)
          /\ SetOk(t, o = "ok")
          /\ Goto(t, IF o = "ok" THEN "close" ELSE "cancel")
          /\ Note(t, IF o = "ok" THEN {} ELSE {"failed"})
    BY <1>7 DEF Requisite, CashInOut
  <2>2. PiritTypeOK'
    BY <2>1, PiritType
  <2>3. QED
    BY <1>7, <2>1, <2>2 DEF Requisite, CashInOut, Goto, SetOk, Note, Events
<1>8. QED
  BY <1>1, <1>2, <1>3, <1>4, <1>5, <1>6, <1>7 DEF Fill, NoPayment

\* The calls that do not hold the mutex between two steps.
LEMMA TypeShort ==
  ASSUME TypeOK, NEW t \in Threads,
         \/ FsStatus(t) \/ GetStatusBIOS(t) \/ CancelDoc(t) \/ CancelDocBIOS(t)
         \/ CbCheck(t) \/ CbCancel(t) \/ InitConnection(t) \/ SetConnected(t)
  PROVE  DataTypeOK'
<1> USE DEF TypeOK, DataTypeOK, PiritTypeOK, Goto, SetOk, local, flags, pirit, Places, Short,
        FsStatusGet, RfCancelDoc, CancelDocument, Leaks, Completed
<1>1. CASE FsStatus(t)
  BY <1>1 DEF FsStatus
<1>2. CASE GetStatusBIOS(t)
  BY <1>2 DEF GetStatusBIOS
<1>3. CASE CancelDoc(t)
  BY <1>3 DEF CancelDoc
<1>4. CASE CancelDocBIOS(t)
  BY <1>4 DEF CancelDocBIOS
<1>5. CASE CbCheck(t)
  BY <1>5 DEF CbCheck
<1>6. CASE CbCancel(t)
  BY <1>6 DEF CbCancel
<1>7. CASE InitConnection(t)
  <2>1. /\ UNCHANGED <<local, events, mutex, leak, pirit>>
        /\ pc' = [pc EXCEPT ![t] = "idle"]
    BY <1>7 DEF InitConnection
  <2>2. PICK b \in BOOLEAN : ok' = [ok EXCEPT ![t] = b]
    BY <1>7 DEF InitConnection
  <2>3. QED
    BY <2>1, <2>2
<1>8. CASE SetConnected(t)
  BY <1>8 DEF SetConnected
<1>9. QED
  BY <1>1, <1>2, <1>3, <1>4, <1>5, <1>6, <1>7, <1>8

LEMMA TypeRestart == DataTypeOK /\ Restart => DataTypeOK'
BY PiritAssumption, ReceiptAssumption
   DEF DataTypeOK, PiritTypeOK, Restart, Places, Leaks, Docs

\* Only five actions change a flag.
LEMMA TypeFlags ==
  ASSUME FlagTypeOK, NEW t \in Threads, ThreadStep(t)
  PROVE  FlagTypeOK'
<1> USE DEF FlagTypeOK, Short, FsStatusGet
<1>1. CASE FsStatus(t) \/ CancelDocBIOS(t)
  BY <1>1 DEF FsStatus, CancelDocBIOS
<1>2. CASE GetStatusBIOS(t)
  BY <1>2 DEF GetStatusBIOS
<1>3. CASE InitConnection(t)
  BY <1>3 DEF InitConnection
<1>4. CASE SetConnected(t)
  BY <1>4 DEF SetConnected
<1>5. CASE UNCHANGED flags
  BY <1>5 DEF flags
<1>6. CASE \E o \in Ops : Call(t, o) \/ CallNull(t, o)
  BY <1>6, <1>5 DEF Call, CallNull, Fresh
<1>7. CASE Inside(t)
  BY <1>7, <1>5
     DEF Inside, Fill, PreCancel, Open, Position, PositionsDone, PosDiscount, Payment,
         NoPayment, PaymentsDone, TotalDiscount, Requisite, CashInOut, Close, Cancel,
         Command, Return, Rejected, NotSent
<1>8. CASE Enter(t) \/ EnterFails(t) \/ CancelDoc(t) \/ CbCheck(t) \/ CbCancel(t)
  BY <1>8, <1>5 DEF Enter, EnterFails, CancelDoc, CbCheck, CbCancel
<1>9. QED
  BY <1>1, <1>2, <1>3, <1>4, <1>6, <1>7, <1>8 DEF ThreadStep, Outside

LEMMA TypeStep == TypeOK /\ [Next]_vars => TypeOK'
<1> SUFFICES ASSUME TypeOK, [Next]_vars
             PROVE  TypeOK'
  OBVIOUS
<1>1. CASE Restart
  <2>1. DataTypeOK'
    BY <1>1, TypeRestart DEF TypeOK
  <2>2. FlagTypeOK'
    BY <1>1 DEF Restart, FlagTypeOK
  <2>3. QED
    BY <2>1, <2>2 DEF TypeOK
<1>2. ASSUME NEW t \in Threads, ThreadStep(t)
      PROVE  TypeOK'
  <2>1. DataTypeOK'
    BY <1>2, TypeCall, TypeInside, TypeFill, TypeShort
       DEF ThreadStep, Inside, Outside
  <2>2. FlagTypeOK'
    BY <1>2, TypeFlags DEF TypeOK
  <2>3. QED
    BY <2>1, <2>2 DEF TypeOK
<1>3. CASE UNCHANGED vars
  BY <1>3 DEF vars, TypeOK, DataTypeOK, FlagTypeOK, PiritTypeOK
<1>4. QED
  BY <1>1, <1>2, <1>3 DEF Next

\* Every variable of class BIOS and of the printer keeps its type, for any set
\* of threads, receipts and calls.
THEOREM TypeCorrect == Spec => []TypeOK
<1>1. TypeOK /\ [Next]_vars => TypeOK'
  BY TypeStep
<1>2. QED
  BY TypeInit, <1>1, PTL DEF Spec

-----------------------------------------------------------------------------
(* The document in the printer, the mutex and the connection flag           *)

LEMMA DocumentInit == Init => DocumentInv
BY PiritAssumption
   DEF Init, PiritInit, DocumentInv, MutexMatches, OwnerIsLive, LiveIsOwner,
       CancelReachesPrinter, LeakIsKnown, LockedPlaces, Filling, Live

\* From taking the mutex to giving it back, the filling aside.
LEMMA DocumentBounds ==
  ASSUME TypeOK, DocumentInv, NEW t \in Threads,
         \/ Enter(t) \/ EnterFails(t) \/ Return(t) \/ PreCancel(t)
         \/ Open(t) \/ Close(t) \/ Cancel(t) \/ Command(t)
  PROVE  DocumentInv'
<1> USE ReceiptAssumption, PiritAssumption
    DEF Goto, SetOk, Note, local, flags, pirit, Places, LockedPlaces, Filling,
        Live, TypeOK, DataTypeOK, PiritTypeOK, Docs, DocumentInv, MutexMatches, OwnerIsLive,
        LiveIsOwner, CancelReachesPrinter, LeakIsKnown
<1>1. CASE Enter(t)
  BY <1>1 DEF Enter, AfterPreCancel
<1>2. CASE EnterFails(t)
  BY <1>2 DEF EnterFails
<1>3. CASE Return(t)
  BY <1>3 DEF Return
<1>4. CASE PreCancel(t)
  BY <1>4 DEF PreCancel, AfterPreCancel, RfCancelDoc, CancelDocument
<1>5. CASE Open(t)
  <2>1. CASE ~rfConnected
    BY <1>5, <2>1 DEF Open, Rejected
  <2>2. CASE rfConnected
    <3>1. PICK o \in Outcomes :
            /\ OpenDocument(o, t) /\ Goto(t, AfterOpen(t, o))
            /\ leak' = IF Completed(o) THEN {}
                       ELSE IF o = "lost" THEN leak \cup {"openLost"} ELSE leak
            /\ UNCHANGED <<local, flags, mutex, events>>
      BY <1>5, <2>2 DEF Open
    <3>2. /\ \A s \in Threads : s # t => pc[s] \notin LockedPlaces
          /\ mutex = t
      BY <1>5 DEF Open
    <3>3. CASE Completed(o)
      BY <1>5, <2>2, <3>1, <3>2, <3>3
         DEF OpenDocument, EmptyDoc, AfterOpen, Executed, Completed
    <3>4. CASE o = "lost"
      BY <1>5, <2>2, <3>1, <3>2, <3>4
         DEF OpenDocument, EmptyDoc, AfterOpen, Executed, Completed
    <3>5. CASE o = "refused"
      BY <1>5, <2>2, <3>1, <3>2, <3>5 DEF Open, OpenDocument, AfterOpen, Executed, Completed
    <3>6. QED
      BY <3>3, <3>4, <3>5 DEF Outcomes, Completed
  <2>3. QED
    BY <2>1, <2>2
<1>6. CASE Close(t)
  BY <1>6 DEF Close, CloseDocument, Executed, Completed, Outcomes
<1>7. CASE Cancel(t)
  BY <1>7 DEF Cancel, RfCancelDoc, CancelDocument
<1>8. CASE Command(t)
  BY <1>8 DEF Command, OtherCommand
<1>9. QED
  BY <1>1, <1>2, <1>3, <1>4, <1>5, <1>6, <1>7, <1>8

\* The filling moves on in the document, or to its cancelling.
LEMMA DocumentFill ==
  ASSUME TypeOK, DocumentInv, NEW t \in Threads,
         Fill(t)
  PROVE  DocumentInv'
<1> USE ReceiptAssumption, PiritAssumption
    DEF Goto, SetOk, Note, local, flags, pirit, Places, LockedPlaces, Filling,
        Live, TypeOK, DataTypeOK, PiritTypeOK, Docs, DocumentInv, MutexMatches, OwnerIsLive,
        LiveIsOwner, CancelReachesPrinter, LeakIsKnown,
        Rejected, NotSent, Went, AfterFailure, AfterSuccess
<1>1. CASE Position(t)
  BY <1>1 DEF Position, AddPosition
<1>2. CASE PositionsDone(t)
  BY <1>2 DEF PositionsDone
<1>3. CASE PosDiscount(t)
  BY <1>3 DEF PosDiscount, PrintText
<1>4. CASE Payment(t)
  BY <1>4 DEF Payment, AddPayment
<1>5. CASE NoPayment(t)
  BY <1>5 DEF NoPayment
<1>6. CASE PaymentsDone(t)
  BY <1>6 DEF PaymentsDone
<1>7. CASE TotalDiscount(t)
  BY <1>7 DEF TotalDiscount, PrintText
<1>8. CASE Requisite(t)
  BY <1>8 DEF Requisite, PrintText
<1>9. CASE CashInOut(t)
  BY <1>9 DEF CashInOut, CashInOutDocument
<1>10. QED
  BY <1>1, <1>2, <1>3, <1>4, <1>5, <1>6, <1>7, <1>8, <1>9 DEF Fill

\* A short call finds no document being filled, or cancels it.
LEMMA DocumentShort ==
  ASSUME TypeOK, DocumentInv, NEW t \in Threads,
         \/ FsStatus(t) \/ GetStatusBIOS(t) \/ CancelDoc(t) \/ CancelDocBIOS(t)
         \/ CbCheck(t) \/ CbCancel(t) \/ InitConnection(t) \/ SetConnected(t)
  PROVE  DocumentInv'
<1> USE ReceiptAssumption, PiritAssumption
    DEF Goto, SetOk, Note, local, flags, pirit, Places, LockedPlaces, Filling,
        Live, TypeOK, DataTypeOK, PiritTypeOK, Docs, DocumentInv, MutexMatches, OwnerIsLive,
        LiveIsOwner, CancelReachesPrinter, LeakIsKnown,
        Short, BriefLock
<1>1. CASE FsStatus(t)
  BY <1>1 DEF FsStatus, FsStatusGet
<1>2. CASE GetStatusBIOS(t)
  BY <1>2 DEF GetStatusBIOS
<1>3. CASE CancelDoc(t)
  BY <1>3 DEF CancelDoc, RfCancelDoc, CancelDocument
<1>4. CASE CancelDocBIOS(t)
  BY <1>4 DEF CancelDocBIOS, FsStatusGet
<1>5. CASE CbCheck(t)
  BY <1>5 DEF CbCheck
<1>6. CASE CbCancel(t)
  BY <1>6 DEF CbCancel, RfCancelDoc, CancelDocument
<1>7. CASE InitConnection(t)
  BY <1>7 DEF InitConnection
<1>8. CASE SetConnected(t)
  BY <1>8 DEF SetConnected
<1>9. QED
  BY <1>1, <1>2, <1>3, <1>4, <1>5, <1>6, <1>7, <1>8

LEMMA DocumentCall ==
  ASSUME TypeOK, DocumentInv, NEW t \in Threads, NEW o \in Ops,
         Call(t, o) \/ CallNull(t, o)
  PROVE  DocumentInv'
BY DEF Call, CallNull, Fresh, Goto, SetOk, flags, Places, LockedPlaces, Filling, Live,
       TypeOK, DataTypeOK, DocumentInv, MutexMatches, OwnerIsLive, LiveIsOwner,
       CancelReachesPrinter, LeakIsKnown

LEMMA DocumentRestart == TypeOK /\ DocumentInv /\ Restart => DocumentInv'
BY PiritAssumption
   DEF TypeOK, DataTypeOK, PiritTypeOK, Docs, Restart, DocumentInv, MutexMatches, OwnerIsLive,
       LiveIsOwner, CancelReachesPrinter, LeakIsKnown, LockedPlaces, Filling, Live

LEMMA DocumentStep == TypeOK /\ DocumentInv /\ [Next]_vars => DocumentInv'
<1> SUFFICES ASSUME TypeOK, DocumentInv, [Next]_vars
             PROVE  DocumentInv'
  OBVIOUS
<1>1. CASE Restart
  BY <1>1, DocumentRestart
<1>2. ASSUME NEW t \in Threads, ThreadStep(t)
      PROVE  DocumentInv'
  <2>1. CASE \E o \in Ops : Call(t, o) \/ CallNull(t, o)
    BY <2>1, DocumentCall
  <2>2. CASE Inside(t)
    BY <2>2, DocumentBounds, DocumentFill DEF Inside
  <2>3. CASE Outside(t)
    BY <2>3, DocumentBounds, DocumentShort DEF Outside
  <2>4. QED
    BY <1>2, <2>1, <2>2, <2>3 DEF ThreadStep
<1>3. CASE UNCHANGED vars
  BY <1>3
     DEF vars, DocumentInv, MutexMatches, OwnerIsLive, LiveIsOwner, CancelReachesPrinter,
         LeakIsKnown
<1>4. QED
  BY <1>1, <1>2, <1>3 DEF Next

LEMMA DocumentInvariant == Spec => []DocumentInv
<1>1. TypeOK /\ DocumentInv /\ [Next]_vars => DocumentInv'
  BY DocumentStep
<1>2. QED
  BY DocumentInit, <1>1, TypeCorrect, PTL DEF Spec

\* Two documents never mix: the one in the printer belongs to the thread that has
\* mutex_bios and is filling, closing or cancelling it, or to no call; and
\* receipt_send_rf_bios and insRes never fill one that an earlier call has left.
THEOREM OneWriter == Spec => []DocumentHasOneWriter
<1>1. TypeOK /\ DocumentInv => DocumentHasOneWriter
  BY DEF DocumentInv, OwnerIsLive, LiveIsOwner, MutexMatches, DocumentHasOneWriter, Live,
         LockedPlaces, Filling, Places
<1>2. QED
  BY <1>1, DocumentInvariant, TypeCorrect, PTL

\* No document is left in the printer between calls unless the answer to its
\* opening was lost, it could not be cancelled, or the application died.
THEOREM LeaksExplained == Spec => []LeakIsExplained
<1>1. TypeOK /\ DocumentInv => LeakIsExplained
  BY PiritAssumption
     DEF TypeOK, DataTypeOK, DocumentInv, LeakIsKnown, LeakIsExplained, MutexMatches, Live,
         LockedPlaces, Filling, Places
<1>2. QED
  BY <1>1, DocumentInvariant, TypeCorrect, PTL

\* RUS::isConnected holds as long as a document is being filled, so that
\* closeDoc and cancelDoc do send their command.
THEOREM CancelSent == Spec => []CancelReachesPrinter
<1>1. DocumentInv => CancelReachesPrinter
  BY DEF DocumentInv
<1>2. QED
  BY <1>1, DocumentInvariant, PTL

=============================================================================
