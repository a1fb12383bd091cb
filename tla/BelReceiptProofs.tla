-------------------------- MODULE BelReceiptProofs --------------------------
(***************************************************************************)
(* What BelReceipt guarantees for any number of threads, any receipts and  *)
(* any calls: type correctness, the invariants about the document in the   *)
(* printer, and that a document made fiscal is what the call was asked for *)
(* and answers for, up to the refinement of FiscalCall.                    *)
(***************************************************************************)
EXTENDS BelReceipt, TLAPS

-----------------------------------------------------------------------------
(* Type correctness                                                         *)

LEMMA TypeInit == Init => TypeOK
<1>1. Init => FlagTypeOK
  BY DEF Init, FlagTypeOK
<1>2. QED
  BY <1>1, PiritAssumption, BelAssumption
     DEF Init, TypeOK, PiritInit, PiritTypeOK, Places, LockedPlaces, Filling, Leaks

\* Calling, entering and returning.
LEMMA TypeCall ==
  ASSUME TypeOK, NEW t \in Threads,
         \/ \E o \in Ops : Call(t, o)
         \/ InsResNull(t) \/ Enter(t) \/ Return(t)
  PROVE  TypeOK'
<1> USE BelAssumption, PiritAssumption
    DEF TypeOK, FlagTypeOK, PiritTypeOK, Goto, SetOk, Fresh, local, flags, pirit, history
<1>1. CASE \E o \in Ops : Call(t, o)
  <2>1. PICK o \in Ops : Call(t, o)
    BY <1>1
  <2>2. QED
    BY <2>1 DEF Call, Places
<1>2. CASE InsResNull(t)
  BY <1>2 DEF InsResNull, Ops, DocumentOps
<1>3. CASE Enter(t)
  BY <1>3 DEF Enter, FirstPlace, Places, LockedPlaces
<1>4. CASE Return(t)
  BY <1>4 DEF Return, Places, Docs
<1>5. QED
  BY <1>1, <1>2, <1>3, <1>4

\* The printer's side of any command.
LEMMA PiritType ==
  ASSUME PiritTypeOK, NEW t \in Threads, NEW o \in Outcomes, NEW p \in PayTypes,
         \/ OpenDocument(o, t) \/ AddPosition(o) \/ AddPayment(o, p)
         \/ CashInOutDocument(o) \/ PrintText(o) \/ CloseDocument(o, t)
         \/ CancelDocument(o)
  PROVE  PiritTypeOK'
<1> USE DEF PiritTypeOK, Docs
<1>1. CASE OpenDocument(o, t)
  BY <1>1 DEF OpenDocument, EmptyDoc
<1>2. CASE AddPosition(o)
  BY <1>2 DEF AddPosition
<1>3. CASE AddPayment(o, p)
  BY <1>3 DEF AddPayment
<1>4. CASE CashInOutDocument(o)
  BY <1>4 DEF CashInOutDocument
<1>5. CASE CloseDocument(o, t)
  BY <1>5 DEF CloseDocument
<1>6. CASE PrintText(o) \/ CancelDocument(o)
  BY <1>6 DEF PrintText, CancelDocument
<1>7. QED
  BY <1>1, <1>2, <1>3, <1>4, <1>5, <1>6

\* Where a command that was sent leads.
LEMMA TypeWent ==
  ASSUME TypeOK, NEW t \in Threads, NEW o \in Outcomes, NEW next \in Places,
         Went(t, o, next)
  PROVE  /\ ok' \in [Threads -> BOOLEAN]
         /\ pc' \in [Threads -> Places]
<1>1. Completed(o) \in BOOLEAN
  BY DEF Completed
<1>2. (IF Completed(o) THEN next ELSE AfterFailure(t)) \in Places
  BY DEF AfterFailure, Places, LockedPlaces
<1>3. QED
  BY <1>1, <1>2 DEF TypeOK, Went, SetOk, Goto

LEMMA TypeNotSent ==
  ASSUME TypeOK, NEW t \in Threads, NotSent(t)
  PROVE  TypeOK'
BY DEF TypeOK, FlagTypeOK, PiritTypeOK, NotSent, SetOk, Goto, AfterFailure, Places, LockedPlaces,
       local, flags, history, pirit

\* The filling of a document.
LEMMA TypeFill ==
  ASSUME TypeOK, NEW t \in Threads, Fill(t)
  PROVE  TypeOK'
<1> USE BelAssumption, PiritAssumption
    DEF TypeOK, FlagTypeOK, local, flags, history, Places, LockedPlaces, Filling
<1>1. CASE NotSent(t)
  BY <1>1, TypeNotSent
<1>2. CASE Position(t) /\ ~NotSent(t)
  <2>1. PICK o \in Outcomes :
          /\ AddPosition(o)
          /\ idx' = [idx EXCEPT ![t] = IF Completed(o) THEN @ + 1 ELSE @]
          /\ Went(t, o, IF idx[t] + 1 \in rcpt[t].marked THEN "posMargin" ELSE "position")
    BY <1>2 DEF Position
  <2>2. PiritTypeOK'
    BY <2>1, PiritType
  <2>3. idx' \in [Threads -> Nat]
    BY <2>1
  <2>4. QED
    BY <1>2, <2>1, <2>2, <2>3, TypeWent DEF Position, Went
<1>3. CASE (PosMargin(t) \/ SubTotal(t) \/ Margin(t)) /\ ~NotSent(t)
  <2>1. PICK o \in Outcomes, next \in Places :
          PrintText(o) /\ Went(t, o, next) /\ UNCHANGED local
    BY <1>3 DEF PosMargin, SubTotal, Margin, Line
  <2>2. PiritTypeOK'
    BY <2>1, PiritType
  <2>3. QED
    BY <2>1, <2>2, TypeWent DEF Went
<1>4. CASE Payment(t)
  <2>1. PICK p \in PayTypes, o \in Outcomes :
          /\ AddPayment(o, p)
          /\ paid' = [paid EXCEPT ![t] = IF Completed(o) THEN @ \cup {p} ELSE @]
          /\ Went(t, o, "payment")
    BY <1>4 DEF Payment
  <2>2. PiritTypeOK'
    BY <2>1, PiritType
  <2>3. paid' \in [Threads -> SUBSET PayTypes]
    BY <2>1
  <2>4. QED
    BY <1>4, <2>1, <2>2, <2>3, TypeWent DEF Payment, Went
<1>5. CASE PositionsDone(t) \/ PaymentsDone(t)
  BY <1>5 DEF PositionsDone, PaymentsDone, Goto, pirit, PiritTypeOK
<1>6. CASE CashInOut(t)
  <2>1. PICK o \in Outcomes :
          /\ CashInOutDocument(o)
          /\ SetOk(t, o = "ok")
          /\ Goto(t, IF o = "ok" THEN "close" ELSE "cancel")
    BY <1>6 DEF CashInOut
  <2>2. PiritTypeOK'
    BY <2>1, PiritType
  <2>3. QED
    BY <1>6, <2>1, <2>2 DEF CashInOut, Goto, SetOk
<1>7. QED
  BY <1>1, <1>2, <1>3, <1>4, <1>5, <1>6 DEF Fill, PaymentNotSent

\* The opening, the closing and the cancelling of a document.
LEMMA TypeBounds ==
  ASSUME TypeOK, NEW t \in Threads,
         PreCancel(t) \/ Open(t) \/ Close(t) \/ Cancel(t)
  PROVE  TypeOK'
<1> USE BelAssumption, PiritAssumption
    DEF TypeOK, FlagTypeOK, Goto, SetOk, local, flags, history, Places, LockedPlaces, Leaks
<1>1. CASE PreCancel(t)
  BY <1>1, PiritType DEF PreCancel, RbCancelDoc, pirit, PiritTypeOK
<1>2. CASE Open(t)
  <2>1. CASE ~rbConnected
    BY <1>2, <2>1 DEF Open, pirit, PiritTypeOK
  <2>2. CASE rbConnected
    <3>1. PICK o \in Outcomes :
            /\ OpenDocument(o, t) /\ SetOk(t, o = "ok") /\ Goto(t, AfterOpen(t, o))
            /\ leak' = IF o = "ok" THEN {} ELSE leak \cup OpenLeaves(o)
      BY <1>2, <2>2 DEF Open
    <3>2. PiritTypeOK'
      BY <3>1, PiritType
    <3>3. leak' \in SUBSET Leaks
      BY <3>1 DEF OpenLeaves
    <3>4. QED
      BY <1>2, <3>1, <3>2, <3>3 DEF Open, AfterOpen, Filling
  <2>3. QED
    BY <2>1, <2>2
<1>3. CASE Close(t)
  <2>1. CASE ~rbConnected
    BY <1>3, <2>1, TypeNotSent DEF Close
  <2>2. CASE rbConnected
    <3>1. PICK o \in Outcomes :
            /\ CloseDocument(o, t) /\ SetOk(t, Completed(o))
            /\ Goto(t, IF Completed(o) THEN "return" ELSE "cancel")
            /\ closeLost' = IF o = "lost" THEN closeLost \cup {t} ELSE closeLost
            /\ leak' = IF Executed(o) THEN {} ELSE leak
            /\ UNCHANGED <<local, flags, mutex>>
      BY <1>3, <2>2 DEF Close
    <3>2. PiritTypeOK'
      BY <3>1, PiritType
    <3>3. closeLost' \subseteq Threads /\ leak' \in SUBSET Leaks
      BY <3>1
    <3>4. Completed(o) \in BOOLEAN
      BY DEF Completed
    <3>5. QED
      BY <3>1, <3>2, <3>3, <3>4
  <2>3. QED
    BY <2>1, <2>2
<1>4. CASE Cancel(t)
  BY <1>4, PiritType DEF Cancel, RbCancelDoc, pirit, PiritTypeOK
<1>5. QED
  BY <1>1, <1>2, <1>3, <1>4

\* The calls that do not hold the mutex between two steps.
LEMMA FlagsShort ==
  ASSUME FlagTypeOK, NEW t \in Threads,
         \/ Shift(t) \/ KcaFlgs(t) \/ CancelDoc(t) \/ CancelDocBIOS(t)
         \/ CbCheck(t) \/ CbCancel(t) \/ InitConnection(t) \/ SetConnected(t)
  PROVE  FlagTypeOK'
<1> USE DEF FlagTypeOK, flags
<1>1. CASE Shift(t) \/ CancelDoc(t) \/ CbCheck(t) \/ CbCancel(t)
  BY <1>1 DEF Shift, CancelDoc, CbCheck, CbCancel
<1>2. CASE KcaFlgs(t) \/ CancelDocBIOS(t)
  BY <1>2 DEF KcaFlgs, CancelDocBIOS, KcaFlgsGet
<1>3. CASE InitConnection(t)
  BY <1>3 DEF InitConnection
<1>4. CASE SetConnected(t)
  BY <1>4 DEF SetConnected
<1>5. QED
  BY <1>1, <1>2, <1>3, <1>4

LEMMA OkShort ==
  ASSUME TypeOK, NEW t \in Threads,
         \/ Shift(t) \/ KcaFlgs(t) \/ CancelDoc(t) \/ CancelDocBIOS(t)
         \/ CbCheck(t) \/ CbCancel(t) \/ InitConnection(t) \/ SetConnected(t)
  PROVE  ok' \in [Threads -> BOOLEAN]
<1>1. ASSUME NEW b \in BOOLEAN, SetOk(t, b)
      PROVE  ok' \in [Threads -> BOOLEAN]
  BY <1>1 DEF TypeOK, SetOk
<1>2. CASE Shift(t)
  <2>1. CASE SetOk(t, FALSE)
    BY <1>1, <2>1
  <2>2. ASSUME NEW o \in Outcomes,
               SetOk(t, Completed(o) /\ (op[t] = "openShift" => o = "ok"))
        PROVE  ok' \in [Threads -> BOOLEAN]
    <3>1. (Completed(o) /\ (op[t] = "openShift" => o = "ok")) \in BOOLEAN
      BY DEF Completed
    <3>2. QED
      BY <1>1, <2>2, <3>1
  <2>3. QED
    BY <1>2, <2>1, <2>2 DEF Shift
<1>3. CASE KcaFlgs(t) \/ CancelDocBIOS(t)
  BY <1>1, <1>3 DEF KcaFlgs, CancelDocBIOS, KcaFlgsGet, Completed
<1>4. CASE CancelDoc(t)
  BY <1>1, <1>4 DEF CancelDoc
<1>5. CASE InitConnection(t)
  BY <1>1, <1>5 DEF InitConnection
<1>6. CASE CbCheck(t) \/ CbCancel(t) \/ SetConnected(t)
  BY <1>6 DEF CbCheck, CbCancel, SetConnected, TypeOK
<1>7. QED
  BY <1>2, <1>3, <1>4, <1>5, <1>6

LEMMA TypeShort ==
  ASSUME TypeOK, NEW t \in Threads,
         \/ Shift(t) \/ KcaFlgs(t) \/ CancelDoc(t) \/ CancelDocBIOS(t)
         \/ CbCheck(t) \/ CbCancel(t) \/ InitConnection(t) \/ SetConnected(t)
  PROVE  TypeOK'
<1>0. FlagTypeOK' /\ ok' \in [Threads -> BOOLEAN]
  BY FlagsShort, OkShort DEF TypeOK
<1> USE <1>0, BelAssumption, PiritAssumption
    DEF TypeOK, PiritTypeOK, Goto, local, pirit, history, Places, Short,
        RbCancelDoc, CancelDocument, Leaks
<1>1. CASE Shift(t)
  BY <1>1 DEF Shift, OtherCommand
<1>2. CASE KcaFlgs(t)
  BY <1>2 DEF KcaFlgs, KcaFlgsGet
<1>3. CASE CancelDoc(t)
  BY <1>3 DEF CancelDoc
<1>4. CASE CancelDocBIOS(t)
  BY <1>4 DEF CancelDocBIOS, KcaFlgsGet
<1>5. CASE CbCheck(t)
  BY <1>5 DEF CbCheck
<1>6. CASE CbCancel(t)
  BY <1>6 DEF CbCancel
<1>7. CASE InitConnection(t)
  BY <1>7 DEF InitConnection
<1>8. CASE SetConnected(t)
  BY <1>8 DEF SetConnected
<1>9. QED
  BY <1>1, <1>2, <1>3, <1>4, <1>5, <1>6, <1>7, <1>8

LEMMA TypeRestart == TypeOK /\ Restart => TypeOK'
<1>1. Restart => FlagTypeOK'
  BY DEF Restart, FlagTypeOK
<1>2. QED
  BY <1>1, PiritAssumption, BelAssumption
     DEF TypeOK, PiritTypeOK, Restart, Places, LockedPlaces, Filling, Leaks, Docs

LEMMA TypeStep == TypeOK /\ [Next]_vars => TypeOK'
<1> SUFFICES ASSUME TypeOK, [Next]_vars
             PROVE  TypeOK'
  OBVIOUS
<1>1. CASE Restart
  BY <1>1, TypeRestart
<1>2. ASSUME NEW t \in Threads, ThreadStep(t)
      PROVE  TypeOK'
  BY <1>2, TypeCall, TypeBounds, TypeFill, TypeShort DEF ThreadStep, Inside, Outside
<1>3. CASE UNCHANGED vars
  BY <1>3 DEF vars, TypeOK, FlagTypeOK, PiritTypeOK, local, flags, history, pirit
<1>4. QED
  BY <1>1, <1>2, <1>3 DEF Next

\* Every variable of class BIOS in the Belarusian build and of the printer
\* keeps its type, for any set of threads, receipts and calls.
THEOREM TypeCorrect == Spec => []TypeOK
<1>1. TypeOK /\ [Next]_vars => TypeOK'
  BY TypeStep
<1>2. QED
  BY TypeInit, <1>1, PTL DEF Spec

-----------------------------------------------------------------------------
(* The document in the printer, the mutex and the connection flag           *)

LEMMA DocumentInit == Init => DocumentInv
BY PiritAssumption
   DEF Init, PiritInit, DocumentInv, MutexMatches, OwnerIsLive, LiveIsOwner,
       CancelReachesPrinter, LeakIsKnown, LockedPlaces, Filling, Live

\* From the call to the opened document, and its end.
LEMMA DocumentBounds ==
  ASSUME TypeOK, DocumentInv, NEW t \in Threads,
         \/ Enter(t) \/ Return(t) \/ PreCancel(t) \/ Open(t) \/ Close(t) \/ Cancel(t)
  PROVE  DocumentInv'
<1> USE BelAssumption, PiritAssumption
    DEF Goto, SetOk, local, flags, history, pirit, Places, LockedPlaces, Filling,
        Live, TypeOK, PiritTypeOK, Docs, DocumentInv, MutexMatches, OwnerIsLive,
        LiveIsOwner, CancelReachesPrinter, LeakIsKnown
<1>1. CASE Enter(t)
  BY <1>1 DEF Enter, FirstPlace
<1>2. CASE Return(t)
  BY <1>2 DEF Return
<1>3. CASE PreCancel(t)
  BY <1>3 DEF PreCancel, RbCancelDoc, CancelDocument
<1>4. CASE Open(t)
  <2>1. CASE ~rbConnected
    BY <1>4, <2>1 DEF Open
  <2>2. CASE rbConnected
    <3>1. PICK o \in Outcomes :
            /\ OpenDocument(o, t) /\ Goto(t, AfterOpen(t, o))
            /\ leak' = IF o = "ok" THEN {} ELSE leak \cup OpenLeaves(o)
            /\ UNCHANGED <<local, flags, mutex, closeLost>>
      BY <1>4, <2>2 DEF Open
    <3>2. /\ \A s \in Threads : s # t => pc[s] \notin LockedPlaces
          /\ mutex = t
      BY <1>4 DEF Open
    <3>3. CASE o = "ok"
      BY <1>4, <2>2, <3>1, <3>2, <3>3 DEF OpenDocument, EmptyDoc, AfterOpen, Executed
    <3>4. CASE o \in {"lost", "warn"}
      BY <1>4, <2>2, <3>1, <3>2, <3>4
         DEF OpenDocument, EmptyDoc, AfterOpen, Executed, OpenLeaves
    <3>5. CASE o = "refused"
      BY <1>4, <2>2, <3>1, <3>2, <3>5
         DEF Open, OpenDocument, AfterOpen, Executed, OpenLeaves
    <3>6. QED
      BY <3>3, <3>4, <3>5 DEF Outcomes
  <2>3. QED
    BY <2>1, <2>2
<1>5. CASE Close(t)
  BY <1>5 DEF Close, NotSent, AfterFailure, CloseDocument, Executed, Completed, Outcomes
<1>6. CASE Cancel(t)
  BY <1>6 DEF Cancel, RbCancelDoc, CancelDocument
<1>7. QED
  BY <1>1, <1>2, <1>3, <1>4, <1>5, <1>6

\* The filling moves on in the document, or to its cancelling.
LEMMA DocumentFill ==
  ASSUME TypeOK, DocumentInv, NEW t \in Threads, Fill(t)
  PROVE  DocumentInv'
<1> USE BelAssumption, PiritAssumption
    DEF Goto, SetOk, local, flags, history, pirit, Places, LockedPlaces, Filling,
        Live, TypeOK, PiritTypeOK, Docs, DocumentInv, MutexMatches, OwnerIsLive,
        LiveIsOwner, CancelReachesPrinter, LeakIsKnown, NotSent, Went, AfterFailure,
        Completed
<1>1. CASE Position(t)
  BY <1>1 DEF Position, AddPosition
<1>2. CASE PositionsDone(t) \/ PaymentsDone(t)
  BY <1>2 DEF PositionsDone, PaymentsDone
<1>3. CASE PosMargin(t)
  BY <1>3 DEF PosMargin, Line, PrintText
<1>4. CASE SubTotal(t)
  BY <1>4 DEF SubTotal, Line, PrintText
<1>5. CASE Margin(t)
  BY <1>5 DEF Margin, Line, PrintText
<1>6. CASE Payment(t)
  BY <1>6 DEF Payment, AddPayment
<1>7. CASE PaymentNotSent(t)
  BY <1>7 DEF PaymentNotSent
<1>8. CASE CashInOut(t)
  BY <1>8 DEF CashInOut, CashInOutDocument
<1>9. QED
  BY <1>1, <1>2, <1>3, <1>4, <1>5, <1>6, <1>7, <1>8 DEF Fill

\* A short call finds no document being filled, or cancels it.
LEMMA DocumentShort ==
  ASSUME TypeOK, DocumentInv, NEW t \in Threads,
         \/ Shift(t) \/ KcaFlgs(t) \/ CancelDoc(t) \/ CancelDocBIOS(t)
         \/ CbCheck(t) \/ CbCancel(t) \/ InitConnection(t) \/ SetConnected(t)
  PROVE  DocumentInv'
<1> USE BelAssumption, PiritAssumption
    DEF Goto, SetOk, local, flags, history, pirit, Places, LockedPlaces, Filling,
        Live, TypeOK, PiritTypeOK, Docs, DocumentInv, MutexMatches, OwnerIsLive,
        LiveIsOwner, CancelReachesPrinter, LeakIsKnown, Short, BriefLock
<1>1. CASE Shift(t)
  BY <1>1 DEF Shift, OtherCommand
<1>2. CASE KcaFlgs(t)
  BY <1>2 DEF KcaFlgs, KcaFlgsGet
<1>3. CASE CancelDoc(t)
  BY <1>3 DEF CancelDoc, RbCancelDoc, CancelDocument
<1>4. CASE CancelDocBIOS(t)
  BY <1>4 DEF CancelDocBIOS, KcaFlgsGet
<1>5. CASE CbCheck(t)
  BY <1>5 DEF CbCheck
<1>6. CASE CbCancel(t)
  BY <1>6 DEF CbCancel, RbCancelDoc, CancelDocument
<1>7. CASE InitConnection(t)
  BY <1>7 DEF InitConnection
<1>8. CASE SetConnected(t)
  BY <1>8 DEF SetConnected
<1>9. QED
  BY <1>1, <1>2, <1>3, <1>4, <1>5, <1>6, <1>7, <1>8

LEMMA DocumentCall ==
  ASSUME TypeOK, DocumentInv, NEW t \in Threads,
         (\E o \in Ops : Call(t, o)) \/ InsResNull(t)
  PROVE  DocumentInv'
BY DEF Call, InsResNull, Fresh, Goto, SetOk, flags, Places, LockedPlaces, Filling, Live,
       TypeOK, DocumentInv, MutexMatches, OwnerIsLive, LiveIsOwner,
       CancelReachesPrinter, LeakIsKnown

LEMMA DocumentRestart == TypeOK /\ DocumentInv /\ Restart => DocumentInv'
BY PiritAssumption
   DEF TypeOK, PiritTypeOK, Docs, Restart, DocumentInv, MutexMatches, OwnerIsLive,
       LiveIsOwner, CancelReachesPrinter, LeakIsKnown, LockedPlaces, Filling, Live

LEMMA DocumentStep == TypeOK /\ DocumentInv /\ [Next]_vars => DocumentInv'
<1> SUFFICES ASSUME TypeOK, DocumentInv, [Next]_vars
             PROVE  DocumentInv'
  OBVIOUS
<1>1. CASE Restart
  BY <1>1, DocumentRestart
<1>2. ASSUME NEW t \in Threads, ThreadStep(t)
      PROVE  DocumentInv'
  BY <1>2, DocumentCall, DocumentBounds, DocumentFill, DocumentShort DEF ThreadStep, Inside, Outside
<1>3. CASE UNCHANGED vars
  BY <1>3
     DEF vars, flags, history, pirit, DocumentInv, MutexMatches, OwnerIsLive, LiveIsOwner,
         CancelReachesPrinter, LeakIsKnown
<1>4. QED
  BY <1>1, <1>2, <1>3 DEF Next

LEMMA DocumentInvariant == Spec => []DocumentInv
<1>1. TypeOK /\ DocumentInv /\ [Next]_vars => DocumentInv'
  BY DocumentStep
<1>2. QED
  BY DocumentInit, <1>1, TypeCorrect, PTL DEF Spec

\* Two documents never mix: the one in the printer belongs to the thread that
\* has mutex_bios and is filling, closing or cancelling it, or to no call, and
\* receipt_send_rb_bios and insRes fill none that an earlier call has left.
THEOREM OneWriter == Spec => []DocumentHasOneWriter
<1>1. TypeOK /\ DocumentInv => DocumentHasOneWriter
  BY DEF DocumentInv, OwnerIsLive, LiveIsOwner, MutexMatches, DocumentHasOneWriter, Live,
         LockedPlaces, Filling, Places
<1>2. QED
  BY <1>1, DocumentInvariant, TypeCorrect, PTL

\* No document is left in the printer between calls unless the answer to its
\* opening was lost or a warning, it could not be cancelled, or the application
\* died.
THEOREM LeaksExplained == Spec => []LeakIsExplained
<1>1. TypeOK /\ DocumentInv => LeakIsExplained
  BY PiritAssumption
     DEF TypeOK, DocumentInv, LeakIsKnown, LeakIsExplained, MutexMatches, Live,
         LockedPlaces, Filling, Places
<1>2. QED
  BY <1>1, DocumentInvariant, TypeCorrect, PTL

\* BEL::isConnected holds as long as a document is being filled, so that
\* closeDoc and cancelDoc do send their command.
THEOREM CancelSent == Spec => []CancelReachesPrinter
<1>1. DocumentInv => CancelReachesPrinter
  BY DEF DocumentInv
<1>2. QED
  BY <1>1, DocumentInvariant, PTL

-----------------------------------------------------------------------------
(* What is made fiscal, and what is answered                                *)

\* What ContentInv says of one thread.
Sound(t) ==
  /\ archive[t] # NoDoc => archive[t].owner = t /\ Contents(archive[t]) \in Fiscal(rcpt[t])
  /\ OpMatches(t) /\ Progress(t) /\ DocMatches(t) /\ ArchiveMatches(t)

LEMMA ContentIsSound == ContentInv <=> \A t \in Threads : Sound(t)
BY DEF ContentInv, ArchivedIsWhole, Sound

\* The payments that are due are the ones that were wanted.
LEMMA DueIsWanted == ASSUME NEW r PROVE Wanted(r).pays = Due(r)
<1>1. {p \in r.list : p \in r.zeros => p = Cash} = (r.list \ r.zeros) \cup (r.list \cap {Cash})
  OBVIOUS
<1>2. QED
  BY <1>1 DEF Wanted, Due

\* A step of t leaves the call of another thread s as it is; the document that s
\* fills may at most disappear.
Keeps(t) ==
  \A s \in Threads \ {t} :
    /\ pc'[s] = pc[s] /\ op'[s] = op[s] /\ rcpt'[s] = rcpt[s] /\ ok'[s] = ok[s]
    /\ idx'[s] = idx[s] /\ paid'[s] = paid[s] /\ archive'[s] = archive[s]
    /\ s \in closeLost' <=> s \in closeLost
    /\ pc[s] \in Filling => doc' \in {doc, NoDoc}

LEMMA InsideKeeps ==
  ASSUME TypeOK, DocumentInv, NEW t \in Threads, Inside(t)
  PROVE  Keeps(t)
<1>1. \A s \in Threads \ {t} : pc[s] \notin Filling
  BY DEF DocumentInv, MutexMatches, Inside, Fill, PreCancel, Open, Position, PositionsDone,
         PosMargin, SubTotal, Margin, Payment, PaymentNotSent, PaymentsDone, CashInOut,
         Close, Cancel, Return, LockedPlaces, Filling
<1>2. QED
  BY <1>1
     DEF TypeOK, PiritTypeOK, Keeps, Goto, SetOk, local, history, pirit, Inside, Fill,
         PreCancel, RbCancelDoc, Open, NotSent, Went, Position, PositionsDone, PosMargin,
         SubTotal, Margin, Line, Payment, PaymentNotSent, PaymentsDone, CashInOut, Close,
         Cancel, Return, OpenDocument, AddPosition, AddPayment, CashInOutDocument,
         PrintText, CloseDocument, CancelDocument

LEMMA OutsideKeeps ==
  ASSUME TypeOK, NEW t \in Threads,
         (\E o \in Ops : Call(t, o)) \/ InsResNull(t) \/ Outside(t)
  PROVE  Keeps(t)
<1> USE DEF TypeOK, PiritTypeOK, Keeps, Goto, SetOk, local, history, pirit, Fresh, Short,
            RbCancelDoc, CancelDocument, KcaFlgsGet, OtherCommand
<1>1. CASE (\E o \in Ops : Call(t, o)) \/ InsResNull(t)
  BY <1>1 DEF Call, InsResNull
<1>2. CASE Enter(t) \/ Shift(t) \/ KcaFlgs(t) \/ CbCheck(t)
  BY <1>2 DEF Enter, Shift, KcaFlgs, CbCheck
<1>3. CASE CancelDoc(t) \/ CancelDocBIOS(t) \/ CbCancel(t)
  BY <1>3 DEF CancelDoc, CancelDocBIOS, CbCancel
<1>4. CASE InitConnection(t) \/ SetConnected(t)
  BY <1>4 DEF InitConnection, SetConnected
<1>5. QED
  BY <1>1, <1>2, <1>3, <1>4 DEF Outside

LEMMA SoundOthers ==
  ASSUME ContentInv, NEW t \in Threads, Keeps(t), NEW s \in Threads \ {t}
  PROVE  Sound(s)'
BY ContentIsSound
   DEF Keeps, Sound, OpMatches, Progress, DocMatches, ArchiveMatches

\* The beginning and the end of a call.
LEMMA SoundCall ==
  ASSUME TypeOK, NEW t \in Threads, Sound(t),
         \/ \E o \in Ops : Call(t, o)
         \/ InsResNull(t) \/ Enter(t) \/ Return(t) \/ PreCancel(t) \/ Cancel(t)
  PROVE  Sound(t)'
<1> USE BelAssumption, PiritAssumption
    DEF TypeOK, PiritTypeOK, Goto, SetOk, local, flags, history, pirit, Sound, OpMatches,
        Progress, DocMatches, ArchiveMatches, Places, LockedPlaces, Filling, Live, Opening,
        InReceipt, Ops, DocumentOps, ShiftOps, ShortOps
<1>1. CASE \E o \in Ops : Call(t, o)
  BY <1>1 DEF Call, Fresh
<1>2. CASE InsResNull(t)
  BY <1>2 DEF InsResNull, Fresh
<1>3. CASE Enter(t)
  <2>1. pc[t] = "enter" /\ UNCHANGED <<local, ok, history, pirit>>
    BY <1>3 DEF Enter
  <2>2. pc'[t] = FirstPlace(t) /\ op[t] \in DocumentOps
    BY <1>3 DEF Enter
  <2>3. CASE op[t] = "receipt" /\ rcpt[t] = NoReceipt
    <3>1. pc'[t] = "return" /\ ~ok[t] /\ archive[t] = NoDoc
      BY <2>1, <2>2, <2>3 DEF FirstPlace
    <3>2. QED
      BY <2>1, <2>3, <3>1
  <2>4. CASE ~(op[t] = "receipt" /\ rcpt[t] = NoReceipt)
    <3>1. pc'[t] \in {"preCancel", "open"}
      BY <2>2, <2>4 DEF FirstPlace
    <3>2. QED
      BY <2>1, <2>2, <2>4, <3>1
  <2>5. QED
    BY <2>3, <2>4
<1>4. CASE Return(t)
  BY <1>4 DEF Return
<1>5. CASE PreCancel(t)
  BY <1>5 DEF PreCancel, RbCancelDoc, CancelDocument
<1>6. CASE Cancel(t)
  BY <1>6 DEF Cancel, RbCancelDoc, CancelDocument
<1>7. QED
  BY <1>1, <1>2, <1>3, <1>4, <1>5, <1>6

\* A command of the filling that fails, or that is not sent.
LEMMA SoundFailure ==
  ASSUME TypeOK, NEW t \in Threads, Sound(t), pc[t] \in Filling,
         Goto(t, "cancel"), SetOk(t, FALSE),
         UNCHANGED <<op, rcpt, archive, closeLost>>
  PROVE  Sound(t)'
BY DEF TypeOK, PiritTypeOK, Goto, SetOk, Sound, OpMatches, Progress, DocMatches,
       ArchiveMatches, Places, LockedPlaces, Filling, Live, Opening, InReceipt, DocumentOps

LEMMA CompletedOrNot ==
  ASSUME NEW o \in Outcomes
  PROVE  /\ Completed(o) => Executed(o)
         /\ \A t, next : Went(t, o, next) /\ ~Completed(o) => Goto(t, "cancel") /\ SetOk(t, FALSE)
<1>1. Completed(o) \in BOOLEAN
  BY DEF Completed
<1>2. QED
  BY <1>1 DEF Completed, Executed, Went, AfterFailure

LEMMA SoundOpen ==
  ASSUME TypeOK, NEW t \in Threads, Sound(t), Open(t)
  PROVE  Sound(t)'
<1> USE BelAssumption, PiritAssumption
    DEF TypeOK, PiritTypeOK, Goto, SetOk, local, flags, history, pirit, Sound, OpMatches,
        Progress, DocMatches, ArchiveMatches, Places, LockedPlaces, Filling, Live, Opening,
        InReceipt, DocumentOps
<1>1. /\ pc[t] = "open" /\ archive[t] = NoDoc /\ op[t] \in DocumentOps
      /\ UNCHANGED <<local, archive, closeLost>>
  BY DEF Open, OpenDocument
<1>2. CASE pc'[t] = "return" /\ ok'[t] = FALSE
  BY <1>1, <1>2
<1>3. CASE doc' = EmptyDoc(t) /\ pc'[t] = AfterOpen(t, "ok")
  BY <1>1, <1>3 DEF EmptyDoc, AfterOpen, Contents
<1>4. QED
  BY <1>2, <1>3 DEF Open, AfterOpen, OpenDocument, Executed, Outcomes

\* A command of the filling that completed, and what follows without one.
LEMMA SoundFill ==
  ASSUME TypeOK, NEW t \in Threads, Sound(t), Fill(t)
  PROVE  Sound(t)'
<1>0. pc[t] \in Filling /\ UNCHANGED <<op, rcpt, archive, closeLost>>
  BY DEF Fill, Position, PositionsDone, PosMargin, SubTotal, Margin, Line, Payment,
         PaymentNotSent, PaymentsDone, CashInOut, NotSent, Went, local, history, pirit,
         AddPosition, AddPayment, PrintText, CashInOutDocument, Filling
<1>1. CASE Goto(t, "cancel") /\ SetOk(t, FALSE)
  BY <1>0, <1>1, SoundFailure
<1> USE <1>0, BelAssumption, PiritAssumption
    DEF TypeOK, PiritTypeOK, Docs, Goto, local, pirit, Sound,
        OpMatches, Progress, DocMatches, ArchiveMatches, Places, LockedPlaces, Filling,
        Live, Opening, InReceipt, DocumentOps, Contents
<1>2. CASE Position(t) /\ ~(Goto(t, "cancel") /\ SetOk(t, FALSE))
  <2>1. PICK o \in Outcomes :
          /\ AddPosition(o)
          /\ idx' = [idx EXCEPT ![t] = IF Completed(o) THEN @ + 1 ELSE @]
          /\ Went(t, o, IF idx[t] + 1 \in rcpt[t].marked THEN "posMargin" ELSE "position")
          /\ UNCHANGED paid
    BY <1>2 DEF Position, NotSent, AfterFailure
  <2>2. Completed(o) /\ Executed(o)
    BY <1>2, <2>1, CompletedOrNot
  <2>3. /\ doc # NoDoc /\ doc' = [doc EXCEPT !.pos = @ + 1]
        /\ idx'[t] = idx[t] + 1 /\ pc'[t] \in {"posMargin", "position"}
    BY <2>1, <2>2 DEF AddPosition, Went
  <2>4. pc[t] = "position"
    BY <1>2 DEF Position
  <2>5. QED
    BY <2>1, <2>3, <2>4
<1>3. CASE (PosMargin(t) \/ SubTotal(t) \/ Margin(t)) /\ ~(Goto(t, "cancel") /\ SetOk(t, FALSE))
  <2>1. PICK o \in Outcomes, next \in {"position", "margin", "payment"} :
          /\ PrintText(o) /\ Went(t, o, next) /\ UNCHANGED local
          /\ next = "position" => pc[t] = "posMargin"
          /\ next \in {"margin", "payment"} => pc[t] \in {"subTotal", "margin"}
    BY <1>3 DEF PosMargin, SubTotal, Margin, Line, NotSent, AfterFailure
  <2>2. Completed(o)
    BY <1>3, <2>1, CompletedOrNot
  <2>3. pc'[t] = next
    BY <2>1, <2>2 DEF Went
  <2>4. QED
    BY <2>1, <2>3 DEF PrintText
<1>4. CASE Payment(t) /\ ~(Goto(t, "cancel") /\ SetOk(t, FALSE))
  <2>1. PICK p \in PayTypes, o \in Outcomes :
          /\ NextPayment(t, p) /\ AddPayment(o, p)
          /\ paid' = [paid EXCEPT ![t] = IF Completed(o) THEN @ \cup {p} ELSE @]
          /\ Went(t, o, "payment")
          /\ UNCHANGED idx
    BY <1>4 DEF Payment
  <2>2. Completed(o) /\ Executed(o)
    BY <1>4, <2>1, CompletedOrNot
  <2>3. /\ doc # NoDoc /\ doc' = [doc EXCEPT !.pays = @ \cup {p}]
        /\ paid'[t] = paid[t] \cup {p} /\ pc'[t] = "payment"
    BY <2>1, <2>2 DEF AddPayment, Went
  <2>4. pc[t] = "payment" /\ p \in Due(rcpt[t])
    BY <1>4, <2>1 DEF Payment, NextPayment
  <2>5. QED
    BY <2>1, <2>3, <2>4
<1>5. CASE PositionsDone(t)
  BY <1>5 DEF PositionsDone
<1>6. CASE PaymentsDone(t)
  <2>1. pc[t] = "payment" /\ paid[t] = Due(rcpt[t])
    BY <1>6 DEF PaymentsDone
  <2>2. QED
    BY <1>6, <2>1 DEF PaymentsDone
<1>7. CASE PaymentNotSent(t)
  BY <1>1, <1>7 DEF PaymentNotSent, NotSent, AfterFailure
<1>8. CASE CashInOut(t) /\ ~(Goto(t, "cancel") /\ SetOk(t, FALSE))
  <2>1. CashInOutDocument("ok") /\ pc'[t] = "close" /\ pc[t] = "cashInOut" /\ UNCHANGED local
    BY <1>8 DEF CashInOut, SetOk
  <2>2. QED
    BY <2>1 DEF CashInOutDocument, Executed
<1>9. QED
  BY <1>1, <1>2, <1>3, <1>4, <1>5, <1>6, <1>7, <1>8 DEF Fill

\* Closing makes fiscal what the call was asked for.
LEMMA SoundClose ==
  ASSUME TypeOK, DocumentInv, NEW t \in Threads, Sound(t), Close(t)
  PROVE  Sound(t)'
<1> USE BelAssumption, PiritAssumption
    DEF TypeOK, PiritTypeOK, Docs, Goto, SetOk, local, flags, history, pirit, Sound,
        OpMatches, Progress, DocMatches, ArchiveMatches, Places, LockedPlaces, Filling,
        Live, Opening, InReceipt, DocumentOps
<1>1. pc[t] = "close" /\ archive[t] = NoDoc /\ UNCHANGED <<op, rcpt, idx, paid>>
  BY DEF Close, NotSent
<1>2. CASE NotSent(t)
  BY <1>1, <1>2, SoundFailure DEF NotSent, AfterFailure
<1>3. ASSUME NEW o \in Outcomes,
             CloseDocument(o, t), SetOk(t, Completed(o)),
             Goto(t, IF Completed(o) THEN "return" ELSE "cancel"),
             closeLost' = IF o = "lost" THEN closeLost \cup {t} ELSE closeLost
      PROVE  Sound(t)'
  <2>1. CASE o = "refused"
    <3>1. Goto(t, "cancel") /\ SetOk(t, FALSE) /\ UNCHANGED <<archive, closeLost>>
      <4>1. Completed(o) = FALSE
        BY <2>1 DEF Completed
      <4>2. UNCHANGED <<archive, closeLost>>
        BY <1>3, <2>1 DEF CloseDocument, Executed
      <4>3. QED
        BY <1>3, <4>1, <4>2
    <3>2. QED
      BY <1>1, <3>1, SoundFailure
  <2>2. CASE o # "refused"
    <3>1. doc # NoDoc /\ archive'[t] = doc
      BY <1>3, <2>2 DEF CloseDocument, Executed
    <3>2. doc.owner = t
      BY <1>1, <3>1 DEF DocumentInv, LiveIsOwner
    <3>3. Contents(doc) = [pos |-> idx[t], pays |-> paid[t], cash |-> op[t] = "insRes"]
      BY <1>1, <3>1
    <3>4. Contents(doc) \in Fiscal(rcpt[t])
      <4>1. CASE op[t] = "receipt"
        <5>1. Contents(doc) = [pos |-> rcpt[t].positions, pays |-> Due(rcpt[t]), cash |-> FALSE]
          BY <1>1, <3>3, <4>1
        <5>2. QED
          BY <1>1, <4>1, <5>1, DueIsWanted DEF Fiscal, Wanted
      <4>2. CASE op[t] = "insRes"
        BY <1>1, <3>3, <4>2 DEF Fiscal, WantedCash
      <4>3. QED
        BY <1>1, <4>1, <4>2
    <3>5. /\ pc'[t] \in {"return", "cancel"}
          /\ pc'[t] = "cancel" => ~ok'[t]
          /\ ~ok'[t] => t \in closeLost'
      BY <1>3, <2>2 DEF Completed, Outcomes
    <3>6. Contents(doc)' = Contents(doc) \/ doc' = NoDoc
      BY <1>3, <2>2 DEF CloseDocument, Executed
    <3>7. QED
      BY <1>1, <3>1, <3>2, <3>4, <3>5 DEF Contents
  <2>3. QED
    BY <2>1, <2>2
<1>4. QED
  BY <1>2, <1>3 DEF Close

\* A call outside the mutex.
LEMMA SoundShort ==
  ASSUME TypeOK, NEW t \in Threads, Sound(t),
         \/ Shift(t) \/ KcaFlgs(t) \/ CancelDoc(t) \/ CancelDocBIOS(t)
         \/ CbCheck(t) \/ CbCancel(t) \/ InitConnection(t) \/ SetConnected(t)
  PROVE  Sound(t)'
<1>1. /\ UNCHANGED <<local, archive, closeLost>>
      /\ op[t] \in ShiftOps \cup ShortOps
      /\ pc'[t] \in {"idle", "cbCheck", "cbCancel"}
      /\ pc'[t] # "idle" => op[t] = "cancelDocBIOS"
  BY DEF TypeOK, Sound, OpMatches, Goto, Shift, KcaFlgs, CancelDoc, CancelDocBIOS, CbCheck,
         CbCancel, InitConnection, SetConnected, Short, OtherCommand, KcaFlgsGet,
         RbCancelDoc, CancelDocument, ShiftOps, ShortOps, Ops, pirit, history
<1>2. QED
  BY <1>1
     DEF local, Sound, OpMatches, Progress, DocMatches, ArchiveMatches, Places, LockedPlaces,
         Filling, Live, Opening, InReceipt, DocumentOps, ShiftOps, ShortOps

LEMMA ContentInit == Init => ContentInv
<1> SUFFICES ASSUME Init, NEW t \in Threads PROVE Sound(t)
  BY ContentIsSound
<1>1. QED
  BY DEF Init, PiritInit, Sound, OpMatches, Progress, DocMatches, ArchiveMatches, Places,
         LockedPlaces, Filling, Live, Opening, InReceipt, DocumentOps

LEMMA ContentRestart == Restart => ContentInv'
<1> SUFFICES ASSUME Restart, NEW t \in Threads PROVE Sound(t)'
  BY DEF ContentInv, ArchivedIsWhole, Sound
<1>1. QED
  BY DEF Restart, Sound, OpMatches, Progress, DocMatches, ArchiveMatches, Places,
         LockedPlaces, Filling, Live, Opening, InReceipt, DocumentOps

LEMMA ContentStep == TypeOK /\ DocumentInv /\ ContentInv /\ [Next]_vars => ContentInv'
<1> SUFFICES ASSUME TypeOK, DocumentInv, ContentInv, [Next]_vars
             PROVE  ContentInv'
  OBVIOUS
<1>1. CASE Restart
  BY <1>1, ContentRestart
<1>2. ASSUME NEW t \in Threads, ThreadStep(t)
      PROVE  ContentInv'
  <2>1. Keeps(t)
    BY <1>2, InsideKeeps, OutsideKeeps DEF ThreadStep
  <2>2. Sound(t)
    BY ContentIsSound
  <2>3. Sound(t)'
    BY <1>2, <2>2, SoundCall, SoundOpen, SoundFill, SoundClose, SoundShort
       DEF ThreadStep, Inside, Outside
  <2>4. \A s \in Threads : Sound(s)'
    BY <2>1, <2>3, SoundOthers
  <2>5. QED
    BY <2>4 DEF ContentInv, ArchivedIsWhole, Sound
<1>3. CASE UNCHANGED vars
  BY <1>3
     DEF vars, local, history, pirit, ContentInv, ArchivedIsWhole, OpMatches, Progress,
         DocMatches, ArchiveMatches
<1>4. QED
  BY <1>1, <1>2, <1>3 DEF Next

LEMMA ContentInvariant == Spec => []ContentInv
<1>1. TypeOK /\ DocumentInv /\ ContentInv /\ [Next]_vars => ContentInv'
  BY ContentStep
<1>2. QED
  BY ContentInit, <1>1, TypeCorrect, DocumentInvariant, PTL DEF Spec

\* Whatever fails, and whatever the other threads do, a document that
\* receipt_send_rb_bios or insRes makes fiscal has all the positions and
\* payments it was asked for and no others.
THEOREM FiscalIsWhole == Spec => []ArchivedIsWhole
<1>1. ContentInv => ArchivedIsWhole
  BY DEF ContentInv
<1>2. QED
  BY <1>1, ContentInvariant, PTL

\* The result of those calls tells whether the document is in the fiscal memory,
\* unless the answer to the closing command was lost.
THEOREM VerdictCorrect == Spec => []VerdictMatchesArchive
<1>1. ContentInv => VerdictMatchesArchive
  BY DEF ContentInv, ArchiveMatches, VerdictMatchesArchive
<1>2. QED
  BY <1>1, ContentInvariant, PTL

\* Only the thread that fills a document changes or removes it, but for the death of
\* the application and for cancelDocBIOS, which cancels without the mutex.
THEOREM OnlyItsThread == Spec => Undisturbed
<1>1. ASSUME TypeOK, DocumentInv, NEW u \in Threads, ThreadStep(u),
             NEW t \in Threads, doc # NoDoc, doc.owner = t, doc' # doc
      PROVE  \/ <<pc[t], idx[t], paid[t]>>' # <<pc[t], idx[t], paid[t]>>
             \/ \E v \in Threads : pc[v] = "cbCancel" /\ pc'[v] = "idle"
  <2>1. mutex = t /\ pc[t] \in Live \cup {"return"}
    BY <1>1 DEF DocumentInv, OwnerIsLive, MutexMatches, Live, LockedPlaces, Filling
  <2>2. CASE (\E o \in Ops : Call(u, o)) \/ InsResNull(u)
    BY <1>1, <2>2 DEF Call, InsResNull, Fresh
  <2>3. CASE Outside(u)
    <3>1. CASE CbCancel(u)
      BY <1>1, <3>1 DEF CbCancel, Goto, TypeOK
    <3>2. CASE BriefLock
      BY <1>1, <2>1, <3>2, PiritAssumption DEF BriefLock
    <3>3. CASE ~CbCancel(u) /\ ~BriefLock
      BY <1>1, <2>3, <3>3
         DEF Outside, Enter, Shift, KcaFlgs, KcaFlgsGet, CancelDoc, CancelDocBIOS, CbCheck,
             InitConnection, SetConnected, pirit
    <3>4. QED
      BY <3>1, <3>2, <3>3
  <2>4. CASE Inside(u)
    <3>1. u = t
      <4>1. pc[u] \in LockedPlaces
        BY <2>4
           DEF Inside, Fill, PreCancel, Open, Position, PositionsDone, PosMargin, SubTotal,
               Margin, Payment, PaymentNotSent, PaymentsDone, CashInOut, Close, Cancel,
               Return, LockedPlaces, Filling
      <4>2. QED
        BY <1>1, <2>1, <4>1 DEF DocumentInv, MutexMatches
    <3>2. CASE Position(t)
      <4>1. PICK o \in Outcomes :
              /\ Went(t, o, IF idx[t] + 1 \in rcpt[t].marked THEN "posMargin" ELSE "position")
              /\ idx' = [idx EXCEPT ![t] = IF Completed(o) THEN @ + 1 ELSE @]
        BY <1>1, <3>2 DEF Position, NotSent, pirit
      <4>2. Completed(o) => idx'[t] # idx[t]
        BY <1>1, <4>1 DEF TypeOK
      <4>3. ~Completed(o) => pc'[t] # pc[t]
        BY <1>1, <3>2, <4>1 DEF Position, Went, Goto, AfterFailure, TypeOK
      <4>4. QED
        BY <4>2, <4>3
    <3>3. CASE Payment(t)
      <4>1. PICK p \in PayTypes, o \in Outcomes :
              /\ p \notin paid[t] /\ Went(t, o, "payment")
              /\ paid' = [paid EXCEPT ![t] = IF Completed(o) THEN @ \cup {p} ELSE @]
        BY <1>1, <3>3 DEF Payment, NextPayment
      <4>2. Completed(o) => paid'[t] # paid[t]
        BY <1>1, <4>1 DEF TypeOK
      <4>3. ~Completed(o) => pc'[t] # pc[t]
        BY <1>1, <3>3, <4>1 DEF Payment, Went, Goto, AfterFailure, TypeOK
      <4>4. QED
        BY <4>2, <4>3
    <3>4. CASE ~Position(t) /\ ~Payment(t)
      <4>1. pc'[t] # pc[t]
        BY <1>1, <2>4, <3>1, <3>4
           DEF Inside, Fill, PreCancel, Open, AfterOpen, PositionsDone, PosMargin, SubTotal,
               Margin, Line, PaymentNotSent, PaymentsDone, CashInOut, Close, Cancel, Return,
               Went, NotSent, AfterFailure, PrintText, Goto, pirit, TypeOK
      <4>2. QED
        BY <4>1
    <3>5. QED
      BY <3>1, <3>2, <3>3, <3>4
  <2>5. QED
    BY <1>1, <2>2, <2>3, <2>4 DEF ThreadStep
<1>2. TypeOK /\ DocumentInv /\ [Next]_vars =>
        [ \A t \in Threads :
            doc # NoDoc /\ doc.owner = t /\ doc' # doc =>
              \/ <<pc[t], idx[t], paid[t]>>' # <<pc[t], idx[t], paid[t]>>
              \/ Restart
              \/ \E u \in Threads : pc[u] = "cbCancel" /\ pc'[u] = "idle" ]_vars
  BY <1>1 DEF Next, vars
<1>3. QED
  BY <1>2, TypeCorrect, DocumentInvariant, PTL DEF Spec, Undisturbed

-----------------------------------------------------------------------------
(* The refinement of FiscalCall                                             *)

\* The steps that the callers see: a call, the closing that the printer executed,
\* and the return.  All others leave what the abstract variables are made of.
Quiet ==
  /\ UNCHANGED <<op, rcpt, archive>>
  /\ \A t \in Threads : op[t] \in DocumentOps =>
       /\ pc[t] = "idle" <=> pc'[t] = "idle"
       /\ pc[t] = "idle" => ok'[t] = ok[t]

LEMMA QuietStutters == Quiet => UNCHANGED Abstract!vars
<1> SUFFICES ASSUME Quiet PROVE UNCHANGED Abstract!vars
  OBVIOUS
<1>1. {t \in Threads : pc[t] # "idle" /\ op[t] \in DocumentOps}'
        = {t \in Threads : pc[t] # "idle" /\ op[t] \in DocumentOps}
  BY DEF Quiet
<1>2. [t \in Threads |-> pc[t] = "idle" /\ op[t] \in DocumentOps /\ ok[t]]'
        = [t \in Threads |-> pc[t] = "idle" /\ op[t] \in DocumentOps /\ ok[t]]
  BY DEF Quiet
<1>3. [t \in Threads |-> IF archive[t] = NoDoc THEN NoDoc ELSE Contents(archive[t])]'
        = [t \in Threads |-> IF archive[t] = NoDoc THEN NoDoc ELSE Contents(archive[t])]
  BY DEF Quiet, Contents
<1>4. QED
  BY <1>1, <1>2, <1>3 DEF Abstract!vars, Quiet

LEMMA ShortIsQuiet ==
  ASSUME TypeOK, ContentInv, NEW t \in Threads,
         \/ Shift(t) \/ KcaFlgs(t) \/ CancelDoc(t) \/ CancelDocBIOS(t)
         \/ CbCheck(t) \/ CbCancel(t) \/ InitConnection(t) \/ SetConnected(t)
  PROVE  Quiet
<1>1. Keeps(t)
  BY OutsideKeeps DEF Outside
<1>2. /\ UNCHANGED <<local, archive>>
      /\ op[t] \in ShiftOps \cup ShortOps
  BY DEF ContentInv, OpMatches, Shift, KcaFlgs, CancelDoc, CancelDocBIOS, CbCheck,
         CbCancel, InitConnection, SetConnected, Short, OtherCommand, KcaFlgsGet,
         RbCancelDoc, CancelDocument, ShiftOps, ShortOps, pirit
<1>3. QED
  BY <1>1, <1>2 DEF Keeps, Quiet, local, ShiftOps, ShortOps, DocumentOps

LEMMA WorkIsQuiet ==
  ASSUME TypeOK, DocumentInv, NEW t \in Threads,
         Enter(t) \/ PreCancel(t) \/ Open(t) \/ Fill(t) \/ Cancel(t)
  PROVE  Quiet
<1>1. Keeps(t)
  BY InsideKeeps, OutsideKeeps DEF Inside, Outside
<1>2. UNCHANGED <<op, rcpt, archive>>
  BY DEF Enter, PreCancel, Open, Cancel, Fill, Position, PositionsDone, PosMargin, SubTotal,
         Margin, Line, Payment, PaymentNotSent, PaymentsDone, CashInOut, NotSent, Went,
         RbCancelDoc, CancelDocument, OpenDocument, AddPosition, AddPayment, PrintText,
         CashInOutDocument, local, pirit
<1>3. pc[t] # "idle" /\ pc'[t] # "idle"
  BY DEF TypeOK, Goto, Enter, FirstPlace, PreCancel, Open, AfterOpen, Cancel, Fill, Position,
         PositionsDone, PosMargin, SubTotal, Margin, Line, Payment, PaymentNotSent,
         PaymentsDone, CashInOut, NotSent, Went, AfterFailure
<1>4. QED
  BY <1>1, <1>2, <1>3 DEF Keeps, Quiet

\* A call of a document is Ask, any other call and a null document are Pass.
LEMMA CallRefines ==
  ASSUME TypeOK, NEW t \in Threads, NEW o \in Ops, Call(t, o)
  PROVE  Abstract!Next
<1> USE DEF TypeOK, Call, Fresh, Goto, SetOk
<1>1. PICK r \in Receipts \cup {NoReceipt} :
        /\ Fresh(t, o, r)
        /\ o # "receipt" => r = NoReceipt
  OBVIOUS
<1>2. [u \in Threads |-> IF archive[u] = NoDoc THEN NoDoc ELSE Contents(archive[u])]'
        = [[u \in Threads |-> IF archive[u] = NoDoc THEN NoDoc ELSE Contents(archive[u])]
             EXCEPT ![t] = NoDoc]
  BY <1>1 DEF PiritTypeOK, Contents
<1>3. [u \in Threads |-> pc[u] = "idle" /\ op[u] \in DocumentOps /\ ok[u]]'
        = [[u \in Threads |-> pc[u] = "idle" /\ op[u] \in DocumentOps /\ ok[u]]
             EXCEPT ![t] = FALSE]
  BY <1>1
<1>4. rcpt' = [rcpt EXCEPT ![t] = r]
  BY <1>1
<1>5. CASE o \in DocumentOps
  <2>1. {u \in Threads : pc[u] # "idle" /\ op[u] \in DocumentOps}'
          = {u \in Threads : pc[u] # "idle" /\ op[u] \in DocumentOps} \cup {t}
    BY <1>1, <1>5
  <2>2. Abstract!Ask(t, r)
    BY <1>2, <1>3, <1>4, <2>1 DEF Abstract!Ask, Abstract!Reset
  <2>3. QED
    BY <2>2 DEF Abstract!Next
<1>6. CASE o \notin DocumentOps
  <2>1. {u \in Threads : pc[u] # "idle" /\ op[u] \in DocumentOps}'
          = {u \in Threads : pc[u] # "idle" /\ op[u] \in DocumentOps}
    BY <1>1, <1>6
  <2>2. Abstract!Pass(t)
    BY <1>1, <1>2, <1>3, <1>4, <1>6, <2>1 DEF Abstract!Pass, Abstract!Reset, DocumentOps
  <2>3. QED
    BY <2>2 DEF Abstract!Next
<1>7. QED
  BY <1>5, <1>6

LEMMA NullRefines ==
  ASSUME TypeOK, NEW t \in Threads, InsResNull(t)
  PROVE  Abstract!Next
<1> USE DEF TypeOK, InsResNull, Fresh, SetOk
<1>1. [u \in Threads |-> IF archive[u] = NoDoc THEN NoDoc ELSE Contents(archive[u])]'
        = [[u \in Threads |-> IF archive[u] = NoDoc THEN NoDoc ELSE Contents(archive[u])]
             EXCEPT ![t] = NoDoc]
  BY DEF PiritTypeOK, Contents
<1>2. [u \in Threads |-> pc[u] = "idle" /\ op[u] \in DocumentOps /\ ok[u]]'
        = [[u \in Threads |-> pc[u] = "idle" /\ op[u] \in DocumentOps /\ ok[u]]
             EXCEPT ![t] = FALSE]
  OBVIOUS
<1>3. {u \in Threads : pc[u] # "idle" /\ op[u] \in DocumentOps}'
        = {u \in Threads : pc[u] # "idle" /\ op[u] \in DocumentOps}
  OBVIOUS
<1>4. Abstract!Pass(t)
  BY <1>1, <1>2, <1>3 DEF Abstract!Pass, Abstract!Reset
<1>5. QED
  BY <1>4 DEF Abstract!Next

\* The return is Answer.
LEMMA ReturnRefines ==
  ASSUME TypeOK, ContentInv, NEW t \in Threads, Return(t)
  PROVE  Abstract!Next
<1> USE DEF TypeOK, Return, Goto
<1>1. /\ pc[t] = "return" /\ op[t] \in DocumentOps
      /\ ok[t] => archive[t] # NoDoc
      /\ UNCHANGED <<op, rcpt, ok, archive>>
  BY DEF ContentInv, OpMatches, ArchiveMatches, Places, LockedPlaces, local
<1>2. [u \in Threads |-> IF archive[u] = NoDoc THEN NoDoc ELSE Contents(archive[u])]'
        = [u \in Threads |-> IF archive[u] = NoDoc THEN NoDoc ELSE Contents(archive[u])]
  BY <1>1 DEF Contents
<1>3. PICK b \in BOOLEAN : ok[t] = b
  OBVIOUS
<1>4. [u \in Threads |-> pc[u] = "idle" /\ op[u] \in DocumentOps /\ ok[u]]'
        = [[u \in Threads |-> pc[u] = "idle" /\ op[u] \in DocumentOps /\ ok[u]]
             EXCEPT ![t] = b]
  BY <1>1, <1>3
<1>5. {u \in Threads : pc[u] # "idle" /\ op[u] \in DocumentOps}'
        = {u \in Threads : pc[u] # "idle" /\ op[u] \in DocumentOps} \ {t}
  BY <1>1
<1>6. b => Contents(archive[t]) # NoDoc
  BY <1>1, <1>3, BelAssumption DEF PiritTypeOK, Docs, Contents
<1>7. Abstract!Answer(t, b)
  BY <1>1, <1>2, <1>4, <1>5, <1>6 DEF Abstract!Answer
<1>8. QED
  BY <1>7 DEF Abstract!Next

\* The closing that the printer executes is Commit.
LEMMA CloseRefines ==
  ASSUME TypeOK, DocumentInv, ContentInv, NEW t \in Threads, Close(t)
  PROVE  [Abstract!Next]_Abstract!vars
<1> USE DEF TypeOK
<1>1. /\ pc[t] = "close" /\ op[t] \in DocumentOps /\ archive[t] = NoDoc
      /\ pc'[t] \in {"return", "cancel"} /\ UNCHANGED <<op, rcpt>>
  BY DEF ContentInv, OpMatches, ArchiveMatches, Places, LockedPlaces, Filling, Opening, Close,
         NotSent, AfterFailure, Goto, local
<1>2. Keeps(t)
  BY InsideKeeps DEF Inside
<1>3. CASE archive' = archive
  BY <1>1, <1>2, <1>3, QuietStutters DEF Quiet, Keeps
<1>4. CASE archive' # archive
  <2>0. Sound(t)'
    BY ContentIsSound, SoundClose
  <2>1. archive' = [archive EXCEPT ![t] = doc] /\ doc # NoDoc
    BY <1>4 DEF Close, NotSent, CloseDocument, Executed, pirit
  <2>2. Contents(doc) \in Fiscal(rcpt[t])
    <3>1. archive'[t] = doc /\ rcpt'[t] = rcpt[t]
      BY <1>1, <2>1 DEF PiritTypeOK
    <3>2. QED
      BY <2>0, <2>1, <3>1 DEF Sound, Contents
  <2>3. [u \in Threads |-> IF archive[u] = NoDoc THEN NoDoc ELSE Contents(archive[u])]'
          = [[u \in Threads |-> IF archive[u] = NoDoc THEN NoDoc ELSE Contents(archive[u])]
               EXCEPT ![t] = Contents(doc)]
    BY <2>1 DEF PiritTypeOK, Contents
  <2>4. [u \in Threads |-> pc[u] = "idle" /\ op[u] \in DocumentOps /\ ok[u]]'
          = [u \in Threads |-> pc[u] = "idle" /\ op[u] \in DocumentOps /\ ok[u]]
    BY <1>1, <1>2 DEF Keeps
  <2>5. {u \in Threads : pc[u] # "idle" /\ op[u] \in DocumentOps}'
          = {u \in Threads : pc[u] # "idle" /\ op[u] \in DocumentOps}
    BY <1>1, <1>2 DEF Keeps
  <2>6. Abstract!Commit(t)
    BY <1>1, <2>2, <2>3, <2>4, <2>5 DEF Abstract!Commit
  <2>7. QED
    BY <2>6 DEF Abstract!Next
<1>5. QED
  BY <1>3, <1>4

\* The death of the application is Crash.
LEMMA RestartRefines == Restart => Abstract!Next
BY DEF Restart, DocumentOps, Abstract!Next, Abstract!Crash

LEMMA InitRefines == Init => Abstract!Init
BY DEF Init, PiritInit, DocumentOps, Abstract!Init

\* The calls of class BIOS in the Belarusian build implement the atomic calls of
\* FiscalCall: each makes at most one document fiscal, while it is under way,
\* with all its request asked for, and answers true from a fiscal one only.
THEOREM Refinement == Spec => AbstractSpec
<1>1. TypeOK /\ DocumentInv /\ ContentInv /\ [Next]_vars => [Abstract!Next]_Abstract!vars
  <2> SUFFICES ASSUME TypeOK, DocumentInv, ContentInv, [Next]_vars
               PROVE  [Abstract!Next]_Abstract!vars
    OBVIOUS
  <2>1. CASE Restart
    BY <2>1, RestartRefines
  <2>2. ASSUME NEW t \in Threads, ThreadStep(t)
        PROVE  [Abstract!Next]_Abstract!vars
    BY <2>2, CallRefines, NullRefines, ReturnRefines, CloseRefines, WorkIsQuiet,
       ShortIsQuiet, QuietStutters
       DEF ThreadStep, Inside, Outside
  <2>3. CASE UNCHANGED vars
    BY <2>3, QuietStutters DEF vars, local, pirit, Quiet
  <2>4. QED
    BY <2>1, <2>2, <2>3 DEF Next
<1>2. QED
  BY <1>1, InitRefines, TypeCorrect, DocumentInvariant, ContentInvariant, PTL
     DEF Spec, AbstractSpec, Abstract!Spec

=============================================================================
