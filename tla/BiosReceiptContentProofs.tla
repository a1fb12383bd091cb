---------------------- MODULE BiosReceiptContentProofs ----------------------
(***************************************************************************)
(* What the document calls of BiosReceipt make fiscal and what they answer,*)
(* for any number of threads, any receipts and any calls: the contents of  *)
(* the archive, the verdicts, the refinement of FiscalCall, and that nobody*)
(* but its thread touches a document.                                      *)
(***************************************************************************)
EXTENDS BiosReceiptProofs, FiniteSetTheorems

-----------------------------------------------------------------------------
(* What a receipt may be in the fiscal memory                               *)

\* The rule of the loop over recPayTypes pays what was wanted: the listed payments
\* with a sum, and one without only if it is the only one listed.
LEMMA DueIsWanted == ASSUME NEW r \in ReceiptType PROVE Wanted(r).pays = Due(r)
<1> DEFINE W == {p \in r.list : p \notin r.zeros \/ r.list = {p}}
<1>1. IsFiniteSet(r.list)
  BY FS_Subset, ReceiptAssumption DEF ReceiptType
<1>2. CASE r.list \ r.zeros # {}
  BY <1>2 DEF Wanted, Due
<1>3. CASE r.list \ r.zeros = {} /\ Cardinality(r.list) = 1
  <2>1. PICK x : r.list = {x}
    BY <1>1, <1>3, FS_Singleton
  <2>2. W = r.list
    BY <2>1
  <2>3. QED
    BY <1>3, <2>2 DEF Wanted, Due
<1>4. CASE r.list \ r.zeros = {} /\ Cardinality(r.list) # 1
  <2>1. \A p \in r.list : r.list # {p}
    BY <1>4, FS_Singleton
  <2>2. W = {}
    BY <1>4, <2>1
  <2>3. QED
    BY <1>4, <2>2 DEF Wanted, Due
<1>5. QED
  BY <1>2, <1>3, <1>4

\* A receipt as far as it has come.
Far(n, S) == [pos |-> n, pays |-> S, cash |-> FALSE]

\* A whole receipt is one that may become fiscal.
LEMMA WholeIsFiscal ==
  ASSUME NEW r \in Receipts
  PROVE  Far(r.positions, Due(r)) \in Fiscal(r)
<1>1. r \in ReceiptType /\ r # NoReceipt
  BY ReceiptAssumption
<1>2. Wanted(r) = Far(r.positions, Due(r))
  BY <1>1, DueIsWanted DEF Wanted, Far
<1>3. CASE r.addRecReq
  <2>1. Wanted(r) \in Beginnings(Wanted(r))
    BY <1>1 DEF Beginnings, Wanted, ReceiptType
  <2>2. QED
    BY <1>1, <1>2, <1>3, <2>1 DEF Fiscal
<1>4. CASE ~r.addRecReq
  BY <1>1, <1>2, <1>4 DEF Fiscal
<1>5. QED
  BY <1>3, <1>4

\* With an additional requisite so are its beginnings.
LEMMA BeginningIsFiscal ==
  ASSUME NEW r \in Receipts, r.addRecReq, NEW n \in Nat, NEW S,
         \/ n <= r.positions /\ S = {}
         \/ n = r.positions /\ S \subseteq Due(r)
  PROVE  Far(n, S) \in Fiscal(r)
<1>1. r \in ReceiptType /\ r # NoReceipt
  BY ReceiptAssumption
<1>2. Wanted(r) = Far(r.positions, Due(r))
  BY <1>1, DueIsWanted DEF Wanted, Far
<1>3. Far(n, S) \in Beginnings(Far(r.positions, Due(r)))
  BY <1>1 DEF Beginnings, Far, ReceiptType
<1>4. QED
  BY <1>1, <1>2, <1>3 DEF Fiscal

-----------------------------------------------------------------------------
(* What is made fiscal, and what is answered                                *)

\* What ContentInv says of one thread.
Sound(t) ==
  /\ archive[t] # NoDoc => archive[t].owner = t /\ Contents(archive[t]) \in Fiscal(rcpt[t])
  /\ OpMatches(t) /\ Progress(t) /\ DocMatches(t) /\ ArchiveMatches(t)

LEMMA ContentIsSound == ContentInv <=> \A t \in Threads : Sound(t)
BY DEF ContentInv, ArchivedIsWhole, Sound

\* A step of t leaves the call of another thread s as it is; the document that s
\* fills may at most disappear.
Keeps(t) ==
  \A s \in Threads \ {t} :
    /\ pc'[s] = pc[s] /\ op'[s] = op[s] /\ rcpt'[s] = rcpt[s] /\ ok'[s] = ok[s]
    /\ idx'[s] = idx[s] /\ paid'[s] = paid[s] /\ archive'[s] = archive[s]
    /\ events'[s] = events[s]
    /\ pc[s] \in Filling => doc' \in {doc, NoDoc}

LEMMA InsideKeeps ==
  ASSUME TypeOK, DocumentInv, NEW t \in Threads, Inside(t)
  PROVE  Keeps(t)
<1>1. \A s \in Threads \ {t} : pc[s] \notin Filling
  BY DEF DocumentInv, MutexMatches, Inside, Fill, PreCancel, Open, Position, PositionsDone,
         PosDiscount, Payment, NoPayment, PaymentsDone, TotalDiscount, Requisite, CashInOut,
         Close, Cancel, Command, Return, LockedPlaces, Places, Filling
<1> USE <1>1
    DEF TypeOK, DataTypeOK, PiritTypeOK, Keeps, Goto, SetOk, Note, local, pirit, NotSent,
        Rejected, Went
<1>2. CASE PreCancel(t) \/ Open(t) \/ Cancel(t) \/ Command(t) \/ Return(t)
  BY <1>2
     DEF PreCancel, RfCancelDoc, Open, OpenDocument, Cancel, CancelDocument, Command,
         OtherCommand, Return
<1>3. CASE Position(t) \/ PositionsDone(t) \/ PosDiscount(t)
  BY <1>3 DEF Position, PositionsDone, PosDiscount, AddPosition, PrintText
<1>4. CASE Payment(t) \/ NoPayment(t) \/ PaymentsDone(t)
  BY <1>4 DEF Payment, NoPayment, PaymentsDone, AddPayment
<1>5. CASE TotalDiscount(t) \/ Requisite(t) \/ CashInOut(t) \/ Close(t)
  BY <1>5
     DEF TotalDiscount, Requisite, CashInOut, Close, PrintText, CashInOutDocument,
         CloseDocument
<1>6. QED
  BY <1>2, <1>3, <1>4, <1>5 DEF Inside, Fill

LEMMA OutsideKeeps ==
  ASSUME TypeOK, NEW t \in Threads,
         (\E o \in Ops : Call(t, o) \/ CallNull(t, o)) \/ Outside(t)
  PROVE  Keeps(t)
<1> USE DEF TypeOK, DataTypeOK, PiritTypeOK, Keeps, Goto, SetOk, local, pirit, Fresh, Short,
            RfCancelDoc, CancelDocument, FsStatusGet
<1>1. CASE \E o \in Ops : Call(t, o) \/ CallNull(t, o)
  BY <1>1 DEF Call, CallNull
<1>2. CASE Enter(t) \/ EnterFails(t) \/ FsStatus(t) \/ GetStatusBIOS(t) \/ CbCheck(t)
  BY <1>2 DEF Enter, EnterFails, FsStatus, GetStatusBIOS, CbCheck
<1>3. CASE CancelDoc(t) \/ CancelDocBIOS(t) \/ CbCancel(t)
  BY <1>3 DEF CancelDoc, CancelDocBIOS, CbCancel
<1>4. CASE InitConnection(t) \/ SetConnected(t)
  BY <1>4 DEF InitConnection, SetConnected
<1>5. QED
  BY <1>1, <1>2, <1>3, <1>4 DEF Outside

LEMMA SoundOthers ==
  ASSUME ContentInv, NEW t \in Threads, Keeps(t), NEW s \in Threads \ {t}
  PROVE  Sound(s)'
<1>1. Sound(s)
  BY ContentIsSound
<1>2. DocMatches(s)'
  BY <1>1 DEF Keeps, Sound, DocMatches, Exact, Ending, Filling
<1>3. QED
  BY <1>1, <1>2 DEF Keeps, Sound, OpMatches, Progress, ArchiveMatches

\* The beginning and the end of a call.
LEMMA SoundCall ==
  ASSUME TypeOK, NEW t \in Threads, Sound(t),
         \/ \E o \in Ops : Call(t, o) \/ CallNull(t, o)
         \/ Enter(t) \/ EnterFails(t) \/ Return(t) \/ PreCancel(t) \/ Cancel(t)
         \/ Command(t)
  PROVE  Sound(t)'
<1> USE ReceiptAssumption, PiritAssumption
    DEF TypeOK, DataTypeOK, PiritTypeOK, Goto, SetOk, Note, local, pirit, Sound, OpMatches,
        Progress, DocMatches, ArchiveMatches, Places, LockedPlaces, Filling, Live, Opening,
        Exact, Ending, Ops, LockedOps, FiscalOps, DocumentOps, ShortOps, AfterPreCancel,
        NeedsConnection
<1>1. CASE \E o \in Ops : Call(t, o)
  BY <1>1 DEF Call, Fresh
<1>2. CASE \E o \in Ops : CallNull(t, o)
  BY <1>2 DEF CallNull, Fresh
<1>3. CASE Enter(t)
  BY <1>3 DEF Enter
<1>4. CASE EnterFails(t)
  BY <1>4 DEF EnterFails
<1>5. CASE Return(t)
  BY <1>5 DEF Return
<1>6. CASE PreCancel(t)
  BY <1>6 DEF PreCancel, RfCancelDoc, CancelDocument
<1>7. CASE Cancel(t)
  BY <1>7 DEF Cancel, RfCancelDoc, CancelDocument
<1>8. CASE Command(t)
  BY <1>8 DEF Command, OtherCommand
<1>9. QED
  BY <1>1, <1>2, <1>3, <1>4, <1>5, <1>6, <1>7, <1>8

\* A command of the filling that fails, or that is not sent, and is not forgotten.
LEMMA SoundFailure ==
  ASSUME TypeOK, NEW t \in Threads, Sound(t), pc[t] \in Filling,
         Goto(t, "cancel"), SetOk(t, FALSE),
         UNCHANGED <<op, rcpt, archive>>
  PROVE  Sound(t)'
BY DEF TypeOK, DataTypeOK, PiritTypeOK, Goto, SetOk, Sound, OpMatches, Progress, DocMatches,
       ArchiveMatches, Places, LockedPlaces, LockedOps, Filling, Live, Opening, Exact,
       Ending, DocumentOps

\* What precedes the requisite, with or without a failure.
LEMMA SoundRequisite ==
  ASSUME TypeOK, NEW t \in Threads, Sound(t), pc[t] \in Exact \ {"cashInOut"},
         Goto(t, "requisite"), rcpt[t].addRecReq,
         doc' # NoDoc => Contents(doc)' \in Fiscal(rcpt[t]),
         UNCHANGED <<op, rcpt, archive>>
  PROVE  Sound(t)'
BY DEF TypeOK, DataTypeOK, PiritTypeOK, Goto, Sound, OpMatches, Progress, DocMatches,
       ArchiveMatches, Places, LockedPlaces, LockedOps, Filling, Live, Opening, Exact,
       Ending, DocumentOps

\* A command of a receipt that fails: whatever of it the printer has done, the
\* document has not more than a beginning.
LEMMA SoundFailed ==
  ASSUME TypeOK, NEW t \in Threads, Sound(t), pc[t] \in Exact \ {"cashInOut"},
         Goto(t, AfterFailure(t)), SetOk(t, FALSE),
         NEW n \in Nat, NEW S,
         \/ n <= rcpt[t].positions /\ S = {}
         \/ n = rcpt[t].positions /\ S \subseteq Due(rcpt[t]),
         doc' # NoDoc => Contents(doc)' = Far(n, S),
         UNCHANGED <<op, rcpt, archive>>
  PROVE  Sound(t)'
<1>1. rcpt[t] \in Receipts
  BY DEF TypeOK, DataTypeOK, Sound, OpMatches, Exact, Filling, Live
<1>2. CASE rcpt[t].addRecReq
  <2>1. Far(n, S) \in Fiscal(rcpt[t])
    BY <1>1, <1>2, BeginningIsFiscal
  <2>2. Goto(t, "requisite")
    BY <1>2 DEF AfterFailure
  <2>3. QED
    BY <1>2, <2>1, <2>2, SoundRequisite
<1>3. CASE ~rcpt[t].addRecReq
  BY <1>3, SoundFailure DEF AfterFailure, Exact, Filling
<1>4. QED
  BY <1>2, <1>3

\* A receipt whose last command completed.
LEMMA SoundWhole ==
  ASSUME TypeOK, NEW t \in Threads, Sound(t), pc[t] \in {"payment", "totalDiscount"},
         Goto(t, AfterSuccess(t)), paid[t] = Due(rcpt[t]),
         UNCHANGED <<op, rcpt, archive, doc>>
  PROVE  Sound(t)'
<1>1. rcpt[t] \in Receipts
  BY DEF TypeOK, DataTypeOK, Sound, OpMatches, Exact, Filling, Live
<1>2. doc # NoDoc => Contents(doc) \in Fiscal(rcpt[t])
  BY <1>1, WholeIsFiscal DEF Sound, DocMatches, Progress, Exact, Far
<1>3. CASE rcpt[t].addRecReq
  BY <1>2, <1>3, SoundRequisite DEF AfterSuccess, Exact, Contents
<1>4. CASE Goto(t, "close")
  BY <1>2, <1>4
     DEF TypeOK, DataTypeOK, PiritTypeOK, Goto, Sound, OpMatches, Progress, DocMatches,
         ArchiveMatches, Places, LockedPlaces, LockedOps, Filling, Live, Opening, Exact,
         Ending, DocumentOps, Contents
<1>5. QED
  BY <1>3, <1>4 DEF AfterSuccess

LEMMA CompletedOrNot ==
  ASSUME NEW o \in Outcomes
  PROVE  /\ Completed(o) => Executed(o)
         /\ \A t, next :
              /\ Went(t, o, next) /\ Completed(o) => Goto(t, next)
              /\ Went(t, o, next) /\ ~Completed(o) => Goto(t, AfterFailure(t)) /\ SetOk(t, FALSE)
<1>1. Completed(o) \in BOOLEAN
  BY DEF Completed
<1>2. QED
  BY <1>1 DEF Completed, Executed, Went

LEMMA SoundOpen ==
  ASSUME TypeOK, NEW t \in Threads, Sound(t), Open(t)
  PROVE  Sound(t)'
<1> USE ReceiptAssumption, PiritAssumption
    DEF TypeOK, DataTypeOK, PiritTypeOK, Goto, SetOk, local, pirit, Sound, OpMatches,
        Progress, DocMatches, ArchiveMatches, Places, LockedPlaces, LockedOps, Filling, Live,
        Opening, Exact, Ending, DocumentOps
<1>1. /\ pc[t] = "open" /\ archive[t] = NoDoc /\ op[t] \in DocumentOps
      /\ UNCHANGED <<local, archive, events>>
  BY DEF Open, OpenDocument, Rejected
<1>2. CASE pc'[t] = "return" /\ ok'[t] = FALSE
  BY <1>1, <1>2
<1>3. ASSUME NEW o \in {"ok", "warn"}, doc' = EmptyDoc(t), pc'[t] = AfterOpen(t, o)
      PROVE  Sound(t)'
  <2>1. CASE op[t] = "receipt"
    <3>1. rcpt[t] \in ReceiptType
      BY <1>1, <2>1
    <3>2. pc'[t] = "position"
      BY <1>3, <2>1 DEF AfterOpen, Completed
    <3>3. rcpt[t].positions \in Nat
      BY <3>1 DEF ReceiptType
    <3>4. idx'[t] = 0 /\ paid'[t] = {} /\ rcpt'[t] = rcpt[t] /\ op'[t] = "receipt"
      BY <1>1, <2>1
    <3>5. Contents(doc)' = [pos |-> 0, pays |-> {}, cash |-> FALSE]
      BY <1>3 DEF EmptyDoc, Contents
    <3>6. QED
      BY <1>1, <2>1, <3>2, <3>3, <3>4, <3>5
  <2>2. CASE op[t] = "insRes"
    BY <1>1, <1>3, <2>2 DEF EmptyDoc, Contents, AfterOpen, Completed
  <2>3. QED
    BY <1>1, <2>1, <2>2
<1>4. QED
  BY <1>2, <1>3 DEF Open, AfterOpen, OpenDocument, Executed, Completed, Outcomes, Rejected

\* The loop over the positions.
LEMMA SoundPositions ==
  ASSUME TypeOK, NEW t \in Threads, Sound(t),
         Position(t) \/ PositionsDone(t) \/ PosDiscount(t)
  PROVE  Sound(t)'
<1>0. /\ pc[t] \in {"position", "posDiscount"} /\ UNCHANGED <<op, rcpt, archive>>
      /\ rcpt[t].positions \in Nat /\ idx[t] \in Nat
      /\ idx[t] <= rcpt[t].positions /\ paid[t] = {}
      /\ doc # NoDoc => Contents(doc) = Far(idx[t], {})
  <2>1. pc[t] \in {"position", "posDiscount"} /\ UNCHANGED <<op, rcpt, archive>>
    BY DEF Position, PositionsDone, PosDiscount, NotSent, Rejected, Went, local, pirit,
           AddPosition, PrintText
  <2>2. rcpt[t] \in ReceiptType
    BY <2>1, ReceiptAssumption
       DEF TypeOK, DataTypeOK, Sound, OpMatches, Exact, Filling, Live
  <2>3. QED
    BY <2>1, <2>2
       DEF TypeOK, DataTypeOK, ReceiptType, Sound, Progress, DocMatches, Exact, Far
<1>1. CASE NotSent(t)
  <2>1. Goto(t, AfterFailure(t)) /\ SetOk(t, FALSE) /\ UNCHANGED doc
    BY <1>1 DEF NotSent, Rejected, pirit
  <2>2. doc' # NoDoc => Contents(doc)' = Far(idx[t], {})
    BY <1>0, <2>1 DEF Contents
  <2>3. QED
    BY <1>0, <2>1, <2>2, SoundFailed DEF Exact
<1>2. ASSUME NEW o \in Outcomes, AddPosition(o), idx[t] < rcpt[t].positions, pc[t] = "position",
             idx' = [idx EXCEPT ![t] = IF Completed(o) THEN @ + 1 ELSE @],
             Went(t, o, IF idx[t] + 1 \in rcpt[t].discounted THEN "posDiscount"
                                                             ELSE "position"),
             UNCHANGED paid
      PROVE  Sound(t)'
  <2>1. doc' = IF Executed(o) THEN [doc EXCEPT !.pos = @ + 1] ELSE doc
    BY <1>2 DEF AddPosition
  <2>2. doc # NoDoc =>
          Contents(doc)' = IF Executed(o) THEN Far(idx[t] + 1, {}) ELSE Far(idx[t], {})
    BY <1>0, <2>1 DEF Contents, Far, TypeOK, DataTypeOK, PiritTypeOK, Docs
  <2>3. CASE Completed(o)
    <3>1. Executed(o) /\ pc'[t] \in {"position", "posDiscount"}
      <4>1. Executed(o)
        BY <2>3, CompletedOrNot
      <4>2. QED
        BY <1>2, <2>3, <4>1 DEF Went, Goto, TypeOK, DataTypeOK
    <3>2. idx'[t] = idx[t] + 1 /\ idx'[t] <= rcpt'[t].positions
      BY <1>0, <1>2, <2>3 DEF TypeOK, DataTypeOK
    <3>3. doc # NoDoc
      BY <1>2, <3>1 DEF AddPosition
    <3>4. Contents(doc)' = Far(idx[t] + 1, {})
      BY <2>2, <3>1, <3>3
    <3>5. QED
      BY <1>0, <1>2, <3>1, <3>2, <3>4
         DEF Sound, OpMatches, Progress, DocMatches, ArchiveMatches, Places, LockedPlaces,
             LockedOps, Filling, Live, Opening, Exact, Ending, DocumentOps, Far
  <2>4. CASE ~Completed(o)
    <3>1. Goto(t, AfterFailure(t)) /\ SetOk(t, FALSE)
      BY <1>2, <2>4, CompletedOrNot
    <3>2. doc' # NoDoc => doc # NoDoc
      BY <1>2, <2>1 DEF AddPosition
    <3>3. CASE Executed(o)
      <4>1. idx[t] + 1 \in Nat /\ idx[t] + 1 <= rcpt[t].positions
        BY <1>0, <1>2
      <4>2. doc' # NoDoc => Contents(doc)' = Far(idx[t] + 1, {})
        BY <2>2, <3>2, <3>3
      <4>3. QED
        BY <1>0, <3>1, <4>1, <4>2, SoundFailed DEF Exact
    <3>4. CASE ~Executed(o)
      BY <1>0, <2>2, <3>1, <3>2, <3>4, SoundFailed DEF Exact
    <3>5. QED
      BY <3>3, <3>4
  <2>5. QED
    BY <2>3, <2>4
<1>3. CASE Position(t)
  BY <1>1, <1>2, <1>3 DEF Position
<1>4. CASE PositionsDone(t)
  BY <1>0, <1>4
     DEF TypeOK, DataTypeOK, PositionsDone, Goto, local, pirit, Sound, OpMatches, Progress,
         DocMatches, ArchiveMatches, Places, LockedPlaces, LockedOps, Filling, Live, Opening,
         Exact, Ending, DocumentOps, Contents
<1>5. ASSUME NEW o \in Outcomes, PrintText(o), Went(t, o, "position"), UNCHANGED local
      PROVE  Sound(t)'
  <2>1. doc' # NoDoc => Contents(doc)' = Far(idx[t], {})
    BY <1>0, <1>5 DEF PrintText, Contents
  <2>2. CASE Completed(o)
    <3>1. Goto(t, "position")
      BY <1>5, <2>2, CompletedOrNot
    <3>2. QED
      BY <1>0, <1>5, <2>1, <3>1
         DEF TypeOK, DataTypeOK, PrintText, Goto, local, Sound, OpMatches, Progress,
             DocMatches, ArchiveMatches, Places, LockedPlaces, LockedOps, Filling, Live,
             Opening, Exact, Ending, DocumentOps, Far
  <2>3. CASE ~Completed(o)
    BY <1>0, <1>5, <2>1, <2>3, CompletedOrNot, SoundFailed DEF Exact
  <2>4. QED
    BY <2>2, <2>3
<1>6. CASE PosDiscount(t)
  BY <1>1, <1>5, <1>6 DEF PosDiscount
<1>7. QED
  BY <1>3, <1>4, <1>6

\* The payments, and the line of the discounts behind them.
LEMMA SoundPayments ==
  ASSUME TypeOK, NEW t \in Threads, Sound(t),
         Payment(t) \/ NoPayment(t) \/ PaymentsDone(t) \/ TotalDiscount(t)
  PROVE  Sound(t)'
<1>0. /\ pc[t] \in {"payment", "totalDiscount"} /\ UNCHANGED <<op, rcpt, archive>>
      /\ rcpt[t].positions \in Nat /\ idx[t] = rcpt[t].positions
      /\ paid[t] \subseteq Due(rcpt[t])
      /\ doc # NoDoc => Contents(doc) = Far(rcpt[t].positions, paid[t])
  <2>1. pc[t] \in {"payment", "totalDiscount"} /\ UNCHANGED <<op, rcpt, archive>>
    BY DEF Payment, NoPayment, PaymentsDone, TotalDiscount, NotSent, Rejected, Went, local,
           pirit, AddPayment, PrintText
  <2>2. rcpt[t] \in ReceiptType
    BY <2>1, ReceiptAssumption
       DEF TypeOK, DataTypeOK, Sound, OpMatches, Exact, Filling, Live
  <2>3. QED
    BY <2>1, <2>2 DEF ReceiptType, Sound, Progress, DocMatches, Exact, Far
<1>1. CASE NotSent(t)
  <2>1. Goto(t, AfterFailure(t)) /\ SetOk(t, FALSE) /\ UNCHANGED doc
    BY <1>1 DEF NotSent, Rejected, pirit
  <2>2. doc' # NoDoc => Contents(doc)' = Far(rcpt[t].positions, paid[t])
    BY <1>0, <2>1 DEF Contents
  <2>3. QED
    BY <1>0, <2>1, <2>2, SoundFailed DEF Exact
<1>2. ASSUME NEW p \in PayTypes, NEW o \in Outcomes, NextPayment(t, p), AddPayment(o, p),
             pc[t] = "payment",
             paid' = [paid EXCEPT ![t] = IF Completed(o) THEN @ \cup {p} ELSE @],
             Went(t, o, "payment"), UNCHANGED idx
      PROVE  Sound(t)'
  <2>0. p \in Due(rcpt[t])
    BY <1>2 DEF NextPayment
  <2>1. doc' = IF Executed(o) THEN [doc EXCEPT !.pays = @ \cup {p}] ELSE doc
    BY <1>2 DEF AddPayment
  <2>2. doc # NoDoc =>
          Contents(doc)' = IF Executed(o) THEN Far(rcpt[t].positions, paid[t] \cup {p})
                                          ELSE Far(rcpt[t].positions, paid[t])
    BY <1>0, <2>1 DEF Contents, Far, TypeOK, DataTypeOK, PiritTypeOK, Docs
  <2>3. CASE Completed(o)
    <3>1. Executed(o) /\ pc'[t] = "payment"
      <4>1. Executed(o)
        BY <2>3, CompletedOrNot
      <4>2. QED
        BY <1>2, <2>3, <4>1 DEF Went, Goto, TypeOK, DataTypeOK
    <3>2. paid'[t] = paid[t] \cup {p}
      BY <1>2, <2>3 DEF TypeOK, DataTypeOK
    <3>3. doc # NoDoc
      BY <1>2, <3>1 DEF AddPayment
    <3>4. Contents(doc)' = Far(rcpt[t].positions, paid[t] \cup {p})
      BY <2>2, <3>1, <3>3
    <3>5. QED
      BY <1>0, <1>2, <2>0, <3>1, <3>2, <3>4
         DEF Sound, OpMatches, Progress, DocMatches, ArchiveMatches, Places, LockedPlaces,
             LockedOps, Filling, Live, Opening, Exact, Ending, DocumentOps, Far
  <2>4. CASE ~Completed(o)
    <3>1. Goto(t, AfterFailure(t)) /\ SetOk(t, FALSE)
      BY <1>2, <2>4, CompletedOrNot
    <3>2. doc' # NoDoc => doc # NoDoc
      BY <1>2, <2>1 DEF AddPayment
    <3>3. paid[t] \cup {p} \subseteq Due(rcpt[t])
      BY <1>0, <2>0
    <3>4. CASE Executed(o)
      BY <1>0, <2>2, <3>1, <3>2, <3>3, <3>4, SoundFailed DEF Exact
    <3>5. CASE ~Executed(o)
      BY <1>0, <2>2, <3>1, <3>2, <3>5, SoundFailed DEF Exact
    <3>6. QED
      BY <3>4, <3>5
  <2>5. QED
    BY <2>3, <2>4
<1>3. CASE Payment(t)
  BY <1>1, <1>2, <1>3 DEF Payment
<1>4. CASE NoPayment(t)
  BY <1>1, <1>4 DEF NoPayment
<1>5. CASE PaymentsDone(t)
  <2>1. pc[t] = "payment" /\ paid[t] = Due(rcpt[t]) /\ UNCHANGED <<local, ok, events, pirit>>
    BY <1>0, <1>5 DEF PaymentsDone
  <2>2. CASE Goto(t, "totalDiscount")
    BY <1>0, <2>1, <2>2
       DEF TypeOK, DataTypeOK, Goto, local, pirit, Sound, OpMatches, Progress, DocMatches,
           ArchiveMatches, Places, LockedPlaces, LockedOps, Filling, Live, Opening, Exact,
           Ending, DocumentOps, Contents, Far
  <2>3. CASE Goto(t, AfterSuccess(t))
    BY <1>0, <2>1, <2>3, SoundWhole DEF pirit
  <2>4. QED
    BY <1>5, <2>2, <2>3 DEF PaymentsDone
<1>6. CASE TotalDiscount(t)
  <2>1. PICK o \in Outcomes : PrintText(o) /\ Went(t, o, AfterSuccess(t))
    BY <1>6 DEF TotalDiscount
  <2>2. UNCHANGED <<local, doc>> /\ paid[t] = Due(rcpt[t])
    BY <1>6, <2>1 DEF TotalDiscount, PrintText, Sound, Progress
  <2>3. CASE Completed(o)
    BY <1>0, <2>1, <2>2, <2>3, CompletedOrNot, SoundWhole
  <2>4. CASE ~Completed(o)
    <3>1. doc' # NoDoc => Contents(doc)' = Far(rcpt[t].positions, paid[t])
      BY <1>0, <2>2 DEF Contents
    <3>2. QED
      BY <1>0, <2>1, <2>4, <3>1, CompletedOrNot, SoundFailed DEF Exact
  <2>5. QED
    BY <2>3, <2>4
<1>7. QED
  BY <1>3, <1>4, <1>5, <1>6

\* The requisite, whose result replaces all before it, and the cash of insRes.
LEMMA SoundEnding ==
  ASSUME TypeOK, NEW t \in Threads, Sound(t), Requisite(t) \/ CashInOut(t)
  PROVE  Sound(t)'
<1> USE DEF TypeOK, DataTypeOK, PiritTypeOK, Goto, SetOk, local, Sound, OpMatches, Progress,
            DocMatches, ArchiveMatches, Places, LockedPlaces, LockedOps, Filling, Live,
            Opening, Exact, Ending, DocumentOps
<1>1. CASE (Requisite(t) \/ CashInOut(t)) /\ Goto(t, "cancel") /\ SetOk(t, FALSE)
  <2>1. pc[t] \in Filling /\ UNCHANGED <<op, rcpt, archive>>
    BY <1>1 DEF Requisite, CashInOut, PrintText, CashInOutDocument
  <2>2. QED
    BY <1>1, <2>1, SoundFailure
<1>2. CASE Requisite(t) /\ Goto(t, "close")
  BY <1>2 DEF Requisite, PrintText, Contents
<1>3. CASE CashInOut(t) /\ Goto(t, "close")
  <2>1. /\ CashInOutDocument("ok") /\ UNCHANGED local
        /\ pc[t] = "cashInOut" /\ pc'[t] = "close" /\ op[t] = "insRes"
    BY <1>3 DEF CashInOut
  <2>2. rcpt[t] = NoReceipt /\ Fiscal(NoReceipt) = {WantedCash}
    BY <2>1 DEF Fiscal
  <2>3. doc # NoDoc /\ doc' = [doc EXCEPT !.cash = TRUE] /\ UNCHANGED archive
    BY <2>1 DEF CashInOutDocument, Executed
  <2>4. Contents(doc)' = WantedCash
    BY <2>1, <2>3 DEF Contents, WantedCash, Docs
  <2>5. QED
    BY <2>1, <2>2, <2>3, <2>4
<1>4. QED
  BY <1>1, <1>2, <1>3 DEF Requisite, CashInOut

\* Closing makes fiscal what the call was asked for.
LEMMA SoundClose ==
  ASSUME TypeOK, DocumentInv, NEW t \in Threads, Sound(t), Close(t)
  PROVE  Sound(t)'
<1>1. /\ pc[t] = "close" /\ archive[t] = NoDoc /\ op[t] \in DocumentOps
      /\ UNCHANGED <<op, rcpt>>
  BY DEF Close, Rejected, local, Sound, ArchiveMatches, OpMatches, Filling, Live
<1>2. CASE Rejected(t, "cancel")
  BY <1>1, <1>2, SoundFailure DEF Rejected, pirit, Filling
<1>3. ASSUME NEW o \in Outcomes,
             CloseDocument(o, t), SetOk(t, Completed(o)),
             Goto(t, IF Completed(o) THEN "return" ELSE "cancel"),
             Note(t, IF Completed(o) THEN {}
                     ELSE IF o = "lost" THEN {"failed", "closeLost"} ELSE {"failed"})
      PROVE  Sound(t)'
  <2>1. CASE o = "refused"
    <3>1. Completed(o) = FALSE
      BY <2>1 DEF Completed
    <3>2. UNCHANGED archive
      BY <1>3, <2>1 DEF CloseDocument, Executed
    <3>3. QED
      BY <1>1, <1>3, <3>1, <3>2, SoundFailure DEF Filling
  <2>2. CASE o # "refused"
    <3>1. doc # NoDoc /\ archive'[t] = doc /\ doc' = NoDoc
      BY <1>3, <2>2 DEF CloseDocument, Executed, TypeOK, DataTypeOK, PiritTypeOK
    <3>2. doc.owner = t
      BY <1>1, <3>1 DEF DocumentInv, LiveIsOwner, Live, Filling
    <3>3. Contents(doc) \in Fiscal(rcpt[t])
      BY <1>1, <3>1 DEF Sound, DocMatches, Ending
    <3>4. /\ pc'[t] \in {"return", "cancel"}
          /\ pc'[t] = "cancel" => ~ok'[t]
          /\ ~ok'[t] => "closeLost" \in events'[t]
      BY <1>3, <2>2
         DEF Completed, Outcomes, Goto, SetOk, Note, TypeOK, DataTypeOK
    <3>5. QED
      BY <1>1, <3>1, <3>2, <3>3, <3>4
         DEF Sound, OpMatches, Progress, DocMatches, ArchiveMatches, Places, LockedPlaces,
             LockedOps, Filling, Live, Opening, Exact, Ending, DocumentOps, Contents
  <2>3. QED
    BY <2>1, <2>2
<1>4. QED
  BY <1>2, <1>3 DEF Close

\* A call outside the mutex.
LEMMA SoundShort ==
  ASSUME TypeOK, NEW t \in Threads, Sound(t),
         \/ FsStatus(t) \/ GetStatusBIOS(t) \/ CancelDoc(t) \/ CancelDocBIOS(t)
         \/ CbCheck(t) \/ CbCancel(t) \/ InitConnection(t) \/ SetConnected(t)
  PROVE  Sound(t)'
<1>1. /\ UNCHANGED <<local, archive, events>>
      /\ op[t] \in ShortOps
      /\ pc'[t] \in {"idle", "cbCheck", "cbCancel"}
      /\ pc'[t] # "idle" => op[t] = "cancelDocBIOS"
  BY DEF TypeOK, DataTypeOK, Sound, OpMatches, Goto, FsStatus, GetStatusBIOS, CancelDoc,
         CancelDocBIOS, CbCheck, CbCancel, InitConnection, SetConnected, Short, FsStatusGet,
         RfCancelDoc, CancelDocument, ShortOps, pirit
<1>2. QED
  BY <1>1
     DEF local, Sound, OpMatches, Progress, DocMatches, ArchiveMatches, Places, LockedPlaces,
         Filling, Live, Opening, Exact, Ending, DocumentOps, ShortOps

LEMMA ContentInit == Init => ContentInv
<1> SUFFICES ASSUME Init, NEW t \in Threads PROVE Sound(t)
  BY ContentIsSound
<1>1. QED
  BY DEF Init, PiritInit, Sound, OpMatches, Progress, DocMatches, ArchiveMatches, Places,
         LockedPlaces, Filling, Live, Opening, Exact, Ending, DocumentOps

LEMMA ContentRestart == Restart => ContentInv'
<1> SUFFICES ASSUME Restart, NEW t \in Threads PROVE Sound(t)'
  BY DEF ContentInv, ArchivedIsWhole, Sound
<1>1. QED
  BY DEF Restart, Sound, OpMatches, Progress, DocMatches, ArchiveMatches, Places,
         LockedPlaces, Filling, Live, Opening, Exact, Ending, DocumentOps

LEMMA ContentStep == TypeOK /\ DocumentInv /\ ContentInv /\ [Next]_vars => ContentInv'
<1> SUFFICES ASSUME TypeOK, DocumentInv, ContentInv, [Next]_vars
             PROVE  ContentInv'
  OBVIOUS
<1>1. CASE Restart
  BY <1>1, ContentRestart
<1>2. ASSUME NEW t \in Threads, ThreadStep(t)
      PROVE  ContentInv'
  <2>1. Keeps(t)
    BY <1>2, InsideKeeps, OutsideKeeps DEF ThreadStep
  <2>2. Sound(t)
    BY ContentIsSound
  <2>3. Sound(t)'
    <3>1. CASE (\E o \in Ops : Call(t, o) \/ CallNull(t, o)) \/ Outside(t)
      BY <2>2, <3>1, SoundCall, SoundShort DEF Outside
    <3>2. CASE Inside(t)
      BY <2>2, <3>2, SoundCall, SoundOpen, SoundPositions, SoundPayments, SoundEnding,
         SoundClose
         DEF Inside, Fill
    <3>3. QED
      BY <1>2, <3>1, <3>2 DEF ThreadStep
  <2>4. \A s \in Threads : Sound(s)'
    BY <2>1, <2>3, SoundOthers
  <2>5. QED
    BY <2>4 DEF ContentInv, ArchivedIsWhole, Sound
<1>3. CASE UNCHANGED vars
  BY <1>3
     DEF vars, ContentInv, ArchivedIsWhole, OpMatches, Progress, DocMatches, ArchiveMatches
<1>4. QED
  BY <1>1, <1>2, <1>3 DEF Next

LEMMA ContentInvariant == Spec => []ContentInv
<1>1. TypeOK /\ DocumentInv /\ ContentInv /\ [Next]_vars => ContentInv'
  BY ContentStep
<1>2. QED
  BY ContentInit, <1>1, TypeCorrect, DocumentInvariant, PTL DEF Spec

\* Whatever fails, and whatever the other threads do, a document that
\* receipt_send_rf_bios or insRes makes fiscal has all the positions and payments it
\* was asked for and no others; a receipt with an additional requisite, of which a
\* failed command is forgotten, has a beginning of them.
THEOREM FiscalIsWhole == Spec => []ArchivedIsWhole
<1>1. ContentInv => ArchivedIsWhole
  BY DEF ContentInv
<1>2. QED
  BY <1>1, ContentInvariant, PTL

\* The result of those calls tells whether the document is in the fiscal memory,
\* unless the answer to the closing command was lost.
THEOREM VerdictCorrect == Spec => []VerdictMatchesArchive
<1>1. ContentInv => VerdictMatchesArchive
  BY DEF ContentInv, ArchiveMatches, VerdictMatchesArchive
<1>2. QED
  BY <1>1, ContentInvariant, PTL

\* Only the thread that fills a document changes or removes it, but for the death of
\* the application and for cancelDocBIOS, which cancels without the mutex.
THEOREM OnlyItsThread == Spec => Undisturbed
<1>1. ASSUME TypeOK, DocumentInv, NEW u \in Threads, ThreadStep(u),
             NEW t \in Threads, doc # NoDoc, doc.owner = t, doc' # doc
      PROVE  \/ <<pc[t], idx[t], paid[t]>>' # <<pc[t], idx[t], paid[t]>>
             \/ \E v \in Threads : pc[v] = "cbCancel" /\ pc'[v] = "idle"
  <2>1. mutex = t /\ pc[t] \in Live \cup {"return"}
    BY <1>1 DEF DocumentInv, OwnerIsLive, MutexMatches, Live, LockedPlaces, Places, Filling
  <2>2. CASE \E o \in Ops : Call(u, o) \/ CallNull(u, o)
    BY <1>1, <2>2 DEF Call, CallNull, Fresh
  <2>3. CASE Outside(u)
    <3>1. CASE CbCancel(u)
      BY <1>1, <3>1 DEF CbCancel, Goto, TypeOK, DataTypeOK
    <3>2. CASE BriefLock
      BY <1>1, <2>1, <3>2, PiritAssumption DEF BriefLock
    <3>3. CASE ~CbCancel(u) /\ ~BriefLock
      BY <1>1, <2>3, <3>3
         DEF Outside, Enter, EnterFails, FsStatus, FsStatusGet, GetStatusBIOS,
             CancelDoc, CancelDocBIOS, CbCheck, InitConnection, SetConnected, pirit
    <3>4. QED
      BY <3>1, <3>2, <3>3
  <2>4. CASE Inside(u)
    <3>1. u = t
      <4>1. pc[u] \in LockedPlaces
        BY <2>4
           DEF Inside, Fill, PreCancel, Open, Position, PositionsDone, PosDiscount, Payment,
               NoPayment, PaymentsDone, TotalDiscount, Requisite, CashInOut, Close, Cancel,
               Command, Return, LockedPlaces, Places
      <4>2. QED
        BY <1>1, <2>1, <4>1 DEF DocumentInv, MutexMatches
    <3>2. CASE Position(t)
      <4>1. PICK o \in Outcomes :
              /\ Went(t, o, IF idx[t] + 1 \in rcpt[t].discounted THEN "posDiscount"
                                                                 ELSE "position")
              /\ idx' = [idx EXCEPT ![t] = IF Completed(o) THEN @ + 1 ELSE @]
        BY <1>1, <3>2 DEF Position, NotSent, Rejected, pirit
      <4>2. Completed(o) => idx'[t] # idx[t]
        BY <1>1, <4>1 DEF TypeOK, DataTypeOK
      <4>3. ~Completed(o) => pc'[t] # pc[t]
        BY <1>1, <3>2, <4>1 DEF Position, Went, Goto, AfterFailure, TypeOK, DataTypeOK
      <4>4. QED
        BY <4>2, <4>3
    <3>3. CASE Payment(t)
      <4>1. PICK p \in PayTypes, o \in Outcomes :
              /\ p \notin paid[t] /\ Went(t, o, "payment")
              /\ paid' = [paid EXCEPT ![t] = IF Completed(o) THEN @ \cup {p} ELSE @]
        BY <1>1, <3>3 DEF Payment, NextPayment, NotSent, Rejected, pirit
      <4>2. Completed(o) => paid'[t] # paid[t]
        BY <1>1, <4>1 DEF TypeOK, DataTypeOK
      <4>3. ~Completed(o) => pc'[t] # pc[t]
        BY <1>1, <3>3, <4>1 DEF Payment, Went, Goto, AfterFailure, TypeOK, DataTypeOK
      <4>4. QED
        BY <4>2, <4>3
    <3>4. CASE ~Position(t) /\ ~Payment(t)
      <4>1. pc'[t] # pc[t]
        BY <1>1, <2>4, <3>1, <3>4
           DEF Inside, Fill, PreCancel, AfterPreCancel, Open, AfterOpen, PositionsDone,
               PosDiscount, NoPayment, PaymentsDone, TotalDiscount, Requisite, CashInOut,
               Close, Cancel, Command, Return, Went, NotSent, Rejected, AfterFailure,
               AfterSuccess, PrintText, OtherCommand, Goto, pirit, TypeOK, DataTypeOK
      <4>2. QED
        BY <4>1
    <3>5. QED
      BY <3>1, <3>2, <3>3, <3>4
  <2>5. QED
    BY <1>1, <2>2, <2>3, <2>4 DEF ThreadStep
<1>2. TypeOK /\ DocumentInv /\ [Next]_vars =>
        [ \A t \in Threads :
            doc # NoDoc /\ doc.owner = t /\ doc' # doc =>
              \/ <<pc[t], idx[t], paid[t]>>' # <<pc[t], idx[t], paid[t]>>
              \/ Restart
              \/ \E u \in Threads : pc[u] = "cbCancel" /\ pc'[u] = "idle" ]_vars
  BY <1>1 DEF Next, vars
<1>3. QED
  BY <1>2, TypeCorrect, DocumentInvariant, PTL DEF Spec, Undisturbed

-----------------------------------------------------------------------------
(* A failed command                                                         *)

FailureEnds(t) ==
  op[t] \in DocumentOps /\ "failed" \in events[t] =>
    \/ op[t] = "receipt" /\ rcpt[t].addRecReq
    \/ pc[t] \in {"cancel", "return", "idle"} /\ ~ok[t]

\* A command of the filling, whose call goes on only if nothing of it has failed.
LEMMA FailureFill ==
  ASSUME TypeOK, NEW t \in Threads, OpMatches(t), FailureEnds(t), Fill(t)
  PROVE  FailureEnds(t)'
<1> USE DEF TypeOK, DataTypeOK, OpMatches, Exact, Filling, Live, Goto, SetOk, Note, local
<1>1. op' = op /\ rcpt' = rcpt /\ pc[t] \in Exact \cup {"requisite"}
  BY DEF Fill, Position, PositionsDone, PosDiscount, Payment, NoPayment, PaymentsDone,
         TotalDiscount, Requisite, CashInOut, NotSent, Rejected
<1>2. CASE op[t] = "receipt" /\ rcpt[t].addRecReq
  BY <1>1, <1>2 DEF FailureEnds
<1>3. CASE ~(op[t] = "receipt" /\ rcpt[t].addRecReq)
  <2>1. "failed" \notin events[t] \/ op[t] \notin DocumentOps
    BY <1>1, <1>3 DEF FailureEnds
  <2>2. ASSUME NEW o \in Outcomes, NEW next, Went(t, o, next), pc[t] # "cashInOut"
        PROVE  FailureEnds(t)'
    <3>1. ~rcpt[t].addRecReq
      BY <1>1, <1>3, <2>2
    <3>2. CASE Completed(o)
      BY <1>1, <2>1, <2>2, <3>2 DEF Went, FailureEnds
    <3>3. CASE ~Completed(o)
      BY <1>1, <2>2, <3>1, <3>3 DEF Went, AfterFailure, FailureEnds
    <3>4. QED
      BY <3>2, <3>3
  <2>3. ASSUME NotSent(t), pc[t] # "cashInOut" PROVE FailureEnds(t)'
    <3>1. ~rcpt[t].addRecReq
      BY <1>1, <1>3, <2>3
    <3>2. QED
      BY <1>1, <2>3, <3>1 DEF NotSent, Rejected, AfterFailure, FailureEnds
  <2>4. ASSUME events' = events PROVE FailureEnds(t)'
    BY <1>1, <2>1, <2>4 DEF FailureEnds
  <2>5. CASE Position(t) \/ PosDiscount(t) \/ Payment(t) \/ NoPayment(t) \/ TotalDiscount(t)
    BY <2>2, <2>3, <2>5 DEF Position, PosDiscount, Payment, NoPayment, TotalDiscount
  <2>6. CASE PositionsDone(t) \/ PaymentsDone(t)
    BY <2>4, <2>6 DEF PositionsDone, PaymentsDone
  <2>7. ~Requisite(t)
    BY <1>3 DEF Requisite
  <2>8. CASE CashInOut(t)
    <3>1. PICK o \in Outcomes :
            /\ SetOk(t, o = "ok") /\ Goto(t, IF o = "ok" THEN "close" ELSE "cancel")
            /\ Note(t, IF o = "ok" THEN {} ELSE {"failed"})
      BY <2>8 DEF CashInOut
    <3>2. CASE o = "ok"
      BY <2>4, <3>1, <3>2
    <3>3. CASE o # "ok"
      BY <3>1, <3>3 DEF FailureEnds
    <3>4. QED
      BY <3>2, <3>3
  <2>9. QED
    BY <2>5, <2>6, <2>7, <2>8 DEF Fill
<1>4. QED
  BY <1>2, <1>3

\* The other steps of a thread.
LEMMA FailureStep ==
  ASSUME TypeOK, NEW t \in Threads, OpMatches(t), FailureEnds(t), ThreadStep(t)
  PROVE  FailureEnds(t)'
<1> USE DEF TypeOK, DataTypeOK, OpMatches, Goto, SetOk, Note, local, FailureEnds
<1>1. CASE \E o \in Ops : Call(t, o) \/ CallNull(t, o)
  BY <1>1 DEF Call, CallNull, Fresh
<1>2. CASE Enter(t) \/ EnterFails(t) \/ PreCancel(t) \/ Command(t) \/ Open(t)
  BY <1>2 DEF Enter, EnterFails, PreCancel, Command, Open, Rejected
<1>3. CASE Close(t)
  BY <1>3 DEF Close, Rejected
<1>4. CASE Cancel(t) \/ Return(t)
  BY <1>4 DEF Cancel, Return
<1>5. CASE FsStatus(t) \/ GetStatusBIOS(t) \/ CancelDoc(t) \/ CancelDocBIOS(t)
           \/ InitConnection(t) \/ SetConnected(t)
  BY <1>5
     DEF FsStatus, GetStatusBIOS, CancelDoc, CancelDocBIOS, InitConnection, SetConnected,
         Short, DocumentOps
<1>6. CASE CbCheck(t) \/ CbCancel(t)
  BY <1>6 DEF CbCheck, CbCancel, DocumentOps
<1>7. QED
  BY <1>1, <1>2, <1>3, <1>4, <1>5, <1>6, FailureFill DEF ThreadStep, Inside, Outside

\* A call one of whose commands has failed is answered with false, unless the receipt
\* has an additional requisite: the success of the requisite and of the closing is then
\* all that the answer tells (FailureCancels).
THEOREM FailuresReported == Spec => []FailureIsReported
<1>1. Init => FailureEndsIt
  BY DEF Init, FailureEndsIt
<1>2. TypeOK /\ DocumentInv /\ ContentInv /\ FailureEndsIt /\ [Next]_vars => FailureEndsIt'
  <2> SUFFICES ASSUME TypeOK, DocumentInv, ContentInv, FailureEndsIt, [Next]_vars,
                      NEW s \in Threads
               PROVE  FailureEnds(s)'
    BY DEF FailureEndsIt, FailureEnds
  <2>1. FailureEnds(s) /\ OpMatches(s)
    BY DEF FailureEndsIt, FailureEnds, ContentInv
  <2>2. CASE Restart
    BY <2>2 DEF Restart, FailureEnds
  <2>3. CASE UNCHANGED vars
    BY <2>1, <2>3 DEF vars, FailureEnds
  <2>4. ASSUME NEW t \in Threads, ThreadStep(t) PROVE FailureEnds(s)'
    <3>1. CASE s = t
      BY <2>1, <2>4, <3>1, FailureStep
    <3>2. CASE s # t
      <4>1. Keeps(t)
        BY <2>4, InsideKeeps, OutsideKeeps DEF ThreadStep
      <4>2. QED
        BY <2>1, <3>2, <4>1 DEF Keeps, FailureEnds
    <3>3. QED
      BY <3>1, <3>2
  <2>5. QED
    BY <2>2, <2>3, <2>4 DEF Next
<1>3. FailureEndsIt => FailureIsReported
  BY DEF FailureEndsIt, FailureIsReported
<1>4. QED
  BY <1>1, <1>2, <1>3, TypeCorrect, DocumentInvariant, ContentInvariant, PTL DEF Spec

-----------------------------------------------------------------------------
(* The refinement of FiscalCall                                             *)

\* The abstract variables, as they are read off the class.
Fiscals == [t \in Threads |-> IF archive[t] = NoDoc THEN NoDoc ELSE Contents(archive[t])]
Verdicts == [t \in Threads |-> pc[t] = "idle" /\ op[t] \in DocumentOps /\ ok[t]]
Pending == {t \in Threads : pc[t] # "idle" /\ op[t] \in DocumentOps}

\* The steps that the callers see: a call, the closing that the printer executed,
\* and the return.  All others leave what the abstract variables are made of.
Quiet ==
  /\ UNCHANGED <<op, rcpt, archive>>
  /\ \A t \in Threads : op[t] \in DocumentOps =>
       /\ pc[t] = "idle" <=> pc'[t] = "idle"
       /\ pc[t] = "idle" => ok'[t] = ok[t]

LEMMA QuietStutters == Quiet => UNCHANGED Abstract!vars
<1> SUFFICES ASSUME Quiet PROVE UNCHANGED Abstract!vars
  OBVIOUS
<1>1. UNCHANGED Pending
  BY DEF Quiet, Pending
<1>2. UNCHANGED Verdicts
  BY DEF Quiet, Verdicts
<1>3. UNCHANGED Fiscals
  BY DEF Quiet, Fiscals, Contents
<1>4. QED
  BY <1>1, <1>2, <1>3 DEF Abstract!vars, Quiet, Pending, Verdicts, Fiscals

LEMMA ShortIsQuiet ==
  ASSUME TypeOK, ContentInv, NEW t \in Threads,
         \/ FsStatus(t) \/ GetStatusBIOS(t) \/ CancelDoc(t) \/ CancelDocBIOS(t)
         \/ CbCheck(t) \/ CbCancel(t) \/ InitConnection(t) \/ SetConnected(t)
  PROVE  Quiet
<1>1. Keeps(t)
  BY OutsideKeeps DEF Outside
<1>2. UNCHANGED <<local, archive>> /\ op[t] \in ShortOps
  BY DEF ContentInv, OpMatches, FsStatus, GetStatusBIOS, CancelDoc, CancelDocBIOS, CbCheck,
         CbCancel, InitConnection, SetConnected, Short, FsStatusGet, RfCancelDoc,
         CancelDocument, ShortOps, pirit
<1>3. QED
  BY <1>1, <1>2 DEF Keeps, Quiet, local, ShortOps, DocumentOps

LEMMA WorkIsQuiet ==
  ASSUME TypeOK, DocumentInv, NEW t \in Threads,
         \/ Enter(t) \/ EnterFails(t) \/ PreCancel(t) \/ Open(t) \/ Fill(t)
         \/ Cancel(t) \/ Command(t)
  PROVE  Quiet
<1>1. Keeps(t)
  BY InsideKeeps, OutsideKeeps DEF Inside, Outside
<1>2. /\ UNCHANGED <<op, rcpt, archive>>
      /\ pc[t] # "idle" /\ pc'[t] # "idle"
  <2> USE DEF TypeOK, DataTypeOK, Goto, local, pirit, NotSent, Rejected, Went, AfterFailure,
              AfterSuccess, PrintText
  <2>1. CASE Enter(t) \/ EnterFails(t) \/ PreCancel(t) \/ Cancel(t) \/ Command(t)
    BY <2>1 DEF Enter, EnterFails, PreCancel, AfterPreCancel, Cancel, RfCancelDoc,
                CancelDocument, Command, OtherCommand
  <2>2. CASE Open(t)
    BY <2>2 DEF Open, AfterOpen, OpenDocument
  <2>3. CASE Position(t) \/ PositionsDone(t) \/ PosDiscount(t)
    BY <2>3 DEF Position, PositionsDone, PosDiscount, AddPosition
  <2>4. CASE Payment(t) \/ NoPayment(t) \/ PaymentsDone(t)
    BY <2>4 DEF Payment, NoPayment, PaymentsDone, AddPayment
  <2>5. CASE TotalDiscount(t) \/ Requisite(t) \/ CashInOut(t)
    BY <2>5 DEF TotalDiscount, Requisite, CashInOut, CashInOutDocument
  <2>6. QED
    BY <2>1, <2>2, <2>3, <2>4, <2>5 DEF Fill
<1>3. QED
  BY <1>1, <1>2 DEF Keeps, Quiet

\* A call of a document is Ask, any other call and a null pointer are Pass.
LEMMA FreshRefines ==
  ASSUME TypeOK, NEW t \in Threads, NEW o \in Ops, NEW r \in Receipts \cup {NoReceipt},
         Fresh(t, o, r), pc[t] = "idle",
         \/ Goto(t, "enter") /\ (o \notin DocumentOps => r = NoReceipt)
         \/ pc' = pc /\ r = NoReceipt
  PROVE  Abstract!Next
<1> USE DEF TypeOK, DataTypeOK, Fresh, Goto, SetOk
<1>1. Fiscals' = [Fiscals EXCEPT ![t] = NoDoc]
  BY DEF PiritTypeOK, Contents, Fiscals
<1>2. Verdicts' = [Verdicts EXCEPT ![t] = FALSE]
  BY DEF Verdicts
<1>3. rcpt' = [rcpt EXCEPT ![t] = r]
  OBVIOUS
<1>4. CASE Goto(t, "enter") /\ o \in DocumentOps
  <2>1. t \notin Pending /\ Pending' = Pending \cup {t}
    BY <1>4 DEF Pending
  <2>2. Abstract!Ask(t, r)
    BY <1>1, <1>2, <1>3, <2>1
       DEF Abstract!Ask, Abstract!Reset, Pending, Verdicts, Fiscals
  <2>3. QED
    BY <2>2 DEF Abstract!Next
<1>5. CASE pc' = pc \/ o \notin DocumentOps
  <2>1. r = NoReceipt
    BY <1>5
  <2>2. t \notin Pending /\ Pending' = Pending
    BY <1>5 DEF Pending
  <2>3. Abstract!Pass(t)
    BY <1>1, <1>2, <1>3, <2>1, <2>2
       DEF Abstract!Pass, Abstract!Reset, Pending, Verdicts, Fiscals
  <2>4. QED
    BY <2>3 DEF Abstract!Next
<1>6. QED
  BY <1>4, <1>5

LEMMA CallRefines ==
  ASSUME TypeOK, NEW t \in Threads, NEW o \in Ops, Call(t, o) \/ CallNull(t, o)
  PROVE  Abstract!Next
<1>1. CASE Call(t, o)
  <2>1. PICK r \in Receipts \cup {NoReceipt} :
          Fresh(t, o, r) /\ (o # "receipt" => r = NoReceipt)
    BY <1>1 DEF Call
  <2>2. pc[t] = "idle" /\ Goto(t, "enter")
    BY <1>1 DEF Call
  <2>3. QED
    BY <2>1, <2>2, FreshRefines DEF DocumentOps
<1>2. CASE CallNull(t, o)
  BY <1>2, FreshRefines DEF CallNull
<1>3. QED
  BY <1>1, <1>2

\* The return of a document call is Answer, that of another one nothing.
LEMMA ReturnRefines ==
  ASSUME TypeOK, DocumentInv, ContentInv, NEW t \in Threads, Return(t)
  PROVE  [Abstract!Next]_Abstract!vars
<1> USE DEF TypeOK, DataTypeOK, Return, Goto
<1>1. /\ pc[t] = "return" /\ pc' = [pc EXCEPT ![t] = "idle"]
      /\ UNCHANGED <<op, rcpt, ok, archive>>
  BY DEF local
<1>2. CASE op[t] \notin DocumentOps
  BY <1>1, <1>2, QuietStutters DEF Quiet
<1>3. CASE op[t] \in DocumentOps
  <2>1. ok[t] => archive[t] # NoDoc
    BY <1>1, <1>3 DEF ContentInv, ArchiveMatches
  <2>2. Fiscals' = Fiscals
    BY <1>1 DEF Contents, Fiscals
  <2>3. PICK b \in BOOLEAN : ok[t] = b
    OBVIOUS
  <2>4. Verdicts' = [Verdicts EXCEPT ![t] = b]
    BY <1>1, <1>3, <2>3 DEF Verdicts
  <2>5. t \in Pending /\ Pending' = Pending \ {t}
    BY <1>1, <1>3 DEF Pending
  <2>6. b => Fiscals[t] # NoDoc
    BY <2>1, <2>3, ReceiptAssumption DEF PiritTypeOK, Docs, Contents, Fiscals
  <2>7. Abstract!Answer(t, b)
    BY <1>1, <2>2, <2>4, <2>5, <2>6 DEF Abstract!Answer, Pending, Verdicts, Fiscals
  <2>8. QED
    BY <2>7 DEF Abstract!Next
<1>4. QED
  BY <1>2, <1>3

\* The closing that the printer executes is Commit.
LEMMA CloseRefines ==
  ASSUME TypeOK, DocumentInv, ContentInv, NEW t \in Threads, Close(t)
  PROVE  [Abstract!Next]_Abstract!vars
<1> USE DEF TypeOK, DataTypeOK
<1>1. /\ pc[t] = "close" /\ op[t] \in DocumentOps /\ archive[t] = NoDoc
      /\ pc'[t] \in {"return", "cancel"} /\ UNCHANGED <<op, rcpt>>
  BY DEF ContentInv, OpMatches, ArchiveMatches, Filling, Live, Close, Rejected, Goto, local
<1>2. Keeps(t)
  BY InsideKeeps DEF Inside
<1>3. CASE archive' = archive
  BY <1>1, <1>2, <1>3, QuietStutters DEF Quiet, Keeps
<1>4. CASE archive' # archive
  <2>1. archive' = [archive EXCEPT ![t] = doc] /\ doc # NoDoc
    BY <1>4 DEF Close, Rejected, CloseDocument, Executed, pirit
  <2>2. Contents(doc) \in Fiscal(rcpt[t])
    BY <1>1, <2>1 DEF ContentInv, DocMatches, Ending
  <2>3. Fiscals[t] = NoDoc /\ Fiscals' = [Fiscals EXCEPT ![t] = Contents(doc)]
    BY <1>1, <2>1 DEF PiritTypeOK, Contents, Fiscals
  <2>4. Verdicts' = Verdicts
    BY <1>1, <1>2 DEF Keeps, Verdicts
  <2>5. t \in Pending /\ Pending' = Pending
    BY <1>1, <1>2 DEF Keeps, Pending
  <2>6. Abstract!Commit(t)
    BY <1>1, <2>2, <2>3, <2>4, <2>5 DEF Abstract!Commit, Pending, Verdicts, Fiscals
  <2>7. QED
    BY <2>6 DEF Abstract!Next
<1>5. QED
  BY <1>3, <1>4

\* The death of the application is Crash.
LEMMA RestartRefines == Restart => Abstract!Next
BY DEF Restart, DocumentOps, Abstract!Next, Abstract!Crash

LEMMA InitRefines == Init => Abstract!Init
BY DEF Init, PiritInit, DocumentOps, Abstract!Init

\* The calls of class BIOS implement the atomic calls of FiscalCall: each makes at most
\* one document fiscal, while it is under way, with contents that its request accounts
\* for, and answers true from a fiscal one only.
THEOREM Refinement == Spec => AbstractSpec
<1>1. TypeOK /\ DocumentInv /\ ContentInv /\ [Next]_vars => [Abstract!Next]_Abstract!vars
  <2> SUFFICES ASSUME TypeOK, DocumentInv, ContentInv, [Next]_vars
               PROVE  [Abstract!Next]_Abstract!vars
    OBVIOUS
  <2>1. CASE Restart
    BY <2>1, RestartRefines
  <2>2. ASSUME NEW t \in Threads, ThreadStep(t)
        PROVE  [Abstract!Next]_Abstract!vars
    BY <2>2, CallRefines, ReturnRefines, CloseRefines, WorkIsQuiet, ShortIsQuiet,
       QuietStutters
       DEF ThreadStep, Inside, Outside
  <2>3. CASE UNCHANGED vars
    BY <2>3, QuietStutters DEF vars, Quiet
  <2>4. QED
    BY <2>1, <2>2, <2>3 DEF Next
<1>2. QED
  BY <1>1, InitRefines, TypeCorrect, DocumentInvariant, ContentInvariant, PTL
     DEF Spec, AbstractSpec, Abstract!Spec

=============================================================================
