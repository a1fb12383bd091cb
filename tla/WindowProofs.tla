---------------------------- MODULE WindowProofs ----------------------------
(***************************************************************************)
(* What the printer's buttons of MainWindow guarantee for any number of    *)
(* positions and strings: type correctness, whose document the receipt     *)
(* button makes fiscal and why one may be left between two clicks.         *)
(***************************************************************************)
EXTENDS Window, TLAPS

\* Whose document is where the handler is, and how far it is filled.
Mine == doc.owner = Gui /\ doc.pos \in 0..Positions

ClickInv ==
  /\ pc \in {"position", "payment"} => button = "receipt"
  /\ pc = "text" => button = "serviceDoc"
  /\ pc \in {"position", "payment", "close", "return"} /\ button = "receipt" =>
       i \in 0..Positions
  /\ pc = "open" => i = 0
  /\ pc = "position" => i < Positions
  /\ pc = "position" /\ doc # NoDoc => Mine /\ doc.pos <= i /\ doc.pays = {}
  /\ pc = "payment" /\ doc # NoDoc => Mine /\ doc.pos > 0 /\ doc.pays = {}
  /\ pc = "close" /\ button = "receipt" /\ doc # NoDoc =>
       Mine /\ doc.pos > 0 /\ doc.pays = {PayType}
  /\ archive[Gui] # NoDoc => pc \in {"return", "idle"}
  /\ pc \in {"idle", "command", "open", "return"} /\ doc # NoDoc => leak # {}

LEMMA TypeInit == Init => TypeOK
BY PiritAssumption, WindowAssumption DEF Init, TypeOK, PiritInit, PiritTypeOK

LEMMA HandlerPirit ==
  ASSUME PiritTypeOK, Handler \/ Restart \/ (\E b \in Buttons : Press(b))
  PROVE  PiritTypeOK'
<1> USE PiritAssumption, WindowAssumption
    DEF PiritTypeOK, Docs, pirit
<1>1. CASE Command \/ Return \/ Restart \/ (\E b \in Buttons : Press(b)) \/ StringsDone
  BY <1>1 DEF Command, OtherCommand, Return, Restart, Press, StringsDone
<1>2. CASE OpenReceipt \/ OpenService
  <2>1. PICK o \in Outcomes : OpenDocument(o, Gui)
    BY <1>2 DEF OpenReceipt, OpenService
  <2>2. EmptyDoc(Gui) \in Docs
    BY DEF EmptyDoc
  <2>3. QED
    BY <2>1, <2>2 DEF OpenDocument
<1>3. CASE AddPositions
  BY <1>3 DEF AddPositions, AddPosition
<1>4. CASE AddThePayment
  BY <1>4 DEF AddThePayment, AddPayment
<1>5. CASE PrintStrings
  BY <1>5 DEF PrintStrings, PrintText
<1>6. CASE CloseIt
  BY <1>6 DEF CloseIt, CloseDocument
<1>7. QED
  BY <1>1, <1>2, <1>3, <1>4, <1>5, <1>6 DEF Handler

LEMMA TypeStep == TypeOK /\ ClickInv /\ [Next]_vars => TypeOK'
<1> SUFFICES ASSUME TypeOK, ClickInv, [Next]_vars
             PROVE  TypeOK'
  OBVIOUS
<1> USE PiritAssumption, WindowAssumption DEF TypeOK
<1>1. CASE Handler
  <2>1. PiritTypeOK'
    BY <1>1, HandlerPirit
  <2>2. CASE Command \/ Return \/ StringsDone \/ OpenService \/ CloseIt \/ PrintStrings
    BY <2>1, <2>2
       DEF Command, Return, StringsDone, OpenService, CloseIt, PrintStrings, Mark, More,
           Following, ClickInv
  <2>3. CASE OpenReceipt \/ AddThePayment
    BY <2>1, <2>3 DEF OpenReceipt, AddThePayment, Mark, Looked, IfZero, ClickInv
  <2>4. CASE AddPositions
    BY <2>1, <2>4 DEF AddPositions, Mark, Looked, IfZero, More, Following, ClickInv
  <2>5. QED
    BY <1>1, <2>2, <2>3, <2>4 DEF Handler
<1>2. CASE Restart \/ \E b \in Buttons : Press(b)
  <2>1. PiritTypeOK'
    BY <1>2, HandlerPirit
  <2>2. CASE Restart
    BY <2>1, <2>2 DEF Restart
  <2>3. ASSUME NEW b \in Buttons, Press(b)
        PROVE  TypeOK'
    BY <2>1, <2>3 DEF Press
  <2>4. QED
    BY <1>2, <2>2, <2>3
<1>3. CASE UNCHANGED vars
  BY <1>3 DEF vars, PiritTypeOK
<1>4. QED
  BY <1>1, <1>2, <1>3 DEF Next

LEMMA ClickInit == Init => ClickInv
BY WindowAssumption DEF Init, PiritInit, ClickInv

LEMMA ClickStep == TypeOK /\ ClickInv /\ [Next]_vars => ClickInv'
<1> SUFFICES ASSUME TypeOK, ClickInv, [Next]_vars
             PROVE  ClickInv'
  OBVIOUS
<1> USE PiritAssumption, WindowAssumption
    DEF TypeOK, PiritTypeOK, Docs, ClickInv, Mine, pirit, Mark, Looked, Outcomes, Executed
<1>1. CASE Command \/ Return \/ StringsDone
  BY <1>1 DEF Command, OtherCommand, Return, StringsDone
<1>2. CASE OpenReceipt
  <2>1. PICK o \in Outcomes : OpenDocument(o, Gui) /\ Looked(o) /\ Mark(o)
    BY <1>2 DEF OpenReceipt
  <2>2. pc = "open" /\ button = "receipt" /\ UNCHANGED <<button, i, archive>>
    BY <1>2, <2>1 DEF OpenReceipt, OpenDocument
  <2>3. CASE o = "ok"
    <3>1. doc' = [owner |-> Gui, pos |-> 0, pays |-> {}, cash |-> FALSE]
      BY <2>1, <2>3 DEF OpenDocument, EmptyDoc
    <3>2. /\ pc' = "position" /\ button' = "receipt" /\ i' = 0
          /\ archive'[Gui] = NoDoc
      BY <1>2, <2>1, <2>2, <2>3 DEF OpenReceipt, IfZero
    <3>3. doc'.owner = Gui /\ doc'.pos = 0 /\ doc'.pays = {}
      BY <3>1
    <3>4. QED
      BY <3>2, <3>3
  <2>4. CASE o # "ok"
    BY <1>2, <2>1, <2>2, <2>4 DEF OpenReceipt, OpenDocument, IfZero
  <2>5. QED
    BY <2>3, <2>4
<1>3. CASE AddPositions
  <2>1. PICK o \in Outcomes : AddPosition(o) /\ Looked(o) /\ Mark(o)
    BY <1>3 DEF AddPositions
  <2>2. /\ pc = "position" /\ i' = i + 1 /\ UNCHANGED <<button, archive>>
        /\ pc' = IF i' < Positions THEN "position" ELSE IfZero("payment")
    BY <1>3, <2>1 DEF AddPositions, AddPosition, More, Following
  <2>3. doc' # NoDoc => doc'.owner = Gui /\ doc'.pos \in 0..i' /\ doc'.pays = {}
    BY <2>1, <2>2 DEF AddPosition
  <2>4. CASE i' < Positions
    BY <2>1, <2>2, <2>3, <2>4
  <2>5. CASE ~(i' < Positions) /\ o = "ok"
    <3>1. doc # NoDoc /\ doc' = [doc EXCEPT !.pos = @ + 1]
      BY <2>1, <2>5 DEF AddPosition
    <3>2. doc'.pos > 0
      BY <3>1
    <3>3. pc' = "payment"
      BY <2>1, <2>2, <2>5 DEF IfZero
    <3>4. QED
      BY <2>2, <2>3, <3>2, <3>3
  <2>6. CASE ~(i' < Positions) /\ o # "ok"
    <3>1. pc' = "return" /\ leak' # {}
      BY <2>1, <2>2, <2>6 DEF IfZero
    <3>2. QED
      BY <2>2, <3>1
  <2>7. QED
    BY <2>4, <2>5, <2>6
<1>4. CASE AddThePayment
  <2>1. PICK o \in Outcomes : AddPayment(o, PayType) /\ Looked(o) /\ Mark(o)
    BY <1>4 DEF AddThePayment
  <2>2. pc = "payment" /\ UNCHANGED <<button, i, archive>> /\ pc' = IfZero("close")
    BY <1>4, <2>1 DEF AddThePayment, AddPayment
  <2>3. CASE o = "ok"
    BY <2>1, <2>2, <2>3 DEF AddPayment, IfZero
  <2>4. CASE o # "ok"
    BY <2>1, <2>2, <2>4 DEF IfZero
  <2>5. QED
    BY <2>3, <2>4
<1>5. CASE OpenService
  BY <1>5 DEF OpenService, OpenDocument, EmptyDoc
<1>6. CASE PrintStrings
  BY <1>6 DEF PrintStrings, PrintText, More, Following
<1>7. CASE CloseIt
  BY <1>7 DEF CloseIt, CloseDocument
<1>8. CASE Restart \/ \E b \in Buttons : Press(b)
  BY <1>8 DEF Restart, Press, Buttons, Commands
<1>9. CASE UNCHANGED vars
  BY <1>9 DEF vars
<1>10. QED
  BY <1>1, <1>2, <1>3, <1>4, <1>5, <1>6, <1>7, <1>8, <1>9 DEF Next, Handler

LEMMA ClickInvariant == Spec => [](TypeOK /\ ClickInv)
<1>1. (TypeOK /\ ClickInv) /\ [Next]_vars => (TypeOK /\ ClickInv)'
  BY TypeStep, ClickStep
<1>2. QED
  BY TypeInit, ClickInit, <1>1, PTL DEF Spec

\* Every variable of the window's handlers and of the printer keeps its type; the
\* loop counters stay within the loops.
THEOREM TypeCorrect == Spec => []TypeOK
BY ClickInvariant, PTL

\* on_pbReciept_clicked never makes a document fiscal that an earlier click has
\* left, or one without a position or the payment.
THEOREM OwnReceipt == Spec => []ReceiptIsItsOwn
<1>1. TypeOK /\ ClickInv /\ ReceiptIsItsOwn /\ [Next]_vars => ReceiptIsItsOwn'
  <2> SUFFICES ASSUME TypeOK, ClickInv, ReceiptIsItsOwn, [Next]_vars
               PROVE  ReceiptIsItsOwn'
    OBVIOUS
  <2> USE WindowAssumption DEF TypeOK, PiritTypeOK, ReceiptIsItsOwn
  <2>1. CASE CloseIt
    BY <2>1 DEF CloseIt, CloseDocument, ClickInv, Mine, Docs
  <2>2. CASE Restart \/ \E b \in Buttons : Press(b)
    BY <2>2 DEF Restart, Press
  <2>3. CASE UNCHANGED <<archive, button>>
    BY <2>3
  <2>4. QED
    BY <2>1, <2>2, <2>3
       DEF Next, Handler, vars, pirit, Command, OtherCommand, OpenReceipt, OpenDocument,
           AddPositions, AddPosition, AddThePayment, AddPayment, OpenService, PrintStrings,
           PrintText, StringsDone, Return
<1>2. Init => ReceiptIsItsOwn
  BY WindowAssumption DEF Init, PiritInit, ReceiptIsItsOwn
<1>3. QED
  BY <1>1, <1>2, ClickInvariant, PTL DEF Spec

\* Between two clicks a document is open in the printer only after a command that
\* failed, or after a restart.
THEOREM LeftoversExplained == Spec => []LeftoverIsExplained
<1>1. ClickInv => LeftoverIsExplained
  BY DEF ClickInv, LeftoverIsExplained
<1>2. QED
  BY <1>1, ClickInvariant, PTL

=============================================================================
