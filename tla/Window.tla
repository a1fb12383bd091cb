------------------------------- MODULE Window -------------------------------
(***************************************************************************)
(* The buttons of MainWindow that work the printer (mainwindow.cpp).  They *)
(* call the library themselves, not class BIOS: one thread, no mutex, and  *)
(* every code but 0 counts as a failure where it is looked at.  One step   *)
(* is one library call.  The button of the hub is HubPoll.                 *)
(***************************************************************************)
EXTENDS Pirit

CONSTANTS Gui,        \* the thread of the window
          Positions,  \* how many positions pbReciept adds
          Strings,    \* how many strings pbPrintSDoc prints
          PayType     \* the payment type of pbReciept

ASSUME WindowAssumption == /\ Threads = {Gui} /\ PayType \in PayTypes
                           /\ Positions \in Nat \ {0} /\ Strings \in Nat

VARIABLES pc,      \* where the handler is
          button,  \* the button last pressed
          i,       \* the counter of the handler's loop
          res,     \* whether the last code looked at was 0
          leak     \* history: why a document may be open between two clicks

pirit == <<doc, archive>>
vars == <<doc, archive, pc, button, i, res, leak>>

\* One command and no document: pbConnect, pbScroll, pbXReport, pbOpenShift and
\* pushButton, which closes the shift.
Commands == {"connect", "scroll", "xReport", "openShift", "closeShift"}
Buttons == Commands \cup {"receipt", "serviceDoc"}

TypeOK ==
  /\ PiritTypeOK
  /\ pc \in {"idle", "command", "open", "position", "payment", "text", "close", "return"}
  /\ button \in Buttons \cup {"none"}
  /\ i \in 0..(IF button = "receipt" THEN Positions ELSE Strings) /\ res \in BOOLEAN
  /\ leak \subseteq {"failed", "restart"}

Init == /\ PiritInit
        /\ pc = "idle" /\ button = "none" /\ i = 0 /\ res = TRUE /\ leak = {}

\* A code is 0, or the call may have left the document in another state than its
\* caller thinks.
Looked(o) == res' = (o = "ok")
Mark(o) == leak' = IF o = "ok" THEN leak ELSE leak \cup {"failed"}

Press(b) ==
  /\ pc = "idle" /\ button' = b /\ i' = 0 /\ res' = TRUE
  /\ pc' = IF b \in Commands THEN "command" ELSE "open"
  /\ archive' = [archive EXCEPT ![Gui] = NoDoc]
  /\ UNCHANGED <<doc, leak>>

Command ==
  /\ pc = "command" /\ pc' = "return"
  /\ OtherCommand
  /\ UNCHANGED <<button, i, res, leak>>

-----------------------------------------------------------------------------
(* on_pbReciept_clicked                                                     *)

\* Where the handler goes from a code it looks at.  (Mutants: it does not look; it
\* takes the code the other way round.)
IfZeroUnchecked(place) == place
IfNotZero(place) == IF res' THEN "return" ELSE place
IfZero(place) == IF res' THEN place ELSE "return"

OpenReceipt ==
  /\ pc = "open" /\ button = "receipt"
  /\ \E o \in Outcomes : OpenDocument(o, Gui) /\ Looked(o) /\ Mark(o)
  /\ pc' = IfZero("position")
  /\ UNCHANGED <<button, i>>

\* A for loop.  (Mutants: one round too many; the counter is not incremented.)
MoreOrEqual(n, bound) == n <= bound
More(n, bound) == n < bound
StuckAt(n) == n
Following(n) == n + 1

\* The code of every position is assigned to res, that of the last is looked at.

AddPositions ==
  /\ pc = "position" /\ More(i, Positions)
  /\ i' = Following(i)
  /\ \E o \in Outcomes : AddPosition(o) /\ Looked(o) /\ Mark(o)
  /\ pc' = IF More(i', Positions) THEN "position" ELSE IfZero("payment")
  /\ UNCHANGED button

AddThePayment ==
  /\ pc = "payment"
  /\ \E o \in Outcomes : AddPayment(o, PayType) /\ Looked(o) /\ Mark(o)
  /\ pc' = IfZero("close")
  /\ UNCHANGED <<button, i>>

-----------------------------------------------------------------------------
(* on_pbPrintSDoc_clicked: no code is looked at                             *)

OpenService ==
  /\ pc = "open" /\ button = "serviceDoc" /\ pc' = "text"
  /\ \E o \in Outcomes : OpenDocument(o, Gui) /\ Mark(o)
  /\ UNCHANGED <<button, i, res>>

PrintStrings ==
  /\ pc = "text" /\ More(i, Strings)
  /\ i' = Following(i)
  /\ \E o \in Outcomes : PrintText(o) /\ Mark(o)
  /\ UNCHANGED <<pc, button, res>>

StringsDone ==
  /\ pc = "text" /\ ~More(i, Strings) /\ pc' = "close"
  /\ UNCHANGED <<pirit, button, i, res, leak>>

-----------------------------------------------------------------------------
\* libCloseDocumentLite of the receipt, libCloseDocument of the service document.
CloseIt ==
  /\ pc = "close" /\ pc' = "return"
  /\ \E o \in Outcomes : /\ CloseDocument(o, Gui)
                         /\ leak' = IF Executed(o) THEN {} ELSE leak \cup {"failed"}
  /\ UNCHANGED <<button, i, res>>

\* The handler returns; the document it leaves is nobody's.
Return ==
  /\ pc = "return" /\ pc' = "idle"
  /\ doc' = IF doc = NoDoc THEN NoDoc ELSE [doc EXCEPT !.owner = Nobody]
  /\ UNCHANGED <<archive, button, i, res, leak>>

\* The application dies and starts again; the printer keeps its document.
Restart ==
  /\ pc' = "idle" /\ button' = "none" /\ i' = 0 /\ res' = TRUE
  /\ archive' = [archive EXCEPT ![Gui] = NoDoc]
  /\ doc' = IF doc = NoDoc THEN NoDoc ELSE [doc EXCEPT !.owner = Nobody]
  /\ leak' = leak \cup {"restart"}

Handler == \/ Command \/ OpenReceipt \/ AddPositions \/ AddThePayment
           \/ OpenService \/ PrintStrings \/ StringsDone \/ CloseIt \/ Return

Next == Restart \/ Handler \/ \E b \in Buttons : Press(b)

Spec == Init /\ [][Next]_vars

\* Every library call returns (the library has its own time-outs), and the handler
\* goes on.  Nobody has to press a button.
FairSpec == Spec /\ WF_vars(Handler)

-----------------------------------------------------------------------------
(* Properties                                                               *)

\* A document that the receipt button makes fiscal is the one this click has opened,
\* never one that an earlier click has left in the printer, and it is paid.
ReceiptIsItsOwn ==
  archive[Gui] # NoDoc /\ button = "receipt" =>
    /\ archive[Gui].owner = Gui
    /\ archive[Gui].pos \in 1..Positions /\ archive[Gui].pays = {PayType}

\* Between two clicks a document is in the printer only if some command since the
\* last closing failed, or the application died.
LeftoverIsExplained == pc = "idle" /\ doc # NoDoc => leak # {}

\* The window comes back to its events from every click.
ClickEnds == pc # "idle" ~> pc = "idle"

=============================================================================
