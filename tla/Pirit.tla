------------------------------- MODULE Pirit -------------------------------
(***************************************************************************)
(* The fiscal printer behind libqFisGoPirit, as the code under src/ uses   *)
(* it: one exchange per library call, one document at a time, and a fiscal *)
(* memory that keeps every document that was closed.  The library is a     *)
(* binary, so every definition here is external.                           *)
(*                                                                         *)
(* A library call returns a code; the caller sees one of four outcomes:    *)
(*   "ok"       executed, the code is 0;                                   *)
(*   "warn"     executed, the code is a non-critical one                   *)
(*              (libIsErrorCritical answers false);                        *)
(*   "refused"  not executed, the code is critical;                        *)
(*   "lost"     executed, but the answer did not arrive and the code is    *)
(*              the critical one of a broken link.                         *)
(***************************************************************************)
EXTENDS Naturals

CONSTANTS Threads,   \* the threads of the application
          PayTypes,  \* the payment types a document can hold
          Nobody,    \* no thread
          NoDoc      \* no document

ASSUME PiritAssumption == /\ Nobody \notin Threads
                          /\ PayTypes \subseteq Nat

VARIABLES doc,     \* the document open in the printer, or NoDoc
          archive  \* archive[t]: what the current call of t has made fiscal

Outcomes == {"ok", "warn", "refused", "lost"}

\* Whether the printer did what it was asked to.
Executed(o) == o # "refused"

\* What isCommandComplete answers for the code of the call.
Completed(o) == o \in {"ok", "warn"}

\* `owner' is not known to the printer: it is the call the document is filled
\* by, Nobody once that call has returned.
Docs == [owner : Threads \cup {Nobody}, pos : Nat, pays : SUBSET PayTypes, cash : BOOLEAN]

EmptyDoc(t) == [owner |-> t, pos |-> 0, pays |-> {}, cash |-> FALSE]

PiritTypeOK == /\ doc \in Docs \cup {NoDoc}
               /\ archive \in [Threads -> Docs \cup {NoDoc}]

PiritInit == /\ doc = NoDoc
             /\ archive = [t \in Threads |-> NoDoc]

\* A second document cannot be opened.
OpenDocument(o, t) ==
  /\ Executed(o) => doc = NoDoc
  /\ doc' = IF Executed(o) THEN EmptyDoc(t) ELSE doc
  /\ UNCHANGED archive

\* A line, a payment or a text needs an open document.
AddPosition(o) ==
  /\ Executed(o) => doc # NoDoc
  /\ doc' = IF Executed(o) THEN [doc EXCEPT !.pos = @ + 1] ELSE doc
  /\ UNCHANGED archive

AddPayment(o, p) ==
  /\ Executed(o) => doc # NoDoc
  /\ doc' = IF Executed(o) THEN [doc EXCEPT !.pays = @ \cup {p}] ELSE doc
  /\ UNCHANGED archive

CashInOutDocument(o) ==
  /\ Executed(o) => doc # NoDoc
  /\ doc' = IF Executed(o) THEN [doc EXCEPT !.cash = TRUE] ELSE doc
  /\ UNCHANGED archive

PrintText(o) ==
  /\ Executed(o) => doc # NoDoc
  /\ UNCHANGED <<doc, archive>>

\* Closing is what makes a document fiscal.  Whether the printer would also
\* refuse an incomplete document is not relied on.
CloseDocument(o, t) ==
  /\ Executed(o) => doc # NoDoc
  /\ doc' = IF Executed(o) THEN NoDoc ELSE doc
  /\ archive' = IF Executed(o) THEN [archive EXCEPT ![t] = doc] ELSE archive

CancelDocument(o) ==
  /\ doc' = IF Executed(o) THEN NoDoc ELSE doc
  /\ UNCHANGED archive

\* A report, a shift or a registration command: the open document stays.
OtherCommand == UNCHANGED <<doc, archive>>

=============================================================================
