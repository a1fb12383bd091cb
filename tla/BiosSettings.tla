---------------------------- MODULE BiosSettings ----------------------------
(***************************************************************************)
(* The printer's tables of settings as class BIOS of FisGo_BIOS.cpp reads  *)
(* and writes them: setPrinterExPrint, setPrinterExNotPrint (761-778),     *)
(* setAutoOpenShift (728), RUS::setOFDSettings (3988), getOFDSettings      *)
(* (4470) and RUS::setENVDRegData (4555).                                  *)
(*                                                                         *)
(* Every read or write of a table is one library call and one step.  Most  *)
(* calls take mutex_bios for each step anew; the two about the OFD keep it *)
(* from the first to the last.  A table that holds a bit mask holds here   *)
(* the set of its bits.                                                    *)
(***************************************************************************)
EXTENDS Naturals

CONSTANTS Threads,    \* the threads of the application
          Nobody,     \* no thread
          Bits,       \* the bits of a mask, 1 to 8: setPurchaseMode's uint8_t keeps them all
          Masks,      \* what a table of bits may hold at first
          NotPrint,   \* PIRIT_SET_KKT_NOT_PRINT
          AutoShift,  \* PIRIT_SET_KKT_AUTO_SHIFT
          Values,     \* what a caller may want in a table; a call has one for both parts
          BadValues,  \* those a call rejects: a port out of range, an empty name
          Calls       \* Calls[t]: the calls thread t makes

MaskOps == {"setPrinterExPrint", "setPrinterExNotPrint", "setAutoOpenShift"}
PairOps == {"setOFDSettings", "setENVDRegData", "getOFDSettings"}
Ops == MaskOps \cup PairOps

ASSUME SettingsAssumption == /\ Nobody \notin Threads
                             /\ NotPrint \in Bits /\ AutoShift \in Bits
                             /\ Masks \subseteq SUBSET Bits
                             /\ BadValues \subseteq Values
                             /\ Calls \in [Threads -> SUBSET Ops]

VARIABLES kkt,       \* PIRIT_TABLE_SETTINGS_KKT
          purchase,  \* PIRIT_TABLE_SETTINGS_PURCHASE
          ofd,       \* PIRIT_TABLE_OFD_IP and PIRIT_TABLE_OFD_PORT
          org,       \* PIRIT_TABLE_NAME_ADDRESS_ORG: name and address
          mutex,     \* mutex_bios: its holder, or Nobody
          pc, op,    \* where a thread is, and in which call
          arg,       \* the last value it was to write
          mask,      \* its local mask
          got,       \* what it has read of a pair
          ok,        \* its result
          failures,  \* history: what has gone wrong so far (see Failures)
          shown      \* history: ofd as it was when the mutex was last free

tables == <<kkt, purchase, ofd, org>>
local == <<op, arg, mask, got>>
history == <<failures, shown>>
vars == <<tables, mutex, pc, local, ok, history>>

Pair == [first : Values, second : Values]
Mixed(p) == p.first # p.second

Outcomes == {"ok", "warn", "refused", "lost"}
Executed(o) == o # "refused"
Completed(o) == o \in {"ok", "warn"}

Places == {"idle", "read", "write", "first", "second"}

\* "half": a call has changed one part of a pair and not the other; "read":
\* setPrinterEx... did not get the mask it was to change.
Failures == {"half", "read"}

TypeOK ==
  /\ kkt \in SUBSET Bits /\ purchase \in SUBSET Bits
  /\ ofd \in Pair /\ org \in Pair
  /\ mutex \in Threads \cup {Nobody}
  /\ pc \in [Threads -> Places]
  /\ op \in [Threads -> Ops \cup {"none"}]
  /\ arg \in [Threads -> Values]
  /\ mask \in [Threads -> SUBSET Bits]
  /\ got \in [Threads -> Pair]
  /\ ok \in [Threads -> BOOLEAN]
  /\ failures \in SUBSET Failures /\ shown \in Pair

Init ==
  /\ kkt \in Masks /\ purchase \in Masks
  /\ \E v \in Values \ BadValues :
       /\ ofd = [first |-> v, second |-> v] /\ org = ofd /\ shown = ofd
       /\ arg = [t \in Threads |-> v] /\ got = [t \in Threads |-> ofd]
  /\ mutex = Nobody
  /\ pc = [t \in Threads |-> "idle"] /\ op = [t \in Threads |-> "none"]
  /\ mask = [t \in Threads |-> {}] /\ ok = [t \in Threads |-> FALSE]
  /\ failures = {}

Goto(t, place) == pc' = [pc EXCEPT ![t] = place]
SetOk(t, b) == ok' = [ok EXCEPT ![t] = b]
Record(what, b) == failures' = IF b THEN failures \cup {what} ELSE failures

\* A lock_guard around one library call: the call is one step.
BriefLock == mutex = Nobody /\ UNCHANGED mutex

-----------------------------------------------------------------------------
(* Calling                                                                  *)

Start(t, o, v) ==
  /\ op' = [op EXCEPT ![t] = o]
  /\ arg' = IF o \in {"setOFDSettings", "setENVDRegData"} /\ v \notin BadValues
            THEN [arg EXCEPT ![t] = v] ELSE arg
  /\ mask' = [mask EXCEPT ![t] = {}]
  /\ UNCHANGED <<tables, mutex, got, history>>

FirstPlace(o) == IF o \in MaskOps THEN "read" ELSE "first"

\* setOFDSettings and setENVDRegData look at their arguments first.
Call(t, o, v) ==
  /\ pc[t] = "idle" /\ o \in Calls[t]
  /\ Start(t, o, v) /\ SetOk(t, FALSE)
  /\ Goto(t, IF o \in {"setOFDSettings", "setENVDRegData"} /\ v \in BadValues
             THEN "idle" ELSE FirstPlace(o))

-----------------------------------------------------------------------------
(* Masks: read, change, write, each under the mutex                         *)

\* (Mutant: the bit of the printing device replaces its mask.)
WantsAlone(o, m) == IF o = "setAutoOpenShift" THEN m \cup {AutoShift} ELSE {NotPrint}
Wants(o, m) == IF o = "setAutoOpenShift" THEN m \cup {AutoShift}
               ELSE IF o = "setPrinterExNotPrint" THEN m \cup {NotPrint}
               ELSE m \ {NotPrint}

\* Whether a mask is written back.  (Mutant: setAutoOpenShift does not look at the
\* result of getPurchaseMode either.)
WritesAlways(o, outcome) == TRUE
Writes(o, outcome) == o = "setAutoOpenShift" => outcome = "ok"

Table(o) == IF o = "setAutoOpenShift" THEN "purchase" ELSE "kkt"
Current(o) == IF Table(o) = "purchase" THEN purchase ELSE kkt

\* A mask that was not received is 0.  (Mutant: it is 1.)
ReceivedOne(o, table) == IF Completed(o) THEN table ELSE {0}
Received(o, table) == IF Completed(o) THEN table ELSE {}

Read(t) ==
  /\ pc[t] = "read" /\ BriefLock
  /\ \E o \in Outcomes :
       /\ mask' = [mask EXCEPT ![t] = Wants(op[t], Received(o, Current(op[t])))]
       /\ Goto(t, IF Writes(op[t], o) THEN "write" ELSE "idle")
       /\ Record("read", op[t] # "setAutoOpenShift" /\ ~Completed(o))
  /\ UNCHANGED <<tables, op, arg, got, ok, shown>>

Write(t) ==
  /\ pc[t] = "write" /\ BriefLock /\ Goto(t, "idle")
  /\ \E o \in Outcomes :
       /\ kkt' = IF Executed(o) /\ Table(op[t]) = "kkt" THEN mask[t] ELSE kkt
       /\ purchase' = IF Executed(o) /\ Table(op[t]) = "purchase" THEN mask[t] ELSE purchase
       /\ SetOk(t, o = "ok")
  /\ mask' = [mask EXCEPT ![t] = {}]
  /\ UNCHANGED <<ofd, org, op, arg, got, history>>

-----------------------------------------------------------------------------
(* Pairs                                                                    *)

\* Whether a call keeps the mutex from the first part to the second.  (Mutants:
\* none does; the reader does not.)
KeepsNone(o) == FALSE
KeepsWriting(o) == o = "setOFDSettings"
Keeps(o) == o \in {"setOFDSettings", "getOFDSettings"}

LockFirst(t, o, goesOn) ==
  /\ mutex = Nobody
  /\ mutex' = IF goesOn /\ Keeps(o) THEN t ELSE Nobody

LockSecond(t, o) == mutex = (IF Keeps(o) THEN t ELSE Nobody) /\ mutex' = Nobody

\* (After a step about ofd and the mutex.)
Show == shown' = IF mutex' = Nobody THEN ofd' ELSE shown

PutFirst(t) ==
  /\ pc[t] = "first" /\ op[t] # "getOFDSettings"
  /\ \E o \in Outcomes :
       /\ LockFirst(t, op[t], Completed(o))
       /\ ofd' = IF Executed(o) /\ op[t] = "setOFDSettings"
                 THEN [ofd EXCEPT !.first = arg[t]] ELSE ofd
       /\ org' = IF Executed(o) /\ op[t] = "setENVDRegData"
                 THEN [org EXCEPT !.first = arg[t]] ELSE org
       /\ Goto(t, IF Completed(o) THEN "second" ELSE "idle")
       /\ Record("half", o = "lost")
  /\ Show /\ UNCHANGED <<kkt, purchase, local, ok>>

PutSecond(t) ==
  /\ pc[t] = "second" /\ op[t] # "getOFDSettings"
  /\ LockSecond(t, op[t]) /\ Goto(t, "idle")
  /\ \E o \in Outcomes :
       /\ ofd' = IF Executed(o) /\ op[t] = "setOFDSettings"
                 THEN [ofd EXCEPT !.second = arg[t]] ELSE ofd
       /\ org' = IF Executed(o) /\ op[t] = "setENVDRegData"
                 THEN [org EXCEPT !.second = arg[t]] ELSE org
       /\ SetOk(t, Completed(o))
       /\ Record("half", ~Executed(o))
  /\ Show /\ UNCHANGED <<kkt, purchase, local>>

GetFirst(t) ==
  /\ pc[t] = "first" /\ op[t] = "getOFDSettings"
  /\ \E b \in BOOLEAN :
       /\ LockFirst(t, op[t], b)
       /\ got' = IF b THEN [got EXCEPT ![t].first = ofd.first] ELSE got
       /\ Goto(t, IF b THEN "second" ELSE "idle") /\ SetOk(t, FALSE)
  /\ UNCHANGED <<tables, op, arg, mask, history>>

GetSecond(t) ==
  /\ pc[t] = "second" /\ op[t] = "getOFDSettings"
  /\ LockSecond(t, op[t]) /\ Goto(t, "idle")
  /\ \E b \in BOOLEAN :
       /\ got' = IF b THEN [got EXCEPT ![t].second = ofd.second] ELSE got
       /\ SetOk(t, b)
  /\ UNCHANGED <<tables, op, arg, mask, history>>

-----------------------------------------------------------------------------
Next == \E t \in Threads :
          \/ \E o \in Ops, v \in Values : Call(t, o, v)
          \/ Read(t) \/ Write(t)
          \/ PutFirst(t) \/ PutSecond(t) \/ GetFirst(t) \/ GetSecond(t)

Spec == Init /\ [][Next]_vars

-----------------------------------------------------------------------------
(* Properties                                                               *)

\* setAutoOpenShift never loses a setting of the receipts: whatever command
\* fails and whoever else calls it, the table only gains the one bit.
PurchaseOnlyGains ==
  [][ purchase \subseteq purchase' /\ purchase' \ purchase \subseteq {AutoShift} ]_vars

\* The other settings of the printing device survive setPrinterExPrint and
\* setPrinterExNotPrint, also when two threads interleave, unless a read of the
\* table failed.
PrinterSettingsKept ==
  [][ kkt' \ {NotPrint} # kkt \ {NotPrint} => "read" \in failures ]_vars

\* The address and the port of the OFD server belong together outside the calls,
\* unless one of them failed half way.
OfdSettingsTogether == mutex = Nobody /\ Mixed(ofd) => "half" \in failures

\* So do the two that getOFDSettings has answered with.
OfdReadTogether ==
  \A t \in Threads :
    pc[t] = "idle" /\ op[t] = "getOFDSettings" /\ ok[t] /\ Mixed(got[t]) => "half" \in failures

\* FisGo_BIOS.cpp:4586 reports "name and address of the organisation successfully
\* changed": once all calls have returned, none of them having failed, the two in
\* the printer are those of one call.
OrgDataTogether ==
  "half" \notin failures /\ (\A t \in Threads : pc[t] = "idle") => ~Mixed(org)

-----------------------------------------------------------------------------
(* The inductive invariant                                                  *)

PlaceMatches ==
  \A t \in Threads : pc[t] # "idle" =>
    op[t] \in IF pc[t] \in {"read", "write"} THEN MaskOps ELSE PairOps

\* Who is between the two parts of a call about the OFD has the mutex.
HolderMatches ==
  \A t \in Threads : mutex = t <=> pc[t] = "second" /\ Keeps(op[t])

\* A mask about to be written to the table of receipts holds all that is in it.
MaskIsCurrent ==
  \A t \in Threads :
    pc[t] = "write" /\ op[t] = "setAutoOpenShift" =>
      /\ purchase \subseteq mask[t] \cup {AutoShift}
      /\ mask[t] \ {AutoShift} \subseteq purchase
      /\ AutoShift \in mask[t]

\* A mask about to be written to the table of the printing device differs from it in
\* the one bit, unless a read of the table has failed.
PrinterMaskIsCurrent ==
  "read" \notin failures =>
    \A t \in Threads :
      pc[t] = "write" /\ op[t] # "setAutoOpenShift" => mask[t] \ {NotPrint} = kkt \ {NotPrint}

\* The pair is mixed only while its writer is between the two, or after a failure.
OfdIsExplained ==
  Mixed(ofd) /\ "half" \notin failures =>
    \E t \in Threads : mutex = t /\ op[t] = "setOFDSettings"

\* The writer between the two has written its first part.
WriterIsCurrent ==
  \A t \in Threads : mutex = t /\ op[t] = "setOFDSettings" => ofd.first = arg[t]

\* A reader between the two has read the first part of the pair.
ReaderIsCurrent ==
  \A t \in Threads : mutex = t /\ op[t] = "getOFDSettings" => got[t].first = ofd.first

OfdInv == /\ PlaceMatches /\ HolderMatches /\ OfdIsExplained
          /\ WriterIsCurrent /\ ReaderIsCurrent

\* What the callers have seen of the pair: all but the first part that a writer
\* between the two has changed.
ShownIsCurrent ==
  /\ (\A t \in Threads : mutex = t => op[t] = "getOFDSettings") => shown = ofd
  /\ shown.second = ofd.second

\* A call under way has not succeeded yet.
NotYetOk == \A t \in Threads : pc[t] # "idle" => ~ok[t]

\* What OrgDataTogether needs: no two threads call setENVDRegData.
OneRegisters ==
  \A s, t \in Threads : "setENVDRegData" \in Calls[s] \cap Calls[t] => s = t

Registering(t) == pc[t] = "second" /\ op[t] = "setENVDRegData"

\* Then the pair is mixed only while that thread is between its two parts, the first of
\* which nobody has overwritten.
OrgIsExplained ==
  /\ \A t \in Threads : pc[t] # "idle" => op[t] \in Calls[t]
  /\ "half" \notin failures =>
       /\ \A t \in Threads : Registering(t) => org.first = arg[t]
       /\ Mixed(org) => \E t \in Threads : Registering(t)

-----------------------------------------------------------------------------
\* To their callers the two calls about the OFD are the atomic PairCall, whatever
\* commands fail: the two parts are written, and read, as one.
OfdCall(t) == IF pc[t] = "idle" THEN "none"
              ELSE IF op[t] = "setOFDSettings" THEN "put"
              ELSE IF op[t] = "getOFDSettings" THEN "get" ELSE "none"
OfdEnded(t) == pc[t] = "idle" /\ op[t] \in {"setOFDSettings", "getOFDSettings"} /\ ok[t]
OfdAnswer(t) == IF OfdEnded(t) /\ op[t] = "getOFDSettings" THEN got[t] ELSE Nobody

Abstract == INSTANCE PairCall WITH
  Nothing <- Nobody,
  stored  <- shown,
  calls   <- [t \in Threads |-> OfdCall(t)],
  wanted  <- arg,
  ended   <- [t \in Threads |-> OfdEnded(t)],
  answer  <- [t \in Threads |-> OfdAnswer(t)]

AbstractSpec == Abstract!Spec

=============================================================================
