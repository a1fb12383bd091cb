------------------------- MODULE BiosSettingsProofs -------------------------
(***************************************************************************)
(* What the calls that change the printer's settings keep, for any threads *)
(* and any calls.                                                          *)
(***************************************************************************)
EXTENDS BiosSettings, TLAPS

USE SettingsAssumption DEF Ops, MaskOps, PairOps

\* The disjuncts of Next, for the case splits below.
LEMMA Steps ==
  ASSUME [Next]_vars
  PROVE  \/ \E t \in Threads, o \in Ops, v \in Values : Call(t, o, v)
         \/ \E t \in Threads : \/ Read(t) \/ Write(t)
                               \/ PutFirst(t) \/ PutSecond(t) \/ GetFirst(t) \/ GetSecond(t)
         \/ UNCHANGED vars
BY DEF Next

LEMMA PairUpdate ==
  ASSUME NEW p \in Pair, NEW v \in Values
  PROVE  [p EXCEPT !.first = v] \in Pair /\ [p EXCEPT !.second = v] \in Pair
BY DEF Pair

\* Every variable keeps its type.
THEOREM TypeCorrect == Spec => []TypeOK
<1>1. Init => TypeOK
  BY DEF Init, TypeOK, Places, Pair
<1>2. TypeOK /\ [Next]_vars => TypeOK'
  <2> SUFFICES ASSUME TypeOK, [Next]_vars PROVE TypeOK'
    OBVIOUS
  <2> USE DEF TypeOK, Places, Pair, Goto, SetOk, Record, Failures, BriefLock,
              tables, local, history, vars
  <2>1. ASSUME NEW t \in Threads, NEW o \in Ops, NEW v \in Values, Call(t, o, v)
        PROVE  TypeOK'
    BY <2>1 DEF Call, Start, FirstPlace
  <2>2. ASSUME NEW t \in Threads, Read(t) PROVE TypeOK'
    <3>1. \A o \in Outcomes : Wants(op[t], Received(o, Current(op[t]))) \in SUBSET Bits
      BY DEF Wants, Received, Current
    <3> QED
      BY <2>2, <3>1 DEF Read
  <2>3. ASSUME NEW t \in Threads, Write(t) PROVE TypeOK'
    BY <2>3 DEF Write
  <2>4. ASSUME NEW t \in Threads, PutFirst(t) PROVE TypeOK'
    <3>1. PICK o \in Outcomes :
            /\ LockFirst(t, op[t], Completed(o))
            /\ ofd' = IF Executed(o) /\ op[t] = "setOFDSettings"
                      THEN [ofd EXCEPT !.first = arg[t]] ELSE ofd
            /\ org' = IF Executed(o) /\ op[t] = "setENVDRegData"
                      THEN [org EXCEPT !.first = arg[t]] ELSE org
            /\ Goto(t, IF Completed(o) THEN "second" ELSE "idle")
            /\ Record("half", o = "lost")
      BY <2>4 DEF PutFirst
    <3>2. ofd' \in Pair /\ org' \in Pair
      BY <3>1, PairUpdate
    <3>3. mutex' \in Threads \cup {Nobody} /\ pc' \in [Threads -> Places]
      BY <3>1 DEF LockFirst
    <3>4. shown' \in Pair
      BY <2>4, <3>2 DEF PutFirst, Show
    <3> QED
      BY <2>4, <3>2, <3>3, <3>4 DEF PutFirst
  <2>5. ASSUME NEW t \in Threads, PutSecond(t) PROVE TypeOK'
    <3>1. PICK o \in Outcomes :
            /\ ofd' = IF Executed(o) /\ op[t] = "setOFDSettings"
                      THEN [ofd EXCEPT !.second = arg[t]] ELSE ofd
            /\ org' = IF Executed(o) /\ op[t] = "setENVDRegData"
                      THEN [org EXCEPT !.second = arg[t]] ELSE org
            /\ SetOk(t, Completed(o))
            /\ Record("half", ~Executed(o))
      BY <2>5 DEF PutSecond
    <3>2. ofd' \in Pair /\ org' \in Pair
      BY <3>1, PairUpdate
    <3>3. ok' \in [Threads -> BOOLEAN]
      BY <3>1 DEF Completed
    <3>4. shown' \in Pair
      BY <2>5, <3>2 DEF PutSecond, Show
    <3> QED
      BY <2>5, <3>2, <3>3, <3>4 DEF PutSecond, LockSecond
  <2>6. ASSUME NEW t \in Threads, GetFirst(t) \/ GetSecond(t) PROVE TypeOK'
    <3>1. got' \in [Threads -> Pair]
      <4>1. got' = got \/ got' = [got EXCEPT ![t] = [got[t] EXCEPT !.first = ofd.first]]
                       \/ got' = [got EXCEPT ![t] = [got[t] EXCEPT !.second = ofd.second]]
        BY <2>6 DEF GetFirst, GetSecond
      <4>2. ofd.first \in Values /\ ofd.second \in Values /\ got[t] \in Pair
        BY SMT
      <4>3. /\ [got[t] EXCEPT !.first = ofd.first] \in Pair
            /\ [got[t] EXCEPT !.second = ofd.second] \in Pair
        BY <4>2, PairUpdate
      <4> HIDE DEF Pair
      <4> QED
        BY <4>1, <4>3
    <3>2. CASE GetFirst(t)
      BY <3>1, <3>2 DEF GetFirst, LockFirst
    <3>3. CASE GetSecond(t)
      BY <3>1, <3>3 DEF GetSecond, LockSecond
    <3> QED
      BY <2>6, <3>2, <3>3
  <2>8. CASE UNCHANGED vars
    BY <2>8
  <2> QED
    BY <2>1, <2>2, <2>3, <2>4, <2>5, <2>6, <2>8, Steps
<1> QED
  BY <1>1, <1>2, PTL DEF Spec

\* setAutoOpenShift loses no setting of the receipts.  A mask about to be written
\* holds all of the table (MaskIsCurrent): it was received, and nobody else
\* writes another bit in between.
THEOREM MaskInvariant == Spec => []MaskIsCurrent
<1>1. Init => MaskIsCurrent
  BY DEF Init, MaskIsCurrent
<1>2. TypeOK /\ MaskIsCurrent /\ [Next]_vars => MaskIsCurrent'
  <2> SUFFICES ASSUME TypeOK, MaskIsCurrent, [Next]_vars PROVE MaskIsCurrent'
    OBVIOUS
  <2> USE DEF TypeOK, MaskIsCurrent, Goto, SetOk, tables, local, history, vars
  <2>1. ASSUME NEW t \in Threads, NEW o \in Ops, NEW v \in Values, Call(t, o, v)
        PROVE  MaskIsCurrent'
    BY <2>1 DEF Call, Start, FirstPlace
  <2>2. ASSUME NEW t \in Threads, Read(t) PROVE MaskIsCurrent'
    BY <2>2 DEF Read, Wants, Received, Current, Table, Writes, Completed
  <2>3. ASSUME NEW t \in Threads, Write(t) PROVE MaskIsCurrent'
    BY <2>3 DEF Write, Table
  <2>4. ASSUME NEW t \in Threads, PutFirst(t) \/ PutSecond(t) PROVE MaskIsCurrent'
    BY <2>4 DEF PutFirst, PutSecond
  <2>5. ASSUME NEW t \in Threads, GetFirst(t) \/ GetSecond(t) PROVE MaskIsCurrent'
    BY <2>5 DEF GetFirst, GetSecond
  <2>7. CASE UNCHANGED vars
    BY <2>7
  <2> QED
    BY <2>1, <2>2, <2>3, <2>4, <2>5, <2>7, Steps
<1> QED
  BY <1>1, <1>2, TypeCorrect, PTL DEF Spec

THEOREM PurchaseKept == Spec => PurchaseOnlyGains
<1>1. ASSUME MaskIsCurrent, [Next]_vars
      PROVE  purchase \subseteq purchase' /\ purchase' \ purchase \subseteq {AutoShift}
  <2> USE DEF tables, history, vars
  <2>1. ASSUME NEW t \in Threads, Write(t)
        PROVE  purchase \subseteq purchase' /\ purchase' \ purchase \subseteq {AutoShift}
    <3>1. purchase' = purchase
          \/ (pc[t] = "write" /\ op[t] = "setAutoOpenShift" /\ purchase' = mask[t])
      BY <2>1 DEF Write, Table
    <3> QED
      BY <1>1, <3>1 DEF MaskIsCurrent
  <2>2. (\A t \in Threads : ~Write(t)) => purchase' = purchase
    BY <1>1, Steps
    DEF Call, Start, Read, PutFirst, PutSecond, GetFirst, GetSecond
  <2> QED
    BY <2>1, <2>2
<1> QED
  BY <1>1, MaskInvariant, PTL DEF Spec, PurchaseOnlyGains

\* setPrinterExPrint and setPrinterExNotPrint: the masks that two threads have received
\* and not yet written differ from the table, and from each other, in one bit.
THEOREM PrinterMaskInvariant == Spec => []PrinterMaskIsCurrent
<1>1. Init => PrinterMaskIsCurrent
  BY DEF Init, PrinterMaskIsCurrent
<1>2. TypeOK /\ PrinterMaskIsCurrent /\ [Next]_vars => PrinterMaskIsCurrent'
  <2> SUFFICES ASSUME TypeOK, PrinterMaskIsCurrent, [Next]_vars, "read" \notin failures'
               PROVE  PrinterMaskIsCurrent'
    BY DEF PrinterMaskIsCurrent
  <2> USE DEF TypeOK, PrinterMaskIsCurrent, Goto, SetOk, Record, tables, local, history, vars
  <2>1. ASSUME NEW t \in Threads, NEW o \in Ops, NEW v \in Values, Call(t, o, v)
        PROVE  PrinterMaskIsCurrent'
    BY <2>1 DEF Call, Start, FirstPlace
  <2>2. ASSUME NEW t \in Threads, Read(t) PROVE PrinterMaskIsCurrent'
    <3>1. PICK o \in Outcomes :
            /\ mask' = [mask EXCEPT ![t] = Wants(op[t], Received(o, Current(op[t])))]
            /\ Goto(t, IF Writes(op[t], o) THEN "write" ELSE "idle")
            /\ Record("read", op[t] # "setAutoOpenShift" /\ ~Completed(o))
      BY <2>2 DEF Read
    <3>2. "read" \notin failures /\ (op[t] # "setAutoOpenShift" => Completed(o))
      BY <3>1
    <3>3. op[t] # "setAutoOpenShift" => mask'[t] \ {NotPrint} = kkt \ {NotPrint}
      BY <3>1, <3>2 DEF Wants, Received, Current, Table
    <3> QED
      BY <2>2, <3>1, <3>2, <3>3 DEF Read
  <2>3. ASSUME NEW t \in Threads, Write(t) PROVE PrinterMaskIsCurrent'
    <3>1. /\ UNCHANGED <<op, failures>> /\ "read" \notin failures
          /\ pc' = [pc EXCEPT ![t] = "idle"] /\ mask' = [mask EXCEPT ![t] = {}]
      BY <2>3 DEF Write
    <3>2. kkt' \ {NotPrint} = kkt \ {NotPrint}
      <4>1. kkt' = kkt \/ (pc[t] = "write" /\ op[t] # "setAutoOpenShift" /\ kkt' = mask[t])
        BY <2>3 DEF Write, Table
      <4> QED
        BY <3>1, <4>1
    <3>3. ASSUME NEW s \in Threads, pc'[s] = "write", op'[s] # "setAutoOpenShift"
          PROVE  mask'[s] \ {NotPrint} = kkt' \ {NotPrint}
      <4>1. s # t /\ pc[s] = "write" /\ mask'[s] = mask[s]
        BY <3>1, <3>3
      <4> QED
        BY <3>1, <3>2, <3>3, <4>1
    <3> QED
      BY <3>3
  <2>4. ASSUME NEW t \in Threads, PutFirst(t) \/ PutSecond(t) PROVE PrinterMaskIsCurrent'
    <3>1. failures \subseteq failures' /\ UNCHANGED <<op, mask, kkt>>
      BY <2>4 DEF PutFirst, PutSecond
    <3>2. \A s \in Threads : pc'[s] = "write" => pc[s] = "write"
      BY <2>4 DEF PutFirst, PutSecond
    <3> QED
      BY <3>1, <3>2
  <2>5. ASSUME NEW t \in Threads, GetFirst(t) \/ GetSecond(t) PROVE PrinterMaskIsCurrent'
    BY <2>5 DEF GetFirst, GetSecond
  <2>6. CASE UNCHANGED vars
    BY <2>6
  <2> QED
    BY <2>1, <2>2, <2>3, <2>4, <2>5, <2>6, Steps
<1> QED
  BY <1>1, <1>2, TypeCorrect, PTL DEF Spec

\* The other settings of the printing device survive the two calls, however their
\* threads interleave, unless a read of the table failed.
THEOREM PrinterKept == Spec => PrinterSettingsKept
<1>1. ASSUME PrinterMaskIsCurrent, [Next]_vars
      PROVE  kkt' \ {NotPrint} # kkt \ {NotPrint} => "read" \in failures
  <2>1. ASSUME NEW t \in Threads, Write(t)
        PROVE  kkt' \ {NotPrint} # kkt \ {NotPrint} => "read" \in failures
    <3>1. kkt' = kkt \/ (pc[t] = "write" /\ op[t] # "setAutoOpenShift" /\ kkt' = mask[t])
      BY <2>1 DEF Write, Table
    <3> QED
      BY <1>1, <3>1 DEF PrinterMaskIsCurrent
  <2>2. (\A t \in Threads : ~Write(t)) => kkt' = kkt
    BY <1>1, Steps
    DEF Call, Start, Read, PutFirst, PutSecond, GetFirst, GetSecond, tables, history, vars
  <2> QED
    BY <2>1, <2>2
<1> QED
  BY <1>1, PrinterMaskInvariant, PTL DEF Spec, PrinterSettingsKept

\* The address and the port of the OFD server: both parts are written, and read,
\* under one holding of the mutex.
THEOREM OfdInvariant == Spec => []OfdInv
<1>1. Init => OfdInv
  BY DEF Init, OfdInv, PlaceMatches, HolderMatches, OfdIsExplained, WriterIsCurrent,
         ReaderIsCurrent, Mixed
<1>2. TypeOK /\ OfdInv /\ [Next]_vars => OfdInv'
  <2> SUFFICES ASSUME TypeOK, OfdInv, [Next]_vars PROVE OfdInv'
    OBVIOUS
  <2> USE DEF TypeOK, OfdInv, PlaceMatches, HolderMatches, OfdIsExplained, WriterIsCurrent,
              ReaderIsCurrent, Mixed, Keeps, Goto, SetOk, Record, Pair, BriefLock,
              tables, local, history, vars
  <2>1. ASSUME NEW t \in Threads, NEW o \in Ops, NEW v \in Values, Call(t, o, v)
        PROVE  OfdInv'
    BY <2>1 DEF Call, Start, FirstPlace
  <2>2. ASSUME NEW t \in Threads, Read(t) PROVE OfdInv'
    BY <2>2 DEF Read
  <2>3. ASSUME NEW t \in Threads, Write(t) PROVE OfdInv'
    BY <2>3 DEF Write
  <2>4. ASSUME NEW t \in Threads, PutFirst(t) PROVE OfdInv'
    <3> USE <2>4 DEF PutFirst, LockFirst, Outcomes, Executed, Completed
    <3>1. PlaceMatches' /\ HolderMatches'
      OBVIOUS
    <3>2. OfdIsExplained'
      OBVIOUS
    <3>3. ReaderIsCurrent' /\ WriterIsCurrent'
      OBVIOUS
    <3> QED
      BY <3>1, <3>2, <3>3
  <2>5. ASSUME NEW t \in Threads, PutSecond(t) PROVE OfdInv'
    <3> USE <2>5 DEF PutSecond, LockSecond, Outcomes, Executed, Completed
    <3>1. PlaceMatches' /\ HolderMatches'
      OBVIOUS
    <3>2. OfdIsExplained'
      OBVIOUS
    <3>3. ReaderIsCurrent' /\ WriterIsCurrent'
      OBVIOUS
    <3> QED
      BY <3>1, <3>2, <3>3
  <2>6. ASSUME NEW t \in Threads, GetFirst(t) PROVE OfdInv'
    <3> PICK b \in BOOLEAN :
          /\ LockFirst(t, op[t], b)
          /\ got' = IF b THEN [got EXCEPT ![t].first = ofd.first] ELSE got
          /\ Goto(t, IF b THEN "second" ELSE "idle") /\ SetOk(t, FALSE)
      BY <2>6 DEF GetFirst
    <3> USE <2>6 DEF GetFirst, LockFirst
    <3>1. PlaceMatches' /\ HolderMatches'
      OBVIOUS
    <3>2. OfdIsExplained' /\ WriterIsCurrent'
      OBVIOUS
    <3>3. ReaderIsCurrent'
      <4>1. CASE b
        <5>1. got'[t].first = ofd.first
          BY <4>1
        <5>2. \A s \in Threads : mutex' = s => s = t
          BY <4>1
        <5> QED
          BY <5>1, <5>2
      <4>2. CASE ~b
        BY <4>2, SettingsAssumption
      <4> QED
        BY <4>1, <4>2
    <3> QED
      BY <3>1, <3>2, <3>3
  <2>7. ASSUME NEW t \in Threads, GetSecond(t) PROVE OfdInv'
    BY <2>7 DEF GetSecond, LockSecond
  <2>9. CASE UNCHANGED vars
    BY <2>9
  <2> QED
    BY <2>1, <2>2, <2>3, <2>4, <2>5, <2>6, <2>7, <2>9, Steps
<1> QED
  BY <1>1, <1>2, TypeCorrect, PTL DEF Spec

THEOREM OfdTogether == Spec => []OfdSettingsTogether
<1>1. OfdInv => OfdSettingsTogether
  BY DEF OfdInv, OfdIsExplained, OfdSettingsTogether
<1> QED
  BY <1>1, OfdInvariant, PTL

-----------------------------------------------------------------------------
(* The two calls about the OFD implement PairCall                           *)

\* What getOFDSettings answers with is the address and the port of one call, under the
\* same condition.
THEOREM OfdRead == Spec => []OfdReadTogether
<1>1. Init => OfdReadTogether
  BY DEF Init, OfdReadTogether
<1>2. TypeOK /\ OfdInv /\ OfdReadTogether /\ [Next]_vars => OfdReadTogether'
  <2> SUFFICES ASSUME TypeOK, OfdInv, OfdReadTogether, [Next]_vars PROVE OfdReadTogether'
    OBVIOUS
  <2> USE DEF TypeOK, OfdReadTogether, Mixed, Goto, SetOk, Record, tables, local, history, vars
  <2>1. ASSUME NEW t \in Threads, NEW o \in Ops, NEW v \in Values, Call(t, o, v)
        PROVE  OfdReadTogether'
    BY <2>1 DEF Call, Start
  <2>2. ASSUME NEW t \in Threads, Read(t) \/ Write(t) PROVE OfdReadTogether'
    BY <2>2 DEF Read, Write, OfdInv, PlaceMatches
  <2>3. ASSUME NEW t \in Threads, PutFirst(t) \/ PutSecond(t) PROVE OfdReadTogether'
    BY <2>3 DEF PutFirst, PutSecond
  <2>4. ASSUME NEW t \in Threads, GetFirst(t) PROVE OfdReadTogether'
    BY <2>4 DEF GetFirst
  <2>5. ASSUME NEW t \in Threads, GetSecond(t) PROVE OfdReadTogether'
    <3>1. mutex = t /\ op[t] = "getOFDSettings" /\ UNCHANGED <<op, failures>>
      BY <2>5 DEF GetSecond, LockSecond, Keeps
    <3>2. got[t].first = ofd.first /\ (Mixed(ofd) => "half" \in failures)
      BY <3>1 DEF OfdInv, ReaderIsCurrent, OfdIsExplained
    <3>3. ok'[t] => got'[t].first = ofd.first /\ got'[t].second = ofd.second
      BY <2>5, <3>2 DEF GetSecond, Pair
    <3>4. \A s \in Threads : s # t => pc'[s] = pc[s] /\ ok'[s] = ok[s] /\ got'[s] = got[s]
      BY <2>5 DEF GetSecond
    <3> QED
      BY <3>1, <3>2, <3>3, <3>4
  <2>6. CASE UNCHANGED vars
    BY <2>6
  <2> QED
    BY <2>1, <2>2, <2>3, <2>4, <2>5, <2>6, Steps
<1> QED
  BY <1>1, <1>2, TypeCorrect, OfdInvariant, PTL DEF Spec

\* Name and address of the organisation are of one call whenever no call is under way
\* and none has failed half way, as long as no two threads call setENVDRegData: the two
\* holdings of the mutex that it takes are no danger to one caller, whatever the others
\* do in between.
THEOREM OrgTogether ==
  ASSUME OneRegisters
  PROVE  Spec => []OrgDataTogether
<1>1. Init => OrgIsExplained
  BY DEF Init, OrgIsExplained, Registering, Mixed
<1>2. TypeOK /\ OrgIsExplained /\ [Next]_vars => OrgIsExplained'
  <2> SUFFICES ASSUME TypeOK, OrgIsExplained, [Next]_vars PROVE OrgIsExplained'
    OBVIOUS
  <2> USE DEF TypeOK, OrgIsExplained, Registering, Mixed, Goto, SetOk, Record,
              tables, local, history, vars
  \* Two threads are not about setENVDRegData at once.
  <2>1. ASSUME NEW s \in Threads, NEW t \in Threads, pc[s] # "idle", pc[t] # "idle",
               op[s] = "setENVDRegData", op[t] = "setENVDRegData"
        PROVE  s = t
    BY <2>1, OneRegisters DEF OneRegisters
  <2>2. ASSUME NEW t \in Threads, NEW o \in Ops, NEW v \in Values, Call(t, o, v)
        PROVE  OrgIsExplained'
    BY <2>2 DEF Call, Start, FirstPlace
  <2>3. ASSUME NEW t \in Threads, Read(t) \/ Write(t) \/ GetFirst(t) \/ GetSecond(t),
               ~Registering(t)
        PROVE  OrgIsExplained'
    <3>1. /\ UNCHANGED <<org, op, arg>>
          /\ "half" \in failures <=> "half" \in failures'
          /\ \A s \in Threads : Registering(s)' <=> Registering(s)
          /\ \A s \in Threads : pc'[s] # "idle" => pc[s] # "idle"
      BY <2>3 DEF Read, Write, GetFirst, GetSecond
    <3> QED
      BY <3>1
  <2>4. ASSUME NEW t \in Threads, PutFirst(t) PROVE OrgIsExplained'
    <3>1. PICK o \in Outcomes :
            /\ org' = IF Executed(o) /\ op[t] = "setENVDRegData"
                      THEN [org EXCEPT !.first = arg[t]] ELSE org
            /\ Goto(t, IF Completed(o) THEN "second" ELSE "idle")
            /\ Record("half", o = "lost")
      BY <2>4 DEF PutFirst
    <3>2. op' = op /\ arg' = arg /\ pc[t] = "first"
      BY <2>4 DEF PutFirst
    <3>3. ASSUME "half" \notin failures'
          PROVE  /\ "half" \notin failures
                 /\ \/ Completed(o) /\ pc'[t] = "second" /\ Executed(o)
                    \/ ~Executed(o) /\ pc'[t] = "idle" /\ org' = org
      BY <3>1, <3>3 DEF Outcomes, Executed, Completed
    <3>4. CASE op[t] = "setENVDRegData"
      <4>1. \A s \in Threads : s # t => ~Registering(s)
        BY <2>1, <3>2, <3>4
      <4> QED
        BY <3>1, <3>2, <3>3, <3>4, <4>1 DEF Pair
    <3>5. CASE op[t] # "setENVDRegData"
      BY <3>1, <3>2, <3>3, <3>5
    <3> QED
      BY <3>4, <3>5
  <2>5. ASSUME NEW t \in Threads, PutSecond(t) PROVE OrgIsExplained'
    <3>1. PICK o \in Outcomes :
            /\ org' = IF Executed(o) /\ op[t] = "setENVDRegData"
                      THEN [org EXCEPT !.second = arg[t]] ELSE org
            /\ Record("half", ~Executed(o))
      BY <2>5 DEF PutSecond
    <3>2. op' = op /\ arg' = arg /\ pc[t] = "second" /\ pc' = [pc EXCEPT ![t] = "idle"]
      BY <2>5 DEF PutSecond
    <3>3. ASSUME "half" \notin failures' PROVE "half" \notin failures /\ Executed(o)
      BY <3>1, <3>3 DEF Executed
    <3>4. CASE op[t] = "setENVDRegData"
      <4>1. \A s \in Threads : s # t => ~Registering(s)
        BY <2>1, <3>2, <3>4
      <4> QED
        BY <3>1, <3>2, <3>3, <3>4, <4>1 DEF Pair
    <3>5. CASE op[t] # "setENVDRegData"
      BY <3>1, <3>2, <3>3, <3>5
    <3> QED
      BY <3>4, <3>5
  <2>6. CASE UNCHANGED vars
    BY <2>6
  <2>7. ASSUME NEW t \in Threads, Read(t) \/ Write(t) \/ GetFirst(t) \/ GetSecond(t)
        PROVE  ~Registering(t)
    BY <2>7 DEF Read, Write, GetFirst, GetSecond
  <2> QED
    BY <2>2, <2>3, <2>4, <2>5, <2>6, <2>7, Steps
<1>3. OrgIsExplained => OrgDataTogether
  BY DEF OrgIsExplained, Registering, OrgDataTogether
<1> QED
  BY <1>1, <1>2, <1>3, TypeCorrect, PTL DEF Spec

\* What the callers have seen of the pair is what the printer holds, but for the first
\* part of a call that has not ended.
THEOREM ShownInvariant == Spec => [](ShownIsCurrent /\ NotYetOk)
<1>1. Init => ShownIsCurrent /\ NotYetOk
  BY DEF Init, ShownIsCurrent, NotYetOk
<1>2. TypeOK /\ OfdInv /\ ShownIsCurrent /\ NotYetOk /\ [Next]_vars
        => (ShownIsCurrent /\ NotYetOk)'
  <2> SUFFICES ASSUME TypeOK, OfdInv, ShownIsCurrent, NotYetOk, [Next]_vars
               PROVE  ShownIsCurrent' /\ NotYetOk'
    OBVIOUS
  <2> USE DEF TypeOK, ShownIsCurrent, NotYetOk, Goto, SetOk, tables, local, history, vars
  <2>1. ASSUME NEW t \in Threads, NEW o \in Ops, NEW v \in Values, Call(t, o, v)
        PROVE  ShownIsCurrent' /\ NotYetOk'
    <3>1. mutex # t /\ mutex' = mutex /\ \A s \in Threads \ {t} : op'[s] = op[s]
      BY <2>1 DEF Call, Start, OfdInv, HolderMatches
    <3>2. ShownIsCurrent'
      BY <2>1, <3>1 DEF Call, Start
    <3>3. NotYetOk'
      BY <2>1 DEF Call
    <3> QED
      BY <3>2, <3>3
  <2>2. ASSUME NEW t \in Threads, Read(t) PROVE ShownIsCurrent' /\ NotYetOk'
    BY <2>2 DEF Read, BriefLock
  <2>3. ASSUME NEW t \in Threads, Write(t) PROVE ShownIsCurrent' /\ NotYetOk'
    BY <2>3 DEF Write, BriefLock
  <2>4. ASSUME NEW t \in Threads, PutFirst(t) PROVE ShownIsCurrent' /\ NotYetOk'
    <3>1. NotYetOk'
      BY <2>4 DEF PutFirst
    <3>2. mutex = Nobody /\ mutex' \in {t, Nobody} /\ op' = op /\ op[t] # "getOFDSettings"
      BY <2>4 DEF PutFirst, LockFirst
    <3>3. shown = ofd /\ ofd'.second = ofd.second
      BY <2>4, <3>2 DEF PutFirst, Pair
    <3> QED
      BY <2>4, <3>1, <3>2, <3>3 DEF PutFirst, Show
  <2>5. ASSUME NEW t \in Threads, PutSecond(t) PROVE ShownIsCurrent' /\ NotYetOk'
    BY <2>5 DEF PutSecond, LockSecond, Show
  <2>6. ASSUME NEW t \in Threads, GetFirst(t) PROVE ShownIsCurrent' /\ NotYetOk'
    BY <2>6 DEF GetFirst, LockFirst
  <2>7. ASSUME NEW t \in Threads, GetSecond(t) PROVE ShownIsCurrent' /\ NotYetOk'
    BY <2>7 DEF GetSecond, LockSecond, OfdInv, HolderMatches, Keeps
  <2>8. CASE UNCHANGED vars
    BY <2>8
  <2> QED
    BY <2>1, <2>2, <2>3, <2>4, <2>5, <2>6, <2>7, <2>8, Steps
<1> QED
  BY <1>1, <1>2, TypeCorrect, OfdInvariant, PTL DEF Spec

\* What PairCall sees of a step of thread t: its functions change at t only.
LEMMA OneCall ==
  ASSUME NEW t \in Threads,
         \A s \in Threads \ {t} : /\ pc'[s] = pc[s] /\ op'[s] = op[s]
                                  /\ ok'[s] = ok[s] /\ got'[s] = got[s]
  PROVE  /\ [s \in Threads |-> OfdCall(s)']
              = [[s \in Threads |-> OfdCall(s)] EXCEPT ![t] = OfdCall(t)']
         /\ [s \in Threads |-> OfdEnded(s)']
              = [[s \in Threads |-> OfdEnded(s)] EXCEPT ![t] = OfdEnded(t)']
         /\ [s \in Threads |-> OfdAnswer(s)']
              = [[s \in Threads |-> OfdAnswer(s)] EXCEPT ![t] = OfdAnswer(t)']
<1>1. ASSUME NEW s \in Threads \ {t}
      PROVE  OfdCall(s)' = OfdCall(s) /\ OfdEnded(s)' = OfdEnded(s)
               /\ OfdAnswer(s)' = OfdAnswer(s)
  <2>1. pc'[s] = pc[s] /\ op'[s] = op[s] /\ ok'[s] = ok[s] /\ got'[s] = got[s]
    OBVIOUS
  <2>2. OfdCall(s)' = OfdCall(s)
    BY <2>1 DEF OfdCall
  <2>3. OfdEnded(s)' = OfdEnded(s)
    BY <2>1 DEF OfdEnded
  <2>4. OfdAnswer(s)' = OfdAnswer(s)
    BY <2>1, <2>3 DEF OfdAnswer
  <2> QED
    BY <2>2, <2>3, <2>4
<1>2. /\ [s \in Threads |-> OfdCall(s)']
           = [[s \in Threads |-> OfdCall(s)] EXCEPT ![t] = OfdCall(t)']
  BY <1>1
<1>3. [s \in Threads |-> OfdEnded(s)']
        = [[s \in Threads |-> OfdEnded(s)] EXCEPT ![t] = OfdEnded(t)']
  BY <1>1
<1>4. [s \in Threads |-> OfdAnswer(s)']
        = [[s \in Threads |-> OfdAnswer(s)] EXCEPT ![t] = OfdAnswer(t)']
  BY <1>1
<1> QED
  BY <1>2, <1>3, <1>4

\* A step that PairCall does not see.
LEMMA Unseen ==
  ASSUME shown' = shown, arg' = arg, NEW t \in Threads,
         \A s \in Threads \ {t} : /\ pc'[s] = pc[s] /\ op'[s] = op[s]
                                  /\ ok'[s] = ok[s] /\ got'[s] = got[s],
         OfdCall(t)' = OfdCall(t), OfdEnded(t)' = OfdEnded(t), OfdAnswer(t)' = OfdAnswer(t)
  PROVE  UNCHANGED Abstract!vars
BY OneCall DEF Abstract!vars

LEMMA AskRefines ==
  ASSUME TypeOK, NEW t \in Threads, NEW o \in Ops, NEW v \in Values, Call(t, o, v)
  PROVE  Abstract!Next
<1> USE DEF Call, Start, Goto, SetOk, TypeOK
<1>1. \A s \in Threads \ {t} : /\ pc'[s] = pc[s] /\ op'[s] = op[s]
                               /\ ok'[s] = ok[s] /\ got'[s] = got[s]
  BY DEF Call
<1>2. OfdCall(t) = "none" /\ OfdCall(t)' \in {"none", "put", "get"}
  BY DEF OfdCall
<1>3. ok'[t] = FALSE
  OBVIOUS
<1>4. OfdEnded(t)' = FALSE /\ OfdAnswer(t)' = Nobody
  BY <1>3 DEF OfdEnded, OfdAnswer
<1>5. arg'[t] \in Values /\ arg' = [arg EXCEPT ![t] = arg'[t]]
  OBVIOUS
<1>6. shown' = shown
  BY DEF history
<1>7. Abstract!Ask(t, OfdCall(t)', arg'[t])
  BY <1>1, <1>2, <1>4, <1>5, <1>6, OneCall DEF Abstract!Ask
<1> QED
  BY <1>2, <1>5, <1>7 DEF Abstract!Next

LEMMA MaskUnseen ==
  ASSUME TypeOK, OfdInv, NEW t \in Threads, Read(t) \/ Write(t)
  PROVE  UNCHANGED Abstract!vars
<1>1. op[t] \in MaskOps /\ op' = op /\ got' = got /\ arg' = arg /\ shown' = shown
  BY DEF Read, Write, OfdInv, PlaceMatches, history
<1>2. \A s \in Threads \ {t} : /\ pc'[s] = pc[s] /\ op'[s] = op[s]
                               /\ ok'[s] = ok[s] /\ got'[s] = got[s]
  BY DEF Read, Write, Goto, SetOk, TypeOK, history
<1>3. OfdCall(t)' = "none" /\ OfdCall(t) = "none"
  BY <1>1 DEF OfdCall
<1>4. OfdEnded(t)' = FALSE /\ OfdEnded(t) = FALSE
  BY <1>1 DEF OfdEnded
<1>5. OfdAnswer(t)' = Nobody /\ OfdAnswer(t) = Nobody
  BY <1>4 DEF OfdAnswer
<1>6. OfdCall(t)' = OfdCall(t)
  BY <1>3
<1>7. OfdEnded(t)' = OfdEnded(t)
  BY <1>4
<1>8. OfdAnswer(t)' = OfdAnswer(t)
  BY <1>5
<1> QED
  BY <1>1, <1>2, <1>6, <1>7, <1>8, Unseen

\* The end of a call, with the result b.
LEMMA CallEnds ==
  ASSUME TypeOK, NEW t \in Threads, NEW b \in BOOLEAN,
         op' = op, op[t] \in {"setOFDSettings", "getOFDSettings"}, arg' = arg,
         pc[t] # "idle", pc' = [pc EXCEPT ![t] = "idle"],
         \A s \in Threads \ {t} : ok'[s] = ok[s] /\ got'[s] = got[s],
         ok'[t] = b
  PROVE  Abstract!End(t, b)
<1>1. \A s \in Threads \ {t} : /\ pc'[s] = pc[s] /\ op'[s] = op[s]
                               /\ ok'[s] = ok[s] /\ got'[s] = got[s]
  BY DEF TypeOK
<1>2. OfdCall(t)' = "none"
  BY DEF OfdCall, TypeOK
<1>3. OfdEnded(t)' = b
  BY DEF OfdEnded, TypeOK
<1> QED
  BY <1>1, <1>2, <1>3, OneCall DEF Abstract!End

\* The parts of the pair a call has written.
LEMMA PutRefines ==
  ASSUME TypeOK, OfdInv, ShownIsCurrent, NotYetOk, NEW t \in Threads,
         PutFirst(t) \/ PutSecond(t)
  PROVE  Abstract!Next \/ UNCHANGED Abstract!vars
<1> USE DEF TypeOK, Goto, SetOk
<1>1. /\ op' = op /\ got' = got /\ arg' = arg /\ pc[t] \in {"first", "second"}
      /\ op[t] \in {"setOFDSettings", "setENVDRegData"}
      /\ mutex \in {t, Nobody} /\ shown' = IF mutex' = Nobody THEN ofd' ELSE shown
  BY DEF PutFirst, PutSecond, LockFirst, LockSecond, Show, local, OfdInv, PlaceMatches
<1>2. \A s \in Threads \ {t} : /\ pc'[s] = pc[s] /\ op'[s] = op[s]
                               /\ ok'[s] = ok[s] /\ got'[s] = got[s]
  BY <1>1 DEF PutFirst, PutSecond
<1>3. CASE op[t] = "setENVDRegData"
  <2>1. ofd' = ofd /\ mutex = Nobody /\ mutex' = Nobody
    BY <1>3 DEF PutFirst, PutSecond, LockFirst, LockSecond, Keeps
  <2>2. shown' = shown
    BY <1>1, <2>1 DEF ShownIsCurrent
  <2>3. OfdCall(t)' = "none" /\ OfdCall(t) = "none"
    BY <1>1, <1>3 DEF OfdCall
  <2>4. OfdEnded(t)' = FALSE /\ OfdEnded(t) = FALSE
    BY <1>1, <1>3 DEF OfdEnded
  <2>5. OfdAnswer(t)' = Nobody /\ OfdAnswer(t) = Nobody
    BY <2>4 DEF OfdAnswer
  <2>6. OfdCall(t)' = OfdCall(t)
    BY <2>3
  <2>7. OfdEnded(t)' = OfdEnded(t)
    BY <2>4
  <2>8. OfdAnswer(t)' = OfdAnswer(t)
    BY <2>5
  <2> QED
    BY <1>1, <1>2, <2>2, <2>6, <2>7, <2>8, Unseen
<1>4. ASSUME op[t] = "setOFDSettings", NEW b \in BOOLEAN,
             pc' = [pc EXCEPT ![t] = "idle"], ok'[t] = b, mutex' = Nobody,
             \/ ofd' = [first |-> arg[t], second |-> arg[t]]
             \/ ~b /\ ofd' = [shown EXCEPT !.first = arg[t]]
             \/ ~b /\ ofd' = shown
      PROVE  Abstract!Next
  <2>1. OfdCall(t) = "put"
    BY <1>1, <1>4 DEF OfdCall
  <2>2. Abstract!End(t, b)
    <3>1. pc[t] # "idle" /\ op[t] \in {"setOFDSettings", "getOFDSettings"}
      BY <1>1, <1>4
    <3>2. \A s \in Threads \ {t} : ok'[s] = ok[s] /\ got'[s] = got[s]
      BY <1>2
    <3>3. op' = op /\ arg' = arg /\ pc' = [pc EXCEPT ![t] = "idle"] /\ ok'[t] = b
      BY <1>1, <1>4
    <3>4. TypeOK
      OBVIOUS
    <3> HIDE DEF TypeOK
    <3> QED
      BY <3>1, <3>2, <3>3, <3>4, CallEnds
  <2>3. OfdAnswer(t)' = Nobody /\ OfdAnswer(t) = Nobody
    BY <1>1, <1>4 DEF OfdAnswer
  <2>4. [s \in Threads |-> OfdAnswer(s)'] = [s \in Threads |-> OfdAnswer(s)]
    <3>1. [s \in Threads |-> OfdAnswer(s)']
            = [[s \in Threads |-> OfdAnswer(s)] EXCEPT ![t] = OfdAnswer(t)']
      BY <1>2, OneCall
    <3> QED
      BY <2>3, <3>1
  <2>5. Abstract!Put(t, b)
    BY <1>1, <1>4, <2>1, <2>2, <2>4 DEF Abstract!Put, Abstract!Whole
  <2> QED
    BY <2>5 DEF Abstract!Next
<1>5. CASE PutFirst(t) /\ op[t] = "setOFDSettings"
  <2>1. mutex = Nobody /\ shown = ofd /\ ~ok[t] /\ ok' = ok
    BY <1>1, <1>5 DEF PutFirst, LockFirst, ShownIsCurrent, NotYetOk
  <2>2. PICK o \in Outcomes :
          /\ LockFirst(t, op[t], Completed(o))
          /\ ofd' = IF Executed(o) /\ op[t] = "setOFDSettings"
                    THEN [ofd EXCEPT !.first = arg[t]] ELSE ofd
          /\ Goto(t, IF Completed(o) THEN "second" ELSE "idle")
    BY <1>5 DEF PutFirst
  <2>3. CASE Completed(o)
    <3>1. mutex' = t /\ pc' = [pc EXCEPT ![t] = "second"] /\ pc[t] = "first"
      BY <1>5, <2>2, <2>3 DEF LockFirst, Keeps, PutFirst
    <3>2. shown' = shown
      BY <1>1, <3>1
    <3>3. OfdCall(t)' = OfdCall(t) /\ OfdEnded(t)' = FALSE /\ OfdEnded(t) = FALSE
      BY <1>1, <3>1 DEF OfdCall, OfdEnded
    <3> QED
      BY <1>1, <1>2, <3>2, <3>3, Unseen DEF OfdAnswer
  <2>4. CASE ~Completed(o)
    <3>1. mutex' = Nobody /\ pc' = [pc EXCEPT ![t] = "idle"]
      BY <2>2, <2>4 DEF LockFirst
    <3>2. ok'[t] = FALSE
      BY <2>1
    <3> QED
      BY <1>4, <1>5, <2>1, <2>2, <3>1, <3>2
  <2> QED
    BY <2>3, <2>4
<1>6. CASE PutSecond(t) /\ op[t] = "setOFDSettings"
  <2>1. mutex = t /\ mutex' = Nobody /\ pc' = [pc EXCEPT ![t] = "idle"]
    BY <1>6 DEF PutSecond, LockSecond, Keeps
  <2>2. ofd.first = arg[t] /\ shown.second = ofd.second
    BY <1>6, <2>1 DEF OfdInv, WriterIsCurrent, ShownIsCurrent
  <2>3. PICK o \in Outcomes :
          /\ ofd' = IF Executed(o) THEN [ofd EXCEPT !.second = arg[t]] ELSE ofd
          /\ SetOk(t, Completed(o))
    BY <1>6 DEF PutSecond
  <2>4. ok'[t] = Completed(o) /\ Completed(o) \in BOOLEAN
    BY <2>3 DEF Completed
  <2>5. CASE Executed(o)
    <3>1. ofd' = [first |-> arg[t], second |-> arg[t]]
      BY <2>2, <2>3, <2>5 DEF Pair
    <3> QED
      BY <1>4, <1>6, <2>1, <2>4, <3>1
  <2>6. CASE ~Executed(o)
    <3>1. ofd' = [shown EXCEPT !.first = arg[t]]
      BY <2>2, <2>3, <2>6 DEF Pair
    <3>2. ~Completed(o)
      BY <2>6 DEF Executed, Completed
    <3> QED
      BY <1>4, <1>6, <2>1, <2>4, <3>1, <3>2
  <2> QED
    BY <2>5, <2>6
<1> QED
  BY <1>1, <1>3, <1>5, <1>6

\* A pair is read under one holding of the mutex, so that it is the one there is.
LEMMA GetRefines ==
  ASSUME TypeOK, OfdInv, ShownIsCurrent, NotYetOk, NEW t \in Threads,
         GetFirst(t) \/ GetSecond(t)
  PROVE  Abstract!Next \/ UNCHANGED Abstract!vars
<1> USE DEF TypeOK, Goto, SetOk
<1>1. /\ op' = op /\ arg' = arg /\ pc[t] # "idle" /\ op[t] = "getOFDSettings"
      /\ shown' = shown /\ ofd' = ofd
  BY DEF GetFirst, GetSecond, tables, history
<1>2. \A s \in Threads \ {t} : /\ pc'[s] = pc[s] /\ op'[s] = op[s]
                               /\ ok'[s] = ok[s] /\ got'[s] = got[s]
  BY <1>1 DEF GetFirst, GetSecond
<1>3. OfdCall(t) = "get" /\ OfdEnded(t) = FALSE /\ OfdAnswer(t) = Nobody
  BY <1>1 DEF OfdCall, OfdEnded, OfdAnswer
<1>4. ASSUME NEW b \in BOOLEAN, pc' = [pc EXCEPT ![t] = "idle"], ok'[t] = b,
             b => got'[t] = shown
      PROVE  Abstract!Next
  <2>1. Abstract!End(t, b)
    BY <1>1, <1>2, <1>4, CallEnds
  <2>2. OfdEnded(t)' = b
    BY <1>1, <1>4 DEF OfdEnded
  <2>3. OfdAnswer(t)' = IF b THEN shown ELSE OfdAnswer(t)
    BY <1>1, <1>3, <1>4, <2>2 DEF OfdAnswer
  <2>4. [s \in Threads |-> OfdAnswer(s)']
          = [[s \in Threads |-> OfdAnswer(s)] EXCEPT ![t] = OfdAnswer(t)']
    BY <1>2, OneCall
  <2>5. [s \in Threads |-> OfdAnswer(s)']
          = IF b THEN [[s \in Threads |-> OfdAnswer(s)] EXCEPT ![t] = shown]
            ELSE [s \in Threads |-> OfdAnswer(s)]
    BY <2>3, <2>4
  <2>6. Abstract!Get(t, b)
    BY <1>1, <1>3, <2>1, <2>5 DEF Abstract!Get
  <2> QED
    BY <2>6 DEF Abstract!Next
<1>5. CASE GetFirst(t)
  <2>1. PICK b \in BOOLEAN :
          /\ Goto(t, IF b THEN "second" ELSE "idle") /\ SetOk(t, FALSE)
    BY <1>5 DEF GetFirst
  <2>2. ok'[t] = FALSE
    BY <2>1
  <2>3. CASE b
    <3>1. pc' = [pc EXCEPT ![t] = "second"]
      BY <2>1, <2>3
    <3>2. OfdCall(t)' = "get" /\ OfdEnded(t)' = FALSE
      BY <1>1, <3>1 DEF OfdCall, OfdEnded
    <3>3. OfdAnswer(t)' = OfdAnswer(t)
      BY <1>3, <3>2 DEF OfdAnswer
    <3>4. OfdCall(t)' = OfdCall(t)
      BY <1>3, <3>2
    <3>5. OfdEnded(t)' = OfdEnded(t)
      BY <1>3, <3>2
    <3> QED
      BY <1>1, <1>2, <3>3, <3>4, <3>5, Unseen
  <2>4. CASE ~b
    BY <1>4, <2>1, <2>2, <2>4
  <2> QED
    BY <2>3, <2>4
<1>6. CASE GetSecond(t)
  <2>1. mutex = t
    BY <1>1, <1>6 DEF GetSecond, LockSecond, Keeps
  <2>2. got[t].first = ofd.first
    BY <1>1, <2>1 DEF OfdInv, ReaderIsCurrent
  <2>3. shown = ofd
    BY <1>1, <2>1, SettingsAssumption DEF ShownIsCurrent
  <2>4. PICK b \in BOOLEAN :
          /\ got' = IF b THEN [got EXCEPT ![t].second = ofd.second] ELSE got
          /\ SetOk(t, b)
    BY <1>6 DEF GetSecond
  <2>5. ASSUME b PROVE got'[t] = shown
    <3>1. got'[t] = [got[t] EXCEPT !.second = ofd.second]
      BY <2>4, <2>5
    <3>2. got[t] \in Pair /\ ofd \in Pair
      OBVIOUS
    <3> QED
      BY <2>2, <2>3, <3>1, <3>2 DEF Pair
  <2>6. ok'[t] = b /\ pc' = [pc EXCEPT ![t] = "idle"]
    BY <1>6, <2>4 DEF GetSecond
  <2> QED
    BY <1>4, <2>5, <2>6
<1> QED
  BY <1>5, <1>6

LEMMA InitRefines == Init => Abstract!Init
<1> SUFFICES ASSUME Init PROVE Abstract!Init
  OBVIOUS
<1>1. PICK v \in Values \ BadValues :
        /\ shown = [first |-> v, second |-> v] /\ arg = [t \in Threads |-> v]
  BY DEF Init
<1>2. \A t \in Threads : OfdCall(t) = "none" /\ OfdEnded(t) = FALSE /\ OfdAnswer(t) = Nobody
  BY DEF Init, OfdCall, OfdEnded, OfdAnswer
<1> QED
  BY <1>1, <1>2 DEF Abstract!Init, Abstract!Whole

\* setOFDSettings and getOFDSettings are to their callers the atomic calls of PairCall:
\* a call that writes takes effect when it ends, a call that reads reads then.
THEOREM Refinement == Spec => AbstractSpec
<1>1. TypeOK /\ OfdInv /\ ShownIsCurrent /\ NotYetOk /\ [Next]_vars
        => [Abstract!Next]_Abstract!vars
  <2> SUFFICES ASSUME TypeOK, OfdInv, ShownIsCurrent, NotYetOk, [Next]_vars
               PROVE  [Abstract!Next]_Abstract!vars
    OBVIOUS
  <2>1. CASE UNCHANGED vars
    BY <2>1 DEF vars, local, history, Abstract!vars, OfdCall, OfdEnded, OfdAnswer
  <2> QED
    BY <2>1, AskRefines, MaskUnseen, PutRefines, GetRefines, Steps
<1> QED
  BY <1>1, InitRefines, TypeCorrect, OfdInvariant, ShownInvariant, PTL
     DEF Spec, AbstractSpec, Abstract!Spec

=============================================================================
