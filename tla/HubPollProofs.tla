---------------------------- MODULE HubPollProofs ----------------------------
(***************************************************************************)
(* What json_poll holds while the answers of the hub are parsed, whatever  *)
(* the hub answers and however long its answers are.                       *)
(***************************************************************************)
EXTENDS HubPoll, SequenceTheorems, FiniteSetTheorems, TLAPS

\* The disjuncts of Next, for the case splits below.
LEMMA Steps ==
  ASSUME [Next]_vars
  PROVE  \/ StartExchange \/ PollThrows \/ SkipTask \/ ParseTask \/ TaskThrows \/ PollReturns
         \/ \E r \in Failures \cup Verdicts : SendHandshake(r)
         \/ \E r \in Failures : PollFails(r)
         \/ \E r \in Verdicts \ {"OK"} : PollRefused(r)
         \/ \E s \in Answers : PollAnswered(s)
         \/ UNCHANGED vars
BY DEF Next

LEMMA ReadIdType == ASSUME NEW n \in Nat PROVE ReadId(n) \in Nat
BY HubAssumption DEF ReadId

LEMMA HubTaskType ==
  ASSUME NEW t \in HubTasks
  PROVE  /\ t.id \in Nat /\ t.type \in Types /\ t.carries \subseteq Extras
         /\ t.data \in {"good", "bad", "throws", "none"}
         /\ t.type \notin Keeping => t.carries = {}
         /\ t.type \in Failing => t.data = "good"
         /\ t.data = "none" => t.type \in LooksForData
BY HubAssumption DEF HubTasks

\* A task is parsed to a task of json_poll ...
LEMMA TaskType ==
  ASSUME NEW t \in HubTasks
  PROVE  Task(t) \in Tasks
<1>1. t.id \in Nat /\ t.type \in Types
  BY HubTaskType
<1>2. ReadId(t.id) \in Nat
  BY <1>1, ReadIdType
<1> QED
  BY <1>1, <1>2 DEF Task, Tasks

\* ... and, if its type has a list, to an entry of it.
LEMMA EntryType ==
  ASSUME NEW t \in HubTasks, kept \in [Keeping -> SUBSET Extras]
  PROVE  Entry(t) \in Data
<1>1. t.id \in Nat /\ t.carries \subseteq Extras
  BY HubTaskType
<1>2. EntryId(t) \in Nat
  BY <1>1, ReadIdType DEF EntryId
<1>3. t.type \in Keeping => Field(t) \subseteq Extras
  BY <1>1 DEF Field
<1> QED
  BY <1>2, <1>3 DEF Entry, Data

LEMMA EntryFields ==
  ASSUME NEW t
  PROVE  /\ Entry(t).id = EntryId(t)
         /\ Entry(t).valid = (t.data = "good")
         /\ Entry(t).carries = IF t.type \in Keeping THEN Field(t) ELSE {}
BY DEF Entry

LEMMA AnswerType == ASSUME NEW s \in Answers PROVE s \in Seq(HubTasks)
<1>1. PICK n \in 0..MaxTasks : s \in [1..n -> HubTasks]
  BY DEF Answers
<1> QED
  BY <1>1, HubAssumption

LEMMA CurrentType ==
  ASSUME TypeOK, More PROVE Current \in HubTasks
BY DEF TypeOK, More, Current

LEMMA KeepingLists == Keeping \subseteq Lists
BY DEF Keeping, Lists, Types, Failing

\* What ParseTask does to the lists.
LEMMA StoredData ==
  ASSUME NEW d \in [Lists -> Seq(Data)], NEW l \in Lists, NEW e \in Data
  PROVE  LET new == [d EXCEPT ![l] = Append(@, e)]
         IN  /\ new \in [Lists -> Seq(Data)]
             /\ new[l] = Append(d[l], e)
             /\ \A m \in Lists \ {l} : new[m] = d[m]
OBVIOUS

\* Every variable keeps its type.
THEOREM TypeCorrect == Spec => []TypeOK
<1>1. Init => TypeOK
  <2> SUFFICES ASSUME Init PROVE TypeOK
    OBVIOUS
  <2>1. Empty \in [Lists -> Seq(Data)] /\ Lengths(Empty) = [l \in Lists |-> 0]
    BY DEF Empty, Lengths
  <2>2. before \in [Lists -> Nat] /\ \A l \in Lists : before[l] <= Len(data[l])
    BY <2>1 DEF Init, Empty
  <2>3. tasks \in Seq(Tasks) /\ answer \in Seq(HubTasks) /\ next <= Len(answer) + 1
    BY DEF Init
  <2>4. isHandshake \in BOOLEAN
    BY Zenon DEF Init
  <2> QED
    BY <2>1, <2>2, <2>3, <2>4 DEF Init, TypeOK, NothingKept, Verdicts
<1>2. TypeOK /\ [Next]_vars => TypeOK'
  <2> SUFFICES ASSUME TypeOK, [Next]_vars PROVE TypeOK'
    OBVIOUS
  <2> USE DEF EndPoll, LocalsAfter, response, parser
  <2>n. NothingKept \in [Keeping -> SUBSET Extras]
    BY DEF NothingKept
  <2>l. \A d \in [Lists -> Seq(Data)] :
           Lengths(d) \in [Lists -> Nat] /\ \A l \in Lists : Lengths(d)[l] <= Len(d[l])
    BY DEF Lengths
  <2>1. CASE StartExchange
    BY <2>1 DEF StartExchange, TypeOK
  <2>2. ASSUME NEW r \in Failures \cup Verdicts, SendHandshake(r) PROVE TypeOK'
    <3>1. isHandshake' \in BOOLEAN
      BY <2>2, Zenon DEF SendHandshake, TypeOK
    <3>2. /\ pc' \in {"idle", "poll"}
          /\ ret' \in Failures \cup Verdicts \cup {"EXEPTION_JSON", "none"}
      BY <2>2 DEF SendHandshake, TypeOK, Verdicts
    <3> QED
      BY <2>2, <3>1, <3>2 DEF SendHandshake, TypeOK
  <2>3. ASSUME NEW r \in Failures, PollFails(r) PROVE TypeOK'
    BY <2>3, <2>n DEF PollFails, TypeOK
  <2>4. CASE PollThrows
    BY <2>4, <2>n, <2>l DEF PollThrows, StartParser, OldTasks, TypeOK
  <2>5. ASSUME NEW r \in Verdicts \ {"OK"}, PollRefused(r) PROVE TypeOK'
    <3>1. AfterClear(data) \in [Lists -> Seq(Data)]
      BY DEF AfterClear, TypeOK
    <3>2. data' \in [Lists -> Seq(Data)] /\ before' = Lengths(data')
      BY <2>5, <3>1 DEF PollRefused, StartParser, TypeOK
    <3>3. result' \in Verdicts \cup {"IN_PROGRESS"} /\ key' \in Nat
      BY <2>5 DEF PollRefused, TypeOK
    <3>4. /\ pc' = "idle" /\ ret' = r /\ kept' = NothingKept
          /\ tasks' = <<>> /\ answer' = <<>> /\ next' = 1 /\ isHandshake' = isHandshake
      BY <2>5 DEF PollRefused, StartParser, OldTasks
    <3>5. /\ before' \in [Lists -> Nat] /\ \A l \in Lists : before'[l] <= Len(data'[l])
          /\ kept' \in [Keeping -> SUBSET Extras]
      BY <2>n, <2>l, <3>2, <3>4
    <3> QED
      BY <3>2, <3>3, <3>4, <3>5 DEF TypeOK
  <2>6. ASSUME NEW s \in Answers, PollAnswered(s) PROVE TypeOK'
    <3>1. data' = data /\ before' = Lengths(data) /\ data \in [Lists -> Seq(Data)]
      BY <2>6 DEF PollAnswered, StartParser, TypeOK
    <3>2. before' \in [Lists -> Nat] /\ \A l \in Lists : before'[l] <= Len(data'[l])
      BY <3>1, <2>l
    <3>3. /\ tasks' = <<>> /\ answer' = s /\ next' = 1 /\ pc' = "parse" /\ result' = "OK"
          /\ UNCHANGED <<isHandshake, ret, key, kept>>
      BY <2>6 DEF PollAnswered, StartParser, OldTasks
    <3>4. answer' \in Seq(HubTasks) /\ next' <= Len(answer') + 1
      BY <3>3, AnswerType
    <3> QED
      BY <3>1, <3>2, <3>3, <3>4 DEF TypeOK, Verdicts
  <2>7. CASE SkipTask
    BY <2>7 DEF SkipTask, More, Advance, TypeOK
  <2>8. CASE ParseTask
    <3>1. Current \in HubTasks /\ pc = "parse"
      BY <2>8, CurrentType DEF ParseTask, More
    <3>2. tasks' \in Seq(Tasks)
      BY <2>8, <3>1, TaskType DEF ParseTask, TypeOK
    <3>3. data' \in [Lists -> Seq(Data)] /\ \A l \in Lists : before[l] <= Len(data'[l])
      <4>1. CASE Stores(Current)
        <5>1. Current.type \in Lists /\ Entry(Current) \in Data
          BY <3>1, <4>1, EntryType DEF Stores, TypeOK
        <5>2. data' = [data EXCEPT ![Current.type] = Append(@, Entry(Current))]
          BY <2>8, <4>1 DEF ParseTask
        <5> QED
          BY <5>1, <5>2, StoredData DEF TypeOK
      <4>2. CASE ~Stores(Current)
        BY <2>8, <4>2 DEF ParseTask, TypeOK
      <4> QED
        BY <4>1, <4>2
    <3>4. key' \in Nat
      BY <2>8, <3>1, HubTaskType, ReadIdType DEF ParseTask, KeyAfter, TypeOK
    <3>5. kept' \in [Keeping -> SUBSET Extras]
      <4>1. Current.type \in Keeping => Field(Current) \subseteq Extras
        BY <3>1, HubTaskType DEF Field, TypeOK
      <4> QED
        BY <2>8, <4>1 DEF ParseTask, TypeOK
    <3>6. next' \in Nat \ {0} /\ next' <= Len(answer') + 1
      BY <2>8 DEF ParseTask, More, Advance, TypeOK
    <3> QED
      BY <2>8, <3>2, <3>3, <3>4, <3>5, <3>6 DEF ParseTask, TypeOK
  <2>9. CASE TaskThrows
    <3>1. Current \in HubTasks
      BY <2>9, CurrentType DEF TaskThrows
    <3>2. key' \in Nat
      BY <2>9, <3>1, HubTaskType, ReadIdType DEF TaskThrows, KeyAfter, TypeOK
    <3> QED
      BY <2>9, <3>2, <2>n DEF TaskThrows, TypeOK
  <2>10. CASE PollReturns
    BY <2>10, <2>n DEF PollReturns, TypeOK, Verdicts
  <2>11. CASE UNCHANGED vars
    BY <2>11 DEF vars, TypeOK
  <2> QED
    BY <2>1, <2>2, <2>3, <2>4, <2>5, <2>6, <2>7, <2>8, <2>9, <2>10, <2>11, Steps
<1> QED
  BY <1>1, <1>2, PTL DEF Spec

-----------------------------------------------------------------------------
(* Where the entries of task_data come from                                 *)

\* What the parser's locals keep was read from a task of this answer; before an
\* answer is parsed they keep nothing.
KeptIsOfPoll ==
  /\ pc # "parse" => kept = NothingKept
  /\ \A l \in Keeping : \A x \in kept[l] :
       \E k \in 1..next - 1 : answer[k].type = l /\ x \in answer[k].carries

\* The answer's tasks gone through are one more when a task has been parsed.
LEMMA OneMore ==
  ASSUME TypeOK, More, answer' = answer, next' = Advance(next)
  PROVE  1..next' - 1 = (1..next - 1) \cup {next}
BY DEF TypeOK, More, Advance

LEMMA FieldOrigin ==
  ASSUME KeptIsOfPoll, NEW t, t.type \in Keeping, NEW x \in Field(t)
  PROVE  \/ x \in t.carries
         \/ \E k \in 1..next - 1 : answer[k].type = t.type /\ x \in answer[k].carries
BY DEF Field, KeptIsOfPoll

THEOREM KeptInvariant == Spec => []KeptIsOfPoll
<1>1. Init => KeptIsOfPoll
  BY DEF Init, KeptIsOfPoll, NothingKept
<1>2. TypeOK /\ KeptIsOfPoll /\ [Next]_vars => KeptIsOfPoll'
  <2> SUFFICES ASSUME TypeOK, KeptIsOfPoll, [Next]_vars PROVE KeptIsOfPoll'
    OBVIOUS
  <2>k. \A l \in Keeping : NothingKept[l] = {}
    BY DEF NothingKept
  <2> USE DEF EndPoll, LocalsAfter, response, parser
  <2>1. CASE StartExchange
    BY <2>1 DEF StartExchange, KeptIsOfPoll
  <2>2. ASSUME NEW r \in Failures \cup Verdicts, SendHandshake(r) PROVE KeptIsOfPoll'
    BY <2>2 DEF SendHandshake, KeptIsOfPoll
  <2>3. CASE kept' = NothingKept
    BY <2>3, <2>k DEF KeptIsOfPoll
  <2>4. ASSUME NEW s \in Answers, PollAnswered(s) PROVE KeptIsOfPoll'
    BY <2>4, <2>k DEF PollAnswered, KeptIsOfPoll
  <2>5. CASE SkipTask
    <3>1. 1..next' - 1 = (1..next - 1) \cup {next}
      BY <2>5, OneMore DEF SkipTask
    <3> QED
      BY <2>5, <3>1 DEF SkipTask, More, KeptIsOfPoll
  <2>6. CASE ParseTask
    <3>1. 1..next' - 1 = (1..next - 1) \cup {next} /\ answer' = answer /\ pc' = "parse"
      BY <2>6, OneMore DEF ParseTask, More
    <3>2. ASSUME NEW l \in Keeping, NEW x \in kept'[l]
          PROVE  \E k \in 1..next' - 1 : answer'[k].type = l /\ x \in answer'[k].carries
      <4>1. CASE x \in kept[l]
        BY <3>1, <4>1 DEF KeptIsOfPoll
      <4>2. CASE x \notin kept[l]
        <5>1. Current.type = l /\ x \in Field(Current)
          BY <2>6, <3>2, <4>2 DEF ParseTask, TypeOK
        <5>2. \/ x \in Current.carries
              \/ \E k \in 1..next - 1 : answer[k].type = l /\ x \in answer[k].carries
          BY <5>1, FieldOrigin
        <5> QED
          BY <3>1, <5>1, <5>2 DEF Current
      <4> QED
        BY <4>1, <4>2
    <3> QED
      BY <3>1, <3>2 DEF KeptIsOfPoll
  <2>7. CASE UNCHANGED vars
    BY <2>7 DEF vars, KeptIsOfPoll
  <2>8. PollThrows \/ TaskThrows \/ PollReturns => kept' = NothingKept
    BY DEF PollThrows, TaskThrows, PollReturns
  <2>9. \A r : PollFails(r) \/ PollRefused(r) => kept' = NothingKept
    BY DEF PollFails, PollRefused
  <2> QED
    BY <2>1, <2>2, <2>3, <2>4, <2>5, <2>6, <2>7, <2>8, <2>9, Steps
<1> QED
  BY <1>1, <1>2, TypeCorrect, PTL DEF Spec

\* What a task adds to its list.
LEMMA StoredEntry ==
  ASSUME TypeOK, ParseTask, Stores(Current), NEW l, l = Current.type
  PROVE  /\ l \in Lists /\ Current \in HubTasks /\ Entry(Current) \in Data
         /\ Added(l)' = Added(l) \cup {Len(data[l]) + 1}
         /\ data'[l][Len(data[l]) + 1] = Entry(Current)
         /\ \A d \in DOMAIN data[l] : data'[l][d] = data[l][d]
         /\ \A m \in Lists \ {l} : data'[m] = data[m] /\ Added(m)' = Added(m)
<1>1. l \in Lists /\ Current \in HubTasks
  BY CurrentType DEF ParseTask, Stores
<1>2. Entry(Current) \in Data
  BY <1>1, EntryType DEF TypeOK
<1>3. data' = [data EXCEPT ![l] = Append(@, Entry(Current))] /\ before' = before
  BY DEF ParseTask
<1>4. /\ data'[l] = Append(data[l], Entry(Current))
      /\ \A m \in Lists \ {l} : data'[m] = data[m]
  BY <1>1, <1>2, <1>3, StoredData DEF TypeOK
<1>5. data[l] \in Seq(Data) /\ before[l] \in Nat /\ before[l] <= Len(data[l])
  BY <1>1 DEF TypeOK
<1>6. /\ DOMAIN data'[l] = DOMAIN data[l] \cup {Len(data[l]) + 1}
      /\ data'[l][Len(data[l]) + 1] = Entry(Current)
      /\ \A d \in DOMAIN data[l] : data'[l][d] = data[l][d]
  BY <1>2, <1>4, <1>5
<1>7. Added(l)' = Added(l) \cup {Len(data[l]) + 1}
  BY <1>3, <1>5, <1>6 DEF Added
<1> QED
  BY <1>1, <1>2, <1>3, <1>4, <1>6, <1>7 DEF Added

\* Nothing is added to the lists by a step that leaves them and before alone, or
\* that begins an answer.
LEMMA NothingAdded ==
  ASSUME TypeOK, before' = Lengths(data'), NEW l \in Lists, data'[l] \in Seq(Data)
  PROVE  Added(l)' = {}
BY DEF Added, Lengths

LEMMA ParserStarts ==
  ASSUME TypeOK, NEW s, NEW d, d \in [Lists -> Seq(Data)], StartParser(s, d)
  PROVE  tasks' = <<>> /\ \A l \in Lists : Added(l)' = {}
BY NothingAdded DEF StartParser, OldTasks

\* The steps that begin an answer, or refuse it.
LEMMA Beginnings ==
  ASSUME TypeOK, \/ PollThrows
                 \/ \E r \in Verdicts \ {"OK"} : PollRefused(r)
                 \/ \E s \in Answers : PollAnswered(s)
  PROVE  tasks' = <<>> /\ \A l \in Lists : Added(l)' = {}
<1>1. data \in [Lists -> Seq(Data)]
  BY DEF TypeOK
<1>2. CASE PollThrows
  BY <1>1, <1>2, ParserStarts DEF PollThrows
<1>3. ASSUME NEW r, PollRefused(r)
      PROVE  tasks' = <<>> /\ \A l \in Lists : Added(l)' = {}
  <2>1. (IF ClearsAfter(r) THEN AfterClear(data) ELSE data) \in [Lists -> Seq(Data)]
    BY <1>1 DEF AfterClear
  <2> QED
    BY <1>3, <2>1, ParserStarts DEF PollRefused
<1>4. ASSUME NEW s, PollAnswered(s)
      PROVE  tasks' = <<>> /\ \A l \in Lists : Added(l)' = {}
  BY <1>1, <1>4, ParserStarts DEF PollAnswered
<1> QED
  BY <1>2, <1>3, <1>4

\* The steps of the exchange that leave tasks and task_data alone.
LEMMA Quiet ==
  ASSUME \/ StartExchange \/ SkipTask \/ TaskThrows \/ PollReturns \/ UNCHANGED vars
         \/ \E r \in Failures \cup Verdicts : SendHandshake(r)
         \/ \E r \in Failures : PollFails(r)
  PROVE  UNCHANGED <<tasks, data, answer, before>> /\ \A l : Added(l)' = Added(l)
<1>1. UNCHANGED <<tasks, data, answer, before>>
  BY DEF StartExchange, SkipTask, TaskThrows, PollReturns, SendHandshake, PollFails,
         response, parser, vars
<1> QED
  BY <1>1 DEF Added

\* What a poll adds to task_data is made from its own answer.
THEOREM DataOrigin == Spec => []DataComesFromItsPoll
<1>1. Init => DataComesFromItsPoll
  BY DEF Init, Empty, DataComesFromItsPoll, Added
<1>2. TypeOK /\ KeptIsOfPoll /\ DataComesFromItsPoll /\ [Next]_vars => DataComesFromItsPoll'
  <2> SUFFICES ASSUME TypeOK, KeptIsOfPoll, DataComesFromItsPoll, [Next]_vars
               PROVE  DataComesFromItsPoll'
    OBVIOUS
  <2>1. ASSUME \A l \in Lists : Added(l)' = {} PROVE DataComesFromItsPoll'
    BY <2>1 DEF DataComesFromItsPoll
  <2>2. ASSUME UNCHANGED <<tasks, data, answer, before>>, \A l : Added(l)' = Added(l),
               1..next - 1 \subseteq 1..next' - 1
        PROVE  DataComesFromItsPoll'
    BY <2>2 DEF DataComesFromItsPoll
  <2>3. CASE SkipTask
    <3>1. 1..next - 1 \subseteq 1..next' - 1
      BY <2>3, OneMore DEF SkipTask
    <3> QED
      BY <2>2, <2>3, <3>1, Quiet
  <2>4. CASE ParseTask
    <3>1. /\ 1..next' - 1 = (1..next - 1) \cup {next}
          /\ answer' = answer /\ answer[next] = Current
      BY <2>4, OneMore DEF ParseTask, Current
    <3>2. /\ tasks' = Append(tasks, Task(Current)) /\ tasks \in Seq(Tasks)
          /\ Current \in HubTasks /\ Task(Current) \in Tasks
      BY <2>4, CurrentType, TaskType DEF ParseTask, TypeOK
    <3>3. /\ \A j \in DOMAIN tasks : j \in DOMAIN tasks' /\ tasks'[j] = tasks[j]
          /\ Len(tasks) + 1 \in DOMAIN tasks' /\ tasks'[Len(tasks) + 1] = Task(Current)
      BY <3>2
    <3>4. CASE ~Stores(Current)
      <4>1. data' = data /\ before' = before
        BY <2>4, <3>4 DEF ParseTask
      <4> QED
        BY <3>1, <3>3, <4>1 DEF DataComesFromItsPoll, Added
    <3>5. CASE Stores(Current)
      <4>1. PICK l : l = Current.type
        OBVIOUS
      <4>2. /\ l \in Lists /\ Added(l)' = Added(l) \cup {Len(data[l]) + 1}
            /\ data'[l][Len(data[l]) + 1] = Entry(Current)
            /\ \A d \in DOMAIN data[l] : data'[l][d] = data[l][d]
            /\ \A m \in Lists \ {l} : data'[m] = data[m] /\ Added(m)' = Added(m)
        BY <2>4, <3>5, <4>1, StoredEntry
      <4>3. ASSUME NEW m \in Lists, NEW d \in Added(m)'
            PROVE  \/ d \in Added(m) /\ data'[m][d] = data[m][d]
                   \/ m = l /\ data'[m][d] = Entry(Current)
        BY <4>2, <4>3 DEF Added
      <4>4. ASSUME NEW m \in Lists, NEW d \in Added(m)'
            PROVE  IF data'[m][d].id = 0 THEN m = "external_purchase" /\ ~data'[m][d].valid
                   ELSE \E j \in DOMAIN tasks' :
                          /\ tasks'[j].id = data'[m][d].id /\ tasks'[j].type = m
                          /\ tasks'[j].status = "IN_PROGRESS"
        <5>1. CASE d \in Added(m) /\ data'[m][d] = data[m][d]
          BY <3>3, <5>1 DEF DataComesFromItsPoll
        <5>2. CASE m = l /\ data'[m][d] = Entry(Current)
          <6>1. CASE Current.type = "external_purchase" /\ Current.data = "none"
            <7>1. data'[m][d].id = 0 /\ m = "external_purchase"
              BY <4>1, <5>2, <6>1, EntryFields DEF EntryId
            <7>2. ~data'[m][d].valid
              BY <5>2, <6>1, EntryFields
            <7> QED
              BY <7>1, <7>2
          <6>2. CASE ~(Current.type = "external_purchase" /\ Current.data = "none")
            <7>1. data'[m][d].id = ReadId(Current.id) /\ ReadId(Current.id) # 0
              BY <2>4, <5>2, <6>2, EntryFields DEF EntryId, ParseTask
            <7>2. Task(Current).status = "IN_PROGRESS"
              BY <3>5 DEF Task, Stores, Accepts, Lists
            <7> QED
              BY <3>3, <4>1, <5>2, <7>1, <7>2 DEF Task
          <6> QED
            BY <6>1, <6>2
        <5> QED
          BY <4>3, <5>1, <5>2
      <4>5. ASSUME NEW m \in Lists, NEW d \in Added(m)', NEW x \in data'[m][d].carries
            PROVE  \E k \in 1..next' - 1 : answer'[k].type = m /\ x \in answer'[k].carries
        <5>1. CASE d \in Added(m) /\ data'[m][d] = data[m][d]
          BY <3>1, <4>5, <5>1 DEF DataComesFromItsPoll
        <5>2. CASE m = l /\ data'[m][d] = Entry(Current)
          <6>1. Current.type \in Keeping /\ x \in Field(Current)
            BY <4>5, <5>2 DEF Entry
          <6>2. \/ x \in Current.carries
                \/ \E k \in 1..next - 1 : answer[k].type = Current.type /\ x \in answer[k].carries
            BY <6>1, FieldOrigin
          <6> QED
            BY <3>1, <4>1, <5>2, <6>2
        <5> QED
          BY <4>3, <5>1, <5>2
      <4> QED
        BY <4>4, <4>5 DEF DataComesFromItsPoll
    <3> QED
      BY <3>4, <3>5
  <2>5. StartExchange \/ TaskThrows \/ PollReturns \/ UNCHANGED vars => next' = next
    BY DEF StartExchange, TaskThrows, PollReturns, vars, parser
  <2>6. \A r : SendHandshake(r) \/ PollFails(r) => next' = next
    BY DEF SendHandshake, PollFails, parser
  <2> QED
    BY <2>1, <2>2, <2>3, <2>4, <2>5, <2>6, Quiet, Beginnings, Steps
<1> QED
  BY <1>1, <1>2, TypeCorrect, KeptInvariant, PTL DEF Spec

\* The field of a parser's local after a task.
LEMMA FieldHasItsOwn ==
  ASSUME KeptIsOfPoll, NEW t, t.type \in Keeping
  PROVE  /\ t.carries \subseteq Field(t)
         /\ \/ Field(t) = t.carries
            \/ /\ t.type = "registration" => t.carries = {}
               /\ \E i \in 1..next - 1 : answer[i].type = t.type
<1>1. Field(t) = t.carries \/ Field(t) = kept[t.type] \cup t.carries
  BY DEF Field
<1>2. t.type = "registration" /\ t.carries # {} => Field(t) = t.carries
  BY DEF Field
<1>3. kept[t.type] # {} => \E i \in 1..next - 1 : answer[i].type = t.type
  BY DEF KeptIsOfPoll
<1> QED
  BY <1>1, <1>2, <1>3

\* What an entry carries and its task does not was left by a task of the same type that
\* stands before it in the same answer.
THEOREM CarryOverExplained == Spec => []CarriesMoreAfterAnother
<1>1. Init => CarriesMoreAfterAnother
  BY KeepingLists DEF Init, Empty, CarriesMoreAfterAnother, Added
<1>2. TypeOK /\ KeptIsOfPoll /\ CarriesMoreAfterAnother /\ [Next]_vars
        => CarriesMoreAfterAnother'
  <2> SUFFICES ASSUME TypeOK, KeptIsOfPoll, CarriesMoreAfterAnother, [Next]_vars
               PROVE  CarriesMoreAfterAnother'
    OBVIOUS
  <2> DEFINE Of(l, d, k) ==
        /\ EntryId(answer[k]) = data[l][d].id /\ answer[k].type = l
        /\ answer[k].carries \subseteq data[l][d].carries
        /\ \/ data[l][d].carries = answer[k].carries
           \/ /\ l = "registration" => answer[k].carries = {}
              /\ \E i \in 1..k - 1 : answer[i].type = l
             OfNow(l, d, k) ==
        /\ EntryId(answer[k]) = data'[l][d].id /\ answer[k].type = l
        /\ answer[k].carries \subseteq data'[l][d].carries
        /\ \/ data'[l][d].carries = answer[k].carries
           \/ /\ l = "registration" => answer[k].carries = {}
              /\ \E i \in 1..k - 1 : answer[i].type = l
  <2>1. ASSUME \A l \in Lists : Added(l)' = {} PROVE CarriesMoreAfterAnother'
    BY <2>1, KeepingLists DEF CarriesMoreAfterAnother
  <2>2. ASSUME UNCHANGED <<data, answer>>, \A l : Added(l)' = Added(l),
               1..next - 1 \subseteq 1..next' - 1
        PROVE  CarriesMoreAfterAnother'
    BY <2>2 DEF CarriesMoreAfterAnother, EntryId
  <2>3. CASE SkipTask
    <3>1. 1..next - 1 \subseteq 1..next' - 1
      BY <2>3, OneMore DEF SkipTask
    <3> QED
      BY <2>2, <2>3, <3>1, Quiet
  <2>4. CASE ParseTask
    <3>1. /\ 1..next' - 1 = (1..next - 1) \cup {next}
          /\ answer' = answer /\ answer[next] = Current
      BY <2>4, OneMore DEF ParseTask, Current
    <3>2. CASE ~Stores(Current)
      <4>1. data' = data /\ before' = before
        BY <2>4, <3>2 DEF ParseTask
      <4> QED
        BY <2>2, <3>1, <4>1 DEF Added
    <3>3. CASE Stores(Current)
      <4>1. PICK l : l = Current.type
        OBVIOUS
      <4>2. /\ Added(l)' = Added(l) \cup {Len(data[l]) + 1} /\ l \in Lists
            /\ data'[l][Len(data[l]) + 1] = Entry(Current)
            /\ \A d \in DOMAIN data[l] : data'[l][d] = data[l][d]
            /\ \A m \in Lists \ {l} : data'[m] = data[m] /\ Added(m)' = Added(m)
        BY <2>4, <3>3, <4>1, StoredEntry
      <4>3. ASSUME NEW m \in Keeping, NEW d \in Added(m)'
            PROVE  \/ d \in Added(m) /\ data'[m][d] = data[m][d]
                   \/ m = l /\ data'[m][d] = Entry(Current)
        BY <4>2, <4>3, KeepingLists DEF Added
      <4>4. ASSUME NEW m \in Keeping, NEW d \in Added(m)'
            PROVE  \E k \in 1..next' - 1 : OfNow(m, d, k)
        <5>1. CASE d \in Added(m) /\ data'[m][d] = data[m][d]
          <6>1. PICK k \in 1..next - 1 : Of(m, d, k)
            BY <5>1 DEF CarriesMoreAfterAnother
          <6> QED
            BY <3>1, <5>1, <6>1
        <5>2. CASE m = l /\ data'[m][d] = Entry(Current)
          <6>1. /\ data'[m][d].id = EntryId(Current)
                /\ data'[m][d].carries = Field(Current)
            BY <4>1, <5>2, EntryFields
          <6>2. /\ Current.carries \subseteq Field(Current)
                /\ \/ Field(Current) = Current.carries
                   \/ /\ m = "registration" => Current.carries = {}
                      /\ \E i \in 1..next - 1 : answer[i].type = m
            BY <4>1, <5>2, FieldHasItsOwn
          <6>3. OfNow(m, d, next)
            BY <3>1, <4>1, <5>2, <6>1, <6>2
          <6> QED
            BY <3>1, <6>3
        <5> QED
          BY <4>3, <5>1, <5>2
      <4> QED
        BY <3>1, <4>4 DEF CarriesMoreAfterAnother, EntryId
    <3> QED
      BY <3>2, <3>3
  <2>5. StartExchange \/ TaskThrows \/ PollReturns \/ UNCHANGED vars => next' = next
    BY DEF StartExchange, TaskThrows, PollReturns, vars, parser
  <2>6. \A r : SendHandshake(r) \/ PollFails(r) => next' = next
    BY DEF SendHandshake, PollFails, parser
  <2> QED
    BY <2>1, <2>2, <2>3, <2>4, <2>5, <2>6, Quiet, Beginnings, Steps
<1> QED
  BY <1>1, <1>2, TypeCorrect, KeptInvariant, PTL DEF Spec

-----------------------------------------------------------------------------
(* What tasks in progress find in task_data                                 *)

\* The key a task j left in key_activation is still there, or a later task has
\* replaced it.
KeyOf(j) == \/ key = tasks[j].id
            \/ \E k \in DOMAIN tasks : k > j /\ tasks[k].type = "key_activation"
            \/ pc # "parse" /\ next <= Len(answer) /\ Current.type = "key_activation"
EntryOf(j) == \E d \in Added(tasks[j].type) :
                LET entry == data[tasks[j].type][d]
                IN  \/ entry.id = tasks[j].id
                    \/ tasks[j].type = "external_purchase" /\ entry.id = 0 /\ ~entry.valid
Provided(j) == tasks[j].status = "IN_PROGRESS" /\ tasks[j].type # "update_mrp_tables" =>
                 IF tasks[j].type = "key_activation" THEN KeyOf(j) ELSE EntryOf(j)

LEMMA ProvidedAll == InProgressHasData <=> \A j \in DOMAIN tasks : Provided(j)
BY DEF InProgressHasData, Provided, KeyOf, EntryOf

\* A task whose type has a list and that gets through is stored.
LEMMA AcceptedIsStored ==
  ASSUME TypeOK, ParseTask, Accepts(Current),
         Current.type \notin {"update_mrp_tables", "key_activation"}
  PROVE  Stores(Current)
<1>1. Current \in HubTasks
  BY CurrentType DEF ParseTask
<1>2. Current.type \in Types
  BY <1>1, HubTaskType
<1> QED
  BY <1>2 DEF Accepts, Stores, Lists, Failing

\* A task nothing is parsed for is not in progress.
FailingFail == \A j \in DOMAIN tasks : tasks[j].type \in Failing => tasks[j].status = "ERROR"

THEOREM FailingTasksFail == Spec => []FailingFail
<1>1. Init => FailingFail
  BY DEF Init, FailingFail
<1>2. TypeOK /\ FailingFail /\ [Next]_vars => FailingFail'
  <2> SUFFICES ASSUME TypeOK, FailingFail, [Next]_vars PROVE FailingFail'
    OBVIOUS
  <2>1. CASE ParseTask
    <3>1. /\ tasks' = Append(tasks, Task(Current)) /\ tasks \in Seq(Tasks)
          /\ Task(Current) \in Tasks
      BY <2>1, CurrentType, TaskType DEF ParseTask, TypeOK
    <3>2. Task(Current).type \in Failing => Task(Current).status = "ERROR"
      BY DEF Task, Accepts, Failing
    <3> QED
      BY <3>1, <3>2 DEF FailingFail
  <2> QED
    BY <2>1, Quiet, Beginnings, Steps DEF FailingFail
<1> QED
  BY <1>1, <1>2, TypeCorrect, PTL DEF Spec

\* Who carries out a task in progress finds what to do.
THEOREM DataInPlace == Spec => []InProgressHasData
<1>1. Init => InProgressHasData
  BY DEF Init, InProgressHasData
<1>2. TypeOK /\ FailingFail /\ InProgressHasData /\ [Next]_vars => InProgressHasData'
  <2> SUFFICES ASSUME TypeOK, FailingFail, InProgressHasData, [Next]_vars
               PROVE  InProgressHasData'
    OBVIOUS
  <2>1. ASSUME tasks' = <<>> PROVE InProgressHasData'
    BY <2>1 DEF InProgressHasData
  <2>2. ASSUME UNCHANGED <<tasks, data, answer, before>>, \A l : Added(l)' = Added(l),
               \A j \in DOMAIN tasks : tasks[j].type = "key_activation" /\ KeyOf(j) => KeyOf(j)'
        PROVE  InProgressHasData'
    <3>1. ASSUME NEW j \in DOMAIN tasks, EntryOf(j) PROVE EntryOf(j)'
      BY <2>2, <3>1 DEF EntryOf
    <3>2. \A j \in DOMAIN tasks : Provided(j)'
      BY <2>2, <3>1, ProvidedAll DEF Provided
    <3> QED
      BY <2>2, <3>2 DEF InProgressHasData, Provided, KeyOf, EntryOf
  <2>3. ASSUME UNCHANGED <<key, tasks, answer, next>>, pc # "parse" => pc' # "parse"
        PROVE  \A j : KeyOf(j) => KeyOf(j)'
    BY <2>3 DEF KeyOf, Current
  <2>4. CASE StartExchange \/ UNCHANGED vars
    <3>1. UNCHANGED <<key, tasks, answer, next>> /\ (pc # "parse" => pc' # "parse")
      BY <2>4 DEF StartExchange, vars, response, parser
    <3> QED
      BY <2>2, <2>3, <2>4, <3>1, Quiet
  <2>5. ASSUME NEW r \in Failures \cup Verdicts, SendHandshake(r) PROVE InProgressHasData'
    <3>1. UNCHANGED <<key, tasks, answer, next>> /\ pc' # "parse"
      BY <2>5 DEF SendHandshake, response, parser
    <3> QED
      BY <2>2, <2>3, <2>5, <3>1, Quiet
  <2>6. ASSUME NEW r \in Failures, PollFails(r) PROVE InProgressHasData'
    <3>1. UNCHANGED <<key, tasks, answer, next>> /\ pc' # "parse"
      BY <2>6 DEF PollFails, EndPoll, response
    <3> QED
      BY <2>2, <2>3, <2>6, <3>1, Quiet
  <2>7. CASE PollReturns
    <3>1. UNCHANGED <<key, tasks, answer, next>> /\ pc' # "parse"
      BY <2>7 DEF PollReturns, EndPoll, response
    <3> QED
      BY <2>2, <2>3, <2>7, <3>1, Quiet
  <2>8. CASE SkipTask
    <3>1. UNCHANGED <<key, tasks>> /\ pc = "parse"
      BY <2>8 DEF SkipTask, More, response
    <3>2. \A j : KeyOf(j) => KeyOf(j)'
      BY <3>1 DEF KeyOf
    <3> QED
      BY <2>2, <2>8, <3>2, Quiet
  <2>9. CASE TaskThrows
    <3>1. /\ UNCHANGED <<tasks, answer, next>> /\ pc = "parse" /\ pc' = "idle"
          /\ next <= Len(answer) /\ key' = KeyAfter(Current)
      BY <2>9 DEF TaskThrows, More, EndPoll
    <3>2. \A j : KeyOf(j) => KeyOf(j)'
      BY <3>1 DEF KeyOf, KeyAfter, Current
    <3> QED
      BY <2>2, <2>9, <3>2, Quiet
  <2>10. CASE ParseTask
    <3>1. PICK l : l = Current.type
      OBVIOUS
    <3>n. PICK n : n = Len(tasks) + 1
      OBVIOUS
    <3>2. /\ tasks' = Append(tasks, Task(Current)) /\ tasks \in Seq(Tasks)
          /\ Task(Current) \in Tasks /\ pc = "parse"
          /\ key' = KeyAfter(Current) /\ ReadId(Current.id) # 0
      BY <2>10, CurrentType, TaskType DEF ParseTask, More, TypeOK
    <3>3. /\ DOMAIN tasks' = DOMAIN tasks \cup {n} /\ n \in Nat
          /\ \A j \in DOMAIN tasks : tasks'[j] = tasks[j] /\ n > j
          /\ tasks'[n] = Task(Current)
      BY <3>2, <3>n
    <3>4. /\ tasks'[n].id = ReadId(Current.id) /\ tasks'[n].type = l
          /\ tasks'[n].status = "IN_PROGRESS" <=> Accepts(Current)
      BY <3>1, <3>3 DEF Task
    <3>5. /\ \A m \in Lists : Added(m) \subseteq Added(m)'
          /\ \A m \in Lists : \A d \in DOMAIN data[m] : data'[m][d] = data[m][d]
      <4>1. CASE Stores(Current)
        <5>1. /\ l \in Lists /\ Added(l)' = Added(l) \cup {Len(data[l]) + 1}
              /\ \A d \in DOMAIN data[l] : data'[l][d] = data[l][d]
              /\ \A m \in Lists \ {l} : data'[m] = data[m] /\ Added(m)' = Added(m)
          BY <2>10, <3>1, <4>1, StoredEntry
        <5> QED
          BY <5>1
      <4>2. CASE ~Stores(Current)
        BY <2>10, <4>2 DEF ParseTask, Added
      <4> QED
        BY <4>1, <4>2
    <3>6. ASSUME NEW j \in DOMAIN tasks, tasks[j].type = "key_activation", KeyOf(j)
          PROVE  KeyOf(j)'
      <4>1. CASE l = "key_activation"
        BY <3>3, <3>4, <3>6, <4>1 DEF KeyOf
      <4>2. CASE l # "key_activation"
        <5>1. key' = key
          BY <3>1, <3>2, <4>2 DEF KeyAfter
        <5> QED
          BY <3>2, <3>3, <3>6, <5>1 DEF KeyOf
      <4> QED
        BY <4>1, <4>2
    <3>7. ASSUME NEW j \in DOMAIN tasks, tasks[j].type \in Lists, EntryOf(j) PROVE EntryOf(j)'
      <4>1. PICK m : m = tasks[j].type
        OBVIOUS
      <4>2. PICK d \in Added(m) :
              \/ data[m][d].id = tasks[j].id
              \/ m = "external_purchase" /\ data[m][d].id = 0 /\ ~data[m][d].valid
        BY <3>7, <4>1 DEF EntryOf
      <4>3. tasks'[j] = tasks[j]
        BY <3>3
      <4> QED
        BY <3>5, <3>7, <4>1, <4>2, <4>3 DEF EntryOf, Added
    <3>8. ASSUME Accepts(Current), l \notin {"update_mrp_tables", "key_activation"}
          PROVE  EntryOf(n)'
      <4>1. Stores(Current)
        BY <2>10, <3>1, <3>8, AcceptedIsStored
      <4>2. /\ Len(data[l]) + 1 \in Added(l)'
            /\ data'[l][Len(data[l]) + 1] = Entry(Current)
        BY <2>10, <3>1, <4>1, StoredEntry
      <4>3. CASE l = "external_purchase" /\ Current.data = "none"
        <5>1. Entry(Current).id = 0 /\ ~Entry(Current).valid
          BY <3>1, <4>3, EntryFields DEF EntryId
        <5> QED
          BY <3>4, <4>2, <4>3, <5>1 DEF EntryOf
      <4>4. CASE ~(l = "external_purchase" /\ Current.data = "none")
        <5>1. Entry(Current).id = ReadId(Current.id)
          BY <3>1, <4>4, EntryFields DEF EntryId
        <5> QED
          BY <3>4, <4>2, <5>1 DEF EntryOf
      <4> QED
        BY <4>3, <4>4
    <3>9. ASSUME Accepts(Current), l = "key_activation" PROVE KeyOf(n)'
      <4>1. Current.data = "good"
        BY <3>1, <3>9 DEF Accepts
      <4>2. key' = tasks'[n].id
        BY <3>1, <3>2, <3>4, <3>9, <4>1 DEF KeyAfter
      <4> QED
        BY <4>2 DEF KeyOf
    <3>10. ASSUME NEW j \in DOMAIN tasks PROVE Provided(j)'
      <4>1. tasks[j] \in Tasks
        BY <3>2
      <4>2. tasks[j].type \in Types /\ (tasks[j].type \in Failing => tasks[j].status = "ERROR")
        BY <4>1 DEF FailingFail, Tasks
      <4>3. tasks[j].status = "IN_PROGRESS" /\ tasks[j].type # "key_activation"
              => tasks[j].type \in Lists
        BY <4>2 DEF Lists
      <4> QED
        BY <3>3, <3>6, <3>7, <4>3, ProvidedAll DEF Provided
    <3>11. Provided(n)'
      BY <3>4, <3>8, <3>9 DEF Provided
    <3>12. \A j \in DOMAIN tasks' : Provided(j)'
      BY <3>3, <3>10, <3>11
    <3> QED
      BY <3>12 DEF InProgressHasData, Provided, KeyOf, EntryOf
  <2> QED
    BY <2>1, <2>4, <2>5, <2>6, <2>7, <2>8, <2>9, <2>10, Beginnings, Steps
<1> QED
  BY <1>1, <1>2, TypeCorrect, FailingTasksFail, PTL DEF Spec

\* Nothing a poll has added to task_data is lost, unless the hub asks for a handshake.
THEOREM NothingDropped == Spec => NothingIsDropped
<1> DEFINE Grows == \A l \in Lists : /\ Len(data[l]) <= Len(data'[l])
                                     /\ SubSeq(data'[l], 1, Len(data[l])) = data[l]
<1>1. TypeOK /\ [Next]_vars => [Grows \/ ret' = "NEED_HANDSHAKE"]_vars
  <2> SUFFICES ASSUME TypeOK, [Next]_vars PROVE Grows \/ ret' = "NEED_HANDSHAKE"
    OBVIOUS
  <2>1. ASSUME data' = data PROVE Grows
    BY <2>1 DEF TypeOK
  <2>2. ASSUME NEW r \in Verdicts \ {"OK"}, PollRefused(r) PROVE Grows \/ ret' = "NEED_HANDSHAKE"
    BY <2>1, <2>2 DEF PollRefused, StartParser, ClearsAfter, EndPoll
  <2>3. CASE ParseTask
    <3>1. CASE ~Stores(Current)
      BY <2>1, <2>3, <3>1 DEF ParseTask
    <3>2. CASE Stores(Current)
      <4>1. Current.type \in Lists /\ Entry(Current) \in Data
        BY <2>3, <3>2, CurrentType, EntryType DEF ParseTask, Stores, TypeOK
      <4>2. data' = [data EXCEPT ![Current.type] = Append(@, Entry(Current))]
        BY <2>3, <3>2 DEF ParseTask
      <4>3. ASSUME NEW l \in Lists
            PROVE  data'[l] = data[l] \/ data'[l] = Append(data[l], Entry(Current))
        BY <4>2 DEF TypeOK
      <4>4. ASSUME NEW l \in Lists
            PROVE  /\ Len(data[l]) <= Len(data'[l])
                   /\ SubSeq(data'[l], 1, Len(data[l])) = data[l]
        <5>1. data[l] \in Seq(Data)
          BY DEF TypeOK
        <5>2. CASE data'[l] = data[l]
          BY <5>1, <5>2
        <5>3. CASE data'[l] = Append(data[l], Entry(Current))
          BY <4>1, <5>1, <5>3
        <5> QED
          BY <4>3, <5>2, <5>3
      <4> QED
        BY <4>4
    <3> QED
      BY <3>1, <3>2
  <2>4. PollThrows \/ (\E s \in Answers : PollAnswered(s)) => data' = data
    BY DEF PollThrows, PollAnswered, StartParser
  <2> QED
    BY <2>1, <2>2, <2>3, <2>4, Quiet, Steps
<1> QED
  BY <1>1, TypeCorrect, PTL DEF Spec, NothingIsDropped

\* Between the hub's asking for a handshake and the next poll it answers, only discounts
\* are in task_data.  The loop of the parser runs under a result of 0 only.
THEOREM OnlyDiscounts == Spec => []OnlyDiscountsSurvive
<1> DEFINE ParsedIsOk == pc = "parse" => result = "OK"
           Inv == ParsedIsOk /\ OnlyDiscountsSurvive
<1>1. Init => Inv
  BY DEF Init, OnlyDiscountsSurvive
<1>2. TypeOK /\ Inv /\ [Next]_vars => Inv'
  <2> SUFFICES ASSUME TypeOK, Inv, [Next]_vars PROVE Inv'
    OBVIOUS
  <2> USE DEF OnlyDiscountsSurvive, EndPoll, StartParser, OldTasks
  <2>1. ASSUME NEW r \in Verdicts \ {"OK"}, PollRefused(r) PROVE Inv'
    <3>1. pc' = "idle" /\ tasks' = <<>>
      BY <2>1 DEF PollRefused
    <3>2. CASE ClearsAfter(r)
      <4>1. key' = 0 /\ data' = AfterClear(data)
        BY <2>1, <3>2 DEF PollRefused
      <4> QED
        BY <3>1, <4>1 DEF AfterClear
    <3>3. CASE ~ClearsAfter(r)
      <4>1. result' = r /\ r # "IN_PROGRESS"
        BY <2>1, <3>3 DEF PollRefused, Verdicts
      <4> QED
        BY <3>1, <4>1
    <3> QED
      BY <3>2, <3>3
  <2>2. ASSUME NEW s \in Answers, PollAnswered(s) PROVE Inv'
    BY <2>2 DEF PollAnswered
  <2>3. CASE PollThrows
    BY <2>3 DEF PollThrows
  <2>4. CASE SkipTask \/ ParseTask \/ TaskThrows
    <3>1. result' = "OK"
      BY <2>4 DEF SkipTask, ParseTask, TaskThrows, More, response
    <3> QED
      BY <3>1
  <2>5. CASE StartExchange
    BY <2>5 DEF StartExchange, response
  <2>6. ASSUME NEW r \in Failures \cup Verdicts, SendHandshake(r) PROVE Inv'
    BY <2>6 DEF SendHandshake, response
  <2>7. ASSUME NEW r \in Failures, PollFails(r) PROVE Inv'
    BY <2>7 DEF PollFails, response
  <2>8. CASE PollReturns
    BY <2>8 DEF PollReturns, response
  <2>9. CASE UNCHANGED vars
    BY <2>9 DEF vars, response
  <2> QED
    BY <2>1, <2>2, <2>3, <2>4, <2>5, <2>6, <2>7, <2>8, <2>9, Steps
<1> QED
  BY <1>1, <1>2, TypeCorrect, PTL DEF Spec

-----------------------------------------------------------------------------
(* The list of tasks                                                        *)

\* How many tasks with a number there are among the first n, and where the last of
\* them stands.
LEMMA NumberedCount ==
  ASSUME NEW n \in Nat
  PROVE  /\ IsFiniteSet(Numbered(n)) /\ Cardinality(Numbered(n)) \in Nat
         /\ \A k \in Numbered(n) : Cardinality(Numbered(k)) \in 1..Cardinality(Numbered(n))
<1>1. \A m \in Nat : /\ IsFiniteSet(1..m) /\ Numbered(m) \subseteq 1..m
  BY FS_Interval DEF Numbered
<1>2. \A m \in Nat : IsFiniteSet(Numbered(m)) /\ Cardinality(Numbered(m)) \in Nat
  BY <1>1, FS_Subset, FS_CardinalityType
<1>3. ASSUME NEW k \in Numbered(n)
      PROVE  Cardinality(Numbered(k)) \in 1..Cardinality(Numbered(n))
  <2>1. /\ k \in Nat /\ k \in Numbered(k) /\ Numbered(k) \subseteq Numbered(n)
    BY DEF Numbered
  <2>2. /\ IsFiniteSet(Numbered(k)) /\ Cardinality(Numbered(k)) \in Nat
        /\ Cardinality(Numbered(k)) # 0
    BY <1>2, <2>1, FS_EmptySet
  <2>3. Cardinality(Numbered(k)) <= Cardinality(Numbered(n))
    BY <1>2, <2>1, FS_Subset
  <2> QED
    BY <1>2, <2>2, <2>3
<1> QED
  BY <1>2, <1>3

\* A task counts if it has a number.
LEMMA NumberedNext ==
  ASSUME NEW n \in Nat
  PROVE  /\ ReadId(answer[n + 1].id) = 0 => Numbered(n + 1) = Numbered(n)
         /\ ReadId(answer[n + 1].id) # 0 =>
              /\ Numbered(n + 1) = Numbered(n) \cup {n + 1}
              /\ Cardinality(Numbered(n + 1)) = Cardinality(Numbered(n)) + 1
<1>1. 1..n + 1 = 1..n \cup {n + 1} /\ n + 1 \notin 1..n
  OBVIOUS
<1>2. ReadId(answer[n + 1].id) = 0 => Numbered(n + 1) = Numbered(n)
  BY <1>1 DEF Numbered
<1>3. ASSUME ReadId(answer[n + 1].id) # 0
      PROVE  Numbered(n + 1) = Numbered(n) \cup {n + 1} /\ n + 1 \notin Numbered(n)
  BY <1>1, <1>3 DEF Numbered
<1> QED
  BY <1>2, <1>3, NumberedCount, FS_AddElement

\* json_poll lists the tasks of the last answer the parser understood, in their order,
\* and no other.
THEOREM TasksOfAnswer == Spec => []TasksAreTheAnswers
<1>1. Init => TasksAreTheAnswers
  <2> SUFFICES ASSUME Init PROVE TasksAreTheAnswers
    OBVIOUS
  <2>1. Numbered(next - 1) = {}
    BY DEF Init, Numbered
  <2> QED
    BY <2>1, FS_EmptySet DEF Init, TasksAreTheAnswers
<1>2. TypeOK /\ TasksAreTheAnswers /\ [Next]_vars => TasksAreTheAnswers'
  <2> SUFFICES ASSUME TypeOK, TasksAreTheAnswers, [Next]_vars PROVE TasksAreTheAnswers'
    OBVIOUS
  <2> DEFINE Ended == pc = "idle" /\ ret = "OK" => next > Len(answer)
             Listing == /\ Len(tasks) = Cardinality(Numbered(next - 1))
                        /\ \A k \in Numbered(next - 1) :
                             tasks[Cardinality(Numbered(k))] = Task(answer[k])
  <2>1. ASSUME UNCHANGED <<tasks, answer, next>> PROVE Listing'
    BY <2>1 DEF TasksAreTheAnswers, Numbered, Task, Accepts
  <2>2. ASSUME tasks' = <<>>, next' = 1 PROVE Listing'
    <3>1. Numbered(next - 1)' = {}
      BY <2>2 DEF Numbered
    <3> QED
      BY <2>2, <3>1, FS_EmptySet
  <2>3. CASE StartExchange
    BY <2>1, <2>3 DEF StartExchange, TasksAreTheAnswers, response, parser
  <2>4. ASSUME NEW r \in Failures \cup Verdicts, SendHandshake(r) PROVE TasksAreTheAnswers'
    <3>1. UNCHANGED <<tasks, answer, next>> /\ ~(pc' = "idle" /\ ret' = "OK")
      BY <2>4 DEF SendHandshake, Greets, Failures, response, parser
    <3> QED
      BY <2>1, <3>1 DEF TasksAreTheAnswers
  <2>5. ASSUME NEW r \in Failures, PollFails(r) PROVE TasksAreTheAnswers'
    <3>1. UNCHANGED <<tasks, answer, next>> /\ ret' # "OK"
      BY <2>5 DEF PollFails, EndPoll, Failures, response
    <3> QED
      BY <2>1, <3>1 DEF TasksAreTheAnswers
  <2>6. ASSUME \/ PollThrows
               \/ \E r \in Verdicts \ {"OK"} : PollRefused(r)
               \/ \E s \in Answers : PollAnswered(s)
        PROVE  TasksAreTheAnswers'
    <3>1. tasks' = <<>> /\ next' = 1 /\ ~(pc' = "idle" /\ ret' = "OK")
      BY <2>6 DEF PollThrows, PollRefused, PollAnswered, StartParser, OldTasks, EndPoll
    <3> QED
      BY <2>2, <3>1 DEF TasksAreTheAnswers
  <2>7. CASE SkipTask
    <3>1. /\ tasks' = tasks /\ answer' = answer /\ pc' = "parse"
          /\ next \in Nat \ {0} /\ next' = next + 1 /\ ReadId(answer[next].id) = 0
      BY <2>7 DEF SkipTask, More, Advance, Current, TypeOK, response
    <3>2. \A n : Numbered(n)' = Numbered(n)
      BY <3>1 DEF Numbered
    <3>3. Numbered(next - 1)' = Numbered(next - 1)
      <4>1. next - 1 \in Nat /\ (next - 1) + 1 = next /\ next' - 1 = next
        BY <3>1
      <4>2. Numbered(next) = Numbered(next - 1)
        BY <3>1, <4>1, NumberedNext
      <4> QED
        BY <3>1, <4>1, <4>2 DEF Numbered
    <3> QED
      BY <3>1, <3>2, <3>3 DEF TasksAreTheAnswers, Task, Accepts
  <2>8. CASE ParseTask
    <3>1. /\ answer' = answer /\ pc' = "parse"
          /\ next \in Nat \ {0} /\ next' = next + 1 /\ ReadId(answer[next].id) # 0
          /\ tasks \in Seq(Tasks) /\ tasks' = Append(tasks, Task(answer[next]))
          /\ Task(answer[next]) \in Tasks
      BY <2>8, CurrentType, TaskType DEF ParseTask, More, Advance, Current, TypeOK
    <3>2. PICK m \in Nat : m = next - 1 /\ m + 1 = next /\ next' - 1 = m + 1
      BY <3>1
    <3>3. \A n : Numbered(n)' = Numbered(n)
      BY <3>1 DEF Numbered
    <3>4. /\ Numbered(next - 1)' = Numbered(m) \cup {next}
          /\ Numbered(next) = Numbered(m) \cup {next}
          /\ Cardinality(Numbered(next)) = Cardinality(Numbered(m)) + 1
      <4>1. /\ Numbered(next) = Numbered(m) \cup {next}
            /\ Cardinality(Numbered(next)) = Cardinality(Numbered(m)) + 1
        BY <3>1, <3>2, NumberedNext
      <4>2. Numbered(next - 1)' = Numbered(next)
        BY <3>1, <3>2 DEF Numbered
      <4> QED
        BY <4>1, <4>2
    <3>5. Len(tasks) = Cardinality(Numbered(m)) /\ Cardinality(Numbered(m)) \in Nat
      BY <3>2, NumberedCount DEF TasksAreTheAnswers
    <3>6. Len(tasks') = Cardinality(Numbered(next - 1)')
      <4>1. Len(tasks') = Len(tasks) + 1
        BY <3>1
      <4>2. Cardinality(Numbered(next - 1)') = Cardinality(Numbered(m)) + 1
        BY <3>4
      <4> QED
        BY <3>5, <4>1, <4>2
    <3>7. ASSUME NEW k \in Numbered(m)
          PROVE  tasks'[Cardinality(Numbered(k))] = Task(answer[k])
      <4>1. tasks[Cardinality(Numbered(k))] = Task(answer[k])
        BY <3>2 DEF TasksAreTheAnswers
      <4>2. Cardinality(Numbered(k)) \in 1..Len(tasks)
        BY <3>5, NumberedCount
      <4> QED
        BY <3>1, <4>1, <4>2
    <3>8. tasks'[Cardinality(Numbered(next))] = Task(answer[next])
      BY <3>1, <3>4, <3>5
    <3>9. \A k \in Numbered(next - 1)' : tasks'[Cardinality(Numbered(k)')] = Task(answer'[k])
      BY <3>1, <3>3, <3>4, <3>7, <3>8
    <3> QED
      BY <3>1, <3>6, <3>9 DEF TasksAreTheAnswers, Task, Accepts
  <2>9. CASE TaskThrows
    BY <2>1, <2>9 DEF TaskThrows, EndPoll, TasksAreTheAnswers
  <2>10. CASE PollReturns
    BY <2>1, <2>10 DEF PollReturns, EndPoll, TasksAreTheAnswers, response
  <2>11. CASE UNCHANGED vars
    BY <2>1, <2>11 DEF vars, TasksAreTheAnswers, response, parser
  <2> QED
    BY <2>3, <2>4, <2>5, <2>6, <2>7, <2>8, <2>9, <2>10, <2>11, Steps
<1> QED
  BY <1>1, <1>2, TypeCorrect, PTL DEF Spec

=============================================================================
