------------------------------ MODULE HubPoll ------------------------------
(***************************************************************************)
(* The exchange with the hub (the cabinet server): the button of           *)
(* mainwindow.cpp sends a handshake and then a poll through HttpsExchange; *)
(* JSON::jsonPollParser turns the tasks of the answer into json_poll.      *)
(*                                                                         *)
(* All of it runs on the thread of the window.  One step is one request    *)
(* with its answer, or one round of the parser's loop.  The hub, and who   *)
(* carries out the tasks of json_poll, are not in the repository: the hub  *)
(* answers anything, and nothing takes a task out.                         *)
(***************************************************************************)
EXTENDS Naturals, Sequences, FiniteSets

CONSTANTS HubIds,    \* the numbers the hub gives to tasks
          Word,      \* how many values an int has
          HubTypes,  \* the types of task the hub sends
          Extras,    \* what a task may carry in a field named by Keeping
          MaxTasks,  \* bound: tasks in one answer
          MaxData    \* bound: entries in the lists of task_data

\* Types whose local of jsonPollParser keeps a field from one task to the next: the
\* products of a discount, the tags of a receipt, the INN of a cashier.
Keeping == {"upsert_discount", "external_purchase", "registration"}
\* Types whose parser looks whether the task has a "data" member at all.
LooksForData == {"upsert_product", "external_purchase", "registration", "upsert_cashier",
                 "delete_cashier", "update_mrp_tables"}
\* Types whose parser catches its exceptions.
Catching == {"upsert_cashier", "delete_cashier", "update_mrp_tables"}
\* Types nothing is parsed for: the task fails.
Failing == {"purchase_document_result", "unknown"}
Discounts == {"upsert_discount", "delete_discount"}
Types == Keeping \cup LooksForData \cup Failing \cup Discounts
           \cup {"bind_product", "delete_product", "key_activation"}
\* Types task_data has a list for; there is one key_activation.
Lists == Types \ (Failing \cup {"key_activation"})

ASSUME HubAssumption == /\ HubIds \subseteq Nat /\ Word \in Nat \ {0}
                        /\ HubTypes \subseteq Types
                        /\ MaxTasks \in Nat /\ MaxData \in Nat

\* A task as the hub sends it.  data: "good"; "bad", required fields are missing or
\* empty; "throws", a field has a type the JSON library throws for; "none".
\* carries: what it has of the field named by Keeping, as far as it is parsed.
HubTasks == {t \in [id : HubIds, type : HubTypes, data : {"good", "bad", "throws", "none"},
                    carries : SUBSET Extras] :
               /\ t.data = "none" => t.type \in LooksForData
               /\ t.data \in {"none", "throws"} => t.carries = {}
               /\ t.type \notin Keeping => t.carries = {}
               /\ t.type \in Failing => t.data = "good"}

VARIABLES pc,           \* where the button's handler is
          isHandshake,  \* HttpsExchange::isHandshake
          ret,          \* task_manager_ERR of the last request
          result,       \* json_poll.response.result
          tasks,        \* json_poll.response.tasks
          data,         \* the lists of json_poll.response.task_data
          key,          \* task_data.key_activation.task_id
          answer, next, \* the tasks of the answer last parsed, and the next one
          kept,         \* the fields of the locals named by Keeping
          before        \* history: how many entries the lists had before that answer

response == <<result, tasks, data, key>>
parser == <<answer, next, kept, before>>
vars == <<pc, isHandshake, ret, response, parser>>

Failures == {"transport", "empty", "invalid"}
Verdicts == {"OK", "NEED_REGISTERED", "NEED_HANDSHAKE", "OTHER"}

\* itJsonTask.value("task_id", 0) is an int.
ReadId(n) == n % Word

\* valid: isValid of a receipt; whether the type of a registration is a known one.
Tasks == [id : Nat, type : Types, status : {"IN_PROGRESS", "ERROR"}]
Data == [id : Nat, carries : SUBSET Extras, valid : BOOLEAN]

TypeOK ==
  /\ pc \in {"idle", "handshake", "poll", "parse"}
  /\ isHandshake \in BOOLEAN
  /\ ret \in Failures \cup Verdicts \cup {"EXEPTION_JSON", "none"}
  /\ result \in Verdicts \cup {"IN_PROGRESS"}
  /\ tasks \in Seq(Tasks) /\ data \in [Lists -> Seq(Data)] /\ key \in Nat
  /\ answer \in Seq(HubTasks) /\ next \in Nat \ {0} /\ next <= Len(answer) + 1
  /\ kept \in [Keeping -> SUBSET Extras]
  /\ before \in [Lists -> Nat] /\ \A l \in Lists : before[l] <= Len(data[l])

NothingKept == [type \in Keeping |-> {}]
Lengths(d) == [l \in Lists |-> Len(d[l])]
Empty == [l \in Lists |-> <<>>]

Init ==
  /\ pc = "idle" /\ isHandshake = FALSE /\ ret = "none"
  /\ result = "NEED_REGISTERED"  \* result is 1 at first
  /\ tasks = <<>> /\ data = Empty /\ key = 0
  /\ answer = <<>> /\ next = 1 /\ kept = NothingKept /\ before = Lengths(Empty)

-----------------------------------------------------------------------------
(* The button and the handshake                                             *)

StartExchange ==
  /\ pc = "idle" /\ pc' = "handshake"
  /\ UNCHANGED <<isHandshake, ret, response, parser>>

\* jsonParser(JSON_RESULT, ...) takes any valid JSON for a result of 0.
Greets(r) == r \notin Failures

SendHandshake(r) ==
  /\ pc = "handshake"
  /\ IF Greets(r)
     THEN pc' = "poll" /\ isHandshake' = TRUE /\ ret' = "OK"
     ELSE pc' = "idle" /\ ret' = r /\ UNCHANGED isHandshake
  /\ UNCHANGED <<response, parser>>

-----------------------------------------------------------------------------
(* The poll                                                                 *)

\* json_poll_clear(POLL_RESPONSE): task_data_clear leaves the discounts.  (Mutant: it
\* leaves the products too.)
AfterClearKeeps(d) ==
  [l \in Lists |-> IF l \in Discounts \cup {"upsert_product", "registration"} THEN d[l] ELSE <<>>]
AfterClear(d) == [l \in Lists |-> IF l \in Discounts THEN d[l] ELSE <<>>]

\* When sendPollToHub clears.  (Mutant: after every refusal.)
ClearsAfterAny(r) == TRUE
ClearsAfter(r) == r = "NEED_HANDSHAKE"

\* The parser's locals die with it.  (Mutant: they live on.)
LocalsLive(k) == k
LocalsAfter(k) == NothingKept

EndPoll(r) == pc' = "idle" /\ ret' = r /\ kept' = LocalsAfter(kept)

\* The request, its answer or the answer's JSON failed: nothing is touched.
PollFails(r) ==
  /\ pc = "poll" /\ EndPoll(r)
  /\ UNCHANGED <<isHandshake, response, answer, next, before>>

\* Neither an object with a result nor a list of tasks: the parser's first try throws.
\* (Mutant: the tasks are not cleared before the answer is looked at.)
KeepsTasks(s) == s
OldTasks(s) == <<>>

StartParser(s, d) ==
  /\ tasks' = OldTasks(tasks) /\ data' = d
  /\ answer' = s /\ next' = 1 /\ before' = Lengths(d)

PollThrows ==
  /\ pc = "poll" /\ StartParser(<<>>, data) /\ EndPoll("EXEPTION_JSON")
  /\ UNCHANGED <<isHandshake, result, key>>

PollRefused(r) ==
  /\ pc = "poll" /\ EndPoll(r)
  /\ StartParser(<<>>, IF ClearsAfter(r) THEN AfterClear(data) ELSE data)
  /\ result' = IF ClearsAfter(r) THEN "IN_PROGRESS" ELSE r
  /\ key' = IF ClearsAfter(r) THEN 0 ELSE key
  /\ UNCHANGED isHandshake

\* The entries of task_data, by list and place.
Entries == UNION {{l} \X DOMAIN data[l] : l \in Lists}

PollAnswered(s) ==
  /\ pc = "poll" /\ Cardinality(Entries) + Len(s) <= MaxData
  /\ StartParser(s, data) /\ pc' = "parse" /\ result' = "OK"
  /\ UNCHANGED <<isHandshake, ret, key, kept>>

-----------------------------------------------------------------------------
(* One task of the answer                                                   *)

Throws(t) == \/ t.data = "throws" /\ t.type \notin Catching
             \/ t.data = "none" /\ t.type = "registration"

\* Whether the task gets through.  A receipt does whatever is wrong with it, and
\* what is wrong with a table of MRP is forgotten.  (Mutant: a bad discount does too.)
AcceptsAll(t) == t.type \notin Failing
Accepts(t) == \/ t.type \in {"external_purchase", "registration", "update_mrp_tables"}
              \/ t.type \notin Failing /\ t.data = "good"

\* Whether an entry is added to one of the lists of task_data.
Stores(t) == t.type \in Lists /\ (t.data = "good" \/ t.type \in {"external_purchase", "registration"})

\* A receipt without data is given no number.
EntryId(t) == IF t.type = "external_purchase" /\ t.data = "none" THEN 0 ELSE ReadId(t.id)

\* The field of the local after the task: products and tags are added to, an INN
\* replaces another.
Field(t) == IF t.type = "registration" /\ t.carries # {} THEN t.carries
            ELSE kept[t.type] \cup t.carries

Entry(t) == [id |-> EntryId(t), valid |-> t.data = "good",
             carries |-> IF t.type \in Keeping THEN Field(t) ELSE {}]
Task(t) == [id |-> ReadId(t.id), type |-> t.type,
            status |-> IF Accepts(t) THEN "IN_PROGRESS" ELSE "ERROR"]

\* The one key: parseActivationKey clears it first.
KeyAfter(t) == IF t.type # "key_activation" THEN key
               ELSE IF t.data = "good" THEN ReadId(t.id) ELSE 0

Current == answer[next]
More == pc = "parse" /\ next <= Len(answer)

\* The loop goes on to the next task.  (Mutant: `continue` after an increment of its own.)
AdvanceTwice(n) == n + 2
Advance(n) == n + 1

SkipTask ==
  /\ More /\ ReadId(Current.id) = 0
  /\ next' = Advance(next)
  /\ UNCHANGED <<pc, isHandshake, ret, response, answer, kept, before>>

ParseTask ==
  /\ More /\ ReadId(Current.id) # 0 /\ ~Throws(Current)
  /\ next' = Advance(next)
  /\ tasks' = Append(tasks, Task(Current))
  /\ data' = IF Stores(Current)
             THEN [data EXCEPT ![Current.type] = Append(@, Entry(Current))] ELSE data
  /\ key' = KeyAfter(Current)
  /\ kept' = IF Current.type \in Keeping THEN [kept EXCEPT ![Current.type] = Field(Current)]
             ELSE kept
  /\ UNCHANGED <<pc, isHandshake, ret, result, answer, before>>

\* The exception leaves the loop: this task and those after it are not listed.
TaskThrows ==
  /\ More /\ ReadId(Current.id) # 0 /\ Throws(Current)
  /\ EndPoll("EXEPTION_JSON") /\ key' = KeyAfter(Current)
  /\ UNCHANGED <<isHandshake, result, tasks, data, answer, next, before>>

PollReturns ==
  /\ pc = "parse" /\ next > Len(answer) /\ EndPoll("OK")
  /\ UNCHANGED <<isHandshake, response, answer, next, before>>

Answers == UNION {[1..n -> HubTasks] : n \in 0..MaxTasks}

Next == \/ StartExchange
        \/ \E r \in Failures \cup Verdicts : SendHandshake(r)
        \/ \E r \in Failures : PollFails(r)
        \/ \E r \in Verdicts \ {"OK"} : PollRefused(r)
        \/ PollThrows
        \/ \E s \in Answers : PollAnswered(s)
        \/ SkipTask \/ ParseTask \/ TaskThrows \/ PollReturns

Spec == Init /\ [][Next]_vars
-----------------------------------------------------------------------------
(* Properties                                                               *)

\* The places of a list the last poll has filled.
Added(l) == {d \in DOMAIN data[l] : d > before[l]}

\* The tasks among the first n of the answer that have a number.
Numbered(n) == {k \in 1..n : ReadId(answer[k].id) # 0}

\* json_poll lists the tasks of one answer, the last that was understood: the n-th
\* is the n-th with a number of those the parser has gone through, and there is none
\* of an earlier answer, wherever the parser is and whatever failed since.  A poll
\* that returns CAB_OK has gone through the whole answer.
TasksAreTheAnswers ==
  /\ Len(tasks) = Cardinality(Numbered(next - 1))
  /\ \A k \in Numbered(next - 1) : tasks[Cardinality(Numbered(k))] = Task(answer[k])
  /\ pc = "idle" /\ ret = "OK" => next > Len(answer)

\* Who carries out a task that is in progress finds what to do, put there by the
\* same poll, except for: a table of MRP; a receipt, whose entry may have lost its
\* number; a key, when another key, or an exception while reading one, came after.
InProgressHasData ==
  \A j \in DOMAIN tasks :
    tasks[j].status = "IN_PROGRESS" /\ tasks[j].type # "update_mrp_tables" =>
      IF tasks[j].type = "key_activation"
      THEN \/ key = tasks[j].id
           \/ \E k \in DOMAIN tasks : k > j /\ tasks[k].type = "key_activation"
           \/ pc # "parse" /\ next <= Len(answer) /\ Current.type = "key_activation"
      ELSE \E d \in Added(tasks[j].type) :
             LET entry == data[tasks[j].type][d]
             IN  \/ entry.id = tasks[j].id
                 \/ tasks[j].type = "external_purchase" /\ entry.id = 0 /\ ~entry.valid

\* What a poll adds to task_data is made from its own answer: an entry that is not of
\* a task in progress is a receipt without data, and no product, tag or INN comes
\* from an earlier poll.
DataComesFromItsPoll ==
  \A l \in Lists : \A d \in Added(l) : LET entry == data[l][d] IN
    /\ IF entry.id = 0 THEN l = "external_purchase" /\ ~entry.valid
       ELSE \E j \in DOMAIN tasks : /\ tasks[j].id = entry.id /\ tasks[j].type = l
                                    /\ tasks[j].status = "IN_PROGRESS"
    /\ \A x \in entry.carries : \E k \in 1..next - 1 :
         answer[k].type = l /\ x \in answer[k].carries

\* Nothing that a poll has added to task_data is lost before it is carried out,
\* unless the hub asks for a handshake.
NothingIsDropped ==
  [][ \/ \A l \in Lists : /\ Len(data[l]) <= Len(data'[l])
                          /\ SubSeq(data'[l], 1, Len(data[l])) = data[l]
      \/ ret' = "NEED_HANDSHAKE" ]_vars

\* json.h:1452 heads upsert_discount_clear and external_purchase_clear "methods of
\* clearing": what one task is parsed to has nothing of another in it.
CarriesItsOwn ==
  \A l \in Keeping : \A d \in Added(l) :
    \E k \in 1..next - 1 : /\ EntryId(answer[k]) = data[l][d].id /\ answer[k].type = l
                            /\ answer[k].carries = data[l][d].carries

\* What is true of it: an entry has all that its task carries, and more only if a
\* task of its type stands before its own in the same answer (an INN never).
CarriesMoreAfterAnother ==
  \A l \in Keeping : \A d \in Added(l) : \E k \in 1..next - 1 :
    /\ EntryId(answer[k]) = data[l][d].id /\ answer[k].type = l
    /\ answer[k].carries \subseteq data[l][d].carries
    /\ \/ data[l][d].carries = answer[k].carries
       \/ /\ l = "registration" => answer[k].carries = {}
          /\ \E i \in 1..k - 1 : answer[i].type = l

\* From the hub's asking for a handshake to the next poll it answers, task_data holds
\* nothing but discounts, whatever requests fail meanwhile: no task of the time
\* before is carried out after it.
OnlyDiscountsSurvive ==
  result = "IN_PROGRESS" =>
    tasks = <<>> /\ key = 0 /\ \A l \in Lists : data[l] # <<>> => l \in Discounts

=============================================================================
