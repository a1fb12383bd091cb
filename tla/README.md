# FisGo in TLA+

FisGo is a cash-register application for Android, written in C++ with Qt: a
window with a few buttons, a class `BIOS` that drives a fiscal printer through the
binary library `libqFisGoPirit`, and a class `HttpsExchange` that talks JSON over
libcurl to a cabinet server (the "hub"). The logic is in `src/kf_files/` and
`src/mainwindow.cpp`; the rest of `src/` is third-party code, images and build
files. This directory holds TLA+ models of that logic, the configurations TLC checks
them with, and theorems with proofs that TLAPS checks.

Contents: 1 the system, 2 the modules and the code, 3 the runs, 4 bounds and
fairness, 5 the proofs, 6 what the models show of the code, 7 what is abstracted and
what is not modelled, 8 the plan.

Run a configuration with `tlc -config MCBiosReceipt_one.cfg MCBiosReceipt`, check
the proofs of a module with `tlapm BiosReceiptProofs.tla`.

## 1. The system

Paths are relative to `src/kf_files/` unless they begin with `src/`.

| part | state it keeps | operations | works with |
|---|---|---|---|
| **BIOS, documents and shifts** `FisGo_BIOS.{h,cpp}` | `mutex_bios`; the flags `BIOS::isConnected` (atomic), `RUS::isConnected`, `RUS::isDocOpen`; `RUS::recPayTypes` | `receipt_send_rf_bios`, `insRes`, `openShift`, `closeShift`, `calcStateReport`, `closeFN`, `registerKKT_BIOS`, `cancelDoc`, `cancelDocBIOS`, `getStatusBIOS`, `fs_status_get` | the printer; any thread of the application |
| **BIOS, start-up** | `initBiosMutex`, `initBiosCv`, the flags | `initConnection`, `waitInitConnection`, `setConnected` | threads that wait for the printer |
| **BIOS, settings** | none of its own: the printer's tables | `setPrinterExPrint`, `setPrinterExNotPrint`, `setAutoOpenShift`, `setOFDSettings`, `getOFDSettings`, `setENVDRegData`, about forty more of one command each | the printer |
| **Hub exchange** `https_exchange.{h,cpp}` | `mutexCurl`, the address, the member `answer`, the update file | `sendHandshake`, `sendPollNew`, registration, OFD and the other requests through `sendRequest`; `downloadImage`, `downloadInThread` | JSON, libcurl; any thread of the application |
| **JSON** `json.{h,cpp}` | `json_poll`: the request, the response with its tasks and their data | `jsonPollParser`, `json_poll_clear`, `jsonParser`, `jsonPollStrCreate` | exchange, window |
| **Main window** `src/mainwindow.{h,cpp}` | `jsonWork`, `bios` | one slot per button | the printer's library directly, exchange |
| **Belarus receipts** (`BIOS::BEL`, in a `BIOS_RB` build) | `mutex_bios`; `BIOS::isConnected`, `BEL::isConnected`, `BEL::isDocOpened`; `BEL::recPayTypes` | `receipt_send_rb_bios`, `insRes`, `openShift`, `closeShift`, `cancelDocBel`, `curShiftNum`, `kca_flgs_get`, `cancelDoc`, `cancelDocBIOS` | the printer; any thread of the application |
| **TLV documents** `requisites.{h,cpp}`, `stlv_parse`, `tlv_parse` | tables of requisites | parse, print | the printer's archive |
| **OFD and fiscal memory status** | `memoryToOfdExhausted`, the day of the first unsent document | `getOfdDisconnectStatus` | the printer |
| **Menu** `MenuTree.{h,cpp}` | a tree and a cursor | move, show, hide | the user interface |
| **MD5** `Md5Sum.{h,cpp}` | 64-byte buffer, counts | `Update`, `Finalize` | downloads |
| **Files, licence, conversions, configuration, log daemon** | little or none | helpers | all |

How the parts interact. Every call of `BIOS` is a sequence of blocking library calls.
A class-wide mutex, `mutex_bios`, is held across a whole document but, in other calls,
taken and given back for each library call; flags are cached from one call to the next;
`setConnected` writes a flag without the mutex; `initConnection` signals a condition
variable whose waiters use another mutex. The window's slots run on one thread: the
printer's buttons call the library, the exchange button sends a handshake and a poll and
leaves the parsed tasks in `json_poll`. Who carries these tasks out is not in the
repository, and neither are the threads that call `BIOS`.

What is hard, and what makes each part correct:

* *documents*: a receipt is up to dozens of commands, each of which may be executed,
  refused, or executed without its answer arriving; other threads act between them and
  the application may die. Correct means: what becomes fiscal is what was asked for, the
  result tells whether it did, no two documents mix, a document is not forgotten in the
  printer without a reason, the mutex always comes back.
* *start-up*: notification, test, deadline and spurious wake-ups race. Correct means:
  "no" is said only after the deadline, "yes" only if there was a connection, and
  an answer always comes.
* *settings*: read-change-write over two holdings of a mutex. Correct means: nobody's
  settings are lost, what belongs together is written and read together.
* *exchange*: one parser with locals that live across tasks, exceptions half way,
  partial clearing. Correct means: the task list is that of one answer, a task in
  progress has its data, data comes from its own answer, nothing is lost or revived.
* *exchange threads*: one object, whose member `answer` is written and read outside
  `mutexCurl`; a download in parts, resumed by ranges, into a file that an earlier run may
  have left and that `downloadInThread` writes without the mutex. Correct means: an answer
  is that of the call that reads it, a download that reports success has left the server's
  file, the mutex comes back.
* *window*: handlers that stop half way. Correct means: a click finishes, makes fiscal
  only its own document, and a document left over has a reason.

`PROJECT.json` lists the hazards one by one, at the lines where they bite, with the
properties that would show them.

## 2. The modules and the code

```
Pirit <-+- BiosReceipt <- MCBiosReceipt, BiosReceiptProofs <- BiosReceiptContentProofs
        |      \------- INSTANCE (Abstract) ----> FiscalCall
        |      /------- INSTANCE (Abstract) ---------^
        +- BelReceipt <-- MCBelReceipt, BelReceiptProofs
        +- Window <------ WindowProofs
BiosInit <------- BiosInitProofs
BiosSettings <--- MCBiosSettings, BiosSettingsProofs
        \------- INSTANCE (Abstract) ----> PairCall
HubPoll <-------- MCHubPoll, HubPollProofs
HttpsExchange <-- MCHttpsExchange, HttpsExchangeProofs
```

**Pirit** is the printer as the code uses it (the library is a binary, so all of it is
external): one open document, an archive of what was closed, and four outcomes of a
command, `ok`, `warn` (executed, non-critical code), `refused`, `lost` (executed, no
answer). `Completed` is `isCommandComplete`. The device is assumed to be liberal: it may
close a document whatever is in it, so that nothing the code gets right is owed to a
check in the printer. That it refuses a second document, or a line outside one, is the
only help it gives.

**BiosReceipt** is class `BIOS` with any number of threads. `pc[t]` is the place in the
call, `mutex` is `mutex_bios`, `ok[t]` the local `ok`, `idx[t]` and `paid[t]` what the
loops over positions and `recPayTypes` have accepted, and `isConnected`, `rfConnected`,
`isDocOpen` the three flags. One library call is one step. The document calls:
`Call`/`CallNull`, `Enter` (the lock and the test of `isDocOpen`), `PreCancel`, `Open`
(`openDoc` with its early return), `Position`, `PosDiscount`, `Payment` (key order, cash
last, the rule for zero sums in `Due`), `TotalDiscount`, `Requisite` (which overwrites
`ok`), `CashInOut`, `Close`, `Cancel`, `Return` (which also ends the life of the locals). `Command` stands for the one command of
`openShift`, `closeShift`, `calcStateReport`, `closeFN` and `registerKKT_BIOS`, which all
cancel a document the flag tells of first; `EnterFails` is their early return, for want of
a connection or, in the registration, for one of its fields. `FsStatus`, `GetStatusBIOS`,
`CancelDoc`, `InitConnection` and `SetConnected` are calls of one step; `CancelDocBIOS`,
`CbCheck` and `CbCancel` are the three parts of `cancelDocBIOS`, of which only the first
has the mutex. `Restart` is the death of the application at any point: its memory is
that of the constructors again, the printer keeps its document. `archive`, `events` and
`leak` are history.

**FiscalCall** is what a caller may think of a document call: at one moment while it is
pending its whole document becomes fiscal, or none does; `true` only if it did.
`BiosReceipt!AbstractSpec` is the refinement: the moment is the `Close` that the printer
executes.

**BelReceipt** is the class in a `BIOS_RB` build, in the same form. What differs is what
the code does differently: `receipt_send_rb_bios` looks at its argument with the mutex
taken and cancels no earlier document (`FirstPlace`), `openDoc` and `insRes` compare codes
with 0, so that a warning is a failure (`AfterOpen`, `CashInOut`), margins and a subtotal
come between positions and payments (`PosMargin`, `SubTotal`, `Margin`), a list of zero sums
pays nothing (`Due`, `HasPayment`), and the constructor sets no flag (`Init`). It implements
the same `FiscalCall`.

**BiosInit** is `waitInitConnection`, `initConnection` and `setConnected` at the grain of
the condition variable: `Lock`, `Test`, `Block`, `TimeOut`, `WakeSpuriously`, `Relock` on
the waiter's side, `Connect`, `Enter`, `Command`, `Notify`, `Copy`, `Return` on the
other. It opens up the one step that BiosReceipt takes for `initConnection`.

**BiosSettings** is the calls made of more than one command: a mask is `Read` and
`Write`, each under the mutex; a pair is `PutFirst`/`PutSecond` or
`GetFirst`/`GetSecond`, with the mutex kept in between by the calls that keep it
(`Keeps`). A mask is the set of its bits. `failures` and `shown`, the pair as it was when
the mutex was last free, are history.

**PairCall** is what a caller may think of `setOFDSettings` and `getOFDSettings`: the
address and the port are one register. A call that writes changes it at one moment, when it
ends, and a failed one has written nothing, the first part, or both; a call that reads
answers with what the register holds when it ends. `BiosSettings!AbstractSpec` is the
refinement: what the callers see is `shown`, which lags behind the printer while a writer
is between its two parts, and so `setENVDRegData`, which gives the mutex back in
between, would implement no such register.

**HubPoll** is the exchange button: `StartExchange`, `SendHandshake`, then one of
`PollFails`, `PollThrows`, `PollRefused`, `PollAnswered`; after the last, one step per
round of the loop of `jsonPollParser` (`SkipTask`, `ParseTask`, `TaskThrows`) and
`PollReturns`. `tasks`, `data`, `key` and `result` are `json_poll.response`; `kept` holds
the fields of the parser's locals that their clearing methods leave. A task is its
number, its type, and whether its data is good, bad, of a type the JSON library throws
for, or missing; which of these the parser of that type tells apart is in `Throws`,
`Accepts`, `Stores` and `KeyAfter`.

**HttpsExchange** is one object of the class as several threads use it. A call is one of
five: `post` is a request through `sendData`, whose answer goes into a local and then,
after the unlock, into the member (`SendData`, `Assign`); `get` a request that libcurl
answers into the member itself (`GetPiece`, `GetEnd`); `download` the loop of DOWNLOAD
(`Open`, `Receive`, `Complete`, `Partial`, `Failed`), with `fopen` in `ab+` or `wb+`, the
range of the next part from `ftell` and the length curl reported; `load` the same loop
without the mutex, `downloadInThread`; `image` a `get` and then, whatever the parser made of
the answer, a `download`. An answer is two pieces that know whose they are, the file a
sequence of numbered blocks, so that a blend, a gap or a repetition shows. What a server
may send is in `Ranges`.

**Window** is the printer's buttons of `MainWindow`, which call the library themselves:
`Press` enters a slot, `OpenReceipt`, `AddPositions`, `AddThePayment` and `CloseIt` are
`on_pbReciept_clicked`, `OpenService`, `PrintStrings`, `StringsDone` and `CloseIt` are
`on_pbPrintSDoc_clicked`, `Command` the five slots of one command.

`PROJECT.json` maps every definition to its lines. Definitions whose comment says
"Mutant" are not part of a specification: they are forms a plausible mistake in the code
would take, and every property is checked to fail when one of them is put in place.

## 3. The runs

| run | what is asked | answer |
|---|---|---|
| `receipt_one_cashier` | One thread sends receipts of six shapes, another cash documents and every other call; restarts, refused and lost commands anywhere | what becomes fiscal is what was asked for (`ArchivedIsWhole`), the result tells (`VerdictMatchesArchive`), no two documents mix (`DocumentHasOneWriter`, `Undisturbed`), one left over has a reason (`LeakIsExplained`, `CancelReachesPrinter`), the class implements `FiscalCall` (`AbstractSpec`), the mutex comes back (`MutexReleased`, under fairness) |
| `receipt_failure_cancels` | does line 977 hold? | violated, see section 6 |
| `receipt_earlier_document` | does line 797 hold? | violated, see section 6 |
| `init_wait` | Two waiters, `initConnection`, `setConnected` | `FalseOnlyAfterDeadline`, `TrueOnlyIfConnected`, and an answer always comes (`WaitReturns`) |
| `init_wakeup` | is every connection noticed by a waiter? | violated, see section 6 |
| `settings_calls` | Two threads change masks and the address and port of the OFD | `PurchaseOnlyGains`, `PrinterSettingsKept`, `OfdSettingsTogether` hold, and the calls on address and port implement `PairCall` (`AbstractSpec`) |
| `settings_org` | are name and address of the organisation of one call? | violated, see section 6 |
| `hub_polls` | Exchanges with answers of up to two tasks of six types | `TasksAreTheAnswers`, `InProgressHasData`, `DataComesFromItsPoll`, `OnlyDiscountsSurvive`, `NothingIsDropped` hold |
| `hub_fields` | does every entry carry its own fields only? | violated, see section 6 |
| `exchange_threads` | One thread posts and makes `downloadImage`, another posts and loads in the background, on one object; every cut of a transfer, whim of a server and death of the application | `LoadedIsWhole`, `AnswerIsOfThisTime` hold, and only the network keeps `mutexCurl` for ever: one transfer that never ends, or parts cut again and again (`MutexCurlKeptByNetwork`, with nothing assumed of the network) |
| `bel_receipts` | The Belarusian build: one thread sends receipts of four shapes, another everything else; flags of any first value, warnings, restarts | the same properties as for the Russian receipts hold, and it implements the same `FiscalCall` |
| `window_clicks` | Any clicks, any outcome, any death | `ReceiptIsItsOwn`, `LeftoverIsExplained`, `ClickEnds` hold |

Deadlock is checked in every run. The properties are stated, with the code they are
about, at the end of each module. Some of them name exceptions the code really makes:
`ArchivedIsWhole` takes, for a receipt with an additional requisite, the beginnings of what
was asked for as well (section 6, `receipt_failure_cancels`); `LoadedIsWhole` leaves out the
downloads that met one of four oddities (`Strange`, two downloads at once);
`VerdictMatchesArchive` allows a fiscal document behind the answer `false` when the
closing command was the one whose answer was lost, and `InProgressHasData` lists the task
types that may be in progress without data.

## 4. Bounds and fairness

* *Threads*: two. Every interference is between the holder of the mutex and one other
  thread; a third adds only more of the same. The theorems are for any number.
* *Receipts* (`MCBiosReceipt`): one per path through `receipt_send_rf_bios`. `Mixed` has
  two positions (one discounted), cash, a card and a zero sum; `Single` one
  `typePayment`; `Free` a single zero payment; `Unpayable` none; `Tiny` a discount that
  `printDiscount` rejects; `WithRequisite` an additional requisite.
* *Calls*: `t1` sends receipts, `t2` cash documents, `closeShift`, `registerKKT_BIOS` and
  every call of one step. The two commands stand for the five of their kind: the first looks
  at the connection and the second does not, and the second has the early return of its
  fields; there is no other difference between the five. Every call meets every other one of
  the other thread, except two receipts each other, which is a receipt and a cash document
  with other commands in between. In `bel_receipts` the two commands are the two ways the
  code is looked at, and the receipts are those with and without margins, a single payment,
  a list of zero sums, and none.
* *Waits*: `MaxWaits = 2` per thread, so that a second wait meets what the first left;
  it also makes weak fairness of the deadline enough, since each wait is finite.
* *Settings*: the two bits the code changes, each of which is an "other" setting to the
  calls about the other; two values, and one that is rejected; every call may find the
  tables as any earlier ones have left them.
* *Hub*: two tasks in an answer and two entries in `task_data` (`MaxTasks`, `MaxData`), so
  that a second task meets the locals of the first and a second poll the lists of the
  first; `Word = 4` stands for the 2^32 values of an int, so that the number 4 is read
  as 0; one product, tag or INN (`Extras`).
* *Exchange*: a file of two blocks (`Size`), so that a download may be cut before, between
  and after them; at most two blocks in the file (`MaxLength`), which stops only downloads
  that met an oddity or each other. The invariants were also checked with `Size = 3` and
  `MaxLength = 4`. `download` and `get` on their own are parts of `image`.
* *Window*: the ten positions and four strings of the code itself.

Fairness is assumed only for the liveness properties. `MutexReleased` assumes that a
thread inside a call goes on (`WF` of `Inside(t)`): every library call returns, since the
library has time-outs of its own, and nothing is assumed of threads that wait for the
mutex. `WaitReturns` assumes that a waiter that can step does (`WF` of its steps; the
scheduler), and that the deadline passes (time goes on); not that anybody connects.
`MutexCurlKeptByNetwork` assumes that the code's own steps go on (`WF` of `OwnStep(t)`: opening
the file, copying, reading and returning), and nothing of a transfer: only connecting has a
time-out, and the loop of the code repeats a cut one for ever (`https_exchange.cpp:2817`). So
it cannot say that the mutex comes back, which the code does not guarantee. It says that
these are the only two ways in which it does not. Either exception is needed: without it TLC
finds the property violated.
`ClickEnds` assumes that the handler goes on, not that anyone clicks. HubPoll has no
liveness: only the connection has a time-out in the code, so that a hub which accepts
and never answers keeps the window's thread for ever.

## 5. The proofs

All are about the specifications the runs check, for any values of the constants that
satisfy the modules' assumptions: any set of threads, any receipts, any assignment of
calls to threads, any numbers and lengths of answers.

* **BiosReceiptProofs**: `TypeCorrect`; then `DocumentInv` is inductive and gives
  `OneWriter`, `LeaksExplained` and `CancelSent`. The properties alone are
  not inductive: that a filled document is the caller's own needs that a thread is at a
  locked place exactly when it has the mutex (`MutexMatches`), that the owner of the
  printer's document is at a place from which it closes or cancels it (`OwnerIsLive`),
  that whoever is at such a place owns it (`LiveIsOwner`), and that `rfConnected` cannot
  fall meanwhile (`CancelReachesPrinter`): otherwise `closeDoc` and `cancelDoc` would
  return before the command. `LeakIsKnown` carries the reason of a leftover document from
  the step that left it to the moment the mutex is free.
* **BiosReceiptContentProofs**: `ContentInv`, one statement per thread and place: what was
  called (`OpMatches`), how far `idx` and `paid` are (`Progress`), that the printer's document
  holds exactly that (`DocMatches`), and what of it may be fiscal and known to be
  (`ArchiveMatches`). After a failure that the additional requisite makes the code forget,
  `idx` and `paid` no longer tell what the document holds; from there on (`Ending`) it holds
  some beginning of what was wanted (`BeginningIsFiscal`). That the payments of the loop
  are the wanted ones is `DueIsWanted`, for which the set of payment types must be finite. It
  gives `FiscalIsWhole` and `VerdictCorrect`. `OnlyItsThread` needs only `DocumentInv` and
  what each action does to the document. `Refinement`: `Call` is a request, a `Close` that
  the printer executes the moment the document becomes fiscal, `Return` the answer (a null
  pointer is both in one step), `Restart` the crash, everything else a stutter.
  `FailuresReported` delimits the finding of `receipt_failure_cancels`: once a command has
  failed there is only the end of the call with `false` left (`FailureEndsIt`), except in a
  receipt with an additional requisite. That is where each command's next place comes
  from, so that it needs `OpMatches` of the invariant above.
* **BelReceiptProofs**: the same chain for the Belarusian build, `TypeCorrect`, `OneWriter`,
  `LeaksExplained`, `CancelSent`, `FiscalIsWhole`, `VerdictCorrect`, `OnlyItsThread`, `Refinement`. Without a
  forgotten failure its `ContentInv` is simpler; its receipts cancel nothing
  before the opening, so that no call fills another's document rests on the printer's refusal
  of a second one.
* **WindowProofs**: `TypeCorrect`; `ClickInv` follows the document of the click from its
  opening: until it is closed it is the window's own, with a position before it is paid and
  one payment before it is closed. `OwnReceipt` and `LeftoversExplained` follow.
* **HttpsExchangeProofs**: `TypeCorrect` with `ReplyInv` (what a reply still brings lies in the
  file). `LoadedWhole` from `LoadInv`: a download that met nothing strange is alone at the
  file (`AloneInv`), the file is the first blocks up to its position, the reply brings the
  next one, and the last length and position add up to the file's (`FileInv`): that is why
  the range `contentLen + downloadedFileSize` of the next part reaches the end, however often
  the transfer is cut. `AnswerTimely` from `AnswerInv`: two threads with a call have met
  (`MeetInv`), what a server has sent is the thread's own (`SentInv`), and the pieces in the
  member are of calls that the reader has met (`PieceInv`).
* **BiosInitProofs**: `TypeCorrect`; `WaitInv` (the flag's history is right while a wait
  goes on, and a thread that answers "no" has passed its deadline) gives
  `FalseMeansTimeOut` and `TrueMeansConnected`.
* **BiosSettingsProofs**: `TypeCorrect`; `MaskIsCurrent` (a mask about to be written to the
  table of receipts is that table and the one bit, although the mutex was given back in
  between: no other call writes another bit) gives `PurchaseKept`; `PrinterMaskIsCurrent`,
  the same of the printing device as long as no read has failed, gives `PrinterKept`;
  `OfdInv` (the pair is mixed only while its writer has the mutex, and a reader between the
  two parts has the first part of what is there) gives `OfdTogether` and `OfdRead`.
  `Refinement` of PairCall adds what the callers have seen (`ShownIsCurrent`: `shown` is the
  pair, but for the first part of a writer who has the mutex) and that a call under way has
  not succeeded yet (`NotYetOk`). Its steps: `Call` is `Ask`; the second part of a writer,
  or a first part that fails, is `Put`, with the three things a failed call may have written;
  the second part of a reader, or a first that fails, is `Get`; everything else is a stutter
  (`Unseen`), the first parts among it.
  `OrgTogether` is the positive side of the finding of `settings_org`: its hypothesis
  `OneRegisters` says that no two threads call `setENVDRegData` (nothing in this repository
  calls it yet), and then what the other threads do between its two holdings of the mutex
  is harmless. The run is the counterexample without the hypothesis.
* **HubPollProofs**: `TypeCorrect`; `KeptInvariant` (what the parser's locals hold was
  brought by a task of this answer) gives `DataOrigin`; `FailingTasksFail` and the data
  invariant give `DataInPlace`; `NothingDropped` and `OnlyDiscounts`, the latter with the
  fact that the loop runs only under a result of 0. `TasksOfAnswer`: the place of a task
  in the list is the number of the numbered elements up to its own, so that one round of
  the loop changes one cardinality (`NumberedNext`, `NumberedCount`) and no induction over
  the answer is needed. `CarryOverExplained` is the positive side of the finding of
  `hub_fields`: a stored entry has all fields of its task, and others only if a task of the
  same type stands before it in the same answer; nothing comes from an earlier answer.

Assumed, besides the constants' named assumptions and the hypothesis of `OrgTogether`:
nothing. Every safety property of the passing runs is proved. Only model-checked, because
they are beyond this prover, are the liveness properties: `MutexReleased`,
`MutexCurlKeptByNetwork`, `WaitReturns`, `ClickEnds`. `CarriesMoreAfterAnother`,
`FailureIsReported`, `OfdReadTogether` and, of BelReceipt, `Undisturbed` are stated of every
behaviour by their theorems and are in no run's list.

## 6. What the models show of the code

With a run of its own, ending in a counterexample to what a comment says:

* `receipt_failure_cancels`: with an additional requisite, the result of that one command
  replaces the result of all before it (`FisGo_BIOS.cpp:960`); a receipt with a failed
  payment is closed and answered with true, against line 977. No other document call does
  so (`FailuresReported`).
* `receipt_earlier_document`: `isDocOpen` is refreshed by status calls only; a document
  whose opening was executed but not answered is not cancelled by the next receipt,
  against line 797, and every receipt is refused until someone asks for the status.
* `init_wakeup`: flag and notification are made under another mutex than the waiter's
  (`FisGo_BIOS.cpp:597`), so both may fall between the waiter's test and its blocking: it
  then sleeps for its 300 seconds.
* `settings_org`: two `setENVDRegData` may both report success and leave the name of one
  and the address of the other. One caller is safe (`OrgTogether`).
* `hub_fields`: `upsert_discount_clear` and `external_purchase_clear` leave products and
  tags; a discount is stored with the products of the discounts before it, which are of
  the same answer (`CarryOverExplained`).

Met while modelling, faithful in the models, without a run of their own:

* `task_data_clear` leaves the two lists of discounts (`json.cpp:187-201`):
  `OnlyDiscountsSurvive` says that nothing else stays.
* A refused handshake is taken for an accepted one: the line of `jsonParser` that reads
  the result is commented out (`json.cpp:1970`; `HubPoll!Greets`).
* Task numbers go through an int (`json.cpp:1484`; `HubPoll!ReadId`): some are listed
  under another number, multiples of 2^32 are skipped.
* `on_pbReciept_clicked` looks at the result of the last of its ten positions only
  (`src/mainwindow.cpp:95-98`): a receipt may be closed with fewer than are paid for.
* `on_pbPrintSDoc_clicked` looks at no result: a receipt left open after its payment is
  made fiscal by the button of the service document (`src/mainwindow.cpp:46-52`).
* `cancelDocBIOS` may cancel a document that another thread has just begun
  (`FisGo_BIOS.cpp:3794`): `Undisturbed` names it, and the interrupted receipt fails as it
  should.
* `BEL::openDoc` compares the code with 0 (`FisGo_BIOS.cpp:1247`): after a warning the
  document is open, the call fails and does not cancel it.
* In the Belarusian build a list of payments that are all zero, none of them cash, is taken
  for a mixed payment of none (`FisGo_BIOS.cpp:1100`): the receipt is closed unpaid
  (`BelReceipt!Due`).
* The constructor of `BEL` initialises neither of its flags (`FisGo_BIOS.cpp:4727`):
  `BelReceipt!Init` takes any value.
* The comment on `downloadInThread` promises a mutex of its own (`https_exchange.cpp:3062`);
  there is none, and two downloads write the same file, which `LoadedIsWhole` has to except.
* The HTTP status of a download is not looked at, and nothing compares a digest (the `md5` of
  an update is read in commented-out code only, `json.cpp:1921`): a server's error page, its
  answer with everything to a request for the rest, or what came of a reply without a length
  count as the file.
* `downloadImage` goes on with an empty address when the parser finds none, which truncates
  the update file, and answers true for an empty answer (`https_exchange.cpp:3712`).
  For a null `json` it returns `CAB_CRITICAL_ERROR`, which as a `bool` is true (3703).
* A transfer that never ends, and a download whose parts are cut again and again, keep
  `mutexCurl` for ever: there is a time-out for connecting only (60 s) and no bound on the
  parts (`https_exchange.cpp:2817`). Every other request then waits;
  `MutexCurlKeptByNetwork` says that nothing else keeps the mutex.
* Two overlapping requests may read each other's answer (`AnswerIsOfThisTime` says how far).

Outside the models:

* `setDateTimeToBIOS(unixTime)` overwrites its argument with the current time
  (`FisGo_BIOS.cpp:3753`); port 65535 is rejected (3996).
* The deadline of `waitInitConnection` is of `system_clock` (`FisGo_BIOS.cpp:748`): setting the
  clock moves it. The models have no clock, and the deadline may come at any time.
* `getOfdDisconnectStatus` clears its flags before it knows whether the command succeeded
  (`FisGo_BIOS.cpp:342`), `memoryToOfdExhausted` is set and never cleared (2385), and
  `OFD_DISCONNECT_TEST_EN` is not initialised (`FisGo_BIOS.h:872`). Whoever reads them is not
  in the repository.
* `convertASCIImassToHex` converts `"0x.."` with base 10 (`convert.cpp:622`), which gives 0
  for every byte.
* The constructor of `HttpsExchange` unlocks `mutexCurl` without holding it
  (`https_exchange.cpp:26`), which is undefined.

## 7. Abstractions, and what is not modelled

* The printer's codes 1002 to 1004 ("packet mismatch"), which `isCommandComplete` counts
  as completed whatever the printer did, are left out: with them no result means anything.
* `recPayTypes`, a public member that the caller fills before the call, is an argument of
  the call: who fills it is not in the repository. The object `fg` that
  `initConnection` asks for is taken as there, and its printer as the Russian one.
* `setConnected` and `initConnection` are the only writers of the flag; `initBiosCv` is
  public, but nobody else in the repository notifies it.
* Contents of positions, sums, texts and addresses are left out: the properties are about
  how many and which commands reach the printer. A mask is the set of its bits.
* A task of the hub without `data` is considered only for types whose parser looks for it.
  The others index a constant JSON object with a missing key, which the JSON library
  leaves undefined.
* Texts of requests and answers of the exchange, and the hub mode's address, are left out:
  HttpsExchange is about whose answer it is, HubPoll about what one kind of answer says.
  The returns of `sendData` for a hub mode without an address and of `downloadInThread` for
  an empty one are not told from their other failures, and a whole answer without an
  address, from the caller's own server, is not among the answers.
* Not modelled: calls of `BIOS` that read counters or tables with one command under one
  lock; helpers without control (files, conversions, configuration, log daemon);
  third-party and generated code, which is more than nine tenths of `src/`.
* TLV documents: `stlv_parse` and `tlv_parse` read what `convertASCIImassToHex` makes of the
  printer's answer, which is a row of zeros (section 6). A faithful model has one input, and
  nothing to check.
* OFD status: its flags are read outside the repository only, so that no property of a call
  depends on them.

## 8. The plan

Built, in the order of their weight: Pirit, BiosReceipt with FiscalCall, BiosInit,
BiosSettings, HubPoll, Window, HttpsExchange, BelReceipt, and the proofs of section 5. What
remains is smaller:

1. *Menu*: the cursor stays on a shown entry under any sequence of moves, shows and hides.
2. *MD5 buffering*: blocks are those of the concatenated input, however `Update` cuts it.
3. *Files*: the update through a temporary file under crashes.
4. *Licence*: masks with expiry.
5. *Hub mode*: the address that `HttpsExchange` derives from the configuration.
