--------------------------- MODULE HttpsExchange ---------------------------
(***************************************************************************)
(* Class HttpsExchange of kf_files/https_exchange.cpp as several threads   *)
(* use one object of it: requests through sendData, requests that libcurl  *)
(* answers straight into the member `answer', the download of the update   *)
(* file, downloadImage, which makes two requests, and downloadInThread.    *)
(* The member and the file are shared; mutexCurl guards some of their uses.*)
(*                                                                         *)
(* The servers and the network are external: a server may answer anything  *)
(* named in Ranges and SendData, and a transfer may stop anywhere.  What   *)
(* an answer says is left out; it is cut in two pieces so that a part of   *)
(* one, and a blend of two, can be told from a whole one.                  *)
(***************************************************************************)
EXTENDS Integers, Sequences

CONSTANTS Threads, Nobody,
          Calls,      \* Calls[t]: the calls thread t makes
          Size,       \* how many blocks the update file has on the server
          MaxLength   \* bound: blocks in UPDATE_FILE

Ops == {"post", "get", "download", "image", "load"}

ASSUME ExchangeAssumption == /\ Nobody \notin Threads
                             /\ Calls \in [Threads -> SUBSET Ops]
                             /\ Size \in Nat \ {0} /\ MaxLength \in Nat

VARIABLES mutexCurl,  \* its holder, or Nobody
          answer,     \* the member
          file,       \* UPDATE_FILE: the blocks in it
          pc, op,     \* where thread t is, in which call
          req,        \* the request the call is making
          err,        \* the request's `err'
          sent,       \* what the server has sent of its answer (answerTmp)
          noUrl,      \* whether downloadImage has found no URL
          part,       \* needDownloadPart
          at,         \* ftell of body_file
          size,       \* downloadedFileSize
          len,        \* contentLen, or Unknown
          body,       \* the blocks of the reply that are still to come
          during,     \* history: the threads that had a call during that of t
          odd         \* history: whether t's download met something of Strange

memory == <<mutexCurl, answer>>
loop == <<part, at, size, len, body>>
history == <<during, odd>>
vars == <<mutexCurl, answer, file, pc, op, req, err, sent, noUrl, part, at, size, len,
          body, during, odd>>

\* CURLINFO_CONTENT_LENGTH_DOWNLOAD of a reply without a length, chunked or ended
\* by closing the connection.
Unknown == -1

\* Blocks: 1..Size are the file's; a page is what a server sends with an HTTP error;
\* a gap is what a file has between its end and where it is written to.
Page == 0
Gap == Size + 1
Blocks == 0..Gap

\* Pieces of an answer: two of the current request of a thread make its answer; Old is
\* one of an earlier request; the text of a download's size.
Reply(t) == <<[of |-> t, half |-> 1], [of |-> t, half |-> 2]>>
Old == [of |-> Nobody, half |-> 1]
SizeText == [of |-> Nobody, half |-> 2]
Pieces == [of : Threads \cup {Nobody}, half : {1, 2}]
Sent(t) == {SubSeq(Reply(t), 1, n) : n \in 0..2}

Requests == {"post", "get", "download"}
Places == {"idle", "lock", "post", "assign", "get", "read", "open", "transfer", "return"}
Holding == {"post", "get"}
Loading == {"open", "transfer"}
Codes == {"0", "1", "0xFF"}

TypeOK ==
  /\ mutexCurl \in Threads \cup {Nobody}
  /\ answer \in Seq(Pieces) /\ file \in Seq(Blocks)
  /\ pc \in [Threads -> Places] /\ op \in [Threads -> Ops \cup {"none"}]
  /\ req \in [Threads -> Requests] /\ err \in [Threads -> Codes]
  /\ sent \in [Threads -> Seq(Pieces)] /\ noUrl \in [Threads -> BOOLEAN]
  /\ part \in [Threads -> BOOLEAN]
  /\ at \in [Threads -> Nat] /\ size \in [Threads -> Nat]
  /\ len \in [Threads -> Nat \cup {Unknown}]
  /\ body \in [Threads -> [page : BOOLEAN, next : Nat, last : Nat]]
  /\ during \in [Threads -> SUBSET Threads] /\ odd \in [Threads -> BOOLEAN]

Nothing == [page |-> FALSE, next |-> 1, last |-> 0]

\* A new object; the file is what an earlier run has left.
Init ==
  /\ mutexCurl = Nobody /\ answer = <<>>
  /\ pc = [t \in Threads |-> "idle"] /\ op = [t \in Threads |-> "none"]
  /\ req = [t \in Threads |-> "post"] /\ err = [t \in Threads |-> "0xFF"]
  /\ sent = [t \in Threads |-> <<>>] /\ noUrl = [t \in Threads |-> FALSE]
  /\ part = [t \in Threads |-> FALSE]
  /\ at = [t \in Threads |-> 0] /\ size = [t \in Threads |-> 0]
  /\ len = [t \in Threads |-> 0] /\ body = [t \in Threads |-> Nothing]
  /\ during = [t \in Threads |-> {}] /\ odd = [t \in Threads |-> FALSE]
  /\ file \in {<<>>, <<Page>>}

Goto(t, place) == pc' = [pc EXCEPT ![t] = place]
SetErr(t, e) == err' = [err EXCEPT ![t] = e]

\* A call returns: its locals, and what the history says of it, are gone.
Leave(t) == /\ Goto(t, "idle") /\ SetErr(t, "0xFF")
            /\ sent' = [sent EXCEPT ![t] = <<>>] /\ noUrl' = [noUrl EXCEPT ![t] = FALSE]
            /\ during' = [during EXCEPT ![t] = {}] /\ odd' = [odd EXCEPT ![t] = FALSE]

-----------------------------------------------------------------------------
(* Calls                                                                    *)

\* What sendRequest does to the member before it begins.  (Mutant: nothing.)
NotCleared == answer
Cleared == <<>>

\* The pieces of t's earlier request that are still in the member are old ones.
Aged(t, s) == [i \in DOMAIN s |-> IF s[i].of = t THEN Old ELSE s[i]]

FirstRequest(o) == CASE o = "post" -> "post"
                     [] o \in {"get", "image"} -> "get"
                     [] OTHER -> "download"

\* One call begins: the threads with a call meet each other.
Meet(t) ==
  LET busy == {u \in Threads \ {t} : pc[u] # "idle"}
  IN during' = [u \in Threads |-> IF u = t THEN busy
                                  ELSE IF u \in busy THEN during[u] \cup {t}
                                  ELSE during[u]]

\* The locals of the download loop come and go.
NewLoop(t) == /\ part' = [part EXCEPT ![t] = FALSE]
              /\ at' = [at EXCEPT ![t] = 0] /\ size' = [size EXCEPT ![t] = 0]
              /\ len' = [len EXCEPT ![t] = 0] /\ body' = [body EXCEPT ![t] = Nothing]

\* downloadInThread takes no mutex and leaves the member alone; every other request
\* clears it, before it has the mutex.
Call(t, o) ==
  /\ pc[t] = "idle" /\ o \in Calls[t]
  /\ op' = [op EXCEPT ![t] = o]
  /\ req' = [req EXCEPT ![t] = FirstRequest(o)]
  /\ Meet(t)
  /\ answer' = Aged(t, IF o = "load" THEN answer ELSE Cleared)
  /\ Goto(t, IF o = "load" THEN "open" ELSE "lock")
  /\ UNCHANGED <<mutexCurl, file, err, sent, noUrl, loop, odd>>

Lock(t) ==
  /\ pc[t] = "lock" /\ mutexCurl = Nobody /\ mutexCurl' = t
  /\ Goto(t, IF req[t] = "download" THEN "open" ELSE req[t])
  /\ answer' = IF req[t] = "get" THEN Cleared ELSE answer
  /\ UNCHANGED <<file, op, req, err, sent, noUrl, loop, history>>

-----------------------------------------------------------------------------
(* Requests for an answer                                                   *)

\* A transfer is good only with all of the server's answer, which may be empty.
Whole(t, s) == s \in {<<>>, Reply(t)}

\* sendData up to the end of the block that has the mutex: into a local string.
SendData(t) ==
  /\ pc[t] = "post"
  /\ \E s \in Sent(t), e \in {"0", "0xFF"} :
       /\ e = "0" => Whole(t, s)
       /\ sent' = [sent EXCEPT ![t] = s] /\ SetErr(t, e)
  /\ mutexCurl' = Nobody /\ Goto(t, "assign")
  /\ UNCHANGED <<answer, file, op, req, noUrl, loop, history>>

\* Back from a request with the code e: the answer is looked at only after a good one.
Back(t, e) == IF e = "0" THEN Goto(t, "read") /\ SetErr(t, e) /\ UNCHANGED <<sent, noUrl, history>>
              ELSE Leave(t)

\* The member gets the local without the mutex, after a bad transfer too.
Assign(t) ==
  /\ pc[t] = "assign" /\ answer' = sent[t] /\ Back(t, err[t])
  /\ UNCHANGED <<mutexCurl, file, op, req, loop>>

\* libcurl appends to the member itself.
GetPiece(t) ==
  /\ pc[t] = "get" /\ Len(sent[t]) < 2
  /\ LET piece == Reply(t)[Len(sent[t]) + 1]
     IN /\ answer' = Append(answer, piece)
        /\ sent' = [sent EXCEPT ![t] = Append(@, piece)]
  /\ UNCHANGED <<mutexCurl, file, pc, op, req, err, noUrl, loop, history>>

GetEnd(t) ==
  /\ pc[t] = "get"
  /\ \E e \in {"0", "0xFF"} : (e = "0" => Whole(t, sent[t])) /\ Back(t, e)
  /\ mutexCurl' = Nobody
  /\ UNCHANGED <<answer, file, op, req, loop>>

\* A whole answer to a call of the same kind is taken for the call's own.
Accepted(t) == \E u \in Threads : op[u] = op[t] /\ answer = Reply(u)

\* The caller reads the member, without the mutex, and returns what it makes of it.
Read(t) ==
  /\ pc[t] = "read" /\ op[t] # "image" /\ Leave(t)
  /\ UNCHANGED <<memory, file, op, req, loop>>

WellFormed(s) == s = <<SizeText>> \/ \E u \in Threads : s = Reply(u)

\* downloadImage: an empty answer is a success without a download; the parser throws
\* for text that is not JSON; the download follows whether a URL was found or not.
ReadImage(t) ==
  /\ pc[t] = "read" /\ op[t] = "image"
  /\ \/ ~WellFormed(answer) /\ Leave(t) /\ UNCHANGED <<answer, req>>
     \/ /\ WellFormed(answer)
        /\ noUrl' = [noUrl EXCEPT ![t] = ~Accepted(t)]
        /\ answer' = Cleared /\ SetErr(t, "0xFF")
        /\ req' = [req EXCEPT ![t] = "download"] /\ Goto(t, "lock")
        /\ UNCHANGED <<sent, history>>
  /\ UNCHANGED <<mutexCurl, file, op, loop>>

-----------------------------------------------------------------------------
(* The download loop, of DOWNLOAD and of downloadInThread                    *)

\* A thread whose download is under way.
Downloading(t) == pc[t] \in Loading \cup {"return"}

\* The last block that the Range header asks for: contentLen + downloadedFileSize is an
\* offset, the blocks count from 1.
Lesser(m, n) == IF m < n THEN m ELSE n
RangeEnd(t) == Lesser(Size, len[t] + size[t] + 1)

\* What the server may send: the range asked for; the whole file, to a request without a
\* Range header, or if it cannot or need not honour it; a page; nothing.
Ranges(t) ==
  LET from == IF part[t] THEN size[t] + 1 ELSE 1
      to   == IF part[t] THEN RangeEnd(t) ELSE Size
      bytes(m, n) == [page |-> FALSE, next |-> m, last |-> n]
  IN IF noUrl[t] THEN {Nothing}  \* an empty URL
     ELSE {bytes(1, Size), [bytes(1, 1) EXCEPT !.page = TRUE], Nothing}
            \cup (IF len[t] # Unknown /\ from <= to THEN {bytes(from, to)} ELSE {})

\* What the code takes for the file, or the rest of it, though it is not: a page, nothing
\* or everything in place of the rest, as much as came of a reply without a length.
Strange(t, b, announced) ==
  b.page \/ ~announced \/ (part[t] /\ (b = Nothing \/ b.next # size[t] + 1))

\* How fopen leaves the file.  (Mutant: a part is asked for and the file begun anew.)
OpenedAlwaysNew(t) == <<>>
Opened(t) == IF part[t] THEN file ELSE <<>>

Finish(t) == /\ Goto(t, "return") /\ NewLoop(t)
             /\ mutexCurl' = IF mutexCurl = t THEN Nobody ELSE mutexCurl

OpenFails(t) ==
  /\ pc[t] = "open" /\ SetErr(t, "1") /\ Finish(t)
  /\ UNCHANGED <<answer, file, op, req, sent, noUrl, history>>

\* fopen, and the server's reply.  Opening meets the downloads under way.
Open(t) ==
  /\ pc[t] = "open" /\ Goto(t, "transfer")
  /\ file' = Opened(t)
  /\ at' = [at EXCEPT ![t] = Len(Opened(t))]
  /\ answer' = IF op[t] = "load" THEN answer ELSE Cleared
  /\ \E b \in Ranges(t), announced \in BOOLEAN :
       /\ announced \/ b # Nothing
       /\ body' = [body EXCEPT ![t] = b]
       /\ len' = [len EXCEPT ![t] = IF announced THEN b.last + 1 - b.next ELSE Unknown]
       /\ LET others == {u \in Threads \ {t} : Downloading(u)}
          IN odd' = [u \in Threads |-> \/ odd[u] \/ u \in others
                                       \/ u = t /\ (others # {} \/ Strange(t, b, announced))]
  /\ UNCHANGED <<mutexCurl, op, req, err, sent, noUrl, part, size, during>>

\* Where the next block goes, counted from 0: "ab+" writes at the end of the file, "wb+"
\* where this handle has come to.
Position(t) == IF part[t] THEN Len(file) ELSE at[t]
Written(k, b) ==
  [i \in 1..(IF k < Len(file) THEN Len(file) ELSE k + 1) |->
     IF i = k + 1 THEN b ELSE IF i <= Len(file) THEN file[i] ELSE Gap]

Receive(t) ==
  /\ pc[t] = "transfer" /\ body[t].next <= body[t].last
  /\ Position(t) < MaxLength
  /\ file' = Written(Position(t), IF body[t].page THEN Page ELSE body[t].next)
  /\ at' = [at EXCEPT ![t] = Position(t) + 1]
  /\ body' = [body EXCEPT ![t].next = @ + 1]
  /\ UNCHANGED <<memory, pc, op, req, err, sent, noUrl, part, size, len, history>>

\* CURLE_OK: all that was announced has come; without a length, whatever has come.
\* A page is as good as the file.
AllCame(t) == len[t] = Unknown \/ body[t].next > body[t].last
Complete(t) ==
  /\ pc[t] = "transfer" /\ AllCame(t)
  /\ IF at[t] > 0 THEN answer' = <<SizeText>> /\ SetErr(t, "0") ELSE UNCHANGED <<answer, err>>
  /\ Finish(t)
  /\ UNCHANGED <<file, op, req, sent, noUrl, history>>

\* ftell.  (Mutant: the number of the last block.)
TellLast(t) == at[t] - 1
Tell(t) == at[t]

\* CURLE_PARTIAL_FILE: another round of the loop asks for the rest.
Partial(t) ==
  /\ pc[t] = "transfer" /\ (len[t] = Unknown \/ body[t].next <= body[t].last)
  /\ size' = [size EXCEPT ![t] = Tell(t)]
  /\ part' = [part EXCEPT ![t] = TRUE] /\ Goto(t, "open")
  /\ UNCHANGED <<memory, file, op, req, err, sent, noUrl, at, len, body, history>>

\* Any other code, or no handle from curl_easy_init.  (Mutant: tried again.)
FailedRetries(t) == Goto(t, "open") /\ UNCHANGED <<mutexCurl, loop>>
AfterFailed(t) == Finish(t)
Failed(t) ==
  /\ pc[t] = "transfer" /\ AfterFailed(t)
  /\ UNCHANGED <<answer, file, op, req, err, sent, noUrl, history>>

\* The call returns `err'; downloadImage has true for 0, which it is not without a URL.
Return(t) ==
  /\ pc[t] = "return" /\ Leave(t)
  /\ UNCHANGED <<memory, file, op, req, loop>>

-----------------------------------------------------------------------------
\* The application dies and starts again; the file stays.
Restart ==
  /\ mutexCurl' = Nobody /\ answer' = <<>>
  /\ pc' = [t \in Threads |-> "idle"] /\ op' = [t \in Threads |-> "none"]
  /\ req' = [t \in Threads |-> "post"] /\ err' = [t \in Threads |-> "0xFF"]
  /\ sent' = [t \in Threads |-> <<>>] /\ noUrl' = [t \in Threads |-> FALSE]
  /\ part' = [t \in Threads |-> FALSE]
  /\ at' = [t \in Threads |-> 0] /\ size' = [t \in Threads |-> 0]
  /\ len' = [t \in Threads |-> 0] /\ body' = [t \in Threads |-> Nothing]
  /\ during' = [t \in Threads |-> {}] /\ odd' = [t \in Threads |-> FALSE]
  /\ UNCHANGED file

Download(t) == \/ OpenFails(t) \/ Open(t) \/ Receive(t) \/ Complete(t) \/ Partial(t)
               \/ Failed(t)
Step(t) == \/ SendData(t) \/ Assign(t) \/ GetPiece(t) \/ GetEnd(t) \/ Read(t) \/ ReadImage(t)
           \/ Download(t) \/ Return(t)

Next == \/ Restart
        \/ \E t \in Threads : Lock(t) \/ Step(t) \/ \E o \in Ops : Call(t, o)

Spec == Init /\ [][Next]_vars

\* The steps that do not wait for the network.
OwnStep(t) == \/ Assign(t) \/ Read(t) \/ ReadImage(t) \/ OpenFails(t) \/ Open(t) \/ Return(t)

\* The code's own steps go on.  Nothing is assumed of a transfer, which has a time-out for
\* connecting only and may last for ever or be cut every time, or of a thread that waits.
FairSpec == Spec /\ \A t \in Threads : WF_vars(OwnStep(t))

-----------------------------------------------------------------------------
(* Properties                                                               *)

\* A download that reports success has left exactly the server's file, after any number
\* of interrupted parts, restarts and leftovers, unless a server's page was taken for the
\* file, a server sent everything to a request for the rest, a reply had no length, or
\* two downloads were under way at once, which nothing prevents.
LoadedIsWhole ==
  \A t \in Threads : pc[t] = "return" /\ err[t] = "0" =>
    (~odd[t] => Len(file) = Size /\ \A i \in 1..Size : file[i] = i)

\* The answer that a caller reads is the one its server has sent, if no other thread had a
\* call meanwhile; and it is never taken for an answer if it is that of a call that was
\* over before, or a blend of two.  (Two answers to overlapping calls of one kind may change
\* places: the member is written and read without the mutex.)
AnswerIsOfThisTime ==
  \A t \in Threads : pc[t] = "read" =>
    /\ during[t] = {} => answer = sent[t]
    /\ Accepted(t) => \E u \in during[t] \cup {t} : answer = Reply(u)

\* Under mutexCurl: a request in the network, for as long as it takes.
InTransfer(t) == pc[t] \in {"post", "get", "transfer"}

\* A thread keeps mutexCurl for ever only if one transfer of its request never ends, or if
\* the transfers of its download are cut again and again: nothing in the code bounds either,
\* and every other request then waits.  No return, failure or retry keeps it otherwise.
MutexCurlKeptByNetwork ==
  \A t \in Threads :
    <>[](mutexCurl = t) => <>[]InTransfer(t) \/ []<><<Partial(t)>>_vars

=============================================================================
