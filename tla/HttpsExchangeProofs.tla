------------------------ MODULE HttpsExchangeProofs ------------------------
(***************************************************************************)
(* What HttpsExchange guarantees for any number of threads, any assignment *)
(* of calls to them and any length of the file: type correctness, that a   *)
(* download which reports success has the server's file, and that an       *)
(* answer is one of the calls of its time.                                 *)
(***************************************************************************)
EXTENDS HttpsExchange, TLAPS

\* What is left of a reply lies within the file; only the rest of it is asked for
\* after a part.
ReplyInv ==
  \A t \in Threads : /\ body[t].next \in 1..(body[t].last + 1) /\ body[t].last <= Size
                     /\ ~part[t] => size[t] = 0

\* A code is set by the last step of a request only, and a part is asked for by a
\* download only.
CodeInv ==
  \A t \in Threads :
    /\ pc[t] \in {"idle", "lock", "post", "get", "open", "transfer"} => err[t] = "0xFF"
    /\ part[t] => pc[t] \in Loading

\* The file is the first n blocks of the server's.
Numbered(n) == Len(file) = n /\ \A i \in 1..n : file[i] = i

\* A download that has a part of the file, or all of it.
Filling(t) == \/ pc[t] = "transfer"
              \/ pc[t] = "open" /\ part[t]
              \/ pc[t] = "return" /\ err[t] = "0"

\* Nobody else writes to the file of a download that has met nothing strange.
AloneInv == \A t, u \in Threads : ~odd[t] /\ Filling(t) /\ t # u => pc[u] # "transfer"

\* Its file has what it has received, and what is still to come is the rest; the sum of
\* the last length and of the position reaches the end of the file.
TransferInv(t) ==
  /\ Numbered(at[t]) /\ ~body[t].page /\ len[t] # Unknown /\ body[t].next = at[t] + 1
  /\ \/ body[t].last = Size /\ len[t] + size[t] = Size /\ size[t] <= at[t]
     \/ body[t].last = 0 /\ at[t] = 0
FileInv ==
  \A t \in Threads : ~odd[t] =>
    /\ pc[t] = "transfer" => TransferInv(t)
    /\ pc[t] = "open" /\ part[t] =>
         Numbered(size[t]) /\ len[t] # Unknown /\ len[t] + size[t] >= Size /\ size[t] < Size
    /\ pc[t] = "return" /\ err[t] = "0" => Numbered(Size)

LoadInv == ReplyInv /\ CodeInv /\ AloneInv /\ FileInv

\* Two threads with a call have met; downloadInThread reads no answer.
MeetInv ==
  /\ \A t, u \in Threads : t # u /\ pc[t] # "idle" /\ pc[u] # "idle" => u \in during[t]
  /\ \A t \in Threads :
       pc[t] \in {"lock", "post", "assign", "get", "read"} => op[t] # "load"

\* What the server has sent of an answer is the thread's own, and nothing before it is
\* asked.
SentInv ==
  \A t \in Threads :
    /\ pc[t] \in {"idle", "post"} \/ (pc[t] = "lock" /\ req[t] # "download") => sent[t] = <<>>
    /\ \A j \in 1..Len(sent[t]) : sent[t][j].of = t

\* The pieces in the member are of calls of the reader's time, and all its own if there
\* was no other call.
PieceInv ==
  \A t \in Threads :
    /\ pc[t] # "idle" /\ op[t] # "load" =>
         \A j \in 1..Len(answer) : answer[j].of \in {t, Nobody} \cup during[t]
    /\ pc[t] \in {"get", "read"} /\ during[t] = {} => answer = sent[t]

AnswerInv == MeetInv /\ SentInv /\ PieceInv

-----------------------------------------------------------------------------
(* Types                                                                    *)

LEMMA PieceTypes ==
  /\ Old \in Pieces /\ SizeText \in Pieces /\ <<>> \in Seq(Pieces)
  /\ <<SizeText>> \in Seq(Pieces)
  /\ Nothing \in [page : BOOLEAN, next : Nat, last : Nat]
BY DEF Old, SizeText, Pieces, Nothing

LEMMA ReplyType ==
  ASSUME NEW t \in Threads
  PROVE  /\ Reply(t) \in Seq(Pieces) /\ Len(Reply(t)) = 2
         /\ \A n \in 1..2 : Reply(t)[n] \in Pieces /\ Reply(t)[n].of = t
BY DEF Reply, Pieces

LEMMA SentType ==
  ASSUME NEW t \in Threads, NEW s \in Sent(t)
  PROVE  s \in Seq(Pieces) /\ \A j \in 1..Len(s) : s[j].of = t
<1>1. PICK n \in 0..2 : s = SubSeq(Reply(t), 1, n)
  BY DEF Sent
<1>2. CASE n = 0
  BY <1>1, <1>2, ReplyType
<1>3. CASE n # 0
  <2>1. Len(s) = n /\ \A j \in 1..n : s[j] = Reply(t)[j]
    BY <1>1, <1>3, ReplyType
  <2>2. s \in Seq(Pieces)
    BY <1>1, <1>3, ReplyType
  <2>3. QED
    BY <2>1, <2>2, ReplyType
<1>4. QED
  BY <1>2, <1>3

\* What begins a transfer: a reply within the file, of a length that can be told.
LEMMA RangeType ==
  ASSUME TypeOK, ReplyInv, NEW t \in Threads, NEW b \in Ranges(t)
  PROVE  /\ b \in [page : BOOLEAN, next : Nat, last : Nat]
         /\ b.next \in 1..(b.last + 1) /\ b.last <= Size
         /\ b.last + 1 - b.next \in Nat
<1> USE ExchangeAssumption
<1>1. CASE b = Nothing
  BY <1>1 DEF Nothing
<1>2. CASE b = [page |-> FALSE, next |-> 1, last |-> Size]
  BY <1>2
<1>3. CASE b = [page |-> TRUE, next |-> 1, last |-> 1]
  BY <1>3
<1> DEFINE from == IF part[t] THEN size[t] + 1 ELSE 1
           to == IF part[t] THEN RangeEnd(t) ELSE Size
<1>4. CASE len[t] # Unknown /\ from <= to /\ b = [page |-> FALSE, next |-> from, last |-> to]
  <2>1. from \in Nat /\ from >= 1 /\ to \in Nat /\ to <= Size
    BY <1>4 DEF RangeEnd, Lesser, TypeOK, Unknown
  <2>2. QED
    BY <1>4, <2>1
<1>5. QED
  BY <1>1, <1>2, <1>3, <1>4 DEF Ranges

LEMMA NextBlock ==
  ASSUME NEW r \in [page : BOOLEAN, next : Nat, last : Nat]
  PROVE  [r EXCEPT !.next = @ + 1] \in [page : BOOLEAN, next : Nat, last : Nat]
<1>1. r.next + 1 \in Nat
  OBVIOUS
<1>2. [r EXCEPT !.next = @ + 1] = [page |-> r.page, next |-> r.next + 1, last |-> r.last]
  OBVIOUS
<1>3. QED
  BY <1>1, <1>2

LEMMA WrittenType ==
  ASSUME NEW k \in Nat, NEW b \in Blocks, file \in Seq(Blocks)
  PROVE  Written(k, b) \in Seq(Blocks)
<1> USE ExchangeAssumption
<1>1. DEFINE n == IF k < Len(file) THEN Len(file) ELSE k + 1
<1>2. n \in Nat
  OBVIOUS
<1>3. Gap \in Blocks
  BY DEF Gap, Blocks
<1>4. Written(k, b) \in [1..n -> Blocks]
  BY <1>3 DEF Written
<1>5. QED
  BY <1>2, <1>4

LEMMA TypeInit == Init => TypeOK /\ ReplyInv
<1> SUFFICES ASSUME Init
             PROVE  TypeOK /\ ReplyInv
  OBVIOUS
<1> USE ExchangeAssumption
<1>1. Page \in Blocks
  BY DEF Blocks, Page, Gap
<1>2. <<>> \in Seq(Blocks) /\ <<Page>> \in Seq(Blocks)
  BY <1>1
<1>3. file \in Seq(Blocks)
  BY <1>2 DEF Init
<1>4. QED
  BY <1>3, PieceTypes
     DEF Init, TypeOK, ReplyInv, Places, Codes, Requests, Nothing

LEMMA AgedType ==
  ASSUME NEW t \in Threads, NEW s \in Seq(Pieces)
  PROVE  Aged(t, s) \in Seq(Pieces) /\ Len(Aged(t, s)) = Len(s)
<1>1. \A i \in 1..Len(s) : (IF s[i].of = t THEN Old ELSE s[i]) \in Pieces
  BY PieceTypes
<1>2. DOMAIN s = 1..Len(s) /\ Len(s) \in Nat
  OBVIOUS
<1>3. Aged(t, s) \in [1..Len(s) -> Pieces]
  BY <1>1, <1>2 DEF Aged
<1>4. QED
  BY <1>2, <1>3

\* One lemma for the calls and their requests, one for the downloads.
\* The locals after a call's return, and after a request's.
LEMMA LocalTypes ==
  ASSUME TypeOK, NEW t \in Threads
  PROVE  /\ Leave(t) => /\ pc' \in [Threads -> Places] /\ err' \in [Threads -> Codes]
                        /\ sent' \in [Threads -> Seq(Pieces)] /\ noUrl' \in [Threads -> BOOLEAN]
                        /\ during' \in [Threads -> SUBSET Threads]
                        /\ odd' \in [Threads -> BOOLEAN]
         /\ \A e \in Codes : Back(t, e) =>
              /\ pc' \in [Threads -> Places] /\ err' \in [Threads -> Codes]
              /\ sent' \in [Threads -> Seq(Pieces)] /\ noUrl' \in [Threads -> BOOLEAN]
              /\ during' \in [Threads -> SUBSET Threads] /\ odd' \in [Threads -> BOOLEAN]
<1>1. Leave(t) => /\ pc' \in [Threads -> Places] /\ err' \in [Threads -> Codes]
                  /\ sent' \in [Threads -> Seq(Pieces)] /\ noUrl' \in [Threads -> BOOLEAN]
                  /\ during' \in [Threads -> SUBSET Threads] /\ odd' \in [Threads -> BOOLEAN]
  BY PieceTypes DEF Leave, Goto, SetErr, TypeOK, Places, Codes
<1>2. ASSUME NEW e \in Codes, Goto(t, "read"), SetErr(t, e), UNCHANGED <<sent, noUrl, history>>
      PROVE  /\ pc' \in [Threads -> Places] /\ err' \in [Threads -> Codes]
             /\ sent' \in [Threads -> Seq(Pieces)] /\ noUrl' \in [Threads -> BOOLEAN]
             /\ during' \in [Threads -> SUBSET Threads] /\ odd' \in [Threads -> BOOLEAN]
  BY <1>2 DEF Goto, SetErr, TypeOK, Places, history
<1>3. QED
  BY <1>1, <1>2 DEF Back

LEMMA TypeOfRequest ==
  ASSUME TypeOK, ReplyInv, NEW t \in Threads,
         \/ Lock(t) \/ SendData(t) \/ Assign(t) \/ GetPiece(t) \/ GetEnd(t) \/ Read(t)
         \/ ReadImage(t) \/ \E o \in Ops : Call(t, o)
  PROVE  TypeOK' /\ ReplyInv'
<1> USE ExchangeAssumption, PieceTypes
    DEF TypeOK, ReplyInv, Goto, SetErr, Places, Codes, Requests, memory, loop, history
<1>1. ASSUME NEW o \in Ops, Call(t, o)
      PROVE  TypeOK' /\ ReplyInv'
  <2>1. answer' \in Seq(Pieces)
    BY <1>1, AgedType DEF Call, Cleared
  <2>2. during' \in [Threads -> SUBSET Threads]
    <3> DEFINE busy == {u \in Threads \ {t} : pc[u] # "idle"}
    <3>1. \A u \in Threads : (IF u = t THEN busy ELSE IF u \in busy THEN during[u] \cup {t}
                              ELSE during[u]) \in SUBSET Threads
      OBVIOUS
    <3>2. QED
      BY <1>1, <3>1 DEF Call, Meet
  <2>3. FirstRequest(o) \in Requests
    BY DEF FirstRequest
  <2>4. QED
    BY <1>1, <2>1, <2>2, <2>3 DEF Call
<1>2. CASE Lock(t)
  BY <1>2 DEF Lock, Cleared
<1>3. CASE SendData(t)
  <2>1. PICK s \in Sent(t), e \in {"0", "0xFF"} :
          sent' = [sent EXCEPT ![t] = s] /\ SetErr(t, e)
    BY <1>3 DEF SendData
  <2>2. sent' \in [Threads -> Seq(Pieces)] /\ err' \in [Threads -> Codes]
    BY <2>1, SentType
  <2>3. pc' \in [Threads -> Places] /\ mutexCurl' \in Threads \cup {Nobody}
    BY <1>3 DEF SendData
  <2>4. UNCHANGED <<answer, file, op, req, noUrl, loop, history>>
    BY <1>3 DEF SendData
  <2>5. QED
    BY <2>2, <2>3, <2>4
<1>4. CASE Assign(t)
  <2>1. Back(t, err[t]) /\ answer' = sent[t] /\ UNCHANGED <<mutexCurl, file, op, req, loop>>
    BY <1>4 DEF Assign
  <2>2. /\ pc' \in [Threads -> Places] /\ err' \in [Threads -> Codes]
        /\ sent' \in [Threads -> Seq(Pieces)] /\ noUrl' \in [Threads -> BOOLEAN]
        /\ during' \in [Threads -> SUBSET Threads] /\ odd' \in [Threads -> BOOLEAN]
    <3>1. err[t] \in Codes
      OBVIOUS
    <3>2. QED
      BY <2>1, <3>1, LocalTypes
  <2>3. QED
    BY <2>1, <2>2
<1>5. CASE GetPiece(t)
  <2>1. Reply(t)[Len(sent[t]) + 1] \in Pieces
    BY <1>5, ReplyType DEF GetPiece
  <2>2. QED
    <3>1. answer' \in Seq(Pieces) /\ sent' \in [Threads -> Seq(Pieces)]
      BY <1>5, <2>1 DEF GetPiece
    <3>2. UNCHANGED <<mutexCurl, file, pc, op, req, err, noUrl, loop, history>>
      BY <1>5 DEF GetPiece
    <3>3. QED
      BY <3>1, <3>2
<1>6. CASE GetEnd(t)
  <2>1. PICK e \in Codes : Back(t, e)
    BY <1>6 DEF GetEnd
  <2>2. mutexCurl' = Nobody /\ UNCHANGED <<answer, file, op, req, loop>>
    BY <1>6 DEF GetEnd
  <2>3. /\ pc' \in [Threads -> Places] /\ err' \in [Threads -> Codes]
        /\ sent' \in [Threads -> Seq(Pieces)] /\ noUrl' \in [Threads -> BOOLEAN]
        /\ during' \in [Threads -> SUBSET Threads] /\ odd' \in [Threads -> BOOLEAN]
    BY <2>1, LocalTypes
  <2>4. QED
    BY <2>2, <2>3
<1>7. CASE Read(t)
  <2>1. Leave(t) /\ UNCHANGED <<memory, file, op, req, loop>>
    BY <1>7 DEF Read
  <2>2. QED
    BY <2>1, LocalTypes
<1>8. CASE ReadImage(t)
  <2>1. CASE Leave(t) /\ UNCHANGED <<answer, req>>
    BY <1>8, <2>1, LocalTypes DEF ReadImage
  <2>2. CASE ~(Leave(t) /\ UNCHANGED <<answer, req>>)
    <3>1. /\ noUrl' = [noUrl EXCEPT ![t] = ~Accepted(t)] /\ answer' = <<>>
          /\ err' = [err EXCEPT ![t] = "0xFF"] /\ req' = [req EXCEPT ![t] = "download"]
          /\ pc' = [pc EXCEPT ![t] = "lock"] /\ UNCHANGED <<sent, history>>
      BY <1>8, <2>2 DEF ReadImage, Cleared
    <3>2. UNCHANGED <<mutexCurl, file, op, loop>>
      BY <1>8 DEF ReadImage
    <3>3. Accepted(t) \in BOOLEAN
      BY DEF Accepted
    <3>4. QED
      BY <3>1, <3>2, <3>3
  <2>3. QED
    BY <2>1, <2>2
<1>9. QED
  BY <1>1, <1>2, <1>3, <1>4, <1>5, <1>6, <1>7, <1>8

LEMMA TypeOfDownload ==
  ASSUME TypeOK, ReplyInv, NEW t \in Threads, Download(t) \/ Return(t)
  PROVE  TypeOK' /\ ReplyInv'
<1> USE ExchangeAssumption, PieceTypes
    DEF TypeOK, ReplyInv, Goto, SetErr, Places, Codes, memory, loop, history
<1>1. CASE OpenFails(t) \/ Complete(t) \/ Failed(t)
  <2>1. Finish(t) => /\ NewLoop(t) /\ mutexCurl' \in Threads \cup {Nobody}
                     /\ pc' = [pc EXCEPT ![t] = "return"]
    BY DEF Finish
  <2>2. Finish(t)
    BY <1>1 DEF OpenFails, Complete, Failed, AfterFailed
  <2>3. /\ answer' \in Seq(Pieces) /\ err' \in [Threads -> Codes] /\ UNCHANGED history
        /\ UNCHANGED <<file, op, req, sent, noUrl>>
    BY <1>1 DEF OpenFails, Complete, Failed
  <2>4. /\ part' \in [Threads -> BOOLEAN] /\ at' \in [Threads -> Nat]
        /\ size' \in [Threads -> Nat] /\ len' \in [Threads -> Nat \cup {Unknown}]
        /\ body' \in [Threads -> [page : BOOLEAN, next : Nat, last : Nat]]
    <3>1. NewLoop(t)
      BY <2>1, <2>2
    <3>2. /\ part' = [part EXCEPT ![t] = FALSE] /\ at' = [at EXCEPT ![t] = 0]
          /\ size' = [size EXCEPT ![t] = 0] /\ len' = [len EXCEPT ![t] = 0]
          /\ body' = [body EXCEPT ![t] = Nothing]
      BY <3>1 DEF NewLoop
    <3>3. 0 \in Nat /\ 0 \in Nat \cup {Unknown}
      OBVIOUS
    <3>4. QED
      BY <3>2, <3>3
  <2>5. ReplyInv'
    <3>1. /\ size' = [size EXCEPT ![t] = 0] /\ part' = [part EXCEPT ![t] = FALSE]
          /\ body' = [body EXCEPT ![t] = Nothing]
      BY <2>1, <2>2 DEF NewLoop
    <3>2. Nothing.next = 1 /\ Nothing.last = 0
      BY DEF Nothing
    <3>3. QED
      BY <3>1, <3>2
  <2>6. TypeOK'
    BY <2>1, <2>2, <2>3, <2>4
  <2>7. QED
    BY <2>5, <2>6
<1>2. CASE Open(t)
  <2>1. PICK b \in Ranges(t), announced \in BOOLEAN :
          /\ body' = [body EXCEPT ![t] = b]
          /\ len' = [len EXCEPT ![t] = IF announced THEN b.last + 1 - b.next ELSE Unknown]
    BY <1>2 DEF Open
  <2>2. odd' \in [Threads -> BOOLEAN]
    BY <1>2 DEF Open, Strange
  <2>3. Opened(t) \in Seq(Blocks) /\ Len(Opened(t)) \in Nat
    BY DEF Opened
  <2>4. UNCHANGED <<mutexCurl, op, req, err, sent, noUrl, part, size, during>>
    BY <1>2 DEF Open
  <2>5. answer' \in Seq(Pieces) /\ file' \in Seq(Blocks) /\ at' \in [Threads -> Nat]
    BY <1>2, <2>3 DEF Open, Cleared
  <2>6. pc' \in [Threads -> Places]
    BY <1>2 DEF Open
  <2>7. /\ b \in [page : BOOLEAN, next : Nat, last : Nat]
        /\ b.next \in 1..(b.last + 1) /\ b.last <= Size /\ b.last + 1 - b.next \in Nat
    BY RangeType
  <2>8. body' \in [Threads -> [page : BOOLEAN, next : Nat, last : Nat]]
    BY <2>1, <2>7
  <2>9. len' \in [Threads -> Nat \cup {Unknown}]
    BY <2>1, <2>7
  <2>10. ReplyInv'
    BY <2>1, <2>4, <2>7
  <2>11. TypeOK'
    BY <2>2, <2>4, <2>5, <2>6, <2>8, <2>9
  <2>12. QED
    BY <2>10, <2>11
<1>3. CASE Receive(t)
  <2>1. (IF body[t].page THEN Page ELSE body[t].next) \in Blocks
    <3>1. body[t].next \in 1..Size
      BY <1>3 DEF Receive
    <3>2. Page \in Blocks /\ 1..Size \subseteq Blocks
      BY DEF Page, Blocks, Gap
    <3>3. QED
      BY <3>1, <3>2
  <2>2. Position(t) \in Nat
    BY DEF Position
  <2>3. file' \in Seq(Blocks)
    BY <1>3, <2>1, <2>2, WrittenType DEF Receive
  <2>4. /\ at' \in [Threads -> Nat] /\ body' = [body EXCEPT ![t].next = @ + 1]
        /\ UNCHANGED <<memory, pc, op, req, err, sent, noUrl, part, size, len, history>>
    <3>1. at' = [at EXCEPT ![t] = Position(t) + 1]
      BY <1>3 DEF Receive
    <3>2. at' \in [Threads -> Nat]
      BY <2>2, <3>1
    <3>3. QED
      BY <1>3, <3>2 DEF Receive
  <2>5. body' \in [Threads -> [page : BOOLEAN, next : Nat, last : Nat]]
    <3>1. [body[t] EXCEPT !.next = @ + 1] \in [page : BOOLEAN, next : Nat, last : Nat]
      BY NextBlock
    <3>2. body' = [body EXCEPT ![t] = [body[t] EXCEPT !.next = @ + 1]]
      BY <2>4
    <3>3. QED
      BY <3>1, <3>2
  <2>6. ReplyInv'
    <3>1. body[t].next <= body[t].last /\ UNCHANGED <<part, size>>
      BY <1>3 DEF Receive
    <3>2. /\ body'[t].next = body[t].next + 1 /\ body'[t].last = body[t].last
          /\ \A u \in Threads \ {t} : body'[u] = body[u]
      BY <2>4
    <3>3. body'[t].next \in 1..(body'[t].last + 1) /\ body'[t].last <= Size
      <4>1. /\ body[t].next \in Nat /\ body[t].last \in Nat
            /\ body[t].next \in 1..(body[t].last + 1) /\ body[t].last <= Size
        OBVIOUS
      <4>2. QED
        BY <3>1, <3>2, <4>1
    <3>4. \A u \in Threads : body'[u].next \in 1..(body'[u].last + 1) /\ body'[u].last <= Size
      BY <3>2, <3>3
    <3>5. QED
      BY <3>1, <3>4
  <2>7. TypeOK'
    BY <2>3, <2>4, <2>5
  <2>8. QED
    BY <2>6, <2>7
<1>4. CASE Partial(t)
  BY <1>4 DEF Partial, Tell
<1>5. CASE Return(t)
  <2>1. Leave(t) /\ UNCHANGED <<memory, file, op, req, loop>>
    BY <1>5 DEF Return
  <2>2. QED
    BY <2>1, LocalTypes
<1>6. QED
  BY <1>1, <1>2, <1>3, <1>4, <1>5 DEF Download

LEMMA TypeStep == TypeOK /\ ReplyInv /\ [Next]_vars => (TypeOK /\ ReplyInv)'
<1> SUFFICES ASSUME TypeOK, ReplyInv, [Next]_vars
             PROVE  (TypeOK /\ ReplyInv)'
  OBVIOUS
<1>1. CASE Restart
  BY <1>1, PieceTypes, ExchangeAssumption
     DEF Restart, TypeOK, ReplyInv, Places, Codes, Requests, Nothing
<1>2. ASSUME NEW t \in Threads, Lock(t) \/ Step(t) \/ \E o \in Ops : Call(t, o)
      PROVE  (TypeOK /\ ReplyInv)'
  BY <1>2, TypeOfRequest, TypeOfDownload DEF Step
<1>3. CASE UNCHANGED vars
  BY <1>3 DEF vars, TypeOK, ReplyInv
<1>4. QED
  BY <1>1, <1>2, <1>3 DEF Next

-----------------------------------------------------------------------------
(* The file                                                                 *)

\* A step of another thread leaves what u's download knows.
Kept(u) == /\ pc'[u] = pc[u] /\ err'[u] = err[u] /\ odd'[u] = odd[u] /\ part'[u] = part[u]
           /\ at'[u] = at[u] /\ size'[u] = size[u] /\ len'[u] = len[u] /\ body'[u] = body[u]

LEMMA ReturnKeeps ==
  ASSUME TypeOK, NEW t \in Threads, Leave(t) \/ \E e \in Codes : Back(t, e)
  PROVE  /\ pc'[t] \in {"idle", "read"} /\ (pc'[t] = "idle" => err'[t] = "0xFF")
         /\ \A u \in Threads \ {t} : pc'[u] = pc[u] /\ err'[u] = err[u] /\ odd'[u] = odd[u]
<1> USE DEF TypeOK, Goto, SetErr, history
<1>1. CASE Leave(t)
  BY <1>1 DEF Leave
<1>2. CASE \E e \in Codes : Goto(t, "read") /\ SetErr(t, e) /\ UNCHANGED <<sent, noUrl, history>>
  BY <1>2
<1>3. QED
  BY <1>1, <1>2 DEF Back

\* What a request or the end of a call does to the download loops: nothing.
LEMMA RequestKeeps ==
  ASSUME TypeOK, CodeInv, NEW t \in Threads,
         \/ Lock(t) \/ SendData(t) \/ Assign(t) \/ GetPiece(t) \/ GetEnd(t) \/ Read(t)
         \/ ReadImage(t) \/ Return(t) \/ \E o \in Ops : Call(t, o)
  PROVE  /\ UNCHANGED <<file, loop>> /\ ~part[t]
         /\ \A u \in Threads \ {t} : Kept(u)
         /\ pc'[t] \notin {"transfer", "return"}
         /\ pc'[t] \in {"idle", "lock", "post", "get", "open"} => err'[t] = "0xFF"
<1> USE DEF TypeOK, CodeInv, Loading, Goto, SetErr, memory, loop, history, Kept
<1>1. ASSUME NEW o \in Ops, Call(t, o)
      PROVE  /\ UNCHANGED <<file, loop>> /\ ~part[t]
             /\ \A u \in Threads \ {t} : Kept(u)
             /\ pc'[t] \notin {"transfer", "return"}
             /\ pc'[t] \in {"idle", "lock", "post", "get", "open"} => err'[t] = "0xFF"
  BY <1>1 DEF Call
<1>2. CASE Lock(t)
  BY <1>2 DEF Lock, Requests
<1>3. CASE SendData(t)
  <2>1. PICK e \in {"0", "0xFF"} : SetErr(t, e)
    BY <1>3 DEF SendData
  <2>2. QED
    BY <1>3, <2>1 DEF SendData
<1>4. CASE Assign(t)
  <2>1. err[t] \in Codes
    OBVIOUS
  <2>2. pc[t] = "assign" /\ Back(t, err[t]) /\ UNCHANGED <<mutexCurl, file, op, req, loop>>
    BY <1>4 DEF Assign
  <2>3. QED
    BY <2>1, <2>2, ReturnKeeps
<1>5. CASE GetPiece(t)
  BY <1>5 DEF GetPiece
<1>6. CASE GetEnd(t)
  <2>1. \E e \in Codes : Back(t, e)
    BY <1>6 DEF GetEnd, Codes
  <2>2. pc[t] = "get" /\ UNCHANGED <<answer, file, op, req, loop>>
    BY <1>6 DEF GetEnd
  <2>3. QED
    BY <2>1, <2>2, ReturnKeeps
<1>7. CASE Read(t)
  <2>1. pc[t] = "read" /\ Leave(t) /\ UNCHANGED <<memory, file, op, req, loop>>
    BY <1>7 DEF Read
  <2>2. QED
    BY <2>1, ReturnKeeps
<1>8. CASE ReadImage(t)
  <2>1. pc[t] = "read" /\ UNCHANGED <<mutexCurl, file, op, loop>>
    BY <1>8 DEF ReadImage
  <2>2. CASE Leave(t)
    BY <2>1, <2>2, ReturnKeeps
  <2>3. CASE ~Leave(t)
    <3>1. Goto(t, "lock") /\ SetErr(t, "0xFF") /\ UNCHANGED <<sent, history>>
      BY <1>8, <2>3 DEF ReadImage
    <3>2. QED
      BY <2>1, <3>1
  <2>4. QED
    BY <2>2, <2>3
<1>9. CASE Return(t)
  <2>1. pc[t] = "return" /\ Leave(t) /\ UNCHANGED <<memory, file, op, req, loop>>
    BY <1>9 DEF Return
  <2>2. QED
    BY <2>1, ReturnKeeps
<1>10. QED
  BY <1>1, <1>2, <1>3, <1>4, <1>5, <1>6, <1>7, <1>8, <1>9

\* The end of a download, good or bad.
LEMMA FinishKeeps ==
  ASSUME TypeOK, CodeInv, NEW t \in Threads, Finish(t), UNCHANGED <<file, odd>>,
         err' = err \/ SetErr(t, "0") \/ SetErr(t, "1")
  PROVE  /\ \A u \in Threads \ {t} : Kept(u)
         /\ pc'[t] = "return" /\ ~part'[t]
BY DEF TypeOK, CodeInv, Finish, NewLoop, Goto, SetErr, Kept

\* A step after which t has no part of the file, and which leaves the file.
LEMMA OthersFilling ==
  ASSUME TypeOK, AloneInv, FileInv, NEW t \in Threads, UNCHANGED file,
         \A u \in Threads \ {t} : Kept(u),
         pc'[t] # "transfer", ~Filling(t)'
  PROVE  AloneInv' /\ FileInv'
<1>1. AloneInv'
  BY DEF AloneInv, Filling, Kept
<1>2. FileInv'
  <2> SUFFICES ASSUME NEW u \in Threads, ~odd'[u], u # t
               PROVE  /\ pc'[u] = "transfer" => TransferInv(u)'
                      /\ pc'[u] = "open" /\ part'[u] =>
                           /\ Numbered(size[u])' /\ len'[u] # Unknown
                           /\ len'[u] + size'[u] >= Size /\ size'[u] < Size
                      /\ pc'[u] = "return" /\ err'[u] = "0" => Numbered(Size)'
    BY DEF FileInv, Filling
  <2>1. QED
    BY DEF FileInv, Kept, TransferInv, Numbered
<1>3. QED
  BY <1>1, <1>2

\* The reply to a download that has met nothing strange is the rest of the file, or it
\* is empty and the first.
LEMMA OpenReply ==
  ASSUME TypeOK, ReplyInv, NEW t \in Threads, NEW b \in Ranges(t), NEW announced \in BOOLEAN,
         announced \/ b # Nothing, ~Strange(t, b, announced),
         part[t] => len[t] # Unknown /\ len[t] + size[t] >= Size /\ size[t] < Size
  PROVE  /\ announced /\ ~b.page /\ b.next = size[t] + 1
         /\ \/ b.last = Size /\ b.last + 1 - b.next + size[t] = Size
            \/ ~part[t] /\ b.last = 0
<1> USE ExchangeAssumption DEF TypeOK, ReplyInv
<1>1. announced /\ ~b.page /\ (part[t] => b # Nothing /\ b.next = size[t] + 1)
  BY DEF Strange
<1>2. CASE ~part[t]
  <2>1. size[t] = 0
    BY <1>2
  <2>2. b \in {Nothing, [page |-> FALSE, next |-> 1, last |-> Size]}
    BY <1>1, <1>2 DEF Ranges
  <2>3. QED
    BY <1>1, <1>2, <2>1, <2>2 DEF Nothing
<1>3. CASE part[t]
  <2>1. \/ b = [page |-> FALSE, next |-> 1, last |-> Size]
        \/ b = [page |-> FALSE, next |-> size[t] + 1, last |-> RangeEnd(t)]
    BY <1>1, <1>3 DEF Ranges
  <2>2. len[t] \in Nat /\ size[t] \in Nat /\ len[t] + size[t] >= Size
    BY <1>3
  <2>3. RangeEnd(t) = Size
    BY <2>2 DEF RangeEnd, Lesser
  <2>4. QED
    BY <1>1, <1>3, <2>1, <2>2, <2>3
<1>4. QED
  BY <1>2, <1>3

\* A block goes to the end of the file.
LEMMA WriteNext ==
  ASSUME file \in Seq(Blocks), NEW k \in Nat, Numbered(k), file' = Written(k, k + 1)
  PROVE  Numbered(k + 1)'
<1>1. Len(file) = k /\ \A i \in 1..k : file[i] = i
  BY DEF Numbered
<1>2. file' = [i \in 1..(k + 1) |-> IF i = k + 1 THEN k + 1 ELSE IF i <= Len(file) THEN file[i]
                                    ELSE Gap]
  BY <1>1 DEF Written
<1>3. Len(file') = k + 1
  BY <1>2
<1>4. \A i \in 1..(k + 1) : file'[i] = i
  BY <1>1, <1>2
<1>5. QED
  BY <1>3, <1>4 DEF Numbered

LEMMA LoadOpen ==
  ASSUME TypeOK, LoadInv, NEW t \in Threads, Open(t)
  PROVE  CodeInv' /\ AloneInv' /\ FileInv'
<1> USE ExchangeAssumption DEF LoadInv
<1>1. PICK b \in Ranges(t), announced \in BOOLEAN :
        /\ announced \/ b # Nothing
        /\ body' = [body EXCEPT ![t] = b]
        /\ len' = [len EXCEPT ![t] = IF announced THEN b.last + 1 - b.next ELSE Unknown]
        /\ odd' = [u \in Threads |->
                     \/ odd[u] \/ u \in {v \in Threads \ {t} : Downloading(v)}
                     \/ u = t /\ \/ {v \in Threads \ {t} : Downloading(v)} # {}
                                 \/ Strange(t, b, announced)]
  BY DEF Open
<1>2. /\ pc[t] = "open" /\ pc' = [pc EXCEPT ![t] = "transfer"]
      /\ file' = Opened(t) /\ at' = [at EXCEPT ![t] = Len(Opened(t))]
      /\ UNCHANGED <<err, part, size>>
  BY DEF Open, Goto
<1>3. CodeInv'
  BY <1>2 DEF CodeInv, TypeOK, Loading
<1>4. \A u \in Threads \ {t} : ~odd'[u] => ~Downloading(u) /\ pc'[u] = pc[u]
  BY <1>1, <1>2 DEF TypeOK
<1>5. \A u \in Threads \ {t} : ~odd'[u] => ~Filling(u)' /\ pc'[u] # "transfer"
  BY <1>2, <1>4 DEF Filling, Downloading, Loading, TypeOK
<1>6. ASSUME ~odd'[t]
      PROVE  /\ \A u \in Threads \ {t} : pc'[u] # "transfer"
             /\ TransferInv(t)'
  <2>1. ~odd[t] /\ ~Strange(t, b, announced) /\ \A u \in Threads \ {t} : ~Downloading(u)
    BY <1>1, <1>6 DEF TypeOK
  <2>2. \A u \in Threads \ {t} : pc'[u] # "transfer"
    BY <1>2, <2>1 DEF TypeOK, Downloading, Loading
  <2>3. part[t] => /\ Numbered(size[t]) /\ len[t] # Unknown
                   /\ len[t] + size[t] >= Size /\ size[t] < Size
    BY <1>2, <2>1 DEF FileInv
  <2>4. /\ announced /\ ~b.page /\ b.next = size[t] + 1
        /\ \/ b.last = Size /\ b.last + 1 - b.next + size[t] = Size
           \/ ~part[t] /\ b.last = 0
    BY <1>1, <2>1, <2>3, OpenReply
  <2>5. Len(Opened(t)) = size[t] /\ \A i \in 1..size[t] : Opened(t)[i] = i
    <3>1. CASE part[t]
      BY <2>3, <3>1 DEF Opened, Numbered
    <3>2. CASE ~part[t]
      BY <3>2 DEF Opened, ReplyInv, TypeOK
    <3>3. QED
      BY <3>1, <3>2
  <2>6. at'[t] = size[t] /\ size'[t] = size[t] /\ Numbered(size[t])'
    BY <1>2, <2>5 DEF TypeOK, Numbered
  <2>7. body'[t] = b /\ len'[t] = b.last + 1 - b.next
    BY <1>1, <2>4 DEF TypeOK
  <2>8. b.last + 1 - b.next \in Nat /\ size[t] \in Nat
    BY RangeType DEF TypeOK
  <2>9. Numbered(at[t])'
    BY <2>6 DEF Numbered
  <2>10. /\ ~body'[t].page /\ len'[t] # Unknown /\ body'[t].next = at'[t] + 1
         /\ \/ body'[t].last = Size /\ len'[t] + size'[t] = Size /\ size'[t] <= at'[t]
            \/ body'[t].last = 0 /\ at'[t] = 0
    BY <2>4, <2>6, <2>7, <2>8 DEF Unknown, ReplyInv
  <2>11. QED
    BY <2>2, <2>9, <2>10 DEF TransferInv
<1>7. AloneInv'
  BY <1>5, <1>6 DEF AloneInv
<1>8. FileInv'
  <2>1. pc'[t] = "transfer"
    BY <1>2 DEF TypeOK
  <2>2. \A u \in Threads \ {t} : ~odd'[u] =>
          /\ pc'[u] # "transfer" /\ ~(pc'[u] = "open" /\ part'[u])
          /\ ~(pc'[u] = "return" /\ err'[u] = "0")
    BY <1>5 DEF Filling
  <2>3. QED
    BY <1>6, <2>1, <2>2 DEF FileInv
<1>9. QED
  BY <1>3, <1>7, <1>8

LEMMA LoadReceive ==
  ASSUME TypeOK, LoadInv, NEW t \in Threads, Receive(t)
  PROVE  CodeInv' /\ AloneInv' /\ FileInv'
<1> USE DEF LoadInv
<1>1. /\ pc[t] = "transfer" /\ body[t].next <= body[t].last
      /\ file' = Written(Position(t), IF body[t].page THEN Page ELSE body[t].next)
      /\ at' = [at EXCEPT ![t] = Position(t) + 1]
      /\ body' = [body EXCEPT ![t].next = @ + 1]
      /\ UNCHANGED <<pc, err, part, size, len, odd>>
  BY DEF Receive, history
<1>2. CodeInv' /\ AloneInv'
  BY <1>1 DEF CodeInv, AloneInv, Filling
<1>3. \A u \in Threads \ {t} : ~odd[u] => ~Filling(u)
  BY <1>1 DEF AloneInv
<1>4. ASSUME ~odd[t]
      PROVE  TransferInv(t)'
  <2>1. TransferInv(t)
    BY <1>1, <1>4 DEF FileInv
  <2>2. /\ at[t] \in Nat /\ body[t].last \in Nat /\ size[t] \in Nat /\ file \in Seq(Blocks)
        /\ body[t].next = at[t] + 1 /\ ~body[t].page /\ Numbered(at[t])
    BY <2>1 DEF TypeOK, TransferInv
  <2>3. Position(t) = at[t]
    BY <2>2 DEF Position, Numbered
  <2>4. Len(file') = at[t] + 1 /\ \A i \in 1..(at[t] + 1) : file'[i] = i
    <3>1. PICK k \in Nat : k = at[t]
      BY <2>2
    <3>2. file' = Written(k, k + 1) /\ Numbered(k)
      BY <1>1, <2>2, <2>3, <3>1
    <3>3. Numbered(k + 1)'
      BY <2>2, <3>2, WriteNext
    <3>4. QED
      BY <3>1, <3>3 DEF Numbered
  <2>5. /\ at'[t] = at[t] + 1 /\ body'[t].next = body[t].next + 1
        /\ body'[t].last = body[t].last /\ body'[t].page = body[t].page
    BY <1>1, <2>3 DEF TypeOK
  <2>6. Numbered(at[t])'
    BY <2>4, <2>5, <2>2 DEF Numbered
  <2>7. body[t].last = Size /\ len[t] + size[t] = Size /\ size[t] <= at[t]
    BY <1>1, <2>1, <2>2 DEF TransferInv
  <2>8. QED
    BY <1>1, <2>1, <2>2, <2>5, <2>6, <2>7 DEF TransferInv
<1>5. FileInv'
  BY <1>1, <1>3, <1>4 DEF FileInv, Filling
<1>6. QED
  BY <1>2, <1>5

LEMMA LoadPartial ==
  ASSUME TypeOK, LoadInv, NEW t \in Threads, Partial(t)
  PROVE  CodeInv' /\ AloneInv' /\ FileInv'
<1> USE DEF LoadInv
<1>1. /\ pc[t] = "transfer" /\ (len[t] = Unknown \/ body[t].next <= body[t].last)
      /\ size' = [size EXCEPT ![t] = at[t]] /\ part' = [part EXCEPT ![t] = TRUE]
      /\ pc' = [pc EXCEPT ![t] = "open"]
      /\ UNCHANGED <<file, err, at, len, body, odd>>
  BY DEF Partial, Tell, Goto, memory, history
<1>2. CodeInv'
  BY <1>1 DEF CodeInv, TypeOK, Loading
<1>3. \A u \in Threads \ {t} : ~odd[u] => ~Filling(u) /\ ~Filling(u)'
  BY <1>1 DEF AloneInv, Filling, TypeOK
<1>4. AloneInv'
  <2>1. ~odd[t] => \A u \in Threads \ {t} : pc'[u] # "transfer"
    BY <1>1 DEF AloneInv, Filling, TypeOK
  <2>2. QED
    BY <1>1, <1>3, <2>1 DEF AloneInv
<1>5. ASSUME ~odd[t]
      PROVE  Numbered(at[t]) /\ len[t] # Unknown /\ len[t] + at[t] >= Size /\ at[t] < Size
  <2>1. TransferInv(t)
    BY <1>1, <1>5 DEF FileInv
  <2>2. at[t] \in Nat /\ size[t] \in Nat /\ body[t].next = at[t] + 1 /\ Size \in Nat
    BY <2>1, ExchangeAssumption DEF TypeOK, TransferInv
  <2>3. len[t] # Unknown /\ len[t] \in Nat /\ Numbered(at[t])
    BY <2>1 DEF TransferInv, TypeOK
  <2>4. body[t].last = Size /\ len[t] + size[t] = Size /\ size[t] <= at[t]
    BY <1>1, <2>1, <2>2, <2>3 DEF TransferInv
  <2>5. QED
    BY <1>1, <2>2, <2>3, <2>4
<1>6. FileInv'
  <2>1. /\ pc'[t] = "open" /\ size'[t] = at[t] /\ len'[t] = len[t] /\ odd' = odd
        /\ (Numbered(at[t]) => Numbered(size[t])')
    BY <1>1 DEF TypeOK, Numbered
  <2>2. QED
    BY <1>3, <1>5, <2>1 DEF FileInv, Filling
<1>7. QED
  BY <1>2, <1>4, <1>6

LEMMA LoadComplete ==
  ASSUME TypeOK, LoadInv, NEW t \in Threads, Complete(t)
  PROVE  CodeInv' /\ AloneInv' /\ FileInv'
<1> USE DEF LoadInv
<1>1. /\ pc[t] = "transfer" /\ AllCame(t) /\ Finish(t) /\ UNCHANGED <<file, odd>>
      /\ IF at[t] > 0 THEN SetErr(t, "0") ELSE UNCHANGED err
  BY DEF Complete, history
<1>2. /\ \A u \in Threads \ {t} : Kept(u)
      /\ pc'[t] = "return" /\ ~part'[t]
  BY <1>1, FinishKeeps
<1>3. CodeInv'
  BY <1>2 DEF CodeInv, Kept
<1>4. \A u \in Threads \ {t} : ~odd'[u] => ~Filling(u) /\ ~Filling(u)'
  BY <1>1, <1>2 DEF AloneInv, Filling, Kept
<1>5. AloneInv'
  <2>1. ~odd[t] => \A u \in Threads \ {t} : pc[u] # "transfer"
    BY <1>1 DEF AloneInv, Filling
  <2>2. QED
    BY <1>1, <1>2, <1>4, <2>1 DEF AloneInv, Kept
<1>6. ASSUME ~odd[t], err'[t] = "0"
      PROVE  Numbered(Size)'
  <2>1. TransferInv(t)
    BY <1>1, <1>6 DEF FileInv
  <2>2. err[t] = "0xFF"
    BY <1>1 DEF CodeInv
  <2>3. at[t] > 0
    BY <1>1, <1>6, <2>2
  <2>4. /\ body[t].last = Size /\ body[t].next = at[t] + 1 /\ len[t] # Unknown
        /\ Numbered(at[t])
    BY <2>1, <2>3 DEF TransferInv
  <2>5. at[t] = Size
    BY <1>1, <2>4, ExchangeAssumption DEF AllCame, ReplyInv, TypeOK
  <2>6. QED
    BY <1>1, <2>4, <2>5 DEF Numbered
<1>7. FileInv'
  BY <1>1, <1>2, <1>4, <1>6 DEF FileInv, Filling
<1>8. QED
  BY <1>3, <1>5, <1>7

LEMMA LoadInit == Init => TypeOK /\ LoadInv
BY TypeInit DEF Init, LoadInv, CodeInv, AloneInv, FileInv, Filling, Loading

LEMMA LoadStep == TypeOK /\ LoadInv /\ [Next]_vars => (TypeOK /\ LoadInv)'
<1> SUFFICES ASSUME TypeOK, LoadInv, [Next]_vars
             PROVE  CodeInv' /\ AloneInv' /\ FileInv'
  BY TypeStep DEF LoadInv
<1> USE DEF LoadInv
<1>1. CASE Restart
  BY <1>1 DEF Restart, CodeInv, AloneInv, FileInv, Filling, Loading
<1>2. ASSUME NEW t \in Threads, OpenFails(t) \/ Failed(t)
      PROVE  CodeInv' /\ AloneInv' /\ FileInv'
  <2>1. /\ Finish(t) /\ UNCHANGED <<file, odd>>
        /\ \/ SetErr(t, "1")
           \/ UNCHANGED err /\ pc[t] = "transfer"
    BY <1>2 DEF OpenFails, Failed, AfterFailed, history
  <2>2. /\ \A u \in Threads \ {t} : Kept(u)
        /\ pc'[t] = "return" /\ ~part'[t]
    BY <2>1, FinishKeeps
  <2>3. err'[t] # "0"
    BY <2>1 DEF CodeInv, SetErr, TypeOK
  <2>4. CodeInv'
    BY <2>2 DEF CodeInv, Kept
  <2>5. QED
    BY <2>1, <2>2, <2>3, <2>4, OthersFilling DEF Filling
<1>3. ASSUME NEW t \in Threads,
             \/ Lock(t) \/ SendData(t) \/ Assign(t) \/ GetPiece(t) \/ GetEnd(t) \/ Read(t)
             \/ ReadImage(t) \/ Return(t) \/ \E o \in Ops : Call(t, o)
      PROVE  CodeInv' /\ AloneInv' /\ FileInv'
  <2>1. /\ UNCHANGED <<file, loop>> /\ ~part[t]
        /\ \A u \in Threads \ {t} : Kept(u)
        /\ pc'[t] \notin {"transfer", "return"}
        /\ pc'[t] \in {"idle", "lock", "post", "get", "open"} => err'[t] = "0xFF"
    BY <1>3, RequestKeeps
  <2>2. ~part'[t]
    BY <2>1 DEF loop
  <2>3. CodeInv'
    BY <2>1, <2>2 DEF CodeInv, Kept
  <2>4. QED
    BY <2>1, <2>2, <2>3, OthersFilling DEF Filling
<1>4. CASE UNCHANGED vars
  BY <1>4 DEF vars, CodeInv, AloneInv, FileInv, Filling, TransferInv, Numbered
<1>5. QED
  BY <1>1, <1>2, <1>3, <1>4, LoadOpen, LoadReceive, LoadPartial, LoadComplete
     DEF Next, Step, Download

LEMMA LoadInvariant == Spec => [](TypeOK /\ LoadInv)
<1>1. Init => TypeOK /\ LoadInv
  BY LoadInit
<1>2. QED
  BY <1>1, LoadStep, PTL DEF Spec

\* Every variable of the exchange keeps its type: a reply's rest stays within the file,
\* the member and the file are sequences of pieces and blocks that can be told apart.
THEOREM TypeCorrect == Spec => []TypeOK
BY LoadInvariant, PTL

\* A download that reports success has left exactly the server's file, for any length of
\* it and any number of parts, but for what LoadedIsWhole excepts.
THEOREM LoadedWhole == Spec => []LoadedIsWhole
<1>1. TypeOK /\ LoadInv => LoadedIsWhole
  BY DEF LoadInv, FileInv, LoadedIsWhole, Numbered
<1>2. QED
  BY <1>1, LoadInvariant, PTL

-----------------------------------------------------------------------------
(* The answers                                                              *)

\* The step of a call after its beginning: it writes its own pieces or the text of a
\* size to the member, or nothing, and is not in a call it was not in.
Answering(t) ==
  /\ pc[t] # "idle"
  /\ \A u \in Threads \ {t} : /\ pc'[u] = pc[u] /\ op'[u] = op[u] /\ req'[u] = req[u]
                              /\ sent'[u] = sent[u] /\ during'[u] = during[u]
  /\ op'[t] = op[t]
  /\ \A j \in 1..Len(answer') : \/ answer'[j].of \in {t, Nobody}
                                \/ j <= Len(answer) /\ answer'[j] = answer[j]
  /\ pc'[t] # "idle" => during'[t] = during[t]
  /\ pc'[t] \in {"get", "read"} /\ during[t] = {} => answer' = sent'[t]
  /\ pc'[t] \in {"lock", "post", "assign", "get", "read"} => op[t] # "load"
  /\ pc'[t] \in {"idle", "post"} \/ (pc'[t] = "lock" /\ req'[t] # "download") => sent'[t] = <<>>
  /\ \A j \in 1..Len(sent'[t]) : sent'[t][j].of = t

LEMMA AnsweringKeeps ==
  ASSUME TypeOK, AnswerInv, NEW t \in Threads, Answering(t)
  PROVE  AnswerInv'
<1> USE DEF AnswerInv, Answering
<1>1. MeetInv'
  BY DEF MeetInv
<1>2. SentInv'
  BY DEF SentInv
<1>3. ASSUME NEW u \in Threads, pc'[u] # "idle", op'[u] # "load"
      PROVE  \A j \in 1..Len(answer') : answer'[j].of \in {u, Nobody} \cup during'[u]
  <2>1. CASE u = t
    BY <1>3, <2>1 DEF PieceInv
  <2>2. CASE u # t
    <3>1. /\ t \in during[u] /\ during'[u] = during[u]
          /\ \A j \in 1..Len(answer) : answer[j].of \in {u, Nobody} \cup during[u]
      BY <1>3, <2>2 DEF MeetInv, PieceInv
    <3>2. Len(answer) \in Nat
      BY DEF TypeOK
    <3>3. QED
      <4> SUFFICES ASSUME NEW j \in 1..Len(answer')
                   PROVE  answer'[j].of \in {u, Nobody} \cup during'[u]
        OBVIOUS
      <4>1. CASE answer'[j].of \in {t, Nobody}
        BY <3>1, <4>1
      <4>2. CASE j <= Len(answer) /\ answer'[j] = answer[j]
        <5>1. j \in 1..Len(answer)
          BY <3>2, <4>2
        <5>2. QED
          BY <3>1, <4>2, <5>1
      <4>3. QED
        BY <4>1, <4>2
  <2>3. QED
    BY <2>1, <2>2
<1>4. ASSUME NEW u \in Threads, pc'[u] \in {"get", "read"}, during'[u] = {}
      PROVE  answer' = sent'[u]
  <2>1. CASE u = t
    BY <1>4, <2>1
  <2>2. CASE u # t
    BY <1>4, <2>2 DEF MeetInv
  <2>3. QED
    BY <2>1, <2>2
<1>5. QED
  BY <1>1, <1>2, <1>3, <1>4 DEF PieceInv

LEMMA AnsweringStep ==
  ASSUME TypeOK, AnswerInv, NEW t \in Threads, Lock(t) \/ Step(t)
  PROVE  Answering(t)
<1> USE DEF TypeOK, AnswerInv, Answering, Goto, SetErr, memory, loop, history
<1>1. CASE Lock(t)
  <2>1. /\ pc[t] = "lock" /\ op[t] # "load"
        /\ pc' = [pc EXCEPT ![t] = IF req[t] = "download" THEN "open" ELSE req[t]]
        /\ answer' = IF req[t] = "get" THEN <<>> ELSE answer
        /\ UNCHANGED <<op, req, sent, during>>
    BY <1>1 DEF Lock, Cleared, MeetInv
  <2>2. req[t] # "download" => sent[t] = <<>>
    BY <2>1 DEF SentInv
  <2>3. \A j \in 1..Len(answer') : j <= Len(answer) /\ answer'[j] = answer[j]
    BY <2>1
  <2>4. pc'[t] \in {"get", "read"} => answer' = sent[t]
    BY <2>1, <2>2 DEF Requests
  <2>5. QED
    BY <2>1, <2>2, <2>3, <2>4 DEF SentInv, Requests
<1>2. CASE SendData(t)
  <2>1. PICK s \in Sent(t) : sent' = [sent EXCEPT ![t] = s]
    BY <1>2 DEF SendData
  <2>2. \A j \in 1..Len(s) : s[j].of = t
    BY SentType
  <2>3. /\ pc[t] = "post" /\ pc' = [pc EXCEPT ![t] = "assign"] /\ op[t] # "load"
        /\ UNCHANGED <<answer, op, req, during>>
    BY <1>2 DEF SendData, MeetInv
  <2>4. QED
    BY <2>1, <2>2, <2>3
<1>3. CASE Assign(t)
  <2>1. /\ pc[t] = "assign" /\ answer' = sent[t] /\ Back(t, err[t]) /\ op[t] # "load"
        /\ UNCHANGED <<op, req>>
    BY <1>3 DEF Assign, MeetInv
  <2>2. \A j \in 1..Len(answer') : answer'[j].of \in {t, Nobody}
    BY <2>1 DEF SentInv
  <2>3. CASE Leave(t)
    BY <2>1, <2>2, <2>3 DEF Leave
  <2>4. CASE Goto(t, "read") /\ UNCHANGED <<sent, history>>
    BY <2>1, <2>2, <2>4 DEF SentInv
  <2>5. QED
    BY <2>1, <2>3, <2>4 DEF Back
<1>4. CASE GetPiece(t)
  <2>1. /\ pc[t] = "get" /\ op[t] # "load" /\ Len(sent[t]) < 2
        /\ answer' = Append(answer, Reply(t)[Len(sent[t]) + 1])
        /\ sent' = [sent EXCEPT ![t] = Append(@, Reply(t)[Len(sent[t]) + 1])]
        /\ UNCHANGED <<pc, op, req, during>>
    BY <1>4 DEF GetPiece, MeetInv
  <2>2. PICK piece \in Pieces : piece = Reply(t)[Len(sent[t]) + 1] /\ piece.of = t
    <3>1. Len(sent[t]) \in Nat
      OBVIOUS
    <3>2. Len(sent[t]) + 1 \in 1..2
      BY <2>1, <3>1
    <3>3. QED
      BY <3>2, ReplyType
  <2>3. answer' = Append(answer, piece) /\ sent'[t] = Append(sent[t], piece)
    BY <2>1, <2>2
  <2>4. \A j \in 1..Len(answer') : \/ answer'[j].of \in {t, Nobody}
                                   \/ j <= Len(answer) /\ answer'[j] = answer[j]
    BY <2>2, <2>3
  <2>5. \A j \in 1..Len(sent'[t]) : sent'[t][j].of = t
    BY <2>2, <2>3 DEF SentInv
  <2>6. during[t] = {} => answer' = sent'[t]
    BY <2>1, <2>3 DEF PieceInv
  <2>7. QED
    BY <2>1, <2>4, <2>5, <2>6
<1>5. CASE GetEnd(t)
  <2>1. PICK e \in {"0", "0xFF"} : Back(t, e)
    BY <1>5 DEF GetEnd
  <2>2. pc[t] = "get" /\ op[t] # "load" /\ UNCHANGED <<answer, op, req>>
    BY <1>5 DEF GetEnd, MeetInv
  <2>3. CASE Leave(t)
    BY <2>2, <2>3 DEF Leave
  <2>4. CASE Goto(t, "read") /\ UNCHANGED <<sent, history>>
    BY <2>2, <2>4 DEF SentInv, PieceInv
  <2>5. QED
    BY <2>1, <2>3, <2>4 DEF Back
<1>6. CASE Read(t)
  <2>1. pc[t] = "read" /\ Leave(t) /\ UNCHANGED <<answer, op, req>>
    BY <1>6 DEF Read
  <2>2. QED
    BY <2>1 DEF Leave
<1>7. CASE ReadImage(t)
  <2>1. pc[t] = "read" /\ op[t] # "load" /\ UNCHANGED op
    BY <1>7 DEF ReadImage, MeetInv
  <2>2. CASE Leave(t) /\ UNCHANGED <<answer, req>>
    BY <2>1, <2>2 DEF Leave
  <2>3. CASE ~(Leave(t) /\ UNCHANGED <<answer, req>>)
    <3>1. /\ answer' = <<>> /\ req' = [req EXCEPT ![t] = "download"]
          /\ pc' = [pc EXCEPT ![t] = "lock"] /\ UNCHANGED <<sent, during>>
      BY <1>7, <2>3 DEF ReadImage, Cleared
    <3>2. QED
      BY <2>1, <3>1 DEF SentInv
  <2>4. QED
    BY <2>2, <2>3
<1>8. CASE Download(t)
  <2>1. /\ pc[t] \in {"open", "transfer"} /\ UNCHANGED <<op, req, sent, during>>
        /\ \E place \in {"open", "transfer", "return"} : pc' = [pc EXCEPT ![t] = place]
    BY <1>8 DEF Download, OpenFails, Open, Receive, Complete, Partial, Failed, AfterFailed,
                Finish
  <2>2. answer' \in {answer, <<>>, <<SizeText>>}
    BY <1>8 DEF Download, OpenFails, Open, Receive, Complete, Partial, Failed, Cleared
  <2>3. \A j \in 1..Len(answer') : \/ answer'[j].of \in {t, Nobody}
                                   \/ j <= Len(answer) /\ answer'[j] = answer[j]
    BY <2>2 DEF SizeText
  <2>4. QED
    BY <2>1, <2>3 DEF SentInv
<1>9. CASE Return(t)
  <2>1. pc[t] = "return" /\ Leave(t) /\ UNCHANGED <<answer, op, req>>
    BY <1>9 DEF Return
  <2>2. QED
    BY <2>1 DEF Leave
<1>10. QED
  BY <1>1, <1>2, <1>3, <1>4, <1>5, <1>6, <1>7, <1>8, <1>9 DEF Step

\* A call that begins meets the others; the member is cleared, or its own earlier pieces
\* in it are marked as such.
LEMMA CallStep ==
  ASSUME TypeOK, AnswerInv, NEW t \in Threads, NEW o \in Ops, Call(t, o)
  PROVE  AnswerInv'
<1> USE DEF AnswerInv
<1> DEFINE busy == {u \in Threads \ {t} : pc[u] # "idle"}
           place == IF o = "load" THEN "open" ELSE "lock"
<1>1. /\ pc[t] = "idle" /\ pc' = [pc EXCEPT ![t] = place] /\ op' = [op EXCEPT ![t] = o]
      /\ req' = [req EXCEPT ![t] = FirstRequest(o)] /\ UNCHANGED sent
      /\ during' = [u \in Threads |-> IF u = t THEN busy
                                      ELSE IF u \in busy THEN during[u] \cup {t}
                                      ELSE during[u]]
  BY DEF Call, Goto, Meet
<1>2. answer' = Aged(t, IF o = "load" THEN answer ELSE <<>>)
  BY DEF Call, Cleared
<1>3. Len(answer') \in Nat /\ (o # "load" => Len(answer') = 0)
  <2>1. CASE o = "load"
    BY <1>2, <2>1, AgedType DEF TypeOK
  <2>2. CASE o # "load"
    <3>1. Len(Aged(t, <<>>)) = Len(<<>>)
      BY AgedType, PieceTypes
    <3>2. QED
      BY <1>2, <2>2, <3>1
  <2>3. QED
    BY <2>1, <2>2
<1>4. \A j \in 1..Len(answer') :
        j \in 1..Len(answer) /\ (answer'[j] = answer[j] \/ answer'[j].of = Nobody)
  <2>1. CASE o = "load"
    BY <1>2, <2>1, AgedType DEF Aged, Old, TypeOK
  <2>2. CASE o # "load"
    BY <1>3, <2>2
  <2>3. QED
    BY <2>1, <2>2
<1>5. MeetInv'
  BY <1>1 DEF MeetInv, TypeOK
<1>6. SentInv'
  BY <1>1 DEF SentInv, TypeOK
<1>7. ASSUME NEW u \in Threads, pc'[u] # "idle", op'[u] # "load"
      PROVE  \A j \in 1..Len(answer') : answer'[j].of \in {u, Nobody} \cup during'[u]
  <2>1. CASE u = t
    BY <1>1, <1>3, <1>7, <2>1 DEF TypeOK
  <2>2. CASE u # t
    <3>1. pc[u] # "idle" /\ op[u] # "load" /\ during[u] \subseteq during'[u]
      BY <1>1, <1>7, <2>2 DEF TypeOK
    <3>2. QED
      BY <1>4, <3>1 DEF PieceInv
  <2>3. QED
    BY <2>1, <2>2
<1>8. ASSUME NEW u \in Threads, pc'[u] \in {"get", "read"}
      PROVE  during'[u] # {}
  BY <1>1, <1>8 DEF TypeOK
<1>9. QED
  BY <1>5, <1>6, <1>7, <1>8 DEF PieceInv

LEMMA AnswerInit == Init => AnswerInv
BY DEF Init, AnswerInv, MeetInv, SentInv, PieceInv

LEMMA AnswerStep == TypeOK /\ AnswerInv /\ [Next]_vars => AnswerInv'
<1> SUFFICES ASSUME TypeOK, AnswerInv, [Next]_vars
             PROVE  AnswerInv'
  OBVIOUS
<1>1. CASE Restart
  BY <1>1 DEF Restart, AnswerInv, MeetInv, SentInv, PieceInv
<1>2. ASSUME NEW t \in Threads, Lock(t) \/ Step(t)
      PROVE  AnswerInv'
  BY <1>2, AnsweringStep, AnsweringKeeps
<1>3. ASSUME NEW t \in Threads, NEW o \in Ops, Call(t, o)
      PROVE  AnswerInv'
  BY <1>3, CallStep
<1>4. CASE UNCHANGED vars
  BY <1>4 DEF vars, AnswerInv, MeetInv, SentInv, PieceInv
<1>5. QED
  BY <1>1, <1>2, <1>3, <1>4 DEF Next

\* The answer a caller reads is its own if nobody else had a call, and never one of a call
\* that was over before, or a blend of two, for any number of threads.
THEOREM AnswerTimely == Spec => []AnswerIsOfThisTime
<1>1. TypeOK /\ AnswerInv => AnswerIsOfThisTime
  <2> SUFFICES ASSUME TypeOK, AnswerInv, NEW t \in Threads, pc[t] = "read"
               PROVE  /\ during[t] = {} => answer = sent[t]
                      /\ Accepted(t) => \E u \in during[t] \cup {t} : answer = Reply(u)
    BY DEF AnswerIsOfThisTime
  <2>1. during[t] = {} => answer = sent[t]
    BY DEF AnswerInv, PieceInv
  <2>2. ASSUME NEW u \in Threads, answer = Reply(u)
        PROVE  u \in during[t] \cup {t}
    <3>1. answer[1].of = u /\ Len(answer) = 2
      BY <2>2, ReplyType
    <3>2. answer[1].of \in {t, Nobody} \cup during[t]
      BY <3>1 DEF AnswerInv, PieceInv, MeetInv
    <3>3. QED
      BY <3>1, <3>2, ExchangeAssumption
  <2>3. QED
    BY <2>1, <2>2 DEF Accepted
<1>2. Init => AnswerInv
  BY AnswerInit
<1>3. Spec => []AnswerInv
  BY <1>2, AnswerStep, TypeCorrect, PTL DEF Spec
<1>4. QED
  BY <1>1, <1>3, TypeCorrect, PTL

=============================================================================
