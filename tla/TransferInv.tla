----------------------------- MODULE TransferInv -----------------------------
(***************************************************************************)
(* The inductive invariant of Transfer.  Each fifo is a chain of parts:    *)
(* every part begins where the one before it ends, the first where its     *)
(* reader stands and the place after the last is where its writer stands.  *)
(***************************************************************************)
EXTENDS Transfer

Request ==
  [mid : 0 .. MaxFiles - 1, name : Names, total : Nat, from : Nat, size : 1 .. ReadSize,
   full : Flags]
Bytes == [from : Nat, size : Nat]
Message ==
  [mid : 0 .. MaxFiles - 1, name : Names, total : Nat, full : Flags, body : Seq(Bytes)]
Part == [of : {"text", "files"}, from : Nat, size : Nat, full : Flags, total : Nat]

TypeInv ==
  /\ TransferTypeOK
  /\ sending = None \/ sending \in [name : Names, total : Nat, pos : Nat]
  /\ requests \in Seq(Request) /\ store \in Seq(Message) /\ pipe \in Seq(Part)
  /\ out \in [total : Nat, offset : Nat]
  /\ list \in Seq(Bytes) /\ offset \in Nat
  /\ DOMAIN disk = Names
  /\ answer \in [text : Nat \ {MSG_SIZE - 15}, files : Seq(Message)]

-------------------------------------------------------------------------------
(* Requests *)

\* A request holds as much as fits, and the last one is not full.
WellCut(w) ==
  /\ w.from % ReadSize = 0 /\ w.from < w.total
  /\ w.size = IF w.total - w.from < ReadSize THEN w.total - w.from ELSE ReadSize
  /\ w.full = "y" <=> w.size < ReadSize

SendingInv ==
  sending # None =>
    /\ mid < MaxFiles
    /\ sending.total >= NameHeader
    /\ sending.pos = sending.total \/ (sending.pos % ReadSize = 0 /\ sending.pos < sending.total)

\* The place of the byte that is sent next.
WriterPlace ==
  IF sending = None THEN [mid |-> mid, total |-> 0, from |-> 0]
  ELSE [mid |-> mid, total |-> sending.total, from |-> sending.pos]

\* The place of the byte that the server stores next.
NextPlace ==
  IF requests = <<>> THEN WriterPlace
  ELSE [mid |-> requests[1].mid, total |-> requests[1].total, from |-> requests[1].from]

\* p is in the same message where w ends, or at the start of a later one.
Follows(w, p) ==
  \/ w.mid = p.mid /\ w.total = p.total /\ w.from + w.size = p.from
  \/ w.from + w.size = w.total /\ w.mid < p.mid /\ p.from = 0

RequestsInv ==
  \A j \in 1 .. Len(requests) :
    /\ WellCut(requests[j])
    /\ Follows(requests[j], IF j = Len(requests) THEN WriterPlace ELSE requests[j + 1])

\* What is stored of a message.
Stored(m) ==
  /\ \A i \in 1 .. Len(m.body) : m.body[i].from = BytesTo(m.body)[i - 1]
  /\ Total(m.body) > 0 /\ Total(m.body) <= m.total
  /\ Total(m.body) % ReadSize # 0 => Total(m.body) = m.total
  /\ m.full = "y" <=> Total(m.body) % ReadSize # 0

\* The store when the byte at p comes next.
Due(p) ==
  /\ \A i \in 1 .. Len(store) :
       /\ store[i].mid < p.mid /\ Total(store[i].body) = store[i].total
       \/ /\ store[i].mid = p.mid /\ store[i].total = p.total
          /\ Total(store[i].body) = p.from
  /\ 0 < p.from /\ p.from < p.total => \E i \in 1 .. Len(store) : store[i].mid = p.mid

\* The newest message is in front.
Descending(s) == \A i, j \in 1 .. Len(s) : i < j => s[i].mid > s[j].mid

StoreInv ==
  /\ \A i \in 1 .. Len(store) : Stored(store[i])
  /\ Descending(store)
  /\ Due(NextPlace)

-------------------------------------------------------------------------------
(* Replies *)

Nowhere == [of |-> "none", from |-> 0]

\* What the client waits for.
Expected ==
  CASE client = "text" -> [of |-> "text", from |-> 0]
    [] client = "text2" -> [of |-> "text", from |-> Total(list)]
    [] client = "files" -> [of |-> "files", from |-> 0]
    [] client = "files2" -> [of |-> "files", from |-> Total(list)]
    [] OTHER -> Nowhere

\* What follows the part p.
After(p) ==
  IF p.full = "n" THEN [of |-> p.of, from |-> p.from + p.size]
  ELSE IF p.of = "text" /\ command = "GM" THEN [of |-> "files", from |-> 0]
  ELSE Nowhere

ServerPlace == IF server = "idle" THEN Nowhere ELSE [of |-> server, from |-> out.offset]

PipeInv ==
  /\ \A j \in 1 .. Len(pipe) :
       [of |-> pipe[j].of, from |-> pipe[j].from] =
         IF j = 1 THEN Expected ELSE After(pipe[j - 1])
  /\ ServerPlace = IF pipe = <<>> THEN Expected ELSE After(pipe[Len(pipe)])
  /\ server = "text" =>
       client \in {"text", "text2"} /\ \A j \in 1 .. Len(pipe) : pipe[j].of = "text"

Length(of) == IF of = "text" THEN answer.text ELSE FilesSize(answer.files)

\* Each part lies in its reply and fits its buffer.
PartsInv ==
  \A j \in 1 .. Len(pipe) : LET p == pipe[j] IN
    /\ p.size <= MSG_SIZE - 15
    /\ p.of = "text" => p.size # MSG_SIZE - 15
    /\ p.full = "y" => p.from + p.size = Length(p.of)
    /\ p.full = "n" => p.size = PartSize /\ p.from + p.size <= Length(p.of)

ServerInv ==
  /\ server # "idle" => out.total = Length(server)
  /\ server # "idle" /\ out.offset > 0 => ~ FitsOneWrite
  /\ server = "text" /\ out.offset > 0 => ended

\* What the client has put together; files follow the text of a getmessages only.
ListInv ==
  /\ client \in {"files", "files2", "save"} => command = "GM"
  /\ \A i \in 1 .. Len(list) : list[i].from = BytesTo(list)[i - 1]
  /\ client = "text2" => Total(list) <= answer.text
  /\ client = "files2" => Total(list) <= FilesSize(answer.files)

\* The files that are saved, in the order of the answer; the last one of a name is in front.
SaveInv ==
  /\ Descending(answer.files)
  /\ client \notin {"prompt", "save"} => offset = 0
  /\ client = "save" =>
       \E j \in 1 .. Len(answer.files) + 1 :
         /\ offset = RecordsTo(answer.files)[j - 1]
         /\ \A i \in 1 .. j - 1 :
              (\A k \in i + 1 .. j - 1 : answer.files[k].name # answer.files[i].name)
                => InFront(answer.files[i])

\* The inductive invariant.
TInv ==
  /\ TypeInv
  /\ SendingInv /\ RequestsInv /\ StoreInv
  /\ PipeInv /\ PartsInv /\ ServerInv /\ ListInv /\ SaveInv
  /\ ReplyWhole /\ FirstSentInFront

===============================================================================
