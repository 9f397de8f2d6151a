------------------------------- MODULE Transfer -------------------------------
(***************************************************************************)
(* How bytes travel: send divides a file into WR requests, the server puts *)
(* it together, and it divides the reply to getmessages, or to list, into  *)
(* parts that board, or boardpost, puts together again, the files among    *)
(* them saved to disk.  The sizes are those of the code.                   *)
(*                                                                         *)
(* Bytes are known by where they come from: a part is [from, size], a      *)
(* piece of a text, of a file with its name in front, or of the files      *)
(* collected for a reply.  A write to a fifo is atomic (it is shorter than *)
(* PIPE_BUF), so a part is read in one step, its length and header with it.*)
(***************************************************************************)
EXTENDS Integers, Sequences, Prefixes

CONSTANTS
  Names,      \* names of files
  NameLen,    \* the length of a name
  FileSizes,  \* st_size of the files that are sent
  TextLens,   \* lengths of the texts that are replied
  MaxFiles,   \* bound: calls of send
  MaxAsks,    \* bound: calls of getmessages and list
  PipeParts,  \* how many parts a fifo holds
  None

MSG_SIZE == 512
PartSize == MSG_SIZE - 64       \* of a reply
ReadSize == MSG_SIZE - 128      \* of a request
SizeInfo == 10                  \* HEADER_SIZE_INFO, and the length in front of a name

ASSUME TransferAssumption ==
  /\ NameLen \in 1 .. 63
  /\ FileSizes \subseteq Nat /\ TextLens \subseteq Nat
  /\ MaxFiles \in Nat /\ MaxAsks \in Nat /\ PipeParts \in Nat \ {0}
  /\ None \notin [name : Names, total : Nat, pos : Nat]

VARIABLES
  sending,    \* the file that send reads: None or [name, total, pos]
  mid,        \* messagesid
  requests,   \* the WR requests in others_r
  store,      \* the messages of the channel, the front of the list first
  server,     \* what the server does
  out,        \* what it replies: [total, offset]
  ended,      \* tmpmsg2[PartSize] is '\0'
  pipe,       \* the parts of the reply in self_w, or in others_w
  client,     \* what the program that asked does
  command,    \* what it asked for
  list,       \* the parts it put together
  offset,     \* how many bytes of the files it has saved
  disk,       \* per name: the writes [mid, size] that the file still shows bytes of
  answer,     \* history: the text and the files of the last reply
  asks        \* history: how often it asked

postVars == <<sending, mid>>
serverVars == <<store, server, out, ended>>
clientVars == <<client, command, list, offset, disk, asks>>
vars == <<postVars, requests, serverVars, pipe, clientVars, answer>>

\* For each n, the bytes of the first n parts.
BytesTo(parts) == SumTo([i \in 1 .. Len(parts) |-> parts[i].size])

Total(parts) == BytesTo(parts)[Len(parts)]

\* The parts are the bytes 0 .. total - 1 in order.
Whole(parts, total) ==
  /\ Total(parts) = total
  /\ \A i \in 1 .. Len(parts) : parts[i].from = BytesTo(parts)[i - 1]

\* A message in the files reply: its size as ten characters, and its bytes.
RecordSize(m) == SizeInfo + m.total

\* For each n, the bytes of the first n records.
RecordsTo(files) == SumTo([i \in 1 .. Len(files) |-> RecordSize(files[i])])

FilesSize(files) == RecordsTo(files)[Len(files)]

Init ==
  /\ sending = None /\ mid = 0 /\ requests = <<>>
  /\ store = <<>> /\ server = "idle" /\ out = [total |-> 0, offset |-> 0]
  /\ ended \in BOOLEAN
  /\ pipe = <<>>
  /\ client = "prompt" /\ command = None /\ list = <<>> /\ offset = 0
  /\ disk = [n \in Names |-> {}]
  /\ answer = [text |-> 0, files |-> <<>>] /\ asks = 0

-------------------------------------------------------------------------------
(* boardpost: send *)

NameHeader == SizeInfo + NameLen

\* stat and open.
Send(name, size) ==
  /\ sending = None /\ mid < MaxFiles
  /\ sending' = [name |-> name, total |-> NameHeader + size, pos |-> 0]
  /\ UNCHANGED <<mid, requests, serverVars, pipe, clientVars, answer>>

\* What is left of the file, the name in front not counted.
Unread == sending.total - (IF sending.pos = 0 THEN NameHeader ELSE sending.pos)

\* Mutant: the first read leaves no room for the name.
Size2ReadFull == ReadSize

\* The read at pos 0 leaves room for the name.
Size2Read == ReadSize - (IF sending.pos = 0 THEN NameHeader ELSE 0)

NRead == IF Unread < Size2Read THEN Unread ELSE Size2Read

LastPart == NRead < Size2Read

SendPart ==
  /\ sending # None
  /\ NRead > 0
  /\ Len(requests) < PipeParts
  /\ LET size == NRead + (IF sending.pos = 0 THEN NameHeader ELSE 0)
     IN /\ requests' = Append(requests,
             [mid |-> mid, name |-> sending.name, total |-> sending.total,
              from |-> sending.pos, size |-> size,
              full |-> IF LastPart THEN "y" ELSE "n"])
        /\ sending' = [sending EXCEPT !.pos = @ + size]
  /\ UNCHANGED <<mid, serverVars, pipe, clientVars, answer>>

\* read returns 0.
SendEnd ==
  /\ sending # None
  /\ NRead = 0
  /\ sending' = None
  /\ mid' = mid + 1
  /\ UNCHANGED <<requests, serverVars, pipe, clientVars, answer>>

-------------------------------------------------------------------------------
(* board_server: WR *)

SameMessage(m, w) == m.mid = w.mid /\ m.total = w.total

Piece(w) == [from |-> w.from, size |-> w.size]

\* cr_message
NewMessage(w) ==
  [mid |-> w.mid, name |-> w.name, total |-> w.total, full |-> w.full, body |-> <<Piece(w)>>]

\* Mutant: the part is copied, rcvd is not counted up.
ExtendedOver(m, w) == [m EXCEPT !.body = <<Piece(w)>>, !.full = w.full]

\* The part is copied to where the message ends.
Extended(m, w) == [m EXCEPT !.body = Append(@, Piece(w)), !.full = w.full]

\* Mutant: a message is inserted at the end of the list.
InsertBack(m) == Append(store, m)

\* insert: the message becomes the front of the list.
Insert(m) == <<m>> \o store

HandleWR ==
  /\ server = "idle"
  /\ requests # <<>>
  /\ requests' = Tail(requests)
  /\ LET w == Head(requests)
     IN store' = IF \E i \in 1 .. Len(store) : SameMessage(store[i], w)
                 THEN [i \in 1 .. Len(store) |->
                         IF SameMessage(store[i], w) THEN Extended(store[i], w) ELSE store[i]]
                 ELSE Insert(NewMessage(w))
  /\ UNCHANGED <<postVars, server, out, ended, pipe, clientVars, answer>>

-------------------------------------------------------------------------------
(* board_server: GM and LI *)

\* What get_ready_files collects, in the order of the list.
Ready == Pick(store, {i \in DOMAIN store : store[i].full = "y"})
NotReady == Pick(store, {i \in DOMAIN store : store[i].full # "y"})

\* The request is read and the text put together.
HandleAsk(text) ==
  /\ server = "idle"
  /\ client = "asked"
  /\ client' = "text"
  /\ server' = "text"
  /\ out' = [total |-> text, offset |-> 0]
  /\ answer' = [text |-> text, files |-> <<>>]
  /\ UNCHANGED <<postVars, requests, store, ended, pipe, command, list, offset, disk, asks>>

\* Mutant: the header is forgotten.
FitsLoose == MSG_SIZE - out.total - SizeInfo >= 0

FitsOneWrite == MSG_SIZE - out.total - 15 >= 0

Unsent == out.total - out.offset

Reply(size, full) ==
  /\ Len(pipe) < PipeParts
  /\ pipe' = Append(pipe, [of |-> server, from |-> out.offset, size |-> size, full |-> full,
                            total |-> out.total])

\* After the text of a getmessages the files are collected.
TextSent ==
  IF command = "GM"
  THEN /\ server' = "files"
       /\ out' = [total |-> FilesSize(Ready), offset |-> 0]
       /\ answer' = [answer EXCEPT !.files = Ready]
       /\ store' = NotReady
  ELSE server' = "idle" /\ UNCHANGED <<out, answer, store>>

TextWhole ==
  /\ server = "text" /\ FitsOneWrite
  /\ Reply(out.total, "y")
  /\ TextSent
  /\ UNCHANGED <<postVars, requests, ended, clientVars>>

\* Mutant: the terminator is not set.
EndedStale == ended

\* strncpy writes no terminator when it copies PartSize bytes, and the code sets
\* one only if more than that is left.
Ended == ended \/ Unsent > PartSize

\* strlen of the part in tmpmsg2; without the terminator it runs on, here by 8 bytes.
PartLengths ==
  IF Unsent < PartSize THEN {Unsent}
  ELSE IF Ended THEN {PartSize} ELSE {PartSize, PartSize + 8}

TextPart ==
  /\ server = "text" /\ ~ FitsOneWrite
  /\ ended' = Ended
  /\ \E size \in PartLengths :
       /\ Reply(size, IF size < PartSize THEN "y" ELSE "n")
       /\ \/ size < PartSize /\ TextSent
          \/ /\ size >= PartSize
             /\ out' = [out EXCEPT !.offset = @ + PartSize]
             /\ UNCHANGED <<server, answer, store>>
  /\ UNCHANGED <<postVars, requests, clientVars>>

FilesWhole ==
  /\ server = "files" /\ FitsOneWrite
  /\ Reply(out.total, "y")
  /\ server' = "idle"
  /\ UNCHANGED <<postVars, requests, store, out, ended, clientVars, answer>>

LastOfFiles == Unsent < PartSize

FilesPart ==
  /\ server = "files" /\ ~ FitsOneWrite
  /\ LET rd == IF Unsent < PartSize THEN Unsent ELSE PartSize
     IN /\ Reply(rd, IF LastOfFiles THEN "y" ELSE "n")
        /\ server' = IF LastOfFiles THEN "idle" ELSE "files"
        /\ out' = [out EXCEPT !.offset = @ + rd]
  /\ UNCHANGED <<postVars, requests, store, ended, clientVars, answer>>

-------------------------------------------------------------------------------
(* board: getmessages; boardpost: list *)

Ask(c) ==
  /\ client = "prompt" /\ asks < MaxAsks
  /\ client' = "asked"
  /\ command' = c
  /\ list' = <<>> /\ offset' = 0
  /\ asks' = asks + 1
  /\ UNCHANGED <<postVars, requests, serverVars, pipe, disk, answer>>

\* Mutant: the files reply is not read.
AfterTextPrompt == "prompt"

AfterText == IF command = "GM" THEN "files" ELSE "prompt"

\* The first part of a reply replaces what was put together before, the others
\* are appended; the one with 'y' ends the reply.
ReadPart(from, more, done) ==
  /\ client \in {from, more}
  /\ pipe # <<>>
  /\ pipe' = Tail(pipe)
  /\ LET p == Head(pipe)
     IN /\ list' = (IF client = from THEN <<>> ELSE list) \o <<Piece(p)>>
        /\ client' = IF p.full = "y" THEN done ELSE more
  /\ UNCHANGED <<postVars, requests, serverVars, command, offset, disk, asks, answer>>

ReadText == ReadPart("text", "text2", AfterText)
ReadFiles == ReadPart("files", "files2", "save")

\* Where the record of the i-th file starts in the reply.
Start(files, i) == RecordsTo(files)[i - 1]

\* Mutant: the size in front of the record is not skipped.
NextRecordShort(m) == offset + m.total

NextRecord(m) == offset + RecordSize(m)

\* What is written to the file: the message without the name in front.
Saved(m) == [mid |-> m.mid, size |-> m.total - NameHeader]

\* The file is written from its first byte on and not truncated: a write hides those that
\* are not longer, and a longer one still shows behind it.  So each byte of the file is
\* of the shortest write that reaches it.
Overwritten(writes, w) == {v \in writes : v.size > w.size} \cup {w}

\* The record at offset is written to the file it names.
SaveFile ==
  /\ client = "save"
  /\ offset # Total(list)
  /\ \E i \in 1 .. Len(answer.files) :
       LET m == answer.files[i]
       IN /\ Start(answer.files, i) = offset
          /\ disk' = [disk EXCEPT ![m.name] = Overwritten(@, Saved(m))]
          /\ offset' = NextRecord(m)
  /\ UNCHANGED <<postVars, requests, serverVars, pipe, client, command, list, asks, answer>>

SaveEnd ==
  /\ client = "save"
  /\ offset = Total(list)
  /\ client' = "prompt"
  /\ UNCHANGED <<postVars, requests, serverVars, pipe, command, list, offset, disk, asks, answer>>

-------------------------------------------------------------------------------
PostStep == SendPart \/ SendEnd
ServerStep ==
  HandleWR \/ (\E t \in TextLens : HandleAsk(t)) \/ TextWhole \/ TextPart \/ FilesWhole \/ FilesPart
ClientStep == ReadText \/ ReadFiles \/ SaveFile \/ SaveEnd

Next ==
  \/ \E n \in Names, size \in FileSizes : Send(n, size)
  \/ \E c \in {"GM", "LI"} : Ask(c)
  \/ PostStep \/ ServerStep \/ ClientStep

Spec == Init /\ [][Next]_vars

\* The programs go on with what they have begun.
FairSpec == Spec /\ WF_vars(PostStep) /\ WF_vars(ServerStep) /\ WF_vars(ClientStep)

-------------------------------------------------------------------------------
(* Properties *)

Flags == {"y", "n"}

\* A text of 497 bytes takes one write, which fills tmpmsg; the terminator is one byte behind
\* it, and what that overwrites is not defined.  The theorems assume that there is none.
TextsFit == MSG_SIZE - 15 \notin TextLens

\* Every variable holds what the programs can put there.
TransferTypeOK ==
  /\ sending = None \/ (sending.name \in Names /\ sending.total \in Nat
                         /\ sending.pos \in 0 .. sending.total)
  /\ mid \in 0 .. MaxFiles
  /\ \A i \in 1 .. Len(requests) :
       requests[i].size \in 1 .. ReadSize /\ requests[i].full \in Flags
  /\ \A i \in 1 .. Len(store) : store[i].mid \in 0 .. MaxFiles - 1 /\ store[i].full \in Flags
  /\ server \in {"idle", "text", "files"}
  /\ out.offset \in 0 .. out.total
  /\ ended \in BOOLEAN
  /\ Len(pipe) <= PipeParts /\ Len(requests) <= PipeParts
  /\ client \in {"prompt", "asked", "text", "text2", "files", "files2", "save"}
  /\ command \in {None, "GM", "LI"}
  /\ \A n \in Names : disk[n] \subseteq [mid : 0 .. MaxFiles - 1, size : Int]
  /\ asks \in 0 .. MaxAsks

\* However a reply is divided, the text that is printed and the files that are read
\* back are the bytes that were replied, each once and in order.  board_server.c:253-349,
\* board.c:190-330, README.txt:37-40 (several writes with a header each)
ReplyWhole ==
  /\ client = "files" \/ (client = "prompt" /\ command = "LI") => Whole(list, answer.text)
  /\ client = "save" => Whole(list, FilesSize(answer.files))

\* A message that was put together holds what was sent, and is offered to the owner
\* unless its size is a multiple of what one request holds.  boardpost.c:281-316,
\* board_server.c:241-260
OfferedWhole ==
  \A i \in 1 .. Len(store) :
    LET m == store[i]
        moves == sending # None /\ mid = m.mid
        queued == \E j \in 1 .. Len(requests) : SameMessage(m, requests[j])
    IN ~ moves /\ ~ queued =>
         Whole(m.body, m.total) /\ (m.full = "y" <=> m.total % ReadSize # 0)

\* "%3d" takes three characters or more, an int never more than ten.
Digits(n) == IF n < 1000 THEN 3 ELSE 10

\* The length of "%3d y" and of "%3d n %3d", or more.
HeaderLen(p) == Digits(p.size) + 2 + (IF p.full = "y" THEN 0 ELSE 1 + Digits(p.total))

\* The text in a part of a reply fits into tmpmsg with its length, its header and the
\* terminator that sprintf puts behind it.  board_server.c:65, 200-223, 269-292; README.txt:36-38
\* (several writes if the message is larger than the 512 that are permitted)
TextFits ==
  \A i \in 1 .. Len(pipe) :
    pipe[i].of = "text" => SizeInfo + HeaderLen(pipe[i]) + pipe[i].size + 1 <= MSG_SIZE

\* No buffer is written beyond its end: the request in msg, the reply in tmpmsg and at
\* board, the reply's parts in the list allocated for them, and a message in the msgsize
\* bytes of its record.  board_server.c:254-349, board.c:214-324, boardb.c:231-238
NoOverrun ==
  /\ \A i \in 1 .. Len(requests) : requests[i].size <= ReadSize
  /\ TextFits
  /\ \A i \in 1 .. Len(pipe) : SizeInfo + HeaderLen(pipe[i]) + pipe[i].size <= MSG_SIZE
  /\ client \in {"text2", "files2"} =>
       Total(list) <= (IF client = "text2" THEN answer.text ELSE FilesSize(answer.files))
  /\ \A i \in 1 .. Len(store) : Total(store[i].body) <= store[i].total

\* All bytes of m are on the disk, in front of what longer files left behind them.
InFront(m) ==
  /\ Saved(m) \in disk[m.name]
  /\ \A w \in disk[m.name] : w = Saved(m) \/ w.size > Saved(m).size

FirstSent(m) ==
  \A i \in 1 .. Len(answer.files) :
    answer.files[i].name = m.name => answer.files[i].mid >= m.mid

\* Of the files of one name in an answer the one that was sent first is the last to be
\* written: it is in the front of the file, whole, and another shows behind it only as far
\* as it is longer.  boardb.c:247-251, 395-411 (the newest is in front), board.c:268-295
FirstSentInFront ==
  client = "prompt" /\ command = "GM" =>
    \A i \in 1 .. Len(answer.files) : FirstSent(answer.files[i]) => InFront(answer.files[i])

\* Every getmessages and every list ends, however long the reply and however short
\* the fifo.  board.c:190-330, boardpost.c:175-237
AskEnds == client # "prompt" ~> client = "prompt"

\* A send ends, though the fifo is full and the server busy with a reply.  boardpost.c:281-320
SendEnds == sending # None ~> sending = None

===============================================================================
