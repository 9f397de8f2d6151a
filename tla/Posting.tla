-------------------------------- MODULE Posting --------------------------------
(***************************************************************************)
(* The path of a message through the system: boardpost programs write      *)
(* texts and send files in fragments over the fifo others_r, board_server  *)
(* stores them, and the owner's board program creates channels and fetches *)
(* the messages over the fifos self_r and self_w.                          *)
(*                                                                         *)
(* The sessions are established when the behaviour starts: all fifos are   *)
(* open.  A write of at most 512 bytes to a fifo is atomic (PIPE_BUF is    *)
(* 4096), so a request is one element of the fifo and the reads of one     *)
(* request, by the only reader of the fifo, are one step of its handler.   *)
(***************************************************************************)
EXTENDS BoardStore

CONSTANTS
  FileShapes,   \* the files a user may send: [frags, short]
  PipeCap,      \* capacity of a fifo, in requests
  FdSelf,       \* descriptor of self_r in the server
  FdOthers,     \* descriptor of others_r in the server
  CrResume,     \* value of the loop index i when the CR handler is done: the
                \* length of the text "CR <id> ", five or more
  FreedRead,    \* outcomes of reading the next field of a freed list node
  UnsetSize     \* outcomes of reading filessize when nobody assigned it

\* The server opens self_r before others_r and open returns the lowest free
\* descriptor: 3 and 4, unless the server inherited more than 0, 1 and 2.
ASSUME FdAssumption ==
  /\ FdSelf \in Nat /\ FdOthers \in Nat /\ CrResume \in Nat
  /\ FdSelf < FdOthers

ASSUME BoundAssumption ==
  /\ MaxMid \in Nat
  /\ PipeCap \in Nat
  /\ FileShapes \subseteq [frags : Nat, short : BOOLEAN]

ASSUME BuildAssumption ==
  /\ FreedRead \subseteq {"kept", "reused"}
  /\ UnsetSize \subseteq {"zero", "garbage"}

VARIABLES
  selfR,      \* requests of the board program to the server
  othersR,    \* requests of the boardpost programs to the server
  selfW,      \* replies of the server to the board program
  server,     \* where the server's main loop is
  readFds,    \* the descriptors the last select found readable
  scan,       \* index i of the loop over the descriptors
  job,        \* per boardpost: the file it is sending, or NoJob
  nextMid,    \* per boardpost: messagesid, the number of its next message
  owner,      \* what the board program waits for
  delivered,  \* history: per channel, the messages the owner received
  dropped,    \* history: messages that lost a fragment for want of a channel
  ended       \* history: messages whose fragment with flag 'y' was written

serverVars == <<server, readFds, scan>>
postVars   == <<job, nextMid, ended>>
vars == <<board, selfR, othersR, selfW, serverVars, postVars, owner,
          delivered, dropped>>

NoJob == [frags |-> 0]
Job   == [id : Ids, frags : Nat, short : BOOLEAN, next : Nat]

OwnerRequest == [op : {"CR", "GM"}, id : Ids] \cup [op : {"SH"}]
Reply == [kind : Kinds, id : Ids, msgs : SUBSET Message]

\* A message is known by the process that sent it and its number there.
Key(m) == <<m.pid, m.mid>>

Keys == Posts \X Mids

Serving == server \in {"run", "stopping"}

Init ==
  /\ CrBboard
  /\ selfR = <<>> /\ othersR = <<>> /\ selfW = <<>>
  /\ server = "run" /\ readFds = {} /\ scan = 0
  /\ job = [p \in Posts |-> NoJob]
  /\ nextMid = [p \in Posts |-> 0]
  /\ owner = "prompt"
  /\ delivered = [c \in Ids |-> {}]
  /\ dropped = {}
  /\ ended = {}

-------------------------------------------------------------------------------
(* boardpost *)

Header(p, id, type, size, part, flag) ==
  [op |-> "WR", id |-> id, pid |-> p, mid |-> nextMid[p], type |-> type,
   msgsize |-> size, part |-> part, flag |-> flag]

\* The write blocks while the fifo is full; without a reader it is fatal.
WriteOthers(w) ==
  /\ Serving
  /\ Len(othersR) < PipeCap
  /\ othersR' = Append(othersR, w)
  /\ ended' = IF w.flag = "y" THEN ended \cup {Key(w)} ELSE ended

\* Mutant: messagesid is not incremented.
WriteTextSameMid(p, id) ==
  /\ job[p] = NoJob
  /\ nextMid[p] < MaxMid
  /\ WriteOthers(Header(p, id, "w", 1, 1, "y"))
  /\ UNCHANGED <<board, selfR, selfW, serverVars, job, nextMid, owner, delivered,
                 dropped>>

\* write <id> <message>: one fragment with flag 'y'.
WriteText(p, id) ==
  /\ job[p] = NoJob
  /\ nextMid[p] < MaxMid
  /\ WriteOthers(Header(p, id, "w", 1, 1, "y"))
  /\ nextMid' = [nextMid EXCEPT ![p] = @ + 1]
  /\ UNCHANGED <<board, selfR, selfW, serverVars, job, owner, delivered, dropped>>

\* send <id> <file>: stat and open the file.  The loop sends nothing of an
\* empty one, which still uses up a message number.
StartSend(p, id, file) ==
  /\ job[p] = NoJob
  /\ nextMid[p] < MaxMid
  /\ \/ /\ file.frags > 0
        /\ job' = [job EXCEPT ![p] = [id |-> id, frags |-> file.frags,
                                      short |-> file.short, next |-> 1]]
        /\ UNCHANGED nextMid
     \/ /\ file.frags = 0
        /\ nextMid' = [nextMid EXCEPT ![p] = @ + 1]
        /\ UNCHANGED job
  /\ UNCHANGED <<board, selfR, othersR, selfW, serverVars, owner, delivered,
                 dropped, ended>>

\* One iteration of the loop.  Only a read that returns fewer bytes than were
\* asked for (nread < size2read) marks the message as full.
SendFragment(p) ==
  LET j    == job[p]
      last == j.next = j.frags
  IN /\ j # NoJob
     /\ WriteOthers(Header(p, j.id, "f", j.frags, j.next,
                           IF last /\ j.short THEN "y" ELSE "n"))
     /\ IF last
          THEN /\ job' = [job EXCEPT ![p] = NoJob]
               /\ nextMid' = [nextMid EXCEPT ![p] = @ + 1]
          ELSE /\ job' = [job EXCEPT ![p].next = @ + 1]
               /\ UNCHANGED nextMid
     /\ UNCHANGED <<board, selfR, selfW, serverVars, owner, delivered, dropped>>

-------------------------------------------------------------------------------
(* board *)

WriteSelf(r) ==
  /\ Serving
  /\ owner = "prompt"
  /\ Len(selfR) < PipeCap
  /\ selfR' = Append(selfR, r)
  /\ UNCHANGED <<board, othersR, selfW, serverVars, postVars, delivered, dropped>>

\* createchannel <id> <title>
CreateChannel(id) == WriteSelf([op |-> "CR", id |-> id]) /\ UNCHANGED owner

\* getmessages <id>: the program now blocks in its first read.
GetMessages(id) == WriteSelf([op |-> "GM", id |-> id]) /\ owner' = "texts"

\* shutdown: the program ends without waiting for the server.
Shutdown == WriteSelf([op |-> "SH"]) /\ owner' = "gone"

\* The texts arrive first and are printed, then the files and are saved.
ReadReply ==
  /\ selfW # <<>>
  /\ \/ owner = "texts" /\ Head(selfW).kind = "w" /\ owner' = "files"
     \/ owner = "files" /\ Head(selfW).kind = "f" /\ owner' = "prompt"
  /\ delivered' = [delivered EXCEPT ![Head(selfW).id] = @ \cup Head(selfW).msgs]
  /\ selfW' = Tail(selfW)
  /\ UNCHANGED <<board, selfR, othersR, serverVars, postVars, dropped>>

\* End of file: the reads return nothing and the program goes on with what
\* an earlier reply left in its buffers.
ReadEof ==
  /\ ~ Serving
  /\ selfW = <<>>
  /\ owner \in {"texts", "files"}
  /\ owner' = "confused"
  /\ UNCHANGED <<board, selfR, othersR, selfW, serverVars, postVars, delivered,
                 dropped>>

-------------------------------------------------------------------------------
(* board_server *)

\* The loop over the descriptors has nothing left to look at.
PassDone == \A f \in readFds : f < scan

Visit(f) ==
  /\ Serving
  /\ f \in readFds
  /\ f >= scan
  /\ \A g \in readFds : g >= scan => f <= g

Fifo(f) == IF f = FdSelf THEN selfR ELSE othersR

\* Mutant: the descriptor of others_r is not put into the set.
ReadableSelfOnly == {f \in {FdSelf} : Fifo(f) # <<>>}

Readable == {f \in {FdSelf, FdOthers} : Fifo(f) # <<>>}

Select ==
  /\ server = "run"
  /\ PassDone
  /\ readFds' = Readable
  /\ readFds' # {}
  /\ scan' = 0
  /\ UNCHANGED <<board, selfR, othersR, selfW, server, postVars, owner,
                 delivered, dropped>>

\* The loop ends after SH: the fifos are removed and the board is freed.
Stop ==
  /\ server = "stopping"
  /\ PassDone
  /\ server' = "down"
  /\ board' = EmptyBoard
  /\ selfR' = <<>> /\ othersR' = <<>>
  /\ UNCHANGED <<selfW, readFds, scan, postVars, owner, delivered, dropped>>

\* The descriptor under the loop index has nothing to read: EAGAIN, and the
\* server exits with READ_FAIL.
ReadEmpty ==
  /\ \E f \in {FdSelf, FdOthers} : Visit(f) /\ Fifo(f) = <<>>
  /\ server' = "failed"
  /\ board' = EmptyBoard
  /\ selfR' = <<>> /\ othersR' = <<>>
  /\ UNCHANGED <<selfW, readFds, scan, postVars, owner, delivered, dropped>>

SelfRequest(op) ==
  /\ Visit(FdSelf)
  /\ selfR # <<>>
  /\ Head(selfR).op = op
  /\ selfR' = Tail(selfR)
  /\ UNCHANGED <<othersR, readFds, postVars, owner, delivered, dropped>>

\* Mutant: the index is back at zero when the handler is done.
HandleCRRestart ==
  /\ SelfRequest("CR")
  /\ Ginsert(Head(selfR).id)
  /\ scan' = 0
  /\ UNCHANGED <<server, selfW>>

\* CR uses the loop index i to find the title and leaves it at CrResume.
HandleCR ==
  /\ SelfRequest("CR")
  /\ Ginsert(Head(selfR).id)
  /\ scan' = CrResume + 1
  /\ UNCHANGED <<server, selfW>>

HandleSH ==
  /\ SelfRequest("SH")
  /\ server' = "stopping"
  /\ scan' = FdSelf + 1
  /\ UNCHANGED <<board, selfW>>

\* GM answers with the texts and then with the files of the channel.
HandleGM ==
  LET id    == Head(selfR).id
      all   == board[id].msgs
      texts == [kind |-> "w", id |-> id, msgs |-> Ready(all, "w")]
      files == [kind |-> "f", id |-> id, msgs |-> Ready(AfterFetch(all, "w"), "f")]
  IN /\ SelfRequest("GM")
     /\ id \in Channels
     /\ "kept" \in FreedRead \/ Ready(all, "w") \cup Ready(all, "f") = {}
     /\ FetchReady(id)
     /\ selfW' = selfW \o <<texts, files>>
     /\ scan' = FdSelf + 1
     /\ UNCHANGED server

\* Mutant: no files reply for an unknown channel.
HandleGMUnknownTextsOnly ==
  LET id == Head(selfR).id
  IN /\ SelfRequest("GM")
     /\ id \notin Channels
     /\ selfW' = Append(selfW, [kind |-> "w", id |-> id, msgs |-> {}])
     /\ scan' = FdSelf + 1
     /\ UNCHANGED <<board, server>>

\* GM for an id nobody created: "Couldn't find channel", and a files reply
\* whose size nobody set.
HandleGMUnknown ==
  LET id == Head(selfR).id
      none(t) == [kind |-> t, id |-> id, msgs |-> {}]
  IN /\ SelfRequest("GM")
     /\ id \notin Channels
     /\ \/ /\ "zero" \in UnsetSize
           /\ selfW' = selfW \o <<none("w"), none("f")>>
           /\ UNCHANGED <<board, server>>
        \/ /\ "garbage" \in UnsetSize
           /\ selfW' = Append(selfW, none("w"))
           /\ server' = "crashed"
           /\ board' = EmptyBoard
     /\ scan' = FdSelf + 1

\* The walk over the list reads the next field of the node it just deleted;
\* if the allocator has reused it the server dies, in the pass over the texts
\* with no answer, in the pass over the files with the texts answered.
HandleGMCrash ==
  LET id  == Head(selfR).id
      all == board[id].msgs
  IN /\ SelfRequest("GM")
     /\ id \in Channels
     /\ "reused" \in FreedRead
     /\ \/ Ready(all, "w") # {} /\ UNCHANGED selfW
        \/ /\ Ready(all, "f") # {}
           /\ "kept" \in FreedRead \/ Ready(all, "w") = {}
           /\ selfW' = Append(selfW, [kind |-> "w", id |-> id,
                                      msgs |-> Ready(all, "w")])
     /\ server' = "crashed"
     /\ board' = EmptyBoard
     /\ scan' = FdSelf + 1

HandleWR ==
  LET w == Head(othersR)
  IN /\ Visit(FdOthers)
     /\ othersR # <<>>
     /\ AddMessageD(w)
     /\ dropped' = IF w.id \in Channels THEN dropped ELSE dropped \cup {Key(w)}
     /\ othersR' = Tail(othersR)
     /\ scan' = FdOthers + 1
     /\ UNCHANGED <<selfR, selfW, server, readFds, postVars, owner, delivered>>

-------------------------------------------------------------------------------
PostStep(p) ==
  \/ \E id \in Ids : WriteText(p, id)
  \/ \E id \in Ids, file \in FileShapes : StartSend(p, id, file)
  \/ SendFragment(p)

OwnerStep ==
  \/ \E id \in Ids : CreateChannel(id) \/ GetMessages(id)
  \/ Shutdown
  \/ ReadReply
  \/ ReadEof

ServerStep ==
  \/ Select \/ Stop \/ ReadEmpty
  \/ HandleCR \/ HandleSH \/ HandleWR
  \/ HandleGM \/ HandleGMUnknown \/ HandleGMCrash

Next == (\E p \in Posts : PostStep(p)) \/ OwnerStep \/ ServerStep

\* The scheduler runs the server, a boardpost in its loop and a board program
\* that waits for a reply; what the users type is up to them.
Fairness ==
  /\ WF_vars(ServerStep)
  /\ WF_vars(ReadReply \/ ReadEof)
  /\ \A p \in Posts : WF_vars(SendFragment(p))

Spec == Init /\ [][Next]_vars

FairSpec == Spec /\ Fairness

-------------------------------------------------------------------------------
(* Properties *)

\* Every variable holds what the code can put there; in particular the board
\* has only channels and messages that some request named.
TypeOK ==
  /\ BoardType
  /\ selfR \in Seq(OwnerRequest)
  /\ othersR \in Seq(Fragment)
  /\ selfW \in Seq(Reply)
  /\ server \in {"run", "stopping", "down", "failed", "crashed"}
  /\ readFds \subseteq {FdSelf, FdOthers}
  /\ scan \in Nat
  /\ job \in [Posts -> Job \cup {NoJob}]
  /\ nextMid \in [Posts -> 0 .. MaxMid]
  /\ owner \in {"prompt", "texts", "files", "gone", "confused"}
  /\ delivered \in [Ids -> SUBSET Message]
  /\ dropped \subseteq Keys
  /\ ended \subseteq Keys

\* The messages of channel c by where they are.
Stored(c)  == IF c \in Channels THEN board[c].msgs ELSE {}
InReply(c) == UNION {selfW[i].msgs : i \in {j \in DOMAIN selfW : selfW[j].id = c}}
HandedOut(c) == InReply(c) \cup delivered[c]
Held(c) == Stored(c) \cup HandedOut(c)

Full(msgs) == {m \in msgs : m.full = "y"}
Queued == {Key(othersR[i]) : i \in DOMAIN othersR}

\* The server never exits because it reads a fifo that has no request: each
\* descriptor under the loop index still holds what select saw there, also
\* after the CR handler moved the index - as long as the index does not come
\* back to self_r itself.  board_server.c:133, 153-160
NoReadFail == FdSelf <= CrResume => server # "failed"

\* Fragments never mix, repeat or swap: what a full message holds is the tail
\* of the file that was sent, and the whole of it unless fragments were
\* refused for want of a channel.  boardb.c:28 ("y if full n if not full"), 224-241
FullIsWhole ==
  \A c \in Ids : \A m \in Full(Held(c)) :
    LET n == Len(m.body)
    IN /\ \A k \in 1..n : m.body[k] = m.msgsize - n + k
       /\ Key(m) \notin dropped => n = m.msgsize

\* A message exists once: it is stored in one channel under one record, or is
\* in one reply, or was delivered in one.  boardb.c:320-415
OneCopy ==
  /\ \A c, d \in Ids : \A m \in Held(c), n \in Held(d) :
       Key(m) = Key(n) => c = d /\ m = n
  /\ \A c \in Ids : Stored(c) \cap HandedOut(c) = {}
  /\ \A c \in Ids : InReply(c) \cap delivered[c] = {}
  /\ \A i, j \in DOMAIN selfW : selfW[i].msgs \cap selfW[j].msgs # {} => i = j

\* While the server runs no message gets lost between the fifo, the board and
\* the owner: once its last fragment was written it is queued, ready to be
\* fetched or handed out, unless it was refused.  board_server.c:241-307
NothingLost ==
  Serving =>
    \A k \in ended \ (dropped \cup Queued) :
      \E c \in Ids : \E m \in Full(Held(c)) : Key(m) = k

\* What send <id> <file> sent (Project2-S16-K24.pdf p. 2, README.txt:60) is
\* there to be fetched once all its fragments were handled.
SentIsOffered ==
  Serving =>
    \A p \in Posts : \A n \in 0 .. nextMid[p] - 1 :
      <<p, n>> \in dropped \cup Queued
        \/ \E c \in Ids : \E m \in Full(Held(c)) : Key(m) = <<p, n>>

\* Messages of one boardpost in one channel are fetched in the order they were
\* sent: no later one is handed out while an earlier one waits.
NoOvertaking ==
  \A c \in Ids : \A m \in Full(Stored(c)), d \in HandedOut(c) :
    m.pid = d.pid => d.mid < m.mid

\* A getmessages is answered, whatever the posts do meanwhile (when the walk
\* over the list and the unknown channel do not kill the server).
Answered == owner \in {"texts", "files"} ~> owner \in {"prompt", "confused"}

\* The server serves both fifos: what a boardpost wrote is handled, unless the
\* owner creates channels without end, which keeps it waiting (README.txt:34-35: the
\* loop waits for select "to read messages from the fifos").  board_server.c:122-165
CreatePending == selfR # <<>> /\ Head(selfR).op = "CR"

PostsServedOnceQuiet ==
  <>[](~ CreatePending) =>
    \A p \in Posts : \A n \in Mids :
      <<p, n>> \in Queued ~> (~ Serving \/ <<p, n>> \notin Queued)

-------------------------------------------------------------------------------
(* The refinement of the abstract bulletin board *)

KeysOf(msgs) == {Key(m) : m \in msgs}

Abstract == INSTANCE Bulletin WITH
  Messages <- Keys,
  open     <- Channels,
  offered  <- [c \in Ids |-> KeysOf(Full(Stored(c)))],
  taken    <- [c \in Ids |-> KeysOf(HandedOut(c))],
  alive    <- Serving

\* Every step of the processes is a step of the promised board or changes
\* nothing of it: fragments, fifos and replies on their way are invisible.
ImplementsBulletin == Abstract!Spec

===============================================================================
