-------------------------------- MODULE Sessions --------------------------------
(***************************************************************************)
(* How boardposts and the owner's board program enter and leave the        *)
(* system, one system call per step: the requests OO, EO, OS and ES, the   *)
(* opens of fifos that block until the other side opens, and the reads of  *)
(* the replies to list (LI) and getmessages (GM).  What the board holds is *)
(* of no concern here; a request to create a channel (CR) is, because its  *)
(* handler reuses the index of the loop over the descriptors.              *)
(*                                                                         *)
(* All boardposts read their replies from the one fifo others_w, with      *)
(* three reads for each write of the server: the length of the header, the *)
(* header, the text.  Processes may be killed (board and boardpost ignore  *)
(* SIGINT, not SIGTERM, SIGHUP or SIGKILL).                                *)
(***************************************************************************)
EXTENDS Integers, Sequences, FiniteSets, Functions

CONSTANTS
  Posts,        \* the boardpost processes, each runs once
  ListWrites,   \* how many writes a reply to list may take
  MaxSessions,  \* bound: how often the owner starts board
  MaxCreates,   \* bound: how many CR requests self_r holds at once
  MaxKills      \* bound: how many processes are killed

ASSUME SessionsAssumption ==
  /\ IsFiniteSet(Posts)
  /\ ListWrites \subseteq Nat \ {0}
  /\ MaxSessions \in Nat /\ MaxCreates \in Nat /\ MaxKills \in Nat

VARIABLES
  selfR, othersR,   \* fifos: requests to the server
  selfW,            \* fifo: number of replies to getmessages in it
  othersW,          \* fifo: what the boardposts have still to read
  pc,               \* "loop", blocked in an open, or ended
  state,            \* FALSE once a shutdown was handled
  pass,             \* fifos select reported that the pass has not reached
  boardpostnum,
  fd1,              \* how many descriptors of self_w are open for writing
  fd3,              \* whether others_w is open for writing
  post,             \* per boardpost: what it does next
  owner,            \* what the board program does next
  sessions,         \* history: how often board was started
  members,          \* history: boardposts with an OO and no EO handled
  overlapped,       \* history: two list commands were under way at once
  hasty,            \* history: a sleep was too short for the server to catch up
  kills             \* history: how many processes were killed

fifoVars   == <<selfR, othersR, selfW, othersW>>
serverVars == <<pc, state, pass, boardpostnum, fd1, fd3, members>>
userVars   == <<post, owner, sessions, overlapped, hasty, kills>>
vars == <<fifoVars, serverVars, userVars>>

Parts == {"size", "header", "text"}

\* What one write of the server holds; the header says whether it is the last.
Write(last) == << [part |-> "size", last |-> last],
                  [part |-> "header", last |-> last],
                  [part |-> "text", last |-> last] >>

\* Mutant: no write is marked as the last one.
ReplyOpenEnded(n) == [i \in 1 .. 3 * n |-> Write(FALSE)[((i - 1) % 3) + 1]]

\* A reply of n writes.
Reply(n) == [i \in 1 .. 3 * n |-> Write(i > 3 * (n - 1))[((i - 1) % 3) + 1]]

Serving == pc \notin {"down", "dead"}

\* The processes that hold others_w or self_w open for reading, or are in their
\* open: an open of the other side does not wait then.
Reading == Parts \cup {"opening", "prompt", "leaving", "eof", "confused"}
Readers == {p \in Posts : post[p] \in Reading}
OwnerReads == owner \in {"opening", "prompt", "waiting", "leaving", "eof"}

Init ==
  /\ selfR = <<>> /\ othersR = <<>> /\ selfW = 0 /\ othersW = <<>>
  /\ pc = "loop" /\ state = TRUE /\ pass = {}
  /\ boardpostnum = 0 /\ fd1 = 0 /\ fd3 = FALSE
  /\ post = [p \in Posts |-> "new"]
  /\ owner = "idle" /\ sessions = 0
  /\ members = {} /\ overlapped = FALSE /\ hasty = FALSE /\ kills = 0

-------------------------------------------------------------------------------
(* boardpost *)

PostMoves(p, from, to) ==
  /\ post[p] = from
  /\ post' = [post EXCEPT ![p] = to]

SendOthers(p, op) ==
  /\ Serving
  /\ othersR' = Append(othersR, [op |-> op, pid |-> p])
  /\ UNCHANGED <<selfR, selfW, othersW, serverVars>>

\* The server runs: open others_r and write OO.
Join(p) ==
  /\ PostMoves(p, "new", "joined")
  /\ SendOthers(p, "OO")
  /\ UNCHANGED <<owner, sessions, overlapped, hasty, kills>>

\* Mutant: a boardpost for which others_w is opened is not counted.
OpenOthersUncounted == pc' = "loop" /\ fd3' = TRUE /\ UNCHANGED boardpostnum

\* The server opens others_w, that is, its open returns.
OpenOthers ==
  /\ pc' = "loop" /\ fd3' = TRUE
  /\ boardpostnum' = boardpostnum + 1

\* The boardposts that are blocked in their open return from it.
Released == [p \in Posts |-> IF post[p] = "opening" THEN "prompt" ELSE post[p]]

\* open(others_w, O_RDONLY) blocks unless the fifo has a writer or the server is
\* blocked in its own open, which returns then.
Open(p) ==
  /\ pc # "down"
  /\ \/ PostMoves(p, "joined", "opening") /\ ~ fd3 /\ pc # "openOthers"
        /\ UNCHANGED <<pc, fd3, boardpostnum>>
     \/ PostMoves(p, "joined", "prompt") /\ fd3
        /\ UNCHANGED <<pc, fd3, boardpostnum>>
     \/ PostMoves(p, "joined", "prompt") /\ pc = "openOthers" /\ OpenOthers
  /\ UNCHANGED <<fifoVars, state, pass, fd1, members, owner, sessions, overlapped, hasty, kills>>

\* A second passes before the first command.  Nothing makes the server handle
\* the OO within it: it sleeps in ES itself and waits in its opens.
Pending(p) == [op |-> "OO", pid |-> p] \in Range(othersR)

AfterSleep(caughtUp) == hasty' = (hasty \/ ~ caughtUp)

\* list
List(p) ==
  /\ PostMoves(p, "prompt", "size")
  /\ SendOthers(p, "LI")
  /\ overlapped' = (overlapped \/ \E q \in Posts \ {p} : post[q] \in Parts)
  /\ AfterSleep(~ Pending(p))
  /\ UNCHANGED <<owner, sessions, kills>>

\* Mutant: the first write is taken for the whole reply.
NextPartFirst(part, last) ==
  CASE part = "size"   -> "header"
    [] part = "header" -> "text"
    [] part = "text"   -> "prompt"

\* One read of a reply.  Bytes that are another part than the expected one
\* give a wrong length or flag, and the program goes on with that.
NextPart(part, last) ==
  CASE part = "size"   -> "header"
    [] part = "header" -> "text"
    [] part = "text"   -> IF last THEN "prompt" ELSE "size"

ReadPart(p) ==
  /\ post[p] \in Parts
  /\ othersW # <<>>
  /\ LET got == Head(othersW)
     IN post' = [post EXCEPT ![p] = IF got.part = @ THEN NextPart(got.part, got.last)
                                    ELSE "confused"]
  /\ othersW' = Tail(othersW)
  /\ UNCHANGED <<selfR, othersR, selfW, serverVars, owner, sessions, overlapped, hasty, kills>>

\* End of file: the read returns nothing and the program goes on.
ReadEof(p) ==
  /\ post[p] \in Parts
  /\ othersW = <<>> /\ ~ fd3
  /\ post' = [post EXCEPT ![p] = "eof"]
  /\ UNCHANGED <<fifoVars, serverVars, owner, sessions, overlapped, hasty, kills>>

\* What is left in a fifo is lost when neither side has it open.
Left(buffer, readers, writer) == IF readers \/ writer THEN buffer ELSE <<>>

\* exit, and end of file on the standard input.
Exit(p) ==
  /\ PostMoves(p, "prompt", "leaving")
  /\ SendOthers(p, "EO")
  /\ AfterSleep(~ Pending(p))
  /\ UNCHANGED <<owner, sessions, overlapped, kills>>

\* After its EO the program closes its fifos.
Close(p) ==
  /\ PostMoves(p, "leaving", "left")
  /\ othersW' = Left(othersW, Readers \ {p} # {}, fd3)
  /\ UNCHANGED <<selfR, othersR, selfW, serverVars, owner, sessions, overlapped, hasty, kills>>

\* The server is gone: a write to others_r is fatal; a fifo that was removed
\* cannot be opened, and the program goes on to its first write.
PostFails(p) ==
  /\ \/ post[p] = "prompt" /\ ~ Serving
     \/ post[p] = "joined" /\ pc = "down"
  /\ post' = [post EXCEPT ![p] = "gone"]
  /\ UNCHANGED <<fifoVars, serverVars, owner, sessions, overlapped, hasty, kills>>

KillPost(p) ==
  /\ post[p] \in Reading \cup {"joined"}
  /\ kills < MaxKills
  /\ kills' = kills + 1
  /\ post' = [post EXCEPT ![p] = "gone"]
  /\ othersW' = Left(othersW, Readers \ {p} # {}, fd3)
  /\ UNCHANGED <<selfR, othersR, selfW, serverVars, owner, sessions, overlapped, hasty>>

-------------------------------------------------------------------------------
(* board *)

OwnerMoves(from, to) ==
  /\ owner = from
  /\ owner' = to
  /\ UNCHANGED <<post, overlapped>>

SendSelf(op) ==
  /\ Serving
  /\ selfR' = Append(selfR, op)
  /\ UNCHANGED <<othersR, selfW, othersW, serverVars>>

\* board finds the server running, opens self_r and writes OS.
OwnerJoin ==
  /\ OwnerMoves("idle", "joined")
  /\ sessions < MaxSessions
  /\ sessions' = sessions + 1
  /\ SendSelf("OS")
  /\ UNCHANGED <<hasty, kills>>

\* The server opens self_w; the descriptor of a session that was killed stays
\* open.
OpenSelf == pc' = "loop" /\ fd1' = fd1 + 1

\* After a second, within which the server should have closed self_w for the ES
\* of an earlier session, open(self_w, O_RDONLY), as boardposts open others_w.
OwnerOpen ==
  /\ pc # "down"
  /\ \/ OwnerMoves("joined", "opening") /\ fd1 = 0 /\ pc # "openSelf"
        /\ UNCHANGED <<pc, fd1>>
     \/ OwnerMoves("joined", "prompt") /\ fd1 > 0 /\ pc # "openSelf"
        /\ UNCHANGED <<pc, fd1>>
     \/ OwnerMoves("joined", "prompt") /\ pc = "openSelf" /\ OpenSelf
  /\ AfterSleep(Len(selfR) <= 1)
  /\ UNCHANGED <<fifoVars, state, pass, boardpostnum, fd3, members, sessions, kills>>

\* createchannel <id> <title>: nothing is read back, and the next may follow.
Creates == {i \in DOMAIN selfR : selfR[i] = "CR"}

CreateChannel ==
  /\ OwnerMoves("prompt", "prompt")
  /\ Cardinality(Creates) < MaxCreates
  /\ SendSelf("CR")
  /\ UNCHANGED <<sessions, hasty, kills>>

GetMessages == OwnerMoves("prompt", "waiting") /\ SendSelf("GM")
               /\ UNCHANGED <<sessions, hasty, kills>>

ReadReply ==
  /\ OwnerMoves("waiting", "prompt")
  /\ selfW > 0
  /\ selfW' = selfW - 1
  /\ UNCHANGED <<selfR, othersR, othersW, serverVars, sessions, hasty, kills>>

OwnerEof ==
  /\ OwnerMoves("waiting", "eof")
  /\ selfW = 0 /\ fd1 = 0
  /\ UNCHANGED <<fifoVars, serverVars, sessions, hasty, kills>>

OwnerExit == OwnerMoves("prompt", "leaving") /\ SendSelf("ES")
             /\ UNCHANGED <<sessions, hasty, kills>>

OwnerClose ==
  /\ OwnerMoves("leaving", "idle")
  /\ selfW' = IF fd1 > 0 THEN selfW ELSE 0
  /\ UNCHANGED <<selfR, othersR, othersW, serverVars, sessions, hasty, kills>>

Shutdown == OwnerMoves("prompt", "gone") /\ SendSelf("SH")
            /\ UNCHANGED <<sessions, hasty, kills>>

OwnerFails ==
  /\ \/ OwnerMoves("prompt", "gone") /\ ~ Serving
     \/ OwnerMoves("joined", "gone") /\ pc = "down"
  /\ UNCHANGED <<fifoVars, serverVars, sessions, hasty, kills>>

KillOwner ==
  /\ owner # "idle" /\ owner # "gone"
  /\ OwnerMoves(owner, "idle")
  /\ kills < MaxKills
  /\ kills' = kills + 1
  /\ selfW' = IF fd1 > 0 THEN selfW ELSE 0
  /\ UNCHANGED <<selfR, othersR, othersW, serverVars, sessions, hasty>>

-------------------------------------------------------------------------------
(* board_server *)

Waiting == (IF selfR = <<>> THEN {} ELSE {"self"}) \cup
           (IF othersR = <<>> THEN {} ELSE {"others"})

Select ==
  /\ pc = "loop" /\ state /\ pass = {}
  /\ Waiting # {}
  /\ pass' = Waiting
  /\ UNCHANGED <<fifoVars, pc, state, boardpostnum, fd1, fd3, members, userVars>>

\* self_r has the lower descriptor: it comes first in a pass.  When its request is
\* handled the pass goes on with the fifos in rest.
TakeSelf(op, rest) ==
  /\ pc = "loop" /\ "self" \in pass
  /\ Head(selfR) = op
  /\ selfR' = Tail(selfR)
  /\ pass' = rest
  /\ UNCHANGED <<othersR, othersW, post, sessions, overlapped, hasty, kills>>

TakeOthers(op) ==
  /\ pc = "loop" /\ pass = {"others"}
  /\ Head(othersR).op = op
  /\ othersR' = Tail(othersR)
  /\ pass' = {}
  /\ UNCHANGED <<selfR, selfW, owner, sessions, overlapped, hasty, kills>>

\* The index that went through the header in search of the title is 6 or more when
\* the loop goes on, behind others_r, the second descriptor the server opens.
HandleCR ==
  /\ TakeSelf("CR", {})
  /\ UNCHANGED <<selfW, pc, state, boardpostnum, fd1, fd3, members, owner>>

\* The other handlers leave the index alone: others_r may follow.
RestOfPass == pass \ {"self"}

\* A write to a fifo that nobody reads (SIGPIPE) or to a closed descriptor:
\* the server is dead, its descriptors are closed.
Die ==
  /\ pc' = "dead"
  /\ fd1' = 0 /\ fd3' = FALSE

\* Mutant: self_w is not opened.
HandleOSNoOpen ==
  /\ TakeSelf("OS", RestOfPass)
  /\ UNCHANGED <<selfW, pc, state, boardpostnum, fd1, fd3, members, owner>>

\* open(self_w, O_WRONLY) returns when board has it open or is in its open.
HandleOS ==
  /\ TakeSelf("OS", RestOfPass)
  /\ \/ OwnerReads /\ OpenSelf
        /\ owner' = IF owner = "opening" THEN "prompt" ELSE owner
     \/ ~ OwnerReads /\ pc' = "openSelf" /\ UNCHANGED <<fd1, owner>>
  /\ UNCHANGED <<selfW, state, boardpostnum, fd3, members>>

\* Mutant: the session is taken for one of a boardpost.
HandleESAsEO ==
  /\ TakeSelf("ES", RestOfPass)
  /\ boardpostnum' = boardpostnum - 1
  /\ UNCHANGED <<selfW, pc, state, fd1, fd3, members, owner>>

HandleES ==
  /\ TakeSelf("ES", RestOfPass)
  /\ fd1' = fd1 - 1
  /\ selfW' = IF OwnerReads \/ fd1' > 0 THEN selfW ELSE 0
  /\ UNCHANGED <<pc, state, boardpostnum, fd3, members, owner>>

HandleSH ==
  /\ TakeSelf("SH", RestOfPass)
  /\ state' = FALSE
  /\ UNCHANGED <<selfW, pc, boardpostnum, fd1, fd3, members, owner>>

HandleGM ==
  /\ TakeSelf("GM", RestOfPass)
  /\ \/ fd1 > 0 /\ OwnerReads /\ selfW' = selfW + 1 /\ UNCHANGED <<pc, fd1, fd3>>
     \/ (fd1 = 0 \/ ~ OwnerReads) /\ Die /\ UNCHANGED selfW
  /\ UNCHANGED <<state, boardpostnum, members, owner>>

\* Mutant: others_w is opened again for each boardpost but not for the first.
HandleOOLater ==
  /\ TakeOthers("OO")
  /\ members' = members \cup {Head(othersR).pid}
  /\ \/ boardpostnum = 0 /\ boardpostnum' = boardpostnum + 1 /\ UNCHANGED <<pc, fd3, post>>
     \/ boardpostnum # 0 /\ Readers # {} /\ OpenOthers /\ post' = Released
     \/ boardpostnum # 0 /\ Readers = {} /\ pc' = "openOthers"
        /\ UNCHANGED <<boardpostnum, fd3, post>>
  /\ UNCHANGED <<othersW, state, fd1>>

\* The first boardpost makes the server open others_w.
HandleOO ==
  /\ TakeOthers("OO")
  /\ members' = members \cup {Head(othersR).pid}
  /\ \/ boardpostnum # 0 /\ boardpostnum' = boardpostnum + 1 /\ UNCHANGED <<pc, fd3, post>>
     \/ boardpostnum = 0 /\ Readers # {} /\ OpenOthers /\ post' = Released
     \/ boardpostnum = 0 /\ Readers = {} /\ pc' = "openOthers"
        /\ UNCHANGED <<boardpostnum, fd3, post>>
  /\ UNCHANGED <<othersW, state, fd1>>

\* Mutant: others_w is closed when any boardpost leaves.
HandleEOAny ==
  /\ TakeOthers("EO")
  /\ members' = members \ {Head(othersR).pid}
  /\ boardpostnum' = boardpostnum - 1
  /\ fd3' = FALSE
  /\ othersW' = Left(othersW, Readers # {}, FALSE)
  /\ UNCHANGED <<post, pc, state, fd1>>

\* The last one makes it close others_w.
HandleEO ==
  /\ TakeOthers("EO")
  /\ members' = members \ {Head(othersR).pid}
  /\ boardpostnum' = boardpostnum - 1
  /\ fd3' = (fd3 /\ boardpostnum' # 0)
  /\ othersW' = Left(othersW, Readers # {}, fd3')
  /\ UNCHANGED <<post, pc, state, fd1>>

HandleLI ==
  /\ TakeOthers("LI")
  /\ \/ /\ fd3 /\ Readers # {}
        /\ \E n \in ListWrites : othersW' = othersW \o Reply(n)
        /\ UNCHANGED <<pc, fd1, fd3>>
     \/ (~ fd3 \/ Readers = {}) /\ Die /\ UNCHANGED othersW
  /\ UNCHANGED <<post, state, boardpostnum, members>>

\* The end: the fifos are removed, requests in them are lost.
Stop ==
  /\ pc = "loop" /\ ~ state /\ pass = {}
  /\ pc' = "down"
  /\ fd1' = 0 /\ fd3' = FALSE
  /\ selfR' = <<>> /\ othersR' = <<>>
  /\ othersW' = Left(othersW, Readers # {}, FALSE)
  /\ selfW' = IF OwnerReads THEN selfW ELSE 0
  /\ UNCHANGED <<state, pass, boardpostnum, members, userVars>>

-------------------------------------------------------------------------------
PostStep(p) ==
  Join(p) \/ Open(p) \/ List(p) \/ ReadPart(p) \/ ReadEof(p)
    \/ Exit(p) \/ Close(p) \/ PostFails(p) \/ KillPost(p)

OwnerStep ==
  OwnerJoin \/ OwnerOpen \/ CreateChannel \/ GetMessages \/ ReadReply \/ OwnerEof
    \/ OwnerExit \/ OwnerClose \/ Shutdown \/ OwnerFails \/ KillOwner

ServerStep ==
  Select \/ HandleCR \/ HandleOS \/ HandleES \/ HandleSH \/ HandleGM
    \/ HandleOO \/ HandleEO \/ HandleLI \/ Stop

Next == (\E p \in Posts : PostStep(p)) \/ OwnerStep \/ ServerStep

\* The server, a process in its opens and one that waits for a reply are
\* scheduled; commands and kills are not fair.
Fairness ==
  /\ WF_vars(ServerStep)
  /\ WF_vars(OwnerOpen \/ ReadReply \/ OwnerEof \/ OwnerClose)
  /\ \A p \in Posts :
       WF_vars(Open(p) \/ ReadPart(p) \/ ReadEof(p) \/ Close(p))

Spec == Init /\ [][Next]_vars

FairSpec == Spec /\ Fairness

-------------------------------------------------------------------------------
(* Properties *)

\* Every variable holds what the code can put there.
SessionsTypeOK ==
  /\ selfR \in Seq({"OS", "ES", "CR", "GM", "SH"})
  /\ othersR \in Seq([op : {"OO", "EO", "LI"}, pid : Posts])
  /\ selfW \in Nat
  /\ othersW \in Seq([part : Parts, last : BOOLEAN])
  /\ pc \in {"loop", "openSelf", "openOthers", "down", "dead"}
  /\ state \in BOOLEAN
  /\ pass \subseteq {"self", "others"}
  /\ boardpostnum \in Nat
  /\ fd1 \in Nat
  /\ fd3 \in BOOLEAN
  /\ post \in [Posts -> {"new", "joined", "left", "gone"} \cup Reading]
  /\ owner \in {"idle", "joined", "opening", "prompt", "waiting", "leaving", "eof", "gone"}
  /\ sessions \in Nat
  /\ members \subseteq Posts
  /\ overlapped \in BOOLEAN /\ hasty \in BOOLEAN
  /\ kills \in 0 .. MaxKills

\* boardpostnum counts the boardposts whose OO was handled and whose EO was not,
\* killed ones included, and others_w is open for writing just while there are
\* any.  board_server.c:176-190
CountsMembers ==
  Serving =>
    /\ Cardinality(members) = boardpostnum + (IF pc = "openOthers" THEN 1 ELSE 0)
    /\ fd3 <=> boardpostnum > 0

\* As long as nobody is killed the server never writes to a fifo that nobody
\* reads or that it has closed: the writers of LI and GM are still there when
\* the answer is written.  board_server.c:204, 272
NoBrokenPipe == kills = 0 => pc # "dead"

\* A boardpost that is alone with its list reads its whole reply and nothing
\* else, whatever the others and the owner do meanwhile, as long as nobody is
\* killed and the sleeps are long enough.  boardpost.c:175-233
OwnReplyAlone ==
  kills = 0 /\ ~ hasty /\ ~ overlapped =>
    /\ \A p \in Posts : post[p] # "confused" /\ (post[p] = "eof" => ~ Serving)
    /\ (\A p \in Posts : post[p] \notin Parts) => othersW = <<>>

\* The headers are there to avoid errors for lack of synchronisation
\* (README.txt:36-38): a boardpost that is alone with its list reads its reply.
ReadsInFrame ==
  Serving /\ ~ overlapped => \A p \in Posts : post[p] \notin {"eof", "confused"}

Undisturbed == [](kills = 0 /\ ~ hasty)

\* A pass that handles a CR ends before others_r: an owner who never stops creating
\* channels shuts the boardposts out.
CreatesEnd == <>[][~ CreateChannel]_vars

\* If nobody is killed, the sleeps are long enough and the creates end, a boardpost
\* that opens others_w is let in unless the server stops.
\* boardpost.c:101, board_server.c:153, 178
LetIn ==
  Undisturbed /\ CreatesEnd => \A p \in Posts : post[p] = "opening" ~> (post[p] # "opening" \/ ~ Serving)

\* The owner is let in and answered whatever the boardposts do, if nobody is killed
\* and the sleeps are long enough.  board.c:108, 190
OwnerServed ==
  Undisturbed => owner \in {"opening", "waiting"} ~> owner = "prompt"

\* If under the premises of LetIn lists do not overlap either, a list comes to its
\* end unless the server stops.  boardpost.c:200-230, board_server.c:153
ListEnds ==
  Undisturbed /\ CreatesEnd /\ [](~ overlapped) =>
    \A p \in Posts : post[p] \in Parts ~> (post[p] = "prompt" \/ ~ Serving)

\* The server waits in select for requests of either side (README.txt:35-36) and does not
\* block for ever on one of them (Project2-S16-K24.pdf page 4): the owner's getmessages
\* is answered.
OwnerAnswered == owner = "waiting" ~> (owner # "waiting" \/ ~ Serving)

===============================================================================
