# Verification of the bulletin board

TLA+ modules, TLC runs and TLAPS proofs for the programs `board`,
`boardpost` and `board_server` (C, one source file each, on top of `boardb.c`,
`list.c` and `element.c`).

## 1. Inventory

### The parts and how they interact

    board (the owner) --self_r--> board_server <--others_r-- boardpost, boardpost, ...
                      <--self_w--      |        --others_w-->  (read by all of them)
                                    boardb.c
                              list.c, element.c

| part | state | operations |
|---|---|---|
| `boardb.c` | channels, per channel a list of messages and a counter `out`; per message its identity, flag `full`, received bytes | `ginsert`, `add_message_d`, `get_ready_messages`, `get_ready_files`, `get_channel_names`, `remove_message_d`, `delete_gchannel` |
| `list.c`, `element.c` | linked list with `front`, `end`, `size` | `insert`, `delete`, `pop_back`, `in`, `get_node` |
| `board_server` | the board, the set `select` returned, the loop index `i`, `boardpostnum`, two write descriptors, `state` | requests CR, SH, OS, ES, GM on `self_r`; OO, EO, LI, WR on `others_r` |
| `boardpost` | message number `messagesid`, the file being sent | `write`, `send`, `list`, `exit` |
| `board` | what it waits for; the files it writes | starts a server when it finds none; `createchannel`, `getmessages`, `shutdown`, `exit` |
| `boardcheck.sh` | none | looks at `_spid`, the fifos and `ps`, and reports a directory as active or not |

The programs share nothing but four fifos and the file `_spid`. A request is a
ten-character length, a header and, for WR, a fragment. It is written by one
`write` of at most 512 bytes, which a fifo takes as a whole (`PIPE_BUF` is
4096), so requests of several processes never mix. The server is one thread:
`select`, then a loop over the descriptors in ascending order, at most one
request of each in a pass.

### What is hard

* The fragments of several boardposts arrive interleaved, and a message is put
  together again from `(mid, pid, type, msgsize, time)` alone.
* A channel may be created while a file for it is being sent.
* The CR handler reuses the index of the loop it runs in.
* `get_ready_*` delete nodes from the list they walk and then read the deleted
  node; what the reads return depends on the allocator.
* `filessize` stays unset for an unknown channel.
* The last fragment of a file is recognised by a short read.
* Opening a fifo for writing blocks; all boardposts read their replies from the
  same fifo; sessions are synchronised by `sleep(1)`.
* `_spid` is truncated, written, and only then the fifos are made, one by one; a
  killed server leaves all of them. Two boards may start a server at once, and
  nothing but a failing `mkfifo` stands between two servers.
* Requests hold 384 bytes, replies 448 per part or 497 in one write, and both ends
  recognise the last part by being short; exact multiples are the edge.
* `list.c` keeps `front`, `end`, `size` and the pointers of its loops by hand.

`PROJECT.json` lists the hazards line by line, with the properties that cover
them.

### What makes each part correct

* Store: one record per message; a fragment extends the record it belongs to;
  a fetch takes exactly the full messages; no channel is freed with messages in it.
* Server: a descriptor is read only when it has something; every request is
  handled; every getmessages is answered, in two parts, from one board.
* Posting as a whole: no message is duplicated, lost, mixed with another or
  overtaken by a later one of the same sender; the owner sees an ordinary
  bulletin board.
* Sessions: a reply reaches the boardpost that asked; nobody waits for ever.
* Start and end: one server per directory, whose fifos stay in place while it
  serves; who gives up for want of a server is right; a shutdown leaves the
  directory ready for the next one.
* Transfer: what is put together is what was sent, within every buffer, and ends.
* Lists: the pointers are a sequence at every moment; the walk that deletes from
  the list it walks sees all of it.

## 2. Modules

| module | what it is |
|---|---|
| `BoardStore` | the board of `boardb.c` and its operations, as operators on one variable |
| `Posting` | boardposts, owner and server on the two request fifos and `self_w`, around `BoardStore` |
| `Bulletin` | the abstract bulletin board: create, publish, take, end |
| `PostingInv`, `SessionsInv`, `ChannelListInv`, `TransferInv` | the inductive invariants |
| `MCPosting` | constants for TLC |
| `Sessions`, `MCSessions` | entering and leaving, the opens that block, the reads of list replies, killed processes |
| `BoardLibrary` | `boardb.h` called in any order, the part the server never calls included |
| `MCBoardLibrary` | constants for TLC |
| `Startup`, `MCStartup` | how a directory gets its server and loses it: `board`, `boardpost`, `boardcheck.sh`, kills |
| `Transfer`, `MCTransfer` | the bytes: `send`, the record, the division of replies, their reassembly, the files saved |
| `Prefixes` | what is made of a sequence from its front on: chosen elements, sums |
| `ListSpec` | the abstract list: a sequence |
| `ChannelList`, `MCChannelList` | `list.c` with nodes and pointers, and the deleting walk of `boardb.c` |
| `BoardStoreProofs`, `PostingProofs`, `BoardLibraryProofs`, `StartupProofs`, `SessionsProofs`, `ChannelListProofs`, `TransferProofs` | theorems |
| `RecursionProofs` | induction, and what follows from it for the functions of `Prefixes` |

### BoardStore

`board` maps the id of each existing channel to its messages and its counter.
Channels are found by id alone (`chcmp` of the server), so a map is faithful.
The order of a list decides only the layout of one reply and is left out. A
message's `body` is the sequence of the numbers of the fragments that were
copied into its buffer, in that order; a fragment is the unit of size, so
`rcvd` is `Len(body)` and `msgsize` the number of fragments. `fst_msg_tm` is
the same in all fragments of a message and is left out; `pid` and `mid` tell
messages apart without it as long as the system does not reuse the pid of an
ended boardpost.

### Posting

| variable | code |
|---|---|
| `selfR`, `othersR`, `selfW` | contents of the fifos, one element per request or reply |
| `server` | `run`; `stopping` once SH set `state` to 0; `down` after the clean end; `failed` after `exit(READ_FAIL)`; `crashed` after a wild read |
| `readFds`, `scan` | `read_fds` and the index `i` of the loop |
| `job`, `nextMid` | the `send` loop of a boardpost and its `messagesid` |
| `owner` | the prompt of `board`, or the reply it is reading |
| `delivered`, `dropped`, `ended` | history, used by properties only |

Each step of the server is one whole handler, its reads included: the server is
the only reader of its fifos. `HandleGM` fetches texts and files and answers
both; no other request can be handled between these calls. Each undefined
behaviour is a choice over what the build can produce, given as a constant:

* `FreedRead`: the `next` field of a node that was just freed is *kept*, or was
  *reused* by the allocator, and following it ends the server
  (`HandleGMCrash`), in the texts before anything was answered or in the files
  after the texts were.
* `UnsetSize`: `filessize` happens to be *zero*, or it is *garbage* and the
  copy that uses it ends the server (`HandleGMUnknown`).

A reply leaves in one step although the code may need several writes: only
the owner reads `self_w`, and it does nothing else until it has the whole reply.
`ReadEof` is the end: a program that reads end of file goes on with what its
buffers held, and nothing is claimed of it.

`StartSend` with a file of no fragments is an empty file and also a file that
cannot be opened: the loop sends nothing and the number is used up.

`Posting` starts with the sessions open. Opening and closing them is the
subject of `Sessions`.

### Sessions

The same processes seen from the other side: requests carry no messages, but
every system call that can block or fail is a step.

| variable | code |
|---|---|
| `selfR`, `othersR` | requests in the fifos |
| `selfW`, `othersW` | replies; in `othersW` one element per read of the reader: length, header, text |
| `pc` | the loop, the two opens in which the server can block, `down` after the clean end, `dead` after SIGPIPE or `exit` |
| `pass` | fifos `select` reported and the pass has not reached, `self_r` first |
| `boardpostnum`, `fd1`, `fd3` | the count; how many descriptors of `self_w` are open (one more after a session that was killed); whether `others_w` is open |
| `post`, `owner` | what each program does next |
| `members`, `overlapped`, `hasty`, `kills`, `sessions` | history |

Two opens of one fifo from its two sides meet in one step: the one that
comes second finds the first, and both return (`Open`, `HandleOO`, `OwnerOpen`,
`HandleOS`). A reply is written in one step, since the server does nothing else
before it is out; that a full fifo can stop it there is left to `Transfer`.

Of CR only what it does to the loop matters here. `HandleCR` leaves the index at 5 or
more, and the loop goes on behind it. The server opens `self_r` and `others_r` first, as
descriptors 3 and 4, so the pass ends (`TakeSelf` with nothing left); after the other
requests `others_r` may follow (`RestOfPass`). A server that is started with more
descriptors open, where the index may come back to `self_r`, is in `Posting`.

`sleep(1)` takes no time here: what the programs do after it may come at any
moment. The history `hasty` records that the server had not caught up by then,
that is, that a boardpost gave its first command before its OO was handled, or that
`board` opened `self_w` while the ES of the session before was waiting. Properties
that rely on the sleeps assume `~ hasty`; `overlapped` records two list
commands at once, of which each may read parts of the other's reply. A program
that read end of file (`eof`) or a wrong part (`confused`) goes on with garbage and is
not followed.

### Bulletin

The promise, without processes: a message is offered in one channel at most
once, a fetch takes everything the channel offers, taken is taken, and the end
of the server loses what was offered. `Posting` maps `open` to the existing
channels, `offered` to the full messages stored, `taken` to those in a reply or
delivered, `alive` to `Serving`. Fragments, fifos and partly received files are
invisible.

### BoardLibrary

Every operation of `boardb.h` that changes a board, in any order. The caller
hands over each message in order and interleaves messages as it likes.

### Startup

One system call per step. A board process forks at most one server, so a server
and its pid are named by the board that forks it; a fifo is named by the server
that created it, since a path that is removed and made again is another fifo.

| variable | code |
|---|---|
| `spid` | `_spid`: absent, `Empty` between `fopen(.., "w")` and `fclose`, or a pid |
| `fifo` | the four paths in the order of `fn[]` |
| `server`, `step` | where a server stands; how many paths it has made or removed |
| `holds` | its open read ends of `self_r` and `others_r` |
| `asked` | SH requests waiting in a `self_r` |
| `user`, `seen`, `conn` | where a program stands, the pid it has read, the fifo it has open or waits to open |
| `since`, `raced`, `hasty`, `kills` | history |

`IsServer` is the comparison of `/proc/<pid>/comm`; it is true of a zombie, and a
server that ended is one until its board ends, since nobody calls `wait`.
`boardcheck.sh` asks `ps`, which prints another name for a zombie. `ReadSpid` of
an empty file leaves the pid unset: any pid, or none.

Histories: `since` is the server that has served without a break since a
program's first look. `raced` becomes true when a board looks while another one is
between its look and the moment its server is named. `hasty` becomes true when
`board` opens `self_r` before a server has finished starting, or a server is killed
while one starts or a board sleeps: what `sleep(1)` is there to prevent.

Assumed: `fork` and `exec` of `./board_server` succeed; the pid of an ended server is
not reused by the server of another directory; two servers that write `_spid` at once
write pids of as many digits. The commands after the open of `self_r` or
`others_r` are the subject of `Sessions`. `SH` is the only one here.

### Transfer

The sizes are those of the code (`MSG_SIZE` 512, 448 per part of a reply, 384 per
request). Bytes are known by where they come from: a part is a position and a
size in a text, a file with its name in front, or the files of a reply. A write is
shorter than `PIPE_BUF` and so atomic; length, header and part are read in one step.

| variable | code |
|---|---|
| `sending`, `mid` | the `send` loop: `st_size` and name, `messagesid` |
| `requests`, `pipe` | the parts in `others_r`, and in `self_w` or `others_w`; each fifo holds `PipeParts` |
| `store` | the channel's list, front first |
| `server`, `out`, `ended` | the text or the files it replies, how far it is; whether `tmpmsg2[448]` holds a terminator |
| `client`, `command`, `list`, `offset` | `board` in `getmessages` or `boardpost` in `list`: the parts put together, the records saved |
| `disk` | per name, the writes of which the file still shows bytes, each with its message and its size |
| `answer`, `asks` | history |

`strncpy` writes no terminator behind a full part. The code sets one only while
more than a part is left, so a text that fills exactly one part would be measured by
`strlen` beyond it. `PartLengths` is that choice; `ReplyWhole` shows
that a text long enough to be divided has set the terminator before.

Sums and selections are the functions of `Prefixes` and not `FoldSeq` and `SelectSeq`,
which the provers cannot see into. Sizes are numbers without bound; in the code they
are `int`, and nothing is said of files of 2 GB and more.

`board` opens a file with neither `O_EXCL` nor `O_TRUNC` and writes it from its first
byte on. So a write hides the earlier ones that are not longer, and a longer one shows
behind it (`Overwritten`): each byte of a file belongs to the shortest write on `disk`
that reaches it. `FirstSentInFront` says what comes of that for two files of one name.

A text of exactly 497 bytes passes the test for one write, and its terminator is written
one byte behind `tmpmsg` (finding 5). What that overwrites depends on the build; so
`Transfer.cfg` has no such text and the theorems assume there is none (`TextsFit`).

Left out: a file that changes between `stat` and `read`. One program asks at a time;
two that read one fifo are in `Sessions`.

### ListSpec and ChannelList

Nodes are addresses with `data` and `next`; each iteration of a loop is a step.
`ListSpec` is the sequence `list.h` promises, `ChannelList` maps it to the data along
`next` from `front`. An element's data is allocated and freed with its node.

`list.h:22` says of `delete` that it "deletes a node"; the code deletes each one that
matches, and so `ListSpec` takes a delete for any number of removals of one occurrence.
The lists of the board hold no two elements that match, so there it makes no difference.

`delete` goes on after the first match and leaves `prev` where it was, which may be
the freed node. `Fetch`, `Visit`, `Step` are the second loop of `get_ready_messages`
and `get_ready_files`; it needs distinct elements, which the library provides by asking
`in` before it inserts. `Step` may read `next` of a freed node: *kept*, as with
an allocator that leaves the second word alone, or *lost*, and the server dies
(`StepLost`), as with one that keeps its own pointers there (glibc since 2.26).

## 3. Runs

| run | properties | shows |
|---|---|---|
| `Posting.cfg` | TypeOK NoReadFail FullIsWhole OneCopy NothingLost NoOvertaking IInv | one channel, two boardposts, two messages each, texts and files of two fragments, every outcome of the undefined behaviours; the inductive invariant holds |
| `PostingChannels.cfg` | ImplementsBulletin Answered PostsServedOnceQuiet | two channels; files of zero, one (exact) and two fragments; descriptors 7 and 8, so that the moved index can come back to `self_r`; the fair specification |
| `PostingExactFile.cfg` | SentIsOffered *violated* | finding 1 |
| `Sessions.cfg` | SessionsTypeOK CountsMembers NoBrokenPipe OwnReplyAlone LetIn OwnerServed ListEnds | two boardposts, two sessions of the owner, channels created, replies of one or two writes, one process killed anywhere |
| `SessionsLateClose.cfg` | ReadsInFrame *violated* | finding 2, nobody killed |
| `SessionsBlocked.cfg` | OwnerAnswered *violated* | finding 3 |
| `BoardLibrary.cfg` | LibTypeOK OneRecord DeleteLosesNothing | one channel, up to four messages of one or two fragments |
| `Startup.cfg` | StartupTypeOK OneServer OwnFifos RefusedRightly CleanAfterStop BoardStarts ShutdownEnds | two boards, and a process that is a boardpost or a run of `boardcheck.sh`; one server killed anywhere |
| `StartupRestart.cfg` | BoardNotStuck *violated* | finding 4 |
| `Transfer.cfg` | TransferTypeOK ReplyWhole OfferedWhole NoOverrun FirstSentInFront AskEnds SendEnds | both sides of each size at which a comparison of the code turns over, a text of 497 bytes excepted; fifos that hold one part |
| `TransferFullText.cfg` | TextFits *violated* | finding 5 |
| `ChannelList.cfg` | ListTypeOK WellFormed PrevBeforeTodel FetchComplete LoopsEnd ImplementsSequence | three addresses, three elements, repeated ones included |

**Bounds.** `Posts`: two senders are the least that interleave, and the code
compares pids only for equality, so more of them repeat what two do. `MaxMid`:
two messages give an earlier and a later one of the same sender, what
`NoOvertaking` and the identity need. Two fragments give a first, a last and a
gap between them; one exact fragment gives the file without a short read.
`PipeCap` = 2 lets a fifo be empty, in between and full. `Ids`: one channel
that exists or not, two where a message could get into the wrong one.
`CrResume` = 5 is the shortest CR header (`"CR 1 "`); with descriptors 3 and 4
the index skips `others_r`, with 7 and 8 it returns to `self_r`. `MaxOut` ends
the counter of `BoardLibrary`. In `Sessions`, two boardposts give one that enters
while the other is last to leave, `MaxSessions` = 2 a session after one that
was killed, `MaxKills` = 1 each single failure, and a reply of two writes one
that goes on after the first text. `MaxCreates` = 1 bounds the CR requests that wait, not
how many there are: the owner may write the next one whenever `self_r` holds none, which
is enough to have one in every pass.

In `Startup`, two boards race, and give a server before and one after a kill or a
shutdown; one looker is enough, because lookers do not affect each other. In
`Transfer`, a name of one byte and the sizes of `MCTransfer` put every `<`, `<=` and
multiple on both of its sides (373 bytes fill a request, 427 a part, 476 one
write; texts of 896 fill two parts; 497 is in `TransferFullText.cfg`); two files give an
answer of two records, and one file over another, two asks a reply after another,
`PipeParts` = 1 the most waiting. In `ChannelList`
three nodes give a front, a middle and an end; the run with four nodes passes too and
is left out for its time.

Boardposts are interchangeable, so `Posting.cfg` and `BoardLibrary.cfg` use
symmetry; the runs on liveness and refinement do not. Deadlock is not checked: the system may
stop, when the server is gone or the users type nothing more.

**Fairness.** `FairSpec` assumes that the server is scheduled
(`WF` of `ServerStep`), that a `board` that waits for a reply reads it when it
is there, and that a boardpost in its `send` loop goes on. These are processes that
run without waiting for anybody else. No fairness is assumed of what the users
type. `WF` of the server as one process
says nothing of which fifo is served first: after CR the index stands behind
`others_r`, and an owner who never stops creating channels keeps the boardposts
waiting. `PostsServedOnceQuiet`, `LetIn` and `ListEnds` therefore assume that
the creates end (`CreatesEnd`). In
`Sessions` the programs that are in an open or wait for a reply are fair too, each by
itself; commands and kills are not. In `Startup` each server is fair, and each board
once it has been started. In `Transfer` the boardpost in `send`, the server and the
program that reads a reply are; calls are bounded, so no fifo is busy for ever. In
`ChannelList` the loop that runs is.

### Findings

1. A file whose last fragment exactly fills the buffer never carries flag 'y'
   (`boardpost.c:290`) and is never offered.
2. The EO of the last boardpost closes `others_w` although another one has it
   open already and its OO is next in the fifo; that one reads end of file
   instead of its list (`board_server.c:187`). It takes a server that is busy for
   more than the second the newcomer sleeps: ES alone sleeps for one, and OS waits
   for another.
3. A boardpost killed between its OO and its open leaves the server blocked in
   `open(others_w)` (`board_server.c:178`).
4. A killed server leaves its fifos. The next one fails at `mkfifo`, and the
   board that started it blocks in `open(self_r)`, where no reader will come
   (`board_server.c:84`). It takes somebody to remove the fifos by hand.
5. A text of 497 bytes is sent in one write and fills `tmpmsg`; the terminator is written
   one byte behind it (`board_server.c:203`, 271).

Without a run of their own, but visible in the premises and exceptions of properties that
are checked:

* A channel created in the middle of a `send` makes a message of the file's tail that is
  marked full, though `boardb.c:28` says "y if full" (the exception `dropped` of `FullIsWhole`).
* CR moves the index of the loop behind `others_r` (`board_server.c:153`): an owner who keeps
  creating channels starves the boardposts, and a new one stays in its open (the premise
  `CreatesEnd` of `LetIn` and `ListEnds`, both of which TLC refutes without it).
* `board` saves files of one name over each other (`board.c:285`, 351), where the assignment
  (`Project2-S16-K24.pdf`, page 2) wants a suffix: the one sent last is lost, or its tail
  shows behind the one sent first (`FirstSentInFront`).
* Two boards that look for a server at once may leave `_spid` with the pid of the server
  that failed, and boardposts are refused then (the premise `~ raced` of `RefusedRightly`).
* Lists that overlap mix (the premise of `OwnReplyAlone`).
* Fetches do not count `out` down, so `delete_gchannel`, which the programs never call,
  refuses a channel that was drained (`boardb.c:270`; `DeleteLosesNothing` bounds the counter
  from one side only).
* `delete` removes every match, not "a node" (`list.h:22`; see `ListSpec`).

## 4. Proofs

Every theorem holds for all values of the constants that the assumptions named in the
modules admit. These are:

* `Posting` and `BoardLibrary`: any `Posts`, `Ids`, `MaxMid`, `PipeCap`, files and choices
  of the undefined behaviours (`BoundAssumption`, `BuildAssumption`, `SizesAssumption`); the
  descriptors are numbers and `self_r` is opened first (`FdAssumption`).
* `Startup`: any `Boards`, `Posts`, `Checks` and `MaxKills` (`StartupAssumption`).
* `Sessions`: any finite set of `Posts`, any numbers of sessions, creates and kills, replies
  of any number of writes (`SessionsAssumption`).
* `ChannelList`: any finite set of addresses, any elements, both outcomes of the freed read
  (`ListAssumption`).
* `Transfer`: files of every size, names of 1 to 63 bytes, fifos of any length, any number
  of sends and asks (`TransferAssumption`). Each theorem has the premise `TextsFit`, that no
  text has 497 bytes; `NoOverrun` is false without it.

| theorem | statement |
|---|---|
| `TypeCorrect` | `Spec => []TypeOK` |
| `NeverReadsEmpty` | `Spec => []NoReadFail` |
| `NoDuplicates` | `Spec => []OneCopy` |
| `FetchedInOrder` | `Spec => []NoOvertaking` |
| `MessagesAreWhole`, `NothingIsLost` | `Spec => []FullIsWhole`, `Spec => []NothingLost` |
| `InvariantHolds` | `Spec => []IInv` |
| `Refinement` | `Spec => ImplementsBulletin` |
| `LibTypeCorrect`, `OneRecordPerMessage` | `Spec => []LibTypeOK`, `Spec => []OneRecord` of `BoardLibrary` |
| `NothingFreedWithChannel` | `Spec => DeleteLosesNothing` |
| `StartupTypeCorrect`, `FifosStay`, `OneServerServes` | `Spec => []StartupTypeOK`, `[]OwnFifos`, `[]OneServer` of `Startup` |
| `RefusedOnlyWithoutServer`, `StopsLeaveNoFifo` | `Spec => []RefusedRightly`, `Spec => []CleanAfterStop` |
| `SessionsTypes`, `MembersCounted` | `Spec => []SessionsTypeOK`, `Spec => []CountsMembers` of `Sessions` |
| `PipesHold`, `ReplyIsOwn` | `Spec => []NoBrokenPipe`, `Spec => []OwnReplyAlone` |
| `ListInvariant`, `ListTypes`, `ListsWellFormed` | `Spec => []CInv`, `[]ListTypeOK`, `[]WellFormed` of `ChannelList` |
| `PrevStays`, `WalkComplete` | `Spec => []PrevBeforeTodel`, `Spec => []FetchComplete` |
| `ListRefinement` | `Spec => ImplementsSequence` |
| `TransferTypes`, `RepliesWhole` | `Spec => []TransferTypeOK`, `Spec => []ReplyWhole` of `Transfer` |
| `OffersWhole`, `BuffersHold`, `FirstSentLiesInFront` | `Spec => []OfferedWhole`, `[]NoOverrun`, `[]FirstSentInFront` |

So every safety property of the passing runs, and both refinements, are theorems.

**The invariant of Posting.** None of the properties is inductive. `OneCopy`
fails if a fragment in `others_r` belongs to a message that was already handed
out: the server would start a second record. So `IInv` follows a fragment from
the sender to the board:

* `JobInv`, `QueueInv`: a fragment in the fifo is of an earlier message of its
  boardpost, or of the present file and already sent; only the last part carries 'y'.
* `OrderInv`: the fragments of one boardpost are in the fifo in the order of sending.
* `HeldInv`: what the server holds is of an earlier message, or of the present
  file and then not full; what was handed out was full.
* `AheadInv`: a fragment in the fifo is later than everything the server holds
  of its boardpost, or continues the one record that is not full.
* `UniqueInv`, `RepliesInv`: one record per message, one reply per message.
* `ScanInv`: what `select` reported is still there when the loop reaches it; the
  server is the only reader, and the index only moves forward.

`AheadInv` needs `OrderInv` when the head of the fifo is handled and `HeldInv`
with `QueueInv` when a fragment is written. `PostingProofs` proves `TypeInv`,
`ReadInv`, the part on fragments and the part on delivery step by step, one
lemma per process or handler, and joins them in `StepInv`. The refinement rests
on the invariant: `Publish` must be of a fresh message, which is `AheadInv` for
the fragment with 'y', and `Take` must take exactly what was offered.

*What messages hold* needs a second part of `IInv`, over the first. `RunInv`: a record
is a run of consecutive fragments. `TailInv`: what was written of a message after what the
server holds of it is still in the fifo, so that the next fragment to arrive is the next
of the run. `HeadInv`: the first fragment of every message under way waits, is held or was
refused, so that a record that does not begin with it was refused in part. `EndedInv`: a last
fragment that was written waits, or its message is full, or was refused. `FullIsWhole` needs
`RunInv`, and that needs `TailInv` and `HeadInv` in every step of sender and server.

**The invariant of BoardLibrary** is `CountedInv`: the counter bounds the length of
the list from above. Fetches only shorten the list; equality does not hold, since
they do not count down.

**The invariants of Startup.** `OneServer` follows from `OwnFifos`, which is not
inductive: a server that is still creating paths, or removes them, must not touch
those of another one. `FifoInv` says which paths belong to a server at each step:
the first `step` while it creates, all while it opens and serves, those behind `step`
while it removes. `mkfifo` takes only free paths and `remove` only own ones, so
no step of a server disturbs another. `BoardInv` says that a board forks once.

The second part holds only while two boards do not look at once. `DirInv` says under
`~ raced` that one board at most starts a server (`OneStarts`); that `_spid` names
the live server, and a board that compares a pid has that one (`Named`); that who
began to look while a server served has found nothing against it (`SinceInv`); and,
without kills, that each path that exists is owned by a live server (`NoFifoLeft`). So
`mkfifo` fails only after a kill or a race, which is finding 4 from the other side.
`DirInv` was checked by TLC on the instance of `Startup.cfg` before it was proved.

**The invariant of Sessions** is `SInv`. `CountsMembers` depends on what is still in the
fifos: an EO that is handled must find its boardpost counted.

* `RequestsInv`: in `others_r` each boardpost has one OO, then its LIs, then one EO;
  `MembersInv`: who uses the board is a member or has its OO there.
* `OpensInv`: the members are those counted, and one more while the server waits in its
  open, which is only for the first boardpost and only while nobody reads.
* `OwnerInv`: an ES or GM finds `self_w` open when its turn comes (`OpenAt`). It follows the
  OS before it in the fifo, or the present descriptors.
* `QuestionInv`, `AnswersDue`: one question of `board` at most; there are no more lists
  asked for or answered than boardposts that wait.
* `PassInv`: a fifo that the pass has not reached still has its request, also when CR ends
  the pass early.
* `AloneInv`: under `Calm` (nobody killed, no sleep too short, no two lists at once) who
  asks finds its request, or the rest of its own answer and nothing else.

The types cannot be proved alone: that `fd1` and `boardpostnum` stay at or above zero is
`OwnerInv` and `OpensInv`. `NoBrokenPipe` needs `AnswersDue`, since somebody who waits for
a list has `others_w` open when the LI is answered, and `QuestionInv` for `self_w`.

**The invariant of ChannelList** is `CInv`. `Chain`, what is reached along `next`, is a
recursive function, and the proof is about what each assignment to a pointer does to it:
`Insert` puts a node in front, `Unlink` takes one out, the others leave it. `WellFormed`
then says that the chain is a sequence of `size` nodes without repetition. `LoopInv`: the
loop's pointer is on the chain, and `delete` leaves no match behind it. `WalkInv` says how far
the walk has come: after `n` elements the list is what stays of these followed by the rest
(`Passed`), or the `n`-th is about to be unlinked (`Pending`), and `cur` is the node to be
visited next, or, once freed, still points to it.

**The invariant of Transfer** is `TInv`. Each fifo is a chain of parts: every part
begins where the one before it ends, the first where the reader stands, and behind the last
one stands the writer.

* `SendingInv`, `RequestsInv`: the requests are cut at multiples of 384, or at the end of the
  file (`WellCut`), and each follows its predecessor in the file or begins a later one.
* `StoreInv`: every record is complete and of an earlier file, or ends where the next
  request begins (`Due`); the newest is in front.
* `PipeInv`: the same of replies, with the client's place (`Expected`) at one end and the
  server's at the other; a text is followed by the files in a getmessages only.
* `PartsInv`, `ServerInv`: a part lies within its reply and fits the buffer; who divides a
  text has set the terminator, which makes `strlen` right for a part that is exactly full.
* `ListInv`, `SaveInv`: what was put together is a beginning of the reply; the records saved
  are its first ones, and of those of one name the last lies in front on the disk.

`OfferedWhole` follows from `Due`: who is not followed by a request and not in `send` is not
due, thus complete. `NotReady` keeps the record that is due since it ends at a multiple of
384 and is not full. `FirstSentInFront` rests on `StoreInv` for the order (the file sent
first is the last of its name in the answer, so no later record hides it) and on the fact
that records start at different bytes (`StartsDiffer`).

The invariants were checked by TLC on the instances of the runs before they were
proved (`Transfer` also with fifos of three parts).

**Induction.** The library's induction theorems take an operator as a parameter, which
the provers cannot instantiate. `RecursionProofs` states induction over a set of numbers
(`Induct`) and derives it from the library's theorem that a well-founded relation has minimal
elements. With it each recursive function is shown to exist and to obey its recursion, and
the lemmas on `Picked` and `SumTo` follow.

**Only model-checked.** The liveness properties (`Answered`, `PostsServedOnceQuiet`,
`LetIn`, `OwnerServed`, `ListEnds`, `BoardStarts`, `ShutdownEnds`, `AskEnds`, `SendEnds`,
`LoopsEnd`): the proof system does not reach `WF` and `ENABLED`.

## 5. Not modelled, and the plan

Not modelled for good: signal handlers (nobody sends the signals, and the flags they
set are never read), parsing of what the user types, formatting, `print` of the lists,
allocation failures (most calls do not test for them), the search of `boardcheck.sh` for directories.

Planned, in this order:

1. The variant of each loop as a safety property: that every step of `delete`, `pop_back`
   and of the walk brings its pointer nearer to the end, and that every read of a reply
   brings the client nearer to it, so that only fairness is left to TLC.
2. `Transfer` with two boardposts that send at once, as in `Posting`.
3. A file that changes between `stat` and `read`.
