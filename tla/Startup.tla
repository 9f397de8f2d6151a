-------------------------------- MODULE Startup --------------------------------
(***************************************************************************)
(* How a board directory gets its server and loses it: the file _spid, the *)
(* four fifos, board, which starts a server when it finds none, boardpost, *)
(* which gives up when it finds none, and boardcheck.sh, which reports     *)
(* what it finds.  One system call per step; servers may be killed.        *)
(*                                                                         *)
(* A board process starts at most one server, so a server is named by the  *)
(* board that forks it, and so is its pid in _spid.  A fifo is named by    *)
(* the server that created it: a path that is removed and created again is *)
(* another fifo.                                                           *)
(***************************************************************************)
EXTENDS Integers, FiniteSets

CONSTANTS
  Boards,     \* board processes, and the servers they may fork
  Posts,      \* boardpost processes
  Checks,     \* runs of boardcheck.sh; a process in both is either, as it starts
  None,       \* no file, no fifo, no process
  Empty,      \* what _spid holds between its fopen and its fclose
  MaxKills    \* bound: how many servers are killed

Users == Boards \cup Posts \cup Checks

ASSUME StartupAssumption ==
  /\ Boards \cap (Posts \cup Checks) = {}
  /\ None \notin Boards /\ Empty \notin Boards \cup {None}
  /\ MaxKills \in Nat

VARIABLES
  spid,     \* _spid: None, Empty or the pid in it
  fifo,     \* per path, in the order of creation: the fifo there
  server,   \* per server: what it does next
  step,     \* per server: how many fifos it has created or removed
  holds,    \* per server: the fifos it has open for reading
  asked,    \* fifos self_r with an SH in them
  user,     \* per program: what it does next
  seen,     \* per program: the pid it read, until it is used
  conn,     \* per program: the fifo it has open or waits to open
  since,    \* history, per boardpost and check: the server that has served since its first look
  raced,    \* history: two boards were looking for a server at once
  hasty,    \* history: a board opened self_r while a server was starting, or a server
            \* was killed while it was starting or a board slept
  kills     \* history: how many servers were killed

dirVars    == <<spid, fifo>>
serverVars == <<server, step, holds>>
userVars   == <<user, seen, conn>>
history    == <<since, raced, hasty, kills>>
vars == <<dirVars, serverVars, asked, userVars, history>>

\* self_r, self_w, others_r and others_w, in the order of fn[].
Paths == 1 .. 4
SelfR == 1
OthersR == 3

\* The fifo a program writes its requests to.
RequestPath(u) == IF u \in Boards THEN SelfR ELSE OthersR

Over == {"ended", "failed", "refused", "active", "inactive", "unlisted"}

\* A child that has ended keeps its entry in /proc until its parent ends: board
\* never waits for it.
Zombie(s) == server[s] = "ended" /\ user[s] \notin Over
HasComm(s) == server[s] \notin {"none", "exec", "ended"} \/ Zombie(s)

\* A pid that was read is that of a process called board_server, or, for ps, of
\* one that has not ended.
IsServer(pid) == pid # None /\ HasComm(pid)
IsListedServer(pid) == IsServer(pid) /\ ~ Zombie(pid)

Read(i, path) == \E s \in Boards : holds[s][path] = i

Init ==
  /\ spid = None
  /\ fifo = [f \in Paths |-> None]
  /\ server = [s \in Boards |-> "none"]
  /\ step = [s \in Boards |-> 0]
  /\ holds = [s \in Boards |-> [f \in {SelfR, OthersR} |-> None]]
  /\ asked = {}
  /\ user = [u \in Users |-> "new"]
  /\ seen = [u \in Users |-> None]
  /\ conn = [u \in Users |-> None]
  /\ since = [u \in Posts \cup Checks |-> None]
  /\ raced = FALSE /\ hasty = FALSE /\ kills = 0

-------------------------------------------------------------------------------
(* board and boardpost: is there a server? *)

UserMoves(u, from, to) ==
  /\ user[u] = from
  /\ user' = [user EXCEPT ![u] = to]

\* The server that serves now, if any.
Server == IF \E s \in Boards : server[s] = "serving"
          THEN CHOOSE s \in Boards : server[s] = "serving"
          ELSE None

\* A board is between its look at _spid and the moment its server is named there.
Starting(b) == user[b] \in {"comm", "start"} \/ server[b] \in {"exec", "spid"}

Look(u) ==
  /\ since' = [v \in Posts \cup Checks |-> IF v = u THEN Server ELSE since[v]]
  /\ raced' = (raced \/ (u \in Boards /\ \E b \in Boards \ {u} : Starting(b)))
  /\ UNCHANGED <<dirVars, serverVars, asked, conn, hasty, kills>>

NotRunning(u) == IF u \in Boards THEN "start" ELSE "refused"

\* An empty file leaves pid as it was, that is, unset.
ReadSpid(u) ==
  /\ u \in Boards \cup Posts
  /\ Look(u)
  /\ \/ spid = None /\ UserMoves(u, "new", NotRunning(u)) /\ UNCHANGED seen
     \/ /\ spid # None
        /\ UserMoves(u, "new", "comm")
        /\ \E pid \in (IF spid = Empty THEN Boards \cup {None} ELSE {spid}) :
             seen' = [seen EXCEPT ![u] = pid]

\* Nobody asks any more since when a server has served.
Settled(u, to) ==
  since' = [v \in Posts \cup Checks |->
              IF v = u /\ to \in {"asleep", "active"} THEN None ELSE since[v]]

\* Mutant: the name of the process is not compared.
ReadCommAny(u) ==
  /\ UserMoves(u, "comm", "asleep")
  /\ seen' = [seen EXCEPT ![u] = None]
  /\ Settled(u, "asleep")
  /\ UNCHANGED <<dirVars, serverVars, asked, conn, raced, hasty, kills>>

\* /proc/<pid>/comm names a board_server.
ReadComm(u) ==
  /\ UserMoves(u, "comm", IF IsServer(seen[u]) THEN "asleep" ELSE NotRunning(u))
  /\ seen' = [seen EXCEPT ![u] = None]
  /\ Settled(u, user'[u])
  /\ UNCHANGED <<dirVars, serverVars, asked, conn, raced, hasty, kills>>

Fork(b) ==
  /\ UserMoves(b, "start", "asleep")
  /\ server' = [server EXCEPT ![b] = "exec"]
  /\ UNCHANGED <<dirVars, step, holds, asked, seen, conn, history>>

BeingStarted(s) == server[s] \in {"exec", "spid", "fifos", "open", "open3"}

\* board sleeps for a second first.  The open fails when there is no fifo, and
\* then the first write; it blocks until somebody reads the fifo.
OpenRequests(u) ==
  LET path == RequestPath(u)
  IN /\ hasty' = (hasty \/ (u \in Boards /\ \E s \in Boards : BeingStarted(s)))
     /\ conn' = [conn EXCEPT ![u] = fifo[path]]
     /\ \/ fifo[path] = None /\ UserMoves(u, "asleep", "failed")
        \/ fifo[path] # None /\ Read(fifo[path], path) /\ UserMoves(u, "asleep", "joined")
        \/ fifo[path] # None /\ ~ Read(fifo[path], path) /\ UserMoves(u, "asleep", "opening")
     /\ UNCHANGED <<dirVars, serverVars, asked, seen, since, raced, kills>>

\* exit, and a write that finds no reader.
Exit(u) ==
  /\ UserMoves(u, "joined", "ended")
  /\ conn' = [conn EXCEPT ![u] = None]
  /\ UNCHANGED <<dirVars, serverVars, asked, seen, history>>

Shutdown(b) ==
  /\ Read(conn[b], SelfR)
  /\ UserMoves(b, "joined", "ended")
  /\ asked' = asked \cup {conn[b]}
  /\ conn' = [conn EXCEPT ![b] = None]
  /\ UNCHANGED <<dirVars, serverVars, seen, history>>

-------------------------------------------------------------------------------
(* boardcheck.sh *)

\* [ -f _spid ]
CheckSpid(c) ==
  /\ Look(c)
  /\ UserMoves(c, "new", IF spid = None THEN "unlisted" ELSE "p1")
  /\ UNCHANGED seen

\* [ -p ] for each fifo, in the order of fn[].
Probe == <<"p1", "p2", "p3", "p4", "cat">>

CheckFifo(c, f) ==
  /\ UserMoves(c, Probe[f], IF fifo[f] = None THEN "inactive" ELSE Probe[f + 1])
  /\ UNCHANGED <<dirVars, serverVars, asked, seen, conn, history>>

CheckCat(c) ==
  /\ UserMoves(c, "cat", "ps")
  /\ seen' = [seen EXCEPT ![c] = IF spid = Empty THEN None ELSE spid]
  /\ UNCHANGED <<dirVars, serverVars, asked, conn, history>>

\* ps prints another name for a zombie.
CheckPs(c) ==
  /\ UserMoves(c, "ps", IF IsListedServer(seen[c]) THEN "active" ELSE "inactive")
  /\ seen' = [seen EXCEPT ![c] = None]
  /\ Settled(c, user'[c])
  /\ UNCHANGED <<dirVars, serverVars, asked, conn, raced, hasty, kills>>

-------------------------------------------------------------------------------
(* board_server *)

ServerMoves(s, from, to) ==
  /\ server[s] = from
  /\ server' = [server EXCEPT ![s] = to]

Closed == [f \in {SelfR, OthersR} |-> None]

\* fopen(_spid, "w")
TruncateSpid(s) ==
  /\ ServerMoves(s, "exec", "spid")
  /\ spid' = Empty
  /\ UNCHANGED <<fifo, step, holds, asked, userVars, history>>

\* Mutant: _spid is not closed, its buffer not written.
WriteSpidLate(s) ==
  /\ ServerMoves(s, "spid", "fifos")
  /\ UNCHANGED <<dirVars, step, holds, asked, userVars, history>>

\* fclose writes the pid.
WriteSpid(s) ==
  /\ ServerMoves(s, "spid", "fifos")
  /\ spid' = s
  /\ UNCHANGED <<fifo, step, holds, asked, userVars, history>>

\* Mutant: what is there already is used.
MakeFifoAnyway(s) ==
  LET f == step[s] + 1
  IN /\ ServerMoves(s, "fifos", IF f = 4 THEN "open" ELSE "fifos")
     /\ fifo' = [fifo EXCEPT ![f] = IF @ = None THEN s ELSE @]
     /\ step' = [step EXCEPT ![s] = f]
     /\ UNCHANGED <<spid, holds, asked, userVars, history>>

\* Mutant: a server that fails removes the fifos it has found.
MakeFifoOrClean(s) ==
  LET f == step[s] + 1
  IN /\ server[s] = "fifos"
     /\ \/ /\ fifo[f] = None
           /\ ServerMoves(s, "fifos", IF f = 4 THEN "open" ELSE "fifos")
           /\ fifo' = [fifo EXCEPT ![f] = s]
           /\ step' = [step EXCEPT ![s] = f]
        \/ /\ fifo[f] # None
           /\ ServerMoves(s, "fifos", "ended")
           /\ fifo' = [g \in Paths |-> None]
           /\ UNCHANGED step
     /\ UNCHANGED <<spid, holds, asked, userVars, history>>

\* mkfifo, for the next path; a path that exists ends the server.
MakeFifo(s) ==
  LET f == step[s] + 1
  IN /\ server[s] = "fifos"
     /\ \/ /\ fifo[f] = None
           /\ ServerMoves(s, "fifos", IF f = 4 THEN "open" ELSE "fifos")
           /\ fifo' = [fifo EXCEPT ![f] = s]
           /\ step' = [step EXCEPT ![s] = f]
        \/ fifo[f] # None /\ ServerMoves(s, "fifos", "ended") /\ UNCHANGED <<fifo, step>>
     /\ UNCHANGED <<spid, holds, asked, userVars, history>>

\* The programs that wait for a reader of the fifo at f have one.
Released(f) ==
  [u \in Users |-> IF user[u] = "opening" /\ RequestPath(u) = f /\ conn[u] = fifo[f]
                   THEN "joined" ELSE user[u]]

\* self_r is opened for reading and writing, then others_r; without the fifo
\* the server ends.
OpenFifo(s, f) ==
  LET from == IF f = SelfR THEN "open" ELSE "open3"
      to   == IF f = SelfR THEN "open3" ELSE "serving"
  IN /\ \/ /\ fifo[f] # None
           /\ ServerMoves(s, from, to)
           /\ holds' = [holds EXCEPT ![s][f] = fifo[f]]
           /\ user' = Released(f)
        \/ /\ fifo[f] = None
           /\ ServerMoves(s, from, "ended")
           /\ holds' = [holds EXCEPT ![s] = Closed]
           /\ UNCHANGED user
     /\ UNCHANGED <<dirVars, step, asked, seen, conn, history>>

\* The server s no longer serves anybody.
StopsServing(s) == since' = [u \in Posts \cup Checks |-> IF since[u] = s THEN None ELSE since[u]]

\* Mutant: the server ends without removing the fifos.
StopKeepsFifos(s) ==
  /\ holds[s][SelfR] \in asked
  /\ ServerMoves(s, "serving", "ended")
  /\ asked' = asked \ {holds[s][SelfR]}
  /\ holds' = [holds EXCEPT ![s] = Closed]
  /\ StopsServing(s)
  /\ UNCHANGED <<dirVars, step, userVars, raced, hasty, kills>>

\* SH, the end of the loop and close(fd[0]).
Stop(s) ==
  /\ holds[s][SelfR] \in asked
  /\ ServerMoves(s, "serving", "removing")
  /\ asked' = asked \ {holds[s][SelfR]}
  /\ step' = [step EXCEPT ![s] = 0]
  /\ holds' = [holds EXCEPT ![s][SelfR] = None]
  /\ StopsServing(s)
  /\ UNCHANGED <<dirVars, userVars, raced, hasty, kills>>

\* Mutant: the loop over fn[] goes one too far.
RemoveFifoPast(s) ==
  LET f == step[s] + 1
  IN /\ ServerMoves(s, "removing", IF f = 5 THEN "ended" ELSE "removing")
     /\ fifo' = [g \in Paths |-> IF g = f THEN None ELSE fifo[g]]
     /\ step' = [step EXCEPT ![s] = f]
     /\ holds' = IF f = 5 THEN [holds EXCEPT ![s] = Closed] ELSE holds
     /\ UNCHANGED <<spid, asked, userVars, history>>

\* remove(fn[i]); the end of the process after the last one.
RemoveFifo(s) ==
  LET f == step[s] + 1
  IN /\ ServerMoves(s, "removing", IF f = 4 THEN "ended" ELSE "removing")
     /\ fifo' = [fifo EXCEPT ![f] = None]
     /\ step' = [step EXCEPT ![s] = f]
     /\ holds' = IF f = 4 THEN [holds EXCEPT ![s] = Closed] ELSE holds
     /\ UNCHANGED <<spid, asked, userVars, history>>

Kill(s) ==
  /\ server[s] \notin {"none", "ended"}
  /\ kills < MaxKills
  /\ kills' = kills + 1
  /\ server' = [server EXCEPT ![s] = "ended"]
  /\ step' = [step EXCEPT ![s] = 0]
  /\ holds' = [holds EXCEPT ![s] = Closed]
  /\ hasty' = (hasty \/ BeingStarted(s) \/ \E b \in Boards : user[b] = "asleep")
  /\ StopsServing(s)
  /\ UNCHANGED <<dirVars, asked, userVars, raced>>

-------------------------------------------------------------------------------
UserStep(u) == ReadSpid(u) \/ ReadComm(u) \/ OpenRequests(u)

BoardStep(b) == UserStep(b) \/ Fork(b)

CheckStep(c) ==
  CheckSpid(c) \/ (\E f \in Paths : CheckFifo(c, f)) \/ CheckCat(c) \/ CheckPs(c)

ServerStep(s) ==
  TruncateSpid(s) \/ WriteSpid(s) \/ MakeFifo(s) \/ OpenFifo(s, SelfR)
  \/ OpenFifo(s, OthersR) \/ Stop(s) \/ RemoveFifo(s)

Next ==
  \/ \E b \in Boards : BoardStep(b) \/ Exit(b) \/ Shutdown(b) \/ ServerStep(b) \/ Kill(b)
  \/ \E p \in Posts : UserStep(p) \/ Exit(p)
  \/ \E c \in Checks : CheckStep(c)

Spec == Init /\ [][Next]_vars

\* Every process that was started goes on; that it is started, what its user
\* types and what is killed is not fair.
Fairness ==
  /\ \A b \in Boards : WF_vars(ServerStep(b))
  /\ \A b \in Boards : WF_vars(ReadComm(b) \/ Fork(b) \/ OpenRequests(b))

FairSpec == Spec /\ Fairness

-------------------------------------------------------------------------------
(* Properties *)

\* Every variable holds what the programs can put there.
StartupTypeOK ==
  /\ spid \in Boards \cup {None, Empty}
  /\ fifo \in [Paths -> Boards \cup {None}]
  /\ server \in [Boards -> {"none", "exec", "spid", "fifos", "open", "open3", "serving",
                             "removing", "ended"}]
  /\ step \in [Boards -> 0 .. 4]
  /\ holds \in [Boards -> [{SelfR, OthersR} -> Boards \cup {None}]]
  /\ asked \subseteq Boards
  /\ user \in [Users -> {"new", "comm", "start", "asleep", "opening", "joined", "p1",
                          "p2", "p3", "p4", "cat", "ps"} \cup Over]
  /\ seen \in [Users -> Boards \cup {None}]
  /\ conn \in [Users -> Boards \cup {None}]
  /\ since \in [Posts \cup Checks -> Boards \cup {None}]
  /\ raced \in BOOLEAN /\ hasty \in BOOLEAN
  /\ kills \in 0 .. MaxKills

\* However many boards look for a server at once, and whatever is killed, one
\* server at most serves the directory: the fifos are its lock.
\* board_server.c:80-103
OneServer ==
  \A s, t \in Boards : server[s] = "serving" /\ server[t] = "serving" => s = t

\* The fifos of a server that serves are its own and stay in place: no server
\* that starts, fails or ends meanwhile removes or replaces one.
\* board_server.c:356-361
OwnFifos ==
  \A s \in Boards : server[s] = "serving" => \A f \in Paths : fifo[f] = s

\* A boardpost that gives up, and boardcheck.sh when it reports a board as
\* inactive, are right: there was a moment since their first look at which no
\* server served.  Only if two boards looked for a server at once may _spid
\* name the wrong one.  boardpost.c:37-72, boardcheck.sh:9-43
RefusedRightly ==
  ~ raced =>
    \A u \in Posts \cup Checks : user[u] \in {"refused", "inactive", "unlisted"} => since[u] = None

\* When no server is left after shutdowns alone, the directory is as a new server
\* needs it: no fifo is left.  board_server.c:356-361
CleanAfterStop ==
  kills = 0 /\ ~ raced /\ (\A s \in Boards : server[s] \in {"none", "exec", "ended"}) =>
    \A f \in Paths : fifo[f] = None

Running(b) == user[b] \notin Over \cup {"new"}
Stopping(s) == server[s] = "removing" \/ holds[s][SelfR] \in asked

\* One board at a time, the sleep is long enough for a server to start, no server
\* is killed meanwhile, and no board is started while the server of an earlier one ends.
Orderly ==
  /\ ~ hasty
  /\ \A b, c \in Boards : Running(b) /\ Running(c) => b = c
  /\ \A b, s \in Boards : Running(b) /\ user[b] # "joined" => ~ Stopping(s)

\* Then, unless a server is killed, a board that was started gets past its open of
\* self_r, with the server that runs or with a new one.  board.c:44-103
BoardStarts ==
  [](Orderly /\ kills = 0) =>
    \A b \in Boards : user[b] = "asleep" ~> user[b] \in {"joined", "ended"}

\* Unless it is killed, a server that was asked to stop ends and takes its fifos with it.
\* board_server.c:166-168, 356-361
ShutdownEnds ==
  [](kills = 0) =>
    \A s \in Boards : holds[s][SelfR] \in asked ~> (server[s] = "ended" /\ \A f \in Paths : fifo[f] # s)

\* board sleeps for a second so that the server it started has made the fifos
\* (README.txt:17-18), and opens self_r then: it gets past that open or
\* ends.  It does not after a server was killed: the fifos left by that one
\* make the new server fail.
BoardNotStuck ==
  []Orderly => \A b \in Boards : user[b] = "start" ~> user[b] \in {"joined", "ended", "failed"}

===============================================================================
