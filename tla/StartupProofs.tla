----------------------------- MODULE StartupProofs -----------------------------
(***************************************************************************)
(* The fifos are the lock of a board directory: the invariants of Startup  *)
(* for any number of boards, boardposts, checks and killed servers.        *)
(***************************************************************************)
EXTENDS Startup, TLAPS

\* What a server has of the directory between its first mkfifo and its last
\* remove.  The paths it has not created yet may be anybody's.
FifoInv ==
  \A s \in Boards :
    /\ server[s] \in {"none", "exec", "spid"} => step[s] = 0
    /\ server[s] = "fifos" => step[s] \in 0 .. 3 /\ \A f \in 1 .. step[s] : fifo[f] = s
    /\ server[s] \in {"open", "open3", "serving"} => \A f \in Paths : fifo[f] = s
    /\ server[s] = "removing" => step[s] \in 0 .. 3 /\ \A f \in (step[s] + 1) .. 4 : fifo[f] = s

\* A board starts a server at most once, and writes to a fifo that was there.
BoardInv ==
  \A b \in Boards :
    /\ user[b] \in {"new", "comm", "start"} => server[b] = "none"
    /\ user[b] \in {"opening", "joined"} => conn[b] # None

StartupInv == StartupTypeOK /\ FifoInv /\ BoardInv

LEMMA InitInv == Init => StartupInv
  <1> SUFFICES ASSUME Init PROVE StartupInv
    OBVIOUS
  <1>1. StartupTypeOK
    <2>1. holds \in [Boards -> [{SelfR, OthersR} -> Boards \cup {None}]]
      BY DEF Init
    <2>2. fifo \in [Paths -> Boards \cup {None}] /\ server \in [Boards -> {"none"}]
      BY DEF Init
    <2>3. step \in [Boards -> 0 .. 4] /\ kills \in 0 .. MaxKills
      BY StartupAssumption DEF Init
    <2>4. user \in [Users -> {"new"}] /\ seen \in [Users -> {None}] /\ conn \in [Users -> {None}]
      BY DEF Init
    <2>5. since \in [Posts \cup Checks -> {None}]
      BY DEF Init
    <2>6. spid = None /\ asked = {} /\ raced \in BOOLEAN /\ hasty \in BOOLEAN
      BY DEF Init
    <2> QED BY <2>1, <2>2, <2>3, <2>4, <2>5, <2>6 DEF StartupTypeOK
  <1>2. FifoInv
    BY DEF Init, FifoInv
  <1>3. BoardInv
    BY DEF Init, BoardInv, Users
  <1> QED BY <1>1, <1>2, <1>3 DEF StartupInv

-------------------------------------------------------------------------------
(* One lemma per action. *)

LEMMA ServerType == Server \in Boards \cup {None}
  BY DEF Server

LEMMA ReadSpidStep ==
  ASSUME StartupInv, NEW u \in Users, ReadSpid(u)
  PROVE  StartupInv'
  <1> USE DEF StartupInv, StartupTypeOK, ReadSpid, Look, UserMoves, NotRunning, dirVars, serverVars
  <1>1. StartupTypeOK'
    <2>1. user' \in [Users -> {"new", "comm", "start", "asleep", "opening", "joined", "p1",
                                "p2", "p3", "p4", "cat", "ps"} \cup Over]
      BY DEF Over
    <2>2. seen' \in [Users -> Boards \cup {None}]
      OBVIOUS
    <2>3. since' \in [Posts \cup Checks -> Boards \cup {None}]
      BY ServerType
    <2>4. raced' \in BOOLEAN
      OBVIOUS
    <2> QED BY <2>1, <2>2, <2>3, <2>4
  <1>2. FifoInv'
    BY DEF FifoInv
  <1>3. BoardInv'
    BY StartupAssumption DEF BoardInv, Users
  <1> QED BY <1>1, <1>2, <1>3

LEMMA ReadCommStep ==
  ASSUME StartupInv, NEW u \in Boards \cup Posts, ReadComm(u)
  PROVE  StartupInv'
  <1> USE DEF StartupInv, StartupTypeOK, ReadComm, Settled, UserMoves, NotRunning, dirVars,
              serverVars
  <1>1. StartupTypeOK'
    BY StartupAssumption DEF Over, Users
  <1>2. FifoInv'
    BY DEF FifoInv
  <1>3. BoardInv'
    BY StartupAssumption DEF BoardInv, Users
  <1> QED BY <1>1, <1>2, <1>3

LEMMA ForkStep ==
  ASSUME StartupInv, NEW b \in Boards, Fork(b)
  PROVE  StartupInv'
  <1> USE DEF StartupInv, StartupTypeOK, Fork, UserMoves, dirVars, history
  <1>1. StartupTypeOK'
    BY DEF Over, Users
  <1>2. server[b] = "none"
    BY DEF BoardInv
  <1>3. FifoInv'
    BY <1>2 DEF FifoInv
  <1>4. BoardInv'
    BY DEF BoardInv, Users
  <1> QED BY <1>1, <1>3, <1>4

LEMMA OpenRequestsStep ==
  ASSUME StartupInv, NEW u \in Users, OpenRequests(u)
  PROVE  StartupInv'
  <1> USE DEF StartupInv, StartupTypeOK, OpenRequests, UserMoves, dirVars, serverVars
  <1>1. RequestPath(u) \in Paths
    BY DEF RequestPath, SelfR, OthersR, Paths
  <1>2. StartupTypeOK'
    BY <1>1 DEF Over
  <1>3. FifoInv'
    BY DEF FifoInv
  <1>4. BoardInv'
    BY StartupAssumption DEF BoardInv, Users
  <1> QED BY <1>2, <1>3, <1>4

LEMMA ExitStep ==
  ASSUME StartupInv, NEW u \in Users, Exit(u)
  PROVE  StartupInv'
  <1> USE DEF StartupInv, StartupTypeOK, Exit, UserMoves, dirVars, serverVars, history
  <1>1. StartupTypeOK'
    BY DEF Over
  <1>2. FifoInv'
    BY DEF FifoInv
  <1>3. BoardInv'
    BY StartupAssumption DEF BoardInv, Users
  <1> QED BY <1>1, <1>2, <1>3

LEMMA ShutdownStep ==
  ASSUME StartupInv, NEW b \in Boards, Shutdown(b)
  PROVE  StartupInv'
  <1> USE DEF StartupInv, StartupTypeOK, Shutdown, UserMoves, dirVars, serverVars, history
  <1>1. conn[b] \in Boards
    BY DEF BoardInv, Users
  <1>2. StartupTypeOK'
    BY <1>1 DEF Over, Users
  <1>3. FifoInv'
    BY DEF FifoInv
  <1>4. BoardInv'
    BY StartupAssumption DEF BoardInv, Users
  <1> QED BY <1>2, <1>3, <1>4

LEMMA CheckSteps ==
  ASSUME StartupInv, NEW c \in Checks, CheckStep(c)
  PROVE  StartupInv'
  <1> USE DEF StartupInv, StartupTypeOK, UserMoves, dirVars, serverVars, history
  <1> c \in Users /\ c \notin Boards
    BY StartupAssumption DEF Users
  <1>1. CASE CheckSpid(c)
    <2>1. StartupTypeOK'
      BY <1>1, ServerType DEF CheckSpid, Look, Over
    <2>2. FifoInv' /\ BoardInv'
      BY <1>1 DEF CheckSpid, Look, FifoInv, BoardInv, Users
    <2> QED BY <2>1, <2>2
  <1>2. CASE \E f \in Paths : CheckFifo(c, f)
    <2>1. PICK f \in Paths : CheckFifo(c, f)
      BY <1>2
    <2>2. user'[c] \in {"p2", "p3", "p4", "cat", "inactive"}
      BY <2>1 DEF CheckFifo, Probe, Paths
    <2>3. StartupTypeOK'
      BY <2>1, <2>2 DEF CheckFifo, Over
    <2>4. FifoInv' /\ BoardInv'
      BY <2>1 DEF CheckFifo, FifoInv, BoardInv, Users
    <2> QED BY <2>3, <2>4
  <1>3. CASE CheckCat(c)
    <2>1. StartupTypeOK'
      BY <1>3 DEF CheckCat
    <2>2. FifoInv' /\ BoardInv'
      BY <1>3 DEF CheckCat, FifoInv, BoardInv, Users
    <2> QED BY <2>1, <2>2
  <1>4. CASE CheckPs(c)
    <2>1. StartupTypeOK'
      BY <1>4 DEF CheckPs, Settled, Over
    <2>2. FifoInv' /\ BoardInv'
      BY <1>4 DEF CheckPs, Settled, FifoInv, BoardInv, Users
    <2> QED BY <2>1, <2>2
  <1> QED BY <1>1, <1>2, <1>3, <1>4 DEF CheckStep

LEMMA SpidSteps ==
  ASSUME StartupInv, NEW s \in Boards, TruncateSpid(s) \/ WriteSpid(s)
  PROVE  StartupInv'
  <1> USE DEF StartupInv, StartupTypeOK, TruncateSpid, WriteSpid, ServerMoves, userVars, history
  <1>1. StartupTypeOK'
    OBVIOUS
  <1>2. FifoInv'
    BY DEF FifoInv
  <1>3. BoardInv'
    BY DEF BoardInv
  <1> QED BY <1>1, <1>2, <1>3

\* A server creates only what is not there, so it takes no path from another one.
LEMMA MakeFifoStep ==
  ASSUME StartupInv, NEW s \in Boards, MakeFifo(s)
  PROVE  StartupInv'
  <1> USE DEF StartupInv, StartupTypeOK, MakeFifo, ServerMoves, userVars, history
  <1>1. step[s] \in 0 .. 3 /\ \A f \in 1 .. step[s] : fifo[f] = s
    BY DEF FifoInv
  <1>2. step[s] + 1 \in Paths
    BY <1>1 DEF Paths
  <1>3. StartupTypeOK'
    <2>1. server' \in [Boards -> {"none", "exec", "spid", "fifos", "open", "open3", "serving",
                                   "removing", "ended"}]
      OBVIOUS
    <2>2. fifo' \in [Paths -> Boards \cup {None}]
      BY <1>2
    <2>3. step' \in [Boards -> 0 .. 4]
      BY <1>1
    <2> QED BY <2>1, <2>2, <2>3
  <1>4. FifoInv'
    <2> SUFFICES ASSUME NEW t \in Boards
                 PROVE  /\ server'[t] \in {"none", "exec", "spid"} => step'[t] = 0
                        /\ server'[t] = "fifos" => /\ step'[t] \in 0 .. 3
                                                   /\ \A f \in 1 .. step'[t] : fifo'[f] = t
                        /\ server'[t] \in {"open", "open3", "serving"} => \A f \in Paths : fifo'[f] = t
                        /\ server'[t] = "removing" => /\ step'[t] \in 0 .. 3
                                                      /\ \A f \in (step'[t] + 1) .. 4 : fifo'[f] = t
      BY DEF FifoInv
    <2>1. \A f \in Paths : fifo[f] = t => fifo'[f] = t
      BY <1>2, StartupAssumption
    <2>2. CASE t = s
      BY <2>2, <1>1, <1>2 DEF Paths
    <2>3. CASE t # s
      <3>1. server'[t] = server[t] /\ step'[t] = step[t]
        BY <2>3
      <3>2. server[t] = "fifos" => step[t] \in 0 .. 3 /\ \A f \in 1 .. step[t] : f \in Paths /\ fifo'[f] = t
        BY <2>1 DEF FifoInv, Paths
      <3>3. server[t] \in {"open", "open3", "serving"} => \A f \in Paths : fifo'[f] = t
        BY <2>1 DEF FifoInv
      <3>4. server[t] = "removing" => step[t] \in 0 .. 3 /\ \A f \in (step[t] + 1) .. 4 : fifo'[f] = t
        BY <2>1 DEF FifoInv, Paths
      <3> QED BY <3>1, <3>2, <3>3, <3>4 DEF FifoInv
    <2> QED BY <2>2, <2>3
  <1>5. BoardInv'
    BY DEF BoardInv
  <1> QED BY <1>3, <1>4, <1>5

LEMMA OpenFifoStep ==
  ASSUME StartupInv, NEW s \in Boards, NEW f \in {SelfR, OthersR}, OpenFifo(s, f)
  PROVE  StartupInv'
  <1> USE DEF StartupInv, StartupTypeOK, OpenFifo, ServerMoves, dirVars, history
  <1>0. f \in Paths
    BY DEF SelfR, OthersR, Paths
  <1>1. server[s] \in {"open", "open3"} /\ fifo[f] = s /\ fifo[f] # None
    BY <1>0, StartupAssumption DEF FifoInv, SelfR, OthersR
  <1>2. server'[s] \in {"open3", "serving"} /\ \A t \in Boards \ {s} : server'[t] = server[t]
    BY <1>1
  <1>3. StartupTypeOK'
    <2>1. user' \in [Users -> {"new", "comm", "start", "asleep", "opening", "joined", "p1",
                                "p2", "p3", "p4", "cat", "ps"} \cup Over]
      BY <1>1 DEF Released
    <2>2. holds' \in [Boards -> [{SelfR, OthersR} -> Boards \cup {None}]]
      <3> DEFINE held == [holds[s] EXCEPT ![f] = fifo[f]]
      <3>1. fifo[f] \in Boards \cup {None} /\ holds[s] \in [{SelfR, OthersR} -> Boards \cup {None}]
        BY <1>0
      <3>2. held \in [{SelfR, OthersR} -> Boards \cup {None}]
        BY <3>1
      <3>3. holds' = [holds EXCEPT ![s] = held]
        BY <1>1
      <3> HIDE DEF held
      <3> QED BY <3>2, <3>3
    <2>3. server' \in [Boards -> {"none", "exec", "spid", "fifos", "open", "open3", "serving",
                                   "removing", "ended"}]
      BY <1>1
    <2> QED BY <2>1, <2>2, <2>3
  <1>4. FifoInv'
    BY <1>1, <1>2 DEF FifoInv
  <1>5. BoardInv'
    BY <1>1, <1>2 DEF BoardInv, Released, Users
  <1> QED BY <1>3, <1>4, <1>5

LEMMA StopStep ==
  ASSUME StartupInv, NEW s \in Boards, Stop(s)
  PROVE  StartupInv'
  <1> USE DEF StartupInv, StartupTypeOK, Stop, StopsServing, ServerMoves, dirVars, userVars
  <1>1. holds' \in [Boards -> [{SelfR, OthersR} -> Boards \cup {None}]]
    <2> DEFINE held == [holds[s] EXCEPT ![SelfR] = None]
    <2>1. holds[s] \in [{SelfR, OthersR} -> Boards \cup {None}]
      OBVIOUS
    <2>2. held \in [{SelfR, OthersR} -> Boards \cup {None}]
      BY <2>1
    <2>3. holds' = [holds EXCEPT ![s] = held]
      OBVIOUS
    <2> HIDE DEF held
    <2> QED BY <2>2, <2>3
  <1>2. StartupTypeOK'
    <2>1. server' \in [Boards -> {"none", "exec", "spid", "fifos", "open", "open3", "serving",
                                   "removing", "ended"}]
      OBVIOUS
    <2>2. step' \in [Boards -> 0 .. 4]
      OBVIOUS
    <2>3. since' \in [Posts \cup Checks -> Boards \cup {None}] /\ asked' \subseteq Boards
      OBVIOUS
    <2> HIDE DEF Stop, StopsServing, ServerMoves
    <2> QED BY <1>1, <2>1, <2>2, <2>3 DEF Stop
  <1>3. FifoInv'
    BY DEF FifoInv, Paths
  <1>4. BoardInv'
    BY DEF BoardInv
  <1> QED BY <1>2, <1>3, <1>4

\* A server removes only paths that are its own.
LEMMA RemoveFifoStep ==
  ASSUME StartupInv, NEW s \in Boards, RemoveFifo(s)
  PROVE  StartupInv'
  <1> USE DEF StartupInv, StartupTypeOK, RemoveFifo, ServerMoves, userVars, history
  <1>1. step[s] \in 0 .. 3 /\ \A f \in (step[s] + 1) .. 4 : fifo[f] = s
    BY DEF FifoInv
  <1>2. step[s] + 1 \in Paths /\ fifo[step[s] + 1] = s
    BY <1>1 DEF Paths
  <1>3. StartupTypeOK'
    <2>1. Closed \in [{SelfR, OthersR} -> Boards \cup {None}]
      BY DEF Closed
    <2>2. holds' \in [Boards -> [{SelfR, OthersR} -> Boards \cup {None}]]
      BY <2>1
    <2>3. server' \in [Boards -> {"none", "exec", "spid", "fifos", "open", "open3", "serving",
                                   "removing", "ended"}]
      OBVIOUS
    <2>4. fifo' \in [Paths -> Boards \cup {None}]
      BY <1>2
    <2>5. step' \in [Boards -> 0 .. 4]
      BY <1>1
    <2> QED BY <2>2, <2>3, <2>4, <2>5
  <1>4. FifoInv'
    <2> SUFFICES ASSUME NEW t \in Boards
                 PROVE  /\ server'[t] \in {"none", "exec", "spid"} => step'[t] = 0
                        /\ server'[t] = "fifos" => /\ step'[t] \in 0 .. 3
                                                   /\ \A f \in 1 .. step'[t] : fifo'[f] = t
                        /\ server'[t] \in {"open", "open3", "serving"} => \A f \in Paths : fifo'[f] = t
                        /\ server'[t] = "removing" => /\ step'[t] \in 0 .. 3
                                                      /\ \A f \in (step'[t] + 1) .. 4 : fifo'[f] = t
      BY DEF FifoInv
    <2>1. CASE t = s
      <3>1. server'[t] \in {"removing", "ended"} /\ step'[t] = step[s] + 1
        BY <2>1
      <3>2. server'[t] = "removing" => step'[t] \in 0 .. 3
        BY <1>1, <2>1
      <3>3. \A f \in (step'[t] + 1) .. 4 : fifo'[f] = t
        BY <1>1, <2>1, <3>1 DEF Paths
      <3> QED BY <3>1, <3>2, <3>3
    <2>2. CASE t # s
      <3>1. server'[t] = server[t] /\ step'[t] = step[t]
        BY <2>2
      <3>2. \A f \in Paths : fifo[f] = t => fifo'[f] = t
        BY <1>2, <2>2
      <3>3. server[t] = "fifos" => step[t] \in 0 .. 3 /\ \A f \in 1 .. step[t] : fifo'[f] = t
        BY <3>2 DEF FifoInv, Paths
      <3>4. server[t] \in {"open", "open3", "serving"} => \A f \in Paths : fifo'[f] = t
        BY <3>2 DEF FifoInv
      <3>5. server[t] = "removing" => step[t] \in 0 .. 3 /\ \A f \in (step[t] + 1) .. 4 : fifo'[f] = t
        BY <3>2 DEF FifoInv, Paths
      <3> QED BY <3>1, <3>3, <3>4, <3>5 DEF FifoInv
    <2> QED BY <2>1, <2>2
  <1>5. BoardInv'
    BY DEF BoardInv
  <1> QED BY <1>3, <1>4, <1>5

LEMMA KillStep ==
  ASSUME StartupInv, NEW s \in Boards, Kill(s)
  PROVE  StartupInv'
  <1> USE DEF StartupInv, StartupTypeOK, Kill, StopsServing, dirVars, userVars
  <1>1. StartupTypeOK'
    BY StartupAssumption DEF Closed
  <1>2. FifoInv'
    BY DEF FifoInv
  <1>3. BoardInv'
    BY DEF BoardInv
  <1> QED BY <1>1, <1>2, <1>3

-------------------------------------------------------------------------------
LEMMA StutterStep == StartupInv /\ UNCHANGED vars => StartupInv'
  <1> SUFFICES ASSUME StartupInv, UNCHANGED vars PROVE StartupInv'
    OBVIOUS
  <1> USE DEF StartupInv, vars, dirVars, serverVars, userVars, history
  <1>1. StartupTypeOK'
    BY Zenon DEF StartupTypeOK
  <1>2. FifoInv' /\ BoardInv'
    BY DEF FifoInv, BoardInv
  <1> QED BY <1>1, <1>2

LEMMA StepInv == StartupInv /\ [Next]_vars => StartupInv'
  <1> SUFFICES ASSUME StartupInv, [Next]_vars
               PROVE  StartupInv'
    OBVIOUS
  <1>1. ASSUME NEW b \in Boards, BoardStep(b) \/ Exit(b) \/ Shutdown(b)
        PROVE  StartupInv'
    BY <1>1, ReadSpidStep, ReadCommStep, OpenRequestsStep, ForkStep, ExitStep, ShutdownStep
    DEF BoardStep, UserStep, Users
  <1>2. ASSUME NEW s \in Boards, ServerStep(s) \/ Kill(s)
        PROVE  StartupInv'
    BY <1>2, SpidSteps, MakeFifoStep, OpenFifoStep, StopStep, RemoveFifoStep, KillStep
    DEF ServerStep
  <1>3. ASSUME NEW p \in Posts, UserStep(p) \/ Exit(p)
        PROVE  StartupInv'
    BY <1>3, ReadSpidStep, ReadCommStep, OpenRequestsStep, ExitStep DEF UserStep, Users
  <1>4. ASSUME NEW c \in Checks, CheckStep(c)
        PROVE  StartupInv'
    BY <1>4, CheckSteps
  <1>5. CASE UNCHANGED vars
    BY <1>5, StutterStep
  <1> QED BY <1>1, <1>2, <1>3, <1>4, <1>5 DEF Next

THEOREM StartupInvariant == Spec => []StartupInv
  BY InitInv, StepInv, PTL DEF Spec

\* The variables hold what the programs can put there (board.c, board_server.c,
\* boardpost.c, boardcheck.sh), for any number of processes.
THEOREM StartupTypeCorrect == Spec => []StartupTypeOK
  BY StartupInvariant, PTL DEF StartupInv

\* The fifos of a server that serves are its own and stay in place, however many
\* servers are started, stopped or killed meanwhile.  board_server.c:80-113, 356-361
THEOREM FifosStay == Spec => []OwnFifos
  <1>1. StartupInv => OwnFifos
    BY DEF StartupInv, FifoInv, OwnFifos
  <1> QED BY <1>1, StartupInvariant, PTL

\* One server at most serves a directory.  board_server.c:80-103
THEOREM OneServerServes == Spec => []OneServer
  <1>1. OwnFifos => OneServer
    BY DEF OwnFifos, OneServer, Paths
  <1> QED BY <1>1, FifosStay, PTL

-------------------------------------------------------------------------------
(* What holds as long as two boards never look for a server at once. *)

Live(s) == server[s] \in {"fifos", "open", "open3", "serving", "removing"}

OneStarts == \A b, c \in Boards : Starting(b) /\ Starting(c) => b = c

\* _spid names the server that creates, serves or removes the fifos, and no board
\* is about to start another one.
Named ==
  \A s \in Boards : Live(s) =>
    /\ spid = s
    /\ \A b \in Boards : /\ user[b] = "comm" => seen[b] = s
                         /\ user[b] # "start" /\ server[b] \notin {"exec", "spid"}

\* Who began to look while a server served has found nothing against it yet.
SinceInv ==
  \A u \in Posts \cup Checks : since[u] # None =>
    /\ server[since[u]] = "serving"
    /\ user[u] \in {"comm", "p1", "p2", "p3", "p4", "cat", "ps"}
    /\ user[u] \in {"comm", "ps"} => seen[u] = since[u]

Owns(s, f) ==
  \/ server[s] = "fifos" /\ f <= step[s]
  \/ server[s] \in {"open", "open3", "serving"}
  \/ server[s] = "removing" /\ f > step[s]

NoFifoLeft == kills = 0 => \A f \in Paths : fifo[f] # None => Owns(fifo[f], f)

DirInv == ~ raced => OneStarts /\ Named /\ SinceInv /\ NoFifoLeft

LEMMA InitDir == Init => DirInv
  BY DEF Init, DirInv, OneStarts, Named, Live, SinceInv, NoFifoLeft, Starting, Users

\* A step that touches neither servers nor directory, and starts nobody.
LEMMA BoardDir ==
  ASSUME StartupInv, DirInv, NEW b \in Boards, UserStep(b) \/ Exit(b) \/ Shutdown(b)
  PROVE  DirInv'
  <1> SUFFICES ASSUME ~ raced' PROVE OneStarts' /\ Named' /\ SinceInv' /\ NoFifoLeft'
    BY DEF DirInv
  <1> USE DEF StartupInv, StartupTypeOK
  <1>1. CASE ReadSpid(b)
    <2> USE <1>1 DEF ReadSpid, Look, UserMoves, NotRunning, dirVars, serverVars
    <2>1. ~ raced /\ \A c \in Boards \ {b} : ~ Starting(c)
      OBVIOUS
    <2>2. OneStarts'
      BY <2>1 DEF Starting, Users, OneStarts
    <2>3. Named'
      BY <2>1, StartupAssumption DEF Named, Live, DirInv, BoardInv, Users
    <2>4. SinceInv'
      BY <2>1, StartupAssumption DEF SinceInv, DirInv, Users
    <2>5. NoFifoLeft'
      BY <2>1 DEF NoFifoLeft, Owns, DirInv
    <2> QED BY <2>2, <2>3, <2>4, <2>5
  <1>2. CASE ReadComm(b)
    <2> USE <1>2 DEF ReadComm, Settled, UserMoves, NotRunning, dirVars, serverVars
    <2>1. ~ raced
      OBVIOUS
    <2>2. OneStarts'
      BY <2>1 DEF Starting, Users, OneStarts, DirInv
    <2>3. \A s \in Boards : Live(s) => user'[b] = "asleep"
      BY <2>1, StartupAssumption DEF Named, Live, DirInv, IsServer, HasComm, Users
    <2>4. Named'
      BY <2>1, <2>3, StartupAssumption DEF Named, Live, DirInv, Users
    <2>5. SinceInv'
      BY <2>1, StartupAssumption DEF SinceInv, DirInv, Users
    <2>6. NoFifoLeft'
      BY <2>1 DEF NoFifoLeft, Owns, DirInv
    <2> QED BY <2>2, <2>4, <2>5, <2>6
  <1>3. CASE OpenRequests(b) \/ Exit(b) \/ Shutdown(b)
    <2>1. /\ ~ raced
          /\ UNCHANGED <<spid, fifo, server, step, seen, since, kills>>
          /\ \A u \in Users \ {b} : user'[u] = user[u]
          /\ user[b] \in {"asleep", "joined"}
          /\ user'[b] \in {"failed", "joined", "opening", "ended"}
      BY <1>3 DEF OpenRequests, Exit, Shutdown, UserMoves, dirVars, serverVars, history, Users
    <2>2. OneStarts'
      BY <2>1 DEF Starting, Users, OneStarts, DirInv
    <2>3. Named'
      BY <2>1, StartupAssumption DEF Named, Live, DirInv, Users
    <2>4. SinceInv'
      BY <2>1, StartupAssumption DEF SinceInv, DirInv, Users
    <2>5. NoFifoLeft'
      BY <2>1 DEF NoFifoLeft, Owns, DirInv
    <2> QED BY <2>2, <2>3, <2>4, <2>5
  <1> QED BY <1>1, <1>2, <1>3 DEF UserStep

\* The new server is the only one, and no board but its own looks for any.
LEMMA ForkDir ==
  ASSUME StartupInv, DirInv, NEW b \in Boards, Fork(b)
  PROVE  DirInv'
  <1> SUFFICES ASSUME ~ raced' PROVE OneStarts' /\ Named' /\ SinceInv' /\ NoFifoLeft'
    BY DEF DirInv
  <1> USE DEF StartupInv, StartupTypeOK, Fork, UserMoves, dirVars, history
  <1>1. ~ raced /\ server[b] = "none" /\ b \in Users
    BY DEF BoardInv, Users
  <1>2. OneStarts'
    BY <1>1 DEF Starting, Users, OneStarts, DirInv
  <1>3. Named'
    BY <1>1 DEF Named, Live, DirInv, Users
  <1>4. SinceInv'
    BY <1>1, StartupAssumption DEF SinceInv, DirInv, Users
  <1>5. NoFifoLeft'
    BY <1>1 DEF NoFifoLeft, Owns, DirInv
  <1> QED BY <1>2, <1>3, <1>4, <1>5

LEMMA ServingServer ==
  ASSUME Server # None
  PROVE  Server \in Boards /\ server[Server] = "serving"
  BY DEF Server

\* boardpost and boardcheck.sh move nobody else, so only SinceInv is left to show.
LEMMA LookerDir ==
  ASSUME StartupInv, DirInv, SinceInv', raced' = raced,
         UNCHANGED <<spid, fifo, server, step, kills>>,
         \A b \in Boards : user'[b] = user[b] /\ seen'[b] = seen[b]
  PROVE  DirInv'
  <1> SUFFICES ASSUME ~ raced PROVE OneStarts' /\ Named' /\ NoFifoLeft'
    BY DEF DirInv
  <1>1. OneStarts'
    BY DEF OneStarts, Starting, DirInv
  <1>2. Named'
    BY DEF Named, Live, DirInv
  <1>3. NoFifoLeft'
    BY DEF NoFifoLeft, Owns, DirInv
  <1> QED BY <1>1, <1>2, <1>3

\* The server that a boardpost could have found is named by _spid and runs until since
\* forgets it.
LEMMA PostDir ==
  ASSUME StartupInv, DirInv, NEW p \in Posts, UserStep(p) \/ Exit(p)
  PROVE  DirInv'
  <1> USE DEF StartupInv, StartupTypeOK
  <1> p \in Users /\ p \notin Boards
    BY StartupAssumption DEF Users
  <1>1. /\ raced' = raced
        /\ UNCHANGED <<spid, fifo, server, step, kills>>
        /\ \A b \in Boards : user'[b] = user[b] /\ seen'[b] = seen[b]
        /\ \A u \in (Posts \cup Checks) \ {p} :
             user'[u] = user[u] /\ seen'[u] = seen[u] /\ since'[u] = since[u]
    BY DEF UserStep, ReadSpid, Look, ReadComm, Settled, OpenRequests, Exit, UserMoves, dirVars,
           serverVars, history, Users
  <1>2. ASSUME ~ raced, since'[p] # None
        PROVE  /\ server[since'[p]] = "serving"
               /\ user'[p] = "comm"
               /\ seen'[p] = since'[p]
    <2>1. CASE ReadSpid(p)
      <3>1. since'[p] = Server
        BY <2>1 DEF ReadSpid, Look
      <3>2. Server \in Boards /\ server[Server] = "serving" /\ spid = Server
        BY <1>2, <3>1, ServingServer DEF DirInv, Named, Live
      <3> QED BY <2>1, <3>1, <3>2, StartupAssumption DEF ReadSpid, UserMoves
    <2>2. CASE ReadComm(p)
      <3>1. since'[p] = since[p]
        BY <1>2, <2>2 DEF ReadComm, Settled
      <3>2. server[since[p]] = "serving" /\ seen[p] = since[p]
        BY <1>2, <3>1, <2>2 DEF DirInv, SinceInv, ReadComm, UserMoves
      <3>3. IsServer(seen[p])
        BY <1>2, <3>1, <3>2 DEF IsServer, HasComm
      <3> QED BY <1>2, <2>2, <3>3 DEF ReadComm, Settled, UserMoves
    <2>3. CASE OpenRequests(p) \/ Exit(p)
      <3>1. user[p] \in {"asleep", "joined"} /\ since'[p] = since[p]
        BY <2>3 DEF OpenRequests, Exit, UserMoves, history
      <3> QED BY <1>2, <3>1 DEF DirInv, SinceInv
    <2> QED BY <2>1, <2>2, <2>3 DEF UserStep
  <1>3. raced \/ SinceInv'
    BY <1>1, <1>2 DEF DirInv, SinceInv
  <1> QED BY <1>1, <1>3, LookerDir DEF DirInv

\* The fifos are there, too.
LEMMA CheckDir ==
  ASSUME StartupInv, DirInv, NEW c \in Checks, CheckStep(c)
  PROVE  DirInv'
  <1> USE DEF StartupInv, StartupTypeOK
  <1> c \in Users /\ c \notin Boards
    BY StartupAssumption DEF Users
  <1>1. /\ raced' = raced
        /\ UNCHANGED <<spid, fifo, server, step, kills>>
        /\ \A b \in Boards : user'[b] = user[b] /\ seen'[b] = seen[b]
        /\ \A u \in (Posts \cup Checks) \ {c} :
             user'[u] = user[u] /\ seen'[u] = seen[u] /\ since'[u] = since[u]
    BY DEF CheckStep, CheckSpid, Look, CheckFifo, CheckCat, CheckPs, Settled, UserMoves, dirVars,
           serverVars, history, Users
  <1>2. ASSUME ~ raced, since'[c] # None
        PROVE  /\ server[since'[c]] = "serving"
               /\ user'[c] \in {"p1", "p2", "p3", "p4", "cat", "ps"}
               /\ user'[c] = "ps" => seen'[c] = since'[c]
    <2>1. CASE CheckSpid(c)
      <3>1. since'[c] = Server
        BY <2>1 DEF CheckSpid, Look
      <3>2. Server \in Boards /\ server[Server] = "serving" /\ spid = Server
        BY <1>2, <3>1, ServingServer DEF DirInv, Named, Live
      <3> QED BY <2>1, <3>1, <3>2, StartupAssumption DEF CheckSpid, UserMoves
    <2>3. CASE \E f \in Paths : CheckFifo(c, f)
      <3>1. PICK f \in Paths : CheckFifo(c, f)
        BY <2>3
      <3>2. since'[c] = since[c]
        BY <3>1 DEF CheckFifo, history
      <3>3. since[c] \in Boards /\ since[c] # None /\ server[since[c]] = "serving"
        BY <1>2, <3>2 DEF DirInv, SinceInv
      <3>4. fifo[f] # None
        BY <3>3 DEF FifoInv
      <3>5. user'[c] \in {"p2", "p3", "p4", "cat"}
        BY <3>1, <3>4 DEF CheckFifo, UserMoves, Probe, Paths
      <3> QED BY <3>2, <3>3, <3>5
    <2>4. CASE CheckCat(c)
      <3>1. since'[c] = since[c]
        BY <2>4 DEF CheckCat, history
      <3>2. since[c] \in Boards /\ server[since[c]] = "serving" /\ spid = since[c]
        BY <1>2, <3>1 DEF DirInv, SinceInv, Named, Live
      <3> QED BY <2>4, <3>1, <3>2, StartupAssumption DEF CheckCat, UserMoves
    <2>5. CASE CheckPs(c)
      <3>1. since'[c] = since[c] /\ user'[c] # "active"
        BY <1>2, <2>5 DEF CheckPs, Settled
      <3>2. server[since[c]] = "serving" /\ seen[c] = since[c]
        BY <1>2, <2>5, <3>1 DEF DirInv, SinceInv, CheckPs, UserMoves
      <3>3. IsListedServer(seen[c])
        BY <1>2, <3>1, <3>2 DEF IsListedServer, IsServer, HasComm, Zombie
      <3> QED BY <2>5, <3>1, <3>3 DEF CheckPs, UserMoves
    <2> QED BY <2>1, <2>3, <2>4, <2>5 DEF CheckStep
  <1>3. raced \/ SinceInv'
    BY <1>1, <1>2 DEF DirInv, SinceInv
  <1> QED BY <1>1, <1>3, LookerDir DEF DirInv

\* While a server is about to write _spid there is no other one.
LEMMA SpidDir ==
  ASSUME StartupInv, DirInv, NEW s \in Boards, TruncateSpid(s) \/ WriteSpid(s)
  PROVE  DirInv'
  <1> SUFFICES ASSUME ~ raced PROVE OneStarts' /\ Named' /\ SinceInv' /\ NoFifoLeft'
    BY DEF DirInv, TruncateSpid, WriteSpid, history
  <1> USE DEF StartupInv, StartupTypeOK, TruncateSpid, WriteSpid, ServerMoves, userVars, history
  <1>1. OneStarts'
    BY DEF DirInv, OneStarts, Starting
  <1>2. \A b \in Boards : ~ Live(b)
    BY DEF DirInv, Named
  <1>3. \A b \in Boards \ {s} : ~ Starting(b)
    BY DEF DirInv, OneStarts, Starting
  <1>4. Named'
    BY <1>2, <1>3 DEF Named, Live, Starting, BoardInv
  <1>5. SinceInv'
    BY DEF DirInv, SinceInv
  <1>6. NoFifoLeft'
    BY <1>2 DEF DirInv, NoFifoLeft, Owns, FifoInv
  <1> QED BY <1>1, <1>4, <1>5, <1>6

\* A path that exists is owned by a running server, which is this one, and is not owned
\* by this one, which creates it now: mkfifo fails only after a kill.
LEMMA MakeFifoDir ==
  ASSUME StartupInv, DirInv, NEW s \in Boards, MakeFifo(s)
  PROVE  DirInv'
  <1> SUFFICES ASSUME ~ raced PROVE OneStarts' /\ Named' /\ SinceInv' /\ NoFifoLeft'
    BY DEF DirInv, MakeFifo, history
  <1> USE DEF StartupInv, StartupTypeOK, MakeFifo, ServerMoves, userVars, history
  <1>1. step[s] \in 0 .. 3 /\ server[s] = "fifos" /\ step[s] + 1 \in Paths
    BY DEF FifoInv, Paths
  <1>2. /\ UNCHANGED <<spid, user, seen, since, kills>>
        /\ \A t \in Boards \ {s} : server'[t] = server[t] /\ step'[t] = step[t]
        /\ server'[s] \in {"fifos", "open", "ended"}
    BY <1>1
  <1>3. OneStarts'
    BY <1>1, <1>2 DEF DirInv, OneStarts, Starting
  <1>4. Named'
    BY <1>1, <1>2 DEF DirInv, Named, Live
  <1>5. SinceInv'
    BY <1>1, <1>2 DEF DirInv, SinceInv
  <1>6. NoFifoLeft'
    <2> SUFFICES ASSUME kills = 0, NEW f \in Paths, fifo'[f] # None PROVE Owns(fifo[f], f)'
      BY <1>2 DEF NoFifoLeft
    <2>1. \A g \in Paths : fifo[g] # None => Owns(fifo[g], g)
      BY DEF DirInv, NoFifoLeft
    <2>2. fifo[step[s] + 1] = None
      <3> SUFFICES ASSUME fifo[step[s] + 1] # None PROVE FALSE
        OBVIOUS
      <3> DEFINE o == fifo[step[s] + 1]
      <3>1. o \in Boards /\ Owns(o, step[s] + 1)
        BY <1>1, <2>1
      <3>2. Live(o) /\ Live(s)
        BY <1>1, <3>1 DEF Owns, Live
      <3>3. o = s
        BY <3>1, <3>2 DEF DirInv, Named
      <3> QED BY <1>1, <3>1, <3>3 DEF Owns
    <2>3. CASE f = step[s] + 1
      <3>1. fifo'[f] = s /\ step'[s] = f
        BY <1>1, <2>2, <2>3
      <3>2. server'[s] \in {"fifos", "open"}
        BY <1>1, <2>2
      <3> QED BY <1>1, <2>3, <3>1, <3>2 DEF Owns, Paths
    <2>4. CASE f # step[s] + 1
      <3>1. fifo'[f] = fifo[f] /\ Owns(fifo[f], f) /\ fifo[f] \in Boards
        BY <1>1, <2>1, <2>2, <2>4
      <3>2. CASE fifo[f] = s
        <4>1. step'[s] = step[s] + 1 /\ server'[s] \in {"fifos", "open"}
          BY <1>1, <2>2
        <4> QED BY <1>1, <3>1, <3>2, <4>1 DEF Owns, Paths
      <3>3. CASE fifo[f] # s
        BY <1>2, <3>1, <3>3 DEF Owns
      <3> QED BY <3>2, <3>3
    <2> QED BY <2>3, <2>4
  <1> QED BY <1>3, <1>4, <1>5, <1>6

LEMMA OpenFifoDir ==
  ASSUME StartupInv, DirInv, NEW s \in Boards, NEW f \in {SelfR, OthersR}, OpenFifo(s, f)
  PROVE  DirInv'
  <1> SUFFICES ASSUME ~ raced PROVE OneStarts' /\ Named' /\ SinceInv' /\ NoFifoLeft'
    BY DEF DirInv, OpenFifo, history
  <1> USE DEF StartupInv, StartupTypeOK, OpenFifo, ServerMoves, dirVars, history
  <1>0. f \in Paths
    BY DEF SelfR, OthersR, Paths
  <1>1. server[s] \in {"open", "open3"} /\ fifo[f] = s /\ fifo[f] # None
    BY <1>0, StartupAssumption DEF FifoInv, SelfR, OthersR
  <1>2. /\ UNCHANGED <<spid, fifo, step, seen, since, kills>>
        /\ \A t \in Boards \ {s} : server'[t] = server[t]
        /\ server'[s] \in {"open3", "serving"}
    BY <1>1
  <1>3. \A u \in Users : \/ user'[u] = user[u]
                         \/ user[u] = "opening" /\ user'[u] = "joined"
    <2>1. user' = Released(f)
      BY <1>1
    <2> HIDE DEF OpenFifo, StartupInv
    <2> QED BY <2>1 DEF Released
  <1>4. OneStarts'
    BY <1>1, <1>2, <1>3 DEF DirInv, OneStarts, Starting, Users
  <1>5. Named'
    BY <1>1, <1>2, <1>3 DEF DirInv, Named, Live, Users
  <1>6. SinceInv'
    BY <1>1, <1>2, <1>3 DEF DirInv, SinceInv, Users
  <1>7. NoFifoLeft'
    BY <1>1, <1>2 DEF DirInv, NoFifoLeft, Owns
  <1> QED BY <1>4, <1>5, <1>6, <1>7

\* since forgets a server that ends.
LEMMA StopDir ==
  ASSUME StartupInv, DirInv, NEW s \in Boards, Stop(s)
  PROVE  DirInv'
  <1> SUFFICES ASSUME ~ raced PROVE OneStarts' /\ Named' /\ SinceInv' /\ NoFifoLeft'
    BY DEF DirInv, Stop
  <1> USE DEF StartupInv, StartupTypeOK, Stop, StopsServing, ServerMoves, dirVars, userVars
  <1>1. OneStarts'
    BY DEF DirInv, OneStarts, Starting
  <1>2. Named'
    BY DEF DirInv, Named, Live
  <1>3. SinceInv'
    BY DEF DirInv, SinceInv
  <1>4. NoFifoLeft'
    BY DEF DirInv, NoFifoLeft, Owns, Paths
  <1> QED BY <1>1, <1>2, <1>3, <1>4

LEMMA RemoveFifoDir ==
  ASSUME StartupInv, DirInv, NEW s \in Boards, RemoveFifo(s)
  PROVE  DirInv'
  <1> SUFFICES ASSUME ~ raced PROVE OneStarts' /\ Named' /\ SinceInv' /\ NoFifoLeft'
    BY DEF DirInv, RemoveFifo, history
  <1> USE DEF StartupInv, StartupTypeOK, RemoveFifo, ServerMoves, userVars, history
  <1>1. step[s] \in 0 .. 3 /\ step[s] + 1 \in Paths
    BY DEF FifoInv, Paths
  <1>2. OneStarts'
    BY DEF DirInv, OneStarts, Starting
  <1>3. Named'
    BY DEF DirInv, Named, Live
  <1>4. SinceInv'
    BY DEF DirInv, SinceInv
  <1>5. NoFifoLeft'
    <2> SUFFICES ASSUME kills = 0, NEW g \in Paths, fifo'[g] # None PROVE Owns(fifo[g], g)'
      BY DEF NoFifoLeft
    <2>1. g # step[s] + 1 /\ fifo'[g] = fifo[g] /\ fifo[g] \in Boards /\ Owns(fifo[g], g)
      BY <1>1 DEF DirInv, NoFifoLeft
    <2>2. CASE fifo[g] = s
      <3>1. g > step[s] + 1 /\ g <= 4
        BY <1>1, <2>1, <2>2 DEF Owns, Paths
      <3>2. server'[s] = "removing" /\ step'[s] = step[s] + 1
        <4>1. step[s] + 1 # 4 /\ server[s] = "removing"
          BY <1>1, <3>1 DEF Paths
        <4> QED BY <4>1
      <3> HIDE DEF StartupInv, StartupTypeOK, RemoveFifo
      <3> QED BY <2>1, <2>2, <3>1, <3>2 DEF Owns
    <2>3. CASE fifo[g] # s
      BY <2>1, <2>3 DEF Owns
    <2> QED BY <2>2, <2>3
  <1> QED BY <1>2, <1>3, <1>4, <1>5

LEMMA KillDir ==
  ASSUME StartupInv, DirInv, NEW s \in Boards, Kill(s)
  PROVE  DirInv'
  <1> SUFFICES ASSUME ~ raced PROVE OneStarts' /\ Named' /\ SinceInv' /\ NoFifoLeft'
    BY DEF DirInv, Kill, userVars
  <1> USE DEF StartupInv, StartupTypeOK, Kill, StopsServing, dirVars, userVars
  <1>1. OneStarts'
    BY DEF DirInv, OneStarts, Starting
  <1>2. Named'
    BY DEF DirInv, Named, Live
  <1>3. SinceInv'
    BY DEF DirInv, SinceInv
  <1>4. NoFifoLeft'
    BY StartupAssumption DEF NoFifoLeft
  <1> QED BY <1>1, <1>2, <1>3, <1>4

LEMMA StutterDir == DirInv /\ UNCHANGED vars => DirInv'
  BY DEF DirInv, OneStarts, Starting, Named, Live, SinceInv, NoFifoLeft, Owns, vars, dirVars,
         serverVars, userVars, history

LEMMA StepDir == StartupInv /\ DirInv /\ [Next]_vars => DirInv'
  <1> SUFFICES ASSUME StartupInv, DirInv, [Next]_vars
               PROVE  DirInv'
    OBVIOUS
  <1>1. ASSUME NEW b \in Boards, BoardStep(b) \/ Exit(b) \/ Shutdown(b)
        PROVE  DirInv'
    BY <1>1, BoardDir, ForkDir DEF BoardStep
  <1>2. ASSUME NEW s \in Boards, ServerStep(s) \/ Kill(s)
        PROVE  DirInv'
    BY <1>2, SpidDir, MakeFifoDir, OpenFifoDir, StopDir, RemoveFifoDir, KillDir DEF ServerStep
  <1>3. ASSUME NEW p \in Posts, UserStep(p) \/ Exit(p)
        PROVE  DirInv'
    BY <1>3, PostDir
  <1>4. ASSUME NEW c \in Checks, CheckStep(c)
        PROVE  DirInv'
    BY <1>4, CheckDir
  <1>5. CASE UNCHANGED vars
    BY <1>5, StutterDir
  <1> QED BY <1>1, <1>2, <1>3, <1>4, <1>5 DEF Next

THEOREM DirInvariant == Spec => []DirInv
  <1>1. Init => DirInv
    BY InitDir
  <1> QED BY <1>1, StepDir, StartupInvariant, PTL DEF Spec

\* Unless two boards looked for a server at once, a boardpost that gives up and a
\* boardcheck.sh that reports no active board are right.  boardpost.c:37-72,
\* boardcheck.sh:9-43
THEOREM RefusedOnlyWithoutServer == Spec => []RefusedRightly
  <1>1. DirInv => RefusedRightly
    BY DEF DirInv, SinceInv, RefusedRightly
  <1> QED BY <1>1, DirInvariant, PTL

\* After shutdowns alone no fifo is left to stop the next server.
\* board_server.c:356-361
THEOREM StopsLeaveNoFifo == Spec => []CleanAfterStop
  <1>1. StartupInv /\ DirInv => CleanAfterStop
    BY DEF StartupInv, StartupTypeOK, DirInv, NoFifoLeft, Owns, CleanAfterStop
  <1> QED BY <1>1, StartupInvariant, DirInvariant, PTL

===============================================================================
