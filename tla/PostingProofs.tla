----------------------------- MODULE PostingProofs -----------------------------
(***************************************************************************)
(* Theorems about Posting, for any number of boardposts, channels and      *)
(* messages, any files, any capacity of the fifos and any descriptors.     *)
(***************************************************************************)
EXTENDS PostingInv, BoardStoreProofs, TLAPS, SequenceTheorems

(* Type correctness *)

TypeInv == TypeOK /\ JobInv

LEMMA HeaderType ==
  ASSUME TypeOK, NEW p \in Posts, nextMid[p] < MaxMid, NEW id \in Ids,
         NEW type \in Kinds, NEW size \in Nat, NEW part \in Nat, NEW flag \in Flags
  PROVE  Header(p, id, type, size, part, flag) \in Fragment
<1>1. nextMid[p] \in Mids
  BY BoundAssumption DEF TypeOK, Mids
<1> QED
  BY <1>1 DEF Header, Fragment

\* A request that is written keeps the fifo and the history typed.
LEMMA WriteOthersType ==
  ASSUME TypeOK, NEW w \in Fragment, WriteOthers(w)
  PROVE  /\ othersR' \in Seq(Fragment)
         /\ ended' \subseteq Keys
<1>1. othersR' \in Seq(Fragment)
  BY AppendProperties DEF WriteOthers, TypeOK
<1>2. Key(w) \in Keys
  BY DEF Key, Keys, Fragment
<1> QED
  BY <1>1, <1>2 DEF WriteOthers, TypeOK

LEMMA TypeInit == Init => TypeInv
<1> SUFFICES ASSUME Init PROVE TypeInv
  OBVIOUS
<1>1. BoardType
  BY DEF Init, CrBboard, EmptyBoard, BoardType, Channels
<1>2. JobInv
  BY DEF Init, JobInv
<1>3. nextMid \in [Posts -> 0 .. MaxMid]
  BY BoundAssumption DEF Init
<1>4. TypeOK
  BY <1>1, <1>3 DEF Init, TypeOK
<1> QED
  BY <1>2, <1>4 DEF TypeInv

LEMMA WriteTextType ==
  ASSUME TypeInv, NEW p \in Posts, NEW id \in Ids, WriteText(p, id)
  PROVE  TypeInv'
<1> DEFINE w == Header(p, id, "w", 1, 1, "y")
<1>1. w \in Fragment
  BY HeaderType DEF WriteText, TypeInv, Kinds, Flags
<1>2. othersR' \in Seq(Fragment) /\ ended' \subseteq Keys
  BY <1>1, WriteOthersType DEF WriteText, TypeInv
<1>3. nextMid' \in [Posts -> 0 .. MaxMid]
  BY BoundAssumption DEF WriteText, TypeInv, TypeOK
<1>4. TypeOK'
  BY <1>2, <1>3 DEF WriteText, TypeInv, TypeOK, BoardType, Channels, serverVars
<1>5. JobInv'
  BY DEF WriteText, TypeInv, TypeOK, JobInv
<1> QED
  BY <1>4, <1>5 DEF TypeInv

LEMMA StartSendType ==
  ASSUME TypeInv, NEW p \in Posts, NEW id \in Ids, NEW file \in FileShapes,
         StartSend(p, id, file)
  PROVE  TypeInv'
<1>1. file \in [frags : Nat, short : BOOLEAN]
  BY BoundAssumption
<1>2. CASE file.frags > 0
  <2>1. job' = [job EXCEPT ![p] = [id |-> id, frags |-> file.frags,
                                   short |-> file.short, next |-> 1]]
    BY <1>1, <1>2 DEF StartSend
  <2>2. [id |-> id, frags |-> file.frags, short |-> file.short, next |-> 1] \in Job
    BY <1>1 DEF Job
  <2>3. UNCHANGED nextMid
    BY <1>1, <1>2 DEF StartSend
  <2>4. TypeOK'
    BY <2>1, <2>2, <2>3 DEF StartSend, TypeInv, TypeOK, BoardType, Channels,
                            serverVars
  <2>5. JobInv'
    BY <1>1, <1>2, <2>1, <2>3 DEF StartSend, TypeInv, TypeOK, JobInv
  <2> QED
    BY <2>4, <2>5 DEF TypeInv
<1>3. CASE file.frags = 0
  <2>1. nextMid' = [nextMid EXCEPT ![p] = @ + 1] /\ UNCHANGED job
    BY <1>3 DEF StartSend
  <2>2. nextMid' \in [Posts -> 0 .. MaxMid]
    BY <2>1, BoundAssumption DEF StartSend, TypeInv, TypeOK
  <2>3. TypeOK'
    BY <2>1, <2>2 DEF StartSend, TypeInv, TypeOK, BoardType, Channels, serverVars
  <2>4. JobInv'
    BY <2>1 DEF StartSend, TypeInv, TypeOK, JobInv
  <2> QED
    BY <2>3, <2>4 DEF TypeInv
<1> QED
  BY <1>1, <1>2, <1>3

LEMMA SendFragmentType ==
  ASSUME TypeInv, NEW p \in Posts, SendFragment(p)
  PROVE  TypeInv'
<1> DEFINE j == job[p]
           last == j.next = j.frags
           w == Header(p, j.id, "f", j.frags, j.next,
                       IF last /\ j.short THEN "y" ELSE "n")
<1>1. j \in Job /\ j # NoJob /\ nextMid[p] < MaxMid /\ j.next <= j.frags
  BY DEF SendFragment, TypeInv, TypeOK, JobInv
<1>2. w \in Fragment
  BY <1>1, HeaderType DEF TypeInv, Kinds, Flags, Job
<1>3. othersR' \in Seq(Fragment) /\ ended' \subseteq Keys
  BY <1>2, WriteOthersType DEF SendFragment, TypeInv
<1>4. CASE last
  <2>1. job' = [job EXCEPT ![p] = NoJob] /\ nextMid' = [nextMid EXCEPT ![p] = @ + 1]
    BY <1>4 DEF SendFragment
  <2>2. nextMid' \in [Posts -> 0 .. MaxMid]
    BY <1>1, <2>1, BoundAssumption DEF TypeInv, TypeOK
  <2>3. TypeOK'
    BY <1>3, <2>1, <2>2 DEF SendFragment, TypeInv, TypeOK, BoardType, Channels,
                            serverVars
  <2>4. JobInv'
    BY <2>1 DEF TypeInv, TypeOK, JobInv
  <2> QED
    BY <2>3, <2>4 DEF TypeInv
<1>5. CASE ~ last
  <2>1. job' = [job EXCEPT ![p].next = @ + 1] /\ nextMid' = nextMid
    BY <1>5 DEF SendFragment
  <2>2. [j EXCEPT !.next = @ + 1] \in Job
    BY <1>1 DEF Job
  <2>3. TypeOK'
    BY <1>3, <2>1, <2>2 DEF SendFragment, TypeInv, TypeOK, BoardType, Channels,
                            serverVars
  <2>4. JobInv'
    BY <1>1, <1>5, <2>1 DEF TypeInv, TypeOK, JobInv, Job
  <2> QED
    BY <2>3, <2>4 DEF TypeInv
<1> QED
  BY <1>4, <1>5

\* A request of the board program.
LEMMA WriteSelfType ==
  ASSUME TypeInv, NEW r \in OwnerRequest, WriteSelf(r),
         owner' \in {"prompt", "texts", "gone"}
  PROVE  TypeInv'
<1>1. selfR' \in Seq(OwnerRequest)
  BY AppendProperties DEF WriteSelf, TypeInv, TypeOK
<1>2. TypeOK'
  BY <1>1 DEF WriteSelf, TypeInv, TypeOK, BoardType, Channels, serverVars, postVars
<1>3. JobInv'
  BY DEF WriteSelf, TypeInv, JobInv, postVars
<1> QED
  BY <1>2, <1>3 DEF TypeInv

LEMMA OwnerStepType ==
  ASSUME TypeInv, OwnerStep
  PROVE  TypeInv'
<1>1. ASSUME NEW id \in Ids, CreateChannel(id)
      PROVE  TypeInv'
  <2>1. [op |-> "CR", id |-> id] \in OwnerRequest
    BY DEF OwnerRequest
  <2>2. owner' \in {"prompt", "texts", "gone"}
    BY <1>1 DEF CreateChannel, WriteSelf
  <2> QED
    BY <1>1, <2>1, <2>2, WriteSelfType DEF CreateChannel
<1>2. ASSUME NEW id \in Ids, GetMessages(id)
      PROVE  TypeInv'
  <2>1. [op |-> "GM", id |-> id] \in OwnerRequest
    BY DEF OwnerRequest
  <2> QED
    BY <1>2, <2>1, WriteSelfType DEF GetMessages
<1>3. CASE Shutdown
  <2>1. [op |-> "SH"] \in OwnerRequest
    BY DEF OwnerRequest
  <2> QED
    BY <1>3, <2>1, WriteSelfType DEF Shutdown
<1>4. CASE ReadReply
  <2>1. /\ Head(selfW) \in Reply
        /\ selfW' \in Seq(Reply)
    BY <1>4, HeadTailProperties DEF ReadReply, TypeInv, TypeOK
  <2>2. delivered' \in [Ids -> SUBSET Message]
    BY <1>4, <2>1 DEF ReadReply, TypeInv, TypeOK, Reply
  <2>3. TypeOK'
    BY <1>4, <2>1, <2>2 DEF ReadReply, TypeInv, TypeOK, BoardType, Channels,
                            serverVars, postVars
  <2>4. JobInv'
    BY <1>4 DEF ReadReply, TypeInv, JobInv, postVars
  <2> QED
    BY <2>3, <2>4 DEF TypeInv
<1>5. CASE ReadEof
  <2>1. TypeOK'
    BY <1>5 DEF ReadEof, TypeInv, TypeOK, BoardType, Channels, serverVars, postVars
  <2>2. JobInv'
    BY <1>5 DEF ReadEof, TypeInv, JobInv, postVars
  <2> QED
    BY <2>1, <2>2 DEF TypeInv
<1> QED
  BY <1>1, <1>2, <1>3, <1>4, <1>5 DEF OwnerStep

\* The server changes nothing of the boardposts but the history.
LEMMA ServerKeepsJobInv ==
  ASSUME TypeInv, UNCHANGED <<job, nextMid>>
  PROVE  JobInv'
BY DEF TypeInv, JobInv

\* The head of self_r, and what is left of it.
LEMMA SelfRequestType ==
  ASSUME TypeInv, NEW op, SelfRequest(op), op \in {"CR", "GM", "SH"}
  PROVE  /\ op # "SH" => Head(selfR).id \in Ids
         /\ selfR' \in Seq(OwnerRequest)
<1>1. Head(selfR) \in OwnerRequest /\ selfR' \in Seq(OwnerRequest)
  BY HeadTailProperties DEF SelfRequest, TypeInv, TypeOK
<1> QED
  BY <1>1 DEF SelfRequest, OwnerRequest

LEMMA ServerStepType ==
  ASSUME TypeInv, ServerStep
  PROVE  TypeInv'
<1> USE FdAssumption
<1>1. CASE Select
  <2>1. TypeOK'
    BY <1>1 DEF Select, Readable, TypeInv, TypeOK, BoardType, Channels, postVars
  <2> QED
    BY <1>1, <2>1, ServerKeepsJobInv DEF Select, postVars, TypeInv
<1>2. CASE Stop
  <2>1. BoardType' /\ selfR' \in Seq(OwnerRequest) /\ othersR' \in Seq(Fragment)
    BY <1>2, EmptyBoardType DEF Stop
  <2>2. TypeOK'
    BY <1>2, <2>1 DEF Stop, TypeInv, TypeOK, postVars
  <2> QED
    BY <1>2, <2>2, ServerKeepsJobInv DEF Stop, postVars, TypeInv
<1>3. CASE ReadEmpty
  <2>1. BoardType' /\ selfR' \in Seq(OwnerRequest) /\ othersR' \in Seq(Fragment)
    BY <1>3, EmptyBoardType DEF ReadEmpty
  <2>2. TypeOK'
    BY <1>3, <2>1 DEF ReadEmpty, TypeInv, TypeOK, postVars
  <2> QED
    BY <1>3, <2>2, ServerKeepsJobInv DEF ReadEmpty, postVars, TypeInv
<1>4. CASE HandleCR
  <2>1. BoardType' /\ selfR' \in Seq(OwnerRequest)
    BY <1>4, GinsertType, SelfRequestType DEF HandleCR, TypeInv, TypeOK
  <2>2. TypeOK'
    BY <1>4, <2>1 DEF HandleCR, SelfRequest, TypeInv, TypeOK, postVars
  <2> QED
    BY <1>4, <2>2, ServerKeepsJobInv DEF HandleCR, SelfRequest, postVars, TypeInv
<1>5. CASE HandleSH
  <2>1. selfR' \in Seq(OwnerRequest)
    BY <1>5, SelfRequestType DEF HandleSH
  <2>2. TypeOK'
    BY <1>5, <2>1 DEF HandleSH, SelfRequest, TypeInv, TypeOK, postVars,
                      BoardType, Channels
  <2> QED
    BY <1>5, <2>2, ServerKeepsJobInv DEF HandleSH, SelfRequest, postVars, TypeInv
<1>6. CASE HandleWR
  <2>1. Head(othersR) \in Fragment /\ othersR' \in Seq(Fragment)
    BY <1>6, HeadTailProperties DEF HandleWR, TypeInv, TypeOK
  <2>2. BoardType'
    BY <1>6, <2>1, AddMessageDType DEF HandleWR, TypeInv, TypeOK
  <2>3. dropped' \subseteq Keys
    BY <1>6, <2>1 DEF HandleWR, TypeInv, TypeOK, Key, Keys, Fragment
  <2>4. TypeOK'
    BY <1>6, <2>1, <2>2, <2>3 DEF HandleWR, TypeInv, TypeOK, postVars
  <2> QED
    BY <1>6, <2>4, ServerKeepsJobInv DEF HandleWR, postVars, TypeInv
<1>7. CASE HandleGM
  <2> DEFINE id == Head(selfR).id
             all == board[id].msgs
             texts == [kind |-> "w", id |-> id, msgs |-> Ready(all, "w")]
             files == [kind |-> "f", id |-> id,
                       msgs |-> Ready(AfterFetch(all, "w"), "f")]
  <2>1. id \in Ids /\ selfR' \in Seq(OwnerRequest)
    BY <1>7, SelfRequestType DEF HandleGM
  <2>2. BoardType'
    BY <1>7, FetchReadyType DEF HandleGM, TypeInv, TypeOK
  <2>3. all \in SUBSET Message
    BY <1>7 DEF HandleGM, TypeInv, TypeOK, BoardType, Channel
  <2>4. texts \in Reply /\ files \in Reply
    BY <2>1, <2>3, AfterFetchShrinks DEF Ready, Reply, Kinds
  <2>5. selfW' \in Seq(Reply)
    <3>1. selfW' = selfW \o <<texts, files>>
      BY <1>7 DEF HandleGM
    <3>2. <<texts, files>> \in Seq(Reply)
      BY <2>4
    <3> HIDE DEF texts, files
    <3> QED
      BY <3>1, <3>2, ConcatProperties DEF TypeInv, TypeOK
  <2>6. TypeOK'
    BY <1>7, <2>1, <2>2, <2>5 DEF HandleGM, SelfRequest, TypeInv, TypeOK, postVars
  <2> QED
    BY <1>7, <2>6, ServerKeepsJobInv DEF HandleGM, SelfRequest, postVars, TypeInv
<1>8. CASE HandleGMUnknown
  <2> DEFINE id == Head(selfR).id
             none(t) == [kind |-> t, id |-> id, msgs |-> {}]
  <2>1. id \in Ids /\ selfR' \in Seq(OwnerRequest)
    BY <1>8, SelfRequestType DEF HandleGMUnknown
  <2>2. BoardType'
    BY <1>8, EmptyBoardType DEF HandleGMUnknown, TypeInv, TypeOK, BoardType, Channels
  <2>3. none("w") \in Reply /\ none("f") \in Reply
    BY <2>1 DEF Reply, Kinds
  <2>4. selfW' \in Seq(Reply)
    <3>1. \/ selfW' = selfW \o <<none("w"), none("f")>>
          \/ selfW' = Append(selfW, none("w"))
      BY <1>8 DEF HandleGMUnknown
    <3>2. <<none("w"), none("f")>> \in Seq(Reply)
      BY <2>3
    <3>3. selfW \in Seq(Reply)
      BY DEF TypeInv, TypeOK
    <3>4. selfW \o <<none("w"), none("f")>> \in Seq(Reply)
      BY <3>2, <3>3, ConcatProperties
    <3>5. Append(selfW, none("w")) \in Seq(Reply)
      BY <2>3, <3>3, AppendProperties
    <3> QED
      BY <3>1, <3>4, <3>5
  <2>5. TypeOK'
    BY <1>8, <2>1, <2>2, <2>4 DEF HandleGMUnknown, SelfRequest, TypeInv, TypeOK,
                                  postVars
  <2> QED
    BY <1>8, <2>5, ServerKeepsJobInv DEF HandleGMUnknown, SelfRequest, postVars,
                                         TypeInv
<1>9. CASE HandleGMCrash
  <2> DEFINE id == Head(selfR).id
             texts == [kind |-> "w", id |-> id, msgs |-> Ready(board[id].msgs, "w")]
  <2>1. id \in Ids /\ selfR' \in Seq(OwnerRequest)
    BY <1>9, SelfRequestType DEF HandleGMCrash
  <2>2. BoardType'
    BY <1>9, EmptyBoardType DEF HandleGMCrash
  <2>3. texts \in Reply
    BY <1>9, <2>1 DEF HandleGMCrash, TypeInv, TypeOK, BoardType, Channel, Ready,
                      Reply, Kinds
  <2>4. selfW' \in Seq(Reply)
    <3>1. selfW \in Seq(Reply)
      BY DEF TypeInv, TypeOK
    <3>2. Append(selfW, texts) \in Seq(Reply)
      BY <2>3, <3>1, AppendProperties
    <3> QED
      BY <1>9, <3>1, <3>2 DEF HandleGMCrash
  <2>5. TypeOK'
    BY <1>9, <2>1, <2>2, <2>4 DEF HandleGMCrash, SelfRequest, TypeInv, TypeOK,
                                  postVars
  <2> QED
    BY <1>9, <2>5, ServerKeepsJobInv DEF HandleGMCrash, SelfRequest, postVars,
                                         TypeInv
<1> QED
  BY <1>1, <1>2, <1>3, <1>4, <1>5, <1>6, <1>7, <1>8, <1>9 DEF ServerStep

LEMMA TypeStep ==
  ASSUME TypeInv, [Next]_vars
  PROVE  TypeInv'
<1>1. ASSUME NEW p \in Posts, PostStep(p)
      PROVE  TypeInv'
  BY <1>1, WriteTextType, StartSendType, SendFragmentType DEF PostStep
<1>2. CASE UNCHANGED vars
  <2>1. TypeOK'
    BY <1>2 DEF vars, TypeInv, TypeOK, BoardType, Channels, serverVars, postVars
  <2> QED
    BY <1>2, <2>1, ServerKeepsJobInv DEF vars, postVars, TypeInv
<1> QED
  BY <1>1, <1>2, OwnerStepType, ServerStepType DEF Next

\* Every variable of Posting has its type in every reachable state.
THEOREM TypeCorrect == Spec => []TypeOK
<1>1. Init => TypeInv
  BY TypeInit
<1>2. TypeInv /\ [Next]_vars => TypeInv'
  BY TypeStep
<1>3. TypeInv => TypeOK
  BY DEF TypeInv
<1> QED
  BY <1>1, <1>2, <1>3, PTL DEF Spec

-------------------------------------------------------------------------------
(* The loop over the descriptors *)

ReadInv == TypeInv /\ ScanInv /\ NoReadFail

LEMMA ReadInit == Init => ReadInv
BY TypeInit DEF Init, ReadInv, ScanInv, NoReadFail, Serving

\* What the programs of the users do can only fill the fifos.
LEMMA ClientsKeepScan ==
  ASSUME ReadInv, UNCHANGED serverVars,
         selfR # <<>> => selfR' # <<>>,
         othersR # <<>> => othersR' # <<>>
  PROVE  ScanInv' /\ NoReadFail'
BY DEF ReadInv, ScanInv, NoReadFail, Serving, serverVars

LEMMA PostStepScan ==
  ASSUME ReadInv, NEW p \in Posts, PostStep(p)
  PROVE  ScanInv' /\ NoReadFail'
<1>1. UNCHANGED <<serverVars, selfR>>
  BY DEF PostStep, WriteText, StartSend, SendFragment
<1>2. othersR # <<>> => othersR' # <<>>
  <2>1. othersR \in Seq(Fragment)
    BY DEF ReadInv, TypeInv, TypeOK
  <2>2. ASSUME NEW w, WriteOthers(w) PROVE othersR' # <<>>
    BY <2>1, <2>2 DEF WriteOthers
  <2> QED
    BY <2>2 DEF PostStep, WriteText, StartSend, SendFragment
<1> QED
  BY <1>1, <1>2, ClientsKeepScan

LEMMA OwnerStepScan ==
  ASSUME ReadInv, OwnerStep
  PROVE  ScanInv' /\ NoReadFail'
<1>1. UNCHANGED <<serverVars, othersR>>
  BY DEF OwnerStep, CreateChannel, GetMessages, Shutdown, WriteSelf, ReadReply, ReadEof
<1>2. selfR # <<>> => selfR' # <<>>
  <2>1. selfR \in Seq(OwnerRequest)
    BY DEF ReadInv, TypeInv, TypeOK
  <2>2. ASSUME NEW r, WriteSelf(r) PROVE selfR' # <<>>
    BY <2>1, <2>2 DEF WriteSelf
  <2> QED
    BY <2>2 DEF OwnerStep, CreateChannel, GetMessages, Shutdown, ReadReply, ReadEof
<1> QED
  BY <1>1, <1>2, ClientsKeepScan

\* A handler of self_r leaves the index above it and others_r as it was.
LEMMA SelfHandlerScan ==
  ASSUME ReadInv, NEW op, SelfRequest(op), NEW i \in Nat, scan' = i,
         FdSelf <= CrResume => FdSelf < i,
         server' # "failed"
  PROVE  ScanInv' /\ NoReadFail'
<1>1. Serving /\ scan <= FdSelf
  BY DEF SelfRequest, Visit
<1>2. FdOthers \in readFds => othersR # <<>>
  BY <1>1, FdAssumption DEF ReadInv, TypeInv, TypeOK, ScanInv
<1>3. UNCHANGED <<othersR, readFds>>
  BY DEF SelfRequest
<1> QED
  BY <1>2, <1>3, FdAssumption DEF ScanInv, NoReadFail

LEMMA ServerStepScan ==
  ASSUME ReadInv, ServerStep
  PROVE  ScanInv' /\ NoReadFail'
<1> USE FdAssumption
<1>1. CASE Select
  BY <1>1 DEF Select, Readable, Fifo, ReadInv, ScanInv, NoReadFail
<1>2. CASE Stop
  BY <1>2 DEF Stop, ScanInv, NoReadFail, Serving
<1>3. CASE ReadEmpty
  <2>1. PICK f \in {FdSelf, FdOthers} : Visit(f) /\ Fifo(f) = <<>>
    BY <1>3 DEF ReadEmpty
  <2>2. ~ (FdSelf <= CrResume)
    BY <2>1 DEF Visit, Fifo, ReadInv, TypeInv, TypeOK, ScanInv
  <2> QED
    BY <1>3, <2>2 DEF ReadEmpty, ScanInv, NoReadFail, Serving
<1>4. CASE HandleCR
  BY <1>4, SelfHandlerScan
  DEF HandleCR, ReadInv, TypeInv, TypeOK, SelfRequest, Visit, Serving
<1>5. CASE HandleSH
  BY <1>5, SelfHandlerScan DEF HandleSH
<1>6. CASE HandleWR
  BY <1>6 DEF HandleWR, ReadInv, ScanInv, NoReadFail, Serving
<1>7. CASE HandleGM
  BY <1>7, SelfHandlerScan DEF HandleGM, SelfRequest, Visit, Serving
<1>8. CASE HandleGMUnknown
  BY <1>8, SelfHandlerScan DEF HandleGMUnknown, SelfRequest, Visit, Serving
<1>9. CASE HandleGMCrash
  BY <1>9, SelfHandlerScan DEF HandleGMCrash
<1> QED
  BY <1>1, <1>2, <1>3, <1>4, <1>5, <1>6, <1>7, <1>8, <1>9 DEF ServerStep

LEMMA ReadStep ==
  ASSUME ReadInv, [Next]_vars
  PROVE  ReadInv'
<1>1. TypeInv'
  BY TypeStep DEF ReadInv
<1>2. CASE UNCHANGED vars
  BY <1>1, <1>2, ClientsKeepScan DEF ReadInv, vars
<1> QED
  BY <1>1, <1>2, PostStepScan, OwnerStepScan, ServerStepScan DEF Next, ReadInv

\* The server never dies of reading an empty fifo, unless the index that the
\* CR handler leaves behind is below the descriptor of self_r.
THEOREM NeverReadsEmpty == Spec => []NoReadFail
<1>1. ReadInv => NoReadFail
  BY DEF ReadInv
<1> QED
  BY <1>1, ReadInit, ReadStep, PTL DEF Spec

-------------------------------------------------------------------------------
(* What the server holds, and the fragments on their way *)

LEMMA HeldType ==
  ASSUME TypeInv, NEW c \in Ids
  PROVE  /\ Stored(c) \subseteq Message
         /\ InReply(c) \subseteq Message
         /\ HandedOut(c) \subseteq Message
         /\ Held(c) \subseteq Message
<1>1. Stored(c) \subseteq Message
  BY DEF Stored, TypeInv, TypeOK, BoardType, Channel
<1>2. \A i \in DOMAIN selfW : selfW[i].msgs \subseteq Message
  <2>1. selfW \in Seq(Reply)
    BY DEF TypeInv, TypeOK
  <2>2. \A i \in DOMAIN selfW : selfW[i] \in Reply
    BY <2>1, LenProperties
  <2> QED
    BY <2>2 DEF Reply
<1>3. InReply(c) \subseteq Message
  BY <1>2 DEF InReply
<1> QED
  BY <1>1, <1>3 DEF HandedOut, Held, TypeInv, TypeOK

LEMMA MidType ==
  ASSUME TypeInv
  PROVE  /\ \A c \in Ids : \A m \in Held(c) : m.mid \in Nat /\ m.pid \in Posts
         /\ \A i \in DOMAIN othersR :
              /\ othersR[i] \in Fragment
              /\ othersR[i].mid \in Nat
              /\ othersR[i].pid \in Posts
              /\ othersR[i].part \in Nat
              /\ othersR[i].msgsize \in Nat
         /\ \A p \in Posts : nextMid[p] \in Nat
<1>1. Mids \subseteq Nat
  BY BoundAssumption DEF Mids
<1>2. othersR \in Seq(Fragment)
  BY DEF TypeInv, TypeOK
<1>3. \A i \in DOMAIN othersR : othersR[i] \in Fragment
  BY <1>2, LenProperties
<1>4. \A c \in Ids : \A m \in Held(c) : m \in Message
  BY HeldType
<1>5. \A p \in Posts : nextMid[p] \in Nat
  BY BoundAssumption DEF TypeInv, TypeOK
<1> QED
  BY <1>1, <1>3, <1>4, <1>5 DEF Message, Fragment

\* A write adds one fragment at the end of the fifo.
LEMMA AfterWrite ==
  ASSUME TypeInv, NEW w \in Fragment, WriteOthers(w), NEW i \in DOMAIN othersR'
  PROVE  \/ i \in DOMAIN othersR /\ othersR'[i] = othersR[i]
         \/ /\ othersR'[i] = w
            /\ \A j \in DOMAIN othersR' : ~ (i < j)
<1>1. othersR \in Seq(Fragment) /\ othersR' = Append(othersR, w)
  BY DEF TypeInv, TypeOK, WriteOthers
<1>2. DOMAIN othersR = 1 .. Len(othersR) /\ Len(othersR) \in Nat
  BY <1>1, LenProperties
<1>3. DOMAIN othersR' = 1 .. Len(othersR) + 1
  BY <1>1, <1>2, AppendProperties, LenProperties
<1> QED
  BY <1>1, <1>2, <1>3, AppendProperties

\* Handling a request moves the others up by one place.
LEMMA AfterRead ==
  ASSUME TypeInv, othersR # <<>>, othersR' = Tail(othersR)
  PROVE  /\ 1 \in DOMAIN othersR
         /\ Head(othersR) = othersR[1]
         /\ \A i \in DOMAIN othersR' :
              /\ i \in Nat /\ i + 1 \in DOMAIN othersR
              /\ 1 < i + 1
              /\ othersR'[i] = othersR[i + 1]
<1>1. othersR \in Seq(Fragment)
  BY DEF TypeInv, TypeOK
<1>2. /\ DOMAIN othersR = 1 .. Len(othersR)
      /\ Len(othersR) \in Nat \ {0}
  BY <1>1, LenProperties, EmptySeq
<1>3. /\ DOMAIN othersR' = 1 .. Len(othersR) - 1
      /\ \A i \in 1 .. Len(othersR) - 1 : othersR'[i] = othersR[i + 1]
  BY <1>1, HeadTailProperties, LenProperties
<1> QED
  BY <1>1, <1>2, <1>3

\* What a step that leaves the board and the replies alone keeps.
LEMMA SameHeld ==
  ASSUME UNCHANGED <<board, selfW, delivered>>
  PROVE  /\ \A c : /\ Stored(c)' = Stored(c)
                   /\ InReply(c)' = InReply(c)
                   /\ HandedOut(c)' = HandedOut(c)
                   /\ Held(c)' = Held(c)
         /\ NoOvertaking => NoOvertaking'
         /\ UniqueInv => UniqueInv'
         /\ RepliesInv => RepliesInv'
<1>1. \A c : /\ Stored(c)' = Stored(c)
            /\ InReply(c)' = InReply(c)
            /\ HandedOut(c)' = HandedOut(c)
            /\ Held(c)' = Held(c)
  BY DEF Stored, InReply, HandedOut, Held, Channels
<1>2. NoOvertaking => NoOvertaking'
  BY <1>1 DEF NoOvertaking, Full
<1>3. UniqueInv => UniqueInv'
  BY <1>1 DEF UniqueInv
<1>4. RepliesInv => RepliesInv'
  BY <1>1 DEF RepliesInv
<1> QED
  BY <1>1, <1>2, <1>3, <1>4

\* The parts of the invariant about fragments.
FragmentInv == QueueInv /\ OrderInv /\ HeldInv /\ AheadInv

\* A boardpost writes fragment w; what its earlier fragments and messages
\* were to its present file before the step, they are to w now.
LEMMA WriteKeepsFragmentInv ==
  ASSUME TypeInv, FragmentInv,
         NEW p \in Posts, NEW w \in Fragment, WriteOthers(w),
         UNCHANGED <<board, selfW, delivered>>,
         w.pid = p,
         w.mid = nextMid[p],
         w.part \in 1 .. w.msgsize,
         w.flag = "y" => w.part = w.msgsize,
         job[p] # NoJob => OfJob(w, w.id) /\ w.part = job[p].next,
         \A q \in Posts : q # p => nextMid'[q] = nextMid[q] /\ job'[q] = job[q],
         \/ nextMid'[p] = nextMid[p] + 1
         \/ /\ nextMid'[p] = nextMid[p]
            /\ job[p] # NoJob
            /\ job'[p] = [job[p] EXCEPT !.next = @ + 1]
            /\ w.flag = "n"
  PROVE  FragmentInv'
<1>1. \A i \in DOMAIN othersR : othersR[i].pid = p =>
        \/ othersR[i].mid < w.mid
        \/ SameMessage(othersR[i], w) /\ othersR[i].id = w.id /\ othersR[i].part < w.part
  BY DEF FragmentInv, QueueInv, OfJob, SameMessage
<1>2. \A c \in Ids : \A m \in Held(c) : m.pid = p =>
        \/ m.mid < w.mid
        \/ SameMessage(m, w) /\ c = w.id /\ m.full = "n"
  BY DEF FragmentInv, HeldInv, OfJob, SameMessage
<1>3. job[p] # NoJob => job[p] \in Job
  BY DEF TypeInv, TypeOK
<1>4. \A c : Held(c)' = Held(c) /\ HandedOut(c)' = HandedOut(c)
  BY SameHeld
<1>5. QueueInv'
  <2>1. ASSUME NEW i \in DOMAIN othersR', NEW v, v = othersR'[i]
        PROVE  /\ v.part \in 1 .. v.msgsize
               /\ v.flag = "y" => v.part = v.msgsize
               /\ \/ v.mid < nextMid'[v.pid]
                  \/ /\ job'[v.pid] # NoJob
                     /\ v.mid = nextMid'[v.pid]
                     /\ v.type = "f"
                     /\ v.id = job'[v.pid].id
                     /\ v.msgsize = job'[v.pid].frags
                     /\ v.part < job'[v.pid].next
    <3>1. CASE v = w
      BY <3>1, <1>3, MidType DEF OfJob, Job, NoJob
    <3>2. CASE i \in DOMAIN othersR /\ v = othersR[i]
      <4>1. v.pid \in Posts /\ v.mid \in Nat /\ v.part \in Nat
        BY <3>2, MidType
      <4>2. /\ v.part \in 1 .. v.msgsize
            /\ v.flag = "y" => v.part = v.msgsize
            /\ v.mid < nextMid[v.pid] \/ (OfJob(v, v.id) /\ v.part < job[v.pid].next)
        BY <3>2 DEF FragmentInv, QueueInv
      <4>3. CASE v.pid # p
        BY <4>1, <4>2, <4>3 DEF OfJob
      <4>4. CASE v.pid = p
        BY <4>1, <4>2, <4>4, <1>3, MidType DEF OfJob, Job, NoJob
      <4> QED
        BY <4>3, <4>4
    <3> QED
      BY <3>1, <3>2, <2>1, AfterWrite
  <2> QED
    BY <2>1 DEF QueueInv, OfJob
<1>6. OrderInv'
  BY <1>1, AfterWrite, MidType DEF FragmentInv, OrderInv, SameMessage
<1>7. HeldInv'
  BY <1>3, <1>4, MidType DEF FragmentInv, HeldInv, OfJob, Job, NoJob
<1>8. AheadInv'
  BY <1>2, <1>4, AfterWrite DEF FragmentInv, AheadInv
<1> QED
  BY <1>5, <1>6, <1>7, <1>8 DEF FragmentInv

LEMMA PostStepFragmentInv ==
  ASSUME TypeInv, FragmentInv, NEW p \in Posts, PostStep(p)
  PROVE  FragmentInv'
<1>1. ASSUME NEW id \in Ids, WriteText(p, id)
      PROVE  FragmentInv'
  <2> DEFINE w == Header(p, id, "w", 1, 1, "y")
  <2>1. w \in Fragment
    BY <1>1, HeaderType DEF WriteText, TypeInv, Kinds, Flags
  <2>2. /\ w.pid = p /\ w.mid = nextMid[p]
        /\ w.part \in 1 .. w.msgsize
        /\ w.part = w.msgsize
    BY DEF Header
  <2>3. /\ job[p] = NoJob /\ UNCHANGED <<job, board, selfW, delivered>>
        /\ WriteOthers(w)
    BY <1>1 DEF WriteText
  <2>4. /\ nextMid'[p] = nextMid[p] + 1
        /\ \A q \in Posts : q # p => nextMid'[q] = nextMid[q]
    BY <1>1 DEF WriteText, TypeInv, TypeOK
  <2> HIDE DEF w
  <2> QED
    BY <2>1, <2>2, <2>3, <2>4, WriteKeepsFragmentInv
<1>2. ASSUME NEW id \in Ids, NEW file \in FileShapes, StartSend(p, id, file)
      PROVE  FragmentInv'
  <2>1. /\ job[p] = NoJob
        /\ UNCHANGED <<board, selfW, delivered, othersR>>
    BY <1>2 DEF StartSend
  <2>2. \A q \in Posts : q # p => job'[q] = job[q] /\ nextMid'[q] = nextMid[q]
    BY <1>2 DEF StartSend, TypeInv, TypeOK
  <2>3. nextMid'[p] \in {nextMid[p], nextMid[p] + 1}
    BY <1>2 DEF StartSend, TypeInv, TypeOK
  <2>4. /\ \A c : Held(c)' = Held(c) /\ HandedOut(c)' = HandedOut(c)
        /\ OrderInv' /\ AheadInv'
    BY <2>1, SameHeld DEF FragmentInv, OrderInv, AheadInv
  <2>5. QueueInv'
    BY <2>1, <2>2, <2>3, MidType DEF FragmentInv, QueueInv, OfJob
  <2>6. HeldInv'
    BY <2>1, <2>2, <2>3, <2>4, MidType DEF FragmentInv, HeldInv, OfJob
  <2> QED
    BY <2>4, <2>5, <2>6 DEF FragmentInv
<1>3. CASE SendFragment(p)
  <2> DEFINE j == job[p]
             last == j.next = j.frags
             w == Header(p, j.id, "f", j.frags, j.next,
                         IF last /\ j.short THEN "y" ELSE "n")
  <2>1. /\ j \in Job /\ j # NoJob /\ nextMid[p] < MaxMid
        /\ j.next \in 1 .. j.frags
    BY <1>3 DEF SendFragment, TypeInv, TypeOK, JobInv, Job, NoJob
  <2>2. w \in Fragment
    BY <2>1, HeaderType DEF TypeInv, Kinds, Flags, Job
  <2>3. /\ w.pid = p /\ w.mid = nextMid[p] /\ w.part \in 1 .. w.msgsize
        /\ w.flag = "y" => w.part = w.msgsize
        /\ OfJob(w, w.id) /\ w.part = j.next
    BY <2>1 DEF Header, OfJob
  <2>4. WriteOthers(w) /\ UNCHANGED <<board, selfW, delivered>>
    BY <1>3 DEF SendFragment
  <2>5. \/ nextMid'[p] = nextMid[p] + 1
        \/ nextMid'[p] = nextMid[p] /\ j # NoJob /\ job'[p] = [j EXCEPT !.next = @ + 1]
            /\ w.flag = "n"
    <3>1. CASE last
      BY <1>3, <3>1 DEF SendFragment, TypeInv, TypeOK
    <3>2. CASE ~ last
      BY <1>3, <3>2 DEF SendFragment, TypeInv, TypeOK, Header
    <3> QED
      BY <3>1, <3>2
  <2>6. \A q \in Posts : q # p => nextMid'[q] = nextMid[q] /\ job'[q] = job[q]
    BY <1>3 DEF SendFragment, TypeInv, TypeOK
  <2> HIDE DEF w, last
  <2> QED
    BY <2>2, <2>3, <2>4, <2>5, <2>6, WriteKeepsFragmentInv
<1> QED
  BY <1>1, <1>2, <1>3 DEF PostStep

\* The parts of the invariant about copies of messages.
CopyInv == UniqueInv /\ NoOvertaking /\ RepliesInv

DeliveryInv == TypeInv /\ FragmentInv /\ CopyInv

LEMMA PostStepDelivery ==
  ASSUME DeliveryInv, NEW p \in Posts, PostStep(p)
  PROVE  FragmentInv' /\ CopyInv'
<1>1. UNCHANGED <<board, selfW, delivered>>
  BY DEF PostStep, WriteText, StartSend, SendFragment
<1> QED
  BY <1>1, PostStepFragmentInv, SameHeld DEF DeliveryInv, CopyInv

\* A message is not stored and handed out at once.
LEMMA StoredNotHandedOut ==
  ASSUME DeliveryInv, NEW c \in Ids
  PROVE  Stored(c) \cap HandedOut(c) = {}
<1> SUFFICES ASSUME NEW m \in Stored(c), m \in HandedOut(c) PROVE FALSE
  OBVIOUS
<1>1. m \in Full(Stored(c))
  BY DEF DeliveryInv, FragmentInv, HeldInv, Held, Full
<1>2. m.mid \in Nat
  BY MidType DEF DeliveryInv, Held
<1> QED
  BY <1>1, <1>2 DEF DeliveryInv, CopyInv, NoOvertaking

\* A step of the server that takes no fragment and adds nothing to what it
\* holds keeps what relates its messages to the fragments.
LEMMA HeldShrinks ==
  ASSUME DeliveryInv,
         UNCHANGED <<job, nextMid>>,
         othersR' = othersR \/ othersR' = <<>>,
         \A c \in Ids : Held(c)' \subseteq Held(c),
         \A c \in Ids : \A m \in HandedOut(c)' : m.full = "y"
  PROVE  FragmentInv' /\ UniqueInv'
<1>1. \A i \in DOMAIN othersR' : i \in DOMAIN othersR /\ othersR'[i] = othersR[i]
  OBVIOUS
<1>2. QueueInv' /\ OrderInv'
  BY <1>1 DEF DeliveryInv, FragmentInv, QueueInv, OrderInv, OfJob
<1>3. HeldInv'
  BY DEF DeliveryInv, FragmentInv, HeldInv, OfJob
<1>4. AheadInv'
  BY <1>1 DEF DeliveryInv, FragmentInv, AheadInv
<1>5. UniqueInv'
  BY DEF DeliveryInv, CopyInv, UniqueInv
<1> QED
  BY <1>2, <1>3, <1>4, <1>5 DEF FragmentInv

\* The end of the server: what is stored is gone.
LEMMA StoredGone ==
  ASSUME board' = EmptyBoard
  PROVE  \A c : Stored(c)' = {}
BY DEF Stored, Channels, EmptyBoard

\* ReadReply only moves messages from a reply to those delivered.
LEMMA ReadReplyKeepsHandedOut ==
  ASSUME TypeInv, ReadReply, NEW c \in Ids
  PROVE  HandedOut(c)' = HandedOut(c)
<1>1. PICK r \in Reply : r = Head(selfW)
  BY HeadTailProperties DEF ReadReply, TypeInv, TypeOK
<1>2. /\ r = selfW[1] /\ 1 \in DOMAIN selfW
      /\ \A i \in DOMAIN selfW' : i + 1 \in DOMAIN selfW /\ selfW'[i] = selfW[i + 1]
      /\ \A i \in DOMAIN selfW : i # 1 =>
           i - 1 \in DOMAIN selfW' /\ selfW'[i - 1] = selfW[i]
  <2>1. selfW \in Seq(Reply) /\ selfW # <<>> /\ selfW' = Tail(selfW)
    BY DEF ReadReply, TypeInv, TypeOK
  <2> QED
    BY <1>1, <2>1, HeadTailProperties, LenProperties, EmptySeq
<1>3. delivered'[c] = IF c = r.id THEN delivered[c] \cup r.msgs ELSE delivered[c]
  BY <1>1 DEF ReadReply, TypeInv, TypeOK, Reply
<1>4. InReply(c)' \subseteq InReply(c)
  BY <1>2 DEF InReply
<1>5. r.id = c => r.msgs \subseteq InReply(c)
  BY <1>2 DEF InReply
<1>6. ASSUME NEW m \in InReply(c), ~ (r.id = c /\ m \in r.msgs)
      PROVE  m \in InReply(c)'
  BY <1>2, <1>6 DEF InReply
<1> QED
  BY <1>3, <1>4, <1>5, <1>6 DEF HandedOut

LEMMA OwnerStepDelivery ==
  ASSUME DeliveryInv, OwnerStep
  PROVE  FragmentInv' /\ CopyInv'
<1>1. UNCHANGED <<board, othersR, job, nextMid>>
  BY DEF OwnerStep, CreateChannel, GetMessages, Shutdown, WriteSelf, ReadReply,
         ReadEof, postVars
<1>2. CASE UNCHANGED <<selfW, delivered>>
  <2>1. \A c : Held(c)' = Held(c) /\ HandedOut(c)' = HandedOut(c)
    BY <1>1, <1>2, SameHeld
  <2>2. \A c \in Ids : \A m \in HandedOut(c)' : m.full = "y"
    BY <2>1 DEF DeliveryInv, FragmentInv, HeldInv, Held
  <2>3. FragmentInv'
    BY <1>1, <2>1, <2>2, HeldShrinks
  <2> QED
    BY <1>1, <1>2, <2>3, SameHeld DEF DeliveryInv, CopyInv
<1>3. CASE ReadReply
  <2> DEFINE r == Head(selfW)
  <2>1. /\ selfW \in Seq(Reply) /\ selfW # <<>>
        /\ r = selfW[1] /\ r \in Reply
        /\ 1 \in DOMAIN selfW
        /\ DOMAIN selfW' = 1 .. Len(selfW) - 1
        /\ DOMAIN selfW = 1 .. Len(selfW)
        /\ Len(selfW) \in Nat
        /\ \A i \in DOMAIN selfW' : selfW'[i] = selfW[i + 1]
    <3>1. selfW \in Seq(Reply) /\ selfW # <<>> /\ selfW' = Tail(selfW)
      BY <1>3 DEF ReadReply, DeliveryInv, TypeInv, TypeOK
    <3> QED
      BY <3>1, HeadTailProperties, LenProperties, EmptySeq
  <2>2. delivered' = [delivered EXCEPT ![r.id] = @ \cup r.msgs]
    BY <1>3 DEF ReadReply
  <2>3. /\ r.id \in Ids
        /\ \A c \in Ids : delivered'[c] =
             IF c = r.id THEN delivered[c] \cup r.msgs ELSE delivered[c]
    BY <2>1, <2>2 DEF DeliveryInv, TypeInv, TypeOK, Reply
  <2>4. \A c \in Ids : HandedOut(c)' = HandedOut(c)
    BY <1>3, ReadReplyKeepsHandedOut DEF DeliveryInv
  <2>5. \A c \in Ids : Stored(c)' = Stored(c) /\ Held(c)' = Held(c)
    BY <1>1, <2>4 DEF Stored, Held, Channels
  <2>6. FragmentInv' /\ UniqueInv'
    <3>1. \A c \in Ids : \A m \in HandedOut(c)' : m.full = "y"
      BY <2>4 DEF DeliveryInv, FragmentInv, HeldInv, Held
    <3> QED
      BY <1>1, <2>5, <3>1, HeldShrinks
  <2>7. NoOvertaking'
    BY <2>4, <2>5 DEF DeliveryInv, CopyInv, NoOvertaking, Full
  <2>8. RepliesInv'
    <3>1. \A i, j \in DOMAIN selfW' : selfW'[i].msgs \cap selfW'[j].msgs # {} => i = j
      <4> SUFFICES ASSUME NEW i \in DOMAIN selfW', NEW j \in DOMAIN selfW',
                          selfW'[i].msgs \cap selfW'[j].msgs # {}
                   PROVE  i = j
        OBVIOUS
      <4>1. i + 1 \in DOMAIN selfW /\ j + 1 \in DOMAIN selfW
        BY <2>1
      <4>2. i + 1 = j + 1
        BY <2>1, <4>1 DEF DeliveryInv, CopyInv, RepliesInv
      <4> QED
        BY <2>1, <4>2
    <3>2. ASSUME NEW c \in Ids, NEW m \in InReply(c)', m \in delivered'[c]
          PROVE  FALSE
      <4>1. PICK i \in DOMAIN selfW' : m \in selfW'[i].msgs
        BY <3>2 DEF InReply
      <4>2. i + 1 \in DOMAIN selfW /\ m \in selfW[i + 1].msgs /\ i + 1 # 1
        BY <2>1, <4>1
      <4>3. m \notin r.msgs
        BY <2>1, <4>2 DEF DeliveryInv, CopyInv, RepliesInv
      <4>4. m \in InReply(c)
        BY <2>1, <3>2 DEF InReply
      <4> QED
        BY <2>3, <3>2, <4>3, <4>4 DEF DeliveryInv, CopyInv, RepliesInv
    <3> QED
      BY <3>1, <3>2 DEF RepliesInv
  <2> QED
    BY <2>6, <2>7, <2>8 DEF CopyInv
<1> QED
  BY <1>2, <1>3 DEF OwnerStep, CreateChannel, GetMessages, Shutdown, WriteSelf, ReadEof

\* What a fetch leaves is not full, and the files it finds are none of the
\* texts it found before.
LEMMA FetchTakesFull ==
  ASSUME NEW msgs \in SUBSET Message
  PROVE  /\ Full(AfterFetch(AfterFetch(msgs, "w"), "f")) = {}
         /\ Ready(msgs, "w") \cup Ready(AfterFetch(msgs, "w"), "f") = Full(msgs)
         /\ Ready(msgs, "w") \cap Ready(AfterFetch(msgs, "w"), "f") = {}
<1>1. \A m \in msgs : m.type \in {"w", "f"}
  BY DEF Message, Kinds
<1>2. \A m : SameMessage(m, m)
  BY DEF SameMessage
<1>3. \A m \in msgs : m.type = "f" => m \in AfterFetch(msgs, "w")
  BY DEF AfterFetch, Ready, SameMessage
<1>4. Ready(msgs, "w") \cup Ready(AfterFetch(msgs, "w"), "f") = Full(msgs)
  BY <1>1, <1>3, AfterFetchShrinks DEF Full, Ready
<1>5. Full(AfterFetch(AfterFetch(msgs, "w"), "f")) = {}
  BY <1>1, <1>2 DEF Full, AfterFetch, Ready
<1> QED
  BY <1>4, <1>5 DEF Ready

\* The full messages of channel id move to two replies, texts and files.
Answers(id, texts, files) ==
  /\ id \in Channels
  /\ Channels' = Channels
  /\ texts \cup files = Full(Stored(id))
  /\ texts \cap files = {}
  /\ Stored(id)' = AfterFetch(AfterFetch(Stored(id), "w"), "f")
  /\ Stored(id)' \subseteq Stored(id)
  /\ Full(Stored(id)') = {}
  /\ HandedOut(id)' = HandedOut(id) \cup texts \cup files
  /\ InReply(id)' = InReply(id) \cup texts \cup files
  /\ \A c \in Ids : c # id => /\ Stored(c)' = Stored(c)
                             /\ InReply(c)' = InReply(c)
                             /\ HandedOut(c)' = HandedOut(c)

LEMMA HandleGMEffect ==
  ASSUME TypeInv, HandleGM
  PROVE  \E id \in Ids, texts \in SUBSET Message, files \in SUBSET Message :
           /\ Answers(id, texts, files)
           /\ \A i \in DOMAIN selfW : i \in DOMAIN selfW' /\ selfW'[i] = selfW[i]
           /\ \E n \in Nat :
                /\ DOMAIN selfW = 1 .. n
                /\ DOMAIN selfW' = 1 .. n + 2
                /\ selfW'[n + 1].msgs = texts
                /\ selfW'[n + 2].msgs = files
<1>1. PICK id \in Ids, all \in SUBSET Message :
        /\ id = Head(selfR).id /\ id \in Channels
        /\ all = board[id].msgs /\ all = Stored(id)
  BY DEF HandleGM, TypeInv, TypeOK, BoardType, Channel, Stored
<1>0. PICK n \in Nat : n = Len(selfW)
  BY LenProperties DEF TypeInv, TypeOK
<1> DEFINE texts == [kind |-> "w", id |-> id, msgs |-> Ready(all, "w")]
           files == [kind |-> "f", id |-> id, msgs |-> Ready(AfterFetch(all, "w"), "f")]
<1>2. /\ UNCHANGED <<othersR, job, nextMid, delivered>>
      /\ selfW' = selfW \o <<texts, files>>
      /\ board' = [board EXCEPT ![id].msgs = AfterFetch(AfterFetch(@, "w"), "f")]
  BY <1>1 DEF HandleGM, SelfRequest, FetchReady, postVars
<1>3. /\ \A c \in Ids : c # id => Stored(c)' = Stored(c)
      /\ Stored(id)' = AfterFetch(AfterFetch(all, "w"), "f")
  <2>1. board[id] \in Channel
    BY <1>1 DEF TypeInv, TypeOK, BoardType
  <2>2. board'[id].msgs = AfterFetch(AfterFetch(all, "w"), "f")
    BY <1>1, <1>2, <2>1 DEF Channels, Channel
  <2>3. DOMAIN board' = DOMAIN board /\ \A c \in DOMAIN board : c # id => board'[c] = board[c]
    BY <1>2
  <2> QED
    BY <1>1, <2>2, <2>3 DEF Stored, Channels
<1>4. /\ Stored(id)' = AfterFetch(AfterFetch(Stored(id), "w"), "f")
      /\ Stored(id)' \subseteq Stored(id) /\ Full(Stored(id)') = {}
      /\ texts.msgs \cup files.msgs = Full(Stored(id))
      /\ texts.msgs \cap files.msgs = {}
  BY <1>1, <1>3, FetchTakesFull, AfterFetchShrinks
<1>5. /\ selfW \in Seq(Reply) /\ n \in Nat
      /\ DOMAIN selfW = 1 .. n
      /\ DOMAIN selfW' = 1 .. n + 2
      /\ \A i \in 1 .. n : selfW'[i] = selfW[i]
      /\ selfW'[n + 1] = texts
      /\ selfW'[n + 2] = files
  <2>1. selfW \in Seq(Reply)
    BY DEF TypeInv, TypeOK
  <2>2. texts \in Reply /\ files \in Reply
    BY <1>1, AfterFetchShrinks DEF Ready, Reply, Kinds
  <2>3. /\ <<texts, files>> \in Seq(Reply) /\ Len(<<texts, files>>) = 2
        /\ <<texts, files>>[1] = texts /\ <<texts, files>>[2] = files
    BY <2>2
  <2> HIDE DEF texts, files
  <2> QED
    BY <1>0, <1>2, <2>1, <2>3, LenProperties, ConcatProperties
<1>6. /\ \A c \in Ids : c # id => InReply(c)' = InReply(c)
      /\ InReply(id)' = InReply(id) \cup texts.msgs \cup files.msgs
  <2>1. \A i \in DOMAIN selfW' :
          i \in DOMAIN selfW \/ i = n + 1 \/ i = n + 2
    BY <1>5
  <2>2. texts.id = id /\ files.id = id
    OBVIOUS
  <2>3. /\ n + 1 \in DOMAIN selfW' /\ n + 2 \in DOMAIN selfW'
        /\ \A i \in DOMAIN selfW : i \in DOMAIN selfW' /\ selfW'[i] = selfW[i]
    BY <1>5
  <2> HIDE DEF texts, files
  <2> QED
    BY <1>5, <2>1, <2>2, <2>3 DEF InReply
<1>7. /\ \A c \in Ids : c # id => HandedOut(c)' = HandedOut(c)
      /\ HandedOut(id)' = HandedOut(id) \cup texts.msgs \cup files.msgs
  BY <1>1, <1>2, <1>6 DEF HandedOut
<1>8. Channels' = Channels
  BY <1>1, <1>2 DEF Channels
<1>9. Answers(id, texts.msgs, files.msgs)
  BY <1>1, <1>3, <1>4, <1>6, <1>7, <1>8 DEF Answers
<1>10. texts.msgs \in SUBSET Message /\ files.msgs \in SUBSET Message
  BY <1>1, AfterFetchShrinks DEF Ready
<1>11. \A i \in DOMAIN selfW : i \in DOMAIN selfW' /\ selfW'[i] = selfW[i]
  BY <1>5
<1> HIDE DEF texts, files
<1> QED
  BY <1>5, <1>9, <1>10, <1>11

\* The step of GM keeps the invariant.
LEMMA HandleGMDelivery ==
  ASSUME DeliveryInv, HandleGM
  PROVE  FragmentInv' /\ CopyInv'
<1>1. PICK id \in Ids, texts \in SUBSET Message, files \in SUBSET Message :
        /\ Answers(id, texts, files)
        /\ \A i \in DOMAIN selfW : i \in DOMAIN selfW' /\ selfW'[i] = selfW[i]
        /\ \E n \in Nat :
             /\ DOMAIN selfW = 1 .. n
             /\ DOMAIN selfW' = 1 .. n + 2
             /\ selfW'[n + 1].msgs = texts
             /\ selfW'[n + 2].msgs = files
  BY HandleGMEffect DEF DeliveryInv
<1>2. UNCHANGED <<othersR, job, nextMid, delivered>> /\ selfW \in Seq(Reply)
  BY DEF HandleGM, SelfRequest, FetchReady, postVars, DeliveryInv, TypeInv, TypeOK
<1>3. PICK n \in Nat : /\ DOMAIN selfW = 1 .. n
                      /\ DOMAIN selfW' = 1 .. n + 2
                      /\ selfW'[n + 1].msgs = texts
                      /\ selfW'[n + 2].msgs = files
  BY <1>1
<1>4. \A c \in Ids : Held(c)' \subseteq Held(c)
  BY <1>1 DEF Answers, Held, Full
<1>5. \A c \in Ids : \A m \in HandedOut(c)' : m.full = "y"
  BY <1>1 DEF Answers, DeliveryInv, FragmentInv, HeldInv, Held, Full
<1>6. FragmentInv' /\ UniqueInv'
  BY <1>2, <1>4, <1>5, HeldShrinks
<1>7. NoOvertaking'
  BY <1>1 DEF Answers, DeliveryInv, CopyInv, NoOvertaking, Full
<1>8. \A m \in texts \cup files : /\ \A i \in DOMAIN selfW : m \notin selfW[i].msgs
                                /\ m \notin delivered[id]
  <2> SUFFICES ASSUME NEW m \in texts \cup files
               PROVE  /\ \A i \in DOMAIN selfW : m \notin selfW[i].msgs
                      /\ m \notin delivered[id]
    OBVIOUS
  <2>1. m \in Stored(id) /\ m \notin HandedOut(id)
    BY <1>1, StoredNotHandedOut DEF Answers, Full
  <2>2. ASSUME NEW i \in DOMAIN selfW, m \in selfW[i].msgs PROVE FALSE
    <3>1. selfW[i].id \in Ids
      <4>1. selfW[i] \in Reply
        BY <1>2, LenProperties, ElementOfSeq
      <4> QED
        BY <4>1 DEF Reply
    <3>2. m \in HandedOut(selfW[i].id)
      BY <2>2, <3>1 DEF InReply, HandedOut
    <3>3. selfW[i].id = id
      BY <1>1, <2>1, <3>1, <3>2 DEF DeliveryInv, CopyInv, UniqueInv, Held
    <3> QED
      BY <2>1, <3>2, <3>3
  <2> QED
    BY <2>1, <2>2 DEF HandedOut
<1>9. RepliesInv'
  <2>1. \A c \in Ids : InReply(c)' \cap delivered'[c] = {}
    BY <1>1, <1>2, <1>8 DEF Answers, DeliveryInv, CopyInv, RepliesInv
  <2>2. \A i, j \in DOMAIN selfW' : selfW'[i].msgs \cap selfW'[j].msgs # {} => i = j
    <3> SUFFICES ASSUME NEW i \in DOMAIN selfW', NEW j \in DOMAIN selfW',
                        i < j, selfW'[i].msgs \cap selfW'[j].msgs # {}
                 PROVE  FALSE
      BY <1>3
    <3>1. CASE j \in DOMAIN selfW
      BY <1>1, <1>3, <3>1 DEF DeliveryInv, CopyInv, RepliesInv
    <3>2. CASE i \in DOMAIN selfW /\ j \in {n + 1, n + 2}
      BY <1>1, <1>3, <1>8, <3>2
    <3>3. CASE i = n + 1 /\ j = n + 2
      BY <1>1, <1>3, <3>3 DEF Answers
    <3> QED
      BY <1>3, <3>1, <3>2, <3>3
  <2> QED
    BY <2>1, <2>2 DEF RepliesInv
<1> QED
  BY <1>6, <1>7, <1>9 DEF CopyInv

\* Fragment w makes message x, in the place of the messages old.
Stores(w, x, old) ==
  /\ w.id \in Channels
  /\ Channels' = Channels
  /\ \A m \in old : SameMessage(m, w)
  /\ \A m \in Stored(w.id) : SameMessage(m, w) => m \in old
  /\ SameMessage(x, w) /\ x.full = w.flag
  /\ Stored(w.id)' = (Stored(w.id) \ old) \cup {x}
  /\ \A c \in Ids : c # w.id => Stored(c)' = Stored(c)
  /\ \/ old = {} /\ x = NewMessage(w)
     \/ \E m \in Stored(w.id) : old = {m} /\ x = Extended(m, w)

LEMMA AddMessageDEffect ==
  ASSUME DeliveryInv, NEW w \in Fragment, AddMessageD(w), w.id \in Channels
  PROVE  \E x \in Message, old \in SUBSET Stored(w.id) : Stores(w, x, old)
<1>1. /\ w.id \in Ids /\ w.id \in Channels /\ board[w.id] \in Channel
      /\ Stored(w.id) = board[w.id].msgs
  BY DEF AddMessageD, Fragment, DeliveryInv, TypeInv, TypeOK, BoardType, Stored
<1>2. ASSUME NEW msgs, NEW out,
             board' = [board EXCEPT ![w.id] = [msgs |-> msgs, out |-> out]]
      PROVE  /\ Stored(w.id)' = msgs
             /\ Channels' = Channels
             /\ \A c \in Ids : c # w.id => Stored(c)' = Stored(c)
  BY <1>1, <1>2 DEF Stored, Channels
<1>3. CASE /\ \A m \in board[w.id].msgs : ~ SameMessage(m, w)
           /\ board' = [board EXCEPT ![w.id] =
                [msgs |-> @.msgs \cup {NewMessage(w)}, out |-> @.out + 1]]
  <2>1. /\ Stored(w.id)' = (Stored(w.id) \ {}) \cup {NewMessage(w)}
        /\ Channels' = Channels
        /\ \A c \in Ids : c # w.id => Stored(c)' = Stored(c)
    BY <1>1, <1>2, <1>3
  <2>2. /\ NewMessage(w) \in Message /\ NewMessage(w).full = w.flag
        /\ SameMessage(NewMessage(w), w)
    BY NewMessageType DEF NewMessage, SameMessage
  <2>3. Stores(w, NewMessage(w), {})
    BY <1>1, <1>3, <2>1, <2>2 DEF Stores
  <2> QED
    BY <2>2, <2>3
<1>4. CASE \E m \in board[w.id].msgs :
             /\ SameMessage(m, w)
             /\ board' = [board EXCEPT ![w.id].msgs =
                            (@ \ {m}) \cup {Extended(m, w)}]
  <2>1. PICK m \in board[w.id].msgs :
          /\ SameMessage(m, w)
          /\ board' = [board EXCEPT ![w.id].msgs = (@ \ {m}) \cup {Extended(m, w)}]
    BY <1>4
  <2>2. board' = [board EXCEPT ![w.id] =
                   [msgs |-> (@.msgs \ {m}) \cup {Extended(m, w)}, out |-> @.out]]
    <3>1. [board[w.id] EXCEPT !.msgs = (@ \ {m}) \cup {Extended(m, w)}]
            = [msgs |-> (board[w.id].msgs \ {m}) \cup {Extended(m, w)},
               out |-> board[w.id].out]
      BY <1>1 DEF Channel
    <3> QED
      BY <2>1, <3>1
  <2>3. /\ Stored(w.id)' = (Stored(w.id) \ {m}) \cup {Extended(m, w)}
        /\ Channels' = Channels
        /\ \A c \in Ids : c # w.id => Stored(c)' = Stored(c)
    BY <1>1, <1>2, <2>2
  <2>4. m \in Message /\ m \in Stored(w.id)
    BY <1>1, <2>1 DEF Channel
  <2>5. /\ Extended(m, w) \in Message /\ Extended(m, w).full = w.flag
        /\ SameMessage(Extended(m, w), w)
    BY <2>1, <2>4, ExtendedType DEF Extended, SameMessage, Message
  <2>6. \A n \in Stored(w.id) : SameMessage(n, w) => n \in {m}
    BY <1>1, <2>1, <2>4 DEF DeliveryInv, CopyInv, UniqueInv, Held, Key, SameMessage
  <2>7. Stores(w, Extended(m, w), {m})
    BY <1>1, <2>1, <2>3, <2>5, <2>6 DEF Stores
  <2> QED
    BY <2>4, <2>5, <2>7
<1> QED
  BY <1>1, <1>3, <1>4 DEF AddMessageD

\* The step of WR: the fragment at the head of the fifo makes a message, or
\* extends the one that it continues, or is refused.
LEMMA HandleWRDelivery ==
  ASSUME DeliveryInv, HandleWR
  PROVE  FragmentInv' /\ CopyInv'
<1>1. PICK w \in Fragment : w = Head(othersR)
  BY HeadTailProperties DEF HandleWR, DeliveryInv, TypeInv, TypeOK
<1>2. /\ UNCHANGED <<job, nextMid, selfW, delivered>>
      /\ othersR # <<>> /\ othersR' = Tail(othersR)
      /\ AddMessageD(w)
  BY <1>1 DEF HandleWR, postVars
<1>3. /\ 1 \in DOMAIN othersR /\ w = othersR[1]
      /\ \A i \in DOMAIN othersR' :
           /\ i \in Nat /\ i + 1 \in DOMAIN othersR /\ 1 < i + 1
           /\ othersR'[i] = othersR[i + 1]
  BY <1>1, <1>2, AfterRead DEF DeliveryInv
<1>4. /\ w.mid \in Nat /\ w.part \in Nat /\ w.msgsize \in Nat
      /\ w.part \in 1 .. w.msgsize
      /\ w.flag = "y" => w.part = w.msgsize
      /\ w.mid < nextMid[w.pid] \/ (OfJob(w, w.id) /\ w.flag = "n")
  <2>1. job[w.pid] # NoJob => job[w.pid].next \in Nat /\ job[w.pid].frags \in Nat
        /\ job[w.pid].next <= job[w.pid].frags
    BY <1>1 DEF DeliveryInv, TypeInv, TypeOK, JobInv, Job, Fragment
  <2>2. w.mid \in Nat /\ w.part \in Nat /\ w.msgsize \in Nat /\ w.flag \in {"y", "n"}
    BY <1>1, <1>3, MidType DEF DeliveryInv, Fragment, Flags
  <2> QED
    BY <1>3, <2>1, <2>2 DEF DeliveryInv, FragmentInv, QueueInv, OfJob
\* What is held of the message of w is the stored message that w continues.
<1>5. \A c \in Ids : \A m \in Held(c) : m.pid = w.pid =>
        \/ m.mid < w.mid
        \/ SameMessage(m, w) /\ c = w.id /\ m.full = "n"
  BY <1>3 DEF DeliveryInv, FragmentInv, AheadInv
<1>6. \A c : InReply(c)' = InReply(c) /\ HandedOut(c)' = HandedOut(c)
  BY <1>2 DEF InReply, HandedOut
<1>7. RepliesInv'
  BY <1>2, <1>6 DEF DeliveryInv, CopyInv, RepliesInv
<1>8. QueueInv' /\ OrderInv'
  <2>1. QueueInv'
    BY <1>2, <1>3 DEF DeliveryInv, FragmentInv, QueueInv, OfJob
  <2>2. \A i, j \in DOMAIN othersR' : i < j => i + 1 < j + 1
    BY <1>3
  <2>3. OrderInv'
    BY <1>3, <2>2 DEF DeliveryInv, FragmentInv, OrderInv
  <2> QED
    BY <2>1, <2>3
\* The fragments behind w are of later messages or continue that of w, which
\* is then not full.
<1>9. \A i \in DOMAIN othersR' : othersR'[i].pid = w.pid =>
        \/ w.mid < othersR'[i].mid
        \/ SameMessage(w, othersR'[i]) /\ w.id = othersR'[i].id /\ w.flag = "n"
  <2> SUFFICES ASSUME NEW i \in DOMAIN othersR', NEW v, v = othersR'[i], v.pid = w.pid,
                      ~ (w.mid < v.mid)
               PROVE  SameMessage(w, v) /\ w.id = v.id /\ w.flag = "n"
    OBVIOUS
  <2>1. SameMessage(w, v) /\ w.id = v.id /\ w.part < v.part
    BY <1>3 DEF DeliveryInv, FragmentInv, OrderInv
  <2>2. v.part \in 1 .. v.msgsize
    BY <1>3 DEF DeliveryInv, FragmentInv, QueueInv
  <2> QED
    BY <1>1, <1>4, <2>1, <2>2 DEF SameMessage, Fragment, Flags
<1>10. ASSUME NEW x \in Message, NEW old, w.id \in Channels, w.id \in Ids,
              old \subseteq Stored(w.id),
              \A m \in Stored(w.id) : SameMessage(m, w) => m \in old,
              \A m \in old : SameMessage(m, w),
              SameMessage(x, w), x.full = w.flag,
              Stored(w.id)' = (Stored(w.id) \ old) \cup {x},
              \A c \in Ids : c # w.id => Stored(c)' = Stored(c)
       PROVE  FragmentInv' /\ CopyInv'
  <2>1. \A c \in Ids : \A m \in Held(c)' : m \in Held(c) \/ (c = w.id /\ m = x)
    BY <1>6, <1>10 DEF Held
  <2>2. x.pid = w.pid /\ x.mid = w.mid /\ x.type = w.type /\ x.msgsize = w.msgsize
    BY <1>10 DEF SameMessage
  <2>3. \A c \in Ids : \A m \in HandedOut(c)' : m \in HandedOut(c) /\ m \in Held(c)
    BY <1>6 DEF Held
  <2>4. x \notin HandedOut(w.id)
    <3> SUFFICES ASSUME x \in HandedOut(w.id) PROVE FALSE
      OBVIOUS
    <3>1. x \in Held(w.id) /\ x.full = "y"
      BY <1>10 DEF Held, DeliveryInv, FragmentInv, HeldInv
    <3> QED
      BY <1>4, <1>5, <1>10, <2>2, <3>1
  <2>5. HeldInv'
    BY <1>2, <1>4, <1>6, <1>10, <2>1, <2>2, <2>4
    DEF DeliveryInv, FragmentInv, HeldInv, OfJob
  <2>6. AheadInv'
    BY <1>3, <1>9, <1>10, <2>1, <2>2 DEF DeliveryInv, FragmentInv, AheadInv, SameMessage
  \* Another message with the key of w would be the one that w replaced.
  <2>7. ASSUME NEW c \in Ids, NEW m \in Held(c)', Key(m) = Key(x)
        PROVE  c = w.id /\ m = x
    <3> SUFFICES ASSUME ~ (c = w.id /\ m = x) PROVE FALSE
      OBVIOUS
    <3>1. m \in Held(c) /\ m.pid = w.pid /\ m.mid = w.mid
      BY <2>1, <2>2, <2>7 DEF Key
    <3>2. SameMessage(m, w) /\ c = w.id /\ m.full = "n"
      BY <1>4, <1>5, <3>1
    <3>3. m \notin HandedOut(w.id)
      BY <1>10, <3>2 DEF DeliveryInv, FragmentInv, HeldInv, Held
    <3>4. m \in old
      BY <1>10, <3>1, <3>2, <3>3 DEF Held
    <3>5. m \notin Stored(w.id)'
      BY <1>10, <3>2, <3>4
    <3> QED
      BY <1>6, <2>7, <3>2, <3>3, <3>5 DEF Held
  <2>8. UniqueInv'
    BY <2>1, <2>7 DEF DeliveryInv, CopyInv, UniqueInv
  <2>9. NoOvertaking'
    <3> SUFFICES ASSUME NEW c \in Ids, NEW m \in Full(Stored(c))', NEW d \in HandedOut(c)',
                        m.pid = d.pid
                 PROVE  d.mid < m.mid
      BY DEF NoOvertaking
    <3>1. d \in HandedOut(c) /\ d \in Held(c) /\ d.full = "y"
      BY <2>3 DEF DeliveryInv, FragmentInv, HeldInv
    <3>2. CASE m \in Stored(c)
      BY <3>1, <3>2 DEF DeliveryInv, CopyInv, NoOvertaking, Full
    <3>3. CASE c = w.id /\ m = x
      BY <1>5, <2>2, <3>1, <3>3
    <3> QED
      BY <1>10, <3>2, <3>3 DEF Full
  <2> QED
    BY <1>7, <1>8, <2>5, <2>6, <2>8, <2>9 DEF FragmentInv, CopyInv
<1>11. CASE UNCHANGED board
  <2>1. \A c : Stored(c)' = Stored(c) /\ Held(c)' = Held(c) /\ HandedOut(c)' = HandedOut(c)
    BY <1>2, <1>11, SameHeld
  <2>2. HeldInv' /\ AheadInv'
    BY <1>2, <1>3, <2>1 DEF DeliveryInv, FragmentInv, HeldInv, AheadInv, OfJob
  <2> QED
    BY <1>2, <1>8, <1>11, <2>2, SameHeld DEF DeliveryInv, FragmentInv, CopyInv
<1>12. CASE w.id \in Channels
  <2>1. PICK x \in Message, old \in SUBSET Stored(w.id) : Stores(w, x, old)
    BY <1>2, <1>12, AddMessageDEffect
  <2> QED
    BY <1>1, <1>10, <2>1 DEF Stores, Fragment
<1> QED
  BY <1>2, <1>11, <1>12 DEF AddMessageD

LEMMA ServerStepDelivery ==
  ASSUME DeliveryInv, ServerStep
  PROVE  FragmentInv' /\ CopyInv'
<1>1. ASSUME UNCHANGED <<othersR, job, nextMid, delivered, selfW>>,
             \A c \in Ids : Stored(c)' = Stored(c)
      PROVE  FragmentInv' /\ CopyInv'
  <2>1. \A c \in Ids : /\ InReply(c)' = InReply(c)
                      /\ HandedOut(c)' = HandedOut(c)
                      /\ Held(c)' = Held(c)
    BY <1>1 DEF InReply, HandedOut, Held
  <2>2. \A c \in Ids : \A m \in HandedOut(c)' : m.full = "y"
    BY <2>1 DEF DeliveryInv, FragmentInv, HeldInv, Held
  <2>3. FragmentInv' /\ UniqueInv'
    BY <1>1, <2>1, <2>2, HeldShrinks
  <2>4. NoOvertaking' /\ RepliesInv'
    BY <1>1, <2>1 DEF DeliveryInv, CopyInv, NoOvertaking, RepliesInv, Full
  <2> QED
    BY <2>3, <2>4 DEF CopyInv
\* The server ends, and may have answered with something it stored.
<1>2. ASSUME board' = EmptyBoard,
             UNCHANGED <<job, nextMid, delivered>>,
             othersR' = othersR \/ othersR' = <<>>,
             NEW id \in Ids, NEW last \in Reply, last.id = id,
             last.msgs \subseteq Full(Stored(id)),
             selfW' = selfW \/ selfW' = Append(selfW, last)
      PROVE  FragmentInv' /\ CopyInv'
  <2>1. \A c : Stored(c)' = {}
    BY <1>2, StoredGone
  <2>2. PICK n \in Nat : n = Len(selfW) /\ DOMAIN selfW = 1 .. n /\ selfW \in Seq(Reply)
    BY LenProperties DEF DeliveryInv, TypeInv, TypeOK
  <2>3. \A i \in DOMAIN selfW' :
          \/ i \in DOMAIN selfW /\ selfW'[i] = selfW[i]
          \/ i = n + 1 /\ i \notin DOMAIN selfW /\ selfW'[i] = last
    BY <1>2, <2>2, AppendProperties, LenProperties
  <2>4. \A c \in Ids : \A m \in InReply(c)' : m \in InReply(c) \/ (c = id /\ m \in last.msgs)
    BY <1>2, <2>3 DEF InReply
  <2>5. \A c \in Ids : \A m \in HandedOut(c)' :
          m \in HandedOut(c) \/ (c = id /\ m \in Full(Stored(c)))
    BY <1>2, <2>4 DEF HandedOut
  <2>6. \A c \in Ids : Held(c)' \subseteq Held(c)
    BY <2>1, <2>5 DEF Held, Full
  <2>7. \A c \in Ids : \A m \in HandedOut(c)' : m.full = "y"
    BY <2>5 DEF DeliveryInv, FragmentInv, HeldInv, Held, Full
  <2>8. FragmentInv' /\ UniqueInv'
    BY <1>2, <2>6, <2>7, HeldShrinks
  <2>9. NoOvertaking'
    BY <2>1 DEF NoOvertaking, Full
  <2>10. \A m \in last.msgs :
           /\ \A i \in DOMAIN selfW : m \notin selfW[i].msgs
           /\ m \notin delivered[id]
    <3> SUFFICES ASSUME NEW m \in last.msgs
                 PROVE  /\ \A i \in DOMAIN selfW : m \notin selfW[i].msgs
                        /\ m \notin delivered[id]
      OBVIOUS
    <3>1. m \in Stored(id) /\ m \notin HandedOut(id)
      BY <1>2, StoredNotHandedOut DEF Full
    <3>2. ASSUME NEW i \in DOMAIN selfW, m \in selfW[i].msgs PROVE FALSE
      <4>1. selfW[i] \in Reply
        BY <2>2, ElementOfSeq
      <4>2. selfW[i].id \in Ids /\ m \in HandedOut(selfW[i].id)
        BY <3>2, <4>1 DEF InReply, HandedOut, Reply
      <4>3. selfW[i].id = id
        BY <3>1, <4>2 DEF DeliveryInv, CopyInv, UniqueInv, Held
      <4> QED
        BY <3>1, <4>2, <4>3
    <3> QED
      BY <3>1, <3>2 DEF HandedOut
  <2>11. \A c \in Ids : InReply(c)' \cap delivered'[c] = {}
    BY <1>2, <2>4, <2>10 DEF DeliveryInv, CopyInv, RepliesInv
  <2>12. \A i, j \in DOMAIN selfW' : selfW'[i].msgs \cap selfW'[j].msgs # {} => i = j
    BY <2>3, <2>10 DEF DeliveryInv, CopyInv, RepliesInv
  <2> QED
    BY <2>8, <2>9, <2>11, <2>12 DEF CopyInv, RepliesInv
<1>3. ASSUME board' = EmptyBoard,
             UNCHANGED <<job, nextMid, delivered, selfW>>,
             othersR' = othersR \/ othersR' = <<>>
      PROVE  FragmentInv' /\ CopyInv'
  <2>1. \A c : /\ Stored(c)' = {}
              /\ InReply(c)' = InReply(c)
              /\ HandedOut(c)' = HandedOut(c)
    BY <1>3, StoredGone DEF InReply, HandedOut
  <2>2. /\ \A c \in Ids : Held(c)' \subseteq Held(c)
        /\ \A c \in Ids : \A m \in HandedOut(c)' : m.full = "y"
    BY <2>1 DEF DeliveryInv, FragmentInv, HeldInv, Held
  <2>3. FragmentInv' /\ UniqueInv'
    BY <1>3, <2>2, HeldShrinks
  <2> QED
    BY <1>3, <2>1, <2>3 DEF DeliveryInv, CopyInv, NoOvertaking, RepliesInv, Full
<1>4. CASE Select
  BY <1>1, <1>4 DEF Select, postVars, Stored, Channels
<1>5. CASE Stop
  BY <1>3, <1>5 DEF Stop, postVars
<1>6. CASE ReadEmpty
  BY <1>3, <1>6 DEF ReadEmpty, postVars
<1>7. CASE HandleCR
  <2>1. \A c \in Ids : Stored(c)' = Stored(c)
    BY <1>7 DEF HandleCR, Ginsert, Stored, Channels
  <2> QED
    BY <1>1, <1>7, <2>1 DEF HandleCR, SelfRequest, postVars
<1>8. CASE HandleSH
  BY <1>1, <1>8 DEF HandleSH, SelfRequest, postVars, Stored, Channels
<1>9. CASE HandleGMUnknown
  <2>1. PICK id \in Ids : id = Head(selfR).id
    BY <1>9, SelfRequestType DEF HandleGMUnknown, DeliveryInv
  <2> DEFINE none(t) == [kind |-> t, id |-> id, msgs |-> {}]
  <2>2. none("w") \in Reply /\ none("f") \in Reply
    BY DEF Reply, Kinds
  <2>3. UNCHANGED <<othersR, job, nextMid, delivered>>
    BY <1>9 DEF HandleGMUnknown, SelfRequest, postVars
  <2>4. CASE board' = EmptyBoard /\ selfW' = Append(selfW, none("w"))
    <3>1. PICK last \in Reply : last = none("w")
      BY <2>2
    <3>2. last.id = id /\ last.msgs \subseteq Full(Stored(id))
      BY <3>1
    <3> QED
      BY <1>2, <2>3, <2>4, <3>1, <3>2
  <2>5. CASE UNCHANGED board /\ selfW' = selfW \o <<none("w"), none("f")>>
    <3>1. PICK s \in Seq(Reply) : /\ s = <<none("w"), none("f")>>
                                  /\ \A i \in 1 .. Len(s) : s[i].msgs = {}
      <4>1. <<none("w"), none("f")>> \in Seq(Reply)
        BY <2>2
      <4>2. \A i \in 1 .. 2 : <<none("w"), none("f")>>[i].msgs = {}
        OBVIOUS
      <4> QED
        BY <4>1, <4>2
    <3>2. selfW \in Seq(Reply)
      BY DEF DeliveryInv, TypeInv, TypeOK
    <3>3. /\ \A i \in DOMAIN selfW : i \in DOMAIN selfW' /\ selfW'[i] = selfW[i]
          /\ \A i \in DOMAIN selfW' : i \in DOMAIN selfW \/ selfW'[i].msgs = {}
      BY <2>5, <3>1, <3>2, ConcatProperties, LenProperties
    <3>4. \A c \in Ids : /\ InReply(c)' = InReply(c)
                        /\ Stored(c)' = Stored(c)
                        /\ HandedOut(c)' = HandedOut(c)
                        /\ Held(c)' = Held(c)
      <4>1. \A c \in Ids : InReply(c)' \subseteq InReply(c)
        BY <3>3 DEF InReply
      <4>2. \A c \in Ids : InReply(c) \subseteq InReply(c)'
        BY <3>3 DEF InReply
      <4>3. \A c \in Ids : Stored(c)' = Stored(c)
        BY <2>5 DEF Stored, Channels
      <4> QED
        BY <2>3, <4>1, <4>2, <4>3 DEF HandedOut, Held
    <3>5. \A c \in Ids : \A m \in HandedOut(c)' : m.full = "y"
      BY <3>4 DEF DeliveryInv, FragmentInv, HeldInv, Held
    <3>6. FragmentInv' /\ UniqueInv'
      BY <2>3, <3>4, <3>5, HeldShrinks
    <3>7. RepliesInv'
      BY <2>3, <3>3, <3>4 DEF DeliveryInv, CopyInv, RepliesInv
    <3>8. NoOvertaking'
      BY <3>4 DEF DeliveryInv, CopyInv, NoOvertaking, Full
    <3> QED
      BY <3>6, <3>7, <3>8 DEF CopyInv
  <2> QED
    BY <1>9, <2>1, <2>4, <2>5 DEF HandleGMUnknown
<1>10. CASE HandleGMCrash
  <2>1. PICK id \in Ids, all \in SUBSET Message :
          id = Head(selfR).id /\ all = board[id].msgs /\ all = Stored(id)
    BY <1>10, SelfRequestType DEF HandleGMCrash, DeliveryInv, TypeInv, TypeOK,
       BoardType, Channel, Stored
  <2> DEFINE texts == [kind |-> "w", id |-> id, msgs |-> Ready(all, "w")]
  <2>2. texts \in Reply /\ texts.id = id /\ texts.msgs \subseteq Full(Stored(id))
    BY <2>1 DEF Reply, Kinds, Ready, Full
  <2>3. selfW' = selfW \/ selfW' = Append(selfW, texts)
    BY <1>10, <2>1 DEF HandleGMCrash
  <2>4. /\ board' = EmptyBoard
        /\ UNCHANGED <<job, nextMid, delivered, othersR>>
    BY <1>10 DEF HandleGMCrash, SelfRequest, postVars
  <2> HIDE DEF texts
  <2> QED
    BY <1>2, <2>2, <2>3, <2>4
<1> QED
  BY <1>4, <1>5, <1>6, <1>7, <1>8, <1>9, <1>10, HandleGMDelivery, HandleWRDelivery
  DEF ServerStep

-------------------------------------------------------------------------------
(* The copies of a message, and what follows from their invariant *)

LEMMA InitInv == Init => DeliveryParts
<1> SUFFICES ASSUME Init PROVE DeliveryParts
  OBVIOUS
<1>1. TypeInv /\ ScanInv /\ NoReadFail
  BY ReadInit DEF ReadInv
<1>2. othersR = <<>> /\ selfW = <<>>
  BY DEF Init
<1>3. QueueInv /\ OrderInv
  BY <1>2 DEF QueueInv, OrderInv
<1>4. \A c \in Ids : Held(c) = {} /\ Stored(c) = {}
  BY <1>2 DEF Init, CrBboard, EmptyBoard, Held, HandedOut, InReply, Stored, Channels
<1>5. HeldInv /\ AheadInv /\ UniqueInv /\ NoOvertaking
  BY <1>4 DEF HeldInv, AheadInv, UniqueInv, NoOvertaking, Full
<1>6. RepliesInv
  BY <1>2, <1>4 DEF RepliesInv, Held, HandedOut
<1> QED
  BY <1>1, <1>3, <1>5, <1>6 DEF DeliveryParts, TypeInv

LEMMA StepInv ==
  ASSUME DeliveryParts, [Next]_vars
  PROVE  DeliveryParts'
<1>1. DeliveryInv /\ TypeInv /\ ScanInv
  BY DEF DeliveryParts, DeliveryInv, TypeInv, FragmentInv, CopyInv
<1>2. TypeInv'
  BY <1>1, TypeStep
<1>3. FragmentInv' /\ CopyInv'
  <2>1. CASE UNCHANGED vars
    <3>1. \A c : Held(c)' = Held(c) /\ HandedOut(c)' = HandedOut(c)
      BY <2>1, SameHeld DEF vars
    <3>2. FragmentInv'
      BY <1>1, <2>1, <3>1
      DEF vars, postVars, DeliveryInv, FragmentInv, QueueInv, OrderInv, HeldInv,
          AheadInv, OfJob
    <3> QED
      BY <1>1, <2>1, <3>2, SameHeld DEF vars, DeliveryInv, CopyInv
  <2> QED
    BY <1>1, <2>1, PostStepDelivery, OwnerStepDelivery, ServerStepDelivery DEF Next
<1>4. ScanInv' /\ NoReadFail'
  BY <1>1, ReadStep DEF DeliveryParts, ReadInv
<1> QED
  BY <1>2, <1>3, <1>4 DEF DeliveryParts, TypeInv, FragmentInv, CopyInv

LEMMA InvHolds == Spec => []DeliveryParts
<1>1. DeliveryParts /\ [Next]_vars => DeliveryParts'
  BY StepInv
<1> QED
  BY <1>1, InitInv, PTL DEF Spec

LEMMA InvImpliesOneCopy == DeliveryParts => OneCopy
<1> SUFFICES ASSUME DeliveryParts PROVE OneCopy
  OBVIOUS
<1>1. DeliveryInv
  BY DEF DeliveryParts, DeliveryInv, TypeInv, FragmentInv, CopyInv
<1> QED
  BY <1>1, StoredNotHandedOut DEF DeliveryParts, UniqueInv, RepliesInv, OneCopy

\* A message exists once: however the fragments of many boardposts interleave,
\* and whenever the owner fetches, it is in one channel under one record, in one
\* reply or delivered in one.
THEOREM NoDuplicates == Spec => []OneCopy
BY InvHolds, InvImpliesOneCopy, PTL

\* The owner gets the messages of each boardpost in a channel in the order in
\* which they were sent.
THEOREM FetchedInOrder == Spec => []NoOvertaking
<1>1. DeliveryParts => NoOvertaking
  BY DEF DeliveryParts
<1> QED
  BY <1>1, InvHolds, PTL

-------------------------------------------------------------------------------
(* Posting implements Bulletin *)

\* The abstract variables, named.
Offered == [c \in Ids |-> KeysOf(Full(Stored(c)))]
Taken == [c \in Ids |-> KeysOf(HandedOut(c))]

AbstractStep == [Abstract!Next]_(Abstract!absVars)

LEMMA AbstractStutters ==
  ASSUME Channels' = Channels,
         Serving' = Serving,
         \A c \in Ids : Full(Stored(c))' = Full(Stored(c)),
         \A c \in Ids : HandedOut(c)' = HandedOut(c)
  PROVE  AbstractStep
<1>1. Offered' = Offered /\ Taken' = Taken
  BY DEF Offered, Taken
<1> QED
  BY <1>1 DEF AbstractStep, Abstract!absVars, Offered, Taken

\* The server ends, with nothing more handed out, or with some of what one
\* channel offered.
LEMMA AbstractEnds ==
  ASSUME Serving, ~ Serving', board' = EmptyBoard,
         \/ \A c \in Ids : HandedOut(c)' = HandedOut(c)
         \/ \E id \in Ids : \E part \in SUBSET Full(Stored(id)) : \A c \in Ids :
              HandedOut(c)' = IF c = id THEN HandedOut(c) \cup part ELSE HandedOut(c)
  PROVE  AbstractStep
<1>1. Channels' = {}
  BY DEF Channels, EmptyBoard
<1>2. Offered' = [c \in Ids |-> {}]
  BY StoredGone DEF Offered, KeysOf, Full
<1>3. \/ Taken' = Taken
      \/ \E c \in Ids : \E k \in SUBSET Offered[c] : Taken' = [Taken EXCEPT ![c] = @ \cup k]
  <2>1. CASE \A c \in Ids : HandedOut(c)' = HandedOut(c)
    BY <2>1 DEF Taken
  <2>2. ASSUME NEW id \in Ids, NEW part \in SUBSET Full(Stored(id)),
               \A c \in Ids : HandedOut(c)' = IF c = id THEN HandedOut(c) \cup part
                                                      ELSE HandedOut(c)
        PROVE  \E k \in SUBSET Offered[id] : Taken' = [Taken EXCEPT ![id] = @ \cup k]
    <3>1. KeysOf(part) \in SUBSET Offered[id]
      BY DEF Offered, KeysOf
    <3>2. Taken' = [Taken EXCEPT ![id] = @ \cup KeysOf(part)]
      BY <2>2 DEF Taken, KeysOf
    <3> QED
      BY <3>1, <3>2
  <2> QED
    BY <2>1, <2>2
<1>4. Serving' = FALSE
  OBVIOUS
<1>5. Abstract!End
  BY <1>1, <1>2, <1>3, <1>4 DEF Abstract!End, Offered, Taken
<1> QED
  BY <1>5 DEF AbstractStep, Abstract!Next

LEMMA PostStepRefines ==
  ASSUME NEW p \in Posts, PostStep(p)
  PROVE  AbstractStep
<1>1. UNCHANGED <<board, selfW, delivered, server>>
  BY DEF PostStep, WriteText, StartSend, SendFragment, serverVars
<1> QED
  BY <1>1, SameHeld, AbstractStutters DEF Serving, Channels, Full

LEMMA OwnerStepRefines ==
  ASSUME DeliveryParts, OwnerStep
  PROVE  AbstractStep
<1>1. UNCHANGED <<board, server>>
  BY DEF OwnerStep, CreateChannel, GetMessages, Shutdown, WriteSelf, ReadReply,
         ReadEof, serverVars
<1>2. \A c \in Ids : HandedOut(c)' = HandedOut(c)
  <2>1. CASE UNCHANGED <<selfW, delivered>>
    BY <1>1, <2>1, SameHeld
  <2>2. CASE ReadReply
    BY <2>2, ReadReplyKeepsHandedOut DEF DeliveryParts, TypeInv
  <2> QED
    BY <2>1, <2>2 DEF OwnerStep, CreateChannel, GetMessages, Shutdown, WriteSelf,
       ReadEof
<1>3. \A c \in Ids : Full(Stored(c))' = Full(Stored(c))
  BY <1>1 DEF Full, Stored, Channels
<1> QED
  BY <1>1, <1>2, <1>3, AbstractStutters DEF Serving, Channels

LEMMA HandleGMRefines ==
  ASSUME DeliveryParts, HandleGM
  PROVE  AbstractStep
<1>1. PICK id \in Ids, texts \in SUBSET Message, files \in SUBSET Message :
        Answers(id, texts, files)
  BY HandleGMEffect DEF DeliveryParts, TypeInv
<1>2. /\ Serving = TRUE /\ Serving' = TRUE
  BY DEF HandleGM, SelfRequest, Visit, Serving
<1>3. Offered' = [Offered EXCEPT ![id] = {}]
  BY <1>1 DEF Answers, Offered, KeysOf, Full
<1>4. Taken' = [Taken EXCEPT ![id] = @ \cup Offered[id]]
  <2>1. KeysOf(HandedOut(id)') = KeysOf(HandedOut(id)) \cup KeysOf(Full(Stored(id)))
    BY <1>1 DEF Answers, KeysOf
  <2> QED
    BY <1>1, <2>1 DEF Answers, Taken, Offered
<1>5. Abstract!Take(id)
  BY <1>1, <1>2, <1>3, <1>4 DEF Abstract!Take, Answers, Offered, Taken
<1> QED
  BY <1>5 DEF AbstractStep, Abstract!Next

LEMMA HandleWRRefines ==
  ASSUME DeliveryParts, HandleWR
  PROVE  AbstractStep
<1>1. DeliveryInv
  BY DEF DeliveryParts, DeliveryInv, TypeInv, FragmentInv, CopyInv
<1>2. PICK w \in Fragment : w = Head(othersR)
  BY HeadTailProperties DEF HandleWR, DeliveryParts, TypeOK
<1>3. /\ UNCHANGED <<selfW, delivered, server>>
      /\ AddMessageD(w)
      /\ w = othersR[1] /\ 1 \in DOMAIN othersR
  BY <1>1, <1>2, AfterRead DEF HandleWR, DeliveryInv
<1>4. \A c : HandedOut(c)' = HandedOut(c)
  BY <1>3 DEF HandedOut, InReply
<1>5. CASE board' = board
  BY <1>3, <1>4, <1>5, AbstractStutters DEF Serving, Channels, Full, Stored
<1>6. CASE w.id \in Channels
  <2>1. PICK x \in Message, old \in SUBSET Stored(w.id) : Stores(w, x, old)
    BY <1>1, <1>3, <1>6, AddMessageDEffect
  <2>2. w.id \in Ids /\ w.mid \in Nat
    BY <1>1, <1>2, <1>3, MidType DEF Fragment, DeliveryInv
  <2>3. \A c \in Ids : \A m \in Held(c) : Key(m) = Key(x) => m.full = "n"
    <3>1. x.pid = w.pid /\ x.mid = w.mid
      BY <2>1 DEF Stores, SameMessage
    <3> QED
      BY <1>1, <1>3, <2>2, <3>1 DEF DeliveryInv, FragmentInv, AheadInv, Key
  <2>4. \A m \in old : m.full = "n"
    BY <2>1, <2>2, <2>3 DEF Stores, SameMessage, Key, Held
  <2>5. CASE w.flag = "n"
    <3>1. \A c \in Ids : Full(Stored(c))' = Full(Stored(c))
      BY <2>1, <2>4, <2>5 DEF Stores, Full
    <3> QED
      BY <1>3, <1>4, <2>1, <3>1, AbstractStutters DEF Serving, Stores
  <2>6. CASE w.flag = "y"
    <3>1. /\ Full(Stored(w.id))' = Full(Stored(w.id)) \cup {x}
          /\ \A c \in Ids : c # w.id => Full(Stored(c))' = Full(Stored(c))
      BY <2>1, <2>2, <2>4, <2>6 DEF Stores, Full
    <3>2. Offered' = [Offered EXCEPT ![w.id] = @ \cup {Key(x)}]
      <4>1. KeysOf(Full(Stored(w.id))') = KeysOf(Full(Stored(w.id))) \cup {Key(x)}
        BY <3>1 DEF KeysOf
      <4> QED
        BY <2>2, <3>1, <4>1 DEF Offered
    <3>3. Taken' = Taken
      BY <1>4 DEF Taken
    <3>4. \A c \in Ids : Key(x) \notin Offered[c] \cup Taken[c]
      <4> SUFFICES ASSUME NEW c \in Ids PROVE Key(x) \notin Offered[c] \cup Taken[c]
        OBVIOUS
      <4>1. \A m \in Full(Stored(c)) \cup HandedOut(c) : m \in Held(c) /\ m.full = "y"
        BY <1>1 DEF DeliveryInv, FragmentInv, HeldInv, Held, Full
      <4> QED
        BY <2>3, <4>1 DEF Offered, Taken, KeysOf
    <3>5. Serving = TRUE /\ Serving' = TRUE
      BY <1>3 DEF HandleWR, Visit, Serving
    <3>6. Abstract!Publish(w.id, Key(x))
      BY <2>1, <3>2, <3>3, <3>4, <3>5
      DEF Abstract!Publish, Abstract!Fresh, Offered, Taken, Stores
    <3>7. Key(x) \in Keys
      BY DEF Key, Keys, Message
    <3> QED
      BY <2>2, <3>6, <3>7 DEF AbstractStep, Abstract!Next
  <2> QED
    BY <1>2, <2>5, <2>6 DEF Fragment, Flags
<1> QED
  BY <1>3, <1>5, <1>6 DEF AddMessageD

LEMMA ServerStepRefines ==
  ASSUME DeliveryParts, ServerStep
  PROVE  AbstractStep
<1>1. DeliveryInv
  BY DEF DeliveryParts, DeliveryInv, TypeInv, FragmentInv, CopyInv
<1>2. ASSUME UNCHANGED <<board, selfW, delivered>>, Serving' = Serving
      PROVE  AbstractStep
  <2>1. /\ \A c \in Ids : HandedOut(c)' = HandedOut(c)
        /\ \A c \in Ids : Full(Stored(c))' = Full(Stored(c))
    BY <1>2, SameHeld DEF Full
  <2>2. Channels' = Channels
    BY <1>2 DEF Channels
  <2> QED
    BY <1>2, <2>1, <2>2, AbstractStutters
<1>3. ASSUME board' = EmptyBoard, UNCHANGED <<selfW, delivered>>,
             Serving, ~ Serving'
      PROVE  AbstractStep
  <2>1. \A c \in Ids : HandedOut(c)' = HandedOut(c)
    BY <1>3 DEF HandedOut, InReply
  <2> QED
    BY <1>3, <2>1, AbstractEnds
<1>4. CASE Select
  BY <1>2, <1>4 DEF Select, Serving
<1>5. CASE Stop \/ ReadEmpty
  BY <1>3, <1>5 DEF Stop, ReadEmpty, Visit, Serving
<1>6. CASE HandleCR
  <2>1. PICK id \in Ids : id = Head(selfR).id
    BY <1>1, <1>6, SelfRequestType DEF HandleCR, DeliveryInv
  <2>2. /\ Channels' = Channels \cup {id}
        /\ \A c \in Ids : Stored(c)' = Stored(c)
    BY <1>6, <2>1 DEF HandleCR, Ginsert, Stored, Channels
  <2>3. \A c \in Ids : HandedOut(c)' = HandedOut(c)
    BY <1>6 DEF HandleCR, SelfRequest, HandedOut, InReply
  <2>4. Offered' = Offered /\ Taken' = Taken
    BY <2>2, <2>3 DEF Offered, Taken, Full
  <2>5. Serving = TRUE /\ Serving' = TRUE
    BY <1>6 DEF HandleCR, SelfRequest, Visit, Serving
  <2>6. Abstract!Create(id)
    BY <2>2, <2>4, <2>5 DEF Abstract!Create, Offered, Taken
  <2> QED
    BY <2>6 DEF AbstractStep, Abstract!Next
<1>7. CASE HandleSH
  BY <1>2, <1>7 DEF HandleSH, SelfRequest, Visit, Serving
<1>8. CASE HandleGMUnknown
  <2>1. PICK id \in Ids : id = Head(selfR).id
    BY <1>1, <1>8, SelfRequestType DEF HandleGMUnknown, DeliveryInv
  <2> DEFINE none(t) == [kind |-> t, id |-> id, msgs |-> {}]
  <2>2. \A c \in Ids : HandedOut(c)' = HandedOut(c)
    <3>1. selfW \in Seq(Reply) /\ none("w") \in Reply /\ none("f") \in Reply
      BY DEF DeliveryParts, TypeOK, Reply, Kinds
    <3>2. PICK s \in Seq(Reply) : /\ selfW' = selfW \o s
                                  /\ \A i \in 1 .. Len(s) : s[i].msgs = {}
      <4>1. <<none("w"), none("f")>> \in Seq(Reply) /\ <<none("w")>> \in Seq(Reply)
        BY <3>1
      <4>2. /\ \A i \in 1 .. 2 : <<none("w"), none("f")>>[i].msgs = {}
            /\ \A i \in 1 .. 1 : <<none("w")>>[i].msgs = {}
        OBVIOUS
      <4>3. Append(selfW, none("w")) = selfW \o <<none("w")>>
        BY <3>1, AppendIsConcat
      <4> QED
        BY <1>8, <2>1, <4>1, <4>2, <4>3 DEF HandleGMUnknown
    <3>3. /\ \A i \in DOMAIN selfW : i \in DOMAIN selfW' /\ selfW'[i] = selfW[i]
          /\ \A i \in DOMAIN selfW' : i \in DOMAIN selfW \/ selfW'[i].msgs = {}
      <4>1. PICK n \in Nat, k \in Nat : /\ n = Len(selfW) /\ DOMAIN selfW = 1 .. n
                                     /\ k = Len(s) /\ DOMAIN selfW' = 1 .. n + k
        BY <3>1, <3>2, ConcatProperties, LenProperties
      <4>2. \A i \in 1 .. n + k : selfW'[i] = IF i <= n THEN selfW[i] ELSE s[i - n]
        BY <3>1, <3>2, <4>1, ConcatProperties
      <4>3. \A i \in 1 .. n + k : i <= n \/ i - n \in 1 .. k
        OBVIOUS
      <4> QED
        BY <3>2, <4>1, <4>2, <4>3
    <3>4. \A c \in Ids : InReply(c)' \subseteq InReply(c)
      BY <3>3 DEF InReply
    <3>5. \A c \in Ids : InReply(c) \subseteq InReply(c)'
      BY <3>3 DEF InReply
    <3> QED
      BY <1>8, <3>4, <3>5 DEF HandleGMUnknown, SelfRequest, HandedOut
  <2>3. CASE UNCHANGED <<board, server>>
    BY <2>2, <2>3, AbstractStutters DEF Serving, Channels, Full, Stored
  <2>4. CASE board' = EmptyBoard /\ server' = "crashed"
    <3>1. Serving /\ ~ Serving'
      BY <1>8, <2>4 DEF HandleGMUnknown, SelfRequest, Visit, Serving
    <3> QED
      BY <2>2, <2>4, <3>1, AbstractEnds
  <2> QED
    BY <1>8, <2>3, <2>4 DEF HandleGMUnknown
<1>9. CASE HandleGMCrash
  <2>1. PICK id \in Ids, all \in SUBSET Message :
          id = Head(selfR).id /\ all = board[id].msgs /\ all = Stored(id)
    BY <1>1, <1>9, SelfRequestType DEF HandleGMCrash, DeliveryInv, TypeInv, TypeOK,
       BoardType, Channel, Stored
  <2> DEFINE texts == [kind |-> "w", id |-> id, msgs |-> Ready(all, "w")]
  <2>2. /\ Serving /\ ~ Serving'
        /\ board' = EmptyBoard /\ UNCHANGED delivered
    BY <1>9 DEF HandleGMCrash, SelfRequest, Visit, Serving
  <2>3. CASE UNCHANGED selfW
    BY <1>3, <2>2, <2>3
  <2>4. CASE selfW' = Append(selfW, texts)
    <3>1. selfW \in Seq(Reply) /\ texts \in Reply
      BY DEF DeliveryParts, TypeOK, Reply, Kinds, Ready
    <3>2. texts.id = id /\ texts.msgs = Ready(all, "w")
      OBVIOUS
    <3> HIDE DEF texts
    <3>3. PICK n \in Nat :
            /\ DOMAIN selfW = 1 .. n /\ DOMAIN selfW' = 1 .. n + 1
            /\ \A i \in 1 .. n : selfW'[i] = selfW[i]
            /\ selfW'[n + 1] = texts
      BY <2>4, <3>1, AppendProperties, LenProperties
    <3>4. \A c \in Ids : InReply(c)' = IF c = id THEN InReply(c) \cup Ready(all, "w")
                                                ELSE InReply(c)
      <4>1. \A i \in DOMAIN selfW' : i \in DOMAIN selfW \/ i = n + 1
        BY <3>3
      <4>2. n + 1 \in DOMAIN selfW' /\ \A i \in DOMAIN selfW : i \in DOMAIN selfW'
        BY <3>3
      <4> QED
        BY <3>2, <3>3, <4>1, <4>2 DEF InReply
    <3>5. Ready(all, "w") \subseteq Full(Stored(id))
      BY <2>1 DEF Ready, Full
    <3>6. \A c \in Ids : HandedOut(c)' = IF c = id THEN HandedOut(c) \cup Ready(all, "w")
                                                  ELSE HandedOut(c)
      BY <2>2, <3>4 DEF HandedOut
    <3> QED
      BY <2>2, <3>5, <3>6, AbstractEnds
  <2> QED
    BY <1>9, <2>1, <2>3, <2>4 DEF HandleGMCrash
<1> QED
  BY <1>4, <1>5, <1>6, <1>7, <1>8, <1>9, HandleGMRefines, HandleWRRefines DEF ServerStep

LEMMA InitRefines == Init => Abstract!Init
<1> SUFFICES ASSUME Init PROVE Abstract!Init
  OBVIOUS
<1>1. \A c \in Ids : Stored(c) = {} /\ HandedOut(c) = {}
  BY DEF Init, CrBboard, EmptyBoard, Stored, HandedOut, InReply, Channels
<1>2. Channels = {} /\ Serving = TRUE
  BY DEF Init, CrBboard, EmptyBoard, Channels, Serving
<1> QED
  BY <1>1, <1>2 DEF Abstract!Init, KeysOf, Full

LEMMA StepRefines ==
  ASSUME DeliveryParts, [Next]_vars
  PROVE  AbstractStep
<1>1. CASE UNCHANGED vars
  <2>1. /\ UNCHANGED <<board, selfW, delivered, server>>
    BY <1>1 DEF vars, serverVars
  <2> QED
    BY <2>1, SameHeld, AbstractStutters DEF Serving, Channels, Full
<1> QED
  BY <1>1, PostStepRefines, OwnerStepRefines, ServerStepRefines DEF Next

\* The processes, with their fifos, fragments and replies, implement the board
\* that Bulletin promises: what is offered is offered once, a fetch takes all
\* of it, and what was taken is never offered again.
THEOREM Refinement == Spec => ImplementsBulletin
<1>1. DeliveryParts /\ [Next]_vars => [Abstract!Next]_(Abstract!absVars)
  BY StepRefines DEF AbstractStep
<1> QED
  BY <1>1, InitRefines, InvHolds, PTL DEF Spec, ImplementsBulletin, Abstract!Spec


-------------------------------------------------------------------------------
(* What the messages hold: no fragment is lost, repeated or out of place on  *)
(* the way from a boardpost through the fifo into the record of the server.  *)

\* The invariant of the copies, in the form its proof uses, and that of what
\* they hold.
WholeInv == DeliveryInv /\ ContentParts

LEMMA WholeIsInv == DeliveryParts /\ ContentParts => WholeInv
BY DEF WholeInv, DeliveryParts, DeliveryInv, TypeInv, FragmentInv, CopyInv

(* Types *)

LEMMA HeldMessage ==
  ASSUME TypeInv, NEW c \in Ids, NEW m \in Held(c)
  PROVE  /\ m \in Message
         /\ m.pid \in Posts /\ m.mid \in Nat /\ m.msgsize \in Nat
         /\ m.full \in {"y", "n"}
         /\ m.body \in Seq(Nat)
         /\ DOMAIN m.body = 1 .. Len(m.body) /\ Len(m.body) \in Nat
         /\ m.body # <<>> => /\ m.body[1] \in Nat
                             /\ LastPart(m) \in Nat
                             /\ m.body[1] <= LastPart(m)
<1>1. m \in Message
  BY HeldType
<1>2. m.body \in Seq(Nat)
  BY <1>1 DEF Message
<1>3. DOMAIN m.body = 1 .. Len(m.body) /\ Len(m.body) \in Nat
  BY <1>2, LenProperties
<1>4. m.body # <<>> => m.body[1] \in Nat /\ Len(m.body) >= 1
  BY <1>2, <1>3, EmptySeq, ElementOfSeq
<1> QED
  BY <1>1, <1>2, <1>3, <1>4, MidType DEF Message, LastPart, Flags

\* Part numbers lie between one and what was written.
LEMMA PartBounds ==
  ASSUME DeliveryInv, NEW i \in DOMAIN othersR, NEW w, w = othersR[i]
  PROVE  /\ w \in Fragment /\ w.pid \in Posts
         /\ w.part \in Nat /\ w.mid \in Nat /\ w.msgsize \in Nat
         /\ 1 <= w.part /\ w.part <= Written(w) /\ Written(w) \in Nat
<1>1. w \in Fragment /\ w.part \in Nat /\ w.mid \in Nat /\ w.msgsize \in Nat
  BY MidType DEF DeliveryInv
<1>2. w.pid \in Posts
  BY <1>1 DEF Fragment
<1>3. /\ w.part \in 1 .. w.msgsize
      /\ w.mid < nextMid[w.pid] \/ (OfJob(w, w.id) /\ w.part < job[w.pid].next)
  BY DEF DeliveryInv, FragmentInv, QueueInv
<1>4. job[w.pid] # NoJob => job[w.pid].next \in Nat
  BY <1>2 DEF DeliveryInv, TypeInv, TypeOK, Job
<1>5. nextMid[w.pid] \in Nat
  BY <1>2, MidType DEF DeliveryInv
<1> QED
  BY <1>1, <1>2, <1>3, <1>4, <1>5 DEF Written, OfJob

\* The fragments of one message in the fifo are in the order of their numbers.
LEMMA PartOrder ==
  ASSUME DeliveryInv, NEW i \in DOMAIN othersR, NEW j \in DOMAIN othersR,
         Key(othersR[i]) = Key(othersR[j]), i < j
  PROVE  othersR[i].part < othersR[j].part
<1>1. othersR[i].pid = othersR[j].pid /\ othersR[i].mid = othersR[j].mid
  BY DEF Key
<1>2. othersR[i].mid \in Nat
  BY MidType DEF DeliveryInv
<1> QED
  BY <1>1, <1>2 DEF DeliveryInv, FragmentInv, OrderInv

-------------------------------------------------------------------------------
(* Steps that leave the fifo others_r alone or lose it with the server *)

\* What a message holds does not change while it stays where it is.
LEMMA SamePlaces ==
  ASSUME ContentParts,
         UNCHANGED <<job, nextMid, dropped, ended>>,
         \A c \in Ids : Held(c)' \subseteq Held(c),
         \/ /\ othersR' = othersR
            /\ Serving' => Serving /\ \A c \in Ids : Held(c)' = Held(c)
         \/ /\ othersR' = <<>>
            /\ ~ Serving'
            /\ \A c \in Ids : \A m \in Held(c)' : m.full # "n"
  PROVE  ContentParts'
<1>1. RunInv'
  BY DEF ContentParts, RunInv, LastPart
<1>2. CASE othersR' = othersR /\ (Serving' => Serving /\ \A c \in Ids : Held(c)' = Held(c))
  <2>1. /\ \A k, n : PartQueued(k, n)' = PartQueued(k, n)
        /\ \A x : Written(x)' = Written(x)
    BY <1>2 DEF PartQueued, Written
  <2>2. TailInv'
    BY <1>2, <2>1 DEF ContentParts, TailInv, LastPart
  <2>3. Serving' => \A k : HeadFound(k) => HeadFound(k)'
    BY <1>2, <2>1 DEF HeadFound
  <2>4. HeadInv'
    BY <1>2, <2>3 DEF ContentParts, HeadInv
  <2>5. EndedInv'
    BY <1>2 DEF ContentParts, EndedInv, Full
  <2> QED
    BY <1>1, <2>2, <2>4, <2>5 DEF ContentParts
<1>3. CASE /\ othersR' = <<>> /\ ~ Serving'
           /\ \A c \in Ids : \A m \in Held(c)' : m.full # "n"
  BY <1>1, <1>3 DEF ContentParts, TailInv, HeadInv, EndedInv
<1> QED
  BY <1>2, <1>3

\* One more reply of the server.
LEMMA ReplyAdded ==
  ASSUME TypeInv, UNCHANGED delivered, NEW r \in Reply, selfW' = Append(selfW, r),
         NEW c \in Ids
  PROVE  HandedOut(c)' \subseteq HandedOut(c) \cup (IF r.id = c THEN r.msgs ELSE {})
<1>1. selfW \in Seq(Reply)
  BY DEF TypeInv, TypeOK
<1>2. \A i \in DOMAIN selfW' : (i \in DOMAIN selfW /\ selfW'[i] = selfW[i]) \/ selfW'[i] = r
  BY <1>1, AppendProperties, LenProperties
<1> QED
  BY <1>2 DEF HandedOut, InReply

\* Full messages that a dying server has answered with, or had before.
LEMMA ServerEnds ==
  ASSUME WholeInv, board' = EmptyBoard, ~ Serving',
         UNCHANGED <<job, nextMid, dropped, ended>>,
         othersR' = othersR \/ othersR' = <<>>,
         \A c \in Ids : HandedOut(c)' \subseteq HandedOut(c) \cup Full(Stored(c))
  PROVE  ContentParts'
<1>1. \A c \in Ids : Held(c)' = HandedOut(c)'
  BY StoredGone DEF Held
<1>2. \A c \in Ids : Held(c)' \subseteq Held(c)
  BY <1>1 DEF Held, Full
<1>3. \A c \in Ids : \A m \in Held(c)' : m.full = "y"
  BY <1>1 DEF WholeInv, DeliveryInv, FragmentInv, HeldInv, Held, Full
<1> QED
  BY <1>2, <1>3, SamePlaces DEF WholeInv

LEMMA OwnerStepContent ==
  ASSUME WholeInv, OwnerStep
  PROVE  ContentParts'
<1>1. UNCHANGED <<board, othersR, job, nextMid, dropped, ended, server>>
  BY DEF OwnerStep, CreateChannel, GetMessages, Shutdown, WriteSelf, ReadReply,
         ReadEof, postVars, serverVars
<1>2. \A c \in Ids : Held(c)' = Held(c)
  <2>1. CASE ReadReply
    <3>1. \A c \in Ids : HandedOut(c)' = HandedOut(c)
      BY <2>1, ReadReplyKeepsHandedOut DEF WholeInv, DeliveryInv
    <3> QED
      BY <1>1, <3>1 DEF Held, Stored, Channels
  <2>2. CASE UNCHANGED <<selfW, delivered>>
    BY <1>1, <2>2, SameHeld
  <2> QED
    BY <2>1, <2>2 DEF OwnerStep, CreateChannel, GetMessages, Shutdown, WriteSelf, ReadEof
<1> QED
  BY <1>1, <1>2, SamePlaces DEF WholeInv, Serving

\* A fetch takes nothing but full messages, as long as each has one record.
LEMMA FetchLeavesOthers ==
  ASSUME NEW msgs \in SUBSET Message,
         \A m, n \in msgs : SameMessage(m, n) => m = n
  PROVE  msgs \subseteq AfterFetch(AfterFetch(msgs, "w"), "f") \cup Full(msgs)
<1>1. \A t : \A m \in msgs : m \in AfterFetch(msgs, t) \/ m.full = "y"
  BY DEF AfterFetch, Ready
<1>2. \A m \in AfterFetch(msgs, "w") :
        m \in AfterFetch(AfterFetch(msgs, "w"), "f") \/ m.full = "y"
  BY AfterFetchShrinks DEF AfterFetch, Ready
<1> QED
  BY <1>1, <1>2 DEF Full

\* The handlers of self_r, the selection and the end.
LEMMA ServerKeepsContent ==
  ASSUME WholeInv, ServerStep, ~ HandleWR
  PROVE  ContentParts'
<1>0. TypeInv
  BY DEF WholeInv, DeliveryInv
<1>1. ASSUME UNCHANGED <<othersR, job, nextMid, dropped, ended, selfW, delivered>>,
             \A c \in Ids : Stored(c)' = Stored(c),
             Serving
      PROVE  ContentParts'
  <2>1. \A c \in Ids : Held(c)' = Held(c)
    BY <1>1 DEF Held, HandedOut, InReply
  <2> QED
    BY <1>1, <2>1, SamePlaces DEF WholeInv
<1>2. CASE Select
  BY <1>1, <1>2 DEF Select, postVars, Serving, Stored, Channels
<1>3. CASE Stop \/ ReadEmpty
  <2>1. /\ board' = EmptyBoard /\ ~ Serving' /\ othersR' = <<>>
        /\ UNCHANGED <<job, nextMid, dropped, ended, selfW, delivered>>
    BY <1>3 DEF Stop, ReadEmpty, postVars, Serving
  <2>2. \A c \in Ids : HandedOut(c)' = HandedOut(c)
    BY <2>1 DEF HandedOut, InReply
  <2> QED
    BY <2>1, <2>2, ServerEnds
<1>4. CASE HandleCR
  <2>1. \A c \in Ids : Stored(c)' = Stored(c)
    BY <1>4 DEF HandleCR, Ginsert, Stored, Channels
  <2> QED
    BY <1>1, <1>4, <2>1 DEF HandleCR, SelfRequest, Visit, postVars
<1>5. CASE HandleSH
  BY <1>1, <1>5 DEF HandleSH, SelfRequest, Visit, postVars, Stored, Channels
<1>6. CASE HandleGM
  <2>1. PICK id \in Ids, texts \in SUBSET Message, files \in SUBSET Message :
          Answers(id, texts, files)
    BY <1>0, <1>6, HandleGMEffect
  <2>2. /\ UNCHANGED <<othersR, job, nextMid, dropped, ended, server>>
        /\ Serving
    BY <1>6 DEF HandleGM, SelfRequest, Visit, postVars
  <2>3. \A c \in Ids : Held(c)' \subseteq Held(c)
    BY <2>1 DEF Answers, Held, Full
  \* What a fetch leaves on the board is what was not full.
  <2>4. \A c \in Ids : Held(c) \subseteq Held(c)'
    <3>1. Stored(id) \subseteq Message
      BY <1>0, HeldType
    <3>2. \A m, n \in Stored(id) : SameMessage(m, n) => m = n
      BY DEF WholeInv, DeliveryInv, CopyInv, UniqueInv, Held, Key, SameMessage
    <3>3. Stored(id) \subseteq Stored(id)' \cup Full(Stored(id))
      BY <2>1, <3>1, <3>2, FetchLeavesOthers DEF Answers
    <3> QED
      BY <2>1, <3>3 DEF Answers, Held
  <2> QED
    BY <2>2, <2>3, <2>4, SamePlaces DEF WholeInv
<1>7. CASE HandleGMUnknown
  <2>1. PICK id \in Ids : id = Head(selfR).id
    BY <1>0, <1>7, SelfRequestType DEF HandleGMUnknown
  <2> DEFINE none(t) == [kind |-> t, id |-> id, msgs |-> {}]
  <2>2. none("w") \in Reply /\ none("f") \in Reply
    BY DEF Reply, Kinds
  <2>3. /\ UNCHANGED <<othersR, job, nextMid, dropped, ended, delivered>>
        /\ Serving
    BY <1>7 DEF HandleGMUnknown, SelfRequest, Visit, postVars
  <2>4. CASE board' = EmptyBoard /\ selfW' = Append(selfW, none("w")) /\ server' = "crashed"
    <3>1. none("w").msgs = {}
      OBVIOUS
    <3>2. \A c \in Ids : HandedOut(c)' \subseteq HandedOut(c)
      BY <1>0, <2>2, <2>3, <2>4, <3>1, ReplyAdded
    <3> QED
      BY <2>3, <2>4, <3>2, ServerEnds DEF Serving
  <2>5. CASE selfW' = selfW \o <<none("w"), none("f")>> /\ UNCHANGED <<board, server>>
    <3>1. PICK s \in Seq(Reply) : /\ s = <<none("w"), none("f")>>
                                  /\ \A i \in 1 .. Len(s) : s[i].msgs = {}
      <4>1. <<none("w"), none("f")>> \in Seq(Reply)
        BY <2>2
      <4>2. \A i \in 1 .. 2 : <<none("w"), none("f")>>[i].msgs = {}
        OBVIOUS
      <4> QED
        BY <4>1, <4>2
    <3>2. selfW \in Seq(Reply)
      BY <1>0 DEF TypeInv, TypeOK
    <3>3. /\ \A i \in DOMAIN selfW : i \in DOMAIN selfW' /\ selfW'[i] = selfW[i]
          /\ \A i \in DOMAIN selfW' : i \in DOMAIN selfW \/ selfW'[i].msgs = {}
      BY <2>5, <3>1, <3>2, ConcatProperties, LenProperties
    <3>4. \A c \in Ids : InReply(c)' = InReply(c)
      <4>1. \A c \in Ids : InReply(c)' \subseteq InReply(c)
        BY <3>3 DEF InReply
      <4>2. \A c \in Ids : InReply(c) \subseteq InReply(c)'
        BY <3>3 DEF InReply
      <4> QED
        BY <4>1, <4>2
    <3>5. \A c \in Ids : Held(c)' = Held(c)
      BY <2>3, <2>5, <3>4 DEF Held, HandedOut, Stored, Channels
    <3> QED
      BY <2>3, <2>5, <3>5, SamePlaces DEF WholeInv
  <2> QED
    BY <1>7, <2>1, <2>4, <2>5 DEF HandleGMUnknown
<1>8. CASE HandleGMCrash
  <2>1. PICK id \in Ids, all \in SUBSET Message :
          id = Head(selfR).id /\ all = board[id].msgs /\ all = Stored(id)
    BY <1>0, <1>8, SelfRequestType DEF HandleGMCrash, TypeInv, TypeOK,
       BoardType, Channel, Stored
  <2> DEFINE texts == [kind |-> "w", id |-> id, msgs |-> Ready(all, "w")]
  <2>2. texts \in Reply /\ texts.id = id /\ texts.msgs \subseteq Full(Stored(id))
    BY <2>1 DEF Reply, Kinds, Ready, Full
  <2>3. selfW' = selfW \/ selfW' = Append(selfW, texts)
    BY <1>8, <2>1 DEF HandleGMCrash
  <2>4. /\ board' = EmptyBoard /\ ~ Serving'
        /\ UNCHANGED <<job, nextMid, dropped, ended, delivered, othersR>>
    BY <1>8 DEF HandleGMCrash, SelfRequest, postVars, Serving
  <2>5. \A c \in Ids : HandedOut(c)' \subseteq HandedOut(c) \cup Full(Stored(c))
    <3>1. CASE selfW' = selfW
      BY <2>4, <3>1 DEF HandedOut, InReply
    <3> HIDE DEF texts
    <3>2. CASE selfW' = Append(selfW, texts)
      BY <1>0, <2>2, <2>4, <3>2, ReplyAdded
    <3> QED
      BY <2>3, <3>1, <3>2
  <2> QED
    BY <2>4, <2>5, ServerEnds
<1> QED
  BY <1>2, <1>3, <1>4, <1>5, <1>6, <1>7, <1>8 DEF ServerStep

-------------------------------------------------------------------------------
(* Steps of the boardposts *)

\* What is queued stays queued, and the new fragment is queued.
LEMMA WriteQueues ==
  ASSUME TypeInv, NEW w \in Fragment, WriteOthers(w)
  PROVE  /\ \A k, n : PartQueued(k, n) => PartQueued(k, n)'
         /\ PartQueued(Key(w), w.part)'
         /\ \A i \in DOMAIN othersR : i \in DOMAIN othersR' /\ othersR'[i] = othersR[i]
         /\ \E i \in DOMAIN othersR' : othersR'[i] = w
<1>1. othersR \in Seq(Fragment) /\ othersR' = Append(othersR, w)
  BY DEF TypeInv, TypeOK, WriteOthers
<1>2. DOMAIN othersR = 1 .. Len(othersR) /\ Len(othersR) \in Nat
  BY <1>1, LenProperties
<1>3. DOMAIN othersR' = 1 .. Len(othersR) + 1
  BY <1>1, <1>2, AppendProperties, LenProperties
<1>4. \A i \in DOMAIN othersR : i \in DOMAIN othersR' /\ othersR'[i] = othersR[i]
  BY <1>1, <1>2, <1>3, AppendProperties
<1>5. Len(othersR) + 1 \in DOMAIN othersR' /\ othersR'[Len(othersR) + 1] = w
  BY <1>1, <1>2, <1>3, AppendProperties
<1> QED
  BY <1>4, <1>5 DEF PartQueued

\* A boardpost writes fragment w, the next one of its message.
LEMMA WriteKeepsContent ==
  ASSUME WholeInv,
         NEW p \in Posts, NEW w \in Fragment, WriteOthers(w),
         UNCHANGED <<board, selfW, delivered, dropped, server>>,
         w.pid = p, w.mid = nextMid[p],
         w.part \in 1 .. w.msgsize,
         job[p] # NoJob => w.part = job[p].next /\ w.msgsize = job[p].frags,
         job[p] = NoJob => w.part = 1,
         \A q \in Posts : q # p => nextMid'[q] = nextMid[q] /\ job'[q] = job[q],
         \/ /\ nextMid'[p] = nextMid[p] + 1
            /\ job'[p] = NoJob
            /\ w.part = w.msgsize
         \/ /\ nextMid'[p] = nextMid[p]
            /\ job[p] # NoJob
            /\ job'[p] = [job[p] EXCEPT !.next = @ + 1]
  PROVE  ContentParts'
<1>0. TypeInv /\ ContentParts /\ nextMid[p] \in Nat /\ w.mid \in Nat /\ w.part \in Nat
      /\ w.msgsize \in Nat
  BY MidType DEF WholeInv, DeliveryInv, Fragment
<1>1. job[p] # NoJob => job[p] \in Job /\ job[p].next \in Nat /\ job[p].frags \in Nat
  BY <1>0 DEF TypeInv, TypeOK, Job
<1>2. /\ \A c : Held(c)' = Held(c)
      /\ \A k, n : PartQueued(k, n) => PartQueued(k, n)'
      /\ PartQueued(Key(w), w.part)'
  BY <1>0, SameHeld, WriteQueues
<1>3. Serving /\ Serving'
  BY DEF WriteOthers, Serving
\* One more fragment of the message of w is written, and none of another one.
<1>4. ASSUME NEW x, x.pid \in Posts, x.mid \in Nat,
             x.mid < nextMid[x.pid] \/ \E c : OfJob(x, c)
      PROVE  \/ Key(x) # Key(w) /\ Written(x)' = Written(x)
             \/ Key(x) = Key(w) /\ Written(x) = w.part - 1 /\ Written(x)' = w.part
  <2>1. CASE x.pid # p
    BY <1>4, <2>1 DEF Key, Written
  <2>2. CASE x.pid = p /\ x.mid < nextMid[p]
    BY <1>0, <1>4, <2>2 DEF Key, Written
  <2>3. CASE x.pid = p /\ x.mid = nextMid[p] /\ job[p] # NoJob /\ x.msgsize = job[p].frags
    <3>1. Key(x) = Key(w) /\ Written(x) = w.part - 1
      BY <2>3 DEF Key, Written
    <3>2. CASE nextMid'[p] = nextMid[p] + 1 /\ job'[p] = NoJob /\ w.part = w.msgsize
      BY <2>3, <3>1, <3>2 DEF Written
    <3>3. CASE nextMid'[p] = nextMid[p] /\ job'[p] = [job[p] EXCEPT !.next = @ + 1]
      <4>1. job'[p].next = w.part + 1 /\ job'[p] # NoJob
        BY <1>1, <2>3, <3>3 DEF Job, NoJob
      <4> QED
        BY <1>0, <2>3, <3>1, <3>3, <4>1 DEF Written
    <3> QED
      BY <3>1, <3>2, <3>3
  <2> QED
    BY <1>4, <2>1, <2>2, <2>3 DEF OfJob
<1>5. RunInv'
  BY <1>0, <1>2 DEF ContentParts, RunInv, LastPart
<1>6. ASSUME NEW c \in Ids, NEW m \in Held(c), m.full = "n"
      PROVE  /\ LastPart(m) <= Written(m)'
             /\ \A n \in LastPart(m) + 1 .. Written(m)' : PartQueued(Key(m), n)'
             /\ Key(m) = Key(w) => LastPart(m) < w.part
  <2>1. /\ m.pid \in Posts /\ m.mid \in Nat /\ m.msgsize \in Nat
        /\ LastPart(m) \in Nat
    BY <1>0, HeldMessage DEF ContentParts, RunInv
  <2>2. m.mid < nextMid[m.pid] \/ OfJob(m, c)
    BY DEF WholeInv, DeliveryInv, FragmentInv, HeldInv
  <2>3. /\ LastPart(m) <= Written(m)
        /\ \A n \in LastPart(m) + 1 .. Written(m) : PartQueued(Key(m), n)
    BY <1>0, <1>6 DEF ContentParts, TailInv
  <2>4. CASE Key(m) # Key(w) /\ Written(m)' = Written(m)
    BY <1>2, <2>3, <2>4
  <2>5. CASE Key(m) = Key(w) /\ Written(m) = w.part - 1 /\ Written(m)' = w.part
    <3>1. LastPart(m) < w.part
      BY <1>0, <2>1, <2>3, <2>5
    <3>2. \A n \in LastPart(m) + 1 .. w.part :
            n = w.part \/ n \in LastPart(m) + 1 .. Written(m)
      BY <1>0, <2>1, <2>5
    <3> QED
      BY <1>0, <1>2, <2>1, <2>3, <2>5, <3>1, <3>2
  <2> QED
    BY <1>4, <2>1, <2>2, <2>4, <2>5
<1>7. ASSUME NEW i \in DOMAIN othersR', NEW v, v = othersR'[i]
      PROVE  \A n \in v.part + 1 .. Written(v)' : PartQueued(Key(v), n)'
  <2>1. CASE v = w
    <3>1. Written(w)' = w.part
      <4>1. CASE nextMid'[p] = nextMid[p] + 1 /\ job'[p] = NoJob /\ w.part = w.msgsize
        BY <4>1 DEF Written
      <4>2. CASE /\ nextMid'[p] = nextMid[p]
                 /\ job[p] # NoJob /\ job'[p] = [job[p] EXCEPT !.next = @ + 1]
        <5>1. job'[p].next = w.part + 1 /\ job'[p] # NoJob
          BY <1>1, <4>2 DEF Job, NoJob
        <5> QED
          BY <1>0, <4>2, <5>1 DEF Written
      <4> QED
        BY <4>1, <4>2
    <3> QED
      BY <1>0, <2>1, <3>1
  <2>2. CASE i \in DOMAIN othersR /\ v = othersR[i]
    <3>1. /\ v \in Fragment /\ v.pid \in Posts /\ v.mid \in Nat /\ v.part \in Nat
          /\ v.part <= Written(v)
      BY <2>2, PartBounds DEF WholeInv
    <3>2. v.mid < nextMid[v.pid] \/ OfJob(v, v.id)
      BY <2>2 DEF WholeInv, DeliveryInv, FragmentInv, QueueInv
    <3>3. \A n \in v.part + 1 .. Written(v) : PartQueued(Key(v), n)
      BY <1>0, <2>2 DEF ContentParts, TailInv
    <3>4. CASE Key(v) # Key(w) /\ Written(v)' = Written(v)
      BY <1>2, <3>3, <3>4
    <3>5. CASE Key(v) = Key(w) /\ Written(v) = w.part - 1 /\ Written(v)' = w.part
      <4>1. \A n \in v.part + 1 .. w.part :
              n = w.part \/ n \in v.part + 1 .. Written(v)
        BY <1>0, <3>1, <3>5
      <4> QED
        BY <1>2, <3>3, <3>5, <4>1
    <3> QED
      BY <1>4, <3>1, <3>2, <3>4, <3>5
  <2> QED
    BY <1>0, <1>7, <2>1, <2>2, AfterWrite
<1>8. TailInv'
  <2>1. ASSUME NEW c \in Ids, NEW m \in Held(c), m.full = "n", NEW i \in DOMAIN othersR',
               Key(othersR'[i]) = Key(m)
        PROVE  LastPart(m) < othersR'[i].part
    BY <1>0, <1>6, <2>1, AfterWrite DEF ContentParts, TailInv
  <2>2. \A m : LastPart(m)' = LastPart(m) /\ Key(m)' = Key(m)
    BY DEF LastPart, Key
  <2> QED
    BY <1>2, <1>6, <1>7, <2>1 DEF TailInv, LastPart
<1>9. \A k : HeadFound(k) => HeadFound(k)'
  BY <1>2 DEF HeadFound
<1>10. HeadFound(Key(w))'
  <2>1. CASE w.part = 1
    BY <1>2, <2>1 DEF HeadFound
  <2>2. CASE w.part # 1
    <3>1. job[p] # NoJob /\ job[p].next > 1
      BY <1>0, <2>2
    <3>2. Key(w) = <<p, nextMid[p]>>
      BY DEF Key
    <3> QED
      BY <1>0, <1>3, <1>9, <3>1, <3>2 DEF ContentParts, HeadInv
  <2> QED
    BY <2>1, <2>2
<1>11. HeadInv'
  <2>1. ASSUME NEW k, k \in {Key(othersR'[i]) : i \in DOMAIN othersR'}
        PROVE  HeadFound(k)'
    BY <1>0, <1>3, <1>9, <1>10, <2>1, AfterWrite DEF ContentParts, HeadInv
  <2>2. ASSUME NEW q \in Posts, job'[q] # NoJob, job'[q].next > 1,
               NEW k, k = <<q, nextMid'[q]>>
        PROVE  HeadFound(k)'
    <3>1. CASE q # p
      BY <1>0, <1>3, <1>9, <2>2, <3>1 DEF ContentParts, HeadInv
    <3>2. CASE q = p
      <4>1. k = Key(w)
        BY <2>2, <3>2 DEF Key
      <4> QED
        BY <1>10, <4>1
    <3> QED
      BY <3>1, <3>2
  <2> QED
    BY <2>1, <2>2 DEF HeadInv, HeadFound, PartQueued, Key
<1>12. EndedInv'
  <2>1. ended' \subseteq ended \cup {Key(w)} /\ (w.flag # "y" => ended' = ended)
    BY DEF WriteOthers
  <2>2. \A i \in DOMAIN othersR : i \in DOMAIN othersR' /\ othersR'[i] = othersR[i]
    BY <1>0, WriteQueues
  <2>3. \E i \in DOMAIN othersR' : othersR'[i] = w
    BY <1>0, WriteQueues
  <2> QED
    BY <1>0, <1>2, <1>3, <2>1, <2>2, <2>3 DEF ContentParts, EndedInv, Full
<1> QED
  BY <1>5, <1>8, <1>11, <1>12 DEF ContentParts

LEMMA PostStepContent ==
  ASSUME WholeInv, NEW p \in Posts, PostStep(p)
  PROVE  ContentParts'
<1>0. TypeInv /\ ContentParts
  BY DEF WholeInv, DeliveryInv
<1>1. ASSUME NEW id \in Ids, WriteText(p, id)
      PROVE  ContentParts'
  <2> DEFINE w == Header(p, id, "w", 1, 1, "y")
  <2>1. w \in Fragment
    BY <1>0, <1>1, HeaderType DEF WriteText, TypeInv, Kinds, Flags
  <2>2. w.pid = p /\ w.mid = nextMid[p] /\ w.part = 1 /\ w.msgsize = 1
    BY DEF Header
  <2>3. /\ job[p] = NoJob /\ WriteOthers(w)
        /\ UNCHANGED <<job, board, selfW, delivered, dropped, server>>
    BY <1>1 DEF WriteText, serverVars
  <2>4. /\ nextMid'[p] = nextMid[p] + 1
        /\ \A q \in Posts : q # p => nextMid'[q] = nextMid[q]
    BY <1>0, <1>1 DEF WriteText, TypeInv, TypeOK
  <2> HIDE DEF w
  <2>5. /\ w.part \in 1 .. w.msgsize /\ w.part = w.msgsize
        /\ job'[p] = NoJob /\ \A q \in Posts : job'[q] = job[q]
    BY <2>2, <2>3
  <2> QED
    BY <2>1, <2>2, <2>3, <2>4, <2>5, WriteKeepsContent
<1>2. ASSUME NEW id \in Ids, NEW file \in FileShapes, StartSend(p, id, file)
      PROVE  ContentParts'
  <2>1. /\ job[p] = NoJob
        /\ UNCHANGED <<board, selfW, delivered, othersR, dropped, ended, server>>
    BY <1>2 DEF StartSend, serverVars
  <2>2. /\ \A q \in Posts : q # p => job'[q] = job[q] /\ nextMid'[q] = nextMid[q]
        /\ \/ nextMid'[p] = nextMid[p] /\ job'[p].next = 1
           \/ nextMid'[p] = nextMid[p] + 1 /\ job'[p] = NoJob
    <3>1. job \in [Posts -> Job \cup {NoJob}] /\ nextMid \in [Posts -> 0 .. MaxMid]
      BY <1>0 DEF TypeInv, TypeOK
    <3>2. CASE /\ job' = [job EXCEPT ![p] = [id |-> id, frags |-> file.frags,
                                            short |-> file.short, next |-> 1]]
               /\ UNCHANGED nextMid
      <4>1. job'[p] = [id |-> id, frags |-> file.frags, short |-> file.short, next |-> 1]
        BY <3>1, <3>2
      <4>2. \A q \in Posts : q # p => job'[q] = job[q]
        BY <3>1, <3>2
      <4> QED
        BY <3>2, <4>1, <4>2
    <3>3. CASE nextMid' = [nextMid EXCEPT ![p] = @ + 1] /\ UNCHANGED job
      BY <2>1, <3>1, <3>3
    <3> QED
      BY <1>2, <3>2, <3>3 DEF StartSend
  <2>3. /\ \A c : Held(c)' = Held(c)
        /\ \A k, n : PartQueued(k, n)' = PartQueued(k, n)
        /\ Serving' = Serving
    BY <2>1, SameHeld DEF PartQueued, Serving
  \* What there is of p is of messages before the one that starts.
  <2>4. ASSUME NEW x, x.pid \in Posts, x.mid \in Nat,
               x.mid < nextMid[x.pid] \/ \E c : OfJob(x, c)
        PROVE  Written(x)' = Written(x)
    <3>1. nextMid[p] \in Nat
      BY <1>0, MidType
    <3> QED
      BY <2>1, <2>2, <2>4, <3>1 DEF Written, OfJob
  <2>5. \A c \in Ids : \A m \in Held(c) : Written(m)' = Written(m)
    BY <1>0, <2>4, HeldMessage DEF WholeInv, DeliveryInv, FragmentInv, HeldInv
  <2>6. \A i \in DOMAIN othersR : \A x : x = othersR[i] => Written(x)' = Written(x)
    BY <1>0, <2>4, MidType DEF WholeInv, DeliveryInv, FragmentInv, QueueInv
  <2>7. RunInv'
    BY <1>0, <2>1, <2>3 DEF ContentParts, RunInv, LastPart
  <2>8. TailInv'
    BY <1>0, <2>1, <2>3, <2>5, <2>6 DEF ContentParts, TailInv, LastPart
  <2>9. \A k : HeadFound(k)' = HeadFound(k)
    BY <2>1, <2>3 DEF HeadFound
  <2>10. HeadInv'
    <3>1. ASSUME NEW q \in Posts, job'[q] # NoJob, job'[q].next > 1
          PROVE  job[q] # NoJob /\ job[q].next > 1 /\ nextMid'[q] = nextMid[q]
      BY <2>2, <3>1
    <3> QED
      BY <1>0, <2>1, <2>3, <2>9, <3>1 DEF ContentParts, HeadInv
  <2>11. EndedInv'
    BY <1>0, <2>1, <2>3 DEF ContentParts, EndedInv, Full
  <2> QED
    BY <2>7, <2>8, <2>10, <2>11 DEF ContentParts
<1>3. CASE SendFragment(p)
  <2> DEFINE j == job[p]
             last == j.next = j.frags
             w == Header(p, j.id, "f", j.frags, j.next,
                         IF last /\ j.short THEN "y" ELSE "n")
  <2>1. /\ j \in Job /\ j # NoJob /\ nextMid[p] < MaxMid
        /\ j.next \in 1 .. j.frags
    BY <1>0, <1>3 DEF SendFragment, TypeInv, TypeOK, JobInv, Job, NoJob
  <2>2. w \in Fragment
    BY <1>0, <2>1, HeaderType DEF TypeInv, Kinds, Flags, Job
  <2>3. /\ w.pid = p /\ w.mid = nextMid[p] /\ w.part \in 1 .. w.msgsize
        /\ w.part = j.next /\ w.msgsize = j.frags
    BY <2>1 DEF Header
  <2>4. WriteOthers(w) /\ UNCHANGED <<board, selfW, delivered, dropped, server>>
    BY <1>3 DEF SendFragment, serverVars
  <2>5. \/ /\ nextMid'[p] = nextMid[p] + 1 /\ job'[p] = NoJob
           /\ w.part = w.msgsize
        \/ /\ nextMid'[p] = nextMid[p]
           /\ j # NoJob
           /\ job'[p] = [j EXCEPT !.next = @ + 1]
    <3>1. CASE last
      BY <1>0, <1>3, <2>3, <3>1 DEF SendFragment, TypeInv, TypeOK
    <3>2. CASE ~ last
      BY <1>0, <1>3, <2>1, <3>2 DEF SendFragment, TypeInv, TypeOK
    <3> QED
      BY <3>1, <3>2
  <2>6. \A q \in Posts : q # p => nextMid'[q] = nextMid[q] /\ job'[q] = job[q]
    BY <1>0, <1>3 DEF SendFragment, TypeInv, TypeOK
  <2> HIDE DEF w, last
  <2> QED
    BY <2>1, <2>2, <2>3, <2>4, <2>5, <2>6, WriteKeepsContent
<1> QED
  BY <1>1, <1>2, <1>3 DEF PostStep

-------------------------------------------------------------------------------
(* The server takes a fragment *)

\* A message that is held under the key of the fragment at the head of the
\* fifo is the stored one that the fragment continues.
LEMMA HeadContinues ==
  ASSUME WholeInv, 1 \in DOMAIN othersR, NEW w, w = othersR[1],
         NEW c \in Ids, NEW m \in Held(c), Key(m) = Key(w)
  PROVE  /\ SameMessage(m, w) /\ c = w.id /\ m.full = "n"
         /\ m \in Stored(c) /\ m \notin HandedOut(c)
         /\ w.part = LastPart(m) + 1
<1>0. TypeInv /\ DeliveryInv /\ ContentParts
  BY DEF WholeInv, DeliveryInv
<1>1. m.pid = w.pid /\ m.mid = w.mid /\ w.mid \in Nat
  BY <1>0, MidType DEF Key
<1>2. SameMessage(m, w) /\ c = w.id /\ m.full = "n"
  BY <1>0, <1>1 DEF DeliveryInv, FragmentInv, AheadInv
<1>3. m \notin HandedOut(c)
  BY <1>0, <1>2 DEF DeliveryInv, FragmentInv, HeldInv
<1>4. m \in Stored(c)
  BY <1>3 DEF Held
<1>5. /\ LastPart(m) \in Nat /\ LastPart(m) < w.part
      /\ \A n \in LastPart(m) + 1 .. Written(m) : PartQueued(Key(m), n)
  BY <1>0, <1>2, HeldMessage DEF ContentParts, RunInv, TailInv
<1>6. w.part \in Nat /\ w.part <= Written(w) /\ Written(w) \in Nat
  BY <1>0, PartBounds
<1>7. Written(m) = Written(w)
  BY <1>1, <1>2 DEF Written, SameMessage
\* The part that follows is in the fifo, and none before the head.
<1>8. PICK i \in DOMAIN othersR :
        Key(othersR[i]) = Key(w) /\ othersR[i].part = LastPart(m) + 1
  BY <1>5, <1>6, <1>7 DEF PartQueued
<1>9. i = 1 \/ w.part < othersR[i].part
  <2>1. i \in Nat /\ 1 <= i
    BY <1>0, LenProperties DEF TypeInv, TypeOK
  <2> QED
    BY <1>0, <1>8, <2>1, PartOrder
<1> QED
  BY <1>2, <1>3, <1>4, <1>5, <1>6, <1>8, <1>9

\* Taking the head w of the fifo leaves the others, which are of other messages
\* or of later parts.
LEMMA HeadTaken ==
  ASSUME DeliveryInv, othersR # <<>>, othersR' = Tail(othersR), NEW w, w = othersR[1]
  PROVE  /\ \A k, n : PartQueued(k, n) =>
              PartQueued(k, n)' \/ (k = Key(w) /\ n = w.part)
         /\ \A i \in DOMAIN othersR' :
              /\ \E j \in DOMAIN othersR : othersR'[i] = othersR[j]
              /\ Key(othersR'[i]) = Key(w) => w.part < othersR'[i].part
         /\ \A i \in DOMAIN othersR :
              othersR[i] = w \/ \E j \in DOMAIN othersR' : othersR'[j] = othersR[i]
<1>0. TypeInv /\ othersR \in Seq(Fragment)
  BY DEF DeliveryInv, TypeInv, TypeOK
<1>1. /\ 1 \in DOMAIN othersR
      /\ \A i \in DOMAIN othersR' :
           /\ i \in Nat /\ i + 1 \in DOMAIN othersR /\ 1 < i + 1
           /\ othersR'[i] = othersR[i + 1]
  BY <1>0, AfterRead
<1>2. /\ DOMAIN othersR = 1 .. Len(othersR) /\ Len(othersR) \in Nat
      /\ DOMAIN othersR' = 1 .. Len(othersR) - 1
  BY <1>0, HeadTailProperties, LenProperties
<1>3. \A i \in DOMAIN othersR :
        othersR[i] = w \/ \E j \in DOMAIN othersR' : othersR'[j] = othersR[i]
  <2> SUFFICES ASSUME NEW i \in DOMAIN othersR, i # 1
               PROVE  \E j \in DOMAIN othersR' : othersR'[j] = othersR[i]
    OBVIOUS
  <2>1. i - 1 \in DOMAIN othersR' /\ (i - 1) + 1 = i
    BY <1>2
  <2>2. othersR'[i - 1] = othersR[i]
    BY <1>1, <2>1
  <2> QED
    BY <2>1, <2>2
<1>4. \A i \in DOMAIN othersR' : Key(othersR'[i]) = Key(w) => w.part < othersR'[i].part
  BY <1>1, PartOrder
<1> QED
  BY <1>1, <1>3, <1>4 DEF PartQueued

\* The parts behind a fragment that stays in the fifo stay too.
LEMMA LaterPartsStay ==
  ASSUME WholeInv, othersR # <<>>, othersR' = Tail(othersR),
         NEW i \in DOMAIN othersR', NEW v, v = othersR'[i],
         NEW n \in v.part + 1 .. Written(v)
  PROVE  PartQueued(Key(v), n)'
<1>0. TypeInv /\ DeliveryInv /\ ContentParts
  BY DEF WholeInv, DeliveryInv
<1>1. PICK w : w = othersR[1]
  OBVIOUS
<1>2. PICK j \in DOMAIN othersR : v = othersR[j]
  BY <1>0, HeadTaken
<1>3. v.part \in Nat /\ Written(v) \in Nat
  BY <1>0, <1>2, PartBounds
<1>4. 1 \in DOMAIN othersR /\ w.part \in Nat
  BY <1>0, <1>1, AfterRead, PartBounds
<1>5. PartQueued(Key(v), n)
  BY <1>0, <1>2 DEF ContentParts, TailInv
<1>6. Key(v) = Key(w) => w.part < v.part
  BY <1>0, <1>1, HeadTaken
<1> QED
  BY <1>0, <1>1, <1>3, <1>4, <1>5, <1>6, HeadTaken

\* A fragment for a channel that is not there is dropped, and its message with
\* it; the server holds nothing of that message.
LEMMA RefusedContent ==
  ASSUME WholeInv, HandleWR, NEW w \in Fragment, w = othersR[1], w.id \notin Channels
  PROVE  ContentParts'
<1>0. TypeInv /\ DeliveryInv /\ ContentParts
  BY DEF WholeInv, DeliveryInv
<1>1. /\ UNCHANGED <<board, job, nextMid, ended, selfW, delivered, server>>
      /\ othersR # <<>> /\ othersR' = Tail(othersR)
      /\ dropped' = dropped \cup {Key(w)}
      /\ Serving
  <2>1. othersR # <<>> /\ w = Head(othersR)
    BY <1>0, AfterRead DEF HandleWR
  <2> QED
    BY <2>1 DEF HandleWR, AddMessageD, Visit, postVars
<1>2. /\ \A c : Held(c)' = Held(c)
      /\ \A x : Written(x)' = Written(x)
      /\ Serving'
  BY <1>1, SameHeld DEF Written, Serving
<1>3. /\ \A k, n : PartQueued(k, n) => PartQueued(k, n)' \/ (k = Key(w) /\ n = w.part)
      /\ \A i \in DOMAIN othersR' :
           /\ \E j \in DOMAIN othersR : othersR'[i] = othersR[j]
           /\ Key(othersR'[i]) = Key(w) => w.part < othersR'[i].part
      /\ \A i \in DOMAIN othersR :
           othersR[i] = w \/ \E j \in DOMAIN othersR' : othersR'[j] = othersR[i]
      /\ 1 \in DOMAIN othersR
  BY <1>0, <1>1, HeadTaken, AfterRead
<1>4. \A c \in Ids : \A m \in Held(c) : Key(m) # Key(w)
  BY <1>3, HeadContinues DEF Stored
<1>5. RunInv'
  BY <1>0, <1>1, <1>2 DEF ContentParts, RunInv, LastPart
<1>6. TailInv'
  <2>1. ASSUME NEW c \in Ids, NEW m \in Held(c), m.full = "n"
        PROVE  /\ LastPart(m) <= Written(m)
               /\ \A n \in LastPart(m) + 1 .. Written(m) : PartQueued(Key(m), n)'
               /\ \A i \in DOMAIN othersR' :
                    Key(othersR'[i]) = Key(m) => LastPart(m) < othersR'[i].part
    BY <1>0, <1>3, <1>4, <2>1 DEF ContentParts, TailInv
  <2>2. ASSUME NEW i \in DOMAIN othersR', NEW v, v = othersR'[i],
               NEW n \in v.part + 1 .. Written(v)
        PROVE  PartQueued(Key(v), n)'
    BY <1>1, <2>2, LaterPartsStay
  <2> QED
    BY <1>2, <2>1, <2>2 DEF TailInv, LastPart
<1>7. \A k : HeadFound(k) => HeadFound(k)'
  BY <1>1, <1>2, <1>3 DEF HeadFound
<1>8. HeadInv'
  <2>1. \A i \in DOMAIN othersR' : \A k : k = Key(othersR'[i]) => HeadFound(k)'
    BY <1>0, <1>1, <1>3, <1>7 DEF ContentParts, HeadInv
  <2>2. \A p \in Posts : job[p] # NoJob /\ job[p].next > 1 =>
          HeadFound(<<p, nextMid[p]>>)'
    BY <1>0, <1>1, <1>7 DEF ContentParts, HeadInv
  <2> QED
    BY <1>1, <2>1, <2>2 DEF HeadInv, HeadFound, PartQueued, Key
<1>9. EndedInv'
  BY <1>0, <1>1, <1>2, <1>3 DEF ContentParts, EndedInv, Full
<1> QED
  BY <1>5, <1>6, <1>8, <1>9 DEF ContentParts

\* A fragment for a channel that is there starts the record of its message or
\* extends the one there is.
LEMMA StoredContent ==
  ASSUME WholeInv, HandleWR, NEW w \in Fragment, w = othersR[1], w.id \in Channels
  PROVE  ContentParts'
<1>0. TypeInv /\ DeliveryInv /\ ContentParts
  BY DEF WholeInv, DeliveryInv
<1>1. /\ UNCHANGED <<dropped, job, nextMid, ended, selfW, delivered, server>>
      /\ othersR # <<>> /\ othersR' = Tail(othersR)
      /\ AddMessageD(w)
      /\ Serving
  <2>1. othersR # <<>> /\ w = Head(othersR)
    BY <1>0, AfterRead DEF HandleWR
  <2> QED
    BY <2>1 DEF HandleWR, Visit, postVars
<1>2. /\ \A x : Written(x)' = Written(x)
      /\ Serving'
      /\ \A c : HandedOut(c)' = HandedOut(c)
  BY <1>1 DEF Written, Serving, HandedOut, InReply
<1>3. /\ \A k, n : PartQueued(k, n) => PartQueued(k, n)' \/ (k = Key(w) /\ n = w.part)
      /\ \A i \in DOMAIN othersR' :
           /\ \E j \in DOMAIN othersR : othersR'[i] = othersR[j]
           /\ Key(othersR'[i]) = Key(w) => w.part < othersR'[i].part
      /\ \A i \in DOMAIN othersR :
           othersR[i] = w \/ \E j \in DOMAIN othersR' : othersR'[j] = othersR[i]
      /\ 1 \in DOMAIN othersR
  BY <1>0, <1>1, HeadTaken, AfterRead
<1>4. PICK x \in Message, old \in SUBSET Stored(w.id) : Stores(w, x, old)
  BY <1>0, <1>1, AddMessageDEffect
<1>5. /\ Key(x) = Key(w) /\ x.full = w.flag /\ x.msgsize = w.msgsize
      /\ x.pid = w.pid /\ x.mid = w.mid /\ w.id \in Ids
      /\ w.part \in Nat /\ 1 <= w.part /\ w.part <= Written(w)
      /\ w.flag = "y" => w.part = w.msgsize
  <2>1. x.pid = w.pid /\ x.mid = w.mid /\ x.full = w.flag /\ x.msgsize = w.msgsize
    BY <1>4 DEF Stores, SameMessage
  <2>2. w.part \in Nat /\ 1 <= w.part /\ w.part <= Written(w)
    BY <1>0, <1>3, PartBounds
  <2>3. w.flag = "y" => w.part = w.msgsize
    BY <1>0, <1>3 DEF DeliveryInv, FragmentInv, QueueInv
  <2> QED
    BY <2>1, <2>2, <2>3 DEF Key, Fragment
\* What was held under another key stays, and only x is held under that of w.
<1>6. \A c \in Ids : \A m \in Held(c) : Key(m) = Key(w) =>
        /\ c = w.id /\ m.full = "n" /\ m \in old
        /\ w.part = LastPart(m) + 1
  <2>1. \A c \in Ids : \A m \in Held(c) : Key(m) = Key(w) =>
          /\ SameMessage(m, w) /\ c = w.id /\ m.full = "n"
          /\ m \in Stored(c)
          /\ w.part = LastPart(m) + 1
    BY <1>3, HeadContinues
  <2> QED
    BY <1>4, <2>1 DEF Stores
<1>7. \A c \in Ids : \A m \in Held(c)' :
        (m \in Held(c) /\ Key(m) # Key(w)) \/ (c = w.id /\ m = x)
  <2>1. ASSUME NEW c \in Ids, NEW m \in Held(c)', ~ (c = w.id /\ m = x)
        PROVE  m \in Held(c) /\ (c = w.id => m \notin old \/ m \in HandedOut(c))
    BY <1>2, <1>4, <2>1 DEF Stores, Held
  <2>2. ASSUME NEW c \in Ids, NEW m \in Held(c)', ~ (c = w.id /\ m = x)
        PROVE  Key(m) # Key(w)
    <3>1. m \in Held(c) /\ (c = w.id => m \notin old \/ m \in HandedOut(c))
      BY <2>1, <2>2
    <3>2. m \in HandedOut(c) => m.full = "y"
      BY <1>0, <3>1 DEF DeliveryInv, FragmentInv, HeldInv
    <3> QED
      BY <1>6, <3>1, <3>2
  <2> QED
    BY <2>1, <2>2
<1>8. /\ x \in Held(w.id)'
      /\ \A c \in Ids : \A m \in Held(c) : m \in Held(c)' \/ Key(m) = Key(w)
  <2>1. \A m \in old : Key(m) = Key(w)
    BY <1>4 DEF Stores, SameMessage, Key
  <2> QED
    BY <1>2, <1>4, <2>1 DEF Stores, Held
\* The record of w: a new one that starts with part one unless an earlier part
\* was refused, or the longer one.
<1>9. /\ x.body # <<>>
      /\ \A k \in DOMAIN x.body : x.body[k] = x.body[1] + k - 1
      /\ LastPart(x) = w.part
      /\ x.body[1] = 1 \/ Key(x) \in dropped
  <2>1. CASE old = {} /\ x = NewMessage(w)
    <3>1. x.body = <<w.part>>
      BY <2>1 DEF NewMessage
    <3>2. w.part = 1 \/ Key(w) \in dropped
      <4>1. HeadFound(Key(w))
        BY <1>0, <1>1, <1>3 DEF ContentParts, HeadInv
      <4>2. \A c \in Ids : \A m \in Held(c) : Key(m) # Key(w)
        BY <1>6, <2>1
      <4>3. PartQueued(Key(w), 1) => w.part = 1
        <5> SUFFICES ASSUME NEW i \in DOMAIN othersR, Key(othersR[i]) = Key(w),
                            othersR[i].part = 1, w.part # 1
                     PROVE  FALSE
          BY DEF PartQueued
        <5>1. i \in Nat /\ 1 <= i
          BY <1>0, LenProperties DEF TypeInv, TypeOK
        <5>2. 1 < i
          BY <5>1
        <5> QED
          BY <1>0, <1>3, <1>5, <5>2, PartOrder
      <4> QED
        BY <4>1, <4>2, <4>3 DEF HeadFound
    <3> QED
      BY <1>5, <3>1, <3>2 DEF LastPart
  <2>2. CASE \E m \in Stored(w.id) : old = {m} /\ x = Extended(m, w)
    <3>1. PICK m \in Stored(w.id) : old = {m} /\ x = Extended(m, w)
      BY <2>2
    <3>2. m \in Held(w.id) /\ Key(m) = Key(w)
      BY <1>4, <3>1 DEF Held, Stores, SameMessage, Key
    <3>3. /\ m.body \in Seq(Nat) /\ m.body # <<>> /\ m \in Message
          /\ DOMAIN m.body = 1 .. Len(m.body) /\ Len(m.body) \in Nat
          /\ m.body[1] \in Nat
          /\ \A k \in DOMAIN m.body : m.body[k] = m.body[1] + k - 1
          /\ m.body[1] = 1 \/ Key(m) \in dropped
      BY <1>0, <1>5, <3>2, HeldMessage DEF ContentParts, RunInv
    <3>4. x.body = Append(m.body, w.part)
      BY <3>1, <3>3 DEF Extended, Message
    <3>5. /\ DOMAIN x.body = 1 .. Len(m.body) + 1 /\ Len(x.body) = Len(m.body) + 1
          /\ \A k \in DOMAIN m.body : x.body[k] = m.body[k]
          /\ x.body[Len(m.body) + 1] = w.part
          /\ Len(m.body) >= 1
      BY <1>5, <3>3, <3>4, AppendProperties, LenProperties, EmptySeq
    <3>6. w.part = m.body[1] + Len(m.body)
      BY <1>5, <1>6, <3>2, <3>3 DEF LastPart
    <3>7. x.body[1] = m.body[1] /\ x.body # <<>>
      BY <3>3, <3>5
    <3>8. \A k \in DOMAIN x.body : x.body[k] = x.body[1] + k - 1
      <4>1. \A k \in DOMAIN x.body : k \in DOMAIN m.body \/ k = Len(m.body) + 1
        BY <3>3, <3>5
      <4>2. ASSUME NEW k \in DOMAIN m.body PROVE x.body[k] = x.body[1] + k - 1
        BY <3>3, <3>5, <3>7, <4>2
      <4>3. x.body[Len(m.body) + 1] = x.body[1] + (Len(m.body) + 1) - 1
        BY <3>3, <3>5, <3>6, <3>7
      <4> QED
        BY <4>1, <4>2, <4>3
    <3>9. LastPart(x) = w.part
      BY <3>3, <3>5, <3>6, <3>7 DEF LastPart
    <3> QED
      BY <1>5, <3>2, <3>3, <3>7, <3>8, <3>9
  <2> QED
    BY <1>4, <2>1, <2>2 DEF Stores
<1>10. RunInv'
  BY <1>0, <1>1, <1>5, <1>7, <1>9 DEF ContentParts, RunInv, LastPart
<1>11. TailInv'
  <2>1. ASSUME NEW c \in Ids, NEW m \in Held(c), m.full = "n", Key(m) # Key(w)
        PROVE  /\ LastPart(m) <= Written(m)
               /\ \A n \in LastPart(m) + 1 .. Written(m) : PartQueued(Key(m), n)'
               /\ \A i \in DOMAIN othersR' :
                    Key(othersR'[i]) = Key(m) => LastPart(m) < othersR'[i].part
    BY <1>0, <1>3, <2>1 DEF ContentParts, TailInv
  <2>2. /\ LastPart(x) <= Written(x)
        /\ \A n \in LastPart(x) + 1 .. Written(x) : PartQueued(Key(x), n)'
        /\ \A i \in DOMAIN othersR' :
             Key(othersR'[i]) = Key(x) => LastPart(x) < othersR'[i].part
    <3>1. Written(x) = Written(w)
      BY <1>5 DEF Written
    <3>2. \A n \in w.part + 1 .. Written(w) : PartQueued(Key(w), n) /\ n # w.part
      BY <1>0, <1>3, <1>5 DEF ContentParts, TailInv
    <3> QED
      BY <1>3, <1>5, <1>9, <3>1, <3>2
  <2>3. ASSUME NEW i \in DOMAIN othersR', NEW v, v = othersR'[i],
               NEW n \in v.part + 1 .. Written(v)
        PROVE  PartQueued(Key(v), n)'
    BY <1>1, <2>3, LaterPartsStay
  <2> QED
    BY <1>2, <1>7, <2>1, <2>2, <2>3 DEF TailInv, LastPart
<1>12. \A k : HeadFound(k) => HeadFound(k)'
  <2>1. \A k : k # Key(w) => (HeadFound(k) => HeadFound(k)')
    BY <1>1, <1>3, <1>8 DEF HeadFound
  <2>2. HeadFound(Key(w))'
    BY <1>5, <1>8 DEF HeadFound
  <2> QED
    BY <2>1, <2>2
<1>13. HeadInv'
  <2>1. \A i \in DOMAIN othersR' : \A k : k = Key(othersR'[i]) => HeadFound(k)'
    BY <1>0, <1>1, <1>3, <1>12 DEF ContentParts, HeadInv
  <2>2. \A p \in Posts : job[p] # NoJob /\ job[p].next > 1 =>
          HeadFound(<<p, nextMid[p]>>)'
    BY <1>0, <1>1, <1>12 DEF ContentParts, HeadInv
  <2> QED
    BY <1>1, <2>1, <2>2 DEF HeadInv, HeadFound, PartQueued, Key
<1>14. EndedInv'
  <2>1. ASSUME NEW k \in ended
        PROVE  \/ k \in dropped
               \/ \E i \in DOMAIN othersR' : Key(othersR'[i]) = k /\ othersR'[i].flag = "y"
               \/ \E c \in Ids : \E m \in Held(c)' : m.full = "y" /\ Key(m) = k
    <3>1. CASE k \in dropped
      BY <3>1
    <3>2. ASSUME NEW i \in DOMAIN othersR, Key(othersR[i]) = k, othersR[i].flag = "y"
          PROVE  \/ \E j \in DOMAIN othersR' : Key(othersR'[j]) = k /\ othersR'[j].flag = "y"
                 \/ \E c \in Ids : \E m \in Held(c)' : m.full = "y" /\ Key(m) = k
      BY <1>3, <1>5, <1>8, <3>2
    <3>3. ASSUME NEW c \in Ids, NEW m \in Held(c), m.full = "y", Key(m) = k
          PROVE  m \in Held(c)'
      BY <1>6, <1>8, <3>3
    <3> QED
      BY <1>0, <1>1, <3>1, <3>2, <3>3 DEF ContentParts, EndedInv, Full
  <2> QED
    BY <1>1, <2>1 DEF EndedInv, Full
<1> QED
  BY <1>10, <1>11, <1>13, <1>14 DEF ContentParts

-------------------------------------------------------------------------------
(* The theorems *)

LEMMA ContentInit ==
  ASSUME Init
  PROVE  ContentParts
<1>1. othersR = <<>> /\ selfW = <<>>
  BY DEF Init
<1>2. \A c \in Ids : Held(c) = {}
  BY <1>1 DEF Init, CrBboard, EmptyBoard, Held, HandedOut, InReply, Stored, Channels
<1>3. RunInv /\ TailInv
  BY <1>1, <1>2 DEF RunInv, TailInv
<1>4. HeadInv /\ EndedInv
  BY <1>1 DEF Init, HeadInv, EndedInv
<1> QED
  BY <1>3, <1>4 DEF ContentParts

LEMMA ContentStep ==
  ASSUME WholeInv, [Next]_vars
  PROVE  ContentParts'
<1>1. CASE UNCHANGED vars
  <2>1. \A c : Held(c)' = Held(c)
    BY <1>1, SameHeld DEF vars
  <2> QED
    BY <1>1, <2>1, SamePlaces DEF WholeInv, vars, postVars, serverVars, Serving
<1>2. CASE HandleWR
  <2>1. othersR # <<>> /\ DeliveryInv /\ TypeInv
    BY <1>2 DEF HandleWR, WholeInv, DeliveryInv
  <2>2. othersR[1] \in Fragment
    BY <1>2, <2>1, AfterRead, MidType DEF HandleWR
  <2> QED
    BY <1>2, <2>2, RefusedContent, StoredContent
<1> QED
  BY <1>1, <1>2, PostStepContent, OwnerStepContent, ServerKeepsContent DEF Next

\* The inductive invariant holds: which copies of a message there are, and what
\* they hold.  boardb.c:217-270, 320-415; boardpost.c:240-330; board_server.c:122-310
THEOREM InvariantHolds == Spec => []IInv
<1>1. Init => IInv
  BY InitInv, ContentInit DEF IInv
<1>2. IInv /\ [Next]_vars => IInv'
  <2> SUFFICES ASSUME IInv, [Next]_vars PROVE IInv'
    OBVIOUS
  <2>1. DeliveryParts /\ WholeInv
    BY WholeIsInv DEF IInv
  <2> QED
    BY <2>1, StepInv, ContentStep DEF IInv
<1> QED
  BY <1>1, <1>2, PTL DEF Spec

\* What a full message holds is the tail of its file in the right order, and all
\* of it unless some of it was refused for want of a channel, however the
\* fragments of other boardposts come in between.  boardb.c:228-241
THEOREM MessagesAreWhole == Spec => []FullIsWhole
<1>1. IInv => FullIsWhole
  <2> SUFFICES ASSUME IInv, NEW c \in Ids, NEW m \in Full(Held(c))
               PROVE  /\ \A k \in 1 .. Len(m.body) :
                           m.body[k] = m.msgsize - Len(m.body) + k
                      /\ Key(m) \notin dropped => Len(m.body) = m.msgsize
    BY DEF FullIsWhole
  <2>1. TypeInv /\ RunInv /\ m \in Held(c) /\ m.full = "y"
    BY DEF IInv, DeliveryParts, ContentParts, TypeInv, Full
  <2>2. /\ \A k \in 1 .. Len(m.body) : m.body[k] = m.body[1] + k - 1
        /\ m.body[1] + Len(m.body) - 1 = m.msgsize
        /\ m.body[1] = 1 \/ Key(m) \in dropped
        /\ m.body[1] \in Nat /\ Len(m.body) \in Nat
    BY <2>1, HeldMessage DEF RunInv, LastPart
  <2> QED
    BY <2>2
<1> QED
  BY <1>1, InvariantHolds, PTL

\* A message whose last fragment was written is, as long as the server runs, on
\* its way, ready to be fetched or handed out, unless it was refused; no
\* interleaving of posts, fetches and replies loses it.  board_server.c:241-307
THEOREM NothingIsLost == Spec => []NothingLost
<1>1. IInv => NothingLost
  BY DEF IInv, ContentParts, EndedInv, NothingLost, Queued
<1> QED
  BY <1>1, InvariantHolds, PTL

===============================================================================
