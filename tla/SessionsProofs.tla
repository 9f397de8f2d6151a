----------------------------- MODULE SessionsProofs -----------------------------
(***************************************************************************)
(* Theorems about Sessions, for any number of boardposts, sessions and     *)
(* kills, and replies to list of any length.                               *)
(***************************************************************************)
EXTENDS SessionsInv, TLAPS, SequenceTheorems, FiniteSetTheorems, FunctionTheorems

(* Sequences *)

\* An element is added at the end.
LEMMA AppendAt ==
  ASSUME NEW S, NEW s \in Seq(S), NEW e \in S, NEW t, t = Append(s, e)
  PROVE  /\ t \in Seq(S)
         /\ Len(s) \in Nat /\ Len(t) = Len(s) + 1
         /\ DOMAIN s = 1 .. Len(s) /\ DOMAIN t = 1 .. Len(s) + 1
         /\ \A i \in DOMAIN s : i \in DOMAIN t /\ t[i] = s[i]
         /\ t[Len(s) + 1] = e
         /\ \A i \in DOMAIN t : i \in DOMAIN s \/ i = Len(s) + 1
<1>1. /\ t \in Seq(S) /\ Len(t) = Len(s) + 1 /\ Len(s) \in Nat
      /\ \A i \in 1 .. Len(s) : t[i] = s[i]
      /\ t[Len(s) + 1] = e
  BY AppendProperties, LenProperties
<1>2. DOMAIN s = 1 .. Len(s) /\ DOMAIN t = 1 .. Len(s) + 1
  BY <1>1, LenProperties
<1> QED
  BY <1>1, <1>2

\* The first element is taken, the others move up.
LEMMA TailAt ==
  ASSUME NEW S, NEW s \in Seq(S), s # <<>>, NEW t, t = Tail(s)
  PROVE  /\ t \in Seq(S)
         /\ Len(s) \in Nat /\ Len(t) = Len(s) - 1
         /\ DOMAIN s = 1 .. Len(s) /\ DOMAIN t = 1 .. Len(s) - 1
         /\ 1 \in DOMAIN s /\ Head(s) = s[1] /\ s[1] \in S
         /\ \A i \in DOMAIN t : /\ i \in Nat /\ i + 1 \in DOMAIN s /\ 1 < i + 1
                                /\ t[i] = s[i + 1]
         /\ \A i \in DOMAIN s : i = 1 \/ (i - 1 \in DOMAIN t /\ t[i - 1] = s[i])
<1>1. /\ t \in Seq(S) /\ Len(t) = Len(s) - 1 /\ Len(s) \in Nat \ {0}
      /\ \A i \in 1 .. Len(s) - 1 : t[i] = s[i + 1]
      /\ Head(s) = s[1] /\ s[1] \in S
  BY HeadTailProperties, LenProperties, EmptySeq, ElementOfSeq
<1>2. DOMAIN s = 1 .. Len(s) /\ DOMAIN t = 1 .. Len(s) - 1
  BY <1>1, LenProperties
<1>3. \A i \in DOMAIN s : i = 1 \/ (i - 1 \in DOMAIN t /\ t[i - 1] = s[i])
  BY <1>1, <1>2
<1> QED
  BY <1>1, <1>2, <1>3

-------------------------------------------------------------------------------
(* Requests to others_r *)

RequestSet == [op : {"OO", "EO", "LI"}, pid : Posts]

LEMMA RequestTypes ==
  ASSUME SessionsTypeOK
  PROVE  /\ othersR \in Seq(RequestSet)
         /\ \A i \in DOMAIN othersR :
              /\ i \in Nat /\ 1 <= i
              /\ othersR[i].pid \in Posts
              /\ othersR[i].op \in {"OO", "EO", "LI"}
              /\ othersR[i] = Request(othersR[i].op, othersR[i].pid)
<1>1. othersR \in Seq(RequestSet)
  BY DEF SessionsTypeOK, RequestSet
<1>2. \A i \in DOMAIN othersR : i \in Nat /\ 1 <= i /\ othersR[i] \in RequestSet
  BY <1>1, LenProperties, ElementOfSeq
<1> QED
  BY <1>1, <1>2 DEF RequestSet, Request

\* What may happen to a boardpost without a request.
Onward(from, to) ==
  /\ from # "new" => to # "new"
  /\ from \in Gone => to \in Gone
  /\ to \in Present => from \in Present

\* Steps that neither write nor take a request.
LEMMA NoRequest ==
  ASSUME SessionsTypeOK, RequestsInv,
         UNCHANGED <<othersR, members>>,
         \A p \in Posts : Onward(post[p], post'[p])
  PROVE  /\ RequestsInv'
         /\ MembersInv => MembersInv'
<1>1. RequestsInv'
  BY RequestTypes DEF RequestsInv, Onward, Before
<1>2. MembersInv => MembersInv'
  BY DEF MembersInv, Onward, SessionsTypeOK
<1> QED
  BY <1>1, <1>2

\* A boardpost writes a request.
LEMMA WriteRequest ==
  ASSUME SessionsTypeOK, RequestsInv, MembersInv,
         NEW p \in Posts, NEW op, UNCHANGED members,
         othersR' = Append(othersR, Request(op, p)),
         \/ op = "OO" /\ post[p] = "new" /\ post'[p] = "joined"
         \/ op = "EO" /\ post[p] = "prompt" /\ post'[p] = "leaving"
         \/ op = "LI" /\ post[p] = "prompt" /\ post'[p] = "size",
         \A q \in Posts : q # p => post'[q] = post[q]
  PROVE  RequestsInv' /\ MembersInv'
<1>1. /\ othersR \in Seq(RequestSet) /\ Request(op, p) \in RequestSet
      /\ Request(op, p).op = op /\ Request(op, p).pid = p
  BY RequestTypes DEF RequestSet, Request
<1>2. /\ Len(othersR) \in Nat
      /\ DOMAIN othersR = 1 .. Len(othersR) /\ DOMAIN othersR' = 1 .. Len(othersR) + 1
      /\ \A i \in DOMAIN othersR : i \in DOMAIN othersR' /\ othersR'[i] = othersR[i]
      /\ othersR'[Len(othersR) + 1] = Request(op, p)
      /\ \A i \in DOMAIN othersR' : i \in DOMAIN othersR \/ i = Len(othersR) + 1
  BY <1>1, AppendAt
<1>3. \A i \in DOMAIN othersR : \A o, q : Before(i, o, q)' = Before(i, o, q)
  BY <1>2 DEF Before
\* p has asked to leave in no earlier request, and to join if it is to leave.
<1>4. /\ op = "OO" => p \notin members /\ \A i \in DOMAIN othersR : othersR[i] # Request("OO", p)
      /\ \A i \in DOMAIN othersR : othersR[i] # Request("EO", p)
      /\ op # "OO" => p \in members \/ \E j \in DOMAIN othersR : othersR[j] = Request("OO", p)
  <2>1. op = "OO" => p \notin members
    BY DEF MembersInv
  <2>2. op = "OO" => \A i \in DOMAIN othersR : othersR[i] # Request("OO", p)
    BY DEF RequestsInv, Request
  <2>3. \A i \in DOMAIN othersR : othersR[i] # Request("EO", p)
    BY DEF RequestsInv, Request, Gone
  <2>4. op # "OO" => p \in members \/ \E j \in DOMAIN othersR : othersR[j] = Request("OO", p)
    BY DEF MembersInv, Present, Reading
  <2> QED
    BY <2>1, <2>2, <2>3, <2>4
<1>5. ASSUME NEW i \in DOMAIN othersR', NEW r, r = othersR'[i]
      PROVE  /\ r.op = "OO" => post'[r.pid] # "new" /\ r.pid \notin members
             /\ r.op = "EO" => post'[r.pid] \in Gone
             /\ r.op \in {"OO", "EO"} => \A j \in DOMAIN othersR' : othersR'[j] = r => i = j
             /\ r.op \in {"EO", "LI"} => r.pid \in members \/ Before(i, "OO", r.pid)'
             /\ r.op \in {"OO", "LI"} => ~ Before(i, "EO", r.pid)'
  <2>1. CASE i \in DOMAIN othersR
    <3>1. r = othersR[i] /\ r.pid \in Posts /\ r = Request(r.op, r.pid)
      BY <1>2, <1>5, <2>1, RequestTypes
    <3>2. /\ r.op = "OO" => post[r.pid] # "new" /\ r.pid \notin members
          /\ r.op = "EO" => post[r.pid] \in Gone
          /\ r.op \in {"OO", "EO"} => \A j \in DOMAIN othersR : othersR[j] = r => i = j
          /\ r.op \in {"EO", "LI"} => r.pid \in members \/ Before(i, "OO", r.pid)
          /\ r.op \in {"OO", "LI"} => ~ Before(i, "EO", r.pid)
      BY <2>1, <3>1 DEF RequestsInv
    <3>3. r.op \in {"OO", "EO"} => r # Request(op, p)
      BY <1>1, <1>4, <2>1, <3>1
    <3>4. /\ r.op = "OO" => post'[r.pid] # "new"
          /\ r.op = "EO" => post'[r.pid] \in Gone
      BY <3>1, <3>2 DEF Gone
    <3>5. r.op \in {"OO", "EO"} => \A j \in DOMAIN othersR' : othersR'[j] = r => i = j
      BY <1>2, <3>2, <3>3
    <3> QED
      BY <1>3, <2>1, <3>1, <3>2, <3>4, <3>5
  <2>2. CASE i = Len(othersR) + 1
    <3>1. r = Request(op, p) /\ r.op = op /\ r.pid = p
      BY <1>1, <1>2, <1>5, <2>2
    <3>2. \A j \in DOMAIN othersR' : j < i => j \in DOMAIN othersR
      BY <1>2, <2>2
    <3>3. ~ Before(i, "EO", p)'
      BY <1>2, <1>4, <3>2 DEF Before
    <3>4. op \in {"OO", "EO"} => \A j \in DOMAIN othersR' : othersR'[j] = r => i = j
      BY <1>2, <1>4, <2>2, <3>1
    <3>5. op # "OO" => p \in members \/ Before(i, "OO", p)'
      BY <1>2, <1>4, <2>2 DEF Before
    <3>6. /\ op = "OO" => post'[p] # "new" /\ p \notin members
          /\ op = "EO" => post'[p] \in Gone
      BY <1>4 DEF Gone
    <3> QED
      BY <3>1, <3>3, <3>4, <3>5, <3>6
  <2> QED
    BY <1>2, <2>1, <2>2
<1>6. RequestsInv'
  BY <1>5 DEF RequestsInv, Before
<1>7. MembersInv'
  <2>1. \A q \in Posts : post'[q] \in Present => (q = p /\ op = "OO") \/ post[q] \in Present
    BY DEF Present, Reading
  <2>2. op = "OO" => \E j \in DOMAIN othersR' : othersR'[j] = Request("OO", p)
    BY <1>2
  <2>3. \A q \in members : post'[q] # "new"
    BY DEF MembersInv, SessionsTypeOK
  <2> QED
    BY <1>2, <2>1, <2>2, <2>3 DEF MembersInv
<1> QED
  BY <1>6, <1>7

\* The server takes a request; a boardpost is a member from its OO to its EO.
LEMMA TakeRequest ==
  ASSUME SessionsTypeOK, RequestsInv, othersR # <<>>,
         othersR' = Tail(othersR),
         NEW r, r = Head(othersR),
         r.op = "OO" => members' = members \cup {r.pid},
         r.op = "EO" => members' = members \ {r.pid},
         r.op = "LI" => members' = members,
         \A p \in Posts : Onward(post[p], post'[p])
  PROVE  /\ RequestsInv'
         /\ MembersInv => MembersInv'
         /\ r.pid \in Posts
         /\ r.op = "OO" <=> r.pid \notin members
         /\ r.op = "EO" => post[r.pid] \in Gone
<1>1. /\ DOMAIN othersR' \subseteq Nat
      /\ 1 \in DOMAIN othersR /\ r = othersR[1]
      /\ \A i \in DOMAIN othersR' : /\ i + 1 \in DOMAIN othersR /\ 1 < i + 1
                                    /\ othersR'[i] = othersR[i + 1]
      /\ \A i \in DOMAIN othersR :
           i = 1 \/ (i - 1 \in DOMAIN othersR' /\ othersR'[i - 1] = othersR[i])
  BY RequestTypes, TailAt
<1>2. \A i \in DOMAIN othersR :
        /\ i \in Nat /\ 1 <= i /\ othersR[i].pid \in Posts
        /\ othersR[i].op \in {"OO", "EO", "LI"}
        /\ othersR[i] = Request(othersR[i].op, othersR[i].pid)
  BY RequestTypes
<1>3. \A q \in Posts : ~ Before(1, "OO", q) /\ ~ Before(1, "EO", q)
  BY <1>2 DEF Before
<1>4. /\ r.pid \in Posts /\ r.op \in {"OO", "EO", "LI"} /\ r = Request(r.op, r.pid)
      /\ r.op = "OO" => post[r.pid] # "new" /\ r.pid \notin members
      /\ r.op = "EO" => post[r.pid] \in Gone
      /\ r.op \in {"EO", "LI"} => r.pid \in members
      /\ r.op \in {"OO", "EO"} => \A j \in DOMAIN othersR : othersR[j] = r => j = 1
  BY <1>1, <1>2, <1>3 DEF RequestsInv
<1>5. \A i \in DOMAIN othersR' : \A o, q : Before(i, o, q)' => Before(i + 1, o, q)
  <2>1. ASSUME NEW i \in DOMAIN othersR', NEW o, NEW q,
               NEW j \in DOMAIN othersR', j < i, othersR'[j] = Request(o, q)
        PROVE  Before(i + 1, o, q)
    BY <1>1, <2>1 DEF Before
  <2> QED
    BY <2>1 DEF Before
<1>6. \A i \in DOMAIN othersR' : \A o, q :
        Before(i + 1, o, q) => r = Request(o, q) \/ Before(i, o, q)'
  <2>1. ASSUME NEW i \in DOMAIN othersR', NEW o, NEW q,
               NEW j \in DOMAIN othersR, j < i + 1, othersR[j] = Request(o, q), j # 1
        PROVE  Before(i, o, q)'
    <3> DEFINE k == j - 1
    <3>1. k \in DOMAIN othersR' /\ othersR'[k] = Request(o, q)
      BY <1>1, <2>1
    <3>2. k < i
      BY <1>1, <1>2, <2>1
    <3> QED
      BY <3>1, <3>2 DEF Before
  <2> QED
    BY <1>1, <2>1 DEF Before
<1>7. ASSUME NEW i \in DOMAIN othersR', NEW v, v = othersR'[i]
      PROVE  /\ v.op = "OO" => post'[v.pid] # "new" /\ v.pid \notin members'
             /\ v.op = "EO" => post'[v.pid] \in Gone
             /\ v.op \in {"OO", "EO"} => \A j \in DOMAIN othersR' : othersR'[j] = v => i = j
             /\ v.op \in {"EO", "LI"} => v.pid \in members' \/ Before(i, "OO", v.pid)'
             /\ v.op \in {"OO", "LI"} => ~ Before(i, "EO", v.pid)'
  <2>1. /\ i + 1 \in DOMAIN othersR /\ v = othersR[i + 1] /\ 1 < i + 1
        /\ v.pid \in Posts /\ v.op \in {"OO", "EO", "LI"} /\ v = Request(v.op, v.pid)
    BY <1>1, <1>2, <1>7
  <2>2. /\ v.op = "OO" => post[v.pid] # "new" /\ v.pid \notin members
        /\ v.op = "EO" => post[v.pid] \in Gone
        /\ v.op \in {"OO", "EO"} => \A j \in DOMAIN othersR : othersR[j] = v => i + 1 = j
        /\ v.op \in {"EO", "LI"} => v.pid \in members \/ Before(i + 1, "OO", v.pid)
        /\ v.op \in {"OO", "LI"} => ~ Before(i + 1, "EO", v.pid)
    BY <2>1 DEF RequestsInv
  <2>3. v.op \in {"OO", "EO"} => v # r
    BY <1>1, <2>1, <2>2
  <2>4. v.op = "OO" => v.pid \notin members'
    BY <1>4, <2>1, <2>2, <2>3
  <2>5. v.op = "LI" /\ r.op = "EO" => v.pid # r.pid
    BY <1>1, <1>4, <2>1, <2>2 DEF Before
  <2>6. v.op \in {"EO", "LI"} => v.pid \in members' \/ Before(i, "OO", v.pid)'
    <3>1. CASE v.pid \in members
      BY <1>4, <2>1, <2>3, <2>5, <3>1
    <3>2. CASE Before(i + 1, "OO", v.pid)
      BY <1>4, <1>6, <3>2 DEF Request
    <3> QED
      BY <2>2, <3>1, <3>2
  <2>7. v.op \in {"OO", "LI"} => ~ Before(i, "EO", v.pid)'
    BY <1>5, <2>2
  <2>8. v.op \in {"OO", "EO"} => \A j \in DOMAIN othersR' : othersR'[j] = v => i = j
    BY <1>1, <2>2
  <2>9. /\ v.op = "OO" => post'[v.pid] # "new"
        /\ v.op = "EO" => post'[v.pid] \in Gone
    BY <2>1, <2>2 DEF Onward
  <2> QED
    BY <2>4, <2>6, <2>7, <2>8, <2>9
<1>8. RequestsInv'
  BY <1>7 DEF RequestsInv, Before
<1>9. ASSUME MembersInv
      PROVE  MembersInv'
  <2>1. \A p \in members' : post'[p] # "new"
    BY <1>4, <1>9 DEF MembersInv, Onward, SessionsTypeOK
  <2>2. ASSUME NEW p \in Posts, post'[p] \in Present, p \notin members'
        PROVE  \E j \in DOMAIN othersR' : othersR'[j] = Request("OO", p)
    <3>1. post[p] \in Present
      BY <2>2 DEF Onward
    <3>2. p \notin members
      BY <1>4, <2>2, <3>1 DEF Present, Gone, Reading, Parts
    <3>3. PICK j \in DOMAIN othersR : othersR[j] = Request("OO", p)
      BY <1>9, <3>1, <3>2 DEF MembersInv
    <3>4. j # 1
      BY <1>1, <1>4, <2>2, <3>3 DEF Request
    <3> QED
      BY <1>1, <3>3, <3>4
  <2> QED
    BY <2>1, <2>2 DEF MembersInv
<1> QED
  BY <1>4, <1>8, <1>9

-------------------------------------------------------------------------------
(* Types *)

ReplyPart == [part : Parts, last : BOOLEAN]

LEMMA ReplyShape ==
  ASSUME NEW n \in Nat \ {0}
  PROVE  /\ Reply(n) \in Seq(ReplyPart)
         /\ Len(Reply(n)) = 3 * n /\ DOMAIN Reply(n) = 1 .. 3 * n
         /\ Reply(n)[1].part = "size"
         /\ \A i \in 1 .. 3 * n :
              /\ Reply(n)[i].last = (i > 3 * (n - 1))
              /\ (i - 1) % 3 = 0 => Reply(n)[i].part = "size"
              /\ (i - 1) % 3 = 1 => Reply(n)[i].part = "header"
              /\ (i - 1) % 3 = 2 => Reply(n)[i].part = "text"
<1>1. \A b \in BOOLEAN : /\ \A k \in 1 .. 3 : Write(b)[k] \in ReplyPart /\ Write(b)[k].last = b
                         /\ Write(b)[1].part = "size" /\ Write(b)[2].part = "header"
                         /\ Write(b)[3].part = "text"
  BY DEF Write, ReplyPart, Parts
<1>2. \A i \in 1 .. 3 * n : /\ ((i - 1) % 3) \in 0 .. 2
                            /\ (i > 3 * (n - 1)) \in BOOLEAN
  OBVIOUS
<1>3. \A i \in 1 .. 3 * n : Reply(n)[i] = Write(i > 3 * (n - 1))[((i - 1) % 3) + 1]
  BY Zenon DEF Reply
<1>4. \A i \in 1 .. 3 * n : Reply(n)[i] \in ReplyPart
  <2>1. TAKE i \in 1 .. 3 * n
  <2>2. ((i - 1) % 3) + 1 \in 1 .. 3
    BY <1>2
  <2> QED
    BY <1>1, <1>2, <1>3, <2>2
<1>5. Reply(n) \in [1 .. 3 * n -> ReplyPart]
  BY <1>4 DEF Reply
<1>6. Reply(n) \in Seq(ReplyPart) /\ Len(Reply(n)) = 3 * n /\ DOMAIN Reply(n) = 1 .. 3 * n
  <2>1. 3 * n \in Nat
    OBVIOUS
  <2> QED
    BY <1>5, <2>1, LenProperties
<1>7. Reply(n)[1].part = "size"
  <2>1. 1 \in 1 .. 3 * n /\ ((1 - 1) % 3) + 1 = 1
    OBVIOUS
  <2>2. Reply(n)[1] = Write(1 > 3 * (n - 1))[1]
    BY <1>3, <2>1
  <2> QED
    BY <1>1, <1>2, <2>1, <2>2
<1>8. ASSUME NEW i \in 1 .. 3 * n
      PROVE  /\ Reply(n)[i].last = (i > 3 * (n - 1))
             /\ (i - 1) % 3 = 0 => Reply(n)[i].part = "size"
             /\ (i - 1) % 3 = 1 => Reply(n)[i].part = "header"
             /\ (i - 1) % 3 = 2 => Reply(n)[i].part = "text"
  <2> DEFINE b == i > 3 * (n - 1)  k == ((i - 1) % 3) + 1
  <2>1. k \in 1 .. 3 /\ b \in BOOLEAN /\ Reply(n)[i] = Write(b)[k]
    BY <1>2, <1>3
  <2>2. /\ (i - 1) % 3 = 0 => k = 1
        /\ (i - 1) % 3 = 1 => k = 2
        /\ (i - 1) % 3 = 2 => k = 3
    OBVIOUS
  <2> HIDE DEF b, k
  <2>3. /\ Reply(n)[i].last = b
        /\ k = 1 => Reply(n)[i].part = "size"
        /\ k = 2 => Reply(n)[i].part = "header"
        /\ k = 3 => Reply(n)[i].part = "text"
    BY <1>1, <2>1
  <2> QED
    BY <2>2, <2>3 DEF b
<1> QED
  BY <1>6, <1>7, <1>8

\* The parts of a state that steps change together.
FifosOK ==
  /\ selfR \in Seq({"OS", "ES", "CR", "GM", "SH"})
  /\ othersR \in Seq(RequestSet)
  /\ selfW \in Nat
  /\ othersW \in Seq(ReplyPart)

ServerOK ==
  /\ pc \in {"loop", "openSelf", "openOthers", "down", "dead"}
  /\ state \in BOOLEAN
  /\ pass \subseteq {"self", "others"}
  /\ boardpostnum \in Nat
  /\ fd1 \in Nat
  /\ fd3 \in BOOLEAN
  /\ members \subseteq Posts

UsersOK ==
  /\ post \in [Posts -> {"new", "joined", "left", "gone"} \cup Reading]
  /\ owner \in {"idle", "joined", "opening", "prompt", "waiting", "leaving", "eof", "gone"}
  /\ sessions \in Nat
  /\ overlapped \in BOOLEAN /\ hasty \in BOOLEAN
  /\ kills \in 0 .. MaxKills

LEMMA TypeParts == SessionsTypeOK <=> FifosOK /\ ServerOK /\ UsersOK
<1> QED
  BY DEF SessionsTypeOK, FifosOK, ServerOK, UsersOK, RequestSet, ReplyPart

\* A request is taken by a server that has seen it.
LEMMA TakeTypes ==
  ASSUME SessionsTypeOK, PassInv
  PROVE  /\ \A op : TakeSelf(op, {}) \/ TakeSelf(op, RestOfPass) =>
              /\ selfR # <<>> /\ Tail(selfR) \in Seq({"OS", "ES", "CR", "GM", "SH"})
              /\ pass' \subseteq {"self", "others"}
         /\ \A op : TakeOthers(op) =>
              /\ othersR # <<>> /\ Tail(othersR) \in Seq(RequestSet)
              /\ Head(othersR).pid \in Posts
<1>1. selfR \in Seq({"OS", "ES", "CR", "GM", "SH"}) /\ othersR \in Seq(RequestSet)
  BY DEF SessionsTypeOK, RequestSet
<1>2. \A op : TakeSelf(op, {}) \/ TakeSelf(op, RestOfPass) =>
        selfR # <<>> /\ pass' \subseteq {"self", "others"}
  BY DEF TakeSelf, RestOfPass, PassInv, SessionsTypeOK
<1>3. \A op : TakeOthers(op) => othersR # <<>>
  BY DEF TakeOthers, PassInv
<1>4. othersR # <<>> => Head(othersR) \in RequestSet /\ Tail(othersR) \in Seq(RequestSet)
  BY <1>1, TailAt
<1>5. selfR # <<>> => Tail(selfR) \in Seq({"OS", "ES", "CR", "GM", "SH"})
  BY <1>1, TailAt
<1> QED
  BY <1>2, <1>3, <1>4, <1>5 DEF RequestSet

LEMMA TypeStep ==
  ASSUME SessionsTypeOK, PassInv, Next,
         HandleES => fd1 > 0,
         HandleEO => boardpostnum > 0
  PROVE  SessionsTypeOK'
<1> USE DEF OwnerMoves, PostMoves, SendOthers, SendSelf, fifoVars, serverVars, userVars,
            TakeSelf, TakeOthers, Left, AfterSleep, OpenOthers, OpenSelf, Die
<1>1. FifosOK /\ ServerOK /\ UsersOK
  BY TypeParts
<1>2. ASSUME NEW p \in Posts, Join(p)
      PROVE  FifosOK' /\ ServerOK' /\ UsersOK'
  <2>1. FifosOK'
    BY <1>1, <1>2 DEF FifosOK, Join, RequestSet, ReplyPart
  <2>2. ServerOK'
    BY <1>1, <1>2 DEF ServerOK, Join
  <2>3. UsersOK'
    BY <1>1, <1>2 DEF UsersOK, Join
  <2> QED
    BY <2>1, <2>2, <2>3
<1>3. ASSUME NEW p \in Posts, Open(p)
      PROVE  FifosOK' /\ ServerOK' /\ UsersOK'
  <2>1. FifosOK'
    BY <1>1, <1>3 DEF FifosOK, Open, RequestSet, ReplyPart
  <2>2. ServerOK'
    <3>1. pc' \in {pc, "loop"} /\ fd3' \in BOOLEAN
      BY <1>1, <1>3 DEF Open, ServerOK
    <3>2. boardpostnum' \in {boardpostnum, boardpostnum + 1}
      BY <1>3 DEF Open
    <3>3. UNCHANGED <<state, pass, fd1, members>>
      BY <1>3 DEF Open
    <3> QED
      BY <1>1, <3>1, <3>2, <3>3 DEF ServerOK
  <2>3. UsersOK'
    BY <1>1, <1>3 DEF UsersOK, Open, Reading, Parts
  <2> QED
    BY <2>1, <2>2, <2>3
<1>4. ASSUME NEW p \in Posts, List(p)
      PROVE  FifosOK' /\ ServerOK' /\ UsersOK'
  <2>1. FifosOK'
    BY <1>1, <1>4 DEF FifosOK, List, RequestSet, ReplyPart
  <2>2. ServerOK'
    BY <1>1, <1>4 DEF ServerOK, List
  <2>3. UsersOK'
    BY <1>1, <1>4 DEF UsersOK, List, Reading, Parts
  <2> QED
    BY <2>1, <2>2, <2>3
<1>5. ASSUME NEW p \in Posts, ReadPart(p)
      PROVE  FifosOK' /\ ServerOK' /\ UsersOK'
  <2>1. FifosOK'
    BY <1>1, <1>5 DEF FifosOK, ReadPart, RequestSet, ReplyPart
  <2>2. ServerOK'
    BY <1>1, <1>5 DEF ServerOK, ReadPart
  <2>3. UsersOK'
    <3>1. othersW # <<>> => Head(othersW) \in ReplyPart
      BY <1>1, TailAt DEF FifosOK
    <3>2. othersW # <<>> => NextPart(Head(othersW).part, Head(othersW).last) \in Parts \cup {"prompt"}
      BY <3>1 DEF NextPart, ReplyPart, Parts
    <3> QED
      BY <1>1, <1>5, <3>2 DEF UsersOK, ReadPart, Reading
  <2> QED
    BY <2>1, <2>2, <2>3
<1>6. ASSUME NEW p \in Posts, ReadEof(p)
      PROVE  FifosOK' /\ ServerOK' /\ UsersOK'
  <2>1. FifosOK'
    BY <1>1, <1>6 DEF FifosOK, ReadEof, RequestSet, ReplyPart
  <2>2. ServerOK'
    BY <1>1, <1>6 DEF ServerOK, ReadEof
  <2>3. UsersOK'
    BY <1>1, <1>6 DEF UsersOK, ReadEof, Reading, Parts
  <2> QED
    BY <2>1, <2>2, <2>3
<1>7. ASSUME NEW p \in Posts, Exit(p)
      PROVE  FifosOK' /\ ServerOK' /\ UsersOK'
  <2>1. FifosOK'
    BY <1>1, <1>7 DEF FifosOK, Exit, RequestSet, ReplyPart
  <2>2. ServerOK'
    BY <1>1, <1>7 DEF ServerOK, Exit
  <2>3. UsersOK'
    BY <1>1, <1>7 DEF UsersOK, Exit, Reading, Parts
  <2> QED
    BY <2>1, <2>2, <2>3
<1>8. ASSUME NEW p \in Posts, Close(p)
      PROVE  FifosOK' /\ ServerOK' /\ UsersOK'
  <2>1. FifosOK'
    BY <1>1, <1>8 DEF FifosOK, Close, RequestSet, ReplyPart
  <2>2. ServerOK'
    BY <1>1, <1>8 DEF ServerOK, Close
  <2>3. UsersOK'
    BY <1>1, <1>8 DEF UsersOK, Close
  <2> QED
    BY <2>1, <2>2, <2>3
<1>9. ASSUME NEW p \in Posts, PostFails(p)
      PROVE  FifosOK' /\ ServerOK' /\ UsersOK'
  <2>1. FifosOK'
    BY <1>1, <1>9 DEF FifosOK, PostFails, RequestSet, ReplyPart
  <2>2. ServerOK'
    BY <1>1, <1>9 DEF ServerOK, PostFails
  <2>3. UsersOK'
    BY <1>1, <1>9 DEF UsersOK, PostFails
  <2> QED
    BY <2>1, <2>2, <2>3
<1>10. ASSUME NEW p \in Posts, KillPost(p)
      PROVE  FifosOK' /\ ServerOK' /\ UsersOK'
  <2>1. FifosOK'
    BY <1>1, <1>10 DEF FifosOK, KillPost, RequestSet, ReplyPart
  <2>2. ServerOK'
    BY <1>1, <1>10 DEF ServerOK, KillPost
  <2>3. UsersOK'
    <3>1. kills' \in 0 .. MaxKills
      BY <1>1, <1>10, SessionsAssumption DEF UsersOK, KillPost
    <3> QED
      BY <1>1, <1>10, <3>1 DEF UsersOK, KillPost
  <2> QED
    BY <2>1, <2>2, <2>3
<1>11. ASSUME OwnerJoin
      PROVE  FifosOK' /\ ServerOK' /\ UsersOK'
  <2>1. FifosOK'
    BY <1>1, <1>11 DEF FifosOK, OwnerJoin, RequestSet, ReplyPart
  <2>2. ServerOK'
    BY <1>1, <1>11 DEF ServerOK, OwnerJoin
  <2>3. UsersOK'
    BY <1>1, <1>11 DEF UsersOK, OwnerJoin
  <2> QED
    BY <2>1, <2>2, <2>3
<1>12. ASSUME OwnerOpen
      PROVE  FifosOK' /\ ServerOK' /\ UsersOK'
  <2>1. FifosOK'
    BY <1>1, <1>12 DEF FifosOK, OwnerOpen, RequestSet, ReplyPart
  <2>2. ServerOK'
    BY <1>1, <1>12 DEF ServerOK, OwnerOpen
  <2>3. UsersOK'
    BY <1>1, <1>12 DEF UsersOK, OwnerOpen
  <2> QED
    BY <2>1, <2>2, <2>3
<1>13c. ASSUME CreateChannel
      PROVE  FifosOK' /\ ServerOK' /\ UsersOK'
  <2>1. FifosOK'
    BY <1>1, <1>13c DEF FifosOK, CreateChannel, RequestSet, ReplyPart
  <2>2. ServerOK'
    BY <1>1, <1>13c DEF ServerOK, CreateChannel
  <2>3. UsersOK'
    BY <1>1, <1>13c DEF UsersOK, CreateChannel
  <2> QED
    BY <2>1, <2>2, <2>3
<1>13. ASSUME GetMessages
      PROVE  FifosOK' /\ ServerOK' /\ UsersOK'
  <2>1. FifosOK'
    BY <1>1, <1>13 DEF FifosOK, GetMessages, RequestSet, ReplyPart
  <2>2. ServerOK'
    BY <1>1, <1>13 DEF ServerOK, GetMessages
  <2>3. UsersOK'
    BY <1>1, <1>13 DEF UsersOK, GetMessages
  <2> QED
    BY <2>1, <2>2, <2>3
<1>14. ASSUME ReadReply
      PROVE  FifosOK' /\ ServerOK' /\ UsersOK'
  <2>1. FifosOK'
    BY <1>1, <1>14 DEF FifosOK, ReadReply, RequestSet, ReplyPart
  <2>2. ServerOK'
    BY <1>1, <1>14 DEF ServerOK, ReadReply
  <2>3. UsersOK'
    BY <1>1, <1>14 DEF UsersOK, ReadReply
  <2> QED
    BY <2>1, <2>2, <2>3
<1>15. ASSUME OwnerEof
      PROVE  FifosOK' /\ ServerOK' /\ UsersOK'
  <2>1. FifosOK'
    BY <1>1, <1>15 DEF FifosOK, OwnerEof, RequestSet, ReplyPart
  <2>2. ServerOK'
    BY <1>1, <1>15 DEF ServerOK, OwnerEof
  <2>3. UsersOK'
    BY <1>1, <1>15 DEF UsersOK, OwnerEof
  <2> QED
    BY <2>1, <2>2, <2>3
<1>16. ASSUME OwnerExit
      PROVE  FifosOK' /\ ServerOK' /\ UsersOK'
  <2>1. FifosOK'
    BY <1>1, <1>16 DEF FifosOK, OwnerExit, RequestSet, ReplyPart
  <2>2. ServerOK'
    BY <1>1, <1>16 DEF ServerOK, OwnerExit
  <2>3. UsersOK'
    BY <1>1, <1>16 DEF UsersOK, OwnerExit
  <2> QED
    BY <2>1, <2>2, <2>3
<1>17. ASSUME OwnerClose
      PROVE  FifosOK' /\ ServerOK' /\ UsersOK'
  <2>1. FifosOK'
    BY <1>1, <1>17 DEF FifosOK, OwnerClose, RequestSet, ReplyPart
  <2>2. ServerOK'
    BY <1>1, <1>17 DEF ServerOK, OwnerClose
  <2>3. UsersOK'
    BY <1>1, <1>17 DEF UsersOK, OwnerClose
  <2> QED
    BY <2>1, <2>2, <2>3
<1>18. ASSUME Shutdown
      PROVE  FifosOK' /\ ServerOK' /\ UsersOK'
  <2>1. FifosOK'
    BY <1>1, <1>18 DEF FifosOK, Shutdown, RequestSet, ReplyPart
  <2>2. ServerOK'
    BY <1>1, <1>18 DEF ServerOK, Shutdown
  <2>3. UsersOK'
    BY <1>1, <1>18 DEF UsersOK, Shutdown
  <2> QED
    BY <2>1, <2>2, <2>3
<1>19. ASSUME OwnerFails
      PROVE  FifosOK' /\ ServerOK' /\ UsersOK'
  <2>1. FifosOK'
    BY <1>1, <1>19 DEF FifosOK, OwnerFails, RequestSet, ReplyPart
  <2>2. ServerOK'
    BY <1>1, <1>19 DEF ServerOK, OwnerFails
  <2>3. UsersOK'
    BY <1>1, <1>19 DEF UsersOK, OwnerFails
  <2> QED
    BY <2>1, <2>2, <2>3
<1>20. ASSUME KillOwner
      PROVE  FifosOK' /\ ServerOK' /\ UsersOK'
  <2>1. FifosOK'
    BY <1>1, <1>20 DEF FifosOK, KillOwner, RequestSet, ReplyPart
  <2>2. ServerOK'
    BY <1>1, <1>20 DEF ServerOK, KillOwner
  <2>3. UsersOK'
    <3>1. kills' \in 0 .. MaxKills
      BY <1>1, <1>20, SessionsAssumption DEF UsersOK, KillOwner
    <3> QED
      BY <1>1, <1>20, <3>1 DEF UsersOK, KillOwner
  <2> QED
    BY <2>1, <2>2, <2>3
<1>21. ASSUME Select
      PROVE  FifosOK' /\ ServerOK' /\ UsersOK'
  <2>1. FifosOK'
    BY <1>1, <1>21 DEF FifosOK, Select, RequestSet, ReplyPart
  <2>2. ServerOK'
    BY <1>1, <1>21 DEF ServerOK, Select, Waiting
  <2>3. UsersOK'
    BY <1>1, <1>21 DEF UsersOK, Select
  <2> QED
    BY <2>1, <2>2, <2>3
<1>22c. ASSUME HandleCR
      PROVE  FifosOK' /\ ServerOK' /\ UsersOK'
  <2>1. FifosOK'
    BY <1>1, <1>22c, TakeTypes DEF FifosOK, HandleCR, RequestSet, ReplyPart
  <2>2. ServerOK'
    BY <1>1, <1>22c, TakeTypes DEF ServerOK, HandleCR
  <2>3. UsersOK'
    BY <1>1, <1>22c DEF UsersOK, HandleCR
  <2> QED
    BY <2>1, <2>2, <2>3
<1>22. ASSUME HandleOS
      PROVE  FifosOK' /\ ServerOK' /\ UsersOK'
  <2>1. FifosOK'
    BY <1>1, <1>22, TakeTypes DEF FifosOK, HandleOS, RequestSet, ReplyPart
  <2>2. ServerOK'
    <3>1. pass' \subseteq {"self", "others"}
      BY <1>22, TakeTypes DEF HandleOS
    <3>2. pc' \in {"loop", "openSelf"} /\ fd1' \in {fd1, fd1 + 1}
      BY <1>22 DEF HandleOS
    <3>3. UNCHANGED <<state, boardpostnum, fd3, members>>
      BY <1>22 DEF HandleOS
    <3> QED
      BY <1>1, <3>1, <3>2, <3>3 DEF ServerOK
  <2>3. UsersOK'
    BY <1>1, <1>22 DEF UsersOK, HandleOS
  <2> QED
    BY <2>1, <2>2, <2>3
<1>23. ASSUME HandleES
      PROVE  FifosOK' /\ ServerOK' /\ UsersOK'
  <2>1. FifosOK'
    BY <1>1, <1>23, TakeTypes DEF FifosOK, HandleES, RequestSet, ReplyPart
  <2>2. ServerOK'
    BY <1>1, <1>23, TakeTypes DEF ServerOK, HandleES
  <2>3. UsersOK'
    BY <1>1, <1>23 DEF UsersOK, HandleES
  <2> QED
    BY <2>1, <2>2, <2>3
<1>24. ASSUME HandleSH
      PROVE  FifosOK' /\ ServerOK' /\ UsersOK'
  <2>1. FifosOK'
    BY <1>1, <1>24, TakeTypes DEF FifosOK, HandleSH, RequestSet, ReplyPart
  <2>2. ServerOK'
    BY <1>1, <1>24, TakeTypes DEF ServerOK, HandleSH
  <2>3. UsersOK'
    BY <1>1, <1>24 DEF UsersOK, HandleSH
  <2> QED
    BY <2>1, <2>2, <2>3
<1>25. ASSUME HandleGM
      PROVE  FifosOK' /\ ServerOK' /\ UsersOK'
  <2>1. FifosOK'
    BY <1>1, <1>25, TakeTypes DEF FifosOK, HandleGM, RequestSet, ReplyPart
  <2>2. ServerOK'
    <3>1. pass' \subseteq {"self", "others"} /\ UNCHANGED state
      BY <1>25, TakeTypes DEF HandleGM
    <3>2. pc' \in {pc, "loop", "dead", "openOthers"} /\ fd1' \in {fd1, 0} /\ fd3' \in BOOLEAN
      BY <1>1, <1>25 DEF HandleGM, ServerOK
    <3>3. members' \subseteq Posts /\ boardpostnum' \in Nat
      BY <1>1, <1>25, TakeTypes DEF ServerOK, HandleGM
    <3> QED
      BY <1>1, <3>1, <3>2, <3>3 DEF ServerOK
  <2>3. UsersOK'
    BY <1>1, <1>25 DEF UsersOK, HandleGM
  <2> QED
    BY <2>1, <2>2, <2>3
<1>26. ASSUME HandleOO
      PROVE  FifosOK' /\ ServerOK' /\ UsersOK'
  <2>1. FifosOK'
    BY <1>1, <1>26, TakeTypes DEF FifosOK, HandleOO, RequestSet, ReplyPart
  <2>2. ServerOK'
    <3>1. pass' \subseteq {"self", "others"} /\ UNCHANGED state
      BY <1>26, TakeTypes DEF HandleOO
    <3>2. pc' \in {pc, "loop", "dead", "openOthers"} /\ fd1' \in {fd1, 0} /\ fd3' \in BOOLEAN
      BY <1>1, <1>26 DEF HandleOO, ServerOK
    <3>3. members' \subseteq Posts /\ boardpostnum' \in Nat
      BY <1>1, <1>26, TakeTypes DEF ServerOK, HandleOO
    <3> QED
      BY <1>1, <3>1, <3>2, <3>3 DEF ServerOK
  <2>3. UsersOK'
    BY <1>1, <1>26 DEF UsersOK, HandleOO, Released, Reading
  <2> QED
    BY <2>1, <2>2, <2>3
<1>27. ASSUME HandleEO
      PROVE  FifosOK' /\ ServerOK' /\ UsersOK'
  <2>1. FifosOK'
    BY <1>1, <1>27, TakeTypes DEF FifosOK, HandleEO, RequestSet, ReplyPart
  <2>2. ServerOK'
    BY <1>1, <1>27, TakeTypes DEF ServerOK, HandleEO
  <2>3. UsersOK'
    BY <1>1, <1>27 DEF UsersOK, HandleEO
  <2> QED
    BY <2>1, <2>2, <2>3
<1>28. ASSUME HandleLI
      PROVE  FifosOK' /\ ServerOK' /\ UsersOK'
  <2>1. FifosOK'
    <3>1. ASSUME NEW n \in ListWrites
          PROVE  othersW \o Reply(n) \in Seq(ReplyPart)
      BY <1>1, ReplyShape, ConcatProperties, SessionsAssumption DEF FifosOK
    <3>2. othersW' \in Seq(ReplyPart)
      BY <1>1, <1>28, <3>1 DEF FifosOK, HandleLI
    <3> QED
      BY <1>1, <1>28, <3>2, TakeTypes DEF FifosOK, HandleLI
  <2>2. ServerOK'
    <3>1. pass' \subseteq {"self", "others"} /\ UNCHANGED state
      BY <1>28, TakeTypes DEF HandleLI
    <3>2. pc' \in {pc, "loop", "dead", "openOthers"} /\ fd1' \in {fd1, 0} /\ fd3' \in BOOLEAN
      BY <1>1, <1>28 DEF HandleLI, ServerOK
    <3>3. members' \subseteq Posts /\ boardpostnum' \in Nat
      BY <1>1, <1>28, TakeTypes DEF ServerOK, HandleLI
    <3> QED
      BY <1>1, <3>1, <3>2, <3>3 DEF ServerOK
  <2>3. UsersOK'
    BY <1>1, <1>28 DEF UsersOK, HandleLI
  <2> QED
    BY <2>1, <2>2, <2>3
<1>29. ASSUME Stop
      PROVE  FifosOK' /\ ServerOK' /\ UsersOK'
  <2>1. FifosOK'
    BY <1>1, <1>29 DEF FifosOK, Stop, RequestSet, ReplyPart
  <2>2. ServerOK'
    BY <1>1, <1>29 DEF ServerOK, Stop
  <2>3. UsersOK'
    BY <1>1, <1>29 DEF UsersOK, Stop
  <2> QED
    BY <2>1, <2>2, <2>3
<1>30. (\E p \in Posts : PostStep(p)) => FifosOK' /\ ServerOK' /\ UsersOK'
  BY <1>2, <1>3, <1>4, <1>5, <1>6, <1>7, <1>8, <1>9, <1>10 DEF PostStep
<1>31. OwnerStep => FifosOK' /\ ServerOK' /\ UsersOK'
  BY <1>11, <1>12, <1>13c, <1>13, <1>14, <1>15, <1>16, <1>17, <1>18, <1>19, <1>20 DEF OwnerStep
<1>32. ServerStep => FifosOK' /\ ServerOK' /\ UsersOK'
  BY <1>21, <1>22c, <1>22, <1>23, <1>24, <1>25, <1>26, <1>27, <1>28, <1>29 DEF ServerStep
<1>33. FifosOK' /\ ServerOK' /\ UsersOK'
  BY <1>30, <1>31, <1>32 DEF Next
<1> QED
  BY <1>33 DEF SessionsTypeOK, FifosOK, ServerOK, UsersOK, RequestSet, ReplyPart

-------------------------------------------------------------------------------
(* Which steps touch what *)

\* A server that has ended does not come back, and a killed process was killed.
LEMMA OnlyEnds ==
  ASSUME Next, SessionsTypeOK
  PROVE  (Serving' => Serving) /\ (kills' = 0 => kills = 0)
<1> USE DEF OwnerMoves, PostMoves, SendOthers, SendSelf, fifoVars, serverVars, userVars,
            TakeSelf, TakeOthers, Serving, OpenOthers, OpenSelf, Die
<1>1. ASSUME NEW p \in Posts, PostStep(p)
      PROVE  (Serving' => Serving) /\ (kills' = 0 => kills = 0)
  <2>1. Serving' => Serving
    BY <1>1 DEF PostStep, Join, Open, List, ReadPart, ReadEof, Exit, Close, PostFails, KillPost
  <2>2. kills \in Nat /\ (kills' = kills \/ kills' = kills + 1)
    BY <1>1, SessionsAssumption
    DEF PostStep, Join, Open, List, ReadPart, ReadEof, Exit, Close, PostFails, KillPost,
        SessionsTypeOK
  <2> QED
    BY <2>1, <2>2
<1>2. ASSUME OwnerStep
      PROVE  (Serving' => Serving) /\ (kills' = 0 => kills = 0)
  <2>1. Serving' => Serving
    BY <1>2 DEF OwnerStep, OwnerJoin, OwnerOpen, CreateChannel, GetMessages, ReadReply, OwnerEof,
                OwnerExit,
                OwnerClose, Shutdown, OwnerFails, KillOwner
  <2>2. kills \in Nat /\ (kills' = kills \/ kills' = kills + 1)
    BY <1>2, SessionsAssumption
    DEF OwnerStep, OwnerJoin, OwnerOpen, CreateChannel, GetMessages, ReadReply, OwnerEof, OwnerExit,
        OwnerClose, Shutdown, OwnerFails, KillOwner, SessionsTypeOK
  <2> QED
    BY <2>1, <2>2
<1>3. ASSUME ServerStep
      PROVE  (Serving' => Serving) /\ (kills' = 0 => kills = 0)
  BY <1>3 DEF ServerStep, Select, HandleCR, HandleOS, HandleES, HandleSH, HandleGM,
              HandleOO, HandleEO, HandleLI, Stop
<1> QED
  BY <1>1, <1>2, <1>3 DEF Next

\* Steps of boardposts that write no request.
QuietStep(p) == Open(p) \/ ReadPart(p) \/ ReadEof(p) \/ Close(p) \/ PostFails(p) \/ KillPost(p)

LEMMA QuietOnward ==
  ASSUME SessionsTypeOK, NEW p \in Posts, QuietStep(p)
  PROVE  /\ UNCHANGED <<othersR, selfR, selfW, members, owner, state, pass>>
         /\ \A q \in Posts : q # p => post'[q] = post[q]
         /\ \A q \in Posts : Onward(post[q], post'[q])
<1> USE DEF PostMoves, fifoVars, serverVars
<1>1. UNCHANGED <<othersR, selfR, selfW, members, owner, state, pass>>
  BY DEF QuietStep, Open, ReadPart, ReadEof, Close, PostFails, KillPost
<1>2. \A q \in Posts : q # p => post'[q] = post[q]
  BY DEF QuietStep, Open, ReadPart, ReadEof, Close, PostFails, KillPost, SessionsTypeOK
<1>3. /\ post[p] \in Reading \cup {"joined"}
      /\ post'[p] \in (Reading \cup {"left", "gone"}) \ {"leaving"}
      /\ post[p] = "leaving" => post'[p] \in {"left", "gone"}
  <2>1. ReadPart(p) => post'[p] \in Parts \cup {"prompt", "confused"} /\ post[p] \in Parts
    BY DEF ReadPart, SessionsTypeOK, NextPart, Parts
  <2> QED
    BY <2>1 DEF QuietStep, Open, ReadEof, Close, PostFails, KillPost, SessionsTypeOK,
                Reading, Parts
<1>4. Onward(post[p], post'[p])
  BY <1>3 DEF Onward, Present, Gone, Reading, Parts
<1>5. \A q \in Posts : Onward(post[q], post[q])
  BY DEF Onward
<1> QED
  BY <1>1, <1>2, <1>3, <1>4, <1>5 DEF Gone, Reading, Parts

LEMMA OwnerQuiet ==
  ASSUME OwnerStep
  PROVE  UNCHANGED <<othersR, othersW, members, boardpostnum, fd3, post, overlapped, state, pass>>
<1> QED
  BY DEF OwnerStep, OwnerJoin, OwnerOpen, CreateChannel, GetMessages, ReadReply, OwnerEof,
         OwnerExit,
         OwnerClose, Shutdown, OwnerFails, KillOwner, OwnerMoves, SendSelf, fifoVars, serverVars

\* Requests of the owner, and Select.
LEMMA SelfQuiet ==
  ASSUME Select \/ HandleCR \/ HandleOS \/ HandleES \/ HandleSH \/ HandleGM
  PROVE  UNCHANGED <<othersR, othersW, members, boardpostnum, post, overlapped, hasty, kills>>
<1> QED
  BY DEF Select, HandleCR, HandleOS, HandleES, HandleSH, HandleGM, TakeSelf, fifoVars, userVars

PassSeen ==
  /\ "self" \in pass => selfR # <<>>
  /\ "others" \in pass => othersR # <<>>

LEMMA PassStep ==
  ASSUME SessionsTypeOK, PassInv, Next
  PROVE  PassInv'
<1>1. ASSUME NEW p \in Posts, Join(p) \/ List(p) \/ Exit(p)
      PROVE  PassSeen'
  <2>1. \E op : othersR' = Append(othersR, Request(op, p)) /\ op \in {"OO", "LI", "EO"}
    BY <1>1 DEF Join, List, Exit, SendOthers, Request
  <2>2. othersR' # <<>>
    BY <2>1, RequestTypes, AppendProperties DEF RequestSet, Request
  <2> QED
    BY <1>1, <2>2 DEF PassInv, PassSeen, Join, List, Exit, SendOthers, serverVars
<1>2. ASSUME NEW p \in Posts, QuietStep(p)
      PROVE  PassSeen'
  BY <1>2, QuietOnward DEF PassInv, PassSeen
<1>3. ASSUME OwnerStep
      PROVE  PassSeen'
  <2>1. selfR' = selfR \/ \E op \in {"OS", "ES", "CR", "GM", "SH"} : selfR' = Append(selfR, op)
    BY <1>3 DEF OwnerStep, OwnerJoin, OwnerOpen, CreateChannel, GetMessages, ReadReply, OwnerEof,
                OwnerExit,
         OwnerClose, Shutdown, OwnerFails, KillOwner, OwnerMoves, SendSelf, fifoVars
  <2>2. selfR' = selfR \/ selfR' # <<>>
    BY <2>1, AppendProperties DEF SessionsTypeOK
  <2> QED
    BY <1>3, <2>2, OwnerQuiet DEF PassInv, PassSeen
<1>4. ASSUME ServerStep
      PROVE  PassSeen'
  BY <1>4 DEF PassInv, PassSeen, ServerStep, Select, HandleCR, HandleOS, HandleES, HandleSH,
              HandleGM, HandleOO, HandleEO, HandleLI, Stop, TakeSelf, RestOfPass, TakeOthers,
              Waiting, fifoVars
<1>5. ASSUME pc' = "down"
      PROVE  othersR' = <<>>
  <2>1. CASE Stop
    BY <2>1 DEF Stop
  <2>2. ASSUME ~ Stop
        PROVE  pc = "down"
    <3>1. ASSUME NEW p \in Posts, PostStep(p)
          PROVE  pc = "down"
      BY <1>5, <3>1 DEF PostStep, Join, Open, List, ReadPart, ReadEof, Exit, Close, PostFails,
                        KillPost, SendOthers, OpenOthers, serverVars
    <3>2. OwnerStep => pc = "down"
      BY <1>5 DEF OwnerStep, OwnerJoin, OwnerOpen, CreateChannel, GetMessages, ReadReply,
                  OwnerEof, OwnerExit,
                  OwnerClose, Shutdown, OwnerFails, KillOwner, SendSelf, OpenSelf, serverVars
    <3>3. ServerStep => pc = "down"
      BY <1>5, <2>2 DEF ServerStep, Select, HandleCR, HandleOS, HandleES, HandleSH, HandleGM,
                        HandleOO,
                        HandleEO, HandleLI, TakeSelf, TakeOthers, OpenSelf, OpenOthers, Die
    <3> QED
      BY <3>1, <3>2, <3>3 DEF Next
  <2>3. ~ Stop /\ pc = "down" => UNCHANGED othersR
    <3>1. ASSUME NEW p \in Posts, PostStep(p), pc = "down"
          PROVE  UNCHANGED othersR
      BY <3>1 DEF PostStep, Join, Open, List, ReadPart, ReadEof, Exit, Close, PostFails,
                  KillPost, SendOthers, Serving, fifoVars
    <3>2. ServerStep /\ pc = "down" => UNCHANGED othersR
      BY DEF ServerStep, Select, HandleCR, HandleOS, HandleES, HandleSH, HandleGM, HandleOO,
             HandleEO, HandleLI, Stop, TakeSelf, TakeOthers
    <3> QED
      BY <3>1, <3>2, OwnerQuiet DEF Next
  <2> QED
    BY <2>1, <2>2, <2>3 DEF PassInv
<1>6. PassSeen'
  BY <1>1, <1>2, <1>3, <1>4 DEF Next, PostStep, QuietStep
<1> QED
  BY <1>5, <1>6 DEF PassInv, PassSeen

-------------------------------------------------------------------------------
(* Who joins and leaves *)

LEMMA RequestsStep ==
  ASSUME SessionsTypeOK, PassInv, RequestsInv, Serving => MembersInv, Next
  PROVE  RequestsInv' /\ (Serving' => MembersInv')
<1>1. ASSUME NEW p \in Posts, Join(p) \/ List(p) \/ Exit(p)
      PROVE  RequestsInv' /\ MembersInv'
  <2>1. PICK op : /\ othersR' = Append(othersR, Request(op, p))
                  /\ \/ op = "OO" /\ post[p] = "new" /\ post'[p] = "joined"
                     \/ op = "EO" /\ post[p] = "prompt" /\ post'[p] = "leaving"
                     \/ op = "LI" /\ post[p] = "prompt" /\ post'[p] = "size"
    BY <1>1 DEF Join, List, Exit, SendOthers, Request, PostMoves, SessionsTypeOK
  <2>2. UNCHANGED members /\ Serving
    BY <1>1 DEF Join, List, Exit, SendOthers, serverVars
  <2>3. \A q \in Posts : q # p => post'[q] = post[q]
    BY <1>1 DEF Join, List, Exit, PostMoves, SessionsTypeOK
  <2> QED
    BY <2>1, <2>2, <2>3, WriteRequest
<1>2. ASSUME NEW p \in Posts, QuietStep(p)
      PROVE  RequestsInv' /\ (MembersInv => MembersInv')
  BY <1>2, QuietOnward, NoRequest
<1>3. ASSUME OwnerStep \/ Select \/ HandleCR \/ HandleOS \/ HandleES \/ HandleSH \/ HandleGM
      PROVE  RequestsInv' /\ (MembersInv => MembersInv')
  <2>1. UNCHANGED <<othersR, members, post>>
    BY <1>3, OwnerQuiet, SelfQuiet
  <2>2. \A p \in Posts : Onward(post[p], post[p])
    BY DEF Onward
  <2> QED
    BY <2>1, <2>2, NoRequest
<1>4. ASSUME HandleOO \/ HandleEO \/ HandleLI
      PROVE  RequestsInv' /\ (MembersInv => MembersInv')
  <2>1. othersR # <<>> /\ othersR' = Tail(othersR)
    BY <1>4, TakeTypes DEF HandleOO, HandleEO, HandleLI, TakeOthers
  <2>2. post' = post \/ post' = Released
    BY <1>4 DEF HandleOO, HandleEO, HandleLI
  <2>3. \A p \in Posts : Onward(post[p], post'[p])
    BY <2>2 DEF Onward, Released, Present, Gone, Reading, Parts
  <2>4. /\ Head(othersR).op = "OO" => members' = members \cup {Head(othersR).pid}
        /\ Head(othersR).op = "EO" => members' = members \ {Head(othersR).pid}
        /\ Head(othersR).op = "LI" => members' = members
    BY <1>4 DEF HandleOO, HandleEO, HandleLI, TakeOthers
  <2> QED
    BY <2>1, <2>3, <2>4, TakeRequest
<1>5. ASSUME Stop
      PROVE  RequestsInv' /\ ~ Serving'
  <2>1. othersR' = <<>> /\ pc' = "down"
    BY <1>5 DEF Stop
  <2>2. DOMAIN othersR' = {}
    BY <2>1
  <2> QED
    BY <2>1, <2>2 DEF RequestsInv, Serving, Before
<1> QED
  BY <1>1, <1>2, <1>3, <1>4, <1>5, OnlyEnds DEF Next, PostStep, QuietStep, ServerStep

-------------------------------------------------------------------------------
(* What the server has open for the boardposts *)

\* A boardpost starts to read in its open only.
LEMMA ReadersShrink ==
  ASSUME SessionsTypeOK, NEW p \in Posts, PostStep(p), ~ Open(p)
  PROVE  Readers' \subseteq Readers
<1>1. ASSUME NEW q \in Posts, post'[q] \in Reading
      PROVE  post[q] \in Reading
  <2>1. q # p => post'[q] = post[q]
    BY DEF PostStep, Join, List, ReadPart, ReadEof, Exit, Close, PostFails, KillPost, PostMoves,
           SessionsTypeOK
  <2>2. post'[p] \in Reading => post[p] \in Reading
    BY DEF PostStep, Join, List, ReadPart, ReadEof, Exit, Close, PostFails, KillPost, PostMoves,
           SessionsTypeOK, Reading, Parts
  <2> QED
    BY <1>1, <2>1, <2>2
<1> QED
  BY <1>1 DEF Readers

LEMMA MembersFinite ==
  ASSUME SessionsTypeOK
  PROVE  /\ IsFiniteSet(members) /\ Cardinality(members) \in Nat
         /\ \A p \in members : Cardinality(members) > 0
         /\ \A p : Cardinality(members \cup {p}) =
                     IF p \in members THEN Cardinality(members) ELSE Cardinality(members) + 1
         /\ \A p : Cardinality(members \ {p}) =
                     IF p \in members THEN Cardinality(members) - 1 ELSE Cardinality(members)
<1>1. IsFiniteSet(members)
  BY SessionsAssumption, FS_Subset DEF SessionsTypeOK
<1>2. Cardinality(members) \in Nat
  BY <1>1, FS_CardinalityType
<1>3. members # {} => Cardinality(members) # 0
  BY <1>1, FS_EmptySet
<1>4. \A p : Cardinality(members \cup {p}) =
               IF p \in members THEN Cardinality(members) ELSE Cardinality(members) + 1
  BY <1>1, FS_AddElement
<1>5. \A p : Cardinality(members \ {p}) =
               IF p \in members THEN Cardinality(members) - 1 ELSE Cardinality(members)
  BY <1>1, FS_RemoveElement
<1> QED
  BY <1>1, <1>2, <1>3, <1>4, <1>5

LEMMA OpensStep ==
  ASSUME SessionsTypeOK, PassInv, RequestsInv, OpensInv, Next, Serving'
  PROVE  OpensInv' /\ (HandleEO => boardpostnum > 0)
<1> USE DEF serverVars, fifoVars
<1>1. ASSUME NEW p \in Posts, Open(p)
      PROVE  OpensInv'
  <2>1. CASE UNCHANGED <<pc, fd3, boardpostnum, members>> /\ pc # "openOthers"
    BY <2>1 DEF OpensInv
  <2>2. CASE pc = "openOthers" /\ OpenOthers /\ UNCHANGED members
    BY <2>2 DEF OpensInv, OpenOthers
  <2> QED
    BY <1>1, <2>1, <2>2 DEF Open, OpensInv
<1>2. ASSUME NEW p \in Posts, PostStep(p), ~ Open(p)
      PROVE  OpensInv'
  <2>1. UNCHANGED <<pc, fd3, boardpostnum, members>>
    BY <1>2 DEF PostStep, Join, List, ReadPart, ReadEof, Exit, Close, PostFails, KillPost,
                SendOthers
  <2> QED
    BY <1>2, <2>1, ReadersShrink DEF OpensInv
<1>3. ASSUME OwnerStep
      PROVE  OpensInv'
  <2>1. pc' = pc \/ (pc = "openSelf" /\ pc' = "loop")
    BY <1>3 DEF OwnerStep, OwnerJoin, OwnerOpen, CreateChannel, GetMessages, ReadReply, OwnerEof,
                OwnerExit,
                OwnerClose, Shutdown, OwnerFails, KillOwner, OwnerMoves, SendSelf, OpenSelf
  <2> QED
    BY <1>3, <2>1, OwnerQuiet DEF OpensInv, Readers
<1>4. ASSUME Select \/ HandleCR \/ HandleOS \/ HandleES \/ HandleSH \/ HandleGM
      PROVE  OpensInv'
  <2>1. pc = "loop" /\ pc' \in {"loop", "openSelf"} /\ UNCHANGED fd3
    BY <1>4 DEF Select, HandleCR, HandleOS, HandleES, HandleSH, HandleGM, TakeSelf, OpenSelf, Die,
                Serving
  <2> QED
    BY <1>4, <2>1, SelfQuiet DEF OpensInv
<1>5. ASSUME HandleOO
      PROVE  OpensInv'
  <2>1. Head(othersR).pid \notin members /\ othersR # <<>> /\ pc = "loop"
    <3>1. othersR # <<>> /\ othersR' = Tail(othersR) /\ Head(othersR).op = "OO" /\ pc = "loop"
          /\ members' = members \cup {Head(othersR).pid}
      BY <1>5, TakeTypes DEF HandleOO, TakeOthers
    <3>2. \A p \in Posts : Onward(post[p], post'[p])
      BY <1>5 DEF HandleOO, Onward, Released, Present, Gone, Reading, Parts
    <3> QED
      BY <3>1, <3>2, TakeRequest
  <2>2. Cardinality(members') = Cardinality(members) + 1 /\ Cardinality(members) = boardpostnum
    <3>1. members' = members \cup {Head(othersR).pid}
      BY <1>5 DEF HandleOO
    <3>2. boardpostnum \in Nat /\ Cardinality(members) = boardpostnum + 0
      BY <2>1 DEF OpensInv, SessionsTypeOK
    <3> QED
      BY <2>1, <3>1, <3>2, MembersFinite
  <2>3. CASE boardpostnum # 0
    BY <1>5, <2>1, <2>2, <2>3 DEF HandleOO, OpensInv, OpenOthers, SessionsTypeOK
  <2>4. CASE boardpostnum = 0 /\ Readers # {}
    BY <1>5, <2>1, <2>2, <2>4 DEF HandleOO, OpensInv, OpenOthers
  <2>5. CASE boardpostnum = 0 /\ Readers = {}
    BY <1>5, <2>1, <2>2, <2>5 DEF HandleOO, OpensInv, Readers
  <2> QED
    BY <2>3, <2>4, <2>5
<1>6. ASSUME HandleEO
      PROVE  OpensInv' /\ boardpostnum > 0
  <2>1. /\ othersR # <<>> /\ othersR' = Tail(othersR) /\ Head(othersR).op = "EO" /\ pc = "loop"
        /\ members' = members \ {Head(othersR).pid}
        /\ UNCHANGED post
    BY <1>6, TakeTypes DEF HandleEO, TakeOthers
  <2>2. \A p \in Posts : Onward(post[p], post'[p])
    BY <2>1 DEF Onward
  <2>3. Head(othersR).pid \in members
    BY <2>1, <2>2, TakeRequest
  <2>4. /\ Cardinality(members) = boardpostnum /\ boardpostnum > 0
        /\ Cardinality(members') = boardpostnum - 1
    <3>1. boardpostnum \in Nat /\ Cardinality(members) = boardpostnum + 0
      BY <2>1 DEF OpensInv, SessionsTypeOK
    <3> QED
      BY <2>1, <2>3, <3>1, MembersFinite
  <2> QED
    <3>1. boardpostnum' = boardpostnum - 1 /\ boardpostnum' \in Nat /\ pc' = "loop"
      BY <1>6, <2>1, <2>4 DEF HandleEO, SessionsTypeOK
    <3>2. fd3' <=> boardpostnum' > 0
      <4>1. fd3 = TRUE
        BY <2>4 DEF OpensInv, SessionsTypeOK
      <4>2. fd3' = (fd3 /\ boardpostnum' # 0)
        BY <1>6 DEF HandleEO
      <4>3. fd3' <=> boardpostnum' # 0
        BY <4>1, <4>2
      <4>4. boardpostnum' # 0 <=> boardpostnum' > 0
        <5>1. boardpostnum' \in Nat
          BY <3>1
        <5> QED
          BY ONLY <5>1
      <4> QED
        BY <4>3, <4>4
    <3> QED
      BY <2>4, <3>1, <3>2 DEF OpensInv
<1>7. ASSUME HandleLI
      PROVE  OpensInv'
  BY <1>7 DEF HandleLI, TakeOthers, Die, Serving, OpensInv
<1>8. ~ Stop
  BY DEF Stop, Serving
<1> QED
  BY <1>1, <1>2, <1>3, <1>4, <1>5, <1>6, <1>7, <1>8 DEF Next, ServerStep

-------------------------------------------------------------------------------
(* What the server has open for the owner *)

Uses == {"joined", "opening", "prompt", "waiting"}

LEMMA SelfTypes ==
  ASSUME SessionsTypeOK
  PROVE  /\ selfR \in Seq({"OS", "ES", "CR", "GM", "SH"}) /\ Len(selfR) \in Nat
         /\ DOMAIN selfR = 1 .. Len(selfR)
         /\ Opens \in Nat /\ fd1 \in Nat /\ selfW \in Nat
<1>1. selfR \in Seq({"OS", "ES", "CR", "GM", "SH"}) /\ fd1 \in Nat /\ selfW \in Nat
  BY DEF SessionsTypeOK
<1> QED
  BY <1>1, LenProperties DEF Opens

\* Nothing happens to the requests of the owner and what is open for him.
LEMMA OwnerKept ==
  ASSUME SessionsTypeOK, OwnerInv, UNCHANGED selfR, Opens' = Opens,
         owner' \in Uses => owner \in Uses
  PROVE  OwnerInv'
<1>1. \A n : OpenAt(n) => OpenAt(n)'
  BY DEF OpenAt
<1>2. \A m : OpenAt(m) /\ m = Len(selfR) + 1 => OpenAt(Len(selfR) + 1)'
  BY <1>1
<1> QED
  BY <1>1, <1>2 DEF OwnerInv, Uses

\* The owner writes a request.
LEMMA OwnerWrites ==
  ASSUME SessionsTypeOK, OwnerInv, NEW op \in {"OS", "ES", "CR", "GM", "SH"},
         selfR' = Append(selfR, op), Opens' = Opens,
         op \in {"ES", "GM"} => owner \in Uses,
         owner' \in Uses => op = "OS" \/ (op \in {"CR", "GM"} /\ owner \in Uses)
  PROVE  OwnerInv'
<1> DEFINE n == Len(selfR) + 1
<1>1. /\ n \in Nat /\ DOMAIN selfR = 1 .. n - 1 /\ DOMAIN selfR' = 1 .. n
      /\ Len(selfR') = n
      /\ \A i \in DOMAIN selfR : i \in DOMAIN selfR' /\ selfR'[i] = selfR[i]
      /\ selfR'[n] = op
      /\ \A i \in DOMAIN selfR' : i \in DOMAIN selfR \/ i = n
  BY SelfTypes, AppendAt
<1> HIDE DEF n
<1>2. ASSUME NEW m \in 1 .. n, NEW q \in 1 .. n, q = m, OpenAt(m)
      PROVE  OpenAt(q)'
  BY <1>1, <1>2 DEF OpenAt
<1>3. owner \in Uses => OpenAt(n)
  BY DEF OwnerInv, Uses, n
<1>4. ASSUME NEW i \in DOMAIN selfR', selfR'[i] \in {"ES", "GM"}
      PROVE  OpenAt(i)'
  <2>1. CASE i \in DOMAIN selfR
    BY <1>1, <1>2, <1>4, <2>1 DEF OwnerInv
  <2>2. CASE i = n
    BY <1>1, <1>2, <1>3, <1>4, <2>2
  <2> QED
    BY <1>1, <2>1, <2>2
<1>5. ASSUME owner' \in Uses, NEW m, m = n + 1
      PROVE  OpenAt(m)'
  <2>1. CASE op = "OS"
    BY <1>1, <1>5, <2>1 DEF OpenAt
  <2>2. CASE op \in {"CR", "GM"} /\ owner \in Uses
    <3>1. OpenAt(n)
      BY <1>3, <2>2
    <3>2. CASE \E j \in DOMAIN selfR :
                 /\ j < n /\ selfR[j] = "OS"
                 /\ \A k \in DOMAIN selfR : j < k /\ k < n => selfR[k] # "ES"
      BY <1>1, <1>5, <2>2, <3>2 DEF OpenAt
    <3>3. CASE Opens > 0 /\ \A k \in DOMAIN selfR : k < n => selfR[k] # "ES"
      BY <1>1, <1>5, <2>2, <3>3 DEF OpenAt
    <3> QED
      BY <3>1, <3>2, <3>3 DEF OpenAt
  <2> QED
    BY <1>5, <2>1, <2>2
<1> QED
  BY <1>1, <1>4, <1>5 DEF OwnerInv, Uses, OpenAt

\* The server takes a request of the owner.
LEMMA OwnerTaken ==
  ASSUME SessionsTypeOK, OwnerInv, selfR # <<>>, selfR' = Tail(selfR),
         Head(selfR) = "OS" => Opens' > 0,
         Head(selfR) # "ES" /\ Opens > 0 => Opens' > 0,
         owner' \in Uses => owner \in Uses
  PROVE  /\ OwnerInv'
         /\ Head(selfR) \in {"ES", "GM"} => Opens > 0
<1>1. /\ Len(selfR) \in Nat /\ Len(selfR') = Len(selfR) - 1
      /\ DOMAIN selfR = 1 .. Len(selfR) /\ DOMAIN selfR' = 1 .. Len(selfR) - 1
      /\ 1 \in DOMAIN selfR /\ Head(selfR) = selfR[1]
      /\ \A i \in DOMAIN selfR' : /\ i \in Nat /\ i + 1 \in DOMAIN selfR /\ 1 < i + 1
                                  /\ selfR'[i] = selfR[i + 1]
      /\ \A i \in DOMAIN selfR : i = 1 \/ (i - 1 \in DOMAIN selfR' /\ selfR'[i - 1] = selfR[i])
  BY SelfTypes, TailAt
<1>2. ASSUME NEW n \in Nat \ {0}, NEW m, m = n + 1, OpenAt(m)
      PROVE  OpenAt(n)'
  <2>1. CASE Opens' > 0 /\ \A k \in DOMAIN selfR : 1 < k /\ k < m => selfR[k] # "ES"
    BY <1>1, <1>2, <2>1 DEF OpenAt
  <2>2. ASSUME NEW j \in DOMAIN selfR, j < m, selfR[j] = "OS", j # 1,
               \A k \in DOMAIN selfR : j < k /\ k < m => selfR[k] # "ES"
        PROVE  OpenAt(n)'
    <3> DEFINE i == j - 1
    <3>1. i \in DOMAIN selfR' /\ selfR'[i] = "OS" /\ i < n
      BY <1>1, <1>2, <2>2
    <3>2. \A k \in DOMAIN selfR' : i < k /\ k < n => selfR'[k] # "ES"
      BY <1>1, <1>2, <2>2
    <3> QED
      BY <3>1, <3>2 DEF OpenAt
  <2>3. CASE Opens > 0 /\ \A k \in DOMAIN selfR : k < m => selfR[k] # "ES"
    BY <1>1, <1>2, <2>1, <2>3
  <2> QED
    BY <1>1, <1>2, <2>1, <2>2, <2>3 DEF OpenAt
<1>3. ASSUME NEW i \in DOMAIN selfR', selfR'[i] \in {"ES", "GM"}
      PROVE  OpenAt(i)'
  <2>1. OpenAt(i + 1)
    BY <1>1, <1>3 DEF OwnerInv
  <2> QED
    BY <1>1, <1>2, <2>1
<1>4. ASSUME owner' \in Uses, NEW n, n = Len(selfR)
      PROVE  OpenAt(n)'
  <2>1. OpenAt(n + 1)
    BY <1>4 DEF OwnerInv, Uses
  <2> QED
    BY <1>1, <1>2, <1>4, <2>1
<1>5. OwnerInv'
  BY <1>1, <1>3, <1>4 DEF OwnerInv, Uses, OpenAt
<1>6. Head(selfR) \in {"ES", "GM"} => Opens > 0
  BY <1>1 DEF OwnerInv, OpenAt
<1> QED
  BY <1>5, <1>6

LEMMA OwnerInvStep ==
  ASSUME SessionsTypeOK, PassInv, OwnerInv, Next, Serving'
  PROVE  OwnerInv' /\ (HandleES \/ HandleGM => fd1 > 0)
<1> USE DEF serverVars, fifoVars
<1>1. ASSUME NEW p \in Posts, PostStep(p)
      PROVE  OwnerInv'
  <2>1. UNCHANGED <<selfR, fd1, owner>>
    BY <1>1 DEF PostStep, Join, Open, List, ReadPart, ReadEof, Exit, Close, PostFails, KillPost,
                SendOthers
  <2>2. pc' = pc \/ (pc = "openOthers" /\ pc' = "loop")
    BY <1>1 DEF PostStep, Join, Open, List, ReadPart, ReadEof, Exit, Close, PostFails, KillPost,
                SendOthers, OpenOthers
  <2> QED
    BY <2>1, <2>2, OwnerKept DEF Opens
<1>2. ASSUME OwnerStep
      PROVE  OwnerInv'
  <2> USE DEF OwnerMoves, SendSelf
  <2>1. CASE OwnerJoin \/ CreateChannel \/ GetMessages \/ OwnerExit \/ Shutdown
    <3>1. Opens' = Opens
      BY <2>1 DEF OwnerJoin, CreateChannel, GetMessages, OwnerExit, Shutdown, Opens
    <3>2. PICK op \in {"OS", "ES", "CR", "GM", "SH"} :
            /\ selfR' = Append(selfR, op)
            /\ op \in {"ES", "GM"} => owner = "prompt"
            /\ \/ op = "OS"
               \/ op = "GM" /\ owner' = "waiting"
               \/ op = "CR" /\ owner = "prompt"
               \/ op \in {"ES", "SH"} /\ owner' \in {"leaving", "gone"}
      BY <2>1 DEF OwnerJoin, CreateChannel, GetMessages, OwnerExit, Shutdown
    <3> QED
      BY <3>1, <3>2, OwnerWrites DEF Uses
  <2>2. CASE OwnerOpen
    <3>1. Opens' = Opens
      BY <2>2, SelfTypes DEF OwnerOpen, OpenSelf, Opens
    <3> QED
      BY <2>2, <3>1, OwnerKept DEF OwnerOpen, Uses
  <2>3. CASE ReadReply \/ OwnerEof \/ OwnerClose \/ OwnerFails \/ KillOwner
    <3>1. UNCHANGED selfR /\ Opens' = Opens
      BY <2>3 DEF ReadReply, OwnerEof, OwnerClose, OwnerFails, KillOwner, Opens
    <3>2. owner' \in Uses => owner \in Uses
      BY <2>3 DEF ReadReply, OwnerEof, OwnerClose, OwnerFails, KillOwner, Uses
    <3> QED
      BY <3>1, <3>2, OwnerKept
  <2> QED
    BY <1>2, <2>1, <2>2, <2>3 DEF OwnerStep
<1>3. ASSUME HandleCR \/ HandleOS \/ HandleES \/ HandleSH \/ HandleGM
      PROVE  OwnerInv' /\ (HandleES \/ HandleGM => fd1 > 0)
  <2>1. selfR # <<>> /\ selfR' = Tail(selfR) /\ pc = "loop" /\ Opens = fd1 + 0 /\ fd1 \in Nat
    BY <1>3, TakeTypes, SelfTypes DEF HandleCR, HandleOS, HandleES, HandleSH, HandleGM, TakeSelf,
                                      Opens
  <2>2. owner' \in Uses => owner \in Uses
    BY <1>3 DEF HandleCR, HandleOS, HandleES, HandleSH, HandleGM, TakeSelf, Uses
  <2>3. Head(selfR) = "OS" => Opens' > 0
    BY <1>3, <2>1 DEF HandleCR, HandleOS, HandleES, HandleSH, HandleGM, TakeSelf, Opens, OpenSelf
  <2>4. Head(selfR) # "ES" /\ Opens > 0 => Opens' > 0
    BY <1>3, <2>1, <2>3 DEF HandleCR, HandleOS, HandleES, HandleSH, HandleGM, TakeSelf, Opens,
                            Die, Serving
  <2>5. HandleES \/ HandleGM => Head(selfR) \in {"ES", "GM"}
    BY DEF HandleES, HandleGM, TakeSelf
  <2> QED
    BY <2>1, <2>2, <2>3, <2>4, <2>5, OwnerTaken
<1>4. ASSUME Select \/ HandleOO \/ HandleEO \/ HandleLI
      PROVE  OwnerInv'
  <2>1. UNCHANGED <<selfR, owner, fd1>>
    BY <1>4 DEF Select, HandleOO, HandleEO, HandleLI, TakeOthers, Die, Serving, userVars
  <2>2. pc = "loop" /\ pc' \in {"loop", "openOthers"}
    BY <1>4 DEF Select, HandleOO, HandleEO, HandleLI, TakeOthers, Die, Serving, OpenOthers
  <2> QED
    BY <2>1, <2>2, OwnerKept DEF Opens
<1>5. ~ Stop
  BY DEF Stop, Serving
<1>6. HandleES \/ HandleGM => fd1 > 0
  BY <1>3
<1> QED
  BY <1>1, <1>2, <1>3, <1>4, <1>5, <1>6 DEF Next, ServerStep

\* The question of the owner and its answer.
LEMMA QuestionStep ==
  ASSUME SessionsTypeOK, PassInv, QuestionInv, Next, kills' = 0, kills = 0
  PROVE  /\ QuestionInv'
         /\ HandleGM => owner \in {"waiting", "eof"}
<1> USE DEF fifoVars, serverVars, userVars
<1>1. ASSUME UNCHANGED selfR, selfW' \in {selfW, 0},
             owner' = owner \/ (selfW = 0 /\ owner \notin {"waiting", "eof"})
      PROVE  QuestionInv'
  BY <1>1 DEF QuestionInv
<1>2. ASSUME NEW p \in Posts, PostStep(p)
      PROVE  QuestionInv'
  <2>1. UNCHANGED <<selfR, selfW, owner>>
    BY <1>2 DEF PostStep, Join, Open, List, ReadPart, ReadEof, Exit, Close, PostFails, KillPost,
                SendOthers
  <2> QED
    BY <1>1, <2>1
<1>3. ASSUME NEW op \in {"OS", "ES", "CR", "GM", "SH"}, selfR' = Append(selfR, op),
             owner \notin {"waiting", "eof"}, UNCHANGED selfW,
             op = "GM" => owner' = "waiting"
      PROVE  QuestionInv'
  <2>1. /\ DOMAIN selfR = 1 .. Len(selfR)
        /\ \A i \in DOMAIN selfR : i \in DOMAIN selfR' /\ selfR'[i] = selfR[i]
        /\ \A i \in DOMAIN selfR' : i \in DOMAIN selfR \/ i = Len(selfR) + 1
        /\ selfR'[Len(selfR) + 1] = op
    BY <1>3, SelfTypes, AppendAt
  <2>2. selfW = 0 /\ \A i \in DOMAIN selfR : selfR[i] # "GM"
    BY <1>3, SelfTypes DEF QuestionInv
  <2> QED
    BY <1>3, <2>1, <2>2 DEF QuestionInv
<1>4. ASSUME OwnerStep
      PROVE  QuestionInv'
  <2> USE DEF OwnerMoves, SendSelf
  <2>1. CASE OwnerJoin \/ CreateChannel \/ GetMessages \/ OwnerExit \/ Shutdown
    BY <1>3, <2>1 DEF OwnerJoin, CreateChannel, GetMessages, OwnerExit, Shutdown
  <2>2. CASE OwnerOpen \/ OwnerClose \/ OwnerFails
    <3>1. owner \notin {"waiting", "eof"} /\ UNCHANGED selfR /\ selfW' \in {selfW, 0}
      BY <2>2 DEF OwnerOpen, OwnerClose, OwnerFails
    <3>2. selfW = 0
      BY <3>1, SelfTypes DEF QuestionInv
    <3> QED
      BY <1>1, <3>1, <3>2
  <2>3. CASE ReadReply
    BY <2>3 DEF ReadReply, QuestionInv
  <2>4. CASE OwnerEof
    BY <2>4 DEF OwnerEof, QuestionInv
  <2>5. ~ KillOwner
    BY SessionsAssumption DEF KillOwner
  <2> QED
    BY <1>4, <2>1, <2>2, <2>3, <2>4, <2>5 DEF OwnerStep
<1>5. ASSUME HandleCR \/ HandleOS \/ HandleES \/ HandleSH \/ HandleGM
      PROVE  QuestionInv' /\ (HandleGM => owner \in {"waiting", "eof"})
  <2>1. selfR # <<>> /\ selfR' = Tail(selfR)
    BY <1>5, TakeTypes DEF HandleCR, HandleOS, HandleES, HandleSH, HandleGM, TakeSelf
  <2>2. /\ 1 \in DOMAIN selfR /\ Head(selfR) = selfR[1]
        /\ \A i \in DOMAIN selfR' : /\ i \in Nat /\ i + 1 \in DOMAIN selfR /\ 1 < i + 1
                                    /\ selfR'[i] = selfR[i + 1]
    BY <2>1, SelfTypes, TailAt
  <2>3. /\ \A i \in DOMAIN selfR' : selfR'[i] = "GM" =>
             /\ owner \in {"waiting", "eof"} /\ selfW = 0
             /\ \A j \in DOMAIN selfR' : selfR'[j] = "GM" => j = i
        /\ selfW > 0 => owner \in {"waiting", "eof"}
        /\ selfW \in {0, 1}
    <3>1. ASSUME NEW i \in DOMAIN selfR', selfR'[i] = "GM",
                 NEW j \in DOMAIN selfR', selfR'[j] = "GM"
          PROVE  j = i
      <4>1. j + 1 = i + 1
        BY <2>2, <3>1 DEF QuestionInv
      <4> QED
        BY <2>2, <4>1
    <3> QED
      BY <2>2, <3>1 DEF QuestionInv
  <2>4. ASSUME HandleOS
        PROVE  QuestionInv'
    <3>1. UNCHANGED selfW /\ (owner' = owner \/ owner = "opening")
      BY <2>4 DEF HandleOS
    <3>2. CASE owner' = owner
      BY <2>3, <3>1, <3>2 DEF QuestionInv
    <3>3. CASE owner = "opening"
      <4>1. selfW' = 0 /\ \A i \in DOMAIN selfR' : selfR'[i] # "GM"
        BY <2>3, <3>1, <3>3
      <4> QED
        BY <4>1 DEF QuestionInv
    <3> QED
      BY <3>1, <3>2, <3>3
  <2>5. ASSUME HandleCR \/ HandleES \/ HandleSH
        PROVE  QuestionInv'
    <3>1. selfW' \in {selfW, 0} /\ owner' = owner
      BY <2>5 DEF HandleCR, HandleES, HandleSH
    <3> QED
      BY <2>3, <3>1 DEF QuestionInv
  <2>6. ASSUME HandleGM
        PROVE  QuestionInv'
    <3>1. owner \in {"waiting", "eof"} /\ selfW = 0 /\ \A i \in DOMAIN selfR' : selfR'[i] # "GM"
      BY <2>2, <2>6 DEF HandleGM, TakeSelf, QuestionInv
    <3>2. selfW' \in {0, 1} /\ owner' = owner
      BY <2>6, <3>1 DEF HandleGM
    <3> QED
      BY <3>1, <3>2 DEF QuestionInv
  <2>7. HandleGM => owner \in {"waiting", "eof"}
    BY <2>2 DEF HandleGM, TakeSelf, QuestionInv
  <2> QED
    BY <1>5, <2>4, <2>5, <2>6, <2>7
<1>6. ASSUME Select \/ HandleOO \/ HandleEO \/ HandleLI
      PROVE  QuestionInv'
  <2>1. UNCHANGED <<selfR, owner, selfW>>
    BY <1>6 DEF Select, HandleOO, HandleEO, HandleLI, TakeOthers
  <2> QED
    BY <1>1, <2>1
<1>7. ASSUME Stop
      PROVE  QuestionInv'
  <2>1. DOMAIN selfR' = {} /\ selfW' \in {selfW, 0} /\ UNCHANGED owner
    BY <1>7 DEF Stop
  <2> QED
    BY <2>1 DEF QuestionInv
<1> QED
  BY <1>2, <1>4, <1>5, <1>6, <1>7 DEF Next, ServerStep

-------------------------------------------------------------------------------
(* Lists and answers, counted *)

LEMMA HitsFinite ==
  ASSUME NEW S, NEW s \in Seq(S), NEW V
  PROVE  IsFiniteSet(Hits(s, V)) /\ Cardinality(Hits(s, V)) \in Nat
<1>1. DOMAIN s = 1 .. Len(s) /\ Len(s) \in Nat
  BY LenProperties
<1>2. IsFiniteSet(1 .. Len(s))
  BY <1>1, FS_Interval
<1>3. Hits(s, V) \subseteq 1 .. Len(s)
  BY <1>1 DEF Hits
<1> QED
  BY <1>2, <1>3, FS_Subset, FS_CardinalityType

LEMMA HitsAppend ==
  ASSUME NEW S, NEW s \in Seq(S), NEW e \in S, NEW V
  PROVE  Cardinality(Hits(Append(s, e), V)) =
           IF e \in V THEN Cardinality(Hits(s, V)) + 1 ELSE Cardinality(Hits(s, V))
<1> DEFINE t == Append(s, e)
<1>1. /\ DOMAIN s = 1 .. Len(s) /\ Len(s) \in Nat
      /\ \A i \in DOMAIN s : i \in DOMAIN t /\ t[i] = s[i]
      /\ t[Len(s) + 1] = e /\ Len(s) + 1 \in DOMAIN t
      /\ \A i \in DOMAIN t : i \in DOMAIN s \/ i = Len(s) + 1
  BY AppendAt
<1> HIDE DEF t
<1>2. ASSUME e \in V
      PROVE  Cardinality(Hits(t, V)) = Cardinality(Hits(s, V)) + 1
  <2>1. Hits(t, V) = Hits(s, V) \cup {Len(s) + 1} /\ Len(s) + 1 \notin Hits(s, V)
    BY <1>1, <1>2 DEF Hits
  <2> QED
    BY <1>2, <2>1, HitsFinite, FS_AddElement
<1>3. ASSUME e \notin V
      PROVE  Cardinality(Hits(t, V)) = Cardinality(Hits(s, V))
  <2>1. Hits(t, V) = Hits(s, V)
    BY <1>1, <1>3 DEF Hits
  <2> QED
    BY <1>3, <2>1
<1> QED
  BY <1>2, <1>3 DEF t

LEMMA HitsTail ==
  ASSUME NEW S, NEW s \in Seq(S), s # <<>>, NEW t, t = Tail(s), NEW V
  PROVE  Cardinality(Hits(t, V)) =
           IF Head(s) \in V THEN Cardinality(Hits(s, V)) - 1 ELSE Cardinality(Hits(s, V))
<1> DEFINE rest == Hits(s, V) \ {1}
           f == [i \in Hits(t, V) |-> i + 1]
<1>1. /\ DOMAIN s = 1 .. Len(s) /\ DOMAIN t \subseteq Nat /\ t \in Seq(S)
      /\ 1 \in DOMAIN s /\ Head(s) = s[1]
      /\ \A i \in DOMAIN t : /\ i \in Nat /\ i + 1 \in DOMAIN s /\ 1 < i + 1
                             /\ t[i] = s[i + 1]
      /\ \A i \in DOMAIN s : i = 1 \/ (i - 1 \in DOMAIN t /\ t[i - 1] = s[i])
  BY TailAt
<1>2. f \in [Hits(t, V) -> rest] /\ \A a, b \in Hits(t, V) : f[a] = f[b] => a = b
  BY <1>1 DEF Hits
<1>3. \A r \in rest : \E i \in Hits(t, V) : f[i] = r
  <2>1. TAKE r \in rest
  <2>2. r \in Nat /\ r - 1 \in Hits(t, V) /\ (r - 1) + 1 = r
    BY <1>1 DEF Hits
  <2> QED
    BY <2>2
<1>4. ExistsBijection(Hits(t, V), rest)
  <2> HIDE DEF f, rest
  <2>1. f \in Bijection(Hits(t, V), rest)
    BY <1>2, <1>3, Fun_IsBij
  <2> QED
    BY <2>1, Fun_ExistsBij
<1>5. Cardinality(rest) = Cardinality(Hits(t, V))
  BY <1>1, <1>4, HitsFinite, FS_Bijection
<1>6. Cardinality(rest) =
        IF 1 \in Hits(s, V) THEN Cardinality(Hits(s, V)) - 1 ELSE Cardinality(Hits(s, V))
  BY HitsFinite, FS_RemoveElement
<1>7. 1 \in Hits(s, V) <=> Head(s) \in V
  BY <1>1 DEF Hits
<1> QED
  BY <1>5, <1>6, <1>7

\* A reply of any length has one last part.
LEMMA HitsReply ==
  ASSUME NEW s \in Seq(ReplyPart), NEW n \in Nat \ {0}, NEW t, t = s \o Reply(n)
  PROVE  Cardinality(Hits(t, Lasts)) = Cardinality(Hits(s, Lasts)) + 1
<1> DEFINE l == Len(s)  m == 3 * n
<1>1. /\ l \in Nat /\ DOMAIN s = 1 .. l /\ Len(Reply(n)) = m /\ Reply(n) \in Seq(ReplyPart)
      /\ m \in Nat \ {0}
  BY LenProperties, ReplyShape
<1>2. /\ t \in Seq(ReplyPart) /\ DOMAIN t = 1 .. l + m
      /\ \A i \in 1 .. l + m : t[i] = IF i <= l THEN s[i] ELSE Reply(n)[i - l]
  <2>1. /\ t \in Seq(ReplyPart) /\ Len(t) = Len(s) + Len(Reply(n))
        /\ \A i \in 1 .. Len(s) + Len(Reply(n)) :
              t[i] = IF i <= Len(s) THEN s[i] ELSE Reply(n)[i - Len(s)]
    BY <1>1, ConcatProperties
  <2>2. DOMAIN t = 1 .. Len(t)
    BY <2>1, LenProperties
  <2> QED
    BY <1>1, <2>1, <2>2
<1>3. \A i \in 1 .. m : Reply(n)[i] \in Lasts <=> i = m
  <2>1. ASSUME NEW i \in 1 .. m
        PROVE  Reply(n)[i] \in Lasts <=> i = m
    <3>1. Reply(n)[i] \in Lasts <=> (i > 3 * (n - 1) /\ Reply(n)[i].part = "text")
      <4>1. Reply(n)[i] \in ReplyPart
        BY <1>1, ElementOfSeq
      <4>2. Reply(n)[i] \in Lasts <=> Reply(n)[i].last = TRUE /\ Reply(n)[i].part = "text"
        BY <4>1 DEF Lasts, ReplyPart
      <4> QED
        BY <4>2, ReplyShape
    <3>2. i = m => (i - 1) % 3 = 2 /\ i > 3 * (n - 1)
      OBVIOUS
    <3>3. i > 3 * (n - 1) /\ i # m => (i - 1) % 3 \in {0, 1}
      OBVIOUS
    <3> QED
      BY <3>1, <3>2, <3>3, ReplyShape
  <2> QED
    BY <2>1
<1>4. Hits(t, Lasts) = Hits(s, Lasts) \cup {l + m} /\ l + m \notin Hits(s, Lasts)
  <2> HIDE DEF m, l
  <2>1. ASSUME NEW i \in 1 .. l + m
        PROVE  t[i] \in Lasts <=> (i \in Hits(s, Lasts) \/ i = l + m)
    <3>1. CASE i <= l
      BY <1>1, <1>2, <3>1 DEF Hits
    <3>2. CASE ~ (i <= l)
      <4>1. i - l \in 1 .. m /\ t[i] = Reply(n)[i - l] /\ (i - l = m <=> i = l + m)
        BY <1>1, <1>2, <3>2
      <4> QED
        BY <1>1, <1>3, <3>2, <4>1 DEF Hits
    <3> QED
      BY <3>1, <3>2
  <2>2. Hits(s, Lasts) \subseteq 1 .. l /\ l + m \in 1 .. l + m
    BY <1>1 DEF Hits
  <2> QED
    BY <1>1, <1>2, <2>1, <2>2 DEF Hits
<1> QED
  BY <1>4, HitsFinite, FS_AddElement

\* The three numbers of AnswersDue.
DueR == Cardinality(Hits(othersR, Lists))
DueW == Cardinality(Hits(othersW, Lasts))
Awaited == Parts \cup {"eof", "confused"}

LEMMA DueTypes ==
  ASSUME SessionsTypeOK
  PROVE  /\ othersR \in Seq(RequestSet) /\ othersW \in Seq(ReplyPart)
         /\ DueR \in Nat /\ DueW \in Nat
         /\ IsFiniteSet(Listing) /\ Cardinality(Listing) \in Nat
<1>1. othersR \in Seq(RequestSet) /\ othersW \in Seq(ReplyPart)
  BY DEF SessionsTypeOK, RequestSet, ReplyPart
<1>2. IsFiniteSet(Listing) /\ Cardinality(Listing) \in Nat
  BY SessionsAssumption, FS_Subset, FS_CardinalityType DEF Listing
<1> QED
  BY <1>1, <1>2, HitsFinite DEF DueR, DueW

LEMMA NoHits ==
  ASSUME NEW V, NEW s, s = <<>>
  PROVE  Cardinality(Hits(s, V)) = 0
<1>1. Hits(s, V) = {}
  BY DEF Hits
<1> QED
  BY <1>1, FS_EmptySet

LEMMA InLists ==
  ASSUME NEW r \in RequestSet
  PROVE  r \in Lists <=> r.op = "LI"
<1>1. r = Request(r.op, r.pid) /\ r.pid \in Posts
  BY DEF Request, RequestSet
<1>2. r.op = "LI" => r \in Lists
  BY <1>1 DEF Lists
<1>3. r \in Lists => r.op = "LI"
  BY DEF Lists, Request
<1> QED
  BY <1>2, <1>3

LEMMA ListingKept ==
  ASSUME \A p \in Posts : post'[p] \in Awaited <=> post[p] \in Awaited
  PROVE  Listing' = Listing
<1> QED
  BY DEF Listing, Awaited

LEMMA DueTypesNext ==
  ASSUME SessionsTypeOK'
  PROVE  DueR' \in Nat /\ DueW' \in Nat
<1>1. othersR' \in Seq(RequestSet) /\ othersW' \in Seq(ReplyPart)
  BY DEF SessionsTypeOK, RequestSet, ReplyPart
<1> QED
  BY <1>1, HitsFinite DEF DueR, DueW

\* Fewer are due, and the same wait.
LEMMA DueFewer ==
  ASSUME SessionsTypeOK, SessionsTypeOK', kills = 0, AnswersDue,
         \/ DueR' <= DueR /\ DueW' <= DueW
         \/ DueR' <= DueR - 1 /\ DueW' <= DueW + 1,
         Listing' = Listing
  PROVE  AnswersDue'
<1>1. DueR + DueW <= Cardinality(Listing)
  BY DEF AnswersDue, DueR, DueW
<1>2. DueR' + DueW' <= Cardinality(Listing')
  BY <1>1, DueTypes, DueTypesNext
<1> QED
  BY <1>2 DEF AnswersDue, DueR, DueW

LEMMA AnswersDueStep ==
  ASSUME SessionsTypeOK, SessionsTypeOK', PassInv, AnswersDue, Next, kills = 0, kills' = 0
  PROVE  AnswersDue'
<1>1. DueR \in Nat /\ DueW \in Nat /\ DueR' \in Nat /\ DueW' \in Nat
  BY DueTypes, DueTypesNext
<1>2. UNCHANGED othersR => DueR' <= DueR
  BY <1>1 DEF DueR
<1>3. othersW' = othersW \/ othersW' = <<>> => DueW' <= DueW
  <2>1. othersW' = othersW => DueW' <= DueW
    BY <1>1 DEF DueW
  <2>2. othersW' = <<>> => DueW' <= DueW
    BY <1>1, NoHits DEF DueW
  <2> QED
    BY <2>1, <2>2
<1>4. ASSUME NEW p \in Posts, Join(p) \/ Exit(p)
      PROVE  AnswersDue'
  <2>1. PICK op \in {"OO", "EO"} : othersR' = Append(othersR, Request(op, p))
    BY <1>4 DEF Join, Exit, SendOthers, Request
  <2>2. Request(op, p) \in RequestSet /\ Request(op, p) \notin Lists
    BY <2>1, InLists DEF Request, RequestSet
  <2>3. DueR' <= DueR
    <3>1. Cardinality(Hits(othersR', Lists)) =
            IF Request(op, p) \in Lists THEN Cardinality(Hits(othersR, Lists)) + 1
            ELSE Cardinality(Hits(othersR, Lists))
      <4>1. /\ othersR \in Seq(RequestSet) /\ Request(op, p) \in RequestSet
            /\ othersR' = Append(othersR, Request(op, p))
        BY <2>1, <2>2, DueTypes
      <4> QED
        BY <4>1, HitsAppend
    <3> QED
      BY <2>2, <3>1, DueTypes DEF DueR
  <2>4. UNCHANGED othersW
    BY <1>4 DEF Join, Exit, SendOthers
  <2>5. Listing' = Listing
    BY <1>4, ListingKept DEF Join, Exit, PostMoves, Awaited, Parts, SessionsTypeOK
  <2> QED
    BY <1>3, <2>3, <2>4, <2>5, DueFewer
<1>5. ASSUME NEW p \in Posts, List(p)
      PROVE  AnswersDue'
  <2>1. othersR' = Append(othersR, Request("LI", p)) /\ UNCHANGED othersW
    BY <1>5 DEF List, SendOthers, Request
  <2>2. Request("LI", p) \in RequestSet /\ Request("LI", p) \in Lists
    BY InLists DEF Request, RequestSet
  <2>3. DueR' = DueR + 1
    <3>1. Cardinality(Hits(othersR', Lists)) =
            IF Request("LI", p) \in Lists THEN Cardinality(Hits(othersR, Lists)) + 1
            ELSE Cardinality(Hits(othersR, Lists))
      <4>1. /\ othersR \in Seq(RequestSet) /\ Request("LI", p) \in RequestSet
            /\ othersR' = Append(othersR, Request("LI", p))
        BY <2>1, <2>2, DueTypes
      <4> QED
        BY <4>1, HitsAppend
    <3> QED
      BY <2>2, <3>1 DEF DueR
  <2>4. Listing' = Listing \cup {p} /\ p \notin Listing
    BY <1>5 DEF List, Listing, PostMoves, Parts, SessionsTypeOK
  <2>5. Cardinality(Listing') = Cardinality(Listing) + 1
    BY <2>4, DueTypes, FS_AddElement
  <2>6. DueR + DueW <= Cardinality(Listing)
    BY DEF AnswersDue, DueR, DueW
  <2>7. DueR' + DueW' <= Cardinality(Listing')
    BY <1>1, <1>3, <2>1, <2>3, <2>5, <2>6, DueTypes
  <2> QED
    BY <2>7 DEF AnswersDue, DueR, DueW
<1>6. ASSUME NEW p \in Posts, ReadPart(p)
      PROVE  AnswersDue'
  <2> DEFINE got == Head(othersW)
  <2>1. /\ othersW # <<>> /\ othersW' = Tail(othersW) /\ UNCHANGED othersR
        /\ post[p] \in Parts /\ got \in ReplyPart
        /\ post' = [post EXCEPT ![p] = IF got.part = post[p] THEN NextPart(got.part, got.last)
                                       ELSE "confused"]
    BY <1>6, DueTypes, TailAt DEF ReadPart
  <2>2. DueW' = IF got \in Lasts THEN DueW - 1 ELSE DueW
    <3>1. Cardinality(Hits(othersW', Lasts)) =
            IF got \in Lasts THEN Cardinality(Hits(othersW, Lasts)) - 1
            ELSE Cardinality(Hits(othersW, Lasts))
      <4>1. othersW \in Seq(ReplyPart) /\ othersW # <<>> /\ othersW' = Tail(othersW)
        BY <2>1, DueTypes
      <4> QED
        BY <4>1, HitsTail
    <3> QED
      BY <3>1 DEF DueW
  <2>3. CASE got \in Lasts
    <3>1. Listing' = Listing \/ Listing' = Listing \ {p}
      BY <2>1 DEF Listing, SessionsTypeOK
    <3>2. Cardinality(Listing') >= Cardinality(Listing) - 1 /\ Cardinality(Listing') \in Nat
      <4>1. /\ IsFiniteSet(Listing \ {p})
            /\ \/ Cardinality(Listing \ {p}) = Cardinality(Listing)
               \/ Cardinality(Listing \ {p}) = Cardinality(Listing) - 1
        BY DueTypes, FS_RemoveElement
      <4>2. Cardinality(Listing \ {p}) \in Nat
        BY <4>1, FS_CardinalityType
      <4>3. Cardinality(Listing \ {p}) >= Cardinality(Listing) - 1
        BY <4>1, <4>2, DueTypes
      <4>4. CASE Listing' = Listing
        BY <4>4, DueTypes
      <4>5. CASE Listing' = Listing \ {p}
        BY <4>2, <4>3, <4>5
      <4> QED
        BY <3>1, <4>4, <4>5
    <3>3. DueR + DueW <= Cardinality(Listing)
      BY DEF AnswersDue, DueR, DueW
    <3>4. DueR' + DueW' <= Cardinality(Listing')
      BY <1>1, <1>2, <2>1, <2>2, <2>3, <3>2, <3>3, DueTypes
    <3> QED
      BY <3>4 DEF AnswersDue, DueR, DueW
  <2>4. CASE got \notin Lasts
    <3>1. NextPart(got.part, got.last) = "prompt" => got \in Lasts
      BY <2>1 DEF NextPart, ReplyPart, Parts, Lasts
    <3>2. post'[p] \in Awaited
      BY <2>1, <2>4, <3>1 DEF NextPart, ReplyPart, Parts, Awaited, SessionsTypeOK
    <3>3. Listing' = Listing
      BY <2>1, <3>2, ListingKept DEF Awaited, SessionsTypeOK
    <3>4. DueW' <= DueW
      BY <2>2, <2>4, DueTypes
    <3> QED
      BY <1>2, <2>1, <3>3, <3>4, DueFewer
  <2> QED
    BY <2>3, <2>4
<1>7. ASSUME NEW p \in Posts, Open(p) \/ ReadEof(p) \/ Close(p) \/ PostFails(p)
      PROVE  AnswersDue'
  <2>1. UNCHANGED othersR /\ (othersW' = othersW \/ othersW' = <<>>)
    BY <1>7 DEF Open, ReadEof, Close, PostFails, Left, fifoVars
  <2>2. Listing' = Listing
    BY <1>7, ListingKept DEF Open, ReadEof, Close, PostFails, PostMoves, Awaited, Parts,
                             SessionsTypeOK
  <2> QED
    BY <1>2, <1>3, <2>1, <2>2, DueFewer
<1>8. ASSUME NEW p \in Posts, KillPost(p)
      PROVE  FALSE
  BY <1>8 DEF KillPost
<1>9. ASSUME OwnerStep \/ Select \/ HandleCR \/ HandleOS \/ HandleES \/ HandleSH \/ HandleGM
      PROVE  AnswersDue'
  <2>1. UNCHANGED <<othersR, othersW, post>>
    BY <1>9, OwnerQuiet, SelfQuiet
  <2> QED
    BY <2>1 DEF AnswersDue, Listing
<1>10. ASSUME HandleOO \/ HandleEO \/ HandleLI
       PROVE  AnswersDue'
  <2>1. /\ othersR # <<>> /\ othersR' = Tail(othersR)
        /\ Head(othersR) \in RequestSet
        /\ post' = post \/ post' = Released
    BY <1>10, DueTypes, TakeTypes, TailAt DEF HandleOO, HandleEO, HandleLI, TakeOthers
  <2>2. DueR' = IF Head(othersR).op = "LI" THEN DueR - 1 ELSE DueR
    BY <2>1, DueTypes, HitsTail, InLists DEF DueR
  <2>3. \/ othersW' = othersW \/ othersW' = <<>>
        \/ /\ Head(othersR).op = "LI"
           /\ \E n \in ListWrites : othersW' = othersW \o Reply(n)
    BY <1>10 DEF HandleOO, HandleEO, HandleLI, TakeOthers, Left
  <2>4. \A n \in ListWrites : othersW' = othersW \o Reply(n) => DueW' = DueW + 1
    BY DueTypes, HitsReply, SessionsAssumption DEF DueW
  <2>5. \/ DueR' <= DueR /\ DueW' <= DueW
        \/ DueR' <= DueR - 1 /\ DueW' <= DueW + 1
    <3>1. DueR' <= DueR /\ (Head(othersR).op = "LI" => DueR' <= DueR - 1)
      BY <1>1, <2>2
    <3>2. DueW' <= DueW \/ (Head(othersR).op = "LI" /\ DueW' <= DueW + 1)
      BY <1>1, <1>3, <2>3, <2>4
    <3> QED
      BY <3>1, <3>2
  <2>6. Listing' = Listing
    BY <2>1, ListingKept DEF Released, Awaited, Parts
  <2> QED
    BY <2>5, <2>6, DueFewer
<1>11. ASSUME Stop
       PROVE  AnswersDue'
  <2>1. othersR' = <<>> /\ (othersW' = othersW \/ othersW' = <<>>) /\ UNCHANGED post
    BY <1>11 DEF Stop, Left, userVars
  <2>2. DueR' = 0
    BY <2>1, NoHits DEF DueR
  <2>3. Listing' = Listing
    BY <2>1, ListingKept
  <2>4. DueR' <= DueR
    BY <2>2, DueTypes
  <2> QED
    BY <1>3, <2>1, <2>3, <2>4, DueFewer
<1> QED
  BY <1>4, <1>5, <1>6, <1>7, <1>8, <1>9, <1>10, <1>11 DEF Next, PostStep, ServerStep

-------------------------------------------------------------------------------
(* The server writes to nobody who has gone *)

LEMMA SelfOpen ==
  ASSUME SessionsTypeOK, PassInv, OwnerInv, HandleES \/ HandleGM
  PROVE  fd1 > 0
<1>1. /\ selfR # <<>> /\ Head(selfR) \in {"ES", "GM"} /\ pc = "loop"
  BY TakeTypes DEF HandleES, HandleGM, TakeSelf
<1>2. 1 \in DOMAIN selfR /\ Head(selfR) = selfR[1] /\ DOMAIN selfR \subseteq Nat \ {0}
  BY <1>1, SelfTypes, TailAt
<1>3. Opens > 0
  BY <1>1, <1>2 DEF OwnerInv, OpenAt
<1> QED
  BY <1>1, <1>3, SelfTypes DEF Opens

\* What the server finds when it takes a list request.
LEMMA ListFound ==
  ASSUME SessionsTypeOK, PassInv, RequestsInv, OpensInv, TakeOthers("LI")
  PROVE  /\ othersR # <<>> /\ othersR' = Tail(othersR) /\ Head(othersR).op = "LI"
         /\ Head(othersR).pid \in members
         /\ fd3
<1>1. othersR # <<>> /\ othersR' = Tail(othersR) /\ Head(othersR).op = "LI" /\ pc = "loop"
  BY TakeTypes DEF TakeOthers
<1>2. /\ 1 \in DOMAIN othersR /\ Head(othersR) = othersR[1]
      /\ \A j \in DOMAIN othersR : ~ (j < 1)
  BY <1>1, RequestTypes, TailAt
<1>3. Head(othersR).pid \in members
  BY <1>1, <1>2 DEF RequestsInv, Before
<1>4. Cardinality(members) > 0 /\ Cardinality(members) = boardpostnum + 0
  BY <1>1, <1>3, MembersFinite DEF OpensInv
<1>5. boardpostnum > 0
  BY <1>4 DEF SessionsTypeOK
<1> QED
  BY <1>1, <1>3, <1>5 DEF OpensInv

LEMMA ListHeard ==
  ASSUME SessionsTypeOK, AnswersDue, kills = 0,
         othersR # <<>>, Head(othersR).op = "LI"
  PROVE  Readers # {}
<1>1. 1 \in DOMAIN othersR /\ Head(othersR) = othersR[1] /\ Head(othersR) \in RequestSet
  BY DueTypes, TailAt
<1>2. 1 \in Hits(othersR, Lists)
  BY <1>1, InLists DEF Hits
<1>3. DueR # 0
  BY <1>2, DueTypes, HitsFinite, FS_EmptySet DEF DueR
<1>4. DueR + DueW <= Cardinality(Listing)
  BY DEF AnswersDue, DueR, DueW
<1>5. Cardinality(Listing) # 0
  BY <1>3, <1>4, DueTypes
<1>6. Listing # {}
  BY <1>5, FS_EmptySet
<1> QED
  BY <1>6 DEF Listing, Readers, Reading

LEMMA PipeStep ==
  ASSUME SessionsTypeOK, PassInv, RequestsInv, Serving => OpensInv /\ OwnerInv,
         QuestionInv, AnswersDue, NoBrokenPipe, Next, kills = 0, kills' = 0
  PROVE  NoBrokenPipe'
<1>1. pc # "dead"
  BY DEF NoBrokenPipe
<1>2. ASSUME NEW p \in Posts, PostStep(p)
      PROVE  pc' # "dead"
  BY <1>1, <1>2 DEF PostStep, Join, Open, List, ReadPart, ReadEof, Exit, Close, PostFails, KillPost,
                SendOthers, OpenOthers, serverVars
<1>3. ASSUME OwnerStep
      PROVE  pc' # "dead"
  BY <1>1, <1>3 DEF OwnerStep, OwnerJoin, OwnerOpen, CreateChannel, GetMessages, ReadReply,
                    OwnerEof, OwnerExit,
                OwnerClose, Shutdown, OwnerFails, KillOwner, OwnerMoves, SendSelf, OpenSelf,
                serverVars
<1>4. ASSUME HandleGM
      PROVE  pc' # "dead"
  <2>1. pc = "loop" /\ Serving
    BY <1>4 DEF HandleGM, TakeSelf, Serving
  <2>2. fd1 > 0 /\ fd1 # 0
    BY <1>4, <2>1, SelfOpen
  <2>3. OwnerReads
    BY <1>4, QuestionStep DEF OwnerReads
  <2> QED
    BY <1>4, <2>1, <2>2, <2>3 DEF HandleGM
<1>5. ASSUME HandleLI
      PROVE  pc' # "dead"
  <2>1. pc = "loop" /\ Serving /\ TakeOthers("LI")
    BY <1>5 DEF HandleLI, TakeOthers, Serving
  <2>2. fd3 /\ othersR # <<>> /\ Head(othersR).op = "LI"
    BY <2>1, ListFound
  <2>3. Readers # {}
    BY <2>2, ListHeard
  <2> QED
    BY <1>5, <2>1, <2>2, <2>3 DEF HandleLI
<1>6. ASSUME Select \/ HandleCR \/ HandleOS \/ HandleES \/ HandleSH \/ HandleOO \/ HandleEO \/ Stop
      PROVE  pc' # "dead"
  BY <1>6 DEF Select, HandleCR, HandleOS, HandleES, HandleSH, HandleOO, HandleEO, Stop, TakeSelf,
              TakeOthers, OpenSelf, OpenOthers
<1>7. pc' # "dead"
  BY <1>2, <1>3, <1>4, <1>5, <1>6 DEF Next, ServerStep
<1> QED
  BY <1>7 DEF NoBrokenPipe

-------------------------------------------------------------------------------
(* A boardpost alone with its list *)

\* Steps that leave the list, its request and its answer alone: the requests move
\* up by d places.
LEMMA AloneKept ==
  ASSUME SessionsTypeOK, AloneParts, UNCHANGED othersW, Serving' => Serving,
         \A p \in Posts : post'[p] \in Parts \/ post[p] \in Parts => post'[p] = post[p],
         \A p \in Posts : /\ post'[p] # "confused"
                          /\ post'[p] = "eof" => post[p] = "eof" \/ ~ Serving',
         \A p \in Asking : Serving' /\ p \in members => p \in members',
         NEW d \in {0, 1},
         \A i \in DOMAIN othersR' : i \in Nat /\ (othersR'[i].op = "LI" =>
                                      i + d \in DOMAIN othersR /\ othersR[i + d] = othersR'[i]),
         Serving' => \A i \in DOMAIN othersR : othersR[i].op = "LI" =>
                       \E j \in DOMAIN othersR' : othersR'[j].op = "LI"
  PROVE  AloneParts'
<1>1. Asking' = Asking
  BY DEF Asking
<1>2. \A p, q \in Asking' : p = q
  BY <1>1 DEF AloneParts
<1>3. \A p \in Posts : post'[p] # "confused" /\ (post'[p] = "eof" => ~ Serving')
  BY DEF AloneParts
<1>4. ASSUME NEW i \in DOMAIN othersR', othersR'[i].op = "LI"
      PROVE  /\ post'[othersR'[i].pid] = "size" /\ othersW' = <<>>
             /\ \A j \in DOMAIN othersR' : othersR'[j].op = "LI" => j = i
  <2>1. i \in Nat /\ i + d \in DOMAIN othersR /\ othersR[i + d] = othersR'[i]
    BY <1>4
  <2>2. /\ post[othersR'[i].pid] = "size" /\ othersW = <<>>
        /\ \A j \in DOMAIN othersR : othersR[j].op = "LI" => j = i + d
    BY <1>4, <2>1 DEF AloneParts
  <2>3. othersR'[i].pid \in Posts
    BY <2>1, RequestTypes
  <2>4. \A j \in DOMAIN othersR' : othersR'[j].op = "LI" => j = i
    <3>1. \A j \in DOMAIN othersR' : othersR'[j].op = "LI" => j \in Nat /\ j + d = i + d
      BY <2>2
    <3> QED
      BY <2>1, <3>1
  <2> QED
    BY <2>2, <2>3, <2>4 DEF Parts
<1>5. Asking' = {} => othersW' = <<>>
  BY <1>1 DEF AloneParts
<1>6. InFrame'
  BY DEF AloneParts, InFrame
<1>7. ASSUME NEW p \in Asking'
      PROVE  /\ Serving' => p \in members'
             /\ othersW' # <<>> => othersW'[1].part = post'[p]
             /\ othersW' = <<>> =>
                  /\ post'[p] = "size"
                  /\ Serving' => \E i \in DOMAIN othersR' : othersR'[i].op = "LI"
  <2>1. p \in Asking /\ post'[p] = post[p]
    BY <1>1, <1>7 DEF Asking
  <2>2. /\ Serving => p \in members
        /\ othersW # <<>> => othersW[1].part = post[p]
        /\ othersW = <<>> =>
             /\ post[p] = "size"
             /\ Serving => \E i \in DOMAIN othersR : othersR[i].op = "LI"
    BY <2>1 DEF AloneParts
  <2> QED
    BY <2>1, <2>2
<1> QED
  BY <1>2, <1>3, <1>4, <1>5, <1>6, <1>7 DEF AloneParts

\* What is left in the fifo stays there as long as somebody reads a list.
LEMMA LeftAlone ==
  ASSUME AloneParts, NEW readers, NEW writer,
         Asking # {} => readers
  PROVE  Left(othersW, readers, writer) = othersW
<1> QED
  BY DEF AloneParts, Left

LEMMA ReplyFrame ==
  ASSUME NEW n \in Nat \ {0}
  PROVE  \A i \in DOMAIN Reply(n) :
           NextPart(Reply(n)[i].part, Reply(n)[i].last) =
             IF i = Len(Reply(n)) THEN "prompt" ELSE Reply(n)[i + 1].part
<1>1. DOMAIN Reply(n) = 1 .. 3 * n /\ Len(Reply(n)) = 3 * n
  BY ReplyShape
<1>2. ASSUME NEW i \in 1 .. 3 * n
      PROVE  NextPart(Reply(n)[i].part, Reply(n)[i].last) =
               IF i = 3 * n THEN "prompt" ELSE Reply(n)[i + 1].part
  <2>1. (i - 1) % 3 \in {0, 1, 2}
    OBVIOUS
  <2>2. CASE (i - 1) % 3 = 0
    <3>1. i + 1 \in 1 .. 3 * n /\ i # 3 * n /\ ((i + 1) - 1) % 3 = 1
      BY <2>2
    <3> QED
      BY <2>2, <3>1, ReplyShape DEF NextPart
  <2>3. CASE (i - 1) % 3 = 1
    <3>1. i + 1 \in 1 .. 3 * n /\ i # 3 * n /\ ((i + 1) - 1) % 3 = 2
      BY <2>3
    <3> QED
      BY <2>3, <3>1, ReplyShape DEF NextPart
  <2>4. CASE (i - 1) % 3 = 2
    <3>1. CASE i = 3 * n
      <4>1. Reply(n)[i].last = TRUE /\ Reply(n)[i].part = "text"
        <5>1. Reply(n)[i].last = (i > 3 * (n - 1)) /\ Reply(n)[i].part = "text"
          BY <2>4, ReplyShape
        <5>2. i > 3 * (n - 1)
          BY <3>1
        <5> QED
          BY <5>1, <5>2
      <4> QED
        BY <3>1, <4>1 DEF NextPart
    <3>2. CASE i # 3 * n
      <4>1. i + 1 \in 1 .. 3 * n /\ ((i + 1) - 1) % 3 = 0 /\ ~ (i > 3 * (n - 1))
        BY <2>4, <3>2
      <4>2. ~ Reply(n)[i].last /\ Reply(n)[i].part = "text"
        <5>1. Reply(n)[i].last = (i > 3 * (n - 1)) /\ Reply(n)[i].part = "text"
          BY <2>4, ReplyShape
        <5>2. ~ (i > 3 * (n - 1))
          BY <4>1
        <5> QED
          BY <5>1, <5>2
      <4> QED
        BY <3>2, <4>1, <4>2, ReplyShape DEF NextPart
    <3> QED
      BY <3>1, <3>2
  <2> QED
    BY <2>1, <2>2, <2>3, <2>4
<1> QED
  BY <1>1, <1>2

LEMMA CalmBefore ==
  ASSUME SessionsTypeOK, Next, Calm'
  PROVE  Calm
<1>1. kills = 0
  BY OnlyEnds DEF Calm
<1>2. ASSUME NEW p \in Posts, List(p)
      PROVE  (hasty => hasty') /\ (overlapped => overlapped')
  <2>1. hasty' = (hasty \/ ~ ~ Pending(p))
    BY <1>2 DEF List, AfterSleep
  <2>2. overlapped' = (overlapped \/ \E q \in Posts \ {p} : post[q] \in Parts)
    BY <1>2 DEF List
  <2>3. hasty => hasty'
    BY <2>1
  <2>4. overlapped => overlapped'
    BY <2>2
  <2> QED
    BY <2>3, <2>4
<1>3. ASSUME NEW p \in Posts, Exit(p)
      PROVE  (hasty => hasty') /\ UNCHANGED overlapped
  <2>1. hasty' = (hasty \/ ~ ~ Pending(p)) /\ UNCHANGED overlapped
    BY <1>3 DEF Exit, AfterSleep
  <2> QED
    BY <2>1
<1>4. ASSUME NEW p \in Posts, PostStep(p), ~ List(p), ~ Exit(p)
      PROVE  UNCHANGED <<hasty, overlapped>>
  BY <1>4 DEF PostStep, Join, Open, ReadPart, ReadEof, Close, PostFails, KillPost
<1>5. ASSUME OwnerOpen
      PROVE  (hasty => hasty') /\ UNCHANGED overlapped
  <2>1. hasty' = (hasty \/ ~ (Len(selfR) <= 1))
    BY <1>5 DEF OwnerOpen, AfterSleep
  <2>2. UNCHANGED overlapped
    BY <1>5 DEF OwnerOpen, OwnerMoves
  <2>3. hasty => hasty'
    BY <2>1
  <2> QED
    BY <2>2, <2>3
<1>6. ASSUME OwnerStep, ~ OwnerOpen
      PROVE  UNCHANGED <<hasty, overlapped>>
  BY <1>6 DEF OwnerStep, OwnerJoin, CreateChannel, GetMessages, ReadReply, OwnerEof, OwnerExit,
              OwnerClose, Shutdown, OwnerFails, KillOwner, OwnerMoves
<1>7. ASSUME ServerStep
      PROVE  UNCHANGED <<hasty, overlapped>>
  BY <1>7 DEF ServerStep, Select, HandleCR, HandleOS, HandleES, HandleSH, HandleGM, HandleOO,
              HandleEO,
              HandleLI, Stop, TakeSelf, TakeOthers, userVars
<1>8. (UNCHANGED hasty \/ (hasty => hasty')) /\ (UNCHANGED overlapped \/ (overlapped => overlapped'))
  BY <1>2, <1>3, <1>4, <1>5, <1>6, <1>7 DEF Next
<1> QED
  BY <1>1, <1>8 DEF Calm

\* A boardpost reads the next part of its answer.
LEMMA AloneRead ==
  ASSUME SessionsTypeOK, AloneParts, NEW p \in Posts, ReadPart(p)
  PROVE  AloneParts'
<1> DEFINE got == Head(othersW)
<1>1. /\ othersW # <<>> /\ othersW' = Tail(othersW) /\ UNCHANGED <<othersR, pc, members>>
      /\ post[p] \in Parts /\ Serving' = Serving
  BY DEF ReadPart, serverVars, Serving
<1>2. /\ othersW \in Seq(ReplyPart) /\ Len(othersW) \in Nat /\ Len(othersW') = Len(othersW) - 1
      /\ DOMAIN othersW = 1 .. Len(othersW) /\ DOMAIN othersW' = 1 .. Len(othersW) - 1
      /\ 1 \in DOMAIN othersW /\ got = othersW[1] /\ got \in ReplyPart
      /\ \A i \in DOMAIN othersW' : /\ i \in Nat /\ i + 1 \in DOMAIN othersW
                                    /\ othersW'[i] = othersW[i + 1]
  BY <1>1, DueTypes, TailAt
<1>3. p \in Asking /\ \A q \in Asking : q = p
  BY <1>1 DEF Asking, AloneParts
<1>4. got.part = post[p]
  BY <1>1, <1>2, <1>3 DEF AloneParts
<1> DEFINE next == NextPart(got.part, got.last)
<1>5. post' = [post EXCEPT ![p] = next]
  BY <1>4 DEF ReadPart
<1>6. next = IF 1 = Len(othersW) THEN "prompt" ELSE othersW[2].part
  BY <1>2 DEF AloneParts, InFrame
<1> HIDE DEF next
<1>7. Len(othersW) # 1 =>
        /\ othersW' # <<>> /\ othersW'[1].part = next /\ next \in Parts
  <2>1. ASSUME Len(othersW) # 1
        PROVE  1 \in DOMAIN othersW' /\ 2 \in DOMAIN othersW
    BY <1>2, <2>1
  <2>2. Len(othersW) # 1 => othersW[2] \in ReplyPart
    BY <1>2, <2>1, ElementOfSeq
  <2>3. ASSUME Len(othersW) # 1
        PROVE  othersW' # <<>>
    BY <2>1, <2>3
  <2>4. ASSUME Len(othersW) # 1
        PROVE  othersW'[1].part = next /\ next \in Parts
    <3>1. othersW'[1] = othersW[2]
      BY <1>2, <2>1, <2>4
    <3> QED
      BY <1>6, <2>2, <2>4, <3>1 DEF ReplyPart
  <2> QED
    BY <2>3, <2>4
<1>8. Len(othersW) = 1 => othersW' = <<>> /\ next = "prompt"
  <2>1. Len(othersW) = 1 => Len(othersW') = 0 /\ othersW' \in Seq(ReplyPart)
    BY <1>1, <1>2, TailAt
  <2> QED
    BY <1>6, <2>1, EmptySeq
<1>9. post'[p] = next /\ \A q \in Posts : q # p => post'[q] = post[q]
  BY <1>5 DEF SessionsTypeOK
<1>10. Asking' \subseteq {p} /\ (Asking' = {} => othersW' = <<>>) /\ (othersW' = <<>> => Asking' = {})
  <2>1. \A q \in Posts : q # p => q \notin Asking'
    BY <1>3, <1>9 DEF Asking
  <2>2. p \in Asking' <=> Len(othersW) # 1
    BY <1>7, <1>8, <1>9 DEF Asking, Parts
  <2> QED
    BY <1>7, <1>8, <2>1, <2>2 DEF Asking
<1>11. \A i \in DOMAIN othersR' : othersR'[i].op # "LI"
  BY <1>1 DEF AloneParts
<1>12. \A q \in Posts : post'[q] # "confused" /\ (post'[q] = "eof" => ~ Serving')
  <2>1. next # "confused" /\ next # "eof"
    BY <1>7, <1>8 DEF Parts
  <2> QED
    BY <1>1, <1>9, <2>1 DEF AloneParts
<1>13. InFrame'
  <2>1. ASSUME NEW i \in DOMAIN othersW'
        PROVE  NextPart(othersW'[i].part, othersW'[i].last) =
                 IF i = Len(othersW') THEN "prompt" ELSE othersW'[i + 1].part
    <3>1. /\ i + 1 \in DOMAIN othersW /\ othersW'[i] = othersW[i + 1] /\ i \in Nat
          /\ i = Len(othersW') <=> i + 1 = Len(othersW)
          /\ i # Len(othersW') => othersW'[i + 1] = othersW[(i + 1) + 1]
      BY <1>2, <2>1
    <3>2. NextPart(othersW[i + 1].part, othersW[i + 1].last) =
            IF i + 1 = Len(othersW) THEN "prompt" ELSE othersW[(i + 1) + 1].part
      BY <3>1 DEF AloneParts, InFrame
    <3> QED
      BY <3>1, <3>2
  <2> QED
    BY <2>1 DEF InFrame
<1>14. ASSUME NEW q \in Asking'
       PROVE  /\ Serving' => q \in members'
              /\ othersW'[1].part = post'[q]
              /\ othersW' # <<>>
  <2>1. q = p /\ othersW' # <<>> /\ Len(othersW) # 1
    BY <1>8, <1>10, <1>14
  <2> QED
    BY <1>1, <1>3, <1>7, <1>9, <2>1 DEF AloneParts
<1> QED
  BY <1>10, <1>11, <1>12, <1>13, <1>14 DEF AloneParts

\* A boardpost alone asks for its list.
LEMMA AloneAsks ==
  ASSUME SessionsTypeOK, AloneParts, MembersInv, NEW p \in Posts, List(p), Calm'
  PROVE  AloneParts'
<1>1. /\ post[p] = "prompt" /\ post'[p] = "size" /\ \A q \in Posts : q # p => post'[q] = post[q]
      /\ Serving' = Serving /\ UNCHANGED <<othersW, members>>
      /\ othersR' = Append(othersR, Request("LI", p))
  BY DEF List, PostMoves, SendOthers, serverVars, Serving, SessionsTypeOK, Request
\* Nobody else reads a list.
<1>2. Asking = {}
  <2>1. overlapped' = (overlapped \/ \E q \in Posts \ {p} : post[q] \in Parts)
    BY DEF List
  <2>2. ~ \E q \in Posts \ {p} : post[q] \in Parts
    BY <2>1 DEF Calm
  <2> QED
    BY <1>1, <2>2 DEF Asking, Parts
<1>3. othersW = <<>>
  BY <1>2 DEF AloneParts
<1>4. Asking' = {p}
  BY <1>1, <1>2 DEF Asking, Parts
\* It has slept long enough to be a member.
<1>5. p \in members
  <2>1. hasty' = (hasty \/ ~ ~ Pending(p))
    BY DEF List, AfterSleep
  <2>2. ~ Pending(p)
    BY <2>1 DEF Calm
  <2>3. \A j \in DOMAIN othersR : othersR[j] # Request("OO", p)
    BY <2>2 DEF Pending, Range, Request
  <2> QED
    BY <1>1, <2>3 DEF MembersInv, Present, Reading
<1>6. \A i \in DOMAIN othersR : othersR[i].op # "LI"
  <2>1. ASSUME NEW i \in DOMAIN othersR, othersR[i].op = "LI"
        PROVE  FALSE
    <3>1. post[othersR[i].pid] = "size" /\ othersR[i].pid \in Posts
      BY <2>1, RequestTypes DEF AloneParts
    <3> QED
      BY <1>2, <3>1 DEF Asking, Parts
  <2> QED
    BY <2>1
<1>7. /\ \A i \in DOMAIN othersR : i \in DOMAIN othersR' /\ othersR'[i] = othersR[i]
      /\ othersR'[Len(othersR) + 1] = Request("LI", p)
      /\ Len(othersR) + 1 \in DOMAIN othersR'
      /\ \A i \in DOMAIN othersR' : i \in DOMAIN othersR \/ i = Len(othersR) + 1
  <2>1. othersR \in Seq(RequestSet) /\ Request("LI", p) \in RequestSet
    BY RequestTypes DEF RequestSet, Request
  <2> QED
    BY <1>1, <2>1, AppendAt
<1>8. \A i \in DOMAIN othersR' : othersR'[i].op = "LI" =>
        /\ post'[othersR'[i].pid] = "size" /\ othersW' = <<>>
        /\ \A j \in DOMAIN othersR' : othersR'[j].op = "LI" => j = i
  BY <1>1, <1>3, <1>6, <1>7 DEF Request
<1>9. \A q \in Posts : post'[q] # "confused" /\ (post'[q] = "eof" => ~ Serving')
  BY <1>1 DEF AloneParts
<1>10. InFrame'
  BY <1>1 DEF AloneParts, InFrame
<1>11. \E i \in DOMAIN othersR' : othersR'[i].op = "LI"
  BY <1>7 DEF Request
<1> QED
  BY <1>1, <1>3, <1>4, <1>5, <1>8, <1>9, <1>10, <1>11 DEF AloneParts

\* The server answers the only list.
LEMMA AloneAnswered ==
  ASSUME SessionsTypeOK, PassInv, RequestsInv, OpensInv, AloneParts, HandleLI, pc' # "dead"
  PROVE  AloneParts'
<1> DEFINE r == Head(othersR)
<1>1. /\ UNCHANGED <<post, members>> /\ Serving' = Serving
      /\ \E n \in ListWrites : othersW' = othersW \o Reply(n)
  BY DEF HandleLI, Die, Serving
<1>2. othersR # <<>> /\ othersR' = Tail(othersR) /\ r.op = "LI" /\ r.pid \in members
  BY ListFound DEF HandleLI
<1>3. /\ 1 \in DOMAIN othersR /\ r = othersR[1] /\ r.pid \in Posts
      /\ \A i \in DOMAIN othersR' : /\ i + 1 \in DOMAIN othersR /\ 1 < i + 1
                                    /\ othersR'[i] = othersR[i + 1]
  BY <1>2, RequestTypes, TailAt
<1>4. /\ post[r.pid] = "size" /\ othersW = <<>>
      /\ \A j \in DOMAIN othersR : othersR[j].op = "LI" => j = 1
  BY <1>2, <1>3 DEF AloneParts
<1>5. Asking' = {r.pid}
  BY <1>1, <1>3, <1>4 DEF Asking, AloneParts, Parts
<1>6. PICK n \in ListWrites : othersW' = Reply(n)
  <2>1. \A n \in ListWrites : othersW \o Reply(n) = Reply(n)
    BY <1>4, ReplyShape, ConcatEmptySeq, SessionsAssumption
  <2> QED
    BY <1>1, <2>1
<1>7. n \in Nat \ {0}
  BY SessionsAssumption
<1>8. othersW' # <<>> /\ othersW'[1].part = "size"
  <2>1. Len(Reply(n)) = 3 * n /\ Reply(n)[1].part = "size" /\ 3 * n # 0
    BY <1>7, ReplyShape
  <2> QED
    BY <1>6, <2>1
<1>9. InFrame'
  BY <1>6, <1>7, ReplyFrame DEF InFrame
<1>10. \A i \in DOMAIN othersR' : othersR'[i].op # "LI"
  BY <1>3, <1>4
<1>11. \A q \in Posts : post'[q] # "confused" /\ (post'[q] = "eof" => ~ Serving')
  BY <1>1 DEF AloneParts
<1> QED
  BY <1>1, <1>2, <1>4, <1>5, <1>8, <1>9, <1>10, <1>11 DEF AloneParts

\* Someone who reads a list reads.
LEMMA AskersRead ==
  ASSUME NEW p \in Asking
  PROVE  p \in Posts /\ p \in Readers /\ post[p] \in Parts
<1> QED
  BY DEF Asking, Readers, Reading

\* Other steps of boardposts.
LEMMA AlonePost ==
  ASSUME SessionsTypeOK, RequestsInv, AloneParts, NoBrokenPipe, PassInv,
         Serving => OpensInv, kills = 0, kills' = 0,
         NEW p \in Posts, PostStep(p), ~ List(p), ~ ReadPart(p)
  PROVE  AloneParts'
<1>1. \A q \in Posts : q # p => post'[q] = post[q]
  BY DEF PostStep, Join, Open, ReadEof, Exit, Close, PostFails, KillPost, PostMoves, SessionsTypeOK
<1>2. Serving' = Serving /\ UNCHANGED members
  BY DEF PostStep, Join, Open, ReadEof, Exit, Close, PostFails, KillPost,
         SendOthers, OpenOthers, serverVars, Serving
<1>3. ~ KillPost(p)
  BY DEF KillPost
<1>4. CASE Join(p) \/ Exit(p)
  <2>1. PICK op \in {"OO", "EO"} : othersR' = Append(othersR, Request(op, p))
    BY <1>4 DEF Join, Exit, SendOthers, Request
  <2>2. UNCHANGED othersW
    BY <1>4 DEF Join, Exit, SendOthers
  <2>3. post[p] \in {"new", "prompt"} /\ post'[p] \in {"joined", "leaving"}
    BY <1>4 DEF Join, Exit, PostMoves, SessionsTypeOK
  <2>4. /\ \A i \in DOMAIN othersR : i \in DOMAIN othersR' /\ othersR'[i] = othersR[i]
        /\ othersR'[Len(othersR) + 1] = Request(op, p)
        /\ \A i \in DOMAIN othersR' : i \in DOMAIN othersR \/ i = Len(othersR) + 1
        /\ DOMAIN othersR \subseteq Nat /\ Len(othersR) \in Nat
    <3>1. othersR \in Seq(RequestSet) /\ Request(op, p) \in RequestSet
      BY RequestTypes DEF RequestSet, Request
    <3> QED
      BY <2>1, <3>1, AppendAt
  <2>5. \A i \in DOMAIN othersR' : i \in Nat /\ (othersR'[i].op = "LI" =>
          i + 0 \in DOMAIN othersR /\ othersR[i + 0] = othersR'[i])
    <3>1. ASSUME NEW i \in DOMAIN othersR', othersR'[i].op = "LI"
          PROVE  i \in DOMAIN othersR
      BY <2>4, <3>1 DEF Request
    <3> QED
      BY <2>4, <3>1
  <2>6. \A q \in Posts : post'[q] \in Parts \/ post[q] \in Parts => post'[q] = post[q]
    BY <1>1, <2>3 DEF Parts
  <2>7. \A q \in Posts : /\ post'[q] # "confused"
                         /\ post'[q] = "eof" => post[q] = "eof" \/ ~ Serving'
    BY <1>1, <2>3 DEF AloneParts
  <2> QED
    BY <1>2, <2>2, <2>4, <2>5, <2>6, <2>7, AloneKept
<1>5. CASE Open(p) \/ Close(p) \/ PostFails(p)
  <2>1. /\ post[p] \in {"joined", "leaving", "prompt"}
        /\ post'[p] \in {"opening", "prompt", "left", "gone"}
    BY <1>5 DEF Open, Close, PostFails, PostMoves, SessionsTypeOK
  <2>2. UNCHANGED othersR
    BY <1>5 DEF Open, Close, PostFails, fifoVars
  <2>3. Asking # {} => Readers \ {p} # {}
    BY <2>1, AskersRead DEF Parts
  <2>4. UNCHANGED othersW
    BY <1>5, <2>3, LeftAlone DEF Open, Close, PostFails, fifoVars
  <2>5. \A i \in DOMAIN othersR' : i \in Nat /\ (othersR'[i].op = "LI" =>
          i + 0 \in DOMAIN othersR /\ othersR[i + 0] = othersR'[i])
    BY <2>2, RequestTypes
  <2>6. \A q \in Posts : post'[q] \in Parts \/ post[q] \in Parts => post'[q] = post[q]
    BY <1>1, <2>1 DEF Parts
  <2>7. \A q \in Posts : /\ post'[q] # "confused"
                         /\ post'[q] = "eof" => post[q] = "eof" \/ ~ Serving'
    BY <1>1, <2>1 DEF AloneParts
  <2> QED
    BY <1>2, <2>2, <2>4, <2>5, <2>6, <2>7, AloneKept
<1>6. CASE ReadEof(p)
  <2>1. /\ post[p] \in Parts /\ othersW = <<>> /\ ~ fd3 /\ post'[p] = "eof"
        /\ UNCHANGED <<othersR, othersW>>
    BY <1>6 DEF ReadEof, fifoVars, SessionsTypeOK
  <2>2. p \in Asking /\ \A q \in Asking : q = p
    BY <2>1 DEF Asking, AloneParts
  \* As long as the server runs the fifo is open for the one who asked.
  <2>3. ~ Serving
    <3>1. ASSUME Serving
          PROVE  FALSE
      <4>1. p \in members /\ OpensInv
        BY <2>2, <3>1 DEF AloneParts
      <4>2. Cardinality(members) > 0
        BY <4>1, MembersFinite
      <4>3. pc # "openOthers"
        BY <2>2, <4>1, AskersRead DEF OpensInv
      <4>4. boardpostnum > 0
        BY <4>1, <4>2, <4>3 DEF OpensInv, SessionsTypeOK
      <4> QED
        BY <2>1, <4>1, <4>4 DEF OpensInv
    <3> QED
      BY <3>1
  <2>4. othersR = <<>>
    BY <2>3 DEF Serving, NoBrokenPipe, PassInv
  <2>5. Asking' = {}
    BY <1>1, <2>1, <2>2 DEF Asking, Parts
  <2>6. \A q \in Posts : post'[q] # "confused"
    BY <1>1, <2>1 DEF AloneParts
  <2> QED
    BY <1>2, <2>1, <2>3, <2>4, <2>5, <2>6 DEF AloneParts, InFrame
<1> QED
  BY <1>3, <1>4, <1>5, <1>6 DEF PostStep

\* Other steps of the server.
LEMMA AloneServer ==
  ASSUME SessionsTypeOK, PassInv, RequestsInv, AloneParts, ServerStep, ~ HandleLI, pc' # "dead"
  PROVE  AloneParts'
<1>1. CASE HandleOO \/ HandleEO
  <2> DEFINE r == Head(othersR)
  <2>1. /\ othersR # <<>> /\ othersR' = Tail(othersR) /\ r.op \in {"OO", "EO"}
        /\ Serving' = Serving
    BY <1>1, TakeTypes DEF HandleOO, HandleEO, TakeOthers, OpenOthers, Serving
  <2>2. /\ 1 \in DOMAIN othersR /\ r = othersR[1] /\ r.pid \in Posts
        /\ \A i \in DOMAIN othersR' : /\ i \in Nat /\ i + 1 \in DOMAIN othersR /\ 1 < i + 1
                                      /\ othersR'[i] = othersR[i + 1]
        /\ \A i \in DOMAIN othersR :
             i = 1 \/ (i - 1 \in DOMAIN othersR' /\ othersR'[i - 1] = othersR[i])
    BY <2>1, RequestTypes, TailAt
  <2>3. r.op = "EO" => r.pid \notin Asking
    BY <2>2 DEF RequestsInv, Asking, Gone, Parts
  <2>4. members' = members \cup {r.pid} \/ (members' = members \ {r.pid} /\ r.op = "EO")
    BY <1>1 DEF HandleOO, HandleEO, TakeOthers
  <2>5. \A p \in Asking : p \in members => p \in members'
    BY <2>3, <2>4
  <2>6. post' = post \/ post' = Released
    BY <1>1 DEF HandleOO, HandleEO
  <2>7. \A q \in Posts : /\ post'[q] \in Parts \/ post[q] \in Parts => post'[q] = post[q]
                         /\ post'[q] # "confused"
                         /\ post'[q] = "eof" => post[q] = "eof" \/ ~ Serving'
    BY <2>6 DEF Released, Parts, AloneParts
  <2>8. UNCHANGED othersW
    <3>1. Asking # {} => Readers # {}
      BY AskersRead
    <3> QED
      BY <1>1, <3>1, LeftAlone DEF HandleOO, HandleEO
  <2>9. \A i \in DOMAIN othersR : othersR[i].op = "LI" =>
          \E j \in DOMAIN othersR' : othersR'[j].op = "LI"
    BY <2>1, <2>2
  <2> QED
    BY <2>1, <2>2, <2>5, <2>7, <2>8, <2>9, AloneKept
<1>2. CASE Stop
  <2>1. /\ othersR' = <<>> /\ UNCHANGED post /\ ~ Serving'
    BY <1>2 DEF Stop, userVars, Serving
  <2>2. UNCHANGED othersW
    <3>1. Asking # {} => Readers # {}
      BY AskersRead
    <3> QED
      BY <1>2, <3>1, LeftAlone DEF Stop
  <2> QED
    BY <2>1, <2>2 DEF AloneParts, Asking, InFrame
<1>3. CASE Select \/ HandleCR \/ HandleOS \/ HandleES \/ HandleSH \/ HandleGM
  <2>1. Serving' = Serving
    BY <1>3 DEF Select, HandleCR, HandleOS, HandleES, HandleSH, HandleGM, TakeSelf, OpenSelf, Die,
                Serving
  <2>2. UNCHANGED <<othersR, othersW, members, post>>
    BY <1>3, SelfQuiet
  <2> QED
    BY <2>1, <2>2 DEF AloneParts, Asking, InFrame
<1> QED
  BY <1>1, <1>2, <1>3 DEF ServerStep

LEMMA AloneStep ==
  ASSUME SessionsTypeOK, PassInv, RequestsInv, Serving => MembersInv /\ OpensInv,
         NoBrokenPipe, NoBrokenPipe', AloneInv, Next
  PROVE  AloneInv'
<1> SUFFICES ASSUME Calm'
             PROVE  AloneParts'
  BY DEF AloneInv
<1>1. AloneParts /\ kills = 0 /\ kills' = 0 /\ pc' # "dead"
  BY CalmBefore DEF AloneInv, Calm, NoBrokenPipe
<1>2. ASSUME NEW p \in Posts, PostStep(p)
      PROVE  AloneParts'
  <2>1. List(p) => Serving
    BY DEF List, SendOthers
  <2> QED
    BY <1>1, <1>2, <2>1, AloneAsks, AloneRead, AlonePost
<1>3. ASSUME OwnerStep
      PROVE  AloneParts'
  <2>1. Serving' = Serving
    BY <1>3 DEF OwnerStep, OwnerJoin, OwnerOpen, CreateChannel, GetMessages, ReadReply, OwnerEof,
                OwnerExit,
                OwnerClose, Shutdown, OwnerFails, KillOwner, SendSelf, OpenSelf, serverVars, Serving
  <2> QED
    BY <1>1, <1>3, <2>1, OwnerQuiet DEF AloneParts, Asking, InFrame
<1>4. ASSUME HandleLI
      PROVE  AloneParts'
  <2>1. Serving
    BY <1>4 DEF HandleLI, TakeOthers, Serving
  <2> QED
    BY <1>1, <1>4, <2>1, AloneAnswered
<1>5. ASSUME ServerStep, ~ HandleLI
      PROVE  AloneParts'
  BY <1>1, <1>5, AloneServer
<1> QED
  BY <1>2, <1>3, <1>4, <1>5 DEF Next, ServerStep

-------------------------------------------------------------------------------
(* The theorems *)

LEMMA SessionsInit == Init => SInv
<1> SUFFICES ASSUME Init
             PROVE  SInv
  OBVIOUS
<1> USE DEF Init
<1>1. DOMAIN selfR = {} /\ DOMAIN othersR = {} /\ DOMAIN othersW = {} /\ Len(selfR) = 0
  OBVIOUS
<1>2. SessionsTypeOK
  <2>1. /\ selfR \in Seq({"OS", "ES", "CR", "GM", "SH"})
        /\ othersR \in Seq([op : {"OO", "EO", "LI"}, pid : Posts])
        /\ othersW \in Seq([part : Parts, last : BOOLEAN])
    BY EmptySeq
  <2>2. kills \in 0 .. MaxKills
    BY SessionsAssumption
  <2> QED
    BY <2>1, <2>2 DEF SessionsTypeOK
<1>3. PassInv /\ RequestsInv
  BY <1>1 DEF PassInv, RequestsInv
<1>4. MembersInv
  BY DEF MembersInv, Present, Reading, Parts
<1>5. OpensInv
  BY FS_EmptySet DEF OpensInv
<1>6. OwnerInv
  BY <1>1 DEF OwnerInv
<1>7. NoBrokenPipe /\ QuestionInv
  BY <1>1 DEF NoBrokenPipe, QuestionInv
<1>8. AnswersDue
  <2>1. DueR = 0 /\ DueW = 0
    BY NoHits DEF DueR, DueW
  <2>2. Cardinality(Listing) \in Nat
    BY <1>2, DueTypes
  <2> QED
    BY <2>1, <2>2 DEF AnswersDue, DueR, DueW
<1>9. AloneInv
  <2>1. Asking = {}
    BY DEF Asking, Parts
  <2> QED
    BY <1>1, <2>1 DEF AloneInv, AloneParts, InFrame
<1> QED
  BY <1>2, <1>3, <1>4, <1>5, <1>6, <1>7, <1>8, <1>9 DEF SInv

LEMMA SessionsStep == SInv /\ [Next]_vars => SInv'
<1> SUFFICES ASSUME SInv, [Next]_vars
             PROVE  SInv'
  OBVIOUS
<1>1. CASE UNCHANGED vars
  <2>1. UNCHANGED <<selfR, othersR, selfW, othersW>>
    BY <1>1 DEF vars, fifoVars
  <2>2. UNCHANGED <<pc, state, pass, boardpostnum, fd1, fd3, members>>
    BY <1>1 DEF vars, serverVars
  <2>3. UNCHANGED <<post, owner, sessions, overlapped, hasty, kills>>
    BY <1>1 DEF vars, userVars
  <2>4. SessionsTypeOK' /\ PassInv' /\ RequestsInv' /\ NoBrokenPipe' /\ QuestionInv'
    BY <2>1, <2>2, <2>3 DEF SInv, SessionsTypeOK, PassInv, RequestsInv, Before, NoBrokenPipe,
                            QuestionInv
  <2>5. Serving' => MembersInv' /\ OpensInv' /\ OwnerInv'
    BY <2>1, <2>2, <2>3 DEF SInv, Serving, MembersInv, OpensInv, Readers, OwnerInv, OpenAt, Opens
  <2>6. AnswersDue' /\ AloneInv'
    BY <2>1, <2>2, <2>3 DEF SInv, AnswersDue, Listing, AloneInv, Calm, AloneParts, Asking, InFrame,
                            Serving
  <2> QED
    BY <2>4, <2>5, <2>6 DEF SInv
<1>2. CASE Next
  <2>1. /\ SessionsTypeOK /\ PassInv /\ RequestsInv /\ NoBrokenPipe /\ QuestionInv
        /\ Serving => MembersInv /\ OpensInv /\ OwnerInv
        /\ AnswersDue /\ AloneInv
    BY DEF SInv
  <2>2. (Serving' => Serving) /\ (kills' = 0 => kills = 0)
    BY <1>2, <2>1, OnlyEnds
  <2>3. HandleES => fd1 > 0
    BY <2>1, SelfOpen DEF HandleES, TakeSelf, Serving
  <2>4. HandleEO => boardpostnum > 0
    <3>1. HandleEO => Serving /\ Serving'
      BY DEF HandleEO, TakeOthers, Serving
    <3> QED
      BY <1>2, <2>1, <3>1, OpensStep
  <2>5. SessionsTypeOK'
    BY <1>2, <2>1, <2>3, <2>4, TypeStep
  <2>6. PassInv'
    BY <1>2, <2>1, PassStep
  <2>7. RequestsInv' /\ (Serving' => MembersInv')
    BY <1>2, <2>1, RequestsStep
  <2>8. Serving' => OpensInv' /\ OwnerInv'
    BY <1>2, <2>1, <2>2, OpensStep, OwnerInvStep
  <2>9. NoBrokenPipe'
    <3>1. kills' = 0 => NoBrokenPipe'
      BY <1>2, <2>1, <2>2, PipeStep
    <3> QED
      BY <3>1 DEF NoBrokenPipe
  <2>10. QuestionInv'
    <3>1. kills' = 0 => QuestionInv'
      BY <1>2, <2>1, <2>2, QuestionStep
    <3> QED
      BY <3>1 DEF QuestionInv
  <2>11. AnswersDue'
    <3>1. kills' = 0 => AnswersDue'
      BY <1>2, <2>1, <2>2, <2>5, AnswersDueStep
    <3> QED
      BY <3>1 DEF AnswersDue
  <2>12. AloneInv'
    BY <1>2, <2>1, <2>9, AloneStep
  <2> QED
    BY <2>5, <2>6, <2>7, <2>8, <2>9, <2>10, <2>11, <2>12 DEF SInv
<1> QED
  BY <1>1, <1>2

\* In every reachable state the requests in the fifos, what the server has open
\* on account of those it handled, and the answers that wait to be read fit
\* together.  board_server.c:160-290
THEOREM SessionsInvariant == Spec => []SInv
<1> QED
  BY SessionsInit, SessionsStep, PTL DEF Spec

\* Every variable holds what the code can put there; boardpostnum and the number
\* of open descriptors of self_w never fall below zero.  board_server.c:165-190
THEOREM SessionsTypes == Spec => []SessionsTypeOK
<1>1. SInv => SessionsTypeOK
  BY DEF SInv
<1> QED
  BY <1>1, SessionsInvariant, PTL

\* boardpostnum counts the boardposts that joined and have not left, killed ones
\* included, and others_w is open just while there are any.
\* board_server.c:176-190
THEOREM MembersCounted == Spec => []CountsMembers
<1>1. SInv => CountsMembers
  BY DEF SInv, OpensInv, CountsMembers
<1> QED
  BY <1>1, SessionsInvariant, PTL

\* Unless a process is killed, the server never writes to a fifo that nobody
\* reads or that it has closed, however lists and sessions of the owner mix.
\* board_server.c:204, 272
THEOREM PipesHold == Spec => []NoBrokenPipe
<1>1. SInv => NoBrokenPipe
  BY DEF SInv
<1> QED
  BY <1>1, SessionsInvariant, PTL

\* A boardpost that is alone with its list reads its whole reply, of any length,
\* and nothing else, unless a process is killed or a sleep too short.
\* boardpost.c:175-233
THEOREM ReplyIsOwn == Spec => []OwnReplyAlone
<1>1. SInv => OwnReplyAlone
  BY DEF SInv, AloneInv, AloneParts, Calm, OwnReplyAlone, Asking
<1> QED
  BY <1>1, SessionsInvariant, PTL

===============================================================================
