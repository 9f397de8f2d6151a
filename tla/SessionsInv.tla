------------------------------ MODULE SessionsInv ------------------------------
(***************************************************************************)
(* The inductive invariant of Sessions.  Its parts say which requests of a *)
(* process may wait in which order, what the server has open on account of *)
(* those it handled, and how many replies are due.                         *)
(***************************************************************************)
EXTENDS Sessions

Request(op, p) == [op |-> op, pid |-> p]

\* A request of p of kind op is among the first n of others_r.
Before(n, op, p) == \E j \in DOMAIN othersR : j < n /\ othersR[j] = Request(op, p)

\* Between its OO and its EO, and after it ended.
Present == (Reading \ {"leaving"}) \cup {"joined"}
Gone == {"leaving", "left", "gone"}

\* A boardpost joins once and leaves once, in this order, and what it asks for
\* in between is between.
RequestsInv ==
  \A i \in DOMAIN othersR : LET p == othersR[i].pid  op == othersR[i].op IN
    /\ op = "OO" => post[p] # "new" /\ p \notin members
    /\ op = "EO" => post[p] \in Gone
    /\ op \in {"OO", "EO"} =>
         \A j \in DOMAIN othersR : othersR[j] = othersR[i] => i = j
    /\ op \in {"EO", "LI"} => p \in members \/ Before(i, "OO", p)
    /\ op \in {"OO", "LI"} => ~ Before(i, "EO", p)

\* A pass reaches only fifos that hold a request; at the end there is none.
PassInv ==
  /\ "self" \in pass => selfR # <<>>
  /\ "others" \in pass => othersR # <<>>
  /\ pc = "down" => othersR = <<>>

\* A boardpost that uses the board is a member or will be one.
MembersInv ==
  /\ \A p \in members : post[p] # "new"
  /\ \A p \in Posts : post[p] \in Present =>
       p \in members \/ \E j \in DOMAIN othersR : othersR[j] = Request("OO", p)

\* What the server counts; it waits in its open for the first boardpost only.
OpensInv ==
  /\ Cardinality(members) = boardpostnum + (IF pc = "openOthers" THEN 1 ELSE 0)
  /\ fd3 <=> boardpostnum > 0
  /\ pc = "openOthers" => boardpostnum = 0 /\ Readers = {}

\* How many opens of self_w were asked for and not closed again.
Opens == fd1 + (IF pc = "openSelf" THEN 1 ELSE 0)

\* When the n-th request of self_r is handled self_w is open on its account.
OpenAt(n) ==
  \/ \E j \in DOMAIN selfR :
       /\ j < n /\ selfR[j] = "OS"
       /\ \A k \in DOMAIN selfR : j < k /\ k < n => selfR[k] # "ES"
  \/ /\ Opens > 0
     /\ \A k \in DOMAIN selfR : k < n => selfR[k] # "ES"

OwnerInv ==
  /\ \A i \in DOMAIN selfR : selfR[i] \in {"ES", "GM"} => OpenAt(i)
  /\ owner \in {"joined", "opening", "prompt", "waiting"} => OpenAt(Len(selfR) + 1)

\* Unless board is killed it has one question at most, and waits for the answer.
QuestionInv ==
  kills = 0 =>
    /\ \A i \in DOMAIN selfR : selfR[i] = "GM" =>
         /\ owner \in {"waiting", "eof"} /\ selfW = 0
         /\ \A j \in DOMAIN selfR : selfR[j] = "GM" => j = i
    /\ selfW > 0 => owner \in {"waiting", "eof"}
    /\ selfW \in {0, 1}

\* The places in sequence s where an element of V is.
Hits(s, V) == {i \in DOMAIN s : s[i] \in V}

Lists == {Request("LI", p) : p \in Posts}
Lasts == {[part |-> "text", last |-> TRUE]}
Listing == {p \in Posts : post[p] \in Parts \cup {"eof", "confused"}}

\* Each list that is to be answered and each answer that was not read to its end
\* has somebody waiting for it, though not always the one who asked.
AnswersDue ==
  kills = 0 =>
    Cardinality(Hits(othersR, Lists)) + Cardinality(Hits(othersW, Lasts))
      <= Cardinality(Listing)

\* What a boardpost that reads part by part reads next.
InFrame ==
  \A i \in DOMAIN othersW :
    NextPart(othersW[i].part, othersW[i].last) =
      IF i = Len(othersW) THEN "prompt" ELSE othersW[i + 1].part

Asking == {p \in Posts : post[p] \in Parts}

\* One boardpost that is alone with its list: the request, or else the rest of
\* the answer, is there, and nothing else is.
AloneParts ==
  /\ \A p, q \in Asking : p = q
  /\ \A p \in Posts : post[p] # "confused" /\ (post[p] = "eof" => ~ Serving)
  /\ \A i \in DOMAIN othersR : othersR[i].op = "LI" =>
       /\ post[othersR[i].pid] = "size" /\ othersW = <<>>
       /\ \A j \in DOMAIN othersR : othersR[j].op = "LI" => j = i
  /\ Asking = {} => othersW = <<>>
  /\ InFrame
  /\ \A p \in Asking :
       /\ Serving => p \in members
       /\ othersW # <<>> => othersW[1].part = post[p]
       /\ othersW = <<>> =>
            /\ post[p] = "size"
            /\ Serving => \E i \in DOMAIN othersR : othersR[i].op = "LI"

\* Nobody is killed, no sleep is too short and no two lists overlap.
Calm == kills = 0 /\ ~ hasty /\ ~ overlapped

AloneInv == Calm => AloneParts

\* The inductive invariant.
SInv ==
  /\ SessionsTypeOK
  /\ PassInv /\ RequestsInv
  /\ Serving => MembersInv /\ OpensInv /\ OwnerInv
  /\ NoBrokenPipe /\ QuestionInv /\ AnswersDue /\ AloneInv

===============================================================================
