------------------------------ MODULE PostingInv ------------------------------
(***************************************************************************)
(* The inductive invariant of Posting.  Its parts relate what is written   *)
(* in others_r, what the server stored or handed out and what each         *)
(* boardpost is about to write, so that each step of one process keeps     *)
(* what the others rely on.                                                *)
(***************************************************************************)
EXTENDS Posting

\* A file being sent has a number left and a fragment left.
JobInv ==
  \A p \in Posts : job[p] # NoJob =>
    /\ nextMid[p] < MaxMid
    /\ job[p].next <= job[p].frags
    /\ 1 <= job[p].next

\* What select reported is still there when the loop gets to it.
ScanInv ==
  Serving =>
    /\ FdSelf <= CrResume /\ FdSelf \in readFds /\ scan <= FdSelf => selfR # <<>>
    /\ FdOthers \in readFds /\ scan <= FdOthers => othersR # <<>>

\* x, a fragment or a message in channel c, belongs to the file that its
\* boardpost is sending now.
OfJob(x, c) ==
  /\ job[x.pid] # NoJob
  /\ x.mid = nextMid[x.pid]
  /\ x.type = "f"
  /\ c = job[x.pid].id
  /\ x.msgsize = job[x.pid].frags

\* A fragment in the fifo comes from an earlier message or is a part of the
\* present file already written; only the last one may carry the flag 'y'.
QueueInv ==
  \A i \in DOMAIN othersR : LET w == othersR[i] IN
    /\ w.part \in 1 .. w.msgsize
    /\ w.flag = "y" => w.part = w.msgsize
    /\ \/ w.mid < nextMid[w.pid]
       \/ OfJob(w, w.id) /\ w.part < job[w.pid].next

\* The fragments of one boardpost are in the fifo in the order of sending.
OrderInv ==
  \A i, j \in DOMAIN othersR : LET v == othersR[i]  w == othersR[j] IN
    i < j /\ v.pid = w.pid =>
      \/ v.mid < w.mid
      \/ SameMessage(v, w) /\ v.id = w.id /\ v.part < w.part

\* A message the server holds is an earlier one, or the present file, which
\* is not full yet; what was handed out was full.
HeldInv ==
  \A c \in Ids : \A m \in Held(c) :
    /\ m.mid < nextMid[m.pid] \/ (OfJob(m, c) /\ m.full = "n")
    /\ m \in HandedOut(c) => m.full = "y"

\* A fragment in the fifo is of a later message than any the server holds from
\* the same boardpost, or continues the one that is not full.
AheadInv ==
  \A c \in Ids : \A m \in Held(c) : \A i \in DOMAIN othersR :
    LET w == othersR[i] IN
    m.pid = w.pid =>
      \/ m.mid < w.mid
      \/ SameMessage(m, w) /\ c = w.id /\ m.full = "n"

\* One record per message.
UniqueInv ==
  \A c, d \in Ids : \A m \in Held(c), n \in Held(d) :
    Key(m) = Key(n) => c = d /\ m = n

RepliesInv ==
  /\ \A c \in Ids : InReply(c) \cap delivered[c] = {}
  /\ \A i, j \in DOMAIN selfW : selfW[i].msgs \cap selfW[j].msgs # {} => i = j

\* How many fragments of the message of x its boardpost has written so far.
Written(x) ==
  IF job[x.pid] # NoJob /\ x.mid = nextMid[x.pid] THEN job[x.pid].next - 1
                                                  ELSE x.msgsize

\* The number of the last fragment in message m.
LastPart(m) == m.body[1] + Len(m.body) - 1

\* Part n of the message with key k waits in the fifo.
PartQueued(k, n) ==
  \E i \in DOMAIN othersR : Key(othersR[i]) = k /\ othersR[i].part = n

\* A message the server holds is a run of fragments, up to the last one of the
\* file if it is full, and from the first one on unless some were refused.
RunInv ==
  \A c \in Ids : \A m \in Held(c) :
    /\ m.body # <<>>
    /\ \A k \in DOMAIN m.body : m.body[k] = m.body[1] + k - 1
    /\ m.full = "y" => LastPart(m) = m.msgsize
    /\ m.body[1] = 1 \/ Key(m) \in dropped

\* What was written of a message after what the server holds of it, or after a
\* fragment in the fifo, is in the fifo.
TailInv ==
  /\ \A c \in Ids : \A m \in Held(c) : m.full = "n" =>
       /\ LastPart(m) <= Written(m)
       /\ \A n \in LastPart(m) + 1 .. Written(m) : PartQueued(Key(m), n)
       /\ \A i \in DOMAIN othersR :
            Key(othersR[i]) = Key(m) => LastPart(m) < othersR[i].part
  /\ \A i \in DOMAIN othersR : LET w == othersR[i] IN
       \A n \in w.part + 1 .. Written(w) : PartQueued(Key(w), n)

\* The first fragment of the message with key k is accounted for.
HeadFound(k) ==
  \/ k \in dropped
  \/ \E c \in Ids : \E m \in Held(c) : Key(m) = k
  \/ PartQueued(k, 1)

\* So it is for each message that has a fragment in the fifo, and for the one
\* that is being sent.
HeadInv ==
  Serving =>
    /\ \A i \in DOMAIN othersR : HeadFound(Key(othersR[i]))
    /\ \A p \in Posts : job[p] # NoJob /\ job[p].next > 1 =>
         HeadFound(<<p, nextMid[p]>>)

\* A message whose fragment with flag 'y' was written was refused, or this
\* fragment waits in the fifo, or the server holds the full message.
EndedInv ==
  Serving =>
    \A k \in ended :
      \/ k \in dropped
      \/ \E i \in DOMAIN othersR : Key(othersR[i]) = k /\ othersR[i].flag = "y"
      \/ \E c \in Ids : \E m \in Full(Held(c)) : Key(m) = k

\* Which copies of a message there are, and where.
DeliveryParts ==
  /\ TypeOK /\ JobInv /\ ScanInv /\ NoReadFail
  /\ QueueInv /\ OrderInv
  /\ HeldInv /\ AheadInv /\ UniqueInv
  /\ NoOvertaking /\ RepliesInv

\* What the copies hold.
ContentParts == RunInv /\ TailInv /\ HeadInv /\ EndedInv

\* The inductive invariant.
IInv == DeliveryParts /\ ContentParts

===============================================================================
