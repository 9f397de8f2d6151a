----------------------------- MODULE BoardLibrary -----------------------------
(***************************************************************************)
(* boardb.c as a library: the whole interface of boardb.h that changes a   *)
(* board, in any order in which a program may call it.  board_server calls *)
(* only a part of it; removing a message and deleting a channel are there  *)
(* for its successors.                                                     *)
(*                                                                         *)
(* The caller hands over messages in fragments, each message in order and  *)
(* several messages interleaved, as it reads them from a fifo.             *)
(***************************************************************************)
EXTENDS BoardStore

CONSTANTS Sizes,   \* numbers of fragments of a file
          MaxOut   \* bound of the counter out of a channel

ASSUME SizesAssumption == Sizes \subseteq Nat \ {0} /\ MaxOut \in Nat /\ MaxMid \in Nat

VARIABLE arriving  \* per message: its next fragment, or what it is now

libVars == <<board, arriving>>

Keys == Posts \X Mids

Unsent == [next |-> 0]
Done   == [next |-> -1]
Arriving == [id : Ids, type : Kinds, size : Nat, next : Nat]

\* The fragment that comes next of message k.
NextFragment(k) ==
  LET a == arriving[k]
  IN [op |-> "WR", id |-> a.id, pid |-> k[1], mid |-> k[2], type |-> a.type,
      msgsize |-> a.size, part |-> a.next,
      flag |-> IF a.next = a.size THEN "y" ELSE "n"]

\* What is left of message k behind that fragment.
Rest(k) ==
  IF NextFragment(k).flag = "y" THEN Done
  ELSE [arriving[k] EXCEPT !.next = @ + 1]

Init ==
  /\ CrBboard
  /\ arriving = [k \in Keys |-> Unsent]

Begin(k, id, type, size) ==
  /\ arriving[k] = Unsent
  /\ type = "w" => size = 1
  /\ arriving' = [arriving EXCEPT ![k] = [id |-> id, type |-> type, size |-> size,
                                          next |-> 1]]
  /\ UNCHANGED board

\* add_message_d; the counter is bounded here.
Add(k) ==
  LET w == NextFragment(k)
  IN /\ arriving[k] \notin {Unsent, Done}
     /\ w.id \in Channels => board[w.id].out < MaxOut
     /\ AddMessageD(w)
     /\ arriving' = [arriving EXCEPT ![k] = Rest(k)]

Insert(id) == Ginsert(id) /\ UNCHANGED arriving

Fetch(id) == FetchReady(id) /\ UNCHANGED arriving

Remove(id) == RemoveMessageD(id) /\ UNCHANGED arriving

Delete(id) == DeleteGchannel(id) /\ UNCHANGED arriving

Next ==
  \/ \E k \in Keys, id \in Ids, type \in Kinds, size \in Sizes : Begin(k, id, type, size)
  \/ \E k \in Keys : Add(k)
  \/ \E id \in Ids : Insert(id) \/ Fetch(id) \/ Remove(id) \/ Delete(id)

Spec == Init /\ [][Next]_libVars

-------------------------------------------------------------------------------
(* Properties *)

\* Every variable has its type.
LibTypeOK ==
  /\ BoardType
  /\ arriving \in [Keys -> Arriving \cup {Unsent, Done}]

\* No channel is freed with messages in it: the counter that delete_gchannel
\* trusts is never below the length of the list, whatever fetches and removals
\* came before.  boardb.c:229, 255, 270-272
DeleteLosesNothing ==
  [][\A c \in Ids : c \in Channels /\ c \notin Channels' => board[c].msgs = {}]_libVars

\* One record per message: a fragment never starts a second record beside one
\* that it could continue.  boardb.c:228-241
OneRecord ==
  \A c \in Channels : \A m, n \in board[c].msgs : SameMessage(m, n) => m = n

===============================================================================
