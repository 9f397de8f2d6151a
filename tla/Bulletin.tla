------------------------------- MODULE Bulletin -------------------------------
(***************************************************************************)
(* What the bulletin board promises, without processes, fifos, fragments   *)
(* or headers: a message is offered in one channel at most once, a fetch   *)
(* takes everything a channel offers, and what was taken stays taken.  The *)
(* board is kept in memory only: when its server ends, by shutdown or by a *)
(* crash, what it offered is gone.                                         *)
(***************************************************************************)
CONSTANTS Ids,      \* channels
          Messages  \* identities of messages

VARIABLES open,     \* the channels that were created
          offered,  \* per channel: messages ready to be fetched
          taken,    \* per channel: messages handed out
          alive     \* the server runs

absVars == <<open, offered, taken, alive>>

Init ==
  /\ open = {}
  /\ offered = [c \in Ids |-> {}]
  /\ taken = [c \in Ids |-> {}]
  /\ alive = TRUE

Fresh(k) == \A c \in Ids : k \notin offered[c] \cup taken[c]

Create(c) ==
  /\ alive
  /\ open' = open \cup {c}
  /\ UNCHANGED <<offered, taken, alive>>

Publish(c, k) ==
  /\ alive
  /\ c \in open
  /\ Fresh(k)
  /\ offered' = [offered EXCEPT ![c] = @ \cup {k}]
  /\ UNCHANGED <<open, taken, alive>>

Take(c) ==
  /\ alive
  /\ c \in open
  /\ taken' = [taken EXCEPT ![c] = @ \cup offered[c]]
  /\ offered' = [offered EXCEPT ![c] = {}]
  /\ UNCHANGED <<open, alive>>

\* The end may come in the middle of a fetch.
End ==
  /\ alive
  /\ alive' = FALSE
  /\ open' = {}
  /\ offered' = [c \in Ids |-> {}]
  /\ \/ UNCHANGED taken
     \/ \E c \in Ids : \E part \in SUBSET offered[c] :
          taken' = [taken EXCEPT ![c] = @ \cup part]

Next ==
  \/ \E c \in Ids : Create(c) \/ Take(c)
  \/ \E c \in Ids, k \in Messages : Publish(c, k)
  \/ End

Spec == Init /\ [][Next]_absVars

===============================================================================
