------------------------------- MODULE ListSpec -------------------------------
(***************************************************************************)
(* What list.h promises: a sequence, with insertion at both ends, deletion *)
(* by value, and removal of the last element.  list.h:22 says that delete  *)
(* "deletes a node"; list.c deletes each one that matches, which is here   *)
(* as many steps DeleteFirst.  Where elements differ, as messages and      *)
(* channels do, both are the same.                                         *)
(***************************************************************************)
EXTENDS Sequences, SequencesExt

CONSTANT Keys      \* the elements, as the comparator of the list tells them apart

VARIABLE list

Init == list = <<>>

InsertFront(k) == list' = <<k>> \o list

InsertBack(k) == list' = Append(list, k)

\* A deletion removes the occurrences of k from the front on, one after another.
DeleteFirst(k) == list' = RemoveFirst(list, k)

RemoveLast == list # <<>> /\ list' = Front(list)

Clear == list' = <<>>

Next == (\E k \in Keys : InsertFront(k) \/ InsertBack(k) \/ DeleteFirst(k)) \/ RemoveLast \/ Clear

Spec == Init /\ [][Next]_list

===============================================================================
