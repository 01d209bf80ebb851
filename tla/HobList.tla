------------------------------ MODULE HobList ------------------------------
(***************************************************************************)
(* What Library/FspHobLib promises to its callers: a list that starts with *)
(* the END HOB alone, to which HOBs are added at the front as long as there*)
(* is room, and in which nothing ever changes or disappears.               *)
(***************************************************************************)
EXTENDS Sequences

CONSTANTS Kinds, Data, End    \* kinds of HOBs, their contents, the END HOB

VARIABLE list                 \* newest first; empty before there is a list

Hob == [kind : Kinds, data : Data]

ListInit == list = <<>>

Open == list = <<>> /\ list' = <<End>>

Add == list # <<>> /\ \E h \in Hob : list' = <<h>> \o list

ListSpec == ListInit /\ [][Open \/ Add]_list
=============================================================================
