----------------------------- MODULE MCMessages -----------------------------
(***************************************************************************)
(* What a reader of a conversation is shown: the messages a walk in pages    *)
(* comes upon (ChatPaging), and then the body of one record (Bodies; a       *)
(* note's is read much as a message's).  The two share no variable: a step   *)
(* of one leaves the other alone, no order of them shows more than another,  *)
(* and it is enough to vary one at a time, every conversation beside one     *)
(* record and every record beside a conversation without messages.         *)
(***************************************************************************)
EXTENDS MCChatPaging, MCBodies

OneRow == Message(<<65>>, FALSE, Shape(<<>>, StringChain, FALSE), <<>>)

MCInit ==
  \/ PagingInit /\ row = OneRow /\ BodyInit
  \/ rows = {} /\ PagingInit /\ BodyInit

MCNext ==
  \/ \E limit \in Limits : ReadPage(limit) /\ UNCHANGED bodyVars
  \/ \E limit \in Limits : LastPage(limit) /\ UNCHANGED bodyVars
  \/ done /\ Damage /\ UNCHANGED pagingVars
  \/ done /\ ReadMessage /\ UNCHANGED pagingVars
  \/ done /\ ReadNote /\ UNCHANGED pagingVars

MCSpec ==
  MCInit /\ [][MCNext]_<<pagingVars, bodyVars>> /\ WF_pagingVars(Walk)
=============================================================================
