------------------------------ MODULE MCShell ------------------------------
(* The store of the shell for TLC.  Chats and cards share no state, so     *)
(* that one behaviour follows one of them.                                 *)
(*                                                                         *)
(* Chats: three notifications, which may be two pieces of text around a    *)
(* card or a card around the end of a turn; one message of the user, sent  *)
(* in a turn or starting one; one page of the transcript, which may fail   *)
(* and be read again; batches of three, so that a full batch happens.      *)
(* Cards: two permissions and a question, the connection is lost twice.    *)
EXTENDS ShellChats, ShellCards

VARIABLE part

MCInit == part \in {"chats", "cards"} /\ Init /\ CardsInit

MCNext ==
  \/ part = "chats" /\ Next /\ UNCHANGED <<part, cardVars>>
  \/ part = "cards" /\ CardsNext /\ UNCHANGED <<part, vars>>

MCSpec == MCInit /\ [][MCNext]_<<part, vars, cardVars>>
=============================================================================
