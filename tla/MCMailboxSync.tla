---------------------------- MODULE MCMailboxSync ----------------------------
(***************************************************************************)
(* A small instance of MailboxSync: two letters, one of them without a     *)
(* Message-ID.                                                             *)
(***************************************************************************)
EXTENDS MailboxSync, TLC

CONSTANTS a, b, sent, trash

MCMessageId == (a :> "id") @@ (b :> NoId)
MCInitial == (sent :> <<a>>) @@ (trash :> <<>>)
MCSymmetry == Permutations(Requests)
MCFlags == {"seen"}
=============================================================================
