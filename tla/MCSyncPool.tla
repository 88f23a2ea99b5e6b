----------------------------- MODULE MCSyncPool -----------------------------
(***************************************************************************)
(* Four rounds over three accounts and one connection: a1 is asked for by  *)
(* the background tier and by the user, a2 by a bulk synchronisation, a3   *)
(* by the user.                                                            *)
(***************************************************************************)
EXTENDS SyncPool, TLC

CONSTANTS a1, a2, a3, bg1, now1, bulk2, now3

MCRounds == {bg1, now1, bulk2, now3}
MCAccountOf == bg1 :> a1 @@ now1 :> a1 @@ bulk2 :> a2 @@ now3 :> a3
=============================================================================
