------------------------- MODULE MCStorageMigration -------------------------
(***************************************************************************)
(* StorageMigration for TLC: one process that fails, crashes and is        *)
(* restarted.                                                              *)
(***************************************************************************)
EXTENDS StorageMigration, TLC

CONSTANTS web, group, user, newuser

OneProc  == {web}

AllRows     == {group, user, newuser}
GroupsFirst == group :> 1 @@ user :> 2 @@ newuser :> 2
=============================================================================
