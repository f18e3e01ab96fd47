---------------------------- MODULE MCRemoteFS ----------------------------
(***************************************************************************)
(* Model-checking instance of RemoteFS: two shares, two owners, and share *)
(* maps in which share A changes owner, shares appear and disappear, and  *)
(* one owner has both shares (one userServer serving two).               *)
(***************************************************************************)
EXTENDS RemoteFS, TLC

MCShareNames == {"A", "B"}
MCOwners == {"alice", "bob"}
MCConfigs == { ("A" :> "alice") @@ ("B" :> "bob"),
               ("A" :> "alice") @@ ("B" :> "alice"),
               ("A" :> "bob"),
               [n \in {} |-> "alice"] }
=============================================================================
