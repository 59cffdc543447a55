------------------------- MODULE MCWebsocketManager -------------------------
(* Small instances of WebsocketManager for TLC.                              *)
EXTENDS WebsocketManager, TLC

(* Threads of the application are interchangeable, and so are accounts.      *)
UserSymmetry == Permutations(Users)
UserAccountSymmetry == Permutations(Users) \cup Permutations(Accounts)
=============================================================================
