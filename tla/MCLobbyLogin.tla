---------------------------- MODULE MCLobbyLogin ----------------------------
(* Values for the constants of LobbyLogin. *)
EXTENDS LobbyLogin
=============================================================================
