------------------------------- MODULE MCApi -------------------------------
(***************************************************************************)
(* Two strangers and this computer, two WebSocket connections.             *)
(***************************************************************************)
EXTENDS ApiServer

ApiLists == {<<>>, <<"x", "y">>}
=============================================================================
