------------------------------- MODULE MCPeers -------------------------------
(***************************************************************************)
(* A public node, one on our own network, and an address that turns out to *)
(* be our own.                                                             *)
(***************************************************************************)
EXTENDS PeerTable

PeerRank == ("a" :> 1) @@ ("m" :> 2) @@ ("p" :> 3)
PeerAt == ("a" :> "A") @@ ("m" :> "me") @@ ("p" :> "L")
PeerUrlHost == ("a" :> "h") @@ ("m" :> "w") @@ ("p" :> "lan")
PeerNodeHost == ("A" :> "h") @@ ("L" :> "lan") @@ ("me" :> "here")
PeerListen == ("A" :> "a") @@ ("L" :> "p") @@ ("me" :> "none")
=============================================================================
