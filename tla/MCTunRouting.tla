----------------------------- MODULE MCTunRouting -----------------------------
(* A small instance of TunRouting for TLC: either firewall command at first. *)
EXTENDS TunRouting

OneTool == {{"nft"}, {"iptables-legacy"}}
===============================================================================
