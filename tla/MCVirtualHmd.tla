----------------------------- MODULE MCVirtualHmd -----------------------------
(* VirtualHmd for TLC: sections that are on, off and off from the start. *)
EXTENDS VirtualHmd, TLC

CONSTANTS on, off, other

MCSections == {on, off, other}
MCOff      == on :> off @@ off :> off @@ other :> other @@ Ours :> Ours
=============================================================================
