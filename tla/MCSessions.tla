----------------------------- MODULE MCSessions -----------------------------
(***************************************************************************)
(* Sessions with three calls of three clients: the phone and the laptop of *)
(* one entity and the browser of another that sends the phone's User-Agent.*)
(***************************************************************************)
EXTENDS Sessions, TLC

CONSTANTS alice, bob, phone, laptop, kiosk, k1, k2, k3, home

MCEntityOf == phone :> alice @@ laptop :> alice @@ kiosk :> bob
MCAgentOf  == phone :> "mobile" @@ laptop :> "desktop" @@ kiosk :> "mobile"
MCClients  == DOMAIN MCEntityOf
MCRoaming  == {phone}
MCCalls    == {k1, k2, k3}
MCHome     == {home}
MCPorts    == {1, 2}
MCNone     == {}
MCAll      == {"fail", "lost", "unread"}
MCSymmetry == Permutations(Calls)
=============================================================================
