----------------------------- MODULE MCNetwork -----------------------------
(***************************************************************************)
(* Instances of Network: addresses, and the init files that are run.       *)
(***************************************************************************)
EXTENDS Network

P1 == <<1, 1>>
P2 == <<1, 2>>
F1 == <<1, 11>>
F2 == <<1, 12>>
T1 == <<1, 13>>

MCPeers == {P1, P2}
MCFree  == {F1, F2}
MCTaken == {T1}

Cmd(op, arg) == [op |-> op, arg |-> arg]
Up == <<Cmd("netinterface", TRUE), Cmd("switch", Zero), Cmd("init arp", Zero), Cmd("init dhcp", Zero)>>

MCScripts == {
  Up \o <<Cmd("ip dhcp", Zero), Cmd("udpsend", P1), Cmd("udpsend", P2), Cmd("netinterface", FALSE)>>,
  Up \o <<Cmd("ip static", F1), Cmd("udpsend", P1)>>,
  Up \o <<Cmd("ip static", T1), Cmd("udpsend", P1)>>,
  Up \o <<Cmd("ip dhcp", Zero), Cmd("ip static", F2), Cmd("udpsend", P2)>>}
=============================================================================
