------------------------------ MODULE HostPort -------------------------------
(***************************************************************************)
(* The texts <host>:<port> and what package net makes of them.  A text is  *)
(* its host, the pairs of brackets around it and its port; "none" is no    *)
(* port at all, "" one with nothing behind the colon.                      *)
(***************************************************************************)
EXTENDS Naturals

\* Two IPv6 addresses, the last group of one is a decimal number.
IPv6  == {"v6", "v6hex"}
Hosts == {"", "name", "v4"} \cup IPv6
Ports == {"none", "", "80", "443", "text"}
Texts == {t \in [host : Hosts, brackets : 0..1, port : Ports] :
            t.brackets = 1 => t.host \in IPv6}

Text(host, brackets, port) == [host |-> host, brackets |-> brackets, port |-> port]
NoText == Text("", 0, "none")

\* Everything up to the last colon of an address counts as an address here.
HasColonInside(host) == host \in IPv6 \cup {"v6cut"}
HasColon(t) == HasColonInside(t.host) \/ t.port # "none"

\* net.JoinHostPort puts brackets around a host with a colon, whatever it has.
JoinHostPort(t) == [t EXCEPT !.brackets = IF HasColonInside(t.host) THEN @ + 1 ELSE @]

\* net.SplitHostPort wants one port, and brackets around a host with colons.
Splits(t) == t.port # "none" /\ (HasColonInside(t.host) => t.brackets = 1)
=============================================================================
