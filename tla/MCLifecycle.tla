----------------------------- MODULE MCLifecycle -----------------------------
(* Lifecycle for TLC: environments that leave all but one listener, or all     *)
(* but the names, at their defaults, and plug files of up to two entries.     *)
EXTENDS Lifecycle

Default == [hostname |-> Unset, bridge |-> Unset,
            port |-> [l \in Listeners |-> Unset],
            addr |-> [l \in Listeners |-> Empty],
            bind |-> [l \in Listeners |-> Empty],
            others |-> TRUE]

MCTexts == {Empty, DefaultName, "kitchen", "garage", "p1", "p2", "lamp", "host"}

MCNames == {Unset, Empty, "kitchen", "garage"}
MCPorts == {Unset, Malformed, -1, 0, 1, 8081, 65535, 65536}
MCAddresses == {Empty, Malformed, 0, 1, 65535}

MCEnvironments ==
  {[Default EXCEPT !.hostname = h, !.bridge = b, !.others = o] :
     h \in MCNames, b \in MCNames, o \in BOOLEAN}
  \cup {[Default EXCEPT !.port[l] = p, !.addr[l] = a, !.bind[l] = i] :
          l \in Listeners, p \in MCPorts, a \in MCAddresses, i \in BindAddresses}

Entry == [id : {Empty, "p1", "p2"}, name : {Empty, "lamp"}, address : {Empty, "host"},
          homekit : {Unset, FALSE}, web : {Unset, FALSE}]

MCPlugFiles == {Malformed, <<>>} \cup {<<a>> : a \in Entry} \cup {<<a, b>> : a, b \in Entry}
==============================================================================
