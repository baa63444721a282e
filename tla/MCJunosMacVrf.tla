---------------------------- MODULE MCJunosMacVrf ----------------------------
(* Small instances of JunosMacVrf: two services, two VLANs, ports of every kind. *)
EXTENDS JunosMacVrf, TLC

CONSTANTS red, blue,  \* service names
          v10, v20,   \* the texts "vlan10" and "vlan20"
          e1, e2,     \* ports that carry bridged units
          e3,         \* a routed port
          e4,         \* a port without configuration
          lo          \* not an access port

MCVlans == {10, 20}
MCNames == {red, blue, v10, v20} \cup MCVlans
MCVlanName == [v \in MCVlans |-> IF v = 10 THEN v10 ELSE v20]
MCPorts == {e1, e2, e3, e4, lo}

Request(n, vni, p, u, v) ==
  [op |-> "provision", name |-> n, vni |-> vni, port |-> p, unit |-> u, vlan |-> v,
   sameRt |-> TRUE, dry |-> FALSE]
Red == Request(red, 100, e1, None, 10)
Blue == Request(blue, 200, e1, None, 20)

\* Services of their own; one VNI or one unit for two; ports that cannot be used.
MCProvisions ==
  {Red, Blue, Request(blue, 100, e2, 20, 10), Request(red, 200, e2, None, 20),
   Request(red, 100, e3, None, 10), Request(red, 100, e4, None, 10),
   [Red EXCEPT !.dry = TRUE], [Red EXCEPT !.sameRt = FALSE]}
Remove(n) == [op |-> "delete", name |-> n, dry |-> FALSE]
MCDeletes == {Remove(red), Remove(10), Remove(v20), Remove(None), [Remove(blue) EXCEPT !.dry = TRUE]}

\* The switch with the instances `on` (name -> instance) and the units they list.
Switch(on) ==
  [inst |-> [n \in Names |-> IF n \in DOMAIN on THEN on[n] ELSE None],
   unit |-> [i \in Ifls |-> IF \E n \in DOMAIN on : i \in on[n].ifls THEN 10 ELSE None]]

Service(q) == [mac |-> TRUE, ifls |-> {Ifl(q)}, vlans |-> {VlanOf(q)}]

\* An operator's: a mac-vrf with two VLANs, of which one has no id and no VNI; a virtual
\* router named like a VLAN id; an instance without interfaces.
Bundle ==
  [mac |-> TRUE, ifls |-> {<<e2, 10>>, <<e2, 20>>},
   vlans |-> {VlanOf(Blue), [name |-> red, id |-> None, vni |-> None]}]
Router == [mac |-> FALSE, ifls |-> {<<e3, 10>>}, vlans |-> {}]
Bare == [mac |-> TRUE, ifls |-> {}, vlans |-> {VlanOf(Red)}]

MCExisting ==
  {Switch([n \in {} |-> None]), Switch(red :> Service(Red)),
   Switch(red :> Service(Red) @@ blue :> Service(Blue)),
   Switch(blue :> Bundle @@ 10 :> Router), Switch(v20 :> Bare),
   [Switch(red :> [Service(Red) EXCEPT !.ifls = {<<e2, 10>>}]) EXCEPT !.unit[<<e2, 10>>] = None]}

\* Servers are interchangeable.
ServerSymmetry == Permutations(Servers)
=============================================================================
