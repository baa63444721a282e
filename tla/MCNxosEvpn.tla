----------------------------- MODULE MCNxosEvpn -----------------------------
(* Small instances of NxosEvpn: five VLANs, of which callers may use 2 to 4,  *)
(* two trunks and a routed port.  Two bytes hold the numbers 0 to 2.           *)
EXTENDS NxosEvpn, TLC

CONSTANTS svc,     \* a VLAN name
          e1, e2,  \* layer-2 trunks
          e3       \* a routed port

MCNames == Vlans \cup {svc}
OwnVni(v) == 100 + v
MCVnis == {OwnVni(v) : v \in 2..3}

Id == [kind |-> "as2-nn2", admin |-> 1, nn |-> 1]

\* The instances `on`, whole; VLAN 4 as `four`; a list on either trunk.
Switch(on, four, list1, list2) ==
  [bd |-> [v \in Vlans |-> IF v \in on THEN [name |-> svc, vni |-> OwnVni(v)]
                           ELSE IF v = 4 THEN four ELSE None],
   ep |-> TRUE,
   nve |-> {OwnVni(v) : v \in on},
   evpn |-> {OwnVni(v) : v \in on},
   rtt |-> [n \in MCVnis |-> IF \E v \in on : n = OwnVni(v) THEN {Id} ELSE {}],
   port |-> [p \in Ports |->
               [layer2 |-> p # e3, trunk |-> p # e3,
                list |-> IF p = e1 THEN list1 ELSE IF p = e2 THEN list2 ELSE {}]]]

\* An instance with neither member VNI nor EVPN VNI, which has the VNI that callers
\* give to VLAN 2; a VLAN named like VLAN 2's id.
Half == [name |-> None, vni |-> OwnVni(2)]
Namesake == [name |-> 2, vni |-> None]

\* The lists: all VLANs in two ways, several, one, none.
MCConfigs ==
  {Switch({}, None, l, {}) : l \in {{}, {<<1, 1>>, <<5, 5>>}, ALL_VLANS}}
    \cup {Switch({3}, Half, l, {<<4, 4>>}) : l \in {{<<1, 3>>, <<5, 5>>}, {<<1, 2>>, <<3, 5>>}, {<<3, 3>>}}}
    \cup {Switch({2, 3}, Namesake, {<<2, 3>>}, ALL_VLANS)}
    \cup {[Switch({}, None, {}, {}) EXCEPT !.ep = FALSE],
          [Switch({}, None, {<<1, 1>>}, {}) EXCEPT
             !.nve = {OwnVni(2)}, !.evpn = {OwnVni(2)}, !.rtt[OwnVni(2)] = {Id}]}

Rt(dotted, admin, nn) == [dotted |-> dotted, admin |-> admin, nn |-> nn]
Request(v, p, rt, d) ==
  [op |-> "provision", name |-> svc, vlan |-> v, vni |-> OwnVni(v), port |-> p, rt |-> rt, dry |-> d]
Remove(name, d) == [op |-> "delete", name |-> name, dry |-> d]

\* Route-targets at the boundaries of two and four bytes.
MCProvisions ==
  {Request(2, e1, Rt(FALSE, 2, 2), FALSE), Request(3, e1, Rt(FALSE, 2, 3), FALSE),
   Request(3, e2, Rt(FALSE, 3, 2), FALSE), Request(2, e1, Rt(TRUE, 9, 2), TRUE),
   Request(2, e3, Rt(FALSE, 8, 0), FALSE), Request(2, None, Rt(TRUE, 9, 2), FALSE),
   Request(2, e1, Rt(FALSE, 9, 2), FALSE), Request(3, e1, Rt(FALSE, 3, 3), FALSE),
   [Request(2, e1, Rt(FALSE, 1, 1), FALSE) EXCEPT !.vlan = 1]}
MCDeletes == {Remove(2, FALSE), Remove(3, FALSE), Remove(svc, FALSE), Remove(None, FALSE), Remove(2, TRUE)}

\* Servers are interchangeable.
ServerSymmetry == Permutations(Servers)
=============================================================================
