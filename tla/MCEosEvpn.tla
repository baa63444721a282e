------------------------------ MODULE MCEosEvpn ------------------------------
(* Small instances of EosEvpn: two or three VLANs, two trunk ports.          *)
EXTENDS EosEvpn, TLC

CONSTANTS red, bundle,    \* texts: a VLAN name, an operator's evpn-instance
          e1, e2,         \* trunk ports
          e3,             \* an Ethernet port that is routed
          po1,            \* a port-channel
          r                \* the trunk item "20..30"

TwoVlans == {10, 20}
ThreeVlans == {10, 20, 30}
MCNames == ThreeVlans \cup {red, bundle}
MCRangeVlans == [i \in {r} |-> {20, 30}]

\* The service that netmcp provisions as VLAN v.
NetmcpInstances(on) == [n \in Names |-> IF n \in on THEN {n} ELSE None]

Config(instances, on, trunk1, trunk2) ==
  [evpn |-> instances,
   vlan |-> [v \in Vlans |-> IF v \in on THEN red ELSE None],
   vni |-> [v \in Vlans |-> IF v \in on THEN 100 ELSE None],
   trunk |-> [p \in Ports |-> IF p = e1 THEN trunk1 ELSE IF p = e2 THEN trunk2 ELSE {}]]

\* What netmcp leaves behind: the services `on`, on trunks made by an operator.
NetmcpConfigs ==
  {Config(NetmcpInstances(on), on, t, {}) :
     on \in {{}, {10}, {10, 20}}, t \in {{}, {10}, {10, 20}}}

\* What an operator may have made: named instances, bundles, instances without
\* a VLAN, VLANs without an instance, ranges in trunk lists.
OperatorConfigs ==
  {Config([n \in Names |-> IF n = bundle THEN vs ELSE None], on, t, {10}) :
     vs \in {{}, {10}, {10, 20}}, on \in {{10, 20}, {20}}, t \in {{10, 20, r}, {r}, {}}}
SerialConfigs == NetmcpConfigs \cup OperatorConfigs

\* Requests: VLANs 10 and 30 on e1, by any name a delete may use.
RaceProvisions ==
  {[op |-> "provision", name |-> red, vlan |-> v, vni |-> 200, port |-> e1, dry |-> FALSE] :
     v \in {10, 30}}
RaceDeletes == {[op |-> "delete", name |-> n, dry |-> FALSE] : n \in {10, 20}}
SerialProvisions ==
  {[op |-> "provision", name |-> red, vlan |-> v, vni |-> 200, port |-> p, dry |-> FALSE] :
     v \in Vlans, p \in Ports}
    \cup {[op |-> "provision", name |-> red, vlan |-> 10, vni |-> 200, port |-> e1, dry |-> TRUE]}
SerialDeletes ==
  [op : {"delete"}, name : MCNames \cup {None}, dry : {FALSE}]
    \cup [op : {"delete"}, name : {10, bundle}, dry : {TRUE}]

\* Bound: either all calls are these and the switch is one netmcp leaves behind, or one
\* server makes two calls of any kind on any switch.
Racing == handmade = {} /\ \A s \in Servers : req[s] \in RaceProvisions \cup RaceDeletes \cup {None}
OneCaller == calls <= 2 /\ \E s \in Servers : \A t \in Servers \ {s} : req[t] = None
CallsBound == Racing \/ OneCaller

\* Servers are interchangeable.
ServerSymmetry == Permutations(Servers)
=============================================================================
