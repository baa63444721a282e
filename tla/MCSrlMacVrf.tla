----------------------------- MODULE MCSrlMacVrf -----------------------------
(* Small instances of SrlMacVrf: a service with objects of its own, and two    *)
(* services that share a VNI and a subinterface.                              *)
EXTENDS SrlMacVrf, TLC

CONSTANTS red, blue, green,  \* service names
          f1, f2,            \* access subinterfaces
          up                 \* a subinterface of an uplink, which may not be provisioned

MCServices == {red, blue, green}
MCVnis == {10, 20}
MCSubifs == {f1, f2, up}
MCAccess == {f1, f2}

Request(n, v, f) == [name |-> n, vni |-> v, subif |-> f, dry |-> FALSE]
OwnProvisions == {Request(red, 10, f1), Request(blue, 20, f2)}
MCProvisions ==
  OwnProvisions \cup {Request(green, 20, f2), Request(green, 20, up),
                      [Request(red, 10, f1) EXCEPT !.dry = TRUE]}

Remove(n) == [name |-> n, dry |-> FALSE]
MCDeletes == {Remove(n) : n \in MCServices} \cup {[Remove(red) EXCEPT !.dry = TRUE]}
OwnDeletes == {Remove(red), Remove(blue)}

\* The switch with the network-instances `on` (name -> network-instance), whose vxlan
\* interface v has VNI vni[v].
Switch(on, vni) ==
  [ni |-> [n \in MCServices |-> IF n \in DOMAIN on THEN on[n] ELSE None],
   vxlan |-> [v \in MCVnis |-> IF \E n \in DOMAIN on : v \in on[n].vxs THEN vni[v] ELSE None],
   subif |-> UNION {on[n].ifs : n \in DOMAIN on}]

Same == [v \in MCVnis |-> v]
Crossed == [v \in MCVnis |-> 30 - v]
Service(v, f) == [vxs |-> {v}, ifs |-> {f}]
Both == red :> Service(10, f1) @@ blue :> Service(20, f2)

\* Empty; provisioned before; an operator's, with index # VNI, or local, with neither
\* vxlan interface nor subinterface.
MCExisting ==
  {Switch([n \in {} |-> None], Same), Switch(Both, Same), Switch(red :> Service(10, f1), Crossed),
   Switch(red :> [vxs |-> {}, ifs |-> {}], Same)}

\* Servers are interchangeable.
ServerSymmetry == Permutations(Servers)
=============================================================================
