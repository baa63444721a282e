---------------------------- MODULE EosEvpnProofs ----------------------------
(***************************************************************************)
(* Proofs about EosEvpn, for any switch configuration, requests, servers and *)
(* faults.                                                                 *)
(***************************************************************************)
EXTENDS EosEvpn, TLAPS

\* What provision writes for a trunk list with entries has entries.
LEMMA WithVlanNotEmpty ==
  ASSUME NEW now, now # {}, NEW list, NEW v
  PROVE  WithVlan(now, list, v) # {}
  BY DEF WithVlan

\* What delete writes for a trunk list with entries has entries.
LEMMA WithoutVlanNotEmpty ==
  ASSUME NEW now, now # {}, NEW list, NEW v
  PROVE  WithoutVlan(now, list, v) # {}
  BY DEF WithoutVlan

\* The lists that provision and delete write are lists of items.
LEMMA TrunkListType ==
  ASSUME NEW now \in SUBSET Items, NEW list \in SUBSET Items, NEW v \in Vlans
  PROVE  /\ WithVlan(now, list, v) \in SUBSET Items
         /\ WithoutVlan(now, list, v) \in SUBSET Items
  BY DEF WithVlan, WithoutVlan, Items

\* Both edits keep the types of the switch's tables.
LEMMA AddServiceType ==
  ASSUME EosTypeOK, NEW q \in ProvisionRequest, NEW list \in SUBSET Items, AddService(q, list)
  PROVE  /\ evpn' \in EvpnTable
         /\ vlan' \in VlanTable
         /\ vni' \in VniTable
         /\ trunk' \in TrunkTable
<1>1. q.vlan \in Vlans /\ q.vlan \in Names /\ q.name \in Names /\ q.vni \in Vnis /\ q.port \in Ports
  BY EosAssumption DEF ProvisionRequest
<1>2. evpn' \in EvpnTable
  <2>1. (IF evpn[q.vlan] = None THEN {q.vlan} ELSE evpn[q.vlan] \cup {q.vlan}) \in SUBSET Vlans
    BY <1>1 DEF EosTypeOK, EvpnTable
  <2>2. QED
    BY <1>1, <2>1 DEF EosTypeOK, AddService, EvpnTable, VlanTable, VniTable, TrunkTable
<1>3. trunk' \in TrunkTable
  <2>1. WithVlan(trunk[q.port], list, q.vlan) \in SUBSET Items
    BY <1>1, TrunkListType DEF EosTypeOK, TrunkTable
  <2>2. QED
    BY <1>1, <2>1 DEF EosTypeOK, AddService, EvpnTable, VlanTable, VniTable, TrunkTable
<1>4. vlan' \in VlanTable
  BY <1>1 DEF EosTypeOK, AddService, EvpnTable, VlanTable, VniTable, TrunkTable
<1>5. vni' \in VniTable
  BY <1>1 DEF EosTypeOK, AddService, EvpnTable, VlanTable, VniTable, TrunkTable
<1>6. QED
  BY <1>2, <1>3, <1>4, <1>5

\* The same of what delete removes.
LEMMA RemoveServiceType ==
  ASSUME EosTypeOK, NEW lists \in TrunkTable,
         NEW t \in Target,
         RemoveService(t, lists)
  PROVE  /\ evpn' \in EvpnTable
         /\ vlan' \in VlanTable
         /\ vni' \in VniTable
         /\ trunk' \in TrunkTable
<1>1. trunk' \in TrunkTable
  <2>1. ASSUME NEW p \in Ports, t.vlan # None
        PROVE  WithoutVlan(trunk[p], lists[p], t.vlan) \in SUBSET Items
    BY <2>1, TrunkListType DEF EosTypeOK, TrunkTable, Target
  <2>2. QED
    BY <2>1 DEF EosTypeOK, RemoveService, EvpnTable, VlanTable, VniTable, TrunkTable, Target
<1>2. evpn' \in EvpnTable
  BY DEF EosTypeOK, RemoveService, EvpnTable, VlanTable, VniTable, TrunkTable, Target
<1>3. vlan' \in VlanTable /\ vni' \in VniTable
  BY DEF EosTypeOK, RemoveService, EvpnTable, VlanTable, VniTable, TrunkTable, Target
<1>4. QED
  BY <1>1, <1>2, <1>3

\* No step opens a trunk, whatever the state before it.
LEMMA TrunkStep ==
  ASSUME trunk \in TrunkTable, [EosNext]_eosVars, NEW p \in Ports, trunk[p] # {}
  PROVE  trunk'[p] # {}
<1>1. CASE UNCHANGED trunk
  BY <1>1
<1>2. ASSUME NEW q, NEW list, AddService(q, list) PROVE trunk'[p] # {}
  BY <1>2, WithVlanNotEmpty DEF AddService, TrunkTable
<1>3. ASSUME NEW t, NEW lists, RemoveService(t, lists) PROVE trunk'[p] # {}
  BY <1>3, WithoutVlanNotEmpty DEF RemoveService, TrunkTable
<1>4. ASSUME NEW s \in Servers, Set(s) PROVE trunk'[p] # {}
  BY <1>1, <1>2, <1>3, <1>4 DEF Set, Applied, device
<1>5. ASSUME NEW s \in Servers, Provision(s) \/ Delete(s) PROVE UNCHANGED trunk
  BY <1>5 DEF Provision, Delete, Begin, device
<1>6. ASSUME NEW s \in Servers, GetTrunk(s) \/ GetEvpn(s) \/ GetVlans(s) \/ GetVnis(s)
                                \/ GetInterfaces(s) \/ GetRaises(s)
      PROVE  UNCHANGED trunk
  BY <1>6 DEF GetTrunk, GetEvpn, GetVlans, GetVnis, GetInterfaces, GetRaises, device
<1>7. ASSUME NEW s \in Servers, Reply(s) \/ Crash(s) PROVE UNCHANGED trunk
  BY <1>7 DEF Reply, Crash, device
<1>8. CASE UNCHANGED eosVars
  BY <1>8 DEF eosVars, device
<1>9. QED
  BY <1>1, <1>4, <1>5, <1>6, <1>7, <1>8 DEF EosNext

\* The types that EosInv adds to EosTypeOK: a server that is about to read for,
\* or to send, a provision has the request of one, and likewise for delete.
RequestMatches ==
  \A s \in Servers :
    /\ pc[s] # "idle" => req[s] \in Provisions \cup Deletes
    /\ pc[s] = "trunk" => req[s] \in Provisions
    /\ pc[s] \in {"evpn", "vnis", "interfaces"} => req[s] \in Deletes

EosInv == EosTypeOK /\ RequestMatches

\* The initial states satisfy the invariant.
LEMMA EosInvInit == EosInit => EosInv
  BY EosAssumption
     DEF EosInit, EosInv, EosTypeOK, RequestMatches, Device, Seen, Target, NothingSeen,
         NoTarget, EosAnswers, EvpnTable, VlanTable, TrunkTable

\* NothingSeen and NoTarget have their types.
LEMMA EmptyTypes == NothingSeen \in Seen /\ NoTarget \in Target
  BY DEF NothingSeen, NoTarget, Seen, Target, EvpnTable, VlanTable, TrunkTable

\* Keeping what a GET returned keeps the types.
LEMMA SeenType ==
  ASSUME NEW seen \in Seen
  PROVE  /\ seen.evpn \in EvpnTable /\ seen.vlan \in VlanTable /\ seen.trunk \in TrunkTable
         /\ \A e \in EvpnTable : [seen EXCEPT !.evpn = e] \in Seen
         /\ \A v \in VlanTable : [seen EXCEPT !.vlan = v] \in Seen
         /\ \A l \in TrunkTable : [seen EXCEPT !.trunk = l] \in Seen
  BY DEF Seen

\* The bound on calls is kept.
LEMMA OneMoreCall == \A c \in 0..MaxCalls : c < MaxCalls => c + 1 \in 0..MaxCalls
<1>1. MaxCalls \in Nat
  BY EosAssumption
<1>2. QED
  BY ONLY <1>1

\* A request is what its op says.
LEMMA RequestKinds ==
  ASSUME NEW q \in Provisions \cup Deletes
  PROVE  /\ q.op = "provision" => q \in ProvisionRequest
         /\ q.op = "delete" => q \in Deletes
         /\ q \in Provisions => q \in ProvisionRequest /\ q.op = "provision"
         /\ q \in Deletes => q.op = "delete"
  BY EosAssumption DEF ProvisionRequest, DeleteRequest

\* A call that is moved on to p or answered keeps the invariant if it keeps the types.
LEMMA MoveInv ==
  ASSUME EosInv, NEW s \in Servers, pc[s] # "idle",
         NEW p \in {"idle", "vlans", "vnis", "interfaces", "set", "reply"},
         p \in {"vnis", "interfaces"} => req[s] \in Deletes,
         pc' = [pc EXCEPT ![s] = p],
         NEW a \in EosAnswers, said' = said \/ said' = [said EXCEPT ![s] = a],
         UNCHANGED <<req, handmade, calls>>, alone' \in [Servers -> BOOLEAN],
         evpn' \in EvpnTable, vlan' \in VlanTable, vni' \in VniTable, trunk' \in TrunkTable,
         sees' \in [Servers -> Seen], target' \in [Servers -> Target],
         wrote' \in [Servers -> BOOLEAN], lost' \in [Servers -> BOOLEAN]
  PROVE  EosInv'
<1>1. pc' \in [Servers -> {"idle", "set", "reply"} \cup Gets]
  BY DEF EosInv, EosTypeOK, Gets
<1>2. said' \in [Servers -> EosAnswers]
  BY DEF EosInv, EosTypeOK
<1>3. EosTypeOK'
  BY <1>1, <1>2 DEF EosInv, EosTypeOK
<1>4. ASSUME NEW u \in Servers
      PROVE  /\ pc'[u] # "idle" => req'[u] \in Provisions \cup Deletes
             /\ pc'[u] = "trunk" => req'[u] \in Provisions
             /\ pc'[u] \in {"evpn", "vnis", "interfaces"} => req'[u] \in Deletes
  <2>1. req'[u] = req[u] /\ pc'[u] = IF u = s THEN p ELSE pc[u]
    BY DEF EosInv, EosTypeOK
  <2>2. QED
    BY <2>1 DEF EosInv, RequestMatches
<1>5. QED
  BY <1>3, <1>4 DEF EosInv, RequestMatches

\* Every step preserves the invariant.
LEMMA EosInvStep == EosInv /\ [EosNext]_eosVars => EosInv'
<1> SUFFICES ASSUME EosInv, [EosNext]_eosVars PROVE EosInv'
  OBVIOUS
<1> USE EosAssumption DEF EosInv, EosTypeOK, RequestMatches, Gets, EosAnswers, device, past, Goto, End
<1> DEFINE Tables == /\ evpn' \in EvpnTable
                     /\ vlan' \in VlanTable
                     /\ vni' \in VniTable
                     /\ trunk' \in TrunkTable
<1>1. CASE UNCHANGED eosVars
  BY <1>1 DEF eosVars
<1>2. ASSUME NEW s \in Servers, NEW q \in Provisions \cup Deletes, NEW next, NEW answer \in EosAnswers,
             Begin(s, q, next, answer), next \in {"idle", "trunk", "evpn"},
             next = "trunk" => q \in Provisions, next = "evpn" => q \in Deletes
      PROVE  EosInv'
  <2>1. sees' \in [Servers -> Seen]
    BY <1>2, EmptyTypes DEF Begin
  <2>2. target' \in [Servers -> Target]
    BY <1>2, EmptyTypes DEF Begin
  <2>3. calls' \in 0..MaxCalls
    <3>1. calls < MaxCalls /\ calls' = calls + 1
      BY <1>2 DEF Begin
    <3>2. QED
      BY <3>1, OneMoreCall
  <2>4. EosTypeOK'
    BY <1>2, <2>1, <2>2, <2>3 DEF Begin
  <2>5. RequestMatches'
    BY <1>2 DEF Begin
  <2>6. QED
    BY <2>4, <2>5
<1>3. ASSUME NEW s \in Servers, Provision(s) PROVE EosInv'
  <2>1. PICK q \in Provisions : Begin(s, q, "trunk", "none") \/ Begin(s, q, "idle", "invalid")
    BY <1>3 DEF Provision
  <2>2. CASE Begin(s, q, "trunk", "none")
    <3>1. q \in Provisions \cup Deletes /\ "none" \in EosAnswers
      OBVIOUS
    <3>2. QED
      BY <1>2, <2>2, <3>1
  <2>3. CASE Begin(s, q, "idle", "invalid")
    <3>1. q \in Provisions \cup Deletes /\ "invalid" \in EosAnswers
      OBVIOUS
    <3>2. QED
      BY <1>2, <2>3, <3>1
  <2>4. QED
    BY <2>1, <2>2, <2>3
<1>4. ASSUME NEW s \in Servers, Delete(s) PROVE EosInv'
  <2>1. PICK q \in Deletes : Begin(s, q, "evpn", "none")
    BY <1>4 DEF Delete
  <2>2. QED
    BY <1>2, <2>1
<1>5. ASSUME NEW s \in Servers, GetTrunk(s) PROVE EosInv'
  <2>1. req[s] \in Provisions /\ req[s].port \in Ports
    BY <1>5, RequestKinds DEF GetTrunk, ProvisionRequest
  <2>2. sees' \in [Servers -> Seen]
    <3>1. sees[s].trunk \in TrunkTable /\ trunk[req[s].port] \in SUBSET Items
      BY <2>1, SeenType DEF TrunkTable
    <3>2. [sees[s].trunk EXCEPT ![req[s].port] = trunk[req[s].port]] \in TrunkTable
      BY <3>1 DEF TrunkTable
    <3>3. [sees[s] EXCEPT !.trunk[req[s].port] = trunk[req[s].port]] \in Seen
      BY <3>1, <3>2, SeenType
    <3>4. sees' = sees \/ \E x \in Seen : sees' = [sees EXCEPT ![s] = x]
      BY <1>5, <3>3 DEF GetTrunk
    <3>5. QED
      BY <3>4
  <2>3. /\ pc[s] # "idle" /\ UNCHANGED <<evpn, vlan, vni, trunk, req, target, wrote, past>>
        /\ \/ pc' = [pc EXCEPT ![s] = "vlans"] /\ said' = said
           \/ End(s, "not a trunk")
    BY <1>5 DEF GetTrunk
  <2>4. QED
    BY <2>2, <2>3, MoveInv
<1>6. ASSUME NEW s \in Servers, GetEvpn(s) PROVE EosInv'
  <2>1. sees' \in [Servers -> Seen]
    <3>1. [sees[s] EXCEPT !.evpn = evpn] \in Seen
      BY SeenType
    <3>2. sees' = sees \/ sees' = [sees EXCEPT ![s] = [sees[s] EXCEPT !.evpn = evpn]]
      BY <1>6 DEF GetEvpn
    <3>3. QED
      BY <3>1, <3>2
  <2>2. QED
    BY <1>6, <2>1 DEF GetEvpn
<1>7. ASSUME NEW s \in Servers, GetVlans(s) PROVE EosInv'
  <2>1. sees' \in [Servers -> Seen]
    <3>1. [sees[s] EXCEPT !.vlan = vlan] \in Seen
      BY SeenType
    <3>2. sees' = sees \/ sees' = [sees EXCEPT ![s] = [sees[s] EXCEPT !.vlan = vlan]]
      BY <1>7 DEF GetVlans
    <3>3. QED
      BY <3>1, <3>2
  <2>2. UNCHANGED <<evpn, vlan, vni, trunk, req, target, wrote, past>>
    BY <1>7 DEF GetVlans
  <2>3. \/ pc' = [pc EXCEPT ![s] = "set"] /\ said' = said
        \/ req[s].op = "delete" /\ pc' = [pc EXCEPT ![s] = "vnis"] /\ said' = said
        \/ \E a \in {"exists", "dry run"} : End(s, a)
    BY <1>7 DEF GetVlans
  <2>4. pc[s] # "idle" /\ (req[s].op = "delete" => req[s] \in Deletes)
    BY <1>7, RequestKinds DEF GetVlans
  <2>5. QED
    BY <2>1, <2>2, <2>3, <2>4, MoveInv
<1>8. ASSUME NEW s \in Servers, GetVnis(s) PROVE EosInv'
  <2>1. target' \in [Servers -> Target]
    <3>1. ASSUME NEW f \in FirstVlans(s), NEW n \in Names
          PROVE  [name |-> n, vlan |-> f[n], vni |-> f[n] # None /\ vni[f[n]] # None] \in Target
      BY <3>1 DEF FirstVlans, Target
    <3>2. target' = target \/ \E t \in Target : target' = [target EXCEPT ![s] = t]
      BY <1>8, <3>1 DEF GetVnis
    <3>3. QED
      BY <3>2
  <2>2. req[s] \in Deletes /\ UNCHANGED <<evpn, vlan, vni, trunk, req, sees, wrote, past>>
    BY <1>8 DEF GetVnis
  <2>3. \/ \E p \in {"interfaces", "set"} : pc' = [pc EXCEPT ![s] = p] /\ said' = said
        \/ \E a \in {"not found", "dry run"} : End(s, a)
    BY <1>8 DEF GetVnis
  <2>4. pc' \in [Servers -> {"idle", "set", "reply"} \cup Gets]
    BY <2>3
  <2>5. said' \in [Servers -> EosAnswers]
    BY <2>3
  <2>6. QED
    BY <2>1, <2>2, <2>3, <2>4, <2>5
<1>9. ASSUME NEW s \in Servers, GetInterfaces(s) PROVE EosInv'
  <2>1. sees' \in [Servers -> Seen]
    BY <1>9, SeenType DEF GetInterfaces
  <2>2. QED
    BY <1>9, <2>1 DEF GetInterfaces
<1>10. ASSUME NEW s \in Servers, GetRaises(s) PROVE EosInv'
  BY <1>10 DEF GetRaises
<1>11. ASSUME NEW s \in Servers, Set(s) PROVE EosInv'
  <2>1. Tables
    <3>1. CASE UNCHANGED <<evpn, vlan, vni, trunk>>
      BY <3>1
    <3>2. CASE req[s].op = "provision" /\ AddService(req[s], sees[s].trunk[req[s].port])
      <4>1. req[s] \in ProvisionRequest /\ req[s].port \in Ports
        BY <1>11, <3>2, RequestKinds DEF Set, ProvisionRequest
      <4>2. sees[s].trunk[req[s].port] \in SUBSET Items
        <5>1. sees[s].trunk \in TrunkTable
          BY SeenType
        <5>2. QED
          BY <4>1, <5>1 DEF TrunkTable
      <4>3. QED
        BY <3>2, <4>1, <4>2, AddServiceType
    <3>3. CASE RemoveService(target[s], sees[s].trunk)
      BY <3>3, RemoveServiceType, SeenType
    <3>4. QED
      BY <1>11, <3>1, <3>2, <3>3 DEF Set, Applied
  <2>2. /\ pc[s] # "idle" /\ UNCHANGED <<req, sees, target, lost, handmade, calls>>
        /\ \/ pc' = [pc EXCEPT ![s] = "reply"] /\ said' = said
           \/ End(s, "error") \/ End(s, "raised")
    BY <1>11 DEF Set
  <2>3. wrote' \in [Servers -> BOOLEAN] /\ alone' \in [Servers -> BOOLEAN]
    BY <1>11 DEF Set, Applied
  <2>4. QED
    BY <2>1, <2>2, <2>3, MoveInv
<1>12. ASSUME NEW s \in Servers, Reply(s) PROVE EosInv'
  <2>1. /\ pc[s] # "idle" /\ UNCHANGED <<evpn, vlan, vni, trunk, req, sees, target, wrote>>
        /\ UNCHANGED <<alone, handmade, calls>>
        /\ End(s, "ok") \/ End(s, "error")
    BY <1>12 DEF Reply
  <2>2. lost' \in [Servers -> BOOLEAN]
    BY <1>12 DEF Reply
  <2>3. QED
    BY <2>1, <2>2, MoveInv
<1>13. ASSUME NEW s \in Servers, Crash(s) PROVE EosInv'
  BY <1>13 DEF Crash
<1>14. QED
  BY <1>1, <1>3, <1>4, <1>5, <1>6, <1>7, <1>8, <1>9, <1>10, <1>11, <1>12, <1>13 DEF EosNext

\* EosInv holds throughout.
THEOREM EosInvariant == EosSpec => []EosInv
  BY EosInvInit, EosInvStep, PTL DEF EosSpec

\* The variables keep their types.
THEOREM EosTypeCorrect == EosSpec => []EosTypeOK
<1>1. EosInv => EosTypeOK
  BY DEF EosInv
<1>2. QED
  BY <1>1, EosInvariant, PTL

\* No provision and no delete ever opens a trunk to all VLANs, however stale
\* what it has read, and whatever fails (backend.py:375-378 and 414-421).
THEOREM TrunksStayClosed == EosSpec => TrunkNeverOpened
<1>1. EosInv /\ [EosNext]_eosVars
        => [\A p \in Ports : trunk[p] # {} => trunk'[p] # {}]_eosVars
  BY TrunkStep DEF EosInv, EosTypeOK
<1>2. QED
  BY <1>1, EosInvariant, PTL DEF EosSpec, TrunkNeverOpened

-----------------------------------------------------------------------------
(* VLANs that only netmcp puts into instances: an instance that lists such a VLAN *)
(* is named for it, so what a delete has found is about both, however stale.       *)

\* The instances that list VLANs no operator has put into one are named for them.
NamedForVlan(instances) ==
  \A n \in Names, v \in Vlans \ handmade :
    instances[n] # None /\ v \in instances[n] => n = v

NetmcpInv ==
  /\ NamedForVlan(evpn)
  /\ InstanceBacked
  /\ \A s \in Servers :
       /\ NamedForVlan(sees[s].evpn)
       /\ target[s].vlan \in Vlans \ handmade => target[s].name = target[s].vlan

\* Provision keeps instances backed.
LEMMA AddServiceBacked ==
  ASSUME EosInv, NetmcpInv, UNCHANGED handmade,
         NEW q \in ProvisionRequest, NEW list, AddService(q, list)
  PROVE  NamedForVlan(evpn)' /\ InstanceBacked'
<1>1. q.vlan \in Vlans /\ q.vlan \in Names /\ q.name # None /\ q.vni # None
  BY EosAssumption DEF ProvisionRequest
<1>2. vlan'[q.vlan] # None /\ vni'[q.vlan] # None
  BY <1>1 DEF AddService, EosInv, EosTypeOK, VlanTable, VniTable
<1>3. \A v \in Vlans \ {q.vlan} : vlan'[v] = vlan[v] /\ vni'[v] = vni[v]
  BY DEF AddService, EosInv, EosTypeOK, VlanTable, VniTable
<1>4. ASSUME NEW n \in Names, NEW v \in Vlans, evpn'[n] # None, v \in evpn'[n]
      PROVE  (n = q.vlan /\ v = q.vlan) \/ (evpn[n] # None /\ v \in evpn[n])
  BY <1>1, <1>4 DEF AddService, EosInv, EosTypeOK, EvpnTable
<1>5. NamedForVlan(evpn)'
  BY <1>4 DEF NetmcpInv, NamedForVlan
<1>6. \A n \in Names : evpn'[n] # None => evpn'[n] \subseteq Vlans
  BY <1>1 DEF AddService, EosInv, EosTypeOK, EvpnTable
<1>7. ASSUME NEW n \in Names, NEW v \in Members(n)' \ handmade'
      PROVE  Created(v)'
  <2>1. v \in Vlans /\ evpn'[n] # None /\ v \in evpn'[n]
    BY <1>6, <1>7 DEF Members
  <2>2. CASE v = q.vlan
    BY <1>2, <2>2 DEF Created
  <2>3. CASE v # q.vlan
    <3>1. Created(v)
      BY <1>4, <2>1, <2>3 DEF NetmcpInv, InstanceBacked, Members
    <3>2. QED
      BY <1>3, <2>1, <2>3, <3>1 DEF Created
  <2>4. QED
    BY <2>2, <2>3
<1>8. QED
  BY <1>5, <1>7 DEF InstanceBacked

\* A delete whose target, if its VLAN is such a VLAN, is named for it does too.
LEMMA RemoveServiceBacked ==
  ASSUME EosInv, NetmcpInv, UNCHANGED handmade, NEW t \in Target,
         t.vlan \in Vlans \ handmade => t.name = t.vlan,
         NEW lists, RemoveService(t, lists)
  PROVE  NamedForVlan(evpn)' /\ InstanceBacked'
<1>1. \A n \in Names : evpn'[n] = IF n = t.name THEN None ELSE evpn[n]
  BY DEF RemoveService, EosInv, EosTypeOK, EvpnTable
<1>2. \A v \in Vlans \ {t.vlan} : vlan'[v] = vlan[v] /\ vni'[v] = vni[v]
  BY DEF RemoveService
<1>3. NamedForVlan(evpn)'
  BY <1>1 DEF NetmcpInv, NamedForVlan
<1>4. ASSUME NEW n \in Names, NEW v \in Members(n)' \ handmade'
      PROVE  Created(v)'
  <2>1. n # t.name /\ evpn[n] # None /\ v \in evpn[n] /\ v \in Members(n) \ handmade
    BY <1>1, <1>4 DEF Members
  <2>2. v \in Vlans
    BY <2>1 DEF EosInv, EosTypeOK, EvpnTable
  <2>3. n = v
    BY <2>1, <2>2 DEF NetmcpInv, NamedForVlan
  <2>4. v # t.vlan
    BY <2>1, <2>2, <2>3
  <2>5. Created(v)
    BY <2>1 DEF NetmcpInv, InstanceBacked
  <2>6. QED
    BY <1>2, <2>2, <2>4, <2>5 DEF Created
<1>5. QED
  BY <1>3, <1>4 DEF InstanceBacked

\* Every step keeps the invariant of such VLANs.
LEMMA NetmcpInvStep == EosInv /\ NetmcpInv /\ [EosNext]_eosVars => NetmcpInv'
<1> SUFFICES ASSUME EosInv, NetmcpInv, [EosNext]_eosVars PROVE NetmcpInv'
  OBVIOUS
<1> DEFINE Switch == NamedForVlan(evpn)' /\ InstanceBacked'
<1> DEFINE Readers ==
      \A s \in Servers :
        /\ NamedForVlan(sees'[s].evpn)
        /\ target'[s].vlan \in Vlans \ handmade => target'[s].name = target'[s].vlan
<1>1. ASSUME UNCHANGED <<device, handmade>> PROVE Switch
  BY <1>1 DEF NetmcpInv, NamedForVlan, InstanceBacked, Members, Created, device
<1>2. ASSUME UNCHANGED <<sees, target>> PROVE Readers
  BY <1>2 DEF NetmcpInv
<1>3. ASSUME NEW s \in Servers, NEW q, NEW next, NEW answer, Begin(s, q, next, answer)
      PROVE  Switch /\ Readers
  <2>1. NamedForVlan(NothingSeen.evpn) /\ NoTarget.vlan \notin Vlans
    BY EosAssumption DEF NamedForVlan, NothingSeen, NoTarget
  <2>2. \A u \in Servers : /\ sees'[u] = NothingSeen \/ sees'[u] = sees[u]
                           /\ target'[u] = NoTarget \/ target'[u] = target[u]
    BY <1>3 DEF Begin, EosInv, EosTypeOK
  <2>3. Readers
    BY <2>1, <2>2 DEF NetmcpInv
  <2>4. QED
    BY <1>1, <1>3, <2>3 DEF Begin
<1>4. ASSUME NEW s \in Servers, Provision(s) \/ Delete(s) PROVE Switch /\ Readers
  BY <1>3, <1>4 DEF Provision, Delete
<1>5. ASSUME NEW s \in Servers, GetTrunk(s) \/ GetEvpn(s) \/ GetVlans(s) \/ GetInterfaces(s)
      PROVE  Switch /\ Readers
  <2>1. \A u \in Servers : sees'[u].evpn = sees[u].evpn \/ sees'[u].evpn = evpn
    <3>1. \/ UNCHANGED sees
          \/ \E e \in {evpn, sees[s].evpn} :
               \E r \in Seen : r.evpn = e /\ sees' = [sees EXCEPT ![s] = r]
      <4>1. sees[s] \in Seen /\ evpn \in EvpnTable /\ vlan \in VlanTable /\ trunk \in TrunkTable
        BY DEF EosInv, EosTypeOK
      <4>2. CASE GetTrunk(s)
        <5>1. CASE UNCHANGED sees
          BY <5>1
        <5>2. CASE sees' = [sees EXCEPT ![s].trunk[req[s].port] = trunk[req[s].port]]
          <6>1. req[s].port \in Ports
            BY <4>2, RequestKinds DEF GetTrunk, EosInv, RequestMatches, ProvisionRequest
          <6>2. [sees[s].trunk EXCEPT ![req[s].port] = trunk[req[s].port]] \in TrunkTable
            BY <4>1, <6>1 DEF Seen, TrunkTable
          <6>3. QED
            BY <4>1, <5>2, <6>2 DEF Seen
        <5>3. QED
          BY <4>2, <5>1, <5>2 DEF GetTrunk
      <4>3. CASE GetEvpn(s)
        BY <4>1, <4>3 DEF GetEvpn, Seen
      <4>4. CASE GetVlans(s)
        BY <4>1, <4>4 DEF GetVlans, Seen
      <4>5. CASE GetInterfaces(s)
        BY <4>1, <4>5 DEF GetInterfaces, Seen
      <4>6. QED
        BY <1>5, <4>2, <4>3, <4>4, <4>5
    <3>2. QED
      BY <3>1 DEF EosInv, EosTypeOK
  <2>2. UNCHANGED <<device, handmade, target>>
    BY <1>5 DEF GetTrunk, GetEvpn, GetVlans, GetInterfaces, past
  <2>3. Readers
    BY <2>1, <2>2 DEF NetmcpInv, NamedForVlan
  <2>4. QED
    BY <1>1, <2>2, <2>3
<1>6. ASSUME NEW s \in Servers, GetVnis(s) PROVE Switch /\ Readers
  <2>1. ASSUME NEW f \in FirstVlans(s), NEW n \in Names, Answers(s, n, f[n]),
               f[n] \in Vlans \ handmade
        PROVE  f[n] = n
    <3>1. sees[s].evpn[n] # None /\ f[n] # None
      BY <2>1, EosAssumption DEF Answers
    <3>2. f[n] \in sees[s].evpn[n]
      BY <2>1, <3>1 DEF FirstVlans
    <3>3. QED
      BY <2>1, <3>1, <3>2 DEF NetmcpInv, NamedForVlan
  <2>2. \/ target' = target
        \/ \E t : /\ t.vlan \in Vlans \ handmade => t.name = t.vlan
                  /\ target' = [target EXCEPT ![s] = t]
    BY <1>6, <2>1 DEF GetVnis
  <2>3. \A u \in Servers : target'[u].vlan \in Vlans \ handmade => target'[u].name = target'[u].vlan
    BY <2>2 DEF NetmcpInv, EosInv, EosTypeOK
  <2>4. UNCHANGED <<device, handmade, sees>>
    BY <1>6 DEF GetVnis, past
  <2>5. QED
    BY <1>1, <2>3, <2>4 DEF NetmcpInv
<1>7. ASSUME NEW s \in Servers, Set(s) PROVE Switch /\ Readers
  <2>1. UNCHANGED <<handmade, req, sees, target>> /\ pc[s] = "set"
    BY <1>7 DEF Set, past
  <2>2. CASE UNCHANGED device
    BY <1>1, <1>2, <2>1, <2>2
  <2>3. CASE req[s].op = "provision" /\ AddService(req[s], sees[s].trunk[req[s].port])
    <3>1. req[s] \in ProvisionRequest
      BY <2>1, <2>3, RequestKinds DEF EosInv, RequestMatches
    <3>2. QED
      BY <1>2, <2>1, <2>3, <3>1, AddServiceBacked
  <2>4. CASE RemoveService(target[s], sees[s].trunk)
    <3>1. /\ target[s] \in Target
          /\ target[s].vlan \in Vlans \ handmade => target[s].name = target[s].vlan
      BY DEF EosInv, EosTypeOK, NetmcpInv
    <3>2. QED
      BY <1>2, <2>1, <2>4, <3>1, RemoveServiceBacked
  <2>5. QED
    BY <1>7, <2>2, <2>3, <2>4 DEF Set, Applied
<1>8. ASSUME NEW s \in Servers, GetRaises(s) \/ Reply(s) \/ Crash(s) PROVE Switch /\ Readers
  BY <1>1, <1>2, <1>8 DEF GetRaises, Reply, Crash, past
<1>9. ASSUME UNCHANGED eosVars PROVE Switch /\ Readers
  BY <1>1, <1>2, <1>9 DEF eosVars, past
<1>10. UNCHANGED handmade
  BY DEF EosNext, eosVars, past, Provision, Delete, Begin, GetTrunk, GetEvpn, GetVlans, GetVnis,
         GetInterfaces, GetRaises, Set, Reply, Crash
<1>11. ASSUME Switch, Readers PROVE NetmcpInv'
  BY <1>10, <1>11 DEF NetmcpInv, NamedForVlan
<1>12. QED
  BY <1>4, <1>5, <1>6, <1>7, <1>8, <1>9, <1>11 DEF EosNext

\* No interleaving of provisions and deletes, and no failure or crash, ever leaves
\* an evpn-instance without the VLAN it lists or without that VLAN's VNI mapping, if
\* only netmcp put that VLAN there (backend.py:296-438 writes all of them in one Set).
THEOREM InstancesStayBacked == EosSpec => []InstanceBacked
<1>1. EosInit => NetmcpInv
  <2>1. \A s \in Servers : EosInit => sees[s] = NothingSeen /\ target[s] = NoTarget
    BY DEF EosInit
  <2>2. NamedForVlan(NothingSeen.evpn) /\ NoTarget.vlan \notin Vlans
    BY EosAssumption DEF NamedForVlan, NothingSeen, NoTarget
  <2>3. EosInit => NamedForVlan(evpn)
    BY DEF EosInit, NamedForVlan, Members
  <2>4. EosInit => InstanceBacked
    <3>1. EosInit => evpn \in EvpnTable
      BY EosAssumption DEF EosInit, Device
    <3>2. EosInit => \A n \in Names : Members(n) \subseteq Vlans
      BY <3>1 DEF Members, EvpnTable
    <3>3. QED
      BY <3>2 DEF EosInit, InstanceBacked
  <2>5. QED
    BY <2>1, <2>2, <2>3, <2>4 DEF NetmcpInv
<1>2. NetmcpInv => InstanceBacked
  BY DEF NetmcpInv
<1>3. QED
  BY <1>1, <1>2, NetmcpInvStep, EosInvariant, PTL DEF EosSpec

-----------------------------------------------------------------------------
(* Calls during which no other one has changed the switch.                 *)

\* What call s has read and will use is still so.
ReadsCurrent(s) ==
  /\ req[s].op = "provision" /\ pc[s] \in {"vlans", "set"} =>
       sees[s].trunk[req[s].port] = trunk[req[s].port]
  /\ req[s].op = "delete" /\ pc[s] \in {"interfaces", "set"} /\ target[s].vlan # None =>
       target[s].vni = (vni[target[s].vlan] # None)
  /\ req[s].op = "delete" /\ pc[s] = "set" /\ target[s].vlan # None => sees[s].trunk = trunk

\* The service is there and its port carries it; or it is gone.
Works(q) == vlan[q.vlan] = q.name /\ vni[q.vlan] = q.vni /\ q.vlan \in Members(q.vlan) /\ Carries(q.port, q.vlan)
Gone(t) ==
  /\ evpn[t.name] = None
  /\ t.vlan # None => /\ vlan[t.vlan] = None
                      /\ vni[t.vlan] = None
                      /\ \A p \in Ports : t.vlan \in trunk[p] => trunk[p] = {t.vlan}
Result(s) == /\ req[s].op = "provision" => Works(req[s])
             /\ req[s].op = "delete" => Gone(target[s])

\* A call at work has said nothing; until another one changes the switch, what a call has
\* read is so, and once its Set is applied, its service is as it has made it.
AloneInv ==
  /\ \A s \in Servers : pc[s] # "idle" => said[s] = "none" /\ lost[s] = FALSE
  /\ \A s \in Servers : req[s].op = "delete" /\ pc[s] \in {"interfaces", "set"} =>
       target[s].name \in Names
  /\ \A s \in Servers : alone[s] /\ pc[s] # "idle" => ReadsCurrent(s)
  /\ \A s \in Servers : alone[s] /\ (pc[s] = "reply" \/ said[s] = "ok") => Result(s)

\* While the switch stays, what holds of a call that takes no step stays.
LEMMA OtherCall ==
  ASSUME UNCHANGED device, NEW u \in Servers,
         pc'[u] = pc[u], req'[u] = req[u], sees'[u] = sees[u], target'[u] = target[u]
  PROVE  ReadsCurrent(u)' = ReadsCurrent(u) /\ Result(u)' = Result(u)
  BY DEF Result, ReadsCurrent, Works, Gone, Members, Carries, device

\* The Set of a provision whose port's list is as it has read it.
LEMMA AddServiceWorks ==
  ASSUME EosInv, NEW q \in ProvisionRequest, AddService(q, trunk[q.port])
  PROVE  Works(q)'
<1>1. q.vlan \in Vlans /\ q.vlan \in Names /\ q.port \in Ports
  BY EosAssumption DEF ProvisionRequest
<1>2. vlan'[q.vlan] = q.name /\ vni'[q.vlan] = q.vni
  BY <1>1 DEF AddService, EosInv, EosTypeOK, VlanTable, VniTable
<1>3. q.vlan \in Members(q.vlan)'
  <2>1. evpn'[q.vlan] # None /\ q.vlan \in evpn'[q.vlan]
    BY <1>1, AddServiceType, EosAssumption DEF AddService, EosInv, EosTypeOK, EvpnTable
  <2>2. QED
    BY <2>1 DEF Members
<1>4. Carries(q.port, q.vlan)'
  <2>1. trunk'[q.port] = WithVlan(trunk[q.port], trunk[q.port], q.vlan)
    BY <1>1 DEF AddService, EosInv, EosTypeOK, TrunkTable
  <2>2. QED
    BY <2>1 DEF WithVlan, Carries, VlanInTrunkList
<1>5. QED
  BY <1>2, <1>3, <1>4 DEF Works

\* The Set of a delete whose lists and VNI mapping are as it has read them.
LEMMA RemoveServiceGone ==
  ASSUME EosInv, NEW t \in Target, t.name \in Names, NEW lists,
         t.vlan # None => t.vni = (vni[t.vlan] # None) /\ lists = trunk,
         RemoveService(t, lists)
  PROVE  Gone(t)'
<1>1. evpn'[t.name] = None
  BY DEF RemoveService, EosInv, EosTypeOK, EvpnTable
<1>2. ASSUME t.vlan # None
      PROVE  /\ vlan'[t.vlan] = None /\ vni'[t.vlan] = None
             /\ \A p \in Ports : t.vlan \in trunk'[p] => trunk'[p] = {t.vlan}
  <2>1. t.vlan \in Vlans
    BY <1>2 DEF Target
  <2>2. vlan'[t.vlan] = None /\ vni'[t.vlan] = None
    BY <1>2, <2>1 DEF RemoveService
  <2>3. ASSUME NEW p \in Ports, t.vlan \in trunk'[p] PROVE trunk'[p] = {t.vlan}
    <3>1. trunk'[p] = WithoutVlan(trunk[p], trunk[p], t.vlan)
      BY <1>2, <2>3 DEF RemoveService
    <3>2. QED
      BY <2>3, <3>1 DEF WithoutVlan
  <2>4. QED
    BY <2>2, <2>3
<1>3. QED
  BY <1>1, <1>2 DEF Gone

\* A step of s that leaves the switch alone and does not say "ok".
LEMMA QuietStep ==
  ASSUME EosInv, AloneInv, NEW s \in Servers, NEW p, p # "idle" => said' = said,
         pc[s] \notin {"idle", "reply"}, p # "reply",
         pc' = [pc EXCEPT ![s] = p], UNCHANGED <<device, req, alone, lost>>,
         \/ UNCHANGED said
         \/ \E a \in EosAnswers \ {"ok"} : said' = [said EXCEPT ![s] = a],
         \A u \in Servers \ {s} : sees'[u] = sees[u] /\ target'[u] = target[u],
         req[s].op = "delete" /\ p \in {"interfaces", "set"} => target'[s].name \in Names,
         alone[s] /\ p # "idle" => ReadsCurrent(s)'
  PROVE  AloneInv'
<1>1. /\ pc'[s] = p /\ said'[s] # "ok" /\ said[s] = "none"
      /\ \A u \in Servers \ {s} : pc'[u] = pc[u] /\ said'[u] = said[u]
  BY DEF EosInv, EosTypeOK, AloneInv
<1>2. \A u \in Servers \ {s} : ReadsCurrent(u)' = ReadsCurrent(u) /\ Result(u)' = Result(u)
  BY <1>1, OtherCall
<1>3. \A u \in Servers : pc'[u] # "idle" => said'[u] = "none" /\ lost'[u] = FALSE
  BY <1>1 DEF AloneInv
<1>4. \A u \in Servers : req'[u].op = "delete" /\ pc'[u] \in {"interfaces", "set"} => target'[u].name \in Names
  BY <1>1 DEF AloneInv
<1>5. \A u \in Servers : alone'[u] /\ pc'[u] # "idle" => ReadsCurrent(u)'
  BY <1>1, <1>2 DEF AloneInv
<1>6. \A u \in Servers : alone'[u] /\ (pc'[u] = "reply" \/ said'[u] = "ok") => Result(u)'
  BY <1>1, <1>2 DEF AloneInv
<1>7. QED
  BY <1>3, <1>4, <1>5, <1>6 DEF AloneInv

LEMMA AloneInvStep == EosInv /\ AloneInv /\ [EosNext]_eosVars => AloneInv'
<1> SUFFICES ASSUME EosInv, AloneInv, [EosNext]_eosVars PROVE AloneInv'
  OBVIOUS
<1>1. ASSUME NEW s \in Servers, NEW q, NEW next \in {"idle", "trunk", "evpn"}, NEW answer \in {"none", "invalid"},
             next # "idle" => answer = "none", Begin(s, q, next, answer)
      PROVE  AloneInv'
  <2>1. /\ pc[s] = "idle" /\ pc'[s] = next /\ said'[s] = answer /\ lost'[s] = FALSE
        /\ \A u \in Servers \ {s} : /\ pc'[u] = pc[u] /\ said'[u] = said[u] /\ lost'[u] = lost[u]
                                    /\ req'[u] = req[u] /\ target'[u] = target[u] /\ sees'[u] = sees[u]
                                    /\ alone'[u] = alone[u]
        /\ UNCHANGED device
    BY <1>1 DEF Begin, EosInv, EosTypeOK
  <2>2. ReadsCurrent(s)'
    BY <2>1 DEF ReadsCurrent
  <2>3. \A u \in Servers \ {s} : ReadsCurrent(u)' = ReadsCurrent(u) /\ Result(u)' = Result(u)
    BY <2>1, OtherCall
  <2>4. \A u \in Servers : alone'[u] /\ pc'[u] # "idle" => ReadsCurrent(u)'
    BY <2>1, <2>2, <2>3 DEF AloneInv
  <2>5. \A u \in Servers : alone'[u] /\ (pc'[u] = "reply" \/ said'[u] = "ok") => Result(u)'
    BY <2>1, <2>3 DEF AloneInv
  <2>6. /\ \A u \in Servers : pc'[u] # "idle" => said'[u] = "none" /\ lost'[u] = FALSE
        /\ \A u \in Servers : req'[u].op = "delete" /\ pc'[u] \in {"interfaces", "set"} => target'[u].name \in Names
    BY <1>1, <2>1 DEF AloneInv
  <2>7. QED
    BY <2>4, <2>5, <2>6 DEF AloneInv
<1>2. ASSUME NEW s \in Servers, Provision(s) \/ Delete(s) PROVE AloneInv'
  BY <1>1, <1>2 DEF Provision, Delete
<1>3. ASSUME NEW s \in Servers, GetTrunk(s) PROVE AloneInv'
  <2>1. req[s] \in Provisions /\ req[s].op = "provision" /\ req[s].port \in Ports
    BY <1>3, RequestKinds DEF GetTrunk, ProvisionRequest, EosInv, RequestMatches
  <2>2. CASE End(s, "not a trunk")
    <3>1. /\ pc[s] = "trunk" /\ pc' = [pc EXCEPT ![s] = "idle"] /\ UNCHANGED <<device, req, alone, lost, target>>
          /\ said' = [said EXCEPT ![s] = "not a trunk"] /\ "not a trunk" \in EosAnswers \ {"ok"}
          /\ \A u \in Servers \ {s} : sees'[u] = sees[u]
      BY <1>3, <2>2 DEF GetTrunk, End, past, EosAnswers, EosInv, EosTypeOK
    <3>2. QED
      BY <2>1, <3>1, QuietStep
  <2>3. CASE /\ sees' = [sees EXCEPT ![s].trunk[req[s].port] = trunk[req[s].port]]
             /\ Goto(s, "vlans")
    <3>1. /\ pc[s] = "trunk" /\ pc' = [pc EXCEPT ![s] = "vlans"] /\ UNCHANGED <<device, req, alone, lost, target, said>>
          /\ \A u \in Servers \ {s} : sees'[u] = sees[u]
      BY <1>3, <2>3 DEF GetTrunk, Goto, past, EosInv, EosTypeOK
    <3>2. sees'[s].trunk[req[s].port] = trunk[req[s].port]
      <4>1. sees[s] \in Seen /\ sees[s].trunk \in TrunkTable
        BY SeenType DEF EosInv, EosTypeOK
      <4>2. sees'[s] = [sees[s] EXCEPT !.trunk = [@ EXCEPT ![req[s].port] = trunk[req[s].port]]]
        BY <2>3 DEF EosInv, EosTypeOK
      <4>3. sees'[s].trunk = [sees[s].trunk EXCEPT ![req[s].port] = trunk[req[s].port]]
        BY <4>1, <4>2 DEF Seen
      <4>4. QED
        BY <2>1, <4>1, <4>3 DEF TrunkTable
    <3>3. ReadsCurrent(s)'
      BY <2>1, <3>1, <3>2 DEF ReadsCurrent, device
    <3>4. QED
      BY <2>1, <3>1, <3>3, QuietStep
  <2>4. QED
    BY <1>3, <2>2, <2>3 DEF GetTrunk
<1>4. ASSUME NEW s \in Servers, GetEvpn(s) PROVE AloneInv'
  <2>1. /\ req[s].op = "delete" /\ pc[s] = "evpn" /\ UNCHANGED <<device, req, alone, lost, target>>
        /\ \A u \in Servers \ {s} : sees'[u] = sees[u]
    BY <1>4, RequestKinds DEF GetEvpn, past, EosInv, EosTypeOK, RequestMatches
  <2>2. CASE End(s, "not found")
    <3>1. /\ pc' = [pc EXCEPT ![s] = "idle"] /\ said' = [said EXCEPT ![s] = "not found"]
          /\ "not found" \in EosAnswers \ {"ok"}
      BY <2>2 DEF End, EosAnswers
    <3>2. QED
      BY <2>1, <3>1, QuietStep
  <2>3. CASE Goto(s, "vlans")
    <3>1. pc' = [pc EXCEPT ![s] = "vlans"] /\ said' = said
      BY <2>3 DEF Goto
    <3>2. ReadsCurrent(s)'
      BY <2>1, <3>1 DEF ReadsCurrent, EosInv, EosTypeOK
    <3>3. QED
      BY <2>1, <3>1, <3>2, QuietStep
  <2>4. QED
    BY <1>4, <2>2, <2>3 DEF GetEvpn
<1>5. ASSUME NEW s \in Servers, GetVlans(s) PROVE AloneInv'
  <2>1. /\ pc[s] = "vlans" /\ UNCHANGED <<device, req, alone, lost, target>>
        /\ \A u \in Servers \ {s} : sees'[u] = sees[u]
    BY <1>5 DEF GetVlans, past, EosInv, EosTypeOK
  <2>2. ASSUME NEW a \in {"exists", "dry run"}, End(s, a) PROVE AloneInv'
    <3>1. /\ pc' = [pc EXCEPT ![s] = "idle"] /\ said' = [said EXCEPT ![s] = a]
          /\ a \in EosAnswers \ {"ok"}
      BY <2>2 DEF End, EosAnswers
    <3>2. QED
      BY <2>1, <3>1, QuietStep
  <2>3. CASE req[s].op = "provision" /\ Goto(s, "set") /\ UNCHANGED sees
    <3>1. pc' = [pc EXCEPT ![s] = "set"] /\ pc'[s] = "set" /\ said' = said
      BY <2>3 DEF Goto, EosInv, EosTypeOK
    <3>2. ASSUME alone[s] PROVE ReadsCurrent(s)'
      BY <2>1, <2>3, <3>1, <3>2 DEF ReadsCurrent, AloneInv, device
    <3>3. QED
      BY <2>1, <2>3, <3>1, <3>2, QuietStep
  <2>4. CASE req[s].op = "delete" /\ Goto(s, "vnis")
    <3>1. pc' = [pc EXCEPT ![s] = "vnis"] /\ pc'[s] = "vnis" /\ said' = said
      BY <2>4 DEF Goto, EosInv, EosTypeOK
    <3>2. ReadsCurrent(s)'
      BY <2>1, <2>4, <3>1 DEF ReadsCurrent
    <3>3. QED
      BY <2>1, <3>1, <3>2, QuietStep
  <2>5. QED
    BY <1>5, <2>2, <2>3, <2>4 DEF GetVlans
<1>6. ASSUME NEW s \in Servers, GetVnis(s) PROVE AloneInv'
  <2>1. /\ pc[s] = "vnis" /\ req[s].op = "delete" /\ UNCHANGED <<device, req, alone, lost, sees>>
        /\ \A u \in Servers \ {s} : target'[u] = target[u]
    BY <1>6, RequestKinds DEF GetVnis, past, EosInv, EosTypeOK, RequestMatches
  <2>2. ASSUME NEW a \in {"not found", "dry run"}, End(s, a) PROVE AloneInv'
    <3>1. /\ pc' = [pc EXCEPT ![s] = "idle"] /\ said' = [said EXCEPT ![s] = a]
          /\ a \in EosAnswers \ {"ok"}
      BY <2>2 DEF End, EosAnswers
    <3>2. QED
      BY <2>1, <3>1, QuietStep
  <2>3. ASSUME NEW f \in FirstVlans(s), NEW n \in Names,
               target' = [target EXCEPT ![s] =
                            [name |-> n, vlan |-> f[n], vni |-> f[n] # None /\ vni[f[n]] # None]],
               \/ f[n] # None /\ Goto(s, "interfaces")
               \/ f[n] = None /\ Goto(s, "set")
        PROVE  AloneInv'
    <3>1. /\ target'[s].name = n /\ target'[s].vlan = f[n]
          /\ target'[s].vni = (f[n] # None /\ vni[f[n]] # None)
      BY <2>3 DEF EosInv, EosTypeOK
    <3>2. PICK p \in {"interfaces", "set"} : /\ pc' = [pc EXCEPT ![s] = p] /\ said' = said
                                             /\ p = "set" => f[n] = None
      BY <2>3 DEF Goto
    <3>3. pc'[s] = p
      BY <3>2 DEF EosInv, EosTypeOK
    <3>4. ReadsCurrent(s)'
      BY <2>1, <3>1, <3>2, <3>3 DEF ReadsCurrent, device
    <3>5. QED
      BY <2>1, <3>1, <3>2, <3>4, QuietStep
  <2>4. QED
    BY <1>6, <2>2, <2>3 DEF GetVnis
<1>7. ASSUME NEW s \in Servers, GetInterfaces(s) PROVE AloneInv'
  <2>1. /\ pc[s] = "interfaces" /\ req[s].op = "delete" /\ UNCHANGED <<device, req, alone, lost, target>>
        /\ \A u \in Servers \ {s} : sees'[u] = sees[u]
    BY <1>7, RequestKinds DEF GetInterfaces, past, EosInv, EosTypeOK, RequestMatches
  <2>2. CASE End(s, "dry run")
    <3>1. /\ pc' = [pc EXCEPT ![s] = "idle"] /\ said' = [said EXCEPT ![s] = "dry run"]
          /\ "dry run" \in EosAnswers \ {"ok"}
      BY <2>2 DEF End, EosAnswers
    <3>2. QED
      BY <2>1, <3>1, QuietStep
  <2>3. CASE Goto(s, "set")
    <3>1. pc' = [pc EXCEPT ![s] = "set"] /\ pc'[s] = "set" /\ said' = said
      BY <2>3 DEF Goto, EosInv, EosTypeOK
    <3>2. sees'[s].trunk = trunk
      <4>1. sees[s] \in Seen /\ sees' = [sees EXCEPT ![s] = [sees[s] EXCEPT !.trunk = trunk]]
        BY <1>7 DEF GetInterfaces, EosInv, EosTypeOK
      <4>2. QED
        BY <4>1 DEF Seen, EosInv, EosTypeOK
    <3>3. target[s].name \in Names
      BY <2>1 DEF AloneInv
    <3>4. ASSUME alone[s] PROVE ReadsCurrent(s)'
      BY <2>1, <3>1, <3>2, <3>4 DEF ReadsCurrent, AloneInv, device
    <3>5. QED
      BY <2>1, <3>1, <3>3, <3>4, QuietStep
  <2>4. QED
    BY <1>7, <2>2, <2>3 DEF GetInterfaces
<1>8. ASSUME NEW s \in Servers, GetRaises(s) PROVE AloneInv'
  <2>1. /\ pc[s] \notin {"idle", "reply"} /\ UNCHANGED <<device, req, alone, lost, target, sees>>
        /\ pc' = [pc EXCEPT ![s] = "idle"] /\ said' = [said EXCEPT ![s] = "raised"]
        /\ "raised" \in EosAnswers \ {"ok"}
    BY <1>8 DEF GetRaises, End, Gets, past, EosAnswers
  <2>2. QED
    BY <2>1, QuietStep
<1>9. ASSUME NEW s \in Servers, Set(s) PROVE AloneInv'
  <2>1. pc[s] = "set" /\ UNCHANGED <<req, sees, target, lost>>
    BY <1>9 DEF Set
  <2>2. ASSUME UNCHANGED <<device, alone>>, NEW a \in {"error", "raised"}, End(s, a) PROVE AloneInv'
    <3>1. /\ pc' = [pc EXCEPT ![s] = "idle"] /\ said' = [said EXCEPT ![s] = a]
          /\ a \in EosAnswers \ {"ok"}
      BY <2>2 DEF End, EosAnswers
    <3>2. QED
      BY <2>1, <2>2, <3>1, QuietStep
  <2>3. CASE Applied(s) /\ Goto(s, "reply")
    <3>1. pc'[s] = "reply" /\ said' = said /\ \A u \in Servers \ {s} : pc'[u] = pc[u]
      BY <2>3 DEF Goto, EosInv, EosTypeOK
    <3>2. ASSUME alone[s] PROVE Result(s)'
      <4>1. ReadsCurrent(s) /\ req[s] \in Provisions \cup Deletes /\ target[s] \in Target
        BY <2>1, <3>2 DEF AloneInv, EosInv, EosTypeOK, RequestMatches
      <4>2. CASE req[s].op = "provision" /\ AddService(req[s], sees[s].trunk[req[s].port])
        <5>1. req[s] \in ProvisionRequest /\ sees[s].trunk[req[s].port] = trunk[req[s].port]
          BY <2>1, <4>1, <4>2, RequestKinds DEF ReadsCurrent
        <5>2. Works(req[s])'
          BY <2>1, <4>2, <5>1, AddServiceWorks
        <5>3. QED
          BY <2>1, <4>2, <5>2 DEF Result
      <4>3. CASE req[s].op = "delete" /\ RemoveService(target[s], sees[s].trunk)
        <5>1. /\ target[s].name \in Names
              /\ target[s].vlan # None => /\ target[s].vni = (vni[target[s].vlan] # None)
                                          /\ sees[s].trunk = trunk
          BY <2>1, <4>1, <4>3 DEF ReadsCurrent, AloneInv
        <5>2. Gone(target[s])'
          BY <2>1, <4>1, <4>3, <5>1, RemoveServiceGone
        <5>3. QED
          BY <2>1, <4>3, <5>2 DEF Result
      <4>4. QED
        BY <2>3, <4>2, <4>3 DEF Applied
    <3>3. \A u \in Servers : alone'[u] => u = s /\ alone[s]
      BY <2>3 DEF Applied
    <3>4. ReadsCurrent(s)'
      BY <3>1 DEF ReadsCurrent
    <3>5. /\ \A u \in Servers : pc'[u] # "idle" => said'[u] = "none" /\ lost'[u] = FALSE
          /\ \A u \in Servers : req'[u].op = "delete" /\ pc'[u] \in {"interfaces", "set"} => target'[u].name \in Names
      BY <2>1, <3>1 DEF AloneInv
    <3>6. QED
      BY <3>2, <3>3, <3>4, <3>5 DEF AloneInv
  <2>4. QED
    BY <1>9, <2>2, <2>3 DEF Set
<1>10. ASSUME NEW s \in Servers, Reply(s) \/ Crash(s) PROVE AloneInv'
  <2>1. /\ pc'[s] = "idle" /\ UNCHANGED <<device, req, alone, target, sees>>
        /\ \A u \in Servers \ {s} : pc'[u] = pc[u] /\ said'[u] = said[u] /\ lost'[u] = lost[u]
        /\ pc[s] = "reply" \/ said'[s] = said[s]
    BY <1>10 DEF Reply, End, Crash, past, EosInv, EosTypeOK
  <2>2. \A u \in Servers : (Result(u)' <=> Result(u)) /\ (u # s => (ReadsCurrent(u)' <=> ReadsCurrent(u)))
    BY <2>1 DEF Result, ReadsCurrent, Works, Gone, Members, Carries, device
  <2>3. QED
    BY <2>1, <2>2 DEF AloneInv
<1>11. CASE UNCHANGED eosVars
  <2>1. \A u \in Servers : (Result(u)' <=> Result(u)) /\ (ReadsCurrent(u)' <=> ReadsCurrent(u))
    BY <1>11 DEF eosVars, device, past, Result, ReadsCurrent, Works, Gone, Members, Carries
  <2>2. QED
    BY <1>11, <2>1 DEF eosVars, past, AloneInv
<1>12. QED
  BY <1>2, <1>3, <1>4, <1>5, <1>6, <1>7, <1>8, <1>9, <1>10, <1>11 DEF EosNext

LEMMA AloneInvariant == EosSpec => []AloneInv
<1>1. EosInit => AloneInv
  BY DEF EosInit, AloneInv
<1>2. QED
  BY <1>1, AloneInvStep, EosInvariant, PTL DEF EosSpec

\* "OK: EVPN instance ... provisioned" means, if no other call has changed the switch
\* since, a VLAN, its VNI and instance, and a port that carries it (backend.py:325-361).
THEOREM ProvisionedServiceWorks == EosSpec => []ProvisionedWorks
<1>1. AloneInv => ProvisionedWorks
  BY DEF AloneInv, Result, Works, ProvisionedWorks
<1>2. QED
  BY <1>1, AloneInvariant, PTL

\* "OK: EVPN instance ... deleted" means, if no other call has changed the switch since,
\* that nothing of it is left (backend.py:363-438), however the switch was configured.
THEOREM DeletedServiceGone == EosSpec => []DeletedLeavesNothing
<1>1. AloneInv => DeletedLeavesNothing
  BY DEF AloneInv, Result, Gone, DeletedLeavesNothing
<1>2. QED
  BY <1>1, AloneInvariant, PTL

-----------------------------------------------------------------------------
(* Other services.                                                         *)

\* The service of VLAN w is as it was; so is what port p does with it.
Kept(w) == vlan'[w] = vlan[w] /\ vni'[w] = vni[w] /\ Instances(w)' = Instances(w)
Carried(p, w) == Carries(p, w)' = Carries(p, w)
StillCarried(p, w) == VlanInTrunkList(w, trunk[p]) => Carries(p, w)'

\* An edit of a list for v carries the others as before.
LEMMA ListsKeepOthers ==
  ASSUME NEW list \in SUBSET Items, NEW v \in Vlans, NEW w \in Vlans, v # w
  PROVE  /\ (WithVlan(list, list, v) = {} \/ VlanInTrunkList(w, WithVlan(list, list, v)))
              = (list = {} \/ VlanInTrunkList(w, list))
         /\ (WithoutVlan(list, list, v) = {} \/ VlanInTrunkList(w, WithoutVlan(list, list, v)))
              = (list = {} \/ VlanInTrunkList(w, list))
<1>1. v \notin Ranges
  BY EosAssumption
<1>2. /\ VlanInTrunkList(w, list \cup {v}) <=> VlanInTrunkList(w, list)
      /\ VlanInTrunkList(w, list \ {v}) <=> VlanInTrunkList(w, list)
  BY <1>1 DEF VlanInTrunkList
<1>3. \/ WithVlan(list, list, v) = list
      \/ WithVlan(list, list, v) = list \cup {v} /\ list # {}
  <2>1. list \cup list \cup {v} = list \cup {v}
    OBVIOUS
  <2>2. QED
    BY <2>1 DEF WithVlan
<1>4. \/ WithoutVlan(list, list, v) = list
      \/ WithoutVlan(list, list, v) = list \ {v} /\ list \ {v} # {}
  BY DEF WithoutVlan
<1>5. ASSUME NEW l, l = list \/ (l # {} /\ list # {} /\ (VlanInTrunkList(w, l) <=> VlanInTrunkList(w, list)))
      PROVE  (l = {} \/ VlanInTrunkList(w, l)) = (list = {} \/ VlanInTrunkList(w, list))
  <2>1. CASE l = list
    BY <2>1
  <2>2. CASE l # {} /\ list # {} /\ (VlanInTrunkList(w, l) <=> VlanInTrunkList(w, list))
    BY <2>2
  <2>3. QED
    BY <1>5, <2>1, <2>2
<1>6. /\ list \cup {v} # {}
      /\ list \ {v} # {} => list # {}
  OBVIOUS
<1>7. QED
  BY <1>2, <1>3, <1>4, <1>5, <1>6

\* The Set of a provision keeps every VLAN but its own.
LEMMA AddServiceKeeps ==
  ASSUME EosInv, NEW q \in ProvisionRequest, NEW list, AddService(q, list),
         NEW w \in Vlans, w # q.vlan
  PROVE  /\ Kept(w)
         /\ \A p \in Ports : p # q.port \/ list = trunk[p] => Carried(p, w)
         /\ \A p \in Ports : StillCarried(p, w)
<1>1. q.vlan \in Vlans /\ q.vlan \in Names /\ q.port \in Ports
  BY EosAssumption DEF ProvisionRequest
<1>2. vlan'[w] = vlan[w] /\ vni'[w] = vni[w]
  BY <1>1 DEF AddService, EosInv, EosTypeOK, VlanTable, VniTable
<1>3. Instances(w)' = Instances(w)
  <2>1. ASSUME NEW n \in Names PROVE w \in Members(n)' <=> w \in Members(n)
    <3>1. evpn'[n] = IF n # q.vlan THEN evpn[n] ELSE IF evpn[n] = None THEN {q.vlan} ELSE evpn[n] \cup {q.vlan}
      BY <1>1 DEF AddService, EosInv, EosTypeOK, EvpnTable
    <3>2. CASE n # q.vlan
      BY <3>1, <3>2 DEF Members
    <3>3. CASE n = q.vlan
      <4>1. evpn'[n] \in SUBSET Vlans
        BY <1>1, <3>1, <3>3 DEF EosInv, EosTypeOK, EvpnTable
      <4>2. evpn'[n] # None
        BY <4>1, EosAssumption
      <4>3. QED
        BY <3>1, <3>3, <4>2 DEF Members
    <3>4. QED
      BY <3>2, <3>3
  <2>2. QED
    BY <2>1 DEF Instances
<1>4. ASSUME NEW p \in Ports
      PROVE  trunk[p] \in SUBSET Items /\ trunk'[p] = IF p = q.port THEN WithVlan(trunk[p], list, q.vlan) ELSE trunk[p]
  BY <1>1 DEF AddService, EosInv, EosTypeOK, TrunkTable
<1>5. ASSUME NEW p \in Ports, p # q.port \/ list = trunk[p] PROVE Carried(p, w)
  <2>1. CASE p = q.port
    BY <1>1, <1>4, <1>5, <2>1, ListsKeepOthers DEF Carried, Carries
  <2>2. CASE p # q.port
    BY <1>4, <2>2 DEF Carried, Carries
  <2>3. QED
    BY <2>1, <2>2
<1>6. ASSUME NEW p \in Ports PROVE StillCarried(p, w)
  <2>1. trunk[p] \subseteq trunk'[p]
    BY <1>4 DEF WithVlan
  <2>2. VlanInTrunkList(w, trunk[p]) => VlanInTrunkList(w, trunk'[p])
    BY <2>1 DEF VlanInTrunkList
  <2>3. QED
    BY <2>2 DEF StillCarried, Carries
<1>7. QED
  BY <1>2, <1>3, <1>5, <1>6 DEF Kept

\* The Set of a delete keeps every VLAN but its own and those of the instance.
LEMMA RemoveServiceKeeps ==
  ASSUME EosInv, NEW t \in Target, t.name \in Names, NEW lists,
         RemoveService(t, lists), NEW w \in Vlans, w # t.vlan, w \notin Members(t.name)
  PROVE  Kept(w) /\ \A p \in Ports : t.vlan = None \/ lists[p] = trunk[p] => Carried(p, w)
<1>1. vlan'[w] = vlan[w] /\ vni'[w] = vni[w]
  BY DEF RemoveService
<1>2. Instances(w)' = Instances(w)
  <2>1. ASSUME NEW n \in Names PROVE w \in Members(n)' <=> w \in Members(n)
    <3>1. evpn'[n] = IF n # t.name THEN evpn[n] ELSE None
      BY DEF RemoveService, EosInv, EosTypeOK, EvpnTable
    <3>2. QED
      BY <3>1 DEF Members
  <2>2. QED
    BY <2>1 DEF Instances
<1>3. ASSUME NEW p \in Ports, t.vlan = None \/ lists[p] = trunk[p] PROVE Carried(p, w)
  <2>1. trunk[p] \in SUBSET Items
        /\ trunk'[p] = IF t.vlan = None THEN trunk[p] ELSE WithoutVlan(trunk[p], trunk[p], t.vlan)
    BY <1>3 DEF RemoveService, EosInv, EosTypeOK, TrunkTable
  <2>2. CASE t.vlan # None
    <3>1. t.vlan \in Vlans
      BY <2>2 DEF Target
    <3>2. QED
      BY <2>1, <2>2, <3>1, ListsKeepOthers DEF Carried, Carries
  <2>3. CASE t.vlan = None
    BY <2>1, <2>3 DEF Carried, Carries
  <2>4. QED
    BY <2>2, <2>3
<1>4. QED
  BY <1>1, <1>2, <1>3 DEF Kept

\* A Set changes nothing of other services (backend.py:325-438), however stale what its
\* call has read is and whatever the switch is configured with, but for the trunk lists
\* that other calls have changed since the call has read them.
THEOREM OtherServicesUntouched == EosSpec => OthersUntouched
<1>1. ASSUME EosInv, AloneInv, [EosNext]_eosVars, NEW s \in Servers, wrote'[s], ~wrote[s],
             NEW w \in Vlans \ Touched(s)
      PROVE  /\ Kept(w)
             /\ \A p \in Ports : ListCurrent(s, p) => Carried(p, w)
             /\ req[s].op = "provision" => \A p \in Ports : StillCarried(p, w)
  <2>1. Set(s) /\ Applied(s)
    <3>1. ASSUME NEW u \in Servers, Provision(u) \/ Delete(u) PROVE FALSE
      <4>1. \E q, next, answer : Begin(u, q, next, answer)
        BY <3>1 DEF Provision, Delete
      <4>2. wrote'[s] = wrote[s] \/ wrote'[s] = FALSE
        BY <1>1, <4>1 DEF Begin, EosInv, EosTypeOK
      <4>3. QED
        BY <1>1, <4>2
    <3>2. ASSUME NEW u \in Servers, \/ GetTrunk(u) \/ GetEvpn(u) \/ GetVlans(u) \/ GetVnis(u)
                                    \/ GetInterfaces(u) \/ GetRaises(u) \/ Reply(u) \/ Crash(u)
          PROVE  FALSE
      BY <1>1, <3>2 DEF GetTrunk, GetEvpn, GetVlans, GetVnis, GetInterfaces, GetRaises, Reply, Crash
    <3>3. ASSUME NEW u \in Servers, Set(u) PROVE u = s /\ Applied(s)
      <4>1. UNCHANGED wrote \/ Applied(u)
        BY <3>3 DEF Set
      <4>2. Applied(u) => wrote' = [wrote EXCEPT ![u] = TRUE]
        BY DEF Applied
      <4>3. QED
        BY <1>1, <4>1, <4>2 DEF EosInv, EosTypeOK
    <3>4. ~UNCHANGED eosVars
      BY <1>1 DEF eosVars
    <3>5. QED
      BY <1>1, <3>1, <3>2, <3>3, <3>4 DEF EosNext
  <2>2. pc[s] = "set" /\ (alone[s] => ReadsCurrent(s)) /\ req[s] \in Provisions \cup Deletes /\ target[s] \in Target
    BY <1>1, <2>1 DEF Set, AloneInv, EosInv, EosTypeOK, RequestMatches
  <2>3. CASE req[s].op = "provision" /\ AddService(req[s], sees[s].trunk[req[s].port])
    <3>1. /\ req[s] \in ProvisionRequest
          /\ ListCurrent(s, req[s].port) => sees[s].trunk[req[s].port] = trunk[req[s].port]
      BY <2>2, <2>3, RequestKinds DEF ReadsCurrent, ListCurrent
    <3>2. w # req[s].vlan
      BY <2>3 DEF Touched
    <3>3. /\ Kept(w)
          /\ \A p \in Ports :
               p # req[s].port \/ sees[s].trunk[req[s].port] = trunk[p] => Carried(p, w)
          /\ \A p \in Ports : StillCarried(p, w)
      BY <1>1, <2>3, <3>1, <3>2, AddServiceKeeps
    <3>4. ASSUME NEW p \in Ports, ListCurrent(s, p) PROVE Carried(p, w)
      BY <3>1, <3>3, <3>4
    <3>5. QED
      BY <3>3, <3>4
  <2>4. CASE req[s].op = "delete" /\ RemoveService(target[s], sees[s].trunk)
    <3>1. /\ target[s].name \in Names
          /\ \A p \in Ports : ListCurrent(s, p) /\ target[s].vlan # None => sees[s].trunk[p] = trunk[p]
      BY <1>1, <2>2, <2>4 DEF ReadsCurrent, AloneInv, ListCurrent
    <3>2. w # target[s].vlan /\ w \notin Members(target[s].name)
      BY <2>4 DEF Touched
    <3>3. QED
      BY <1>1, <2>2, <2>4, <3>1, <3>2, RemoveServiceKeeps
  <2>5. QED
    BY <2>1, <2>3, <2>4 DEF Applied
<1>2. EosInv /\ AloneInv /\ [EosNext]_eosVars =>
        [\A s \in Servers : wrote'[s] /\ ~wrote[s] =>
           \A w \in Vlans \ Touched(s) :
             /\ vlan'[w] = vlan[w] /\ vni'[w] = vni[w] /\ Instances(w)' = Instances(w)
             /\ \A p \in Ports :
                  /\ ListCurrent(s, p) => Carries(p, w)' = Carries(p, w)
                  /\ req[s].op = "provision" /\ VlanInTrunkList(w, trunk[p]) => Carries(p, w)']_eosVars
  BY <1>1 DEF Kept, Carried, StillCarried
<1>3. QED
  BY <1>2, EosInvariant, AloneInvariant, PTL DEF EosSpec, OthersUntouched

-----------------------------------------------------------------------------
(* The refinement of AtomicWrite.                                           *)

\* What a call's answer and the loss of its answer are to AtomicWrite.
Told(l, a) == IF l THEN "none" ELSE IF a \in {"none", "ok", "error"} THEN a ELSE "other"

\* What a step that moves server s to p does to the abstract calls.
LEMMA CallMove ==
  ASSUME EosInv, NEW s \in Servers, NEW p, pc' = [pc EXCEPT ![s] = p]
  PROVE  AtomicCall' = [AtomicCall EXCEPT ![s] = Stage(p)] /\ AtomicCall[s] = Stage(pc[s])
<1>1. pc'[s] = p /\ \A u \in Servers \ {s} : pc'[u] = pc[u]
  BY DEF EosInv, EosTypeOK
<1>2. AtomicCall' = [u \in Servers |-> Stage(pc'[u])]
  BY DEF AtomicCall, Stage
<1>3. QED
  BY <1>1, <1>2 DEF AtomicCall, Stage

\* What a step that only server s answers in does to the abstract answers.
LEMMA AnswerMove ==
  ASSUME NEW s \in Servers, \A u \in Servers \ {s} : said'[u] = said[u] /\ lost'[u] = lost[u]
  PROVE  AtomicAnswer' = [AtomicAnswer EXCEPT ![s] = Told(lost'[s], said'[s])]
  BY DEF AtomicAnswer, Told

\* A call that begins.
LEMMA BeginMaps ==
  ASSUME EosInv, NEW s \in Servers, NEW q, NEW next, NEW answer, Begin(s, q, next, answer),
         \/ next = "idle" /\ answer = "invalid"
         \/ next \in {"trunk", "evpn"} /\ answer = "none"
  PROVE  Atomic!Open(s) \/ Atomic!Refuse(s)
<1>1. /\ pc[s] = "idle" /\ pc' = [pc EXCEPT ![s] = next] /\ UNCHANGED <<vlan, vni, evpn>>
      /\ said' = [said EXCEPT ![s] = answer] /\ lost' = [lost EXCEPT ![s] = FALSE]
  BY DEF Begin, device
<1>2. /\ said'[s] = answer /\ lost'[s] = FALSE
      /\ \A u \in Servers \ {s} : said'[u] = said[u] /\ lost'[u] = lost[u]
  BY <1>1 DEF EosInv, EosTypeOK
<1>3. CASE next = "idle" /\ answer = "invalid"
  <2>1. AtomicCall' = [AtomicCall EXCEPT ![s] = "idle"] /\ AtomicCall[s] = "idle"
    BY <1>1, <1>3, CallMove DEF Stage
  <2>2. AtomicAnswer' = [AtomicAnswer EXCEPT ![s] = "other"]
    BY <1>2, <1>3, AnswerMove DEF Told
  <2>3. AtomicCall' = AtomicCall
    BY <2>1 DEF AtomicCall
  <2>4. QED
    BY <1>1, <2>1, <2>2, <2>3 DEF Atomic!Refuse
<1>4. CASE next \in {"trunk", "evpn"} /\ answer = "none"
  <2>1. AtomicCall' = [AtomicCall EXCEPT ![s] = "open"] /\ AtomicCall[s] = "idle"
    BY <1>1, <1>4, CallMove DEF Stage
  <2>2. AtomicAnswer' = [AtomicAnswer EXCEPT ![s] = "none"]
    BY <1>2, <1>4, AnswerMove DEF Told
  <2>3. QED
    BY <1>1, <2>1, <2>2 DEF Atomic!Open
<1>5. QED
  BY <1>3, <1>4

\* An answer before anything has been written.
LEMMA ReturnMaps ==
  ASSUME EosInv, AloneInv, NEW s \in Servers, NEW a \in EosAnswers \ {"none", "ok"},
         pc[s] \notin {"idle", "reply"}, End(s, a), UNCHANGED <<vlan, vni, evpn, lost>>
  PROVE  Atomic!Return(s)
<1>1. pc' = [pc EXCEPT ![s] = "idle"] /\ said' = [said EXCEPT ![s] = a]
  BY DEF End
<1>2. /\ said'[s] = a /\ lost'[s] = FALSE
      /\ \A u \in Servers \ {s} : said'[u] = said[u] /\ lost'[u] = lost[u]
  BY <1>1 DEF EosInv, EosTypeOK, AloneInv
<1>3. AtomicCall' = [AtomicCall EXCEPT ![s] = "idle"] /\ AtomicCall[s] = "open"
  BY <1>1, <1>2, CallMove DEF Stage
<1>4. AtomicAnswer' = [AtomicAnswer EXCEPT ![s] = Told(FALSE, a)]
  BY <1>2, AnswerMove
<1>5. Told(FALSE, a) \in {"error", "other"}
  BY DEF Told
<1>6. QED
  BY <1>3, <1>4, <1>5 DEF Atomic!Return

\* A GET after which the call goes on.
LEMMA GotoMaps ==
  ASSUME EosInv, NEW s \in Servers, NEW p, Goto(s, p), pc[s] \notin {"idle", "reply"},
         p \notin {"idle", "reply"}, UNCHANGED <<vlan, vni, evpn, lost>>
  PROVE  UNCHANGED Atomic!absVars
<1>1. pc' = [pc EXCEPT ![s] = p] /\ said' = said
  BY DEF Goto
<1>2. AtomicCall' = AtomicCall
  BY <1>1, CallMove DEF AtomicCall, Stage
<1>3. AtomicAnswer' = AtomicAnswer
  BY <1>1 DEF AtomicAnswer
<1>4. QED
  BY <1>2, <1>3 DEF Atomic!absVars

\* The Set that is taken.
LEMMA WriteMaps ==
  ASSUME EosInv, NEW s \in Servers, pc[s] = "set", Applied(s), Goto(s, "reply"), UNCHANGED lost
  PROVE  Atomic!Write(s)
<1>1. pc' = [pc EXCEPT ![s] = "reply"] /\ said' = said
  BY DEF Goto
<1>2. AtomicCall' = [AtomicCall EXCEPT ![s] = "written"] /\ AtomicCall[s] = "open"
  BY <1>1, CallMove DEF Stage
<1>3. AtomicAnswer' = AtomicAnswer
  BY <1>1 DEF AtomicAnswer
<1>4. \E v \in Vlans \cup {None}, n \in Names \cup {None} :
        /\ \A w \in Vlans \ {v} : vlan'[w] = vlan[w] /\ vni'[w] = vni[w]
        /\ \A m \in Names \ {n} : evpn'[m] = evpn[m]
  <2>1. CASE req[s].op = "provision" /\ AddService(req[s], sees[s].trunk[req[s].port])
    <3>1. req[s] \in ProvisionRequest
      BY <2>1, RequestKinds DEF EosInv, RequestMatches
    <3>2. req[s].vlan \in Vlans /\ req[s].vlan \in Names
      BY <3>1, EosAssumption DEF ProvisionRequest
    <3>3. /\ \A w \in Vlans \ {req[s].vlan} : vlan'[w] = vlan[w] /\ vni'[w] = vni[w]
          /\ \A m \in Names \ {req[s].vlan} : evpn'[m] = evpn[m]
      BY <2>1, <3>2 DEF AddService, EosInv, EosTypeOK, VlanTable, VniTable, EvpnTable
    <3>4. QED
      BY <3>2, <3>3
  <2>2. CASE RemoveService(target[s], sees[s].trunk)
    <3>1. target[s].vlan \in Vlans \cup {None} /\ target[s].name \in Names \cup {None}
      BY DEF EosInv, EosTypeOK, Target
    <3>2. /\ \A w \in Vlans \ {target[s].vlan} : vlan'[w] = vlan[w] /\ vni'[w] = vni[w]
          /\ \A m \in Names \ {target[s].name} : evpn'[m] = evpn[m]
      BY <2>2 DEF RemoveService, EosInv, EosTypeOK, VlanTable, VniTable, EvpnTable
    <3>3. QED
      BY <3>1, <3>2
  <2>3. QED
    BY <2>1, <2>2 DEF Applied
<1>5. OneServiceChanges([vlan |-> vlan, vni |-> vni, evpn |-> evpn], [vlan |-> vlan', vni |-> vni', evpn |-> evpn'])
  BY <1>4 DEF OneServiceChanges
<1>6. QED
  BY <1>2, <1>3, <1>5 DEF Atomic!Write

\* The answer to a Set arrives or is lost.
LEMMA ReplyMaps ==
  ASSUME EosInv, AloneInv, NEW s \in Servers, Reply(s)
  PROVE  Atomic!Return(s) \/ Atomic!Die(s)
<1>1. /\ pc[s] = "reply" /\ UNCHANGED <<vlan, vni, evpn>> /\ pc' = [pc EXCEPT ![s] = "idle"]
      /\ said[s] = "none" /\ lost[s] = FALSE
  BY DEF Reply, End, device, AloneInv
<1>2. AtomicCall' = [AtomicCall EXCEPT ![s] = "idle"] /\ AtomicCall[s] = "written"
  BY <1>1, CallMove DEF Stage
<1>3. CASE End(s, "ok") /\ UNCHANGED lost
  <2>1. /\ said'[s] = "ok" /\ lost'[s] = FALSE
        /\ \A u \in Servers \ {s} : said'[u] = said[u] /\ lost'[u] = lost[u]
    BY <1>1, <1>3 DEF End, EosInv, EosTypeOK
  <2>2. AtomicAnswer' = [AtomicAnswer EXCEPT ![s] = "ok"]
    BY <2>1, AnswerMove DEF Told
  <2>3. QED
    BY <1>1, <1>2, <2>2 DEF Atomic!Return
<1>4. CASE End(s, "error") /\ lost' = [lost EXCEPT ![s] = TRUE]
  <2>1. /\ lost'[s] = TRUE
        /\ \A u \in Servers \ {s} : said'[u] = said[u] /\ lost'[u] = lost[u]
    BY <1>1, <1>4 DEF End, EosInv, EosTypeOK
  <2>2. AtomicAnswer' = [AtomicAnswer EXCEPT ![s] = "none"] /\ AtomicAnswer[s] = "none"
    BY <1>1, <2>1, AnswerMove DEF AtomicAnswer, Told
  <2>3. AtomicAnswer' = AtomicAnswer
    BY <2>2 DEF AtomicAnswer
  <2>4. QED
    BY <1>1, <1>2, <2>3 DEF Atomic!Die
<1>5. QED
  BY <1>3, <1>4 DEF Reply

\* Every step is a step of AtomicWrite, or changes nothing it sees.
LEMMA AtomicStep == EosInv /\ AloneInv /\ [EosNext]_eosVars => [Atomic!AtomicNext]_(Atomic!absVars)
<1> SUFFICES ASSUME EosInv, AloneInv, [EosNext]_eosVars
             PROVE  Atomic!AtomicNext \/ UNCHANGED Atomic!absVars
  OBVIOUS
<1>1. ASSUME NEW s \in Servers, Provision(s) \/ Delete(s) PROVE Atomic!AtomicNext
  BY <1>1, BeginMaps DEF Provision, Delete, Atomic!AtomicNext
<1>2. ASSUME NEW s \in Servers, \/ GetTrunk(s) \/ GetEvpn(s) \/ GetVlans(s) \/ GetVnis(s)
                                \/ GetInterfaces(s) \/ GetRaises(s)
      PROVE  Atomic!AtomicNext \/ UNCHANGED Atomic!absVars
  <2>1. /\ pc[s] \notin {"idle", "reply"} /\ UNCHANGED <<vlan, vni, evpn, lost>>
        /\ \/ \E p \in {"vlans", "vnis", "interfaces", "set"} : Goto(s, p)
           \/ \E a \in {"not a trunk", "exists", "not found", "dry run", "raised"} : End(s, a)
    BY <1>2 DEF GetTrunk, GetEvpn, GetVlans, GetVnis, GetInterfaces, GetRaises, Gets, device, past
  <2>2. {"not a trunk", "exists", "not found", "dry run", "raised"} \subseteq EosAnswers \ {"none", "ok"}
    BY DEF EosAnswers
  <2>3. QED
    BY <2>1, <2>2, ReturnMaps, GotoMaps DEF Atomic!AtomicNext
<1>3. ASSUME NEW s \in Servers, Set(s) PROVE Atomic!AtomicNext
  <2>1. /\ pc[s] = "set" /\ UNCHANGED lost
        /\ \/ Applied(s) /\ Goto(s, "reply")
           \/ UNCHANGED <<vlan, vni, evpn>> /\ \E a \in {"error", "raised"} : End(s, a)
    BY <1>3 DEF Set, device, past
  <2>2. {"error", "raised"} \subseteq EosAnswers \ {"none", "ok"}
    BY DEF EosAnswers
  <2>3. QED
    BY <2>1, <2>2, ReturnMaps, WriteMaps DEF Atomic!AtomicNext
<1>4. ASSUME NEW s \in Servers, Reply(s) PROVE Atomic!AtomicNext
  BY <1>4, ReplyMaps DEF Atomic!AtomicNext
<1>5. ASSUME NEW s \in Servers, Crash(s) PROVE Atomic!AtomicNext
  <2>1. /\ pc[s] # "idle" /\ pc' = [pc EXCEPT ![s] = "idle"]
        /\ UNCHANGED <<vlan, vni, evpn, said, lost>>
    BY <1>5 DEF Crash, device, past
  <2>2. /\ AtomicCall' = [AtomicCall EXCEPT ![s] = "idle"] /\ AtomicCall[s] # "idle"
        /\ UNCHANGED AtomicAnswer
    BY <2>1, CallMove DEF Stage, AtomicAnswer
  <2>3. QED
    BY <2>1, <2>2 DEF Atomic!Die, Atomic!AtomicNext
<1>6. CASE UNCHANGED eosVars
  BY <1>6 DEF eosVars, device, past, Atomic!absVars, AtomicCall, AtomicAnswer
<1>7. QED
  BY <1>1, <1>2, <1>3, <1>4, <1>5, <1>6 DEF EosNext

\* provision and delete are one atomic Set each (ARCHITECTURE.md:275): a call changes the
\* switch at most once, says OK only if it did, and "no changes were applied" only if
\* it did not, unless the answer to its Set was lost.
THEOREM EosIsAtomic == EosSpec => ImplementsAtomicWrite
<1>1. EosInit => Atomic!AtomicInit
  BY DEF EosInit, Atomic!AtomicInit, AtomicCall, Stage, AtomicAnswer
<1>2. QED
  BY <1>1, AtomicStep, EosInvariant, AloneInvariant, PTL
     DEF EosSpec, ImplementsAtomicWrite, Atomic!AtomicSpec
=============================================================================
