--------------------------- MODULE NxosEvpnProofs ---------------------------
(***************************************************************************)
(* Proofs about NxosEvpn, for any number of servers, VLANs, ports, requests    *)
(* and calls: the VLAN-list algorithms, the types, and what holds of trunks   *)
(* and instances whatever has changed since a call read them.                 *)
(***************************************************************************)
EXTENDS NxosEvpn, TLAPS, WellFoundedInduction

(* VLAN lists.                                                             *)

\* A set of numbers that is not empty has a least element ...
LEMMA LeastElement ==
  ASSUME NEW S \in SUBSET Nat, S # {}
  PROVE  \E m \in S : \A k \in S : m <= k
<1> DEFINE Less == {p \in Nat \X Nat : p[1] < p[2]}
<1>1. IsWellFoundedOn(Less, Nat)
  BY NatLessThanWellFounded DEF OpToRel
<1>2. PICK m \in S : \A k \in S : <<k, m>> \notin Less
  <2> HIDE DEF Less
  <2> QED
    BY <1>1, WFMin
<1>3. ASSUME NEW k \in S PROVE m <= k
  <2>1. <<k, m>> \in Nat \X Nat /\ <<k, m>> \notin Less
    BY <1>2
  <2>2. ~(k < m)
    BY <2>1
  <2>3. QED
    BY <2>2
<1>4. QED
  BY <1>3

\* ... and, below a bound, a greatest one.
LEMMA GreatestElement ==
  ASSUME NEW n \in Nat, NEW S \in SUBSET (0..n), S # {}
  PROVE  \E m \in S : \A k \in S : k <= m
<1> DEFINE T == {n - k : k \in S}
<1>1. T \in SUBSET Nat /\ T # {}
  <2>1. ASSUME NEW k \in S PROVE n - k \in Nat
    <3>1. k \in 0..n
      OBVIOUS
    <3>2. QED
      BY <3>1
  <2>2. QED
    BY <2>1
<1>2. PICK t \in T : \A k \in T : t <= k
  BY <1>1, LeastElement
<1>3. PICK m \in S : t = n - m
  BY <1>2
<1>4. ASSUME NEW k \in S PROVE k <= m
  <2>1. n - k \in T
    OBVIOUS
  <2>2. n - m <= n - k
    BY <2>1, <1>2, <1>3
  <2>3. k \in Nat /\ m \in Nat
    OBVIOUS
  <2>4. QED
    BY <2>2, <2>3
<1>5. QED
  BY <1>4

\* The VLANs of an allowed list are VLANs.
LEMMA VlanSetType ==
  ASSUME NEW list \in AllowedList
  PROVE  VlanSet(list) \in SUBSET Vlans
<1>1. MaxVlan \in Nat
  BY NxosAssumption
<1>2. QED
  BY <1>1 DEF VlanSet, AllowedList, Vlans

\* What _vlan_spec writes is an allowed list.
LEMMA VlanSpecType ==
  ASSUME NEW vs \in SUBSET Vlans
  PROVE  VlanSpec(vs) \in AllowedList
  BY DEF VlanSpec, AllowedList

\* _vlan_set reads what _vlan_spec has written as the same set of VLANs: no VLAN is
\* lost or added, whichever runs of neighbours there are.
THEOREM VlanSpecRoundTrip ==
  ASSUME NEW vs \in SUBSET Vlans
  PROVE  VlanSet(VlanSpec(vs)) = vs
<1>1. MaxVlan \in Nat
  BY NxosAssumption
<1>2. VlanSet(VlanSpec(vs)) \subseteq vs
  BY DEF VlanSet, VlanSpec
<1>3. ASSUME NEW v \in vs PROVE v \in VlanSet(VlanSpec(vs))
  <2> DEFINE Below == {a \in 1..v : a..v \subseteq vs}
             Above == {b \in v..MaxVlan : v..b \subseteq vs}
  <2>1. v \in 1..MaxVlan /\ v \in Nat
    BY DEF Vlans
  <2>2. v \in Below /\ v \in Above
    BY <2>1, <1>1
  <2>3. PICK a \in Below : \A k \in Below : a <= k
    <3>1. Below \in SUBSET Nat
      BY <2>1
    <3>2. QED
      BY <2>2, <3>1, LeastElement
  <2>4. PICK b \in Above : \A k \in Above : k <= b
    <3>1. Above \in SUBSET (0..MaxVlan)
      BY <2>1, <1>1
    <3>2. QED
      BY <2>2, <3>1, <1>1, GreatestElement
  <2>5. a \in 1..v /\ b \in v..MaxVlan /\ a..v \subseteq vs /\ v..b \subseteq vs
    OBVIOUS
  <2>6. a..b \subseteq vs
    BY <2>1, <2>5, <1>1
  <2>7. a - 1 \notin vs
    <3>1. SUFFICES ASSUME a - 1 \in vs PROVE FALSE
      OBVIOUS
    <3>2. a - 1 \in 1..v
      BY <3>1, <2>1, <2>5 DEF Vlans
    <3>3. (a - 1)..v \subseteq vs
      BY <3>1, <2>1, <2>5
    <3>4. a <= a - 1
      BY <3>2, <3>3, <2>3
    <3>5. QED
      BY <3>4, <2>1, <2>5
  <2>8. b + 1 \notin vs
    <3>1. SUFFICES ASSUME b + 1 \in vs PROVE FALSE
      OBVIOUS
    <3>2. b + 1 \in v..MaxVlan
      BY <3>1, <2>1, <2>5, <1>1 DEF Vlans
    <3>3. v..(b + 1) \subseteq vs
      BY <3>1, <2>1, <2>5, <1>1
    <3>4. b + 1 <= b
      BY <3>2, <3>3, <2>4
    <3>5. QED
      BY <3>4, <2>1, <2>5, <1>1
  <2>9. <<a, b>> \in VlanSpec(vs)
    <3>1. a \in vs /\ b \in vs
      BY <2>1, <2>5, <2>6, <1>1
    <3>2. QED
      BY <3>1, <2>6, <2>7, <2>8 DEF VlanSpec
  <2>10. v \in a..b
    BY <2>1, <2>5, <1>1
  <2>11. QED
    BY <2>9, <2>10 DEF VlanSet
<1>4. QED
  BY <1>2, <1>3

-----------------------------------------------------------------------------
(* Types.                                                                  *)

\* What NxosTypeOK needs besides: a server has a request of its callers, and reads
\* for a provision only if the request is valid.
RequestsValid ==
  \A s \in Servers : \A q \in req[s] :
    /\ q \in Provisions \cup Deletes
    /\ pc[s] = "get" /\ q.op = "provision" => Valid(q)

NxosInv == NxosTypeOK /\ RequestsValid

\* A route-target that passes validation is encoded within the fields of its kind.
LEMMA EncodingFits ==
  ASSUME NEW r \in RouteTarget, Encodable(r)
  PROVE  ToNxosId(r) \in NxosId
<1>1. HalfWord \in Nat /\ HalfWord # 0 /\ Word \in Nat
  BY NxosAssumption DEF Word
<1>2. r.dotted \in BOOLEAN /\ r.admin \in Nat /\ r.nn \in Nat
  BY DEF RouteTarget
<1> DEFINE id == ToNxosId(r)
<1>3. id = [kind |-> Kind(r), admin |-> r.admin, nn |-> r.nn]
  BY DEF ToNxosId
<1>4. CASE r.dotted
  BY <1>1, <1>2, <1>3, <1>4 DEF Encodable, Kind, NxosId
<1>5. CASE ~r.dotted /\ r.admin >= HalfWord
  BY <1>1, <1>2, <1>3, <1>5 DEF Encodable, Kind, NxosId
<1>6. CASE ~r.dotted /\ r.admin < HalfWord /\ r.nn >= HalfWord
  BY <1>1, <1>2, <1>3, <1>6 DEF Encodable, Kind, NxosId
<1>7. CASE ~r.dotted /\ r.admin < HalfWord /\ r.nn < HalfWord
  BY <1>1, <1>2, <1>3, <1>7 DEF Encodable, Kind, NxosId
<1>8. QED
  BY <1>1, <1>2, <1>4, <1>5, <1>6, <1>7

\* The fields of a configuration, and what has these fields.
LEMMA ConfigType ==
  ASSUME NEW c \in Config
  PROVE  /\ \A v \in Vlans : c.bd[v] # None =>
              c.bd[v].name \in Names \cup {None} /\ c.bd[v].vni \in Vnis \cup {None}
         /\ \A p \in Ports : VlanSet(c.port[p].list) \in SUBSET Vlans
<1>1. \A v \in Vlans : c.bd[v] \in {None} \cup [name : Names \cup {None}, vni : Vnis \cup {None}]
  BY DEF Config
<1>2. \A p \in Ports : c.port[p].list \in AllowedList
  BY DEF Config
<1>3. QED
  BY <1>1, <1>2, VlanSetType

\* The payload of a provision is one.
LEMMA ProvisionPayloadType ==
  ASSUME NEW c \in Config, NEW q \in Provisions, Valid(q), Clear(c, q)
  PROVE  ProvisionPayload(c, q) \in ProvisionEdit
<1>1. q \in ProvisionRequest
  BY NxosAssumption
<1>2. q.vlan \in Vlans /\ q.vni \in Vnis /\ q.name \in Names /\ q.rt \in RouteTarget
  BY <1>1 DEF ProvisionRequest
<1>3. q.port \in Ports
  BY DEF Clear
<1>4. ToNxosId(q.rt) \in NxosId
  BY <1>2, EncodingFits DEF Valid
<1>5. ASSUME NEW p \in Ports PROVE Extended(c.port[p].list, q.vlan) \in AllowedList
  <2>1. VlanSet(c.port[p].list) \cup {q.vlan} \in SUBSET Vlans
    BY <1>2, ConfigType
  <2>2. QED
    BY <2>1, VlanSpecType DEF Extended
<1>6. QED
  BY <1>2, <1>3, <1>4, <1>5 DEF ProvisionPayload, ProvisionEdit

\* The payload of a delete is one.
LEMMA DeletePayloadType ==
  ASSUME NEW c \in Config, NEW v \in Vlans, c.bd[v] # None, c.bd[v].vni # None
  PROVE  DeletePayload(c, v) \in DeleteEdit
<1>1. c.bd[v].vni \in Vnis
  BY ConfigType
<1>2. ASSUME NEW p \in Ports PROVE VlanSpec(VlanSet(c.port[p].list) \ {v}) \in AllowedList
  <2>1. VlanSet(c.port[p].list) \ {v} \in SUBSET Vlans
    BY ConfigType
  <2>2. QED
    BY <2>1, VlanSpecType
<1>3. QED
  BY <1>1, <1>2 DEF DeletePayload, DeleteEdit

\* An edit-config leaves a configuration.
LEMMA AfterType ==
  ASSUME NEW c \in Config, NEW e \in ProvisionEdit \cup DeleteEdit
  PROVE  After(c, e) \in Config
<1>1. Written(c, e) \in [Ports -> [layer2 : BOOLEAN, trunk : BOOLEAN, list : AllowedList]]
  <2>1. e.list \in [Ports -> AllowedList]
    BY DEF ProvisionEdit, DeleteEdit
  <2>2. ASSUME NEW p \in Ports
        PROVE  [c.port[p] EXCEPT !.list = e.list[p]] \in [layer2 : BOOLEAN, trunk : BOOLEAN, list : AllowedList]
    <3>1. c.port[p] \in [layer2 : BOOLEAN, trunk : BOOLEAN, list : AllowedList]
      BY DEF Config
    <3>2. e.list[p] \in AllowedList
      BY <2>1
    <3>3. QED
      BY <3>1, <3>2
  <2>3. QED
    BY <2>2 DEF Written, Config
<1>2. CASE e \in ProvisionEdit
  <2>1. e.op = "provision" /\ e.vlan \in Vlans /\ e.vni \in Vnis /\ e.name \in Names /\ e.id \in NxosId
    BY <1>2 DEF ProvisionEdit
  <2>2. [c.bd EXCEPT ![e.vlan] = [name |-> e.name, vni |-> e.vni]]
          \in [Vlans -> {None} \cup [name : Names \cup {None}, vni : Vnis \cup {None}]]
    BY <2>1 DEF Config
  <2>3. [c.rtt EXCEPT ![e.vni] = @ \cup {e.id}] \in [Vnis -> SUBSET NxosId]
    BY <2>1 DEF Config
  <2>4. c.ep \in BOOLEAN /\ c.nve \cup {e.vni} \in SUBSET Vnis /\ c.evpn \cup {e.vni} \in SUBSET Vnis
    BY <2>1 DEF Config
  <2>5. QED
    BY <1>1, <2>1, <2>2, <2>3, <2>4 DEF After, AfterProvision, Config
<1>3. CASE e \in DeleteEdit
  <2>1. e.op = "delete" /\ e.vlan \in Vlans /\ e.vni \in Vnis
    BY <1>3 DEF DeleteEdit
  <2>2. [c.bd EXCEPT ![e.vlan] = None]
          \in [Vlans -> {None} \cup [name : Names \cup {None}, vni : Vnis \cup {None}]]
    BY <2>1 DEF Config
  <2>3. [c.rtt EXCEPT ![e.vni] = {}] \in [Vnis -> SUBSET NxosId] /\ c.rtt \in [Vnis -> SUBSET NxosId]
    BY <2>1 DEF Config
  <2>4. c.ep \in BOOLEAN /\ c.nve \in SUBSET Vnis /\ c.evpn \in SUBSET Vnis
    BY DEF Config
  <2>5. QED
    BY <1>1, <2>1, <2>2, <2>3, <2>4 DEF After, AfterDelete, Config
<1>4. QED
  BY <1>2, <1>3

\* One more call stays within the bound.
LEMMA OneMoreCall == \A c \in 0..MaxCalls : c < MaxCalls => c + 1 \in 0..MaxCalls
<1>1. MaxCalls \in Nat
  BY NxosAssumption
<1>2. QED
  BY ONLY <1>1

\* A request that a caller may make is one, and is of the kind its op says.
LEMMA RequestKinds ==
  ASSUME NEW q \in Provisions \cup Deletes
  PROVE  /\ q \in ProvisionRequest \cup DeleteRequest
         /\ q.op = "provision" => q \in Provisions
         /\ q.op \in {"provision", "delete"}
  BY NxosAssumption DEF ProvisionRequest, DeleteRequest

\* The initial states satisfy the invariant.
LEMMA NxosInvInit == NxosInit => NxosInv
  BY NxosAssumption DEF NxosInit, NxosInv, NxosTypeOK, RequestsValid

\* What GetConfig leaves in `edit` is what was there, or the payload it has computed.
LEMMA GetConfigCases ==
  ASSUME NxosInv, NEW s \in Servers, GetConfig(s)
  PROVE  \/ UNCHANGED edit
         \/ \E q \in Provisions : /\ Valid(q) /\ Clear(config, q)
                                  /\ edit' = [edit EXCEPT ![s] = {ProvisionPayload(config, q)}]
         \/ \E q \in Deletes, v \in Vlans :
              /\ FirstMatch(config, q.name, v)
              /\ edit' = [edit EXCEPT ![s] = {DeletePayload(config, v)}]
<1>1. PICK q \in req[s] :
        \/ UNCHANGED edit
        \/ q.op = "provision" /\ Clear(config, q) /\ Submit(s, q, ProvisionPayload(config, q))
        \/ /\ q.op = "delete"
           /\ \E v \in Vlans : FirstMatch(config, q.name, v) /\ Submit(s, q, DeletePayload(config, v))
  BY DEF GetConfig
<1>2. q \in Provisions \cup Deletes /\ (q.op = "provision" => Valid(q))
  BY DEF NxosInv, RequestsValid, GetConfig
<1>3. (q.op = "provision" => q \in Provisions) /\ (q.op = "delete" => q \in Deletes)
  BY <1>2, NxosAssumption DEF ProvisionRequest, DeleteRequest
<1>4. QED
  BY <1>1, <1>2, <1>3 DEF Submit

\* Every step preserves the invariant.
LEMMA NxosInvStep == NxosInv /\ [NxosNext]_nxosVars => NxosInv'
<1> SUFFICES ASSUME NxosInv, [NxosNext]_nxosVars PROVE NxosInv'
  OBVIOUS
<1> USE DEF NxosInv, NxosTypeOK, RequestsValid
<1>1. ASSUME NEW s \in Servers, NEW q \in Provisions \cup Deletes, NEW next \in {"idle", "get"},
             NEW answer \in {"none", "other"}, Begin(s, q, next, answer),
             next = "get" /\ q.op = "provision" => Valid(q)
      PROVE  NxosInv'
  BY <1>1, RequestKinds, OneMoreCall DEF Begin
<1>2. ASSUME NEW s \in Servers, Provision(s) PROVE NxosInv'
  BY <1>1, <1>2 DEF Provision
<1>3. ASSUME NEW s \in Servers, Delete(s) PROVE NxosInv'
  <2>1. PICK q \in Deletes : Begin(s, q, "get", "none")
    BY <1>3 DEF Delete
  <2>2. q.op # "provision"
    BY NxosAssumption DEF DeleteRequest
  <2>3. QED
    BY <1>1, <2>1, <2>2
<1>4. ASSUME NEW s \in Servers, GetConfig(s) PROVE NxosInv'
  <2>1. edit' \in [Servers -> SUBSET (ProvisionEdit \cup DeleteEdit)]
    <3>1. CASE UNCHANGED edit
      BY <3>1
    <3>2. ASSUME NEW q \in Provisions, Valid(q), Clear(config, q),
                 edit' = [edit EXCEPT ![s] = {ProvisionPayload(config, q)}]
          PROVE  edit' \in [Servers -> SUBSET (ProvisionEdit \cup DeleteEdit)]
      BY <3>2, ProvisionPayloadType
    <3>3. ASSUME NEW q \in Deletes, NEW v \in Vlans, FirstMatch(config, q.name, v),
                 edit' = [edit EXCEPT ![s] = {DeletePayload(config, v)}]
          PROVE  edit' \in [Servers -> SUBSET (ProvisionEdit \cup DeleteEdit)]
      BY <3>3, DeletePayloadType DEF FirstMatch, Matches
    <3>4. QED
      BY <1>4, <3>1, <3>2, <3>3, GetConfigCases
  <2>2. /\ pc' \in [Servers -> {"idle", "get", "edit", "reply"}]
        /\ said' \in [Servers -> {"none", "ok", "error", "other"}]
        /\ \A t \in Servers : pc'[t] = "get" => pc[t] = "get"
    BY <1>4 DEF GetConfig, Submit, End, Goto
  <2>3. UNCHANGED <<config, req, alone, lost, calls>>
    BY <1>4 DEF GetConfig, call
  <2>4. QED
    BY <2>1, <2>2, <2>3
<1>5. ASSUME NEW s \in Servers, GetRaises(s) \/ Reply(s) \/ Crash(s) PROVE NxosInv'
  BY <1>5 DEF GetRaises, Reply, Crash, End, call
<1>6. ASSUME NEW s \in Servers, EditConfig(s) PROVE NxosInv'
  <2>1. config' \in Config
    BY <1>6, AfterType DEF EditConfig, Take
  <2>2. /\ pc' \in [Servers -> {"idle", "get", "edit", "reply"}]
        /\ said' \in [Servers -> {"none", "ok", "error", "other"}]
        /\ \A t \in Servers : pc'[t] = "get" => pc[t] = "get"
    BY <1>6 DEF EditConfig, Take, End, Goto
  <2>3. UNCHANGED <<req, edit, lost, calls>> /\ alone' \in [Servers -> BOOLEAN]
    BY <1>6 DEF EditConfig, Take, End
  <2>4. QED
    BY <2>1, <2>2, <2>3
<1>7. CASE UNCHANGED nxosVars
  BY <1>7 DEF nxosVars
<1>8. QED
  BY <1>2, <1>3, <1>4, <1>5, <1>6, <1>7 DEF NxosNext

\* The invariant holds in every behaviour.
LEMMA NxosInvariant == NxosSpec => []NxosInv
  BY NxosInvInit, NxosInvStep, PTL DEF NxosSpec

\* The types hold, in particular the widths of all route-targets on the switch.
THEOREM NxosTypeCorrect == NxosSpec => []NxosTypeOK
<1>1. NxosInv => NxosTypeOK
  BY DEF NxosInv
<1>2. QED
  BY <1>1, NxosInvariant, PTL

-----------------------------------------------------------------------------
(* Trunks.                                                                 *)

\* No payload empties a list: each writes at least one VLAN to the ports it writes to.
ListsNotEmpty ==
  \A s \in Servers : \A e \in edit[s] : \A p \in e.write : VlanSet(e.list[p]) # {}

\* What a provision writes has its VLAN.
LEMMA ProvisionListsNotEmpty ==
  ASSUME NEW c \in Config, NEW q \in Provisions, Clear(c, q),
         NEW p \in ProvisionPayload(c, q).write
  PROVE  VlanSet(ProvisionPayload(c, q).list[p]) # {}
<1>1. q.vlan \in Vlans
  BY NxosAssumption DEF ProvisionRequest
<1>2. p \in Ports
  BY DEF ProvisionPayload, Clear
<1>3. VlanSet(c.port[p].list) \cup {q.vlan} \in SUBSET Vlans
  BY <1>1, <1>2, ConfigType
<1>4. ProvisionPayload(c, q).list[p] = VlanSpec(VlanSet(c.port[p].list) \cup {q.vlan})
  BY <1>2 DEF ProvisionPayload, Extended
<1>5. QED
  BY <1>3, <1>4, VlanSpecRoundTrip

\* What a delete writes has the VLANs the list had besides.
LEMMA DeleteListsNotEmpty ==
  ASSUME NEW c \in Config, NEW v \in Vlans, NEW p \in DeletePayload(c, v).write
  PROVE  VlanSet(DeletePayload(c, v).list[p]) # {}
<1>1. p \in Ports /\ Reducible(c, p, v)
  BY DEF DeletePayload
<1>2. VlanSet(c.port[p].list) \ {v} \in SUBSET Vlans
  BY <1>1, ConfigType
<1>3. VlanSet(c.port[p].list) \ {v} # {}
  BY <1>1 DEF Reducible, Carries
<1>4. DeletePayload(c, v).list[p] = VlanSpec(VlanSet(c.port[p].list) \ {v})
  BY <1>1 DEF DeletePayload
<1>5. QED
  BY <1>2, <1>3, <1>4, VlanSpecRoundTrip

\* The payload of a call changes only in GetConfig, and is dropped in Begin.
LEMMA EditCases ==
  ASSUME [NxosNext]_nxosVars
  PROVE  \/ UNCHANGED edit
         \/ \E s \in Servers : edit' = [edit EXCEPT ![s] = {}]
         \/ \E s \in Servers : GetConfig(s)
<1>1. ASSUME NEW s \in Servers, Provision(s) \/ Delete(s) PROVE edit' = [edit EXCEPT ![s] = {}]
  BY <1>1 DEF Provision, Delete, Begin
<1>2. ASSUME NEW s \in Servers, GetRaises(s) \/ EditConfig(s) \/ Reply(s) \/ Crash(s)
      PROVE  UNCHANGED edit
  BY <1>2 DEF GetRaises, EditConfig, Reply, Crash
<1>3. CASE UNCHANGED nxosVars
  BY <1>3 DEF nxosVars
<1>4. QED
  BY <1>1, <1>2, <1>3 DEF NxosNext

\* ListsNotEmpty is preserved.
LEMMA ListsNotEmptyStep ==
  ASSUME NxosInv, ListsNotEmpty, [NxosNext]_nxosVars
  PROVE  ListsNotEmpty'
<1> USE DEF ListsNotEmpty
<1>1. edit \in [Servers -> SUBSET (ProvisionEdit \cup DeleteEdit)] /\ config \in Config
  BY DEF NxosInv, NxosTypeOK
<1>2. CASE UNCHANGED edit
  BY <1>2
<1>3. ASSUME NEW s \in Servers, NEW e, edit' = [edit EXCEPT ![s] = {e}],
             \A p \in e.write : VlanSet(e.list[p]) # {}
      PROVE  ListsNotEmpty'
  BY <1>1, <1>3
<1>4. ASSUME NEW s \in Servers, edit' = [edit EXCEPT ![s] = {}] PROVE ListsNotEmpty'
  BY <1>1, <1>4
<1>5. ASSUME NEW s \in Servers, NEW q \in Provisions, Clear(config, q),
             edit' = [edit EXCEPT ![s] = {ProvisionPayload(config, q)}]
      PROVE  ListsNotEmpty'
  BY <1>1, <1>3, <1>5, ProvisionListsNotEmpty
<1>6. ASSUME NEW s \in Servers, NEW v \in Vlans,
             edit' = [edit EXCEPT ![s] = {DeletePayload(config, v)}]
      PROVE  ListsNotEmpty'
  BY <1>1, <1>3, <1>6, DeleteListsNotEmpty
<1>7. ASSUME NEW s \in Servers, GetConfig(s) PROVE ListsNotEmpty'
  BY <1>2, <1>5, <1>6, <1>7, GetConfigCases
<1>8. QED
  BY <1>2, <1>4, <1>7, EditCases

\* The configuration changes only by an edit-config of a payload that the switch takes.
LEMMA ConfigCases ==
  ASSUME [NxosNext]_nxosVars
  PROVE  \/ UNCHANGED config
         \/ \E s \in Servers : \E e \in edit[s] : Takes(config, e) /\ config' = After(config, e)
<1>1. ASSUME NEW s \in Servers, Provision(s) \/ Delete(s) PROVE UNCHANGED config
  BY <1>1 DEF Provision, Delete, Begin
<1>2. ASSUME NEW s \in Servers, GetConfig(s) \/ GetRaises(s) \/ Reply(s) \/ Crash(s)
      PROVE  UNCHANGED config
  BY <1>2 DEF GetConfig, GetRaises, Reply, Crash
<1>3. ASSUME NEW s \in Servers, EditConfig(s)
      PROVE  UNCHANGED config \/ \E e \in edit[s] : Takes(config, e) /\ config' = After(config, e)
  BY <1>3 DEF EditConfig, Take
<1>4. CASE UNCHANGED nxosVars
  BY <1>4 DEF nxosVars
<1>5. QED
  BY <1>1, <1>2, <1>3, <1>4 DEF NxosNext

\* A trunk keeps a VLAN in every step.
LEMMA TrunkStep ==
  ASSUME NxosInv, ListsNotEmpty, [NxosNext]_nxosVars,
         NEW p \in Ports, VlanSet(config.port[p].list) # {}
  PROVE  VlanSet(config'.port[p].list) # {}
<1>1. CASE UNCHANGED config
  BY <1>1
<1>2. ASSUME NEW s \in Servers, NEW e \in edit[s], config' = After(config, e)
      PROVE  VlanSet(config'.port[p].list) # {}
  <2>1. config'.port = Written(config, e)
    BY <1>2 DEF After, AfterProvision, AfterDelete
  <2>2. config.port[p] \in [layer2 : BOOLEAN, trunk : BOOLEAN, list : AllowedList]
    BY DEF NxosInv, NxosTypeOK, Config
  <2>3. CASE p \in e.write
    <3>1. config'.port[p].list = e.list[p]
      BY <2>1, <2>2, <2>3 DEF Written
    <3>2. QED
      BY <2>3, <3>1 DEF ListsNotEmpty
  <2>4. CASE p \notin e.write
    BY <2>1, <2>4 DEF Written
  <2>5. QED
    BY <2>3, <2>4
<1>3. QED
  BY <1>1, <1>2, ConfigCases

\* No call ever leaves a trunk without a VLAN, whatever other calls have done to
\* the list since it was read.
THEOREM TrunksKeepAVlan == NxosSpec => TrunkNeverEmptied
<1>1. NxosInit => ListsNotEmpty
  BY DEF NxosInit, ListsNotEmpty
<1>2. NxosInv /\ ListsNotEmpty /\ [NxosNext]_nxosVars => ListsNotEmpty'
  BY ListsNotEmptyStep
<1>3. NxosInv /\ ListsNotEmpty /\ [NxosNext]_nxosVars
        => [\A p \in Ports : VlanSet(config.port[p].list) # {}
              => VlanSet(config'.port[p].list) # {}]_nxosVars
  BY TrunkStep
<1>4. QED
  BY <1>1, <1>2, <1>3, NxosInvariant, PTL DEF NxosSpec, TrunkNeverEmptied

-----------------------------------------------------------------------------
(* Instances.                                                              *)

\* Every VLAN has a VNI of its own, which callers give it and which it has wherever
\* the switch starts with an instance of it; the instances there are whole.
OwnVnis(own) ==
  /\ own \in [Vlans -> Vnis]
  /\ \A v, w \in Vlans : own[v] = own[w] => v = w
  /\ \A q \in Provisions : q.vni = own[q.vlan]
  /\ \A c \in InitConfigs : \A v \in Vlans :
       c.bd[v] # None /\ c.bd[v].vni # None => Whole(c, v, own[v])

\* Instances are whole, and so are those that payloads are about: a delete that has
\* been computed, however long ago, deletes all of its instance.
WholePayloads(own) ==
  /\ \A v \in Vlans : config.bd[v] # None /\ config.bd[v].vni # None => Whole(config, v, own[v])
  /\ \A s \in Servers : \A e \in edit[s] :
       e.vni = own[e.vlan] /\ (e.op = "delete" => e.evpn /\ e.nve)

\* The payload of a call keeps to it when it is computed.
LEMMA WholePayloadStep ==
  ASSUME NEW own, OwnVnis(own), NxosInv, WholePayloads(own), NEW s \in Servers, GetConfig(s)
  PROVE  WholePayloads(own)'
<1>1. edit \in [Servers -> SUBSET (ProvisionEdit \cup DeleteEdit)] /\ UNCHANGED config
  BY DEF NxosInv, NxosTypeOK, GetConfig
<1>2. ASSUME NEW e, edit' = [edit EXCEPT ![s] = {e}],
             e.vni = own[e.vlan], e.op = "delete" => e.evpn /\ e.nve
      PROVE  WholePayloads(own)'
  <2>1. \A v \in Vlans : config'.bd[v] # None /\ config'.bd[v].vni # None => Whole(config', v, own[v])
    BY <1>1 DEF WholePayloads
  <2>2. ASSUME NEW t \in Servers, NEW d \in edit'[t]
        PROVE  d.vni = own[d.vlan] /\ (d.op = "delete" => d.evpn /\ d.nve)
    <3>1. CASE t = s
      BY <1>1, <1>2, <3>1
    <3>2. CASE t # s
      BY <1>1, <1>2, <3>2 DEF WholePayloads
    <3>3. QED
      BY <3>1, <3>2
  <2>3. QED
    BY <2>1, <2>2 DEF WholePayloads
<1>3. CASE UNCHANGED edit
  BY <1>1, <1>3 DEF WholePayloads, Whole
<1>4. ASSUME NEW q \in Provisions, edit' = [edit EXCEPT ![s] = {ProvisionPayload(config, q)}]
      PROVE  WholePayloads(own)'
  <2> DEFINE e == ProvisionPayload(config, q)
  <2>1. e.op = "provision" /\ e.vlan = q.vlan /\ e.vni = q.vni
    BY DEF ProvisionPayload
  <2>2. e.vni = own[e.vlan]
    BY <2>1 DEF OwnVnis
  <2>3. QED
    BY <1>2, <1>4, <2>1, <2>2
<1>5. ASSUME NEW v \in Vlans, NEW q, FirstMatch(config, q.name, v),
             edit' = [edit EXCEPT ![s] = {DeletePayload(config, v)}]
      PROVE  WholePayloads(own)'
  <2>1. Whole(config, v, own[v])
    BY <1>5 DEF WholePayloads, FirstMatch, Matches
  <2>2. QED
    BY <1>2, <1>5, <2>1 DEF DeletePayload, Whole
<1>6. QED
  BY <1>3, <1>4, <1>5, GetConfigCases

\* An edit-config of such a payload makes an instance whole or takes it away whole, and
\* touches no other.
LEMMA WholeEdit ==
  ASSUME NEW own, OwnVnis(own), NEW c \in Config, NEW e \in ProvisionEdit \cup DeleteEdit,
         e.vni = own[e.vlan], e.op = "delete" => e.evpn /\ e.nve,
         NEW v \in Vlans, Whole(c, v, own[v])
  PROVE  Whole(After(c, e), v, own[v]) \/ Gone(After(c, e), v, own[v])
<1>1. e.vlan \in Vlans /\ e.vni \in Vnis /\ own[v] \in Vnis
  BY DEF ProvisionEdit, DeleteEdit, OwnVnis
<1>2. c.bd \in [Vlans -> {None} \cup [name : Names \cup {None}, vni : Vnis \cup {None}]]
  BY DEF Config
<1>3. CASE e \in ProvisionEdit
  <2>1. /\ e.op = "provision"
        /\ [name |-> e.name, vni |-> e.vni] \in [name : Names \cup {None}, vni : Vnis \cup {None}]
    BY <1>1, <1>3 DEF ProvisionEdit
  <2>2. [name |-> e.name, vni |-> e.vni] # None
    BY <2>1, NxosAssumption
  <2>3. QED
    BY <1>1, <1>2, <2>1, <2>2 DEF After, AfterProvision, Whole
<1>4. CASE e \in DeleteEdit
  <2>1. e.op = "delete" /\ e.evpn /\ e.nve
    BY <1>4 DEF DeleteEdit
  <2>2. CASE e.vlan = v
    BY <1>1, <1>2, <2>1, <2>2 DEF After, AfterDelete, Gone
  <2>3. CASE e.vlan # v
    <3>1. own[v] # e.vni
      BY <1>1, <2>3 DEF OwnVnis
    <3>2. QED
      BY <1>1, <1>2, <2>1, <2>3, <3>1 DEF After, AfterDelete, Whole
  <2>4. QED
    BY <2>2, <2>3
<1>5. QED
  BY <1>3, <1>4

\* The VLANs that have a VNI after an edit-config had it before, or have just got it.
LEMMA WholeAfterEdit ==
  ASSUME NEW own, OwnVnis(own), NEW c \in Config, NEW e \in ProvisionEdit \cup DeleteEdit,
         e.vni = own[e.vlan], e.op = "delete" => e.evpn /\ e.nve,
         \A v \in Vlans : c.bd[v] # None /\ c.bd[v].vni # None => Whole(c, v, own[v]),
         NEW v \in Vlans, After(c, e).bd[v] # None, After(c, e).bd[v].vni # None
  PROVE  Whole(After(c, e), v, own[v])
<1>1. e.vlan \in Vlans /\ e.vni \in Vnis
  BY DEF ProvisionEdit, DeleteEdit
<1>2. c.bd \in [Vlans -> {None} \cup [name : Names \cup {None}, vni : Vnis \cup {None}]]
  BY DEF Config
<1>3. CASE e \in ProvisionEdit /\ e.vlan = v
  <2>1. e.op = "provision"
    BY <1>3 DEF ProvisionEdit
  <2>2. QED
    BY <1>1, <1>2, <1>3, <2>1 DEF After, AfterProvision, Whole
<1>4. CASE ~(e \in ProvisionEdit /\ e.vlan = v)
  <2>1. e.op = "provision" \/ e.op = "delete"
    BY DEF ProvisionEdit, DeleteEdit
  <2>2. e.op = "provision" => e.vlan # v
    BY <1>4 DEF DeleteEdit
  <2>3. c.bd[v] # None /\ c.bd[v].vni # None
    BY <1>1, <1>2, <2>1, <2>2 DEF After, AfterProvision, AfterDelete
  <2>4. Whole(c, v, own[v])
    BY <2>3
  <2>5. ~Gone(After(c, e), v, own[v])
    BY DEF Gone
  <2>6. QED
    BY <2>4, <2>5, WholeEdit
<1>5. QED
  BY <1>3, <1>4

\* WholePayloads is preserved.
LEMMA WholePayloadsStep ==
  ASSUME NEW own, OwnVnis(own), NxosInv, WholePayloads(own), [NxosNext]_nxosVars
  PROVE  WholePayloads(own)'
<1>1. /\ config \in Config
      /\ edit \in [Servers -> SUBSET (ProvisionEdit \cup DeleteEdit)]
  BY DEF NxosInv, NxosTypeOK
<1>2. ASSUME NEW s \in Servers, GetConfig(s) PROVE WholePayloads(own)'
  BY <1>2, WholePayloadStep
<1>3. CASE UNCHANGED edit
  <2>1. CASE UNCHANGED config
    BY <1>3, <2>1 DEF WholePayloads, Whole
  <2>2. ASSUME NEW s \in Servers, NEW e \in edit[s], config' = After(config, e)
        PROVE  WholePayloads(own)'
    <3>1. \A v \in Vlans : config'.bd[v] # None /\ config'.bd[v].vni # None => Whole(config', v, own[v])
      BY <1>1, <2>2, WholeAfterEdit DEF WholePayloads
    <3>2. QED
      BY <1>3, <3>1 DEF WholePayloads, Whole
  <2>3. QED
    BY <2>1, <2>2, ConfigCases
<1>4. ASSUME NEW s \in Servers, edit' = [edit EXCEPT ![s] = {}], UNCHANGED config
      PROVE  WholePayloads(own)'
  BY <1>1, <1>4 DEF WholePayloads, Whole
<1>5. ASSUME NEW s \in Servers, Provision(s) \/ Delete(s)
      PROVE  edit' = [edit EXCEPT ![s] = {}] /\ UNCHANGED config
  BY <1>5 DEF Provision, Delete, Begin
<1>6. ASSUME NEW s \in Servers, GetRaises(s) \/ EditConfig(s) \/ Reply(s) \/ Crash(s)
      PROVE  UNCHANGED edit
  BY <1>6 DEF GetRaises, EditConfig, Reply, Crash
<1>7. CASE UNCHANGED nxosVars
  BY <1>3, <1>7 DEF nxosVars
<1>8. QED
  BY <1>2, <1>3, <1>4, <1>5, <1>6, <1>7 DEF NxosNext

\* A whole instance stays whole or goes whole in every step.
LEMMA WholeStep ==
  ASSUME NEW own, OwnVnis(own), NxosInv, WholePayloads(own), [NxosNext]_nxosVars,
         NEW v \in Vlans, NEW n \in Vnis, Whole(config, v, n)
  PROVE  Whole(config', v, n) \/ Gone(config', v, n)
<1>1. n = own[v]
  <2>1. config.bd[v] # None /\ config.bd[v].vni = n /\ n # None
    BY NxosAssumption DEF Whole
  <2>2. Whole(config, v, own[v])
    BY <2>1 DEF WholePayloads
  <2>3. QED
    BY <2>1, <2>2 DEF Whole
<1>2. CASE UNCHANGED config
  BY <1>2 DEF Whole
<1>3. ASSUME NEW s \in Servers, NEW e \in edit[s], config' = After(config, e)
      PROVE  Whole(config', v, n) \/ Gone(config', v, n)
  BY <1>1, <1>3, WholeEdit DEF WholePayloads, NxosInv, NxosTypeOK
<1>4. QED
  BY <1>2, <1>3, ConfigCases

\* If every VLAN has a VNI of its own, instances are provisioned and deleted as a
\* whole, whatever several servers have read and however long ago.
THEOREM InstancesWholeOrGone ==
  ASSUME NEW own, OwnVnis(own)
  PROVE  NxosSpec => WholeOrNothing
<1>1. NxosInit => WholePayloads(own)
  BY DEF NxosInit, WholePayloads, OwnVnis
<1>2. NxosInv /\ WholePayloads(own) /\ [NxosNext]_nxosVars => WholePayloads(own)'
  BY WholePayloadsStep
<1>3. NxosInv /\ WholePayloads(own) /\ [NxosNext]_nxosVars
        => [\A v \in Vlans, n \in Vnis :
              Whole(config, v, n) => Whole(config', v, n) \/ Gone(config', v, n)]_nxosVars
  BY WholeStep
<1>4. QED
  BY <1>1, <1>2, <1>3, NxosInvariant, PTL DEF NxosSpec, WholeOrNothing
-----------------------------------------------------------------------------
(* A call since whose beginning no other one has changed the switch.          *)

\* While a call is at work nothing has been said, and no answer lost.
AtWork == \A s \in Servers : pc[s] # "idle" => said[s] = "none" /\ lost[s] = FALSE

\* The service of q is all there, and its VNI is its own.
Works(q) ==
  /\ config.bd[q.vlan] = [name |-> q.name, vni |-> q.vni]
  /\ \A v \in Vlans \ {q.vlan} : config.bd[v] # None => config.bd[v].vni # q.vni
  /\ q.vni \in config.nve \cap config.evpn
  /\ ToNxosId(q.rt) \in config.rtt[q.vni]
  /\ Carries(config, q.port, q.vlan)

\* Nothing is left of the instance that e deletes but the docstring's two exceptions.
Erased(e) ==
  /\ config.bd[e.vlan] = None
  /\ e.vni \notin config.nve \cup config.evpn
  /\ \A p \in Ports : Carries(config, p, e.vlan) =>
       config.port[p].list = ALL_VLANS \/ VlanSet(config.port[p].list) = {e.vlan}

\* e is what q comes to on the switch as it is now.
Fresh(q, e) ==
  \/ q \in Provisions /\ q.op = "provision" /\ Clear(config, q) /\ e = ProvisionPayload(config, q)
  \/ /\ q.op = "delete"
     /\ \E v \in Vlans : /\ config.bd[v] # None /\ config.bd[v].vni # None
                         /\ e = DeletePayload(config, v)

\* What the switch is to a call that is about to write, has written or has said OK.
Current(s) ==
  /\ pc[s] = "edit" => \A e \in edit[s] : \E q \in req[s] : Fresh(q, e)
  /\ pc[s] = "reply" \/ said[s] = "ok" =>
       /\ \A q \in req[s] : q.op = "provision" => Works(q)
       /\ \A e \in edit[s] : e.op = "delete" => Erased(e)

AloneInv ==
  /\ AtWork
  /\ \A s \in Servers : \A q, r \in req[s] : q = r
  /\ \A s \in Servers : \A d, e \in edit[s] : d = e
  /\ \A s \in Servers : alone[s] => Current(s)

\* The lists that an up-to-date payload writes are those it was computed from, with the
\* VLAN added or taken out.
LEMMA FreshLists ==
  ASSUME NEW c \in Config, NEW e, NEW p \in Ports,
         \/ \E q \in Provisions : Clear(c, q) /\ e = ProvisionPayload(c, q)
         \/ \E v \in Vlans : e = DeletePayload(c, v)
  PROVE  /\ After(c, e).port[p].trunk = c.port[p].trunk
         /\ p \notin e.write => After(c, e).port[p] = c.port[p]
         /\ p \in e.write /\ e.op = "provision" =>
              VlanSet(After(c, e).port[p].list) = VlanSet(c.port[p].list) \cup {e.vlan}
         /\ p \in e.write /\ e.op = "delete" =>
              VlanSet(After(c, e).port[p].list) = VlanSet(c.port[p].list) \ {e.vlan}
<1>1. c.port[p] \in [layer2 : BOOLEAN, trunk : BOOLEAN, list : AllowedList]
  BY DEF Config
<1>2. After(c, e).port = Written(c, e)
  BY DEF After, AfterProvision, AfterDelete
<1>3. After(c, e).port[p] = IF p \in e.write THEN [c.port[p] EXCEPT !.list = e.list[p]] ELSE c.port[p]
  BY <1>2 DEF Written
<1>4. VlanSet(c.port[p].list) \in SUBSET Vlans
  BY ConfigType
<1>5. ASSUME NEW q \in Provisions, e = ProvisionPayload(c, q)
      PROVE  /\ e.op = "provision"
             /\ VlanSet(e.list[p]) = VlanSet(c.port[p].list) \cup {e.vlan}
  <2>1. q.vlan \in Vlans
    BY NxosAssumption DEF ProvisionRequest
  <2>2. /\ e.op = "provision" /\ e.vlan = q.vlan
        /\ e.list[p] = VlanSpec(VlanSet(c.port[p].list) \cup {q.vlan})
    BY <1>5 DEF ProvisionPayload, Extended
  <2>3. QED
    BY <1>4, <2>1, <2>2, VlanSpecRoundTrip
<1>6. ASSUME NEW v \in Vlans, e = DeletePayload(c, v)
      PROVE  /\ e.op = "delete"
             /\ VlanSet(e.list[p]) = VlanSet(c.port[p].list) \ {e.vlan}
  <2>1. /\ e.op = "delete" /\ e.vlan = v
        /\ e.list[p] = VlanSpec(VlanSet(c.port[p].list) \ {v})
    BY <1>6 DEF DeletePayload
  <2>2. QED
    BY <1>4, <2>1, VlanSpecRoundTrip
<1>7. p \in e.write => /\ After(c, e).port[p].list = e.list[p]
                       /\ After(c, e).port[p].trunk = c.port[p].trunk
  BY <1>1, <1>3
<1>8. p \notin e.write => After(c, e).port[p] = c.port[p]
  BY <1>3
<1>9. QED
  BY <1>5, <1>6, <1>7, <1>8

\* A provision whose payload is up to date makes a service that works.
LEMMA ProvisionWorks ==
  ASSUME NxosInv, NEW q \in Provisions, Clear(config, q),
         config' = After(config, ProvisionPayload(config, q))
  PROVE  Works(q)'
<1> DEFINE e == ProvisionPayload(config, q)
<1>1. /\ q.vlan \in Vlans /\ q.vni \in Vnis /\ q.name \in Names /\ q.port \in Ports /\ config \in Config
  BY NxosAssumption DEF NxosInv, NxosTypeOK, ProvisionRequest, Clear
<1>2. /\ e.op = "provision" /\ e.vlan = q.vlan /\ e.vni = q.vni /\ e.name = q.name
      /\ e.id = ToNxosId(q.rt)
      /\ e.write = IF q.vlan \in VlanSet(config.port[q.port].list) THEN {} ELSE {q.port}
  BY DEF ProvisionPayload
<1>3. /\ config'.bd = [config.bd EXCEPT ![q.vlan] = [name |-> q.name, vni |-> q.vni]]
      /\ config'.nve = config.nve \cup {q.vni} /\ config'.evpn = config.evpn \cup {q.vni}
      /\ config'.rtt = [config.rtt EXCEPT ![q.vni] = @ \cup {ToNxosId(q.rt)}]
  <2>1. config' = AfterProvision(config, e)
    BY <1>2 DEF After
  <2> HIDE DEF e
  <2>2. QED
    BY <1>2, <2>1 DEF AfterProvision
<1>4. /\ DOMAIN config.bd = Vlans /\ DOMAIN config.rtt = Vnis
  BY <1>1 DEF Config
<1>5. config'.bd[q.vlan] = [name |-> q.name, vni |-> q.vni]
  BY <1>1, <1>3, <1>4
<1>6. \A v \in Vlans \ {q.vlan} : config'.bd[v] # None => config'.bd[v].vni # q.vni
  BY <1>3, <1>4 DEF Clear
<1>7. ToNxosId(q.rt) \in config'.rtt[q.vni]
  BY <1>1, <1>3, <1>4
<1>8. Carries(config', q.port, q.vlan)
  <2>1. config.port[q.port].trunk
    BY DEF Clear
  <2>2. /\ config'.port[q.port].trunk = config.port[q.port].trunk
        /\ q.port \notin e.write => config'.port[q.port] = config.port[q.port]
        /\ q.port \in e.write => VlanSet(config'.port[q.port].list) = VlanSet(config.port[q.port].list) \cup {q.vlan}
    <3>1. \E r \in Provisions : Clear(config, r) /\ e = ProvisionPayload(config, r)
      OBVIOUS
    <3>2. config' = After(config, e)
      OBVIOUS
    <3> HIDE DEF e
    <3>3. QED
      BY <1>1, <1>2, <3>1, <3>2, FreshLists
  <2> HIDE DEF e
  <2>3. CASE q.vlan \in VlanSet(config.port[q.port].list)
    BY <1>2, <2>1, <2>2, <2>3 DEF Carries
  <2>4. CASE q.vlan \notin VlanSet(config.port[q.port].list)
    BY <1>2, <2>1, <2>2, <2>4 DEF Carries
  <2>5. QED
    BY <2>3, <2>4
<1>9. q.vni \in config'.nve \cap config'.evpn
  BY <1>3
<1>10. QED
  BY <1>5, <1>6, <1>7, <1>8, <1>9 DEF Works

\* A delete whose payload is up to date erases the instance.
LEMMA DeleteErases ==
  ASSUME NxosInv, NEW w \in Vlans, config.bd[w] # None, config.bd[w].vni # None,
         NEW e, e = DeletePayload(config, w), config' = After(config, e)
  PROVE  Erased(e)'
<1>1. config \in Config
  BY DEF NxosInv, NxosTypeOK
<1>2. /\ e.op = "delete" /\ e.vlan = w /\ e.vni = config.bd[w].vni
      /\ (e.evpn <=> e.vni \in config.evpn) /\ (e.nve <=> e.vni \in config.nve)
      /\ e.write = {p \in Ports : Reducible(config, p, w)}
  BY DEF DeletePayload
<1>3. config' = AfterDelete(config, e)
  BY <1>2 DEF After
<1>4. config'.bd[w] = None
  BY <1>1, <1>2, <1>3 DEF AfterDelete, Config
<1>5. e.vni \notin config'.nve \cup config'.evpn
  <2>1. /\ config'.nve = IF e.nve THEN config.nve \ {e.vni} ELSE config.nve
        /\ config'.evpn = IF e.evpn THEN config.evpn \ {e.vni} ELSE config.evpn
    BY <1>3 DEF AfterDelete
  <2>2. QED
    BY <1>2, <2>1
<1>6. ASSUME NEW p \in Ports, Carries(config', p, w)
      PROVE  config'.port[p].list = ALL_VLANS \/ VlanSet(config'.port[p].list) = {w}
  <2>1. /\ p \notin e.write => config'.port[p] = config.port[p]
        /\ p \in e.write => VlanSet(config'.port[p].list) = VlanSet(config.port[p].list) \ {w}
    BY <1>1, <1>2, FreshLists
  <2>2. p \notin e.write
    BY <1>6, <2>1 DEF Carries
  <2>3. Carries(config, p, w) /\ ~Reducible(config, p, w)
    BY <1>2, <1>6, <2>1, <2>2 DEF Carries
  <2>4. QED
    BY <2>1, <2>2, <2>3 DEF Reducible
<1>7. QED
  BY <1>2, <1>4, <1>5, <1>6 DEF Erased

\* A step of server s, at work, that changes neither the switch nor the request and does
\* not say OK: if the call goes on to write, what it writes is up to date.
LEMMA QuietStep ==
  ASSUME NxosInv, AloneInv, NEW s \in Servers, pc[s] # "idle", pc[s] # "reply",
         NEW p \in {"idle", "edit"}, pc' = [pc EXCEPT ![s] = p],
         \/ p = "edit" /\ UNCHANGED said
         \/ p = "idle" /\ (UNCHANGED said \/ \E a \in {"error", "other"} : said' = [said EXCEPT ![s] = a]),
         UNCHANGED <<config, call, lost>>,
         NEW E \in SUBSET (ProvisionEdit \cup DeleteEdit), edit' = [edit EXCEPT ![s] = E],
         \A d, e \in E : d = e,
         p = "edit" => \A e \in E : \E q \in req[s] : Fresh(q, e)
  PROVE  AloneInv'
<1>1. /\ pc'[s] = p /\ edit'[s] = E /\ said'[s] # "ok" /\ (p = "edit" => said'[s] = "none")
      /\ \A u \in Servers \ {s} : pc'[u] = pc[u] /\ edit'[u] = edit[u] /\ said'[u] = said[u]
  BY DEF NxosInv, NxosTypeOK, AloneInv, AtWork
<1>2. UNCHANGED <<req, alone, lost>>
  BY DEF call
<1>3. \A q, e : Fresh(q, e)' = Fresh(q, e) /\ Works(q)' = Works(q) /\ Erased(e)' = Erased(e)
  BY DEF Fresh, Works, Erased
<1>4. Current(s)'
  BY <1>1, <1>2, <1>3 DEF Current
<1>5. AtWork'
  BY <1>1, <1>2 DEF AloneInv, AtWork
<1>6. \A u \in Servers : (\A q, r \in req'[u] : q = r) /\ (\A d, e \in edit'[u] : d = e)
  BY <1>1, <1>2 DEF AloneInv
<1>7. \A u \in Servers \ {s} : alone'[u] => Current(u)'
  BY <1>1, <1>2, <1>3 DEF AloneInv, Current
<1>8. QED
  BY <1>4, <1>5, <1>6, <1>7 DEF AloneInv

\* An edit-config of an up-to-date payload does what the call is going to say.
LEMMA WriteCurrent ==
  ASSUME NxosInv, AloneInv, NEW s \in Servers, alone[s], pc[s] = "edit",
         NEW e \in edit[s], config' = After(config, e), pc'[s] = "reply", UNCHANGED <<req, edit>>
  PROVE  Current(s)'
<1>1. PICK q \in req[s] : Fresh(q, e)
  BY DEF AloneInv, Current
<1>2. (\A r \in req'[s] : r = q) /\ (\A d \in edit'[s] : d = e)
  BY DEF AloneInv
<1>3. CASE q \in Provisions /\ q.op = "provision" /\ Clear(config, q) /\ e = ProvisionPayload(config, q)
  <2>1. Works(q)'
    BY <1>3, ProvisionWorks
  <2>2. e.op # "delete"
    BY <1>3 DEF ProvisionPayload
  <2>3. QED
    BY <1>2, <2>1, <2>2 DEF Current
<1>4. CASE /\ q.op = "delete"
           /\ \E v \in Vlans : /\ config.bd[v] # None /\ config.bd[v].vni # None
                               /\ e = DeletePayload(config, v)
  <2>1. Erased(e)'
    BY <1>4, DeleteErases
  <2>2. QED
    BY <1>2, <1>4, <2>1 DEF Current
<1>5. QED
  BY <1>1, <1>3, <1>4 DEF Fresh

\* Every step preserves AloneInv.
LEMMA AloneInvStep == NxosInv /\ AloneInv /\ [NxosNext]_nxosVars => AloneInv'
<1> SUFFICES ASSUME NxosInv, AloneInv, [NxosNext]_nxosVars PROVE AloneInv'
  OBVIOUS
<1>1. ASSUME NEW s \in Servers, NEW q, NEW next \in {"get", "idle"}, NEW answer \in {"none", "other"},
             next = "get" => answer = "none", Begin(s, q, next, answer)
      PROVE  AloneInv'
  <2>1. /\ pc'[s] = next /\ said'[s] = answer /\ req'[s] = {q} /\ edit'[s] = {} /\ lost'[s] = FALSE
        /\ \A u \in Servers \ {s} : /\ pc'[u] = pc[u] /\ req'[u] = req[u] /\ edit'[u] = edit[u]
                                    /\ said'[u] = said[u] /\ lost'[u] = lost[u]
                                    /\ alone'[u] = alone[u]
    BY <1>1 DEF Begin, NxosInv, NxosTypeOK
  <2>2. Current(s)'
    BY <1>1, <2>1 DEF Current
  <2>3. AtWork'
    BY <1>1, <2>1 DEF AloneInv, AtWork
  <2>4. \A q1, e : Fresh(q1, e)' = Fresh(q1, e) /\ Works(q1)' = Works(q1) /\ Erased(e)' = Erased(e)
    BY <1>1 DEF Begin, Fresh, Works, Erased
  <2>5. \A u \in Servers \ {s} : alone'[u] => Current(u)'
    BY <2>1, <2>4 DEF AloneInv, Current
  <2>6. QED
    BY <2>1, <2>2, <2>3, <2>5 DEF AloneInv
<1>2. ASSUME NEW s \in Servers, Provision(s) \/ Delete(s) PROVE AloneInv'
  BY <1>1, <1>2 DEF Provision, Delete
<1>3. ASSUME NEW s \in Servers, GetConfig(s) PROVE AloneInv'
  <2>1. pc[s] = "get" /\ UNCHANGED <<config, call, lost>>
    BY <1>3 DEF GetConfig
  <2>2. ASSUME End(s, "other"), UNCHANGED edit PROVE AloneInv'
    <3>1. /\ edit[s] \in SUBSET (ProvisionEdit \cup DeleteEdit)
          /\ edit' = [edit EXCEPT ![s] = edit[s]] /\ \A d, e \in edit[s] : d = e
      BY <2>2 DEF NxosInv, NxosTypeOK, AloneInv
    <3>2. QED
      BY <2>1, <2>2, <3>1, QuietStep DEF End
  <2>3. ASSUME NEW q \in req[s], NEW e \in ProvisionEdit \cup DeleteEdit, Fresh(q, e), Submit(s, q, e)
        PROVE  AloneInv'
    <3>1. edit' = [edit EXCEPT ![s] = {e}] /\ {e} \in SUBSET (ProvisionEdit \cup DeleteEdit)
          /\ \A d, f \in {e} : d = f
      BY <2>3 DEF Submit
    <3>2. \A d \in {e} : \E r \in req[s] : Fresh(r, d)
      BY <2>3
    <3>3. CASE End(s, "other")
      BY <2>1, <3>1, <3>2, <3>3, QuietStep DEF End
    <3>4. CASE Goto(s, "edit")
      BY <2>1, <3>1, <3>2, <3>4, QuietStep DEF Goto
    <3>5. QED
      BY <2>3, <3>3, <3>4 DEF Submit
  <2>4. PICK q \in req[s] :
          \/ End(s, "other") /\ UNCHANGED edit
          \/ q.op = "provision" /\ Clear(config, q) /\ Submit(s, q, ProvisionPayload(config, q))
          \/ /\ q.op = "delete"
             /\ \E v \in Vlans : FirstMatch(config, q.name, v) /\ Submit(s, q, DeletePayload(config, v))
    BY <1>3 DEF GetConfig
  <2>5. config \in Config /\ q \in Provisions \cup Deletes /\ (q.op = "provision" => Valid(q))
    BY <2>1, <2>4 DEF NxosInv, NxosTypeOK, RequestsValid
  <2>6. ASSUME q.op = "provision", Clear(config, q), Submit(s, q, ProvisionPayload(config, q))
        PROVE  AloneInv'
    <3>1. q \in Provisions
      BY <2>5, <2>6, RequestKinds
    <3>2. ProvisionPayload(config, q) \in ProvisionEdit
      BY <2>5, <2>6, <3>1, ProvisionPayloadType
    <3>3. Fresh(q, ProvisionPayload(config, q))
      BY <2>6, <3>1 DEF Fresh
    <3>4. QED
      BY <2>3, <2>6, <3>2, <3>3
  <2>7. ASSUME q.op = "delete", NEW v \in Vlans, FirstMatch(config, q.name, v),
               Submit(s, q, DeletePayload(config, v))
        PROVE  AloneInv'
    <3>1. config.bd[v] # None /\ config.bd[v].vni # None
      BY <2>7 DEF FirstMatch, Matches
    <3>2. DeletePayload(config, v) \in DeleteEdit
      BY <2>5, <3>1, DeletePayloadType
    <3>3. Fresh(q, DeletePayload(config, v))
      BY <2>7, <3>1 DEF Fresh
    <3>4. QED
      BY <2>3, <2>7, <3>2, <3>3
  <2>8. QED
    BY <2>2, <2>4, <2>6, <2>7
<1>4. ASSUME NEW s \in Servers, GetRaises(s) PROVE AloneInv'
  <2>1. /\ pc[s] = "get" /\ UNCHANGED <<config, call, lost>> /\ End(s, "other")
        /\ edit[s] \in SUBSET (ProvisionEdit \cup DeleteEdit)
        /\ edit' = [edit EXCEPT ![s] = edit[s]] /\ \A d, e \in edit[s] : d = e
    BY <1>4 DEF GetRaises, NxosInv, NxosTypeOK, AloneInv
  <2>2. QED
    BY <2>1, QuietStep DEF End
<1>5. ASSUME NEW s \in Servers, EditConfig(s) PROVE AloneInv'
  <2>1. /\ pc[s] = "edit" /\ UNCHANGED <<req, calls, edit, lost>>
    BY <1>5 DEF EditConfig
  <2>2. CASE End(s, "error") /\ UNCHANGED <<config, alone>>
    <3>1. /\ edit[s] \in SUBSET (ProvisionEdit \cup DeleteEdit)
          /\ edit' = [edit EXCEPT ![s] = edit[s]] /\ \A d, e \in edit[s] : d = e
      BY <2>1 DEF NxosInv, NxosTypeOK, AloneInv
    <3>2. QED
      BY <2>1, <2>2, <3>1, QuietStep DEF End, call
  <2>3. ASSUME NEW e \in edit[s], config' = After(config, e), Take(s) PROVE AloneInv'
    <3>1. /\ pc'[s] = "reply" /\ UNCHANGED <<said, lost, req, edit>>
          /\ \A u \in Servers \ {s} : pc'[u] = pc[u]
          /\ \A u \in Servers : alone'[u] => u = s /\ alone[s]
      BY <2>1, <2>3 DEF Take, Goto, NxosInv, NxosTypeOK
    <3>2. alone[s] => Current(s)'
      BY <2>1, <2>3, <3>1, WriteCurrent
    <3>3. AtWork'
      BY <2>1, <3>1 DEF AloneInv, AtWork
    <3>4. QED
      BY <2>1, <3>1, <3>2, <3>3 DEF AloneInv
  <2>4. QED
    BY <1>5, <2>2, <2>3 DEF EditConfig, Take
<1>6. ASSUME NEW s \in Servers, Reply(s) \/ Crash(s) PROVE AloneInv'
  <2>1. /\ pc[s] # "idle" /\ UNCHANGED <<config, req, edit, alone>> /\ said[s] = "none"
        /\ pc'[s] = "idle"
        /\ \A u \in Servers \ {s} : pc'[u] = pc[u] /\ said'[u] = said[u] /\ lost'[u] = lost[u]
        /\ said'[s] = "ok" => pc[s] = "reply"
    BY <1>6 DEF Reply, Crash, End, call, NxosInv, NxosTypeOK, AloneInv, AtWork
  <2>2. \A q, e : Fresh(q, e)' = Fresh(q, e) /\ Works(q)' = Works(q) /\ Erased(e)' = Erased(e)
    BY <2>1 DEF Fresh, Works, Erased
  <2>3. \A u \in Servers : alone[u] => Current(u)'
    BY <2>1, <2>2 DEF AloneInv, Current
  <2>4. AtWork'
    BY <2>1 DEF AloneInv, AtWork
  <2>5. QED
    BY <2>1, <2>3, <2>4 DEF AloneInv
<1>7. CASE UNCHANGED nxosVars
  <2>1. \A s \in Servers : Current(s)' = Current(s)
    BY <1>7 DEF nxosVars, call, Current, Fresh, Works, Erased
  <2>2. QED
    BY <1>7, <2>1 DEF nxosVars, call, AloneInv, AtWork
<1>8. QED
  BY <1>2, <1>3, <1>4, <1>5, <1>6, <1>7 DEF NxosNext

\* AloneInv holds throughout.
LEMMA AloneInvariant == NxosSpec => []AloneInv
<1>1. NxosInit => AloneInv
  BY DEF NxosInit, AloneInv, AtWork
<1>2. QED
  BY <1>1, AloneInvStep, NxosInvariant, PTL DEF NxosSpec

\* What provision says it has made is all there, with its VNI for itself alone and the
\* route-target as it is written, if no other call has changed the switch since.
THEOREM ProvisionedServiceWorks == NxosSpec => []ProvisionedWorks
<1>1. AloneInv => ProvisionedWorks
  BY DEF AloneInv, Current, Works, ProvisionedWorks
<1>2. QED
  BY <1>1, AloneInvariant, PTL

\* What delete says it has deleted is gone from VLANs, NVE and EVPN, and from the trunks
\* but for the two exceptions its docstring names, if no other call has changed the switch since.
THEOREM DeletedServiceGone == NxosSpec => []DeletedLeavesNothing
<1>1. AloneInv => DeletedLeavesNothing
  BY DEF AloneInv, Current, Erased, DeletedLeavesNothing
<1>2. QED
  BY <1>1, AloneInvariant, PTL

\* Only the edit-config of a call takes it to waiting for the reply.
LEMMA WriteCases ==
  ASSUME NxosInv, [NxosNext]_nxosVars, NEW s \in Servers, pc[s] = "edit", pc'[s] = "reply"
  PROVE  \E e \in edit[s] : config' = After(config, e)
<1>1. ASSUME NEW u \in Servers, Provision(u) \/ Delete(u) PROVE FALSE
  <2>1. \E next \in {"get", "idle"} : \E q, answer : Begin(u, q, next, answer)
    BY <1>1 DEF Provision, Delete
  <2>2. QED
    BY <2>1 DEF Begin, NxosInv, NxosTypeOK
<1>2. ASSUME NEW u \in Servers, GetConfig(u) \/ GetRaises(u) \/ Reply(u) \/ Crash(u) PROVE FALSE
  BY <1>2 DEF GetConfig, GetRaises, Reply, Crash, Submit, Goto, End, NxosInv, NxosTypeOK
<1>3. ASSUME NEW u \in Servers, EditConfig(u)
      PROVE  \E e \in edit[s] : config' = After(config, e)
  BY <1>3 DEF EditConfig, Take, Goto, End, NxosInv, NxosTypeOK
<1>4. ~UNCHANGED nxosVars
  BY DEF nxosVars
<1>5. QED
  BY <1>1, <1>2, <1>3, <1>4 DEF NxosNext

\* If no other call has changed the switch since, rewriting the allowed lists changes them for the VLAN of
\* the call only, whatever ranges they are written with.
THEOREM OtherVlansUntouched == NxosSpec => OthersUntouched
<1>1. ASSUME NxosInv, AloneInv, [NxosNext]_nxosVars, NEW s \in Servers,
             pc[s] = "edit", pc'[s] = "reply", alone[s], NEW e \in edit[s], NEW p \in Ports
      PROVE  VlanSet(config.port[p].list) \ {e.vlan} = VlanSet(config'.port[p].list) \ {e.vlan}
  <2>1. config \in Config /\ config' = After(config, e)
    <3>1. \A d \in edit[s] : d = e
      BY <1>1 DEF AloneInv
    <3>2. QED
      BY <1>1, <3>1, WriteCases DEF NxosInv, NxosTypeOK
  <2>2. PICK q \in req[s] : Fresh(q, e)
    BY <1>1 DEF AloneInv, Current
  <2>3. CASE q \in Provisions /\ Clear(config, q) /\ e = ProvisionPayload(config, q)
    <3>1. e.op = "provision"
      BY <2>3 DEF ProvisionPayload
    <3>2. QED
      BY <2>1, <2>3, <3>1, FreshLists
  <2>4. ASSUME NEW v \in Vlans, e = DeletePayload(config, v)
        PROVE  VlanSet(config.port[p].list) \ {e.vlan} = VlanSet(config'.port[p].list) \ {e.vlan}
    <3>1. e.op = "delete"
      BY <2>4 DEF DeletePayload
    <3>2. QED
      BY <2>1, <2>4, <3>1, FreshLists
  <2>5. QED
    BY <2>2, <2>3, <2>4 DEF Fresh
<1>2. NxosInv /\ AloneInv /\ [NxosNext]_nxosVars =>
        [\A s \in Servers : pc[s] = "edit" /\ pc'[s] = "reply" /\ alone[s] =>
           \A e \in edit[s], p \in Ports :
             VlanSet(config.port[p].list) \ {e.vlan} = VlanSet(config'.port[p].list) \ {e.vlan}]_nxosVars
  BY <1>1
<1>3. QED
  BY <1>2, NxosInvariant, AloneInvariant, PTL DEF NxosSpec, OthersUntouched

-----------------------------------------------------------------------------
(* The refinement of AtomicWrite.                                           *)

\* What a step that moves server s to p does to the abstract calls.
LEMMA CallMove ==
  ASSUME NxosInv, NEW s \in Servers, NEW p, pc' = [pc EXCEPT ![s] = p]
  PROVE  AtomicCall' = [AtomicCall EXCEPT ![s] = Stage(p)] /\ AtomicCall[s] = Stage(pc[s])
<1>1. pc'[s] = p /\ \A u \in Servers \ {s} : pc'[u] = pc[u]
  BY DEF NxosInv, NxosTypeOK
<1>2. AtomicCall' = [u \in Servers |-> Stage(pc'[u])]
  BY DEF AtomicCall, Stage
<1>3. QED
  BY <1>1, <1>2 DEF AtomicCall, Stage

\* What a step that only server s answers in does to the abstract answers.
LEMMA AnswerMove ==
  ASSUME NEW s \in Servers, \A u \in Servers \ {s} : said'[u] = said[u] /\ lost'[u] = lost[u]
  PROVE  AtomicAnswer' = [AtomicAnswer EXCEPT ![s] = IF lost'[s] THEN "none" ELSE said'[s]]
  BY DEF AtomicAnswer

\* A call that begins.
LEMMA BeginMaps ==
  ASSUME NxosInv, NEW s \in Servers, NEW q, NEW next, NEW answer, Begin(s, q, next, answer),
         (next = "idle" /\ answer = "other") \/ (next = "get" /\ answer = "none")
  PROVE  Atomic!Open(s) \/ Atomic!Refuse(s)
<1>1. /\ pc[s] = "idle" /\ pc' = [pc EXCEPT ![s] = next] /\ UNCHANGED config
      /\ said' = [said EXCEPT ![s] = answer] /\ lost' = [lost EXCEPT ![s] = FALSE]
  BY DEF Begin
<1>2. /\ said'[s] = answer /\ lost'[s] = FALSE
      /\ \A u \in Servers \ {s} : said'[u] = said[u] /\ lost'[u] = lost[u]
  BY <1>1 DEF NxosInv, NxosTypeOK
<1>3. AtomicCall' = [AtomicCall EXCEPT ![s] = Stage(next)] /\ AtomicCall[s] = "idle"
  BY <1>1, CallMove DEF Stage
<1>4. AtomicAnswer' = [AtomicAnswer EXCEPT ![s] = answer]
  BY <1>2, AnswerMove
<1>5. CASE next = "idle" /\ answer = "other"
  <2>1. AtomicCall' = AtomicCall
    BY <1>3, <1>5 DEF AtomicCall, Stage
  <2>2. QED
    BY <1>1, <1>3, <1>4, <1>5, <2>1 DEF Atomic!Refuse
<1>6. CASE next = "get" /\ answer = "none"
  BY <1>1, <1>3, <1>4, <1>6 DEF Atomic!Open, Stage
<1>7. QED
  BY <1>5, <1>6

\* An answer before anything has been written.
LEMMA ReturnMaps ==
  ASSUME NxosInv, AloneInv, NEW s \in Servers, NEW a \in {"error", "other"},
         pc[s] \in {"get", "edit"}, End(s, a), UNCHANGED <<config, lost>>
  PROVE  Atomic!Return(s)
<1>1. pc' = [pc EXCEPT ![s] = "idle"] /\ said' = [said EXCEPT ![s] = a]
  BY DEF End
<1>2. /\ said'[s] = a /\ lost'[s] = FALSE
      /\ \A u \in Servers \ {s} : said'[u] = said[u] /\ lost'[u] = lost[u]
  BY <1>1 DEF NxosInv, NxosTypeOK, AloneInv, AtWork
<1>3. AtomicCall' = [AtomicCall EXCEPT ![s] = "idle"] /\ AtomicCall[s] = "open"
  BY <1>1, CallMove DEF Stage
<1>4. AtomicAnswer' = [AtomicAnswer EXCEPT ![s] = a]
  BY <1>2, AnswerMove
<1>5. QED
  BY <1>3, <1>4 DEF Atomic!Return

\* The get-config after which the call goes on.
LEMMA GotoMaps ==
  ASSUME NxosInv, NEW s \in Servers, pc[s] = "get", Goto(s, "edit"), UNCHANGED <<config, lost>>
  PROVE  UNCHANGED Atomic!absVars
<1>1. pc' = [pc EXCEPT ![s] = "edit"] /\ said' = said
  BY DEF Goto
<1>2. AtomicCall' = AtomicCall
  BY <1>1, CallMove DEF AtomicCall, Stage
<1>3. AtomicAnswer' = AtomicAnswer
  BY <1>1 DEF AtomicAnswer
<1>4. QED
  BY <1>2, <1>3 DEF Atomic!absVars

\* The edit-config that is taken.
LEMMA WriteMaps ==
  ASSUME NxosInv, NEW s \in Servers, pc[s] = "edit", NEW e \in edit[s], config' = After(config, e),
         Goto(s, "reply"), UNCHANGED lost
  PROVE  Atomic!Write(s)
<1>1. pc' = [pc EXCEPT ![s] = "reply"] /\ said' = said
  BY DEF Goto
<1>2. AtomicCall' = [AtomicCall EXCEPT ![s] = "written"] /\ AtomicCall[s] = "open"
  BY <1>1, CallMove DEF Stage
<1>3. AtomicAnswer' = AtomicAnswer
  BY <1>1 DEF AtomicAnswer
<1>4. e \in ProvisionEdit \cup DeleteEdit /\ config \in Config
  BY DEF NxosInv, NxosTypeOK
<1>5. e.vlan \in Vlans /\ e.vni \in Vnis
  BY <1>4 DEF ProvisionEdit, DeleteEdit
<1>6. \A w \in Vlans \ {e.vlan} : config'.bd[w] = config.bd[w]
  BY <1>4, <1>5 DEF After, AfterProvision, AfterDelete, Config
<1>7. config'.nve \ {e.vni} = config.nve \ {e.vni} /\ config'.evpn \ {e.vni} = config.evpn \ {e.vni}
  BY DEF After, AfterProvision, AfterDelete
<1>8. OneInstanceChanges(config, config')
  BY <1>5, <1>6, <1>7 DEF OneInstanceChanges
<1>9. QED
  BY <1>2, <1>3, <1>8 DEF Atomic!Write

\* The answer to an edit-config arrives or is lost.
LEMMA ReplyMaps ==
  ASSUME NxosInv, AloneInv, NEW s \in Servers, Reply(s)
  PROVE  Atomic!Return(s) \/ Atomic!Die(s)
<1>1. /\ pc[s] = "reply" /\ UNCHANGED config /\ pc' = [pc EXCEPT ![s] = "idle"]
      /\ said[s] = "none" /\ lost[s] = FALSE
  BY DEF Reply, End, AloneInv, AtWork
<1>2. AtomicCall' = [AtomicCall EXCEPT ![s] = "idle"] /\ AtomicCall[s] = "written"
  BY <1>1, CallMove DEF Stage
<1>3. CASE End(s, "ok") /\ UNCHANGED lost
  <2>1. /\ said'[s] = "ok" /\ lost'[s] = FALSE
        /\ \A u \in Servers \ {s} : said'[u] = said[u] /\ lost'[u] = lost[u]
    BY <1>1, <1>3 DEF End, NxosInv, NxosTypeOK
  <2>2. AtomicAnswer' = [AtomicAnswer EXCEPT ![s] = "ok"]
    BY <2>1, AnswerMove
  <2>3. QED
    BY <1>1, <1>2, <2>2 DEF Atomic!Return
<1>4. CASE End(s, "error") /\ lost' = [lost EXCEPT ![s] = TRUE]
  <2>1. /\ lost'[s] = TRUE
        /\ \A u \in Servers \ {s} : said'[u] = said[u] /\ lost'[u] = lost[u]
    BY <1>1, <1>4 DEF End, NxosInv, NxosTypeOK
  <2>2. AtomicAnswer' = [AtomicAnswer EXCEPT ![s] = "none"] /\ AtomicAnswer[s] = "none"
    BY <1>1, <2>1, AnswerMove DEF AtomicAnswer
  <2>3. AtomicAnswer' = AtomicAnswer
    BY <2>2 DEF AtomicAnswer
  <2>4. QED
    BY <1>1, <1>2, <2>3 DEF Atomic!Die
<1>5. QED
  BY <1>3, <1>4 DEF Reply

\* Every step is a step of AtomicWrite, or changes nothing it sees.
LEMMA AtomicStep ==
  NxosInv /\ AloneInv /\ [NxosNext]_nxosVars => [Atomic!AtomicNext]_(Atomic!absVars)
<1> SUFFICES ASSUME NxosInv, AloneInv, [NxosNext]_nxosVars
             PROVE  Atomic!AtomicNext \/ UNCHANGED Atomic!absVars
  OBVIOUS
<1>1. ASSUME NEW s \in Servers, Provision(s) \/ Delete(s) PROVE Atomic!AtomicNext
  BY <1>1, BeginMaps DEF Provision, Delete, Atomic!AtomicNext
<1>2. ASSUME NEW s \in Servers, GetConfig(s) \/ GetRaises(s)
      PROVE  Atomic!AtomicNext \/ UNCHANGED Atomic!absVars
  <2>1. /\ pc[s] = "get" /\ UNCHANGED <<config, lost>>
        /\ End(s, "other") \/ Goto(s, "edit")
    BY <1>2 DEF GetConfig, GetRaises, Submit
  <2>2. QED
    BY <2>1, ReturnMaps, GotoMaps DEF Atomic!AtomicNext
<1>3. ASSUME NEW s \in Servers, EditConfig(s) PROVE Atomic!AtomicNext
  <2>1. /\ pc[s] = "edit" /\ UNCHANGED lost
        /\ \/ (\E e \in edit[s] : config' = After(config, e)) /\ Goto(s, "reply")
           \/ End(s, "error") /\ UNCHANGED config
    BY <1>3 DEF EditConfig, Take
  <2>2. QED
    BY <2>1, ReturnMaps, WriteMaps DEF Atomic!AtomicNext
<1>4. ASSUME NEW s \in Servers, Reply(s) PROVE Atomic!AtomicNext
  BY <1>4, ReplyMaps DEF Atomic!AtomicNext
<1>5. ASSUME NEW s \in Servers, Crash(s) PROVE Atomic!AtomicNext
  <2>1. /\ pc[s] # "idle" /\ pc' = [pc EXCEPT ![s] = "idle"] /\ UNCHANGED <<config, said, lost>>
    BY <1>5 DEF Crash
  <2>2. /\ AtomicCall' = [AtomicCall EXCEPT ![s] = "idle"] /\ AtomicCall[s] # "idle"
        /\ UNCHANGED AtomicAnswer
    BY <2>1, CallMove DEF Stage, AtomicAnswer
  <2>3. QED
    BY <2>1, <2>2 DEF Atomic!Die, Atomic!AtomicNext
<1>6. CASE UNCHANGED nxosVars
  BY <1>6 DEF nxosVars, Atomic!absVars, AtomicCall, AtomicAnswer
<1>7. QED
  BY <1>1, <1>2, <1>3, <1>4, <1>5, <1>6 DEF NxosNext

\* provision and delete are one atomic edit-config each (ARCHITECTURE.md:275): a call
\* changes the switch at most once, says OK only if it did, and "no changes were applied"
\* only if it did not, unless the answer to its edit-config was lost.
THEOREM NxosIsAtomic == NxosSpec => ImplementsAtomicWrite
<1>1. NxosInit => Atomic!AtomicInit
  BY DEF NxosInit, Atomic!AtomicInit, AtomicCall, Stage, AtomicAnswer
<1>2. QED
  BY <1>1, AtomicStep, NxosInvariant, AloneInvariant, PTL
     DEF NxosSpec, ImplementsAtomicWrite, Atomic!AtomicSpec
=============================================================================
