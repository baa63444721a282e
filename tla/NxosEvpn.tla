------------------------------ MODULE NxosEvpn ------------------------------
(***************************************************************************)
(* provision_evpn_instance and delete_evpn_instance of the NX-OS backend       *)
(* (src/netmcp/nos/nxos/backend.py, client.py): one NETCONF get-config, from    *)
(* which the checks and the whole payload are computed, and one edit-config.   *)
(* A trunk's allowed list is a single leaf, so a call writes it whole, from    *)
(* what it has read.                                                          *)
(*                                                                         *)
(* The switch is external: an edit-config is taken whole or refused            *)
(* (rollback-on-error), and one that deletes what is not there is refused.      *)
(***************************************************************************)
EXTENDS Integers

CONSTANTS Servers,       \* server processes; each runs one tool call at a time
          MaxVlan,       \* the highest VLAN id (4094)
          ServiceVlans,  \* those _VlanEvpnIntent permits (2 to 3967)
          Vnis,
          Names,         \* the texts that name VLANs, the VLAN ids among them
          Ports,         \* the Ethernet interfaces of the switch
          HalfWord,      \* the values of two bytes (2^16)
          Provisions,    \* the provision requests callers make
          Deletes,       \* the delete requests callers make
          InitConfigs,   \* the configurations the switch may have at the start
          None,          \* what is absent; as a name, Python's str(None)
          MaxCalls       \* bound: tool calls made in all

Vlans == 1..MaxVlan
Word == HalfWord * HalfWord

\* A route-target as it is written in a request, and as it is on the switch: the
\* kind says how many bytes each half has.
RouteTarget == [dotted : BOOLEAN, admin : Nat, nn : Nat]
NxosId ==
  [kind : {"as2-nn2"}, admin : 0..(HalfWord - 1), nn : 0..(HalfWord - 1)]
    \cup [kind : {"as2-nn4"}, admin : 0..(HalfWord - 1), nn : 0..(Word - 1)]
    \cup [kind : {"as4-nn2"}, admin : 0..(Word - 1), nn : 0..(HalfWord - 1)]
    \cup [kind : {"ipv4-nn2"}, admin : Nat, nn : 0..(HalfWord - 1)]

\* An allowed list is its set of ranges a-b; their order means nothing.
AllowedList == SUBSET (Vlans \X Vlans)
ALL_VLANS == {<<1, MaxVlan>>}

\* bd: the VLANs.  ep: there is an NVE interface; nve: its member VNIs.  evpn: the
\* VNIs under `evpn`; rtt: their route-targets.  port: the switchport leaves.
Config == [bd : [Vlans -> {None} \cup [name : Names \cup {None}, vni : Vnis \cup {None}]],
           ep : BOOLEAN,
           nve : SUBSET Vnis,
           evpn : SUBSET Vnis,
           rtt : [Vnis -> SUBSET NxosId],
           port : [Ports -> [layer2 : BOOLEAN, trunk : BOOLEAN, list : AllowedList]]]

\* A port outside Ports is one the switch does not have.
ProvisionRequest == [op : {"provision"}, name : Names, vlan : Vlans, vni : Vnis,
                     port : Ports \cup {None}, rt : RouteTarget, dry : BOOLEAN]
DeleteRequest == [op : {"delete"}, name : Names \cup {None}, dry : BOOLEAN]

\* The payload of an edit-config: `id` is the route-target of a provision, evpn and
\* nve say which deletes are in it, the ports in write get the list `list`.
ProvisionEdit == [op : {"provision"}, vlan : Vlans, vni : Vnis, name : Names, id : NxosId,
                  write : SUBSET Ports, list : [Ports -> AllowedList]]
DeleteEdit == [op : {"delete"}, vlan : Vlans, vni : Vnis, evpn : BOOLEAN, nve : BOOLEAN,
               write : SUBSET Ports, list : [Ports -> AllowedList]]

ASSUME NxosAssumption ==
  /\ MaxVlan \in Nat \ {0} /\ HalfWord \in Nat \ {0} /\ MaxCalls \in Nat
  /\ ServiceVlans \subseteq Vlans /\ Vlans \subseteq Names
  /\ Provisions \subseteq ProvisionRequest
  /\ Deletes \subseteq DeleteRequest
  /\ InitConfigs \subseteq Config
  /\ None \notin Names /\ None \notin Vnis /\ None \notin Ports
  /\ \A x \in [name : Names \cup {None}, vni : Vnis \cup {None}] : None # x

VARIABLES config,  \* the running configuration of the switch
          pc,      \* per server: the request it sends next, "idle" between calls
          req,     \* per server: the request of its call ({} before one)
          edit,    \* per server: the payload of its call ({} before it is computed)
          said,    \* per server: the class of what its last call returned
          alone,   \* history: no other call has changed the switch since this one began
          lost,    \* history: the answer to the edit-config of the call was lost
          calls    \* bound: tool calls made so far

call == <<req, alone, calls>>
nxosVars == <<config, pc, req, edit, said, alone, lost, calls>>

NxosInit ==
  /\ config \in InitConfigs
  /\ pc = [s \in Servers |-> "idle"]
  /\ req = [s \in Servers |-> {}]
  /\ edit = [s \in Servers |-> {}]
  /\ said = [s \in Servers |-> "none"]
  /\ alone = [s \in Servers |-> FALSE]
  /\ lost = [s \in Servers |-> FALSE]
  /\ calls = 0

-----------------------------------------------------------------------------
(* Route-targets and VLAN lists.                                             *)

\* _to_nxos_id: the kind an identifier is written as, ...
Kind(r) ==
  IF r.dotted THEN "ipv4-nn2"
  ELSE IF r.admin >= HalfWord THEN "as4-nn2"
  ELSE IF r.nn >= HalfWord THEN "as2-nn4"
  ELSE "as2-nn2"

\* A wrong Encodable: two bytes hold 2^16 too.
EncodableUpTo(r) ==
  /\ r.dotted \/ r.admin < Word
  /\ r.nn <= IF Kind(r) = "as2-nn4" THEN Word ELSE HalfWord

\* ... whether it can be (otherwise ValueError), ...
Encodable(r) ==
  /\ r.dotted \/ r.admin < Word
  /\ r.nn < IF Kind(r) = "as2-nn4" THEN Word ELSE HalfWord

\* ... and how.
ToNxosId(r) == [kind |-> Kind(r), admin |-> r.admin, nn |-> r.nn]

\* _vlan_set: the VLANs of an allowed list.
VlanSet(list) == UNION {i[1]..i[2] : i \in list}

\* A wrong VlanSpec: one range from the lowest VLAN to the highest.
VlanSpecHull(vs) ==
  {i \in vs \X vs : \A v \in vs : i[1] <= v /\ v <= i[2]}

\* _vlan_spec: the list with exactly these VLANs, neighbours joined to a range.
VlanSpec(vs) ==
  {i \in vs \X vs : i[1]..i[2] \subseteq vs /\ i[1] - 1 \notin vs /\ i[2] + 1 \notin vs}

-----------------------------------------------------------------------------
(* Calls.                                                                  *)

End(s, answer) ==
  /\ pc' = [pc EXCEPT ![s] = "idle"]
  /\ said' = [said EXCEPT ![s] = answer]

Goto(s, r) ==
  /\ pc' = [pc EXCEPT ![s] = r]
  /\ UNCHANGED said

\* A tool call reaches server s.
Begin(s, q, next, answer) ==
  /\ pc[s] = "idle"
  /\ calls < MaxCalls
  /\ calls' = calls + 1
  /\ pc' = [pc EXCEPT ![s] = next]
  /\ said' = [said EXCEPT ![s] = answer]
  /\ req' = [req EXCEPT ![s] = {q}]
  /\ edit' = [edit EXCEPT ![s] = {}]
  /\ lost' = [lost EXCEPT ![s] = FALSE]
  /\ alone' = [alone EXCEPT ![s] = TRUE]
  /\ UNCHANGED config

\* _VlanEvpnIntent.
Valid(q) == q.vlan \in ServiceVlans /\ Encodable(q.rt)

Provision(s) ==
  \E q \in Provisions :
    \/ Valid(q) /\ Begin(s, q, "get", "none")
    \/ ~Valid(q) /\ Begin(s, q, "idle", "other")

Delete(s) == \E q \in Deletes : Begin(s, q, "get", "none")

\* A wrong Clear: the VNI is not looked at.
ClearVlan(c, q) ==
  /\ c.bd[q.vlan] = None
  /\ c.ep
  /\ q.port \in Ports /\ c.port[q.port].layer2 /\ c.port[q.port].trunk

\* VLAN free, VNI free, an NVE interface, and a port that is a layer-2 trunk.
Clear(c, q) ==
  /\ c.bd[q.vlan] = None
  /\ \A v \in Vlans : c.bd[v] # None => c.bd[v].vni # q.vni
  /\ c.ep
  /\ q.port \in Ports /\ c.port[q.port].layer2 /\ c.port[q.port].trunk

\* The list a provision writes, unless the port carries the VLAN already.
Extended(list, v) == VlanSpec(VlanSet(list) \cup {v})

ProvisionPayload(c, q) ==
  [op |-> "provision", vlan |-> q.vlan, vni |-> q.vni, name |-> q.name, id |-> ToNxosId(q.rt),
   write |-> IF q.vlan \in VlanSet(c.port[q.port].list) THEN {} ELSE {q.port},
   list |-> [p \in Ports |-> Extended(c.port[p].list, q.vlan)]]

\* _find_instance over _collect: the first VLAN that has a VNI and this name or id.
Matches(c, name, v) ==
  /\ c.bd[v] # None /\ c.bd[v].vni # None
  /\ name \in {c.bd[v].name, v}

FirstMatch(c, name, v) ==
  Matches(c, name, v) /\ \A w \in 1..(v - 1) : ~Matches(c, name, w)

\* Port p is a trunk that lets VLAN v through (_trunk_interfaces).
Carries(c, p, v) == c.port[p].trunk /\ v \in VlanSet(c.port[p].list)

\* Wrong forms of Reducible: a list with one VLAN is emptied; a list that spells out
\* all VLANs is taken for the default one.
ReducibleToNone(c, p, v) == Carries(c, p, v) /\ c.port[p].list # ALL_VLANS
ReducibleUnlessAll(c, p, v) == Carries(c, p, v) /\ VlanSet(c.port[p].list) \notin {Vlans, {v}}

\* A delete rewrites the lists that carry the VLAN but the default one and those with
\* no other VLAN.
Reducible(c, p, v) ==
  Carries(c, p, v) /\ c.port[p].list # ALL_VLANS /\ VlanSet(c.port[p].list) # {v}

\* A wrong DeletePayload: the member VNI stays.
DeletePayloadNoNve(c, v) ==
  [op |-> "delete", vlan |-> v, vni |-> c.bd[v].vni,
   evpn |-> c.bd[v].vni \in c.evpn, nve |-> FALSE,
   write |-> {p \in Ports : Reducible(c, p, v)},
   list |-> [p \in Ports |-> VlanSpec(VlanSet(c.port[p].list) \ {v})]]

DeletePayload(c, v) ==
  [op |-> "delete", vlan |-> v, vni |-> c.bd[v].vni,
   evpn |-> c.bd[v].vni \in c.evpn, nve |-> c.bd[v].vni \in c.nve,
   write |-> {p \in Ports : Reducible(c, p, v)},
   list |-> [p \in Ports |-> VlanSpec(VlanSet(c.port[p].list) \ {v})]]

\* The call sends the payload e, or shows it if this is a dry run.
Submit(s, q, e) ==
  /\ edit' = [edit EXCEPT ![s] = {e}]
  /\ \/ q.dry /\ End(s, "other")
     \/ ~q.dry /\ Goto(s, "edit")

\* get-config, and all that is computed from its reply.
GetConfig(s) ==
  /\ pc[s] = "get"
  /\ \E q \in req[s] :
       \/ /\ q.op = "provision" /\ ~Clear(config, q)
          /\ End(s, "other") /\ UNCHANGED edit
       \/ /\ q.op = "provision" /\ Clear(config, q)
          /\ Submit(s, q, ProvisionPayload(config, q))
       \/ /\ q.op = "delete" /\ \A v \in Vlans : ~Matches(config, q.name, v)
          /\ End(s, "other") /\ UNCHANGED edit
       \/ /\ q.op = "delete"
          /\ \E v \in Vlans : /\ FirstMatch(config, q.name, v)
                              /\ Submit(s, q, DeletePayload(config, v))
  /\ UNCHANGED <<config, call, lost>>

\* get-config fails: its RuntimeError leaves the tool.
GetRaises(s) ==
  /\ pc[s] = "get"
  /\ End(s, "other")
  /\ UNCHANGED <<config, call, edit, lost>>

Written(c, e) ==
  [p \in Ports |-> IF p \in e.write THEN [c.port[p] EXCEPT !.list = e.list[p]] ELSE c.port[p]]

\* The merge of a provision: the EVPN VNI keeps the route-targets it had.
AfterProvision(c, e) ==
  [bd |-> [c.bd EXCEPT ![e.vlan] = [name |-> e.name, vni |-> e.vni]],
   ep |-> c.ep,
   nve |-> c.nve \cup {e.vni},
   evpn |-> c.evpn \cup {e.vni},
   rtt |-> [c.rtt EXCEPT ![e.vni] = @ \cup {e.id}],
   port |-> Written(c, e)]

AfterDelete(c, e) ==
  [bd |-> [c.bd EXCEPT ![e.vlan] = None],
   ep |-> c.ep,
   nve |-> IF e.nve THEN c.nve \ {e.vni} ELSE c.nve,
   evpn |-> IF e.evpn THEN c.evpn \ {e.vni} ELSE c.evpn,
   rtt |-> IF e.evpn THEN [c.rtt EXCEPT ![e.vni] = {}] ELSE c.rtt,
   port |-> Written(c, e)]

\* The switch can take the payload: everything it deletes is there.
Takes(c, e) ==
  e.op = "delete" =>
    /\ c.bd[e.vlan] # None
    /\ e.evpn => e.vni \in c.evpn
    /\ e.nve => e.vni \in c.nve

After(c, e) == IF e.op = "provision" THEN AfterProvision(c, e) ELSE AfterDelete(c, e)

\* The switch takes the payload of s.
Take(s) ==
  /\ \E e \in edit[s] : Takes(config, e) /\ config' = After(config, e)
  /\ Goto(s, "reply")
  /\ alone' = [t \in Servers |-> t = s /\ alone[t]]

\* A wrong EditConfig: the RuntimeError of a refusal is swallowed.
EditConfigSwallows(s) ==
  /\ pc[s] = "edit"
  /\ Take(s) \/ (End(s, "ok") /\ UNCHANGED <<config, alone>>)
  /\ UNCHANGED <<req, calls, edit, lost>>

\* netconf_edit_config: taken, or refused, or no connection.
EditConfig(s) ==
  /\ pc[s] = "edit"
  /\ Take(s) \/ (End(s, "error") /\ UNCHANGED <<config, alone>>)
  /\ UNCHANGED <<req, calls, edit, lost>>

\* The reply to an edit-config that was taken arrives, or does not, which the code
\* takes for a refusal.
Reply(s) ==
  /\ pc[s] = "reply"
  /\ \/ End(s, "ok") /\ UNCHANGED lost
     \/ End(s, "error") /\ lost' = [lost EXCEPT ![s] = TRUE]
  /\ UNCHANGED <<config, call, edit>>

\* The server process is killed.
Crash(s) ==
  /\ pc[s] # "idle"
  /\ pc' = [pc EXCEPT ![s] = "idle"]
  /\ UNCHANGED <<config, call, edit, said, lost>>

NxosNext ==
  \E s \in Servers :
    \/ Provision(s) \/ Delete(s)
    \/ GetConfig(s) \/ GetRaises(s) \/ EditConfig(s) \/ Reply(s)
    \/ Crash(s)

NxosSpec == NxosInit /\ [][NxosNext]_nxosVars

-----------------------------------------------------------------------------
(* Properties.                                                             *)

\* Types.  Every route-target on the switch fits the fields of its kind, so the
\* boundaries of _to_nxos_id are where the fields end.
NxosTypeOK ==
  /\ config \in Config
  /\ pc \in [Servers -> {"idle", "get", "edit", "reply"}]
  /\ req \in [Servers -> SUBSET (ProvisionRequest \cup DeleteRequest)]
  /\ edit \in [Servers -> SUBSET (ProvisionEdit \cup DeleteEdit)]
  /\ said \in [Servers -> {"none", "ok", "error", "other"}]
  /\ alone \in [Servers -> BOOLEAN]
  /\ lost \in [Servers -> BOOLEAN]
  /\ calls \in 0..MaxCalls

\* "OK: EVPN instance ... provisioned": if no other call has changed the switch since this
\* one began, whatever others read or are refused, the VLAN, the NVE and the EVPN VNI
\* agree, no other VLAN has the VNI, the route-target is there and the port carries the VLAN.
ProvisionedWorks ==
  \A s \in Servers : \A q \in req[s] :
    said[s] = "ok" /\ alone[s] /\ q.op = "provision" =>
      /\ config.bd[q.vlan] = [name |-> q.name, vni |-> q.vni]
      /\ \A v \in Vlans \ {q.vlan} : config.bd[v] # None => config.bd[v].vni # q.vni
      /\ q.vni \in config.nve \cap config.evpn
      /\ ToNxosId(q.rt) \in config.rtt[q.vni]
      /\ Carries(config, q.port, q.vlan)

\* "OK: EVPN instance ... deleted": if no other call has changed the switch since, VLAN,
\* member VNI and EVPN VNI are gone, and the trunks that still carry the VLAN have
\* the default list or no other VLAN (the docstring's two exceptions).
DeletedLeavesNothing ==
  \A s \in Servers : \A e \in edit[s] :
    said[s] = "ok" /\ alone[s] /\ e.op = "delete" =>
      /\ config.bd[e.vlan] = None
      /\ e.vni \notin config.nve \cup config.evpn
      /\ \A p \in Ports : Carries(config, p, e.vlan) =>
           config.port[p].list = ALL_VLANS \/ VlanSet(config.port[p].list) = {e.vlan}

\* If no other call has changed the switch since this one began, writing the allowed lists
\* whole changes them for the VLAN of the call only: parsing the list, changing the set and writing it again
\* neither drops nor adds a neighbour.
OthersUntouched ==
  [][\A s \in Servers : pc[s] = "edit" /\ pc'[s] = "reply" /\ alone[s] =>
       \A e \in edit[s], p \in Ports :
         VlanSet(config.port[p].list) \ {e.vlan} = VlanSet(config'.port[p].list) \ {e.vlan}]_nxosVars

\* No call ever leaves a trunk without a VLAN, however stale the list it computed
\* from ("except ... lists where it is the only VLAN").
TrunkNeverEmptied ==
  [][\A p \in Ports : VlanSet(config.port[p].list) # {} => VlanSet(config'.port[p].list) # {}]_nxosVars

\* All of an instance is there; nothing of the instance of VLAN v with VNI n is.
Whole(c, v, n) == c.bd[v] # None /\ c.bd[v].vni = n /\ n \in c.nve \cap c.evpn
Gone(c, v, n) == c.bd[v] = None /\ n \notin c.nve \cup c.evpn

\* Whatever several servers have read, a whole instance stays whole or goes whole, as
\* long as callers give every VLAN a VNI of its own: a stale delete of half an
\* instance is refused by the switch, never half taken.
WholeOrNothing ==
  [][\A v \in Vlans, n \in Vnis :
       Whole(config, v, n) => Whole(config', v, n) \/ Gone(config', v, n)]_nxosVars

Stage(p) == IF p = "idle" THEN "idle" ELSE IF p = "reply" THEN "written" ELSE "open"
AtomicCall == [s \in Servers |-> Stage(pc[s])]

\* A call whose answer was lost has told its caller nothing that is true.
AtomicAnswer == [s \in Servers |-> IF lost[s] THEN "none" ELSE said[s]]

\* A call may change one VLAN, one VNI and allowed lists.
OneInstanceChanges(c, d) ==
  \E v \in Vlans, n \in Vnis :
    /\ \A w \in Vlans \ {v} : d.bd[w] = c.bd[w]
    /\ d.nve \ {n} = c.nve \ {n}
    /\ d.evpn \ {n} = c.evpn \ {n}

Atomic == INSTANCE AtomicWrite
            WITH call <- AtomicCall, Change <- OneInstanceChanges, said <- AtomicAnswer

\* The promise of AtomicWrite (ARCHITECTURE.md:275): one call is one edit-config,
\* taken once or not at all, and unless its answer is lost the caller is told which.
ImplementsAtomicWrite == Atomic!AtomicSpec
=============================================================================
