------------------------------- MODULE EosEvpn -------------------------------
(***************************************************************************)
(* provision_evpn_instance and delete_evpn_instance of the Arista EOS        *)
(* backend (src/netmcp/nos/eos/backend.py, client.py).  A service is a VLAN,  *)
(* its VNI mapping, an evpn-instance and an entry in a trunk list.  A call    *)
(* reads them in several gNMI GETs and writes them in one atomic Set: each    *)
(* request is one action, so what a call has read may be stale when it writes.*)
(*                                                                         *)
(* The switch is external: a Set is taken whole or refused, its deletes before*)
(* its updates; a delete of something absent succeeds; an update appends to   *)
(* a leaf-list, which is why delete clears a trunk list before rewriting it.  *)
(***************************************************************************)
EXTENDS Naturals

CONSTANTS Servers,      \* server processes; each runs one tool call at a time
          Vlans,        \* VLAN ids
          Names,        \* texts that name VLANs and evpn-instances, the VLAN ids among them
          Vnis,
          Ports,        \* the interfaces of the switch
          Ethernets,    \* those named Ethernet<n>, which _VlanEvpnIntent permits
          Trunks,       \* those with interface-mode TRUNK
          Ranges,       \* the "a..b" items trunk lists may hold
          RangeVlans,   \* range -> the VLANs it carries
          Provisions,   \* the provision requests callers make
          Deletes,      \* the delete requests callers make
          Existing,     \* the configurations the switch may have at the start
          None,         \* what is absent; as a text, Python's str(None)
          MaxCalls,     \* bound: tool calls made in all
          Unreachable,  \* connecting and GETs may fail, which raises out of the tool
          Crashes       \* a server process may be killed inside a call

Items == Vlans \cup Ranges
ProvisionRequest ==
  [op : {"provision"}, name : Names, vlan : Vlans, vni : Vnis, port : Ports, dry : BOOLEAN]
DeleteRequest == [op : {"delete"}, name : Names \cup {None}, dry : BOOLEAN]
EvpnTable == [Names -> {None} \cup SUBSET Vlans]
VlanTable == [Vlans -> Names \cup {None}]
VniTable == [Vlans -> Vnis \cup {None}]
TrunkTable == [Ports -> SUBSET Items]
Device == [evpn : EvpnTable, vlan : VlanTable, vni : VniTable, trunk : TrunkTable]
Seen == [evpn : EvpnTable, vlan : VlanTable, trunk : TrunkTable]
Target == [name : Names \cup {None}, vlan : Vlans \cup {None}, vni : BOOLEAN]

ASSUME EosAssumption ==
  /\ Vlans \subseteq Names
  /\ Vlans \cap Ranges = {}
  /\ RangeVlans \in [Ranges -> SUBSET Vlans]
  /\ Provisions \subseteq ProvisionRequest
  /\ Deletes \subseteq DeleteRequest
  /\ \A d \in Existing : d \in Device
  /\ None \notin Names /\ None \notin Vnis
  /\ \A vs \in SUBSET Vlans : None # vs
  /\ \A q \in Provisions \cup Deletes : None # q
  /\ MaxCalls \in Nat
  /\ Unreachable \in BOOLEAN /\ Crashes \in BOOLEAN

VARIABLES evpn,    \* switch: evpn-instance name -> its VLANs
          vlan,    \* switch: VLAN -> its name
          vni,     \* switch: VLAN -> VNI mapping of Vxlan1
          trunk,   \* switch: interface -> trunk-vlans, {} meaning that all are carried
          pc,      \* per server: the request it sends next, "idle" between calls
          req,     \* per server: the arguments of its call
          sees,    \* per server: what its GETs have returned
          target,  \* per server: the instance delete has found: name, VLAN, has a VNI
          said,    \* per server: the answer of its last call
          wrote,   \* history: the switch has applied the Set of the call
          alone,   \* history: no other call has changed the switch since this one began
          lost,    \* history: the answer to the Set of the call was lost
          handmade, \* history: VLANs that an operator had put into an instance at the start
          calls    \* bound: tool calls made so far

device == <<evpn, vlan, vni, trunk>>
past == <<alone, lost, handmade, calls>>
eosVars == <<device, pc, req, sees, target, said, wrote, past>>

Gets == {"trunk", "vlans", "evpn", "vnis", "interfaces"}
EosAnswers == {"none", "ok", "error", "invalid", "not a trunk", "exists", "not found", "dry run", "raised"}
NothingSeen == [evpn |-> [n \in Names |-> None], vlan |-> [v \in Vlans |-> None],
                trunk |-> [p \in Ports |-> {}]]
NoTarget == [name |-> None, vlan |-> None, vni |-> FALSE]

EosTypeOK ==
  /\ evpn \in EvpnTable
  /\ vlan \in VlanTable
  /\ vni \in VniTable
  /\ trunk \in TrunkTable
  /\ pc \in [Servers -> {"idle", "set", "reply"} \cup Gets]
  /\ req \in [Servers -> Provisions \cup Deletes \cup {None}]
  /\ sees \in [Servers -> Seen]
  /\ target \in [Servers -> Target]
  /\ said \in [Servers -> EosAnswers]
  /\ wrote \in [Servers -> BOOLEAN]
  /\ alone \in [Servers -> BOOLEAN]
  /\ lost \in [Servers -> BOOLEAN]
  /\ handmade \subseteq Vlans
  /\ calls \in 0..MaxCalls

Members(n) == IF evpn[n] = None THEN {} ELSE evpn[n]

\* VLAN v is there, mapped to a VNI.
Created(v) == vlan[v] # None /\ vni[v] # None

EosInit ==
  /\ \E d \in Existing : evpn = d.evpn /\ vlan = d.vlan /\ vni = d.vni /\ trunk = d.trunk
  /\ pc = [s \in Servers |-> "idle"]
  /\ req = [s \in Servers |-> None]
  /\ sees = [s \in Servers |-> NothingSeen]
  /\ target = [s \in Servers |-> NoTarget]
  /\ said = [s \in Servers |-> "none"]
  /\ wrote = [s \in Servers |-> FALSE]
  /\ alone = [s \in Servers |-> FALSE]
  /\ lost = [s \in Servers |-> FALSE]
  /\ handmade = {v \in Vlans : \E n \in Names : v \in Members(n) /\ ~(n = v /\ Created(v))}
  /\ calls = 0

-----------------------------------------------------------------------------
(* Trunk lists.                                                            *)

\* _vlan_in_trunk_list: v is in the list, by itself or in a range.
VlanInTrunkList(v, list) ==
  v \in list \/ \E i \in list \cap Ranges : v \in RangeVlans[i]

\* Port p lets VLAN v through: an empty list carries every VLAN.
Carries(p, v) == trunk[p] = {} \/ VlanInTrunkList(v, trunk[p])

\* A wrong WithVlan: a list that holds a range is taken to carry the VLAN.
WithVlanUnlessRange(now, list, v) ==
  IF list # {} /\ v \notin list /\ list \cap Ranges = {} THEN now \cup list \cup {v} ELSE now

\* Provision extends the port's list unless that list carries the VLAN already;
\* `list` is what the GET returned, `now` what the switch has.
WithVlan(now, list, v) ==
  IF list # {} /\ ~VlanInTrunkList(v, list) THEN now \cup list \cup {v} ELSE now

\* Wrong forms of WithoutVlan: the last entry goes too; ranges are dropped.
WithoutLastVlan(now, list, v) == IF v \in list THEN list \ {v} ELSE now
WithoutRanges(now, list, v) ==
  IF v \in list /\ list \ {v} # {} THEN list \ ({v} \cup Ranges) ELSE now

\* Delete rewrites a list that names the VLAN itself, unless nothing is left.
WithoutVlan(now, list, v) ==
  IF v \in list /\ list \ {v} # {} THEN list \ {v} ELSE now

-----------------------------------------------------------------------------
(* Calls.                                                                  *)

Goto(s, r) ==
  /\ pc' = [pc EXCEPT ![s] = r]
  /\ UNCHANGED said

End(s, answer) ==
  /\ pc' = [pc EXCEPT ![s] = "idle"]
  /\ said' = [said EXCEPT ![s] = answer]

Begin(s, q, next, answer) ==
  /\ pc[s] = "idle"
  /\ calls < MaxCalls
  /\ calls' = calls + 1
  /\ pc' = [pc EXCEPT ![s] = next]
  /\ req' = [req EXCEPT ![s] = q]
  /\ sees' = [sees EXCEPT ![s] = NothingSeen]
  /\ target' = [target EXCEPT ![s] = NoTarget]
  /\ said' = [said EXCEPT ![s] = answer]
  /\ wrote' = [wrote EXCEPT ![s] = FALSE]
  /\ alone' = [alone EXCEPT ![s] = TRUE]
  /\ lost' = [lost EXCEPT ![s] = FALSE]
  /\ UNCHANGED <<device, handmade>>

Provision(s) ==
  \E q \in Provisions :
    \/ q.port \in Ethernets /\ Begin(s, q, "trunk", "none")
    \/ q.port \notin Ethernets /\ Begin(s, q, "idle", "invalid")

Delete(s) == \E q \in Deletes : Begin(s, q, "evpn", "none")

\* Provision: GET the port's switched-vlan config; it must be a trunk.
GetTrunk(s) ==
  /\ pc[s] = "trunk"
  /\ \/ /\ req[s].port \in Trunks
        /\ sees' = [sees EXCEPT ![s].trunk[req[s].port] = trunk[req[s].port]]
        /\ Goto(s, "vlans")
     \/ /\ req[s].port \notin Trunks
        /\ End(s, "not a trunk")
        /\ UNCHANGED sees
  /\ UNCHANGED <<device, req, target, wrote, past>>

\* Delete: GET the evpn-instances; without any, the others are not read.
GetEvpn(s) ==
  /\ pc[s] = "evpn"
  /\ \/ /\ \E n \in Names : evpn[n] # None
        /\ sees' = [sees EXCEPT ![s].evpn = evpn]
        /\ Goto(s, "vlans")
     \/ /\ \A n \in Names : evpn[n] = None
        /\ End(s, "not found")
        /\ UNCHANGED sees
  /\ UNCHANGED <<device, req, target, wrote, past>>

\* GET the VLANs: provision refuses one that is taken, delete wants their names.
GetVlans(s) ==
  /\ pc[s] = "vlans"
  /\ \/ /\ req[s].op = "provision"
        /\ \/ vlan[req[s].vlan] # None /\ End(s, "exists")
           \/ vlan[req[s].vlan] = None /\ req[s].dry /\ End(s, "dry run")
           \/ vlan[req[s].vlan] = None /\ ~req[s].dry /\ Goto(s, "set")
        /\ UNCHANGED sees
     \/ /\ req[s].op = "delete"
        /\ sees' = [sees EXCEPT ![s].vlan = vlan]
        /\ Goto(s, "vnis")
  /\ UNCHANGED <<device, req, target, wrote, past>>

\* The VLAN _collect takes for each instance: the first it lists, if any.
FirstVlans(s) ==
  {f \in [Names -> Vlans \cup {None}] :
     \A n \in Names : IF sees[s].evpn[n] \in {None, {}} THEN f[n] = None
                      ELSE f[n] \in sees[s].evpn[n]}

\* _find_instance: instance n, whose VLAN is v, answers to the name of the
\* instance, of the VLAN, or to the VLAN id.
Answers(s, n, v) ==
  /\ sees[s].evpn[n] # None
  /\ req[s].name \in {n, v, IF v = None THEN None ELSE sees[s].vlan[v]}

\* Delete: GET the VNI mappings and join the three replies.
GetVnis(s) ==
  /\ pc[s] = "vnis"
  /\ \E f \in FirstVlans(s) :
       \/ /\ \A n \in Names : ~Answers(s, n, f[n])
          /\ End(s, "not found")
          /\ UNCHANGED target
       \/ \E n \in Names :
            /\ Answers(s, n, f[n])
            /\ target' = [target EXCEPT ![s] =
                            [name |-> n, vlan |-> f[n], vni |-> f[n] # None /\ vni[f[n]] # None]]
            /\ \/ f[n] # None /\ Goto(s, "interfaces")
               \/ f[n] = None /\ req[s].dry /\ End(s, "dry run")
               \/ f[n] = None /\ ~req[s].dry /\ Goto(s, "set")
  /\ UNCHANGED <<device, req, sees, wrote, past>>

\* Delete: GET /interfaces for the trunk lists.
GetInterfaces(s) ==
  /\ pc[s] = "interfaces"
  /\ sees' = [sees EXCEPT ![s].trunk = trunk]
  /\ \/ req[s].dry /\ End(s, "dry run")
     \/ ~req[s].dry /\ Goto(s, "set")
  /\ UNCHANGED <<device, req, target, wrote, past>>

\* gnmi_get raises unless the switch answers or says that the path is not found.
GetRaises(s) ==
  /\ Unreachable
  /\ pc[s] \in Gets
  /\ End(s, "raised")
  /\ UNCHANGED <<device, req, sees, target, wrote, past>>

\* The Set of provision: VLAN, VNI mapping, evpn-instance, trunk list.
AddService(q, list) ==
  /\ vlan' = [vlan EXCEPT ![q.vlan] = q.name]
  /\ vni' = [vni EXCEPT ![q.vlan] = q.vni]
  /\ evpn' = [evpn EXCEPT ![q.vlan] = IF @ = None THEN {q.vlan} ELSE @ \cup {q.vlan}]
  /\ trunk' = [trunk EXCEPT ![q.port] = WithVlan(@, list, q.vlan)]

\* Wrong forms of RemoveService: the VNI mapping stays, or becomes VNI 0; the
\* evpn-instance stays.
RemoveVlan(t, lists) ==
  /\ vlan' = [v \in Vlans |-> IF v = t.vlan THEN None ELSE vlan[v]]
  /\ trunk' = [p \in Ports |->
                 IF t.vlan = None THEN trunk[p] ELSE WithoutVlan(trunk[p], lists[p], t.vlan)]
RemoveAllButVni(t, lists) ==
  /\ RemoveVlan(t, lists)
  /\ evpn' = [evpn EXCEPT ![t.name] = None]
  /\ UNCHANGED vni
RemoveVniToZero(t, lists) ==
  /\ RemoveVlan(t, lists)
  /\ evpn' = [evpn EXCEPT ![t.name] = None]
  /\ vni' = [v \in Vlans |-> IF v = t.vlan THEN 0 ELSE vni[v]]
RemoveAllButInstance(t, lists) ==
  /\ RemoveVlan(t, lists)
  /\ vni' = [v \in Vlans |-> IF v = t.vlan /\ t.vni THEN None ELSE vni[v]]
  /\ UNCHANGED evpn

\* The Set of delete, made from what the GETs returned.
RemoveService(t, lists) ==
  /\ evpn' = [evpn EXCEPT ![t.name] = None]
  /\ vni' = [v \in Vlans |-> IF v = t.vlan /\ t.vni THEN None ELSE vni[v]]
  /\ vlan' = [v \in Vlans |-> IF v = t.vlan THEN None ELSE vlan[v]]
  /\ trunk' = [p \in Ports |->
                 IF t.vlan = None THEN trunk[p] ELSE WithoutVlan(trunk[p], lists[p], t.vlan)]

Applied(s) ==
  /\ \/ req[s].op = "provision" /\ AddService(req[s], sees[s].trunk[req[s].port])
     \/ req[s].op = "delete" /\ RemoveService(target[s], sees[s].trunk)
  /\ wrote' = [wrote EXCEPT ![s] = TRUE]
  /\ alone' = [t \in Servers |-> t = s /\ alone[t]]

\* A wrong Set: gnmi_set_batch swallows the refusal.
SetSwallowsRefusal(s) ==
  /\ pc[s] = "set"
  /\ \/ Applied(s) /\ Goto(s, "reply")
     \/ UNCHANGED <<device, wrote, alone>> /\ End(s, "ok")
  /\ UNCHANGED <<req, sees, target, lost, handmade, calls>>

\* gnmi_set_batch: applied; refused; or no connection, which raises out of the
\* tool because `with gc:` is outside the try.
Set(s) ==
  /\ pc[s] = "set"
  /\ \/ Applied(s) /\ Goto(s, "reply")
     \/ UNCHANGED <<device, wrote, alone>> /\ End(s, "error")
     \/ Unreachable /\ UNCHANGED <<device, wrote, alone>> /\ End(s, "raised")
  /\ UNCHANGED <<req, sees, target, lost, handmade, calls>>

\* The answer to an applied Set arrives, or it does not, which counts as refused.
Reply(s) ==
  /\ pc[s] = "reply"
  /\ \/ End(s, "ok") /\ UNCHANGED lost
     \/ End(s, "error") /\ lost' = [lost EXCEPT ![s] = TRUE]
  /\ UNCHANGED <<device, req, sees, target, wrote, alone, handmade, calls>>

Crash(s) ==
  /\ Crashes
  /\ pc[s] # "idle"
  /\ pc' = [pc EXCEPT ![s] = "idle"]
  /\ UNCHANGED <<device, req, sees, target, said, wrote, past>>

EosNext ==
  \E s \in Servers :
    \/ Provision(s) \/ Delete(s)
    \/ GetTrunk(s) \/ GetEvpn(s) \/ GetVlans(s) \/ GetVnis(s) \/ GetInterfaces(s) \/ GetRaises(s)
    \/ Set(s) \/ Reply(s)
    \/ Crash(s)

EosSpec == EosInit /\ [][EosNext]_eosVars

-----------------------------------------------------------------------------
(* Properties.                                                             *)

Instances(v) == {n \in Names : v \in Members(n)}

\* A trunk list with entries never becomes empty, which would open the trunk to
\* every VLAN, whatever calls, refusals and crashes come between the GET of the
\* list and the Set that rewrites it (the `skipped` trunks of delete).
TrunkNeverOpened == [][\A p \in Ports : trunk[p] # {} => trunk'[p] # {}]_eosVars

\* For VLANs that only netmcp puts into instances, an evpn-instance always has its
\* VLAN and its VNI mapping: one call's stale delete never takes half of the service
\* another call has just provisioned.
InstanceBacked ==
  \A n \in Names : \A v \in Members(n) \ handmade : Created(v)

\* "OK: EVPN instance ... provisioned": if no other call has changed the switch since this
\* one began, whatever others read or are refused, the service works: its objects agree
\* and the access port carries its VLAN.
ProvisionedWorks ==
  \A s \in Servers : said[s] = "ok" /\ alone[s] /\ req[s].op = "provision" =>
    LET q == req[s] IN
    /\ vlan[q.vlan] = q.name
    /\ vni[q.vlan] = q.vni
    /\ q.vlan \in Members(q.vlan)
    /\ Carries(q.port, q.vlan)

\* "OK: EVPN instance ... deleted": if no other call has changed the switch since this one
\* began, there is no VLAN, VNI mapping or instance, and the VLAN is named in no trunk list
\* but where it is the only one ("Trunks where it is the only listed VLAN are left alone").
DeletedLeavesNothing ==
  \A s \in Servers : said[s] = "ok" /\ alone[s] /\ req[s].op = "delete" =>
    LET t == target[s] IN
    /\ evpn[t.name] = None
    /\ t.vlan # None => /\ vlan[t.vlan] = None
                        /\ vni[t.vlan] = None
                        /\ \A p \in Ports : t.vlan \in trunk[p] => trunk[p] = {t.vlan}

\* The VLANs the Set of s is about.
Touched(s) ==
  IF req[s].op = "provision" THEN {req[s].vlan} ELSE {target[s].vlan} \cup Members(target[s].name)

\* The trunk list of port p is what s has read, or only s has changed the switch.
ListCurrent(s, p) == alone[s] \/ sees[s].trunk[p] = trunk[p]

\* A Set changes nothing for the VLANs it is not about: however stale what its call has
\* read is, they keep name, VNI and instances, and a provision takes none of them out of
\* a trunk list; and a port whose list is still the one read carries them as before.
OthersUntouched ==
  [][\A s \in Servers : wrote'[s] /\ ~wrote[s] =>
       \A w \in Vlans \ Touched(s) :
         /\ vlan'[w] = vlan[w] /\ vni'[w] = vni[w] /\ Instances(w)' = Instances(w)
         /\ \A p \in Ports :
              /\ ListCurrent(s, p) => Carries(p, w)' = Carries(p, w)
              /\ req[s].op = "provision" /\ VlanInTrunkList(w, trunk[p]) => Carries(p, w)']_eosVars

\* The promise of AtomicWrite, the configuration being the VLANs, the VNI mappings
\* and the instances: a call changes at most one of each, once, and says so; "no
\* changes were applied" is true unless the answer to the Set was lost.
Stage(p) == IF p = "idle" THEN "idle" ELSE IF p = "reply" THEN "written" ELSE "open"
AtomicCall == [s \in Servers |-> Stage(pc[s])]

\* A call whose answer was lost has told its caller nothing that is true.
AtomicAnswer ==
  [s \in Servers |-> IF lost[s] THEN "none"
                     ELSE IF said[s] \in {"none", "ok", "error"} THEN said[s] ELSE "other"]

\* A call may change one VLAN and one evpn-instance.
OneServiceChanges(c, d) ==
  \E v \in Vlans \cup {None}, n \in Names \cup {None} :
    /\ \A w \in Vlans \ {v} : d.vlan[w] = c.vlan[w] /\ d.vni[w] = c.vni[w]
    /\ \A m \in Names \ {n} : d.evpn[m] = c.evpn[m]

Atomic == INSTANCE AtomicWrite
            WITH config <- [vlan |-> vlan, vni |-> vni, evpn |-> evpn],
                 call <- AtomicCall,
                 said <- AtomicAnswer,
                 Change <- OneServiceChanges

ImplementsAtomicWrite == Atomic!AtomicSpec

-----------------------------------------------------------------------------
(* What the code's messages and comments say and the code does not do.        *)

\* backend.py:317, "VLAN added to the access port's trunk list, unless the trunk
\* already carries it": the port of a provisioned service carries its VLAN for
\* as long as the service is there.
ProvisionedPortCarries ==
  \A s \in Servers : said[s] = "ok" /\ req[s].op = "provision" =>
    \/ Carries(req[s].port, req[s].vlan)
    \/ vlan[req[s].vlan] # req[s].name

=============================================================================
