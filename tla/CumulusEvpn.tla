----------------------------- MODULE CumulusEvpn -----------------------------
(***************************************************************************)
(* provision_evpn_instance and delete_evpn_instance of the Cumulus backend   *)
(* (src/netmcp/nos/cumulus/backend.py): several GETs of the applied           *)
(* configuration, checks against what they returned, and one nvue_apply        *)
(* (NvueApply).  Every GET whose answer is used is one action, so other calls    *)
(* and NVUE come between the checks and the write.                             *)
(***************************************************************************)
EXTENDS Naturals

CONSTANTS Servers,       \* server processes; each runs one tool call at a time
          Vlans,         \* VLAN ids
          Vnis,          \* VNIs
          Ports,         \* interfaces
          SwitchPorts,   \* those _EvpnIntent permits (swpN)
          Provisions,    \* the provision requests callers make
          Deletes,       \* the delete requests callers make
          InitConfigs,   \* the configurations the switch may have at the start
          None,          \* a VLAN that does not exist, a port outside br_default
          MaxRevs, MaxPolls, Faults, MayExpire, Crashes   \* as in NvueApply

\* vlan: the VNIs of each br_default VLAN.  evpn: the VNIs under `evpn vni`.
\* member: the tagged VLANs of each br_default port; {} means every VLAN.
Config == [vlan : [Vlans -> {None} \cup SUBSET Vnis],
           evpn : SUBSET Vnis,
           member : [Ports -> {None} \cup SUBSET Vlans]]

ProvisionRequest == [op : {"provision"}, vlan : Vlans, vni : Vnis, port : Ports, dry : BOOLEAN]
\* instance_name is "vlanN" (prefixed) or a bare number.
DeleteRequest == [op : {"delete"}, prefixed : BOOLEAN, number : Vlans \cup Vnis, dry : BOOLEAN]
Tree == [op : {"provision", "delete"}, vlan : Vlans, vni : Vnis, ports : SUBSET Ports]

ASSUME CumulusAssumption ==
  /\ Vlans \subseteq Nat /\ Vnis \subseteq Nat
  /\ SwitchPorts \subseteq Ports
  /\ Provisions \subseteq ProvisionRequest
  /\ Deletes \subseteq DeleteRequest
  /\ InitConfigs \subseteq Config
  /\ MaxRevs \in Nat /\ MaxPolls \in Nat \ {0}
  /\ Faults \subseteq {"post", "patch", "apply", "poll", "delete"}
  /\ MayExpire \in BOOLEAN /\ Crashes \in BOOLEAN
  /\ None \notin Vnis /\ \A m \in (SUBSET Vnis) \cup (SUBSET Vlans) : m # None

\* A wrong ProvisionMerge: the port's VLAN list is replaced.
ProvisionReplaces(c, t) ==
  [vlan |-> [c.vlan EXCEPT ![t.vlan] = IF @ = None THEN {t.vni} ELSE @ \cup {t.vni}],
   evpn |-> c.evpn \cup {t.vni},
   member |-> [p \in Ports |-> IF p \in t.ports THEN {t.vlan} ELSE c.member[p]]]

\* What a PATCH with _provision_tree or _delete_tree makes of the configuration.  A port
\* without a list, which carried every VLAN, has one with a single VLAN after a provision.
ProvisionMerge(c, t) ==
  [vlan |-> [c.vlan EXCEPT ![t.vlan] = IF @ = None THEN {t.vni} ELSE @ \cup {t.vni}],
   evpn |-> c.evpn \cup {t.vni},
   member |-> [p \in Ports |-> IF p \notin t.ports THEN c.member[p]
                              ELSE IF c.member[p] = None THEN {t.vlan}
                              ELSE c.member[p] \cup {t.vlan}]]

DeleteMerge(c, t) ==
  [vlan |-> [c.vlan EXCEPT ![t.vlan] = None],
   evpn |-> c.evpn \ {t.vni},
   member |-> [p \in Ports |-> IF p \notin t.ports \/ c.member[p] = None THEN c.member[p]
                              ELSE c.member[p] \ {t.vlan}]]

Merge(c, t) == IF t.op = "provision" THEN ProvisionMerge(c, t) ELSE DeleteMerge(c, t)

VARIABLES config, state, tree, pc, arg, mine, seen, polls, said, excused   \* as in NvueApply

INSTANCE NvueApply WITH Trees <- Tree

VARIABLES at,      \* per server: the GET it sends next, "apply" inside nvue_apply, "idle"
          req,     \* per server: the request of its call ({} before one)
          records, \* per server: what _collect has read: VLAN -> VNI or None
          ports,   \* per server: the interfaces _collect has read
          evpns,   \* per server: evpn_vnis
          answer,  \* per server: the class of what its last call returned
          alone    \* history: no other call has changed the switch since this one began

gathered == <<records, ports, evpns>>
backend == <<at, req, gathered, answer>>
nvue == <<config, state, tree, pc, arg, mine, seen, polls, said, excused>>
vars == <<nvue, backend, alone>>

NoRecords == [v \in Vlans |-> None]
NoPorts == [p \in Ports |-> None]

CumulusTypeOK ==
  /\ NvueTypeOK
  /\ config \in Config
  /\ at \in [Servers -> {"idle", "prerequisites", "records", "interfaces", "vnis", "bridge", "apply"}]
  /\ req \in [Servers -> SUBSET (ProvisionRequest \cup DeleteRequest)]
  /\ records \in [Servers -> [Vlans -> Vnis \cup {None}]]
  /\ ports \in [Servers -> [Ports -> {None} \cup SUBSET Vlans]]
  /\ evpns \in [Servers -> SUBSET Vnis]
  /\ answer \in [Servers -> {"none", "ok", "error", "other"}]
  /\ alone \in [Servers -> BOOLEAN]

CumulusInit ==
  /\ NvueInit
  /\ at = [s \in Servers |-> "idle"]
  /\ req = [s \in Servers |-> {}]
  /\ records = [s \in Servers |-> NoRecords]
  /\ ports = [s \in Servers |-> NoPorts]
  /\ evpns = [s \in Servers |-> {}]
  /\ answer = [s \in Servers |-> "none"]
  /\ alone = [s \in Servers |-> FALSE]

-----------------------------------------------------------------------------
(* Calls.                                                                  *)

\* A tool call reaches server s; `next` is what it does first.
Begin(s, q, next, said1) ==
  /\ at[s] = "idle"
  /\ at' = [at EXCEPT ![s] = next]
  /\ req' = [req EXCEPT ![s] = {q}]
  /\ answer' = [answer EXCEPT ![s] = said1]
  /\ alone' = [alone EXCEPT ![s] = TRUE]
  /\ UNCHANGED <<nvue, gathered>>

\* Validation comes before the first GET.
Provision(s) ==
  \E q \in Provisions :
    \/ q.port \in SwitchPorts /\ Begin(s, q, "prerequisites", "none")
    \/ q.port \notin SwitchPorts /\ Begin(s, q, "idle", "other")

Delete(s) == \E q \in Deletes : Begin(s, q, "records", "none")

\* The call returns; its locals are gone.
Return(s, a) ==
  /\ at' = [at EXCEPT ![s] = "idle"]
  /\ answer' = [answer EXCEPT ![s] = a]
  /\ records' = [records EXCEPT ![s] = NoRecords]
  /\ ports' = [ports EXCEPT ![s] = NoPorts]
  /\ evpns' = [evpns EXCEPT ![s] = {}]
  /\ UNCHANGED <<req, alone>>

Continue(s, next) ==
  /\ at' = [at EXCEPT ![s] = next]
  /\ UNCHANGED <<req, answer, alone>>

\* Any GET may fail: "could not read the current config".
ReadFails(s) ==
  /\ at[s] \in {"prerequisites", "records", "interfaces", "vnis", "bridge"}
  /\ Return(s, "other")
  /\ UNCHANGED nvue

\* The bridge, VXLAN and EVPN set-up, which no call changes, is there or not.
Prerequisites(s) ==
  /\ at[s] = "prerequisites"
  /\ \/ Continue(s, "records") /\ UNCHANGED gathered
     \/ Return(s, "other")
  /\ UNCHANGED nvue

\* The VLANs with a VNI; of several VNIs the first in NVUE's order.
Records(bridge, recs) ==
  /\ recs \in [Vlans -> Vnis \cup {None}]
  /\ \A v \in Vlans : IF bridge[v] \in {None, {}} THEN recs[v] = None ELSE recs[v] \in bridge[v]

\* _collect: GET bridge.
ReadRecords(s) ==
  /\ at[s] = "records"
  /\ \E recs \in [Vlans -> Vnis \cup {None}] :
       Records(config.vlan, recs) /\ records' = [records EXCEPT ![s] = recs]
  /\ Continue(s, "interfaces")
  /\ UNCHANGED <<nvue, ports, evpns>>

\* nvue_apply(node, tree), or the same tree shown as a dry run.
Submit(s, q, t) ==
  \/ q.dry /\ Return(s, "other") /\ UNCHANGED nvue
  \/ ~q.dry /\ Call(s, t) /\ Continue(s, "apply") /\ UNCHANGED gathered

\* A wrong Matches: VLANs without a VNI count too.
MatchesAny(q, v, recs) == q.number = v \/ (~q.prefixed /\ q.number = recs[v])

\* _find_instance: the first record, by VLAN id, with this name, VLAN id or VNI.
Matches(q, v, recs) ==
  recs[v] # None /\ (q.number = v \/ (~q.prefixed /\ q.number = recs[v]))
FirstMatch(q, v, recs) ==
  Matches(q, v, recs) /\ \A w \in Vlans : Matches(q, w, recs) => v <= w

\* A wrong PortsToClear: the condition turned round.
PortsToEmpty(v, member) == {p \in Ports : member[p] = {v}}

\* The ports that carry the VLAN, without those that carry only it.
PortsToClear(v, member) ==
  {p \in Ports : member[p] # None /\ v \in member[p] /\ member[p] # {v}}

\* _collect: GET interface.  For a delete it is the last GET.
ReadInterfaces(s) ==
  /\ at[s] = "interfaces"
  /\ \E q \in req[s] :
       \/ /\ q.op = "provision"
          /\ ports' = [ports EXCEPT ![s] = config.member]
          /\ Continue(s, "vnis")
          /\ UNCHANGED <<nvue, records, evpns>>
       \/ /\ q.op = "delete"
          /\ \A v \in Vlans : ~Matches(q, v, records[s])
          /\ Return(s, "other")
          /\ UNCHANGED nvue
       \/ /\ q.op = "delete"
          /\ \E v \in Vlans :
               /\ FirstMatch(q, v, records[s])
               /\ Submit(s, q, [op |-> "delete", vlan |-> v, vni |-> records[s][v],
                                ports |-> PortsToClear(v, config.member)])

ReadVnis(s) ==
  /\ at[s] = "vnis"
  /\ evpns' = [evpns EXCEPT ![s] = config.evpn]
  /\ Continue(s, "bridge")
  /\ UNCHANGED <<nvue, records, ports>>

\* A wrong Clear: the VNI is not looked at.
ClearVlan(s, q) == config.vlan[q.vlan] = None /\ ports[s][q.port] # None

\* VLAN free, VNI free, port a member of br_default.
Clear(s, q) ==
  /\ config.vlan[q.vlan] = None
  /\ q.vni \notin evpns[s] /\ \A v \in Vlans : records[s][v] # q.vni
  /\ ports[s][q.port] # None

\* The last GET of a provision (bridge_vlans), and the checks.
ReadBridge(s) ==
  /\ at[s] = "bridge"
  /\ \E q \in req[s] :
       \/ ~Clear(s, q) /\ Return(s, "other") /\ UNCHANGED nvue
       \/ /\ Clear(s, q)
          /\ Submit(s, q, [op |-> "provision", vlan |-> q.vlan, vni |-> q.vni, ports |-> {q.port}])

\* A step inside nvue_apply.
Applying(s) ==
  /\ at[s] = "apply"
  /\ Post(s) \/ Patch(s) \/ Apply(s) \/ Poll(s) \/ Cleanup(s) \/ Crash(s)
  /\ UNCHANGED <<backend, alone>>

\* A wrong Finish: OK whatever nvue_apply says.
FinishOk(s) ==
  /\ at[s] = "apply"
  /\ pc[s] = "idle"
  /\ Return(s, "ok")
  /\ UNCHANGED nvue

\* nvue_apply has returned, raised RuntimeError, or was killed with the process.
Finish(s) ==
  /\ at[s] = "apply"
  /\ pc[s] = "idle"
  /\ Return(s, said[s])
  /\ UNCHANGED nvue

\* NVUE comes to an end with revision n, whoever still waits for it.
Settled(n) ==
  /\ Settle(n)
  /\ alone' = [s \in Servers |-> /\ alone[s]
                                 /\ config' = config \/ (at[s] = "apply" /\ mine[s] = n)]
  /\ UNCHANGED backend

CumulusNext ==
  \/ \E s \in Servers :
       \/ Provision(s) \/ Delete(s)
       \/ ReadFails(s) \/ Prerequisites(s) \/ ReadRecords(s)
       \/ ReadInterfaces(s) \/ ReadVnis(s) \/ ReadBridge(s)
       \/ Applying(s) \/ Finish(s)
  \/ \E n \in RevIds : Settled(n)

CumulusSpec == CumulusInit /\ [][CumulusNext]_vars

-----------------------------------------------------------------------------
(* Properties.                                                             *)

\* A VLAN is a working EVPN instance: one VNI, known to EVPN.
Working(c, v) == \E n \in c.evpn : c.vlan[v] = {n}

\* A port carries a VLAN: it is on its list, or the port has none.
Carries(c, p, v) == c.member[p] # None /\ (c.member[p] = {} \/ v \in c.member[p])

\* "OK: EVPN instance ... provisioned": until another call changes the switch, the VLAN
\* maps to that VNI alone, EVPN knows the VNI, no other VLAN has it, and the port carries
\* the VLAN (the checks are made on earlier GETs, and other calls may have ended since
\* whose revisions are still on their way).
ProvisionedWorks ==
  \A s \in Servers : \A q \in req[s] :
    answer[s] = "ok" /\ alone[s] /\ q.op = "provision" =>
      /\ config.vlan[q.vlan] = {q.vni} /\ q.vni \in config.evpn
      /\ \A v \in Vlans \ {q.vlan} : config.vlan[v] = None \/ q.vni \notin config.vlan[v]
      /\ q.vlan \in config.member[q.port]

\* "OK: EVPN instance ... deleted": until another call changes the switch, the VLAN named
\* vlanN, or with that id or VNI, is gone with its EVPN VNI, and only ports with no other
\* VLAN still carry it.
DeletedLeavesNothing ==
  \A s \in Servers : \A q \in req[s], t \in arg[s] :
    answer[s] = "ok" /\ alone[s] /\ q.op = "delete" =>
      /\ q.number = t.vlan \/ (~q.prefixed /\ q.number = t.vni)
      /\ config.vlan[t.vlan] = None /\ t.vni \notin config.evpn
      /\ \A p \in Ports : config.member[p] # None /\ t.vlan \in config.member[p] =>
           config.member[p] = {t.vlan}

\* The change that a step brings to the switch, if NVUE ends a revision with it.
Arriving == UNION {tree[n] : n \in {m \in RevIds : state[m] = "applying" /\ state'[m] = "applied"}}

\* A working instance loses its VNI, or any one of the ports that carry it, only to a delete
\* of that very VLAN, whatever other calls do at the same time, as long as callers give every
\* VLAN a VNI of its own; with one exception, which is the code's: a provision on a port
\* without a VLAN list, allowed at backend.py:463, makes the port carry the new VLAN alone.
OthersUntouched ==
  [][\A v \in Vlans : Working(config, v) /\ (\A t \in Arriving : t.op = "provision" \/ t.vlan # v) =>
       /\ config'.vlan[v] = config.vlan[v] /\ config.vlan[v] \subseteq config'.evpn
       /\ \A p \in Ports : Carries(config, p, v) =>
            \/ Carries(config', p, v)
            \/ config.member[p] = {} /\ \E t \in Arriving : t.op = "provision" /\ p \in t.ports]_vars

\* The promise of AtomicWrite: a call is "written" once its revision is applied.
AtomicCall ==
  [s \in Servers |->
    CASE at[s] = "idle" -> "idle"
      [] at[s] = "apply" /\ mine[s] # 0 /\ state[mine[s]] = "applied" -> "written"
      [] OTHER -> "open"]

OneTreeMerged(c, d) == \E t \in Tree : d = Merge(c, t)

Atomic == INSTANCE AtomicWrite WITH call <- AtomicCall, Change <- OneTreeMerged, said <- answer

\* As long as nothing that was sent is applied behind the caller's back, a tool
\* call changes the configuration at most once, and OK is answered if and only
\* if it did (ARCHITECTURE.md:275).
ImplementsAtomicWrite == Atomic!AtomicSpec

\* The revisions still on their way whose call is over.
LateRevisions ==
  {n \in RevIds : state[n] = "applying" /\ \A s \in Servers : at[s] = "apply" => mine[s] # n}

Late == INSTANCE LateWrite WITH call <- AtomicCall, Change <- OneTreeMerged, said <- answer,
                                Tickets <- RevIds, late <- LateRevisions

\* Whatever answer is lost, whichever deadline passes and whenever a process is killed,
\* a call changes the configuration at most once, by one whole revision; one that said OK
\* did it before, and one that was refused never does.
ImplementsLateWrite == Late!LateSpec

\* backend.py:485, "except ports where it is the only VLAN; those are left
\* alone": no delete leaves a port without a VLAN (which NVUE takes for all of
\* the bridge's VLANs, docs/prd-cumulus-evpn.md Q7).
PortNeverEmptied ==
  [][\A p \in Ports : config.member[p] \notin {None, {}} => config'.member[p] # {}]_vars
=============================================================================
