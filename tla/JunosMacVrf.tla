------------------------------ MODULE JunosMacVrf ------------------------------
(***************************************************************************)
(* provision_evpn_instance and delete_evpn_instance of the Junos backend     *)
(* (src/netmcp/nos/junos/backend.py, client.py).  A service is a mac-vrf       *)
(* routing-instance and the access unit it bridges.  A call reads the         *)
(* instances and the interfaces in two gNMI GETs and writes both in one Set,   *)
(* which Junos commits whole: each request is one action, so either reading    *)
(* may be stale when the call writes.                                          *)
(*                                                                         *)
(* The switch is external: it may refuse any Set; an update merges into what    *)
(* is there; a delete of something absent changes nothing.                      *)
(***************************************************************************)
EXTENDS Naturals

CONSTANTS Servers,      \* server processes; each runs one tool call at a time
          Names,        \* texts that name instances and VLANs, the VLAN ids among them
          Vlans,        \* VLAN ids
          VlanName,     \* VLAN id -> the text "vlan<id>"
          Vnis,
          Ports,
          AccessPorts,  \* those whose names _MacVrfIntent permits
          Configured,   \* those the switch has a configuration for
          Bridged,      \* those that can carry bridged units
          Units,        \* unit numbers, the VLAN ids among them
          Provisions,   \* the provision requests callers make
          Deletes,      \* the delete requests callers make
          Existing,     \* the configurations the switch may have at the start
          None,         \* what is absent; as a text, Python's str(None)
          MaxCalls      \* bound: tool calls made in all

Ifls == Ports \X Units
VlanRecord == [name : Names \cup {None}, id : Vlans \cup {None}, vni : Vnis \cup {None}]

\* A routing-instance: is it a mac-vrf, its own and its VLANs' logical interfaces, its VLANs.
Instance == [mac : BOOLEAN, ifls : SUBSET Ifls, vlans : SUBSET VlanRecord]
InstTable == [Names -> Instance \cup {None}]
UnitTable == [Ifls -> Vlans \cup {None}]

\* The unit is None when interface_name has none; sameRt: import and export route-target agree.
ProvisionRequest ==
  [op : {"provision"}, name : Names, vni : Vnis, port : Ports, unit : Units \cup {None},
   vlan : Vlans, sameRt : BOOLEAN, dry : BOOLEAN]
DeleteRequest == [op : {"delete"}, name : Names \cup {None}, dry : BOOLEAN]

\* What a delete has found: an instance, its logical interfaces, and those of them that
\* have a unit, which it is going to delete.
Found == [name : Names, ifls : SUBSET Ifls, units : SUBSET Ifls]

ASSUME JunosAssumption ==
  /\ Vlans \subseteq Names /\ Vlans \subseteq Units
  /\ VlanName \in [Vlans -> Names]
  /\ Provisions \subseteq ProvisionRequest
  /\ Deletes \subseteq DeleteRequest
  /\ \A d \in Existing : d \in [inst : InstTable, unit : UnitTable]
  /\ None \notin Names /\ None \notin Units /\ None \notin Vnis /\ None \notin Instance
  /\ MaxCalls \in Nat

VARIABLES inst,   \* switch: name -> routing-instance
          unit,   \* switch: logical interface -> VLAN id of its access unit
          pc,     \* per server: the request it sends next, "idle" between calls
          req,    \* per server: the arguments of its call ({} before one)
          found,  \* per server: what delete has found ({} or one)
          said,   \* per server: the class of what its last call returned
          alone,  \* history: no other call has changed the switch since this one began
          lost,   \* history: the answer to the Set of the call was lost
          calls   \* bound: tool calls made so far

device == <<inst, unit>>
junosVars == <<device, pc, req, found, said, alone, lost, calls>>

JunosTypeOK ==
  /\ inst \in InstTable
  /\ unit \in UnitTable
  /\ pc \in [Servers -> {"idle", "instances", "interfaces", "set", "reply"}]
  /\ req \in [Servers -> SUBSET (Provisions \cup Deletes)]
  /\ found \in [Servers -> SUBSET Found]
  /\ said \in [Servers -> {"none", "ok", "error", "other"}]
  /\ alone \in [Servers -> BOOLEAN]
  /\ lost \in [Servers -> BOOLEAN]
  /\ calls \in 0..MaxCalls

JunosInit ==
  /\ \E d \in Existing : inst = d.inst /\ unit = d.unit
  /\ pc = [s \in Servers |-> "idle"]
  /\ req = [s \in Servers |-> {}]
  /\ found = [s \in Servers |-> {}]
  /\ said = [s \in Servers |-> "none"]
  /\ alone = [s \in Servers |-> FALSE]
  /\ lost = [s \in Servers |-> FALSE]
  /\ calls = 0

-----------------------------------------------------------------------------
(* Calls.                                                                  *)

Goto(s, next) ==
  /\ pc' = [pc EXCEPT ![s] = next]
  /\ UNCHANGED said

End(s, answer) ==
  /\ pc' = [pc EXCEPT ![s] = "idle"]
  /\ said' = [said EXCEPT ![s] = answer]

Begin(s, q, next, answer) ==
  /\ pc[s] = "idle"
  /\ calls < MaxCalls
  /\ calls' = calls + 1
  /\ pc' = [pc EXCEPT ![s] = next]
  /\ req' = [req EXCEPT ![s] = {q}]
  /\ found' = [found EXCEPT ![s] = {}]
  /\ said' = [said EXCEPT ![s] = answer]
  /\ alone' = [alone EXCEPT ![s] = TRUE]
  /\ lost' = [lost EXCEPT ![s] = FALSE]
  /\ UNCHANGED device

\* _MacVrfIntent.
Valid(q) == q.port \in AccessPorts /\ q.sameRt

Provision(s) ==
  \E q \in Provisions :
    \/ Valid(q) /\ Begin(s, q, "instances", "none")
    \/ ~Valid(q) /\ Begin(s, q, "idle", "other")

Delete(s) == \E q \in Deletes : Begin(s, q, "instances", "none")

\* The access unit of a request: the VLAN id numbers it if the caller does not.
Ifl(q) == <<q.port, IF q.unit = None THEN q.vlan ELSE q.unit>>

MacVrfs == {n \in Names : inst[n] # None /\ inst[n].mac}

\* A wrong VniUsed: the instances' names are compared, not their VNIs.
VniUsedByName(q) == inst[q.name] # None

\* A mac-vrf has the VNI of the request.
VniUsed(q) == \E n \in MacVrfs : \E v \in inst[n].vlans : v.vni = q.vni

\* Provision: GET the routing-instances; name and VNI must be free.
CheckInstances(s) ==
  /\ pc[s] = "instances"
  /\ \E q \in req[s] :
       /\ q.op = "provision"
       /\ \/ (inst[q.name] # None \/ VniUsed(q)) /\ End(s, "other")
          \/ inst[q.name] = None /\ ~VniUsed(q) /\ Goto(s, "interfaces")
  /\ UNCHANGED <<device, req, found, alone, lost, calls>>

\* Provision: GET the interfaces; the port must carry bridged units, the unit be free.
CheckInterfaces(s) ==
  /\ pc[s] = "interfaces"
  /\ \E q \in req[s] :
       LET free == q.port \in Configured \cap Bridged /\ unit[Ifl(q)] = None IN
       /\ q.op = "provision"
       /\ \/ (~free \/ q.dry) /\ End(s, "other")
          \/ free /\ ~q.dry /\ Goto(s, "set")
  /\ UNCHANGED <<device, req, found, alone, lost, calls>>

\* _find_instance: a mac-vrf of that name, or else the first with a VLAN of that name or id.
ByName(text) == MacVrfs \cap {text}
ByVlan(text) == {n \in MacVrfs : \E v \in inst[n].vlans : text \in {v.name, v.id}}
FindInstance(text) == IF ByName(text) # {} THEN ByName(text) ELSE ByVlan(text)

\* Delete: GET the routing-instances and find the one to delete.
ReadInstances(s) ==
  /\ pc[s] = "instances"
  /\ \E q \in req[s] :
       /\ q.op = "delete"
       /\ \/ /\ FindInstance(q.name) = {}
             /\ End(s, "other")
             /\ UNCHANGED found
          \/ \E n \in FindInstance(q.name) :
               /\ found' = [found EXCEPT ![s] = {[name |-> n, ifls |-> inst[n].ifls, units |-> {}]}]
               /\ Goto(s, "interfaces")
  /\ UNCHANGED <<device, req, alone, lost, calls>>

\* A wrong Present: the units of the instance are not looked up.
PresentNone(ifls) == {}

\* Those of the logical interfaces that have a unit.
Present(ifls) == {i \in ifls : unit[i] # None}

\* Delete: GET the interfaces, to leave out the units that are not there.
ReadInterfaces(s) ==
  /\ pc[s] = "interfaces"
  /\ \E q \in req[s], f \in found[s] :
       /\ q.op = "delete"
       /\ found' = [found EXCEPT ![s] = {[f EXCEPT !.units = Present(f.ifls)]}]
       /\ \/ q.dry /\ End(s, "other")
          \/ ~q.dry /\ Goto(s, "set")
  /\ UNCHANGED <<device, req, alone, lost, calls>>

\* gnmi_get_config raises unless the switch answers, or says that the path is not found.
GetRaises(s) ==
  /\ pc[s] \in {"instances", "interfaces"}
  /\ End(s, "other")
  /\ UNCHANGED <<device, req, found, alone, lost, calls>>

-----------------------------------------------------------------------------
(* The Set.                                                                *)

\* The VLAN of the request, mapped to its VNI.
VlanOf(q) == [name |-> VlanName[q.vlan], id |-> q.vlan, vni |-> q.vni]

\* What the update makes of the instance that is there, if any: lists merge by key.
Merged(old, q) ==
  IF old = None THEN [mac |-> TRUE, ifls |-> {Ifl(q)}, vlans |-> {VlanOf(q)}]
  ELSE [mac |-> TRUE,
        ifls |-> old.ifls \cup {Ifl(q)},
        vlans |-> {v \in old.vlans : v.name # VlanName[q.vlan]} \cup {VlanOf(q)}]

\* A wrong AddService: the unit is left to the operator.
AddInstanceOnly(q) ==
  /\ inst' = [inst EXCEPT ![q.name] = Merged(@, q)]
  /\ UNCHANGED unit

AddService(q) ==
  /\ inst' = [inst EXCEPT ![q.name] = Merged(@, q)]
  /\ unit' = [unit EXCEPT ![Ifl(q)] = q.vlan]

\* Wrong forms of RemoveService: only the units; the unit gets VLAN id 0.
RemoveUnitsOnly(f) ==
  /\ unit' = [i \in Ifls |-> IF i \in f.units THEN None ELSE unit[i]]
  /\ UNCHANGED inst
RemoveToZero(f) ==
  /\ inst' = [inst EXCEPT ![f.name] = None]
  /\ unit' = [i \in Ifls |-> IF i \in f.units THEN 0 ELSE unit[i]]

RemoveService(f) ==
  /\ inst' = [inst EXCEPT ![f.name] = None]
  /\ unit' = [i \in Ifls |-> IF i \in f.units THEN None ELSE unit[i]]

Applied(s) ==
  \E q \in req[s] :
    \/ q.op = "provision" /\ AddService(q)
    \/ q.op = "delete" /\ \E f \in found[s] : RemoveService(f)

\* The switch commits the Set of s.
Commit(s) ==
  /\ Applied(s)
  /\ Goto(s, "reply")
  /\ alone' = [t \in Servers |-> t = s /\ alone[t]]

\* A wrong Set: the exception of gnmi_set_batch is dropped.
SetSwallowsRefusal(s) ==
  /\ pc[s] = "set"
  /\ Commit(s) \/ (End(s, "ok") /\ UNCHANGED <<device, alone>>)
  /\ UNCHANGED <<req, found, lost, calls>>

\* gnmi_set_batch: committed; refused; or no connection, which raises out of the
\* tool because `with gc:` is outside the try.
Set(s) ==
  /\ pc[s] = "set"
  /\ \/ Commit(s)
     \/ End(s, "error") /\ UNCHANGED <<device, alone>>
     \/ End(s, "other") /\ UNCHANGED <<device, alone>>
  /\ UNCHANGED <<req, found, lost, calls>>

\* The answer to a commit arrives, or it does not, which the code takes for a refusal.
Reply(s) ==
  /\ pc[s] = "reply"
  /\ \/ End(s, "ok") /\ UNCHANGED lost
     \/ End(s, "error") /\ lost' = [lost EXCEPT ![s] = TRUE]
  /\ UNCHANGED <<device, req, found, alone, calls>>

\* The server process is killed.
Crash(s) ==
  /\ pc[s] # "idle"
  /\ pc' = [pc EXCEPT ![s] = "idle"]
  /\ UNCHANGED <<device, req, found, said, alone, lost, calls>>

JunosNext ==
  \E s \in Servers :
    \/ Provision(s) \/ CheckInstances(s) \/ CheckInterfaces(s)
    \/ Delete(s) \/ ReadInstances(s) \/ ReadInterfaces(s)
    \/ GetRaises(s) \/ Set(s) \/ Reply(s)
    \/ Crash(s)

JunosSpec == JunosInit /\ [][JunosNext]_junosVars

-----------------------------------------------------------------------------
(* Properties.                                                             *)

\* "OK: EVPN instance ... provisioned": if no other call has changed the switch since this
\* one began, whatever others read or are refused, the instance bridges the unit into the
\* VLAN and its VNI, and no other mac-vrf has the VNI.
ProvisionedWorks ==
  \A s \in Servers : \A q \in req[s] :
    said[s] = "ok" /\ alone[s] /\ q.op = "provision" =>
      /\ q.name \in MacVrfs /\ Ifl(q) \in inst[q.name].ifls /\ VlanOf(q) \in inst[q.name].vlans
      /\ unit[Ifl(q)] = q.vlan
      /\ \A n \in MacVrfs \ {q.name} : \A v \in inst[n].vlans : v.vni # q.vni

\* "OK: EVPN instance ... and unit(s) ... deleted": if no other call has changed the switch
\* since this one began, no mac-vrf of that name is left, and no unit of the one deleted.
DeletedLeavesNothing ==
  \A s \in Servers : \A q \in req[s], f \in found[s] :
    said[s] = "ok" /\ alone[s] /\ q.op = "delete" =>
      /\ q.name \notin MacVrfs
      /\ inst[f.name] = None
      /\ \A i \in f.ifls : unit[i] = None

\* Callers and operators use logical interface i for instance n and no other, and
\* where the switch lists it at the start, its unit is there.
Sole(i, n) ==
  /\ \A q \in Provisions : Ifl(q) = i => q.name = n
  /\ \A d \in Existing : \A m \in Names :
       d.inst[m] # None /\ i \in d.inst[m].ifls => m = n /\ d.unit[i] # None

\* An instance keeps the units that are used for no other instance: a delete that is
\* stale when it writes never takes the unit of a service another call has made since,
\* and leaves that service (backend.py:418, "in one gNMI SET (one commit)").
InstanceBacked ==
  \A n \in Names : inst[n] # None =>
    \A i \in inst[n].ifls : Sole(i, n) => unit[i] # None

\* From c to d, instance n and the units that are used for it only stay what they are.
Untouched(c, d, n) ==
  /\ d.inst[n] = c.inst[n]
  /\ \A i \in Ifls : Sole(i, n) => d.unit[i] = c.unit[i]

\* The promise of AtomicWrite (ARCHITECTURE.md:275): a call changes at most one
\* instance, once, nothing of another one, however stale what it has read is, and
\* unless its answer is lost the caller is told whether it did.
Stage(p) == IF p = "idle" THEN "idle" ELSE IF p = "reply" THEN "written" ELSE "open"
AtomicCall == [s \in Servers |-> Stage(pc[s])]

\* A call whose answer was lost has told its caller nothing that is true.
AtomicAnswer == [s \in Servers |-> IF lost[s] THEN "none" ELSE said[s]]

OneInstanceChanges(c, d) == \E n \in Names : \A m \in Names \ {n} : Untouched(c, d, m)

Atomic == INSTANCE AtomicWrite
            WITH config <- [inst |-> inst, unit |-> unit],
                 call <- AtomicCall,
                 said <- AtomicAnswer,
                 Change <- OneInstanceChanges

ImplementsAtomicWrite == Atomic!AtomicSpec
=============================================================================
