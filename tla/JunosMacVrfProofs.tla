-------------------------- MODULE JunosMacVrfProofs --------------------------
(***************************************************************************)
(* Proofs about JunosMacVrf, for any switch configuration, requests, servers *)
(* and services.                                                           *)
(***************************************************************************)
EXTENDS JunosMacVrf, TLAPS

\* While a call is at work nothing has been said, and no answer lost.
AtWork == \A s \in Servers : pc[s] # "idle" => said[s] = "none" /\ lost[s] = FALSE

JunosInv == JunosTypeOK /\ AtWork

-----------------------------------------------------------------------------
(* Types.                                                                  *)

\* The access unit of a provision is a logical interface.
LEMMA IflType ==
  ASSUME NEW q \in ProvisionRequest
  PROVE  Ifl(q) \in Ifls
<1>1. q.port \in Ports /\ q.vlan \in Units /\ (q.unit # None => q.unit \in Units)
  BY JunosAssumption DEF ProvisionRequest
<1>2. QED
  BY <1>1 DEF Ifl, Ifls

\* What the update makes of an instance is an instance.
LEMMA MergedType ==
  ASSUME NEW q \in ProvisionRequest, NEW old \in Instance \cup {None}
  PROVE  Merged(old, q) \in Instance
<1>1. VlanOf(q) \in VlanRecord
  BY JunosAssumption DEF VlanOf, VlanRecord, ProvisionRequest
<1>2. Ifl(q) \in Ifls
  BY IflType
<1>3. CASE old = None
  BY <1>1, <1>2, <1>3 DEF Merged, Instance
<1>4. CASE old # None
  <2>1. old.ifls \subseteq Ifls /\ old.vlans \subseteq VlanRecord
    BY <1>4 DEF Instance
  <2>2. {v \in old.vlans : v.name # VlanName[q.vlan]} \cup {VlanOf(q)} \subseteq VlanRecord
    BY <1>1, <2>1
  <2>3. QED
    BY <1>2, <1>4, <2>1, <2>2 DEF Merged, Instance
<1>5. QED
  BY <1>3, <1>4

\* Both Sets keep the types of the switch's tables.
LEMMA AddServiceType ==
  ASSUME JunosTypeOK, NEW q \in ProvisionRequest, AddService(q)
  PROVE  inst' \in InstTable /\ unit' \in UnitTable
<1>1. q.name \in Names /\ q.vlan \in Vlans
  BY DEF ProvisionRequest
<1>2. Merged(inst[q.name], q) \in Instance
  BY <1>1, MergedType DEF JunosTypeOK, InstTable
<1>3. inst' = [inst EXCEPT ![q.name] = Merged(inst[q.name], q)]
  BY DEF AddService
<1>4. inst' \in InstTable
  BY <1>1, <1>2, <1>3 DEF JunosTypeOK, InstTable
<1>5. unit' \in UnitTable
  BY <1>1, IflType DEF AddService, JunosTypeOK, UnitTable
<1>6. QED
  BY <1>4, <1>5

LEMMA RemoveServiceType ==
  ASSUME JunosTypeOK, NEW f \in Found, RemoveService(f)
  PROVE  inst' \in InstTable /\ unit' \in UnitTable
  BY DEF RemoveService, JunosTypeOK, InstTable, UnitTable, Found

\* The bound on calls is kept.
LEMMA OneMoreCall == \A c \in 0..MaxCalls : c < MaxCalls => c + 1 \in 0..MaxCalls
<1>1. MaxCalls \in Nat
  BY JunosAssumption
<1>2. QED
  BY ONLY <1>1

\* A request is what its op says.
LEMMA RequestKinds ==
  ASSUME NEW q \in Provisions \cup Deletes
  PROVE  q.op = "provision" => q \in Provisions /\ q \in ProvisionRequest
  BY JunosAssumption DEF ProvisionRequest, DeleteRequest

\* What the first and the second GET of a delete note down.
LEMMA FoundTypes ==
  ASSUME JunosTypeOK
  PROVE  /\ \A n \in MacVrfs : [name |-> n, ifls |-> inst[n].ifls, units |-> {}] \in Found
         /\ \A f \in Found : [f EXCEPT !.units = Present(f.ifls)] \in Found
<1>1. ASSUME NEW n \in MacVrfs
      PROVE  [name |-> n, ifls |-> inst[n].ifls, units |-> {}] \in Found
  <2>1. n \in Names /\ inst[n] \in Instance
    BY <1>1 DEF MacVrfs, JunosTypeOK, InstTable
  <2>2. QED
    BY <2>1 DEF Instance, Found
<1>2. ASSUME NEW f \in Found
      PROVE  [f EXCEPT !.units = Present(f.ifls)] \in Found
  BY <1>2 DEF Found, Present
<1>3. QED
  BY <1>1, <1>2

\* The initial states satisfy the invariant.
LEMMA JunosInvInit == JunosInit => JunosInv
  BY JunosAssumption DEF JunosInit, JunosInv, JunosTypeOK, AtWork

\* Every step preserves the invariant.
LEMMA JunosInvStep == JunosInv /\ [JunosNext]_junosVars => JunosInv'
<1> SUFFICES ASSUME JunosInv, [JunosNext]_junosVars PROVE JunosInv'
  OBVIOUS
<1> USE DEF JunosInv, JunosTypeOK, AtWork, device
<1>1. ASSUME NEW s \in Servers, NEW q \in Provisions \cup Deletes,
             NEW next \in {"instances", "idle"}, NEW answer \in {"none", "other"},
             next # "idle" => answer = "none", Begin(s, q, next, answer)
      PROVE  JunosInv'
  <2>1. calls' \in 0..MaxCalls
    <3>1. calls < MaxCalls /\ calls' = calls + 1
      BY <1>1 DEF Begin
    <3>2. QED
      BY <3>1, OneMoreCall
  <2>2. /\ req' \in [Servers -> SUBSET (Provisions \cup Deletes)]
        /\ found' \in [Servers -> SUBSET Found]
        /\ alone' \in [Servers -> BOOLEAN] /\ lost' \in [Servers -> BOOLEAN]
    BY <1>1 DEF Begin
  <2>3. QED
    BY <1>1, <2>1, <2>2 DEF Begin
<1>2. ASSUME NEW s \in Servers, Provision(s) PROVE JunosInv'
  BY <1>1, <1>2 DEF Provision
<1>3. ASSUME NEW s \in Servers, Delete(s) PROVE JunosInv'
  BY <1>1, <1>3 DEF Delete
<1>4. ASSUME NEW s \in Servers, CheckInstances(s) \/ CheckInterfaces(s) PROVE JunosInv'
  BY <1>4 DEF CheckInstances, CheckInterfaces, Goto, End
<1>5. ASSUME NEW s \in Servers, ReadInstances(s) PROVE JunosInv'
  <2>1. FindInstance(None) \subseteq MacVrfs /\ \A q \in req[s] : FindInstance(q.name) \subseteq MacVrfs
    BY DEF FindInstance, ByName, ByVlan
  <2>2. found' \in [Servers -> SUBSET Found]
    <3>1. found' = found \/ \E f \in Found : found' = [found EXCEPT ![s] = {f}]
      BY <1>5, <2>1, FoundTypes DEF ReadInstances
    <3>2. QED
      BY <3>1
  <2>3. QED
    BY <1>5, <2>2 DEF ReadInstances, Goto, End
<1>6. ASSUME NEW s \in Servers, ReadInterfaces(s) PROVE JunosInv'
  <2>1. found' \in [Servers -> SUBSET Found]
    <3>1. \E f \in Found : found' = [found EXCEPT ![s] = {f}]
      BY <1>6, FoundTypes DEF ReadInterfaces
    <3>2. QED
      BY <3>1
  <2>2. QED
    BY <1>6, <2>1 DEF ReadInterfaces, Goto, End
<1>7. ASSUME NEW s \in Servers, Set(s) PROVE JunosInv'
  <2>1. inst' \in InstTable /\ unit' \in UnitTable
    <3>1. CASE UNCHANGED device
      BY <3>1
    <3>2. ASSUME NEW q \in req[s], q.op = "provision", AddService(q)
          PROVE  inst' \in InstTable /\ unit' \in UnitTable
      BY <3>2, RequestKinds, AddServiceType
    <3>3. ASSUME NEW f \in found[s], RemoveService(f)
          PROVE  inst' \in InstTable /\ unit' \in UnitTable
      BY <3>3, RemoveServiceType
    <3>4. QED
      BY <1>7, <3>1, <3>2, <3>3 DEF Set, Commit, Applied
  <2>2. UNCHANGED <<req, found, lost, calls>> /\ alone' \in [Servers -> BOOLEAN]
    BY <1>7 DEF Set, Commit
  <2>3. QED
    BY <1>7, <2>1, <2>2 DEF Set, Commit, Goto, End
<1>8. ASSUME NEW s \in Servers, GetRaises(s) \/ Reply(s) \/ Crash(s) PROVE JunosInv'
  BY <1>8 DEF GetRaises, Reply, Crash, End
<1>9. CASE UNCHANGED junosVars
  BY <1>9 DEF junosVars
<1>10. QED
  BY <1>2, <1>3, <1>4, <1>5, <1>6, <1>7, <1>8, <1>9 DEF JunosNext

\* JunosInv holds throughout.
THEOREM JunosInvariant == JunosSpec => []JunosInv
  BY JunosInvInit, JunosInvStep, PTL DEF JunosSpec

\* The variables keep their types.
THEOREM JunosTypeCorrect == JunosSpec => []JunosTypeOK
<1>1. JunosInv => JunosTypeOK
  BY DEF JunosInv
<1>2. QED
  BY <1>1, JunosInvariant, PTL

-----------------------------------------------------------------------------
(* Units used for one instance only: whoever lists one is that instance, on the  *)
(* switch and in what a delete has found, however stale.                         *)

\* n is the only instance the logical interfaces may be used for.
Owned(n, ifls) == \A i \in ifls, m \in Names : Sole(i, m) => m = n

BackedInv ==
  /\ \A n \in Names : inst[n] # None => Owned(n, inst[n].ifls)
  /\ InstanceBacked
  /\ \A s \in Servers : \A f \in found[s] : Owned(f.name, f.ifls) /\ Owned(f.name, f.units)

\* Provision lists its own unit and makes it.
LEMMA AddServiceBacked ==
  ASSUME JunosInv, BackedInv, NEW q \in Provisions, AddService(q)
  PROVE  (\A n \in Names : inst[n] # None => Owned(n, inst[n].ifls))' /\ InstanceBacked'
<1>1. q \in ProvisionRequest /\ q.name \in Names /\ q.vlan # None /\ Ifl(q) \in Ifls
  BY JunosAssumption, IflType DEF ProvisionRequest
<1>2. unit'[Ifl(q)] # None /\ \A i \in Ifls : unit[i] # None => unit'[i] # None
  BY <1>1 DEF AddService, JunosInv, JunosTypeOK, UnitTable
<1>3. \A m \in Names : Sole(Ifl(q), m) => m = q.name
  BY DEF Sole
<1>4. ASSUME NEW n \in Names, inst'[n] # None, NEW i \in inst'[n].ifls
      PROVE  (n = q.name /\ i = Ifl(q)) \/ (inst[n] # None /\ i \in inst[n].ifls)
  BY <1>1, <1>4 DEF AddService, Merged, JunosInv, JunosTypeOK, InstTable
<1>5. ASSUME NEW n \in Names, inst'[n] # None PROVE Owned(n, inst'[n].ifls)
  BY <1>3, <1>4, <1>5 DEF Owned, BackedInv
<1>6. ASSUME NEW n \in Names, inst'[n] # None, NEW i \in inst'[n].ifls, Sole(i, n)
      PROVE  unit'[i] # None
  <2>1. CASE i = Ifl(q)
    BY <1>2, <2>1
  <2>2. CASE inst[n] # None /\ i \in inst[n].ifls
    <3>1. unit[i] # None
      BY <1>6, <2>2 DEF BackedInv, InstanceBacked
    <3>2. i \in Ifls
      BY <2>2 DEF JunosInv, JunosTypeOK, InstTable, Instance
    <3>3. QED
      BY <1>2, <3>1, <3>2
  <2>3. QED
    BY <1>4, <1>6, <2>1, <2>2
<1>7. QED
  BY <1>5, <1>6 DEF InstanceBacked

\* Delete takes an instance, and no unit that is used for another one only.
LEMMA RemoveServiceBacked ==
  ASSUME JunosInv, BackedInv, NEW f \in Found, Owned(f.name, f.units), RemoveService(f)
  PROVE  (\A n \in Names : inst[n] # None => Owned(n, inst[n].ifls))' /\ InstanceBacked'
<1>1. \A n \in Names : inst'[n] # None => n # f.name /\ inst'[n] = inst[n]
  BY DEF RemoveService, JunosInv, JunosTypeOK, InstTable
<1>2. \A n \in Names : inst'[n] # None => Owned(n, inst'[n].ifls)
  BY <1>1 DEF BackedInv
<1>3. ASSUME NEW n \in Names, inst'[n] # None, NEW i \in inst'[n].ifls, Sole(i, n)
      PROVE  unit'[i] # None
  <2>1. n # f.name /\ inst[n] # None /\ i \in inst[n].ifls
    BY <1>1, <1>3
  <2>2. i \notin f.units
    BY <1>3, <2>1 DEF Owned
  <2>3. i \in Ifls
    BY <2>1 DEF JunosInv, JunosTypeOK, InstTable, Instance
  <2>4. unit[i] # None
    BY <1>3, <2>1 DEF BackedInv, InstanceBacked
  <2>5. QED
    BY <2>2, <2>3, <2>4 DEF RemoveService
<1>4. QED
  BY <1>2, <1>3 DEF InstanceBacked

\* Every step preserves that invariant.
LEMMA BackedInvStep == JunosInv /\ BackedInv /\ [JunosNext]_junosVars => BackedInv'
<1> SUFFICES ASSUME JunosInv, BackedInv, [JunosNext]_junosVars PROVE BackedInv'
  OBVIOUS
<1> DEFINE Switch ==
      (\A n \in Names : inst[n] # None => Owned(n, inst[n].ifls))' /\ InstanceBacked'
<1> DEFINE Deleters ==
      \A s \in Servers : \A f \in found'[s] : Owned(f.name, f.ifls) /\ Owned(f.name, f.units)
<1>1. ASSUME UNCHANGED device PROVE Switch
  BY <1>1 DEF BackedInv, InstanceBacked, device
<1>2. ASSUME UNCHANGED found PROVE Deleters
  BY <1>2 DEF BackedInv
<1>3. ASSUME NEW s \in Servers, Provision(s) \/ Delete(s) PROVE Switch /\ Deleters
  <2>1. UNCHANGED device /\ found' = [found EXCEPT ![s] = {}]
    BY <1>3 DEF Provision, Delete, Begin
  <2>2. Deleters
    BY <2>1 DEF BackedInv, JunosInv, JunosTypeOK
  <2>3. QED
    BY <1>1, <2>1, <2>2
<1>4. ASSUME NEW s \in Servers, ReadInstances(s) PROVE Switch /\ Deleters
  <2>1. UNCHANGED device
    BY <1>4 DEF ReadInstances
  <2>2. ASSUME NEW q \in req[s], NEW n \in FindInstance(q.name)
        PROVE  Owned(n, inst[n].ifls) /\ Owned(n, {})
    <3>1. n \in Names /\ inst[n] # None
      BY <2>2 DEF FindInstance, ByName, ByVlan, MacVrfs
    <3>2. QED
      BY <3>1 DEF BackedInv, Owned
  <2>3. \/ UNCHANGED found
        \/ \E f : /\ Owned(f.name, f.ifls) /\ Owned(f.name, f.units)
                  /\ found' = [found EXCEPT ![s] = {f}]
    BY <1>4, <2>2 DEF ReadInstances
  <2>4. Deleters
    BY <1>2, <2>3 DEF BackedInv, JunosInv, JunosTypeOK
  <2>5. QED
    BY <1>1, <2>1, <2>4
<1>5. ASSUME NEW s \in Servers, ReadInterfaces(s) PROVE Switch /\ Deleters
  <2>1. PICK f \in found[s] : found' = [found EXCEPT ![s] = {[f EXCEPT !.units = Present(f.ifls)]}]
    BY <1>5 DEF ReadInterfaces
  <2>2. f \in Found /\ Owned(f.name, f.ifls)
    BY <2>1 DEF BackedInv, JunosInv, JunosTypeOK
  <2>3. Owned(f.name, Present(f.ifls))
    BY <2>2 DEF Owned, Present
  <2>4. Deleters
    BY <2>1, <2>2, <2>3 DEF BackedInv, JunosInv, JunosTypeOK, Found
  <2>5. QED
    BY <1>1, <1>5, <2>4 DEF ReadInterfaces
<1>6. ASSUME NEW s \in Servers, Set(s) PROVE Switch /\ Deleters
  <2>1. Deleters
    BY <1>2, <1>6 DEF Set
  <2>2. req[s] \subseteq Provisions \cup Deletes /\ found[s] \subseteq Found
    BY DEF JunosInv, JunosTypeOK
  <2>3. ASSUME NEW q \in req[s], q.op = "provision", AddService(q) PROVE Switch
    BY <2>2, <2>3, RequestKinds, AddServiceBacked
  <2>4. ASSUME NEW f \in found[s], RemoveService(f) PROVE Switch
    <3>1. f \in Found /\ Owned(f.name, f.units)
      BY <2>2, <2>4 DEF BackedInv
    <3>2. QED
      BY <2>4, <3>1, RemoveServiceBacked
  <2>5. QED
    BY <1>1, <1>6, <2>1, <2>3, <2>4 DEF Set, Commit, Applied
<1>7. ASSUME NEW s \in Servers, \/ CheckInstances(s) \/ CheckInterfaces(s)
                                \/ GetRaises(s) \/ Reply(s) \/ Crash(s)
      PROVE  Switch /\ Deleters
  BY <1>1, <1>2, <1>7 DEF CheckInstances, CheckInterfaces, GetRaises, Reply, Crash
<1>8. ASSUME UNCHANGED junosVars PROVE Switch /\ Deleters
  BY <1>1, <1>2, <1>8 DEF junosVars
<1>9. ASSUME Switch, Deleters PROVE BackedInv'
  BY <1>9 DEF BackedInv
<1>10. QED
  BY <1>3, <1>4, <1>5, <1>6, <1>7, <1>8, <1>9 DEF JunosNext

\* BackedInv holds throughout.
LEMMA BackedInvariant == JunosSpec => []BackedInv
<1>1. JunosInit => BackedInv
  <2>1. JunosInit => \A n \in Names : inst[n] # None => Owned(n, inst[n].ifls)
    BY DEF JunosInit, Owned, Sole
  <2>2. JunosInit => InstanceBacked
    BY DEF JunosInit, InstanceBacked, Sole
  <2>3. QED
    BY <2>1, <2>2 DEF JunosInit, BackedInv
<1>2. QED
  BY <1>1, BackedInvStep, JunosInvariant, PTL DEF JunosSpec

\* However the requests of any number of calls interleave, an instance keeps the units
\* that callers and operators use for no other instance (backend.py:331-445).
THEOREM InstancesStayBacked == JunosSpec => []InstanceBacked
<1>1. BackedInv => InstanceBacked
  BY DEF BackedInv
<1>2. QED
  BY <1>1, BackedInvariant, PTL

-----------------------------------------------------------------------------
(* A call during which no other one has changed the switch.                 *)

\* The instance of q bridges the unit of q, and no other mac-vrf has its VNI.
Works(q) ==
  /\ q.name \in MacVrfs /\ Ifl(q) \in inst[q.name].ifls /\ VlanOf(q) \in inst[q.name].vlans
  /\ unit[Ifl(q)] = q.vlan
  /\ \A n \in MacVrfs \ {q.name} : \A v \in inst[n].vlans : v.vni # q.vni

\* The mac-vrf that q asks to delete is gone, and so are the units it had.
Gone(q, f) ==
  /\ q.name \notin MacVrfs
  /\ inst[f.name] = None
  /\ \A i \in f.ifls : unit[i] = None

\* What provision has checked is still so; what delete has found is still there.
StillFree(q) == inst[q.name] = None /\ ~VniUsed(q)
StillThere(q, f) == f.name \in FindInstance(q.name) /\ f.ifls = inst[f.name].ifls

\* What the switch is to a call that has read it, has sent its Set or has said OK.
Current(s) ==
  /\ \A q \in req[s] : q.op = "provision" =>
       /\ pc[s] \in {"interfaces", "set"} => StillFree(q)
       /\ pc[s] = "reply" \/ said[s] = "ok" => Works(q)
  /\ \A q \in req[s], f \in found[s] : q.op = "delete" =>
       /\ pc[s] \in {"interfaces", "set"} => StillThere(q, f)
       /\ pc[s] = "set" => f.units = Present(f.ifls)
       /\ pc[s] = "reply" \/ said[s] = "ok" => Gone(q, f)

AloneInv ==
  /\ \A s \in Servers : \A q, r \in req[s] : q = r
  /\ \A s \in Servers : \A f, g \in found[s] : f = g
  /\ \A s \in Servers : alone[s] => Current(s)

\* While the switch stays, what a call knows of it stays.
LEMMA KnowledgeStays ==
  ASSUME UNCHANGED device
  PROVE  /\ \A q : StillFree(q)' = StillFree(q) /\ Works(q)' = Works(q)
         /\ \A q, f : /\ StillThere(q, f)' = StillThere(q, f)
                       /\ Gone(q, f)' = Gone(q, f)
                       /\ Present(f.ifls)' = Present(f.ifls)
  BY DEF StillFree, StillThere, VniUsed, Works, Gone, FindInstance, ByName, ByVlan, MacVrfs,
         Present, device, Ifl, VlanOf

\* A call that takes no step while the switch stays knows what it knew.
LEMMA OtherCurrent ==
  ASSUME NEW u \in Servers, Current(u), UNCHANGED device, pc'[u] = pc[u], req'[u] = req[u],
         found'[u] = found[u], said'[u] = said[u]
  PROVE  Current(u)'
<1>1. \A q \in req[u] : StillFree(q)' = StillFree(q) /\ Works(q)' = Works(q)
  BY KnowledgeStays
<1>2. \A q \in req[u], f \in found[u] : /\ StillThere(q, f)' = StillThere(q, f)
                                       /\ Gone(q, f)' = Gone(q, f)
                                       /\ Present(f.ifls)' = Present(f.ifls)
  BY KnowledgeStays
<1>3. QED
  BY <1>1, <1>2 DEF Current

\* A provision whose name and VNI are free makes a service that works.
LEMMA AddServiceWorks ==
  ASSUME JunosInv, NEW q \in ProvisionRequest, StillFree(q), AddService(q)
  PROVE  Works(q)'
<1>1. q.name \in Names /\ Ifl(q) \in Ifls /\ Merged(inst[q.name], q) \in Instance
  BY IflType, MergedType DEF ProvisionRequest, JunosInv, JunosTypeOK, InstTable
<1>2. Merged(inst[q.name], q) = [mac |-> TRUE, ifls |-> {Ifl(q)}, vlans |-> {VlanOf(q)}]
  BY DEF Merged, StillFree
<1>3. inst'[q.name] = Merged(inst[q.name], q) /\ unit'[Ifl(q)] = q.vlan
  BY <1>1 DEF AddService, JunosInv, JunosTypeOK, InstTable, UnitTable
<1>4. \A n \in Names \ {q.name} : inst'[n] = inst[n]
  BY DEF AddService, JunosInv, JunosTypeOK, InstTable
<1>5. q.name \in MacVrfs'
  BY <1>1, <1>2, <1>3, JunosAssumption DEF MacVrfs
<1>6. Ifl(q) \in inst'[q.name].ifls /\ VlanOf(q) \in inst'[q.name].vlans
  BY <1>2, <1>3
<1>7. \A n \in MacVrfs' \ {q.name} : \A v \in inst'[n].vlans : v.vni # q.vni
  BY <1>4 DEF MacVrfs, StillFree, VniUsed
<1>8. QED
  BY <1>3, <1>5, <1>6, <1>7 DEF Works, Ifl, VlanOf

\* A delete that finds what it has found leaves no mac-vrf of that name, and no unit.
LEMMA RemoveServiceGone ==
  ASSUME JunosInv, NEW q, NEW f \in Found, StillThere(q, f), f.units = Present(f.ifls),
         RemoveService(f)
  PROVE  Gone(q, f)'
<1>1. f.name \in Names /\ f.ifls \subseteq Ifls
  BY DEF Found
<1>2. /\ inst'[f.name] = None
      /\ \A n \in Names : inst'[n] # None => n # f.name /\ inst'[n] = inst[n]
  BY <1>1 DEF RemoveService, JunosInv, JunosTypeOK, InstTable
<1>3. q.name \in MacVrfs => f.name = q.name
  BY DEF StillThere, FindInstance, ByName
<1>4. q.name \notin MacVrfs'
  BY <1>2, <1>3 DEF MacVrfs
<1>5. \A i \in f.ifls : unit'[i] = None
  BY <1>1 DEF RemoveService, Present
<1>6. QED
  BY <1>2, <1>4, <1>5 DEF Gone

\* A step of a call that neither sends nor answers a Set, made by server s.
LEMMA QuietStep ==
  ASSUME JunosInv, AloneInv, NEW s \in Servers, pc[s] \notin {"idle", "reply"},
         NEW p \in {"idle", "interfaces", "set"}, pc' = [pc EXCEPT ![s] = p],
         \/ UNCHANGED said
         \/ \E a \in {"error", "other"} : said' = [said EXCEPT ![s] = a],
         UNCHANGED <<device, req, alone>>,
         NEW F \in SUBSET Found, found' = [found EXCEPT ![s] = F], \A f, g \in F : f = g,
         alone[s] /\ p # "idle" =>
           /\ \A q \in req[s] : q.op = "provision" => StillFree(q)
           /\ \A q \in req[s], f \in F : q.op = "delete" =>
                StillThere(q, f) /\ (p = "set" => f.units = Present(f.ifls))
  PROVE  AloneInv'
<1>1. /\ pc'[s] = p /\ found'[s] = F /\ said'[s] # "ok" /\ req'[s] = req[s]
      /\ \A u \in Servers \ {s} : pc'[u] = pc[u] /\ found'[u] = found[u]
  BY DEF JunosInv, JunosTypeOK, AtWork
<1>2. \A u \in Servers \ {s} : said'[u] = said[u]
  BY DEF JunosInv, JunosTypeOK
<1>3. alone[s] => Current(s)'
  <2>1. \A q \in req[s] : StillFree(q)' = StillFree(q)
    BY KnowledgeStays
  <2>2. \A q \in req[s], f \in F :
          StillThere(q, f)' = StillThere(q, f) /\ Present(f.ifls)' = Present(f.ifls)
    BY KnowledgeStays
  <2>3. QED
    BY <1>1, <2>1, <2>2 DEF Current
<1>4. \A u \in Servers : \A q, r \in req'[u] : q = r
  BY DEF AloneInv
<1>5. \A u \in Servers : \A f, g \in found'[u] : f = g
  BY <1>1 DEF AloneInv
<1>6. \A u \in Servers \ {s} : alone[u] => Current(u)'
  BY <1>1, <1>2, OtherCurrent DEF AloneInv
<1>7. QED
  BY <1>3, <1>4, <1>5, <1>6 DEF AloneInv

\* Every step preserves AloneInv.
LEMMA AloneInvStep == JunosInv /\ AloneInv /\ [JunosNext]_junosVars => AloneInv'
<1> SUFFICES ASSUME JunosInv, AloneInv, [JunosNext]_junosVars PROVE AloneInv'
  OBVIOUS
<1>1. ASSUME NEW s \in Servers, NEW q, NEW next \in {"instances", "idle"},
             NEW answer \in {"none", "other"}, Begin(s, q, next, answer)
      PROVE  AloneInv'
  <2>1. /\ pc'[s] = next /\ said'[s] = answer /\ req'[s] = {q} /\ found'[s] = {}
        /\ \A u \in Servers \ {s} : /\ pc'[u] = pc[u] /\ req'[u] = req[u] /\ found'[u] = found[u]
                                    /\ said'[u] = said[u] /\ alone'[u] = alone[u]
        /\ UNCHANGED device
    BY <1>1 DEF Begin, JunosInv, JunosTypeOK
  <2>2. Current(s)'
    BY <2>1 DEF Current
  <2>3. ASSUME NEW u \in Servers \ {s}, alone'[u] PROVE Current(u)'
    <3>1. Current(u)
      BY <2>1, <2>3 DEF AloneInv
    <3>2. QED
      BY <2>1, <3>1, OtherCurrent
  <2>4. QED
    BY <2>1, <2>2, <2>3 DEF AloneInv
<1>2. ASSUME NEW s \in Servers, Provision(s) \/ Delete(s) PROVE AloneInv'
  BY <1>1, <1>2 DEF Provision, Delete
<1>3. ASSUME NEW s \in Servers, CheckInstances(s) PROVE AloneInv'
  <2>1. /\ pc[s] = "instances" /\ UNCHANGED <<device, req, alone>>
        /\ found[s] \in SUBSET Found /\ found' = [found EXCEPT ![s] = found[s]]
        /\ \A f, g \in found[s] : f = g
    BY <1>3 DEF CheckInstances, JunosInv, JunosTypeOK, AloneInv
  <2>2. PICK q \in req[s] :
          /\ q.op = "provision"
          /\ End(s, "other") \/ (StillFree(q) /\ Goto(s, "interfaces"))
    BY <1>3 DEF CheckInstances, StillFree
  <2>3. \A r \in req[s] : r = q
    BY DEF AloneInv
  <2>4. CASE End(s, "other")
    BY <2>1, <2>4, QuietStep DEF End
  <2>5. CASE StillFree(q) /\ Goto(s, "interfaces")
    <3>1. pc' = [pc EXCEPT ![s] = "interfaces"] /\ UNCHANGED said
      BY <2>5 DEF Goto
    <3>2. \A r \in req[s] : StillFree(r) /\ r.op # "delete"
      BY <2>2, <2>3, <2>5
    <3>3. QED
      BY <2>1, <3>1, <3>2, QuietStep
  <2>6. QED
    BY <2>2, <2>4, <2>5
<1>4. ASSUME NEW s \in Servers, CheckInterfaces(s) PROVE AloneInv'
  <2>1. /\ pc[s] = "interfaces" /\ UNCHANGED <<device, req, alone>>
        /\ found[s] \in SUBSET Found /\ found' = [found EXCEPT ![s] = found[s]]
        /\ \A f, g \in found[s] : f = g
    BY <1>4 DEF CheckInterfaces, JunosInv, JunosTypeOK, AloneInv
  <2>2. PICK q \in req[s] : q.op = "provision" /\ (End(s, "other") \/ Goto(s, "set"))
    BY <1>4 DEF CheckInterfaces
  <2>3. \A r \in req[s] : r = q
    BY DEF AloneInv
  <2>4. CASE End(s, "other")
    BY <2>1, <2>4, QuietStep DEF End
  <2>5. CASE Goto(s, "set")
    <3>1. pc' = [pc EXCEPT ![s] = "set"] /\ UNCHANGED said
      BY <2>5 DEF Goto
    <3>2. alone[s] => \A r \in req[s] : StillFree(r)
      BY <2>1, <2>2, <2>3 DEF AloneInv, Current
    <3>3. \A r \in req[s] : r.op # "delete"
      BY <2>2, <2>3
    <3>4. QED
      BY <2>1, <3>1, <3>2, <3>3, QuietStep
  <2>6. QED
    BY <2>2, <2>4, <2>5
<1>5. ASSUME NEW s \in Servers, ReadInstances(s) PROVE AloneInv'
  <2>1. pc[s] = "instances" /\ UNCHANGED <<device, req, alone>>
    BY <1>5 DEF ReadInstances
  <2>2. PICK q \in req[s] :
          /\ q.op = "delete"
          /\ \/ End(s, "other") /\ UNCHANGED found
             \/ \E n \in FindInstance(q.name) :
                  /\ found' = [found EXCEPT ![s] = {[name |-> n, ifls |-> inst[n].ifls, units |-> {}]}]
                  /\ Goto(s, "interfaces")
    BY <1>5 DEF ReadInstances
  <2>3. \A r \in req[s] : r = q
    BY DEF AloneInv
  <2>4. CASE End(s, "other") /\ UNCHANGED found
    <3>1. /\ found[s] \in SUBSET Found /\ found' = [found EXCEPT ![s] = found[s]]
          /\ \A f, g \in found[s] : f = g
      BY <2>4 DEF JunosInv, JunosTypeOK, AloneInv
    <3>2. QED
      BY <2>1, <2>4, <3>1, QuietStep DEF End
  <2>5. ASSUME NEW n \in FindInstance(q.name),
               found' = [found EXCEPT ![s] = {[name |-> n, ifls |-> inst[n].ifls, units |-> {}]}],
               Goto(s, "interfaces")
        PROVE  AloneInv'
    <3> DEFINE F == {[name |-> n, ifls |-> inst[n].ifls, units |-> {}]}
    <3>1. F \in SUBSET Found /\ \A f, g \in F : f = g
      <4>1. n \in MacVrfs
        BY DEF FindInstance, ByName, ByVlan
      <4>2. QED
        BY <4>1, FoundTypes DEF JunosInv
    <3>2. \A r \in req[s], f \in F : StillThere(r, f)
      BY <2>3 DEF StillThere
    <3>3. \A r \in req[s] : r.op # "provision"
      BY <2>2, <2>3
    <3>4. pc' = [pc EXCEPT ![s] = "interfaces"] /\ UNCHANGED said /\ found' = [found EXCEPT ![s] = F]
      BY <2>5 DEF Goto
    <3> HIDE DEF F
    <3>5. QED
      BY <2>1, <3>1, <3>2, <3>3, <3>4, QuietStep
  <2>6. QED
    BY <2>2, <2>4, <2>5
<1>6. ASSUME NEW s \in Servers, ReadInterfaces(s) PROVE AloneInv'
  <2>1. pc[s] = "interfaces" /\ UNCHANGED <<device, req, alone>>
    BY <1>6 DEF ReadInterfaces
  <2>2. PICK q \in req[s], f \in found[s] :
          /\ q.op = "delete"
          /\ found' = [found EXCEPT ![s] = {[f EXCEPT !.units = Present(f.ifls)]}]
          /\ End(s, "other") \/ Goto(s, "set")
    BY <1>6 DEF ReadInterfaces
  <2>3. \A r \in req[s] : r = q
    BY DEF AloneInv
  <2> DEFINE F == {[f EXCEPT !.units = Present(f.ifls)]}
  <2>4. F \in SUBSET Found /\ \A g, h \in F : g = h
    BY FoundTypes DEF JunosInv, JunosTypeOK
  <2>5. f \in Found
    BY DEF JunosInv, JunosTypeOK
  <2>6. \A g \in F : g.name = f.name /\ g.ifls = f.ifls /\ g.units = Present(g.ifls)
    BY <2>5 DEF Found
  <2>7. alone[s] => StillThere(q, f)
    BY <2>1, <2>2 DEF AloneInv, Current
  <2>8. ASSUME alone[s], NEW r \in req[s], NEW g \in F
        PROVE  StillThere(r, g) /\ g.units = Present(g.ifls)
    BY <2>3, <2>6, <2>7, <2>8 DEF StillThere
  <2>9. found' = [found EXCEPT ![s] = F] /\ \A r \in req[s] : r.op # "provision"
    BY <2>2, <2>3
  <2> HIDE DEF F
  <2>10. CASE End(s, "other")
    BY <2>1, <2>4, <2>9, <2>10, QuietStep DEF End
  <2>11. CASE Goto(s, "set")
    BY <2>1, <2>4, <2>8, <2>9, <2>11, QuietStep DEF Goto
  <2>12. QED
    BY <2>2, <2>10, <2>11
<1>7. ASSUME NEW s \in Servers, GetRaises(s) PROVE AloneInv'
  <2>1. /\ pc[s] \notin {"idle", "reply"} /\ UNCHANGED <<device, req, alone>> /\ End(s, "other")
        /\ found[s] \in SUBSET Found /\ found' = [found EXCEPT ![s] = found[s]]
        /\ \A f, g \in found[s] : f = g
    BY <1>7 DEF GetRaises, JunosInv, JunosTypeOK, AloneInv
  <2>2. QED
    BY <2>1, QuietStep DEF End
<1>8. ASSUME NEW s \in Servers, Set(s) PROVE AloneInv'
  <2>1. pc[s] = "set" /\ UNCHANGED <<req, found>>
    BY <1>8 DEF Set
  <2>2. ASSUME NEW answer \in {"error", "other"}, End(s, answer), UNCHANGED <<device, alone>>
        PROVE  AloneInv'
    <3>1. /\ found[s] \in SUBSET Found /\ found' = [found EXCEPT ![s] = found[s]]
          /\ \A f, g \in found[s] : f = g
      BY <2>1 DEF JunosInv, JunosTypeOK, AloneInv
    <3>2. QED
      BY <2>1, <2>2, <3>1, QuietStep DEF End
  <2>3. ASSUME Commit(s) PROVE AloneInv'
    <3>1. pc'[s] = "reply" /\ \A u \in Servers : alone'[u] => u = s /\ alone[s]
      BY <2>3 DEF Commit, Goto, JunosInv, JunosTypeOK
    <3>2. (\A r \in req[s], q \in req[s] : r = q) /\ (\A f \in found[s], g \in found[s] : f = g)
      BY DEF AloneInv
    <3>3. ASSUME alone[s], NEW q \in req[s], q.op = "provision", AddService(q) PROVE Current(s)'
      <4>1. q \in ProvisionRequest /\ StillFree(q)
        BY <2>1, <3>3, RequestKinds DEF JunosInv, JunosTypeOK, AloneInv, Current
      <4>2. Works(q)'
        BY <3>3, <4>1, AddServiceWorks
      <4>3. \A r \in req'[s] : r = q
        BY <2>1, <3>2
      <4>4. QED
        BY <3>1, <3>3, <4>2, <4>3 DEF Current
    <3>4. ASSUME alone[s], NEW q \in req[s], q.op = "delete", NEW f \in found[s], RemoveService(f)
          PROVE  Current(s)'
      <4>1. f \in Found /\ StillThere(q, f) /\ f.units = Present(f.ifls)
        BY <2>1, <3>4 DEF JunosInv, JunosTypeOK, AloneInv, Current
      <4>2. Gone(q, f)'
        BY <3>4, <4>1, RemoveServiceGone
      <4>3. (\A r \in req'[s] : r = q) /\ (\A g \in found'[s] : g = f)
        BY <2>1, <3>2
      <4>4. QED
        BY <3>1, <3>4, <4>2, <4>3 DEF Current
    <3>5. alone[s] => Current(s)'
      BY <2>3, <3>3, <3>4 DEF Commit, Applied
    <3>6. QED
      BY <2>1, <3>1, <3>5 DEF AloneInv
  <2>4. QED
    BY <1>8, <2>2, <2>3 DEF Set
<1>9. ASSUME NEW s \in Servers, Reply(s) \/ Crash(s) PROVE AloneInv'
  <2>1. /\ pc[s] # "idle" /\ UNCHANGED <<device, req, found, alone>> /\ said[s] = "none"
        /\ pc'[s] = "idle" /\ \A u \in Servers \ {s} : pc'[u] = pc[u] /\ said'[u] = said[u]
        /\ said'[s] = "ok" => pc[s] = "reply"
    BY <1>9 DEF Reply, Crash, End, JunosInv, JunosTypeOK, AtWork
  <2>2. /\ \A q \in req[s] : Works(q)' = Works(q)
        /\ \A q \in req[s], f \in found[s] : Gone(q, f)' = Gone(q, f)
    BY <2>1, KnowledgeStays
  <2>3. alone[s] => Current(s)'
    BY <2>1, <2>2 DEF AloneInv, Current
  <2>4. \A u \in Servers \ {s} : alone[u] => Current(u)'
    BY <2>1, OtherCurrent DEF AloneInv
  <2>5. QED
    BY <2>1, <2>3, <2>4 DEF AloneInv
<1>10. CASE UNCHANGED junosVars
  <2>1. \A s \in Servers : Current(s)' = Current(s)
    BY <1>10 DEF junosVars, device, Current, StillFree, StillThere, Works, Gone, VniUsed, MacVrfs,
                 FindInstance, ByName, ByVlan, Present, Ifl, VlanOf
  <2>2. QED
    BY <1>10, <2>1 DEF junosVars, AloneInv
<1>11. QED
  BY <1>2, <1>3, <1>4, <1>5, <1>6, <1>7, <1>8, <1>9, <1>10 DEF JunosNext

\* AloneInv holds throughout.
LEMMA AloneInvariant == JunosSpec => []AloneInv
<1>1. JunosInit => AloneInv
  BY DEF JunosInit, AloneInv
<1>2. QED
  BY <1>1, AloneInvStep, JunosInvariant, PTL DEF JunosSpec

\* What provision says it has made is there and works, with its VNI for itself alone, if no
\* other call has changed the switch since it began (backend.py:331-395), whatever it had.
THEOREM ProvisionedServiceWorks == JunosSpec => []ProvisionedWorks
<1>1. AloneInv => ProvisionedWorks
  BY DEF AloneInv, Current, Works, ProvisionedWorks
<1>2. QED
  BY <1>1, AloneInvariant, PTL

\* What delete says it has deleted is gone, and so are its units, if no other call has
\* changed the switch since it began (backend.py:397-445), whatever name or VLAN was given.
THEOREM DeletedServiceGone == JunosSpec => []DeletedLeavesNothing
<1>1. AloneInv => DeletedLeavesNothing
  BY DEF AloneInv, Current, Gone, DeletedLeavesNothing
<1>2. QED
  BY <1>1, AloneInvariant, PTL

-----------------------------------------------------------------------------
(* The refinement of AtomicWrite.                                           *)

Config == [inst |-> inst, unit |-> unit]

\* The instance a call is about to change: the one it provisions, or the one it has found.
Target(s) == {q.name : q \in {r \in req[s] : r.op = "provision"}} \cup {f.name : f \in found[s]}

\* A Set changes the instance of its call, and nothing of another one.
LEMMA SetChangesTarget ==
  ASSUME JunosInv, BackedInv, NEW s \in Servers, Applied(s)
  PROVE  \E n \in Target(s) : n \in Names /\ \A m \in Names \ {n} : Untouched(Config, Config', m)
<1>1. ASSUME NEW q \in req[s], q.op = "provision", AddService(q)
      PROVE  /\ q.name \in Target(s) /\ q.name \in Names
             /\ \A m \in Names \ {q.name} : Untouched(Config, Config', m)
  <2>1. q \in Provisions /\ q \in ProvisionRequest /\ q.name \in Names
    BY <1>1, RequestKinds DEF ProvisionRequest, JunosInv, JunosTypeOK
  <2>2. ASSUME NEW m \in Names \ {q.name} PROVE inst'[m] = inst[m]
    BY <1>1, <2>1 DEF AddService, JunosInv, JunosTypeOK, InstTable
  <2>3. ASSUME NEW m \in Names \ {q.name}, NEW i \in Ifls, Sole(i, m) PROVE unit'[i] = unit[i]
    <3>1. i # Ifl(q)
      BY <2>1, <2>3 DEF Sole
    <3>2. QED
      BY <1>1, <3>1 DEF AddService, JunosInv, JunosTypeOK, UnitTable
  <2>4. QED
    BY <1>1, <2>1, <2>2, <2>3 DEF Untouched, Config, Target
<1>2. ASSUME NEW f \in found[s], RemoveService(f)
      PROVE  /\ f.name \in Target(s) /\ f.name \in Names
             /\ \A m \in Names \ {f.name} : Untouched(Config, Config', m)
  <2>1. f.name \in Names /\ Owned(f.name, f.units)
    BY DEF Found, BackedInv, JunosInv, JunosTypeOK
  <2>2. ASSUME NEW m \in Names \ {f.name} PROVE inst'[m] = inst[m]
    BY <1>2, <2>1 DEF RemoveService, JunosInv, JunosTypeOK, InstTable
  <2>3. ASSUME NEW m \in Names \ {f.name}, NEW i \in Ifls, Sole(i, m) PROVE unit'[i] = unit[i]
    <3>1. i \notin f.units
      BY <2>1, <2>3 DEF Owned
    <3>2. QED
      BY <1>2, <3>1 DEF RemoveService
  <2>4. QED
    BY <1>2, <2>1, <2>2, <2>3 DEF Untouched, Config, Target
<1>3. QED
  BY <1>1, <1>2 DEF Applied

\* However stale what the calls at work have read, no step takes or changes an instance
\* that none of them is about to write, nor a unit that is used for it only: a provision
\* changes the instance of its name, a delete the one it has found (backend.py:331-445).
THEOREM OtherInstancesUntouched ==
  JunosSpec =>
    [][\A n \in Names :
         (\A s \in Servers : pc[s] = "set" => n \notin Target(s)) =>
           Untouched(Config, Config', n)]_junosVars
<1>1. JunosInv /\ BackedInv /\ [JunosNext]_junosVars =>
        [\A n \in Names :
           (\A s \in Servers : pc[s] = "set" => n \notin Target(s)) =>
             Untouched(Config, Config', n)]_junosVars
  <2> SUFFICES ASSUME JunosInv, BackedInv, JunosNext, NEW n \in Names,
                      \A s \in Servers : pc[s] = "set" => n \notin Target(s)
               PROVE  Untouched(Config, Config', n)
    OBVIOUS
  <2>1. CASE UNCHANGED device
    BY <2>1 DEF Untouched, Config, device
  <2>2. ASSUME NEW s \in Servers, Set(s), Applied(s) PROVE Untouched(Config, Config', n)
    BY <2>2, SetChangesTarget DEF Set
  <2>3. UNCHANGED device \/ \E s \in Servers : Set(s) /\ Applied(s)
    BY DEF JunosNext, Provision, Delete, Begin, CheckInstances, CheckInterfaces, ReadInstances,
           ReadInterfaces, GetRaises, Set, Commit, Reply, Crash
  <2>4. QED
    BY <2>1, <2>2, <2>3
<1>2. QED
  BY <1>1, JunosInvariant, BackedInvariant, PTL DEF JunosSpec

\* What a step that moves server s to p does to the abstract calls.
LEMMA CallMove ==
  ASSUME JunosInv, NEW s \in Servers, NEW p, pc' = [pc EXCEPT ![s] = p]
  PROVE  AtomicCall' = [AtomicCall EXCEPT ![s] = Stage(p)] /\ AtomicCall[s] = Stage(pc[s])
<1>1. pc'[s] = p /\ \A u \in Servers \ {s} : pc'[u] = pc[u]
  BY DEF JunosInv, JunosTypeOK
<1>2. AtomicCall' = [u \in Servers |-> Stage(pc'[u])]
  BY DEF AtomicCall, Stage
<1>3. QED
  BY <1>1, <1>2 DEF AtomicCall, Stage

\* What a step that only server s answers in does to the abstract answers.
LEMMA AnswerMove ==
  ASSUME NEW s \in Servers, \A u \in Servers \ {s} : said'[u] = said[u] /\ lost'[u] = lost[u]
  PROVE  AtomicAnswer' = [AtomicAnswer EXCEPT ![s] = IF lost'[s] THEN "none" ELSE said'[s]]
  BY DEF AtomicAnswer

\* Every step is a step of AtomicWrite, or changes nothing it sees.
LEMMA AtomicStep ==
  JunosInv /\ BackedInv /\ [JunosNext]_junosVars => [Atomic!AtomicNext]_(Atomic!absVars)
<1> SUFFICES ASSUME JunosInv, BackedInv, [JunosNext]_junosVars
             PROVE  [Atomic!AtomicNext]_(Atomic!absVars)
  OBVIOUS
<1> DEFINE Same == UNCHANGED Atomic!absVars
<1> USE DEF device
<1>1. ASSUME NEW s \in Servers, NEW q, NEW next \in {"instances", "idle"},
             NEW answer \in {"none", "other"}, (next = "idle") = (answer = "other"),
             Begin(s, q, next, answer)
      PROVE  Atomic!Open(s) \/ Atomic!Refuse(s)
  <2>1. /\ pc[s] = "idle" /\ pc' = [pc EXCEPT ![s] = next] /\ UNCHANGED <<inst, unit>>
        /\ said' = [said EXCEPT ![s] = answer] /\ lost' = [lost EXCEPT ![s] = FALSE]
    BY <1>1 DEF Begin
  <2>2. /\ said'[s] = answer /\ lost'[s] = FALSE
        /\ \A u \in Servers \ {s} : said'[u] = said[u] /\ lost'[u] = lost[u]
    BY <2>1 DEF JunosInv, JunosTypeOK
  <2>3. CASE next = "idle"
    <3>1. AtomicCall' = [AtomicCall EXCEPT ![s] = "idle"] /\ AtomicCall[s] = "idle"
      BY <2>1, <2>2, <2>3, CallMove DEF Stage
    <3>2. AtomicAnswer' = [AtomicAnswer EXCEPT ![s] = "other"]
      BY <1>1, <2>1, <2>2, <2>3, AnswerMove
    <3>3. AtomicCall' = AtomicCall
      BY <3>1 DEF AtomicCall
    <3>4. QED
      BY <2>1, <3>1, <3>2, <3>3 DEF Atomic!Refuse
  <2>4. CASE next = "instances"
    <3>1. AtomicCall' = [AtomicCall EXCEPT ![s] = "open"] /\ AtomicCall[s] = "idle"
      BY <2>1, <2>2, <2>4, CallMove DEF Stage
    <3>2. AtomicAnswer' = [AtomicAnswer EXCEPT ![s] = "none"]
      BY <1>1, <2>1, <2>2, <2>4, AnswerMove
    <3>3. QED
      BY <2>1, <3>1, <3>2 DEF Atomic!Open
  <2>5. QED
    BY <2>3, <2>4
<1>2. ASSUME NEW s \in Servers, Provision(s) \/ Delete(s) PROVE Atomic!AtomicNext
  BY <1>1, <1>2 DEF Provision, Delete, Atomic!AtomicNext
\* An answer other than OK, before anything is sent.
<1>3. ASSUME NEW s \in Servers, NEW answer \in {"error", "other"}, End(s, answer),
             pc[s] \in {"instances", "interfaces", "set"}, UNCHANGED <<inst, unit, lost>>
      PROVE  Atomic!AtomicNext
  <2>1. pc' = [pc EXCEPT ![s] = "idle"] /\ said' = [said EXCEPT ![s] = answer]
    BY <1>3 DEF End
  <2>2. /\ said'[s] = answer /\ lost'[s] = FALSE
        /\ \A u \in Servers \ {s} : said'[u] = said[u] /\ lost'[u] = lost[u]
    BY <1>3, <2>1 DEF JunosInv, JunosTypeOK, AtWork
  <2>3. AtomicCall' = [AtomicCall EXCEPT ![s] = "idle"] /\ AtomicCall[s] = "open"
    BY <1>3, <2>1, <2>2, CallMove DEF Stage
  <2>4. AtomicAnswer' = [AtomicAnswer EXCEPT ![s] = answer]
    BY <2>1, <2>2, AnswerMove
  <2>5. Atomic!Return(s)
    BY <1>3, <2>3, <2>4 DEF Atomic!Return
  <2>6. QED
    BY <2>5 DEF Atomic!AtomicNext
\* The next request, nothing sent yet that changes anything.
<1>4. ASSUME NEW s \in Servers, NEW next \in {"interfaces", "set"}, Goto(s, next),
             pc[s] \in {"instances", "interfaces"}, UNCHANGED <<inst, unit, lost>>
      PROVE  Same
  <2>1. pc' = [pc EXCEPT ![s] = next] /\ said' = said
    BY <1>4 DEF Goto
  <2>2. AtomicCall' = AtomicCall
    BY <1>4, <2>1, CallMove DEF AtomicCall, Stage
  <2>3. AtomicAnswer' = AtomicAnswer
    BY <1>4, <2>1 DEF AtomicAnswer
  <2>4. QED
    BY <1>4, <2>2, <2>3 DEF Atomic!absVars
<1>5. ASSUME NEW s \in Servers, CheckInstances(s) \/ CheckInterfaces(s) \/ ReadInstances(s)
                                \/ ReadInterfaces(s) \/ GetRaises(s)
      PROVE  Atomic!AtomicNext \/ Same
  <2>1. /\ UNCHANGED <<inst, unit, lost>> /\ pc[s] \in {"instances", "interfaces"}
        /\ End(s, "other") \/ Goto(s, "interfaces") \/ Goto(s, "set")
    BY <1>5 DEF CheckInstances, CheckInterfaces, ReadInstances, ReadInterfaces, GetRaises
  <2>2. QED
    BY <1>3, <1>4, <2>1
<1>6. ASSUME NEW s \in Servers, Set(s) PROVE Atomic!AtomicNext
  <2>1. pc[s] = "set" /\ UNCHANGED lost
    BY <1>6 DEF Set
  <2>2. CASE UNCHANGED <<inst, unit>> /\ (End(s, "error") \/ End(s, "other"))
    BY <1>3, <2>1, <2>2
  <2>3. CASE Applied(s) /\ Goto(s, "reply")
    <3>1. pc' = [pc EXCEPT ![s] = "reply"] /\ said' = said
      BY <2>3 DEF Goto
    <3>2. AtomicCall' = [AtomicCall EXCEPT ![s] = "written"] /\ AtomicCall[s] = "open"
      BY <2>1, <3>1, CallMove DEF Stage
    <3>3. AtomicAnswer' = AtomicAnswer
      BY <2>1, <3>1 DEF AtomicAnswer
    <3>4. OneInstanceChanges(Config, Config')
      BY <2>3, SetChangesTarget DEF OneInstanceChanges
    <3>5. Atomic!Write(s)
      BY <3>2, <3>3, <3>4 DEF Atomic!Write, Config
    <3>6. QED
      BY <3>5 DEF Atomic!AtomicNext
  <2>4. QED
    BY <1>6, <2>2, <2>3 DEF Set, Commit
<1>7. ASSUME NEW s \in Servers, Reply(s) PROVE Atomic!AtomicNext
  <2>1. /\ pc[s] = "reply" /\ UNCHANGED <<inst, unit>> /\ pc' = [pc EXCEPT ![s] = "idle"]
        /\ said[s] = "none" /\ lost[s] = FALSE
    BY <1>7 DEF Reply, End, JunosInv, AtWork
  <2>2. CASE End(s, "ok") /\ UNCHANGED lost
    <3>1. /\ said'[s] = "ok" /\ lost'[s] = FALSE
          /\ \A u \in Servers \ {s} : said'[u] = said[u] /\ lost'[u] = lost[u]
      BY <2>1, <2>2 DEF End, JunosInv, JunosTypeOK
    <3>2. AtomicCall' = [AtomicCall EXCEPT ![s] = "idle"] /\ AtomicCall[s] = "written"
      BY <2>1, <3>1, CallMove DEF Stage
    <3>3. AtomicAnswer' = [AtomicAnswer EXCEPT ![s] = "ok"]
      BY <2>1, <3>1, AnswerMove
    <3>4. Atomic!Return(s)
      BY <2>1, <3>2, <3>3 DEF Atomic!Return
    <3>5. QED
      BY <3>4 DEF Atomic!AtomicNext
  <2>3. CASE End(s, "error") /\ lost' = [lost EXCEPT ![s] = TRUE]
    <3>1. /\ lost'[s] = TRUE
          /\ \A u \in Servers \ {s} : said'[u] = said[u] /\ lost'[u] = lost[u]
      BY <2>1, <2>3 DEF End, JunosInv, JunosTypeOK
    <3>2. /\ AtomicCall' = [AtomicCall EXCEPT ![s] = "idle"] /\ AtomicCall[s] = "written"
          /\ AtomicAnswer' = [AtomicAnswer EXCEPT ![s] = "none"] /\ AtomicAnswer[s] = "none"
      BY <2>1, <3>1, CallMove, AnswerMove DEF Stage, AtomicAnswer
    <3>3. AtomicAnswer' = AtomicAnswer
      BY <3>2 DEF AtomicAnswer
    <3>4. Atomic!Die(s)
      BY <2>1, <3>2, <3>3 DEF Atomic!Die
    <3>5. QED
      BY <3>4 DEF Atomic!AtomicNext
  <2>4. QED
    BY <1>7, <2>2, <2>3 DEF Reply
<1>8. ASSUME NEW s \in Servers, Crash(s) PROVE Atomic!AtomicNext
  <2>1. /\ pc[s] # "idle" /\ UNCHANGED <<inst, unit, said, lost>>
        /\ pc' = [pc EXCEPT ![s] = "idle"]
    BY <1>8 DEF Crash
  <2>2. AtomicCall' = [AtomicCall EXCEPT ![s] = "idle"] /\ AtomicCall[s] # "idle"
    BY <2>1, CallMove DEF Stage
  <2>3. AtomicAnswer' = AtomicAnswer
    BY <2>1 DEF AtomicAnswer
  <2>4. Atomic!Die(s)
    BY <2>1, <2>2, <2>3 DEF Atomic!Die
  <2>5. QED
    BY <2>4 DEF Atomic!AtomicNext
<1>9. CASE UNCHANGED junosVars
  BY <1>9 DEF junosVars, Atomic!absVars, AtomicCall, Stage, AtomicAnswer
<1>10. QED
  BY <1>2, <1>5, <1>6, <1>7, <1>8, <1>9 DEF JunosNext

\* provision and delete are one atomic Set each (ARCHITECTURE.md:275): a call changes the
\* switch at most once, says OK only if it did, and "no changes were applied" only if
\* it did not, unless the answer to its Set was lost.
THEOREM JunosIsAtomic == JunosSpec => ImplementsAtomicWrite
<1>1. JunosInit => Atomic!AtomicInit
  BY DEF JunosInit, Atomic!AtomicInit, AtomicCall, Stage, AtomicAnswer
<1>2. QED
  BY <1>1, AtomicStep, JunosInvariant, BackedInvariant, PTL
     DEF JunosSpec, ImplementsAtomicWrite, Atomic!AtomicSpec

=============================================================================
