-------------------------- MODULE CumulusEvpnProofs --------------------------
(***************************************************************************)
(* Proofs about CumulusEvpn, for any number of servers, VLANs, ports and      *)
(* requests.  The backend only ever takes steps of the client, so what        *)
(* NvueApplyProofs proves of nvue_apply holds inside every tool call.         *)
(***************************************************************************)
EXTENDS CumulusEvpn, TLAPS

\* What is proved of nvue_apply, for the changes that the backend asks for.
Client == INSTANCE NvueApplyProofs WITH Trees <- Tree

Reads == {"prerequisites", "records", "interfaces", "vnis", "bridge"}

\* Callers' requests, one at a time; only a provision reads the prerequisites, the VNIs
\* and the bridge; and nvue_apply is at work only inside a tool call.
AtWork ==
  \A s \in Servers :
    /\ req[s] \subseteq Provisions \cup Deletes /\ (at[s] # "idle" => req[s] # {})
    /\ \A q, r \in req[s] : q = r
    /\ \A t, u \in arg[s] : t = u
    /\ at[s] \in {"prerequisites", "vnis", "bridge"} => \A q \in req[s] : q.op = "provision"
    /\ pc[s] # "idle" => at[s] = "apply"

CumulusInv == CumulusTypeOK /\ AtWork /\ Client!NvueInv

\* What nvue_apply keeps to (NvueApplyProofs).
LEMMA ClientKeeps ==
  ASSUME Client!NvueInv
  PROVE  /\ NvueTypeOK
         /\ \A s \in Servers :
              /\ pc[s] # "idle" => said[s] = "none"
              /\ pc[s] = "post" => mine[s] = 0
              /\ pc[s] \in {"patch", "apply"} => mine[s] # 0 /\ state[mine[s]] = "pending"
              /\ pc[s] \in {"poll", "delete"} => mine[s] # 0
              /\ mine[s] # 0 => state[mine[s]] # "free" /\ \A u \in Servers \ {s} : mine[u] # mine[s]
              /\ said[s] = "ok" => mine[s] # 0 /\ state[mine[s]] = "applied"
<1>1. NvueTypeOK
  BY DEF Client!NvueInv, NvueTypeOK, Client!NvueTypeOK, RevIds, Client!RevIds,
         RevStates, Client!RevStates, Requests, Client!Requests
<1>2. QED
  BY <1>1 DEF Client!NvueInv, Client!AnswerLast, Client!HasRevision, Client!OwnRevision,
              Client!OkMeansApplied

\* A change leaves a configuration.
LEMMA MergeType ==
  ASSUME NEW c \in Config, NEW t \in Tree
  PROVE  Merge(c, t) \in Config
<1>1. /\ c.vlan \in [Vlans -> {None} \cup SUBSET Vnis] /\ c.evpn \in SUBSET Vnis
      /\ c.member \in [Ports -> {None} \cup SUBSET Vlans] /\ t.vlan \in Vlans /\ t.vni \in Vnis
  BY DEF Config, Tree
<1>2. ProvisionMerge(c, t) \in Config
  <2>1. [c.vlan EXCEPT ![t.vlan] = IF @ = None THEN {t.vni} ELSE @ \cup {t.vni}]
          \in [Vlans -> {None} \cup SUBSET Vnis]
    <3>1. (IF c.vlan[t.vlan] = None THEN {t.vni} ELSE c.vlan[t.vlan] \cup {t.vni}) \in SUBSET Vnis
      BY <1>1
    <3>2. QED
      BY <1>1, <3>1
  <2>2. ASSUME NEW p \in Ports
        PROVE  (IF p \notin t.ports THEN c.member[p]
                ELSE IF c.member[p] = None THEN {t.vlan} ELSE c.member[p] \cup {t.vlan})
                  \in {None} \cup SUBSET Vlans
    BY <1>1
  <2>3. QED
    BY <1>1, <2>1, <2>2 DEF ProvisionMerge, Config
<1>3. DeleteMerge(c, t) \in Config
  <2>1. [c.vlan EXCEPT ![t.vlan] = None] \in [Vlans -> {None} \cup SUBSET Vnis]
    BY <1>1
  <2>2. ASSUME NEW p \in Ports
        PROVE  (IF p \notin t.ports \/ c.member[p] = None THEN c.member[p] ELSE c.member[p] \ {t.vlan})
                  \in {None} \cup SUBSET Vlans
    BY <1>1
  <2>3. QED
    BY <1>1, <2>1, <2>2 DEF DeleteMerge, Config
<1>4. QED
  BY <1>2, <1>3 DEF Merge

\* A request is what its op says.
LEMMA RequestKinds ==
  ASSUME NEW q \in Provisions \cup Deletes
  PROVE  /\ q \in ProvisionRequest \cup DeleteRequest
         /\ q.op = "provision" => q \in Provisions /\ q \in ProvisionRequest
         /\ q.op = "delete" => q \in Deletes
         /\ q \in Provisions => q.op = "provision"
         /\ q \in Deletes => q.op = "delete"
  BY CumulusAssumption DEF ProvisionRequest, DeleteRequest

\* What a call asks nvue_apply for is a change.
LEMMA TreeType ==
  /\ \A q \in ProvisionRequest :
       [op |-> "provision", vlan |-> q.vlan, vni |-> q.vni, ports |-> {q.port}] \in Tree
  /\ \A member : \A recs \in [Vlans -> Vnis \cup {None}], v \in Vlans :
       recs[v] # None =>
         [op |-> "delete", vlan |-> v, vni |-> recs[v], ports |-> PortsToClear(v, member)] \in Tree
  BY DEF ProvisionRequest, Tree, PortsToClear

\* What a call asks nvue_apply for, from what it has read.
Asked(s, q, t) ==
  \/ /\ at[s] = "bridge" /\ Clear(s, q)
     /\ t = [op |-> "provision", vlan |-> q.vlan, vni |-> q.vni, ports |-> {q.port}]
  \/ /\ at[s] = "interfaces" /\ q.op = "delete"
     /\ \E v \in Vlans :
          /\ Matches(q, v, records[s])
          /\ t = [op |-> "delete", vlan |-> v, vni |-> records[s][v],
                  ports |-> PortsToClear(v, config.member)]

\* The last read of a provision or a delete ends the call, or goes on to nvue_apply.
LEMMA LastRead ==
  ASSUME CumulusInv, NEW s \in Servers, ReadInterfaces(s) \/ ReadBridge(s)
  PROVE  \/ Return(s, "other") /\ UNCHANGED nvue
         \/ /\ at[s] = "interfaces" /\ Continue(s, "vnis") /\ UNCHANGED <<nvue, records, evpns>>
            /\ ports' = [ports EXCEPT ![s] = config.member]
            /\ \E q \in req[s] : q.op = "provision"
         \/ \E t \in Tree : /\ Call(s, t) /\ Continue(s, "apply") /\ UNCHANGED gathered
                            /\ \E q \in req[s] : Asked(s, q, t)
<1>1. records[s] \in [Vlans -> Vnis \cup {None}] /\ req[s] \subseteq Provisions \cup Deletes
  BY DEF CumulusInv, CumulusTypeOK, AtWork
<1>2. CASE ReadInterfaces(s)
  <2>1. ASSUME NEW q \in req[s], NEW v \in Vlans, FirstMatch(q, v, records[s]),
               q.op = "delete",
               Submit(s, q, [op |-> "delete", vlan |-> v, vni |-> records[s][v],
                             ports |-> PortsToClear(v, config.member)])
        PROVE  \/ Return(s, "other") /\ UNCHANGED nvue
               \/ \E t \in Tree : /\ Call(s, t) /\ Continue(s, "apply") /\ UNCHANGED gathered
                                  /\ Asked(s, q, t)
    <3>1. records[s][v] # None /\ Matches(q, v, records[s])
      BY <2>1 DEF FirstMatch, Matches
    <3>2. PICK t \in Tree : t = [op |-> "delete", vlan |-> v, vni |-> records[s][v],
                               ports |-> PortsToClear(v, config.member)]
      BY <1>1, <3>1, TreeType
    <3>3. Asked(s, q, t)
      BY <1>2, <2>1, <3>1, <3>2 DEF Asked, ReadInterfaces
    <3>4. QED
      BY <2>1, <3>2, <3>3 DEF Submit
  <2>2. QED
    BY <1>2, <2>1 DEF ReadInterfaces
<1>3. CASE ReadBridge(s)
  <2>1. ASSUME NEW q \in req[s], Clear(s, q),
               Submit(s, q, [op |-> "provision", vlan |-> q.vlan, vni |-> q.vni, ports |-> {q.port}])
        PROVE  \/ Return(s, "other") /\ UNCHANGED nvue
               \/ \E t \in Tree : /\ Call(s, t) /\ Continue(s, "apply") /\ UNCHANGED gathered
                                  /\ Asked(s, q, t)
    <3>1. q \in ProvisionRequest
      BY <1>1, <1>3, RequestKinds DEF ReadBridge, CumulusInv, AtWork
    <3>2. PICK t \in Tree : t = [op |-> "provision", vlan |-> q.vlan, vni |-> q.vni, ports |-> {q.port}]
      BY <3>1, TreeType
    <3>3. Asked(s, q, t)
      BY <1>3, <2>1, <3>2 DEF Asked, ReadBridge
    <3>4. QED
      BY <2>1, <3>2, <3>3 DEF Submit
  <2>2. QED
    BY <1>3, <2>1 DEF ReadBridge
<1>4. QED
  BY <1>2, <1>3

\* The actions of the client are those that NvueApplyProofs is about.
LEMMA SameActions ==
  /\ \A s \in Servers : \A t \in Tree : Call(s, t) => Client!Call(s, t)
  /\ \A s \in Servers : /\ Post(s) => Client!Post(s)
                        /\ Patch(s) => Client!Patch(s)
                        /\ Apply(s) => Client!Apply(s)
                        /\ Poll(s) => Client!Poll(s)
                        /\ Cleanup(s) => Client!Cleanup(s)
                        /\ Crash(s) => Client!Crash(s)
  /\ \A n \in RevIds : Settle(n) => n \in Client!RevIds /\ Client!Settle(n)
<1> USE DEF Goto, Client!Goto, End, Client!End, Lost, Client!Lost, RevIds, Client!RevIds
<1>1. \A s \in Servers : \A t \in Tree : Call(s, t) => Client!Call(s, t)
  BY DEF Call, Client!Call
<1>2. ASSUME NEW s \in Servers PROVE Post(s) => Client!Post(s)
  BY DEF Post, Client!Post, NewRevision, Client!NewRevision
<1>3. ASSUME NEW s \in Servers PROVE Patch(s) => Client!Patch(s)
  BY DEF Patch, Client!Patch
<1>4. ASSUME NEW s \in Servers PROVE Apply(s) => Client!Apply(s)
  BY DEF Apply, Client!Apply
<1>5. ASSUME NEW s \in Servers PROVE Poll(s) => Client!Poll(s)
  BY DEF Poll, Client!Poll, Judge, Client!Judge, Waiting, Client!Waiting,
         APPLIED, Client!APPLIED, FAILED, Client!FAILED
<1>6. ASSUME NEW s \in Servers PROVE Cleanup(s) => Client!Cleanup(s)
  BY DEF Cleanup, Client!Cleanup, DeleteRevision, Client!DeleteRevision
<1>7. ASSUME NEW s \in Servers PROVE Crash(s) => Client!Crash(s)
  BY DEF Crash, Client!Crash
<1>8. \A n \in RevIds : Settle(n) => n \in Client!RevIds /\ Client!Settle(n)
  BY DEF Settle, Client!Settle
<1>9. QED
  BY <1>1, <1>2, <1>3, <1>4, <1>5, <1>6, <1>7, <1>8

\* Every step of the backend is one of nvue_apply or leaves it alone.
LEMMA ClientStep ==
  ASSUME CumulusInv, [CumulusNext]_vars
  PROVE  [Client!NvueNext]_(Client!nvueVars)
<1>1. ASSUME UNCHANGED nvue PROVE UNCHANGED Client!nvueVars
  BY <1>1 DEF nvue, Client!nvueVars
<1>2. ASSUME NEW s \in Servers, NEW t \in Tree, Call(s, t) PROVE Client!NvueNext
  BY <1>2, SameActions DEF Client!NvueNext
<1>3. ASSUME NEW s \in Servers, Provision(s) \/ Delete(s) PROVE UNCHANGED nvue
  BY <1>3 DEF Provision, Delete, Begin
<1>4. ASSUME NEW s \in Servers, \/ ReadFails(s) \/ Prerequisites(s) \/ ReadRecords(s)
                                \/ ReadVnis(s) \/ Finish(s)
      PROVE  UNCHANGED nvue
  BY <1>4 DEF ReadFails, Prerequisites, ReadRecords, ReadVnis, Finish
<1>5. ASSUME NEW s \in Servers, ReadInterfaces(s) \/ ReadBridge(s)
      PROVE  UNCHANGED nvue \/ \E t \in Tree : Call(s, t)
  <2>1. ASSUME UNCHANGED <<nvue, records, evpns>> PROVE UNCHANGED nvue
    BY <2>1
  <2>2. QED
    BY <1>5, <2>1, LastRead
<1>6. ASSUME NEW s \in Servers, Applying(s) PROVE Client!NvueNext
  BY <1>6, SameActions DEF Applying, Client!NvueNext
<1>7. ASSUME NEW n \in RevIds, Settle(n) PROVE Client!NvueNext
  BY <1>7, SameActions DEF Client!NvueNext
<1>8. CASE UNCHANGED vars
  BY <1>1, <1>8 DEF vars
<1>9. QED
  BY <1>1, <1>2, <1>3, <1>4, <1>5, <1>6, <1>7, <1>8 DEF CumulusNext, Settled

\* The configuration is written by NVUE alone, and a configuration afterwards.
LEMMA ConfigStep ==
  ASSUME CumulusInv, [CumulusNext]_vars
  PROVE  /\ config' \in Config
         /\ config' = config \/ \E n \in RevIds : Settle(n) /\ UNCHANGED backend
<1>1. config \in Config /\ tree \in [RevIds -> SUBSET Tree]
  BY DEF CumulusInv, CumulusTypeOK, NvueTypeOK
<1>2. ASSUME NEW n \in RevIds, Settle(n) PROVE config' \in Config
  <2>1. config' = config \/ \E t \in tree[n] : config' = Merge(config, t)
    BY <1>2 DEF Settle
  <2>2. QED
    BY <1>1, <2>1, MergeType
<1>3. ASSUME UNCHANGED nvue PROVE UNCHANGED config
  BY <1>3 DEF nvue
<1>4. ASSUME NEW s \in Servers, NEW t, Call(s, t) PROVE UNCHANGED config
  BY <1>4 DEF Call
<1>5. ASSUME NEW s \in Servers, Applying(s) PROVE UNCHANGED config
  BY <1>5 DEF Applying, Post, NewRevision, Patch, Apply, Poll, Cleanup, DeleteRevision, Crash
<1>6. ASSUME NEW s \in Servers, \/ Provision(s) \/ Delete(s) \/ ReadFails(s) \/ Prerequisites(s)
                                \/ ReadRecords(s) \/ ReadVnis(s) \/ Finish(s)
      PROVE  UNCHANGED nvue
  BY <1>6 DEF Provision, Delete, Begin, ReadFails, Prerequisites, ReadRecords, ReadVnis, Finish
<1>7. ASSUME NEW s \in Servers, ReadInterfaces(s) \/ ReadBridge(s) PROVE UNCHANGED config
  <2>1. UNCHANGED nvue \/ UNCHANGED <<nvue, records, evpns>> \/ \E t \in Tree : Call(s, t)
    BY <1>7, LastRead
  <2>2. QED
    BY <1>3, <1>4, <2>1
<1>8. CASE UNCHANGED vars
  BY <1>1, <1>3, <1>8 DEF vars
<1>9. QED
  BY <1>1, <1>2, <1>3, <1>5, <1>6, <1>7, <1>8 DEF CumulusNext, Settled

\* What the steps of nvue_apply leave alone.
LEMMA ApplyingFrame ==
  ASSUME CumulusInv, NEW s \in Servers, Applying(s)
  PROVE  /\ at[s] = "apply" /\ UNCHANGED <<config, arg, backend, alone>>
         /\ \A u \in Servers \ {s} : pc'[u] = pc[u] /\ said'[u] = said[u] /\ mine'[u] = mine[u]
<1>1. /\ at[s] = "apply" /\ UNCHANGED <<backend, alone>>
      /\ Post(s) \/ Patch(s) \/ Apply(s) \/ Poll(s) \/ Cleanup(s) \/ Crash(s)
  BY DEF Applying
<1>2. /\ pc \in [Servers -> {"idle"} \cup Requests] /\ mine \in [Servers -> RevIds \cup {0}]
      /\ said \in [Servers -> {"none", "ok", "error", "other"}]
  BY DEF CumulusInv, CumulusTypeOK, NvueTypeOK
<1> USE DEF Goto, End
<1>3. UNCHANGED <<config, arg>>
  BY <1>1 DEF Post, NewRevision, Patch, Apply, Poll, Judge, Cleanup, DeleteRevision, Crash
<1>4. \A u \in Servers \ {s} : pc'[u] = pc[u]
  BY <1>1, <1>2 DEF Post, Patch, Apply, Poll, Judge, Cleanup, Crash
<1>5. \A u \in Servers \ {s} : said'[u] = said[u]
  BY <1>1, <1>2 DEF Post, Patch, Apply, Poll, Judge, Cleanup, Crash
<1>6. \A u \in Servers \ {s} : mine'[u] = mine[u]
  BY <1>1, <1>2 DEF Post, Patch, Apply, Poll, Cleanup, Crash
<1>7. QED
  BY <1>1, <1>3, <1>4, <1>5, <1>6

\* The types of the backend's own variables.
BackendOK ==
  /\ at \in [Servers -> {"idle", "apply"} \cup Reads]
  /\ req \in [Servers -> SUBSET (ProvisionRequest \cup DeleteRequest)]
  /\ records \in [Servers -> [Vlans -> Vnis \cup {None}]]
  /\ ports \in [Servers -> [Ports -> {None} \cup SUBSET Vlans]]
  /\ evpns \in [Servers -> SUBSET Vnis]
  /\ answer \in [Servers -> {"none", "ok", "error", "other"}]
  /\ alone \in [Servers -> BOOLEAN]

LEMMA TypeParts == CumulusTypeOK <=> NvueTypeOK /\ config \in Config /\ BackendOK
  BY DEF CumulusTypeOK, BackendOK, Reads

\* A call that returns keeps the types.
LEMMA ReturnTypes ==
  ASSUME BackendOK, NEW s \in Servers, NEW a \in {"none", "ok", "error", "other"}, Return(s, a)
  PROVE  BackendOK'
<1>1. NoRecords \in [Vlans -> Vnis \cup {None}] /\ NoPorts \in [Ports -> {None} \cup SUBSET Vlans]
  BY DEF NoRecords, NoPorts
<1>2. QED
  BY <1>1 DEF BackendOK, Return

\* Every step keeps the types of the backend.
LEMMA BackendStep ==
  ASSUME CumulusInv, [CumulusNext]_vars
  PROVE  BackendOK'
<1>1. /\ BackendOK /\ config \in Config
      /\ \A s \in Servers : said[s] \in {"none", "ok", "error", "other"}
  BY TypeParts DEF CumulusInv, NvueTypeOK
<1>2. ASSUME NEW s \in Servers, Provision(s) \/ Delete(s) PROVE BackendOK'
  <2>1. ASSUME NEW q \in Provisions \cup Deletes, NEW next \in {"idle", "prerequisites", "records"},
               NEW a \in {"none", "other"}, Begin(s, q, next, a)
        PROVE  BackendOK'
    <3>1. q \in ProvisionRequest \cup DeleteRequest
      BY RequestKinds
    <3>2. QED
      BY <1>1, <2>1, <3>1 DEF Begin, BackendOK, gathered, Reads
  <2>2. QED
    BY <1>2, <2>1 DEF Provision, Delete
<1>3. ASSUME NEW s \in Servers, NEW next \in {"apply"} \cup Reads, Continue(s, next), UNCHANGED gathered
      PROVE  BackendOK'
  BY <1>1, <1>3 DEF Continue, BackendOK, gathered
<1>4. ASSUME NEW s \in Servers, ReadFails(s) \/ Prerequisites(s) \/ Finish(s) PROVE BackendOK'
  <2>1. \/ \E a \in {"none", "ok", "error", "other"} : Return(s, a)
        \/ Continue(s, "records") /\ UNCHANGED gathered
    BY <1>1, <1>4 DEF ReadFails, Prerequisites, Finish
  <2>2. QED
    BY <1>1, <1>3, <2>1, ReturnTypes DEF Reads
<1>5. ASSUME NEW s \in Servers, ReadRecords(s) PROVE BackendOK'
  BY <1>1, <1>5 DEF ReadRecords, Continue, BackendOK, Reads
<1>6. ASSUME NEW s \in Servers, ReadVnis(s) PROVE BackendOK'
  BY <1>1, <1>6 DEF ReadVnis, Continue, BackendOK, Reads, Config
<1>7. ASSUME NEW s \in Servers, ReadInterfaces(s) \/ ReadBridge(s) PROVE BackendOK'
  <2>1. CASE Return(s, "other")
    BY <1>1, <2>1, ReturnTypes
  <2>2. CASE /\ Continue(s, "vnis") /\ UNCHANGED <<records, evpns>>
             /\ ports' = [ports EXCEPT ![s] = config.member]
    BY <1>1, <2>2 DEF Continue, BackendOK, Reads, Config
  <2>3. CASE Continue(s, "apply") /\ UNCHANGED gathered
    BY <1>3, <2>3
  <2>4. QED
    BY <1>7, <2>1, <2>2, <2>3, LastRead
<1>8. ASSUME UNCHANGED backend, alone' \in [Servers -> BOOLEAN] PROVE BackendOK'
  BY <1>1, <1>8 DEF backend, gathered, BackendOK
<1>9. ASSUME NEW s \in Servers, Applying(s) PROVE BackendOK'
  BY <1>1, <1>8, <1>9 DEF Applying, BackendOK
<1>10. CASE UNCHANGED vars
  BY <1>1, <1>8, <1>10 DEF vars, BackendOK
<1>11. ASSUME NEW n \in RevIds, Settled(n) PROVE BackendOK'
  <2>1. alone' \in [Servers -> BOOLEAN]
    BY <1>1, <1>11 DEF Settled, BackendOK
  <2>2. QED
    BY <1>8, <1>11, <2>1 DEF Settled
<1>12. QED
  BY <1>2, <1>4, <1>5, <1>6, <1>7, <1>8, <1>9, <1>10, <1>11 DEF CumulusNext

\* Every step preserves AtWork.
LEMMA AtWorkStep ==
  ASSUME CumulusInv, [CumulusNext]_vars
  PROVE  AtWork'
<1>1. /\ AtWork /\ BackendOK /\ pc \in [Servers -> {"idle"} \cup Requests]
      /\ arg \in [Servers -> SUBSET Tree]
  BY TypeParts DEF CumulusInv, NvueTypeOK
<1>2. ASSUME NEW s \in Servers, NEW q \in Provisions \cup Deletes, NEW next, NEW a, Begin(s, q, next, a),
             next \in {"prerequisites", "vnis", "bridge"} => q.op = "provision"
      PROVE  AtWork'
  <2>1. /\ at[s] = "idle" /\ at'[s] = next /\ req'[s] = {q} /\ UNCHANGED <<pc, arg>>
        /\ \A u \in Servers \ {s} : at'[u] = at[u] /\ req'[u] = req[u]
    BY <1>1, <1>2 DEF Begin, BackendOK, nvue
  <2>2. QED
    BY <1>1, <1>2, <2>1 DEF AtWork
<1>3. ASSUME NEW s \in Servers, Provision(s) \/ Delete(s) PROVE AtWork'
  <2>1. ASSUME NEW q \in Provisions, NEW next, NEW a, Begin(s, q, next, a) PROVE AtWork'
    BY <1>2, <2>1, RequestKinds
  <2>2. ASSUME NEW q \in Deletes, Begin(s, q, "records", "none") PROVE AtWork'
    BY <1>2, <2>2
  <2>3. QED
    BY <1>3, <2>1, <2>2 DEF Provision, Delete
\* A step of the backend that leaves nvue_apply alone.
<1>4. ASSUME NEW s \in Servers, NEW next \in {"idle"} \cup Reads, at' = [at EXCEPT ![s] = next],
             UNCHANGED <<pc, arg, req>>, pc[s] = "idle", at[s] # "idle",
             next \in {"prerequisites", "vnis", "bridge"} => \A q \in req[s] : q.op = "provision"
      PROVE  AtWork'
  <2>1. at'[s] = next /\ \A u \in Servers \ {s} : at'[u] = at[u]
    BY <1>1, <1>4 DEF BackendOK
  <2>2. QED
    BY <1>1, <1>4, <2>1 DEF AtWork
<1>5. ASSUME NEW s \in Servers, at[s] \in Reads PROVE pc[s] = "idle"
  BY <1>1, <1>5 DEF AtWork, Reads
<1>6. ASSUME NEW s \in Servers, \/ ReadFails(s) \/ Prerequisites(s) \/ ReadRecords(s)
                                \/ ReadVnis(s) \/ Finish(s)
      PROVE  AtWork'
  <2>1. /\ pc[s] = "idle" /\ UNCHANGED <<pc, arg, req>> /\ at[s] # "idle"
        /\ at' = [at EXCEPT ![s] = "idle"] \/ at' = [at EXCEPT ![s] = "records"]
             \/ at' = [at EXCEPT ![s] = "interfaces"]
             \/ (at[s] = "vnis" /\ at' = [at EXCEPT ![s] = "bridge"])
    BY <1>5, <1>6
       DEF ReadFails, Prerequisites, ReadRecords, ReadVnis, Finish, Return, Continue, Reads, nvue
  <2>2. at[s] = "vnis" => \A q \in req[s] : q.op = "provision"
    BY <1>1 DEF AtWork
  <2>3. QED
    BY <1>4, <2>1, <2>2 DEF Reads
<1>7. ASSUME NEW s \in Servers, ReadInterfaces(s) \/ ReadBridge(s) PROVE AtWork'
  <2>1. pc[s] = "idle" /\ at[s] # "idle"
    BY <1>5, <1>7 DEF ReadInterfaces, ReadBridge, Reads
  <2>2. CASE Return(s, "other") /\ UNCHANGED nvue
    BY <1>4, <2>1, <2>2 DEF Return, Reads, nvue
  <2>3. CASE /\ Continue(s, "vnis") /\ UNCHANGED nvue
             /\ \E q \in req[s] : q.op = "provision"
    <3>1. \A q \in req[s] : q.op = "provision"
      BY <1>1, <2>3 DEF AtWork
    <3>2. QED
      BY <1>4, <2>1, <2>3, <3>1 DEF Continue, Reads, nvue
  <2>4. ASSUME NEW t \in Tree, Call(s, t), Continue(s, "apply") PROVE AtWork'
    <3>1. /\ at'[s] = "apply" /\ arg'[s] = {t} /\ UNCHANGED req
          /\ \A u \in Servers \ {s} : at'[u] = at[u] /\ arg'[u] = arg[u] /\ pc'[u] = pc[u]
      BY <1>1, <2>4 DEF Call, Continue, BackendOK
    <3>2. QED
      BY <1>1, <2>1, <3>1 DEF AtWork
  <2>5. QED
    BY <1>7, <2>2, <2>3, <2>4, LastRead
<1>8. ASSUME NEW s \in Servers, Applying(s) PROVE AtWork'
  <2>1. /\ at[s] = "apply" /\ UNCHANGED <<arg, at, req>>
        /\ \A u \in Servers \ {s} : pc'[u] = pc[u]
    BY <1>8, ApplyingFrame DEF backend
  <2>2. QED
    BY <1>1, <2>1 DEF AtWork
<1>9. ASSUME NEW n \in RevIds, Settle(n), UNCHANGED backend PROVE AtWork'
  BY <1>1, <1>9 DEF Settle, backend, AtWork
<1>10. CASE UNCHANGED vars
  BY <1>1, <1>10 DEF vars, nvue, backend, AtWork
<1>11. QED
  BY <1>3, <1>6, <1>7, <1>8, <1>9, <1>10 DEF CumulusNext, Settled

\* The initial states satisfy the invariant.
LEMMA CumulusInvInit == CumulusInit => CumulusInv
<1> SUFFICES ASSUME CumulusInit PROVE CumulusInv
  OBVIOUS
<1>1. Client!NvueInit
  BY DEF CumulusInit, NvueInit, Client!NvueInit, RevIds, Client!RevIds
<1>2. Client!NvueInv
  BY <1>1, Client!NvueInvInit, CumulusAssumption DEF Client!Requests
<1>3. BackendOK
  BY DEF CumulusInit, BackendOK, NoRecords, NoPorts
<1>4. config \in Config
  BY CumulusAssumption DEF CumulusInit, NvueInit
<1>5. AtWork
  BY DEF CumulusInit, NvueInit, AtWork
<1>6. QED
  BY <1>2, <1>3, <1>4, <1>5, TypeParts, ClientKeeps DEF CumulusInv

\* Every step preserves it.
LEMMA CumulusInvStep == CumulusInv /\ [CumulusNext]_vars => CumulusInv'
<1> SUFFICES ASSUME CumulusInv, [CumulusNext]_vars PROVE CumulusInv'
  OBVIOUS
<1>1. Client!NvueInv'
  <2>1. Client!NvueInv /\ [Client!NvueNext]_(Client!nvueVars)
    BY ClientStep DEF CumulusInv
  <2>2. QED
    BY <2>1, Client!NvueInvStep, CumulusAssumption DEF Client!Requests
<1>2. NvueTypeOK'
  BY <1>1 DEF Client!NvueInv, NvueTypeOK, Client!NvueTypeOK, RevIds, Client!RevIds,
              RevStates, Client!RevStates, Requests, Client!Requests
<1>3. CumulusTypeOK'
  BY <1>2, ConfigStep, BackendStep DEF CumulusTypeOK, BackendOK, Reads
<1>4. QED
  BY <1>1, <1>3, AtWorkStep DEF CumulusInv

\* CumulusInv holds throughout.
LEMMA CumulusInvariant == CumulusSpec => []CumulusInv
  BY CumulusInvInit, CumulusInvStep, PTL DEF CumulusSpec

\* The variables keep their types.
THEOREM CumulusTypeCorrect == CumulusSpec => []CumulusTypeOK
<1>1. CumulusInv => CumulusTypeOK
  BY DEF CumulusInv
<1>2. QED
  BY <1>1, CumulusInvariant, PTL

\* Tool calls use nvue_apply as it is meant to be used: every behaviour of the backend is one of
\* the client of NvueApply, with the merges of provision and delete for its changes.
THEOREM CallsAreNvueApply == CumulusSpec => Client!NvueSpec
<1>1. CumulusInit => Client!NvueInit
  BY DEF CumulusInit, NvueInit, Client!NvueInit, RevIds, Client!RevIds
<1>2. CumulusInv /\ [CumulusNext]_vars => [Client!NvueNext]_(Client!nvueVars)
  BY ClientStep
<1>3. QED
  BY <1>1, <1>2, CumulusInvariant, PTL DEF CumulusSpec, Client!NvueSpec

\* So no tool call, whichever of its requests fails, leaves a pending revision behind on the
\* switch, unless its POST or DELETE went unanswered or its server was killed.
THEOREM ToolsLeaveNothingPending == CumulusSpec => []NoRevisionLeft
<1>1. Client!NvueSpec => []Client!NoRevisionLeft
  BY Client!NothingLeftPending, CumulusAssumption DEF Client!Requests
<1>2. Client!NoRevisionLeft => NoRevisionLeft
  BY DEF Client!NoRevisionLeft, NoRevisionLeft, RevIds, Client!RevIds
<1>3. QED
  BY <1>1, <1>2, CallsAreNvueApply, PTL

-----------------------------------------------------------------------------
(* What nvue_apply does to the revisions, whatever gets lost.  As long as no     *)
(* answer to its last two requests is lost, no deadline passes and no server is   *)
(* killed, nothing is applied behind the back of a call (nvue_late_apply shows     *)
(* what is, else).                                                               *)

AnswersArrive == Faults \cap {"apply", "poll"} = {} /\ ~MayExpire /\ ~Crashes

\* What a step of nvue_apply does to the revision of its call.
Created(s) ==
  /\ pc[s] = "post" /\ pc' = [pc EXCEPT ![s] = "patch"] /\ UNCHANGED <<said, tree>>
  /\ \E n \in RevIds : /\ state[n] = "free" /\ state' = [state EXCEPT ![n] = "pending"]
                       /\ mine' = [mine EXCEPT ![s] = n]
NotCreated(s) ==
  /\ pc[s] = "post" /\ pc' = [pc EXCEPT ![s] = "idle"] /\ said' = [said EXCEPT ![s] = "error"]
  /\ UNCHANGED <<tree, mine>>
  /\ \/ state' = state
     \/ \E n \in RevIds : state[n] = "free" /\ state' = [state EXCEPT ![n] = "pending"]
Staged(s) ==
  /\ pc[s] = "patch" /\ UNCHANGED <<said, state, mine>>
  /\ tree' = tree \/ tree' = [tree EXCEPT ![mine[s]] = arg[s]]
  /\ \/ pc' = [pc EXCEPT ![s] = "delete"]
     \/ pc' = [pc EXCEPT ![s] = "apply"] /\ tree' = [tree EXCEPT ![mine[s]] = arg[s]]
Submitted(s) ==
  /\ pc[s] = "apply" /\ UNCHANGED <<said, tree, mine>>
  /\ \/ pc' = [pc EXCEPT ![s] = "delete"] /\ state' = state
     \/ /\ pc' = [pc EXCEPT ![s] = "poll"] \/ (pc' = [pc EXCEPT ![s] = "delete"] /\ ~AnswersArrive)
        /\ state' = [state EXCEPT ![mine[s]] = "applying"]
Polled(s) ==
  /\ pc[s] = "poll" /\ UNCHANGED <<state, tree, mine>>
  /\ \/ pc' = [pc EXCEPT ![s] = "poll"] /\ said' = said
     \/ /\ AnswersArrive => state[mine[s]] = "failed"
        /\ pc' = [pc EXCEPT ![s] = "delete"] /\ said' = said
     \/ /\ state[mine[s]] = "applied"
        /\ pc' = [pc EXCEPT ![s] = "idle"] /\ said' = [said EXCEPT ![s] = "ok"]
Cleaned(s) ==
  /\ pc[s] = "delete" /\ pc' = [pc EXCEPT ![s] = "idle"] /\ said' = [said EXCEPT ![s] = "error"]
  /\ UNCHANGED <<tree, mine>>
  /\ \/ state' = state
     \/ state[mine[s]] # "applied" /\ state' = [state EXCEPT ![mine[s]] = "deleted"]
Killed(s) ==
  /\ ~AnswersArrive /\ pc' = [pc EXCEPT ![s] = "idle"]
  /\ UNCHANGED <<said, state, tree, mine>>

\* The types that the steps of nvue_apply are about.
LEMMA ClientTypes ==
  ASSUME CumulusInv
  PROVE  /\ state \in [RevIds -> RevStates] /\ tree \in [RevIds -> SUBSET Tree]
         /\ pc \in [Servers -> {"idle"} \cup Requests] /\ arg \in [Servers -> SUBSET Tree]
         /\ mine \in [Servers -> RevIds \cup {0}]
         /\ said \in [Servers -> {"none", "ok", "error", "other"}]
         /\ 0 \notin RevIds
         /\ at \in [Servers -> {"idle", "apply"} \cup Reads]
  BY TypeParts DEF CumulusInv, NvueTypeOK, BackendOK, RevIds

LEMMA ApplyingCases ==
  ASSUME CumulusInv, NEW s \in Servers, Applying(s)
  PROVE  \/ Created(s) \/ NotCreated(s) \/ Staged(s) \/ Submitted(s)
         \/ Polled(s) \/ Cleaned(s) \/ Killed(s)
<1> USE DEF Goto, End, Lost
<1>1. Post(s) => Created(s) \/ NotCreated(s)
  BY DEF Post, NewRevision, Created, NotCreated
<1>2. Patch(s) => Staged(s)
  BY DEF Patch, Staged
<1>3. Apply(s) => Submitted(s)
  BY DEF Apply, Submitted, AnswersArrive
<1>4. Poll(s) => Polled(s)
  <2>1. ASSUME NEW a \in {state[mine[s]], "none"}, Judge(s, a)
        PROVE  \/ pc' = [pc EXCEPT ![s] = "poll"] /\ said' = said
               \/ /\ a = "failed" \/ MayExpire
                  /\ pc' = [pc EXCEPT ![s] = "delete"] /\ said' = said
               \/ /\ a = "applied"
                  /\ pc' = [pc EXCEPT ![s] = "idle"] /\ said' = [said EXCEPT ![s] = "ok"]
    BY <2>1 DEF Judge, APPLIED, FAILED
  <2>2. ASSUME Poll(s), Judge(s, state[mine[s]]) PROVE Polled(s)
    BY <2>1, <2>2 DEF Poll, Polled, AnswersArrive
  <2>3. ASSUME Poll(s), Lost("poll"), Judge(s, "none") PROVE Polled(s)
    BY <2>1, <2>3 DEF Poll, Polled, AnswersArrive
  <2>4. ASSUME Poll(s), Lost("poll"), Goto(s, "delete") PROVE Polled(s)
    BY <2>4 DEF Poll, Polled, AnswersArrive
  <2>5. QED
    BY <2>2, <2>3, <2>4 DEF Poll
<1>5. Cleanup(s) => Cleaned(s)
  BY DEF Cleanup, DeleteRevision, Cleaned
<1>6. Crash(s) => Killed(s)
  BY DEF Crash, Killed, AnswersArrive
<1>7. QED
  BY <1>1, <1>2, <1>3, <1>4, <1>5, <1>6 DEF Applying

\* A step of one call leaves the revisions of the others alone, and those of nobody that are
\* not free.
LEMMA OtherRevisions ==
  ASSUME CumulusInv, NEW s \in Servers, Applying(s)
  PROVE  /\ \A u \in Servers \ {s} : mine[u] # 0 =>
              state'[mine[u]] = state[mine[u]] /\ tree'[mine[u]] = tree[mine[u]]
         /\ \A n \in RevIds : \/ state'[n] = state[n]
                              \/ state[n] = "free" /\ state'[n] = "pending"
                              \/ n = mine[s] /\ Submitted(s) /\ state'[n] = "applying"
                              \/ n = mine[s] /\ Cleaned(s) /\ state'[n] = "deleted"
         /\ \A n \in RevIds : tree'[n] = tree[n] \/ (n = mine[s] /\ Staged(s) /\ tree'[n] = arg[s])
<1>1. \A u \in Servers : mine[u] # 0 =>
        state[mine[u]] # "free" /\ \A w \in Servers \ {u} : mine[w] # mine[u]
  BY ClientKeeps DEF CumulusInv
<1>2. pc[s] \in {"patch", "apply", "poll", "delete"} => mine[s] \in RevIds
  BY ClientTypes, ClientKeeps DEF CumulusInv
<1>3. CASE Created(s)
  BY <1>1, <1>3, ClientTypes DEF Created
<1>4. CASE NotCreated(s)
  BY <1>1, <1>4, ClientTypes DEF NotCreated
<1>5. CASE Staged(s)
  <2>1. /\ state' = state
        /\ \A n \in RevIds : tree'[n] = tree[n] \/ (n = mine[s] /\ tree'[n] = arg[s])
    BY <1>2, <1>5, ClientTypes DEF Staged
  <2>2. QED
    BY <1>1, <1>5, <2>1, ClientTypes
<1>6. CASE Submitted(s)
  <2>1. /\ tree' = tree
        /\ \A n \in RevIds : state'[n] = state[n] \/ (n = mine[s] /\ state'[n] = "applying")
    BY <1>2, <1>6, ClientTypes DEF Submitted
  <2>2. QED
    BY <1>1, <1>6, <2>1, ClientTypes
<1>7. CASE Polled(s) \/ Killed(s)
  BY <1>7 DEF Polled, Killed
<1>8. CASE Cleaned(s)
  <2>1. /\ tree' = tree
        /\ \A n \in RevIds : state'[n] = state[n] \/ (n = mine[s] /\ state'[n] = "deleted")
    BY <1>2, <1>8, ClientTypes DEF Cleaned
  <2>2. QED
    BY <1>1, <1>8, <2>1, ClientTypes
<1>9. QED
  BY <1>3, <1>4, <1>5, <1>6, <1>7, <1>8, ApplyingCases

\* A tool call reaches server s and goes on to `next`, or is refused at once.
Called(s) ==
  \E q \in Provisions \cup Deletes :
    \/ Begin(s, q, "idle", "other") \/ Begin(s, q, "prerequisites", "none") \/ Begin(s, q, "records", "none")

\* Every step is one of these.
LEMMA StepCases ==
  ASSUME CumulusInv, [CumulusNext]_vars
  PROVE  \/ UNCHANGED vars
         \/ \E s \in Servers :
              \/ Called(s)
              \/ Applying(s)
              \/ Finish(s)
              \/ at[s] \in Reads /\ Return(s, "other") /\ UNCHANGED nvue
              \/ at[s] \in Reads /\ UNCHANGED nvue /\ \E next \in Reads : Continue(s, next)
              \/ /\ at[s] \in Reads /\ Continue(s, "apply")
                 /\ \E t \in Tree, q \in req[s] : Call(s, t) /\ Asked(s, q, t)
         \/ \E n \in RevIds : Settle(n) /\ UNCHANGED backend
<1>1. ASSUME NEW s \in Servers, Provision(s) \/ Delete(s) PROVE Called(s)
  BY <1>1 DEF Provision, Delete, Called
<1>2. ASSUME NEW s \in Servers, ReadFails(s) \/ Prerequisites(s) \/ ReadRecords(s) \/ ReadVnis(s)
      PROVE  /\ at[s] \in Reads /\ UNCHANGED nvue
             /\ Return(s, "other") \/ \E next \in Reads : Continue(s, next)
  BY <1>2 DEF ReadFails, Prerequisites, ReadRecords, ReadVnis, Reads
<1>3. ASSUME NEW s \in Servers, ReadInterfaces(s) \/ ReadBridge(s)
      PROVE  /\ at[s] \in Reads
             /\ \/ Return(s, "other") /\ UNCHANGED nvue
                \/ UNCHANGED nvue /\ \E next \in Reads : Continue(s, next)
                \/ Continue(s, "apply") /\ \E t \in Tree, q \in req[s] : Call(s, t) /\ Asked(s, q, t)
  <2>1. at[s] \in Reads
    BY <1>3 DEF ReadInterfaces, ReadBridge, Reads
  <2>2. \/ Return(s, "other") /\ UNCHANGED nvue
        \/ UNCHANGED nvue /\ Continue(s, "vnis")
        \/ \E t \in Tree, q \in req[s] : Call(s, t) /\ Asked(s, q, t) /\ Continue(s, "apply")
    BY <1>3, LastRead
  <2>3. QED
    BY <2>1, <2>2 DEF Reads
<1>4. QED
  BY <1>1, <1>2, <1>3 DEF CumulusNext, Settled

\* The variables of nvue_apply that a step of the backend leaves alone.
LEMMA Unmoved ==
  ASSUME UNCHANGED nvue
  PROVE  UNCHANGED <<config, state, tree, pc, arg, mine, said>>
  BY DEF nvue

\* A revision is done if it is applied.
Done(s) == mine[s] # 0 /\ state[mine[s]] = "applied"

\* No step of nvue_apply makes a revision applied, or an applied one something else.
LEMMA DoneApplying ==
  ASSUME CumulusInv, NEW s \in Servers, Applying(s), NEW u \in Servers
  PROVE  Done(u)' <=> Done(u)
<1>1. CASE u # s
  <2>1. mine'[u] = mine[u]
    BY <1>1, ApplyingFrame
  <2>2. mine[u] # 0 => state'[mine[u]] = state[mine[u]]
    BY <1>1, OtherRevisions
  <2>3. QED
    BY <2>1, <2>2 DEF Done
<1>2. CASE u = s
  <2>1. /\ pc[s] = "post" => mine[s] = 0
        /\ pc[s] \in {"patch", "apply"} => state[mine[s]] = "pending"
        /\ pc[s] \in {"patch", "apply", "poll", "delete"} => mine[s] \in RevIds /\ mine[s] # 0
    BY ClientTypes, ClientKeeps DEF CumulusInv
  <2>2. CASE Created(s)
    <3>1. mine[s] = 0 /\ state'[mine'[s]] = "pending"
      BY <2>1, <2>2, ClientTypes DEF Created
    <3>2. QED
      BY <1>2, <3>1 DEF Done
  <2>3. CASE NotCreated(s)
    <3>1. mine[s] = 0 /\ mine' = mine
      BY <2>1, <2>3 DEF NotCreated
    <3>2. QED
      BY <1>2, <3>1 DEF Done
  <2>4. CASE Staged(s) \/ Polled(s) \/ Killed(s)
    BY <1>2, <2>4 DEF Staged, Polled, Killed, Done
  <2>5. CASE Submitted(s)
    <3>1. state[mine[s]] = "pending" /\ mine' = mine /\ state'[mine[s]] \in {"pending", "applying"}
      BY <2>1, <2>5, ClientTypes DEF Submitted
    <3>2. QED
      BY <1>2, <3>1 DEF Done
  <2>6. CASE Cleaned(s)
    <3>1. mine' = mine /\ mine[s] \in RevIds
      BY <2>1, <2>6 DEF Cleaned
    <3>2. state'[mine[s]] = state[mine[s]] \/ (state[mine[s]] # "applied" /\ state'[mine[s]] = "deleted")
      BY <2>6, <3>1, ClientTypes DEF Cleaned
    <3>3. QED
      BY <1>2, <3>1, <3>2 DEF Done
  <2>7. QED
    BY <2>2, <2>3, <2>4, <2>5, <2>6, ApplyingCases
<1>3. QED
  BY <1>1, <1>2

\* The revision of a call holds its change from its apply request on and as long as it is being
\* applied, be the call over or not; and nvue_apply answers nothing but OK and Error.
Carried ==
  \A s \in Servers :
    /\ pc[s] \in {"apply", "poll"} => tree[mine[s]] = arg[s]
    /\ mine[s] # 0 /\ state[mine[s]] = "applying" => tree[mine[s]] = arg[s]
    /\ said[s] # "other"

LEMMA CarriedStep ==
  ASSUME CumulusInv, Carried, [CumulusNext]_vars
  PROVE  Carried'
<1>1. ASSUME UNCHANGED nvue PROVE Carried'
  BY <1>1, Unmoved DEF Carried
<1>2. ASSUME NEW s \in Servers, Called(s) PROVE Carried'
  BY <1>1, <1>2 DEF Called, Begin
<1>3. ASSUME NEW s \in Servers, Finish(s) PROVE Carried'
  BY <1>1, <1>3 DEF Finish
<1>4. ASSUME NEW s \in Servers, NEW t \in Tree, Call(s, t) PROVE Carried'
  <2>1. /\ pc'[s] = "post" /\ mine'[s] = 0 /\ said'[s] = "none"
        /\ \A u \in Servers \ {s} : /\ pc'[u] = pc[u] /\ mine'[u] = mine[u] /\ said'[u] = said[u]
                                    /\ arg'[u] = arg[u]
        /\ UNCHANGED <<state, tree>>
    BY <1>4, ClientTypes DEF Call
  <2>2. QED
    BY <2>1 DEF Carried
<1>5. ASSUME NEW s \in Servers, Applying(s) PROVE Carried'
  <2>1. /\ arg' = arg
        /\ \A u \in Servers \ {s} : pc'[u] = pc[u] /\ said'[u] = said[u] /\ mine'[u] = mine[u]
    BY <1>5, ApplyingFrame
  <2>2. ASSUME NEW u \in Servers \ {s}
        PROVE  /\ pc'[u] \in {"apply", "poll"} => tree'[mine'[u]] = arg'[u]
               /\ mine'[u] # 0 /\ state'[mine'[u]] = "applying" => tree'[mine'[u]] = arg'[u]
               /\ said'[u] # "other"
    <3>1. pc[u] \in {"apply", "poll"} => mine[u] # 0
      BY ClientKeeps DEF CumulusInv
    <3>2. QED
      BY <1>5, <2>1, <3>1, OtherRevisions DEF Carried
  <2>3. /\ pc[s] \in {"apply", "poll"} => tree[mine[s]] = arg[s]
        /\ mine[s] # 0 /\ state[mine[s]] = "applying" => tree[mine[s]] = arg[s]
        /\ said[s] # "other"
        /\ pc[s] = "post" => mine[s] = 0
        /\ pc[s] \in {"patch", "apply"} => state[mine[s]] = "pending"
        /\ pc[s] \in {"patch", "apply", "poll", "delete"} => mine[s] \in RevIds /\ mine[s] # 0
    BY ClientTypes, ClientKeeps DEF CumulusInv, Carried
  <2>4. /\ pc'[s] \in {"apply", "poll"} => tree'[mine'[s]] = arg'[s]
        /\ mine'[s] # 0 /\ state'[mine'[s]] = "applying" => tree'[mine'[s]] = arg'[s]
        /\ said'[s] # "other"
    <3>1. CASE Created(s)
      <4>1. pc'[s] = "patch" /\ state'[mine'[s]] = "pending" /\ said' = said
        BY <3>1, ClientTypes DEF Created
      <4>2. QED
        BY <2>3, <4>1
    <3>2. CASE NotCreated(s)
      <4>1. pc'[s] = "idle" /\ said'[s] = "error" /\ mine'[s] = 0
        BY <2>3, <3>2, ClientTypes DEF NotCreated
      <4>2. QED
        BY <4>1
    <3>3. CASE Staged(s)
      <4>1. /\ pc'[s] = "delete" \/ (pc'[s] = "apply" /\ tree'[mine[s]] = arg[s])
            /\ state'[mine'[s]] = "pending" /\ said' = said /\ mine' = mine
        BY <2>3, <3>3, ClientTypes DEF Staged
      <4>2. QED
        BY <2>1, <2>3, <4>1
    <3>4. CASE Submitted(s)
      <4>1. said' = said /\ mine' = mine /\ tree' = tree /\ pc[s] = "apply"
        BY <3>4 DEF Submitted
      <4>2. QED
        BY <2>1, <2>3, <4>1
    <3>5. CASE Polled(s)
      <4>1. /\ said'[s] \in {said[s], "ok"} /\ mine' = mine /\ tree' = tree /\ state' = state
            /\ pc[s] = "poll"
        BY <3>5, ClientTypes DEF Polled
      <4>2. QED
        BY <2>1, <2>3, <4>1
    <3>6. CASE Cleaned(s)
      <4>1. /\ pc'[s] = "idle" /\ said'[s] = "error" /\ mine' = mine /\ tree' = tree
            /\ state'[mine[s]] = state[mine[s]] \/ state'[mine[s]] = "deleted"
        BY <2>3, <3>6, ClientTypes DEF Cleaned
      <4>2. QED
        BY <2>1, <2>3, <4>1
    <3>7. CASE Killed(s)
      <4>1. pc'[s] = "idle" /\ said' = said /\ mine' = mine /\ tree' = tree /\ state' = state
        BY <3>7, ClientTypes DEF Killed
      <4>2. QED
        BY <2>1, <2>3, <4>1
    <3>8. QED
      BY <1>5, <3>1, <3>2, <3>3, <3>4, <3>5, <3>6, <3>7, ApplyingCases
  <2>5. QED
    BY <2>2, <2>4 DEF Carried
<1>6. ASSUME NEW n \in RevIds, Settle(n) PROVE Carried'
  <2>1. UNCHANGED <<tree, pc, arg, mine, said>>
    BY <1>6 DEF Settle
  <2>2. \A m \in RevIds : state'[m] = "applying" => state[m] = "applying"
    BY <1>6, ClientTypes DEF Settle
  <2>3. QED
    BY <2>1, <2>2, ClientTypes DEF Carried
<1>7. CASE UNCHANGED vars
  BY <1>1, <1>7 DEF vars
<1>8. QED
  BY <1>1, <1>2, <1>3, <1>4, <1>5, <1>6, <1>7, StepCases

LEMMA CarriedInvariant == CumulusSpec => [](CumulusInv /\ Carried)
<1>1. CumulusInit => Carried
  <2>1. ASSUME CumulusInit, NEW s \in Servers PROVE pc[s] = "idle" /\ mine[s] = 0 /\ said[s] = "none"
    BY <2>1 DEF CumulusInit, NvueInit
  <2>2. QED
    BY <2>1 DEF Carried
<1>2. CumulusInv /\ Carried /\ [CumulusNext]_vars => Carried'
  BY CarriedStep
<1>3. QED
  BY <1>1, <1>2, CumulusInvariant, PTL DEF CumulusSpec

\* NVUE settles one revision: all of the change staged in it, or nothing.
LEMMA SettleEffect ==
  ASSUME CumulusInv, NEW n \in RevIds, Settle(n)
  PROVE  /\ state[n] = "applying" /\ UNCHANGED <<tree, pc, arg, mine, said>>
         /\ \A m \in RevIds \ {n} : state'[m] = state[m]
         /\ \/ state'[n] = "failed" /\ config' = config
            \/ state'[n] = "applied" /\ \E t \in tree[n] : config' = Merge(config, t)
  BY ClientTypes DEF Settle

\* A change that a call has asked nvue_apply for, or that waits in a revision.
Given(t) == (\E s \in Servers : t \in arg[s]) \/ (\E n \in RevIds : t \in tree[n])

\* The configuration changes by what a revision holds that is being applied; and every change
\* was asked for by a call, from what it had read.
LEMMA ChangesStep ==
  ASSUME CumulusInv, [CumulusNext]_vars
  PROVE  /\ \/ config' = config
            \/ \E n \in RevIds : \E t \in Tree : /\ state[n] = "applying" /\ t \in tree[n]
                                              /\ config' = Merge(config, t)
         /\ \A t : Given(t)' => \/ Given(t)
                                \/ config' = config /\ \E s \in Servers : \E q \in req[s] : Asked(s, q, t)
<1>1. \/ config' = config
      \/ \E n \in RevIds : \E t \in Tree : /\ state[n] = "applying" /\ t \in tree[n]
                                        /\ config' = Merge(config, t)
  <2>1. ASSUME NEW n \in RevIds, Settle(n)
        PROVE  \/ config' = config
               \/ \E t \in Tree : state[n] = "applying" /\ t \in tree[n] /\ config' = Merge(config, t)
    BY <2>1, SettleEffect, ClientTypes
  <2>2. QED
    BY <2>1, ConfigStep
<1>2. ASSUME UNCHANGED <<arg, tree>>, NEW t, Given(t)' PROVE Given(t)
  BY <1>2 DEF Given
<1>3. ASSUME NEW s \in Servers, Called(s) \/ Finish(s) \/ UNCHANGED nvue PROVE UNCHANGED <<arg, tree>>
  BY <1>3, Unmoved DEF Called, Begin, Finish
<1>4. ASSUME NEW s \in Servers, Applying(s), NEW t, Given(t)' PROVE Given(t)
  <2>1. arg' = arg
    BY <1>4, ApplyingFrame
  <2>2. \A n \in RevIds : tree'[n] = tree[n] \/ tree'[n] = arg[s]
    BY <1>4, OtherRevisions
  <2>3. QED
    BY <1>4, <2>1, <2>2 DEF Given
<1>5. ASSUME NEW s \in Servers, NEW u \in Tree, NEW q \in req[s], Call(s, u), Asked(s, q, u), NEW t, Given(t)'
      PROVE  Given(t) \/ (config' = config /\ Asked(s, q, t))
  <2>1. /\ config' = config /\ tree' = tree /\ arg'[s] = {u}
        /\ \A w \in Servers \ {s} : arg'[w] = arg[w]
    BY <1>5, ClientTypes DEF Call
  <2>2. t = u \/ Given(t)
    BY <1>5, <2>1 DEF Given
  <2>3. QED
    BY <1>5, <2>1, <2>2
<1>6. ASSUME NEW n \in RevIds, Settle(n) PROVE UNCHANGED <<arg, tree>>
  BY <1>6 DEF Settle
<1>7. ASSUME NEW t, Given(t)'
      PROVE  Given(t) \/ (config' = config /\ \E s \in Servers : \E q \in req[s] : Asked(s, q, t))
  <2>1. CASE UNCHANGED vars
    BY <1>2, <1>7, <2>1 DEF vars, nvue
  <2>2. CASE \E n \in RevIds : Settle(n) /\ UNCHANGED backend
    BY <1>2, <1>6, <1>7, <2>2
  <2>3. ASSUME NEW s \in Servers, Called(s) \/ Finish(s) \/ UNCHANGED nvue PROVE Given(t)
    BY <1>2, <1>3, <1>7, <2>3
  <2>4. ASSUME NEW s \in Servers, Applying(s) PROVE Given(t)
    BY <1>4, <1>7, <2>4
  <2>5. QED
    BY <1>5, <1>7, <2>1, <2>2, <2>3, <2>4, StepCases
<1>8. QED
  BY <1>1, <1>7

-----------------------------------------------------------------------------
(* The refinement of LateWrite, whatever gets lost.                           *)

\* What a step in which only server s moves does to the abstract calls.
LEMMA CallMove ==
  ASSUME NEW s \in Servers,
         \A u \in Servers \ {s} : at'[u] = at[u] /\ (Done(u)' <=> Done(u))
  PROVE  /\ at'[s] = "idle" => AtomicCall' = [AtomicCall EXCEPT ![s] = "idle"]
         /\ at'[s] = "apply" /\ Done(s)' => AtomicCall' = [AtomicCall EXCEPT ![s] = "written"]
         /\ at'[s] # "idle" /\ ~(at'[s] = "apply" /\ Done(s)') => AtomicCall' = [AtomicCall EXCEPT ![s] = "open"]
         /\ at[s] = "idle" => AtomicCall[s] = "idle"
         /\ at[s] = "apply" /\ Done(s) => AtomicCall[s] = "written"
         /\ at[s] # "idle" /\ ~(at[s] = "apply" /\ Done(s)) => AtomicCall[s] = "open"
<1>1. \A u \in Servers : AtomicCall[u] = IF at[u] = "idle" THEN "idle"
                                         ELSE IF at[u] = "apply" /\ Done(u) THEN "written" ELSE "open"
  BY DEF AtomicCall, Done
<1>2. \A u \in Servers : AtomicCall'[u] = IF at'[u] = "idle" THEN "idle"
                                          ELSE IF at'[u] = "apply" /\ Done(u)' THEN "written" ELSE "open"
  BY DEF AtomicCall, Done
<1>3. \A u \in Servers \ {s} : AtomicCall'[u] = AtomicCall[u]
  BY <1>1, <1>2
<1>4. ASSUME NEW x, AtomicCall'[s] = x PROVE AtomicCall' = [AtomicCall EXCEPT ![s] = x]
  <2>1. AtomicCall = [u \in Servers |-> AtomicCall[u]]
    BY DEF AtomicCall
  <2>2. AtomicCall' = [u \in Servers |-> AtomicCall'[u]]
    BY DEF AtomicCall
  <2>3. QED
    BY <1>3, <1>4, <2>1, <2>2
<1>5. QED
  BY <1>1, <1>2, <1>4

\* A revision on its way belongs to no call at work, if its call is over.
IsLate(n) == state[n] = "applying" /\ \A s \in Servers : at[s] = "apply" => mine[s] # n

LEMMA LateMove ==
  /\ (\A n \in RevIds : IsLate(n)' <=> IsLate(n)) => LateRevisions' = LateRevisions
  /\ \A m \in RevIds : (\A n \in RevIds : IsLate(n)' <=> IsLate(n) \/ n = m) =>
       LateRevisions' = LateRevisions \cup {m}
  /\ \A m \in RevIds : (\A n \in RevIds : IsLate(n)' <=> IsLate(n) /\ n # m) =>
       LateRevisions' = LateRevisions \ {m}
<1>1. LateRevisions = {n \in RevIds : IsLate(n)}
  BY DEF LateRevisions, IsLate
<1>2. LateRevisions' = {n \in RevIds : IsLate(n)'}
  BY DEF LateRevisions, IsLate
<1>3. QED
  BY <1>1, <1>2

\* No step of nvue_apply makes a revision late, or one that is late anything else.
LEMMA LateApplying ==
  ASSUME CumulusInv, NEW s \in Servers, Applying(s)
  PROVE  LateRevisions' = LateRevisions
<1>1. at[s] = "apply" /\ at' = at /\ \A u \in Servers \ {s} : mine'[u] = mine[u]
  BY ApplyingFrame DEF backend
<1>2. mine'[s] = mine[s] \/ (mine[s] = 0 /\ state[mine'[s]] = "free")
  <2>1. Created(s) => mine[s] = 0 /\ state[mine'[s]] = "free"
    BY ClientTypes, ClientKeeps DEF Created, CumulusInv
  <2>2. QED
    BY <2>1, ApplyingCases DEF NotCreated, Staged, Submitted, Polled, Cleaned, Killed
<1>3. ASSUME NEW n \in RevIds PROVE IsLate(n)' <=> IsLate(n)
  <2>1. CASE n = mine[s]
    <3>1. mine'[s] = n
      BY <1>2, <2>1, ClientTypes
    <3>2. QED
      BY <1>1, <2>1, <3>1 DEF IsLate
  <2>2. CASE n # mine[s]
    <3>1. state'[n] = state[n] \/ (state[n] = "free" /\ state'[n] = "pending")
      BY <2>2, OtherRevisions
    <3>2. state[n] = "applying" => n # mine'[s]
      BY <1>2, <2>2
    <3>3. QED
      BY <1>1, <2>2, <3>1, <3>2 DEF IsLate
  <2>3. QED
    BY <2>1, <2>2
<1>4. QED
  BY <1>3, LateMove

\* Every step is a step of LateWrite, or changes nothing it sees.
LEMMA LateStep ==
  ASSUME CumulusInv, Carried, [CumulusNext]_vars
  PROVE  [Late!LateNext]_(Late!absVars)
<1> DEFINE Same == UNCHANGED Late!absVars
<1>1. /\ at \in [Servers -> {"idle", "apply"} \cup Reads]
      /\ answer \in [Servers -> {"none", "ok", "error", "other"}]
  BY TypeParts DEF CumulusInv, BackendOK
\* The steps outside nvue_apply: server s moves on to `next`.
<1>2. ASSUME NEW s \in Servers, UNCHANGED nvue, NEW next \in {"idle"} \cup Reads,
             at' = [at EXCEPT ![s] = next]
      PROVE  /\ config' = config /\ at'[s] = next /\ next # "apply"
             /\ \A u \in Servers \ {s} : at'[u] = at[u] /\ (Done(u)' <=> Done(u))
             /\ at[s] # "apply" => LateRevisions' = LateRevisions
  <2>1. UNCHANGED <<config, state, mine>>
    BY <1>2, Unmoved
  <2>2. at'[s] = next /\ next # "apply" /\ \A u \in Servers \ {s} : at'[u] = at[u]
    BY <1>1, <1>2 DEF Reads
  <2>3. at[s] # "apply" => LateRevisions' = LateRevisions
    BY <2>1, <2>2, LateMove DEF IsLate
  <2>4. QED
    BY <2>1, <2>2, <2>3 DEF Done
<1>3. ASSUME NEW s \in Servers, NEW q, NEW next \in {"idle", "prerequisites", "records"},
             NEW a \in {"none", "other"}, (next = "idle") <=> (a = "other"), Begin(s, q, next, a)
      PROVE  Late!LateNext
  <2>1. /\ at[s] = "idle" /\ at' = [at EXCEPT ![s] = next] /\ UNCHANGED nvue
        /\ answer' = [answer EXCEPT ![s] = a]
    BY <1>3 DEF Begin
  <2>2. /\ config' = config /\ at'[s] = next /\ next # "apply" /\ LateRevisions' = LateRevisions
        /\ \A u \in Servers \ {s} : at'[u] = at[u] /\ (Done(u)' <=> Done(u))
    BY <1>2, <2>1 DEF Reads
  <2>3. CASE next = "idle"
    <3>1. AtomicCall' = [AtomicCall EXCEPT ![s] = "idle"] /\ AtomicCall[s] = "idle"
      BY <2>1, <2>2, <2>3, CallMove
    <3>2. AtomicCall' = AtomicCall
      BY <3>1 DEF AtomicCall
    <3>3. Late!Refuse(s)
      BY <1>3, <2>1, <2>2, <2>3, <3>1, <3>2 DEF Late!Refuse
    <3>4. QED
      BY <3>3 DEF Late!LateNext
  <2>4. CASE next # "idle"
    <3>1. AtomicCall' = [AtomicCall EXCEPT ![s] = "open"] /\ AtomicCall[s] = "idle"
      BY <2>1, <2>2, <2>4, CallMove
    <3>2. Late!Open(s)
      BY <1>3, <2>1, <2>2, <2>4, <3>1 DEF Late!Open
    <3>3. QED
      BY <3>2 DEF Late!LateNext
  <2>5. QED
    BY <2>3, <2>4
<1>4. ASSUME NEW s \in Servers, Called(s) PROVE Late!LateNext
  BY <1>3, <1>4 DEF Called
<1>5. ASSUME NEW s \in Servers, at[s] \in Reads, Return(s, "other"), UNCHANGED nvue
      PROVE  Late!LateNext
  <2>1. at' = [at EXCEPT ![s] = "idle"] /\ answer' = [answer EXCEPT ![s] = "other"]
    BY <1>5 DEF Return
  <2>2. /\ config' = config /\ at'[s] = "idle" /\ LateRevisions' = LateRevisions
        /\ \A u \in Servers \ {s} : at'[u] = at[u] /\ (Done(u)' <=> Done(u))
    BY <1>2, <1>5, <2>1 DEF Reads
  <2>3. AtomicCall' = [AtomicCall EXCEPT ![s] = "idle"] /\ AtomicCall[s] = "open"
    BY <1>5, <2>2, CallMove DEF Reads
  <2>4. Late!Return(s)
    BY <2>1, <2>2, <2>3 DEF Late!Return
  <2>5. QED
    BY <2>4 DEF Late!LateNext
<1>6. ASSUME NEW s \in Servers, at[s] \in Reads, UNCHANGED nvue, NEW next \in Reads, Continue(s, next)
      PROVE  Same
  <2>1. at' = [at EXCEPT ![s] = next] /\ answer' = answer
    BY <1>6 DEF Continue
  <2>2. /\ config' = config /\ at'[s] = next /\ LateRevisions' = LateRevisions
        /\ \A u \in Servers \ {s} : at'[u] = at[u] /\ (Done(u)' <=> Done(u))
    BY <1>2, <1>6, <2>1 DEF Reads
  <2>3. AtomicCall' = [AtomicCall EXCEPT ![s] = "open"] /\ AtomicCall[s] = "open"
    BY <1>6, <2>2, CallMove DEF Reads
  <2>4. AtomicCall' = AtomicCall
    BY <2>3 DEF AtomicCall
  <2>5. QED
    BY <2>1, <2>2, <2>4 DEF Late!absVars
\* A new revision is not there yet, so nothing becomes late, and no call is written.
<1>7. ASSUME NEW s \in Servers, at[s] \in Reads, NEW t \in Tree, Call(s, t), Continue(s, "apply")
      PROVE  Same
  <2>1. /\ at'[s] = "apply" /\ answer' = answer /\ config' = config /\ state' = state /\ mine'[s] = 0
        /\ \A u \in Servers \ {s} : at'[u] = at[u] /\ mine'[u] = mine[u]
    BY <1>1, <1>7, ClientTypes DEF Call, Continue
  <2>2. ~Done(s)' /\ \A u \in Servers \ {s} : at'[u] = at[u] /\ (Done(u)' <=> Done(u))
    BY <2>1 DEF Done
  <2>3. AtomicCall' = [AtomicCall EXCEPT ![s] = "open"] /\ AtomicCall[s] = "open"
    BY <1>7, <2>1, <2>2, CallMove DEF Reads
  <2>4. AtomicCall' = AtomicCall
    BY <2>3 DEF AtomicCall
  <2>5. LateRevisions' = LateRevisions
    <3>1. \A n \in RevIds : n # 0
      BY ClientTypes
    <3>2. \A n \in RevIds : IsLate(n)' <=> IsLate(n)
      BY <1>7, <2>1, <3>1 DEF IsLate, Reads
    <3>3. QED
      BY <3>2, LateMove
  <2>6. QED
    BY <2>1, <2>4, <2>5 DEF Late!absVars
<1>8. ASSUME NEW s \in Servers, Applying(s) PROVE Same
  <2>1. UNCHANGED <<config, at, answer>>
    BY <1>8, ApplyingFrame DEF backend
  <2>2. \A u \in Servers : Done(u)' <=> Done(u)
    BY <1>8, DoneApplying
  <2>3. AtomicCall' = AtomicCall
    BY <2>1, <2>2 DEF AtomicCall, Done
  <2>4. QED
    BY <1>8, <2>1, <2>3, LateApplying DEF Late!absVars
\* A call that is over leaves its revision behind, if NVUE is still applying it.
<1>9. ASSUME NEW s \in Servers, Finish(s) PROVE Late!LateNext
  <2>1. /\ at[s] = "apply" /\ UNCHANGED nvue /\ at' = [at EXCEPT ![s] = "idle"]
        /\ answer' = [answer EXCEPT ![s] = said[s]]
    BY <1>9 DEF Finish, Return
  <2>2. /\ config' = config /\ at'[s] = "idle" /\ UNCHANGED <<state, mine>>
        /\ \A u \in Servers \ {s} : at'[u] = at[u] /\ (Done(u)' <=> Done(u))
    BY <1>2, <2>1, Unmoved
  <2>3. /\ AtomicCall' = [AtomicCall EXCEPT ![s] = "idle"]
        /\ Done(s) => AtomicCall[s] = "written"
        /\ ~Done(s) => AtomicCall[s] = "open"
    BY <2>1, <2>2, CallMove
  <2>4. /\ said[s] \in {"none", "ok", "error"}
        /\ said[s] = "ok" => Done(s)
        /\ mine[s] # 0 => \A u \in Servers \ {s} : mine[u] # mine[s]
    BY ClientTypes, ClientKeeps DEF CumulusInv, Done, Carried
  <2>5. CASE mine[s] # 0 /\ state[mine[s]] = "applying"
    <3>1. mine[s] \in RevIds /\ ~Done(s)
      BY <2>5, ClientTypes DEF Done
    <3>2. \A n \in RevIds : IsLate(n)' <=> IsLate(n) \/ n = mine[s]
      BY <2>1, <2>2, <2>4, <2>5 DEF IsLate
    <3>3. LateRevisions' = LateRevisions \cup {mine[s]}
      BY <3>1, <3>2, LateMove
    <3>4. mine[s] \notin LateRevisions
      BY <2>1 DEF LateRevisions
    <3>5. Late!GiveUp(s)
      BY <2>1, <2>2, <2>3, <2>4, <3>1, <3>3, <3>4 DEF Late!GiveUp
    <3>6. QED
      BY <3>5 DEF Late!LateNext
  <2>6. CASE ~(mine[s] # 0 /\ state[mine[s]] = "applying")
    <3>1. \A n \in RevIds : IsLate(n)' <=> IsLate(n)
      BY <2>1, <2>2, <2>6, ClientTypes DEF IsLate
    <3>2. LateRevisions' = LateRevisions
      BY <3>1, LateMove
    <3>3. CASE said[s] = "ok"
      <4>1. Late!Return(s)
        BY <2>1, <2>2, <2>3, <2>4, <3>2, <3>3 DEF Late!Return
      <4>2. QED
        BY <4>1 DEF Late!LateNext
    <3>4. CASE said[s] # "ok"
      <4>1. AtomicCall[s] # "idle"
        BY <2>3
      <4>2. Late!GiveUp(s)
        BY <2>1, <2>2, <2>3, <2>4, <3>2, <3>4, <4>1 DEF Late!GiveUp
      <4>3. QED
        BY <4>2 DEF Late!LateNext
    <3>5. QED
      BY <3>3, <3>4
  <2>7. QED
    BY <2>5, <2>6
\* NVUE settles the revision of a call at work, or one whose call is over.
<1>10. ASSUME NEW n \in RevIds, Settle(n), UNCHANGED backend PROVE Late!LateNext \/ Same
  <2>1. /\ UNCHANGED <<mine, at, answer>> /\ state[n] = "applying"
        /\ \A m \in RevIds \ {n} : state'[m] = state[m]
        /\ state'[n] \in {"failed", "applied"}
        /\ state'[n] = "failed" => config' = config
        /\ state'[n] = "applied" => OneTreeMerged(config, config')
    BY <1>10, SettleEffect, ClientTypes DEF backend, OneTreeMerged
  <2>2. CASE \E s \in Servers : at[s] = "apply" /\ mine[s] = n
    <3>1. PICK s \in Servers : at[s] = "apply" /\ mine[s] = n
      BY <2>2
    <3>2. n # 0 /\ \A u \in Servers \ {s} : mine[u] # n
      BY <3>1, ClientKeeps, ClientTypes DEF CumulusInv
    <3>3. \A u \in Servers \ {s} : at'[u] = at[u] /\ (Done(u)' <=> Done(u))
      BY <2>1, <3>2, ClientTypes DEF Done
    <3>4. ~Done(s) /\ (Done(s)' <=> state'[n] = "applied")
      BY <2>1, <3>1, <3>2 DEF Done
    <3>5. LateRevisions' = LateRevisions
      <4>1. \A m \in RevIds : IsLate(m)' <=> IsLate(m)
        BY <2>1, <3>1 DEF IsLate
      <4>2. QED
        BY <4>1, LateMove
    <3>6. CASE state'[n] = "failed"
      <4>1. AtomicCall' = AtomicCall
        BY <2>1, <3>3, <3>4, <3>6 DEF AtomicCall, Done
      <4>2. QED
        BY <2>1, <3>5, <3>6, <4>1 DEF Late!absVars
    <3>7. CASE state'[n] = "applied"
      <4>1. AtomicCall' = [AtomicCall EXCEPT ![s] = "written"] /\ AtomicCall[s] = "open"
        BY <2>1, <3>1, <3>3, <3>4, <3>7, CallMove
      <4>2. Late!Write(s)
        BY <2>1, <3>5, <3>7, <4>1 DEF Late!Write
      <4>3. QED
        BY <4>2 DEF Late!LateNext
    <3>8. QED
      BY <2>1, <3>6, <3>7
  <2>3. CASE ~\E s \in Servers : at[s] = "apply" /\ mine[s] = n
    <3>1. \A u \in Servers : at[u] = "apply" => (Done(u)' <=> Done(u))
      BY <2>1, <2>3, ClientTypes DEF Done
    <3>2. AtomicCall' = AtomicCall
      BY <2>1, <3>1 DEF AtomicCall, Done
    <3>3. LateRevisions' = LateRevisions \ {n}
      <4>1. \A m \in RevIds : IsLate(m)' <=> IsLate(m) /\ m # n
        BY <2>1 DEF IsLate
      <4>2. QED
        BY <4>1, LateMove
    <3>4. n \in LateRevisions
      BY <2>1, <2>3 DEF LateRevisions
    <3>5. Late!Settle(n)
      BY <2>1, <3>2, <3>3, <3>4 DEF Late!Settle
    <3>6. QED
      BY <3>5 DEF Late!LateNext
  <2>4. QED
    BY <2>2, <2>3
<1>11. CASE UNCHANGED vars
  <2>1. UNCHANGED <<config, state, mine, at, answer>>
    BY <1>11 DEF vars, nvue, backend
  <2>2. AtomicCall' = AtomicCall /\ LateRevisions' = LateRevisions
    BY <2>1 DEF AtomicCall, LateRevisions
  <2>3. QED
    BY <2>1, <2>2 DEF Late!absVars
<1>12. QED
  BY <1>4, <1>5, <1>6, <1>7, <1>8, <1>9, <1>10, <1>11, StepCases

\* Whatever answer is lost, whichever deadline passes and whenever a process is killed: a tool
\* call changes the switch at most once, by one whole revision; one that said OK did it before
\* (backend.py:475, 507), one that was refused never does, and one that NVUE carries out after
\* its call is over belongs to a call that answered Error or nothing.
THEOREM CumulusWritesOnceOrLate == CumulusSpec => ImplementsLateWrite
<1>1. CumulusInit => Late!LateInit
  <2> SUFFICES ASSUME CumulusInit PROVE Late!LateInit
    OBVIOUS
  <2>1. /\ \A s \in Servers : at[s] = "idle"
        /\ \A n \in RevIds : state[n] # "applying"
        /\ answer = [s \in Servers |-> "none"]
    BY DEF CumulusInit, NvueInit
  <2>2. AtomicCall = [s \in Servers |-> "idle"] /\ LateRevisions = {}
    BY <2>1 DEF AtomicCall, LateRevisions
  <2>3. QED
    BY <2>1, <2>2 DEF Late!LateInit
<1>2. CumulusInv /\ Carried /\ [CumulusNext]_vars => [Late!LateNext]_(Late!absVars)
  BY LateStep
<1>3. QED
  BY <1>1, <1>2, CarriedInvariant, PTL DEF CumulusSpec, ImplementsLateWrite, Late!LateSpec

-----------------------------------------------------------------------------
(* Nothing is applied behind the back of a call, if the answers arrive.        *)

\* A revision that is being applied belongs to the call that waits for it.
Awaited == \A n \in RevIds : state[n] = "applying" => \E s \in Servers : pc[s] = "poll" /\ mine[s] = n

\* nvue_apply that has returned has said how it went; and before it says so, what failed is
\* not applied.
Ordered ==
  \A s \in Servers :
    /\ at[s] = "apply" /\ pc[s] = "idle" => said[s] \in {"ok", "error"}
    /\ (pc[s] = "delete" \/ said[s] = "error") /\ mine[s] # 0 => state[mine[s]] \notin {"applying", "applied"}

Orderly == Carried /\ Awaited /\ Ordered

\* A step of nvue_apply keeps Orderly.
LEMMA OrderlyApplying ==
  ASSUME CumulusInv, Orderly, AnswersArrive, NEW s \in Servers, Applying(s)
  PROVE  Orderly'
<1>1. /\ at[s] = "apply" /\ UNCHANGED <<config, arg, at>>
      /\ \A u \in Servers \ {s} : pc'[u] = pc[u] /\ said'[u] = said[u] /\ mine'[u] = mine[u]
  BY ApplyingFrame DEF backend
<1>2. Awaited'
  <2> SUFFICES ASSUME NEW n \in RevIds, state'[n] = "applying"
               PROVE  \E u \in Servers : pc'[u] = "poll" /\ mine'[u] = n
    BY DEF Awaited
  <2>1. CASE n = mine[s] /\ Submitted(s) /\ state'[n] = "applying" /\ state[n] # "applying"
    <3>1. pc'[s] = "poll" /\ mine'[s] = n
      BY <2>1, ClientTypes DEF Submitted
    <3>2. QED
      BY <3>1
  <2>2. CASE state[n] = "applying"
    <3>1. PICK u \in Servers : pc[u] = "poll" /\ mine[u] = n
      BY <2>2 DEF Orderly, Awaited
    <3>2. CASE u # s
      BY <1>1, <3>1, <3>2
    <3>3. CASE u = s
      <4>1. Polled(s)
        BY <3>1, <3>3, ApplyingCases DEF Created, NotCreated, Staged, Submitted, Cleaned, Killed
      <4>2. pc' = [pc EXCEPT ![s] = "poll"] /\ mine' = mine
        BY <2>2, <3>1, <3>3, <4>1 DEF Polled
      <4>3. QED
        BY <3>1, <3>3, <4>2, ClientTypes
    <3>4. QED
      BY <3>2, <3>3
  <2>3. QED
    BY <2>1, <2>2, OtherRevisions
<1>3. ASSUME NEW u \in Servers \ {s}
      PROVE  /\ at'[u] = "apply" /\ pc'[u] = "idle" => said'[u] \in {"ok", "error"}
             /\ (pc'[u] = "delete" \/ said'[u] = "error") /\ mine'[u] # 0 =>
                  state'[mine'[u]] \notin {"applying", "applied"}
  BY <1>1, OtherRevisions DEF Orderly, Ordered
<1>4. /\ (pc[s] = "delete" \/ said[s] = "error") /\ mine[s] # 0 => state[mine[s]] \notin {"applying", "applied"}
      /\ pc[s] # "idle" => said[s] = "none"
      /\ pc[s] = "post" => mine[s] = 0
      /\ pc[s] \in {"patch", "apply"} => state[mine[s]] = "pending"
      /\ pc[s] \in {"patch", "apply", "poll", "delete"} => mine[s] \in RevIds
  BY ClientTypes, ClientKeeps DEF CumulusInv, Orderly, Ordered
<1>5. /\ pc'[s] = "idle" => said'[s] \in {"ok", "error"}
      /\ (pc'[s] = "delete" \/ said'[s] = "error") /\ mine'[s] # 0 =>
           state'[mine'[s]] \notin {"applying", "applied"}
  <2>1. CASE Created(s)
    <3>1. pc'[s] = "patch" /\ said'[s] = "none"
      BY <1>4, <2>1, ClientTypes DEF Created
    <3>2. QED
      BY <3>1
  <2>2. CASE NotCreated(s)
    <3>1. pc'[s] = "idle" /\ said'[s] = "error" /\ mine'[s] = 0
      BY <1>4, <2>2, ClientTypes DEF NotCreated
    <3>2. QED
      BY <3>1
  <2>3. CASE Staged(s)
    <3>1. pc'[s] \in {"delete", "apply"} /\ state'[mine'[s]] = "pending" /\ said'[s] = "none"
      BY <1>4, <2>3, ClientTypes DEF Staged
    <3>2. QED
      BY <3>1
  <2>4. CASE Submitted(s)
    <3>1. /\ pc'[s] = "poll" \/ (pc'[s] = "delete" /\ state'[mine'[s]] = "pending")
          /\ said'[s] = "none"
      BY <1>4, <2>4, ClientTypes DEF Submitted
    <3>2. QED
      BY <3>1
  <2>5. CASE Polled(s)
    <3>1. \/ pc'[s] = "poll" /\ said'[s] = "none"
          \/ pc'[s] = "delete" /\ state'[mine'[s]] = "failed" /\ said'[s] = "none"
          \/ pc'[s] = "idle" /\ said'[s] = "ok"
      BY <1>4, <2>5, ClientTypes DEF Polled
    <3>2. QED
      BY <3>1
  <2>6. CASE Cleaned(s)
    <3>1. pc'[s] = "idle" /\ said'[s] = "error" /\ mine' = mine /\ pc[s] = "delete"
      BY <2>6, ClientTypes DEF Cleaned
    <3>2. state'[mine[s]] = state[mine[s]] \/ state'[mine[s]] = "deleted"
      BY <1>4, <2>6, <3>1, ClientTypes DEF Cleaned
    <3>3. QED
      BY <1>4, <3>1, <3>2
  <2>7. ~Killed(s)
    BY DEF Killed
  <2>8. QED
    BY <2>1, <2>2, <2>3, <2>4, <2>5, <2>6, <2>7, ApplyingCases
<1>6. Carried'
  <2>1. CumulusNext
    BY DEF CumulusNext
  <2>2. QED
    BY <2>1, CarriedStep DEF Orderly
<1>7. QED
  BY <1>1, <1>2, <1>3, <1>5, <1>6 DEF Orderly, Ordered

\* NVUE settles only revisions that a call waits for.
LEMMA SettleCases ==
  ASSUME CumulusInv, Orderly, NEW n \in RevIds, Settle(n)
  PROVE  /\ state[n] = "applying" /\ UNCHANGED <<tree, pc, arg, mine, said>>
         /\ \A m \in RevIds \ {n} : state'[m] = state[m]
         /\ \E s \in Servers :
              /\ pc[s] = "poll" /\ at[s] = "apply" /\ mine[s] = n
              /\ \A u \in Servers \ {s} : mine[u] # n
              /\ \/ state'[n] = "failed" /\ config' = config
                 \/ state'[n] = "applied" /\ \E t \in arg[s] : config' = Merge(config, t)
<1>1. PICK s \in Servers : pc[s] = "poll" /\ mine[s] = n
  BY DEF Orderly, Awaited, Settle
<1>2. at[s] = "apply" /\ tree[n] = arg[s] /\ \A u \in Servers \ {s} : mine[u] # n
  <2>1. at[s] = "apply"
    BY <1>1 DEF CumulusInv, AtWork
  <2>2. tree[n] = arg[s]
    BY <1>1 DEF Orderly, Carried
  <2>3. \A u \in Servers \ {s} : mine[u] # n
    BY <1>1, ClientKeeps, ClientTypes DEF CumulusInv
  <2>4. QED
    BY <2>1, <2>2, <2>3
<1>3. QED
  BY <1>1, <1>2, SettleEffect

\* Every step keeps Orderly.
LEMMA OrderlyStep ==
  ASSUME CumulusInv, Orderly, AnswersArrive, [CumulusNext]_vars
  PROVE  Orderly'
<1>0. Carried'
  BY CarriedStep DEF Orderly
<1>1. ASSUME UNCHANGED nvue, NEW s \in Servers, NEW next \in {"idle"} \cup Reads, at' = [at EXCEPT ![s] = next]
      PROVE  Orderly'
  <2>1. UNCHANGED <<config, state, tree, pc, arg, mine, said>>
    BY <1>1, Unmoved
  <2>2. \A u \in Servers : at'[u] = "apply" => at[u] = "apply"
    BY <1>1, ClientTypes DEF Reads
  <2>3. Awaited'
    BY <2>1 DEF Orderly, Awaited
  <2>4. Ordered'
    BY <2>1, <2>2 DEF Orderly, Ordered
  <2>5. QED
    BY <1>0, <2>3, <2>4 DEF Orderly
<1>2. ASSUME NEW s \in Servers, Called(s) PROVE Orderly'
  BY <1>1, <1>2 DEF Called, Begin, Reads
<1>3. ASSUME NEW s \in Servers, Finish(s) PROVE Orderly'
  BY <1>1, <1>3 DEF Finish, Return
<1>4. ASSUME NEW s \in Servers, Return(s, "other"), UNCHANGED nvue PROVE Orderly'
  BY <1>1, <1>4 DEF Return
<1>5. ASSUME NEW s \in Servers, UNCHANGED nvue, NEW next \in Reads, Continue(s, next) PROVE Orderly'
  BY <1>1, <1>5 DEF Continue
<1>6. ASSUME NEW s \in Servers, NEW t \in Tree, Call(s, t), Continue(s, "apply") PROVE Orderly'
  <2>1. /\ pc[s] = "idle" /\ pc'[s] = "post" /\ mine'[s] = 0 /\ said'[s] = "none"
        /\ \A u \in Servers \ {s} : /\ pc'[u] = pc[u] /\ mine'[u] = mine[u] /\ said'[u] = said[u]
                                    /\ arg'[u] = arg[u] /\ at'[u] = at[u]
        /\ UNCHANGED <<state, tree>>
    BY <1>6, ClientTypes DEF Call, Continue
  <2>2. Awaited'
    BY <2>1 DEF Orderly, Awaited
  <2>3. Ordered'
    BY <2>1 DEF Orderly, Ordered
  <2>4. QED
    BY <1>0, <2>2, <2>3 DEF Orderly
<1>7. ASSUME NEW n \in RevIds, Settle(n), UNCHANGED backend PROVE Orderly'
  <2>1. PICK s \in Servers : pc[s] = "poll" /\ mine[s] = n /\ state'[n] \in {"failed", "applied"}
    BY <1>7, SettleCases
  <2>2. /\ UNCHANGED <<tree, pc, arg, mine, said, at>>
        /\ \A m \in RevIds \ {n} : state'[m] = state[m]
    BY <1>7, SettleCases DEF backend
  <2>3. \A u \in Servers : (pc[u] = "delete" \/ said[u] = "error") /\ mine[u] # 0 => mine[u] \in RevIds \ {n}
    BY <2>1, ClientTypes, ClientKeeps DEF CumulusInv
  <2>4. Awaited'
    BY <2>1, <2>2 DEF Orderly, Awaited
  <2>5. Ordered'
    BY <2>2, <2>3 DEF Orderly, Ordered
  <2>6. QED
    BY <1>0, <2>4, <2>5 DEF Orderly
<1>8. CASE UNCHANGED vars
  <2>1. UNCHANGED <<state, tree, pc, arg, mine, said, at>>
    BY <1>8 DEF vars, nvue, backend
  <2>2. QED
    BY <1>0, <2>1 DEF Orderly, Awaited, Ordered
<1>9. QED
  BY <1>2, <1>3, <1>4, <1>5, <1>6, <1>7, <1>8, OrderlyApplying, StepCases

LEMMA OrderlyInvariant ==
  ASSUME AnswersArrive
  PROVE  CumulusSpec => [](CumulusInv /\ Orderly)
<1>1. CumulusInit => Orderly
  <2>1. CumulusInit => /\ \A s \in Servers : /\ at[s] = "idle" /\ pc[s] = "idle" /\ mine[s] = 0
                                            /\ said[s] = "none"
                       /\ \A n \in RevIds : state[n] = "free"
    BY DEF CumulusInit, NvueInit
  <2>2. QED
    BY <2>1 DEF Orderly, Carried, Awaited, Ordered
<1>2. CumulusInv /\ Orderly /\ [CumulusNext]_vars => Orderly'
  BY OrderlyStep
<1>3. QED
  BY <1>1, <1>2, CumulusInvariant, PTL DEF CumulusSpec

-----------------------------------------------------------------------------
(* The refinement of AtomicWrite, if the answers arrive.                        *)

\* Every step is a step of AtomicWrite, or changes nothing it sees.
LEMMA AtomicStep ==
  ASSUME CumulusInv, Orderly, AnswersArrive, [CumulusNext]_vars
  PROVE  [Atomic!AtomicNext]_(Atomic!absVars)
<1> DEFINE Same == UNCHANGED Atomic!absVars
<1>1. /\ BackendOK /\ config \in Config
      /\ at \in [Servers -> {"idle", "apply"} \cup Reads]
      /\ answer \in [Servers -> {"none", "ok", "error", "other"}]
  BY TypeParts DEF CumulusInv, BackendOK
\* The steps outside nvue_apply: server s moves on to `next`.
<1>2. ASSUME NEW s \in Servers, UNCHANGED nvue, NEW next \in {"idle", "apply"} \cup Reads,
             at' = [at EXCEPT ![s] = next]
      PROVE  /\ config' = config /\ at'[s] = next
             /\ \A u \in Servers \ {s} : at'[u] = at[u]
             /\ \A u \in Servers : Done(u)' <=> Done(u)
  BY <1>1, <1>2, Unmoved DEF Done
<1>3. ASSUME NEW s \in Servers, NEW q, NEW next \in {"idle", "prerequisites", "records"},
             NEW a \in {"none", "other"}, (next = "idle") <=> (a = "other"), Begin(s, q, next, a)
      PROVE  Atomic!AtomicNext
  <2>1. /\ at[s] = "idle" /\ at' = [at EXCEPT ![s] = next] /\ UNCHANGED nvue
        /\ answer' = [answer EXCEPT ![s] = a]
    BY <1>3 DEF Begin
  <2>2. /\ config' = config /\ at'[s] = next /\ next # "apply"
        /\ \A u \in Servers \ {s} : at'[u] = at[u] /\ (Done(u)' <=> Done(u))
    BY <1>2, <2>1 DEF Reads
  <2>3. CASE next = "idle"
    <3>1. AtomicCall' = [AtomicCall EXCEPT ![s] = "idle"] /\ AtomicCall[s] = "idle"
      BY <2>1, <2>2, <2>3, CallMove
    <3>2. AtomicCall' = AtomicCall
      BY <3>1 DEF AtomicCall
    <3>3. Atomic!Refuse(s)
      BY <1>3, <2>1, <2>2, <2>3, <3>1, <3>2 DEF Atomic!Refuse
    <3>4. QED
      BY <3>3 DEF Atomic!AtomicNext
  <2>4. CASE next # "idle"
    <3>1. AtomicCall' = [AtomicCall EXCEPT ![s] = "open"] /\ AtomicCall[s] = "idle"
      BY <2>1, <2>2, <2>4, CallMove
    <3>2. Atomic!Open(s)
      BY <1>3, <2>1, <2>2, <2>4, <3>1 DEF Atomic!Open
    <3>3. QED
      BY <3>2 DEF Atomic!AtomicNext
  <2>5. QED
    BY <2>3, <2>4
<1>4. ASSUME NEW s \in Servers, Called(s) PROVE Atomic!AtomicNext
  BY <1>3, <1>4 DEF Called
<1>5. ASSUME NEW s \in Servers, at[s] \in Reads, Return(s, "other"), UNCHANGED nvue
      PROVE  Atomic!AtomicNext
  <2>1. at' = [at EXCEPT ![s] = "idle"] /\ answer' = [answer EXCEPT ![s] = "other"]
    BY <1>5 DEF Return
  <2>2. /\ config' = config /\ at'[s] = "idle"
        /\ \A u \in Servers \ {s} : at'[u] = at[u] /\ (Done(u)' <=> Done(u))
    BY <1>2, <1>5, <2>1
  <2>3. AtomicCall' = [AtomicCall EXCEPT ![s] = "idle"] /\ AtomicCall[s] = "open"
    BY <1>5, <2>2, CallMove DEF Reads
  <2>4. Atomic!Return(s)
    BY <2>1, <2>2, <2>3 DEF Atomic!Return
  <2>5. QED
    BY <2>4 DEF Atomic!AtomicNext
<1>6. ASSUME NEW s \in Servers, at[s] \in Reads, UNCHANGED nvue, NEW next \in Reads, Continue(s, next)
      PROVE  Same
  <2>1. at' = [at EXCEPT ![s] = next] /\ answer' = answer
    BY <1>6 DEF Continue
  <2>2. /\ config' = config /\ at'[s] = next
        /\ \A u \in Servers \ {s} : at'[u] = at[u] /\ (Done(u)' <=> Done(u))
    BY <1>2, <1>6, <2>1
  <2>3. AtomicCall' = [AtomicCall EXCEPT ![s] = "open"] /\ AtomicCall[s] = "open"
    BY <1>6, <2>2, CallMove DEF Reads
  <2>4. AtomicCall' = AtomicCall
    BY <2>3 DEF AtomicCall
  <2>5. QED
    BY <2>1, <2>2, <2>4 DEF Atomic!absVars
<1>7. ASSUME NEW s \in Servers, at[s] \in Reads, NEW t \in Tree, Call(s, t), Continue(s, "apply")
      PROVE  Same
  <2>1. /\ at'[s] = "apply" /\ answer' = answer /\ config' = config /\ state' = state /\ mine'[s] = 0
        /\ \A u \in Servers \ {s} : at'[u] = at[u] /\ mine'[u] = mine[u]
    BY <1>1, <1>7, ClientTypes DEF Call, Continue
  <2>2. ~Done(s)' /\ \A u \in Servers \ {s} : at'[u] = at[u] /\ (Done(u)' <=> Done(u))
    BY <2>1 DEF Done
  <2>3. AtomicCall' = [AtomicCall EXCEPT ![s] = "open"] /\ AtomicCall[s] = "open"
    BY <1>7, <2>1, <2>2, CallMove DEF Reads
  <2>4. AtomicCall' = AtomicCall
    BY <2>3 DEF AtomicCall
  <2>5. QED
    BY <2>1, <2>4 DEF Atomic!absVars
<1>8. ASSUME NEW s \in Servers, Applying(s) PROVE Same
  <2>1. UNCHANGED <<config, at, answer>>
    BY <1>8, ApplyingFrame DEF backend
  <2>2. \A u \in Servers : Done(u)' <=> Done(u)
    BY <1>8, DoneApplying
  <2>3. AtomicCall' = AtomicCall
    BY <2>1, <2>2 DEF AtomicCall, Done
  <2>4. QED
    BY <2>1, <2>3 DEF Atomic!absVars
<1>9. ASSUME NEW s \in Servers, Finish(s) PROVE Atomic!AtomicNext
  <2>1. /\ at[s] = "apply" /\ pc[s] = "idle" /\ UNCHANGED nvue /\ at' = [at EXCEPT ![s] = "idle"]
        /\ answer' = [answer EXCEPT ![s] = said[s]]
    BY <1>9 DEF Finish, Return
  <2>2. /\ config' = config /\ at'[s] = "idle"
        /\ \A u \in Servers \ {s} : at'[u] = at[u] /\ (Done(u)' <=> Done(u))
    BY <1>2, <2>1
  <2>3. (said[s] = "ok" /\ Done(s)) \/ (said[s] = "error" /\ ~Done(s))
    <3>1. said[s] \in {"ok", "error"}
      BY <2>1 DEF Orderly, Ordered
    <3>2. said[s] = "ok" => Done(s)
      BY ClientKeeps DEF CumulusInv, Done
    <3>3. said[s] = "error" => ~Done(s)
      BY DEF Orderly, Ordered, Done
    <3>4. QED
      BY <3>1, <3>2, <3>3
  <2>4. /\ AtomicCall' = [AtomicCall EXCEPT ![s] = "idle"]
        /\ Done(s) => AtomicCall[s] = "written"
        /\ ~Done(s) => AtomicCall[s] = "open"
    BY <2>1, <2>2, CallMove
  <2>5. Atomic!Return(s)
    BY <2>1, <2>2, <2>3, <2>4 DEF Atomic!Return
  <2>6. QED
    BY <2>5 DEF Atomic!AtomicNext
<1>10. ASSUME NEW n \in RevIds, Settle(n), UNCHANGED backend PROVE Atomic!AtomicNext \/ Same
  <2>1. PICK s \in Servers :
          /\ pc[s] = "poll" /\ at[s] = "apply" /\ mine[s] = n
          /\ \A u \in Servers \ {s} : mine[u] # n
          /\ \/ state'[n] = "failed" /\ config' = config
             \/ state'[n] = "applied" /\ \E t \in arg[s] : config' = Merge(config, t)
    BY <1>10, SettleCases
  <2>2. /\ UNCHANGED <<mine, at, answer>> /\ state[n] = "applying"
        /\ \A m \in RevIds \ {n} : state'[m] = state[m]
    BY <1>10, SettleCases DEF backend
  <2>3. \A u \in Servers \ {s} : at'[u] = at[u] /\ (Done(u)' <=> Done(u))
    BY <2>1, <2>2, ClientTypes DEF Done
  <2>4. ~Done(s)
    BY <2>1, <2>2 DEF Done
  <2>5. CASE state'[n] = "failed" /\ config' = config
    <3>1. ~Done(s)'
      BY <2>1, <2>2, <2>5 DEF Done
    <3>2. AtomicCall' = AtomicCall
      BY <2>2, <2>3, <2>4, <3>1 DEF AtomicCall, Done
    <3>3. QED
      BY <2>2, <2>5, <3>2 DEF Atomic!absVars
  <2>6. CASE state'[n] = "applied" /\ \E t \in arg[s] : config' = Merge(config, t)
    <3>1. Done(s)'
      BY <2>1, <2>2, <2>6, ClientTypes DEF Done
    <3>2. AtomicCall' = [AtomicCall EXCEPT ![s] = "written"] /\ AtomicCall[s] = "open"
      BY <2>1, <2>2, <2>3, <2>4, <3>1, CallMove
    <3>3. OneTreeMerged(config, config')
      BY <2>6, ClientTypes DEF OneTreeMerged
    <3>4. Atomic!Write(s)
      BY <2>2, <3>2, <3>3 DEF Atomic!Write
    <3>5. QED
      BY <3>4 DEF Atomic!AtomicNext
  <2>7. QED
    BY <2>1, <2>5, <2>6
<1>11. CASE UNCHANGED vars
  <2>1. UNCHANGED <<config, state, mine, at, answer>>
    BY <1>11 DEF vars, nvue, backend
  <2>2. AtomicCall' = AtomicCall
    BY <2>1 DEF AtomicCall
  <2>3. QED
    BY <2>1, <2>2 DEF Atomic!absVars
<1>12. QED
  BY <1>4, <1>5, <1>6, <1>7, <1>8, <1>9, <1>10, <1>11, StepCases

\* A tool call changes the switch at most once, by one revision, and says OK only if it
\* did and "no changes were applied" only if it did not (ARCHITECTURE.md:275), as long as
\* nvue_apply's answers arrive, no deadline passes and no server is killed.
THEOREM CumulusIsAtomic ==
  ASSUME AnswersArrive
  PROVE  CumulusSpec => ImplementsAtomicWrite
<1>1. CumulusInit => Atomic!AtomicInit
  BY DEF CumulusInit, NvueInit, AtomicCall, Atomic!AtomicInit
<1>2. CumulusInv /\ Orderly /\ [CumulusNext]_vars => [Atomic!AtomicNext]_(Atomic!absVars)
  BY AtomicStep
<1>3. QED
  BY <1>1, <1>2, OrderlyInvariant, PTL DEF CumulusSpec, ImplementsAtomicWrite, Atomic!AtomicSpec

\* "no changes were applied" is true, as long as nvue_apply's answers arrive, no deadline
\* passes and no server is killed (backend.py:475 and 507); nvue_late_apply shows it false with a deadline.
THEOREM ErrorsMeanUnchanged ==
  ASSUME AnswersArrive
  PROVE  CumulusSpec => []ErrorMeansUnchanged
<1>1. Orderly => ErrorMeansUnchanged
  BY DEF Orderly, Ordered, ErrorMeansUnchanged
<1>2. QED
  BY <1>1, OrderlyInvariant, PTL

-----------------------------------------------------------------------------
(* Calls that are alone, and calls that overlap.                             *)

\* Callers agree on the VNI of a VLAN, and no VLAN has two at the start.
OneVni(c) == \A v \in Vlans : c.vlan[v] # None => \A m, n \in c.vlan[v] : m = n
CallersAgree ==
  /\ \A q, r \in Provisions : q.vlan = r.vlan => q.vni = r.vni
  /\ \A c \in InitConfigs : OneVni(c)

\* What provision and delete promise of configuration c.
Provisioned(c, q) ==
  /\ c.vlan[q.vlan] = {q.vni} /\ q.vni \in c.evpn
  /\ \A v \in Vlans \ {q.vlan} : c.vlan[v] = None \/ q.vni \notin c.vlan[v]
  /\ q.vlan \in c.member[q.port]
Deleted(c, q, t) ==
  /\ q.number = t.vlan \/ (~q.prefixed /\ q.number = t.vni)
  /\ c.vlan[t.vlan] = None /\ t.vni \notin c.evpn
  /\ \A p \in Ports : c.member[p] # None /\ t.vlan \in c.member[p] => c.member[p] = {t.vlan}

Works(c, s) ==
  \A q \in req[s] :
    /\ q.op = "provision" /\ CallersAgree => Provisioned(c, q)
    /\ q.op = "delete" => \A t \in arg[s] : Deleted(c, q, t)

\* The change of the call suits the configuration it will be merged into.
Suits(c, q, t) ==
  /\ q.op = "provision" =>
       t = [op |-> "provision", vlan |-> q.vlan, vni |-> q.vni, ports |-> {q.port}]
  /\ q.op = "provision" /\ CallersAgree =>
       /\ c.vlan[q.vlan] = None /\ c.member[q.port] # None
       /\ \A v \in Vlans : c.vlan[v] = None \/ q.vni \notin c.vlan[v]
  /\ q.op = "delete" =>
       /\ t.op = "delete" /\ (q.number = t.vlan \/ (~q.prefixed /\ q.number = t.vni))
       /\ t.ports = PortsToClear(t.vlan, c.member)

\* What a call has read is still so, until its revision is applied; then it has what it promises.
Current(s) ==
  /\ at[s] \in {"interfaces", "vnis", "bridge"} => Records(config.vlan, records[s])
  /\ at[s] \in {"vnis", "bridge"} => ports[s] = config.member
  /\ at[s] = "bridge" => evpns[s] = config.evpn
  /\ at[s] = "apply" => /\ Done(s) => Works(config, s)
                        /\ ~Done(s) => \A q \in req[s], t \in arg[s] : Suits(config, q, t)
  /\ answer[s] = "ok" => at[s] = "idle" /\ Works(config, s)

AloneInv == \A s \in Servers : alone[s] => Current(s)

\* Then no VLAN ever has two: each change that provisions one finds it without, or with that one,
\* however late NVUE applies it.
Agreed ==
  /\ OneVni(config)
  /\ \A t \in Tree : Given(t) /\ t.op = "provision" =>
       /\ \E q \in Provisions : t.vlan = q.vlan /\ t.vni = q.vni
       /\ config.vlan[t.vlan] \in {None, {t.vni}}

\* Merging a change that suits does what the call promises.
LEMMA MergeWorks ==
  ASSUME NEW c \in Config, NEW q \in ProvisionRequest \cup DeleteRequest, NEW t \in Tree, Suits(c, q, t)
  PROVE  /\ q.op = "provision" /\ CallersAgree => Provisioned(Merge(c, t), q)
         /\ q.op = "delete" => Deleted(Merge(c, t), q, t)
<1>1. /\ c.vlan \in [Vlans -> {None} \cup SUBSET Vnis] /\ c.evpn \in SUBSET Vnis
      /\ c.member \in [Ports -> {None} \cup SUBSET Vlans] /\ t.vlan \in Vlans /\ t.vni \in Vnis
      /\ t.ports \in SUBSET Ports
  BY DEF Config, Tree
<1>2. CASE q.op = "provision" /\ CallersAgree
  <2>1. /\ t = [op |-> "provision", vlan |-> q.vlan, vni |-> q.vni, ports |-> {q.port}]
        /\ c.vlan[q.vlan] = None /\ c.member[q.port] # None
        /\ \A v \in Vlans : c.vlan[v] = None \/ q.vni \notin c.vlan[v]
    BY <1>2 DEF Suits
  <2>2. q.vlan \in Vlans /\ q.vni \in Vnis /\ q.port \in Ports
    BY <1>2 DEF ProvisionRequest, DeleteRequest
  <2>3. Merge(c, t) = ProvisionMerge(c, t) /\ t.vlan = q.vlan /\ t.vni = q.vni /\ t.ports = {q.port}
    BY <2>1 DEF Merge
  <2>4. Merge(c, t).vlan = [c.vlan EXCEPT ![q.vlan] = {q.vni}]
    <3>1. Merge(c, t).vlan = [c.vlan EXCEPT ![q.vlan] = IF @ = None THEN {q.vni} ELSE @ \cup {q.vni}]
      BY <2>3 DEF ProvisionMerge
    <3>2. c.vlan[q.vlan] = None
      BY <2>1
    <3>3. QED
      BY ONLY <3>1, <3>2
  <2>5. Merge(c, t).evpn = c.evpn \cup {q.vni}
    BY <2>3 DEF ProvisionMerge
  <2>6. Merge(c, t).member[q.port] = c.member[q.port] \cup {q.vlan}
    <3>1. Merge(c, t).member[q.port] = IF q.port \notin t.ports THEN c.member[q.port]
                                       ELSE IF c.member[q.port] = None THEN {t.vlan}
                                       ELSE c.member[q.port] \cup {t.vlan}
      BY <2>2, <2>3 DEF ProvisionMerge
    <3>2. c.member[q.port] # None /\ q.port \in t.ports /\ t.vlan = q.vlan
      BY <2>1, <2>3
    <3>3. QED
      BY ONLY <3>1, <3>2
  <2>7. QED
    BY <1>1, <1>2, <2>1, <2>2, <2>4, <2>5, <2>6 DEF Provisioned
<1>3. CASE q.op = "delete"
  <2>1. /\ t.op = "delete" /\ (q.number = t.vlan \/ (~q.prefixed /\ q.number = t.vni))
        /\ t.ports = PortsToClear(t.vlan, c.member)
    BY <1>3 DEF Suits
  <2>2. Merge(c, t) = DeleteMerge(c, t)
    BY <2>1 DEF Merge
  <2>3. Merge(c, t).vlan[t.vlan] = None /\ t.vni \notin Merge(c, t).evpn
    BY <1>1, <2>2 DEF DeleteMerge
  <2>4. ASSUME NEW p \in Ports, Merge(c, t).member[p] # None, t.vlan \in Merge(c, t).member[p]
        PROVE  Merge(c, t).member[p] = {t.vlan}
    <3>1. Merge(c, t).member[p] = IF p \notin t.ports \/ c.member[p] = None THEN c.member[p]
                                  ELSE c.member[p] \ {t.vlan}
      BY <2>2 DEF DeleteMerge
    <3>2. p \notin t.ports /\ Merge(c, t).member[p] = c.member[p]
      BY <2>1, <2>4, <3>1 DEF PortsToClear
    <3>3. QED
      BY <2>1, <2>4, <3>2 DEF PortsToClear
  <2>5. QED
    BY <1>3, <2>1, <2>3, <2>4 DEF Deleted
<1>4. QED
  BY <1>2, <1>3 DEF ProvisionRequest, DeleteRequest

\* What a call that has read the present configuration asks for suits it.
LEMMA AskedSuits ==
  ASSUME CumulusInv, CallersAgree => OneVni(config), NEW s \in Servers, Current(s), NEW q \in req[s], NEW t, Asked(s, q, t)
  PROVE  Suits(config, q, t)
<1>1. /\ config \in Config /\ records[s] \in [Vlans -> Vnis \cup {None}]
      /\ config.vlan \in [Vlans -> {None} \cup SUBSET Vnis]
  BY TypeParts DEF CumulusInv, BackendOK, Config
<1>2. at[s] \in {"interfaces", "bridge"} => Records(config.vlan, records[s])
  BY DEF Current
<1>3. q.op = "provision" \/ q.op = "delete"
  BY RequestKinds DEF CumulusInv, AtWork
<1>4. CASE at[s] = "bridge"
  <2>1. /\ Clear(s, q) /\ q.op = "provision"
        /\ t = [op |-> "provision", vlan |-> q.vlan, vni |-> q.vni, ports |-> {q.port}]
    BY <1>4 DEF Asked, CumulusInv, AtWork
  <2>2. q.op # "delete"
    BY <2>1
  <2>3. config.vlan[q.vlan] = None /\ config.member[q.port] # None
    BY <1>4, <2>1 DEF Clear, Current
  <2>4. ASSUME NEW v \in Vlans, CallersAgree PROVE config.vlan[v] = None \/ q.vni \notin config.vlan[v]
    <3>1. records[s][v] # q.vni
      BY <2>1 DEF Clear
    <3>2. config.vlan[v] \notin {None, {}} => records[s][v] \in config.vlan[v]
      BY <1>2, <1>4 DEF Records
    <3>3. config.vlan[v] # None => \A m, n \in config.vlan[v] : m = n
      BY <2>4 DEF OneVni
    <3>4. QED
      BY <3>1, <3>2, <3>3
  <2>5. QED
    BY <2>1, <2>2, <2>3, <2>4 DEF Suits
<1>5. CASE at[s] = "interfaces"
  <2>1. PICK v \in Vlans :
          /\ Matches(q, v, records[s])
          /\ t = [op |-> "delete", vlan |-> v, vni |-> records[s][v], ports |-> PortsToClear(v, config.member)]
    BY <1>5 DEF Asked
  <2>2. q.op # "provision"
    BY <1>5 DEF Asked
  <2>3. QED
    BY <2>1, <2>2 DEF Matches, Suits
<1>6. QED
  BY <1>4, <1>5 DEF Asked

\* Every step keeps Agreed.
LEMMA AgreedStep ==
  ASSUME CumulusInv, Agreed, CallersAgree, [CumulusNext]_vars
  PROVE  Agreed'
<1>1. /\ config \in Config /\ config.vlan \in [Vlans -> {None} \cup SUBSET Vnis]
      /\ None \notin SUBSET Vnis
  BY TypeParts, CumulusAssumption DEF CumulusInv, Config
<1>2. CASE config' = config
  <2>1. ASSUME NEW t \in Tree, t.op = "provision", NEW s \in Servers, NEW q \in req[s], Asked(s, q, t)
        PROVE  /\ \E r \in Provisions : t.vlan = r.vlan /\ t.vni = r.vni
               /\ config.vlan[t.vlan] = None
    <3>1. at[s] = "bridge" /\ Clear(s, q) /\ t.vlan = q.vlan /\ t.vni = q.vni
      BY <2>1 DEF Asked
    <3>2. q \in Provisions
      BY <3>1, RequestKinds DEF CumulusInv, AtWork
    <3>3. QED
      BY <3>1, <3>2 DEF Clear
  <2>2. ASSUME NEW t \in Tree, Given(t)', t.op = "provision"
        PROVE  /\ \E r \in Provisions : t.vlan = r.vlan /\ t.vni = r.vni
               /\ config.vlan[t.vlan] \in {None, {t.vni}}
    BY <2>1, <2>2, ChangesStep DEF Agreed
  <2>3. QED
    BY <1>2, <2>2 DEF Agreed
<1>3. ASSUME NEW w \in Tree, Given(w), config' = Merge(config, w), config' # config PROVE Agreed'
  <2>1. w.vlan \in Vlans /\ w.vni \in Vnis /\ w.op \in {"provision", "delete"}
    BY DEF Tree
  <2>2. /\ config'.vlan[w.vlan] \in {None, {w.vni}}
        /\ w.op = "delete" => config'.vlan[w.vlan] = None
        /\ \A v \in Vlans \ {w.vlan} : config'.vlan[v] = config.vlan[v]
    <3>1. CASE w.op = "provision"
      <4>1. config.vlan[w.vlan] \in {None, {w.vni}}
        BY <1>3, <3>1 DEF Agreed
      <4>2. config'.vlan = [config.vlan EXCEPT ![w.vlan] = IF @ = None THEN {w.vni} ELSE @ \cup {w.vni}]
        BY <1>3, <3>1 DEF Merge, ProvisionMerge
      <4>3. QED
        BY <1>1, <2>1, <3>1, <4>1, <4>2
    <3>2. CASE w.op = "delete"
      <4>1. config'.vlan = [config.vlan EXCEPT ![w.vlan] = None]
        BY <1>3, <3>2 DEF Merge, DeleteMerge
      <4>2. QED
        BY <1>1, <2>1, <4>1
    <3>3. QED
      BY <2>1, <3>1, <3>2
  <2>3. OneVni(config')
    BY <2>2 DEF OneVni, Agreed
  <2>4. ASSUME NEW t \in Tree, Given(t)', t.op = "provision"
        PROVE  /\ \E q \in Provisions : t.vlan = q.vlan /\ t.vni = q.vni
               /\ config'.vlan[t.vlan] \in {None, {t.vni}}
    <3>1. Given(t)
      BY <1>3, <2>4, ChangesStep
    <3>2. PICK q \in Provisions : t.vlan = q.vlan /\ t.vni = q.vni
      BY <2>4, <3>1 DEF Agreed
    <3>3. config.vlan[t.vlan] \in {None, {t.vni}} /\ t.vlan \in Vlans
      BY <2>4, <3>1 DEF Agreed, Tree
    <3>4. CASE t.vlan = w.vlan /\ w.op = "provision"
      <4>1. PICK r \in Provisions : w.vlan = r.vlan /\ w.vni = r.vni
        BY <1>3, <3>4 DEF Agreed
      <4>2. q.vni = r.vni
        BY <3>2, <3>4, <4>1 DEF CallersAgree
      <4>3. QED
        BY <2>2, <3>2, <3>4, <4>1, <4>2
    <3>5. QED
      BY <2>1, <2>2, <3>2, <3>3, <3>4
  <2>5. QED
    BY <2>3, <2>4 DEF Agreed
<1>4. QED
  <2>1. ASSUME NEW n \in RevIds, NEW t \in Tree, t \in tree[n] PROVE Given(t)
    BY <2>1 DEF Given
  <2>2. QED
    BY <1>2, <1>3, <2>1, ChangesStep

\* While the switch stays, what is known of a call that takes no step stays.
LEMMA CurrentKept ==
  ASSUME NEW s \in Servers, Current(s), config' = config,
         at'[s] = at[s], req'[s] = req[s], arg'[s] = arg[s], answer'[s] = answer[s],
         records'[s] = records[s], ports'[s] = ports[s], evpns'[s] = evpns[s],
         Done(s)' <=> Done(s)
  PROVE  Current(s)'
  BY DEF Current, Works

\* A step of server s changes neither the switch nor the call of another server.
Elsewhere(s) ==
  /\ config' = config
  /\ \A u \in Servers \ {s} :
       /\ at'[u] = at[u] /\ req'[u] = req[u] /\ arg'[u] = arg[u] /\ answer'[u] = answer[u]
       /\ records'[u] = records[u] /\ ports'[u] = ports[u] /\ evpns'[u] = evpns[u]
       /\ alone'[u] = alone[u] /\ (Done(u)' <=> Done(u))

LEMMA OthersStay ==
  ASSUME CumulusInv, NEW s \in Servers,
         \/ Called(s) \/ ReadFails(s) \/ Prerequisites(s) \/ ReadRecords(s) \/ ReadInterfaces(s)
         \/ ReadVnis(s) \/ ReadBridge(s) \/ Applying(s) \/ Finish(s)
  PROVE  Elsewhere(s)
<1>1. BackendOK
  BY TypeParts DEF CumulusInv
<1>2. ASSUME UNCHANGED nvue
      PROVE  config' = config /\ arg' = arg /\ \A u \in Servers : Done(u)' <=> Done(u)
  BY <1>2, Unmoved DEF Done
<1>3. ASSUME NEW a, Return(s, a), UNCHANGED nvue PROVE Elsewhere(s)
  BY <1>1, <1>2, <1>3 DEF Return, BackendOK, Elsewhere
<1>4. CASE Called(s)
  BY <1>1, <1>2, <1>4 DEF Called, Begin, gathered, BackendOK, Elsewhere
<1>5. CASE ReadFails(s) \/ Prerequisites(s) \/ Finish(s)
  <2>1. ASSUME Continue(s, "records"), UNCHANGED <<nvue, gathered>> PROVE Elsewhere(s)
    BY <1>1, <1>2, <2>1 DEF Continue, gathered, BackendOK, Elsewhere
  <2>2. QED
    BY <1>3, <1>5, <2>1 DEF ReadFails, Prerequisites, Finish
<1>6. CASE ReadRecords(s) \/ ReadVnis(s)
  BY <1>1, <1>2, <1>6 DEF ReadRecords, ReadVnis, Continue, BackendOK, Elsewhere
<1>7. CASE ReadInterfaces(s) \/ ReadBridge(s)
  <2>1. CASE Continue(s, "vnis") /\ UNCHANGED <<nvue, records, evpns>> /\ ports' = [ports EXCEPT ![s] = config.member]
    BY <1>1, <1>2, <2>1 DEF Continue, BackendOK, Elsewhere
  <2>2. ASSUME NEW t, Call(s, t), Continue(s, "apply"), UNCHANGED gathered PROVE Elsewhere(s)
    <3>1. /\ config' = config /\ state' = state
          /\ \A u \in Servers \ {s} : arg'[u] = arg[u] /\ mine'[u] = mine[u]
      BY <2>2, ClientTypes DEF Call
    <3>2. QED
      BY <1>1, <2>2, <3>1 DEF Continue, gathered, BackendOK, Done, Elsewhere
  <2>3. QED
    BY <1>3, <1>7, <2>1, <2>2, LastRead
<1>8. CASE Applying(s)
  BY <1>8, ApplyingFrame, DoneApplying DEF backend, gathered, Elsewhere
<1>9. QED
  BY <1>4, <1>5, <1>6, <1>7, <1>8

\* A step keeps what is known of a call that is alone.
LEMMA AloneStep ==
  ASSUME CumulusInv, Carried, CallersAgree => Agreed, AloneInv, [CumulusNext]_vars
  PROVE  AloneInv'
<1>1. /\ BackendOK /\ config \in Config
      /\ at \in [Servers -> {"idle", "apply"} \cup Reads] /\ alone \in [Servers -> BOOLEAN]
      /\ answer \in [Servers -> {"none", "ok", "error", "other"}]
  BY TypeParts DEF CumulusInv, BackendOK
<1>2. CallersAgree => OneVni(config)
  BY DEF Agreed
\* It is enough to look at the call of the step.
<1>3. ASSUME NEW s \in Servers, Elsewhere(s), alone'[s] => Current(s)' PROVE AloneInv'
  <2>1. ASSUME NEW u \in Servers \ {s}, alone'[u] PROVE Current(u)'
    BY <1>3, <2>1, CurrentKept DEF Elsewhere, AloneInv
  <2>2. QED
    BY <1>3, <2>1 DEF AloneInv
<1>4. ASSUME NEW s \in Servers, Called(s) PROVE AloneInv'
  <2>1. PICK q \in Provisions \cup Deletes, next \in {"idle", "prerequisites", "records"}, a \in {"none", "other"} :
          Begin(s, q, next, a)
    BY <1>4 DEF Called
  <2>2. at'[s] = next /\ answer'[s] = a
    BY <1>1, <2>1 DEF Begin
  <2>3. Current(s)'
    BY <2>2 DEF Current
  <2>4. QED
    BY <1>3, <1>4, <2>3, OthersStay
\* The call returns without OK.
<1>5. ASSUME NEW s \in Servers, Return(s, "other") PROVE Current(s)'
  <2>1. at'[s] = "idle" /\ answer'[s] = "other"
    BY <1>1, <1>5 DEF Return
  <2>2. QED
    BY <2>1 DEF Current
<1>6. ASSUME NEW s \in Servers, ReadFails(s) PROVE AloneInv'
  BY <1>3, <1>5, <1>6, OthersStay DEF ReadFails
\* It reads on.
<1>7. ASSUME NEW s \in Servers, at[s] \in Reads, NEW next, Continue(s, next)
      PROVE  /\ at'[s] = next /\ alone'[s] = alone[s]
             /\ alone[s] => answer'[s] # "ok"
  BY <1>1, <1>7 DEF Continue, AloneInv, Current, Reads
<1>8. ASSUME NEW s \in Servers, Prerequisites(s) PROVE AloneInv'
  <2>1. at[s] \in Reads
    BY <1>8 DEF Prerequisites, Reads
  <2>2. Continue(s, "records") => (alone'[s] => Current(s)')
    BY <1>7, <2>1 DEF Current
  <2>3. QED
    BY <1>3, <1>5, <1>8, <2>2, OthersStay DEF Prerequisites
<1>9. ASSUME NEW s \in Servers, ReadRecords(s) PROVE AloneInv'
  <2>1. at[s] \in Reads /\ Continue(s, "interfaces") /\ UNCHANGED nvue
    BY <1>9 DEF ReadRecords, Reads
  <2>2. Records(config.vlan, records'[s])
    BY <1>1, <1>9 DEF ReadRecords, BackendOK
  <2>3. alone'[s] => Current(s)'
    BY <1>7, <2>1, <2>2, Unmoved DEF Current
  <2>4. QED
    BY <1>3, <1>9, <2>3, OthersStay
<1>10. ASSUME NEW s \in Servers, ReadVnis(s) PROVE AloneInv'
  <2>1. at[s] = "vnis" /\ at[s] \in Reads /\ Continue(s, "bridge") /\ UNCHANGED <<nvue, records, ports>>
    BY <1>10 DEF ReadVnis, Reads
  <2>2. evpns'[s] = config.evpn
    BY <1>1, <1>10 DEF ReadVnis, BackendOK
  <2>3. ASSUME alone'[s] PROVE Current(s)'
    <3>1. Records(config.vlan, records[s]) /\ ports[s] = config.member
      BY <1>7, <2>1, <2>3 DEF AloneInv, Current
    <3>2. config' = config /\ records' = records /\ ports' = ports
      BY <2>1, Unmoved
    <3>3. QED
      BY <1>7, <2>1, <2>2, <2>3, <3>1, <3>2 DEF Current
  <2>4. QED
    BY <1>3, <1>10, <2>3, OthersStay
<1>11. ASSUME NEW s \in Servers, ReadInterfaces(s) \/ ReadBridge(s) PROVE AloneInv'
  <2>1. at[s] \in Reads /\ Elsewhere(s)
    BY <1>11, OthersStay DEF ReadInterfaces, ReadBridge, Reads
  <2>2. CASE Return(s, "other")
    BY <1>3, <1>5, <2>1, <2>2
  <2>3. CASE /\ at[s] = "interfaces" /\ Continue(s, "vnis") /\ UNCHANGED <<nvue, records, evpns>>
             /\ ports' = [ports EXCEPT ![s] = config.member]
    <3>1. ports'[s] = config.member
      BY <1>1, <2>3 DEF BackendOK
    <3>2. ASSUME alone'[s] PROVE Current(s)'
      <4>1. Records(config.vlan, records[s])
        BY <1>7, <2>1, <2>3, <3>2 DEF AloneInv, Current
      <4>2. config' = config /\ records' = records
        BY <2>3, Unmoved
      <4>3. QED
        BY <1>7, <2>1, <2>3, <3>1, <3>2, <4>1, <4>2 DEF Current
    <3>3. QED
      BY <1>3, <2>1, <3>2
  <2>4. ASSUME NEW t \in Tree, Call(s, t), Continue(s, "apply"), NEW q \in req[s], Asked(s, q, t)
        PROVE  AloneInv'
    <3>1. config' = config /\ arg'[s] = {t} /\ mine'[s] = 0 /\ UNCHANGED req
      BY <1>1, <2>4, ClientTypes DEF Call, Continue
    <3>2. ASSUME alone'[s] PROVE Current(s)'
      <4>1. alone[s] /\ at'[s] = "apply" /\ answer'[s] # "ok"
        BY <1>7, <2>1, <2>4, <3>2
      <4>2. Suits(config, q, t)
        BY <1>2, <2>4, <4>1, AskedSuits DEF AloneInv
      <4>3. \A r \in req[s] : r = q
        BY DEF CumulusInv, AtWork
      <4>4. ~Done(s)'
        BY <3>1 DEF Done
      <4>5. QED
        BY <3>1, <4>1, <4>2, <4>3, <4>4 DEF Current, Reads
    <3>3. QED
      BY <1>3, <2>1, <3>2
  <2>5. QED
    BY <1>11, <2>2, <2>3, <2>4, LastRead
<1>12. ASSUME NEW s \in Servers, Applying(s) PROVE AloneInv'
  <2>1. UNCHANGED <<config, arg, at, req, answer, records, ports, evpns, alone>>
    BY <1>12, ApplyingFrame DEF backend, gathered
  <2>2. alone'[s] => Current(s)'
    BY <1>12, <2>1, DoneApplying, CurrentKept DEF AloneInv
  <2>3. QED
    BY <1>3, <1>12, <2>2, OthersStay
<1>13. ASSUME NEW s \in Servers, Finish(s) PROVE AloneInv'
  <2>1. /\ at[s] = "apply" /\ at'[s] = "idle" /\ answer'[s] = said[s] /\ UNCHANGED <<alone, req>>
        /\ config' = config /\ arg' = arg
    BY <1>1, <1>13, Unmoved DEF Finish, Return
  <2>2. said[s] = "ok" => Done(s)
    BY ClientKeeps DEF CumulusInv, Done
  <2>3. alone[s] /\ said[s] = "ok" => Works(config, s)
    BY <2>1, <2>2 DEF AloneInv, Current
  <2>4. alone'[s] => Current(s)'
    BY <2>1, <2>3 DEF Current, Works
  <2>5. QED
    BY <1>3, <1>13, <2>4, OthersStay
\* A revision that changes the switch leaves only its own call alone, if that still waits for it.
<1>14. ASSUME NEW n \in RevIds, Settled(n) PROVE AloneInv'
  <2>1. /\ UNCHANGED <<arg, mine, at, req, answer, records, ports, evpns>> /\ state[n] = "applying"
        /\ \A m \in RevIds \ {n} : state'[m] = state[m]
        /\ \A u \in Servers : alone'[u] <=> /\ alone[u]
                                            /\ config' = config \/ (at[u] = "apply" /\ mine[u] = n)
    BY <1>1, <1>14, SettleEffect DEF Settled, backend, gathered
  <2> SUFFICES ASSUME NEW s \in Servers, alone'[s] PROVE Current(s)'
    BY DEF AloneInv
  <2>2. Current(s)
    BY <2>1 DEF AloneInv
  <2>3. CASE mine[s] # n
    <3>1. config' = config /\ (Done(s)' <=> Done(s))
      BY <2>1, <2>3, ClientTypes DEF Done
    <3>2. QED
      BY <2>1, <2>2, <3>1, CurrentKept
  <2>4. CASE at[s] # "apply"
    <3>1. config' = config /\ at'[s] = at[s] /\ req'[s] = req[s] /\ answer'[s] = answer[s]
      BY <2>1, <2>4
    <3>2. QED
      BY <2>1, <2>2, <2>4, <3>1 DEF Current, Works
  <2>5. CASE at[s] = "apply" /\ mine[s] = n
    <3>1. ~Done(s) /\ answer[s] # "ok" /\ tree[n] = arg[s]
      BY <2>1, <2>2, <2>5, ClientTypes DEF Current, Done, Carried
    <3>2. CASE state'[n] = "failed" /\ config' = config
      <4>1. ~Done(s)'
        BY <2>1, <2>5, <3>2 DEF Done
      <4>2. QED
        BY <2>1, <2>2, <3>1, <3>2, <4>1, CurrentKept
    <3>3. ASSUME state'[n] = "applied", NEW t \in tree[n], config' = Merge(config, t)
          PROVE  Current(s)'
      <4>1. Done(s)'
        BY <2>1, <2>5, <3>3, ClientTypes DEF Done
      <4>2. \A q \in req[s] : Suits(config, q, t)
        BY <2>2, <2>5, <3>1, <3>3 DEF Current
      <4>3. \A u \in arg[s] : u = t
        BY <3>1, <3>3 DEF CumulusInv, AtWork
      <4>4. ASSUME NEW q \in req[s]
            PROVE  /\ q.op = "provision" /\ CallersAgree => Provisioned(config', q)
                   /\ q.op = "delete" => Deleted(config', q, t)
        <5>1. q \in ProvisionRequest \cup DeleteRequest /\ t \in Tree
          BY <3>3, RequestKinds, ClientTypes DEF CumulusInv, AtWork
        <5>2. QED
          BY <1>1, <3>3, <4>2, <5>1, MergeWorks
      <4>5. Works(config, s)'
        BY <2>1, <4>3, <4>4 DEF Works
      <4>6. QED
        BY <2>1, <2>5, <3>1, <4>1, <4>5 DEF Current
    <3>4. QED
      BY <1>14, <3>2, <3>3, SettleEffect DEF Settled
  <2>6. QED
    BY <2>3, <2>4, <2>5
<1>15. CASE UNCHANGED vars
  <2>1. /\ UNCHANGED <<config, arg, at, req, answer, records, ports, evpns, alone>>
        /\ \A s \in Servers : Done(s)' <=> Done(s)
    BY <1>15 DEF vars, nvue, backend, gathered, Done
  <2>2. QED
    BY <2>1, CurrentKept DEF AloneInv
<1>16. ASSUME NEW s \in Servers, Provision(s) \/ Delete(s) PROVE AloneInv'
  <2>1. Called(s)
    BY <1>16 DEF Provision, Delete, Called
  <2>2. QED
    BY <1>4, <2>1
<1>17. QED
  BY <1>6, <1>8, <1>9, <1>10, <1>11, <1>12, <1>13, <1>14, <1>15, <1>16 DEF CumulusNext

\* What is known of calls that are alone holds throughout.
LEMMA AloneInvariant == CumulusSpec => []AloneInv
<1>1. CumulusInit => AloneInv /\ (CallersAgree => Agreed)
  <2> SUFFICES ASSUME CumulusInit PROVE AloneInv /\ (CallersAgree => Agreed)
    OBVIOUS
  <2>1. /\ \A s \in Servers : ~alone[s] /\ arg[s] = {}
        /\ \A n \in RevIds : tree[n] = {}
    BY DEF CumulusInit, NvueInit
  <2>2. config \in InitConfigs
    BY DEF CumulusInit, NvueInit
  <2>3. \A t : ~Given(t)
    BY <2>1 DEF Given
  <2>4. QED
    BY <2>1, <2>2, <2>3 DEF AloneInv, Agreed, CallersAgree
<1>2. CumulusInv /\ (CallersAgree => Agreed) /\ [CumulusNext]_vars => (CallersAgree => Agreed)'
  BY AgreedStep DEF CallersAgree
<1>3. /\ CumulusInv /\ Carried /\ (CallersAgree => Agreed) /\ AloneInv
      /\ [CumulusNext]_vars
      => AloneInv'
  BY AloneStep
<1>4. QED
  BY <1>1, <1>2, <1>3, CarriedInvariant, PTL DEF CumulusSpec

\* "OK: EVPN instance ... provisioned" is true until another call changes the switch, if callers
\* agree on the VNI of each VLAN: whatever calls and revisions of earlier calls were on their way
\* meanwhile, and whatever answers are lost, deadlines pass and processes are killed.
THEOREM ProvisionedServiceWorks ==
  ASSUME CallersAgree
  PROVE  CumulusSpec => []ProvisionedWorks
<1>1. AloneInv => ProvisionedWorks
  BY DEF AloneInv, Current, Works, Provisioned, ProvisionedWorks
<1>2. QED
  BY <1>1, AloneInvariant, PTL

\* "OK: EVPN instance ... deleted" is true until another call changes the switch, however the
\* switch is configured.
THEOREM DeletedServiceGone == CumulusSpec => []DeletedLeavesNothing
<1>1. AloneInv => DeletedLeavesNothing
  BY DEF AloneInv, Current, Works, Deleted, DeletedLeavesNothing
<1>2. QED
  BY <1>1, AloneInvariant, PTL

\* A change that suits leaves every port that has a VLAN one.
LEMMA MergeKeepsPorts ==
  ASSUME NEW c \in Config, NEW q \in ProvisionRequest \cup DeleteRequest, NEW t \in Tree, Suits(c, q, t),
         NEW p \in Ports, c.member[p] \notin {None, {}}
  PROVE  Merge(c, t).member[p] \notin {None, {}}
<1>1. c.member[p] \in SUBSET Vlans /\ t.vlan \in Vlans /\ t.ports \in SUBSET Ports
  BY DEF Config, Tree
<1>2. CASE q.op = "provision"
  <2>1. Merge(c, t) = ProvisionMerge(c, t)
    BY <1>2 DEF Suits, Merge
  <2>2. Merge(c, t).member[p] = c.member[p] \/ Merge(c, t).member[p] = c.member[p] \cup {t.vlan}
    BY <2>1 DEF ProvisionMerge
  <2>3. Merge(c, t).member[p] \in SUBSET Vlans /\ Merge(c, t).member[p] # {}
    BY <1>1, <2>2
  <2>4. QED
    BY <2>3, CumulusAssumption
<1>3. CASE q.op = "delete"
  <2>1. t.op = "delete" /\ t.ports = PortsToClear(t.vlan, c.member)
    BY <1>3 DEF Suits
  <2>2. Merge(c, t).member[p] = IF p \notin t.ports THEN c.member[p] ELSE c.member[p] \ {t.vlan}
    BY <2>1 DEF Merge, DeleteMerge
  <2>3. p \in t.ports => t.vlan \in c.member[p] /\ c.member[p] # {t.vlan}
    BY <2>1 DEF PortsToClear
  <2>4. Merge(c, t).member[p] \in SUBSET Vlans /\ Merge(c, t).member[p] # {}
    BY <1>1, <2>2, <2>3
  <2>5. QED
    BY <2>4, CumulusAssumption
<1>4. QED
  BY <1>2, <1>3 DEF ProvisionRequest, DeleteRequest

\* A revision applied for a call that is alone takes no port its last VLAN.
AlonePortsKeepAVlan ==
  [][\A s \in Servers : alone[s] /\ at[s] = "apply" /\ ~Done(s) /\ Done(s)' =>
       \A p \in Ports : config.member[p] \notin {None, {}} => config'.member[p] \notin {None, {}}]_vars

\* A call that its caller waits for empties a port only if another call has changed the switch
\* between its reads and the end of its revision: the exact condition of the run cumulus_race.
THEOREM PortsEmptiedOnlyByRaces == CumulusSpec => AlonePortsKeepAVlan
<1>1. CumulusInv /\ Carried /\ AloneInv /\ [CumulusNext]_vars =>
        [\A s \in Servers : alone[s] /\ at[s] = "apply" /\ ~Done(s) /\ Done(s)' =>
           \A p \in Ports : config.member[p] \notin {None, {}} => config'.member[p] \notin {None, {}}]_vars
  <2> SUFFICES ASSUME CumulusInv, Carried, AloneInv, [CumulusNext]_vars,
                      NEW s \in Servers, alone[s], at[s] = "apply", ~Done(s), Done(s)',
                      NEW p \in Ports, config.member[p] \notin {None, {}}
               PROVE  config'.member[p] \notin {None, {}}
    OBVIOUS
  <2>1. ASSUME config' # config PROVE \E t \in Tree : t \in arg[s] /\ config' = Merge(config, t)
    <3>1. PICK n \in RevIds : Settle(n)
      BY <2>1, ConfigStep
    <3>2. mine' = mine /\ (mine[s] # n => state'[mine[s]] = state[mine[s]])
      BY <3>1, SettleEffect, ClientTypes DEF Done
    <3>3. mine[s] = n /\ n # 0 /\ state[n] = "applying"
      BY <3>1, <3>2, SettleEffect DEF Done
    <3>4. tree[n] = arg[s]
      BY <3>3 DEF Carried
    <3>5. QED
      BY <2>1, <3>1, <3>4, SettleEffect, ClientTypes
  <2>2. ASSUME NEW t \in Tree, t \in arg[s], config' = Merge(config, t)
        PROVE  config'.member[p] \notin {None, {}}
    <3>1. PICK q \in req[s] : q \in ProvisionRequest \cup DeleteRequest
      <4>1. req[s] # {} /\ req[s] \subseteq Provisions \cup Deletes
        BY DEF CumulusInv, AtWork
      <4>2. QED
        BY <4>1, RequestKinds
    <3>2. Suits(config, q, t)
      BY <2>2 DEF AloneInv, Current
    <3>3. QED
      BY <2>2, <3>1, <3>2, MergeKeepsPorts, TypeParts DEF CumulusInv
  <2>3. QED
    BY <2>1, <2>2
<1>2. QED
  BY <1>1, AloneInvariant, CarriedInvariant, PTL DEF CumulusSpec, AlonePortsKeepAVlan

\* Callers give every VLAN a VNI of its own, own[v].
OwnVnis(own) ==
  /\ \A v, w \in Vlans : own[v] = own[w] => v = w
  /\ \A q \in Provisions : q.vni = own[q.vlan]
  /\ \A c \in InitConfigs : \A v \in Vlans : c.vlan[v] = None \/ c.vlan[v] \subseteq {own[v]}

\* Then no switch, no call that has read it, however long ago, and no change has another.
OwnInv(own) ==
  /\ \A v \in Vlans : config.vlan[v] = None \/ config.vlan[v] \subseteq {own[v]}
  /\ \A s \in Servers : \A v \in Vlans : records[s][v] \in {None, own[v]}
  /\ \A t \in Tree : Given(t) => t.vni = own[t.vlan]

\* A call has read what was there, or has forgotten it.
LEMMA RecordsStep ==
  ASSUME CumulusInv, [CumulusNext]_vars, NEW s \in Servers, NEW v \in Vlans
  PROVE  \/ records'[s][v] \in {None, records[s][v]}
         \/ config.vlan[v] \notin {None, {}} /\ records'[s][v] \in config.vlan[v]
<1>1. records \in [Servers -> [Vlans -> Vnis \cup {None}]]
  BY TypeParts DEF CumulusInv, BackendOK
<1>2. ASSUME NEW u \in Servers, NEW a, Return(u, a) PROVE records'[s][v] \in {None, records[s][v]}
  BY <1>1, <1>2 DEF Return, NoRecords
<1>3. ASSUME NEW u \in Servers, ReadRecords(u)
      PROVE  \/ records'[s][v] \in {None, records[s][v]}
             \/ config.vlan[v] \notin {None, {}} /\ records'[s][v] \in config.vlan[v]
  <2>1. PICK recs \in [Vlans -> Vnis \cup {None}] :
          Records(config.vlan, recs) /\ records' = [records EXCEPT ![u] = recs]
    BY <1>3 DEF ReadRecords
  <2>2. QED
    BY <1>1, <2>1 DEF Records
<1>4. ASSUME NEW u \in Servers, \/ Provision(u) \/ Delete(u) \/ ReadVnis(u) \/ Applying(u)
      PROVE  records' = records
  BY <1>4 DEF Provision, Delete, Begin, ReadVnis, Applying, backend, gathered
<1>5. ASSUME NEW u \in Servers, ReadFails(u) \/ Prerequisites(u) \/ Finish(u)
      PROVE  records' = records \/ \E a : Return(u, a)
  BY <1>5 DEF ReadFails, Prerequisites, Finish, gathered
<1>6. ASSUME NEW u \in Servers, ReadInterfaces(u) \/ ReadBridge(u)
      PROVE  records' = records \/ \E a : Return(u, a)
  BY <1>6, LastRead DEF gathered
<1>7. CASE UNCHANGED backend
  BY <1>7 DEF backend, gathered
<1>8. QED
  BY <1>2, <1>3, <1>4, <1>5, <1>6, <1>7 DEF CumulusNext, Settled, vars

\* Every step keeps OwnInv.
LEMMA OwnStep ==
  ASSUME NEW own, OwnVnis(own), CumulusInv, OwnInv(own), [CumulusNext]_vars
  PROVE  OwnInv(own)'
<1>1. config \in Config /\ config.vlan \in [Vlans -> {None} \cup SUBSET Vnis]
  BY TypeParts DEF CumulusInv, Config
<1>2. \A s \in Servers : \A v \in Vlans : records'[s][v] \in {None, own[v]}
  BY RecordsStep DEF OwnInv
<1>3. ASSUME NEW t \in Tree, Given(t)' PROVE t.vni = own[t.vlan]
  <2>1. ASSUME NEW s \in Servers, NEW q \in req[s], Asked(s, q, t) PROVE t.vni = own[t.vlan]
    <3>1. CASE at[s] = "bridge" /\ t.vni = q.vni /\ t.vlan = q.vlan
      <4>1. q \in Provisions
        BY <3>1, RequestKinds DEF CumulusInv, AtWork
      <4>2. QED
        BY <3>1, <4>1 DEF OwnVnis
    <3>2. ASSUME NEW v \in Vlans, Matches(q, v, records[s]), t.vlan = v, t.vni = records[s][v]
          PROVE  t.vni = own[t.vlan]
      BY <3>2 DEF Matches, OwnInv
    <3>3. QED
      BY <2>1, <3>1, <3>2 DEF Asked
  <2>2. QED
    BY <1>3, <2>1, ChangesStep DEF OwnInv
<1>4. \A v \in Vlans : config'.vlan[v] = None \/ config'.vlan[v] \subseteq {own[v]}
  <2>1. CASE config' = config
    BY <2>1 DEF OwnInv
  <2>2. ASSUME NEW t \in Tree, Given(t), config' = Merge(config, t)
        PROVE  \A v \in Vlans : config'.vlan[v] = None \/ config'.vlan[v] \subseteq {own[v]}
    <3>1. t.vlan \in Vlans /\ t.vni = own[t.vlan]
      BY <2>2 DEF Tree, OwnInv
    <3>2. /\ \A v \in Vlans \ {t.vlan} : config'.vlan[v] = config.vlan[v]
          /\ \/ config'.vlan[t.vlan] \in {None, {t.vni}}
             \/ config.vlan[t.vlan] # None /\ config'.vlan[t.vlan] = config.vlan[t.vlan] \cup {t.vni}
      <4>1. CASE t.op = "provision"
        <5>1. config'.vlan = [config.vlan EXCEPT ![t.vlan] = IF @ = None THEN {t.vni} ELSE @ \cup {t.vni}]
          BY <2>2, <4>1 DEF Merge, ProvisionMerge
        <5>2. QED
          BY <1>1, <3>1, <5>1
      <4>2. CASE t.op # "provision"
        <5>1. config'.vlan = [config.vlan EXCEPT ![t.vlan] = None]
          BY <2>2, <4>2 DEF Merge, DeleteMerge
        <5>2. QED
          BY <1>1, <3>1, <5>1
      <4>3. QED
        BY <4>1, <4>2
    <3>3. QED
      BY <3>1, <3>2 DEF OwnInv
  <2>3. ASSUME NEW n \in RevIds, NEW t \in Tree, t \in tree[n] PROVE Given(t)
    BY <2>3 DEF Given
  <2>4. QED
    BY <2>1, <2>2, <2>3, ChangesStep
<1>5. QED
  BY <1>2, <1>3, <1>4 DEF OwnInv

\* A change takes nothing from a working instance but what its own delete removes, and the
\* port without a list that a provision names.
LEMMA MergeSpares ==
  ASSUME NEW c \in Config, NEW t \in Tree, NEW v \in Vlans, Working(c, v),
         t.op = "provision" \/ t.vlan # v, c.vlan[v] = {t.vni} <=> t.vlan = v
  PROVE  /\ Merge(c, t).vlan[v] = c.vlan[v] /\ c.vlan[v] \subseteq Merge(c, t).evpn
         /\ \A p \in Ports : Carries(c, p, v) =>
              \/ Carries(Merge(c, t), p, v)
              \/ c.member[p] = {} /\ t.op = "provision" /\ p \in t.ports
<1>1. /\ c.vlan \in [Vlans -> {None} \cup SUBSET Vnis] /\ c.evpn \in SUBSET Vnis
      /\ c.member \in [Ports -> {None} \cup SUBSET Vlans]
      /\ t.vlan \in Vlans /\ None \notin SUBSET Vlans /\ None \notin SUBSET Vnis
  BY CumulusAssumption DEF Config, Tree
<1>2. PICK n \in c.evpn : c.vlan[v] = {n}
  BY DEF Working
<1>3. c.vlan[v] \in SUBSET Vnis /\ c.vlan[v] # None
  BY <1>1, <1>2
<1>4. ASSUME NEW p \in Ports, Carries(c, p, v)
      PROVE  c.member[p] \in SUBSET Vlans /\ c.member[p] # None /\ (c.member[p] = {} \/ v \in c.member[p])
  BY <1>1, <1>4 DEF Carries
<1>5. CASE t.op = "provision"
  <2>1. Merge(c, t) = ProvisionMerge(c, t)
    BY <1>5 DEF Merge
  <2>2. Merge(c, t).vlan[v] = c.vlan[v]
    <3>1. Merge(c, t).vlan = [c.vlan EXCEPT ![t.vlan] = IF @ = None THEN {t.vni} ELSE @ \cup {t.vni}]
      BY <2>1 DEF ProvisionMerge
    <3>2. CASE t.vlan = v
      BY <1>1, <1>3, <3>1, <3>2
    <3>3. CASE t.vlan # v
      BY <1>1, <3>1, <3>3
    <3>4. QED
      BY <3>2, <3>3
  <2>3. c.vlan[v] \subseteq Merge(c, t).evpn
    BY <1>2, <2>1 DEF ProvisionMerge
  <2>4. ASSUME NEW p \in Ports, Carries(c, p, v), ~(c.member[p] = {} /\ p \in t.ports)
        PROVE  Carries(Merge(c, t), p, v)
    <3>1. Merge(c, t).member[p] = IF p \notin t.ports THEN c.member[p] ELSE c.member[p] \cup {t.vlan}
      BY <1>4, <2>1, <2>4 DEF ProvisionMerge
    <3>2. CASE p \notin t.ports
      BY <2>4, <3>1, <3>2 DEF Carries
    <3>3. CASE p \in t.ports
      <4>1. v \in c.member[p] /\ Merge(c, t).member[p] = c.member[p] \cup {t.vlan}
        BY <1>4, <2>4, <3>1, <3>3
      <4>2. Merge(c, t).member[p] \in SUBSET Vlans /\ v \in Merge(c, t).member[p]
        BY <1>1, <1>4, <2>4, <4>1
      <4>3. QED
        BY <1>1, <4>2 DEF Carries
    <3>4. QED
      BY <3>2, <3>3
  <2>5. QED
    BY <1>5, <2>2, <2>3, <2>4
<1>6. CASE t.op # "provision"
  <2>1. Merge(c, t) = DeleteMerge(c, t) /\ t.vlan # v
    BY <1>6 DEF Merge
  <2>2. Merge(c, t).vlan[v] = c.vlan[v]
    BY <1>1, <2>1 DEF DeleteMerge
  <2>3. c.vlan[v] \subseteq Merge(c, t).evpn
    BY <1>2, <2>1 DEF DeleteMerge
  <2>4. ASSUME NEW p \in Ports, Carries(c, p, v) PROVE Carries(Merge(c, t), p, v)
    <3>1. Merge(c, t).member[p] = c.member[p] \/ Merge(c, t).member[p] = c.member[p] \ {t.vlan}
      BY <2>1 DEF DeleteMerge
    <3>2. /\ Merge(c, t).member[p] \in SUBSET Vlans
          /\ c.member[p] = {} => Merge(c, t).member[p] = {}
          /\ v \in c.member[p] => v \in Merge(c, t).member[p]
      BY <1>4, <2>1, <2>4, <3>1
    <3>3. QED
      BY <1>1, <1>4, <2>4, <3>2 DEF Carries
  <2>5. QED
    BY <2>2, <2>3, <2>4
<1>7. QED
  BY <1>5, <1>6

\* A step changes the configuration by what it brings, if at all.
LEMMA ArrivingStep ==
  ASSUME CumulusInv, [CumulusNext]_vars
  PROVE  config' = config \/ \E t \in Tree : t \in Arriving /\ Given(t) /\ config' = Merge(config, t)
<1>1. ASSUME NEW n \in RevIds, Settle(n), config' # config
      PROVE  \E t \in Tree : t \in Arriving /\ Given(t) /\ config' = Merge(config, t)
  <2>1. state[n] = "applying"
    BY <1>1, SettleEffect
  <2>2. PICK t \in tree[n] : state'[n] = "applied" /\ config' = Merge(config, t)
    BY <1>1, SettleEffect
  <2>3. t \in Tree /\ Given(t) /\ t \in Arriving
    BY <2>1, <2>2, ClientTypes DEF Given, Arriving
  <2>4. QED
    BY <2>2, <2>3
<1>2. QED
  BY <1>1, ConfigStep

\* However many calls overlap, however old what they have read, and however late NVUE applies
\* what calls that are over or killed have left behind, no revision takes its VNI, or any one of
\* its ports, from a working instance of another VLAN, if callers give every VLAN a VNI of its
\* own; but for the port without a VLAN list that a provision names (backend.py:463).
THEOREM OtherInstancesUntouched ==
  ASSUME NEW own, OwnVnis(own)
  PROVE  CumulusSpec => OthersUntouched
<1>1. CumulusInit => OwnInv(own)
  <2>1. CumulusInit => \A t : ~Given(t)
    BY DEF CumulusInit, NvueInit, Given
  <2>2. QED
    BY <2>1 DEF CumulusInit, NvueInit, OwnVnis, OwnInv, NoRecords
<1>2. CumulusInv /\ OwnInv(own) /\ [CumulusNext]_vars => OwnInv(own)'
  BY OwnStep
<1>3. ASSUME CumulusInv, OwnInv(own), [CumulusNext]_vars, NEW v \in Vlans, Working(config, v),
             \A t \in Arriving : t.op = "provision" \/ t.vlan # v
      PROVE  /\ config'.vlan[v] = config.vlan[v] /\ config.vlan[v] \subseteq config'.evpn
             /\ \A p \in Ports : Carries(config, p, v) =>
                  \/ Carries(config', p, v)
                  \/ config.member[p] = {} /\ \E t \in Arriving : t.op = "provision" /\ p \in t.ports
  <2>1. CASE config' = config
    BY <1>3, <2>1 DEF Working
  <2>2. ASSUME NEW t \in Tree, t \in Arriving, Given(t), config' = Merge(config, t)
        PROVE  /\ config'.vlan[v] = config.vlan[v] /\ config.vlan[v] \subseteq config'.evpn
               /\ \A p \in Ports : Carries(config, p, v) =>
                    \/ Carries(config', p, v)
                    \/ config.member[p] = {} /\ t.op = "provision" /\ p \in t.ports
    <3>1. t.vlan \in Vlans /\ t.vni = own[t.vlan] /\ config \in Config
      BY <1>3, <2>2, TypeParts DEF Tree, OwnInv, CumulusInv
    <3>2. config.vlan[v] = {own[v]}
      <4>1. PICK m \in config.evpn : config.vlan[v] = {m}
        BY <1>3 DEF Working
      <4>2. config.vlan[v] # None
        BY <3>1, <4>1, CumulusAssumption DEF Config
      <4>3. QED
        BY <1>3, <4>1, <4>2 DEF OwnInv
    <3>3. config.vlan[v] = {t.vni} <=> t.vlan = v
      BY <3>1, <3>2 DEF OwnVnis
    <3>4. t.op = "provision" \/ t.vlan # v
      BY <1>3, <2>2
    <3>5. QED
      BY <1>3, <2>2, <3>1, <3>3, <3>4, MergeSpares
  <2>3. QED
    BY <1>3, <2>1, <2>2, ArrivingStep
<1>4. QED
  <2>1. CumulusInv /\ OwnInv(own) /\ [CumulusNext]_vars =>
          [\A v \in Vlans : Working(config, v) /\ (\A t \in Arriving : t.op = "provision" \/ t.vlan # v) =>
             /\ config'.vlan[v] = config.vlan[v] /\ config.vlan[v] \subseteq config'.evpn
             /\ \A p \in Ports : Carries(config, p, v) =>
                  \/ Carries(config', p, v)
                  \/ config.member[p] = {} /\ \E t \in Arriving : t.op = "provision" /\ p \in t.ports]_vars
    BY <1>3
  <2>2. QED
    BY <1>1, <1>2, <2>1, CumulusInvariant, PTL DEF CumulusSpec, OthersUntouched
=============================================================================
