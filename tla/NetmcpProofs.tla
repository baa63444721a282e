----------------------------- MODULE NetmcpProofs -----------------------------
(***************************************************************************)
(* Theorems about Netmcp, for any labs, files, environments, nodes, requests,  *)
(* servers and faults.  NetmcpInv says what the servers have loaded and what     *)
(* the calls at work are; AnswersInv adds what a call has done to its entry.     *)
(***************************************************************************)
EXTENDS Netmcp, InventoryProofs, TLAPS

-----------------------------------------------------------------------------
(* What the servers have loaded.                                           *)

\* The hosts of a server's nodes.
Reachable(i) == \A n \in DOMAIN i.table : i.table[n].fqdn \in Targets

InventoryInv ==
  /\ InventoryTypeOK
  /\ inv = [s \in Servers |-> inv[s]]
  /\ YmlMade
  /\ \A d \in Dirs : yml[d] \in YmlFile => \A e \in yml[d].nodes : e.fqdn \in Targets
  /\ \A s \in Servers : \A i \in inv[s] : NodesMatch(i) /\ Reachable(i) /\ \A j \in inv[s] : i = j

\* A server connects to the hosts it has loaded.
LEMMA LoadedReachable ==
  ASSUME InventoryInv, NEW e \in Environments, NEW i \in LoadNodes(e)
  PROVE  Reachable(i)
<1>1. CASE i = [table |-> <<>>, lab |-> {}]
  <2>1. DOMAIN i.table = {}
    BY <1>1
  <2>2. QED
    BY <2>1 DEF Reachable
<1>2. CASE i \in ClabNodes(e)
  <2>1. PICK t \in Topologies : i = FromClab(t)
    BY <1>2 DEF ClabNodes
  <2>2. DOMAIN i.table = Routers(t)
    BY <2>1 DEF FromClab
  <2>3. QED
    BY <2>1, <2>2, NetmcpAssumption DEF Reachable
<1>3. CASE \E d \in FirstUp(yml, e.cwd) : yml[d] \in YmlFile /\ i \in FromYml(yml[d])
  <2>1. PICK d \in Dirs : yml[d] \in YmlFile /\ i \in FromYml(yml[d])
    BY <1>3 DEF FirstUp
  <2> DEFINE file == yml[d]
  <2> DEFINE names == {f.name : f \in file.nodes}
  <2>2. PICK p \in [names -> file.nodes] :
          i = [table |-> [n \in names |-> Info(p[n].fqdn, p[n].nos, p[n].login)], lab |-> file.lab]
    BY <2>1 DEF FromYml
  <2>3. \A n \in names : Info(p[n].fqdn, p[n].nos, p[n].login).fqdn = p[n].fqdn
    BY DEF Info
  <2>4. \A n \in names : p[n].fqdn \in Targets
    BY <2>1, <2>2 DEF InventoryInv
  <2>5. QED
    BY <2>2, <2>3, <2>4 DEF Reachable
<1>4. QED
  BY <1>1, <1>2, <1>3, LoadedFrom DEF InventoryInv, InventoryTypeOK

\* The bound on changes is kept.
LEMMA OneMore == \A c \in 0..MaxChanges : c < MaxChanges => c + 1 \in 0..MaxChanges
<1>1. MaxChanges \in Nat
  BY InventoryAssumption
<1>2. QED
  BY ONLY <1>1

LEMMA InventoryInvInit == InventoryInit => InventoryInv
<1> SUFFICES ASSUME InventoryInit PROVE InventoryInv
  OBVIOUS
<1>1. running \subseteq Topologies /\ yml \in YmlTable /\ changes \in 0..MaxChanges
  BY InventoryAssumption DEF InventoryInit
<1>2. inv = [s \in Servers |-> inv[s]] /\ \A s \in Servers : inv[s] = {}
  BY DEF InventoryInit
<1>3. YmlMade
  BY InventoryAssumption DEF InventoryInit, YmlMade
<1>4. \A d \in Dirs : yml[d] \in YmlFile => \A e \in yml[d].nodes : e.fqdn \in Targets
  BY NetmcpAssumption DEF InventoryInit
<1>5. QED
  BY <1>1, <1>2, <1>3, <1>4 DEF InventoryInv, InventoryTypeOK

\* A lab is deployed or destroyed.
LEMMA LabsChange ==
  ASSUME InventoryInv, NEW t \in Topologies, Deploy(t) \/ Destroy(t)
  PROVE  InventoryInv'
<1>1. changes' \in 0..MaxChanges
  BY OneMore DEF Deploy, Destroy, OneMoreChange, InventoryInv, InventoryTypeOK
<1>2. running' \subseteq Topologies /\ UNCHANGED <<yml, inv>>
  BY DEF Deploy, Destroy, InventoryInv, InventoryTypeOK
<1>3. QED
  BY <1>1, <1>2 DEF InventoryInv, InventoryTypeOK, YmlMade

\* A netmcp.yml is written.
LEMMA YmlWritten ==
  ASSUME InventoryInv, NEW d \in Dirs, WriteInventory(d)
  PROVE  InventoryInv'
<1>1. changes' \in 0..MaxChanges
  BY OneMore DEF WriteInventory, OneMoreChange, InventoryInv, InventoryTypeOK
<1>2. PICK t \in Topologies : yml' = [yml EXCEPT ![d] = InspectToYml(t)]
  BY DEF WriteInventory, Inspected, InventoryInv, InventoryTypeOK
<1>3. InspectToYml(t) \in YmlFile /\ InspectToYml(t).lab = {t}
  BY InspectType
<1>4. yml \in YmlTable
  BY DEF InventoryInv, InventoryTypeOK
<1>5. yml'[d] = InspectToYml(t) /\ \A c \in Dirs \ {d} : yml'[c] = yml[c]
  BY <1>2, <1>4 DEF YmlTable
<1>6. yml' \in YmlTable
  BY <1>2, <1>3, <1>4 DEF YmlTable
<1>7. YmlMade'
  <2>1. \A c \in Dirs : yml'[c] \in YmlFile => \A u \in yml'[c].lab : yml'[c] = InspectToYml(u)
    BY <1>3, <1>5 DEF InventoryInv, YmlMade
  <2>2. QED
    BY <2>1 DEF YmlMade
<1>8. \A c \in Dirs : yml'[c] \in YmlFile => \A e \in yml'[c].nodes : e.fqdn \in Targets
  <2>1. \A e \in InspectToYml(t).nodes : e.fqdn \in Targets
    <3>1. ASSUME NEW e \in InspectToYml(t).nodes PROVE \E n \in Routers(t) : e.fqdn = Container(t, n)
      BY DEF InspectToYml
    <3>2. QED
      BY <3>1, NetmcpAssumption
  <2>2. QED
    BY <1>5, <2>1 DEF InventoryInv
<1>9. UNCHANGED <<running, inv>>
  BY DEF WriteInventory
<1>10. QED
  BY <1>1, <1>6, <1>7, <1>8, <1>9 DEF InventoryInv, InventoryTypeOK

\* A server starts or ends.
LEMMA ServerChanges ==
  ASSUME InventoryInv, NEW s \in Servers, Start(s) \/ Stop(s)
  PROVE  /\ InventoryInv'
         /\ \A u \in Servers \ {s} : inv'[u] = inv[u]
<1>1. UNCHANGED <<running, yml>> /\ changes' \in 0..MaxChanges
  BY OneMore DEF Start, Stop, OneMoreChange, InventoryInv, InventoryTypeOK
<1>2. ASSUME NEW i, inv' = [inv EXCEPT ![s] = {i}], NodesOK(i), NodesMatch(i), Reachable(i)
      PROVE  InventoryInv' /\ \A u \in Servers \ {s} : inv'[u] = inv[u]
  <2>1. inv'[s] = {i} /\ \A u \in Servers \ {s} : inv'[u] = inv[u]
    BY <1>2 DEF InventoryInv
  <2>2. inv' = [u \in Servers |-> inv'[u]]
    BY <1>2 DEF InventoryInv
  <2>3. \A u \in Servers : \A j \in inv'[u] :
          NodesOK(j) /\ NodesMatch(j) /\ Reachable(j) /\ \A k \in inv'[u] : j = k
    BY <1>2, <2>1 DEF InventoryInv, InventoryTypeOK, NodesOK
  <2>4. QED
    BY <1>1, <2>1, <2>2, <2>3 DEF InventoryInv, InventoryTypeOK, NodesOK, YmlMade
<1>3. CASE Start(s)
  <2>1. PICK e \in Environments : \E i \in LoadNodes(e) : inv' = [inv EXCEPT ![s] = {i}]
    BY <1>3 DEF Start
  <2>2. PICK i \in LoadNodes(e) : inv' = [inv EXCEPT ![s] = {i}]
    BY <2>1
  <2>3. NodesOK(i) /\ NodesMatch(i) /\ Reachable(i)
    BY LoadedOK, LoadedReachable DEF InventoryInv, InventoryTypeOK
  <2>4. QED
    BY <1>2, <2>2, <2>3
<1>4. CASE Stop(s)
  <2>1. inv' = [inv EXCEPT ![s] = {}]
    BY <1>4 DEF Stop
  <2>2. inv'[s] = {} /\ \A u \in Servers \ {s} : inv'[u] = inv[u]
    BY <2>1 DEF InventoryInv
  <2>3. inv' = [u \in Servers |-> inv'[u]]
    BY <2>1 DEF InventoryInv
  <2>4. QED
    BY <1>1, <2>2, <2>3 DEF InventoryInv, InventoryTypeOK, YmlMade
<1>5. QED
  BY <1>3, <1>4

-----------------------------------------------------------------------------
(* Calls.                                                                  *)

\* The call has been resolved in these nodes.
ResolvedIn(k, i) == k.node \in DOMAIN i.table /\ k.to = i.table[k.node].fqdn

CallsInv ==
  /\ \A s \in Servers : inv[s] = {} => pc[s] = "idle"
  /\ \A s \in Servers : \A k \in req[s] : \A j \in req[s] : k = j
  /\ \A s \in Servers : pc[s] # "idle" =>
       /\ said[s] = "none" /\ lost[s] = FALSE
       /\ \A k \in req[s] : /\ pc[s] # "get" => k.q.op # "get"
                            /\ \A i \in inv[s] : ResolvedIn(k, i)

NetmcpInv == InventoryInv /\ SrosTypeOK /\ CallsInv

\* A call that begins: refused or a dry run, or resolved and at its first request.
Started(s, k, next, answer) ==
  /\ Begin(s, k, next, answer)
  /\ \/ next = "idle" /\ answer = "other"
     \/ next \in {"get", "set"} /\ answer = "none"
  /\ k \subseteq Call /\ \A c \in k : \A d \in k : c = d
  /\ inv[s] # {}
  /\ \A c \in k : (next = "set" => c.q.op # "get") /\ \A i \in inv[s] : ResolvedIn(c, i)

LEMMA ToolStarts ==
  ASSUME NetmcpInv, NEW s \in Servers, Tool(s)
  PROVE  \E k, next, answer : Started(s, k, next, answer)
<1>1. PICK i \in inv[s], n \in NodeNames, q \in Requests :
        \/ Begin(s, {}, "idle", "other")
        \/ \E info \in Resolve(i.table, n) :
             LET k == [node |-> n, to |-> info.fqdn, q |-> q] IN
             \/ GetEvpnInstance(s, k) \/ SetInterfaceDescription(s, k)
             \/ ProvisionEvpnInstance(s, k) \/ DeleteEvpnInstance(s, k)
  BY DEF Tool
<1>2. CASE Begin(s, {}, "idle", "other")
  <2>1. Started(s, {}, "idle", "other")
    BY <1>2 DEF Started
  <2>2. QED
    BY <2>1
<1>3. ASSUME NEW info \in Resolve(i.table, n), NEW k, k = [node |-> n, to |-> info.fqdn, q |-> q],
             \/ GetEvpnInstance(s, k) \/ SetInterfaceDescription(s, k)
             \/ ProvisionEvpnInstance(s, k) \/ DeleteEvpnInstance(s, k)
      PROVE  \E c, next, answer : Started(s, c, next, answer)
  <2>1. n \in DOMAIN i.table /\ info = i.table[n]
    BY DEF Resolve
  <2>2. k.node = n /\ k.to = info.fqdn /\ k.q = q
    BY <1>3
  <2>3. info.fqdn \in Targets /\ \A j \in inv[s] : j = i
    BY <2>1 DEF NetmcpInv, InventoryInv, Reachable
  <2>4. k \in Call /\ \A j \in inv[s] : ResolvedIn(k, j)
    <3>1. k \in Call
      BY <1>3, <2>3 DEF Call
    <3>2. \A j \in inv[s] : ResolvedIn(k, j)
      BY <2>1, <2>2, <2>3 DEF ResolvedIn
    <3>3. QED
      BY <3>1, <3>2
  <2>5. CASE GetEvpnInstance(s, k)
    <3>1. Started(s, {k}, "get", "none")
      BY <2>4, <2>5 DEF GetEvpnInstance, Started
    <3>2. QED
      BY <3>1
  <2>6. ASSUME Begin(s, {k}, "idle", "other") PROVE Started(s, {k}, "idle", "other")
    BY <2>4, <2>6 DEF Started
  <2>7. CASE Write(s, k) /\ k.q.op # "get"
    <3>1. ASSUME Begin(s, {k}, "set", "none") PROVE Started(s, {k}, "set", "none")
      BY <2>4, <2>7, <3>1 DEF Started
    <3>2. QED
      BY <2>6, <2>7, <3>1 DEF Write
  <2>8. QED
    BY <1>3, <2>5, <2>6, <2>7 DEF SetInterfaceDescription, ProvisionEvpnInstance, DeleteEvpnInstance
<1>4. QED
  BY <1>1, <1>2, <1>3

\* The bound on calls is kept.
LEMMA OneMoreCall == \A c \in 0..MaxCalls : c < MaxCalls => c + 1 \in 0..MaxCalls
<1>1. MaxCalls \in Nat
  BY SrosAssumption
<1>2. QED
  BY ONLY <1>1

LEMMA StartedInv ==
  ASSUME NetmcpInv, NEW s \in Servers, NEW k, NEW next, NEW answer,
         Started(s, k, next, answer), UNCHANGED inventoryVars
  PROVE  NetmcpInv'
<1>1. InventoryInv'
  BY DEF NetmcpInv, InventoryInv, inventoryVars, InventoryTypeOK, YmlMade
<1>2. /\ next \in {"idle", "get", "set"} /\ answer \in {"none", "other"} /\ k \in SUBSET Call
      /\ pc' = [pc EXCEPT ![s] = next] /\ req' = [req EXCEPT ![s] = k]
      /\ said' = [said EXCEPT ![s] = answer] /\ lost' = [lost EXCEPT ![s] = FALSE]
      /\ conf' = conf
  BY DEF Started, Begin
<1>3. SrosTypeOK'
  <2>1. calls' \in 0..MaxCalls
    BY OneMoreCall DEF Started, Begin, NetmcpInv, SrosTypeOK
  <2>2. alone' \in [Servers -> BOOLEAN]
    BY DEF Started, Begin, NetmcpInv, SrosTypeOK
  <2>3. absent' \in [Servers -> SUBSET (Targets \X Entries)]
    BY DEF Started, Begin, NetmcpInv, SrosTypeOK
  <2>4. QED
    BY <1>2, <2>1, <2>2, <2>3 DEF NetmcpInv, SrosTypeOK
<1>4. CallsInv'
  <2>1. /\ pc'[s] = next /\ req'[s] = k /\ said'[s] = answer /\ lost'[s] = FALSE
        /\ \A u \in Servers \ {s} :
             pc'[u] = pc[u] /\ req'[u] = req[u] /\ said'[u] = said[u] /\ lost'[u] = lost[u]
    BY <1>2 DEF NetmcpInv, SrosTypeOK
  <2>2. inv' = inv
    BY DEF inventoryVars
  <2>3. ASSUME NEW u \in Servers
        PROVE  /\ inv[u] = {} => pc'[u] = "idle"
               /\ \A c \in req'[u] : \A d \in req'[u] : c = d
               /\ pc'[u] # "idle" =>
                    /\ said'[u] = "none" /\ lost'[u] = FALSE
                    /\ \A c \in req'[u] : /\ pc'[u] # "get" => c.q.op # "get"
                                          /\ \A i \in inv[u] : ResolvedIn(c, i)
    <3>1. CASE u = s
      BY <2>1, <3>1 DEF Started
    <3>2. CASE u # s
      BY <2>1, <3>2 DEF NetmcpInv, CallsInv
    <3>3. QED
      BY <3>1, <3>2
  <2>4. QED
    BY <2>2, <2>3 DEF CallsInv
<1>5. QED
  BY <1>1, <1>3, <1>4 DEF NetmcpInv

\* What is known of a call at work.
LEMMA CallTypes ==
  ASSUME NetmcpInv, NEW s \in Servers, NEW k \in req[s]
  PROVE  /\ k.node \in NodeNames /\ k.to \in Targets /\ k.q \in Requests /\ k.q.entry \in Entries
         /\ k.q.op \notin {"get", "delete"} => k.q.body \in Bodies
<1>1. k \in Call
  BY DEF NetmcpInv, SrosTypeOK
<1>2. k.q \in Request
  BY <1>1, SrosAssumption DEF Call
<1>3. QED
  BY <1>1, <1>2 DEF Call, Request, ReadRequest, WriteRequest, DescribeRequest, Entries

\* What a Set does to the entry of its call, and to no other.
LEMMA AppliedTo ==
  ASSUME NetmcpInv, NEW s \in Servers, pc[s] = "set", NEW k \in req[s], Applied(k)
  PROVE  /\ conf' \in ConfTable
         /\ k.q.op = "delete" => conf'[k.to][k.q.entry] = None
         /\ k.q.op # "delete" => /\ conf'[k.to][k.q.entry] = Updated(Configured(k), k.q.body)
                                 /\ Updated(Configured(k), k.q.body) \in Entry
         /\ \A to \in Targets, e \in Entries : <<to, e>> # Place(k) => conf'[to][e] = conf[to][e]
<1>1. /\ conf \in ConfTable /\ k.to \in Targets /\ k.q.entry \in Entries
      /\ k.q.op # "delete" => k.q.body \in Bodies
  BY CallTypes DEF NetmcpInv, SrosTypeOK, CallsInv
<1>2. Configured(k) \in Entry \cup {None}
  BY <1>1 DEF Configured, ConfTable
<1>3. k.q.op # "delete" => Updated(Configured(k), k.q.body) \in Entry
  BY <1>1, <1>2 DEF Updated, Entry
<1> DEFINE new == IF k.q.op = "delete" THEN None ELSE Updated(Configured(k), k.q.body)
<1>4. new \in Entry \cup {None}
  BY <1>3
<1>5. conf' = [conf EXCEPT ![k.to] = [@ EXCEPT ![k.q.entry] = new]]
  BY <1>1 DEF Applied, Configured, ConfTable
<1> HIDE DEF new
<1>6. conf' \in ConfTable
  BY <1>1, <1>4, <1>5 DEF ConfTable
<1>7. conf'[k.to][k.q.entry] = new
  BY <1>1, <1>5 DEF ConfTable
<1>8. ASSUME NEW to \in Targets, NEW e \in Entries, to # k.to \/ e # k.q.entry
      PROVE  conf'[to][e] = conf[to][e]
  BY <1>1, <1>5, <1>8 DEF ConfTable
<1>9. QED
  BY <1>3, <1>6, <1>7, <1>8 DEF new, Place

\* A call at work that goes on or ends: what is left to check.
LEMMA BackendInv ==
  ASSUME NetmcpInv, NEW s \in Servers, pc[s] # "idle", UNCHANGED inventoryVars,
         conf' \in ConfTable, absent' \in [Servers -> SUBSET (Targets \X Entries)],
         UNCHANGED <<req, calls>>, alone' \in [Servers -> BOOLEAN],
         \/ /\ UNCHANGED <<said, lost>>
            /\ pc' = [pc EXCEPT ![s] = "reply"] /\ pc[s] = "set"
         \/ /\ pc' = [pc EXCEPT ![s] = "idle"]
            /\ \E a \in {"ok", "error", "found", "not found", "other"} : said' = [said EXCEPT ![s] = a]
            /\ \E l \in BOOLEAN : lost' = [lost EXCEPT ![s] = l]
  PROVE  NetmcpInv'
<1>1. InventoryInv'
  BY DEF NetmcpInv, InventoryInv, inventoryVars, InventoryTypeOK, YmlMade
<1> DEFINE Moved ==
      /\ pc' \in [Servers -> {"idle", "get", "set", "reply"}] /\ lost' \in [Servers -> BOOLEAN]
      /\ said' \in [Servers -> {"none", "ok", "error", "found", "not found", "other"}]
      /\ \A u \in Servers \ {s} : pc'[u] = pc[u] /\ said'[u] = said[u] /\ lost'[u] = lost[u]
      /\ \/ pc'[s] = "idle"
         \/ pc'[s] = "reply" /\ pc[s] = "set" /\ said'[s] = said[s] /\ lost'[s] = lost[s]
<1>2. Moved
  <2>1. /\ pc \in [Servers -> {"idle", "get", "set", "reply"}] /\ lost \in [Servers -> BOOLEAN]
        /\ said \in [Servers -> {"none", "ok", "error", "found", "not found", "other"}]
    BY DEF NetmcpInv, SrosTypeOK
  <2>2. CASE UNCHANGED <<said, lost>> /\ pc' = [pc EXCEPT ![s] = "reply"] /\ pc[s] = "set"
    BY <2>1, <2>2
  <2>3. ASSUME NEW a \in {"ok", "error", "found", "not found", "other"}, NEW l \in BOOLEAN,
               pc' = [pc EXCEPT ![s] = "idle"], said' = [said EXCEPT ![s] = a],
               lost' = [lost EXCEPT ![s] = l]
        PROVE  Moved
    BY <2>1, <2>3
  <2>4. QED
    BY <2>2, <2>3
<1>3. SrosTypeOK'
  BY <1>2 DEF NetmcpInv, SrosTypeOK
<1>4. CallsInv'
  <2>1. ASSUME NEW u \in Servers
        PROVE  /\ inv[u] = {} => pc'[u] = "idle"
               /\ pc'[u] # "idle" =>
                    /\ said'[u] = "none" /\ lost'[u] = FALSE
                    /\ \A c \in req[u] : /\ pc'[u] # "get" => c.q.op # "get"
                                         /\ \A i \in inv[u] : ResolvedIn(c, i)
    <3>1. CASE u = s
      <4>1. /\ inv[s] # {} /\ said[s] = "none" /\ lost[s] = FALSE
            /\ \A c \in req[s] : \A i \in inv[s] : ResolvedIn(c, i)
            /\ pc[s] = "set" => \A c \in req[s] : c.q.op # "get"
        BY DEF NetmcpInv, CallsInv
      <4>2. CASE pc'[s] = "idle"
        BY <3>1, <4>2
      <4>3. CASE pc'[s] = "reply" /\ pc[s] = "set" /\ said'[s] = said[s] /\ lost'[s] = lost[s]
        <5>1. said'[s] = "none" /\ lost'[s] = FALSE
          BY <4>1, <4>3
        <5>2. QED
          BY <3>1, <4>1, <4>3, <5>1
      <4>4. QED
        BY <1>2, <4>2, <4>3
    <3>2. CASE u # s
      <4>1. pc'[u] = pc[u] /\ said'[u] = said[u] /\ lost'[u] = lost[u]
        BY <1>2, <3>2
      <4>2. /\ inv[u] = {} => pc[u] = "idle"
            /\ pc[u] # "idle" =>
                 /\ said[u] = "none" /\ lost[u] = FALSE
                 /\ \A c \in req[u] : /\ pc[u] # "get" => c.q.op # "get"
                                      /\ \A i \in inv[u] : ResolvedIn(c, i)
        BY DEF NetmcpInv, CallsInv
      <4>3. QED
        BY <4>1, <4>2
    <3>3. QED
      BY <3>1, <3>2
  <2>2. inv' = inv
    BY DEF inventoryVars
  <2>3. QED
    BY <2>1, <2>2 DEF NetmcpInv, CallsInv
<1>5. QED
  BY <1>1, <1>3, <1>4 DEF NetmcpInv

LEMMA GetInv ==
  ASSUME NetmcpInv, NEW s \in Servers, Get(s), UNCHANGED inventoryVars
  PROVE  NetmcpInv'
<1>1. /\ pc[s] = "get" /\ UNCHANGED <<conf, req, alone, lost, calls>>
      /\ pc' = [pc EXCEPT ![s] = "idle"]
      /\ \E a \in {"found", "not found"} : said' = [said EXCEPT ![s] = a]
  BY DEF Get, End
<1>2. absent' \in [Servers -> SUBSET (Targets \X Entries)]
  <2>1. \E A \in SUBSET (Targets \X Entries) : absent' = [absent EXCEPT ![s] = A]
    <3>1. \A k \in req[s] : Place(k) \in Targets \X Entries
      BY CallTypes DEF Place
    <3>2. absent[s] \in SUBSET (Targets \X Entries) /\ absent = [absent EXCEPT ![s] = absent[s]]
      BY DEF NetmcpInv, SrosTypeOK
    <3>3. QED
      BY <3>1, <3>2 DEF Get
  <2>2. QED
    BY <2>1 DEF NetmcpInv, SrosTypeOK
<1>3. /\ conf' \in ConfTable /\ alone' \in [Servers -> BOOLEAN]
      /\ lost' = [lost EXCEPT ![s] = lost[s]] /\ lost[s] \in BOOLEAN
  BY <1>1 DEF NetmcpInv, SrosTypeOK
<1>4. QED
  BY <1>1, <1>2, <1>3, BackendInv

LEMMA SetInv ==
  ASSUME NetmcpInv, NEW s \in Servers, Set(s), UNCHANGED inventoryVars
  PROVE  NetmcpInv'
<1>1. /\ pc[s] = "set" /\ UNCHANGED <<req, absent, lost, calls>>
      /\ alone' \in [Servers -> BOOLEAN]
  BY DEF Set, Take, NetmcpInv, SrosTypeOK
<1>2. conf' \in ConfTable
  <2>1. \A k \in req[s] : Applied(k) => conf' \in ConfTable
    BY <1>1, AppliedTo
  <2>2. QED
    BY <2>1 DEF Set, Take, NetmcpInv, SrosTypeOK
<1>3. /\ absent' \in [Servers -> SUBSET (Targets \X Entries)]
      /\ lost' = [lost EXCEPT ![s] = lost[s]] /\ lost[s] \in BOOLEAN
  BY <1>1 DEF NetmcpInv, SrosTypeOK
<1>4. CASE Goto(s, "reply")
  BY <1>1, <1>2, <1>3, <1>4, BackendInv DEF Goto
<1>5. CASE \E a \in {"error", "other"} : End(s, a)
  BY <1>1, <1>2, <1>3, <1>5, BackendInv DEF End
<1>6. QED
  BY <1>4, <1>5 DEF Set, Take

LEMMA ReplyInv ==
  ASSUME NetmcpInv, NEW s \in Servers, Reply(s), UNCHANGED inventoryVars
  PROVE  NetmcpInv'
<1>1. /\ pc[s] = "reply" /\ UNCHANGED <<conf, req, alone, absent, calls>>
      /\ pc' = [pc EXCEPT ![s] = "idle"]
      /\ \E a \in {"ok", "error"} : said' = [said EXCEPT ![s] = a]
      /\ lost' = lost \/ lost' = [lost EXCEPT ![s] = TRUE]
  BY DEF Reply, End
<1>2. /\ conf' \in ConfTable /\ absent' \in [Servers -> SUBSET (Targets \X Entries)]
      /\ alone' \in [Servers -> BOOLEAN]
      /\ lost' = [lost EXCEPT ![s] = lost[s]] \/ lost' = [lost EXCEPT ![s] = TRUE]
      /\ lost[s] \in BOOLEAN
  BY <1>1 DEF NetmcpInv, SrosTypeOK
<1>3. QED
  BY <1>1, <1>2, BackendInv

LEMMA EndsInv ==
  ASSUME NetmcpInv, NEW s \in Servers, Ends(s)
  PROVE  NetmcpInv'
<1>1. InventoryInv' /\ \A u \in Servers \ {s} : inv'[u] = inv[u]
  BY ServerChanges DEF NetmcpInv, Ends
<1>2. SrosTypeOK'
  BY DEF NetmcpInv, SrosTypeOK, Ends
<1>3. pc'[s] = "idle" /\ \A u \in Servers \ {s} : pc'[u] = pc[u]
  BY DEF NetmcpInv, SrosTypeOK, Ends
<1>4. UNCHANGED <<req, said, lost>>
  BY DEF Ends
<1>5. CallsInv'
  BY <1>1, <1>3, <1>4 DEF NetmcpInv, CallsInv
<1>6. QED
  BY <1>1, <1>2, <1>5 DEF NetmcpInv

LEMMA StartInv ==
  ASSUME NetmcpInv, NEW s \in Servers, Start(s), UNCHANGED srosVars
  PROVE  NetmcpInv'
<1>1. InventoryInv' /\ \A u \in Servers \ {s} : inv'[u] = inv[u]
  BY ServerChanges DEF NetmcpInv
<1>2. SrosTypeOK' /\ UNCHANGED <<pc, req, said, lost>>
  BY DEF NetmcpInv, SrosTypeOK, srosVars
<1>3. pc[s] = "idle"
  BY DEF Start, NetmcpInv, CallsInv
<1>4. CallsInv'
  BY <1>1, <1>2, <1>3 DEF NetmcpInv, CallsInv
<1>5. QED
  BY <1>1, <1>2, <1>4 DEF NetmcpInv

LEMMA LabsInv ==
  ASSUME NetmcpInv, Labs, UNCHANGED srosVars
  PROVE  NetmcpInv' /\ UNCHANGED inv
<1>1. InventoryInv'
  BY LabsChange, YmlWritten DEF NetmcpInv, Labs
<1>2. inv' = inv
  BY DEF Labs, Deploy, Destroy, WriteInventory
<1>3. QED
  BY <1>1, <1>2 DEF NetmcpInv, SrosTypeOK, srosVars, CallsInv

\* Every step preserves the invariant.
LEMMA NetmcpInvStep == NetmcpInv /\ [NetmcpNext]_netmcpVars => NetmcpInv'
<1> SUFFICES ASSUME NetmcpInv, [NetmcpNext]_netmcpVars PROVE NetmcpInv'
  OBVIOUS
<1>1. ASSUME NEW s \in Servers, Tool(s) PROVE NetmcpInv'
  <2>1. UNCHANGED inventoryVars
    BY <1>1 DEF Tool
  <2>2. QED
    BY <1>1, <2>1, ToolStarts, StartedInv
<1>2. ASSUME NEW s \in Servers, Backend(s) PROVE NetmcpInv'
  BY <1>2, GetInv, SetInv, ReplyInv DEF Backend
<1>3. ASSUME NEW s \in Servers, Ends(s) PROVE NetmcpInv'
  BY <1>3, EndsInv
<1>4. ASSUME NEW s \in Servers, Start(s), UNCHANGED srosVars PROVE NetmcpInv'
  BY <1>4, StartInv
<1>5. ASSUME Labs, UNCHANGED srosVars PROVE NetmcpInv'
  BY <1>5, LabsInv
<1>6. CASE UNCHANGED netmcpVars
  BY <1>6 DEF netmcpVars, inventoryVars, srosVars, NetmcpInv, InventoryInv, InventoryTypeOK,
              YmlMade, SrosTypeOK, CallsInv
<1>7. QED
  BY <1>1, <1>2, <1>3, <1>4, <1>5, <1>6 DEF NetmcpNext

LEMMA NetmcpInvInit == NetmcpInit => NetmcpInv
<1> SUFFICES ASSUME NetmcpInit PROVE NetmcpInv
  OBVIOUS
<1>1. InventoryInv
  BY InventoryInvInit DEF NetmcpInit
<1>2. SrosTypeOK
  BY SrosAssumption DEF NetmcpInit, SrosInit, SrosTypeOK
<1>3. CallsInv
  BY DEF NetmcpInit, SrosInit, CallsInv
<1>4. QED
  BY <1>1, <1>2, <1>3 DEF NetmcpInv

LEMMA NetmcpInvariant == NetmcpSpec => []NetmcpInv
  BY NetmcpInvInit, NetmcpInvStep, PTL DEF NetmcpSpec

\* The types hold for any labs, files, environments, requests and servers.
THEOREM NetmcpTypeCorrect == NetmcpSpec => []NetmcpTypeOK
<1>1. NetmcpInv => NetmcpTypeOK
  BY DEF NetmcpInv, InventoryInv, NetmcpTypeOK
<1>2. QED
  BY <1>1, NetmcpInvariant, PTL

\* Whichever file a server's nodes come from, a topology or one that `netmcp inventory`
\* wrote, they are the lab's nodes, under their names in the topology and with their
\* containers' host names (inventory.py:56, 190, 252), for any names of labs and nodes.
THEOREM LoadedNodesMatchTheLab == NetmcpSpec => []InventoryMatchesLab
<1>1. NetmcpInv => InventoryMatchesLab
  BY DEF NetmcpInv, InventoryInv, NodesMatch, InventoryMatchesLab
<1>2. QED
  BY <1>1, NetmcpInvariant, PTL

-----------------------------------------------------------------------------
(* What a Set changes.                                                     *)

\* Only a Set changes a node.
LEMMA OnlySets ==
  ASSUME NetmcpInv, [NetmcpNext]_netmcpVars, conf' # conf
  PROVE  \E s \in Servers : /\ Set(s) /\ UNCHANGED inventoryVars
                            /\ \E k \in req[s] : Applied(k)
<1>1. \A s \in Servers : Get(s) \/ Reply(s) \/ Ends(s) => conf' = conf
  BY DEF Get, Reply, Ends
<1>2. ASSUME NEW s \in Servers, Tool(s) PROVE conf' = conf
  BY <1>2, ToolStarts DEF Started, Begin
<1>3. UNCHANGED srosVars \/ UNCHANGED netmcpVars => conf' = conf
  BY DEF srosVars, netmcpVars
<1>4. PICK s \in Servers : Set(s) /\ UNCHANGED inventoryVars
  BY <1>1, <1>2, <1>3 DEF NetmcpNext, Backend
<1>5. QED
  BY <1>4 DEF Set, Take

\* A node's configuration changes only by a call that named this node, by its name in the
\* topology of the lab its server loaded (dispatch.py:38, inventory.py:190), whatever has
\* become of the labs and of the files since.
THEOREM CallsReachTheNodeTheyName == NetmcpSpec => CallsReachTheirNode
<1>1. ASSUME NetmcpInv, [NetmcpNext]_netmcpVars, NEW to \in Targets, conf'[to] # conf[to]
      PROVE  \E s \in Servers : \E k \in req[s] :
               /\ k.to = to
               /\ \A i \in inv[s] : \A t \in i.lab :
                    Supported(t) => k.node \in Routers(t) /\ to = Container(t, k.node)
  <2>1. conf' # conf
    BY <1>1
  <2>2. PICK s \in Servers : Set(s) /\ UNCHANGED inventoryVars /\ \E k \in req[s] : Applied(k)
    BY <1>1, <2>1, OnlySets
  <2>3. PICK k \in req[s] : Applied(k)
    BY <2>2
  <2>4. pc[s] = "set"
    BY <2>2 DEF Set
  <2>5. k.to = to
    <3>1. k.to \in Targets /\ conf \in ConfTable
      BY <1>1, CallTypes DEF NetmcpInv, SrosTypeOK
    <3>2. to # k.to => conf'[to] = conf[to]
      BY <2>3, <3>1 DEF Applied, ConfTable
    <3>3. QED
      BY <1>1, <3>2
  <2>6. ASSUME NEW i \in inv[s], NEW t \in i.lab, Supported(t)
        PROVE  k.node \in Routers(t) /\ to = Container(t, k.node)
    <3>1. k.node \in DOMAIN i.table /\ to = i.table[k.node].fqdn
      BY <1>1, <2>4, <2>5 DEF NetmcpInv, CallsInv, ResolvedIn
    <3>2. i.table = NodesOf(t)
      BY <1>1, <2>6 DEF NetmcpInv, InventoryInv, NodesMatch
    <3>3. QED
      BY <3>1, <3>2 DEF NodesOf
  <2>7. QED
    BY <2>5, <2>6
<1>2. NetmcpInv /\ [NetmcpNext]_netmcpVars =>
        (\A to \in Targets : conf'[to] # conf[to] =>
          \E s \in Servers : \E k \in req[s] :
            /\ k.to = to
            /\ \A i \in inv[s] : \A t \in i.lab :
                 Supported(t) => k.node \in Routers(t) /\ to = Container(t, k.node))
  BY <1>1
<1>3. QED
  BY <1>2, NetmcpInvariant, PTL DEF NetmcpSpec, CallsReachTheirNode

\* The entry of a call is as its answer "OK" says.
Done(k) == IF k.q.op = "delete" THEN Configured(k) = None
           ELSE Configured(k) # None /\ Configured(k).body = k.q.body

\* A call has left its entry so until another one changes it; an entry that the caller was
\* told is not there has nothing of an operator's since.
AnswersInv ==
  /\ \A s \in Servers : \A p \in absent[s] : conf[p[1]][p[2]] = None \/ conf[p[1]][p[2]].more = FALSE
  /\ \A s \in Servers : \A k \in req[s] : alone[s] /\ (pc[s] = "reply" \/ said[s] = "ok") => Done(k)

\* What the Set of a call does not change: the entry of a call for another one.
LEMMA SetElsewhere ==
  ASSUME NetmcpInv, NEW s \in Servers, pc[s] = "set", NEW k \in req[s], Applied(k),
         NEW u \in Servers, NEW c \in req[u], Place(c) # Place(k)
  PROVE  Done(c)' = Done(c)
<1>1. \A to \in Targets, e \in Entries : <<to, e>> # Place(k) => conf'[to][e] = conf[to][e]
  BY AppliedTo
<1>2. c.to \in Targets /\ c.q.entry \in Entries
  BY CallTypes
<1>3. <<c.to, c.q.entry>> # Place(k)
  BY DEF Place
<1>4. conf'[c.to][c.q.entry] = conf[c.to][c.q.entry]
  BY <1>1, <1>2, <1>3
<1>5. QED
  BY <1>4 DEF Done, Configured

LEMMA AnswersInvSet ==
  ASSUME NetmcpInv, AnswersInv, NEW s \in Servers, Set(s)
  PROVE  AnswersInv'
<1>1. /\ pc[s] = "set" /\ UNCHANGED <<req, absent, lost>>
      /\ pc'[s] \in {"idle", "reply"} /\ said[s] = "none"
      /\ \A u \in Servers \ {s} : pc'[u] = pc[u] /\ said'[u] = said[u]
  BY DEF Set, Take, Goto, End, NetmcpInv, SrosTypeOK, CallsInv
<1>2. CASE UNCHANGED <<conf, alone>> /\ pc'[s] = "idle" /\ said'[s] # "ok"
  <2>1. \A u \in Servers : \A k \in req'[u] :
          alone'[u] /\ (pc'[u] = "reply" \/ said'[u] = "ok") => Done(k)'
    BY <1>1, <1>2 DEF AnswersInv, Done, Configured
  <2>2. QED
    BY <1>1, <1>2, <2>1 DEF AnswersInv
<1>3. ASSUME NEW k \in req[s], Take(s, k) PROVE AnswersInv'
  <2>1. /\ k.q.op = "delete" => conf'[k.to][k.q.entry] = None
        /\ k.q.op # "delete" => /\ conf'[k.to][k.q.entry] = Updated(Configured(k), k.q.body)
                                /\ Updated(Configured(k), k.q.body) \in Entry
        /\ \A to \in Targets, e \in Entries : <<to, e>> # Place(k) => conf'[to][e] = conf[to][e]
    BY <1>1, <1>3, AppliedTo DEF Take
  <2>2. ASSUME NEW u \in Servers, NEW p \in absent'[u]
        PROVE  conf'[p[1]][p[2]] = None \/ conf'[p[1]][p[2]].more = FALSE
    <3>1. /\ p[1] \in Targets /\ p[2] \in Entries
          /\ conf[p[1]][p[2]] = None \/ conf[p[1]][p[2]].more = FALSE
      <4>1. p \in absent[u]
        BY <1>1
      <4>2. p \in Targets \X Entries
        BY <4>1 DEF NetmcpInv, SrosTypeOK
      <4>3. QED
        BY <4>1, <4>2 DEF AnswersInv
    <3>2. CASE p[1] = k.to /\ p[2] = k.q.entry
      <4>1. Configured(k) = None \/ Configured(k).more = FALSE
        BY <3>1, <3>2 DEF Configured
      <4>2. Updated(Configured(k), k.q.body).more = FALSE
        BY <4>1 DEF Updated
      <4>3. QED
        BY <2>1, <3>2, <4>2
    <3>3. CASE ~(p[1] = k.to /\ p[2] = k.q.entry)
      BY <2>1, <3>1, <3>3 DEF Place
    <3>4. QED
      BY <3>2, <3>3
  <2>3. Done(k)'
    <3>1. CASE k.q.op = "delete"
      BY <2>1, <3>1 DEF Done, Configured
    <3>2. CASE k.q.op # "delete"
      <4>1. Updated(Configured(k), k.q.body).body = k.q.body /\ Updated(Configured(k), k.q.body) # None
        BY <2>1, <3>2, SrosAssumption DEF Updated
      <4>2. QED
        BY <2>1, <3>2, <4>1 DEF Done, Configured
    <3>3. QED
      BY <3>1, <3>2
  <2>4. ASSUME NEW u \in Servers, NEW c \in req'[u], alone'[u], pc'[u] = "reply" \/ said'[u] = "ok"
        PROVE  Done(c)'
    <3>1. CASE u = s
      <4>1. c = k
        BY <1>1, <3>1 DEF NetmcpInv, CallsInv
      <4>2. QED
        BY <2>3, <4>1
    <3>2. CASE u # s
      <4>1. alone[u] /\ c \in req[u] /\ Place(c) # Place(k) /\ (pc[u] = "reply" \/ said[u] = "ok")
        BY <1>1, <1>3, <2>4, <3>2 DEF Take
      <4>2. Done(c)
        BY <4>1 DEF AnswersInv
      <4>3. QED
        BY <1>1, <1>3, <4>1, <4>2, SetElsewhere DEF Take
    <3>3. QED
      BY <3>1, <3>2
  <2>5. QED
    BY <2>2, <2>4 DEF AnswersInv
<1>4. \/ \E k \in req[s] : Take(s, k)
      \/ UNCHANGED <<conf, alone>> /\ \E a \in {"error", "other"} : End(s, a)
  BY DEF Set
<1>5. ASSUME NEW a \in {"error", "other"}, End(s, a) PROVE pc'[s] = "idle" /\ said'[s] # "ok"
  BY <1>5 DEF End, NetmcpInv, SrosTypeOK
<1>6. QED
  BY <1>2, <1>3, <1>4, <1>5

\* Every step preserves that invariant.
LEMMA AnswersInvStep == NetmcpInv /\ AnswersInv /\ [NetmcpNext]_netmcpVars => AnswersInv'
<1> SUFFICES ASSUME NetmcpInv, AnswersInv, [NetmcpNext]_netmcpVars PROVE AnswersInv'
  OBVIOUS
<1> USE DEF Done, Configured
<1>1. ASSUME NEW s \in Servers, Tool(s) PROVE AnswersInv'
  <2>1. PICK k, next, answer : Started(s, k, next, answer)
    BY <1>1, ToolStarts
  <2>2. /\ pc[s] = "idle" /\ UNCHANGED <<conf, absent>> /\ next # "reply" /\ answer # "ok"
        /\ pc'[s] = next /\ said'[s] = answer
        /\ \A u \in Servers \ {s} : /\ pc'[u] = pc[u] /\ said'[u] = said[u]
                                    /\ req'[u] = req[u] /\ alone'[u] = alone[u]
    BY <2>1 DEF Started, Begin, NetmcpInv, SrosTypeOK
  <2>3. QED
    BY <2>2 DEF AnswersInv
<1>2. ASSUME NEW s \in Servers, Get(s) PROVE AnswersInv'
  <2>1. /\ pc'[s] = "idle" /\ said'[s] # "ok" /\ UNCHANGED <<conf, req, alone>>
        /\ \A u \in Servers \ {s} : /\ pc'[u] = pc[u] /\ said'[u] = said[u]
                                    /\ absent'[u] = absent[u]
    BY <1>2 DEF Get, End, NetmcpInv, SrosTypeOK
  <2>2. \A p \in absent'[s] : conf[p[1]][p[2]] = None \/ conf[p[1]][p[2]].more = FALSE
    <3>1. \/ absent'[s] = absent[s]
          \/ \E k \in req[s] : absent'[s] = absent[s] \cup {Place(k)} /\ Configured(k) = None
      BY <1>2 DEF Get, NetmcpInv, SrosTypeOK
    <3>2. QED
      BY <3>1 DEF Place, AnswersInv
  <2>3. QED
    BY <2>1, <2>2 DEF AnswersInv
<1>3. ASSUME NEW s \in Servers, Set(s) PROVE AnswersInv'
  BY <1>3, AnswersInvSet
<1>4. ASSUME NEW s \in Servers, Reply(s) PROVE AnswersInv'
  <2>1. /\ pc[s] = "reply" /\ pc'[s] = "idle" /\ UNCHANGED <<conf, req, alone, absent>>
        /\ \A u \in Servers \ {s} : pc'[u] = pc[u] /\ said'[u] = said[u]
    BY <1>4 DEF Reply, End, NetmcpInv, SrosTypeOK
  <2>2. QED
    BY <2>1 DEF AnswersInv
<1>5. ASSUME NEW s \in Servers, Ends(s) PROVE AnswersInv'
  <2>1. /\ pc'[s] = "idle" /\ UNCHANGED <<conf, req, said, alone, absent>>
        /\ \A u \in Servers \ {s} : pc'[u] = pc[u]
    BY <1>5 DEF Ends, NetmcpInv, SrosTypeOK
  <2>2. QED
    BY <2>1 DEF AnswersInv
<1>6. CASE UNCHANGED srosVars
  BY <1>6 DEF srosVars, AnswersInv
<1>7. QED
  BY <1>1, <1>2, <1>3, <1>4, <1>5, <1>6 DEF NetmcpNext, Backend, netmcpVars

\* An "OK" of the SR OS backend is true of the node if no other call has changed the entry
\* since, whatever others do to the node, and what is provisioned after the node said that
\* it is not there is the payload alone (sros/backend.py:160-340), whatever is refused, lost
\* or killed and whoever writes it.
THEOREM SrosAnswersHold == NetmcpSpec => []AnswersHold
<1>1. NetmcpInit => AnswersInv
  BY DEF NetmcpInit, SrosInit, AnswersInv
<1>2. AnswersInv => AnswersHold
  BY DEF AnswersInv, AnswersHold, Done
<1>3. QED
  BY <1>1, <1>2, AnswersInvStep, NetmcpInvariant, PTL DEF NetmcpSpec

-----------------------------------------------------------------------------
(* The refinement of AtomicWrite.                                           *)

\* What a call's answer and the loss of its answer are to AtomicWrite.
Told(l, a) == IF l THEN "none" ELSE IF a \in {"found", "not found"} THEN "other" ELSE a

\* What a step that moves server s to p does to the abstract calls.
LEMMA CallMove ==
  ASSUME NetmcpInv, NEW s \in Servers, NEW p, pc' = [pc EXCEPT ![s] = p]
  PROVE  AtomicCall' = [AtomicCall EXCEPT ![s] = Stage(p)] /\ AtomicCall[s] = Stage(pc[s])
<1>1. pc'[s] = p /\ \A u \in Servers \ {s} : pc'[u] = pc[u]
  BY DEF NetmcpInv, SrosTypeOK
<1>2. AtomicCall' = [u \in Servers |-> Stage(pc'[u])]
  BY DEF AtomicCall, Stage
<1>3. QED
  BY <1>1, <1>2 DEF AtomicCall, Stage

\* What a step that only server s answers in does to the abstract answers.
LEMMA AnswerMove ==
  ASSUME NEW s \in Servers, \A u \in Servers \ {s} : said'[u] = said[u] /\ lost'[u] = lost[u]
  PROVE  AtomicAnswer' = [AtomicAnswer EXCEPT ![s] = Told(lost'[s], said'[s])]
  BY DEF AtomicAnswer, Told

\* A call that begins.
LEMMA StartMaps ==
  ASSUME NetmcpInv, NEW s \in Servers, NEW k, NEW next, NEW answer, Started(s, k, next, answer)
  PROVE  Atomic!Open(s) \/ Atomic!Refuse(s)
<1>1. /\ pc[s] = "idle" /\ pc' = [pc EXCEPT ![s] = next] /\ UNCHANGED conf
      /\ said' = [said EXCEPT ![s] = answer] /\ lost' = [lost EXCEPT ![s] = FALSE]
  BY DEF Started, Begin
<1>2. /\ said'[s] = answer /\ lost'[s] = FALSE
      /\ \A u \in Servers \ {s} : said'[u] = said[u] /\ lost'[u] = lost[u]
  BY <1>1 DEF NetmcpInv, SrosTypeOK
<1>3. CASE next = "idle" /\ answer = "other"
  <2>1. AtomicCall' = [AtomicCall EXCEPT ![s] = "idle"] /\ AtomicCall[s] = "idle"
    BY <1>1, <1>3, CallMove DEF Stage
  <2>2. AtomicAnswer' = [AtomicAnswer EXCEPT ![s] = "other"]
    BY <1>2, <1>3, AnswerMove DEF Told
  <2>3. AtomicCall' = AtomicCall
    BY <2>1 DEF AtomicCall
  <2>4. QED
    BY <1>1, <2>1, <2>2, <2>3 DEF Atomic!Refuse
<1>4. CASE next \in {"get", "set"} /\ answer = "none"
  <2>1. AtomicCall' = [AtomicCall EXCEPT ![s] = "open"] /\ AtomicCall[s] = "idle"
    BY <1>1, <1>4, CallMove DEF Stage
  <2>2. AtomicAnswer' = [AtomicAnswer EXCEPT ![s] = "none"]
    BY <1>2, <1>4, AnswerMove DEF Told
  <2>3. QED
    BY <1>1, <2>1, <2>2 DEF Atomic!Open
<1>5. QED
  BY <1>3, <1>4 DEF Started

\* An answer before anything has been written.
LEMMA ReturnMaps ==
  ASSUME NetmcpInv, NEW s \in Servers, NEW a \in {"error", "found", "not found", "other"},
         pc[s] \in {"get", "set"}, End(s, a), UNCHANGED <<conf, lost>>
  PROVE  Atomic!Return(s)
<1>1. pc' = [pc EXCEPT ![s] = "idle"] /\ said' = [said EXCEPT ![s] = a]
  BY DEF End
<1>2. /\ said'[s] = a /\ lost'[s] = FALSE
      /\ \A u \in Servers \ {s} : said'[u] = said[u] /\ lost'[u] = lost[u]
  BY <1>1 DEF NetmcpInv, SrosTypeOK, CallsInv
<1>3. AtomicCall' = [AtomicCall EXCEPT ![s] = "idle"] /\ AtomicCall[s] = "open"
  BY <1>1, <1>2, CallMove DEF Stage
<1>4. AtomicAnswer' = [AtomicAnswer EXCEPT ![s] = Told(FALSE, a)]
  BY <1>2, AnswerMove
<1>5. Told(FALSE, a) \in {"error", "other"}
  BY DEF Told
<1>6. QED
  BY <1>3, <1>4, <1>5 DEF Atomic!Return

\* The Set that is taken.
LEMMA WriteMaps ==
  ASSUME NetmcpInv, NEW s \in Servers, pc[s] = "set", NEW k \in req[s], Applied(k),
         Goto(s, "reply"), UNCHANGED lost
  PROVE  Atomic!Write(s)
<1>1. pc' = [pc EXCEPT ![s] = "reply"] /\ said' = said
  BY DEF Goto
<1>2. AtomicCall' = [AtomicCall EXCEPT ![s] = "written"] /\ AtomicCall[s] = "open"
  BY <1>1, CallMove DEF Stage
<1>3. AtomicAnswer' = AtomicAnswer
  BY <1>1 DEF AtomicAnswer
<1>4. OneEntryChanges(conf, conf')
  <2>1. /\ k.to \in Targets /\ k.q.entry \in Entries
        /\ \A to \in Targets, e \in Entries : <<to, e>> # <<k.to, k.q.entry>> => conf'[to][e] = conf[to][e]
    BY CallTypes, AppliedTo DEF Place
  <2>2. QED
    BY <2>1 DEF OneEntryChanges
<1>5. QED
  BY <1>2, <1>3, <1>4 DEF Atomic!Write

\* The answer to a Set arrives or is lost.
LEMMA ReplyMaps ==
  ASSUME NetmcpInv, NEW s \in Servers, Reply(s)
  PROVE  Atomic!Return(s) \/ Atomic!Die(s)
<1>1. /\ pc[s] = "reply" /\ UNCHANGED conf /\ pc' = [pc EXCEPT ![s] = "idle"]
      /\ said[s] = "none" /\ lost[s] = FALSE
  BY DEF Reply, End, NetmcpInv, CallsInv
<1>2. AtomicCall' = [AtomicCall EXCEPT ![s] = "idle"] /\ AtomicCall[s] = "written"
  BY <1>1, CallMove DEF Stage
<1>3. CASE End(s, "ok") /\ UNCHANGED lost
  <2>1. /\ said'[s] = "ok" /\ lost'[s] = FALSE
        /\ \A u \in Servers \ {s} : said'[u] = said[u] /\ lost'[u] = lost[u]
    BY <1>1, <1>3 DEF End, NetmcpInv, SrosTypeOK
  <2>2. AtomicAnswer' = [AtomicAnswer EXCEPT ![s] = "ok"]
    BY <2>1, AnswerMove DEF Told
  <2>3. QED
    BY <1>1, <1>2, <2>2 DEF Atomic!Return
<1>4. CASE End(s, "error") /\ lost' = [lost EXCEPT ![s] = TRUE]
  <2>1. /\ lost'[s] = TRUE
        /\ \A u \in Servers \ {s} : said'[u] = said[u] /\ lost'[u] = lost[u]
    BY <1>1, <1>4 DEF End, NetmcpInv, SrosTypeOK
  <2>2. AtomicAnswer' = [AtomicAnswer EXCEPT ![s] = "none"] /\ AtomicAnswer[s] = "none"
    BY <1>1, <2>1, AnswerMove DEF AtomicAnswer, Told
  <2>3. AtomicAnswer' = AtomicAnswer
    BY <2>2 DEF AtomicAnswer
  <2>4. QED
    BY <1>1, <1>2, <2>3 DEF Atomic!Die
<1>5. QED
  BY <1>3, <1>4 DEF Reply

\* Every step is a step of AtomicWrite, or changes nothing it sees.
LEMMA AtomicStep == NetmcpInv /\ [NetmcpNext]_netmcpVars => [Atomic!AtomicNext]_(Atomic!absVars)
<1> SUFFICES ASSUME NetmcpInv, [NetmcpNext]_netmcpVars
             PROVE  Atomic!AtomicNext \/ UNCHANGED Atomic!absVars
  OBVIOUS
<1>1. ASSUME NEW s \in Servers, Tool(s) PROVE Atomic!AtomicNext
  BY <1>1, ToolStarts, StartMaps DEF Atomic!AtomicNext
<1>2. ASSUME NEW s \in Servers, Get(s) PROVE Atomic!AtomicNext
  <2>1. pc[s] = "get" /\ UNCHANGED <<conf, lost>> /\ \E a \in {"found", "not found"} : End(s, a)
    BY <1>2 DEF Get
  <2>2. QED
    BY <2>1, ReturnMaps DEF Atomic!AtomicNext
<1>3. ASSUME NEW s \in Servers, Set(s) PROVE Atomic!AtomicNext
  <2>1. /\ pc[s] = "set" /\ UNCHANGED lost
        /\ \/ \E k \in req[s] : Applied(k) /\ Goto(s, "reply")
           \/ UNCHANGED conf /\ \E a \in {"error", "other"} : End(s, a)
    BY <1>3 DEF Set, Take
  <2>2. QED
    BY <2>1, ReturnMaps, WriteMaps DEF Atomic!AtomicNext
<1>4. ASSUME NEW s \in Servers, Reply(s) PROVE Atomic!AtomicNext
  BY <1>4, ReplyMaps DEF Atomic!AtomicNext
<1>5. ASSUME NEW s \in Servers, Ends(s) PROVE Atomic!AtomicNext \/ UNCHANGED Atomic!absVars
  <2>1. pc' = [pc EXCEPT ![s] = "idle"] /\ UNCHANGED <<conf, said, lost>>
    BY <1>5 DEF Ends
  <2>2. AtomicCall' = [AtomicCall EXCEPT ![s] = "idle"] /\ UNCHANGED AtomicAnswer
    BY <2>1, CallMove DEF Stage, AtomicAnswer
  <2>3. CASE AtomicCall[s] = "idle"
    <3>1. AtomicCall' = AtomicCall
      BY <2>2, <2>3 DEF AtomicCall
    <3>2. QED
      BY <2>1, <2>2, <3>1 DEF Atomic!absVars
  <2>4. CASE AtomicCall[s] # "idle"
    BY <2>1, <2>2, <2>4 DEF Atomic!Die, Atomic!AtomicNext
  <2>5. QED
    BY <2>3, <2>4
<1>6. CASE UNCHANGED srosVars
  BY <1>6 DEF srosVars, Atomic!absVars, AtomicCall, AtomicAnswer
<1>7. QED
  BY <1>1, <1>2, <1>3, <1>4, <1>5, <1>6 DEF NetmcpNext, Backend, netmcpVars

\* A tool call of SR OS is one atomic Set (ARCHITECTURE.md:275): it changes at most one entry
\* of one node, once, says OK only if it did, and an error only if it did not, unless
\* the answer to its Set was lost.
THEOREM SrosIsAtomic == NetmcpSpec => ImplementsAtomicWrite
<1>1. NetmcpInit => Atomic!AtomicInit
  BY DEF NetmcpInit, SrosInit, Atomic!AtomicInit, AtomicCall, Stage, AtomicAnswer
<1>2. QED
  BY <1>1, AtomicStep, NetmcpInvariant, PTL
     DEF NetmcpSpec, ImplementsAtomicWrite, Atomic!AtomicSpec
=============================================================================
