------------------------------- MODULE Inventory -------------------------------
(***************************************************************************)
(* How a server comes to know its nodes (src/netmcp/inventory.py, server.py,   *)
(* cli.py): once, at its start, from the first netmcp.yml upward of its working *)
(* directory, or from a containerlab topology file.  `netmcp inventory`          *)
(* writes a netmcp.yml from the containers of a running lab.                    *)
(*                                                                         *)
(* A name is the sequence of its "-"-separated parts.  The labs, their           *)
(* containers' names and the files operators write are external.                *)
(***************************************************************************)
EXTENDS Naturals, Sequences, FiniteSets

CONSTANTS Servers,      \* server processes
          Tokens,       \* the parts of names
          Texts,        \* what may stand for a NOS or a user in an entry
          Topologies,   \* the labs there may be
          Depth,        \* directories 1..Depth, each the parent of the one before
          TopologyFile, \* directory -> the first containerlab/*.clab.yml in it, or None
          Environments, \* how server processes are started
          ExistingLabs, \* the sets of labs that may be deployed at the start
          ExistingYml,  \* the netmcp.yml files there may be at the start
          MaxChanges,   \* bound: labs deployed and destroyed, files written and servers started
          None,         \* no file; no entry of a key
          Empty,        \* a netmcp.yml without any content
          Malformed,    \* a file that the loader raises on
          Missing       \* NETMCP_CLAB_TOPOLOGY names a file that does not exist

Dirs == 1..Depth
Names == Seq(Tokens)

\* CLAB_KIND_TO_NOS, and the login of a NOS: gNMI port and user.
KindToNos ==
  [nokia_srsim |-> "sros", nokia_srlinux |-> "srl", arista_ceos |-> "eos",
   juniper_vjunosrouter |-> "junos", juniper_vjunosevolved |-> "junos",
   juniper_cjunosevolved |-> "junos", cisco_xrd |-> "iosxr", cisco_n9kv |-> "nxos",
   nvidia_cumulusvx |-> "cumulus", cumulus_cvx |-> "cumulus"]
DefaultLogin(nos) ==
  [port |-> IF nos = "eos" THEN 6030 ELSE IF nos = "junos" THEN 32767 ELSE 57400,
   user |-> IF nos = "cumulus" THEN "cumulus" ELSE "admin"]
Login == [port : Nat, user : Texts]
NodeInfo == [fqdn : Names, nos : Texts, login : Login]

\* A lab: `prefix` is <<"clab">> if its file has none; the nodes are name -> kind.
DefaultPrefix == <<"clab">>
LabName == <<"__lab-name">>

\* A netmcp.yml: the entries, and (history) the lab the command line made it from.
YmlEntry == [name : Names, fqdn : Names, nos : Texts, login : Login \cup {None}]
YmlFile == [nodes : SUBSET YmlEntry, lab : SUBSET Topologies]
YmlTable == [Dirs -> YmlFile \cup {None, Empty, Malformed}]

ASSUME InventoryAssumption ==
  /\ Depth \in Nat /\ MaxChanges \in Nat
  /\ ExistingLabs \subseteq SUBSET Topologies
  /\ \A t \in Topologies :
       /\ t = [lab |-> t.lab, prefix |-> t.prefix, nodes |-> t.nodes]
       /\ t.lab \in Names \ {<<>>} /\ t.prefix \in Names
       /\ t.nodes \in [DOMAIN t.nodes -> STRING] /\ DOMAIN t.nodes \subseteq Names \ {<<>>}
  /\ {"clab", "__lab-name"} \subseteq Tokens
  /\ {"sros", "srl", "eos", "junos", "iosxr", "nxos", "cumulus", "admin"} \subseteq Texts
  /\ ExistingYml \subseteq YmlTable
  /\ \A files \in ExistingYml : \A d \in Dirs : files[d] \in YmlFile => files[d].lab = {}
  /\ \A e \in Environments : e.cwd \in Dirs
  /\ None \notin Login /\ {None, Empty, Malformed} \cap YmlFile = {}
  /\ {None, Empty, Malformed, Missing} \cap Topologies = {}

VARIABLES running, \* the labs that are deployed
          yml,     \* directory -> its netmcp.yml
          inv,     \* per server: {} if it is down, or what load_nodes returned
          changes  \* bound: changes made so far

inventoryVars == <<running, yml, inv, changes>>

-----------------------------------------------------------------------------
(* containerlab.                                                           *)

Routers(t) == {n \in DOMAIN t.nodes : t.nodes[n] \in DOMAIN KindToNos}

\* The name containerlab gives to the container of a node.
Container(t, n) ==
  IF t.prefix = <<>> THEN n
  ELSE IF t.prefix = LabName THEN t.lab \o n
  ELSE t.prefix \o t.lab \o n

Containers(t) == {Container(t, n) : n \in DOMAIN t.nodes}

-----------------------------------------------------------------------------
(* Loading.                                                                *)

\* A wrong Info: what an entry leaves out stays out.
InfoAsGiven(fqdn, nos, login) == [fqdn |-> fqdn, nos |-> nos, login |-> login]

\* A NodeInfo, with the defaults of its NOS.
Info(fqdn, nos, login) ==
  [fqdn |-> fqdn, nos |-> nos, login |-> IF login = None THEN DefaultLogin(nos) ELSE login]

\* _load_from_clab: any prefix but "__lab-name" is taken for the default one.
FromClab(t) ==
  LET fqdn(n) == (IF t.prefix = LabName THEN <<>> ELSE <<"clab">>) \o t.lab \o n
  IN [table |-> [n \in Routers(t) |-> Info(fqdn(n), KindToNos[t.nodes[n]], None)], lab |-> {t}]

\* _load_from_yml: of the entries with one name the last one stays; the order of the
\* entries is not kept here, so it may be any of them.
FromYml(file) ==
  LET names == {e.name : e \in file.nodes}
      picks == {p \in [names -> file.nodes] : \A n \in names : p[n].name = n}
  IN {[table |-> [n \in names |-> Info(p[n].fqdn, p[n].nos, p[n].login)], lab |-> file.lab] : p \in picks}

\* The first directory upward from cwd that has such a file, if any.
FirstUp(file, cwd) ==
  {d \in Dirs : d >= cwd /\ file[d] # None /\ \A e \in Dirs : e >= cwd /\ e < d => file[e] = None}

\* _find_clab_file, and its topology: none if it is missing or cannot be loaded.
ClabFile(e) ==
  IF e.topology # None THEN {e.topology} ELSE {TopologyFile[d] : d \in FirstUp(TopologyFile, e.cwd)}
ClabNodes(e) == {FromClab(t) : t \in ClabFile(e) \cap Topologies}

\* load_nodes, as the set of what it may return; it raises if that is empty.
LoadNodes(e) ==
  LET files == {yml[d] : d \in FirstUp(yml, e.cwd)} IN
  IF e.noInventory THEN {[table |-> <<>>, lab |-> {}]}
  ELSE IF files \ {Empty} = {} THEN ClabNodes(e)
  ELSE UNION {FromYml(f) : f \in files \ {Malformed}}

-----------------------------------------------------------------------------
(* netmcp inventory --from-clab.                                             *)

StartsWith(c, lab) == Len(lab) < Len(c) /\ \A i \in 1..Len(lab) : c[i] = lab[i]

\* "-<lab>-" is in the name, behind its first i parts.
HasAt(c, lab, i) == i + Len(lab) < Len(c) /\ \A j \in 1..Len(lab) : c[i + j] = lab[j]
FirstAt(c, lab) == {i \in 1..Len(c) : HasAt(c, lab, i) /\ \A j \in 1..(i - 1) : ~HasAt(c, lab, j)}

After(c, i) == SubSeq(c, i + 1, Len(c))

\* A wrong ShortName: the marker is looked for before the start of the name.
ShortNameMarkerFirst(c, lab) ==
  IF FirstAt(c, lab) # {} THEN After(c, (CHOOSE i \in FirstAt(c, lab) : TRUE) + Len(lab))
  ELSE IF StartsWith(c, lab) THEN After(c, Len(lab))
  ELSE c

\* _clab_short_name.
ShortName(c, lab) ==
  IF StartsWith(c, lab) THEN After(c, Len(lab))
  ELSE IF FirstAt(c, lab) # {} THEN After(c, (CHOOSE i \in FirstAt(c, lab) : TRUE) + Len(lab))
  ELSE c

\* clab_inspect_to_yml of the lab.
InspectToYml(t) ==
  [nodes |-> {[name |-> ShortName(Container(t, n), t.lab), fqdn |-> Container(t, n),
               nos |-> KindToNos[t.nodes[n]], login |-> None] : n \in Routers(t)},
   lab |-> {t}]

\* The lab named on the command line, or the only one that runs.
Inspected(lab) ==
  IF lab = None THEN {t \in running : running = {t}} ELSE {t \in running : t.lab = lab}

-----------------------------------------------------------------------------

InventoryInit ==
  /\ running \in ExistingLabs
  /\ yml \in ExistingYml
  /\ inv = [s \in Servers |-> {}]
  /\ changes = 0

OneMoreChange == changes < MaxChanges /\ changes' = changes + 1

\* An operator deploys a lab; its name and its containers' names must be free.
Deploy(t) ==
  /\ OneMoreChange
  /\ \A u \in running : u.lab # t.lab /\ Containers(u) \cap Containers(t) = {}
  /\ running' = running \cup {t}
  /\ UNCHANGED <<yml, inv>>

Destroy(t) ==
  /\ OneMoreChange
  /\ t \in running
  /\ running' = running \ {t}
  /\ UNCHANGED <<yml, inv>>

\* netmcp inventory --from-clab [LAB] -o netmcp.yml, in directory d.
WriteInventory(d) ==
  /\ OneMoreChange
  /\ \E lab \in {None} \cup {t.lab : t \in running} :
       \E t \in Inspected(lab) : yml' = [yml EXCEPT ![d] = InspectToYml(t)]
  /\ UNCHANGED <<running, inv>>

\* A server process is started and loads its nodes, which it keeps until it ends.
Start(s) ==
  /\ OneMoreChange
  /\ inv[s] = {}
  /\ \E e \in Environments : \E i \in LoadNodes(e) : inv' = [inv EXCEPT ![s] = {i}]
  /\ UNCHANGED <<running, yml>>

Stop(s) ==
  /\ inv' = [inv EXCEPT ![s] = {}]
  /\ UNCHANGED <<running, yml, changes>>

-----------------------------------------------------------------------------
(* Properties.                                                             *)

InventoryTypeOK ==
  /\ running \subseteq Topologies
  /\ yml \in YmlTable
  /\ \A s \in Servers : \A i \in inv[s] :
       /\ DOMAIN i.table \subseteq Names /\ \A n \in DOMAIN i.table : i.table[n] \in NodeInfo
       /\ i.lab \subseteq Topologies
  /\ changes \in 0..MaxChanges

\* Labs whose containers both ways of discovery know: the prefix is the default one or
\* "__lab-name", and with the default one the lab is not called "clab", or "clab-clab" ...
Supported(t) ==
  \/ t.prefix = LabName
  \/ t.prefix = DefaultPrefix /\ \E i \in DOMAIN t.lab : t.lab[i] # "clab"

\* The table a server should have: every router of the lab under its name in the topology,
\* with the host name of its container and the login of its NOS.
NodesOf(t) ==
  [n \in Routers(t) |-> [fqdn |-> Container(t, n), nos |-> KindToNos[t.nodes[n]],
                         login |-> DefaultLogin(KindToNos[t.nodes[n]])]]

\* Both ways of discovery give a server the same nodes of a lab, each under its name in the
\* topology and with the host name containerlab gives it, whether they come from the
\* topology file or from what the command line made of the running containers' names.
InventoryMatchesLab ==
  \A s \in Servers : \A i \in inv[s] : \A t \in i.lab : Supported(t) => i.table = NodesOf(t)
=============================================================================
