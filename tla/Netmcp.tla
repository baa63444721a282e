-------------------------------- MODULE Netmcp --------------------------------
(***************************************************************************)
(* The whole path of a tool call (src/netmcp/dispatch.py, server.py,           *)
(* registry.py): a server process resolves the caller's node name in the nodes  *)
(* it loaded when it was started, and passes the call to the backend of the       *)
(* node's NOS.  Here that is SR OS, or a stub; the other backends have modules    *)
(* of their own.  Meanwhile operators deploy and destroy labs and write a new     *)
(* netmcp.yml, which a server that runs does not see.                            *)
(***************************************************************************)
EXTENDS SrosBackend

netmcpVars == <<inventoryVars, srosVars>>

ASSUME NetmcpAssumption ==
  /\ \A t \in Topologies : \A n \in Routers(t) :
       FromClab(t).table[n].fqdn \in Targets /\ Container(t, n) \in Targets
  /\ \A files \in ExistingYml : \A d \in Dirs : files[d] \in YmlFile =>
       \A e \in files[d].nodes : e.fqdn \in Targets

NetmcpTypeOK == InventoryTypeOK /\ SrosTypeOK

NetmcpInit == InventoryInit /\ SrosInit

\* REGISTRY, as the backends it has.
Registry == {"sros", "srl", "eos", "junos", "iosxr", "nxos", "cumulus"}

\* A wrong Resolve: a node whose name ends with the one asked for will do.
ResolveBySuffix(table, n) ==
  {table[m] : m \in {m \in DOMAIN table : Len(n) <= Len(m) /\ n = After(m, Len(m) - Len(n))}}

\* _resolve: the node's connection details, if there are any and its NOS has a backend.
Resolve(table, n) == {table[m] : m \in {m \in DOMAIN table : m = n /\ table[m].nos \in Registry}}

\* A NotImplementedBackend answers every call with an error: IOS XR is nothing else, and
\* set_interface_description is implemented for SR OS only.
Stubbed(nos, q) == nos = "iosxr" \/ (nos # "sros" /\ q.op = "describe")

\* A tool of dispatch.py is called: it resolves the node and calls the backend's method.
Tool(s) ==
  /\ \E i \in inv[s], n \in NodeNames, q \in Requests :
       \/ /\ \/ Resolve(i.table, n) = {}
             \/ \E info \in Resolve(i.table, n) : Stubbed(info.nos, q)
          /\ Begin(s, {}, "idle", "other")
       \/ \E info \in Resolve(i.table, n) :
            LET k == [node |-> n, to |-> info.fqdn, q |-> q] IN
            /\ info.nos = "sros"
            /\ \/ GetEvpnInstance(s, k) \/ SetInterfaceDescription(s, k)
               \/ ProvisionEvpnInstance(s, k) \/ DeleteEvpnInstance(s, k)
  /\ UNCHANGED inventoryVars

Backend(s) == (Get(s) \/ Set(s) \/ Reply(s)) /\ UNCHANGED inventoryVars

\* The server process ends, whatever it is doing.
Ends(s) ==
  /\ inv[s] # {}
  /\ Stop(s)
  /\ pc' = [pc EXCEPT ![s] = "idle"]
  /\ UNCHANGED <<conf, req, said, alone, absent, lost, calls>>

Labs == \/ \E t \in Topologies : Deploy(t) \/ Destroy(t)
        \/ \E d \in Dirs : WriteInventory(d)

NetmcpNext ==
  \/ \E s \in Servers : Tool(s) \/ Backend(s) \/ Ends(s)
  \/ (Labs \/ \E s \in Servers : Start(s)) /\ UNCHANGED srosVars

NetmcpSpec == NetmcpInit /\ [][NetmcpNext]_netmcpVars

-----------------------------------------------------------------------------
(* Properties.                                                             *)

\* A node's configuration changes only by a call whose caller named that node, by its name
\* in the topology of the lab the server's inventory was made of, however many labs have
\* been deployed, destroyed and written to inventories since that server loaded its nodes.
CallsReachTheirNode ==
  [][\A to \in Targets : conf'[to] # conf[to] =>
       \E s \in Servers : \E k \in req[s] :
         /\ k.to = to
         /\ \A i \in inv[s] : \A t \in i.lab :
              Supported(t) => k.node \in Routers(t) /\ to = Container(t, k.node)]_netmcpVars
=============================================================================
