------------------------------- MODULE MCNetmcp -------------------------------
(* Small instances of Netmcp: labs of all prefixes, with names that contain one another. *)
EXTENDS Netmcp, TLC

CONSTANTS svc, ifc,      \* a service, an interface
          good, bad      \* payloads; _VplsIntent refuses the second

MCTokens == {"clab", "__lab-name", "dc", "mv", "a", "b", "x", "host"}
MCTexts == {"sros", "srl", "eos", "junos", "iosxr", "nxos", "cumulus", "admin", "vyos"}

\* Lab "mv" with a node "b" and a node "a-mv-b"; lab "dc" with nodes of every sort, and
\* again with a prefix of its own.
Mv == [lab |-> <<"mv">>, prefix |-> LabName,
       nodes |-> <<"b">> :> "nokia_srsim" @@ <<"a", "mv", "b">> :> "nokia_srsim"]
Dc == [lab |-> <<"dc">>, prefix |-> DefaultPrefix,
       nodes |-> <<"b">> :> "nokia_srsim" @@ <<"x">> :> "cisco_xrd" @@ <<"host">> :> "linux"]
DcX == [lab |-> <<"dc">>, prefix |-> <<"x">>, nodes |-> <<"b">> :> "nokia_srsim"]
MCTopologies == {Mv, Dc, DcX}

MCExistingLabs == {{Mv, Dc}}

MCTopologyFile == <<None, Dc>>
Environment(cwd, topology, no) == [cwd |-> cwd, topology |-> topology, noInventory |-> no]
MCEnvironments ==
  {Environment(1, None, FALSE), Environment(1, Mv, FALSE), Environment(1, Missing, FALSE), Environment(2, Missing, FALSE),
   Environment(1, None, TRUE)}

\* Written by hand: two entries of one name, one with a NOS there is no backend for.
HandMade ==
  [nodes |-> {[name |-> <<"b">>, fqdn |-> <<"mv", "b">>, nos |-> "sros", login |-> None],
              [name |-> <<"b">>, fqdn |-> <<"dc", "b">>, nos |-> "sros",
               login |-> [port |-> 57401, user |-> "admin"]],
              [name |-> <<"x">>, fqdn |-> <<"x">>, nos |-> "vyos", login |-> None]},
   lab |-> {}]
MCExistingYml == {<<Empty, HandMade>>, <<Malformed, HandMade>>}

MCTargets == {<<"mv", "b">>, <<"mv", "a", "mv", "b">>, <<"clab", "dc", "b">>, <<"clab", "dc", "x">>,
              <<"x", "dc", "b">>, <<"dc", "b">>, <<"x">>}
MCNodeNames == {<<"b">>, <<"a", "mv", "b">>, <<"x">>}

MCRequests ==
  {[op |-> "get", entry |-> svc, body |-> None, dry |-> FALSE],
   [op |-> "provision", entry |-> svc, body |-> good, dry |-> FALSE],
   [op |-> "provision", entry |-> svc, body |-> bad, dry |-> FALSE],
   [op |-> "describe", entry |-> ifc, body |-> bad, dry |-> FALSE],
   [op |-> "delete", entry |-> svc, body |-> None, dry |-> FALSE],
   [op |-> "delete", entry |-> svc, body |-> None, dry |-> TRUE]}

\* On two nodes the service is an operator's, elsewhere there is none; the interface is
\* there with its address.
MCExistingConf ==
  {[u \in Targets |->
      svc :> (IF u \in {<<"mv", "b">>, <<"x", "dc", "b">>} THEN [body |-> bad, more |-> TRUE] ELSE None)
      @@ ifc :> [body |-> good, more |-> TRUE]]}

\* Servers are interchangeable.
ServerSymmetry == Permutations(Servers)
=============================================================================
