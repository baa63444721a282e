---------------------------- MODULE MCCumulusEvpn ----------------------------
(* Small instances of CumulusEvpn: two VLANs, two VNIs, of which one is also  *)
(* the id of the other VLAN, two switch ports and an uplink.                 *)
EXTENDS CumulusEvpn, TLC

CONSTANTS p1, p2,  \* switch ports
          up       \* an uplink, never in br_default

MCVlans == {10, 20}
MCVnis == {20, 30}
MCPorts == {p1, p2, up}
MCSwitchPorts == {p1, p2}
OwnVni(v) == v + 10

\* The VLANs `on` have the VNIs vni[v] and are tagged on both switch ports; with
\* `few` ports only p1 is a member.
Bridge(on, vni, few) ==
  [vlan |-> [v \in MCVlans |-> IF v \in on THEN vni[v] ELSE None],
   evpn |-> UNION {vni[v] : v \in on},
   member |-> [p \in MCPorts |-> IF p = p1 \/ (p = p2 /\ ~few) THEN on ELSE None]]

Own == [v \in MCVlans |-> {OwnVni(v)}]

\* VLAN 20, with a port that has no VLAN list and so carries it too.
Unlisted == [Bridge({20}, Own, FALSE) EXCEPT !.member[p1] = {}]

\* Both VLANs; none; the VNI of one used by the other; a VLAN without a VNI; a port without a list.
BothVlans == {Bridge(MCVlans, Own, FALSE)}
MCConfigs ==
  BothVlans
    \cup {Bridge({}, Own, TRUE),
          Bridge({10}, [v \in MCVlans |-> {30}], FALSE),
          Bridge({10}, [v \in MCVlans |-> {}], FALSE),
          Unlisted}

Request(v, p) == [op |-> "provision", vlan |-> v, vni |-> OwnVni(v), port |-> p, dry |-> FALSE]
Name(prefixed, n, d) == [op |-> "delete", prefixed |-> prefixed, number |-> n, dry |-> d]

MCProvisions == {Request(10, p1), Request(10, up), Request(20, p2)}
MCDeletes == {Name(TRUE, 10, FALSE), Name(FALSE, 20, FALSE), Name(TRUE, 20, TRUE)}
NoProvisions == {}
TwoDeletes == {Name(TRUE, 10, FALSE), Name(TRUE, 20, FALSE)}

\* Every request may be refused, and in cumulus_calls any answer may be lost.
NoFaults == {}
AllFaults == {"post", "patch", "apply", "poll", "delete"}

\* What the next steps and the properties still depend on: of a call that has ended without
\* OK only its answer, of one that reads not what nvue_apply did for the call before it, and
\* of a revision that has ended not what it held.  `excused` is for NoRevisionLeft alone.
CallSeen(s) ==
  CASE at[s] = "idle" /\ answer[s] # "ok" -> {}
    [] at[s] \notin {"idle", "apply"} -> {<<req[s], alone[s]>>}
    [] OTHER -> {<<req[s], alone[s], arg[s], mine[s], seen[s], polls[s], said[s]>>}
CallsView ==
  <<config, state, pc, at, gathered, answer, [s \in Servers |-> CallSeen(s)],
    [n \in RevIds |-> IF state[n] \in {"pending", "applying"} THEN tree[n] ELSE {}]>>

\* Servers are interchangeable.
ServerSymmetry == Permutations(Servers)
=============================================================================
