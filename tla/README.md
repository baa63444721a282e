# TLA+ models of netmcp

netmcp is an MCP server: a language model calls vendor-agnostic tools
(`provision_evpn_instance`, `delete_evpn_instance`, `get_bgp_summary`, ...), and
each call is routed to the backend of the node's operating system, which talks to
the network device over gNMI, NETCONF or REST. Most tools read. The ones that write
build or remove an EVPN service out of several configuration objects. The
interesting state is on the device: netmcp itself keeps none between calls.
These modules model the writing tools, what the device may do to them, what
several server processes do to each other on one device, and how a server comes to know
which device a node name means.

Paths below are relative to the repository (`src/netmcp/...`).

## 1. Inventory

| Component | State | Operations | Hard behaviour | What makes it correct |
|---|---|---|---|---|
| Cumulus NVUE client, `nos/cumulus/client.py` | one revision per `nvue_apply` (on the switch), the id and the clock of the call | POST revision, PATCH tree, PATCH apply, poll, DELETE | lost answers, deadline against a late apply, cleanup on every path, kills, several servers | OK only for the call's own applied revision; nothing pending left behind; an error means unchanged; it returns |
| Cumulus backend, `nos/cumulus/backend.py` | VLAN-to-VNI map, EVPN VNIs, port membership | GETs of the applied configuration, then one revision | checks stale when the revision applies; two deletes emptying a port | one VNI per VLAN; a port keeps a VLAN; OK means the service works |
| SR Linux backend, `nos/srl/` | network-instance, vxlan interface, subinterface | three Sets; `_rollback` with three deletes; delete with a GET and up to three deletes | failure of any Set, of the rollback, of the connection; kills; interleaving | OK means all three; rollback leaves nothing and takes nothing that was there before; other services untouched |
| EOS backend, `nos/eos/` | VLAN, VNI mapping, evpn-instance, trunk lists | two to four GETs and one atomic Set | stale reads in the Set; the empty list that means "all VLANs"; ranges; names with several meanings | never open a trunk; instance, VLAN and VNI come and go together; other VLANs untouched |
| NX-OS backend, `nos/nxos/` | VLAN with vn-segment, NVE member VNI, EVPN VNI, trunk strings | one get-config, one edit-config with rollback-on-error | whole trunk list written back; VLAN range and route-target arithmetic | as EOS, and the arithmetic round-trips |
| Junos backend, `nos/junos/` | routing-instances, access units | two GETs, one commit; subscribe replies merged into a tree | check-then-act; units shared or moved | one VNI per instance; delete removes only its own units |
| SR OS backend, `nos/sros/` | VPLS services, interface descriptions | a GET per read, one Set per write | `gnmi_get` answers None for a failure as for an absence, so "not found" may be either; updates merge; the protection against that, reading first, is asked of the caller | OK only for an applied Set; a service provisioned after the node said "not there" is the payload alone |
| Dispatch, registry, server: `dispatch.py`, `registry.py`, `server.py` | node and backend tables, built once at import | resolve node, resolve backend, call | labs and files change while a server runs with the table it loaded; FastMCP runs synchronous tools one after the other in a process | a node changes only by a call that named it |
| Inventory and `netmcp inventory`, `inventory.py`, `cli.py` | `{name: NodeInfo}`, a `netmcp.yml` | load yml, load containerlab, generate from running containers, resolve passwords | precedence, empty and malformed files, duplicate names; node names recovered from container names that contain each other | both ways of discovery give the same nodes |
| IOS XR, `nos/iosxr/` | none | every tool answers "not implemented" | none | a stub changes nothing |
| Read-only tools, helpers, `utils/` | none | GETs and subscriptions, formatting, YANG lookup | none that changes state | - |

How they interact: `server.py` loads the inventory and the backend singletons once;
`dispatch.py` looks the node up and calls one method of one backend; the backend
calls its own client functions, each of which opens a connection of its own for
each request. There are no threads, callbacks or locks inside a process. What
runs concurrently is: the device (NVUE applies a revision in its own time), other
server processes on the same device (stdio mode starts one per client), and
operators. That is what the models interleave.

`PROJECT.json` lists each hazard at the line where it bites, with the properties
that would catch it.

## 2. Modules

| Module | What it is |
|---|---|
| `AtomicWrite` | abstract: what a one-transaction backend promises its caller (ARCHITECTURE.md:275): the configuration changes at most once per call, and the caller is told whether it did |
| `LateWrite` | abstract: what is left of that promise when answers get lost, deadlines pass and servers are killed on a device that writes after it has answered (Cumulus): one change at most, late only after an error or no answer |
| `NvueApply` | `nvue_apply`, one action per HTTP request, with NVUE as environment |
| `CumulusEvpn` | the Cumulus backend: checks and trees, around an `INSTANCE` of `NvueApply` |
| `SrlMacVrf` | SR Linux provision, rollback and delete, one action per gNMI Set |
| `EosEvpn` | EOS provision and delete, one action per gNMI GET and Set |
| `NxosEvpn` | NX-OS provision and delete: get-config, the payload computed from it, edit-config |
| `JunosMacVrf` | Junos provision and delete: two gNMI GETs and one Set |
| `Inventory` | `load_nodes`, `_load_from_yml`, `_load_from_clab`, `clab_inspect_to_yml`, with labs that come and go |
| `SrosBackend` | the SR OS tools: one gNMI GET or one gNMI Set each, around the nodes of `Inventory` |
| `Netmcp` | the path of a tool call: `Inventory`, the resolution of node and backend, `SrosBackend` or a stub |
| `MC*` | values of the constants for TLC |
| `NvueApplyProofs`, `CumulusEvpnProofs`, `SrlMacVrfProofs`, `EosEvpnProofs`, `NxosEvpnProofs`, `JunosMacVrfProofs`, `InventoryProofs`, `NetmcpProofs` | theorems and their proofs |

`EosEvpn`, `NxosEvpn`, `JunosMacVrf` and `SrosBackend` implement `AtomicWrite`
(`ImplementsAtomicWrite` in each). `CumulusEvpn` does as long as NVUE's answers arrive; with
every fault it implements `LateWrite`. SR Linux, with its three Sets, does not claim to.

**Correspondence.** A *server* is one netmcp process; its variables are the locals
of the one call it has at work, plus the class of the string the tool returned
last (`said`, `answer`). `pc` (`at` in `CumulusEvpn`) names the request it sends next.
Code between two requests is part of the action that sends the first of them: nobody
can see it half done. Device state is a variable per configuration table. A request
that can fail has the outcomes the client code can meet: taken and answered; refused;
taken and the answer lost; connection impossible, if that leaves the function by
another way. `Crash` is a kill: no handler runs. Variables marked *history* only record
what happened, so that properties can speak of it: `alone` (no other call has changed the switch
since this one began, whatever calls overlap that read, are refused or end without a write; on SR Linux
only changes for the same service, or for one that shares an object with it, count, and on SR OS only
those of the same entry), `lost` (the answer to the write was lost), `fate`, `had`, `wrote`,
`handmade`, `excused`, `absent`. `calls` is a *bound* and only stops TLC.

- `NvueApply`: `Post`, `Patch`, `Apply`, `Poll` (with `Judge` for one round of the
  loop), `Cleanup` follow `nvue_apply` line by line. The states `applied` and
  `applied_and_saved` are one, `invalid`, `ays_fail` and `apply_fail` are one. Time is
  the number of polls that still fit: with `MayExpire`, the deadline may pass at any
  poll that has not settled, and has passed at the last. NVUE is external: `Settle`
  applies the whole tree or nothing, and `DeleteRevision` may or may not stop a
  revision that is being applied (docs/prd-cumulus-evpn.md 5.4). `excused` holds the
  revisions the code cannot clean up: those whose POST or DELETE went unanswered and
  those of a killed server.
- `CumulusEvpn`: every GET whose answer is used is an action (`ReadRecords`,
  `ReadInterfaces`, `ReadVnis`, `ReadBridge`); the checks belong to the last one. The bridge,
  VXLAN and EVPN prerequisites, which no call changes, are a free choice (`Prerequisites`).
  `ProvisionMerge` and `DeleteMerge` are `_provision_tree` and `_delete_tree` and what
  NVUE's merge makes of them; a port that does not exist and one outside `br_default` are both
  `None`, and a member port without a VLAN list is `{}`. `Applying` is any step of `NvueApply`; `Finish` turns its outcome into an answer.
- `SrlMacVrf`: `Send` is `gnmi_set`, which returns None for every exception of the Set
  and raises when `with gc:` cannot connect. `Edit` is what the three paths do in the
  order of provision, of `_rollback` and of delete. A name of a vxlan interface
  or subinterface that delete cannot parse counts as not listed.
- `EosEvpn`: the five GETs fill `sees`; `Set` writes from `sees`, not from the device.
  Texts that name VLANs and instances are one set (`Names`) that contains the VLAN ids,
  because the code compares them as strings; `None` as a name is Python's
  `str(None)`, which `_find_instance` really matches. `handmade` are the VLANs an operator
  had put into an instance, or left unbacked, at the start. Instances of type VPWS,
  which the code skips, are left out, as are RD, RTs and wording.
- `NxosEvpn`: `GetConfig` is the get-config with all that is computed from its reply: the
  checks and the payload `edit`; `EditConfig` sends it. An allowed list is its set of
  ranges; `VlanSet` and `VlanSpec` are `_vlan_set` and `_vlan_spec`, so that a list is
  parsed, changed and written whole as in the code. Route-targets keep the widths of their
  fields (`HalfWord` stands for 2^16). The switch takes an edit-config whole or refuses
  it, and refuses to delete what is not there. RD, XML, names of more than one NVE
  interface and wording are left out.
- `JunosMacVrf`: `CheckInstances` and `CheckInterfaces` are the two GETs of a provision with
  their checks, `ReadInstances` and `ReadInterfaces` those of a delete; `found` is the
  instance, its logical interfaces, and those that have a unit. Several instances may have a VLAN
  of that name; the first in the switch's order is any of them. A provision merges into
  what is there by then (`Merged`). The parents' port configuration, which no call
  changes, is constant. RD, a unit text with leading zeros, and list replies with a single
  entry unwrapped are left out.
- `Inventory`: a name is the sequence of its "-"-separated parts, because what the code searches
  and cuts is "-"-delimited. `LoadNodes` is the set of tables `load_nodes` may return, empty if
  it raises. Directories are numbered upward; the first `netmcp.yml` and the first `*.clab.yml` upward
  are found as in the code, also when the one found is then not the one used. `ShortName` is
  `_clab_short_name`; `Container` is containerlab's naming and external, as are `Deploy` and
  `Destroy`. `inv[s]` is filled by `Start` and not read again from a file until the process ends.
  Of a table, `lab` is history: the lab it was made from. Addresses are host names only.
- `SrosBackend`: `Get` answers "not found" to an absence and to a failure; `Set` is `gnmi_set`; an entry is
  what netmcp's payload sets of it, and whether an operator has added to it (`more`).
  `absent` is history: the entries of which the caller was told that they are absent, and really were.
  A node that is not `Up` does not answer. Operators' work is in the initial configurations only, here as in
  the other backends: while servers run nobody else edits a device, so `more` is kept but never set.
- `Netmcp`: `Tool` is a function of `dispatch.py`: an unknown node, a NOS without a backend
  and a stub end it at once. A node of one of the five backends that have a module of their own is
  not called here. There is one call at work in a process because FastMCP runs the
  synchronous tools one at a time. `MaxChanges` and `MaxCalls` are the bounds.

Operators introduced by a comment that begins "A wrong ..." or "Wrong forms of ..." are not
part of any specification: each is a plausible bug that replaces the definition
below it, to see that a property notices (`mutants` in `PROJECT.json`).

## 3. Runs

| Run | Checks | Bounds | Shows |
|---|---|---|---|
| `nvue_calls` | `NvueTypeOK` `OkMeansApplied` `TimeoutNeverAfterApplied` `NoRevisionLeft` `EveryCallReturns` | 2 servers, 2 revisions, 3 polls, every fault, deadline, kills | OK is never wrong, whatever is lost, late or killed; cleanup on every path; every call ends |
| `nvue_late_apply` | `ErrorMeansUnchanged` (violated) | 1 server, 1 revision, no fault at all | "no changes were applied" is said while the change is still being applied |
| `cumulus_calls` | `CumulusTypeOK` `ProvisionedWorks` `DeletedLeavesNothing` `OthersUntouched` `ImplementsLateWrite` | 2 servers, 2 revisions, 2 polls, 2 VLANs, 2 VNIs, 3 ports, 5 initial switches, every fault of `nvue_apply`, deadline, kills | what OK means; no working instance loses its VNI or a port but to its own delete, under every interleaving of GETs and requests (a port without a VLAN list excepted); one change per call at most, and what is applied behind its back only after an error |
| `cumulus_race` | `PortNeverEmptied` (violated) | 2 servers, a delete each | two overlapping deletes leave a port without a VLAN |
| `srl_calls` | `TypeOK` `ProvisionedMeansApplied` `ProvisionedIsComplete` `RemovalsLeaveOnlyRefused` `DeletedInstanceGone` `OthersUntouched` | 2 servers, 2 calls of any kind, 3 services of which 2 share a VNI and a subinterface, 4 initial switches, all faults and kills | what the answers mean until another call changes the same objects, and that nobody harms a service that nobody works on |
| `srl_rollback` | `RollbackKeepsExisting` (violated) | 1 call | a failing provision of an existing name deletes it |
| `srl_delete` | `DeletedMeansGone` (violated) | 1 call | OK although two of three deletes were refused |
| `eos_calls` | `EosTypeOK` `ProvisionedWorks` `DeletedLeavesNothing` `InstanceBacked` `OthersUntouched` `TrunkNeverOpened` `ImplementsAtomicWrite` | 2 servers, 3 calls, 3 VLANs, 4 ports, a range, 27 initial switches, all faults | what OK means until another call changes the switch; what holds however stale the reads |
| `eos_trunk_race` | `ProvisionedPortCarries` (violated) | 2 servers, 2 calls | a stale delete cuts a new service off its port |
| `nxos_calls` | `NxosTypeOK` `ProvisionedWorks` `DeletedLeavesNothing` `OthersUntouched` `TrunkNeverEmptied` `WholeOrNothing` `ImplementsAtomicWrite` | 2 servers, 3 calls, 5 VLANs, 3 ports, 9 initial switches, all faults | as `eos_calls`, with whole lists written back and route-target widths |
| `junos_calls` | `JunosTypeOK` `ProvisionedWorks` `DeletedLeavesNothing` `InstanceBacked` `ImplementsAtomicWrite` | 2 servers, 3 calls, 2 VLANs, 2 VNIs, 5 ports, 6 initial switches, all faults | as `eos_calls`; a stale delete never splits a service, and a Set changes no other one |
| `netmcp_calls` | `NetmcpTypeOK` `InventoryMatchesLab` `AnswersHold` `CallsReachTheirNode` `ImplementsAtomicWrite` | 2 servers, 2 calls, 3 changes of labs, files and processes, 3 labs whose names contain one another, 5 ways to start a server, all faults | a call reaches the node it names; what SR OS answers mean; one atomic change |

**Why the bounds suffice.** Every conflict the code can have is between two calls
over one name, VLAN, VNI, port or revision: two servers and two of each give every
such pair, and a third VLAN is the bystander. Three polls are one that
waits, one in the middle and one at the deadline. Two calls in a row let a call find what
a failed, killed or partial one has left; a third call lets an object be deleted, made again
and hit by a delete that is still stale. The initial switches include ones no netmcp call
produces (indexes other than the VNI, bundles, instances without VLANs, ranges, all VLANs
spelled out, half an instance, orphaned VNIs, units an instance lists and the switch does not have).
The labs of `netmcp_calls` have every kind of prefix, a node name that contains the lab's name, two
labs that contend for one name, and a node whose NOS has no backend; three changes let a server load
an inventory, the lab change, and a second server load what is new.
`eos_calls` has a state constraint, `CallsBound`: either the switch is one that netmcp
leaves behind and all calls are among four that contend for one port, or one
server makes two calls of any kind on any switch; the combinations of odd requests
on odd switches under contention are beyond that bound. `cumulus_calls` has all faults of `nvue_apply`; it fits because
`CallsView` leaves out of the comparison of states what no later step and no property of the run
looks at: request, change and revision of a call that has ended without OK, what `nvue_apply` left in its
variables while the next call is still reading, the change of a revision that has ended, and `excused`. Five VLANs and `HalfWord` = 3 let lists have gaps, neighbours and both
ends, and let every route-target kind be hit at and above its boundary.
The safety runs use the symmetry of the servers, which are interchangeable; `nvue_calls`, which
checks liveness, does not. Two revisions in `cumulus_calls` hide one thing the theorem
had to exclude (section 4): a delete that is stale takes the EVPN VNI that another VLAN has got
meanwhile, if an operator had given the deleted VLAN that VNI; it takes three revisions.
Deadlock is not checked: a system in which every call has been made, or every revision
used, has stopped by its bound.

**Serial and concurrent properties.** What OK promises can only hold until another call changes
the switch: that may remove what this one has just made, or make what this one has found free.
`ProvisionedWorks`, `DeletedLeavesNothing` and the `OthersUntouched` of NX-OS therefore ask for
`alone[s]`, which is recorded per call, as do `ProvisionedIsComplete`, `RemovalsLeaveOnlyRefused`,
`DeletedInstanceGone` and the first part of `AnswersHold`. Calls that overlap without changing what `alone`
is about do not matter. `OthersUntouched` of EOS asks only that a trunk list is still the one read
(`ListCurrent`), and only for what becomes of that list. The other properties have no such condition. Some ask that callers give services VLANs, VNIs,
subinterfaces or units of their own (`OthersUntouched` of SR Linux and Cumulus,
`WholeOrNothing`, `Sole` in `JunosMacVrf`); callers who share them do lose them.

**Fairness.** Only `nvue_calls` needs any: weak fairness of each server's own next
request. The code justifies it: it is straight-line code whose requests each have a
timeout of 10 s. Nothing is assumed of NVUE, which may never settle a revision, nor
of callers, nor that a server picks a lucky outcome.

**What was wrong.** The five violation runs are disagreements between code and its own
messages or comments; `PROJECT.json` quotes them. `ImplementsAtomicWrite` excuses calls whose
answer was lost (to `AtomicWrite` they died): every exception is taken for a refusal, so "no changes were
applied" is then said of a change that happened. Other things the models show and no run
is kept for:

- on Cumulus, a `br_default` port without a VLAN list carries every VLAN of the bridge
  (docs/prd-cumulus-evpn.md:424), provision accepts it (backend.py:463) and gives it a list with the new
  VLAN alone: every other VLAN is off that port, and nothing says so. A port that two deletes have
  emptied (`cumulus_race`) is in that state too. `OthersUntouched` has this as its one exception, and
  without it `cumulus_calls` fails from the initial switch `Unlisted`;
- two provisions of one VLAN with different VNIs that both pass the checks leave an NVE and EVPN
  VNI without a VLAN on NX-OS, and a VLAN with two VNIs on Cumulus;
- on NX-OS, as on EOS, a list written whole from a stale read drops a VLAN that another
  call has added meanwhile;
- on SR Linux, an exception from connecting during the second or third Set leaves the tool
  without `_rollback`;
- on Junos, a delete that is stale takes a unit that another service has got meanwhile, and
  misses a unit made between its second GET and its Set;
- on SR OS, "not found" after a failed GET (backend.py:176) sends a caller who reads first, as the tool
  asks, into merging a provision with a service that is there; `AnswersHold` promises a
  service of its own only if the node itself said so;
- any containerlab prefix but "__lab-name", the empty one included, is taken for the default one when
  a topology is loaded (inventory.py:199), and a lab named "clab" hides its nodes' names from
  `_clab_short_name`; `InventoryMatchesLab` is about the other labs (`Supported`);
- an empty `netmcp.yml` falls through to the topology file, although ARCHITECTURE.md:163 gives it
  priority; `load_nodes` raises when there is nothing to load, although its docstring says
  that it returns an empty dict.

## 4. Proofs

TLC's instances have two servers; the theorems hold for any number of servers,
revisions, VLANs, services and requests, any initial switch the assumptions
admit and every fault, unless the last column says otherwise. "Alone" marks a property of calls
since whose beginning no other call has changed the switch (`alone`). A name that stands in two modules of proofs is given with its module.

| Theorem | States | Rests on |
|---|---|---|
| `NvueTypeCorrect` | `NvueSpec => []NvueTypeOK` | `NvueInvariant` |
| `OkIsApplied` | `NvueSpec => []OkMeansApplied` | `NvueInvariant` |
| `NoLateTimeout` | `NvueSpec => []TimeoutNeverAfterApplied` | `NvueInvariant` |
| `NothingLeftPending` | `NvueSpec => []NoRevisionLeft` | `NvueInvariant` and an invariant of its own |
| `CallsRunDown` | `NvueSpec => []RemainingBound /\ EndGetsNearer` | `NvueInvariant`; if the deadline may pass (`MayExpire`) |
| `CumulusTypeCorrect` | `CumulusSpec => []CumulusTypeOK` | the invariant of `NvueApply` and one of the backend |
| `CallsAreNvueApply` | `CumulusSpec => Client!NvueSpec` | `ClientStep` |
| `ToolsLeaveNothingPending` | `CumulusSpec => []NoRevisionLeft` | `CallsAreNvueApply`, `NothingLeftPending` |
| `CumulusWritesOnceOrLate` | `CumulusSpec => ImplementsLateWrite` | `Carried`, `LateStep` |
| `CumulusIsAtomic` | `CumulusSpec => ImplementsAtomicWrite` | `Orderly`; if `AnswersArrive` |
| `ErrorsMeanUnchanged` | `CumulusSpec => []ErrorMeansUnchanged` | `Orderly`; if `AnswersArrive` |
| `ProvisionedServiceWorks` (Cumulus) | `CumulusSpec => []ProvisionedWorks` (alone) | `AloneInv`, `Agreed`; if `CallersAgree` |
| `DeletedServiceGone` (Cumulus) | `CumulusSpec => []DeletedLeavesNothing` (alone) | `AloneInv` |
| `PortsEmptiedOnlyByRaces` | `CumulusSpec => AlonePortsKeepAVlan` (alone) | `AloneInv`, `Carried` |
| `OtherInstancesUntouched` (Cumulus) | `CumulusSpec => OthersUntouched`, port by port | `OwnInv`, `MergeSpares`, `ArrivingStep`; if every VLAN has a VNI of its own (`OwnVnis`) |
| `SrlTypeCorrect` | `Spec => []TypeOK` | `SrlInvariant` |
| `ProvisionedIsApplied` | `Spec => []ProvisionedMeansApplied` | `SrlInvariant` |
| `ProvisionedComplete` | `Spec => []ProvisionedIsComplete` (alone) | `SrlUndisturbed` |
| `RemovalsComplete` | `Spec => []RemovalsLeaveOnlyRefused` (alone) | `SrlUndisturbed` |
| `DeletedGone` | `Spec => []DeletedInstanceGone` (alone) | `SrlUndisturbed` |
| `OtherServicesUntouched` (SR Linux) | `Spec => OthersUntouched` | `OwnInv` |
| `EosTypeCorrect` | `EosSpec => []EosTypeOK` | `EosInvariant` |
| `TrunksStayClosed` | `EosSpec => TrunkNeverOpened` | `EosInvariant` |
| `InstancesStayBacked` (EOS) | `EosSpec => []InstanceBacked` | `EosInvariant` and an invariant of its own |
| `ProvisionedServiceWorks` (EOS) | `EosSpec => []ProvisionedWorks` (alone) | `AloneInv` |
| `DeletedServiceGone` (EOS) | `EosSpec => []DeletedLeavesNothing` (alone) | `AloneInv` |
| `OtherServicesUntouched` (EOS) | `EosSpec => OthersUntouched` | `AloneInv` for the lists of a call that is alone |
| `EosIsAtomic` | `EosSpec => ImplementsAtomicWrite` | `EosInvariant`, `AtomicStep` |
| `NxosTypeCorrect` | `NxosSpec => []NxosTypeOK` | `NxosInvariant` |
| `VlanSpecRoundTrip` | `VlanSet(VlanSpec(vs)) = vs` for every set of VLANs | lemmas about ranges |
| `TrunksKeepAVlan` | `NxosSpec => TrunkNeverEmptied` | `NxosInvariant`, `VlanSpecRoundTrip` |
| `InstancesWholeOrGone` | `NxosSpec => WholeOrNothing` | `NxosInvariant`; if every VLAN has a VNI of its own |
| `ProvisionedServiceWorks` (NX-OS) | `NxosSpec => []ProvisionedWorks` (alone) | `AloneInv` |
| `DeletedServiceGone` (NX-OS) | `NxosSpec => []DeletedLeavesNothing` (alone) | `AloneInv`, `VlanSpecRoundTrip` |
| `OtherVlansUntouched` | `NxosSpec => OthersUntouched` (alone) | `AloneInv`, `VlanSpecRoundTrip` |
| `NxosIsAtomic` | `NxosSpec => ImplementsAtomicWrite` | `NxosInvariant`, `AtomicStep` |
| `JunosTypeCorrect` | `JunosSpec => []JunosTypeOK` | `JunosInvariant` |
| `InstancesStayBacked` (Junos) | `JunosSpec => []InstanceBacked` | `JunosInvariant` and `BackedInv` |
| `ProvisionedServiceWorks` (Junos) | `JunosSpec => []ProvisionedWorks` (alone) | `AloneInv` |
| `DeletedServiceGone` (Junos) | `JunosSpec => []DeletedLeavesNothing` (alone) | `AloneInv` |
| `OtherInstancesUntouched` (Junos) | an instance and its units change only by a call that is about to write it | `BackedInv` |
| `JunosIsAtomic` | `JunosSpec => ImplementsAtomicWrite` | `JunosInvariant`, `AtomicStep` |
| `NetmcpTypeCorrect` | `NetmcpSpec => []NetmcpTypeOK` | `NetmcpInvariant` |
| `ShortNameIsName` | `_clab_short_name` undoes containerlab's naming of the supported labs | facts about the first occurrence of a sequence in a concatenation |
| `LoadedNodesMatchTheLab` | `NetmcpSpec => []InventoryMatchesLab` | `NetmcpInvariant`, the lemmas about names in `InventoryProofs` |
| `CallsReachTheNodeTheyName` | `NetmcpSpec => CallsReachTheirNode` | `NetmcpInvariant`, `CallsInv` |
| `SrosAnswersHold` | `NetmcpSpec => []AnswersHold` (alone; what is said of `absent`, always) | `NetmcpInvariant`, `AnswersInv` |
| `SrosIsAtomic` | `NetmcpSpec => ImplementsAtomicWrite` | `NetmcpInvariant`, `AtomicStep` |

The inductive invariants, and why the properties are not inductive alone:

- `NvueInvariant`: a server past its POST has a revision of its own, and the polls made
  stay below the bound while a poll is still to come. `OkMeansApplied` needs it because
  `Poll` reads `state[mine[s]]`; `NoRevisionLeft` needs besides that a revision that
  no call owns is not pending, which the POST step alone does not show.
- `SrlInvariant` (`SrlInv`): while a provision is at work, every `ok` among `r1, r2, r3` is
  a Set that the switch has applied, and nothing has been said yet. Without it
  `ProvisionEnds`, which only sees `r`, could say anything about `fate`.
- `OwnInv` (SR Linux): a network-instance lists, and a call sends Sets for, only VNIs and
  subinterfaces that callers and operators use for that name. A delete remembers what it has
  read, and a rollback what it was asked for; without this nothing would say that what they
  remember does not meanwhile belong to another service.
- `AloneInv` (each backend): what a call that is alone has read is still what the switch has, at
  each point between two of its requests; once its write is taken, what it promises is there. Nothing is said
  of other servers: their reads and refused writes leave it as it is, and a write that is
  taken ends `alone` for all but its own call. On Cumulus the write is NVUE's (`Settled`): a revision that a call
  has given up on may change the switch under a later call, which is then not alone; `Carried` says that
  what is applied for a call that still waits is what it has asked for, which suits what it has read.
- `AloneInv` (SR Linux): it says which of the three objects are there or gone by now, from the replies of a
  provision and from the fates of a rollback or a delete. It needs `OwnInv`: `EditElsewhere` shows that a Set for a
  service that shares no object with that of the call leaves those objects as they are, because what a
  delete has read and what a rollback was asked for is claimed for its own name only.
- `Remaining` (`NvueApply`): the most requests a call may still send. Each request lowers it, and
  no step of NVUE or of another server raises it; it is at most `MaxPolls + 4`. That is all of
  `EveryCallReturns` but the fairness.
- `CumulusTypeCorrect` takes the lemmas of `NvueApplyProofs` for the `INSTANCE` of `NvueApply`,
  and adds what the backend passes to it. `ClientStep` maps each of the backend's actions to one of
  `NvueApply` or to a stutter, so its theorems hold inside the tools (`CallsAreNvueApply`).
- `Carried` (Cumulus): from its apply request on, a call's revision holds its change, and keeps it
  while it is being applied, be the call over or not. With it `LateStep` maps each step to one of
  `LateWrite`: `Settle` of a revision whose call waits to `Write`, of any other to `LateWrite`'s `Settle`;
  a cleanup or a kill with the revision still on its way to `GiveUp` with a ticket.
- `ChangesStep` (Cumulus): the configuration changes only by a change that some call has asked for,
  from what it had read. `Agreed` and `OwnInv` are about all of those (`Given`), and so need no
  condition on `nvue_apply`.
- `Orderly` (Cumulus, only for `CumulusIsAtomic` and `ErrorsMeanUnchanged`): a revision that is being
  applied belongs to a call that polls it, and what has failed is not applied. It is false
  with a deadline or lost answers, when `nvue_apply` returns while the switch goes on; hence
  `AnswersArrive` (no lost answer to the apply request or a poll, no deadline, no kill), the exact
  converse of `nvue_late_apply`. The answers to POST, PATCH and DELETE may be lost, and every request may be refused.
- `Agreed` and `OwnInv` (Cumulus): NVUE merges, so a VLAN can get a second VNI; no VLAN has two if
  callers agree on its VNI (`CallersAgree`). No switch, stale read or change connects a VLAN to another
  VLAN's VNI if each has one of its own (`OwnVnis`), which is why a delete, however stale, unsets
  nothing of another VLAN. `MergeSpares` then compares a working VLAN port by port before and after one change:
  a delete only takes its own VLAN from lists (and a list it empties carries all again), a provision only adds to lists,
  so nothing but a provision on a port that has none takes a VLAN from a port. `ArrivingStep` ties the
  change to the revision that ends in that very step.
- `EosInvariant`: what servers have seen has the type of the device. For
  `InstanceBacked` (`NetmcpInv`): a VLAN that is not `handmade` is only in the instance named
  for it, on the switch and in what any server has seen, however stale, and the target
  of a delete is such a pair. That is why a stale delete still removes instance,
  VLAN and VNI together.
- `NxosInvariant`: types, and that requests at work have been validated, so that `ToNxosId` fits
  its fields. For `TrunkNeverEmptied`: every list a payload is going to write has a VLAN
  (`ListsNotEmpty`), which is true when it is computed and needs the round trip, because
  it is a statement about what the switch will read out of it. For `WholeOrNothing`:
  a delete payload names the VNI that VLAN has, and both its deletes, or it will be refused.
- `JunosInvariant` (`JunosInv`): types, and that a call at work has said nothing and lost
  nothing. For `InstanceBacked` (`BackedInv`): an instance, and what a delete has
  found, list only interfaces that callers and operators use for that name; so a
  delete that takes the unit of such an interface also takes the instance that lists it. `OtherInstancesUntouched`
  follows from it too: a Set changes units of its own instance, and those that are used for several.
- `NetmcpInvariant` (`NetmcpInv`): types, and that what is in a `netmcp.yml` the command line wrote,
  and in a table made from it, are the lab's nodes. It rests on `InventoryProofs`: `ShortName`
  undoes `Container` for the supported labs, which is a fact about the first occurrence of a
  sequence in a concatenation, and one that searching before looking at the start of the name
  would break. `CallsInv`: a call at work goes to the host its node name had in the table; the
  table cannot change under it, because only the end of the process removes it and ends the call.
  `AnswersInv`: as `AloneInv`, for one entry (`SetElsewhere`), and that an entry recorded as `absent` is
  absent or the payload alone from then on, whoever writes it: netmcp only merges its own payload into it.
- `EosIsAtomic`, `NxosIsAtomic`, `JunosIsAtomic`, `SrosIsAtomic`, `CumulusIsAtomic`: `CallMove` and `AnswerMove` say what moving one server does to the mapped
  variables; `AtomicStep` maps each action to a step of `AtomicWrite` (GETs to nothing,
  `Set` to `Write`, `Reply` to `Return`, or to `Die` if it is lost).

Each proof has one step per action of the next-state relation. Assumptions are those of
the modules' `ASSUME`s, which TLC evaluates in the runs.

**Only model-checked.** Liveness (`EveryCallReturns`), which is outside the prover's reach; its core, the
measure, is proved (`CallsRunDown`). Every other property of the passing runs is stated by a theorem.

**Converses.** Some theorems say where exactly the disagreements of the violation runs end:
`ErrorsMeanUnchanged` and `CumulusWritesOnceOrLate` for `nvue_late_apply`, `RemovalsComplete` for
`srl_delete`, `PortsEmptiedOnlyByRaces` for `cumulus_race`.

## 5. Not modelled

Every tool that changes state on a device is modelled, and so is everything between the tool call and
the request that changes it. What is left out changes no state:

- **the read-only tools** of all backends, except `get_evpn_instance` of SR OS, on whose answer a
  provision depends by the tool's own description;
- **formatting and YANG helpers** (`utils/`), log output and wording of answers;
- **`resolve_password`**: it reads environment variables anew at each connection and only decides
  whether the node accepts it; every request may be refused in the models anyway;
- **the merge of Junos subscribe replies** into a tree (`_insert`, `_descend`): recursion over data of
  one read, which has no interleaving, and whose correctness for every input the prover cannot
  reach either;
- **IOS XR**: a stub, which `Netmcp` models as one;
- payload details that no check or property depends on (RD, names, descriptions of objects).

What could be taken further: more than one payload shape per SR OS service; a combined model of
one server with nodes of several backends, which share nothing but the inventory; and a third revision
in `cumulus_calls`, which leaves the bounds of a run of minutes.
