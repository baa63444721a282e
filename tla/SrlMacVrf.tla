------------------------------ MODULE SrlMacVrf ------------------------------
(***************************************************************************)
(* provision_evpn_instance, delete_evpn_instance and _rollback of the SR    *)
(* Linux backend (src/netmcp/nos/srl/backend.py): a MAC-VRF service is three *)
(* objects, written and removed by three separate gNMI Sets, so other calls,  *)
(* failures and crashes come between them.  Each Set is one action.           *)
(*                                                                         *)
(* The switch is external: a Set is taken whole or refused, an update merges   *)
(* into a list, a delete of something absent succeeds.                         *)
(***************************************************************************)
EXTENDS Naturals

CONSTANTS Servers,       \* server processes; each runs one tool call at a time
          Services,      \* network-instance names
          Vnis,          \* VNIs, which are also the vxlan0 interface indexes
          Subifs,        \* subinterfaces (port and VLAN id)
          AccessSubifs,  \* those _MacVrfIntent permits (no uplink, VLAN 2..4094)
          Provisions,    \* the provision requests callers make
          Deletes,       \* the delete requests callers make
          Existing,      \* the configurations the switch may have at the start
          None,          \* no network-instance of a name, no vxlan interface of an index
          MaxCalls       \* bound: tool calls made in all

NetworkInstance == [ifs : SUBSET Subifs, vxs : SUBSET Vnis]
ProvisionRequest == [name : Services, vni : Vnis, subif : Subifs, dry : BOOLEAN]
DeleteRequest == [name : Services, dry : BOOLEAN]
NiTable == [Services -> NetworkInstance \cup {None}]
VxlanTable == [Vnis -> Vnis \cup {None}]

ASSUME SrlAssumption ==
  /\ Provisions \subseteq ProvisionRequest
  /\ Deletes \subseteq DeleteRequest
  /\ AccessSubifs \subseteq Subifs
  /\ MaxCalls \in Nat
  /\ None \notin NetworkInstance /\ None \notin Vnis
  /\ \A d \in Existing : d \in [ni : NiTable, vxlan : VxlanTable, subif : SUBSET Subifs]

\* What callers and operators use for service n, and which services share none of it.
Vxs(n) == {q.vni : q \in {p \in Provisions : p.name = n}}
            \cup UNION {d.ni[n].vxs : d \in {e \in Existing : e.ni[n] # None}}
Ifs(n) == {q.subif : q \in {p \in Provisions : p.name = n}}
            \cup UNION {d.ni[n].ifs : d \in {e \in Existing : e.ni[n] # None}}
Apart(n, m) == n # m /\ Vxs(n) \cap Vxs(m) = {} /\ Ifs(n) \cap Ifs(m) = {}

VARIABLES ni,     \* switch: the network-instances
          vxlan,  \* switch: vxlan interface index -> ingress VNI
          subif,  \* switch: the subinterfaces
          pc,     \* per server: "idle", "read", "write", "rollback" or "remove"
          name,   \* per server: service_name or instance_name of the call ({} before one)
          vx,     \* per server: the vxlan indexes it sends a Set for ({} or one)
          ifc,    \* per server: the subinterfaces it sends a Set for ({} or one)
          dry,    \* per server: dry_run
          step,   \* per server: the Set it sends next (1, 2, 3; 4 = all sent)
          r,      \* per server: what r1, r2, r3 hold ("ok", or "none" for None)
          said,   \* per server: the answer of its last call
          fate,   \* history: what became of each Set of the phase (writing, undoing, removing)
          alone,  \* history: since this call began, no other for its service, or for one
                  \* that shares an object with it, has changed the switch
          had,    \* history: the network-instance existed when the call was made
          calls   \* bound: tool calls made so far

device == <<ni, vxlan, subif>>
request == <<name, vx, ifc, dry>>
vars == <<device, pc, request, step, r, said, fate, alone, had, calls>>

Answers == {"none", "provisioned", "deleted", "rolled back", "partial", "not found", "dry run", "invalid", "raised"}
Phases == {"write", "rollback", "remove"}
Sets == 1..3
Fates == {"unsent", "refused", "applied"}
Log == [Sets -> Fates]
Replies == [Sets -> {"ok", "none"}]
PcValues == {"idle", "read"} \cup Phases
NothingSent == [i \in Sets |-> "unsent"]
NoReplies == [i \in Sets |-> "none"]

TypeOK ==
  /\ ni \in NiTable
  /\ vxlan \in VxlanTable
  /\ subif \subseteq Subifs
  /\ pc \in [Servers -> PcValues]
  /\ name \in [Servers -> SUBSET Services]
  /\ vx \in [Servers -> SUBSET Vnis]
  /\ ifc \in [Servers -> SUBSET Subifs]
  /\ dry \in [Servers -> BOOLEAN]
  /\ step \in [Servers -> 1..4]
  /\ r \in [Servers -> Replies]
  /\ said \in [Servers -> Answers]
  /\ fate \in [Servers -> Log]
  /\ alone \in [Servers -> BOOLEAN]
  /\ had \in [Servers -> BOOLEAN]
  /\ calls \in 0..MaxCalls

Init ==
  /\ \E d \in Existing : ni = d.ni /\ vxlan = d.vxlan /\ subif = d.subif
  /\ pc = [s \in Servers |-> "idle"]
  /\ name = [s \in Servers |-> {}]
  /\ vx = [s \in Servers |-> {}]
  /\ ifc = [s \in Servers |-> {}]
  /\ dry = [s \in Servers |-> FALSE]
  /\ step = [s \in Servers |-> 1]
  /\ r = [s \in Servers |-> NoReplies]
  /\ said = [s \in Servers |-> "none"]
  /\ fate = [s \in Servers |-> NothingSent]
  /\ alone = [s \in Servers |-> FALSE]
  /\ had = [s \in Servers |-> FALSE]
  /\ calls = 0

-----------------------------------------------------------------------------
(* The objects a call names, as edits of the switch.                         *)

AddSubif(s) ==
  /\ subif' = subif \cup ifc[s]
  /\ UNCHANGED <<ni, vxlan>>

AddVxlan(s) ==
  /\ vxlan' = [v \in Vnis |-> IF v \in vx[s] THEN v ELSE vxlan[v]]
  /\ UNCHANGED <<ni, subif>>

\* A wrong AddNi: an existing network-instance is left as it is.
AddNiOnce(s) ==
  /\ ni' = [n \in Services |->
              IF n \in name[s] /\ ni[n] = None THEN [ifs |-> ifc[s], vxs |-> vx[s]] ELSE ni[n]]
  /\ UNCHANGED <<vxlan, subif>>

\* The lists of an existing network-instance keep their entries: update merges.
AddNi(s) ==
  /\ ni' = [n \in Services |->
              IF n \notin name[s] THEN ni[n]
              ELSE IF ni[n] = None THEN [ifs |-> ifc[s], vxs |-> vx[s]]
              ELSE [ifs |-> ni[n].ifs \cup ifc[s], vxs |-> ni[n].vxs \cup vx[s]]]
  /\ UNCHANGED <<vxlan, subif>>

\* A wrong DelSubif: the interface goes, with all of its subinterfaces.
DelInterface(s) ==
  /\ subif' = IF ifc[s] = {} THEN subif ELSE {}
  /\ UNCHANGED <<ni, vxlan>>

DelSubif(s) ==
  /\ subif' = subif \ ifc[s]
  /\ UNCHANGED <<ni, vxlan>>

DelVxlan(s) ==
  /\ vxlan' = [v \in Vnis |-> IF v \in vx[s] THEN None ELSE vxlan[v]]
  /\ UNCHANGED <<ni, subif>>

DelNi(s) ==
  /\ ni' = [n \in Services |-> IF n \in name[s] THEN None ELSE ni[n]]
  /\ UNCHANGED <<vxlan, subif>>

\* The order of the Sets: provision ends with the network-instance, rollback
\* and delete begin with it.
Edit(s) ==
  IF pc[s] = "write"
  THEN \/ step[s] = 1 /\ AddSubif(s)
       \/ step[s] = 2 /\ AddVxlan(s)
       \/ step[s] = 3 /\ AddNi(s)
  ELSE \/ step[s] = 1 /\ DelNi(s)
       \/ step[s] = 2 /\ DelVxlan(s)
       \/ step[s] = 3 /\ DelSubif(s)

-----------------------------------------------------------------------------
(* Calls.                                                                  *)

\* A tool call reaches server s; `next` is what it does first.
Begin(s, n, vs, fs, d, next, answer) ==
  /\ pc[s] = "idle"
  /\ calls < MaxCalls
  /\ calls' = calls + 1
  /\ pc' = [pc EXCEPT ![s] = next]
  /\ name' = [name EXCEPT ![s] = {n}]
  /\ vx' = [vx EXCEPT ![s] = vs]
  /\ ifc' = [ifc EXCEPT ![s] = fs]
  /\ dry' = [dry EXCEPT ![s] = d]
  /\ step' = [step EXCEPT ![s] = 1]
  /\ r' = [r EXCEPT ![s] = NoReplies]
  /\ said' = [said EXCEPT ![s] = answer]
  /\ fate' = [fate EXCEPT ![s] = NothingSent]
  /\ alone' = [alone EXCEPT ![s] = TRUE]
  /\ had' = [had EXCEPT ![s] = ni[n] # None]
  /\ UNCHANGED device

\* Validation and dry_run come before the first Set, and nothing is read.
Provision(s) ==
  \E q \in Provisions :
    LET args(next, answer) == Begin(s, q.name, {q.vni}, {q.subif}, q.dry, next, answer)
    IN \/ q.subif \notin AccessSubifs /\ args("idle", "invalid")
       \/ q.subif \in AccessSubifs /\ q.dry /\ args("idle", "dry run")
       \/ q.subif \in AccessSubifs /\ ~q.dry /\ args("write", "none")

Delete(s) ==
  \E q \in Deletes : Begin(s, q.name, {}, {}, q.dry, "read", "none")

End(s, answer) ==
  /\ pc' = [pc EXCEPT ![s] = "idle"]
  /\ said' = [said EXCEPT ![s] = answer]

\* The first entry of a list, if there is one.
First(entries, chosen) ==
  \/ entries = {} /\ chosen = {}
  \/ \E e \in entries : chosen = {e}

\* delete reads the network-instance to find its vxlan interface and subinterface.
Read(s) ==
  /\ pc[s] = "read"
  /\ \E n \in name[s] :
       \/ /\ ni[n] = None
          /\ End(s, "not found")
          /\ UNCHANGED <<vx, ifc>>
       \/ /\ ni[n] # None
          /\ \E v \in SUBSET ni[n].vxs : First(ni[n].vxs, v) /\ vx' = [vx EXCEPT ![s] = v]
          /\ \E f \in SUBSET ni[n].ifs : First(ni[n].ifs, f) /\ ifc' = [ifc EXCEPT ![s] = f]
          /\ \/ dry[s] /\ End(s, "dry run")
             \/ ~dry[s] /\ pc' = [pc EXCEPT ![s] = "remove"] /\ UNCHANGED said
  /\ UNCHANGED <<device, name, dry, step, r, fate, alone, had, calls>>

\* gnmi_get raises and delete does not catch it.
ReadRaises(s) ==
  /\ pc[s] = "read"
  /\ End(s, "raised")
  /\ UNCHANGED <<device, request, step, r, fate, alone, had, calls>>

\* A wrong Sending: one Set too many.
SendingOneMore(s) == pc[s] \in Phases /\ step[s] \in 1..4

Sending(s) == pc[s] \in Phases /\ step[s] \in Sets

\* A wrong Skipped: rollback sends nothing more once a Set of it was refused.
SkippedOnceRefused(s) ==
  \/ pc[s] = "rollback" /\ \E i \in Sets : fate[s][i] = "refused"
  \/ pc[s] = "remove" /\ step[s] = 2 /\ vx[s] = {}
  \/ pc[s] = "remove" /\ step[s] = 3 /\ ifc[s] = {}

\* delete has no path to send when the instance lists no such object.
Skipped(s) ==
  /\ pc[s] = "remove"
  /\ \/ step[s] = 2 /\ vx[s] = {}
     \/ step[s] = 3 /\ ifc[s] = {}

\* The Set is answered with `reply`; r1, r2, r3 keep it, _rollback drops it.
Answered(s, reply) ==
  /\ step' = [step EXCEPT ![s] = @ + 1]
  /\ r' = IF pc[s] = "rollback" THEN r ELSE [r EXCEPT ![s][step[s]] = reply]
  /\ UNCHANGED <<pc, said>>

Fate(s, what) == fate' = [fate EXCEPT ![s][step[s]] = what]

Applied(s) ==
  /\ Edit(s)
  /\ Fate(s, "applied")
  /\ alone' = [t \in Servers |-> alone[t] /\ (t = s \/ \A n \in name[s], m \in name[t] : Apart(n, m))]

Refused(s) == UNCHANGED <<device, alone>> /\ Fate(s, "refused")

\* One gnmi_set: applied and answered; refused (gnmi_set returns None); applied
\* without an answer (None too); or no connection, which raises out of the tool
\* because `with gc:` is outside the try.
Send(s) ==
  /\ Sending(s)
  /\ ~Skipped(s)
  /\ \/ Applied(s) /\ Answered(s, "ok")
     \/ Refused(s) /\ Answered(s, "none")
     \/ Applied(s) /\ Answered(s, "none")
     \/ Refused(s) /\ End(s, "raised") /\ UNCHANGED <<step, r>>
  /\ UNCHANGED <<request, had, calls>>

Skip(s) ==
  /\ Sending(s)
  /\ Skipped(s)
  /\ Answered(s, "none")
  /\ UNCHANGED <<device, request, fate, alone, had, calls>>

\* A wrong AllOk: r3 is forgotten.
FirstTwoOk(s) == r[s][1] = "ok" /\ r[s][2] = "ok"

AllOk(s) == \A i \in Sets : r[s][i] = "ok"

\* if not (r1 and r2 and r3): _rollback(...)
ProvisionEnds(s) ==
  /\ pc[s] = "write"
  /\ step[s] = 4
  /\ \/ /\ AllOk(s)
        /\ End(s, "provisioned")
        /\ UNCHANGED <<step, r, fate>>
     \/ /\ ~AllOk(s)
        /\ pc' = [pc EXCEPT ![s] = "rollback"]
        /\ step' = [step EXCEPT ![s] = 1]
        /\ r' = [r EXCEPT ![s] = NoReplies]
        /\ fate' = [fate EXCEPT ![s] = NothingSent]
        /\ UNCHANGED said
  /\ UNCHANGED <<device, request, alone, had, calls>>

RollbackEnds(s) ==
  /\ pc[s] = "rollback"
  /\ step[s] = 4
  /\ End(s, "rolled back")
  /\ UNCHANGED <<device, request, step, r, fate, alone, had, calls>>

\* A wrong DeleteEnds: r2 decides.
DeleteEndsByVxlan(s) ==
  /\ pc[s] = "remove"
  /\ step[s] = 4
  /\ End(s, IF r[s][2] = "ok" THEN "deleted" ELSE "partial")
  /\ UNCHANGED <<device, request, step, r, fate, alone, had, calls>>

\* if r1 and (r2 is not False) and (r3 is not False): gnmi_set returns a reply
\* or None and never False, so r1 alone decides.
DeleteEnds(s) ==
  /\ pc[s] = "remove"
  /\ step[s] = 4
  /\ End(s, IF r[s][1] = "ok" THEN "deleted" ELSE "partial")
  /\ UNCHANGED <<device, request, step, r, fate, alone, had, calls>>

Crash(s) ==
  /\ pc[s] # "idle"
  /\ pc' = [pc EXCEPT ![s] = "idle"]
  /\ UNCHANGED <<device, request, step, r, said, fate, alone, had, calls>>

Next ==
  \E s \in Servers :
    \/ Provision(s) \/ Delete(s)
    \/ Read(s) \/ ReadRaises(s) \/ Send(s) \/ Skip(s)
    \/ ProvisionEnds(s) \/ RollbackEnds(s) \/ DeleteEnds(s)
    \/ Crash(s)

Spec == Init /\ [][Next]_vars

-----------------------------------------------------------------------------
(* Properties.                                                             *)

\* A network-instance and everything it needs is on the switch.
Complete(n) ==
  /\ ni[n] # None
  /\ ni[n].vxs # {} /\ \A v \in ni[n].vxs : vxlan[v] # None
  /\ ni[n].ifs # {} /\ ni[n].ifs \subseteq subif

Busy(n) == \E s \in Servers : pc[s] # "idle" /\ n \in name[s]

\* "OK: MAC-VRF ... provisioned" is answered only after the switch has applied
\* all three Sets of the call, whatever other calls did in between.
ProvisionedMeansApplied ==
  \A s \in Servers : said[s] = "provisioned" => \A i \in Sets : fate[s][i] = "applied"

\* "OK: MAC-VRF ... provisioned": until another call for this service, or for one that shares
\* an object with it, changes the switch, the three objects that were asked for are there and
\* tied together, whatever calls for other services do, and whatever an earlier failed, killed
\* or partial call had left there under the same names.
ProvisionedIsComplete ==
  \A s \in Servers, n \in Services : said[s] = "provisioned" /\ alone[s] /\ n \in name[s] =>
    /\ ni[n] # None /\ vx[s] \subseteq ni[n].vxs /\ ifc[s] \subseteq ni[n].ifs
    /\ \A v \in vx[s] : vxlan[v] = v
    /\ ifc[s] \subseteq subif

\* Under the same condition, _rollback leaves an object of the failed
\* provision on the switch, and delete one of those it has found, only if the switch
\* refused its delete: the other two go whichever Set failed first, and also those
\* applied without an answer.
RemovalsLeaveOnlyRefused ==
  \A s \in Servers : said[s] \in {"rolled back", "deleted", "partial"} /\ alone[s] =>
    /\ \A n \in name[s] : ni[n] # None => fate[s][1] = "refused"
    /\ \A v \in vx[s] : vxlan[v] # None => fate[s][2] = "refused"
    /\ \A f \in ifc[s] : f \in subif => fate[s][3] = "refused"

\* "OK: MAC-VRF ... deleted" means at least, under that condition too, that the
\* network-instance is gone, so its vxlan interface and subinterface carry no service any more.
DeletedInstanceGone ==
  \A s \in Servers, n \in Services :
    said[s] = "deleted" /\ alone[s] /\ n \in name[s] => ni[n] = None

\* The services that share no object with another.
Sole == {n \in Services : \A m \in Services \ {n} : Apart(n, m)}

\* A provision or delete of one service, a rollback included, never takes anything
\* away from a complete service that no call is working on, if callers and operators
\* give that service a VNI and a subinterface of its own.
OthersUntouched ==
  [][\A n \in Sole : Complete(n) /\ ~Busy(n) => Complete(n)']_vars

-----------------------------------------------------------------------------
(* What the code's comments and messages say and the code does not do.        *)

\* backend.py:125 and 363, "rollback of a partially provisioned MAC-VRF" and
\* "All changes have been rolled back.": a service that was there before the
\* call is still there after it.
RollbackKeepsExisting ==
  \A s \in Servers, n \in Services :
    said[s] = "rolled back" /\ n \in name[s] /\ had[s] => ni[n] # None

\* backend.py:374 and 427, "Delete a MAC-VRF service and its associated VXLAN
\* interface and subinterface" and "OK: MAC-VRF ... deleted".
DeletedMeansGone ==
  \A s \in Servers : said[s] = "deleted" =>
    /\ \A v \in vx[s] : vxlan[v] = None
    /\ \A f \in ifc[s] : f \notin subif

=============================================================================
