------------------------------ MODULE SrosBackend ------------------------------
(***************************************************************************)
(* The tools of the SR OS backend (src/netmcp/nos/sros/backend.py, client.py): *)
(* a read is one gNMI GET, a write one gNMI Set of one list entry, a VPLS       *)
(* service or an interface.  Nothing is read before a write: the tools'         *)
(* description asks the caller to read first (dispatch.py:250, 284).            *)
(*                                                                         *)
(* The node is external: it may refuse any Set; an update merges into an         *)
(* entry; a delete of something absent succeeds; its configuration stays in the   *)
(* lab's directory when the lab is destroyed.                                    *)
(***************************************************************************)
EXTENDS Inventory

CONSTANTS Targets,     \* the hosts a server may connect to
          NodeNames,   \* the node names callers use
          Services,    \* VPLS service names
          Interfaces,  \* interface names
          Bodies,      \* what a payload sets of an entry: VNI, EVI, targets ...; a description
          ValidBodies, \* those _VplsIntent permits
          Requests,    \* the tool calls callers make
          ExistingConf,\* the configurations the nodes may have at the start
          MaxCalls     \* bound: tool calls made in all

\* An entry: what netmcp's payload sets, and whether an operator has added to it
\* (SAPs, spoke-SDPs, addresses).
Entry == [body : Bodies, more : BOOLEAN]
Entries == Services \cup Interfaces
ConfTable == [Targets -> [Entries -> Entry \cup {None}]]
ReadRequest == [op : {"get", "delete"}, entry : Services, body : {None}, dry : BOOLEAN]
WriteRequest == [op : {"provision"}, entry : Services, body : Bodies, dry : BOOLEAN]
DescribeRequest == [op : {"describe"}, entry : Interfaces, body : Bodies, dry : BOOLEAN]
Request == ReadRequest \cup WriteRequest \cup DescribeRequest

\* A call at work: the node name of the caller, the host it resolved to, the request.
Call == [node : NodeNames, to : Targets, q : Requests]

ASSUME SrosAssumption ==
  /\ Requests \subseteq Request
  /\ ValidBodies \subseteq Bodies
  /\ ExistingConf \subseteq ConfTable
  /\ None \notin Entry
  /\ MaxCalls \in Nat

VARIABLES conf,   \* host -> entry -> what it has configured
          pc,     \* per server: the request it sends next, "idle" between calls
          req,    \* per server: its call ({} before one, or when the node is not found)
          said,   \* per server: the class of what its last call returned
          alone,  \* history: no other call has changed its entry since this one began
          absent, \* history: the entries its callers were truly told are not there
          lost,   \* history: the answer to the Set of the call was lost
          calls   \* bound: tool calls made so far

srosVars == <<conf, pc, req, said, alone, absent, lost, calls>>

SrosTypeOK ==
  /\ conf \in ConfTable
  /\ pc \in [Servers -> {"idle", "get", "set", "reply"}]
  /\ req \in [Servers -> SUBSET Call]
  /\ said \in [Servers -> {"none", "ok", "error", "found", "not found", "other"}]
  /\ alone \in [Servers -> BOOLEAN]
  /\ absent \in [Servers -> SUBSET (Targets \X Entries)]
  /\ lost \in [Servers -> BOOLEAN]
  /\ calls \in 0..MaxCalls

SrosInit ==
  /\ conf \in ExistingConf
  /\ pc = [s \in Servers |-> "idle"]
  /\ req = [s \in Servers |-> {}]
  /\ said = [s \in Servers |-> "none"]
  /\ alone = [s \in Servers |-> FALSE]
  /\ absent = [s \in Servers |-> {}]
  /\ lost = [s \in Servers |-> FALSE]
  /\ calls = 0

-----------------------------------------------------------------------------

\* The entry a call is about.
Place(k) == <<k.to, k.q.entry>>

Goto(s, next) ==
  /\ pc' = [pc EXCEPT ![s] = next]
  /\ UNCHANGED said

End(s, answer) ==
  /\ pc' = [pc EXCEPT ![s] = "idle"]
  /\ said' = [said EXCEPT ![s] = answer]

\* A tool call reaches server s; k holds what is known of it, if its node is.
Begin(s, k, next, answer) ==
  /\ pc[s] = "idle"
  /\ calls < MaxCalls
  /\ calls' = calls + 1
  /\ pc' = [pc EXCEPT ![s] = next]
  /\ req' = [req EXCEPT ![s] = k]
  /\ said' = [said EXCEPT ![s] = answer]
  /\ alone' = [alone EXCEPT ![s] = TRUE]
  /\ lost' = [lost EXCEPT ![s] = FALSE]
  /\ UNCHANGED <<conf, absent>>

\* get_evpn_instance and the other reads start with their GET.
GetEvpnInstance(s, k) ==
  /\ k.q.op = "get"
  /\ Begin(s, {k}, "get", "none")

\* The writes start with their Set, if it is no dry run.
Write(s, k) ==
  \/ k.q.dry /\ Begin(s, {k}, "idle", "other")
  \/ ~k.q.dry /\ Begin(s, {k}, "set", "none")

SetInterfaceDescription(s, k) == k.q.op = "describe" /\ Write(s, k)

DeleteEvpnInstance(s, k) == k.q.op = "delete" /\ Write(s, k)

\* _VplsIntent.
Valid(q) == q.body \in ValidBodies

ProvisionEvpnInstance(s, k) ==
  /\ k.q.op = "provision"
  /\ \/ ~Valid(k.q) /\ Begin(s, {k}, "idle", "other")
     \/ Valid(k.q) /\ Write(s, k)

\* The hosts that answer as an SR OS node.
Up == UNION {{Container(t, n) : n \in {m \in Routers(t) : t.nodes[m] = "nokia_srsim"}} : t \in running}

Configured(k) == conf[k.to][k.q.entry]

\* A wrong Get: a service that netmcp did not make is not found either.
GetOwnOnly(s) ==
  /\ pc[s] = "get"
  /\ \E k \in req[s] :
       \/ /\ k.to \in Up
          /\ End(s, IF Configured(k) = None \/ Configured(k).more THEN "not found" ELSE "found")
          /\ absent' = [absent EXCEPT ![s] = IF Configured(k) = None \/ Configured(k).more
                                             THEN @ \cup {Place(k)} ELSE @]
       \/ End(s, "not found") /\ UNCHANGED absent
  /\ UNCHANGED <<conf, req, alone, lost, calls>>

\* gnmi_get returns None both for an empty answer and for any failure, connecting
\* included, and get_evpn_instance says "not found" to both.
Get(s) ==
  /\ pc[s] = "get"
  /\ \E k \in req[s] :
       \/ /\ k.to \in Up
          /\ End(s, IF Configured(k) = None THEN "not found" ELSE "found")
          /\ absent' = [absent EXCEPT ![s] = IF Configured(k) = None THEN @ \cup {Place(k)} ELSE @]
       \/ End(s, "not found") /\ UNCHANGED absent
  /\ UNCHANGED <<conf, req, alone, lost, calls>>

\* The entry as the update leaves it: the payload's values, and what else was there.
Updated(old, body) == [body |-> body, more |-> old # None /\ old.more]

Applied(k) ==
  conf' = [conf EXCEPT ![k.to][k.q.entry] = IF k.q.op = "delete" THEN None ELSE Updated(@, k.q.body)]

\* The node takes the Set of s.
Take(s, k) ==
  /\ k.to \in Up
  /\ Applied(k)
  /\ Goto(s, "reply")
  /\ alone' = [t \in Servers |-> alone[t] /\ (t = s \/ \A c \in req[t] : Place(c) # Place(k))]

\* A wrong Set: a refused delete is taken for the delete of something absent.
SetSwallowsRefusal(s) ==
  /\ pc[s] = "set"
  /\ \E k \in req[s] :
       \/ Take(s, k)
       \/ /\ k.to \in Up /\ End(s, IF k.q.op = "delete" THEN "ok" ELSE "error")
          /\ UNCHANGED <<conf, alone>>
       \/ End(s, "other") /\ UNCHANGED <<conf, alone>>
  /\ UNCHANGED <<req, absent, lost, calls>>

\* gnmi_set: taken; refused, which is None; or no connection, which raises out of the
\* tool because `with gc:` is outside the try.
Set(s) ==
  /\ pc[s] = "set"
  /\ \E k \in req[s] :
       \/ Take(s, k)
       \/ k.to \in Up /\ End(s, "error") /\ UNCHANGED <<conf, alone>>
       \/ End(s, "other") /\ UNCHANGED <<conf, alone>>
  /\ UNCHANGED <<req, absent, lost, calls>>

\* The answer to a Set arrives, or it does not, which is None as well.
Reply(s) ==
  /\ pc[s] = "reply"
  /\ \/ End(s, "ok") /\ UNCHANGED lost
     \/ End(s, "error") /\ lost' = [lost EXCEPT ![s] = TRUE]
  /\ UNCHANGED <<conf, req, alone, absent, calls>>

-----------------------------------------------------------------------------
(* Properties.                                                             *)

\* "OK: VPLS ... provisioned", "deleted from" and "OK: description ... set": if no other call
\* has changed the entry since this one began, whatever others do to the node, the entry is
\* as the payload says, or gone.  And an entry of which a caller has asked first, as the
\* tool's description wants, and was told by the node that it is not there, is from then on
\* the payload of a provision alone and merged into nothing, whoever writes it.
AnswersHold ==
  \A s \in Servers :
    /\ \A k \in req[s] : said[s] = "ok" /\ alone[s] =>
         IF k.q.op = "delete" THEN Configured(k) = None
         ELSE Configured(k) # None /\ Configured(k).body = k.q.body
    /\ \A p \in absent[s] : conf[p[1]][p[2]] = None \/ ~conf[p[1]][p[2]].more

\* The promise of AtomicWrite (ARCHITECTURE.md:275): a call changes at most one entry of
\* one node, once, and unless its answer is lost the caller is told whether it did.
Stage(p) == IF p = "idle" THEN "idle" ELSE IF p = "reply" THEN "written" ELSE "open"
AtomicCall == [s \in Servers |-> Stage(pc[s])]
AtomicAnswer ==
  [s \in Servers |-> IF lost[s] THEN "none"
                     ELSE IF said[s] \in {"found", "not found"} THEN "other" ELSE said[s]]
OneEntryChanges(c, d) ==
  \E to \in Targets, e \in Entries : \A u \in Targets, f \in Entries :
    <<u, f>> # <<to, e>> => d[u][f] = c[u][f]

Atomic == INSTANCE AtomicWrite
            WITH config <- conf, call <- AtomicCall, said <- AtomicAnswer, Change <- OneEntryChanges

ImplementsAtomicWrite == Atomic!AtomicSpec
=============================================================================
