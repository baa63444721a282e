--------------------------- MODULE SrlMacVrfProofs ---------------------------
(***************************************************************************)
(* Proofs about SrlMacVrf, for any services, requests, servers and faults.   *)
(***************************************************************************)
EXTENDS SrlMacVrf, TLAPS

\* A provision only believes what the switch has done: r1, r2, r3 are "ok" for
\* Sets that were applied, and nothing is said before all of them are looked at.
WriteLog ==
  \A s \in Servers :
    /\ pc[s] = "write" => \A i \in Sets : r[s][i] = "ok" => fate[s][i] = "applied"
    /\ pc[s] # "idle" => said[s] = "none"

SrlInv == TypeOK /\ WriteLog /\ ProvisionedMeansApplied

-----------------------------------------------------------------------------
(* What the helpers keep of the types.                                      *)

\* The bound on calls is kept.
LEMMA OneMoreCall == \A c \in 0..MaxCalls : c < MaxCalls => c + 1 \in 0..MaxCalls
<1>1. MaxCalls \in Nat
  BY SrlAssumption
<1>2. QED
  BY ONLY <1>1

\* A call begins with its first Set.
LEMMA FirstIsStep == 1 \in 1..4
  OBVIOUS

\* What a Set does to the switch keeps its types.
LEMMA EditType ==
  ASSUME TypeOK, NEW s \in Servers, Edit(s)
  PROVE  ni' \in NiTable /\ vxlan' \in VxlanTable /\ subif' \in SUBSET Subifs
<1>1. name[s] \subseteq Services /\ vx[s] \subseteq Vnis /\ ifc[s] \subseteq Subifs
  BY DEF TypeOK
<1>2. CASE AddSubif(s) \/ DelSubif(s)
  BY <1>1, <1>2 DEF AddSubif, DelSubif, TypeOK
<1>3. CASE AddVxlan(s) \/ DelVxlan(s)
  BY <1>1, <1>3 DEF AddVxlan, DelVxlan, TypeOK, VxlanTable
<1>4. CASE DelNi(s)
  BY <1>1, <1>4 DEF DelNi, TypeOK, NiTable
<1>5. CASE AddNi(s)
  <2>1. [ifs |-> ifc[s], vxs |-> vx[s]] \in NetworkInstance
    BY <1>1 DEF NetworkInstance
  <2>2. ASSUME NEW n \in Services, ni[n] # None
        PROVE  [ifs |-> ni[n].ifs \cup ifc[s], vxs |-> ni[n].vxs \cup vx[s]] \in NetworkInstance
    <3>1. ni[n] \in NetworkInstance
      BY <2>2 DEF TypeOK, NiTable
    <3>2. QED
      BY <1>1, <3>1 DEF NetworkInstance
  <2>3. QED
    BY <1>5, <2>1, <2>2 DEF AddNi, TypeOK, NiTable
<1>6. QED
  BY <1>2, <1>3, <1>4, <1>5 DEF Edit

\* What a function is after one of its values has changed.
LEMMA UpdateAt ==
  ASSUME NEW S, NEW T, NEW f \in [S -> T], NEW x, NEW y
  PROVE  \A i \in S : [f EXCEPT ![x] = y][i] = IF i = x THEN y ELSE f[i]
  OBVIOUS

\* Noting the fate of a Set keeps the types, the other fates and every other server's log.
LEMMA FateType ==
  ASSUME TypeOK, NEW s \in Servers, step[s] \in Sets, NEW what \in Fates, Fate(s, what)
  PROVE  /\ fate' \in [Servers -> Log]
         /\ \A i \in Sets : fate'[s][i] = IF i = step[s] THEN what ELSE fate[s][i]
         /\ \A u \in Servers \ {s} : fate'[u] = fate[u]
<1>1. fate[s] \in Log
  BY DEF TypeOK
<1>2. [fate[s] EXCEPT ![step[s]] = what] \in Log
  BY <1>1 DEF Log
<1>3. fate' = [fate EXCEPT ![s] = [fate[s] EXCEPT ![step[s]] = what]]
  BY DEF Fate
<1>4. fate' \in [Servers -> Log] /\ fate'[s] = [fate[s] EXCEPT ![step[s]] = what]
  BY <1>2, <1>3 DEF TypeOK
<1>5. QED
  BY <1>1, <1>3, <1>4 DEF TypeOK, Log

\* Keeping a reply keeps the types.
LEMMA AnsweredType ==
  ASSUME TypeOK, NEW s \in Servers, step[s] \in Sets, NEW reply \in {"ok", "none"},
         Answered(s, reply)
  PROVE  /\ step' \in [Servers -> 1..4]
         /\ r' \in [Servers -> Replies]
         /\ \A i \in Sets : r'[s][i] = r[s][i] \/ (i = step[s] /\ r'[s][i] = reply)
         /\ pc[s] # "rollback" => r'[s][step[s]] = reply
         /\ \A u \in Servers \ {s} : r'[u] = r[u]
<1>1. r[s] \in Replies
  BY DEF TypeOK
<1>2. [r[s] EXCEPT ![step[s]] = reply] \in Replies
  BY <1>1 DEF Replies
<1>3. IF pc[s] = "rollback" THEN r' = r
      ELSE r' = [r EXCEPT ![s] = [r[s] EXCEPT ![step[s]] = reply]]
  BY DEF Answered
<1>4. step[s] + 1 \in 1..4
  BY DEF Sets
<1>5. step' \in [Servers -> 1..4]
  BY <1>4 DEF Answered, TypeOK
<1>6. CASE pc[s] = "rollback" /\ r' = r
  <2>1. r' \in [Servers -> Replies]
    BY <1>6 DEF TypeOK
  <2>2. \A i \in Sets : r'[s][i] = r[s][i]
    BY <1>6
  <2>3. \A u \in Servers \ {s} : r'[u] = r[u]
    BY <1>6
  <2>4. QED
    BY <1>5, <1>6, <2>1, <2>2, <2>3
<1>7. CASE pc[s] # "rollback" /\ r' = [r EXCEPT ![s] = [r[s] EXCEPT ![step[s]] = reply]]
  <2>1. r' \in [Servers -> Replies] /\ r'[s] = [r[s] EXCEPT ![step[s]] = reply]
    BY <1>2, <1>7 DEF TypeOK
  <2>2. \A u \in Servers \ {s} : r'[u] = r[u]
    BY <1>7 DEF TypeOK
  <2>3. \A i \in Sets : r'[s][i] = r[s][i] \/ (i = step[s] /\ r'[s][i] = reply)
    BY <1>1, <2>1, UpdateAt DEF Replies
  <2>4. r'[s][step[s]] = reply
    BY <1>1, <2>1 DEF Replies
  <2>5. QED
    BY <1>5, <2>1, <2>2, <2>3, <2>4
<1>8. QED
  BY <1>3, <1>6, <1>7

-----------------------------------------------------------------------------
(* The invariant.                                                          *)

\* The initial states satisfy the invariant.
LEMMA SrlInvInit == Init => SrlInv
<1> SUFFICES ASSUME Init PROVE SrlInv
  OBVIOUS
<1>1. ni \in NiTable /\ vxlan \in VxlanTable /\ subif \subseteq Subifs
  BY SrlAssumption DEF Init
<1>2. NothingSent \in Log /\ NoReplies \in Replies
  BY DEF NothingSent, NoReplies, Log, Replies, Fates
<1>3. calls \in 0..MaxCalls
  BY SrlAssumption DEF Init
<1>4. TypeOK
  BY <1>1, <1>2, <1>3 DEF Init, TypeOK, PcValues, Answers
<1>5. QED
  BY <1>4 DEF Init, SrlInv, WriteLog, ProvisionedMeansApplied

\* What every call does when it begins.
LEMMA BeginInv ==
  ASSUME SrlInv, NEW s \in Servers, NEW n \in Services, NEW vs \in SUBSET Vnis,
         NEW fs \in SUBSET Subifs, NEW d \in BOOLEAN, NEW next \in {"idle", "read", "write"},
         NEW answer \in {"none", "invalid", "dry run"}, next # "idle" => answer = "none",
         Begin(s, n, vs, fs, d, next, answer)
  PROVE  SrlInv'
<1>1. NothingSent \in Log /\ NoReplies \in Replies
  BY DEF NothingSent, NoReplies, Log, Replies, Fates
<1>2. calls' \in 0..MaxCalls
  BY OneMoreCall DEF Begin, SrlInv, TypeOK
<1>3. ni' \in NiTable /\ vxlan' \in VxlanTable /\ subif' \subseteq Subifs
  BY DEF Begin, device, SrlInv, TypeOK
<1>4. pc' \in [Servers -> PcValues] /\ said' \in [Servers -> Answers]
  BY DEF Begin, SrlInv, TypeOK, PcValues, Phases, Answers
<1>5. name' \in [Servers -> SUBSET Services] /\ vx' \in [Servers -> SUBSET Vnis]
  BY DEF Begin, SrlInv, TypeOK
<1>6. ifc' \in [Servers -> SUBSET Subifs] /\ dry' \in [Servers -> BOOLEAN]
  BY DEF Begin, SrlInv, TypeOK
<1>7. had' \in [Servers -> BOOLEAN] /\ step' \in [Servers -> 1..4]
  <2>1. \E h \in BOOLEAN : had' = [had EXCEPT ![s] = h]
    <3>1. (ni[n] # None) \in BOOLEAN /\ had' = [had EXCEPT ![s] = (ni[n] # None)]
      BY DEF Begin
    <3>2. QED
      BY <3>1
  <2>2. step' = [step EXCEPT ![s] = 1]
    BY DEF Begin
  <2>3. had \in [Servers -> BOOLEAN] /\ step \in [Servers -> 1..4]
    BY DEF SrlInv, TypeOK
  <2>4. had' \in [Servers -> BOOLEAN]
    BY <2>1, <2>3
  <2>5. step' \in [Servers -> 1..4]
    <3>1. \A S : 1 \in S /\ step \in [Servers -> S] => [step EXCEPT ![s] = 1] \in [Servers -> S]
      OBVIOUS
    <3>2. QED
      BY FirstIsStep, <2>2, <2>3, <3>1, Zenon
  <2>6. QED
    BY <2>4, <2>5
<1>8. r' \in [Servers -> Replies] /\ fate' \in [Servers -> Log]
  BY <1>1 DEF Begin, SrlInv, TypeOK
<1>9. TypeOK'
  <2>1. alone' \in [Servers -> BOOLEAN]
    BY <1>1 DEF Begin, SrlInv, TypeOK
  <2>2. QED
    BY <1>2, <1>3, <1>4, <1>5, <1>6, <1>7, <1>8, <2>1 DEF TypeOK
<1>10. ASSUME NEW u \in Servers \ {s}
       PROVE  pc'[u] = pc[u] /\ said'[u] = said[u] /\ r'[u] = r[u] /\ fate'[u] = fate[u]
  BY DEF Begin, SrlInv, TypeOK
<1>11. /\ pc'[s] = next /\ said'[s] = answer /\ r'[s] = NoReplies
  BY DEF Begin, SrlInv, TypeOK
<1>12. WriteLog'
  <2>1. ASSUME NEW u \in Servers \ {s}
        PROVE  /\ pc'[u] = "write" => \A i \in Sets : r'[u][i] = "ok" => fate'[u][i] = "applied"
               /\ pc'[u] # "idle" => said'[u] = "none"
    <3>1. /\ pc[u] = "write" => \A i \in Sets : r[u][i] = "ok" => fate[u][i] = "applied"
          /\ pc[u] # "idle" => said[u] = "none"
      BY DEF SrlInv, WriteLog
    <3>2. pc'[u] = pc[u] /\ said'[u] = said[u] /\ r'[u] = r[u] /\ fate'[u] = fate[u]
      BY <1>10
    <3>3. QED
      BY <3>1, <3>2
  <2>2. \A i \in Sets : r'[s][i] # "ok"
    BY <1>11 DEF NoReplies
  <2>3. pc'[s] # "idle" => said'[s] = "none"
    BY <1>11
  <2>4. QED
    BY <2>1, <2>2, <2>3 DEF WriteLog
<1>13. ProvisionedMeansApplied'
  <2>1. said'[s] # "provisioned"
    BY <1>11
  <2>2. ASSUME NEW u \in Servers, said'[u] = "provisioned"
        PROVE  \A i \in Sets : fate'[u][i] = "applied"
    <3>1. said[u] = "provisioned" /\ fate'[u] = fate[u]
      BY <1>10, <2>1, <2>2
    <3>2. \A i \in Sets : fate[u][i] = "applied"
      BY <3>1 DEF SrlInv, ProvisionedMeansApplied
    <3>3. QED
      BY <3>1, <3>2
  <2>3. QED
    BY <2>2 DEF ProvisionedMeansApplied
<1>14. QED
  BY <1>9, <1>12, <1>13 DEF SrlInv

\* A step that only moves server s on to p, with an answer or without, keeps the
\* invariant if it does not start a provision, and says "provisioned" only when
\* the switch has applied all three Sets.
LEMMA MoveInv ==
  ASSUME SrlInv, NEW s \in Servers, NEW p \in PcValues, p # "write",
         NEW a \in Answers, p # "idle" => a = "none",
         a = "provisioned" => \A i \in Sets : fate'[s][i] = "applied",
         pc' = [pc EXCEPT ![s] = p], said' = [said EXCEPT ![s] = a],
         \A u \in Servers \ {s} : r'[u] = r[u] /\ fate'[u] = fate[u], TypeOK'
  PROVE  SrlInv'
<1>1. \A u \in Servers : pc'[u] = IF u = s THEN p ELSE pc[u]
  BY DEF SrlInv, TypeOK
<1>2. \A u \in Servers : said'[u] = IF u = s THEN a ELSE said[u]
  BY DEF SrlInv, TypeOK
<1>3. QED
  BY <1>1, <1>2 DEF SrlInv, WriteLog, ProvisionedMeansApplied

\* Every step preserves the invariant.
LEMMA SrlInvStep == SrlInv /\ [Next]_vars => SrlInv'
<1> SUFFICES ASSUME SrlInv, [Next]_vars PROVE SrlInv'
  OBVIOUS
<1>0. TypeOK /\ "none" \in Answers /\ "idle" \in PcValues
  BY DEF SrlInv, Answers, PcValues
<1>1. CASE UNCHANGED vars
  BY <1>1 DEF vars, device, request, SrlInv, TypeOK, WriteLog, ProvisionedMeansApplied
<1>2. ASSUME NEW s \in Servers, Provision(s) PROVE SrlInv'
  <2>1. PICK q \in ProvisionRequest :
          \/ Begin(s, q.name, {q.vni}, {q.subif}, q.dry, "idle", "invalid")
          \/ Begin(s, q.name, {q.vni}, {q.subif}, q.dry, "idle", "dry run")
          \/ Begin(s, q.name, {q.vni}, {q.subif}, q.dry, "write", "none")
    BY <1>2, SrlAssumption DEF Provision
  <2>2. /\ q.name \in Services /\ {q.vni} \in SUBSET Vnis /\ {q.subif} \in SUBSET Subifs
        /\ q.dry \in BOOLEAN
    BY DEF ProvisionRequest
  <2>3. QED
    BY <2>1, <2>2, BeginInv
<1>3. ASSUME NEW s \in Servers, Delete(s) PROVE SrlInv'
  <2>1. PICK q \in DeleteRequest : Begin(s, q.name, {}, {}, q.dry, "read", "none")
    BY <1>3, SrlAssumption DEF Delete
  <2>2. q.name \in Services /\ q.dry \in BOOLEAN /\ {} \in SUBSET Vnis /\ {} \in SUBSET Subifs
    BY DEF DeleteRequest
  <2>3. QED
    BY <2>1, <2>2, BeginInv
<1>4. ASSUME NEW s \in Servers, Read(s) PROVE SrlInv'
  <2>1. vx' \in [Servers -> SUBSET Vnis] /\ ifc' \in [Servers -> SUBSET Subifs]
    <3>1. ASSUME NEW n \in name[s], ni[n] # None
          PROVE  ni[n].vxs \in SUBSET Vnis /\ ni[n].ifs \in SUBSET Subifs
      <4>1. ni[n] \in NetworkInstance
        BY <1>0, <3>1 DEF TypeOK, NiTable
      <4>2. QED
        BY <4>1 DEF NetworkInstance
    <3>2. /\ vx' = vx \/ \E v \in SUBSET Vnis : vx' = [vx EXCEPT ![s] = v]
          /\ ifc' = ifc \/ \E f \in SUBSET Subifs : ifc' = [ifc EXCEPT ![s] = f]
      BY <1>4, <3>1 DEF Read
    <3>3. QED
      BY <1>0, <3>2 DEF TypeOK
  <2>2. UNCHANGED <<ni, vxlan, subif, name, dry, step, r, fate, alone, had, calls>> /\ pc[s] = "read"
    BY <1>4 DEF Read, device
  <2>3. PICK p \in {"idle", "remove"}, a \in {"none", "not found", "dry run"} :
          /\ pc' = [pc EXCEPT ![s] = p] /\ said' = [said EXCEPT ![s] = a]
          /\ p # "idle" => a = "none"
    <3>1. said[s] = "none" /\ said = [said EXCEPT ![s] = said[s]]
      BY <1>0, <2>2 DEF SrlInv, WriteLog, TypeOK
    <3>2. \/ \E a \in {"not found", "dry run"} : End(s, a)
          \/ pc' = [pc EXCEPT ![s] = "remove"] /\ said' = said
      BY <1>4 DEF Read
    <3>3. QED
      BY <3>1, <3>2 DEF End
  <2>4. p \in PcValues /\ a \in Answers
    BY DEF PcValues, Phases, Answers
  <2>5. TypeOK'
    BY <1>0, <2>1, <2>2, <2>3, <2>4 DEF TypeOK
  <2>6. QED
    BY <2>2, <2>3, <2>4, <2>5, MoveInv
<1>5. ASSUME NEW s \in Servers, NEW a \in Answers, End(s, a),
             UNCHANGED <<device, request, step, r, fate, alone, had, calls>>,
             a = "provisioned" => \A i \in Sets : fate[s][i] = "applied"
      PROVE  SrlInv'
  <2>1. TypeOK'
    BY <1>0, <1>5 DEF TypeOK, End, device, request
  <2>2. QED
    BY <1>0, <1>5, <2>1, MoveInv DEF End
<1>6. ASSUME NEW s \in Servers, ReadRaises(s) PROVE SrlInv'
  BY <1>5, <1>6 DEF ReadRaises, Answers
<1>7. ASSUME NEW s \in Servers, Send(s) PROVE SrlInv'
  <2>1. /\ pc[s] \in Phases /\ step[s] \in Sets /\ UNCHANGED <<name, vx, ifc, dry, had, calls>>
        /\ said[s] = "none" /\ alone' \in [Servers -> BOOLEAN]
    <3>1. UNCHANGED alone \/ Applied(s)
      BY <1>7 DEF Send, Refused
    <3>2. alone' \in [Servers -> BOOLEAN]
      BY <1>0, <3>1 DEF Applied, TypeOK
    <3>3. QED
      BY <1>7, <3>2 DEF Send, Sending, request, SrlInv, WriteLog, Phases
  <2>2. PICK what \in {"applied", "refused"} :
          /\ Fate(s, what) /\ ni' \in NiTable /\ vxlan' \in VxlanTable /\ subif' \in SUBSET Subifs
          /\ \/ End(s, "raised") /\ UNCHANGED <<step, r>>
             \/ Answered(s, "none")
             \/ Answered(s, "ok") /\ what = "applied"
    <3>1. Edit(s) => ni' \in NiTable /\ vxlan' \in VxlanTable /\ subif' \in SUBSET Subifs
      BY <1>0, EditType
    <3>2. UNCHANGED device => ni' \in NiTable /\ vxlan' \in VxlanTable /\ subif' \in SUBSET Subifs
      BY <1>0 DEF device, TypeOK
    <3>3. QED
      BY <1>7, <3>1, <3>2 DEF Send, Applied, Refused
  <2>3. /\ fate' \in [Servers -> Log]
        /\ \A i \in Sets : fate'[s][i] = IF i = step[s] THEN what ELSE fate[s][i]
        /\ \A u \in Servers \ {s} : fate'[u] = fate[u]
    BY <1>0, <2>1, <2>2, FateType DEF Fates
  <2>4. \A u \in Servers : said[u] = "provisioned" => fate'[u] = fate[u]
    BY <2>1, <2>3
  <2>5. CASE End(s, "raised") /\ UNCHANGED <<step, r>>
    <3>1. TypeOK'
      BY <1>0, <2>1, <2>2, <2>3, <2>5 DEF TypeOK, End, Answers
    <3>2. \A u \in Servers : /\ pc'[u] = IF u = s THEN "idle" ELSE pc[u]
                             /\ said'[u] = IF u = s THEN "raised" ELSE said[u]
      BY <1>0, <2>5 DEF End, TypeOK
    <3>3. WriteLog'
      BY <2>3, <2>5, <3>2 DEF SrlInv, WriteLog
    <3>4. ProvisionedMeansApplied'
      BY <2>4, <3>2 DEF SrlInv, ProvisionedMeansApplied
    <3>5. QED
      BY <3>1, <3>3, <3>4 DEF SrlInv
  <2>6. ASSUME NEW reply \in {"ok", "none"}, Answered(s, reply), reply = "ok" => what = "applied"
        PROVE  SrlInv'
    <3>1. /\ step' \in [Servers -> 1..4]
          /\ r' \in [Servers -> Replies]
          /\ \A i \in Sets : r'[s][i] = r[s][i] \/ (i = step[s] /\ r'[s][i] = reply)
          /\ pc[s] # "rollback" => r'[s][step[s]] = reply
          /\ \A u \in Servers \ {s} : r'[u] = r[u]
      BY <1>0, <2>1, <2>6, AnsweredType
    <3>2. UNCHANGED <<pc, said>>
      BY <2>6 DEF Answered
    <3>3. TypeOK'
      BY <1>0, <2>1, <2>2, <2>3, <3>1, <3>2 DEF TypeOK
    <3>4. ASSUME NEW i \in Sets, pc[s] = "write", r'[s][i] = "ok"
          PROVE  fate'[s][i] = "applied"
      <4>1. CASE i = step[s] /\ r'[s][i] = reply
        BY <2>3, <2>6, <3>4, <4>1
      <4>2. CASE i # step[s]
        <5>1. r[s][i] = "ok"
          BY <3>1, <3>4, <4>2
        <5>2. fate'[s][i] = fate[s][i]
          BY <2>3, <4>2
        <5>3. QED
          BY <3>4, <5>1, <5>2 DEF SrlInv, WriteLog
      <4>3. CASE i = step[s] /\ r'[s][i] # reply
        BY <3>1, <3>4, <4>3
      <4>4. QED
        BY <4>1, <4>2, <4>3
    <3>5. WriteLog'
      BY <2>3, <3>1, <3>2, <3>4 DEF SrlInv, WriteLog
    <3>6. ProvisionedMeansApplied'
      BY <2>4, <3>2 DEF SrlInv, ProvisionedMeansApplied
    <3>7. QED
      BY <3>3, <3>5, <3>6 DEF SrlInv
  <2>7. QED
    BY <2>2, <2>5, <2>6
<1>8. ASSUME NEW s \in Servers, Skip(s) PROVE SrlInv'
  <2>1. /\ pc[s] = "remove" /\ step[s] \in Sets /\ Answered(s, "none")
        /\ UNCHANGED <<ni, vxlan, subif, name, vx, ifc, dry, fate, alone, had, calls, pc, said>>
    BY <1>8 DEF Skip, Sending, Skipped, Answered, device, request
  <2>2. /\ step' \in [Servers -> 1..4] /\ r' \in [Servers -> Replies]
        /\ \A u \in Servers \ {s} : r'[u] = r[u]
    BY <1>0, <2>1, AnsweredType
  <2>3. TypeOK'
    BY <1>0, <2>1, <2>2 DEF TypeOK
  <2>4. QED
    BY <2>1, <2>2, <2>3 DEF SrlInv, WriteLog, ProvisionedMeansApplied
<1>9. ASSUME NEW s \in Servers, ProvisionEnds(s) PROVE SrlInv'
  <2>1. CASE AllOk(s) /\ End(s, "provisioned") /\ UNCHANGED <<step, r, fate>>
    <3>1. \A i \in Sets : fate[s][i] = "applied"
      BY <1>9, <2>1 DEF ProvisionEnds, AllOk, SrlInv, WriteLog
    <3>2. QED
      BY <1>5, <1>9, <2>1, <3>1 DEF ProvisionEnds, Answers
  <2>2. CASE /\ pc' = [pc EXCEPT ![s] = "rollback"] /\ step' = [step EXCEPT ![s] = 1] /\ UNCHANGED said
             /\ r' = [r EXCEPT ![s] = NoReplies] /\ fate' = [fate EXCEPT ![s] = NothingSent]
    <3>1. /\ UNCHANGED <<ni, vxlan, subif, name, vx, ifc, dry, alone, had, calls>> /\ pc[s] = "write"
          /\ r' = [r EXCEPT ![s] = NoReplies] /\ fate' = [fate EXCEPT ![s] = NothingSent]
      BY <1>9, <2>2 DEF ProvisionEnds, device, request
    <3>2. said[s] = "none" /\ said' = [said EXCEPT ![s] = "none"]
      BY <1>0, <2>2, <3>1 DEF SrlInv, WriteLog, TypeOK
    <3>3. "rollback" \in PcValues /\ 1 \in 1..4 /\ NoReplies \in Replies /\ NothingSent \in Log
      BY DEF PcValues, Phases, NoReplies, Replies, NothingSent, Log, Fates
    <3>4. TypeOK'
      BY <1>0, <2>2, <3>1, <3>3 DEF TypeOK
    <3>5. \A u \in Servers \ {s} : r'[u] = r[u] /\ fate'[u] = fate[u]
      BY <1>0, <3>1 DEF TypeOK
    <3>6. QED
      BY <1>0, <2>2, <3>2, <3>3, <3>4, <3>5, MoveInv
  <2>3. QED
    BY <1>9, <2>1, <2>2 DEF ProvisionEnds
<1>10. ASSUME NEW s \in Servers, RollbackEnds(s) PROVE SrlInv'
  BY <1>5, <1>10 DEF RollbackEnds, Answers
<1>11. ASSUME NEW s \in Servers, DeleteEnds(s) PROVE SrlInv'
  <2>1. "deleted" \in Answers /\ "partial" \in Answers
    BY DEF Answers
  <2>2. End(s, "deleted") \/ End(s, "partial")
    BY <1>11 DEF DeleteEnds
  <2>3. QED
    BY <1>5, <1>11, <2>1, <2>2 DEF DeleteEnds
<1>12. ASSUME NEW s \in Servers, Crash(s) PROVE SrlInv'
  <2>1. pc[s] # "idle" /\ pc' = [pc EXCEPT ![s] = "idle"] /\ UNCHANGED <<r, fate, said>>
    BY <1>12 DEF Crash
  <2>2. said[s] = "none" /\ said' = [said EXCEPT ![s] = "none"]
    BY <1>0, <2>1 DEF SrlInv, WriteLog, TypeOK
  <2>3. TypeOK'
    BY <1>0, <1>12 DEF Crash, TypeOK, device, request
  <2>4. QED
    BY <1>0, <2>1, <2>2, <2>3, MoveInv
<1>13. QED
  BY <1>1, <1>2, <1>3, <1>4, <1>6, <1>7, <1>8, <1>9, <1>10, <1>11, <1>12 DEF Next

\* SrlInv holds throughout.
THEOREM SrlInvariant == Spec => []SrlInv
  BY SrlInvInit, SrlInvStep, PTL DEF Spec

\* The variables keep their types.
THEOREM SrlTypeCorrect == Spec => []TypeOK
<1>1. SrlInv => TypeOK
  BY DEF SrlInv
<1>2. QED
  BY <1>1, SrlInvariant, PTL

\* "OK: MAC-VRF ... provisioned" is answered only when the switch has applied all
\* three Sets of the call (backend.py:350-371).
THEOREM ProvisionedIsApplied == Spec => []ProvisionedMeansApplied
<1>1. SrlInv => ProvisionedMeansApplied
  BY DEF SrlInv
<1>2. QED
  BY <1>1, SrlInvariant, PTL

-----------------------------------------------------------------------------
(* Services nobody works on, with any number of calls at work.                *)

\* What callers and operators use for a service is all that a network-instance lists, and
\* all that a call for it, a stale delete and a rollback included, sends a Set for.
Claims(n, vs, fs) == vs \subseteq Vxs(n) /\ fs \subseteq Ifs(n)
OwnInv ==
  /\ \A n \in Services : ni[n] # None => Claims(n, ni[n].vxs, ni[n].ifs)
  /\ \A s \in Servers : \A n \in name[s] : Claims(n, vx[s], ifc[s]) /\ name[s] = {n}
  /\ \A s \in Servers : pc[s] # "idle" => name[s] # {}

\* A call begins with what its request names.
LEMMA BeginOwn ==
  ASSUME TypeOK, OwnInv, NEW s \in Servers, NEW n, NEW vs, NEW fs, NEW d, NEW next, NEW answer,
         Claims(n, vs, fs), Begin(s, n, vs, fs, d, next, answer)
  PROVE  OwnInv'
<1>1. /\ ni' = ni
      /\ \A u \in Servers : u # s => pc'[u] = pc[u] /\ name'[u] = name[u] /\ vx'[u] = vx[u] /\ ifc'[u] = ifc[u]
      /\ name'[s] = {n} /\ vx'[s] = vs /\ ifc'[s] = fs
  BY DEF Begin, TypeOK, device
<1>2. ASSUME NEW u \in Servers, NEW m \in name'[u] PROVE Claims(m, vx'[u], ifc'[u]) /\ name'[u] = {m}
  BY <1>1, <1>2 DEF OwnInv
<1>3. \A u \in Servers : pc'[u] # "idle" => name'[u] # {}
  BY <1>1 DEF OwnInv
<1>4. \A m \in Services : ni'[m] # None => Claims(m, ni'[m].vxs, ni'[m].ifs)
  BY <1>1 DEF OwnInv
<1>5. QED
  BY <1>2, <1>3, <1>4 DEF OwnInv, Claims, Vxs, Ifs

\* A Set adds to a network-instance what is claimed for it.
LEMMA EditOwn ==
  ASSUME TypeOK, OwnInv, NEW s \in Servers, Edit(s)
  PROVE  \A n \in Services : ni'[n] # None => Claims(n, ni'[n].vxs, ni'[n].ifs)
<1>1. CASE AddSubif(s) \/ AddVxlan(s) \/ DelSubif(s) \/ DelVxlan(s)
  BY <1>1 DEF AddSubif, AddVxlan, DelSubif, DelVxlan, OwnInv
<1>2. CASE DelNi(s)
  BY <1>2 DEF DelNi, OwnInv
<1>3. CASE AddNi(s)
  <2> SUFFICES ASSUME NEW n \in Services, ni'[n] # None PROVE Claims(n, ni'[n].vxs, ni'[n].ifs)
    OBVIOUS
  <2>1. CASE n \notin name[s]
    BY <1>3, <2>1 DEF AddNi, OwnInv
  <2>2. CASE n \in name[s] /\ ni[n] = None
    <3>1. ni'[n] = [ifs |-> ifc[s], vxs |-> vx[s]]
      BY <1>3, <2>2 DEF AddNi
    <3>2. QED
      BY <2>2, <3>1 DEF OwnInv
  <2>3. CASE n \in name[s] /\ ni[n] # None
    <3>1. ni'[n] = [ifs |-> ni[n].ifs \cup ifc[s], vxs |-> ni[n].vxs \cup vx[s]]
      BY <1>3, <2>3 DEF AddNi
    <3>2. Claims(n, ni[n].vxs, ni[n].ifs) /\ Claims(n, vx[s], ifc[s])
      BY <2>3 DEF OwnInv
    <3>3. ni'[n].vxs = ni[n].vxs \cup vx[s] /\ ni'[n].ifs = ni[n].ifs \cup ifc[s]
      BY <3>1
    <3>4. QED
      BY <3>2, <3>3 DEF Claims
  <2>4. QED
    BY <2>1, <2>2, <2>3
<1>4. QED
  BY <1>1, <1>2, <1>3 DEF Edit

\* Every step keeps OwnInv.
LEMMA OwnStep == SrlInv /\ OwnInv /\ [Next]_vars => OwnInv'
<1> SUFFICES ASSUME SrlInv, OwnInv, [Next]_vars PROVE OwnInv'
  OBVIOUS
<1>0. TypeOK
  BY DEF SrlInv
<1>1. ASSUME UNCHANGED <<name, vx, ifc>>,
             \A n \in Services : ni'[n] # None => Claims(n, ni'[n].vxs, ni'[n].ifs),
             \A u \in Servers : pc'[u] # "idle" => pc[u] # "idle"
      PROVE  OwnInv'
  BY <1>1 DEF OwnInv, Claims, Vxs, Ifs
<1>2. ASSUME NEW s \in Servers, Provision(s) PROVE OwnInv'
  <2>1. PICK q \in Provisions :
          \/ Begin(s, q.name, {q.vni}, {q.subif}, q.dry, "idle", "invalid")
          \/ Begin(s, q.name, {q.vni}, {q.subif}, q.dry, "idle", "dry run")
          \/ Begin(s, q.name, {q.vni}, {q.subif}, q.dry, "write", "none")
    BY <1>2 DEF Provision
  <2>2. Claims(q.name, {q.vni}, {q.subif})
    BY DEF Claims, Vxs, Ifs
  <2>3. QED
    BY <1>0, <2>1, <2>2, BeginOwn
<1>3. ASSUME NEW s \in Servers, Delete(s) PROVE OwnInv'
  <2>1. PICK q \in Deletes : Begin(s, q.name, {}, {}, q.dry, "read", "none")
    BY <1>3 DEF Delete
  <2>2. QED
    BY <1>0, <2>1, BeginOwn DEF Claims
<1>4. ASSUME NEW s \in Servers, Read(s) PROVE OwnInv'
  <2>1. \E n \in name[s] :
          \/ UNCHANGED <<vx, ifc>>
          \/ /\ ni[n] # None
             /\ \E v \in SUBSET ni[n].vxs : vx' = [vx EXCEPT ![s] = v]
             /\ \E f \in SUBSET ni[n].ifs : ifc' = [ifc EXCEPT ![s] = f]
    BY <1>4 DEF Read
  <2> PICK n \in name[s] :
          \/ UNCHANGED <<vx, ifc>>
          \/ /\ ni[n] # None
             /\ \E v \in SUBSET ni[n].vxs : vx' = [vx EXCEPT ![s] = v]
             /\ \E f \in SUBSET ni[n].ifs : ifc' = [ifc EXCEPT ![s] = f]
    BY <2>1
  <2>2. UNCHANGED <<ni, name>> /\ pc[s] = "read"
    <3>1. UNCHANGED <<device, name, dry, step, r, fate, alone, had, calls>> /\ pc[s] = "read"
      BY <1>4 DEF Read
    <3>2. QED
      BY <3>1 DEF device
  <2>3. \A u \in Servers : pc'[u] # "idle" => pc[u] # "idle"
    <3>1. \E p \in PcValues : pc' = [pc EXCEPT ![s] = p]
      <4>1. (\E a \in Answers : End(s, a)) \/ pc' = [pc EXCEPT ![s] = "remove"]
        BY <1>4 DEF Read, Answers
      <4>2. QED
        BY <4>1 DEF End, PcValues, Phases
    <3>2. QED
      BY <1>0, <2>2, <3>1 DEF TypeOK
  <2>4. \A m \in name[s] : m = n
    BY <1>0, <2>2 DEF OwnInv
  <2>5. Claims(n, vx'[s], ifc'[s])
    <3>1. Claims(n, vx[s], ifc[s])
      BY DEF OwnInv
    <3>2. CASE UNCHANGED <<vx, ifc>>
      BY <3>1, <3>2
    <3>3. CASE ni[n] # None /\ ~UNCHANGED <<vx, ifc>>
      <4>1. Claims(n, ni[n].vxs, ni[n].ifs)
        BY <1>0, <3>3 DEF OwnInv, TypeOK
      <4>2. vx'[s] \subseteq ni[n].vxs /\ ifc'[s] \subseteq ni[n].ifs
        BY <1>0, <2>1, <3>3 DEF TypeOK
      <4>3. QED
        BY <4>1, <4>2 DEF Claims
    <3>4. QED
      BY <2>1, <3>2, <3>3
  <2>6. \A u \in Servers : u # s => vx'[u] = vx[u] /\ ifc'[u] = ifc[u]
    BY <1>0, <2>1 DEF TypeOK
  <2>7. \A u \in Servers : \A m \in name'[u] : Claims(m, vx'[u], ifc'[u]) /\ name'[u] = {m}
    BY <2>2, <2>4, <2>5, <2>6 DEF OwnInv
  <2>8. QED
    BY <2>2, <2>3, <2>7 DEF OwnInv, Claims, Vxs, Ifs
<1>5. ASSUME NEW s \in Servers, Send(s) PROVE OwnInv'
  <2>1. \A n \in Services : ni'[n] # None => Claims(n, ni'[n].vxs, ni'[n].ifs)
    BY <1>0, <1>5, EditOwn DEF Send, Applied, Refused, device, OwnInv
  <2>2. UNCHANGED <<name, vx, ifc>> /\ (pc' = pc \/ pc' = [pc EXCEPT ![s] = "idle"])
    BY <1>5 DEF Send, request, Answered, End
  <2>3. \A u \in Servers : pc'[u] # "idle" => pc[u] # "idle"
    BY <1>0, <2>2 DEF TypeOK
  <2>4. QED
    BY <1>1, <2>1, <2>2, <2>3
<1>6. ASSUME NEW s \in Servers, UNCHANGED <<device, request>>, pc[s] # "idle",
             pc' = pc \/ \E p \in PcValues : pc' = [pc EXCEPT ![s] = p]
      PROVE  OwnInv'
  <2>1. UNCHANGED <<ni, name, vx, ifc>>
    BY <1>6 DEF device, request
  <2>2. \A u \in Servers : pc'[u] # "idle" => pc[u] # "idle"
    BY <1>0, <1>6 DEF TypeOK
  <2>3. QED
    BY <1>1, <2>1, <2>2 DEF OwnInv
<1>7. CASE UNCHANGED vars
  BY <1>1, <1>7 DEF vars, device, request, OwnInv
<1>8. {"idle", "rollback"} \subseteq PcValues /\ \A s \in Servers : pc[s] \in Phases => pc[s] # "idle"
  BY DEF PcValues, Phases
<1>9. ASSUME NEW s \in Servers, ReadRaises(s) PROVE OwnInv'
  BY <1>6, <1>8, <1>9 DEF ReadRaises, End
<1>10. ASSUME NEW s \in Servers, Skip(s) PROVE OwnInv'
  <2>1. UNCHANGED <<device, request>> /\ pc' = pc /\ pc[s] # "idle"
    BY <1>8, <1>10 DEF Skip, Sending, Answered
  <2>2. QED
    BY <1>6, <2>1
<1>11. ASSUME NEW s \in Servers, ProvisionEnds(s) PROVE OwnInv'
  BY <1>6, <1>8, <1>11 DEF ProvisionEnds, End
<1>12. ASSUME NEW s \in Servers, RollbackEnds(s) PROVE OwnInv'
  BY <1>6, <1>8, <1>12 DEF RollbackEnds, End
<1>13. ASSUME NEW s \in Servers, DeleteEnds(s) PROVE OwnInv'
  BY <1>6, <1>8, <1>13 DEF DeleteEnds, End
<1>14. ASSUME NEW s \in Servers, Crash(s) PROVE OwnInv'
  BY <1>6, <1>8, <1>14 DEF Crash
<1>15. QED
  BY <1>2, <1>3, <1>4, <1>5, <1>7, <1>9, <1>10, <1>11, <1>12, <1>13, <1>14 DEF Next

\* OwnInv holds throughout.
LEMMA OwnInvariant == Spec => []OwnInv
<1>1. ASSUME Init PROVE OwnInv
  <2>1. PICK d \in Existing : ni = d.ni
    BY <1>1 DEF Init
  <2>2. ASSUME NEW n \in Services, ni[n] # None PROVE Claims(n, ni[n].vxs, ni[n].ifs)
    <3>1. d.ni[n] # None /\ d \in {e \in Existing : e.ni[n] # None}
      BY <2>1, <2>2
    <3>2. ni[n].vxs \subseteq Vxs(n) /\ ni[n].ifs \subseteq Ifs(n)
      BY <2>1, <3>1 DEF Vxs, Ifs
    <3>3. QED
      BY <3>2 DEF Claims
  <2>3. QED
    BY <1>1, <2>2 DEF Init, OwnInv
<1>2. QED
  BY <1>1, OwnStep, SrlInvariant, PTL DEF Spec

\* What a Set of a call for other services leaves of a service with objects of its own.
LEMMA EditSpares ==
  ASSUME TypeOK, OwnInv, NEW s \in Servers, pc[s] # "idle", Edit(s),
         NEW n \in Sole, n \notin name[s], Complete(n)
  PROVE  Complete(n)'
<1>1. PICK m \in name[s] : m \in Services \ {n}
  BY DEF OwnInv, TypeOK
<1>2. Vxs(m) \cap Vxs(n) = {} /\ Ifs(m) \cap Ifs(n) = {} /\ n \in Services
  BY <1>1 DEF Sole, Apart
<1>3. Claims(m, vx[s], ifc[s]) /\ Claims(n, ni[n].vxs, ni[n].ifs)
  BY <1>1, <1>2 DEF OwnInv, Complete
<1>4. vx[s] \cap ni[n].vxs = {} /\ ifc[s] \cap ni[n].ifs = {}
  BY <1>2, <1>3 DEF Claims
<1>5. ni'[n] = ni[n]
  BY <1>2 DEF Edit, AddSubif, AddVxlan, AddNi, DelSubif, DelVxlan, DelNi
<1>6. \A v \in ni[n].vxs : vxlan[v] # None => vxlan'[v] # None
  <2>1. vxlan' = vxlan \/ AddVxlan(s) \/ DelVxlan(s)
    BY DEF Edit, AddSubif, AddNi, DelSubif, DelNi
  <2>2. ni[n].vxs \subseteq Vnis
    <3>1. ni[n] \in NetworkInstance
      BY <1>2 DEF TypeOK, NiTable, Complete
    <3>2. QED
      BY <3>1 DEF NetworkInstance
  <2>3. None \notin Vnis
    BY SrlAssumption
  <2>4. QED
    BY <1>4, <2>1, <2>2, <2>3 DEF AddVxlan, DelVxlan
<1>7. \A f \in ni[n].ifs : f \in subif => f \in subif'
  BY <1>4 DEF Edit, AddSubif, AddVxlan, AddNi, DelSubif, DelVxlan, DelNi
<1>8. QED
  BY <1>5, <1>6, <1>7 DEF Complete

\* No number of overlapping provisions, rollbacks and deletes of other services takes
\* anything from a complete service with a VNI and a subinterface of its own
\* (backend.py:124-130, 350-427), whatever fails, is lost or is killed.
THEOREM OtherServicesUntouched == Spec => OthersUntouched
<1>1. ASSUME SrlInv, OwnInv, [Next]_vars, NEW n \in Sole, Complete(n), ~Busy(n)
      PROVE  Complete(n)'
  <2>1. CASE UNCHANGED device
    BY <1>1, <2>1 DEF Complete, device
  <2>2. CASE \E s \in Servers : Send(s) /\ Edit(s)
    <3>1. PICK s \in Servers : Send(s) /\ Edit(s)
      BY <2>2
    <3>2. pc[s] # "idle" /\ n \notin name[s]
      BY <1>1, <3>1 DEF Send, Sending, Phases, Busy
    <3>3. QED
      BY <1>1, <3>1, <3>2, EditSpares DEF SrlInv
  <2>3. UNCHANGED device \/ \E s \in Servers : Send(s) /\ Edit(s)
    <3>1. ASSUME NEW s \in Servers, Provision(s) \/ Delete(s) PROVE UNCHANGED device
      BY <3>1 DEF Provision, Delete, Begin
    <3>2. ASSUME NEW s \in Servers, Send(s) PROVE UNCHANGED device \/ Edit(s)
      BY <3>2 DEF Send, Applied, Refused
    <3>3. ASSUME NEW s \in Servers, Read(s) \/ ReadRaises(s) \/ Skip(s) PROVE UNCHANGED device
      BY <3>3 DEF Read, ReadRaises, Skip
    <3>4. ASSUME NEW s \in Servers, ProvisionEnds(s) \/ RollbackEnds(s) \/ DeleteEnds(s) \/ Crash(s)
          PROVE  UNCHANGED device
      BY <3>4 DEF ProvisionEnds, RollbackEnds, DeleteEnds, Crash
    <3>5. UNCHANGED vars => UNCHANGED device
      BY DEF vars
    <3>6. QED
      BY <1>1, <3>1, <3>2, <3>3, <3>4, <3>5 DEF Next
  <2>4. QED
    BY <2>1, <2>2, <2>3
<1>2. SrlInv /\ OwnInv /\ [Next]_vars => [\A n \in Sole : Complete(n) /\ ~Busy(n) => Complete(n)']_vars
  BY <1>1
<1>3. QED
  BY <1>2, SrlInvariant, OwnInvariant, PTL DEF Spec, OthersUntouched

-----------------------------------------------------------------------------
(* What the answers of a call mean that no call for its objects interferes with. *)

\* The object of the i-th Set of a provision is there; that of a removal is not.
Present(s, i) ==
  /\ i = 1 => ifc[s] \subseteq subif
  /\ i = 2 => \A v \in vx[s] : vxlan[v] = v
  /\ i = 3 => \A n \in name[s] :
                ni[n] # None /\ vx[s] \subseteq ni[n].vxs /\ ifc[s] \subseteq ni[n].ifs
Absent(s, i) ==
  /\ i = 1 => \A n \in name[s] : ni[n] = None
  /\ i = 2 => \A v \in vx[s] : vxlan[v] = None
  /\ i = 3 => ifc[s] \cap subif = {}

\* Until another call changes its objects, what the switch has answered is what it holds.
Undisturbed(s) ==
  /\ pc[s] = "read" => r[s][1] # "ok" /\ step[s] = 1
  /\ pc[s] = "write" => \A i \in Sets : r[s][i] = "ok" => Present(s, i)
  /\ pc[s] \in {"rollback", "remove"} =>
       \A i \in Sets : i < step[s] => Absent(s, i) \/ fate[s][i] = "refused"
  /\ pc[s] = "remove" => (r[s][1] = "ok" => Absent(s, 1))
  /\ said[s] = "provisioned" => \A i \in Sets : Present(s, i)
  /\ said[s] \in {"rolled back", "deleted", "partial"} =>
       \A i \in Sets : Absent(s, i) \/ fate[s][i] = "refused"
  /\ said[s] = "deleted" => Absent(s, 1)

AloneInv == \A s \in Servers : alone[s] => name[s] # {} /\ Undisturbed(s)

\* Each Set brings about what it is for, and leaves what the others are for.
LEMMA EditEffect ==
  ASSUME TypeOK, NEW s \in Servers, NEW k \in Sets, k = step[s], pc[s] \in Phases, Edit(s),
         UNCHANGED request
  PROVE  /\ pc[s] = "write" => /\ Present(s, k)'
                               /\ \A j \in Sets \ {k} : Present(s, j) => Present(s, j)'
         /\ pc[s] # "write" => /\ Absent(s, k)'
                               /\ \A j \in Sets \ {k} : Absent(s, j) => Absent(s, j)'
<1>1. name'[s] = name[s] /\ vx'[s] = vx[s] /\ ifc'[s] = ifc[s]
  BY DEF request
<1>2. name[s] \subseteq Services /\ vx[s] \subseteq Vnis
  BY DEF TypeOK
<1>3. CASE pc[s] = "write"
  <2>1. CASE k = 1
    BY <1>1, <1>2, <1>3, <2>1 DEF Edit, AddSubif, Present, Sets
  <2>2. CASE k = 2
    BY <1>1, <1>2, <1>3, <2>2 DEF Edit, AddVxlan, Present, Sets
  <2>3. CASE k = 3
    <3>1. AddNi(s)
      BY <1>3, <2>3 DEF Edit
    <3>2. ASSUME NEW n \in name[s]
          PROVE  ni'[n] # None /\ vx[s] \subseteq ni'[n].vxs /\ ifc[s] \subseteq ni'[n].ifs
      <4>1. ni'[n] = IF ni[n] = None THEN [ifs |-> ifc[s], vxs |-> vx[s]]
                     ELSE [ifs |-> ni[n].ifs \cup ifc[s], vxs |-> ni[n].vxs \cup vx[s]]
        BY <1>2, <3>1, <3>2 DEF AddNi
      <4>2. ni'[n] \in NetworkInstance
        <5>1. ni[n] \in NetworkInstance \cup {None}
          BY <1>2, <3>2 DEF TypeOK, NiTable
        <5>2. ni[n] # None => ni[n].ifs \cup ifc[s] \in SUBSET Subifs /\ ni[n].vxs \cup vx[s] \in SUBSET Vnis
          BY <5>1 DEF NetworkInstance, TypeOK
        <5>3. ifc[s] \in SUBSET Subifs /\ vx[s] \in SUBSET Vnis
          BY DEF TypeOK
        <5>4. QED
          BY <4>1, <5>2, <5>3 DEF NetworkInstance
      <4>3. ni'[n] # None
        BY <4>2, SrlAssumption
      <4>4. CASE ni[n] = None
        BY <4>1, <4>3, <4>4
      <4>5. CASE ni[n] # None
        BY <4>1, <4>3, <4>5
      <4>6. QED
        BY <4>4, <4>5
    <3>3. Present(s, k)'
      BY <1>1, <2>3, <3>2 DEF Present
    <3>4. ASSUME NEW j \in Sets \ {k}, Present(s, j) PROVE Present(s, j)'
      BY <1>1, <2>3, <3>1, <3>4 DEF AddNi, Present
    <3>5. QED
      BY <1>3, <3>3, <3>4
  <2>4. QED
    BY <2>1, <2>2, <2>3 DEF Sets
<1>4. CASE pc[s] # "write"
  <2>1. CASE k = 1
    BY <1>1, <1>2, <1>4, <2>1 DEF Edit, DelNi, Absent, Sets
  <2>2. CASE k = 2
    BY <1>1, <1>2, <1>4, <2>2 DEF Edit, DelVxlan, Absent, Sets
  <2>3. CASE k = 3
    BY <1>1, <1>2, <1>4, <2>3 DEF Edit, DelSubif, Absent, Sets
  <2>4. QED
    BY <2>1, <2>2, <2>3 DEF Sets
<1>5. QED
  BY <1>3, <1>4

\* The numbers of the Sets.
LEMMA OneInSets == {1, 2, 3} \subseteq Sets /\ \A i \in Sets : i < 4 /\ ~(i < 1)
  BY DEF Sets

\* What a Set of one call leaves of the objects of a call for a service apart.
LEMMA EditElsewhere ==
  ASSUME TypeOK, OwnInv, NEW s \in Servers, Edit(s), pc[s] # "idle",
         NEW t \in Servers, name[t] # {}, \A n \in name[t], m \in name[s] : Apart(n, m),
         name'[t] = name[t], vx'[t] = vx[t], ifc'[t] = ifc[t], NEW i \in Sets
  PROVE  (Present(t, i) => Present(t, i)') /\ (Absent(t, i) => Absent(t, i)')
<1>1. PICK n \in name[t], m \in name[s] : Apart(n, m) /\ name[t] = {n} /\ name[s] = {m}
  BY DEF OwnInv
<1>2. n \in Services /\ vx[t] \subseteq Vnis
  BY <1>1 DEF TypeOK
<1>3. n # m /\ vx[s] \cap vx[t] = {} /\ ifc[s] \cap ifc[t] = {}
  <2>1. Claims(m, vx[s], ifc[s]) /\ Claims(n, vx[t], ifc[t])
    BY <1>1 DEF OwnInv
  <2>2. QED
    BY <1>1, <2>1 DEF Claims, Apart
<1>4. ni'[n] = ni[n]
  BY <1>1, <1>2, <1>3 DEF Edit, AddSubif, AddVxlan, AddNi, DelSubif, DelVxlan, DelNi
<1>5. \A v \in vx[t] : vxlan'[v] = vxlan[v]
  BY <1>2, <1>3 DEF Edit, AddSubif, AddVxlan, AddNi, DelSubif, DelVxlan, DelNi
<1>6. \A f \in ifc[t] : f \in subif' <=> f \in subif
  BY <1>3 DEF Edit, AddSubif, AddVxlan, AddNi, DelSubif, DelVxlan, DelNi
<1>7. QED
  BY <1>1, <1>4, <1>5, <1>6 DEF Present, Absent

\* All but what concerns server s itself stays as it is.
Elsewhere(s) ==
  \A u \in Servers \ {s} :
    /\ pc'[u] = pc[u] /\ name'[u] = name[u] /\ vx'[u] = vx[u] /\ ifc'[u] = ifc[u]
    /\ step'[u] = step[u] /\ r'[u] = r[u] /\ said'[u] = said[u] /\ fate'[u] = fate[u]

\* A call at rest, or at work, is left as it was.
LEMMA UndisturbedElsewhere ==
  ASSUME NEW s \in Servers, Elsewhere(s), NEW t \in Servers \ {s}, Undisturbed(t),
         \A i \in Sets : (Present(t, i) => Present(t, i)') /\ (Absent(t, i) => Absent(t, i)')
  PROVE  Undisturbed(t)'
<1>1. /\ pc'[t] = pc[t] /\ step'[t] = step[t] /\ r'[t] = r[t]
      /\ said'[t] = said[t] /\ fate'[t] = fate[t]
  BY DEF Elsewhere
<1>2. QED
  BY <1>1, OneInSets DEF Undisturbed

\* A call that begins has been told nothing, and changes nothing for the others.
LEMMA BeginAlone ==
  ASSUME SrlInv, AloneInv, NEW s \in Servers, NEW n, NEW vs, NEW fs, NEW d,
         NEW next \in {"idle", "read", "write"}, NEW answer \in {"none", "invalid", "dry run"},
         Begin(s, n, vs, fs, d, next, answer)
  PROVE  AloneInv'
<1>1. /\ Elsewhere(s) /\ UNCHANGED device /\ name'[s] = {n}
      /\ \A t \in Servers \ {s} : alone'[t] = alone[t]
  BY DEF Begin, SrlInv, TypeOK, Elsewhere
<1>2. Undisturbed(s)'
  <2>1. pc'[s] = next /\ said'[s] = answer /\ r'[s] = NoReplies /\ step'[s] = 1
    BY DEF Begin, SrlInv, TypeOK
  <2>2. \A i \in Sets : r'[s][i] # "ok"
    BY <2>1 DEF NoReplies
  <2>3. QED
    BY <2>1, <2>2, OneInSets DEF Undisturbed
<1>3. ASSUME NEW t \in Servers \ {s}, alone'[t] PROVE name'[t] # {} /\ Undisturbed(t)'
  <2>1. name[t] # {} /\ Undisturbed(t)
    BY <1>1, <1>3 DEF AloneInv
  <2>2. \A i \in Sets : (Present(t, i) => Present(t, i)') /\ (Absent(t, i) => Absent(t, i)')
    BY <1>1 DEF Elsewhere, device, Present, Absent
  <2>3. QED
    BY <1>1, <2>1, <2>2, UndisturbedElsewhere DEF Elsewhere
<1>4. QED
  BY <1>1, <1>2, <1>3 DEF AloneInv

\* A step of a call moves only that call, and the switch only by its edit.
LEMMA StepFrame ==
  ASSUME TypeOK, NEW s \in Servers,
         \/ Read(s) \/ ReadRaises(s) \/ Send(s) \/ Skip(s)
         \/ ProvisionEnds(s) \/ RollbackEnds(s) \/ DeleteEnds(s) \/ Crash(s)
  PROVE  /\ pc[s] # "idle" /\ UNCHANGED name /\ alone'[s] = alone[s] /\ Elsewhere(s)
         /\ \A t \in Servers \ {s} : alone'[t] =>
              /\ alone[t]
              /\ UNCHANGED device \/ (Edit(s) /\ \A n \in name[t], m \in name[s] : Apart(n, m))
<1> USE DEF End, request, TypeOK, Elsewhere
<1>1. CASE Read(s) \/ ReadRaises(s)
  BY <1>1 DEF Read, ReadRaises
<1>2. CASE Send(s)
  <2>1. /\ pc[s] # "idle" /\ UNCHANGED request
        /\ UNCHANGED <<device, alone>> \/ Applied(s)
    BY <1>2 DEF Send, Sending, Phases, Refused
  <2>2. \A u \in Servers \ {s} : /\ pc'[u] = pc[u] /\ step'[u] = step[u] /\ r'[u] = r[u]
                                 /\ said'[u] = said[u] /\ fate'[u] = fate[u]
    BY <1>2 DEF Send, Applied, Refused, Answered, Fate
  <2>3. ASSUME Applied(s)
        PROVE  /\ alone'[s] = alone[s]
               /\ \A t \in Servers \ {s} : alone'[t] =>
                    alone[t] /\ Edit(s) /\ \A n \in name[t], m \in name[s] : Apart(n, m)
    BY <2>3 DEF Applied, Apart
  <2>4. QED
    BY <2>1, <2>2, <2>3
<1>3. CASE Skip(s)
  BY <1>3 DEF Skip, Sending, Phases, Answered
<1>4. CASE ProvisionEnds(s)
  BY <1>4 DEF ProvisionEnds
<1>5. CASE RollbackEnds(s) \/ DeleteEnds(s) \/ Crash(s)
  BY <1>5 DEF RollbackEnds, DeleteEnds, Crash
<1>6. QED
  BY <1>1, <1>2, <1>3, <1>4, <1>5

\* Every step of a call concerns only the objects of its service.
LEMMA AloneStep == SrlInv /\ SrlInv' /\ OwnInv /\ AloneInv /\ [Next]_vars => AloneInv'
<1> SUFFICES ASSUME SrlInv, SrlInv', OwnInv, AloneInv, [Next]_vars PROVE AloneInv'
  OBVIOUS
<1>0. TypeOK /\ TypeOK' /\ 1 \in Sets /\ \A i \in Sets : i < 4
  BY OneInSets DEF SrlInv
<1>1. CASE UNCHANGED vars
  <2>1. UNCHANGED <<ni, vxlan, subif, pc, name, vx, ifc, step, r, said, fate, alone>>
    BY <1>1 DEF vars, device, request
  <2>2. ASSUME NEW t \in Servers, NEW i PROVE Present(t, i) = Present(t, i)' /\ Absent(t, i) = Absent(t, i)'
    BY <2>1 DEF Present, Absent
  <2>3. ASSUME NEW t \in Servers, Undisturbed(t) PROVE Undisturbed(t)'
    BY <2>1, <2>2, <2>3 DEF Undisturbed
  <2>4. QED
    BY <2>1, <2>3 DEF AloneInv
<1>2. ASSUME NEW s \in Servers, Provision(s) \/ Delete(s) PROVE AloneInv'
  <2>1. ASSUME NEW q \in Provisions,
               \/ Begin(s, q.name, {q.vni}, {q.subif}, q.dry, "idle", "invalid")
               \/ Begin(s, q.name, {q.vni}, {q.subif}, q.dry, "idle", "dry run")
               \/ Begin(s, q.name, {q.vni}, {q.subif}, q.dry, "write", "none")
        PROVE  AloneInv'
    BY <2>1, BeginAlone
  <2>2. ASSUME NEW q \in Deletes, Begin(s, q.name, {}, {}, q.dry, "read", "none")
        PROVE  AloneInv'
    BY <2>2, BeginAlone
  <2>3. QED
    BY <1>2, <2>1, <2>2 DEF Provision, Delete
\* It is enough to look at the call of the step: calls for services apart do not notice.
<1>3. ASSUME NEW s \in Servers,
             \/ Read(s) \/ ReadRaises(s) \/ Send(s) \/ Skip(s)
             \/ ProvisionEnds(s) \/ RollbackEnds(s) \/ DeleteEnds(s) \/ Crash(s),
             alone[s] => Undisturbed(s)'
      PROVE  AloneInv'
  <2>1. /\ pc[s] # "idle" /\ UNCHANGED name /\ alone'[s] = alone[s] /\ Elsewhere(s)
        /\ \A t \in Servers \ {s} : alone'[t] =>
             /\ alone[t]
             /\ UNCHANGED device \/ (Edit(s) /\ \A n \in name[t], m \in name[s] : Apart(n, m))
    BY <1>0, <1>3, StepFrame
  <2>2. ASSUME NEW t \in Servers \ {s}, alone'[t] PROVE name'[t] # {} /\ Undisturbed(t)'
    <3>1. name[t] # {} /\ Undisturbed(t)
      BY <2>1, <2>2 DEF AloneInv
    <3>2. name'[t] = name[t] /\ vx'[t] = vx[t] /\ ifc'[t] = ifc[t]
      BY <2>1 DEF Elsewhere
    <3>3. \A i \in Sets : (Present(t, i) => Present(t, i)') /\ (Absent(t, i) => Absent(t, i)')
      <4>1. CASE UNCHANGED device
        BY <3>2, <4>1 DEF device, Present, Absent
      <4>2. CASE Edit(s) /\ \A n \in name[t], m \in name[s] : Apart(n, m)
        BY <1>0, <2>1, <3>1, <3>2, <4>2, EditElsewhere
      <4>3. QED
        BY <2>1, <2>2, <4>1, <4>2
    <3>4. QED
      BY <2>1, <3>1, <3>2, <3>3, UndisturbedElsewhere
  <2>3. QED
    BY <1>3, <2>1, <2>2 DEF AloneInv
<1>4. ASSUME NEW s \in Servers, pc[s] # "idle", alone[s]
      PROVE  Undisturbed(s) /\ said[s] = "none"
  BY <1>4 DEF AloneInv, SrlInv, WriteLog
<1>5. ASSUME NEW s \in Servers, Read(s) \/ ReadRaises(s) PROVE AloneInv'
  <2>1. /\ pc[s] = "read" /\ UNCHANGED <<alone, r>>
        /\ pc'[s] \in {"idle", "remove"} /\ said'[s] \in {said[s], "not found", "dry run", "raised"}
    BY <1>0, <1>5 DEF Read, ReadRaises, End, TypeOK
  <2>2. step' = step
    BY <1>5 DEF Read, ReadRaises
  <2>3. alone[s] => Undisturbed(s)'
    BY <1>4, <2>1, <2>2, OneInSets DEF Undisturbed
  <2>4. QED
    BY <1>3, <1>5, <2>3
<1>6. ASSUME NEW s \in Servers, Send(s) PROVE AloneInv'
  <2>1. pc[s] \in Phases /\ pc[s] # "idle" /\ step[s] \in Sets /\ UNCHANGED request
    BY <1>6 DEF Send, Sending, Phases
  <2>2. SUFFICES ASSUME alone[s] PROVE Undisturbed(s)'
    BY <1>3, <1>6
  <2>3. Undisturbed(s) /\ said[s] = "none"
    BY <1>0, <2>1, <2>2 DEF AloneInv, SrlInv, WriteLog
  <2>4. CASE End(s, "raised")
    <3>1. pc'[s] = "idle" /\ said'[s] = "raised"
      BY <1>0, <2>4 DEF End, TypeOK
    <3>2. QED
      BY <1>4, <2>1, <2>2, <3>1 DEF Undisturbed
  <2>5. ASSUME NEW reply \in {"ok", "none"}, Answered(s, reply), NEW what \in {"applied", "refused"},
               Fate(s, what), reply = "ok" => what = "applied",
               IF what = "applied" THEN Edit(s) ELSE UNCHANGED device
        PROVE  Undisturbed(s)'
    <3> PICK k \in Sets : k = step[s]
      BY <2>1
    <3>1. /\ \A i \in Sets : fate'[s][i] = IF i = k THEN what ELSE fate[s][i]
      BY <1>0, <2>1, <2>5, FateType DEF Fates
    <3>2. /\ \A i \in Sets : r'[s][i] = r[s][i] \/ (i = k /\ r'[s][i] = reply)
          /\ pc[s] # "rollback" => r'[s][k] = reply
      BY <1>0, <2>1, <2>5, AnsweredType
    <3>3. UNCHANGED <<pc, said>> /\ step'[s] = k + 1
      BY <1>0, <2>5 DEF Answered, TypeOK
    <3>5. /\ pc[s] = "write" => /\ what = "applied" => Present(s, k)'
                                /\ \A j \in Sets \ {k} : Present(s, j) => Present(s, j)'
          /\ pc[s] # "write" => /\ what = "applied" => Absent(s, k)'
                                /\ \A j \in Sets \ {k} : Absent(s, j) => Absent(s, j)'
      <4>1. CASE what = "applied"
        BY <1>0, <2>1, <2>5, <4>1, EditEffect
      <4>2. CASE what # "applied"
        BY <2>1, <2>5, <4>2 DEF device, request, Present, Absent
      <4>3. QED
        BY <4>1, <4>2
    <3>6. CASE pc[s] = "write"
      <4>1. \A i \in Sets : r'[s][i] = "ok" => Present(s, i)'
        BY <2>1, <2>3, <2>5, <3>2, <3>5, <3>6 DEF Undisturbed
      <4>2. QED
        BY <2>3, <3>3, <3>6, <4>1 DEF Undisturbed
    <3>7. CASE pc[s] \in {"rollback", "remove"}
      <4>1. ASSUME NEW i \in Sets, i < step'[s] PROVE Absent(s, i)' \/ fate'[s][i] = "refused"
        <5>1. CASE i = k
          BY <2>5, <3>1, <3>5, <3>7, <5>1
        <5>2. CASE i # k
          <6>1. i < step[s]
            BY <3>3, <4>1, <5>2 DEF Sets
          <6>2. fate'[s][i] = fate[s][i] /\ (Absent(s, i) => Absent(s, i)')
            BY <3>1, <3>5, <3>7, <5>2
          <6>3. QED
            BY <2>3, <3>7, <6>1, <6>2 DEF Undisturbed
        <5>3. QED
          BY <5>1, <5>2
      <4>2. pc[s] = "remove" /\ r'[s][1] = "ok" => Absent(s, 1)'
        BY <1>0, <2>1, <2>3, <2>5, <3>2, <3>5 DEF Undisturbed
      <4>3. QED
        BY <2>3, <3>3, <3>7, <4>1, <4>2 DEF Undisturbed
    <3>9. QED
      BY <2>1, <3>6, <3>7 DEF Phases
  <2>6. QED
    BY <1>6, <2>4, <2>5 DEF Send, Applied, Refused
<1>7. ASSUME NEW s \in Servers, Skip(s) PROVE AloneInv'
  <2>1. /\ pc[s] = "remove" /\ UNCHANGED <<alone, pc, said, device, request, fate>>
        /\ step[s] \in Sets /\ step[s] # 1 /\ Answered(s, "none")
        /\ (step[s] = 2 /\ vx[s] = {}) \/ (step[s] = 3 /\ ifc[s] = {})
    BY <1>7 DEF Skip, Skipped, Sending, Answered
  <2>2. r'[s][1] = r[s][1] /\ step'[s] = step[s] + 1
    BY <1>0, <2>1, AnsweredType DEF Answered, TypeOK
  <2>3. \A i \in Sets : Absent(s, i) => Absent(s, i)'
    BY <2>1 DEF Absent, device, request
  <2>4. Absent(s, step[s])
    BY <2>1 DEF Absent
  <2>5. ASSUME alone[s], NEW i \in Sets, i < step'[s] PROVE Absent(s, i)' \/ fate'[s][i] = "refused"
    <3>1. i < step[s] \/ i = step[s]
      BY <2>1, <2>2, <2>5 DEF Sets
    <3>2. i < step[s] => Absent(s, i) \/ fate[s][i] = "refused"
      BY <2>1, <2>5 DEF AloneInv, Undisturbed
    <3>3. QED
      BY <2>1, <2>3, <2>4, <3>1, <3>2
  <2>6. ASSUME alone[s] PROVE Undisturbed(s)'
    <3>1. pc'[s] = "remove" /\ said'[s] = "none" /\ (r[s][1] = "ok" => Absent(s, 1))
      BY <1>4, <2>1, <2>6 DEF Undisturbed
    <3>2. r'[s][1] = "ok" => Absent(s, 1)'
      BY <1>0, <2>2, <2>3, <3>1
    <3>3. QED
      BY <2>5, <2>6, <3>1, <3>2 DEF Undisturbed
  <2>7. QED
    BY <1>3, <1>7, <2>6
<1>8. ASSUME NEW s \in Servers, ProvisionEnds(s) PROVE AloneInv'
  <2>1. pc[s] = "write" /\ UNCHANGED <<alone, device, request>>
    BY <1>8 DEF ProvisionEnds
  <2>2. CASE AllOk(s) /\ End(s, "provisioned")
    <3>1. pc'[s] = "idle" /\ said'[s] = "provisioned"
      BY <1>0, <2>2 DEF End, TypeOK
    <3>2. alone[s] => \A i \in Sets : Present(s, i)'
      <4>1. \A i \in Sets : Present(s, i) => Present(s, i)'
        BY <2>1 DEF Present, device, request
      <4>2. QED
        BY <1>4, <2>1, <2>2, <3>1, <4>1 DEF AllOk, Undisturbed
    <3>3. QED
      BY <1>3, <1>4, <1>8, <2>1, <3>1, <3>2 DEF Undisturbed
  <2>3. CASE /\ pc' = [pc EXCEPT ![s] = "rollback"] /\ step' = [step EXCEPT ![s] = 1] /\ UNCHANGED said
             /\ fate' = [fate EXCEPT ![s] = NothingSent]
    <3>1. pc'[s] = "rollback" /\ said'[s] = said[s] /\ step'[s] = 1 /\ fate'[s] = NothingSent
      BY <1>0, <2>3 DEF TypeOK
    <3>2. \A i \in Sets : fate'[s][i] = "unsent" /\ ~(i < step'[s])
      BY <3>1 DEF NothingSent, Sets
    <3>3. QED
      BY <1>3, <1>4, <1>8, <2>1, <2>3, <3>1, <3>2 DEF Undisturbed
  <2>4. QED
    BY <1>8, <2>2, <2>3 DEF ProvisionEnds
<1>9. ASSUME NEW s \in Servers, RollbackEnds(s) \/ DeleteEnds(s) \/ Crash(s) PROVE AloneInv'
  <2>1. /\ pc[s] # "idle" /\ UNCHANGED <<alone, device, request, r, fate>>
        /\ pc'[s] = "idle"
    BY <1>0, <1>9 DEF RollbackEnds, DeleteEnds, Crash, End, TypeOK
  <2>2. \/ said'[s] = said[s]
        \/ said'[s] = "rolled back" /\ pc[s] = "rollback" /\ step[s] = 4
        \/ said'[s] = "partial" /\ pc[s] = "remove" /\ step[s] = 4
        \/ said'[s] = "deleted" /\ pc[s] = "remove" /\ step[s] = 4 /\ r[s][1] = "ok"
    BY <1>0, <1>9 DEF RollbackEnds, DeleteEnds, Crash, End, TypeOK
  <2>4. \A i \in Sets : Absent(s, i) => Absent(s, i)'
    BY <2>1 DEF Absent, device, request
  <2>5. ASSUME alone[s] PROVE Undisturbed(s)'
    <3>1. Undisturbed(s) /\ said[s] = "none"
      BY <1>4, <2>1, <2>5
    <3>2. said'[s] \in {"rolled back", "deleted", "partial"} =>
            \A i \in Sets : Absent(s, i)' \/ fate'[s][i] = "refused"
      <4>1. CASE pc[s] \in {"rollback", "remove"} /\ step[s] = 4
        <5>1. \A i \in Sets : i < step[s]
          BY <1>0, <4>1
        <5>2. QED
          BY <2>1, <2>4, <3>1, <4>1, <5>1 DEF Undisturbed
      <4>2. CASE said'[s] = said[s]
        BY <3>1, <4>2
      <4>3. QED
        BY <2>2, <4>1, <4>2
    <3>3. said'[s] = "deleted" => Absent(s, 1)'
      BY <1>0, <2>2, <2>4, <3>1 DEF Undisturbed
    <3>4. QED
      BY <2>1, <2>2, <3>1, <3>2, <3>3 DEF Undisturbed
  <2>6. QED
    BY <1>3, <1>9, <2>5
<1>10. QED
  BY <1>1, <1>2, <1>5, <1>6, <1>7, <1>8, <1>9 DEF Next

\* AloneInv holds throughout.
THEOREM SrlUndisturbed == Spec => []AloneInv
<1>1. Init => AloneInv
  BY DEF Init, AloneInv
<1>2. QED
  BY <1>1, AloneStep, SrlInvariant, OwnInvariant, PTL DEF Spec

\* "provisioned" means that the three objects are there and tied together, until another call
\* for the service, or for one sharing an object with it, changes the switch; all other calls
\* may overlap in any way (backend.py:350-371).
THEOREM ProvisionedComplete == Spec => []ProvisionedIsComplete
<1>1. AloneInv => ProvisionedIsComplete
  <2>1. AloneInv => \A s \in Servers : said[s] = "provisioned" /\ alone[s] =>
                      Present(s, 1) /\ Present(s, 2) /\ Present(s, 3)
    BY OneInSets DEF AloneInv, Undisturbed
  <2>2. QED
    BY <2>1 DEF Present, ProvisionedIsComplete
<1>2. QED
  BY <1>1, SrlUndisturbed, PTL

\* _rollback and delete leave only what the switch has refused to delete, under the same
\* condition (backend.py:124-130 and 412-427).
THEOREM RemovalsComplete == Spec => []RemovalsLeaveOnlyRefused
<1>1. AloneInv => RemovalsLeaveOnlyRefused
  <2>1. AloneInv => \A s \in Servers : said[s] \in {"rolled back", "deleted", "partial"} /\ alone[s] =>
                      \A i \in Sets : Absent(s, i) \/ fate[s][i] = "refused"
    BY DEF AloneInv, Undisturbed
  <2>2. QED
    BY <2>1, OneInSets DEF Absent, RemovalsLeaveOnlyRefused
<1>2. QED
  BY <1>1, SrlUndisturbed, PTL

\* "deleted" means that the network-instance is gone, under the same condition
\* (backend.py:412-427).
THEOREM DeletedGone == Spec => []DeletedInstanceGone
<1>1. AloneInv => DeletedInstanceGone
  BY DEF AloneInv, Undisturbed, Absent, DeletedInstanceGone
<1>2. QED
  BY <1>1, SrlUndisturbed, PTL

=============================================================================
