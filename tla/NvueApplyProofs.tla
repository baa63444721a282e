--------------------------- MODULE NvueApplyProofs ---------------------------
(***************************************************************************)
(* Proofs about NvueApply, for any number of servers, revisions, changes and *)
(* faults.  The argument: a revision belongs to the one call it was handed    *)
(* out to, so nobody else moves it on, and "applied" is never left again.     *)
(***************************************************************************)
EXTENDS NvueApply, TLAPS

\* A call has a revision from the answer to its POST on, and before its apply request
\* nobody has done anything with it.
HasRevision ==
  \A s \in Servers :
    /\ pc[s] = "post" => mine[s] = 0
    /\ pc[s] \in {"patch", "apply"} => mine[s] # 0 /\ state[mine[s]] = "pending"
    /\ pc[s] \in {"poll", "delete"} => mine[s] # 0

\* No two servers have the same revision, and it was handed out before.
OwnRevision ==
  \A s \in Servers : mine[s] # 0 =>
    /\ state[mine[s]] # "free"
    /\ \A t \in Servers \ {s} : mine[t] # mine[s]

\* A call has no answer before it returns, and has returned "ok" as soon as
\* it has seen its revision applied.
AnswerLast ==
  \A s \in Servers :
    /\ pc[s] # "idle" => said[s] = "none"
    /\ seen[s] = "applied" => pc[s] = "idle" /\ said[s] = "ok"

\* Polls are counted from 0, and a call that may time out polls below the bound.
PollsLeft ==
  \A s \in Servers :
    /\ pc[s] \in {"post", "patch", "apply"} => polls[s] = 0
    /\ pc[s] = "poll" /\ MayExpire => polls[s] < MaxPolls

NvueInv == NvueTypeOK /\ PollsLeft /\ HasRevision /\ OwnRevision /\ AnswerLast /\ OkMeansApplied

\* The initial states satisfy the invariant.
LEMMA NvueInvInit == NvueInit => NvueInv
  BY NvueAssumption
     DEF NvueInit, NvueInv, NvueTypeOK, HasRevision, OwnRevision, AnswerLast, OkMeansApplied,
         PollsLeft, RevIds, RevStates, Requests

\* Every step preserves the invariant.
LEMMA NvueInvStep == NvueInv /\ [NvueNext]_nvueVars => NvueInv'
<1> SUFFICES ASSUME NvueInv, [NvueNext]_nvueVars PROVE NvueInv'
  OBVIOUS
<1> USE NvueAssumption
    DEF NvueInv, NvueTypeOK, HasRevision, OwnRevision, AnswerLast, OkMeansApplied, 
        PollsLeft, RevIds, RevStates, Requests, Goto, End, Lost
<1>1. CASE UNCHANGED nvueVars
  BY <1>1 DEF nvueVars
<1>2. ASSUME NEW s \in Servers, NEW t \in Trees, Call(s, t) PROVE NvueInv'
  BY <1>2 DEF Call
<1>3. ASSUME NEW s \in Servers, Post(s) PROVE NvueInv'
  <2>1. CASE UNCHANGED <<config, state, tree, mine, excused>> /\ End(s, "error") /\ UNCHANGED <<seen, polls>>
    BY <1>3, <2>1 DEF Post
  <2>2. ASSUME NEW n \in RevIds, NewRevision(n), mine' = [mine EXCEPT ![s] = n],
               Goto(s, "patch"), UNCHANGED <<seen, polls, excused>>
        PROVE  NvueInv'
    <3>1. pc[s] = "post" /\ n # 0 /\ state[n] = "free"
      BY <1>3, <2>2 DEF Post, NewRevision
    <3>2. state' = [state EXCEPT ![n] = "pending"] /\ tree' = tree
      BY <2>2 DEF NewRevision
    <3>3. \A t \in Servers : mine[t] # n
      BY <3>1
    <3>4. NvueTypeOK'
      BY <2>2, <3>2
    <3>5. PollsLeft' /\ HasRevision' /\ OwnRevision'
      BY <2>2, <3>1, <3>2, <3>3
    <3>6. AnswerLast' /\ OkMeansApplied'
      BY <2>2, <3>1, <3>2, <3>3
    <3>7. QED
      BY <3>4, <3>5, <3>6
  <2>3. ASSUME NEW n \in RevIds, NewRevision(n), UNCHANGED <<mine, seen, polls>>, End(s, "error"),
               excused' = excused \cup {n}
        PROVE  NvueInv'
    <3>1. pc[s] = "post" /\ state[n] = "free"
      BY <1>3, <2>3 DEF Post, NewRevision
    <3>2. state' = [state EXCEPT ![n] = "pending"] /\ tree' = tree
      BY <2>3 DEF NewRevision
    <3>3. \A t \in Servers : mine[t] # n
      BY <3>1
    <3>4. QED
      BY <2>3, <3>1, <3>2, <3>3
  <2>4. QED
    BY <1>3, <2>1, <2>2, <2>3 DEF Post
<1>4. ASSUME NEW s \in Servers, Patch(s) PROVE NvueInv'
  <2>1. pc[s] = "patch" /\ mine[s] \in RevIds /\ arg[s] \in SUBSET Trees
    BY <1>4 DEF Patch
  <2>2. tree' \in [RevIds -> SUBSET Trees] /\ UNCHANGED <<config, state, mine, seen, polls, arg, excused>>
    BY <1>4, <2>1 DEF Patch
  <2>3. \/ pc' = [pc EXCEPT ![s] = "apply"] /\ said' = said
        \/ pc' = [pc EXCEPT ![s] = "delete"] /\ said' = said
    BY <1>4 DEF Patch
  <2>4. NvueTypeOK'
    <3>1. pc' \in [Servers -> {"idle"} \cup Requests]
      <4>1. pc \in [Servers -> {"idle"} \cup Requests]
        OBVIOUS
      <4>2. QED
        BY ONLY <2>3, <4>1 DEF Requests
    <3>2. QED
      BY <2>2, <2>3, <3>1
  <2>5. PollsLeft' /\ HasRevision' /\ OwnRevision' /\ AnswerLast' /\ OkMeansApplied'
    BY <2>1, <2>2, <2>3
  <2>6. QED
    BY <2>4, <2>5
<1>5. ASSUME NEW s \in Servers, Apply(s) PROVE NvueInv'
  <2>1. pc[s] = "apply" /\ mine[s] \in RevIds /\ state[mine[s]] = "pending"
    BY <1>5 DEF Apply
  <2>2. UNCHANGED <<tree, mine, seen, polls, arg, said, excused>>
    BY <1>5 DEF Apply
  <2>3. \/ pc' = [pc EXCEPT ![s] = "poll"]
        \/ pc' = [pc EXCEPT ![s] = "delete"]
    BY <1>5 DEF Apply
  <2>4. \/ state' = [state EXCEPT ![mine[s]] = "applying"]
        \/ state' = state
    BY <1>5 DEF Apply
  <2>5. NvueTypeOK'
    <3>1. pc' \in [Servers -> {"idle"} \cup Requests]
      <4>1. pc \in [Servers -> {"idle"} \cup Requests]
        OBVIOUS
      <4>2. QED
        BY ONLY <2>3, <4>1 DEF Requests
    <3>2. state' \in [RevIds -> RevStates]
      <4>1. CASE state' = [state EXCEPT ![mine[s]] = "applying"]
        BY <2>1, <4>1
      <4>2. QED
        BY <2>4, <4>1
    <3>3. QED
      BY <2>2, <3>1, <3>2
  <2>6. PollsLeft' /\ HasRevision' /\ OwnRevision'
    BY <2>1, <2>2, <2>3, <2>4
  <2>7. AnswerLast' /\ OkMeansApplied'
    BY <2>1, <2>2, <2>3, <2>4
  <2>8. QED
    BY <2>5, <2>6, <2>7
<1>6. ASSUME NEW s \in Servers, Poll(s) PROVE NvueInv'
  <2>1. pc[s] = "poll" /\ mine[s] \in RevIds /\ UNCHANGED <<config, state, tree, mine, arg, excused>>
    BY <1>6 DEF Poll, Judge
  <2>2. ASSUME NEW answer \in RevStates \cup {"none"}, Judge(s, answer),
               answer = "applied" => state[mine[s]] = "applied"
        PROVE  NvueInv'
    <3>1. seen' = [seen EXCEPT ![s] = answer]
      BY <2>2 DEF Judge
    <3>2. polls' \in [Servers -> 0..MaxPolls] /\ PollsLeft'
      <4>1. \/ polls' = polls /\ pc'[s] \in {"idle", "delete"}
            \/ polls' = [polls EXCEPT ![s] = IF MayExpire THEN @ + 1 ELSE @]
        BY <2>2 DEF Judge, APPLIED, FAILED, Waiting
      <4>2. CASE polls' = polls /\ pc'[s] \in {"idle", "delete"}
        BY <2>1, <2>2, <4>2 DEF Judge
      <4>3. CASE ~MayExpire /\ polls' = polls
        BY <2>1, <2>2, <4>3 DEF Judge
      <4>4. CASE MayExpire /\ polls' = [polls EXCEPT ![s] = @ + 1]
        <5>1. polls[s] < MaxPolls /\ polls[s] \in 0..MaxPolls
          BY <2>1, <4>4
        <5>2. pc'[s] = "poll" => polls[s] + 1 < MaxPolls
          BY <2>1, <2>2, <4>4 DEF Judge, Waiting, APPLIED, FAILED
        <5>3. \A t \in Servers \ {s} : pc'[t] = pc[t] /\ polls'[t] = polls[t]
          BY <2>2, <4>4 DEF Judge
        <5>4. pc'[s] \notin {"post", "patch", "apply"} /\ polls'[s] = polls[s] + 1
          BY <2>2, <4>4 DEF Judge
        <5>5. QED
          BY <4>4, <5>1, <5>2, <5>3, <5>4
      <4>5. QED
        BY <4>1, <4>2, <4>3, <4>4
    <3>3. \/ answer = "applied" /\ End(s, "ok")
          \/ answer # "applied" /\ (Goto(s, "delete") \/ Goto(s, "poll"))
      BY <2>2 DEF Judge, APPLIED, FAILED
    <3>4. NvueTypeOK'
      <4>1. pc' \in [Servers -> {"idle"} \cup Requests]
        <5>1. \E p \in {"idle", "delete", "poll"} : pc' = [pc EXCEPT ![s] = p]
          BY <3>3
        <5>2. QED
          BY <5>1
      <4>2. said' \in [Servers -> {"none", "ok", "error", "other"}]
        <5>1. said' = said \/ said' = [said EXCEPT ![s] = "ok"]
          BY <3>3
        <5>2. said \in [Servers -> {"none", "ok", "error", "other"}]
          OBVIOUS
        <5>3. QED
          BY ONLY <5>1, <5>2
      <4>3. seen' \in [Servers -> RevStates \cup {"none"}]
        BY <2>2, <3>1
      <4>4. QED
        BY <2>1, <3>2, <4>1, <4>2, <4>3
    <3>5. HasRevision' /\ OwnRevision' /\ AnswerLast' /\ OkMeansApplied'
      BY <2>1, <2>2, <3>1, <3>3
    <3>6. QED
      BY <3>2, <3>4, <3>5
  <2>3. CASE Goto(s, "delete") /\ UNCHANGED <<seen, polls>>
    BY <2>1, <2>3
  <2>4. QED
    <3>1. state[mine[s]] \in RevStates
      BY <2>1
    <3>2. QED
      BY <1>6, <2>2, <2>3, <3>1 DEF Poll
<1>7. ASSUME NEW s \in Servers, Cleanup(s) PROVE NvueInv'
  <2>1. /\ pc[s] = "delete" /\ mine[s] \in RevIds
        /\ pc' = [pc EXCEPT ![s] = "idle"] /\ said' = [said EXCEPT ![s] = "error"]
        /\ UNCHANGED <<config, tree, arg, mine, seen, polls>>
    BY <1>7 DEF Cleanup, DeleteRevision
  <2>2. excused' = excused \/ excused' = excused \cup {mine[s]}
    BY <1>7 DEF Cleanup
  <2>3. \/ state' = state
        \/ state[mine[s]] # "applied" /\ state' = [state EXCEPT ![mine[s]] = "deleted"]
    BY <1>7 DEF Cleanup, DeleteRevision
  <2>4. NvueTypeOK'
    <3>1. state' \in [RevIds -> RevStates]
      <4>1. state \in [RevIds -> RevStates] /\ "deleted" \in RevStates
        OBVIOUS
      <4>2. QED
        BY ONLY <2>3, <4>1
    <3>2. excused' \subseteq RevIds
      <4>1. excused \subseteq RevIds
        OBVIOUS
      <4>2. QED
        BY ONLY <2>1, <2>2, <4>1
    <3>3. pc' \in [Servers -> {"idle"} \cup Requests]
      BY <2>1
    <3>4. said' \in [Servers -> {"none", "ok", "error", "other"}]
      BY <2>1
    <3>5. QED
      BY <2>1, <3>1, <3>2, <3>3, <3>4
  <2>5. PollsLeft' /\ HasRevision' /\ OwnRevision' /\ AnswerLast' /\ OkMeansApplied'
    BY <2>1, <2>3
  <2>6. QED
    BY <2>4, <2>5
<1>8. ASSUME NEW s \in Servers, Crash(s) PROVE NvueInv'
  <2>1. /\ pc[s] # "idle" /\ pc' = [pc EXCEPT ![s] = "idle"]
        /\ UNCHANGED <<config, state, tree, arg, mine, seen, polls, said>>
        /\ excused' = excused \cup ({mine[s]} \ {0})
    BY <1>8 DEF Crash
  <2>2. NvueTypeOK'
    <3>1. excused' \subseteq RevIds
      <4>1. excused \subseteq RevIds /\ mine[s] \in RevIds \cup {0}
        OBVIOUS
      <4>2. QED
        BY ONLY <2>1, <4>1
    <3>2. QED
      BY <2>1, <3>1
  <2>3. PollsLeft' /\ HasRevision' /\ OwnRevision' /\ AnswerLast' /\ OkMeansApplied'
    BY <2>1
  <2>4. QED
    BY <2>2, <2>3
<1>9. ASSUME NEW n \in RevIds, Settle(n) PROVE NvueInv'
  <2>1. /\ state[n] = "applying"
        /\ \E x \in {"applied", "failed"} : state' = [state EXCEPT ![n] = x]
        /\ UNCHANGED <<tree, pc, arg, mine, seen, polls, said, excused>>
    BY <1>9 DEF Settle
  <2>2. state' \in [RevIds -> RevStates]
    BY <2>1
  <2>3. NvueTypeOK'
    BY <2>1, <2>2
  <2>4. PollsLeft' /\ HasRevision' /\ OwnRevision' /\ AnswerLast' /\ OkMeansApplied'
    BY <2>1
  <2>5. QED
    BY <2>3, <2>4
<1>10. QED
  BY <1>1, <1>2, <1>3, <1>4, <1>5, <1>6, <1>7, <1>8, <1>9 DEF NvueNext

\* NvueInv holds throughout.
THEOREM NvueInvariant == NvueSpec => []NvueInv
  BY NvueInvInit, NvueInvStep, PTL DEF NvueSpec

\* The variables keep their types.
THEOREM NvueTypeCorrect == NvueSpec => []NvueTypeOK
<1>1. NvueInv => NvueTypeOK
  BY DEF NvueInv
<1>2. QED
  BY <1>1, NvueInvariant, PTL

\* nvue_apply returns a final state only for a revision that is applied and is
\* its own (client.py:95-141).
THEOREM OkIsApplied == NvueSpec => []OkMeansApplied
<1>1. NvueInv => OkMeansApplied
  BY DEF NvueInv
<1>2. QED
  BY <1>1, NvueInvariant, PTL

\* A call that has read "applied" never ends in an error, a timeout included.
THEOREM NoLateTimeout == NvueSpec => []TimeoutNeverAfterApplied
<1>1. NvueInv => TimeoutNeverAfterApplied
  BY DEF NvueInv, AnswerLast, TimeoutNeverAfterApplied, APPLIED
<1>2. QED
  BY <1>1, NvueInvariant, PTL

\* The cleanup leaves no pending revision, whatever fails, but for those whose
\* POST or DELETE went unanswered or whose server was killed.
THEOREM NothingLeftPending == NvueSpec => []NoRevisionLeft
<1>1. NvueInit => NoRevisionLeft
  BY DEF NvueInit, NoRevisionLeft
<1>2. NvueInv /\ NoRevisionLeft /\ [NvueNext]_nvueVars => NoRevisionLeft'
  <2> SUFFICES ASSUME NvueInv, NoRevisionLeft, [NvueNext]_nvueVars PROVE NoRevisionLeft'
    OBVIOUS
  <2> USE NvueAssumption
      DEF NvueInv, NvueTypeOK, HasRevision, OwnRevision, NoRevisionLeft, RevIds,
          RevStates, Requests, Goto, End, Lost
  <2>1. CASE UNCHANGED nvueVars
    BY <2>1 DEF nvueVars
  <2>2. ASSUME NEW s \in Servers, NEW t \in Trees, Call(s, t) PROVE NoRevisionLeft'
    BY <2>2 DEF Call
  <2>3. ASSUME NEW s \in Servers, Post(s) PROVE NoRevisionLeft'
    <3>1. CASE UNCHANGED <<config, state, tree, mine, excused>> /\ End(s, "error")
      BY <2>3, <3>1 DEF Post
    <3>2. ASSUME NEW n \in RevIds, NewRevision(n), mine' = [mine EXCEPT ![s] = n],
                 Goto(s, "patch"), UNCHANGED excused
          PROVE  NoRevisionLeft'
      <4>1. pc' = [pc EXCEPT ![s] = "patch"] /\ state' = [state EXCEPT ![n] = "pending"]
        BY <3>2 DEF NewRevision
      <4>2. mine[s] = 0
        BY <2>3 DEF Post
      <4>3. QED
        BY <3>2, <4>1, <4>2
    <3>3. ASSUME NEW n \in RevIds, NewRevision(n), UNCHANGED mine, End(s, "error"),
                 excused' = excused \cup {n}
          PROVE  NoRevisionLeft'
      BY <2>3, <3>3 DEF Post, NewRevision
    <3>4. QED
      BY <2>3, <3>1, <3>2, <3>3 DEF Post
  <2>4. ASSUME NEW s \in Servers, Patch(s) PROVE NoRevisionLeft'
    BY <2>4 DEF Patch
  <2>5. ASSUME NEW s \in Servers, Apply(s) PROVE NoRevisionLeft'
    BY <2>5 DEF Apply
  <2>6. ASSUME NEW s \in Servers, Poll(s) PROVE NoRevisionLeft'
    BY <2>6 DEF Poll, Judge, Waiting, APPLIED, FAILED
  <2>7. ASSUME NEW s \in Servers, Cleanup(s) PROVE NoRevisionLeft'
    BY <2>7 DEF Cleanup, DeleteRevision
  <2>8. ASSUME NEW s \in Servers, Crash(s) PROVE NoRevisionLeft'
    BY <2>8 DEF Crash
  <2>9. ASSUME NEW n \in RevIds, Settle(n) PROVE NoRevisionLeft'
    BY <2>9 DEF Settle
  <2>10. QED
    BY <2>1, <2>2, <2>3, <2>4, <2>5, <2>6, <2>7, <2>8, <2>9 DEF NvueNext
<1>3. QED
  BY <1>1, <1>2, NvueInvariant, PTL DEF NvueSpec

-----------------------------------------------------------------------------
(* Why a call returns: what is true of EveryCallReturns without fairness.     *)

\* The most requests a call of server s may still send.
Remaining(s) ==
  CASE pc[s] = "idle"   -> 0
    [] pc[s] = "post"   -> MaxPolls + 4
    [] pc[s] = "patch"  -> MaxPolls + 3
    [] pc[s] = "apply"  -> MaxPolls + 2
    [] pc[s] = "poll"   -> MaxPolls - polls[s] + 1
    [] pc[s] = "delete" -> 1

\* A call is over exactly when none is left, and no call sends more than MaxPolls + 4.
RemainingBound ==
  \A s \in Servers : Remaining(s) \in 0..(MaxPolls + 4) /\ (Remaining(s) = 0 <=> pc[s] = "idle")

\* Each request of a call, whatever becomes of it, leaves fewer; and nothing that NVUE
\* or another server does gives it more.
EndGetsNearer ==
  [][\A s \in Servers : pc[s] # "idle" =>
       /\ Remaining(s)' <= Remaining(s)
       /\ ServerStep(s) => Remaining(s)' < Remaining(s)]_nvueVars

\* The measure is a number within its bound in every state the invariant admits.
LEMMA RemainingIsBounded == ASSUME NvueInv, MayExpire PROVE RemainingBound
<1> USE NvueAssumption
<1> SUFFICES ASSUME NEW s \in Servers
             PROVE  Remaining(s) \in 0..(MaxPolls + 4) /\ (Remaining(s) = 0 <=> pc[s] = "idle")
  BY DEF RemainingBound
<1>1. pc[s] \in {"idle", "post", "patch", "apply", "poll", "delete"} /\ polls[s] \in 0..MaxPolls
  BY DEF NvueInv, NvueTypeOK, Requests
<1>2. pc[s] = "poll" => polls[s] < MaxPolls
  BY DEF NvueInv, PollsLeft
<1>3. QED
  BY <1>1, <1>2 DEF Remaining

\* A request brings the end of its call nearer.
LEMMA RequestCounts ==
  ASSUME NvueInv, MayExpire, NEW s \in Servers, ServerStep(s) PROVE Remaining(s)' < Remaining(s)
<1> USE NvueAssumption DEF Goto, End
<1>1. pc \in [Servers -> {"idle"} \cup Requests] /\ polls \in [Servers -> 0..MaxPolls]
  BY DEF NvueInv, NvueTypeOK
<1>2. CASE Post(s)
  <2>1. pc[s] = "post" /\ pc'[s] \in {"patch", "idle"}
    BY <1>1, <1>2 DEF Post
  <2>2. QED
    BY <2>1 DEF Remaining
<1>3. CASE Patch(s)
  <2>1. pc[s] = "patch" /\ pc'[s] \in {"apply", "delete"}
    BY <1>1, <1>3 DEF Patch
  <2>2. QED
    BY <2>1 DEF Remaining
<1>4. CASE Apply(s)
  <2>1. pc[s] = "apply" /\ pc'[s] \in {"poll", "delete"} /\ polls'[s] = 0
    BY <1>1, <1>4 DEF Apply, NvueInv, PollsLeft
  <2>2. QED
    BY <2>1 DEF Remaining
<1>5. CASE Poll(s)
  <2>1. pc[s] = "poll" /\ polls[s] \in 0..MaxPolls /\ polls[s] < MaxPolls
    BY <1>1, <1>5 DEF Poll, NvueInv, PollsLeft
  <2>2. \/ pc'[s] \in {"idle", "delete"}
        \/ pc'[s] = "poll" /\ polls'[s] = polls[s] + 1
    BY <1>1, <1>5 DEF Poll, Judge
  <2>3. QED
    BY <2>1, <2>2 DEF Remaining
<1>6. CASE Cleanup(s)
  <2>1. pc[s] = "delete" /\ pc'[s] = "idle"
    BY <1>1, <1>6 DEF Cleanup
  <2>2. QED
    BY <2>1 DEF Remaining
<1>7. QED
  BY <1>2, <1>3, <1>4, <1>5, <1>6 DEF ServerStep

\* Nothing else gives a call at work another request.
LEMMA OthersDoNotDelay ==
  ASSUME NvueInv, MayExpire, [NvueNext]_nvueVars, NEW s \in Servers, pc[s] # "idle", ~ServerStep(s)
  PROVE  (pc'[s] = "idle" \/ pc'[s] = pc[s]) /\ polls'[s] = polls[s]
<1> USE DEF Goto, End
<1>1. pc \in [Servers -> {"idle"} \cup Requests] /\ polls \in [Servers -> 0..MaxPolls]
  BY DEF NvueInv, NvueTypeOK
<1>2. CASE UNCHANGED nvueVars
  BY <1>2 DEF nvueVars
<1>3. ASSUME NEW t \in Servers, NEW c \in Trees, Call(t, c)
      PROVE  pc'[s] = pc[s] /\ polls'[s] = polls[s]
  BY <1>1, <1>3 DEF Call
<1>4. ASSUME NEW t \in Servers, ServerStep(t)
      PROVE  pc'[s] = pc[s] /\ polls'[s] = polls[s]
  BY <1>1, <1>4 DEF ServerStep, Post, Patch, Apply, Poll, Judge, Cleanup
<1>5. ASSUME NEW t \in Servers, Crash(t)
      PROVE  (pc'[s] = "idle" \/ pc'[s] = pc[s]) /\ polls'[s] = polls[s]
  BY <1>1, <1>5 DEF Crash
<1>6. ASSUME NEW n \in RevIds, Settle(n) PROVE pc'[s] = pc[s] /\ polls'[s] = polls[s]
  BY <1>6 DEF Settle
<1>7. QED
  BY <1>2, <1>3, <1>4, <1>5, <1>6 DEF NvueNext, ServerStep

\* With a deadline, a call of nvue_apply is over after at most MaxPolls + 4 of its
\* requests, whatever they answer and whatever NVUE and the other servers do (client.py:95-141).
THEOREM CallsRunDown ==
  ASSUME MayExpire PROVE NvueSpec => []RemainingBound /\ EndGetsNearer
<1>1. NvueInv => RemainingBound
  BY RemainingIsBounded
<1>2. NvueInv /\ [NvueNext]_nvueVars => RemainingBound'
  BY <1>1, NvueInvStep, PTL
<1>3. NvueInv /\ [NvueNext]_nvueVars =>
        [\A s \in Servers : pc[s] # "idle" =>
           /\ Remaining(s)' <= Remaining(s)
           /\ ServerStep(s) => Remaining(s)' < Remaining(s)]_nvueVars
  <2> SUFFICES ASSUME NvueInv, [NvueNext]_nvueVars, NEW s \in Servers, pc[s] # "idle"
               PROVE  /\ Remaining(s)' <= Remaining(s)
                      /\ ServerStep(s) => Remaining(s)' < Remaining(s)
    OBVIOUS
  <2>1. Remaining(s) \in 0..(MaxPolls + 4) /\ Remaining(s)' \in 0..(MaxPolls + 4)
    BY <1>1, <1>2 DEF RemainingBound
  <2>2. CASE ServerStep(s)
    BY <2>1, <2>2, RequestCounts, NvueAssumption
  <2>3. CASE ~ServerStep(s)
    <3>1. (pc'[s] = "idle" \/ pc'[s] = pc[s]) /\ polls'[s] = polls[s]
      BY <2>3, OthersDoNotDelay
    <3>2. Remaining(s)' = 0 \/ Remaining(s)' = Remaining(s)
      BY <3>1 DEF Remaining
    <3>3. QED
      BY <2>1, <2>3, <3>2, NvueAssumption
  <2>4. QED
    BY <2>2, <2>3
<1>4. QED
  BY <1>1, <1>3, NvueInvariant, PTL DEF NvueSpec, EndGetsNearer

=============================================================================
