------------------------------ MODULE NvueApply ------------------------------
(***************************************************************************)
(* nvue_apply (src/netmcp/nos/cumulus/client.py), the only function that    *)
(* writes to a Cumulus switch: create a revision, PATCH the change into it,  *)
(* apply it, poll until it settles, delete it on any failure.  Every HTTP    *)
(* request is one action of the server that sends it; NVUE settles a         *)
(* revision that is being applied in a step of its own, whenever it likes.   *)
(*                                                                         *)
(* NVUE itself is external: its revision states and what DELETE does to them *)
(* are those the code tests for and docs/prd-cumulus-evpn.md 5.4 measured.   *)
(***************************************************************************)
EXTENDS Naturals

CONSTANTS Servers,      \* server processes; each runs one nvue_apply at a time
          Trees,        \* the changes a caller may ask for
          InitConfigs,  \* the running configurations the switch may have at the start
          Merge(_, _),  \* Merge(c, t): NVUE's configuration c after change t
          MaxRevs,      \* bound: revisions the switch ever hands out
          MaxPolls,     \* bound: polls that fit before the deadline
          Faults,       \* requests whose answer may get lost or be refused late
          MayExpire,    \* the deadline may pass while NVUE is still applying
          Crashes       \* a server process may be killed inside a call

Requests == {"post", "patch", "apply", "poll", "delete"}

ASSUME NvueAssumption ==
  /\ MaxRevs \in Nat
  /\ MaxPolls \in Nat \ {0}
  /\ Faults \subseteq Requests
  /\ MayExpire \in BOOLEAN
  /\ Crashes \in BOOLEAN

VARIABLES config,  \* NVUE: the running configuration (rev=applied)
          state,   \* NVUE: the state of each revision
          tree,    \* NVUE: the change staged in each revision ({} or one change)
          pc,      \* per server: the request it sends next, "idle" between calls
          arg,     \* per server: the change its call applies ({} or one change)
          mine,    \* per server: rev_id of its call, 0 before there is one
          seen,    \* per server: the revision state the last poll returned
          polls,   \* per server: polls made by the call
          said,    \* per server: what its last call returned
          excused  \* history: revisions whose POST or DELETE went unanswered, or whose server was killed

nvueVars == <<config, state, tree, pc, arg, mine, seen, polls, said, excused>>

RevIds == 1..MaxRevs
RevStates == {"free", "pending", "applying", "applied", "failed", "deleted"}
\* A wrong APPLIED: a revision that is still being applied counts too.
APPLIEDorApplying == {"applied", "applying"}

APPLIED == {"applied"}   \* _APPLIED: applied, applied_and_saved
FAILED == {"failed"}     \* _FAILED: invalid, ays_fail, apply_fail

NvueTypeOK ==
  /\ state \in [RevIds -> RevStates]
  /\ tree \in [RevIds -> SUBSET Trees]
  /\ pc \in [Servers -> {"idle"} \cup Requests]
  /\ arg \in [Servers -> SUBSET Trees]
  /\ mine \in [Servers -> RevIds \cup {0}]
  /\ seen \in [Servers -> RevStates \cup {"none"}]
  /\ polls \in [Servers -> 0..MaxPolls]
  /\ said \in [Servers -> {"none", "ok", "error", "other"}]
  /\ excused \subseteq RevIds

NvueInit ==
  /\ config \in InitConfigs
  /\ state = [n \in RevIds |-> "free"]
  /\ tree = [n \in RevIds |-> {}]
  /\ pc = [s \in Servers |-> "idle"]
  /\ arg = [s \in Servers |-> {}]
  /\ mine = [s \in Servers |-> 0]
  /\ seen = [s \in Servers |-> "none"]
  /\ polls = [s \in Servers |-> 0]
  /\ said = [s \in Servers |-> "none"]
  /\ excused = {}

-----------------------------------------------------------------------------
(* The server moves on to request `r` of its call, or ends the call.         *)

Goto(s, r) ==
  /\ pc' = [pc EXCEPT ![s] = r]
  /\ UNCHANGED <<arg, said>>

End(s, answer) ==
  /\ pc' = [pc EXCEPT ![s] = "idle"]
  /\ said' = [said EXCEPT ![s] = answer]
  /\ UNCHANGED arg

\* A request reached NVUE but its answer did not reach the server, or the
\* other way round: the server cannot tell whether it took effect.
Lost(r) == r \in Faults

\* A caller asks for change t.
Call(s, t) ==
  /\ pc[s] = "idle"
  /\ \E n \in RevIds : state[n] = "free"   \* bound: a revision is left for it
  /\ pc' = [pc EXCEPT ![s] = "post"]
  /\ arg' = [arg EXCEPT ![s] = {t}]
  /\ mine' = [mine EXCEPT ![s] = 0]
  /\ seen' = [seen EXCEPT ![s] = "none"]
  /\ polls' = [polls EXCEPT ![s] = 0]
  /\ said' = [said EXCEPT ![s] = "none"]
  /\ UNCHANGED <<config, state, tree, excused>>

\* The switch hands out the next revision number.
NewRevision(n) ==
  /\ state[n] = "free"
  /\ \A m \in RevIds : m < n => state[m] # "free"
  /\ state' = [state EXCEPT ![n] = "pending"]
  /\ UNCHANGED <<config, tree>>

\* POST revision.  A failure here is before the inner try: nothing is cleaned up.
Post(s) ==
  /\ pc[s] = "post"
  /\ \/ \E n \in RevIds :
          /\ NewRevision(n)
          /\ mine' = [mine EXCEPT ![s] = n]
          /\ Goto(s, "patch")
          /\ UNCHANGED excused
     \/ /\ UNCHANGED <<config, state, tree, mine, excused>>
        /\ End(s, "error")
     \/ /\ Lost("post")
        /\ \E n \in RevIds : NewRevision(n) /\ excused' = excused \cup {n}
        /\ UNCHANGED mine
        /\ End(s, "error")
  /\ UNCHANGED <<seen, polls>>

\* A wrong Patch: outside the try, so its failure cleans nothing up.
PatchOutsideTry(s) ==
  /\ pc[s] = "patch"
  /\ \/ tree' = [tree EXCEPT ![mine[s]] = arg[s]] /\ Goto(s, "apply")
     \/ UNCHANGED tree /\ End(s, "error")
  /\ UNCHANGED <<config, state, mine, seen, polls, excused>>

\* PATCH /?rev=<id> stages the tree; any failure goes to the cleanup.
Patch(s) ==
  /\ pc[s] = "patch"
  /\ \/ /\ tree' = [tree EXCEPT ![mine[s]] = arg[s]]
        /\ Goto(s, "apply")
     \/ /\ UNCHANGED tree
        /\ Goto(s, "delete")
     \/ /\ Lost("patch")
        /\ tree' = [tree EXCEPT ![mine[s]] = arg[s]]
        /\ Goto(s, "delete")
  /\ UNCHANGED <<config, state, mine, seen, polls, excused>>

\* PATCH revision/<id> with state "apply".
Apply(s) ==
  /\ pc[s] = "apply"
  /\ \/ /\ state' = [state EXCEPT ![mine[s]] = "applying"]
        /\ Goto(s, "poll")
     \/ /\ UNCHANGED state
        /\ Goto(s, "delete")
     \/ /\ Lost("apply")
        /\ state' = [state EXCEPT ![mine[s]] = "applying"]
        /\ Goto(s, "delete")
  /\ UNCHANGED <<config, tree, mine, seen, polls, excused>>

\* A wrong Waiting: one poll after the deadline.
WaitingTooLong(s) == MayExpire => polls[s] + 1 <= MaxPolls

\* The deadline is looked at after each poll that found nothing settled.  It
\* may have passed at any poll, and has passed when no more polls fit.
Waiting(s) == MayExpire => polls[s] + 1 < MaxPolls

\* Wrong forms of Judge: the time is looked at before the state; every answer
\* without a settled state starts the time anew.
JudgeTimeFirst(s, answer) ==
  /\ seen' = [seen EXCEPT ![s] = answer]
  /\ \/ answer \in APPLIED /\ Waiting(s) /\ End(s, "ok")
     \/ answer \notin APPLIED /\ Waiting(s) /\ Goto(s, "poll")
     \/ MayExpire /\ Goto(s, "delete")
  /\ polls' = [polls EXCEPT ![s] = IF Waiting(s) THEN @ + 1 ELSE @]
JudgeRearmed(s, answer) ==
  /\ seen' = [seen EXCEPT ![s] = answer]
  /\ \/ answer \in APPLIED /\ End(s, "ok")
     \/ answer \in FAILED /\ Goto(s, "delete")
     \/ answer \notin APPLIED \cup FAILED /\ Goto(s, "poll")
  /\ polls' = [polls EXCEPT ![s] = 0]

\* One round of the loop: the answer is a revision state, or a status other
\* than 200 which counts as no state, and the state is judged before the time.
Judge(s, answer) ==
  /\ seen' = [seen EXCEPT ![s] = answer]
  /\ \/ /\ answer \in APPLIED
        /\ End(s, "ok")
        /\ UNCHANGED polls
     \/ /\ answer \in FAILED
        /\ Goto(s, "delete")
        /\ UNCHANGED polls
     \/ /\ answer \notin APPLIED \cup FAILED
        /\ \/ MayExpire /\ Goto(s, "delete")
           \/ Waiting(s) /\ Goto(s, "poll")
        /\ polls' = [polls EXCEPT ![s] = IF MayExpire THEN @ + 1 ELSE @]

\* GET revision/<id>, each POLL_INTERVAL.
Poll(s) ==
  /\ pc[s] = "poll"
  /\ \/ Judge(s, state[mine[s]])
     \/ Lost("poll") /\ Judge(s, "none")
     \/ Lost("poll") /\ Goto(s, "delete") /\ UNCHANGED <<seen, polls>>
  /\ UNCHANGED <<config, state, tree, mine, excused>>

\* What NVUE may do to revision n when told to delete it: one that is not
\* running is removed; one that is being applied is removed or carries on;
\* an applied one keeps its configuration.
DeleteRevision(n) ==
  /\ \/ state[n] \in {"pending", "failed", "applying"} /\ state' = [state EXCEPT ![n] = "deleted"]
     \/ state[n] \in {"applying", "applied", "deleted"} /\ UNCHANGED state
  /\ UNCHANGED <<config, tree>>

\* `except BaseException`: DELETE the revision, ignore how that went, re-raise.
Cleanup(s) ==
  /\ pc[s] = "delete"
  /\ \/ DeleteRevision(mine[s]) /\ UNCHANGED excused
     \/ /\ Lost("delete")
        /\ excused' = excused \cup {mine[s]}
        /\ UNCHANGED <<config, state, tree>>
  /\ End(s, "error")
  /\ UNCHANGED <<mine, seen, polls>>

\* The process is killed (no handler runs): the caller gets no answer.
Crash(s) ==
  /\ Crashes
  /\ pc[s] # "idle"
  /\ pc' = [pc EXCEPT ![s] = "idle"]
  /\ excused' = excused \cup ({mine[s]} \ {0})
  /\ UNCHANGED <<config, state, tree, arg, mine, seen, polls, said>>

\* NVUE finishes applying revision n: all of it, or nothing.
Settle(n) ==
  /\ state[n] = "applying"
  /\ \/ /\ state' = [state EXCEPT ![n] = "applied"]
        /\ \E t \in tree[n] : config' = Merge(config, t)
     \/ /\ state' = [state EXCEPT ![n] = "failed"]
        /\ UNCHANGED config
  /\ UNCHANGED <<tree, pc, arg, mine, seen, polls, said, excused>>

ServerStep(s) == Post(s) \/ Patch(s) \/ Apply(s) \/ Poll(s) \/ Cleanup(s)

NvueNext ==
  \/ \E s \in Servers :
       \/ \E t \in Trees : Call(s, t)
       \/ Post(s) \/ Patch(s) \/ Apply(s) \/ Poll(s) \/ Cleanup(s)
       \/ Crash(s)
  \/ \E n \in RevIds : Settle(n)

NvueSpec == NvueInit /\ [][NvueNext]_nvueVars

\* The code runs straight through its requests (each has a 10 s time limit);
\* nothing is assumed of NVUE or of the callers.
NvueFairSpec == NvueSpec /\ \A s \in Servers : WF_nvueVars(ServerStep(s))

-----------------------------------------------------------------------------
(* Properties.                                                             *)

\* nvue_apply returns a final state only if the revision of that very call is
\* applied: an OK answer is never about a revision that failed, was given up
\* on, or belongs to another call (the return in the poll loop).
OkMeansApplied ==
  \A s \in Servers : said[s] = "ok" => mine[s] # 0 /\ state[mine[s]] = "applied"

\* The last poll decides before the clock does: a call that has read
\* "applied" never ends as a timeout (the order of the tests in the loop).
TimeoutNeverAfterApplied ==
  \A s \in Servers : said[s] = "error" => seen[s] \notin APPLIED

\* "Leave no pending revision behind": whichever request of a call failed, a
\* revision that is still pending belongs to a call at work, unless the code could
\* not know of it or could not remove it (the `except BaseException` branch).
NoRevisionLeft ==
  \A n \in RevIds \ excused : state[n] = "pending" =>
    \E s \in Servers : pc[s] # "idle" /\ mine[s] = n

\* The deadline bounds the call: it returns even if NVUE never settles.
EveryCallReturns == \A s \in Servers : pc[s] # "idle" ~> pc[s] = "idle"

\* "no changes were applied": a call that answered Error has not changed the
\* configuration and no revision of it is still on its way to do so.
ErrorMeansUnchanged ==
  \A s \in Servers : said[s] = "error" /\ pc[s] = "idle" /\ mine[s] # 0 =>
    state[mine[s]] \notin {"applying", "applied"}
=============================================================================
