------------------------------ MODULE LateWrite ------------------------------
(***************************************************************************)
(* What is left of the promise of AtomicWrite on a device that answers       *)
(* before it has written, when answers get lost, deadlines pass and server   *)
(* processes are killed (Cumulus, src/netmcp/nos/cumulus/client.py): a call   *)
(* still changes the configuration at most once, but the device may do it      *)
(* after the call is over, and then only for one that ended with "Error" or     *)
(* without an answer.  "OK" and the refusals keep their meaning.                *)
(***************************************************************************)
CONSTANTS Servers,       \* the netmcp server processes; each runs one call at a time
          Tickets,       \* what the device knows a transaction by
          Change(_, _)   \* Change(c, d): one tool call may turn configuration c into d

VARIABLES config,        \* the running configuration of the device
          call,          \* per server: "idle", "open" or "written"
          late,          \* the transactions the device still has of calls that are over
          said           \* per server: what its last finished call answered

absVars == <<config, call, late, said>>

\* The caller's request reaches a server; nothing has been answered yet.
Open(s) ==
  /\ call[s] = "idle"
  /\ call' = [call EXCEPT ![s] = "open"]
  /\ said' = [said EXCEPT ![s] = "none"]
  /\ UNCHANGED <<config, late>>

\* A request that is refused before the device is asked anything.
Refuse(s) ==
  /\ call[s] = "idle"
  /\ said' = [said EXCEPT ![s] = "other"]
  /\ UNCHANGED <<config, call, late>>

\* The device takes the whole transaction of a call at work.
Write(s) ==
  /\ call[s] = "open"
  /\ call' = [call EXCEPT ![s] = "written"]
  /\ Change(config, config')
  /\ UNCHANGED <<late, said>>

\* "OK" is said only after the write; the other answers that are not an error (not
\* found, refused by a pre-check, dry run) only when there was none, nor will be.
Return(s) ==
  /\ \/ call[s] = "written" /\ said' = [said EXCEPT ![s] = "ok"]
     \/ call[s] = "open" /\ said' = [said EXCEPT ![s] = "other"]
  /\ call' = [call EXCEPT ![s] = "idle"]
  /\ UNCHANGED <<config, late>>

\* The call ends with an error, or with its process: written or not, or not yet.
GiveUp(s) ==
  /\ call[s] # "idle"
  /\ call' = [call EXCEPT ![s] = "idle"]
  /\ \E a \in {"error", "none"} : said' = [said EXCEPT ![s] = a]
  /\ \/ late' = late
     \/ call[s] = "open" /\ \E n \in Tickets \ late : late' = late \cup {n}
  /\ UNCHANGED config

\* The device carries out a transaction whose call is over, or drops it.
Settle(n) ==
  /\ n \in late
  /\ late' = late \ {n}
  /\ Change(config, config') \/ UNCHANGED config
  /\ UNCHANGED <<call, said>>

LateInit ==
  /\ call = [s \in Servers |-> "idle"]
  /\ late = {}
  /\ said = [s \in Servers |-> "none"]

LateNext ==
  \/ \E s \in Servers : Open(s) \/ Refuse(s) \/ Write(s) \/ Return(s) \/ GiveUp(s)
  \/ \E n \in Tickets : Settle(n)

LateSpec == LateInit /\ [][LateNext]_absVars
=============================================================================
