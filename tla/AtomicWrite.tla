----------------------------- MODULE AtomicWrite -----------------------------
(***************************************************************************)
(* What a provision or delete tool promises its caller on the backends that *)
(* send one transaction (EOS, Junos, NX-OS, Cumulus; ARCHITECTURE.md:275):  *)
(* the device configuration changes at most once per call, the answer "OK"  *)
(* means it changed, and the answer "Error: ...; no changes were applied"   *)
(* means that it did not.  The detailed modules are checked against it with *)
(* a refinement mapping.                                                    *)
(***************************************************************************)
CONSTANTS Servers,       \* the netmcp server processes; each runs one call at a time
          Change(_, _)   \* Change(c, d): one tool call may turn configuration c into d

VARIABLES config,        \* the running configuration of the device
          call,          \* per server: "idle", "open" or "written"
          said           \* per server: what its last finished call answered

absVars == <<config, call, said>>

Answers == {"none", "ok", "error", "other"}

\* The caller's request reaches a server; nothing has been answered yet.
Open(s) ==
  /\ call[s] = "idle"
  /\ call' = [call EXCEPT ![s] = "open"]
  /\ said' = [said EXCEPT ![s] = "none"]
  /\ UNCHANGED config

\* A request that is refused before the device is asked anything.
Refuse(s) ==
  /\ call[s] = "idle"
  /\ said' = [said EXCEPT ![s] = "other"]
  /\ UNCHANGED <<config, call>>

\* The device takes the whole transaction.
Write(s) ==
  /\ call[s] = "open"
  /\ call' = [call EXCEPT ![s] = "written"]
  /\ Change(config, config')
  /\ UNCHANGED said

\* "OK" is said only after the write, "error" and the other answers (not
\* found, refused by a pre-check, dry run) only when there was none.
Return(s) ==
  /\ \/ call[s] = "written" /\ said' = [said EXCEPT ![s] = "ok"]
     \/ call[s] = "open" /\ \E a \in {"error", "other"} : said' = [said EXCEPT ![s] = a]
  /\ call' = [call EXCEPT ![s] = "idle"]
  /\ UNCHANGED config

\* The server process dies: its caller is told nothing about the outcome.
Die(s) ==
  /\ call[s] # "idle"
  /\ call' = [call EXCEPT ![s] = "idle"]
  /\ UNCHANGED <<config, said>>

AtomicInit ==
  /\ call = [s \in Servers |-> "idle"]
  /\ said = [s \in Servers |-> "none"]

AtomicNext == \E s \in Servers : Open(s) \/ Refuse(s) \/ Write(s) \/ Return(s) \/ Die(s)

AtomicSpec == AtomicInit /\ [][AtomicNext]_absVars
=============================================================================
