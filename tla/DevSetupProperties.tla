-------------------------- MODULE DevSetupProperties --------------------------
(* What dev-setup promises.                                                *)
EXTENDS DevSetup

(* A run that succeeded left a machine on which a new session finds        *)
(* sccache and a usable node and the docker engine is installed, whatever  *)
(* was there before: the profile lines of one tool survive the next tool's *)
(* (profile.rs), and a declined or failed required tool fails the run      *)
(* (is_blocking_failure).                                                  *)
SuccessIsUsable ==
  exit = "success" /\ ~flags.check /\ host.writable =>
    /\ {"sccache", "node"} \subseteq PathOf(disk, profile)
    /\ "docker" \in disk

(* A run with --check changes nothing on the machine but the .env files.   *)
CheckOnlyWritesEnv ==
  [][flags.check /\ stage # "idle" =>
       /\ disk' \ {".env", "mobile .env"} = disk \ {".env", "mobile .env"}
       /\ UNCHANGED <<path, profile, group, login, migrated>>]_vars

(* A run without a terminal always ends: no prompt waits for an answer     *)
(* (PromptPolicy: "so agents/CI never hang"), and a service that never     *)
(* becomes healthy is given up (wait_for_healthy).                         *)
UnattendedRunEnds == (stage # "idle" /\ ~flags.tty) ~> stage = "idle"
=============================================================================
