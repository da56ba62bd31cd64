------------------------------ MODULE DevSetup ------------------------------
(***************************************************************************)
(* packages/dev-setup: the installer of the local toolchain.  One run      *)
(* detects the platform, writes the .env files, ensures each tool in the   *)
(* order of main.rs and, on request, brings up the compose stack.  Runs    *)
(* follow each other on one host, may be killed, and share what earlier    *)
(* runs left: the disk, the shell profile and the docker group.            *)
(*                                                                         *)
(* A program is a name; path is what the PATH of the current session       *)
(* reaches.  One action is one detection, one prompt, one installation or  *)
(* one call of the start sequence.                                         *)
(***************************************************************************)
EXTENDS Naturals, Sequences

CONSTANTS
  Hosts,       \* records: os, ids (of /etc/os-release), disk, node, writable
  FlagSets,    \* records: check, yes, tty, start, no_start, skip_mobile
  MaxRuns,     \* runs of dev-setup
  MaxAttempts  \* HEALTH_MAX_ATTEMPTS

VARIABLES
  host,      \* the machine
  disk,      \* what is installed on it
  path,      \* the programs this session finds
  profile,   \* whose lines the block in the shell profile holds
  daemon,    \* whether the docker daemon runs
  group,     \* whether the user is in the docker group
  login,     \* whether the session was opened with that group
  healthy,   \* the compose services that report healthy
  migrated,  \* whether api:migrate has run
  flags,     \* of the current run, or of the last one
  stage,     \* where the run is
  phase,     \* detect, prompt or install
  failed,    \* main's "failed" or "start_failed"
  ready,     \* tools among Tracked that are Present or Installed
  attempts,  \* health polls of the current service
  exit,      \* how the last run ended
  runs

hostVars == <<disk, path, profile, daemon, group, login, healthy, migrated>>
vars == <<host, hostVars, flags, stage, phase, failed, ready, attempts, exit, runs>>
----------------------------------------------------------------------------
Services == <<"postgres", "nats", "seaweedfs">>
Required == {"rust", "sccache", "node", "moon", "docker"}
Tracked  == {"moon", "docker", "android-sdk"}
SdkParts == {"platform-tools", "platform", "build-tools", "ndk", "cmake"}

Programs == {"rust", "sccache", "fnm", "node", "oldnode", "moon", "java", "unzip", "sg",
             "brew", "pod", "docker"}
Things   == Programs \cup SdkParts \cup
            {".env", "mobile .env", "deps", "studio", "native", "xcode"}

(* What a host starts with, its own node apart, which is h.node: a session *)
(* is not opened on a node that only fnm's lines would find.               *)
ASSUME DevSetupAssumption ==
  /\ \A h \in Hosts : /\ h.os \in {"linux", "macos", "other"} /\ h.writable \in BOOLEAN
                      /\ h.disk \subseteq Things \ {"node", "oldnode"}
  /\ FlagSets # {}
  /\ \A f \in FlagSets : /\ f.check \in BOOLEAN /\ f.yes \in BOOLEAN
                         /\ f.tty \in BOOLEAN /\ f.start \in BOOLEAN
                         /\ f.no_start \in BOOLEAN /\ f.skip_mobile \in BOOLEAN
  /\ MaxRuns \in Nat
  /\ MaxAttempts \in Nat \ {0}

(* The stages of main, in its order.                                       *)
Stages == <<"platform", "env", "rust", "sccache", "node", "moon", "docker", "mobile-deps",
            "jdk", "android-sdk", "android-studio", "native", "xcode", "cocoapods",
            "start", "probe", "up", "postgres", "nats", "seaweedfs", "migrate", "end">>

Index(s) == CHOOSE i \in DOMAIN Stages : Stages[i] = s

(* What follows a tool: --skip-mobile leaves out both mobile sections, and *)
(* ensure_ios does nothing on Linux.                                       *)
After(s) ==
  IF s = "mobile-deps" /\ flags.skip_mobile THEN "start"
  ELSE IF s = "native" /\ host.os # "macos" THEN "start"
  ELSE Stages[Index(s) + 1]

(* parse_distro_family, and Platform::detect as a whole.                   *)
Family(ids) ==
  IF ids \cap {"debian", "ubuntu"} # {} THEN "apt"
  ELSE IF ids \cap {"rhel", "fedora", "centos", "rocky", "alma"} # {} THEN "dnf"
  ELSE IF "arch" \in ids THEN "pacman"
  ELSE "unsupported"

Supported(h) == h.os = "macos" \/ (h.os = "linux" /\ Family(h.ids) # "unsupported")

(* node_version_ok: the engines range of React Native.                     *)
NodeVersionOk(major, minor, patch) ==
  \/ major = 20 /\ (minor > 19 \/ (minor = 19 /\ patch >= 4))
  \/ major = 22 /\ minor >= 13
  \/ major = 24 /\ minor >= 3
  \/ major >= 25

SystemNode(h) ==
  IF h.node = <<>> THEN {}
  ELSE IF NodeVersionOk(h.node[1], h.node[2], h.node[3]) THEN {"node"} ELSE {"oldnode"}

(* What a new session finds: system directories, rustup's own profile      *)
(* lines, and the lines of the dev-setup block.                            *)
PathOf(d, p) ==
  SystemNode(host)
    \cup (d \cap {"rust", "sccache", "java", "unzip", "sg", "brew", "pod", "docker"})
    \cup (IF "fnm" \in p \/ host.os = "macos" THEN d \cap {"fnm"} ELSE {})
    \cup (IF "fnm" \in p THEN d \cap {"node"} ELSE {})
    \cup (IF "moon" \in p THEN d \cap {"moon"} ELSE {})
----------------------------------------------------------------------------
TypeOK ==
  /\ host \in Hosts
  /\ disk \subseteq Things /\ path \subseteq Programs
  /\ profile \subseteq {"fnm", "moon", "android"}
  /\ {daemon, group, login, migrated, failed} \subseteq BOOLEAN
  /\ healthy \subseteq {"postgres", "nats", "seaweedfs"}
  /\ flags \in FlagSets
  /\ stage \in {"idle"} \cup {Stages[i] : i \in DOMAIN Stages}
  /\ phase \in {"detect", "prompt", "install"}
  /\ ready \subseteq Tracked
  /\ attempts \in 0..(MaxAttempts - 1)
  /\ exit \in {"none", "success", "failure", "killed"}
  /\ runs \in 0..MaxRuns

Init ==
  /\ host \in Hosts
  /\ disk = host.disk \cup SystemNode(host)
  /\ path = (host.disk \cap Programs) \cup SystemNode(host)
  /\ profile = {}
  /\ daemon = ("docker" \in disk) /\ group = FALSE /\ login = FALSE
  /\ healthy = {} /\ migrated = FALSE
  /\ flags = CHOOSE f \in FlagSets : TRUE
  /\ stage = "idle" /\ phase = "detect"
  /\ failed = FALSE /\ ready = {} /\ attempts = 0
  /\ exit = "none" /\ runs = 0
----------------------------------------------------------------------------
(* What every tool does with its detection, its prompt and its outcome.    *)

At(t, ph) == stage = t /\ phase = ph

dockerVars == <<daemon, group, login, healthy, migrated>>
runConstants == <<host, flags, exit, runs>>

IsBlockingFailure(t, outcome) ==
  \/ outcome = "Failed"
  \/ t \in Required /\ outcome \in {"Absent", "Guided", "Skipped"}

Reports(t, outcome) ==
  /\ failed' = (failed \/ IsBlockingFailure(t, outcome))
  /\ ready' = IF t \in Tracked /\ outcome \in {"Present", "Installed"}
              THEN ready \cup {t} ELSE ready
  /\ stage' = After(t)
  /\ phase' = "detect"
  /\ UNCHANGED <<runConstants, attempts>>

Goes(ph) == phase' = ph /\ UNCHANGED <<runConstants, stage, failed, ready, attempts>>

(* Mutant: a check goes on to the prompt.                                  *)
DetectIgnoresCheck(t, present) ==
  /\ At(t, "detect")
  /\ \/ present /\ Reports(t, "Present")
     \/ ~present /\ Goes("prompt")
  /\ UNCHANGED hostVars

Detect(t, present) ==
  /\ At(t, "detect")
  /\ \/ present /\ Reports(t, "Present")
     \/ ~present /\ flags.check /\ Reports(t, "Absent")
     \/ ~present /\ ~flags.check /\ Goes("prompt")
  /\ UNCHANGED hostVars

(* PromptPolicy: a stdin that is no terminal counts as --yes, which        *)
(* accepts the required tools and declines the optional ones.              *)
PolicyYes == flags.yes \/ ~flags.tty

Confirm(t, optional) ==
  /\ At(t, "prompt") /\ PolicyYes
  /\ IF optional THEN Reports(t, "Skipped") ELSE Goes("install")
  /\ UNCHANGED hostVars

(* The user answers, or ends the input, at a terminal.                     *)
Answer(t) ==
  /\ At(t, "prompt") /\ ~PolicyYes
  /\ Reports(t, "Skipped") \/ Goes("install")
  /\ UNCHANGED hostVars

Gain(d, c) == disk' = disk \cup d /\ path' = path \cup c /\ UNCHANGED dockerVars
Nothing == Gain({}, {})

(* Mutant: the last tool that writes the block wins.                       *)
LastWriterWins(lines, incoming) == incoming

(* ensure_profile_block merges the lines of a tool into the block; callers *)
(* ignore a file that cannot be written.                                   *)
MergeLines(lines, incoming) == lines \cup incoming

EnsureProfileBlock(t) ==
  profile' = IF host.writable THEN MergeLines(profile, {t}) ELSE profile

(* install_packages: Homebrew has to be there on macOS.                    *)
PackagesInstallable == host.os = "linux" \/ "brew" \in path

InstallPackages(t, d) ==
  /\ UNCHANGED profile
  /\ \/ PackagesInstallable /\ Gain(d, d \cap Programs) /\ Reports(t, "Installed")
     \/ Nothing /\ Reports(t, "Failed")
----------------------------------------------------------------------------
(* The start of a run.                                                     *)

Start(f) ==
  /\ stage = "idle" /\ runs < MaxRuns
  /\ flags' = f
  /\ stage' = "platform" /\ phase' = "detect"
  /\ failed' = FALSE /\ ready' = {} /\ attempts' = 0
  /\ exit' = "none" /\ runs' = runs + 1
  /\ UNCHANGED <<host, hostVars>>

Ends(result) ==
  /\ exit' = result /\ stage' = "idle" /\ phase' = "detect" /\ attempts' = 0
  /\ failed' = FALSE /\ ready' = {}
  /\ UNCHANGED <<host, flags, runs>>

Proceeds(to) ==
  /\ stage' = to
  /\ UNCHANGED <<runConstants, phase, failed, ready, attempts>>

DetectPlatform ==
  /\ stage = "platform"
  /\ IF Supported(host) THEN Proceeds("env") ELSE Ends("failure")
  /\ UNCHANGED hostVars

(* ensure_env_files runs in every mode.                                    *)
EnsureEnvFiles ==
  /\ stage = "env"
  /\ \/ Gain({".env", "mobile .env"}, {}) /\ Proceeds("rust")
     \/ \E written \in {{}, {".env"}} : Gain(written, {}) /\ Ends("failure")
  /\ UNCHANGED profile
----------------------------------------------------------------------------
(* The core tools.                                                         *)

(* A download piped into a shell: the status is the shell's, so a failed   *)
(* download counts as an installation.                                     *)
EnsureRust ==
  \/ Detect("rust", "rust" \in path)
  \/ Confirm("rust", FALSE) \/ Answer("rust")
  \/ /\ At("rust", "install") /\ UNCHANGED profile
     /\ \/ Reports("rust", "Installed") /\ (Gain({"rust"}, {}) \/ Nothing)
        \/ Reports("rust", "Failed") /\ Nothing

EnsureSccache ==
  \/ Detect("sccache", "sccache" \in path)
  \/ Confirm("sccache", FALSE) \/ Answer("sccache")
  \/ /\ At("sccache", "install") /\ UNCHANGED profile
     /\ \/ "rust" \in path /\ Gain({"sccache"}, {"sccache"}) /\ Reports("sccache", "Installed")
        \/ Reports("sccache", "Failed") /\ Nothing

(* install_fnm: Homebrew puts it on the PATH; the script, whose download   *)
(* may fail unnoticed, into a directory that resolve_fnm_dir looks up.     *)
FnmInstalled ==
  IF "fnm" \in path THEN {{}}
  ELSE IF host.os = "macos" THEN {{"fnm"} : x \in {"brew"} \cap path}
  ELSE {{"fnm"}, {}}

EnsureNode ==
  \/ Detect("node", "node" \in path)
  \/ Confirm("node", FALSE) \/ Answer("node")
  \/ /\ At("node", "install")
     /\ \/ \E fnm \in FnmInstalled :
             /\ "fnm" \in disk \cup fnm
             /\ Gain(fnm \cup {"node"}, {"fnm", "node"})
             /\ EnsureProfileBlock("fnm")
             /\ Reports("node", "Installed")
        \/ \E fnm \in FnmInstalled \cup {{}} :
             /\ Gain(fnm, IF host.os = "macos" THEN fnm ELSE {})
             /\ Reports("node", "Failed") /\ UNCHANGED profile

EnsureMoon ==
  \/ Detect("moon", "moon" \in path)
  \/ Confirm("moon", FALSE) \/ Answer("moon")
  \/ /\ At("moon", "install")
     /\ \/ /\ (Gain({"moon"}, {}) \/ Nothing)
           /\ EnsureProfileBlock("moon") /\ Reports("moon", "Installed")
        \/ UNCHANGED profile /\ Nothing /\ Reports("moon", "Failed")

(* probe_docker_access: the ambient session, or sg with the user's group.  *)
ProbeDockerAccess(d, g, p) ==
  d /\ (host.os = "macos" \/ login \/ (g /\ "sg" \in p))

DockerAccess == ProbeDockerAccess(daemon, group, path)

(* Before it asks, ensure_docker installs sg where it is missing and       *)
(* probes again.                                                           *)
DetectDocker ==
  /\ At("docker", "detect") /\ UNCHANGED profile
  /\ \/ DockerAccess /\ Nothing /\ Reports("docker", "Present")
     \/ ~DockerAccess /\ flags.check /\ Nothing /\ Reports("docker", "Absent")
     \/ /\ ~DockerAccess /\ ~flags.check /\ host.os = "macos"
        /\ Nothing /\ Reports("docker", "Guided")
     \/ /\ ~DockerAccess /\ ~flags.check /\ host.os = "linux"
        /\ \E sg \in {{}, {"sg"}} :
             /\ Gain(sg, sg)
             /\ IF ProbeDockerAccess(daemon, group, path') THEN Reports("docker", "Present") ELSE Goes("prompt")

(* Whether the script installs anything, the user joins the group and the  *)
(* service comes up is not checked; the probe at the end decides.          *)
InstallDocker ==
  /\ At("docker", "install") /\ UNCHANGED <<profile, login, healthy, migrated>>
  /\ \E sg, engine \in BOOLEAN :
       /\ disk' = disk \cup {x \in {"sg"} : sg} \cup {x \in {"docker"} : sg /\ engine}
       /\ path' = path \cup (disk' \cap {"sg", "docker"})
       /\ group' \in (IF "sg" \in path' THEN {group, TRUE} ELSE {group})
       /\ daemon' \in (IF "sg" \in path' /\ "docker" \in disk' THEN {daemon, TRUE} ELSE {daemon})
       /\ Reports("docker", IF ProbeDockerAccess(daemon', group', path')
                            THEN "Installed" ELSE "Failed")

EnsureDocker == \/ DetectDocker \/ Confirm("docker", FALSE) \/ Answer("docker")
                \/ InstallDocker

(* ensure_mobile_deps takes any node and any node_modules directory.       *)
DetectDeps ==
  /\ At("mobile-deps", "detect") /\ UNCHANGED hostVars
  /\ \/ "deps" \in disk /\ Reports("mobile-deps", "Present")
     \/ "deps" \notin disk /\ flags.check /\ Reports("mobile-deps", "Absent")
     \/ /\ "deps" \notin disk /\ ~flags.check
        /\ IF path \cap {"node", "oldnode"} = {} THEN Reports("mobile-deps", "Failed")
           ELSE Goes("prompt")

EnsureMobileDeps ==
  \/ DetectDeps \/ Confirm("mobile-deps", FALSE) \/ Answer("mobile-deps")
  \/ /\ At("mobile-deps", "install") /\ UNCHANGED profile
     /\ \/ Gain({"deps"}, {}) /\ Reports("mobile-deps", "Installed")
        \/ (Gain({"deps"}, {}) \/ Nothing) /\ Reports("mobile-deps", "Failed")
----------------------------------------------------------------------------
(* The mobile toolchains.                                                  *)

EnsureJdk ==
  \/ Detect("jdk", "java" \in path)
  \/ Confirm("jdk", FALSE) \/ Answer("jdk")
  \/ At("jdk", "install") /\ InstallPackages("jdk", {"java"})

(* Two directories stand for the whole SDK.                                *)
SdkPresent == {"ndk", "platform"} \subseteq disk

(* unzip comes first; sdkmanager needs java and may stop between packages. *)
InstallSdk ==
  /\ At("android-sdk", "install")
  /\ \/ /\ "java" \in path /\ ("unzip" \in path \/ PackagesInstallable)
        /\ Gain(SdkParts \cup {"unzip"}, {"unzip"})
        /\ EnsureProfileBlock("android") /\ Reports("android-sdk", "Installed")
     \/ /\ \E parts \in {{}, {"platform-tools", "platform", "ndk"}},
              unzip \in SUBSET {x \in {"unzip"} : PackagesInstallable} :
             /\ parts # {} => "java" \in path /\ "unzip" \in path \cup unzip
             /\ Gain(parts \cup unzip, unzip)
        /\ UNCHANGED profile /\ Reports("android-sdk", "Failed")

EnsureSdk == \/ Detect("android-sdk", SdkPresent) \/ Confirm("android-sdk", FALSE)
             \/ Answer("android-sdk") \/ InstallSdk

(* The IDE is optional, and only Homebrew installs it.                     *)
InstallStudio ==
  /\ At("android-studio", "install")
  /\ \/ host.os = "macos" /\ InstallPackages("android-studio", {"studio"})
     \/ /\ host.os = "linux" /\ Nothing /\ UNCHANGED profile
        /\ Reports("android-studio", "Guided")

EnsureStudio == \/ Detect("android-studio", "studio" \in disk)
                \/ Confirm("android-studio", TRUE) \/ Answer("android-studio")
                \/ InstallStudio

(* The native library is built when the SDK is ready and this is no check. *)
EnsureNativeBuilt ==
  /\ At("native", "detect") /\ UNCHANGED profile
  /\ IF "android-sdk" \in ready /\ ~flags.check /\ path \cap {"node", "oldnode"} # {}
     THEN \/ Gain({"native"}, {}) /\ Reports("native", "Present")
          \/ Nothing /\ Reports("native", "Failed")
     ELSE Nothing /\ Reports("native", "Skipped")

(* Xcode is never installed, only described.                               *)
EnsureXcode ==
  /\ At("xcode", "detect") /\ UNCHANGED hostVars
  /\ Reports("xcode", IF "xcode" \in disk THEN "Present"
                      ELSE IF flags.check THEN "Absent" ELSE "Guided")

EnsureCocoapods ==
  \/ Detect("cocoapods", "pod" \in path)
  \/ Confirm("cocoapods", FALSE) \/ Answer("cocoapods")
  \/ At("cocoapods", "install") /\ InstallPackages("cocoapods", {"pod"})
----------------------------------------------------------------------------
(* The start of the stack.                                                 *)

StackReady == {"docker", "moon"} \subseteq ready

(* start_requested: nothing is asked when docker or moon is missing.       *)
DecideStart ==
  /\ At("start", "detect") /\ UNCHANGED hostVars
  /\ \/ (flags.check \/ flags.no_start) /\ Proceeds("end")
     \/ ~flags.check /\ ~flags.no_start /\ flags.start /\ Proceeds("probe")
     \/ /\ ~flags.check /\ ~flags.no_start /\ ~flags.start
        /\ IF StackReady THEN Goes("prompt") ELSE Proceeds("end")

ConfirmStart ==
  /\ At("start", "prompt") /\ UNCHANGED <<hostVars, runConstants, failed, ready, attempts>>
  /\ phase' = "detect"
  /\ \/ PolicyYes /\ stage' = "probe"
     \/ ~PolicyYes /\ stage' \in {"probe", "end"}

StartFails ==
  /\ failed' = TRUE /\ stage' = "end" /\ attempts' = 0
  /\ UNCHANGED <<runConstants, phase, ready>>

ProbeStack ==
  /\ stage = "probe" /\ UNCHANGED hostVars
  /\ IF StackReady /\ DockerAccess THEN Proceeds("up") ELSE StartFails

ComposeUp ==
  /\ stage = "up" /\ UNCHANGED hostVars
  /\ (DockerAccess /\ Proceeds(Services[1])) \/ StartFails

(* Mutants: a service that never becomes healthy is polled forever; one    *)
(* attempt too many.                                                       *)
PollForever(i) ==
  /\ stage = Services[i] /\ UNCHANGED hostVars
  /\ IF Services[i] \in healthy
     THEN /\ stage' = After(Services[i]) /\ attempts' = 0
          /\ UNCHANGED <<runConstants, phase, failed, ready>>
     ELSE UNCHANGED <<runConstants, stage, phase, failed, ready, attempts>>

PollOnceMore(i) ==
  /\ stage = Services[i] /\ UNCHANGED hostVars
  /\ IF Services[i] \in healthy
     THEN /\ stage' = After(Services[i]) /\ attempts' = 0
          /\ UNCHANGED <<runConstants, phase, failed, ready>>
     ELSE IF attempts < MaxAttempts
     THEN /\ attempts' = attempts + 1
          /\ UNCHANGED <<runConstants, stage, phase, failed, ready>>
     ELSE StartFails

(* One attempt of wait_for_healthy.                                        *)
PollHealth(i) ==
  /\ stage = Services[i] /\ UNCHANGED hostVars
  /\ IF Services[i] \in healthy
     THEN /\ stage' = After(Services[i]) /\ attempts' = 0
          /\ UNCHANGED <<runConstants, phase, failed, ready>>
     ELSE IF attempts + 1 < MaxAttempts
     THEN /\ attempts' = attempts + 1
          /\ UNCHANGED <<runConstants, stage, phase, failed, ready>>
     ELSE StartFails

RunMigrations ==
  /\ stage = "migrate"
  /\ \/ "moon" \in path /\ migrated' = TRUE /\ Proceeds("end")
     \/ migrated' = migrated /\ StartFails
  /\ UNCHANGED <<disk, path, profile, daemon, group, login, healthy>>

Exit ==
  /\ stage = "end" /\ Ends(IF failed THEN "failure" ELSE "success")
  /\ UNCHANGED hostVars
----------------------------------------------------------------------------
(* What happens around a run.                                              *)

(* A run that is killed in npm ci or sdkmanager leaves what they wrote.    *)
Kill ==
  /\ stage # "idle" /\ Ends("killed")
  /\ \E d \in {{}} \cup {{"deps"} : x \in {"mobile-deps"} \cap {stage}}
              \cup {{"platform", "ndk"} : x \in {"android-sdk"} \cap {stage}} :
       Gain(IF phase = "install" THEN d ELSE {}, {})
  /\ UNCHANGED profile

(* The user logs out and in again.                                         *)
NewSession ==
  /\ stage = "idle" /\ runs > 0
  /\ path' = PathOf(disk, profile) /\ login' = group
  /\ UNCHANGED <<host, disk, profile, daemon, group, healthy, migrated>>
  /\ UNCHANGED <<flags, stage, phase, failed, ready, attempts, exit, runs>>

(* Containers become healthy and fail, the daemon is started and stopped.  *)
DockerChanges ==
  /\ stage \in {"probe", "up", "migrate"} \cup {Services[i] : i \in DOMAIN Services}
  /\ \/ daemon' = ~daemon /\ "docker" \in disk /\ healthy' = {}
     \/ /\ daemon /\ stage # "probe" /\ daemon' = daemon
        /\ \E i \in DOMAIN Services :
             healthy' = IF Services[i] \in healthy THEN healthy \ {Services[i]}
                        ELSE healthy \cup {Services[i]}
  /\ UNCHANGED <<host, disk, path, profile, group, login, migrated>>
  /\ UNCHANGED <<flags, stage, phase, failed, ready, attempts, exit, runs>>
----------------------------------------------------------------------------
(* Everything a run does, the user's answers apart.                        *)
Run ==
  \/ DetectPlatform \/ EnsureEnvFiles
  \/ EnsureRust \/ EnsureSccache \/ EnsureNode \/ EnsureMoon \/ EnsureDocker
  \/ EnsureMobileDeps \/ EnsureJdk \/ EnsureSdk \/ EnsureStudio
  \/ EnsureNativeBuilt \/ EnsureXcode \/ EnsureCocoapods
  \/ DecideStart \/ ConfirmStart \/ ProbeStack \/ ComposeUp
  \/ \E i \in DOMAIN Services : PollHealth(i)
  \/ RunMigrations \/ Exit

Next == Run \/ Kill \/ NewSession \/ DockerChanges \/ \E f \in FlagSets : Start(f)

Spec == Init /\ [][Next]_vars

(* The program takes its next step; a person at a terminal may never       *)
(* answer.                                                                 *)
FairSpec == Spec /\ WF_vars(Run /\ (phase = "prompt" => PolicyYes))
=============================================================================
