--------------------------- MODULE DevSetupProofs ---------------------------
(***************************************************************************)
(* Theorems about the installer of the toolchain, for any hosts and flags, *)
(* any number of runs and of health polls.                                 *)
(***************************************************************************)
EXTENDS DevSetupProperties, TLAPS

(* The stages of the tools, and those of the stack after "start".           *)
Tools    == {"rust", "sccache", "node", "moon", "docker", "mobile-deps", "jdk",
             "android-sdk", "android-studio", "native", "xcode", "cocoapods"}
Starting == {"probe", "up", "postgres", "nats", "seaweedfs", "migrate"}

Outcomes == {"Present", "Installed", "Absent", "Guided", "Skipped", "Failed"}

(* Every stage has one place in main.                                       *)
LEMMA OnePlace ==
  /\ DOMAIN Stages = 1..22
  /\ \A i \in 1..22 : Index(Stages[i]) = i
<1>1. DOMAIN Stages = 1..22 /\ \A i, j \in 1..22 : Stages[i] = Stages[j] => i = j
  BY DEF Stages
<1> QED  BY <1>1 DEF Index

LEMMA StageNames ==
  {Stages[i] : i \in DOMAIN Stages} = Tools \cup Starting \cup {"platform", "env", "start", "end"}
<1>1. \A i \in 1..22 : Stages[i] \in Tools \cup Starting \cup {"platform", "env", "start", "end"}
  BY DEF Stages, Tools, Starting
<1>2. \A s \in Tools \cup Starting \cup {"platform", "env", "start", "end"} :
        \E i \in 1..22 : s = Stages[i]
  <2>1. \A s \in {"platform", "env", "start", "end"} : \E i \in 1..22 : s = Stages[i]
    BY DEF Stages
  <2>2. \A s \in Tools : \E i \in 1..22 : s = Stages[i]
    BY DEF Stages, Tools
  <2>3. \A s \in Starting : \E i \in 1..22 : s = Stages[i]
    BY DEF Stages, Starting
  <2> QED  BY <2>1, <2>2, <2>3
<1> QED  BY <1>1, <1>2, OnePlace

(* The order of main, as far as it matters: the first tools, and that       *)
(* nothing of the stack is reached from a tool.                             *)
LEMMA Order ==
  /\ After("rust") = "sccache" /\ After("sccache") = "node"
  /\ After("node") = "moon" /\ After("moon") = "docker"
  /\ \A t \in Tools : After(t) \in Tools \cup {"start"}
  /\ \A i \in DOMAIN Services : After(Services[i]) \in Starting
<1>1. \A i \in 1..21 : Stages[Index(Stages[i]) + 1] = Stages[i + 1]  BY OnePlace
<1>2. \A i \in 3..13 : Stages[i + 1] \in Tools  BY DEF Stages, Tools
<1>3. \A t \in Tools \ {"cocoapods"} : Stages[Index(t) + 1] \in Tools
  <2>1. \A t \in Tools \ {"cocoapods"} : \E i \in 3..13 : t = Stages[i]
    BY DEF Stages, Tools
  <2> QED  BY <1>1, <1>2, <2>1
<1>4. Stages[Index("cocoapods") + 1] = "start"
  <2>1. Stages[14] = "cocoapods" /\ Stages[14 + 1] = "start"  BY DEF Stages
  <2> QED  BY <1>1, <2>1
<1>5. \A i \in DOMAIN Services : Stages[Index(Services[i]) + 1] \in Starting
  <2>1. \A i \in DOMAIN Services : \E j \in 18..20 : Services[i] = Stages[j]
    BY DEF Stages, Services
  <2>2. \A j \in 18..20 : Stages[j + 1] \in Starting  BY DEF Stages, Starting
  <2> QED  BY <1>1, <2>1, <2>2
<1>6. /\ Stages[Index("rust") + 1] = "sccache" /\ Stages[Index("sccache") + 1] = "node"
      /\ Stages[Index("node") + 1] = "moon" /\ Stages[Index("moon") + 1] = "docker"
  <2>1. /\ Stages[3] = "rust" /\ Stages[3 + 1] = "sccache" /\ Stages[4] = "sccache"
        /\ Stages[4 + 1] = "node" /\ Stages[5] = "node" /\ Stages[5 + 1] = "moon"
        /\ Stages[6] = "moon" /\ Stages[6 + 1] = "docker"
    BY DEF Stages
  <2> QED  BY <1>1, <2>1
<1>7. \A i \in DOMAIN Services : Services[i] \notin {"mobile-deps", "native"}
  BY DEF Services
<1> HIDE DEF Tools
<1>8. \A t \in Tools : After(t) \in Tools \cup {"start"}
  BY <1>3, <1>4 DEF After
<1>9. \A i \in DOMAIN Services : After(Services[i]) \in Starting
  BY <1>5, <1>7 DEF After
<1> QED  BY <1>6, <1>8, <1>9 DEF After
----------------------------------------------------------------------------
(* What the machine holds.                                                 *)

(* A new session would find node.                                           *)
NodeStays == "node" \in PathOf(disk, profile)

Sound ==
  /\ path \subseteq disk /\ SystemNode(host) \subseteq disk
  /\ daemon => "docker" \in disk
  /\ host.writable /\ "node" \in path => NodeStays

MachineTyped ==
  /\ host \in Hosts
  /\ disk \subseteq Things /\ path \subseteq Programs
  /\ profile \subseteq {"fnm", "moon", "android"}
  /\ daemon \in BOOLEAN /\ group \in BOOLEAN /\ login \in BOOLEAN /\ migrated \in BOOLEAN
  /\ healthy \subseteq {"postgres", "nats", "seaweedfs"}

Machine == MachineTyped /\ Sound

(* Nothing is ever uninstalled, and no line of the block is lost.           *)
Grows == host' = host /\ disk \subseteq disk' /\ profile \subseteq profile'

LEMMA HostsAreTyped ==
  ASSUME NEW h \in Hosts
  PROVE  /\ h.writable \in BOOLEAN /\ h.os \in {"linux", "macos", "other"}
         /\ h.disk \subseteq Things /\ "node" \notin h.disk
         /\ SystemNode(h) \subseteq Programs
BY DevSetupAssumption DEF SystemNode, Programs

(* Where a session finds node.                                              *)
LEMMA NodeFound ==
  ASSUME NEW d, NEW p
  PROVE  /\ "node" \in PathOf(d, p) <=>
              "node" \in SystemNode(host) \/ ("fnm" \in p /\ "node" \in d)
         /\ "sccache" \in d => "sccache" \in PathOf(d, p)
         /\ PathOf(d, p) \subseteq SystemNode(host) \cup (d \cap Programs)
BY DEF PathOf, Programs

(* Node stays where it is found.                                            *)
LEMMA NodeKept ==
  ASSUME Grows
  PROVE  /\ NodeStays => NodeStays'
         /\ \A s \in {"sccache", "docker"} : s \in disk => s \in disk'
<1>1. NodeStays' <=> "node" \in SystemNode(host) \/ ("fnm" \in profile' /\ "node" \in disk')
  BY DEF NodeStays, PathOf, Grows, SystemNode
<1> QED  BY <1>1, NodeFound DEF NodeStays, Grows

(* What is installed and reached grows together.                            *)
LEMMA GainKeeps ==
  ASSUME Machine, NEW d, NEW c, Gain(d, c), host' = host,
         d \subseteq Things, c \subseteq Programs, c \subseteq disk \cup d,
         profile \subseteq profile', profile' \subseteq {"fnm", "moon", "android"},
         "node" \in c /\ host.writable => "fnm" \in profile'
  PROVE  Machine' /\ Grows
<1>1. /\ disk' = disk \cup d /\ path' = path \cup c
      /\ UNCHANGED <<daemon, group, login, healthy, migrated>>
  BY DEF Gain, dockerVars
<1>2. Grows  BY <1>1 DEF Grows
<1>3. MachineTyped'  BY <1>1 DEF Machine, MachineTyped
<1>4. path' \subseteq disk' /\ SystemNode(host)' \subseteq disk'
      /\ (daemon' => "docker" \in disk')
  BY <1>1 DEF Machine, Sound, SystemNode
<1>5. host'.writable /\ "node" \in path' => NodeStays'
  <2>1. CASE "node" \in path  BY <1>2, <2>1, NodeKept DEF Machine, Sound
  <2>2. CASE "node" \in c
    BY <1>1, <2>2 DEF NodeStays, PathOf
  <2> QED  BY <1>1, <2>1, <2>2
<1> QED  BY <1>2, <1>3, <1>4, <1>5 DEF Machine, Sound

LEMMA NothingKeeps ==
  ASSUME Machine, Nothing \/ UNCHANGED hostVars, UNCHANGED <<host, profile>>
  PROVE  /\ Machine' /\ Grows
         /\ UNCHANGED <<disk, path, group, login, migrated>>
<1>1. /\ UNCHANGED <<host, profile, disk, path, daemon, group, login, healthy, migrated>>
  BY DEF Nothing, Gain, dockerVars, hostVars
<1> QED  BY <1>1 DEF Machine, MachineTyped, Sound, NodeStays, PathOf, SystemNode, Grows
----------------------------------------------------------------------------
(* The tools.                                                              *)

(* The run of a tool: it goes on to its prompt or its installation, or      *)
(* reports.                                                                *)
ToolRuns(t) ==
  /\ stage = t /\ UNCHANGED <<host, flags, exit, runs, attempts>>
  /\ \/ /\ UNCHANGED <<stage, failed, ready>>
        /\ \/ phase = "detect" /\ phase' = "prompt" /\ ~flags.check
           \/ phase = "prompt" /\ phase' = "install"
     \/ \E o \in Outcomes : Reports(t, o)

(* What a tool is for.                                                      *)
Delivers(t) ==
  /\ t \in {"sccache", "docker"} => t \in disk
  /\ t = "node" /\ host.writable => NodeStays

(* With --check it touches nothing, and a required tool that has reported   *)
(* no failure is there.                                                    *)
ToolLeaves(t) ==
  /\ Machine' /\ Grows /\ ToolRuns(t)
  /\ flags.check /\ phase = "detect" =>
       UNCHANGED <<disk, path, profile, group, login, migrated>>
  /\ stage' # stage /\ ~failed' => Delivers(t)'

LEMMA Concludes ==
  ASSUME Machine', Grows, NEW t \in Tools, NEW o \in Outcomes, stage = t, Reports(t, o),
         flags.check /\ phase = "detect" =>
           UNCHANGED <<disk, path, profile, group, login, migrated>>,
         o \in {"Present", "Installed"} => Delivers(t)'
  PROVE  ToolLeaves(t)
<1>1. ToolRuns(t)  BY DEF ToolRuns, Reports, runConstants
<1>2. ~failed' /\ t \in Required => o \in {"Present", "Installed"}
  BY DEF Reports, IsBlockingFailure, Outcomes
<1>3. t \notin Required => Delivers(t)'  BY DEF Delivers, Required
<1> QED  BY <1>1, <1>2, <1>3 DEF ToolLeaves

LEMMA Continues ==
  ASSUME Machine', Grows, NEW t \in Tools, stage = t,
         \/ Goes("prompt") /\ phase = "detect" /\ ~flags.check
         \/ Goes("install") /\ phase = "prompt"
  PROVE  ToolLeaves(t)
BY DEF Goes, runConstants, ToolRuns, ToolLeaves

(* It is detected as it is asked for, without a change of the machine.      *)
LEMMA Detects ==
  ASSUME Machine, NEW t \in Tools, At(t, "detect"), UNCHANGED hostVars,
         \/ Delivers(t) /\ Reports(t, "Present")
         \/ flags.check /\ Reports(t, "Absent")
         \/ ~flags.check /\ Goes("prompt")
  PROVE  ToolLeaves(t)
<1>1. stage = t /\ phase = "detect"  BY DEF At
<1>2. UNCHANGED <<host, profile>>
  BY DEF Reports, Goes, runConstants, hostVars
<1>3. Machine' /\ Grows /\ UNCHANGED <<disk, path, profile, group, login, migrated>>
  BY <1>2, NothingKeeps
<1>4. Delivers(t) => Delivers(t)'  BY <1>3, NodeKept DEF Delivers, Grows
<1>5. "Present" \in Outcomes /\ "Absent" \in Outcomes
      /\ "Absent" \notin {"Present", "Installed"}
  BY DEF Outcomes
<1> QED  BY <1>1, <1>3, <1>4, <1>5, Concludes, Continues

LEMMA Prompts ==
  ASSUME Machine, NEW t \in Tools, NEW optional \in BOOLEAN,
         Confirm(t, optional) \/ Answer(t)
  PROVE  ToolLeaves(t)
<1>1. stage = t /\ phase = "prompt" /\ UNCHANGED hostVars
  BY DEF Confirm, Answer, At
<1>2. Reports(t, "Skipped") \/ Goes("install")  BY DEF Confirm, Answer
<1>3. UNCHANGED <<host, profile>>
  BY <1>1, <1>2 DEF Reports, Goes, runConstants, hostVars
<1>4. Machine' /\ Grows  BY <1>1, <1>3, NothingKeeps
<1>5. "Skipped" \in Outcomes /\ "Skipped" \notin {"Present", "Installed"}
  BY DEF Outcomes
<1> QED  BY <1>1, <1>2, <1>4, <1>5, Concludes, Continues

(* An installation that gains d, and c on the PATH.                         *)
LEMMA Installs ==
  ASSUME Machine, NEW t \in Tools, At(t, "install"), NEW d, NEW c, Gain(d, c),
         NEW o \in {"Installed", "Failed"}, Reports(t, o),
         d \subseteq Things, c \subseteq Programs, c \subseteq disk \cup d,
         profile \subseteq profile', profile' \subseteq {"fnm", "moon", "android"},
         "node" \in c /\ host.writable => "fnm" \in profile',
         o = "Installed" => Delivers(t)'
  PROVE  ToolLeaves(t)
<1>1. stage = t /\ phase = "install" /\ host' = host
  BY DEF At, Reports, runConstants
<1>2. Machine' /\ Grows  BY <1>1, GainKeeps
<1> QED  BY <1>1, <1>2, Concludes DEF Outcomes

(* An installation that neither brings node nor touches the profile.        *)
GainsSome ==
  \E d \in SUBSET Things, c \in SUBSET (Programs \ {"node"}) : c \subseteq d /\ Gain(d, c)

LEMMA SomeGains ==
  /\ Nothing => GainsSome
  /\ \A x \in Things : Gain({x}, {}) => GainsSome
  /\ \A x \in Programs \ {"node"} : Gain({x}, {x}) => GainsSome
<1>1. {} \in SUBSET Things /\ {} \in SUBSET (Programs \ {"node"})  OBVIOUS
<1>2. ASSUME NEW x \in Things
      PROVE  {x} \in SUBSET Things /\ {} \subseteq {x}
  OBVIOUS
<1>3. ASSUME NEW x \in Programs \ {"node"}
      PROVE  {x} \in SUBSET Things /\ {x} \in SUBSET (Programs \ {"node"})
  BY DEF Things
<1>4. Nothing => GainsSome  BY <1>1, Zenon DEF Nothing, GainsSome
<1>5. \A x \in Things : Gain({x}, {}) => GainsSome  BY <1>1, <1>2, Zenon DEF GainsSome
<1>6. \A x \in Programs \ {"node"} : Gain({x}, {x}) => GainsSome
  BY <1>3, Zenon DEF GainsSome
<1> QED  BY <1>4, <1>5, <1>6

LEMMA InstallsSome ==
  ASSUME Machine, NEW t \in Tools, At(t, "install"), GainsSome,
         NEW o \in {"Installed", "Failed"}, Reports(t, o),
         profile \subseteq profile', profile' \subseteq {"fnm", "moon", "android"},
         o = "Installed" => Delivers(t)'
  PROVE  ToolLeaves(t)
<1>1. PICK d \in SUBSET Things, c \in SUBSET (Programs \ {"node"}) :
        c \subseteq d /\ Gain(d, c)
  BY DEF GainsSome
<1>2. c \subseteq Programs /\ c \subseteq disk \cup d /\ "node" \notin c
  BY <1>1
<1> QED  BY <1>1, <1>2, Installs

LEMMA RustStep ==
  ASSUME Machine, EnsureRust PROVE ToolLeaves("rust")
<1>1. "rust" \in Tools /\ Delivers("rust") /\ Delivers("rust")'
  BY DEF Tools, Delivers
<1>2. CASE Detect("rust", "rust" \in path)  BY <1>1, <1>2, Detects DEF Detect
<1>3. CASE Confirm("rust", FALSE) \/ Answer("rust")  BY <1>1, <1>3, Prompts
<1>4. CASE /\ At("rust", "install") /\ UNCHANGED profile
           /\ \/ Reports("rust", "Installed") /\ (Gain({"rust"}, {}) \/ Nothing)
              \/ Reports("rust", "Failed") /\ Nothing
  <2>1. PICK o \in {"Installed", "Failed"} : Reports("rust", o)
    BY <1>4
  <2>2. GainsSome  BY <1>4, SomeGains DEF Things, Programs
  <2>3. profile' = profile /\ profile \subseteq {"fnm", "moon", "android"}
    BY <1>4 DEF Machine, MachineTyped
  <2> QED  BY <1>1, <1>4, <2>1, <2>2, <2>3, InstallsSome
<1> QED  BY <1>2, <1>3, <1>4 DEF EnsureRust

LEMMA SccacheStep ==
  ASSUME Machine, EnsureSccache PROVE ToolLeaves("sccache")
<1>1. "sccache" \in Tools /\ ("sccache" \in path => Delivers("sccache"))
      /\ profile \subseteq {"fnm", "moon", "android"}
  BY DEF Tools, Delivers, Machine, MachineTyped, Sound
<1>2. CASE Detect("sccache", "sccache" \in path)  BY <1>1, <1>2, Detects DEF Detect
<1>3. CASE Confirm("sccache", FALSE) \/ Answer("sccache")  BY <1>1, <1>3, Prompts
<1>4. CASE /\ At("sccache", "install") /\ UNCHANGED profile
           /\ Gain({"sccache"}, {"sccache"}) /\ Reports("sccache", "Installed")
  <2>1. Delivers("sccache")'  BY <1>4 DEF Gain, Delivers
  <2>2. GainsSome  BY <1>4, SomeGains DEF Programs
  <2>3. Reports("sccache", "Installed") /\ profile \subseteq profile'
        /\ profile' \subseteq {"fnm", "moon", "android"}
    BY <1>1, <1>4
  <2> QED  BY <1>1, <1>4, <2>1, <2>2, <2>3, InstallsSome
<1>5. CASE /\ At("sccache", "install") /\ UNCHANGED profile
           /\ Reports("sccache", "Failed") /\ Nothing
  <2>1. GainsSome  BY <1>5, SomeGains
  <2>2. Reports("sccache", "Failed") /\ profile \subseteq profile'
        /\ profile' \subseteq {"fnm", "moon", "android"}
    BY <1>1, <1>5
  <2> QED  BY <1>1, <1>5, <2>1, <2>2, InstallsSome
<1> QED  BY <1>2, <1>3, <1>4, <1>5 DEF EnsureSccache

LEMMA NodeStep ==
  ASSUME Machine, EnsureNode PROVE ToolLeaves("node")
<1>1. "node" \in Tools /\ ("node" \in path => Delivers("node"))
      /\ profile \subseteq {"fnm", "moon", "android"}
  BY DEF Tools, Delivers, Machine, MachineTyped, Sound
<1>2. CASE Detect("node", "node" \in path)  BY <1>1, <1>2, Detects DEF Detect
<1>3. CASE Confirm("node", FALSE) \/ Answer("node")  BY <1>1, <1>3, Prompts
<1>4. \A fnm \in FnmInstalled \cup {{}} : fnm \subseteq {"fnm"}  BY DEF FnmInstalled
<1>5. {"fnm", "node"} \subseteq Programs /\ Programs \subseteq Things
  BY DEF Things, Programs
<1>6. ASSUME At("node", "install"), NEW fnm \in FnmInstalled, "fnm" \in disk \cup fnm,
             Gain(fnm \cup {"node"}, {"fnm", "node"}), EnsureProfileBlock("fnm"),
             Reports("node", "Installed")
      PROVE  ToolLeaves("node")
  <2>1. /\ profile \subseteq profile' /\ profile' \subseteq {"fnm", "moon", "android"}
        /\ host.writable => "fnm" \in profile'
    BY <1>1, <1>6 DEF EnsureProfileBlock, MergeLines
  <2>2. host' = host /\ "node" \in disk'
    BY <1>6 DEF Reports, runConstants, Gain
  <2>3. Delivers("node")'
    BY <2>1, <2>2 DEF Delivers, NodeStays, PathOf
  <2> DEFINE d == fnm \cup {"node"}
             c == {"fnm", "node"}
  <2>4. d \subseteq Things /\ c \subseteq Programs /\ c \subseteq disk \cup d /\ Gain(d, c)
    BY <1>4, <1>5, <1>6
  <2> HIDE DEF d, c
  <2> QED  BY <1>1, <1>6, <2>1, <2>3, <2>4, Installs
<1>7. ASSUME At("node", "install"), NEW fnm \in FnmInstalled \cup {{}},
             Gain(fnm, IF host.os = "macos" THEN fnm ELSE {}),
             Reports("node", "Failed"), UNCHANGED profile
      PROVE  ToolLeaves("node")
  <2> DEFINE c == IF host.os = "macos" THEN fnm ELSE {}
  <2>1. fnm \subseteq Things /\ c \subseteq Programs /\ c \subseteq disk \cup fnm
        /\ "node" \notin c /\ Gain(fnm, c)
    BY <1>4, <1>5, <1>7
  <2> HIDE DEF c
  <2> QED  BY <1>1, <1>7, <2>1, Installs
<1> QED  BY <1>2, <1>3, <1>6, <1>7 DEF EnsureNode

LEMMA MoonStep ==
  ASSUME Machine, EnsureMoon PROVE ToolLeaves("moon")
<1>1. "moon" \in Tools /\ Delivers("moon") /\ Delivers("moon")'
      /\ profile \subseteq {"fnm", "moon", "android"}
  BY DEF Tools, Delivers, Machine, MachineTyped
<1>2. CASE Detect("moon", "moon" \in path)  BY <1>1, <1>2, Detects DEF Detect
<1>3. CASE Confirm("moon", FALSE) \/ Answer("moon")  BY <1>1, <1>3, Prompts
<1>4. CASE /\ At("moon", "install")
           /\ \/ /\ (Gain({"moon"}, {}) \/ Nothing)
                 /\ EnsureProfileBlock("moon") /\ Reports("moon", "Installed")
              \/ UNCHANGED profile /\ Nothing /\ Reports("moon", "Failed")
  <2>1. PICK o \in {"Installed", "Failed"} : Reports("moon", o)
    BY <1>4
  <2>2. GainsSome  BY <1>4, SomeGains DEF Things, Programs
  <2>3. profile \subseteq profile' /\ profile' \subseteq {"fnm", "moon", "android"}
    BY <1>1, <1>4 DEF EnsureProfileBlock, MergeLines
  <2> QED  BY <1>1, <1>4, <2>1, <2>2, <2>3, InstallsSome
<1> QED  BY <1>2, <1>3, <1>4 DEF EnsureMoon

(* Docker is found where its daemon runs.                                   *)
LEMMA DockerDetected ==
  ASSUME Machine, DetectDocker PROVE ToolLeaves("docker")
<1>1. /\ "docker" \in Tools /\ stage = "docker" /\ phase = "detect" /\ UNCHANGED profile
      /\ "Present" \in Outcomes /\ "Absent" \in Outcomes /\ "Guided" \in Outcomes
      /\ "Absent" \notin {"Present", "Installed"} /\ "Guided" \notin {"Present", "Installed"}
      /\ profile \subseteq {"fnm", "moon", "android"}
  BY DEF Tools, Outcomes, DetectDocker, At, Machine, MachineTyped
<1>2. ASSUME NEW o \in {"Present", "Absent", "Guided"}, Nothing, Reports("docker", o),
             o = "Present" => DockerAccess
      PROVE  ToolLeaves("docker")
  <2>1. host' = host  BY <1>2 DEF Reports, runConstants
  <2>2. Machine' /\ Grows /\ UNCHANGED <<disk, path, profile, group, login, migrated>>
    BY <1>1, <1>2, <2>1, NothingKeeps
  <2>3. o \in {"Present", "Installed"} => Delivers("docker")'
    BY <1>2, <2>2 DEF DockerAccess, ProbeDockerAccess, Machine, Sound, Delivers
  <2> QED  BY <1>1, <1>2, <2>2, <2>3, Concludes
<1>3. ASSUME ~flags.check, NEW sg \in {{}, {"sg"}}, Gain(sg, sg),
             IF ProbeDockerAccess(daemon, group, path') THEN Reports("docker", "Present")
             ELSE Goes("prompt")
      PROVE  ToolLeaves("docker")
  <2>1. host' = host  BY <1>3 DEF Reports, Goes, runConstants
  <2>2. sg \subseteq Things /\ sg \subseteq Programs /\ "node" \notin sg
        /\ sg \subseteq disk \cup sg
    BY DEF Things, Programs
  <2>3. profile \subseteq profile' /\ profile' \subseteq {"fnm", "moon", "android"}
    BY <1>1
  <2>4. Machine' /\ Grows  BY <1>3, <2>1, <2>2, <2>3, GainKeeps
  <2>5. ProbeDockerAccess(daemon, group, path') => Delivers("docker")'
    BY <2>4 DEF ProbeDockerAccess, Machine, Sound, Delivers, Grows
  <2> QED  BY <1>1, <1>3, <2>4, <2>5, Concludes, Continues
<1> QED  BY <1>2, <1>3 DEF DetectDocker

LEMMA DockerInstalled ==
  ASSUME Machine, InstallDocker PROVE ToolLeaves("docker")
<1>1. PICK sg \in BOOLEAN, engine \in BOOLEAN :
        /\ disk' = disk \cup {x \in {"sg"} : sg} \cup {x \in {"docker"} : sg /\ engine}
        /\ path' = path \cup (disk' \cap {"sg", "docker"})
        /\ group' \in (IF "sg" \in path' THEN {group, TRUE} ELSE {group})
        /\ daemon' \in (IF "sg" \in path' /\ "docker" \in disk' THEN {daemon, TRUE}
                        ELSE {daemon})
        /\ Reports("docker", IF ProbeDockerAccess(daemon', group', path')
                             THEN "Installed" ELSE "Failed")
  BY DEF InstallDocker
<1>2. /\ "docker" \in Tools /\ stage = "docker" /\ phase = "install"
      /\ UNCHANGED <<profile, login, healthy, migrated>> /\ host' = host
  BY <1>1 DEF Tools, InstallDocker, At, Reports, runConstants
<1>3. disk' \subseteq disk \cup {"sg", "docker"} /\ disk \subseteq disk'  BY <1>1
<1>4. Grows  BY <1>2, <1>3 DEF Grows
<1>5. daemon' = daemon \/ ("docker" \in disk' /\ daemon')  BY <1>1
<1>6. daemon' \in BOOLEAN /\ group' \in BOOLEAN  BY <1>1 DEF Machine, MachineTyped
<1>7. MachineTyped'
  BY <1>1, <1>2, <1>3, <1>6 DEF Machine, MachineTyped, Things, Programs
<1>8. path' \subseteq disk' /\ SystemNode(host)' \subseteq disk'
  BY <1>1, <1>2, <1>3 DEF Machine, Sound, SystemNode
<1>9. daemon' => "docker" \in disk'
  BY <1>3, <1>5 DEF Machine, Sound
<1>10. host'.writable /\ "node" \in path' => NodeStays'
  BY <1>1, <1>2, <1>4, NodeKept DEF Machine, Sound
<1>11. Machine'  BY <1>7, <1>8, <1>9, <1>10 DEF Machine, Sound
<1>12. PICK o \in {"Installed", "Failed"} :
         Reports("docker", o) /\ (o = "Installed" => daemon')
  <2>1. CASE ProbeDockerAccess(daemon', group', path')
    BY <1>1, <2>1 DEF ProbeDockerAccess
  <2>2. CASE ~ProbeDockerAccess(daemon', group', path')
    BY <1>1, <2>2
  <2> QED  BY <2>1, <2>2
<1>13. o \in Outcomes /\ (o \in {"Present", "Installed"} => Delivers("docker")')
  BY <1>9, <1>12 DEF Outcomes, Delivers
<1> QED  BY <1>2, <1>4, <1>11, <1>12, <1>13, Concludes

LEMMA DockerStep ==
  ASSUME Machine, EnsureDocker PROVE ToolLeaves("docker")
<1>1. "docker" \in Tools  BY DEF Tools
<1>2. CASE Confirm("docker", FALSE) \/ Answer("docker")  BY <1>1, <1>2, Prompts
<1> QED  BY <1>2, DockerDetected, DockerInstalled DEF EnsureDocker

(* The tools a new session is not asked for: whatever they report.          *)
LEMMA DeliversNothing ==
  ASSUME NEW t \in Tools \ {"sccache", "node", "docker"}
  PROVE  Delivers(t) /\ Delivers(t)'
BY DEF Delivers

LEMMA MobileDepsStep ==
  ASSUME Machine, EnsureMobileDeps PROVE ToolLeaves("mobile-deps")
<1>1. /\ "mobile-deps" \in Tools /\ Delivers("mobile-deps") /\ Delivers("mobile-deps")'
      /\ profile \subseteq {"fnm", "moon", "android"}
  BY DeliversNothing DEF Tools, Machine, MachineTyped
<1>2. CASE DetectDeps
  <2>1. stage = "mobile-deps" /\ phase = "detect" /\ UNCHANGED hostVars
    BY <1>2 DEF DetectDeps, At
  <2>2. \/ \E o \in Outcomes : Reports("mobile-deps", o)
        \/ ~flags.check /\ Goes("prompt")
    BY <1>2 DEF DetectDeps, Outcomes
  <2>3. UNCHANGED <<host, profile>>
    BY <2>1, <2>2 DEF Reports, Goes, runConstants, hostVars
  <2>4. Machine' /\ Grows /\ UNCHANGED <<disk, path, profile, group, login, migrated>>
    BY <2>1, <2>3, NothingKeeps
  <2> QED  BY <1>1, <2>1, <2>2, <2>4, Concludes, Continues
<1>3. CASE Confirm("mobile-deps", FALSE) \/ Answer("mobile-deps")
  BY <1>1, <1>3, Prompts
<1>4. CASE /\ At("mobile-deps", "install") /\ UNCHANGED profile
           /\ \/ Gain({"deps"}, {}) /\ Reports("mobile-deps", "Installed")
              \/ (Gain({"deps"}, {}) \/ Nothing) /\ Reports("mobile-deps", "Failed")
  <2>1. PICK o \in {"Installed", "Failed"} : Reports("mobile-deps", o)
    BY <1>4
  <2>2. GainsSome  BY <1>4, SomeGains DEF Things
  <2>3. profile \subseteq profile' /\ profile' \subseteq {"fnm", "moon", "android"}
    BY <1>1, <1>4
  <2> QED  BY <1>1, <1>4, <2>1, <2>2, <2>3, InstallsSome
<1> QED  BY <1>2, <1>3, <1>4 DEF EnsureMobileDeps

(* What a package manager installs.                                         *)
LEMMA PackagesStep ==
  ASSUME Machine, NEW t \in Tools \ {"sccache", "node", "docker"}, At(t, "install"),
         NEW x \in Things \ {"node"}, InstallPackages(t, {x})
  PROVE  ToolLeaves(t)
<1>1. profile \subseteq profile' /\ profile' \subseteq {"fnm", "moon", "android"}
  BY DEF InstallPackages, Machine, MachineTyped
<1>2. PICK o \in {"Installed", "Failed"} : Reports(t, o)  BY DEF InstallPackages
<1>3. GainsSome
  <2>1. CASE Nothing  BY <2>1, SomeGains
  <2>2. CASE Gain({x}, {x} \cap Programs)
    <3>1. {x} \in SUBSET Things /\ {x} \cap Programs \in SUBSET (Programs \ {"node"})
          /\ {x} \cap Programs \subseteq {x}
      OBVIOUS
    <3> QED  BY <2>2, <3>1, Zenon DEF GainsSome
  <2> QED  BY <2>1, <2>2 DEF InstallPackages
<1> QED  BY <1>1, <1>2, <1>3, DeliversNothing, InstallsSome

LEMMA JdkStep ==
  ASSUME Machine, EnsureJdk PROVE ToolLeaves("jdk")
<1>1. "jdk" \in Tools \ {"sccache", "node", "docker"} /\ "java" \in Things \ {"node"}
  BY DEF Tools, Things, Programs
<1>2. CASE Detect("jdk", "java" \in path)
  BY <1>1, <1>2, DeliversNothing, Detects DEF Detect
<1>3. CASE Confirm("jdk", FALSE) \/ Answer("jdk")  BY <1>1, <1>3, Prompts
<1>4. CASE At("jdk", "install") /\ InstallPackages("jdk", {"java"})
  BY <1>1, <1>4, PackagesStep
<1> QED  BY <1>2, <1>3, <1>4 DEF EnsureJdk

LEMMA CocoapodsStep ==
  ASSUME Machine, EnsureCocoapods PROVE ToolLeaves("cocoapods")
<1>1. "cocoapods" \in Tools \ {"sccache", "node", "docker"} /\ "pod" \in Things \ {"node"}
  BY DEF Tools, Things, Programs
<1>2. CASE Detect("cocoapods", "pod" \in path)
  BY <1>1, <1>2, DeliversNothing, Detects DEF Detect
<1>3. CASE Confirm("cocoapods", FALSE) \/ Answer("cocoapods")  BY <1>1, <1>3, Prompts
<1>4. CASE At("cocoapods", "install") /\ InstallPackages("cocoapods", {"pod"})
  BY <1>1, <1>4, PackagesStep
<1> QED  BY <1>2, <1>3, <1>4 DEF EnsureCocoapods

LEMMA SdkStep ==
  ASSUME Machine, EnsureSdk PROVE ToolLeaves("android-sdk")
<1>1. /\ "android-sdk" \in Tools \ {"sccache", "node", "docker"}
      /\ profile \subseteq {"fnm", "moon", "android"}
      /\ Delivers("android-sdk") /\ Delivers("android-sdk")'
  BY DeliversNothing DEF Tools, Machine, MachineTyped
<1>2. CASE Detect("android-sdk", SdkPresent)
  BY <1>1, <1>2, Detects DEF Detect
<1>3. CASE Confirm("android-sdk", FALSE) \/ Answer("android-sdk")
  BY <1>1, <1>3, Prompts
<1>4. CASE InstallSdk
  <2>1. At("android-sdk", "install")
        /\ \E o \in {"Installed", "Failed"} : Reports("android-sdk", o)
    BY <1>4 DEF InstallSdk
  <2>2. profile \subseteq profile' /\ profile' \subseteq {"fnm", "moon", "android"}
    BY <1>1, <1>4 DEF InstallSdk, EnsureProfileBlock, MergeLines
  <2>3. GainsSome
    <3>1. CASE Gain(SdkParts \cup {"unzip"}, {"unzip"})
      <4>1. /\ SdkParts \cup {"unzip"} \in SUBSET Things
            /\ {"unzip"} \in SUBSET (Programs \ {"node"})
            /\ {"unzip"} \subseteq SdkParts \cup {"unzip"}
        BY DEF Things, Programs
      <4> QED  BY <3>1, <4>1, Zenon DEF GainsSome
    <3>2. ASSUME NEW parts \in {{}, {"platform-tools", "platform", "ndk"}},
                 NEW unzip \in SUBSET {x \in {"unzip"} : PackagesInstallable},
                 Gain(parts \cup unzip, unzip)
          PROVE  GainsSome
      <4>1. /\ parts \cup unzip \in SUBSET Things
            /\ unzip \in SUBSET (Programs \ {"node"}) /\ unzip \subseteq parts \cup unzip
        BY DEF Things, Programs, SdkParts
      <4> QED  BY <3>2, <4>1, Zenon DEF GainsSome
    <3> QED  BY <1>4, <3>1, <3>2 DEF InstallSdk
  <2> QED  BY <1>1, <2>1, <2>2, <2>3, InstallsSome
<1> QED  BY <1>2, <1>3, <1>4 DEF EnsureSdk

LEMMA StudioStep ==
  ASSUME Machine, EnsureStudio PROVE ToolLeaves("android-studio")
<1>1. /\ "android-studio" \in Tools \ {"sccache", "node", "docker"}
      /\ "studio" \in Things \ {"node"}
      /\ Delivers("android-studio") /\ Delivers("android-studio")'
  BY DeliversNothing DEF Tools, Things
<1>2. CASE Detect("android-studio", "studio" \in disk)
  BY <1>1, <1>2, Detects DEF Detect
<1>3. CASE Confirm("android-studio", TRUE) \/ Answer("android-studio")
  BY <1>1, <1>3, Prompts
<1>4. CASE InstallStudio
  <2>1. stage = "android-studio" /\ phase = "install" /\ At("android-studio", "install")
    BY <1>4 DEF InstallStudio, At
  <2>2. CASE InstallPackages("android-studio", {"studio"})
    BY <1>1, <2>1, <2>2, PackagesStep
  <2>3. CASE Nothing /\ UNCHANGED profile /\ Reports("android-studio", "Guided")
    <3>1. host' = host /\ "Guided" \in Outcomes
      BY <2>3 DEF Reports, runConstants, Outcomes
    <3>2. Machine' /\ Grows  BY <2>3, <3>1, NothingKeeps
    <3> QED  BY <1>1, <2>1, <2>3, <3>1, <3>2, Concludes
  <2> QED  BY <1>4, <2>2, <2>3 DEF InstallStudio
<1> QED  BY <1>2, <1>3, <1>4 DEF EnsureStudio

LEMMA NativeStep ==
  ASSUME Machine, EnsureNativeBuilt PROVE ToolLeaves("native")
<1>1. /\ "native" \in Tools \ {"sccache", "node", "docker"}
      /\ stage = "native" /\ phase = "detect" /\ UNCHANGED profile
      /\ profile \subseteq {"fnm", "moon", "android"}
      /\ Delivers("native") /\ Delivers("native")'
  BY DeliversNothing DEF Tools, EnsureNativeBuilt, At, Machine, MachineTyped
<1>2. PICK o \in Outcomes :
        /\ Reports("native", o)
        /\ Nothing \/ (~flags.check /\ Gain({"native"}, {}))
  BY DEF EnsureNativeBuilt, Outcomes
<1>3. host' = host  BY <1>2 DEF Reports, runConstants
<1>4. CASE Nothing
  <2>1. Machine' /\ Grows /\ UNCHANGED <<disk, path, profile, group, login, migrated>>
    BY <1>1, <1>3, <1>4, NothingKeeps
  <2> QED  BY <1>1, <1>2, <2>1, Concludes
<1>5. CASE ~flags.check /\ Gain({"native"}, {})
  <2> DEFINE d == {"native"}
             c == {}
  <2>1. /\ d \subseteq Things /\ c \subseteq Programs /\ c \subseteq disk \cup d
        /\ "node" \notin c /\ Gain(d, c)
    BY <1>5 DEF Things
  <2>2. profile \subseteq profile' /\ profile' \subseteq {"fnm", "moon", "android"}
    BY <1>1
  <2> HIDE DEF d, c
  <2>3. Machine' /\ Grows  BY <1>3, <2>1, <2>2, GainKeeps
  <2> QED  BY <1>1, <1>2, <1>5, <2>3, Concludes
<1> QED  BY <1>2, <1>4, <1>5

LEMMA XcodeStep ==
  ASSUME Machine, EnsureXcode PROVE ToolLeaves("xcode")
<1>1. /\ "xcode" \in Tools \ {"sccache", "node", "docker"}
      /\ stage = "xcode" /\ UNCHANGED hostVars /\ UNCHANGED profile
      /\ Delivers("xcode")'
  BY DeliversNothing DEF Tools, EnsureXcode, At, hostVars
<1>2. PICK o \in Outcomes : Reports("xcode", o)  BY DEF EnsureXcode, Outcomes
<1>3. host' = host  BY <1>2 DEF Reports, runConstants
<1>4. Machine' /\ Grows /\ UNCHANGED <<disk, path, profile, group, login, migrated>>
  BY <1>1, <1>3, NothingKeeps
<1> QED  BY <1>1, <1>2, <1>4, Concludes

ToolStep ==
  \/ EnsureRust \/ EnsureSccache \/ EnsureNode \/ EnsureMoon \/ EnsureDocker
  \/ EnsureMobileDeps \/ EnsureJdk \/ EnsureSdk \/ EnsureStudio
  \/ EnsureNativeBuilt \/ EnsureXcode \/ EnsureCocoapods

LEMMA ToolStepLeaves ==
  ASSUME Machine, ToolStep
  PROVE  \E t \in Tools : ToolLeaves(t)
BY RustStep, SccacheStep, NodeStep, MoonStep, DockerStep, MobileDepsStep, JdkStep, SdkStep,
   StudioStep, NativeStep, XcodeStep, CocoapodsStep
   DEF ToolStep, Tools
----------------------------------------------------------------------------
(* The run.                                                                *)

AllStages == Tools \cup Starting \cup {"platform", "env", "start", "end"}

RunTyped ==
  /\ flags \in FlagSets /\ stage \in {"idle"} \cup AllStages
  /\ phase \in {"detect", "prompt", "install"}
  /\ failed \in BOOLEAN /\ ready \subseteq Tracked
  /\ attempts \in 0..(MaxAttempts - 1)
  /\ exit \in {"none", "success", "failure", "killed"}
  /\ runs \in 0..MaxRuns

(* With --check a run neither prompts nor installs nor starts the stack.    *)
Checking ==
  flags.check /\ stage # "idle" => phase = "detect" /\ stage \notin Starting

(* A run without a failure has what it has passed.                          *)
ToSccache == {"idle", "platform", "env", "rust", "sccache"}
ToNode    == ToSccache \cup {"node"}
ToDocker  == ToNode \cup {"moon", "docker"}

Passed ==
  ~failed =>
    /\ stage \notin ToSccache => Delivers("sccache")
    /\ stage \notin ToNode    => Delivers("node")
    /\ stage \notin ToDocker  => Delivers("docker")

Succeeded ==
  exit = "success" => Delivers("sccache") /\ Delivers("node") /\ Delivers("docker")

RunInv == RunTyped /\ Checking /\ Passed /\ Succeeded

SetupInv == Machine /\ RunInv

(* The .env files are all that a check may change.                          *)
EnvOnly ==
  /\ disk' \ {".env", "mobile .env"} = disk \ {".env", "mobile .env"}
  /\ UNCHANGED <<path, profile, group, login, migrated>>

LEMMA DeliversKept ==
  ASSUME Grows
  PROVE  \A t \in {"sccache", "node", "docker"} : Delivers(t) => Delivers(t)'
BY NodeKept DEF Delivers, Grows

LEMMA FlagsAreTyped ==
  /\ \A f \in FlagSets : f.check \in BOOLEAN
  /\ MaxRuns \in Nat /\ MaxAttempts \in Nat \ {0}
  /\ 0 \in 0..(MaxAttempts - 1)
BY DevSetupAssumption

LEMMA ToolRunInv ==
  ASSUME RunInv, NEW t \in Tools, ToolLeaves(t)
  PROVE  RunInv' /\ (flags.check => EnvOnly)
<1>1. /\ stage = t /\ UNCHANGED <<flags, exit, runs, attempts>> /\ Grows
      /\ \/ /\ UNCHANGED <<stage, failed, ready>> /\ ~flags.check
            /\ phase' \in {"prompt", "install"}
         \/ /\ UNCHANGED <<stage, failed, ready>> /\ phase = "prompt"
            /\ phase' = "install"
         \/ /\ stage' = After(t) /\ phase' = "detect" /\ failed' \in BOOLEAN
            /\ (failed => failed') /\ ready' \subseteq Tracked
  BY DEF ToolLeaves, ToolRuns, Reports, RunInv, RunTyped
<1>2. t # "idle" /\ t \in AllStages /\ t \notin Starting  BY DEF Tools, AllStages, Starting
<1>3. After(t) \in AllStages /\ After(t) # "idle" /\ After(t) \notin Starting
  BY Order DEF AllStages, Tools, Starting
<1>4. RunTyped'
  <2>1. stage' \in AllStages /\ phase' \in {"detect", "prompt", "install"}
    BY <1>1, <1>2, <1>3
  <2>2. failed' \in BOOLEAN /\ ready' \subseteq Tracked
    BY <1>1 DEF RunInv, RunTyped
  <2>3. UNCHANGED <<flags, exit, runs, attempts>>  BY <1>1
  <2> QED  BY <2>1, <2>2, <2>3 DEF RunInv, RunTyped
<1>5. flags.check => phase = "detect"  BY <1>1, <1>2 DEF RunInv, Checking
<1>6. Checking'  BY <1>1, <1>2, <1>3, <1>5 DEF Checking
<1>7. Succeeded'  BY <1>1, DeliversKept DEF RunInv, Succeeded
<1>8. Passed'
  <2> SUFFICES ASSUME ~failed' PROVE /\ stage' \notin ToSccache => Delivers("sccache")'
                                     /\ stage' \notin ToNode => Delivers("node")'
                                     /\ stage' \notin ToDocker => Delivers("docker")'
    BY DEF Passed
  <2>1. ~failed  BY <1>1 DEF RunInv, RunTyped
  <2>2. /\ stage \notin ToSccache => Delivers("sccache")'
        /\ stage \notin ToNode => Delivers("node")'
        /\ stage \notin ToDocker => Delivers("docker")'
    BY <1>1, <2>1, DeliversKept DEF RunInv, Passed
  <2>3. CASE stage' = stage  BY <2>2, <2>3
  <2>4. CASE stage' # stage
    <3>1. Delivers(t)' /\ stage' = After(t)  BY <1>1, <2>4 DEF ToolLeaves
    <3>2. CASE t \in {"rust", "sccache", "node", "moon", "docker"}
      BY <1>1, <2>2, <3>1, <3>2, Order DEF ToSccache, ToNode, ToDocker
    <3>3. CASE t \notin {"rust", "sccache", "node", "moon", "docker"}
      <4>1. t \notin ToDocker  BY <3>3 DEF Tools, ToDocker, ToNode, ToSccache
      <4> QED  BY <1>1, <2>2, <4>1 DEF ToDocker, ToNode
    <3> QED  BY <3>2, <3>3
  <2> QED  BY <2>3, <2>4
<1>9. flags.check => EnvOnly
  BY <1>5 DEF ToolLeaves, EnvOnly
<1> QED  BY <1>4, <1>6, <1>7, <1>8, <1>9 DEF RunInv

(* Before and after the tools the machine stays as it is, but for the .env  *)
(* files, what a killed installation has written, a new session, docker and *)
(* the migrations.                                                         *)
LEMMA SameMachine ==
  ASSUME Machine, UNCHANGED <<host, hostVars>>
  PROVE  Machine' /\ Grows /\ EnvOnly
<1>1. UNCHANGED <<host, profile>>  BY DEF hostVars
<1> QED  BY <1>1, NothingKeeps DEF EnvOnly

LEMMA MachineNext ==
  ASSUME SetupInv, Next, ~ToolStep
  PROVE  Machine' /\ Grows /\ (flags.check /\ stage # "idle" => EnvOnly)
<1>0. /\ Machine /\ Checking /\ profile \subseteq {"fnm", "moon", "android"}
  BY DEF SetupInv, RunInv, Machine, MachineTyped
<1>1. CASE \/ DetectPlatform \/ DecideStart \/ ConfirmStart \/ ProbeStack \/ ComposeUp
           \/ (\E i \in DOMAIN Services : PollHealth(i)) \/ Exit
           \/ \E f \in FlagSets : Start(f)
  <2>1. UNCHANGED <<host, hostVars>>
    BY <1>1 DEF DetectPlatform, DecideStart, ConfirmStart, ProbeStack, ComposeUp, PollHealth,
                Exit, Start, Proceeds, Ends, StartFails, Goes, runConstants
  <2> QED  BY <1>0, <2>1, SameMachine
<1>2. CASE EnsureEnvFiles
  <2>1. PICK d \in SUBSET {".env", "mobile .env"} : Gain(d, {})
    <3>1. CASE Gain({".env", "mobile .env"}, {})  BY <3>1
    <3>2. CASE \E written \in {{}, {".env"}} : Gain(written, {})  BY <3>2
    <3> QED  BY <1>2, <3>1, <3>2 DEF EnsureEnvFiles
  <2>2. UNCHANGED <<host, profile>>
    BY <1>2 DEF EnsureEnvFiles, Proceeds, Ends, runConstants
  <2> DEFINE c == {}
  <2>3. /\ d \subseteq Things /\ c \subseteq Programs /\ c \subseteq disk \cup d
        /\ "node" \notin c /\ Gain(d, c)
    BY <2>1 DEF Things
  <2>4. profile \subseteq profile' /\ profile' \subseteq {"fnm", "moon", "android"}
    BY <1>0, <2>2
  <2>5. EnvOnly  BY <2>1, <2>2 DEF EnvOnly, Gain, dockerVars
  <2> HIDE DEF c
  <2>6. Machine' /\ Grows  BY <1>0, <2>2, <2>3, <2>4, GainKeeps
  <2> QED  BY <2>5, <2>6
<1>3. CASE Kill
  <2>1. PICK d \in SUBSET {"deps", "platform", "ndk"} :
          Gain(d, {}) /\ (phase # "install" => d = {})
    <3>1. PICK d \in {{}} \cup {{"deps"} : x \in {"mobile-deps"} \cap {stage}}
                   \cup {{"platform", "ndk"} : x \in {"android-sdk"} \cap {stage}} :
            Gain(IF phase = "install" THEN d ELSE {}, {})
      BY <1>3 DEF Kill
    <3>2. d \subseteq {"deps", "platform", "ndk"}  BY <3>1
    <3>3. CASE phase = "install"  BY <3>1, <3>2, <3>3
    <3>4. CASE phase # "install"  BY <3>1, <3>4
    <3> QED  BY <3>3, <3>4
  <2>2. UNCHANGED <<host, profile>> /\ stage # "idle"  BY <1>3 DEF Kill, Ends
  <2> DEFINE c == {}
  <2>3. /\ d \subseteq Things /\ c \subseteq Programs /\ c \subseteq disk \cup d
        /\ "node" \notin c /\ Gain(d, c)
    BY <2>1 DEF Things, SdkParts
  <2>4. profile \subseteq profile' /\ profile' \subseteq {"fnm", "moon", "android"}
    BY <1>0, <2>2
  <2>5. flags.check => EnvOnly
    BY <1>0, <2>1, <2>2 DEF Checking, EnvOnly, Gain, dockerVars
  <2> HIDE DEF c
  <2>6. Machine' /\ Grows  BY <1>0, <2>2, <2>3, <2>4, GainKeeps
  <2> QED  BY <2>5, <2>6
<1>4. CASE NewSession
  <2>1. /\ path' = PathOf(disk, profile) /\ login' = group /\ stage = "idle"
        /\ UNCHANGED <<host, disk, profile, daemon, group, healthy, migrated>>
    BY <1>4 DEF NewSession
  <2>2. SystemNode(host) \subseteq Programs
    BY <1>0, HostsAreTyped DEF Machine, MachineTyped
  <2>3. path' \subseteq Programs /\ path' \subseteq disk
    BY <1>0, <2>1, <2>2, NodeFound DEF Machine, Sound
  <2>4. MachineTyped'  BY <1>0, <2>1, <2>3 DEF Machine, MachineTyped
  <2>5. NodeStays' <=> "node" \in path'
    BY <2>1 DEF NodeStays, PathOf, SystemNode
  <2>6. Sound'  BY <1>0, <2>1, <2>3, <2>5 DEF Machine, Sound, SystemNode
  <2> QED  BY <2>1, <2>4, <2>6 DEF Machine, Grows
<1>5. CASE DockerChanges \/ RunMigrations
  <2>1. /\ UNCHANGED <<host, disk, path, profile, group, login>>
        /\ daemon' \in BOOLEAN /\ migrated' \in BOOLEAN
        /\ daemon' => daemon \/ "docker" \in disk
        /\ healthy' \subseteq {"postgres", "nats", "seaweedfs"}
        /\ stage \in Starting
    <3>1. CASE RunMigrations
      BY <1>0, <3>1 DEF RunMigrations, Proceeds, StartFails, runConstants, Machine,
                        MachineTyped, Starting
    <3>2. CASE DockerChanges
      <4>1. \A i \in DOMAIN Services : Services[i] \in {"postgres", "nats", "seaweedfs"}
        BY DEF Services
      <4>2. stage \in Starting  BY <3>2, <4>1 DEF DockerChanges, Starting
      <4> QED  BY <1>0, <3>2, <4>1, <4>2 DEF DockerChanges, Machine, MachineTyped
    <3> QED  BY <1>5, <3>1, <3>2
  <2>2. MachineTyped'  BY <1>0, <2>1 DEF Machine, MachineTyped
  <2>3. NodeStays' <=> NodeStays  BY <2>1 DEF NodeStays, PathOf, SystemNode
  <2>4. Sound'  BY <1>0, <2>1, <2>3 DEF Machine, Sound, SystemNode
  <2> QED  BY <1>0, <2>1, <2>2, <2>4 DEF Machine, Grows, Checking, Starting
<1> QED  BY <1>1, <1>2, <1>3, <1>4, <1>5 DEF Next, Run, ToolStep

(* The stages around the tools.                                             *)
LEMMA RunNext ==
  ASSUME SetupInv, Next, ~ToolStep, Grows
  PROVE  RunInv'
<1>0. /\ RunTyped /\ Checking /\ Passed /\ Succeeded
      /\ \A s \in {"sccache", "node", "docker"} : Delivers(s) => Delivers(s)'
      /\ \A i \in DOMAIN Services : Services[i] \in Starting
      /\ \A s \in Starting \cup {"start", "end"} : s \in AllStages /\ s \notin ToDocker
      /\ \A s \in Starting : s # "start" /\ s # "end" /\ s # "idle"
      /\ \A i \in DOMAIN Services : After(Services[i]) \in Starting
  BY DeliversKept, Order
     DEF SetupInv, RunInv, Services, Starting, AllStages, ToDocker, ToNode, ToSccache, Tools
<1>1. \A s : s \notin ToDocker => s \notin ToNode /\ s \notin ToSccache
  BY DEF ToDocker, ToNode
(* It goes on, without a failure of its own.                                *)
<1>2. ASSUME NEW s \in AllStages, stage' = s, phase' \in {"detect", "prompt"},
             UNCHANGED <<flags, exit, runs, failed, ready>>,
             attempts' \in 0..(MaxAttempts - 1),
             s \in ToSccache \/ stage \notin ToDocker,
             flags.check => phase' = "detect" /\ s \notin Starting
      PROVE  RunInv'
  <2>1. RunTyped'  BY <1>0, <1>2 DEF RunTyped
  <2>2. Checking'  BY <1>2 DEF Checking
  <2>3. Passed'
    BY <1>0, <1>1, <1>2 DEF Passed, ToNode, ToDocker
  <2>4. Succeeded'  BY <1>0, <1>2 DEF Succeeded
  <2> QED  BY <2>1, <2>2, <2>3, <2>4 DEF RunInv
(* It ends, or another begins.                                              *)
<1>3. ASSUME NEW f \in FlagSets, flags' = f, stage' \in {"idle", "platform"},
             phase' = "detect", failed' = FALSE, ready' = {}, attempts' = 0,
             runs' \in 0..MaxRuns, exit' \in {"none", "success", "failure", "killed"},
             exit' = "success" => stage = "end" /\ ~failed
      PROVE  RunInv'
  <2>1. RunTyped'  BY <1>3, FlagsAreTyped DEF RunTyped, AllStages
  <2>2. Checking'  BY <1>3 DEF Checking, Starting
  <2>3. Passed'  BY <1>3 DEF Passed, ToSccache, ToNode, ToDocker
  <2>4. Succeeded'  BY <1>0, <1>1, <1>3 DEF Succeeded, Passed
  <2> QED  BY <2>1, <2>2, <2>3, <2>4 DEF RunInv
<1>4. ASSUME StartFails, stage \in Starting PROVE RunInv'
  <2>1. /\ failed' = TRUE /\ stage' = "end" /\ attempts' = 0 /\ stage # "idle"
        /\ UNCHANGED <<flags, exit, runs, phase, ready>>
    BY <1>0, <1>4 DEF StartFails, runConstants
  <2>2. ~flags.check  BY <1>0, <1>4, <2>1 DEF Checking
  <2>3. RunTyped'  BY <1>0, <2>1, FlagsAreTyped DEF RunTyped, AllStages
  <2>4. Checking' /\ Passed'  BY <2>1, <2>2 DEF Checking, Passed
  <2>5. Succeeded'  BY <1>0, <2>1 DEF Succeeded
  <2> QED  BY <2>3, <2>4, <2>5 DEF RunInv
<1>5. ASSUME NEW result \in {"success", "failure", "killed"}, Ends(result),
             result = "success" => stage = "end" /\ ~failed
      PROVE  RunInv'
  BY <1>0, <1>3, <1>5 DEF Ends, RunTyped
<1>6. CASE DetectPlatform \/ EnsureEnvFiles
  <2>1. stage \in {"platform", "env"}  BY <1>6 DEF DetectPlatform, EnsureEnvFiles
  <2>2. CASE Proceeds("env") \/ Proceeds("rust")
    <3>1. PICK s \in {"env", "rust"} : Proceeds(s)  BY <2>2
    <3>2. s \in AllStages /\ s \in ToSccache /\ s \notin Starting /\ stage # "idle"
      BY <2>1 DEF AllStages, ToSccache, Tools, Starting
    <3>3. /\ stage' = s
          /\ UNCHANGED <<flags, exit, runs, phase, failed, ready, attempts>>
      BY <3>1 DEF Proceeds, runConstants
    <3>4. RunTyped'  BY <1>0, <3>2, <3>3 DEF RunTyped
    <3>5. Checking'  BY <1>0, <3>2, <3>3 DEF Checking
    <3>6. Passed' /\ Succeeded'
      BY <1>0, <3>2, <3>3 DEF Passed, Succeeded, ToNode, ToDocker
    <3> QED  BY <3>4, <3>5, <3>6 DEF RunInv
  <2>3. CASE Ends("failure")  BY <1>5, <2>3
  <2> QED  BY <1>6, <2>2, <2>3 DEF DetectPlatform, EnsureEnvFiles
<1>7. CASE DecideStart \/ ConfirmStart
  <2>1. stage = "start"  BY <1>7 DEF DecideStart, ConfirmStart, At
  <2>2. \E s \in {"start", "probe", "end"} :
          /\ stage' = s /\ UNCHANGED <<flags, exit, runs, failed, ready, attempts>>
          /\ phase' \in {"detect", "prompt"}
          /\ flags.check => phase' = "detect" /\ s = "end"
    <3>1. CASE DecideStart
      BY <1>0, <2>1, <3>1 DEF DecideStart, At, Proceeds, Goes, runConstants, Checking
    <3>2. CASE ConfirmStart
      BY <1>0, <2>1, <3>2 DEF ConfirmStart, At, runConstants, Checking
    <3> QED  BY <1>7, <3>1, <3>2
  <2>3. stage \notin ToDocker /\ "start" \in AllStages /\ "probe" \in AllStages
        /\ "end" \in AllStages /\ "end" \notin Starting
    BY <1>0, <2>1 DEF AllStages, Starting
  <2>4. attempts \in 0..(MaxAttempts - 1)  BY <1>0 DEF RunTyped
  <2> QED  BY <1>2, <2>2, <2>3, <2>4
<1>8. CASE ProbeStack \/ ComposeUp \/ RunMigrations \/ \E i \in DOMAIN Services : PollHealth(i)
  <2>1. stage \in Starting
    BY <1>0, <1>8 DEF ProbeStack, ComposeUp, RunMigrations, PollHealth, Starting
  <2>2. ~flags.check /\ stage \notin ToDocker  BY <1>0, <2>1 DEF Checking
  <2>3. \/ StartFails
        \/ \E s \in Starting \cup {"end"} :
             /\ stage' = s /\ UNCHANGED <<flags, exit, runs, phase, failed, ready>>
             /\ attempts' \in 0..(MaxAttempts - 1)
    <3>1. CASE ProbeStack \/ ComposeUp \/ RunMigrations
      <4>1. \/ StartFails \/ Proceeds("up") \/ Proceeds("postgres") \/ Proceeds("end")
        BY <3>1 DEF ProbeStack, ComposeUp, RunMigrations, Services
      <4> QED  BY <1>0, <4>1 DEF Proceeds, runConstants, RunTyped, Starting
    <3>2. ASSUME NEW i \in DOMAIN Services, PollHealth(i)
          PROVE  \/ StartFails
                 \/ \E s \in Starting :
                      /\ stage' = s /\ UNCHANGED <<flags, exit, runs, phase, failed, ready>>
                      /\ attempts' \in 0..(MaxAttempts - 1)
      <4>1. CASE Services[i] \in healthy
        BY <1>0, <3>2, <4>1, FlagsAreTyped DEF PollHealth, runConstants
      <4>2. CASE Services[i] \notin healthy /\ attempts + 1 < MaxAttempts
        <5>1. attempts + 1 \in 0..(MaxAttempts - 1)
          BY <1>0, <4>2, FlagsAreTyped DEF RunTyped
        <5> QED  BY <1>0, <3>2, <4>2, <5>1 DEF PollHealth, runConstants
      <4>3. CASE Services[i] \notin healthy /\ ~(attempts + 1 < MaxAttempts)
        BY <3>2, <4>3 DEF PollHealth
      <4> QED  BY <4>1, <4>2, <4>3
    <3> QED  BY <1>8, <3>1, <3>2
  <2>4. ASSUME NEW s \in Starting \cup {"end"}, stage' = s,
               UNCHANGED <<flags, exit, runs, phase, failed, ready>>,
               attempts' \in 0..(MaxAttempts - 1)
        PROVE  RunInv'
    <3>1. RunTyped'  BY <1>0, <2>4 DEF RunTyped
    <3>2. Checking'  BY <2>2, <2>4 DEF Checking
    <3>3. Passed'  BY <1>0, <1>1, <2>2, <2>4 DEF Passed
    <3>4. Succeeded'  BY <1>0, <2>4 DEF Succeeded
    <3> QED  BY <3>1, <3>2, <3>3, <3>4 DEF RunInv
  <2> QED  BY <1>4, <2>1, <2>3, <2>4
<1>9. CASE Exit
  BY <1>0, <1>5, <1>9 DEF Exit, RunTyped
<1>10. CASE Kill  BY <1>5, <1>10 DEF Kill
<1>11. ASSUME NEW f \in FlagSets, Start(f) PROVE RunInv'
  <2>1. runs' \in 0..MaxRuns
    BY <1>0, <1>11, FlagsAreTyped DEF Start, RunTyped
  <2> QED  BY <1>3, <1>11, <2>1 DEF Start
<1>12. CASE NewSession \/ DockerChanges
  <2>1. UNCHANGED <<flags, stage, phase, failed, ready, attempts, exit, runs>>
    BY <1>12 DEF NewSession, DockerChanges
  <2> QED  BY <1>0, <2>1 DEF RunInv, RunTyped, Checking, Passed, Succeeded
<1> QED  BY <1>6, <1>7, <1>8, <1>9, <1>10, <1>11, <1>12 DEF Next, Run, ToolStep

LEMMA SetupInit == Init => SetupInv
<1> SUFFICES ASSUME Init PROVE SetupInv
  OBVIOUS
<1>1. /\ host \in Hosts /\ disk = host.disk \cup SystemNode(host)
      /\ path = (host.disk \cap Programs) \cup SystemNode(host) /\ profile = {}
      /\ daemon = ("docker" \in disk)
      /\ group = FALSE /\ login = FALSE /\ healthy = {} /\ migrated = FALSE
  BY Zenon DEF Init
<1>2. /\ host.disk \subseteq Things /\ "node" \notin host.disk
      /\ SystemNode(host) \subseteq Programs
  BY <1>1, HostsAreTyped
<1>3. MachineTyped
  <2>1. daemon \in BOOLEAN
    <3>1. ("docker" \in disk) \in BOOLEAN  OBVIOUS
    <3> QED  BY <1>1, <3>1, Zenon
  <2> QED  BY <1>1, <1>2, <2>1 DEF MachineTyped, Things
<1>4. "node" \in path => "node" \in SystemNode(host)  BY <1>1, <1>2
<1>5. Sound
  <2>1. daemon => "docker" \in disk  BY <1>1, Zenon
  <2>2. path \subseteq disk /\ SystemNode(host) \subseteq disk  BY <1>1
  <2> QED  BY <1>4, <2>1, <2>2, NodeFound DEF Sound, NodeStays
<1>6. flags \in FlagSets  BY DevSetupAssumption DEF Init
<1>7. RunTyped
  <2>1. /\ stage = "idle" /\ phase = "detect" /\ failed = FALSE /\ ready = {}
        /\ attempts = 0 /\ exit = "none" /\ runs = 0
    BY Zenon DEF Init
  <2>2. 0 \in 0..MaxRuns /\ 0 \in 0..(MaxAttempts - 1)  BY FlagsAreTyped
  <2> QED  BY <1>6, <2>1, <2>2 DEF RunTyped
<1>8. Checking /\ Passed /\ Succeeded
  BY DEF Init, Checking, Passed, Succeeded, ToSccache, ToNode, ToDocker
<1> QED  BY <1>3, <1>5, <1>7, <1>8 DEF SetupInv, Machine, RunInv

LEMMA SetupNext ==
  ASSUME SetupInv, [Next]_vars
  PROVE  /\ SetupInv'
         /\ flags.check /\ stage # "idle" => EnvOnly
<1>1. CASE UNCHANGED vars
  <2>1. UNCHANGED <<host, hostVars>>
        /\ UNCHANGED <<flags, stage, phase, failed, ready, attempts, exit, runs>>
    BY <1>1 DEF vars
  <2>2. Machine' /\ Grows /\ EnvOnly  BY <2>1, SameMachine DEF SetupInv
  <2>3. \A s \in {"sccache", "node", "docker"} : Delivers(s) => Delivers(s)'
    BY <2>2, DeliversKept
  <2>4. RunInv'
    BY <2>1, <2>3 DEF SetupInv, RunInv, RunTyped, Checking, Passed, Succeeded
  <2> QED  BY <2>2, <2>4 DEF SetupInv
<1>2. CASE ToolStep
  <2>1. PICK t \in Tools : ToolLeaves(t)  BY <1>2, ToolStepLeaves DEF SetupInv
  <2> QED  BY <2>1, ToolRunInv DEF SetupInv, ToolLeaves
<1>3. CASE Next /\ ~ToolStep
  BY <1>3, MachineNext, RunNext DEF SetupInv
<1> QED  BY <1>1, <1>2, <1>3

LEMMA SetupInvariance == Spec => []SetupInv
<1>1. SetupInv /\ [Next]_vars => SetupInv'  BY SetupNext
<1> QED  BY <1>1, SetupInit, PTL DEF Spec
----------------------------------------------------------------------------
(* Every variable keeps its type, and no service is polled more often than  *)
(* HEALTH_MAX_ATTEMPTS.                                                     *)
THEOREM TypeCorrect == Spec => []TypeOK
<1>1. SetupInv => TypeOK
  <2> SUFFICES ASSUME SetupInv PROVE TypeOK
    OBVIOUS
  <2>1. stage \in {"idle"} \cup {Stages[i] : i \in DOMAIN Stages}
    BY StageNames DEF SetupInv, RunInv, RunTyped, AllStages
  <2>2. {daemon, group, login, migrated, failed} \subseteq BOOLEAN
    BY DEF SetupInv, Machine, MachineTyped, RunInv, RunTyped
  <2> QED  BY <2>1, <2>2 DEF SetupInv, Machine, MachineTyped, RunInv, RunTyped, TypeOK
<1> QED  BY <1>1, SetupInvariance, PTL

(* On whatever host and after whatever runs, killed ones among them: a run  *)
(* that succeeds leaves a machine on which a new session finds sccache and  *)
(* a usable node and docker is installed.  The lines of one tool in the     *)
(* shell profile survive those of the next (ensure_profile_block), and a    *)
(* required tool that is not there fails the run (is_blocking_failure).     *)
THEOREM SuccessLasts == Spec => []SuccessIsUsable
<1>1. SetupInv => SuccessIsUsable
  <2> SUFFICES ASSUME SetupInv, exit = "success", host.writable
               PROVE  {"sccache", "node"} \subseteq PathOf(disk, profile) /\ "docker" \in disk
    BY DEF SuccessIsUsable
  <2>1. "sccache" \in disk /\ NodeStays /\ "docker" \in disk
    BY DEF SetupInv, RunInv, Succeeded, Delivers
  <2> QED  BY <2>1, NodeFound DEF NodeStays
<1> QED  BY <1>1, SetupInvariance, PTL

(* No step of a run with --check, a kill included, changes anything on the  *)
(* machine but the .env files: it never reaches a prompt, an installation   *)
(* or the start of the stack (main, ensure_env_files, start_requested).     *)
THEOREM CheckIsHarmless == Spec => CheckOnlyWritesEnv
<1>1. SetupInv /\ [Next]_vars =>
        [flags.check /\ stage # "idle" =>
           /\ disk' \ {".env", "mobile .env"} = disk \ {".env", "mobile .env"}
           /\ UNCHANGED <<path, profile, group, login, migrated>>]_vars
  BY SetupNext DEF EnvOnly
<1> QED  BY <1>1, SetupInvariance, PTL DEF Spec, CheckOnlyWritesEnv
=============================================================================
