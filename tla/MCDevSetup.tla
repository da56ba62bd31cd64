------------------------------ MODULE MCDevSetup ------------------------------
(* Hosts and flags for TLC.                                                *)
EXTENDS DevSetupProperties

Unattended == [check |-> FALSE, yes |-> FALSE, tty |-> FALSE, start |-> TRUE,
               no_start |-> FALSE, skip_mobile |-> TRUE]
Attended   == [Unattended EXCEPT !.tty = TRUE, !.start = FALSE, !.skip_mobile = FALSE]
Check      == [Unattended EXCEPT !.check = TRUE, !.tty = TRUE, !.skip_mobile = FALSE]
NoStart    == [Unattended EXCEPT !.yes = TRUE, !.tty = TRUE, !.no_start = TRUE]
MCFlagSets == {Unattended, Attended, Check, NoStart}

Ubuntu == [os |-> "linux", ids |-> {"ubuntu", "debian"}, node |-> <<20, 19, 3>>,
           disk |-> {"rust"}, writable |-> TRUE]
Arch   == [os |-> "linux", ids |-> {"arch"}, node |-> <<>>,
           disk |-> {"sccache", "moon", "docker", "sg", "java"}, writable |-> FALSE]
Mac    == [os |-> "macos", ids |-> {}, node |-> <<22, 13, 0>>,
           disk |-> {"rust", "sccache", "brew", "docker"}, writable |-> TRUE]
Plan9  == [Ubuntu EXCEPT !.os = "other"]
MCHosts == {Ubuntu, Arch, Mac, Plan9}
=============================================================================
