------------------------------- MODULE MCBoot -------------------------------
(***************************************************************************)
(* Instances of Boot for TLC.                                              *)
(***************************************************************************)
EXTENDS Boot

MCPremounted == {{}, {"dev"}, {"proc", "sys", "run", "dev"}}

MCRoots == {[ro |-> ro_, run |-> run_, devices |-> ~ro_] :
              ro_ \in BOOLEAN, run_ \in {"directory", "link"}}
           \cup {[ro |-> TRUE, run |-> "none", devices |-> TRUE],
                 [ro |-> FALSE, run |-> "none", devices |-> FALSE]}

MCLines ==
  { <<>>, <<"/run/service">>, <<"single">>, <<"/bin/x", "-h">>, <<"-t", "/bin/x", "-s">>,
    <<"-t", "5000", "-s">>, <<"-t", "5000", "-c", "8">>, <<"-c", "1">>,
    <<"-c", "8", "-t", "5000", "/run/service">>, <<"-s", "/run/service">>,
    <<"/run/service", "-h">>, <<"-s", "-h">>, <<"-d", "8">>,
    <<"-s", "/run/service", "-h">>, <<"-c", "8", "/bin/x">> }

MCFiles == {<<"/bin", "busybox">>, <<"/sbin", "busybox">>, <<"/bin", "toybox">>,
            <<"/bin", "init">>, <<"/sbin", "init">>, <<"/sbin", "sulogin">>,
            <<"/usr/bin", "zsh">>, <<"/bin", "sh">>}
MCSelves == {<<"/bin", "init">>, <<"/sbin", "init">>, <<"/usr/bin", "init">>,
             <<"/sbin", "bbinit">>}
=============================================================================
