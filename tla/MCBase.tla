------------------------------- MODULE MCBase -------------------------------
EXTENDS Base

SomeSizes == {0, 512, 9216}

Synced == [installed |-> FALSE, services |-> {"timesyncd"}, synced |-> TRUE,
           selected |-> FALSE, loaded |-> FALSE]
Quiet == [net |-> [providers |-> TRUE, pool |-> TRUE, ownFile |-> TRUE],
          clock |-> Synced, conf |-> <<>>,
          machine |-> [ram |-> 4096, disk |-> 10240, supported |-> TRUE],
          swapfile |-> NoSwapFile, active |-> {}, fstab |-> Lines(<<"other">>),
          policy |-> [written |-> TRUE, distro |-> FALSE, legacy |-> FALSE,
                      origin |-> TRUE, later |-> "none"]]
Foreign == [kind |-> "file", size |-> 1024, private |-> TRUE, formatted |-> TRUE,
            ours |-> FALSE]

(* Hosts that differ in their swap, with a clock that is right: other      *)
(* entries in fstab, also stale ones, no fstab, a swap of the provider, a  *)
(* file that is in the way, too little space, a file system that is not    *)
(* supported.                                                              *)
SwapHosts ==
    {[Quiet EXCEPT !.fstab = f] :
       f \in {NoFstab, Lines(<<"other", "swapfile">>), Lines(<<"comment", "other", "managed">>),
              Lines(<<"comment", "managed", "other">>)}}
    \cup {Quiet,
          [Quiet EXCEPT !.active = {"disk"}, !.fstab = Lines(<<"other", "swap">>)],
          [Quiet EXCEPT !.active = {"disk"}],
          [Quiet EXCEPT !.swapfile = Foreign],
          [Quiet EXCEPT !.swapfile = Foreign, !.active = {"swapfile"},
                        !.fstab = Lines(<<"swapfile">>)],
          [Quiet EXCEPT !.swapfile = [NoSwapFile EXCEPT !.kind = "other"]],
          [Quiet EXCEPT !.machine.disk = 2560, !.machine.ram = 2048],
          [Quiet EXCEPT !.machine.disk = 3072, !.machine.ram = 2048],
          [Quiet EXCEPT !.machine.supported = FALSE]}

(* Hosts that differ in their clock, with a swap that is left alone.       *)
TimeHosts ==
  LET Confs(n) == IF n.ownFile THEN {<<>>}
                  ELSE {<<"other">>, <<"other">> \o Block \o <<"other">>}
  IN UNION {
    {[Quiet EXCEPT !.net = n, !.clock = c, !.conf = f, !.active = {"disk"},
                   !.fstab = Lines(<<"other", "swap">>)] :
       c \in {[Synced EXCEPT !.synced = s, !.services = v] :
                 s \in BOOLEAN, v \in {{}, {"timesyncd"}}}
             \cup {[Synced EXCEPT !.installed = TRUE, !.services = {"chrony"},
                                  !.selected = s] : s \in BOOLEAN},
       f \in Confs(n)} : n \in Net}

(* Hosts that differ in their APT policy, with a right clock and a swap.   *)
PolicyHosts ==
    {[Quiet EXCEPT !.policy = p, !.active = {"disk"}, !.fstab = Lines(<<"swap">>)] :
       p \in {[Quiet.policy EXCEPT !.written = FALSE],
              [Quiet.policy EXCEPT !.written = FALSE, !.distro = TRUE],
              [Quiet.policy EXCEPT !.written = FALSE, !.legacy = TRUE],
              [Quiet.policy EXCEPT !.written = FALSE, !.origin = FALSE],
              [Quiet.policy EXCEPT !.written = FALSE, !.later = "reboot"]}}
AllHosts == SwapHosts \cup TimeHosts \cup PolicyHosts
=============================================================================
