------------------------------ MODULE TimeSync ------------------------------
(***************************************************************************)
(* The time_sync phase: ensure_time_synchronization of app/time_sync.py,   *)
(* which falls back to chrony when the clock is not synchronized.          *)
(*                                                                         *)
(* A configuration file is the sequence of its lines: the managed header   *)
(* and footer, a managed server line, and lines of others.                 *)
(***************************************************************************)
EXTENDS BaseRun

VARIABLES
    net,     \* what no step of the program changes
    clock,   \* the time services, and what they have achieved
    conf     \* the file that chrony_config_target chooses

timeVars == <<net, clock, conf>>

(* providers: some configured NTP provider answers; pool: so do the        *)
(* servers of the distribution; ownFile: the sources.d or conf.d file is   *)
(* read by chrony and is the target, otherwise it is chrony.conf.          *)
Net == [providers : BOOLEAN, pool : BOOLEAN, ownFile : BOOLEAN]
ConfLine == {"header", "server", "footer", "other"}
Clock == [installed : BOOLEAN,  \* chrony is
          services : SUBSET {"timesyncd", "chrony"},  \* the active ones
          synced : BOOLEAN,     \* NTPSynchronized
          selected : BOOLEAN,   \* chrony has selected a source
          loaded : BOOLEAN]     \* chrony runs with the managed servers

Block == <<"header", "server", "footer">>

(* verify_time_sync_health, and the early returns of ensure.               *)
Healthy ==
    /\ clock.synced /\ clock.services # {}
    /\ "chrony" \in clock.services => clock.selected

MergedMutant(lines) == lines \o Block
(* configure_chrony: the new content of chrony.conf.                       *)
Index(lines, l) == CHOOSE i \in DOMAIN lines :
                     lines[i] = l /\ \A j \in 1..(i - 1) : lines[j] # l
Merged(lines) ==
    IF {"header", "footer"} \subseteq {lines[i] : i \in DOMAIN lines}
    THEN SubSeq(lines, 1, Index(lines, "header") - 1) \o Block
         \o SubSeq(lines, Index(lines, "footer") + 1, Len(lines))
    ELSE lines \o Block
Configured == IF net.ownFile THEN Block ELSE Merged(conf)

-----------------------------------------------------------------------------
ConsiderTime == Consider("time_sync", Healthy, "status") /\ UNCHANGED timeVars

(* No probe answers when no provider is there, or when each times out.     *)
Probe ==
    /\ At("time_sync", "status")
    /\ \/ Healthy /\ Goto("verify") /\ UNCHANGED faults
       \/ ~Healthy /\ net.providers /\ Goto("install") /\ UNCHANGED faults
       \/ ~Healthy /\ ~net.providers /\ Goto("failed") /\ UNCHANGED faults
       \/ ~Healthy /\ net.providers /\ Goto("failed") /\ Fault
    /\ UNCHANGED timeVars

(* The package takes the place of systemd-timesyncd and starts chrony.     *)
Installed ==
    IF clock.installed THEN clock
    ELSE [clock EXCEPT !.installed = TRUE, !.services = {"chrony"}, !.selected = FALSE]
InstallChrony ==
    /\ At("time_sync", "install")
    /\ \/ clock' = Installed /\ Goto("configure") /\ UNCHANGED faults
       \/ clock' \in {clock, Installed} /\ Goto("failed") /\ Fault
    /\ UNCHANGED <<net, conf>>

ConfigureChrony ==
    /\ At("time_sync", "configure")
    /\ \/ conf' = Configured /\ Goto("restart") /\ UNCHANGED faults
       \/ conf' \in {conf, Configured} /\ Goto("failed") /\ Fault
    /\ UNCHANGED <<net, clock>>

Restarted ==
    [clock EXCEPT !.services = @ \cup {"chrony"}, !.selected = FALSE, !.loaded = TRUE]
RestartChrony ==
    /\ At("time_sync", "restart")
    /\ \/ clock' = Restarted /\ Goto("wait") /\ UNCHANGED faults
       \/ /\ clock' \in {clock, Restarted, [clock EXCEPT !.services = @ \ {"chrony"}]}
          /\ Goto("failed") /\ Fault
    /\ UNCHANGED <<net, conf>>

(* wait_for_synchronization: until it is healthy or the deadline is over.  *)
WaitForSync ==
    /\ At("time_sync", "wait")
    /\ Goto(IF Healthy THEN "verify" ELSE "failed")
    /\ UNCHANGED <<timeVars, faults>>

VerifyTime == Verify("time_sync", Healthy) /\ UNCHANGED timeVars

TimeProcess ==
    \/ ConsiderTime \/ Probe \/ InstallChrony \/ ConfigureChrony \/ RestartChrony
    \/ WaitForSync \/ VerifyTime

-----------------------------------------------------------------------------
(* The clock itself, and who else changes it.                              *)
CanSync ==
    \/ net.pool /\ clock.services # {}
    \/ net.providers /\ clock.loaded /\ "chrony" \in clock.services
Synchronize ==
    /\ CanSync /\ ~Healthy
    /\ clock' = [clock EXCEPT !.synced = TRUE, !.selected = "chrony" \in clock.services]
    /\ UNCHANGED <<runVars, net, conf, faults>>

LoseTime ==
    /\ phase = "none" /\ Fault
    /\ \/ clock' = [clock EXCEPT !.synced = FALSE, !.selected = FALSE]
       \/ \E s \in clock.services : clock' = [clock EXCEPT !.services = @ \ {s}]
    /\ UNCHANGED <<runVars, net, conf>>

(* Enabled services start with what is configured.                         *)
RebootedClock ==
    [clock EXCEPT !.synced = FALSE, !.selected = FALSE,
                  !.services = IF clock.installed THEN {"chrony"} ELSE @,
                  !.loaded = clock.installed /\ "server" \in {conf[i] : i \in DOMAIN conf}]

OtherLines(lines) == Picked(lines, {i \in DOMAIN lines : lines[i] = "other"})
=============================================================================
