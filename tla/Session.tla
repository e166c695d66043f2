------------------------------- MODULE Session -------------------------------
(***************************************************************************)
(* scripts/piracast.py and scripts/wfd.py: the loop that lets one source   *)
(* after the other connect over Wi-Fi Direct, gives it an address by DHCP, *)
(* reads that address from the lease file and runs the RTSP session (Rtsp) *)
(* until it ends; then the core application is killed.                     *)
(*                                                                         *)
(* One script; around it the Wi-Fi driver, hostapd, the DHCP server and    *)
(* the sources, which act at any time.  The time stamp of the lease file   *)
(* is the number of leases written to it.                                  *)
(*                                                                         *)
(* A definition whose comment begins with "Slip" is not part of the        *)
(* specification: put in the place of the one it is named after, it is a   *)
(* plausible mistake that breaks the property it names.                    *)
(***************************************************************************)
EXTENDS Rtsp

CONSTANTS
  Devices,      \* the sources
  NoDevice,
  MaxRequests,  \* bound: discovery requests
  MaxLeases     \* bound: leases written

ASSUME SessionAssumption ==
  /\ NoDevice \notin Devices
  /\ MaxRequests \in Nat /\ MaxLeases \in Nat

VARIABLES
  pc, prev_ts, ip, count,  \* the script
  core, dhcp, hostapd, wps,  \* running processes; push button mode
  p2p,                     \* the state of the driver
  requests,                \* how many discovery requests there were
  stations, leases,        \* who is associated; the lease file
  renewed                  \* auxiliary: a lease was written after the stamp
                           \* was read and before hostapd was killed

script  == <<pc, prev_ts, ip, count>>
daemons == <<core, dhcp, hostapd, wps>>
driver  == <<p2p, requests>>
network == <<stations, leases, renewed>>
vars    == <<rtspVars, script, daemons, driver, network>>

(* What iwpriv reads as the status in each state of the driver.            *)
Reads ==
  [off |-> {0}, listen |-> {11}, request |-> {8, 19, 22}, agreed |-> {10, 19}]

TypeOK ==
  /\ RtspTypeOK
  /\ pc \in {"dhcp", "stamp", "killall", "disable", "enable", "poll", "scan",
             "nego", "hostapd", "wps", "station", "lease", "connect", "rtsp",
             "stop", "kill", "dead"}
  /\ prev_ts \in 0 .. MaxLeases /\ ip \in Devices \cup {NoDevice}
  /\ count \in 0 .. 4
  /\ {core, dhcp, hostapd, wps, renewed} \subseteq BOOLEAN
  /\ p2p \in DOMAIN Reads
  /\ requests \in 0 .. MaxRequests
  /\ stations \subseteq Devices
  /\ leases \in Seq(Devices)

(* README.md: the core is started by hand before the script.               *)
Init ==
  /\ RtspInit
  /\ pc = "dhcp" /\ prev_ts = 0 /\ ip = NoDevice /\ count = 0
  /\ core = TRUE /\ dhcp = FALSE /\ hostapd = FALSE /\ wps = FALSE
  /\ p2p = "off" /\ requests = 0
  /\ stations = {} /\ leases = <<>> /\ renewed = FALSE

Goto(from, to) == pc = from /\ pc' = to

-----------------------------------------------------------------------------
(* The main loop, up to the wait for a connection.                         *)
StartDhcp ==
  /\ Goto("dhcp", "stamp")
  /\ dhcp' = TRUE
  /\ UNCHANGED <<rtspVars, prev_ts, ip, count, core, hostapd, wps, driver, network>>

(* Slip, DiesForAReason: the stamp is read before the loop, not in it.     *)
ReadStamp_Once ==
  /\ Goto("stamp", "killall")
  /\ renewed' = FALSE
  /\ UNCHANGED <<rtspVars, prev_ts, ip, count, daemons, driver, stations, leases>>

ReadStamp ==
  /\ Goto("stamp", "killall")
  /\ prev_ts' = Len(leases)
  /\ renewed' = FALSE
  /\ UNCHANGED <<rtspVars, ip, count, daemons, driver, stations, leases>>

(* The stations are gone with the access point.                            *)
KillHostapd ==
  /\ Goto("killall", "disable")
  /\ hostapd' = FALSE /\ wps' = FALSE
  /\ stations' = {}
  /\ UNCHANGED <<rtspVars, prev_ts, ip, count, core, dhcp, driver, leases, renewed>>

P2pDisable == p2p' = "off"

P2pEnable == p2p' = "listen"

Disable ==
  /\ Goto("disable", "enable")
  /\ P2pDisable
  /\ UNCHANGED <<rtspVars, prev_ts, ip, count, daemons, requests, network>>

Enable ==
  /\ Goto("enable", "poll")
  /\ P2pEnable
  /\ UNCHANGED <<rtspVars, prev_ts, ip, count, daemons, requests, network>>

-----------------------------------------------------------------------------
(* wfd_connection_wait: status, scan, negotiation, access point.           *)

Poll ==
  /\ pc = "poll"
  /\ \E status \in Reads[p2p] :
       /\ IF status = 0 THEN P2pEnable ELSE UNCHANGED p2p
       /\ IF status \in {8, 19, 22} THEN pc' = "scan" /\ count' = 0
                                    ELSE UNCHANGED <<pc, count>>
  /\ UNCHANGED <<rtspVars, prev_ts, ip, daemons, requests, network>>

(* Slip, TypeOK: one scan too many.                                        *)
TriesLeft_OneMore == count <= 4

TriesLeft == count <= 3

Scan ==
  /\ pc = "scan"
  /\ \/ pc' = "nego" /\ UNCHANGED <<count, p2p>>
     \/ TriesLeft /\ count' = count + 1 /\ UNCHANGED <<pc, p2p>>
     \/ ~ TriesLeft /\ P2pDisable /\ pc' = "poll" /\ UNCHANGED count
  /\ UNCHANGED <<rtspVars, prev_ts, ip, daemons, requests, network>>

(* Negotiation is polled for until it is over, however long it takes.      *)
PollNego ==
  /\ Goto("nego", "hostapd")
  /\ Reads[p2p] \cap {10, 19} # {}
  /\ UNCHANGED <<rtspVars, prev_ts, ip, count, daemons, driver, network>>

StartHostapd ==
  /\ Goto("hostapd", "wps")
  /\ hostapd' = TRUE
  /\ UNCHANGED <<rtspVars, prev_ts, ip, count, core, dhcp, wps, driver, network>>

(* wps_pbc is repeated until it says OK.                                   *)
Wps ==
  /\ Goto("wps", "station")
  /\ wps' = TRUE
  /\ UNCHANGED <<rtspVars, prev_ts, ip, count, core, dhcp, hostapd, driver, network>>

ReadStations ==
  /\ Goto("station", "lease")
  /\ stations # {}
  /\ UNCHANGED <<rtspVars, prev_ts, ip, count, daemons, driver, network>>

-----------------------------------------------------------------------------
(* The main loop, from the lease to the end of the session.                *)

LeasedIp == Last(leases)

ReadLease ==
  /\ Goto("lease", "connect")
  /\ Len(leases) # prev_ts
  /\ ip' = LeasedIp
  /\ UNCHANGED <<rtspVars, prev_ts, count, daemons, driver, network>>

(* A source that is associated and has an address accepts.                 *)
Connect ==
  /\ pc = "connect"
  /\ \/ /\ ip \in stations
        /\ pc' = "rtsp"
        /\ Open
     \/ /\ ip \notin stations
        /\ pc' = "dead"
        /\ UNCHANGED rtspVars
  /\ UNCHANGED <<prev_ts, ip, count, daemons, driver, network>>

(* s.close, and source_connect returns; or the exception ends the script.  *)
Return ==
  /\ pc = "rtsp"
  /\ \/ /\ stage = "closed"
        /\ pc' = "stop"
        /\ Forget
     \/ /\ stage = "raised"
        /\ pc' = "dead"
        /\ UNCHANGED rtspVars
  /\ UNCHANGED <<prev_ts, ip, count, daemons, driver, network>>

StopDhcp ==
  /\ Goto("stop", "kill")
  /\ dhcp' = FALSE
  /\ UNCHANGED <<rtspVars, prev_ts, ip, count, core, hostapd, wps, driver, network>>

KillCore ==
  /\ Goto("kill", "dhcp")
  /\ core' = FALSE
  /\ UNCHANGED <<rtspVars, prev_ts, ip, count, dhcp, hostapd, wps, driver, network>>

ConnectionWait ==
  KillHostapd \/ Disable \/ Enable \/ Poll \/ Scan \/ PollNego
    \/ StartHostapd \/ Wps \/ ReadStations

MainLoop ==
  StartDhcp \/ ReadStamp \/ ReadLease \/ Connect \/ Return \/ StopDhcp \/ KillCore

SinkStep == Sink /\ UNCHANGED <<script, daemons, driver, network>>

Script == MainLoop \/ ConnectionWait \/ SinkStep

-----------------------------------------------------------------------------
(* Around the script.                                                      *)
DiscoveryRequest ==
  /\ p2p = "listen"
  /\ requests < MaxRequests
  /\ p2p' = "request"
  /\ requests' = requests + 1
  /\ UNCHANGED <<rtspVars, script, daemons, network>>

GiveUp ==
  /\ p2p = "request"
  /\ p2p' = "listen"
  /\ UNCHANGED <<rtspVars, script, daemons, requests, network>>

Agree ==
  /\ p2p = "request" /\ pc = "nego"
  /\ p2p' = "agreed"
  /\ UNCHANGED <<rtspVars, script, daemons, requests, network>>

(* Push button mode admits any device.                                     *)
Associate(d) ==
  /\ hostapd /\ wps
  /\ stations' = stations \cup {d}
  /\ UNCHANGED <<rtspVars, script, daemons, driver, leases, renewed>>

(* A source asks for an address, or renews the one it has.                 *)
Lease(d) ==
  /\ dhcp /\ d \in stations
  /\ Len(leases) < MaxLeases
  /\ leases' = Append(leases, d)
  /\ renewed' = (renewed \/ pc = "killall")
  /\ UNCHANGED <<rtspVars, script, daemons, driver, stations>>

SourceStep == Source /\ UNCHANGED <<script, daemons, driver, network>>

Environment ==
  \/ DiscoveryRequest \/ GiveUp \/ Agree
  \/ \E d \in Devices : Associate(d) \/ Lease(d)
  \/ SourceStep

Next == Script \/ Environment

(* The main loop and the sink go on when they can.  A source that talks    *)
(* answers; that it asks for a session, agrees, associates or asks for an  *)
(* address is not assumed, nor that negotiation and push button mode ever  *)
(* succeed.                                                                *)
Fairness ==
  /\ WF_vars(MainLoop) /\ WF_vars(SinkStep)
  /\ WF_vars(SourceReact /\ UNCHANGED <<script, daemons, driver, network>>)

Spec == Init /\ [][Next]_vars /\ Fairness

-----------------------------------------------------------------------------
(* The script dies of an exception only if the source left, or if a        *)
(* station of the session before renewed its lease in the moment between   *)
(* the reading of the time stamp and the killing of hostapd, so that the   *)
(* wrong address is called: no other order of requests, scans and leases   *)
(* of one session after the other kills it.                                *)
DiesForAReason == pc = "dead" => renewed \/ source = "left"

(* When the source goes away during play, by TEARDOWN or by closing, the   *)
(* script comes back to the top of its loop or dies of a reset connection. *)
BackAtTheTop ==
  (pc = "rtsp" /\ stage = "keepalive" /\ source = "left") ~> pc \in {"dhcp", "dead"}
=============================================================================
