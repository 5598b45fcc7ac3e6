--------------------------- MODULE TeleportBridge ---------------------------
(***************************************************************************)
(* teleport-alloydb-mcp: a launcher that runs tbot, which keeps renewing   *)
(* an identity on disk, and a proxy, which reads the identity once, when   *)
(* it starts, and is restarted before the certificate it holds expires.    *)
(* When tbot exits, or the proxy of its own accord, so does the launcher,  *)
(* and the platform starts its container anew.  Time passes in ticks (of 5 *)
(* minutes, say), and what is due happens before the next one.             *)
(***************************************************************************)
EXTENDS Naturals

CONSTANTS
    CertTTL, RenewEvery,    \* of tbot, an hour and 20 minutes by default
    RestartEvery,           \* RESTART_INTERVAL_MS
    JoinPatience            \* how long waitForIdentity waits

ASSUME TeleportAssumption ==
    /\ CertTTL \in Nat /\ RenewEvery \in Nat /\ RestartEvery \in Nat
    /\ JoinPatience \in Nat
    /\ RenewEvery + RestartEvery < CertTTL

VARIABLES
    launcher,       \* "down", "joining" (waiting for the identity), "up"
    waited,         \* how long it has been joining
    identity,       \* age of the identity on disk, Missing before there is one
    proxy,          \* "none", "running", "killed"
    held,           \* age of the certificate the proxy holds
    timer           \* time since the proxy was started

bridgeVars == <<launcher, waited, identity, proxy, held, timer>>

(* What a proxy without an identity would hold is no better than expired.  *)
Missing == CertTTL + 1

BridgeTypeOK ==
    /\ launcher \in {"down", "joining", "up"}
    /\ waited \in 0..JoinPatience
    /\ identity \in 0..RenewEvery \cup {Missing}
    /\ proxy \in {"none", "running", "killed"}
    /\ held \in 0..(RenewEvery + RestartEvery)
    /\ timer \in 0..RestartEvery

Down ==
    /\ launcher' = "down" /\ waited' = 0 /\ identity' = Missing
    /\ proxy' = "none" /\ held' = 0 /\ timer' = 0

BridgeInit ==
    /\ launcher = "down" /\ waited = 0 /\ identity = Missing
    /\ proxy = "none" /\ held = 0 /\ timer = 0

-----------------------------------------------------------------------------
Launch ==
    /\ launcher = "down"
    /\ launcher' = "joining"
    /\ UNCHANGED <<waited, identity, proxy, held, timer>>

(* tbot writes its first identity, or renews it when that is due.          *)
Renew ==
    /\ launcher # "down"
    /\ identity \in {Missing, RenewEvery}
    /\ identity' = 0
    /\ UNCHANGED <<launcher, waited, proxy, held, timer>>

StartProxy == proxy' = "running" /\ held' = identity /\ timer' = 0

(* Variants, each named for the slip it makes, stand before what they      *)
(* replace: the runs show that the properties tell them apart.             *)
StartAtOnce ==
    /\ launcher = "joining"
    /\ launcher' = "up" /\ waited' = 0
    /\ StartProxy
    /\ UNCHANGED identity

IdentityReady ==
    /\ launcher = "joining" /\ identity # Missing
    /\ launcher' = "up" /\ waited' = 0
    /\ StartProxy
    /\ UNCHANGED identity

JoinTimesOut ==
    /\ launcher = "joining" /\ identity = Missing /\ waited = JoinPatience
    /\ Down

TbotExits == launcher # "down" /\ Down

(* The restart timer sends the proxy a SIGTERM.                            *)
RestartDue ==
    /\ proxy = "running" /\ timer = RestartEvery
    /\ proxy' = "killed"
    /\ UNCHANGED <<launcher, waited, identity, held, timer>>

(* By a signal, the timer's or another, it is started again; by an exit    *)
(* of its own, which npx may also make of a SIGTERM, the launcher exits.   *)
ProxyExits(bySignal) ==
    /\ proxy \in {"running", "killed"}
    /\ IF bySignal THEN StartProxy /\ UNCHANGED <<launcher, waited, identity>>
                   ELSE Down

BridgeTick ==
    /\ launcher # "down"
    /\ identity # RenewEvery
    /\ proxy # "killed" /\ timer < RestartEvery
    /\ IF launcher = "joining"
       THEN /\ identity = Missing /\ waited < JoinPatience
            /\ waited' = waited + 1 /\ UNCHANGED <<identity, held, timer>>
       ELSE /\ identity' = identity + 1 /\ held' = held + 1 /\ timer' = timer + 1
            /\ UNCHANGED waited
    /\ UNCHANGED <<launcher, proxy>>

BridgeNext ==
    \/ Launch \/ Renew \/ IdentityReady \/ JoinTimesOut \/ TbotExits
    \/ RestartDue \/ BridgeTick \/ \E bySignal \in BOOLEAN : ProxyExits(bySignal)

BridgeSpec == BridgeInit /\ [][BridgeNext]_bridgeVars

-----------------------------------------------------------------------------
(* The proxy never serves with an expired certificate, however old the     *)
(* identity was when the proxy read it, and through all restarts: "tsh     *)
(* holds the Teleport cert in memory and never reloads it".                *)
CertificateIsValid == proxy = "running" => held < CertTTL
=============================================================================
