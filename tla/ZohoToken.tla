----------------------------- MODULE ZohoToken ------------------------------
(***************************************************************************)
(* The access token of ZohoDeskService.  Every request to Desk, of whichever  *)
(* processor, first takes the cached token or refreshes it; nothing keeps  *)
(* two callers from refreshing at once.  The cache drops a token Skew      *)
(* early, which has to make up for the time its answer took to come and    *)
(* the time the request takes to arrive.                                      *)
(***************************************************************************)
EXTENDS Naturals

CONSTANTS
    Callers,        \* calls in flight at once
    Lifetime,       \* expires_in of a token
    Skew,           \* TOKEN_EXPIRY_SKEW_MS
    Latency,        \* the longest a request or its answer takes
    MaxClock        \* bound: how far time is followed

(* axios sets no timeout: that there is a Latency is assumed here, and     *)
(* that the skew covers an answer and a request.                           *)
ASSUME ZohoTokenAssumption ==
    /\ Lifetime \in Nat /\ Skew \in Nat /\ Latency \in Nat /\ MaxClock \in Nat
    /\ 2 * Latency <= Skew /\ Skew < Lifetime

VARIABLES
    clock,
    cache,      \* cachedToken: the expiry computed for it, and its true end
    request        \* where each request is, the end of its token, and since when

tokenVars == <<clock, cache, request>>

TokenTypeOK ==
    /\ clock \in 0..MaxClock
    /\ cache \in [expiresAt : 0..(MaxClock + (Lifetime - Skew)),
                 end : 0..(MaxClock + Lifetime)]
    /\ request \in [Callers -> [place : {"idle", "asking", "answered", "sending"},
                               end : 0..(MaxClock + Lifetime), since : 0..MaxClock]]

TokenInit ==
    /\ clock = 0
    /\ cache = [expiresAt |-> 0, end |-> 0]
    /\ request = [c \in Callers |-> [place |-> "idle", end |-> 0, since |-> 0]]

-----------------------------------------------------------------------------
Move(c, place, end) ==
    request' = [request EXCEPT ![c] = [place |-> place, end |-> end, since |-> clock]]

TakeCached(c) ==
    /\ request[c].place = "idle"
    /\ cache.expiresAt > clock
    /\ Move(c, "sending", cache.end)
    /\ UNCHANGED <<clock, cache>>

Refresh(c) ==
    /\ request[c].place = "idle"
    /\ ~(cache.expiresAt > clock)
    /\ Move(c, "asking", 0)
    /\ UNCHANGED <<clock, cache>>

(* Zoho issues the token; its life begins before the service hears of it.  *)
Issue(c) ==
    /\ request[c].place = "asking"
    /\ Move(c, "answered", clock + Lifetime)
    /\ UNCHANGED <<clock, cache>>

(* Variants, each named for the slip it makes, stand before what they      *)
(* replace: the runs show that the properties tell them apart.             *)
ReceiveUnskewed(c) ==
    /\ request[c].place = "answered"
    /\ cache' = [expiresAt |-> clock + Lifetime, end |-> request[c].end]
    /\ Move(c, "sending", request[c].end)
    /\ UNCHANGED clock

Receive(c) ==
    /\ request[c].place = "answered"
    /\ cache' = [expiresAt |-> (clock + Lifetime) - Skew, end |-> request[c].end]
    /\ Move(c, "sending", request[c].end)
    /\ UNCHANGED clock

(* The refresh errs, or answers without a token: the request rejects.         *)
RefreshFails(c) ==
    /\ request[c].place \in {"asking", "answered"}
    /\ Move(c, "idle", 0)
    /\ UNCHANGED <<clock, cache>>

Arrive(c) ==
    /\ request[c].place = "sending"
    /\ Move(c, "idle", 0)
    /\ UNCHANGED <<clock, cache>>

Tick ==
    /\ clock < MaxClock
    /\ \A c \in Callers : request[c].place # "idle" => clock < request[c].since + Latency
    /\ clock' = clock + 1
    /\ UNCHANGED <<cache, request>>

TokenNext ==
    \/ Tick
    \/ \E c \in Callers : \/ TakeCached(c) \/ Refresh(c) \/ Issue(c)
                          \/ Receive(c) \/ RefreshFails(c) \/ Arrive(c)

TokenSpec == TokenInit /\ [][TokenNext]_tokenVars

-----------------------------------------------------------------------------
(* No request reaches Desk with a token that has expired, whichever caller    *)
(* refreshed it, however its answer and the request were delayed, and         *)
(* whatever refresh overtook it.                                           *)
NeverSendsExpired ==
    \A c \in Callers : request[c].place = "sending" => clock < request[c].end
=============================================================================
