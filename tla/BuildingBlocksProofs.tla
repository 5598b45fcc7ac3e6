------------------------ MODULE BuildingBlocksProofs ------------------------
(***************************************************************************)
(* The smaller parts, which share no data: the plan of leave days, the     *)
(* token of Zoho Desk, the bridge to Teleport and the lookup of Form 9;    *)
(* then these side by side with the queue and the ledger of snacks, which  *)
(* have modules of their own.                                              *)
(***************************************************************************)
EXTENDS MCBuildingBlocks, JobQueueProofs, SnacksLedgerProofs,
        FiniteSetTheorems, WellFoundedInduction, TLAPS

-----------------------------------------------------------------------------
(* The plan is right for every classification, calendar and limit: each    *)
(* day gets the best of the marks asked for it, and none is dropped.       *)
PlanInv == PlanTypeOK /\ MarksAreBest /\ NothingDropped

(* So it is before the first entry, whatever the entries are.              *)
LEMMA PlanStartInv ==
  ASSUME entries \in Seq(Entry), next = 1, marks = [d \in Calendar |-> 0],
         skipped = {}, invalidRanges = {}
  PROVE  PlanInv
  <1>1. PlanTypeOK
    BY PlanAssumption DEF PlanTypeOK
  <1>2. \A d \in Calendar : Asking(d) = {}
    <2>1. 1..(next - 1) = {}
      OBVIOUS
    <2> QED BY <2>1 DEF Asking
  <1> QED BY <1>1, <1>2 DEF PlanInv, MarksAreBest, NothingDropped

LEMMA PlanInitInv == PlanInit => PlanInv
  BY PlanStartInv, PlanAssumption DEF PlanInit

(* One more iteration adds its entry to what is asked of its days.         *)
LEMMA AskingGrows ==
  ASSUME PlanTypeOK, PlanEntry, NEW d \in Calendar
  PROVE  Asking(d)' = IF IsValid(entries[next]) /\ d \in ExpandDateRange(entries[next])
                      THEN Asking(d) \cup {next} ELSE Asking(d)
  <1> DEFINE n == next
             e == entries[n]
  <1>1. n \in 1..Len(entries) /\ e \in Entry
    BY DEF PlanTypeOK, PlanEntry
  <1>2. IsValid(e) => e.start \in Int /\ d \in Int
    BY <1>1, PlanAssumption DEF IsValid, Entry
  <1>3. IsValid(e) =>
          (d \in ExpandDateRange(e)
             <=> e.start <= d /\ d <= e.end /\ d - e.start < MaxDaysPerRange)
    BY <1>2, PlanAssumption DEF ExpandDateRange
  <1>4. \A i : i \in 1..(next' - 1) <=> i \in 1..(n - 1) \/ i = n
    BY <1>1 DEF PlanEntry
  <1>5. entries' = entries
    BY DEF PlanEntry
  <1> QED BY <1>1, <1>3, <1>4, <1>5 DEF Asking, IsValid

(* The best of a set and a later entry.                                    *)
LEMMA BestOfMore ==
  ASSUME PlanTypeOK, NEW n \in 1..Len(entries), NEW S \in SUBSET (1..(n - 1))
  PROVE  /\ Best(n, {n})
         /\ \A i \in S : Best(i, S) =>
              IF MarkPriority(entries[n]) > MarkPriority(entries[i])
              THEN Best(n, S \cup {n}) ELSE Best(i, S \cup {n})
  <1>1. \A i \in 1..n : MarkPriority(entries[i]) \in Int
    BY DEF PlanTypeOK, MarkPriority
  <1>2. \A i \in S : i \in Int /\ i < n /\ i \in 1..n
    OBVIOUS
  <1>3. n \in Int /\ n \in 1..n
    OBVIOUS
  <1> HIDE DEF MarkPriority
  <1> QED BY <1>1, <1>2, <1>3 DEF Best

LEMMA PlanEntryType == PlanTypeOK /\ PlanEntry => PlanTypeOK'
  <1> SUFFICES ASSUME PlanTypeOK, PlanEntry PROVE PlanTypeOK'
    OBVIOUS
  <1> USE DEF PlanTypeOK, PlanEntry
  <1>1. next \in 1..Len(entries) /\ entries' = entries /\ next' = next + 1
    OBVIOUS
  <1>2. next' \in 1..(Len(entries') + 1)
    BY <1>1
  <1>3. marks' \in [Calendar -> 0..Len(entries')]
    BY <1>1 DEF UseRange, RejectRange
  <1>4. skipped' \subseteq Calendar /\ invalidRanges' \subseteq 1..Len(entries')
    BY <1>1 DEF UseRange, RejectRange, SkippedBy, ExpandDateRange
  <1> QED BY <1>1, <1>2, <1>3, <1>4

LEMMA PlanEntryBest == PlanInv /\ PlanEntry => MarksAreBest'
  <1> SUFFICES ASSUME PlanInv, PlanEntry, NEW d \in Calendar
               PROVE  IF Usable(d) /\ Asking(d)' # {}
                      THEN Best(marks[d], Asking(d))' ELSE marks'[d] = 0
    BY DEF MarksAreBest, Usable, InWindow
  <1> DEFINE n == next
             e == entries[n]
             asks == IsValid(e) /\ d \in ExpandDateRange(e)
  <1>1. n \in 1..Len(entries) /\ entries' = entries /\ n # 0
    BY DEF PlanEntry, PlanInv, PlanTypeOK
  <1>2. Asking(d)' = IF asks THEN Asking(d) \cup {n} ELSE Asking(d)
    BY AskingGrows DEF PlanInv
  <1>3. Asking(d) \subseteq 1..(n - 1)
    BY DEF Asking
  <1>4. marks'[d] = IF asks /\ Usable(d) /\ Overtakes(n, d) THEN n ELSE marks[d]
    BY DEF PlanEntry, UseRange, RejectRange, PlanInv, PlanTypeOK
  <1>5. \A i, S : Best(i, S)' <=> Best(i', S')
    BY <1>1 DEF Best, MarkPriority
  <1>6. IF Usable(d) /\ Asking(d) # {} THEN Best(marks[d], Asking(d))
                                       ELSE marks[d] = 0
    BY DEF PlanInv, MarksAreBest
  <1>7. CASE ~Usable(d) \/ ~asks
    BY <1>1, <1>2, <1>4, <1>6, <1>7 DEF Best, MarkPriority
  <1>8. CASE Usable(d) /\ asks
    <2>1. CASE Asking(d) = {}
      <3>1. marks'[d] = n /\ Asking(d)' = {n}
        BY <1>2, <1>4, <1>6, <1>8, <2>1 DEF Overtakes
      <3>2. Best(n, {n})
        BY <1>1, BestOfMore DEF PlanInv
      <3> QED BY <1>1, <1>8, <3>1, <3>2 DEF Best, MarkPriority
    <2>2. CASE Asking(d) # {}
      <3>1. Best(marks[d], Asking(d)) /\ marks[d] \in Asking(d) /\ marks[d] # 0
        BY <1>3, <1>6, <1>8, <2>2 DEF Best
      <3>2. Best(marks'[d], Asking(d) \cup {n})
        BY <1>1, <1>3, <1>4, <1>8, <3>1, BestOfMore DEF PlanInv, Overtakes
      <3> QED BY <1>1, <1>2, <1>8, <2>2, <3>2 DEF Best, MarkPriority
    <2> QED BY <2>1, <2>2
  <1> QED BY <1>7, <1>8

LEMMA PlanEntryDropsNothing == PlanInv /\ PlanEntry => NothingDropped'
  <1> SUFFICES ASSUME PlanInv, PlanEntry, NEW d \in Calendar, Asking(d)' # {}
               PROVE  \/ marks'[d] # 0
                      \/ d \in skipped'
                      \/ IsWeekend(d) /\ \A i \in Asking(d)' : ~IsSingleDay(entries'[i])
    BY DEF NothingDropped
  <1> DEFINE n == next
             e == entries[n]
             asks == IsValid(e) /\ d \in ExpandDateRange(e)
  <1>1. n # 0 /\ entries' = entries
    BY DEF PlanEntry, PlanInv, PlanTypeOK
  <1>2. Asking(d)' = IF asks THEN Asking(d) \cup {n} ELSE Asking(d)
    BY AskingGrows DEF PlanInv
  <1>3. /\ skipped \subseteq skipped'
        /\ asks /\ d \in SkippedBy(e) => d \in skipped'
        /\ marks[d] # 0 => marks'[d] # 0
        /\ asks /\ Usable(d) => marks'[d] # 0
    BY <1>1 DEF PlanEntry, UseRange, RejectRange, PlanInv, PlanTypeOK, Overtakes
  <1>4. Asking(d) # {} => \/ marks[d] # 0
                          \/ d \in skipped
                          \/ IsWeekend(d) /\ \A i \in Asking(d) : ~IsSingleDay(entries[i])
    BY DEF PlanInv, NothingDropped
  <1>5. asks => Usable(d) \/ d \in SkippedBy(e) \/ (IsWeekend(d) /\ ~IsSingleDay(e))
    BY DEF Usable, SkippedBy
  <1> QED BY <1>1, <1>2, <1>3, <1>4, <1>5

LEMMA PlanStepInv == PlanInv /\ [PlanEntry]_planVars => PlanInv'
  <1> SUFFICES ASSUME PlanInv, [PlanEntry]_planVars PROVE PlanInv'
    OBVIOUS
  <1>1. CASE PlanEntry
    BY <1>1, PlanEntryType, PlanEntryBest, PlanEntryDropsNothing DEF PlanInv
  <1>2. CASE UNCHANGED planVars
    BY <1>2 DEF planVars, PlanInv, PlanTypeOK, MarksAreBest, NothingDropped,
       Asking, Best
  <1> QED BY <1>1, <1>2

(* The loop's variables keep their types.                                  *)
THEOREM PlanTypeCorrect == PlanSpec => []PlanTypeOK
  <1>1. PlanInv => PlanTypeOK
    BY DEF PlanInv
  <1> QED BY <1>1, PlanInitInv, PlanStepInv, PTL DEF PlanSpec

(* Overlapping ranges: every day gets the first of the strongest marks     *)
(* asked for it, for classifications of any length.                        *)
THEOREM PlanMarksBest == PlanSpec => []MarksAreBest
  <1>1. PlanInv => MarksAreBest
    BY DEF PlanInv
  <1> QED BY <1>1, PlanInitInv, PlanStepInv, PTL DEF PlanSpec

(* Every requested day the limit leaves in is marked, reported, or a       *)
(* weekend inside a longer range.                                          *)
THEOREM PlanDropsNothing == PlanSpec => []NothingDropped
  <1>1. PlanInv => NothingDropped
    BY DEF PlanInv
  <1> QED BY <1>1, PlanInitInv, PlanStepInv, PTL DEF PlanSpec

(* Both at once: whatever the classifier made of a message, the plan is    *)
(* what it asks for.                                                       *)
THEOREM PlanRight == PlanSpec => []PlanIsRight
  <1>1. PlanInv => PlanIsRight
    BY DEF PlanInv, PlanIsRight
  <1> QED BY <1>1, PlanInitInv, PlanStepInv, PTL DEF PlanSpec

-----------------------------------------------------------------------------
(* No request reaches Zoho Desk with an expired token, for any number of   *)
(* callers, any life of a token and any delays within the skew.            *)
Requests == [place : {"idle", "asking", "answered", "sending"},
             end : 0..(MaxClock + Lifetime), since : 0..MaxClock]

(* No step of a request takes longer than the Latency.                     *)
OnTime(r) == r.place # "idle" => r.since <= clock /\ clock <= r.since + Latency

(* Its life began when Zoho answered.                                      *)
Issued(r) == r.place = "answered" => r.end = r.since + Lifetime

(* A request that is under way will arrive before its token ends.          *)
InTime(r) == r.place = "sending" => r.since + Latency < r.end

(* The expiry of the cache leaves time for a request to arrive.            *)
CacheIsEarly == cache.expiresAt > 0 => cache.expiresAt + Latency <= cache.end

TokenInv ==
    /\ TokenTypeOK
    /\ CacheIsEarly
    /\ \A c \in Callers : OnTime(request[c]) /\ Issued(request[c]) /\ InTime(request[c])

-----------------------------------------------------------------------------
LEMMA TokenInitInv == TokenInit => TokenInv
  BY ZohoTokenAssumption
     DEF TokenInit, TokenInv, TokenTypeOK, CacheIsEarly, OnTime, Issued, InTime

(* A move of one caller keeps the invariant of all requests, if the record *)
(* it moves to satisfies it.                                               *)
LEMMA MoveKeeps ==
    ASSUME TokenInv, NEW c \in Callers, UNCHANGED clock,
           NEW place \in {"idle", "asking", "answered", "sending"},
           NEW end \in 0..(MaxClock + Lifetime),
           Move(c, place, end),
           place = "answered" => end = clock + Lifetime,
           place = "sending" => clock + Latency < end
    PROVE  /\ request' \in [Callers -> Requests]
           /\ \A d \in Callers : /\ OnTime(request[d])' /\ Issued(request[d])'
                                 /\ InTime(request[d])'
  <1> DEFINE new == [place |-> place, end |-> end, since |-> clock]
  <1>1. request \in [Callers -> Requests] /\ clock \in 0..MaxClock
    BY DEF TokenInv, TokenTypeOK, Requests
  <1>2. new \in Requests
    BY <1>1 DEF Requests
  <1>3. request' = [request EXCEPT ![c] = new]
    BY DEF Move
  <1>4. request' \in [Callers -> Requests]
    BY <1>1, <1>2, <1>3
  <1>5. ASSUME NEW d \in Callers
        PROVE  OnTime(request[d])' /\ Issued(request[d])' /\ InTime(request[d])'
    <2>1. CASE d = c
      <3>1. request'[d] = new /\ clock' = clock
        BY <1>1, <1>3, <2>1
      <3> QED BY <3>1, <1>1, ZohoTokenAssumption DEF OnTime, Issued, InTime
    <2>2. CASE d # c
      <3>1. request'[d] = request[d] /\ clock' = clock
        BY <1>1, <1>3, <2>2
      <3> QED BY <3>1 DEF TokenInv, OnTime, Issued, InTime
    <2> QED BY <2>1, <2>2
  <1> QED BY <1>4, <1>5

LEMMA TokenStepInv == TokenInv /\ [TokenNext]_tokenVars => TokenInv'
  <1> SUFFICES ASSUME TokenInv, [TokenNext]_tokenVars PROVE TokenInv'
    OBVIOUS
  <1> USE ZohoTokenAssumption
  <1>1. /\ clock \in 0..MaxClock
        /\ cache \in [expiresAt : 0..(MaxClock + (Lifetime - Skew)),
                      end : 0..(MaxClock + Lifetime)]
        /\ request \in [Callers -> Requests]
    BY DEF TokenInv, TokenTypeOK, Requests
  <1>2. CASE UNCHANGED tokenVars
    BY <1>2 DEF tokenVars, TokenInv, TokenTypeOK, CacheIsEarly, OnTime, Issued, InTime
  <1>3. CASE Tick
    <2>1. clock' \in 0..MaxClock /\ clock' = clock + 1 /\ UNCHANGED <<cache, request>>
      BY <1>1, <1>3 DEF Tick
    <2>2. ASSUME NEW c \in Callers PROVE OnTime(request[c])'
      <3>1. request[c] \in Requests
        BY <1>1
      <3>2. request[c].place # "idle" =>
              /\ request[c].since <= clock /\ clock < request[c].since + Latency
        BY <1>3 DEF Tick, TokenInv, OnTime
      <3> QED BY <3>1, <3>2, <2>1, <1>1 DEF OnTime, Requests
    <2> QED BY <2>1, <2>2 DEF TokenInv, TokenTypeOK, CacheIsEarly, Issued, InTime
  <1>4. ASSUME NEW c \in Callers, TakeCached(c) PROVE TokenInv'
    <2>1. clock + Latency < cache.end
      BY <1>1, <1>4 DEF TakeCached, TokenInv, CacheIsEarly
    <2>2. UNCHANGED <<clock, cache>> /\ Move(c, "sending", cache.end)
      BY <1>4 DEF TakeCached
    <2>3. cache.end \in 0..(MaxClock + Lifetime)
      BY <1>1
    <2>4. /\ request' \in [Callers -> Requests]
          /\ \A d \in Callers : /\ OnTime(request[d])' /\ Issued(request[d])'
                                /\ InTime(request[d])'
      BY <2>1, <2>2, <2>3, MoveKeeps
    <2> QED BY <2>2, <2>4 DEF TokenInv, TokenTypeOK, CacheIsEarly, Requests
  <1>5. ASSUME NEW c \in Callers, Refresh(c) \/ RefreshFails(c) \/ Arrive(c)
        PROVE  TokenInv'
    <2>1. UNCHANGED <<clock, cache>> /\ (Move(c, "asking", 0) \/ Move(c, "idle", 0))
      BY <1>5 DEF Refresh, RefreshFails, Arrive
    <2>2. 0 \in 0..(MaxClock + Lifetime)
      OBVIOUS
    <2>3. /\ request' \in [Callers -> Requests]
          /\ \A d \in Callers : /\ OnTime(request[d])' /\ Issued(request[d])'
                                /\ InTime(request[d])'
      <3>1. CASE Move(c, "asking", 0)
        BY <2>1, <2>2, <3>1, MoveKeeps
      <3>2. CASE Move(c, "idle", 0)
        BY <2>1, <2>2, <3>2, MoveKeeps
      <3> QED BY <2>1, <3>1, <3>2
    <2> QED BY <2>1, <2>3 DEF TokenInv, TokenTypeOK, CacheIsEarly, Requests
  <1>6. ASSUME NEW c \in Callers, Issue(c) PROVE TokenInv'
    <2>1. UNCHANGED <<clock, cache>> /\ Move(c, "answered", clock + Lifetime)
      BY <1>6 DEF Issue
    <2>2. clock + Lifetime \in 0..(MaxClock + Lifetime)
      BY <1>1
    <2>3. /\ request' \in [Callers -> Requests]
          /\ \A d \in Callers : /\ OnTime(request[d])' /\ Issued(request[d])'
                                /\ InTime(request[d])'
      BY <2>1, <2>2, MoveKeeps
    <2> QED BY <2>1, <2>3 DEF TokenInv, TokenTypeOK, CacheIsEarly, Requests
  <1>7. ASSUME NEW c \in Callers, Receive(c) PROVE TokenInv'
    (* The answer took a Latency at most, so that the token has most of its *)
    (* life left, and the cache, which is Skew early, drops it in time.     *)
    <2> DEFINE r == request[c]
    <2>1. r \in Requests /\ r.place = "answered"
      BY <1>1, <1>7 DEF Receive
    <2>2. r.end = r.since + Lifetime /\ clock <= r.since + Latency
      BY <2>1 DEF TokenInv, Issued, OnTime
    <2>3. /\ UNCHANGED clock /\ Move(c, "sending", r.end)
          /\ cache' = [expiresAt |-> (clock + Lifetime) - Skew, end |-> r.end]
      BY <1>7 DEF Receive
    <2>4. r.end \in 0..(MaxClock + Lifetime) /\ r.since \in Nat
      BY <2>1 DEF Requests
    <2>5. clock + Latency < r.end
      BY <1>1, <2>2, <2>4
    <2>6. /\ request' \in [Callers -> Requests]
          /\ \A d \in Callers : /\ OnTime(request[d])' /\ Issued(request[d])'
                                /\ InTime(request[d])'
      BY <2>3, <2>4, <2>5, MoveKeeps
    <2>7. /\ (clock + Lifetime) - Skew \in 0..(MaxClock + (Lifetime - Skew))
          /\ ((clock + Lifetime) - Skew) + Latency <= r.end
      BY <1>1, <2>2, <2>4
    <2> QED BY <1>1, <2>3, <2>4, <2>6, <2>7 DEF TokenInv, TokenTypeOK, CacheIsEarly, Requests
  <1> QED BY <1>2, <1>3, <1>4, <1>5, <1>6, <1>7 DEF TokenNext

-----------------------------------------------------------------------------
(* The cached token and those of the requests are what their types say,    *)
(* whoever refreshes and whenever.                                         *)
THEOREM TokenTypes == TokenSpec => []TokenTypeOK
  <1>1. TokenInv => TokenTypeOK
    BY DEF TokenInv
  <1> QED BY <1>1, TokenInitInv, TokenStepInv, PTL DEF TokenSpec

(* No request reaches Desk with a token that has expired.                  *)
THEOREM TokenNeverSendsExpired == TokenSpec => []NeverSendsExpired
  <1>1. TokenInv => NeverSendsExpired
    <2> SUFFICES ASSUME TokenInv, NEW c \in Callers, request[c].place = "sending"
                 PROVE  clock < request[c].end
      BY DEF NeverSendsExpired
    <2>1. request[c] \in Requests /\ clock \in 0..MaxClock
      BY DEF TokenInv, TokenTypeOK, Requests
    <2>2. clock <= request[c].since + Latency /\ request[c].since + Latency < request[c].end
      BY DEF TokenInv, OnTime, InTime
    <2> QED BY <2>1, <2>2, ZohoTokenAssumption DEF Requests
  <1> QED BY <1>1, TokenInitInv, TokenStepInv, PTL DEF TokenSpec

-----------------------------------------------------------------------------
(* The proxy never serves with an expired certificate, for any life of a  *)
(* certificate and any timers that fit into it.                            *)
(* A certificate was at most RenewEvery old when the proxy read it, and is *)
(* held for as long as the restart timer has run since.  There is an       *)
(* identity as long as the launcher is up, and no proxy otherwise.         *)
HeldSinceRead ==
    /\ held <= timer + RenewEvery
    /\ launcher = "up" => identity # Missing
    /\ launcher # "up" => proxy = "none" /\ held = 0 /\ timer = 0

BridgeInv == BridgeTypeOK /\ HeldSinceRead

-----------------------------------------------------------------------------
LEMMA MissingIsNoAge == Missing \notin 0..RenewEvery
  BY TeleportAssumption DEF Missing

LEMMA DownKeeps == Down => BridgeInv'
  BY TeleportAssumption DEF Down, BridgeInv, BridgeTypeOK, HeldSinceRead

LEMMA BridgeInitInv == BridgeInit => BridgeInv
  BY TeleportAssumption DEF BridgeInit, BridgeInv, BridgeTypeOK, HeldSinceRead

(* Whoever starts the proxy finds an identity that is not too old.         *)
LEMMA StartKeeps ==
    ASSUME BridgeInv, StartProxy, UNCHANGED identity, launcher' = "up",
           identity # Missing, waited' \in 0..JoinPatience
    PROVE  BridgeInv'
  <1>1. identity \in 0..RenewEvery
    BY DEF BridgeInv, BridgeTypeOK
  <1>2. held' = identity /\ timer' = 0 /\ proxy' = "running"
    BY DEF StartProxy
  <1> QED BY <1>1, <1>2, TeleportAssumption DEF BridgeInv, BridgeTypeOK, HeldSinceRead

LEMMA BridgeStepInv == BridgeInv /\ [BridgeNext]_bridgeVars => BridgeInv'
  <1> SUFFICES ASSUME BridgeInv, [BridgeNext]_bridgeVars PROVE BridgeInv'
    OBVIOUS
  <1> USE TeleportAssumption
  <1>1. CASE UNCHANGED bridgeVars
    BY <1>1 DEF bridgeVars, BridgeInv, BridgeTypeOK, HeldSinceRead
  <1>2. CASE Launch
    BY <1>2 DEF Launch, BridgeInv, BridgeTypeOK, HeldSinceRead
  <1>3. CASE Renew
    BY <1>3, MissingIsNoAge DEF Renew, BridgeInv, BridgeTypeOK, HeldSinceRead
  <1>4. CASE IdentityReady
    BY <1>4, StartKeeps DEF IdentityReady
  <1>5. CASE JoinTimesOut \/ TbotExits
    BY <1>5, DownKeeps DEF JoinTimesOut, TbotExits
  <1>6. CASE RestartDue
    BY <1>6 DEF RestartDue, BridgeInv, BridgeTypeOK, HeldSinceRead
  <1>7. ASSUME NEW bySignal \in BOOLEAN, ProxyExits(bySignal) PROVE BridgeInv'
    <2>1. CASE bySignal
      <3>1. launcher = "up" /\ identity # Missing /\ waited \in 0..JoinPatience
        BY <1>7 DEF ProxyExits, BridgeInv, BridgeTypeOK, HeldSinceRead
      <3>2. StartProxy /\ UNCHANGED <<launcher, waited, identity>>
        BY <1>7, <2>1 DEF ProxyExits
      <3> QED BY <3>1, <3>2, StartKeeps
    <2>2. CASE ~bySignal
      BY <1>7, <2>2, DownKeeps DEF ProxyExits
    <2> QED BY <2>1, <2>2
  <1>8. CASE BridgeTick
    <2>1. launcher # "down" /\ identity # RenewEvery /\ proxy # "killed"
          /\ timer < RestartEvery /\ UNCHANGED <<launcher, proxy>>
      BY <1>8 DEF BridgeTick
    <2>2. CASE launcher = "joining"
      <3>1. waited' = waited + 1 /\ waited < JoinPatience
            /\ UNCHANGED <<identity, held, timer>>
        BY <1>8, <2>2 DEF BridgeTick
      <3> QED BY <2>1, <2>2, <3>1 DEF BridgeInv, BridgeTypeOK, HeldSinceRead
    <2>3. CASE launcher = "up"
      <3>1. /\ identity' = identity + 1 /\ held' = held + 1 /\ timer' = timer + 1
            /\ UNCHANGED waited
        BY <1>8, <2>3 DEF BridgeTick
      <3>2. identity \in 0..RenewEvery
        BY <2>3 DEF BridgeInv, BridgeTypeOK, HeldSinceRead
      <3>3. identity' \in 0..RenewEvery /\ timer' \in 0..RestartEvery
        BY <2>1, <3>1, <3>2 DEF BridgeInv, BridgeTypeOK
      <3>4. held' <= timer' + RenewEvery
        BY <2>3, <3>1 DEF BridgeInv, BridgeTypeOK, HeldSinceRead
      <3> QED BY <2>1, <2>3, <3>1, <3>3, <3>4, MissingIsNoAge
              DEF BridgeInv, BridgeTypeOK, HeldSinceRead
    <2> QED BY <2>1, <2>2, <2>3 DEF BridgeInv, BridgeTypeOK
  <1> QED BY <1>1, <1>2, <1>3, <1>4, <1>5, <1>6, <1>7, <1>8 DEF BridgeNext

-----------------------------------------------------------------------------
(* The ages and timers of the launcher stay within the bounds of their     *)
(* types, through all exits and restarts.                                  *)
THEOREM BridgeTypes == BridgeSpec => []BridgeTypeOK
  <1>1. BridgeInv => BridgeTypeOK
    BY DEF BridgeInv
  <1> QED BY <1>1, BridgeInitInv, BridgeStepInv, PTL DEF BridgeSpec

(* No proxy serves with a certificate that has expired.                    *)
THEOREM BridgeCertificateIsValid == BridgeSpec => []CertificateIsValid
  <1>1. BridgeInv => CertificateIsValid
    BY TeleportAssumption DEF BridgeInv, BridgeTypeOK, HeldSinceRead, CertificateIsValid
  <1> QED BY <1>1, BridgeInitInv, BridgeStepInv, PTL DEF BridgeSpec

-----------------------------------------------------------------------------
(* The lookup of Form 9.                                                   *)

(* A set of positions that is not empty has a first one.                   *)
LEMMA FirstOf ==
  ASSUME NEW S, S \subseteq Nat, S # {}
  PROVE  Min(S) \in S /\ \A i \in S : Min(S) <= i
  <1>1. PICK m \in S : \A i \in S : ~(<<i, m>> \in OpToRel(<, Nat))
    BY NatLessThanWellFounded, WFMin, Zenon
  <1>2. \A i \in S : m <= i
    <2>1. \A i \in S : ~(i < m)
      BY <1>1, Zenon DEF OpToRel
    <2> QED BY <2>1
  <1> QED BY <1>2 DEF Min

(* What the parser makes of a mapping (MappingAssumption).                 *)
TablesRight ==
    \A i \in DOMAIN rows :
      LET node == rows[i].node
      IN  i \in Nat /\ rows[i] # Nothing /\ node = <<node[1], node[2], node[3]>>

(* The first row of a node, if it has one.                                 *)
LEMMA RowOfNode ==
  ASSUME TablesRight, NEW node
  PROVE  IF \E i \in DOMAIN rows : rows[i].node = node
         THEN \E i \in DOMAIN rows :
                /\ RowOf(node) = rows[i] /\ rows[i].node = node
                /\ \A j \in DOMAIN rows : rows[j].node = node => i <= j
         ELSE RowOf(node) = Nothing
  <1> DEFINE hits == {i \in DOMAIN rows : rows[i].node = node}
  <1>1. CASE hits = {}
    BY <1>1 DEF RowOf
  <1>2. CASE hits # {}
    <2>1. hits \subseteq Nat
      BY DEF TablesRight
    <2>2. Min(hits) \in hits /\ \A i \in hits : Min(hits) <= i
      <3> HIDE DEF hits
      <3> QED BY <1>2, <2>1, FirstOf
    <2>3. RowOf(node) = rows[Min(hits)]
      BY <1>2 DEF RowOf
    <2> QED BY <1>2, <2>2, <2>3
  <1> QED BY <1>1, <1>2

(* The candidates are looked up in their order.                            *)
LEMMA LookupOrder ==
  ASSUME NEW l1, NEW l2, NEW l3
  PROVE  LET R(k) == RowOf(Candidates(l1, l2, l3)[k])
         IN  LookupForm9(l1, l2, l3) =
               IF R(1) # Nothing THEN R(1)
               ELSE IF R(2) # Nothing THEN R(2) ELSE R(3)
  <1> DEFINE R(k) == RowOf(Candidates(l1, l2, l3)[k])
             hits == {k \in 1..3 : R(k) # Nothing}
  <1>1. LookupForm9(l1, l2, l3) = IF hits = {} THEN Nothing ELSE R(Min(hits))
    BY DEF LookupForm9
  <1>2. CASE hits = {}
    BY <1>1, <1>2
  <1>3. CASE hits # {}
    <2>0. hits \subseteq Nat
      OBVIOUS
    <2>1. Min(hits) \in hits /\ \A i \in hits : Min(hits) <= i
      <3> HIDE DEF hits
      <3> QED BY <1>3, <2>0, FirstOf
    <2> DEFINE m == Min(hits)
    <2> HIDE DEF m, R
    <2>2. /\ m \in 1..3 /\ R(m) # Nothing
          /\ R(1) # Nothing => m = 1
          /\ R(2) # Nothing => m <= 2
      BY <2>1 DEF m
    <2>3. LookupForm9(l1, l2, l3) = R(m)
      BY <1>1, <1>3 DEF m
    <2>4. m = 1 \/ m = 2 \/ m = 3
      BY <2>2
    <2>5. LookupForm9(l1, l2, l3) =
            IF R(1) # Nothing THEN R(1) ELSE IF R(2) # Nothing THEN R(2) ELSE R(3)
      BY <2>2, <2>3, <2>4
    <2> QED BY <2>5 DEF R
  <1> QED BY <1>2, <1>3

(* How specific a node is, level by level.                                 *)
Filled(name) == IF name = Blank THEN 0 ELSE 1

LEMMA DepthIs ==
  ASSUME NEW a, NEW b, NEW c
  PROVE  Depth(<<a, b, c>>) = Filled(a) + Filled(b) + Filled(c)
  <1> DEFINE node == <<a, b, c>>
             Upto(n) == {k \in 1..n : node[k] # Blank}
  <1>1. Upto(0) = {} /\ IsFiniteSet(Upto(0)) /\ Cardinality(Upto(0)) = 0
    <2>1. Upto(0) = {}
      OBVIOUS
    <2> QED BY <2>1, FS_EmptySet
  <1>2. ASSUME NEW n \in 0..2, IsFiniteSet(Upto(n)), Cardinality(Upto(n)) \in Nat
        PROVE  /\ IsFiniteSet(Upto(n + 1))
               /\ Cardinality(Upto(n + 1)) = Cardinality(Upto(n)) + Filled(node[n + 1])
    <2>1. Upto(n + 1) = IF node[n + 1] = Blank THEN Upto(n) ELSE Upto(n) \cup {n + 1}
      <3>1. \A k : k \in 1..(n + 1) <=> k \in 1..n \/ k = n + 1
        OBVIOUS
      <3> HIDE DEF node
      <3> QED BY <3>1
    <2>2. n + 1 \notin Upto(n)
      OBVIOUS
    <2> HIDE DEF Upto, node
    <2>3. CASE node[n + 1] = Blank
      BY <1>2, <2>1, <2>3 DEF Filled
    <2>4. CASE node[n + 1] # Blank
      <3>1. /\ IsFiniteSet(Upto(n) \cup {n + 1})
            /\ Cardinality(Upto(n) \cup {n + 1}) = Cardinality(Upto(n)) + 1
        BY <1>2, <2>2, FS_AddElement
      <3> QED BY <2>1, <2>4, <3>1 DEF Filled
    <2> QED BY <2>3, <2>4
  <1>3. node[1] = a /\ node[2] = b /\ node[3] = c
    OBVIOUS
  <1>4. Filled(a) \in 0..1 /\ Filled(b) \in 0..1 /\ Filled(c) \in 0..1
    BY DEF Filled
  <1>5. Depth(node) = Cardinality(Upto(3))
    BY DEF Depth
  <1> HIDE DEF Upto, node
  <1>6. IsFiniteSet(Upto(1)) /\ Cardinality(Upto(1)) = Filled(a)
    BY <1>1, <1>2, <1>3, <1>4
  <1>7. IsFiniteSet(Upto(2)) /\ Cardinality(Upto(2)) = Filled(a) + Filled(b)
    BY <1>6, <1>2, <1>3, <1>4
  <1>8. Cardinality(Upto(3)) = Filled(a) + Filled(b) + Filled(c)
    BY <1>7, <1>2, <1>3, <1>4
  <1> QED BY <1>5, <1>8 DEF node

(* Every row that applies is of one of the candidates, which stand in the  *)
(* order of how specific they are.                                         *)
LEMMA LookupRight ==
  ASSUME TablesRight, NEW l1, NEW l2, NEW l3, l1 # Blank
  PROVE  LET node == <<l1, l2, l3>>
             answer == LookupForm9(l1, l2, l3)
             applicable == {i \in DOMAIN rows : Applies(rows[i], node)}
         IN  IF applicable = {} THEN answer = Nothing
             ELSE \E i \in applicable :
                    /\ answer = rows[i]
                    /\ \A j \in applicable :
                         \/ Depth(rows[j].node) < Depth(rows[i].node)
                         \/ Depth(rows[j].node) = Depth(rows[i].node) /\ i <= j
  <1> DEFINE node == <<l1, l2, l3>>
             c2 == <<l1, l2, Blank>>
             c3 == <<l1, Blank, Blank>>
             Has(n) == \E i \in DOMAIN rows : rows[i].node = n
             F == LookupForm9(l1, l2, l3)
             applicable == {i \in DOMAIN rows : Applies(rows[i], node)}
             Wins(i) == \A j \in applicable :
                          \/ Depth(rows[j].node) < Depth(rows[i].node)
                          \/ Depth(rows[j].node) = Depth(rows[i].node) /\ i <= j
  <1>1. \A j \in DOMAIN rows :
          j \in applicable <=> rows[j].node \in {node, c2, c3}
    BY DEF TablesRight, Applies
  <1>2. F = IF RowOf(node) # Nothing THEN RowOf(node)
            ELSE IF RowOf(c2) # Nothing THEN RowOf(c2) ELSE RowOf(c3)
    BY LookupOrder DEF Candidates
  <1>3. /\ Depth(node) = 1 + Filled(l2) + Filled(l3)
        /\ Depth(c2) = 1 + Filled(l2)
        /\ Depth(c3) = 1
        /\ Filled(l2) \in 0..1 /\ Filled(l3) \in 0..1
    BY DepthIs DEF Filled
  <1>4. /\ node = c2 <=> Filled(l3) = 0
        /\ c2 = c3 <=> Filled(l2) = 0
    BY DEF Filled
  <1>5. \A n : RowOf(n) # Nothing <=> Has(n)
    BY RowOfNode DEF TablesRight
  <1>6. ASSUME NEW n \in {node, c2, c3}, Has(n), F = RowOf(n),
               \A j \in applicable : rows[j].node = n \/ Depth(rows[j].node) < Depth(n)
        PROVE  \E i \in applicable : F = rows[i] /\ Wins(i)
    <2>1. PICK i \in DOMAIN rows :
                /\ RowOf(n) = rows[i] /\ rows[i].node = n
                /\ \A j \in DOMAIN rows : rows[j].node = n => i <= j
      BY <1>6, RowOfNode
    <2>2. i \in applicable
      BY <1>1, <2>1
    <2>3. Wins(i)
      BY <1>6, <2>1
    <2> QED BY <1>6, <2>1, <2>2, <2>3
  <1>7. CASE Has(node)
    <2>1. F = RowOf(node)
      BY <1>2, <1>5, <1>7
    <2>2. \A j \in applicable : rows[j].node = node \/ Depth(rows[j].node) < Depth(node)
      <3> HIDE DEF node, c2, c3
      <3> QED BY <1>1, <1>3, <1>4
    <2> QED BY <1>6, <1>7, <2>1, <2>2
  <1>8. CASE ~Has(node) /\ Has(c2)
    <2>1. F = RowOf(c2)
      BY <1>2, <1>5, <1>8
    <2>2. \A j \in applicable : rows[j].node = c2 \/ Depth(rows[j].node) < Depth(c2)
      <3> HIDE DEF node, c2, c3
      <3> QED BY <1>1, <1>3, <1>4, <1>8
    <2> QED BY <1>6, <1>8, <2>1, <2>2
  <1>9. CASE ~Has(node) /\ ~Has(c2) /\ Has(c3)
    <2>1. F = RowOf(c3)
      BY <1>2, <1>5, <1>9
    <2>2. \A j \in applicable : rows[j].node = c3
      BY <1>1, <1>9
    <2> QED BY <1>6, <1>9, <2>1, <2>2
  <1>10. CASE ~Has(node) /\ ~Has(c2) /\ ~Has(c3)
    <2>1. F = Nothing
      BY <1>2, <1>5, <1>10
    <2>2. applicable = {}
      BY <1>1, <1>10
    <2> QED BY <2>1, <2>2
  <1> QED BY <1>7, <1>8, <1>9, <1>10

MappingInv == TablesRight /\ MostSpecificRow

LEMMA MappingStepInv == MappingInv /\ [MappingNext]_mappingVars => MappingInv'
  <1> SUFFICES ASSUME MappingInv, [MappingNext]_mappingVars PROVE MappingInv'
    OBVIOUS
  <1>1. CASE UNCHANGED mappingVars
    BY <1>1 DEF mappingVars, MappingInv, TablesRight, MostSpecificRow
  <1>2. ASSUME NEW l1 \in Rails, NEW l2, NEW l3, Lookup(l1, l2, l3)
        PROVE  MappingInv'
    <2>1. rows' = rows /\ asked' = <<l1, l2, l3>> /\ found' = LookupForm9(l1, l2, l3)
      BY <1>2 DEF Lookup
    <2>2. TablesRight'
      BY <2>1 DEF MappingInv, TablesRight
    <2>3. CASE l1 = Blank
      BY <2>1, <2>2, <2>3 DEF MappingInv, MostSpecificRow
    <2>4. CASE l1 # Blank
      <3>1. asked'[1] # Blank
        BY <2>1, <2>4
      <3>2. MostSpecificRow'
        BY <2>1, <2>4, <3>1, LookupRight DEF MappingInv, MostSpecificRow
      <3> QED BY <2>2, <3>2 DEF MappingInv
    <2> QED BY <2>3, <2>4
  <1> QED BY <1>1, <1>2 DEF MappingNext

(* MostSpecificRow: whatever the classifier asks of whatever table, it is  *)
(* given the most specific row that applies, the first of several.         *)
THEOREM MappingFindsMostSpecific ==
  MappingInit /\ [][MappingNext]_mappingVars => []MostSpecificRow
  <1>1. MappingInit => MappingInv
    BY MappingAssumption DEF MappingInit, MappingInv, TablesRight, MostSpecificRow
  <1>2. MappingInv => MostSpecificRow
    BY DEF MappingInv
  <1> QED BY <1>1, <1>2, MappingStepInv, PTL

-----------------------------------------------------------------------------
(* All parts side by side, of which one moves.                             *)
BlocksInv == QueueInv /\ PlanInv /\ BookInv /\ TokenInv /\ BridgeInv

LEMMA BlocksInitInv == Init => BlocksInv
  <1> SUFFICES ASSUME Init PROVE BlocksInv
    OBVIOUS
  <1>1. QueueInv /\ BookInv /\ TokenInv /\ BridgeInv
    BY QueueInitInv, LedgerInitInv, TokenInitInv, BridgeInitInv DEF Init
  <1>2. PlanInv
    <2>1. CASE part = "plan"
      BY <2>1, PlanInitInv DEF Init
    <2>2. CASE part # "plan"
      <3>1. <<>> \in Seq(Entry)
        OBVIOUS
      <3> QED BY <2>2, <3>1, PlanStartInv DEF Init
    <2> QED BY <2>1, <2>2
  <1> QED BY <1>1, <1>2 DEF BlocksInv

LEMMA BlocksStepInv == BlocksInv /\ [Next]_vars => BlocksInv'
  <1> SUFFICES ASSUME BlocksInv, [Next]_vars PROVE BlocksInv'
    OBVIOUS
  <1>1. [QueueNext]_queueVars
    BY DEF Next, vars, Queueing
  <1>2. [PlanEntry]_planVars
    BY DEF Next, vars, Queueing, PlanDone
  <1>3. [LedgerNext]_ledgerVars
    BY DEF Next, vars, Queueing
  <1>4. [TokenNext]_tokenVars
    BY DEF Next, vars, others, Queueing
  <1>5. [BridgeNext]_bridgeVars
    BY DEF Next, vars, others, Queueing
  <1> QED BY <1>1, <1>2, <1>3, <1>4, <1>5, QueueStepInv, PlanStepInv, LedgerStepInv,
             TokenStepInv, BridgeStepInv DEF BlocksInv

(* TypesOK: side by side, too, every part keeps its types, whatever the    *)
(* jobs, classifications, pledges and periods are.                         *)
THEOREM BlocksTypes == Spec => []TypesOK
  <1>1. BlocksInv => TypesOK
    BY DEF BlocksInv, TypesOK, QueueInv, PlanInv, BookInv, TokenInv, BridgeInv
  <1> QED BY <1>1, BlocksInitInv, BlocksStepInv, PTL DEF Spec
=============================================================================
