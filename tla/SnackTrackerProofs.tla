------------------------- MODULE SnackTrackerProofs -------------------------
(***************************************************************************)
(* The snack tracker uses its queue as a queue and the ledger as a ledger, *)
(* and a message is noted in its thread at most once, and only when it is  *)
(* listed, for any number of messages, workers, deliveries and faults.     *)
(***************************************************************************)
EXTENDS SnackTracker, TLAPS

QP == INSTANCE JobQueueProofs WITH Jobs <- Messages, NoWorker <- None

LP == INSTANCE SnacksLedgerProofs WITH Pledges <- Messages,
         Recorders <- Workers, Tools <- {}

LEMMA PartsAssumptions == QP!QueueAssumption /\ LP!LedgerAssumption
  BY TrackerAssumption DEF QP!QueueAssumption, LP!LedgerAssumption, LP!Results

-----------------------------------------------------------------------------
(* What the attempts do to the queue and to the ledger.                    *)

(* A worker that is not idle works on a message.                           *)
Busy ==
    /\ pc \in [Workers -> PCs]
    /\ cur \in [Workers -> Messages \cup {None}]
    /\ \A w \in Workers : pc[w] # "idle" => cur[w] \in Messages

LEMMA BusyStep == Busy /\ [Next]_vars => Busy'
  <1> SUFFICES ASSUME Busy, [Next]_vars PROVE Busy'
    OBVIOUS
  <1> USE DEF Busy, PCs, GoTo
  <1>1. CASE UNCHANGED vars
    BY <1>1 DEF vars, attempt
  <1>2. ASSUME NEW m \in Messages, OnBakarMessage(m) \/ QueueTimer(m) PROVE Busy'
    BY <1>2 DEF OnBakarMessage, QueueTimer, attempt
  <1>3. ASSUME NEW w \in Workers, NEW m \in Messages, Take(w, m) \/ GiveUp(w, m)
        PROVE  Busy'
    BY <1>3 DEF Take, GiveUp, attempt
  <1>4. ASSUME NEW w \in Workers, NEW yes \in BOOLEAN, Classify(w, yes) PROVE Busy'
    BY <1>4 DEF Classify
  <1>5. ASSUME NEW w \in Workers, Throw(w) \/ Ledger(w) PROVE Busy'
    BY <1>5 DEF Throw, Ledger, attempt
  <1>6. ASSUME NEW w \in Workers, Recorded(w) PROVE Busy'
    <2>1. /\ pc[w] = "recording" /\ cur' = cur
          /\ \E place \in {"confirming", "returned", "threw"} :
               pc' = [pc EXCEPT ![w] = place]
      BY <1>6 DEF Recorded
    <2> QED BY <2>1
  <1>7. ASSUME NEW w \in Workers, NEW shown, NEW ok, Confirm(w, shown, ok) PROVE Busy'
    BY <1>7 DEF Confirm
  <1>8. ASSUME NEW w \in Workers, End(w) \/ Crash(w) PROVE Busy'
    <2>1. Forget(w)
      BY <1>8 DEF End, Crash
    <2> QED BY <2>1 DEF Forget
  <1> QED BY <1>1, <1>2, <1>3, <1>4, <1>5, <1>6, <1>7, <1>8 DEF Next

LEMMA QueueOperations ==
  /\ \A w, m : Q!Take(w, m) <=> QP!Take(w, m)
  /\ \A m : Q!GiveUp(m) <=> QP!GiveUp(m)
  /\ \A m : Q!Add(m) <=> QP!Add(m)
  /\ \A m : Q!Promote(m) <=> QP!Promote(m)
  /\ \A m : Q!Stall(m) <=> QP!Stall(m)
  /\ \A w, m : Q!Complete(w, m) <=> QP!Complete(w, m)
  /\ \A w, m : Q!Fail(w, m) <=> QP!Fail(w, m)
  BY DEF Q!Take, QP!Take, Q!GiveUp, QP!GiveUp, Q!Add, QP!Add, Q!Promote,
     QP!Promote, Q!Stall, QP!Stall, Q!Complete, QP!Complete, Q!Fail, QP!Fail,
     Q!IsNext, QP!IsNext, Q!Doomed, QP!Doomed, Q!NewJob, QP!NewJob, Q!NoJob,
     QP!NoJob, Q!queueVars, QP!queueVars, Q!HoldsLock, QP!HoldsLock,
     Q!LastAttempt, QP!LastAttempt

LEMMA QueueStep ==
  ASSUME Busy, [Next]_vars PROVE [QP!QueueNext]_(QP!queueVars)
  <1> USE DEF QP!QueueNext, QP!queueVars, QP!Serve, QP!EndAttempt, queue
  <1>1. CASE UNCHANGED vars
    BY <1>1 DEF vars
  <1>2. ASSUME NEW m \in Messages, OnBakarMessage(m) \/ QueueTimer(m)
        PROVE  QP!QueueNext \/ UNCHANGED queue
    BY <1>2, QueueOperations DEF OnBakarMessage, QueueTimer
  <1>3. ASSUME NEW w \in Workers, NEW m \in Messages, Take(w, m) \/ GiveUp(w, m)
        PROVE  QP!QueueNext
    BY <1>3, QueueOperations DEF Take, GiveUp
  <1>4. ASSUME NEW w \in Workers, End(w)
        PROVE  QP!QueueNext \/ UNCHANGED queue
    <2>1. pc[w] \in {"returned", "threw"} => cur[w] \in Messages
      BY DEF Busy
    <2> QED BY <1>4, <2>1, QueueOperations DEF End
  <1>5. ASSUME NEW w \in Workers,
               \/ \E yes \in BOOLEAN : Classify(w, yes)
               \/ Throw(w) \/ Ledger(w) \/ Recorded(w) \/ Crash(w)
               \/ \E shown, ok \in BOOLEAN : Confirm(w, shown, ok)
        PROVE  UNCHANGED queue
    BY <1>5 DEF Classify, Throw, Ledger, Recorded, Crash, Confirm
  <1> QED BY <1>1, <1>2, <1>3, <1>4, <1>5 DEF Next

LEMMA LedgerOperations ==
  /\ \A w, m : L!Record(w, m) <=> LP!Record(w, m)
  /\ \A w : L!Proceed(w) <=> LP!Proceed(w)
  /\ \A w : L!Return(w) <=> LP!Return(w)
  /\ \A w : L!Die(w) <=> LP!Die(w)
  <1> USE DEF L!store, LP!store, L!Idle, LP!Idle, L!At, LP!At
  <1>1. /\ \A c, o : L!Find(c, o) <=> LP!Find(c, o)
        /\ \A c, o : L!SetGate(c, o) <=> LP!SetGate(c, o)
        /\ \A c, o : L!AppendToList(c, o) <=> LP!AppendToList(c, o)
        /\ \A c, o : L!RollBack(c, o) <=> LP!RollBack(c, o)
        /\ \A c, l, o : L!GetList(c, l, o) <=> LP!GetList(c, l, o)
        /\ \A c : L!ListDone(c) <=> LP!ListDone(c)
    BY DEF L!Find, LP!Find, L!SetGate, LP!SetGate, L!AppendToList,
       LP!AppendToList, L!RollBack, LP!RollBack, L!GetList, LP!GetList,
       L!ListDone, LP!ListDone, L!Outcome, LP!Outcome, L!Finish, LP!Finish,
       L!Go, LP!Go, L!Pledged, LP!Pledged, L!Calls, LP!Calls, L!Open, LP!Open,
       L!Fulfilled, LP!Fulfilled, L!Lists, LP!Lists, L!Range, LP!Range
  <1>2. \A w : L!Proceed(w) <=> LP!Proceed(w)
    BY <1>1 DEF L!Proceed, LP!Proceed, L!Outcomes, LP!Outcomes, L!Lists, LP!Lists
  <1>3. \A w : L!Forget(w) <=> LP!Forget(w)
    BY DEF L!Forget, LP!Forget, L!NoView, LP!NoView, L!NeverOpen, LP!NeverOpen,
       L!Lists, LP!Lists
  <1> QED BY <1>2, <1>3 DEF L!Record, LP!Record, L!Return, LP!Return, L!Die, LP!Die

LEMMA LedgerStep ==
  ASSUME Busy, [Next]_vars PROVE [LP!LedgerNext]_(LP!ledgerVars)
  <1> USE DEF LP!LedgerNext, LP!ledgerVars, LP!store, LP!Calls, LP!Begin, ledger
  <1>1. CASE UNCHANGED vars
    BY <1>1 DEF vars
  <1>2. ASSUME NEW w \in Workers, NEW yes \in BOOLEAN, Classify(w, yes)
        PROVE  LP!LedgerNext \/ UNCHANGED ledger
    <2>1. cur[w] \in Messages
      BY <1>2 DEF Classify, Busy
    <2> QED BY <1>2, <2>1, LedgerOperations DEF Classify
  <1>3. ASSUME NEW w \in Workers, Ledger(w) \/ Recorded(w) \/ Crash(w)
        PROVE  LP!LedgerNext \/ UNCHANGED ledger
    BY <1>3, LedgerOperations DEF Ledger, Recorded, Crash
  <1>4. ASSUME NEW m \in Messages, OnBakarMessage(m) \/ QueueTimer(m)
        PROVE  UNCHANGED ledger
    BY <1>4 DEF OnBakarMessage, QueueTimer
  <1>5. ASSUME NEW w \in Workers,
               \/ \E m \in Messages : Take(w, m) \/ GiveUp(w, m)
               \/ Throw(w) \/ End(w)
               \/ \E shown, ok \in BOOLEAN : Confirm(w, shown, ok)
        PROVE  UNCHANGED ledger
    BY <1>5 DEF Take, GiveUp, Throw, End, Confirm
  <1> QED BY <1>1, <1>2, <1>3, <1>4, <1>5 DEF Next

PartsInv == Busy /\ QP!QueueInv /\ LP!BookInv

LEMMA PartsInit == Init => PartsInv
  <1> SUFFICES ASSUME Init PROVE PartsInv
    OBVIOUS
  <1>1. Busy
    BY DEF Init, Busy, PCs
  <1>2. QP!QueueInit
    BY DEF Init, Q!QueueInit, QP!QueueInit, Q!NoJob, QP!NoJob
  <1>3. LP!LedgerInit
    BY DEF Init, L!LedgerInit, LP!LedgerInit, L!Idle, LP!Idle, L!NoView,
       LP!NoView, L!NeverOpen, LP!NeverOpen, L!Lists, LP!Lists, L!Calls, LP!Calls
  <1> QED BY <1>1, <1>2, <1>3, PartsAssumptions, QP!QueueInitInv, LP!LedgerInitInv
          DEF PartsInv

LEMMA PartsStep == PartsInv /\ [Next]_vars => PartsInv'
  BY PartsAssumptions, BusyStep, QueueStep, LedgerStep, QP!QueueStepInv,
     LP!LedgerStepInv DEF PartsInv

(* So what holds of every job queue holds of this one, and what holds of   *)
(* the ledger holds of its use by the attempts.                            *)
THEOREM SnackPartsCorrect == Spec => []QP!QueueInv /\ []LP!BookInv
  <1>1. PartsInv => QP!QueueInv /\ LP!BookInv
    BY DEF PartsInv
  <1> QED BY <1>1, PartsInit, PartsStep, PTL DEF Spec

-----------------------------------------------------------------------------
(* The types.                                                              *)
Counted ==
    /\ deliveries \in [Messages -> 0..MaxDeliveries]
    /\ posts \in [Messages -> Nat]

LEMMA CountedStep == Busy /\ Counted /\ [Next]_vars => Counted'
  <1> SUFFICES ASSUME Busy, Counted, [Next]_vars PROVE Counted'
    OBVIOUS
  <1> USE DEF Counted
  <1>1. CASE UNCHANGED <<deliveries, posts>>
    BY <1>1
  <1>2. ASSUME NEW m \in Messages, OnBakarMessage(m) PROVE Counted'
    BY <1>2, TrackerAssumption DEF OnBakarMessage
  <1>3. ASSUME NEW w \in Workers, NEW shown \in BOOLEAN, NEW ok \in BOOLEAN,
               Confirm(w, shown, ok)
        PROVE  Counted'
    BY <1>3 DEF Confirm, Busy
  <1>4. CASE \/ \E m \in Messages : QueueTimer(m)
             \/ \E w \in Workers :
                  \/ \E m \in Messages : Take(w, m) \/ GiveUp(w, m)
                  \/ \E isSnacksPledge \in BOOLEAN : Classify(w, isSnacksPledge)
                  \/ Throw(w) \/ Ledger(w) \/ Recorded(w) \/ End(w) \/ Crash(w)
    BY <1>1, <1>4 DEF QueueTimer, Take, GiveUp, Classify, Throw, Ledger, Recorded,
       End, Crash
  <1>5. CASE UNCHANGED vars
    BY <1>1, <1>5 DEF vars
  <1> QED BY <1>2, <1>3, <1>4, <1>5 DEF Next

(* The types of the tracker, its queue and its ledger.                     *)
THEOREM SnackTypeOK == Spec => []TypeOK
  <1>1. Init => Counted
    BY TrackerAssumption DEF Init, Counted
  <1>2. PartsInv /\ Counted => TypeOK
    <2>1. QP!QueueTypeOK <=> Q!QueueTypeOK
      BY DEF QP!QueueTypeOK, Q!QueueTypeOK, QP!JobRecord, Q!JobRecord,
             QP!States, Q!States
    <2>2. LP!LedgerTypeOK <=> L!LedgerTypeOK
      BY DEF LP!LedgerTypeOK, L!LedgerTypeOK, LP!CallRecord, L!CallRecord,
             LP!Lists, L!Lists, LP!Calls, L!Calls, LP!Results, L!Results
    <2> QED BY <2>1, <2>2 DEF PartsInv, Counted, Busy, TypeOK, QP!QueueInv, LP!BookInv
  <1>3. PartsInv /\ Counted /\ [Next]_vars => Counted'
    BY CountedStep DEF PartsInv
  <1> QED BY <1>1, <1>2, <1>3, PartsInit, PartsStep, PTL DEF Spec

-----------------------------------------------------------------------------
(* A worker has a call of the ledger while it records, and no other time;  *)
(* the call is about its message.                                          *)
Linked ==
    \A w \in Workers :
      /\ pc[w] # "recording" => call[w] = LP!Idle
      /\ pc[w] = "recording" =>
           /\ call[w].at \in {"gating", "appending", "rolling_back", "returned"}
           /\ call[w].pledge = cur[w] /\ call[w].to = "pledges"

(* What a step of the ledger does to the calls.                            *)
LEMMA ProceedMoves ==
  ASSUME PartsInv, Linked, NEW w \in Workers, LP!Proceed(w)
  PROVE  /\ pc[w] = "recording"
         /\ call'[w].at \in {"gating", "appending", "rolling_back", "returned"}
         /\ call'[w].pledge = call[w].pledge /\ call'[w].to = call[w].to
         /\ \A x \in Workers : x # w => call'[x] = call[x]
  <1>1. call \in [Workers -> LP!CallRecord] /\ LP!LedgerTypeOK
    BY DEF PartsInv, LP!BookInv, LP!LedgerTypeOK, LP!Calls
  <1>2. call[w].at # "idle" /\ pc[w] = "recording"
    BY DEF LP!Proceed, LP!Find, LP!SetGate, LP!AppendToList, LP!RollBack,
       LP!GetList, LP!ListDone, LP!At, LP!Idle, Linked
  <1>3. \/ \E place \in {"appending", "rolling_back"} : LP!Go(w, place)
        \/ \E result \in LP!Results : LP!Finish(w, result)
    BY <1>2 DEF LP!Proceed, LP!Find, LP!SetGate, LP!AppendToList, LP!RollBack,
       LP!GetList, LP!ListDone, LP!At, LP!Results, Linked
  <1>4. \E r \in LP!CallRecord :
          /\ call' = [call EXCEPT ![w] = r]
          /\ r.at \in {"appending", "rolling_back", "returned"}
          /\ r.pledge = call[w].pledge /\ r.to = call[w].to
    BY <1>1, <1>3, PartsAssumptions, LP!Moved DEF LP!Calls
  <1> QED BY <1>1, <1>2, <1>4

LEMMA LinkedStep == PartsInv /\ Linked /\ [Next]_vars => Linked'
  <1> SUFFICES ASSUME PartsInv, Linked, [Next]_vars PROVE Linked'
    OBVIOUS
  <1>0. /\ pc \in [Workers -> PCs] /\ cur \in [Workers -> Messages \cup {None}]
        /\ call \in [Workers -> LP!CallRecord]
    BY DEF PartsInv, Busy, LP!BookInv, LP!LedgerTypeOK, LP!Calls
  <1>1. ASSUME UNCHANGED call,
               \A w \in Workers :
                 /\ pc'[w] = "recording" <=> pc[w] = "recording"
                 /\ pc[w] = "recording" => cur'[w] = cur[w]
        PROVE  Linked'
    BY <1>1 DEF Linked
  <1>2. CASE UNCHANGED vars
    BY <1>1, <1>2 DEF vars, ledger, attempt
  <1>3. ASSUME NEW m \in Messages, OnBakarMessage(m) \/ QueueTimer(m) PROVE Linked'
    BY <1>1, <1>3 DEF OnBakarMessage, QueueTimer, ledger, attempt
  <1>4. ASSUME NEW w \in Workers, NEW m \in Messages, Take(w, m) \/ GiveUp(w, m)
        PROVE  Linked'
    BY <1>0, <1>1, <1>4 DEF Take, GiveUp, ledger, attempt, GoTo
  <1>5. ASSUME NEW w \in Workers, NEW yes \in BOOLEAN, Classify(w, yes) PROVE Linked'
    <2>1. CASE yes
      <3>1. pc' = [pc EXCEPT ![w] = "recording"] /\ cur' = cur
            /\ LP!Record(w, cur[w])
        BY <1>5, <2>1, LedgerOperations DEF Classify, GoTo
      <3>2. /\ call'[w].at = "gating" /\ call'[w].pledge = cur[w]
            /\ call'[w].to = "pledges"
            /\ \A x \in Workers : x # w => call'[x] = call[x]
        BY <1>0, <3>1 DEF LP!Record, LP!Idle
      <3> QED BY <1>0, <3>1, <3>2 DEF Linked
    <2>2. CASE ~yes
      BY <1>0, <1>1, <1>5, <2>2 DEF Classify, GoTo, ledger
    <2> QED BY <2>1, <2>2
  <1>6. ASSUME NEW w \in Workers, Ledger(w) PROVE Linked'
    <2>1. LP!Proceed(w) /\ UNCHANGED attempt
      BY <1>6, LedgerOperations DEF Ledger
    <2> QED BY <2>1, ProceedMoves DEF Linked, attempt
  <1>7. ASSUME NEW w \in Workers, Throw(w) \/ End(w) PROVE Linked'
    <2>1. pc[w] # "recording" /\ UNCHANGED call
      BY <1>7 DEF Throw, End, ledger
    <2>2. /\ pc'[w] \in {"threw", "idle"}
          /\ \A x \in Workers : x # w => pc'[x] = pc[x] /\ cur'[x] = cur[x]
      BY <1>0, <1>7 DEF Throw, End, Forget, GoTo
    <2> QED BY <1>1, <2>1, <2>2
  <1>8. ASSUME NEW w \in Workers, NEW shown, NEW ok, Confirm(w, shown, ok)
        PROVE  Linked'
    BY <1>0, <1>1, <1>8 DEF Confirm, GoTo, ledger
  <1>9. ASSUME NEW w \in Workers, Recorded(w) \/ Crash(w) PROVE Linked'
    <2>1. /\ pc'[w] # "recording"
          /\ \A x \in Workers : x # w => pc'[x] = pc[x] /\ cur'[x] = cur[x]
      BY <1>0, <1>9 DEF Recorded, Crash, Forget, GoTo
    <2>2. /\ call'[w] = LP!Idle
          /\ \A x \in Workers : x # w => call'[x] = call[x]
      <3>1. CASE LP!Return(w) \/ LP!Die(w)
        BY <1>0, <3>1 DEF LP!Return, LP!Die, LP!Forget
      <3>2. CASE pc[w] # "recording" /\ UNCHANGED ledger
        BY <3>2 DEF ledger, Linked
      <3> QED BY <1>9, <3>1, <3>2, LedgerOperations DEF Recorded, Crash
    <2> QED BY <2>1, <2>2 DEF Linked
  <1> QED BY <1>2, <1>3, <1>4, <1>5, <1>6, <1>7, <1>8, <1>9 DEF Next

-----------------------------------------------------------------------------
(* What is confirmed is listed: a worker confirms what the ledger answered *)
(* "fresh" to, and nothing is ever taken off the list.                     *)
ConfirmsPledged ==
    /\ \A w \in Workers : pc[w] = "confirming" => cur[w] \in LP!Pledged
    /\ \A m \in Messages : posts[m] > 0 => m \in LP!Pledged

(* A worker that was told its pledge is fresh, until it has confirmed it.  *)
Holds(w, m) ==
    /\ cur[w] = m
    /\ pc[w] = "confirming" \/ (pc[w] = "recording" /\ call[w].result = "fresh")

(* At most one confirmation of a message is ever due, and a message that   *)
(* is confirmed or about to be stays behind its gate: whatever errors, no  *)
(* call can append it again.                                               *)
Shut(m) == LP!Shut("pledges", m)

OneConfirmation ==
    /\ \A w \in Workers, m \in Messages : Holds(w, m) =>
         /\ Shut(m) /\ posts[m] = 0
         /\ \A x \in Workers : Holds(x, m) => x = w
    /\ \A m \in Messages : posts[m] > 0 => Shut(m)
    /\ \A m \in Messages : posts[m] <= 1

LEMMA PledgedGrows ==
  ASSUME PartsInv, [Next]_vars PROVE LP!Pledged \subseteq LP!Pledged'
  <1>1. [LP!Book!BookNext]_(LP!Book!bookVars)
    BY PartsAssumptions, LedgerStep, LP!LedgerStepBook DEF PartsInv
  <1>2. LP!FulfilledWerePledged /\ LP!FulfilledWerePledged'
    BY PartsStep DEF PartsInv, LP!BookInv
  <1>3. LP!Open \cup LP!Fulfilled \subseteq (LP!Open \cup LP!Fulfilled)'
    BY <1>1 DEF LP!Book!BookNext, LP!Book!bookVars, LP!Book!Owe, LP!Book!Settle
  <1> QED BY <1>2, <1>3 DEF LP!FulfilledWerePledged, LP!Open

(* What one step may do to confirmations.  A worker comes to hold a        *)
(* message only by an append that adds it to the list.                     *)
LEMMA HoldsStep ==
  ASSUME PartsInv, Linked, [Next]_vars, NEW x \in Workers, NEW m \in Messages,
         Holds(x, m)', ~Holds(x, m)
  PROVE  /\ LP!Appending(x, "pledges", m) /\ m \in LP!Pledged'
         /\ \A y \in Workers : y # x =>
              pc'[y] = pc[y] /\ cur'[y] = cur[y] /\ call'[y] = call[y]
         /\ UNCHANGED <<posts, gate>> /\ call'[x].at = "returned"
  <1>0. /\ pc \in [Workers -> PCs] /\ cur \in [Workers -> Messages \cup {None}]
        /\ call \in [Workers -> LP!CallRecord]
    BY DEF PartsInv, Busy, LP!BookInv, LP!LedgerTypeOK, LP!Calls
  <1>1. ASSUME cur'[x] = cur[x],
               pc'[x] = pc[x] \/ pc'[x] \notin {"confirming", "recording"},
               call'[x] = call[x]
        PROVE  FALSE
    BY <1>1 DEF Holds
  <1>2. ASSUME NEW w \in Workers, Ledger(w)
        PROVE  w = x /\ LP!Proceed(x) /\ UNCHANGED <<pc, cur, posts>>
    <2>1. LP!Proceed(w) /\ UNCHANGED <<pc, cur, posts>>
      BY <1>2, LedgerOperations DEF Ledger, attempt
    <2>2. w # x => call'[x] = call[x]
      BY <2>1, ProceedMoves
    <2> QED BY <1>1, <2>1, <2>2
  <1>3. \E w \in Workers : Ledger(w)
    <2>1. CASE UNCHANGED vars
      BY <1>1, <2>1 DEF vars, attempt, ledger
    <2>2. ASSUME NEW n \in Messages, OnBakarMessage(n) \/ QueueTimer(n) PROVE FALSE
      BY <1>1, <2>2 DEF OnBakarMessage, QueueTimer, ledger, attempt
    <2>3. ASSUME NEW w \in Workers, NEW n \in Messages, Take(w, n) \/ GiveUp(w, n)
          PROVE  FALSE
      <3>1. CASE Take(w, n)
        BY <1>0, <3>1 DEF Take, GoTo, ledger, Holds
      <3>2. CASE GiveUp(w, n)
        BY <1>1, <3>2 DEF GiveUp, ledger, attempt
      <3> QED BY <2>3, <3>1, <3>2
    <2>4. ASSUME NEW w \in Workers, NEW yes \in BOOLEAN, Classify(w, yes)
          PROVE  FALSE
      <3>1. CASE yes
        <4>1. pc' = [pc EXCEPT ![w] = "recording"] /\ cur' = cur
              /\ LP!Record(w, cur[w])
          BY <2>4, <3>1, LedgerOperations DEF Classify, GoTo
        <4>2. /\ call'[w].result = None
              /\ \A y \in Workers : y # w => call'[y] = call[y]
          BY <1>0, <4>1 DEF LP!Record, LP!Idle
        <4> QED BY <1>0, <1>1, <4>1, <4>2, TrackerAssumption DEF Holds
      <3>2. CASE ~yes
        BY <1>0, <1>1, <2>4, <3>2 DEF Classify, GoTo, ledger
      <3> QED BY <3>1, <3>2
    <2>5. ASSUME NEW w \in Workers, Throw(w) \/ End(w) \/ Crash(w) PROVE FALSE
      <3>1. /\ pc'[w] \in {"threw", "idle"}
            /\ \A y \in Workers : y # w => pc'[y] = pc[y] /\ cur'[y] = cur[y]
        BY <1>0, <2>5 DEF Throw, End, Crash, Forget, GoTo
      <3>2. \A y \in Workers : y # w => call'[y] = call[y]
        <4>1. CASE LP!Die(w)
          BY <1>0, <4>1 DEF LP!Die, LP!Forget
        <4>2. CASE UNCHANGED ledger
          BY <4>2 DEF ledger
        <4> QED BY <2>5, <4>1, <4>2, LedgerOperations DEF Throw, End, Crash
      <3> QED BY <1>1, <3>1, <3>2 DEF Holds
    <2>6. ASSUME NEW w \in Workers, Recorded(w) PROVE FALSE
      <3>1. /\ pc[w] = "recording" /\ cur' = cur
            /\ pc'[w] = "confirming" => call[w].result = "fresh"
            /\ pc'[w] \in {"confirming", "returned", "threw"}
            /\ \A y \in Workers : y # w => pc'[y] = pc[y]
        BY <1>0, <2>6 DEF Recorded, GoTo
      <3>2. \A y \in Workers : y # w => call'[y] = call[y]
        BY <1>0, <2>6, LedgerOperations DEF Recorded, LP!Return, LP!Forget
      <3> QED BY <1>1, <3>1, <3>2 DEF Holds
    <2>7. ASSUME NEW w \in Workers, NEW shown \in BOOLEAN, NEW ok \in BOOLEAN,
                 Confirm(w, shown, ok)
          PROVE  FALSE
      <3>1. /\ pc'[w] \in {"returned", "threw"} /\ cur' = cur /\ call' = call
            /\ \A y \in Workers : y # w => pc'[y] = pc[y]
        BY <1>0, <2>7 DEF Confirm, GoTo, ledger
      <3> QED BY <1>1, <3>1
    <2> QED BY <2>1, <2>2, <2>3, <2>4, <2>5, <2>6, <2>7 DEF Next
  <1>4. LP!Proceed(x) /\ UNCHANGED <<pc, cur, posts>>
    BY <1>2, <1>3
  <1>5. pc[x] = "recording" /\ cur[x] = m /\ call'[x].result = "fresh"
        /\ call[x].result # "fresh"
    BY <1>4, ProceedMoves DEF Holds
  <1>6. LP!BookInv' /\ call'[x].pledge = m /\ call'[x].to = "pledges"
    BY <1>4, <1>5, ProceedMoves, PartsStep DEF PartsInv, Linked
  <1>7. m \in LP!Pledged'
    BY <1>5, <1>6, TrackerAssumption
       DEF LP!BookInv, LP!FreshMeansListed, LP!Pledged, LP!Calls
  <1>8. call[x].at = "appending"
    <2>1. \A o : ~LP!Find(x, o) /\ (\A l : ~LP!GetList(x, l, o)) /\ ~LP!ListDone(x)
      BY <1>5 DEF LP!Find, LP!GetList, LP!ListDone, LP!At, Linked
    <2>2. \A o : LP!SetGate(x, o) \/ LP!RollBack(x, o) =>
             \/ LP!Go(x, "appending")
             \/ \E result \in {"repeated", "threw"} : LP!Finish(x, result)
      BY DEF LP!SetGate, LP!RollBack
    <2>3. ~LP!Go(x, "appending")
      BY <1>0, <1>5 DEF LP!Go, LP!CallRecord
    <2>4. \A result \in {"repeated", "threw"} : ~LP!Finish(x, result)
      BY <1>0, <1>5 DEF LP!Finish, LP!CallRecord
    <2> QED BY <1>4, <2>1, <2>2, <2>3, <2>4 DEF LP!Proceed, LP!AppendToList, LP!At
  <1>9. LP!Appending(x, "pledges", m)
    BY <1>5, <1>8 DEF LP!Appending, Linked
  <1>10. gate' = gate /\ call'[x].at = "returned"
    <2>1. PICK o : LP!AppendToList(x, o)
      BY <1>4, <1>8 DEF LP!Proceed, LP!Find, LP!SetGate, LP!RollBack, LP!GetList,
         LP!ListDone, LP!At
    <2>2. ~LP!Go(x, "rolling_back")
      BY <1>0, <1>5 DEF LP!Go, LP!CallRecord
    <2>3. LP!Finish(x, "fresh") /\ gate' = gate
      BY <2>1, <2>2 DEF LP!AppendToList
    <2> QED BY <1>0, <2>3 DEF LP!Finish, LP!CallRecord
  <1> QED BY <1>4, <1>7, <1>9, <1>10, ProceedMoves

LEMMA PostsStep ==
  ASSUME PartsInv, [Next]_vars
  PROVE  \/ UNCHANGED posts
         \/ \E w \in Workers :
              /\ pc[w] = "confirming" /\ pc'[w] # "confirming" /\ pc'[w] # "recording"
              /\ \A y \in Workers : y # w => pc'[y] = pc[y]
              /\ cur[w] \in Messages /\ UNCHANGED cur
              /\ posts' = [posts EXCEPT ![cur[w]] = @ + 1]
              /\ UNCHANGED ledger
  <1>1. ASSUME NEW w \in Workers, NEW shown \in BOOLEAN, NEW ok \in BOOLEAN,
               Confirm(w, shown, ok), posts' # posts
        PROVE  /\ pc[w] = "confirming" /\ pc'[w] # "confirming" /\ pc'[w] # "recording"
               /\ \A y \in Workers : y # w => pc'[y] = pc[y]
               /\ cur[w] \in Messages /\ UNCHANGED cur
               /\ posts' = [posts EXCEPT ![cur[w]] = @ + 1]
               /\ UNCHANGED ledger
    BY <1>1 DEF Confirm, GoTo, PartsInv, Busy
  <1>2. CASE \/ UNCHANGED vars
             \/ \E m \in Messages : OnBakarMessage(m) \/ QueueTimer(m)
             \/ \E w \in Workers :
                  \/ \E m \in Messages : Take(w, m) \/ GiveUp(w, m)
                  \/ \E isSnacksPledge \in BOOLEAN : Classify(w, isSnacksPledge)
                  \/ Throw(w) \/ Ledger(w) \/ Recorded(w) \/ End(w) \/ Crash(w)
    BY <1>2 DEF vars, OnBakarMessage, QueueTimer, Take, GiveUp, Classify, Throw,
       Ledger, Recorded, End, Crash
  <1> QED BY <1>1, <1>2 DEF Next

LEMMA ConfirmsStep ==
  ASSUME PartsInv, Linked, ConfirmsPledged, [Next]_vars, posts \in [Messages -> Nat]
  PROVE  ConfirmsPledged'
  <1>1. LP!Pledged \subseteq LP!Pledged' /\ PartsInv'
    BY PledgedGrows, PartsStep
  <1>2. ASSUME NEW w \in Workers, pc'[w] = "confirming" PROVE cur'[w] \in LP!Pledged'
    <2>1. cur'[w] \in Messages
      BY <1>1, <1>2 DEF PartsInv, Busy
    <2>2. PICK m \in Messages : m = cur'[w]
      BY <2>1
    <2>3. Holds(w, m)'
      BY <1>2, <2>2 DEF Holds
    <2>4. CASE ~Holds(w, m)
      BY <2>2, <2>3, <2>4, HoldsStep
    <2>5. CASE Holds(w, m)
      <3>1. m \in LP!Pledged
        BY <2>5, TrackerAssumption DEF Holds, ConfirmsPledged, Linked, PartsInv,
           LP!BookInv, LP!FreshMeansListed, LP!Pledged, LP!Calls
      <3> QED BY <1>1, <2>2, <3>1
    <2> QED BY <2>4, <2>5
  <1>3. ASSUME NEW m \in Messages, posts'[m] > 0 PROVE m \in LP!Pledged'
    <2>1. CASE posts'[m] = posts[m]
      BY <1>1, <1>3, <2>1 DEF ConfirmsPledged
    <2>2. CASE posts'[m] # posts[m]
      BY <1>1, <2>2, PostsStep DEF ConfirmsPledged
    <2> QED BY <2>1, <2>2
  <1> QED BY <1>2, <1>3 DEF ConfirmsPledged

(* The gate lets one call append a message, whose worker was the first to  *)
(* hear that it is fresh; the others find the gate from then on.           *)
LEMMA OneConfirmationStep ==
  ASSUME PartsInv, Linked, LP!GatesHold, OneConfirmation,
         [Next]_vars, posts \in [Messages -> Nat]
  PROVE  OneConfirmation'
  <1>1. ASSUME NEW m \in Messages, Shut(m) PROVE Shut(m)'
    <2>1. [LP!LedgerNext]_(LP!ledgerVars) /\ LP!BookInv
      BY LedgerStep DEF PartsInv
    <2> QED BY <1>1, <2>1, PartsAssumptions, LP!ShutStays DEF Shut, LP!Lists
  <1>2. ASSUME NEW x \in Workers, NEW m \in Messages, Holds(x, m)', ~Holds(x, m)
        PROVE  /\ Shut(m)' /\ posts'[m] = 0
               /\ \A y \in Workers : Holds(y, m)' => y = x
    <2>1. /\ LP!Appending(x, "pledges", m) /\ call'[x].at = "returned"
          /\ \A y \in Workers : y # x =>
               pc'[y] = pc[y] /\ cur'[y] = cur[y] /\ call'[y] = call[y]
          /\ UNCHANGED <<posts, gate>>
      BY <1>2, HoldsStep
    <2>2. m \in gate["pledges"]
          /\ \A y \in Workers : LP!Appending(y, "pledges", m) => y = x
      BY <2>1 DEF LP!GatesHold, LP!Lists, LP!Calls
    <2>3. ~Shut(m)
      BY <2>1 DEF Shut, LP!Shut, LP!Calls
    <2>4. posts[m] = 0 /\ \A y \in Workers : ~Holds(y, m)
      BY <2>3 DEF OneConfirmation
    <2>5. \A y \in Workers : ~LP!Appending(y, "pledges", m)'
      BY <2>1, <2>2 DEF LP!Appending
    <2>6. Shut(m)'
      BY <2>1, <2>2, <2>5 DEF Shut, LP!Shut, LP!Calls
    <2> QED BY <2>1, <2>4, <2>6 DEF Holds
  <1>3. ASSUME NEW x \in Workers, NEW m \in Messages, Holds(x, m)', Holds(x, m)
        PROVE  posts'[m] = 0
    <2>1. posts[m] = 0
      BY <1>3 DEF OneConfirmation
    <2>2. CASE UNCHANGED posts
      BY <2>1, <2>2
    <2>3. ASSUME NEW w \in Workers,
                 pc[w] = "confirming", pc'[w] # "confirming", pc'[w] # "recording",
                 cur[w] \in Messages,
                 posts' = [posts EXCEPT ![cur[w]] = @ + 1]
          PROVE  posts'[m] = 0
      <3>1. x # w
        BY <1>3, <2>3 DEF Holds
      <3>2. Holds(w, cur[w])
        BY <2>3 DEF Holds
      <3>3. cur[w] # m
        BY <1>3, <2>3, <3>1, <3>2 DEF OneConfirmation
      <3> QED BY <2>1, <2>3, <3>3
    <2> QED BY <2>2, <2>3, PostsStep
  <1>4. ASSUME NEW x \in Workers, NEW y \in Workers, NEW m \in Messages,
               Holds(x, m)', Holds(y, m)'
        PROVE  x = y
    <2>1. CASE Holds(x, m) /\ Holds(y, m)
      BY <2>1 DEF OneConfirmation
    <2>2. CASE ~Holds(x, m) \/ ~Holds(y, m)
      BY <1>2, <1>4, <2>2
    <2> QED BY <2>1, <2>2
  <1>5. ASSUME NEW x \in Workers, NEW m \in Messages, Holds(x, m)'
        PROVE  Shut(m)'
    BY <1>1, <1>2, <1>5 DEF OneConfirmation
  <1>6. ASSUME NEW m \in Messages, posts'[m] > 0 PROVE Shut(m)'
    <2>1. CASE UNCHANGED posts
      BY <1>1, <1>6, <2>1 DEF OneConfirmation
    <2>2. ASSUME NEW w \in Workers, pc[w] = "confirming", cur[w] \in Messages,
                 posts' = [posts EXCEPT ![cur[w]] = @ + 1]
          PROVE  Shut(m)'
      <3>1. CASE m = cur[w]
        BY <1>1, <2>2, <3>1 DEF OneConfirmation, Holds
      <3>2. CASE m # cur[w]
        BY <1>1, <1>6, <2>2, <3>2 DEF OneConfirmation
      <3> QED BY <3>1, <3>2
    <2> QED BY <2>1, <2>2, PostsStep
  <1>7. ASSUME NEW m \in Messages PROVE posts'[m] <= 1
    <2>1. CASE UNCHANGED posts
      BY <2>1 DEF OneConfirmation
    <2>2. ASSUME NEW w \in Workers, pc[w] = "confirming", cur[w] \in Messages,
                 posts' = [posts EXCEPT ![cur[w]] = @ + 1]
          PROVE  posts'[m] <= 1
      <3>1. posts[cur[w]] = 0
        BY <2>2 DEF OneConfirmation, Holds
      <3> QED BY <2>2, <3>1 DEF OneConfirmation
    <2> QED BY <2>1, <2>2, PostsStep
  <1> QED BY <1>2, <1>3, <1>4, <1>5, <1>6, <1>7 DEF OneConfirmation

NotedInv == /\ PartsInv /\ Counted /\ Linked /\ ConfirmsPledged
            /\ LP!GatesHold /\ OneConfirmation

(* NotedOnce: however often a message is delivered, retried, or run by     *)
(* several workers at once, its author is told once that the round is      *)
(* noted, and owes one round, or one more for each append that Redis       *)
(* executed and whose answer got lost; and "noted" is said only of what    *)
(* the ledger has.                                                         *)
THEOREM SnackNotedOnce == Spec => []NotedOnce
  <1>1. Init => NotedInv
    <2> SUFFICES ASSUME Init PROVE NotedInv
      OBVIOUS
    <2>1. PartsInv /\ Counted /\ LP!Idle = L!Idle
      BY PartsInit, TrackerAssumption DEF Init, Counted, L!Idle, LP!Idle
    <2>2. LP!LedgerInit /\ call = [c \in Workers |-> LP!Idle]
      BY <2>1 DEF Init, L!LedgerInit, LP!LedgerInit, LP!Lists, L!Lists, L!Calls,
         LP!Calls, L!NoView, LP!NoView, L!NeverOpen, LP!NeverOpen
    <2>3. Linked /\ ConfirmsPledged /\ OneConfirmation
      BY <2>2 DEF Init, Linked, ConfirmsPledged, OneConfirmation, Holds
    <2>4. LP!GatesHold
      BY <2>2, PartsAssumptions, LP!LedgerInitGates
    <2> QED BY <2>1, <2>3, <2>4 DEF NotedInv
  <1>2. NotedInv /\ [Next]_vars => NotedInv'
    <2> SUFFICES ASSUME NotedInv, [Next]_vars PROVE NotedInv'
      OBVIOUS
    <2>1. PartsInv' /\ Counted' /\ Linked' /\ ConfirmsPledged'
      BY PartsStep, CountedStep, LinkedStep, ConfirmsStep
         DEF NotedInv, PartsInv, Counted
    <2>2. LP!GatesHold'
      <3>1. [LP!LedgerNext]_(LP!ledgerVars) /\ LP!BookInv
        BY LedgerStep DEF NotedInv, PartsInv
      <3> QED BY <3>1, PartsAssumptions, LP!GatesHoldStep DEF NotedInv
    <2>3. OneConfirmation'
      BY OneConfirmationStep DEF NotedInv, Counted
    <2> QED BY <2>1, <2>2, <2>3 DEF NotedInv
  <1>3. NotedInv => NotedOnce
    <2> SUFFICES ASSUME NotedInv PROVE NotedOnce
      OBVIOUS
    <2>1. LP!ListedOnce
      BY PartsAssumptions, LP!GatesListOnce DEF NotedInv, PartsInv
    <2>2. L!ListedOnce
      BY <2>1 DEF L!ListedOnce, LP!ListedOnce, L!Times, LP!Times, L!Occurrences,
         LP!Occurrences, L!Cardinality, LP!Cardinality, L!Lists, LP!Lists
    <2>3. NotedMeansPledged
      BY DEF NotedInv, NotedMeansPledged, ConfirmsPledged, Pledged, L!Pledged,
         LP!Pledged, L!Range, LP!Range
    <2> QED BY <2>2, <2>3 DEF NotedInv, NotedOnce, OneRoundPerMessage, OneConfirmation
  <1> QED BY <1>1, <1>2, <1>3, PTL DEF Spec
=============================================================================
