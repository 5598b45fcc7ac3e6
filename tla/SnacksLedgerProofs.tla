------------------------- MODULE SnacksLedgerProofs -------------------------
(***************************************************************************)
(* The snacks ledger keeps the promise of the pledge book whatever Redis   *)
(* and the processes do, and lists a pledge once, or once more for each    *)
(* command that was executed and its answer lost.                          *)
(***************************************************************************)
EXTENDS SnacksLedger, FiniteSetTheorems, TLAPS

-----------------------------------------------------------------------------
(* Appending to a list adds one element to what it holds.                  *)
LEMMA AppendAdds ==
  ASSUME NEW S, NEW seq \in Seq(S), NEW e \in S
  PROVE  /\ Append(seq, e) \in Seq(S)
         /\ Range(Append(seq, e)) = Range(seq) \cup {e}
  <1> DEFINE new == Append(seq, e)
  <1>1. /\ new \in Seq(S)
        /\ Len(seq) \in Nat /\ DOMAIN seq = 1..Len(seq)
        /\ DOMAIN new = 1..(Len(seq) + 1)
        /\ \A i \in 1..Len(seq) : new[i] = seq[i]
        /\ new[Len(seq) + 1] = e
    OBVIOUS
  <1> HIDE DEF new
  <1>2. Range(new) = Range(seq) \cup {e}
    BY <1>1 DEF Range
  <1> QED BY <1>1, <1>2 DEF new

-----------------------------------------------------------------------------
(* A call that is past its first check names a pledge, and one that is     *)
(* about to fulfill it found it in the list, requested by its owner.       *)
Entered ==
    \A c \in Calls :
      /\ call[c].at \in {"finding", "gating", "appending", "rolling_back"}
            => call[c].pledge \in Pledges
      /\ call[c].at \in {"gating", "appending", "rolling_back"}
         /\ call[c].to = "fulfillments"
            => call[c].pledge \in Pledged /\ call[c].by = Owner[call[c].pledge]
      /\ call[c].at = "listing" => call[c].pledge = None
      /\ call[c].at # "returned" => call[c].result = None

FulfilledWerePledged == Fulfilled \subseteq Pledged

BookInv == LedgerTypeOK /\ Entered /\ FulfilledWerePledged /\ FreshMeansListed

LEMMA LedgerInitInv == LedgerInit => BookInv /\ Open = {} /\ Fulfilled = {}
  <1> SUFFICES ASSUME LedgerInit PROVE BookInv /\ Open = {} /\ Fulfilled = {}
    OBVIOUS
  <1>1. LedgerTypeOK
    BY LedgerAssumption DEF LedgerInit, LedgerTypeOK, CallRecord, Idle, NoView,
       Lists, NeverOpen
  <1>2. Pledged = {} /\ Fulfilled = {}
    BY DEF LedgerInit, Pledged, Fulfilled, Range, Lists
  <1> QED BY <1>1, <1>2 DEF LedgerInit, BookInv, Entered, Idle, FreshMeansListed,
          FulfilledWerePledged, Open

(* The step that moves a call on and leaves the lists alone.               *)
LEMMA CallInv ==
  ASSUME BookInv, NEW c \in Calls, NEW r \in CallRecord,
         call' = [call EXCEPT ![c] = r], list' = list, LedgerTypeOK',
         r.at \in {"finding", "gating", "appending", "rolling_back"}
            => r.pledge \in Pledges,
         r.at \in {"gating", "appending", "rolling_back"} /\ r.to = "fulfillments"
            => r.pledge \in Pledged /\ r.by = Owner[r.pledge],
         r.at = "listing" => r.pledge = None,
         r.at # "returned" => r.result = None,
         r.result = "fresh" => r.pledge = None
  PROVE  BookInv'
  <1>1. \A x \in Calls : call'[x] = IF x = c THEN r ELSE call[x]
    BY DEF BookInv, LedgerTypeOK
  <1> QED BY <1>1 DEF BookInv, Entered, FulfilledWerePledged, FreshMeansListed,
             Pledged, Fulfilled

(* The faults budget keeps its type.                                       *)
LEMMA OutcomeType ==
  ASSUME LedgerTypeOK, NEW o, Outcome(o)
  PROVE  faults' \in 0..MaxFaults /\ lates' \in Nat
  BY LedgerAssumption DEF LedgerTypeOK, Outcome

LEMMA BeginInv ==
  ASSUME BookInv, NEW c \in Calls, Begin(c) PROVE BookInv'
  <1> USE DEF BookInv
  <1>1. ASSUME NEW p \in Pledges, Record(c, p) PROVE BookInv'
    <2> DEFINE r == [Idle EXCEPT !.at = "gating", !.pledge = p]
    <2>1. r \in CallRecord /\ r.to = "pledges" /\ r.pledge \in Pledges
          /\ r.at = "gating"
      BY DEF CallRecord, Idle, Lists
    <2>2. call' = [call EXCEPT ![c] = r] /\ UNCHANGED <<store, view, wasOpen>>
      BY <1>1 DEF Record
    <2>3. r.result = None /\ r.result # "fresh"
      BY LedgerAssumption DEF Idle, Results
    <2> HIDE DEF r
    <2>4. LedgerTypeOK'
      BY <2>1, <2>2 DEF LedgerTypeOK, store
    <2> QED BY <2>1, <2>2, <2>3, <2>4, CallInv DEF store
  <1>2. ASSUME NEW p \in Pledges, NEW who \in People, Fulfill(c, p, who)
        PROVE  BookInv'
    <2> DEFINE r == [Idle EXCEPT !.at = "finding", !.pledge = p, !.by = who,
                                 !.to = "fulfillments"]
    <2>1. r \in CallRecord /\ r.at = "finding" /\ r.pledge \in Pledges
      BY DEF CallRecord, Idle, Lists
    <2>2. call' = [call EXCEPT ![c] = r] /\ UNCHANGED <<store, view, wasOpen>>
      BY <1>2 DEF Fulfill
    <2>3. r.result = None /\ r.result # "fresh"
      BY LedgerAssumption DEF Idle, Results
    <2> HIDE DEF r
    <2>4. LedgerTypeOK'
      BY <2>1, <2>2 DEF LedgerTypeOK, store
    <2> QED BY <2>1, <2>2, <2>3, <2>4, CallInv DEF store
  <1>3. ASSUME List(c) PROVE BookInv'
    <2> DEFINE r == [Idle EXCEPT !.at = "listing"]
    <2>1. r \in CallRecord /\ r.at = "listing" /\ r.pledge = None
      BY DEF CallRecord, Idle, Lists
    <2>2. call' = [call EXCEPT ![c] = r] /\ UNCHANGED <<store, view>>
      BY <1>3 DEF List
    <2>3. r.result = None /\ r.result # "fresh"
      BY LedgerAssumption DEF Idle, Results
    <2>4. Open \subseteq Pledges
      BY DEF LedgerTypeOK, Open, Pledged, Range, Lists
    <2> HIDE DEF r
    <2>5. LedgerTypeOK'
      BY <1>3, <2>1, <2>2, <2>4 DEF LedgerTypeOK, store, List
    <2> QED BY <2>1, <2>2, <2>3, <2>5, CallInv DEF store
  <1> QED BY <1>1, <1>2, <1>3 DEF Begin

(* What becomes of the record of a call that moves on or returns.          *)
LEMMA Moved ==
  ASSUME LedgerTypeOK, NEW c \in Calls
  PROVE  /\ \A place \in {"gating", "appending", "rolling_back"} : Go(c, place) =>
              \E r \in CallRecord :
                 /\ call' = [call EXCEPT ![c] = r]
                 /\ r.at = place /\ r.to = call[c].to /\ r.by = call[c].by
                 /\ r.pledge = call[c].pledge /\ r.result = call[c].result
         /\ \A result \in Results : Finish(c, result) =>
              \E r \in CallRecord :
                 /\ call' = [call EXCEPT ![c] = r]
                 /\ r.at = "returned" /\ r.to = call[c].to /\ r.by = call[c].by
                 /\ r.pledge = call[c].pledge /\ r.result = result
  <1>1. call[c] \in CallRecord
    BY DEF LedgerTypeOK
  <1>2. ASSUME NEW place \in {"gating", "appending", "rolling_back"}, Go(c, place)
        PROVE  \E r \in CallRecord :
                 /\ call' = [call EXCEPT ![c] = r]
                 /\ r.at = place /\ r.to = call[c].to /\ r.by = call[c].by
                 /\ r.pledge = call[c].pledge /\ r.result = call[c].result
    <2>1. [call[c] EXCEPT !.at = place] \in CallRecord
      BY <1>1 DEF CallRecord
    <2> WITNESS [call[c] EXCEPT !.at = place] \in CallRecord
    <2> QED BY <1>1, <1>2 DEF Go, CallRecord
  <1>3. ASSUME NEW result \in Results, Finish(c, result)
        PROVE  \E r \in CallRecord :
                 /\ call' = [call EXCEPT ![c] = r]
                 /\ r.at = "returned" /\ r.to = call[c].to /\ r.by = call[c].by
                 /\ r.pledge = call[c].pledge /\ r.result = result
    <2>1. [call[c] EXCEPT !.at = "returned", !.result = result] \in CallRecord
      BY <1>1 DEF CallRecord
    <2> WITNESS [call[c] EXCEPT !.at = "returned", !.result = result] \in CallRecord
    <2> QED BY <1>1, <1>3 DEF Finish, CallRecord
  <1> QED BY <1>2, <1>3

(* A command that adds nothing to the lists.                               *)
LEMMA CommandInv ==
  ASSUME BookInv, NEW c \in Calls, NEW o \in Outcomes,
         Find(c, o) \/ SetGate(c, o) \/ RollBack(c, o)
  PROVE  BookInv'
  <1> USE DEF BookInv
  <1>1. call[c] \in CallRecord /\ call[c].pledge \in Pledges /\ list' = list
        /\ UNCHANGED <<view, wasOpen>> /\ faults' \in 0..MaxFaults /\ lates' \in Nat
    BY OutcomeType DEF LedgerTypeOK, Entered, At, Find, SetGate, RollBack
  <1>2. gate' \in [Lists -> SUBSET Pledges]
    BY <1>1 DEF LedgerTypeOK, Find, SetGate, RollBack, CallRecord
  <1>3. \/ \E result \in Results \ {"fresh"} : Finish(c, result)
        \/ Find(c, o) /\ Go(c, "gating") /\ call[c].pledge \in Pledged
           /\ call[c].by = Owner[call[c].pledge]
        \/ SetGate(c, o) /\ Go(c, "appending")
    BY DEF Find, SetGate, RollBack, Results
  <1>4. CASE \E result \in Results \ {"fresh"} : Finish(c, result)
    <2>1. PICK result \in Results \ {"fresh"} : Finish(c, result)
      BY <1>4
    <2>2. PICK r \in CallRecord :
            /\ call' = [call EXCEPT ![c] = r]
            /\ r.at = "returned" /\ r.result = result
      BY <2>1, Moved
    <2>3. LedgerTypeOK'
      BY <1>1, <1>2, <2>2 DEF LedgerTypeOK
    <2> QED BY <1>1, <2>2, <2>3, CallInv
  <1>5. CASE Find(c, o) /\ Go(c, "gating") /\ call[c].pledge \in Pledged
             /\ call[c].by = Owner[call[c].pledge]
    <2>1. PICK r \in CallRecord :
            /\ call' = [call EXCEPT ![c] = r]
            /\ r.at = "gating" /\ r.to = call[c].to /\ r.by = call[c].by
            /\ r.pledge = call[c].pledge /\ r.result = call[c].result
      BY <1>5, Moved
    <2>2. r.result = None /\ r.result # "fresh"
      BY <1>5, <2>1, LedgerAssumption DEF Find, At, Entered, Results
    <2>3. LedgerTypeOK'
      BY <1>1, <1>2, <2>1 DEF LedgerTypeOK
    <2> QED BY <1>1, <1>5, <2>1, <2>2, <2>3, CallInv
  <1>6. CASE SetGate(c, o) /\ Go(c, "appending")
    <2>1. PICK r \in CallRecord :
            /\ call' = [call EXCEPT ![c] = r]
            /\ r.at = "appending" /\ r.to = call[c].to /\ r.by = call[c].by
            /\ r.pledge = call[c].pledge /\ r.result = call[c].result
      BY <1>6, Moved
    <2>2. r.result = None /\ r.result # "fresh"
      BY <1>6, <2>1, LedgerAssumption DEF SetGate, At, Entered, Results
    <2>3. r.to = "fulfillments" => r.pledge \in Pledged /\ r.by = Owner[r.pledge]
      BY <1>6, <2>1 DEF SetGate, At, Entered
    <2>4. LedgerTypeOK'
      BY <1>1, <1>2, <2>1 DEF LedgerTypeOK
    <2> QED BY <1>1, <2>1, <2>2, <2>3, <2>4, CallInv
  <1> QED BY <1>3, <1>4, <1>5, <1>6

(* An append adds the call's pledge to its list, or leaves the lists.      *)
LEMMA AppendEffect ==
  ASSUME BookInv, NEW c \in Calls, NEW o \in Outcomes, AppendToList(c, o)
  PROVE  LET p == call[c].pledge
             l == call[c].to
         IN  /\ p \in Pledges /\ l \in Lists
             /\ list' \in [Lists -> Seq(Pledges)]
             /\ \A k \in Lists : k # l => list'[k] = list[k]
             /\ IF o = "lost" THEN list'[l] = list[l]
                              ELSE list'[l] = Append(list[l], p)
             /\ IF o = "lost" THEN Range(list'[l]) = Range(list[l])
                              ELSE Range(list'[l]) = Range(list[l]) \cup {p}
  <1> DEFINE p == call[c].pledge
             l == call[c].to
  <1>1. p \in Pledges /\ l \in Lists /\ list \in [Lists -> Seq(Pledges)]
    BY DEF AppendToList, At, BookInv, Entered, LedgerTypeOK, CallRecord
  <1>2. list[l] \in Seq(Pledges)
    BY <1>1
  <1>3. Append(list[l], p) \in Seq(Pledges)
        /\ Range(Append(list[l], p)) = Range(list[l]) \cup {p}
    BY <1>1, <1>2, AppendAdds
  <1>4. list' = IF o = "lost" THEN list ELSE [list EXCEPT ![l] = Append(list[l], p)]
    BY DEF AppendToList
  <1> QED BY <1>1, <1>3, <1>4

LEMMA AppendInv ==
  ASSUME BookInv, NEW c \in Calls, NEW o \in Outcomes, AppendToList(c, o)
  PROVE  BookInv'
  <1> DEFINE p == call[c].pledge
             l == call[c].to
  <1> USE DEF BookInv
  <1>1. /\ p \in Pledges /\ l \in Lists
        /\ list' \in [Lists -> Seq(Pledges)]
        /\ \A k \in Lists : Range(list[k]) \subseteq Range(list'[k])
        /\ Fulfilled' \subseteq Fulfilled \cup (IF l = "fulfillments" THEN {p} ELSE {})
        /\ o = "ok" => p \in Range(list'[l])
    BY AppendEffect DEF Fulfilled, Lists
  <1>2. Pledged \subseteq Pledged'
    BY <1>1 DEF Pledged, Lists
  <1>3. l = "fulfillments" => p \in Pledged /\ call[c].by = Owner[p]
    BY DEF Entered, AppendToList, At
  <1>4. FulfilledWerePledged'
    BY <1>1, <1>2, <1>3 DEF FulfilledWerePledged
  <1>5. \/ o # "ok" /\ Go(c, "rolling_back")
        \/ o = "ok" /\ Finish(c, "fresh")
    BY DEF AppendToList
  <1>6. PICK r \in CallRecord :
          /\ call' = [call EXCEPT ![c] = r]
          /\ r.to = l /\ r.by = call[c].by /\ r.pledge = p
          /\ \/ r.at = "rolling_back" /\ r.result = call[c].result
             \/ o = "ok" /\ r.at = "returned" /\ r.result = "fresh"
    BY <1>5, Moved DEF Results
  <1>7. \A x \in Calls : call'[x] = IF x = c THEN r ELSE call[x]
    BY <1>6 DEF LedgerTypeOK
  <1>8. r.at = "rolling_back" => r.result = None /\ r.result # "fresh"
    BY <1>6, LedgerAssumption DEF AppendToList, At, Entered, Results
  <1>9. Entered'
    BY <1>1, <1>2, <1>3, <1>6, <1>7, <1>8 DEF Entered
  <1>10. FreshMeansListed'
    <2>1. \A x \in Calls : call[x].to \in Lists
      BY DEF LedgerTypeOK, CallRecord
    <2> QED BY <1>1, <1>6, <1>7, <1>8, <2>1 DEF FreshMeansListed
  <1>11. LedgerTypeOK'
    <2>1. Open' \subseteq Pledges
      BY <1>1 DEF Open, Pledged, Range, Lists
    <2>2. faults' \in 0..MaxFaults /\ lates' \in Nat
      BY OutcomeType DEF AppendToList
    <2>3. wasOpen' \in [Calls -> [start : SUBSET Pledges, ever : SUBSET Pledges]]
      BY <2>1 DEF AppendToList, LedgerTypeOK
    <2> QED BY <1>1, <1>6, <2>2, <2>3 DEF AppendToList, LedgerTypeOK
  <1> QED BY <1>4, <1>9, <1>10, <1>11

(* Listing reads the lists, and a call that ends forgets what it read.     *)
LEMMA ListingInv ==
  ASSUME BookInv, NEW c \in Calls,
         \/ \E l \in Lists, o \in Outcomes : GetList(c, l, o)
         \/ ListDone(c)
         \/ Return(c)
         \/ Die(c)
  PROVE  BookInv'
  <1> USE DEF BookInv
  <1>1. list' = list
    BY DEF GetList, ListDone, Return, Die, Forget, store
  <1>2. CASE ListDone(c)
    <2>1. PICK r \in CallRecord :
            /\ call' = [call EXCEPT ![c] = r]
            /\ r.at = "returned" /\ r.result = "fresh" /\ r.pledge = call[c].pledge
      BY <1>2, Moved DEF ListDone, Results
    <2>2. r.pledge = None
      BY <1>2, <2>1 DEF ListDone, At, Entered
    <2>3. LedgerTypeOK'
      BY <1>2, <2>1 DEF ListDone, LedgerTypeOK, store
    <2> QED BY <1>1, <2>1, <2>2, <2>3, CallInv
  <1>3. CASE Return(c) \/ Die(c)
    <2>1. Forget(c)
      BY <1>3 DEF Return, Die
    <2>2. Idle \in CallRecord /\ Idle.at = "idle" /\ Idle.result = None
          /\ None # "fresh"
      BY LedgerAssumption DEF CallRecord, Idle, Lists, Results
    <2>3. LedgerTypeOK'
      BY <2>1, <2>2 DEF Forget, LedgerTypeOK, store, NoView, NeverOpen
    <2> QED BY <1>1, <2>1, <2>2, <2>3, CallInv DEF Forget
  <1>4. ASSUME NEW l \in Lists, NEW o \in Outcomes, GetList(c, l, o)
        PROVE  BookInv'
    <2>1. faults' \in 0..MaxFaults /\ lates' \in Nat
      BY <1>4, OutcomeType DEF GetList
    <2>2. CASE o = "ok"
      <3>1. Range(list[l]) \subseteq Pledges
        BY DEF LedgerTypeOK, Range
      <3>2. view' \in [Calls -> [Lists -> {None} \cup SUBSET Pledges]]
        <4> DEFINE seen == [view[c] EXCEPT ![l] = Range(list[l])]
        <4>1. seen \in [Lists -> {None} \cup SUBSET Pledges]
          BY <3>1 DEF LedgerTypeOK
        <4>2. view' = [view EXCEPT ![c] = seen]
          BY <1>4, <2>2 DEF GetList
        <4> HIDE DEF seen
        <4> QED BY <4>1, <4>2 DEF LedgerTypeOK
      <3>3. LedgerTypeOK'
        BY <1>4, <2>1, <2>2, <3>2 DEF GetList, LedgerTypeOK
      <3>4. call' = call
        BY <1>4, <2>2 DEF GetList
      <3> QED BY <1>1, <3>3, <3>4 DEF Entered, FulfilledWerePledged,
              FreshMeansListed, Pledged, Fulfilled
    <2>3. CASE o # "ok"
      <3>1. PICK r \in CallRecord :
              call' = [call EXCEPT ![c] = r] /\ r.at = "returned" /\ r.result = "threw"
        BY <1>4, <2>3, Moved DEF GetList, Results
      <3>2. LedgerTypeOK'
        BY <1>4, <2>1, <2>3, <3>1 DEF GetList, LedgerTypeOK
      <3> QED BY <1>1, <3>1, <3>2, CallInv
    <2> QED BY <2>2, <2>3
  <1> QED BY <1>2, <1>3, <1>4

LEMMA LedgerStepInv == BookInv /\ [LedgerNext]_ledgerVars => BookInv'
  <1> SUFFICES ASSUME BookInv, [LedgerNext]_ledgerVars PROVE BookInv'
    OBVIOUS
  <1>1. CASE UNCHANGED ledgerVars
    BY <1>1 DEF ledgerVars, store, BookInv, LedgerTypeOK, Entered, Open, Pledged,
       FulfilledWerePledged, Fulfilled, FreshMeansListed
  <1>2. ASSUME NEW c \in Calls, Proceed(c) PROVE BookInv'
    BY <1>2, CommandInv, AppendInv, ListingInv DEF Proceed
  <1> QED BY <1>1, <1>2, BeginInv, ListingInv DEF LedgerNext

(* The calls and lists keep their types.                                   *)
THEOREM LedgerTypes == LedgerSpec => []LedgerTypeOK
  <1>1. BookInv => LedgerTypeOK
    BY DEF BookInv
  <1> QED BY <1>1, LedgerInitInv, LedgerStepInv, PTL DEF LedgerSpec

(* A call that answers with a fresh record or fulfillment is right: it is  *)
(* in the list by then.                                                    *)
THEOREM LedgerFreshMeansListed == LedgerSpec => []FreshMeansListed
  <1>1. BookInv => FreshMeansListed
    BY DEF BookInv
  <1> QED BY <1>1, LedgerInitInv, LedgerStepInv, PTL DEF LedgerSpec

-----------------------------------------------------------------------------
(* The ledger implements the book.                                         *)
LEMMA LedgerStepBook ==
  ASSUME BookInv, [LedgerNext]_ledgerVars
  PROVE  [Book!BookNext]_(Book!bookVars)
  <1> USE DEF Book!bookVars, Open, Pledged, Fulfilled
  <1>1. ASSUME list' = list PROVE UNCHANGED <<Open, Fulfilled>>
    BY <1>1
  <1>2. ASSUME NEW c \in Calls, NEW o \in Outcomes, AppendToList(c, o)
        PROVE  Book!BookNext \/ UNCHANGED <<Open, Fulfilled>>
    <2> DEFINE p == call[c].pledge
               l == call[c].to
    <2>1. p \in Pledges /\ l \in Lists
          /\ (\A k \in Lists : k # l => list'[k] = list[k])
          /\ (o = "lost" => Range(list'[l]) = Range(list[l]))
          /\ (o # "lost" => Range(list'[l]) = Range(list[l]) \cup {p})
      BY <1>2, AppendEffect
    <2>2. Fulfilled \subseteq Pledged
      BY DEF BookInv, FulfilledWerePledged
    <2>3. CASE o = "lost" \/ p \in Range(list[l])
      BY <2>1, <2>3 DEF Lists
    <2>4. CASE o # "lost" /\ p \notin Range(list[l]) /\ l = "pledges"
      <3>1. Book!Owe(p)
        BY <2>1, <2>2, <2>4 DEF Book!Owe, Lists
      <3> QED BY <2>1, <3>1 DEF Book!BookNext
    <2>5. CASE o # "lost" /\ p \notin Range(list[l]) /\ l = "fulfillments"
      <3>1. p \in Pledged
        BY <1>2, <2>1, <2>5 DEF BookInv, Entered, AppendToList, At
      <3>2. Book!Settle(p)
        BY <2>1, <2>2, <2>5, <3>1 DEF Book!Settle, Lists
      <3> QED BY <2>1, <3>1, <3>2 DEF Book!BookNext
    <2> QED BY <2>1, <2>3, <2>4, <2>5 DEF Lists
  <1>3. CASE LedgerNext /\ ~(\E c \in Calls, o \in Outcomes : AppendToList(c, o))
    <2>1. list' = list
      BY <1>3 DEF LedgerNext, Begin, Record, Fulfill, List, Proceed, Find, SetGate,
         RollBack, GetList, ListDone, Return, Die, Forget, store
    <2> QED BY <1>1, <2>1
  <1>4. CASE UNCHANGED ledgerVars
    BY <1>1, <1>4 DEF ledgerVars, store
  <1> QED BY <1>2, <1>3, <1>4

(* Whatever Redis and the processes do, a pledge is owed until it is       *)
(* settled, and never comes back.                                          *)
THEOREM LedgerKeepsTheBook == LedgerSpec => KeepsTheBook
  <1>1. LedgerInit => Book!BookInit
    BY LedgerInitInv DEF Book!BookInit
  <1> QED BY <1>1, LedgerInitInv, LedgerStepInv, LedgerStepBook, PTL
          DEF LedgerSpec, KeepsTheBook, Book!BookSpec

(* What a step that settles a pledge comes from: a call of its owner.      *)
LEMMA LedgerStepSettles ==
  ASSUME BookInv, [LedgerNext]_ledgerVars, NEW p \in Fulfilled' \ Fulfilled
  PROVE  \E c \in Calls : /\ call[c].at = "appending" /\ call[c].pledge = p
                          /\ call[c].by = Owner[p]
  <1>1. list' # list
    BY DEF Fulfilled
  <1>2. PICK c \in Calls, o \in Outcomes : AppendToList(c, o)
    BY <1>1 DEF LedgerNext, Begin, Record, Fulfill, List, Proceed, Find, SetGate,
       RollBack, GetList, ListDone, Return, Die, Forget, store, ledgerVars
  <1>3. /\ call[c].at = "appending" /\ call[c].to \in Lists
        /\ \A k \in Lists : k # call[c].to => list'[k] = list[k]
        /\ o = "lost" => list'[call[c].to] = list[call[c].to]
        /\ Range(list'[call[c].to])
             \subseteq Range(list[call[c].to]) \cup {call[c].pledge}
    BY <1>2, AppendEffect DEF AppendToList, At
  <1>4. call[c].to = "fulfillments" /\ call[c].pledge = p
    BY <1>3 DEF Fulfilled, Lists
  <1>5. call[c].by = Owner[p]
    BY <1>3, <1>4 DEF BookInv, Entered
  <1> QED BY <1>3, <1>4, <1>5

(* A pledge is settled by nobody but the person who owes it.               *)
THEOREM LedgerSettledByOwner == LedgerSpec => SettledByOwner
  <1>1. BookInv /\ [LedgerNext]_ledgerVars => [OwnersSettle]_ledgerVars
    BY LedgerStepSettles DEF OwnersSettle
  <1> QED BY <1>1, LedgerInitInv, LedgerStepInv, PTL DEF LedgerSpec, SettledByOwner

-----------------------------------------------------------------------------
(* Who holds a gate, and how often a pledge is listed.                     *)
Appending(c, l, p) ==
    call[c].at \in {"appending", "rolling_back"} /\ call[c].to = l
    /\ call[c].pledge = p

(* No two calls are between the gate and the end of their append for one   *)
(* pledge; it has the gate, and the pledge is listed for lost answers only *)
(* so far.  One entry more there is behind a gate that stays.              *)
GatesHold ==
    /\ \A c \in Calls, l \in Lists, p \in Pledges :
          Appending(c, l, p) =>
            /\ p \in gate[l] /\ Times(l, p) <= lates
            /\ \A x \in Calls : Appending(x, l, p) => x = c
    /\ \A l \in Lists, p \in Pledges :
          \/ Times(l, p) <= lates
          \/ p \in gate[l] /\ Times(l, p) <= lates + 1

(* Only the call that steps moves, and it keeps its list and its pledge.   *)
LEMMA WhereItGoes ==
  ASSUME LedgerTypeOK, NEW c \in Calls
  PROVE  /\ \A place : Go(c, place) =>
              /\ call'[c].at = place /\ call'[c].to = call[c].to
              /\ call'[c].pledge = call[c].pledge
              /\ \A x \in Calls : x # c => call'[x] = call[x]
         /\ \A result : Finish(c, result) =>
              /\ call'[c].at = "returned"
              /\ \A x \in Calls : x # c => call'[x] = call[x]
  <1>1. DOMAIN call = Calls /\ call[c] \in CallRecord
    BY DEF LedgerTypeOK
  <1>2. ASSUME NEW place, Go(c, place)
        PROVE  /\ call'[c].at = place /\ call'[c].to = call[c].to
               /\ call'[c].pledge = call[c].pledge
               /\ \A x \in Calls : x # c => call'[x] = call[x]
    <2> DEFINE r == [call[c] EXCEPT !.at = place]
    <2>1. r.at = place /\ r.to = call[c].to /\ r.pledge = call[c].pledge
      BY <1>1 DEF CallRecord
    <2>2. call' = [call EXCEPT ![c] = r]
      BY <1>2 DEF Go
    <2> HIDE DEF r
    <2> QED BY <1>1, <2>1, <2>2
  <1>3. ASSUME NEW result, Finish(c, result)
        PROVE  /\ call'[c].at = "returned"
               /\ \A x \in Calls : x # c => call'[x] = call[x]
    <2> DEFINE r == [call[c] EXCEPT !.at = "returned", !.result = result]
    <2>1. r.at = "returned"
      BY <1>1 DEF CallRecord
    <2>2. call' = [call EXCEPT ![c] = r]
      BY <1>3 DEF Finish
    <2> HIDE DEF r
    <2> QED BY <1>1, <2>1, <2>2
  <1> QED BY <1>2, <1>3

(* How often an element stands in a sequence, and in a longer one.         *)
LEMMA AppendCounts ==
  ASSUME NEW S, NEW seq \in Seq(S), NEW e \in S, NEW p
  PROVE  /\ Occurrences(seq, p) \in Nat
         /\ Occurrences(Append(seq, e), p) =
              Occurrences(seq, p) + IF p = e THEN 1 ELSE 0
  <1> DEFINE new == Append(seq, e)
             Old == {i \in DOMAIN seq : seq[i] = p}
             Now == {i \in DOMAIN new : new[i] = p}
             n == Len(seq)
  <1>1. /\ n \in Nat /\ DOMAIN seq = 1..n
        /\ DOMAIN new = 1..(n + 1)
        /\ \A i \in 1..n : new[i] = seq[i]
        /\ new[n + 1] = e
    OBVIOUS
  <1> HIDE DEF new, n
  <1>2. Old \in SUBSET (1..n) /\ IsFiniteSet(1..n)
    BY <1>1, FS_Interval
  <1>3. IsFiniteSet(Old) /\ Cardinality(Old) \in Nat /\ n + 1 \notin Old
    <2>1. IsFiniteSet(Old)
      BY <1>2, FS_Subset
    <2>2. Cardinality(Old) \in Nat
      BY <2>1, FS_CardinalityType
    <2> QED BY <1>1, <1>2, <2>1, <2>2
  <1>4. Now = IF p = e THEN Old \cup {n + 1} ELSE Old
    BY <1>1
  <1> HIDE DEF Old, Now
  <1>5. Cardinality(Old \cup {n + 1}) = Cardinality(Old) + 1
    BY <1>3, FS_AddElement
  <1>6. Cardinality(Now) = Cardinality(Old) + IF p = e THEN 1 ELSE 0
    BY <1>3, <1>4, <1>5
  <1> QED BY <1>3, <1>6 DEF Old, Now, new, Occurrences

(* How often a pledge is listed, and what an append makes of it.           *)
LEMMA TimesType ==
  ASSUME LedgerTypeOK, NEW l \in Lists, NEW p \in Pledges
  PROVE  Times(l, p) \in Nat
  <1>1. list[l] \in Seq(Pledges)
    BY DEF LedgerTypeOK
  <1> QED BY <1>1, AppendCounts DEF Times

LEMMA AppendTimes ==
  ASSUME BookInv, NEW c \in Calls, NEW o \in Outcomes, AppendToList(c, o)
  PROVE  \A k \in Lists, q \in Pledges :
           Times(k, q)' = IF o # "lost" /\ k = call[c].to /\ q = call[c].pledge
                          THEN Times(k, q) + 1 ELSE Times(k, q)
  <1> SUFFICES ASSUME NEW k \in Lists, NEW q \in Pledges
               PROVE  Times(k, q)' = IF o # "lost" /\ k = call[c].to /\ q = call[c].pledge
                                     THEN Times(k, q) + 1 ELSE Times(k, q)
    OBVIOUS
  <1>1. /\ call[c].pledge \in Pledges /\ call[c].to \in Lists
        /\ k # call[c].to \/ o = "lost" => list'[k] = list[k]
        /\ k = call[c].to /\ o # "lost" => list'[k] = Append(list[k], call[c].pledge)
    BY AppendEffect
  <1>2. list[k] \in Seq(Pledges) /\ Times(k, q) \in Nat
    BY TimesType DEF BookInv, LedgerTypeOK
  <1>3. CASE k # call[c].to \/ o = "lost"
    BY <1>1, <1>3 DEF Times
  <1>4. CASE k = call[c].to /\ o # "lost"
    <2>1. Times(k, q)' = Times(k, q) + IF q = call[c].pledge THEN 1 ELSE 0
      <3> DEFINE old == list[k]
                 new == list'[k]
                 e == call[c].pledge
      <3>1. old \in Seq(Pledges) /\ e \in Pledges /\ new = Append(old, e)
        BY <1>1, <1>2, <1>4
      <3> HIDE DEF old, new, e
      <3>2. Occurrences(new, q) = Occurrences(old, q) + IF q = e THEN 1 ELSE 0
        BY <3>1, AppendCounts
      <3> QED BY <3>2 DEF Times, old, new, e
    <2> QED BY <1>2, <1>4, <2>1
  <1> QED BY <1>3, <1>4

(* Answers are lost for good.                                              *)
LEMMA LatesGrow ==
  ASSUME LedgerTypeOK, [LedgerNext]_ledgerVars
  PROVE  lates \in Nat /\ lates' \in Nat /\ lates <= lates'
  <1>0. lates \in Nat
    BY DEF LedgerTypeOK
  <1>1. CASE \E o \in Outcomes : Outcome(o)
    BY <1>0, <1>1 DEF Outcome
  <1>2. CASE UNCHANGED lates
    BY <1>0, <1>2
  <1>3. ASSUME NEW c \in Calls, Begin(c) \/ ListDone(c) \/ Return(c) \/ Die(c)
        PROVE  UNCHANGED lates
    BY <1>3 DEF Begin, Record, Fulfill, List, ListDone, Return, Die, Forget, store
  <1>4. ASSUME NEW c \in Calls, NEW o \in Outcomes,
               \/ Find(c, o) \/ SetGate(c, o) \/ AppendToList(c, o)
               \/ RollBack(c, o) \/ \E l \in Lists : GetList(c, l, o)
        PROVE  \E x \in Outcomes : Outcome(x)
    BY <1>4 DEF Find, SetGate, AppendToList, RollBack, GetList
  <1>5. CASE UNCHANGED ledgerVars
    BY <1>2, <1>5 DEF ledgerVars, store
  <1> QED BY <1>1, <1>2, <1>3, <1>4, <1>5 DEF LedgerNext, Proceed

(* A step that appends nothing and sets no call before its append.         *)
LEMMA GatesHoldOn ==
  ASSUME LedgerTypeOK, GatesHold, lates' \in Nat, lates <= lates', list' = list,
         \A x \in Calls, k \in Lists, q \in Pledges :
            Appending(x, k, q)' => Appending(x, k, q),
         \A k \in Lists, q \in Pledges : q \in gate[k] =>
            q \in gate'[k] \/ (/\ Times(k, q) <= lates
                              /\ \A x \in Calls : ~Appending(x, k, q)')
  PROVE  GatesHold'
  <1>1. lates \in Nat /\ \A k \in Lists, q \in Pledges : Times(k, q) \in Nat
    BY TimesType DEF LedgerTypeOK
  <1>2. \A k \in Lists, q \in Pledges : Times(k, q)' = Times(k, q)
    BY DEF Times
  <1>3. ASSUME NEW c \in Calls, NEW l \in Lists, NEW p \in Pledges, Appending(c, l, p)'
        PROVE  /\ p \in gate'[l] /\ Times(l, p)' <= lates'
               /\ \A x \in Calls : Appending(x, l, p)' => x = c
    <2>1. /\ p \in gate[l] /\ Times(l, p) <= lates
          /\ \A x \in Calls : Appending(x, l, p) => x = c
      BY <1>3 DEF GatesHold
    <2>2. p \in gate'[l]
      BY <1>3, <2>1
    <2>3. Times(l, p)' <= lates'
      BY <1>1, <1>2, <2>1
    <2> QED BY <2>1, <2>2, <2>3
  <1>4. ASSUME NEW l \in Lists, NEW p \in Pledges
        PROVE  \/ Times(l, p)' <= lates'
               \/ p \in gate'[l] /\ Times(l, p)' <= lates' + 1
    <2>1. CASE Times(l, p) <= lates
      BY <1>1, <1>2, <2>1
    <2>2. CASE ~(Times(l, p) <= lates)
      <3>1. p \in gate[l] /\ Times(l, p) <= lates + 1
        BY <2>2 DEF GatesHold
      <3>2. p \in gate'[l]
        BY <2>2, <3>1
      <3> QED BY <1>1, <1>2, <3>1, <3>2
    <2> QED BY <2>1, <2>2
  <1> QED BY <1>3, <1>4 DEF GatesHold

(* A step that begins or ends a call touches nothing but that call.        *)
LEMMA BeginsAndEnds ==
  ASSUME LedgerTypeOK, NEW c \in Calls,
         Begin(c) \/ ListDone(c) \/ Return(c) \/ Die(c)
  PROVE  /\ UNCHANGED <<gate, list>>
         /\ call'[c].at \notin {"appending", "rolling_back"}
         /\ \A x \in Calls : x # c => call'[x] = call[x]
  <1>1. \/ \E r : /\ call' = [call EXCEPT ![c] = r]
                 /\ r.at \notin {"appending", "rolling_back"}
        \/ Finish(c, "fresh")
    <2>1. /\ Idle.at = "idle"
          /\ [Idle EXCEPT !.at = "listing"].at = "listing"
          /\ \A p \in Pledges :
               [Idle EXCEPT !.at = "gating", !.pledge = p].at = "gating"
          /\ \A p \in Pledges, who \in People :
               [Idle EXCEPT !.at = "finding", !.pledge = p, !.by = who,
                            !.to = "fulfillments"].at = "finding"
      BY DEF Idle
    <2> HIDE DEF Idle
    <2>2. CASE Begin(c)
      <3>1. CASE \E p \in Pledges : Record(c, p)
        BY <2>1, <3>1 DEF Record
      <3>2. CASE \E p \in Pledges, who \in People : Fulfill(c, p, who)
        <4>1. PICK p \in Pledges, who \in People : Fulfill(c, p, who)
          BY <3>2
        <4> DEFINE r == [Idle EXCEPT !.at = "finding", !.pledge = p, !.by = who,
                                     !.to = "fulfillments"]
        <4>2. r.at = "finding" /\ call' = [call EXCEPT ![c] = r]
          BY <2>1, <4>1 DEF Fulfill
        <4> HIDE DEF r
        <4> QED BY <4>2
      <3>3. CASE List(c)
        BY <2>1, <3>3 DEF List
      <3> QED BY <2>2, <3>1, <3>2, <3>3 DEF Begin
    <2>3. CASE Return(c) \/ Die(c)
      BY <2>1, <2>3 DEF Return, Die, Forget
    <2>4. CASE ListDone(c)
      BY <2>4 DEF ListDone
    <2> QED BY <2>2, <2>3, <2>4
  <1>2. UNCHANGED <<gate, list>>
    BY DEF Begin, Record, Fulfill, List, ListDone, Return, Die, Forget, store
  <1>3. /\ call'[c].at \notin {"appending", "rolling_back"}
        /\ \A x \in Calls : x # c => call'[x] = call[x]
    BY <1>1, WhereItGoes DEF LedgerTypeOK
  <1> QED BY <1>2, <1>3

LEMMA GatesHoldStep ==
  ASSUME BookInv, GatesHold, [LedgerNext]_ledgerVars
  PROVE  GatesHold'
  <1>0. /\ \A c \in Calls : call[c].to \in Lists
        /\ LedgerTypeOK /\ lates \in Nat /\ lates' \in Nat /\ lates <= lates'
        /\ \A k \in Lists, q \in Pledges : Times(k, q) \in Nat
    BY LatesGrow, TimesType DEF BookInv, LedgerTypeOK, CallRecord
  <1>1. CASE UNCHANGED <<gate, list, call>>
    <2>1. \A x \in Calls, k \in Lists, q \in Pledges :
            Appending(x, k, q)' => Appending(x, k, q)
      BY <1>1 DEF Appending
    <2> QED BY <1>0, <1>1, <2>1, GatesHoldOn
  <1>2. ASSUME NEW c \in Calls, UNCHANGED <<gate, list>>,
               call'[c].at \notin {"appending", "rolling_back"},
               \A x \in Calls : x # c => call'[x] = call[x]
        PROVE  GatesHold'
    <2>1. \A x \in Calls, k \in Lists, q \in Pledges :
            Appending(x, k, q)' => Appending(x, k, q)
      BY <1>2 DEF Appending
    <2> QED BY <1>0, <1>2, <2>1, GatesHoldOn
  <1>3. ASSUME NEW c \in Calls, NEW o \in Outcomes, SetGate(c, o) PROVE GatesHold'
    <2> DEFINE p == call[c].pledge
               l == call[c].to
    <2>1. p \in Pledges /\ l \in Lists
      BY <1>0, <1>3 DEF SetGate, At, BookInv, Entered
    <2>2. /\ list' = list
          /\ \A k \in Lists : gate[k] \subseteq gate'[k]
          /\ \A x \in Calls : x # c => call'[x] = call[x]
      BY <1>0, <1>3, <2>1, WhereItGoes DEF SetGate, LedgerTypeOK
    <2>3. CASE call'[c].at = "returned"
      <3>1. \A x \in Calls, k \in Lists, q \in Pledges :
              Appending(x, k, q)' => Appending(x, k, q)
        BY <2>2, <2>3 DEF Appending
      <3> QED BY <1>0, <2>2, <3>1, GatesHoldOn
    <2>4. CASE p \notin gate[l] /\ p \in gate'[l] /\ Go(c, "appending")
      <3>1. Times(l, p) <= lates /\ \A x \in Calls : ~Appending(x, l, p)
        BY <2>1, <2>4 DEF GatesHold
      <3>2. call'[c].at = "appending" /\ call'[c].to = l /\ call'[c].pledge = p
        BY <1>0, <2>4, WhereItGoes
      <3>3. \A x \in Calls, k \in Lists, q \in Pledges :
              Appending(x, k, q)' <=> \/ (Appending(x, k, q) /\ x # c)
                                     \/ (x = c /\ k = l /\ q = p)
        <4>1. ~ \E k \in Lists, q \in Pledges : Appending(c, k, q)
          BY <1>3 DEF SetGate, At, Appending
        <4>2. \A k \in Lists, q \in Pledges :
                Appending(c, k, q)' <=> k = l /\ q = p
          BY <3>2 DEF Appending
        <4>3. \A x \in Calls, k \in Lists, q \in Pledges :
                x # c => (Appending(x, k, q)' <=> Appending(x, k, q))
          BY <2>2 DEF Appending
        <4> HIDE DEF l, p
        <4> QED BY <4>1, <4>2, <4>3
      <3>4. \A k \in Lists, q \in Pledges : Times(k, q)' = Times(k, q)
        BY <2>2 DEF Times
      <3> HIDE DEF l, p
      <3>5. ASSUME NEW x \in Calls, NEW k \in Lists, NEW q \in Pledges, Appending(x, k, q)'
            PROVE  /\ q \in gate'[k] /\ Times(k, q) <= lates
                   /\ \A y \in Calls : Appending(y, k, q)' => y = x
        <4>1. CASE x = c /\ k = l /\ q = p
          BY <2>4, <3>1, <3>3, <4>1
        <4>2. CASE Appending(x, k, q) /\ x # c
          BY <2>2, <3>1, <3>3, <4>2 DEF GatesHold
        <4> QED BY <3>3, <3>5, <4>1, <4>2
      <3>6. \A x \in Calls, k \in Lists, q \in Pledges : Appending(x, k, q)' =>
              /\ q \in gate'[k] /\ Times(k, q)' <= lates'
              /\ \A y \in Calls : Appending(y, k, q)' => y = x
        BY <1>0, <3>4, <3>5
      <3>7. \A k \in Lists, q \in Pledges :
               \/ Times(k, q)' <= lates'
               \/ q \in gate'[k] /\ Times(k, q)' <= lates' + 1
        BY <1>0, <2>2, <3>4 DEF GatesHold
      <3> QED BY <3>6, <3>7 DEF GatesHold
    <2>5. CASE o = "ok" /\ p \notin gate[l]
      <3>1. Go(c, "appending") /\ p \in gate'[l]
        BY <1>0, <1>3, <2>1, <2>5 DEF SetGate, LedgerTypeOK
      <3> QED BY <2>4, <2>5, <3>1
    <2>6. CASE o # "ok" \/ p \in gate[l]
      <3>1. call'[c].at = "returned"
        BY <1>0, <1>3, <2>6, WhereItGoes DEF SetGate
      <3> QED BY <2>3, <3>1
    <2> QED BY <2>5, <2>6
  <1>4. ASSUME NEW c \in Calls, NEW o \in Outcomes, AppendToList(c, o)
        PROVE  GatesHold'
    <2> DEFINE p == call[c].pledge
               l == call[c].to
    <2>1. p \in Pledges /\ l \in Lists
      BY <1>4, AppendEffect
    <2>2. gate' = gate /\ \A x \in Calls : x # c => call'[x] = call[x]
      BY <1>0, <1>4, WhereItGoes DEF AppendToList
    <2>3. Appending(c, l, p)
      BY <1>4 DEF AppendToList, At, Appending
    <2>4. p \in gate[l] /\ Times(l, p) <= lates
          /\ \A x \in Calls : Appending(x, l, p) => x = c
      BY <2>1, <2>3 DEF GatesHold
    <2>5. \A k \in Lists, q \in Pledges :
            Times(k, q)' = IF o # "lost" /\ k = l /\ q = p
                           THEN Times(k, q) + 1 ELSE Times(k, q)
      BY <1>4, AppendTimes
    <2>6. lates' = IF o = "late" THEN lates + 1 ELSE lates
      BY <1>4 DEF AppendToList, Outcome
    <2>7. \/ o = "ok" /\ call'[c].at = "returned"
          \/ o # "ok" /\ call'[c].at = "rolling_back" /\ call'[c].to = l
             /\ call'[c].pledge = p
      BY <1>0, <1>4, WhereItGoes DEF AppendToList
    <2>8. o \in {"ok", "lost", "late"}
      BY LedgerAssumption DEF Outcomes
    <2>9. \A x \in Calls, k \in Lists, q \in Pledges :
            Appending(x, k, q)' => Appending(x, k, q) /\ (o = "ok" => x # c)
      <3>1. \A k \in Lists, q \in Pledges :
              Appending(c, k, q)' => Appending(c, k, q) /\ o # "ok"
        BY <2>3, <2>7 DEF Appending
      <3>2. \A x \in Calls, k \in Lists, q \in Pledges :
              x # c => (Appending(x, k, q)' => Appending(x, k, q))
        BY <2>2 DEF Appending
      <3> QED BY <3>1, <3>2
    <2> HIDE DEF l, p
    <2>10. ASSUME NEW x \in Calls, NEW k \in Lists, NEW q \in Pledges, Appending(x, k, q)'
           PROVE  /\ q \in gate'[k] /\ Times(k, q)' <= lates'
                  /\ \A y \in Calls : Appending(y, k, q)' => y = x
      <3>1. /\ q \in gate[k] /\ Times(k, q) <= lates
            /\ \A y \in Calls : Appending(y, k, q) => y = x
        BY <2>9, <2>10 DEF GatesHold
      <3>2. k = l /\ q = p => o # "ok"
        BY <2>3, <2>9, <2>10, <3>1
      <3>3. Times(k, q)' <= lates'
        BY <1>0, <2>5, <2>6, <2>8, <3>1, <3>2
      <3> QED BY <2>2, <2>9, <3>1, <3>3
    <2>11. ASSUME NEW k \in Lists, NEW q \in Pledges
           PROVE  \/ Times(k, q)' <= lates'
                  \/ q \in gate'[k] /\ Times(k, q)' <= lates' + 1
      <3>1. CASE k = l /\ q = p
        BY <1>0, <2>2, <2>4, <2>5, <2>6, <3>1
      <3>2. CASE ~(k = l /\ q = p)
        <4>1. Times(k, q)' = Times(k, q)
          BY <2>5, <3>2
        <4>2. \/ Times(k, q) <= lates
              \/ q \in gate[k] /\ Times(k, q) <= lates + 1
          BY DEF GatesHold
        <4> QED BY <1>0, <2>2, <4>1, <4>2
      <3> QED BY <3>1, <3>2
    <2> QED BY <2>10, <2>11 DEF GatesHold
  <1>5. ASSUME NEW c \in Calls, NEW o \in Outcomes, RollBack(c, o)
        PROVE  GatesHold'
    <2> DEFINE p == call[c].pledge
               l == call[c].to
    <2>1. p \in Pledges /\ l \in Lists /\ Appending(c, l, p)
      BY <1>0, <1>5 DEF RollBack, At, BookInv, Entered, Appending
    <2>2. Times(l, p) <= lates /\ \A x \in Calls : Appending(x, l, p) => x = c
      BY <2>1 DEF GatesHold
    <2>3. /\ list' = list /\ call'[c].at = "returned"
          /\ \A x \in Calls : x # c => call'[x] = call[x]
          /\ \A k \in Lists : \A q \in gate[k] : q \in gate'[k] \/ (k = l /\ q = p)
      BY <1>0, <1>5, WhereItGoes DEF RollBack, LedgerTypeOK
    <2>4. \A x \in Calls, k \in Lists, q \in Pledges :
            Appending(x, k, q)' => Appending(x, k, q) /\ x # c
      BY <2>3 DEF Appending
    <2> HIDE DEF l, p
    <2>5. \A k \in Lists, q \in Pledges : q \in gate[k] =>
            q \in gate'[k] \/ (/\ Times(k, q) <= lates
                              /\ \A x \in Calls : ~Appending(x, k, q)')
      BY <2>2, <2>3, <2>4
    <2>6. \A x \in Calls, k \in Lists, q \in Pledges :
            Appending(x, k, q)' => Appending(x, k, q)
      BY <2>4
    <2> QED BY <1>0, <2>3, <2>5, <2>6, GatesHoldOn
  <1>6. ASSUME NEW c \in Calls, NEW o \in Outcomes,
               \/ Find(c, o)
               \/ \E l \in Lists : GetList(c, l, o)
        PROVE  GatesHold'
    <2>1. \/ UNCHANGED call \/ Go(c, "gating")
          \/ \E result \in Results : Finish(c, result)
      BY <1>6 DEF Find, GetList, Results
    <2>2. UNCHANGED <<gate, list>>
      BY <1>6 DEF Find, GetList
    <2> QED BY <1>0, <1>1, <1>2, <2>1, <2>2, WhereItGoes
  <1>7. ASSUME NEW c \in Calls, Begin(c) \/ ListDone(c) \/ Return(c) \/ Die(c)
        PROVE  GatesHold'
    BY <1>0, <1>2, <1>7, BeginsAndEnds
  <1> QED BY <1>1, <1>3, <1>4, <1>5, <1>6, <1>7
          DEF LedgerNext, Proceed, ledgerVars, store

(* A pledge whose gate is set and that no call appends stays so: the next  *)
(* call finds the gate, and only a call that appends takes it back.        *)
Shut(l, p) == p \in gate[l] /\ \A c \in Calls : ~Appending(c, l, p)

LEMMA ShutStays ==
  ASSUME BookInv, [LedgerNext]_ledgerVars, NEW l \in Lists, NEW p \in Pledges,
         Shut(l, p)
  PROVE  Shut(l, p)'
  <1>0. LedgerTypeOK /\ p \in gate[l] /\ \A c \in Calls : ~Appending(c, l, p)
    BY DEF BookInv, Shut
  <1>1. ASSUME NEW c \in Calls, p \in gate'[l],
               \A x \in Calls : x # c => call'[x] = call[x],
               \/ call'[c].at \notin {"appending", "rolling_back"}
               \/ /\ call[c].at \in {"appending", "rolling_back"}
                  /\ call'[c].to = call[c].to /\ call'[c].pledge = call[c].pledge
        PROVE  Shut(l, p)'
    <2>1. ~Appending(c, l, p)'
      BY <1>0, <1>1 DEF Appending
    <2>2. \A x \in Calls : x # c => ~Appending(x, l, p)'
      BY <1>0, <1>1 DEF Appending
    <2> QED BY <1>1, <2>1, <2>2 DEF Shut
  <1>2. ASSUME NEW c \in Calls, NEW o \in Outcomes, SetGate(c, o) PROVE Shut(l, p)'
    <2>1. /\ p \in gate'[l]
          /\ \/ /\ Go(c, "appending") /\ call[c].pledge \notin gate[call[c].to]
             \/ \E result : Finish(c, result)
      BY <1>0, <1>2 DEF SetGate, LedgerTypeOK
    <2>2. CASE \E result : Finish(c, result)
      BY <1>0, <1>1, <2>1, <2>2, WhereItGoes
    <2>3. CASE Go(c, "appending") /\ call[c].pledge \notin gate[call[c].to]
      <3>1. /\ call'[c].to = call[c].to /\ call'[c].pledge = call[c].pledge
            /\ \A x \in Calls : x # c => call'[x] = call[x]
        BY <1>0, <2>3, WhereItGoes
      <3>2. ~Appending(c, l, p)'
        BY <1>0, <2>3, <3>1 DEF Appending
      <3>3. \A x \in Calls : x # c => ~Appending(x, l, p)'
        BY <1>0, <3>1 DEF Appending
      <3> QED BY <2>1, <3>2, <3>3 DEF Shut
    <2> QED BY <2>1, <2>2, <2>3
  <1>3. ASSUME NEW c \in Calls, NEW o \in Outcomes, AppendToList(c, o)
        PROVE  Shut(l, p)'
    <2>1. /\ gate' = gate /\ call[c].at = "appending"
          /\ Go(c, "rolling_back") \/ Finish(c, "fresh")
      BY <1>3 DEF AppendToList, At
    <2> QED BY <1>0, <1>1, <2>1, WhereItGoes
  <1>4. ASSUME NEW c \in Calls, NEW o \in Outcomes, RollBack(c, o) PROVE Shut(l, p)'
    <2>1. Appending(c, call[c].to, call[c].pledge) /\ Finish(c, "threw")
      BY <1>4 DEF RollBack, At, Appending
    <2>2. ~(call[c].to = l /\ call[c].pledge = p)
      BY <1>0, <2>1
    <2>3. p \in gate'[l]
      BY <1>0, <1>4, <2>2 DEF RollBack, LedgerTypeOK
    <2> QED BY <1>0, <1>1, <2>1, <2>3, WhereItGoes
  <1>5. ASSUME UNCHANGED gate, UNCHANGED call PROVE Shut(l, p)'
    BY <1>0, <1>5 DEF Shut, Appending
  <1>6. ASSUME NEW c \in Calls, NEW o \in Outcomes,
               \/ Find(c, o)
               \/ \E k \in Lists : GetList(c, k, o)
        PROVE  Shut(l, p)'
    <2>1. \/ UNCHANGED call \/ Go(c, "gating")
          \/ \E result : Finish(c, result)
      BY <1>6 DEF Find, GetList
    <2>2. UNCHANGED gate
      BY <1>6 DEF Find, GetList
    <2> QED BY <1>0, <1>1, <1>5, <2>1, <2>2, WhereItGoes
  <1>7. ASSUME NEW c \in Calls, Begin(c) \/ ListDone(c) \/ Return(c) \/ Die(c)
        PROVE  Shut(l, p)'
    <2>1. /\ UNCHANGED gate
          /\ call'[c].at \notin {"appending", "rolling_back"}
          /\ \A x \in Calls : x # c => call'[x] = call[x]
      BY <1>0, <1>7, BeginsAndEnds
    <2> QED BY <1>0, <1>1, <2>1
  <1> QED BY <1>2, <1>3, <1>4, <1>5, <1>6, <1>7
          DEF LedgerNext, Proceed, ledgerVars, store

LEMMA LedgerInitGates == LedgerInit => GatesHold
  <1> SUFFICES ASSUME LedgerInit PROVE GatesHold
    OBVIOUS
  <1>1. \A c \in Calls : call[c].at = "idle"
    BY DEF LedgerInit, Idle
  <1>2. \A l \in Lists, p \in Pledges : Times(l, p) = 0
    <2> SUFFICES ASSUME NEW l \in Lists, NEW p \in Pledges PROVE Times(l, p) = 0
      OBVIOUS
    <2>1. {i \in DOMAIN list[l] : list[l][i] = p} = {}
      BY DEF LedgerInit
    <2> QED BY <2>1, FS_EmptySet DEF Times, Occurrences
  <1> QED BY <1>1, <1>2 DEF LedgerInit, GatesHold, Appending

LEMMA GatesListOnce == BookInv /\ GatesHold => ListedOnce
  <1> SUFFICES ASSUME BookInv, GatesHold, NEW l \in Lists, NEW p \in Pledges
               PROVE  Times(l, p) <= 1 + lates
    BY DEF ListedOnce
  <1>1. Times(l, p) \in Nat /\ lates \in Nat
    BY TimesType DEF BookInv, LedgerTypeOK
  <1> QED BY <1>1 DEF GatesHold

(* Whoever calls, retries, rolls back or dies, a pledge is listed once, or *)
(* once more for each command that was executed and its answer lost.       *)
THEOREM LedgerListedOnce == LedgerSpec => []ListedOnce
  <1>1. BookInv /\ GatesHold /\ [LedgerNext]_ledgerVars => GatesHold'
    BY GatesHoldStep
  <1> QED BY <1>1, LedgerInitGates, GatesListOnce, LedgerInitInv, LedgerStepInv, PTL
          DEF LedgerSpec

(* LedgerIsHonest: what callers were told is listed, and listed once, or   *)
(* once more for each lost answer.                                         *)
THEOREM LedgerHonest == LedgerSpec => []LedgerIsHonest
  <1>1. ListedOnce /\ FreshMeansListed => LedgerIsHonest
    BY DEF LedgerIsHonest
  <1> QED BY <1>1, LedgerListedOnce, LedgerFreshMeansListed, PTL

(* BookIsKept: the ledger implements the book, and only owners settle.     *)
THEOREM LedgerBookKept == LedgerSpec => BookIsKept
  BY LedgerKeepsTheBook, LedgerSettledByOwner DEF BookIsKept
-----------------------------------------------------------------------------
(* What a listing call has read so far is never newer than the lists, and  *)
(* what happened since it read the fulfillments is in its history.         *)
ViewsLag ==
    \A c \in Calls :
      /\ call[c].at \notin {"listing", "returned"} => view[c] = NoView
      /\ call[c].at = "listing" =>
           LET pledged == view[c]["pledges"]
               settled == view[c]["fulfillments"]
           IN  /\ wasOpen[c].start \subseteq Pledged
               /\ Open \subseteq wasOpen[c].ever
               /\ pledged # None =>
                    wasOpen[c].start \subseteq pledged /\ pledged \subseteq Pledged
               /\ settled # None =>
                    settled \subseteq Fulfilled
                    /\ Fulfilled \ settled \subseteq wasOpen[c].ever
               /\ pledged # None /\ settled # None =>
                    Listed(c) \subseteq wasOpen[c].ever

LEMMA ViewsLagUnread ==
  ASSUME BookInv, ViewsLag, NEW c \in Calls, NEW r,
         call' = [call EXCEPT ![c] = r], list' = list,
         UNCHANGED <<view, wasOpen>>,
         r.at = "returned" \/ (r.at # "listing" /\ call[c].at # "returned"
                                /\ call[c].at # "listing")
  PROVE  ViewsLag'
  <1>1. \A x \in Calls : call'[x] = IF x = c THEN r ELSE call[x]
    BY DEF BookInv, LedgerTypeOK
  <1>2. \A x \in Calls : Listed(x)' = Listed(x)
    BY DEF Listed
  <1> QED BY <1>1, <1>2 DEF ViewsLag, Open, Pledged, Fulfilled

LEMMA ViewsLagStep == BookInv /\ ViewsLag /\ [LedgerNext]_ledgerVars => ViewsLag'
  <1> SUFFICES ASSUME BookInv, ViewsLag, [LedgerNext]_ledgerVars PROVE ViewsLag'
    OBVIOUS
  <1>1. call \in [Calls -> CallRecord] /\ LedgerTypeOK
    BY DEF BookInv, LedgerTypeOK
  <1>2. CASE UNCHANGED ledgerVars
    BY <1>2 DEF ledgerVars, store, ViewsLag, Open, Pledged, Fulfilled, Listed
  <1>3. ASSUME NEW c \in Calls, Begin(c) PROVE ViewsLag'
    <2>1. CASE \E p \in Pledges : Record(c, p)
      BY <2>1, ViewsLagUnread DEF Record, At, Idle, store
    <2>2. CASE \E p \in Pledges, who \in People : Fulfill(c, p, who)
      BY <2>2, ViewsLagUnread DEF Fulfill, At, Idle, store
    <2>3. CASE List(c)
      <3>1. view[c] = NoView /\ view' = view /\ list' = list
        BY <2>3 DEF List, At, ViewsLag, store
      <3>2. \A x \in Calls : call'[x] = IF x = c THEN [Idle EXCEPT !.at = "listing"]
                                               ELSE call[x]
        BY <1>1, <2>3 DEF List
      <3>3. \A x \in Calls : wasOpen'[x] = IF x = c THEN [start |-> Open, ever |-> Open]
                                                  ELSE wasOpen[x]
        BY <1>1, <2>3 DEF List, LedgerTypeOK
      <3>4. \A x \in Calls : Listed(x)' = Listed(x)
        BY <3>1 DEF Listed
      <3>5. [Idle EXCEPT !.at = "listing"].at = "listing"
        BY DEF Idle
      <3> QED BY <3>1, <3>2, <3>3, <3>4, <3>5
              DEF ViewsLag, Open, Pledged, Fulfilled, NoView, Lists
    <2> QED BY <1>3, <2>1, <2>2, <2>3 DEF Begin
  <1>4. ASSUME NEW c \in Calls, NEW o \in Outcomes,
               Find(c, o) \/ SetGate(c, o) \/ RollBack(c, o)
        PROVE  ViewsLag'
    <2>1. /\ list' = list /\ UNCHANGED <<view, wasOpen>>
          /\ call[c].at # "returned" /\ call[c].at # "listing"
      BY <1>4 DEF Find, SetGate, RollBack, At
    <2>2. \/ \E result \in Results : Finish(c, result)
          \/ \E place \in {"gating", "appending"} : Go(c, place)
      BY <1>4 DEF Find, SetGate, RollBack, Results
    <2>3. \E r \in CallRecord :
             call' = [call EXCEPT ![c] = r]
             /\ r.at \in {"returned", "gating", "appending"}
      BY <1>1, <2>2, Moved
    <2> QED BY <2>1, <2>3, ViewsLagUnread
  <1>5. ASSUME NEW c \in Calls, NEW o \in Outcomes, AppendToList(c, o)
        PROVE  ViewsLag'
    <2> DEFINE p == call[c].pledge
               l == call[c].to
    <2>1. /\ p \in Pledges /\ l \in Lists
          /\ \A k \in Lists : k # l => list'[k] = list[k]
          /\ Range(list[l]) \subseteq Range(list'[l])
          /\ Range(list'[l]) \subseteq Range(list[l]) \cup {p}
      BY <1>5, AppendEffect
    <2>2. Pledged \subseteq Pledged' /\ Fulfilled \subseteq Fulfilled'
      BY <2>1 DEF Pledged, Fulfilled, Lists
    <2>3. Fulfilled' \subseteq Fulfilled \cup Open
      <3>1. CASE l = "pledges"
        BY <2>1, <3>1 DEF Fulfilled, Lists
      <3>2. CASE l = "fulfillments"
        BY <1>5, <2>1, <3>2 DEF Fulfilled, Open, AppendToList, At, BookInv, Entered
      <3> QED BY <2>1, <3>1, <3>2 DEF Lists
    <2>4. /\ view' = view
          /\ \A x \in Calls : At(x, "listing") =>
                /\ wasOpen'[x].start = wasOpen[x].start
                /\ wasOpen'[x].ever = wasOpen[x].ever \cup Open'
      BY <1>1, <1>5 DEF AppendToList, LedgerTypeOK
    <2>5. \E r \in CallRecord :
             call' = [call EXCEPT ![c] = r] /\ r.at \in {"returned", "rolling_back"}
      BY <1>1, <1>5, Moved DEF AppendToList, Results
    <2>6. \A x \in Calls : /\ call'[x].at = "listing" => call[x].at = "listing"
                           /\ call'[x].at \notin {"listing", "returned"} =>
                                 call[x].at \notin {"listing", "returned"}
      BY <1>1, <1>5, <2>5 DEF At, AppendToList
    <2>7. \A x \in Calls : Listed(x)' = Listed(x)
      BY <2>4 DEF Listed
    <2> HIDE DEF p, l
    <2>8. ASSUME NEW x \in Calls, call'[x].at = "listing"
          PROVE  /\ wasOpen'[x].start \subseteq Pledged'
                 /\ Open' \subseteq wasOpen'[x].ever
                 /\ view[x]["pledges"] # None =>
                      wasOpen'[x].start \subseteq view[x]["pledges"]
                      /\ view[x]["pledges"] \subseteq Pledged'
                 /\ view[x]["fulfillments"] # None =>
                      view[x]["fulfillments"] \subseteq Fulfilled'
                      /\ Fulfilled' \ view[x]["fulfillments"] \subseteq wasOpen'[x].ever
                 /\ view[x]["pledges"] # None /\ view[x]["fulfillments"] # None =>
                      Listed(x) \subseteq wasOpen'[x].ever
      <3>1. call[x].at = "listing"
        BY <2>6, <2>8
      <3>2. /\ wasOpen[x].start \subseteq Pledged
            /\ Open \subseteq wasOpen[x].ever
            /\ view[x]["pledges"] # None =>
                 wasOpen[x].start \subseteq view[x]["pledges"]
                 /\ view[x]["pledges"] \subseteq Pledged
            /\ view[x]["fulfillments"] # None =>
                 view[x]["fulfillments"] \subseteq Fulfilled
                 /\ Fulfilled \ view[x]["fulfillments"] \subseteq wasOpen[x].ever
            /\ view[x]["pledges"] # None /\ view[x]["fulfillments"] # None =>
                 Listed(x) \subseteq wasOpen[x].ever
        BY <3>1 DEF ViewsLag
      <3>3. wasOpen'[x].start = wasOpen[x].start
            /\ wasOpen'[x].ever = wasOpen[x].ever \cup Open'
        BY <2>4, <3>1 DEF At
      <3> QED BY <2>2, <2>3, <3>2, <3>3
    <2> QED BY <2>4, <2>6, <2>7, <2>8 DEF ViewsLag
  <1>6. ASSUME NEW c \in Calls, NEW l \in Lists, NEW o \in Outcomes, GetList(c, l, o)
        PROVE  ViewsLag'
    <2>1. list' = list /\ wasOpen' = wasOpen
      BY <1>6 DEF GetList
    <2>2. CASE o # "ok"
      <3>1. \E r \in CallRecord : call' = [call EXCEPT ![c] = r] /\ r.at = "returned"
        BY <1>1, <1>6, <2>2, Moved DEF GetList, Results
      <3> QED BY <1>6, <2>1, <2>2, <3>1, ViewsLagUnread DEF GetList
    <2>3. CASE o = "ok"
      <3>1. /\ call' = call /\ call[c].at = "listing" /\ view[c][l] = None
            /\ \A x \in Calls : x # c => view'[x] = view[x]
            /\ view'[c][l] = Range(list[l])
            /\ \A k \in Lists : k # l => view'[c][k] = view[c][k]
        BY <1>1, <1>6, <2>3 DEF GetList, At, LedgerTypeOK
      <3>2. \A x \in Calls : x # c => Listed(x)' = Listed(x)
        BY <3>1 DEF Listed
      <3>3. Listed(c)' = view'[c]["pledges"] \ view'[c]["fulfillments"]
        BY DEF Listed
      <3>4. UNCHANGED <<Open, Pledged, Fulfilled>> /\ Open = Pledged \ Fulfilled
            /\ Pledged = Range(list["pledges"])
            /\ Fulfilled = Range(list["fulfillments"])
        BY <2>1 DEF Open, Pledged, Fulfilled
      <3>5. /\ wasOpen[c].start \subseteq Pledged
            /\ Open \subseteq wasOpen[c].ever
            /\ view[c]["pledges"] # None =>
                 wasOpen[c].start \subseteq view[c]["pledges"]
                 /\ view[c]["pledges"] \subseteq Pledged
            /\ view[c]["fulfillments"] # None =>
                 view[c]["fulfillments"] \subseteq Fulfilled
                 /\ Fulfilled \ view[c]["fulfillments"] \subseteq wasOpen[c].ever
        BY <3>1 DEF ViewsLag
      <3>6. CASE l = "pledges"
        BY <2>1, <3>1, <3>2, <3>3, <3>4, <3>5, <3>6 DEF ViewsLag, Lists
      <3>7. CASE l = "fulfillments"
        BY <2>1, <3>1, <3>2, <3>3, <3>4, <3>5, <3>7 DEF ViewsLag, Lists
      <3> QED BY <3>6, <3>7 DEF Lists
    <2> QED BY <2>2, <2>3
  <1>7. ASSUME NEW c \in Calls, ListDone(c) PROVE ViewsLag'
    <2>1. \E r \in CallRecord : call' = [call EXCEPT ![c] = r] /\ r.at = "returned"
      BY <1>1, <1>7, Moved DEF ListDone, Results
    <2> QED BY <1>7, <2>1, ViewsLagUnread DEF ListDone, store
  <1>8. ASSUME NEW c \in Calls, Return(c) \/ Die(c) PROVE ViewsLag'
    <2>1. /\ list' = list
          /\ \A x \in Calls :
                /\ call'[x] = IF x = c THEN Idle ELSE call[x]
                /\ view'[x] = IF x = c THEN NoView ELSE view[x]
                /\ wasOpen'[x] = IF x = c THEN NeverOpen ELSE wasOpen[x]
      BY <1>1, <1>8 DEF Return, Die, Forget, store, LedgerTypeOK
    <2>2. Idle.at = "idle"
      BY DEF Idle
    <2>3. \A x \in Calls : x # c => Listed(x)' = Listed(x)
      BY <2>1 DEF Listed
    <2> QED BY <2>1, <2>2, <2>3 DEF ViewsLag, Open, Pledged, Fulfilled
  <1> QED BY <1>2, <1>3, <1>4, <1>5, <1>6, <1>7, <1>8 DEF LedgerNext, Proceed

(* listOpenPledges, which reads the two lists apart, leaves out no pledge  *)
(* that was open all along and names none that never was meanwhile.        *)
THEOREM LedgerListIsCurrent == LedgerSpec => []ListIsCurrent
  <1>1. LedgerInit => ViewsLag
    <2>1. Idle.at = "idle"
      BY DEF Idle
    <2> QED BY <2>1 DEF LedgerInit, ViewsLag
  <1>2. ViewsLag => ListIsCurrent
    <2> SUFFICES ASSUME ViewsLag, NEW c \in Calls, call[c].at = "listing",
                        \A l \in Lists : view[c][l] # None
                 PROVE  /\ wasOpen[c].start \cap Open \subseteq Listed(c)
                        /\ Listed(c) \subseteq wasOpen[c].ever
      BY DEF ListIsCurrent
    <2> QED BY DEF ViewsLag, Listed, Open, Lists
  <1> QED BY <1>1, <1>2, LedgerInitInv, LedgerStepInv, ViewsLagStep, PTL
          DEF LedgerSpec
=============================================================================
