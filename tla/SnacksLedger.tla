---------------------------- MODULE SnacksLedger ----------------------------
(***************************************************************************)
(* The snacks ledger: two lists in Redis, the pledges and the pledges that *)
(* were fulfilled, each guarded by one key per message, the gate, that     *)
(* lets a message into the list once.  SnacksLedgerService sets the gate,  *)
(* then appends, and takes the gate back when the append fails.  Calls of  *)
(* the service run concurrently, every Redis command is a step, and the    *)
(* process of a call may die between two of them.                          *)
(*                                                                         *)
(* The keys' expiry after a year is left out.                              *)
(***************************************************************************)
EXTENDS Naturals, Sequences, FiniteSets, Functions

CONSTANTS
    Recorders,      \* concurrent calls of recordSnacksPledge
    Tools,          \* concurrent calls made for the assistant's tools
    Pledges,        \* messages that may be recorded as pledges
    People, Owner,  \* who wrote each message
    None,           \* no message, person, result or view
    Faults,         \* what may become of a Redis command that errors
    MaxFaults       \* bound: Redis errors

Results == {"fresh", "repeated", "not_found", "not_owner", "threw"}

(* "lost": it was not executed; "late": it was, and the answer got lost.   *)
ASSUME LedgerAssumption ==
    /\ Owner \in [Pledges -> People]
    /\ None \notin Pledges \cup People \cup Results
    /\ Faults \subseteq {"lost", "late"}
    /\ MaxFaults \in Nat

Calls == Recorders \cup Tools

VARIABLES
    gate,           \* for each list, the messages whose key is set
    list,           \* PLEDGES_KEY and FULFILLMENTS_KEY
    call,           \* the progress of each call
    view,           \* what a listing call has read of each list
    wasOpen,        \* history: the pledges open when a listing call began,
                    \* and those open at some moment of it
    faults,         \* Redis errors so far
    lates           \* history: those of them whose command was executed

store      == <<gate, list, faults, lates>>
ledgerVars == <<store, call, view, wasOpen>>

Lists   == {"pledges", "fulfillments"}

(* by is the fulfilledByUserId of a call; the only caller passes one.      *)
CallRecord == [at     : {"idle", "finding", "gating", "appending",
                         "rolling_back", "listing", "returned"},
               to     : Lists,
               pledge : Pledges \cup {None},
               by     : People \cup {None},
               result : Results \cup {None}]

Idle == [at |-> "idle", to |-> "pledges", pledge |-> None, by |-> None,
         result |-> None]

NoView == [l \in Lists |-> None]

NeverOpen == [start |-> {}, ever |-> {}]

LedgerTypeOK ==
    /\ gate \in [Lists -> SUBSET Pledges]
    /\ list \in [Lists -> Seq(Pledges)]
    /\ call \in [Calls -> CallRecord]
    /\ view \in [Calls -> [Lists -> {None} \cup SUBSET Pledges]]
    /\ wasOpen \in [Calls -> [start : SUBSET Pledges, ever : SUBSET Pledges]]
    /\ faults \in 0..MaxFaults
    /\ lates \in Nat

LedgerInit ==
    /\ gate = [l \in Lists |-> {}]
    /\ list = [l \in Lists |-> <<>>]
    /\ call = [c \in Calls |-> Idle]
    /\ view = [c \in Calls |-> NoView]
    /\ wasOpen = [c \in Calls |-> NeverOpen]
    /\ faults = 0
    /\ lates = 0

-----------------------------------------------------------------------------
Pledged == Range(list["pledges"])
Fulfilled == Range(list["fulfillments"])
Open == Pledged \ Fulfilled

(* A command answers, or errors having been executed or not.               *)
Outcomes == {"ok"} \cup Faults

Outcome(o) ==
    /\ o # "ok" => faults < MaxFaults
    /\ faults' = IF o = "ok" THEN faults ELSE faults + 1
    /\ lates' = IF o = "late" THEN lates + 1 ELSE lates

At(c, place) == call[c].at = place

Go(c, place) == call' = [call EXCEPT ![c].at = place]

Finish(c, result) ==
    call' = [call EXCEPT ![c].at = "returned", ![c].result = result]

(* Variants, each named for the slip it makes, stand before what they      *)
(* replace: the runs show that the properties tell them apart.             *)
RecordNothing(c, p) ==
    /\ At(c, "idle")
    /\ call' = [call EXCEPT ![c] = [Idle EXCEPT !.at = "gating"]]
    /\ UNCHANGED <<store, view, wasOpen>>

(* recordSnacksPledge(record)                                              *)
Record(c, p) ==
    /\ At(c, "idle")
    /\ call' = [call EXCEPT ![c] = [Idle EXCEPT !.at = "gating", !.pledge = p]]
    /\ UNCHANGED <<store, view, wasOpen>>

(* fulfillPledge(messageId, fulfilledByUserId): an id the list of pledges  *)
(* does not have, or somebody else's pledge, is refused.                   *)
Fulfill(c, p, who) ==
    /\ At(c, "idle")
    /\ call' = [call EXCEPT ![c] = [Idle EXCEPT !.at = "finding", !.pledge = p,
                                                !.by = who,
                                                !.to = "fulfillments"]]
    /\ UNCHANGED <<store, view, wasOpen>>

Find(c, o) ==
    /\ At(c, "finding")
    /\ Outcome(o)
    /\ LET p == call[c].pledge IN
       IF o # "ok" THEN Finish(c, "threw")
       ELSE IF p \notin Pledged THEN Finish(c, "not_found")
       ELSE IF call[c].by # Owner[p] THEN Finish(c, "not_owner")
       ELSE Go(c, "gating")
    /\ UNCHANGED <<gate, list, view, wasOpen>>

SetGateUnread(c, o) ==
    /\ At(c, "gating")
    /\ Outcome(o)
    /\ gate' = IF o = "lost" THEN gate
               ELSE [gate EXCEPT ![call[c].to] = @ \cup {call[c].pledge}]
    /\ IF o = "ok" THEN Go(c, "appending") ELSE Finish(c, "threw")
    /\ UNCHANGED <<list, view, wasOpen>>

(* setIfNotExists                                                          *)
SetGate(c, o) ==
    /\ At(c, "gating")
    /\ Outcome(o)
    /\ LET p == call[c].pledge
           l == call[c].to
       IN  /\ gate' = IF o = "lost" THEN gate
                                    ELSE [gate EXCEPT ![l] = @ \cup {p}]
           /\ IF o # "ok" THEN Finish(c, "threw")
              ELSE IF p \in gate[l] THEN Finish(c, "repeated")
                                    ELSE Go(c, "appending")
    /\ UNCHANGED <<list, view, wasOpen>>

(* appendToList                                                            *)
AppendToList(c, o) ==
    /\ At(c, "appending")
    /\ Outcome(o)
    /\ list' = IF o = "lost" THEN list
               ELSE [list EXCEPT ![call[c].to] = Append(@, call[c].pledge)]
    /\ wasOpen' = [x \in Calls |->
                     IF At(x, "listing") THEN [wasOpen[x] EXCEPT !.ever = @ \cup Open']
                                         ELSE wasOpen[x]]
    /\ IF o = "ok" THEN Finish(c, "fresh") ELSE Go(c, "rolling_back")
    /\ UNCHANGED <<gate, view>>

RollBackTheList(c, o) ==
    /\ At(c, "rolling_back")
    /\ Outcome(o)
    /\ list' = IF o = "lost" THEN list ELSE [list EXCEPT ![call[c].to] = <<>>]
    /\ Finish(c, "threw")
    /\ UNCHANGED <<gate, view, wasOpen>>

(* The append failed: delete the key and rethrow; an error of the deletion *)
(* is thrown in its place.                                                 *)
RollBack(c, o) ==
    /\ At(c, "rolling_back")
    /\ Outcome(o)
    /\ gate' = IF o = "lost" THEN gate
               ELSE [gate EXCEPT ![call[c].to] = @ \ {call[c].pledge}]
    /\ Finish(c, "threw")
    /\ UNCHANGED <<list, view, wasOpen>>

(* listOpenPledges reads the two lists at once, so in either order.        *)
List(c) ==
    /\ At(c, "idle")
    /\ call' = [call EXCEPT ![c] = [Idle EXCEPT !.at = "listing"]]
    /\ UNCHANGED view
    /\ wasOpen' = [wasOpen EXCEPT ![c] = [start |-> Open, ever |-> Open]]
    /\ UNCHANGED store

GetList(c, l, o) ==
    /\ At(c, "listing")
    /\ view[c][l] = None
    /\ Outcome(o)
    /\ IF o = "ok" THEN /\ view' = [view EXCEPT ![c][l] = Range(list[l])]
                        /\ UNCHANGED call
                   ELSE Finish(c, "threw") /\ UNCHANGED view
    /\ UNCHANGED <<gate, list, wasOpen>>

ListedAllPledges(c) == view[c]["pledges"]

Listed(c) == view[c]["pledges"] \ view[c]["fulfillments"]

ListDone(c) ==
    /\ At(c, "listing")
    /\ \A l \in Lists : view[c][l] # None
    /\ Finish(c, "fresh")
    /\ UNCHANGED <<store, view, wasOpen>>

(* The caller takes the result; or the process dies with the call.         *)
Forget(c) ==
    /\ call' = [call EXCEPT ![c] = Idle]
    /\ view' = [view EXCEPT ![c] = NoView]
    /\ wasOpen' = [wasOpen EXCEPT ![c] = NeverOpen]
    /\ UNCHANGED store

Return(c) == At(c, "returned") /\ Forget(c)

Die(c) == ~At(c, "idle") /\ Forget(c)

-----------------------------------------------------------------------------
Begin(c) ==
    \/ c \in Recorders /\ \E p \in Pledges : Record(c, p)
    \/ c \in Tools /\ \E p \in Pledges, who \in People : Fulfill(c, p, who)
    \/ c \in Tools /\ List(c)

Proceed(c) ==
    \/ \E o \in Outcomes : \/ Find(c, o) \/ SetGate(c, o) \/ AppendToList(c, o)
                           \/ RollBack(c, o)
                           \/ \E l \in Lists : GetList(c, l, o)
    \/ ListDone(c)

LedgerNext == \E c \in Calls : Begin(c) \/ Proceed(c) \/ Return(c) \/ Die(c)

LedgerSpec == LedgerInit /\ [][LedgerNext]_ledgerVars

-----------------------------------------------------------------------------
Occurrences(seq, e) == Cardinality({i \in DOMAIN seq : seq[i] = e})

Times(l, p) == Occurrences(list[l], p)

(* Through concurrent calls, retries, rollbacks and calls that die halfway *)
(* no pledge is listed twice and none is settled twice, but by an append   *)
(* that was executed although it errored: the key is taken back, and the   *)
(* retry appends again (snacks-ledger.service.ts:70).  Each such answer    *)
(* that is lost makes up for one entry too many, and for no more.          *)
ListedOnce == \A l \in Lists, p \in Pledges : Times(l, p) <= 1 + lates

(* What a call answers is so: a "fresh" record or fulfillment is in the    *)
(* list.                                                                   *)
FreshMeansListed ==
    \A c \in Calls :
      call[c].result = "fresh" /\ call[c].pledge # None
          => call[c].pledge \in Range(list[call[c].to])

(* The lists have what callers were told they have, and have it once, or   *)
(* once more for each lost answer.                                         *)
LedgerIsHonest == ListedOnce /\ FreshMeansListed

(* Whatever errors, the lists keep the promise of the book.                *)
Book == INSTANCE PledgeBook WITH owed <- Open, settled <- Fulfilled

KeepsTheBook == Book!BookSpec

(* A pledge is settled by the person who owes it only: whoever else asks,  *)
(* concurrently or before, is turned away before anything is written.      *)
OwnersSettle ==
    \A p \in Fulfilled' \ Fulfilled :
      \E c \in Calls : /\ call[c].at = "appending" /\ call[c].pledge = p
                       /\ call[c].by = Owner[p]

SettledByOwner == [][OwnersSettle]_ledgerVars

(* The ledger is a book in which everybody settles their own debts.        *)
BookIsKept == KeepsTheBook /\ SettledByOwner

(* listOpenPledges reads the two lists apart, and yet leaves out no pledge *)
(* that was open all along and names none that was not open meanwhile.     *)
ListIsCurrent ==
    \A c \in Calls :
      call[c].at = "listing" /\ (\A l \in Lists : view[c][l] # None) =>
        /\ wasOpen[c].start \cap Open \subseteq Listed(c)
        /\ Listed(c) \subseteq wasOpen[c].ever

=============================================================================
