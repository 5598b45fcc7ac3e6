------------------------------ MODULE LeavePlan ------------------------------
(***************************************************************************)
(* How the leave tracker turns a classification, a list of date ranges     *)
(* each with a kind and a portion, into the days to mark (leave-plan.ts).  *)
(* One step of the model is one iteration of the loop over the entries.    *)
(*                                                                         *)
(* A date is its day number: ISO date strings compare, and addDays counts, *)
(* as day numbers do.  The day 0 is a Monday.                              *)
(***************************************************************************)
EXTENDS Integers, Sequences

CONSTANTS
    Calendar,       \* the days a valid date string can name
    Garbled,        \* any string that is not a date
    Today,
    MaxDaysPerRange, PastWindowDays, FutureWindowDays,
    Classifications \* the lists of entries the classifier may return

(* An entry's kind matters to the plan only as leave or WFH, its portion   *)
(* only as the full day or half of it.                                     *)
Entry == [start   : Calendar \cup {Garbled},
          end     : Calendar \cup {Garbled},
          leave   : BOOLEAN,
          fullDay : BOOLEAN]

ASSUME PlanAssumption ==
    /\ Calendar \subseteq Int
    /\ Garbled \notin Calendar
    /\ Today \in Calendar
    /\ MaxDaysPerRange \in Nat \ {0}
    /\ PastWindowDays \in Nat /\ FutureWindowDays \in Nat
    /\ Classifications \subseteq Seq(Entry)

VARIABLES
    entries,        \* the classification
    next,           \* the entry the loop is at
    marks,          \* for each day, the entry it is marked with, or 0
    skipped,        \* the days reported as skipped
    invalidRanges   \* the entries reported as invalid

planVars == <<entries, next, marks, skipped, invalidRanges>>

PlanTypeOK ==
    /\ entries \in Seq(Entry)
    /\ next \in 1..(Len(entries) + 1)
    /\ marks \in [Calendar -> 0..Len(entries)]
    /\ skipped \subseteq Calendar
    /\ invalidRanges \subseteq 1..Len(entries)

PlanInit ==
    /\ entries \in Classifications
    /\ next = 1
    /\ marks = [d \in Calendar |-> 0]
    /\ skipped = {}
    /\ invalidRanges = {}

-----------------------------------------------------------------------------
IsWeekend(d) == d % 7 \in {5, 6}

InWindow(d) == Today - PastWindowDays <= d /\ d <= Today + FutureWindowDays

IsValid(e) == Garbled \notin {e.start, e.end} /\ e.start <= e.end

(* expandDateRange: the first MaxDaysPerRange days of the range.           *)
ExpandDateRange(e) ==
    {d \in Calendar : e.start <= d /\ d <= e.end /\ d < e.start + MaxDaysPerRange}

IsSingleDay(e) == ExpandDateRange(e) = {e.start}

(* usableDates: a weekend is skipped in silence, unless it is all that was *)
(* asked for; a day out of the window is skipped and reported.             *)
Usable(d) == ~IsWeekend(d) /\ InWindow(d)

SkippedBy(e) ==
    {d \in ExpandDateRange(e) :
        IF IsWeekend(d) THEN IsSingleDay(e) ELSE ~InWindow(d)}

MarkPriority(e) == (IF e.leave THEN 2 ELSE 0) + (IF e.fullDay THEN 1 ELSE 0)

(* Variants, each named for the slip it makes, stand before what they      *)
(* replace: the runs show that the properties tell them apart.             *)
OvertakesOnTie(i, d) ==
    marks[d] = 0 \/ MarkPriority(entries[i]) >= MarkPriority(entries[marks[d]])

(* A later entry takes a day over only with a higher priority.             *)
Overtakes(i, d) ==
    marks[d] = 0 \/ MarkPriority(entries[i]) > MarkPriority(entries[marks[d]])

UseRange(e) ==
    /\ IsValid(e)
    /\ marks' = [d \in Calendar |->
                   IF d \in ExpandDateRange(e) /\ Usable(d) /\ Overtakes(next, d)
                   THEN next ELSE marks[d]]
    /\ skipped' = skipped \cup SkippedBy(e)
    /\ UNCHANGED invalidRanges

RejectRange(e) ==
    /\ ~IsValid(e)
    /\ invalidRanges' = invalidRanges \cup {next}
    /\ UNCHANGED <<marks, skipped>>

PlanEntry ==
    /\ next <= Len(entries)
    /\ UseRange(entries[next]) \/ RejectRange(entries[next])
    /\ next' = next + 1
    /\ UNCHANGED entries

PlanSpec == PlanInit /\ [][PlanEntry]_planVars

-----------------------------------------------------------------------------
(* What was asked of a day so far: the valid entries whose range, cut at   *)
(* the limit, includes it.                                                 *)
Asking(d) ==
    {i \in 1..(next - 1) : /\ IsValid(entries[i])
                           /\ entries[i].start <= d /\ d <= entries[i].end
                           /\ d - entries[i].start < MaxDaysPerRange}

(* i is the earliest of the entries with the highest priority.             *)
Best(i, S) ==
    /\ i \in S
    /\ \A j \in S : LET pi == MarkPriority(entries[i])
                        pj == MarkPriority(entries[j])
                    IN  pj < pi \/ (pj = pi /\ i <= j)

(* However the ranges overlap, a day gets one mark: leave before WFH, full *)
(* days before halves, and the first one asked for among equals.           *)
MarksAreBest ==
    \A d \in Calendar :
      IF Usable(d) /\ Asking(d) # {} THEN Best(marks[d], Asking(d))
                                     ELSE marks[d] = 0

(* No day that is asked for, within the limit on the length of a range, is *)
(* lost between the lists of the plan: it is marked, or reported as        *)
(* skipped, or it is a weekend inside a range.                             *)
NothingDropped ==
    \A d \in Calendar : Asking(d) # {} =>
      \/ marks[d] # 0
      \/ d \in skipped
      \/ IsWeekend(d) /\ \A i \in Asking(d) : ~IsSingleDay(entries[i])

(* The plan is what was asked for: each day its best mark, and every day   *)
(* accounted for.                                                          *)
PlanIsRight == MarksAreBest /\ NothingDropped
=============================================================================
