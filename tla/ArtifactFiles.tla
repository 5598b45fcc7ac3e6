---------------------------- MODULE ArtifactFiles ----------------------------
(***************************************************************************)
(* The tools with which the builder's agent writes and edits the page of   *)
(* an artifact.  The agent may call several of them at once; inOrder makes *)
(* each wait for the one before, so that none edits a page another is      *)
(* about to replace.                                                       *)
(*                                                                         *)
(* A page is a sequence of characters of a small alphabet.                 *)
(***************************************************************************)
EXTENDS Integers, Sequences

CONSTANTS
    Characters,
    Pages,          \* what a call may write
    EditLists,      \* what an edit call may ask for
    Texts,          \* what may stand there between two edits
    NoPage,         \* index.html does not exist
    MaxCalls        \* bound: calls of the tools

(* The schema of an edit call: oldString is not empty, and it has an edit. *)
ASSUME FilesAssumption ==
    /\ Pages \subseteq Texts /\ NoPage \notin Texts
    /\ \A text \in Texts :
         /\ text \in Seq(Characters)
         /\ \A n \in 0..Len(text) : SubSeq(text, 1, n) \in Texts
    /\ \A edits \in EditLists :
         /\ edits # <<>>
         /\ edits \in Seq([old : Seq(Characters) \ {<<>>}, new : Seq(Characters)])
    /\ MaxCalls \in Nat

VARIABLES
    page,           \* index.html
    pending,        \* calls that have not ended, in the order of the chain
    read,           \* what the first of them has read, as a singleton
    calls,          \* history: every call that ended, in the order issued
    failed,         \* history: the positions of those that threw
    broken          \* history: of those among them whose writeFile was rejected

filesVars == <<page, pending, read, calls, failed, broken>>

WriteCalls == [write : Pages]
EditCalls == [edits : EditLists]

IsWrite(c) == "write" \in DOMAIN c

FilesTypeOK ==
    /\ page \in Texts \cup {NoPage}
    /\ pending \in Seq(WriteCalls \cup EditCalls)
    /\ read \in SUBSET (Texts \cup {NoPage})
    /\ calls \in Seq(WriteCalls \cup EditCalls)
    /\ failed \in SUBSET (1..Len(calls))
    /\ broken \in SUBSET failed

FilesInit ==
    /\ page \in {NoPage} \cup Pages     \* a revision starts from a page
    /\ pending = <<>>
    /\ read = {}
    /\ calls = <<>>
    /\ failed = {}
    /\ broken = {}

-----------------------------------------------------------------------------
MatchesAt(text, old, i) ==
    i + Len(old) - 1 <= Len(text) /\ SubSeq(text, i, i + Len(old) - 1) = old

(* content.split(oldString).length - 1: occurrences that do not overlap.   *)
Occurrences(text, old) ==
    LET from[i \in 1..(2 * Len(text) + Len(old) + 1)] ==
          IF i > Len(text) THEN 0
          ELSE IF MatchesAt(text, old, i) THEN 1 + from[i + Len(old)]
          ELSE from[i + 1]
    IN  from[1]

(* content.replace(oldString, ...): the first occurrence.                  *)
ReplaceFirst(text, e) ==
    LET i == CHOOSE k \in 1..Len(text) :
               /\ MatchesAt(text, e.old, k)
               /\ \A m \in 1..(k - 1) : ~MatchesAt(text, e.old, m)
    IN  SubSeq(text, 1, i - 1) \o e.new \o SubSeq(text, i + Len(e.old), Len(text))

(* One step of edits.reduce; NoPage stands for the error it throws.        *)
ApplyEdit(text, e) ==
    IF text = NoPage THEN NoPage
    ELSE IF Occurrences(text, e.old) = 1 THEN ReplaceFirst(text, e)
    ELSE NoPage

(* edits.reduce, each edit of the result of the one before.                *)
Applied(text, edits) ==
    LET after[k \in 0..Len(edits)] ==
          IF k = 0 THEN text ELSE ApplyEdit(after[k - 1], edits[k])
    IN  after[Len(edits)]

(* Texts are all that edits make of texts.                                 *)
ASSUME TextsAssumption ==
    \A text \in Texts, edits \in EditLists : \A k \in DOMAIN edits :
      ApplyEdit(text, edits[k]) \in Texts \cup {NoPage}

(* execute: the operation is put behind the pending ones.                  *)
Call(c) ==
    /\ Len(calls) + Len(pending) < MaxCalls
    /\ pending' = Append(pending, c)
    /\ UNCHANGED <<page, read, calls, failed, broken>>

(* readArtifact, the first await of an edit: a page that cannot be read is *)
(* as good as none.                                                        *)
Read ==
    /\ pending # <<>> /\ ~IsWrite(Head(pending)) /\ read = {}
    /\ read' \in {{page}, {NoPage}}
    /\ UNCHANGED <<page, pending, calls, failed, broken>>

(* What a write leaves that is cut off after it truncated the page.        *)
Beginnings(text) == {SubSeq(text, 1, n) : n \in 0..Len(text)}

EndCall ==
    /\ calls' = Append(calls, Head(pending))
    /\ pending' = Tail(pending)

Threw == failed' = failed \cup {Len(calls) + 1}

(* writeFile: it may be rejected before it truncates the page, or after.   *)
(* Nobody looks at the page in between: the next call waits for this one,  *)
(* and the attempt after a crash begins with a page of its own.            *)
WriteFile(new) ==
    /\ \/ page' = new /\ UNCHANGED <<failed, broken>>
       \/ /\ page' \in {page} \cup Beginnings(new)
          /\ Threw /\ broken' = broken \cup {Len(calls) + 1}
    /\ EndCall

(* A variant, named for the slip it makes: it shows that AllOrNothing      *)
(* rests on the order.                                                     *)
WriteAnyTime(i) ==
    /\ i \in DOMAIN pending /\ IsWrite(pending[i])
    /\ page' = pending[i].write
    /\ calls' = Append(calls, pending[i])
    /\ pending' = SubSeq(pending, 1, i - 1) \o SubSeq(pending, i + 1, Len(pending))
    /\ UNCHANGED <<read, failed, broken>>

(* Only the first of the pending calls runs.                               *)
Write(i) ==
    /\ i = 1 /\ pending # <<>> /\ IsWrite(pending[i])
    /\ WriteFile(pending[i].write)
    /\ UNCHANGED read

Edit ==
    /\ \E text \in read :
         LET new == Applied(text, Head(pending).edits)
         IN  \/ new # NoPage /\ WriteFile(new)
             \/ new = NoPage /\ Threw /\ EndCall /\ UNCHANGED <<page, broken>>
    /\ read' = {}

FilesNext ==
    \/ \E c \in WriteCalls \cup EditCalls : Call(c)
    \/ Read
    \/ \E i \in 1..MaxCalls : Write(i)
    \/ Edit

-----------------------------------------------------------------------------
(* What an edit makes, stated by the result alone: the text around the one *)
(* place is kept.                                                          *)
EditsOnce(a, b, e) ==
    \E i \in 1..Len(a) :
      /\ MatchesAt(a, e.old, i)
      /\ b = SubSeq(a, 1, i - 1) \o e.new \o SubSeq(a, i + Len(e.old), Len(a))
      /\ \A k \in 1..Len(a) : MatchesAt(a, e.old, k) /\ k # i =>
            k < i + Len(e.old) /\ i < k + Len(e.old)

EditsInOrder(a, b, edits) ==
    \E between \in [1..(Len(edits) - 1) -> Texts] :
      LET text(k) == IF k = 0 THEN a ELSE IF k = Len(edits) THEN b ELSE between[k]
      IN  \A k \in 1..Len(edits) : EditsOnce(text(k - 1), text(k), edits[k])

(* The text is what all of the call makes of the page.                     *)
Whole(c, text) ==
    IF IsWrite(c) THEN text = c.write ELSE EditsInOrder(page, text, c.edits)

WholeOrNone ==
    LET n == Len(calls')
        last == calls'[n]
    IN  IF n \notin failed' THEN Whole(last, page')
        ELSE \/ page' = page
             \/ n \in broken' /\ \E text \in Texts :
                  Whole(last, text) /\ page' \in Beginnings(text)

(* "either all apply or none do" (artifact-file.tools.ts:32): a call that  *)
(* did not throw made each of its edits, every one of a text that was      *)
(* there exactly once when its turn came, and one that threw changed       *)
(* nothing.  The code keeps this but where writeFile itself is rejected    *)
(* (:27, :65): the call throws, and the page is as it was or a beginning   *)
(* of what all of the edits would have made, never that of some of them.   *)
AllOrNothing == [][Len(calls') > Len(calls) => WholeOrNone]_filesVars
=============================================================================
