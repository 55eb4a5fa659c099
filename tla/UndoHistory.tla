---------------------------- MODULE UndoHistory ----------------------------
(***************************************************************************)
(* What the undo of gschem promises the user, without records, undo files, *)
(* moves in progress or trimming rules: a document, the states it can go   *)
(* back and forth to, and a flag that warns of unsaved changes.            *)
(***************************************************************************)
EXTENDS Integers, Sequences

CONSTANTS
    Content,  \* what a document can be
    Levels    \* how many states are kept at least, once there are as many

VARIABLES
    doc,    \* the document
    hist,   \* its states, oldest first
    pos,    \* which of them the document is
    file,   \* the document as last saved
    dirty   \* the user is warned before the document is discarded

vars == <<doc, hist, pos, file, dirty>>

(* A state not marked dirty is the saved one; an equal state may be marked. *)
HonestFlag == dirty \/ doc = file

Init ==
    /\ doc \in Content
    /\ hist = <<doc>>
    /\ pos = 1
    /\ file = doc
    /\ dirty = FALSE

(* Old states may be forgotten at any time a new one is added. *)
Recent(h) ==
    {SubSeq(h, n + 1, Len(h)) :
        n \in {0} \cup {k \in 1..(Len(h) - 1) : Len(h) - k >= Levels}}

(* c becomes the state after the i oldest ones; the later ones are lost.    *)
Add(i, c) ==
    /\ doc' = c
    /\ hist' \in Recent(Append(SubSeq(hist, 1, i), c))
    /\ pos' = Len(hist')
    /\ file' = file
    /\ HonestFlag'

Record == \E c \in Content : Add(pos, c)

(* The newest state is replaced: it was a provisional one. *)
Amend == \E c \in Content : pos > 1 /\ Add(pos - 1, c)

GoTo(i) ==
    /\ i \in DOMAIN hist
    /\ doc' = hist[i]
    /\ pos' = i
    /\ UNCHANGED <<hist, file>>
    /\ HonestFlag'

Undo == GoTo(pos - 1)
Redo == GoTo(pos + 1)

Save ==
    /\ file' = doc
    /\ dirty' = FALSE
    /\ UNCHANGED <<doc, hist, pos>>

(* The warning may be raised without a reason the history shows. *)
Touch ==
    /\ dirty' = TRUE
    /\ UNCHANGED <<doc, hist, pos, file>>

Next == Record \/ Amend \/ Undo \/ Redo \/ Save \/ Touch

Spec == Init /\ [][Next]_vars
=============================================================================
