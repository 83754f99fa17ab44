---------------------------- MODULE MergeHistory ----------------------------
(***************************************************************************)
(* What the unify pipeline promises, with no file, process or await in     *)
(* sight: one current set of unified rows and a history of versions.  Each *)
(* operation is a single step.  UnifyPipelineRefinement shows that         *)
(* UnifyPipeline implements it.                                            *)
(***************************************************************************)
EXTENDS Integers, Sequences

CONSTANTS
    Slug,               \* the dictionaries
    ParserOutput,       \* sets of keys a dictionary may contribute
    Merge(_, _, _),     \* rows after merging the keys of a dictionary
    OneRowPerKey(_),    \* what is kept of rows that share a key
    CleanRows(_),       \* rows after improve
    SourcesOf(_)        \* the dictionaries rows come from

VARIABLES
    current,    \* the unified rows
    history     \* the versions merged so far, oldest first

Init == current = {} /\ history = <<>>

(* A dictionary not yet in the rows is merged: a new version. *)
Add(s, words) ==
    /\ s \notin SourcesOf(current)
    /\ \E base \in OneRowPerKey(current) :
          current' = Merge(base, s, words)
    /\ history' = Append(history, [slug |-> s, rows |-> current'])

(* Back to the version of step n, and later ones are forgotten. *)
RollbackTo(n) ==
    /\ current' = IF n = 0 THEN {} ELSE history[n].rows
    /\ history' = SubSeq(history, 1, n)

Reset == current' = {} /\ history' = <<>>

(* The rows are cleaned; the versions stay as they were. *)
Improve == current' = CleanRows(current) /\ UNCHANGED history

Next ==
    \/ \E s \in Slug, words \in ParserOutput : Add(s, words)
    \/ \E n \in 0..Len(history) : RollbackTo(n)
    \/ Reset
    \/ Improve

Spec == Init /\ [][Next]_<<current, history>>
=============================================================================
