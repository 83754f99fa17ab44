---------------------- MODULE UnifyPipelineRefinement ----------------------
(***************************************************************************)
(* With one process and no fault, UnifyPipeline implements MergeHistory:   *)
(* the many file writes of an operation look like one step of it, and an   *)
(* operation that throws like none.                                        *)
(*                                                                         *)
(* An operation takes effect when it first destroys the old unified.json   *)
(* (Save, Restore, Unlink, OpenImproved): past that point nothing but a    *)
(* fault stops it, so the rows and the log it is about to write count as   *)
(* written.                                                                *)
(***************************************************************************)
EXTENDS UnifyPipeline

At(c, places) == pc[c] \in places

(* unified.json, as it will be once the write in progress is over. *)
AbstractCurrent ==
    IF \E c \in Caller : At(c, {"saveWrite", "improveWrite"})
    THEN local[CHOOSE c \in Caller : At(c, {"saveWrite", "improveWrite"})].rows
    ELSE IF \E c \in Caller : At(c, {"restoreWrite"})
    THEN LastRows(local[CHOOSE c \in Caller : At(c, {"restoreWrite"})].log)
    ELSE RowsIn(unified)

LogPending == {"saveWrite", "snap", "snapWrite", "restoreWrite",
               "logOpen", "logWrite"}

(* merge_log.json, as it will be once the operation in progress is over. *)
AbstractHistory ==
    IF \E c \in Caller : At(c, LogPending)
    THEN local[CHOOSE c \in Caller : At(c, LogPending)].log
    ELSE IF \E c \in Caller : At(c, {"rmdir"})
    THEN <<>>
    ELSE MergeLog

History == INSTANCE MergeHistory
    WITH current <- AbstractCurrent, history <- AbstractHistory

(* Every behaviour of the pipeline is one of the abstract history: each    *)
(* unify-step adds exactly one version, each rollback restores exactly the *)
(* version asked for and drops those after it, reset forgets all, improve  *)
(* touches the current rows only, and a refused or failed call nothing.    *)
ImplementsHistory == History!Spec
=============================================================================
