-------------------------- MODULE MCUnifyPipeline --------------------------
(* Small instances of UnifyPipeline for TLC. *)
EXTENDS UnifyPipelineRefinement, TLC

CONSTANTS server, cli

(* Requests to one server. *)
OneProcess == {server}
ServerHome == [c \in Caller |-> server]

(* One request to the server while a CLI command runs beside it. *)
TwoProcesses == {server, cli}
SplitHome == ("c1" :> server) @@ ("c2" :> cli)

(* Keys improve leaves alone, and keys of which it maps "wz" to "w". *)
Unchanged == [w \in Word |-> w]
Collapsing == [w \in Word |-> "w"]

(* What parsers find: always one word; one word or both; either or none. *)
One == {{"w"}}
SomeWords == {{"w"}, {"w", "wz"}}
EitherOrNone == {{}, {"w"}, {"wz"}}

(* Nothing is parsed yet; or every dictionary is. *)
NoneParsed == {[s \in Slug |-> Absent]}
AllParsed == [Slug -> ParserOutput]
=============================================================================
