----------------------------- MODULE MCPipeline -----------------------------
(***************************************************************************)
(* The requests of the run of Pipeline. One is for the sinkhole, whose runs *)
(* have the most to do and to wait for; an upload, or a command to execute  *)
(* last, comes with every other network, for neither has to do with it.     *)
(***************************************************************************)
EXTENDS Pipeline

ToSinkhole == {[network |-> "sinkhole", upload |-> FALSE, command |-> FALSE]}
ToOthers == {r \in Requests : r.network # "sinkhole" /\ (r.upload \/ r.command)}

MCAsked == ToSinkhole \cup ToOthers
=============================================================================
