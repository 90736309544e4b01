------------------------------ MODULE Observer ------------------------------
(***************************************************************************)
(* observability.rs: what default_tracing_observer writes for a runtime    *)
(* event.  A line is its target, its level and whether it carries the      *)
(* details of an error; verbosity is the least severe level enabled.       *)
(***************************************************************************)
EXTENDS Sequences, Errors

Severity == [debug |-> 1, info |-> 2, warn |-> 3]
Enabled(level, verbosity) == Severity[level] >= Severity[verbosity]

Line(target, level, details) == [target |-> target, level |-> level, details |-> details]
Write(line, verbosity) == IF Enabled(line.level, verbosity) THEN <<line>> ELSE <<>>

FailureLineAbove500(target, e) == Line(target, IF e.status > 500 THEN "warn" ELSE "info", FALSE)
FailureLine(target, e) == Line(target, IF IsServerError(e) THEN "warn" ELSE "info", FALSE)
CustomFailureLine(e) == FailureLine("pipeline", e)
DetailLines(target, e, verbosity) ==
  IF e.details THEN Write(Line(target, "debug", TRUE), verbosity) ELSE <<>>

Observe(kind, e, verbosity) ==
  CASE kind = "RequestStart"      -> Write(Line("request", "debug", FALSE), verbosity)
    [] kind = "BackendSelected"   -> Write(Line("balancer", "debug", FALSE), verbosity)
    [] kind = "UpstreamSucceeded" -> Write(Line("proxy", "debug", FALSE), verbosity)
    [] kind = "UpstreamFailed"    -> Write(Line("proxy", "warn", FALSE), verbosity)
    [] kind = "PipelineFailedCustom"    -> Write(CustomFailureLine(e), verbosity)
    [] kind = "PipelineFailedFramework" -> Write(FailureLine("pipeline", e), verbosity)
                                           \o DetailLines("pipeline", e, verbosity)
    [] kind = "DispatchFailed"          -> Write(FailureLine("dispatch", e), verbosity)
                                           \o DetailLines("dispatch", e, verbosity)
=============================================================================
