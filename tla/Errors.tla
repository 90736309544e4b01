------------------------------- MODULE Errors -------------------------------
(***************************************************************************)
(* The errors a request can end with (crate module error): what status a   *)
(* client sees, whether the logs get details, and whether the configured   *)
(* renderer is asked.  A variant is named by its stable code(); wording is *)
(* left out.                                                               *)
(***************************************************************************)
EXTENDS Naturals

CoreStatus(code) ==
  CASE code \in {"invalid_header_name", "invalid_header_value",
                 "invalid_path_parameters"} -> 400
    [] code = "route_not_found"    -> 404
    [] code = "method_not_allowed" -> 405
    [] code = "upstream_timeout"   -> 504
    [] code \in {"no_backends_selected", "invalid_backend_index", "no_backends",
                 "invalid_upstream_uri", "upstream_request_failed"} -> 502

PipelineStatus(code) ==
  CASE code \in {"invalid_json_body", "invalid_query", "invalid_form_query",
                 "invalid_form_body"} -> 400
    [] code = "request_body_too_large" -> 413
    [] code \in {"expected_form_urlencoded", "expected_multipart_form_data"} -> 415
    [] code \in {"missing_from_scope", "request_body_already_consumed",
                 "serialize_mapped_json_failed", "serialize_mapped_query_failed",
                 "rebuild_uri_failed", "serialize_mapped_form_failed"} -> 500

(* debug_details of a pipeline error; core and user-made errors have none. *)
HasDetails(code) == code \notin {"request_body_already_consumed",
  "expected_form_urlencoded", "expected_multipart_form_data"}

HttpCode(status) ==
  CASE status = 400 -> "bad_request"
    [] status = 401 -> "unauthorized"
    [] status = 403 -> "forbidden"
    [] status = 413 -> "payload_too_large"
    [] status = 415 -> "unsupported_media_type"
    [] status = 500 -> "internal"
    [] status = 502 -> "bad_gateway"
    [] status = 504 -> "gateway_timeout"
    [] OTHER -> IF status \in 400 .. 499 THEN "client_error"
                ELSE IF status \in 500 .. 599 THEN "server_error" ELSE "http_error"

ErrorOf(family, code, status, details) ==
  [family |-> family, code |-> code, status |-> status, details |-> details]

Core(code)     == ErrorOf("core", code, CoreStatus(code), FALSE)
Pipe(code)     == ErrorOf("pipeline", code, PipelineStatus(code), HasDetails(code))
Http(status)   == ErrorOf("http", HttpCode(status), status, FALSE)
Custom(status) == ErrorOf("custom", "custom", status, FALSE)
NoError        == ErrorOf("none", "none", 0, FALSE)

(* Every error: those of the two enums, and any status a handler picks. *)
CoreCodes ==
  {"invalid_header_name", "invalid_header_value", "invalid_path_parameters", "route_not_found",
   "method_not_allowed", "upstream_timeout", "no_backends_selected", "invalid_backend_index",
   "no_backends", "invalid_upstream_uri", "upstream_request_failed"}
PipelineCodes ==
  {"invalid_json_body", "invalid_query", "invalid_form_query", "invalid_form_body",
   "request_body_too_large", "expected_form_urlencoded", "expected_multipart_form_data",
   "missing_from_scope", "request_body_already_consumed", "serialize_mapped_json_failed",
   "serialize_mapped_query_failed", "rebuild_uri_failed", "serialize_mapped_form_failed"}
AnyError == {Core(c) : c \in CoreCodes} \union {Pipe(c) : c \in PipelineCodes}
            \union {Http(s) : s \in 100 .. 599} \union {Custom(s) : s \in 100 .. 599}

IsFramework(e)   == e.family \in {"core", "pipeline", "http"}
IsServerError(e) == e.status \in 500 .. 599

(* into_response_with: a framework error goes through the renderer, here   *)
(* the default one, which shows the user message; a custom one bypasses it *)
Render(e) == [status |-> e.status,
              text   |-> IF IsFramework(e) THEN "user_message" ELSE "custom"]
=============================================================================
