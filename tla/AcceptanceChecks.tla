-------------------------- MODULE AcceptanceChecks ---------------------------
(***************************************************************************)
(* The evaluator of the tech lead (tech_lead/evaluator.py): when a check   *)
(* passes, given what it finds.  A check is a record of the fields its     *)
(* kind reads (tech_lead/models.py, AcceptanceCheck), Absent where the     *)
(* model left one out; what it finds is the answer, or Broken when the     *)
(* service, the query or the command fails.                                *)
(***************************************************************************)
EXTENDS Integers, Sequences, FiniteSets

CONSTANTS Absent,  \* a field that is None
          Broken   \* nothing was found: the attempt failed

Given(field) == field # Absent

OrElse(field, default) == IF Given(field) THEN field ELSE default

\* Status 0 counts as absent: expected_status or 200.
ExpectedStatus(check) ==
    LET s == OrElse(check.expected_status, 0) IN IF s = 0 THEN 200 ELSE s

CheckHttp(check, answer) ==
    /\ Given(check.url)
    /\ answer # Broken
    /\ answer.status = ExpectedStatus(check)
    /\ Given(check.response_contains) => check.response_contains \in answer.contains

\* The bars are each optional: with neither, any query that runs passes.
CheckDb(check, rows) ==
    /\ Given(check.query)
    /\ rows # Broken
    /\ Given(check.expect_min_rows) => Len(rows) >= check.expect_min_rows
    /\ Given(check.expect_value) => rows # <<>> /\ rows[1] = check.expect_value

\* The largest sample of the metric, over its labels, has to reach the bar.
CheckMetric(check, samples) ==
    /\ Given(check.metric_name)
    /\ samples # Broken
    /\ \E m \in samples : m >= OrElse(check.metric_min_value, 0)

\* A file to look for comes before a pattern in the last commits.
CheckGit(check, repo) ==
    IF Given(check.git_file_exists)
    THEN check.git_file_exists \in repo.files
    ELSE /\ Given(check.git_pattern)
         /\ repo.log # Broken
         /\ check.git_pattern \in repo.log

CheckTest(check, run) ==
    /\ Given(check.pytest_path)
    /\ run # Broken
    /\ run = 0

\* Routes are pairs of a path, its placeholders made equal, and a method.
CheckEndpoint(check, routes) ==
    /\ Given(check.openapi_path)
    /\ routes # Broken
    /\ <<check.openapi_path, OrElse(check.openapi_method, "get")>> \in routes

Passes(check, found) ==
    CASE check.kind = "http"            -> CheckHttp(check, found)
      [] check.kind = "db"              -> CheckDb(check, found)
      [] check.kind = "metric"          -> CheckMetric(check, found)
      [] check.kind = "git"             -> CheckGit(check, found)
      [] check.kind = "test"            -> CheckTest(check, found)
      [] check.kind = "endpoint_exists" -> CheckEndpoint(check, found)
==============================================================================
