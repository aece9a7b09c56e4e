----------------------------- MODULE MCTechLead ------------------------------
(***************************************************************************)
(* Two clients, one task to work on and one item of the backlog.  The      *)
(* model's criteria: a query that must return a row and then a status, or  *)
(* a metric, an endpoint and a test; the fallback's is a pattern in the    *)
(* commits.                                                                *)
(***************************************************************************)
EXTENDS TechLead

CONSTANTS i1, i2

MCRank == [i \in Items |-> IF i = i1 THEN 0 ELSE 1]

Http == [kind |-> "http", url |-> "u", expected_status |-> Absent,
         response_contains |-> "text"]
Db == [kind |-> "db", query |-> "q", expect_min_rows |-> 1, expect_value |-> Absent]
Value == [kind |-> "db", query |-> "q", expect_min_rows |-> Absent, expect_value |-> "v"]
Metric == [kind |-> "metric", metric_name |-> "m", metric_min_value |-> Absent]
Git == [kind |-> "git", git_file_exists |-> Absent, git_pattern |-> "p"]
Test == [kind |-> "test", pytest_path |-> "t"]
Endpoint == [kind |-> "endpoint_exists", openapi_path |-> "/p", openapi_method |-> Absent]

MCFallback == <<Git>>
MCCriteria == {MCFallback, <<Db, Value, Http>>, <<Metric, Endpoint, Test>>}

MCFound ==
    [http            |-> {Broken} \cup [status : {200, 404}, contains : {{}, {"text"}}],
     db              |-> {Broken, <<>>, <<"v">>},
     metric          |-> {Broken, {}, {0, 3}},
     git             |-> [files : {{}}, log : {Broken, {}, {"p"}}],
     test            |-> {Broken, 0, 1},
     endpoint_exists |-> {Broken, {}, {<<"/p", "get">>}}]
==============================================================================
