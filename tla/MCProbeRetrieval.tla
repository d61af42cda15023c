--------------------------- MODULE MCProbeRetrieval ---------------------------
(***************************************************************************)
(* A route, a chunk within it and its neighbour; a service it calls and a  *)
(* token of it; a repository; a test helper.  And four chunks of a file,   *)
(* two routes and the two chunks after them.                               *)
(***************************************************************************)
EXTENDS ProbeRetrieval, MCReviewPlan

Text(words) == [words |-> words, parses |-> FALSE, decodes |-> {}, logged |-> {},
                sinks |-> {}, inLoops |-> {}]

MCPaths == <<"api.py", "auth.py", "db.py", "tests.py">>

MCHints == [f \in ToSet(MCPaths) |->
  CASE f = "api.py" -> {"api"} [] f = "auth.py" -> {"auth"} [] f = "db.py" -> {"db"}
    [] OTHER -> {"/tests/"}]

MCSlug == [f \in ToSet(MCPaths) \cup {"r1", "r2"} |->
  CASE f = "api.py" -> "api_py" [] f = "auth.py" -> "auth_py" [] f = "db.py" -> "db_py"
    [] f = "tests.py" -> "tests_py"
    [] OTHER -> f]

Chunk(file, index, first, last, risk, function, mentions, text) ==
  [file |-> file, index |-> index, first |-> first, last |-> last, risk |-> risk,
   path |-> MCHints[file], language |-> "python", type |-> "function", function |-> function,
   class |-> NoValue, mentions |-> mentions, words |-> mentions \cup {function}, text |-> Text(text)]

Route   == Chunk("api.py", 0, 1, 9, "api", "route", {"login"}, {"@router.", "execute(", " + "})
Inner   == Chunk("api.py", 1, 3, 6, "api", "inner", {}, {"execute(", "f-string"})
Helper  == Chunk("api.py", 2, 10, 12, "api", "helper", {"save"}, {"commit("})
Login   == Chunk("auth.py", 0, 1, 5, "security", "login", {"token"}, {"password", "except", "commit("})
Schema  == Chunk("auth.py", 1, 6, 6, "security", "token", {"login"}, {"password", "basemodel"})
Save    == Chunk("db.py", 0, 1, 8, "database", "save", {}, {"except", "commit(", "select("})

Engine  == Chunk("tests.py", 0, 1, 4, "general", "engine", {}, {"create_engine(", "def "})

List   == Chunk("api.py", 0, 1, 9, "api", "list", {}, {"@router.", "execute("})
Create == Chunk("api.py", 1, 10, 19, "api", "create", {}, {"@router.", "commit(", "except"})
Read   == Chunk("api.py", 2, 20, 29, "api", "read", {}, {"execute(", "f-string"})
Drop   == Chunk("api.py", 3, 30, 39, "api", "drop", {}, {"commit("})

MCCorpora ==
  { <<Route, Inner, Helper, Login, Schema, Save, Engine>>, <<Engine>>, <<Login, Save, Route>>,
    <<List, Create, Read, Drop>> }

MCBaseline ==
  << BaselineProbe("bug.state_transaction_consistency", "bug", "medium", NoValue),
     BaselineProbe("maintainability.resource_lifecycle", "maintainability", "low", NoValue),
     BaselineProbe("security.sql_nosql_injection", "security", "high", NoValue) >>

MCRules ==
  { [id |-> "r1", week |-> "GEN", priority |-> "p1", needsAi |-> TRUE, rank |-> 2,
     check |-> NoValue, terms |-> {"jwt"}],
    [id |-> "r2", week |-> "2", priority |-> "p0", needsAi |-> FALSE, rank |-> 1,
     check |-> "required_file", terms |-> {"tests"}] }

MCProfiles == { NoValue, [weeks |-> NoValue] }

Score(s, b, e) == [semantic |-> s, bm25 |-> b, exact |-> e]

MCHits ==
  { [n \in 0..3 |-> Score(0, 0, 0)],
    [n \in 0..3 |-> IF n = 0 THEN Score(90, 100, 50) ELSE Score(0, 10, 0)],
    [n \in 0..3 |-> IF n = 0 THEN Score(0, 20, 0) ELSE Score(60, 100, 100)] }

MCIdOrder == << "bug.state_transaction_consistency", "coverage.api_py", "coverage.auth_py",
  "coverage.db_py", "maintainability.resource_lifecycle", "roadmap.r1", "roadmap.r2", "security.sql_nosql_injection" >>

MCLaneMax == [defect |-> 4, coverage |-> 4, roadmap |-> 3]

=============================================================================
