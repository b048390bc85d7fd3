------------------------------ MODULE Builtins ------------------------------
(***************************************************************************)
(* The built-in tools of odin-tools: one definition per tool, holding what *)
(* its Tool implementation decides for every call. That is how a call is   *)
(* carried out, the programs it starts one after the other, the directory  *)
(* check it makes first, whose clock limits it, and the flags the catalog  *)
(* and the permission policy read. Names, descriptions, tags and the       *)
(* layout of the output are left out.                                      *)
(***************************************************************************)
EXTENDS Naturals, Sequences

\* How a tool does its work: it runs programs, touches the file system,
\* sends HTTP requests, or computes an answer from its arguments alone.
Command(name, programs, check, clock, approval, safe) ==
  [name |-> name, via |-> "command", programs |-> programs, check |-> check,
   clock |-> clock, approval |-> approval, safe |-> safe]

FileTool(name, via, check, approval, safe) ==
  [name |-> name, via |-> via, programs |-> <<>>, check |-> check,
   clock |-> "none", approval |-> approval, safe |-> safe]

WebTool(name, approval, safe) ==
  [name |-> name, via |-> "http", programs |-> <<>>, check |-> "none",
   clock |-> "http", approval |-> approval, safe |-> safe]

Computed(name, answers, approval, safe) ==
  [name |-> name, via |-> "compute", programs |-> <<>>, check |-> "none", clock |-> "none",
   approval |-> approval, safe |-> safe, answers |-> answers]

FileRead    == FileTool("file_read", "read", "read", FALSE, TRUE)
FileWrite   == FileTool("file_write", "write", "write", TRUE, FALSE)
FileDelete  == FileTool("file_delete", "delete", "write", TRUE, FALSE)
FileExists  == FileTool("file_exists", "exists", "read", FALSE, TRUE)
FileList    == Command("file_list", <<"ls or find">>, "read", "budget", FALSE, TRUE)

Shell       == Command("shell", <<"sh">>, "write", "asked", TRUE, FALSE)
Git         == Command("git", <<"git">>, "write", "asked", TRUE, FALSE)
SystemInfo  == Command("system_info", <<"uname", "free">>, "none", "budget", FALSE, TRUE)
DiskUsage   == Command("disk_usage", <<"df">>, "none", "budget", FALSE, TRUE)
ProcessList == Command("process_list", <<"ps">>, "none", "budget", TRUE, TRUE)
NetworkPing == Command("network_ping", <<"ping">>, "count", "budget", FALSE, TRUE)

GithubIssueCreate   == Command("github_issue_create", <<"gh issue create">>, "none", "fixed", TRUE, FALSE)
GithubIssueSearch   == Command("github_issue_search", <<"gh issue list">>, "none", "fixed", FALSE, TRUE)
GithubPrCreate      == Command("github_pr_create", <<"gh pr create">>, "none", "fixed", TRUE, FALSE)
GithubPrStatus      == Command("github_pr_status", <<"gh pr view or list">>, "none", "fixed", FALSE, TRUE)
GithubActionsStatus == Command("github_actions_status", <<"gh run list">>, "none", "fixed", FALSE, TRUE)

WebFetch    == WebTool("web_fetch", FALSE, TRUE)
WebSearch   == WebTool("web_search", FALSE, TRUE)
HttpRequest == WebTool("http_request", TRUE, FALSE)

JsonExtract  == Computed("json_extract", {"ok", "refused"}, FALSE, TRUE)
EnvVar       == Computed("env_var", {"ok"}, TRUE, FALSE)
TimeNow      == Computed("time_now", {"ok"}, FALSE, TRUE)
RandomNumber == Computed("random_number", {"ok", "failed"}, FALSE, TRUE)
JsonValidate == Computed("json_validate", {"ok"}, FALSE, TRUE)
TextSearch   == Computed("text_search", {"ok", "failed"}, FALSE, TRUE)

\* builtin_registry registers them all, or the enabled ones.
Catalog ==
  {FileRead, FileWrite, FileDelete, FileExists, FileList, Shell, Git,
   SystemInfo, DiskUsage, ProcessList, NetworkPing, GithubIssueCreate,
   GithubIssueSearch, GithubPrCreate, GithubPrStatus, GithubActionsStatus,
   WebFetch, WebSearch, HttpRequest, JsonExtract, EnvVar, TimeNow,
   RandomNumber, JsonValidate, TextSearch}

\* The programs that change something beyond their own output.
Changing == {"sh", "git", "gh issue create", "gh pr create"}

Lowest(a, b) == IF a <= b THEN a ELSE b
AtLeastOne(n) == IF n = 0 THEN 1 ELSE n

\* The seconds a command may take: what the caller asked for, a fixed
\* minute, or the whole budget of a tool call, and never more than that.
Limit(tool, asked, budget) ==
  CASE tool.clock = "asked" -> Lowest(AtLeastOne(asked), AtLeastOne(budget))
    [] tool.clock = "fixed" -> Lowest(60, AtLeastOne(budget))
    [] tool.clock = "http"  -> Lowest(30, AtLeastOne(budget))
    [] OTHER                -> AtLeastOne(budget)
=============================================================================
