---------------------------- MODULE MCRegistration ----------------------------
(* Setups for Registration; see the README for what each of them is for. *)
EXTENDS Registration

AppKeys == {"db", "repo", "Repo", "readRepo", "Repos", "Svc", "Int", "port"}
\* Annotations: the service needs a repository, the repository the database.
Base(given, jobs) ==
  [jobs |-> jobs, checked |-> TRUE, failing |-> {}, fallback |-> TRUE, maxDepth |-> 2, sources |-> {<<>>},
   given |-> [k \in Keys |-> IF k \in DOMAIN given THEN given[k] ELSE NoEntry],
   kind |-> [k \in Keys |-> CASE k = "Svc" -> "injectable" [] k = "Repo" -> "class"
               [] k = "readRepo" -> "class" [] k = "Repos" -> "collection"
               [] k = "Int" -> "rejected" [] OTHER -> "name"],
   annotated |-> [k \in Keys |-> CASE k = "Svc" -> <<"Repo">>
                    [] k \in {"Repo", "readRepo"} -> <<"Int">> [] OTHER -> <<>>],
   members |-> [k \in Keys |-> CASE k = "Repos" -> {"Repo", "readRepo"}
                  [] k = "Repo" -> {"readRepo"} [] OTHER -> {}]]
Rules(k, deps) == [key |-> k, deps |-> deps]
InstallJob(strict, items) == [do |-> "install", strict |-> strict, items |-> items]
\* All references are needed; an aggregate takes what it gets.
AssignJob(provider, name, class, refs) ==
  [do |-> "assign", provider |-> provider, name |-> name, class |-> class, refs |-> refs,
   needs |-> IF provider \in {"ListOf", "SetOf", "DictOf"} THEN 0 ELSE Len(refs)]
Ref(k, form) == [key |-> k, form |-> form]
GetJob(k) == [do |-> "get", key |-> k]
ScanJob(ks) == [do |-> "scan", classes |-> ks]
ConfigJob(k) == [do |-> "config", name |-> k]


\* Two threads register rules that close a cycle together, and others.
Crossing ==
  {Base([db |-> <<"Int">>],
     [a |-> <<InstallJob(s, <<Rules("repo", <<"Svc">>), Rules("db", <<"repo">>)>>)>>,
      b |-> <<InstallJob(FALSE, <<Rules("Svc", <<x>>), Rules("Int", <<>>)>>), GetJob("db")>>])
   : s \in BOOLEAN, x \in {"repo", "db"}}
\* Types are wired while the application registers and scans.
Wiring ==
  {Base([Int |-> <<>>],
     [a |-> <<GetJob(x), GetJob(y)>>,
      b |-> <<InstallJob(FALSE, <<Rules("readRepo", <<>>)>>), ScanJob(<<"Svc", "Repo">>)>>])
   : x \in {"Svc", "Repos"}, y \in {"Svc", "Repo"}}
\* Types that cannot be wired, annotations that form a cycle, and cycles found
\* only when they are resolved.
Refusals ==
  LET app == Base([db |-> <<"Svc">>], [a |-> <<GetJob("db"), GetJob("Repo")>>, b |-> <<GetJob("Svc")>>])
      bad == [app EXCEPT !.kind["Int"] = "unannotated",
                         !.jobs["b"] = <<ScanJob(<<"Svc", "Int">>), GetJob("Repos")>>]
  IN {app, bad, [app EXCEPT !.fallback = FALSE], [bad EXCEPT !.maxDepth = 1],
      [app EXCEPT !.annotated["Repo"] = <<"Svc">>],
      [app EXCEPT !.annotated["Repo"] = <<"Svc">>, !.checked = FALSE],
      [app EXCEPT !.annotated["Repo"] = <<"db">>, !.checked = FALSE]}
\* Providers whose references are bound by the other thread meanwhile, or are
\* their own class.
Providing ==
  {Base([Int |-> <<>>],
     [a |-> <<AssignJob("Value", "db", NoKey, <<>>),
              AssignJob(p, "repo", "Repo", <<Ref("db", "attribute"), Ref(x, "key")>>), GetJob("Repo")>>,
      b |-> <<AssignJob(q, "port", NoKey, <<Ref("repo", "attribute")>>), GetJob("port")>>])
   : p \in {"Factory", "Scoped"}, q \in {"Alias", "ListOf"}, x \in {"Repo", "Int"}}
\* The configuration's source changes while it and others are registered.
Configuring ==
  {[Base([Int |-> <<>>],
      [a |-> <<ConfigJob("db"), ConfigJob("db")>>,
       b |-> <<InstallJob(FALSE, <<Rules(x, <<>>)>>), GetJob("port")>>])
     EXCEPT !.sources = {<<"port">>, <<"port", "repo">>}] : x \in {"port", "repo"}}
\* A collection of a class that is made up on the way, a class that needs the
\* collection it is in, and a get after adds that were mixed.
Detours ==
  {Base([db |-> <<"Repo", "Repos">>, Int |-> <<>>], [a |-> <<GetJob("db")>>, b |-> <<>>]),
   [Base([Int |-> <<>>], [a |-> <<GetJob("Repo")>>, b |-> <<>>]) EXCEPT !.annotated["Repo"] = <<"Repos">>],
   [Base([Int |-> <<>>, db |-> <<"port">>, port |-> <<>>],
      [a |-> <<InstallJob(FALSE, <<Rules("port", <<"db">>)>>)>>,
       b |-> <<InstallJob(FALSE, <<Rules("Int", <<"Svc">>)>>), GetJob("Svc")>>])
    EXCEPT !.annotated["Svc"] = <<"Int">>]}
\* Factories that raise, at the end or on the way, for gets that made up rules
\* and built instances before that; and a reference that has no key.
Raising ==
  {[Base([Int |-> <<>>, db |-> <<"Repo">>],
      [a |-> <<GetJob("Svc"), GetJob("db")>>,
       b |-> <<AssignJob(p, "port", NoKey, <<Ref("repo", "unassigned")>>), GetJob(x)>>])
    EXCEPT !.failing = {f}]
   : f \in {"Svc", "Repo"}, p \in {"Factory", "ListOf"}, x \in {"Repos", "Svc"}}
AllSetups == Crossing \cup Wiring \cup Refusals \cup Providing \cup Configuring \cup Detours
               \cup Raising
=============================================================================
