---------------------------- MODULE MCAdminPlane ----------------------------
(* Two callers, two actions of two admins; deployments with one mistake in  *)
(* the configuration, one whose URL says more than validate looks at, and  *)
(* database roles with one privilege too many.                             *)
EXTENDS AdminPlane

Url == [scheme |-> "postgres", host |-> "admindb", username |-> "api", fragment |-> FALSE,
        path |-> <<"control">>, query |-> <<<<"sslmode", "verify-full">>>>]
Config == [database_url |-> Url, expected_host |-> "admindb", expected_database |-> "control",
           expected_role |-> "api"]
MCIdentifiers == {"api", "control", "owner", "customers"}
MCConfigs ==
  {[Config EXCEPT !.database_url = url] : url \in
     {Url, [Url EXCEPT !.scheme = "mysql"], [Url EXCEPT !.host = "customerdb"],
      [Url EXCEPT !.username = "owner"], [Url EXCEPT !.fragment = TRUE], [Url EXCEPT !.path = <<>>],
      [Url EXCEPT !.path = <<"control", "x">>], [Url EXCEPT !.query = <<>>],
      [Url EXCEPT !.query = Append(@, <<"sslmode", "disable">>)],
      [Url EXCEPT !.query = <<<<"application_name", "admin">>>> \o @]}}
  \cup {[Config EXCEPT !.expected_role = "api-2", !.database_url.username = "api-2"],
        [Config EXCEPT !.expected_host = "customerdb"], [Config EXCEPT !.expected_database = "customers"]}
Session == [role |-> "api", database |-> "control", attributes |-> {}, transaction_read_only |-> "off"]
MCSessions ==
  {Session, [Session EXCEPT !.role = "owner"], [Session EXCEPT !.database = "customers"],
   [Session EXCEPT !.transaction_read_only = "on"]}
    \cup {[Session EXCEPT !.attributes = {a}] : a \in UnsafeRole}
MCPrincipals == [root |-> {"super_admin"}, op |-> {"admin:write", "admin:read"}, aud |-> {"admin:read"}]
MCActor == (CHOOSE p \in Payloads : TRUE) :> "root" @@ [p \in Payloads |-> "op"]
=============================================================================
