----------------------------- MODULE MCService -----------------------------
(* Two sound environments, one slip of an operator in each, and tokens of  *)
(* two people and a super-admin, some of them for both audiences.          *)
EXTENDS Service

MCDecimal == ("0" :> 0) @@ ("1" :> 1) @@ ("4" :> 4) @@ ("300" :> 300)

Plain ==
  [environment |-> "prod", database_url |-> "postgres://", database_max_connections |-> "",
   request_timeout |-> "", trusted_proxy_hops |-> "", ws_path |-> "", ws_max_frame_bytes |-> "",
   shared_auth_base |-> "auth", shared_auth_audience |-> "api", shared_auth_introspect_secret |-> "s",
   locks_fiducia_enabled |-> "", locks_pg_advisory_enabled |-> "on", locks_require_fencing |-> "",
   fiducia_base |-> "", fiducia_api_key |-> "key",
   plane |-> "", product_db |-> "db", admin_db |-> "", admin_rds |-> "",
   issuer |-> <<"customers", "">>, admin_issuer |-> Unset, allowlist |-> <<>>,
   bind |-> "0.0.0.0", allow_public_bind |-> ""]

MCDeployed ==
  [product |-> Plain,
   admin |-> [Plain EXCEPT !.plane = "admin", !.product_db = "", !.admin_db = "admindb",
                !.issuer = Unset, !.admin_issuer = <<"admins", "">>,
                !.allowlist = <<"root", "", "root">>, !.bind = "127."]]

MCSlips ==
  [environment |-> {"", "dev", "qa"}, database_url |-> {"", "mysql://"},
   database_max_connections |-> {"0", "many"}, request_timeout |-> {"soon"},
   trusted_proxy_hops |-> {"1", "300"}, ws_path |-> {"v1"}, ws_max_frame_bytes |-> {"0", "4", "300"},
   shared_auth_base |-> {""}, shared_auth_audience |-> {""}, shared_auth_introspect_secret |-> {""},
   locks_fiducia_enabled |-> {"yes", "maybe"}, locks_require_fencing |-> {"1"},
   plane |-> {"", "product", "admin"}, product_db |-> {"", "db"}, admin_db |-> {"", "admindb"},
   admin_rds |-> {"rds"}, issuer |-> {Unset, <<"customers", "/">>, <<"admins", "/">>},
   admin_issuer |-> {Unset, <<"customers", "/">>}, allowlist |-> {<<>>, <<"">>, <<"not valid", "bob">>},
   bind |-> {"0.0.0.0"}, allow_public_bind |-> {"1"}]

Ann ==
  [active |-> TRUE, issuer |-> <<"customers", "/">>, audiences |-> {"api"}, realm |-> "customer",
   scopes |-> {}, subject |-> {"ann"}, assurance_level |-> {}, expires_at |-> {2}, not_before |-> {}, size |-> 1]
Root ==
  [Ann EXCEPT !.issuer = <<"admins", "">>, !.audiences = {"admin-api"}, !.realm = "admin",
              !.subject = {"root"}, !.assurance_level = {2}]
Both == {"api", "admin-api"}

MCTokens ==
  {Ann, Root,
   [Ann EXCEPT !.subject = {"bob"}, !.not_before = {1}], [Ann EXCEPT !.subject = {"cid"}, !.expires_at = {}],
   [Ann EXCEPT !.subject = {"bob"}, !.realm = "admin", !.audiences = Both, !.assurance_level = {2}],
   [Ann EXCEPT !.subject = {"root"}, !.audiences = Both, !.assurance_level = {2}, !.expires_at = {}],
   [Root EXCEPT !.audiences = Both, !.not_before = {1}, !.expires_at = {3}],
   [Root EXCEPT !.audiences = Both, !.realm = "customer"],
   [Root EXCEPT !.assurance_level = {}], [Root EXCEPT !.subject = {}],
   [Root EXCEPT !.subject = {"not valid"}], [Ann EXCEPT !.active = FALSE], [Ann EXCEPT !.size = 2]}

MCHosts == {<<>>, <<"evil">>, <<"app", "app">>} \cup {<<l>> : l \in DOMAIN Labels}
=============================================================================
