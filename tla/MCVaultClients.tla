--------------------------- MODULE MCVaultClients ---------------------------
(* Instances of VaultClients for TLC.                                       *)
EXTENDS VaultClients

CONSTANTS user, password, short, pinned, prefixed, bare, plain, azure, aws,
          filed, p1, p2, n1, full, empty

\* Two keys of one HashiCorp secret; five Google paths of one secret, one
\* pinned and two without a version; an AWS secret; and two backends that lack
\* a setting.
AllRows ==
  {user, password, short, pinned, prefixed, bare, plain, azure, aws, filed}
GoogleRows == {short, prefixed}

Path(type, form, project, version, k) ==
  [provider |-> type, form |-> form, project |-> project, name |-> n1,
   version |-> version, key |-> k]
G == "google_cloud_secret_manager"
AddressOf(r) ==
  CASE r = user     -> Path("hashicorp", "", p1, NoVersion, "user")
    [] r = password -> Path("hashicorp", "", p1, NoVersion, "value")
    [] r = short    -> Path(G, "", p1, NoVersion, "user")
    [] r = pinned   -> Path(G, "projects/", p1, 1, "value")
    [] r = prefixed -> Path(G, "secrets/", p1, Latest, "value")
    [] r = bare     -> Path(G, "projects/", p1, NoVersion, "value")
    [] r = plain    -> Path(G, "secrets/", p1, NoVersion, "value")
    [] r = filed    -> Path(G, "", p1, Latest, "value")
    [] r = azure    -> Path("azure_key_vault", "", p1, NoVersion, "user")
    [] r = aws      -> Path("aws_secrets_manager", "", p1, NoVersion, "value")
Paths == [r \in Rows |-> AddressOf(r)]

With(kind, keys) ==
  [key \in Settings |-> IF key \in keys THEN kind ELSE "absent"]
Nothing == With("value", {})
Block(name, alias, rest) == [byName |-> name, byAlias |-> alias, extra |-> rest]

\* The JSON of pinned names no project, which its path does not need.  The
\* empty project_id of filed hides the one in extra_config, and its block the
\* one of the alias.
ConfigOf(r) ==
  CASE r \in {user, password} ->
         Block(With("value", {"token"}), NoBlock, Nothing)
    [] r \in {short, prefixed, plain} ->
         Block(NoBlock, With("names_project", {"service_account_json"}), Nothing)
    [] r \in {pinned, bare} ->
         Block(NoBlock, NoBlock, With("value", {"service_account_json"}))
    [] r = filed ->
         Block([With("value", {"service_account_file"})
                  EXCEPT !["project_id"] = "empty"],
               With("value", {"project_id"}), With("value", {"project_id"}))
    [] r = azure ->
         Block(With("value", {"tenant_id"}), With("value", {"access_token"}),
               With("value", {"client_id"}))
    [] r = aws ->
         Block(NoBlock, With("value", {"access_key_id", "secret_access_key"}),
               With("value", {"endpoint_region"}))
Configs == [r \in Rows |-> ConfigOf(r)]

TwoProjects == {p1, p2}
OneName == {n1}
TwoKeys == {"user", "value"}
Texts == {full, empty}
NoEvents == {}
AllEvents == EventKinds
=============================================================================
