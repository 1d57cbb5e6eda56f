---------------------------- MODULE VaultClients ----------------------------
(***************************************************************************)
(* The clients of backends.py and what they address: fetch_secret and      *)
(* store_secret of the four providers against a vault that keeps every     *)
(* version of a secret, used by several rows and by outsiders.             *)
(*                                                                         *)
(* A path is its parts, and a document is what one version of a secret     *)
(* holds under each key; only HashiCorp documents have more than one.      *)
(* URLs, headers and encodings are left out, and so is a request that      *)
(* fails, which changes nothing.  The containers of upstream secrets exist *)
(* (Google and AWS refuse to store into one that does not).                *)
(***************************************************************************)
EXTENDS Integers, Sequences, FiniteSets

CONSTANTS
  Rows,           \* tracked secrets
  Address,        \* Address[r]: backend type, path and key of the row
  Config,         \* Config[r]: where the row's backend looks for settings
  Projects, Names, Keys,
  DefaultProject, \* what project_id or the service account names
  Values, Empty,  \* texts, and the empty one
  NoValue,        \* nothing under a key, or an exception instead of a value
  NoBlock,        \* no block in backend_credentials
  Events,         \* what else may happen, a subset of EventKinds
  MaxVersions     \* bound: the versions that all secrets may have

EventKinds == {"outsider", "reply_lost"}
Providers  == {"hashicorp", "azure_key_vault",
               "google_cloud_secret_manager", "aws_secrets_manager"}

\* A path: its prefix, and a version number, latest, or 0 without /versions/
\* (a resource that cannot be accessed: no version has the number 0).
Forms     == {"", "secrets/", "projects/"}
NoVersion == 0
Latest    == -1
Addresses == [provider : Providers, form : Forms, project : Projects,
              name : Names, version : Nat \cup {Latest}, key : Keys]

\* Sets of settings one of which a client must find.
HashiCorpNeeds == {{"token"}}
AzureNeeds  == {{"access_token"}, {"tenant_id", "client_id", "client_secret"}}
GoogleNeeds ==
  {{"access_token"}, {"service_account_json"}, {"service_account_file"}}
\* endpoint_region: the api_url begins with secretsmanager and a region.
AwsNeeds == {{"access_key_id", "secret_access_key", region} :
               region \in {"region_name", "endpoint_region"}}
Sufficient ==
  [hashicorp |-> HashiCorpNeeds,
   azure_key_vault |-> AzureNeeds,
   google_cloud_secret_manager |-> GoogleNeeds,
   aws_secrets_manager |-> AwsNeeds]
Settings == {"project_id"} \cup UNION UNION {Sufficient[p] : p \in Providers}

\* What a block or extra_config has under a name: nothing, an empty value, a
\* value, or the JSON of a service account that names its project.
Entries == {"absent", "empty", "value", "names_project"}
Blocks  == [Settings -> Entries]

DefaultKey == "value"

ASSUME AddressAssumption == Address \in [Rows -> Addresses]
ASSUME ConfigAssumption ==
  Config \in [Rows -> [byName  : Blocks \cup {NoBlock},
                       byAlias : Blocks \cup {NoBlock},
                       extra   : Blocks]]
ASSUME NamesAssumption == DefaultKey \in Keys /\ DefaultProject \in Projects
ASSUME ValuesAssumption == Empty \in Values /\ NoValue \notin Values
ASSUME BoundsAssumption == Events \subseteq EventKinds /\ MaxVersions \in Nat

Secrets   == Providers \X Projects \X Names
Documents == [Keys -> Values \cup {NoValue}]

VARIABLES
  versions,  \* versions[s]: the documents of the upstream secret s
  cached,    \* cached[r]: the value the plugin fetched or stored last
  alone      \* history: nobody else has written the secret of r since then

vars == <<versions, cached, alone>>

TypeOK ==
  /\ versions \in [Secrets -> Seq(Documents)]
  /\ cached \in [Rows -> Values \cup {NoValue}]
  /\ alone \in [Rows -> BOOLEAN]

Init ==
  /\ versions = [s \in Secrets |-> <<>>]
  /\ cached = [r \in Rows |-> NoValue]
  /\ alone = [r \in Rows |-> FALSE]

-----------------------------------------------------------------------------
(* Settings: _get_backend_credentials, _get_backend_config_value and what  *)
(* each client requires                                                    *)

\* A block under the backend's own name hides the one of its alias.
Credentials(r) ==
  LET c == Config[r] IN
  IF c.byName # NoBlock THEN c.byName
  ELSE IF c.byAlias # NoBlock THEN c.byAlias
  ELSE [key \in Settings |-> "absent"]

\* An entry of the block hides the one of extra_config, also an empty one.
Setting(r, key) ==
  IF Credentials(r)[key] # "absent" THEN Credentials(r)[key]
  ELSE Config[r].extra[key]

Found(r) ==
  {key \in Settings : Setting(r, key) \in {"value", "names_project"}}

Google(r) == Address[r].provider = "google_cloud_secret_manager"

ProjectKnown(r) ==
  \/ Address[r].form = "projects/"
  \/ "project_id" \in Found(r)
  \/ Setting(r, "service_account_json") = "names_project"

\* The others have a BackendConfigurationError before any request.
Ready ==
  {r \in Rows :
     /\ \E needs \in Sufficient[Address[r].provider] : needs \subseteq Found(r)
     /\ Google(r) => ProjectKnown(r)}

-----------------------------------------------------------------------------
(* Addressing: the secret, the version that is fetched, and the version    *)
(* that the resource of a store carries (Google refuses any)               *)

Upstream(r) ==
  <<Address[r].provider,
    IF Google(r) /\ Address[r].form = "projects/" THEN Address[r].project
    ELSE DefaultProject,
    Address[r].name>>

\* Mutant: a fetch leaves out the version of the path, as a store does.
FetchUnversioned(r) == Latest
FetchVersion(r) ==
  IF ~Google(r) \/ (Address[r].form = "" /\ Address[r].version = NoVersion)
  THEN Latest
  ELSE Address[r].version

StoreVersion(r) ==
  IF Google(r) /\ Address[r].form = "secrets/" THEN Address[r].version
  ELSE NoVersion

Field(r) == IF Address[r].provider = "hashicorp" THEN Address[r].key
            ELSE DefaultKey

-----------------------------------------------------------------------------
(* fetch_secret and store_secret                                           *)

\* A Google payload without data counts as no payload.
Returned(r, v) == IF Google(r) /\ v = Empty THEN NoValue ELSE v

\* What fetch_secret returns, NoValue when it raises.
Fetched(r) ==
  LET docs == versions[Upstream(r)]
      n == IF FetchVersion(r) = Latest THEN Len(docs) ELSE FetchVersion(r)
  IN IF r \in Ready /\ n \in 1 .. Len(docs)
     THEN Returned(r, docs[n][Field(r)])
     ELSE NoValue

Accepted(r) == r \in Ready /\ StoreVersion(r) = NoVersion

\* Mutants: the key of the row is ignored; one key is all a document has.
DocumentDefaultKey(r, v) ==
  [k \in Keys |-> IF k = DefaultKey THEN v ELSE NoValue]
DocumentOneKey(r, v) == [k \in {Field(r)} |-> v]

\* What store_secret writes: the one field, and nothing beside it.
Document(r, v) == [k \in Keys |-> IF k = Field(r) THEN v ELSE NoValue]

AddVersion(s, d) ==
  /\ Cardinality({sn \in Secrets \X (1 .. MaxVersions) :
                   sn[2] <= Len(versions[sn[1]])}) < MaxVersions
  /\ versions' = [versions EXCEPT ![s] = Append(@, d)]

\* The rows that nobody else has disturbed when s gets a version.
Undisturbed(s) == [q \in Rows |-> alone[q] /\ Upstream(q) # s]

Refresh(r) ==
  /\ Fetched(r) # NoValue
  /\ cached' = [cached EXCEPT ![r] = Fetched(r)]
  /\ alone' = [alone EXCEPT ![r] = TRUE]
  /\ UNCHANGED versions

Set(r, v) ==
  /\ Accepted(r)
  /\ AddVersion(Upstream(r), Document(r, v))
  /\ cached' = [cached EXCEPT ![r] = v]
  /\ alone' = [Undisturbed(Upstream(r)) EXCEPT ![r] = TRUE]

\* The provider stored the value, the client raises: the cache stays.
SetReplyLost(r, v) ==
  /\ "reply_lost" \in Events
  /\ Accepted(r)
  /\ AddVersion(Upstream(r), Document(r, v))
  /\ alone' = Undisturbed(Upstream(r))
  /\ UNCHANGED cached

\* Someone else writes a secret that some row can use.
Outsider(s, d) ==
  /\ "outsider" \in Events
  /\ s[1] # "hashicorp" => \A k \in Keys \ {DefaultKey} : d[k] = NoValue
  /\ AddVersion(s, d)
  /\ alone' = Undisturbed(s)
  /\ UNCHANGED cached

Next ==
  \/ \E r \in Rows : Refresh(r)
  \/ \E r \in Rows, v \in Values : Set(r, v) \/ SetReplyLost(r, v)
  \/ \E r \in Rows, d \in Documents : r \in Ready /\ Outsider(Upstream(r), d)

Spec == Init /\ [][Next]_vars

-----------------------------------------------------------------------------
(* Properties *)

Pinned(r) == Google(r) /\ Address[r].version \in Nat \ {NoVersion}
\* secrets/secret-name or projects/project/secrets/secret-name.
Unversioned(r) ==
  Google(r) /\ Address[r].form # "" /\ Address[r].version = NoVersion

(* Until somebody else writes the upstream secret, the next refresh of a   *)
(* row that is not pinned gets the value that its last refresh or set put  *)
(* into the cache, whichever provider, path form and key it has, with two  *)
(* exceptions of Google: it gets nothing after an empty value was set, and *)
(* never anything with a secrets/ or projects/ path without a version,     *)
(* which can be set nevertheless.                                          *)
ReadBack ==
  \A r \in Rows : alone[r] /\ ~Pinned(r) =>
    Fetched(r) = IF Unversioned(r) THEN NoValue ELSE Returned(r, cached[r])

(* And a row that is pinned to a version gets the value of that version    *)
(* again after any set, its own included: the value that the set has       *)
(* cached is gone with the next refresh.                                   *)
PinnedStays ==
  [][\A r \in Rows : Pinned(r) /\ Fetched(r) # NoValue =>
       Fetched(r)' = Fetched(r)]_vars

(* README: secrets/secret-name/versions/latest is one of the path forms of *)
(* Google, and a writable backend takes updates: whatever the form, a row  *)
(* that can be refreshed can be set.                                       *)
ReadableIsWritable == \A r \in Rows : Fetched(r) # NoValue => Accepted(r)

-----------------------------------------------------------------------------
(* The inductive invariant behind ReadBack: only a row that is set up has  *)
(* been fetched or stored.                                                 *)
Inv == TypeOK /\ ReadBack /\ \A r \in Rows : alone[r] => r \in Ready
=============================================================================
