---------------------------- MODULE Credentials ----------------------------
(***************************************************************************)
(* The credential store: the constructor's choice of clients and vault,    *)
(* validate_creds(), and the questions asked of it.  The modules aws and   *)
(* flags each cache one store in a global that no lock protects, and cache *)
(* it before it is validated.                                              *)
(*                                                                         *)
(* A caller that finds no store makes one; a store is named after the      *)
(* caller that made it.                                                    *)
(***************************************************************************)
EXTENDS FieldLookup

CONSTANTS
  Caller,         \* the threads that need a credential
  Vault,          \* ids of vaults; a secret file's newline makes it another id
  Environments,   \* the environments a process may be started in
  Items,          \* the items 1Password may answer with
  Paths,          \* the paths that get_creds() is asked for
  Sections        \* the sections get_fields_from_sections() is asked for

Client == {"connect", "service"}

\* A secret may be in a file, in the environment, or both.
Secret(S) == [file : S \cup {None}, env : S \cup {None}]
Token == {"", "token"}
Environment ==
  [CREDS_USE : [Client -> {None, "true", "no"}], OP_CONNECT_HOST : BOOLEAN,
   OP_VAULT : Secret(Vault), TOKEN : [Client -> Secret(Token)],
   vaults : [Client -> SUBSET Vault]]

\* A store: its clients, and the vault it looks into.
Store == [clients : SUBSET Client, op_vault : Vault \cup {None}]

IsSequence(s) == Len(s) \in Nat /\ DOMAIN s = 1 .. Len(s)

\* The dictionaries that the fields of an item can make.
Dictionaries(item) ==
  LET at(i) == item.fields[i] IN
  UNION {[L -> {at(i).value : i \in DOMAIN item.fields}] :
           L \in SUBSET {at(i).label : i \in DOMAIN item.fields}}

ASSUME CredentialsAssumption ==
  /\ Environments \subseteq Environment
  /\ None \notin Vault \cup Caller /\ None \notin Store
  /\ \A i \in Items : /\ IsSequence(SectionsOf(i)) /\ IsSequence(i.fields)
                      /\ Raise \notin Dictionaries(i)

VARIABLES
  environment,   \* where the process was started, and the vaults of the servers
  store,         \* the stores that were made: their clients and their op_vault
  _creds,        \* the cached one
  pc,            \* where each caller is
  self,          \* the store each caller is validating
  validated,     \* the stores that passed a validation
  failed,        \* has a validation raised?
  question,      \* the last question asked of a client ...
  answer         \* ... and what became of it

vars == <<environment, store, _creds, pc, self, validated, failed, question, answer>>

TypeOK ==
  /\ environment \in Environments
  /\ store \in [Caller -> Store \cup {None}]
  /\ _creds \in Caller \cup {None}
  /\ pc \in [Caller -> {"idle", "construct", "connect", "service", "ask"}]
  /\ self \in [Caller -> Caller]
  /\ validated \subseteq Caller /\ failed \in BOOLEAN
  /\ question \in [client : Client, vault : Vault \cup {None}, trusted : BOOLEAN] \cup {None}

Init ==
  /\ environment \in Environments
  /\ store = [c \in Caller |-> None] /\ _creds = None
  /\ pc = [c \in Caller |-> "idle"] /\ self = [c \in Caller |-> c]
  /\ validated = {} /\ failed = FALSE
  /\ question = None /\ answer = None

Goto(c, label) == pc' = [pc EXCEPT ![c] = label]

-----------------------------------------------------------------------------
get_secret_or_env(secret) == IF secret.file # None THEN secret.file ELSE secret.env

Enabled(k) == environment.CREDS_USE[k] \in {None, "true"}

\* An empty token is no token.
Clients ==
  {k \in Client : /\ Enabled(k) /\ get_secret_or_env(environment.TOKEN[k]) = "token"
                  /\ k = "connect" => environment.OP_CONNECT_HOST}

\* get_boto_session() and is_flag_enabled() look for the cached store.
Call(c) ==
  /\ pc[c] = "idle"
  /\ Goto(c, IF _creds = None THEN "construct" ELSE "ask")
  /\ UNCHANGED <<environment, store, _creds, self, validated, failed, question, answer>>

\* A constructor that leaves the validation to whoever was first.
MutConstruct(c) ==
  /\ pc[c] = "construct"
  /\ store' = [store EXCEPT ![c] =
       [clients |-> Clients, op_vault |-> get_secret_or_env(environment.OP_VAULT)]]
  /\ _creds' = c
  /\ Goto(c, IF _creds = None THEN "connect" ELSE "ask")
  /\ UNCHANGED <<environment, self, validated, failed, question, answer>>

\* The constructor, which raises if the service cannot be reached, and the
\* assignment to the global.
Construct(c) ==
  /\ pc[c] = "construct"
  /\ \/ /\ store' = [store EXCEPT ![c] =
             [clients |-> Clients, op_vault |-> get_secret_or_env(environment.OP_VAULT)]]
        /\ _creds' = c /\ Goto(c, "connect")
     \/ "service" \in Clients /\ Goto(c, "idle") /\ UNCHANGED <<store, _creds>>
  /\ UNCHANGED <<environment, self, validated, failed, question, answer>>

-----------------------------------------------------------------------------
\* A client that takes a list of one vault for its id.
MutAdopted(vault, vaults) == IF \E v \in vaults : vaults = {v} THEN vaults ELSE vault

\* An only vault is adopted, whatever was configured.
Adopted(vault, vaults) ==
  IF \E v \in vaults : vaults = {v} THEN CHOOSE v \in vaults : TRUE ELSE vault

\* A test that any vault passes.
MutFound(vault, vaults) == vault # None

Found(vault, vaults) == vault \in vaults \/ \E v \in vaults : vaults = {v}

\* The check of one client's vaults in validate_creds(), which raises if the
\* server cannot be reached or the vault is not there.
CheckVaults(c, s, k, next) ==
  LET vaults == environment.vaults[k] IN
  \/ k \notin store[s].clients /\ Goto(c, next) /\ UNCHANGED <<store, failed>>
  \/ /\ k \in store[s].clients /\ Found(store[s].op_vault, vaults)
     /\ store' = [store EXCEPT ![s].op_vault = Adopted(@, vaults)]
     /\ Goto(c, next) /\ UNCHANGED failed
  \/ k \in store[s].clients /\ failed' = TRUE /\ Goto(c, "idle") /\ UNCHANGED store

\* It is the store in the global that is validated: a racing caller may have put
\* its own there.
ValidateConnect(c) ==
  /\ pc[c] = "connect"
  /\ self' = [self EXCEPT ![c] = _creds]
  /\ CheckVaults(c, _creds, "connect", "service")
  /\ UNCHANGED <<environment, _creds, validated, question, answer>>

\* A store without a client passes as well.
ValidateService(c) ==
  /\ pc[c] = "service"
  /\ CheckVaults(c, self[c], "service", "ask")
  /\ validated' = IF pc'[c] = "ask" THEN validated \cup {self[c]} ELSE validated
  /\ UNCHANGED <<environment, _creds, self, question, answer>>

-----------------------------------------------------------------------------
\* Both methods prefer the connect client, and raise without a client.
Asked(k) ==
  IF k = None THEN UNCHANGED question
  ELSE question' = [client |-> k, vault |-> store[_creds].op_vault, trusted |-> _creds \in validated]

Preferred ==
  LET clients == store[_creds].clients IN
  IF "connect" \in clients THEN "connect" ELSE IF "service" \in clients THEN "service" ELSE None

\* get_creds(): the service client resolves the path itself.
get_creds(c) ==
  /\ pc[c] = "ask" /\ Goto(c, "idle")
  /\ Asked(Preferred)
  /\ \/ Preferred = "connect" /\ \E p \in Paths, i \in Items :
          answer' = [method |-> "get_creds", client |-> Preferred, wanted |-> p, item |-> i,
                     result |-> Lookup(p, i)]
     \/ answer' = None
  /\ UNCHANGED <<environment, store, _creds, self, validated, failed>>

get_fields_from_sections(c) ==
  /\ pc[c] = "ask" /\ Goto(c, "idle")
  /\ Asked(Preferred)
  /\ \/ Preferred # None /\ \E n \in Sections, i \in Items :
          answer' = [method |-> "get_fields", client |-> Preferred, wanted |-> n, item |-> i,
                     result |-> IF Preferred = "connect" THEN ConnectFields(n, i) ELSE ServiceFields(n, i)]
     \/ answer' = None
  /\ UNCHANGED <<environment, store, _creds, self, validated, failed>>

Next ==
  \E c \in Caller : \/ Call(c) \/ Construct(c) \/ ValidateConnect(c) \/ ValidateService(c)
                    \/ get_creds(c) \/ get_fields_from_sections(c)

Spec == Init /\ [][Next]_vars

-----------------------------------------------------------------------------
\* The cached store has been validated, unless a validation has failed or is
\* still going on: no race leaves one behind that nobody will look at.
CachedStoreIsValidated ==
  _creds # None /\ _creds \notin validated =>
    failed \/ \E c \in Caller : pc[c] \in {"connect", "service"}

\* A validated store asks for a vault that one of its clients has listed; with
\* one client it is the client that is asked.
AsksKnownVault ==
  question # None /\ question.trusted =>
    \E k \in Clients : question.vault \in environment.vaults[k]

Matches(f, path, item) ==
  CASE Len(path) = 1 -> TRUE
    [] Len(path) = 2 -> f.label = path[2]
    [] Len(path) = 3 -> f.label = path[3] /\ InSections(f, {path[2]}, item)
    [] OTHER -> FALSE

\* get_creds() of the connect client returns the value of a field that the path
\* describes, or raises, as it does for a path without a label to an item with
\* more fields than one; and it returns the value of the first one, or of the only
\* one if the path has no label, unless two sections of the item share a label.
LookupIsExact ==
  answer # None /\ answer.method = "get_creds" =>
    LET fields == answer.item.fields
        sections == SectionsOf(answer.item)
        hits == {i \in DOMAIN fields : Matches(fields[i], answer.wanted, answer.item)}
        first(i) == Len(answer.wanted) > 1 /\ \A j \in hits : i <= j
    IN /\ answer.result # Raise =>
            \E i \in hits : /\ answer.result = fields[i].value
                           /\ Len(answer.wanted) = 1 => hits = {i}
       /\ (\A i, j \in DOMAIN sections : sections[i].label = sections[j].label => i = j) =>
            \A i \in hits : hits = {i} \/ first(i) => answer.result = fields[i].value

\* get_fields_from_sections() of either client returns the fields of the sections
\* and nothing else, and refuses an item that has no list of sections.  The last of
\* several fields with a label counts; the service client, and it alone, refuses
\* such an item, and one with an orphan in it.
FieldsAreExact ==
  answer # None /\ answer.method = "get_fields" =>
    LET fields == answer.item.fields
        hits == {i \in DOMAIN fields : InSections(fields[i], answer.wanted, answer.item)}
        clash == \E i, j \in hits : i # j /\ fields[i].label = fields[j].label
        orphan == \E i \in DOMAIN fields : Orphan(fields[i], answer.item)
        last(i) == \A j \in hits : fields[j].label = fields[i].label => j <= i
    IN /\ answer.result = Raise <=>
            answer.item.sections = None \/ (answer.client = "service" /\ (clash \/ orphan))
       /\ answer.result # Raise =>
            /\ DOMAIN answer.result = {fields[i].label : i \in hits}
            /\ \A i \in hits : last(i) => answer.result[fields[i].label] = fields[i].value
=============================================================================
