--------------------------- MODULE Configuration ----------------------------
(***************************************************************************)
(* Starting the bridge: Config reads the TOML file, Shared and Controller  *)
(* each build a table of users from it.  log::fatal and exceptions end the *)
(* process: phase = "failed".                                              *)
(*                                                                         *)
(* A file is the function of its paths, tables included, to their values:  *)
(* <<"users", "OM1", "account">> to a text.  Of a list it matters only     *)
(* whether it is empty and holds texts only.  Settings of the file that    *)
(* are handed on to the engine unchanged (symbols, statistics, broadcast,  *)
(* errors) are checked as in the code and not kept.  Every item of another *)
(* section than symbols is a table, and default values are numbers: the    *)
(* code has undefined behaviour for what is not.                           *)
(***************************************************************************)
EXTENDS Integers, Sequences, FiniteSets

CONSTANTS
  Documents,         \* the files
  Texts,             \* non-empty strings
  EmptyText,
  TextList,          \* a list of strings, at least one
  EmptyList,
  MixedList,         \* a list that holds something else
  Table,
  Other,             \* a value of any other type
  Numbers,
  StatisticsTypes,   \* the enumerators, as keys of the file
  MDEntryTypes,      \* the enumerators that may be mapped to
  IdModulus,         \* user ids are uint16_t
  Accounts,          \* the accounts there are at the gateways
  Matches            \* the accounts that a text matches, as a regular expression

VARIABLES
  settings,     \* the command line flags that Config looks at
  file,
  phase,
  todo,         \* the users the loop of this phase has not reached
  users,        \* Config::users
  names,        \* check_unique_usernames: usernames
  accounts,     \* check_unique_accounts: accounts
  shared,       \* Shared::username_to_user_
  controller    \* Controller::username_to_user_

vars == << settings, file, phase, todo, users, names, accounts, shared, controller >>

Strings == Texts \cup {EmptyText}
Regexes == Strings \cup {TextList, EmptyList}

(***************************************************************************)
(* The items of a table of the file, by their keys.                        *)
(***************************************************************************)
Has(document, path) == path \in DOMAIN document
Keys(document, path) ==
  {item[Len(path) + 1] : item \in {other \in DOMAIN document :
     /\ Len(other) = Len(path) + 1
     /\ \A position \in 1 .. Len(path) : other[position] = path[position]}}
UserKeys(document) == Keys(document, <<"users">>)

(***************************************************************************)
(* An item of a file is in a table of the file.  No limit on the number of *)
(* users is checked: that it fits an id is assumed.                        *)
(***************************************************************************)
ASSUME DocumentAssumption ==
  \A document \in Documents : \A path \in DOMAIN document :
    /\ path \in Seq(STRING) /\ path # <<>>
    /\ \A length \in 1 .. Len(path) : SubSeq(path, 1, length) \in DOMAIN document
ASSUME IdAssumption ==
  /\ IdModulus \in Nat \ {0}
  /\ \A document \in Documents :
       IsFiniteSet(UserKeys(document)) /\ Cardinality(UserKeys(document)) < IdModulus
ASSUME TextAssumption == EmptyText \notin Texts
ASSUME NumberAssumption == Numbers \subseteq Nat
ASSUME MatchesAssumption == Matches \in [Texts -> SUBSET Accounts]

User ==
  [user_id : 0 .. IdModulus - 1, component : Strings, username : Texts,
   password : Strings, strategy_id : Nat, account : Strings]

Phases == {"symbols", "users", "sections", "usernames", "accounts", "shared", "controller",
           "serving", "failed"}

ConfigTypeOK ==
  /\ settings \in [route_by_strategy : BOOLEAN, init_to_zero : BOOLEAN]
  /\ file \in Documents
  /\ phase \in Phases
  /\ todo \subseteq UserKeys(file)
  /\ users \in [DOMAIN users -> User] /\ DOMAIN users \subseteq UserKeys(file)
  /\ names \subseteq Texts /\ accounts \subseteq Texts
  /\ shared \in [DOMAIN shared -> User] /\ DOMAIN shared \subseteq Texts
  /\ controller \in [DOMAIN controller -> User] /\ DOMAIN controller \subseteq Texts

Nobody == [x \in {} |-> x]

Init ==
  /\ settings \in [route_by_strategy : BOOLEAN, init_to_zero : BOOLEAN]
  /\ file \in Documents
  /\ phase = "symbols" /\ todo = {}
  /\ users = Nobody /\ names = {} /\ accounts = {}
  /\ shared = Nobody /\ controller = Nobody

Fail ==
  /\ phase' = "failed"
  /\ UNCHANGED << settings, file, todo, users, names, accounts, shared, controller >>

-----------------------------------------------------------------------------
(* Config: the sections of the file, in the order of its members. *)

Value(path) == file[path]

(***************************************************************************)
(* parse_symbols.  The table of a gateway is looked at for its regex only. *)
(***************************************************************************)
GatewayAccepted(gateway) ==
  LET path == <<"symbols", gateway>>
      regex == <<"symbols", gateway, "regex">>
  IN  IF Value(path) = Table
        THEN Has(file, regex) /\ Value(regex) \in Regexes
        ELSE gateway = "regex" /\ Value(path) \in Regexes

ReadSymbols ==
  /\ phase = "symbols"
  /\ IF /\ Has(file, <<"symbols">>) /\ Value(<<"symbols">>) = Table
        /\ \A gateway \in Keys(file, <<"symbols">>) : GatewayAccepted(gateway)
        /\ Has(file, <<"users">>)
       THEN /\ phase' = "users" /\ todo' = UserKeys(file)
            /\ UNCHANGED << settings, file, users, names, accounts, shared, controller >>
       ELSE Fail

(***************************************************************************)
(* parse_users: what is read of one user, an absent item as an empty one.  *)
(***************************************************************************)
Item(user, key) == <<"users", user, key>>
TextOf(user, key) == IF Has(file, Item(user, key)) THEN Value(Item(user, key)) ELSE EmptyText
NumberOf(user, key) == IF Has(file, Item(user, key)) THEN Value(Item(user, key)) ELSE 0

UserItems == {"component", "username", "password", "strategy_id", "account", "accounts", "symbols"}

AccountsReadable(user) ==
  Has(file, Item(user, "accounts")) =>
    /\ Value(Item(user, "accounts")) # MixedList
    /\ settings.route_by_strategy => Value(Item(user, "accounts")) \in Regexes

SymbolsReadable(user) ==
  Has(file, Item(user, "symbols")) =>
    settings.route_by_strategy /\ Value(Item(user, "symbols")) \in Regexes

ItemsReadable(user) ==
  /\ \A key \in {"component", "username"} : Has(file, Item(user, key))
  /\ \A key \in {"component", "username", "password", "account"} : TextOf(user, key) \in Strings
  /\ NumberOf(user, "strategy_id") \in Numbers \cup {0}
  /\ AccountsReadable(user) /\ SymbolsReadable(user)

\* Mutant: accounts are allowed whatever the routing.
UserValidAnyAccount(user) == TextOf(user, "username") # EmptyText

UserValid(user) ==
  /\ TextOf(user, "username") # EmptyText
  /\ settings.route_by_strategy => TextOf(user, "account") = EmptyText

\* check_empty, on what is left of the user's table.
NoneLeft(user) == Keys(file, <<"users", user>>) \subseteq UserItems

\* Mutant: ids from 0, the id of nobody.
NextUserIdFromZero == Cardinality(DOMAIN users) % IdModulus

NextUserId == (Cardinality(DOMAIN users) + 1) % IdModulus

UserOf(user) ==
  [user_id |-> NextUserId, component |-> TextOf(user, "component"),
   username |-> TextOf(user, "username"), password |-> TextOf(user, "password"),
   strategy_id |-> NumberOf(user, "strategy_id"), account |-> TextOf(user, "account")]

Emplace(table, key, value) ==
  [other \in DOMAIN table \cup {key} |-> IF other = key THEN value ELSE table[other]]

\* The loop of this phase is done with a user.
Done(user) == todo' = todo \ {user}

ReadUser(user) ==
  /\ phase = "users" /\ user \in todo
  /\ IF ItemsReadable(user) /\ UserValid(user) /\ NoneLeft(user)
       THEN /\ users' = Emplace(users, user, UserOf(user))
            /\ Done(user)
            /\ UNCHANGED << settings, file, phase, names, accounts, shared, controller >>
       ELSE Fail

UsersRead ==
  /\ phase = "users" /\ todo = {}
  /\ phase' = "sections"
  /\ UNCHANGED << settings, file, todo, users, names, accounts, shared, controller >>

(***************************************************************************)
(* The sections that follow may be missing.                                *)
(***************************************************************************)
StatisticsAccepted(type) ==
  LET path(key) == <<"statistics", type, key>>
  IN  /\ type \in StatisticsTypes
      /\ Has(file, path("fix_md_entry_type")) /\ Value(path("fix_md_entry_type")) \in MDEntryTypes
      /\ Has(file, path("default_value")) => settings.init_to_zero
      /\ Keys(file, <<"statistics", type>>) \subseteq {"fix_md_entry_type", "default_value"}

TargetsAccepted(name) ==
  LET path == <<"broadcast", name, "targets_regex">>
  IN  Has(file, path) /\ Value(path) \in Regexes \ {EmptyList}

BroadcastAccepted(name) ==
  LET path(key) == <<"broadcast", name, key>>
  IN  /\ \A key \in {"exchange", "source_regex"} : Has(file, path(key)) /\ Value(path(key)) \in Texts
      /\ TargetsAccepted(name)
      /\ Keys(file, <<"broadcast", name>>) \subseteq {"exchange", "source_regex", "targets_regex"}

ErrorAccepted(error) ==
  \A key \in Keys(file, <<"errors", error>>) :
    /\ key = "cxl_rej_reason"
    /\ Value(<<"errors", error, key>>) \in {number \in Numbers : number >= 100}

Sections == {"symbols", "users", "statistics", "broadcast", "errors"}

\* The last one is check_empty, on what is left of the file.
SectionsAccepted ==
  /\ \A type \in Keys(file, <<"statistics">>) : StatisticsAccepted(type)
  /\ \A name \in Keys(file, <<"broadcast">>) : BroadcastAccepted(name)
  /\ \A error \in Keys(file, <<"errors">>) : ErrorAccepted(error)
  /\ Keys(file, <<>>) \subseteq Sections

ReadSections ==
  /\ phase = "sections"
  /\ IF SectionsAccepted
       THEN /\ phase' = "usernames" /\ todo' = UserKeys(file)
            /\ UNCHANGED << settings, file, users, names, accounts, shared, controller >>
       ELSE Fail

-----------------------------------------------------------------------------
(* Uniqueness, checked three times over: Config, Shared, Controller. *)

CheckUsername(user) ==
  /\ phase = "usernames" /\ user \in todo
  /\ IF users[user].username \in names
       THEN Fail
       ELSE /\ names' = names \cup {users[user].username}
            /\ Done(user)
            /\ UNCHANGED << settings, file, phase, users, accounts, shared, controller >>

\* Mutant: accounts are compared when they do not route.
UsernamesCheckedInverted ==
  /\ phase = "usernames" /\ todo = {}
  /\ phase' = IF settings.route_by_strategy THEN "accounts" ELSE "shared"
  /\ todo' = UserKeys(file)
  /\ UNCHANGED << settings, file, users, names, accounts, shared, controller >>

UsernamesChecked ==
  /\ phase = "usernames" /\ todo = {}
  /\ phase' = IF settings.route_by_strategy THEN "shared" ELSE "accounts"
  /\ todo' = UserKeys(file)
  /\ UNCHANGED << settings, file, users, names, accounts, shared, controller >>

\* Mutant: two users without an account clash.
CheckAccountAlsoEmpty(user) ==
  /\ phase = "accounts" /\ user \in todo
  /\ IF users[user].account \in accounts
       THEN Fail
       ELSE /\ accounts' = accounts \cup {users[user].account}
            /\ Done(user)
            /\ UNCHANGED << settings, file, phase, users, names, shared, controller >>

CheckAccount(user) ==
  /\ phase = "accounts" /\ user \in todo
  /\ IF users[user].account \in accounts
       THEN Fail
       ELSE /\ accounts' = accounts \cup ({users[user].account} \ {EmptyText})
            /\ Done(user)
            /\ UNCHANGED << settings, file, phase, users, names, shared, controller >>

AccountsChecked ==
  /\ phase = "accounts" /\ todo = {}
  /\ phase' = "shared" /\ todo' = UserKeys(file)
  /\ UNCHANGED << settings, file, users, names, accounts, shared, controller >>

(***************************************************************************)
(* The loops of extract_username_to_user and create_username_to_user: a    *)
(* username and, when orders are routed by account, an account that is in  *)
(* the table already is fatal.                                             *)
(***************************************************************************)
Clash(table, user) ==
  \/ users[user].username \in DOMAIN table
  \/ /\ ~ settings.route_by_strategy /\ users[user].account # EmptyText
     /\ \E name \in DOMAIN table : table[name].account = users[user].account

ExtractUser(user) ==
  /\ phase = "shared" /\ user \in todo
  /\ IF Clash(shared, user)
       THEN Fail
       ELSE /\ shared' = Emplace(shared, users[user].username, users[user])
            /\ Done(user)
            /\ UNCHANGED << settings, file, phase, users, names, accounts, controller >>

UsersExtracted ==
  /\ phase = "shared" /\ todo = {}
  /\ phase' = "controller" /\ todo' = UserKeys(file)
  /\ UNCHANGED << settings, file, users, names, accounts, shared, controller >>

\* Mutant: the table by the key of the section.
CreateUserByKey(user) ==
  /\ phase = "controller" /\ user \in todo
  /\ IF Clash(controller, user)
       THEN Fail
       ELSE /\ controller' = Emplace(controller, user, users[user])
            /\ Done(user)
            /\ UNCHANGED << settings, file, phase, users, names, accounts, shared >>

CreateUser(user) ==
  /\ phase = "controller" /\ user \in todo
  /\ IF Clash(controller, user)
       THEN Fail
       ELSE /\ controller' = Emplace(controller, users[user].username, users[user])
            /\ Done(user)
            /\ UNCHANGED << settings, file, phase, users, names, accounts, shared >>

UsersCreated ==
  /\ phase = "controller" /\ todo = {}
  /\ phase' = "serving"
  /\ UNCHANGED << settings, file, todo, users, names, accounts, shared, controller >>

Next ==
  \/ ReadSymbols \/ UsersRead \/ ReadSections \/ UsernamesChecked \/ AccountsChecked
  \/ UsersExtracted \/ UsersCreated
  \/ \E user \in UserKeys(file) :
       ReadUser(user) \/ CheckUsername(user) \/ CheckAccount(user) \/ ExtractUser(user)
         \/ CreateUser(user)

Spec == Init /\ [][Next]_vars

-----------------------------------------------------------------------------
(***************************************************************************)
(* Once Config is content, the fatal errors of Shared and Controller about *)
(* the same users cannot happen, whatever the order in which the three     *)
(* walk through their unordered maps.                                      *)
(***************************************************************************)
LaterChecksPass ==
  [][(phase \in {"shared", "controller"}) => (phase' # "failed")]_vars

(***************************************************************************)
(* The bridge serves exactly the users of the file, each under its name    *)
(* and with its own settings, in both tables.  No two have the same id,    *)
(* and none has 0, which session_logon uses for nobody.                    *)
(***************************************************************************)
Serves(table, user) ==
  LET name == TextOf(user, "username")
  IN  /\ name \in DOMAIN table
      /\ table[name] = users[user]
      /\ table[name].component = TextOf(user, "component")
      /\ table[name].password = TextOf(user, "password")
      /\ table[name].strategy_id = NumberOf(user, "strategy_id")

UsersIdentified ==
  phase = "serving" =>
    /\ \A user \in UserKeys(file) :
         Serves(shared, user) /\ Serves(controller, user) /\ users[user].user_id # 0
    /\ \A user, other \in UserKeys(file) :
         users[user].user_id = users[other].user_id => user = other
    /\ \A name \in DOMAIN controller :
         \E user \in UserKeys(file) : name = TextOf(user, "username")

(***************************************************************************)
(* Config::dispatch: what a user calls its account is subscribed to as a   *)
(* regular expression.                                                     *)
(***************************************************************************)
Subscribed == {users[user].account : user \in DOMAIN users} \ {EmptyText}

Traders(account) ==
  {name \in DOMAIN controller :
     controller[name].account # EmptyText /\ account \in Matches[controller[name].account]}

(***************************************************************************)
(* The orders of an account reach the bridge exactly if some user trades   *)
(* it.  Two users share an account only by different expressions that both *)
(* match it: the checks compare the texts, and exclude no such overlap.    *)
(***************************************************************************)
SharedOnlyByOverlap ==
  phase = "serving" =>
    \A account \in Accounts :
      /\ (\E expression \in Subscribed : account \in Matches[expression])
           <=> Traders(account) # {}
      /\ \A name, other \in Traders(account) :
           controller[name].account = controller[other].account => name = other

(***************************************************************************)
(* What a file must look like, item by item: the tables that are read, the *)
(* items that each must have, and the value of every item there is.        *)
(***************************************************************************)
RequiredItems ==
  [symbols    |-> {"regex"},
   users      |-> {"component", "username"},
   statistics |-> {"fix_md_entry_type"},
   broadcast  |-> {"exchange", "source_regex", "targets_regex"},
   errors     |-> {}]

\* Items of a gateway beside its regex may be anything.
GatewayItem(key, value) == key = "regex" => value \in Regexes

UserItem(key, value) ==
  \/ key = "username" /\ value \in Texts
  \/ key \in {"component", "password"} /\ value \in Strings
  \/ key = "strategy_id" /\ value \in Numbers \cup {0}
  \/ key = "account" /\ value \in Strings /\ (settings.route_by_strategy => value = EmptyText)
  \/ key = "accounts" /\ value # MixedList /\ (settings.route_by_strategy => value \in Regexes)
  \/ key = "symbols" /\ value \in Regexes /\ settings.route_by_strategy

StatisticsItem(key, value) ==
  \/ key = "fix_md_entry_type" /\ value \in MDEntryTypes
  \/ key = "default_value" /\ settings.init_to_zero

BroadcastItem(key, value) ==
  \/ key \in {"exchange", "source_regex"} /\ value \in Texts
  \/ key = "targets_regex" /\ value \in Regexes \ {EmptyList}

ErrorItem(key, value) ==
  key = "cxl_rej_reason" /\ value \in {number \in Numbers : number >= 100}

ItemValid(section, key, value) ==
  \/ section = "symbols" /\ GatewayItem(key, value)
  \/ section = "users" /\ UserItem(key, value)
  \/ section = "statistics" /\ StatisticsItem(key, value)
  \/ section = "broadcast" /\ BroadcastItem(key, value)
  \/ section = "errors" /\ ErrorItem(key, value)

EntryValid(section, entry) ==
  /\ RequiredItems[section] \subseteq Keys(file, <<section, entry>>)
  /\ \A key \in Keys(file, <<section, entry>>) :
       ItemValid(section, key, file[<<section, entry, key>>])

\* Without gateways, the expressions may stand in the section itself.
GatewayValid(gateway) ==
  LET value == file[<<"symbols", gateway>>]
  IN  \/ value = Table /\ EntryValid("symbols", gateway)
      \/ value # Table /\ gateway = "regex" /\ value \in Regexes

DistinctUsers ==
  \A user, other \in UserKeys(file) : user # other =>
    /\ TextOf(user, "username") # TextOf(other, "username")
    /\ TextOf(user, "account") # EmptyText => TextOf(user, "account") # TextOf(other, "account")

ValidFile ==
  /\ {"symbols", "users"} \subseteq Keys(file, <<>>)
  /\ Keys(file, <<>>) \subseteq Sections
  /\ file[<<"symbols">>] = Table
  /\ \A gateway \in Keys(file, <<"symbols">>) : GatewayValid(gateway)
  /\ Keys(file, <<"statistics">>) \subseteq StatisticsTypes
  /\ \A section \in {"users", "statistics", "broadcast", "errors"} :
       \A entry \in Keys(file, <<section>>) : EntryValid(section, entry)
  /\ DistinctUsers

(***************************************************************************)
(* Whether the bridge starts is a matter of the file and the flags alone,  *)
(* not of the order in which the loops walk through unordered maps: it     *)
(* serves valid files only, and refuses invalid ones only.  Every item of  *)
(* a valid file was looked at, but for what stands beside the regex of a   *)
(* gateway.                                                                *)
(***************************************************************************)
StartsIffValid ==
  /\ phase = "serving" => ValidFile
  /\ phase = "failed" => ~ ValidFile

(***************************************************************************)
(* A file with a key that no code reads does not start the bridge: it may  *)
(* be a misspelt setting.  The keys of symbols are left out here, which    *)
(* the code does not all look at.                                          *)
(***************************************************************************)
ItemsOf ==
  [symbols    |-> {"regex"},
   users      |-> UserItems,
   statistics |-> {"fix_md_entry_type", "default_value"},
   broadcast  |-> {"exchange", "source_regex", "targets_regex"},
   errors     |-> {"cxl_rej_reason"}]

Unknown(path) ==
  \/ path[1] \notin Sections
  \/ Len(path) = 3 /\ path[3] \notin ItemsOf[path[1]]

NothingIgnored ==
  phase = "serving" => \A path \in DOMAIN file : Unknown(path) => path[1] = "symbols"

(***************************************************************************)
(* CHANGELOG.md: "Fail on unknown config (toml) keys (#206)"               *)
(***************************************************************************)
UnknownKeysFail ==
  phase = "serving" => \A path \in DOMAIN file : ~ Unknown(path)
=============================================================================
