------------------------ MODULE ConfigurationProofs -------------------------
(***************************************************************************)
(* The properties of Configuration hold for files of any size.             *)
(***************************************************************************)
EXTENDS Configuration, FiniteSetTheorems, TLAPS

(***************************************************************************)
(* What each phase has established of the users so far.                    *)
(***************************************************************************)
Faithful(user) ==
  /\ users[user].username = TextOf(user, "username")
  /\ users[user].component = TextOf(user, "component")
  /\ users[user].password = TextOf(user, "password")
  /\ users[user].strategy_id = NumberOf(user, "strategy_id")
  /\ settings.route_by_strategy => users[user].account = EmptyText
  /\ NoneLeft(user)

UserRecords == \A user \in DOMAIN users : Faithful(user)

Ids ==
  /\ \A user \in DOMAIN users : users[user].user_id \in 1 .. Cardinality(DOMAIN users)
  /\ \A user, other \in DOMAIN users :
       users[user].user_id = users[other].user_id => user = other

UsersSoFar ==
  /\ phase = "symbols" => DOMAIN users = {}
  /\ phase = "users" => todo = UserKeys(file) \ DOMAIN users
  /\ phase \notin {"symbols", "users", "failed"} => DOMAIN users = UserKeys(file)

SectionsSoFar ==
  phase \notin {"symbols", "users", "sections", "failed"} => SectionsAccepted

DistinctNames(some) ==
  \A user, other \in some : users[user].username = users[other].username => user = other
DistinctAccounts(some) ==
  \A user, other \in some :
    users[user].account = users[other].account /\ users[user].account # EmptyText => user = other

NamesSoFar ==
  /\ phase = "usernames" =>
       /\ DistinctNames(UserKeys(file) \ todo)
       /\ \A user \in UserKeys(file) \ todo : users[user].username \in names
  /\ phase \in {"accounts", "shared", "controller", "serving"} => DistinctNames(UserKeys(file))

AccountsSoFar ==
  /\ phase = "accounts" =>
       /\ DistinctAccounts(UserKeys(file) \ todo)
       /\ \A user \in UserKeys(file) \ todo :
            users[user].account # EmptyText => users[user].account \in accounts
  /\ phase \in {"shared", "controller", "serving"} => DistinctAccounts(UserKeys(file))

Built(table, some) ==
  /\ DOMAIN table = {users[user].username : user \in some}
  /\ \A user \in some : table[users[user].username] = users[user]

TablesSoFar ==
  /\ phase \notin {"shared", "controller", "serving", "failed"} => DOMAIN shared = {}
  /\ phase \notin {"controller", "serving", "failed"} => DOMAIN controller = {}
  /\ phase = "shared" => Built(shared, UserKeys(file) \ todo)
  /\ phase \in {"controller", "serving"} => Built(shared, UserKeys(file))
  /\ phase = "controller" => Built(controller, UserKeys(file) \ todo)
  /\ phase = "serving" => Built(controller, UserKeys(file))

ConfigInv ==
  /\ ConfigTypeOK /\ UserRecords /\ Ids /\ UsersSoFar /\ SectionsSoFar
  /\ NamesSoFar /\ AccountsSoFar /\ TablesSoFar

-----------------------------------------------------------------------------
LEMMA SmallModulo == \A n \in Nat, m \in Nat \ {0} : n < m => n % m = n
  BY SMT

(***************************************************************************)
(* The two later loops find nothing that Config did not: a user they have  *)
(* not reached differs from those in the table.                            *)
(***************************************************************************)
LEMMA NoClash ==
  ASSUME NEW table, NEW user \in todo,
         todo \subseteq UserKeys(file),
         DistinctNames(UserKeys(file)), DistinctAccounts(UserKeys(file)),
         Built(table, UserKeys(file) \ todo)
  PROVE  ~ Clash(table, user)
  BY DEF Clash, Built, DistinctNames, DistinctAccounts

LEMMA BuiltGrows ==
  ASSUME NEW table, NEW some, NEW user, user \notin some,
         Built(table, some), DistinctNames(some \cup {user})
  PROVE  Built(Emplace(table, users[user].username, users[user]), some \cup {user})
  BY DEF Built, Emplace, DistinctNames

LEMMA FailKeeps == ConfigInv /\ Fail => ConfigInv'
<1> SUFFICES ASSUME ConfigInv, Fail PROVE ConfigInv'
  OBVIOUS
<1> USE DEF ConfigInv, Fail
<1>1. ConfigTypeOK'
  BY DEF ConfigTypeOK, Phases
<1>2. UserRecords' /\ Ids'
  BY DEF UserRecords, Ids, Faithful, TextOf, NumberOf, NoneLeft, Value, Has, Item
<1>3. UsersSoFar' /\ SectionsSoFar' /\ NamesSoFar' /\ AccountsSoFar' /\ TablesSoFar'
  BY DEF UsersSoFar, SectionsSoFar, NamesSoFar, AccountsSoFar, TablesSoFar
<1> QED
  BY <1>1, <1>2, <1>3

LEMMA InitHolds == Init => ConfigInv
<1> SUFFICES ASSUME Init PROVE ConfigInv
  OBVIOUS
<1>1. DOMAIN Nobody = {}
  BY DEF Nobody
<1>2. Nobody \in [DOMAIN Nobody -> User]
  BY DEF Nobody
<1> QED
  BY <1>1, <1>2 DEF Init, ConfigInv, ConfigTypeOK, Phases, UserRecords, Ids, UsersSoFar,
     SectionsSoFar, NamesSoFar, AccountsSoFar, TablesSoFar

(***************************************************************************)
(* The steps between loops, which leave the tables alone.                  *)
(***************************************************************************)
BetweenLoops ==
  ReadSymbols \/ UsersRead \/ ReadSections \/ UsernamesChecked \/ AccountsChecked
    \/ UsersExtracted \/ UsersCreated

LEMMA BetweenLoopsKeeps == ConfigInv /\ BetweenLoops => ConfigInv'
<1> SUFFICES ASSUME ConfigInv, BetweenLoops, ~ Fail PROVE ConfigInv'
  BY FailKeeps
<1> USE DEF ConfigInv
<1>1. /\ UNCHANGED << settings, file, users, names, accounts, shared, controller >>
      /\ phase' \in Phases /\ todo' \in {todo, UserKeys(file)}
  BY DEF BetweenLoops, ReadSymbols, UsersRead, ReadSections, UsernamesChecked, AccountsChecked,
         UsersExtracted, UsersCreated, Phases
<1>2. ConfigTypeOK'
  BY <1>1 DEF ConfigTypeOK
<1>3. UserRecords' /\ Ids'
  BY <1>1 DEF UserRecords, Ids, Faithful, TextOf, NumberOf, NoneLeft, Value, Has, Item
<1>4. SectionsAccepted' = SectionsAccepted
  BY <1>1 DEF SectionsAccepted, StatisticsAccepted, BroadcastAccepted, TargetsAccepted,
         ErrorAccepted, Has, Value
<1>5. UsersSoFar' /\ SectionsSoFar'
  <2>1. UsersSoFar'
    BY <1>1 DEF ConfigTypeOK, UsersSoFar, BetweenLoops, ReadSymbols, UsersRead, ReadSections,
         UsernamesChecked, AccountsChecked, UsersExtracted, UsersCreated
  <2>2. SectionsSoFar'
    BY <1>1, <1>4 DEF SectionsSoFar, BetweenLoops, ReadSymbols, UsersRead, ReadSections,
         UsernamesChecked, AccountsChecked, UsersExtracted, UsersCreated
  <2> QED BY <2>1, <2>2
<1>6. NamesSoFar'
  BY <1>1 DEF NamesSoFar, DistinctNames, BetweenLoops, ReadSymbols, UsersRead, ReadSections,
         UsernamesChecked, AccountsChecked, UsersExtracted, UsersCreated
<1>7. AccountsSoFar'
  <2>1. CASE UsernamesChecked
    BY <1>1, <2>1 DEF UsernamesChecked, AccountsSoFar, DistinctAccounts, UsersSoFar, UserRecords,
         Faithful
  <2>2. CASE ~ UsernamesChecked
    BY <1>1, <2>2 DEF AccountsSoFar, DistinctAccounts, BetweenLoops, ReadSymbols, UsersRead,
         ReadSections, AccountsChecked, UsersExtracted, UsersCreated
  <2> QED BY <2>1, <2>2
<1>8. TablesSoFar'
  <2>1. \A table : (table \in {shared, controller} /\ DOMAIN table = {}) => Built(table, {})
    BY DEF Built
  <2>2. CASE UsersExtracted \/ UsersCreated
    BY <1>1, <2>1, <2>2 DEF TablesSoFar, UsersExtracted, UsersCreated, Built
  <2>3. CASE UsernamesChecked \/ AccountsChecked
    BY <1>1, <2>1, <2>3 DEF TablesSoFar, UsernamesChecked, AccountsChecked, Built
  <2>4. CASE ReadSymbols \/ UsersRead \/ ReadSections
    BY <1>1, <2>4 DEF TablesSoFar, ReadSymbols, UsersRead, ReadSections, Built
  <2> QED BY <2>2, <2>3, <2>4 DEF BetweenLoops
<1> QED
  BY <1>2, <1>3, <1>5, <1>6, <1>7, <1>8

(***************************************************************************)
(* The loops that only look at the users.                                  *)
(***************************************************************************)
LEMMA ChecksKeep ==
  ASSUME NEW user \in UserKeys(file), ConfigInv, CheckUsername(user) \/ CheckAccount(user)
  PROVE  ConfigInv'
<1> SUFFICES ASSUME ~ Fail PROVE ConfigInv'
  BY FailKeeps
<1> USE DEF ConfigInv
<1>1. /\ UNCHANGED << settings, file, phase, users, shared, controller >>
      /\ user \in todo /\ todo' = todo \ {user} /\ phase \in {"usernames", "accounts"}
  BY DEF CheckUsername, CheckAccount, Done
<1>2. users[user] \in User
  BY <1>1 DEF ConfigTypeOK, UsersSoFar
<1>3. ConfigTypeOK'
  BY <1>1, <1>2 DEF ConfigTypeOK, CheckUsername, CheckAccount, User, Strings
<1>4. UserRecords' /\ Ids'
  BY <1>1 DEF UserRecords, Ids, Faithful, TextOf, NumberOf, NoneLeft, Value, Has, Item
<1>5. SectionsAccepted' = SectionsAccepted
  BY <1>1 DEF SectionsAccepted, StatisticsAccepted, BroadcastAccepted, TargetsAccepted,
         ErrorAccepted, Has, Value
<1>6. UsersSoFar' /\ SectionsSoFar' /\ TablesSoFar'
  BY <1>1, <1>5 DEF UsersSoFar, SectionsSoFar, TablesSoFar
<1>7. UserKeys(file) \ todo' = (UserKeys(file) \ todo) \cup {user}
  BY <1>1
<1>8. NamesSoFar'
  BY <1>1, <1>7 DEF NamesSoFar, DistinctNames, CheckUsername, CheckAccount
<1>9. AccountsSoFar'
  BY <1>1, <1>7 DEF AccountsSoFar, DistinctAccounts, CheckUsername, CheckAccount
<1> QED
  BY <1>3, <1>4, <1>6, <1>8, <1>9

(***************************************************************************)
(* The loops that build the tables.                                        *)
(***************************************************************************)
LEMMA TablesGrow ==
  ASSUME NEW user \in UserKeys(file), ConfigInv, ExtractUser(user) \/ CreateUser(user)
  PROVE  ConfigInv'
<1> SUFFICES ASSUME ~ Fail PROVE ConfigInv'
  BY FailKeeps
<1> USE DEF ConfigInv
<1>1. /\ UNCHANGED << settings, file, phase, users, names, accounts >>
      /\ user \in todo /\ todo' = todo \ {user} /\ phase \in {"shared", "controller"}
  BY DEF ExtractUser, CreateUser, Done
<1>2. users[user] \in User /\ users[user].username \in Texts
  BY <1>1 DEF ConfigTypeOK, UsersSoFar, User
<1>3. ConfigTypeOK'
  BY <1>1, <1>2 DEF ConfigTypeOK, ExtractUser, CreateUser, Emplace
<1>4. UserRecords' /\ Ids'
  BY <1>1 DEF UserRecords, Ids, Faithful, TextOf, NumberOf, NoneLeft, Value, Has, Item
<1>5. SectionsAccepted' = SectionsAccepted
  BY <1>1 DEF SectionsAccepted, StatisticsAccepted, BroadcastAccepted, TargetsAccepted,
         ErrorAccepted, Has, Value
<1>6. UsersSoFar' /\ SectionsSoFar' /\ NamesSoFar' /\ AccountsSoFar'
  BY <1>1, <1>5 DEF UsersSoFar, SectionsSoFar, NamesSoFar, AccountsSoFar, DistinctNames,
         DistinctAccounts
<1>7. /\ UserKeys(file) \ todo' = (UserKeys(file) \ todo) \cup {user}
      /\ DistinctNames((UserKeys(file) \ todo) \cup {user})
  BY <1>1 DEF NamesSoFar, DistinctNames
<1>8. user \notin UserKeys(file) \ todo
  BY <1>1
<1>9. TablesSoFar'
  <2>1. CASE ExtractUser(user)
    <3>1. phase = "shared" /\ shared' = Emplace(shared, users[user].username, users[user])
          /\ controller' = controller
      BY <1>1, <2>1 DEF ExtractUser
    <3>2. Built(shared, UserKeys(file) \ todo)
      BY <3>1 DEF TablesSoFar
    <3>3. Built(Emplace(shared, users[user].username, users[user]),
                (UserKeys(file) \ todo) \cup {user})
      BY <1>7, <1>8, <3>2, BuiltGrows
    <3>4. Built(shared', UserKeys(file) \ todo')
      BY <1>7, <3>1, <3>3
    <3> QED BY <1>1, <3>1, <3>4 DEF TablesSoFar, Built
  <2>2. CASE CreateUser(user)
    <3>1. phase = "controller" /\ controller' = Emplace(controller, users[user].username, users[user])
          /\ shared' = shared
      BY <1>1, <2>2 DEF CreateUser
    <3>2. Built(controller, UserKeys(file) \ todo)
      BY <3>1 DEF TablesSoFar
    <3>3. Built(Emplace(controller, users[user].username, users[user]),
                (UserKeys(file) \ todo) \cup {user})
      BY <1>7, <1>8, <3>2, BuiltGrows
    <3>4. Built(controller', UserKeys(file) \ todo')
      BY <1>7, <3>1, <3>3
    <3> QED BY <1>1, <3>1, <3>4 DEF TablesSoFar, Built
  <2> QED BY <2>1, <2>2
<1> QED
  BY <1>3, <1>4, <1>6, <1>9

(***************************************************************************)
(* The loop that reads the users: the next id is not taken.                *)
(***************************************************************************)
LEMMA ReadUserKeeps ==
  ASSUME NEW user \in UserKeys(file), ConfigInv, ReadUser(user)
  PROVE  ConfigInv'
<1> SUFFICES ASSUME ~ Fail PROVE ConfigInv'
  BY FailKeeps
<1> USE DEF ConfigInv
<1>1. /\ UNCHANGED << settings, file, phase, names, accounts, shared, controller >>
      /\ user \in todo /\ todo' = todo \ {user} /\ phase = "users"
      /\ users' = Emplace(users, user, UserOf(user))
      /\ ItemsReadable(user) /\ UserValid(user) /\ NoneLeft(user)
  BY DEF ReadUser, Done
<1>2. /\ user \notin DOMAIN users /\ DOMAIN users \subseteq UserKeys(file)
      /\ DOMAIN users' = DOMAIN users \cup {user}
      /\ users'[user] = UserOf(user)
      /\ \A other \in DOMAIN users : users'[other] = users[other]
  BY <1>1 DEF UsersSoFar, ConfigTypeOK, Emplace
<1>3. /\ IsFiniteSet(UserKeys(file)) /\ IsFiniteSet(DOMAIN users) /\ IsFiniteSet(DOMAIN users')
      /\ DOMAIN users' \subseteq UserKeys(file)
      /\ Cardinality(UserKeys(file)) < IdModulus
  BY <1>2, IdAssumption, FS_Subset DEF ConfigTypeOK
<1>4. /\ Cardinality(DOMAIN users) \in Nat /\ IdModulus \in Nat \ {0}
      /\ Cardinality(DOMAIN users') = Cardinality(DOMAIN users) + 1
      /\ Cardinality(DOMAIN users) + 1 < IdModulus
  <2>1. /\ Cardinality(DOMAIN users) \in Nat /\ Cardinality(UserKeys(file)) \in Nat
        /\ Cardinality(DOMAIN users') = Cardinality(DOMAIN users) + 1
    BY <1>2, <1>3, FS_AddElement, FS_CardinalityType
  <2>2. Cardinality(DOMAIN users') <= Cardinality(UserKeys(file))
    BY <1>3, FS_Subset
  <2> QED BY <1>3, <2>1, <2>2, IdAssumption
<1>5. NextUserId = Cardinality(DOMAIN users')
  BY <1>4, SmallModulo DEF NextUserId
<1>6. UserOf(user) \in User
  <2>1. /\ TextOf(user, "component") \in Strings /\ TextOf(user, "username") \in Texts
        /\ TextOf(user, "password") \in Strings /\ TextOf(user, "account") \in Strings
        /\ NumberOf(user, "strategy_id") \in Nat
    <3>1. \A key \in {"component", "username", "password", "account"} : TextOf(user, key) \in Strings
      BY <1>1 DEF ItemsReadable
    <3>2. TextOf(user, "username") \in Texts
      BY <1>1, <3>1 DEF UserValid, Strings
    <3>3. NumberOf(user, "strategy_id") \in Nat
      <4>1. NumberOf(user, "strategy_id") \in Numbers \cup {0}
        BY <1>1 DEF ItemsReadable
      <4>2. Numbers \cup {0} \subseteq Nat
        BY NumberAssumption
      <4> QED BY <4>1, <4>2
    <3> QED BY <3>1, <3>2, <3>3
  <2>2. NextUserId \in 0 .. IdModulus - 1
    BY <1>4, <1>5
  <2> QED BY <2>1, <2>2 DEF UserOf, User
<1>7. ConfigTypeOK'
  BY <1>1, <1>2, <1>3, <1>6 DEF ConfigTypeOK, Emplace
<1>8. UserRecords'
  <2>1. \A other \in DOMAIN users : Faithful(other)'
    BY <1>1, <1>2 DEF UserRecords, Faithful, TextOf, NumberOf, NoneLeft, Value, Has, Item
  <2>2. Faithful(user)'
    BY <1>1, <1>2 DEF Faithful, UserOf, UserValid, TextOf, NumberOf, NoneLeft, Value, Has, Item
  <2> QED BY <1>2, <2>1, <2>2 DEF UserRecords
<1>9. Ids'
  <2>1. users'[user].user_id = Cardinality(DOMAIN users')
    BY <1>2, <1>5 DEF UserOf
  <2>2. \A other \in DOMAIN users : users'[other].user_id \in 1 .. Cardinality(DOMAIN users)
    BY <1>2 DEF Ids
  <2> QED BY <1>2, <1>4, <2>1, <2>2 DEF Ids
<1>10. UsersSoFar' /\ SectionsSoFar' /\ NamesSoFar' /\ AccountsSoFar' /\ TablesSoFar'
  BY <1>1, <1>2 DEF UsersSoFar, SectionsSoFar, NamesSoFar, AccountsSoFar, TablesSoFar, ConfigTypeOK
<1> QED
  BY <1>7, <1>8, <1>9, <1>10

LEMMA StepKeeps == ConfigInv /\ [Next]_vars => ConfigInv'
<1> SUFFICES ASSUME ConfigInv, [Next]_vars PROVE ConfigInv'
  OBVIOUS
<1>1. CASE BetweenLoops
  BY <1>1, BetweenLoopsKeeps
<1>2. CASE \E user \in UserKeys(file) : ReadUser(user)
  BY <1>2, ReadUserKeeps
<1>3. CASE \E user \in UserKeys(file) : CheckUsername(user) \/ CheckAccount(user)
  BY <1>3, ChecksKeep
<1>4. CASE \E user \in UserKeys(file) : ExtractUser(user) \/ CreateUser(user)
  BY <1>4, TablesGrow
<1>5. CASE UNCHANGED vars
  <2> USE <1>5 DEF vars
  <2>1. UserRecords' /\ Ids' /\ ConfigTypeOK'
    BY DEF ConfigInv, ConfigTypeOK, UserRecords, Ids, Faithful, TextOf, NumberOf, NoneLeft, Value,
           Has, Item
  <2>2. SectionsAccepted' = SectionsAccepted
    BY DEF SectionsAccepted, StatisticsAccepted, BroadcastAccepted, TargetsAccepted,
         ErrorAccepted, Has, Value
  <2>3. UsersSoFar' /\ SectionsSoFar' /\ NamesSoFar' /\ AccountsSoFar' /\ TablesSoFar'
    BY <2>2 DEF ConfigInv, UsersSoFar, SectionsSoFar, NamesSoFar, AccountsSoFar, TablesSoFar,
                DistinctNames, DistinctAccounts, Built
  <2> QED BY <2>1, <2>3 DEF ConfigInv
<1> QED
  BY <1>1, <1>2, <1>3, <1>4, <1>5 DEF Next, BetweenLoops

LEMMA AlwaysConfigInv == Spec => []ConfigInv
BY InitHolds, StepKeeps, PTL DEF Spec

-----------------------------------------------------------------------------
(***************************************************************************)
(* All state of the start-up is typed: users have names, tables are by     *)
(* name.                                                                   *)
(***************************************************************************)
THEOREM ConfigTypeCorrect == Spec => []ConfigTypeOK
<1>1. ConfigInv => ConfigTypeOK
  BY DEF ConfigInv
<1> QED
  BY <1>1, AlwaysConfigInv, PTL

(***************************************************************************)
(* Shared and Controller accept every user that Config accepted.           *)
(***************************************************************************)
THEOREM LaterChecksAlwaysPass == Spec => LaterChecksPass
<1>1. ConfigInv /\ [Next]_vars =>
        [(phase \in {"shared", "controller"}) => (phase' # "failed")]_vars
  <2> SUFFICES ASSUME ConfigInv, Next, phase \in {"shared", "controller"}
               PROVE  phase' # "failed"
    BY DEF vars
  <2>1. CASE UsersExtracted \/ UsersCreated
    BY <2>1 DEF UsersExtracted, UsersCreated
  <2>2. ASSUME NEW user \in UserKeys(file), ExtractUser(user) PROVE phase' # "failed"
    BY <2>2, NoClash DEF ExtractUser, ConfigInv, ConfigTypeOK, NamesSoFar, AccountsSoFar, TablesSoFar
  <2>3. ASSUME NEW user \in UserKeys(file), CreateUser(user) PROVE phase' # "failed"
    BY <2>3, NoClash DEF CreateUser, ConfigInv, ConfigTypeOK, NamesSoFar, AccountsSoFar, TablesSoFar
  <2> QED
    BY <2>1, <2>2, <2>3 DEF Next, ReadSymbols, UsersRead, ReadSections, UsernamesChecked,
       AccountsChecked, ReadUser, CheckUsername, CheckAccount
<1> QED
  BY <1>1, AlwaysConfigInv, PTL DEF Spec, LaterChecksPass

(***************************************************************************)
(* The users served are those of the file, each with an id of its own.     *)
(***************************************************************************)
THEOREM UsersAlwaysIdentified == Spec => []UsersIdentified
<1>1. ConfigInv => UsersIdentified
  <2> SUFFICES ASSUME ConfigInv, phase = "serving" PROVE UsersIdentified
    BY DEF UsersIdentified
  <2>1. /\ DOMAIN users = UserKeys(file) /\ UserRecords /\ Ids
        /\ Built(shared, UserKeys(file)) /\ Built(controller, UserKeys(file))
    BY DEF ConfigInv, UsersSoFar, TablesSoFar
  <2>2. \A user \in UserKeys(file) : Serves(shared, user) /\ Serves(controller, user)
    BY <2>1 DEF Serves, UserRecords, Faithful, Built
  <2>3. \A user \in UserKeys(file) : users[user].user_id # 0
    BY <2>1 DEF Ids
  <2>4. \A name \in DOMAIN controller : \E user \in UserKeys(file) : name = TextOf(user, "username")
    BY <2>1 DEF Built, UserRecords, Faithful
  <2> QED BY <2>1, <2>2, <2>3, <2>4 DEF UsersIdentified, Ids
<1> QED
  BY <1>1, AlwaysConfigInv, PTL

(***************************************************************************)
(* Users share an account only if their expressions differ and overlap.    *)
(***************************************************************************)
THEOREM AccountsSharedByOverlap == Spec => []SharedOnlyByOverlap
<1>1. ConfigInv => SharedOnlyByOverlap
  <2> SUFFICES ASSUME ConfigInv, phase = "serving", NEW account \in Accounts
               PROVE  /\ (\E expression \in Subscribed : account \in Matches[expression])
                           <=> Traders(account) # {}
                      /\ \A name, other \in Traders(account) :
                           controller[name].account = controller[other].account
                             => name = other
    BY DEF SharedOnlyByOverlap
  <2>1. /\ DOMAIN users = UserKeys(file) /\ Built(controller, UserKeys(file))
        /\ DistinctNames(UserKeys(file)) /\ DistinctAccounts(UserKeys(file))
    BY DEF ConfigInv, UsersSoFar, TablesSoFar, NamesSoFar, AccountsSoFar
  <2>2. ASSUME NEW expression \in Subscribed, account \in Matches[expression]
        PROVE  Traders(account) # {}
    <3>1. PICK user \in UserKeys(file) :
            users[user].account = expression /\ expression # EmptyText
      BY <2>1 DEF Subscribed
    <3>2. users[user].username \in Traders(account)
      BY <2>1, <2>2, <3>1 DEF Built, Traders
    <3> QED BY <3>2
  <2>3. ASSUME NEW name \in Traders(account)
        PROVE  \E expression \in Subscribed : account \in Matches[expression]
    <3>1. /\ name \in DOMAIN controller /\ controller[name].account # EmptyText
          /\ account \in Matches[controller[name].account]
      BY <2>3 DEF Traders
    <3>2. controller[name].account \in Subscribed
      BY <2>1, <3>1 DEF Built, Subscribed
    <3> QED BY <3>1, <3>2
  <2>4. ASSUME NEW name \in Traders(account), NEW other \in Traders(account),
               controller[name].account = controller[other].account
        PROVE  name = other
    BY <2>1, <2>4 DEF Traders, Built, DistinctNames, DistinctAccounts
  <2> QED BY <2>2, <2>3, <2>4
<1> QED
  BY <1>1, AlwaysConfigInv, PTL

-----------------------------------------------------------------------------
(***************************************************************************)
(* An item is among the keys of the table that holds it.                   *)
(***************************************************************************)
LEMMA KeyAtTop ==
  ASSUME NEW document \in Documents, NEW path \in DOMAIN document
  PROVE  path[1] \in Keys(document, <<>>)
<1>1. /\ path \in Seq(STRING) /\ Len(path) \in Nat /\ Len(path) >= 1
      /\ SubSeq(path, 1, 1) \in DOMAIN document
  BY DocumentAssumption
<1>2. /\ Len(SubSeq(path, 1, 1)) = 1 /\ SubSeq(path, 1, 1)[1] = path[1]
  BY <1>1
<1>3. Len(<<>>) = 0
  OBVIOUS
<1> DEFINE item == SubSeq(path, 1, 1)
<1>4. item \in {other \in DOMAIN document :
        /\ Len(other) = Len(<<>>) + 1
        /\ \A position \in 1 .. Len(<<>>) : other[position] = <<>>[position]}
  BY <1>1, <1>2, <1>3
<1>5. item[Len(<<>>) + 1] = path[1]
  BY <1>2, <1>3
<1> QED
  BY <1>4, <1>5 DEF Keys

LEMMA KeysBelow ==
  ASSUME NEW document \in Documents, NEW path \in DOMAIN document, Len(path) = 3
  PROVE  /\ path[2] \in Keys(document, <<path[1]>>)
         /\ path[3] \in Keys(document, <<path[1], path[2]>>)
<1> DEFINE one == <<path[1]>>
           two == <<path[1], path[2]>>
           prefix == SubSeq(path, 1, 2)
<1>1. path \in Seq(STRING) /\ prefix \in DOMAIN document
  <2>1. 2 \in 1 .. Len(path)
    OBVIOUS
  <2> HIDE DEF prefix
  <2>2. \A length \in 1 .. Len(path) : SubSeq(path, 1, length) \in DOMAIN document
    BY DocumentAssumption
  <2>3. SubSeq(path, 1, 2) \in DOMAIN document
    BY <2>1, <2>2
  <2>4. path \in Seq(STRING)
    BY DocumentAssumption
  <2> QED BY <2>3, <2>4 DEF prefix
<1>2. Len(prefix) = 2 /\ prefix[1] = path[1] /\ prefix[2] = path[2]
  BY <1>1
<1>3. Len(one) = 1 /\ one[1] = path[1] /\ Len(two) = 2 /\ two[1] = path[1] /\ two[2] = path[2]
  OBVIOUS
<1> HIDE DEF one, two, prefix
<1>4. path[2] \in Keys(document, one)
  <2>1. prefix \in {other \in DOMAIN document :
          /\ Len(other) = Len(one) + 1
          /\ \A position \in 1 .. Len(one) : other[position] = one[position]}
    BY <1>1, <1>2, <1>3
  <2>2. prefix[Len(one) + 1] = path[2]
    BY <1>2, <1>3
  <2> QED BY <2>1, <2>2 DEF Keys
<1>5. path[3] \in Keys(document, two)
  <2>1. path \in {other \in DOMAIN document :
          /\ Len(other) = Len(two) + 1
          /\ \A position \in 1 .. Len(two) : other[position] = two[position]}
    BY <1>1, <1>3
  <2>2. path[Len(two) + 1] = path[3]
    BY <1>3
  <2> QED BY <2>1, <2>2 DEF Keys
<1> QED
  BY <1>4, <1>5 DEF one, two

(***************************************************************************)
(* A bridge that serves has looked at every item of its file, those of the *)
(* symbols of gateways excepted.                                           *)
(***************************************************************************)
THEOREM NothingEverIgnored == Spec => []NothingIgnored
<1>1. ConfigInv => NothingIgnored
  <2> SUFFICES ASSUME ConfigInv, phase = "serving", NEW path \in DOMAIN file, path[1] # "symbols"
               PROVE  ~ Unknown(path)
    BY DEF NothingIgnored
  <2>1. /\ file \in Documents /\ SectionsAccepted
        /\ \A user \in UserKeys(file) : NoneLeft(user)
    BY DEF ConfigInv, ConfigTypeOK, SectionsSoFar, UsersSoFar, UserRecords, Faithful
  <2>2. path[1] \in Sections
    BY <2>1, KeyAtTop DEF SectionsAccepted
  <2>3. ASSUME Len(path) = 3 PROVE path[3] \in ItemsOf[path[1]]
    <3>1. path[2] \in Keys(file, <<path[1]>>) /\ path[3] \in Keys(file, <<path[1], path[2]>>)
      BY <2>1, <2>3, KeysBelow
    <3>2. CASE path[1] = "users"
      <4>1. Keys(file, <<"users", path[2]>>) \subseteq UserItems
        BY <2>1, <3>1, <3>2 DEF UserKeys, NoneLeft
      <4> QED BY <3>1, <3>2, <4>1 DEF ItemsOf
    <3>3. CASE path[1] = "statistics"
      <4>1. Keys(file, <<"statistics", path[2]>>) \subseteq {"fix_md_entry_type", "default_value"}
        BY <2>1, <3>1, <3>3 DEF SectionsAccepted, StatisticsAccepted
      <4> QED BY <3>1, <3>3, <4>1 DEF ItemsOf
    <3>4. CASE path[1] = "broadcast"
      <4>1. Keys(file, <<"broadcast", path[2]>>) \subseteq {"exchange", "source_regex", "targets_regex"}
        BY <2>1, <3>1, <3>4 DEF SectionsAccepted, BroadcastAccepted
      <4> QED BY <3>1, <3>4, <4>1 DEF ItemsOf
    <3>5. CASE path[1] = "errors"
      <4>1. \A key \in Keys(file, <<"errors", path[2]>>) : key = "cxl_rej_reason"
        BY <2>1, <3>1, <3>5 DEF SectionsAccepted, ErrorAccepted
      <4> QED BY <3>1, <3>5, <4>1 DEF ItemsOf
    <3> QED BY <2>2, <3>2, <3>3, <3>4, <3>5 DEF Sections
  <2> QED BY <2>2, <2>3 DEF Unknown
<1> QED
  BY <1>1, AlwaysConfigInv, PTL
-----------------------------------------------------------------------------
(***************************************************************************)
(* The schema of a file, and what the phases check, say the same.          *)
(***************************************************************************)
LEMMA HasIsTopKey ==
  ASSUME NEW document \in Documents, NEW key
  PROVE  Has(document, <<key>>) <=> key \in Keys(document, <<>>)
<1>1. Len(<<>>) = 0 /\ Len(<<key>>) = 1 /\ <<key>>[1] = key
  OBVIOUS
<1>2. ASSUME Has(document, <<key>>) PROVE key \in Keys(document, <<>>)
  BY <1>1, <1>2, KeyAtTop DEF Has
<1>3. ASSUME key \in Keys(document, <<>>) PROVE Has(document, <<key>>)
  <2>1. PICK item \in DOMAIN document : Len(item) = 1 /\ item[1] = key
    BY <1>1, <1>3 DEF Keys
  <2>2. item \in Seq(STRING)
    BY DocumentAssumption
  <2>3. item = <<key>>
    BY <2>1, <2>2
  <2> QED BY <2>3 DEF Has
<1> QED
  BY <1>2, <1>3

LEMMA HasIsKey ==
  ASSUME NEW document \in Documents, NEW section, NEW entry, NEW key
  PROVE  Has(document, <<section, entry, key>>) <=> key \in Keys(document, <<section, entry>>)
<1> DEFINE table == <<section, entry>>
           path == <<section, entry, key>>
<1>1. /\ Len(table) = 2 /\ table[1] = section /\ table[2] = entry
      /\ Len(path) = 3 /\ path[1] = section /\ path[2] = entry /\ path[3] = key
  OBVIOUS
<1>2. ASSUME Has(document, path) PROVE key \in Keys(document, table)
  BY <1>1, <1>2, KeysBelow DEF Has
<1>3. ASSUME key \in Keys(document, table) PROVE Has(document, path)
  <2> HIDE DEF table
  <2>1. PICK item \in DOMAIN document :
          /\ Len(item) = 3 /\ item[3] = key
          /\ \A position \in 1 .. 2 : item[position] = table[position]
    BY <1>1, <1>3 DEF Keys
  <2>2. item \in Seq(STRING) /\ item[1] = section /\ item[2] = entry
    BY <1>1, <2>1, DocumentAssumption
  <2>3. item = path
    BY <2>1, <2>2
  <2> QED BY <2>3 DEF Has
<1> QED
  BY <1>2, <1>3

LEMMA GatewayEntry ==
  ASSUME file \in Documents, NEW gateway
  PROVE  GatewayValid(gateway) <=> GatewayAccepted(gateway)
<1> DEFINE items == Keys(file, <<"symbols", gateway>>)
           value(key) == file[<<"symbols", gateway, key>>]
<1>1. Has(file, <<"symbols", gateway, "regex">>) <=> "regex" \in items
  BY HasIsKey
<1> HIDE DEF items, value
<1>2. EntryValid("symbols", gateway) <=>
        "regex" \in items /\ \A key \in items : GatewayItem(key, value(key))
  BY DEF EntryValid, RequiredItems, ItemValid, items, value
<1>3. EntryValid("symbols", gateway) <=> "regex" \in items /\ value("regex") \in Regexes
  BY <1>2 DEF GatewayItem
<1> QED
  BY <1>1, <1>3 DEF GatewayValid, GatewayAccepted, Value, value

LEMMA UserEntry ==
  ASSUME file \in Documents, NEW user
  PROVE  EntryValid("users", user) <=> ItemsReadable(user) /\ UserValid(user) /\ NoneLeft(user)
<1> DEFINE items == Keys(file, <<"users", user>>)
           value(key) == file[<<"users", user, key>>]
<1>1. \A key : /\ Has(file, Item(user, key)) <=> key \in items
               /\ Value(Item(user, key)) = value(key)
  BY HasIsKey DEF Item, Value
<1> HIDE DEF items, value
<1>2. EntryValid("users", user) <=>
        {"component", "username"} \subseteq items /\ \A key \in items : UserItem(key, value(key))
  BY DEF EntryValid, RequiredItems, ItemValid, items, value
<1>3. NoneLeft(user) <=> items \subseteq UserItems
  BY DEF NoneLeft, items
<1>4. ASSUME EntryValid("users", user)
      PROVE  ItemsReadable(user) /\ UserValid(user) /\ NoneLeft(user)
  <2>1. items \subseteq UserItems
    BY <1>2, <1>4 DEF UserItem, UserItems
  <2>2. /\ "username" \in items => value("username") \in Texts
        /\ \A key \in {"component", "password"} : key \in items => value(key) \in Strings
        /\ "account" \in items => /\ value("account") \in Strings
                                  /\ settings.route_by_strategy => value("account") = EmptyText
    BY <1>2, <1>4 DEF UserItem
  <2>3. /\ "strategy_id" \in items => value("strategy_id") \in Numbers \cup {0}
        /\ "accounts" \in items => /\ value("accounts") # MixedList
                                   /\ settings.route_by_strategy => value("accounts") \in Regexes
        /\ "symbols" \in items => value("symbols") \in Regexes /\ settings.route_by_strategy
    BY <1>2, <1>4 DEF UserItem
  <2>4. "component" \in items /\ "username" \in items
    BY <1>2, <1>4
  <2>5. ItemsReadable(user)
    BY <1>1, <2>2, <2>3, <2>4
       DEF ItemsReadable, TextOf, NumberOf, AccountsReadable, SymbolsReadable, Strings
  <2>6. UserValid(user)
    BY <1>1, <2>2, <2>4, TextAssumption DEF UserValid, TextOf
  <2> QED BY <1>3, <2>1, <2>5, <2>6
<1>5. ASSUME ItemsReadable(user), UserValid(user), NoneLeft(user)
      PROVE  EntryValid("users", user)
  <2>1. /\ {"component", "username"} \subseteq items
        /\ \A key \in {"component", "username", "password", "account"} :
             key \in items => value(key) \in Strings
        /\ "strategy_id" \in items => value("strategy_id") \in Numbers \cup {0}
        /\ "accounts" \in items => /\ value("accounts") # MixedList
                                   /\ settings.route_by_strategy => value("accounts") \in Regexes
        /\ "symbols" \in items => value("symbols") \in Regexes /\ settings.route_by_strategy
    BY <1>1, <1>5 DEF ItemsReadable, TextOf, NumberOf, AccountsReadable, SymbolsReadable
  <2>2. /\ value("username") # EmptyText
        /\ "account" \in items /\ settings.route_by_strategy => value("account") = EmptyText
    BY <1>1, <1>5, <2>1 DEF UserValid, TextOf
  <2>3. ASSUME NEW key \in items PROVE UserItem(key, value(key))
    <3>1. key \in UserItems
      BY <1>3, <1>5
    <3> QED BY <2>1, <2>2, <3>1 DEF UserItem, UserItems, Strings
  <2> QED BY <1>2, <2>1, <2>3
<1> QED
  BY <1>4, <1>5

LEMMA StatisticsEntry ==
  ASSUME file \in Documents, NEW type \in StatisticsTypes
  PROVE  EntryValid("statistics", type) <=> StatisticsAccepted(type)
<1> DEFINE items == Keys(file, <<"statistics", type>>)
           value(key) == file[<<"statistics", type, key>>]
<1>1. \A key : Has(file, <<"statistics", type, key>>) <=> key \in items
  BY HasIsKey
<1> HIDE DEF items, value
<1>2. EntryValid("statistics", type) <=>
        "fix_md_entry_type" \in items /\ \A key \in items : StatisticsItem(key, value(key))
  BY DEF EntryValid, RequiredItems, ItemValid, items, value
<1>3. StatisticsAccepted(type) <=>
        /\ "fix_md_entry_type" \in items /\ value("fix_md_entry_type") \in MDEntryTypes
        /\ "default_value" \in items => settings.init_to_zero
        /\ items \subseteq {"fix_md_entry_type", "default_value"}
  BY <1>1 DEF StatisticsAccepted, Value, items, value
<1> QED
  BY <1>2, <1>3 DEF StatisticsItem

LEMMA BroadcastEntry ==
  ASSUME file \in Documents, NEW name
  PROVE  EntryValid("broadcast", name) <=> BroadcastAccepted(name)
<1> DEFINE items == Keys(file, <<"broadcast", name>>)
           value(key) == file[<<"broadcast", name, key>>]
           known == {"exchange", "source_regex", "targets_regex"}
<1>1. \A key : Has(file, <<"broadcast", name, key>>) <=> key \in items
  BY HasIsKey
<1> HIDE DEF items, value
<1>2. EntryValid("broadcast", name) <=>
        known \subseteq items /\ \A key \in items : BroadcastItem(key, value(key))
  BY DEF EntryValid, RequiredItems, ItemValid, items, value
<1>3. BroadcastAccepted(name) <=>
        /\ \A key \in {"exchange", "source_regex"} : key \in items /\ value(key) \in Texts
        /\ "targets_regex" \in items /\ value("targets_regex") \in Regexes \ {EmptyList}
        /\ items \subseteq known
  BY <1>1 DEF BroadcastAccepted, TargetsAccepted, Value, items, value
<1> QED
  BY <1>2, <1>3 DEF BroadcastItem

LEMMA ErrorEntry ==
  ASSUME NEW error
  PROVE  EntryValid("errors", error) <=> ErrorAccepted(error)
  BY DEF EntryValid, RequiredItems, ItemValid, ErrorItem, ErrorAccepted, Value

SymbolsAccepted ==
  /\ Has(file, <<"symbols">>) /\ Value(<<"symbols">>) = Table
  /\ \A gateway \in Keys(file, <<"symbols">>) : GatewayAccepted(gateway)
  /\ Has(file, <<"users">>)

UserAccepted(user) == ItemsReadable(user) /\ UserValid(user) /\ NoneLeft(user)

LEMMA ValidFileIsAccepted ==
  ASSUME file \in Documents
  PROVE  ValidFile <=> /\ SymbolsAccepted
                       /\ \A user \in UserKeys(file) : UserAccepted(user)
                       /\ SectionsAccepted
                       /\ DistinctUsers
<1>1. Has(file, <<"symbols">>) <=> "symbols" \in Keys(file, <<>>)
  BY HasIsTopKey
<1>2. Has(file, <<"users">>) <=> "users" \in Keys(file, <<>>)
  BY HasIsTopKey
<1>3. SymbolsAccepted <=>
        /\ {"symbols", "users"} \subseteq Keys(file, <<>>)
        /\ file[<<"symbols">>] = Table
        /\ \A gateway \in Keys(file, <<"symbols">>) : GatewayValid(gateway)
  BY <1>1, <1>2, GatewayEntry DEF SymbolsAccepted, Value
<1>4. (\A user \in Keys(file, <<"users">>) : EntryValid("users", user)) <=>
        \A user \in UserKeys(file) : UserAccepted(user)
  BY UserEntry DEF UserAccepted, UserKeys
<1>5. (/\ Keys(file, <<"statistics">>) \subseteq StatisticsTypes
       /\ \A type \in Keys(file, <<"statistics">>) : EntryValid("statistics", type))
      <=> \A type \in Keys(file, <<"statistics">>) : StatisticsAccepted(type)
  BY StatisticsEntry DEF StatisticsAccepted
<1>6. (\A name \in Keys(file, <<"broadcast">>) : EntryValid("broadcast", name)) <=>
        \A name \in Keys(file, <<"broadcast">>) : BroadcastAccepted(name)
  BY BroadcastEntry
<1>7. (\A error \in Keys(file, <<"errors">>) : EntryValid("errors", error)) <=>
        \A error \in Keys(file, <<"errors">>) : ErrorAccepted(error)
  BY ErrorEntry
<1> QED
  BY <1>3, <1>4, <1>5, <1>6, <1>7 DEF ValidFile, SectionsAccepted

-----------------------------------------------------------------------------
(***************************************************************************)
(* What each phase has established of the file, and that a phase fails for *)
(* a reason that is in the file.                                           *)
(***************************************************************************)
AcceptedSoFar ==
  /\ phase \notin {"symbols", "failed"} => SymbolsAccepted
  /\ \A user \in DOMAIN users :
       UserAccepted(user) /\ users[user].account = TextOf(user, "account")

NamesAreOfUsers ==
  /\ phase \in {"symbols", "users", "sections"} => names = {}
  /\ phase = "usernames" =>
       \A name \in names : \E user \in UserKeys(file) \ todo : users[user].username = name

AccountsAreOfUsers ==
  /\ phase \in {"symbols", "users", "sections", "usernames"} => accounts = {}
  /\ phase = "accounts" =>
       \A account \in accounts :
         /\ account # EmptyText
         /\ \E user \in UserKeys(file) \ todo : users[user].account = account

OutcomeInv ==
  /\ AcceptedSoFar /\ NamesAreOfUsers /\ AccountsAreOfUsers
  /\ phase = "failed" => ~ ValidFile

(***************************************************************************)
(* What is said of the file and the flags alone does not change.           *)
(***************************************************************************)
LEMMA FileStays ==
  ASSUME UNCHANGED << settings, file >>
  PROVE  /\ ValidFile' = ValidFile
         /\ SymbolsAccepted' = SymbolsAccepted
         /\ \A user : UserAccepted(user)' = UserAccepted(user)
         /\ \A user, key : TextOf(user, key)' = TextOf(user, key)
<1>1. /\ SymbolsAccepted' = SymbolsAccepted
      /\ \A gateway : GatewayAccepted(gateway)' = GatewayAccepted(gateway)
  BY DEF SymbolsAccepted, GatewayAccepted, Has, Value
<1>2. \A user, key : TextOf(user, key)' = TextOf(user, key)
  BY DEF TextOf, Item, Has, Value
<1>3. \A user : UserAccepted(user)' = UserAccepted(user)
  BY DEF UserAccepted, ItemsReadable, UserValid, NoneLeft, AccountsReadable, SymbolsReadable,
         TextOf, NumberOf, Item, Has, Value
<1>4. \A section, entry : EntryValid(section, entry)' = EntryValid(section, entry)
  BY DEF EntryValid, ItemValid, GatewayItem, UserItem, StatisticsItem, BroadcastItem, ErrorItem
<1>5. ValidFile' = ValidFile
  BY <1>2, <1>4 DEF ValidFile, GatewayValid, DistinctUsers, UserKeys
<1> QED
  BY <1>1, <1>2, <1>3, <1>5

LEMMA OutcomeInit == Init => OutcomeInv
  BY DEF Init, Nobody, OutcomeInv, AcceptedSoFar, NamesAreOfUsers, AccountsAreOfUsers

(***************************************************************************)
(* Two users with one name, or one account, are two entries of the file.   *)
(***************************************************************************)
LEMMA TakenNameIsInvalid ==
  ASSUME ConfigInv, OutcomeInv, NEW user \in todo, phase = "usernames",
         users[user].username \in names
  PROVE  ~ DistinctUsers
<1>1. /\ todo \subseteq UserKeys(file) /\ DOMAIN users = UserKeys(file)
      /\ \A other \in UserKeys(file) : users[other].username = TextOf(other, "username")
  BY DEF ConfigInv, ConfigTypeOK, UsersSoFar, UserRecords, Faithful
<1>2. PICK other \in UserKeys(file) \ todo : users[other].username = users[user].username
  BY DEF OutcomeInv, NamesAreOfUsers
<1> QED
  BY <1>1, <1>2 DEF DistinctUsers

LEMMA TakenAccountIsInvalid ==
  ASSUME ConfigInv, OutcomeInv, NEW user \in todo, phase = "accounts",
         users[user].account \in accounts
  PROVE  ~ DistinctUsers
<1>1. /\ todo \subseteq UserKeys(file) /\ DOMAIN users = UserKeys(file)
      /\ \A other \in UserKeys(file) : users[other].account = TextOf(other, "account")
  BY DEF ConfigInv, ConfigTypeOK, UsersSoFar, OutcomeInv, AcceptedSoFar
<1>2. PICK other \in UserKeys(file) \ todo : users[other].account = users[user].account
  BY DEF OutcomeInv, AccountsAreOfUsers
<1>3. users[user].account # EmptyText
  BY DEF OutcomeInv, AccountsAreOfUsers
<1> QED
  BY <1>1, <1>2, <1>3 DEF DistinctUsers

LEMMA FailsForAReason ==
  ASSUME ConfigInv, OutcomeInv, Next, phase' = "failed"
  PROVE  ~ ValidFile
<1>0. file \in Documents /\ todo \subseteq UserKeys(file)
  BY DEF ConfigInv, ConfigTypeOK
<1>1. CASE ReadSymbols
  BY <1>0, <1>1, ValidFileIsAccepted DEF ReadSymbols, SymbolsAccepted
<1>2. CASE ReadSections
  BY <1>0, <1>2, ValidFileIsAccepted DEF ReadSections
<1>3. ASSUME NEW user \in UserKeys(file), ReadUser(user) PROVE ~ ValidFile
  BY <1>0, <1>3, ValidFileIsAccepted DEF ReadUser, UserAccepted
<1>4. ASSUME NEW user \in UserKeys(file), CheckUsername(user) PROVE ~ ValidFile
  BY <1>0, <1>4, TakenNameIsInvalid, ValidFileIsAccepted DEF CheckUsername
<1>5. ASSUME NEW user \in UserKeys(file), CheckAccount(user) PROVE ~ ValidFile
  BY <1>0, <1>5, TakenAccountIsInvalid, ValidFileIsAccepted DEF CheckAccount
<1>6. ASSUME NEW user \in UserKeys(file), ExtractUser(user) \/ CreateUser(user) PROVE FALSE
  BY <1>0, <1>6, NoClash
  DEF ExtractUser, CreateUser, ConfigInv, NamesSoFar, AccountsSoFar, TablesSoFar
<1>7. CASE UsersRead \/ UsernamesChecked \/ AccountsChecked \/ UsersExtracted \/ UsersCreated
  BY <1>7 DEF UsersRead, UsernamesChecked, AccountsChecked, UsersExtracted, UsersCreated
<1> QED
  BY <1>1, <1>2, <1>3, <1>4, <1>5, <1>6, <1>7 DEF Next

LEMMA OutcomeStep == ConfigInv /\ OutcomeInv /\ [Next]_vars => OutcomeInv'
<1> SUFFICES ASSUME ConfigInv, OutcomeInv, [Next]_vars PROVE OutcomeInv'
  OBVIOUS
<1>1. UNCHANGED << settings, file >>
  BY DEF vars, Next, ReadSymbols, UsersRead, ReadSections, UsernamesChecked, AccountsChecked,
     UsersExtracted, UsersCreated, ReadUser, CheckUsername, CheckAccount, ExtractUser, CreateUser,
     Fail
<1>2. (phase = "failed" => ~ ValidFile)'
  <2>1. CASE Next
    BY <1>1, <2>1, FailsForAReason, FileStays
  <2>2. CASE UNCHANGED vars
    BY <1>1, <2>2, FileStays DEF vars, OutcomeInv
  <2> QED BY <2>1, <2>2
<1>3. todo \subseteq UserKeys(file) /\ UserKeys(file)' = UserKeys(file)
  BY <1>1 DEF ConfigInv, ConfigTypeOK
<1> DEFINE Kept == /\ \A user \in DOMAIN users : UserAccepted(user)'
                   /\ \A user \in DOMAIN users : users[user].account = TextOf(user, "account")'
<1>4. Kept
  BY <1>1, FileStays DEF OutcomeInv, AcceptedSoFar
<1>5. CASE Fail
  BY <1>2, <1>4, <1>5 DEF Fail, OutcomeInv, AcceptedSoFar, NamesAreOfUsers, AccountsAreOfUsers
<1>6. CASE UNCHANGED vars
  <2>1. SymbolsAccepted' = SymbolsAccepted
    BY <1>1, FileStays
  <2> QED
    BY <1>2, <1>3, <1>4, <1>6, <2>1
    DEF vars, OutcomeInv, AcceptedSoFar, NamesAreOfUsers, AccountsAreOfUsers
<1>7. CASE BetweenLoops /\ ~ Fail
  <2>1. UNCHANGED << users, names, accounts >>
    BY <1>7 DEF BetweenLoops, ReadSymbols, UsersRead, ReadSections, UsernamesChecked,
                AccountsChecked, UsersExtracted, UsersCreated
  <2>2. phase' \notin {"symbols", "failed"} => SymbolsAccepted'
    BY <1>1, <1>7, FileStays
       DEF OutcomeInv, AcceptedSoFar, BetweenLoops, ReadSymbols, SymbolsAccepted, UsersRead,
           ReadSections, UsernamesChecked, AccountsChecked, UsersExtracted, UsersCreated
  <2>3. AcceptedSoFar'
    BY <1>4, <2>1, <2>2 DEF AcceptedSoFar
  <2>4. NamesAreOfUsers' /\ AccountsAreOfUsers'
    BY <1>7, <2>1
       DEF OutcomeInv, NamesAreOfUsers, AccountsAreOfUsers, BetweenLoops, ReadSymbols, UsersRead,
           ReadSections, UsernamesChecked, AccountsChecked, UsersExtracted, UsersCreated
  <2> QED BY <1>2, <2>3, <2>4 DEF OutcomeInv
<1>8. ASSUME NEW user \in UserKeys(file), ReadUser(user), ~ Fail PROVE OutcomeInv'
  <2>1. /\ UNCHANGED << phase, names, accounts >> /\ phase = "users"
        /\ users' = Emplace(users, user, UserOf(user)) /\ UserAccepted(user)
    BY <1>8 DEF ReadUser, UserAccepted
  <2>2. users'[user].account = TextOf(user, "account")
    BY <2>1 DEF Emplace, UserOf
  <2>3. /\ DOMAIN users' = DOMAIN users \cup {user}
        /\ \A other \in DOMAIN users \ {user} : users'[other] = users[other]
    BY <2>1 DEF Emplace
  <2>4. SymbolsAccepted' /\ UserAccepted(user)' /\ TextOf(user, "account")' = TextOf(user, "account")
    BY <1>1, <2>1, FileStays DEF OutcomeInv, AcceptedSoFar
  <2>5. AcceptedSoFar'
    BY <1>4, <2>2, <2>3, <2>4 DEF AcceptedSoFar
  <2> QED BY <1>2, <2>1, <2>5 DEF OutcomeInv, NamesAreOfUsers, AccountsAreOfUsers
<1>9. ASSUME NEW user \in UserKeys(file), ~ Fail,
             CheckUsername(user) \/ CheckAccount(user) \/ ExtractUser(user) \/ CreateUser(user)
      PROVE  OutcomeInv'
  <2>1. /\ UNCHANGED << phase, users >> /\ user \in todo /\ todo' = todo \ {user}
        /\ phase \in {"usernames", "accounts", "shared", "controller"}
    BY <1>9 DEF CheckUsername, CheckAccount, ExtractUser, CreateUser, Done
  <2>2. AcceptedSoFar'
    BY <1>1, <1>4, <2>1, FileStays DEF OutcomeInv, AcceptedSoFar
  <2>3. UserKeys(file)' \ todo' = (UserKeys(file) \ todo) \cup {user}
    BY <1>3, <2>1
  <2>4. NamesAreOfUsers' /\ AccountsAreOfUsers'
    BY <1>9, <2>1, <2>3
       DEF OutcomeInv, NamesAreOfUsers, AccountsAreOfUsers, CheckUsername, CheckAccount,
           ExtractUser, CreateUser
  <2> QED BY <1>2, <2>2, <2>4 DEF OutcomeInv
<1> QED
  BY <1>5, <1>6, <1>7, <1>8, <1>9 DEF Next, BetweenLoops

LEMMA AlwaysOutcomeInv == Spec => [](ConfigInv /\ OutcomeInv)
BY InitHolds, OutcomeInit, StepKeeps, OutcomeStep, PTL DEF Spec

(***************************************************************************)
(* Whether the bridge starts depends on the file and the flags only: a     *)
(* phase that fails has met what the schema of the file forbids, and the   *)
(* phases together miss nothing of it.                                     *)
(***************************************************************************)
THEOREM AlwaysStartsIffValid == Spec => []StartsIffValid
<1>1. ConfigInv /\ OutcomeInv => StartsIffValid
  <2> SUFFICES ASSUME ConfigInv, OutcomeInv, phase = "serving" PROVE ValidFile
    BY DEF StartsIffValid, OutcomeInv
  <2>1. file \in Documents /\ DOMAIN users = UserKeys(file) /\ SectionsAccepted
    BY DEF ConfigInv, ConfigTypeOK, UsersSoFar, SectionsSoFar
  <2>2. SymbolsAccepted /\ \A user \in UserKeys(file) : UserAccepted(user)
    BY <2>1 DEF OutcomeInv, AcceptedSoFar
  <2>3. \A user \in UserKeys(file) : /\ users[user].username = TextOf(user, "username")
                                    /\ users[user].account = TextOf(user, "account")
    BY <2>1 DEF ConfigInv, UserRecords, Faithful, OutcomeInv, AcceptedSoFar
  <2>4. DistinctUsers
    BY <2>3 DEF DistinctUsers, ConfigInv, NamesSoFar, AccountsSoFar, DistinctNames, DistinctAccounts
  <2> QED BY <2>1, <2>2, <2>4, ValidFileIsAccepted
<1> QED
  BY <1>1, AlwaysOutcomeInv, PTL

(***************************************************************************)
(* Start-up ends: every step moves on to a later phase or takes a user off *)
(* the loop of its phase, and there are finitely many of each.             *)
(***************************************************************************)
PhaseNumber ==
  [symbols |-> 0, users |-> 1, sections |-> 2, usernames |-> 3, accounts |-> 4, shared |-> 5,
   controller |-> 6, serving |-> 7, failed |-> 8]

Advances ==
  \/ PhaseNumber[phase'] > PhaseNumber[phase]
  \/ phase' = phase /\ todo' \subseteq todo /\ Cardinality(todo') < Cardinality(todo)

(***************************************************************************)
(* Each step of the start-up brings its end closer.                        *)
(***************************************************************************)
THEOREM StartUpAdvances == Spec => [][Advances]_vars
<1>1. ConfigInv /\ [Next]_vars => [Advances]_vars
  <2> SUFFICES ASSUME ConfigInv, Next PROVE Advances
    OBVIOUS
  <2>1. CASE Fail /\ phase # "failed" /\ phase # "serving"
    BY <2>1 DEF ConfigInv, ConfigTypeOK, Phases, Fail, Advances, PhaseNumber
  <2>2. CASE BetweenLoops /\ ~ Fail
    BY <2>2 DEF BetweenLoops, ReadSymbols, UsersRead, ReadSections, UsernamesChecked,
                AccountsChecked, UsersExtracted, UsersCreated, Advances, PhaseNumber
  <2>3. ASSUME NEW user \in UserKeys(file), ~ Fail,
               \/ ReadUser(user) \/ CheckUsername(user) \/ CheckAccount(user)
               \/ ExtractUser(user) \/ CreateUser(user)
        PROVE  Advances
    <3>1. phase' = phase /\ user \in todo /\ todo' = todo \ {user}
      BY <2>3 DEF ReadUser, CheckUsername, CheckAccount, ExtractUser, CreateUser, Done
    <3>2. IsFiniteSet(todo)
      BY IdAssumption, FS_Subset DEF ConfigInv, ConfigTypeOK
    <3>3. Cardinality(todo) \in Nat /\ Cardinality(todo') = Cardinality(todo) - 1
      BY <3>1, <3>2, FS_RemoveElement, FS_CardinalityType
    <3> QED BY <3>1, <3>3 DEF Advances
  <2>4. Fail => phase # "failed" /\ phase # "serving"
    BY DEF Next, ReadSymbols, UsersRead, ReadSections, UsernamesChecked, AccountsChecked,
       UsersExtracted, UsersCreated, ReadUser, CheckUsername, CheckAccount, ExtractUser, CreateUser
  <2> QED
    BY <2>1, <2>2, <2>3, <2>4 DEF Next, BetweenLoops
<1> QED
  BY <1>1, AlwaysConfigInv, PTL DEF Spec
=============================================================================
