-------------------------- MODULE MCConfiguration ---------------------------
(***************************************************************************)
(* Configuration with files that differ from a complete one of three users *)
(* in one item anywhere, or in any two of their names and accounts.        *)
(***************************************************************************)
EXTENDS Configuration, TLC

CONSTANTS a, b, c, trade, statistic, bid

MCTexts == {a, b, c, trade, statistic, bid}
MCMDEntryTypes == {statistic}
MCStatisticsTypes == {"FUNDING_RATE"}
MCNumbers == {7, 99, 100}

\* Two expressions that overlap, like "A1" and "A.*".
MCAccounts == {"A1", "A2"}
MCMatches ==
  [text \in MCTexts |-> CASE text = a -> {"A1"} [] text = b -> {"A1", "A2"} [] OTHER -> {}]

Complete ==
  <<"symbols">> :> Table @@ <<"symbols", "regex">> :> TextList
  @@ <<"symbols", "deribit">> :> Table @@ <<"symbols", "deribit", "regex">> :> a
  @@ <<"users">> :> Table
  @@ <<"users", "MD1">> :> Table
  @@ <<"users", "MD1", "component">> :> trade @@ <<"users", "MD1", "username">> :> a
  @@ <<"users", "OM1">> :> Table
  @@ <<"users", "OM1", "component">> :> trade @@ <<"users", "OM1", "username">> :> b
  @@ <<"users", "OM1", "password">> :> a
  @@ <<"users", "OM2">> :> Table
  @@ <<"users", "OM2", "component">> :> trade @@ <<"users", "OM2", "username">> :> c

Optional ==
  <<"statistics">> :> Table @@ <<"statistics", "FUNDING_RATE">> :> Table
  @@ <<"statistics", "FUNDING_RATE", "fix_md_entry_type">> :> statistic
  @@ <<"broadcast">> :> Table @@ <<"broadcast", "index">> :> Table
  @@ <<"broadcast", "index", "exchange">> :> a
  @@ <<"broadcast", "index", "source_regex">> :> a
  @@ <<"broadcast", "index", "targets_regex">> :> TextList
  @@ <<"errors">> :> Table @@ <<"errors", "THROTTLED">> :> Table
  @@ <<"errors", "THROTTLED", "cxl_rej_reason">> :> 100

Identities ==
  {<<"users", user, key>> : user \in {"MD1", "OM1", "OM2"}, key \in {"username", "account"}}

UserEdits ==
  Identities \cup {<<"users", "OM2", key>> : key \in {"component", "password", "strategy_id",
                                                      "accounts", "symbols", "unknown"}}

OtherEdits ==
  {<<"symbols", "regex">>, <<"symbols", "deribit">>, <<"symbols", "deribit", "regex">>,
   <<"symbols", "deribit", "unknown">>, <<"symbols", "unknown">>, <<"unknown">>,
   <<"statistics", "FUNDING_RATE", "fix_md_entry_type">>,
   <<"statistics", "FUNDING_RATE", "default_value">>,
   <<"statistics", "FUNDING_RATE", "unknown">>, <<"statistics", "UNKNOWN">>,
   <<"broadcast", "index", "exchange">>, <<"broadcast", "index", "source_regex">>,
   <<"broadcast", "index", "targets_regex">>, <<"broadcast", "index", "unknown">>,
   <<"errors", "THROTTLED", "cxl_rej_reason">>, <<"errors", "THROTTLED", "unknown">>}

Edited(document, paths, values) ==
  {path :> value @@ document : path \in paths, value \in values}

\* Leaving an item out; only a text has no items of its own.
Shortened(document, paths) ==
  {[other \in DOMAIN document \ {path} |-> document[other]] :
     path \in {item \in paths : item \in DOMAIN document /\ document[item] # Table}}

Once ==
  Edited(Complete @@ Optional, OtherEdits,
         {bid, EmptyText, TextList, EmptyList, MixedList, 99, 100, Other})
    \cup Shortened(Complete @@ Optional, OtherEdits)
    \cup Edited(Complete, UserEdits, {a, b, EmptyText, TextList, EmptyList, MixedList, 7, Other})
    \cup Shortened(Complete, UserEdits)
    \cup {Complete, Complete @@ Optional}

Twice ==
  UNION {Edited(document, Identities, {a, b, EmptyText}) :
         document \in Edited(Complete, Identities, {a, b, EmptyText})}

\* Sections that are tables in every file, as the code expects them to be.
MCDocuments ==
  {document \in Once \cup Twice :
     \A path \in DOMAIN document : Len(path) = 2 /\ path[1] # "symbols" => document[path] = Table}
=============================================================================
