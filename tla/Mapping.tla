------------------------------ MODULE Mapping -------------------------------
(***************************************************************************)
(* tools::Mapping: which symbols an update of a source symbol is broadcast *)
(* to.  Symbols arrive one at a time, in any order; a regular expression   *)
(* extracts a key from source symbols, others extract keys from targets,   *)
(* and a source is joined with the targets of the same key.                *)
(*                                                                         *)
(* A regular expression is the key it extracts from each symbol, NoKey     *)
(* where it does not match; one that never matches stands for one that is  *)
(* not configured.  add() returns at once for a symbol of another exchange *)
(* and changes nothing, so only the mapping's own exchange is modelled.    *)
(* log::fatal ends the process: nothing happens after it.                  *)
(***************************************************************************)
EXTENDS Integers

CONSTANTS
  Symbols,
  NoSymbol,
  Keys,
  NoKey,
  MaxTargets   \* bound: regular expressions for targets

ASSUME SymbolAssumption == NoSymbol \notin Symbols
ASSUME KeyAssumption == NoKey \notin Keys
ASSUME MaxTargetsAssumption == MaxTargets \in Nat \ {0}

VARIABLES
  source_regex,
  targets_regex,
  processed,
  source,      \* source_, NoSymbol where there is no entry
  target,      \* target_, an absent entry is empty
  outbound,    \* outbound_, an absent entry is empty
  adding,      \* the symbol whose add() is on the stack
  position,    \* the regular expression it is at: 0 the source, i the i-th target
  fatal        \* the log::fatal that ended the process

configVars == << source_regex, targets_regex >>
tableVars == << source, target, outbound >>
vars == << configVars, processed, tableVars, adding, position, fatal >>

Regexes == [Symbols -> Keys \cup {NoKey}]
Targets == 1 .. MaxTargets

MappingTypeOK ==
  /\ source_regex \in Regexes /\ targets_regex \in [Targets -> Regexes]
  /\ processed \subseteq Symbols
  /\ source \in [Keys -> Symbols \cup {NoSymbol}]
  /\ target \in [Keys -> SUBSET Symbols]
  /\ outbound \in [Symbols -> SUBSET Symbols]
  /\ adding \in Symbols \cup {NoSymbol}
  /\ position \in 0 .. MaxTargets
  /\ fatal \in {"none", "symbol", "source", "target"}

Init ==
  /\ source_regex \in Regexes /\ targets_regex \in [Targets -> Regexes]
  /\ processed = {}
  /\ source = [key \in Keys |-> NoSymbol]
  /\ target = [key \in Keys |-> {}]
  /\ outbound = [symbol \in Symbols |-> {}]
  /\ adding = NoSymbol /\ position = 0 /\ fatal = "none"

Idle == adding = NoSymbol /\ fatal = "none"
At(step) == adding # NoSymbol /\ fatal = "none" /\ position = step

Fail(reason) ==
  fatal' = reason /\ UNCHANGED << configVars, processed, tableVars, adding, position >>

(***************************************************************************)
(* add(), up to the first regular expression.                              *)
(***************************************************************************)
Add(symbol) ==
  /\ Idle
  /\ IF symbol \in processed
       THEN Fail("symbol")
       ELSE /\ processed' = processed \cup {symbol}
            /\ adding' = symbol /\ position' = 0
            /\ UNCHANGED << configVars, tableVars, fatal >>

\* On to the next regular expression; add() returns after the last.
NextRegex ==
  /\ IF position = MaxTargets
       THEN adding' = NoSymbol /\ position' = 0
       ELSE position' = position + 1 /\ UNCHANGED adding
  /\ UNCHANGED << configVars, processed, fatal >>

\* Mutant: a source that arrives after its targets is not joined with them.
AddSourceTooLate(key, symbol) ==
  IF source[key] # NoSymbol
    THEN Fail("source")
    ELSE /\ source' = [source EXCEPT ![key] = symbol]
         /\ NextRegex
         /\ UNCHANGED << target, outbound >>

\* Mutant: the later source symbol replaces the earlier one.
AddSourceReplaces(key, symbol) ==
  /\ source' = [source EXCEPT ![key] = symbol]
  /\ outbound' = [outbound EXCEPT ![symbol] = @ \cup target[key]]
  /\ NextRegex
  /\ UNCHANGED target

AddSource(key, symbol) ==
  IF source[key] # NoSymbol
    THEN Fail("source")
    ELSE /\ source' = [source EXCEPT ![key] = symbol]
         /\ outbound' = [outbound EXCEPT ![symbol] = @ \cup target[key]]
         /\ NextRegex
         /\ UNCHANGED target

\* Mutant: a target whose source is known goes into outbound_ only.
AddTargetOutboundOnly(key, symbol) ==
  IF symbol \in target[key]
    THEN Fail("target")
    ELSE /\ IF source[key] = NoSymbol
              THEN /\ target' = [target EXCEPT ![key] = @ \cup {symbol}]
                   /\ UNCHANGED outbound
              ELSE /\ outbound' = [outbound EXCEPT ![source[key]] = @ \cup {symbol}]
                   /\ UNCHANGED target
         /\ NextRegex
         /\ UNCHANGED source

\* Mutant: the mapping of the source to its target the wrong way round.
AddTargetSwapped(key, symbol) ==
  IF symbol \in target[key]
    THEN Fail("target")
    ELSE /\ target' = [target EXCEPT ![key] = @ \cup {symbol}]
         /\ outbound' = [outbound EXCEPT ![symbol] = @ \cup {source[key]}]
         /\ NextRegex
         /\ UNCHANGED source

AddTarget(key, symbol) ==
  IF symbol \in target[key]
    THEN Fail("target")
    ELSE /\ target' = [target EXCEPT ![key] = @ \cup {symbol}]
         /\ outbound' = IF source[key] = NoSymbol THEN outbound
                          ELSE [outbound EXCEPT ![source[key]] = @ \cup {symbol}]
         /\ NextRegex
         /\ UNCHANGED source

Skip == NextRegex /\ UNCHANGED tableVars

MatchSource ==
  /\ At(0)
  /\ LET key == source_regex[adding]
     IN  IF key = NoKey THEN Skip ELSE AddSource(key, adding)

MatchTarget(i) ==
  /\ At(i)
  /\ LET key == targets_regex[i][adding]
     IN  IF key = NoKey THEN Skip ELSE AddTarget(key, adding)

Next ==
  \/ \E symbol \in Symbols : Add(symbol)
  \/ MatchSource
  \/ \E i \in Targets : MatchTarget(i)

Spec == Init /\ [][Next]_vars

-----------------------------------------------------------------------------
(***************************************************************************)
(* The table does not depend on the order in which symbols arrived: a      *)
(* source has exactly the targets that extract its key, among the symbols  *)
(* processed so far, whichever of the two came first.                      *)
(***************************************************************************)
Joined(from) ==
  {to \in processed :
     /\ from \in processed /\ source_regex[from] # NoKey
     /\ \E i \in Targets : targets_regex[i][to] = source_regex[from]}

OrderIndependent ==
  Idle => \A symbol \in Symbols : outbound[symbol] = Joined(symbol)

(***************************************************************************)
(* The fatal errors about multiple mappings stop the process when, and     *)
(* only when, the regular expressions are ambiguous for the symbols seen:  *)
(* two sources for a key, or two expressions that extract the same key     *)
(* from the same target.                                                   *)
(***************************************************************************)
Ambiguous ==
  \/ \E one, other \in processed :
       one # other /\ source_regex[one] # NoKey /\ source_regex[one] = source_regex[other]
  \/ \E symbol \in processed : \E i, j \in Targets :
       /\ i # j /\ targets_regex[i][symbol] # NoKey
       /\ targets_regex[i][symbol] = targets_regex[j][symbol]

FatalIffAmbiguous ==
  adding = NoSymbol \/ fatal # "none" => (fatal \in {"source", "target"} <=> Ambiguous)

(***************************************************************************)
(* assert(res.second) of add_source and add_target: what is about to go    *)
(* into outbound_ is not there yet.                                        *)
(***************************************************************************)
InsertsAreNew ==
  /\ At(0) /\ source_regex[adding] \in Keys
       => outbound[adding] \cap target[source_regex[adding]] = {}
  /\ \A i \in Targets : At(i) =>
       LET key == targets_regex[i][adding]
       IN  key \in Keys /\ source[key] # NoSymbol /\ adding \notin target[key]
             => adding \notin outbound[source[key]]
=============================================================================
