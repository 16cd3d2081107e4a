--------------------------- MODULE MappingProofs ----------------------------
(***************************************************************************)
(* Proofs about Mapping, for every set of symbols and keys, every          *)
(* configuration and every number of target expressions.  The invariant    *)
(* says what each table holds in the middle of an add(), in terms of the   *)
(* (symbol, expression) pairs that have been matched so far.               *)
(***************************************************************************)
EXTENDS Mapping, TLAPS

\* The expression at this position has been matched against the symbol.
Matched(symbol, step) ==
  symbol \in processed /\ (symbol = adding => step < position)

SourcesRecorded ==
  \A key \in Keys, symbol \in Symbols :
    source[key] = symbol <=> Matched(symbol, 0) /\ source_regex[symbol] = key

TargetsRecorded ==
  \A key \in Keys, symbol \in Symbols :
    symbol \in target[key] <=>
      \E i \in Targets : Matched(symbol, i) /\ targets_regex[i][symbol] = key

TargetsDistinct ==
  \A key \in Keys, symbol \in Symbols, i, j \in Targets :
    /\ Matched(symbol, i) /\ targets_regex[i][symbol] = key
    /\ Matched(symbol, j) /\ targets_regex[j][symbol] = key
    => i = j

OutboundIsJoin ==
  \A from, to \in Symbols :
    to \in outbound[from] <=> \E key \in Keys : source[key] = from /\ to \in target[key]

FatalReason ==
  /\ adding # NoSymbol => adding \in processed
  /\ fatal = "symbol" => adding = NoSymbol
  /\ fatal = "source" => /\ adding # NoSymbol /\ position = 0
                         /\ source_regex[adding] \in Keys
                         /\ source[source_regex[adding]] # NoSymbol
  /\ fatal = "target" => /\ adding # NoSymbol /\ position \in Targets
                         /\ targets_regex[position][adding] \in Keys
                         /\ adding \in target[targets_regex[position][adding]]

Inv ==
  /\ MappingTypeOK /\ SourcesRecorded /\ TargetsRecorded /\ TargetsDistinct
  /\ OutboundIsJoin /\ FatalReason

USE SymbolAssumption, KeyAssumption, MaxTargetsAssumption

-----------------------------------------------------------------------------
LEMMA InitInv == Init => Inv
BY DEF Init, Inv, MappingTypeOK, SourcesRecorded, TargetsRecorded, TargetsDistinct,
       OutboundIsJoin, FatalReason, Matched, Regexes, Targets

LEMMA FailInv ==
  ASSUME Inv, NEW reason \in {"symbol", "source", "target"}, Fail(reason),
         FatalReason'
  PROVE  Inv'
BY DEF Fail, Inv, MappingTypeOK, SourcesRecorded, TargetsRecorded, TargetsDistinct,
       OutboundIsJoin, Matched, configVars, tableVars

(***************************************************************************)
(* What NextRegex does to the pairs that count as matched.                 *)
(***************************************************************************)
LEMMA NextRegexMatched ==
  ASSUME MappingTypeOK, adding \in processed, NextRegex
  PROVE  /\ \A symbol \in Symbols, step \in 0 .. MaxTargets :
              Matched(symbol, step)' <=>
                Matched(symbol, step) \/ (symbol = adding /\ step = position)
         /\ adding' \in {adding, NoSymbol} /\ position' \in 0 .. MaxTargets
         /\ UNCHANGED << source_regex, targets_regex, processed, fatal >>
BY DEF NextRegex, MappingTypeOK, Matched, configVars

LEMMA AddInv ==
  ASSUME Inv, NEW symbol \in Symbols, Add(symbol)
  PROVE  Inv'
<1>1. CASE symbol \in processed
  <2>1. Fail("symbol") /\ adding = NoSymbol
    BY <1>1 DEF Add, Idle
  <2>2. FatalReason'
    BY <2>1 DEF Fail, FatalReason
  <2> QED BY <2>1, <2>2, FailInv
<1>2. CASE symbol \notin processed
  <2>1. /\ adding = NoSymbol /\ fatal = "none" /\ fatal' = "none"
        /\ processed' = processed \cup {symbol}
        /\ adding' = symbol /\ position' = 0
        /\ UNCHANGED << source_regex, targets_regex, source, target, outbound >>
    BY <1>2 DEF Add, Idle, configVars, tableVars
  <2>2. \A other \in Symbols, step \in 0 .. MaxTargets :
          Matched(other, step)' <=> Matched(other, step)
    BY <1>2, <2>1 DEF Matched, Inv, MappingTypeOK
  <2>3. MappingTypeOK' /\ FatalReason' /\ OutboundIsJoin'
    BY <2>1 DEF Inv, MappingTypeOK, FatalReason, OutboundIsJoin
  <2>4. SourcesRecorded' /\ TargetsRecorded' /\ TargetsDistinct'
    BY <2>1, <2>2 DEF Inv, SourcesRecorded, TargetsRecorded, TargetsDistinct, Targets
  <2> QED BY <2>3, <2>4 DEF Inv
<1> QED BY <1>1, <1>2

LEMMA MatchSourceInv ==
  ASSUME Inv, MatchSource
  PROVE  Inv'
<1> DEFINE key == source_regex[adding]
<1>1. /\ adding \in Symbols /\ adding \in processed /\ position = 0 /\ fatal = "none"
      /\ key \in Keys \cup {NoKey}
  BY DEF MatchSource, At, Inv, MappingTypeOK, FatalReason, Regexes
<1>2. CASE key \in Keys /\ source[key] # NoSymbol
  <2>1. Fail("source")
    BY <1>1, <1>2 DEF MatchSource, AddSource
  <2>2. FatalReason'
    BY <1>1, <1>2, <2>1 DEF Fail, configVars, tableVars, Inv, FatalReason
  <2> QED BY <2>1, <2>2, FailInv
<1>3. CASE ~ (key \in Keys /\ source[key] # NoSymbol)
  <2>1. /\ NextRegex /\ UNCHANGED target
        /\ key = NoKey => UNCHANGED << source, outbound >>
        /\ key \in Keys =>
             /\ source' = [source EXCEPT ![key] = adding]
             /\ outbound' = [outbound EXCEPT ![adding] = @ \cup target[key]]
    BY <1>1, <1>3 DEF MatchSource, AddSource, Skip, tableVars
  <2>2. /\ \A symbol \in Symbols, step \in 0 .. MaxTargets :
             Matched(symbol, step)' <=>
               Matched(symbol, step) \/ (symbol = adding /\ step = 0)
        /\ adding' \in {adding, NoSymbol} /\ position' \in 0 .. MaxTargets
        /\ UNCHANGED << source_regex, targets_regex, processed, fatal >>
    BY <1>1, <2>1, NextRegexMatched DEF Inv
  <2>3. MappingTypeOK' /\ FatalReason'
    BY <1>1, <2>1, <2>2 DEF Inv, MappingTypeOK, FatalReason
  <2>4. TargetsRecorded' /\ TargetsDistinct'
    BY <2>1, <2>2 DEF Inv, TargetsRecorded, TargetsDistinct, Targets
  <2>5. SourcesRecorded'
    <3>1. CASE key = NoKey
      BY <1>1, <2>1, <2>2, <3>1 DEF Inv, SourcesRecorded
    <3>2. CASE key \in Keys
      BY <1>1, <1>3, <2>1, <2>2, <3>2 DEF Inv, MappingTypeOK, SourcesRecorded
    <3> QED BY <1>1, <3>1, <3>2
  <2>6. OutboundIsJoin'
    <3>1. CASE key = NoKey
      BY <2>1, <3>1 DEF Inv, OutboundIsJoin
    <3>2. CASE key \in Keys
      <4>1. \A other \in Keys : source[other] # adding
        BY <1>1 DEF Inv, SourcesRecorded, Matched
      <4> QED BY <1>1, <1>3, <2>1, <3>2, <4>1 DEF Inv, MappingTypeOK, OutboundIsJoin
    <3> QED BY <1>1, <3>1, <3>2
  <2> QED BY <2>3, <2>4, <2>5, <2>6 DEF Inv
<1> QED BY <1>2, <1>3

LEMMA MatchTargetInv ==
  ASSUME Inv, NEW i \in Targets, MatchTarget(i)
  PROVE  Inv'
<1> DEFINE key == targets_regex[i][adding]
<1>1. /\ adding \in Symbols /\ adding \in processed /\ position = i /\ fatal = "none"
      /\ key \in Keys \cup {NoKey} /\ i \in 0 .. MaxTargets /\ i # 0
  BY DEF MatchTarget, At, Inv, MappingTypeOK, FatalReason, Regexes, Targets
<1>2. CASE key \in Keys /\ adding \in target[key]
  <2>1. Fail("target")
    BY <1>1, <1>2 DEF MatchTarget, AddTarget
  <2>2. FatalReason'
    BY <1>1, <1>2, <2>1 DEF Fail, configVars, tableVars, Inv, FatalReason
  <2> QED BY <2>1, <2>2, FailInv
<1>3. CASE ~ (key \in Keys /\ adding \in target[key])
  <2>1. /\ NextRegex /\ UNCHANGED source
        /\ key = NoKey => UNCHANGED << target, outbound >>
        /\ key \in Keys =>
             /\ target' = [target EXCEPT ![key] = @ \cup {adding}]
             /\ outbound' = IF source[key] = NoSymbol THEN outbound
                              ELSE [outbound EXCEPT ![source[key]] = @ \cup {adding}]
    BY <1>1, <1>3 DEF MatchTarget, AddTarget, Skip, tableVars
  <2>2. /\ \A symbol \in Symbols, step \in 0 .. MaxTargets :
             Matched(symbol, step)' <=>
               Matched(symbol, step) \/ (symbol = adding /\ step = i)
        /\ adding' \in {adding, NoSymbol} /\ position' \in 0 .. MaxTargets
        /\ UNCHANGED << source_regex, targets_regex, processed, fatal >>
    BY <1>1, <2>1, NextRegexMatched DEF Inv
  <2>3. MappingTypeOK'
    <3>1. CASE key = NoKey
      BY <1>1, <2>1, <2>2, <3>1 DEF Inv, MappingTypeOK
    <3>2. CASE key \in Keys
      BY <1>1, <2>1, <2>2, <3>2 DEF Inv, MappingTypeOK
    <3> QED BY <1>1, <3>1, <3>2
  <2>4. FatalReason' /\ SourcesRecorded'
    BY <1>1, <2>1, <2>2 DEF Inv, FatalReason, SourcesRecorded
  <2>5. TargetsRecorded' /\ TargetsDistinct'
    <3>1. CASE key = NoKey
      BY <1>1, <2>1, <2>2, <3>1 DEF Inv, TargetsRecorded, TargetsDistinct, Targets
    <3>2. CASE key \in Keys
      <4>1. TargetsRecorded'
        BY <1>1, <2>1, <2>2, <3>2 DEF Inv, MappingTypeOK, TargetsRecorded, Targets
      <4>2. \A j \in Targets : ~ (Matched(adding, j) /\ targets_regex[j][adding] = key)
        BY <1>1, <1>3, <3>2 DEF Inv, TargetsRecorded
      <4>3. TargetsDistinct'
        BY <1>1, <2>2, <4>2 DEF Inv, TargetsDistinct, Targets
      <4> QED BY <4>1, <4>3
    <3> QED BY <1>1, <3>1, <3>2
  <2>6. OutboundIsJoin'
    <3>1. CASE key = NoKey
      BY <2>1, <3>1 DEF Inv, OutboundIsJoin
    <3>2. CASE key \in Keys /\ source[key] = NoSymbol
      BY <1>1, <2>1, <3>2 DEF Inv, MappingTypeOK, OutboundIsJoin
    <3>3. CASE key \in Keys /\ source[key] # NoSymbol
      BY <1>1, <2>1, <3>3 DEF Inv, MappingTypeOK, OutboundIsJoin
    <3> QED BY <1>1, <3>1, <3>2, <3>3
  <2> QED BY <2>3, <2>4, <2>5, <2>6 DEF Inv
<1> QED BY <1>2, <1>3

LEMMA StutterInv ==
  ASSUME Inv, UNCHANGED vars
  PROVE  Inv'
BY DEF vars, configVars, tableVars, Inv, MappingTypeOK, SourcesRecorded, TargetsRecorded,
       TargetsDistinct, OutboundIsJoin, FatalReason, Matched

LEMMA Invariance == Spec => []Inv
<1>1. Inv /\ [Next]_vars => Inv'
  BY AddInv, MatchSourceInv, MatchTargetInv, StutterInv DEF Next
<1> QED BY <1>1, InitInv, PTL DEF Spec

-----------------------------------------------------------------------------
(***************************************************************************)
(* Every table keeps its type.                                             *)
(***************************************************************************)
THEOREM MappingTypeCorrect == Spec => []MappingTypeOK
<1>1. Inv => MappingTypeOK
  BY DEF Inv
<1> QED BY <1>1, Invariance, PTL

(***************************************************************************)
(* The broadcast table is a function of the set of symbols processed.      *)
(***************************************************************************)
THEOREM OrderDoesNotMatter == Spec => []OrderIndependent
<1>1. Inv => OrderIndependent
  <2> SUFFICES ASSUME Inv, Idle, NEW from \in Symbols
               PROVE  outbound[from] = Joined(from)
    BY DEF OrderIndependent
  <2>1. \A symbol \in Symbols, step \in 0 .. MaxTargets :
          Matched(symbol, step) <=> symbol \in processed
    BY DEF Idle, Matched
  <2>2. \A to \in Symbols : to \in outbound[from] <=> to \in Joined(from)
    <3> SUFFICES ASSUME NEW to \in Symbols
                 PROVE  to \in outbound[from] <=> to \in Joined(from)
      OBVIOUS
    <3>1. source_regex[from] \in Keys \cup {NoKey}
      BY DEF Inv, MappingTypeOK, Regexes
    <3>2. \A key \in Keys : source[key] = from <=>
            from \in processed /\ source_regex[from] = key
      BY <2>1 DEF Inv, SourcesRecorded
    <3>3. \A key \in Keys : to \in target[key] <=>
            to \in processed /\ \E i \in Targets : targets_regex[i][to] = key
      BY <2>1 DEF Inv, TargetsRecorded, Targets
    <3> QED BY <3>1, <3>2, <3>3 DEF Inv, OutboundIsJoin, Joined
  <2>3. outbound[from] \subseteq Symbols /\ Joined(from) \subseteq Symbols
    BY DEF Inv, MappingTypeOK, Joined
  <2> QED BY <2>2, <2>3
<1> QED BY <1>1, Invariance, PTL

(***************************************************************************)
(* The process is stopped exactly by the ambiguous configurations.         *)
(***************************************************************************)
THEOREM StopsIffAmbiguous == Spec => []FatalIffAmbiguous
<1>1. Inv => FatalIffAmbiguous
  <2> SUFFICES ASSUME Inv, adding = NoSymbol \/ fatal # "none"
               PROVE  fatal \in {"source", "target"} <=> Ambiguous
    BY DEF FatalIffAmbiguous
  <2> processed \subseteq Symbols
    BY DEF Inv, MappingTypeOK
  <2>1. CASE adding = NoSymbol
    <3>1. \A symbol \in Symbols, step \in 0 .. MaxTargets :
            Matched(symbol, step) <=> symbol \in processed
      BY <2>1 DEF Matched
    <3>2. fatal \notin {"source", "target"}
      BY <2>1 DEF Inv, FatalReason
    <3>3. \A one, other \in processed :
            source_regex[one] # NoKey /\ source_regex[one] = source_regex[other]
              => one = other
      BY <3>1 DEF Inv, MappingTypeOK, Regexes, SourcesRecorded
    <3>4. \A symbol \in processed : \A i, j \in Targets :
            targets_regex[i][symbol] # NoKey
              /\ targets_regex[i][symbol] = targets_regex[j][symbol] => i = j
      BY <3>1 DEF Inv, MappingTypeOK, Regexes, TargetsDistinct, Targets
    <3> QED BY <3>2, <3>3, <3>4 DEF Ambiguous
  <2>2. CASE fatal = "source"
    <3>1. /\ adding \in Symbols /\ adding \in processed /\ position = 0
          /\ source_regex[adding] \in Keys
          /\ source[source_regex[adding]] # NoSymbol
      BY <2>2 DEF Inv, FatalReason, MappingTypeOK
    <3>2. PICK other \in Symbols : source[source_regex[adding]] = other
      BY <3>1 DEF Inv, MappingTypeOK
    <3>3. /\ Matched(other, 0) /\ source_regex[other] = source_regex[adding]
      BY <3>1, <3>2 DEF Inv, SourcesRecorded
    <3>4. other \in processed /\ other # adding
      BY <3>1, <3>3 DEF Matched
    <3> QED BY <2>2, <3>1, <3>3, <3>4 DEF Ambiguous
  <2>3. CASE fatal = "target"
    <3>1. /\ adding \in Symbols /\ adding \in processed /\ position \in Targets
          /\ targets_regex[position][adding] \in Keys
          /\ adding \in target[targets_regex[position][adding]]
      BY <2>3 DEF Inv, FatalReason, MappingTypeOK
    <3>2. PICK i \in Targets :
            Matched(adding, i) /\ targets_regex[i][adding] = targets_regex[position][adding]
      BY <3>1 DEF Inv, TargetsRecorded
    <3>3. i # position
      BY <3>1, <3>2 DEF Matched, Targets
    <3> QED BY <2>3, <3>1, <3>2, <3>3 DEF Ambiguous
  <2>4. CASE adding # NoSymbol /\ fatal = "symbol"
    BY <2>4 DEF Inv, FatalReason
  <2> QED BY <2>1, <2>2, <2>3, <2>4 DEF Inv, MappingTypeOK
<1> QED BY <1>1, Invariance, PTL

(***************************************************************************)
(* The two assertions of the code hold.                                    *)
(***************************************************************************)
THEOREM AssertionsHold == Spec => []InsertsAreNew
<1>1. Inv => InsertsAreNew
  <2> SUFFICES ASSUME Inv
               PROVE  InsertsAreNew
    OBVIOUS
  <2>1. ASSUME At(0), source_regex[adding] \in Keys
        PROVE  outbound[adding] = {}
    <3>1. adding \in Symbols /\ ~ Matched(adding, 0)
      BY <2>1 DEF At, Matched, Inv, MappingTypeOK
    <3>2. \A key \in Keys : source[key] # adding
      BY <3>1 DEF Inv, SourcesRecorded
    <3>3. outbound[adding] \subseteq Symbols
      BY <3>1 DEF Inv, MappingTypeOK
    <3> QED BY <3>1, <3>2, <3>3 DEF Inv, OutboundIsJoin
  <2>2. ASSUME NEW i \in Targets, At(i), NEW key \in Keys, source[key] # NoSymbol,
               adding \notin target[key]
        PROVE  adding \notin outbound[source[key]]
    <3>1. adding \in Symbols /\ source[key] \in Symbols
      BY <2>2 DEF At, Inv, MappingTypeOK
    <3>2. \A other \in Keys : source[other] = source[key] => other = key
      BY <3>1 DEF Inv, SourcesRecorded
    <3> QED BY <2>2, <3>1, <3>2 DEF Inv, OutboundIsJoin
  <2> QED BY <2>1, <2>2 DEF InsertsAreNew
<1> QED BY <1>1, Invariance, PTL
=============================================================================
