------------------------------- MODULE Forecast -------------------------------
(***************************************************************************)
(* The deterministic engine: the diff of skygent/core/diff.py and the      *)
(* thresholds of skygent/core/significance.py, as pure operators over the  *)
(* data of two snapshots of one profile.                                   *)
(***************************************************************************)
EXTENDS Integers

CONSTANTS
    Numeric,         \* profile.variables without weather_code
    Values,          \* values of a numeric variable, in its native unit
    Threshold,       \* profile.thresholds: for some of the variables
    Codes,           \* WMO weather codes
    Rank,            \* WMO_SEVERITY_RANK, 0 for a code that is not listed
    RankThreshold,   \* DEFAULT_WEATHERCODE_RANK_THRESHOLD
    Missing          \* a value Open-Meteo did not report

ASSUME ForecastAssumption ==
    /\ Values \subseteq Int
    /\ DOMAIN Threshold \subseteq Numeric
    /\ \A v \in DOMAIN Threshold : Threshold[v] \in Nat \ {0}
    /\ Rank \in [Codes -> Nat]
    /\ RankThreshold \in Nat \ {0}
    /\ Missing \notin Values \union Codes

\* ForecastSnapshot.data.
Data == [num : [Numeric -> Values \union {Missing}], code : Codes \union {Missing}]

Abs(n) == IF n < 0 THEN -n ELSE n

\* Mutation of Compare: a value that is missing counts as zero.
CompareMissingAsZero(prev, cur) ==
    LET Val(d, v) == IF d.num[v] = Missing THEN 0 ELSE d.num[v]
    IN  [v \in Numeric |-> Val(cur, v) - Val(prev, v)]

\* DiffAnalyzer.compare: the variables both snapshots report, with their delta.
Compare(prev, cur) ==
    [v \in {w \in Numeric : prev.num[w] # Missing /\ cur.num[w] # Missing} |->
        cur.num[v] - prev.num[v]]

\* Mutation of CodeTriggers: only a worsening weather code triggers.
CodeTriggersWorsening(prev, cur) ==
    IF /\ prev.code # Missing /\ cur.code # Missing
       /\ Rank[cur.code] - Rank[prev.code] >= RankThreshold
    THEN {"weather_code"} ELSE {}

\* The categorical check of is_significant, in both directions.
CodeTriggers(prev, cur) ==
    IF /\ prev.code # Missing /\ cur.code # Missing
       /\ Abs(Rank[cur.code] - Rank[prev.code]) >= RankThreshold
    THEN {"weather_code"} ELSE {}

\* The triggering variables; is_significant is true when there are any.
Triggers(changes, prev, cur) ==
    {v \in DOMAIN changes \intersect DOMAIN Threshold :
        Abs(changes[v]) >= Threshold[v]}
    \union CodeTriggers(prev, cur)

IsSignificant(prev, cur) == Triggers(Compare(prev, cur), prev, cur) # {}
=============================================================================
