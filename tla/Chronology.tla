----------------------------- MODULE Chronology -----------------------------
(***************************************************************************)
(* The calendar of a study: months as integers, half-open intervals, the   *)
(* two windows of a transition, the cutoffs and endpoints a corpus offers, *)
(* and which label of a record counts (data/splits.py and the parts of     *)
(* data/lamda.py and experiments/lamda_population.py that place records on *)
(* the calendar).  Constant-level definitions only.                        *)
(*                                                                         *)
(* A record is [id, month, label, vt, family]: label is "malicious",       *)
(* "benign" or "none", vt a detection count or NoCount, family a name or   *)
(* NoFamily; id is its row number in the release.                          *)
(***************************************************************************)
EXTENDS Integers, FiniteSets, Sequences

CONSTANTS BenignCount,     \* detections that make a record benign
          MalwareMinimum,  \* detections from which a record is malicious
          NoCount,         \* a record without a detection count
          NoFamily         \* a record without a family

ASSUME LabelRuleAssumption ==
  BenignCount \in Nat /\ MalwareMinimum \in Nat /\ BenignCount < MalwareMinimum

-----------------------------------------------------------------------------
\* Intervals and windows.

Months(start, end) == start .. (end - 1)

BeforeWindow(endpoint, interval) == Months(endpoint - 2 * interval, endpoint - interval)

AfterWindow(endpoint, interval) == Months(endpoint - interval, endpoint)

TransitionMonths(endpoint, interval) ==
  BeforeWindow(endpoint, interval) \cup AfterWindow(endpoint, interval)

\* transition_windows raises for an endpoint without two complete windows after month 0.
HasWindows(endpoint, interval) == endpoint >= 2 * interval

EarliestCompleteTransitionEndpoint(origin, interval) == origin + 2 * interval

\* A bug that HistoriesAreObserved excludes: only a gap inside the interval is seen.
IsIntervalAroundGap(start, end, gap) == start <= gap.start /\ gap.end < end

IsIntervalOverlappingGap(start, end, gap) ==
  \/ start <= gap.start /\ gap.end < end
  \/ gap.start < end /\ start <= gap.end

IsIntervalObservable(source, start, end) ==
  /\ start >= source.first
  /\ end - 1 <= source.last
  /\ \A gap \in source.gaps : ~ IsIntervalOverlappingGap(start, end, gap)

-----------------------------------------------------------------------------
\* What a corpus offers.

\* Every candidate cutoff with a fully observable history; it is primary when the horizon
\* that follows is observable too.
EnumerateRollingCutoffs(source, history, horizon, step) ==
  LET first      == source.first + history
      candidates == {c \in first .. (source.last + 1) : (c - first) % step = 0}
  IN  {[cutoff  |-> c,
        primary |-> IsIntervalObservable(source, c, c + horizon)] :
       c \in {d \in candidates : IsIntervalObservable(source, d - history, d)}}

-----------------------------------------------------------------------------
\* Records on the calendar.

ExpectedLabel(vt) ==
  CASE vt = BenignCount     -> "benign"
    [] vt >= MalwareMinimum -> "malicious"
    [] OTHER                -> "none"

\* audited_label: a stated label counts only when the detection count agrees with it.
AuditedLabel(record) ==
  IF record.vt = NoCount THEN record.label
  ELSE IF record.label = "none" THEN ExpectedLabel(record.vt)
  ELSE IF ExpectedLabel(record.vt) = record.label THEN record.label ELSE "none"

\* A release numbers its records by their rows.
IsRelease(records) ==
  /\ IsFiniteSet(records)
  /\ \A r \in records : /\ r.month \in Nat /\ r.id \in Nat
                        /\ \A s \in records : r.id = s.id => r = s

InWindow(records, window) == {r \in records : r.month \in window}

MonthsOf(records) == {r.month : r \in records}

\* max of Python over a nonempty set of numbers, and min.
Latest(months) == CHOOSE m \in months : \A n \in months : n <= m
Earliest(months) == CHOOSE m \in months : \A n \in months : m <= n

\* The most frequent family; on a tie the one met first in the release, as Counter does.
MostCommonFamily(malicious) ==
  LET named     == {r \in malicious : r.family # NoFamily}
      members(f) == {r \in named : r.family = f}
      first(f)  == Earliest({r.id : r \in members(f)})
      families  == {r.family : r \in named}
  IN  IF named = {} THEN NoFamily
      ELSE CHOOSE f \in families : \A g \in families \ {f} :
             \/ Cardinality(members(f)) > Cardinality(members(g))
             \/ /\ Cardinality(members(f)) = Cardinality(members(g))
                /\ first(f) < first(g)

=============================================================================
