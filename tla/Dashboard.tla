----------------------------- MODULE Dashboard ------------------------------
(***************************************************************************)
(* The traffic chart: the snapshots of traffic.go, one total per bucket of *)
(* five minutes, the series that TrafficTimeseries makes of them, the      *)
(* effect of Dashboard that asks for it, and the curve that TrafficTrend   *)
(* draws; and what Dashboard and RulesPage make of the rules and statuses  *)
(* that they are given.  A series is the sequence of its totals, and a     *)
(* rule what is drawn of it.  The rules come from Console's refreshes,     *)
(* which may land in any order: they need not fit the panel's total.       *)
(***************************************************************************)
EXTENDS Integers, FiniteSets, Sequences, SequencesExt

CONSTANTS
  Ranges,       \* the ranges that a chart can be asked for
  FirstRange,   \* the range of a dashboard that was just opened
  Window,       \* the number of buckets in a range
  Totals,       \* traffic totals
  RuleLists,    \* the lists of rules that a refresh can bring
  MaxTime,      \* bound on the time, in buckets
  MaxRuns       \* bound on the runs of the effect

States == {"running", "stopped", "error", "unsupported", "none"}

(* A rule, its traffic and limit, and the state of its status, if any.     *)
Rules == [enabled : BOOLEAN, state : States, used : Nat, limit : Nat]

ASSUME RangeAssumption == FirstRange \in Ranges /\ Window \in [Ranges -> Nat \ {0, 1}]
ASSUME TotalAssumption == Totals \subseteq Nat /\ 0 \in Totals
ASSUME ListAssumption == <<>> \in RuleLists /\ RuleLists \subseteq Seq(Rules)
ASSUME TimeAssumption == MaxTime \in Nat /\ MaxRuns \in Nat

VARIABLES
  now,         \* the bucket of the panel's clock
  total,       \* panel: the traffic of all rules
  snaps,       \* panel: traffic_snapshots, a total for each bucket captured
  mounted,     \* App: whether the page is the dashboard
  rules,       \* App: rules and statuses, as Dashboard is given them
  range,       \* Dashboard: range
  points,      \* Dashboard: points, and the key of the effect that got them
  trendError,  \* Dashboard: whether trendError is set
  effect,      \* Dashboard: the run of its effect that is not cancelled, or 0
  runs,        \* how often the effect ran
  fetches      \* the requests of its runs under way

snapVars == <<now, total, snaps>>
shownVars == <<range, points, trendError>>
effectVars == <<effect, runs, fetches>>
boardVars == <<snapVars, mounted, rules, shownVars, effectVars>>

Traffic(s) == FoldSeq(LAMBDA rule, sum : sum + rule.used, 0, s)

NoPoints == [key |-> <<>>, series |-> <<>>]

-----------------------------------------------------------------------------

(* The clock is read before store.mu is locked: a bucket may have ended    *)
(* meanwhile.                                                              *)
Lately == {b \in {now - 1, now} : b >= 0}

(* CaptureTrafficSnapshot: the first capture in a bucket adds its row, a   *)
(* later one overwrites it.                                                *)
Capture(bucket) ==
  snaps' = [b \in DOMAIN snaps \cup {bucket} |-> IF b = bucket THEN total ELSE snaps[b]]

(* A range begins within a bucket, or at its start when the clock is there *)
(* to the second or was read before a bucket ended.                        *)
Cutoffs(r) == {now - Window[r], now - Window[r] + 1}

AllSince(from)  == DOMAIN snaps   \* mutant: no cutoff
RowsSince(from) == {b \in DOMAIN snaps : b >= from}

(* TrafficTimeseries: the totals since the cutoff, in order of the bucket. *)
Rank(B, b)   == Cardinality({x \in B : x <= b})
Series(from) ==
  LET B == RowsSince(from) IN
  [i \in 1 .. Cardinality(B) |-> snaps[CHOOSE b \in B : Rank(B, b) = i]]

(* The delta of a point; totals fall when traffic is reset.                *)
Delta(s, i) == IF i > 1 /\ s[i] >= s[i - 1] THEN s[i] - s[i - 1] ELSE 0

(* Rules are used, reset and deleted.                                      *)
Use ==
  /\ total' \in Totals \ {total}
  /\ UNCHANGED <<now, snaps, mounted, rules, shownVars, effectVars>>

(* A bucket ends, captured or not: the panel may be down, or a capture     *)
(* fail.                                                                   *)
Tick ==
  /\ now < MaxTime /\ now' = now + 1
  /\ UNCHANGED <<total, snaps, mounted, rules, shownVars, effectVars>>

(* StartTrafficSnapshotLoop                                                *)
SnapshotLoop ==
  /\ \E bucket \in Lately : Capture(bucket)
  /\ UNCHANGED <<now, total, mounted, rules, shownVars, effectVars>>

-----------------------------------------------------------------------------

(* The effect runs for a new key; the cleanup of the run before sets the   *)
(* flag that its answer will look at.                                      *)
RunEffect(r, t) ==
  /\ runs < MaxRuns
  /\ runs' = runs + 1 /\ effect' = runs + 1
  /\ fetches' = fetches \cup
       {[run |-> runs + 1, key |-> <<r, t>>, step |-> "asked", at |-> 0,
         series |-> <<>>]}

Mount ==
  /\ ~ mounted
  /\ mounted' = TRUE
  /\ range' = FirstRange /\ points' = NoPoints /\ trendError' = FALSE
  /\ RunEffect(FirstRange, Traffic(rules))
  /\ UNCHANGED <<snapVars, rules>>

Unmount ==
  /\ mounted
  /\ mounted' = FALSE
  /\ range' = FirstRange /\ points' = NoPoints /\ trendError' = FALSE
  /\ effect' = 0
  /\ UNCHANGED <<snapVars, rules, runs, fetches>>

SetRange(r) ==
  /\ mounted /\ r # range
  /\ range' = r
  /\ RunEffect(r, Traffic(rules))
  /\ UNCHANGED <<snapVars, mounted, rules, points, trendError>>

(* A refresh of App lands.  The effect depends on the sum only.            *)
Refreshed(list) ==
  /\ list # rules
  /\ rules' = list
  /\ IF mounted /\ Traffic(list) # Traffic(rules)
     THEN RunEffect(range, Traffic(list))
     ELSE UNCHANGED effectVars
  /\ UNCHANGED <<snapVars, mounted, shownVars>>

Serving(f, g) ==
  /\ fetches' = (fetches \ {f}) \cup {g}
  /\ UNCHANGED <<now, total, mounted, rules, shownVars, effect, runs>>

(* handleTrafficTimeseries takes a snapshot, and then locks store.mu once  *)
(* more for the series.                                                    *)
Snapshot(f) ==
  /\ f.step = "asked"
  /\ \E bucket \in Lately :
       Capture(bucket) /\ Serving(f, [f EXCEPT !.step = "captured", !.at = bucket])

(* The page waits for 15 seconds, in which no two buckets end.             *)
Query(f) ==
  /\ f.step = "captured" /\ f.at >= now - 1
  /\ \E from \in Cutoffs(f.key[1]) :
       Serving(f, [f EXCEPT !.step = "served", !.at = 0, !.series = Series(from)])
  /\ UNCHANGED snaps

UncancelledYet(f) == mounted   \* mutant: only the unmount cancels

CancelledAlready(f) == f.run < effect   \* mutant: the flag is set too early

Current(f) == f.run = effect

Arrives(f) ==
  /\ f.step = "served"
  /\ fetches' = fetches \ {f}
  /\ IF Current(f)
     THEN points' = [key |-> f.key, series |-> f.series] /\ trendError' = FALSE
     ELSE UNCHANGED <<points, trendError>>
  /\ UNCHANGED <<snapVars, mounted, rules, range, effect, runs>>

(* An error, or the 15 seconds of api, also after it was served.           *)
Fails(f) ==
  /\ fetches' = fetches \ {f}
  /\ trendError' = (trendError \/ Current(f))
  /\ UNCHANGED <<snapVars, mounted, rules, range, points, effect, runs>>

BoardInit ==
  /\ now = 0 /\ total = 0 /\ snaps = [b \in {0} |-> 0]
  /\ mounted = FALSE /\ rules = <<>>
  /\ range = FirstRange /\ points = NoPoints /\ trendError = FALSE
  /\ effect = 0 /\ runs = 0 /\ fetches = {}

BoardNext ==
  \/ Use \/ Tick \/ SnapshotLoop
  \/ Mount \/ Unmount
  \/ \E r \in Ranges : SetRange(r)
  \/ \E list \in RuleLists : Refreshed(list)
  \/ \E f \in fetches : Snapshot(f) \/ Query(f) \/ Arrives(f) \/ Fails(f)

(* The requests of a browser end: api gives up after 15 seconds.           *)
BoardFairness == WF_boardVars(\E f \in fetches : Arrives(f) \/ Fails(f))

BoardSpec == BoardInit /\ [][BoardNext]_boardVars /\ BoardFairness

-----------------------------------------------------------------------------

(* The drawing area of TrafficTrend, in pixels.                            *)
W == 800
H == 220
PX == 60
PY == 28
GW == W - PX * 2
GH == H - PY * 2

SafePoints(s) == IF s = <<>> THEN <<0>> ELSE s

Lowest(s) == CHOOSE v \in {s[i] : i \in DOMAIN s} : \A i \in DOMAIN s : v <= s[i]
Highest(s) == CHOOSE v \in {s[i] : i \in DOMAIN s} : \A i \in DOMAIN s : v >= s[i]

EndToEnd(s) == IF s[Len(s)] > s[1] THEN s[Len(s)] - s[1] ELSE 1   \* mutant: of the ends

(* vspan is 1 at least: it divides.                                        *)
Span(s) == IF Highest(s) > Lowest(s) THEN Highest(s) - Lowest(s) ELSE 1

(* The curve, to the pixel.                                                *)
Curve(s) ==
  [i \in DOMAIN s |->
    [x |-> IF Len(s) = 1 THEN PX ELSE PX + ((i - 1) * GW) \div (Len(s) - 1),
     y |-> H - PY - ((s[i] - Lowest(s)) * GH) \div Span(s)]]

(* The four grid lines, in thirds of a pixel, and their labels, in thirds  *)
(* of a byte.                                                              *)
GridLine(i) == 3 * PY + i * GH
GridLabel(s, i) == 3 * Lowest(s) + (3 - i) * Span(s)

Growth(s) == IF s[Len(s)] > s[1] THEN s[Len(s)] - s[1] ELSE 0

(* The counters of Dashboard: of a rule that is disabled, too, the state   *)
(* of its last status is counted.                                          *)
InState(s, state) == Cardinality({i \in DOMAIN s : s[i].state = state})
Disabled(s)       == Cardinality({i \in DOMAIN s : ~ s[i].enabled})

(* The state filter of RulesPage, which also offers "enabled" and "all".   *)
FilterKey(rule) ==
  IF ~ rule.enabled THEN "disabled"
  ELSE IF rule.state = "none" THEN "enabled" ELSE rule.state

Passes(rule, wanted) ==
  \/ wanted = "all"
  \/ wanted = "enabled" /\ rule.enabled
  \/ wanted # "enabled" /\ FilterKey(rule) = wanted

(* The badge in the row of a rule.                                         *)
statusText(state) ==
  CASE state = "running" -> [tone |-> "ok", text |-> "running"]
    [] state = "error" -> [tone |-> "danger", text |-> "error"]
    [] state = "unsupported" -> [tone |-> "warn", text |-> "unsupported"]
    [] state = "none" -> [tone |-> "muted", text |-> "unreported"]
    [] OTHER -> [tone |-> "muted", text |-> state]

RowBadge(rule) ==
  IF rule.enabled THEN statusText(rule.state)
                  ELSE [tone |-> "muted", text |-> "disabled"]

(* A part of the status bar, in percent of it.                             *)
Part(s, count) == (count * 100) \div Len(s)

(* The six rules with the most traffic: sorted by it, and rules with the    *)
(* same traffic in the order in which they came.                           *)
Above(s, i, j) == s[i].used > s[j].used \/ (s[i].used = s[j].used /\ i < j)
Place(s, i)    == 1 + Cardinality({j \in DOMAIN s : Above(s, j, i)})
Top(s) == [k \in 1 .. (IF Len(s) < 6 THEN Len(s) ELSE 6) |->
             s[CHOOSE i \in DOMAIN s : Place(s, i) = k]]

Either(a, b) == IF a # 0 THEN a ELSE b   \* a || b

(* The bar of one of them, in percent.                                     *)
TopBar(rule) ==
  LET share == (rule.used * 100) \div Either(rule.limit, Either(rule.used, 1))
  IN IF share > 100 THEN 100 ELSE share

-----------------------------------------------------------------------------

Keys == Ranges \X {Traffic(s) : s \in RuleLists}

(* A chart has a point at least, and no more than its range has buckets,   *)
(* the one that it begins in among them (TrafficTimeseries).               *)
BoardTypeOK ==
  /\ now \in Nat /\ total \in Totals
  /\ DOMAIN snaps \subseteq 0 .. now /\ snaps \in [DOMAIN snaps -> Totals]
  /\ mounted \in BOOLEAN /\ rules \in RuleLists /\ rules \in Seq(Rules)
  /\ range \in Ranges /\ trendError \in BOOLEAN
  /\ points \in [key : Keys \cup {<<>>}, series : Seq(Totals)]
  /\ points # NoPoints => Len(points.series) \in 1 .. Window[points.key[1]] + 1
  /\ runs \in Nat /\ effect \in 0 .. runs
  /\ fetches \subseteq
       [run : 1 .. runs, key : Keys, step : {"asked", "captured", "served"},
        at : 0 .. now, series : Seq(Totals)]

(* The chart of a dashboard that waits for nothing and shows no error is   *)
(* the one of its range and of its traffic, whatever answers came late     *)
(* (the effect of Dashboard).                                              *)
TrendCurrent ==
  mounted /\ ~ trendError /\ (\A f \in fetches : f.run # effect) =>
    points.key = <<range, Traffic(rules)>>

CurveTruthful ==
  LET s == SafePoints(points.series)
      c == Curve(s)
      sum[i \in 0 .. Len(s)] == IF i = 0 THEN 0 ELSE sum[i - 1] + Delta(s, i)
  IN /\ \A i \in DOMAIN s : c[i].x \in PX .. W - PX /\ c[i].y \in PY .. H - PY
     /\ Len(s) > 1 => c[1].x = PX /\ c[Len(s)].x = W - PX
     /\ \E i \in DOMAIN s : c[i].y = H - PY
     /\ Lowest(s) # Highest(s) => \E i \in DOMAIN s : c[i].y = PY
     /\ \A i \in DOMAIN s, line \in 0 .. 3 :
          /\ 3 * s[i] >= GridLabel(s, line) => 3 * c[i].y < GridLine(line) + 3
          /\ 3 * s[i] <= GridLabel(s, line) => 3 * c[i].y >= GridLine(line)
     /\ Growth(s) <= sum[Len(s)]

CountedTwice(rule) == ~ rule.enabled /\ rule.state \in {"running", "stopped", "error"}

(* The rules of the table that a filter of its state leaves.               *)
Found(s, wanted) == Cardinality({i \in DOMAIN s : Passes(s[i], wanted)})

FiltersTruthful ==
  /\ \A i \in DOMAIN rules, wanted \in {"running", "stopped", "error", "disabled"} :
       Passes(rules[i], wanted) <=> RowBadge(rules[i]).text = wanted
  /\ \A state \in {"running", "stopped", "error"} :
       InState(rules, state) - Found(rules, state) =
         Cardinality({i \in DOMAIN rules :
                       CountedTwice(rules[i]) /\ rules[i].state = state})
  /\ Found(rules, "enabled") + Found(rules, "disabled") = Found(rules, "all")
  /\ Found(rules, "disabled") = Disabled(rules)

BarsTruthful ==
  LET s == rules
      parts == Part(s, InState(s, "running")) + Part(s, InState(s, "stopped"))
                 + Part(s, InState(s, "error")) + Part(s, Disabled(s))
  IN /\ s # <<>> /\ ~ (\E i \in DOMAIN s : CountedTwice(s[i])) => parts <= 100
     /\ \A i \in DOMAIN s :
          ~ (\E k \in DOMAIN Top(s) : Top(s)[k] = s[i]) =>
            Len(Top(s)) = 6 /\ \A k \in 1 .. 6 : Top(s)[k].used >= s[i].used
     /\ \A k \in DOMAIN Top(s) :
          LET rule == Top(s)[k] IN
          /\ k > 1 => rule.used <= Top(s)[k - 1].used
          /\ TopBar(rule) \in 0 .. 100
          /\ TopBar(rule) = 100 <=> rule.used > 0 /\ rule.used >= rule.limit

(* What Dashboard draws is true to what it was given (TrafficTrend,        *)
(* TrafficTimeseries, Dashboard).  The curve stays in its box, uses all of *)
(* its width and height, and is above a grid line, to the pixel, where its *)
(* total is above the label of the line; the increment over the chart is   *)
(* never more than the deltas of its points, of which a reset takes none   *)
(* away.  The parts of the status bar fit into it while no disabled rule   *)
(* has a last status that is counted as well; no rule left out of the six  *)
(* with the most traffic has more than one of them, and the bar of one is  *)
(* full exactly when the limit is used up, or there is traffic and none.   *)
(* The state filter of RulesPage leaves the rules whose badge says that    *)
(* state, and fewer than the dashboard counts only by those counted twice. *)
ChartTruthful == mounted => CurveTruthful /\ BarsTruthful /\ FiltersTruthful

(* The chart of a dashboard that is left alone becomes current, or shows   *)
(* an error, whatever was asked before.                                    *)
TrendSettles ==
  \A key \in Keys :
    <>[](mounted /\ <<range, Traffic(rules)>> = key) =>
      []<>(points.key = key \/ trendError)
=============================================================================
