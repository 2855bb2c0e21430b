------------------------------- MODULE ABReport -------------------------------
(***************************************************************************)
(* The A/B report (src/data/ab_report.py): what it makes of the rows that  *)
(* ClickHouse groups by variant.  Counts are naturals and a rate is a      *)
(* fraction <<numerator, denominator>> with a positive denominator, so     *)
(* that lifts are exact; layout and wording are left out.                  *)
(***************************************************************************)
EXTENDS Integers, FiniteSets

Fraction(n, d) == <<n, d>>

(* A rate of nothing is zero. *)
_safe_ratio(numerator, denominator) ==
    IF denominator = 0 THEN Fraction(0, 1) ELSE Fraction(numerator, denominator)

Times(k, x) == Fraction(k * x[1], x[2])

(* The percentage by which rate t exceeds rate c; none over a rate of zero. *)
_lift_pct(t, c) ==
    IF c[1] = 0 THEN Fraction(0, 1)
    ELSE Fraction(100 * (t[1] * c[2] - c[1] * t[2]), c[1] * t[2])

Positive(x) == x[1] > 0
Negative(x) == x[1] < 0

NoMetrics == [imps |-> 0, clicks |-> 0, convs |-> 0, rev |-> 0, latency |-> 0]

(* One group of rows per variant; rows without a variant become "unknown". *)
get_experiment_metrics(groups) ==
    LET named(v) == IF v = "" THEN "unknown" ELSE v
    IN [n \in {named(v) : v \in DOMAIN groups} |->
            groups[CHOOSE v \in DOMAIN groups : named(v) = n]]

ctr(m) == _safe_ratio(m.clicks, m.imps)
(* A conversion rate per impression instead of per click.                  *)
MutantCvr(m) == _safe_ratio(m.convs, m.imps)

cvr(m) == _safe_ratio(m.convs, m.clicks)
ecpm(m) == Times(1000, _safe_ratio(m.rev, m.imps))

calculate_lift(control, treatment) ==
    [ctr |-> _lift_pct(ctr(treatment), ctr(control)),
     cvr |-> _lift_pct(cvr(treatment), cvr(control)),
     ecpm |-> _lift_pct(ecpm(treatment), ecpm(control)),
     latency_delta |-> treatment.latency - control.latency]

_compute_verdict(lift) ==
    LET pos == Cardinality({r \in {"ctr", "cvr", "ecpm"} : Positive(lift[r])})
    IN CASE pos >= 2 /\ Positive(lift.ecpm) -> "outperforms"
         [] pos = 0 -> "no difference"
         [] OTHER -> "moderate improvement"

(* A variant without rows reads as zeros everywhere, except that a missing *)
(* control is first looked for among the rows without a variant.           *)
Of(metrics, variant) ==
    IF variant \in DOMAIN metrics THEN metrics[variant] ELSE NoMetrics

HasControl(metrics) == {"control", "unknown"} \cap DOMAIN metrics # {}

ControlOf(metrics) ==
    Of(metrics, IF "control" \in DOMAIN metrics THEN "control" ELSE "unknown")

(* The sign in front of a printed lift. *)
_print_lift_line(value) ==
    IF Positive(value) THEN "up" ELSE IF Negative(value) THEN "down" ELSE "level"

(* What the report says: the two columns of its table, the direction of    *)
(* each lift and the verdict.                                              *)
generate_report(groups) ==
    LET metrics == get_experiment_metrics(groups)
        control == ControlOf(metrics)
        treatment == Of(metrics, "treatment")
        lift == calculate_lift(control, treatment)
    IN [control |-> control, treatment |-> treatment,
        lifts |-> IF ~HasControl(metrics) THEN <<>>
                  ELSE <<_print_lift_line(lift.ctr), _print_lift_line(lift.cvr),
                         _print_lift_line(lift.ecpm),
                         _print_lift_line(Fraction(lift.latency_delta, 1))>>,
        verdict |-> IF HasControl(metrics) THEN _compute_verdict(lift)
                    ELSE "insufficient data"]

==============================================================================
