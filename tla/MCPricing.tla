----------------------------- MODULE MCPricing -----------------------------
(* A small instance of Pricing for TLC: days of two minutes, weeks of two   *)
(* days.                                                                    *)
EXTENDS Pricing

\* A slot on both days that leaves a gap, one over the whole of the first day
\* that overlaps it, and one that ends before it starts.
MCOffered == {
    [from |-> 0, to |-> 1, days |-> {0, 1}, price |-> 2],
    [from |-> 0, to |-> 2, days |-> {0}, price |-> 0],
    [from |-> 1, to |-> 0, days |-> {1}, price |-> 2]}

\* An edit at any point of one session, or two sessions of 1 kWh without one.
OneOrTheOther ==
    \/ sess[2].st = "none"
    \/ edits = 0 /\ checked = {} /\ \A s \in Sessions : sess[s].energy <= 1
=============================================================================
