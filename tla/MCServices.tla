----------------------------- MODULE MCServices -----------------------------
\* The constants of Services that are functions, sequences or sets of records.
EXTENDS Services

CONSTANTS a1, a2, a3, b1, b2, c1

\* A portfolio run takes one slot, the other jobs take two.
SlotsOf == [b |-> 2, r |-> 2, p |-> 1]

\* The selections of strategies a portfolio may name, in order.
Pairs == {<<"x", "y">>, <<"y", "x">>}
Odd   == {<<"x", "x">>, <<"z">>}

\* Research requests: of each search mode, with and without a holdout and walk-forward
\* windows, one too short and one that must gain; and what a backtest may come to.
Ask(days, holdout, pct, purge, search, fractions, forward, expanding) ==
    [days |-> days, holdout |-> holdout, pct |-> pct, purge |-> purge, search |-> search,
     fractions |-> fractions, factor |-> 2, min |-> -1, positive |-> FALSE,
     forward |-> forward, expanding |-> expanding, train |-> 4, test |-> 2, step |-> 1]
Asks ==
    {Ask(6, 2, -1, 1, "auto", {50}, FALSE, FALSE),
     Ask(8, -1, -1, 0, "successive_halving", {}, FALSE, FALSE),
     Ask(6, 6, -1, 1, "grid", {}, FALSE, FALSE),
     Ask(3, -1, 40, 1, "grid", {}, TRUE, FALSE),
     Ask(3, -1, -1, 0, "grid", {}, TRUE, FALSE),
     Ask(7, -1, 40, 0, "optuna", {}, TRUE, TRUE),
     [Ask(7, 1, -1, 1, "grid", {}, TRUE, FALSE) EXCEPT !.positive = TRUE, !.min = 2]}
Result(k, v, t, g) == [kind |-> k, value |-> v, trades |-> t, gain |-> g]
Results ==
    {Result("error", 0, 0, FALSE), Result("nan", 0, 0, FALSE), Result("ok", 1, 1, FALSE),
     Result("ok", 1, 2, TRUE), Result("ok", 2, 2, TRUE)}
=============================================================================
