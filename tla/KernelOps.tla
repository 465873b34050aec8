------------------------------- MODULE KernelOps -------------------------------
(***************************************************************************)
(* The eight operations of the Relay kernel, as far as a caller can tell   *)
(* them apart: which parameters the Worker lets through, which of those    *)
(* the kernel accepts, and how an operation ends on a dataset.             *)
(***************************************************************************)
EXTENDS Integers, Sequences, FiniteSetsExt, Functions

(***************************************************************************)
(* The two schemas, each as its own source has it: how long a list and how *)
(* large a number may be, and what may be left out.                        *)
(***************************************************************************)
Must(lo, hi) == [lo |-> lo, hi |-> hi, optional |-> FALSE]
May(lo, hi)  == [lo |-> lo, hi |-> hi, optional |-> TRUE]

OPERATION_PARAMS_SCHEMAS ==
    [inspect_schema     |-> [head_rows |-> May(1, 50)],
     summary_statistics |-> [columns |-> May(1, 50)],
     filter_rows        |-> [predicates |-> Must(0, 10), limit |-> May(1, 5000)],
     group_aggregate    |-> [group_by |-> Must(1, 5), aggregations |-> Must(1, 10)],
     correlation_matrix |-> [columns |-> May(2, 50)],
     linear_regression  |-> [independents |-> Must(1, 10)],
     distribution_test  |-> [columns |-> Must(1, 2)],
     plot               |-> [bins |-> May(2, 200)]]

OPERATION_PARAM_MODELS ==
    [inspect_schema     |-> [head_rows |-> May(1, 50)],
     summary_statistics |-> [columns |-> May(1, 50)],
     filter_rows        |-> [predicates |-> Must(0, 10), limit |-> May(1, 5000)],
     group_aggregate    |-> [group_by |-> Must(1, 5), aggregations |-> Must(1, 10)],
     correlation_matrix |-> [columns |-> May(2, 50)],
     linear_regression  |-> [independents |-> Must(1, 10)],
     distribution_test  |-> [columns |-> Must(1, 2)],
     plot               |-> [bins |-> May(2, 200)]]

OPERATION_IDS == DOMAIN OPERATION_PARAMS_SCHEMAS

Fits(sizes, schema) ==
    \A f \in DOMAIN schema : IF f \in DOMAIN sizes
                             THEN sizes[f] \in schema[f].lo .. schema[f].hi
                             ELSE schema[f].optional

\* Slip: the parameters are forwarded as the caller sent them.
parseAndForget(q) == q

\* The two fields with a default.
Defaults(op) == CASE op = "inspect_schema" -> [head_rows |-> 10]
                  [] op = "filter_rows"    -> [limit |-> 1000]
                  [] OTHER                 -> [f \in {} |-> 0]

\* safeParse: what passes is handed on without the fields the schema does not
\* have, and with the defaults.
safeParse(q) ==
    LET d == Defaults(q.op) IN
    [q EXCEPT !.extra = FALSE,
              !.sizes = [f \in DOMAIN @ \cup DOMAIN d |-> IF f \in DOMAIN @ THEN @[f] ELSE d[f]]]

\* StrictModel: a field it does not know is refused.
model_validate(q) == Fits(q.sizes, OPERATION_PARAM_MODELS[q.op]) /\ ~q.extra

(***************************************************************************)
(* The handlers.  A frame has columns, some of them numeric, and few rows  *)
(* (too few for statistics) or many; q names columns in the order in which *)
(* the handler looks at them.                                              *)
(***************************************************************************)
\* The first of a row of checks that fails.
First(checks) == LET bad == {i \in DOMAIN checks : checks[i] # "ok"} IN
                 IF bad = {} THEN "ok" ELSE checks[Min(bad)]

Unless(code, test) == IF test THEN "ok" ELSE code

require_columns(f, names) == Unless("unknown_column", Range(names) \subseteq f.columns)

numeric_series(f, c) ==
    First(<<require_columns(f, <<c>>), Unless("not_numeric", c \in f.numeric)>>)

NumericSeries(f, names) == First([i \in DOMAIN names |-> numeric_series(f, names[i])])

\* load_dataset: a file that pandas cannot read has no columns.
load_dataset(f) == Unless("dataset_parse_failed", f.columns # {})

\* Without names: all numeric columns.
numeric_frame(f, names) ==
    First(<<require_columns(f, names),
            Unless("not_numeric", Range(names) \subseteq f.numeric),
            Unless("not_numeric", names # <<>> \/ Cardinality(f.numeric) >= 2)>>)

op_inspect_schema(f, q) == "ok"

op_summary_statistics(f, q) == require_columns(f, q.names)

\* The last predicate may be one that does not compile.
op_filter_rows(f, q) ==
    First(<<require_columns(f, q.names),
            Unless("invalid_predicate",
                   q.names = <<>> \/ q.how \notin {"no_value", "no_list", "unordered"})>>)

op_group_aggregate(f, q) ==
    First(<<require_columns(f, q.names),
            Unless("invalid_aggregation",
                   q.how # "mean" \/ q.names[Len(q.names)] \in f.numeric)>>)

op_correlation_matrix(f, q) == numeric_frame(f, q.names)

op_linear_regression(f, q) ==
    First(<<Unless("invalid_params", Head(q.names) \notin Range(Tail(q.names))),
            NumericSeries(f, q.names),
            Unless("insufficient_data", f.rows = "many")>>)

op_distribution_test(f, q) ==
    First(<<Unless("invalid_params", Len(q.names) = (IF q.how = "one_sample" THEN 1 ELSE 2)),
            NumericSeries(f, q.names),
            Unless("insufficient_data", f.rows = "many")>>)

op_plot(f, q) ==
    LET x == Head(q.names)
        y == Tail(q.names) IN
    CASE q.how \in {"histogram", "box"} -> numeric_series(f, x)
      [] q.how = "scatter" -> First(<<Unless("invalid_params", y # <<>>),
                                      NumericSeries(f, q.names)>>)
      [] q.how = "line" /\ y = <<>> -> numeric_series(f, x)
      [] q.how = "bar" \/ q.how = "line" -> First(<<require_columns(f, <<x>>),
                                                    NumericSeries(f, y)>>)
      [] q.how = "heatmap" -> numeric_frame(f, <<>>)
      [] q.how = "undrawable" -> First(<<require_columns(f, <<x>>), "plot_failed">>)

OPERATIONS(f, q) ==
    CASE q.op = "inspect_schema"     -> op_inspect_schema(f, q)
      [] q.op = "summary_statistics" -> op_summary_statistics(f, q)
      [] q.op = "filter_rows"        -> op_filter_rows(f, q)
      [] q.op = "group_aggregate"    -> op_group_aggregate(f, q)
      [] q.op = "correlation_matrix" -> op_correlation_matrix(f, q)
      [] q.op = "linear_regression"  -> op_linear_regression(f, q)
      [] q.op = "distribution_test"  -> op_distribution_test(f, q)
      [] q.op = "plot"               -> op_plot(f, q)

(***************************************************************************)
(* The requests that are told apart: every size at and just outside its    *)
(* bounds, with and without a field nobody asked for; columns that are     *)
(* numbers, text or not there; what the handlers branch on.  Of a long     *)
(* list the first two names matter (a bound).                              *)
(***************************************************************************)
Edges(bound) == {n \in {bound.lo - 1, bound.lo, bound.hi, bound.hi + 1} : n >= 0}

Sizes(op) ==
    LET schema == OPERATION_PARAMS_SCHEMAS[op] IN
    UNION {{s \in [given -> UNION {Edges(schema[f]) : f \in given}] :
              \A f \in given : s[f] \in Edges(schema[f])} :
           given \in SUBSET DOMAIN schema}

Variants(op) ==
    CASE op = "filter_rows"       -> {"comparable", "no_value", "no_list", "unordered"}
      [] op = "group_aggregate"   -> {"count", "mean"}
      [] op = "distribution_test" -> {"one_sample", "two_sample"}
      [] op = "plot" -> {"histogram", "scatter", "line", "bar", "box", "heatmap",
                         "undrawable"}
      [] OTHER -> {"any"}

Lesser(a, b) == IF a < b THEN a ELSE b

Arities(op, sizes) ==
    CASE op = "inspect_schema" -> {0}
      [] op = "plot"           -> {1, 2}
      [] op \in {"group_aggregate", "linear_regression"} -> {2}
      [] op = "filter_rows" /\ "predicates" \in DOMAIN sizes -> {Lesser(sizes.predicates, 2)}
      [] op \in {"summary_statistics", "correlation_matrix", "distribution_test"}
         /\ "columns" \in DOMAIN sizes -> {Lesser(sizes.columns, 2)}
      [] OTHER -> {0}

Columns == {"units", "price", "region", "missing"}

\* A frame whose price was read as numbers, one that has no price, and one that
\* cannot be read.
Frames == {[columns |-> {"units", "price", "region"}, numeric |-> {"units", "price"},
            rows |-> rows] : rows \in {"few", "many"}}
          \cup {[columns |-> {"units", "region"}, numeric |-> {"units"}, rows |-> "many"],
              [columns |-> {}, numeric |-> {}, rows |-> "few"]}

Requests ==
    UNION {UNION {[op : {op}, sizes : {s}, extra : BOOLEAN, how : Variants(op),
                   names : UNION {[1 .. n -> Columns] : n \in Arities(op, s)}] :
                  s \in Sizes(op)} : op \in OPERATION_IDS}
=================================================================================
