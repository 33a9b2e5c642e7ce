---------------------------- MODULE FilterWindow ----------------------------
(***************************************************************************)
(* Predicate push-down of the Iceberg reader of a /signal file             *)
(* (Hdf5ReadBuilder.build and its WindowVisitor).                          *)
(*                                                                         *)
(* build() visits the bound filter in post-order with ONE window that all  *)
(* visitor methods share and narrow in place, lets Hdf5SignalReader read   *)
(* the rows inside the final window, and evaluates the whole filter again  *)
(* on every row it got.  The filter is not an input of this module: each   *)
(* behaviour chooses it, one visitor call after the other, so that the     *)
(* behaviours are the post-order walks of all filters with at most         *)
(* MaxLeaves predicates.  A subexpression is kept as the set of the file's *)
(* rows it accepts, with whether its visitor method returned the window.   *)
(***************************************************************************)
EXTENDS Integers, Sequences

CONSTANTS
    Rows,        \* the rows of the file, each [ts, series, ...]
    SeriesIds,   \* the series ids a row or a literal may have
    MinLong,     \* Long.MIN_VALUE
    MaxLong,     \* Long.MAX_VALUE
    HourLen,     \* nanoseconds of an hour: a row's epoch_hour is ts \div HourLen
    FileHour,    \* the file's epoch_hour attribute
    Hours,       \* the epoch_hour literals of filters
    MaxLeaves,   \* bound: predicates of one filter
    NULL         \* Java null: an unbounded side of the window

Long == MinLong .. MaxLong

Hour(r) == r.ts \div HourLen

(* A written hour holds rows of that hour only: the precondition the      *)
(* writer states ("Write one settled hour of signal_tier0 rows").          *)
ASSUME RowAssumption ==
    /\ MinLong \in Int /\ MaxLong \in Int /\ MinLong < 0 /\ 0 < MaxLong
    /\ HourLen \in Nat \ {0}
    /\ \A r \in Rows : r.ts \in 0 .. MaxLong /\ r.series \in SeriesIds
    /\ \A r \in Rows : Hour(r) = FileHour

ASSUME NullAssumption ==
    /\ Hours \subseteq Int /\ NULL \notin Int
    /\ \A ids \in SUBSET SeriesIds : NULL # ids

VARIABLES
    w,         \* WindowVisitor.w
    stack,     \* the visited subexpressions no connective has joined yet
    leaves,    \* predicates visited (bounded by MaxLeaves)
    phase,     \* "visit", "read", "residual", "done" or "failed"
    rows,      \* what Hdf5SignalReader.read returned
    kept,      \* what build() returned
    negated,   \* auxiliary: NOT joined a narrowed subexpression, no OR since
    pure       \* auxiliary: only AND, and ts_ns and series_id leaves so far

vars == <<w, stack, leaves, phase, rows, kept, negated, pure>>

-----------------------------------------------------------------------------
(* The window *)

Window == [tsLo : Long \cup {NULL}, tsHi : Long \cup {NULL},
           seriesIds : {NULL} \cup SUBSET SeriesIds,
           epochHour : Hours \cup {NULL}]

All == [tsLo |-> NULL, tsHi |-> NULL, seriesIds |-> NULL, epochHour |-> NULL]

(* The rows Hdf5SignalReader.read emits for a window. *)
InWindow(r, win) ==
    /\ win.epochHour \in {NULL, FileHour}
    /\ win.tsLo = NULL \/ win.tsLo <= r.ts
    /\ win.tsHi = NULL \/ r.ts <= win.tsHi
    /\ win.seriesIds = NULL \/ r.series \in win.seriesIds

(* long arithmetic: v + 1 and v - 1 wrap around *)
Next64(v) == IF v = MaxLong THEN MinLong ELSE v + 1
Prev64(v) == IF v = MinLong THEN MaxLong ELSE v - 1

TightenLo(v) ==
    [w EXCEPT !.tsLo = IF @ = NULL \/ @ < v THEN v ELSE @]
TightenHi(v) ==
    [w EXCEPT !.tsHi = IF @ = NULL \/ v < @ THEN v ELSE @]
IntersectSeries(ids) ==
    [w EXCEPT !.seriesIds = IF @ = NULL THEN ids ELSE @ \cap ids]

-----------------------------------------------------------------------------
Init ==
    /\ w = All
    /\ stack = <<>>
    /\ leaves = 0
    /\ phase = "visit"
    /\ rows = {} /\ kept = {}
    /\ negated = FALSE
    /\ pure = TRUE

(* What the visitor knows of a subexpression: the rows it accepts, the     *)
(* rows its narrowing asks for, whether it narrowed, and whether its       *)
(* visitor method returned the window or null.                             *)
Subexpr(accepted, asked, narrowed, window) ==
    [accepts |-> accepted, asks |-> asked, narrowed |-> narrowed,
     window |-> window]

(* A predicate: one call of WindowVisitor.predicate, which leaves "win". *)
Leaf(e, win, exact) ==
    /\ phase = "visit" /\ leaves < MaxLeaves
    /\ leaves' = leaves + 1
    /\ stack' = Append(stack, e)
    /\ w' = win
    /\ pure' = (pure /\ exact)
    /\ UNCHANGED <<phase, rows, kept, negated>>

(* A predicate that accepts the rows "accepted" and narrows the window to  *)
(* those of "asked".                                                       *)
Narrowing(accepted, asked, win) ==
    Leaf(Subexpr(accepted, asked, TRUE, TRUE), win, TRUE)

(* Mutant of Lt: the bound of <=. *)
LtInclusive == \E v \in Long :
    LET below == {r \in Rows : r.ts < v}
    IN  Narrowing(below, IF v = MinLong THEN Rows ELSE below, TightenHi(v))

(* No row is below MinLong, but v - 1 wraps there: the window stays.       *)
Lt == \E v \in Long :
    LET below == {r \in Rows : r.ts < v}
    IN  Narrowing(below, IF v = MinLong THEN Rows ELSE below,
                  TightenHi(Prev64(v)))

LtEq == \E v \in Long :
    LET upTo == {r \in Rows : r.ts <= v}
    IN  Narrowing(upTo, upTo, TightenHi(v))

(* No row is above MaxLong, but v + 1 wraps there: the window stays.       *)
Gt == \E v \in Long :
    LET above == {r \in Rows : r.ts > v}
    IN  Narrowing(above, IF v = MaxLong THEN Rows ELSE above,
                  TightenLo(Next64(v)))

GtEq == \E v \in Long :
    LET from == {r \in Rows : r.ts >= v}
    IN  Narrowing(from, from, TightenLo(v))

EqTs == \E v \in Long :
    LET at == {r \in Rows : r.ts = v}
    IN  Narrowing(at, at, [w EXCEPT !.tsLo = TightenLo(v).tsLo,
                                    !.tsHi = TightenHi(v).tsHi])

EqSeries == \E s \in SeriesIds :
    LET of == {r \in Rows : r.series = s}
    IN  Narrowing(of, of, IntersectSeries({s}))

InSeries == \E ids \in SUBSET SeriesIds :
    LET of == {r \in Rows : r.series \in ids}
    IN  Narrowing(of, of, IntersectSeries(ids))

(* The last epoch_hour literal replaces an earlier one. *)
EqHour == \E h \in Hours :
    Leaf(Subexpr({r \in Rows : Hour(r) = h}, Rows, TRUE, TRUE),
         [w EXCEPT !.epochHour = h], FALSE)

(* notIn, isNull, notNull, and every comparison but notEq on another       *)
(* column: the window stays and is returned, and the predicate may accept  *)
(* any of the rows.                                                        *)
Ignored == \E accepted \in SUBSET Rows :
    Leaf(Subexpr(accepted, Rows, FALSE, TRUE), w, FALSE)

(* notEq is not overridden: Iceberg's BoundExpressionVisitor returns null. *)
NotEq == \E accepted \in SUBSET Rows :
    Leaf(Subexpr(accepted, Rows, FALSE, FALSE), w, FALSE)

(* The two constants reach the visitor only as the whole filter: binding   *)
(* folds them out of AND, OR and NOT.                                      *)
Constant(accepted, win) ==
    /\ phase = "visit" /\ leaves = 0
    /\ stack' = <<Subexpr(accepted, accepted, TRUE, TRUE)>>
    /\ w' = win
    /\ phase' = "read"
    /\ UNCHANGED <<leaves, rows, kept, negated, pure>>

AlwaysTrue == Constant(Rows, w)
AlwaysFalse == Constant({}, [w EXCEPT !.seriesIds = {}])

(* A connective pops its operands and pushes their combination; whatever   *)
(* they returned, it returns the window.                                   *)
Operand(k) == stack[Len(stack) - k]
Below(k) == SubSeq(stack, 1, Len(stack) - k)

And ==
    /\ phase = "visit" /\ Len(stack) >= 2
    /\ stack' = Append(Below(2),
                  Subexpr(Operand(1).accepts \cap Operand(0).accepts,
                          Operand(1).asks \cap Operand(0).asks,
                          Operand(1).narrowed \/ Operand(0).narrowed, TRUE))
    /\ UNCHANGED <<w, leaves, phase, rows, kept, negated, pure>>

Forget(s) == [i \in DOMAIN s |-> [s[i] EXCEPT !.narrowed = FALSE]]

(* Mutant of Or: the window stays as the operands narrowed it. *)
OrKeepingWindow ==
    /\ phase = "visit" /\ Len(stack) >= 2
    /\ stack' = Append(Forget(Below(2)),
                  Subexpr(Operand(1).accepts \cup Operand(0).accepts, Rows,
                          FALSE, TRUE))
    /\ negated' = FALSE
    /\ pure' = FALSE
    /\ UNCHANGED <<w, leaves, phase, rows, kept>>

(* OR gives up the whole window, whoever narrowed it. *)
Or ==
    /\ phase = "visit" /\ Len(stack) >= 2
    /\ stack' = Append(Forget(Below(2)),
                  Subexpr(Operand(1).accepts \cup Operand(0).accepts, Rows,
                          FALSE, TRUE))
    /\ w' = All
    /\ negated' = FALSE
    /\ pure' = FALSE
    /\ UNCHANGED <<leaves, phase, rows, kept>>

(* NOT returns the shared window as its operand left it. *)
Not ==
    /\ phase = "visit" /\ Len(stack) >= 1
    /\ stack' = Append(Below(1),
                  Subexpr(Rows \ Operand(0).accepts, Rows,
                          Operand(0).narrowed, TRUE))
    /\ negated' = (negated \/ Operand(0).narrowed)
    /\ pure' = FALSE
    /\ UNCHANGED <<w, leaves, phase, rows, kept>>

Visited ==
    /\ phase = "visit" /\ Len(stack) = 1
    /\ phase' = "read"
    /\ UNCHANGED <<w, stack, leaves, rows, kept, negated, pure>>

(* What visit() returned for the whole filter is the window or null:       *)
(* Hdf5SignalReader.read starts with requireNonNull.                       *)
ReadThrows ==
    /\ phase = "read" /\ ~stack[1].window
    /\ phase' = "failed"
    /\ UNCHANGED <<w, stack, leaves, rows, kept, negated, pure>>

Read ==
    /\ phase = "read" /\ stack[1].window
    /\ rows' = {r \in Rows : InWindow(r, w)}
    /\ phase' = "residual"
    /\ UNCHANGED <<w, stack, leaves, kept, negated, pure>>

(* The residual evaluator decides the whole filter on every row read. *)
Residual ==
    /\ phase = "residual"
    /\ kept' = rows \cap stack[1].accepts
    /\ phase' = "done"
    /\ UNCHANGED <<w, stack, leaves, rows, negated, pure>>

Next ==
    \/ Lt \/ LtEq \/ Gt \/ GtEq \/ EqTs \/ EqSeries \/ EqHour \/ InSeries
    \/ Ignored \/ NotEq \/ AlwaysTrue \/ AlwaysFalse
    \/ And \/ Or \/ Not
    \/ Visited \/ ReadThrows \/ Read \/ Residual

Spec == Init /\ [][Next]_vars

-----------------------------------------------------------------------------
Subexpression == [accepts : SUBSET Rows, asks : SUBSET Rows,
                  narrowed : BOOLEAN, window : BOOLEAN]

(* Every variable has its type: the window holds longs and sets of series  *)
(* ids, and one subexpression is left when the visit is over.              *)
TypeOK ==
    /\ w \in Window
    /\ stack \in Seq(Subexpression)
    /\ leaves \in Nat
    /\ phase \in {"visit", "read", "residual", "done", "failed"}
    /\ rows \subseteq Rows /\ kept \subseteq Rows
    /\ negated \in BOOLEAN /\ pure \in BOOLEAN
    /\ phase # "visit" => Len(stack) = 1

(* What Hdf5ReadBuilder promises ("the whole bound expression is           *)
(* re-evaluated on every emitted row so the result is exact"): if build()  *)
(* returns, it returns the file's rows that satisfy the filter, all of     *)
(* them.                                                                   *)
Exact == phase = "done" => kept = stack[1].accepts

(* How far the promise holds: build() throws for no filter but a bare      *)
(* notEq, and answers exactly for every other one in which no NOT stands   *)
(* over a predicate the window was narrowed by, or an OR follows such a    *)
(* NOT.                                                                    *)
ExactUnlessNegated ==
    /\ phase = "failed" => leaves = 1 /\ ~stack[1].window
    /\ ~negated => Exact

(* Push-down works: for a conjunction of ts_ns and series_id predicates    *)
(* the reader is asked for the rows that satisfy all of them and for no    *)
(* other row.  The two predicates no row satisfies, ts_ns < MinLong and    *)
(* ts_ns > MaxLong, narrow nothing, because their bounds wrap: they count  *)
(* as if they asked for every row, and the others still narrow in full.    *)
ConjunctionNarrows ==
    phase \in {"residual", "done"} /\ pure => rows = stack[1].asks

(* Why they hold: each subexpression alone may accept rows outside the     *)
(* shared window; the rows that all narrowed ones accept are inside it,    *)
(* and after pure leaves and ANDs the window holds just the rows that all  *)
(* of them ask for.                                                        *)
AcceptedByNarrowed(s, r) ==
    \A i \in DOMAIN s : s[i].narrowed => r \in s[i].accepts
AskedByAll(s, r) == \A i \in DOMAIN s : r \in s[i].asks

WindowSound ==
    ~negated => \A r \in Rows : AcceptedByNarrowed(stack, r) => InWindow(r, w)
WindowTight ==
    pure => \A r \in Rows : InWindow(r, w) <=> AskedByAll(stack, r)

(* A filter of several predicates is joined by a connective, which returns *)
(* the window.                                                             *)
NullAlone ==
    /\ stack = <<>> => leaves = 0
    /\ Len(stack) = 1 /\ ~stack[1].window => leaves = 1
=============================================================================
