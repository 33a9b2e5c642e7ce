------------------------ MODULE FilterWindow_proofs ------------------------
(***************************************************************************)
(* Proofs about FilterWindow, for every file, every filter and every width *)
(* of long: exactness of a read whose filter negates no narrowed           *)
(* predicate and is no bare notEq, and push-down of conjunctions.          *)
(*                                                                         *)
(* Neither promise is inductive.  WindowSound and WindowTight relate the   *)
(* shared window to the whole stack of subexpressions, which is what every *)
(* visitor method preserves; ReadRows carries them over the read.          *)
(***************************************************************************)
EXTENDS FilterWindow, SequenceTheorems, TLAPS

(* A constant finds the visitor as it was created. *)
Untouched == leaves = 0 /\ phase = "visit" => w = All /\ stack = <<>>

(* What the steps after the visit rely on. *)
ReadRows ==
    /\ phase \in {"residual", "done"} => rows = {r \in Rows : InWindow(r, w)}
    /\ phase = "done" => kept = rows \cap stack[1].accepts

(* build() failed because the whole filter returned null. *)
FailedOnNull == phase = "failed" => ~stack[1].window

IInv ==
    /\ TypeOK /\ Untouched /\ WindowSound /\ WindowTight /\ ReadRows
    /\ NullAlone /\ FailedOnNull

-----------------------------------------------------------------------------
(* A subexpression has the four parts it was made of. *)
LEMMA SubexprParts ==
    ASSUME NEW accepted \in SUBSET Rows, NEW asked \in SUBSET Rows,
           NEW narrowed \in BOOLEAN, NEW window \in BOOLEAN
    PROVE  /\ Subexpr(accepted, asked, narrowed, window) \in Subexpression
           /\ Subexpr(accepted, asked, narrowed, window).accepts = accepted
           /\ Subexpr(accepted, asked, narrowed, window).asks = asked
           /\ Subexpr(accepted, asked, narrowed, window).narrowed = narrowed
           /\ Subexpr(accepted, asked, narrowed, window).window = window
BY DEF Subexpr, Subexpression

(* Pushing a subexpression adds its condition to those of the stack. *)
LEMMA PushAccepted ==
    ASSUME NEW s \in Seq(Subexpression), NEW e \in Subexpression, NEW r
    PROVE  /\ Append(s, e) \in Seq(Subexpression)
           /\ Len(Append(s, e)) = Len(s) + 1
           /\ AcceptedByNarrowed(Append(s, e), r)
                <=> AcceptedByNarrowed(s, r) /\ (e.narrowed => r \in e.accepts)
           /\ AskedByAll(Append(s, e), r)
                <=> AskedByAll(s, r) /\ r \in e.asks
<1> DEFINE t == Append(s, e)
<1>1. /\ t \in Seq(Subexpression)
      /\ Len(t) = Len(s) + 1
      /\ \A i \in 1 .. Len(s) : t[i] = s[i]
      /\ t[Len(s) + 1] = e
  BY AppendProperties
<1>2. Len(s) \in Nat /\ DOMAIN s = 1 .. Len(s) /\ DOMAIN t = 1 .. (Len(s) + 1)
  BY <1>1, LenProperties
<1>3. DOMAIN t = DOMAIN s \cup {Len(s) + 1}
  BY <1>2
<1> HIDE DEF t
<1>4. AcceptedByNarrowed(t, r)
        <=> AcceptedByNarrowed(s, r) /\ (e.narrowed => r \in e.accepts)
  BY <1>1, <1>2, <1>3 DEF AcceptedByNarrowed
<1>5. AskedByAll(t, r) <=> AskedByAll(s, r) /\ r \in e.asks
  BY <1>1, <1>2, <1>3 DEF AskedByAll
<1> QED
  BY <1>1, <1>4, <1>5 DEF t

(* Popping the top subexpression removes its condition. *)
LEMMA PopAccepted ==
    ASSUME NEW s \in Seq(Subexpression), Len(s) >= 1, NEW r
    PROVE  /\ SubSeq(s, 1, Len(s) - 1) \in Seq(Subexpression)
           /\ Len(SubSeq(s, 1, Len(s) - 1)) = Len(s) - 1
           /\ s[Len(s)] \in Subexpression
           /\ AcceptedByNarrowed(s, r)
                <=> /\ AcceptedByNarrowed(SubSeq(s, 1, Len(s) - 1), r)
                    /\ s[Len(s)].narrowed => r \in s[Len(s)].accepts
           /\ AskedByAll(s, r)
                <=> /\ AskedByAll(SubSeq(s, 1, Len(s) - 1), r)
                    /\ r \in s[Len(s)].asks
<1> DEFINE t == SubSeq(s, 1, Len(s) - 1)
<1>1. Len(s) \in Nat /\ DOMAIN s = 1 .. Len(s)
  BY LenProperties
<1>2. /\ t \in Seq(Subexpression)
      /\ Len(t) = Len(s) - 1
      /\ \A i \in 1 .. Len(s) - 1 : t[i] = s[i]
  BY <1>1, SubSeqProperties
<1>3. DOMAIN t = 1 .. Len(s) - 1 /\ DOMAIN s = DOMAIN t \cup {Len(s)}
  BY <1>1, <1>2, LenProperties
<1>4. s[Len(s)] \in Subexpression
  BY <1>1, ElementOfSeq
<1> HIDE DEF t
<1>5. AcceptedByNarrowed(s, r)
        <=> /\ AcceptedByNarrowed(t, r)
            /\ s[Len(s)].narrowed => r \in s[Len(s)].accepts
  BY <1>1, <1>2, <1>3 DEF AcceptedByNarrowed
<1>6. AskedByAll(s, r) <=> AskedByAll(t, r) /\ r \in s[Len(s)].asks
  BY <1>1, <1>2, <1>3 DEF AskedByAll
<1> QED
  BY <1>2, <1>4, <1>5, <1>6 DEF t

(* The same for the two operands of AND and OR. *)
LEMMA PopTwoAccepted ==
    ASSUME NEW s \in Seq(Subexpression), Len(s) >= 2, NEW r
    PROVE  /\ SubSeq(s, 1, Len(s) - 2) \in Seq(Subexpression)
           /\ Len(SubSeq(s, 1, Len(s) - 2)) = Len(s) - 2
           /\ s[Len(s)] \in Subexpression /\ s[Len(s) - 1] \in Subexpression
           /\ AcceptedByNarrowed(s, r)
                <=> /\ AcceptedByNarrowed(SubSeq(s, 1, Len(s) - 2), r)
                    /\ s[Len(s) - 1].narrowed => r \in s[Len(s) - 1].accepts
                    /\ s[Len(s)].narrowed => r \in s[Len(s)].accepts
           /\ AskedByAll(s, r)
                <=> /\ AskedByAll(SubSeq(s, 1, Len(s) - 2), r)
                    /\ r \in s[Len(s) - 1].asks
                    /\ r \in s[Len(s)].asks
<1> DEFINE n == Len(s)
           t == SubSeq(s, 1, n - 2)
<1>1. n \in Nat /\ DOMAIN s = 1 .. n
  BY LenProperties
<1>2. /\ t \in Seq(Subexpression)
      /\ Len(t) = n - 2
      /\ \A i \in 1 .. n - 2 : t[i] = s[i]
  BY <1>1, SubSeqProperties
<1>3. DOMAIN t = 1 .. n - 2
  BY <1>1, <1>2, LenProperties
<1>4. s[n] \in Subexpression /\ s[n - 1] \in Subexpression
  BY <1>1, ElementOfSeq
<1>5. DOMAIN s = DOMAIN t \cup {n - 1, n}
  BY <1>1, <1>3
<1> HIDE DEF t, n
<1>6. AcceptedByNarrowed(s, r)
        <=> /\ AcceptedByNarrowed(t, r)
            /\ s[n - 1].narrowed => r \in s[n - 1].accepts
            /\ s[n].narrowed => r \in s[n].accepts
  BY <1>2, <1>3, <1>5 DEF AcceptedByNarrowed
<1>7. AskedByAll(s, r)
        <=> AskedByAll(t, r) /\ r \in s[n - 1].asks /\ r \in s[n].asks
  BY <1>2, <1>3, <1>5 DEF AskedByAll
<1> QED
  BY <1>2, <1>4, <1>6, <1>7 DEF t, n

(* Or's Forget keeps the stack a stack of subexpressions. *)
LEMMA ForgetIsStack ==
    ASSUME NEW s \in Seq(Subexpression)
    PROVE  Forget(s) \in Seq(Subexpression)
<1>1. Len(s) \in Nat /\ DOMAIN s = 1 .. Len(s)
  BY LenProperties
<1>2. ASSUME NEW i \in 1 .. Len(s)
      PROVE  [s[i] EXCEPT !.narrowed = FALSE] \in Subexpression
  <2> DEFINE e == s[i]
  <2>1. e \in Subexpression
    BY ElementOfSeq
  <2> HIDE DEF e
  <2>2. [e EXCEPT !.narrowed = FALSE] \in Subexpression
    BY <2>1 DEF Subexpression
  <2> QED
    BY <2>2 DEF e
<1>3. Forget(s) \in [1 .. Len(s) -> Subexpression]
  BY <1>1, <1>2 DEF Forget
<1> QED
  BY <1>1, <1>3, SeqDef

-----------------------------------------------------------------------------
(* The window after one tightening holds the rows it held that the         *)
(* tightening bound admits, and no other.                                  *)
LEMMA TightenLoRows ==
    ASSUME w \in Window, NEW v \in Long
    PROVE  /\ TightenLo(v) \in Window
           /\ \A r \in Rows : InWindow(r, TightenLo(v))
                                <=> InWindow(r, w) /\ v <= r.ts
<1>1. v \in Int /\ v # NULL /\ NULL \notin Long
  BY RowAssumption, NullAssumption DEF Long
<1>2. TightenLo(v) = [w EXCEPT !.tsLo = IF w.tsLo = NULL \/ w.tsLo < v
                                         THEN v ELSE w.tsLo]
  BY DEF TightenLo
<1>3. w.tsLo = NULL \/ w.tsLo \in Int
  BY RowAssumption DEF Window, Long
<1>4. TightenLo(v) \in Window
  BY <1>2 DEF Window
<1>5. ASSUME NEW r \in Rows
      PROVE  InWindow(r, TightenLo(v)) <=> InWindow(r, w) /\ v <= r.ts
  <2>1. r.ts \in Int
    BY RowAssumption
  <2>2. TightenLo(v).tsLo = (IF w.tsLo = NULL \/ w.tsLo < v THEN v ELSE w.tsLo)
        /\ TightenLo(v).tsHi = w.tsHi
        /\ TightenLo(v).seriesIds = w.seriesIds
        /\ TightenLo(v).epochHour = w.epochHour
    BY <1>2 DEF Window
  <2>3. (TightenLo(v).tsLo = NULL \/ TightenLo(v).tsLo <= r.ts)
          <=> (w.tsLo = NULL \/ w.tsLo <= r.ts) /\ v <= r.ts
    BY <1>1, <1>3, <2>1, <2>2
  <2> QED
    BY <2>2, <2>3, Zenon DEF InWindow
<1> QED
  BY <1>4, <1>5

(* The same for an upper bound (tightenHi). *)
LEMMA TightenHiRows ==
    ASSUME w \in Window, NEW v \in Long
    PROVE  /\ TightenHi(v) \in Window
           /\ \A r \in Rows : InWindow(r, TightenHi(v))
                                <=> InWindow(r, w) /\ r.ts <= v
<1>1. v \in Int /\ v # NULL /\ NULL \notin Long
  BY RowAssumption, NullAssumption DEF Long
<1>2. TightenHi(v) = [w EXCEPT !.tsHi = IF w.tsHi = NULL \/ v < w.tsHi
                                         THEN v ELSE w.tsHi]
  BY DEF TightenHi
<1>3. w.tsHi = NULL \/ w.tsHi \in Int
  BY RowAssumption DEF Window, Long
<1>4. TightenHi(v) \in Window
  BY <1>2 DEF Window
<1>5. ASSUME NEW r \in Rows
      PROVE  InWindow(r, TightenHi(v)) <=> InWindow(r, w) /\ r.ts <= v
  <2>1. r.ts \in Int
    BY RowAssumption
  <2>2. TightenHi(v).tsHi = (IF w.tsHi = NULL \/ v < w.tsHi THEN v ELSE w.tsHi)
        /\ TightenHi(v).tsLo = w.tsLo
        /\ TightenHi(v).seriesIds = w.seriesIds
        /\ TightenHi(v).epochHour = w.epochHour
    BY <1>2 DEF Window
  <2>3. (TightenHi(v).tsHi = NULL \/ r.ts <= TightenHi(v).tsHi)
          <=> (w.tsHi = NULL \/ r.ts <= w.tsHi) /\ r.ts <= v
    BY <1>1, <1>3, <2>1, <2>2
  <2> QED
    BY <2>2, <2>3, Zenon DEF InWindow
<1> QED
  BY <1>4, <1>5

(* Intersecting the series keeps the rows of both series sets. *)
LEMMA IntersectSeriesRows ==
    ASSUME w \in Window, NEW ids \in SUBSET SeriesIds
    PROVE  /\ IntersectSeries(ids) \in Window
           /\ \A r \in Rows : InWindow(r, IntersectSeries(ids))
                                <=> InWindow(r, w) /\ r.series \in ids
<1> DEFINE both == IF w.seriesIds = NULL THEN ids ELSE w.seriesIds \cap ids
<1>1. IntersectSeries(ids) = [w EXCEPT !.seriesIds = both]
  BY DEF IntersectSeries
<1>2. w.seriesIds = NULL \/ w.seriesIds \in SUBSET SeriesIds
  BY DEF Window
<1>3. both \in SUBSET SeriesIds /\ both # NULL
  BY <1>2, NullAssumption
<1>4. IntersectSeries(ids) \in Window
  BY <1>1, <1>3 DEF Window
<1>5. ASSUME NEW r \in Rows
      PROVE  InWindow(r, IntersectSeries(ids))
                <=> InWindow(r, w) /\ r.series \in ids
  <2>1. /\ IntersectSeries(ids).seriesIds = both
        /\ IntersectSeries(ids).tsLo = w.tsLo
        /\ IntersectSeries(ids).tsHi = w.tsHi
        /\ IntersectSeries(ids).epochHour = w.epochHour
    BY <1>1 DEF Window
  <2>2. (w.seriesIds = NULL \/ r.series \in w.seriesIds) /\ r.series \in ids
          <=> r.series \in both
    BY <1>2
  <2> QED
    BY <1>3, <2>1, <2>2, Zenon DEF InWindow
<1> QED
  BY <1>4, <1>5

(* A new window is unbounded. *)
LEMMA AllRows ==
    All \in Window /\ \A r \in Rows : InWindow(r, All)
BY DEF All, Window, InWindow

-----------------------------------------------------------------------------
(* A predicate preserves the invariant if the window it leaves admits      *)
(* every row it accepts, and, when it is exact, just those it asks for.    *)
LEMMA LeafStep ==
    ASSUME IInv,
           NEW e \in Subexpression, NEW win \in Window, NEW exact \in BOOLEAN,
           Leaf(e, win, exact),
           \A r \in Rows : InWindow(r, w) /\ (e.narrowed => r \in e.accepts)
                             => InWindow(r, win),
           exact => \A r \in Rows :
                        InWindow(r, win) <=> InWindow(r, w) /\ r \in e.asks
    PROVE  IInv'
<1>1. /\ phase = "visit" /\ phase' = "visit"
      /\ stack' = Append(stack, e)
      /\ w' = win
      /\ leaves' = leaves + 1
      /\ pure' = (pure /\ exact)
      /\ UNCHANGED <<rows, kept, negated>>
  BY DEF Leaf
<1>2. stack \in Seq(Subexpression) /\ Len(stack) \in Nat
  BY LenProperties DEF IInv, TypeOK
<1>3. stack' \in Seq(Subexpression) /\ Len(stack') = Len(stack) + 1
  BY <1>1, <1>2, PushAccepted
<1>4. TypeOK'
  BY <1>1, <1>3 DEF IInv, TypeOK
<1>5. WindowSound'
  <2> SUFFICES ASSUME ~negated, NEW r \in Rows, AcceptedByNarrowed(stack', r)
               PROVE  InWindow(r, win)
    BY <1>1 DEF WindowSound
  <2>1. AcceptedByNarrowed(stack, r) /\ (e.narrowed => r \in e.accepts)
    BY <1>1, <1>2, PushAccepted
  <2>2. InWindow(r, w)
    BY <2>1 DEF IInv, WindowSound
  <2> QED
    BY <2>1, <2>2
<1>6. WindowTight'
  <2> SUFFICES ASSUME pure, exact, NEW r \in Rows
               PROVE  InWindow(r, win) <=> AskedByAll(stack', r)
    BY <1>1 DEF WindowTight
  <2>1. AskedByAll(stack', r) <=> AskedByAll(stack, r) /\ r \in e.asks
    BY <1>1, <1>2, PushAccepted
  <2>2. InWindow(r, w) <=> AskedByAll(stack, r)
    BY DEF IInv, WindowTight
  <2> QED
    BY <2>1, <2>2
<1>7. ReadRows' /\ Untouched' /\ FailedOnNull'
  BY <1>1 DEF ReadRows, Untouched, FailedOnNull, IInv, TypeOK
<1>8. NullAlone'
  <2>1. stack' # <<>>
    BY <1>2, <1>3, EmptySeq
  <2>2. ASSUME Len(stack') = 1
        PROVE  leaves' = 1
    <3>1. stack = <<>>
      BY <1>2, <1>3, <2>2, EmptySeq
    <3> QED
      BY <3>1, <1>1 DEF IInv, NullAlone
  <2> QED
    BY <2>1, <2>2 DEF NullAlone
<1> QED
  BY <1>4, <1>5, <1>6, <1>7, <1>8 DEF IInv

(* A narrowing predicate preserves it if its window keeps just the rows it *)
(* asks for, and it asks for all it accepts.                               *)
LEMMA NarrowingStep ==
    ASSUME IInv,
           NEW accepted \in SUBSET Rows, NEW asked \in SUBSET Rows,
           NEW win \in Window,
           Narrowing(accepted, asked, win),
           accepted \subseteq asked,
           \A r \in Rows : InWindow(r, win) <=> InWindow(r, w) /\ r \in asked
    PROVE  IInv'
<1> DEFINE e == Subexpr(accepted, asked, TRUE, TRUE)
<1>1. Leaf(e, win, TRUE)
  BY DEF Narrowing
<1>2. /\ e \in Subexpression /\ e.accepts = accepted /\ e.asks = asked
      /\ e.narrowed = TRUE
  BY SubexprParts
<1> HIDE DEF e
<1>3. \A r \in Rows : InWindow(r, w) /\ (e.narrowed => r \in e.accepts)
                         => InWindow(r, win)
  BY <1>2
<1>4. \A r \in Rows : InWindow(r, win) <=> InWindow(r, w) /\ r \in e.asks
  BY <1>2
<1> QED
  BY <1>1, <1>2, <1>3, <1>4, LeafStep

(* Every row has a time the long comparisons of a predicate can decide. *)
LEMMA RowTimes ==
    \A r \in Rows : r.ts \in Int /\ MinLong <= r.ts /\ r.ts <= MaxLong
<1> SUFFICES ASSUME NEW r \in Rows
             PROVE  r.ts \in Int /\ MinLong <= r.ts /\ r.ts <= MaxLong
  OBVIOUS
<1> DEFINE t == r.ts
<1>1. t \in 0 .. MaxLong /\ MinLong \in Int /\ MaxLong \in Int /\ MinLong < 0
  BY RowAssumption
<1> HIDE DEF t
<1>2. t \in Int /\ MinLong <= t /\ t <= MaxLong
  BY <1>1
<1> QED
  BY <1>2 DEF t

(* The leaves: each narrows the window to just the rows it accepts, except *)
(* at the ends of long, where v - 1 and v + 1 wrap and bound nothing: it   *)
(* then accepts no row and asks for every one.                             *)
LEMMA LtStep == IInv /\ Lt => IInv'
<1> SUFFICES ASSUME IInv, NEW v \in Long,
                    Narrowing({r \in Rows : r.ts < v},
                              IF v = MinLong THEN Rows
                              ELSE {r \in Rows : r.ts < v},
                              TightenHi(Prev64(v)))
             PROVE  IInv'
  BY DEF Lt
<1> DEFINE accepted == {r \in Rows : r.ts < v}
           asked == IF v = MinLong THEN Rows ELSE accepted
           win == TightenHi(Prev64(v))
<1>1. w \in Window
  BY DEF IInv, TypeOK
<1>2. /\ accepted \in SUBSET Rows /\ asked \in SUBSET Rows
      /\ accepted \subseteq asked
  OBVIOUS
<1>3. Narrowing(accepted, asked, win)
  OBVIOUS
<1>4. win \in Window
  BY <1>1, TightenHiRows, RowAssumption DEF Long, Prev64
<1>5. \A r \in Rows : InWindow(r, win) <=> InWindow(r, w) /\ r \in asked
  <2>1. v \in Int /\ Prev64(v) \in Long
    BY RowAssumption DEF Long, Prev64
  <2>2. ASSUME NEW r \in Rows
        PROVE  IF v = MinLong THEN r.ts <= Prev64(v)
               ELSE r.ts < v <=> r.ts <= Prev64(v)
    BY <2>1, RowTimes, RowAssumption DEF Long, Prev64
  <2>3. \A r \in Rows : InWindow(r, win) <=> InWindow(r, w) /\ r.ts <= Prev64(v)
    BY <1>1, <2>1, TightenHiRows
  <2>4. \A r \in Rows : r \in asked <=> v = MinLong \/ r.ts < v
    OBVIOUS
  <2> HIDE DEF accepted, asked, win
  <2> QED
    BY <2>2, <2>3, <2>4
<1> HIDE DEF accepted, asked, win
<1> QED
  BY <1>1, <1>2, <1>3, <1>4, <1>5, NarrowingStep

(* ts_ns <= v bounds the window by v itself. *)
LEMMA LtEqStep == IInv /\ LtEq => IInv'
<1> SUFFICES ASSUME IInv, NEW v \in Long,
                    Narrowing({r \in Rows : r.ts <= v},
                              {r \in Rows : r.ts <= v},
                              TightenHi(v))
             PROVE  IInv'
  BY DEF LtEq
<1> DEFINE accepted == {r \in Rows : r.ts <= v}
           win == TightenHi(v)
<1>1. w \in Window
  BY DEF IInv, TypeOK
<1>2. accepted \in SUBSET Rows
  OBVIOUS
<1>3. Narrowing(accepted, accepted, win)
  OBVIOUS
<1>4. win \in Window
  BY <1>1, TightenHiRows
<1>5. \A r \in Rows : InWindow(r, win) <=> InWindow(r, w) /\ r \in accepted
  BY <1>1, TightenHiRows
<1> HIDE DEF accepted, win
<1> QED
  BY <1>1, <1>2, <1>3, <1>4, <1>5, NarrowingStep

(* ts_ns > v bounds it by v + 1, which wraps at the largest long. *)
LEMMA GtStep == IInv /\ Gt => IInv'
<1> SUFFICES ASSUME IInv, NEW v \in Long,
                    Narrowing({r \in Rows : r.ts > v},
                              IF v = MaxLong THEN Rows
                              ELSE {r \in Rows : r.ts > v},
                              TightenLo(Next64(v)))
             PROVE  IInv'
  BY DEF Gt
<1> DEFINE accepted == {r \in Rows : r.ts > v}
           asked == IF v = MaxLong THEN Rows ELSE accepted
           win == TightenLo(Next64(v))
<1>1. w \in Window
  BY DEF IInv, TypeOK
<1>2. /\ accepted \in SUBSET Rows /\ asked \in SUBSET Rows
      /\ accepted \subseteq asked
  OBVIOUS
<1>3. Narrowing(accepted, asked, win)
  OBVIOUS
<1>4. win \in Window
  BY <1>1, TightenLoRows, RowAssumption DEF Long, Next64
<1>5. \A r \in Rows : InWindow(r, win) <=> InWindow(r, w) /\ r \in asked
  <2>1. v \in Int /\ Next64(v) \in Long
    BY RowAssumption DEF Long, Next64
  <2>2. ASSUME NEW r \in Rows
        PROVE  IF v = MaxLong THEN Next64(v) <= r.ts
               ELSE r.ts > v <=> Next64(v) <= r.ts
    BY <2>1, RowTimes, RowAssumption DEF Long, Next64
  <2>3. \A r \in Rows : InWindow(r, win) <=> InWindow(r, w) /\ Next64(v) <= r.ts
    BY <1>1, <2>1, TightenLoRows
  <2>4. \A r \in Rows : r \in asked <=> v = MaxLong \/ r.ts > v
    OBVIOUS
  <2> HIDE DEF accepted, asked, win
  <2> QED
    BY <2>2, <2>3, <2>4
<1> HIDE DEF accepted, asked, win
<1> QED
  BY <1>1, <1>2, <1>3, <1>4, <1>5, NarrowingStep

(* ts_ns >= v bounds the window by v itself. *)
LEMMA GtEqStep == IInv /\ GtEq => IInv'
<1> SUFFICES ASSUME IInv, NEW v \in Long,
                    Narrowing({r \in Rows : r.ts >= v},
                              {r \in Rows : r.ts >= v},
                              TightenLo(v))
             PROVE  IInv'
  BY DEF GtEq
<1> DEFINE accepted == {r \in Rows : r.ts >= v}
           win == TightenLo(v)
<1>1. w \in Window
  BY DEF IInv, TypeOK
<1>2. accepted \in SUBSET Rows
  OBVIOUS
<1>3. Narrowing(accepted, accepted, win)
  OBVIOUS
<1>4. win \in Window
  BY <1>1, TightenLoRows
<1>5. \A r \in Rows : InWindow(r, win) <=> InWindow(r, w) /\ r \in accepted
  <2>1. \A r \in Rows : InWindow(r, win) <=> InWindow(r, w) /\ v <= r.ts
    BY <1>1, TightenLoRows
  <2>2. v \in Int
    BY RowAssumption DEF Long
  <2>3. \A r \in Rows : r \in accepted <=> v <= r.ts
    BY <2>2, RowTimes
  <2> HIDE DEF accepted, win
  <2> QED
    BY <2>1, <2>3
<1> HIDE DEF accepted, win
<1> QED
  BY <1>1, <1>2, <1>3, <1>4, <1>5, NarrowingStep

(* ts_ns = v bounds both sides, one after the other. *)
LEMMA EqTsStep == IInv /\ EqTs => IInv'
<1> SUFFICES ASSUME IInv, NEW v \in Long,
                    Narrowing({r \in Rows : r.ts = v},
                              {r \in Rows : r.ts = v},
                              [w EXCEPT !.tsLo = TightenLo(v).tsLo,
                                        !.tsHi = TightenHi(v).tsHi])
             PROVE  IInv'
  BY DEF EqTs
<1> DEFINE accepted == {r \in Rows : r.ts = v}
           win == [w EXCEPT !.tsLo = TightenLo(v).tsLo,
                                        !.tsHi = TightenHi(v).tsHi]
<1>1. w \in Window
  BY DEF IInv, TypeOK
<1>2. accepted \in SUBSET Rows
  OBVIOUS
<1>3. Narrowing(accepted, accepted, win)
  OBVIOUS
<1>4. win \in Window
  BY <1>1, TightenLoRows, TightenHiRows DEF Window
<1>5. \A r \in Rows : InWindow(r, win) <=> InWindow(r, w) /\ r \in accepted
  <2>1. win.tsLo = TightenLo(v).tsLo /\ win.tsHi = TightenHi(v).tsHi
        /\ win.seriesIds = w.seriesIds /\ win.epochHour = w.epochHour
    BY <1>1 DEF Window
  <2>2. /\ TightenLo(v).tsHi = w.tsHi /\ TightenLo(v).seriesIds = w.seriesIds
        /\ TightenLo(v).epochHour = w.epochHour
        /\ TightenHi(v).tsLo = w.tsLo /\ TightenHi(v).seriesIds = w.seriesIds
        /\ TightenHi(v).epochHour = w.epochHour
    BY <1>1 DEF Window, TightenLo, TightenHi
  <2>3. \A r \in Rows : /\ InWindow(r, TightenLo(v)) <=> InWindow(r, w) /\ v <= r.ts
                        /\ InWindow(r, TightenHi(v)) <=> InWindow(r, w) /\ r.ts <= v
    BY <1>1, TightenLoRows, TightenHiRows
  <2>4. \A r \in Rows : InWindow(r, win)
                          <=> InWindow(r, TightenLo(v)) /\ InWindow(r, TightenHi(v))
    <3> HIDE DEF win
    <3> SUFFICES ASSUME NEW r \in Rows
                 PROVE  InWindow(r, win)
                          <=> InWindow(r, TightenLo(v)) /\ InWindow(r, TightenHi(v))
      OBVIOUS
    <3>1. ASSUME InWindow(r, win)
          PROVE  InWindow(r, TightenLo(v)) /\ InWindow(r, TightenHi(v))
      <4>1. (TightenLo(v).tsLo = NULL \/ TightenLo(v).tsLo <= r.ts)
            => (w.tsLo = NULL \/ w.tsLo <= r.ts)
        BY <1>1, RowTimes, RowAssumption, NullAssumption
           DEF TightenLo, Window, Long
      <4>2. (TightenHi(v).tsHi = NULL \/ r.ts <= TightenHi(v).tsHi)
            => (w.tsHi = NULL \/ r.ts <= w.tsHi)
        BY <1>1, RowTimes, RowAssumption, NullAssumption
           DEF TightenHi, Window, Long
      <4> QED
        BY <3>1, <2>1, <2>2, <4>1, <4>2, Zenon DEF InWindow
    <3>2. ASSUME InWindow(r, TightenLo(v)), InWindow(r, TightenHi(v))
          PROVE  InWindow(r, win)
      BY <3>2, <2>1, <2>2, Zenon DEF InWindow
    <3> QED
      BY <3>1, <3>2
  <2>5. v \in Int
    BY RowAssumption DEF Long
  <2>6. ASSUME NEW r \in Rows
        PROVE  r \in accepted <=> v <= r.ts /\ r.ts <= v
    <3>1. r \in accepted <=> r.ts = v
      OBVIOUS
    <3> HIDE DEF accepted, win
    <3>2. r.ts \in Int
      BY RowTimes
    <3> QED
      BY <2>5, <3>1, <3>2
  <2> HIDE DEF accepted, win
  <2> QED
    BY <2>3, <2>4, <2>6
<1> HIDE DEF accepted, win
<1> QED
  BY <1>1, <1>2, <1>3, <1>4, <1>5, NarrowingStep

(* series_id = s intersects the series with {s}. *)
LEMMA EqSeriesStep == IInv /\ EqSeries => IInv'
<1> SUFFICES ASSUME IInv, NEW s \in SeriesIds,
                    Narrowing({r \in Rows : r.series = s},
                              {r \in Rows : r.series = s},
                              IntersectSeries({s}))
             PROVE  IInv'
  BY DEF EqSeries
<1> DEFINE accepted == {r \in Rows : r.series = s}
           win == IntersectSeries({s})
<1>1. w \in Window
  BY DEF IInv, TypeOK
<1>2. accepted \in SUBSET Rows
  OBVIOUS
<1>3. Narrowing(accepted, accepted, win)
  OBVIOUS
<1>4. win \in Window
  BY <1>1, IntersectSeriesRows
<1>5. \A r \in Rows : InWindow(r, win) <=> InWindow(r, w) /\ r \in accepted
  <2>1. {s} \in SUBSET SeriesIds
    OBVIOUS
  <2>2. \A r \in Rows : InWindow(r, win) <=> InWindow(r, w) /\ r.series \in {s}
    BY <1>1, <2>1, IntersectSeriesRows
  <2>3. \A r \in Rows : r \in accepted <=> r.series \in {s}
    OBVIOUS
  <2> HIDE DEF accepted, win
  <2> QED
    BY <2>2, <2>3
<1> HIDE DEF accepted, win
<1> QED
  BY <1>1, <1>2, <1>3, <1>4, <1>5, NarrowingStep

(* series_id IN ids intersects the series with ids. *)
LEMMA InSeriesStep == IInv /\ InSeries => IInv'
<1> SUFFICES ASSUME IInv, NEW ids \in SUBSET SeriesIds,
                    Narrowing({r \in Rows : r.series \in ids},
                              {r \in Rows : r.series \in ids},
                              IntersectSeries(ids))
             PROVE  IInv'
  BY DEF InSeries
<1> DEFINE accepted == {r \in Rows : r.series \in ids}
           win == IntersectSeries(ids)
<1>1. w \in Window
  BY DEF IInv, TypeOK
<1>2. accepted \in SUBSET Rows
  OBVIOUS
<1>3. Narrowing(accepted, accepted, win)
  OBVIOUS
<1>4. win \in Window
  BY <1>1, IntersectSeriesRows
<1>5. \A r \in Rows : InWindow(r, win) <=> InWindow(r, w) /\ r \in accepted
  BY <1>1, IntersectSeriesRows
<1> HIDE DEF accepted, win
<1> QED
  BY <1>1, <1>2, <1>3, <1>4, <1>5, NarrowingStep

(* The file's attribute stands for the hour of each of its rows, so a      *)
(* window on another hour excludes no row the predicate accepts.           *)
LEMMA EqHourStep == IInv /\ EqHour => IInv'
<1> SUFFICES ASSUME IInv, NEW h \in Hours,
                    Leaf(Subexpr({r \in Rows : Hour(r) = h}, Rows, TRUE, TRUE),
                         [w EXCEPT !.epochHour = h], FALSE)
             PROVE  IInv'
  BY DEF EqHour
<1> DEFINE accepted == {r \in Rows : Hour(r) = h}
           e == Subexpr(accepted, Rows, TRUE, TRUE)
           win == [w EXCEPT !.epochHour = h]
<1>1. w \in Window
  BY DEF IInv, TypeOK
<1>2. e \in Subexpression /\ e.accepts = accepted /\ e.narrowed = TRUE
  BY SubexprParts
<1>3. Leaf(e, win, FALSE)
  OBVIOUS
<1>4. win \in Window
  BY <1>1 DEF Window
<1>5. \A r \in Rows : InWindow(r, w) /\ r \in accepted => InWindow(r, win)
  <2>1. /\ win.tsLo = w.tsLo /\ win.tsHi = w.tsHi
        /\ win.seriesIds = w.seriesIds /\ win.epochHour = h
    BY <1>1 DEF Window
  <2>2. \A r \in Rows : r \in accepted => h = FileHour
    BY RowAssumption
  <2> HIDE DEF accepted, e, win
  <2> QED
    BY <2>1, <2>2 DEF InWindow
<1> HIDE DEF accepted, e, win
<1>6. \A r \in Rows : InWindow(r, w) /\ (e.narrowed => r \in e.accepts)
                         => InWindow(r, win)
  BY <1>2, <1>5
<1> QED
  BY <1>2, <1>3, <1>4, <1>6, LeafStep

(* A predicate the visitor ignores leaves the window as it is. *)
LEMMA IgnoredStep == IInv /\ Ignored => IInv'
<1> SUFFICES ASSUME IInv, NEW accepted \in SUBSET Rows,
                    Leaf(Subexpr(accepted, Rows, FALSE, TRUE), w, FALSE)
             PROVE  IInv'
  BY DEF Ignored
<1> DEFINE e == Subexpr(accepted, Rows, FALSE, TRUE)
<1>1. w \in Window
  BY DEF IInv, TypeOK
<1>2. e \in Subexpression
  BY SubexprParts
<1> HIDE DEF e
<1>3. Leaf(e, w, FALSE)
  BY DEF e
<1> QED
  BY <1>1, <1>2, <1>3, LeafStep

(* notEq leaves the window as it is, and is the one that returns null. *)
LEMMA NotEqStep == IInv /\ NotEq => IInv'
<1> SUFFICES ASSUME IInv, NEW accepted \in SUBSET Rows,
                    Leaf(Subexpr(accepted, Rows, FALSE, FALSE), w, FALSE)
             PROVE  IInv'
  BY DEF NotEq
<1> DEFINE e == Subexpr(accepted, Rows, FALSE, FALSE)
<1>1. w \in Window
  BY DEF IInv, TypeOK
<1>2. e \in Subexpression
  BY SubexprParts
<1> HIDE DEF e
<1>3. Leaf(e, w, FALSE)
  BY DEF e
<1> QED
  BY <1>1, <1>2, <1>3, LeafStep

-----------------------------------------------------------------------------
(* The two constants are the whole filter. *)
LEMMA ConstantStep ==
    ASSUME IInv, NEW accepted \in SUBSET Rows, NEW win \in Window,
           Constant(accepted, win),
           \A r \in Rows : InWindow(r, win) <=> r \in accepted
    PROVE  IInv'
<1> DEFINE e == Subexpr(accepted, accepted, TRUE, TRUE)
<1>1. /\ stack' = <<e>> /\ w' = win /\ phase' = "read"
      /\ UNCHANGED <<leaves, rows, kept, negated, pure>>
  BY DEF Constant
<1>2. /\ e \in Subexpression /\ e.accepts = accepted /\ e.asks = accepted
      /\ e.narrowed = TRUE /\ e.window = TRUE
  BY SubexprParts
<1> HIDE DEF e
<1>3. stack' \in Seq(Subexpression) /\ Len(stack') = 1 /\ DOMAIN stack' = {1}
      /\ stack'[1] = e
  BY <1>1, <1>2
<1>4. TypeOK'
  BY <1>1, <1>3 DEF IInv, TypeOK
<1>5. WindowSound' /\ WindowTight'
  BY <1>1, <1>2, <1>3 DEF WindowSound, WindowTight, AcceptedByNarrowed,
     AskedByAll
<1>6. ReadRows' /\ Untouched' /\ FailedOnNull'
  BY <1>1 DEF ReadRows, Untouched, FailedOnNull
<1>7. NullAlone'
  <2>1. stack' # <<>>
    BY <1>3, EmptySeq
  <2> QED
    BY <2>1, <1>2, <1>3 DEF NullAlone
<1> QED
  BY <1>4, <1>5, <1>6, <1>7 DEF IInv

(* TRUE leaves the unbounded window. *)
LEMMA AlwaysTrueStep == IInv /\ AlwaysTrue => IInv'
<1> SUFFICES ASSUME IInv, Constant(Rows, w)
             PROVE  IInv'
  BY DEF AlwaysTrue
<1>1. w = All
  BY DEF Constant, IInv, Untouched
<1> QED
  BY <1>1, AllRows, ConstantStep

(* FALSE asks for no series at all: the window is empty. *)
LEMMA AlwaysFalseStep == IInv /\ AlwaysFalse => IInv'
<1> DEFINE win == [w EXCEPT !.seriesIds = {}]
<1> SUFFICES ASSUME IInv, Constant({}, win)
             PROVE  IInv'
  BY DEF AlwaysFalse
<1>1. win \in Window /\ win.seriesIds = {}
  BY DEF IInv, TypeOK, Window
<1> HIDE DEF win
<1>2. {} # NULL
  BY NullAssumption
<1>3. \A r \in Rows : ~InWindow(r, win)
  BY <1>1, <1>2 DEF InWindow
<1> QED
  BY <1>1, <1>3, ConstantStep

-----------------------------------------------------------------------------
(* A connective leaves the window on top of the stack. *)
LEMMA PushedOnto ==
    ASSUME NEW s \in Seq(Subexpression), NEW e \in Subexpression, e.window,
           stack' = Append(s, e)
    PROVE  NullAlone'
<1>1. Len(s) \in Nat /\ Len(stack') = Len(s) + 1 /\ stack'[Len(s) + 1] = e
  BY LenProperties, AppendProperties
<1>2. stack' # <<>>
  BY <1>1, EmptySeq
<1> QED
  BY <1>1, <1>2 DEF NullAlone

(* AND keeps the window: the condition of the stack does not change. *)
LEMMA AndStep == IInv /\ And => IInv'
<1> SUFFICES ASSUME IInv, And
             PROVE  IInv'
  OBVIOUS
<1> DEFINE a == stack[Len(stack) - 1]
           b == stack[Len(stack)]
           below == SubSeq(stack, 1, Len(stack) - 2)
           e == Subexpr(a.accepts \cap b.accepts, a.asks \cap b.asks,
                        a.narrowed \/ b.narrowed, TRUE)
<1>1. stack \in Seq(Subexpression) /\ Len(stack) >= 2 /\ Len(stack) \in Nat
  BY LenProperties DEF IInv, TypeOK, And
<1>2. /\ phase = "visit" /\ stack' = Append(below, e)
      /\ UNCHANGED <<w, leaves, phase, rows, kept, negated, pure>>
  <2>1. Operand(1) = a /\ Operand(0) = b /\ Below(2) = below
    BY <1>1 DEF Operand, Below
  <2> QED
    BY <2>1 DEF And
<1>3. /\ below \in Seq(Subexpression) /\ Len(below) = Len(stack) - 2
      /\ a \in Subexpression /\ b \in Subexpression
      /\ \A r : /\ AcceptedByNarrowed(stack, r)
                     <=> /\ AcceptedByNarrowed(below, r)
                         /\ a.narrowed => r \in a.accepts
                         /\ b.narrowed => r \in b.accepts
                /\ AskedByAll(stack, r)
                     <=> AskedByAll(below, r) /\ r \in a.asks /\ r \in b.asks
  BY <1>1, PopTwoAccepted
<1> HIDE DEF a, b, below
<1>4. /\ e \in Subexpression
      /\ e.narrowed = (a.narrowed \/ b.narrowed)
      /\ e.accepts = a.accepts \cap b.accepts
      /\ e.asks = a.asks \cap b.asks
      /\ e.window = TRUE
  <2>1. /\ a.accepts \cap b.accepts \in SUBSET Rows
        /\ a.asks \cap b.asks \in SUBSET Rows
        /\ (a.narrowed \/ b.narrowed) \in BOOLEAN
    BY <1>3 DEF Subexpression
  <2> QED
    BY <2>1 DEF Subexpr, Subexpression
<1> HIDE DEF e
<1>5. /\ stack' \in Seq(Subexpression) /\ Len(stack') = Len(below) + 1
      /\ \A r : /\ AcceptedByNarrowed(stack', r)
                     <=> /\ AcceptedByNarrowed(below, r)
                         /\ e.narrowed => r \in e.accepts
                /\ AskedByAll(stack', r)
                     <=> AskedByAll(below, r) /\ r \in e.asks
  BY <1>2, <1>3, <1>4, PushAccepted
<1>6. \A r : /\ AcceptedByNarrowed(stack', r) => AcceptedByNarrowed(stack, r)
             /\ AskedByAll(stack', r) <=> AskedByAll(stack, r)
  BY <1>3, <1>4, <1>5 DEF Subexpression
<1>7. TypeOK'
  BY <1>2, <1>5 DEF IInv, TypeOK
<1>8. WindowSound' /\ WindowTight'
  BY <1>2, <1>6 DEF IInv, WindowSound, WindowTight
<1>9. ReadRows' /\ Untouched' /\ FailedOnNull'
  BY <1>1, <1>2 DEF IInv, ReadRows, Untouched, FailedOnNull
<1>10. NullAlone'
  BY <1>1, <1>2, <1>3, <1>4, <1>5, PushedOnto
<1> QED
  BY <1>7, <1>8, <1>9, <1>10 DEF IInv

(* After OR nothing is narrowed: the window is unbounded. *)
LEMMA OrStep == IInv /\ Or => IInv'
<1> SUFFICES ASSUME IInv, Or
             PROVE  IInv'
  OBVIOUS
<1> DEFINE below == SubSeq(stack, 1, Len(stack) - 2)
           joined == stack[Len(stack) - 1].accepts \cup stack[Len(stack)].accepts
           e == Subexpr(joined, Rows, FALSE, TRUE)
<1>1. stack \in Seq(Subexpression) /\ Len(stack) >= 2 /\ Len(stack) \in Nat
  BY LenProperties DEF IInv, TypeOK, Or
<1>2. /\ phase = "visit" /\ stack' = Append(Forget(below), e)
      /\ w' = All /\ negated' = FALSE /\ pure' = FALSE
      /\ UNCHANGED <<leaves, phase, rows, kept>>
  <2>1. /\ Operand(1) = stack[Len(stack) - 1] /\ Operand(0) = stack[Len(stack)]
        /\ Below(2) = below
    BY <1>1 DEF Operand, Below
  <2> QED
    BY <2>1 DEF Or
<1>3. below \in Seq(Subexpression) /\ joined \in SUBSET Rows
  BY <1>1, PopTwoAccepted DEF Subexpression
<1> HIDE DEF below, joined
<1>9. e \in Subexpression /\ e.window = TRUE
  BY <1>3, SubexprParts
<1> HIDE DEF e
<1>4. stack' \in Seq(Subexpression)
  BY <1>2, <1>3, <1>9, ForgetIsStack, PushAccepted
<1>5. TypeOK'
  BY <1>2, <1>4, AllRows DEF IInv, TypeOK
<1>6. WindowSound' /\ WindowTight'
  BY <1>2, AllRows DEF WindowSound, WindowTight
<1>7. ReadRows' /\ Untouched' /\ FailedOnNull'
  BY <1>1, <1>2 DEF IInv, ReadRows, Untouched, FailedOnNull
<1>8. NullAlone'
  BY <1>2, <1>3, <1>9, ForgetIsStack, PushedOnto
<1> QED
  BY <1>5, <1>6, <1>7, <1>8 DEF IInv

(* NOT over a subexpression that did not narrow leaves the condition of    *)
(* the stack; over one that did, the behaviour is marked as negated.       *)
LEMMA NotStep == IInv /\ Not => IInv'
<1> SUFFICES ASSUME IInv, Not
             PROVE  IInv'
  OBVIOUS
<1> DEFINE a == stack[Len(stack)]
           below == SubSeq(stack, 1, Len(stack) - 1)
           e == Subexpr(Rows \ a.accepts, Rows, a.narrowed, TRUE)
<1>1. stack \in Seq(Subexpression) /\ Len(stack) >= 1 /\ Len(stack) \in Nat
  BY LenProperties DEF IInv, TypeOK, Not
<1>2. /\ phase = "visit" /\ stack' = Append(below, e)
      /\ negated' = (negated \/ a.narrowed) /\ pure' = FALSE
      /\ UNCHANGED <<w, leaves, phase, rows, kept>>
  <2>1. Operand(0) = a /\ Below(1) = below
    BY <1>1 DEF Operand, Below
  <2> QED
    BY <2>1 DEF Not
<1>3. /\ below \in Seq(Subexpression) /\ a \in Subexpression
      /\ \A r : AcceptedByNarrowed(stack, r)
                  <=> /\ AcceptedByNarrowed(below, r)
                      /\ a.narrowed => r \in a.accepts
  BY <1>1, PopAccepted
<1> HIDE DEF a, below
<1>4. /\ e \in Subexpression /\ e.narrowed = a.narrowed /\ a.narrowed \in BOOLEAN
      /\ e.window = TRUE
  <2>1. Rows \ a.accepts \in SUBSET Rows /\ a.narrowed \in BOOLEAN
    BY <1>3 DEF Subexpression
  <2> QED
    BY <2>1 DEF Subexpr, Subexpression
<1> HIDE DEF e
<1>5. /\ stack' \in Seq(Subexpression)
      /\ \A r : AcceptedByNarrowed(stack', r) => AcceptedByNarrowed(below, r)
  BY <1>2, <1>3, <1>4, PushAccepted
<1>6. TypeOK'
  BY <1>2, <1>4, <1>5 DEF IInv, TypeOK
<1>7. WindowSound' /\ WindowTight'
  BY <1>2, <1>3, <1>5 DEF IInv, WindowSound, WindowTight
<1>8. ReadRows' /\ Untouched' /\ FailedOnNull'
  BY <1>1, <1>2 DEF IInv, ReadRows, Untouched, FailedOnNull
<1>9. NullAlone'
  BY <1>2, <1>3, <1>4, PushedOnto
<1> QED
  BY <1>6, <1>7, <1>8, <1>9 DEF IInv

-----------------------------------------------------------------------------
(* The end of the visit changes neither the window nor the stack. *)
LEMMA VisitedStep == IInv /\ Visited => IInv'
BY DEF IInv, TypeOK, Untouched, WindowSound, WindowTight, ReadRows, NullAlone,
   FailedOnNull, Visited

(* build() fails on a whole filter that returned null. *)
LEMMA ReadThrowsStep == IInv /\ ReadThrows => IInv'
BY DEF IInv, TypeOK, Untouched, WindowSound, WindowTight, ReadRows, NullAlone,
   FailedOnNull, ReadThrows

(* The reader returns the rows of the window. *)
LEMMA ReadStep == IInv /\ Read => IInv'
<1> SUFFICES ASSUME IInv, Read
             PROVE  IInv'
  OBVIOUS
<1>1. TypeOK'
  BY DEF IInv, TypeOK, Read
<1>2. /\ WindowSound' /\ WindowTight' /\ Untouched'
      /\ NullAlone' /\ FailedOnNull'
  BY DEF IInv, WindowSound, WindowTight, Untouched, NullAlone, FailedOnNull,
     Read
<1>3. ReadRows'
  BY DEF ReadRows, Read
<1> QED
  BY <1>1, <1>2, <1>3 DEF IInv

(* The residual keeps the rows the whole filter accepts. *)
LEMMA ResidualStep == IInv /\ Residual => IInv'
<1> SUFFICES ASSUME IInv, Residual
             PROVE  IInv'
  OBVIOUS
<1>1. TypeOK'
  BY DEF IInv, TypeOK, Residual
<1>2. /\ WindowSound' /\ WindowTight' /\ Untouched'
      /\ NullAlone' /\ FailedOnNull'
  BY DEF IInv, WindowSound, WindowTight, Untouched, NullAlone, FailedOnNull,
     Residual
<1>3. ReadRows'
  BY DEF IInv, ReadRows, Residual
<1> QED
  BY <1>1, <1>2, <1>3 DEF IInv

(* The visit starts with the unbounded window and no subexpression. *)
LEMMA InitIInv == Init => IInv
<1> SUFFICES ASSUME Init
             PROVE  IInv
  OBVIOUS
<1>1. TypeOK
  <2>1. stack \in Seq(Subexpression)
    BY EmptySeq DEF Init
  <2>2. w \in Window
    BY AllRows DEF Init
  <2> QED
    BY <2>1, <2>2 DEF Init, TypeOK
<1>2. WindowSound /\ WindowTight
  BY AllRows DEF Init, WindowSound, WindowTight, AskedByAll
<1>3. ReadRows /\ Untouched /\ NullAlone /\ FailedOnNull
  BY DEF Init, ReadRows, Untouched, NullAlone, FailedOnNull
<1> QED
  BY <1>1, <1>2, <1>3 DEF IInv

(* A stuttering step changes nothing. *)
LEMMA StutterIInv == IInv /\ UNCHANGED vars => IInv'
BY DEF IInv, TypeOK, Untouched, WindowSound, WindowTight, ReadRows, NullAlone,
   FailedOnNull, vars

(* The inductive invariant: types, and how window and stack relate. *)
THEOREM Invariant == Spec => []IInv
<1>1. IInv /\ [Next]_vars => IInv'
  BY LtStep, LtEqStep, GtStep, GtEqStep, EqTsStep, EqSeriesStep, EqHourStep,
     InSeriesStep, IgnoredStep, NotEqStep, AlwaysTrueStep, AlwaysFalseStep,
     AndStep, OrStep, NotStep, VisitedStep, ReadThrowsStep, ReadStep,
     ResidualStep, StutterIInv
     DEF Next
<1> QED
  BY InitIInv, <1>1, PTL DEF Spec

-----------------------------------------------------------------------------
(* A subexpression that is the whole stack accepts, and asks for, what the *)
(* stack does.                                                             *)
LEMMA WholeFilter ==
    ASSUME IInv, phase # "visit", NEW r
    PROVE  /\ stack[1] \in Subexpression
           /\ r \in stack[1].accepts => AcceptedByNarrowed(stack, r)
           /\ AskedByAll(stack, r) <=> r \in stack[1].asks
<1>1. stack \in Seq(Subexpression) /\ Len(stack) = 1
  BY DEF IInv, TypeOK
<1>2. DOMAIN stack = {1} /\ 1 \in 1 .. Len(stack)
  <2>1. DOMAIN stack = 1 .. Len(stack)
    BY <1>1, LenProperties
  <2> QED
    BY <1>1, <2>1
<1>3. stack[1] \in Subexpression
  BY <1>1, <1>2, ElementOfSeq
<1> QED
  BY <1>2, <1>3 DEF AcceptedByNarrowed, AskedByAll

(* build() throws for a bare notEq at most, and returns all rows of the    *)
(* file the filter accepts and no other, for every filter without a NOT    *)
(* over a narrowed predicate.                                              *)
THEOREM ExactRead == Spec => []ExactUnlessNegated
<1>1. ASSUME IInv, phase = "failed"
      PROVE  leaves = 1 /\ ~stack[1].window
  BY <1>1 DEF IInv, TypeOK, NullAlone, FailedOnNull
<1>2. ASSUME IInv, ~negated, phase = "done"
      PROVE  kept = stack[1].accepts
  <2>1. kept = {r \in Rows : InWindow(r, w)} \cap stack[1].accepts
    BY <1>2 DEF IInv, ReadRows
  <2>2. stack[1].accepts \subseteq Rows
    BY <1>2, WholeFilter DEF Subexpression
  <2>3. \A r \in stack[1].accepts : AcceptedByNarrowed(stack, r)
    BY <1>2, WholeFilter
  <2>4. \A r \in Rows : AcceptedByNarrowed(stack, r) => InWindow(r, w)
    BY <1>2 DEF IInv, WindowSound
  <2> QED
    BY <2>1, <2>2, <2>3, <2>4
<1>3. IInv => ExactUnlessNegated
  BY <1>1, <1>2 DEF ExactUnlessNegated, Exact
<1> QED
  BY <1>3, Invariant, PTL

(* For a conjunction of ts_ns and series_id predicates the reader is asked *)
(* for just the rows that satisfy those predicates whose bound does not    *)
(* wrap.                                                                   *)
THEOREM ConjunctionPushDown == Spec => []ConjunctionNarrows
<1>1. ASSUME IInv, pure, phase \in {"residual", "done"}
      PROVE  rows = stack[1].asks
  <2>1. rows = {r \in Rows : InWindow(r, w)}
    BY <1>1 DEF IInv, ReadRows
  <2>2. stack[1].asks \subseteq Rows
    BY <1>1, WholeFilter DEF Subexpression
  <2>3. \A r : AskedByAll(stack, r) <=> r \in stack[1].asks
    BY <1>1, WholeFilter
  <2>4. \A r \in Rows : InWindow(r, w) <=> AskedByAll(stack, r)
    BY <1>1 DEF IInv, WindowTight
  <2> QED
    BY <2>1, <2>2, <2>3, <2>4
<1>2. IInv => ConjunctionNarrows
  BY <1>1 DEF ConjunctionNarrows
<1> QED
  BY <1>2, Invariant, PTL
=============================================================================
