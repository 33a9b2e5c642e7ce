----------------------------- MODULE SignalHour -----------------------------
(***************************************************************************)
(* What a /signal file promises to the table that points at it: an hour of *)
(* rows is replaced as a whole, and a scan returns exactly the rows of the *)
(* hour that lie in the window it asked for.  While a replacement has not  *)
(* completed, or after it failed, a scan may fail; it never returns other  *)
(* rows.                                                                   *)
(***************************************************************************)
CONSTANTS
    Contents,            \* the sets of rows an hour can be replaced by
    Windows,             \* the windows a scan can ask for
    Matches(_, _),       \* Matches(r, win): the row lies in the window
    Failed,              \* the answer of a scan that ended with an error
    None                 \* no scan, no answer yet

VARIABLES
    hour,                \* the rows last accepted for the hour
    settled,             \* whether they are all in place
    asked,               \* the window of the current scan
    answer               \* what it returned

Init == hour = {} /\ settled = FALSE /\ asked = None /\ answer = None

Accept ==
    /\ settled' = FALSE
    /\ hour' \in Contents
    /\ UNCHANGED <<asked, answer>>

Settle ==
    /\ ~settled
    /\ settled' = TRUE
    /\ UNCHANGED <<hour, asked, answer>>

Ask ==
    /\ asked = None
    /\ asked' \in Windows
    /\ UNCHANGED <<hour, settled, answer>>

Reply ==
    /\ asked # None /\ answer = None
    /\ \/ answer' = {r \in hour : Matches(r, asked)}
       \/ ~settled /\ answer' = Failed
    /\ UNCHANGED <<hour, settled, asked>>

Taken ==
    /\ answer # None
    /\ asked' = None /\ answer' = None
    /\ UNCHANGED <<hour, settled>>

Next == Accept \/ Settle \/ Ask \/ Reply \/ Taken

Spec == Init /\ [][Next]_<<hour, settled, asked, answer>>
=============================================================================
