-------------------------- MODULE ReadBuilder_proofs --------------------------
(***************************************************************************)
(* What happens to the files of a scan, for every source, every number of  *)
(* splits and of tries, and every interleaving of the builds: the caller's *)
(* file is never deleted, and an orderly exit leaves no copy a build read.  *)
(***************************************************************************)
EXTENDS ReadBuilder, Lemmas

(* cleanup goes by the location alone.  It spares the caller's file since  *)
(* at a url, the one place where it deletes, the path of a build is a copy.*)
PathsApart ==
    /\ pc \in [Splits -> Steps] /\ DOMAIN tmp = Splits
    /\ \A b \in Splits :
          place # "path" /\ pc[b] \in Copying \cup {"read", "cleanup"}
             => tmp[b] # SourcePath
    /\ \A b \in Splits : pc[b] \in Copying => place # "path"

(* Every copy on the disk is on its way, was given up, or is registered    *)
(* with the JVM.                                                           *)
CopiesKnown == disk \subseteq {SourcePath} \cup hooked \cup unreturned

IInv ==
    /\ PathsApart /\ CopiesKnown
    /\ CallersFileKept /\ SourcePath \notin hooked
    /\ ExitLeavesOnlyUnreturned

-----------------------------------------------------------------------------
(* A copy is never called like the caller's file. *)
LEMMA CopyNotSource == \A b : Copy(b) # SourcePath
<1> SUFFICES ASSUME NEW b PROVE Copy(b) # SourcePath
    OBVIOUS
<1>1. Len(Copy(b)) = 3 /\ Len(SourcePath) = 1
    BY DEF Copy, SourcePath
<1> QED
    BY <1>1

(* Before a scan is planned there is no copy and no build. *)
LEMMA InitInvariant == Init => IInv
BY DEF Init, IInv, PathsApart, CopiesKnown, CallersFileKept,
       ExitLeavesOnlyUnreturned, Splits

(* A step of one build that only moves on: into the further steps of a     *)
(* copy, a read or a cleanup only from a step that has a path already, and *)
(* into a copy from a copy.                                                *)
LEMMA MovesOn ==
    ASSUME IInv, NEW b \in Splits, NEW step \in Steps,
           step \in {"read", "cleanup"} => pc[b] \in Copying \cup {"read"},
           step \in Copying => pc[b] \in Copying,
           Goto(b, step), UNCHANGED <<tmp, disk, hooked, unreturned, plan, place, jvm>>
    PROVE  IInv'
BY DEF IInv, PathsApart, CopiesKnown, CallersFileKept, ExitLeavesOnlyUnreturned,
       Goto, Splits, Steps, Copying, SourcePath

(* The end of a build: "done" or "failed". *)
LEMMA LeavesBuild ==
    ASSUME NEW b
    PROVE  \E step \in {"done", "failed"} : Leave(b) => Goto(b, step)
BY DEF Leave

-----------------------------------------------------------------------------
(* One lemma for each step that touches a path or the disk. *)

LEMMA PlanStep == IInv /\ Plan => IInv'
BY DEF Plan, IInv, PathsApart, CopiesKnown, CallersFileKept,
       ExitLeavesOnlyUnreturned, Splits, Steps, Copying, SourcePath, copies, written

(* A local file is read where it lies; no copy is made of it. *)
LEMMA UseFileStep ==
    ASSUME IInv, NEW b \in Splits, UseFile(b)
    PROVE  IInv'
BY DEF UseFile, IInv, PathsApart, CopiesKnown, CallersFileKept,
       ExitLeavesOnlyUnreturned, Goto, Splits, Steps, Copying, SourcePath, copies,
       written, scan

(* The path of a new copy is not the caller's. *)
LEMMA CreateCopyStep ==
    ASSUME IInv, NEW b \in Splits, CreateCopy(b), jvm = "up"
    PROVE  IInv'
<1> USE DEF written, scan
<1>1. PathsApart'
    <2>1. tmp' = [tmp EXCEPT ![b] = Copy(b)] /\ Copy(b) # SourcePath
        BY CopyNotSource DEF CreateCopy
    <2> QED
        BY <2>1 DEF CreateCopy, IInv, PathsApart, Goto, Splits, Steps, Copying, Owned, SourcePath
<1>2. CopiesKnown'
    BY DEF CreateCopy, IInv, CopiesKnown, SourcePath
<1>3. (CallersFileKept /\ SourcePath \notin hooked)'
    BY DEF CreateCopy, IInv, CallersFileKept, SourcePath
<1>4. ExitLeavesOnlyUnreturned'
    BY DEF CreateCopy, ExitLeavesOnlyUnreturned
<1> QED
    BY <1>1, <1>2, <1>3, <1>4 DEF IInv

(* A copy leaves the unreturned ones for the registered ones, so that none *)
(* is lost sight of.                                                       *)
LEMMA RegisterStep ==
    ASSUME IInv, NEW b \in Splits, Register(b), jvm = "up"
    PROVE  IInv'
<1> USE DEF written, scan
<1>1. tmp[b] # SourcePath
    BY DEF Register, IInv, PathsApart, Copying
<1>2. PathsApart'
    BY DEF Register, IInv, PathsApart, Goto, Splits, Steps, Copying, SourcePath
<1>3. CopiesKnown'
    BY DEF Register, IInv, CopiesKnown, SourcePath
<1>4. (CallersFileKept /\ SourcePath \notin hooked)'
    BY <1>1 DEF Register, IInv, CallersFileKept, SourcePath
<1>5. ExitLeavesOnlyUnreturned'
    BY DEF Register, ExitLeavesOnlyUnreturned
<1> QED
    BY <1>2, <1>3, <1>4, <1>5 DEF IInv

(* What is deleted was read at a url, and so is a copy. *)
LEMMA CleanupStep ==
    ASSUME IInv, NEW b \in Splits, Cleanup(b), jvm = "up"
    PROVE  IInv'
<1> USE DEF written, scan
<1>1. PICK step \in {"done", "failed"} : Goto(b, step)
    BY LeavesBuild DEF Cleanup
<1>2. PathsApart'
    BY <1>1 DEF Cleanup, IInv, PathsApart, Goto, Splits, Steps, Copying, SourcePath
<1>3. CopiesKnown'
    BY DEF Cleanup, IInv, CopiesKnown, SourcePath
<1>4. (CallersFileKept /\ SourcePath \notin hooked)'
    <2>1. CASE LocalLooking
        BY <2>1 DEF Cleanup, IInv, CallersFileKept, SourcePath
    <2>2. CASE ~LocalLooking
        <3>1. tmp[b] # SourcePath
            BY <2>2 DEF Cleanup, IInv, PathsApart, LocalLooking
        <3> QED
            BY <3>1 DEF Cleanup, IInv, CallersFileKept, SourcePath
    <2> QED
        BY <2>1, <2>2
<1>5. ExitLeavesOnlyUnreturned'
    BY DEF Cleanup, ExitLeavesOnlyUnreturned
<1> QED
    BY <1>2, <1>3, <1>4, <1>5 DEF IInv

(* A deletion that fails leaves a copy that Register has registered. *)
LEMMA CleanupFailsStep ==
    ASSUME IInv, NEW b \in Splits, CleanupFails(b)
    PROVE  IInv'
<1>1. PICK step \in {"done", "failed"} : Goto(b, step)
    BY LeavesBuild DEF CleanupFails
<1> QED
    BY <1>1, MovesOn DEF CleanupFails, Steps, Copying, written, scan

(* The exit deletes what is registered: what is left was not returned. *)
LEMMA ExitStep == IInv /\ Exit => IInv'
BY DEF Exit, IInv, PathsApart, CopiesKnown, CallersFileKept,
       ExitLeavesOnlyUnreturned, Splits, SourcePath, written, scan, local

-----------------------------------------------------------------------------
(* A step of any build, in any interleaving with the others. *)
LEMMA BuildStep ==
    ASSUME IInv, NEW b \in Splits, Step(b), jvm = "up"
    PROVE  IInv'
<1> USE DEF written, scan, copies
<1>1. CASE Configure(b)
    BY <1>1, MovesOn DEF Configure, Steps, Copying
<1>2. CASE NoSchema(b)
    BY <1>2, MovesOn DEF NoSchema, Steps, Copying
<1>3. CASE NotMine(b)
    BY <1>3, MovesOn DEF NotMine, Steps, Copying
<1>4. CASE UseFile(b)
    BY <1>4, UseFileStep
<1>5. CASE CreateCopy(b)
    BY <1>5, CreateCopyStep
<1>6. CASE CreateFails(b)
    BY <1>6, MovesOn DEF CreateFails, Steps, Copying
<1>12. CASE CopyFails(b)
    BY <1>12, MovesOn DEF CopyFails, Steps, Copying
<1>13. CASE Copied(b)
    BY <1>13, MovesOn DEF Copied, Steps, Copying
<1>14. CASE CloseFails(b)
    BY <1>14, MovesOn DEF CloseFails, Steps, Copying
<1>15. CASE Close(b)
    BY <1>15, MovesOn DEF Close, Steps, Copying
<1>7. CASE Register(b)
    BY <1>7, RegisterStep
<1>8. CASE Read(b)
    BY <1>8, MovesOn DEF Read, Steps, Copying
<1>9. CASE ReadFails(b)
    BY <1>9, MovesOn DEF ReadFails, Steps, Copying
<1>10. CASE Cleanup(b)
    BY <1>10, CleanupStep
<1>11. CASE CleanupFails(b)
    BY <1>11, CleanupFailsStep
<1> QED
    BY <1>1, <1>2, <1>3, <1>4, <1>5, <1>6, <1>7, <1>8, <1>9, <1>10, <1>11,
       <1>12, <1>13, <1>14, <1>15 DEF Step

(* Every step of the scan keeps the invariant. *)
LEMMA NextInvariant == IInv /\ [Next]_vars => IInv'
<1> SUFFICES ASSUME IInv, [Next]_vars PROVE IInv'
    OBVIOUS
<1>1. CASE Write
    BY <1>1 DEF Write, IInv, PathsApart, CopiesKnown, CallersFileKept,
           ExitLeavesOnlyUnreturned, Splits, scan, local, copies
<1>2. CASE Plan
    BY <1>2, PlanStep
<1>3. CASE Exit
    BY <1>3, ExitStep
<1>4. CASE Kill
    BY <1>4 DEF Kill, IInv, PathsApart, CopiesKnown, CallersFileKept,
           ExitLeavesOnlyUnreturned, Splits, written, scan, local, copies
<1>5. ASSUME jvm = "up", NEW b \in Splits, Step(b) PROVE IInv'
    BY <1>5, BuildStep
<1>6. ASSUME NEW b \in Splits, Retry(b) PROVE IInv'
    BY <1>6, MovesOn DEF Retry, Steps, Copying, written, scan, copies
<1>7. CASE UNCHANGED vars
    BY <1>7 DEF vars, IInv, PathsApart, CopiesKnown, CallersFileKept,
           ExitLeavesOnlyUnreturned, Splits, written, scan, local, copies
<1> QED
    BY <1>1, <1>2, <1>3, <1>4, <1>5, <1>6, <1>7 DEF Next

-----------------------------------------------------------------------------
(* Neither a cleanup nor the end of the JVM deletes the file that is read, *)
(* wherever it is and whatever fails: "the caller's file, not our temp     *)
(* copy".                                                                  *)
THEOREM CallersFileSafe == Spec => []CallersFileKept
<1>1. IInv => CallersFileKept
    BY DEF IInv
<1> QED
    BY <1>1, InitInvariant, NextInvariant, PTL DEF Spec

(* When the JVM exits, deleteOnExit takes every copy that a build got to   *)
(* read; only those are left whose materialize did not return.             *)
THEOREM ExitCleans == Spec => []ExitLeavesOnlyUnreturned
<1>1. IInv => ExitLeavesOnlyUnreturned
    BY DEF IInv
<1> QED
    BY <1>1, InitInvariant, NextInvariant, PTL DEF Spec

-----------------------------------------------------------------------------
(* Every build has its own copies: each was made by one try of one split,  *)
(* a try before it has made a copy has none, and a build that copies or    *)
(* reads has the path it reads.  So no build deletes the copy of another.  *)
CopiesOwned ==
    \A copy \in hooked \cup unreturned : \E b \in Splits, n \in 1 .. MaxTries :
        /\ copy = <<"copy", b, n>> /\ n <= tries[b]
        /\ pc[b] \in {"new", "build"} => n < tries[b]

BuildOwns(b) ==
    /\ pc[b] \in Copying => place # "path" /\ Copy(b) \in unreturned
    /\ pc[b] \in Copying \cup {"read", "cleanup"} =>
          tmp[b] = IF place = "path" THEN SourcePath ELSE Copy(b)
    /\ jvm = "up" /\ pc[b] \in Copying \cup {"read"} => tmp[b] \in disk
    /\ pc[b] = "done" => out[b] # NULL

Typed ==
    /\ pc \in [Splits -> Steps] /\ tries \in [Splits -> 1 .. MaxTries]
    /\ DOMAIN tmp = Splits /\ DOMAIN out = Splits

OInv ==
    /\ Typed /\ CopiesOwned
    /\ \A b \in Splits : BuildOwns(b)
    /\ hooked \cap unreturned = {}

(* Copies of two builds, or of two tries, differ. *)
LEMMA CopiesDiffer ==
    \A b, c, n, m : <<"copy", b, n>> = <<"copy", c, m>> => b = c /\ n = m
OBVIOUS

LEMMA InitOwned == Init => OInv
BY DEF Init, OInv, Typed, CopiesOwned, BuildOwns, Copying, Splits

LEMMA PlanOwned ==
    ASSUME OInv, Plan
    PROVE  OInv'
<1> USE DEF copies, written
<1>1. hooked \cup unreturned = {}
    BY DEF OInv, CopiesOwned, Plan, Splits
<1>2. Typed'
    BY ReadBuilderAssumption DEF Plan, Typed, Splits, Steps, Copying
<1>3. \A b \in Splits' : BuildOwns(b)'
    BY DEF Plan, BuildOwns, Copying, Splits
<1>4. CopiesOwned' /\ (hooked \cap unreturned = {})'
    BY <1>1 DEF Plan, CopiesOwned
<1> QED
    BY <1>2, <1>3, <1>4 DEF OInv

(* A step that makes no copy and takes none away. *)
LEMMA OwnedOn ==
    ASSUME OInv, NEW b \in Splits, NEW step \in Steps \ {"new", "copy", "read"},
           step = "build" <=> pc[b] = "new", step = "cleanup" => pc[b] = "read",
           step \in Copying => pc[b] \in Copying,
           Goto(b, step), UNCHANGED <<tries, tmp, disk, hooked, unreturned, plan, place, jvm>>,
           UNCHANGED out \/ \E rows : out' = [out EXCEPT ![b] = rows],
           step = "done" => out'[b] # NULL
    PROVE  OInv'
<1> USE DEF OInv
<1>1. Typed'
    BY DEF Typed, Goto, Splits, Steps, Copying
<1>2. CopiesOwned'
    BY DEF Typed, CopiesOwned, Goto, Splits, Steps, Copying
<1>3. \A c \in Splits' : BuildOwns(c)'
    <2> SUFFICES ASSUME NEW c \in Splits PROVE BuildOwns(c)'
        BY DEF Splits
    <2>1. Copy(c)' = Copy(c)
        BY DEF Copy
    <2>2. CASE c = b
        BY <2>1, <2>2 DEF BuildOwns, Copying, Goto, Typed, Steps
    <2>3. CASE c # b
        BY <2>1, <2>3 DEF BuildOwns, Copying, Goto, Typed
    <2> QED
        BY <2>2, <2>3
<1> QED
    BY <1>1, <1>2, <1>3

LEMMA UseFileOwned ==
    ASSUME OInv, SourcePath \in disk, NEW b \in Splits, UseFile(b)
    PROVE  OInv'
<1> USE DEF OInv, UseFile, copies, written, scan
<1>1. Typed' /\ CopiesOwned' /\ (hooked \cap unreturned = {})'
    BY DEF Typed, CopiesOwned, Goto, Splits, Steps, Copying
<1>2. ASSUME NEW c \in Splits PROVE BuildOwns(c)'
    BY DEF BuildOwns, Copying, Goto, Typed, Copy, Splits
<1> QED
    BY <1>1, <1>2 DEF Splits

(* The name of a new copy is that of no copy before. *)
LEMMA CreateCopyOwned ==
    ASSUME OInv, NEW b \in Splits, CreateCopy(b)
    PROVE  OInv'
<1> USE DEF OInv, written, scan
<1>1. tries[b] \in 1 .. MaxTries /\ ~(tries[b] < tries[b])
    BY ReadBuilderAssumption DEF Typed
<1>2. Copy(b) \notin hooked
    <2> SUFFICES ASSUME Copy(b) \in hooked PROVE FALSE
        OBVIOUS
    <2>1. PICK c \in Splits, n \in 1 .. MaxTries :
              /\ Copy(b) = <<"copy", c, n>> /\ n <= tries[c]
              /\ pc[c] \in {"new", "build"} => n < tries[c]
        BY DEF CopiesOwned
    <2>2. c = b /\ n = tries[b]
        BY <2>1, CopiesDiffer DEF Copy
    <2> QED
        BY <1>1, <2>1, <2>2 DEF CreateCopy, Owned
<1>3. Typed'
    BY DEF CreateCopy, Typed, Goto, Splits, Steps, Copying
<1>4. (hooked \cap unreturned = {})'
    BY <1>2 DEF CreateCopy
<1>5. CopiesOwned'
    <2> SUFFICES ASSUME NEW copy \in (hooked \cup unreturned)'
                 PROVE  \E c \in Splits, n \in 1 .. MaxTries :
                            /\ copy = <<"copy", c, n>> /\ n <= tries[c]
                            /\ pc'[c] \in {"new", "build"} => n < tries[c]
        BY DEF CopiesOwned, CreateCopy, Splits
    <2>1. CASE copy = Copy(b)
        BY <1>1, <2>1 DEF CreateCopy, Goto, Typed, Copy
    <2>2. CASE copy \in hooked \cup unreturned
        BY <2>2 DEF CopiesOwned, CreateCopy, Goto, Typed
    <2> QED
        BY <2>1, <2>2 DEF CreateCopy
<1>6. ASSUME NEW c \in Splits PROVE BuildOwns(c)'
    <2>1. Copy(c)' = Copy(c)
        BY DEF Copy, CreateCopy
    <2> QED
        BY <2>1 DEF BuildOwns, Copying, CreateCopy, Goto, Typed, Owned
<1> QED
    BY <1>3, <1>4, <1>5, <1>6 DEF CreateCopy, Splits

LEMMA RegisterOwned ==
    ASSUME OInv, NEW b \in Splits, Register(b)
    PROVE  OInv'
<1> USE DEF OInv, written, scan
<1>1. tmp[b] = Copy(b) /\ Copy(b) \in unreturned
    BY DEF BuildOwns, Copying, Register
<1>2. Typed'
    BY DEF Register, Typed, Goto, Splits, Steps, Copying
<1>3. (hooked \cap unreturned = {})'
    BY DEF Register
<1>4. (hooked \cup unreturned)' = hooked \cup unreturned
    BY <1>1 DEF Register
<1>5. CopiesOwned'
    BY <1>4 DEF CopiesOwned, Register, Goto, Typed, Splits
<1>6. ASSUME NEW c \in Splits PROVE BuildOwns(c)'
    <2>1. Copy(c)' = Copy(c)
        BY DEF Copy, Register
    <2>2. c # b => Copy(c) # Copy(b)
        BY CopiesDiffer DEF Copy
    <2> QED
        BY <1>1, <2>1, <2>2 DEF BuildOwns, Copying, Register, Goto, Typed
<1> QED
    BY <1>2, <1>3, <1>5, <1>6 DEF Register, Splits

(* A cleanup deletes the build's own copy, which no other build reads. *)
LEMMA CleanupOwned ==
    ASSUME OInv, NEW b \in Splits, Cleanup(b)
    PROVE  OInv'
<1> USE DEF OInv, written, scan
<1>1. Typed'
    BY DEF Cleanup, Leave, Typed, Goto, Splits, Steps, Copying
<1>2. CopiesOwned' /\ (hooked \cap unreturned = {})'
    BY DEF CopiesOwned, Cleanup, Leave, Goto, Typed, Splits
<1>3. ASSUME NEW c \in Splits PROVE BuildOwns(c)'
    <2>1. Copy(c)' = Copy(c)
        BY DEF Copy, Cleanup
    <2>2. CASE c = b
        BY <2>1, <2>2 DEF BuildOwns, Copying, Cleanup, Leave, Goto, Typed
    <2>3. CASE c # b
        <3>1. pc'[c] = pc[c]
            BY <2>3 DEF Cleanup, Leave, Goto, Typed
        <3>2. Copy(c) # Copy(b)
            BY <2>3, CopiesDiffer DEF Copy
        <3>3. place # "path" => tmp[b] = Copy(b)
            BY DEF BuildOwns, Copying, Cleanup
        <3>4. place = "path" => disk' = disk
            BY DEF Cleanup, LocalLooking
        <3> QED
            BY <2>1, <3>1, <3>2, <3>3, <3>4 DEF BuildOwns, Copying, Cleanup
    <2> QED
        BY <2>2, <2>3
<1> QED
    BY <1>1, <1>2, <1>3 DEF Cleanup, Splits

(* The next try of a split makes a copy of another name. *)
LEMMA RetryOwned ==
    ASSUME OInv, NEW b \in Splits, Retry(b)
    PROVE  OInv'
<1> USE DEF OInv, Retry, written, scan, copies
<1>1. tries[b] \in 1 .. MaxTries /\ MaxTries \in Nat
    BY ReadBuilderAssumption DEF Typed
<1>2. Typed'
    BY <1>1 DEF Typed, Goto, Splits, Steps, Copying
<1>3. CopiesOwned'
    <2> SUFFICES ASSUME NEW copy \in hooked \cup unreturned
                 PROVE  \E c \in Splits, n \in 1 .. MaxTries :
                            /\ copy = <<"copy", c, n>> /\ n <= tries'[c]
                            /\ pc'[c] \in {"new", "build"} => n < tries'[c]
        BY DEF CopiesOwned, Splits
    <2>1. PICK c \in Splits, n \in 1 .. MaxTries :
              /\ copy = <<"copy", c, n>> /\ n <= tries[c]
              /\ pc[c] \in {"new", "build"} => n < tries[c]
        BY DEF CopiesOwned
    <2>2. n <= tries'[c] /\ (pc'[c] \in {"new", "build"} => n < tries'[c])
        BY <1>1, <2>1 DEF Goto, Typed
    <2> QED
        BY <2>1, <2>2
<1>4. ASSUME NEW c \in Splits PROVE BuildOwns(c)'
    <2>1. c # b => Copy(c)' = Copy(c)
        BY DEF Copy, Typed
    <2> QED
        BY <2>1 DEF BuildOwns, Copying, Goto, Typed
<1> QED
    BY <1>2, <1>3, <1>4 DEF Splits

LEMMA StepOwned ==
    ASSUME IInv, OInv, NEW b \in Splits, Step(b), jvm = "up"
    PROVE  OInv'
<1> USE DEF written, scan, copies, Steps, Copying
<1>1. CASE Configure(b)
    BY <1>1, OwnedOn DEF Configure
<1>2. CASE NoSchema(b)
    BY <1>2, OwnedOn DEF NoSchema
<1>3. CASE NotMine(b)
    <2>1. <<>> \in Seq(Int)
        OBVIOUS
    <2>2. out'[b] # NULL
        BY <1>3, <2>1, NullAssumption DEF NotMine, OInv, Typed
    <2> QED
        BY <1>3, <2>2, OwnedOn DEF NotMine
<1>4. CASE UseFile(b)
    BY <1>4, UseFileOwned DEF IInv, CallersFileKept
<1>5. CASE CreateCopy(b)
    BY <1>5, CreateCopyOwned
<1>6. CASE CreateFails(b)
    BY <1>6, OwnedOn DEF CreateFails, Owned
<1>12. CASE CopyFails(b)
    BY <1>12, OwnedOn DEF CopyFails
<1>13. CASE Copied(b)
    BY <1>13, OwnedOn DEF Copied
<1>14. CASE CloseFails(b)
    BY <1>14, OwnedOn DEF CloseFails
<1>15. CASE Close(b)
    BY <1>15, OwnedOn DEF Close
<1>7. CASE Register(b)
    BY <1>7, RegisterOwned
<1>8. CASE Read(b)
    BY <1>8, OwnedOn DEF Read
<1>9. CASE ReadFails(b)
    BY <1>9, OwnedOn DEF ReadFails
<1>10. CASE Cleanup(b)
    BY <1>10, CleanupOwned
<1>11. CASE CleanupFails(b)
    BY <1>11, OwnedOn DEF CleanupFails, Leave
<1> QED
    BY <1>1, <1>2, <1>3, <1>4, <1>5, <1>6, <1>7, <1>8, <1>9, <1>10, <1>11,
       <1>12, <1>13, <1>14, <1>15 DEF Step

LEMMA NextOwned == IInv /\ OInv /\ [Next]_vars => OInv'
<1> SUFFICES ASSUME IInv, OInv, [Next]_vars PROVE OInv'
    OBVIOUS
<1> USE DEF written, scan, local, copies
<1>1. CASE Write
    BY <1>1 DEF Write, OInv, Typed, CopiesOwned, BuildOwns, Copying, Copy, Splits
<1>2. CASE Plan
    BY <1>2, PlanOwned
<1>3. CASE Exit
    BY <1>3 DEF Exit, OInv, Typed, CopiesOwned, BuildOwns, Copying, Copy, Splits
<1>4. CASE Kill
    BY <1>4 DEF Kill, OInv, Typed, CopiesOwned, BuildOwns, Copying, Copy, Splits
<1>5. ASSUME jvm = "up", NEW b \in Splits, Step(b) PROVE OInv'
    BY <1>5, StepOwned
<1>6. ASSUME NEW b \in Splits, Retry(b) PROVE OInv'
    BY <1>6, RetryOwned
<1>7. CASE UNCHANGED vars
    BY <1>7 DEF vars, OInv, Typed, CopiesOwned, BuildOwns, Copying, Copy, Splits
<1> QED
    BY <1>1, <1>2, <1>3, <1>4, <1>5, <1>6, <1>7 DEF Next

(* A build that copies or reads has the path it reads on the disk, however *)
(* the other builds and tries of the scan come and go; one that is done    *)
(* has rows; no copy is registered before it is whole.                     *)
THEOREM TypeCorrect == Spec => []TypeOK
<1>1. OInv => TypeOK
    BY DEF OInv, Typed, BuildOwns, Copying, TypeOK
<1> QED
    BY <1>1, InitInvariant, NextInvariant, InitOwned, NextOwned, PTL DEF Spec
=============================================================================
