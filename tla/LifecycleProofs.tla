--------------------------- MODULE LifecycleProofs ---------------------------
(***************************************************************************)
(* Proofs about Lifecycle: what an exit status says, and that the list of  *)
(* failures the cacher prunes holds exactly the failures of the window.    *)
(***************************************************************************)
EXTENDS Lifecycle, FiniteSetTheorems, SequenceTheorems, LeastElement, TLAPS

-----------------------------------------------------------------------------
(***************************************************************************)
(* The inductive invariant.                                                *)
(***************************************************************************)
\* What the place of the main goroutine says of the rest of the process.
PhaseInv ==
    /\ pc \in {"connect", "tokens", "routes", "load", "initial", "loop", "publish"}
         => sub = "none"
    /\ pc = "tokens" => kind # "xds"
    /\ pc \in {"initial", "loop", "publish"} => kind = "cacher"
    /\ pc \notin {"wait", "stop"} => open = {}
    /\ pc = "stop" => cancelled

\* How many failures there may be, and when.
FailureInv ==
    /\ pc \notin {"loop", "publish", "exited"} => failures = <<>> /\ failedAt = <<>>
    /\ pc \in {"loop", "publish"} => Len(failures) < MaxFailures
    /\ pc = "exited" /\ failedAt # <<>> => (status = 1 <=> Len(failures) >= MaxFailures)

\* The failures manageRoutes keeps are the last of all failures: those before
\* them are out of the window that ends with the last one, they are within it.
WindowInv(fs, all, t) ==
    /\ Len(fs) <= Len(all)
    /\ all # <<>> => Len(fs) > 0
    /\ \A i \in 1 .. Len(fs) : fs[i] = all[Len(all) - Len(fs) + i]
    /\ \A i, j \in 1 .. Len(all) : i <= j => all[i] <= all[j]
    /\ \A i \in 1 .. Len(all) : all[i] <= t
    /\ \A i \in 1 .. Len(all) - Len(fs) : all[i] < all[Len(all)] - Window
    /\ \A i \in 1 .. Len(fs) : fs[i] >= all[Len(all)] - Window

IInv ==
    /\ TypeOK
    /\ CleanExit
    /\ PhaseInv
    /\ FailureInv
    /\ WindowInv(failures, failedAt, now)

-----------------------------------------------------------------------------
(***************************************************************************)
(* The window.                                                             *)
(***************************************************************************)
Times == 0 .. MaxTime

\* appendFailure drops the entries before the first one that is within the
\* window, and the new entry always is.
LEMMA Pruned ==
    ASSUME NEW fs \in Seq(Times), NEW t \in Times
    PROVE  \E from \in 1 .. Len(fs) + 1 :
             /\ AppendFailure(fs, t) = SubSeq(Append(fs, t), from, Len(fs) + 1)
             /\ Append(fs, t)[from] >= t - Window
             /\ \A j \in 1 .. from - 1 : Append(fs, t)[j] < t - Window
<1> DEFINE all == Append(fs, t)
           kept == {i \in 1 .. Len(all) : all[i] >= t - Window}
           from == CHOOSE i \in kept : \A j \in kept : i <= j
<1>1. /\ all \in Seq(Times) /\ Len(all) = Len(fs) + 1 /\ Len(fs) \in Nat
      /\ all[Len(all)] = t
      /\ \A i \in 1 .. Len(all) : all[i] \in Times
  OBVIOUS
<1>2. t \in Int /\ Window \in Nat
  BY LifecycleAssumption DEF Times
<1>3. Len(all) \in kept /\ kept \subseteq Nat
  BY <1>1, <1>2
<1>4. \E x \in kept : \A y \in kept : x <= y
  BY <1>3, HasLeast
<1> HIDE DEF kept
<1>5. from \in kept /\ \A j \in kept : from <= j
  BY <1>4
<1>6. AppendFailure(fs, t) = SubSeq(all, from, Len(all))
  BY DEF AppendFailure, kept
<1> HIDE DEF from, all
<1>7. from \in 1 .. Len(all) /\ all[from] >= t - Window
  BY <1>5 DEF kept
<1>8. ASSUME NEW j \in 1 .. from - 1 PROVE all[j] < t - Window
  <2>1. j \in 1 .. Len(all) /\ j < from
    BY <1>1, <1>7
  <2>2. j \notin kept
    BY <1>5, <1>7, <2>1
  <2>3. ~ (all[j] >= t - Window)
    BY <2>1, <2>2 DEF kept
  <2>4. all[j] \in Int
    BY <1>1, <2>1 DEF Times
  <2> QED
    BY <2>3, <2>4, <1>2
<1> QED
  BY <1>1, <1>6, <1>7, <1>8 DEF all

\* An entry is appended.
LEMMA Appended ==
    ASSUME NEW s \in Seq(Times), NEW t \in Times
    PROVE  /\ Append(s, t) \in Seq(Times) /\ Len(s) \in Nat
           /\ Len(Append(s, t)) = Len(s) + 1
           /\ Append(s, t)[Len(s) + 1] = t
           /\ \A i \in 1 .. Len(s) : Append(s, t)[i] = s[i]
           /\ \A i \in 1 .. Len(s) + 1 : Append(s, t)[i] \in Times /\ Append(s, t)[i] \in Int
<1>1. /\ Append(s, t) \in Seq(Times) /\ Len(s) \in Nat
      /\ Len(Append(s, t)) = Len(s) + 1
      /\ Append(s, t)[Len(s) + 1] = t
      /\ \A i \in 1 .. Len(s) : Append(s, t)[i] = s[i]
  OBVIOUS
<1>2. \A i \in 1 .. Len(s) + 1 : Append(s, t)[i] \in Times
  BY <1>1, ElementOfSeq
<1>3. Times \subseteq Int
  BY DEF Times
<1> QED
  BY <1>1, <1>2, <1>3

\* What a pruned list and the list of all failures are after one more failure:
\* the entries dropped now were within the old window and are out of the new.
LEMMA WindowMoves ==
    ASSUME NEW fs \in Seq(Times), NEW all \in Seq(Times), NEW t \in Times,
           WindowInv(fs, all, t)
    PROVE  /\ AppendFailure(fs, t) \in Seq(Times)
           /\ WindowInv(AppendFailure(fs, t), Append(all, t), t)
<1> DEFINE fs1 == Append(fs, t)
           all1 == Append(all, t)
           fs2 == AppendFailure(fs, t)
           m == Len(fs)
           n == Len(all)
<1>1. PICK from \in 1 .. m + 1 :
        /\ fs2 = SubSeq(fs1, from, m + 1)
        /\ fs1[from] >= t - Window
        /\ \A j \in 1 .. from - 1 : fs1[j] < t - Window
  BY Pruned
<1>2. m \in Nat /\ n \in Nat /\ t \in Int /\ Window \in Nat /\ m <= n
  BY LifecycleAssumption DEF Times, WindowInv
<1>3. /\ all1 \in Seq(Times) /\ Len(all1) = n + 1 /\ all1[n + 1] = t
      /\ \A i \in 1 .. n : all1[i] = all[i]
      /\ \A i \in 1 .. n + 1 : all1[i] \in Int
  BY Appended
<1>4. /\ fs1 \in Seq(Times) /\ Len(fs1) = m + 1 /\ fs1[m + 1] = t
      /\ \A i \in 1 .. m : fs1[i] = fs[i]
      /\ \A i \in 1 .. m + 1 : fs1[i] \in Times /\ fs1[i] \in Int
  BY Appended
<1>5. /\ fs2 \in Seq(Times)
      /\ Len(fs2) = m + 2 - from
      /\ \A i \in 1 .. m + 2 - from : fs2[i] = fs1[from + i - 1]
  <2> HIDE DEF fs1, fs2
  <2>1. from \in Int /\ m + 1 \in Int /\ from <= m + 1
    BY <1>2
  <2>2. \A i \in from .. m + 1 : fs1[i] \in Times
    BY <1>2, <1>4
  <2>3. /\ SubSeq(fs1, from, m + 1) \in Seq(Times)
        /\ Len(SubSeq(fs1, from, m + 1)) = (m + 1) - from + 1
        /\ \A i \in 1 .. (m + 1) - from + 1 : SubSeq(fs1, from, m + 1)[i] = fs1[from + i - 1]
    BY <2>1, <2>2, SubSeqProperties
  <2>4. (m + 1) - from + 1 = m + 2 - from
    BY <1>2, <2>1
  <2> QED
    BY <1>1, <2>3, <2>4
<1>6. \A i \in 1 .. m + 1 : fs1[i] = all1[n - m + i]
  <2>1. ASSUME NEW i \in 1 .. m + 1 PROVE fs1[i] = all1[n - m + i]
    <3>1. CASE i = m + 1
      BY <3>1, <1>2, <1>3, <1>4
    <3>2. CASE i \in 1 .. m
      <4>1. fs[i] = all[n - m + i] /\ n - m + i \in 1 .. n
        BY <3>2, <1>2 DEF WindowInv
      <4> QED
        BY <3>2, <4>1, <1>3, <1>4
    <3> QED
      BY <3>1, <3>2, <1>2
  <2> QED
    BY <2>1
<1>7. \A i, j \in 1 .. n + 1 : i <= j => all1[i] <= all1[j]
  <2>1. ASSUME NEW i \in 1 .. n + 1, NEW j \in 1 .. n + 1, i <= j
        PROVE  all1[i] <= all1[j]
    <3>1. CASE j = n + 1
      <4>1. CASE i = n + 1
        BY <3>1, <4>1, <1>2, <1>3
      <4>2. CASE i \in 1 .. n
        BY <3>1, <4>2, <1>3 DEF WindowInv
      <4> QED
        BY <4>1, <4>2, <1>2
    <3>2. CASE j \in 1 .. n
      <4>1. i \in 1 .. n
        BY <2>1, <3>2, <1>2
      <4> QED
        BY <2>1, <3>2, <4>1, <1>3 DEF WindowInv
    <3> QED
      BY <3>1, <3>2, <1>2
  <2> QED
    BY <2>1
<1> HIDE DEF fs1, all1, fs2
<1>8. Len(fs2) <= Len(all1) /\ Len(fs2) > 0
  BY <1>2, <1>3, <1>5
<1>9. \A i \in 1 .. Len(fs2) : fs2[i] = all1[Len(all1) - Len(fs2) + i]
  <2>1. ASSUME NEW i \in 1 .. Len(fs2) PROVE fs2[i] = all1[Len(all1) - Len(fs2) + i]
    <3>1. fs2[i] = fs1[from + i - 1] /\ from + i - 1 \in 1 .. m + 1
      BY <1>2, <1>5
    <3>2. fs2[i] = all1[n - m + (from + i - 1)]
      BY <3>1, <1>6
    <3>3. n - m + (from + i - 1) = Len(all1) - Len(fs2) + i
      BY <1>2, <1>3, <1>5
    <3> QED
      BY <3>2, <3>3
  <2> QED
    BY <2>1
<1>10. \A i \in 1 .. Len(all1) : all1[i] <= t
  BY <1>2, <1>3, <1>7
<1>11. \A i \in 1 .. Len(all1) - Len(fs2) : all1[i] < all1[Len(all1)] - Window
  <2>1. ASSUME NEW i \in 1 .. Len(all1) - Len(fs2) PROVE all1[i] < t - Window
    <3>1. i \in 1 .. n - m + from - 1 /\ i \in 1 .. n
      BY <1>2, <1>3, <1>5
    <3>2. CASE i <= n - m
      <4>1. i \in 1 .. n - m /\ n \in 1 .. n
        BY <3>1, <3>2, <1>2
      <4>2. all[i] < all[n] - Window /\ all[n] <= t
        BY <4>1 DEF WindowInv
      <4>3. all1[i] = all[i] /\ all1[n] = all[n] /\ all1[i] \in Int /\ all1[n] \in Int
        BY <3>1, <4>1, <1>2, <1>3
      <4> QED
        BY <4>2, <4>3, <1>2
    <3>3. CASE i > n - m
      <4>1. i - (n - m) \in 1 .. from - 1 /\ i - (n - m) \in 1 .. m + 1
        BY <3>1, <3>3, <1>2
      <4>2. fs1[i - (n - m)] < t - Window
        BY <4>1, <1>1
      <4>3. fs1[i - (n - m)] = all1[n - m + (i - (n - m))]
        BY <4>1, <1>6
      <4>4. n - m + (i - (n - m)) = i
        BY <1>2
      <4> QED
        BY <4>2, <4>3, <4>4
    <3> QED
      BY <3>2, <3>3, <1>2
  <2> QED
    BY <2>1, <1>3
<1>12. \A i \in 1 .. Len(fs2) : fs2[i] >= all1[Len(all1)] - Window
  <2>1. ASSUME NEW i \in 1 .. Len(fs2) PROVE fs2[i] >= t - Window
    <3>1. /\ from + i - 1 \in 1 .. m + 1 /\ from <= from + i - 1
          /\ fs2[i] = fs1[from + i - 1]
      <4>1. i \in 1 .. m + 2 - from
        BY <1>5
      <4>2. fs2[i] = fs1[from + i - 1]
        BY <4>1, <1>5
      <4>3. from + i - 1 \in 1 .. m + 1 /\ from <= from + i - 1
        BY <4>1, <1>2
      <4> QED
        BY <4>2, <4>3
    <3>2. fs1[from] = all1[n - m + from] /\ fs2[i] = all1[n - m + (from + i - 1)]
      BY <3>1, <1>6
    <3>3. /\ n - m + from \in 1 .. n + 1
          /\ n - m + (from + i - 1) \in 1 .. n + 1
          /\ n - m + from <= n - m + (from + i - 1)
      <4>1. from \in Int /\ i \in Int /\ m \in Int /\ n \in Int
        BY <1>2, <1>5
      <4> QED
        BY <3>1, <4>1, <1>2
    <3>4. all1[n - m + from] <= all1[n - m + (from + i - 1)]
      BY <3>3, <1>7
    <3>5. fs1[from] \in Int /\ fs2[i] \in Int
      BY <3>1, <1>4
    <3>6. fs1[from] <= fs2[i]
      BY <3>2, <3>4
    <3> QED
      BY <3>5, <3>6, <1>1, <1>2
  <2> QED
    BY <2>1, <1>3
<1>13. WindowInv(fs2, all1, t)
  BY <1>7, <1>8, <1>9, <1>10, <1>11, <1>12, <1>3 DEF WindowInv
<1> QED
  BY <1>5, <1>13 DEF fs2, all1

\* The failures within the window are as many as the list is long.
LEMMA RecentIsCounted ==
    ASSUME TypeOK, WindowInv(failures, failedAt, now), failedAt # <<>>
    PROVE  Cardinality(Recent) = Len(failures)
<1> DEFINE m == Len(failures)
           n == Len(failedAt)
<1>1. /\ m \in Nat /\ n \in Nat /\ m <= n /\ m > 0 /\ Window \in Nat
      /\ \A i \in 1 .. n : failedAt[i] \in Int
  BY LifecycleAssumption DEF TypeOK, WindowInv
<1>2. ASSUME NEW i \in 1 .. n
      PROVE  failedAt[i] >= failedAt[n] - Window <=> i \in n - m + 1 .. n
  <2>1. failedAt[i] \in Int /\ failedAt[n] \in Int
    BY <1>1
  <2>2. CASE i <= n - m
    <3>1. failedAt[i] < failedAt[n] - Window
      BY <2>2, <1>1 DEF WindowInv
    <3> QED
      BY <3>1, <2>1, <2>2, <1>1
  <2>3. CASE i > n - m
    <3>1. i - (n - m) \in 1 .. m /\ n - m + (i - (n - m)) = i
      BY <2>3, <1>1
    <3>2. failures[i - (n - m)] = failedAt[i]
      BY <3>1 DEF WindowInv
    <3>3. failures[i - (n - m)] >= failedAt[n] - Window
      BY <3>1 DEF WindowInv
    <3> QED
      BY <3>2, <3>3, <2>1, <2>3, <1>1
  <2> QED
    BY <2>2, <2>3, <1>1
<1>3. Recent = n - m + 1 .. n
  BY <1>1, <1>2 DEF Recent
<1>4. n - m + 1 \in Int /\ n \in Int /\ ~ (n - m + 1 > n) /\ n - (n - m + 1) + 1 = m
  BY <1>1
<1>5. Cardinality(n - m + 1 .. n) = m
  BY <1>4, FS_Interval
<1> QED
  BY <1>3, <1>5

-----------------------------------------------------------------------------
(***************************************************************************)
(* The order of the stages, as NextStage finds it in Stages.               *)
(***************************************************************************)
LEMMA StageOrder ==
    ASSUME NEW s, NextStage(s),
           kind \in Kinds,
           s \in {"connect", "tokens", "routes", "load"},
           s = "tokens" => kind # "xds"
    PROVE  /\ s = "connect" => pc' = IF kind = "xds" THEN "routes" ELSE "tokens"
           /\ s = "tokens" => pc' = "routes"
           /\ s = "routes" => pc' = "load"
           /\ s = "load" => pc' = Work(kind)
<1> DEFINE st == Stages(kind)
           i == CHOOSE j \in 1 .. Len(st) : st[j] = s
<1>1. pc' = IF i = Len(st) THEN Work(kind) ELSE st[i + 1]
  BY DEF NextStage
<1>2. CASE kind = "xds"
  <2>1. /\ Len(st) = 3 /\ st[1] = "connect" /\ st[2] = "routes" /\ st[3] = "load"
    BY <1>2 DEF Stages
  <2> HIDE DEF st
  <2>2. s \in {st[1], st[2], st[3]}
    BY <1>2, <2>1
  <2>3. i \in 1 .. 3 /\ st[i] = s
    BY <2>1, <2>2
  <2>4. i \in {1, 2, 3}
    BY <2>3
  <2> HIDE DEF i
  <2> QED
    BY <1>1, <1>2, <2>1, <2>3, <2>4
<1>3. CASE kind # "xds"
  <2>1. /\ Len(st) = 4 /\ st[1] = "connect" /\ st[2] = "tokens"
        /\ st[3] = "routes" /\ st[4] = "load"
    BY <1>3 DEF Stages
  <2> HIDE DEF st
  <2>2. s \in {st[1], st[2], st[3], st[4]}
    BY <2>1
  <2>3. i \in 1 .. 4 /\ st[i] = s
    BY <2>1, <2>2
  <2>4. i \in {1, 2, 3, 4}
    BY <2>3
  <2> HIDE DEF i
  <2> QED
    BY <1>1, <1>3, <2>1, <2>3, <2>4
<1> QED
  BY <1>2, <1>3

-----------------------------------------------------------------------------
(***************************************************************************)
(* The invariant holds at the start and is kept by every action.           *)
(***************************************************************************)
LEMMA InitHolds == Init => IInv
<1> SUFFICES ASSUME Init PROVE IInv
  OBVIOUS
<1>1. failures \in Seq(0 .. MaxTime) /\ Len(failures) = 0 /\ failedAt = failures
  BY EmptySeq DEF Init
<1>2. TypeOK
  <2>1. status \in {-1, 0, 1} /\ (status = -1 <=> pc # "exited") /\ now \in 0 .. MaxTime
    BY LifecycleAssumption DEF Init
  <2> QED
    BY <1>1, <2>1 DEF Init, TypeOK, Kinds
<1>3. CleanExit
  <2>1. status # 0
    BY DEF Init
  <2> QED
    BY <2>1 DEF CleanExit
<1>4. PhaseInv
  BY DEF Init, PhaseInv
<1>5. FailureInv
  BY DEF Init, FailureInv
<1>6. WindowInv(failures, failedAt, now)
  BY <1>1 DEF Init, WindowInv
<1> QED
  BY <1>2, <1>3, <1>4, <1>5, <1>6 DEF IInv

\* An exit with status s leaves the invariant: nothing but what the status
\* says is asked of a process that is gone.
LEMMA ExitKeeps ==
    ASSUME IInv, NEW s \in {0, 1}, Exit(s), UNCHANGED cacheVars,
           s = 0 => cancelled /\ open = {},
           failedAt # <<>> => s = 0 /\ Len(failures) < MaxFailures
    PROVE  IInv'
<1>1. TypeOK'
  BY DEF IInv, TypeOK, Exit, cacheVars
<1>2. CleanExit'
  BY DEF CleanExit, Exit
<1>3. PhaseInv'
  BY DEF PhaseInv, Exit
<1>4. Len(failures) \in Nat /\ MaxFailures \in Nat
  BY LifecycleAssumption DEF IInv, TypeOK
<1>5. FailureInv'
  BY <1>4 DEF FailureInv, Exit, cacheVars
<1>6. WindowInv(failures, failedAt, now)'
  BY DEF IInv, WindowInv, cacheVars
<1> QED
  BY <1>1, <1>2, <1>3, <1>5, <1>6 DEF IInv

\* A step of another kind that leaves the failures alone.
LEMMA StepKeeps ==
    ASSUME IInv, TypeOK', PhaseInv', UNCHANGED <<status, cut>>, UNCHANGED cacheVars,
           cancelled => cancelled',
           pc' # "exited",
           pc' \in {"loop", "publish"} => Len(failures) < MaxFailures,
           pc' \notin {"loop", "publish"} => failures = <<>> /\ failedAt = <<>>
    PROVE  IInv'
<1>1. CleanExit'
  BY DEF IInv, CleanExit
<1>2. FailureInv'
  BY DEF FailureInv, cacheVars
<1>3. WindowInv(failures, failedAt, now)'
  BY DEF IInv, WindowInv, cacheVars
<1> QED
  BY <1>1, <1>2, <1>3 DEF IInv

\* One more failed refresh: pruned, counted, and the last if it is one too many.
LEMMA PublishFailedKeeps ==
    ASSUME IInv, pc = "publish", PublishFailed, UNCHANGED now
    PROVE  IInv'
<1>1. /\ failures \in Seq(Times) /\ failedAt \in Seq(Times) /\ now \in Times
      /\ WindowInv(failures, failedAt, now)
  BY DEF IInv, TypeOK, Times
<1>2. /\ failures' = AppendFailure(failures, now)
      /\ failedAt' = Append(failedAt, now)
  BY DEF PublishFailed
<1>3. failures' \in Seq(Times) /\ WindowInv(failures', failedAt', now')
  BY <1>1, <1>2, WindowMoves
<1>4. failedAt' \in Seq(Times) /\ failedAt' # <<>>
  BY <1>1, <1>2, AppendProperties
<1>5. Len(failures') \in Nat /\ MaxFailures \in Nat
  BY <1>3, LifecycleAssumption
<1>6. open = {} /\ sub = "none" /\ kind = "cacher" /\ status = -1
  BY DEF IInv, TypeOK, PhaseInv
<1>7. CASE Len(failures') >= MaxFailures
  <2>1. Exit(1)
    BY <1>7 DEF PublishFailed
  <2>2. TypeOK'
    BY <1>3, <1>4, <2>1 DEF IInv, TypeOK, Exit, Times
  <2>3. CleanExit' /\ PhaseInv'
    BY <2>1 DEF CleanExit, PhaseInv, Exit
  <2>4. FailureInv'
    BY <1>7, <2>1 DEF FailureInv, Exit
  <2> QED
    BY <1>3, <2>2, <2>3, <2>4 DEF IInv
<1>8. CASE ~ (Len(failures') >= MaxFailures)
  <2>1. pc' = "loop" /\ UNCHANGED <<kind, status, cancelled, sub, serve, open, cut>>
    BY <1>8 DEF PublishFailed
  <2>2. TypeOK'
    BY <1>3, <1>4, <2>1 DEF IInv, TypeOK, Times
  <2>3. CleanExit'
    BY <2>1 DEF IInv, CleanExit
  <2>4. PhaseInv'
    BY <1>6, <2>1 DEF PhaseInv
  <2>5. FailureInv'
    BY <1>5, <1>8, <2>1 DEF FailureInv
  <2> QED
    BY <1>3, <2>2, <2>3, <2>4, <2>5 DEF IInv
<1> QED
  BY <1>7, <1>8

\* Every action of the main goroutine.
LEMMA MainKeeps ==
    ASSUME IInv, Main
    PROVE  IInv'
<1> USE DEF Kinds
<1>1. CASE Connect
  <2>1. pc = "connect" /\ UNCHANGED cacheVars /\ failures = <<>> /\ failedAt = <<>>
    BY <1>1 DEF Connect, IInv, FailureInv
  <2>2. CASE NextStage("connect") /\ UNCHANGED sub
    <3>1. pc' = IF kind = "xds" THEN "routes" ELSE "tokens"
      BY <2>2, StageOrder DEF IInv, TypeOK
    <3>2. TypeOK' /\ PhaseInv'
      BY <2>1, <2>2, <3>1 DEF IInv, TypeOK, PhaseInv, NextStage, cacheVars
    <3> QED
      BY <2>1, <2>2, <3>1, <3>2, StepKeeps DEF NextStage
  <2>3. CASE Exit(1)
    BY <2>1, <2>3, ExitKeeps
  <2> QED
    BY <1>1, <2>2, <2>3 DEF Connect
<1>2. CASE InitializeTokens
  <2>1. pc = "tokens" /\ UNCHANGED cacheVars /\ failures = <<>> /\ failedAt = <<>>
    BY <1>2 DEF InitializeTokens, IInv, FailureInv
  <2>2. CASE NextStage("tokens") /\ UNCHANGED sub
    <3>1. pc' = "routes"
      BY <2>1, <2>2, StageOrder DEF IInv, TypeOK, PhaseInv
    <3>2. TypeOK' /\ PhaseInv'
      BY <2>1, <2>2, <3>1 DEF IInv, TypeOK, PhaseInv, NextStage, cacheVars
    <3> QED
      BY <2>1, <2>2, <3>1, <3>2, StepKeeps DEF NextStage
  <2>3. CASE Exit(1)
    BY <2>1, <2>3, ExitKeeps
  <2> QED
    BY <1>2, <2>2, <2>3 DEF InitializeTokens
<1>3. CASE InitializeRoutes
  <2>1. pc = "routes" /\ UNCHANGED cacheVars /\ failures = <<>> /\ failedAt = <<>>
    BY <1>3 DEF InitializeRoutes, IInv, FailureInv
  <2>2. CASE NextStage("routes") /\ UNCHANGED sub
    <3>1. pc' = "load"
      BY <2>1, <2>2, StageOrder DEF IInv, TypeOK
    <3>2. TypeOK' /\ PhaseInv'
      BY <2>1, <2>2, <3>1 DEF IInv, TypeOK, PhaseInv, NextStage, cacheVars
    <3> QED
      BY <2>1, <2>2, <3>1, <3>2, StepKeeps DEF NextStage
  <2>3. CASE Exit(1)
    BY <2>1, <2>3, ExitKeeps
  <2> QED
    BY <1>3, <2>2, <2>3 DEF InitializeRoutes
<1>4. CASE Load
  <2>1. pc = "load" /\ UNCHANGED cacheVars /\ failures = <<>> /\ failedAt = <<>>
    BY <1>4 DEF Load, IInv, FailureInv
  <2>2. CASE NextStage("load") /\ sub' = (IF kind = "cacher" THEN sub ELSE "start")
    <3>1. pc' = IF kind = "cacher" THEN "initial" ELSE "listen"
      BY <2>1, <2>2, StageOrder DEF IInv, TypeOK, Work
    <3>2. TypeOK' /\ PhaseInv'
      BY <2>1, <2>2, <3>1 DEF IInv, TypeOK, PhaseInv, NextStage, cacheVars
    <3> QED
      BY <2>1, <2>2, <3>1, <3>2, StepKeeps DEF NextStage
  <2>3. CASE Exit(1)
    BY <2>1, <2>3, ExitKeeps
  <2> QED
    BY <1>4, <2>2, <2>3 DEF Load
<1>5. CASE ListenGRPC \/ ListenHTTP
  <2>1. pc = "listen" /\ UNCHANGED cacheVars /\ failures = <<>> /\ failedAt = <<>>
    BY <1>5 DEF ListenGRPC, ListenHTTP, IInv, FailureInv
  <2>2. CASE /\ pc' = "wait" /\ serve' = "on"
             /\ UNCHANGED <<kind, status, cancelled, sub, open, cut>>
    <3>1. TypeOK' /\ PhaseInv'
      BY <2>1, <2>2 DEF IInv, TypeOK, PhaseInv, cacheVars
    <3> QED
      BY <2>1, <2>2, <3>1, StepKeeps
  <2>3. CASE Exit(1)
    BY <2>1, <2>3, ExitKeeps
  <2> QED
    BY <1>5, <2>2, <2>3 DEF ListenGRPC, ListenHTTP
<1>6. CASE WaitForShutdown
  <2>1. pc = "wait" /\ UNCHANGED cacheVars /\ failures = <<>> /\ failedAt = <<>>
    BY <1>6 DEF WaitForShutdown, IInv, FailureInv
  <2>2. CASE /\ cancelled /\ pc' = "stop" /\ serve' = "off"
             /\ UNCHANGED <<kind, status, cancelled, sub, open, cut>>
    <3>1. TypeOK' /\ PhaseInv'
      BY <2>1, <2>2 DEF IInv, TypeOK, PhaseInv, cacheVars
    <3> QED
      BY <2>1, <2>2, <3>1, StepKeeps
  <2>3. CASE Exit(1)
    BY <2>1, <2>3, ExitKeeps
  <2> QED
    BY <1>6, <2>2, <2>3 DEF WaitForShutdown
<1>7. CASE GracefulStop \/ Shutdown
  <2>1. /\ pc = "stop" /\ UNCHANGED cacheVars /\ failures = <<>> /\ failedAt = <<>>
        /\ cancelled
    BY <1>7 DEF GracefulStop, Shutdown, IInv, FailureInv, PhaseInv
  <2>2. CASE open = {} /\ Exit(0)
    BY <2>1, <2>2, ExitKeeps
  <2>3. CASE Exit(1)
    BY <2>1, <2>3, ExitKeeps
  <2> QED
    BY <1>7, <2>2, <2>3 DEF GracefulStop, Shutdown
<1>8. CASE InitialPublish
  <2>1. /\ pc = "initial" /\ UNCHANGED cacheVars /\ failures = <<>> /\ failedAt = <<>>
    BY <1>8 DEF InitialPublish, IInv, FailureInv
  <2>2. CASE pc' = "loop" /\ UNCHANGED <<kind, status, cancelled, sub, serve, open, cut>>
    <3>1. TypeOK' /\ PhaseInv'
      BY <2>1, <2>2 DEF IInv, TypeOK, PhaseInv, cacheVars
    <3>2. Len(failures) < MaxFailures
      BY <2>1, EmptySeq, LifecycleAssumption
    <3> QED
      BY <2>1, <2>2, <3>1, <3>2, StepKeeps
  <2>3. CASE Exit(1)
    BY <2>1, <2>3, ExitKeeps
  <2> QED
    BY <1>8, <2>2, <2>3 DEF InitialPublish
<1>9. CASE RefreshTick
  <2>1. TypeOK' /\ PhaseInv'
    BY <1>9 DEF RefreshTick, IInv, TypeOK, PhaseInv, cacheVars
  <2>2. Len(failures) < MaxFailures
    BY <1>9 DEF RefreshTick, IInv, FailureInv
  <2> QED
    BY <1>9, <2>1, <2>2, StepKeeps DEF RefreshTick
<1>10. CASE StopCacher
  <2>1. open = {} /\ Len(failures) < MaxFailures
    BY <1>10 DEF StopCacher, IInv, FailureInv, PhaseInv
  <2> QED
    BY <1>10, <2>1, ExitKeeps DEF StopCacher
<1>11. CASE Refresh
  <2>1. pc = "publish" /\ UNCHANGED now /\ Len(failures) < MaxFailures
    BY <1>11 DEF Refresh, IInv, FailureInv
  <2>2. CASE /\ pc' = "loop"
             /\ UNCHANGED <<kind, status, cancelled, sub, serve, open, cut,
                            failures, failedAt>>
    <3>1. TypeOK' /\ PhaseInv'
      BY <2>1, <2>2 DEF IInv, TypeOK, PhaseInv
    <3> QED
      BY <2>1, <2>2, <3>1, StepKeeps DEF cacheVars
  <2>3. CASE PublishFailed
    BY <2>1, <2>3, PublishFailedKeeps
  <2> QED
    BY <1>11, <2>2, <2>3 DEF Refresh
<1> QED
  BY <1>1, <1>2, <1>3, <1>4, <1>5, <1>6, <1>7, <1>8, <1>9, <1>10, <1>11 DEF Main

\* Every step of the process.
LEMMA NextKeeps ==
    ASSUME IInv, [Next]_vars
    PROVE  IInv'
<1> USE DEF Kinds
<1>1. CASE Main
  BY <1>1, MainKeeps
<1>2. CASE Subscribe
  <2>1. /\ sub # "none" /\ pc # "exited" /\ UNCHANGED cacheVars
        /\ pc \notin {"loop", "publish"}
        /\ failures = <<>> /\ failedAt = <<>>
    BY <1>2 DEF Subscribe, IInv, PhaseInv, FailureInv
  <2>2. CASE /\ sub' \in {"on", "off"}
             /\ UNCHANGED <<kind, pc, status, cancelled, serve, open, cut>>
    <3>1. TypeOK' /\ PhaseInv'
      BY <2>1, <2>2 DEF IInv, TypeOK, PhaseInv, cacheVars
    <3> QED
      BY <2>1, <2>2, <3>1, StepKeeps
  <2>3. CASE Exit(1)
    BY <2>1, <2>3, ExitKeeps
  <2> QED
    BY <1>2, <2>2, <2>3 DEF Subscribe
<1>3. CASE ServeError
  <2>1. TypeOK' /\ PhaseInv'
    BY <1>3 DEF ServeError, IInv, TypeOK, PhaseInv, cacheVars
  <2>2. pc = "wait" /\ failures = <<>> /\ failedAt = <<>>
    BY <1>3 DEF ServeError, IInv, FailureInv
  <2> QED
    BY <1>3, <2>1, <2>2, StepKeeps DEF ServeError
<1>4. CASE Signal
  <2>1. TypeOK' /\ PhaseInv'
    BY <1>4 DEF Signal, IInv, TypeOK, PhaseInv, cacheVars
  <2>2. /\ pc \in {"loop", "publish"} => Len(failures) < MaxFailures
        /\ pc \notin {"loop", "publish"} => failures = <<>> /\ failedAt = <<>>
    BY <1>4 DEF Signal, IInv, FailureInv
  <2> QED
    BY <1>4, <2>1, <2>2, StepKeeps DEF Signal
<1>5. CASE Tick
  <2>1. now \in Int /\ now + 1 \in 0 .. MaxTime
    BY <1>5, LifecycleAssumption DEF Tick, IInv, TypeOK
  <2>2. TypeOK'
    BY <1>5, <2>1 DEF Tick, IInv, TypeOK
  <2>3. \A i \in 1 .. Len(failedAt) : failedAt[i] \in Int
    <3>1. failedAt \in Seq(0 .. MaxTime)
      BY DEF IInv, TypeOK
    <3>2. \A i \in 1 .. Len(failedAt) : failedAt[i] \in 0 .. MaxTime
      BY <3>1, ElementOfSeq
    <3> QED
      BY <3>2
  <2>4. WindowInv(failures, failedAt, now + 1)
    BY <2>1, <2>3 DEF IInv, WindowInv
  <2>5. WindowInv(failures, failedAt, now)'
    BY <1>5, <2>4 DEF Tick, WindowInv
  <2>6. CleanExit' /\ PhaseInv'
    BY <1>5 DEF Tick, IInv, CleanExit, PhaseInv
  <2>7. FailureInv'
    BY <1>5 DEF Tick, IInv, FailureInv
  <2> QED
    BY <2>2, <2>5, <2>6, <2>7 DEF IInv
<1>6. CASE \/ \E q \in Requests : Answer(q) \/ StreamEnd(q) \/ Disconnect(q)
           \/ \E q \in Watches : WatchEnd(q)
           \/ \E q \in Requests \cup Watches : Accept(q)
  <2>1. PICK q \in Requests \cup Watches :
          Accept(q) \/ Answer(q) \/ StreamEnd(q) \/ Disconnect(q) \/ WatchEnd(q)
    BY <1>6
  <2>2. /\ UNCHANGED <<kind, pc, status, cancelled, sub, serve, cut, cacheVars>>
        /\ open' = open \cup {q} \/ open' = open \ {q}
        /\ pc \in {"wait", "stop"}
    BY <2>1 DEF Accept, Answer, StreamEnd, Disconnect, WatchEnd, IInv, PhaseInv
  <2>3. TypeOK' /\ PhaseInv'
    BY <2>2 DEF IInv, TypeOK, PhaseInv, cacheVars
  <2>4. failures = <<>> /\ failedAt = <<>>
    BY <2>2 DEF IInv, FailureInv
  <2> QED
    BY <2>2, <2>3, <2>4, StepKeeps DEF cacheVars
<1>7. CASE UNCHANGED vars
  BY <1>7 DEF vars, cacheVars, IInv, TypeOK, CleanExit, PhaseInv, FailureInv, WindowInv
<1> QED
  BY <1>1, <1>2, <1>3, <1>4, <1>5, <1>6, <1>7 DEF Next

-----------------------------------------------------------------------------
(***************************************************************************)
(* The theorems.                                                           *)
(***************************************************************************)
\* The inductive invariant holds throughout: one process, of any of the four
\* commands, with any number of requests and any limits.
THEOREM Invariance == Spec => []IInv
  BY InitHolds, NextKeeps, PTL DEF Spec

\* Every variable keeps its type, and no process goes on after its subscriber
\* has failed (manageRegistryRefresh).
THEOREM TypeCorrect == Spec => []TypeOK
<1>1. IInv => TypeOK
  BY DEF IInv
<1> QED
  BY <1>1, Invariance, PTL

\* Exit status 0 means that the process was told to stop and has cut off no
\* request (waitForShutdown, GracefulStop, Shutdown, manageRoutes).
THEOREM SuccessIsClean == Spec => []CleanExit
<1>1. IInv => CleanExit
  BY DEF IInv
<1> QED
  BY <1>1, Invariance, PTL

\* The cacher ends with status 1 exactly when MaxFailures refreshes have
\* failed within the window that ends with the last (appendFailure and
\* manageRoutes), although it only ever keeps a pruned list of them.
THEOREM FailuresAreCounted == Spec => []GivesUp
<1>1. IInv => GivesUp
  <2> SUFFICES ASSUME IInv, failedAt # <<>>
               PROVE  Cardinality(Recent) >= MaxFailures <=> status = 1
    BY DEF GivesUp
  <2>1. Cardinality(Recent) = Len(failures)
    BY RecentIsCounted DEF IInv
  <2>2. Len(failures) \in Nat /\ MaxFailures \in Nat
    BY LifecycleAssumption DEF IInv, TypeOK
  <2>3. CASE pc = "exited"
    BY <2>1, <2>3 DEF IInv, FailureInv
  <2>4. CASE pc # "exited"
    <3>1. Len(failures) < MaxFailures /\ status # 1
      BY <2>4 DEF IInv, FailureInv, TypeOK
    <3> QED
      BY <2>1, <2>2, <3>1
  <2> QED
    BY <2>3, <2>4
<1> QED
  BY <1>1, Invariance, PTL
=============================================================================
