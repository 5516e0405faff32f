---------------------------- MODULE RouteSyncProofs ----------------------------
(***************************************************************************)
(* Proofs about RouteSync for every number of processes, publishers and    *)
(* route lists, and every bound on the environment.                        *)
(***************************************************************************)
EXTENDS RouteSync, TLAPS

\* What is left of the bounds.
BudgetInv == budget \in [changes : Nat, hooks : Nat, faults : Nat,
                         restarts : Nat, losses : Nat]

\* The retained message is the last one published since the server started.
StreamInv == last # None => last.seq = seq /\ seq > 0

\* A call that is past the fetch has sources to publish.
PublisherInv ==
    \A p \in Publishers :
        pubPc[p] \in {"last", "publish"} => pubVal[p] # None

\* What a process follows: messages wait in the order of their sequence
\* numbers, none older than what is applied, and while the durable consumer
\* lives none is ahead of the stream.  Once the server has lost the consumer,
\* nothing more arrives until the process restarts.
InboxInv(p) ==
    /\ \A i, j \in 1 .. Len(inbox[p]) :
          i <= j => inbox[p][i].seq <= inbox[p][j].seq
    /\ \A i \in 1 .. Len(inbox[p]) : applied[p] <= inbox[p][i].seq
    /\ handled[p] => inbox[p] # <<>> /\ Head(inbox[p]).seq = applied[p]
    /\ durable[p] =>
          /\ applied[p] <= seq
          /\ \A i \in 1 .. Len(inbox[p]) : inbox[p][i].seq <= seq

AckInv(p) == floor[p] > base[p] => applied[p] >= floor[p]

IInv ==
    /\ TypeOK /\ BudgetInv /\ StreamInv /\ PublisherInv
    /\ \A p \in Procs : InboxInv(p) /\ AckInv(p)

-----------------------------------------------------------------------------
\* What the inbox operations do.
LEMMA AppendFacts ==
  ASSUME NEW s \in Seq(Msg), NEW m \in Msg
  PROVE  /\ Append(s, m) \in Seq(Msg)
         /\ Len(s) \in Nat /\ Len(Append(s, m)) = Len(s) + 1
         /\ \A i \in 1 .. Len(s) : Append(s, m)[i] = s[i]
         /\ Append(s, m)[Len(s) + 1] = m
         /\ Append(s, m) # <<>>
         /\ s # <<>> => Head(Append(s, m)) = Head(s)
<1>1. /\ Append(s, m) \in Seq(Msg)
      /\ Len(s) \in Nat /\ Len(Append(s, m)) = Len(s) + 1
      /\ \A i \in 1 .. Len(s) : Append(s, m)[i] = s[i]
      /\ Append(s, m)[Len(s) + 1] = m
  OBVIOUS
<1>2. Append(s, m) # <<>>
  BY <1>1
<1>3. s # <<>> => Head(Append(s, m)) = Head(s)
  <2> SUFFICES ASSUME s # <<>> PROVE Head(Append(s, m)) = Head(s)
    OBVIOUS
  <2>1. 1 \in 1 .. Len(s) /\ Head(s) = s[1]
    OBVIOUS
  <2>2. Head(Append(s, m)) = Append(s, m)[1]
    BY <1>1, <1>2
  <2> QED
    BY <1>1, <2>1, <2>2
<1> QED
  BY <1>1, <1>2, <1>3

LEMMA TailFacts ==
  ASSUME NEW s \in Seq(Msg), s # <<>>
  PROVE  /\ Tail(s) \in Seq(Msg) /\ Head(s) \in Msg /\ Head(s) = s[1]
         /\ Len(s) \in Nat \ {0} /\ Len(Tail(s)) = Len(s) - 1
         /\ \A i \in 1 .. Len(Tail(s)) : Tail(s)[i] = s[i + 1]
  OBVIOUS

LEMMA InboxTypes ==
  ASSUME TypeOK, NEW p \in Procs
  PROVE  /\ inbox[p] \in Seq(Msg) /\ Len(inbox[p]) \in Nat
         /\ \A i \in 1 .. Len(inbox[p]) :
               inbox[p][i] \in Msg /\ inbox[p][i].seq \in Nat
         /\ applied[p] \in Nat /\ seq \in Nat
         /\ floor[p] \in Nat /\ base[p] \in Nat
<1>1. inbox[p] \in Seq(Msg)
  BY DEF TypeOK
<1>2. \A i \in 1 .. Len(inbox[p]) : inbox[p][i] \in Msg
  BY <1>1
<1>3. \A m \in Msg : m.seq \in Nat
  BY DEF Msg
<1> QED
  BY <1>1, <1>2, <1>3 DEF TypeOK

\* Spending a bound lowers that bound and no other.
LEMMA SpendFacts ==
  ASSUME BudgetInv,
         NEW w \in {"changes", "hooks", "faults", "restarts", "losses"},
         Spend(w)
  PROVE  /\ BudgetInv'
         /\ w = "restarts" => budget'.restarts < budget.restarts
  BY DEF BudgetInv, Spend

\* A process that does not move keeps its invariants while the stream does.
LEMMA ProcFrame ==
  ASSUME TypeOK, TypeOK', NEW p \in Procs, InboxInv(p), AckInv(p),
         UNCHANGED <<inbox[p], handled[p], applied[p], base[p], floor[p]>>,
         durable'[p] => durable[p] /\ seq <= seq'
  PROVE  InboxInv(p)' /\ AckInv(p)'
<1>1. AckInv(p)'
  BY DEF AckInv
<1>2. durable'[p] => /\ applied[p] <= seq'
                     /\ \A i \in 1 .. Len(inbox[p]) : inbox[p][i].seq <= seq'
  BY InboxTypes DEF InboxInv, TypeOK
<1> QED
  BY <1>1, <1>2 DEF InboxInv

-----------------------------------------------------------------------------
LEMMA InitIInv == Init => IInv
<1> SUFFICES ASSUME Init PROVE IInv
  OBVIOUS
<1> USE RouteSyncAssumption DEF Init
<1>1. reg \in Sources
  OBVIOUS
<1>2. TypeOK
  <2>1. 0 \in 0 .. MaxRetry - 1
    OBVIOUS
  <2>2. inbox \in [Procs -> Seq(Msg)]
    OBVIOUS
  <2> QED
    BY <1>1, <2>1, <2>2 DEF TypeOK
<1>3. BudgetInv
  BY DEF BudgetInv
<1>4. StreamInv /\ PublisherInv
  BY DEF StreamInv, PublisherInv
<1>5. ASSUME NEW p \in Procs PROVE InboxInv(p) /\ AckInv(p)
  <2>1. /\ inbox[p] = <<>> /\ ~handled[p] /\ applied[p] = 0 /\ seq = 0
        /\ floor[p] = 0 /\ base[p] = 0
    OBVIOUS
  <2>2. Len(inbox[p]) = 0
    BY <2>1
  <2> QED
    BY <2>1, <2>2 DEF InboxInv, AckInv
<1> QED
  BY <1>2, <1>3, <1>4, <1>5 DEF IInv

-----------------------------------------------------------------------------
\* Publishing does not touch the processes: it keeps the invariant when it
\* keeps the parts about the stream.
LEMMA PublisherFrame ==
  ASSUME IInv, TypeOK', BudgetInv', StreamInv', PublisherInv',
         UNCHANGED <<consVars, procVars>>, seq <= seq'
  PROVE  IInv'
<1>1. ASSUME NEW p \in Procs PROVE InboxInv(p)' /\ AckInv(p)'
  BY ProcFrame DEF IInv, consVars, procVars
<1> QED
  BY <1>1 DEF IInv

\* A call moves without a message being stored.
LEMMA QuietPublisher ==
  ASSUME IInv, TypeOK', BudgetInv', PublisherInv',
         UNCHANGED <<last, seq, consVars, procVars>>
  PROVE  IInv'
<1>1. StreamInv' /\ seq <= seq'
  BY DEF IInv, StreamInv, TypeOK
<1> QED
  BY <1>1, PublisherFrame

LEMMA PubEndFacts ==
  ASSUME IInv, NEW p \in Publishers, NEW l \in {"idle", "failed"}, PubEnd(p, l)
  PROVE  /\ pubPc' \in [Publishers ->
                          {"idle", "fetch", "last", "publish", "failed"}]
         /\ pubVal' \in [Publishers -> Lists \cup {None}]
         /\ pubTry' \in [Publishers -> 0 .. MaxRetry - 1]
         /\ expired' \in [Publishers -> BOOLEAN]
         /\ PublisherInv'
  BY RouteSyncAssumption
     DEF IInv, TypeOK, PublisherInv, PubEnd, PubGoto

LEMMA StartKeeps ==
  ASSUME IInv, CacherTick \/ \E a \in Admins : RoutesWebhook(a)
  PROVE  IInv'
<1>1. PICK p \in Publishers :
        /\ PubKeep(p, "fetch")
        /\ UNCHANGED <<regVars, natsVars, consVars, procVars>>
        /\ UNCHANGED budget \/ Spend("hooks")
  BY DEF CacherTick, RoutesWebhook, Publishers
<1>2. TypeOK'
  BY <1>1 DEF IInv, TypeOK, PubKeep, PubGoto, regVars, natsVars, consVars,
              procVars
<1>3. BudgetInv'
  BY <1>1, SpendFacts DEF IInv, BudgetInv
<1>4. PublisherInv'
  BY <1>1 DEF IInv, TypeOK, PublisherInv, PubKeep, PubGoto
<1> QED
  BY <1>1, <1>2, <1>3, <1>4, QuietPublisher DEF natsVars

LEMMA FetchKeeps ==
  ASSUME IInv, NEW p \in Publishers, FetchOK(p) \/ FetchRetry(p) \/ FetchFail(p)
  PROVE  IInv'
<1>1. CASE FetchOK(p)
  <2>1. PICK list \in {reg} \cup ({pubVal[p]} \ {None}) :
          pubVal' = [pubVal EXCEPT ![p] = list]
    BY <1>1 DEF FetchOK
  <2>2. list \in Lists /\ list # None
    BY RouteSyncAssumption DEF IInv, TypeOK, Lists
  <2>3. TypeOK'
    BY <1>1, <2>1, <2>2 DEF FetchOK, PubGoto, IInv, TypeOK, regVars, natsVars,
                            consVars, procVars
  <2>4. PublisherInv' /\ BudgetInv'
    BY <1>1, <2>1, <2>2 DEF FetchOK, PubGoto, IInv, TypeOK, PublisherInv,
                            BudgetInv
  <2> QED
    BY <1>1, <2>3, <2>4, QuietPublisher DEF FetchOK, natsVars
<1>2. CASE FetchRetry(p)
  <2>1. pubTry' \in [Publishers -> 0 .. MaxRetry - 1]
    BY <1>2, RouteSyncAssumption DEF FetchRetry, IInv, TypeOK
  <2>2. pubVal' \in [Publishers -> Lists \cup {None}]
    BY <1>2 DEF FetchRetry, IInv, TypeOK, Lists
  <2>3. expired' \in [Publishers -> BOOLEAN]
    BY <1>2 DEF FetchRetry, IInv, TypeOK
  <2>4. TypeOK'
    BY <1>2, <2>1, <2>2, <2>3 DEF FetchRetry, IInv, TypeOK, regVars, natsVars,
                                  consVars, procVars
  <2>5. BudgetInv'
    BY <1>2, SpendFacts DEF FetchRetry, IInv
  <2>6. PublisherInv'
    BY <1>2, RouteSyncAssumption
       DEF FetchRetry, IInv, TypeOK, PublisherInv, Lists
  <2> QED
    BY <1>2, <2>4, <2>5, <2>6, QuietPublisher DEF FetchRetry, natsVars
<1>3. CASE FetchFail(p)
  <2>1. TypeOK' /\ PublisherInv'
    BY <1>3, PubEndFacts DEF FetchFail, IInv, TypeOK, regVars, natsVars,
                             consVars, procVars
  <2>2. BudgetInv'
    BY <1>3, SpendFacts DEF FetchFail, IInv
  <2> QED
    BY <1>3, <2>1, <2>2, QuietPublisher DEF FetchFail, natsVars
<1> QED
  BY <1>1, <1>2, <1>3

LEMMA CompareLastKeeps ==
  ASSUME IInv, NEW p \in Publishers, CompareLast(p)
  PROVE  IInv'
<1>1. BudgetInv'
  BY SpendFacts DEF CompareLast, IInv, BudgetInv
<1>2. TypeOK' /\ PublisherInv'
  <2>1. CASE PubEnd(p, "idle")
    BY <2>1, PubEndFacts DEF CompareLast, IInv, TypeOK, regVars, natsVars,
                             consVars, procVars
  <2>2. CASE PubKeep(p, "publish")
    <3>1. pubVal[p] # None
      BY DEF CompareLast, IInv, PublisherInv
    <3> QED
      BY <2>2, <3>1 DEF CompareLast, PubKeep, PubGoto, IInv, TypeOK,
         PublisherInv, regVars, natsVars, consVars, procVars
  <2> QED
    BY <2>1, <2>2 DEF CompareLast
<1> QED
  BY <1>1, <1>2, QuietPublisher DEF CompareLast, natsVars

\* The message stored is the next one and carries a list.
LEMMA PublishKeeps ==
  ASSUME IInv, NEW p \in Publishers, Publish(p)
  PROVE  IInv'
<1>1. pubVal[p] \in Lists /\ seq \in Nat
  BY DEF Publish, IInv, TypeOK, PublisherInv
<1>2. /\ last' \in Msg \cup {None} /\ seq' \in Nat /\ exists' \in BOOLEAN
      /\ seq <= seq' /\ StreamInv'
  <2>1. CASE StoreMsg(p)
    <3>1. [seq |-> seq + 1, val |-> pubVal[p]] \in Msg
      BY <1>1 DEF Msg
    <3> QED
      BY <1>1, <2>1, <3>1 DEF StoreMsg, StreamInv, IInv, TypeOK
  <2>2. CASE UNCHANGED natsVars
    BY <1>1, <2>2 DEF natsVars, StreamInv, IInv, TypeOK
  <2> QED
    BY <2>1, <2>2 DEF Publish
<1>3. BudgetInv'
  BY SpendFacts DEF Publish, IInv, BudgetInv
<1>4. TypeOK' /\ PublisherInv'
  BY <1>2, PubEndFacts DEF Publish, IInv, TypeOK, regVars, consVars, procVars
<1> QED
  BY <1>2, <1>3, <1>4, PublisherFrame DEF Publish

LEMMA PublishErrorKeeps ==
  ASSUME IInv, NEW p \in Publishers, PublishError(p)
  PROVE  IInv'
<1>1. exists' \in BOOLEAN /\ UNCHANGED <<last, seq>>
  BY DEF PublishError, EnsureStream, natsVars, IInv, TypeOK
<1>2. TypeOK' /\ PublisherInv'
  BY <1>1, PubEndFacts DEF PublishError, IInv, TypeOK, regVars, consVars,
                           procVars
<1>3. BudgetInv'
  BY DEF PublishError, IInv, BudgetInv
<1> QED
  BY <1>1, <1>2, <1>3, QuietPublisher DEF PublishError

-----------------------------------------------------------------------------
\* A step of the consumer of p keeps the invariant when it keeps the parts
\* about p and leaves stream and publishers alone.
LEMMA ConsumerFrame ==
  ASSUME IInv, NEW p \in Procs, TypeOK', BudgetInv', InboxInv(p)', AckInv(p)',
         UNCHANGED <<last, seq, pubVars>>,
         \A q \in Procs \ {p} :
            UNCHANGED <<inbox[q], handled[q], applied[q], base[q], floor[q],
                        durable[q]>>
  PROVE  IInv'
<1>1. StreamInv' /\ PublisherInv'
  BY DEF IInv, StreamInv, PublisherInv, pubVars
<1>2. ASSUME NEW q \in Procs PROVE InboxInv(q)' /\ AckInv(q)'
  <2>1. CASE q = p
    BY <2>1
  <2>2. CASE q # p
    BY <2>2, ProcFrame, InboxTypes DEF IInv
  <2> QED
    BY <2>1, <2>2
<1> QED
  BY <1>1, <1>2 DEF IInv

\* What is delivered is the newest message of the stream.
LEMMA DeliverKeeps ==
  ASSUME IInv, NEW p \in Procs, Deliver(p)
  PROVE  IInv'
<1>1. /\ last \in Msg /\ last.seq = seq /\ durable[p]
      /\ inbox' = [inbox EXCEPT ![p] = Append(inbox[p], last)]
      /\ sent' = [sent EXCEPT ![p] = last.seq]
  BY DEF Deliver, Deliverable, IInv, TypeOK, StreamInv
<1>2. inbox[p] \in Seq(Msg) /\ seq \in Nat /\ applied[p] \in Nat
  BY InboxTypes DEF IInv
<1> DEFINE s == Append(inbox[p], last)
<1>3. /\ s \in Seq(Msg)
      /\ Len(inbox[p]) \in Nat /\ Len(s) = Len(inbox[p]) + 1
      /\ \A i \in 1 .. Len(inbox[p]) : s[i] = inbox[p][i]
      /\ s[Len(inbox[p]) + 1] = last
      /\ s # <<>> /\ (inbox[p] # <<>> => Head(s) = Head(inbox[p]))
  BY <1>1, <1>2, AppendFacts
<1> HIDE DEF s
<1>4. inbox'[p] = s /\ inbox' \in [Procs -> Seq(Msg)]
  BY <1>1, <1>3 DEF IInv, TypeOK, s
<1>5. TypeOK' /\ BudgetInv'
  BY <1>1, <1>2, <1>4 DEF Deliver, IInv, TypeOK, BudgetInv, regVars, natsVars,
                          pubVars
<1>6. \A i \in 1 .. Len(s) :
        /\ s[i].seq \in Nat
        /\ applied[p] <= s[i].seq /\ s[i].seq <= seq
  <2> SUFFICES ASSUME NEW i \in 1 .. Len(s)
               PROVE  /\ s[i].seq \in Nat
                      /\ applied[p] <= s[i].seq /\ s[i].seq <= seq
    OBVIOUS
  <2>1. CASE i = Len(inbox[p]) + 1
    BY <1>1, <1>2, <1>3, <2>1 DEF IInv, InboxInv
  <2>2. CASE i \in 1 .. Len(inbox[p])
    BY <1>1, <1>3, <2>2, InboxTypes DEF IInv, InboxInv
  <2> QED
    BY <1>3, <2>1, <2>2
<1>7. \A i, j \in 1 .. Len(s) : i <= j => s[i].seq <= s[j].seq
  <2> SUFFICES ASSUME NEW i \in 1 .. Len(s), NEW j \in 1 .. Len(s), i <= j
               PROVE  s[i].seq <= s[j].seq
    OBVIOUS
  <2>1. CASE j = Len(inbox[p]) + 1
    <3>1. s[j].seq = seq
      BY <1>1, <1>3, <2>1
    <3> QED
      BY <1>6, <3>1
  <2>2. CASE j \in 1 .. Len(inbox[p])
    <3>1. i \in 1 .. Len(inbox[p])
      BY <1>3, <2>2
    <3>2. inbox[p][i].seq <= inbox[p][j].seq
      BY <2>2, <3>1 DEF IInv, InboxInv
    <3> QED
      BY <1>3, <2>2, <3>1, <3>2
  <2> QED
    BY <1>3, <2>1, <2>2
<1>8. InboxInv(p)'
  <2>1. /\ UNCHANGED <<applied, seq, durable, handled>>
    BY DEF Deliver, natsVars
  <2>2. handled[p] => s # <<>> /\ Head(s).seq = applied[p]
    BY <1>3 DEF IInv, InboxInv
  <2>3. durable[p] => applied[p] <= seq
    BY DEF IInv, InboxInv
  <2> QED
    BY <1>4, <1>6, <1>7, <2>1, <2>2, <2>3 DEF InboxInv
<1>9. AckInv(p)'
  BY DEF Deliver, IInv, AckInv
<1>10. \A q \in Procs \ {p} : inbox'[q] = inbox[q]
  BY <1>1 DEF IInv, TypeOK
<1> QED
  BY <1>5, <1>8, <1>9, <1>10, ConsumerFrame DEF Deliver, natsVars

\* The callback applies the head of the inbox, which is no older than what is
\* applied.
LEMMA RefreshKeeps ==
  ASSUME IInv, NEW p \in Procs, RefreshControls(p)
  PROVE  IInv' /\ applied[p] <= applied'[p]
<1> DEFINE m == Head(inbox[p])
<1>1. /\ m \in Msg /\ m = inbox[p][1] /\ 1 \in 1 .. Len(inbox[p])
      /\ Len(inbox[p]) \in Nat
  BY InboxTypes, TailFacts DEF RefreshControls, IInv
<1>2. m.seq \in Nat /\ m.val \in Lists
  BY <1>1 DEF Msg
<1> HIDE DEF m
<1>3. /\ view' = [view EXCEPT ![p] = m.val]
      /\ applied' = [applied EXCEPT ![p] = m.seq]
      /\ handled' = [handled EXCEPT ![p] = TRUE]
  BY DEF RefreshControls, m
<1>4. TypeOK' /\ BudgetInv'
  BY <1>2, <1>3 DEF RefreshControls, IInv, TypeOK, BudgetInv, regVars,
                    natsVars, pubVars, consVars
<1>5. applied'[p] = m.seq /\ handled'[p]
  BY <1>3 DEF IInv, TypeOK
<1>6. applied[p] <= m.seq
  BY <1>1 DEF IInv, InboxInv
<1>7. \A i \in 1 .. Len(inbox[p]) : m.seq <= inbox[p][i].seq
  BY <1>1 DEF IInv, InboxInv
<1>8. InboxInv(p)'
  <2>1. UNCHANGED <<inbox, durable, seq>>
    BY DEF RefreshControls, natsVars, consVars
  <2>2. inbox[p] # <<>> /\ Head(inbox[p]).seq = m.seq
    BY DEF RefreshControls, m
  <2>3. durable[p] => m.seq <= seq
    BY <1>1 DEF IInv, InboxInv
  <2> QED
    BY <1>5, <1>7, <2>1, <2>2, <2>3 DEF IInv, InboxInv
<1>9. AckInv(p)'
  <2>1. UNCHANGED <<floor, base>>
    BY DEF RefreshControls, consVars
  <2> QED
    BY <2>1, <1>2, <1>5, <1>6, InboxTypes DEF IInv, AckInv
<1>10. \A q \in Procs \ {p} : UNCHANGED <<handled[q], applied[q]>>
  BY <1>3 DEF IInv, TypeOK
<1> QED
  BY <1>4, <1>5, <1>6, <1>8, <1>9, <1>10, ConsumerFrame
     DEF RefreshControls, natsVars, consVars

\* What is acknowledged is what is applied.
LEMMA AckKeeps ==
  ASSUME IInv, NEW p \in Procs, Ack(p)
  PROVE  IInv'
<1> DEFINE s == Tail(inbox[p])
<1>1. /\ s \in Seq(Msg) /\ Head(inbox[p]) \in Msg
      /\ Len(inbox[p]) \in Nat \ {0} /\ Len(s) = Len(inbox[p]) - 1
      /\ \A i \in 1 .. Len(s) : s[i] = inbox[p][i + 1]
  BY InboxTypes, TailFacts DEF Ack, IInv
<1>2. /\ Head(inbox[p]).seq = applied[p]
      /\ applied[p] \in Nat /\ floor[p] \in Nat /\ base[p] \in Nat
  BY InboxTypes DEF Ack, IInv, InboxInv
<1> HIDE DEF s
<1>3. /\ inbox' = [inbox EXCEPT ![p] = s]
      /\ handled' = [handled EXCEPT ![p] = FALSE]
      /\ UNCHANGED <<regVars, natsVars, pubVars, durable, sent, view, applied,
                     base, conn>>
  BY DEF Ack, s
<1>4. PICK f \in {floor[p], applied[p]} :
        floor' = [floor EXCEPT ![p] = f]
  BY <1>2 DEF Ack, IInv, TypeOK
<1>5. BudgetInv'
  BY SpendFacts DEF Ack, IInv, BudgetInv
<1>6. TypeOK'
  BY <1>1, <1>2, <1>3, <1>4 DEF IInv, TypeOK, regVars, natsVars, pubVars
<1>7. inbox'[p] = s /\ ~handled'[p] /\ floor'[p] = f
  BY <1>3, <1>4 DEF IInv, TypeOK
<1>8. AckInv(p)'
  BY <1>2, <1>3, <1>7 DEF IInv, AckInv
<1>9. \A i \in 1 .. Len(s) : i + 1 \in 1 .. Len(inbox[p])
  BY <1>1
<1>10. InboxInv(p)'
  <2>1. \A i, j \in 1 .. Len(s) : i <= j => s[i].seq <= s[j].seq
    <3> SUFFICES ASSUME NEW i \in 1 .. Len(s), NEW j \in 1 .. Len(s), i <= j
                 PROVE  s[i].seq <= s[j].seq
      OBVIOUS
    <3>1. i + 1 <= j + 1
      BY <1>1
    <3> QED
      BY <1>1, <1>9, <3>1 DEF IInv, InboxInv
  <2>2. \A i \in 1 .. Len(s) : applied[p] <= s[i].seq
    BY <1>1, <1>9 DEF IInv, InboxInv
  <2>3. durable[p] => /\ applied[p] <= seq
                      /\ \A i \in 1 .. Len(s) : s[i].seq <= seq
    BY <1>1, <1>9 DEF IInv, InboxInv
  <2> QED
    BY <1>3, <1>7, <2>1, <2>2, <2>3 DEF InboxInv, natsVars
<1>11. \A q \in Procs \ {p} : UNCHANGED <<inbox[q], handled[q], floor[q]>>
  BY <1>3, <1>4 DEF IInv, TypeOK
<1> QED
  BY <1>3, <1>5, <1>6, <1>8, <1>10, <1>11, ConsumerFrame DEF natsVars

\* Steps of the connection and of the server that only move sent or conn.
LEMMA LinkKeeps ==
  ASSUME IInv, NEW p \in Procs,
         AckTimeout(p) \/ Disconnect(p) \/ Reconnect(p) \/ GiveUp(p)
  PROVE  IInv'
<1>1. BudgetInv'
  BY SpendFacts DEF AckTimeout, Disconnect, Reconnect, GiveUp, IInv, BudgetInv
<1>2. UNCHANGED <<regVars, natsVars, pubVars, durable, floor, inbox, handled,
                  view, applied, base>>
  BY DEF AckTimeout, Disconnect, Reconnect, GiveUp, consVars, procVars
<1>3. sent' \in [Procs -> Nat]
  <2>1. Deliverable(p) => last.seq \in Nat
    BY DEF Deliverable, IInv, TypeOK, StreamInv
  <2> QED
    BY <2>1 DEF AckTimeout, Disconnect, Reconnect, GiveUp, consVars, IInv,
                TypeOK
<1>4. conn' \in [Procs -> {"up", "down", "closed"}]
  BY DEF AckTimeout, Disconnect, Reconnect, GiveUp, SetConn, procVars, IInv,
         TypeOK
<1>5. TypeOK'
  BY <1>2, <1>3, <1>4 DEF IInv, TypeOK, regVars, natsVars, pubVars
<1>6. InboxInv(p)' /\ AckInv(p)'
  BY <1>2 DEF IInv, InboxInv, AckInv, natsVars
<1> QED
  BY <1>1, <1>2, <1>5, <1>6, ConsumerFrame DEF natsVars

LEMMA RestartKeeps ==
  ASSUME IInv, NEW p \in Procs, NEW mode, Restart(p, mode)
  PROVE  IInv' /\ budget'.restarts < budget.restarts
<1>1. PICK n \in Nat :
        /\ floor' = [floor EXCEPT ![p] = n]
        /\ base' = [base EXCEPT ![p] = n]
        /\ sent' = [sent EXCEPT ![p] = n] \/ sent' = [sent EXCEPT ![p] = @]
  <2>1. /\ floor[p] \in Nat /\ seq \in Nat
        /\ last # None => last.seq - 1 \in Nat
    BY DEF IInv, TypeOK, StreamInv
  <2> QED
    BY <2>1 DEF Restart
<1>2. BudgetInv' /\ budget'.restarts < budget.restarts
  BY SpendFacts DEF Restart, IInv
<1>3. inbox' \in [Procs -> Seq(Msg)]
  BY DEF Restart, IInv, TypeOK
<1>4. TypeOK'
  BY <1>1, <1>3 DEF Restart, EnsureStream, SetConn, IInv, TypeOK, regVars,
                    pubVars
<1>5. /\ inbox'[p] = <<>> /\ ~handled'[p] /\ applied'[p] = 0
      /\ floor'[p] = n /\ base'[p] = n /\ seq' = seq
  BY <1>1 DEF Restart, EnsureStream, IInv, TypeOK
<1>6. Len(inbox'[p]) = 0 /\ 0 <= seq
  BY <1>5 DEF IInv, TypeOK
<1>7. InboxInv(p)' /\ AckInv(p)'
  BY <1>5, <1>6 DEF InboxInv, AckInv
<1>8. \A q \in Procs \ {p} :
        UNCHANGED <<inbox[q], handled[q], applied[q], base[q], floor[q],
                    durable[q]>>
  BY <1>1 DEF Restart, IInv, TypeOK
<1> QED
  BY <1>2, <1>4, <1>7, <1>8, ConsumerFrame DEF Restart, EnsureStream

\* The registry changes or the server loses stream and consumers.
LEMMA EnvironmentKeeps ==
  ASSUME IInv, NatsLoss \/ \E v \in Sources : RegistryChange(v)
  PROVE  IInv'
<1>1. CASE NatsLoss
  <2>1. BudgetInv'
    BY <1>1, SpendFacts DEF NatsLoss, IInv
  <2>2. TypeOK' /\ StreamInv'
    BY <1>1 DEF NatsLoss, IInv, TypeOK, StreamInv, regVars, pubVars, procVars
  <2>3. PublisherInv'
    BY <1>1 DEF NatsLoss, IInv, PublisherInv, pubVars
  <2>4. ASSUME NEW p \in Procs PROVE InboxInv(p)' /\ AckInv(p)'
    <3>1. ~durable'[p] /\ UNCHANGED <<inbox[p], handled[p], applied[p],
                                       base[p], floor[p]>>
      BY <1>1 DEF NatsLoss, procVars
    <3> QED
      BY <2>2, <3>1, ProcFrame DEF IInv
  <2> QED
    BY <2>1, <2>2, <2>3, <2>4 DEF IInv
<1>2. ASSUME NEW v \in Sources, RegistryChange(v) PROVE IInv'
  <2>1. BudgetInv'
    BY <1>2, SpendFacts DEF RegistryChange, IInv
  <2>2. TypeOK' /\ PublisherInv'
    BY <1>2 DEF RegistryChange, IInv, TypeOK, PublisherInv, natsVars, pubVars,
                consVars, procVars
  <2> QED
    BY <1>2, <2>1, <2>2, QuietPublisher DEF RegistryChange, natsVars
<1> QED
  BY <1>1, <1>2

LEMMA StutterKeeps == IInv /\ UNCHANGED vars => IInv'
<1> SUFFICES ASSUME IInv, UNCHANGED vars PROVE IInv'
  OBVIOUS
<1>1. TypeOK' /\ BudgetInv' /\ PublisherInv'
  BY DEF vars, IInv, TypeOK, BudgetInv, PublisherInv, regVars, natsVars,
         pubVars, consVars, procVars
<1> QED
  BY <1>1, QuietPublisher DEF vars, natsVars

-----------------------------------------------------------------------------
\* The invariant is inductive.
THEOREM Invariance == Spec => []IInv
<1>1. IInv /\ [Next]_vars => IInv'
  <2> SUFFICES ASSUME IInv, [Next]_vars PROVE IInv'
    OBVIOUS
  <2>1. CASE CacherTick \/ \E a \in Admins : RoutesWebhook(a)
    BY <2>1, StartKeeps
  <2>2. CASE \E p \in Publishers : PublishStep(p)
    BY <2>2, FetchKeeps, CompareLastKeeps, PublishKeeps, PublishErrorKeeps
       DEF PublishStep
  <2>3. CASE \E p \in Procs : ConsumeStep(p)
    BY <2>3, DeliverKeeps, RefreshKeeps, AckKeeps DEF ConsumeStep
  <2>4. CASE \E p \in Procs :
               AckTimeout(p) \/ Disconnect(p) \/ Reconnect(p) \/ GiveUp(p)
    BY <2>4, LinkKeeps
  <2>5. CASE \E p \in Procs, m \in RestartModes : Restart(p, m)
    BY <2>5, RestartKeeps
  <2>6. CASE NatsLoss \/ \E v \in Sources : RegistryChange(v)
    BY <2>6, EnvironmentKeeps
  <2> QED
    BY <2>1, <2>2, <2>3, <2>4, <2>5, <2>6, StutterKeeps DEF Next
<1> QED
  BY <1>1, InitIInv, PTL DEF Spec

\* The state has its types.
THEOREM TypeCorrect == Spec => []TypeOK
<1>1. IInv => TypeOK
  BY DEF IInv
<1> QED
  BY <1>1, Invariance, PTL

\* A message acknowledged since the process started is one whose routes, or
\* later ones, it enforces (the callback of Consume acknowledges last).
THEOREM NothingAckedUnapplied == Spec => []AckedWasApplied
<1>1. IInv => AckedWasApplied
  BY DEF IInv, AckInv, AckedWasApplied
<1> QED
  BY <1>1, Invariance, PTL

\* While a process runs, RefreshControls never takes it back to the routes of
\* an earlier message, however deliveries are repeated and even when the
\* server has lost the stream and numbers its messages from one again.
THEOREM RoutesMoveForward == Spec => NeverBackwards
<1>1. IInv /\ [Next]_vars =>
        [\A p \in Procs : applied'[p] < applied[p] =>
                            budget'.restarts < budget.restarts]_vars
  <2> SUFFICES ASSUME IInv, Next, NEW p \in Procs, applied'[p] < applied[p]
               PROVE  budget'.restarts < budget.restarts
    OBVIOUS
  <2>1. CASE \E q \in Procs, m \in RestartModes : Restart(q, m)
    BY <2>1, RestartKeeps
  <2>2. ASSUME NEW q \in Procs, RefreshControls(q) PROVE FALSE
    <3>1. applied[q] <= applied'[q] /\ applied[p] \in Nat /\ TypeOK'
      BY <2>2, RefreshKeeps, InboxTypes DEF IInv
    <3>2. q # p => applied'[p] = applied[p]
      BY <2>2 DEF RefreshControls, IInv, TypeOK
    <3>3. applied'[p] \in Nat
      BY <3>1 DEF TypeOK
    <3> QED
      BY <3>1, <3>2, <3>3
  <2>3. CASE UNCHANGED applied
    <3>1. applied[p] \in Nat
      BY InboxTypes DEF IInv
    <3> QED
      BY <2>3, <3>1
  <2> QED
    BY <2>1, <2>2, <2>3
       DEF Next, CacherTick, RoutesWebhook, PublishStep, FetchOK, FetchRetry,
           FetchFail, CompareLast, Publish, PublishError, ConsumeStep, Deliver,
           Ack, AckTimeout, Disconnect, Reconnect, GiveUp, RegistryChange,
           NatsLoss, procVars
<1> QED
  BY <1>1, Invariance, PTL DEF Spec, NeverBackwards
=============================================================================
