--------------------------- MODULE ModelJobsProofs ---------------------------
(***************************************************************************)
(* What the background jobs that call a model promise, proved for any jobs, *)
(* attempts, messages, concurrent callers, windows, generations and clock.  *)
(*                                                                          *)
(* The argument: a message that is eligible in the epoch in force arrived   *)
(* in it, and a frozen window is eligible, so what is summarised was said   *)
(* under the consent that summarises it.  Whatever part of the candidates a *)
(* plan took, it is compared with every window frozen before, and a summary *)
(* is of a frozen window.  Only the last attempt of a job is alive, and an  *)
(* attempt that begins when an effect is there asks the evaluator nothing.  *)
(***************************************************************************)
EXTENDS ModelJobs, FiniteSetTheorems, WellFoundedInduction, TLAPS

(***************************************************************************)
(* The types, by the part of the state they are about.                      *)
(***************************************************************************)

PolicyTypes ==
    /\ clock \in 0..MaxClock
    /\ created \in [Message -> Time \cup {None}] /\ arrived \in [Message -> 0..MaxGeneration]
    /\ policy \in [enabled : BOOLEAN, gen : 0..MaxGeneration, after : Time, updated : Time]

WindowTypes ==
    /\ plan \in [Enqueuer -> Plan \cup {None}]
    /\ bind \in [SummaryJob -> BindingRow \cup {None}]
    /\ stored \subseteq [window : Window, gen : 1..MaxGeneration]

JobStatus == {"absent", "pending", "running", "completed", "failed"}

JobTypes ==
    /\ job \in [Job -> JobStatus]
    /\ tries \in [Job -> 0..MaxAttempts]
    /\ busy \in Attempt \cup {None}
    /\ stalls \in 0..MaxStalls /\ workload \in Workloads /\ linked \in BOOLEAN

HandlerTypes ==
    /\ pc \in [Attempt -> Handler]
    /\ verdict \in [Attempt -> Verdict \cup {"none"}]

EffectTypes ==
    /\ memory \in [ExtractionJob -> {"none", "stored", "rejected"}]
    /\ rejected \subseteq ExtractionJob

(***************************************************************************)
(* The invariant, by what it is about.                                      *)
(***************************************************************************)

(* A job's live attempt is its last, and a later one has not begun.         *)
NumberedAt(j, k) ==
    /\ attempt[<<j, k>>] \in {"running", "expired"} => k = tries[j] /\ job[j] = "running"
    /\ k > tries[j] => pc[<<j, k>>] = "none"

Numbered == \A j \in Job : \A k \in 1..MaxAttempts : NumberedAt(j, k)

(* Where a handler may be, and the calls it has not made yet.               *)
Placed(a) ==
    /\ pc[a] # "none" => job[a[1]] # "absent"
    /\ pc[a] \in {"prepared", "call1", "retry", "call2", "store"} => IsSummary(a)
    /\ pc[a] \in {"source", "review1", "review2", "decide"} => ~IsSummary(a)
    /\ pc[a] \in {"none", "begin", "prepared"} => inv[SummaryRow(a, 1)] = "none"
    /\ pc[a] \in {"none", "begin", "prepared", "call1", "retry"} => inv[SummaryRow(a, 2)] = "none"
    /\ pc[a] \in {"none", "begin", "source", "review1"} => inv[EvaluatorRow(a, 1, 2)] = "none"
    /\ pc[a] = "decide" => verdict[a] \in Verdict

(* Messages come in order, with the clock; those of the epoch in force came *)
(* in it.                                                                   *)
Policed ==
    /\ policy.enabled => policy.gen >= 1
    /\ policy.updated <= MaxClock + policy.gen
    /\ \A m \in Ingested :
          /\ created[m] <= MaxClock
          /\ \A k \in Message : k < m => created[k] # None
          /\ policy.enabled /\ created[m] >= policy.after => arrived[m] = policy.gen

(* A binding's messages came in its epoch; a canceled one's epoch is over.  *)
Bindings ==
    \A j \in SummaryJob :
        /\ job[j] = "absent" <=> bind[j] = None
        /\ bind[j] # None =>
              /\ bind[j].gen <= policy.gen
              /\ bind[j].canceled => bind[j].gen < policy.gen
              /\ \A m \in bind[j].window : created[m] # None /\ arrived[m] = bind[j].gen

WindowsApart == \A j, k \in Bound : j # k => bind[j].window \cap bind[k].window = {}

(* A summary is of the window of a job.                                     *)
FromJobs == \A s \in stored : \E j \in Bound : s = [window |-> bind[j].window, gen |-> bind[j].gen]

Summaries ==
    /\ PolicyTypes /\ WindowTypes
    /\ Policed /\ Bindings /\ WindowsApart /\ FromJobs

(* An attempt that decided is past it; no later one asks.                   *)
DecidedBy(j, k) == decision[<<<<j, k>>, 1>>] # "none"

Grounded(j) ==
    /\ memory[j] # "none" => \E k \in 1..MaxAttempts : DecidedBy(j, k)
    /\ \A k \in 1..MaxAttempts : DecidedBy(j, k) =>
          /\ pc[<<j, k>>] \in {"succeed", "done"}
          /\ \A l \in 1..MaxAttempts :
                /\ DecidedBy(j, l) => l = k
                /\ l > k => pc[<<j, l>>] \notin {"review1", "review2", "decide"}
          /\ decision[<<<<j, k>>, 1>>] = "approve" <=> memory[j] = "stored"
          /\ EffectLeft(j)
          /\ \E c \in 1..2 : inv[EvaluatorRow(<<j, k>>, 1, c)] = "completed"

Attempts ==
    /\ LedgerTypeOK /\ JobTypes /\ HandlerTypes
    /\ NoOrphanCalls /\ Numbered /\ \A a \in Attempt : Placed(a)

Decisions == EffectTypes /\ \A j \in ExtractionJob : Grounded(j)

JobsInv == Summaries /\ Attempts /\ Decisions

-----------------------------------------------------------------------------
(***************************************************************************)
(* Numbers.                                                                 *)
(***************************************************************************)

LEMMA LeastNumber ==
    ASSUME NEW T, T # {}, T \subseteq Nat
    PROVE  \E m \in T : \A k \in T : m <= k
<1>1. PICK R : R = OpToRel(<, Nat)  BY Zenon
<1>2. IsWellFoundedOn(R, Nat)  BY <1>1, NatLessThanWellFounded, Zenon
<1>3. R = {ss \in Nat \X Nat : ss[1] < ss[2]}  BY <1>1, Zenon DEF OpToRel
<1>4. PICK m \in T : \A k \in T : ~(<<k, m>> \in R)  BY <1>2, WFMin
<1>5. ASSUME NEW k \in T  PROVE m <= k
  <2>1. m \in Nat /\ k \in Nat  OBVIOUS
  <2>2. k < m => <<k, m>> \in R
    <3>1. <<k, m>> \in Nat \X Nat /\ <<k, m>>[1] = k /\ <<k, m>>[2] = m  BY <2>1
    <3> QED  BY <1>3, <3>1
  <2> QED  BY <1>4, <2>1, <2>2
<1> QED  BY <1>5

(* Max of a set that has a bound.                                           *)
LEMMA LatestOf ==
    ASSUME NEW N \in Nat, NEW T, T # {}, T \subseteq 0..N
    PROVE  Max(T) \in T /\ \A k \in T : k <= Max(T)
<1> DEFINE U == {N - k : k \in T}
<1>1. U # {} /\ U \subseteq Nat
  <2>1. \A k \in T : N - k \in Nat
    <3>1. ASSUME NEW k \in T  PROVE N - k \in Nat
      <4>1. k \in 0..N  OBVIOUS
      <4> QED  BY <4>1
    <3> QED  BY <3>1
  <2> QED  BY <2>1
<1>2. PICK u \in U : \A k \in U : u <= k
  <2> HIDE DEF U
  <2> QED  BY <1>1, LeastNumber
<1>3. PICK m \in T : u = N - m  OBVIOUS
<1>4. \A k \in T : m >= k
  <2>1. ASSUME NEW k \in T  PROVE m >= k
    <3>1. N - m <= N - k  BY <1>2, <1>3
    <3> QED  BY <3>1
  <2> QED  BY <2>1
<1>5. Max(T) \in T /\ \A k \in T : Max(T) >= k  BY <1>4, Zenon DEF Max
<1>6. \A k \in T : Max(T) >= k => k <= Max(T)  BY <1>5
<1> QED  BY <1>5, <1>6

USE ModelJobsAssumption, LedgerAssumption DEF ModelJobsAssumption, LedgerAssumption

(* The boundary of a transition is later than everything so far.            *)
LEMMA TransitionFacts ==
    ASSUME PolicyTypes, Policed
    PROVE  /\ TransitionTime \in Nat /\ TransitionTime > clock
           /\ \A m \in Ingested : created[m] \in Nat /\ TransitionTime > created[m]
           /\ TransitionTime <= MaxClock + policy.gen + 1
<1> DEFINE T == {clock, policy.updated} \cup {created[m] : m \in Ingested}
           N == MaxClock + policy.gen
<1>1. N \in Nat /\ clock \in Nat /\ policy.updated \in Nat /\ MaxClock \in Nat /\ policy.gen \in Nat
  BY DEF PolicyTypes, Time
<1>2. \A m \in Ingested : created[m] \in Nat /\ created[m] <= MaxClock
  BY DEF PolicyTypes, Policed, Ingested, Time
<1>3. T # {} /\ T \subseteq 0..N
  <2>1. clock \in 0..N /\ policy.updated \in 0..N  BY <1>1 DEF PolicyTypes, Policed
  <2>2. \A m \in Ingested : created[m] \in 0..N  BY <1>1, <1>2
  <2> QED  BY <2>1, <2>2
<1>4. Max(T) \in T /\ \A k \in T : k <= Max(T)
  <2> HIDE DEF T, N
  <2> QED  BY <1>1, <1>3, LatestOf
<1>5. TransitionTime = Max(T) + 1  BY DEF TransitionTime
<1>6. clock <= Max(T) /\ \A m \in Ingested : created[m] <= Max(T)  BY <1>4
<1>7. Max(T) \in 0..N  BY <1>3, <1>4
<1> HIDE DEF T
<1> QED  BY <1>1, <1>2, <1>5, <1>6, <1>7

-----------------------------------------------------------------------------
(***************************************************************************)
(* The ledger.                                                              *)
(***************************************************************************)

LEMMA AttemptFacts ==
    ASSUME NEW a \in Attempt
    PROVE  /\ a[1] \in Job /\ a[2] \in 1..MaxAttempts /\ a = <<a[1], a[2]>>
           /\ a \notin Turn /\ a \in Owner
           /\ IsSummary(a) <=> a[1] \notin ExtractionJob
  BY DEF Job, Owner, IsSummary

LEMMA PairFacts ==
    ASSUME NEW j \in Job, NEW k \in 1..MaxAttempts
    PROVE  <<j, k>> \in Attempt /\ <<j, k>>[1] = j /\ <<j, k>>[2] = k
  OBVIOUS

LEMMA RowFacts ==
    ASSUME NEW a \in Attempt, NEW c \in 1..2
    PROVE  /\ SummaryRow(a, c) \in Row /\ OwnerOf(SummaryRow(a, c)) = a
           /\ EvaluatorRow(a, 1, c) \in Row /\ OwnerOf(EvaluatorRow(a, 1, c)) = a
           /\ <<a, 1>> \in Request
  BY AttemptFacts DEF SummaryRow, EvaluatorRow, OwnerOf, Row, Owner, Request

LEMMA RowsDiffer ==
    ASSUME NEW a, NEW b
    PROVE  /\ \A c, d : SummaryRow(a, c) # EvaluatorRow(b, 1, d)
           /\ \A c, d : EvaluatorRow(a, 1, c) = EvaluatorRow(b, 1, d) => a = b /\ c = d
           /\ \A c, d : SummaryRow(a, c) = SummaryRow(b, d) => a = b /\ c = d
  BY DEF SummaryRow, EvaluatorRow

(* A row belongs to an attempt.                                             *)
LEMMA RowOwner ==
    ASSUME NEW row \in Row
    PROVE  OwnerOf(row) \in Attempt /\ OwnerOf(row) \notin Turn
  BY DEF Row, OwnerOf, PiRow, EvaluatorRow, SummaryRow, Owner

LEMMA RowWritten ==
    ASSUME inv \in [Row -> RowStatus], NEW row \in Row, NEW s \in RowStatus,
           inv' = [inv EXCEPT ![row] = s]
    PROVE  /\ inv' \in [Row -> RowStatus] /\ inv'[row] = s
           /\ \A r \in Row : r # row => inv'[r] = inv[r]
  OBVIOUS

(* What the end of an attempt does to the rows.                             *)
LEMMA OrphanedFacts ==
    ASSUME inv \in [Row -> RowStatus], NEW a, inv' = Orphaned(a)
    PROVE  /\ inv' \in [Row -> RowStatus]
           /\ \A row \in Row : inv[row] # "running" => inv'[row] = inv[row]
           /\ \A row \in Row : inv'[row] = "running" => inv[row] = "running" /\ OwnerOf(row) # a
  BY DEF Orphaned, RowStatus

(* The rows an action leaves alone, and those it may open.                  *)
SettledStay == \A row \in Row : inv[row] \in Settled => inv'[row] = inv[row]

Opens(a) ==
    \A row \in Row : inv'[row] # inv[row] => OwnerOf(row) = a /\ inv[row] \in {"none", "running"}

-----------------------------------------------------------------------------
(***************************************************************************)
(* Attempts: where each handler is.                                         *)
(***************************************************************************)

LEMMA TypesAgree == TypeOK <=> /\ LedgerTypeOK /\ PolicyTypes /\ WindowTypes
                              /\ JobTypes /\ HandlerTypes /\ EffectTypes
  BY DEF TypeOK, PolicyTypes, WindowTypes, JobTypes, HandlerTypes, EffectTypes, JobStatus

(* A handler moves: only its place and its own rows change.                 *)
LEMMA HandlerMoves ==
    ASSUME Attempts, NEW a \in Attempt, pc[a] # "none",
           turn' = turn, attempt' = attempt, job' = job, tries' = tries, busy' = busy,
           stalls' = stalls, workload' = workload, linked' = linked,
           decision' \in [Request -> Verdict \cup {"none"}],
           NEW where \in Handler, Goto(a, where),
           inv' \in [Row -> RowStatus], Opens(a),
           \A row \in Row : inv'[row] = "running" =>
               inv[row] = "running" \/ attempt[a] \in {"running", "expired"},
           verdict' \in [Attempt -> Verdict \cup {"none"}],
           \A b \in Attempt \ {a} : verdict'[b] = verdict[b],
           Placed(a)'
    PROVE  Attempts'
<1>1. pc' \in [Attempt -> Handler] /\ pc'[a] = where /\ \A b \in Attempt \ {a} : pc'[b] = pc[b]
  BY DEF Attempts, HandlerTypes, Goto
<1>2. LedgerTypeOK' /\ JobTypes' /\ HandlerTypes'
  BY <1>1 DEF Attempts, LedgerTypeOK, JobTypes, HandlerTypes
<1>3. NoOrphanCalls'
  <2>1. ASSUME NEW row \in Row, inv'[row] = "running"
        PROVE  attempt[OwnerOf(row)] \in {"running", "expired"}
    <3>1. CASE inv[row] = "running"  BY <3>1, RowOwner DEF Attempts, NoOrphanCalls
    <3>2. CASE inv[row] # "running"
      <4>1. OwnerOf(row) = a  BY <2>1, <3>2 DEF Opens
      <4> QED  BY <2>1, <3>2, <4>1
    <3> QED  BY <3>1, <3>2
  <2> QED  BY <2>1, RowOwner DEF NoOrphanCalls
<1>4. Numbered'
  <2>1. ASSUME NEW j \in Job, NEW k \in 1..MaxAttempts  PROVE NumberedAt(j, k)'
    <3>1. <<j, k>> \in Attempt /\ NumberedAt(j, k)  BY PairFacts DEF Attempts, Numbered
    <3>2. pc[<<j, k>>] = "none" => pc'[<<j, k>>] = "none"  BY <1>1, <3>1
    <3> QED  BY <3>1, <3>2 DEF NumberedAt
  <2> QED  BY <2>1 DEF Numbered
<1>5. ASSUME NEW b \in Attempt, b # a  PROVE Placed(b)'
  <2>1. /\ inv'[SummaryRow(b, 1)] = inv[SummaryRow(b, 1)] /\ inv'[SummaryRow(b, 2)] = inv[SummaryRow(b, 2)]
        /\ inv'[EvaluatorRow(b, 1, 2)] = inv[EvaluatorRow(b, 1, 2)]
    <3>1. 1 \in 1..2 /\ 2 \in 1..2  OBVIOUS
    <3>2. ASSUME NEW row \in Row, OwnerOf(row) = b  PROVE inv'[row] = inv[row]
      BY <1>5, <3>2 DEF Opens
    <3> QED  BY <3>1, <3>2, RowFacts
  <2>2. Placed(b) /\ pc'[b] = pc[b] /\ verdict'[b] = verdict[b]  BY <1>1, <1>5 DEF Attempts
  <2> QED  BY <2>1, <2>2 DEF Placed, IsSummary
<1> QED  BY <1>2, <1>3, <1>4, <1>5 DEF Attempts

(* No running job stops, and none goes away.                                *)
JobsStay ==
    \A j \in Job : /\ job[j] = "running" => job'[j] = "running"
                   /\ job[j] # "absent" => job'[j] # "absent"

(* Jobs come, and jobs that do not run are canceled.                        *)
LEMMA JobsQueued ==
    ASSUME Attempts, turn' = turn, attempt' = attempt, inv' = inv, decision' = decision,
           tries' = tries, busy' = busy, stalls' = stalls, workload' = workload, linked' = linked,
           pc' = pc, verdict' = verdict,
           job' \in [Job -> JobStatus], JobsStay
    PROVE  Attempts'
<1>1. LedgerTypeOK' /\ JobTypes' /\ HandlerTypes'
  BY DEF Attempts, LedgerTypeOK, JobTypes, HandlerTypes
<1>2. NoOrphanCalls'  BY DEF Attempts, NoOrphanCalls
<1>3. Numbered'
  <2>1. ASSUME NEW j \in Job, NEW k \in 1..MaxAttempts  PROVE NumberedAt(j, k)'
    <3>1. NumberedAt(j, k)  BY DEF Attempts, Numbered
    <3> QED  BY <3>1 DEF NumberedAt, JobsStay
  <2> QED  BY <2>1 DEF Numbered
<1>4. ASSUME NEW a \in Attempt  PROVE Placed(a)'
  <2>1. a[1] \in Job /\ Placed(a)  BY AttemptFacts DEF Attempts
  <2> QED  BY <2>1 DEF Placed, IsSummary, JobsStay
<1> QED  BY <1>1, <1>2, <1>3, <1>4 DEF Attempts

-----------------------------------------------------------------------------
(* A move that asks nobody.                                                 *)
LEMMA QuietMoves ==
    ASSUME Attempts, NEW a \in Attempt, pc[a] # "none",
           turn' = turn, attempt' = attempt, inv' = inv, job' = job, tries' = tries, busy' = busy,
           stalls' = stalls, workload' = workload, linked' = linked, verdict' = verdict,
           decision' = decision,
           NEW where \in Handler, Goto(a, where),
           /\ where \in {"prepared", "store"} => IsSummary(a)
           /\ where = "source" => pc[a] = "begin" /\ ~IsSummary(a)
           /\ where = "prepared" => pc[a] = "begin"
           /\ where \in {"prepared", "source", "succeed", "fail", "done"}
    PROVE  Attempts' /\ SettledStay /\ pc'[a] = where /\ \A b \in Attempt \ {a} : pc'[b] = pc[b]
<1>1. pc'[a] = where /\ \A b \in Attempt \ {a} : pc'[b] = pc[b]
  BY DEF Attempts, HandlerTypes, Goto
<1>2. Placed(a)'
  <2>1. Placed(a)  BY DEF Attempts
  <2> QED  BY <1>1, <2>1 DEF Placed, IsSummary
<1>3. Opens(a) /\ SettledStay  BY DEF Opens, SettledStay
<1>4. /\ inv' \in [Row -> RowStatus] /\ decision' \in [Request -> Verdict \cup {"none"}]
      /\ verdict' \in [Attempt -> Verdict \cup {"none"}]
  BY DEF Attempts, LedgerTypeOK, HandlerTypes
<1>5. Attempts'  BY <1>2, <1>3, <1>4, HandlerMoves
<1> QED  BY <1>1, <1>3, <1>5

(* What the other parts need of a move: where it may lead, and what becomes *)
(* of the jobs.                                                             *)
Onward ==
    \A b \in Attempt :
        /\ pc[b] \in {"succeed", "done"} => pc'[b] \in {"succeed", "done"}
        /\ pc'[b] \in {"review1", "review2", "decide"} =>
              pc[b] \in {"review1", "review2", "decide"} \/ ~EffectLeft(b[1])

JobsGo ==
    \A j \in SummaryJob : job'[j] = "absent" <=> job[j] = "absent"

Moved == Attempts' /\ SettledStay /\ Onward /\ JobsGo

LEMMA MovedByHandler ==
    ASSUME Attempts', SettledStay, NEW a \in Attempt, job' = job,
           \A b \in Attempt \ {a} : pc'[b] = pc[b],
           pc[a] \in {"succeed", "done"} => pc'[a] \in {"succeed", "done"},
           pc'[a] \in {"review1", "review2", "decide"} =>
               pc[a] \in {"review1", "review2", "decide"} \/ ~EffectLeft(a[1])
    PROVE  Moved
<1>1. JobsGo  BY DEF JobsGo, Job
<1>2. Onward
  <2>1. ASSUME NEW b \in Attempt, b # a  PROVE pc'[b] = pc[b]  BY <2>1
  <2> QED  BY <2>1 DEF Onward
<1> QED  BY <1>1, <1>2 DEF Moved

LEMMA BeginSummarySound ==
    ASSUME Attempts, NEW a \in Attempt, BeginSummary(a)
    PROVE  Moved
<1> DEFINE where == IF Authorized(a) /\ FrozenMessages(a) = bind[a[1]].window THEN "prepared" ELSE "fail"
<1>1. /\ Goto(a, where) /\ where \in {"prepared", "fail"} /\ pc[a] = "begin" /\ IsSummary(a)
      /\ UNCHANGED <<ledgerVars, jobVars, verdict, stalls>>
  BY DEF BeginSummary
<1> HIDE DEF where
<1>2. where \in Handler  BY <1>1 DEF Handler
<1> QED  BY <1>1, <1>2, QuietMoves, MovedByHandler DEF ledgerVars, jobVars

LEMMA ReuseSummarySound ==
    ASSUME Attempts, NEW a \in Attempt, ReuseSummary(a)
    PROVE  Moved
<1> DEFINE where == IF Authorized(a) THEN "succeed" ELSE "fail"
<1>1. /\ Goto(a, where) /\ where \in {"succeed", "fail"} /\ pc[a] = "prepared"
      /\ UNCHANGED <<ledgerVars, jobVars, verdict, stalls>>
  BY DEF ReuseSummary
<1> HIDE DEF where
<1>2. where \in Handler  BY <1>1 DEF Handler
<1> QED  BY <1>1, <1>2, QuietMoves, MovedByHandler DEF ledgerVars, jobVars

LEMMA StoreSummarySound ==
    ASSUME Attempts, NEW a \in Attempt, StoreSummary(a)
    PROVE  Moved
<1>1. /\ pc[a] = "store"
      /\ UNCHANGED <<ledgerVars, jobVars, verdict, stalls>>
  BY DEF StoreSummary
<1>2. PICK where \in {"succeed", "fail"} : Goto(a, where)  BY DEF StoreSummary
<1>3. where \in Handler  BY <1>2 DEF Handler
<1> QED  BY <1>1, <1>2, <1>3, QuietMoves, MovedByHandler DEF ledgerVars, jobVars

LEMMA BeginExtractionSound ==
    ASSUME Attempts, NEW a \in Attempt, BeginExtraction(a)
    PROVE  Moved
<1>1. /\ pc[a] = "begin" /\ ~IsSummary(a)
      /\ UNCHANGED <<ledgerVars, jobVars, verdict, stalls>>
  BY DEF BeginExtraction
<1>2. PICK where \in {"fail", "source", "succeed"} : Goto(a, where)  BY DEF BeginExtraction
<1>3. where \in Handler  BY <1>2 DEF Handler
<1> QED  BY <1>1, <1>2, <1>3, QuietMoves, MovedByHandler DEF ledgerVars, jobVars

LEMMA ReuseEffectSound ==
    ASSUME Attempts, NEW a \in Attempt, ReuseEffect(a)
    PROVE  Moved
<1> DEFINE where == IF Reusable(a) THEN "succeed" ELSE "fail"
<1>1. /\ Goto(a, where) /\ where \in {"succeed", "fail"} /\ pc[a] = "source"
      /\ UNCHANGED <<ledgerVars, jobVars, verdict, stalls>>
  BY DEF ReuseEffect
<1> HIDE DEF where
<1>2. where \in Handler  BY <1>1 DEF Handler
<1> QED  BY <1>1, <1>2, QuietMoves, MovedByHandler DEF ledgerVars, jobVars

LEMMA RejectCandidateSound ==
    ASSUME Attempts, NEW a \in Attempt, RejectCandidate(a)
    PROVE  Moved
<1>1. /\ pc[a] = "source" /\ Goto(a, "succeed")
      /\ UNCHANGED <<ledgerVars, jobVars, verdict, stalls>>
  BY DEF RejectCandidate
<1>2. "succeed" \in Handler  BY DEF Handler
<1> QED  BY <1>1, <1>2, QuietMoves, MovedByHandler DEF ledgerVars, jobVars

(* A call is made.                                                          *)
LEMMA CallProviderSound ==
    ASSUME Attempts, NEW a \in Attempt, NEW c \in 1..2, CallProvider(a, c)
    PROVE  Moved
<1> DEFINE row == SummaryRow(a, c)
<1>1. /\ IsSummary(a) /\ (IF c = 1 THEN pc[a] = "prepared" ELSE pc[a] = "retry")
      /\ UNCHANGED <<turn, attempt, decision, jobVars, verdict, stalls>>
  BY DEF CallProvider
<1>2. CASE ~(Authorized(a) /\ CanStartSummary(a))
  <2>1. Goto(a, "fail") /\ inv' = inv  BY <1>2 DEF CallProvider
  <2>2. "fail" \in Handler  BY DEF Handler
  <2> QED  BY <1>1, <2>1, <2>2, QuietMoves, MovedByHandler DEF jobVars
<1>3. CASE Authorized(a) /\ CanStartSummary(a)
  <2> DEFINE where == IF c = 1 THEN "call1" ELSE "call2"
  <2>1. inv' = [inv EXCEPT ![row] = "running"] /\ Goto(a, where)  BY <1>3 DEF CallProvider, Started
  <2>2. where \in Handler /\ (c = 1 => where = "call1") /\ (c = 2 => where = "call2")
        /\ where \in {"call1", "call2"}
    BY DEF Handler
  <2> HIDE DEF where, row
  <2>3. row \in Row /\ OwnerOf(row) = a  BY RowFacts DEF row
  <2>4. /\ inv \in [Row -> RowStatus] /\ decision \in [Request -> Verdict \cup {"none"}]
        /\ verdict \in [Attempt -> Verdict \cup {"none"}] /\ pc \in [Attempt -> Handler] /\ Placed(a)
    BY DEF Attempts, LedgerTypeOK, HandlerTypes
  <2>5. inv[row] = "none"
    <3>1. CASE c = 1  BY <1>1, <2>4, <3>1 DEF Placed, row
    <3>2. CASE c = 2  BY <1>1, <2>4, <3>2 DEF Placed, row
    <3> QED  BY <3>1, <3>2
  <2>6. /\ inv' \in [Row -> RowStatus] /\ inv'[row] = "running"
        /\ \A r \in Row : r # row => inv'[r] = inv[r]
    <3>1. "running" \in RowStatus  BY DEF RowStatus
    <3> QED  BY <2>1, <2>3, <2>4, <3>1, RowWritten
  <2>7. Opens(a) /\ SettledStay  BY <2>3, <2>5, <2>6 DEF Opens, SettledStay, Settled
  <2>8. pc'[a] = where /\ \A b \in Attempt \ {a} : pc'[b] = pc[b]  BY <2>1, <2>4 DEF Goto
  <2>9. Placed(a)'
    <3>1. /\ SummaryRow(a, 2) \in Row /\ EvaluatorRow(a, 1, 2) \in Row
          /\ EvaluatorRow(a, 1, 2) # row /\ (c = 1 => SummaryRow(a, 2) # row)
      <4>1. 2 \in 1..2  OBVIOUS
      <4>2. SummaryRow(a, 2) \in Row /\ EvaluatorRow(a, 1, 2) \in Row  BY <4>1, RowFacts
      <4>3. /\ SummaryRow(a, c) # EvaluatorRow(a, 1, 2)
            /\ SummaryRow(a, c) = SummaryRow(a, 2) => c = 2
        BY RowsDiffer
      <4>4. c = 1 => c # 2  OBVIOUS
      <4> QED  BY ONLY <4>2, <4>3, <4>4 DEF row
    <3>2. c = 1 => pc[a] = "prepared" /\ inv'[SummaryRow(a, 2)] = inv[SummaryRow(a, 2)]
      BY <1>1, <2>6, <3>1
    <3>3. c = 1 \/ c = 2  OBVIOUS
    <3> QED  BY <1>1, <2>2, <2>4, <2>8, <3>2, <3>3 DEF Placed, IsSummary, jobVars
  <2>10. \A r \in Row : inv'[r] = "running" => inv[r] = "running" \/ attempt[a] \in {"running", "expired"}
    BY <1>3, <2>6 DEF CanStartSummary
  <2>11. Attempts'
    BY <1>1, <2>1, <2>2, <2>4, <2>6, <2>7, <2>9, <2>10, HandlerMoves DEF jobVars, Placed
  <2> QED  BY <1>1, <2>2, <2>7, <2>8, <2>11, MovedByHandler DEF jobVars
<1> QED  BY <1>2, <1>3

(* The provider answers, in time or not.                                    *)
LEMMA SummaryAnswerSound ==
    ASSUME Attempts, NEW a \in Attempt, SummaryAnswer(a)
    PROVE  Moved
<1> DEFINE c == IF pc[a] = "call1" THEN 1 ELSE 2
           row == SummaryRow(a, c)
           again == IF c = 1 THEN "retry" ELSE "fail"
<1>1. /\ pc[a] \in {"call1", "call2"}
      /\ \/ CanComplete(row) /\ inv' = [inv EXCEPT ![row] = "completed"] /\ Goto(a, "store")
         \/ /\ inv' = IF inv[row] = "running" THEN [inv EXCEPT ![row] = "failed"] ELSE inv
            /\ Goto(a, again)
      /\ UNCHANGED <<turn, attempt, decision, jobVars, verdict, stalls>>
  BY DEF SummaryAnswer, Completed, Failed, CanFail
<1>2. c \in 1..2 /\ (pc[a] = "call1" => c = 1 /\ again = "retry") /\ (pc[a] = "call2" => c = 2 /\ again = "fail")
  BY <1>1
<1> HIDE DEF c, again
<1>3. row \in Row /\ OwnerOf(row) = a  BY <1>2, RowFacts
<1>4. pc[a] = "call1" => SummaryRow(a, 2) \in Row /\ SummaryRow(a, 2) # row
  <2>1. 2 \in 1..2  OBVIOUS
  <2>2. SummaryRow(a, c) = SummaryRow(a, 2) => c = 2  BY RowsDiffer
  <2>3. SummaryRow(a, 2) \in Row  BY <2>1, RowFacts
  <2> QED  BY <1>2, <2>2, <2>3
<1> HIDE DEF row
<1>5. /\ inv \in [Row -> RowStatus] /\ decision \in [Request -> Verdict \cup {"none"}]
      /\ verdict \in [Attempt -> Verdict \cup {"none"}] /\ pc \in [Attempt -> Handler] /\ Placed(a)
  BY DEF Attempts, LedgerTypeOK, HandlerTypes
<1>6. PICK where \in {"store", "retry", "fail"} :
        Goto(a, where) /\ (where = "retry" => pc[a] = "call1")
  BY <1>1, <1>2
<1>7. PICK s \in {"completed", "failed", "kept"} :
        IF s = "kept" THEN inv' = inv ELSE inv[row] = "running" /\ inv' = [inv EXCEPT ![row] = s]
  BY <1>1 DEF CanComplete
<1>8. /\ inv' \in [Row -> RowStatus]
      /\ \A r \in Row : r # row => inv'[r] = inv[r]
      /\ inv'[row] # inv[row] => inv[row] = "running"
      /\ inv'[row] = "running" => inv[row] = "running"
  <2>1. CASE s = "kept"  BY <1>5, <1>7, <2>1
  <2>2. CASE s # "kept"
    <3>1. s \in RowStatus /\ s # "running" /\ inv[row] = "running" /\ inv' = [inv EXCEPT ![row] = s]
      BY <1>7, <2>2 DEF RowStatus
    <3>2. /\ inv' \in [Row -> RowStatus] /\ inv'[row] = s
          /\ \A r \in Row : r # row => inv'[r] = inv[r]
      BY <1>3, <1>5, <3>1, RowWritten
    <3> QED  BY <3>1, <3>2
  <2> QED  BY <2>1, <2>2
<1>9. Opens(a) /\ SettledStay  BY <1>3, <1>8 DEF Opens, SettledStay, Settled
<1>10. pc'[a] = where /\ \A b \in Attempt \ {a} : pc'[b] = pc[b]  BY <1>5, <1>6 DEF Goto
<1>11. Placed(a)'
  BY <1>1, <1>4, <1>5, <1>6, <1>8, <1>10 DEF Placed, IsSummary, jobVars
<1>12. \A r \in Row : inv'[r] = "running" => inv[r] = "running" \/ attempt[a] \in {"running", "expired"}
  BY <1>8
<1>13. where \in Handler  BY <1>6 DEF Handler
<1>14. Attempts'
  BY <1>1, <1>5, <1>6, <1>8, <1>9, <1>11, <1>12, <1>13, HandlerMoves DEF jobVars
<1> QED  BY <1>1, <1>6, <1>9, <1>10, <1>14, MovedByHandler DEF jobVars

-----------------------------------------------------------------------------
(* The evaluator is asked.                                                  *)
LEMMA AskEvaluatorSound ==
    ASSUME Attempts, NEW a \in Attempt, AskEvaluator(a)
    PROVE  Moved
<1> DEFINE row == EvaluatorRow(a, 1, 1)
<1>1. /\ pc[a] = "source" /\ ~EffectLeft(a[1]) /\ attempt[a] = "running" /\ inv[row] = "none"
      /\ inv' = [inv EXCEPT ![row] = "running"] /\ Goto(a, "review1")
      /\ UNCHANGED <<turn, attempt, decision, jobVars, verdict, stalls>>
  BY AttemptFacts DEF AskEvaluator, CanStartEvaluator, OwnerActive, Started
<1>2. row \in Row /\ OwnerOf(row) = a
  <2>1. 1 \in 1..2  OBVIOUS
  <2> QED  BY <2>1, RowFacts
<1>3. EvaluatorRow(a, 1, 2) \in Row /\ EvaluatorRow(a, 1, 2) # row
  <2>1. 2 \in 1..2 /\ 2 # 1  OBVIOUS
  <2>2. EvaluatorRow(a, 1, 2) = EvaluatorRow(a, 1, 1) => 2 = 1  BY RowsDiffer
  <2>3. EvaluatorRow(a, 1, 2) \in Row  BY <2>1, RowFacts
  <2> QED  BY ONLY <2>1, <2>2, <2>3
<1> HIDE DEF row
<1>4. /\ inv \in [Row -> RowStatus] /\ decision \in [Request -> Verdict \cup {"none"}]
      /\ verdict \in [Attempt -> Verdict \cup {"none"}] /\ pc \in [Attempt -> Handler] /\ Placed(a)
  BY DEF Attempts, LedgerTypeOK, HandlerTypes
<1>5. /\ inv' \in [Row -> RowStatus] /\ inv'[row] = "running"
      /\ \A r \in Row : r # row => inv'[r] = inv[r]
  <2>1. "running" \in RowStatus  BY DEF RowStatus
  <2> QED  BY <1>1, <1>2, <1>4, <2>1, RowWritten
<1>6. Opens(a) /\ SettledStay  BY <1>1, <1>2, <1>5 DEF Opens, SettledStay, Settled
<1>7. pc'[a] = "review1" /\ \A b \in Attempt \ {a} : pc'[b] = pc[b]  BY <1>1, <1>4 DEF Goto
<1>8. Placed(a)'  BY <1>1, <1>3, <1>4, <1>5, <1>7 DEF Placed, IsSummary, jobVars
<1>9. "review1" \in Handler  BY DEF Handler
<1>10. Attempts'  BY <1>1, <1>4, <1>5, <1>6, <1>8, <1>9, HandlerMoves DEF jobVars
<1> QED  BY <1>1, <1>6, <1>7, <1>10, MovedByHandler DEF jobVars

(* The evaluator answers: the call is settled, or it is settled as invalid  *)
(* and the correction call is made.                                         *)
LEMMA EvaluatorAnswerSound ==
    ASSUME Attempts, NEW a \in Attempt, EvaluatorAnswer(a)
    PROVE  Moved
<1> DEFINE c == IF pc[a] = "review1" THEN 1 ELSE 2
           row == EvaluatorRow(a, 1, c)
           again == EvaluatorRow(a, 1, 2)
<1>1. /\ pc[a] \in {"review1", "review2"}
      /\ \/ /\ inv[row] = "running" /\ inv' = [inv EXCEPT ![row] = "completed"] /\ Goto(a, "decide")
            /\ \E v \in Verdict : verdict' = [verdict EXCEPT ![a] = v]
         \/ /\ c = 1 /\ inv[row] = "running" /\ attempt[a] = "running"
            /\ inv' = [[inv EXCEPT ![row] = "invalid"] EXCEPT ![again] = "running"]
            /\ Goto(a, "review2") /\ verdict' = verdict
         \/ /\ inv' = IF inv[row] = "running" THEN [inv EXCEPT ![row] = "failed"] ELSE inv
            /\ Goto(a, "succeed") /\ verdict' = verdict
      /\ UNCHANGED <<turn, attempt, decision, jobVars, stalls>>
  BY AttemptFacts DEF EvaluatorAnswer, CanComplete, CanFail, Completed, Failed, OwnerActive
<1>2. c \in 1..2 /\ (c = 1 => pc[a] = "review1")  OBVIOUS
<1> HIDE DEF c
<1>3. row \in Row /\ OwnerOf(row) = a /\ again \in Row /\ OwnerOf(again) = a
  <2>1. 2 \in 1..2  OBVIOUS
  <2> QED  BY <1>2, <2>1, RowFacts
<1>4. c = 1 => again # row
  <2>1. EvaluatorRow(a, 1, c) = EvaluatorRow(a, 1, 2) => c = 2  BY RowsDiffer
  <2> QED  BY <2>1
<1>5. /\ inv \in [Row -> RowStatus] /\ decision \in [Request -> Verdict \cup {"none"}]
      /\ verdict \in [Attempt -> Verdict \cup {"none"}] /\ pc \in [Attempt -> Handler] /\ Placed(a)
  BY DEF Attempts, LedgerTypeOK, HandlerTypes
<1>6. c = 1 => inv[again] = "none"  BY <1>2, <1>5 DEF Placed
<1>7. ~IsSummary(a)  BY <1>1, <1>5 DEF Placed
<1> HIDE DEF row, again
<1>8. CASE /\ inv[row] = "running" /\ inv' = [inv EXCEPT ![row] = "completed"] /\ Goto(a, "decide")
           /\ \E v \in Verdict : verdict' = [verdict EXCEPT ![a] = v]
  <2>1. /\ inv' \in [Row -> RowStatus] /\ inv'[row] = "completed"
        /\ \A r \in Row : r # row => inv'[r] = inv[r]
    <3>1. "completed" \in RowStatus  BY DEF RowStatus
    <3> QED  BY <1>3, <1>5, <1>8, <3>1, RowWritten
  <2>2. /\ verdict' \in [Attempt -> Verdict \cup {"none"}] /\ verdict'[a] \in Verdict
        /\ \A b \in Attempt \ {a} : verdict'[b] = verdict[b]
    BY <1>5, <1>8
  <2>3. Opens(a) /\ SettledStay  BY <1>3, <1>8, <2>1 DEF Opens, SettledStay, Settled
  <2>4. pc'[a] = "decide" /\ \A b \in Attempt \ {a} : pc'[b] = pc[b]  BY <1>5, <1>8 DEF Goto
  <2>5. Placed(a)'  BY <1>1, <1>5, <1>7, <2>2, <2>4 DEF Placed, IsSummary, jobVars
  <2>6. "decide" \in Handler  BY DEF Handler
  <2>7. \A r \in Row : inv'[r] = "running" => inv[r] = "running" \/ attempt[a] \in {"running", "expired"}
    BY <2>1
  <2>8. Attempts'  BY <1>1, <1>5, <1>8, <2>1, <2>2, <2>3, <2>5, <2>6, <2>7, HandlerMoves DEF jobVars
  <2> QED  BY <1>1, <2>3, <2>4, <2>8, MovedByHandler DEF jobVars
<1>9. CASE /\ c = 1 /\ inv[row] = "running" /\ attempt[a] = "running"
           /\ inv' = [[inv EXCEPT ![row] = "invalid"] EXCEPT ![again] = "running"]
           /\ Goto(a, "review2") /\ verdict' = verdict
  <2>1. /\ inv' \in [Row -> RowStatus] /\ inv'[row] = "invalid" /\ inv'[again] = "running"
        /\ \A r \in Row : r # row /\ r # again => inv'[r] = inv[r]
    <3> DEFINE mid == [inv EXCEPT ![row] = "invalid"]
    <3>1. /\ mid \in [Row -> RowStatus] /\ mid[row] = "invalid"
          /\ \A r \in Row : r # row => mid[r] = inv[r]
      BY <1>3, <1>5 DEF RowStatus
    <3>2. inv' = [mid EXCEPT ![again] = "running"]  BY <1>9
    <3> HIDE DEF mid
    <3> QED  BY <1>3, <1>4, <1>9, <3>1, <3>2 DEF RowStatus
  <2>2. Opens(a) /\ SettledStay  BY <1>3, <1>6, <1>9, <2>1 DEF Opens, SettledStay, Settled
  <2>3. pc'[a] = "review2" /\ \A b \in Attempt \ {a} : pc'[b] = pc[b]  BY <1>5, <1>9 DEF Goto
  <2>4. Placed(a)'  BY <1>1, <1>5, <1>7, <2>3 DEF Placed, IsSummary, jobVars
  <2>5. "review2" \in Handler  BY DEF Handler
  <2>6. Attempts'  BY <1>1, <1>5, <1>9, <2>1, <2>2, <2>4, <2>5, HandlerMoves DEF jobVars
  <2> QED  BY <1>1, <2>2, <2>3, <2>6, MovedByHandler DEF jobVars
<1>10. CASE /\ inv' = IF inv[row] = "running" THEN [inv EXCEPT ![row] = "failed"] ELSE inv
            /\ Goto(a, "succeed") /\ verdict' = verdict
  <2>1. /\ inv' \in [Row -> RowStatus]
        /\ \A r \in Row : r # row => inv'[r] = inv[r]
        /\ inv'[row] # inv[row] => inv[row] = "running"
        /\ inv'[row] = "running" => inv[row] = "running"
    BY <1>3, <1>5, <1>10 DEF RowStatus
  <2>2. Opens(a) /\ SettledStay  BY <1>3, <2>1 DEF Opens, SettledStay, Settled
  <2>3. pc'[a] = "succeed" /\ \A b \in Attempt \ {a} : pc'[b] = pc[b]  BY <1>5, <1>10 DEF Goto
  <2>4. Placed(a)'  BY <1>1, <1>5, <1>7, <2>3 DEF Placed, IsSummary, jobVars
  <2>5. "succeed" \in Handler  BY DEF Handler
  <2>6. \A r \in Row : inv'[r] = "running" => inv[r] = "running" \/ attempt[a] \in {"running", "expired"}
    BY <2>1
  <2>7. Attempts'  BY <1>1, <1>5, <1>10, <2>1, <2>2, <2>4, <2>5, <2>6, HandlerMoves DEF jobVars
  <2> QED  BY <1>1, <2>2, <2>3, <2>7, MovedByHandler DEF jobVars
<1> QED  BY <1>1, <1>8, <1>9, <1>10

(* The decision is written or it is not.                                    *)
LEMMA CommitDecisionSound ==
    ASSUME Attempts, NEW a \in Attempt, CommitDecision(a)
    PROVE  Moved
<1>1. /\ pc[a] = "decide" /\ verdict' = [verdict EXCEPT ![a] = "none"] /\ inv' = inv
      /\ UNCHANGED <<turn, attempt, jobVars, stalls>>
  BY DEF CommitDecision
<1>2. \E where \in {"succeed", "fail"} : Goto(a, where)  BY DEF CommitDecision
<1>3. PICK where \in {"succeed", "fail"} : Goto(a, where)  BY <1>2
<1>4. decision' = [decision EXCEPT ![<<a, 1>>] = verdict[a]] \/ decision' = decision
  BY DEF CommitDecision, WithDecision, Decided
<1>5. /\ inv \in [Row -> RowStatus] /\ decision \in [Request -> Verdict \cup {"none"}]
      /\ verdict \in [Attempt -> Verdict \cup {"none"}] /\ pc \in [Attempt -> Handler] /\ Placed(a)
  BY DEF Attempts, LedgerTypeOK, HandlerTypes
<1>6. /\ decision' \in [Request -> Verdict \cup {"none"}]
      /\ verdict' \in [Attempt -> Verdict \cup {"none"}]
      /\ \A b \in Attempt \ {a} : verdict'[b] = verdict[b]
  BY <1>1, <1>4, <1>5
<1>7. Opens(a) /\ SettledStay  BY <1>1 DEF Opens, SettledStay
<1>8. pc'[a] = where /\ \A b \in Attempt \ {a} : pc'[b] = pc[b]  BY <1>3, <1>5 DEF Goto
<1>9. Placed(a)'  BY <1>1, <1>3, <1>5, <1>8 DEF Placed, IsSummary, jobVars
<1>10. where \in Handler  BY <1>3 DEF Handler
<1>11. Attempts'  BY <1>1, <1>3, <1>5, <1>6, <1>7, <1>9, <1>10, HandlerMoves DEF jobVars
<1> QED  BY <1>1, <1>7, <1>8, <1>11, MovedByHandler DEF jobVars

-----------------------------------------------------------------------------
(***************************************************************************)
(* Attempts begin and end.                                                  *)
(***************************************************************************)

(* An attempt is over: what it left open is aborted, the others stay.       *)
LEMMA OthersStayPlaced ==
    ASSUME Attempts, NEW b \in Attempt, pc'[b] = pc[b], verdict' = verdict,
           \A row \in Row : inv[row] # "running" => inv'[row] = inv[row],
           job[b[1]] # "absent" => job'[b[1]] # "absent"
    PROVE  Placed(b)'
<1>1. Placed(b)  BY DEF Attempts
<1>2. SummaryRow(b, 1) \in Row /\ SummaryRow(b, 2) \in Row /\ EvaluatorRow(b, 1, 2) \in Row
  <2>1. 1 \in 1..2 /\ 2 \in 1..2  OBVIOUS
  <2> QED  BY <2>1, RowFacts
<1>3. \A row \in Row : inv[row] = "none" => inv'[row] = "none"  OBVIOUS
<1> QED  BY <1>1, <1>2, <1>3 DEF Placed, IsSummary

LEMMA FailExpiredSound ==
    ASSUME Attempts, NEW j \in Job, FailExpired(j)
    PROVE  Moved
<1> DEFINE a == <<j, tries[j]>>
<1>1. /\ tries[j] > 0 /\ attempt[a] = "expired" /\ attempt' = [attempt EXCEPT ![a] = "ended"]
      /\ inv' = Orphaned(a) /\ job' = [job EXCEPT ![j] = "failed"]
      /\ UNCHANGED <<turn, decision, workload, linked, tries, busy, pc, verdict, stalls>>
  BY DEF FailExpired, Exhausted, Expired
<1>2. LedgerTypeOK /\ JobTypes /\ HandlerTypes  BY DEF Attempts
<1>3. tries[j] \in 1..MaxAttempts  BY <1>1, <1>2 DEF JobTypes
<1>4. a \in Attempt /\ a[1] = j  BY <1>3, PairFacts
<1>5. job[j] = "running"  BY <1>1, <1>3 DEF Attempts, Numbered, NumberedAt
<1> HIDE DEF a
<1>6. inv \in [Row -> RowStatus]  BY <1>2 DEF LedgerTypeOK
<1>7. /\ inv' \in [Row -> RowStatus]
      /\ \A row \in Row : inv[row] # "running" => inv'[row] = inv[row]
      /\ \A row \in Row : inv'[row] = "running" => inv[row] = "running" /\ OwnerOf(row) # a
  BY <1>1, <1>6, OrphanedFacts
<1>8. /\ attempt' \in [Attempt -> {"none", "running", "expired", "ended"}]
      /\ attempt'[a] = "ended" /\ \A b \in Attempt \ {a} : attempt'[b] = attempt[b]
  BY <1>1, <1>2, <1>4 DEF LedgerTypeOK
<1>9. /\ job' \in [Job -> JobStatus] /\ job'[j] = "failed" /\ \A k \in Job \ {j} : job'[k] = job[k]
  BY <1>1, <1>2 DEF JobTypes, JobStatus
<1>10. LedgerTypeOK'  BY <1>1, <1>2, <1>7, <1>8 DEF LedgerTypeOK
<1>11. JobTypes' /\ HandlerTypes'  BY <1>1, <1>2, <1>9 DEF JobTypes, HandlerTypes
<1>12. NoOrphanCalls'
  <2>1. ASSUME NEW row \in Row, inv'[row] = "running"
        PROVE  attempt'[OwnerOf(row)] \in {"running", "expired"}
    <3>1. inv[row] = "running" /\ OwnerOf(row) # a  BY <1>7, <2>1
    <3>2. attempt[OwnerOf(row)] \in {"running", "expired"}  BY <3>1, RowOwner DEF Attempts, NoOrphanCalls
    <3> QED  BY <1>8, <3>1, <3>2, RowOwner
  <2> QED  BY <2>1, RowOwner DEF NoOrphanCalls
<1>13. Numbered'
  <2>1. ASSUME NEW i \in Job, NEW k \in 1..MaxAttempts  PROVE NumberedAt(i, k)'
    <3>1. NumberedAt(i, k) /\ <<i, k>> \in Attempt  BY PairFacts DEF Attempts, Numbered
    <3>2. i = j => <<i, k>> = a \/ k # tries[j]  BY DEF a
    <3>3. <<i, k>> # a => attempt'[<<i, k>>] = attempt[<<i, k>>]  BY <1>8, <3>1
    <3>4. attempt'[<<i, k>>] \in {"running", "expired"} => i # j
      BY <1>8, <3>1, <3>2, <3>3 DEF NumberedAt
    <3> QED  BY <1>1, <1>8, <1>9, <3>1, <3>3, <3>4 DEF NumberedAt
  <2> QED  BY <2>1 DEF Numbered
<1>14. ASSUME NEW b \in Attempt  PROVE Placed(b)'
  <2>1. job[b[1]] # "absent" => job'[b[1]] # "absent"  BY <1>5, <1>9, AttemptFacts
  <2> QED  BY <1>1, <1>7, <2>1, OthersStayPlaced
<1>15. Attempts'  BY <1>10, <1>11, <1>12, <1>13, <1>14 DEF Attempts
<1>16. SettledStay  BY <1>7 DEF SettledStay, Settled
<1>17. Onward  BY <1>1 DEF Onward
<1>18. JobsGo  BY <1>5, <1>9 DEF JobsGo, Job
<1> QED  BY <1>15, <1>16, <1>17, <1>18 DEF Moved

LEMMA LeaseLapsesSound ==
    ASSUME Attempts, LeaseLapses
    PROVE  Moved
<1>1. /\ busy # None /\ attempt[busy] = "running" /\ attempt' = [attempt EXCEPT ![busy] = "expired"]
      /\ busy' = None /\ stalls < MaxStalls /\ stalls' = stalls + 1
      /\ UNCHANGED <<turn, inv, decision, workload, linked, job, tries, pc, verdict>>
  BY DEF LeaseLapses
<1>2. LedgerTypeOK /\ JobTypes /\ HandlerTypes  BY DEF Attempts
<1>3. busy \in Attempt  BY <1>1, <1>2 DEF JobTypes
<1>4. /\ attempt' \in [Attempt -> {"none", "running", "expired", "ended"}]
      /\ attempt'[busy] = "expired" /\ \A b \in Attempt \ {busy} : attempt'[b] = attempt[b]
  BY <1>1, <1>2, <1>3 DEF LedgerTypeOK
<1>5. LedgerTypeOK'  BY <1>1, <1>2, <1>4 DEF LedgerTypeOK
<1>6. JobTypes' /\ HandlerTypes'
  <2>1. stalls' \in 0..MaxStalls  BY <1>1, <1>2 DEF JobTypes
  <2> QED  BY <1>1, <1>2, <2>1 DEF JobTypes, HandlerTypes
<1>7. \A b \in Attempt : attempt'[b] \in {"running", "expired"} <=> attempt[b] \in {"running", "expired"}
  BY <1>1, <1>3, <1>4
<1>8. NoOrphanCalls'  BY <1>1, <1>7, RowOwner DEF Attempts, NoOrphanCalls
<1>9. Numbered'
  <2>1. ASSUME NEW i \in Job, NEW k \in 1..MaxAttempts  PROVE NumberedAt(i, k)'
    <3>1. NumberedAt(i, k) /\ <<i, k>> \in Attempt  BY PairFacts DEF Attempts, Numbered
    <3> QED  BY <1>1, <1>7, <3>1 DEF NumberedAt
  <2> QED  BY <2>1 DEF Numbered
<1>10. ASSUME NEW b \in Attempt  PROVE Placed(b)'  BY <1>1, OthersStayPlaced
<1>11. Attempts'  BY <1>5, <1>6, <1>8, <1>9, <1>10 DEF Attempts
<1> QED  BY <1>1, <1>11 DEF Moved, SettledStay, Onward, JobsGo, Job

LEMMA SettleSound ==
    ASSUME Attempts, NEW a \in Attempt, Settle(a)
    PROVE  Moved
<1>1. /\ pc[a] \in {"succeed", "fail"} /\ Goto(a, "done")
      /\ UNCHANGED <<turn, decision, workload, linked, tries, verdict, stalls>>
  BY DEF Settle
<1>2. LedgerTypeOK /\ JobTypes /\ HandlerTypes  BY DEF Attempts
<1>3. CASE attempt[a] # "running"
  <2>1. attempt' = attempt /\ inv' = inv /\ job' = job /\ busy' = busy
    BY <1>3, AttemptFacts DEF Settle, OwnerActive
  <2>2. "done" \in Handler  BY DEF Handler
  <2> QED  BY <1>1, <2>1, <2>2, QuietMoves, MovedByHandler
<1>4. CASE attempt[a] = "running"
  <2>1. PICK s \in {"completed", "pending", "failed"} :
          /\ attempt' = [attempt EXCEPT ![a] = "ended"] /\ inv' = Orphaned(a)
          /\ job' = [job EXCEPT ![a[1]] = s] /\ busy' = None
    BY <1>4, AttemptFacts DEF Settle, OwnerActive, RetryOrFail
  <2>2. a[1] \in Job /\ a[2] \in 1..MaxAttempts /\ a = <<a[1], a[2]>>  BY AttemptFacts
  <2>3. job[a[1]] = "running" /\ a[2] = tries[a[1]]  BY <1>4, <2>2 DEF Attempts, Numbered, NumberedAt
  <2>4. inv \in [Row -> RowStatus]  BY <1>2 DEF LedgerTypeOK
  <2>5. /\ inv' \in [Row -> RowStatus]
        /\ \A row \in Row : inv[row] # "running" => inv'[row] = inv[row]
        /\ \A row \in Row : inv'[row] = "running" => inv[row] = "running" /\ OwnerOf(row) # a
    BY <2>1, <2>4, OrphanedFacts
  <2>6. /\ attempt' \in [Attempt -> {"none", "running", "expired", "ended"}]
        /\ attempt'[a] = "ended" /\ \A b \in Attempt \ {a} : attempt'[b] = attempt[b]
    BY <1>2, <2>1 DEF LedgerTypeOK
  <2>7. /\ job' \in [Job -> JobStatus] /\ job'[a[1]] = s /\ \A k \in Job \ {a[1]} : job'[k] = job[k]
    BY <1>2, <2>1, <2>2 DEF JobTypes, JobStatus
  <2>8. pc' \in [Attempt -> Handler] /\ pc'[a] = "done" /\ \A b \in Attempt \ {a} : pc'[b] = pc[b]
    BY <1>1, <1>2 DEF HandlerTypes, Goto, Handler
  <2>9. LedgerTypeOK'  BY <1>1, <1>2, <2>5, <2>6 DEF LedgerTypeOK
  <2>10. JobTypes' /\ HandlerTypes'  BY <1>1, <1>2, <2>1, <2>7, <2>8 DEF JobTypes, HandlerTypes
  <2>11. NoOrphanCalls'
    <3>1. ASSUME NEW row \in Row, inv'[row] = "running"
          PROVE  attempt'[OwnerOf(row)] \in {"running", "expired"}
      <4>1. inv[row] = "running" /\ OwnerOf(row) # a  BY <2>5, <3>1
      <4>2. attempt[OwnerOf(row)] \in {"running", "expired"}
        BY <4>1, RowOwner DEF Attempts, NoOrphanCalls
      <4> QED  BY <2>6, <4>1, <4>2, RowOwner
    <3> QED  BY <3>1, RowOwner DEF NoOrphanCalls
  <2>12. Numbered'
    <3>1. ASSUME NEW i \in Job, NEW k \in 1..MaxAttempts  PROVE NumberedAt(i, k)'
      <4>1. NumberedAt(i, k) /\ <<i, k>> \in Attempt  BY PairFacts DEF Attempts, Numbered
      <4>2. i = a[1] => <<i, k>> = a \/ k # tries[i]  BY <2>2, <2>3
      <4>3. <<i, k>> # a => attempt'[<<i, k>>] = attempt[<<i, k>>]  BY <2>6, <4>1
      <4>4. attempt'[<<i, k>>] \in {"running", "expired"} => i # a[1]
        BY <2>6, <4>1, <4>2, <4>3 DEF NumberedAt
      <4>5. pc[<<i, k>>] = "none" => pc'[<<i, k>>] = "none"  BY <1>1, <2>8, <4>1
      <4> QED  BY <1>1, <2>6, <2>7, <4>1, <4>3, <4>4, <4>5 DEF NumberedAt
    <3> QED  BY <3>1 DEF Numbered
  <2>13. ASSUME NEW b \in Attempt  PROVE Placed(b)'
    <3>1. job[b[1]] # "absent" => job'[b[1]] # "absent"  BY <2>7, AttemptFacts
    <3>2. CASE b # a  BY <1>1, <2>5, <2>8, <3>1, <3>2, OthersStayPlaced
    <3>3. CASE b = a  BY <2>7, <2>8, <3>3 DEF Placed
    <3> QED  BY <3>2, <3>3
  <2>14. Attempts'  BY <2>9, <2>10, <2>11, <2>12, <2>13 DEF Attempts
  <2>15. SettledStay  BY <2>5 DEF SettledStay, Settled
  <2>16. Onward
    <3>1. \A b \in Attempt : b # a => pc'[b] = pc[b]  BY <2>8
    <3> QED  BY <2>8, <3>1 DEF Onward
  <2>17. JobsGo  BY <2>2, <2>3, <2>7 DEF JobsGo, Job
  <2> QED  BY <2>14, <2>15, <2>16, <2>17 DEF Moved
<1> QED  BY <1>3, <1>4

LEMMA ClaimSound ==
    ASSUME Attempts, NEW j \in Job, Claim(j)
    PROVE  Moved
<1> DEFINE n == tries[j] + 1
           a == <<j, n>>
           old == <<j, tries[j]>>
<1>1. /\ tries[j] < MaxAttempts
      /\ job[j] = "pending" \/ Expired(j)
      /\ job' = [job EXCEPT ![j] = "running"] /\ tries' = [tries EXCEPT ![j] = @ + 1]
      /\ attempt' = [b \in Attempt |-> IF b = a THEN "running"
                                       ELSE IF b[1] = j /\ attempt[b] = "expired" THEN "ended"
                                       ELSE attempt[b]]
      /\ inv' = IF Expired(j) THEN Orphaned(old) ELSE inv
      /\ busy' = a /\ Goto(a, "begin")
      /\ UNCHANGED <<turn, decision, workload, linked, verdict, stalls>>
  BY DEF Claim
<1>2. LedgerTypeOK /\ JobTypes /\ HandlerTypes  BY DEF Attempts
<1>3. tries[j] \in 0..MaxAttempts /\ n \in 1..MaxAttempts /\ n > tries[j]
  BY <1>1, <1>2 DEF JobTypes
<1>4. a \in Attempt /\ a[1] = j  BY <1>3, PairFacts
<1>5. pc[a] = "none"  BY <1>3 DEF Attempts, Numbered, NumberedAt
<1>6. job[j] \in {"pending", "running"} /\ (job[j] = "running" => Expired(j))
  <2>1. CASE job[j] = "pending"  BY <2>1
  <2>2. CASE Expired(j)
    <3>1. tries[j] \in 1..MaxAttempts /\ attempt[<<j, tries[j]>>] = "expired"  BY <1>3, <2>2 DEF Expired
    <3>2. job[j] = "running"  BY <3>1 DEF Attempts, Numbered, NumberedAt
    <3> QED  BY <2>2, <3>2
  <2> QED  BY <1>1, <2>1, <2>2
<1>7. ASSUME NEW b \in Attempt, b[1] = j, attempt[b] \in {"running", "expired"}
      PROVE  Expired(j) /\ b = old /\ attempt[b] = "expired"
  <2>1. b = <<j, b[2]>> /\ b[2] \in 1..MaxAttempts  BY <1>7, AttemptFacts
  <2>2. b[2] = tries[j] /\ job[j] = "running"  BY <1>7, <2>1 DEF Attempts, Numbered, NumberedAt
  <2> QED  BY <1>6, <2>1, <2>2 DEF Expired
<1> HIDE DEF a, n, old
<1>8. inv \in [Row -> RowStatus]  BY <1>2 DEF LedgerTypeOK
<1>9. /\ inv' \in [Row -> RowStatus]
      /\ \A row \in Row : inv[row] # "running" => inv'[row] = inv[row]
      /\ \A row \in Row : inv'[row] = "running" => inv[row] = "running"
      /\ Expired(j) => \A row \in Row : inv'[row] = "running" => OwnerOf(row) # old
  <2>1. CASE Expired(j)
    <3>1. inv' = Orphaned(old)  BY <1>1, <2>1
    <3> QED  BY <1>8, <3>1, OrphanedFacts
  <2>2. CASE ~Expired(j)  BY <1>1, <1>8, <2>2
  <2> QED  BY <2>1, <2>2
<1>10. /\ attempt' \in [Attempt -> {"none", "running", "expired", "ended"}]
       /\ attempt'[a] = "running"
       /\ \A b \in Attempt : b[1] # j => attempt'[b] = attempt[b]
       /\ \A b \in Attempt : b[1] = j /\ b # a => attempt'[b] \notin {"running", "expired"}
  <2>1. ASSUME NEW b \in Attempt
        PROVE  attempt'[b] = IF b = a THEN "running"
                             ELSE IF b[1] = j /\ attempt[b] = "expired" THEN "ended" ELSE attempt[b]
    BY <1>1
  <2>2. attempt' \in [Attempt -> {"none", "running", "expired", "ended"}]
    <3>1. \A b \in Attempt : attempt[b] \in {"none", "running", "expired", "ended"}
      BY <1>2 DEF LedgerTypeOK
    <3> QED  BY <1>1, <3>1
  <2>3. attempt'[a] = "running"  BY <1>4, <2>1
  <2>4. \A b \in Attempt : b[1] # j => attempt'[b] = attempt[b]  BY <1>4, <2>1
  <2>5. ASSUME NEW b \in Attempt, b[1] = j, b # a  PROVE attempt'[b] \notin {"running", "expired"}
    BY <1>7, <2>1, <2>5
  <2> QED  BY <2>2, <2>3, <2>4, <2>5
<1>11. /\ job' \in [Job -> JobStatus] /\ job'[j] = "running" /\ \A k \in Job \ {j} : job'[k] = job[k]
  BY <1>1, <1>2 DEF JobTypes, JobStatus
<1>12. /\ tries' \in [Job -> 0..MaxAttempts] /\ tries'[j] = n /\ \A k \in Job \ {j} : tries'[k] = tries[k]
  BY <1>1, <1>2, <1>3 DEF JobTypes, n
<1>13. pc' \in [Attempt -> Handler] /\ pc'[a] = "begin" /\ \A b \in Attempt \ {a} : pc'[b] = pc[b]
  BY <1>1, <1>2, <1>4 DEF HandlerTypes, Goto, Handler
<1>14. LedgerTypeOK'  BY <1>1, <1>2, <1>9, <1>10 DEF LedgerTypeOK
<1>15. JobTypes' /\ HandlerTypes'
  BY <1>1, <1>2, <1>4, <1>11, <1>12, <1>13 DEF JobTypes, HandlerTypes
<1>16. NoOrphanCalls'
  <2>1. ASSUME NEW row \in Row, inv'[row] = "running"
        PROVE  attempt'[OwnerOf(row)] \in {"running", "expired"}
    <3> DEFINE b == OwnerOf(row)
    <3>1. b \in Attempt /\ attempt[b] \in {"running", "expired"}
      BY <1>9, <2>1, RowOwner DEF Attempts, NoOrphanCalls
    <3>2. b[1] # j  BY <1>7, <1>9, <2>1, <3>1
    <3> QED  BY <1>10, <3>1, <3>2
  <2> QED  BY <2>1, RowOwner DEF NoOrphanCalls
<1>17. Numbered'
  <2>1. ASSUME NEW i \in Job, NEW k \in 1..MaxAttempts  PROVE NumberedAt(i, k)'
    <3>1. NumberedAt(i, k) /\ <<i, k>> \in Attempt /\ <<i, k>>[1] = i
      BY PairFacts DEF Attempts, Numbered
    <3>2. CASE i # j
      <4>1. <<i, k>> # a  BY <1>4, <3>1, <3>2
      <4> QED  BY <1>10, <1>11, <1>12, <1>13, <3>1, <3>2, <4>1 DEF NumberedAt
    <3>3. CASE i = j /\ k = n
      BY <1>11, <1>12, <1>3, <3>3 DEF NumberedAt
    <3>4. CASE i = j /\ k # n
      <4>1. <<i, k>> # a  BY <3>4 DEF a
      <4>2. attempt'[<<i, k>>] \notin {"running", "expired"}  BY <1>10, <3>1, <3>4, <4>1
      <4>3. k > n => k > tries[j]  BY <1>3
      <4> QED  BY <1>12, <1>13, <3>1, <3>4, <4>1, <4>2, <4>3 DEF NumberedAt
    <3> QED  BY <3>2, <3>3, <3>4
  <2> QED  BY <2>1 DEF Numbered
<1>18. ASSUME NEW b \in Attempt  PROVE Placed(b)'
  <2>1. job[b[1]] # "absent" => job'[b[1]] # "absent"  BY <1>11, AttemptFacts
  <2>2. CASE b # a
    <3>1. pc'[b] = pc[b]  BY <1>13, <2>2
    <3> QED  BY <1>1, <1>9, <2>1, <3>1, OthersStayPlaced
  <2>3. CASE b = a
    <3>1. Placed(a)  BY <1>4 DEF Attempts
    <3>2. SummaryRow(a, 1) \in Row /\ SummaryRow(a, 2) \in Row /\ EvaluatorRow(a, 1, 2) \in Row
      <4>1. 1 \in 1..2 /\ 2 \in 1..2  OBVIOUS
      <4> QED  BY <1>4, <4>1, RowFacts
    <3>3. /\ inv'[SummaryRow(a, 1)] = "none" /\ inv'[SummaryRow(a, 2)] = "none"
          /\ inv'[EvaluatorRow(a, 1, 2)] = "none"
      BY <1>5, <1>9, <3>1, <3>2 DEF Placed
    <3>4. job'[a[1]] # "absent"  BY <1>4, <1>11
    <3> QED  BY <1>13, <2>3, <3>3, <3>4 DEF Placed
  <2> QED  BY <2>2, <2>3
<1>19. Attempts'  BY <1>14, <1>15, <1>16, <1>17, <1>18 DEF Attempts
<1>20. SettledStay  BY <1>9 DEF SettledStay, Settled
<1>21. Onward
  <2>1. \A b \in Attempt : b # a => pc'[b] = pc[b]  BY <1>13
  <2> QED  BY <1>5, <1>13, <2>1 DEF Onward
<1>22. JobsGo  BY <1>6, <1>11 DEF JobsGo, Job
<1> QED  BY <1>19, <1>20, <1>21, <1>22 DEF Moved

-----------------------------------------------------------------------------
(***************************************************************************)
(* The group: messages, policy, plans, windows.                             *)
(***************************************************************************)

(* What the summaries say does not depend on which attempt a job is at.     *)
LEMMA SummariesKept ==
    ASSUME Summaries, JobsGo,
           clock' = clock, created' = created, arrived' = arrived, policy' = policy,
           plan' = plan, bind' = bind, stored' = stored
    PROVE  Summaries'
<1>1. PolicyTypes' /\ WindowTypes'  BY DEF Summaries, PolicyTypes, WindowTypes
<1>2. Policed'  BY DEF Summaries, Policed, Ingested
<1>3. Bindings'  BY DEF Summaries, Bindings, JobsGo
<1>4. Bound' = Bound  BY DEF Bound
<1>5. WindowsApart' /\ FromJobs'  BY <1>4 DEF Summaries, WindowsApart, FromJobs
<1> QED  BY <1>1, <1>2, <1>3, <1>5 DEF Summaries

LEMMA TickKeepsSummaries ==
    ASSUME Summaries, Tick
    PROVE  Summaries'
<1>1. clock \in 0..MaxClock  BY DEF Summaries, PolicyTypes
<1>2. clock' \in 0..MaxClock /\ UNCHANGED <<created, arrived, policy, plan, bind, stored, job>>
  BY <1>1 DEF Tick, jobVars, effectVars
<1>3. PolicyTypes' /\ WindowTypes'  BY <1>2 DEF Summaries, PolicyTypes, WindowTypes
<1>4. Policed'  BY <1>2 DEF Summaries, Policed, Ingested
<1>5. Bindings'  BY <1>2 DEF Summaries, Bindings
<1>6. Bound' = Bound  BY <1>2 DEF Bound
<1>7. WindowsApart' /\ FromJobs'  BY <1>2, <1>6 DEF Summaries, WindowsApart, FromJobs
<1> QED  BY <1>3, <1>4, <1>5, <1>7 DEF Summaries

(* A message comes: it is the latest of all.                                *)
LEMMA IngestKeepsSummaries ==
    ASSUME Summaries, NEW m \in Message, Ingest(m)
    PROVE  Summaries'
<1>1. /\ created[m] = None /\ \A k \in Message : k < m => created[k] # None
      /\ created' = [created EXCEPT ![m] = clock]
      /\ arrived' = [arrived EXCEPT ![m] = IF policy.enabled THEN policy.gen ELSE 0]
      /\ UNCHANGED <<clock, policy, plan, bind, stored, job>>
  BY DEF Ingest, jobVars, effectVars
<1>2. PolicyTypes /\ WindowTypes  BY DEF Summaries
<1>3. clock \in Time /\ clock <= MaxClock /\ clock # None
  <2>1. clock \in 0..MaxClock  BY <1>2 DEF PolicyTypes
  <2>2. clock \in Time /\ clock \in Nat  BY <2>1 DEF Time
  <2>3. None \notin Nat  OBVIOUS
  <2> QED  BY <2>1, <2>2, <2>3
<1>4. /\ created' \in [Message -> Time \cup {None}] /\ created'[m] = clock
      /\ \A k \in Message \ {m} : created'[k] = created[k]
  BY <1>1, <1>2, <1>3 DEF PolicyTypes
<1>5. /\ arrived' \in [Message -> 0..MaxGeneration]
      /\ arrived'[m] = (IF policy.enabled THEN policy.gen ELSE 0)
      /\ \A k \in Message \ {m} : arrived'[k] = arrived[k]
  BY <1>1, <1>2 DEF PolicyTypes
<1>6. PolicyTypes' /\ WindowTypes'  BY <1>1, <1>2, <1>4, <1>5 DEF PolicyTypes, WindowTypes
<1>7. Ingested' = Ingested \cup {m}  BY <1>3, <1>4 DEF Ingested
<1>8. Policed'
  <2>1. ASSUME NEW x \in Ingested'
        PROVE  /\ created'[x] <= MaxClock
               /\ \A k \in Message : k < x => created'[k] # None
               /\ policy'.enabled /\ created'[x] >= policy'.after => arrived'[x] = policy'.gen
    <3>1. CASE x = m  BY <1>1, <1>3, <1>4, <1>5, <3>1
    <3>2. CASE x # m
      <4>1. x \in Ingested /\ created'[x] = created[x] /\ arrived'[x] = arrived[x]
        BY <1>4, <1>5, <1>7, <2>1, <3>2 DEF Ingested
      <4> QED  BY <1>1, <1>3, <1>4, <4>1 DEF Summaries, Policed
    <3> QED  BY <3>1, <3>2
  <2> QED  BY <1>1, <2>1 DEF Summaries, Policed
<1>9. Bindings'
  <2>1. ASSUME NEW j \in SummaryJob, bind[j] # None, NEW x \in bind[j].window
        PROVE  created'[x] # None /\ arrived'[x] = bind[j].gen
    <3>1. created[x] # None /\ arrived[x] = bind[j].gen  BY <2>1 DEF Summaries, Bindings
    <3>2. x \in Message  BY <1>2, <2>1 DEF WindowTypes, BindingRow, Window
    <3> QED  BY <1>1, <1>4, <1>5, <3>1, <3>2
  <2> QED  BY <1>1, <2>1 DEF Summaries, Bindings
<1>10. Bound' = Bound  BY <1>1 DEF Bound
<1>11. WindowsApart' /\ FromJobs'  BY <1>1, <1>10 DEF Summaries, WindowsApart, FromJobs
<1> QED  BY <1>6, <1>8, <1>9, <1>11 DEF Summaries

(* The policy changes: a new epoch begins after everything said so far.     *)
LEMMA SetEnabledKeepsSummaries ==
    ASSUME Summaries, NEW on \in BOOLEAN, SetEnabled(on)
    PROVE  Summaries'
<1> DEFINE canceled == CanceledBy(on)
           now == [enabled |-> on, gen |-> policy.gen + 1, updated |-> TransitionTime,
                   after |-> IF on THEN TransitionTime ELSE 0]
<1>1. /\ policy.enabled # on /\ policy.gen < MaxGeneration /\ policy' = now
      /\ job' = [j \in Job |-> IF j \in canceled THEN "failed" ELSE job[j]]
      /\ bind' = [j \in SummaryJob |->
                     IF j \in canceled THEN [bind[j] EXCEPT !.canceled = TRUE] ELSE bind[j]]
      /\ UNCHANGED <<clock, created, arrived, plan, stored>>
  BY DEF SetEnabled, effectVars
<1>2. PolicyTypes /\ WindowTypes /\ Policed  BY DEF Summaries
<1>3. policy.gen \in 0..MaxGeneration /\ policy.gen + 1 \in 0..MaxGeneration
  BY <1>1, <1>2 DEF PolicyTypes
<1>4. TransitionTime \in Time /\ 0 \in Time
  <2>1. TransitionTime \in Nat /\ TransitionTime <= MaxClock + policy.gen + 1  BY <1>2, TransitionFacts
  <2> QED  BY <1>3, <2>1 DEF Time
<1>5. /\ now.enabled = on /\ now.gen = policy.gen + 1 /\ now.updated = TransitionTime
      /\ on => now.after = TransitionTime
      /\ now \in [enabled : BOOLEAN, gen : 0..MaxGeneration, after : Time, updated : Time]
  BY <1>3, <1>4
<1> HIDE DEF now
<1>6. \A j \in canceled : j \in SummaryJob /\ ~on /\ job[j] = "pending" /\ bind[j] # None
  BY DEF CanceledBy
<1>7. ASSUME NEW j \in SummaryJob
      PROVE  /\ bind'[j] \in BindingRow \cup {None}
             /\ bind'[j] = None <=> bind[j] = None
             /\ bind[j] # None => /\ bind'[j].window = bind[j].window
                                  /\ bind'[j].gen = bind[j].gen
                                  /\ bind'[j].canceled => ~on \/ bind[j].canceled
                                  /\ bind[j].canceled => bind'[j].canceled
             /\ job'[j] = IF j \in canceled THEN "failed" ELSE job[j]
  <2>1. bind[j] \in BindingRow \cup {None} /\ None \notin BindingRow  BY <1>2 DEF WindowTypes
  <2>2. job'[j] = IF j \in canceled THEN "failed" ELSE job[j]  BY <1>1 DEF Job
  <2>3. CASE j \in canceled
    <3> DEFINE r == [bind[j] EXCEPT !.canceled = TRUE]
    <3>1. bind[j] \in BindingRow  BY <1>6, <2>1, <2>3
    <3>2. r \in BindingRow /\ r.window = bind[j].window /\ r.gen = bind[j].gen /\ r.canceled = TRUE
      BY <3>1 DEF BindingRow
    <3>3. bind'[j] = r  BY <1>1, <2>3
    <3>4. ~on /\ bind[j] # None  BY <1>6, <2>3
    <3> HIDE DEF r
    <3> QED  BY <2>1, <2>2, <3>1, <3>2, <3>3, <3>4
  <2>4. CASE j \notin canceled
    <3>1. bind'[j] = bind[j]  BY <1>1, <2>4
    <3> QED  BY <2>1, <2>2, <3>1
  <2> QED  BY <2>3, <2>4
<1>8. PolicyTypes' /\ WindowTypes'
  <2>1. bind' \in [SummaryJob -> BindingRow \cup {None}]
    <3>1. bind' = [j \in SummaryJob |-> bind'[j]]
      <4>1. DOMAIN bind' = SummaryJob  BY <1>1
      <4> QED  BY <1>1, <4>1
    <3> QED  BY <1>7, <3>1
  <2> QED  BY <1>1, <1>2, <1>5, <2>1 DEF PolicyTypes, WindowTypes
<1>9. \A m \in Ingested : created[m] \in Nat /\ created[m] < TransitionTime
  BY <1>2, TransitionFacts
<1>10. Policed'
  <2>1. Ingested' = Ingested  BY <1>1 DEF Ingested
  <2>2. policy'.updated <= MaxClock + policy'.gen
    <3>1. TransitionTime \in Nat /\ TransitionTime <= MaxClock + policy.gen + 1  BY <1>2, TransitionFacts
    <3> QED  BY <1>1, <1>3, <1>5, <3>1
  <2>3. policy'.gen >= 1  BY <1>1, <1>3, <1>5
  <2>4. \A m \in Ingested : policy'.enabled => ~(created[m] >= policy'.after)
    <3>1. \A t \in Nat : TransitionTime > t => ~(t >= TransitionTime)  BY <1>2, TransitionFacts
    <3> QED  BY <1>1, <1>5, <1>9, <3>1
  <2>5. ASSUME NEW m \in Ingested
        PROVE  created[m] <= MaxClock /\ \A k \in Message : k < m => created[k] # None
    BY DEF Summaries, Policed
  <2> QED  BY <1>1, <2>1, <2>2, <2>3, <2>4, <2>5 DEF Policed
<1>11. \A j \in SummaryJob : j \in canceled => job[j] # "absent"  BY <1>6
<1>12. Bindings'
  <2>1. ASSUME NEW j \in SummaryJob
        PROVE  /\ job'[j] = "absent" <=> bind'[j] = None
               /\ bind'[j] # None =>
                     /\ bind'[j].gen <= policy'.gen
                     /\ bind'[j].canceled => bind'[j].gen < policy'.gen
                     /\ \A m \in bind'[j].window : created'[m] # None /\ arrived'[m] = bind'[j].gen
    <3>1. job[j] = "absent" <=> bind[j] = None  BY DEF Summaries, Bindings
    <3>2. job'[j] = "absent" <=> job[j] = "absent"  BY <1>7, <1>11
    <3>3. ASSUME bind[j] # None
          PROVE  /\ bind[j].gen \in Nat /\ bind[j].gen <= policy.gen
                 /\ \A m \in bind[j].window : created[m] # None /\ arrived[m] = bind[j].gen
      <4>1. bind[j] \in BindingRow  BY <1>2, <3>3 DEF WindowTypes
      <4> QED  BY <3>3, <4>1 DEF Summaries, Bindings, BindingRow
    <3>4. bind[j] # None => bind[j].gen < policy'.gen  BY <1>1, <1>3, <1>5, <3>3
    <3>5. bind[j] # None => bind[j].gen <= policy'.gen  BY <1>1, <1>3, <1>5, <3>3
    <3> QED  BY <1>1, <1>7, <3>1, <3>2, <3>3, <3>4, <3>5
  <2> QED  BY <2>1 DEF Bindings
<1>13. Bound' = Bound /\ Bound \subseteq SummaryJob  BY <1>7 DEF Bound
<1>14. \A j \in Bound : bind'[j].window = bind[j].window /\ bind'[j].gen = bind[j].gen
  BY <1>7 DEF Bound
<1>15. WindowsApart'  BY <1>13, <1>14 DEF Summaries, WindowsApart
<1>17. FromJobs'
  <2>1. ASSUME NEW s \in stored
        PROVE  \E j \in Bound' : s = [window |-> bind'[j].window, gen |-> bind'[j].gen]
    <3>1. PICK j \in Bound : s = [window |-> bind[j].window, gen |-> bind[j].gen]
      BY DEF Summaries, FromJobs
    <3> QED  BY <1>13, <1>14, <3>1
  <2> QED  BY <1>1, <2>1 DEF FromJobs
<1> QED  BY <1>8, <1>10, <1>12, <1>15, <1>17 DEF Summaries

(* What is planned is part of what came in the epoch.                       *)
LEMMA PlanWindowKeepsSummaries ==
    ASSUME Summaries, NEW e \in Enqueuer, PlanWindow(e)
    PROVE  Summaries'
<1>1. PICK window \in Retained(Candidates(policy.after)) :
        plan' = [plan EXCEPT ![e] = [gen |-> policy.gen, after |-> policy.after, window |-> window]]
  BY Zenon DEF PlanWindow
<1> DEFINE p == [gen |-> policy.gen, after |-> policy.after, window |-> window]
<1>2. /\ policy.enabled
      /\ UNCHANGED <<clock, created, arrived, policy, job, bind, stored>>
  BY DEF PlanWindow, PlanAllowed, policyVars, jobVars, effectVars
<1>3. p \in Plan
  <2>1. policy.gen \in 1..MaxGeneration /\ policy.after \in Time
    BY <1>2 DEF Summaries, PolicyTypes, Policed
  <2>2. window \in Window
    BY <1>1 DEF Retained, Candidates, Eligible, Ingested, Window
  <2> QED  BY <2>1, <2>2 DEF Plan
<1>4. plan' = [plan EXCEPT ![e] = p]  BY <1>1
<1> HIDE DEF p
<1>5. PolicyTypes' /\ WindowTypes'  BY <1>2, <1>3, <1>4 DEF Summaries, PolicyTypes, WindowTypes
<1>6. Ingested' = Ingested /\ Bound' = Bound  BY <1>2 DEF Ingested, Bound
<1>7. Policed' /\ Bindings'  BY <1>2, <1>6 DEF Summaries, Policed, Bindings
<1>8. WindowsApart' /\ FromJobs'  BY <1>2, <1>6 DEF Summaries, WindowsApart, FromJobs
<1> QED  BY <1>5, <1>7, <1>8 DEF Summaries

(* A window is frozen: it shares no message with one frozen before.         *)
LEMMA EnqueueWindowKeepsSummaries ==
    ASSUME Summaries, job \in [Job -> JobStatus], NEW e \in Enqueuer, EnqueueWindow(e)
    PROVE  Summaries'
<1> DEFINE p == plan[e]
           fresh == {j \in SummaryJob \cap workload : job[j] = "absent"}
           new == CHOOSE j \in fresh : TRUE
           frozen == SamePolicy(p.gen, p.after) /\ WindowFree(p.window, p.after) /\ fresh # {}
           b == Binding(p)
<1>1. /\ p # None /\ plan' = [plan EXCEPT ![e] = None]
      /\ IF frozen THEN job' = [job EXCEPT ![new] = "pending"] /\ bind' = [bind EXCEPT ![new] = b]
                   ELSE job' = job /\ bind' = bind
      /\ UNCHANGED <<clock, created, arrived, policy, stored>>
  BY DEF EnqueueWindow, policyVars, effectVars
<1>2. frozen => new \in SummaryJob /\ job[new] = "absent"
  <2>1. frozen => new \in fresh  BY Zenon
  <2> QED  BY <2>1
<1> HIDE DEF new, fresh, frozen
<1>3. PolicyTypes /\ WindowTypes /\ Policed /\ Bindings  BY DEF Summaries
<1>4. plan' \in [Enqueuer -> Plan \cup {None}] /\ plan'[e] = None /\ \A f \in Enqueuer \ {e} : plan'[f] = plan[f]
  BY <1>1, <1>3 DEF WindowTypes
<1>5. p \in Plan  BY <1>1, <1>3 DEF WindowTypes
<1>6. Ingested' = Ingested /\ Policed'  BY <1>1, <1>3 DEF Policed, Ingested
<1>7. CASE ~frozen
  <2>1. job' = job /\ bind' = bind  BY <1>1, <1>7
  <2>2. PolicyTypes' /\ WindowTypes'  BY <1>1, <1>3, <1>4, <2>1 DEF PolicyTypes, WindowTypes
  <2>3. Bindings'  BY <1>1, <1>3, <2>1 DEF Bindings
  <2>4. Bound' = Bound  BY <2>1 DEF Bound
  <2>5. WindowsApart' /\ FromJobs'
    BY <1>1, <2>1, <2>4 DEF Summaries, WindowsApart, FromJobs
  <2> QED  BY <1>6, <2>2, <2>3, <2>5 DEF Summaries
<1>8. CASE frozen
  <2>1. /\ policy.enabled /\ policy.gen = p.gen /\ policy.after = p.after
        /\ p.window \subseteq Eligible(p.after) /\ p.window \cap Frozen = {}
    BY <1>8 DEF frozen, SamePolicy, WindowFree
  <2>4. /\ b \in BindingRow /\ b.gen = p.gen /\ b.window = p.window /\ b.canceled = FALSE
        /\ b # None
    <3>1. b = [gen |-> p.gen, after |-> p.after, window |-> p.window, canceled |-> FALSE]
      BY DEF Binding
    <3>2. p.gen \in 1..MaxGeneration /\ p.after \in Time /\ p.window \in Window  BY <1>5 DEF Plan
    <3>3. b \in BindingRow  BY <3>1, <3>2 DEF BindingRow
    <3>4. b # None
      <4>1. None \notin BindingRow  BY Zenon
      <4> QED  BY <3>3, <4>1
    <3> QED  BY <3>1, <3>3, <3>4
  <2> HIDE DEF b
  <2>5. /\ job' = [job EXCEPT ![new] = "pending"] /\ bind' = [bind EXCEPT ![new] = b]
        /\ new \in SummaryJob /\ job[new] = "absent" /\ new \in Job
    BY <1>1, <1>2, <1>8 DEF Job
  <2>6. bind[new] = None  BY <1>3, <2>5 DEF Bindings
  <2>7. /\ bind' \in [SummaryJob -> BindingRow \cup {None}] /\ bind'[new] = b
        /\ \A j \in SummaryJob \ {new} : bind'[j] = bind[j]
    BY <1>3, <2>4, <2>5 DEF WindowTypes
  <2>8. job'[new] = "pending" /\ \A j \in SummaryJob \ {new} : job'[j] = job[j]
    BY <2>5 DEF Job
  <2>9. PolicyTypes' /\ WindowTypes'  BY <1>1, <1>3, <1>4, <2>7 DEF PolicyTypes, WindowTypes
  <2>10. Bound' = Bound \cup {new} /\ new \notin Bound /\ Bound \subseteq SummaryJob
    BY <2>4, <2>5, <2>6, <2>7 DEF Bound
  <2>11. \A j \in Bound : bind'[j] = bind[j] /\ job'[j] = job[j]  BY <2>7, <2>8, <2>10
  <2>13. Bindings'
    <3>1. ASSUME NEW m \in p.window  PROVE created[m] # None /\ arrived[m] = p.gen
      BY <1>3, <2>1 DEF Eligible, Ingested, Policed
    <3>2. policy.gen \in Nat  BY <1>3 DEF PolicyTypes
    <3>3. job'[new] # "absent"  BY <2>8
    <3>4. ASSUME NEW j \in SummaryJob
          PROVE  /\ job'[j] = "absent" <=> bind'[j] = None
                 /\ bind'[j] # None =>
                       /\ bind'[j].gen <= policy.gen
                       /\ bind'[j].canceled => bind'[j].gen < policy.gen
                       /\ \A m \in bind'[j].window : created[m] # None /\ arrived[m] = bind'[j].gen
      <4>1. CASE j = new
        <5>1. b.gen <= policy.gen  BY <2>1, <2>4, <3>2
        <5> QED  BY <2>4, <2>7, <3>1, <3>3, <4>1, <5>1
      <4>2. CASE j # new
        <5>1. bind'[j] = bind[j] /\ job'[j] = job[j]  BY <2>7, <2>8, <4>2
        <5> QED  BY <1>3, <5>1 DEF Bindings
      <4> QED  BY <4>1, <4>2
    <3> QED  BY <1>1, <3>4 DEF Bindings
  <2>14. WindowsApart'
    <3>1. ASSUME NEW j \in Bound  PROVE bind'[j].window \cap bind'[new].window = {}
      <4>1. bind[j].window \subseteq Frozen  BY DEF Frozen
      <4> QED  BY <2>1, <2>4, <2>7, <2>11, <4>1
    <3>2. \A j, k \in Bound : j # k => bind'[j].window \cap bind'[k].window = {}
      BY <2>11 DEF Summaries, WindowsApart
    <3> QED  BY <2>10, <3>1, <3>2 DEF WindowsApart
  <2>16. FromJobs'
    <3>1. ASSUME NEW s \in stored
          PROVE  \E j \in Bound' : s = [window |-> bind'[j].window, gen |-> bind'[j].gen]
      <4>1. PICK j \in Bound : s = [window |-> bind[j].window, gen |-> bind[j].gen]
        BY DEF Summaries, FromJobs
      <4> QED  BY <2>10, <2>11, <4>1
    <3> QED  BY <1>1, <3>1 DEF FromJobs
  <2> QED  BY <1>6, <2>9, <2>13, <2>14, <2>16 DEF Summaries
<1> QED  BY <1>7, <1>8

LEMMA StoreSummaryKeepsSummaries ==
    ASSUME Summaries, Attempts, NEW a \in Attempt, StoreSummary(a)
    PROVE  Summaries'
<1> DEFINE s == WindowOf(a)
<1>1. /\ pc[a] = "store" /\ stored' \in {stored, stored \cup {s}}
      /\ UNCHANGED <<clock, created, arrived, policy, plan, job, bind>>
  BY DEF StoreSummary, policyVars, jobVars
<1>2. a[1] \in SummaryJob /\ job[a[1]] # "absent"
  BY <1>1 DEF Attempts, Placed, IsSummary
<1>3. a[1] \in Bound /\ bind[a[1]] \in BindingRow
  BY <1>2 DEF Summaries, Bindings, WindowTypes, Bound
<1>4. s = [window |-> bind[a[1]].window, gen |-> bind[a[1]].gen]  BY DEF WindowOf
<1>5. s \in [window : Window, gen : 1..MaxGeneration]  BY <1>3, <1>4 DEF BindingRow
<1> HIDE DEF s
<1>6. PolicyTypes' /\ WindowTypes'  BY <1>1, <1>5 DEF Summaries, PolicyTypes, WindowTypes
<1>7. Bound' = Bound /\ Ingested' = Ingested  BY <1>1 DEF Bound, Ingested
<1>8. Policed' /\ Bindings'  BY <1>1, <1>7 DEF Summaries, Policed, Bindings
<1>9. WindowsApart'  BY <1>1, <1>7 DEF Summaries, WindowsApart
<1>10. FromJobs'
  <2>1. ASSUME NEW t \in stored'
        PROVE  \E j \in Bound : t = [window |-> bind[j].window, gen |-> bind[j].gen]
    <3>1. CASE t \in stored  BY <3>1 DEF Summaries, FromJobs
    <3>2. CASE t = s  BY <1>3, <1>4, <3>2
    <3> QED  BY <1>1, <2>1, <3>1, <3>2
  <2> QED  BY <1>1, <1>7, <2>1 DEF FromJobs
<1> QED  BY <1>6, <1>8, <1>9, <1>10 DEF Summaries

-----------------------------------------------------------------------------
(***************************************************************************)
(* Decisions.                                                               *)
(***************************************************************************)

(* Effects stay and handlers go on, or one more candidate is rejected.      *)
LEMMA DecisionsKept ==
    ASSUME Decisions, SettledStay, Onward, memory' = memory, decision' = decision,
           rejected \subseteq rejected', rejected' \subseteq ExtractionJob
    PROVE  Decisions'
<1>1. EffectTypes'  BY DEF Decisions, EffectTypes
<1>2. ASSUME NEW j \in ExtractionJob  PROVE Grounded(j)'
  <2>1. Grounded(j)  BY DEF Decisions
  <2>2. EffectLeft(j) => EffectLeft(j)'  BY DEF EffectLeft
  <2>3. ASSUME NEW k \in 1..MaxAttempts, DecidedBy(j, k)
        PROVE  /\ pc'[<<j, k>>] \in {"succeed", "done"}
               /\ \A l \in 1..MaxAttempts : l > k =>
                     pc'[<<j, l>>] \notin {"review1", "review2", "decide"}
               /\ \E c \in 1..2 : inv'[EvaluatorRow(<<j, k>>, 1, c)] = "completed"
    <3>1. j \in Job /\ <<j, k>> \in Attempt  BY DEF Job
    <3>2. pc'[<<j, k>>] \in {"succeed", "done"}  BY <2>1, <2>3, <3>1 DEF Grounded, Onward
    <3>3. ASSUME NEW l \in 1..MaxAttempts, l > k
          PROVE  pc'[<<j, l>>] \notin {"review1", "review2", "decide"}
      <4>1. <<j, l>> \in Attempt /\ <<j, l>>[1] = j  BY <3>1
      <4>2. EffectLeft(j) /\ pc[<<j, l>>] \notin {"review1", "review2", "decide"}
        BY <2>1, <2>3, <3>3 DEF Grounded
      <4> QED  BY <4>1, <4>2 DEF Onward
    <3>4. PICK c \in 1..2 : inv[EvaluatorRow(<<j, k>>, 1, c)] = "completed"
      BY <2>1, <2>3 DEF Grounded
    <3>5. inv'[EvaluatorRow(<<j, k>>, 1, c)] = "completed"
      BY <3>1, <3>4, RowFacts DEF SettledStay, Settled
    <3> QED  BY <3>2, <3>3, <3>5
  <2>4. \A k : DecidedBy(j, k)' <=> DecidedBy(j, k)  BY DEF DecidedBy
  <2> QED  BY <2>1, <2>2, <2>3, <2>4 DEF Grounded
<1> QED  BY <1>1, <1>2 DEF Decisions

(* The decision is the candidate's first, and its last.                     *)
LEMMA CommitKeepsDecisions ==
    ASSUME Attempts, Decisions, Moved, NEW a \in Attempt, CommitDecision(a)
    PROVE  Decisions'
<1> DEFINE c0 == IF inv[EvaluatorRow(a, 1, 2)] = "completed" THEN 2 ELSE 1
           j == a[1]
           v == verdict[a]
<1>1. /\ pc[a] = "decide" /\ inv' = inv
      /\ \/ WithDecision(a, c0) /\ Goto(a, "succeed")
         \/ decision' = decision /\ memory' = memory /\ rejected' = rejected
  BY DEF CommitDecision
<1>2. c0 \in 1..2  OBVIOUS
<1> HIDE DEF c0
<1>3. EffectTypes /\ LedgerTypeOK /\ HandlerTypes /\ JobTypes  BY DEF Attempts, Decisions
<1>4. CASE decision' = decision /\ memory' = memory /\ rejected' = rejected
  BY <1>3, <1>4, DecisionsKept DEF Moved, EffectTypes
<1>5. CASE WithDecision(a, c0) /\ Goto(a, "succeed")
  <2>1. /\ inv[EvaluatorRow(a, 1, c0)] = "completed" /\ attempt[a] = "running"
        /\ decision[<<a, 1>>] = "none" /\ memory[j] = "none"
        /\ decision' = [decision EXCEPT ![<<a, 1>>] = v]
        /\ \/ memory' = [memory EXCEPT ![j] = MemoryOf(v)] /\ rejected' = rejected
           \/ v = "refuse" /\ rejected' = rejected \cup {j} /\ memory' = memory
    BY <1>5, AttemptFacts DEF WithDecision, EvidenceHolds, CanDecide, OwnerActive, Decided, Effect, Rejected
  <2>2. /\ j \in ExtractionJob /\ j \in Job /\ a[2] \in 1..MaxAttempts /\ a = <<j, a[2]>>
        /\ v \in Verdict
    BY <1>1, AttemptFacts DEF Attempts, Placed
  <2>3. <<a, 1>> \in Request  BY <1>2, RowFacts
  <2>4. tries[j] = a[2]  BY <2>1, <2>2 DEF Attempts, Numbered, NumberedAt
  <2>5. \A k \in 1..MaxAttempts : ~DecidedBy(j, k)
    <3>1. ASSUME NEW k \in 1..MaxAttempts, DecidedBy(j, k)  PROVE FALSE
      <4>1. k # a[2]
        <5>1. CASE k = a[2]  BY <2>1, <2>2, <3>1, <5>1 DEF DecidedBy
        <5> QED  BY <5>1
      <4>2. pc[<<j, k>>] \in {"succeed", "done"}  BY <2>2, <3>1 DEF Decisions, Grounded
      <4>3. CASE k > a[2]
        <5>1. pc[<<j, k>>] = "none"  BY <2>2, <2>4, <4>3 DEF Attempts, Numbered, NumberedAt
        <5> QED  BY <4>2, <5>1
      <4>4. CASE a[2] > k
        <5>1. pc[<<j, a[2]>>] \notin {"review1", "review2", "decide"}
          BY <2>2, <3>1, <4>4 DEF Decisions, Grounded
        <5> QED  BY <1>1, <2>2, <5>1
      <4> QED  BY <2>2, <4>1, <4>3, <4>4
    <3> QED  BY <3>1
  <2>6. /\ decision'[<<a, 1>>] = v
        /\ \A q \in Request : q # <<a, 1>> => decision'[q] = decision[q]
    BY <1>3, <2>1, <2>3 DEF LedgerTypeOK
  <2>7. ASSUME NEW i \in ExtractionJob, NEW k \in 1..MaxAttempts, <<i, k>> # a
        PROVE  DecidedBy(i, k)' <=> DecidedBy(i, k)
    <3>1. <<i, k>> \in Attempt  BY DEF Job
    <3>2. <<<<i, k>>, 1>> \in Request /\ <<<<i, k>>, 1>> # <<a, 1>>  BY <1>2, <2>7, <3>1, RowFacts
    <3> QED  BY <2>6, <3>2 DEF DecidedBy
  <2>8. /\ EffectTypes' /\ rejected \subseteq rejected'
        /\ \A i \in ExtractionJob \ {j} : memory'[i] = memory[i]
        /\ v = "approve" <=> memory'[j] = "stored"
        /\ memory'[j] # "none" \/ j \in rejected'
    <3>1. MemoryOf(v) \in {"stored", "rejected"} /\ (v = "approve" <=> MemoryOf(v) = "stored")
      BY DEF MemoryOf
    <3>2. CASE memory' = [memory EXCEPT ![j] = MemoryOf(v)] /\ rejected' = rejected
      BY <1>3, <2>2, <3>1, <3>2 DEF EffectTypes
    <3>3. CASE v = "refuse" /\ rejected' = rejected \cup {j} /\ memory' = memory
      BY <1>3, <2>1, <2>2, <3>3 DEF EffectTypes
    <3> QED  BY <2>1, <3>2, <3>3
  <2>9. pc'[a] = "succeed" /\ \A b \in Attempt \ {a} : pc'[b] = pc[b]
    BY <1>3, <1>5 DEF HandlerTypes, Goto
  <2>10. Grounded(j)'
    <3>1. DecidedBy(j, a[2])'  BY <2>2, <2>6 DEF DecidedBy, Verdict
    <3>2. \A k \in 1..MaxAttempts : DecidedBy(j, k)' => k = a[2]
      <4>1. ASSUME NEW k \in 1..MaxAttempts, k # a[2]  PROVE ~DecidedBy(j, k)'
        <5>1. <<j, k>> # a  BY <2>2, <4>1
        <5> QED  BY <2>2, <2>5, <2>7, <5>1
      <4> QED  BY <4>1
    <3>3. ASSUME NEW l \in 1..MaxAttempts, l > a[2]
          PROVE  pc'[<<j, l>>] \notin {"review1", "review2", "decide"}
      <4>1. pc[<<j, l>>] = "none"  BY <2>2, <2>4, <3>3 DEF Attempts, Numbered, NumberedAt
      <4>2. <<j, l>> \in Attempt /\ <<j, l>> # a  BY <2>2, <3>3
      <4> QED  BY <2>9, <4>1, <4>2
    <3>4. decision'[<<<<j, a[2]>>, 1>>] = v  BY <2>2, <2>6
    <3>5. \E c \in 1..2 : inv'[EvaluatorRow(<<j, a[2]>>, 1, c)] = "completed"
      BY <1>1, <1>2, <2>1, <2>2
    <3>6. pc'[<<j, a[2]>>] \in {"succeed", "done"}  BY <2>2, <2>9
    <3>7. EffectLeft(j)'  BY <2>8 DEF EffectLeft
    <3> HIDE DEF j, v
    <3>8. \E k \in 1..MaxAttempts : DecidedBy(j, k)'  BY <2>2, <3>1
    <3>9. ASSUME NEW k \in 1..MaxAttempts, DecidedBy(j, k)'
          PROVE  /\ pc'[<<j, k>>] \in {"succeed", "done"}
                 /\ \A l \in 1..MaxAttempts :
                       /\ DecidedBy(j, l)' => l = k
                       /\ l > k => pc'[<<j, l>>] \notin {"review1", "review2", "decide"}
                 /\ decision'[<<<<j, k>>, 1>>] = "approve" <=> memory'[j] = "stored"
                 /\ EffectLeft(j)'
                 /\ \E c \in 1..2 : inv'[EvaluatorRow(<<j, k>>, 1, c)] = "completed"
      <4>1. k = a[2]  BY <3>2, <3>9
      <4> QED  BY <2>8, <3>2, <3>3, <3>4, <3>5, <3>6, <3>7, <4>1
    <3> QED  BY <3>8, <3>9 DEF Grounded
  <2>11. ASSUME NEW i \in ExtractionJob, i # j  PROVE Grounded(i)'
    <3>1. Grounded(i)  BY DEF Decisions
    <3>2. ASSUME NEW k \in 1..MaxAttempts
          PROVE  /\ <<i, k>> # a /\ pc'[<<i, k>>] = pc[<<i, k>>]
                 /\ DecidedBy(i, k)' <=> DecidedBy(i, k)
                 /\ decision'[<<<<i, k>>, 1>>] = decision[<<<<i, k>>, 1>>]
      <4>1. <<i, k>> \in Attempt /\ <<i, k>>[1] = i  BY DEF Job
      <4>2. <<i, k>> # a  BY <2>11, <4>1
      <4>3. <<<<i, k>>, 1>> \in Request /\ <<<<i, k>>, 1>> # <<a, 1>>  BY <1>2, <4>1, <4>2, RowFacts
      <4> QED  BY <2>6, <2>7, <2>9, <4>1, <4>2, <4>3
    <3>3. memory'[i] = memory[i]  BY <2>8, <2>11
    <3>4. EffectLeft(i) => EffectLeft(i)'  BY <2>8, <3>3 DEF EffectLeft
    <3> HIDE DEF j, v
    <3> QED  BY <1>1, <3>1, <3>2, <3>3, <3>4 DEF Grounded
  <2> QED  BY <2>8, <2>10, <2>11 DEF Decisions
<1> QED  BY <1>1, <1>4, <1>5

-----------------------------------------------------------------------------
(***************************************************************************)
(* The invariant.                                                           *)
(***************************************************************************)

LEMMA InitSound == Init => JobsInv
<1> SUFFICES ASSUME Init PROVE JobsInv  OBVIOUS
<1>1. LedgerTypeOK  BY DEF Init, LedgerInit, LedgerTypeOK, RowStatus, Verdict
<1>2. PolicyTypes
  <2>1. 0 \in 0..MaxClock /\ 0 \in 0..MaxGeneration /\ 0 \in Time  BY DEF Time
  <2> QED  BY <2>1 DEF Init, PolicyTypes
<1>3. WindowTypes  BY DEF Init, WindowTypes
<1>4. JobTypes
  <2>1. 0 \in 0..MaxAttempts /\ 0 \in 0..MaxStalls  OBVIOUS
  <2> QED  BY <2>1 DEF Init, JobTypes, JobStatus
<1>5. HandlerTypes  BY DEF Init, HandlerTypes, Handler
<1>6. EffectTypes  BY DEF Init, EffectTypes
<1>7. Ingested = {} /\ Bound = {}  BY DEF Init, Ingested, Bound
<1>8. Policed
  <2>1. 0 <= MaxClock + 0  OBVIOUS
  <2> QED  BY <1>7, <2>1 DEF Init, Policed
<1>9. Bindings  BY DEF Init, Bindings, Job
<1>10. WindowsApart /\ FromJobs  BY <1>7 DEF Init, WindowsApart, FromJobs
<1>12. NoOrphanCalls  BY DEF Init, LedgerInit, NoOrphanCalls
<1>13. Numbered
  <2>1. ASSUME NEW j \in Job, NEW k \in 1..MaxAttempts  PROVE NumberedAt(j, k)
    <3>1. <<j, k>> \in Attempt  BY PairFacts
    <3> QED  BY <3>1 DEF Init, LedgerInit, NumberedAt
  <2> QED  BY <2>1 DEF Numbered
<1>14. ASSUME NEW a \in Attempt  PROVE Placed(a)
  <2>1. SummaryRow(a, 1) \in Row /\ SummaryRow(a, 2) \in Row /\ EvaluatorRow(a, 1, 2) \in Row
    <3>1. 1 \in 1..2 /\ 2 \in 1..2  OBVIOUS
    <3> QED  BY <3>1, RowFacts
  <2> QED  BY <2>1 DEF Init, LedgerInit, Placed
<1>15. ASSUME NEW j \in ExtractionJob  PROVE Grounded(j)
  <2>1. \A k \in 1..MaxAttempts : ~DecidedBy(j, k)
    <3>1. ASSUME NEW k \in 1..MaxAttempts  PROVE ~DecidedBy(j, k)
      <4>1. <<j, k>> \in Attempt /\ 1 \in 1..2  BY DEF Job
      <4>2. <<<<j, k>>, 1>> \in Request  BY <4>1, RowFacts
      <4> QED  BY <4>2 DEF Init, LedgerInit, DecidedBy
    <3> QED  BY <3>1
  <2>2. memory[j] = "none"  BY DEF Init
  <2> QED  BY <2>1, <2>2 DEF Grounded
<1> QED
  BY <1>1, <1>2, <1>3, <1>4, <1>5, <1>6, <1>8, <1>9, <1>10, <1>12, <1>13, <1>14, <1>15
  DEF JobsInv, Summaries, Attempts, Decisions

(* A handler moves: what it does to the three parts.                        *)
LEMMA HandleSound ==
    ASSUME JobsInv, NEW a \in Attempt, Handle(a)
    PROVE  JobsInv' /\ SettledStay
<1>1. Summaries /\ Attempts /\ Decisions  BY DEF JobsInv
<1>2. Moved
  <2>1. CASE \E c \in 1..2 : CallProvider(a, c)  BY <1>1, <2>1, CallProviderSound
  <2>2. CASE \/ BeginSummary(a) \/ ReuseSummary(a) \/ SummaryAnswer(a) \/ StoreSummary(a)
    BY <1>1, <2>2, BeginSummarySound, ReuseSummarySound, SummaryAnswerSound, StoreSummarySound
  <2>3. CASE \/ BeginExtraction(a) \/ ReuseEffect(a) \/ RejectCandidate(a) \/ AskEvaluator(a)
    BY <1>1, <2>3, BeginExtractionSound, ReuseEffectSound, RejectCandidateSound, AskEvaluatorSound
  <2>4. CASE EvaluatorAnswer(a) \/ CommitDecision(a) \/ Settle(a)
    BY <1>1, <2>4, EvaluatorAnswerSound, CommitDecisionSound, SettleSound
  <2> QED  BY <2>1, <2>2, <2>3, <2>4 DEF Handle
<1>3. Summaries'
  <2>1. CASE StoreSummary(a)  BY <1>1, <2>1, StoreSummaryKeepsSummaries
  <2>2. CASE ~StoreSummary(a)
    <3>1. UNCHANGED <<clock, created, arrived, policy, plan, bind, stored>>
      BY <2>2 DEF Handle, BeginSummary, ReuseSummary, CallProvider, SummaryAnswer, BeginExtraction,
                  ReuseEffect, RejectCandidate, AskEvaluator, EvaluatorAnswer, CommitDecision, Settle,
                  policyVars, jobVars, effectVars
    <3> QED  BY <1>1, <1>2, <3>1, SummariesKept DEF Moved
  <2> QED  BY <2>1, <2>2
<1>4. Decisions'
  <2>1. CASE CommitDecision(a)  BY <1>1, <1>2, <2>1, CommitKeepsDecisions
  <2>2. CASE RejectCandidate(a) \/ EvaluatorAnswer(a)
    <3>1. /\ pc[a] \in {"source", "review1", "review2"}
          /\ memory' = memory /\ decision' = decision
          /\ rejected' = rejected \/ rejected' = rejected \cup {a[1]}
      BY <2>2 DEF RejectCandidate, EvaluatorAnswer, Rejected, ledgerVars
    <3>2. a[1] \in ExtractionJob  BY <1>1, <3>1, AttemptFacts DEF Attempts, Placed
    <3>3. rejected \subseteq rejected' /\ rejected' \subseteq ExtractionJob
      BY <1>1, <3>1, <3>2 DEF Decisions, EffectTypes
    <3> QED  BY <1>1, <1>2, <3>1, <3>3, DecisionsKept DEF Moved
  <2>3. CASE ~(CommitDecision(a) \/ RejectCandidate(a) \/ EvaluatorAnswer(a))
    <3>1. memory' = memory /\ decision' = decision /\ rejected' = rejected
      BY <2>3 DEF Handle, BeginSummary, ReuseSummary, CallProvider, SummaryAnswer, BeginExtraction,
                  ReuseEffect, StoreSummary, AskEvaluator, Settle, ledgerVars, effectVars
    <3>2. rejected' \subseteq ExtractionJob  BY <1>1, <3>1 DEF Decisions, EffectTypes
    <3> QED  BY <1>1, <1>2, <3>1, <3>2, DecisionsKept DEF Moved
  <2> QED  BY <2>1, <2>2, <2>3
<1> QED  BY <1>2, <1>3, <1>4 DEF Moved, JobsInv

(* Nothing happens to the attempts.                                         *)
LEMMA NoAttemptMoves ==
    ASSUME Attempts, UNCHANGED <<turn, attempt, inv, decision, job, tries, busy, stalls, workload, pc, verdict>>,
           linked' \in BOOLEAN
    PROVE  Moved
<1>1. LedgerTypeOK' /\ JobTypes' /\ HandlerTypes'
  BY DEF Attempts, LedgerTypeOK, JobTypes, HandlerTypes
<1>2. NoOrphanCalls'  BY DEF Attempts, NoOrphanCalls
<1>3. Numbered'
  <2>1. ASSUME NEW j \in Job, NEW k \in 1..MaxAttempts  PROVE NumberedAt(j, k)'
    <3>1. NumberedAt(j, k)  BY DEF Attempts, Numbered
    <3> QED  BY <3>1 DEF NumberedAt
  <2> QED  BY <2>1 DEF Numbered
<1>4. ASSUME NEW a \in Attempt  PROVE Placed(a)'
  <2>1. Placed(a)  BY DEF Attempts
  <2> QED  BY <2>1 DEF Placed, IsSummary
<1> QED  BY <1>1, <1>2, <1>3, <1>4 DEF Moved, Attempts, SettledStay, Onward, JobsGo

LEMMA NextSound ==
    ASSUME JobsInv, [Next]_vars
    PROVE  JobsInv' /\ SettledStay
<1>1. Summaries /\ Attempts /\ Decisions  BY DEF JobsInv
<1>2. job \in [Job -> JobStatus] /\ linked \in BOOLEAN /\ rejected \subseteq ExtractionJob
  BY <1>1 DEF Attempts, Decisions, JobTypes, EffectTypes
<1>3. ASSUME Attempts', SettledStay, Onward, UNCHANGED <<memory, decision, rejected>>, Summaries'
      PROVE  JobsInv' /\ SettledStay
  BY <1>1, <1>2, <1>3, DecisionsKept DEF JobsInv
<1>4. CASE Tick \/ (\E m \in Message : Ingest(m)) \/ (\E e \in Enqueuer : PlanWindow(e))
  <2>1. UNCHANGED <<ledgerVars, jobVars, pc, verdict, effectVars, stalls>>
    BY <1>4 DEF Tick, Ingest, PlanWindow
  <2>2. Moved  BY <1>1, <1>2, <2>1, NoAttemptMoves DEF ledgerVars, jobVars
  <2>3. Summaries'
    BY <1>1, <1>4, TickKeepsSummaries, IngestKeepsSummaries, PlanWindowKeepsSummaries
  <2> QED  BY <1>3, <2>1, <2>2, <2>3 DEF Moved, ledgerVars, effectVars
<1>5. CASE UNCHANGED vars \/ Unlink
  <2>1. /\ UNCHANGED <<ledgerVars, policyVars, plan, workload, job, tries, bind, busy, pc, verdict,
                       effectVars, stalls>>
        /\ linked' \in BOOLEAN
    BY <1>2, <1>5 DEF Unlink, vars, jobVars
  <2>2. Moved  BY <1>1, <2>1, NoAttemptMoves DEF ledgerVars
  <2>3. Summaries'  BY <1>1, <2>1, <2>2, SummariesKept DEF Moved, policyVars, effectVars
  <2> QED  BY <1>3, <2>1, <2>2, <2>3 DEF Moved, ledgerVars, effectVars
<1>6. CASE \E on \in BOOLEAN : SetEnabled(on)
  <2>1. PICK on \in BOOLEAN : SetEnabled(on)  BY <1>6
  <2>2. /\ job' = [j \in Job |-> IF j \in CanceledBy(on) THEN "failed" ELSE job[j]]
        /\ UNCHANGED <<ledgerVars, workload, linked, tries, busy, pc, verdict, effectVars, stalls>>
    BY <2>1 DEF SetEnabled
  <2>3. job' \in [Job -> JobStatus] /\ JobsStay
    BY <1>2, <2>2 DEF CanceledBy, JobStatus, JobsStay
  <2>4. UNCHANGED <<turn, attempt, inv, decision, tries, busy, stalls, workload, linked, pc, verdict>>
    BY <2>2 DEF ledgerVars
  <2>5. Attempts'  BY ONLY <1>1, <2>3, <2>4, JobsQueued
  <2>6. Summaries'  BY <1>1, <2>1, SetEnabledKeepsSummaries
  <2>7. SettledStay /\ Onward  BY <2>2 DEF SettledStay, Onward, ledgerVars
  <2> QED  BY <1>3, <2>2, <2>5, <2>6, <2>7 DEF ledgerVars, effectVars
<1>7. CASE \E e \in Enqueuer : EnqueueWindow(e)
  <2>1. PICK e \in Enqueuer : EnqueueWindow(e)  BY <1>7
  <2> DEFINE fresh == {j \in SummaryJob \cap workload : job[j] = "absent"}
             new == CHOOSE j \in fresh : TRUE
  <2>2. /\ job' = job \/ (fresh # {} /\ job' = [job EXCEPT ![new] = "pending"])
        /\ UNCHANGED <<ledgerVars, workload, linked, tries, busy, pc, verdict, effectVars, stalls>>
    BY <2>1 DEF EnqueueWindow
  <2>3. fresh # {} => new \in Job /\ job[new] = "absent"
    <3>1. fresh # {} => new \in fresh  BY Zenon
    <3> QED  BY <3>1 DEF Job
  <2> HIDE DEF fresh, new
  <2>4. job' \in [Job -> JobStatus] /\ JobsStay
    BY <1>2, <2>2, <2>3 DEF JobStatus, JobsStay
  <2>5. UNCHANGED <<turn, attempt, inv, decision, tries, busy, stalls, workload, linked, pc, verdict>>
    BY <2>2 DEF ledgerVars
  <2>6. Attempts'  BY ONLY <1>1, <2>4, <2>5, JobsQueued
  <2>7. Summaries'  BY <1>1, <1>2, <2>1, EnqueueWindowKeepsSummaries
  <2>8. SettledStay /\ Onward  BY <2>2 DEF SettledStay, Onward, ledgerVars
  <2> QED  BY <1>3, <2>2, <2>6, <2>7, <2>8 DEF ledgerVars, effectVars
<1>8. CASE \E j \in ExtractionJob : EnqueueExtraction(j)
  <2>1. PICK j \in ExtractionJob : EnqueueExtraction(j)  BY <1>8
  <2>2. /\ job[j] = "absent" /\ job' = [job EXCEPT ![j] = "pending"]
        /\ UNCHANGED <<ledgerVars, policyVars, plan, workload, linked, tries, bind, busy, pc, verdict,
                       effectVars, stalls>>
    BY <2>1 DEF EnqueueExtraction
  <2>3. /\ job' \in [Job -> JobStatus]
        /\ JobsStay
        /\ \A i \in SummaryJob : job'[i] = job[i]
    BY <1>2, <2>2 DEF JobStatus, JobsStay, Job
  <2>4. Attempts'  BY <1>1, <2>2, <2>3, JobsQueued DEF ledgerVars
  <2>5. JobsGo  BY <2>3 DEF JobsGo
  <2>6. Summaries'  BY <1>1, <2>2, <2>5, SummariesKept DEF policyVars, effectVars
  <2>7. SettledStay /\ Onward  BY <2>2 DEF SettledStay, Onward, ledgerVars
  <2> QED  BY <1>3, <2>2, <2>4, <2>6, <2>7 DEF ledgerVars, effectVars
<1>9. CASE (\E j \in Job : Claim(j) \/ FailExpired(j)) \/ LeaseLapses
  <2>1. Moved  BY <1>1, <1>9, ClaimSound, FailExpiredSound, LeaseLapsesSound
  <2>2. UNCHANGED <<decision, clock, created, arrived, policy, plan, bind, stored, memory, rejected>>
    BY <1>9 DEF Claim, FailExpired, LeaseLapses, policyVars, effectVars
  <2>3. Summaries'  BY <1>1, <2>1, <2>2, SummariesKept DEF Moved
  <2> QED  BY <1>3, <2>1, <2>2, <2>3 DEF Moved
<1>10. CASE \E a \in Attempt : Handle(a)  BY <1>10, HandleSound
<1> QED  BY <1>4, <1>5, <1>6, <1>7, <1>8, <1>9, <1>10 DEF Next

LEMMA JobsInvAlways == Spec => []JobsInv
<1>1. JobsInv /\ [Next]_vars => JobsInv'  BY NextSound
<1> QED  BY <1>1, InitSound, PTL DEF Spec

-----------------------------------------------------------------------------
(***************************************************************************)
(* What the invariant says.                                                 *)
(***************************************************************************)

LEMMA ConsentFollows ==
    ASSUME Summaries
    PROVE  ConsentHolds /\ SummarizedOnce
<1> USE DEF Summaries
<1>1. ASSUME NEW s \in stored, NEW m \in s.window  PROVE arrived[m] = s.gen
  <2>1. PICK j \in Bound : s = [window |-> bind[j].window, gen |-> bind[j].gen]  BY DEF FromJobs
  <2>2. j \in SummaryJob /\ bind[j] # None  BY DEF Bound
  <2>3. \A k \in bind[j].window : arrived[k] = bind[j].gen  BY <2>2 DEF Bindings
  <2>4. s.window = bind[j].window /\ s.gen = bind[j].gen  BY <2>1
  <2> QED  BY <1>1, <2>3, <2>4
<1>2. ASSUME NEW s \in stored, NEW t \in stored, s # t  PROVE s.window \cap t.window = {}
  <2>1. PICK j \in Bound : s = [window |-> bind[j].window, gen |-> bind[j].gen]  BY DEF FromJobs
  <2>2. PICK k \in Bound : t = [window |-> bind[k].window, gen |-> bind[k].gen]  BY DEF FromJobs
  <2>3. j # k  BY <1>2, <2>1, <2>2
  <2>4. bind[j].window \cap bind[k].window = {}  BY <2>3 DEF WindowsApart
  <2>5. s.window = bind[j].window /\ t.window = bind[k].window  BY <2>1, <2>2
  <2> QED  BY <2>4, <2>5
<1>3. SummarizedOnce  BY <1>2 DEF SummarizedOnce, WindowsApart
<1> QED  BY <1>1, <1>3 DEF ConsentHolds

LEMMA GroundsFollow ==
    ASSUME Decisions
    PROVE  MemoryHasDecision
<1> DEFINE deciders(j) == {k \in 1..MaxAttempts : decision[<<<<j, k>>, 1>>] # "none"}
<1>1. ASSUME NEW j \in ExtractionJob
      PROVE  /\ Cardinality(deciders(j)) <= 1
             /\ memory[j] # "none" => deciders(j) # {}
             /\ \A k \in deciders(j) :
                   /\ decision[<<<<j, k>>, 1>>] = "approve" <=> memory[j] = "stored"
                   /\ memory[j] # "none" \/ j \in rejected
                   /\ \E c \in 1..2 : inv[EvaluatorRow(<<j, k>>, 1, c)] = "completed"
  <2>1. Grounded(j)  BY DEF Decisions
  <2>2. \A k : k \in deciders(j) <=> k \in 1..MaxAttempts /\ DecidedBy(j, k)  BY DEF DecidedBy
  <2> HIDE DEF deciders
  <2>3. Cardinality(deciders(j)) <= 1
    <3>1. CASE deciders(j) = {}  BY <3>1, FS_EmptySet
    <3>2. CASE deciders(j) # {}
      <4>1. PICK k : k \in deciders(j)  BY <3>2
      <4>2. ASSUME NEW l, l \in deciders(j)  PROVE l = k
        <5>1. /\ k \in 1..MaxAttempts /\ DecidedBy(j, k)
              /\ l \in 1..MaxAttempts /\ DecidedBy(j, l)
          BY <2>2, <4>1, <4>2
        <5> QED  BY <2>1, <5>1 DEF Grounded
      <4>3. deciders(j) = {k}  BY <4>1, <4>2
      <4>4. Cardinality({k}) = 1  BY FS_Singleton, Zenon
      <4> QED  BY <4>3, <4>4
    <3> QED  BY <3>1, <3>2
  <2>4. memory[j] # "none" => deciders(j) # {}  BY <2>1, <2>2 DEF Grounded
  <2>5. ASSUME NEW k \in deciders(j)
        PROVE  /\ decision[<<<<j, k>>, 1>>] = "approve" <=> memory[j] = "stored"
               /\ memory[j] # "none" \/ j \in rejected
               /\ \E c \in 1..2 : inv[EvaluatorRow(<<j, k>>, 1, c)] = "completed"
    <3>1. k \in 1..MaxAttempts /\ DecidedBy(j, k)  BY <2>2
    <3> QED  BY <2>1, <3>1 DEF Grounded, EffectLeft
  <2> QED  BY <2>3, <2>4, <2>5
<1> QED  BY <1>1 DEF MemoryHasDecision

(* What authorizes a call or a summary.                                     *)
AuthorityNow(a) ==
    /\ policy.enabled /\ policy.gen = bind[a[1]].gen
    /\ attempt[a] = "running"

LEMMA AuthorityFacts ==
    ASSUME NEW a \in Attempt, Authorized(a)
    PROVE  AuthorityNow(a)
  BY AttemptFacts DEF Authorized, ExecutionAllowed, SamePolicy, OwnerActive, AuthorityNow

(* Only CallProvider opens the row of a summary's call.                     *)
LEMMA OnlyProviderCalls ==
    ASSUME JobsInv, Next, NEW a \in Attempt, NEW c \in 1..2,
           inv[SummaryRow(a, c)] = "none", inv'[SummaryRow(a, c)] = "running"
    PROVE  Authorized(a)
<1> DEFINE row == SummaryRow(a, c)
<1>1. inv \in [Row -> RowStatus]  BY DEF JobsInv, Attempts, LedgerTypeOK
<1>2. row \in Row /\ inv[row] = "none" /\ inv'[row] = "running"  BY RowFacts
<1>3. \A b, d : EvaluatorRow(b, 1, d) # row
  <2>1. ASSUME NEW b, NEW d  PROVE SummaryRow(a, c) # EvaluatorRow(b, 1, d)  BY RowsDiffer
  <2> QED  BY <2>1
<1>4. \A b, d : SummaryRow(b, d) = row => a = b
  <2>1. ASSUME NEW b, NEW d, SummaryRow(b, d) = row  PROVE a = b  BY <2>1, RowsDiffer
  <2> QED  BY <2>1
<1> HIDE DEF row
<1>5. CASE inv' = inv  BY <1>2, <1>5
<1>6. CASE \E o : inv' = Orphaned(o)
  <2>1. PICK o : inv' = Orphaned(o)  BY <1>6
  <2> QED  BY <1>1, <1>2, <2>1, OrphanedFacts
<1>7. CASE \E b \in Attempt : Handle(b)
  <2>1. PICK b \in Attempt : Handle(b)  BY <1>7
  <2>2. CASE \E d \in 1..2 : CallProvider(b, d)
    <3>1. PICK d \in 1..2 : CallProvider(b, d)  BY <2>2
    <3>2. inv' = inv \/ (Authorized(b) /\ inv' = [inv EXCEPT ![SummaryRow(b, d)] = "running"])
      BY <3>1 DEF CallProvider, Started
    <3>3. CASE a = b  BY <1>5, <3>2, <3>3
    <3>4. CASE a # b
      <4>1. SummaryRow(b, d) # row  BY <1>4, <3>4
      <4> QED  BY <1>1, <1>2, <3>2, <4>1
    <3> QED  BY <3>3, <3>4
  <2>3. CASE SummaryAnswer(b)
    <3>1. PICK d : \/ inv' = [inv EXCEPT ![SummaryRow(b, d)] = "completed"]
                   \/ inv' = [inv EXCEPT ![SummaryRow(b, d)] = "failed"]
                   \/ inv' = inv
      BY <2>3 DEF SummaryAnswer, Completed, Failed
    <3> QED  BY <1>1, <1>2, <3>1
  <2>4. CASE AskEvaluator(b)
    <3>1. inv' = [inv EXCEPT ![EvaluatorRow(b, 1, 1)] = "running"]  BY <2>4 DEF AskEvaluator, Started
    <3> QED  BY <1>1, <1>2, <1>3, <3>1
  <2>5. CASE EvaluatorAnswer(b)
    <3>1. PICK d : \/ inv' = [inv EXCEPT ![EvaluatorRow(b, 1, d)] = "completed"]
                   \/ inv' = [inv EXCEPT ![EvaluatorRow(b, 1, d)] = "failed"]
                   \/ inv' = [[inv EXCEPT ![EvaluatorRow(b, 1, d)] = "invalid"]
                                  EXCEPT ![EvaluatorRow(b, 1, 2)] = "running"]
                   \/ inv' = inv
      BY <2>5 DEF EvaluatorAnswer, Completed, Failed
    <3>2. EvaluatorRow(b, 1, d) # row /\ EvaluatorRow(b, 1, 2) # row  BY <1>3
    <3> QED  BY <1>1, <1>2, <3>1, <3>2
  <2>6. CASE Settle(b)
    <3>1. inv' = inv \/ inv' = Orphaned(b)  BY <2>6 DEF Settle
    <3> QED  BY <1>5, <1>6, <3>1
  <2>7. CASE \/ BeginSummary(b) \/ ReuseSummary(b) \/ StoreSummary(b) \/ BeginExtraction(b)
             \/ ReuseEffect(b) \/ RejectCandidate(b) \/ CommitDecision(b)
    <3>1. inv' = inv
      BY <2>7 DEF BeginSummary, ReuseSummary, StoreSummary, BeginExtraction, ReuseEffect,
                  RejectCandidate, CommitDecision, ledgerVars
    <3> QED  BY <1>5, <3>1
  <2> QED  BY <2>1, <2>2, <2>3, <2>4, <2>5, <2>6, <2>7 DEF Handle
<1>8. CASE \E j \in Job : Claim(j) \/ FailExpired(j)
  <2>1. PICK j \in Job : Claim(j) \/ FailExpired(j)  BY <1>8
  <2>2. inv' = inv \/ inv' = Orphaned(<<j, tries[j]>>)  BY <2>1 DEF Claim, FailExpired
  <2> QED  BY <1>5, <1>6, <2>2
<1>9. CASE \/ Tick \/ (\E m \in Message : Ingest(m)) \/ (\E on \in BOOLEAN : SetEnabled(on))
           \/ (\E e \in Enqueuer : PlanWindow(e) \/ EnqueueWindow(e))
           \/ (\E j \in ExtractionJob : EnqueueExtraction(j)) \/ LeaseLapses \/ Unlink
  <2>1. inv' = inv
    BY <1>9 DEF Tick, Ingest, SetEnabled, PlanWindow, EnqueueWindow, EnqueueExtraction, LeaseLapses,
                Unlink, ledgerVars
  <2> QED  BY <1>5, <2>1
<1> QED  BY <1>7, <1>8, <1>9 DEF Next

(* Only StoreSummary takes an attempt from the store to its end.            *)
LEMMA OnlyStoreStores ==
    ASSUME JobsInv, Next, NEW a \in Attempt, pc[a] = "store", pc'[a] = "succeed"
    PROVE  Authorized(a)
<1>1. pc \in [Attempt -> Handler]  BY DEF JobsInv, Attempts, HandlerTypes
<1>2. CASE pc' = pc  BY <1>2
<1>3. CASE \E b \in Attempt : Handle(b)
  <2>1. PICK b \in Attempt : Handle(b)  BY <1>3
  <2>2. CASE b = a
    <3>1. StoreSummary(a)
      BY <2>1, <2>2 DEF Handle, BeginSummary, ReuseSummary, CallProvider, SummaryAnswer, BeginExtraction,
                        ReuseEffect, RejectCandidate, AskEvaluator, EvaluatorAnswer, CommitDecision, Settle
    <3>2. Authorized(a) \/ pc' = [pc EXCEPT ![a] = "fail"]  BY <3>1 DEF StoreSummary, Goto
    <3> QED  BY <1>1, <3>2
  <2>3. CASE b # a
    <3>1. \E where : Goto(b, where)
      BY <2>1 DEF Handle, BeginSummary, ReuseSummary, CallProvider, SummaryAnswer, StoreSummary,
                  BeginExtraction, ReuseEffect, RejectCandidate, AskEvaluator, EvaluatorAnswer,
                  CommitDecision, Settle
    <3>2. pc'[a] = pc[a]  BY <1>1, <2>3, <3>1 DEF Goto
    <3> QED  BY <3>2
  <2> QED  BY <2>2, <2>3
<1>4. CASE \E j \in Job : Claim(j)
  <2>1. PICK j \in Job : Claim(j)  BY <1>4
  <2>2. pc' = [pc EXCEPT ![<<j, tries[j] + 1>>] = "begin"]  BY <2>1 DEF Claim, Goto
  <2> QED  BY <1>1, <2>2
<1>5. CASE \/ Tick \/ (\E m \in Message : Ingest(m)) \/ (\E on \in BOOLEAN : SetEnabled(on))
           \/ (\E e \in Enqueuer : PlanWindow(e) \/ EnqueueWindow(e))
           \/ (\E j \in ExtractionJob : EnqueueExtraction(j)) \/ LeaseLapses \/ Unlink
           \/ (\E j \in Job : FailExpired(j))
  <2>1. pc' = pc
    BY <1>5 DEF Tick, Ingest, SetEnabled, PlanWindow, EnqueueWindow, EnqueueExtraction, LeaseLapses,
                Unlink, FailExpired
  <2> QED  BY <1>2, <2>1
<1> QED  BY <1>3, <1>4, <1>5 DEF Next

(* Only CommitDecision writes a memory.                                     *)
LEMMA OnlyDecisionsWrite ==
    ASSUME JobsInv, Next, NEW j \in ExtractionJob, memory'[j] # memory[j]
    PROVE  /\ linked
           /\ \E k \in 1..MaxAttempts :
                 attempt[<<j, k>>] = "running" /\ decision'[<<<<j, k>>, 1>>] # decision[<<<<j, k>>, 1>>]
<1>1. PICK a \in Attempt : CommitDecision(a)
  <2>1. ASSUME ~\E a \in Attempt : CommitDecision(a)  PROVE memory' = memory
    <3>1. CASE \E a \in Attempt : Handle(a)
      BY <2>1, <3>1 DEF Handle, BeginSummary, ReuseSummary, CallProvider, SummaryAnswer, StoreSummary,
                        BeginExtraction, ReuseEffect, RejectCandidate, AskEvaluator, EvaluatorAnswer,
                        Settle, effectVars
    <3>2. CASE ~\E a \in Attempt : Handle(a)
      BY <3>2 DEF Next, Tick, Ingest, SetEnabled, PlanWindow, EnqueueWindow, EnqueueExtraction, Claim,
                  FailExpired, LeaseLapses, Unlink, effectVars
    <3> QED  BY <3>1, <3>2
  <2> QED  BY <2>1
<1> DEFINE c0 == IF inv[EvaluatorRow(a, 1, 2)] = "completed" THEN 2 ELSE 1
           v == verdict[a]
<1>2. pc[a] = "decide" /\ (WithDecision(a, c0) \/ memory' = memory)  BY <1>1 DEF CommitDecision
<1> HIDE DEF c0
<1>3. WithDecision(a, c0)  BY <1>2
<1>4. /\ linked /\ attempt[a] = "running" /\ decision[<<a, 1>>] = "none"
      /\ decision' = [decision EXCEPT ![<<a, 1>>] = v]
      /\ memory' = [memory EXCEPT ![a[1]] = MemoryOf(v)] \/ memory' = memory
  BY <1>3, AttemptFacts DEF WithDecision, EvidenceHolds, CanDecide, OwnerActive, Decided, Effect, SourceUsable
<1>5. v \in Verdict /\ v # "none"  BY <1>2 DEF JobsInv, Attempts, Placed, Verdict
<1>6. j = a[1]
  <2>1. memory \in [ExtractionJob -> {"none", "stored", "rejected"}]  BY DEF JobsInv, Decisions, EffectTypes
  <2> HIDE DEF v
  <2> QED  BY <1>4, <2>1
<1>7. a[2] \in 1..MaxAttempts /\ a = <<j, a[2]>>  BY <1>6, AttemptFacts
<1>8. decision'[<<a, 1>>] = v
  <2>1. <<a, 1>> \in Request
    <3>1. 1 \in 1..2  OBVIOUS
    <3> QED  BY <3>1, RowFacts
  <2>2. decision \in [Request -> Verdict \cup {"none"}]  BY DEF JobsInv, Attempts, LedgerTypeOK
  <2> QED  BY <1>4, <2>1, <2>2
<1>9. attempt[<<j, a[2]>>] = "running" /\ decision'[<<<<j, a[2]>>, 1>>] # decision[<<<<j, a[2]>>, 1>>]
  BY <1>4, <1>5, <1>7, <1>8
<1> QED  BY <1>4, <1>7, <1>9

-----------------------------------------------------------------------------
(* What enqueueSummary freezes and generateSummary stores was said under the*)
(* consent that summarises it, and no message is summarised twice, however  *)
(* the calls, the policy's changes and the attempts interleave.             *)
THEOREM SummariesKeepConsent == Spec => []SummariesHaveConsent
<1>1. JobsInv => SummariesHaveConsent
  <2> SUFFICES ASSUME JobsInv  PROVE SummariesHaveConsent  OBVIOUS
  <2>1. TypeOK  BY TypesAgree DEF JobsInv, Summaries, Attempts, Decisions
  <2>2. ConsentHolds /\ SummarizedOnce  BY ConsentFollows DEF JobsInv
  <2> QED  BY <2>1, <2>2 DEF SummariesHaveConsent
<1> QED  BY <1>1, JobsInvAlways, PTL

(* A candidate is decided once, by a completed call, and its memory or its  *)
(* rejection agrees: runWithMemoryDecision and the triggers of the ledger   *)
(* leave neither an ungrounded memory nor an orphaned call.                 *)
THEOREM DecisionsStayGrounded == Spec => []DecisionsAreGrounded
<1>1. JobsInv => DecisionsAreGrounded
  BY GroundsFollow DEF JobsInv, Attempts, DecisionsAreGrounded
<1> QED  BY <1>1, JobsInvAlways, PTL

(* A model is shown a window, and a summary or a memory written, only with  *)
(* the policy, the lease and the identity of that very moment, though each  *)
(* was first checked before an await; a settled row stays as it is.         *)
THEOREM EffectsHaveAuthority == Spec => EffectsNeedAuthority
<1> DEFINE SummaryStep ==
              \A a \in Attempt :
                 /\ IsSummary(a)
                 /\ \/ \E c \in 1..2 : inv[SummaryRow(a, c)] = "none" /\ inv'[SummaryRow(a, c)] = "running"
                    \/ pc[a] = "store" /\ pc'[a] = "succeed"
                 =>
                 /\ policy.enabled /\ policy.gen = bind[a[1]].gen
                 /\ attempt[a] = "running"
           MemoryStep ==
              \A j \in ExtractionJob : memory'[j] # memory[j] =>
                 /\ linked
                 /\ \E k \in 1..MaxAttempts :
                       attempt[<<j, k>>] = "running" /\ decision'[<<<<j, k>>, 1>>] # decision[<<<<j, k>>, 1>>]
           RowStep == \A row \in Row : inv[row] \in Settled => inv'[row] = inv[row]
<1>1. JobsInv /\ [Next]_vars => [SummaryStep]_vars
  <2>1. ASSUME JobsInv, Next, NEW a \in Attempt,
               \/ \E c \in 1..2 : inv[SummaryRow(a, c)] = "none" /\ inv'[SummaryRow(a, c)] = "running"
               \/ pc[a] = "store" /\ pc'[a] = "succeed"
        PROVE  AuthorityNow(a)
    BY <2>1, OnlyProviderCalls, OnlyStoreStores, AuthorityFacts
  <2> QED  BY <2>1 DEF AuthorityNow
<1>2. JobsInv /\ [Next]_vars => [MemoryStep]_vars
  <2>1. ASSUME JobsInv, Next  PROVE MemoryStep  BY <2>1, OnlyDecisionsWrite
  <2> QED  BY <2>1
<1>3. JobsInv /\ [Next]_vars => [RowStep]_ledgerVars  BY NextSound DEF SettledStay
<1> QED
  BY <1>1, <1>2, <1>3, JobsInvAlways, PTL
  DEF Spec, EffectsNeedAuthority, SummaryNeedsAuthority, MemoryNeedsIdentity, SettledRowsAreFinal
=============================================================================
