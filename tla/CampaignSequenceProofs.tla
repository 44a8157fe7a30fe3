------------------------ MODULE CampaignSequenceProofs ------------------------
(***************************************************************************)
(* CampaignSequence for any leads, requests, campaigns, texts and decisions *)
(* of the model: a lead is accepted once, the fixed messages are scheduled  *)
(* in order and once each, a run waits only for what can come, a run that   *)
(* ended stays ended, and it hands over once.                               *)
(*                                                                          *)
(* The invariant says of a run where it stands (Run) and of its rows what   *)
(* every call relies on (Rows): no job lies ahead of the position, each     *)
(* fixed message up to it has its one job, and of a gate's questions only   *)
(* the last can still be open.                                              *)
(***************************************************************************)
EXTENDS CampaignSequence, FiniteSetTheorems, WellFoundedInduction, TLAPS

RunFields == {"status", "steps", "pos", "awaits", "jobs", "state", "facts", "open",
              "inbound", "asked"}

StepJobs(c, s) == {job \in c.jobs : job.step = s}

LatestSent(c, s) ==
  \E job \in StepJobs(c, s) : /\ job.status = "sent"
                              /\ \A other \in StepJobs(c, s) : other.at <= job.at

\* What holds of the rows of a run, whatever its status.
Rows(c) ==
  /\ DOMAIN c = RunFields
  /\ c.steps \in Campaigns
  /\ c.pos \in 0..Len(c.steps)
  /\ IsFiniteSet(c.jobs) /\ c.jobs \subseteq Job
  /\ \A job \in c.jobs : job.at < Cardinality(c.jobs) /\ job.step <= c.pos
  /\ \A j, k \in c.jobs : j.at = k.at /\ j.step = k.step => j = k
  /\ \A s \in 1..c.pos : c.steps[s].type = "fixed_message" => \E job : StepJobs(c, s) = {job}
  /\ \A s \in 1..c.pos : c.steps[s].type = "interest_gate" =>
       \A job \in StepJobs(c, s) : job.status = "open" =>
         \A other \in StepJobs(c, s) : other.at <= job.at

\* Where a run stands between two calls.
Run(c) ==
  /\ Rows(c)
  /\ c.pos # 0
  /\ c.status \in RunStatus \ {"none"}
  /\ c.status = "active" => c.awaits = 0
  /\ c.status \in {"waiting_outbound", "awaiting_reply"} => c.awaits = c.pos
  /\ c.status = "waiting_outbound" => StepJobs(c, c.pos) # {}
  /\ c.status = "awaiting_reply" /\ c.steps[c.pos].type \in {"fixed_message", "interest_gate"}
       => LatestSent(c, c.pos)

(***************************************************************************)
(* Least elements.                                                          *)
(***************************************************************************)

\* Every set of naturals has a least element.
LEMMA NatMin ==
  ASSUME NEW S, S \subseteq Nat, S # {}
  PROVE  \E m \in S : \A n \in S : m <= n
<1> DEFINE R == OpToRel(<, Nat)
<1>1. IsWellFoundedOn(R, Nat)
  BY NatLessThanWellFounded
<1>2. \A x, y \in Nat : <<x, y>> \in R <=> x < y
  BY DEF OpToRel
<1> HIDE DEF R
<1>3. PICK x \in S : \A y \in S : ~(<<y, x>> \in R)
  BY <1>1, WFMin
<1>4. \A y \in S : y \in Nat /\ x \in Nat /\ ~(y < x)
  BY <1>2, <1>3
<1>5. \A y \in S : x <= y
  BY <1>4
<1> QED BY <1>3, <1>5

\* A run always has a next stop, with nothing but unwaited fixed messages before.
LEMMA NextStopExists ==
  ASSUME NEW c, c.steps \in Seq(StepRecord), c.pos \in 0..Len(c.steps)
  PROVE  /\ NextStop(c) \in (c.pos + 1)..(Len(c.steps) + 1)
         /\ \/ NextStop(c) > Len(c.steps)
            \/ c.steps[NextStop(c)].type # "fixed_message"
            \/ c.steps[NextStop(c)].wait
         /\ \A k \in (c.pos + 1)..(NextStop(c) - 1) :
              c.steps[k].type = "fixed_message" /\ ~c.steps[k].wait
<1> DEFINE Stops(q) == q > Len(c.steps) \/ c.steps[q].type # "fixed_message" \/ c.steps[q].wait
           S == {q \in (c.pos + 1)..(Len(c.steps) + 1) : Stops(q)}
<1>0. Len(c.steps) \in Nat /\ c.pos \in Nat
  OBVIOUS
<1>1. Len(c.steps) + 1 \in S
  BY <1>0
<1>2. S \subseteq Nat
  BY <1>0
<1> HIDE DEF S
<1>3. PICK m \in S : \A n \in S : m <= n
  BY <1>1, <1>2, NatMin
<1>4. m \in (c.pos + 1)..(Len(c.steps) + 1) /\ Stops(m)
  BY <1>3 DEF S
<1>5. ASSUME NEW k \in (c.pos + 1)..(m - 1) PROVE ~Stops(k)
  <2>1. k \in (c.pos + 1)..(Len(c.steps) + 1) /\ ~(m <= k)
    BY <1>0, <1>4
  <2> QED BY <1>3, <2>1 DEF S
<1>6. \E q \in (c.pos + 1)..(Len(c.steps) + 1) :
        /\ Stops(q)
        /\ \A k \in (c.pos + 1)..(q - 1) : c.steps[k].type = "fixed_message" /\ ~c.steps[k].wait
  BY <1>4, <1>5
<1> QED BY <1>6 DEF NextStop

(***************************************************************************)
(* Adding jobs.                                                             *)
(***************************************************************************)

\* The campaign of a run is a sequence of steps.
LEMMA StepsAreSeq ==
  ASSUME NEW c, Rows(c)
  PROVE  /\ c.steps \in Seq(StepRecord) /\ Len(c.steps) \in Nat
         /\ c.pos \in Nat /\ Cardinality(c.jobs) \in Nat
BY CampaignConstantsOK, FS_CardinalityType DEF Rows

\* What the jobs of a run are after jobs for the steps S were created.
Extended(c, S, all, New) ==
  /\ IsFiniteSet(all) /\ all \subseteq Job
  /\ \A job \in all : job.at < Cardinality(all)
  /\ \A job \in New : job.at = Cardinality(c.jobs) /\ job.step \in S /\ job.status = "open"
  /\ \A s \in S : \E job \in New : job.step = s
  /\ \A j, k \in all : j.at = k.at /\ j.step = k.step => j = k

\* New jobs are different from the old ones, and later.
LEMMA NewJobsAreNew ==
  ASSUME NEW c, Rows(c), NEW S, IsFiniteSet(S), S \subseteq Nat
  PROVE  Extended(c, S, c.jobs \cup NewJobs(c, S), NewJobs(c, S))
<1> DEFINE n == Cardinality(c.jobs)
           new(s) == [at |-> n, step |-> s, status |-> "open"]
           f == [s \in S |-> new(s)]
           New == NewJobs(c, S)
           all == c.jobs \cup New
<1>1. n \in Nat
  BY StepsAreSeq
<1>2. New = {new(s) : s \in S}
  BY DEF NewJobs
<1>3. IsFiniteSet(New)
  <2>1. f \in Surjection(S, New)
    BY <1>2 DEF Surjection
  <2> QED BY <2>1, FS_Surjection
<1>4. IsFiniteSet(all)
  BY <1>3, FS_Union DEF Rows
<1>5. \A job \in New : job.at = n /\ job.step \in S /\ job.status = "open" /\ job \in Job
  BY <1>1, <1>2 DEF Job
<1>6. \A s \in S : \E job \in New : job.step = s
  <2>1. \A s \in S : new(s) \in New /\ new(s).step = s
    BY <1>2
  <2> QED BY <2>1
<1>7. \A j, k \in New : j.step = k.step => j = k
  BY <1>2
<1>8. \A job \in c.jobs : job.at < n /\ job.at \in Nat /\ job \in Job
  BY DEF Rows, Job
<1> HIDE DEF New
<1>9. \A job \in all : job.at < Cardinality(all)
  <2>1. c.jobs \in SUBSET all
    OBVIOUS
  <2>2. n <= Cardinality(all) /\ Cardinality(all) \in Nat
    BY <1>4, <2>1, FS_Subset, FS_CardinalityType
  <2>3. ASSUME NEW job \in New PROVE n < Cardinality(all)
    <3>1. job \notin c.jobs
      BY <1>1, <1>5, <1>8, <2>3
    <3>2. c.jobs # all
      BY <2>3, <3>1
    <3> QED BY <1>1, <1>4, <2>1, <2>2, <3>2, FS_Subset
  <2> HIDE DEF n
  <2>4. ASSUME NEW job \in c.jobs PROVE job.at < Cardinality(all)
    BY <1>1, <1>8, <2>2, <2>4
  <2>5. ASSUME NEW job \in New PROVE job.at < Cardinality(all)
    BY <1>5, <2>3, <2>5
  <2> QED BY <2>4, <2>5
<1>10. \A j, k \in all : j.at = k.at /\ j.step = k.step => j = k
  <2>1. \A j \in New, k \in c.jobs : j.at # k.at
    BY <1>1, <1>5, <1>8
  <2>2. \A j, k \in c.jobs : j.at = k.at /\ j.step = k.step => j = k
    BY DEF Rows
  <2> QED BY <1>7, <2>1, <2>2
<1>11. all \subseteq Job
  BY <1>5, <1>8
<1> QED BY <1>4, <1>5, <1>6, <1>9, <1>10, <1>11 DEF New, Extended

\* Scheduling the fixed messages up to q, ahead of the position, and moving there.
LEMMA RowsMoveTo ==
  ASSUME NEW c, Rows(c), NEW d, NEW q \in c.pos..Len(c.steps),
         DOMAIN d = RunFields, d.steps = c.steps, d.pos = q,
         d.jobs = c.jobs \cup NewJobs(c, (c.pos + 1)..q),
         \A k \in (c.pos + 1)..q : c.steps[k].type = "fixed_message"
  PROVE  Rows(d) /\ (q > c.pos => StepJobs(d, q) # {})
<1> DEFINE S == (c.pos + 1)..q
           New == NewJobs(c, S)
<1>0. Len(c.steps) \in Nat /\ c.pos \in Nat /\ q \in Nat
  BY StepsAreSeq
<1>1. IsFiniteSet(S) /\ S \subseteq Nat
  <2>1. S \subseteq Nat
    BY <1>0
  <2>2. IsFiniteSet(S)
    BY <1>0, FS_Interval
  <2> QED BY <2>1, <2>2
<1>a. d.jobs = c.jobs \cup NewJobs(c, S)
  OBVIOUS
<1> HIDE DEF S
<1>2. /\ IsFiniteSet(d.jobs) /\ d.jobs \subseteq Job
      /\ \A job \in d.jobs : job.at < Cardinality(d.jobs)
      /\ \A job \in New : job.step \in S
      /\ \A s \in S : \E job \in New : job.step = s
      /\ \A job \in New : job.at = Cardinality(c.jobs)
      /\ \A j, k \in d.jobs : j.at = k.at /\ j.step = k.step => j = k
  <2>1. Extended(c, S, d.jobs, New)
    BY <1>1, <1>a, NewJobsAreNew
  <2> HIDE DEF New
  <2> QED BY <2>1 DEF Extended
<1>3. \A job \in c.jobs : job.step <= c.pos /\ job.step \in Nat
  BY DEF Rows, Job
<1>4. d.jobs = c.jobs \cup New
  BY DEF S
<1> HIDE DEF New
<1>5. \A job \in d.jobs : job.step <= d.pos
  BY <1>0, <1>2, <1>3, <1>4 DEF S
<1>6. \A s \in 1..c.pos : StepJobs(d, s) = StepJobs(c, s)
  BY <1>0, <1>2, <1>4 DEF S, StepJobs
<1>7. \A s \in S : \E job : StepJobs(d, s) = {job}
  <2> TAKE s \in S
  <2>1. PICK job \in New : job.step = s
    BY <1>2
  <2>2. job \in StepJobs(d, s)
    BY <1>4, <2>1 DEF StepJobs
  <2>3. \A other \in StepJobs(d, s) : other = job
    <3> TAKE other \in StepJobs(d, s)
    <3>1. other \in d.jobs /\ other.step = s /\ job \in d.jobs
      BY <2>2 DEF StepJobs
    <3>2. other \in New
      BY <1>0, <1>3, <1>4, <3>1 DEF S
    <3> QED BY <1>2, <2>1, <3>1, <3>2
  <2> QED BY <2>2, <2>3
<1>8. \A s \in 1..q : s \in 1..c.pos \/ s \in S
  BY <1>0 DEF S
<1>9. \A s \in S : d.steps[s].type = "fixed_message"
  BY DEF S
<1>10. \A s \in 1..q : d.steps[s].type = "fixed_message" => \E job : StepJobs(d, s) = {job}
  BY <1>6, <1>7, <1>8 DEF Rows
<1>11. \A s \in 1..q : d.steps[s].type = "interest_gate" =>
        \A job \in StepJobs(d, s) : job.status = "open" =>
          \A other \in StepJobs(d, s) : other.at <= job.at
  BY <1>6, <1>8, <1>9 DEF Rows
<1>12. d.steps \in Campaigns /\ d.pos \in 0..Len(d.steps)
  BY <1>0 DEF Rows
<1>13. ASSUME q > c.pos PROVE StepJobs(d, q) # {}
  <2>1. q \in S
    BY <1>0, <1>13 DEF S
  <2> QED BY <1>7, <2>1
<1> QED BY <1>2, <1>5, <1>10, <1>11, <1>12, <1>13 DEF Rows

\* Rows are about the jobs, the steps and the position only.
LEMMA RowsSame ==
  ASSUME NEW c, Rows(c), NEW d,
         DOMAIN d = RunFields, d.steps = c.steps, d.pos = c.pos, d.jobs = c.jobs
  PROVE  Rows(d) /\ \A s : StepJobs(d, s) = StepJobs(c, s)
<1>1. \A s : StepJobs(d, s) = StepJobs(c, s)
  BY DEF StepJobs
<1> QED BY <1>1 DEF Rows

\* Moving on to a step of another kind, of which there is no job yet.
LEMMA RowsMoveToGate ==
  ASSUME NEW c, Rows(c), NEW d,
         DOMAIN d = RunFields, d.steps = c.steps, d.jobs = c.jobs,
         d.pos = c.pos + 1, d.pos <= Len(c.steps), c.steps[d.pos].type # "fixed_message"
  PROVE  Rows(d) /\ StepJobs(d, d.pos) = {}
<1>0. Len(c.steps) \in Nat /\ c.pos \in Nat /\ d.pos \in Nat
  BY StepsAreSeq
<1>1. \A s : StepJobs(d, s) = StepJobs(c, s)
  BY DEF StepJobs
<1>2. \A job \in c.jobs : job.step <= c.pos /\ job.step \in Nat
  BY DEF Rows, Job
<1>3. StepJobs(c, d.pos) = {}
  BY <1>0, <1>2 DEF StepJobs
<1>4. \A job \in d.jobs : job.step <= d.pos
  BY <1>0, <1>2
<1>5. \A s \in 1..d.pos : s \in 1..c.pos \/ s = d.pos
  BY <1>0
<1>6. d.steps \in Campaigns /\ d.pos \in 0..Len(d.steps)
  BY <1>0 DEF Rows
<1>7. \A s \in 1..d.pos : d.steps[s].type = "fixed_message" => \E job : StepJobs(d, s) = {job}
  BY <1>1, <1>5 DEF Rows
<1>8. \A s \in 1..d.pos : d.steps[s].type = "interest_gate" =>
        \A job \in StepJobs(d, s) : job.status = "open" =>
          \A other \in StepJobs(d, s) : other.at <= job.at
  <2> TAKE s \in 1..d.pos
  <2>1. CASE s \in 1..c.pos
    BY <1>1, <2>1 DEF Rows
  <2>2. CASE s = d.pos
    BY <1>1, <1>3, <2>2
  <2> QED BY <1>5, <2>1, <2>2
<1>9. \A job \in d.jobs : job.at < Cardinality(d.jobs)
  BY DEF Rows
<1>10. /\ IsFiniteSet(d.jobs) /\ d.jobs \subseteq Job
       /\ \A j, k \in d.jobs : j.at = k.at /\ j.step = k.step => j = k
  BY DEF Rows
<1> QED BY <1>1, <1>3, <1>4, <1>6, <1>7, <1>8, <1>9, <1>10 DEF Rows

\* Scheduling a reply: for no step, or for the step asked, when no question of a
\* gate is still open.
LEMMA RowsReply ==
  ASSUME NEW c, Rows(c), NEW d, NEW s \in {0, c.pos},
         DOMAIN d = RunFields, d.steps = c.steps, d.pos = c.pos,
         d.jobs = c.jobs \cup NewJobs(c, {s}),
         s # 0 => /\ c.steps[s].type # "fixed_message"
                  /\ c.steps[s].type = "interest_gate" =>
                       \A job \in StepJobs(c, s) : job.status # "open"
  PROVE  Rows(d) /\ StepJobs(d, s) # {}
<1> DEFINE New == NewJobs(c, {s})
<1>0. Len(c.steps) \in Nat /\ c.pos \in Nat /\ s \in Nat
  BY StepsAreSeq
<1>1. Extended(c, {s}, d.jobs, New)
  <2>1. {s} \subseteq Nat /\ IsFiniteSet({s})
    BY <1>0, FS_Singleton
  <2> QED BY <2>1, NewJobsAreNew
<1>2. d.jobs = c.jobs \cup New
  OBVIOUS
<1> HIDE DEF New
<1>3. /\ IsFiniteSet(d.jobs) /\ d.jobs \subseteq Job
      /\ \A job \in d.jobs : job.at < Cardinality(d.jobs)
      /\ \A job \in New : job.at = Cardinality(c.jobs) /\ job.step = s
      /\ \E job \in New : job.step = s
      /\ \A j, k \in d.jobs : j.at = k.at /\ j.step = k.step => j = k
  BY <1>1 DEF Extended
<1>4. \A job \in c.jobs : /\ job.step <= c.pos /\ job.step \in Nat
                          /\ job.at \in Nat /\ job.at < Cardinality(c.jobs)
  BY DEF Rows, Job
<1>5. \A job \in d.jobs : job.step <= d.pos
  <2>1. s <= c.pos
    BY <1>0
  <2> QED BY <1>2, <1>3, <1>4, <2>1
<1>6. \A t \in 1..c.pos : t # s => StepJobs(d, t) = StepJobs(c, t)
  BY <1>2, <1>3 DEF StepJobs
<1>7. \A t \in 1..d.pos : d.steps[t].type = "fixed_message" => \E job : StepJobs(d, t) = {job}
  <2> SUFFICES ASSUME NEW t \in 1..d.pos, d.steps[t].type = "fixed_message"
               PROVE  \E job : StepJobs(d, t) = {job}
    OBVIOUS
  <2>1. t # 0 /\ t # s /\ t \in 1..c.pos
    BY <1>0
  <2> QED BY <1>6, <2>1 DEF Rows
<1>8. ASSUME NEW t \in 1..d.pos, d.steps[t].type = "interest_gate",
             NEW job \in StepJobs(d, t), job.status = "open", NEW other \in StepJobs(d, t)
      PROVE  other.at <= job.at
  <2>1. CASE t # s
    BY <1>6, <1>8, <2>1 DEF Rows
  <2>2. CASE t = s
    <3>1. job \in New
      BY <1>0, <1>2, <1>8, <2>2 DEF StepJobs
    <3>2. other \in c.jobs \/ other \in New
      BY <1>2 DEF StepJobs
    <3>3. Cardinality(c.jobs) \in Nat
      BY StepsAreSeq
    <3> QED BY <1>3, <1>4, <3>1, <3>2, <3>3
  <2> QED BY <2>1, <2>2
<1>9. d.steps \in Campaigns /\ d.pos \in 0..Len(d.steps)
  BY DEF Rows
<1>10. StepJobs(d, s) # {}
  BY <1>2, <1>3 DEF StepJobs
<1> QED BY <1>3, <1>5, <1>7, <1>8, <1>9, <1>10 DEF Rows

(***************************************************************************)
(* Ending jobs.                                                             *)
(***************************************************************************)

\* A job that ends keeps its place; nothing else changes.
LEMMA RowsEnd ==
  ASSUME NEW c, Rows(c), NEW J, J \subseteq c.jobs, \A job \in J : job.status = "open",
         NEW st \in {"sent", "dropped"}, NEW d, DOMAIN d = RunFields,
         d.steps = c.steps, d.pos = c.pos, d.jobs = Ended(c, J, st).jobs
  PROVE  /\ Rows(d)
         /\ \A s : StepJobs(c, s) # {} => StepJobs(d, s) # {}
         /\ \A s : LatestSent(c, s) => LatestSent(d, s)
         /\ \A job \in d.jobs : \E old \in c.jobs : old.at = job.at /\ old.step = job.step
<1> DEFINE end(job) == IF job \in J THEN [job EXCEPT !.status = st] ELSE job
           f == [job \in c.jobs |-> end(job)]
<1>1. d.jobs = {end(job) : job \in c.jobs}
  BY DEF Ended, Rows, RunFields
<1>2. \A job \in c.jobs : /\ end(job) \in Job
                          /\ end(job).at = job.at /\ end(job).step = job.step
                          /\ end(job).status \in {job.status, st}
                          /\ job.status # "open" => end(job).status = job.status
  BY DEF Rows, Job
<1>3. \A j, k \in c.jobs : j.at = k.at /\ j.step = k.step => j = k
  BY DEF Rows
<1> HIDE DEF end
<1>4. f \in Bijection(c.jobs, d.jobs)
  <2>1. f \in Surjection(c.jobs, d.jobs)
    BY <1>1 DEF Surjection
  <2>2. \A j, k \in c.jobs : f[j] = f[k] => j = k
    BY <1>2, <1>3
  <2> QED BY <2>1, <2>2 DEF Bijection, Injection, Surjection, IsInjective
<1>5. IsFiniteSet(d.jobs) /\ Cardinality(d.jobs) = Cardinality(c.jobs)
  BY <1>4, FS_Bijection DEF Rows, ExistsBijection
<1>6. \A s : StepJobs(d, s) = {end(job) : job \in StepJobs(c, s)}
  BY <1>1, <1>2 DEF StepJobs
<1>7. \A s : \A job \in StepJobs(c, s) : job \in c.jobs
  BY DEF StepJobs
<1>8. \A job \in d.jobs : \E old \in c.jobs : old.at = job.at /\ old.step = job.step
  BY <1>1, <1>2
<1>9. ASSUME NEW s \in 1..d.pos, d.steps[s].type = "fixed_message"
      PROVE  \E job : StepJobs(d, s) = {job}
  <2>1. PICK job : StepJobs(c, s) = {job}
    BY <1>9 DEF Rows
  <2>2. StepJobs(d, s) = {end(job)}
    BY <1>6, <2>1
  <2> QED BY <2>2
<1>10. ASSUME NEW s \in 1..d.pos, d.steps[s].type = "interest_gate",
              NEW job \in StepJobs(d, s), job.status = "open", NEW other \in StepJobs(d, s)
       PROVE  other.at <= job.at
  <2>1. PICK j \in StepJobs(c, s) : job = end(j)
    BY <1>6
  <2>2. PICK k \in StepJobs(c, s) : other = end(k)
    BY <1>6
  <2>3. j.status = "open"
    BY <1>2, <1>7, <1>10, <2>1
  <2>4. k.at <= j.at
    BY <1>10, <2>3 DEF Rows
  <2> QED BY <1>2, <1>7, <2>1, <2>2, <2>4
<1>11. \A job \in d.jobs : job.at < Cardinality(d.jobs) /\ job.step <= d.pos /\ job \in Job
  BY <1>1, <1>2, <1>5 DEF Rows
<1>12. \A j, k \in d.jobs : j.at = k.at /\ j.step = k.step => j = k
  BY <1>1, <1>2, <1>3
<1>13. \A s : StepJobs(c, s) # {} => StepJobs(d, s) # {}
  BY <1>6
<1>14. ASSUME NEW s, LatestSent(c, s) PROVE LatestSent(d, s)
  <2>1. PICK job \in StepJobs(c, s) : /\ job.status = "sent"
                                      /\ \A other \in StepJobs(c, s) : other.at <= job.at
    BY <1>14 DEF LatestSent
  <2>2. end(job) \in StepJobs(d, s) /\ end(job).status = "sent" /\ end(job).at = job.at
    BY <1>2, <1>6, <1>7, <2>1
  <2>3. \A other \in StepJobs(d, s) : other.at <= job.at
    BY <1>2, <1>6, <1>7, <2>1
  <2> QED BY <2>2, <2>3 DEF LatestSent
<1>15. d.steps \in Campaigns /\ d.pos \in 0..Len(d.steps)
  BY DEF Rows
<1>16. Rows(d)
  BY <1>5, <1>9, <1>10, <1>11, <1>12, <1>15 DEF Rows
<1> QED BY <1>8, <1>13, <1>14, <1>16

(***************************************************************************)
(* Moving a run on.                                                         *)
(***************************************************************************)

\* A run that is being moved.
Moving(c) == Rows(c) /\ c.status = "active" /\ c.awaits = 0

\* ... and is about to decide at a step.
AtStep(c, step) ==
  /\ Moving(c)
  /\ step \in 1..Len(c.steps)
  /\ c.steps[step].type # "fixed_message"
  /\ \/ c.pos + 1 = step
     \/ /\ c.pos = step
        /\ c.steps[step].type = "interest_gate" =>
             \A job \in StepJobs(c, step) : job.status # "open"

\* Where scheduling ends: at a fixed message to wait for, at the end, or before
\* a step that decides.
UpTo(c, d, stop) ==
  /\ Rows(d) /\ d.steps = c.steps
  /\ stop \in (c.pos + 1)..(Len(c.steps) + 1)
  /\ CASE stop > Len(c.steps) -> d.status = "completed" /\ d.pos = stop - 1
       [] stop <= Len(c.steps) /\ c.steps[stop].type = "fixed_message" ->
            /\ d.status = "waiting_outbound" /\ d.awaits = stop /\ d.pos = stop
            /\ StepJobs(d, stop) # {}
       [] OTHER -> d.status = "active" /\ d.awaits = 0 /\ d.pos = stop - 1

LEMMA ScheduledUpToStop ==
  ASSUME NEW c, Moving(c)
  PROVE  UpTo(c, ScheduleUpToStop(c), NextStop(c))
<1> DEFINE stop  == NextStop(c)
           waits == stop <= Len(c.steps) /\ c.steps[stop].type = "fixed_message"
           last  == IF waits THEN stop ELSE stop - 1
           fresh == {step \in (c.pos + 1)..last : ~HasJob(c, step)}
           done  == [c EXCEPT !.jobs = @ \cup NewJobs(c, fresh), !.state = StateAfter(c, fresh),
                              !.asked = IF fresh = {} THEN @ ELSE "other", !.pos = last]
           d == ScheduleUpToStop(c)
<1>1. /\ Rows(c) /\ c.status = "active" /\ c.awaits = 0
      /\ Len(c.steps) \in Nat /\ c.pos \in Nat /\ DOMAIN c = RunFields
      /\ c.steps \in Seq(StepRecord) /\ c.pos \in 0..Len(c.steps)
  BY StepsAreSeq DEF Moving, Rows
<1>2. /\ stop \in (c.pos + 1)..(Len(c.steps) + 1)
      /\ \A k \in (c.pos + 1)..(stop - 1) : c.steps[k].type = "fixed_message"
  BY <1>1, NextStopExists
<1>3. d = IF waits THEN AwaitReplyAfter(done, stop)
          ELSE IF stop > Len(c.steps) THEN [done EXCEPT !.status = "completed"] ELSE done
  BY DEF ScheduleUpToStop
<1> HIDE DEF d, stop
<1>4. /\ last \in c.pos..Len(c.steps)
      /\ \A k \in (c.pos + 1)..last : c.steps[k].type = "fixed_message"
      /\ waits => last = stop /\ last > c.pos
      /\ ~waits => last = stop - 1
  BY <1>1, <1>2
<1>5. fresh = (c.pos + 1)..last
  <2>1. \A job \in c.jobs : job.step <= c.pos /\ job.step \in Nat
    BY <1>1 DEF Rows, Job
  <2>2. \A step \in (c.pos + 1)..last : ~HasJob(c, step)
    BY <1>1, <1>4, <2>1 DEF HasJob
  <2> QED BY <2>2
<1> HIDE DEF fresh, last
<1>6. /\ DOMAIN done = RunFields /\ done.steps = c.steps /\ done.pos = last
      /\ done.jobs = c.jobs \cup NewJobs(c, fresh)
      /\ done.status = "active" /\ done.awaits = 0
  BY <1>1 DEF RunFields
<1> HIDE DEF done
<1>7. /\ DOMAIN d = RunFields /\ d.steps = c.steps /\ d.pos = last
      /\ d.jobs = c.jobs \cup NewJobs(c, (c.pos + 1)..last)
      /\ waits => d.status = "waiting_outbound" /\ d.awaits = stop
      /\ ~waits /\ stop > Len(c.steps) => d.status = "completed"
      /\ ~waits /\ ~(stop > Len(c.steps)) => d.status = "active" /\ d.awaits = 0
  BY <1>3, <1>5, <1>6 DEF AwaitReplyAfter, RunFields
<1>8. Rows(d) /\ (last > c.pos => StepJobs(d, last) # {})
  BY <1>1, <1>4, <1>7, RowsMoveTo
<1>9. stop \in Int /\ Len(c.steps) \in Int
  BY <1>1, <1>2
<1>10. CASE waits
  BY <1>2, <1>4, <1>7, <1>8, <1>9, <1>10 DEF UpTo, stop, d
<1>11. CASE ~waits /\ stop > Len(c.steps)
  BY <1>2, <1>4, <1>7, <1>8, <1>9, <1>11 DEF UpTo, stop, d
<1>12. CASE ~waits /\ ~(stop > Len(c.steps))
  BY <1>2, <1>4, <1>7, <1>8, <1>9, <1>12 DEF UpTo, stop, d
<1> QED BY <1>10, <1>11, <1>12

\* Once scheduling was preceded by a position it leaves a run, or one before a step.
LEMMA UpToIsRun ==
  ASSUME NEW c, Moving(c), NEW d, NEW stop, UpTo(c, d, stop), d.pos # 0
  PROVE  Run(d)
<1>1. Len(c.steps) \in Nat /\ c.pos \in Nat /\ stop \in Nat
  BY StepsAreSeq DEF Moving, UpTo
<1>2. Rows(d) /\ d.steps = c.steps
  BY DEF UpTo
<1>3. CASE stop > Len(c.steps)
  BY <1>2, <1>3 DEF UpTo, Run, RunStatus
<1>4. CASE stop <= Len(c.steps) /\ c.steps[stop].type = "fixed_message"
  <2>1. d.status = "waiting_outbound" /\ d.awaits = stop /\ d.pos = stop /\ StepJobs(d, stop) # {}
    BY <1>1, <1>4 DEF UpTo
  <2> QED BY <1>2, <2>1 DEF Run, RunStatus
<1>5. CASE stop <= Len(c.steps) /\ c.steps[stop].type # "fixed_message"
  <2>1. d.status = "active" /\ d.awaits = 0
    BY <1>1, <1>5 DEF UpTo
  <2> QED BY <1>2, <2>1 DEF Run, RunStatus
<1> QED BY <1>1, <1>3, <1>4, <1>5

\* Taking up a step that decides.
LEMMA MovedToStep ==
  ASSUME NEW c, NEW step, AtStep(c, step), NEW d,
         DOMAIN d = RunFields, d.steps = c.steps, d.jobs = c.jobs, d.pos = step
  PROVE  /\ Rows(d)
         /\ c.steps[step].type = "interest_gate" =>
              \A job \in StepJobs(d, step) : job.status # "open"
<1>1. CASE c.pos + 1 = step
  <2>1. /\ Rows(c) /\ d.pos = c.pos + 1 /\ c.steps[d.pos].type # "fixed_message"
        /\ d.pos <= Len(c.steps)
    BY <1>1, StepsAreSeq DEF AtStep, Moving
  <2>2. Rows(d) /\ StepJobs(d, d.pos) = {}
    BY <2>1, RowsMoveToGate
  <2> QED BY <2>2
<1>2. CASE c.pos = step
  BY <1>2, RowsSame DEF AtStep, Moving
<1> QED BY <1>1, <1>2 DEF AtStep

\* The reply of a step is waited for.
LEMMA RepliedAtStep ==
  ASSUME NEW c, NEW step \in 1..Len(c.steps), Rows(c), c.pos = step, NEW asks,
         c.steps[step].type # "fixed_message",
         c.steps[step].type = "interest_gate" =>
           \A job \in StepJobs(c, step) : job.status # "open"
  PROVE  Run(AwaitReplyAfter(ScheduleReply(c, step, asks), step))
<1> DEFINE d == AwaitReplyAfter(ScheduleReply(c, step, asks), step)
<1>1. /\ DOMAIN d = RunFields /\ d.steps = c.steps /\ d.pos = c.pos
      /\ d.jobs = c.jobs \cup NewJobs(c, {step})
      /\ d.status = "waiting_outbound" /\ d.awaits = step
  BY DEF AwaitReplyAfter, ScheduleReply, RunFields, Rows
<1> HIDE DEF d
<1>2. Rows(d) /\ StepJobs(d, step) # {}
  BY <1>1, RowsReply
<1>3. d.pos # 0
  BY <1>1
<1> QED BY <1>1, <1>2, <1>3 DEF Run, RunStatus, d

\* What a decision does to the run itself.
LEMMA DecidedKeeps ==
  ASSUME NEW c, DOMAIN c = RunFields, NEW d, NEW step
  PROVE  LET decided == [ApplyDecision(c, d) EXCEPT !.pos = step]
         IN  /\ DOMAIN decided = RunFields /\ decided.steps = c.steps
             /\ decided.jobs = c.jobs /\ decided.pos = step
             /\ decided.status = c.status /\ decided.awaits = c.awaits
BY DEF ApplyDecision, RunFields

\* A turn of the brain.
LEMMA BrainStepIsRun ==
  ASSUME NEW c, NEW step, AtStep(c, step), NEW d, c.steps[step].type # "interest_gate"
  PROVE  Run(RunBrainStep(c, step, d))
<1> DEFINE decided == [ApplyDecision(c, d) EXCEPT !.pos = step]
           o == RunBrainStep(c, step, d)
           over == IF d.action = "handoff" \/ d.after \in HandedOverStates
                   THEN "handoff" ELSE "completed"
<1>1. /\ DOMAIN decided = RunFields /\ decided.steps = c.steps
      /\ decided.jobs = c.jobs /\ decided.pos = step
  BY DecidedKeeps DEF AtStep, Moving, Rows
<1>2. o = IF TurnEnds(d) THEN [decided EXCEPT !.status = over]
          ELSE IF HasReply(d) THEN AwaitReplyAfter(ScheduleReply(decided, step, d.asks), step)
          ELSE [decided EXCEPT !.status = "awaiting_reply", !.awaits = step]
  BY DEF RunBrainStep
<1> HIDE DEF o, decided
<1>3. step # 0 /\ step \in 1..Len(decided.steps) /\ c.steps[step].type # "fixed_message"
  BY <1>1, StepsAreSeq DEF AtStep, Moving
<1>4. CASE TurnEnds(d)
  <2>1. /\ DOMAIN o = RunFields /\ o.steps = c.steps /\ o.jobs = c.jobs /\ o.pos = step
        /\ o.status \in {"handoff", "completed"}
    BY <1>1, <1>2, <1>4 DEF RunFields
  <2>2. Rows(o)
    BY <2>1, MovedToStep
  <2> QED BY <1>3, <2>1, <2>2 DEF Run, RunStatus, o
<1>5. CASE ~TurnEnds(d) /\ HasReply(d)
  <2>1. Rows(decided)
    BY <1>1, MovedToStep
  <2>2. Run(AwaitReplyAfter(ScheduleReply(decided, step, d.asks), step))
    BY <1>1, <1>3, <2>1, RepliedAtStep
  <2> QED BY <1>2, <1>5, <2>2 DEF o
<1>6. CASE ~TurnEnds(d) /\ ~HasReply(d)
  <2>1. /\ DOMAIN o = RunFields /\ o.steps = c.steps /\ o.jobs = c.jobs /\ o.pos = step
        /\ o.status = "awaiting_reply" /\ o.awaits = step
    BY <1>1, <1>2, <1>6 DEF RunFields
  <2>2. Rows(o)
    BY <2>1, MovedToStep
  <2> QED BY <1>3, <2>1, <2>2 DEF Run, RunStatus, o
<1> QED BY <1>4, <1>5, <1>6

\* The older step.
LEMMA LlmStepIsRun ==
  ASSUME NEW c, NEW step, AtStep(c, step), NEW verdict, NEW replies
  PROVE  Run(RunLlmStep(c, step, verdict, replies))
<1> DEFINE decided == [c EXCEPT !.pos = step]
           o == RunLlmStep(c, step, verdict, replies)
<1>1. /\ DOMAIN decided = RunFields /\ decided.steps = c.steps
      /\ decided.jobs = c.jobs /\ decided.pos = step
  BY DEF AtStep, Moving, Rows, RunFields
<1>2. \/ o = [decided EXCEPT !.open = @ + 1, !.status = "handoff"]
      \/ o = [ScheduleReply(decided, 0, "other") EXCEPT !.status = "completed"]
      \/ o = [decided EXCEPT !.status = "completed"]
  BY DEF RunLlmStep
<1> HIDE DEF o, decided
<1>3. /\ DOMAIN o = RunFields /\ o.steps = c.steps /\ o.pos = step
      /\ o.jobs = c.jobs \/ o.jobs = decided.jobs \cup NewJobs(decided, {0})
      /\ o.status \in {"handoff", "completed"}
  BY <1>1, <1>2 DEF RunFields, ScheduleReply
<1>4. Rows(decided)
  BY <1>1, MovedToStep
<1>5. Rows(o)
  <2>1. CASE o.jobs = c.jobs
    BY <1>3, <2>1, MovedToStep
  <2>2. CASE o.jobs = decided.jobs \cup NewJobs(decided, {0})
    BY <1>1, <1>3, <1>4, <2>2, RowsReply
  <2> QED BY <1>3, <2>1, <2>2
<1>6. step # 0
  BY StepsAreSeq DEF AtStep, Moving
<1> QED BY <1>3, <1>5, <1>6 DEF Run, RunStatus, o

\* The gate.
LEMMA GateIsRun ==
  ASSUME NEW c, NEW step, AtStep(c, step), NEW d, c.steps[step].type = "interest_gate"
  PROVE  Run(RunInterestGate(c, step, d))
<1> DEFINE decided == [ApplyDecision(c, d) EXCEPT !.pos = step]
           o == RunInterestGate(c, step, d)
<1>1. /\ DOMAIN decided = RunFields /\ decided.steps = c.steps
      /\ decided.jobs = c.jobs /\ decided.pos = step
      /\ decided.status = "active" /\ decided.awaits = 0
  BY DecidedKeeps DEF AtStep, Moving, Rows
<1>2. o = IF d.after \in TerminalStates THEN [decided EXCEPT !.status = "completed"]
          ELSE IF HasReply(d) THEN AwaitReplyAfter(ScheduleReply(decided, step, d.asks), step)
          ELSE IF GateContinues(d) THEN ScheduleUpToStop(decided) ELSE decided
  BY DEF RunInterestGate
<1> HIDE DEF o, decided
<1>3. step # 0 /\ step \in 1..Len(decided.steps) /\ c.steps[step].type # "fixed_message"
  BY <1>1, StepsAreSeq DEF AtStep, Moving
<1>4. Rows(decided) /\ \A job \in StepJobs(decided, step) : job.status # "open"
  BY <1>1, MovedToStep
<1>5. CASE o = [decided EXCEPT !.status = "completed"]
  <2>1. /\ DOMAIN o = RunFields /\ o.steps = c.steps /\ o.jobs = c.jobs /\ o.pos = step
        /\ o.status = "completed"
    BY <1>1, <1>5 DEF RunFields
  <2>2. Rows(o)
    BY <2>1, MovedToStep
  <2> QED BY <1>3, <2>1, <2>2 DEF Run, RunStatus, o
<1>6. CASE o = AwaitReplyAfter(ScheduleReply(decided, step, d.asks), step)
  BY <1>1, <1>3, <1>4, <1>6, RepliedAtStep DEF o
<1>7. CASE o = ScheduleUpToStop(decided)
  <2>1. Moving(decided)
    BY <1>1, <1>4 DEF Moving
  <2>2. UpTo(decided, o, NextStop(decided))
    BY <1>7, <2>1, ScheduledUpToStop
  <2>3. o.pos # 0
    <3>1. NextStop(decided) - 1 # 0 /\ NextStop(decided) # 0
      BY <1>1, <1>3, <2>2 DEF UpTo
    <3>2. o.pos = NextStop(decided) - 1 \/ o.pos = NextStop(decided)
      BY <2>2 DEF UpTo
    <3> QED BY <3>1, <3>2
  <2> QED BY <2>1, <2>2, <2>3, UpToIsRun DEF o
<1>8. CASE o = decided
  BY <1>1, <1>3, <1>4, <1>8 DEF Run, RunStatus, o
<1> QED BY <1>2, <1>5, <1>6, <1>7, <1>8

\* Whatever is decided at a step, it leaves a run.
LEMMA StepOutcomesAreRuns ==
  ASSUME NEW c, NEW step, AtStep(c, step), NEW text, NEW first \in BOOLEAN,
         NEW o \in StepOutcomes(c, step, text, first)
  PROVE  Run(o)
<1>1. CASE c.steps[step].type = "interest_gate"
  BY <1>1, GateIsRun DEF StepOutcomes
<1>2. CASE c.steps[step].type = "llm_decision" /\ first
  BY <1>2, LlmStepIsRun DEF StepOutcomes
<1>3. CASE c.steps[step].type # "interest_gate" /\ ~(c.steps[step].type = "llm_decision" /\ first)
  BY <1>3, BrainStepIsRun DEF StepOutcomes
<1> QED BY <1>1, <1>2, <1>3

\* Whatever comes after an answered fixed message leaves a run.
LEMMA NextStepsAreRuns ==
  ASSUME NEW c, Moving(c), c.pos # 0, NEW text, NEW o \in ProcessNextSteps(c, text)
  PROVE  Run(o)
<1> DEFINE stop == NextStop(c)
           done == ScheduleUpToStop(c)
<1>1. UpTo(c, done, stop)
  BY ScheduledUpToStop
<1>2. Len(c.steps) \in Nat /\ c.pos \in Nat
  BY StepsAreSeq DEF Moving
<1>3. /\ stop > Len(c.steps) \/ c.steps[stop].type = "fixed_message" => o = done
      /\ ~(stop > Len(c.steps) \/ c.steps[stop].type = "fixed_message") =>
           o \in StepOutcomes(done, stop, text, TRUE)
  BY DEF ProcessNextSteps
<1> HIDE DEF stop, done
<1>4. stop \in Nat /\ stop > c.pos /\ stop # 0 /\ stop - 1 # 0 /\ stop >= 1
  BY <1>1, <1>2 DEF UpTo
<1>5. CASE o = done
  <2>1. done.pos # 0
    <3>1. done.pos = stop - 1 \/ done.pos = stop
      BY <1>1 DEF UpTo
    <3> QED BY <1>4, <3>1
  <2> QED BY <1>1, <1>5, <2>1, UpToIsRun
<1>6. CASE ~(stop > Len(c.steps) \/ c.steps[stop].type = "fixed_message")
  <2>1. /\ Rows(done) /\ done.steps = c.steps
        /\ done.status = "active" /\ done.awaits = 0 /\ done.pos = stop - 1
    BY <1>2, <1>4, <1>1, <1>6 DEF UpTo
  <2>2. stop \in 1..Len(done.steps) /\ done.pos + 1 = stop
    BY <1>2, <1>4, <1>6, <2>1
  <2>3. AtStep(done, stop)
    BY <1>6, <2>1, <2>2 DEF AtStep, Moving
  <2> QED BY <1>3, <1>6, <2>3, StepOutcomesAreRuns
<1> QED BY <1>3, <1>5, <1>6

\* A gate whose last question was sent has none that is open.
LEMMA SentIsAnswered ==
  ASSUME NEW c, Rows(c), c.pos # 0, LatestSent(c, c.pos),
         c.steps[c.pos].type = "interest_gate"
  PROVE  \A job \in StepJobs(c, c.pos) : job.status # "open"
<1> SUFFICES ASSUME NEW job \in StepJobs(c, c.pos), job.status = "open" PROVE FALSE
  OBVIOUS
<1>0. c.pos \in 1..c.pos
  BY StepsAreSeq
<1>1. PICK last \in StepJobs(c, c.pos) :
        last.status = "sent" /\ \A other \in StepJobs(c, c.pos) : other.at <= last.at
  BY DEF LatestSent
<1>2. \A other \in StepJobs(c, c.pos) : other.at <= job.at
  BY <1>0 DEF Rows
<1>3. /\ last \in c.jobs /\ job \in c.jobs /\ last.step = job.step
      /\ last.at \in Nat /\ job.at \in Nat
  BY DEF StepJobs, Rows, Job
<1>4. last.at = job.at
  BY <1>1, <1>2, <1>3
<1>5. last = job
  BY <1>3, <1>4 DEF Rows
<1> QED BY <1>1, <1>5

\* A message of the candidate leaves a run, and one that ended as it was.
LEMMA InboundOutcomesAreRuns ==
  ASSUME NEW c, Run(c), NEW text, NEW o \in InboundOutcomes(c, text)
  PROVE  /\ Run(o)
         /\ c.status \in {"completed", "handoff"} /\ c.state \in TerminalStates => o = c
<1> DEFINE run == Reopened(c)
           step == run.awaits
           back == [run EXCEPT !.status = "active", !.awaits = 0, !.pos = step]
<1>1. /\ Rows(c) /\ DOMAIN c = RunFields /\ c.pos # 0
      /\ Len(c.steps) \in Nat /\ c.pos \in Nat /\ c.pos \in 0..Len(c.steps)
  BY StepsAreSeq DEF Run, Rows
<1>2. /\ run.status # "awaiting_reply" => o = run
      /\ run.status = "awaiting_reply" /\ run.steps[step].type = "fixed_message" =>
           o \in ProcessNextSteps(back, text)
      /\ run.status = "awaiting_reply" /\ run.steps[step].type # "fixed_message" =>
           o \in StepOutcomes(back, step, text, FALSE)
  BY DEF InboundOutcomes
<1>3. /\ DOMAIN run = RunFields /\ run.steps = c.steps /\ run.pos = c.pos /\ run.jobs = c.jobs
      /\ \/ run = c
         \/ /\ CanReopen(c) /\ run.status = "awaiting_reply" /\ run.awaits = c.pos
            /\ c.steps[c.pos].type \in {"brain_turn", "llm_decision"}
  BY <1>1 DEF Reopened, CanReopen, RunFields
<1>4. c.status \in {"completed", "handoff"} /\ c.state \in TerminalStates => run = c
  BY DEF Reopened, CanReopen
<1> HIDE DEF run
<1>5. Run(run)
  <2>1. CASE run = c
    BY <2>1
  <2>2. CASE run # c
    <3>1. Rows(run)
      BY <1>1, <1>3, RowsSame
    <3> QED BY <1>1, <1>3, <2>2, <3>1 DEF Run, RunStatus
  <2> QED BY <2>1, <2>2
<1>6. CASE run.status # "awaiting_reply"
  BY <1>2, <1>4, <1>5, <1>6
<1>7. CASE run.status = "awaiting_reply"
  <2>1. step = c.pos
    BY <1>3, <1>5, <1>7 DEF Run
  <2>2. /\ DOMAIN back = RunFields /\ back.steps = c.steps /\ back.pos = c.pos
        /\ back.jobs = c.jobs /\ back.status = "active" /\ back.awaits = 0
    BY <1>3, <2>1 DEF RunFields
  <2> HIDE DEF back
  <2>3. Moving(back) /\ \A s : StepJobs(back, s) = StepJobs(c, s)
    BY <1>1, <2>2, RowsSame DEF Moving
  <2>4. CASE run.steps[step].type = "fixed_message"
    <3>1. o \in ProcessNextSteps(back, text) /\ back.pos # 0 /\ Moving(back)
      BY <1>1, <1>2, <1>7, <2>2, <2>3, <2>4
    <3>2. Run(o)
      BY <3>1, NextStepsAreRuns
    <3> QED BY <1>4, <1>7, <3>2
  <2>5. CASE run.steps[step].type # "fixed_message"
    <3>1. \A s : StepJobs(run, s) = StepJobs(c, s)
      BY <1>3 DEF StepJobs
    <3>2. c.steps[c.pos].type = "interest_gate" =>
            \A job \in StepJobs(c, c.pos) : job.status # "open"
      <4> SUFFICES ASSUME c.steps[c.pos].type = "interest_gate"
                   PROVE  \A job \in StepJobs(c, c.pos) : job.status # "open"
        OBVIOUS
      <4>1. LatestSent(c, c.pos)
        BY <1>3, <1>5, <1>7, <3>1 DEF Run, LatestSent
      <4> QED BY <1>1, <4>1, SentIsAnswered
    <3>3. step \in 1..Len(c.steps)
      BY <1>1, <2>1
    <3>4. AtStep(back, step)
      BY <1>3, <2>1, <2>2, <2>3, <2>5, <3>2, <3>3 DEF AtStep
    <3>5. Run(o)
      BY <1>2, <1>7, <2>5, <3>4, StepOutcomesAreRuns
    <3> QED BY <1>4, <1>7, <3>5
  <2>6. ~(c.status \in {"completed", "handoff"} /\ c.state \in TerminalStates)
    BY <1>4, <1>7
  <2> QED BY <2>4, <2>5, <2>6
<1> QED BY <1>6, <1>7

\* A job that ends, with what the worker makes of the run.
LEMMA EndedIsRun ==
  ASSUME NEW c, Run(c), NEW job \in c.jobs, job.status = "open"
  PROVE  /\ Run(MarkOutboundSent(Ended(c, {job}, "sent"), job))
         /\ Run(Ended(c, {job}, "dropped"))
<1>1. Rows(c) /\ DOMAIN c = RunFields /\ c.pos # 0
  BY DEF Run, Rows
<1>2. ASSUME NEW st \in {"sent", "dropped"}
      PROVE  LET d == Ended(c, {job}, st)
             IN  /\ DOMAIN d = RunFields /\ d.steps = c.steps /\ d.pos = c.pos
                 /\ d.status = c.status /\ d.awaits = c.awaits
                 /\ Rows(d)
                 /\ \A s : StepJobs(c, s) # {} => StepJobs(d, s) # {}
                 /\ \A s : LatestSent(c, s) => LatestSent(d, s)
  <2> DEFINE d == Ended(c, {job}, st)
  <2>1. /\ DOMAIN d = RunFields /\ d.steps = c.steps /\ d.pos = c.pos
        /\ d.status = c.status /\ d.awaits = c.awaits
    BY <1>1 DEF Ended, RunFields
  <2>2. d.jobs = Ended(c, {job}, st).jobs
    OBVIOUS
  <2> HIDE DEF d
  <2>3. /\ Rows(d)
        /\ \A s : StepJobs(c, s) # {} => StepJobs(d, s) # {}
        /\ \A s : LatestSent(c, s) => LatestSent(d, s)
    BY <1>1, <2>1, <2>2, RowsEnd
  <2> QED BY <2>1, <2>3 DEF d
<1>3. \A st \in {"sent", "dropped"} : Run(Ended(c, {job}, st))
  BY <1>2 DEF Run
<1> DEFINE d == Ended(c, {job}, "sent")
           o == MarkOutboundSent(d, job)
<1>4. /\ DOMAIN d = RunFields /\ d.steps = c.steps /\ d.pos = c.pos
      /\ d.status = c.status /\ d.awaits = c.awaits /\ Rows(d) /\ Run(d)
  BY <1>2, <1>3
<1>5. d.jobs = (c.jobs \ {job}) \cup {[job EXCEPT !.status = "sent"]}
  BY <1>1 DEF Ended, RunFields
<1>6. \/ o = d
      \/ /\ o = [d EXCEPT !.status = "awaiting_reply"]
         /\ job.step # 0 /\ d.awaits = job.step /\ d.status \in {"active", "waiting_outbound"}
  BY DEF MarkOutboundSent
<1> HIDE DEF d, o
<1>7. ASSUME o # d PROVE Run(o)
  <2>1. /\ DOMAIN o = RunFields /\ o.steps = d.steps /\ o.pos = d.pos /\ o.jobs = d.jobs
        /\ o.status = "awaiting_reply" /\ o.awaits = d.awaits
    BY <1>4, <1>6, <1>7 DEF RunFields
  <2>2. d.status = "waiting_outbound" /\ d.awaits = c.pos /\ job.step = c.pos
    BY <1>4, <1>6, <1>7 DEF Run
  <2>3. Rows(o)
    BY <1>4, <2>1, RowsSame
  <2>4. ASSUME c.steps[c.pos].type \in {"fixed_message", "interest_gate"}
        PROVE  \A other \in StepJobs(c, c.pos) : other.at <= job.at
    <3>1. job \in StepJobs(c, c.pos) /\ c.pos \in 1..c.pos /\ job.at \in Nat
      BY <1>1, <2>2, StepsAreSeq DEF StepJobs, Rows, Job
    <3>2. CASE c.steps[c.pos].type = "fixed_message"
      <4>1. \E only : StepJobs(c, c.pos) = {only}
        BY <1>1, <3>1, <3>2 DEF Rows
      <4> QED BY <3>1, <4>1
    <3>3. CASE c.steps[c.pos].type = "interest_gate"
      BY <1>1, <3>1, <3>3 DEF Rows
    <3> QED BY <2>4, <3>2, <3>3
  <2>5. ASSUME c.steps[c.pos].type \in {"fixed_message", "interest_gate"}
        PROVE  LatestSent(o, c.pos)
    <3> DEFINE sent == [job EXCEPT !.status = "sent"]
    <3>1. sent.step = c.pos /\ sent.at = job.at /\ sent.status = "sent"
      BY <1>1, <2>2 DEF Rows, Job
    <3>2. sent \in StepJobs(o, c.pos)
      BY <1>5, <2>1, <3>1 DEF StepJobs
    <3> HIDE DEF sent
    <3>3. \A other \in StepJobs(o, c.pos) : other \in StepJobs(c, c.pos) \/ other = sent
      BY <1>5, <2>1 DEF StepJobs, sent
    <3>4. job.at \in Nat
      BY <1>1 DEF Rows, Job
    <3>5. \A other \in StepJobs(o, c.pos) : other.at <= sent.at
      BY <2>4, <2>5, <3>1, <3>3, <3>4
    <3> QED BY <3>1, <3>2, <3>5 DEF LatestSent
  <2> QED BY <1>1, <1>4, <2>1, <2>2, <2>3, <2>5 DEF Run, RunStatus
<1>8. Run(o)
  BY <1>4, <1>7
<1> QED BY <1>3, <1>8 DEF d, o

(***************************************************************************)
(* The start of a run, and what repairs or ends it from outside.            *)
(***************************************************************************)

\* A new run waits for its first message.
LEMMA StartedIsRun ==
  ASSUME NEW steps \in Campaigns PROVE Run(StartRun(steps))
<1> DEFINE c == [NoConversation EXCEPT !.steps = steps, !.status = "active"]
           d == ScheduleUpToStop(c)
           stop == NextStop(c)
<1>1. /\ DOMAIN c = RunFields /\ c.steps = steps /\ c.status = "active" /\ c.awaits = 0
      /\ c.pos = 0 /\ c.jobs = {}
  BY DEF NoConversation, RunFields
<1>2. /\ steps \in Seq(StepRecord) /\ steps # <<>> /\ Len(steps) \in Nat
      /\ steps[1].type = "fixed_message" /\ steps[1].wait
  BY CampaignConstantsOK
<1> HIDE DEF c
<1>3. Len(steps) >= 1
  BY <1>2
<1>4. Rows(c)
  <2>1. IsFiniteSet(c.jobs) /\ c.jobs \subseteq Job /\ c.pos \in 0..Len(c.steps)
    BY <1>1, <1>2, FS_EmptySet
  <2>2. 1..c.pos = {}
    BY <1>1
  <2> QED BY <1>1, <2>1, <2>2 DEF Rows
<1>5. Moving(c)
  BY <1>1, <1>4 DEF Moving
<1>6. UpTo(c, d, stop)
  BY <1>5, ScheduledUpToStop
<1>7. /\ stop \in 1..(Len(steps) + 1)
      /\ \A k \in 1..(stop - 1) : ~steps[k].wait
  <2>1. c.steps \in Seq(StepRecord) /\ c.pos \in 0..Len(c.steps) /\ c.pos + 1 = 1
    BY <1>1, <1>2, <1>3
  <2> QED BY <1>1, <2>1, NextStopExists
<1> HIDE DEF stop, d
<1>8. stop = 1
  <2>1. ~(1 \in 1..(stop - 1))
    BY <1>2, <1>7
  <2> QED BY <1>2, <1>7, <2>1
<1>9. d.pos = 1
  BY <1>1, <1>2, <1>3, <1>6, <1>8 DEF UpTo
<1>10. Run(d)
  BY <1>5, <1>6, <1>9, UpToIsRun
<1> QED BY <1>10 DEF StartRun, d, c

\* Of the jobs of a step one is the latest.
LEMMA LatestJobExists ==
  ASSUME NEW c, Rows(c), NEW s, StepJobs(c, s) # {}
  PROVE  /\ LatestJob(c, s) \in StepJobs(c, s)
         /\ \A other \in StepJobs(c, s) : other.at <= LatestJob(c, s).at
<1> DEFINE n == Cardinality(c.jobs)
           S == {n - job.at : job \in StepJobs(c, s)}
<1>1. n \in Nat
  BY StepsAreSeq
<1>2. \A job \in StepJobs(c, s) : job.at \in Nat /\ job.at < n
  BY DEF StepJobs, Rows, Job
<1> HIDE DEF n
<1>3. S \subseteq Nat /\ S # {}
  BY <1>1, <1>2
<1>4. PICK m \in S : \A k \in S : m <= k
  BY <1>3, NatMin
<1>5. PICK job \in StepJobs(c, s) : m = n - job.at
  BY <1>4
<1>6. \A other \in StepJobs(c, s) : other.at <= job.at
  <2> TAKE other \in StepJobs(c, s)
  <2>1. m <= n - other.at
    BY <1>4
  <2> QED BY <1>1, <1>2, <1>5, <2>1
<1>7. \E j : /\ j \in c.jobs /\ j.step = s
             /\ \A other \in c.jobs : other.step = s => other.at <= j.at
  BY <1>5, <1>6 DEF StepJobs
<1>8. LatestJob(c, s) =
        CHOOSE j \in c.jobs : j.step = s /\ \A other \in c.jobs : other.step = s => other.at <= j.at
  BY DEF LatestJob
<1> QED BY <1>7, <1>8 DEF StepJobs

\* The recovery pass leaves a run, and never schedules anything.
LEMMA RecoveredIsRun ==
  ASSUME NEW c, Run(c), c.status = "waiting_outbound"
  PROVE  /\ HasJob(c, c.awaits)
         /\ LET status == RecoverAs(LatestJob(c, c.awaits).status)
            IN  status # "waiting_outbound" => Run([c EXCEPT !.status = status])
<1> DEFINE job == LatestJob(c, c.pos)
           status == RecoverAs(job.status)
           d == [c EXCEPT !.status = status]
<1>1. Rows(c) /\ DOMAIN c = RunFields /\ c.pos # 0 /\ c.awaits = c.pos /\ StepJobs(c, c.pos) # {}
  BY DEF Run, Rows
<1>2. job \in StepJobs(c, c.pos) /\ \A other \in StepJobs(c, c.pos) : other.at <= job.at
  BY <1>1, LatestJobExists
<1> HIDE DEF job
<1>3. status \in {"awaiting_reply", "waiting_outbound", "failed"}
      /\ (status = "awaiting_reply" => job.status = "sent")
  BY DEF RecoverAs
<1>4. /\ DOMAIN d = RunFields /\ d.steps = c.steps /\ d.pos = c.pos /\ d.jobs = c.jobs
      /\ d.awaits = c.awaits /\ d.status = status
  BY <1>1 DEF RunFields
<1> HIDE DEF d, status
<1>5. Rows(d) /\ \A s : StepJobs(d, s) = StepJobs(c, s)
  BY <1>1, <1>4, RowsSame
<1>6. status = "awaiting_reply" => LatestSent(d, c.pos)
  BY <1>2, <1>3, <1>5 DEF LatestSent
<1>7. status # "waiting_outbound" => Run(d)
  BY <1>1, <1>3, <1>4, <1>5, <1>6 DEF Run, RunStatus
<1>8. HasJob(c, c.awaits)
  BY <1>1 DEF HasJob, StepJobs
<1> QED BY <1>1, <1>7, <1>8 DEF d, status, job

\* A reset leaves a run with the jobs it had.
LEMMA ResetIsRun ==
  ASSUME NEW c, Run(c), NEW J, J \subseteq c.jobs, \A job \in J : job.status = "open",
         NEW d, DOMAIN d = RunFields, d.steps = c.steps, d.pos = c.pos,
         d.jobs = Ended(c, J, "dropped").jobs, d.status \in {"completed", "handoff", "failed"}
  PROVE  /\ Run(d)
         /\ \A job \in d.jobs : \E old \in c.jobs : old.at = job.at /\ old.step = job.step
<1>1. Rows(c) /\ c.pos # 0
  BY DEF Run
<1>2. /\ Rows(d)
      /\ \A job \in d.jobs : \E old \in c.jobs : old.at = job.at /\ old.step = job.step
  BY <1>1, RowsEnd
<1> QED BY <1>1, <1>2 DEF Run, RunStatus

(***************************************************************************)
(* The invariant.                                                           *)
(***************************************************************************)
Inv ==
  /\ intake \in [Requests -> Request]
  /\ event \in [Leads -> {"none", "accepted", "failed"}]
  /\ DOMAIN conv = Leads
  /\ \A l \in Leads : IF event[l] = "accepted" THEN Run(conv[l]) ELSE conv[l] = NoConversation
  /\ \A r \in Requests :
       /\ intake[r].phase # "new" => intake[r].lead \in Leads
       /\ intake[r].phase \in {"accepted", "failed", "idempotent"} => event[intake[r].lead] # "none"
  /\ \A r, q \in Requests :
       /\ intake[r].phase \in {"accepted", "failed"} /\ intake[q].phase \in {"accepted", "failed"}
       /\ intake[r].lead = intake[q].lead
       => r = q

\* Nothing has been asked for.
LEMMA InitInv == Init => Inv
<1> SUFFICES ASSUME Init PROVE Inv
  OBVIOUS
<1>1. NewRequest \in Request
  BY DEF NewRequest, Request
<1>2. \A r \in Requests : intake[r].phase = "new"
  BY DEF Init, NewRequest
<1> QED BY <1>1, <1>2 DEF Init, Inv

\* A change of one conversation that leaves a run keeps the invariant.
LEMMA BecomesInv ==
  ASSUME Inv, NEW l \in Leads, NEW c, Becomes(l, c), Run(conv[l]) => Run(c), Started(l)
  PROVE  Inv'
<1>1. Run(conv[l]) /\ event[l] = "accepted"
  BY DEF Inv, Started, NoConversation
<1>2. UNCHANGED <<intake, event>> /\ DOMAIN conv' = Leads
      /\ conv'[l] = c /\ \A m \in Leads : m # l => conv'[m] = conv[m]
  BY DEF Becomes, Inv
<1> QED BY <1>1, <1>2 DEF Inv

\* A run that is under way has a started conversation; other leads have no jobs.
LEMMA StartedRuns ==
  ASSUME Inv, NEW l \in Leads
  PROVE  /\ Started(l) <=> event[l] = "accepted"
         /\ Started(l) => Run(conv[l])
         /\ ~Started(l) => conv[l] = NoConversation
BY DEF Inv, Started, Run, NoConversation

\* What a candidate's message, the worker, the recovery, a reset or an operator
\* makes of a run.
LEMMA ConversationSteps ==
  ASSUME Inv, NEW l \in Leads,
         \/ HandleInbound(l) \/ Recover(l) \/ ResetConversation(l) \/ UpdateLeadStatus(l)
         \/ \E job \in conv[l].jobs : SendJob(l, job) \/ DropJob(l, job)
  PROVE  /\ Started(l)
         /\ \E c : /\ Becomes(l, c) /\ Run(c)
                   /\ conv[l].status \in {"completed", "handoff"} /\ conv[l].state \in TerminalStates =>
                        /\ c.status = conv[l].status
                        /\ \A job \in c.jobs : \E old \in conv[l].jobs :
                             old.at = job.at /\ old.step = job.step
<1> DEFINE here == conv[l]
           Stays(c) == here.status \in {"completed", "handoff"} /\ here.state \in TerminalStates =>
                        /\ c.status = here.status
                        /\ \A job \in c.jobs : \E old \in here.jobs :
                             old.at = job.at /\ old.step = job.step
<1>1. Started(l)
  <2>1. \A job \in NoConversation.jobs : FALSE
    BY DEF NoConversation
  <2>2. NoConversation.status = "none"
    BY DEF NoConversation
  <2> QED BY <2>1, <2>2, StartedRuns
       DEF HandleInbound, Recover, ResetConversation, UpdateLeadStatus, Started
<1>2. Run(here) /\ DOMAIN here = RunFields /\ Rows(here)
  BY <1>1, StartedRuns DEF Run, Rows
<1> HIDE DEF here
<1>3. CASE HandleInbound(l)
  <2> DEFINE c == [here EXCEPT !.inbound = @ + 1]
  <2>0. PICK text \in Texts : \E o \in InboundOutcomes(c, text) : Becomes(l, o)
    BY <1>3 DEF HandleInbound, here
  <2>1. PICK o \in InboundOutcomes(c, text) : Becomes(l, o)
    BY <2>0
  <2>2. /\ DOMAIN c = RunFields /\ c.steps = here.steps /\ c.pos = here.pos /\ c.jobs = here.jobs
        /\ c.status = here.status /\ c.awaits = here.awaits /\ c.state = here.state
    BY <1>2 DEF RunFields
  <2> HIDE DEF c
  <2>3. Rows(c) /\ \A s : StepJobs(c, s) = StepJobs(here, s)
    BY <1>2, <2>2, RowsSame
  <2>4. Run(c)
    BY <1>2, <2>2, <2>3 DEF Run, LatestSent
  <2>5. Run(o) /\ (c.status \in {"completed", "handoff"} /\ c.state \in TerminalStates => o = c)
    BY <2>1, <2>4, InboundOutcomesAreRuns
  <2>6. Stays(o)
    BY <2>2, <2>5
  <2> QED BY <1>1, <2>1, <2>5, <2>6 DEF here
<1>4. CASE Recover(l)
  <2>1. here.status = "waiting_outbound" /\ HasJob(here, here.awaits)
    BY <1>2, <1>4, RecoveredIsRun DEF Recover, here
  <2> DEFINE status == RecoverAs(LatestJob(here, here.awaits).status)
             c == [here EXCEPT !.status = status]
  <2>2. status # "waiting_outbound" /\ Becomes(l, c)
    BY <1>4, <2>1 DEF Recover, here
  <2>3. Run(c)
    BY <1>2, <2>1, <2>2, RecoveredIsRun
  <2>4. Stays(c)
    BY <2>1
  <2> QED BY <1>1, <2>2, <2>3, <2>4 DEF here
<1>5. CASE ResetConversation(l)
  <2> DEFINE open == {job \in here.jobs : job.status = "open"}
             state == IF here.state \in TerminalStates THEN here.state ELSE "LOST"
             status == IF here.status \in {"active", "waiting_outbound", "awaiting_reply"}
                       THEN "completed" ELSE here.status
             c == [Ended(here, open, "dropped") EXCEPT !.state = state, !.status = status]
  <2>1. /\ Ended(here, open, "dropped").state = here.state
        /\ Ended(here, open, "dropped").status = here.status
    BY <1>2 DEF Ended, RunFields
  <2>2. Becomes(l, c)
    BY <1>5, <2>1 DEF ResetConversation, here
  <2>3. /\ DOMAIN c = RunFields /\ c.steps = here.steps /\ c.pos = here.pos
        /\ c.status = status /\ c.jobs = Ended(here, open, "dropped").jobs
    BY <1>2 DEF Ended, RunFields
  <2>4. open \subseteq here.jobs /\ \A job \in open : job.status = "open"
    OBVIOUS
  <2>5. status \in {"completed", "handoff", "failed"}
    BY <1>2 DEF Run, RunStatus
  <2>6. here.status \in {"completed", "handoff"} => status = here.status
    OBVIOUS
  <2> HIDE DEF c, open, status
  <2>7. /\ Run(c)
        /\ \A job \in c.jobs : \E old \in here.jobs : old.at = job.at /\ old.step = job.step
    BY <1>2, <2>3, <2>4, <2>5, ResetIsRun
  <2>8. Stays(c)
    BY <2>3, <2>6, <2>7
  <2> QED BY <1>1, <2>2, <2>7, <2>8 DEF here
<1>6. CASE UpdateLeadStatus(l)
  <2>1. PICK state : Becomes(l, [here EXCEPT !.state = state])
    BY <1>6 DEF UpdateLeadStatus, here
  <2> DEFINE c == [here EXCEPT !.state = state]
  <2>2. /\ DOMAIN c = RunFields /\ c.steps = here.steps /\ c.pos = here.pos /\ c.jobs = here.jobs
        /\ c.status = here.status /\ c.awaits = here.awaits
    BY <1>2 DEF RunFields
  <2>3. Becomes(l, c)
    BY <2>1
  <2> HIDE DEF c
  <2>4. Rows(c) /\ \A s : StepJobs(c, s) = StepJobs(here, s)
    BY <1>2, <2>2, RowsSame
  <2>5. Run(c)
    BY <1>2, <2>2, <2>4 DEF Run, LatestSent
  <2>6. Stays(c)
    BY <2>2
  <2> QED BY <1>1, <2>3, <2>5, <2>6 DEF here
<1>7. ASSUME NEW job \in here.jobs, SendJob(l, job) \/ DropJob(l, job)
      PROVE  /\ Started(l)
             /\ \E c : Becomes(l, c) /\ Run(c) /\ Stays(c)
  <2>1. job.status = "open"
    BY <1>7 DEF SendJob, DropJob
  <2>2. \A st \in {"sent", "dropped"} :
          /\ Ended(here, {job}, st).status = here.status
          /\ \A j \in Ended(here, {job}, st).jobs :
               \E old \in here.jobs : old.at = j.at /\ old.step = j.step
    <3> TAKE st \in {"sent", "dropped"}
    <3> DEFINE d == Ended(here, {job}, st)
    <3>1. /\ DOMAIN d = RunFields /\ d.steps = here.steps /\ d.pos = here.pos
          /\ d.status = here.status
      BY <1>2 DEF Ended, RunFields
    <3>2. d.jobs = Ended(here, {job}, st).jobs
      OBVIOUS
    <3> HIDE DEF d
    <3>3. \A j \in d.jobs : \E old \in here.jobs : old.at = j.at /\ old.step = j.step
      BY <1>2, <1>7, <2>1, <3>1, <3>2, RowsEnd
    <3> QED BY <3>1, <3>3 DEF d
  <2>3. CASE DropJob(l, job)
    <3>1. Becomes(l, Ended(here, {job}, "dropped"))
      BY <2>3 DEF DropJob, here
    <3>2. Run(Ended(here, {job}, "dropped"))
      BY <1>2, <1>7, <2>1, EndedIsRun
    <3> QED BY <1>1, <2>2, <3>1, <3>2
  <2>4. CASE SendJob(l, job)
    <3> DEFINE d == Ended(here, {job}, "sent")
               o == MarkOutboundSent(d, job)
    <3>1. Becomes(l, o)
      BY <2>4 DEF SendJob, here
    <3>2. Run(o)
      BY <1>2, <1>7, <2>1, EndedIsRun
    <3>3. d.status = here.status /\ (d.status \in {"completed", "handoff"} => o = d)
      BY <2>2 DEF MarkOutboundSent
    <3>4. \A j \in d.jobs : \E old \in here.jobs : old.at = j.at /\ old.step = j.step
      BY <2>2
    <3> HIDE DEF o, d
    <3>5. Stays(o)
      BY <3>3, <3>4
    <3> QED BY <1>1, <3>1, <3>2, <3>5
  <2> QED BY <1>7, <2>3, <2>4
<1>8. CASE \E job \in conv[l].jobs : SendJob(l, job) \/ DropJob(l, job)
  BY <1>7, <1>8 DEF here
<1> QED BY <1>3, <1>4, <1>5, <1>6, <1>8

\* A request that goes on keeps what is known of the others.
LEMMA RequestInv ==
  ASSUME Inv, NEW r \in Requests, NEW q \in Request,
         intake' = [intake EXCEPT ![r] = q], UNCHANGED <<event, conv>>,
         q.phase # "new" => q.lead \in Leads,
         q.phase \notin {"accepted", "failed"},
         q.phase = "idempotent" => event[q.lead] # "none"
  PROVE  Inv'
<1>1. intake'[r] = q /\ \A p \in Requests : p # r => intake'[p] = intake[p]
  BY DEF Inv
<1>2. intake' \in [Requests -> Request]
  BY DEF Inv
<1> QED BY <1>1, <1>2 DEF Inv

\* A request that stores the event of a lead is the first to do so.
LEMMA StoreInv ==
  ASSUME Inv, NEW r \in Requests, NEW l \in Leads, NEW phase \in {"accepted", "failed"},
         intake[r].phase # "new", intake[r].lead = l, event[l] = "none",
         intake' = [intake EXCEPT ![r].phase = phase],
         event' = [event EXCEPT ![l] = phase],
         DOMAIN conv' = Leads, \A m \in Leads : m # l => conv'[m] = conv[m],
         IF phase = "accepted" THEN Run(conv'[l]) ELSE conv'[l] = NoConversation
  PROVE  Inv'
<1>1. intake[r] \in Request /\ intake \in [Requests -> Request]
  BY DEF Inv
<1>2. /\ intake'[r].phase = phase /\ intake'[r].lead = l /\ intake'[r] \in Request
      /\ \A p \in Requests : p # r => intake'[p] = intake[p]
  BY <1>1 DEF Request, Answers
<1>3. intake' \in [Requests -> Request]
  BY <1>1, <1>2
<1>4. event' \in [Leads -> {"none", "accepted", "failed"}] /\ event'[l] = phase
      /\ \A m \in Leads : m # l => event'[m] = event[m]
  BY DEF Inv
<1>5. \A p \in Requests : intake[p].phase \in {"accepted", "failed", "idempotent"} =>
        intake[p].lead # l /\ event[intake[p].lead] # "none"
  BY DEF Inv
<1>6. \A m \in Leads : IF event'[m] = "accepted" THEN Run(conv'[m]) ELSE conv'[m] = NoConversation
  BY <1>4 DEF Inv
<1>7. \A p \in Requests : /\ intake'[p].phase # "new" => intake'[p].lead \in Leads
                          /\ intake'[p].phase \in {"accepted", "failed", "idempotent"} =>
                               event'[intake'[p].lead] # "none"
  <2> TAKE p \in Requests
  <2>1. CASE p = r
    BY <1>2, <1>4, <2>1
  <2>2. CASE p # r
    BY <1>2, <1>4, <1>5, <2>2 DEF Inv
  <2> QED BY <2>1, <2>2
<1>8. \A p, q \in Requests :
        /\ intake'[p].phase \in {"accepted", "failed"} /\ intake'[q].phase \in {"accepted", "failed"}
        /\ intake'[p].lead = intake'[q].lead
        => p = q
  BY <1>2, <1>5 DEF Inv
<1> QED BY <1>3, <1>4, <1>6, <1>7, <1>8 DEF Inv

\* Each call keeps the invariant.
LEMMA NextInv == Inv /\ [Next]_vars => Inv'
<1> SUFFICES ASSUME Inv, [Next]_vars PROVE Inv'
  OBVIOUS
<1>0. \A r \in Requests : intake[r] \in Request
  BY DEF Inv
<1>1. ASSUME NEW r \in Requests, NEW l \in Leads, CheckDuplicate(r, l) PROVE Inv'
  <2> DEFINE q == [intake[r] EXCEPT !.lead = l,
                                    !.phase = IF event[l] = "none" THEN "checked" ELSE "idempotent"]
  <2>1. intake' = [intake EXCEPT ![r] = q] /\ UNCHANGED <<event, conv>>
    BY <1>1 DEF CheckDuplicate
  <2>2. /\ q \in Request /\ q.lead = l /\ q.phase \in {"checked", "idempotent"}
        /\ q.phase = "idempotent" => event[l] # "none"
    BY <1>0 DEF Request, Answers
  <2> HIDE DEF q
  <2> QED BY <2>1, <2>2, RequestInv
<1>2. ASSUME NEW r \in Requests, NEW q \in Request,
             q.lead = intake[r].lead, intake[r].phase # "new",
             intake' = [intake EXCEPT ![r] = q], UNCHANGED <<event, conv>>,
             \/ q.phase \in {"creating", "error"}
             \/ q.phase = "idempotent" /\ event[intake[r].lead] # "none"
      PROVE  Inv'
  <2>1. q.lead \in Leads
    BY <1>2 DEF Inv
  <2> QED BY <1>2, <2>1, RequestInv
<1>3. ASSUME NEW r \in Requests, StoreFailed(r) PROVE Inv'
  <2>1. intake[r].phase = "checked" /\ UNCHANGED conv /\ intake[r].lead \in Leads
    BY <1>3 DEF StoreFailed, Inv
  <2>2. CASE event[intake[r].lead] = "none"
    <3>1. /\ intake' = [intake EXCEPT ![r].phase = "failed"]
          /\ event' = [event EXCEPT ![intake[r].lead] = "failed"]
      BY <1>3, <2>2 DEF StoreFailed, Answer
    <3>2. conv'[intake[r].lead] = NoConversation /\ DOMAIN conv' = Leads
      BY <2>1, <2>2 DEF Inv
    <3> QED BY <2>1, <2>2, <3>1, <3>2, StoreInv
  <2>3. CASE event[intake[r].lead] # "none"
    <3> DEFINE q == [intake[r] EXCEPT !.phase = "error"]
    <3>1. intake' = [intake EXCEPT ![r] = q] /\ UNCHANGED <<event, conv>>
      BY <1>3, <2>3 DEF StoreFailed, Answer
    <3>2. q \in Request /\ q.lead = intake[r].lead /\ q.phase = "error"
      BY <1>0 DEF Request, Answers
    <3> HIDE DEF q
    <3> QED BY <1>2, <2>1, <3>1, <3>2
  <2> QED BY <2>2, <2>3
<1>4. ASSUME NEW r \in Requests, FindDialog(r) PROVE Inv'
  <2> DEFINE q == [intake[r] EXCEPT !.phase = "creating",
                                    !.sawDialog = event[intake[r].lead] = "accepted"]
  <2>1. /\ intake' = [intake EXCEPT ![r] = q] /\ UNCHANGED <<event, conv>>
        /\ intake[r].phase = "checked"
    BY <1>4 DEF FindDialog
  <2>2. q \in Request /\ q.lead = intake[r].lead /\ q.phase = "creating"
    BY <1>0 DEF Request, Answers
  <2> HIDE DEF q
  <2> QED BY <1>2, <2>1, <2>2
<1>5. ASSUME NEW r \in Requests, CommitLead(r) PROVE Inv'
  <2> DEFINE l == intake[r].lead
  <2>1. intake[r].phase = "creating" /\ l \in Leads
    BY <1>5 DEF CommitLead, Inv
  <2>2. CASE event[l] # "none"
    <3> DEFINE answer == IF event[l] = "accepted" /\ ~intake[r].sawDialog
                         THEN "error" ELSE "idempotent"
               q == [intake[r] EXCEPT !.phase = answer]
    <3>1. intake' = [intake EXCEPT ![r] = q] /\ UNCHANGED <<event, conv>>
      BY <1>5, <2>2 DEF CommitLead, Conflicts, Answer
    <3>2. q \in Request /\ q.lead = intake[r].lead /\ q.phase \in {"error", "idempotent"}
      BY <1>0 DEF Request, Answers
    <3> HIDE DEF q
    <3> QED BY <1>2, <2>1, <2>2, <3>1, <3>2
  <2>3. CASE event[l] = "none"
    <3>1. PICK steps \in Campaigns : conv' = [conv EXCEPT ![l] = StartRun(steps)]
      BY <1>5, <2>3 DEF CommitLead, Conflicts
    <3>2. /\ intake' = [intake EXCEPT ![r].phase = "accepted"]
          /\ event' = [event EXCEPT ![l] = "accepted"]
      BY <1>5, <2>3 DEF CommitLead, Conflicts, Answer
    <3>3. /\ DOMAIN conv' = Leads /\ conv'[l] = StartRun(steps)
          /\ \A m \in Leads : m # l => conv'[m] = conv[m]
      BY <2>1, <3>1 DEF Inv
    <3>4. Run(conv'[l])
      BY <3>3, StartedIsRun
    <3> HIDE DEF l
    <3>5. l = intake[r].lead
      BY DEF l
    <3> QED BY <2>1, <2>3, <3>2, <3>3, <3>4, <3>5, StoreInv
  <2> QED BY <2>2, <2>3
<1>6. ASSUME NEW l \in Leads,
             \/ HandleInbound(l) \/ Recover(l) \/ ResetConversation(l) \/ UpdateLeadStatus(l)
             \/ \E job \in conv[l].jobs : SendJob(l, job) \/ DropJob(l, job)
      PROVE  Inv'
  <2>1. Started(l) /\ \E c : Becomes(l, c) /\ Run(c)
    BY <1>6, ConversationSteps
  <2> QED BY <2>1, BecomesInv
<1>7. CASE UNCHANGED vars
  BY <1>7 DEF vars, Inv
<1> QED BY <1>1, <1>3, <1>4, <1>5, <1>6, <1>7 DEF Next

\* Inv holds in every reachable state.
LEMMA InvHolds == Spec => []Inv
BY InitInv, NextInv, PTL DEF Spec

(***************************************************************************)
(* The theorems.                                                            *)
(***************************************************************************)

\* However many requests for one lead overlap, one is accepted at most, runs
\* exist for accepted leads only, and "idempotent" is said of a stored event.
THEOREM CampaignAcceptedOnce == Spec => []AcceptedOnce
<1>1. ASSUME Inv, NEW l \in Leads
      PROVE  Cardinality({r \in Requests : /\ intake[r].phase \in {"accepted", "failed"}
                                           /\ intake[r].lead = l}) <= 1
  <2> DEFINE T == {r \in Requests : /\ intake[r].phase \in {"accepted", "failed"}
                                    /\ intake[r].lead = l}
  <2>1. \A r, q \in T : r = q
    BY <1>1 DEF Inv
  <2>2. CASE T = {}
    <3> HIDE DEF T
    <3>1. Cardinality(T) = 0
      BY <2>2, FS_EmptySet
    <3> QED BY <3>1 DEF T
  <2>3. CASE T # {}
    <3>1. PICK r : r \in T
      BY <2>3
    <3>2. T = {r}
      BY <2>1, <3>1
    <3> HIDE DEF T
    <3>3. Cardinality(T) = 1
      BY <3>2, FS_Singleton
    <3> QED BY <3>3 DEF T
  <2> QED BY <2>2, <2>3
<1>2. Inv => AcceptedOnce
  <2> SUFFICES ASSUME Inv PROVE AcceptedOnce
    OBVIOUS
  <2>1. \A l \in Leads : Started(l) <=> event[l] = "accepted"
    BY StartedRuns
  <2>2. \A r \in Requests : intake[r].phase = "idempotent" => event[intake[r].lead] # "none"
    BY DEF Inv
  <2> QED BY <1>1, <2>1, <2>2 DEF AcceptedOnce
<1> QED BY <1>2, InvHolds, PTL

\* In any campaign the fixed messages up to the run's position have one job each,
\* and those ahead none.
THEOREM CampaignStepsInOrder == Spec => []StepsInOrder
<1>1. ASSUME Inv, NEW l \in Leads, NEW step \in DOMAIN conv[l].steps,
             conv[l].steps[step].type = "fixed_message"
      PROVE  Cardinality({job \in conv[l].jobs : job.step = step})
               = (IF step <= conv[l].pos THEN 1 ELSE 0)
  <2> DEFINE c == conv[l]
  <2>1. CASE ~Started(l)
    <3>1. c.steps = <<>>
      BY <1>1, <2>1, StartedRuns DEF NoConversation
    <3> QED BY <1>1, <3>1
  <2>2. CASE Started(l)
    <3>1. Rows(c)
      BY <1>1, <2>2, StartedRuns DEF Run
    <3>2. step \in 1..Len(c.steps) /\ step \in Nat /\ c.pos \in Nat /\ Len(c.steps) \in Nat
      BY <1>1, <3>1, StepsAreSeq
    <3>3. CASE step <= c.pos
      <4>0. step \in 1..c.pos /\ c.steps[step].type = "fixed_message"
        BY <1>1, <3>2, <3>3
      <4> HIDE DEF c
      <4>1. PICK job : StepJobs(c, step) = {job}
        BY <3>1, <4>0 DEF Rows
      <4>2. Cardinality(StepJobs(c, step)) = 1
        BY <4>1, FS_Singleton
      <4> QED BY <3>3, <4>2 DEF StepJobs, c
    <3>4. CASE ~(step <= c.pos)
      <4>1. StepJobs(c, step) = {}
        BY <3>1, <3>4 DEF Rows, StepJobs
      <4>2. Cardinality(StepJobs(c, step)) = 0
        BY <4>1, FS_EmptySet
      <4> QED BY <3>4, <4>2 DEF StepJobs
    <3> QED BY <3>3, <3>4
  <2> QED BY <2>1, <2>2
<1>2. Inv => StepsInOrder
  BY <1>1 DEF StepsInOrder
<1> QED BY <1>2, InvHolds, PTL

\* In any campaign a run waits for the sending of a message that exists, or for
\* the answer to one that was sent.
THEOREM CampaignWaitsForItsMessage == Spec => []WaitsForItsMessage
<1>1. ASSUME Inv, NEW l \in Leads, conv[l].status = "waiting_outbound"
      PROVE  HasJob(conv[l], conv[l].awaits)
  <2>1. Run(conv[l])
    BY <1>1, StartedRuns DEF Started
  <2> QED BY <1>1, <2>1, RecoveredIsRun
<1>2. ASSUME Inv, NEW l \in Leads, conv[l].status = "awaiting_reply",
             conv[l].steps[conv[l].awaits].type \in {"fixed_message", "interest_gate"}
      PROVE  /\ HasJob(conv[l], conv[l].awaits)
             /\ LatestJob(conv[l], conv[l].awaits).status = "sent"
  <2> DEFINE c == conv[l]
  <2>1. Run(c)
    BY <1>2, StartedRuns DEF Started
  <2> HIDE DEF c
  <2>2. Rows(c) /\ c.awaits = c.pos /\ LatestSent(c, c.pos)
    BY <1>2, <2>1 DEF Run, c
  <2>3. PICK job \in StepJobs(c, c.pos) :
          job.status = "sent" /\ \A other \in StepJobs(c, c.pos) : other.at <= job.at
    BY <2>2 DEF LatestSent
  <2> DEFINE last == LatestJob(c, c.pos)
  <2>4. last \in StepJobs(c, c.pos) /\ \A other \in StepJobs(c, c.pos) : other.at <= last.at
    BY <2>2, <2>3, LatestJobExists
  <2> HIDE DEF last
  <2>5. /\ last \in c.jobs /\ job \in c.jobs /\ last.step = job.step
        /\ last.at \in Nat /\ job.at \in Nat
    BY <2>2, <2>3, <2>4 DEF StepJobs, Rows, Job
  <2>6. last = job
    <3>1. last.at = job.at
      BY <2>3, <2>4, <2>5
    <3> QED BY <2>2, <2>5, <3>1 DEF Rows
  <2>7. HasJob(c, c.awaits)
    BY <2>2, <2>3 DEF HasJob, StepJobs
  <2> QED BY <2>2, <2>3, <2>6, <2>7 DEF last, c
<1>3. Inv => WaitsForItsMessage
  BY <1>1, <1>2 DEF WaitsForItsMessage
<1> QED BY <1>3, InvHolds, PTL

\* A run that ended in a terminal state of its lead stays ended, and no call
\* creates another job for it.
THEOREM CampaignEndedStaysEnded == Spec => EndedStaysEnded
<1> DEFINE Stays(l) ==
      conv[l].status \in {"completed", "handoff"} /\ conv[l].state \in TerminalStates =>
        /\ conv'[l].status = conv[l].status
        /\ \A job \in conv'[l].jobs : \E old \in conv[l].jobs :
             old.at = job.at /\ old.step = job.step
<1>1. ASSUME Inv, [Next]_vars, NEW l \in Leads PROVE Stays(l)
  <2>1. CASE conv'[l] = conv[l]
    BY <2>1
  <2>2. ASSUME NEW m \in Leads,
               \/ HandleInbound(m) \/ Recover(m) \/ ResetConversation(m) \/ UpdateLeadStatus(m)
               \/ \E job \in conv[m].jobs : SendJob(m, job) \/ DropJob(m, job)
        PROVE  Stays(l)
    <3>1. PICK c : /\ Becomes(m, c)
                   /\ conv[m].status \in {"completed", "handoff"} /\ conv[m].state \in TerminalStates =>
                        /\ c.status = conv[m].status
                        /\ \A job \in c.jobs : \E old \in conv[m].jobs :
                             old.at = job.at /\ old.step = job.step
      BY <1>1, <2>2, ConversationSteps
    <3>2. conv'[l] = IF l = m THEN c ELSE conv[l]
      BY <1>1, <3>1 DEF Becomes, Inv
    <3>3. CASE l = m
      BY <3>1, <3>2, <3>3
    <3>4. CASE l # m
      BY <2>1, <3>2, <3>4
    <3> QED BY <3>3, <3>4
  <2>3. ASSUME NEW r \in Requests, CommitLead(r) PROVE Stays(l)
    <3>1. UNCHANGED conv \/ \E steps \in Campaigns :
            conv' = [conv EXCEPT ![intake[r].lead] = StartRun(steps)] /\ event[intake[r].lead] = "none"
      BY <2>3 DEF CommitLead, Conflicts
    <3>2. CASE l = intake[r].lead /\ event[l] = "none"
      <4>1. conv[l].status = "none"
        BY <1>1, <3>2 DEF Inv, NoConversation
      <4> QED BY <4>1
    <3>3. CASE ~(l = intake[r].lead /\ event[l] = "none")
      <4>1. conv'[l] = conv[l]
        BY <1>1, <3>1, <3>3 DEF Inv
      <4> QED BY <2>1, <4>1
    <3> QED BY <3>2, <3>3
  <2>4. ASSUME NEW r \in Requests,
               (\E m \in Leads : CheckDuplicate(r, m)) \/ StoreFailed(r) \/ FindDialog(r)
        PROVE  Stays(l)
    BY <2>1, <2>4 DEF CheckDuplicate, StoreFailed, FindDialog
  <2>5. CASE UNCHANGED vars
    BY <2>1, <2>5 DEF vars
  <2> QED BY <1>1, <2>2, <2>3, <2>4, <2>5 DEF Next
<1>2. Inv /\ [Next]_vars => [\A l \in Leads : Stays(l)]_vars
  BY <1>1
<1> QED BY <1>2, InvHolds, PTL DEF Spec, EndedStaysEnded

-----------------------------------------------------------------------------
(***************************************************************************)
(* Handing over.  The older llm_decision step opens a handoff without       *)
(* looking for an open one, so what keeps it from opening a second is where *)
(* it stands: a run reaches it once, and no step that could have opened one *)
(* comes before it.                                                         *)
(***************************************************************************)

\* True of the seeded campaigns; the code accepts others.
NoGateBeforeLlm ==
  \A steps \in Campaigns : \A i, j \in DOMAIN steps :
    i < j /\ steps[j].type = "llm_decision" => steps[i].type # "interest_gate"

\* A run has one open handoff at most, and only behind a step that decides; it
\* never moved on from a brain turn.
Handed(c) ==
  /\ c.open \in {0, 1}
  /\ c.open # 0 => \E s \in 1..c.pos : c.steps[s].type # "fixed_message"
  /\ \A s \in 1..c.pos : s < c.pos => c.steps[s].type \in {"fixed_message", "interest_gate"}

\* The handoff c had or had not, and o has.
Opens(c, o) ==
  o.open # c.open =>
    /\ c.open = 0 /\ o.open = 1
    /\ o.inbound >= MinInbound \/ o.steps[o.pos].type = "llm_decision"

\* As Handed, of a run that is about to decide at a step.
HandedAt(c, step) ==
  /\ AtStep(c, step)
  /\ c.open \in {0, 1}
  /\ c.open # 0 => \E s \in 1..c.pos : c.steps[s].type # "fixed_message"
  /\ \A s \in 1..(step - 1) : c.steps[s].type \in {"fixed_message", "interest_gate"}

\* No decision that is allowed to opens a handoff too early.
LEMMA EarlyHandoffsAreQuestions ==
  ASSUME NEW text, NEW inbound, NEW asked, NEW known, NEW llm, llm \subseteq Decision,
         NEW d, OpensHandoff(d),
         \/ d \in TurnDecisions(text, asked, known, inbound, llm)
         \/ d \in GateDecisions(text, inbound, llm)
  PROVE  inbound >= MinInbound
<1>1. \A ruled \in ClassifyInterestByRules(text) : ~OpensHandoff(ruled)
  BY DEF ClassifyInterestByRules, Decide, OpensHandoff, NormalizeState, FunnelStates,
         HandedOverStates
<1>2. d \notin ClassifyInterestByRules(text)
  BY <1>1
<1>3. \E e \in llm \cup LocalTurn(text, asked, known) : d = EnforceMinInbound(e, inbound)
  BY <1>2 DEF TurnDecisions, GateDecisions
<1>4. PICK e \in llm \cup LocalTurn(text, asked, known) : d = EnforceMinInbound(e, inbound)
  BY <1>3
<1>5. DOMAIN e = {"after", "action", "asks", "facts"}
  BY <1>4 DEF Decision, LocalTurn, Decide
<1>6. CASE /\ inbound < MinInbound \/ ~(inbound >= MinInbound)
           /\ ~(e.action # "handoff" /\ e.after \notin HandedOverStates \cup {"QUALIFIED"})
  <2>1. ASSUME ~(inbound >= MinInbound)
        PROVE  d.after = "QUALIFICATION_IN_PROGRESS" /\ d.action = "ask_question"
    BY <1>4, <1>5, <1>6, <2>1 DEF EnforceMinInbound
  <2> QED BY <2>1 DEF OpensHandoff, NormalizeState, FunnelStates, HandedOverStates
<1>7. CASE e.action # "handoff" /\ e.after \notin HandedOverStates \cup {"QUALIFIED"}
  <2>1. d = e
    BY <1>4, <1>7 DEF EnforceMinInbound
  <2> QED BY <1>7, <2>1 DEF OpensHandoff, NormalizeState, FunnelStates, HandedOverStates
<1> QED BY <1>6, <1>7

\* What a decision does to handoffs and messages.
LEMMA DecidedOpens ==
  ASSUME NEW c, DOMAIN c = RunFields, c.open \in {0, 1}, NEW d, NEW step
  PROVE  LET decided == [ApplyDecision(c, d) EXCEPT !.pos = step]
         IN  /\ decided.inbound = c.inbound
             /\ decided.open \in {0, 1}
             /\ decided.open # c.open => c.open = 0 /\ decided.open = 1 /\ OpensHandoff(d)
BY DEF ApplyDecision, RunFields

\* Scheduling opens nothing.
LEMMA ScheduleOpensNothing ==
  ASSUME NEW c, DOMAIN c = RunFields
  PROVE  ScheduleUpToStop(c).open = c.open /\ ScheduleUpToStop(c).inbound = c.inbound
BY DEF ScheduleUpToStop, AwaitReplyAfter, RunFields

\* Where scheduling leaves a run, nothing behind it decides but gates.
LEMMA ScheduledHanded ==
  ASSUME NEW c, Moving(c), c.open \in {0, 1},
         c.open # 0 => \E s \in 1..c.pos : c.steps[s].type # "fixed_message",
         \A s \in 1..c.pos : c.steps[s].type \in {"fixed_message", "interest_gate"},
         NEW d, d = ScheduleUpToStop(c)
  PROVE  /\ Handed(d) /\ d.open = c.open /\ d.inbound = c.inbound /\ d.steps = c.steps
         /\ c.pos <= d.pos /\ NextStop(c) \in (d.pos) .. (d.pos + 1)
         /\ \A s \in 1..(NextStop(c) - 1) :
              c.steps[s].type \in {"fixed_message", "interest_gate"}
<1> DEFINE stop == NextStop(c)
<1>1. /\ c.steps \in Seq(StepRecord) /\ Len(c.steps) \in Nat /\ c.pos \in Nat
      /\ c.pos \in 0..Len(c.steps) /\ DOMAIN c = RunFields
  BY StepsAreSeq DEF Moving, Rows
<1>2. /\ stop \in (c.pos + 1)..(Len(c.steps) + 1)
      /\ \A k \in (c.pos + 1)..(stop - 1) : c.steps[k].type = "fixed_message"
  BY <1>1, NextStopExists
<1>3. d.steps = c.steps /\ (d.pos = stop \/ d.pos = stop - 1)
  BY ScheduledUpToStop DEF UpTo
<1>4. d.open = c.open /\ d.inbound = c.inbound
  BY <1>1, ScheduleOpensNothing
<1> HIDE DEF stop
<1>5. stop \in Nat /\ c.pos <= d.pos /\ stop \in (d.pos) .. (d.pos + 1) /\ d.pos \in Nat
  BY <1>1, <1>2, <1>3
<1>6. \A s \in 1..(stop - 1) : c.steps[s].type \in {"fixed_message", "interest_gate"}
  <2> TAKE s \in 1..(stop - 1)
  <2>1. s \in 1..c.pos \/ s \in (c.pos + 1)..(stop - 1)
    BY <1>1, <1>5
  <2> QED BY <1>2, <2>1
<1>7. \A s \in 1..d.pos : s < d.pos => s \in 1..(stop - 1)
  BY <1>5
<1>8. \A s \in 1..c.pos : s \in 1..d.pos
  BY <1>1, <1>5
<1>9. Handed(d)
  BY <1>3, <1>4, <1>6, <1>7, <1>8 DEF Handed
<1> QED BY <1>3, <1>4, <1>5, <1>6, <1>9 DEF stop

\* A run that stays at the step it decided at.
LEMMA HandedThere ==
  ASSUME NEW c, NEW step, HandedAt(c, step), NEW o,
         o.steps = c.steps, o.pos = step, o.open \in {0, 1}
  PROVE  Handed(o)
<1>1. step \in 1..Len(c.steps) /\ c.steps[step].type # "fixed_message" /\ Len(c.steps) \in Nat
  BY StepsAreSeq DEF HandedAt, AtStep, Moving
<1>2. step \in 1..o.pos
  BY <1>1
<1>3. \A s \in 1..o.pos : s < o.pos => s \in 1..(step - 1)
  BY <1>1
<1> QED BY <1>1, <1>2, <1>3 DEF Handed, HandedAt

\* Whatever is decided at a step, at most one handoff is open, and no earlier
\* than it may be.
LEMMA StepOutcomesHanded ==
  ASSUME NoGateBeforeLlm, NEW c, NEW step, HandedAt(c, step), NEW text,
         NEW first \in BOOLEAN, first => c.pos + 1 = step,
         NEW o \in StepOutcomes(c, step, text, first)
  PROVE  Handed(o) /\ Opens(c, o)
<1>0. Rows(c) /\ c.open \in {0, 1} /\ step \in 1..Len(c.steps)
  BY DEF HandedAt, AtStep, Moving
<1>1. /\ DOMAIN c = RunFields /\ c.open \in {0, 1} /\ Rows(c)
      /\ step \in 1..Len(c.steps) /\ Len(c.steps) \in Nat /\ c.pos \in Nat /\ step \in Nat
      /\ c.steps \in Campaigns /\ c.steps \in Seq(StepRecord)
  <2>1. DOMAIN c = RunFields /\ c.steps \in Campaigns
    BY <1>0 DEF Rows
  <2> QED BY <1>0, <2>1, StepsAreSeq
<1>2. LlmDecisions \subseteq Decision
  BY CampaignConstantsOK
<1>3. CASE c.steps[step].type = "interest_gate"
  <2>1. PICK d \in GateDecisions(text, c.inbound, LlmDecisions) : o = RunInterestGate(c, step, d)
    BY <1>3 DEF StepOutcomes
  <2> DEFINE decided == [ApplyDecision(c, d) EXCEPT !.pos = step]
  <2>2. /\ DOMAIN decided = RunFields /\ decided.steps = c.steps /\ decided.jobs = c.jobs
        /\ decided.pos = step /\ decided.status = "active" /\ decided.awaits = 0
    BY <1>1, DecidedKeeps DEF HandedAt, AtStep, Moving
  <2>3. /\ decided.inbound = c.inbound /\ decided.open \in {0, 1}
        /\ decided.open # c.open => c.open = 0 /\ decided.open = 1 /\ OpensHandoff(d)
    BY <1>1, DecidedOpens
  <2>4. decided.open # c.open => c.inbound >= MinInbound
    BY <1>2, <2>1, <2>3, EarlyHandoffsAreQuestions
  <2>5. o = IF d.after \in TerminalStates THEN [decided EXCEPT !.status = "completed"]
            ELSE IF HasReply(d) THEN AwaitReplyAfter(ScheduleReply(decided, step, d.asks), step)
            ELSE IF GateContinues(d) THEN ScheduleUpToStop(decided) ELSE decided
    BY <2>1 DEF RunInterestGate
  <2> HIDE DEF decided
  <2>6. CASE o # ScheduleUpToStop(decided)
    <3>1. /\ o.steps = c.steps /\ o.pos = step
          /\ o.open = decided.open /\ o.inbound = c.inbound
      BY <2>2, <2>3, <2>5, <2>6 DEF AwaitReplyAfter, ScheduleReply, RunFields
    <3> QED BY <2>3, <2>4, <3>1, HandedThere DEF Opens
  <2>7. CASE o = ScheduleUpToStop(decided)
    <3>1. Rows(decided)
      BY <2>2, MovedToStep DEF HandedAt
    <3>2. Moving(decided)
      BY <2>2, <3>1 DEF Moving
    <3>3. \A s \in 1..step : s = step \/ s \in 1..(step - 1)
      BY <1>1
    <3>4. \A s \in 1..decided.pos :
            decided.steps[s].type \in {"fixed_message", "interest_gate"}
      BY <1>3, <2>2, <3>3 DEF HandedAt
    <3>5. \E s \in 1..decided.pos : decided.steps[s].type # "fixed_message"
      BY <1>1, <1>3, <2>2
    <3>6. Handed(o) /\ o.open = decided.open /\ o.inbound = decided.inbound
      BY <2>3, <2>7, <3>2, <3>4, <3>5, ScheduledHanded
    <3> QED BY <2>3, <2>4, <3>6 DEF Opens
  <2> QED BY <2>6, <2>7
<1>4. CASE c.steps[step].type = "llm_decision" /\ first
  <2>1. PICK verdict, replies : o = RunLlmStep(c, step, verdict, replies)
    BY <1>4 DEF StepOutcomes
  <2>2. c.open = 0
    <3> SUFFICES ASSUME c.open # 0 PROVE FALSE
      BY <1>1
    <3>1. PICK s \in 1..c.pos : c.steps[s].type # "fixed_message"
      BY DEF HandedAt
    <3>2. s \in 1..(step - 1) /\ s < step /\ s \in 1..Len(c.steps)
      BY <1>1, <1>4
    <3>3. c.steps[s].type = "interest_gate"
      BY <3>1, <3>2 DEF HandedAt
    <3>4. s \in DOMAIN c.steps /\ step \in DOMAIN c.steps
      BY <1>1, <3>2
    <3> QED BY <1>1, <1>4, <3>2, <3>3, <3>4 DEF NoGateBeforeLlm
  <2>3. /\ o.steps = c.steps /\ o.pos = step /\ o.open \in {0, 1}
    BY <1>1, <2>1, <2>2 DEF RunLlmStep, ScheduleReply, RunFields
  <2> QED BY <1>4, <2>2, <2>3, HandedThere DEF Opens
<1>5. CASE /\ c.steps[step].type # "interest_gate"
           /\ ~(c.steps[step].type = "llm_decision" /\ first)
  <2>1. PICK d \in TurnDecisions(text, c.asked, c.facts, c.inbound, LlmDecisions) :
          o = RunBrainStep(c, step, d)
    BY <1>5 DEF StepOutcomes
  <2> DEFINE decided == [ApplyDecision(c, d) EXCEPT !.pos = step]
             over == IF d.action = "handoff" \/ d.after \in HandedOverStates
                     THEN "handoff" ELSE "completed"
  <2>2. DOMAIN decided = RunFields /\ decided.steps = c.steps /\ decided.pos = step
    BY <1>1, DecidedKeeps
  <2>3. /\ decided.inbound = c.inbound /\ decided.open \in {0, 1}
        /\ decided.open # c.open => c.open = 0 /\ decided.open = 1 /\ OpensHandoff(d)
    BY <1>1, DecidedOpens
  <2>4. decided.open # c.open => c.inbound >= MinInbound
    BY <1>2, <2>1, <2>3, EarlyHandoffsAreQuestions
  <2>5. o = IF TurnEnds(d) THEN [decided EXCEPT !.status = over]
            ELSE IF HasReply(d) THEN AwaitReplyAfter(ScheduleReply(decided, step, d.asks), step)
            ELSE [decided EXCEPT !.status = "awaiting_reply", !.awaits = step]
    BY <2>1 DEF RunBrainStep
  <2> HIDE DEF decided
  <2>6. /\ o.steps = c.steps /\ o.pos = step
        /\ o.open = decided.open /\ o.inbound = c.inbound
    BY <2>2, <2>3, <2>5 DEF AwaitReplyAfter, ScheduleReply, RunFields
  <2> QED BY <2>3, <2>4, <2>6, HandedThere DEF Opens
<1> QED BY <1>3, <1>4, <1>5

\* A message of the candidate opens at most the one handoff.
LEMMA InboundHanded ==
  ASSUME NoGateBeforeLlm, NEW c, Run(c), Handed(c), NEW text, NEW o \in InboundOutcomes(c, text)
  PROVE  Handed(o) /\ Opens(c, o)
<1> DEFINE run == Reopened(c)
           step == run.awaits
           back == [run EXCEPT !.status = "active", !.awaits = 0, !.pos = step]
<1>1. /\ Rows(c) /\ DOMAIN c = RunFields /\ c.pos # 0
      /\ Len(c.steps) \in Nat /\ c.pos \in Nat /\ c.pos \in 0..Len(c.steps)
  BY StepsAreSeq DEF Run, Rows
<1>2. /\ run.status # "awaiting_reply" => o = run
      /\ run.status = "awaiting_reply" /\ run.steps[step].type = "fixed_message" =>
           o \in ProcessNextSteps(back, text)
      /\ run.status = "awaiting_reply" /\ run.steps[step].type # "fixed_message" =>
           o \in StepOutcomes(back, step, text, FALSE)
  BY DEF InboundOutcomes
<1>3. /\ DOMAIN run = RunFields /\ run.steps = c.steps /\ run.pos = c.pos /\ run.jobs = c.jobs
      /\ run.open = c.open /\ run.inbound = c.inbound
      /\ \/ run = c
         \/ /\ run.status = "awaiting_reply" /\ run.awaits = c.pos
            /\ c.steps[c.pos].type \in {"brain_turn", "llm_decision"}
  BY <1>1 DEF Reopened, CanReopen, RunFields
<1> HIDE DEF run
<1>4. CASE run.status # "awaiting_reply"
  BY <1>2, <1>3, <1>4 DEF Handed, Opens
<1>5. CASE run.status = "awaiting_reply"
  <2>1. step = c.pos
    BY <1>3, <1>5 DEF Run
  <2>2. /\ DOMAIN back = RunFields /\ back.steps = c.steps /\ back.pos = c.pos
        /\ back.jobs = c.jobs /\ back.status = "active" /\ back.awaits = 0
        /\ back.open = c.open /\ back.inbound = c.inbound
    BY <1>3, <2>1 DEF RunFields
  <2> HIDE DEF back
  <2>3. Moving(back)
    BY <1>1, <2>2, RowsSame DEF Moving
  <2>4. CASE c.steps[c.pos].type = "fixed_message"
    <3> DEFINE done == ScheduleUpToStop(back)
               stop == NextStop(back)
    <3>1. o \in ProcessNextSteps(back, text)
      BY <1>2, <1>3, <1>5, <2>1, <2>4
    <3>2. \A s \in 1..c.pos : s < c.pos \/ s = c.pos
      BY <1>1
    <3>3. \A s \in 1..back.pos : back.steps[s].type \in {"fixed_message", "interest_gate"}
      BY <2>2, <2>4, <3>2 DEF Handed
    <3>4. /\ Handed(done) /\ done.open = c.open /\ done.inbound = c.inbound
          /\ done.steps = c.steps /\ stop \in (done.pos) .. (done.pos + 1)
          /\ \A s \in 1..(stop - 1) : c.steps[s].type \in {"fixed_message", "interest_gate"}
      BY <2>2, <2>3, <3>3, ScheduledHanded DEF Handed
    <3>5. UpTo(back, done, stop)
      BY <2>3, ScheduledUpToStop
    <3>6. \/ o = done
          \/ /\ ~(stop > Len(c.steps) \/ c.steps[stop].type = "fixed_message")
             /\ o \in StepOutcomes(done, stop, text, TRUE)
      BY <2>2, <3>1 DEF ProcessNextSteps
    <3> HIDE DEF done, stop
    <3>7. CASE o = done
      BY <3>4, <3>7 DEF Opens
    <3>8. CASE o # done
      <4>1. stop \in Nat /\ stop >= 1
        BY <1>1, <2>2, <3>5 DEF UpTo
      <4>a. stop \in 1..Len(c.steps) /\ back.steps[stop].type # "fixed_message"
            /\ ~(stop > Len(back.steps)) /\ stop <= Len(back.steps)
        <5>1. ~(stop > Len(c.steps)) /\ c.steps[stop].type # "fixed_message"
          BY <3>6, <3>8
        <5>2. stop <= Len(c.steps) /\ stop \in 1..Len(c.steps)
          BY <1>1, <4>1, <5>1
        <5> QED BY <2>2, <5>1, <5>2
      <4>2. /\ Rows(done) /\ done.status = "active" /\ done.awaits = 0
            /\ done.pos = stop - 1 /\ stop \in 1..Len(c.steps)
        BY <3>5, <4>a DEF UpTo
      <4>3. done.pos + 1 = stop
        BY <4>1, <4>2
      <4>4. AtStep(done, stop)
        BY <3>4, <3>6, <3>8, <4>2, <4>3 DEF AtStep, Moving
      <4>5. HandedAt(done, stop)
        BY <3>4, <4>4 DEF HandedAt, Handed
      <4>6. Handed(o) /\ Opens(done, o)
        BY <3>6, <3>8, <4>3, <4>5, StepOutcomesHanded
      <4> QED BY <3>4, <4>6 DEF Opens
    <3> QED BY <3>7, <3>8
  <2>5. CASE c.steps[c.pos].type # "fixed_message"
    <3>0. run.steps[step].type # "fixed_message"
      BY <1>3, <2>1, <2>5
    <3>1. o \in StepOutcomes(back, step, text, FALSE)
      BY <1>2, <1>5, <3>0
    <3>2. c.steps[c.pos].type = "interest_gate" =>
            \A job \in StepJobs(back, c.pos) : job.status # "open"
      <4> SUFFICES ASSUME c.steps[c.pos].type = "interest_gate"
                   PROVE  \A job \in StepJobs(back, c.pos) : job.status # "open"
        OBVIOUS
      <4>1. run = c
        BY <1>3
      <4>2. LatestSent(c, c.pos)
        BY <1>5, <4>1 DEF Run
      <4>3. StepJobs(back, c.pos) = StepJobs(c, c.pos)
        BY <2>2 DEF StepJobs
      <4> QED BY <1>1, <4>2, <4>3, SentIsAnswered
    <3>3. step \in 1..Len(c.steps)
      BY <1>1, <2>1
    <3>4. AtStep(back, step)
      BY <2>1, <2>2, <2>3, <2>5, <3>2, <3>3 DEF AtStep
    <3>5. \A s \in 1..(step - 1) : s \in 1..c.pos /\ s < c.pos
      BY <1>1, <2>1
    <3>6. HandedAt(back, step)
      BY <2>2, <3>4, <3>5 DEF HandedAt, Handed
    <3>7. Handed(o) /\ Opens(back, o)
      BY <3>1, <3>6, StepOutcomesHanded
    <3> QED BY <2>2, <3>7 DEF Opens
  <2> QED BY <2>4, <2>5
<1> QED BY <1>4, <1>5

\* So does whatever else happens to a conversation.
LEMMA ConversationHanded ==
  ASSUME NoGateBeforeLlm, Inv, NEW l \in Leads, Handed(conv[l]), NEW c, Becomes(l, c),
         \/ HandleInbound(l) \/ Recover(l) \/ ResetConversation(l) \/ UpdateLeadStatus(l)
         \/ \E job \in conv[l].jobs : SendJob(l, job) \/ DropJob(l, job)
  PROVE  Handed(c) /\ Opens(conv[l], c)
<1> DEFINE here == conv[l]
           Same(d) == /\ d.open = here.open /\ d.inbound = here.inbound
                      /\ d.steps = here.steps /\ d.pos = here.pos
<1>1. Run(here) /\ DOMAIN here = RunFields /\ Rows(here)
  <2>1. Started(l)
    BY ConversationSteps
  <2> QED BY <2>1, StartedRuns DEF Run, Rows
<1>2. conv' = [conv EXCEPT ![l] = c] /\ DOMAIN conv = Leads
  BY DEF Becomes, Inv
<1>3. \A d : Becomes(l, d) => d = c
  BY <1>2 DEF Becomes
<1>4. ASSUME NEW d, Same(d), Becomes(l, d) PROVE Handed(c) /\ Opens(conv[l], c)
  BY <1>3, <1>4 DEF Handed, Opens
<1> HIDE DEF here
<1>5. CASE HandleInbound(l)
  <2> DEFINE d == [here EXCEPT !.inbound = @ + 1]
  <2>0. PICK text \in Texts : \E o \in InboundOutcomes(d, text) : Becomes(l, o)
    BY <1>5 DEF HandleInbound, here
  <2>1. c \in InboundOutcomes(d, text)
    BY <1>3, <2>0
  <2>2. /\ DOMAIN d = RunFields /\ d.steps = here.steps /\ d.pos = here.pos /\ d.jobs = here.jobs
        /\ d.status = here.status /\ d.awaits = here.awaits /\ d.open = here.open
    BY <1>1 DEF RunFields
  <2> HIDE DEF d
  <2>3. Rows(d) /\ \A s : StepJobs(d, s) = StepJobs(here, s)
    BY <1>1, <2>2, RowsSame
  <2>4. Run(d)
    BY <1>1, <2>2, <2>3 DEF Run, LatestSent
  <2>5. Handed(here)
    BY DEF here
  <2>6. Handed(d)
    BY <2>2, <2>5 DEF Handed
  <2>7. Handed(c) /\ Opens(d, c)
    BY <2>1, <2>4, <2>6, InboundHanded
  <2>8. Opens(here, c)
    BY <2>2, <2>7 DEF Opens
  <2> QED BY <2>7, <2>8 DEF here
<1>6. CASE Recover(l)
  <2>1. here.status = "waiting_outbound" /\ HasJob(here, here.awaits)
    BY <1>1, <1>6, RecoveredIsRun DEF Recover, here
  <2>2. \E status : Becomes(l, [here EXCEPT !.status = status])
    BY <1>6, <2>1 DEF Recover, here
  <2>3. \A status : Same([here EXCEPT !.status = status])
    BY <1>1 DEF RunFields
  <2> QED BY <1>4, <2>2, <2>3
<1>7. CASE ResetConversation(l)
  <2>1. PICK J, state, status :
          Becomes(l, [Ended(here, J, "dropped") EXCEPT !.state = state, !.status = status])
    BY <1>7 DEF ResetConversation, here, Ended
  <2> DEFINE d == [Ended(here, J, "dropped") EXCEPT !.state = state, !.status = status]
  <2>2. Same(d)
    BY <1>1 DEF RunFields, Ended
  <2> HIDE DEF d
  <2>3. Becomes(l, d)
    BY <2>1 DEF d
  <2> QED BY <1>4, <2>2, <2>3
<1>8. CASE UpdateLeadStatus(l)
  <2>1. \E state : Becomes(l, [here EXCEPT !.state = state])
    BY <1>8 DEF UpdateLeadStatus, here
  <2>2. \A state : Same([here EXCEPT !.state = state])
    BY <1>1 DEF RunFields
  <2> QED BY <1>4, <2>1, <2>2
<1>9. ASSUME NEW job, SendJob(l, job) \/ DropJob(l, job)
      PROVE  Handed(c) /\ Opens(conv[l], c)
  <2>1. \E st, d : d = Ended(here, {job}, st) /\ (Becomes(l, d) \/ Becomes(l, MarkOutboundSent(d, job)))
    BY <1>9 DEF SendJob, DropJob, here
  <2>2. PICK st, d : /\ d = Ended(here, {job}, st)
                     /\ Becomes(l, d) \/ Becomes(l, MarkOutboundSent(d, job))
    BY <2>1
  <2>3. Same(d) /\ DOMAIN d = RunFields
    BY <1>1, <2>2 DEF RunFields, Ended
  <2>4. Same(MarkOutboundSent(d, job))
    BY <2>3 DEF RunFields, MarkOutboundSent
  <2> QED BY <1>4, <2>2, <2>3, <2>4
<1> QED BY <1>5, <1>6, <1>7, <1>8, <1>9

\* A new run has handed nothing over.
LEMMA StartedHanded ==
  ASSUME NEW steps \in Campaigns PROVE Handed(StartRun(steps))
<1> DEFINE c == [NoConversation EXCEPT !.steps = steps, !.status = "active"]
<1>1. /\ DOMAIN c = RunFields /\ c.steps = steps /\ c.status = "active" /\ c.awaits = 0
      /\ c.pos = 0 /\ c.jobs = {} /\ c.open = 0
  BY DEF NoConversation, RunFields
<1> HIDE DEF c
<1>2. Rows(c)
  <2>1. IsFiniteSet(c.jobs) /\ c.jobs \subseteq Job
    BY <1>1, FS_EmptySet
  <2>2. Len(c.steps) \in Nat
    BY <1>1, CampaignConstantsOK
  <2>3. 1..c.pos = {} /\ c.pos \in 0..Len(c.steps)
    BY <1>1, <2>2
  <2> QED BY <1>1, <2>1, <2>3 DEF Rows
<1>3. 1..c.pos = {} /\ Moving(c)
  BY <1>1, <1>2 DEF Moving
<1>4. Handed(ScheduleUpToStop(c))
  BY <1>1, <1>3, ScheduledHanded
<1> QED BY <1>4 DEF StartRun, c

HandedInv == \A l \in Leads : Handed(conv[l])

\* Every call keeps it, and opens at most the one handoff.
LEMMA HandedStep ==
  ASSUME NoGateBeforeLlm, Inv, HandedInv, [Next]_vars
  PROVE  HandedInv' /\ \A l \in Leads : Opens(conv[l], conv'[l])
<1>0. DOMAIN conv = Leads
  BY DEF Inv
<1>1. CASE conv' = conv
  BY <1>1 DEF HandedInv, Handed, Opens
<1>2. ASSUME NEW m \in Leads,
             \/ HandleInbound(m) \/ Recover(m) \/ ResetConversation(m) \/ UpdateLeadStatus(m)
             \/ \E job \in conv[m].jobs : SendJob(m, job) \/ DropJob(m, job)
      PROVE  HandedInv' /\ \A l \in Leads : Opens(conv[l], conv'[l])
  <2>1. PICK c : Becomes(m, c)
    BY <1>2, ConversationSteps
  <2>2. Handed(c) /\ Opens(conv[m], c)
    BY <1>2, <2>1, ConversationHanded DEF HandedInv
  <2>3. \A l \in Leads : conv'[l] = IF l = m THEN c ELSE conv[l]
    BY <1>0, <2>1 DEF Becomes
  <2>4. \A l \in Leads : Handed(conv'[l])
    BY <2>2, <2>3 DEF HandedInv
  <2>5. \A l \in Leads : Opens(conv[l], conv'[l])
    BY <2>2, <2>3 DEF Opens
  <2> QED BY <2>4, <2>5 DEF HandedInv, Handed
<1>3. ASSUME NEW r \in Requests, CommitLead(r)
      PROVE  HandedInv' /\ \A l \in Leads : Opens(conv[l], conv'[l])
  <2>1. CASE conv' = conv
    BY <1>1, <2>1
  <2>2. CASE event[intake[r].lead] = "none"
    <3> DEFINE m == intake[r].lead
    <3>1. PICK steps \in Campaigns : conv' = [conv EXCEPT ![m] = StartRun(steps)]
      BY <1>3, <2>2 DEF CommitLead, Conflicts
    <3>2. m \in Leads /\ conv[m] = NoConversation
      BY <1>3, <2>2 DEF CommitLead, Inv
    <3> HIDE DEF m
    <3>3. \A l \in Leads : conv'[l] = IF l = m THEN StartRun(steps) ELSE conv[l]
      BY <1>0, <3>1
    <3>4. Handed(StartRun(steps)) /\ StartRun(steps).open = 0
      <4>1. DOMAIN [NoConversation EXCEPT !.steps = steps, !.status = "active"] = RunFields
        BY DEF NoConversation, RunFields
      <4>2. [NoConversation EXCEPT !.steps = steps, !.status = "active"].open = 0
        BY DEF NoConversation
      <4> QED BY <4>1, <4>2, StartedHanded, ScheduleOpensNothing DEF StartRun
    <3>5. conv[m].open = 0
      BY <3>2 DEF NoConversation
    <3>6. \A l \in Leads : Handed(conv'[l])
      BY <3>3, <3>4 DEF HandedInv
    <3>7. \A l \in Leads : Opens(conv[l], conv'[l])
      BY <3>3, <3>4, <3>5 DEF Opens
    <3> QED BY <3>6, <3>7 DEF HandedInv, Handed
  <2> QED BY <1>3, <2>1, <2>2 DEF CommitLead, Conflicts
<1>4. ASSUME NEW r \in Requests,
             (\E m \in Leads : CheckDuplicate(r, m)) \/ StoreFailed(r) \/ FindDialog(r)
      PROVE  conv' = conv
  BY <1>4 DEF CheckDuplicate, StoreFailed, FindDialog
<1>5. CASE UNCHANGED vars
  BY <1>1, <1>5 DEF vars
<1> QED BY <1>1, <1>2, <1>3, <1>4, <1>5 DEF Next

\* In campaigns without a gate before an llm_decision step, a handoff is opened
\* only while none is open, and only for a candidate who has written often enough
\* or at that older step.
THEOREM CampaignHandsOverOnce ==
  ASSUME NoGateBeforeLlm
  PROVE  Spec => HandsOverOnce
<1>1. Init => HandedInv
  <2>1. Handed(NoConversation)
    BY DEF Handed, NoConversation
  <2>2. Init => \A l \in Leads : conv[l] = NoConversation
    BY DEF Init
  <2> QED BY <2>1, <2>2 DEF HandedInv
<1>2. Inv /\ HandedInv /\ [Next]_vars => HandedInv'
  BY HandedStep
<1>3. Inv /\ HandedInv /\ [Next]_vars =>
        [\A l \in Leads : conv'[l].open # conv[l].open =>
           /\ conv[l].open = 0 /\ conv'[l].open = 1
           /\ \/ conv'[l].inbound >= MinInbound
              \/ conv'[l].steps[conv'[l].pos].type = "llm_decision"]_vars
  BY HandedStep DEF Opens
<1> QED BY <1>1, <1>2, <1>3, InvHolds, PTL DEF Spec, HandsOverOnce

=============================================================================
